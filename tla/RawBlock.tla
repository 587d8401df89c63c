------------------------------ MODULE RawBlock ------------------------------
(***************************************************************************)
(* The raw block codec of taos-query/src/common/raw/mod.rs and the         *)
(* reader's choice between its two entry points (taos-ws/src/asyn.rs).     *)
(* A buffer is a sequence of bytes (0..255).  The decoders are translated  *)
(* from the Rust code: RawData::parse_from_raw_block (v3: header, then a   *)
(* bitmap or an offsets array and the data of each column) and             *)
(* RawData::parse_from_raw_block_v2 (dense columns, nulls told by          *)
(* sentinel values).  The encoders are the reference: the layout of the    *)
(* spec (sections 4.3, 4.4), as a server writes it.                        *)
(*                                                                         *)
(* A column holds rows that are Null or a small value: for a fixed-width   *)
(* type the element's value, for VarChar/NChar/Json the byte length of its *)
(* string, whose bytes are all 'a'.                                        *)
(***************************************************************************)
EXTENDS Naturals, Integers, Sequences, SequencesExt, Bitwise

CONSTANTS
  MaxRows,    \* most rows in a block of one column
  MaxRowsMulti, \* most rows in a block of more columns
  MaxCols,    \* most columns in a block
  Tys,        \* the type codes columns are drawn from
  FixedVals,  \* non-null values of a fixed-width element
  StrLens,    \* byte lengths of a non-null string
  Null        \* model value: a None row

NB == INSTANCE NullBits

(* Ty codes (Ty::Bool is TyBool ...), as in test_block_parser.          *)
TyBool == 1
TyTinyInt == 2
TySmallInt == 3
TyInt == 4
TyBigInt == 5
TyFloat == 6
TyDouble == 7
TyVarChar == 8
TyTimestamp == 9
TyNChar == 10
TyUTinyInt == 11
TyUSmallInt == 12
TyUInt == 13
TyUBigInt == 14
TyJson == 15

VarTys == {TyVarChar, TyNChar, TyJson}

(* Element sizes of the fixed-width views (size_of::<$prim>()).            *)
ElemSize == (TyBool :> 1 @@ TyTinyInt :> 1 @@ TySmallInt :> 2 @@ TyInt :> 4 @@
             TyBigInt :> 8 @@ TyFloat :> 4 @@ TyDouble :> 8 @@ TyTimestamp :> 8 @@
             TyUTinyInt :> 1 @@ TyUSmallInt :> 2 @@ TyUInt :> 4 @@ TyUBigInt :> 8)

FixedTys == DOMAIN ElemSize

(* Slot width of a v2 string column: the schema length plus the 2-byte     *)
(* prefix, room for the NChar/Json null marker and the longest string.   *)
V2Width == 6

(* Little-endian bytes of a non-negative value below 2^24.                 *)
LE(v, k) == [i \in 1..k |-> IF i <= 3 THEN (v \div 256^(i - 1)) % 256 ELSE 0]

(* A little-endian read of k bytes at offset `at`.  Every value the model  *)
(* compares with a length or an offset is below 2^24; a larger one reads   *)
(* as TooBig, which equals none of them.                                   *)
TooBig == 2^24
ReadLE(bytes, at, k) ==
  IF \E i \in 4..k : bytes[at + i] # 0 THEN TooBig
  ELSE LET b(i) == IF i <= k THEN bytes[at + i] ELSE 0
       IN b(1) + 256 * b(2) + 65536 * b(3)

Fill(n, b) == [i \in 1..n |-> b]

(* Bytes::slice(a..b): the bytes a..b-1; it panics when b > len.           *)
Slice(bytes, a, b) == SubSeq(bytes, a + 1, b)
InBounds(bytes, b) == b <= Len(bytes)

-----------------------------------------------------------------------------
(***************************************************************************)
(* v3: parse_from_raw_block.                                               *)
(***************************************************************************)
GROUP_ID_OFFSET == 4
SCHEMA_OFFSET == GROUP_ID_OFFSET + 8
ColSchemaSize == 6       \* 2-byte type tag + 4-byte declared length

schema_end(cols) == SCHEMA_OFFSET + cols * ColSchemaSize
lengths_end(cols) == schema_end(cols) + 4 * cols

(* Header fields: len, the type of each schema, the lengths array.         *)
SchemaTy(bytes, col) == ReadLE(bytes, SCHEMA_OFFSET + (col - 1) * ColSchemaSize, 2)
(* Variant reading lengths[0] for every column.                           *)
ColLengthFirst(bytes, cols, col) == ReadLE(bytes, schema_end(cols), 4)
ColLength(bytes, cols, col) == ReadLE(bytes, schema_end(cols) + (col - 1) * 4, 4)

(* Variant whose null bitmap takes (rows + 8) >> 3 bytes.                   *)
V3ColumnBitmapPlus8(ty, length, rows, o) ==
  IF ty \in VarTys
  THEN [var |-> TRUE, o1 |-> o, o2 |-> o + 4 * rows, end |-> o + 4 * rows + length]
  ELSE [var |-> FALSE, o1 |-> o, o2 |-> o + shiftR(rows + 8, 3),
        end |-> o + shiftR(rows + 8, 3) + rows * ElemSize[ty]]

(* One turn of the column loop: a fixed-width column is a bitmap of        *)
(* (rows + 7) >> 3 bytes then rows * size bytes, whatever lengths[col]     *)
(* says; a string column is 4 * rows offset bytes then `length` bytes.     *)
V3Column(ty, length, rows, o) ==
  IF ty \in VarTys
  THEN [var |-> TRUE, o1 |-> o, o2 |-> o + 4 * rows, end |-> o + 4 * rows + length]
  ELSE [var |-> FALSE, o1 |-> o, o2 |-> o + shiftR(rows + 7, 3),
        end |-> o + shiftR(rows + 7, 3) + rows * ElemSize[ty]]

(* The loop over columns: the regions, each from the previous data_offset. *)
RECURSIVE WalkColumns(_, _, _, _, _)
WalkColumns(bytes, rows, cols, col, data_offset) ==
  IF col > cols THEN <<>>
  ELSE LET r == V3Column(SchemaTy(bytes, col), ColLength(bytes, cols, col), rows, data_offset)
       IN <<r>> \o WalkColumns(bytes, rows, cols, col + 1, r.end)

(* A string column's offsets as i32: all ones is -1.                       *)
ReadI32(bytes, at) == IF Slice(bytes, at, at + 4) = Fill(4, 255) THEN -1
                      ELSE ReadLE(bytes, at, 4)

(* The column views of a walk: a bitmap and data, or offsets and data.     *)
V3View(bytes, rows, r) ==
  IF r.var
  THEN [var |-> TRUE, offs |-> [i \in 1..rows |-> ReadI32(bytes, r.o1 + 4 * (i - 1))],
        data |-> Slice(bytes, r.o2, r.end)]
  ELSE [var |-> FALSE, nulls |-> Slice(bytes, r.o1, r.o2), data |-> Slice(bytes, r.o2, r.end)]

(* parse_from_raw_block(bytes, rows, cols): "panic" on an unknown type     *)
(* (unreachable!) or a slice past the end; otherwise the schemas, the      *)
(* views, the final data_offset and whether every debug_assert!(          *)
(* data_offset <= len) held.                                               *)
parse_from_raw_block(bytes, rows, cols) ==
  LET len == ReadLE(bytes, 0, 4)
      tys == [c \in 1..cols |-> SchemaTy(bytes, c)]
  IN IF ~InBounds(bytes, lengths_end(cols)) \/ \E c \in 1..cols : tys[c] \notin FixedTys \cup VarTys
     THEN [status |-> "panic"]
     ELSE LET regions == WalkColumns(bytes, rows, cols, 1, lengths_end(cols))
          IN IF \E c \in 1..cols : ~InBounds(bytes, regions[c].end)
             THEN [status |-> "panic"]
             ELSE [status   |-> "ok", len |-> len, tys |-> tys,
                   views    |-> [c \in 1..cols |-> V3View(bytes, rows, regions[c])],
                   consumed |-> IF cols = 0 THEN lengths_end(0) ELSE regions[cols].end,
                   asserted |-> \A c \in 1..cols : regions[c].end <= len]


-----------------------------------------------------------------------------
(***************************************************************************)
(* v2: parse_from_raw_block_v2, given the fields' types, the lengths the   *)
(* fetch reply carries and rows.                                           *)
(***************************************************************************)
BIG_INT_NULL == <<0, 0, 0, 0, 0, 0, 0, 128>>

(* Variant with FLOAT_NULL as the commented-out 0x7FF00000i32 as f32: the  *)
(* float 2146435072.0, whose bits are 0x4EFFE000.                          *)
V2NullPatternFloatValue ==
  TyBool :> <<2>> @@ TyTinyInt :> <<128>> @@ TySmallInt :> <<0, 128>> @@
  TyInt :> <<0, 0, 0, 128>> @@ TyBigInt :> BIG_INT_NULL @@
  TyUTinyInt :> <<255>> @@ TyUSmallInt :> Fill(2, 255) @@ TyUInt :> Fill(4, 255) @@
  TyUBigInt :> Fill(8, 255) @@ TyFloat :> <<0, 224, 255, 78>> @@
  TyDouble :> <<0, 0, 0, 0, 0, 255, 255, 127>> @@ TyTimestamp :> BIG_INT_NULL

(* The *_is_null functions: the element's bytes, read as the unsigned of   *)
(* its width, equal the type's constant (here as its little-endian bytes). *)
(* Timestamp uses BIG_INT_NULL.                                            *)
V2NullPattern ==
  TyBool :> <<2>> @@ TyTinyInt :> <<128>> @@ TySmallInt :> <<0, 128>> @@
  TyInt :> <<0, 0, 0, 128>> @@ TyBigInt :> BIG_INT_NULL @@
  TyUTinyInt :> <<255>> @@ TyUSmallInt :> Fill(2, 255) @@ TyUInt :> Fill(4, 255) @@
  TyUBigInt :> Fill(8, 255) @@ TyFloat :> <<0, 0, 240, 127>> @@
  TyDouble :> <<0, 0, 0, 0, 0, 255, 255, 127>> @@ TyTimestamp :> BIG_INT_NULL

(* The null test of a string slot at `at`: its u16 length is 1 and the     *)
(* next byte 0xFF (VarChar), or 4 and the next u32 0xFFFFFFFF (NChar,      *)
(* Json).                                                                  *)
V2SlotIsNull(ty, bytes, at) ==
  LET len == ReadLE(bytes, at, 2) IN
  IF ty = TyVarChar THEN len = 1 /\ bytes[at + 3] = 255
  ELSE len = 4 /\ Slice(bytes, at + 2, at + 6) = Fill(4, 255)

(* Where the column ends: rows elements, or rows slots of `length` bytes.  *)
V2End(ty, length, rows, o) ==
  IF ty \in VarTys THEN o + length * rows ELSE o + rows * ElemSize[ty]

(* The view of one column starting at o: for a string column, offsets      *)
(* row * length or -1 over the whole slots; otherwise the dense data and a *)
(* bitmap built by from_bools over the null tests.                         *)
V2View(bytes, ty, length, rows, o) ==
  LET data == Slice(bytes, o, V2End(ty, length, rows, o)) IN
  IF ty \in VarTys
  THEN [var |-> TRUE, data |-> data,
        offs |-> [i \in 1..rows |-> IF V2SlotIsNull(ty, bytes, o + (i - 1) * length)
                                    THEN -1 ELSE (i - 1) * length]]
  ELSE LET size == ElemSize[ty] IN
       [var |-> FALSE, data |-> data,
        nulls |-> NB!from_bools([i \in 1..rows |->
                    SubSeq(data, (i - 1) * size + 1, i * size) = V2NullPattern[ty]])]

(* The running offset: the start of each column.                           *)
RECURSIVE V2Starts(_, _, _, _, _)
V2Starts(tys, lengths, rows, col, offset) ==
  IF col > Len(tys) THEN <<>>
  ELSE <<offset>> \o V2Starts(tys, lengths, rows, col + 1,
                              V2End(tys[col], lengths[col], rows, offset))

parse_from_raw_block_v2(bytes, tys, lengths, rows) ==
  LET starts == V2Starts(tys, lengths, rows, 1, 0)
      cols == Len(tys)
  IN IF \E c \in 1..cols : ~InBounds(bytes, V2End(tys[c], lengths[c], rows, starts[c]))
     THEN [status |-> "panic"]
     ELSE [status |-> "ok", tys |-> tys,
           views |-> [c \in 1..cols |-> V2View(bytes, tys[c], lengths[c], rows, starts[c])]]

-----------------------------------------------------------------------------
(***************************************************************************)
(* Reading a decoded block.                                                *)
(***************************************************************************)

(* ColumnView::is_null_unchecked: a set bit for a fixed-width column, an  *)
(* offset of -1 for a string column.                                       *)
ViewIsNull(view, r) ==
  IF view.var THEN view.offs[r + 1] = -1 ELSE NB!is_null_unchecked(view.nulls, r)

(* A view's row r (from 0): None when null, else a fixed-width element's   *)
(* bytes read little-endian, or a string's 2-byte length prefix at its     *)
(* offset.                                                                 *)
ViewGet(view, ty, r) ==
  IF ViewIsNull(view, r) THEN Null
  ELSE IF view.var THEN ReadLE(view.data, view.offs[r + 1], 2)
       ELSE ReadLE(view.data, r * ElemSize[ty], ElemSize[ty])

(* Variant that answers false out of range, as TimestampView::is_null does.*)
is_null_OutOfRangeFalse(raw, rows, row, col) ==
  IF row >= rows \/ col >= Len(raw.views) THEN FALSE
  ELSE ViewIsNull(raw.views[col + 1], row)

(* RawData::is_null: true out of range, else the column's null test.       *)
is_null(raw, rows, row, col) ==
  IF row >= rows \/ col >= Len(raw.views) THEN TRUE
  ELSE ViewIsNull(raw.views[col + 1], row)

(* RawData::get_ref: None out of range, else the column's value.           *)
get_ref(raw, rows, row, col) ==
  IF row >= rows \/ col >= Len(raw.views) THEN Null
  ELSE ViewGet(raw.views[col + 1], raw.tys[col + 1], row)

(***************************************************************************)
(* The reader's binary arm: res_id is the first 8 bytes, a u32 at 8..12;   *)
(* the frame is v3 when its length is that u32 + 8, else v2.  Both reads   *)
(* unwrap or index, and panic on a shorter frame.                          *)
(***************************************************************************)
ReaderDispatch(frame) ==
  IF Len(frame) < 12 THEN "panic"
  ELSE IF Len(frame) = ReadLE(frame, 8, 4) + 8 THEN "v3" ELSE "v2"

(* The frame of a block for res_id 1.                                      *)
Frame(block) == LE(1, 8) \o block

-----------------------------------------------------------------------------
(***************************************************************************)
(* The reference: the layout a server writes (spec sections 4.3, 4.4).    *)
(***************************************************************************)

(* A string's bytes: its u16 length, then the bytes.                       *)
StrBytes(n) == LE(n, 2) \o Fill(n, 97)

(* Where each non-null string starts in the payload.                       *)
RECURSIVE StrOffset(_, _)
StrOffset(vals, i) ==
  IF i = 1 THEN 0
  ELSE StrOffset(vals, i - 1) + (IF vals[i - 1] = Null THEN 0 ELSE 2 + vals[i - 1])

EncPayload(ty, vals) ==
  IF ty \in VarTys
  THEN FlattenSeq([i \in DOMAIN vals |-> IF vals[i] = Null THEN <<>> ELSE StrBytes(vals[i])])
  ELSE FlattenSeq([i \in DOMAIN vals |->
                     IF vals[i] = Null THEN Fill(ElemSize[ty], 0) ELSE LE(vals[i], ElemSize[ty])])

(* v3 column: bitmap and elements, or i32 offsets (-1 for None) and the    *)
(* strings.                                                                *)
EncColumnV3(ty, vals) ==
  IF ty \in VarTys
  THEN FlattenSeq([i \in DOMAIN vals |->
                     IF vals[i] = Null THEN Fill(4, 255) ELSE LE(StrOffset(vals, i), 4)])
       \o EncPayload(ty, vals)
  ELSE NB!from_bools([i \in DOMAIN vals |-> vals[i] = Null]) \o EncPayload(ty, vals)

(* TimestampView::write_raw_into: the bitmap bytes, then the i64 items.  *)
TsWriteRawInto(view) ==
  view.nulls \o FlattenSeq([i \in DOMAIN view.data |-> LE(view.data[i], 8)])

(* The schema length a server declares: the element size, or the slot.     *)
SchemaLen(ty) == IF ty \in VarTys THEN V2Width - 2 ELSE ElemSize[ty]

(* v3 block: total length, group id 0, schemas, payload lengths, columns.  *)
EncodeV3(tys, data) ==
  LET cols == Len(tys)
      body == FlattenSeq([c \in 1..cols |-> EncColumnV3(tys[c], data[c])])
  IN LE(12 + 10 * cols + Len(body), 4) \o Fill(8, 0)
     \o FlattenSeq([c \in 1..cols |-> LE(tys[c], 2) \o LE(SchemaLen(tys[c]), 4)])
     \o FlattenSeq([c \in 1..cols |-> LE(Len(EncPayload(tys[c], data[c])), 4)])
     \o body

(* The sentinel table of section 4.4.2, each constant written most         *)
(* significant byte first and stored little-endian.                        *)
SpecSentinel(ty) ==
  LET hex == TyBool :> <<2>> @@ TyTinyInt :> <<128>> @@ TyUTinyInt :> <<255>> @@
             TySmallInt :> <<128, 0>> @@ TyUSmallInt :> <<255, 255>> @@
             TyInt :> <<128, 0, 0, 0>> @@ TyUInt :> <<255, 255, 255, 255>> @@
             TyBigInt :> <<128, 0, 0, 0, 0, 0, 0, 0>> @@ TyUBigInt :> Fill(8, 255) @@
             TyTimestamp :> <<128, 0, 0, 0, 0, 0, 0, 0>> @@
             TyFloat :> <<127, 240, 0, 0>> @@ TyDouble :> <<127, 255, 255, 0, 0, 0, 0, 0>>
  IN Reverse(hex[ty])

(* v2 slot of a string: its bytes or the null marker, zero-padded.         *)
Slot(ty, v) ==
  LET b == IF v # Null THEN StrBytes(v)
           ELSE IF ty = TyVarChar THEN <<1, 0, 255>> ELSE <<4, 0, 255, 255, 255, 255>>
  IN b \o Fill(V2Width - Len(b), 0)

(* v2 payload: dense columns, a sentinel or a slot marker for None.        *)
EncodeV2(tys, data) ==
  FlattenSeq([c \in DOMAIN tys |-> FlattenSeq([i \in DOMAIN data[c] |->
    IF tys[c] \in VarTys THEN Slot(tys[c], data[c][i])
    ELSE IF data[c][i] = Null THEN SpecSentinel(tys[c])
    ELSE LE(data[c][i], ElemSize[tys[c]])])])

(* The lengths array of a v2 fetch reply: element size or slot width.      *)
V2Lengths(tys) == [c \in DOMAIN tys |-> IF tys[c] \in VarTys THEN V2Width ELSE ElemSize[tys[c]]]

-----------------------------------------------------------------------------
(***************************************************************************)
(* The blocks: a query's fields are fixed first, then rows arrive.         *)
(***************************************************************************)
VARIABLES tys, data

vars == <<tys, data>>

NRows == IF tys = <<>> THEN 0 ELSE Len(data[1])

ValsOf(ty) == IF ty \in VarTys THEN StrLens \cup {Null} ELSE FixedVals \cup {Null}

Init == tys = <<>> /\ data = <<>>

(* Another column, before any row.                                         *)
AddColumn ==
  /\ Len(tys) < MaxCols /\ NRows = 0
  /\ \E ty \in Tys : tys' = Append(tys, ty) /\ data' = Append(data, <<>>)

RowBound == IF Len(tys) = 1 THEN MaxRows ELSE MaxRowsMulti

(* Another row: a value, or None, in every column.                         *)
AddRow ==
  /\ tys # <<>> /\ NRows < RowBound
  /\ \E row \in [DOMAIN tys -> UNION {ValsOf(t) : t \in Tys}] :
       /\ \A c \in DOMAIN tys : row[c] \in ValsOf(tys[c])
       /\ data' = [c \in DOMAIN tys |-> Append(data[c], row[c])]
  /\ UNCHANGED tys

Next == AddColumn \/ AddRow

Spec == Init /\ [][Next]_vars

-----------------------------------------------------------------------------
(* Type invariant: the blocks, and the shape of the views the v3 parser   *)
(* cuts from them: a bitmap of (rows + 7) / 8 bytes and rows elements.    *)
TypeOK ==
  /\ tys \in Seq(Tys) /\ Len(tys) <= MaxCols
  /\ DOMAIN data = DOMAIN tys
  /\ \A c \in DOMAIN tys : data[c] \in Seq(ValsOf(tys[c])) /\ Len(data[c]) = NRows
  /\ NRows <= RowBound
  /\ LET raw == parse_from_raw_block(EncodeV3(tys, data), NRows, Len(tys)) IN
     /\ raw.status = "ok"
     /\ \A c \in DOMAIN tys :
          IF tys[c] \in VarTys THEN raw.views[c].offs \in [1..NRows -> Int]
          ELSE /\ raw.views[c].nulls \in [1..NB!null_bits_len(NRows) -> 0..255]
               /\ raw.views[c].data \in [1..NRows * ElemSize[tys[c]] -> 0..255]

(* The value at (row, col) from 0, None out of range.                      *)
Expected(row, col) ==
  IF row >= NRows \/ col >= Len(tys) THEN Null ELSE data[col + 1][row + 1]

(* Reading a decoded block back: get_ref gives the value, and is_null says *)
(* null exactly where that value is None.                                  *)
Reads(raw, r, c) ==
  /\ get_ref(raw, NRows, r, c) = Expected(r, c)
  /\ is_null(raw, NRows, r, c) = (Expected(r, c) = Null)

(* A v3 block, framed as the server sends it, is taken by the reader as    *)
(* v3, and parse_from_raw_block walks it to exactly its declared length    *)
(* and returns every value, None and out-of-range reads included; is_null  *)
(* says null exactly where get_ref gives None, one past the last row and   *)
(* column included.                                                        *)
V3RoundTrip ==
  LET frame == Frame(EncodeV3(tys, data))
      raw == parse_from_raw_block(SubSeq(frame, 9, Len(frame)), NRows, Len(tys))
  IN /\ ReaderDispatch(frame) = "v3"
     /\ raw.status = "ok" /\ raw.tys = tys
     /\ raw.consumed = raw.len /\ raw.asserted
     /\ \A r \in 0..NRows, c \in 0..Len(tys) : Reads(raw, r, c)

(* The same rows sent as a v2 payload decode, through the sentinel tests,  *)
(* to the same values as the v3 block: the two formats are alike at the    *)
(* API.                                                                    *)
V2MatchesV3 ==
  LET raw == parse_from_raw_block_v2(EncodeV2(tys, data), tys, V2Lengths(tys), NRows)
  IN /\ raw.status = "ok"
     /\ \A r \in 0..NRows, c \in 0..Len(tys) : Reads(raw, r, c)

(* Every column's null bitmap, as from_bools builds it for a v2 block, is  *)
(* the wire layout a v3 block carries (NullBits).                          *)
BitmapLayout == \A c \in DOMAIN tys : NB!FromBoolsLayout(data[c])

(* Every fixed-width column, collected into a timestamp view, reads back   *)
(* through all of the view's accessors (NullBits), and a Timestamp        *)
(* column's view writes exactly the bytes of its v3 column.                *)
TimestampRoundTrip ==
  \A c \in DOMAIN tys :
    /\ tys[c] \in FixedTys => NB!TsRoundTrip(data[c])
    /\ tys[c] = TyTimestamp =>
         TsWriteRawInto(NB!TsFromMillis(data[c])) = EncColumnV3(TyTimestamp, data[c])

(* A v2 payload, framed, is taken by the reader as v2 (spec section 4.5)   *)
(* and decoded to its rows, rather than read as a v3 header or panicking.  *)
(* A block the server sends for a fetch that is not completed has a row.  *)
V2FrameDispatch ==
  NRows > 0 => ReaderDispatch(Frame(EncodeV2(tys, data))) = "v2"

=============================================================================
