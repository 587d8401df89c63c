------------------------------ MODULE NullBits ------------------------------
(***************************************************************************)
(* The null bitmap of fixed-width column views and the timestamp view      *)
(* built on it (taos-query/src/common/raw/views/nulls.rs and               *)
(* timestamp_view.rs).  A bitmap is a sequence of bytes (0..255); row r is *)
(* bit 7 - (r & 7) of byte r >> 3.  The operators follow the Rust code     *)
(* step by step; the spec's description of the wire layout is the          *)
(* reference they are checked against.  RawBlock checks them on every      *)
(* column it generates.                                                    *)
(***************************************************************************)
EXTENDS Naturals, Sequences, Bitwise

CONSTANT Null   \* model value: a None row

BIT_LOC_SHIFT == 3
BIT_POS_SHIFT == 7

(* null_bits_len: bytes needed for len rows.                              *)
null_bits_len(len) == (len + 7) \div 8

(* A bitmap of n zero bytes: Vec::with_capacity + resize(len, 0), and      *)
(* NullsMut::new.                                                          *)
Zeroed(len) == [i \in 1..null_bits_len(len) |-> 0]

(* is_null_unchecked: (bits[row >> 3] >> (7 - (row & 7))) & 0x1 == 1.     *)
is_null_unchecked(bits, row) ==
  (shiftR(bits[shiftR(row, BIT_LOC_SHIFT) + 1],
          BIT_POS_SHIFT - (row & BIT_POS_SHIFT)) & 1) = 1

(* Variant that sets bit (index & 7), least significant first.            *)
set_null_lsb_first(bits, index) ==
  [bits EXCEPT ![shiftR(index, BIT_LOC_SHIFT) + 1] =
     @ | 2^(index & BIT_POS_SHIFT)]

(* set_null_unchecked: bits[index >> 3] |= 1 << (7 - (index & 7)).        *)
set_null_unchecked(bits, index) ==
  [bits EXCEPT ![shiftR(index, BIT_LOC_SHIFT) + 1] =
     @ | 2^(BIT_POS_SHIFT - (index & BIT_POS_SHIFT))]

(* FromIterator<bool> for NullBits, and NullsMut::from_bools: a zeroed     *)
(* bitmap, then set_null_unchecked(i) for every i whose flag is true.      *)
RECURSIVE SetNulls(_, _, _)
SetNulls(bits, bools, i) ==
  IF i > Len(bools) THEN bits
  ELSE SetNulls(IF bools[i] THEN set_null_unchecked(bits, i - 1) ELSE bits,
                bools, i + 1)
from_bools(bools) == SetNulls(Zeroed(Len(bools)), bools, 1)

(* NullsIter::next from row 0 while row < len.                             *)
RECURSIVE NullsIterFrom(_, _, _)
NullsIterFrom(bits, row, len) ==
  IF row < len THEN <<is_null_unchecked(bits, row)>> \o NullsIterFrom(bits, row + 1, len)
  ELSE <<>>

(***************************************************************************)
(* TimestampView: a bitmap and the i64 items, Item::default() (0) under a  *)
(* null.                                                                   *)
(***************************************************************************)

(* FromIterator for TimestampMillisecondView (and the Micro/Nano ones):    *)
(* unzip into null flags and values, then NullBits::from_iter(nulls).      *)
TsFromIter(vals) ==
  [nulls |-> from_bools([i \in DOMAIN vals |-> vals[i] = Null]),
   data  |-> [i \in DOMAIN vals |-> IF vals[i] = Null THEN 0 ELSE vals[i]]]

(* from_millis, from_micros, from_nanos and from_timestamp: the view of   *)
(* the precision built by FromIterator, then into_inner.  The precision    *)
(* tag is not modelled.                                                    *)
TsFromMillis(vals) == TsFromIter(vals)

TsLen(view) == Len(view.data)   \* data.len() / size_of::<i64>()

(* is_null: in range, the bit; out of range, false.                        *)
TsIsNull(view, row) ==
  IF row < TsLen(view) THEN is_null_unchecked(view.nulls, row) ELSE FALSE

(* Variant that reads the item without looking at the bitmap.              *)
TsGetNoBitmap(view, row) == view.data[row + 1]

(* get_unchecked: None on a null bit, otherwise the item.                  *)
TsGetUnchecked(view, row) ==
  IF is_null_unchecked(view.nulls, row) THEN Null ELSE view.data[row + 1]

(* get: None out of range.                                                 *)
TsGet(view, row) == IF row < TsLen(view) THEN TsGetUnchecked(view, row) ELSE Null

(* TimestampViewIter::next yields get_unchecked(row) while row < len.      *)
TsIter(view) == [i \in 1..TsLen(view) |-> TsGetUnchecked(view, i - 1)]

(* to_vec: iter().collect().                                               *)
TsToVec(view) == TsIter(view)

(* to_nulls_vec: is_null_iter() (a NullsIter from row 0 to len) collected. *)
TsToNullsVec(view) == NullsIterFrom(view.nulls, 0, TsLen(view))

-----------------------------------------------------------------------------
(***************************************************************************)
(* Properties of one column, given as its values (Null or an i64); a       *)
(* module that generates columns states them of each one.                  *)
(***************************************************************************)
NullFlags(vals) == [i \in DOMAIN vals |-> vals[i] = Null]

(* The spec's layout (section 3): ceil(rows/8) bytes, row r at bit         *)
(* 7 - (r mod 8) of byte r/8, padding bits clear.                          *)
LayoutByte(bools, k) ==
  LET bit(j) == IF 8 * k + j + 1 <= Len(bools) /\ bools[8 * k + j + 1]
                THEN 2^(7 - j) ELSE 0
  IN bit(0) + bit(1) + bit(2) + bit(3) + bit(4) + bit(5) + bit(6) + bit(7)

(* from_bools writes exactly the bytes of the wire layout, so a bitmap     *)
(* built by the client reads the same on the server and back.              *)
FromBoolsLayout(vals) ==
  LET flags == NullFlags(vals) IN
  from_bools(flags) = [k \in 1..null_bits_len(Len(flags)) |-> LayoutByte(flags, k - 1)]

(* A timestamp column built from nullable values reads back the same       *)
(* values through the row iterator, through the null iterator and through  *)
(* is_null/get (a non-null 0 is not taken for a null), and reads as        *)
(* not-null and None one past the end.                                     *)
TsRoundTrip(vals) ==
  LET view == TsFromMillis(vals) IN
  /\ TsToVec(view) = vals
  /\ TsToNullsVec(view) = NullFlags(vals)
  /\ \A r \in 0..Len(vals) - 1 :
       TsIsNull(view, r) = NullFlags(vals)[r + 1] /\ TsGet(view, r) = vals[r + 1]
  /\ ~TsIsNull(view, Len(vals)) /\ TsGet(view, Len(vals)) = Null
=============================================================================
