------------------------------ MODULE PyResult ------------------------------
(***************************************************************************)
(* The Python binding (taos-ws-py/src/lib.rs): a TaosConnection with its   *)
(* lazily built cursor, the TaosResult row iterator it returns from query, *)
(* and a TaosCursor with execute, fetchall and close.  Each of them holds  *)
(* its own Taos (taos-ws/src/lib.rs), whose client connects on the first   *)
(* query.  pyo3 hands every method &mut self under the GIL, so the Python  *)
(* calls are atomic steps of one user.                                     *)
(*                                                                         *)
(* A result set is the server's answer to a query: a sequence of fetch     *)
(* outcomes, each a block of 1..MaxRows rows or Err, and Ok(None) after  *)
(* the last one.  A row is named <<k, r>>: row r of the k-th block.        *)
(***************************************************************************)
EXTENDS Naturals, Sequences, SequencesExt

CONSTANTS
  MaxBlocks,   \* blocks in one result set
  MaxRows,     \* rows in one block
  CanFail,     \* whether connects, queries and fetches may fail
  None,        \* model value: Option::None
  Err          \* model value: an Err result

Outcomes == (1..MaxRows) \cup (IF CanFail THEN {Err} ELSE {})
Streams == UNION {[1..n -> Outcomes] : n \in 0..MaxBlocks}

(* ResultSet::fetch_raw_block as the k-th call sees it (Fetchable, a       *)
(* block_on of asyn.rs ResultSet::fetch): the k-th outcome, then None.     *)
fetch_raw_block(s, k) == IF k <= Len(s) THEN s[k] ELSE None

(* Result::unwrap_or_default on Result<Option<RawData>>: an error is None. *)
unwrap_or_default(x) == IF x = Err THEN None ELSE x

(* The rows of block k, as convert_raw_block_to_python_tuple and          *)
(* get_ref(row, col) read them, row 0 first.                               *)
BlockRows(k, n) == [r \in 1..n |-> <<k, r - 1>>]

VARIABLES
  connTaos,    \* TaosConnection.cursor: None, or "up"/"down" (its Taos client)
  it,          \* the last TaosResult: None, or its fields and what it yielded
  curTaos,     \* the TaosCursor's Taos: "up" once connected, else "down"
  curResult,   \* TaosCursor._result: None, or [stream, fetched]
  curClose,    \* TaosCursor._close
  fa           \* the last fetchall: None, or [ret, rows]

vars == <<connTaos, it, curTaos, curResult, curClose, fa>>

Init ==
  /\ connTaos = None
  /\ it = None
  /\ curTaos = "down"
  /\ curResult = None
  /\ curClose = FALSE
  /\ fa = None

(* Taos::query (taos-ws lib.rs): the first query connects through          *)
(* WsTaos::from_wsinfo and keeps the client in the OnceCell; a failed      *)
(* connect returns the error and leaves the cell empty.  Then s_query.     *)
(* The result is [client, res]: res is Err or the result set's stream.     *)
TaosQuery(client) ==
  (IF CanFail /\ client = "down" THEN {[client |-> "down", res |-> Err]} ELSE {})
  \cup { [client |-> "up", res |-> r] :
           r \in Streams \cup (IF CanFail THEN {Err} ELSE {}) }

(* TaosConnection.query: self.cursor = Some(self.cursor().unwrap()) when   *)
(* None (TaosBuilder::build always succeeds), then cursor._inner.query;    *)
(* Ok builds TaosResult {_block: None, _current: 0}, Err raises            *)
(* QueryError.                                                             *)
ConnQuery ==
  \E q \in TaosQuery(IF connTaos = None THEN "down" ELSE connTaos) :
    /\ connTaos' = q.client
    /\ it' = IF q.res = Err THEN it
             ELSE [stream |-> q.res, fetched |-> 0, _block |-> 0,
                   _current |-> 0, out |-> <<>>, pc |-> "iter"]
    /\ UNCHANGED <<curTaos, curResult, curClose, fa>>

(* TaosConnection.execute: the same cursor, affected_rows of the result,   *)
(* which is dropped at once.                                               *)
ConnExecute ==
  \E q \in TaosQuery(IF connTaos = None THEN "down" ELSE connTaos) :
    /\ connTaos' = q.client
    /\ UNCHANGED <<it, curTaos, curResult, curClose, fa>>

(* TaosResult.__next__.  _block (the index of the block, 0 for None) is    *)
(* refetched when None or when _current >= nrows; _current is not reset.   *)
(* A None block ends the iteration (StopIteration); otherwise              *)
(* get_ref(_current, col).unwrap() panics past nrows (pyo3 raises          *)
(* PanicException), or the row is returned and _current += 1.              *)
ResultNext ==
  /\ it # None
  /\ it.pc = "iter"
  /\ LET need  == it._block = 0 \/ it._current >= it.stream[it._block]
         k     == IF need THEN it.fetched + 1 ELSE it._block
         block == IF ~need THEN k
                  ELSE IF unwrap_or_default(fetch_raw_block(it.stream, k)) = None
                       THEN 0 ELSE k
     IN it' = [it EXCEPT
                 !.fetched  = IF need THEN k ELSE @,
                 !._block   = block,
                 !._current = IF block # 0 /\ @ < it.stream[block] THEN @ + 1 ELSE @,
                 !.out      = IF block # 0 /\ it._current < it.stream[block]
                              THEN Append(@, <<block, it._current>>) ELSE @,
                 !.pc       = IF block = 0 THEN "stop"
                              ELSE IF it._current < it.stream[block] THEN "iter"
                              ELSE "panic"]
  /\ UNCHANGED <<connTaos, curTaos, curResult, curClose, fa>>

(* TaosCursor.execute: _result = Some(query(..)?); an error raises         *)
(* QueryError and keeps the old _result.                                   *)
CursorExecute ==
  \E q \in TaosQuery(curTaos) :
    /\ curTaos' = q.client
    /\ curResult' = IF q.res = Err THEN curResult
                    ELSE [stream |-> q.res, fetched |-> 0]
    /\ UNCHANGED <<connTaos, it, curClose, fa>>

(* fetchall's loop from the k-th fetch on: the rows of every block until   *)
(* fetch_raw_block().unwrap_or_default() is None, and the calls made.      *)
RECURSIVE FetchLoop(_, _)
FetchLoop(s, k) ==
  LET b == unwrap_or_default(fetch_raw_block(s, k)) IN
  IF b = None THEN [rows |-> <<>>, fetched |-> k]
  ELSE LET rest == FetchLoop(s, k + 1)
       IN [rows |-> BlockRows(k, b) \o rest.rows, fetched |-> rest.fetched]

(* TaosCursor.fetchall: no _result raises "not generate result set"; a     *)
(* first fetch of None raises "find no result"; otherwise the rows of the  *)
(* first block and of every block after it until a None.                   *)
CursorFetchall ==
  /\ LET loop == FetchLoop(curResult.stream, curResult.fetched + 1) IN
     IF curResult = None
     THEN /\ fa' = [ret |-> "not_generated", rows |-> <<>>]
          /\ UNCHANGED curResult
     ELSE /\ curResult' = [curResult EXCEPT !.fetched = loop.fetched]
          /\ fa' = [ret |-> IF loop.rows = <<>> THEN "no_result" ELSE "ok",
                    rows |-> loop.rows]
  /\ UNCHANGED <<connTaos, it, curTaos, curClose>>

(* TaosCursor.close only sets _close.                                      *)
CursorClose ==
  /\ ~curClose
  /\ curClose' = TRUE
  /\ UNCHANGED <<connTaos, it, curTaos, curResult, fa>>

Next ==
  \/ ConnQuery
  \/ ConnExecute
  \/ ResultNext
  \/ CursorExecute
  \/ CursorFetchall
  \/ CursorClose

Spec == Init /\ [][Next]_vars

-----------------------------------------------------------------------------
TypeOK ==
  /\ connTaos \in {None, "up", "down"}
  /\ it = None \/ (/\ it.stream \in Streams
                   /\ it._block \in 0..Len(it.stream)
                   /\ it.pc \in {"iter", "stop", "panic"})
  /\ curTaos \in {"up", "down"}
  /\ curResult = None \/ curResult.stream \in Streams
  /\ curClose \in BOOLEAN
  /\ fa = None \/ fa.ret \in {"ok", "no_result", "not_generated"}

(* The rows of a result set up to its first error, in order.               *)
AllRows(s) ==
  FlattenSeq([k \in 1..Len(s) |->
                IF s[k] # Err /\ \A j \in 1..k : s[j] # Err
                THEN BlockRows(k, s[k]) ELSE <<>>])
NoErr(s) == \A k \in 1..Len(s) : s[k] # Err

(* Whatever a Python program reads of a result set, row by row through    *)
(* TaosResult.__next__ or at once through TaosCursor.fetchall, is the      *)
(* rows of the result in order, with no row skipped or repeated; the       *)
(* iterator never panics, and a read that ends normally (StopIteration,    *)
(* or fetchall returning) ends only after every row of an error-free       *)
(* result.                                                                 *)
ReadsAllRows ==
  /\ it # None =>
       /\ it.pc # "panic"
       /\ IsPrefix(it.out, AllRows(it.stream))
       /\ it.pc = "stop" => NoErr(it.stream) /\ it.out = AllRows(it.stream)
  /\ fa # None /\ fa.ret = "ok" =>
       NoErr(curResult.stream) /\ fa.rows = AllRows(curResult.stream)
=============================================================================
