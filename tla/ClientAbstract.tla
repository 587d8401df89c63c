--------------------------- MODULE ClientAbstract ---------------------------
(***************************************************************************)
(* What a WsAsyncClient promises its callers, with the socket, the tasks   *)
(* and the server left out.  Each caller makes one call (s_query, s_exec   *)
(* or write_meta) under a req_id greater than every one issued before, and *)
(* the call returns once.  A query that returns a result opens a ResultSet *)
(* on a res_id no other live ResultSet holds.  A ResultSet alternates:     *)
(* idle, waiting for the fetch reply (meta), waiting for the block it      *)
(* announced (block); it yields that block, numbered one more than the     *)
(* last, or ends; it is dropped only between fetches.                      *)
(***************************************************************************)
EXTENDS Naturals, Sequences

CONSTANTS Callers, Ops, ReqIds, ResIds, None

VARIABLES
  calls,   \* per caller: st (idle, pending, returned), op, req
  sets     \* per caller: its ResultSet's st, res and the blocks yielded

vars == <<calls, sets>>

SetSts == {"none", "idle", "meta", "block", "end", "dropped"}

TypeOK ==
  /\ calls \in [Callers -> [st : {"idle", "pending", "returned"},
                            op : Ops \cup {None}, req : ReqIds \cup {0}]]
  /\ sets \in [Callers -> [st : SetSts, res : ResIds \cup {0},
                           got : Seq(ResIds \X Nat)]]

Init ==
  /\ calls = [c \in Callers |-> [st |-> "idle", op |-> None, req |-> 0]]
  /\ sets = [c \in Callers |-> [st |-> "none", res |-> 0, got |-> <<>>]]

(* A call starts under a fresh req_id, above all issued ones.             *)
Call(c) ==
  /\ calls[c].st = "idle"
  /\ \E op \in Ops, r \in ReqIds :
       /\ \A d \in Callers : calls[d].req < r
       /\ calls' = [calls EXCEPT ![c] = [st |-> "pending", op |-> op, req |-> r]]
  /\ UNCHANGED sets

(* The call returns: with nothing, or, for a query, with a ResultSet on a  *)
(* res_id that no other opened ResultSet holds.                            *)
Return(c) ==
  /\ calls[c].st = "pending"
  /\ calls' = [calls EXCEPT ![c].st = "returned"]
  /\ \/ UNCHANGED sets
     \/ /\ calls[c].op = "query" /\ sets[c].st = "none"
        /\ \E r \in ResIds :
             /\ \A d \in Callers : sets[d].st # "none" => sets[d].res # r
             /\ sets' = [sets EXCEPT ![c] = [st |-> "idle", res |-> r, got |-> <<>>]]

Move(c, from, to) ==
  /\ sets[c].st \in from
  /\ sets' = [sets EXCEPT ![c].st = to]
  /\ UNCHANGED calls

Poll(c)     == Move(c, {"idle"}, "meta")
MetaMore(c) == Move(c, {"meta"}, "block")
Finish(c)   == Move(c, {"idle", "meta", "block"}, "end")
Drop(c)     == Move(c, {"idle", "end"}, "dropped")

(* The announced block is yielded, numbered after the ones before it.      *)
Yield(c) ==
  /\ sets[c].st = "block"
  /\ sets' = [sets EXCEPT ![c].st = "idle",
                          ![c].got = Append(@, <<sets[c].res, Len(@) + 1>>)]
  /\ UNCHANGED calls

Next ==
  \E c \in Callers :
    \/ Call(c) \/ Return(c)
    \/ Poll(c) \/ MetaMore(c) \/ Yield(c) \/ Finish(c) \/ Drop(c)

Spec == Init /\ [][Next]_vars
=============================================================================
