----------------------------- MODULE WsConnect ------------------------------
(***************************************************************************)
(* Connecting a Taos (src/taos-ws/src/lib.rs) and the handshake of         *)
(* WsAsyncClient::from_wsinfo (src/taos-ws/src/asyn.rs).                   *)
(*                                                                         *)
(* A Taos holds its client in a OnceCell.  Every call (query,              *)
(* write_raw_meta, write_raw_block) first looks in the cell; when it is    *)
(* empty it runs from_wsinfo on a connection of its own and then           *)
(* get_or_init(|| client), which keeps the first client stored and drops   *)
(* the others.  from_wsinfo opens the socket, sends a Version probe and    *)
(* waits 2 s for the answer (falling back to "2.x"), then sends Conn and   *)
(* reads the next frame as the login answer.  The server (taosAdapter) is  *)
(* the environment: per connection it answers the probe or not, and        *)
(* answers the login, or closes the socket.  Each caller is a task and     *)
(* owns the connection it opens, so connections are named by callers.     *)
(***************************************************************************)
EXTENDS Naturals, Sequences

CONSTANTS
  Callers,   \* concurrent calls on one Taos
  None       \* model value: an empty cell / no client yet

ASSUME Callers # {}

(* A text or control frame from the server, as from_wsinfo tells them      *)
(* apart: a Version or Conn answer (ok is the `code` of the answer), a     *)
(* text answer of another action, a Close frame, and the end of the        *)
(* stream (reader.next() giving None or an error).                         *)
Kinds == {"version", "conn", "other", "close", "eof"}
Frame(k, ok) == [kind |-> k, ok |-> ok]
Frames == [kind : Kinds, ok : BOOLEAN]

VARIABLES
  cell,      \* the OnceCell: the caller whose client it holds, or None
  pc,        \* per caller: where its call is
  client,    \* per caller: the client its call runs on
  version,   \* per caller: the version its client caches
  inbox,     \* per caller: frames the server sent on its connection
  srv        \* per connection: the server's progress and login outcome

vars == <<cell, pc, client, version, inbox, srv>>

Pcs == {"idle", "connect", "version", "sendConn", "login", "init",
        "done", "failed", "panic"}
Returned == {"done", "failed", "panic"}
Connecting(c) == pc[c] \notin {"idle"} \cup Returned

TypeOK ==
  /\ cell \in Callers \cup {None}
  /\ pc \in [Callers -> Pcs]
  /\ client \in [Callers -> Callers \cup {None}]
  /\ version \in [Callers -> {"none", "server", "2.x"}]
  /\ inbox \in [Callers -> Seq(Frames)]
  /\ srv \in [Callers -> [probe : {"none", "pending", "done"},
                          conn : {"none", "pending", "done"},
                          login : BOOLEAN]]

Init ==
  /\ cell = None
  /\ pc = [c \in Callers |-> "idle"]
  /\ client = [c \in Callers |-> None]
  /\ version = [c \in Callers |-> "none"]
  /\ inbox = [c \in Callers |-> <<>>]
  /\ srv = [c \in Callers |-> [probe |-> "none", conn |-> "none",
                               login |-> FALSE]]

Goto(c, to) == pc' = [pc EXCEPT ![c] = to]
Take(c) == inbox' = [inbox EXCEPT ![c] = Tail(@)]

-----------------------------------------------------------------------------
(***************************************************************************)
(* Taos::query, write_raw_meta and write_raw_block.                        *)
(***************************************************************************)

(* self.async_client.get(): a stored client is used at once; otherwise     *)
(* the call connects with WsTaos::from_wsinfo(&self.dsn).await?.           *)
Check(c) ==
  /\ pc[c] = "idle"
  /\ IF cell # None
     THEN Goto(c, "done") /\ client' = [client EXCEPT ![c] = cell]
     ELSE Goto(c, "connect") /\ UNCHANGED client
  /\ UNCHANGED <<cell, version, inbox, srv>>

(* self.async_client.get_or_init(|| async_client): the first client        *)
(* stored wins, and the call runs on the cell's client; a client that lost *)
(* the race is dropped (its Drop closes its tasks).                        *)
InitCell(c) ==
  /\ pc[c] = "init"
  /\ cell' = IF cell = None THEN c ELSE cell
  /\ client' = [client EXCEPT ![c] = cell']
  /\ Goto(c, "done")
  /\ UNCHANGED <<version, inbox, srv>>

(***************************************************************************)
(* WsAsyncClient::from_wsinfo, one action per await point.                *)
(***************************************************************************)

(* connect_async(url).await? then sender.send(Version).await?: either     *)
(* fails with an error, or the probe is on the wire.                       *)
Connect(c) ==
  /\ pc[c] = "connect"
  /\ \/ Goto(c, "failed") /\ UNCHANGED srv
     \/ Goto(c, "version") /\ srv' = [srv EXCEPT ![c].probe = "pending"]
  /\ UNCHANGED <<cell, client, version, inbox>>

(* timeout(2 s, reader.next()) yields a frame: a Version answer gives the  *)
(* version, or `ok?` returns its error; any other text, a non-text frame  *)
(* or the end of the stream gives "2.x".  Then Conn is to be sent.         *)
VersionRecv(c) ==
  /\ pc[c] = "version" /\ inbox[c] # <<>>
  /\ LET f == Head(inbox[c]) IN
     /\ Take(c)
     /\ IF f.kind = "version" /\ ~f.ok
        THEN Goto(c, "failed") /\ UNCHANGED version
        ELSE /\ Goto(c, "sendConn")
             /\ version' = [version EXCEPT ![c] =
                              IF f.kind = "version" THEN "server" ELSE "2.x"]
  /\ UNCHANGED <<cell, client, srv>>

(* Variant awaiting the probe's answer with no timeout.                   *)
VersionTimeoutNever(c) == FALSE

(* The 2 s elapse with no frame: version is "2.x", and the answer, if the *)
(* server sends one, is left on the stream.                               *)
VersionTimeout(c) ==
  /\ pc[c] = "version" /\ inbox[c] = <<>>
  /\ Goto(c, "sendConn")
  /\ version' = [version EXCEPT ![c] = "2.x"]
  /\ UNCHANGED <<cell, client, inbox, srv>>

(* sender.send(Conn { req_id: 0, req: to_conn_request() }).await?.         *)
SendConn(c) ==
  /\ pc[c] = "sendConn"
  /\ \/ Goto(c, "failed") /\ UNCHANGED srv
     \/ Goto(c, "login") /\ srv' = [srv EXCEPT ![c].conn = "pending"]
  /\ UNCHANGED <<cell, client, version, inbox>>

(* if let Some(Ok(message)) = reader.next().await: a Conn answer passes    *)
(* `ok?`; any other text answer, or any frame that is not text, reaches    *)
(* unreachable!() and panics the calling task.  None or an error skips the *)
(* check, and the client is built.  There is no timeout.                   *)
LoginRecv(c) ==
  /\ pc[c] = "login" /\ inbox[c] # <<>>
  /\ LET f == Head(inbox[c]) IN
     /\ Take(c)
     /\ Goto(c, CASE f.kind = "conn" -> IF f.ok THEN "init" ELSE "failed"
                  [] f.kind = "eof"  -> "init"
                  [] OTHER           -> "panic")
  /\ UNCHANGED <<cell, client, version, srv>>

(***************************************************************************)
(* The server, per connection.  It handles its requests in order, so it    *)
(* has dealt with the probe before it sees Conn.                           *)
(***************************************************************************)
Send(c, f) == inbox' = [inbox EXCEPT ![c] = Append(@, f)]

(* The probe is answered with a version or an error, with a text answer    *)
(* of another shape, or not at all (a server without the version action). *)
ServerProbe(c) ==
  /\ srv[c].probe = "pending"
  /\ srv' = [srv EXCEPT ![c].probe = "done"]
  /\ \/ \E ok \in BOOLEAN : Send(c, Frame("version", ok))
     \/ Send(c, Frame("other", TRUE))
     \/ UNCHANGED inbox
  /\ UNCHANGED <<cell, pc, client, version>>

(* The login is accepted or refused, or the server sends Close, or the     *)
(* connection drops.                                                       *)
ServerConn(c) ==
  /\ srv[c].conn = "pending" /\ srv[c].probe = "done"
  /\ \E f \in {Frame("conn", TRUE), Frame("conn", FALSE),
               Frame("close", TRUE), Frame("eof", TRUE)} :
       /\ Send(c, f)
       /\ srv' = [srv EXCEPT ![c].conn = "done",
                             ![c].login = (f = Frame("conn", TRUE))]
  /\ UNCHANGED <<cell, pc, client, version>>

CallerStep(c) ==
  \/ Check(c) \/ Connect(c) \/ VersionRecv(c) \/ VersionTimeout(c)
  \/ SendConn(c) \/ LoginRecv(c) \/ InitCell(c)
ServerStep(c) == ServerProbe(c) \/ ServerConn(c)

Next == \E c \in Callers : CallerStep(c) \/ ServerStep(c)

(* Tokio polls every ready task and fires its timers; each connection's    *)
(* server handles what it has received.                                    *)
Spec == Init /\ [][Next]_vars
          /\ \A c \in Callers : WF_vars(CallerStep(c)) /\ WF_vars(ServerStep(c))

-----------------------------------------------------------------------------
(* Every connecting call returns: the probe's timeout covers a server that *)
(* never answers it, and the server answers the login.                     *)
ConnectReturns == \A c \in Callers : Connecting(c) ~> pc[c] \in Returned

(* from_wsinfo returns an error, or a client whose login the server        *)
(* accepted; it never panics on what the server sends (the spec: a failed  *)
(* step is a connection error, an unexpected message is never fatal).      *)
HandshakeSound ==
  \A c \in Callers :
    /\ pc[c] # "panic"
    /\ pc[c] = "done" => srv[client[c]].login
=============================================================================
