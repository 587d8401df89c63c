------------------------------ MODULE WsClient ------------------------------
(***************************************************************************)
(* The multiplexed WebSocket client of taos-ws (src/taos-ws/src/asyn.rs).  *)
(*                                                                         *)
(* One WsAsyncClient owns one socket.  Caller tasks issue s_query, s_exec  *)
(* and write_meta; each allocates a req_id, parks a oneshot sender in the  *)
(* shared `queries` map and pushes its request into the writer channel     *)
(* `ws`.  The writer task forwards `ws` to the socket; the reader task     *)
(* takes frames off the socket and routes them: query and write_meta       *)
(* replies by req_id through `queries`, fetch replies and binary blocks by *)
(* res_id through `fetches`, the per-ResultSet sync_channel(2).  A         *)
(* ResultSet drives fetch / fetch_block with a blocking recv on its        *)
(* channel, and on drop removes its `fetches` entry and spawns a task that *)
(* sends close.  The server (taosAdapter) is the environment: it answers   *)
(* the socket in order and may ping or close the connection.               *)
(***************************************************************************)
EXTENDS Naturals, Sequences, FiniteSets

CONSTANTS
  Callers,         \* caller tasks sharing the client; each makes one call
  MaxBlocks,       \* most data blocks the server returns for one query
  WsCap,           \* capacity of the writer channel (100 in from_wsinfo)
  CanTimeout,      \* whether the 10 s reply timeout of s_query/write_meta fires
  CanDropClient,   \* whether the client is dropped while result sets live
  CanServerClose,  \* whether the server closes the connection
  CanPing,         \* whether the server pings
  Workers,         \* worker threads of the tokio runtime
  None             \* model value: an empty map slot / no reply yet

ASSUME /\ Callers # {} /\ MaxBlocks \in Nat /\ WsCap \in Nat \ {0}
       /\ Workers \in Nat \ {0}
       /\ {CanTimeout, CanDropClient, CanServerClose, CanPing} \subseteq BOOLEAN

NCallers == Cardinality(Callers)
ReqIds   == 1..NCallers          \* one req_id per call; 0 is spent on conn
ResIds   == 1..NCallers          \* server-assigned result ids
FetchCap == 2                    \* std::sync::mpsc::sync_channel(2)
Ops      == {"query", "exec", "write_meta"}

(* One record shape for every frame on the socket, in both directions.     *)
(* kind names the action; flag is fields_count > 0 on a query reply and    *)
(* completed on a fetch reply; n numbers a binary block within its result. *)
Frame(k, r, id, ok, flag, n) ==
  [kind |-> k, req |-> r, res |-> id, ok |-> ok, flag |-> flag, n |-> n]
Frames == [kind : {"query", "write_meta", "fetch", "fetch_block", "close",
                   "block", "ping", "pong", "shutdown"},
           req : 0..NCallers, res : 0..NCallers, ok : BOOLEAN,
           flag : BOOLEAN, n : 0..MaxBlocks]
Msg(k, r, id) == Frame(k, r, id, TRUE, FALSE, 0)

VARIABLES
  req_id,        \* AtomicU64 counter of WsAsyncClient
  queries,       \* req_id -> caller whose oneshot sender is parked, or None
  fetches,       \* res_id -> caller whose ResultSet owns the sender, or None
  ws,            \* the writer channel: requests not yet on the socket
  wsOpen,        \* FALSE once the writer task has exited (receiver dropped)
  toServer,      \* socket, client to server
  toClient,      \* socket, server to client
  reader,        \* reader task: "run", "stop" or "panic"
  writer,        \* writer task: "run" or "stop"
  close_signal,  \* watch channel set by Drop for WsAsyncClient
  call,          \* per caller: pc, op, req and the reply in its oneshot
  rs,            \* per caller: its ResultSet (pc, res, channel, blocks got)
  closers,       \* res_ids whose spawned close task has not run yet
  srv            \* the server: open results, their blocks, fetch cursors

vars == <<req_id, queries, fetches, ws, wsOpen, toServer, toClient, reader,
          writer, close_signal, call, rs, closers, srv>>

CallPcs == {"idle", "send", "wait", "done", "failed", "timedout"}
RsPcs   == {"none", "idle", "meta", "sendBlock", "block", "parked", "end",
            "panic", "dropped"}

TypeOK ==
  /\ req_id \in 1..NCallers + 1
  /\ queries \in [ReqIds -> Callers \cup {None}]
  /\ fetches \in [ResIds -> Callers \cup {None}]
  /\ ws \in Seq(Frames) /\ Len(ws) <= WsCap /\ wsOpen \in BOOLEAN
  /\ toServer \in Seq(Frames) /\ toClient \in Seq(Frames)
  /\ reader \in {"run", "stop", "panic"} /\ writer \in {"run", "stop"}
  /\ close_signal \in BOOLEAN
  /\ call \in [Callers -> [pc : CallPcs, op : Ops \cup {None},
                           req : 0..NCallers, reply : Frames \cup {None}]]
  /\ rs \in [Callers -> [pc : RsPcs, res : 0..NCallers,
                         chan : Seq(Frames), got : Seq(Frames)]]
  /\ \A c \in Callers : Len(rs[c].chan) <= FetchCap
  /\ closers \subseteq ResIds

Init ==
  /\ req_id = 1
  /\ queries = [r \in ReqIds |-> None]
  /\ fetches = [r \in ResIds |-> None]
  /\ ws = <<>> /\ wsOpen = TRUE
  /\ toServer = <<>> /\ toClient = <<>>
  /\ reader = "run" /\ writer = "run" /\ close_signal = FALSE
  /\ call = [c \in Callers |-> [pc |-> "idle", op |-> None, req |-> 0,
                                reply |-> None]]
  /\ rs = [c \in Callers |-> [pc |-> "none", res |-> 0, chan |-> <<>>,
                              got |-> <<>>]]
  /\ closers = {}
  /\ srv = [open |-> {}, next |-> 1, total |-> [r \in ResIds |-> 0],
            cursor |-> [r \in ResIds |-> 0], pinged |-> FALSE,
            closed |-> FALSE]

-----------------------------------------------------------------------------
(* Sending on the writer channel `ws`: room is needed, and the send fails  *)
(* once the writer task is gone.                                           *)
WsHasRoom == wsOpen /\ Len(ws) < WsCap
WsPush(m) == ws' = Append(ws, m)

SetCall(c, f, v) == call' = [call EXCEPT ![c][f] = v]

(***************************************************************************)
(* Caller tasks: s_query, s_exec and write_meta share one shape.           *)
(***************************************************************************)

(* Variant that reads the counter without advancing it.                   *)
StartCallReusesReqId(c) ==
  /\ call[c].pc = "idle" /\ ~close_signal
  /\ \E op \in Ops :
       call' = [call EXCEPT ![c] = [@ EXCEPT !.pc = "send", !.op = op,
                                             !.req = req_id]]
  /\ queries' = [queries EXCEPT ![req_id] = c]
  /\ UNCHANGED <<req_id, fetches, ws, wsOpen, toServer, toClient, reader, writer,
                 close_signal, rs, closers, srv>>

(* self.req_id() then self.queries.insert(req_id, tx).unwrap().  req_id() *)
(* is a fetch_add, so the key is always fresh and the unwrap never fires.  *)
StartCall(c) ==
  /\ call[c].pc = "idle" /\ ~close_signal
  /\ \E op \in Ops :
       call' = [call EXCEPT ![c] = [@ EXCEPT !.pc = "send", !.op = op,
                                             !.req = req_id]]
  /\ queries' = [queries EXCEPT ![req_id] = c]
  /\ req_id' = req_id + 1
  /\ UNCHANGED <<fetches, ws, wsOpen, toServer, toClient, reader, writer,
                 close_signal, rs, closers, srv>>

(* The request on the wire: s_query and s_exec send WsSend::Query as text; *)
(* write_meta sends a binary frame of req_id, message_id = req_id, the     *)
(* action 3 and the raw meta.  Both carry req_id, which routes the reply.  *)
RequestFrame(c) ==
  Msg(IF call[c].op = "write_meta" THEN "write_meta" ELSE "query", call[c].req, 0)

(* Variant with an unbounded writer channel: the send never waits.       *)
SendRequestUnbounded(c) ==
  /\ call[c].pc = "send" /\ wsOpen
  /\ WsPush(RequestFrame(c))
  /\ SetCall(c, "pc", "wait")
  /\ UNCHANGED <<req_id, queries, fetches, wsOpen, toServer, toClient,
                 reader, writer, close_signal, rs, closers, srv>>

(* ws.send_timeout(msg, timeout).await?: queued when there is room; an     *)
(* error when the writer is gone.  On error the queries entry stays.       *)
SendRequest(c) ==
  /\ call[c].pc = "send"
  /\ \/ /\ WsHasRoom
        /\ WsPush(RequestFrame(c))
        /\ SetCall(c, "pc", "wait")
     \/ /\ ~wsOpen
        /\ SetCall(c, "pc", "failed") /\ UNCHANGED ws
  /\ UNCHANGED <<req_id, queries, fetches, wsOpen, toServer, toClient,
                 reader, writer, close_signal, rs, closers, srv>>

(* send_timeout expires on a full channel.                                 *)
SendTimeout(c) ==
  /\ CanTimeout /\ call[c].pc = "send" /\ wsOpen /\ Len(ws) = WsCap
  /\ SetCall(c, "pc", "failed")
  /\ UNCHANGED <<req_id, queries, fetches, ws, wsOpen, toServer, toClient,
                 reader, writer, close_signal, rs, closers, srv>>

(* The sleep arm of the select! in s_query / write_meta wins: the caller   *)
(* returns QueryTimeout and drops rx, but the queries entry is not removed.*)
(* s_exec awaits rx with no timeout.                                       *)
Untimed(c) == call[c].op = "exec"    \* s_exec: rx.await?? alone

ReplyTimeout(c) ==
  /\ CanTimeout /\ call[c].pc = "wait" /\ ~Untimed(c)
  /\ SetCall(c, "pc", "timedout")
  /\ UNCHANGED <<req_id, queries, fetches, ws, wsOpen, toServer, toClient,
                 reader, writer, close_signal, rs, closers, srv>>

(* Variant keying the `fetches` entry by req_id instead of resp.id.       *)
ReceiveReplyKeyedByReq(c) ==
  /\ call[c].pc = "wait" /\ call[c].reply # None
  /\ LET r == call[c].reply IN
     IF r.ok /\ call[c].op = "query" /\ r.flag
     THEN /\ fetches' = [fetches EXCEPT ![call[c].req] = c]
          /\ rs' = [rs EXCEPT ![c] = [@ EXCEPT !.pc = "idle", !.res = r.res]]
          /\ SetCall(c, "pc", "done")
     ELSE /\ SetCall(c, "pc", IF r.ok THEN "done" ELSE "failed")
          /\ UNCHANGED <<fetches, rs>>
  /\ UNCHANGED <<req_id, queries, ws, wsOpen, toServer, toClient, reader,
                 writer, close_signal, closers, srv>>

(* The rx arm wins: `message??`.  A query reply with fields_count > 0      *)
(* opens a sync_channel(2), inserts it in `fetches` under resp.id and      *)
(* returns a ResultSet holding the receiver.                               *)
ReceiveReply(c) ==
  /\ call[c].pc = "wait" /\ call[c].reply # None
  /\ LET r == call[c].reply IN
     IF r.ok /\ call[c].op = "query" /\ r.flag
     THEN /\ fetches' = [fetches EXCEPT ![r.res] = c]
          /\ rs' = [rs EXCEPT ![c] = [@ EXCEPT !.pc = "idle", !.res = r.res]]
          /\ SetCall(c, "pc", "done")
     ELSE /\ SetCall(c, "pc", IF r.ok THEN "done" ELSE "failed")
          /\ UNCHANGED <<fetches, rs>>
  /\ UNCHANGED <<req_id, queries, ws, wsOpen, toServer, toClient, reader,
                 writer, close_signal, closers, srv>>

(***************************************************************************)
(* The reader task: one action per arm of its match on the next frame.     *)
(* A frame is taken off the socket only when its handler can complete.     *)
(***************************************************************************)
Frame0 == Head(toClient)
ReaderTakes(k) ==
  /\ reader = "run" /\ toClient # <<>> /\ Frame0.kind \in k
  /\ toClient' = Tail(toClient)

(* Sending a frame through ws2: waits for room, and `.unwrap()` panics     *)
(* when the writer task has gone.                                          *)
ReaderSend(m) ==
  \/ /\ WsHasRoom /\ WsPush(m) /\ reader' = reader
  \/ /\ ~wsOpen /\ reader' = "panic" /\ UNCHANGED ws

(* Variant whose match has no WsRecvData::WriteMeta arm.                  *)
ReaderQueryReplyNoWriteMeta ==
  /\ ReaderTakes({"query", "write_meta"})
  /\ LET f == Frame0  c == queries[Frame0.req] IN
     IF c = None \/ f.kind = "write_meta"
     THEN UNCHANGED <<queries, call, reader>>
     ELSE /\ queries' = [queries EXCEPT ![f.req] = None]
          /\ IF call[c].pc = "wait"
             THEN SetCall(c, "reply", f) /\ UNCHANGED reader
             ELSE reader' = "panic" /\ UNCHANGED call
  /\ UNCHANGED <<req_id, fetches, ws, wsOpen, toServer, writer, close_signal,
                 rs, closers, srv>>

(* WsRecvData::Query and WsRecvData::WriteMeta: take the sender out of     *)
(* `queries` and send the reply; `sender.send(..).unwrap()` panics when    *)
(* the caller has already dropped rx.  A reply with no entry is ignored.   *)
ReaderQueryReply ==
  /\ ReaderTakes({"query", "write_meta"})
  /\ LET f == Frame0  c == queries[Frame0.req] IN
     IF c = None
     THEN UNCHANGED <<queries, call, reader>>
     ELSE /\ queries' = [queries EXCEPT ![f.req] = None]
          /\ IF call[c].pc = "wait"
             THEN SetCall(c, "reply", f) /\ UNCHANGED reader
             ELSE reader' = "panic" /\ UNCHANGED call
  /\ UNCHANGED <<req_id, fetches, ws, wsOpen, toServer, writer, close_signal,
                 rs, closers, srv>>

(* Appending to the sync_channel(2) of a result set.  The reader blocks    *)
(* while it is full; sending to a dropped receiver panics.                 *)
Forward(c, f) ==
  /\ Len(rs[c].chan) < FetchCap
  /\ rs' = [rs EXCEPT ![c].chan = Append(@, f)]

(* Variant that sends close on completed but does not forward the reply.  *)
ReaderFetchReplyDropsCompleted ==
  /\ ReaderTakes({"fetch"})
  /\ LET f == Frame0  c == fetches[Frame0.res] IN
     /\ IF f.flag THEN ReaderSend(Msg("close", f.req, f.res))
                  ELSE UNCHANGED <<ws, reader>>
     /\ IF c # None /\ reader' = "run" /\ ~f.flag THEN Forward(c, f)
        ELSE UNCHANGED rs
  /\ UNCHANGED <<req_id, queries, fetches, wsOpen, toServer, writer,
                 close_signal, call, closers, srv>>

(* WsRecvData::Fetch: on completed, first send close for the result        *)
(* through ws2, then hand the reply to the result set's channel when the   *)
(* `fetches` entry is still there.                                         *)
ReaderFetchReply ==
  /\ ReaderTakes({"fetch"})
  /\ LET f == Frame0  c == fetches[Frame0.res] IN
     /\ IF f.flag THEN ReaderSend(Msg("close", f.req, f.res))
                  ELSE UNCHANGED <<ws, reader>>
     /\ IF c # None /\ reader' = "run" THEN Forward(c, f) ELSE UNCHANGED rs
  /\ UNCHANGED <<req_id, queries, fetches, wsOpen, toServer, writer,
                 close_signal, call, closers, srv>>

(* Message::Binary: res_id from the first 8 bytes; the block goes to the   *)
(* channel under the `fetches` entry lock, or is dropped with no entry.    *)
ReaderBlock ==
  /\ ReaderTakes({"block"})
  /\ LET c == fetches[Frame0.res] IN
     IF c # None THEN Forward(c, Frame0) ELSE UNCHANGED rs
  /\ UNCHANGED <<req_id, queries, fetches, ws, wsOpen, toServer, reader,
                 writer, close_signal, call, closers, srv>>

(* Message::Ping: answer with a pong through ws2.                          *)
ReaderPing ==
  /\ ReaderTakes({"ping"})
  /\ ReaderSend(Msg("pong", 0, 0))
  /\ UNCHANGED <<req_id, queries, fetches, wsOpen, toServer, writer,
                 close_signal, call, rs, closers, srv>>

(* Message::Close ends the reader loop; close_listener.changed() too.      *)
ReaderStop ==
  /\ reader = "run"
  /\ \/ ReaderTakes({"shutdown"})
     \/ close_signal /\ UNCHANGED toClient
  /\ reader' = "stop"
  /\ UNCHANGED <<req_id, queries, fetches, ws, wsOpen, toServer, writer,
                 close_signal, call, rs, closers, srv>>

(***************************************************************************)
(* The writer task.                                                        *)
(***************************************************************************)

(* msg_recv.recv() then sender.send(msg): onto the socket.                 *)
WriterSend ==
  /\ writer = "run" /\ ws # <<>> /\ ~srv.closed
  /\ toServer' = Append(toServer, Head(ws))
  /\ ws' = Tail(ws)
  /\ UNCHANGED <<req_id, queries, fetches, wsOpen, toClient, reader, writer,
                 close_signal, call, rs, closers, srv>>

(* The socket send fails once the peer has closed, or rx.changed() fires:  *)
(* the task breaks, dropping msg_recv and everything still queued in it.   *)
WriterExit ==
  /\ writer = "run"
  /\ \/ ws # <<>> /\ srv.closed
     \/ close_signal
  /\ writer' = "stop" /\ wsOpen' = FALSE /\ ws' = <<>>
  /\ UNCHANGED <<req_id, queries, fetches, toServer, toClient, reader,
                 close_signal, call, rs, closers, srv>>

(***************************************************************************)
(* ResultSet::fetch, one action per await point, and Drop for ResultSet.   *)
(***************************************************************************)
SetRs(c, f, v) == rs' = [rs EXCEPT ![c][f] = v]
Args(c) == <<call[c].req, rs[c].res>>      \* WsResArgs { req_id, id }

(* self.ws.send(msg).await?: Err once the writer is gone.  On a full      *)
(* channel the send is Pending, and fetch_raw_block, which boxes a fresh   *)
(* self.fetch() future on every poll, drops it: the ResultSet is parked.   *)
RsSend(c, k, next) ==
  \/ /\ WsHasRoom /\ WsPush(Msg(k, Args(c)[1], Args(c)[2]))
     /\ SetRs(c, "pc", next)
  \/ /\ ~wsOpen /\ SetRs(c, "pc", "end") /\ UNCHANGED ws
  \/ /\ wsOpen /\ Len(ws) = WsCap /\ SetRs(c, "pc", "parked")
     /\ UNCHANGED ws

UnchangedRsEnv == UNCHANGED <<req_id, queries, fetches, wsOpen, toServer,
                  toClient, reader, writer, close_signal, call, closers, srv>>

(* Variant that sends another Fetch while the reply is still awaited.     *)
FetchSendWhileWaiting(c) ==
  rs[c].pc \in {"idle", "meta"} /\ RsSend(c, "fetch", "meta") /\ UnchangedRsEnv

(* Send WsSend::Fetch(self.args).                                          *)
FetchSend(c) == rs[c].pc = "idle" /\ RsSend(c, "fetch", "meta") /\ UnchangedRsEnv

(* Blocking recv()?? for the fetch reply: anything but Fetch panics; an    *)
(* error reply is returned; completed returns Ok(None).                    *)
FetchRecv(c) ==
  /\ rs[c].pc = "meta" /\ rs[c].chan # <<>>
  /\ LET f == Head(rs[c].chan) IN
     rs' = [rs EXCEPT ![c] = [@ EXCEPT !.chan = Tail(@),
              !.pc = CASE f.kind # "fetch"  -> "panic"
                       [] ~f.ok \/ f.flag   -> "end"
                       [] OTHER             -> "sendBlock"]]
  /\ UNCHANGED ws /\ UnchangedRsEnv

(* Send WsSend::FetchBlock(self.args).                                     *)
FetchBlockSend(c) ==
  rs[c].pc = "sendBlock" /\ RsSend(c, "fetch_block", "block") /\ UnchangedRsEnv

(* Blocking recv()?? for the block: a block is decoded and returned;       *)
(* anything else returns an error or Ok(None).                             *)
BlockRecv(c) ==
  /\ rs[c].pc = "block" /\ rs[c].chan # <<>>
  /\ LET f == Head(rs[c].chan) IN
     rs' = [rs EXCEPT ![c] = [@ EXCEPT !.chan = Tail(@),
              !.got = IF f.kind = "block" THEN Append(@, f) ELSE @,
              !.pc = IF f.kind = "block" THEN "idle" ELSE "end"]]
  /\ UNCHANGED ws /\ UnchangedRsEnv

(* The dropped send future took its waker with it; if the task is polled  *)
(* again anyway, fetch_raw_block starts a new fetch() from the top.        *)
Repoll(c) ==
  /\ rs[c].pc = "parked" /\ SetRs(c, "pc", "idle")
  /\ UNCHANGED ws /\ UnchangedRsEnv

(* Variant that removes the `fetches` entry but spawns no close task.      *)
RsDropNoClose(c) ==
  /\ rs[c].pc \in {"idle", "parked", "end"}
  /\ fetches' = [fetches EXCEPT ![rs[c].res] = None]
  /\ SetRs(c, "pc", "dropped")
  /\ UNCHANGED <<req_id, queries, ws, wsOpen, toServer, toClient, reader,
                 writer, close_signal, call, closers, srv>>

(* Drop for ResultSet with a receiver: remove the `fetches` entry and      *)
(* spawn a task sending close.  The owner drops it between fetches, or    *)
(* while its poll is parked on a full ws (the stream is dropped then).    *)
RsDrop(c) ==
  /\ rs[c].pc \in {"idle", "parked", "end"}
  /\ fetches' = [fetches EXCEPT ![rs[c].res] = None]
  /\ closers' = closers \cup {rs[c].res}
  /\ SetRs(c, "pc", "dropped")
  /\ UNCHANGED <<req_id, queries, ws, wsOpen, toServer, toClient, reader,
                 writer, close_signal, call, srv>>

(* The spawned task: `let _ = ws.send(Close(args)).await`.                 *)
CloseTask(id) ==
  /\ id \in closers
  /\ \/ WsHasRoom /\ WsPush(Msg("close", 0, id))
     \/ ~wsOpen /\ UNCHANGED ws
  /\ closers' = closers \ {id}
  /\ UNCHANGED <<req_id, queries, fetches, wsOpen, toServer, toClient, reader,
                 writer, close_signal, call, rs, srv>>

(* Drop for WsAsyncClient: close_signal.send(true).  The client is         *)
(* borrowed by every call in flight, so none is.                           *)
DropClient ==
  /\ CanDropClient /\ ~close_signal
  /\ \A c \in Callers : call[c].pc \notin {"send", "wait"}
  /\ close_signal' = TRUE
  /\ UNCHANGED <<req_id, queries, fetches, ws, wsOpen, toServer, toClient,
                 reader, writer, call, rs, closers, srv>>

(***************************************************************************)
(* The server (environment): answers the socket in order.                  *)
(***************************************************************************)
Req0 == Head(toServer)
ServerTakes(k) ==
  /\ ~srv.closed /\ toServer # <<>> /\ Req0.kind \in k
  /\ toServer' = Tail(toServer)
Reply(f) == toClient' = Append(toClient, f)
UnchangedSrvEnv == UNCHANGED <<req_id, queries, fetches, ws, wsOpen, reader,
                   writer, close_signal, call, rs, closers>>

(* A query fails, affects rows, or opens a result of up to MaxBlocks.      *)
ServerQuery ==
  /\ ServerTakes({"query"})
  /\ \/ \E ok \in BOOLEAN :
          Reply(Frame("query", Req0.req, 0, ok, FALSE, 0)) /\ UNCHANGED srv
     \/ \E total \in 0..MaxBlocks :
          /\ srv.next \in ResIds
          /\ srv' = [srv EXCEPT !.open = @ \cup {srv.next}, !.next = @ + 1,
                                !.total[srv.next] = total]
          /\ Reply(Frame("query", Req0.req, srv.next, TRUE, TRUE, 0))
  /\ UnchangedSrvEnv

ServerWriteMeta ==
  /\ ServerTakes({"write_meta"})
  /\ \E ok \in BOOLEAN : Reply(Frame("write_meta", Req0.req, 0, ok, FALSE, 0))
  /\ UNCHANGED srv /\ UnchangedSrvEnv

(* fetch announces the next block, or completed; an unknown id is an error.*)
ServerFetch ==
  /\ ServerTakes({"fetch"})
  /\ LET id == Req0.res IN
     IF id \notin srv.open
     THEN Reply(Frame("fetch", Req0.req, id, FALSE, FALSE, 0)) /\ UNCHANGED srv
     ELSE LET done == srv.cursor[id] = srv.total[id] IN
          /\ srv' = [srv EXCEPT !.cursor[id] = IF done THEN @ ELSE @ + 1]
          /\ Reply(Frame("fetch", Req0.req, id, TRUE, done, 0))
  /\ UnchangedSrvEnv

ServerFetchBlock ==
  /\ ServerTakes({"fetch_block"})
  /\ IF Req0.res \in srv.open
     THEN Reply(Frame("block", 0, Req0.res, TRUE, FALSE, srv.cursor[Req0.res]))
     ELSE UNCHANGED toClient
  /\ UNCHANGED srv /\ UnchangedSrvEnv

ServerFree ==
  /\ ServerTakes({"close", "pong"})
  /\ srv' = [srv EXCEPT !.open = @ \ {Req0.res}]
  /\ UNCHANGED toClient /\ UnchangedSrvEnv

ServerPing ==
  /\ CanPing /\ ~srv.closed /\ ~srv.pinged
  /\ srv' = [srv EXCEPT !.pinged = TRUE] /\ Reply(Msg("ping", 0, 0))
  /\ UNCHANGED toServer /\ UnchangedSrvEnv

ServerClose ==
  /\ CanServerClose /\ ~srv.closed
  /\ srv' = [srv EXCEPT !.closed = TRUE] /\ Reply(Msg("shutdown", 0, 0))
  /\ UNCHANGED toServer /\ UnchangedSrvEnv

-----------------------------------------------------------------------------
(* Worker threads.  ResultSet::fetch calls the blocking std recv() inside  *)
(* an async fn, so from its first poll that gets past the fetch send until *)
(* the block is received the task holds its worker thread.  Every other    *)
(* task of the client (callers, ResultSet drops, the spawned close tasks,  *)
(* the reader and the writer) is polled only on a worker that is free.     *)
(* The server is another process and needs none.                           *)
Occupied == {c \in Callers : rs[c].pc \in {"meta", "sendBlock", "block"}}
WorkerFree == Cardinality(Occupied) < Workers

CallerStep(c) ==
  /\ WorkerFree
  /\ \/ StartCall(c) \/ SendRequest(c) \/ SendTimeout(c) \/ ReplyTimeout(c)
     \/ ReceiveReply(c)
RsStep(c) ==
  \/ WorkerFree /\ (FetchSend(c) \/ RsDrop(c))
  \/ FetchRecv(c) \/ FetchBlockSend(c) \/ BlockRecv(c)
RsRepoll(c) == WorkerFree /\ Repoll(c)
CloseStep(id) == WorkerFree /\ CloseTask(id)
ReaderStep ==
  /\ WorkerFree
  /\ \/ ReaderQueryReply \/ ReaderFetchReply \/ ReaderBlock \/ ReaderPing
     \/ ReaderStop
WriterStep == WorkerFree /\ (WriterSend \/ WriterExit)
ServerStep ==
  ServerQuery \/ ServerWriteMeta \/ ServerFetch \/ ServerFetchBlock \/ ServerFree

Next ==
  \/ \E c \in Callers : CallerStep(c) \/ RsStep(c) \/ RsRepoll(c)
  \/ \E id \in ResIds : CloseStep(id)
  \/ ReaderStep \/ WriterStep \/ (WorkerFree /\ DropClient)
  \/ ServerStep \/ ServerPing \/ ServerClose

(* Tokio polls every ready task that has a free worker, and the timers     *)
(* fire; the server keeps answering.  Dropping the client, pinging and closing stay optional, and *)
(* a parked ResultSet has no waker, so nothing makes Repoll happen.        *)
Fairness ==
  /\ \A c \in Callers : WF_vars(CallerStep(c)) /\ WF_vars(RsStep(c))
  /\ \A id \in ResIds : WF_vars(CloseStep(id))
  /\ WF_vars(ReaderStep) /\ WF_vars(WriterStep) /\ WF_vars(ServerStep)

Spec == Init /\ [][Next]_vars /\ Fairness

-----------------------------------------------------------------------------
(* Routing by res_id through `fetches`, the server's in-order answers and  *)
(* the fetch / fetch_block handshake together give each ResultSet exactly *)
(* the blocks of its own result, in order, none skipped or repeated.       *)
ResultSetIntegrity ==
  \A c \in Callers : \A i \in 1..Len(rs[c].got) :
    rs[c].got[i].res = rs[c].res /\ rs[c].got[i].n = i

(* Whatever fails, every block a ResultSet yields is of its own result    *)
(* (routing by res_id through `fetches` never crosses results) and the     *)
(* blocks come in the server's order, none repeated.  Skipping one is the  *)
(* ws_full_skip finding, so this is the part of ResultSetIntegrity that    *)
(* survives a full writer channel.                                         *)
BlocksOwnAndOrdered ==
  \A c \in Callers : \A i \in 1..Len(rs[c].got) :
    /\ rs[c].got[i].res = rs[c].res
    /\ i > 1 => rs[c].got[i - 1].n < rs[c].got[i].n

(* A fetch channel only ever holds the one reply its ResultSet is blocked  *)
(* on: the reader never finds it full, and no stale frame is left to be    *)
(* taken for the answer to a later fetch (which would panic).              *)
FetchChannelClean ==
  \A c \in Callers :
    /\ Len(rs[c].chan) <= 1
    /\ rs[c].pc \notin {"meta", "block", "panic"} => rs[c].chan = <<>>

(* The reader task never panics: a panic ends it, and every caller after   *)
(* it waits for a reply that nobody routes.                                *)
ReaderAlive == reader # "panic"

InFlight(c) == call[c].pc \in {"send", "wait"}
Fetching(c) == rs[c].pc \in {"meta", "sendBlock", "block", "parked"}

(* Every s_query, s_exec and write_meta eventually returns.                *)
CallsReturn == \A c \in Callers : InFlight(c) ~> ~InFlight(c)

(* Every ResultSet::fetch eventually returns.                              *)
FetchesReturn == \A c \in Callers : Fetching(c) ~> ~Fetching(c)

Waiting(c) == InFlight(c) \/ Fetching(c)

(* Every call and every ResultSet::fetch returns, even after the reader    *)
(* has stopped: on the server's Close frame, or on Drop for WsAsyncClient  *)
(* while a ResultSet of the client is still in use.  Nothing else ends a  *)
(* wait on `queries` or on a fetch channel.                                *)
WaitersReturn == \A c \in Callers : Waiting(c) ~> ~Waiting(c)

Held(id) == \E c \in Callers : rs[c].res = id

(* Every result a ResultSet holds is eventually freed on the server: from  *)
(* some point on, no held res_id is open (res_ids are never reused, so     *)
(* this is each held result being freed).  Two paths close it: the reader  *)
(* when a fetch reports completed, and the task Drop for ResultSet spawns; *)
(* a result read to the end is closed by both, one dropped early only by   *)
(* the second.                                                             *)
ResultsFreed == <>[](\A id \in ResIds : Held(id) => id \notin srv.open)

-----------------------------------------------------------------------------
(* Refinement: the client seen by its callers.  A call is pending from    *)
(* its start until it returns; a parked ResultSet is idle again (its next  *)
(* poll starts a new fetch) and one between the fetch reply and the block *)
(* waits for the block.                                                    *)
CallSt(pc) == CASE pc = "idle" -> "idle"
                [] pc \in {"send", "wait"} -> "pending"
                [] OTHER -> "returned"
SetSt(pc) == CASE pc = "parked" -> "idle"
               [] pc = "sendBlock" -> "block"
               [] OTHER -> pc
AbsCalls == [c \in Callers |-> [st |-> CallSt(call[c].pc), op |-> call[c].op,
                                req |-> call[c].req]]
AbsSets == [c \in Callers |->
              [st |-> SetSt(rs[c].pc), res |-> rs[c].res,
               got |-> [i \in DOMAIN rs[c].got |-> <<rs[c].got[i].res, rs[c].got[i].n>>]]]
Abstract == INSTANCE ClientAbstract WITH calls <- AbsCalls, sets <- AbsSets

(* The client implements ClientAbstract: req_ids are fresh and increasing, *)
(* each call returns once, a ResultSet gets a res_id no live one holds,    *)
(* and ResultSet::fetch goes fetch reply, then the announced block or an   *)
(* end, never back to a new fetch in between, yielding its result's blocks *)
(* in order; Drop for ResultSet comes only between fetches.               *)
ClientRefinement == Abstract!Spec

=============================================================================
