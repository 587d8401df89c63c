# TLA+ models of taosws-rs

This directory holds TLA+ models of the TDengine WebSocket connector in `src/`.
TLC checks them. Each module is written from the Rust source. `PROJECT.json`
maps every definition that models code to the lines it translates. It also
lists the runs, their mutants, the findings and the hazards.

## The system

| Part | Source | State | Operations |
|---|---|---|---|
| Async WebSocket client | `taos-ws/src/asyn.rs` `WsAsyncClient` | `req_id` counter; `queries` map (req_id → oneshot sender); `fetches` map (res_id → `sync_channel(2)` sender); writer channel `ws` (mpsc, capacity 100); `close_signal` watch | `s_query`, `s_exec`, `write_meta`; writer task; reader task; `Drop` |
| ResultSet | `asyn.rs` `ResultSet` (`ResultSetRef` is never built) | args `{req_id, id}`; the receiver of its `fetches` channel | `fetch` (Fetch, blocking recv, FetchBlock, blocking recv); `fetch_raw_block` / `poll_next`; `Drop` (remove entry, spawn Close) |
| Taos wrapper, builder | `taos-ws/src/lib.rs` | DSN-derived `WsInfo`; `OnceCell` with a lazily connected client | `from_dsn` scheme mapping, endpoint URLs; `query`, `write_raw_meta`, `write_raw_block` (connect on first use) |
| Connect handshake | `asyn.rs` `from_wsinfo` | the socket before the tasks exist | connect, Version probe with a 2 s timeout, Conn login |
| Raw block codec | `taos-query/src/common/raw/mod.rs` | offsets into one byte buffer | `parse_from_raw_block` (v3), `parse_from_raw_block_v2`, accessors |
| Null bitmap, timestamp view | `raw/views/nulls.rs`, `raw/views/timestamp_view.rs` | bit vectors, `i64` slices | `from_bools`, `is_null`, `set_null`, iteration |
| Python binding | `taos-ws-py/src/lib.rs` | `TaosResult {_block, _current}`, cursor | `__next__`, `fetchall`, `execute` |
| DSN | `mdsn/src/lib.rs` | `Dsn` record, `params` B-tree | `FromStr`, `Display` |
| TMQ messages | `taos-ws/src/consumer/messages.rs` | serde shapes only | none |

How they interact. Every call on a `WsAsyncClient` goes through one socket
and runs in this order:

1. A caller takes a fresh `req_id`.
2. It parks a oneshot sender in `queries`.
3. It pushes the request onto `ws`.
4. The writer task moves `ws` onto the socket.
5. The reader task routes each incoming frame:
   - query and write_meta replies by `req_id` through `queries`;
   - fetch replies and binary blocks by `res_id` through `fetches`.

A `ResultSet` sends Fetch and waits on its channel with a *blocking* std
`recv` inside an async function. If the reply says not completed, it sends
FetchBlock and waits again for the block. When a fetch reply says completed,
the reader itself queues Close. Dropping the `ResultSet` queues another
Close. `fetch_raw_block` polls a freshly boxed `fetch()` future every time.

### Hard behaviours

- Many caller tasks and the two background tasks interleave.
- A reply can arrive after its caller timed out.
- The server can ping or close the socket at any point.
- The writer channel can be full.
- A `ResultSet` can be dropped between fetches.
- The client can be dropped while result sets live.
- Calls on one `Taos` race to connect it; a probe answer can come after
  its timeout.
- A future can be dropped at a Pending await and polled again from the top.

## Modules

### `WsClient` (client + ResultSet), `MCWsClient`

State:

| Variable | Models |
|---|---|
| `req_id` | the counter |
| `queries`, `fetches` | the two maps, as functions from id to the owning caller or `None` |
| `ws`, `wsOpen` | the writer channel and whether its receiver lives |
| `toServer`, `toClient` | the socket |
| `reader`, `writer` | the two tasks (`reader` can end in `"panic"`) |
| `call[c]` | a caller: its pc, operation, req_id and the reply in its oneshot |
| `rs[c]` | its `ResultSet`: pc, res_id, channel contents, blocks returned |
| `closers` | spawned close tasks |
| `srv` | the server |

Actions, each one handler or one await step of the code:

- **Callers:** `StartCall`, `SendRequest`, `SendTimeout`, `ReplyTimeout`,
  `ReceiveReply`. These cover `s_query`, `s_exec` and `write_meta`, which
  share one shape. Only `s_exec` has no reply timeout.
- **Reader**, one action per match arm: `ReaderQueryReply`,
  `ReaderFetchReply`, `ReaderBlock`, `ReaderPing`, `ReaderStop`.
  - Every `.unwrap()` on a send becomes a move to `"panic"`.
  - A blocking or awaiting send is a guard.
- **Writer:** `WriterSend`, `WriterExit`.
- **ResultSet:** `FetchSend`, `FetchRecv`, `FetchBlockSend`, `BlockRecv`,
  `Repoll`, `RsDrop`, `CloseTask`.
  - A send on a full `ws` is Pending. `fetch_raw_block` then drops the
    future, which parks the ResultSet.
  - `Repoll` is a later poll that starts `fetch()` over.
- **Client:** `DropClient`.

The server (taosAdapter) is the environment and is not code of this
repository:
- It answers the socket in order.
- A query fails, returns affected rows, or opens a result of up to
  `MaxBlocks` blocks.
- Fetch announces the next block, or completed.
- It may ping once and may close the connection.

Constants:
- `Callers`: two model values, each making one call.
- `MaxBlocks`.
- `WsCap`: the writer channel capacity, 100 in the code.
- Switches for the failure paths and the server's ping: `CanTimeout`,
  `CanDropClient`, `CanServerClose`, `CanPing`.
- `Workers`: the worker threads of the tokio runtime.

Worker threads. `ResultSet::fetch` waits for the fetch reply and for the
block with the blocking std `recv` of a `sync_channel`, inside an async fn
(asyn.rs:520, 540). From `FetchSend` until `BlockRecv` its task holds a
worker thread (`Occupied`). Every other task of the client is polled only
while a worker is free (`WorkerFree`): callers, `RsDrop`, the spawned close
tasks, the reader, the writer and the client's drop. The server is another
process. The passing runs use `Workers = 3`, more than the two callers can
occupy, so they behave as the code does on the tests' 10-worker runtime.
With two workers the reader cannot run while both callers fetch, which
would hide every cross-routing of frames between them.

Fairness (`Fairness`): weak fairness on every caller, ResultSet, reader,
writer, server and close-task step. Tokio runs every ready task that has a
free worker, and a `sleep` timer eventually fires. These steps get no fairness:
- dropping the client, pings and server close: they are optional;
- `Repoll`: a parked future has lost its waker, so nothing guarantees it
  runs.

### Runs

| Run | Config | Expect | Checks | Shows |
|---|---|---|---|---|
| ws_safety | `MCWsClient_safety.cfg` | pass | `TypeOK`, `FetchChannelClean`, `BlocksOwnAndOrdered` | With all failure paths, `WsCap = 2` and results of two blocks, a fetch channel holds only the one reply its ResultSet waits for: the reader never blocks on it, and no stale frame can answer a later fetch. Every block a ResultSet yields is of its own result and comes in the server's order. |
| ws_live | `MCWsClient_live.cfg` | pass | `CallsReturn`, `FetchesReturn`, `ResultsFreed`, `ClientRefinement` | With replies inside the timeout, the server up and room in `ws`, every call and fetch returns, every result a ResultSet held is freed on the server, and the client implements `ClientAbstract`. |
| ws_late_reply | `MCWsClient_late_reply.cfg` | violation | `ReaderAlive` | A reply after a timeout panics the reader (finding). |
| ws_disconnect | `MCWsClient_disconnect.cfg` | violation | `WaitersReturn` | Once the reader stops, nothing fails what waits on it: after the server closes, a queued `s_exec` is thrown away with the writer's queue and never returns (finding). `WsCap = 8`, so no send parks. |
| ws_full_skip | `MCWsClient_full_skip.cfg` | violation | `ResultSetIntegrity` | A full `ws` at FetchBlock plus a re-poll skips a block (finding). |
| ws_workers | `MCWsClient_workers.cfg` | violation | `FetchesReturn` | Two ResultSets fetching at once on two workers block both in `recv`; the reader and writer never run again and neither fetch returns (finding). |

Bounds:
- Two callers are enough for every cross-caller case: one caller's frame in
  the other's way, a reply routed to the wrong map entry, a full channel
  shared by two result sets.
- `MaxBlocks = 2` is the least that lets a block be skipped or reordered;
  `ws_safety` and `ws_full_skip` use it. `ws_live` and `ws_workers` use 1
  to stay within time: the waker and the worker pool are exercised by the
  first block already.
- `Workers = 2` in `ws_workers` is a multi-thread runtime with as many
  workers as concurrent fetches. One worker, the spec's single-threaded
  runtime, hangs with one fetch.
- `ws_safety` turns server pings off (`CanPing = FALSE`), which divides its
  states by seven: a pong only adds a frame to `ws`, which the callers'
  traffic fills already. The other runs keep pings on.
- `WsCap = 2` makes the channel fill with the traffic of two callers.

The passing safety runs say `CHECK_DEADLOCK FALSE`. With timeouts, drops and
server close on, the code really can stop with callers stuck; the liveness
runs and findings characterise that. `ws_live` says `CHECK_DEADLOCK FALSE`
because the program ends when every call has returned.

`ws_disconnect` turns on both ways the reader stops, with `WsCap = 8` so
that no send ever parks and the lost-waker hang of `FetchesReturn` cannot
be what TLC reports. The trace TLC prints: the server closes; the reader
takes the Close and leaves its loop; c1's `s_query` is sent and returns
`QueryTimeout`; c2's `s_exec` is queued in `ws`; the writer's next socket
send fails and it exits, dropping the queued request. c2 then waits for
ever: `s_exec` awaits its oneshot with no timeout, and its `queries`
entry, which holds the sender, is never removed.

The client-drop path is not what this run reports. With
`CanServerClose = FALSE` and `CanTimeout = FALSE` (so no late reply
panics the reader first) the same property fails on it in 19 steps: c1's
ResultSet sends Fetch, the client is dropped, the reader and the writer
stop on the signal and the queued Fetch is thrown away, and c1 blocks in
`recv` for ever. The ResultSet's own sender lives in the `fetches` map it
shares, so its channel never disconnects. That configuration has no run
of its own; the hazard at `asyn.rs:358` names `WaitersReturn`.

`ResultsFreed` is written `<>[]` over all res_ids rather than one `~>` per
id. res_ids are never reused and a freed result stays freed, so the two say
the same, and the single formula keeps `ws_live` within time. A result
read to the end is closed twice (the reader on completed, then the drop);
the modelled server ignores a Close for a freed result. The property is why
the second path exists: a ResultSet dropped early is freed only by it. It
is stated for results a ResultSet holds. `s_exec` of a statement with rows
gets a res_id it throws away, and that result is never closed (a hazard
in `PROJECT.json`); stated for every result, the property would fail there
first and hide any other leak.

A full `ws` when `fetch` sends Fetch also hangs it. The Pending send
future is dropped by `fetch_raw_block` together with its waker, which
`FetchesReturn` shows under `WsCap = 2` without timeouts. An earlier
configuration ran that case; it shares its root cause with `ws_full_skip`,
and the run now goes to the worker pool.

### `ClientAbstract`: what the client promises

`ClientAbstract` has no socket, no tasks and no server. It keeps, per caller:
- `calls[c]`: `idle`, `pending` or `returned`, with the operation and the
  req_id;
- `sets[c]`: the ResultSet's state, its res_id and the blocks it yielded.

Its actions:
- `Call`: takes a req_id above every one issued before.
- `Return`: returns once. For a query it may open a ResultSet on a res_id
  no other opened ResultSet holds.
- `Poll`, `MetaMore`, `Yield`, `Finish`, `Drop`: a ResultSet goes idle, to
  waiting for the fetch reply, to waiting for the block. It then yields
  the block numbered one after the last, or it ends. It is dropped only
  between fetches.

`WsClient` maps to it by `AbsCalls` and `AbsSets`:
- `send`/`wait` are `pending`; `done`, `failed` and `timedout` are
  `returned`.
- `parked` is `idle`; `sendBlock` is `block`.
- A received block becomes its `<<res, n>>`.

`ClientRefinement == Abstract!Spec` is a property of `ws_live`. It would
not hold in `ws_safety`: there a parked `sendBlock` goes
back to idle without its block, the skip of `ws_full_skip`. Its mutant
reads `req_id` without advancing it. The abstract module models the spec's
promises, not code, so it has no lines in the map.

Every property of a passing run has a mutant in `PROJECT.json`: a variant
operator defined just before the action it replaces, with the bug named in
its comment. TLC finds each one.


### `WsConnect` (connecting a `Taos`)

The first calls on a `Taos` find its `OnceCell` empty and each run
`from_wsinfo` on a connection of their own; `get_or_init` keeps the first
client stored. `from_wsinfo` then:
1. opens the socket and sends the Version probe (`Connect`; either step
   can fail with an error);
2. waits 2 s for the next frame (`VersionRecv`, `VersionTimeout`): a
   Version answer gives the version or, with an error code, fails; any
   other frame, or the timeout, gives `"2.x"`;
3. sends Conn (`SendConn`) and reads the next frame with no timeout
   (`LoginRecv`): a Conn answer passes `ok?`, any other text or a non-text
   frame reaches `unreachable!()`, and the end of the stream skips the
   check.

State: `cell`, and per caller `pc`, `client` (the client its call runs
on), `version`, `inbox` (the frames the server sent on its connection) and
`srv` (the server's progress and whether it accepted the login). Each
caller owns the connection it opens, so connections are named by callers.
`Check` is `async_client.get()` and `InitCell` is `get_or_init`; the three
methods of `Taos` share that shape.

No property is stated about which client a call runs on. `get_or_init` is
the only writer of the cell, so such a property would hold by the shape of
`InitCell`. The race of two first calls stays in the model so that
`ConnectReturns` covers every interleaving of the two handshakes.

The server handles its requests in order. It answers the probe with a
version, an error, a text of another shape or nothing. It answers the login
with acceptance or refusal, a Close frame, or the end of the stream. A
probe answer may arrive after the client's timeout.

Fairness: weak fairness on each caller and each connection's server. Tokio
polls ready tasks and fires the 2 s timer. The server is assumed to answer
the login, which the code awaits with no timeout.

| Run | Config | Expect | Checks | Shows |
|---|---|---|---|---|
| ws_connect | `MCWsConnect.cfg` | pass | `ConnectReturns` | Two first calls race on an empty cell under every server behaviour, and every connect returns, the probe's timeout covering a silent server. |
| ws_late_version | `MCWsConnect_late_version.cfg` | violation | `HandshakeSound` | The probe times out, the Version answer comes later and is read as the login answer: `unreachable!()` panics (finding). A Close frame there panics too, and an ended stream returns a client never logged in. |

Two callers are the least for the race, and a second call that finds the
cell filled follows the first's `InitCell`. `CHECK_DEADLOCK FALSE`: the
program ends when every call has returned. The mutants run the call on its
own client instead of the cell's, and await the probe with no timeout.

### `RawBlock` (raw block codec), `NullBits` (bitmap, timestamp view)

`NullBits` has no state. Its operators work on byte sequences with
`Bitwise`, one per function of `nulls.rs` and `timestamp_view.rs`:
- `null_bits_len`, `is_null_unchecked`, `set_null_unchecked`, `from_bools`
  and the `NullsIter`;
- the timestamp view's constructors, `len`, `is_null`, `get`,
  `get_unchecked`, `to_vec` and `to_nulls_vec`.

`RawBlock` translates the two decoders as operators on byte sequences:
- `parse_from_raw_block` (v3): the header, the schemas, the lengths, then
  per column either a bitmap and `rows * size` bytes or `4 * rows` offsets
  and `lengths[col]` bytes (`WalkColumns`). It returns the consumed offset
  and whether the `debug_assert` held.
- `parse_from_raw_block_v2`: dense columns, with nulls told by the
  sentinel tests (`V2NullPattern`, `V2SlotIsNull`).
- `get_ref` and `is_null`. `is_null` answers TRUE for a cell outside the
  block, while `TimestampView::is_null` answers FALSE out of range.
  `V3RoundTrip` and `V2MatchesV3` read every cell up to one past each bound
  (`Reads`), so both out-of-range answers are checked.
- the reader's v3/v2 dispatch on a binary frame
  (`ReaderDispatch`, from `asyn.rs`).
- `TimestampView::write_raw_into`.

Integers are bytes, and a u32 read is exact below 2^24, which covers every
length of the model. The views of types other than timestamp are not in
`src/`; `ViewGet` and `ViewIsNull` read a value as the spec's layout describes it
(`spec_modelled`).

The state machine of `RawBlock` only generates inputs:
- `AddColumn` adds a column of any type while there are no rows;
- `AddRow` adds a row of values (`Null`, a value from `FixedVals`, or a
  string of a length from `StrLens`).

The reference encoders `EncodeV3` and `EncodeV2` are written from the
spec's layout (sections 3 and 4.4), not from the code. Every invariant
compares the code's decoding of those bytes with the values put in.

| Run | Config | Expect | Checks | Shows |
|---|---|---|---|---|
| raw_codec | `MCRawBlock.cfg` | pass | `TypeOK`, `V3RoundTrip`, `V2MatchesV3`, `BitmapLayout`, `TimestampRoundTrip` | Blocks of one column of any of the 15 types with up to 9 rows, and of two columns with up to 3 rows: the reader takes the v3 frame as v3, the walk ends at the declared length, and every value reads back. The v2 decoder reads the same values. `from_bools` writes the wire bitmap. A timestamp view reads every column back and writes exactly its v3 bytes. |
| raw_short_frame | `MCRawBlock_short_frame.cfg` | violation | `V2FrameDispatch` | A v2 block of one Bool row is a 9-byte frame; the reader's `&block[8..12]` panics (finding). |

Bounds. Nine rows put a row in a second bitmap byte, the boundary of
`(rows + 7) >> 3`. Two columns make the first column's length move the
second column's offsets. Strings of length 0 and 2 separate an empty string
from a null one.

### `PyResult` (Python binding)

State:

| Variable | Models |
|---|---|
| `connTaos` | `TaosConnection.cursor`: `None`, or the connection state of its `Taos` |
| `it` | the last `TaosResult`: its result set, the fetch calls made, `_block`, `_current`, the rows returned, and whether it iterates, stopped or panicked |
| `curTaos`, `curResult`, `curClose` | the `TaosCursor`: its `Taos`, `_result` with the fetch calls made, `_close` |
| `fa` | what the last `fetchall` returned or raised |

A result set is the server's answer, a sequence of blocks of 1 to `MaxRows`
rows, or errors when `CanFail`. `fetch_raw_block` returns them in order,
then `None`.

Actions, one per Python method:
- `ConnQuery`, `ConnExecute`: the connection.
- `ResultNext`: `__next__`.
- `CursorExecute`, `CursorFetchall`, `CursorClose`: the cursor.
- `TaosQuery` is `Taos::query`. The first call connects; a failed connect
  leaves the `OnceCell` empty.

pyo3 gives each method `&mut self` under the GIL, so each call is one step.

| Run | Config | Expect | Checks | Shows |
|---|---|---|---|---|
| py_rows | `MCPyResult.cfg` | violation | `ReadsAllRows` | Iterating a result of two one-row blocks panics on the second row: `_current` is not reset when `__next__` fetches the next block (finding). A longer second block loses its first rows instead. |

`ReadsAllRows` also states that `fetchall` returns every row of an
error-free result and never returns after a failed fetch. `fetchall` turns a
fetch error into the end of the data (`unwrap_or_default`). The run keeps
`CanFail = FALSE`, so its counterexample is the iterator's.

### `Dsn` (mdsn), `MCDsn`

A DSN text is modelled as a sequence of tokens: the grammar's separators,
and words.
- `Parse` is the grammar of spec 4.1 (`spec_modelled`: `dsn.pest` is not in
  the repository). It produces the pest pairs.
- `FromPairs` is `Dsn::from_str`'s walk over those pairs, arm by arm.
- `DisplayDsn` and `DisplayAddress` are the `Display` impls.
- `from_dsn` and the three endpoint URLs (`to_query_url`, `to_stmt_url`,
  `to_tmq_url`, one `format!` shape, `EndpointUrl`) are `TaosBuilder`'s.
- Port parsing and urlencoding are the bijections `PortNum` and `Encode`,
  given by `MCDsn`.
- The generator combines texts from the subsets `GenFrags`,
  `GenPortTexts`, `GenPaths` and `GenKeys` of the texts the parser knows.

The state machine builds DSN texts part by part, as the grammar allows:
- scheme protocol;
- user info, including a bare `@`;
- up to two addresses of any of the four forms, optionally inside
  `proto(...)`;
- a fragment, or a database;
- up to two params, which can repeat a key.

| Run | Config | Expect | Checks | Shows |
|---|---|---|---|---|
| dsn_roundtrip | `MCDsn.cfg` | pass | `TypeOK`, `DsnRoundTrip`, `QueryUrl`, `CodeTestsAgree` | The spec's round trip holds, including its inline-protocol caveat: every parsed DSN prints to a text that parses to the same `Dsn`. `from_dsn` accepts exactly the driver/protocol pairs of the spec's table and builds `{scheme}://{first address}/rest/ws[?token=..]`, and the same with `/rest/stmt` and `/rest/tmq`. Every assertion of mdsn's unit tests holds. |

`DsnTests` holds each `#[test]` function of `mdsn/src/lib.rs` as a sequence
of cases, 28 DSN texts and 2 address texts in all. Each case records:
- the tokens of the text;
- the fields of `Dsn` the test asserts, built as the test does with
  `Address::new`, `Address::from_host` and `..Default::default()`;
- the text it asserts of `to_string`, when it asserts one.

`CodeTestsAgree` states that the model's parse, walk and display give what
every test asserts. `Address::from_str` and `addr_parse` are checked the
same way. `MCDsn` extends `DsnTests`, and its constants give the parser the
tests' own texts as well as the generator's:
- their file and socket paths as fragments;
- ports 6030 and 6031;
- two encoded paths;
- their keys, in B-tree order.

The generator draws only from the subsets `GenFrags`, `GenPortTexts`,
`GenPaths` and `GenKeys`, so the state space is as before.

The mutant of `CodeTestsAgree`
drops the `Rule::protocol` arm of the endpoint walk, which the round trip
cannot see and the `protocol` test does.

The tests fixed one point of the grammar model: `"taos:///"` parses with no
database.

Words hold no separator characters. Which characters a value may hold is
decided by `dsn.pest`, which is not in the repository. So the missing
escaping in `Display` (a hazard in `PROJECT.json`) is out of reach.

## Fairness

`WsClient` and `WsConnect` have liveness properties; their fairness is
described with each module.
`RawBlock`, `PyResult` and `Dsn` check safety only:
- `RawBlock` and `Dsn` generate inputs;
- `PyResult` is driven by a Python program, which may stop calling at any
  time.

## Plan

Done:
- the modules `WsClient` (with runtime workers), `ClientAbstract` and its
  refinement, `WsConnect`, `RawBlock`, `NullBits`, `PyResult`, `Dsn` and
  `DsnTests`.

Next steps:
1. State an abstract fetch that may fail (a timed-out or dropped fetch
   ends the result) so that `ClientRefinement` can be checked under
   failures; against the current `ClientAbstract` it fails on the skip of
   `ws_full_skip`.
2. Compose `PyResult` with `WsClient`: a Python iterator over a real
   `ResultSet`, so that a fetch timeout reaches `__next__`.
3. Check a `fetchall` with failing fetches once the run budget allows a
   second `PyResult` configuration.

## Not modelled

- `ResultSetRef` (asyn.rs:583-664) is never constructed in the repository:
  no function returns one.
- `to_conn_request`: it fills the login's user, password and database,
  data that `WsConnect` abstracts to an accepted or refused login.
- The blocking `Queryable` wrappers of `Taos`: they only `block_in_place`
  on the async calls.
- The test fixture of `test_block_parser` (raw/mod.rs) is no longer run:
  its decoding stops at 442 of the 460 bytes its header declares, which the
  `debug_assert` of the v3 decoder lets through. The run budget went to the
  connect handshake. `V3RoundTrip` still checks that every block of the
  model is walked to its declared length.
- Logging, `dbg!`, JSON serialisation, and the Python value conversion of
  each type: they are left out.
- The TMQ message shapes contain no logic.
- `parse_from_ptr`, `parse_from_ptr_v2` and the `write`/`Inlinable` impls
  of `RawData` are `todo!()`.
- Raw-pointer accessors, and the allocator layout of the timestamp
  constructors, are beyond a model of values.
