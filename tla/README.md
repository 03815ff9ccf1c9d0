# Formal models of packio

This directory holds TLA+ models of the parts of packio under `src/`. Each is model-checked with TLC on small instances. TLAPS proves the client's central safety property, and that the client implements an abstract call lifecycle, for every value of the constants.

## The system and its parts

packio is a header-only RPC runtime with two dialects: msgpack-RPC and JSON-RPC. The repository's `src/` contains:

| Part | Source | Model |
|---|---|---|
| Client core and call table | `src/include/packio/client.h` | `PackioClient` (actions), `CallLifecycle` (abstract spec), `PackioClientProofs`, `PackioLifecycleProofs`, `PackioRoutingProofs`, `PackioTeardownProofs` (proofs) |
| JSON framer | `src/include/packio/nl_json_rpc/incremental_buffers.h` | `JsonFramer` |
| Configuration macros | `src/include/packio/internal/config.h` | not modelled (no state) |
| Test fixture | `src/test_package/basic.cpp` | the two ways a client ends (`FixtureTeardown`, `DestroyWhenAnswered` in `PackioClient`); the test bodies are read for the intended behaviour |

`spec.md` also describes parts whose code is not under `src/`: the server session, the dispatcher, the completion handler, the codecs, the msgpack framer and the acceptor. The client model includes the server session as the client's peer, modelled from `spec.md` 4.2-4.6. Its five definitions are marked `spec_modelled` in `PROJECT.json`. The rest is listed there as not modelled, with the reason.

### How the client parts interact

A user thread calls `async_call` or `async_notify`:

1. `async_call` takes `id = id_++`. This is a `uint32` counter that wraps.
2. Under `pending_mutex_`, it `try_emplace`s `(handler, timer)` into `pending_` and, if `timeout_ > 0`, arms the timer.
3. It calls `maybe_start_reading`. The first caller sets `reading_` and starts the read chain.
4. It starts an `async_write`.

Three handlers, run by the io_context on any thread, race to complete a call. Each ends in erasing the entry under the lock and invoking the handler:

- the write handler on a write error (`maybe_call_handler`);
- the timer handler (`async_timeout`);
- the read handler, which unpacks responses and calls `dispatch` → `maybe_call_handler`. A response that `verify_reponse` rejects makes `dispatch` call `close_connection` instead.

`set_timeout` may be called at any time from any thread; it writes `timeout_`, which `async_call` reads without a lock. `~client` only cancels the socket: the handlers it aborts, and timer handlers already queued, still run if the io_context runs, and they capture `this`.

## PackioClient: the client and its peer

**State.** The variables map to the code as follows:

| Variable | Code |
|---|---|
| `nextId` | `id_` |
| `pending` | `pending_`: a partial function from ids to the call whose handler the entry owns |
| `armed` / `fired` | each entry's timer: a wait pending, or a wait completed whose handler is queued |
| `rstate` | `reading_` together with the read chain: off, reading (a read is pending), handling (its handler runs the unpacker loop), stopped |
| `rbuf` | the responses the running read handler has unpacked |
| `c2s` / `s2c` | the two directions of the socket |
| `pc`, `wpos` | where each user call or notification is, and how many `write_some` segments of its message are on the wire (a message takes two, so that interleavings show) |
| `results` | each call's handler invocations (a history) |
| `noteResult` | each notification's handler outcome |
| `timeout` | the sign of `timeout_` (0 or 1); `timed` is a history of the calls that saw it positive |
| `life` | the client object: running, destroyed while the io_context runs, or destroyed after `io_.stop` and `join` (torn down) |
| `srvPartial`, `srvInbox`, `connected` | the server session's framer, its outstanding requests, and the connection |

**Actions.** Each action is one handler or operation of the code, as a whole:

| Action | Code |
|---|---|
| `Call(c)` | `async_call` up to the end of the locked block, lines 101-136; `Insert` is `try_emplace`, `ArmIfTimeout` the test of `timeout_`. The `fetch_add` of `id_` (line 106) and the locked block are one step: no property depends on another call running between them, since the entry is keyed by the id already taken |
| `SetTimeout(t)` | `set_timeout`. `async_call` reads `timeout_` a second time when it arms the timer (line 192); the model keeps one read, which is harmless because only the sign is kept and the first read decides whether the timer is armed |
| `StartWrite(c)` | lines 138-139 |
| `Notify(n)` | `async_notify` |
| `WriteSome(m)` / `WriteFail(m)` | one `write_some` of the composed write / the write handler with an error |
| `TimerExpire(i)` / `TimeoutHandler(i)` | a timer wait completes / its handler, lines 193-215 |
| `ReadSome` / `ReadFail` | `async_read`'s handler up to the unpacker loop / its error branch |
| `Dispatch` | one turn of the unpacker loop, `dispatch` inline: a rejected message (`BadReply`) closes the connection (`CloseConnection`) and the loop goes on; a type field that is not an integer (`BadField`, line 281) or an id above `INT_MAX` (line 235) makes `as<int>()` throw (`Throws`), which ends the handler and the read chain; otherwise `maybe_call_handler` |
| `ReadRearm` | the end of the handler: `unpacker_.next` finds nothing more and `async_read()` starts the next read (lines 179-185), on the client the handler captured |
| `MaybeCallHandler(i, out)` | `maybe_call_handler`, lines 249-269 |
| `FixtureTeardown` | the fixture's `~Client` (`io_.stop`, `join`) followed by `~client` |
| `DestroyWhenAnswered` | `~client` while the io_context keeps running, once every handler the user waits for was invoked. The guard is a discipline the model assumes of the user (no test shows it): the most careful user who does not stop the io_context |

Once the client is destroyed, the user steps are disabled. After a fixture teardown (`IoRuns` false) no handler runs at all; after `DestroyWhenAnswered` the aborted handlers, and the tail of a read handler that is still running, still run, which is what `NoHandlerAfterDestroy` and `NoUseAfterDestroy` look for.

The peer has `SrvRecv` (its framer; a torn message closes the session), `SrvReply` (a handler replies with a result or an error), `SrvSendBad` (a message that is not a response, when `BadReplies` is set: either one `verify_reponse` rejects or one whose type field throws) and `Disconnect`.

**Abstractions.**

- Message contents, names and strings are not modelled. A message is the call it belongs to; a reply is its id, its error flag and the call it answers (a ghost field used only by the properties).
- `id_`'s width is the constant `IdBits`: 32 in the code, and 1-3 in the runs so that wrapping happens.
- `timeout_` is abstracted to its sign, which is all `async_call` tests. The data race of `set_timeout` gives a torn or stale read; either yields one of the two signs, and the model lets a call see whichever value was set last.

**Constants.** `Calls`, `Notes`, `IdBits`, `StartIds` (the values `id_` may start at, standing for the calls made before), `StartTimeouts` (the sign of `timeout_` when the calls start: `{0}` is the code's default, `{1}` a `set_timeout` made before), `Timeouts` (what `set_timeout` may set later), `Teardowns` (a subset of `fixture` and `answered`: the ways the client may end) and `BadReplies`.

**Fairness** (`FairSpec`) is weak fairness on every client handler (the read handler's dispatch turns and its re-arm included), on the timers and on the server's read loop. The io_context runs every queued handler, the OS completes writes and the clock expires timers. There is no fairness on `Call`, `Notify` or `SrvReply`: the user need not call, and a server handler need not reply. There is none on `Disconnect`, `SetTimeout`, `SrvSendBad` or the teardowns either.

**Deadlock.** Every cfg says `CHECK_DEADLOCK FALSE`, because the model has a finite number of user calls: once all are complete, the system really stops.

### Runs of PackioClient (MCPackioClient)

| Run | Instance | Checks | Result |
|---|---|---|---|
| `client_core` | 3 calls, 1 notification, 3-bit ids from 0, timeout on, symmetry over calls | `AtMostOnce`, `ResultMatchesRequest`, `NoLostCall` | pass (about 1.5M states) |
| `client_wrap` | 1-bit ids, any start, both teardowns, symmetry over calls | `TypeOK`, `AtMostOnce`, `RoutedById`, `LostOnlyByCollision` | pass (about 3.3M states): ids wrap and collide, and no handler runs twice. A handler gets another call's reply only through the id the two calls share (`RoutedById`). An issued call is lost only when `try_emplace` met another issued call with its id, or the fixture stopped io_ (`LostOnlyByCollision`). |
| `client_timeout_live` | 2 calls, timeout on at start, `set_timeout(0 or 1)` at any time, `FairSpec` | `EveryOperationCompletes`, `RepliedCallCompletes` | pass: every call that saw a positive timeout, and every notification, completes; a reply that reaches the socket completes its call, timed or not |
| `client_bad_reply` | 2 calls, no notification, no timeout at start, `set_timeout(1)` later, rejected and throwing messages, `FairSpec` | `UnpackedReplyDelivered`, `ImplementsLifecycle` | pass: a rejected message closes the connection, but the responses unpacked behind it are still dispatched (those behind a throwing one are not, and the property does not ask it); the client implements `CallLifecycle` |
| `read_after_destroy` | 2 calls, no timeout, destruction once answered | `NoUseAfterDestroy` | violated: `Dispatch` answers the last call, the user destroys the client, and the same read handler then runs `ReadRearm` (`unpacker_.next`, `async_read()`) on the destroyed object |
| `use_after_destroy` | 2 calls, timeout on, destroyed while io_ runs | `NoHandlerAfterDestroy` | violated: a timed-out call's write, aborted by `~client`, runs `maybe_call_handler` on the destroyed client |
| `wrap_misroute` | 1-bit ids | `ResultMatchesRequest` | violated: a late reply completes the newer call that reuses its id |
| `wrap_lost` | 1-bit ids, no timeout | `NoLostCall` | violated: `try_emplace` keeps the old entry and the new handler is lost |
| `torn_write` | 2 calls | `StreamWellFramed` | violated: unserialized `async_write`s interleave segments |
| `id_sign` | 2-bit ids starting at `INT_MAX` | `RepliedCallCompletes` | violated: `as<int>()` throws and the read chain dies. In the code the exception also leaves `io_context::run` on that thread, a harsher outcome the model does not follow |

**Why the bounds are enough.** Three calls are the fewest for the interesting orders: one call timed out while its reply is in flight, a second reusing its id, and a third behind them. 1-bit ids make every second call reuse an id. 3-bit ids with three calls never wrap, which separates the wrap bugs from the rest. Each message has two segments, the fewest that can tear.

**Mutants.** Each property of a passing run is broken by a plausible bug in the code it is about:

| Mutant | Property it breaks |
|---|---|
| `maybe_call_handler` not erasing the entry | `AtMostOnce` |
| only cancelled-timer entries invoked | `NoLostCall` |
| ids recycled from the smallest free one | `ResultMatchesRequest` |
| no wrap | `TypeOK` |
| the timer armed on a copy | `EveryOperationCompletes` |
| the read handler not calling `async_read()` again | `RepliedCallCompletes` |
| the timeout handler leaving the entry | `AtMostOnce`, `ImplementsLifecycle` |
| a malformed response ending the dispatch loop | `UnpackedReplyDelivered` |
| `++id_` in place of `id_++` (the call keeps one id, its entry another) | `RoutedById` |
| `maybe_call_handler` invoking only the handlers whose timer was cancelled | `LostOnlyByCollision` |

### The abstract call lifecycle (CallLifecycle)

`CallLifecycle` says what the client promises each call, whatever the handlers do: a call is made once (`Make`), and later completed at most once with one outcome (`Complete`). `PackioClient` maps onto it in `Lifecycle`: a call is made when it is no longer idle, and its outcome is the last handler invocation in `results`. `ImplementsLifecycle` is `Lifecycle!Spec`. It fails if any handler runs twice, or before its call was made.

## JsonFramer: incremental_buffers

**State.** The variables are `buffer_` (`buf`), `in_string_`, `depth_`, `first_char_` and `serialized_objects_`.

**Actions.**

- `Feed` is `feed` (with `reserve_in_place_buffer` and `in_place_buffer_consumed`) together with the whole of `incremental_parse`. The loop is the recursive `Scan`, and one iteration is `ScanStep`.
- `GetParsedBuffer` is `get_parsed_buffer`.

Positions are 0-based as in the code, and `npos` is -1. The spare capacity of `raw_buffer_` is never read, so it is not modelled.

**Input.** The environment feeds a stream made of whole messages (`Msgs`). It cuts chunks either only at message boundaries or anywhere inside a message (`SplitChunks`).

**Property.** `FramesMatchReference` compares everything emitted, taken or queued, with `RefFrames` of the bytes fed so far. `RefFrames` is a byte-at-a-time reference framer written from `spec.md` 4.2 with `FoldLeft`. The comparison ignores separators the framer keeps in front of a value.

| Run | Instance | Result |
|---|---|---|
| `framer_whole` | six values: both openers, nesting, brackets and quotes inside strings, one and two backslashes before a quote; up to 3 per stream; whole-value chunks | pass. A mutant of `is_escaped` that ignores the parity of backslashes breaks it. |
| `framer_chunks` | `{}` and `{{}}` cut anywhere, and `{}` with a space before or after | violated: values are lost. The scan restarts at `token_pos + 1`, past the first byte of a new chunk, and a value after a separator has its opener counted twice or skipped. |

## What is proved (PackioClientProofs, PackioLifecycleProofs, PackioRoutingProofs, PackioTeardownProofs)

These theorems hold for every value of the constants, under the assumptions declared in `PackioClient`:

- `IInvariant == Spec => []IInv`;
- `TypeCorrect == Spec => []TypeOK`;
- `AtMostOnceHolds == Spec => []AtMostOnce`;
- `Refinement == Spec => ImplementsLifecycle` (in `PackioLifecycleProofs`);
- in `PackioRoutingProofs`: `RoutingInvariant`, `RoutingHolds == Spec => []RoutedById`, `NoLossButCollision == Spec => []LostOnlyByCollision`, `UniqueIdsRouteCorrectly == Spec => [](UniqueIds => ResultMatchesRequest)` and `UniqueIdsLoseNothing == Spec => [](UniqueIds /\ life # "torndown" => NoLostCall)`;
- in `PackioTeardownProofs`, under `NoTimerNoStray`: `TeardownInvariant == Spec => []TInv` and `NoHandlerAfterDestroyHolds == Spec => NoHandlerAfterDestroy`.

**Assumptions.** Calls and notifications are disjoint, `None` is neither, and `IdBits >= 1`. Two arithmetic facts about `2^IdBits` are stated as an assumption that TLC evaluates (`IdSpaceAssumption`), because the provers do not evaluate `^`.

**The argument.** `AtMostOnce` alone is not inductive. A step that consumes an entry appends to the results of the entry's owner, so it needs two more facts:

- the owner has no result yet (`OwnedUnanswered`);
- no two entries own the same call (`OwnedOnce`).

Both are preserved because `Call` inserts only for a call that was idle (`IdleUnanswered`) and `try_emplace` never overwrites an entry. `TypeOK` is not inductive either. The server puts `callId[m]` of the message it frames into a request, so every message on the wire must have been issued (`WireIssued`), and every issued call must hold an id (`IssuedIds`).

`IInv` is the conjunction of these facts. TLC checked it as an invariant before it was proved (1-bit ids, any start: 16.7M states).

**The proof.**

- `InitIInv` shows the initial states satisfy `IInv`.
- There is one lemma per action, and `NextPreserves` combines them.
- The actions that consume an entry all go through `MaybeCallHandlerPreserves`.
- The theorems follow by PTL.

**The refinement.** `PackioLifecycleProofs` shows that `Init` maps to the lifecycle's initial state and that every step, under `IInv`, maps to a lifecycle step or a stutter. `Call(c)` is `Make(c)`, because `c` was idle. Every step that consumes an entry goes through `MaybeCallHandlerRefines`. The entry's owner was made and has no outcome (`OwnedUnanswered`), so appending to its results is `Complete`. Every other step changes neither the idle calls nor the results, so it stutters. The proof follows `Implementation` of the TLAPS two-phase-commit example.

**Routing (PackioRoutingProofs).** `ResultMatchesRequest` and `NoLostCall` are false once `id_` wraps (the runs `wrap_misroute` and `wrap_lost`). What holds for every id width is why they fail, and the module proves exactly that:

- `RoutedById`: a handler that gets another call's reply was made with the same id;
- `LostOnlyByCollision`: an issued call is lost only when another issued call holds its id, or the fixture's teardown destroyed the table.

Neither is inductive. A reply's routing depends on what is in flight, so the proof uses `HInv`, proved relative to `IInv` (`IInv /\ HInv /\ [Next]_vars => HInv'`). Its conjuncts:

- `EntryAtId`: each `pending_` entry sits at the id its call holds. `Call` inserts at `nextId`, which becomes the call's id.
- `InboxCarriesId`: every request the server holds carries the id of the issued call that sent it. The server copies `callId[m]` when it frames the message.
- `RepliesCarryId`: every reply on the wire or in the read buffer carries the id of its call. `SrvReply` echoes the request's id, and `read_some` only moves a prefix.
- `FromIssued`: every result names an issued call.
- `RoutedById` and `LostOnlyByCollision` themselves.

Ids never change once taken (`IdsKept`, from `IdleKept` of the refinement proof). The call-table lemmas (`TableFrame`, `MaybeCallHandlerTable`, `CallTable`, `DestroyTable`) and the wire lemmas (`InboxShrink`, `RepliesShrink`, `SrvRecvWire`, `SrvReplyWire`) give one lemma per group of actions, and `NextHInv` combines them. TLC checked `HInv` as an invariant on `client_wrap`, `client_bad_reply` and a run with both teardowns before it was proved.

The two corollaries state `ResultMatchesRequest` and `NoLostCall` in every state where the issued calls hold distinct ids (`UniqueIds`). They do not prove that ids stay distinct. With 32-bit ids that needs fewer than 2^32 calls in flight, a counting argument over `pending_`. Counting needs `FiniteSetTheorems` or `Folds`, which reach a `RECURSIVE` operator, or induction, which the installed provers cannot instantiate. The runs show the condition is needed: without it, both properties fail.

**Teardown (PackioTeardownProofs).** Two action properties say what may run once `life` is not `running`. `NoUseAfterDestroy` forbids every step of `UsesClient`: a call's `WriteFail`, a `TimeoutHandler`, a `Dispatch`, and the read handler's tail `ReadRearm`. It is false even in the most careful use: the handler that dispatches the last reply invokes the user's completion handler and then goes on with `unpacker_.next` and `async_read()` on the client (`read_after_destroy`). `NoHandlerAfterDestroy` forbids the steps of `UsesHandler`, which are the same steps without the tail: nothing reaches `pending_` or runs `dispatch` on the destroyed client. That one is proved, and it does not hold for every configuration: the theorem assumes `NoTimerNoStray`:

- `timeout_` is never above zero (`StartTimeouts = {0}`, `Timeouts \subseteq {0}`). This is the code's default (`timeout_{0}` in `client.h`, and `async_call` arms a timer only when `timeout_ > 0`). With a timeout set, `use_after_destroy` shows the property fails.
- The peer sends only responses to its requests (`BadReplies = FALSE`). With a stray message, a read that completed before `~client` has its handler queued with success (`client.h:171`), and it dispatches the stray message on the destroyed object, although every call had been answered.

The `read_after_destroy` constants satisfy the hypothesis, so it is not vacuous. The step is safe after `FixtureTeardown` because `io_.stop()` ends every handler (`IoRuns` false). After `DestroyWhenAnswered` it is safe only if nothing of any call is left in flight. That is what the inductive invariant `TInv` says, and it needs these conjuncts:

- `TimersIdle`: no timer is armed or fired.
- `NoStray`: every message in flight (`Flight == rbuf \o s2c`) is a response.
- `Closed`: a closed connection carries nothing to the server.
- `Segments`: each of a message's two segments is written once, by its own write, and a message whose second segment is out is `done`. The framer's partial message has its first segment gone.
- `Stages`: a call's segments, the server's request and the reply exist one at a time and once each, and only after the call's write is `done`.
- `NoLostCall => AnsweredQuiet`: when no call is lost, a call whose handler ran has nothing in flight.
- `Destroyed`: after `~client` no call is writing and the read handler holds no unpacked response (it may still be in its tail, `rstate = "handling"`, which is the `read_after_destroy` trace).

The guard on `AnsweredQuiet` is needed. A call lost to an id collision can have its reply delivered to the other call with the same id, so an answered call may still have a reply in flight. But a lost call stays lost (`LostStays`), so such a run never reaches `DestroyWhenAnswered` (`KeptBefore`: `NoLostCall' => NoLostCall`). With that guard, `DestroyWhenAnswered`, which requires every issued call to be answered, finds an empty read buffer. A response at the front would name an issued, answered call, by `RepliesCarryId` of `HInv`, and `AnsweredQuiet` says none is in flight.

The proof has one lemma per group of actions, and `NextTInv` combines them. It uses `IInv` and `HInv` of the state before (`RoutingInvariant`). `OwnerAnswered` says that `maybe_call_handler` with a call's id answers that call when its entry is still in `pending_` (from `EntryAtId`). `FlightShrink`, `ConsumeStep` and `C2sTail` describe taking messages off the front of the two streams. Finally, `GoneUnused` shows that `TInv` disables every step of `UsesHandler` once `life` is not `running`, and PTL gives the action property. TLC checked `TInv` and `LostStays` as an invariant and a property before they were proved (2 calls, 1- and 2-bit ids with any start, both teardowns).

**Left to TLC.** The following are model-checked only:

- Liveness (`EveryOperationCompletes`, `RepliedCallCompletes`, `UnpackedReplyDelivered`). It needs fairness and ENABLED, which the prover cannot handle.
- `ResultMatchesRequest` and `NoLostCall`. They are false in general (they fail once ids wrap) and are proved only under `UniqueIds`, above. `client_core` checks them unconditionally on an instance where ids do not wrap.
- `NoHandlerAfterDestroy` outside `NoTimerNoStray`. It is false there: `use_after_destroy` shows this for a set timeout. `NoUseAfterDestroy` is false in every configuration with `DestroyWhenAnswered` (`read_after_destroy`).
- `JsonFramer` (`FramesMatchReference`). Its scan is a `RECURSIVE` operator, and it uses `SequencesExt`. Tlapm loses its SMT backend in any module that reaches a `RECURSIVE` operator. Also, what the scan computes for every input is a statement by induction over the data, and the installed provers cannot instantiate the library's induction theorems.

## Not modelled

- **`timeout_handler`.** It is never called in `client.h`.
- **The values of the timeout.** Only the sign of `timeout_` matters to the control flow; the clock is abstracted to a timer that may expire at any time.
- **Parts whose code is not under `src/`.** The codecs, the msgpack unpacker, the dispatcher registry, the completion handler's at-most-once reply, the server's write queue and the acceptor.
- **The test bodies of `basic.cpp`.** They exercise the server, the dispatcher and the codecs. Only the fixture's lifetime handling is modelled.
- **`config.h`.** It holds only macros.
