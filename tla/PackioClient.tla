---------------------------- MODULE PackioClient ----------------------------
(***************************************************************************)
(* The msgpack-RPC client of packio (src/include/packio/client.h) talking  *)
(* to one server session over one stream connection.                      *)
(*                                                                         *)
(* Client state: the id counter id_, the call table pending_ (id -> the    *)
(* completion handler of one call and its timer), the reading_ flag and    *)
(* read chain, and the async_write operations in flight.  Every user call  *)
(* of async_call / async_notify is one element of Calls / Notes.  The      *)
(* socket is two FIFO streams: c2s carries request bytes, cut into the     *)
(* segments that single write_some operations put on the wire, s2c carries *)
(* the server's replies.  The server session is the peer: its framer, its  *)
(* dispatch and its replies are modelled from spec.md (4.3-4.6).           *)
(*                                                                         *)
(* The io_context runs handlers on several threads with no strand, so      *)
(* every handler (write completion, timer, read) is an action of its own   *)
(* and the only atomicity is the one pending_mutex_ provides.              *)
(***************************************************************************)
EXTENDS Integers, Sequences, FiniteSets

CONSTANTS
    Calls,      \* the async_call invocations of the user
    Notes,      \* the async_notify invocations of the user
    IdBits,     \* width of the id counter id_ (std::atomic<uint32_t>: 32)
    StartIds,   \* values id_ may have when the model starts
    StartTimeouts, \* the sign of timeout_ when the model starts (0: none set)
    Timeouts,   \* the values the user may pass to set_timeout later
    Teardowns,  \* how the client object may end: as the test fixture, or once answered
    BadReplies, \* the peer may send a message that is not a response
    None        \* no message / no call

ASSUME IdBitsAssumption == IdBits \in Nat \ {0}
ASSUME MsgsAssumption == Calls \cap Notes = {} /\ None \notin Calls \cup Notes
ASSUME TimeoutAssumption ==
    StartTimeouts \subseteq {0, 1} /\ StartTimeouts # {} /\ Timeouts \subseteq {0, 1}
ASSUME TeardownAssumption == Teardowns \subseteq {"fixture", "answered"}
ASSUME BadRepliesAssumption == BadReplies \in BOOLEAN

\* The values of a uint32_t, and the largest value of an int of the same
\* width: response ids are read back with as<int>() (client.h:235).
IdSpace == 2^IdBits
Ids == 0 .. IdSpace - 1
IntMax == 2^(IdBits - 1) - 1

\* The arithmetic facts about the two bounds that the proofs use (the
\* provers do not evaluate ^).
ASSUME IdSpaceAssumption == IdSpace \in Nat \ {0} /\ IntMax \in Int

ASSUME StartIdsAssumption == StartIds \subseteq Ids /\ StartIds # {}

Msgs == Calls \cup Notes

\* A message reaches the socket in at most two write_some operations of
\* its async_write; a segment is one of them.
Segment == [msg : Msgs, part : {1, 2}]

\* A reply of the server: the request id it echoes, whether the error field
\* is set, and (a ghost) the call whose request it answers.
Response == [id : Ids, err : BOOLEAN, call : Calls]

\* The msgpack objects the unpacker yields that are not responses: one that
\* verify_reponse rejects (not an array, not four elements, or an integer
\* type field other than 1), and one whose type field is not an integer, so
\* that its as<int>() in verify_reponse throws.
BadReply == [bad |-> "rejected"]
BadField == [bad |-> "throws"]
Stray == {BadReply, BadField}

\* What a completion handler of async_call is invoked with: the error code
\* and, for a server reply, the call whose request the reply answers.
Outcome == [ec : {"success", "call_error", "timeout", "write_error"},
            from : Calls \cup {None}]

VARIABLES
    nextId,     \* id_
    callId,     \* the id each call took from id_ (captured by its lambdas)
    pc,         \* where each user call is: idle, issued (in pending_), writing, done
    wpos,       \* segments of each message already on the wire
    pending,    \* pending_: id -> the call whose handler the entry owns
    armed,      \* ids whose entry timer has a wait that has not expired
    fired,      \* id -> timer waits that expired and whose handler is queued
    rstate,     \* the read chain: off (reading_ clear), reading (a read is
                \* pending), handling (its handler runs), stopped
    rbuf,       \* responses unpacked by the running read handler, not yet dispatched
    c2s,        \* client -> server byte stream, as segments
    s2c,        \* server -> client byte stream, as responses
    connected,  \* the connection is up
    srvPartial, \* the message whose first segment the server framer holds
    srvInbox,   \* requests the server dispatched and has not answered
    results,    \* call -> the invocations of its completion handler
    noteResult, \* notification -> the error code its write handler got
    timeout,    \* timeout_, by its sign: 1 when > duration_type{0}, else 0
    timed,      \* (history) the calls whose async_call saw timeout_ > 0
    life        \* the client object: running, destroyed while the io_context
                \* runs, or torn down (io_context stopped, then destroyed)

vars == <<nextId, callId, pc, wpos, pending, armed, fired, rstate, rbuf,
          c2s, s2c, connected, srvPartial, srvInbox, results, noteResult,
          timeout, timed, life>>

TypeOK ==
    /\ nextId \in Ids
    /\ callId \in [Calls -> Ids \cup {None}]
    /\ pc \in [Msgs -> {"idle", "issued", "writing", "done"}]
    /\ wpos \in [Msgs -> 0 .. 2]
    /\ DOMAIN pending \subseteq Ids /\ pending \in [DOMAIN pending -> Calls]
    /\ armed \subseteq Ids
    /\ fired \in [Ids -> Nat]
    /\ rstate \in {"off", "reading", "handling", "stopped"}
    /\ rbuf \in Seq(Response \cup Stray)
    /\ c2s \in Seq(Segment)
    /\ s2c \in Seq(Response \cup Stray)
    /\ connected \in BOOLEAN
    /\ srvPartial \in Msgs \cup {None}
    /\ srvInbox \subseteq [id : Ids, call : Calls]
    /\ results \in [Calls -> Seq(Outcome)]
    /\ noteResult \in [Notes -> {"none", "success", "error"}]
    /\ timeout \in {0, 1}
    /\ timed \subseteq Calls
    /\ life \in {"running", "destroyed", "torndown"}

-----------------------------------------------------------------------------
(* Helpers on the call table.                                              *)

\* The table with the entry of id i erased.
Erase(p, i) == [j \in DOMAIN p \ {i} |-> p[j]]

\* The table with an entry i -> c added.
Insert(p, i, c) == [j \in DOMAIN p \cup {i} |-> IF j = i THEN c ELSE p[j]]

\* maybe_start_reading: the first caller that sets reading_ starts the
\* read chain.
MaybeStartReading ==
    rstate' = IF rstate = "off" THEN "reading" ELSE rstate

\* Mutations of maybe_call_handler, to test the properties: the entry is
\* not erased; the handler is invoked only when timer.cancel() aborted a
\* wait (as if a cancelled-nothing timer meant the timer handler owns it).
MaybeCallHandlerKeepsEntry(i, out) ==
    IF i \in DOMAIN pending
    THEN /\ armed' = armed \ {i}
         /\ results' = [results EXCEPT ![pending[i]] = Append(@, out)]
         /\ UNCHANGED pending
    ELSE UNCHANGED <<pending, armed, results>>

MaybeCallHandlerIfCancelled(i, out) ==
    IF i \in DOMAIN pending
    THEN /\ pending' = Erase(pending, i)
         /\ armed' = armed \ {i}
         /\ results' = IF i \in armed
                       THEN [results EXCEPT ![pending[i]] = Append(@, out)]
                       ELSE results
    ELSE UNCHANGED <<pending, armed, results>>

\* maybe_call_handler(id, result, ec): under the lock, find the entry; if
\* there is none the answer is dropped, otherwise erase it, cancel its timer
\* and invoke its handler with the outcome.
MaybeCallHandler(i, out) ==
    IF i \in DOMAIN pending
    THEN /\ pending' = Erase(pending, i)
         /\ armed' = armed \ {i}
         /\ results' = [results EXCEPT ![pending[i]] = Append(@, out)]
    ELSE UNCHANGED <<pending, armed, results>>

-----------------------------------------------------------------------------
(* The connection.                                                          *)

\* The session closes: the connection is down, what was in flight to the
\* server is lost, and the handlers' later replies are dropped.
CloseSession ==
    /\ connected' = FALSE
    /\ c2s' = <<>>
    /\ srvPartial' = None
    /\ srvInbox' = {}

\* close_connection: socket_.cancel(), shutdown(shutdown_both), close().
\* The read and the writes in flight abort, the bytes not yet read are
\* discarded, and the peer's session sees the connection end.
CloseConnection ==
    /\ CloseSession
    /\ s2c' = <<>>

-----------------------------------------------------------------------------
(* Client operations.                                                      *)

\* The io_context still runs handlers: the test fixture's teardown stops it
\* before the client is destroyed.
IoRuns == life # "torndown"

\* set_timeout(d): a plain store to timeout_, with no lock and no atomic.
\* The race with the reads in async_call is undefined behaviour; a read
\* sees the old or the new value, and either has the sign of one of them,
\* which is all the model keeps of a duration.
SetTimeout(t) ==
    /\ life = "running"
    /\ timeout' = t
    /\ UNCHANGED <<nextId, callId, pc, wpos, pending, armed, fired, rstate,
                   rbuf, c2s, s2c, connected, srvPartial, srvInbox, results,
                   noteResult, timed, life>>

\* The timer of the entry of id i is armed when async_call reads
\* timeout_ > 0; timed records the call that saw it.
ArmIfTimeout(i, c) ==
    /\ armed' = IF timeout > 0 THEN armed \cup {i} ELSE armed
    /\ timed' = IF timeout > 0 THEN timed \cup {c} ELSE timed

\* Mutations of async_call: id_ without the wrap of uint32_t; the id taken
\* as the smallest one with no entry (ids recycled as soon as freed); the
\* timer armed on a moved-from copy instead of the stored entry.
CallNoWrap(c) ==
    /\ life = "running"
    /\ pc[c] = "idle"
    /\ nextId' = nextId + 1
    /\ callId' = [callId EXCEPT ![c] = nextId]
    /\ pending' = IF nextId \in DOMAIN pending THEN pending
                  ELSE Insert(pending, nextId, c)
    /\ ArmIfTimeout(nextId, c)
    /\ pc' = [pc EXCEPT ![c] = "issued"]
    /\ UNCHANGED <<wpos, fired, rstate, rbuf, c2s, s2c, connected,
                   srvPartial, srvInbox, results, noteResult, timeout, life>>

CallReuseFreeId(c) ==
    /\ life = "running"
    /\ pc[c] = "idle"
    /\ LET id == CHOOSE i \in Ids \ DOMAIN pending :
                     \A j \in Ids \ DOMAIN pending : i <= j
       IN /\ callId' = [callId EXCEPT ![c] = id]
          /\ pending' = Insert(pending, id, c)
          /\ ArmIfTimeout(id, c)
    /\ pc' = [pc EXCEPT ![c] = "issued"]
    /\ UNCHANGED <<nextId, wpos, fired, rstate, rbuf, c2s, s2c, connected,
                   srvPartial, srvInbox, results, noteResult, timeout, life>>

\* Mutation of async_call: the captured id is ++id_ while the entry is
\* stored under the id before the increment.
CallPreIncrement(c) ==
    /\ life = "running"
    /\ pc[c] = "idle"
    /\ nextId' = (nextId + 1) % IdSpace
    /\ callId' = [callId EXCEPT ![c] = (nextId + 1) % IdSpace]
    /\ pending' = IF nextId \in DOMAIN pending THEN pending
                  ELSE Insert(pending, nextId, c)
    /\ ArmIfTimeout(nextId, c)
    /\ pc' = [pc EXCEPT ![c] = "issued"]
    /\ UNCHANGED <<wpos, fired, rstate, rbuf, c2s, s2c, connected,
                   srvPartial, srvInbox, results, noteResult, timeout, life>>

CallTimerOnCopy(c) ==
    /\ life = "running"
    /\ pc[c] = "idle"
    /\ nextId' = (nextId + 1) % IdSpace
    /\ callId' = [callId EXCEPT ![c] = nextId]
    /\ pending' = IF nextId \in DOMAIN pending THEN pending
                  ELSE Insert(pending, nextId, c)
    /\ timed' = IF timeout > 0 THEN timed \cup {c} ELSE timed
    /\ pc' = [pc EXCEPT ![c] = "issued"]
    /\ UNCHANGED <<wpos, armed, fired, rstate, rbuf, c2s, s2c, connected,
                   srvPartial, srvInbox, results, noteResult, timeout, life>>

\* async_call, up to the write: take id = id_++ (wrapping), and under the
\* lock try_emplace (id, handler, timer) and, if timeout_ > 0, arm the
\* timer of the entry.  try_emplace leaves an existing entry with the same
\* id in place, and then the timer armed is that entry's.
Call(c) ==
    /\ life = "running"
    /\ pc[c] = "idle"
    /\ nextId' = (nextId + 1) % IdSpace
    /\ callId' = [callId EXCEPT ![c] = nextId]
    /\ pending' = IF nextId \in DOMAIN pending THEN pending
                  ELSE Insert(pending, nextId, c)
    /\ ArmIfTimeout(nextId, c)
    /\ pc' = [pc EXCEPT ![c] = "issued"]
    /\ UNCHANGED <<wpos, fired, rstate, rbuf, c2s, s2c, connected,
                   srvPartial, srvInbox, results, noteResult, timeout, life>>

\* async_call, after the lock: maybe_start_reading, then async_write.
StartWrite(c) ==
    /\ pc[c] = "issued"
    /\ pc' = [pc EXCEPT ![c] = "writing"]
    /\ MaybeStartReading
    /\ UNCHANGED <<nextId, callId, wpos, pending, armed, fired, rbuf, c2s,
                   s2c, connected, srvPartial, srvInbox, results, noteResult,
                   timeout, timed, life>>

\* async_notify: pack, maybe_start_reading, async_write.
Notify(n) ==
    /\ life = "running"
    /\ pc[n] = "idle"
    /\ pc' = [pc EXCEPT ![n] = "writing"]
    /\ MaybeStartReading
    /\ UNCHANGED <<nextId, callId, wpos, pending, armed, fired, rbuf, c2s,
                   s2c, connected, srvPartial, srvInbox, results, noteResult,
                   timeout, timed, life>>

\* One write_some of the composed async_write of m.  Nothing serialises
\* the async_writes of different calls on the socket.  When the last
\* segment is out, the write handler runs with success: for a call it only
\* logs, for a notification it invokes the user's handler.  Once the
\* client is destroyed, socket_.cancel() has aborted the write.
WriteSome(m) ==
    /\ life = "running"
    /\ pc[m] = "writing"
    /\ connected
    /\ wpos[m] < 2
    /\ c2s' = Append(c2s, [msg |-> m, part |-> wpos[m] + 1])
    /\ wpos' = [wpos EXCEPT ![m] = @ + 1]
    /\ IF wpos[m] = 1
       THEN /\ pc' = [pc EXCEPT ![m] = "done"]
            /\ noteResult' = IF m \in Notes
                             THEN [noteResult EXCEPT ![m] = "success"]
                             ELSE noteResult
       ELSE UNCHANGED <<pc, noteResult>>
    /\ UNCHANGED <<nextId, callId, pending, armed, fired, rstate, rbuf, s2c,
                   connected, srvPartial, srvInbox, results, timeout, timed,
                   life>>

\* The async_write of m fails on a broken, closed or cancelled socket.  A
\* call's write handler does maybe_call_handler(id, ec.message(), ec) on
\* the client it captured; a notification's passes ec to the user's handler.
WriteFail(m) ==
    /\ IoRuns
    /\ pc[m] = "writing"
    /\ ~connected
    /\ pc' = [pc EXCEPT ![m] = "done"]
    /\ IF m \in Calls
       THEN /\ MaybeCallHandler(callId[m], [ec |-> "write_error", from |-> None])
            /\ UNCHANGED noteResult
       ELSE /\ noteResult' = [noteResult EXCEPT ![m] = "error"]
            /\ UNCHANGED <<pending, armed, results>>
    /\ UNCHANGED <<nextId, callId, wpos, fired, rstate, rbuf, c2s, s2c,
                   connected, srvPartial, srvInbox, timeout, timed, life>>

\* The timer of entry i expires: its wait handler is queued with success;
\* a cancel() from now on no longer aborts it.
TimerExpire(i) ==
    /\ i \in armed
    /\ armed' = armed \ {i}
    /\ fired' = [fired EXCEPT ![i] = @ + 1]
    /\ UNCHANGED <<nextId, callId, pc, wpos, pending, rstate, rbuf, c2s, s2c,
                   connected, srvPartial, srvInbox, results, noteResult,
                   timeout, timed, life>>

\* Mutation of the timeout handler: the handler is invoked but the entry
\* is left in pending_.
TimeoutHandlerKeepsEntry(i) ==
    /\ IoRuns
    /\ fired[i] > 0
    /\ fired' = [fired EXCEPT ![i] = @ - 1]
    /\ IF i \in DOMAIN pending
       THEN results' = [results EXCEPT ![pending[i]] =
                           Append(@, [ec |-> "timeout", from |-> None])]
       ELSE UNCHANGED results
    /\ UNCHANGED <<nextId, callId, pc, wpos, pending, armed, rstate, rbuf,
                   c2s, s2c, connected, srvPartial, srvInbox, noteResult,
                   timeout, timed, life>>

\* The handler of async_timeout for id i: under the lock, find the entry;
\* if it is gone, log; otherwise move it out, erase it, unlock and invoke
\* the handler with error::timeout.  The moved-out timer is destroyed, which
\* aborts a wait armed on it since.
TimeoutHandler(i) ==
    /\ IoRuns
    /\ fired[i] > 0
    /\ fired' = [fired EXCEPT ![i] = @ - 1]
    /\ MaybeCallHandler(i, [ec |-> "timeout", from |-> None])
    /\ UNCHANGED <<nextId, callId, pc, wpos, rstate, rbuf, c2s, s2c,
                   connected, srvPartial, srvInbox, noteResult, timeout,
                   timed, life>>

\* The async_read_some handler, success branch: buffer_consumed, and the
\* unpacker yields the k complete messages now in the buffer.  (A read that
\* completes no message goes on to async_read() as ReadRearm does.)  Once
\* the client is destroyed, socket_.cancel() has aborted the read.
ReadSome ==
    /\ life = "running"
    /\ rstate = "reading"
    /\ rbuf = <<>>
    /\ \E k \in 1 .. Len(s2c) :
          /\ rbuf' = SubSeq(s2c, 1, k)
          /\ s2c' = SubSeq(s2c, k + 1, Len(s2c))
    /\ rstate' = "handling"
    /\ UNCHANGED <<nextId, callId, pc, wpos, pending, armed, fired,
                   c2s, connected, srvPartial, srvInbox, results, noteResult,
                   timeout, timed, life>>

\* The async_read_some handler, error branch: log, and the chain ends;
\* reading_ stays set, so no later call restarts it.
ReadFail ==
    /\ IoRuns
    /\ rstate = "reading"
    /\ rbuf = <<>>
    /\ s2c = <<>>
    /\ ~connected
    /\ rstate' = "stopped"
    /\ UNCHANGED <<nextId, callId, pc, wpos, pending, armed, fired, rbuf, c2s,
                   s2c, connected, srvPartial, srvInbox, results, noteResult,
                   timeout, timed, life>>

\* The outcome dispatch hands to maybe_call_handler for a response.
ReplyOutcome(r) ==
    [ec |-> IF r.err THEN "call_error" ELSE "success", from |-> r.call]

\* dispatch throws: the type field or the id is out of as<int>()'s reach.
Throws(r) == r = BadField \/ (r \notin Stray /\ r.id > IntMax)

\* Mutation of the read handler: a message verify_reponse rejects ends the
\* handler, as an exception does, with the rest of the loop.
DispatchBadEndsLoop ==
    /\ IoRuns
    /\ rbuf # <<>>
    /\ LET r == Head(rbuf) IN
       \/ /\ r = BadReply
          /\ CloseConnection
          /\ rbuf' = <<>>
          /\ rstate' = "stopped"
          /\ UNCHANGED <<pending, armed, results>>
       \/ /\ Throws(r)
          /\ rstate' = "stopped"
          /\ rbuf' = <<>>
          /\ UNCHANGED <<pending, armed, results, c2s, s2c, connected,
                         srvPartial, srvInbox>>
       \/ /\ r \notin Stray /\ r.id <= IntMax
          /\ MaybeCallHandler(r.id, ReplyOutcome(r))
          /\ rbuf' = Tail(rbuf)
          /\ UNCHANGED <<rstate, c2s, s2c, connected, srvPartial, srvInbox>>
    /\ UNCHANGED <<nextId, callId, pc, wpos, fired, noteResult, timeout,
                   timed, life>>

\* One turn of the unpacker loop: async_dispatch runs dispatch(response)
\* inline.  A message verify_reponse rejects makes dispatch close the
\* connection and return; the loop goes on with the next message.  The
\* type field and the id are read with as<int>(), which throws for a type
\* that is not an integer and for an id above INT_MAX: the exception leaves
\* the read handler, so the rest of the loop and the async_read() that
\* re-arms the chain never run (nor does the rest of io_context::run on
\* that thread, which the model does not follow).  Otherwise the error
\* field selects call_error or success for maybe_call_handler.
Dispatch ==
    /\ IoRuns
    /\ rbuf # <<>>
    /\ LET r == Head(rbuf) IN
       \/ /\ r = BadReply
          /\ CloseConnection
          /\ rbuf' = Tail(rbuf)
          /\ UNCHANGED <<pending, armed, results, rstate>>
       \/ /\ Throws(r)
          /\ rstate' = "stopped"
          /\ rbuf' = <<>>
          /\ UNCHANGED <<pending, armed, results, c2s, s2c, connected,
                         srvPartial, srvInbox>>
       \/ /\ r \notin Stray /\ r.id <= IntMax
          /\ MaybeCallHandler(r.id, ReplyOutcome(r))
          /\ rbuf' = Tail(rbuf)
          /\ UNCHANGED <<rstate, c2s, s2c, connected, srvPartial, srvInbox>>
    /\ UNCHANGED <<nextId, callId, pc, wpos, fired, noteResult, timeout,
                   timed, life>>

\* Mutation of the read handler: async_read() is not called again after
\* the unpacker loop.
ReadRearmStops ==
    /\ IoRuns
    /\ rstate = "handling"
    /\ rbuf = <<>>
    /\ rstate' = "stopped"
    /\ UNCHANGED <<nextId, callId, pc, wpos, pending, armed, fired, rbuf, c2s,
                   s2c, connected, srvPartial, srvInbox, results, noteResult,
                   timeout, timed, life>>

\* The end of the read handler's success branch: unpacker_.next finds no
\* more messages, and async_read() reserves space in unpacker_ and starts
\* the next async_read_some on socket_, both members of the client the
\* handler captured.
ReadRearm ==
    /\ IoRuns
    /\ rstate = "handling"
    /\ rbuf = <<>>
    /\ rstate' = "reading"
    /\ UNCHANGED <<nextId, callId, pc, wpos, pending, armed, fired, rbuf, c2s,
                   s2c, connected, srvPartial, srvInbox, results, noteResult,
                   timeout, timed, life>>

-----------------------------------------------------------------------------
(* The end of the client object.                                           *)

\* ~client: socket_.cancel() aborts the read and the writes in flight;
\* then the members are destroyed: pending_ with the handlers it owns
\* (never invoked) and their timers, whose destructors abort the waits not
\* yet expired, and socket_, whose destructor closes the connection.  The
\* user thread that destroys the client is not inside async_call.
DestroyClient ==
    /\ \A c \in Calls : pc[c] # "issued"
    /\ pending' = [i \in {} |-> None]
    /\ armed' = {}
    /\ CloseConnection
    /\ UNCHANGED <<nextId, callId, pc, wpos, fired, rstate, rbuf, results,
                   noteResult, timeout, timed>>

\* The test fixture's destructor (basic.cpp): io_.stop(), join the thread
\* that runs the io_context, and then the members, the client among them,
\* are destroyed.  No handler runs after io_.stop() has returned and the
\* runner has been joined.
FixtureTeardown ==
    /\ "fixture" \in Teardowns
    /\ life = "running"
    /\ life' = "torndown"
    /\ DestroyClient

\* A user that destroys the client (~client) once every handler it is
\* waiting for has run, with the io_context still running.  The guard is a
\* discipline the model assumes of the user, the most careful one that does
\* not stop the io_context: ~client itself waits for nothing.
DestroyWhenAnswered ==
    /\ "answered" \in Teardowns
    /\ life = "running"
    /\ \A c \in Calls : pc[c] # "idle" => results[c] # <<>>
    /\ \A n \in Notes : pc[n] # "idle" => noteResult[n] # "none"
    /\ life' = "destroyed"
    /\ DestroyClient

-----------------------------------------------------------------------------
(* The peer: the server session and the transport (spec.md 4.2, 4.6).      *)

\* The session's framer takes the next segment.  A first segment starts a
\* message; the second segment of that message completes it and a request
\* is dispatched (a notification is dispatched and never answered).
\* Anything else is not a msgpack message: BadMessage closes the session.
SrvRecv ==
    /\ connected
    /\ c2s # <<>>
    /\ LET seg == Head(c2s) IN
       \/ /\ seg.part = 1
          /\ srvPartial = None
          /\ srvPartial' = seg.msg
          /\ c2s' = Tail(c2s)
          /\ UNCHANGED <<connected, srvInbox>>
       \/ /\ seg.part = 2
          /\ srvPartial = seg.msg
          /\ srvPartial' = None
          /\ c2s' = Tail(c2s)
          /\ srvInbox' = IF seg.msg \in Calls
                         THEN srvInbox \cup {[id |-> callId[seg.msg], call |-> seg.msg]}
                         ELSE srvInbox
          /\ UNCHANGED connected
       \/ /\ ~(seg.part = 1 /\ srvPartial = None)
          /\ ~(seg.part = 2 /\ srvPartial = seg.msg)
          /\ CloseSession
    /\ UNCHANGED <<nextId, callId, pc, wpos, pending, armed, fired, rstate,
                   rbuf, s2c, results, noteResult, timeout, timed, life>>

\* A handler completes a dispatched request: the reply, with the result or
\* with an error (unknown function, incompatible arguments, set_error, or a
\* dropped completion handler), goes to the write queue and the wire.
SrvReply ==
    /\ connected
    /\ \E req \in srvInbox, err \in BOOLEAN :
          /\ s2c' = Append(s2c, [id |-> req.id, err |-> err, call |-> req.call])
          /\ srvInbox' = srvInbox \ {req}
    /\ UNCHANGED <<nextId, callId, pc, wpos, pending, armed, fired, rstate,
                   rbuf, c2s, connected, srvPartial, results, noteResult,
                   timeout, timed, life>>

\* Fault model: the peer sends a message that is not a msgpack-RPC
\* response (a peer of another kind, or a corrupted stream); one at a time.
SrvSendBad ==
    /\ BadReplies
    /\ connected
    /\ \A k \in 1 .. Len(s2c) : s2c[k] \notin Stray
    /\ \E b \in Stray : s2c' = Append(s2c, b)
    /\ UNCHANGED <<nextId, callId, pc, wpos, pending, armed, fired, rstate,
                   rbuf, c2s, connected, srvPartial, srvInbox, results,
                   noteResult, timeout, timed, life>>

\* The connection breaks (peer close, network failure).
Disconnect ==
    /\ connected
    /\ CloseSession
    /\ UNCHANGED <<nextId, callId, pc, wpos, pending, armed, fired, rstate,
                   rbuf, s2c, results, noteResult, timeout, timed, life>>

-----------------------------------------------------------------------------

Init ==
    /\ nextId \in StartIds
    /\ callId = [c \in Calls |-> None]
    /\ pc = [m \in Msgs |-> "idle"]
    /\ wpos = [m \in Msgs |-> 0]
    /\ pending = [i \in {} |-> None]
    /\ armed = {}
    /\ fired = [i \in Ids |-> 0]
    /\ rstate = "off"
    /\ rbuf = <<>>
    /\ c2s = <<>>
    /\ s2c = <<>>
    /\ connected = TRUE
    /\ srvPartial = None
    /\ srvInbox = {}
    /\ results = [c \in Calls |-> <<>>]
    /\ noteResult = [n \in Notes |-> "none"]
    /\ timeout \in StartTimeouts
    /\ timed = {}
    /\ life = "running"

\* The steps the io_context and the client's own threads take.
ClientStep ==
    \/ \E c \in Calls : StartWrite(c)
    \/ \E m \in Msgs : WriteSome(m) \/ WriteFail(m)
    \/ \E i \in Ids : TimerExpire(i) \/ TimeoutHandler(i)
    \/ ReadSome \/ ReadFail \/ Dispatch \/ ReadRearm

\* What the user's threads do with the client object.
UserStep ==
    \/ \E c \in Calls : Call(c)
    \/ \E n \in Notes : Notify(n)
    \/ \E t \in Timeouts : SetTimeout(t)
    \/ FixtureTeardown \/ DestroyWhenAnswered

Next ==
    \/ UserStep
    \/ ClientStep
    \/ SrvRecv \/ SrvReply \/ SrvSendBad \/ Disconnect

Spec == Init /\ [][Next]_vars

\* The io_context runs every queued handler, the OS completes writes and
\* the clock expires timers; the session's read loop takes what arrives.
\* The user need not call, set a timeout or destroy the client, a server
\* handler need not ever reply, and the connection need not break.
Fairness ==
    /\ \A c \in Calls : WF_vars(StartWrite(c))
    /\ \A m \in Msgs : WF_vars(WriteSome(m)) /\ WF_vars(WriteFail(m))
    /\ \A i \in Ids : WF_vars(TimerExpire(i)) /\ WF_vars(TimeoutHandler(i))
    /\ WF_vars(ReadSome) /\ WF_vars(ReadFail) /\ WF_vars(Dispatch)
    /\ WF_vars(ReadRearm)
    /\ WF_vars(SrvRecv)

FairSpec == Spec /\ Fairness

-----------------------------------------------------------------------------
(* The call lifecycle this model implements: a call is made when async_call *)
(* takes its id, and completed by the first invocation of its handler; the  *)
(* outcome is the last one the handler was invoked with.                    *)

LastOutcome(c) ==
    IF results[c] = <<>> THEN None ELSE results[c][Len(results[c])]

Lifecycle == INSTANCE CallLifecycle
    WITH made <- {c \in Calls : pc[c] # "idle"},
         outcome <- [c \in Calls |-> LastOutcome(c)],
         Outcomes <- Outcome

-----------------------------------------------------------------------------
(* Properties.                                                             *)

\* A call's completion handler is the one call has been issued for.
Issued(c) == pc[c] # "idle"

\* The handler of call c is owned by an entry of pending_.
Owned(c) == \E i \in DOMAIN pending : pending[i] = c

\* At-most-once completion (spec.md 8): the timer handler, the response
\* path and the write-error path of client.h race for the same entry, and
\* the handler of every call is invoked at most once.
AtMostOnce == \A c \in Calls : Len(results[c]) <= 1

\* A reply is delivered to the call it answers (spec.md 4.5: a response
\* for an entry already consumed is dropped): no call's handler gets the
\* result or the error the server produced for another call's request.
ResultMatchesRequest ==
    \A c \in Calls : \A k \in 1 .. Len(results[c]) :
        results[c][k].from \in {None, c}

\* No call is lost: once async_call has taken its id, the call's handler
\* has been invoked or is still owned by an entry of pending_, where a
\* reply, the timer or the write error can reach it.
NoLostCall ==
    \A c \in Calls : Issued(c) => results[c] # <<>> \/ Owned(c)

\* A reply reaches another call only through the id the two calls share
\* (spec.md 4.5 routes a response by its id alone): whatever id_ has
\* wrapped to, a completion handler that gets the result or the error the
\* server produced for another call's request was made with the same id.
RoutedById ==
    \A c \in Calls : \A k \in 1 .. Len(results[c]) :
        results[c][k].from # None => callId[results[c][k].from] = callId[c]

\* A call is lost only by an id collision: once async_call has taken its
\* id, the call's handler has been invoked, or an entry of pending_ owns
\* it, or try_emplace found the entry of another issued call with the same
\* id, or the fixture's teardown destroyed the table with io_ stopped.
LostOnlyByCollision ==
    \A c \in Calls : Issued(c) =>
        \/ results[c] # <<>>
        \/ Owned(c)
        \/ \E d \in Calls \ {c} : Issued(d) /\ callId[d] = callId[c]
        \/ life = "torndown"

\* The bytes the server's framer has yet to frame (with the first half it
\* holds) are whole messages one after the other, each possibly with its
\* second half still to come (spec.md 5: the write path of a connection is
\* exclusive).
FramedStream ==
    IF srvPartial = None THEN c2s
    ELSE <<[msg |-> srvPartial, part |-> 1]>> \o c2s

StreamWellFramed ==
    LET s == FramedStream IN
    \A k \in 1 .. Len(s) :
        /\ s[k].part = IF k % 2 = 1 THEN 1 ELSE 2
        /\ k % 2 = 0 => s[k].msg = s[k - 1].msg

\* Every call made while timeout_ > 0 and every notification eventually
\* has its handler invoked, whatever the server and the connection do and
\* however set_timeout races with the calls (spec.md 4.5: the timer
\* resolves what nothing else does).
EveryOperationCompletes ==
    /\ \A c \in Calls : c \in timed ~> results[c] # <<>>
    /\ \A n \in Notes : pc[n] # "idle" ~> noteResult[n] # "none"

\* A reply that is on its way to the client is eventually handed to a
\* completion handler: the read handler re-arms the chain after every
\* batch, so it keeps reading and dispatching.
RepliedCallCompletes ==
    \A c \in Calls :
        (\E k \in 1 .. Len(s2c) : s2c[k] \notin Stray /\ s2c[k].call = c)
            ~> results[c] # <<>>

\* A response the read handler has unpacked reaches its call unless it, or
\* a message before it, makes dispatch throw: the messages after one that
\* dispatch rejects and answers with close_connection are still dispatched
\* (spec.md 4.5).
UnpackedReplyDelivered ==
    \A c \in Calls :
        (\E k \in 1 .. Len(rbuf) :
            /\ rbuf[k] \notin Stray /\ rbuf[k].call = c
            /\ \A j \in 1 .. k : ~Throws(rbuf[j]))
            ~> results[c] # <<>>

\* The client implements the call lifecycle: async_call makes a call once,
\* and the write handler, the timer and the response path together invoke
\* its handler at most once and only after that, with one outcome, whatever
\* the order they run in and whatever id_ has wrapped to.
ImplementsLifecycle == Lifecycle!Spec

\* The handlers that dereference the client they captured, up to the
\* completion handler they invoke: a call's write handler on an error
\* (maybe_call_handler), a timer wait that completed before the timer was
\* destroyed, and the read handler's dispatch of a message.
UsesHandler ==
    \/ \E c \in Calls : WriteFail(c)
    \/ \E i \in Ids : TimeoutHandler(i)
    \/ Dispatch

\* No handler reaches the client's table after ~client: every handler that
\* captured `this` in async_call or async_timeout has run, or will never
\* run, and the read handler dispatches nothing, by the time the object is
\* gone.
NoHandlerAfterDestroy == [][life # "running" => ~UsesHandler]_vars

\* Every use of the client by a handler, with the read handler's tail:
\* after the last dispatch returns it calls unpacker_.next and async_read()
\* on the client it captured.
UsesClient == UsesHandler \/ ReadRearm

\* No handler uses the client after ~client, the read handler's tail
\* included.
NoUseAfterDestroy == [][life # "running" => ~UsesClient]_vars

=============================================================================
