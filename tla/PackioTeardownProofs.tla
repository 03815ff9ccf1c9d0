------------------------- MODULE PackioTeardownProofs -------------------------
(***************************************************************************)
(* No handler reaches the table of a destroyed client                     *)
(* (NoHandlerAfterDestroy), for every number of calls and every id width,  *)
(* when no timeout is ever set (the default timeout_{0} of client.h, or    *)
(* set_timeout(0)) and the peer sends only the responses to the requests  *)
(* it got.                                                                 *)
(*                                                                         *)
(* DestroyWhenAnswered waits for every handler: once a call's handler has  *)
(* run, nothing of that call is left in flight (no segment, request or     *)
(* reply) and its write has completed, so no write handler, dispatch or    *)
(* timer can reach the destroyed object.  That needs the pipeline a call   *)
(* goes through (its two segments, the server's framer, the server's       *)
(* inbox, the reply on the way back) to hold one stage of each call at a   *)
(* time, and the reply to reach the call that made the request.  The       *)
(* latter fails only when a call is lost by an id collision, and a lost    *)
(* call is never answered, so the user never destroys the client in that   *)
(* run.  What is not covered is the read handler's own tail: the handler   *)
(* that dispatched the last reply still calls async_read() on the object   *)
(* (NoUseAfterDestroy, violated in run read_after_destroy).                *)
(***************************************************************************)
EXTENDS PackioRoutingProofs

\* What the theorem assumes of the configuration: timeout_ is never > 0,
\* and the server sends no message that is not a response (verify_reponse
\* would reject it, and its dispatch may run after ~client: see README).
NoTimerNoStray ==
    /\ StartTimeouts = {0}
    /\ Timeouts \subseteq {0}
    /\ BadReplies = FALSE

\* The responses on their way to the client, oldest first: those unpacked
\* by the read handler, then those still in the socket.
Flight == rbuf \o s2c

\* A segment of message m is on the wire.
SegOf(m, p) == \E k \in 1 .. Len(c2s) : c2s[k] = [msg |-> m, part |-> p]

\* The server holds a request of call c / a response to c is in flight.
Req(c) == \E q \in srvInbox : q.call = c
Rep(c) == \E k \in 1 .. Len(Flight) : Flight[k].call = c

\* Something of call c is still between the client and the server.
InPipe(c) == SegOf(c, 1) \/ SegOf(c, 2) \/ srvPartial = c \/ Req(c) \/ Rep(c)

TimersIdle == timeout = 0 /\ armed = {} /\ \A i \in Ids : fired[i] = 0

NoStray == \A k \in 1 .. Len(Flight) : Flight[k] \notin Stray

\* A closed connection stays closed and carries nothing to the server.
Closed == ~connected => c2s = <<>> /\ srvPartial = None /\ srvInbox = {}

\* Each segment is written once, by the write of its message, and the
\* message is done once both are out.
Segments ==
    /\ \A j, k \in 1 .. Len(c2s) : c2s[j] = c2s[k] => j = k
    /\ \A k \in 1 .. Len(c2s) : c2s[k].part <= wpos[c2s[k].msg]
    /\ \A m \in Msgs : wpos[m] = 2 => pc[m] = "done"
    /\ \A m \in Msgs : pc[m] \in {"idle", "issued"} => wpos[m] = 0
    /\ srvPartial # None => ~SegOf(srvPartial, 1) /\ wpos[srvPartial] >= 1

\* A call is at one stage at a time: the server's request and the reply
\* each exist once, and only after the whole message was framed.
Stages ==
    /\ \A c \in Calls :
          /\ Req(c) => /\ ~SegOf(c, 1) /\ ~SegOf(c, 2) /\ srvPartial # c
                       /\ ~Rep(c) /\ pc[c] = "done"
          /\ Rep(c) => /\ ~SegOf(c, 1) /\ ~SegOf(c, 2) /\ srvPartial # c
                       /\ pc[c] = "done"
    /\ \A q1, q2 \in srvInbox : q1.call = q2.call => q1 = q2
    /\ \A j, k \in 1 .. Len(Flight) : Flight[j].call = Flight[k].call => j = k

\* A call whose handler has run has finished its write and left nothing
\* in flight.
AnsweredQuiet ==
    \A c \in Calls : results[c] # <<>> => pc[c] = "done" /\ ~InPipe(c)

\* After ~client with the io_context running, no write of a call is in
\* progress and the read handler holds no response.
Destroyed ==
    life = "destroyed" =>
        /\ rbuf = <<>>
        /\ \A c \in Calls : pc[c] \in {"idle", "done"}

TInvCore ==
    /\ TimersIdle /\ NoStray /\ Closed /\ Segments /\ Stages
    /\ (NoLostCall => AnsweredQuiet)

TInv == TInvCore /\ Destroyed

-----------------------------------------------------------------------------
(* The initial state.                                                      *)

LEMMA InitTInv ==
    ASSUME NoTimerNoStray, Init PROVE TInv
<1>1. Flight = <<>>
  BY DEF Init, Flight
<1>2. TimersIdle /\ NoStray /\ Closed
  BY <1>1 DEF NoTimerNoStray, Init, TimersIdle, NoStray, Closed
<1>3. Segments
  BY MsgsAssumption DEF Init, Segments, SegOf
<1>4. Stages /\ AnsweredQuiet /\ Destroyed
  BY <1>1 DEF Init, Stages, Req, Rep, AnsweredQuiet, Destroyed
<1>5. QED
  BY <1>2, <1>3, <1>4 DEF TInv, TInvCore

-----------------------------------------------------------------------------
(* A lost call stays lost.                                                 *)

\* Issued, never answered, and owned by no entry of pending_.
Lost(c) == Issued(c) /\ results[c] = <<>> /\ ~Owned(c)

\* maybe_call_handler answers the owner of the entry it finds, if any.
LEMMA HandlerSparesLost ==
    ASSUME IInv, NEW c \in Calls, results[c] = <<>>, ~Owned(c),
           NEW i, NEW out, MaybeCallHandler(i, out)
    PROVE  results'[c] = <<>> /\ ~Owned(c)'
<1>1. CASE i \in DOMAIN pending
  <2>1. pending[i] # c
    BY <1>1 DEF Owned
  <2>2. /\ pending' = Erase(pending, i)
        /\ results' = [results EXCEPT ![pending[i]] = Append(@, out)]
    BY <1>1 DEF MaybeCallHandler
  <2>3. results \in [Calls -> Seq(Outcome)]
    BY DEF IInv, TypeOK
  <2>4. results'[c] = <<>>
    BY <2>1, <2>2, <2>3
  <2>5. ~Owned(c)'
    BY <2>2 DEF Owned, Erase
  <2>6. QED
    BY <2>4, <2>5
<1>2. CASE i \notin DOMAIN pending
  BY <1>2 DEF MaybeCallHandler, Owned
<1>3. QED
  BY <1>1, <1>2

\* No step gives a lost call an entry or an outcome: the only new entry is
\* the one async_call makes for an idle call, and maybe_call_handler only
\* answers the owner of the entry it erases.
LEMMA LostStays ==
    ASSUME IInv, [Next]_vars, NEW c \in Calls, Lost(c) PROVE Lost(c)'
<1>1. /\ Issued(c) /\ results[c] = <<>> /\ ~Owned(c)
      /\ pc \in [Msgs -> {"idle", "issued", "writing", "done"}]
      /\ Calls \subseteq Msgs
  BY DEF Lost, IInv, TypeOK, Msgs
<1>2. CASE \E d \in Calls : Call(d)
  <2>1. PICK d \in Calls : Call(d)
    BY <1>2
  <2>2. d # c
    BY <1>1, <2>1 DEF Call, Issued
  <2>3. Issued(c)'
    BY <1>1, <2>1, <2>2 DEF Call, Issued
  <2>4. ~Owned(c)'
    BY <1>1, <2>1, <2>2 DEF Call, Owned, Insert
  <2>5. QED
    BY <1>1, <2>1, <2>3, <2>4 DEF Call, Lost
<1>3. CASE \/ \E n \in Notes : Notify(n)
           \/ \E t \in Timeouts : SetTimeout(t)
           \/ \E d \in Calls : StartWrite(d)
           \/ \E m \in Msgs : WriteSome(m)
           \/ \E i \in Ids : TimerExpire(i)
           \/ ReadSome \/ ReadFail \/ ReadRearm
           \/ SrvRecv \/ SrvReply \/ SrvSendBad \/ Disconnect
  <2>1. pending' = pending /\ results' = results
    BY <1>3 DEF Notify, SetTimeout, StartWrite, WriteSome, TimerExpire,
                ReadSome, ReadFail, ReadRearm, SrvRecv, SrvReply, SrvSendBad, Disconnect
  <2>2. pc'[c] = "idle" <=> pc[c] = "idle"
    BY <1>3, IdleKept
  <2>3. QED
    BY <1>1, <2>1, <2>2 DEF Lost, Issued, Owned
<1>4. CASE FixtureTeardown \/ DestroyWhenAnswered
  <2>1. pending' = [i \in {} |-> None] /\ results' = results /\ pc' = pc
    BY <1>4 DEF FixtureTeardown, DestroyWhenAnswered, DestroyClient
  <2>2. QED
    BY <1>1, <2>1 DEF Lost, Issued, Owned
<1>5. CASE \/ \E m \in Msgs : WriteFail(m)
           \/ \E i \in Ids : TimeoutHandler(i)
           \/ Dispatch
  <2>1. pc'[c] = "idle" <=> pc[c] = "idle"
    BY <1>5, IdleKept
  <2>2. \/ pending' = pending /\ results' = results
        \/ \E i, out : MaybeCallHandler(i, out)
    BY <1>5 DEF WriteFail, TimeoutHandler, Dispatch
  <2>3. results'[c] = <<>> /\ ~Owned(c)'
    BY <1>1, <2>2, HandlerSparesLost DEF Owned
  <2>4. QED
    BY <1>1, <2>1, <2>3 DEF Lost, Issued
<1>6. CASE UNCHANGED vars
  BY <1>1, <1>6 DEF vars, Lost, Issued, Owned
<1>7. QED
  BY <1>2, <1>3, <1>4, <1>5, <1>6 DEF Next, UserStep, ClientStep

\* Hence a state with no lost call follows only a state with none.
LEMMA KeptBefore ==
    ASSUME IInv, [Next]_vars, NoLostCall' PROVE NoLostCall
<1> SUFFICES ASSUME NEW c \in Calls, Issued(c), results[c] = <<>>, ~Owned(c)
             PROVE  FALSE
  BY DEF NoLostCall
<1>1. Lost(c)'
  BY LostStays DEF Lost
<1>2. QED
  BY <1>1 DEF Lost, NoLostCall

-----------------------------------------------------------------------------
(* Steps that leave the pipeline alone.                                    *)

\* The part of the state the teardown argument reads, other than pc.
PipeKept ==
    /\ c2s' = c2s /\ srvPartial' = srvPartial /\ srvInbox' = srvInbox
    /\ Flight' = Flight /\ connected' = connected /\ wpos' = wpos
    /\ results' = results /\ life' = life
    /\ armed' = armed /\ fired' = fired /\ timeout' = 0
    /\ life = "destroyed" => rbuf' = rbuf

\* A message only moves forward from idle or issued, and only while the
\* client runs when it leaves idle.
PcAdvance ==
    \A m \in Msgs :
        \/ pc'[m] = pc[m]
        \/ life = "running" /\ pc[m] = "idle" /\ pc'[m] \in {"issued", "writing"}
        \/ pc[m] = "issued" /\ pc'[m] = "writing"

LEMMA FrameStep ==
    ASSUME IInv, TInv, [Next]_vars, PipeKept, PcAdvance PROVE TInv'
<1>1. /\ pc \in [Msgs -> {"idle", "issued", "writing", "done"}]
      /\ wpos \in [Msgs -> 0 .. 2]
      /\ c2s \in Seq(Segment)
      /\ Calls \subseteq Msgs
  BY DEF IInv, TypeOK, Msgs
<1>2. \A m \in Msgs : pc[m] = "done" => pc'[m] = "done"
  BY DEF PcAdvance
<1>3. TimersIdle' /\ NoStray' /\ Closed'
  BY DEF TInv, TInvCore, PipeKept, TimersIdle, NoStray, Closed
<1>4. Segments'
  <2>1. \A m \in Msgs : pc'[m] \in {"idle", "issued"} => pc[m] \in {"idle", "issued"}
    BY DEF PcAdvance
  <2>2. QED
    BY <1>2, <2>1 DEF TInv, TInvCore, PipeKept, Segments, SegOf
<1>5. Stages'
  <2>1. \A c \in Calls : (Req(c)' <=> Req(c)) /\ (Rep(c)' <=> Rep(c))
                         /\ \A p \in {1, 2} : SegOf(c, p)' <=> SegOf(c, p)
    BY DEF PipeKept, Req, Rep, SegOf
  <2>2. QED
    BY <1>1, <1>2, <2>1 DEF TInv, TInvCore, PipeKept, Stages
<1>6. NoLostCall' => AnsweredQuiet'
  <2>1. SUFFICES ASSUME NoLostCall' PROVE AnsweredQuiet'
    OBVIOUS
  <2>2. AnsweredQuiet
    BY <2>1, KeptBefore DEF TInv, TInvCore
  <2>3. \A c \in Calls : InPipe(c)' <=> InPipe(c)
    BY DEF PipeKept, InPipe, Req, Rep, SegOf
  <2>4. QED
    BY <1>1, <1>2, <2>2, <2>3 DEF PipeKept, AnsweredQuiet
<1>7. Destroyed'
  <2>1. SUFFICES ASSUME life' = "destroyed" PROVE Destroyed'
    BY DEF Destroyed
  <2>2. life = "destroyed" /\ rbuf = <<>> /\ \A c \in Calls : pc[c] \in {"idle", "done"}
    BY <2>1 DEF PipeKept, TInv, TInvCore, Destroyed
  <2>3. \A c \in Calls : pc'[c] = pc[c]
    BY <1>1, <2>2 DEF PcAdvance
  <2>4. QED
    BY <2>1, <2>2, <2>3 DEF PipeKept, Destroyed
<1>8. QED
  BY <1>3, <1>4, <1>5, <1>6, <1>7 DEF TInv, TInvCore

\* read_some moves a prefix of the socket's bytes into the read handler's
\* buffer, which is empty: the responses in flight are the same.
LEMMA ReadSomeKeepsFlight ==
    ASSUME IInv, ReadSome PROVE Flight' = Flight
<1>1. PICK k \in 1 .. Len(s2c) :
        /\ rbuf = <<>>
        /\ rbuf' = SubSeq(s2c, 1, k)
        /\ s2c' = SubSeq(s2c, k + 1, Len(s2c))
  BY DEF ReadSome
<1>2. s2c \in Seq(Response \cup Stray)
  BY DEF IInv, TypeOK
<1>3. SubSeq(s2c, 1, k) \o SubSeq(s2c, k + 1, Len(s2c)) = s2c
  BY <1>2
<1>4. QED
  BY <1>1, <1>2, <1>3 DEF Flight

\* With timeout_ never > 0 no timer is armed, and the peer sends no
\* stray message.
LEMMA DisabledSteps ==
    ASSUME NoTimerNoStray, TInv,
           \/ \E i \in Ids : TimerExpire(i) \/ TimeoutHandler(i)
           \/ SrvSendBad
    PROVE  FALSE
BY DEF NoTimerNoStray, TInv, TInvCore, TimersIdle, TimerExpire, TimeoutHandler, SrvSendBad

\* The steps that only move a message out of idle or issued, set timeout_
\* to zero, or end the read chain.
LEMMA QuietSteps ==
    ASSUME NoTimerNoStray, IInv, TInv, [Next]_vars,
           \/ \E c \in Calls : Call(c)
           \/ \E n \in Notes : Notify(n)
           \/ \E t \in Timeouts : SetTimeout(t)
           \/ \E c \in Calls : StartWrite(c)
           \/ ReadSome \/ ReadFail \/ ReadRearm
    PROVE  TInv'
<1>1. pc \in [Msgs -> {"idle", "issued", "writing", "done"}] /\ Calls \subseteq Msgs
  BY DEF IInv, TypeOK, Msgs
<1>2. timeout = 0
  BY DEF TInv, TInvCore, TimersIdle
<1>3. CASE \E c \in Calls : Call(c)
  <2>1. PICK c \in Calls : Call(c)
    BY <1>3
  <2>2. PipeKept
    BY <1>2, <2>1 DEF Call, ArmIfTimeout, PipeKept, Flight
  <2>3. PcAdvance
    BY <1>1, <2>1 DEF Call, PcAdvance
  <2>4. QED
    BY <2>2, <2>3, FrameStep
<1>4. CASE \E n \in Notes : Notify(n)
  <2>1. PICK n \in Notes : Notify(n)
    BY <1>4
  <2>2. PipeKept
    BY <1>2, <2>1 DEF Notify, PipeKept, Flight
  <2>3. PcAdvance
    BY <1>1, <2>1 DEF Notify, PcAdvance, Msgs
  <2>4. QED
    BY <2>2, <2>3, FrameStep
<1>5. CASE \E t \in Timeouts : SetTimeout(t)
  <2>1. PICK t \in Timeouts : SetTimeout(t)
    BY <1>5
  <2>2. t = 0
    BY DEF NoTimerNoStray
  <2>3. PipeKept /\ PcAdvance
    BY <2>1, <2>2 DEF SetTimeout, PipeKept, PcAdvance, Flight
  <2>4. QED
    BY <2>3, FrameStep
<1>6. CASE \E c \in Calls : StartWrite(c)
  <2>1. PICK c \in Calls : StartWrite(c)
    BY <1>6
  <2>2. PipeKept
    BY <1>2, <2>1 DEF StartWrite, PipeKept, Flight
  <2>3. PcAdvance
    BY <1>1, <2>1 DEF StartWrite, PcAdvance
  <2>4. QED
    BY <2>2, <2>3, FrameStep
<1>7. CASE ReadSome
  <2>1. Flight' = Flight
    BY <1>7, ReadSomeKeepsFlight
  <2>2. PipeKept /\ PcAdvance
    BY <1>2, <1>7, <2>1 DEF ReadSome, PipeKept, PcAdvance
  <2>3. QED
    BY <2>2, FrameStep
<1>8. CASE ReadFail
  <2>1. PipeKept /\ PcAdvance
    BY <1>2, <1>8 DEF ReadFail, PipeKept, PcAdvance, Flight
  <2>2. QED
    BY <2>1, FrameStep
<1>9. CASE ReadRearm
  <2>1. PipeKept /\ PcAdvance
    BY <1>2, <1>9 DEF ReadRearm, PipeKept, PcAdvance, Flight
  <2>2. QED
    BY <2>1, FrameStep
<1>10. QED
  BY <1>3, <1>4, <1>5, <1>6, <1>7, <1>8, <1>9

-----------------------------------------------------------------------------
(* Steps that drop what is in flight.                                      *)

\* A contiguous part of the responses in flight is still in flight, once.
LEMMA FlightShrink ==
    ASSUME IInv, TInv, NEW a \in Nat \ {0}, NEW b \in Nat, b <= Len(Flight),
           Flight' = SubSeq(Flight, a, b)
    PROVE  /\ NoStray'
           /\ \A j, k \in 1 .. Len(Flight') :
                 Flight'[j].call = Flight'[k].call => j = k
           /\ \A c \in Calls : Rep(c)' => Rep(c)
<1>1. Flight \in Seq(Response \cup Stray)
  BY DEF IInv, TypeOK, Flight
<1>2. /\ Len(Flight') = IF b < a THEN 0 ELSE b - a + 1
      /\ \A j \in 1 .. Len(Flight') : Flight'[j] = Flight[a + j - 1]
                                     /\ a + j - 1 \in 1 .. Len(Flight)
  BY <1>1
<1>3. NoStray'
  BY <1>2 DEF TInv, TInvCore, NoStray
<1>4. \A j, k \in 1 .. Len(Flight') : Flight'[j].call = Flight'[k].call => j = k
  <2>1. SUFFICES ASSUME NEW j \in 1 .. Len(Flight'), NEW k \in 1 .. Len(Flight'),
                        Flight'[j].call = Flight'[k].call
                 PROVE  j = k
    OBVIOUS
  <2>2. /\ Flight[a + j - 1].call = Flight[a + k - 1].call
        /\ a + j - 1 \in 1 .. Len(Flight) /\ a + k - 1 \in 1 .. Len(Flight)
    BY <1>2, <2>1
  <2>3. a + j - 1 = a + k - 1
    BY <2>2 DEF TInv, TInvCore, Stages
  <2>4. QED
    BY <2>3
<1>5. \A c \in Calls : Rep(c)' => Rep(c)
  BY <1>2 DEF Rep
<1>6. QED
  BY <1>3, <1>4, <1>5

\* The session closes and perhaps the socket's unread bytes go with it.
LEMMA CloseStep ==
    ASSUME IInv, TInv, [Next]_vars, CloseSession,
           wpos' = wpos, results' = results, pc' = pc,
           fired' = fired, timeout' = timeout, armed' \subseteq armed,
           NEW b \in Nat, b <= Len(Flight), Flight' = SubSeq(Flight, 1, b)
    PROVE  TInvCore'
<1>1. /\ NoStray'
      /\ \A j, k \in 1 .. Len(Flight') : Flight'[j].call = Flight'[k].call => j = k
      /\ \A c \in Calls : Rep(c)' => Rep(c)
  BY FlightShrink
<1>2. /\ c2s' = <<>> /\ srvPartial' = None /\ srvInbox' = {} /\ ~connected'
      /\ \A c \in Calls : srvPartial' # c
      /\ \A c \in Calls : ~Req(c)' /\ ~SegOf(c, 1)' /\ ~SegOf(c, 2)'
  BY MsgsAssumption DEF CloseSession, Req, SegOf
<1>3. TimersIdle' /\ Closed'
  BY <1>2 DEF TInv, TInvCore, TimersIdle, Closed
<1>4. Segments'
  BY <1>2 DEF TInv, TInvCore, Segments
<1>5. Stages'
  <2>1. \A c \in Calls : Rep(c)' => pc'[c] = "done"
    BY <1>1 DEF TInv, TInvCore, Stages
  <2>2. QED
    BY <1>1, <1>2, <2>1 DEF Stages
<1>6. NoLostCall' => AnsweredQuiet'
  <2>1. SUFFICES ASSUME NoLostCall' PROVE AnsweredQuiet'
    OBVIOUS
  <2>2. AnsweredQuiet
    BY <2>1, KeptBefore DEF TInv, TInvCore
  <2>3. \A c \in Calls : InPipe(c)' => InPipe(c)
    BY <1>1, <1>2 DEF InPipe
  <2>4. QED
    BY <2>2, <2>3 DEF AnsweredQuiet
<1>7. QED
  BY <1>1, <1>3, <1>4, <1>5, <1>6 DEF TInvCore

\* The peer's session ends: the connection breaks.
LEMMA DisconnectStep ==
    ASSUME IInv, TInv, [Next]_vars, Disconnect PROVE TInv'
<1>1. Flight \in Seq(Response \cup Stray)
  BY DEF IInv, TypeOK, Flight
<1>2. Flight' = SubSeq(Flight, 1, Len(Flight))
  BY <1>1 DEF Disconnect, Flight
<1>3. TInvCore'
  BY <1>1, <1>2, CloseStep DEF Disconnect
<1>4. Destroyed'
  BY DEF Disconnect, TInv, Destroyed
<1>5. QED
  BY <1>3, <1>4 DEF TInv

\* ~client after io_.stop(): no handler runs any more.
LEMMA FixtureTeardownStep ==
    ASSUME IInv, TInv, [Next]_vars, FixtureTeardown PROVE TInv'
<1>1. rbuf \in Seq(Response \cup Stray) /\ s2c \in Seq(Response \cup Stray)
  BY DEF IInv, TypeOK
<1>2. Flight' = SubSeq(Flight, 1, Len(rbuf)) /\ Len(rbuf) <= Len(Flight)
  BY <1>1 DEF FixtureTeardown, DestroyClient, CloseConnection, Flight
<1>3. TInvCore'
  BY <1>1, <1>2, CloseStep DEF FixtureTeardown, DestroyClient, CloseConnection
<1>4. Destroyed'
  BY DEF FixtureTeardown, Destroyed
<1>5. QED
  BY <1>3, <1>4 DEF TInv

\* ~client while the io_context runs, once every handler the user waits
\* for has run: every call's write is over and no response is left for
\* the read handler to dispatch.
LEMMA DestroyWhenAnsweredStep ==
    ASSUME IInv, HInv, TInv, [Next]_vars, DestroyWhenAnswered PROVE TInv'
<1>1. rbuf \in Seq(Response \cup Stray) /\ s2c \in Seq(Response \cup Stray)
  BY DEF IInv, TypeOK
<1>2. Flight' = SubSeq(Flight, 1, Len(rbuf)) /\ Len(rbuf) <= Len(Flight)
  BY <1>1 DEF DestroyWhenAnswered, DestroyClient, CloseConnection, Flight
<1>3. TInvCore'
  BY <1>1, <1>2, CloseStep DEF DestroyWhenAnswered, DestroyClient, CloseConnection
<1>4. \A c \in Calls : Issued(c) => results[c] # <<>>
  BY DEF DestroyWhenAnswered, Issued
<1>5. AnsweredQuiet
  <2>1. NoLostCall
    BY <1>4 DEF NoLostCall
  <2>2. QED
    BY <2>1 DEF TInv, TInvCore
<1>6. \A c \in Calls : pc[c] \in {"idle", "done"}
  BY <1>4, <1>5 DEF AnsweredQuiet, Issued, IInv, TypeOK
<1>7. rbuf = <<>>
  <2>1. SUFFICES ASSUME rbuf # <<>> PROVE FALSE
    OBVIOUS
  <2>2. PICK r : r = rbuf[1]
    OBVIOUS
  <2>3. Len(rbuf) >= 1
    BY <1>1, <2>1
  <2>8. r \in Carried
    BY <1>1, <2>2, <2>3 DEF Carried
  <2>9. r = Flight[1] /\ 1 \in 1 .. Len(Flight)
    BY <1>1, <2>2, <2>3 DEF Flight
  <2>4. r \notin Stray
    BY <2>9 DEF TInv, TInvCore, NoStray
  <2>5. r.call \in Calls /\ Issued(r.call)
    <3>1. r \in Response
      BY <1>1, <2>2, <2>3, <2>4
    <3>2. QED
      BY <2>4, <2>8, <3>1 DEF HInv, RepliesCarryId, CarriesId, Response
  <2>6. Rep(r.call)
    BY <2>9 DEF Rep
  <2>7. QED
    BY <1>4, <1>5, <2>5, <2>6 DEF AnsweredQuiet, InPipe
<1>8. Destroyed'
  BY <1>6, <1>7 DEF DestroyWhenAnswered, DestroyClient, Destroyed
<1>9. QED
  BY <1>3, <1>8 DEF TInv

-----------------------------------------------------------------------------
(* The writes.                                                             *)

\* One write_some puts the next segment of m on the wire.
LEMMA WriteSomeStep ==
    ASSUME IInv, TInv, [Next]_vars, NEW m \in Msgs, WriteSome(m) PROVE TInv'
<1> DEFINE seg == [msg |-> m, part |-> wpos[m] + 1]
<1>1. /\ pc \in [Msgs -> {"idle", "issued", "writing", "done"}]
      /\ wpos \in [Msgs -> 0 .. 2]
      /\ c2s \in Seq(Segment)
      /\ Calls \subseteq Msgs
  BY DEF IInv, TypeOK, Msgs
<1>2. /\ life = "running" /\ pc[m] = "writing" /\ connected /\ wpos[m] < 2
      /\ c2s' = Append(c2s, seg)
      /\ wpos' = [wpos EXCEPT ![m] = @ + 1]
      /\ pc' = IF wpos[m] = 1 THEN [pc EXCEPT ![m] = "done"] ELSE pc
      /\ rbuf' = rbuf /\ s2c' = s2c /\ srvInbox' = srvInbox
      /\ srvPartial' = srvPartial /\ connected' = connected
      /\ results' = results /\ life' = life
      /\ armed' = armed /\ fired' = fired /\ timeout' = timeout
  BY DEF WriteSome
<1>3. \A x \in Msgs \ {m} : pc'[x] = pc[x] /\ wpos'[x] = wpos[x]
  BY <1>1, <1>2
<1>4. pc'[m] \in {"writing", "done"} /\ (wpos'[m] = 2 => pc'[m] = "done")
      /\ wpos'[m] = wpos[m] + 1
  BY <1>1, <1>2
<1>5. \A k \in 1 .. Len(c2s) : c2s[k].msg = m => c2s[k].part < seg.part
  <2>1. SUFFICES ASSUME NEW k \in 1 .. Len(c2s), c2s[k].msg = m
                 PROVE  c2s[k].part < wpos[m] + 1
    OBVIOUS
  <2>2. c2s[k].part <= wpos[c2s[k].msg]
    BY DEF TInv, TInvCore, Segments
  <2>3. wpos[m] \in 0 .. 2 /\ c2s[k] \in Segment
    BY <1>1
  <2>5. c2s[k].part \in {1, 2}
    BY <2>3 DEF Segment
  <2>4. QED
    BY <2>1, <2>2, <2>3, <2>5
<1>6. \A x \in Msgs, p \in {1, 2} :
         SegOf(x, p)' <=> SegOf(x, p) \/ (x = m /\ p = wpos[m] + 1)
  BY <1>1, <1>2 DEF SegOf
<1>7. Flight' = Flight /\ \A c \in Calls : Req(c)' = Req(c) /\ Rep(c)' = Rep(c)
  BY <1>2 DEF Flight, Req, Rep
<1>8. TimersIdle' /\ NoStray' /\ Closed'
  BY <1>2, <1>7 DEF TInv, TInvCore, TimersIdle, NoStray, Closed
<1>9. Segments'
  <2>1. \A j, k \in 1 .. Len(c2s') : c2s'[j] = c2s'[k] => j = k
    BY <1>1, <1>2, <1>5 DEF TInv, TInvCore, Segments
  <2>2. \A k \in 1 .. Len(c2s') : c2s'[k].part <= wpos'[c2s'[k].msg]
    <3>1. SUFFICES ASSUME NEW k \in 1 .. Len(c2s')
                   PROVE  c2s'[k].part <= wpos'[c2s'[k].msg]
      OBVIOUS
    <3>2. \A x \in Msgs : wpos'[x] \in Nat /\ wpos[x] \in Nat /\ wpos'[x] >= wpos[x]
      BY <1>1, <1>3, <1>4
    <3>3. CASE k <= Len(c2s)
      <4>1. c2s'[k] = c2s[k] /\ c2s[k] \in Segment
        BY <1>1, <1>2, <3>3
      <4>2. c2s[k].part <= wpos[c2s[k].msg]
        BY <3>3 DEF TInv, TInvCore, Segments
      <4>3. QED
        BY <3>2, <4>1, <4>2 DEF Segment
    <3>4. CASE k = Len(c2s) + 1
      BY <1>1, <1>2, <1>4, <3>4
    <3>5. QED
      BY <1>1, <1>2, <3>3, <3>4
  <2>3. \A x \in Msgs : wpos'[x] = 2 => pc'[x] = "done"
    BY <1>3, <1>4 DEF TInv, TInvCore, Segments
  <2>4. \A x \in Msgs : pc'[x] \in {"idle", "issued"} => wpos'[x] = 0
    BY <1>3, <1>4 DEF TInv, TInvCore, Segments
  <2>5. (srvPartial # None => ~SegOf(srvPartial, 1) /\ wpos[srvPartial] >= 1)'
    <3>1. SUFFICES ASSUME srvPartial # None
                   PROVE  ~SegOf(srvPartial, 1)' /\ wpos'[srvPartial] >= 1
      BY <1>2
    <3>2. srvPartial \in Msgs /\ ~SegOf(srvPartial, 1) /\ wpos[srvPartial] >= 1
      BY <3>1 DEF IInv, TypeOK, TInv, TInvCore, Segments
    <3>3. wpos[srvPartial] + 1 # 1 /\ wpos'[srvPartial] >= 1
      BY <1>1, <1>3, <1>4, <3>2
    <3>4. ~SegOf(srvPartial, 1)'
      BY <1>2, <1>6, <3>2, <3>3
    <3>5. QED
      BY <3>3, <3>4
  <2>6. QED
    BY <2>1, <2>2, <2>3, <2>4, <2>5 DEF Segments
<1>10. Stages'
  <2>1. m \in Calls => ~Req(m) /\ ~Rep(m)
    BY <1>2 DEF TInv, TInvCore, Stages
  <2>2. QED
    BY <1>1, <1>2, <1>3, <1>6, <1>7, <2>1 DEF TInv, TInvCore, Stages
<1>11. NoLostCall' => AnsweredQuiet'
  <2>1. SUFFICES ASSUME NoLostCall' PROVE AnsweredQuiet'
    OBVIOUS
  <2>2. AnsweredQuiet
    BY <2>1, KeptBefore DEF TInv, TInvCore
  <2>3. m \in Calls => results[m] = <<>>
    BY <1>2, <2>2 DEF AnsweredQuiet
  <2>4. ASSUME NEW c \in Calls \ {m} PROVE InPipe(c)' <=> InPipe(c)
    <3>1. c \in Msgs /\ c # m
      BY <1>1
    <3>2. SegOf(c, 1)' = SegOf(c, 1) /\ SegOf(c, 2)' = SegOf(c, 2)
      BY <1>1, <1>2, <3>1 DEF SegOf
    <3>3. QED
      BY <1>2, <1>7, <3>2 DEF InPipe
  <2>5. QED
    BY <1>2, <1>3, <2>2, <2>3, <2>4 DEF AnsweredQuiet
<1>12. Destroyed'
  BY <1>2 DEF Destroyed
<1>13. QED
  BY <1>8, <1>9, <1>10, <1>11, <1>12 DEF TInv, TInvCore

\* maybe_call_handler with the id of a call whose entry is still in
\* pending_ answers that call, and only that call.
LEMMA OwnerAnswered ==
    ASSUME IInv, HInv, NEW d \in Calls, Owned(d),
           NEW out, MaybeCallHandler(callId[d], out)
    PROVE  /\ results' = [results EXCEPT ![d] = Append(@, out)]
           /\ results \in [Calls -> Seq(Outcome)]
<1>1. PICK i \in DOMAIN pending : pending[i] = d
  BY DEF Owned
<1>2. callId[d] = i
  BY <1>1 DEF HInv, EntryAtId
<1>3. results' = [results EXCEPT ![pending[i]] = Append(@, out)]
  BY <1>1, <1>2 DEF MaybeCallHandler
<1>4. results \in [Calls -> Seq(Outcome)]
  BY DEF IInv, TypeOK
<1>5. QED
  BY <1>1, <1>3, <1>4

\* A write that fails on a closed connection: the call's handler gets the
\* write error through maybe_call_handler; a notification only records it.
LEMMA WriteFailKeeps ==
    ASSUME IInv, HInv, TInv, [Next]_vars, NEW m \in Msgs, WriteFail(m)
    PROVE  TInv'
<1>1. /\ pc \in [Msgs -> {"idle", "issued", "writing", "done"}]
      /\ Calls \subseteq Msgs
      /\ results \in [Calls -> Seq(Outcome)]
  BY DEF IInv, TypeOK, Msgs
<1>2. /\ pc[m] = "writing" /\ ~connected
      /\ pc' = [pc EXCEPT ![m] = "done"]
      /\ wpos' = wpos /\ fired' = fired /\ rbuf' = rbuf /\ c2s' = c2s
      /\ s2c' = s2c /\ connected' = connected /\ srvPartial' = srvPartial
      /\ srvInbox' = srvInbox /\ timeout' = timeout /\ life' = life
  BY DEF WriteFail
<1>3. c2s = <<>> /\ srvPartial = None /\ srvInbox = {}
  BY <1>2 DEF TInv, TInvCore, Closed
<1>4. armed' \subseteq armed
  BY <1>2 DEF WriteFail, MaybeCallHandler
<1>5. m \in Calls => ~Rep(m)
  BY <1>2 DEF TInv, TInvCore, Stages
<1>6. \A c \in Calls : ~InPipe(c)' <=> ~Rep(c)
  BY <1>2, <1>3, MsgsAssumption DEF InPipe, SegOf, Req, Rep, Flight
<1>7. TimersIdle' /\ NoStray' /\ Closed' /\ Segments'
  BY <1>1, <1>2, <1>3, <1>4 DEF TInv, TInvCore, TimersIdle, NoStray, Closed,
                                Segments, Flight
<1>8. Stages'
  <2>1. \A c \in Calls : Rep(c)' = Rep(c) /\ ~Req(c)'
    BY <1>2, <1>3 DEF Rep, Req, Flight
  <2>2. \A c \in Calls : Rep(c) => pc'[c] = "done"
    BY <1>1, <1>2 DEF TInv, TInvCore, Stages
  <2>3. QED
    BY <1>2, <1>3, <2>1, <2>2 DEF TInv, TInvCore, Stages, Flight, SegOf
<1>9. NoLostCall' => AnsweredQuiet'
  <2>1. SUFFICES ASSUME NoLostCall' PROVE AnsweredQuiet'
    OBVIOUS
  <2>2. AnsweredQuiet /\ NoLostCall
    BY <2>1, KeptBefore DEF TInv, TInvCore
  <2>3. \A c \in Calls \ {m} : results'[c] = results[c]
    <3>1. CASE m \in Calls
      <4>1. Issued(m) /\ results[m] = <<>>
        BY <1>2, <2>2, <3>1 DEF AnsweredQuiet, Issued
      <4>2. Owned(m)
        BY <2>2, <3>1, <4>1 DEF NoLostCall
      <4>3. MaybeCallHandler(callId[m], [ec |-> "write_error", from |-> None])
        BY <3>1 DEF WriteFail
      <4>4. results' = [results EXCEPT ![m] = Append(@, [ec |-> "write_error", from |-> None])]
        BY <3>1, <4>2, <4>3, OwnerAnswered
      <4>5. QED
        BY <1>1, <4>4
    <3>2. CASE m \notin Calls
      BY <3>2 DEF WriteFail
    <3>3. QED
      BY <3>1, <3>2
  <2>4. ASSUME NEW c \in Calls, results'[c] # <<>>
        PROVE  pc'[c] = "done" /\ ~InPipe(c)'
    <3>1. CASE c = m
      BY <1>1, <1>5, <1>6, <1>2, <3>1
    <3>2. CASE c # m
      <4>1. results[c] # <<>> /\ pc'[c] = pc[c]
        BY <1>1, <1>2, <2>3, <2>4, <3>2
      <4>2. pc[c] = "done" /\ ~InPipe(c)
        BY <2>2, <4>1 DEF AnsweredQuiet
      <4>3. QED
        BY <1>6, <4>1, <4>2 DEF InPipe
    <3>3. QED
      BY <3>1, <3>2
  <2>5. QED
    BY <2>4 DEF AnsweredQuiet
<1>10. Destroyed'
  <2>1. life = "destroyed" => m \notin Calls
    BY <1>2 DEF TInv, Destroyed
  <2>2. QED
    BY <1>1, <1>2, <2>1 DEF TInv, Destroyed
<1>11. QED
  BY <1>7, <1>8, <1>9, <1>10 DEF TInv, TInvCore

-----------------------------------------------------------------------------
(* The server's session.                                                   *)

\* The framer takes the first segment off the wire: what is left is still
\* unique and within the writes, and the segment taken is gone from it.
LEMMA C2sTail ==
    ASSUME IInv, TInv, c2s # <<>>, c2s' = Tail(c2s), wpos' = wpos,
           NEW h, h = Head(c2s)
    PROVE  /\ h \in Segment
           /\ SegOf(h.msg, h.part)
           /\ h.part <= wpos[h.msg]
           /\ \A j, k \in 1 .. Len(c2s') : c2s'[j] = c2s'[k] => j = k
           /\ \A k \in 1 .. Len(c2s') : c2s'[k].part <= wpos'[c2s'[k].msg]
           /\ \A x, p : SegOf(x, p)' => SegOf(x, p)
           /\ ~SegOf(h.msg, h.part)'
<1>1. c2s \in Seq(Segment) /\ Len(c2s) >= 1
  BY DEF IInv, TypeOK
<1>2. /\ Len(c2s') = Len(c2s) - 1
      /\ \A k \in 1 .. Len(c2s') : c2s'[k] = c2s[k + 1] /\ k + 1 \in 1 .. Len(c2s)
  BY <1>1
<1>3. h \in Segment /\ h = c2s[1]
  BY <1>1
<1>4. h = [msg |-> h.msg, part |-> h.part]
  BY <1>3 DEF Segment
<1>5. SegOf(h.msg, h.part)
  BY <1>1, <1>3, <1>4 DEF SegOf
<1>6. h.part <= wpos[h.msg]
  BY <1>1, <1>3 DEF TInv, TInvCore, Segments
<1>7. \A j, k \in 1 .. Len(c2s') : c2s'[j] = c2s'[k] => j = k
  BY <1>2 DEF TInv, TInvCore, Segments
<1>8. \A k \in 1 .. Len(c2s') : c2s'[k].part <= wpos'[c2s'[k].msg]
  BY <1>2 DEF TInv, TInvCore, Segments
<1>9. \A x, p : SegOf(x, p)' => SegOf(x, p)
  BY <1>2 DEF SegOf
<1>10. ~SegOf(h.msg, h.part)'
  <2>1. SUFFICES ASSUME NEW k \in 1 .. Len(c2s'), c2s'[k] = h PROVE FALSE
    BY <1>4 DEF SegOf
  <2>2. c2s[k + 1] = c2s[1] /\ k + 1 \in 1 .. Len(c2s) /\ 1 \in 1 .. Len(c2s)
    BY <1>1, <1>2, <1>3, <2>1
  <2>3. k + 1 = 1
    BY <2>2 DEF TInv, TInvCore, Segments
  <2>4. QED
    BY <2>3
<1>11. QED
  BY <1>3, <1>5, <1>6, <1>7, <1>8, <1>9, <1>10

\* The frame of a step of the framer that keeps the session.
SrvRecvFrame ==
    /\ connected /\ c2s # <<>> /\ c2s' = Tail(c2s) /\ connected' = connected
    /\ pc' = pc /\ wpos' = wpos /\ rbuf' = rbuf /\ s2c' = s2c
    /\ results' = results /\ life' = life /\ armed' = armed
    /\ fired' = fired /\ timeout' = timeout

\* The first segment of a message starts it in the framer.
LEMMA SrvRecvFirst ==
    ASSUME IInv, TInv, [Next]_vars, SrvRecvFrame,
           Head(c2s).part = 1, srvPartial = None,
           srvPartial' = Head(c2s).msg, srvInbox' = srvInbox
    PROVE  TInv'
<1> PICK h : h = Head(c2s)
  OBVIOUS
<1> PICK x : x = h.msg
  OBVIOUS
<1>1. /\ h \in Segment /\ SegOf(x, 1) /\ 1 <= wpos[x]
      /\ \A j, k \in 1 .. Len(c2s') : c2s'[j] = c2s'[k] => j = k
      /\ \A k \in 1 .. Len(c2s') : c2s'[k].part <= wpos'[c2s'[k].msg]
      /\ \A y, p : SegOf(y, p)' => SegOf(y, p)
      /\ ~SegOf(x, 1)'
  BY C2sTail DEF SrvRecvFrame
<1>2. x \in Msgs
  BY <1>1 DEF Segment
<1>3. Flight' = Flight /\ \A c \in Calls : Req(c)' = Req(c) /\ Rep(c)' = Rep(c)
  BY DEF SrvRecvFrame, Flight, Req, Rep
<1>4. TimersIdle' /\ NoStray' /\ Closed' /\ Destroyed'
  BY <1>3 DEF SrvRecvFrame, TInv, TInvCore, TimersIdle, NoStray, Closed, Destroyed
<1>5. Segments'
  BY <1>1, <1>2 DEF SrvRecvFrame, TInv, TInvCore, Segments
<1>6. \A c \in Calls : Req(c) \/ Rep(c) => c # x
  BY <1>1 DEF TInv, TInvCore, Stages
<1>7. Stages'
  BY <1>1, <1>3, <1>6 DEF SrvRecvFrame, TInv, TInvCore, Stages
<1>8. \A c \in Calls : InPipe(c)' => InPipe(c)
  BY <1>1, <1>3 DEF InPipe
<1>9. NoLostCall' => AnsweredQuiet'
  <2>1. SUFFICES ASSUME NoLostCall' PROVE AnsweredQuiet'
    OBVIOUS
  <2>2. AnsweredQuiet
    BY <2>1, KeptBefore DEF TInv, TInvCore
  <2>3. QED
    BY <1>8, <2>2 DEF SrvRecvFrame, AnsweredQuiet
<1>10. QED
  BY <1>4, <1>5, <1>7, <1>9 DEF TInv, TInvCore

\* The second segment completes the message: a call's request reaches the
\* server's dispatch, and nothing else of that call is on the way there.
LEMMA SrvRecvSecond ==
    ASSUME IInv, TInv, [Next]_vars, SrvRecvFrame,
           Head(c2s).part = 2, srvPartial = Head(c2s).msg, srvPartial' = None,
           srvInbox' = IF Head(c2s).msg \in Calls
                       THEN srvInbox \cup {[id |-> callId[Head(c2s).msg],
                                            call |-> Head(c2s).msg]}
                       ELSE srvInbox
    PROVE  TInv'
<1> PICK h : h = Head(c2s)
  OBVIOUS
<1> PICK x : x = h.msg
  OBVIOUS
<1> DEFINE q == [id |-> callId[x], call |-> x]
<1>1. /\ h \in Segment /\ SegOf(x, 2) /\ 2 <= wpos[x]
      /\ \A j, k \in 1 .. Len(c2s') : c2s'[j] = c2s'[k] => j = k
      /\ \A k \in 1 .. Len(c2s') : c2s'[k].part <= wpos'[c2s'[k].msg]
      /\ \A y, p : SegOf(y, p)' => SegOf(y, p)
      /\ ~SegOf(x, 2)'
  BY C2sTail DEF SrvRecvFrame
<1>2. x \in Msgs /\ wpos \in [Msgs -> 0 .. 2] /\ Calls \subseteq Msgs
  BY <1>1 DEF Segment, IInv, TypeOK, Msgs
<1>3. pc[x] = "done" /\ ~SegOf(x, 1)
  <2>1. wpos[x] = 2
    BY <1>1, <1>2
  <2>2. srvPartial = x /\ x # None
    BY <1>2, MsgsAssumption DEF Msgs
  <2>3. QED
    BY <2>1, <2>2, <1>2 DEF TInv, TInvCore, Segments
<1>4. x \in Calls => ~Req(x) /\ ~Rep(x)
  BY <1>1 DEF TInv, TInvCore, Stages
<1>5. /\ Flight' = Flight
      /\ \A c \in Calls : Rep(c)' = Rep(c)
      /\ \A c \in Calls \ {x} : Req(c)' = Req(c)
      /\ x \in Calls => Req(x)'
  <2>1. Flight' = Flight /\ \A c \in Calls : Rep(c)' = Rep(c)
    BY DEF SrvRecvFrame, Flight, Rep
  <2>2. srvInbox' = IF x \in Calls THEN srvInbox \cup {q} ELSE srvInbox
    OBVIOUS
  <2>3. q.call = x
    OBVIOUS
  <2>4. \A c \in Calls \ {x} : Req(c)' = Req(c)
    BY <2>2, <2>3 DEF Req
  <2>5. x \in Calls => Req(x)'
    BY <2>2, <2>3 DEF Req
  <2>6. QED
    BY <2>1, <2>4, <2>5
<1>6. None \notin Msgs
  BY MsgsAssumption DEF Msgs
<1>7. TimersIdle' /\ NoStray' /\ Closed' /\ Destroyed'
  BY <1>5 DEF SrvRecvFrame, TInv, TInvCore, TimersIdle, NoStray, Closed, Destroyed
<1>8. Segments'
  BY <1>1 DEF SrvRecvFrame, TInv, TInvCore, Segments
<1>9. Stages'
  <2>1. ASSUME NEW c \in Calls, Req(c)'
        PROVE  /\ ~SegOf(c, 1)' /\ ~SegOf(c, 2)' /\ srvPartial' # c
               /\ ~Rep(c)' /\ pc'[c] = "done"
    <3>1. CASE c = x
      BY <1>1, <1>3, <1>4, <1>5, <1>6, <1>2, <3>1 DEF SrvRecvFrame
    <3>2. CASE c # x
      <4>1. Req(c)
        BY <1>5, <2>1, <3>2
      <4>2. QED
        BY <1>1, <1>2, <1>5, <1>6, <4>1 DEF SrvRecvFrame, TInv, TInvCore, Stages
    <3>3. QED
      BY <3>1, <3>2
  <2>2. ASSUME NEW c \in Calls, Rep(c)'
        PROVE  /\ ~SegOf(c, 1)' /\ ~SegOf(c, 2)' /\ srvPartial' # c
               /\ pc'[c] = "done"
    <3>1. Rep(c)
      BY <1>5, <2>2
    <3>2. ~SegOf(c, 1) /\ ~SegOf(c, 2) /\ pc[c] = "done"
      BY <3>1 DEF TInv, TInvCore, Stages
    <3>3. ~SegOf(c, 1)' /\ ~SegOf(c, 2)'
      BY <1>1, <3>2
    <3>4. srvPartial' # c
      BY <1>2, <1>6 DEF SrvRecvFrame
    <3>5. QED
      BY <3>2, <3>3, <3>4 DEF SrvRecvFrame
  <2>3. \A q1, q2 \in srvInbox' : q1.call = q2.call => q1 = q2
    <3>1. \A q1 \in srvInbox : q1.call # x
      BY <1>4, <1>2, <1>1 DEF Req, IInv, TypeOK
    <3>2. QED
      BY <3>1 DEF TInv, TInvCore, Stages
  <2>4. QED
    BY <1>5, <2>1, <2>2, <2>3 DEF TInv, TInvCore, Stages
<1>10. NoLostCall' => AnsweredQuiet'
  <2>1. SUFFICES ASSUME NoLostCall' PROVE AnsweredQuiet'
    OBVIOUS
  <2>2. AnsweredQuiet
    BY <2>1, KeptBefore DEF TInv, TInvCore
  <2>3. x \in Calls => results[x] = <<>>
    BY <1>1, <2>2 DEF AnsweredQuiet, InPipe
  <2>4. ASSUME NEW c \in Calls \ {x}, InPipe(c)' PROVE InPipe(c)
    <3>1. srvPartial' # c
      BY <1>2, <1>6
    <3>2. SegOf(c, 1)' => SegOf(c, 1)
      BY <1>1
    <3>3. SegOf(c, 2)' => SegOf(c, 2)
      BY <1>1
    <3>4. Req(c)' = Req(c) /\ Rep(c)' = Rep(c)
      BY <1>5
    <3>5. QED
      BY <2>4, <3>1, <3>2, <3>3, <3>4 DEF InPipe
  <2>5. QED
    BY <2>2, <2>3, <2>4 DEF SrvRecvFrame, AnsweredQuiet
<1>11. QED
  BY <1>7, <1>8, <1>9, <1>10 DEF TInv, TInvCore

\* One step of the session's framer: the message goes on, is complete,
\* or is not msgpack and the session closes.
LEMMA SrvRecvKeeps ==
    ASSUME IInv, TInv, [Next]_vars, SrvRecv PROVE TInv'
<1>1. /\ connected /\ c2s # <<>>
      /\ pc' = pc /\ wpos' = wpos /\ rbuf' = rbuf /\ s2c' = s2c
      /\ results' = results /\ life' = life /\ armed' = armed
      /\ fired' = fired /\ timeout' = timeout
  BY DEF SrvRecv
<1>2. CASE /\ Head(c2s).part = 1 /\ srvPartial = None
           /\ srvPartial' = Head(c2s).msg /\ c2s' = Tail(c2s)
           /\ UNCHANGED <<connected, srvInbox>>
  BY <1>1, <1>2, SrvRecvFirst DEF SrvRecvFrame
<1>3. CASE /\ Head(c2s).part = 2 /\ srvPartial = Head(c2s).msg
           /\ srvPartial' = None /\ c2s' = Tail(c2s)
           /\ srvInbox' = IF Head(c2s).msg \in Calls
                          THEN srvInbox \cup {[id |-> callId[Head(c2s).msg],
                                               call |-> Head(c2s).msg]}
                          ELSE srvInbox
           /\ UNCHANGED connected
  BY <1>1, <1>3, SrvRecvSecond DEF SrvRecvFrame
<1>4. CASE CloseSession
  <2>1. Flight \in Seq(Response \cup Stray)
    BY DEF IInv, TypeOK, Flight
  <2>2. Flight' = SubSeq(Flight, 1, Len(Flight))
    BY <1>1, <2>1 DEF Flight
  <2>3. TInvCore'
    BY <1>1, <1>4, <2>1, <2>2, CloseStep
  <2>4. Destroyed'
    BY <1>1 DEF TInv, Destroyed
  <2>5. QED
    BY <2>3, <2>4 DEF TInv
<1>5. QED
  BY <1>2, <1>3, <1>4 DEF SrvRecv

\* A handler's reply takes its request out of the server's dispatch and
\* puts the response for the same call on the way back.
LEMMA SrvReplyKeeps ==
    ASSUME IInv, TInv, [Next]_vars, SrvReply PROVE TInv'
<1>1. PICK req \in srvInbox, err \in BOOLEAN :
         /\ s2c' = Append(s2c, [id |-> req.id, err |-> err, call |-> req.call])
         /\ srvInbox' = srvInbox \ {req}
  BY DEF SrvReply
<1> PICK c : c = req.call
  OBVIOUS
<1> PICK rep : rep = [id |-> req.id, err |-> err, call |-> c]
  OBVIOUS
<1>2. /\ pc' = pc /\ wpos' = wpos /\ rbuf' = rbuf /\ c2s' = c2s
      /\ connected' = connected /\ srvPartial' = srvPartial
      /\ results' = results /\ life' = life /\ armed' = armed
      /\ fired' = fired /\ timeout' = timeout
  BY DEF SrvReply
<1>3. /\ c \in Calls /\ req.id \in Ids
      /\ rbuf \in Seq(Response \cup Stray) /\ s2c \in Seq(Response \cup Stray)
  BY DEF IInv, TypeOK
<1>4. /\ Flight' = Append(Flight, rep)
      /\ Len(Flight') = Len(Flight) + 1
      /\ \A k \in 1 .. Len(Flight) : Flight'[k] = Flight[k]
      /\ Flight'[Len(Flight) + 1] = rep
  BY <1>1, <1>2, <1>3 DEF Flight
<1>5. Req(c) /\ ~SegOf(c, 1) /\ ~SegOf(c, 2) /\ srvPartial # c /\ ~Rep(c)
      /\ pc[c] = "done"
  BY <1>3 DEF Req, TInv, TInvCore, Stages
<1>6. \A d \in Calls : Rep(d)' <=> Rep(d) \/ d = c
  BY <1>4 DEF Rep
<1>7. \A d \in Calls : Req(d)' <=> Req(d) /\ d # c
  BY <1>1 DEF Req, TInv, TInvCore, Stages
<1>8. rep \notin Stray
  BY DEF Stray, BadReply, BadField
<1>9. TimersIdle' /\ NoStray' /\ Closed' /\ Segments' /\ Destroyed'
  <2>1. NoStray'
    <3>1. SUFFICES ASSUME NEW k \in 1 .. Len(Flight') PROVE Flight'[k] \notin Stray
      BY DEF NoStray
    <3>2. CASE k \in 1 .. Len(Flight)
      BY <1>4, <3>2 DEF TInv, TInvCore, NoStray
    <3>3. CASE k = Len(Flight) + 1
      BY <1>4, <1>8, <3>3
    <3>4. QED
      BY <1>4, <3>2, <3>3
  <2>2. Segments'
    BY <1>2 DEF TInv, TInvCore, Segments, SegOf
  <2>3. QED
    BY <1>1, <1>2, <2>1, <2>2 DEF TInv, TInvCore, TimersIdle, Closed, Destroyed
<1>10. Stages'
  <2>1. \A d \in Calls : SegOf(d, 1)' = SegOf(d, 1) /\ SegOf(d, 2)' = SegOf(d, 2)
    BY <1>2 DEF SegOf
  <2>2. \A d \in Calls : Req(d)' =>
           ~SegOf(d, 1)' /\ ~SegOf(d, 2)' /\ srvPartial' # d /\ ~Rep(d)'
           /\ pc'[d] = "done"
    BY <1>2, <1>6, <1>7, <2>1 DEF TInv, TInvCore, Stages
  <2>3. \A d \in Calls : Rep(d)' =>
           ~SegOf(d, 1)' /\ ~SegOf(d, 2)' /\ srvPartial' # d /\ pc'[d] = "done"
    BY <1>2, <1>5, <1>6, <2>1 DEF TInv, TInvCore, Stages
  <2>4. \A q1, q2 \in srvInbox' : q1.call = q2.call => q1 = q2
    BY <1>1 DEF TInv, TInvCore, Stages
  <2>5. \A j, k \in 1 .. Len(Flight') : Flight'[j].call = Flight'[k].call => j = k
    <3>1. SUFFICES ASSUME NEW j \in 1 .. Len(Flight'), NEW k \in 1 .. Len(Flight'),
                          Flight'[j].call = Flight'[k].call, j # k
                   PROVE  FALSE
      OBVIOUS
    <3>2. \A l \in 1 .. Len(Flight) : Flight[l].call # c
      BY <1>5 DEF Rep
    <3>3. CASE j \in 1 .. Len(Flight) /\ k \in 1 .. Len(Flight)
      BY <1>4, <3>1, <3>3 DEF TInv, TInvCore, Stages
    <3>4. CASE j = Len(Flight) + 1 /\ k \in 1 .. Len(Flight)
      BY <1>4, <3>1, <3>2, <3>4
    <3>5. CASE k = Len(Flight) + 1 /\ j \in 1 .. Len(Flight)
      BY <1>4, <3>1, <3>2, <3>5
    <3>6. QED
      BY <1>4, <3>1, <3>3, <3>4, <3>5
  <2>6. QED
    BY <2>2, <2>3, <2>4, <2>5 DEF Stages
<1>11. NoLostCall' => AnsweredQuiet'
  <2>1. SUFFICES ASSUME NoLostCall' PROVE AnsweredQuiet'
    OBVIOUS
  <2>2. AnsweredQuiet
    BY <2>1, KeptBefore DEF TInv, TInvCore
  <2>3. results[c] = <<>>
    BY <1>3, <1>5, <2>2 DEF AnsweredQuiet, InPipe
  <2>4. \A d \in Calls \ {c} : InPipe(d)' => InPipe(d)
    BY <1>2, <1>6, <1>7 DEF InPipe, SegOf
  <2>5. QED
    BY <1>2, <2>2, <2>3, <2>4 DEF AnsweredQuiet
<1>12. QED
  BY <1>9, <1>10, <1>11 DEF TInv, TInvCore

-----------------------------------------------------------------------------
(* The read handler.                                                       *)

\* The read handler consumes responses from the front of what is in flight
\* and touches nothing on the way to the server.
LEMMA ConsumeStep ==
    ASSUME IInv, TInv, [Next]_vars, rbuf # <<>>,
           c2s' = c2s, srvPartial' = srvPartial, srvInbox' = srvInbox,
           connected' = connected, wpos' = wpos, pc' = pc, fired' = fired,
           timeout' = timeout, life' = life, armed' \subseteq armed,
           NEW a \in Nat \ {0}, Flight' = SubSeq(Flight, a, Len(Flight))
    PROVE  /\ TimersIdle' /\ NoStray' /\ Closed' /\ Segments' /\ Stages'
           /\ Destroyed'
           /\ \A c \in Calls : InPipe(c)' => InPipe(c)
<1>1. /\ NoStray'
      /\ \A j, k \in 1 .. Len(Flight') : Flight'[j].call = Flight'[k].call => j = k
      /\ \A c \in Calls : Rep(c)' => Rep(c)
  <2>1. PICK b \in Nat : b = Len(Flight)
    BY DEF IInv, TypeOK, Flight
  <2>2. b <= Len(Flight) /\ Flight' = SubSeq(Flight, a, b)
    BY <2>1
  <2>3. QED
    BY <2>1, <2>2, FlightShrink
<1>2. \A c \in Calls : /\ SegOf(c, 1)' = SegOf(c, 1) /\ SegOf(c, 2)' = SegOf(c, 2)
                       /\ Req(c)' = Req(c)
  BY DEF SegOf, Req
<1>3. TimersIdle' /\ Closed' /\ Segments'
  BY DEF TInv, TInvCore, TimersIdle, Closed, Segments, SegOf
<1>4. Stages'
  BY <1>1, <1>2 DEF TInv, TInvCore, Stages
<1>5. Destroyed'
  <2>1. life # "destroyed"
    BY DEF TInv, Destroyed
  <2>2. QED
    BY <2>1 DEF Destroyed
<1>6. \A c \in Calls : InPipe(c)' => InPipe(c)
  BY <1>1, <1>2 DEF InPipe
<1>7. QED
  BY <1>1, <1>3, <1>4, <1>5, <1>6

\* One turn of the unpacker loop: with no stray message in flight, the
\* response at the front either ends the read with an id above INT_MAX, or
\* goes to maybe_call_handler, which answers the call it was produced for.
LEMMA DispatchKeeps ==
    ASSUME IInv, HInv, TInv, [Next]_vars, Dispatch PROVE TInv'
<1> PICK r : r = Head(rbuf)
  OBVIOUS
<1>1. /\ rbuf # <<>>
      /\ wpos' = wpos /\ pc' = pc /\ fired' = fired
      /\ timeout' = timeout /\ life' = life
  BY DEF Dispatch
<1>2. /\ rbuf \in Seq(Response \cup Stray) /\ s2c \in Seq(Response \cup Stray)
      /\ Len(rbuf) >= 1 /\ r = rbuf[1] /\ r = Flight[1] /\ 1 \in 1 .. Len(Flight)
  BY <1>1 DEF IInv, TypeOK, Flight
<1>3. r \notin Stray /\ r \in Response
  BY <1>2 DEF TInv, TInvCore, NoStray
<1>4. CASE /\ rbuf' = <<>>
           /\ UNCHANGED <<pending, armed, results, c2s, s2c, connected,
                          srvPartial, srvInbox>>
  <2>1. Flight' = SubSeq(Flight, Len(rbuf) + 1, Len(Flight)) /\ Len(rbuf) + 1 \in Nat \ {0}
    BY <1>2, <1>4 DEF Flight
  <2>2. /\ TimersIdle' /\ NoStray' /\ Closed' /\ Segments' /\ Stages' /\ Destroyed'
        /\ \A c \in Calls : InPipe(c)' => InPipe(c)
    BY <1>1, <1>4, <2>1, ConsumeStep
  <2>3. NoLostCall' => AnsweredQuiet'
    <3>1. SUFFICES ASSUME NoLostCall' PROVE AnsweredQuiet'
      OBVIOUS
    <3>2. AnsweredQuiet
      BY <3>1, KeptBefore DEF TInv, TInvCore
    <3>3. QED
      BY <1>1, <1>4, <2>2, <3>2 DEF AnsweredQuiet
  <2>4. QED
    BY <2>2, <2>3 DEF TInv, TInvCore
<1>5. CASE /\ MaybeCallHandler(r.id, ReplyOutcome(r))
           /\ rbuf' = Tail(rbuf)
           /\ UNCHANGED <<c2s, s2c, connected, srvPartial, srvInbox>>
  <2>1. Flight' = SubSeq(Flight, 2, Len(Flight))
    <3>1. Flight \in Seq(Response \cup Stray) /\ Flight' \in Seq(Response \cup Stray)
      BY <1>2, <1>5 DEF Flight
    <3>2. Len(Flight') = Len(Flight) - 1
      BY <1>2, <1>5 DEF Flight
    <3>3. \A k \in 1 .. Len(Flight') : Flight'[k] = Flight[k + 1]
      BY <1>2, <1>5 DEF Flight
    <3>4. QED
      BY <3>1, <3>2, <3>3
  <2>2. armed' \subseteq armed
    BY <1>5 DEF MaybeCallHandler
  <2>3. /\ TimersIdle' /\ NoStray' /\ Closed' /\ Segments' /\ Stages' /\ Destroyed'
        /\ \A c \in Calls : InPipe(c)' => InPipe(c)
    <3>1. 2 \in Nat \ {0}
      OBVIOUS
    <3>2. QED
      BY <1>1, <1>5, <2>1, <2>2, <3>1, ConsumeStep
  <2>4. NoLostCall' => AnsweredQuiet'
    <3>1. SUFFICES ASSUME NoLostCall' PROVE AnsweredQuiet'
      OBVIOUS
    <3>2. AnsweredQuiet /\ NoLostCall
      BY <3>1, KeptBefore DEF TInv, TInvCore
    <3> PICK d \in Calls : d = r.call
      BY <1>3 DEF Response
    <3>3. Issued(d) /\ r.id = callId[d]
      BY <1>2, <1>3 DEF HInv, RepliesCarryId, CarriesId, Carried
    <3>4. Rep(d)
      BY <1>2 DEF Rep
    <3>5. results[d] = <<>> /\ Owned(d)
      BY <3>2, <3>3, <3>4 DEF AnsweredQuiet, InPipe, NoLostCall
    <3>6. results' = [results EXCEPT ![d] = Append(@, ReplyOutcome(r))]
          /\ results \in [Calls -> Seq(Outcome)]
      BY <1>5, <3>3, <3>5, OwnerAnswered
    <3>7. ~Rep(d)'
      <4>1. SUFFICES ASSUME NEW j \in 1 .. Len(Flight'), Flight'[j].call = d
                     PROVE  FALSE
        BY DEF Rep
      <4>2. Flight'[j] = Flight[j + 1] /\ j + 1 \in 1 .. Len(Flight)
        BY <1>2, <2>1, <4>1
      <4>3. j + 1 = 1
        BY <1>2, <4>1, <4>2 DEF TInv, TInvCore, Stages
      <4>4. QED
        BY <4>3
    <3>8. pc'[d] = "done" /\ ~InPipe(d)'
      <4>1. ~SegOf(d, 1) /\ ~SegOf(d, 2) /\ srvPartial # d /\ pc[d] = "done"
            /\ ~Req(d)
        BY <3>4 DEF TInv, TInvCore, Stages
      <4>2. QED
        BY <1>1, <1>5, <3>7, <4>1 DEF InPipe, SegOf, Req
    <3>9. ASSUME NEW c \in Calls \ {d}, results'[c] # <<>>
          PROVE  pc'[c] = "done" /\ ~InPipe(c)'
      <4>1. results[c] # <<>>
        BY <3>6, <3>9
      <4>2. QED
        BY <1>1, <2>3, <3>2, <4>1 DEF AnsweredQuiet
    <3>10. QED
      BY <3>8, <3>9 DEF AnsweredQuiet
  <2>5. QED
    BY <2>3, <2>4 DEF TInv, TInvCore
<1>6. r # BadReply
  BY <1>3 DEF Stray
<1>7. QED
  BY <1>1, <1>4, <1>5, <1>6 DEF Dispatch

-----------------------------------------------------------------------------
(* The invariant and the action property.                                  *)

\* Every step keeps TInv, given the routing invariant of the state before.
LEMMA NextTInv ==
    ASSUME NoTimerNoStray, IInv, HInv, TInv, [Next]_vars PROVE TInv'
<1>1. CASE \/ \E c \in Calls : Call(c)
           \/ \E n \in Notes : Notify(n)
           \/ \E t \in Timeouts : SetTimeout(t)
           \/ \E c \in Calls : StartWrite(c)
           \/ ReadSome \/ ReadFail \/ ReadRearm
  BY <1>1, QuietSteps
<1>2. CASE \E i \in Ids : TimerExpire(i) \/ TimeoutHandler(i)
  BY <1>2, DisabledSteps
<1>3. CASE SrvSendBad
  BY <1>3, DisabledSteps
<1>4. CASE \E m \in Msgs : WriteSome(m)
  BY <1>4, WriteSomeStep
<1>5. CASE \E m \in Msgs : WriteFail(m)
  BY <1>5, WriteFailKeeps
<1>6. CASE Dispatch
  BY <1>6, DispatchKeeps
<1>7. CASE SrvRecv
  BY <1>7, SrvRecvKeeps
<1>8. CASE SrvReply
  BY <1>8, SrvReplyKeeps
<1>9. CASE Disconnect
  BY <1>9, DisconnectStep
<1>10. CASE FixtureTeardown
  BY <1>10, FixtureTeardownStep
<1>11. CASE DestroyWhenAnswered
  BY <1>11, DestroyWhenAnsweredStep
<1>12. CASE UNCHANGED vars
  <2>1. Flight' = Flight
    BY <1>12 DEF vars, Flight
  <2>2. \A c \in Calls : InPipe(c)' = InPipe(c)
    BY <1>12, <2>1 DEF vars, InPipe, SegOf, Req, Rep
  <2>3. NoLostCall' = NoLostCall
    BY <1>12 DEF vars, NoLostCall, Issued, Owned
  <2>4. \A c \in Calls : /\ SegOf(c, 1)' = SegOf(c, 1) /\ SegOf(c, 2)' = SegOf(c, 2)
                         /\ Req(c)' = Req(c) /\ Rep(c)' = Rep(c)
    BY <1>12, <2>1 DEF vars, SegOf, Req, Rep
  <2>5. TimersIdle' /\ NoStray' /\ Closed' /\ Destroyed'
    BY <1>12, <2>1 DEF vars, TInv, TInvCore, TimersIdle, NoStray, Closed, Destroyed
  <2>6. Segments'
    BY <1>12 DEF vars, TInv, TInvCore, Segments, SegOf
  <2>7. Stages'
    BY <1>12, <2>1, <2>4 DEF vars, TInv, TInvCore, Stages
  <2>8. (NoLostCall => AnsweredQuiet)'
    BY <1>12, <2>2, <2>3 DEF vars, TInv, TInvCore, AnsweredQuiet
  <2>9. QED
    BY <2>5, <2>6, <2>7, <2>8 DEF TInv, TInvCore
<1>13. QED
  BY <1>1, <1>2, <1>3, <1>4, <1>5, <1>6, <1>7, <1>8, <1>9, <1>10, <1>11, <1>12
  DEF Next, UserStep, ClientStep

\* With timeout_ never above zero and a peer that sends only responses to
\* its requests, TInv holds in every reachable state: each call's segments,
\* request and reply are in flight one stage at a time, a call whose
\* handler has run has nothing left in flight, and after ~client (run by
\* the fixture's teardown or once every handler ran) no write of a call is
\* in progress and the read handler holds no response.
THEOREM TeardownInvariant == ASSUME NoTimerNoStray PROVE Spec => []TInv
<1>1. Init => TInv
  BY InitTInv
<1>2. (IInv /\ HInv) /\ TInv /\ [Next]_vars => TInv'
  BY NextTInv
<1>3. Spec => [](IInv /\ HInv)
  BY RoutingInvariant
<1>4. QED
  BY <1>1, <1>2, <1>3, PTL DEF Spec

\* In a state TInv describes, a client that is no longer running has no
\* handler left that can reach its table: after io_.stop() none runs, and
\* after ~client no call is in its write, no timer has fired and the read
\* handler has nothing to dispatch.  (The read handler may still be in its
\* tail, between the last dispatch and async_read(): ReadRearm is not a
\* step of UsesHandler.)
LEMMA GoneUnused ==
    ASSUME TInv, IInv, life # "running" PROVE ~UsesHandler
<1>1. CASE life = "torndown"
  BY <1>1 DEF UsesHandler, WriteFail, TimeoutHandler, Dispatch, IoRuns
<1>2. CASE life = "destroyed"
  <2>1. /\ rbuf = <<>> /\ \A c \in Calls : pc[c] # "writing"
        /\ \A i \in Ids : fired[i] = 0
    BY <1>2 DEF TInv, Destroyed, TInvCore, TimersIdle
  <2>2. ~\E c \in Calls : WriteFail(c)
    BY <2>1 DEF WriteFail
  <2>3. ~\E i \in Ids : TimeoutHandler(i)
    BY <2>1 DEF TimeoutHandler
  <2>4. ~Dispatch
    BY <2>1 DEF Dispatch
  <2>5. QED
    BY <2>2, <2>3, <2>4 DEF UsesHandler
<1>3. QED
  BY <1>1, <1>2 DEF IInv, TypeOK

\* NoHandlerAfterDestroy for every number of calls and notifications and
\* every id width: no write handler, timer handler or dispatch of the read
\* handler runs once the fixture's teardown stopped the io_context or the
\* user destroyed the client after every handler ran, as long as timeout_
\* is never above zero and the peer sends only responses.  (The timer case
\* fails without the first assumption: run use_after_destroy.)
THEOREM NoHandlerAfterDestroyHolds ==
    ASSUME NoTimerNoStray PROVE Spec => NoHandlerAfterDestroy
<1>1. Spec => [](IInv /\ TInv)
  BY TeardownInvariant, RoutingInvariant, PTL
<1>2. IInv /\ TInv => [life # "running" => ~UsesHandler]_vars
  BY GoneUnused
<1>3. QED
  BY <1>1, <1>2, PTL DEF NoHandlerAfterDestroy

=============================================================================
