------------------------ MODULE PackioLifecycleProofs ------------------------
(***************************************************************************)
(* Proof that the client model implements the call lifecycle of           *)
(* CallLifecycle under the mapping PackioClient defines (Lifecycle): a     *)
(* call is made when async_call takes its id, and completed when its       *)
(* handler is first invoked.  The proof rests on the inductive invariant   *)
(* IInv of PackioClientProofs: the entry a step consumes owns a call that  *)
(* was made and has no outcome yet.                                        *)
(***************************************************************************)
EXTENDS PackioClientProofs

\* The lifecycle's state as a function of the client's.
Made == {c \in Calls : pc[c] # "idle"}
Outcomes == [c \in Calls |-> LastOutcome(c)]

-----------------------------------------------------------------------------
(* Steps that leave the results and the calls made alone are stutters of   *)
(* the lifecycle.                                                          *)

LEMMA LifecycleStutter ==
    ASSUME results' = results,
           \A c \in Calls : pc'[c] = "idle" <=> pc[c] = "idle"
    PROVE  UNCHANGED Lifecycle!vars
<1>1. Made' = Made
  BY DEF Made
<1>2. Outcomes' = Outcomes
  BY DEF Outcomes, LastOutcome
<1>3. QED
  BY <1>1, <1>2 DEF Lifecycle!vars, Made, Outcomes

\* A step that consumes the entry of pending_ for id i, if there is one,
\* completes the call the entry owns, or else stutters.
LEMMA MaybeCallHandlerRefines ==
    ASSUME IInv, NEW i \in Ids, NEW out \in Outcome,
           MaybeCallHandler(i, out),
           \A c \in Calls : pc'[c] = "idle" <=> pc[c] = "idle"
    PROVE  [Lifecycle!Next]_Lifecycle!vars
<1>1. CASE i \in DOMAIN pending
  <2>0. PICK c : c = pending[i]
    OBVIOUS
  <2>1. results' = [results EXCEPT ![c] = Append(@, out)]
    BY <1>1, <2>0 DEF MaybeCallHandler
  <2>2. c \in Calls /\ pc[c] # "idle" /\ results[c] = <<>>
    BY <1>1, <2>0 DEF IInv, TypeOK, OwnedUnanswered
  <2>3. results \in [Calls -> Seq(Outcome)]
    BY DEF IInv, TypeOK
  <2>4. c \in Made /\ Outcomes[c] = None
    BY <2>2 DEF Made, Outcomes, LastOutcome
  <2>5. Outcomes' = [Outcomes EXCEPT ![c] = out]
    <3>1. LastOutcome(c)' = out
      BY <2>1, <2>2, <2>3 DEF LastOutcome
    <3>2. \A x \in Calls : x # c => LastOutcome(x)' = LastOutcome(x)
      BY <2>1, <2>3 DEF LastOutcome
    <3>3. QED
      BY <2>2, <3>1, <3>2 DEF Outcomes
  <2>6. Made' = Made
    BY DEF Made
  <2>7. Lifecycle!Complete(c, out)
    BY <2>4, <2>5, <2>6 DEF Lifecycle!Complete, Made, Outcomes
  <2>8. QED
    BY <2>2, <2>7 DEF Lifecycle!Next
<1>2. CASE i \notin DOMAIN pending
  <2>1. results' = results
    BY <1>2 DEF MaybeCallHandler
  <2>2. QED
    BY <2>1, LifecycleStutter
<1>3. QED
  BY <1>1, <1>2

-----------------------------------------------------------------------------
(* The initial states and the steps of the client map to the lifecycle's.  *)

LEMMA InitRefines == Init => Lifecycle!Init
<1> SUFFICES ASSUME Init PROVE Lifecycle!Init
  OBVIOUS
<1>1. Made = {}
  BY MsgsAssumption DEF Init, Made, Msgs
<1>2. Outcomes = [c \in Calls |-> None]
  BY DEF Init, Outcomes, LastOutcome
<1>3. QED
  BY <1>1, <1>2 DEF Lifecycle!Init, Made, Outcomes

LEMMA CallRefines ==
    ASSUME IInv, NEW c \in Calls, Call(c) PROVE [Lifecycle!Next]_Lifecycle!vars
<1>1. pc[c] = "idle" /\ pc' = [pc EXCEPT ![c] = "issued"] /\ results' = results
  BY DEF Call
<1>2. pc \in [Msgs -> {"idle", "issued", "writing", "done"}] /\ c \in Msgs
  BY DEF IInv, TypeOK, Msgs
<1>3. c \notin Made /\ Made' = Made \cup {c}
  BY <1>1, <1>2 DEF Made, Msgs
<1>4. Outcomes' = Outcomes
  BY <1>1 DEF Outcomes, LastOutcome
<1>5. Lifecycle!Make(c)
  BY <1>3, <1>4 DEF Lifecycle!Make, Made, Outcomes
<1>6. QED
  BY <1>5 DEF Lifecycle!Next

\* The idle calls stay idle, and the others stay made, in every step but
\* Call's.
LEMMA IdleKept ==
    ASSUME IInv,
           \/ \E n \in Notes : Notify(n)
           \/ \E t \in Timeouts : SetTimeout(t)
           \/ FixtureTeardown \/ DestroyWhenAnswered
           \/ \E c \in Calls : StartWrite(c)
           \/ \E m \in Msgs : WriteSome(m) \/ WriteFail(m)
           \/ \E i \in Ids : TimerExpire(i) \/ TimeoutHandler(i)
           \/ ReadSome \/ ReadFail \/ Dispatch \/ ReadRearm
           \/ SrvRecv \/ SrvReply \/ SrvSendBad \/ Disconnect
    PROVE  \A c \in Calls : pc'[c] = "idle" <=> pc[c] = "idle"
<1>1. pc \in [Msgs -> {"idle", "issued", "writing", "done"}] /\ Calls \subseteq Msgs
  BY DEF IInv, TypeOK, Msgs
<1>2. CASE \E n \in Notes : Notify(n)
  BY <1>1, <1>2, MsgsAssumption DEF Notify
<1>3. CASE \E c \in Calls : StartWrite(c)
  BY <1>1, <1>3 DEF StartWrite
<1>4. CASE \E m \in Msgs : WriteSome(m) \/ WriteFail(m)
  BY <1>1, <1>4 DEF WriteSome, WriteFail
<1>5. CASE FixtureTeardown \/ DestroyWhenAnswered
  BY <1>5 DEF FixtureTeardown, DestroyWhenAnswered, DestroyClient
<1>6. QED
  BY <1>2, <1>3, <1>4, <1>5
  DEF SetTimeout, TimerExpire, TimeoutHandler, ReadSome, ReadFail, Dispatch,
      ReadRearm, SrvRecv, SrvReply, SrvSendBad, Disconnect

\* The steps that invoke no call's handler leave the results alone.
LEMMA ResultsKept ==
    ASSUME \/ \E n \in Notes : Notify(n)
           \/ \E t \in Timeouts : SetTimeout(t)
           \/ FixtureTeardown \/ DestroyWhenAnswered
           \/ \E c \in Calls : StartWrite(c)
           \/ \E m \in Msgs : WriteSome(m)
           \/ \E i \in Ids : TimerExpire(i)
           \/ ReadSome \/ ReadFail \/ ReadRearm
           \/ SrvRecv \/ SrvReply \/ SrvSendBad \/ Disconnect
    PROVE  results' = results
BY DEF Notify, SetTimeout, FixtureTeardown, DestroyWhenAnswered, DestroyClient,
       StartWrite, WriteSome, TimerExpire, ReadSome, ReadFail, ReadRearm,
       SrvRecv, SrvReply, SrvSendBad, Disconnect

LEMMA WriteFailRefines ==
    ASSUME IInv, NEW m \in Msgs, WriteFail(m),
           \A c \in Calls : pc'[c] = "idle" <=> pc[c] = "idle"
    PROVE  [Lifecycle!Next]_Lifecycle!vars
<1>1. CASE m \in Calls
  <2>1. callId[m] \in Ids
    BY <1>1 DEF WriteFail, IInv, IssuedIds
  <2>2. [ec |-> "write_error", from |-> None] \in Outcome
    BY DEF Outcome
  <2>3. MaybeCallHandler(callId[m], [ec |-> "write_error", from |-> None])
    BY <1>1 DEF WriteFail
  <2>4. QED
    BY <2>1, <2>2, <2>3, MaybeCallHandlerRefines
<1>2. CASE m \notin Calls
  BY <1>2, LifecycleStutter DEF WriteFail
<1>3. QED
  BY <1>1, <1>2

LEMMA TimeoutHandlerRefines ==
    ASSUME IInv, NEW i \in Ids, TimeoutHandler(i),
           \A c \in Calls : pc'[c] = "idle" <=> pc[c] = "idle"
    PROVE  [Lifecycle!Next]_Lifecycle!vars
<1>1. [ec |-> "timeout", from |-> None] \in Outcome
  BY DEF Outcome
<1>2. MaybeCallHandler(i, [ec |-> "timeout", from |-> None])
  BY DEF TimeoutHandler
<1>3. QED
  BY <1>1, <1>2, MaybeCallHandlerRefines

LEMMA DispatchRefines ==
    ASSUME IInv, Dispatch,
           \A c \in Calls : pc'[c] = "idle" <=> pc[c] = "idle"
    PROVE  [Lifecycle!Next]_Lifecycle!vars
<1> DEFINE r == Head(rbuf)
<1>1. rbuf # <<>> /\ rbuf \in Seq(Response \cup Stray)
  BY DEF Dispatch, IInv, TypeOK
<1>2. r \in Response \cup Stray
  BY <1>1
<1>3. CASE results' = results
  BY <1>3, LifecycleStutter
<1>4. CASE r \notin Stray /\ MaybeCallHandler(r.id, ReplyOutcome(r))
  <2>1. r.id \in Ids /\ ReplyOutcome(r) \in Outcome
    BY <1>2, <1>4 DEF Response, Outcome, ReplyOutcome
  <2>2. QED
    BY <1>4, <2>1, MaybeCallHandlerRefines
<1>5. QED
  BY <1>3, <1>4 DEF Dispatch

LEMMA NextRefines ==
    ASSUME IInv, [Next]_vars PROVE [Lifecycle!Next]_Lifecycle!vars
<1>1. CASE \E c \in Calls : Call(c)
  BY <1>1, CallRefines
<1>2. CASE \/ \E n \in Notes : Notify(n)
           \/ \E t \in Timeouts : SetTimeout(t)
           \/ FixtureTeardown \/ DestroyWhenAnswered
           \/ \E c \in Calls : StartWrite(c)
           \/ \E m \in Msgs : WriteSome(m)
           \/ \E i \in Ids : TimerExpire(i)
           \/ ReadSome \/ ReadFail \/ ReadRearm
           \/ SrvRecv \/ SrvReply \/ SrvSendBad \/ Disconnect
  BY <1>2, IdleKept, ResultsKept, LifecycleStutter
<1>3. CASE \E m \in Msgs : WriteFail(m)
  BY <1>3, IdleKept, WriteFailRefines
<1>4. CASE \E i \in Ids : TimeoutHandler(i)
  BY <1>4, IdleKept, TimeoutHandlerRefines
<1>5. CASE Dispatch
  BY <1>5, IdleKept, DispatchRefines
<1>6. CASE UNCHANGED vars
  BY <1>6, LifecycleStutter DEF vars
<1>7. QED
  BY <1>1, <1>2, <1>3, <1>4, <1>5, <1>6 DEF Next, UserStep, ClientStep

\* The client implements the call lifecycle: whatever the order of the
\* write handlers, the timers and the read chain, and whatever id_ wraps
\* to, async_call makes a call once and its completion handler is invoked
\* at most once, after the call is made, with one outcome.
THEOREM Refinement == Spec => ImplementsLifecycle
<1>1. Init => Lifecycle!Init
  BY InitRefines
<1>2. IInv /\ [Next]_vars => [Lifecycle!Next]_Lifecycle!vars
  BY NextRefines
<1>3. QED
  BY <1>1, <1>2, IInvariant, PTL DEF Spec, ImplementsLifecycle, Lifecycle!Spec

=============================================================================
