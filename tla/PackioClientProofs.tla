------------------------- MODULE PackioClientProofs -------------------------
(***************************************************************************)
(* Proofs about PackioClient for every value of its constants: the type    *)
(* invariant, and at-most-once invocation of every call's completion       *)
(* handler, whichever of the timer, the response and the write error gets  *)
(* to the entry of pending_ first, and whatever the id counter does.       *)
(***************************************************************************)
EXTENDS PackioClient, TLAPS

(* The strengthening.  AtMostOnce alone is not inductive: a step that     *)
(* consumes an entry appends to the results of the call the entry owns,   *)
(* so it needs to know that the owner has no result yet and that no other *)
(* entry owns the same call.  TypeOK alone is not inductive either: the   *)
(* server puts callId[m] of the message m it frames into a request, so    *)
(* every message on the wire must have been issued, and every issued call *)
(* has its id.                                                            *)

\* Every call past async_call's first step holds the id it took.
IssuedIds == \A c \in Calls : pc[c] # "idle" => callId[c] \in Ids

\* Only messages that were issued are on the wire or in the server's framer.
WireIssued ==
    /\ \A k \in 1 .. Len(c2s) : pc[c2s[k].msg] # "idle"
    /\ srvPartial # None => pc[srvPartial] # "idle"

\* The call an entry of pending_ owns was issued and its handler has not run.
OwnedUnanswered ==
    \A i \in DOMAIN pending :
        /\ pc[pending[i]] # "idle"
        /\ results[pending[i]] = <<>>

\* No two entries own the handler of the same call.
OwnedOnce == \A i, j \in DOMAIN pending : pending[i] = pending[j] => i = j

\* A call not yet made has no results.
IdleUnanswered == \A c \in Calls : pc[c] = "idle" => results[c] = <<>>

IInv ==
    /\ TypeOK
    /\ IssuedIds
    /\ WireIssued
    /\ AtMostOnce
    /\ OwnedUnanswered
    /\ OwnedOnce
    /\ IdleUnanswered

-----------------------------------------------------------------------------
(* The steps that touch the call table go through MaybeCallHandler; what   *)
(* it does to the table and to the results, given the strengthening.      *)

LEMMA MaybeCallHandlerPreserves ==
    ASSUME IInv, NEW i \in Ids, NEW out \in Outcome,
           MaybeCallHandler(i, out),
           \A x \in Msgs : pc'[x] = "idle" <=> pc[x] = "idle"
    PROVE  /\ DOMAIN pending' \subseteq Ids
           /\ pending' \in [DOMAIN pending' -> Calls]
           /\ armed' \subseteq Ids
           /\ results' \in [Calls -> Seq(Outcome)]
           /\ AtMostOnce' /\ OwnedUnanswered' /\ OwnedOnce' /\ IdleUnanswered'
<1>1. CASE i \in DOMAIN pending
  <2>1. pending' = Erase(pending, i) /\ armed' = armed \ {i}
        /\ results' = [results EXCEPT ![pending[i]] = Append(@, out)]
    BY <1>1 DEF MaybeCallHandler
  <2>2. results[pending[i]] = <<>> /\ pending[i] \in Calls
    BY <1>1 DEF IInv, TypeOK, OwnedUnanswered
  <2>3. \A j \in DOMAIN pending \ {i} : pending[j] # pending[i]
    BY <1>1 DEF IInv, OwnedOnce
  <2>4. pending' = [j \in DOMAIN pending \ {i} |-> pending[j]]
    BY <2>1 DEF Erase
  <2>5. DOMAIN pending' \subseteq Ids /\ pending' \in [DOMAIN pending' -> Calls]
    BY <2>4 DEF IInv, TypeOK
  <2>6. armed' \subseteq Ids
    BY <2>1 DEF IInv, TypeOK
  <2>7. results' \in [Calls -> Seq(Outcome)]
    BY <2>1, <2>2 DEF IInv, TypeOK
  <2>8. \A c \in Calls : c # pending[i] => results'[c] = results[c]
    BY <2>1, <2>2
  <2>9. Len(results'[pending[i]]) = 1
    BY <2>1, <2>2 DEF IInv, TypeOK
  <2>10. AtMostOnce'
    <3>1. SUFFICES ASSUME NEW c \in Calls PROVE Len(results'[c]) <= 1
      BY DEF AtMostOnce
    <3>2. CASE c = pending[i]
      BY <3>2, <2>9
    <3>3. CASE c # pending[i]
      BY <3>3, <2>8 DEF IInv, AtMostOnce
    <3>4. QED
      BY <3>2, <3>3
  <2>11. OwnedUnanswered'
    <3>1. SUFFICES ASSUME NEW j \in DOMAIN pending'
                   PROVE  pc'[pending'[j]] # "idle" /\ results'[pending'[j]] = <<>>
      BY DEF OwnedUnanswered
    <3>2. j \in DOMAIN pending /\ j # i /\ pending'[j] = pending[j]
      BY <2>4
    <3>3. pending[j] # pending[i] /\ pending[j] \in Calls
      BY <3>2, <2>3 DEF IInv, TypeOK
    <3>4. QED
      BY <3>2, <3>3, <2>8 DEF IInv, OwnedUnanswered, Msgs
  <2>12. OwnedOnce'
    <3>1. SUFFICES ASSUME NEW j \in DOMAIN pending', NEW k \in DOMAIN pending',
                          pending'[j] = pending'[k]
                   PROVE  j = k
      BY DEF OwnedOnce
    <3>2. QED
      BY <3>1, <2>4 DEF IInv, OwnedOnce
  <2>13. IdleUnanswered'
    <3>1. pc[pending[i]] # "idle"
      BY <1>1 DEF IInv, OwnedUnanswered
    <3>2. QED
      BY <3>1, <2>2, <2>8 DEF IInv, IdleUnanswered, Msgs
  <2>14. QED
    BY <2>5, <2>6, <2>7, <2>10, <2>11, <2>12, <2>13
<1>2. CASE i \notin DOMAIN pending
  BY <1>2 DEF MaybeCallHandler, IInv, TypeOK, AtMostOnce, OwnedUnanswered,
              OwnedOnce, IdleUnanswered, Msgs
<1>3. QED
  BY <1>1, <1>2

\* What closing the session leaves: an empty wire and an empty server.
LEMMA CloseSessionResets ==
    ASSUME CloseSession
    PROVE  /\ c2s' \in Seq(Segment)
           /\ \A k \in 1 .. Len(c2s') : pc[c2s'[k].msg] # "idle"
           /\ srvPartial' \in Msgs \cup {None}
           /\ srvPartial' # None => pc[srvPartial'] # "idle"
           /\ srvInbox' \subseteq [id : Ids, call : Calls]
           /\ connected' \in BOOLEAN
<1>1. c2s' = <<>> /\ srvPartial' = None /\ srvInbox' = {} /\ connected' = FALSE
  BY DEF CloseSession
<1>2. c2s' \in Seq(Segment) /\ Len(c2s') = 0
  BY <1>1
<1>3. srvPartial' \in Msgs \cup {None}
  BY <1>1
<1>4. \A k \in 1 .. Len(c2s') : pc[c2s'[k].msg] # "idle"
  BY <1>2
<1>5. srvPartial' # None => pc[srvPartial'] # "idle"
  BY <1>1
<1>6. srvInbox' \subseteq [id : Ids, call : Calls] /\ connected' \in BOOLEAN
  BY <1>1
<1>7. QED
  BY <1>2, <1>3, <1>4, <1>5, <1>6

-----------------------------------------------------------------------------
(* One lemma per action: each step preserves IInv.                         *)

LEMMA InitIInv == Init => IInv
<1> SUFFICES ASSUME Init PROVE IInv
  OBVIOUS
<1>1. TypeOK
  BY StartIdsAssumption, TimeoutAssumption DEF Init, TypeOK
<1>2. IssuedIds /\ IdleUnanswered
  BY DEF Init, IssuedIds, IdleUnanswered, Msgs
<1>3. WireIssued
  BY MsgsAssumption DEF Init, WireIssued
<1>4. AtMostOnce /\ OwnedUnanswered /\ OwnedOnce
  BY DEF Init, AtMostOnce, OwnedUnanswered, OwnedOnce
<1>5. QED
  BY <1>1, <1>2, <1>3, <1>4 DEF IInv

LEMMA CallPreserves ==
    ASSUME IInv, NEW c \in Calls, Call(c) PROVE IInv'
<1>1. /\ c \in Msgs
      /\ pc[c] = "idle"
      /\ nextId' = (nextId + 1) % IdSpace
      /\ callId' = [callId EXCEPT ![c] = nextId]
      /\ pending' = IF nextId \in DOMAIN pending THEN pending
                    ELSE Insert(pending, nextId, c)
      /\ armed' \in {armed, armed \cup {nextId}}
      /\ timed' \in {timed, timed \cup {c}}
      /\ pc' = [pc EXCEPT ![c] = "issued"]
      /\ UNCHANGED <<wpos, fired, rstate, rbuf, c2s, s2c, connected,
                     srvPartial, srvInbox, results, noteResult, timeout, life>>
  BY DEF Call, ArmIfTimeout, Msgs
<1>2. results[c] = <<>>
  BY <1>1 DEF IInv, IdleUnanswered
<1>3. \A i \in DOMAIN pending : pending[i] # c
  BY <1>1 DEF IInv, OwnedUnanswered
<1>4. nextId \in Ids /\ (nextId + 1) % IdSpace \in Ids
  BY IdSpaceAssumption DEF IInv, TypeOK, Ids
<1>5. \A x \in Msgs : pc'[x] = "idle" => pc[x] = "idle"
  BY <1>1 DEF IInv, TypeOK
<1>6. \A x \in Msgs : pc[x] # "idle" => pc'[x] # "idle"
  BY <1>1 DEF IInv, TypeOK
<1>7. TypeOK'
  <2>1. callId' \in [Calls -> Ids \cup {None}]
    BY <1>1, <1>4 DEF IInv, TypeOK
  <2>2. pc' \in [Msgs -> {"idle", "issued", "writing", "done"}]
    BY <1>1 DEF IInv, TypeOK
  <2>3. DOMAIN pending' \subseteq Ids /\ pending' \in [DOMAIN pending' -> Calls]
    BY <1>1, <1>4 DEF IInv, TypeOK, Insert
  <2>4. armed' \subseteq Ids /\ timed' \subseteq Calls
    BY <1>1, <1>4 DEF IInv, TypeOK
  <2>5. QED
    BY <1>1, <1>4, <2>1, <2>2, <2>3, <2>4 DEF IInv, TypeOK
<1>8. IssuedIds'
  BY <1>1, <1>4 DEF IInv, TypeOK, IssuedIds, Msgs
<1>9. WireIssued'
  BY <1>1, <1>6 DEF IInv, TypeOK, WireIssued, Segment
<1>10. AtMostOnce' /\ IdleUnanswered'
  BY <1>1, <1>5 DEF IInv, AtMostOnce, IdleUnanswered, Msgs
<1>11. OwnedUnanswered' /\ OwnedOnce'
  <2>1. CASE nextId \in DOMAIN pending
    BY <1>1, <1>6, <2>1 DEF IInv, TypeOK, OwnedUnanswered, OwnedOnce, Msgs
  <2>2. CASE nextId \notin DOMAIN pending
    <3>1. pending' = [j \in DOMAIN pending \cup {nextId} |->
                          IF j = nextId THEN c ELSE pending[j]]
      BY <1>1, <2>2 DEF Insert
    <3>2. pc'[c] # "idle"
      BY <1>1 DEF IInv, TypeOK
    <3>3. OwnedUnanswered'
      BY <1>1, <1>2, <1>6, <3>1, <3>2 DEF IInv, TypeOK, OwnedUnanswered, Msgs
    <3>4. OwnedOnce'
      BY <1>3, <3>1 DEF IInv, OwnedOnce
    <3>5. QED
      BY <3>3, <3>4
  <2>3. QED
    BY <2>1, <2>2
<1>12. QED
  BY <1>7, <1>8, <1>9, <1>10, <1>11 DEF IInv

LEMMA StartWritePreserves ==
    ASSUME IInv, NEW c \in Calls, StartWrite(c) PROVE IInv'
<1>1. /\ c \in Msgs
      /\ pc[c] = "issued"
      /\ pc' = [pc EXCEPT ![c] = "writing"]
      /\ rstate' \in {"reading", rstate}
      /\ UNCHANGED <<nextId, callId, wpos, pending, armed, fired, rbuf, c2s,
                     s2c, connected, srvPartial, srvInbox, results, noteResult,
                     timeout, timed, life>>
  BY DEF StartWrite, MaybeStartReading, Msgs
<1>2. \A x \in Msgs : pc'[x] = "idle" <=> pc[x] = "idle"
  BY <1>1 DEF IInv, TypeOK
<1>3. TypeOK'
  BY <1>1 DEF IInv, TypeOK
<1>4. QED
  BY <1>1, <1>2, <1>3 DEF IInv, TypeOK, IssuedIds, WireIssued, AtMostOnce,
     OwnedUnanswered, OwnedOnce, IdleUnanswered, Msgs, Segment

LEMMA NotifyPreserves ==
    ASSUME IInv, NEW n \in Notes, Notify(n) PROVE IInv'
<1>1. /\ n \in Msgs /\ n \notin Calls
      /\ pc[n] = "idle"
      /\ pc' = [pc EXCEPT ![n] = "writing"]
      /\ rstate' \in {"reading", rstate}
      /\ UNCHANGED <<nextId, callId, wpos, pending, armed, fired, rbuf, c2s,
                     s2c, connected, srvPartial, srvInbox, results, noteResult,
                     timeout, timed, life>>
  BY MsgsAssumption DEF Notify, MaybeStartReading, Msgs
<1>2. \A x \in Calls : pc'[x] = pc[x]
  BY <1>1 DEF IInv, TypeOK, Msgs
<1>3. \A x \in Msgs : pc[x] # "idle" => pc'[x] # "idle"
  BY <1>1 DEF IInv, TypeOK
<1>4. TypeOK'
  BY <1>1 DEF IInv, TypeOK
<1>5. WireIssued'
  BY <1>1, <1>3 DEF IInv, TypeOK, WireIssued, Segment
<1>6. QED
  BY <1>1, <1>2, <1>4, <1>5 DEF IInv, TypeOK, IssuedIds, AtMostOnce,
     OwnedUnanswered, OwnedOnce, IdleUnanswered

LEMMA WriteSomePreserves ==
    ASSUME IInv, NEW m \in Msgs, WriteSome(m) PROVE IInv'
<1>1. /\ pc[m] = "writing"
      /\ c2s' = Append(c2s, [msg |-> m, part |-> wpos[m] + 1])
      /\ wpos' = [wpos EXCEPT ![m] = @ + 1]
      /\ wpos[m] < 2
      /\ pc' \in {pc, [pc EXCEPT ![m] = "done"]}
      /\ noteResult' \in {noteResult, [noteResult EXCEPT ![m] = "success"]}
      /\ (m \notin Notes => noteResult' = noteResult)
      /\ UNCHANGED <<nextId, callId, pending, armed, fired, rstate, rbuf, s2c,
                     connected, srvPartial, srvInbox, results, timeout, timed,
                     life>>
  BY DEF WriteSome
<1>2. \A x \in Msgs : pc'[x] = "idle" <=> pc[x] = "idle"
  BY <1>1 DEF IInv, TypeOK
<1>3. [msg |-> m, part |-> wpos[m] + 1] \in Segment
  <2>1. wpos[m] \in 0 .. 2
    BY DEF IInv, TypeOK
  <2>2. wpos[m] + 1 \in {1, 2}
    BY <1>1, <2>1
  <2>3. QED
    BY <2>2 DEF Segment
<1>4. TypeOK'
  <2>1. c2s' \in Seq(Segment)
    BY <1>1, <1>3 DEF IInv, TypeOK
  <2>2. wpos' \in [Msgs -> 0 .. 2]
    <3>1. wpos \in [Msgs -> 0 .. 2]
      BY DEF IInv, TypeOK
    <3>2. wpos[m] + 1 \in 0 .. 2
      BY <1>1, <3>1
    <3>3. QED
      BY <1>1, <3>1, <3>2
  <2>3. pc' \in [Msgs -> {"idle", "issued", "writing", "done"}]
    BY <1>1 DEF IInv, TypeOK
  <2>4. noteResult' \in [Notes -> {"none", "success", "error"}]
    BY <1>1 DEF IInv, TypeOK
  <2>5. QED
    BY <1>1, <2>1, <2>2, <2>3, <2>4 DEF IInv, TypeOK
<1>5. WireIssued'
  <2>1. \A k \in 1 .. Len(c2s') : c2s'[k].msg \in Msgs /\ pc[c2s'[k].msg] # "idle"
    <3>1. c2s \in Seq(Segment)
      BY DEF IInv, TypeOK
    <3>2. \A k \in 1 .. Len(c2s) : c2s[k].msg \in Msgs
      <4>1. \A k \in 1 .. Len(c2s) : c2s[k] \in Segment
        BY <3>1
      <4>2. QED
        BY <4>1, Zenon DEF Segment
    <3>3. \A k \in 1 .. Len(c2s) : pc[c2s[k].msg] # "idle"
      BY DEF IInv, WireIssued
    <3>4. /\ Len(c2s') = Len(c2s) + 1
          /\ \A k \in 1 .. Len(c2s) : c2s'[k] = c2s[k]
          /\ c2s'[Len(c2s) + 1].msg = m
      BY <1>1, <3>1
    <3>5. QED
      BY <1>1, <3>2, <3>3, <3>4
  <2>2. srvPartial' # None => pc'[srvPartial'] # "idle"
    BY <1>1, <1>2 DEF IInv, TypeOK, WireIssued
  <2>3. QED
    BY <1>2, <2>1, <2>2 DEF WireIssued
<1>6. QED
  BY <1>1, <1>2, <1>4, <1>5 DEF IInv, TypeOK, IssuedIds, AtMostOnce,
     OwnedUnanswered, OwnedOnce, IdleUnanswered, Msgs

LEMMA WriteFailPreserves ==
    ASSUME IInv, NEW m \in Msgs, WriteFail(m) PROVE IInv'
<1>1. CASE m \in Calls
  <2>1. callId[m] \in Ids
    BY <1>1 DEF WriteFail, IInv, IssuedIds
  <2>2. [ec |-> "write_error", from |-> None] \in Outcome
    BY DEF Outcome
  <2>3. MaybeCallHandler(callId[m], [ec |-> "write_error", from |-> None])
    BY <1>1 DEF WriteFail
  <2>4. \A x \in Msgs : pc'[x] = "idle" <=> pc[x] = "idle"
    BY DEF WriteFail, IInv, TypeOK
  <2>5. /\ DOMAIN pending' \subseteq Ids
        /\ pending' \in [DOMAIN pending' -> Calls]
        /\ armed' \subseteq Ids
        /\ results' \in [Calls -> Seq(Outcome)]
        /\ AtMostOnce' /\ OwnedUnanswered' /\ OwnedOnce' /\ IdleUnanswered'
    BY <2>1, <2>2, <2>3, <2>4, MaybeCallHandlerPreserves
  <2>6. TypeOK'
    BY <1>1, <2>5 DEF WriteFail, IInv, TypeOK
  <2>7. IssuedIds' /\ WireIssued'
    BY <1>1, <2>4 DEF WriteFail, IInv, TypeOK, IssuedIds, WireIssued, Msgs
  <2>8. QED
    BY <2>5, <2>6, <2>7 DEF IInv
<1>2. CASE m \in Notes
  <2>1. m \notin Calls
    BY <1>2, MsgsAssumption
  <2>2. /\ noteResult' = [noteResult EXCEPT ![m] = "error"]
        /\ UNCHANGED <<pending, armed, results, c2s, srvPartial, callId,
                       nextId, wpos, fired, rstate, rbuf, s2c, connected,
                       srvInbox, timeout, timed, life>>
        /\ pc' = [pc EXCEPT ![m] = "done"]
    BY <2>1 DEF WriteFail
  <2>3. QED
    BY <1>2, <2>1, <2>2 DEF Msgs, IInv, TypeOK, IssuedIds,
       WireIssued, AtMostOnce, OwnedUnanswered, OwnedOnce, IdleUnanswered
<1>3. QED
  BY <1>1, <1>2 DEF Msgs

LEMMA TimerExpirePreserves ==
    ASSUME IInv, NEW i \in Ids, TimerExpire(i) PROVE IInv'
<1>1. /\ armed' = armed \ {i}
      /\ fired' = [fired EXCEPT ![i] = @ + 1]
      /\ UNCHANGED <<nextId, callId, pc, wpos, pending, rstate, rbuf, c2s, s2c,
                     connected, srvPartial, srvInbox, results, noteResult,
                     timeout, timed, life>>
  BY DEF TimerExpire
<1>2. TypeOK'
  BY <1>1 DEF IInv, TypeOK
<1>3. QED
  BY <1>1, <1>2 DEF IInv, IssuedIds, WireIssued, AtMostOnce, OwnedUnanswered,
     OwnedOnce, IdleUnanswered

LEMMA TimeoutHandlerPreserves ==
    ASSUME IInv, NEW i \in Ids, TimeoutHandler(i) PROVE IInv'
<1>1. /\ fired[i] > 0
      /\ fired' = [fired EXCEPT ![i] = @ - 1]
      /\ MaybeCallHandler(i, [ec |-> "timeout", from |-> None])
      /\ UNCHANGED <<nextId, callId, pc, wpos, rstate, rbuf, c2s, s2c,
                     connected, srvPartial, srvInbox, noteResult, timeout,
                     timed, life>>
  BY DEF TimeoutHandler
<1>2. [ec |-> "timeout", from |-> None] \in Outcome
  BY DEF Outcome
<1>3. \A x \in Msgs : pc'[x] = "idle" <=> pc[x] = "idle"
  BY <1>1
<1>4. /\ DOMAIN pending' \subseteq Ids
      /\ pending' \in [DOMAIN pending' -> Calls]
      /\ armed' \subseteq Ids
      /\ results' \in [Calls -> Seq(Outcome)]
      /\ AtMostOnce' /\ OwnedUnanswered' /\ OwnedOnce' /\ IdleUnanswered'
  BY <1>1, <1>2, <1>3, MaybeCallHandlerPreserves
<1>5. fired' \in [Ids -> Nat]
  BY <1>1 DEF IInv, TypeOK
<1>6. TypeOK'
  BY <1>1, <1>4, <1>5 DEF IInv, TypeOK
<1>7. IssuedIds' /\ WireIssued'
  BY <1>1 DEF IInv, IssuedIds, WireIssued
<1>8. QED
  BY <1>4, <1>6, <1>7 DEF IInv

LEMMA ReadSomePreserves ==
    ASSUME IInv, ReadSome PROVE IInv'
<1>1. PICK k \in 1 .. Len(s2c) : /\ rbuf' = SubSeq(s2c, 1, k)
                                  /\ s2c' = SubSeq(s2c, k + 1, Len(s2c))
  BY DEF ReadSome
<1>2. UNCHANGED <<nextId, callId, pc, wpos, pending, armed, fired,
                  c2s, connected, srvPartial, srvInbox, results, noteResult,
                  timeout, timed, life>>
      /\ rstate' = "handling"
  BY DEF ReadSome
<1>3. s2c \in Seq(Response \cup Stray)
  BY DEF IInv, TypeOK
<1>4. rbuf' \in Seq(Response \cup Stray) /\ s2c' \in Seq(Response \cup Stray)
  BY <1>1, <1>3
<1>5. TypeOK'
  BY <1>2, <1>4 DEF IInv, TypeOK
<1>6. QED
  BY <1>2, <1>5 DEF IInv, IssuedIds, WireIssued, AtMostOnce, OwnedUnanswered,
     OwnedOnce, IdleUnanswered

LEMMA ReadFailPreserves ==
    ASSUME IInv, ReadFail PROVE IInv'
BY DEF ReadFail, IInv, TypeOK, IssuedIds, WireIssued, AtMostOnce,
   OwnedUnanswered, OwnedOnce, IdleUnanswered

LEMMA ReadRearmPreserves ==
    ASSUME IInv, ReadRearm PROVE IInv'
BY DEF ReadRearm, IInv, TypeOK, IssuedIds, WireIssued, AtMostOnce,
   OwnedUnanswered, OwnedOnce, IdleUnanswered

LEMMA DispatchPreserves ==
    ASSUME IInv, Dispatch PROVE IInv'
<1> DEFINE r == Head(rbuf)
<1>1. rbuf # <<>> /\ rbuf \in Seq(Response \cup Stray)
  BY DEF Dispatch, IInv, TypeOK
<1>2. r \in Response \cup Stray /\ Tail(rbuf) \in Seq(Response \cup Stray)
  BY <1>1
<1>3. UNCHANGED <<nextId, callId, pc, wpos, fired, noteResult, timeout,
                  timed, life>>
  BY DEF Dispatch
<1>5. CASE /\ CloseConnection /\ rbuf' = Tail(rbuf)
           /\ UNCHANGED <<pending, armed, results, rstate>>
  <2>2. /\ c2s' \in Seq(Segment)
        /\ \A k \in 1 .. Len(c2s') : pc[c2s'[k].msg] # "idle"
        /\ srvPartial' \in Msgs \cup {None}
        /\ srvPartial' # None => pc[srvPartial'] # "idle"
        /\ srvInbox' \subseteq [id : Ids, call : Calls]
        /\ connected' \in BOOLEAN
    BY <1>5, CloseSessionResets DEF CloseConnection
  <2>3. s2c' = <<>>
    BY <1>5 DEF CloseConnection
  <2>4. TypeOK'
    BY <1>2, <1>3, <1>5, <2>2, <2>3 DEF IInv, TypeOK
  <2>5. WireIssued'
    BY <1>3, <2>2 DEF WireIssued
  <2>6. QED
    BY <1>3, <1>5, <2>4, <2>5 DEF IInv, IssuedIds, AtMostOnce,
       OwnedUnanswered, OwnedOnce, IdleUnanswered
<1>6. CASE /\ rstate' = "stopped" /\ rbuf' = <<>>
           /\ UNCHANGED <<pending, armed, results, c2s, s2c, connected,
                          srvPartial, srvInbox>>
  <2>2. TypeOK'
    BY <1>3, <1>6 DEF IInv, TypeOK
  <2>3. QED
    BY <1>3, <1>6, <2>2 DEF IInv, IssuedIds, WireIssued, AtMostOnce,
       OwnedUnanswered, OwnedOnce, IdleUnanswered
<1>7. CASE /\ r \notin Stray
           /\ MaybeCallHandler(r.id, ReplyOutcome(r)) /\ rbuf' = Tail(rbuf)
           /\ UNCHANGED <<rstate, c2s, s2c, connected, srvPartial, srvInbox>>
  <2>2. r \in Response
    BY <1>2, <1>7
  <2>3. r.id \in Ids /\ ReplyOutcome(r) \in Outcome
    BY <2>2 DEF Response, Outcome, ReplyOutcome
  <2>4. \A x \in Msgs : pc'[x] = "idle" <=> pc[x] = "idle"
    BY <1>3
  <2>5. /\ DOMAIN pending' \subseteq Ids
        /\ pending' \in [DOMAIN pending' -> Calls]
        /\ armed' \subseteq Ids
        /\ results' \in [Calls -> Seq(Outcome)]
        /\ AtMostOnce' /\ OwnedUnanswered' /\ OwnedOnce' /\ IdleUnanswered'
    BY <1>7, <2>3, <2>4, MaybeCallHandlerPreserves
  <2>6. TypeOK'
    BY <1>2, <1>3, <1>7, <2>5 DEF IInv, TypeOK
  <2>7. IssuedIds' /\ WireIssued'
    BY <1>3, <1>7 DEF IInv, IssuedIds, WireIssued
  <2>8. QED
    BY <2>5, <2>6, <2>7 DEF IInv
<1>8. QED
  BY <1>5, <1>6, <1>7 DEF Dispatch

LEMMA SrvReplyPreserves ==
    ASSUME IInv, SrvReply PROVE IInv'
<1>1. PICK req \in srvInbox, err \in BOOLEAN :
          /\ s2c' = Append(s2c, [id |-> req.id, err |-> err, call |-> req.call])
          /\ srvInbox' = srvInbox \ {req}
  BY DEF SrvReply
<1>2. UNCHANGED <<nextId, callId, pc, wpos, pending, armed, fired, rstate,
                  rbuf, c2s, connected, srvPartial, results, noteResult,
                  timeout, timed, life>>
  BY DEF SrvReply
<1>3. [id |-> req.id, err |-> err, call |-> req.call] \in Response \cup Stray
  BY DEF IInv, TypeOK, Response
<1>4. TypeOK'
  BY <1>1, <1>2, <1>3 DEF IInv, TypeOK
<1>5. QED
  BY <1>2, <1>4 DEF IInv, IssuedIds, WireIssued, AtMostOnce, OwnedUnanswered,
     OwnedOnce, IdleUnanswered

LEMMA DisconnectPreserves ==
    ASSUME IInv, Disconnect PROVE IInv'
<1>1. /\ connected' = FALSE /\ c2s' = <<>> /\ srvPartial' = None
      /\ srvInbox' = {}
      /\ UNCHANGED <<nextId, callId, pc, wpos, pending, armed, fired, rstate,
                     rbuf, s2c, results, noteResult, timeout, timed, life>>
  BY DEF Disconnect, CloseSession
<1>2. /\ c2s' \in Seq(Segment)
      /\ \A k \in 1 .. Len(c2s') : pc[c2s'[k].msg] # "idle"
      /\ srvPartial' \in Msgs \cup {None}
      /\ srvPartial' # None => pc[srvPartial'] # "idle"
      /\ srvInbox' \subseteq [id : Ids, call : Calls]
      /\ connected' \in BOOLEAN
  BY CloseSessionResets DEF Disconnect
<1>3. TypeOK'
  BY <1>1, <1>2 DEF IInv, TypeOK
<1>4. WireIssued'
  BY <1>1, <1>2 DEF WireIssued
<1>5. QED
  BY <1>1, <1>3, <1>4 DEF IInv, IssuedIds, AtMostOnce, OwnedUnanswered,
     OwnedOnce, IdleUnanswered

LEMMA SetTimeoutPreserves ==
    ASSUME IInv, NEW t \in Timeouts, SetTimeout(t) PROVE IInv'
<1>1. timeout' \in {0, 1}
  BY TimeoutAssumption DEF SetTimeout
<1>2. QED
  BY <1>1 DEF SetTimeout, IInv, TypeOK, IssuedIds, WireIssued, AtMostOnce,
     OwnedUnanswered, OwnedOnce, IdleUnanswered

LEMMA SrvSendBadPreserves ==
    ASSUME IInv, SrvSendBad PROVE IInv'
<1>1. PICK b \in Stray : s2c' = Append(s2c, b)
  BY DEF SrvSendBad
<1>2. s2c' \in Seq(Response \cup Stray)
  BY <1>1 DEF IInv, TypeOK
<1>3. UNCHANGED <<nextId, callId, pc, wpos, pending, armed, fired, rstate,
                  rbuf, c2s, connected, srvPartial, srvInbox, results,
                  noteResult, timeout, timed, life>>
  BY DEF SrvSendBad
<1>4. TypeOK'
  BY <1>2, <1>3 DEF IInv, TypeOK
<1>5. QED
  BY <1>3, <1>4 DEF IInv, IssuedIds, WireIssued, AtMostOnce, OwnedUnanswered,
     OwnedOnce, IdleUnanswered

\* The destructor leaves an empty call table, and ends the connection.
LEMMA DestroyClientPreserves ==
    ASSUME IInv, DestroyClient, life' \in {"destroyed", "torndown"}
    PROVE  IInv'
<1>1. pending' = [i \in {} |-> None] /\ armed' = {}
  BY DEF DestroyClient
<1>2. UNCHANGED <<nextId, callId, pc, wpos, fired, rstate, rbuf, results,
                  noteResult, timeout, timed>>
  BY DEF DestroyClient
<1>3. /\ c2s' \in Seq(Segment)
      /\ \A k \in 1 .. Len(c2s') : pc[c2s'[k].msg] # "idle"
      /\ srvPartial' \in Msgs \cup {None}
      /\ srvPartial' # None => pc[srvPartial'] # "idle"
      /\ srvInbox' \subseteq [id : Ids, call : Calls]
      /\ connected' \in BOOLEAN
  BY CloseSessionResets DEF DestroyClient, CloseConnection
<1>4. s2c' = <<>>
  BY DEF DestroyClient, CloseConnection
<1>5. DOMAIN pending' = {}
  BY <1>1
<1>6. TypeOK'
  BY <1>1, <1>2, <1>3, <1>4, <1>5 DEF IInv, TypeOK
<1>7. WireIssued'
  BY <1>2, <1>3 DEF WireIssued
<1>8. OwnedUnanswered' /\ OwnedOnce'
  BY <1>5 DEF OwnedUnanswered, OwnedOnce
<1>9. QED
  BY <1>2, <1>6, <1>7, <1>8 DEF IInv, IssuedIds, AtMostOnce, IdleUnanswered

LEMMA StutterPreserves ==
    ASSUME IInv, UNCHANGED vars PROVE IInv'
BY DEF vars, IInv, TypeOK, IssuedIds, WireIssued, AtMostOnce,
   OwnedUnanswered, OwnedOnce, IdleUnanswered

LEMMA SrvRecvPreserves ==
    ASSUME IInv, SrvRecv PROVE IInv'
<1> DEFINE seg == Head(c2s)
<1>1. c2s # <<>> /\ c2s \in Seq(Segment)
  BY DEF SrvRecv, IInv, TypeOK
<1>2. seg \in Segment /\ seg = c2s[1] /\ Tail(c2s) \in Seq(Segment)
  BY <1>1
<1>3. seg.msg \in Msgs /\ seg.part \in {1, 2}
  BY <1>2, Zenon DEF Segment
<1>4. pc[seg.msg] # "idle"
  BY <1>1, <1>2 DEF IInv, WireIssued
<1>5. \A k \in 1 .. Len(Tail(c2s)) : pc[Tail(c2s)[k].msg] # "idle"
  <2>1. \A k \in 1 .. Len(Tail(c2s)) : Tail(c2s)[k] = c2s[k + 1]
                                       /\ k + 1 \in 1 .. Len(c2s)
    BY <1>1
  <2>2. QED
    BY <2>1 DEF IInv, WireIssued
<1>6. UNCHANGED <<nextId, callId, pc, wpos, pending, armed, fired, rstate,
                  rbuf, s2c, results, noteResult, timeout, timed, life>>
  BY DEF SrvRecv
<1>7. /\ c2s' \in Seq(Segment)
      /\ \A k \in 1 .. Len(c2s') : pc[c2s'[k].msg] # "idle"
      /\ srvPartial' \in Msgs \cup {None}
      /\ srvPartial' # None => pc[srvPartial'] # "idle"
      /\ srvInbox' \subseteq [id : Ids, call : Calls]
      /\ connected' \in BOOLEAN
  <2>1. CASE /\ seg.part = 1 /\ srvPartial = None /\ srvPartial' = seg.msg
             /\ c2s' = Tail(c2s) /\ UNCHANGED <<connected, srvInbox>>
    BY <1>2, <1>3, <1>4, <1>5, <2>1 DEF IInv, TypeOK
  <2>2. CASE /\ seg.part = 2 /\ srvPartial = seg.msg /\ srvPartial' = None
             /\ c2s' = Tail(c2s)
             /\ srvInbox' = IF seg.msg \in Calls
                            THEN srvInbox \cup {[id |-> callId[seg.msg], call |-> seg.msg]}
                            ELSE srvInbox
             /\ UNCHANGED connected
    <3>1. seg.msg \in Calls => callId[seg.msg] \in Ids
      BY <1>4 DEF IInv, IssuedIds
    <3>2. srvInbox' \subseteq [id : Ids, call : Calls]
      BY <2>2, <3>1 DEF IInv, TypeOK
    <3>3. QED
      BY <1>2, <1>5, <2>2, <3>2 DEF IInv, TypeOK
  <2>3. CASE CloseSession
    BY <2>3, CloseSessionResets
  <2>4. \/ /\ seg.part = 1 /\ srvPartial = None /\ srvPartial' = seg.msg
           /\ c2s' = Tail(c2s) /\ UNCHANGED <<connected, srvInbox>>
        \/ /\ seg.part = 2 /\ srvPartial = seg.msg /\ srvPartial' = None
           /\ c2s' = Tail(c2s)
           /\ srvInbox' = IF seg.msg \in Calls
                          THEN srvInbox \cup {[id |-> callId[seg.msg], call |-> seg.msg]}
                          ELSE srvInbox
           /\ UNCHANGED connected
        \/ CloseSession
    BY DEF SrvRecv
  <2>5. QED
    BY <2>1, <2>2, <2>3, <2>4
<1>8. TypeOK'
  BY <1>6, <1>7 DEF IInv, TypeOK
<1>9. WireIssued'
  BY <1>6, <1>7 DEF WireIssued
<1>10. QED
  BY <1>6, <1>8, <1>9 DEF IInv, IssuedIds, AtMostOnce, OwnedUnanswered,
     OwnedOnce, IdleUnanswered

-----------------------------------------------------------------------------
(* The strengthening is an inductive invariant of the client and its peer. *)

LEMMA NextPreserves ==
    ASSUME IInv, [Next]_vars PROVE IInv'
<1>1. CASE \E c \in Calls : Call(c)
  BY <1>1, CallPreserves
<1>2. CASE \E n \in Notes : Notify(n)
  BY <1>2, NotifyPreserves
<1>3. CASE \E t \in Timeouts : SetTimeout(t)
  BY <1>3, SetTimeoutPreserves
<1>4. CASE FixtureTeardown \/ DestroyWhenAnswered
  BY <1>4, DestroyClientPreserves DEF FixtureTeardown, DestroyWhenAnswered
<1>5. CASE \E c \in Calls : StartWrite(c)
  BY <1>5, StartWritePreserves
<1>6. CASE \E m \in Msgs : WriteSome(m) \/ WriteFail(m)
  BY <1>6, WriteSomePreserves, WriteFailPreserves
<1>7. CASE \E i \in Ids : TimerExpire(i) \/ TimeoutHandler(i)
  BY <1>7, TimerExpirePreserves, TimeoutHandlerPreserves
<1>8. CASE ReadSome \/ ReadFail \/ Dispatch \/ ReadRearm
  BY <1>8, ReadSomePreserves, ReadFailPreserves, DispatchPreserves,
     ReadRearmPreserves
<1>9. CASE SrvRecv \/ SrvReply \/ SrvSendBad \/ Disconnect
  BY <1>9, SrvRecvPreserves, SrvReplyPreserves, SrvSendBadPreserves,
     DisconnectPreserves
<1>10. CASE UNCHANGED vars
  BY <1>10, StutterPreserves
<1>11. QED
  BY <1>1, <1>2, <1>3, <1>4, <1>5, <1>6, <1>7, <1>8, <1>9, <1>10
  DEF Next, UserStep, ClientStep

\* Every reachable state of the client and the peer satisfies the
\* strengthening: the call table, the ids the calls took and the results
\* of the completion handlers stay consistent through async_call, the write
\* handlers, the timers, the read chain and the server session.
THEOREM IInvariant == Spec => []IInv
<1>1. Init => IInv
  BY InitIInv
<1>2. IInv /\ [Next]_vars => IInv'
  BY NextPreserves
<1>3. QED
  BY <1>1, <1>2, PTL DEF Spec

\* Type correctness: every variable of the client model keeps its type, in
\* particular id_ stays within uint32 and every id that async_call stores,
\* times or sends is one of them, whatever the starting value of id_.
THEOREM TypeCorrect == Spec => []TypeOK
<1>1. IInv => TypeOK
  BY DEF IInv
<1>2. QED
  BY <1>1, IInvariant, PTL

\* At most once: whichever of the response, the timeout handler and the
\* write error reaches maybe_call_handler first, a call's completion
\* handler is invoked at most once, also when id_ wraps and a late reply
\* carries the id of a newer call.
THEOREM AtMostOnceHolds == Spec => []AtMostOnce
<1>1. IInv => AtMostOnce
  BY DEF IInv
<1>2. QED
  BY <1>1, IInvariant, PTL

=============================================================================
