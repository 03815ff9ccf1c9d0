------------------------- MODULE PackioRoutingProofs -------------------------
(***************************************************************************)
(* Proofs that the client routes replies by id and loses calls only by id  *)
(* collision, for every value of the constants: a completion handler gets *)
(* another call's reply only when the two calls took the same id, and an   *)
(* issued call whose handler has not run is owned by an entry of pending_  *)
(* unless another issued call holds its id (or the fixture's teardown      *)
(* destroyed the table).  While the issued calls hold distinct ids, the    *)
(* two properties TLC checks on client_core, ResultMatchesRequest and      *)
(* NoLostCall, follow.                                                     *)
(*                                                                         *)
(* The proof needs more than IInv: every entry of pending_ sits at the id  *)
(* of the call it owns, and every request and reply in flight carries the  *)
(* id of the call it answers, which was issued, so that its id no longer   *)
(* changes.                                                                *)
(***************************************************************************)
EXTENDS PackioLifecycleProofs

\* The issued calls hold pairwise distinct ids (id_ has not wrapped onto
\* an issued call).
UniqueIds ==
    \A c, d \in Calls : Issued(c) /\ Issued(d) /\ callId[c] = callId[d] => c = d

\* The entry of id i owns the handler of a call that took id i.
EntryAtId == \A i \in DOMAIN pending : callId[pending[i]] = i

\* A request the server dispatched echoes the id of an issued call.
InboxCarriesId == \A q \in srvInbox : Issued(q.call) /\ q.id = callId[q.call]

\* The replies on the wire or unpacked by the read handler.
Carried == {s2c[k] : k \in 1 .. Len(s2c)} \cup {rbuf[k] : k \in 1 .. Len(rbuf)}

CarriesId(r) == r \notin Stray => Issued(r.call) /\ r.id = callId[r.call]

RepliesCarryId == \A r \in Carried : CarriesId(r)

\* A reply's result went to a handler only for an issued call.
FromIssued ==
    \A c \in Calls : \A k \in 1 .. Len(results[c]) :
        results[c][k].from # None => Issued(results[c][k].from)

HInv ==
    /\ EntryAtId /\ InboxCarriesId /\ RepliesCarryId /\ FromIssued
    /\ RoutedById /\ LostOnlyByCollision

\* A step that gives no call an id.
IdsKept ==
    /\ callId' = callId
    /\ \A c \in Calls : pc'[c] = "idle" <=> pc[c] = "idle"

\* The conjuncts about the call table and the results.
TableInv == EntryAtId /\ FromIssued /\ RoutedById /\ LostOnlyByCollision

\* The conjuncts about what is in flight.
WireInv == InboxCarriesId /\ RepliesCarryId

-----------------------------------------------------------------------------
(* The call table.                                                         *)

\* A reply's result names a call, and the client's errors name none.
LEMMA FromTyped ==
    ASSUME IInv
    PROVE  \A c \in Calls : \A k \in 1 .. Len(results[c]) :
               results[c][k].from \in Calls \cup {None}
<1>1. results \in [Calls -> Seq(Outcome)]
  BY DEF IInv, TypeOK
<1>2. SUFFICES ASSUME NEW c \in Calls, NEW k \in 1 .. Len(results[c])
               PROVE  results[c][k].from \in Calls \cup {None}
  OBVIOUS
<1>3. results[c][k] \in Outcome
  BY <1>1
<1>4. QED
  BY <1>3 DEF Outcome

LEMMA TableFrame ==
    ASSUME IInv, HInv, IdsKept,
           pending' = pending, results' = results, life' = life
    PROVE  TableInv'
<1>1. results \in [Calls -> Seq(Outcome)]
  BY DEF IInv, TypeOK
<1>2. \A c \in Calls : Issued(c)' = Issued(c)
  BY DEF IdsKept, Issued
<1>3. EntryAtId'
  BY DEF HInv, IdsKept, EntryAtId
<1>4. FromIssued'
  BY <1>2, FromTyped DEF HInv, FromIssued
<1>5. RoutedById'
  BY DEF HInv, IdsKept, RoutedById
<1>6. LostOnlyByCollision'
  BY <1>2 DEF HInv, IdsKept, LostOnlyByCollision, Owned
<1>7. QED
  BY <1>3, <1>4, <1>5, <1>6 DEF TableInv

\* maybe_call_handler for id i with an outcome that is an error of the
\* client or a reply for a call that took id i.
LEMMA MaybeCallHandlerTable ==
    ASSUME IInv, HInv, IdsKept, NEW i \in Ids, NEW out \in Outcome,
           out.from = None \/ (Issued(out.from) /\ callId[out.from] = i),
           MaybeCallHandler(i, out), life' = life
    PROVE  TableInv'
<1>1. CASE i \in DOMAIN pending
  <2>0. PICK e : e = pending[i]
    OBVIOUS
  <2>1. /\ pending' = Erase(pending, i)
        /\ results' = [results EXCEPT ![e] = Append(@, out)]
    BY <1>1, <2>0 DEF MaybeCallHandler
  <2>2. e \in Calls /\ callId[e] = i /\ Issued(e)
    BY <1>1, <2>0 DEF IInv, TypeOK, HInv, EntryAtId, OwnedUnanswered, Issued
  <2>3. results \in [Calls -> Seq(Outcome)]
    BY DEF IInv, TypeOK
  <2>4. \A c \in Calls : \A k \in 1 .. Len(results'[c]) :
            \/ k \in 1 .. Len(results[c]) /\ results'[c][k] = results[c][k]
            \/ c = e /\ results'[c][k] = out
    <3> SUFFICES ASSUME NEW c \in Calls, NEW k \in 1 .. Len(results'[c])
                 PROVE  \/ k \in 1 .. Len(results[c]) /\ results'[c][k] = results[c][k]
                        \/ c = e /\ results'[c][k] = out
      OBVIOUS
    <3>1. CASE c = e
      <4>1. results'[c] = Append(results[c], out) /\ results[c] \in Seq(Outcome)
        BY <2>1, <2>2, <2>3, <3>1
      <4>2. QED
        BY <4>1, <3>1
    <3>2. CASE c # e
      BY <2>1, <2>3, <3>2
    <3>3. QED
      BY <3>1, <3>2
  <2>5. EntryAtId'
    BY <2>1 DEF EntryAtId, HInv, IdsKept, Erase
  <2>6. FromIssued'
    <3>1. \A x \in Calls : Issued(x)' = Issued(x)
      BY DEF IdsKept, Issued
    <3>2. out.from # None => out.from \in Calls
      BY DEF Outcome
    <3>3. QED
      BY <2>4, <3>1, <3>2, FromTyped DEF FromIssued, HInv
  <2>7. RoutedById'
    BY <2>2, <2>4 DEF RoutedById, HInv, IdsKept
  <2>8. LostOnlyByCollision'
    <3> SUFFICES ASSUME NEW c \in Calls, Issued(c)'
                 PROVE  \/ results'[c] # <<>>
                        \/ Owned(c)'
                        \/ \E d \in Calls \ {c} : Issued(d)' /\ callId'[d] = callId'[c]
                        \/ life' = "torndown"
      BY DEF LostOnlyByCollision
    <3>1. Issued(c)
      BY DEF IdsKept, Issued
    <3>2. results[c] # <<>> => results'[c] # <<>>
      BY <2>1, <2>2, <2>3
    <3>3. results'[e] # <<>>
      BY <2>1, <2>2, <2>3
    <3>4. Owned(c) => c = e \/ Owned(c)'
      BY <2>0, <2>1 DEF Owned, Erase
    <3>5. (\E d \in Calls \ {c} : Issued(d) /\ callId[d] = callId[c])
            => \E d \in Calls \ {c} : Issued(d)' /\ callId'[d] = callId'[c]
      BY DEF IdsKept, Issued
    <3>6. QED
      BY <3>1, <3>2, <3>3, <3>4, <3>5 DEF HInv, LostOnlyByCollision
  <2>9. QED
    BY <2>5, <2>6, <2>7, <2>8 DEF TableInv
<1>2. CASE i \notin DOMAIN pending
  BY <1>2, TableFrame DEF MaybeCallHandler
<1>3. QED
  BY <1>1, <1>2

LEMMA CallTable ==
    ASSUME IInv, HInv, NEW c \in Calls, Call(c)
    PROVE  TableInv'
<1>1. /\ pc[c] = "idle" /\ results[c] = <<>>
      /\ callId' = [callId EXCEPT ![c] = nextId]
      /\ pc' = [pc EXCEPT ![c] = "issued"]
      /\ pending' = IF nextId \in DOMAIN pending THEN pending
                    ELSE Insert(pending, nextId, c)
      /\ results' = results /\ life' = life
  BY DEF Call, IInv, IdleUnanswered
<1>2. /\ callId \in [Calls -> Ids \cup {None}]
      /\ pc \in [Msgs -> {"idle", "issued", "writing", "done"}]
      /\ c \in Msgs /\ Calls \subseteq Msgs
      /\ pending \in [DOMAIN pending -> Calls]
  BY DEF IInv, TypeOK, Msgs
\* The calls issued before keep their ids and stay issued.
<1>3. \A x \in Calls : Issued(x) => x # c /\ Issued(x)' /\ callId'[x] = callId[x]
  BY <1>1, <1>2 DEF Issued
<1>4. \A i \in DOMAIN pending : Issued(pending[i])
  BY DEF IInv, OwnedUnanswered, Issued
<1>5. EntryAtId'
  <2> SUFFICES ASSUME NEW i \in DOMAIN pending' PROVE callId'[pending'[i]] = i
    BY DEF EntryAtId
  <2>1. CASE nextId \in DOMAIN pending
    <3>1. i \in DOMAIN pending /\ pending'[i] = pending[i]
      BY <1>1, <2>1
    <3>2. pending[i] \in Calls /\ Issued(pending[i]) /\ callId[pending[i]] = i
      BY <1>2, <1>4, <3>1 DEF HInv, EntryAtId
    <3>3. QED
      BY <1>3, <3>1, <3>2
  <2>2. CASE nextId \notin DOMAIN pending
    <3>1. pending' = Insert(pending, nextId, c)
      BY <1>1, <2>2
    <3>2. CASE i = nextId
      <4>1. pending'[i] = c
        BY <3>1, <3>2 DEF Insert
      <4>2. QED
        BY <1>1, <1>2, <3>2, <4>1
    <3>3. CASE i # nextId
      <4>1. i \in DOMAIN pending /\ pending'[i] = pending[i]
        BY <3>1, <3>3 DEF Insert
      <4>2. pending[i] \in Calls /\ Issued(pending[i]) /\ callId[pending[i]] = i
        BY <1>2, <1>4, <4>1 DEF HInv, EntryAtId
      <4>3. QED
        BY <1>3, <4>1, <4>2
    <3>4. QED
      BY <3>2, <3>3
  <2>3. QED
    BY <2>1, <2>2
<1>6. \A x \in Calls : results[x] # <<>> => Issued(x)
  BY DEF IInv, IdleUnanswered, Issued
<1>7. FromIssued'
  BY <1>1, <1>3, FromTyped DEF FromIssued, HInv
<1>8. RoutedById'
  BY <1>1, <1>3, <1>6 DEF RoutedById, FromIssued, HInv
<1>9. LostOnlyByCollision'
  <2> SUFFICES ASSUME NEW x \in Calls, Issued(x)'
               PROVE  \/ results'[x] # <<>>
                      \/ Owned(x)'
                      \/ \E d \in Calls \ {x} : Issued(d)' /\ callId'[d] = callId'[x]
                      \/ life' = "torndown"
    BY DEF LostOnlyByCollision
  <2>1. CASE x = c /\ nextId \in DOMAIN pending
    <3>1. PICK e : e = pending[nextId]
      OBVIOUS
    <3>2. e \in Calls /\ Issued(e) /\ callId[e] = nextId
      BY <1>2, <1>4, <2>1, <3>1 DEF HInv, EntryAtId
    <3>3. e # c /\ Issued(e)' /\ callId'[e] = callId'[c]
      BY <1>1, <1>2, <1>3, <3>2
    <3>4. QED
      BY <2>1, <3>2, <3>3
  <2>2. CASE x = c /\ nextId \notin DOMAIN pending
    BY <1>1, <1>2, <2>2 DEF Owned, Insert
  <2>3. CASE x # c
    <3>1. Issued(x)
      BY <1>1, <1>2, <2>3 DEF Issued
    <3>2. Owned(x) => Owned(x)'
      BY <1>1 DEF Owned, Insert
    <3>3. (\E d \in Calls \ {x} : Issued(d) /\ callId[d] = callId[x])
            => \E d \in Calls \ {x} : Issued(d)' /\ callId'[d] = callId'[x]
      BY <1>3, <3>1
    <3>4. QED
      BY <1>1, <3>1, <3>2, <3>3 DEF HInv, LostOnlyByCollision
  <2>4. QED
    BY <2>1, <2>2, <2>3
<1>10. QED
  BY <1>5, <1>7, <1>8, <1>9 DEF TableInv

\* ~client: the table is destroyed; either io_ was stopped first, or every
\* issued call had been answered.
LEMMA DestroyTable ==
    ASSUME IInv, HInv, FixtureTeardown \/ DestroyWhenAnswered
    PROVE  TableInv'
<1>1. /\ pending' = [i \in {} |-> None] /\ results' = results
      /\ callId' = callId /\ pc' = pc
  BY DEF FixtureTeardown, DestroyWhenAnswered, DestroyClient
<1>2. EntryAtId'
  BY <1>1 DEF EntryAtId
<1>3. FromIssued' /\ RoutedById'
  BY <1>1 DEF HInv, FromIssued, RoutedById, Issued
<1>4. LostOnlyByCollision'
  <2>1. CASE FixtureTeardown
    BY <1>1, <2>1 DEF FixtureTeardown, LostOnlyByCollision
  <2>2. CASE DestroyWhenAnswered
    BY <1>1, <2>2 DEF DestroyWhenAnswered, LostOnlyByCollision, Issued
  <2>3. QED
    BY <2>1, <2>2
<1>5. QED
  BY <1>2, <1>3, <1>4 DEF TableInv

-----------------------------------------------------------------------------
(* What is in flight.                                                      *)

\* Steps that take requests out of the server's inbox and replies off the
\* wire, and add at most a malformed message.
LEMMA InboxShrink ==
    ASSUME IInv, HInv, IdsKept, srvInbox' \subseteq srvInbox
    PROVE  InboxCarriesId'
<1>1. \A q \in srvInbox : q.call \in Calls
  BY DEF IInv, TypeOK
<1>2. QED
  BY <1>1 DEF HInv, InboxCarriesId, IdsKept, Issued

LEMMA RepliesShrink ==
    ASSUME IInv, HInv, IdsKept, Carried' \ Stray \subseteq Carried
    PROVE  RepliesCarryId'
<1>1. \A r \in Carried : r \notin Stray => r.call \in Calls
  BY DEF IInv, TypeOK, Carried, Response
<1>2. SUFFICES ASSUME NEW r \in Carried', r \notin Stray
               PROVE  Issued(r.call)' /\ r.id = callId'[r.call]
  BY DEF RepliesCarryId, CarriesId
<1>3. r \in Carried /\ CarriesId(r)
  BY <1>2 DEF HInv, RepliesCarryId
<1>4. QED
  BY <1>1, <1>2, <1>3 DEF CarriesId, IdsKept, Issued

LEMMA WireShrink ==
    ASSUME IInv, HInv, IdsKept,
           srvInbox' \subseteq srvInbox, Carried' \ Stray \subseteq Carried
    PROVE  WireInv'
BY InboxShrink, RepliesShrink DEF WireInv

LEMMA CallWire ==
    ASSUME IInv, HInv, NEW c \in Calls, Call(c)
    PROVE  WireInv'
<1>1. /\ pc[c] = "idle"
      /\ callId' = [callId EXCEPT ![c] = nextId]
      /\ pc' = [pc EXCEPT ![c] = "issued"]
      /\ srvInbox' = srvInbox /\ s2c' = s2c /\ rbuf' = rbuf
  BY DEF Call
<1>2. /\ callId \in [Calls -> Ids \cup {None}]
      /\ pc \in [Msgs -> {"idle", "issued", "writing", "done"}]
      /\ Calls \subseteq Msgs
  BY DEF IInv, TypeOK, Msgs
<1>3. \A x \in Calls : Issued(x) => x # c /\ Issued(x)' /\ callId'[x] = callId[x]
  BY <1>1, <1>2 DEF Issued
<1>4. \A q \in srvInbox : q.call \in Calls
  BY DEF IInv, TypeOK
<1>5. \A r \in Carried : r \notin Stray => r.call \in Calls
  BY DEF IInv, TypeOK, Carried, Response
<1>6. InboxCarriesId'
  BY <1>1, <1>3, <1>4 DEF HInv, InboxCarriesId
<1>7. RepliesCarryId'
  BY <1>1, <1>3, <1>5 DEF HInv, RepliesCarryId, CarriesId, Carried
<1>8. QED
  BY <1>6, <1>7 DEF WireInv

\* The server's framer completes a request for the message it holds,
\* which was issued: the request echoes that call's id.
LEMMA SrvRecvWire ==
    ASSUME IInv, HInv, SrvRecv PROVE WireInv'
<1>1. IdsKept /\ s2c' = s2c /\ rbuf' = rbuf
  BY DEF SrvRecv, IdsKept
<1>2. RepliesCarryId'
  <2>1. Carried' \ Stray \subseteq Carried
    BY <1>1 DEF Carried
  <2>2. QED
    BY <1>1, <2>1, RepliesShrink
<1>3. InboxCarriesId'
  <2> PICK seg : seg = Head(c2s)
    OBVIOUS
  <2>1. CASE srvInbox' \subseteq srvInbox
    BY <1>1, <2>1, InboxShrink
  <2>2. CASE ~(srvInbox' \subseteq srvInbox)
    <3>1. /\ seg.part = 2 /\ srvPartial = seg.msg /\ seg.msg \in Calls
          /\ srvInbox' = srvInbox \cup {[id |-> callId[seg.msg], call |-> seg.msg]}
      BY <2>2 DEF SrvRecv, CloseSession
    <3>2. Issued(seg.msg) /\ Issued(seg.msg)'
      <4>1. srvPartial # None
        BY <3>1, MsgsAssumption
      <4>2. Issued(seg.msg)
        BY <3>1, <4>1 DEF IInv, WireIssued, Issued
      <4>3. QED
        BY <1>1, <3>1, <4>2 DEF IdsKept, Issued
    <3>3. \A q \in srvInbox : Issued(q.call)' /\ q.id = callId'[q.call]
      <4>1. \A q \in srvInbox : q.call \in Calls
        BY DEF IInv, TypeOK
      <4>2. QED
        BY <1>1, <4>1 DEF HInv, InboxCarriesId, IdsKept, Issued
    <3>4. QED
      BY <1>1, <3>1, <3>2, <3>3 DEF InboxCarriesId, IdsKept
  <2>3. QED
    BY <2>1, <2>2
<1>4. QED
  BY <1>2, <1>3 DEF WireInv

\* A handler's reply echoes the id of the request it answers.
LEMMA SrvReplyWire ==
    ASSUME IInv, HInv, SrvReply PROVE WireInv'
<1>1. IdsKept /\ rbuf' = rbuf
  BY DEF SrvReply, IdsKept
<1>2. PICK req \in srvInbox, err \in BOOLEAN :
        /\ s2c' = Append(s2c, [id |-> req.id, err |-> err, call |-> req.call])
        /\ srvInbox' = srvInbox \ {req}
  BY DEF SrvReply
<1>3. InboxCarriesId'
  BY <1>1, <1>2, InboxShrink
<1>4. s2c \in Seq(Response \cup Stray)
  BY DEF IInv, TypeOK
<1>5. Carried' = Carried \cup {[id |-> req.id, err |-> err, call |-> req.call]}
  BY <1>1, <1>2, <1>4 DEF Carried
<1>6. req.call \in Calls /\ Issued(req.call) /\ req.id = callId[req.call]
  BY DEF IInv, TypeOK, HInv, InboxCarriesId
<1>7. Issued(req.call)'
  BY <1>1, <1>6 DEF IdsKept, Issued
<1>8. \A r \in Carried : r \notin Stray => r.call \in Calls
  BY DEF IInv, TypeOK, Carried, Response
<1>9. RepliesCarryId'
  BY <1>1, <1>5, <1>6, <1>7, <1>8
  DEF HInv, RepliesCarryId, CarriesId, IdsKept, Issued
<1>10. QED
  BY <1>3, <1>9 DEF WireInv

-----------------------------------------------------------------------------
(* Every step.                                                             *)

\* Only async_call gives a call an id.
LEMMA KeptIds ==
    ASSUME IInv,
           \/ \E n \in Notes : Notify(n)
           \/ \E t \in Timeouts : SetTimeout(t)
           \/ FixtureTeardown \/ DestroyWhenAnswered
           \/ \E c \in Calls : StartWrite(c)
           \/ \E m \in Msgs : WriteSome(m) \/ WriteFail(m)
           \/ \E i \in Ids : TimerExpire(i) \/ TimeoutHandler(i)
           \/ ReadSome \/ ReadFail \/ Dispatch \/ ReadRearm
           \/ SrvRecv \/ SrvReply \/ SrvSendBad \/ Disconnect
    PROVE  IdsKept
<1>1. callId' = callId
  BY DEF Notify, SetTimeout, FixtureTeardown, DestroyWhenAnswered,
         DestroyClient, StartWrite, WriteSome, WriteFail, TimerExpire,
         TimeoutHandler, ReadSome, ReadFail, Dispatch, ReadRearm, SrvRecv,
         SrvReply, SrvSendBad, Disconnect
<1>2. QED
  BY <1>1, IdleKept DEF IdsKept

\* The steps that leave the call table and the results alone: the
\* writes, the timers' expiry, the read chain's failure, and the peer.
LEMMA QuietStep ==
    ASSUME IInv, HInv,
           \/ \E n \in Notes : Notify(n)
           \/ \E t \in Timeouts : SetTimeout(t)
           \/ \E c \in Calls : StartWrite(c)
           \/ \E m \in Msgs : WriteSome(m)
           \/ \E i \in Ids : TimerExpire(i)
           \/ ReadFail \/ ReadRearm
           \/ SrvRecv \/ SrvReply \/ SrvSendBad \/ Disconnect
    PROVE  TableInv' /\ WireInv'
<1>1. IdsKept
  BY KeptIds
<1>2. TableInv'
  <2>1. pending' = pending /\ results' = results /\ life' = life
    BY DEF Notify, SetTimeout, StartWrite, WriteSome, TimerExpire, ReadFail,
           ReadRearm, SrvRecv, SrvReply, SrvSendBad, Disconnect
  <2>2. QED
    BY <1>1, <2>1, TableFrame
<1>3. WireInv'
  <2>1. CASE SrvRecv
    BY <2>1, SrvRecvWire
  <2>2. CASE SrvReply
    BY <2>2, SrvReplyWire
  <2>3. CASE SrvSendBad
    <3>1. PICK b \in Stray :
            s2c' = Append(s2c, b) /\ rbuf' = rbuf /\ srvInbox' = srvInbox
      BY <2>3 DEF SrvSendBad
    <3>2. s2c \in Seq(Response \cup Stray)
      BY DEF IInv, TypeOK
    <3>3. Carried' \ Stray \subseteq Carried
      BY <3>1, <3>2 DEF Carried
    <3>4. QED
      BY <1>1, <3>1, <3>3, WireShrink
  <2>4. CASE Disconnect
    <3>1. s2c' = s2c /\ rbuf' = rbuf /\ srvInbox' = {}
      BY <2>4 DEF Disconnect, CloseSession
    <3>2. QED
      BY <1>1, <3>1, WireShrink DEF Carried
  <2>5. CASE \/ \E n \in Notes : Notify(n)
             \/ \E t \in Timeouts : SetTimeout(t)
             \/ \E c \in Calls : StartWrite(c)
             \/ \E m \in Msgs : WriteSome(m)
             \/ \E i \in Ids : TimerExpire(i)
             \/ ReadFail \/ ReadRearm
    <3>1. s2c' = s2c /\ rbuf' = rbuf /\ srvInbox' = srvInbox
      BY <2>5 DEF Notify, SetTimeout, StartWrite, WriteSome, TimerExpire, ReadFail,
                  ReadRearm
    <3>2. QED
      BY <1>1, <3>1, WireShrink DEF Carried
  <2>6. QED
    BY <2>1, <2>2, <2>3, <2>4, <2>5
<1>4. QED
  BY <1>2, <1>3

\* read_some moves a prefix of what the peer sent into the read buffer.
LEMMA ReadSomeStep ==
    ASSUME IInv, HInv, ReadSome PROVE TableInv' /\ WireInv'
<1>1. IdsKept
  BY KeptIds
<1>2. TableInv'
  BY <1>1, TableFrame DEF ReadSome
<1>3. PICK k \in 1 .. Len(s2c) :
        /\ rbuf = <<>>
        /\ rbuf' = SubSeq(s2c, 1, k)
        /\ s2c' = SubSeq(s2c, k + 1, Len(s2c))
        /\ srvInbox' = srvInbox
  BY DEF ReadSome
<1>4. s2c \in Seq(Response \cup Stray)
  BY DEF IInv, TypeOK
<1>5. /\ \A j \in 1 .. Len(rbuf') : rbuf'[j] \in Carried
      /\ \A j \in 1 .. Len(s2c') : s2c'[j] \in Carried
  BY <1>3, <1>4 DEF Carried
<1>6. Carried' \subseteq Carried
  BY <1>5 DEF Carried
<1>7. QED
  BY <1>1, <1>2, <1>3, <1>6, WireShrink

\* A write handler's error outcome names no reply.
LEMMA WriteFailStep ==
    ASSUME IInv, HInv, NEW m \in Msgs, WriteFail(m) PROVE TableInv' /\ WireInv'
<1>1. IdsKept
  BY KeptIds
<1>2. WireInv'
  BY <1>1, WireShrink DEF WriteFail, Carried
<1>3. CASE m \in Calls
  <2>1. MaybeCallHandler(callId[m], [ec |-> "write_error", from |-> None])
        /\ life' = life
    BY <1>3 DEF WriteFail
  <2>2. callId[m] \in Ids
    <3>1. pc[m] # "idle"
      BY DEF WriteFail
    <3>2. QED
      BY <1>3, <3>1 DEF IInv, IssuedIds
  <2>3. /\ [ec |-> "write_error", from |-> None] \in Outcome
        /\ [ec |-> "write_error", from |-> None].from = None
    BY DEF Outcome
  <2>4. TableInv'
    BY <1>1, <2>1, <2>2, <2>3, MaybeCallHandlerTable
  <2>5. QED
    BY <1>2, <2>4
<1>4. CASE m \notin Calls
  <2>1. TableInv'
    BY <1>1, <1>4, TableFrame DEF WriteFail
  <2>2. QED
    BY <1>2, <2>1
<1>5. QED
  BY <1>3, <1>4

\* A timer's outcome names no reply.
LEMMA TimeoutHandlerStep ==
    ASSUME IInv, HInv, NEW i \in Ids, TimeoutHandler(i)
    PROVE  TableInv' /\ WireInv'
<1>1. IdsKept
  BY KeptIds
<1>2. WireInv'
  BY <1>1, WireShrink DEF TimeoutHandler, Carried
<1>3. /\ [ec |-> "timeout", from |-> None] \in Outcome
      /\ [ec |-> "timeout", from |-> None].from = None
  BY DEF Outcome
<1>4. TableInv'
  BY <1>1, <1>3, MaybeCallHandlerTable DEF TimeoutHandler
<1>5. QED
  BY <1>2, <1>4

\* The read handler routes the reply at the head of the buffer by the id
\* it carries, which is the id of the call that made the request.
LEMMA DispatchStep ==
    ASSUME IInv, HInv, Dispatch PROVE TableInv' /\ WireInv'
<1>1. IdsKept /\ life' = life
  BY KeptIds DEF Dispatch
<1>2. PICK r : r = Head(rbuf)
  OBVIOUS
<1>3. rbuf # <<>> /\ rbuf \in Seq(Response \cup Stray)
  BY DEF Dispatch, IInv, TypeOK
<1>4. r \in Carried /\ r \in Response \cup Stray
  BY <1>2, <1>3 DEF Carried
<1>5. \A j \in 1 .. Len(Tail(rbuf)) : Tail(rbuf)[j] \in Carried
  BY <1>3 DEF Carried
<1>7. CASE /\ CloseConnection /\ rbuf' = Tail(rbuf)
           /\ UNCHANGED <<pending, armed, results, rstate>>
  <2>1. /\ pending' = pending /\ results' = results
        /\ srvInbox' = {} /\ s2c' = <<>> /\ rbuf' = Tail(rbuf)
    BY <1>7 DEF CloseConnection, CloseSession
  <2>2. Carried' \subseteq Carried
    BY <1>5, <2>1 DEF Carried
  <2>3. QED
    BY <1>1, <2>1, <2>2, TableFrame, WireShrink
<1>8. CASE /\ rbuf' = <<>>
           /\ UNCHANGED <<pending, armed, results, c2s, s2c, connected,
                          srvPartial, srvInbox>>
  BY <1>1, <1>8, TableFrame, WireShrink DEF Carried
<1>9. CASE /\ r \notin Stray
           /\ MaybeCallHandler(r.id, ReplyOutcome(r)) /\ rbuf' = Tail(rbuf)
           /\ UNCHANGED <<rstate, c2s, s2c, connected, srvPartial, srvInbox>>
  <2>3. r.id \in Ids /\ ReplyOutcome(r) \in Outcome
    BY <1>4, <1>9 DEF Response, Outcome, ReplyOutcome
  <2>4. Issued(r.call) /\ callId[r.call] = r.id
    BY <1>4, <1>9 DEF HInv, RepliesCarryId, CarriesId
  <2>5. ReplyOutcome(r).from = r.call
    BY DEF ReplyOutcome
  <2>6. TableInv'
    BY <1>1, <1>9, <2>3, <2>4, <2>5, MaybeCallHandlerTable
  <2>7. Carried' \subseteq Carried
    BY <1>5, <1>9 DEF Carried
  <2>8. QED
    BY <1>1, <1>9, <2>6, <2>7, WireShrink
<1>10. QED
  BY <1>2, <1>7, <1>8, <1>9 DEF Dispatch

\* The client's destructor empties the table and closes the socket.
LEMMA DestroyStep ==
    ASSUME IInv, HInv, FixtureTeardown \/ DestroyWhenAnswered
    PROVE  TableInv' /\ WireInv'
<1>1. IdsKept
  BY KeptIds
<1>2. srvInbox' = {} /\ s2c' = <<>> /\ rbuf' = rbuf
  BY DEF FixtureTeardown, DestroyWhenAnswered, DestroyClient,
         CloseConnection, CloseSession
<1>3. QED
  BY <1>1, <1>2, DestroyTable, WireShrink DEF Carried

\* The invariant holds in the initial state: nothing is pending, nothing
\* is on the wire and no handler has run.
LEMMA InitHInv == Init => HInv
<1> SUFFICES ASSUME Init PROVE HInv
  OBVIOUS
<1>1. EntryAtId /\ InboxCarriesId /\ RepliesCarryId
  BY DEF Init, EntryAtId, InboxCarriesId, RepliesCarryId, Carried
<1>2. FromIssued /\ RoutedById
  BY DEF Init, FromIssued, RoutedById
<1>3. LostOnlyByCollision
  BY MsgsAssumption DEF Init, LostOnlyByCollision, Issued, Msgs
<1>4. QED
  BY <1>1, <1>2, <1>3 DEF HInv

\* Every step of the client, of the user and of the peer keeps it.
LEMMA NextHInv ==
    ASSUME IInv, HInv, [Next]_vars PROVE HInv'
<1>1. SUFFICES TableInv' /\ WireInv'
  BY DEF HInv, TableInv, WireInv
<1>2. CASE \E c \in Calls : Call(c)
  BY <1>2, CallTable, CallWire
<1>3. CASE FixtureTeardown \/ DestroyWhenAnswered
  BY <1>3, DestroyStep
<1>4. CASE \/ \E n \in Notes : Notify(n)
           \/ \E t \in Timeouts : SetTimeout(t)
           \/ \E c \in Calls : StartWrite(c)
           \/ \E m \in Msgs : WriteSome(m)
           \/ \E i \in Ids : TimerExpire(i)
           \/ ReadFail \/ ReadRearm
           \/ SrvRecv \/ SrvReply \/ SrvSendBad \/ Disconnect
  BY <1>4, QuietStep
<1>5. CASE \E m \in Msgs : WriteFail(m)
  BY <1>5, WriteFailStep
<1>6. CASE \E i \in Ids : TimeoutHandler(i)
  BY <1>6, TimeoutHandlerStep
<1>7. CASE ReadSome
  BY <1>7, ReadSomeStep
<1>8. CASE Dispatch
  BY <1>8, DispatchStep
<1>9. CASE UNCHANGED vars
  BY <1>9 DEF vars, HInv, TableInv, WireInv, EntryAtId, InboxCarriesId,
               RepliesCarryId, Carried, CarriesId, FromIssued, RoutedById,
               LostOnlyByCollision, Issued, Owned
<1>10. QED
  BY <1>2, <1>3, <1>4, <1>5, <1>6, <1>7, <1>8, <1>9
  DEF Next, UserStep, ClientStep

-----------------------------------------------------------------------------
(* The theorems.                                                           *)

\* The routing invariant holds in every reachable state, whatever the
\* constants: the table, the wire and the results agree with the ids.
THEOREM RoutingInvariant == Spec => [](IInv /\ HInv)
<1>1. Init => IInv /\ HInv
  BY InitIInv, InitHInv
<1>2. IInv /\ HInv /\ [Next]_vars => (IInv /\ HInv)'
  BY NextPreserves, NextHInv
<1>3. QED
  BY <1>1, <1>2, PTL DEF Spec

\* Responses are routed by id alone (spec.md 4.5, maybe_call_handler's
\* lookup in pending_): whatever id_ has wrapped to, a completion handler
\* that gets the result of another call's request shares that call's id.
THEOREM RoutingHolds == Spec => []RoutedById
<1>1. IInv /\ HInv => RoutedById
  BY DEF HInv
<1>2. QED
  BY <1>1, RoutingInvariant, PTL

\* A call that async_call has issued is lost only when try_emplace found
\* the entry of another issued call with its id, or when the fixture's
\* teardown destroyed pending_ with io_ stopped.
THEOREM NoLossButCollision == Spec => []LostOnlyByCollision
<1>1. IInv /\ HInv => LostOnlyByCollision
  BY DEF HInv
<1>2. QED
  BY <1>1, RoutingInvariant, PTL

\* With distinct ids, a result that names a request names its own call.
LEMMA RouteFromUnique ==
    ASSUME IInv, HInv, UniqueIds PROVE ResultMatchesRequest
<1> SUFFICES ASSUME NEW c \in Calls, NEW k \in 1 .. Len(results[c]),
                    results[c][k].from # None
             PROVE  results[c][k].from = c
  BY DEF ResultMatchesRequest
<1>1. PICK d : d = results[c][k].from
  OBVIOUS
<1>2. d \in Calls
  BY <1>1, FromTyped
<1>3. Issued(d) /\ callId[d] = callId[c]
  BY <1>1 DEF HInv, FromIssued, RoutedById
<1>4. Issued(c)
  BY DEF IInv, IdleUnanswered, Issued
<1>5. QED
  BY <1>1, <1>2, <1>3, <1>4 DEF UniqueIds

\* With distinct ids and the io_context running, the collision and the
\* teardown cannot account for an issued call.
LEMMA KeptFromUnique ==
    ASSUME HInv, UniqueIds, life # "torndown" PROVE NoLostCall
<1> SUFFICES ASSUME NEW c \in Calls, Issued(c)
             PROVE  results[c] # <<>> \/ Owned(c)
  BY DEF NoLostCall
<1>1. ~\E d \in Calls \ {c} : Issued(d) /\ callId[d] = callId[c]
  BY DEF UniqueIds
<1>2. QED
  BY <1>1 DEF HInv, LostOnlyByCollision

\* While the issued calls hold distinct ids (id_ has not wrapped onto an
\* id still in use), no call's handler gets another call's result.
THEOREM UniqueIdsRouteCorrectly == Spec => [](UniqueIds => ResultMatchesRequest)
<1>1. IInv /\ HInv => (UniqueIds => ResultMatchesRequest)
  BY RouteFromUnique
<1>2. QED
  BY <1>1, RoutingInvariant, PTL

\* While the issued calls hold distinct ids and the io_context runs, every
\* issued call has had its handler invoked or is still owned by an entry of
\* pending_, where a reply, its timer or a write error reaches it.
THEOREM UniqueIdsLoseNothing ==
    Spec => [](UniqueIds /\ life # "torndown" => NoLostCall)
<1>1. IInv /\ HInv => (UniqueIds /\ life # "torndown" => NoLostCall)
  BY KeptFromUnique
<1>2. QED
  BY <1>1, RoutingInvariant, PTL

=============================================================================
