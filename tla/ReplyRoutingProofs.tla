------------------------- MODULE ReplyRoutingProofs -------------------------
(***************************************************************************)
(* Proofs about ReplyRouting, for any number of requests, subscribers, ids *)
(* and replies, and for any assignment of ids to requests.                 *)
(***************************************************************************)
EXTENDS ReplyRouting, TLAPS

\* Who waits, waits for a Subject that has not ended.
WaitersAreOpen ==
  \A r \in Requests, s \in Subscribers :
    sub[<<r, s>>] = "waiting" => subject[r] = "open"

\* WaitersAreReachable, before anybody subscribes too.
OpenIsReachable ==
  \A r \in Requests :
    subject[r] = "open" /\ Alone(r) /\ ~ SomeoneLeft(r) =>
      causationMap[idOf[r]] = r /\ timer[r] = "armed"

IInv == TypeOK /\ EntriesExpire /\ WaitersAreOpen /\ OpenIsReachable

-----------------------------------------------------------------------------
LEMMA InitIInv == Init => IInv
  BY NoRequestAssumption, MaxRepliesAssumption
     DEF Init, IInv, TypeOK, Hearings, Endings, EntriesExpire, WaitersAreOpen, OpenIsReachable

LEMMA RegisterIInv ==
  ASSUME IInv, NEW r \in Requests, Register(r) PROVE IInv'
<1> USE NoRequestAssumption DEF Register, IInv, TypeOK, Hearings, Endings
<1>1. TypeOK'
  OBVIOUS
<1>2. EntriesExpire'
  BY DEF EntriesExpire
<1>3. WaitersAreOpen'
  BY DEF WaitersAreOpen
<1>4. OpenIsReachable'
  BY DEF OpenIsReachable, Alone, SomeoneLeft
<1>5. QED
  BY <1>1, <1>2, <1>3, <1>4

LEMMA SubscribeInTimeIInv ==
  ASSUME IInv, NEW r \in Requests, NEW s \in Subscribers, SubscribeInTime(r, s) PROVE IInv'
<1> USE DEF SubscribeInTime, IInv, TypeOK, Hearings, Endings
<1>1. TypeOK'
  OBVIOUS
<1>2. EntriesExpire'
  BY DEF EntriesExpire
<1>3. WaitersAreOpen'
  BY DEF WaitersAreOpen
<1>4. OpenIsReachable'
  BY DEF OpenIsReachable, Alone, SomeoneLeft
<1>5. QED
  BY <1>1, <1>2, <1>3, <1>4

LEMMA SubscribeLateIInv ==
  ASSUME IInv, NEW r \in Requests, NEW s \in Subscribers, SubscribeLate(r, s) PROVE IInv'
<1> USE NoRequestAssumption DEF SubscribeLate, Finalized, HeardLate, IInv, TypeOK, Hearings, Endings
<1>1. TypeOK'
  OBVIOUS
<1>2. EntriesExpire'
  BY DEF EntriesExpire
<1>3. WaitersAreOpen'
  BY DEF WaitersAreOpen
<1>4. OpenIsReachable'
  <2> SUFFICES ASSUME NEW q \in Requests, subject'[q] = "open", Alone(q)', ~ SomeoneLeft(q)'
               PROVE  causationMap'[idOf'[q]] = q /\ timer'[q] = "armed"
    BY DEF OpenIsReachable
  <2>1. q # r /\ subject[q] = "open"
    OBVIOUS
  <2>2. Alone(q) /\ idOf[q] # idOf[r]
    BY <2>1 DEF Alone
  <2>3. ~ SomeoneLeft(q)
    BY <2>1 DEF SomeoneLeft
  <2>4. causationMap[idOf[q]] = q /\ timer[q] = "armed"
    BY <2>1, <2>2, <2>3 DEF OpenIsReachable
  <2>5. QED
    BY <2>1, <2>2, <2>4
<1>5. QED
  BY <1>1, <1>2, <1>3, <1>4

LEMMA UnsubscribeIInv ==
  ASSUME IInv, NEW r \in Requests, NEW s \in Subscribers, Unsubscribe(r, s) PROVE IInv'
<1> USE NoRequestAssumption DEF Unsubscribe, Finalized, IInv, TypeOK, Hearings, Endings
<1>1. TypeOK'
  OBVIOUS
<1>2. EntriesExpire'
  BY DEF EntriesExpire
<1>3. WaitersAreOpen'
  BY DEF WaitersAreOpen
<1>4. OpenIsReachable'
  BY DEF OpenIsReachable, Alone, SomeoneLeft
<1>5. QED
  BY <1>1, <1>2, <1>3, <1>4

LEMMA FireIInv ==
  ASSUME IInv, NEW r \in Requests, Fire(r) PROVE IInv'
<1> USE NoRequestAssumption DEF Fire, Ended, IInv, TypeOK, Hearings, Endings
<1>1. TypeOK'
  <2>1. CASE causationMap[idOf[r]] = NoRequest
    BY <2>1
  <2>2. CASE causationMap[idOf[r]] # NoRequest /\ subject[r] # "open"
    BY <2>2
  <2>3. CASE causationMap[idOf[r]] # NoRequest /\ subject[r] = "open"
    <3>1. subject' \in [Requests -> {"none", "open"} \cup Endings]
      BY <2>3
    <3>2. sub' \in [Requests \X Subscribers -> Hearings]
      BY <2>3
    <3>3. QED
      BY <2>3, <3>1, <3>2
  <2>4. QED
    BY <2>1, <2>2, <2>3
<1>2. EntriesExpire'
  BY DEF EntriesExpire
<1>3. WaitersAreOpen'
  BY DEF WaitersAreOpen
<1>4. OpenIsReachable'
  BY DEF OpenIsReachable, Alone, SomeoneLeft
<1>5. QED
  BY <1>1, <1>2, <1>3, <1>4

LEMMA DropReplyIInv ==
  ASSUME IInv, NEW i \in Ids, DropReply(i) PROVE IInv'
<1> USE MaxRepliesAssumption
    DEF DropReply, Arrives, IInv, TypeOK, Hearings, Endings
<1>1. TypeOK'
  OBVIOUS
<1>2. EntriesExpire'
  BY DEF EntriesExpire
<1>3. WaitersAreOpen'
  BY DEF WaitersAreOpen
<1>4. OpenIsReachable'
  BY DEF OpenIsReachable, Alone, SomeoneLeft
<1>5. QED
  BY <1>1, <1>2, <1>3, <1>4

LEMMA RouteReplyIInv ==
  ASSUME IInv, NEW i \in Ids, NEW how \in {"answered", "refused"}, RouteReply(i, how)
  PROVE IInv'
<1> DEFINE r == causationMap[i]
<1> USE NoRequestAssumption, MaxRepliesAssumption
    DEF RouteReply, Arrives, Ended, IInv, TypeOK, Hearings, Endings
<1>0. r \in Requests /\ idOf[r] = i /\ subject[r] = "open"
  BY DEF EntriesExpire
<1>1. TypeOK'
  BY <1>0
<1>2. EntriesExpire'
  BY <1>0 DEF EntriesExpire
<1>3. WaitersAreOpen'
  BY <1>0 DEF WaitersAreOpen
<1>4. OpenIsReachable'
  <2> SUFFICES ASSUME NEW q \in Requests, subject'[q] = "open", Alone(q)', ~ SomeoneLeft(q)'
               PROVE  causationMap'[idOf'[q]] = q /\ timer'[q] = "armed"
    BY DEF OpenIsReachable
  <2>1. q # r /\ subject[q] = "open"
    BY <1>0
  <2>2. Alone(q) /\ idOf[q] # i
    BY <1>0, <2>1 DEF Alone
  <2>3. ~ SomeoneLeft(q)
    BY <1>0, <2>1 DEF SomeoneLeft
  <2>4. causationMap[idOf[q]] = q /\ timer[q] = "armed"
    BY <2>1, <2>2, <2>3 DEF OpenIsReachable
  <2>5. QED
    BY <1>0, <2>1, <2>2, <2>4
<1>5. QED
  BY <1>1, <1>2, <1>3, <1>4

LEMMA StepIInv == IInv /\ [Next]_vars => IInv'
<1> SUFFICES ASSUME IInv, [Next]_vars PROVE IInv'
  OBVIOUS
<1>1. CASE UNCHANGED vars
  BY <1>1 DEF vars, IInv, TypeOK, EntriesExpire, WaitersAreOpen, OpenIsReachable,
              Alone, SomeoneLeft
<1>2. CASE \E r \in Requests : Register(r) \/ Fire(r)
  BY <1>2, RegisterIInv, FireIInv
<1>3. CASE \E r \in Requests, s \in Subscribers :
             SubscribeInTime(r, s) \/ SubscribeLate(r, s) \/ Unsubscribe(r, s)
  BY <1>3, SubscribeInTimeIInv, SubscribeLateIInv, UnsubscribeIInv
<1>4. CASE \E i \in Ids :
             DropReply(i) \/ \E how \in {"answered", "refused"} : RouteReply(i, how)
  BY <1>4, DropReplyIInv, RouteReplyIInv
<1>5. QED
  BY <1>1, <1>2, <1>3, <1>4 DEF Next

LEMMA IInvHolds == Spec => []IInv
  BY InitIInv, StepIInv, PTL DEF Spec

-----------------------------------------------------------------------------
(* Type correctness of the pending requests and their timers.              *)
THEOREM TypeCorrect == Spec => []TypeOK
<1>1. IInv => TypeOK
  BY DEF IInv
<1>2. QED
  BY <1>1, IInvHolds, PTL

(* No entry of causationMap outlives its request or its timer.             *)
THEOREM EntriesDoExpire == Spec => []EntriesExpire
<1>1. IInv => EntriesExpire
  BY DEF IInv
<1>2. QED
  BY <1>1, IInvHolds, PTL

(* Who waits under an id of its own, with nobody having left, can still be *)
(* reached by the reply and by the timer.                                  *)
THEOREM WaitersStayReachable == Spec => []WaitersAreReachable
<1>1. IInv => WaitersAreReachable
  BY DEF IInv, WaitersAreOpen, OpenIsReachable, WaitersAreReachable, Waiting
<1>2. QED
  BY <1>1, IInvHolds, PTL

(* Nobody who waits is completed without having heard the value.           *)
THEOREM WaitersDoHear == Spec => WaitersHearTheAnswer
<1> DEFINE Hear == \A rs \in Requests \X Subscribers : sub[rs] = "waiting" => sub'[rs] # "empty"
<1>1. IInv /\ [Next]_vars => [Hear]_vars
  <2> SUFFICES ASSUME IInv, Next PROVE Hear
    OBVIOUS
  <2> USE DEF IInv, TypeOK
  <2>1. CASE \E r \in Requests : Register(r) \/ Fire(r)
    BY <2>1 DEF Register, Fire, Ended
  <2>2. CASE \E r \in Requests, s \in Subscribers :
               SubscribeInTime(r, s) \/ SubscribeLate(r, s) \/ Unsubscribe(r, s)
    BY <2>2 DEF SubscribeInTime, SubscribeLate, Unsubscribe
  <2>3. CASE \E i \in Ids :
               DropReply(i) \/ \E how \in {"answered", "refused"} : RouteReply(i, how)
    BY <2>3 DEF DropReply, RouteReply, Ended
  <2>4. QED
    BY <2>1, <2>2, <2>3 DEF Next
<1>2. QED
  BY <1>1, IInvHolds, PTL DEF Spec, WaitersHearTheAnswer
=============================================================================
