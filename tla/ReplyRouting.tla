---------------------------- MODULE ReplyRouting ----------------------------
(***************************************************************************)
(* ReturnQueueRoutingProcessor: a request waits for a reply under its      *)
(* message id, as an rxjs Subject in a map, with a timer.  What            *)
(* registerPendingRequest returns may be subscribed to late, more than     *)
(* once or never.  Nothing here awaits, so each call is one step.  Which   *)
(* request has which message id is chosen at the start: callers are meant  *)
(* to use a fresh one for each, and `Alone` says that they did.            *)
(***************************************************************************)
EXTENDS Naturals

CONSTANTS
  Requests,     \* the calls of registerPendingRequest
  Ids,          \* message ids
  Subscribers,  \* who may subscribe to what such a call returns
  NoRequest,    \* the map has no entry
  MaxReplies    \* bound: replies that arrive for one id

ASSUME NoRequestAssumption == NoRequest \notin Requests
ASSUME MaxRepliesAssumption == MaxReplies \in Nat

VARIABLES
  idOf,          \* request -> its message id, never changes
  causationMap,  \* id -> the request whose Subject is kept under it
  timer,         \* request -> its setTimeout
  subject,       \* request -> state of its Subject
  sub,           \* <<request, subscriber>> -> what the subscriber has heard
  replies        \* id -> replies that have arrived for it

vars == <<idOf, causationMap, timer, subject, sub, replies>>

\* How a Subject ends, and with it those who wait on it.
Endings == {"answered", "refused", "timedOut"}

\* "empty": completed without a value.  "left": unsubscribed while it waited.
Hearings == {"no", "waiting", "empty", "left"} \cup Endings

Alone(r) == \A q \in Requests \ {r} : idOf[q] # idOf[r]
SomeoneLeft(r) == \E s \in Subscribers : sub[<<r, s>>] = "left"
Waiting(r) == {s \in Subscribers : sub[<<r, s>>] = "waiting"}

Init ==
  /\ idOf \in [Requests -> Ids]
  /\ causationMap = [i \in Ids |-> NoRequest]
  /\ timer = [r \in Requests |-> "unset"]
  /\ subject = [r \in Requests |-> "none"]
  /\ sub = [rs \in Requests \X Subscribers |-> "no"]
  /\ replies = [i \in Ids |-> 0]

-----------------------------------------------------------------------------
(* What runs inside a call                                                 *)

\* mutant: the finalizer leaves the entry.
FinalizedKeepingEntry(r) ==
  /\ timer' = [timer EXCEPT ![r] = "off"]
  /\ UNCHANGED causationMap

\* The finalizer of one subscription, for a request that may have others.
Finalized(r) ==
  /\ timer' = [timer EXCEPT ![r] = "off"]
  /\ causationMap' = [causationMap EXCEPT ![idOf[r]] = NoRequest]

\* What a subscriber hears from a Subject that has ended: the value is gone.
HeardLate(how) == IF how = "answered" THEN "empty" ELSE how

\* mutant: complete is called before next.
EndedCompletingFirst(r, how) ==
  IF subject[r] = "open"
  THEN /\ subject' = [subject EXCEPT ![r] = how]
       /\ sub' = [rs \in DOMAIN sub |->
                    IF rs[1] = r /\ sub[rs] = "waiting" THEN HeardLate(how) ELSE sub[rs]]
  ELSE UNCHANGED <<subject, sub>>

\* The Subject of r ends, unless it has already; those who wait hear how.
Ended(r, how) ==
  IF subject[r] = "open"
  THEN /\ subject' = [subject EXCEPT ![r] = how]
       /\ sub' = [rs \in DOMAIN sub |->
                    IF rs[1] = r /\ sub[rs] = "waiting" THEN how ELSE sub[rs]]
  ELSE UNCHANGED <<subject, sub>>

-----------------------------------------------------------------------------
(* The calls                                                               *)

\* mutant: no timer is set.
RegisterUntimed(r) ==
  /\ subject[r] = "none"
  /\ subject' = [subject EXCEPT ![r] = "open"]
  /\ causationMap' = [causationMap EXCEPT ![idOf[r]] = r]
  /\ UNCHANGED <<idOf, timer, sub, replies>>

\* registerPendingRequest, with the replyOn it demands.
Register(r) ==
  /\ subject[r] = "none"
  /\ subject' = [subject EXCEPT ![r] = "open"]
  /\ causationMap' = [causationMap EXCEPT ![idOf[r]] = r]
  /\ timer' = [timer EXCEPT ![r] = "armed"]
  /\ UNCHANGED <<idOf, sub, replies>>

SubscribeInTime(r, s) ==
  /\ subject[r] = "open"
  /\ sub[<<r, s>>] = "no"
  /\ sub' = [sub EXCEPT ![<<r, s>>] = "waiting"]
  /\ UNCHANGED <<idOf, causationMap, timer, subject, replies>>

SubscribeLate(r, s) ==
  /\ subject[r] \in Endings
  /\ sub[<<r, s>>] = "no"
  /\ sub' = [sub EXCEPT ![<<r, s>>] = HeardLate(subject[r])]
  /\ Finalized(r)
  /\ UNCHANGED <<idOf, subject, replies>>

Unsubscribe(r, s) ==
  /\ sub[<<r, s>>] = "waiting"
  /\ sub' = [sub EXCEPT ![<<r, s>>] = "left"]
  /\ Finalized(r)
  /\ UNCHANGED <<idOf, subject, replies>>

\* mutant: the timer only forgets the request.
FireSilently(r) ==
  /\ timer[r] = "armed"
  /\ timer' = [timer EXCEPT ![r] = "off"]
  /\ causationMap' = [causationMap EXCEPT ![idOf[r]] = NoRequest]
  /\ UNCHANGED <<idOf, subject, sub, replies>>

\* mutant: the Subject ends with the status of an error reply.
FireAsReply(r) ==
  /\ timer[r] = "armed"
  /\ timer' = [timer EXCEPT ![r] = "off"]
  /\ IF causationMap[idOf[r]] # NoRequest
     THEN /\ Ended(r, "error")
          /\ causationMap' = [causationMap EXCEPT ![idOf[r]] = NoRequest]
     ELSE UNCHANGED <<causationMap, subject, sub>>
  /\ UNCHANGED <<idOf, replies>>

\* The timer of r.  It asks whether there is an entry, not whose it is.
Fire(r) ==
  /\ timer[r] = "armed"
  /\ timer' = [timer EXCEPT ![r] = "off"]
  /\ IF causationMap[idOf[r]] # NoRequest
     THEN /\ Ended(r, "timedOut")
          /\ causationMap' = [causationMap EXCEPT ![idOf[r]] = NoRequest]
     ELSE UNCHANGED <<causationMap, subject, sub>>
  /\ UNCHANGED <<idOf, replies>>

Arrives(i) ==
  /\ replies[i] < MaxReplies
  /\ replies' = [replies EXCEPT ![i] = @ + 1]

\* process, for a reply nobody waits for: too late, a duplicate, or too early.
DropReply(i) ==
  /\ causationMap[i] = NoRequest
  /\ Arrives(i)
  /\ UNCHANGED <<idOf, causationMap, timer, subject, sub>>

\* process, for a reply to a pending request.  Only the finalizer of a
\* subscription clears the timer, so without one it stays armed.
RouteReply(i, how) ==
  /\ causationMap[i] # NoRequest
  /\ Arrives(i)
  /\ LET r == causationMap[i]
     IN  /\ Ended(r, how)
         /\ timer' = [timer EXCEPT ![r] = IF Waiting(r) = {} THEN @ ELSE "off"]
         /\ causationMap' = [causationMap EXCEPT ![i] = NoRequest]
  /\ UNCHANGED idOf

Next ==
  \/ \E r \in Requests : Register(r) \/ Fire(r)
  \/ \E r \in Requests, s \in Subscribers :
       SubscribeInTime(r, s) \/ SubscribeLate(r, s) \/ Unsubscribe(r, s)
  \/ \E i \in Ids : DropReply(i) \/ \E how \in {"answered", "refused"} : RouteReply(i, how)

\* An armed timer fires: the process lives and its event loop turns.
Spec == Init /\ [][Next]_vars /\ \A r \in Requests : WF_vars(Fire(r))

-----------------------------------------------------------------------------
(* Properties                                                              *)

TypeOK ==
  /\ idOf \in [Requests -> Ids]
  /\ causationMap \in [Ids -> Requests \cup {NoRequest}]
  /\ timer \in [Requests -> {"unset", "armed", "off"}]
  /\ subject \in [Requests -> {"none", "open"} \cup Endings]
  /\ sub \in [Requests \X Subscribers -> Hearings]
  /\ replies \in [Ids -> 0..MaxReplies]

(* The map does not leak: behind each entry there is a pending request of   *)
(* that id and a timer that will remove it, even when ids repeat            *)
(* (ReturnQueueRoutingProcessor.ts:53-76, :113-141).                       *)
EntriesExpire ==
  \A i \in Ids : causationMap[i] # NoRequest =>
    LET r == causationMap[i]
    IN  idOf[r] = i /\ subject[r] = "open" /\ timer[r] = "armed"

(* A subscriber that waits can still be reached by a reply and by the       *)
(* timer, as long as no other request took its id and no other subscriber   *)
(* of the request has left: leaving cancels both for all of them            *)
(* (ReturnQueueRoutingProcessor.ts:56, :71-76).                            *)
WaitersAreReachable ==
  \A r \in Requests :
    Waiting(r) # {} /\ Alone(r) /\ ~ SomeoneLeft(r) =>
      causationMap[idOf[r]] = r /\ subject[r] = "open" /\ timer[r] = "armed"

(* A subscriber that waits when the reply arrives hears it: completing      *)
(* without a value happens only to who subscribes afterwards                *)
(* (ReturnQueueRoutingProcessor.ts:127-137).                               *)
WaitersHearTheAnswer ==
  [][\A rs \in Requests \X Subscribers : sub[rs] = "waiting" => sub'[rs] # "empty"]_vars

(* A subscriber does not wait for ever, whether or not a reply comes, with  *)
(* the two exceptions of WaitersAreReachable                               *)
(* (ReturnQueueRoutingProcessor.ts:55-67).                                 *)
WaitersSettle ==
  \A r \in Requests, s \in Subscribers :
    sub[<<r, s>>] = "waiting" /\ Alone(r) ~> (sub[<<r, s>>] # "waiting" \/ SomeoneLeft(r))
=============================================================================
