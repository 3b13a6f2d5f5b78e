--------------------------- MODULE EnvelopeProofs ---------------------------
(***************************************************************************)
(* For every number of processes, objects and messages and for any set of  *)
(* releases: traces form trees, an id names one message, a rolling upgrade *)
(* refuses nothing, and an envelope only moves forward in its lifecycle.   *)
(***************************************************************************)
EXTENDS Envelope, TLAPS

-----------------------------------------------------------------------------
(* The types. *)

\* The counter ULIDs are drawn from is a natural number.
LEMMA DrawnIsNat == ASSUME TypeOK PROVE drawn \in Nat
  BY MaxMessagesAssumption DEF TypeOK

\* The traces the two constructors of the code make are well formed.
LEMMA TracesAreTyped ==
  ASSUME NEW id \in Nat
  PROVE  /\ RootTrace(id) \in Trace
         /\ \A parent \in Trace : ChildTrace(parent, id) \in Trace
  BY DEF RootTrace, ChildTrace, Trace

\* A new outbound envelope is well formed.
LEMMA AwaitingIsTyped ==
  ASSUME NEW p \in Processes, NEW t \in Trace, NEW v \in Releases
  PROVE  Awaiting(p, t, v) \in EnvelopeRecord
  BY DEF Awaiting, EnvelopeRecord, MessageLifecycle, OutboundStates, AnyBody, CallStates

\* So is the reply handleWith makes.
LEMMA ReplyIsTyped ==
  ASSUME NEW e \in EnvelopeRecord, NEW id \in Nat, NEW failed \in BOOLEAN, NEW body \in AnyBody
  PROVE  ReplyTo(e, id, failed, body) \in EnvelopeRecord
<1> DEFINE fresh == Awaiting(e.process, ChildTrace(e.trace, id), e.version)
<1>1. fresh \in EnvelopeRecord
  BY TracesAreTyped, AwaitingIsTyped DEF EnvelopeRecord
<1> HIDE DEF fresh
<1>2. [fresh EXCEPT !.state = "ENCODED", !.isError = failed,
                    !.body = IF failed THEN ErrorBody ELSE body] \in EnvelopeRecord
  BY <1>1 DEF EnvelopeRecord, MessageLifecycle, OutboundStates, AnyBody
<1> QED
  BY <1>2 DEF ReplyTo, fresh

\* Adding or replacing an object keeps the objects well formed.
LEMMA WithObjectIsTyped ==
  ASSUME TypeOK, NEW o \in ObjectId, NEW e \in EnvelopeRecord
  PROVE  /\ DOMAIN WithObject(o, e) = Live \cup {o}
         /\ DOMAIN WithObject(o, e) \subseteq ObjectId
         /\ WithObject(o, e) \in [DOMAIN WithObject(o, e) -> EnvelopeRecord]
         /\ WithObject(o, e)[o] = e
         /\ \A p \in Live \ {o} : WithObject(o, e)[p] = env[p]
  BY DEF WithObject, TypeOK, Live

\* A step that adds or replaces an object leaves the objects well formed.
LEMMA StepKeepsObjectsTyped ==
  ASSUME TypeOK, NEW o \in ObjectId, NEW e \in EnvelopeRecord, env' = WithObject(o, e)
  PROVE  DOMAIN env' \subseteq ObjectId /\ env' \in [DOMAIN env' -> EnvelopeRecord]
  BY WithObjectIsTyped

\* Every reachable state is well typed.
THEOREM TypeCorrect == Spec => []TypeOK
<1>1. Init => TypeOK
  <2> SUFFICES ASSUME Init PROVE TypeOK
    OBVIOUS
  <2>1. DOMAIN env = {} /\ env \in [{} -> EnvelopeRecord]
    BY DEF Init
  <2> QED
    BY <2>1, ReleasesAssumption, MaxMessagesAssumption DEF Init, TypeOK, Live
<1>2. TypeOK /\ [Next]_vars => TypeOK'
  <2> SUFFICES ASSUME TypeOK, [Next]_vars PROVE TypeOK'
    OBVIOUS
  <2> USE DEF Live
  <2>1. CASE UNCHANGED vars
    BY <2>1 DEF vars, TypeOK
  <2>2. ASSUME NEW o \in ObjectId, CreateEnvelope(o) PROVE TypeOK'
    <3>1. drawn \in Nat /\ release[Origin] \in Releases /\ Origin \in Processes
      BY DEF TypeOK, Processes
    <3>2. RootTrace(drawn) \in Trace
      BY <3>1, TracesAreTyped
    <3>3. Awaiting(Origin, RootTrace(drawn), release[Origin]) \in EnvelopeRecord
      BY <3>1, <3>2, AwaitingIsTyped
    <3>4. DOMAIN env' \subseteq ObjectId /\ env' \in [DOMAIN env' -> EnvelopeRecord]
      BY <2>2, <3>3, StepKeepsObjectsTyped DEF CreateEnvelope
    <3> QED
      BY <2>2, <3>1, <3>2, <3>4, MaxMessagesAssumption DEF CreateEnvelope, TypeOK
  <2>3. ASSUME NEW o \in ObjectId, NEW c \in ObjectId, StartReplying(o, c) PROVE TypeOK'
    <3> DEFINE t == ChildTrace(env[o].trace, drawn)
    <3>1. drawn \in Nat /\ env[o] \in EnvelopeRecord
      BY <2>3 DEF TypeOK, StartReplying
    <3>2. env[o].trace \in Trace /\ env[o].process \in Processes /\ env[o].version \in Releases
      BY <3>1 DEF EnvelopeRecord
    <3>3. t \in Trace
      BY <3>1, <3>2, TracesAreTyped
    <3>4. Awaiting(env[o].process, t, env[o].version) \in EnvelopeRecord
      BY <3>2, <3>3, AwaitingIsTyped
    <3>5. DOMAIN env' \subseteq ObjectId /\ env' \in [DOMAIN env' -> EnvelopeRecord]
      BY <2>3, <3>4, StepKeepsObjectsTyped DEF StartReplying
    <3> QED
      BY <2>3, <3>1, <3>3, <3>5, MaxMessagesAssumption DEF StartReplying, TypeOK
  <2>4. ASSUME NEW o \in ObjectId, NEW b \in Bodies, CommitBody(o, b) PROVE TypeOK'
    BY <2>4 DEF CommitBody, TypeOK, EnvelopeRecord, AnyBody, MessageLifecycle, OutboundStates
  <2>5. ASSUME NEW o \in ObjectId, CommitError(o) PROVE TypeOK'
    <3>1. o \in DOMAIN env /\ env[o] \in EnvelopeRecord
      BY <2>5 DEF CommitError, TypeOK
    <3>2. [env[o] EXCEPT !.state = "ENCODED", !.body = ErrorBody, !.isError = TRUE]
            \in EnvelopeRecord
      BY <3>1 DEF EnvelopeRecord, AnyBody, MessageLifecycle, OutboundStates
    <3>3. env' = [env EXCEPT ![o] = [env[o] EXCEPT !.state = "ENCODED", !.body = ErrorBody,
                                                   !.isError = TRUE]]
      BY <2>5 DEF CommitError, TypeOK
    <3> QED
      BY <2>5, <3>1, <3>2, <3>3 DEF CommitError, TypeOK
  <2>6. ASSUME NEW o \in ObjectId, ToJSON(o) PROVE TypeOK'
    <3>1. env[o] \in EnvelopeRecord
      BY <2>6 DEF TypeOK, ToJSON
    <3>2. MementoOf(env[o]) \in Memento
      BY <3>1 DEF MementoOf, Memento, EnvelopeRecord
    <3> QED
      BY <2>6, <3>2 DEF ToJSON, TypeOK
  <2>7. ASSUME NEW p \in Processes, NEW o \in ObjectId, NEW w \in wire, NEW d \in BOOLEAN,
               FromWire(p, o, w, d)
        PROVE  TypeOK'
    <3> DEFINE st == AcceptedState(release[p], w, d)
               body == CASE ~CanHandle(release[p], w.version) -> VersionMismatch
                         [] st = "INVALID" /\ CanHandle(release[p], w.version) -> DecodeFailure
                         [] st # "INVALID" -> w.body
               e == [process |-> p, trace |-> w.trace, version |-> w.version, state |-> st,
                     isError |-> st # "DECODED_MESSAGE", body |-> body, call |-> "none"]
    <3>1. w \in Memento
      BY DEF TypeOK
    <3>2. st \in {"INVALID", "DECODED_ERROR", "DECODED_MESSAGE"}
          /\ (~CanHandle(release[p], w.version) => st = "INVALID")
      BY <3>1 DEF AcceptedState, Memento
    <3>3. body \in AnyBody
      BY <3>1, <3>2 DEF AnyBody, Memento
    <3>4. e \in EnvelopeRecord
      BY <3>1, <3>2, <3>3 DEF EnvelopeRecord, Memento, MessageLifecycle, InboundStates, CallStates
    <3>5. env' = WithObject(o, e)
      BY <2>7 DEF FromWire
    <3> HIDE DEF e
    <3>6. DOMAIN env' \subseteq ObjectId /\ env' \in [DOMAIN env' -> EnvelopeRecord]
      BY <3>4, <3>5, StepKeepsObjectsTyped
    <3> QED
      BY <2>7, <3>6 DEF FromWire, TypeOK
  <2>8. ASSUME NEW o \in ObjectId, BeginHandling(o) PROVE TypeOK'
    BY <2>8 DEF BeginHandling, TypeOK, EnvelopeRecord, MessageLifecycle, ProcessingStates
  <2>9. ASSUME NEW o \in ObjectId, EndHandling(o) PROVE TypeOK'
    BY <2>9 DEF EndHandling, TypeOK, EnvelopeRecord, MessageLifecycle, ProcessingStates
  <2>10. ASSUME NEW o \in ObjectId, HandleWith(o) PROVE TypeOK'
    BY <2>10 DEF HandleWith, TypeOK, EnvelopeRecord, MessageLifecycle, ProcessingStates, CallStates
  <2>11. ASSUME NEW o \in ObjectId, HandlerClosedIt(o) PROVE TypeOK'
    BY <2>11 DEF HandlerClosedIt, TypeOK, EnvelopeRecord, CallStates
  <2>12. ASSUME NEW o \in ObjectId, NEW c \in ObjectId, NEW b \in Bodies,
                NEW x \in {"resolved", "handler_throws", "commit_throws"},
                HandlerSettles(o, c, b, x)
         PROVE  TypeOK'
    <3>1. PICK id \in drawn .. (drawn + 1) :
             /\ id < MaxMessages
             /\ env' = [WithObject(c, ReplyTo(env[o], id, x # "resolved", b))
                          EXCEPT ![o].state = "EXHAUSTED", ![o].call = "replied"]
             /\ traces' = traces \cup {ChildTrace(env[o].trace, i) : i \in drawn .. id}
             /\ drawn' = id + 1
      BY <2>12 DEF HandlerSettles
    <3>2. id \in Nat /\ drawn' \in 0 .. MaxMessages
      BY <3>1, DrawnIsNat, MaxMessagesAssumption
    <3>3. env[o] \in EnvelopeRecord
      BY <2>12 DEF TypeOK, HandlerSettles
    <3>4. ReplyTo(env[o], id, x # "resolved", b) \in EnvelopeRecord
      BY <3>2, <3>3, ReplyIsTyped DEF AnyBody
    <3> DEFINE opened == WithObject(c, ReplyTo(env[o], id, x # "resolved", b))
    <3>5. /\ DOMAIN opened = Live \cup {c}
          /\ opened \in [DOMAIN opened -> EnvelopeRecord]
      BY <3>4, WithObjectIsTyped
    <3> HIDE DEF opened
    <3>6. DOMAIN env' \subseteq ObjectId /\ env' \in [DOMAIN env' -> EnvelopeRecord]
      BY <2>12, <3>1, <3>5
         DEF HandlerSettles, TypeOK, opened, EnvelopeRecord, MessageLifecycle, ProcessingStates, CallStates
    <3>7. \A i \in drawn .. id : ChildTrace(env[o].trace, i) \in Trace
      <4>1. \A i \in drawn .. id : i \in Nat
        BY <3>2, DrawnIsNat
      <4> QED
        BY <4>1, <3>3, TracesAreTyped DEF EnvelopeRecord
    <3> QED
      BY <2>12, <3>1, <3>2, <3>6, <3>7 DEF HandlerSettles, TypeOK
  <2>13. ASSUME NEW p \in Processes, NEW r \in Releases, Restart(p, r) PROVE TypeOK'
    BY <2>13 DEF Restart, TypeOK
  <2> QED
    BY <2>1, <2>2, <2>3, <2>4, <2>5, <2>6, <2>7, <2>8, <2>9, <2>10, <2>11, <2>12, <2>13 DEF Next
<1> QED
  BY <1>1, <1>2, PTL DEF Spec

-----------------------------------------------------------------------------
(* What each kind of step does to the objects. *)

\* A commit fills an empty outbound envelope and leaves everything else alone.
LEMMA CommitStep ==
  ASSUME TypeOK, NEW o \in ObjectId, CommitError(o) \/ \E body \in Bodies : CommitBody(o, body)
  PROVE  /\ o \in Live /\ Live' = Live
         /\ env[o].state = "AWAITING_PAYLOAD" /\ env'[o].state = "ENCODED"
         /\ env'[o].body \in Bodies \cup {ErrorBody}
         /\ env'[o].trace = env[o].trace /\ env'[o].version = env[o].version
         /\ env'[o].call = env[o].call
         /\ \A p \in Live \ {o} : env'[p] = env[p]
         /\ UNCHANGED <<release, wire, drawn, traces>>
<1>1. ASSUME CommitError(o)
      PROVE  /\ o \in Live /\ Live' = Live
             /\ env[o].state = "AWAITING_PAYLOAD" /\ env'[o].state = "ENCODED"
             /\ env'[o].body = ErrorBody
             /\ env'[o].trace = env[o].trace /\ env'[o].version = env[o].version
             /\ env'[o].call = env[o].call
             /\ \A p \in Live \ {o} : env'[p] = env[p]
             /\ UNCHANGED <<release, wire, drawn, traces>>
  <2>1. o \in Live /\ env[o] \in EnvelopeRecord
    BY <1>1 DEF CommitError, TypeOK
  <2> DEFINE new == [env[o] EXCEPT !.state = "ENCODED", !.body = ErrorBody, !.isError = TRUE]
  <2>2. /\ new.state = "ENCODED" /\ new.body = ErrorBody /\ new.call = env[o].call
        /\ new.trace = env[o].trace /\ new.version = env[o].version
    BY <2>1 DEF EnvelopeRecord
  <2>3. env' = [env EXCEPT ![o] = new]
    BY <1>1, <2>1 DEF CommitError, TypeOK, Live
  <2> HIDE DEF new
  <2> QED
    BY <1>1, <2>1, <2>2, <2>3 DEF CommitError, TypeOK, Live
<1>2. ASSUME NEW body \in Bodies, CommitBody(o, body)
      PROVE  /\ o \in Live /\ Live' = Live
             /\ env[o].state = "AWAITING_PAYLOAD" /\ env'[o].state = "ENCODED"
             /\ env'[o].body = body
             /\ env'[o].trace = env[o].trace /\ env'[o].version = env[o].version
             /\ env'[o].call = env[o].call
             /\ \A p \in Live \ {o} : env'[p] = env[p]
             /\ UNCHANGED <<release, wire, drawn, traces>>
  <2>1. o \in Live /\ env[o] \in EnvelopeRecord
    BY <1>2 DEF CommitBody, TypeOK
  <2> DEFINE new == [env[o] EXCEPT !.state = "ENCODED", !.body = body]
  <2>2. /\ new.state = "ENCODED" /\ new.body = body /\ new.call = env[o].call
        /\ new.trace = env[o].trace /\ new.version = env[o].version
    BY <2>1 DEF EnvelopeRecord
  <2>3. env' = [env EXCEPT ![o] = new]
    BY <1>2, <2>1 DEF CommitBody, TypeOK, Live
  <2> HIDE DEF new
  <2> QED
    BY <1>2, <2>1, <2>2, <2>3 DEF CommitBody, TypeOK, Live
<1> QED
  BY <1>1, <1>2

\* The four steps of handling move an inbound envelope along its lifecycle and
\* touch neither what it says nor any other object.
LEMMA HandlingStep ==
  ASSUME TypeOK, NEW o \in ObjectId,
         BeginHandling(o) \/ EndHandling(o) \/ HandleWith(o) \/ HandlerClosedIt(o)
  PROVE  /\ o \in Live /\ Live' = Live
         /\ env'[o].trace = env[o].trace /\ env'[o].version = env[o].version
         /\ env'[o].body = env[o].body
         /\ \/ env[o].state = "DECODED_MESSAGE" /\ env'[o].state = "HANDLING"
               /\ env'[o].call \in {env[o].call, "running"}
            \/ env[o].state = "HANDLING" /\ env'[o].state = "EXHAUSTED"
               /\ env'[o].call = env[o].call
            \/ env[o].call = "running" /\ env[o].state # "HANDLING"
               /\ env'[o].state = env[o].state /\ env'[o].call = "rejected"
         /\ \A p \in Live \ {o} : env'[p] = env[p]
         /\ UNCHANGED <<release, wire, drawn, traces>>
<1>1. CASE BeginHandling(o)
  BY <1>1 DEF BeginHandling, TypeOK, Live, EnvelopeRecord
<1>2. CASE EndHandling(o)
  BY <1>2 DEF EndHandling, TypeOK, Live, EnvelopeRecord
<1>3. CASE HandleWith(o)
  BY <1>3 DEF HandleWith, TypeOK, Live, EnvelopeRecord
<1>4. CASE HandlerClosedIt(o)
  BY <1>4 DEF HandlerClosedIt, TypeOK, Live, EnvelopeRecord
<1> QED
  BY <1>1, <1>2, <1>3, <1>4

\* Settling a handler closes its envelope and opens an encoded reply.
LEMMA SettleStep ==
  ASSUME TypeOK, NEW o \in ObjectId, NEW c \in ObjectId, NEW body \in Bodies,
         NEW outcome \in {"resolved", "handler_throws", "commit_throws"},
         HandlerSettles(o, c, body, outcome)
  PROVE  /\ o \in Live /\ c \notin Live /\ Live' = Live \cup {c}
         /\ env[o].state = "HANDLING" /\ env'[o].state = "EXHAUSTED"
         /\ env[o].call = "running" /\ env'[o].call = "replied"
         /\ env'[o].trace = env[o].trace /\ env'[o].version = env[o].version
         /\ env'[o].body = env[o].body
         /\ env'[c].state = "ENCODED" /\ env'[c].call = "none"
         /\ env'[c].body \in Bodies \cup {ErrorBody}
         /\ env'[c].version = env[o].version
         /\ \A p \in Live \ {o} : env'[p] = env[p]
         /\ \E id \in drawn .. (drawn + 1) :
              /\ env'[c].trace = ChildTrace(env[o].trace, id)
              /\ traces' = traces \cup {ChildTrace(env[o].trace, i) : i \in drawn .. id}
              /\ drawn' = id + 1
         /\ UNCHANGED <<release, wire>>
<1> DEFINE reply(id) == ReplyTo(env[o], id, outcome # "resolved", body)
<1>1. PICK id \in drawn .. (drawn + 1) :
           /\ env' = [WithObject(c, reply(id))
                        EXCEPT ![o].state = "EXHAUSTED", ![o].call = "replied"]
           /\ traces' = traces \cup {ChildTrace(env[o].trace, i) : i \in drawn .. id}
           /\ drawn' = id + 1
  BY DEF HandlerSettles
<1>2. id \in Nat
  BY DrawnIsNat
<1>3. o \in Live /\ c \notin Live /\ env[o] \in EnvelopeRecord
  BY DEF HandlerSettles, TypeOK, Live
<1>4. reply(id) \in EnvelopeRecord
  BY <1>2, <1>3, ReplyIsTyped DEF AnyBody
<1>5. /\ reply(id).state = "ENCODED" /\ reply(id).call = "none"
      /\ reply(id).body \in Bodies \cup {ErrorBody}
      /\ reply(id).version = env[o].version
      /\ reply(id).trace = ChildTrace(env[o].trace, id)
  <2> DEFINE fresh == Awaiting(env[o].process, ChildTrace(env[o].trace, id), env[o].version)
  <2>1. /\ fresh.call = "none" /\ fresh.version = env[o].version
        /\ fresh.trace = ChildTrace(env[o].trace, id)
    BY DEF Awaiting
  <2>2. fresh \in EnvelopeRecord
    BY <1>2, <1>3, TracesAreTyped, AwaitingIsTyped DEF EnvelopeRecord
  <2> HIDE DEF fresh
  <2>3. reply(id) = [fresh EXCEPT !.state = "ENCODED", !.isError = (outcome # "resolved"),
                                  !.body = IF outcome # "resolved" THEN ErrorBody ELSE body]
    BY DEF ReplyTo, fresh
  <2> HIDE DEF reply
  <2> QED
    BY <2>1, <2>2, <2>3 DEF EnvelopeRecord
<1> HIDE DEF reply
<1> DEFINE opened == WithObject(c, reply(id))
<1>6. /\ DOMAIN opened = Live \cup {c} /\ opened[c] = reply(id)
      /\ \A p \in Live : opened[p] = env[p]
  <2>1. /\ DOMAIN opened = Live \cup {c} /\ opened[c] = reply(id)
        /\ \A p \in Live \ {c} : opened[p] = env[p]
    BY <1>4, WithObjectIsTyped
  <2> QED
    BY <2>1, <1>3
<1>7. opened \in [DOMAIN opened -> EnvelopeRecord]
  BY <1>4, WithObjectIsTyped
<1> HIDE DEF opened
<1>8. env' = [opened EXCEPT ![o].state = "EXHAUSTED", ![o].call = "replied"]
  BY <1>1 DEF opened
<1>9. /\ DOMAIN env' = Live \cup {c} /\ env'[c] = reply(id)
      /\ \A p \in Live \ {o} : env'[p] = env[p]
      /\ env'[o] = [env[o] EXCEPT !.state = "EXHAUSTED", !.call = "replied"]
  BY <1>3, <1>6, <1>7, <1>8
<1>10. /\ env'[o].state = "EXHAUSTED" /\ env'[o].call = "replied"
       /\ env'[o].trace = env[o].trace /\ env'[o].version = env[o].version
       /\ env'[o].body = env[o].body
  BY <1>3, <1>9 DEF EnvelopeRecord
<1>11. env'[c].trace = ChildTrace(env[o].trace, id)
  BY <1>5, <1>9
<1>12. Live' = Live \cup {c}
  BY <1>9 DEF Live
<1>13. env'[c].state = "ENCODED" /\ env'[c].call = "none" /\ env'[c].version = env[o].version
       /\ env'[c].body \in Bodies \cup {ErrorBody}
  BY <1>5, <1>9
<1>14. env[o].state = "HANDLING" /\ env[o].call = "running" /\ UNCHANGED <<release, wire>>
  BY DEF HandlerSettles
<1>15. \E i \in drawn .. (drawn + 1) :
         /\ env'[c].trace = ChildTrace(env[o].trace, i)
         /\ traces' = traces \cup {ChildTrace(env[o].trace, k) : k \in drawn .. i}
         /\ drawn' = i + 1
  BY <1>1, <1>11
<1> HIDE DEF opened
<1> QED
  BY <1>3, <1>9, <1>10, <1>12, <1>13, <1>14, <1>15

\* Opening an outbound envelope adds an empty object and changes no other.
LEMMA OpenStep ==
  ASSUME TypeOK, NEW c \in ObjectId, c \notin Live,
         NEW p \in Processes, NEW t \in Trace, NEW v \in Releases,
         env' = WithObject(c, Awaiting(p, t, v))
  PROVE  /\ Live' = Live \cup {c}
         /\ env'[c].trace = t /\ env'[c].version = v
         /\ env'[c].state = "AWAITING_PAYLOAD" /\ env'[c].call = "none"
         /\ env'[c].body = NoBody
         /\ \A q \in Live : env'[q] = env[q]
<1> DEFINE e == Awaiting(p, t, v)
<1>1. /\ e.trace = t /\ e.version = v /\ e.state = "AWAITING_PAYLOAD"
      /\ e.call = "none" /\ e.body = NoBody
  BY DEF Awaiting
<1>2. e \in EnvelopeRecord
  BY AwaitingIsTyped
<1> HIDE DEF e
<1>3. /\ DOMAIN WithObject(c, e) = Live \cup {c} /\ WithObject(c, e)[c] = e
      /\ \A q \in Live \ {c} : WithObject(c, e)[q] = env[q]
  BY <1>2, WithObjectIsTyped
<1>4. env' = WithObject(c, e)
  BY DEF e
<1> QED
  BY <1>1, <1>3, <1>4 DEF Live

\* Accepting a memento adds an inbound object with its trace and version; only a
\* memento of a version the process cannot handle makes a version mismatch.
LEMMA AcceptStep ==
  ASSUME TypeOK, NEW p \in Processes, NEW c \in ObjectId, NEW w \in wire, NEW d \in BOOLEAN,
         FromWire(p, c, w, d)
  PROVE  /\ c \notin Live /\ Live' = Live \cup {c}
         /\ env'[c].trace = w.trace /\ env'[c].version = w.version
         /\ env'[c].state \in {"INVALID", "DECODED_ERROR", "DECODED_MESSAGE"}
         /\ env'[c].call = "none"
         /\ CanHandle(release[p], w.version) => env'[c].body \in {w.body, DecodeFailure}
         /\ \A q \in Live : env'[q] = env[q]
         /\ UNCHANGED <<release, wire, drawn, traces>>
<1> DEFINE st == AcceptedState(release[p], w, d)
           body == CASE ~CanHandle(release[p], w.version) -> VersionMismatch
                     [] st = "INVALID" /\ CanHandle(release[p], w.version) -> DecodeFailure
                     [] st # "INVALID" -> w.body
           e == [process |-> p, trace |-> w.trace, version |-> w.version, state |-> st,
                 isError |-> st # "DECODED_MESSAGE", body |-> body, call |-> "none"]
<1>1. w \in Memento
  BY DEF TypeOK
<1>2. st \in {"INVALID", "DECODED_ERROR", "DECODED_MESSAGE"}
      /\ (~CanHandle(release[p], w.version) => st = "INVALID")
  BY <1>1 DEF AcceptedState, Memento
<1>3. body \in AnyBody /\ (CanHandle(release[p], w.version) => body \in {w.body, DecodeFailure})
  BY <1>1, <1>2 DEF AnyBody, Memento
<1> HIDE DEF st, body
<1>4. e \in EnvelopeRecord
  BY <1>1, <1>2, <1>3 DEF EnvelopeRecord, Memento, MessageLifecycle, InboundStates, CallStates
<1>5. /\ e.trace = w.trace /\ e.version = w.version /\ e.state = st /\ e.call = "none"
      /\ e.body = body
  OBVIOUS
<1>6. /\ env' = WithObject(c, e) /\ c \notin Live
      /\ UNCHANGED <<release, wire, drawn, traces>>
  BY DEF FromWire, st, body
<1> HIDE DEF e
<1>7. /\ DOMAIN WithObject(c, e) = Live \cup {c} /\ WithObject(c, e)[c] = e
      /\ \A q \in Live \ {c} : WithObject(c, e)[q] = env[q]
  BY <1>4, WithObjectIsTyped
<1>8. /\ Live' = Live \cup {c} /\ env'[c] = e /\ \A q \in Live : env'[q] = env[q]
  BY <1>6, <1>7 DEF Live
<1> QED
  BY <1>2, <1>3, <1>5, <1>6, <1>8

-----------------------------------------------------------------------------
(* The traces form trees. *)

\* A child drawn next keeps the history a set of trees.
LEMMA ChildKeepsForest ==
  ASSUME TypeOK, TraceInv, NEW o \in Live, NEW last \in Nat, drawn <= last,
         traces' = traces \cup {ChildTrace(env[o].trace, i) : i \in drawn .. last},
         drawn' = last + 1
  PROVE  /\ \A t \in traces' : t.messageId < drawn'
         /\ \A t1, t2 \in traces' : t1.messageId = t2.messageId => t1 = t2
         /\ TraceForest'
<1> DEFINE parent == env[o].trace
           child(i) == ChildTrace(parent, i)
<1>1. drawn \in Nat /\ parent \in traces /\ parent \in Trace /\ parent.messageId < drawn
  BY DrawnIsNat DEF TraceInv, TypeOK
<1>2. \A i \in Nat : /\ child(i).messageId = i /\ child(i).causationId = parent.messageId
                     /\ child(i).correlationId = parent.correlationId
  BY DEF ChildTrace
<1> HIDE DEF parent, child
<1>3. traces' = traces \cup {child(i) : i \in drawn .. last}
  BY DEF parent, child
<1>4. \A t \in traces' : t \in traces \/ \E i \in Nat : drawn <= i /\ i <= last /\ t = child(i)
  BY <1>1, <1>3
<1>5. \A t \in traces : t.messageId < drawn /\ t.messageId \in Nat
  BY DEF TraceInv, TypeOK, Trace
<1>6. \A t \in traces' : t.messageId < drawn'
  BY <1>1, <1>2, <1>4, <1>5
<1>7. \A t1, t2 \in traces' : t1.messageId = t2.messageId => t1 = t2
  <2> SUFFICES ASSUME NEW t1 \in traces', NEW t2 \in traces', t1.messageId = t2.messageId
               PROVE  t1 = t2
    OBVIOUS
  <2>1. CASE t1 \in traces /\ t2 \in traces
    BY <2>1 DEF TraceInv
  <2>2. CASE t1 \notin traces \/ t2 \notin traces
    BY <2>2, <1>1, <1>2, <1>4, <1>5
  <2> QED
    BY <2>1, <2>2
<1>8. TraceForest'
  <2> SUFFICES ASSUME NEW t \in traces'
               PROVE  \/ t = RootTrace(t.messageId)
                      \/ /\ t.causationId < t.messageId
                         /\ \E q \in traces' : /\ q.messageId = t.causationId
                                                /\ q.correlationId = t.correlationId
    BY DEF TraceForest
  <2>1. CASE t \in traces
    BY <2>1, <1>3 DEF TraceInv, TraceForest
  <2>2. CASE t \notin traces
    BY <2>2, <1>1, <1>2, <1>3, <1>4, <1>5
  <2> QED
    BY <2>1, <2>2
<1> QED
  BY <1>6, <1>7, <1>8

\* A step that makes no message keeps TraceInv if each object it leaves or adds
\* has a trace of the history.
LEMMA NoNewTrace ==
  ASSUME TraceInv, UNCHANGED <<drawn, traces>>,
         \A q \in Live' : env'[q].trace \in traces, \A w \in wire' : w.trace \in traces
  PROVE  TraceInv'
  BY DEF TraceInv, TraceForest

\* TraceInv is inductive.
LEMMA TraceInvariant == Spec => []TraceInv
<1>1. Init => TraceInv
  BY DEF Init, TraceInv, TraceForest, Live
<1>2. TypeOK /\ TraceInv /\ [Next]_vars => TraceInv'
  <2> SUFFICES ASSUME TypeOK, TraceInv, [Next]_vars PROVE TraceInv'
    OBVIOUS
  <2>a. /\ \A q \in Live : env[q].trace \in traces
        /\ \A w \in wire : w.trace \in traces
    BY DEF TraceInv
  <2>1. CASE UNCHANGED vars
    BY <2>1, <2>a, NoNewTrace DEF vars, Live
  <2>2. ASSUME NEW o \in ObjectId, CreateEnvelope(o) PROVE TraceInv'
    <3> DEFINE t == RootTrace(drawn)
    <3>1. /\ drawn \in Nat /\ release[Origin] \in Releases /\ Origin \in Processes
          /\ t \in Trace /\ t.messageId = drawn
      BY DrawnIsNat, TracesAreTyped DEF TypeOK, Processes, RootTrace
    <3>2. /\ env' = WithObject(o, Awaiting(Origin, t, release[Origin]))
          /\ o \notin Live /\ traces' = traces \cup {t} /\ drawn' = drawn + 1 /\ wire' = wire
      BY <2>2 DEF CreateEnvelope
    <3>3. t = RootTrace(t.messageId)
      BY <3>1
    <3> HIDE DEF t
    <3>4. /\ Live' = Live \cup {o} /\ env'[o].trace = t /\ \A q \in Live : env'[q] = env[q]
      BY <3>1, <3>2, OpenStep
    <3>5. \A q \in traces : q.messageId < drawn /\ q.messageId \in Nat
      BY DEF TraceInv, TypeOK, Trace
    <3> QED
      BY <2>a, <3>1, <3>2, <3>3, <3>4, <3>5 DEF TraceInv, TraceForest
  <2>3. ASSUME NEW o \in ObjectId, NEW c \in ObjectId, StartReplying(o, c) PROVE TraceInv'
    <3> DEFINE t == ChildTrace(env[o].trace, drawn)
    <3>1. /\ o \in Live /\ c \notin Live /\ drawn \in Nat
          /\ env' = WithObject(c, Awaiting(env[o].process, t, env[o].version))
          /\ traces' = traces \cup {t} /\ drawn' = drawn + 1 /\ wire' = wire
      BY <2>3, DrawnIsNat DEF StartReplying
    <3>2. /\ t \in Trace /\ env[o].process \in Processes /\ env[o].version \in Releases
      BY <3>1, TracesAreTyped DEF TypeOK, EnvelopeRecord
    <3>3. traces' = traces \cup {ChildTrace(env[o].trace, i) : i \in drawn .. drawn}
      <4>1. drawn .. drawn = {drawn}
        BY <3>1
      <4> QED
        BY <4>1, <3>1
    <3>4. t \in traces'
      BY <3>1
    <3> HIDE DEF t
    <3>5. /\ Live' = Live \cup {c} /\ env'[c].trace = t /\ \A q \in Live : env'[q] = env[q]
      BY <3>1, <3>2, OpenStep
    <3>6. /\ \A q \in traces' : q.messageId < drawn'
          /\ \A t1, t2 \in traces' : t1.messageId = t2.messageId => t1 = t2
          /\ TraceForest'
      BY <3>1, <3>3, ChildKeepsForest
    <3> QED
      BY <2>a, <3>1, <3>4, <3>5, <3>6 DEF TraceInv
  <2>4. ASSUME NEW o \in ObjectId, CommitError(o) \/ \E body \in Bodies : CommitBody(o, body)
        PROVE  TraceInv'
    BY <2>4, <2>a, CommitStep, NoNewTrace
  <2>5. ASSUME NEW o \in ObjectId, ToJSON(o) PROVE TraceInv'
    <3>1. \A w \in wire' : w.trace \in traces
      BY <2>5, <2>a DEF ToJSON, MementoOf
    <3> QED
      BY <3>1, <2>5, <2>a, NoNewTrace DEF ToJSON, Live
  <2>6. ASSUME NEW p \in Processes, NEW o \in ObjectId, NEW w \in wire, NEW d \in BOOLEAN,
               FromWire(p, o, w, d)
        PROVE  TraceInv'
    BY <2>6, <2>a, AcceptStep, NoNewTrace
  <2>7. ASSUME NEW o \in ObjectId,
               BeginHandling(o) \/ EndHandling(o) \/ HandleWith(o) \/ HandlerClosedIt(o)
        PROVE  TraceInv'
    BY <2>7, <2>a, HandlingStep, NoNewTrace
  <2>8. ASSUME NEW o \in ObjectId, NEW c \in ObjectId, NEW body \in Bodies,
               NEW outcome \in {"resolved", "handler_throws", "commit_throws"},
               HandlerSettles(o, c, body, outcome)
        PROVE  TraceInv'
    <3>1. /\ o \in Live /\ c \notin Live /\ Live' = Live \cup {c} /\ drawn \in Nat
          /\ env'[o].trace = env[o].trace /\ \A q \in Live \ {o} : env'[q] = env[q]
          /\ wire' = wire
      BY <2>8, SettleStep, DrawnIsNat
    <3>2. PICK id \in drawn .. (drawn + 1) :
             /\ env'[c].trace = ChildTrace(env[o].trace, id)
             /\ traces' = traces \cup {ChildTrace(env[o].trace, i) : i \in drawn .. id}
             /\ drawn' = id + 1
      BY <2>8, SettleStep
    <3>3. id \in Nat /\ drawn <= id
      BY <3>1
    <3>4. id \in drawn .. id
      BY <3>1, <3>3
    <3>5. env'[c].trace \in traces' /\ traces \subseteq traces'
      BY <3>2, <3>4
    <3>6. /\ \A q \in traces' : q.messageId < drawn'
          /\ \A t1, t2 \in traces' : t1.messageId = t2.messageId => t1 = t2
          /\ TraceForest'
      BY <3>1, <3>2, <3>3, ChildKeepsForest
    <3> QED
      BY <2>a, <3>1, <3>5, <3>6 DEF TraceInv
  <2>9. ASSUME NEW p \in Processes, NEW r \in Releases, Restart(p, r) PROVE TraceInv'
    BY <2>9, <2>a, NoNewTrace DEF Restart, Live
  <2> QED
    BY <2>1, <2>2, <2>3, <2>4, <2>5, <2>6, <2>7, <2>8, <2>9 DEF Next
<1> QED
  BY <1>1, <1>2, TypeCorrect, PTL DEF Spec

\* Whatever is created, redelivered, handled, crashed and upgraded, in any order,
\* causationId leads from every message to the root of its correlation group.
THEOREM TracesFormTrees == Spec => []TraceForest
<1>1. TraceInv => TraceForest
  BY DEF TraceInv
<1> QED
  BY <1>1, TraceInvariant, PTL

-----------------------------------------------------------------------------
(* Handlers and lifecycle. *)

\* CallInv is inductive.
LEMMA CallInvariant == Spec => []CallInv
<1>1. Init => CallInv
  BY DEF Init, CallInv, SettledIsExhausted, Live
<1>2. TypeOK /\ CallInv /\ [Next]_vars => CallInv'
  <2> SUFFICES ASSUME TypeOK, CallInv, [Next]_vars PROVE CallInv'
    OBVIOUS
  <2> USE DEF CallInv, SettledIsExhausted, ProcessingStates
  <2>1. CASE UNCHANGED vars
    BY <2>1 DEF vars, Live
  <2>2. ASSUME NEW o \in ObjectId, CreateEnvelope(o) PROVE CallInv'
    <3>1. RootTrace(drawn) \in Trace /\ release[Origin] \in Releases /\ Origin \in Processes
      BY DrawnIsNat, TracesAreTyped DEF TypeOK, Processes
    <3>2. /\ Live' = Live \cup {o} /\ \A q \in Live : env'[q] = env[q]
          /\ env'[o].state = "AWAITING_PAYLOAD" /\ env'[o].call = "none" /\ env'[o].body = NoBody
      BY <2>2, <3>1, OpenStep DEF CreateEnvelope
    <3> QED
      BY <3>2
  <2>3. ASSUME NEW o \in ObjectId, NEW c \in ObjectId, StartReplying(o, c) PROVE CallInv'
    <3>1. /\ o \in Live /\ c \notin Live
          /\ env' = WithObject(c, Awaiting(env[o].process, ChildTrace(env[o].trace, drawn),
                                           env[o].version))
      BY <2>3 DEF StartReplying
    <3>2. /\ ChildTrace(env[o].trace, drawn) \in Trace
          /\ env[o].process \in Processes /\ env[o].version \in Releases
      BY <3>1, DrawnIsNat, TracesAreTyped DEF TypeOK, EnvelopeRecord
    <3>3. /\ Live' = Live \cup {c} /\ \A q \in Live : env'[q] = env[q]
          /\ env'[c].state = "AWAITING_PAYLOAD" /\ env'[c].call = "none" /\ env'[c].body = NoBody
      BY <3>1, <3>2, OpenStep
    <3> QED
      BY <3>3
  <2>4. ASSUME NEW o \in ObjectId, CommitError(o) \/ \E body \in Bodies : CommitBody(o, body)
        PROVE  CallInv'
    <3>1. /\ o \in Live /\ Live' = Live
          /\ env[o].state = "AWAITING_PAYLOAD" /\ env'[o].state = "ENCODED"
          /\ env'[o].call = env[o].call
          /\ \A p \in Live \ {o} : env'[p] = env[p]
      BY <2>4, CommitStep
    <3> QED
      BY <3>1
  <2>5. ASSUME NEW o \in ObjectId, ToJSON(o) PROVE CallInv'
    BY <2>5 DEF ToJSON, Live
  <2>6. ASSUME NEW p \in Processes, NEW o \in ObjectId, NEW w \in wire, NEW d \in BOOLEAN,
               FromWire(p, o, w, d)
        PROVE  CallInv'
    <3>1. /\ Live' = Live \cup {o} /\ env'[o].call = "none" /\ \A q \in Live : env'[q] = env[q]
          /\ env'[o].state \in {"INVALID", "DECODED_ERROR", "DECODED_MESSAGE"}
      BY <2>6, AcceptStep
    <3> QED
      BY <3>1
  <2>7. ASSUME NEW o \in ObjectId,
               BeginHandling(o) \/ EndHandling(o) \/ HandleWith(o) \/ HandlerClosedIt(o)
        PROVE  CallInv'
    BY <2>7, HandlingStep
  <2>8. ASSUME NEW o \in ObjectId, NEW c \in ObjectId, NEW body \in Bodies,
               NEW outcome \in {"resolved", "handler_throws", "commit_throws"},
               HandlerSettles(o, c, body, outcome)
        PROVE  CallInv'
    <3>1. /\ o \in Live /\ Live' = Live \cup {c} /\ env'[o].state = "EXHAUSTED"
          /\ env'[o].call = "replied" /\ env'[c].state = "ENCODED" /\ env'[c].call = "none"
          /\ \A q \in Live \ {o} : env'[q] = env[q]
      BY <2>8, SettleStep
    <3> QED
      BY <3>1
  <2>9. ASSUME NEW p \in Processes, NEW r \in Releases, Restart(p, r) PROVE CallInv'
    BY <2>9 DEF Restart, Live
  <2> QED
    BY <2>1, <2>2, <2>3, <2>4, <2>5, <2>6, <2>7, <2>8, <2>9 DEF Next
<1> QED
  BY <1>1, <1>2, TypeCorrect, PTL DEF Spec

\* However handleWith settles, it leaves the envelope exhausted.
THEOREM SettledEnvelopesAreExhausted == Spec => []SettledIsExhausted
<1>1. CallInv => SettledIsExhausted
  BY DEF CallInv
<1> QED
  BY <1>1, CallInvariant, PTL

\* No step takes a live envelope back in its lifecycle, to the other side of it,
\* or changes a body it already has.
THEOREM LifecyclesAdvance == Spec => LifecycleAdvances
<1> DEFINE A == \A o \in Live \cap DOMAIN env' :
                  LET old == env[o]  new == env'[o]
                  IN /\ old.state = new.state \/ Stage(old.state) < Stage(new.state)
                     /\ old.state \in OutboundStates <=> new.state \in OutboundStates
                     /\ old.body # NoBody => new.body = old.body
<1>1. TypeOK /\ CallInv /\ [Next]_vars => [A]_vars
  <2> SUFFICES ASSUME TypeOK, CallInv, Next PROVE A
    OBVIOUS
  <2>0. ASSUME NEW o \in Live, env'[o].body = env[o].body,
               \/ env[o].state = "DECODED_MESSAGE" /\ env'[o].state = "HANDLING"
               \/ env[o].state = "HANDLING" /\ env'[o].state = "EXHAUSTED"
               \/ env'[o].state = env[o].state,
               \A q \in Live \ {o} : env'[q] = env[q]
        PROVE  A
    BY <2>0 DEF Stage, OutboundStates, Live
  <2>1. ASSUME \A q \in Live \cap Live' : env'[q] = env[q] PROVE A
    BY <2>1 DEF Live
  <2>2. ASSUME NEW o \in ObjectId, CreateEnvelope(o) PROVE A
    <3>1. RootTrace(drawn) \in Trace /\ release[Origin] \in Releases /\ Origin \in Processes
      BY DrawnIsNat, TracesAreTyped DEF TypeOK, Processes
    <3> HIDE DEF A
    <3> QED
      BY <2>1, <2>2, <3>1, OpenStep DEF CreateEnvelope
  <2>3. ASSUME NEW o \in ObjectId, NEW c \in ObjectId, StartReplying(o, c) PROVE A
    <3>1. /\ o \in Live /\ c \notin Live
          /\ env' = WithObject(c, Awaiting(env[o].process, ChildTrace(env[o].trace, drawn),
                                           env[o].version))
      BY <2>3 DEF StartReplying
    <3>2. /\ ChildTrace(env[o].trace, drawn) \in Trace
          /\ env[o].process \in Processes /\ env[o].version \in Releases
      BY <3>1, DrawnIsNat, TracesAreTyped DEF TypeOK, EnvelopeRecord
    <3> HIDE DEF A
    <3> QED
      BY <2>1, <3>1, <3>2, OpenStep
  <2>4. ASSUME NEW o \in ObjectId, CommitError(o) \/ \E body \in Bodies : CommitBody(o, body)
        PROVE  A
    <3>1. /\ o \in Live /\ env[o].state = "AWAITING_PAYLOAD" /\ env'[o].state = "ENCODED"
          /\ \A q \in Live \ {o} : env'[q] = env[q]
      BY <2>4, CommitStep
    <3>2. env[o].state = "AWAITING_PAYLOAD" /\ env'[o].state = "ENCODED" /\ env[o].body = NoBody
      BY <3>1 DEF CallInv
    <3> QED
      BY <3>1, <3>2 DEF Stage, OutboundStates, Live
  <2>5. ASSUME NEW o \in ObjectId, ToJSON(o) PROVE A
    <3> HIDE DEF A
    <3> QED
      BY <2>1, <2>5 DEF ToJSON
  <2>6. ASSUME NEW p \in Processes, NEW o \in ObjectId, NEW w \in wire, NEW d \in BOOLEAN,
               FromWire(p, o, w, d)
        PROVE  A
    <3> HIDE DEF A
    <3> QED
      BY <2>1, <2>6, AcceptStep
  <2>7. ASSUME NEW o \in ObjectId,
               BeginHandling(o) \/ EndHandling(o) \/ HandleWith(o) \/ HandlerClosedIt(o)
        PROVE  A
    <3> HIDE DEF A
    <3> QED
      BY <2>0, <2>7, HandlingStep
  <2>8. ASSUME NEW o \in ObjectId, NEW c \in ObjectId, NEW body \in Bodies,
               NEW outcome \in {"resolved", "handler_throws", "commit_throws"},
               HandlerSettles(o, c, body, outcome)
        PROVE  A
    <3> HIDE DEF A
    <3> QED
      BY <2>0, <2>8, SettleStep
  <2>9. ASSUME NEW p \in Processes, NEW r \in Releases, Restart(p, r) PROVE A
    <3> HIDE DEF A
    <3> QED
      BY <2>1, <2>9 DEF Restart, Live
  <2> HIDE DEF A
  <2> QED
    BY <2>2, <2>3, <2>4, <2>5, <2>6, <2>7, <2>8, <2>9 DEF Next
<1> QED
  BY <1>1, TypeCorrect, CallInvariant, PTL DEF Spec, LifecycleAdvances

-----------------------------------------------------------------------------
(* A message id names one message. *)

\* What opening an envelope does, whichever of the three calls opens it: its
\* trace is new, it holds no memento's trace, and the others keep theirs.
LEMMA FreshTrace ==
  ASSUME TypeOK, TraceInv, NEW t \in Trace, t.messageId >= drawn
  PROVE  /\ \A q \in Live : env[q].trace # t
         /\ \A w \in wire : w.trace # t
<1>1. drawn \in Nat /\ \A u \in traces : u.messageId \in Nat /\ u.messageId < drawn
  BY DrawnIsNat DEF TraceInv, TypeOK, Trace
<1>2. t \notin traces
  BY <1>1 DEF Trace
<1> QED
  BY <1>2 DEF TraceInv

\* A fresh outbound envelope keeps MessageInv.
LEMMA FreshKeepsMessages ==
  ASSUME TypeOK, TraceInv, MessageInv, NEW c, c \notin Live, Live' = Live \cup {c}, wire' = wire,
         env'[c].trace \in Trace, env'[c].trace.messageId >= drawn,
         env'[c].state \in OutboundStates,
         \A q \in Live : /\ env'[q].trace = env[q].trace /\ env'[q].version = env[q].version
                         /\ env'[q] = env[q] \/ (/\ env[q].state \notin OutboundStates
                                                /\ env'[q].state \notin OutboundStates)
  PROVE  MessageInv'
<1>1. /\ \A q \in Live : env[q].trace # env'[c].trace
      /\ \A w \in wire : w.trace # env'[c].trace
  BY FreshTrace
<1>2. \A q \in Live : env'[q].state \in OutboundStates => env'[q] = env[q]
  OBVIOUS
<1>3. \A q \in Live : env'[q].state \notin OutboundStates => env[q].state \notin OutboundStates
  OBVIOUS
<1> QED
  BY <1>1, <1>2, <1>3 DEF MessageInv, MementoOf

\* MessageInv is inductive, given TraceInv.
LEMMA MessageInvariant == Spec => []MessageInv
<1>1. Init => MessageInv
  BY DEF Init, MessageInv, Live
<1>2. TypeOK /\ CallInv /\ TraceInv /\ MessageInv /\ [Next]_vars => MessageInv'
  <2> SUFFICES ASSUME TypeOK, CallInv, TraceInv, MessageInv, [Next]_vars PROVE MessageInv'
    OBVIOUS
  <2>a. drawn \in Nat
    BY DrawnIsNat
  <2>1. CASE UNCHANGED vars
    BY <2>1 DEF vars, MessageInv, Live, MementoOf
  <2>2. ASSUME NEW o \in ObjectId, CreateEnvelope(o) PROVE MessageInv'
    <3> DEFINE t == RootTrace(drawn)
    <3>1. /\ release[Origin] \in Releases /\ Origin \in Processes
          /\ t \in Trace /\ t.messageId = drawn
      BY <2>a, TracesAreTyped DEF TypeOK, Processes, RootTrace
    <3>2. /\ env' = WithObject(o, Awaiting(Origin, t, release[Origin]))
          /\ o \notin Live /\ wire' = wire
      BY <2>2 DEF CreateEnvelope
    <3> HIDE DEF t
    <3>3. /\ Live' = Live \cup {o} /\ env'[o].trace = t /\ env'[o].state = "AWAITING_PAYLOAD"
          /\ \A q \in Live : env'[q] = env[q]
      BY <3>1, <3>2, OpenStep
    <3>4. env'[o].state \in OutboundStates /\ env'[o].trace \in Trace
          /\ env'[o].trace.messageId >= drawn
      BY <3>1, <3>3, <2>a DEF OutboundStates
    <3> QED
      BY <3>2, <3>3, <3>4, FreshKeepsMessages
  <2>3. ASSUME NEW o \in ObjectId, NEW c \in ObjectId, StartReplying(o, c) PROVE MessageInv'
    <3> DEFINE t == ChildTrace(env[o].trace, drawn)
    <3>1. /\ o \in Live /\ c \notin Live /\ wire' = wire
          /\ env' = WithObject(c, Awaiting(env[o].process, t, env[o].version))
      BY <2>3 DEF StartReplying
    <3>2. /\ t \in Trace /\ t.messageId = drawn
          /\ env[o].process \in Processes /\ env[o].version \in Releases
      BY <3>1, <2>a, TracesAreTyped DEF TypeOK, EnvelopeRecord, ChildTrace
    <3> HIDE DEF t
    <3>3. /\ Live' = Live \cup {c} /\ env'[c].trace = t /\ env'[c].state = "AWAITING_PAYLOAD"
          /\ \A q \in Live : env'[q] = env[q]
      BY <3>1, <3>2, OpenStep
    <3>4. env'[c].state \in OutboundStates /\ env'[c].trace \in Trace
          /\ env'[c].trace.messageId >= drawn
      BY <3>2, <3>3, <2>a DEF OutboundStates
    <3> QED
      BY <3>1, <3>3, <3>4, FreshKeepsMessages
  <2>4. ASSUME NEW o \in ObjectId, CommitError(o) \/ \E body \in Bodies : CommitBody(o, body)
        PROVE  MessageInv'
    <3>1. /\ o \in Live /\ Live' = Live /\ wire' = wire
          /\ env[o].state = "AWAITING_PAYLOAD" /\ env'[o].state = "ENCODED"
          /\ env'[o].trace = env[o].trace /\ env'[o].version = env[o].version
          /\ \A p \in Live \ {o} : env'[p] = env[p]
      BY <2>4, CommitStep
    <3>2. env[o].state \in OutboundStates /\ env'[o].state \in OutboundStates
      BY <3>1 DEF OutboundStates
    <3>3. \A w \in wire : w.trace # env[o].trace
      BY <3>1, <3>2 DEF MessageInv
    <3> QED
      BY <3>1, <3>2, <3>3 DEF MessageInv, MementoOf
  <2>5. ASSUME NEW o \in ObjectId, ToJSON(o) PROVE MessageInv'
    <3>1. /\ o \in Live /\ env[o].state = "ENCODED" /\ env' = env /\ Live' = Live
          /\ wire' = wire \cup {MementoOf(env[o])}
      BY <2>5 DEF ToJSON, Live
    <3>2. env[o].state \in OutboundStates /\ MementoOf(env[o]).trace = env[o].trace
      BY <3>1 DEF OutboundStates, MementoOf
    <3>3. \A w \in wire : w.trace = env[o].trace => w = MementoOf(env[o])
      BY <3>1, <3>2 DEF MessageInv
    <3>4. \A w1, w2 \in wire' : w1.trace = w2.trace => w1 = w2
      BY <3>1, <3>2, <3>3 DEF MessageInv
    <3>5. \A q \in Live, w \in wire' :
            env[q].state \in OutboundStates /\ env[q].trace = w.trace =>
              env[q].state = "ENCODED" /\ MementoOf(env[q]) = w
      <4> SUFFICES ASSUME NEW q \in Live, env[q].state \in OutboundStates,
                          env[q].trace = MementoOf(env[o]).trace
                   PROVE  env[q].state = "ENCODED" /\ MementoOf(env[q]) = MementoOf(env[o])
        BY <3>1 DEF MessageInv
      <4>1. q = o
        BY <3>1, <3>2 DEF MessageInv
      <4> QED
        BY <4>1, <3>1
    <3>6. \A q \in Live : env[q].state \notin OutboundStates =>
            \E w \in wire' : w.trace = env[q].trace /\ w.version = env[q].version
      BY <3>1 DEF MessageInv
    <3> QED
      BY <3>1, <3>4, <3>5, <3>6 DEF MessageInv, MementoOf
  <2>6. ASSUME NEW p \in Processes, NEW c \in ObjectId, NEW w \in wire, NEW d \in BOOLEAN,
               FromWire(p, c, w, d)
        PROVE  MessageInv'
    <3>1. /\ c \notin Live /\ Live' = Live \cup {c} /\ wire' = wire
          /\ env'[c].trace = w.trace /\ env'[c].version = w.version
          /\ env'[c].state \in {"INVALID", "DECODED_ERROR", "DECODED_MESSAGE"}
          /\ \A q \in Live : env'[q] = env[q]
      BY <2>6, AcceptStep
    <3>2. env'[c].state \notin OutboundStates
      BY <3>1 DEF OutboundStates
    <3> QED
      BY <3>1, <3>2 DEF MessageInv, MementoOf
  <2>7. ASSUME NEW o \in ObjectId,
               BeginHandling(o) \/ EndHandling(o) \/ HandleWith(o) \/ HandlerClosedIt(o)
        PROVE  MessageInv'
    <3>1. /\ o \in Live /\ Live' = Live /\ wire' = wire
          /\ env'[o].trace = env[o].trace /\ env'[o].version = env[o].version
          /\ env'[o].body = env[o].body
          /\ \/ env[o].state = "DECODED_MESSAGE" /\ env'[o].state = "HANDLING"
             \/ env[o].state = "HANDLING" /\ env'[o].state = "EXHAUSTED"
             \/ env[o].call = "running" /\ env'[o].state = env[o].state
          /\ \A q \in Live \ {o} : env'[q] = env[q]
      BY <2>7, HandlingStep
    <3>2. CASE env[o].state \notin OutboundStates
      <4>1. env'[o].state \notin OutboundStates
        BY <3>1, <3>2 DEF OutboundStates
      <4> QED
        BY <3>1, <3>2, <4>1 DEF MessageInv, MementoOf
    <3>3. CASE env[o].state \in OutboundStates
      BY <3>1, <3>3 DEF CallInv, OutboundStates, ProcessingStates
    <3> QED
      BY <3>2, <3>3
  <2>8. ASSUME NEW o \in ObjectId, NEW c \in ObjectId, NEW body \in Bodies,
               NEW outcome \in {"resolved", "handler_throws", "commit_throws"},
               HandlerSettles(o, c, body, outcome)
        PROVE  MessageInv'
    <3>1. /\ o \in Live /\ c \notin Live /\ Live' = Live \cup {c} /\ wire' = wire
          /\ env[o].state = "HANDLING" /\ env'[o].state = "EXHAUSTED"
          /\ env'[c].state = "ENCODED"
          /\ env'[o].trace = env[o].trace /\ env'[o].version = env[o].version
          /\ \A q \in Live \ {o} : env'[q] = env[q]
      BY <2>8, SettleStep
    <3>2. PICK id \in drawn .. (drawn + 1) : env'[c].trace = ChildTrace(env[o].trace, id)
      BY <2>8, SettleStep
    <3>3. id \in Nat /\ drawn <= id /\ env[o].trace \in Trace
      BY <2>a, <3>1 DEF TypeOK, EnvelopeRecord
    <3>4. /\ env'[c].state \in OutboundStates /\ env[o].state \notin OutboundStates
          /\ env'[o].state \notin OutboundStates
          /\ env'[c].trace \in Trace /\ env'[c].trace.messageId >= drawn
      BY <2>a, <3>1, <3>2, <3>3, TracesAreTyped DEF OutboundStates, ChildTrace
    <3> QED
      BY <3>1, <3>4, FreshKeepsMessages
  <2>9. ASSUME NEW p \in Processes, NEW r \in Releases, Restart(p, r) PROVE MessageInv'
    <3>1. Live' \subseteq Live /\ wire' = wire /\ \A q \in Live' : env'[q] = env[q]
      BY <2>9 DEF Restart, Live
    <3> QED
      BY <3>1 DEF MessageInv, MementoOf
  <2> QED
    BY <2>1, <2>2, <2>3, <2>4, <2>5, <2>6, <2>7, <2>8, <2>9 DEF Next
<1> QED
  BY <1>1, <1>2, TypeCorrect, CallInvariant, TraceInvariant, PTL DEF Spec

\* However often a message is serialised, redelivered and handled, its id stands
\* for one memento, and every object restored from it keeps its trace and version.
THEOREM MessagesHaveOneId == Spec => []OneMessagePerId
<1>1. TypeOK /\ TraceInv /\ MessageInv => OneMessagePerId
  <2> SUFFICES ASSUME TypeOK, TraceInv, MessageInv PROVE OneMessagePerId
    OBVIOUS
  <2>1. \A w1, w2 \in wire : w1.trace.messageId = w2.trace.messageId => w1 = w2
    BY DEF TraceInv, MessageInv
  <2>2. ASSUME NEW w \in wire, NEW o \in Live, env[o].trace.messageId = w.trace.messageId
        PROVE  env[o].trace = w.trace /\ env[o].version = w.version
    <3>1. env[o].trace = w.trace
      BY <2>2 DEF TraceInv
    <3>2. CASE env[o].state \in OutboundStates
      <4>1. MementoOf(env[o]) = w
        BY <3>1, <3>2 DEF MessageInv
      <4> QED
        BY <4>1, <3>1 DEF MementoOf
    <3>3. CASE env[o].state \notin OutboundStates
      BY <3>1, <3>3 DEF MessageInv
    <3> QED
      BY <3>1, <3>2, <3>3
  <2> QED
    BY <2>1, <2>2 DEF OneMessagePerId
<1> QED
  BY <1>1, TypeCorrect, TraceInvariant, MessageInvariant, PTL

-----------------------------------------------------------------------------
(* A rolling upgrade refuses no message. *)

\* canHandle is reflexive and transitive on versions.
LEMMA CanHandleIsPreorder ==
  ASSUME NEW a \in Version, NEW b \in Version, NEW c \in Version
  PROVE  CanHandle(a, a) /\ (CanHandle(a, b) /\ CanHandle(b, c) => CanHandle(a, c))
  BY DEF CanHandle, Version

\* UpgradeInv is inductive.
LEMMA UpgradeInvariant == Spec => []UpgradeInv
<1>1. Init => UpgradeInv
  BY ReleasesAssumption, CanHandleIsPreorder
     DEF Init, UpgradeInv, RollingUpgradeSafe, Live, Processes
<1>2. TypeOK /\ CallInv /\ UpgradeInv /\ [Next]_vars => UpgradeInv'
  <2> SUFFICES ASSUME TypeOK, CallInv, UpgradeInv, [Next]_vars PROVE UpgradeInv'
    OBVIOUS
  <2>a. /\ VersionMismatch \notin Bodies \cup {ErrorBody, NoBody, DecodeFailure}
        /\ Origin \in Processes /\ release[Origin] \in Releases
    BY BodiesAssumption
       DEF VersionMismatch, ErrorBody, NoBody, DecodeFailure, Processes, TypeOK
  <2> DEFINE Handled(v) == \A p \in Processes : CanHandle(release[p], v)
  <2>b. ASSUME UNCHANGED <<release, wire>>,
               \A q \in Live' : Handled(env'[q].version) /\ env'[q].body # VersionMismatch
        PROVE  UpgradeInv'
    BY <2>b DEF UpgradeInv, RollingUpgradeSafe
  <2>c. /\ Handled(release[Origin])
        /\ \A q \in Live : Handled(env[q].version) /\ env[q].body # VersionMismatch
        /\ \A w \in wire : Handled(w.version) /\ w.body # VersionMismatch
    BY DEF UpgradeInv, RollingUpgradeSafe
  <2> HIDE DEF Handled
  <2>1. CASE UNCHANGED vars
    BY <2>1, <2>b, <2>c DEF vars, Live
  <2>2. ASSUME NEW o \in ObjectId, CreateEnvelope(o) PROVE UpgradeInv'
    <3>1. RootTrace(drawn) \in Trace
      BY DrawnIsNat, TracesAreTyped
    <3>2. /\ Live' = Live \cup {o} /\ \A q \in Live : env'[q] = env[q]
          /\ env'[o].version = release[Origin] /\ env'[o].body = NoBody
      BY <2>2, <2>a, <3>1, OpenStep DEF CreateEnvelope
    <3> QED
      BY <2>2, <2>a, <2>b, <2>c, <3>2 DEF CreateEnvelope
  <2>3. ASSUME NEW o \in ObjectId, NEW c \in ObjectId, StartReplying(o, c) PROVE UpgradeInv'
    <3>1. /\ o \in Live /\ c \notin Live /\ UNCHANGED <<release, wire>>
          /\ env' = WithObject(c, Awaiting(env[o].process, ChildTrace(env[o].trace, drawn),
                                           env[o].version))
      BY <2>3 DEF StartReplying
    <3>2. /\ ChildTrace(env[o].trace, drawn) \in Trace
          /\ env[o].process \in Processes /\ env[o].version \in Releases
      BY <3>1, DrawnIsNat, TracesAreTyped DEF TypeOK, EnvelopeRecord
    <3>3. /\ Live' = Live \cup {c} /\ \A q \in Live : env'[q] = env[q]
          /\ env'[c].version = env[o].version /\ env'[c].body = NoBody
      BY <3>1, <3>2, OpenStep
    <3> QED
      BY <2>a, <2>b, <2>c, <3>1, <3>3
  <2>4. ASSUME NEW o \in ObjectId, CommitError(o) \/ \E body \in Bodies : CommitBody(o, body)
        PROVE  UpgradeInv'
    <3>1. /\ o \in Live /\ Live' = Live /\ UNCHANGED <<release, wire>>
          /\ env'[o].body \in Bodies \cup {ErrorBody} /\ env'[o].version = env[o].version
          /\ \A p \in Live \ {o} : env'[p] = env[p]
      BY <2>4, CommitStep
    <3> QED
      BY <2>a, <2>b, <2>c, <3>1
  <2>5. ASSUME NEW o \in ObjectId, ToJSON(o) PROVE UpgradeInv'
    <3>1. /\ o \in Live /\ UNCHANGED <<release, env>> /\ Live' = Live
          /\ wire' = wire \cup {MementoOf(env[o])}
      BY <2>5 DEF ToJSON, Live
    <3>2. MementoOf(env[o]).version = env[o].version /\ MementoOf(env[o]).body = env[o].body
      BY DEF MementoOf
    <3> QED
      BY <3>1, <3>2 DEF UpgradeInv, RollingUpgradeSafe
  <2>6. ASSUME NEW p \in Processes, NEW o \in ObjectId, NEW w \in wire, NEW d \in BOOLEAN,
               FromWire(p, o, w, d)
        PROVE  UpgradeInv'
    <3>1. /\ Live' = Live \cup {o} /\ UNCHANGED <<release, wire>>
          /\ \A q \in Live : env'[q] = env[q]
          /\ env'[o].version = w.version
          /\ CanHandle(release[p], w.version) => env'[o].body \in {w.body, DecodeFailure}
      BY <2>6, AcceptStep
    <3>2. CanHandle(release[p], w.version)
      BY <2>c DEF Handled
    <3> QED
      BY <2>a, <2>b, <2>c, <3>1, <3>2
  <2>7. ASSUME NEW o \in ObjectId,
               BeginHandling(o) \/ EndHandling(o) \/ HandleWith(o) \/ HandlerClosedIt(o)
        PROVE  UpgradeInv'
    <3>1. /\ o \in Live /\ Live' = Live /\ UNCHANGED <<release, wire>>
          /\ env'[o].body = env[o].body /\ env'[o].version = env[o].version
          /\ \A p \in Live \ {o} : env'[p] = env[p]
      BY <2>7, HandlingStep
    <3> QED
      BY <2>b, <2>c, <3>1
  <2>8. ASSUME NEW o \in ObjectId, NEW c \in ObjectId, NEW body \in Bodies,
               NEW outcome \in {"resolved", "handler_throws", "commit_throws"},
               HandlerSettles(o, c, body, outcome)
        PROVE  UpgradeInv'
    <3>1. /\ o \in Live /\ Live' = Live \cup {c} /\ UNCHANGED <<release, wire>>
          /\ env'[o].body = env[o].body /\ env'[o].version = env[o].version
          /\ env'[c].body \in Bodies \cup {ErrorBody} /\ env'[c].version = env[o].version
          /\ \A p \in Live \ {o} : env'[p] = env[p]
      BY <2>8, SettleStep
    <3> QED
      BY <2>a, <2>b, <2>c, <3>1
  <2>9. ASSUME NEW p \in Processes, NEW r \in Releases, Restart(p, r) PROVE UpgradeInv'
    <3>1. /\ CanHandle(r, release[p]) /\ wire' = wire
          /\ release' = [release EXCEPT ![p] = r]
          /\ Live' \subseteq Live /\ \A q \in Live' : env'[q] = env[q]
      BY <2>9 DEF Restart, Live
    <3>2. r \in Version /\ \A q \in Processes : release[q] \in Version /\ release'[q] \in Version
      BY <3>1, ReleasesAssumption DEF TypeOK
    <3>3. ASSUME NEW v \in Version, Handled(v)
          PROVE  \A q \in Processes : CanHandle(release'[q], v)
      BY <3>1, <3>2, <3>3, CanHandleIsPreorder DEF Handled, TypeOK
    <3>4. \A q \in Live' : /\ \A z \in Processes : CanHandle(release'[z], env'[q].version)
                           /\ env'[q].body # VersionMismatch
      BY <2>c, <3>1, <3>3, ReleasesAssumption DEF TypeOK, EnvelopeRecord
    <3>5. \A w \in wire' : /\ \A z \in Processes : CanHandle(release'[z], w.version)
                           /\ w.body # VersionMismatch
      BY <2>c, <3>1, <3>3, ReleasesAssumption DEF TypeOK, Memento
    <3>6. \A q \in Processes : CanHandle(release'[q], release'[Origin])
      <4>1. CASE p = Origin
        <5>1. release'[Origin] = r
          BY <4>1, <3>1, <2>a DEF TypeOK
        <5>2. \A q \in Workers : CanHandle(release[q], r) /\ release'[q] = release[q]
          BY <2>9, <3>1, <4>1, ProcessesAssumption DEF Restart, TypeOK, Processes
        <5> QED
          BY <5>1, <5>2, <3>2, CanHandleIsPreorder DEF Processes
      <4>2. CASE p # Origin
        BY <4>2, <2>a, <2>c, <3>1, <3>2, <3>3 DEF TypeOK
      <4> QED
        BY <4>1, <4>2
    <3> QED
      BY <3>4, <3>5, <3>6 DEF UpgradeInv, RollingUpgradeSafe
  <2> QED
    BY <2>1, <2>2, <2>3, <2>4, <2>5, <2>6, <2>7, <2>8, <2>9 DEF Next
<1> QED
  BY <1>1, <1>2, TypeCorrect, CallInvariant, PTL DEF Spec

\* As long as recipients are upgraded before their sender, no envelope is refused
\* for its version, whatever was in flight during the upgrade.
THEOREM RollingUpgradeRefusesNothing == Spec => []RollingUpgradeSafe
<1>1. UpgradeInv => RollingUpgradeSafe
  BY DEF UpgradeInv
<1> QED
  BY <1>1, UpgradeInvariant, PTL
=============================================================================
