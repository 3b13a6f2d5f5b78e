------------------------------ MODULE Envelope ------------------------------
(***************************************************************************)
(* The Envelope objects of every process, the mementos they are serialised *)
(* to, and the calls application code may make on them.                    *)
(*                                                                         *)
(* An object lives in one process and dies with it; a memento, once made   *)
(* by toJSON, stays in the transport and may be restored any number of     *)
(* times by fromWire (BullMQ redelivers a job whose worker died).  ULIDs   *)
(* are drawn from a counter: what the code relies on is that they differ.  *)
(*                                                                         *)
(* Bounds: ObjectId bounds the live objects, MaxMessages the ULIDs drawn.  *)
(***************************************************************************)
EXTENDS Messages

CONSTANTS
  Origin,        \* the mainApp process: the one that calls createEnvelope
  Workers,       \* the worker processes
  ObjectId,      \* names for live envelope objects
  Bodies,        \* payloads
  Releases,      \* the releases a process may run
  FirstRelease,  \* the one all processes start with
  MaxMessages    \* bound on the messages created

ASSUME ProcessesAssumption == Origin \notin Workers
ASSUME ReleasesAssumption == Releases \subseteq Version /\ FirstRelease \in Releases
ASSUME MaxMessagesAssumption == MaxMessages \in Nat
ASSUME BodiesAssumption ==
  Bodies \cap {"no_body", "error", "version_mismatch", "decode_failure"} = {}

VARIABLES
  release,  \* process -> CURRENT_RELEASE of the code it runs
  env,      \* object name -> envelope, for the live objects
  wire,     \* the mementos made so far
  drawn,    \* the number of ULIDs drawn; the next one is drawn itself
  traces    \* the traces of all messages created, live or not (history)

vars == <<release, env, wire, drawn, traces>>

Processes == {Origin} \cup Workers
NoBody == "no_body"
ErrorBody == "error"
VersionMismatch == "version_mismatch"
DecodeFailure == "decode_failure"
AnyBody == Bodies \cup {NoBody, ErrorBody, VersionMismatch, DecodeFailure}

\* Where the handleWith call on an envelope is.
CallStates == {"none", "running", "replied", "rejected"}

EnvelopeRecord ==
  [process : Processes, trace : Trace, version : Releases, state : MessageLifecycle,
   isError : BOOLEAN, body : AnyBody, call : CallStates]
Memento == [trace : Trace, version : Releases, isError : BOOLEAN, body : AnyBody]

Live == DOMAIN env

\* The live objects and the object o, which holds the envelope e.
WithObject(o, e) == [p \in Live \cup {o} |-> IF p = o THEN e ELSE env[p]]

\* A new outbound envelope of process p.
Awaiting(p, trace, version) ==
  [process |-> p, trace |-> trace, version |-> version, state |-> "AWAITING_PAYLOAD",
   isError |-> FALSE, body |-> NoBody, call |-> "none"]

\* What toJSON makes of an envelope.
MementoOf(e) ==
  [trace |-> e.trace, version |-> e.version, isError |-> e.isError, body |-> e.body]

-----------------------------------------------------------------------------
(***************************************************************************)
(* Actions.  A call whose _assertState fails throws and changes nothing:   *)
(* the assertion is the guard.                                             *)
(***************************************************************************)

Init ==
  /\ release = [p \in Processes |-> FirstRelease]
  /\ env = << >>
  /\ wire = {}
  /\ drawn = 0
  /\ traces = {}

\* createEnvelope without a parent, as RandomArtFlowProducer calls it.
CreateEnvelope(o) ==
  /\ o \notin Live
  /\ drawn < MaxMessages
  /\ env' = WithObject(o, Awaiting(Origin, RootTrace(drawn), release[Origin]))
  /\ traces' = traces \cup {RootTrace(drawn)}
  /\ drawn' = drawn + 1
  /\ UNCHANGED <<release, wire>>

StartReplyingInOwnVersion(o, c) ==  \* mutant: the version of this process
  /\ o \in Live /\ c \notin Live
  /\ env[o].state \in {"HANDLING", "ENCODED"}
  /\ drawn < MaxMessages
  /\ LET trace == ChildTrace(env[o].trace, drawn)
     IN /\ env' = WithObject(c, Awaiting(env[o].process, trace, release[env[o].process]))
        /\ traces' = traces \cup {trace}
  /\ drawn' = drawn + 1
  /\ UNCHANGED <<release, wire>>

\* startReplying with neither workload nor version, as every caller calls it:
\* the child inherits the version of its parent, not of this process.
StartReplying(o, c) ==
  /\ o \in Live /\ c \notin Live
  /\ env[o].state \in {"HANDLING", "ENCODED"}
  /\ drawn < MaxMessages
  /\ LET trace == ChildTrace(env[o].trace, drawn)
     IN /\ env' = WithObject(c, Awaiting(env[o].process, trace, env[o].version))
        /\ traces' = traces \cup {trace}
  /\ drawn' = drawn + 1
  /\ UNCHANGED <<release, wire>>

\* commitBody: a codec that throws leaves the envelope as it was.
CommitBody(o, body) ==
  /\ o \in Live
  /\ env[o].state = "AWAITING_PAYLOAD"
  /\ env' = [env EXCEPT ![o].state = "ENCODED", ![o].body = body]
  /\ UNCHANGED <<release, wire, drawn, traces>>

CommitErrorAgain(o) ==  \* mutant: also after a commit
  /\ o \in Live
  /\ env[o].state \in OutboundStates
  /\ env' = [env EXCEPT ![o].state = "ENCODED", ![o].body = ErrorBody, ![o].isError = TRUE]
  /\ UNCHANGED <<release, wire, drawn, traces>>

CommitError(o) ==
  /\ o \in Live
  /\ env[o].state = "AWAITING_PAYLOAD"
  /\ env' = [env EXCEPT ![o].state = "ENCODED", ![o].body = ErrorBody, ![o].isError = TRUE]
  /\ UNCHANGED <<release, wire, drawn, traces>>

\* toJSON: JSON.stringify of the job data or of the job's return value.
ToJSON(o) ==
  /\ o \in Live
  /\ env[o].state = "ENCODED"
  /\ wire' = wire \cup {MementoOf(env[o])}
  /\ UNCHANGED <<release, env, drawn, traces>>

\* fromWire in process p: the constructor and _accept.  What an INVALID envelope
\* holds is the error that explains it.
FromWire(p, o, w, decodes) ==
  /\ o \notin Live
  /\ w \in wire
  /\ LET st == AcceptedState(release[p], w, decodes)
         body == CASE ~CanHandle(release[p], w.version) -> VersionMismatch
                   [] st = "INVALID" /\ CanHandle(release[p], w.version) -> DecodeFailure
                   [] st # "INVALID" -> w.body
     IN env' = WithObject(o, [process |-> p, trace |-> w.trace, version |-> w.version,
                              state |-> st, isError |-> st # "DECODED_MESSAGE",
                              body |-> body, call |-> "none"])
  /\ UNCHANGED <<release, wire, drawn, traces>>

BeginHandlingOfNothing(o) ==  \* mutant: a state that is none
  /\ o \in Live
  /\ env[o].state = "DECODED_MESSAGE"
  /\ env' = [env EXCEPT ![o].state = "HANDLED"]
  /\ UNCHANGED <<release, wire, drawn, traces>>

BeginHandling(o) ==
  /\ o \in Live
  /\ env[o].state = "DECODED_MESSAGE"
  /\ env' = [env EXCEPT ![o].state = "HANDLING"]
  /\ UNCHANGED <<release, wire, drawn, traces>>

EndHandlingAnytime(o) ==  \* mutant: no state assertion
  /\ o \in Live
  /\ env' = [env EXCEPT ![o].state = "EXHAUSTED"]
  /\ UNCHANGED <<release, wire, drawn, traces>>

EndHandling(o) ==
  /\ o \in Live
  /\ env[o].state = "HANDLING"
  /\ env' = [env EXCEPT ![o].state = "EXHAUSTED"]
  /\ UNCHANGED <<release, wire, drawn, traces>>

\* handleWith up to its await of the handler.
HandleWith(o) ==
  /\ o \in Live
  /\ env[o].state = "DECODED_MESSAGE"
  /\ env' = [env EXCEPT ![o].state = "HANDLING", ![o].call = "running"]
  /\ UNCHANGED <<release, wire, drawn, traces>>

\* The reply handleWith commits under ULID id to the envelope e: what the handler
\* resolved to, or what made it fail.
ReplyTo(e, id, failed, body) ==
  [Awaiting(e.process, ChildTrace(e.trace, id), e.version)
     EXCEPT !.state = "ENCODED", !.isError = failed,
            !.body = IF failed THEN ErrorBody ELSE body]

\* The rest of handleWith, with no await in it: reply, commit, close.  A handler
\* or a codec that throws makes an error reply; when the codec threw, the reply
\* it was committing has drawn a ULID (the first of ids) and is dropped.
HandlerSettles(o, c, body, outcome) ==
  /\ o \in Live /\ c \notin Live
  /\ env[o].call = "running"
  /\ env[o].state = "HANDLING"
  /\ \E id \in drawn .. (drawn + 1) :
       /\ id = drawn <=> outcome # "commit_throws"
       /\ id < MaxMessages
       /\ env' = [WithObject(c, ReplyTo(env[o], id, outcome # "resolved", body))
                    EXCEPT ![o].state = "EXHAUSTED", ![o].call = "replied"]
       /\ traces' = traces \cup {ChildTrace(env[o].trace, i) : i \in drawn .. id}
       /\ drawn' = id + 1
  /\ UNCHANGED <<release, wire>>

RejectsAnytime(o) ==  \* mutant: a rejection that does not close the envelope
  /\ o \in Live
  /\ env[o].call = "running"
  /\ env' = [env EXCEPT ![o].call = "rejected"]
  /\ UNCHANGED <<release, wire, drawn, traces>>

\* A handler that closed its envelope itself: startReplying throws in the try and
\* again in the catch, and the promise handleWith returned rejects.
HandlerClosedIt(o) ==
  /\ o \in Live
  /\ env[o].call = "running"
  /\ env[o].state # "HANDLING"
  /\ env' = [env EXCEPT ![o].call = "rejected"]
  /\ UNCHANGED <<release, wire, drawn, traces>>

\* A process stops and comes back with release r: its objects are gone.  An
\* upgrade brings a later minor, and the recipients are upgraded before their
\* sender (messages/DESIGN.md:27); r = release[p] is a plain crash and restart.
Restart(p, r) ==
  /\ CanHandle(r, release[p])
  /\ p = Origin => \A q \in Workers : CanHandle(release[q], r)
  /\ release' = [release EXCEPT ![p] = r]
  /\ env' = [o \in {q \in Live : env[q].process # p} |-> env[o]]
  /\ UNCHANGED <<wire, drawn, traces>>

Next ==
  \/ \E o \in ObjectId :
       \/ CreateEnvelope(o)
       \/ \E body \in Bodies : CommitBody(o, body)
       \/ CommitError(o)
       \/ ToJSON(o)
       \/ \E p \in Processes, w \in wire, decodes \in BOOLEAN : FromWire(p, o, w, decodes)
       \/ BeginHandling(o)
       \/ EndHandling(o)
       \/ HandleWith(o)
       \/ HandlerClosedIt(o)
  \/ \E o, c \in ObjectId :
       \/ StartReplying(o, c)
       \/ \E body \in Bodies, outcome \in {"resolved", "handler_throws", "commit_throws"} :
            HandlerSettles(o, c, body, outcome)
  \/ \E p \in Processes, r \in Releases : Restart(p, r)

Spec == Init /\ [][Next]_vars

-----------------------------------------------------------------------------
(***************************************************************************)
(* Properties.                                                             *)
(***************************************************************************)

\* The types of the variables.
TypeOK ==
  /\ release \in [Processes -> Releases]
  /\ Live \subseteq ObjectId
  /\ env \in [Live -> EnvelopeRecord]
  /\ wire \in SUBSET Memento
  /\ drawn \in 0 .. MaxMessages
  /\ traces \in SUBSET Trace

\* The traces of a correlation group form one tree: a message other than the root
\* was caused by an earlier message of the same group, so following causationId
\* from any job of a project ends at the project's message, also when a reply is
\* made of a redelivered copy or in a process that did not see the root.
TraceForest ==
  \A t \in traces :
    \/ t = RootTrace(t.messageId)
    \/ /\ t.causationId < t.messageId
       /\ \E parent \in traces :
            /\ parent.messageId = t.causationId
            /\ parent.correlationId = t.correlationId

\* A messageId names one message: all its mementos are the same, and every object
\* restored from one carries the trace and the version it was sent with, however
\* often it was serialised, delivered and handled.
OneMessagePerId ==
  /\ \A w1, w2 \in wire : w1.trace.messageId = w2.trace.messageId => w1 = w2
  /\ \A w \in wire, o \in Live :
       env[o].trace.messageId = w.trace.messageId =>
         env[o].trace = w.trace /\ env[o].version = w.version

\* As long as recipients are upgraded before their sender, no message is refused
\* for its version: replies keep the version of the request they answer, so also
\* an upgraded worker answers in a version the not yet upgraded origin reads.
RollingUpgradeSafe == \A o \in Live : env[o].body # VersionMismatch

\* handleWith rejects only if the handler closed the envelope itself, and however
\* it settles it leaves the envelope exhausted.
SettledIsExhausted ==
  \A o \in Live : env[o].call \in {"replied", "rejected"} => env[o].state = "EXHAUSTED"

\* The strengthening TraceForest rests on: every message live or sent has its
\* trace in the history, and the history holds only ULIDs already drawn, once.
TraceInv ==
  /\ \A t \in traces : t.messageId < drawn
  /\ \A t1, t2 \in traces : t1.messageId = t2.messageId => t1 = t2
  /\ \A o \in Live : env[o].trace \in traces
  /\ \A w \in wire : w.trace \in traces
  /\ TraceForest

\* The strengthening OneMessagePerId rests on: a message has at most one outbound
\* object, which is what was sent if it was sent at all, and each inbound object
\* was restored from a memento.
MessageInv ==
  /\ \A w1, w2 \in wire : w1.trace = w2.trace => w1 = w2
  /\ \A o, q \in Live :
       /\ env[o].state \in OutboundStates /\ env[q].state \in OutboundStates
       /\ env[o].trace = env[q].trace
       => o = q
  /\ \A o \in Live, w \in wire :
       env[o].state \in OutboundStates /\ env[o].trace = w.trace =>
         env[o].state = "ENCODED" /\ MementoOf(env[o]) = w
  /\ \A o \in Live :
       env[o].state \notin OutboundStates =>
         \E w \in wire : w.trace = env[o].trace /\ w.version = env[o].version

\* The strengthening RollingUpgradeSafe rests on: every process can handle every
\* message in flight, and every worker what the origin may send next.
UpgradeInv ==
  /\ \A p \in Processes : CanHandle(release[p], release[Origin])
  /\ \A p \in Processes : \A o \in Live : CanHandle(release[p], env[o].version)
  /\ \A p \in Processes : \A w \in wire : CanHandle(release[p], w.version)
  /\ \A w \in wire : w.body # VersionMismatch
  /\ RollingUpgradeSafe

\* The strengthening SettledIsExhausted and LifecycleAdvances rest on: a running
\* handler's envelope is at most closed early, and an uncommitted one is empty.
CallInv ==
  /\ \A o \in Live : env[o].call = "running" => env[o].state \in ProcessingStates
  /\ \A o \in Live : env[o].state = "AWAITING_PAYLOAD" => env[o].body = NoBody
  /\ SettledIsExhausted

\* The position of a state in its lifecycle, outbound or inbound.
Stage(st) ==
  CASE st \in {"AWAITING_PAYLOAD", "RECEIVED"} -> 0
    [] st \in {"ENCODED", "DECODED_MESSAGE"} -> 1
    [] st = "HANDLING" -> 2
    [] st \in {"EXHAUSTED", "DECODED_ERROR", "INVALID"} -> 3

\* While an object lives its state only advances, on its own side of the
\* lifecycle, and its body never changes once it has one: one copy of a message
\* is handled at most once.
LifecycleAdvances ==
  [][\A o \in Live \cap DOMAIN env' :
       LET old == env[o]  new == env'[o]
       IN /\ old.state = new.state \/ Stage(old.state) < Stage(new.state)
          /\ old.state \in OutboundStates <=> new.state \in OutboundStates
          /\ old.body # NoBody => new.body = old.body]_vars

=============================================================================
