------------------------------ MODULE Messages ------------------------------
(***************************************************************************)
(* The vocabulary of src/messages shared by the modules that exchange      *)
(* envelopes: release versions, trace identifiers, the lifecycle states,   *)
(* and what accepting a wire memento makes of it.                          *)
(***************************************************************************)
EXTENDS Integers

Version == [x : Nat, y : Nat, z : Nat]

\* ReleaseVersion.canHandle: same major, no newer minor.
CanHandle(local, incoming) == local.x = incoming.x /\ local.y >= incoming.y

OutboundStates == {"AWAITING_PAYLOAD", "ENCODED"}
InboundStates == {"RECEIVED", "DECODED_MESSAGE", "DECODED_ERROR", "INVALID"}
ProcessingStates == {"HANDLING", "EXHAUSTED"}
MessageLifecycle == OutboundStates \cup InboundStates \cup ProcessingStates

\* A message that starts a correlation group, and one caused by the parent.
RootTrace(id) == [correlationId |-> id, causationId |-> id, messageId |-> id]
ChildTraceSwapped(parent, id) ==  \* mutant
  [correlationId |-> parent.messageId, causationId |-> parent.correlationId, messageId |-> id]
ChildTrace(parent, id) ==
  [correlationId |-> parent.correlationId, causationId |-> parent.messageId, messageId |-> id]
Trace == [correlationId : Nat, causationId : Nat, messageId : Nat]

\* The state _accept leaves an envelope in that arrived as the memento w, where
\* decodes says whether a codec is registered and its decode returns.
AcceptedState(local, w, decodes) ==
  CASE ~CanHandle(local, w.version) -> "INVALID"
    [] CanHandle(local, w.version) /\ ~decodes -> "INVALID"
    [] CanHandle(local, w.version) /\ decodes /\ w.isError -> "DECODED_ERROR"
    [] CanHandle(local, w.version) /\ decodes /\ ~w.isError -> "DECODED_MESSAGE"
=============================================================================
