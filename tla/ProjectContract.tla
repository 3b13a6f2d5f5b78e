--------------------------- MODULE ProjectContract --------------------------
(***************************************************************************)
(* What a submitted project promises its submitter, whatever happens to    *)
(* the workers: each task is decided once, an answer comes after all of    *)
(* them and counts them right, and a project one of whose jobs failed has  *)
(* no answer.  PaintFlow is shown to implement it.                         *)
(***************************************************************************)
EXTENDS Naturals, FiniteSets

CONSTANT Tasks

VARIABLES
  status,   \* the project as its submitter sees it
  outcome,  \* task -> what became of it
  report    \* the answer

vars == <<status, outcome, report>>

NoReport == [kind |-> "none", numCompleted |-> 0, numFatalErrors |-> 0]
ErrorReport == [NoReport EXCEPT !.kind = "error"]
CountOf(o) == Cardinality({t \in Tasks : outcome[t] = o})

Init ==
  /\ status = "idle"
  /\ outcome = [t \in Tasks |-> "pending"]
  /\ report = NoReport

Submit ==
  /\ status = "idle"
  /\ status' = "running"
  /\ UNCHANGED <<outcome, report>>

Decide(t) ==
  /\ status \in {"running", "lost"}
  /\ outcome[t] = "pending"
  /\ \E o \in {"staged", "failed"} : outcome' = [outcome EXCEPT ![t] = o]
  /\ UNCHANGED <<status, report>>

Lose ==
  /\ status = "running"
  /\ status' = "lost"
  /\ UNCHANGED <<outcome, report>>

Answer ==
  /\ status = "running"
  /\ \A t \in Tasks : outcome[t] # "pending"
  /\ status' = "answered"
  /\ report' \in {ErrorReport,
                  [kind |-> "message", numCompleted |-> CountOf("staged"),
                   numFatalErrors |-> CountOf("failed")]}
  /\ UNCHANGED outcome

Next == Submit \/ (\E t \in Tasks : Decide(t)) \/ Lose \/ Answer

Spec == Init /\ [][Next]_vars
=============================================================================
