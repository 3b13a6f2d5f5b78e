------------------------------ MODULE Pipeline ------------------------------
(***************************************************************************)
(* One call of a pipeline that buildPipeline has made of a list of stages. *)
(* Features compute namespaces of keys that later stages read; steps        *)
(* compute results that only the output reads.  A virtual reserves a place  *)
(* that the feature of its name, declared later, runs in; without such a    *)
(* feature, whatever selects it is pruned.  Expressions that a pipeline's   *)
(* user supplies as data see public names only.                             *)
(*                                                                         *)
(* A value is modelled by the keys it has.  What expressions compute is     *)
(* external: they read keys, and call functions, and throw when the name     *)
(* they read a key of is not there or the one they call is no function; an   *)
(* inner expression is a text that may not parse, or compile to nothing.     *)
(***************************************************************************)
EXTENDS Naturals, Sequences

CONSTANTS
  Names,      \* of namespaces, features, injections, functions and steps
  Keys,       \* of their values
  Whole,      \* in a selector, for a name without a key
  Call,       \* in what an expression reads, for a name that it calls
  Pipelines,  \* the lists of stages a builder can have accumulated
  Inputs,     \* initial inputs: some of the names, with keys
  Selected    \* the result selectors

Selectors == Names \X (Keys \cup {Whole})
Reads == SUBSET (Names \X (Keys \cup {Whole, Call}))

\* What an outer expression may yield: compiled at run time, if it parses.
Text == [form : {"expression", "nothing", "unparsable"}, reads : Reads]

\* A feature's property: what it reads itself, and for an indirect one the
\* texts that its outer expression may yield.
Property ==
  [kind : {"expr", "indirect"}, key : Keys, reads : Reads, inner : SUBSET Text]
    \cup [kind : {"method"}, key : Keys, reads : SUBSET Selectors, inner : {{}}]

\* keys: of the defaults, an injection or a step's result.  shown: who sees a
\* feature or an injection ("some": publicKeys only).  reads: by a step.
Stage == [kind : {"virtual", "initialDefaults", "feature", "step", "injection", "pureFunction"},
          name : Names, keys : SUBSET Keys, reads : SUBSET Selectors,
          props : Seq(Property), shown : {"all", "none", "some"}, publicKeys : SUBSET Keys]

OfKind(stages, kind) == {i \in DOMAIN stages : stages[i].kind = kind}
NamesOf(stages, kind) == {stages[i].name : i \in OfKind(stages, kind)}
IsContext(ctx) == DOMAIN ctx \subseteq Names /\ ctx \in [DOMAIN ctx -> SUBSET Keys]

\* As the builder demands with UnusedKey: a name is used once, and once more for
\* a virtual; after a virtual only for a feature.
UniqueNames(stages) ==
  \A i, j \in DOMAIN stages :
    i < j /\ stages[i].name = stages[j].name =>
      \/ stages[i].kind # "virtual" /\ stages[j].kind = "virtual"
      \/ stages[i].kind = "virtual" /\ stages[j].kind = "feature"

ASSUME NamesAssumption ==
  Whole \notin Keys /\ Call \notin Keys \cup {Whole} /\ Selected \subseteq Selectors
ASSUME InputsAssumption == \A given \in Inputs : IsContext(given)
ASSUME PipelinesAssumption ==
  \A stages \in Pipelines :
    /\ stages \in Seq(Stage)
    /\ UniqueNames(stages)
    /\ \A i \in OfKind(stages, "injection") : stages[i].shown # "some"
    /\ \A given \in Inputs, kind \in {"feature", "injection", "pureFunction", "step"} :
         NamesOf(stages, kind) \cap DOMAIN given = {}

VARIABLES
  stages,       \* of the pipeline that is called
  slot,         \* the stage whose place is next, as declared
  evaluated,    \* how many properties of the feature there are evaluated
  stepCtx,      \* what features and steps read: names and their keys
  exprCtx,      \* what inner expressions read
  stepResultCtx,
  pruned,
  prunedSteps,
  outcome,      \* of the call
  output        \* the result selectors that gave a value

vars == <<stages, slot, evaluated, stepCtx, exprCtx, stepResultCtx,
          pruned, prunedSteps, outcome, output>>

-----------------------------------------------------------------------------
(* The preparation in buildPipeline                                        *)

Virtuals == NamesOf(stages, "virtual")
Fulfilling == {i \in OfKind(stages, "feature") : stages[i].name \in Virtuals}
Unfulfilled == Virtuals \ {stages[i].name : i \in Fulfilling}

\* Some stage runs in this place of the execution order.
KeptWithoutMove(i) ==  \* mutant: fulfilling features stay where they are
  stages[i].kind \in {"feature", "step", "injection", "pureFunction"}
Kept(i) ==
  \/ stages[i].kind = "virtual" /\ stages[i].name \notin Unfulfilled
  \/ stages[i].kind = "feature" /\ i \notin Fulfilling
  \/ stages[i].kind \in {"step", "injection", "pureFunction"}

\* The stage that does: in the place of a virtual, the feature of its name.
At(i) ==
  IF stages[i].kind = "virtual"
  THEN CHOOSE j \in Fulfilling : stages[j].name = stages[i].name
  ELSE i

-----------------------------------------------------------------------------
(* Reading                                                                 *)

Found(sel, ctx) ==
  sel[1] \in DOMAIN ctx /\ (sel[2] # Whole => sel[2] \in ctx[sel[1]])

Selectable(reads) == \A sel \in reads : sel[1] \notin pruned \cup Unfulfilled

Callable(ctx) == NamesOf(stages, "pureFunction") \cap DOMAIN ctx

\* A member of undefined, or a call of what is no function.
Throws(reads, ctx) ==
  \E sel \in reads :
    \/ sel[2] \in Keys /\ sel[1] \notin DOMAIN ctx
    \/ sel[2] = Call /\ sel[1] \notin Callable(ctx)

With(ctx, name, keys) ==
  [n \in DOMAIN ctx \cup {name} |-> IF n = name THEN keys ELSE ctx[n]]

Overlay(under, over) ==
  [n \in DOMAIN under \cup DOMAIN over |-> IF n \in DOMAIN over THEN over[n] ELSE under[n]]

-----------------------------------------------------------------------------
(* A call                                                                  *)

MergedInitial(given) ==
  [n \in DOMAIN given \cup NamesOf(stages, "initialDefaults") |->
     (IF n \in DOMAIN given THEN given[n] ELSE {})
       \cup UNION {stages[i].keys : i \in {j \in OfKind(stages, "initialDefaults") : stages[j].name = n}}]

Injected(shown) ==
  LET those == {i \in OfKind(stages, "injection") : stages[i].shown \in shown}
  IN  [n \in {stages[i].name : i \in those} |->
         stages[CHOOSE i \in those : stages[i].name = n].keys]

PureFunctions == [n \in NamesOf(stages, "pureFunction") |-> {}]

SeededPublicOnly(given) ==  \* mutant: steps are denied private injections
  Overlay(MergedInitial(given), Injected({"all"}))
Seeded(given) == Overlay(MergedInitial(given), Injected({"all", "none"}))

Init ==
  /\ stages \in Pipelines
  /\ \E given \in Inputs :
       /\ stepCtx = Seeded(given)
       /\ exprCtx = Overlay(Overlay(MergedInitial(given), Injected({"all"})), PureFunctions)
  /\ slot = 1 /\ evaluated = 0
  /\ stepResultCtx = [n \in {} |-> {}]
  /\ pruned = {} /\ prunedSteps = {}
  /\ outcome = "running" /\ output = {}

\* The place of a stage that runs now.
Reached(kind) ==
  /\ outcome = "running"
  /\ slot \in DOMAIN stages /\ Kept(slot)
  /\ stages[At(slot)].kind = kind

\* Nothing runs here, or what was seeded before the loop.
Skip ==
  /\ outcome = "running"
  /\ slot \in DOMAIN stages
  /\ Kept(slot) => stages[At(slot)].kind \in {"injection", "pureFunction"}
  /\ slot' = slot + 1
  /\ UNCHANGED <<stages, evaluated, stepCtx, exprCtx, stepResultCtx,
                 pruned, prunedSteps, outcome, output>>

\* The loop is left by an exception; the promise of the call is rejected.
Leave(how) ==
  /\ outcome' = how
  /\ UNCHANGED <<stages, slot, evaluated, stepCtx, exprCtx, stepResultCtx,
                 pruned, prunedSteps, output>>

Step(st) ==
  /\ Reached("step") /\ st = stages[At(slot)]
  /\ IF Selectable(st.reads) /\ \A sel \in st.reads : Found(sel, stepCtx)
     THEN /\ stepResultCtx' = With(stepResultCtx, st.name, st.keys)
          /\ UNCHANGED prunedSteps
     ELSE /\ prunedSteps' = prunedSteps \cup {st.name}
          /\ UNCHANGED stepResultCtx
  /\ slot' = slot + 1
  /\ UNCHANGED <<stages, evaluated, stepCtx, exprCtx, pruned, outcome, output>>

StepRejects(st) ==
  /\ Reached("step") /\ st = stages[At(slot)]
  /\ Selectable(st.reads) /\ \A sel \in st.reads : Found(sel, stepCtx)
  /\ Leave("rejected")

\* The next property of the feature that runs now.
AtProperty(kind, p) ==
  /\ Reached("feature")
  /\ evaluated < Len(stages[At(slot)].props)
  /\ p = stages[At(slot)].props[evaluated + 1]
  /\ p.kind = kind

Evaluate ==
  /\ evaluated' = evaluated + 1
  /\ UNCHANGED <<stages, slot, stepCtx, exprCtx, stepResultCtx,
                 pruned, prunedSteps, outcome, output>>

PruneKeepingPlace ==  \* mutant: the next feature goes on where this one failed
  /\ pruned' = pruned \cup {stages[At(slot)].name}
  /\ slot' = slot + 1
  /\ UNCHANGED <<stages, evaluated, stepCtx, exprCtx, stepResultCtx, prunedSteps, outcome, output>>

\* failed: the properties that are left are not evaluated.
Prune ==
  /\ pruned' = pruned \cup {stages[At(slot)].name}
  /\ slot' = slot + 1 /\ evaluated' = 0
  /\ UNCHANGED <<stages, stepCtx, exprCtx, stepResultCtx, prunedSteps, outcome, output>>

\* An expression runs, synchronously; a function it calls may throw, too.
Run(reads, ctx) ==
  IF Throws(reads, ctx) THEN Leave("threw") ELSE Evaluate \/ Leave("rejected")

Expr(p) == AtProperty("expr", p) /\ Run(p.reads, stepCtx)

Indirect(p) ==
  /\ AtProperty("indirect", p)
  /\ IF Throws(p.reads, stepCtx) THEN Leave("threw")
     ELSE \/ Leave("rejected")
          \/ \E text \in p.inner :
               \/ text.form = "unparsable" /\ Leave("threw")
               \/ text.form = "nothing" /\ Prune
               \/ text.form = "expression" /\ Run(text.reads, exprCtx)

Method(p) ==
  /\ AtProperty("method", p)
  /\ IF \A sel \in p.reads : Found(sel, stepCtx)
     THEN Evaluate \/ Leave("rejected")
     ELSE Prune

KeysOf(st) == {st.props[k].key : k \in DOMAIN st.props}
PublicViewOfAll(st) == KeysOf(st)  \* mutant: private keys are shown, too
PublicView(st) ==
  IF st.shown = "all" THEN KeysOf(st) ELSE KeysOf(st) \cap st.publicKeys

Publish(st) ==
  /\ Reached("feature") /\ st = stages[At(slot)]
  /\ evaluated = Len(st.props)
  /\ stepCtx' = With(stepCtx, st.name, KeysOf(st))
  /\ exprCtx' = IF st.shown = "none" THEN exprCtx ELSE With(exprCtx, st.name, PublicView(st))
  /\ slot' = slot + 1 /\ evaluated' = 0
  /\ UNCHANGED <<stages, stepResultCtx, pruned, prunedSteps, outcome, output>>

ResultCtxOfSteps == Overlay(stepCtx, stepResultCtx)  \* mutant: the wrong context
ResultCtx == Overlay(exprCtx, stepResultCtx)

Finish ==
  /\ outcome = "running" /\ slot > Len(stages)
  /\ output' = {sel \in Selected : /\ sel[1] \notin Unfulfilled \cup pruned \cup prunedSteps
                                   /\ Found(sel, ResultCtx)}
  /\ outcome' = "resolved"
  /\ UNCHANGED <<stages, slot, evaluated, stepCtx, exprCtx, stepResultCtx, pruned, prunedSteps>>

Next ==
  \/ Skip \/ Finish
  \/ \E i \in DOMAIN stages :
       \/ Step(stages[i]) \/ StepRejects(stages[i]) \/ Publish(stages[i])
       \/ \E k \in DOMAIN stages[i].props :
            Expr(stages[i].props[k]) \/ Indirect(stages[i].props[k]) \/ Method(stages[i].props[k])

Spec == Init /\ [][Next]_vars

-----------------------------------------------------------------------------
(* Properties                                                              *)

TypeOK ==
  /\ stages \in Seq(Stage)
  /\ slot \in 1..(Len(stages) + 1)
  /\ evaluated \in Nat
  /\ evaluated > 0 => Reached("feature") \/ outcome # "running"
  /\ IsContext(stepCtx) /\ IsContext(exprCtx) /\ IsContext(stepResultCtx)
  /\ pruned \subseteq NamesOf(stages, "feature")
  /\ prunedSteps \subseteq NamesOf(stages, "step")
  /\ outcome \in {"running", "threw", "rejected", "resolved"}
  /\ output \subseteq Selected

\* Names that a step can read before the loop, and an inner expression.
ShownNames == DOMAIN exprCtx \ NamesOf(stages, "feature")
SeededNames == (ShownNames \ NamesOf(stages, "pureFunction")) \cup NamesOf(stages, "injection")

\* What a pipeline is to do, by names: of the features and steps, where each is
\* declared first, by itself or by its virtual.
Computed == NamesOf(stages, "feature") \cup NamesOf(stages, "step")
StageOf(n) ==
  stages[CHOOSE i \in OfKind(stages, "feature") \cup OfKind(stages, "step") : stages[i].name = n]
Place(n) ==
  CHOOSE i \in DOMAIN stages : /\ stages[i].name = n
                               /\ \A j \in 1..(i - 1) : stages[j].name # n
Passed == {n \in Computed : Place(n) < slot}

\* The selectors a step or a feature cannot do without.
Methods(st) == {k \in DOMAIN st.props : st.props[k].kind = "method"}
Needs(st) ==
  IF st.kind = "step" THEN st.reads ELSE UNION {st.props[k].reads : k \in Methods(st)}

\* A selector that a stage in this place can have a value for, if no name in P.
Served(sel, place, P) ==
  \/ sel[1] \in SeededNames /\ Found(sel, stepCtx)
  \/ /\ sel[1] \in NamesOf(stages, "feature") \ P
     /\ Place(sel[1]) < place
     /\ sel[2] \in KeysOf(StageOf(sel[1])) \cup {Whole}

Starves(n, P) == \E sel \in Needs(StageOf(n)) : ~Served(sel, Place(n), P)

\* Features pruned because an inner expression may compile to nothing.
Blank ==
  {n \in pruned : \E k \in DOMAIN StageOf(n).props :
                    \E text \in StageOf(n).props[k].inner : text.form = "nothing"}

\* Whatever needs, directly or through others, something that is not there.
Starved ==
  {n \in Passed : \A P \in SUBSET Passed :
     Blank \subseteq P /\ (\A m \in Passed : Starves(m, P) => m \in P) => n \in P}

\* Each virtual is declared before anything that is called like it.
EarlyVirtuals ==
  \A i \in OfKind(stages, "virtual") :
    stages[i].name \notin SeededNames /\ Place(stages[i].name) = i

(* A missing feature prunes what needs it, directly or through others, and    *)
(* nothing else is pruned: a virtual serves every stage declared after it,    *)
(* wherever its feature is declared.  Not so for a virtual declared after      *)
(* what it is called like: that feature moves to the place of the virtual,     *)
(* and that injection counts as missing, though the builder says such a        *)
(* virtual changes nothing (core.ts:254-358, 427-476).                       *)
PrunedAreTheStarved ==
  EarlyVirtuals => Passed \cap (pruned \cup prunedSteps) = Starved

(* Neither an inner expression nor the output ever sees a private feature, a  *)
(* private injection or a private key (core.ts:437-448, 526-568).             *)
NothingPrivateShown ==
  \A i \in DOMAIN stages :
    LET st == stages[i]
        allowed == IF st.shown = "some" THEN st.publicKeys ELSE KeysOf(st)
    IN  /\ st.kind \in {"feature", "injection"} /\ st.shown = "none" =>
             st.name \notin DOMAIN exprCtx /\ \A sel \in output : sel[1] # st.name
        /\ st.kind = "feature" /\ st.name \in DOMAIN exprCtx =>
             /\ exprCtx[st.name] \subseteq allowed
             /\ \A sel \in output : sel[1] = st.name => sel[2] \in allowed \cup {Whole}

\* What an expression in this place can count on, if it sees these seeded names
\* and the features that are shown so: a value that has keys, a function to call.
CountsOn(sel, place, seen, shown) ==
  CASE sel[2] = Whole -> TRUE
    [] sel[2] = Call -> sel[1] \in seen \cap NamesOf(stages, "pureFunction")
    [] OTHER -> \/ sel[1] \in seen
                \/ /\ sel[1] \in NamesOf(stages, "feature") \ pruned
                   /\ Place(sel[1]) < place /\ StageOf(sel[1]).shown \in shown

CountsOnAll(reads, place, seen, shown) == \A sel \in reads : CountsOn(sel, place, seen, shown)

\* A property that keeps to what its place offers.
Careful(p) ==
  /\ CountsOnAll(p.reads, slot, SeededNames, {"all", "none", "some"})
  /\ \A text \in p.inner :
       text.form # "unparsable" /\ CountsOnAll(text.reads, slot, ShownNames, {"all", "some"})

(* A call throws, other than by what a user's own code does, only while it     *)
(* evaluates a property that reads a key of a name that nothing declared       *)
(* before its feature, or before the virtual of its feature, provides, or      *)
(* shows if an inner expression reads it; that calls what is not a pure         *)
(* function, or is none to a feature's own expression; or whose outer           *)
(* expression yields what does not parse.  Selectors, steps and methods never  *)
(* throw so, and a pipeline of careful expressions ends with an output unless  *)
(* its user's code fails (core.ts:437-544).                                  *)
ThrowsOnlyForCause ==
  outcome = "threw" /\ EarlyVirtuals =>
    \E n \in Computed :
      /\ Place(n) = slot /\ evaluated < Len(StageOf(n).props)
      /\ LET p == StageOf(n).props[evaluated + 1]
         IN  p.kind \in {"expr", "indirect"} /\ ~Careful(p)

(* The output has each selected value that is public and was computed or      *)
(* given, and no other: pruning leaves out what depends on a missing feature    *)
(* and nothing else (core.ts:546-568).                                        *)
OutputTellsTheTruth ==
  outcome = "resolved" /\ EarlyVirtuals =>
    \A sel \in Selected :
      sel \in output <=>
        \/ sel[1] \in ShownNames /\ Found(sel, exprCtx)
        \/ /\ sel[1] \in Computed \ Starved
           /\ LET st == StageOf(sel[1])
              IN  IF st.kind = "step" THEN sel[2] \in st.keys \cup {Whole}
                  ELSE st.shown # "none" /\ sel[2] \in PublicView(st) \cup {Whole}
=============================================================================
