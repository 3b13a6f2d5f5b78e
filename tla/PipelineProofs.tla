--------------------------- MODULE PipelineProofs ---------------------------
(***************************************************************************)
(* Proofs about Pipeline, for any lists of stages that the builder's types *)
(* allow, any inputs and any selectors.                                    *)
(***************************************************************************)
EXTENDS Pipeline, InductionLemmas

\* The call is of a pipeline that can be built, and steps keep to themselves.
Built == stages \in Pipelines
StepsApart == DOMAIN stepResultCtx \subseteq NamesOf(stages, "step")
OutputLast == outcome = "running" => output = {}

IInv == Built /\ TypeOK /\ StepsApart /\ OutputLast /\ NothingPrivateShown

-----------------------------------------------------------------------------
LEMMA BuiltStages ==
  ASSUME Built
  PROVE  /\ stages \in Seq(Stage) /\ Len(stages) \in Nat /\ DOMAIN stages = 1..Len(stages)
         /\ \A i \in DOMAIN stages :
              /\ stages[i] \in Stage
              /\ stages[i].props \in Seq(Property)
              /\ stages[i].keys \subseteq Keys /\ stages[i].name \in Names
<1>1. stages \in Seq(Stage)
  BY PipelinesAssumption DEF Built
<1>2. \A i \in DOMAIN stages : stages[i] \in Stage
  BY <1>1
<1>3. \A st \in Stage : st.props \in Seq(Property) /\ st.keys \subseteq Keys /\ st.name \in Names
  BY DEF Stage
<1>4. QED
  BY <1>1, <1>2, <1>3

\* A name is used once, except that a virtual reserves it.
LEMMA OneUse ==
  ASSUME Built, NEW i \in DOMAIN stages, NEW j \in DOMAIN stages,
         stages[i].name = stages[j].name,
         stages[i].kind # "virtual", stages[j].kind # "virtual"
  PROVE  i = j
<1>1. UniqueNames(stages)
  BY PipelinesAssumption DEF Built
<1>2. ~ i < j /\ ~ j < i
  BY <1>1 DEF UniqueNames
<1>3. QED
  BY <1>2, BuiltStages

\* A place that is kept is the place of a stage.
LEMMA KeptIsAt ==
  ASSUME Built, NEW i \in DOMAIN stages, Kept(i)
  PROVE  At(i) \in DOMAIN stages /\ stages[At(i)].kind # "virtual"
<1>1. CASE stages[i].kind = "virtual"
  <2>1. \E j \in Fulfilling : stages[j].name = stages[i].name
    BY <1>1 DEF Kept, Unfulfilled, Virtuals, NamesOf, OfKind
  <2>2. At(i) \in Fulfilling
    BY <1>1, <2>1 DEF At
  <2>3. QED
    BY <2>2 DEF Fulfilling, OfKind
<1>2. CASE stages[i].kind # "virtual"
  BY <1>2 DEF At
<1>3. QED
  BY <1>1, <1>2

LEMMA KeysOfStage ==
  ASSUME Built, NEW i \in DOMAIN stages
  PROVE  KeysOf(stages[i]) \subseteq Keys
<1>1. stages[i].props \in Seq(Property)
  BY BuiltStages
<1>2. \A k \in DOMAIN stages[i].props : stages[i].props[k] \in Property
  BY <1>1
<1>3. QED
  BY <1>2 DEF KeysOf, Property

LEMMA ContextWith ==
  ASSUME NEW ctx, IsContext(ctx), NEW name \in Names, NEW keys \in SUBSET Keys
  PROVE  IsContext(With(ctx, name, keys)) /\ DOMAIN With(ctx, name, keys) = DOMAIN ctx \cup {name}
  BY DEF IsContext, With

LEMMA ContextOverlay ==
  ASSUME NEW under, NEW over, IsContext(under), IsContext(over)
  PROVE  IsContext(Overlay(under, over))
  BY DEF IsContext, Overlay

-----------------------------------------------------------------------------
(* The beginning of a call                                                 *)

LEMMA SeedsAreContexts ==
  ASSUME Built, NEW given \in Inputs
  PROVE  /\ IsContext(MergedInitial(given)) /\ IsContext(PureFunctions)
         /\ \A shown : IsContext(Injected(shown))
<1>1. IsContext(given)
  BY InputsAssumption
<1>2. IsContext(MergedInitial(given))
  <2>1. \A i \in DOMAIN stages : stages[i].keys \subseteq Keys /\ stages[i].name \in Names
    BY BuiltStages
  <2>2. QED
    BY <1>1, <2>1 DEF IsContext, MergedInitial, NamesOf, OfKind
<1>3. IsContext(PureFunctions)
  BY BuiltStages DEF IsContext, PureFunctions, NamesOf, OfKind
<1>4. ASSUME NEW shown PROVE IsContext(Injected(shown))
  <2> DEFINE those == {i \in OfKind(stages, "injection") : stages[i].shown \in shown}
             the(n) == CHOOSE i \in those : stages[i].name = n
  <2>1. \A n \in {stages[i].name : i \in those} : the(n) \in those
    OBVIOUS
  <2>2. \A i \in those : stages[i].keys \subseteq Keys /\ stages[i].name \in Names
    BY BuiltStages DEF OfKind
  <2>3. Injected(shown) = [n \in {stages[i].name : i \in those} |-> stages[the(n)].keys]
    BY DEF Injected
  <2> HIDE DEF the, those
  <2>4. QED
    BY <2>1, <2>2, <2>3 DEF IsContext
<1>5. QED
  BY <1>2, <1>3, <1>4

LEMMA InitIInv == Init => IInv
<1> SUFFICES ASSUME Init PROVE IInv
  OBVIOUS
<1>1. Built
  BY DEF Init, Built
<1>2. PICK given \in Inputs :
        /\ stepCtx = Seeded(given)
        /\ exprCtx = Overlay(Overlay(MergedInitial(given), Injected({"all"})), PureFunctions)
  BY DEF Init
<1>3. IsContext(stepCtx) /\ IsContext(exprCtx)
  BY <1>1, <1>2, SeedsAreContexts, ContextOverlay DEF Seeded
<1>4. TypeOK
  <2>1. IsContext(stepResultCtx)
    BY DEF Init, IsContext
  <2>2. QED
    BY <1>1, <1>3, <2>1, BuiltStages DEF Init, TypeOK
<1>5. StepsApart /\ OutputLast
  BY DEF Init, StepsApart, OutputLast
<1>6. NothingPrivateShown
  <2> DEFINE public == {i \in OfKind(stages, "injection") : stages[i].shown \in {"all"}}
  <2>1. DOMAIN exprCtx = DOMAIN given \cup NamesOf(stages, "initialDefaults")
                           \cup {stages[i].name : i \in public} \cup NamesOf(stages, "pureFunction")
    BY <1>2 DEF Overlay, MergedInitial, Injected, PureFunctions
  <2> SUFFICES ASSUME NEW i \in DOMAIN stages,
                      \/ stages[i].kind \in {"feature", "injection"} /\ stages[i].shown = "none"
                      \/ stages[i].kind = "feature"
               PROVE  stages[i].name \notin DOMAIN exprCtx
    BY DEF Init, NothingPrivateShown
  <2>2. stages[i].name \notin DOMAIN given
    BY <1>1, PipelinesAssumption DEF Built, NamesOf, OfKind
  <2>3. stages[i].name \notin NamesOf(stages, "initialDefaults") \cup NamesOf(stages, "pureFunction")
    BY <1>1, OneUse DEF NamesOf, OfKind
  <2>4. stages[i].name \notin {stages[j].name : j \in public}
    <3> SUFFICES ASSUME NEW j \in public, stages[j].name = stages[i].name PROVE FALSE
      OBVIOUS
    <3>1. j \in DOMAIN stages /\ stages[j].kind = "injection" /\ stages[j].shown = "all"
      BY DEF OfKind
    <3>2. i = j
      BY <1>1, <3>1, OneUse
    <3>3. QED
      BY <3>1, <3>2
  <2>5. QED
    BY <2>1, <2>2, <2>3, <2>4
<1>7. QED
  BY <1>1, <1>4, <1>5, <1>6 DEF IInv

-----------------------------------------------------------------------------
(* Its steps                                                               *)

\* What is shown and what is put out stays as it is.
LEMMA ShownAsBefore ==
  ASSUME NothingPrivateShown, stages' = stages, exprCtx' = exprCtx, output' = output
  PROVE  NothingPrivateShown'
  BY DEF NothingPrivateShown, KeysOf

LEMMA LeaveIInv ==
  ASSUME IInv, NEW how \in {"threw", "rejected"}, Leave(how) PROVE IInv'
<1>1. TypeOK'
  BY DEF Leave, IInv, TypeOK
<1>2. (Built /\ StepsApart /\ OutputLast)'
  BY DEF Leave, IInv, Built, StepsApart, OutputLast
<1>3. NothingPrivateShown'
  BY ShownAsBefore DEF Leave, IInv
<1>4. QED
  BY <1>1, <1>2, <1>3 DEF IInv

LEMMA SkipIInv ==
  ASSUME IInv, Skip PROVE IInv'
<1>1. DOMAIN stages = 1..Len(stages) /\ Len(stages) \in Nat
  BY BuiltStages DEF IInv
<1>2. evaluated = 0
  BY DEF Skip, IInv, TypeOK, Reached
<1>3. TypeOK'
  BY <1>1, <1>2 DEF Skip, IInv, TypeOK
<1>4. (Built /\ StepsApart /\ OutputLast)'
  BY DEF Skip, IInv, Built, StepsApart, OutputLast
<1>5. NothingPrivateShown'
  BY ShownAsBefore DEF Skip, IInv
<1>6. QED
  BY <1>3, <1>4, <1>5 DEF IInv

LEMMA StepIInv ==
  ASSUME IInv, NEW i \in DOMAIN stages, Step(stages[i]) PROVE IInv'
<1>1. Reached("step") /\ stages[i] = stages[At(slot)]
  BY DEF Step
<1>2. stages[i].kind = "step" /\ stages[i].name \in NamesOf(stages, "step")
  BY <1>1 DEF Reached, NamesOf, OfKind
<1>3. stages[i].name \in Names /\ stages[i].keys \in SUBSET Keys /\ slot + 1 \in 1..(Len(stages) + 1)
  BY <1>1, BuiltStages DEF IInv, Reached
<1>4. evaluated = 0
  BY <1>1 DEF IInv, TypeOK, Reached
<1>5. IsContext(stepResultCtx') /\ StepsApart'
  <2>1. CASE stepResultCtx' = stepResultCtx
    BY <2>1 DEF Step, IInv, TypeOK, StepsApart
  <2>2. CASE stepResultCtx' = With(stepResultCtx, stages[i].name, stages[i].keys)
    <3>1. IsContext(stepResultCtx) /\ DOMAIN stepResultCtx \subseteq NamesOf(stages, "step")
      BY DEF IInv, TypeOK, StepsApart
    <3>2. /\ IsContext(stepResultCtx')
          /\ DOMAIN stepResultCtx' = DOMAIN stepResultCtx \cup {stages[i].name}
      BY <1>3, <2>2, <3>1, ContextWith
    <3>3. stages' = stages
      BY DEF Step
    <3>4. QED
      BY <1>2, <3>1, <3>2, <3>3 DEF StepsApart
  <2>3. QED
    BY <2>1, <2>2 DEF Step
<1>6. TypeOK'
  BY <1>2, <1>3, <1>4, <1>5 DEF Step, IInv, TypeOK
<1>7. (Built /\ OutputLast)'
  BY DEF Step, IInv, Built, OutputLast
<1>8. NothingPrivateShown'
  BY ShownAsBefore DEF Step, IInv
<1>9. QED
  BY <1>5, <1>6, <1>7, <1>8 DEF IInv

LEMMA SameReach ==
  ASSUME UNCHANGED <<stages, slot, outcome>>
  PROVE  At(slot)' = At(slot) /\ (Reached("feature")' <=> Reached("feature"))
<1>1. Fulfilling' = Fulfilling /\ Unfulfilled' = Unfulfilled
  BY DEF Fulfilling, Unfulfilled, Virtuals, NamesOf, OfKind
<1>2. At(slot)' = At(slot)
  BY <1>1 DEF At
<1>3. Kept(slot)' <=> Kept(slot)
  BY <1>1 DEF Kept
<1>4. QED
  BY <1>2, <1>3 DEF Reached

LEMMA EvaluateIInv ==
  ASSUME IInv, Reached("feature"), Evaluate PROVE IInv'
<1>1. Reached("feature")'
  BY SameReach DEF Evaluate
<1>2. TypeOK'
  BY <1>1 DEF Evaluate, IInv, TypeOK
<1>3. (Built /\ StepsApart /\ OutputLast)'
  BY DEF Evaluate, IInv, Built, StepsApart, OutputLast
<1>4. NothingPrivateShown'
  BY ShownAsBefore DEF Evaluate, IInv
<1>5. QED
  BY <1>2, <1>3, <1>4 DEF IInv

LEMMA PruneIInv ==
  ASSUME IInv, Reached("feature"), Prune PROVE IInv'
<1>1. At(slot) \in DOMAIN stages /\ slot + 1 \in 1..(Len(stages) + 1)
  BY KeptIsAt, BuiltStages DEF IInv, Reached
<1>2. stages[At(slot)].name \in NamesOf(stages, "feature")
  BY <1>1 DEF Reached, NamesOf, OfKind
<1>3. TypeOK'
  BY <1>1, <1>2 DEF Prune, IInv, TypeOK
<1>4. (Built /\ StepsApart /\ OutputLast)'
  BY DEF Prune, IInv, Built, StepsApart, OutputLast
<1>5. NothingPrivateShown'
  BY ShownAsBefore DEF Prune, IInv
<1>6. QED
  BY <1>3, <1>4, <1>5 DEF IInv

LEMMA PublishIInv ==
  ASSUME IInv, NEW i \in DOMAIN stages, Publish(stages[i]) PROVE IInv'
<1> DEFINE st == stages[i]
<1>1. Reached("feature") /\ st = stages[At(slot)] /\ st.kind = "feature"
  BY DEF Publish, Reached
<1>2. st.name \in Names /\ slot + 1 \in 1..(Len(stages) + 1)
  BY <1>1, BuiltStages DEF IInv, Reached
<1>3. KeysOf(st) \in SUBSET Keys /\ PublicView(st) \in SUBSET Keys
  BY KeysOfStage DEF PublicView, IInv
<1>4. IsContext(stepCtx') /\ IsContext(exprCtx')
  <2>1. IsContext(With(stepCtx, st.name, KeysOf(st)))
    BY <1>2, <1>3, ContextWith DEF IInv, TypeOK
  <2>2. IsContext(With(exprCtx, st.name, PublicView(st)))
    BY <1>2, <1>3, ContextWith DEF IInv, TypeOK
  <2>3. QED
    BY <2>1, <2>2 DEF Publish, IInv, TypeOK
<1>5. TypeOK'
  BY <1>2, <1>4 DEF Publish, IInv, TypeOK
<1>6. (Built /\ StepsApart /\ OutputLast)'
  BY DEF Publish, IInv, Built, StepsApart, OutputLast
<1>7. NothingPrivateShown'
  <2>1. stages' = stages /\ output' = {}
    BY <1>1 DEF Publish, IInv, OutputLast, Reached
  <2>2. CASE st.shown = "none"
    BY <2>2, ShownAsBefore DEF Publish, IInv
  <2>3. CASE st.shown # "none"
    <3>1. exprCtx' = With(exprCtx, st.name, PublicView(st))
      BY <2>3 DEF Publish
    <3> SUFFICES ASSUME NEW j \in DOMAIN stages
                 PROVE  /\ stages[j].kind \in {"feature", "injection"} /\ stages[j].shown = "none" =>
                             stages[j].name \notin DOMAIN exprCtx'
                        /\ stages[j].kind = "feature" /\ stages[j].name \in DOMAIN exprCtx' =>
                             exprCtx'[stages[j].name] \subseteq
                               IF stages[j].shown = "some" THEN stages[j].publicKeys ELSE KeysOf(stages[j])
      BY <2>1 DEF NothingPrivateShown, KeysOf
    <3>2. CASE stages[j].name = st.name /\ stages[j].kind # "virtual"
      <4>1. i = j
        BY <1>1, <3>2, OneUse DEF IInv
      <4>2. exprCtx'[st.name] = PublicView(st)
        BY <3>1 DEF With
      <4>3. QED
        BY <1>1, <2>3, <4>1, <4>2 DEF PublicView
    <3>3. CASE stages[j].name # st.name
      <4>1. stages[j].name \in DOMAIN exprCtx' <=> stages[j].name \in DOMAIN exprCtx
        BY <3>1, <3>3 DEF With
      <4>2. stages[j].name \in DOMAIN exprCtx => exprCtx'[stages[j].name] = exprCtx[stages[j].name]
        BY <3>1, <3>3 DEF With
      <4>3. QED
        BY <4>1, <4>2 DEF IInv, NothingPrivateShown
    <3>4. CASE stages[j].kind = "virtual"
      BY <3>4
    <3>5. QED
      BY <3>2, <3>3, <3>4
  <2>4. QED
    BY <2>2, <2>3
<1>8. QED
  BY <1>5, <1>6, <1>7 DEF IInv

LEMMA FinishIInv ==
  ASSUME IInv, Finish PROVE IInv'
<1>1. TypeOK'
  BY DEF Finish, IInv, TypeOK
<1>2. (Built /\ StepsApart /\ OutputLast)'
  BY DEF Finish, IInv, Built, StepsApart, OutputLast
<1>3. NothingPrivateShown'
  <2>1. stages' = stages /\ exprCtx' = exprCtx
    BY DEF Finish
  <2>2. \A sel \in output' : Found(sel, ResultCtx)
    BY DEF Finish
  <2>3. ASSUME NEW i \in DOMAIN stages, stages[i].kind \in {"feature", "injection"},
               NEW sel \in output', sel[1] = stages[i].name
        PROVE  sel[1] \in DOMAIN exprCtx /\ sel[2] \in exprCtx[sel[1]] \cup {Whole}
    <3>1. sel[1] \notin NamesOf(stages, "step")
      BY <2>3, OneUse DEF IInv, NamesOf, OfKind
    <3>2. sel[1] \notin DOMAIN stepResultCtx
      BY <3>1 DEF IInv, StepsApart
    <3>3. QED
      BY <2>2, <3>2 DEF Found, ResultCtx, Overlay
  <2> SUFFICES ASSUME NEW i \in DOMAIN stages
               PROVE  /\ stages[i].kind \in {"feature", "injection"} /\ stages[i].shown = "none" =>
                           /\ stages[i].name \notin DOMAIN exprCtx
                           /\ \A sel \in output' : sel[1] # stages[i].name
                      /\ stages[i].kind = "feature" /\ stages[i].name \in DOMAIN exprCtx =>
                           LET allowed == IF stages[i].shown = "some"
                                          THEN stages[i].publicKeys ELSE KeysOf(stages[i])
                           IN  /\ exprCtx[stages[i].name] \subseteq allowed
                               /\ \A sel \in output' : sel[1] = stages[i].name =>
                                    sel[2] \in allowed \cup {Whole}
    BY <2>1 DEF NothingPrivateShown, KeysOf
  <2>4. QED
    BY <2>3 DEF IInv, NothingPrivateShown
<1>4. QED
  BY <1>1, <1>2, <1>3 DEF IInv

LEMMA NextIInv == IInv /\ [Next]_vars => IInv'
<1> SUFFICES ASSUME IInv, [Next]_vars PROVE IInv'
  OBVIOUS
<1>1. CASE Skip
  BY <1>1, SkipIInv
<1>2. CASE Finish
  BY <1>2, FinishIInv
<1>3. ASSUME NEW i \in DOMAIN stages, Step(stages[i]) PROVE IInv'
  BY <1>3, StepIInv
<1>4. ASSUME NEW i \in DOMAIN stages, StepRejects(stages[i]) PROVE IInv'
  BY <1>4, LeaveIInv DEF StepRejects
<1>5. ASSUME NEW i \in DOMAIN stages, Publish(stages[i]) PROVE IInv'
  BY <1>5, PublishIInv
<1>6. ASSUME NEW p, Expr(p) \/ Indirect(p) \/ Method(p) PROVE IInv'
  <2>1. Reached("feature")
    BY <1>6 DEF Expr, Indirect, Method, AtProperty
  <2>2. Leave("threw") \/ Leave("rejected") \/ Evaluate \/ Prune
    BY <1>6 DEF Expr, Indirect, Method, Run
  <2>3. QED
    BY <2>1, <2>2, LeaveIInv, EvaluateIInv, PruneIInv
<1>7. CASE UNCHANGED vars
  <2>1. TypeOK'
    BY <1>7, SameReach DEF vars, IInv, TypeOK
  <2>2. (Built /\ StepsApart /\ OutputLast)'
    BY <1>7 DEF vars, IInv, Built, StepsApart, OutputLast
  <2>3. NothingPrivateShown'
    BY <1>7, ShownAsBefore DEF vars, IInv
  <2>4. QED
    BY <2>1, <2>2, <2>3 DEF IInv
<1>8. QED
  BY <1>1, <1>2, <1>3, <1>4, <1>5, <1>6, <1>7 DEF Next

-----------------------------------------------------------------------------
(* Where stages are, which no step changes                                 *)

LEMMA StageOfName ==
  ASSUME Built, NEW i \in DOMAIN stages, stages[i].kind \in {"feature", "step"}
  PROVE  StageOf(stages[i].name) = stages[i]
<1> DEFINE n == stages[i].name
           both == OfKind(stages, "feature") \cup OfKind(stages, "step")
           the == CHOOSE j \in both : stages[j].name = n
<1>1. i \in both
  BY DEF OfKind
<1>2. the \in both /\ stages[the].name = n
  BY <1>1
<1>3. the \in DOMAIN stages /\ stages[the].kind \in {"feature", "step"}
  BY <1>2 DEF OfKind
<1> HIDE DEF the
<1>4. the = i
  BY <1>2, <1>3, OneUse
<1>5. QED
  BY <1>4 DEF StageOf, the

LEMMA ComputedStage ==
  ASSUME Built, NEW n \in Computed
  PROVE  \E i \in DOMAIN stages :
           /\ stages[i].name = n /\ StageOf(n) = stages[i]
           /\ stages[i].kind \in {"feature", "step"}
           /\ n \in NamesOf(stages, "feature") <=> stages[i].kind = "feature"
           /\ n \in NamesOf(stages, "step") <=> stages[i].kind = "step"
<1>1. PICK i \in DOMAIN stages : stages[i].name = n /\ stages[i].kind \in {"feature", "step"}
  BY DEF Computed, NamesOf, OfKind
<1>2. \A j \in DOMAIN stages : stages[j].name = n /\ stages[j].kind # "virtual" => j = i
  BY <1>1, OneUse
<1>3. /\ n \in NamesOf(stages, "feature") <=> stages[i].kind = "feature"
      /\ n \in NamesOf(stages, "step") <=> stages[i].kind = "step"
  BY <1>1, <1>2 DEF NamesOf, OfKind
<1>4. QED
  BY <1>1, <1>3, StageOfName

\* The place of a name is where it is declared first.
LEMMA PlaceOfName ==
  ASSUME Built, NEW i \in DOMAIN stages
  PROVE  LET p == Place(stages[i].name)
         IN  /\ p \in DOMAIN stages /\ p <= i
             /\ stages[p].name = stages[i].name
             /\ \A j \in 1..(p - 1) : stages[j].name # stages[i].name
<1> DEFINE n == stages[i].name
           those == {j \in DOMAIN stages : stages[j].name = n}
           First(p) == /\ stages[p].name = n
                       /\ \A j \in 1..(p - 1) : stages[j].name # n
<1>1. DOMAIN stages = 1..Len(stages) /\ Len(stages) \in Nat
  BY BuiltStages
<1>2. PICK p \in those : \A q \in those : p <= q
  <2>1. those \subseteq Nat /\ those # {}
    BY <1>1
  <2>2. QED
    BY <2>1, LeastNumber
<1>3. p \in DOMAIN stages /\ First(p)
  BY <1>1, <1>2
<1>4. Place(n) \in DOMAIN stages /\ First(Place(n))
  BY <1>3 DEF Place
<1>5. Place(n) <= i
  <2>1. i \in Nat /\ Place(n) \in Nat /\ i \in 1..Len(stages)
    BY <1>1, <1>4
  <2>2. ~ i \in 1..(Place(n) - 1)
    BY <1>4
  <2> HIDE DEF n
  <2>3. QED
    BY <2>1, <2>2, <1>1
<1>6. QED
  BY <1>4, <1>5

LEMMA OnePlace ==
  ASSUME Built, NEW i \in DOMAIN stages, \A j \in 1..(i - 1) : stages[j].name # stages[i].name
  PROVE  Place(stages[i].name) = i
<1> DEFINE p == Place(stages[i].name)
<1>1. p \in DOMAIN stages /\ p <= i /\ stages[p].name = stages[i].name
  BY PlaceOfName
<1>2. p \in Nat /\ i \in Nat /\ p >= 1
  BY <1>1, BuiltStages
<1>3. ~ p \in 1..(i - 1)
  BY <1>1
<1> HIDE DEF p
<1>4. p = i
  BY <1>1, <1>2, <1>3
<1>5. QED
  BY <1>4 DEF p

\* Under EarlyVirtuals a name that is computed is computed in its place.
LEMMA ComputedInPlace ==
  ASSUME Built, EarlyVirtuals, NEW n \in Computed, NEW s \in DOMAIN stages
  PROVE  Place(n) = s <=> /\ Kept(s) /\ stages[At(s)].kind \in {"feature", "step"}
                          /\ stages[At(s)].name = n
<1>0. UniqueNames(stages) /\ DOMAIN stages = 1..Len(stages) /\ Len(stages) \in Nat
  BY BuiltStages, PipelinesAssumption DEF Built
<1>1. PICK i \in DOMAIN stages :
        /\ stages[i].name = n /\ stages[i].kind \in {"feature", "step"}
        /\ n \in NamesOf(stages, "feature") <=> stages[i].kind = "feature"
  BY ComputedStage
<1>2. ASSUME NEW j \in DOMAIN stages, stages[j].name = n, stages[j].kind = "virtual"
      PROVE  i \in Fulfilling /\ Place(n) = j /\ \A k \in Fulfilling : stages[k].name = n => k = i
  <2>1. Place(n) = j
    BY <1>2 DEF EarlyVirtuals, OfKind
  <2>2. j < i
    BY <1>0, <1>1, <1>2, <2>1, PlaceOfName
  <2>3. stages[i].kind = "feature"
    BY <1>0, <1>1, <1>2, <2>2 DEF UniqueNames
  <2>4. \A k \in Fulfilling : stages[k].name = n => k = i
    BY <1>1, OneUse DEF Fulfilling, OfKind
  <2>5. QED
    BY <1>1, <1>2, <2>1, <2>3, <2>4 DEF Fulfilling, OfKind, Virtuals, NamesOf
<1>3. ASSUME Place(n) = s
      PROVE  Kept(s) /\ stages[At(s)].kind \in {"feature", "step"} /\ stages[At(s)].name = n
  <2>1. stages[s].name = n
    BY <1>1, <1>3, PlaceOfName
  <2>2. CASE stages[s].kind = "virtual"
    <3>1. i \in Fulfilling /\ \A k \in Fulfilling : stages[k].name = n => k = i
      BY <1>2, <2>1, <2>2
    <3>2. Kept(s)
      BY <1>1, <2>1, <2>2, <3>1 DEF Kept, Unfulfilled
    <3>3. At(s) = i
      BY <1>1, <2>1, <2>2, <3>1 DEF At
    <3>4. QED
      BY <1>1, <3>2, <3>3
  <2>3. CASE stages[s].kind # "virtual"
    <3>1. s = i
      BY <1>1, <2>1, <2>3, OneUse
    <3>2. s \notin Fulfilling
      <4>1. ~ \E j \in DOMAIN stages : stages[j].name = n /\ stages[j].kind = "virtual"
        BY <1>2, <1>3, <2>3
      <4>2. QED
        BY <2>1, <4>1 DEF Fulfilling, Virtuals, NamesOf, OfKind
    <3>3. QED
      BY <1>1, <3>1, <3>2 DEF Kept, At
  <2>4. QED
    BY <2>2, <2>3
<1>4. ASSUME Kept(s), stages[At(s)].name = n PROVE Place(n) = s
  <2>1. CASE stages[s].kind = "virtual"
    <3>1. \E j \in Fulfilling : stages[j].name = stages[s].name
      BY <1>4, <2>1 DEF Kept, Unfulfilled, Virtuals, NamesOf, OfKind
    <3>2. stages[At(s)].name = stages[s].name
      BY <2>1, <3>1 DEF At
    <3>3. QED
      BY <1>2, <1>4, <2>1, <3>2
  <2>2. CASE stages[s].kind # "virtual"
    <3>1. At(s) = s
      BY <2>2 DEF At
    <3>2. s = i
      BY <1>1, <1>4, <2>2, <3>1, OneUse
    <3>3. s \notin Fulfilling
      BY <1>4, <2>2 DEF Kept, Fulfilling, OfKind
    <3>4. ASSUME NEW j \in 1..(s - 1), stages[j].name = n PROVE FALSE
      <4>1. j \in DOMAIN stages /\ j < s
        BY <1>0
      <4>2. stages[j].kind = "virtual" /\ stages[s].kind = "feature"
        BY <1>0, <1>1, <2>2, <3>2, <3>4, <4>1 DEF UniqueNames
      <4>3. QED
        BY <1>2, <3>2, <3>3, <3>4, <4>1, <4>2
    <3>5. QED
      BY <1>1, <3>2, <3>4, OnePlace
  <2>3. QED
    BY <2>1, <2>2
<1>5. QED
  BY <1>3, <1>4

\* A virtual without a feature has no other use.
LEMMA UnfulfilledApart ==
  ASSUME Built, EarlyVirtuals
  PROVE  Unfulfilled \cap (SeededNames \cup ShownNames \cup Computed) = {}
<1> SUFFICES ASSUME NEW n \in Unfulfilled, n \in SeededNames \cup ShownNames \cup Computed
             PROVE  FALSE
  OBVIOUS
<1>0. UniqueNames(stages) /\ DOMAIN stages = 1..Len(stages) /\ Len(stages) \in Nat
  BY BuiltStages, PipelinesAssumption DEF Built
<1>1. PICK v \in DOMAIN stages : stages[v].kind = "virtual" /\ stages[v].name = n
  BY DEF Unfulfilled, Virtuals, NamesOf, OfKind
<1>2. n \notin SeededNames /\ Place(n) = v
  BY <1>1 DEF EarlyVirtuals, OfKind
<1>3. PICK i \in DOMAIN stages : stages[i].kind # "virtual" /\ stages[i].name = n
  BY <1>2 DEF Computed, SeededNames, NamesOf, OfKind
<1>4. v < i
  BY <1>0, <1>1, <1>2, <1>3, PlaceOfName
<1>5. stages[i].kind = "feature"
  BY <1>0, <1>1, <1>3, <1>4 DEF UniqueNames
<1>6. i \in Fulfilling
  BY <1>1, <1>3, <1>5 DEF Fulfilling, Virtuals, NamesOf, OfKind
<1>7. QED
  BY <1>3, <1>6 DEF Unfulfilled

\* What is seeded is not computed by a feature.
LEMMA SeedsApart ==
  ASSUME Built
  PROVE  /\ SeededNames \cap NamesOf(stages, "feature") = {}
         /\ \A n \in NamesOf(stages, "step") : n \notin ShownNames => n \notin SeededNames
         /\ NamesOf(stages, "step") \cap NamesOf(stages, "feature") = {}
<1>1. \A i, j \in DOMAIN stages :
        stages[i].name = stages[j].name /\ stages[i].kind # "virtual" /\ stages[j].kind # "virtual" => i = j
  BY OneUse
<1>2. \A kind, other : kind # other /\ kind # "virtual" /\ other # "virtual" =>
        NamesOf(stages, kind) \cap NamesOf(stages, other) = {}
  BY <1>1 DEF NamesOf, OfKind
<1>3. NamesOf(stages, "injection") \cap NamesOf(stages, "feature") = {}
  BY <1>2
<1>4. NamesOf(stages, "injection") \cap NamesOf(stages, "step") = {}
  BY <1>2
<1>5. NamesOf(stages, "step") \cap NamesOf(stages, "feature") = {}
  BY <1>2
<1>6. QED
  BY <1>3, <1>4, <1>5 DEF SeededNames, ShownNames

-----------------------------------------------------------------------------
(* What is computed and what is pruned, if each virtual is declared early    *)

\* The features whose values can be read.
Published == {n \in NamesOf(stages, "feature") \cap Passed : n \notin pruned}

Gone == pruned \cup prunedSteps

\* The contexts have what was seeded and what was computed, and nothing else.
ContextsTell ==
  /\ NamesOf(stages, "step") \cap ShownNames = {}
  /\ DOMAIN stepCtx = SeededNames \cup Published
  /\ \A n \in Published : stepCtx[n] = KeysOf(StageOf(n))
  /\ \A n \in NamesOf(stages, "feature") :
       n \in DOMAIN exprCtx <=> n \in Published /\ StageOf(n).shown # "none"
  /\ \A n \in NamesOf(stages, "feature") :
       n \in DOMAIN exprCtx => exprCtx[n] = PublicView(StageOf(n))
  /\ DOMAIN stepResultCtx = {n \in NamesOf(stages, "step") \cap Passed : n \notin prunedSteps}
  /\ \A n \in DOMAIN stepResultCtx : stepResultCtx[n] = StageOf(n).keys

\* The methods of the feature that runs now had all they read.
MethodsServed ==
  Reached("feature") =>
    \A k \in 1..evaluated :
      LET p == stages[At(slot)].props[k]
      IN  p.kind = "method" => \A sel \in p.reads : Found(sel, stepCtx)

\* Whatever was passed is gone if and only if something it needs is.
Judged == \A n \in Passed : n \in Gone <=> n \in Blank \/ Starves(n, Gone)

CallInv == EarlyVirtuals => ContextsTell /\ Gone \subseteq Passed /\ MethodsServed /\ Judged

\* The names of what is pruned are the least set that has all that starve.
LEMMA JudgedIsEnough ==
  ASSUME Built, CallInv
  PROVE  PrunedAreTheStarved
<1> SUFFICES ASSUME EarlyVirtuals PROVE Passed \cap Gone = Starved
  BY DEF PrunedAreTheStarved, Gone
<1>1. Gone \subseteq Passed /\ Judged
  BY DEF CallInv
<1>2. Blank \subseteq Gone
  BY DEF Blank, Gone
<1>3. Starved \subseteq Gone
  <2>1. Gone \in SUBSET Passed /\ \A m \in Passed : Starves(m, Gone) => m \in Gone
    BY <1>1 DEF Judged
  <2>2. QED
    BY <1>2, <2>1 DEF Starved
<1>4. ASSUME NEW P \in SUBSET Passed, Blank \subseteq P,
             \A m \in Passed : Starves(m, P) => m \in P
      PROVE  Gone \subseteq P
  <2> SUFFICES ASSUME Gone \ P # {} PROVE FALSE
    OBVIOUS
  <2> DEFINE places == {Place(m) : m \in Gone \ P}
  <2>1. \A m \in Passed : m \in Computed /\ Place(m) \in Nat
    <3> SUFFICES ASSUME NEW m \in Passed PROVE m \in Computed /\ Place(m) \in Nat
      OBVIOUS
    <3>1. m \in Computed
      BY DEF Passed
    <3>2. PICK i \in DOMAIN stages : stages[i].name = m
      BY <3>1, ComputedStage
    <3>3. QED
      BY <3>1, <3>2, PlaceOfName, BuiltStages
  <2>2. places \subseteq Nat /\ places # {}
    BY <1>1, <2>1
  <2>3. PICK p \in places : \A q \in places : p <= q
    BY <2>2, LeastNumber
  <2>4. PICK n \in Gone \ P : p = Place(n)
    OBVIOUS
  <2>5. n \in Passed /\ n \notin Blank /\ \A m \in Gone \ P : Place(n) <= Place(m)
    BY <1>1, <1>4, <2>3, <2>4
  <2>6. Starves(n, Gone)
    BY <1>1, <2>4, <2>5 DEF Judged
  <2>7. PICK sel \in Needs(StageOf(n)) : ~Served(sel, Place(n), Gone)
    BY <2>6 DEF Starves
  <2>8. ~Served(sel, Place(n), P)
    <3> SUFFICES ASSUME Served(sel, Place(n), P) PROVE FALSE
      OBVIOUS
    <3>1. sel[1] \in Gone \ P /\ Place(sel[1]) < Place(n)
      BY <2>7 DEF Served
    <3>2. Place(sel[1]) \in Nat /\ Place(n) \in Nat
      BY <1>1, <2>1, <2>5, <3>1
    <3>3. QED
      BY <2>5, <3>1, <3>2
  <2>9. Starves(n, P)
    BY <2>7, <2>8 DEF Starves
  <2>10. QED
    BY <1>4, <2>4, <2>5, <2>9
<1>5. Passed \cap Gone \subseteq Starved
  BY <1>4 DEF Starved
<1>6. QED
  BY <1>1, <1>3, <1>5

-----------------------------------------------------------------------------
(* What the steps of a call keep of its plan                               *)

LEMMA SamePlan ==
  ASSUME stages' = stages
  PROVE  /\ Computed' = Computed
         /\ NamesOf(stages, "feature")' = NamesOf(stages, "feature")
         /\ NamesOf(stages, "step")' = NamesOf(stages, "step")
         /\ NamesOf(stages, "injection")' = NamesOf(stages, "injection")
         /\ NamesOf(stages, "pureFunction")' = NamesOf(stages, "pureFunction")
         /\ OfKind(stages, "virtual")' = OfKind(stages, "virtual")
         /\ Unfulfilled' = Unfulfilled
         /\ \A n : Place(n)' = Place(n) /\ StageOf(n)' = StageOf(n)
<1>1. \A n : Place(n)' = Place(n) /\ StageOf(n)' = StageOf(n)
  BY DEF Place, StageOf, OfKind
<1>2. QED
  BY <1>1 DEF Computed, NamesOf, OfKind, Unfulfilled, Fulfilling, Virtuals

LEMMA SameViews ==
  ASSUME stages' = stages
  PROVE  \A m : StageOf(m)' = StageOf(m) /\ KeysOf(StageOf(m))' = KeysOf(StageOf(m))
                /\ PublicView(StageOf(m))' = PublicView(StageOf(m))
<1> SUFFICES ASSUME NEW m
             PROVE  /\ StageOf(m)' = StageOf(m) /\ KeysOf(StageOf(m))' = KeysOf(StageOf(m))
                    /\ PublicView(StageOf(m))' = PublicView(StageOf(m))
  OBVIOUS
<1> DEFINE st == StageOf(m)
<1>1. st' = st
  BY SamePlan
<1> HIDE DEF st
<1>2. KeysOf(st)' = KeysOf(st) /\ PublicView(st)' = PublicView(st)
  BY <1>1 DEF KeysOf, PublicView
<1>3. QED
  BY <1>1, <1>2 DEF st

LEMMA SameSeeds ==
  ASSUME stages' = stages, ShownNames' = ShownNames
  PROVE  SeededNames' = SeededNames /\ (EarlyVirtuals' <=> EarlyVirtuals)
<1>1. SeededNames' = SeededNames
  BY SamePlan DEF SeededNames
<1>2. QED
  BY <1>1, SamePlan DEF EarlyVirtuals

LEMMA PlacesAreNumbers ==
  ASSUME Built, NEW n \in Computed
  PROVE  Place(n) \in DOMAIN stages /\ Place(n) \in Nat
<1>1. PICK i \in DOMAIN stages : stages[i].name = n
  BY ComputedStage
<1>2. QED
  BY <1>1, PlaceOfName, BuiltStages

\* The stage in this place is passed next.
LEMMA Passing ==
  ASSUME IInv, EarlyVirtuals, Reached("feature") \/ Reached("step"),
         stages' = stages, slot' = slot + 1
  PROVE  LET n == stages[At(slot)].name
         IN  /\ n \in Computed /\ Place(n) = slot /\ n \notin Passed
             /\ Passed' = Passed \cup {n}
             /\ StageOf(n) = stages[At(slot)]
             /\ n \in NamesOf(stages, "feature") <=> Reached("feature")
             /\ n \in NamesOf(stages, "step") <=> Reached("step")
<1> DEFINE n == stages[At(slot)].name
<1>0. Built /\ slot \in Nat /\ slot \in DOMAIN stages /\ Kept(slot)
  BY BuiltStages DEF Reached, IInv, TypeOK
<1>1. At(slot) \in DOMAIN stages /\ stages[At(slot)].kind \in {"feature", "step"}
  BY <1>0, KeptIsAt DEF Reached
<1>2. n \in Computed
  BY <1>1 DEF Computed, NamesOf, OfKind
<1>3. StageOf(n) = stages[At(slot)]
  BY <1>0, <1>1, StageOfName
<1>4. /\ n \in NamesOf(stages, "feature") <=> Reached("feature")
      /\ n \in NamesOf(stages, "step") <=> Reached("step")
  BY <1>0, <1>1, <1>2, <1>3, ComputedStage DEF Reached
<1>5. \A m \in Computed : Place(m) = slot <=> m = n
  BY <1>0, <1>1, ComputedInPlace
<1>6. \A m \in Computed : Place(m) \in Nat
  BY <1>0, PlacesAreNumbers
<1> HIDE DEF n
<1>7. Place(n) = slot /\ n \notin Passed
  BY <1>0, <1>2, <1>5 DEF Passed
<1>8. \A m \in Computed : Place(m) < slot + 1 <=> Place(m) < slot \/ m = n
  BY <1>0, <1>5, <1>6
<1>9. Passed' = Passed \cup {n}
  BY <1>2, <1>8, SamePlan DEF Passed
<1>10. QED
  BY <1>2, <1>3, <1>4, <1>7, <1>9 DEF n

\* What is seeded stays, and only the stage in this place may be pruned.
Continues ==
  /\ stages' = stages /\ ShownNames' = ShownNames
  /\ \A n \in SeededNames : n \in DOMAIN stepCtx' /\ stepCtx'[n] = stepCtx[n]
  /\ pruned \subseteq pruned' /\ prunedSteps \subseteq prunedSteps'
  /\ \A n \in (pruned' \ pruned) \cup (prunedSteps' \ prunedSteps) : Place(n) = slot

LEMMA ServedAsBefore ==
  ASSUME IInv, CallInv, EarlyVirtuals, Continues,
         NEW sel, NEW place \in Nat, place <= slot
  PROVE  Served(sel, place, Gone)' <=> Served(sel, place, Gone)
<1>0. Built /\ slot \in Nat
  BY BuiltStages DEF IInv, TypeOK
<1>1. stages' = stages /\ SeededNames' = SeededNames /\ SeededNames \subseteq DOMAIN stepCtx
  BY SameSeeds DEF Continues, CallInv, ContextsTell
<1>2. sel[1] \in SeededNames => (Found(sel, stepCtx)' <=> Found(sel, stepCtx))
  BY <1>1 DEF Found, Continues
<1>3. ASSUME sel[1] \in NamesOf(stages, "feature"), Place(sel[1]) < place
      PROVE  sel[1] \in Gone' <=> sel[1] \in Gone
  <2>1. sel[1] \in Computed
    BY <1>3 DEF Computed
  <2>2. Place(sel[1]) \in Nat
    BY <1>0, <2>1, PlacesAreNumbers
  <2>3. Place(sel[1]) # slot
    BY <1>0, <1>3, <2>2
  <2>4. QED
    BY <2>3 DEF Continues, Gone
<1>4. KeysOf(StageOf(sel[1]))' = KeysOf(StageOf(sel[1])) /\ Place(sel[1])' = Place(sel[1])
  BY <1>1, SamePlan DEF KeysOf
<1>5. NamesOf(stages, "feature")' = NamesOf(stages, "feature")
  BY <1>1, SamePlan
<1>6. QED
  BY <1>1, <1>2, <1>3, <1>4, <1>5 DEF Served

LEMMA StarvesAsBefore ==
  ASSUME IInv, CallInv, EarlyVirtuals, Continues, NEW n \in Computed, Place(n) <= slot
  PROVE  Starves(n, Gone)' <=> Starves(n, Gone)
<1>1. \A sel : Served(sel, Place(n), Gone)' <=> Served(sel, Place(n), Gone)
  <2>1. Place(n) \in Nat
    BY PlacesAreNumbers DEF IInv
  <2>2. ASSUME NEW sel PROVE Served(sel, Place(n), Gone)' <=> Served(sel, Place(n), Gone)
    <3> DEFINE place == Place(n)
    <3>1. stages' = stages
      BY DEF Continues
    <3>2. Place(n)' = Place(n)
      BY <3>1, SamePlan
    <3>3. QED
      BY <2>1, <3>2, ServedAsBefore DEF Served
  <2>3. QED
    BY <2>2
<1>2. Needs(StageOf(n))' = Needs(StageOf(n))
  <2> DEFINE st == StageOf(n)
  <2>1. st' = st
    BY SamePlan DEF Continues
  <2> HIDE DEF st
  <2>2. Needs(st)' = Needs(st)
    BY <2>1 DEF Needs, Methods
  <2>3. QED
    BY <2>2 DEF st
<1>3. QED
  BY <1>1, <1>2 DEF Starves

LEMMA StaysJudged ==
  ASSUME IInv, CallInv, EarlyVirtuals, Continues, NEW n \in Passed
  PROVE  n \in Gone' <=> n \in Blank' \/ Starves(n, Gone)'
<1>0. /\ n \in Computed /\ Place(n) < slot /\ Place(n) \in Nat /\ slot \in Nat
      /\ stages' = stages
  BY PlacesAreNumbers, BuiltStages DEF IInv, TypeOK, Passed, Continues
<1>1. Place(n) <= slot /\ Place(n) # slot
  BY <1>0
<1>2. n \in Gone' <=> n \in Gone
  BY <1>1 DEF Continues, Gone
<1>3. n \in pruned' <=> n \in pruned
  BY <1>1 DEF Continues
<1>4. n \in Blank' <=> n \in Blank
  BY <1>0, <1>3, SamePlan DEF Blank
<1>5. Starves(n, Gone)' <=> Starves(n, Gone)
  BY <1>0, <1>1, StarvesAsBefore
<1>6. QED
  BY <1>2, <1>4, <1>5 DEF CallInv, Judged

-----------------------------------------------------------------------------
(* The steps of a call whose virtuals are early                            *)

\* In the place that is next, a selector is found if what it needs is not gone.
LEMMA FoundIsServed ==
  ASSUME IInv, CallInv, EarlyVirtuals, NEW sel
  PROVE  /\ Found(sel, stepCtx) <=> Served(sel, slot, Gone)
         /\ Served(sel, slot, Gone) => sel[1] \notin pruned \cup Unfulfilled
<1> DEFINE n == sel[1]
<1>0. /\ SeededNames \cap NamesOf(stages, "feature") = {}
      /\ NamesOf(stages, "step") \cap NamesOf(stages, "feature") = {}
      /\ Unfulfilled \cap (SeededNames \cup ShownNames \cup Computed) = {}
      /\ pruned \subseteq NamesOf(stages, "feature") /\ prunedSteps \subseteq NamesOf(stages, "step")
  BY SeedsApart, UnfulfilledApart DEF IInv, TypeOK
<1>1. DOMAIN stepCtx = SeededNames \cup Published /\ \A m \in Published : stepCtx[m] = KeysOf(StageOf(m))
  BY DEF CallInv, ContextsTell
<1>2. n \in Published <=> n \in NamesOf(stages, "feature") \ Gone /\ Place(n) < slot
  BY <1>0 DEF Published, Gone, Passed, Computed
<1> HIDE DEF n
<1>3. CASE n \in SeededNames
  BY <1>0, <1>3 DEF Served, n
<1>4. CASE n \in Published
  <2>1. n \in DOMAIN stepCtx /\ stepCtx[n] = KeysOf(StageOf(n)) /\ n \notin SeededNames
    BY <1>0, <1>1, <1>2, <1>4
  <2>2. n \notin pruned \cup Unfulfilled
    BY <1>0, <1>2, <1>4 DEF Gone, Computed
  <2>3. QED
    BY <1>2, <1>4, <2>1, <2>2 DEF Served, Found, n
<1>5. CASE n \notin SeededNames \cup Published
  BY <1>1, <1>2, <1>5 DEF Served, Found, n
<1>6. QED
  BY <1>3, <1>4, <1>5 DEF n

\* The stage that is passed is judged by what it found.
LEMMA PassingJudges ==
  ASSUME IInv, CallInv, EarlyVirtuals, Reached("feature") \/ Reached("step"),
         Continues, slot' = slot + 1,
         NEW n, n = stages[At(slot)].name,
         Gone' \subseteq Gone \cup {n},
         n \in Gone' <=> \/ n \in Blank'
                         \/ \E sel \in Needs(stages[At(slot)]) : ~Found(sel, stepCtx)
  PROVE  Judged' /\ Gone' \subseteq Passed'
<1>0. stages' = stages /\ slot \in Nat
  BY BuiltStages DEF Continues, IInv, TypeOK
<1>1. /\ n \in Computed /\ Place(n) = slot /\ Passed' = Passed \cup {n}
      /\ StageOf(n) = stages[At(slot)]
  BY <1>0, Passing
<1>2. Starves(n, Gone) <=> \E sel \in Needs(stages[At(slot)]) : ~Found(sel, stepCtx)
  <2>1. \A sel : Found(sel, stepCtx) <=> Served(sel, slot, Gone)
    BY FoundIsServed
  <2>2. QED
    BY <1>1, <2>1 DEF Starves
<1>3. Starves(n, Gone)' <=> Starves(n, Gone)
  BY <1>0, <1>1, StarvesAsBefore
<1>4. \A m \in Passed : m \in Gone' <=> m \in Blank' \/ Starves(m, Gone)'
  BY StaysJudged
<1>5. Judged'
  BY <1>1, <1>2, <1>3, <1>4 DEF Judged
<1>6. Gone' \subseteq Passed'
  BY <1>1 DEF CallInv
<1>7. QED
  BY <1>5, <1>6

\* A step that does not run has no answer to a step's selectors, and vice versa.
LEMMA StepTells ==
  ASSUME IInv, CallInv, EarlyVirtuals, NEW i \in DOMAIN stages, Step(stages[i])
  PROVE  (ContextsTell /\ Gone \subseteq Passed /\ MethodsServed /\ Judged)'
<1> DEFINE st == stages[i]
<1>1. PICK n : n = stages[At(slot)].name
  OBVIOUS
<1>2. /\ Reached("step") /\ st = stages[At(slot)] /\ st.kind = "step" /\ slot' = slot + 1
      /\ stages' = stages /\ stepCtx' = stepCtx /\ exprCtx' = exprCtx /\ pruned' = pruned
      /\ evaluated' = evaluated
  BY DEF Step, Reached
<1>3. /\ n \in Computed /\ Place(n) = slot /\ n \notin Passed /\ Passed' = Passed \cup {n}
      /\ StageOf(n) = st /\ n \in NamesOf(stages, "step")
      /\ n \notin NamesOf(stages, "feature")
  BY <1>1, <1>2, Passing, SeedsApart DEF IInv
<1>4. ContextsTell /\ Gone \subseteq Passed
  BY DEF CallInv
<1>5. ShownNames' = ShownNames /\ SeededNames' = SeededNames
  <2>1. ShownNames' = ShownNames
    BY <1>2, SamePlan DEF ShownNames
  <2>2. QED
    BY <1>2, <2>1, SameSeeds
<1> DEFINE ran == \A sel \in st.reads : Found(sel, stepCtx)
<1>6. IF ran THEN stepResultCtx' = With(stepResultCtx, n, st.keys) /\ prunedSteps' = prunedSteps
      ELSE prunedSteps' = prunedSteps \cup {n} /\ stepResultCtx' = stepResultCtx
  <2>1. ran => Selectable(st.reads)
    BY FoundIsServed DEF Selectable
  <2>2. QED
    BY <1>1, <1>2, <2>1 DEF Step
<1>7. Continues
  BY <1>2, <1>3, <1>4, <1>5, <1>6 DEF Continues, ContextsTell
<1>8. (Gone \subseteq Passed /\ Judged)'
  <2>1. Gone' \subseteq Gone \cup {n} /\ (n \in Gone' <=> ~ran)
    BY <1>2, <1>3, <1>4, <1>6 DEF Gone
  <2>2. n \notin Blank' /\ Needs(st) = st.reads
    BY <1>2, <1>3, <1>4 DEF Blank, Needs, Gone
  <2>3. n \in Gone' <=> n \in Blank' \/ \E sel \in Needs(stages[At(slot)]) : ~Found(sel, stepCtx)
    BY <1>2, <2>1, <2>2
  <2>4. QED
    BY <1>1, <1>2, <1>7, <2>1, <2>3, PassingJudges
<1>9. MethodsServed'
  BY <1>2 DEF MethodsServed, IInv, TypeOK, Reached
<1>10. ContextsTell'
  <2>1. Published' = Published
    BY <1>2, <1>3, SamePlan DEF Published
  <2>2. \A m : StageOf(m)' = StageOf(m) /\ KeysOf(StageOf(m))' = KeysOf(StageOf(m))
              /\ PublicView(StageOf(m))' = PublicView(StageOf(m))
    BY <1>2, SameViews
  <2>3. DOMAIN stepResultCtx' = {m \in NamesOf(stages, "step") \cap Passed' : m \notin prunedSteps'}
    BY <1>3, <1>4, <1>6 DEF ContextsTell, With, Gone
  <2>4. \A m \in DOMAIN stepResultCtx' : stepResultCtx'[m] = StageOf(m).keys
    BY <1>3, <1>4, <1>6 DEF ContextsTell, With
  <2>5. /\ NamesOf(stages, "feature")' = NamesOf(stages, "feature")
        /\ NamesOf(stages, "step")' = NamesOf(stages, "step")
    BY <1>2, SamePlan
  <2>6. QED
    BY <1>2, <1>4, <1>5, <2>1, <2>2, <2>3, <2>4, <2>5 DEF ContextsTell
<1>11. QED
  BY <1>8, <1>9, <1>10

LEMMA PublishTells ==
  ASSUME IInv, CallInv, EarlyVirtuals, NEW i \in DOMAIN stages, Publish(stages[i])
  PROVE  (ContextsTell /\ Gone \subseteq Passed /\ MethodsServed /\ Judged)'
<1> DEFINE st == stages[i]
<1>1. PICK n : n = stages[At(slot)].name
  OBVIOUS
<1>2. /\ Reached("feature") /\ st = stages[At(slot)] /\ st.kind = "feature" /\ slot' = slot + 1
      /\ stages' = stages /\ pruned' = pruned /\ prunedSteps' = prunedSteps
      /\ stepResultCtx' = stepResultCtx /\ evaluated' = 0 /\ evaluated = Len(st.props)
      /\ stepCtx' = With(stepCtx, n, KeysOf(st))
      /\ exprCtx' = IF st.shown = "none" THEN exprCtx ELSE With(exprCtx, n, PublicView(st))
  BY <1>1 DEF Publish, Reached
<1>3. /\ n \in Computed /\ Place(n) = slot /\ n \notin Passed /\ Passed' = Passed \cup {n}
      /\ StageOf(n) = st /\ n \in NamesOf(stages, "feature")
      /\ n \notin NamesOf(stages, "step") /\ n \notin SeededNames
  BY <1>1, <1>2, Passing, SeedsApart DEF IInv
<1>4. ContextsTell /\ Gone \subseteq Passed /\ MethodsServed
  BY DEF CallInv
<1>5. ShownNames' = ShownNames /\ SeededNames' = SeededNames
  <2>1. DOMAIN exprCtx' \ NamesOf(stages, "feature") = DOMAIN exprCtx \ NamesOf(stages, "feature")
    BY <1>2, <1>3 DEF With
  <2>2. ShownNames' = ShownNames
    BY <1>2, <2>1, SamePlan DEF ShownNames
  <2>3. QED
    BY <1>2, <2>2, SameSeeds
<1>6. Continues
  <2>1. \A m \in SeededNames : m \in DOMAIN stepCtx' /\ stepCtx'[m] = stepCtx[m]
    BY <1>2, <1>3, <1>4 DEF With, ContextsTell
  <2>2. QED
    BY <1>2, <1>5, <2>1 DEF Continues
<1>7. (Gone \subseteq Passed /\ Judged)'
  <2>1. Gone' = Gone /\ n \notin Gone' /\ n \notin Blank'
    BY <1>2, <1>3, <1>4 DEF Gone, Blank
  <2>2. \A k \in DOMAIN st.props : k \in 1..evaluated
    BY <1>2, BuiltStages DEF IInv
  <2>3. \A sel \in Needs(st) : Found(sel, stepCtx)
    BY <1>2, <1>4, <2>2 DEF Needs, Methods, MethodsServed
  <2>4. n \in Gone' <=> n \in Blank' \/ \E sel \in Needs(stages[At(slot)]) : ~Found(sel, stepCtx)
    BY <1>2, <2>1, <2>3
  <2>5. QED
    BY <1>1, <1>2, <1>6, <2>1, <2>4, PassingJudges
<1>8. MethodsServed'
  BY <1>2 DEF MethodsServed
<1>9. ContextsTell'
  <2>1. Published' = Published \cup {n}
    BY <1>2, <1>3, <1>4, SamePlan DEF Published, Gone
  <2>2. \A m : StageOf(m)' = StageOf(m) /\ KeysOf(StageOf(m))' = KeysOf(StageOf(m))
              /\ PublicView(StageOf(m))' = PublicView(StageOf(m))
    BY <1>2, SameViews
  <2>3. DOMAIN stepCtx' = SeededNames \cup Published'
    BY <1>2, <1>4, <2>1 DEF ContextsTell, With
  <2>4. \A m \in Published' : stepCtx'[m] = KeysOf(StageOf(m))
    BY <1>2, <1>3, <1>4, <2>1 DEF ContextsTell, With
  <2>5. n \notin Published
    BY <1>3 DEF Published
  <2>6. \A m \in NamesOf(stages, "feature") :
          /\ m \in DOMAIN exprCtx' <=> m \in Published' /\ StageOf(m).shown # "none"
          /\ m \in DOMAIN exprCtx' => exprCtx'[m] = PublicView(StageOf(m))
    BY <1>2, <1>3, <1>4, <2>1, <2>5 DEF ContextsTell, With
  <2>7. DOMAIN stepResultCtx' = {m \in NamesOf(stages, "step") \cap Passed' : m \notin prunedSteps'}
    BY <1>2, <1>3, <1>4 DEF ContextsTell
  <2>8. /\ NamesOf(stages, "feature")' = NamesOf(stages, "feature")
        /\ NamesOf(stages, "step")' = NamesOf(stages, "step")
    BY <1>2, SamePlan
  <2>9. \A m \in DOMAIN stepResultCtx' : stepResultCtx'[m] = StageOf(m).keys
    BY <1>2, <1>4 DEF ContextsTell
  <2> HIDE DEF st
  <2>10. QED
    BY <1>4, <1>5, <2>2, <2>3, <2>4, <2>6, <2>7, <2>8, <2>9 DEF ContextsTell
<1>10. QED
  BY <1>7, <1>8, <1>9

LEMMA PruneTells ==
  ASSUME IInv, CallInv, EarlyVirtuals, NEW p, Prune,
         \/ AtProperty("indirect", p) /\ \E text \in p.inner : text.form = "nothing"
         \/ AtProperty("method", p) /\ \E sel \in p.reads : ~Found(sel, stepCtx)
  PROVE  (ContextsTell /\ Gone \subseteq Passed /\ MethodsServed /\ Judged)'
<1>1. PICK n, st : st = stages[At(slot)] /\ n = st.name
  OBVIOUS
<1>2. /\ Reached("feature") /\ st.kind = "feature" /\ slot' = slot + 1
      /\ stages' = stages /\ stepCtx' = stepCtx /\ exprCtx' = exprCtx
      /\ pruned' = pruned \cup {n} /\ prunedSteps' = prunedSteps
      /\ stepResultCtx' = stepResultCtx /\ evaluated' = 0
  BY <1>1 DEF Prune, AtProperty, Reached
<1>3. /\ n \in Computed /\ Place(n) = slot /\ n \notin Passed /\ Passed' = Passed \cup {n}
      /\ StageOf(n) = st /\ n \in NamesOf(stages, "feature")
      /\ n \notin NamesOf(stages, "step")
  BY <1>1, <1>2, Passing, SeedsApart DEF IInv
<1>4. ContextsTell /\ Gone \subseteq Passed
  BY DEF CallInv
<1>5. ShownNames' = ShownNames /\ SeededNames' = SeededNames
  <2>1. ShownNames' = ShownNames
    BY <1>2, SamePlan DEF ShownNames
  <2>2. QED
    BY <1>2, <2>1, SameSeeds
<1>6. Continues
  BY <1>2, <1>3, <1>4, <1>5 DEF Continues, ContextsTell
<1>7. (Gone \subseteq Passed /\ Judged)'
  <2>1. Gone' = Gone \cup {n}
    BY <1>2 DEF Gone
  <2>2. PICK k \in DOMAIN st.props : p = st.props[k]
    <3>1. At(slot) \in DOMAIN stages /\ Built
      BY <1>2, KeptIsAt DEF Reached, IInv
    <3>2. st.props \in Seq(Property) /\ evaluated \in Nat
      BY <1>1, <3>1, BuiltStages DEF IInv, TypeOK
    <3>3. evaluated < Len(st.props) /\ p = st.props[evaluated + 1]
      BY <1>1 DEF AtProperty
    <3>4. evaluated + 1 \in DOMAIN st.props
      BY <3>2, <3>3
    <3>5. QED
      BY <3>3, <3>4
  <2>3. CASE AtProperty("indirect", p) /\ \E text \in p.inner : text.form = "nothing"
    <3>1. StageOf(n)' = st
      BY <1>2, <1>3, SamePlan
    <3>2. n \in Blank'
      BY <1>2, <2>2, <2>3, <3>1 DEF Blank
    <3>3. QED
      BY <2>1, <3>2, <1>1, <1>2, <1>6, PassingJudges
  <2>4. CASE AtProperty("method", p) /\ \E sel \in p.reads : ~Found(sel, stepCtx)
    <3>1. \E sel \in Needs(st) : ~Found(sel, stepCtx)
      BY <1>2, <2>2, <2>4 DEF Needs, Methods, AtProperty
    <3>2. QED
      BY <2>1, <3>1, <1>1, <1>2, <1>6, PassingJudges
  <2>5. QED
    BY <2>3, <2>4
<1>8. MethodsServed'
  BY <1>2 DEF MethodsServed
<1>9. ContextsTell'
  <2>1. Published' = Published
    BY <1>2, <1>3, SamePlan DEF Published
  <2>2. \A m : StageOf(m)' = StageOf(m) /\ KeysOf(StageOf(m))' = KeysOf(StageOf(m))
              /\ PublicView(StageOf(m))' = PublicView(StageOf(m))
    BY <1>2, SameViews
  <2>3. NamesOf(stages, "step") \cap Passed' = NamesOf(stages, "step") \cap Passed
    BY <1>3
  <2>4. /\ NamesOf(stages, "feature")' = NamesOf(stages, "feature")
        /\ NamesOf(stages, "step")' = NamesOf(stages, "step")
    BY <1>2, SamePlan
  <2>5. QED
    BY <1>2, <1>4, <1>5, <2>1, <2>2, <2>3, <2>4 DEF ContextsTell
<1>10. QED
  BY <1>7, <1>8, <1>9

\* A step of the call that passes no stage of the pipeline.
LEMMA QuietTells ==
  ASSUME IInv, CallInv, EarlyVirtuals,
         UNCHANGED <<stages, stepCtx, exprCtx, stepResultCtx, pruned, prunedSteps>>,
         Passed' = Passed, MethodsServed'
  PROVE  (ContextsTell /\ Gone \subseteq Passed /\ MethodsServed /\ Judged)'
<1>1. ContextsTell /\ Gone \subseteq Passed
  BY DEF CallInv
<1>2. ShownNames' = ShownNames /\ SeededNames' = SeededNames /\ Gone' = Gone
  <2>1. ShownNames' = ShownNames /\ Gone' = Gone
    BY SamePlan DEF ShownNames, Gone
  <2>2. QED
    BY <2>1, SameSeeds
<1>3. Continues
  BY <1>1, <1>2 DEF Continues, ContextsTell
<1>4. Judged' /\ Gone' \subseteq Passed'
  BY <1>1, <1>2, <1>3, StaysJudged DEF Judged
<1>5. ContextsTell'
  <2>1. Published' = Published
    BY SamePlan DEF Published
  <2>2. \A m : StageOf(m)' = StageOf(m) /\ KeysOf(StageOf(m))' = KeysOf(StageOf(m))
              /\ PublicView(StageOf(m))' = PublicView(StageOf(m))
    BY SameViews
  <2>3. /\ NamesOf(stages, "feature")' = NamesOf(stages, "feature")
        /\ NamesOf(stages, "step")' = NamesOf(stages, "step")
    BY SamePlan
  <2>4. QED
    BY <1>1, <1>2, <2>1, <2>2, <2>3 DEF ContextsTell
<1>6. QED
  BY <1>4, <1>5

LEMMA SkipTells ==
  ASSUME IInv, CallInv, EarlyVirtuals, Skip
  PROVE  (ContextsTell /\ Gone \subseteq Passed /\ MethodsServed /\ Judged)'
<1>0. slot \in DOMAIN stages /\ slot \in Nat /\ slot' = slot + 1 /\ Built
  BY BuiltStages DEF Skip, IInv, TypeOK
<1>1. evaluated' = 0
  BY DEF Skip, IInv, TypeOK, Reached
<1>2. MethodsServed'
  BY <1>1 DEF MethodsServed
<1>3. \A m \in Computed : Place(m) # slot /\ Place(m) \in Nat
  BY <1>0, ComputedInPlace, PlacesAreNumbers DEF Skip
<1>4. \A m \in Computed : Place(m) < slot + 1 <=> Place(m) < slot
  BY <1>0, <1>3
<1>5. Passed' = Passed
  BY <1>0, <1>4, SamePlan DEF Passed, Skip
<1>6. QED
  BY <1>2, <1>5, QuietTells DEF Skip

LEMMA LeaveTells ==
  ASSUME IInv, CallInv, EarlyVirtuals, outcome' # "running",
         UNCHANGED <<stages, slot, stepCtx, exprCtx, stepResultCtx, pruned, prunedSteps>>
  PROVE  (ContextsTell /\ Gone \subseteq Passed /\ MethodsServed /\ Judged)'
<1>1. MethodsServed'
  BY DEF MethodsServed, Reached
<1>2. Passed' = Passed
  BY SamePlan DEF Passed
<1>3. QED
  BY <1>1, <1>2, QuietTells

LEMMA EvaluateTells ==
  ASSUME IInv, CallInv, EarlyVirtuals, NEW p, NEW kind, AtProperty(kind, p), Evaluate,
         kind = "method" => \A sel \in p.reads : Found(sel, stepCtx)
  PROVE  (ContextsTell /\ Gone \subseteq Passed /\ MethodsServed /\ Judged)'
<1>1. MethodsServed /\ Reached("feature") /\ evaluated \in Nat /\ evaluated' = evaluated + 1
  BY DEF CallInv, AtProperty, Evaluate, IInv, TypeOK
<1>2. \A k \in 1..(evaluated + 1) :
        LET q == stages[At(slot)].props[k]
        IN  q.kind = "method" => \A sel \in q.reads : Found(sel, stepCtx)
  <2>1. \A k \in 1..(evaluated + 1) : k \in 1..evaluated \/ k = evaluated + 1
    BY <1>1
  <2>2. QED
    BY <1>1, <2>1 DEF MethodsServed, AtProperty
<1>3. MethodsServed'
  BY <1>1, <1>2, SameReach DEF MethodsServed, Evaluate, Found
<1>4. Passed' = Passed
  BY SamePlan DEF Passed, Evaluate
<1>5. QED
  BY <1>3, <1>4, QuietTells DEF Evaluate

LEMMA StillTells ==
  ASSUME IInv, CallInv, EarlyVirtuals, UNCHANGED vars
  PROVE  (ContextsTell /\ Gone \subseteq Passed /\ MethodsServed /\ Judged)'
<1>1. MethodsServed'
  BY SameReach DEF CallInv, MethodsServed, vars, Found
<1>2. Passed' = Passed
  BY SamePlan DEF Passed, vars
<1>3. QED
  BY <1>1, <1>2, QuietTells DEF vars

\* No step changes which pipeline is called, or which names were there before.
LEMMA SameCall ==
  ASSUME IInv, [Next]_vars
  PROVE  stages' = stages /\ ShownNames' = ShownNames
<1>1. CASE stages' = stages /\ exprCtx' = exprCtx
  BY <1>1, SamePlan DEF ShownNames
<1>2. ASSUME NEW i \in DOMAIN stages, Publish(stages[i])
      PROVE  stages' = stages /\ ShownNames' = ShownNames
  <2> DEFINE st == stages[i]
  <2>1. st.name \in NamesOf(stages, "feature") /\ stages' = stages
    BY <1>2 DEF Publish, Reached, NamesOf, OfKind
  <2>2. exprCtx' = exprCtx \/ exprCtx' = With(exprCtx, st.name, PublicView(st))
    BY <1>2 DEF Publish
  <2>3. DOMAIN exprCtx' \ NamesOf(stages, "feature") = DOMAIN exprCtx \ NamesOf(stages, "feature")
    BY <2>1, <2>2 DEF With
  <2>4. QED
    BY <2>1, <2>3, SamePlan DEF ShownNames
<1>3. CASE ~\E i \in DOMAIN stages : Publish(stages[i])
  <2>1. stages' = stages /\ exprCtx' = exprCtx
    BY <1>3 DEF Next, vars, Skip, Finish, Step, StepRejects, Expr, Indirect, Method, Run,
                Leave, Evaluate, Prune
  <2>2. QED
    BY <1>1, <2>1
<1>4. QED
  BY <1>2, <1>3

LEMMA NextCallInv ==
  ASSUME IInv, CallInv, [Next]_vars
  PROVE  CallInv'
<1> DEFINE Tells == ContextsTell /\ Gone \subseteq Passed /\ MethodsServed /\ Judged
<1>1. EarlyVirtuals' <=> EarlyVirtuals
  BY SameCall, SameSeeds
<1> SUFFICES ASSUME EarlyVirtuals PROVE Tells'
  BY <1>1 DEF CallInv
<1>2. CASE Skip
  BY <1>2, SkipTells
<1>3. CASE Finish
  BY <1>3, LeaveTells DEF Finish
<1>4. ASSUME NEW i \in DOMAIN stages, Step(stages[i]) PROVE Tells'
  BY <1>4, StepTells
<1>5. ASSUME NEW i \in DOMAIN stages, StepRejects(stages[i]) PROVE Tells'
  BY <1>5, LeaveTells DEF StepRejects, Leave
<1>6. ASSUME NEW i \in DOMAIN stages, Publish(stages[i]) PROVE Tells'
  BY <1>6, PublishTells
<1>7. ASSUME NEW how \in {"threw", "rejected"}, Leave(how) PROVE Tells'
  BY <1>7, LeaveTells DEF Leave
<1>8. ASSUME NEW p, Expr(p) PROVE Tells'
  BY <1>7, <1>8, EvaluateTells DEF Expr, Run
<1>9. ASSUME NEW p, Indirect(p) PROVE Tells'
  BY <1>7, <1>9, EvaluateTells, PruneTells DEF Indirect, Run
<1>10. ASSUME NEW p, Method(p) PROVE Tells'
  BY <1>7, <1>10, EvaluateTells, PruneTells DEF Method
<1>11. CASE UNCHANGED vars
  BY <1>11, StillTells
<1>12. QED
  BY <1>2, <1>3, <1>4, <1>5, <1>6, <1>8, <1>9, <1>10, <1>11 DEF Next

LEMMA InitCallInv == Init => CallInv
<1> SUFFICES ASSUME Init PROVE ContextsTell /\ Gone \subseteq Passed /\ MethodsServed /\ Judged
  BY DEF CallInv
<1>1. Built /\ slot = 1
  BY DEF Init, Built
<1>2. PICK given \in Inputs :
        /\ stepCtx = Seeded(given)
        /\ exprCtx = Overlay(Overlay(MergedInitial(given), Injected({"all"})), PureFunctions)
  BY DEF Init
<1>3. Passed = {}
  <2>1. \A n \in Computed : Place(n) \in DOMAIN stages /\ Place(n) \in Nat
    BY <1>1, PlacesAreNumbers
  <2>2. \A n \in Computed : ~ Place(n) < slot
    BY <1>1, <2>1, BuiltStages
  <2>3. QED
    BY <2>2 DEF Passed
<1>4. Published = {} /\ Gone = {}
  BY <1>3 DEF Published, Gone, Init
<1>5. MethodsServed /\ Judged
  BY <1>3 DEF Init, MethodsServed, Judged
<1> DEFINE injected(shown) == {i \in OfKind(stages, "injection") : stages[i].shown \in shown}
           names(shown) == {stages[i].name : i \in injected(shown)}
           merged == DOMAIN given \cup NamesOf(stages, "initialDefaults")
<1>6. DOMAIN exprCtx = merged \cup names({"all"}) \cup NamesOf(stages, "pureFunction")
  BY <1>2 DEF Overlay, MergedInitial, Injected, PureFunctions
<1>7. DOMAIN stepCtx = merged \cup NamesOf(stages, "injection")
  <2>1. DOMAIN stepCtx = merged \cup names({"all", "none"})
    BY <1>2 DEF Seeded, Overlay, MergedInitial, Injected
  <2>2. \A i \in OfKind(stages, "injection") : stages[i].shown \in {"all", "none"}
    <3>1. \A i \in DOMAIN stages : stages[i] \in Stage
      BY <1>1, BuiltStages
    <3>2. \A i \in OfKind(stages, "injection") : stages[i].shown # "some"
      BY <1>1, PipelinesAssumption DEF Built
    <3>3. QED
      BY <3>1, <3>2 DEF Stage, OfKind
  <2>3. names({"all", "none"}) = NamesOf(stages, "injection")
    BY <2>2 DEF NamesOf
  <2>4. QED
    BY <2>1, <2>3
<1>8. names({"all"}) \subseteq NamesOf(stages, "injection")
  BY DEF NamesOf
<1>9. \A kind, other : kind # other /\ kind # "virtual" /\ other # "virtual" =>
        NamesOf(stages, kind) \cap NamesOf(stages, other) = {}
  BY <1>1, OneUse DEF NamesOf, OfKind
<1>10. /\ NamesOf(stages, "feature") \cap DOMAIN given = {}
       /\ NamesOf(stages, "pureFunction") \cap DOMAIN given = {}
       /\ NamesOf(stages, "step") \cap DOMAIN given = {}
  BY <1>1, PipelinesAssumption DEF Built
<1>11. /\ NamesOf(stages, "feature") \cap NamesOf(stages, "initialDefaults") = {}
       /\ NamesOf(stages, "feature") \cap NamesOf(stages, "injection") = {}
       /\ NamesOf(stages, "feature") \cap NamesOf(stages, "pureFunction") = {}
       /\ NamesOf(stages, "step") \cap NamesOf(stages, "initialDefaults") = {}
       /\ NamesOf(stages, "step") \cap NamesOf(stages, "injection") = {}
       /\ NamesOf(stages, "step") \cap NamesOf(stages, "pureFunction") = {}
       /\ NamesOf(stages, "initialDefaults") \cap NamesOf(stages, "pureFunction") = {}
       /\ NamesOf(stages, "injection") \cap NamesOf(stages, "pureFunction") = {}
  BY <1>9
<1> HIDE DEF names
<1>12. NamesOf(stages, "step") \cap ShownNames = {}
  BY <1>6, <1>8, <1>10, <1>11 DEF ShownNames
<1>13. NamesOf(stages, "feature") \cap DOMAIN exprCtx = {}
  BY <1>6, <1>8, <1>10, <1>11
<1>14. DOMAIN stepCtx = SeededNames
  BY <1>6, <1>7, <1>8, <1>10, <1>11 DEF SeededNames, ShownNames
<1>15. stepResultCtx = [n \in {} |-> {}]
  BY DEF Init
<1>16. ContextsTell
  BY <1>3, <1>4, <1>12, <1>13, <1>14, <1>15 DEF ContextsTell
<1>17. QED
  BY <1>3, <1>4, <1>5, <1>16

-----------------------------------------------------------------------------
(* How a call ends                                                         *)

\* The property that is next does not keep to what its place offers.
Careless ==
  \E n \in Computed :
    /\ Place(n) = slot /\ evaluated < Len(StageOf(n).props)
    /\ LET p == StageOf(n).props[evaluated + 1]
       IN  p.kind \in {"expr", "indirect"} /\ ~Careful(p)

\* What a step can count on is in its context, and so for an inner expression.
LEMMA CountedIsThere ==
  ASSUME IInv, CallInv, EarlyVirtuals, NEW sel, sel[2] \in Keys
  PROVE  /\ CountsOn(sel, slot, SeededNames, {"all", "none", "some"}) => sel[1] \in DOMAIN stepCtx
         /\ CountsOn(sel, slot, ShownNames, {"all", "some"}) => sel[1] \in DOMAIN exprCtx
<1>1. ContextsTell /\ sel[2] # Whole /\ sel[2] # Call
  BY NamesAssumption DEF CallInv
<1>2. \A n \in NamesOf(stages, "feature") \ pruned : Place(n) < slot => n \in Published
  BY DEF Published, Passed, Computed
<1>3. ASSUME NEW seen, NEW shown, CountsOn(sel, slot, seen, shown)
      PROVE  \/ sel[1] \in seen
             \/ /\ sel[1] \in NamesOf(stages, "feature") \ pruned
                /\ Place(sel[1]) < slot /\ StageOf(sel[1]).shown \in shown
  BY <1>1, <1>3 DEF CountsOn
<1>4. CountsOn(sel, slot, SeededNames, {"all", "none", "some"}) => sel[1] \in DOMAIN stepCtx
  BY <1>1, <1>2, <1>3 DEF ContextsTell
<1>5. CountsOn(sel, slot, ShownNames, {"all", "some"}) => sel[1] \in DOMAIN exprCtx
  BY <1>1, <1>2, <1>3 DEF ContextsTell, ShownNames
<1>6. QED
  BY <1>4, <1>5

\* What it can count on to call is a function there: none, for a step.
LEMMA CountedIsCallable ==
  ASSUME IInv, CallInv, EarlyVirtuals, NEW sel, sel[2] = Call
  PROVE  /\ CountsOn(sel, slot, SeededNames, {"all", "none", "some"}) => sel[1] \in Callable(stepCtx)
         /\ CountsOn(sel, slot, ShownNames, {"all", "some"}) => sel[1] \in Callable(exprCtx)
<1>1. ContextsTell /\ sel[2] # Whole
  BY NamesAssumption DEF CallInv
<1>2. ASSUME NEW seen, NEW shown, CountsOn(sel, slot, seen, shown)
      PROVE  sel[1] \in seen /\ sel[1] \in NamesOf(stages, "pureFunction")
  BY <1>1, <1>2 DEF CountsOn
<1>3. CountsOn(sel, slot, SeededNames, {"all", "none", "some"}) => sel[1] \in Callable(stepCtx)
  BY <1>1, <1>2 DEF ContextsTell, Callable
<1>4. CountsOn(sel, slot, ShownNames, {"all", "some"}) => sel[1] \in Callable(exprCtx)
  BY <1>1, <1>2 DEF ShownNames, Callable
<1>5. QED
  BY <1>3, <1>4

\* No expression throws that reads and calls what it can count on.
LEMMA ThrowingCountsInVain ==
  ASSUME IInv, CallInv, EarlyVirtuals, NEW reads
  PROVE  /\ Throws(reads, stepCtx) => ~CountsOnAll(reads, slot, SeededNames, {"all", "none", "some"})
         /\ Throws(reads, exprCtx) => ~CountsOnAll(reads, slot, ShownNames, {"all", "some"})
<1>1. ASSUME NEW sel \in reads, sel[2] \in Keys
      PROVE  /\ CountsOn(sel, slot, SeededNames, {"all", "none", "some"}) => sel[1] \in DOMAIN stepCtx
             /\ CountsOn(sel, slot, ShownNames, {"all", "some"}) => sel[1] \in DOMAIN exprCtx
  BY <1>1, CountedIsThere
<1>2. ASSUME NEW sel \in reads, sel[2] = Call
      PROVE  /\ CountsOn(sel, slot, SeededNames, {"all", "none", "some"}) => sel[1] \in Callable(stepCtx)
             /\ CountsOn(sel, slot, ShownNames, {"all", "some"}) => sel[1] \in Callable(exprCtx)
  BY <1>2, CountedIsCallable
<1>3. Throws(reads, stepCtx) => ~CountsOnAll(reads, slot, SeededNames, {"all", "none", "some"})
  BY <1>1, <1>2 DEF Throws, CountsOnAll
<1>4. Throws(reads, exprCtx) => ~CountsOnAll(reads, slot, ShownNames, {"all", "some"})
  BY <1>1, <1>2 DEF Throws, CountsOnAll
<1>5. QED
  BY <1>3, <1>4

\* How an expression, or a text that an outer one yielded, throws.
ThrowsThere(p) ==
  \/ Throws(p.reads, stepCtx)
  \/ \E text \in p.inner : text.form = "unparsable" \/ Throws(text.reads, exprCtx)

LEMMA ThrowingIsCareless ==
  ASSUME IInv, CallInv, EarlyVirtuals, NEW p, NEW kind \in {"expr", "indirect"}, AtProperty(kind, p),
         ThrowsThere(p)
  PROVE  Careless
<1>1. Reached("feature") /\ Built /\ slot \in DOMAIN stages /\ Kept(slot)
  BY DEF AtProperty, Reached, IInv
<1>2. At(slot) \in DOMAIN stages /\ stages[At(slot)].kind = "feature"
  BY <1>1, KeptIsAt DEF Reached
<1>3. PICK n, st : st = stages[At(slot)] /\ n = st.name
  OBVIOUS
<1>4. n \in Computed /\ StageOf(n) = st /\ Place(n) = slot
  <2>1. n \in Computed
    BY <1>2, <1>3 DEF Computed, NamesOf, OfKind
  <2>2. QED
    BY <1>1, <1>2, <1>3, <2>1, StageOfName, ComputedInPlace
<1>5. evaluated < Len(st.props) /\ p = st.props[evaluated + 1] /\ p.kind \in {"expr", "indirect"}
  BY <1>3 DEF AtProperty
<1>6. ~Careful(p)
  <2>1. CASE Throws(p.reads, stepCtx)
    BY <2>1, ThrowingCountsInVain DEF Careful
  <2>2. ASSUME NEW text \in p.inner, text.form = "unparsable" \/ Throws(text.reads, exprCtx)
        PROVE  ~Careful(p)
    BY <2>2, ThrowingCountsInVain DEF Careful
  <2>3. QED
    BY <2>1, <2>2 DEF ThrowsThere
<1>7. QED
  BY <1>4, <1>5, <1>6 DEF Careless

LEMMA CarelessAsBefore ==
  ASSUME UNCHANGED <<stages, slot, evaluated, exprCtx, pruned>>, Careless
  PROVE  Careless'
<1>1. /\ ShownNames' = ShownNames /\ SeededNames' = SeededNames /\ Computed' = Computed
      /\ NamesOf(stages, "feature")' = NamesOf(stages, "feature")
      /\ NamesOf(stages, "pureFunction")' = NamesOf(stages, "pureFunction")
  BY SamePlan, SameSeeds DEF ShownNames, NamesOf, OfKind
<1>2. PICK n, p :
        /\ n \in Computed /\ Place(n) = slot /\ evaluated < Len(StageOf(n).props)
        /\ p = StageOf(n).props[evaluated + 1]
        /\ p.kind \in {"expr", "indirect"} /\ ~Careful(p)
  BY DEF Careless
<1>3. ASSUME NEW sel, NEW shown
      PROVE  /\ CountsOn(sel, slot, SeededNames, shown)' <=> CountsOn(sel, slot, SeededNames, shown)
             /\ CountsOn(sel, slot, ShownNames, shown)' <=> CountsOn(sel, slot, ShownNames, shown)
  BY <1>1, SamePlan DEF CountsOn
<1>4. Careful(p)' <=> Careful(p)
  BY <1>3 DEF Careful, CountsOnAll
<1>5. StageOf(n)' = StageOf(n) /\ Place(n)' = Place(n)
  BY SamePlan
<1>6. QED
  BY <1>1, <1>2, <1>4, <1>5 DEF Careless

LEMMA NextThrows ==
  ASSUME IInv, CallInv, ThrowsOnlyForCause, [Next]_vars
  PROVE  ThrowsOnlyForCause'
<1>1. EarlyVirtuals' <=> EarlyVirtuals
  BY SameCall, SameSeeds
<1> SUFFICES ASSUME EarlyVirtuals, outcome' = "threw" PROVE Careless'
  BY <1>1 DEF ThrowsOnlyForCause, Careless
<1>2. CASE UNCHANGED vars
  BY <1>2, CarelessAsBefore DEF vars, ThrowsOnlyForCause, Careless
<1>3. CASE Next
  <2>1. ASSUME NEW p, NEW kind \in {"expr", "indirect"}, AtProperty(kind, p), Leave("threw"),
               ThrowsThere(p)
        PROVE  Careless'
    BY <2>1, ThrowingIsCareless, CarelessAsBefore DEF Leave
  <2>2. ASSUME NEW p, Expr(p) PROVE Careless'
    <3>1. AtProperty("expr", p) /\ Run(p.reads, stepCtx)
      BY <2>2 DEF Expr
    <3>2. ~Evaluate /\ ~Leave("rejected")
      BY <3>1 DEF Evaluate, Leave, AtProperty, Reached
    <3>3. QED
      BY <2>1, <3>1, <3>2 DEF Run, ThrowsThere
  <2>3. ASSUME NEW p, Indirect(p) PROVE Careless'
    <3>1. AtProperty("indirect", p)
      BY <2>3 DEF Indirect
    <3>2. ~Evaluate /\ ~Leave("rejected") /\ ~Prune
      BY <3>1 DEF Evaluate, Leave, Prune, AtProperty, Reached
    <3>3. Leave("threw") /\ ThrowsThere(p)
      BY <2>3, <3>2 DEF Indirect, Run, ThrowsThere
    <3>4. QED
      BY <2>1, <3>1, <3>3
  <2>4. ASSUME NEW p, Method(p) PROVE FALSE
    BY <2>4 DEF Method, Evaluate, Prune, Leave, AtProperty, Reached
  <2>5. ASSUME NEW st, Step(st) \/ StepRejects(st) \/ Publish(st) PROVE FALSE
    BY <2>5 DEF Step, StepRejects, Publish, Leave, Reached
  <2>6. ~Skip /\ ~Finish
    BY DEF Skip, Finish
  <2>7. QED
    BY <1>3, <2>2, <2>3, <2>4, <2>5, <2>6 DEF Next
<1>4. QED
  BY <1>2, <1>3

\* The value of this selector is to be put out.
Told(sel) ==
  \/ sel[1] \in ShownNames /\ Found(sel, exprCtx)
  \/ /\ sel[1] \in Computed \ Starved
     /\ LET st == StageOf(sel[1])
        IN  IF st.kind = "step" THEN sel[2] \in st.keys \cup {Whole}
            ELSE st.shown # "none" /\ sel[2] \in PublicView(st) \cup {Whole}

\* After the last place all that was to be computed is passed.
LEMMA AllPassed ==
  ASSUME IInv, slot > Len(stages)
  PROVE  Passed = Computed
<1>1. \A n \in Computed : Place(n) \in DOMAIN stages
  BY PlacesAreNumbers DEF IInv
<1>2. DOMAIN stages = 1..Len(stages) /\ Len(stages) \in Nat /\ slot \in Nat
  BY BuiltStages DEF IInv, TypeOK
<1>3. \A n \in Computed : Place(n) < slot
  BY <1>1, <1>2
<1>4. QED
  BY <1>3 DEF Passed

LEMMA FinishTells ==
  ASSUME IInv, CallInv, EarlyVirtuals, Finish, NEW sel \in Selected
  PROVE  sel \in output' <=> Told(sel)
<1> DEFINE n == sel[1]
<1>1. ContextsTell /\ Passed = Computed /\ Starved = Gone
  <2>1. Passed = Computed /\ Gone \subseteq Passed /\ ContextsTell
    BY AllPassed DEF Finish, CallInv
  <2>2. Passed \cap Gone = Starved
    BY JudgedIsEnough DEF IInv, PrunedAreTheStarved, Gone
  <2>3. QED
    BY <2>1, <2>2
<1>2. /\ SeededNames \cap NamesOf(stages, "feature") = {}
      /\ NamesOf(stages, "step") \cap NamesOf(stages, "feature") = {}
      /\ NamesOf(stages, "step") \cap ShownNames = {}
      /\ Unfulfilled \cap (ShownNames \cup Computed) = {}
      /\ pruned \subseteq NamesOf(stages, "feature") /\ prunedSteps \subseteq NamesOf(stages, "step")
  BY <1>1, SeedsApart, UnfulfilledApart DEF IInv, TypeOK, ContextsTell
<1>3. sel \in output' <=> n \notin Unfulfilled \cup Gone /\ Found(sel, ResultCtx)
  BY DEF Finish, Gone
<1>4. DOMAIN stepResultCtx = {m \in NamesOf(stages, "step") : m \notin Gone}
  <2>1. DOMAIN stepResultCtx = {m \in NamesOf(stages, "step") \cap Passed : m \notin prunedSteps}
    BY <1>1 DEF ContextsTell
  <2>2. QED
    BY <1>1, <1>2, <2>1 DEF Computed, Gone
<1>5. Published = {m \in NamesOf(stages, "feature") : m \notin Gone}
  BY <1>1, <1>2 DEF Published, Computed, Gone
<1>6. DOMAIN ResultCtx = DOMAIN exprCtx \cup DOMAIN stepResultCtx
  BY DEF ResultCtx, Overlay
<1>7. n \in DOMAIN stepResultCtx => ResultCtx[n] = stepResultCtx[n]
  BY DEF ResultCtx, Overlay
<1>8. n \in DOMAIN exprCtx \ DOMAIN stepResultCtx => ResultCtx[n] = exprCtx[n]
  BY DEF ResultCtx, Overlay
<1>9. Told(sel) <=>
        \/ n \in ShownNames /\ Found(sel, exprCtx)
        \/ /\ n \in Computed \ Gone
           /\ IF StageOf(n).kind = "step" THEN sel[2] \in StageOf(n).keys \cup {Whole}
              ELSE StageOf(n).shown # "none" /\ sel[2] \in PublicView(StageOf(n)) \cup {Whole}
  BY <1>1 DEF Told
<1> HIDE DEF n
<1>10. CASE n \in ShownNames
  <2>1. n \notin Computed /\ n \notin Unfulfilled \cup Gone /\ n \in DOMAIN exprCtx
    BY <1>2, <1>10 DEF Computed, Gone, ShownNames
  <2>2. ResultCtx[n] = exprCtx[n] /\ n \in DOMAIN ResultCtx
    BY <1>4, <1>6, <1>8, <2>1 DEF Computed
  <2>3. Found(sel, ResultCtx) <=> Found(sel, exprCtx)
    BY <2>1, <2>2 DEF Found, n
  <2>4. QED
    BY <1>3, <1>9, <1>10, <2>1, <2>3
<1>11. CASE n \in NamesOf(stages, "step")
  <2>1. /\ n \in Computed /\ n \notin ShownNames /\ n \notin DOMAIN exprCtx
        /\ n \notin Unfulfilled
    BY <1>2, <1>11 DEF Computed, ShownNames
  <2>2. StageOf(n).kind = "step"
    BY <1>11, <2>1, ComputedStage DEF IInv
  <2>3. n \notin Gone => (Found(sel, ResultCtx) <=> sel[2] \in StageOf(n).keys \cup {Whole})
    <3>1. n \notin Gone => n \in DOMAIN stepResultCtx /\ stepResultCtx[n] = StageOf(n).keys
      BY <1>1, <1>4, <1>11 DEF ContextsTell
    <3>2. QED
      BY <1>6, <1>7, <3>1 DEF Found, n
  <2>4. QED
    BY <1>3, <1>9, <2>1, <2>2, <2>3
<1>12. CASE n \in NamesOf(stages, "feature")
  <2>1. /\ n \in Computed /\ n \notin ShownNames /\ n \notin DOMAIN stepResultCtx
        /\ n \notin Unfulfilled
    BY <1>2, <1>4, <1>12 DEF Computed, ShownNames
  <2>2. StageOf(n).kind # "step"
    BY <1>2, <1>12, <2>1, ComputedStage DEF IInv
  <2>3. n \notin Gone =>
          (Found(sel, ResultCtx) <=>
             StageOf(n).shown # "none" /\ sel[2] \in PublicView(StageOf(n)) \cup {Whole})
    <3>1. n \notin Gone => (n \in DOMAIN exprCtx <=> StageOf(n).shown # "none")
      BY <1>1, <1>5, <1>12 DEF ContextsTell
    <3>2. n \in DOMAIN exprCtx => exprCtx[n] = PublicView(StageOf(n))
      BY <1>1, <1>12 DEF ContextsTell
    <3>3. QED
      BY <1>6, <1>8, <2>1, <3>1, <3>2 DEF Found, n
  <2>4. QED
    BY <1>3, <1>9, <2>1, <2>2, <2>3
<1>13. CASE n \notin ShownNames \cup Computed
  <2>1. n \notin DOMAIN exprCtx /\ n \notin DOMAIN stepResultCtx
    BY <1>4, <1>13 DEF Computed, ShownNames
  <2>2. QED
    BY <1>3, <1>6, <1>9, <1>13, <2>1 DEF Found, n
<1>14. QED
  BY <1>10, <1>11, <1>12, <1>13 DEF Computed

LEMMA SameStarved ==
  ASSUME UNCHANGED <<stages, slot, stepCtx, exprCtx, pruned>>
  PROVE  Starved' = Starved
<1>1. /\ ShownNames' = ShownNames /\ SeededNames' = SeededNames
      /\ NamesOf(stages, "feature")' = NamesOf(stages, "feature")
  BY SamePlan, SameSeeds DEF ShownNames
<1>2. Passed' = Passed /\ Blank' = Blank
  BY SamePlan DEF Passed, Blank
<1>3. ASSUME NEW n, NEW P PROVE Starves(n, P)' <=> Starves(n, P)
  <2>1. ASSUME NEW sel, NEW place PROVE Served(sel, place, P)' <=> Served(sel, place, P)
    <3>1. Place(sel[1])' = Place(sel[1]) /\ KeysOf(StageOf(sel[1]))' = KeysOf(StageOf(sel[1]))
      BY SamePlan, SameViews
    <3>2. QED
      BY <1>1, <3>1 DEF Served, Found
  <2> DEFINE st == StageOf(n)
  <2>2. st' = st
    BY SamePlan
  <2> HIDE DEF st
  <2>3. Needs(st)' = Needs(st)
    BY <2>2 DEF Needs, Methods
  <2>4. PICK place : place = Place(n)
    OBVIOUS
  <2>5. Place(n)' = place
    BY <2>4, SamePlan
  <2>6. Starves(n, P) <=> \E sel \in Needs(st) : ~Served(sel, place, P)
    BY <2>4 DEF Starves, st
  <2>7. Starves(n, P)' <=> \E sel \in Needs(st)' : ~Served(sel, place, P)'
    BY <2>5 DEF Starves, Served, st
  <2>8. QED
    BY <2>1, <2>3, <2>6, <2>7
<1>4. QED
  BY <1>2, <1>3 DEF Starved

LEMMA ToldAsBefore ==
  ASSUME UNCHANGED <<stages, slot, stepCtx, exprCtx, pruned>>, NEW sel
  PROVE  Told(sel)' <=> Told(sel)
<1>1. ShownNames' = ShownNames /\ Computed' = Computed /\ Starved' = Starved
  BY SamePlan, SameStarved DEF ShownNames
<1>2. StageOf(sel[1])' = StageOf(sel[1]) /\ PublicView(StageOf(sel[1]))' = PublicView(StageOf(sel[1]))
  BY SameViews
<1>3. QED
  BY <1>1, <1>2 DEF Told, Found

LEMMA NextOutput ==
  ASSUME IInv, CallInv, OutputTellsTheTruth, [Next]_vars
  PROVE  OutputTellsTheTruth'
<1>1. EarlyVirtuals' <=> EarlyVirtuals
  BY SameCall, SameSeeds
<1>2. OutputTellsTheTruth <=>
        (outcome = "resolved" /\ EarlyVirtuals => \A sel \in Selected : sel \in output <=> Told(sel))
  BY DEF OutputTellsTheTruth, Told
<1>3. OutputTellsTheTruth' <=>
        (outcome' = "resolved" /\ EarlyVirtuals' => \A sel \in Selected : sel \in output' <=> Told(sel)')
  BY DEF OutputTellsTheTruth, Told
<1> SUFFICES ASSUME EarlyVirtuals, outcome' = "resolved"
             PROVE  \A sel \in Selected : sel \in output' <=> Told(sel)'
  BY <1>1, <1>3
<1>4. CASE UNCHANGED vars
  BY <1>2, <1>4, ToldAsBefore DEF vars
<1>5. CASE Finish
  BY <1>5, FinishTells, ToldAsBefore DEF Finish
<1>6. ASSUME Next, ~Finish PROVE FALSE
  <2>1. ASSUME outcome = "running" PROVE ~Evaluate /\ ~Prune /\ ~Leave("threw") /\ ~Leave("rejected")
    BY <2>1 DEF Evaluate, Prune, Leave
  <2>2. ASSUME NEW p PROVE ~Expr(p) /\ ~Indirect(p) /\ ~Method(p)
    BY <2>1 DEF Expr, Indirect, Method, Run, AtProperty, Reached
  <2>3. ASSUME NEW st PROVE ~Step(st) /\ ~StepRejects(st) /\ ~Publish(st)
    BY <2>1 DEF Step, StepRejects, Publish, Reached
  <2>4. ~Skip
    BY DEF Skip
  <2>5. QED
    BY <1>6, <2>2, <2>3, <2>4 DEF Next
<1>7. QED
  BY <1>4, <1>5, <1>6

-----------------------------------------------------------------------------
LEMMA SpecInv == Spec => [](IInv /\ CallInv /\ ThrowsOnlyForCause /\ OutputTellsTheTruth)
<1> DEFINE Inv == IInv /\ CallInv /\ ThrowsOnlyForCause /\ OutputTellsTheTruth
<1>1. Init => Inv
  BY InitIInv, InitCallInv DEF Init, ThrowsOnlyForCause, OutputTellsTheTruth
<1>2. Inv /\ [Next]_vars => Inv'
  BY NextIInv, NextCallInv, NextThrows, NextOutput
<1>3. QED
  BY <1>1, <1>2, PTL DEF Spec

(* The contexts of a call hold known names with known keys, only features and *)
(* steps are pruned, and no feature goes on where another one stopped         *)
(* (core.ts:386-397, 478-542).                                               *)
THEOREM TypeCorrect == Spec => []TypeOK
  BY SpecInv, PTL DEF IInv

(* Neither an inner expression nor the output ever sees a private feature, a  *)
(* private injection or a private key (core.ts:437-448, 526-568).             *)
THEOREM PrivateStaysPrivate == Spec => []NothingPrivateShown
  BY SpecInv, PTL DEF IInv

(* Where each virtual is declared before what is called like it, what a call  *)
(* has pruned is exactly what needs, directly or through others, something    *)
(* that is not there (core.ts:254-358, 427-542).                             *)
THEOREM OnlyStarvedArePruned == Spec => []PrunedAreTheStarved
<1>1. IInv /\ CallInv => PrunedAreTheStarved
  BY JudgedIsEnough DEF IInv
<1>2. QED
  BY <1>1, SpecInv, PTL

(* There, too, a call throws, other than by what a user's own code does, only  *)
(* at a property that reads a key of a name, or calls a function, that its     *)
(* place cannot count on, or whose outer expression may yield what does not    *)
(* parse (core.ts:437-544).                                                  *)
THEOREM OnlyCarelessThrow == Spec => []ThrowsOnlyForCause
  BY SpecInv, PTL

(* There, too, the output of a call has each selected value that is public    *)
(* and was computed or given, and no other (core.ts:546-568).                 *)
THEOREM OutputIsTruthful == Spec => []OutputTellsTheTruth
  BY SpecInv, PTL
=============================================================================
