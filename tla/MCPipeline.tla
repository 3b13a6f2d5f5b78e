------------------------------ MODULE MCPipeline ----------------------------
(* All lists of up to MaxStages stages from an alphabet that the builder's  *)
(* types accept: a virtual with three features for it, features of each      *)
(* visibility and form, both injections, a pure function, and steps.         *)
EXTENDS Pipeline

CONSTANT MaxStages

Bare(kind, name) ==
  [kind |-> kind, name |-> name, keys |-> {}, reads |-> {}, props |-> << >>,
   shown |-> "all", publicKeys |-> {}]
Virtual(name) == Bare("virtual", name)
Feature(name, shown, props) == [Bare("feature", name) EXCEPT !.shown = shown, !.props = props]
Split(name, props, keys) == [Feature(name, "some", props) EXCEPT !.publicKeys = keys]
StepOf(name, reads) == [Bare("step", name) EXCEPT !.reads = reads, !.keys = {"x"}]
Injection(name, shown) == [Bare("injection", name) EXCEPT !.shown = shown, !.keys = {"x"}]
Defaults(name, keys) == [Bare("initialDefaults", name) EXCEPT !.keys = keys]

Prop(kind, key, reads) == [kind |-> kind, key |-> key, reads |-> reads, inner |-> {}]
Inner(form, reads) == [form |-> form, reads |-> reads]
InnerProp(key, inner) ==
  [kind |-> "indirect", key |-> key, reads |-> {<<"input", "x">>}, inner |-> inner]

Alphabet == {
  Virtual("v"), Virtual("q"), Virtual("a"),
  Feature("v", "all", <<Prop("expr", "x", {<<"input", "x">>})>>),
  Feature("v", "none", <<Prop("method", "x", {<<"a", "x">>})>>),
  Feature("v", "all", <<Prop("expr", "x", {<<"a", "x">>})>>),
  Feature("a", "all", <<Prop("method", "x", {<<"v", "x">>})>>),
  Feature("a", "all", <<Prop("expr", "x", {<<"v", "x">>}), Prop("method", "y", {<<"q", "x">>})>>),
  Feature("b", "none", <<Prop("method", "x", {<<"q", "x">>})>>),
  Split("c", <<Prop("expr", "x", {<<"q", "x">>}), Prop("method", "y", {<<"a", "x">>})>>, {"x"}),
  Feature("d", "all", <<InnerProp("x", {Inner("expression", {<<"a", "x">>}),
                                        Inner("expression", {<<"b", Whole>>, <<"f", Call>>}),
                                        Inner("nothing", {}), Inner("unparsable", {})})>>),
  Feature("e", "all", <<Prop("expr", "x", {<<"f", Call>>})>>),
  Injection("q", "none"), Injection("q", "all"),
  Bare("pureFunction", "f"), Defaults("input", {"y"}),
  StepOf("s", {<<"v", "x">>}), StepOf("r", {<<"q", "x">>}), StepOf("t", {<<"c", "y">>}), StepOf("u", {<<"q", "x">>, <<"d", Whole>>})}

MCNames == {"input", "v", "a", "b", "c", "d", "e", "q", "f", "r", "s", "t", "u"}
MCInputs == {[n \in {"input"} |-> {"x"}]}
MCSelected == {<<"input", "y">>, <<"a", "x">>, <<"c", "x">>, <<"c", "y">>, <<"b", Whole>>,
               <<"q", "x">>, <<"s", "x">>, <<"t", Whole>>, <<"u", "x">>, <<"r", "x">>}

\* Methods select what is declared before them; expressions are not checked.
Methodical(st) ==
  st.reads \cup UNION {st.props[k].reads : k \in {n \in DOMAIN st.props : st.props[n].kind = "method"}}
Accepts(list, st) ==
  /\ UniqueNames(Append(list, st))
  /\ \A sel \in Methodical(st) :
       \E i \in DOMAIN list : list[i].name = sel[1] /\ list[i].kind \notin {"step", "pureFunction"}

Lists[n \in Nat] ==
  IF n = 0 THEN {<< >>}
  ELSE {list \in {Append(l, st) : l \in Lists[n - 1], st \in Alphabet} :
          Accepts(SubSeq(list, 1, n - 1), list[n])}

MCPipelines == Lists[MaxStages]
=============================================================================
