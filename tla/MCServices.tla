----------------------------- MODULE MCServices -----------------------------
(***************************************************************************)
(* The services around the scheduler, each explored on its own: Init picks *)
(* one and the variables of the others stay idle.  They share the ids i1   *)
(* and i2, which are interchangeable in every one of them, as are the      *)
(* workspaces w1 and w2.                                                   *)
(***************************************************************************)
EXTENDS Services, Sequences, FiniteSets, TLC

CONSTANTS i1, i2, w1, w2, t1, t2, r1

Id == {i1, i2}
WorkspaceId == {w1, w2}
Sym == {f @@ g : f \in Permutations(Id), g \in Permutations(WorkspaceId)}

-----------------------------------------------------------------------------
(* Constants of the components *)

\* Three runs of two tenants: one tenant has half the weight of the other.
BudgetValues == (t1 :> [weight |-> 1, maxUnits |-> 2]) @@ (t2 :> [weight |-> 2, maxUnits |-> 4])
ThresholdValues ==
  [busy     |-> [gpu |-> 50, kv |-> 80, running |-> 1, waiting |-> 1],
   critical |-> [gpu |-> 100, kv |-> 95, running |-> 2, waiting |-> 2],
   gpuMemoryBaselinePercent |-> 50]

\* No sample, idle, two samples of a metric, one sample of two critical, out of
\* range, exactly critical; and no GPU, half used, one of two full, full.
Metrics(run_, wait, kv) == [running |-> run_, waiting |-> wait, kv |-> kv, tokens |-> <<>>]
VllmAnswerValues ==
  {Metrics(<<>>, <<>>, <<>>), Metrics(<<0>>, <<>>, <<10>>), Metrics(<<1, 1>>, <<0>>, <<10>>),
   Metrics(<<>>, <<1>>, <<10, 90>>), Metrics(<<0>>, <<0>>, <<101>>), Metrics(<<0>>, <<0>>, <<95>>)}
Gpu(total, used) == [total |-> total, used |-> used]
GpuAnswerValues == {<<>>, <<Gpu(2, 1)>>, <<Gpu(2, 2), Gpu(2, 1)>>, <<Gpu(2, 2)>>}

Runs == Id \cup {r1}
TenantOfValues == (i1 :> t1) @@ (i2 :> t1) @@ (r1 :> t2)

\* An unrestricted policy, and for every field of the constraints one that
\* restricts it.
PathValues == {<<>>, <<"ws">>, <<"ws", "a">>, <<"other">>}
WorkspaceValue == [r \in Run |-> <<"ws">>]
TemplateValue == [tools |-> {"read", "bash"}, model |-> "m1"]
PolicyValues ==
  {UnrestrictedPolicy,
   [UnrestrictedPolicy EXCEPT !.tools = {"read"}, !.roots = {<<>>}, !.process = FALSE],
   [UnrestrictedPolicy EXCEPT !.roots = {<<"ws", "a">>, <<"other">>}, !.network = FALSE],
   [UnrestrictedPolicy EXCEPT !.roots = {<<"ws">>}, !.memory = 2, !.models = {"m1"}],
   [UnrestrictedPolicy EXCEPT !.memory = 1, !.models = {"m2"}],
   [UnrestrictedPolicy EXCEPT !.memory = 1, !.profile = "default"],
   [UnrestrictedPolicy EXCEPT !.profile = "strict", !.disk = 1]}

\* A key that may write and a login; a deployment that changes its declared
\* capabilities, and one whose tool list is refused.
KeyValues == ("key" :> [tenant |-> t1, scopes |-> {"tasks:write", "workspaces:write"}])
ConfigValues ==
  {[deployment |-> "d1", supported |-> "A", tools |-> TRUE],
   [deployment |-> "d1", supported |-> "B", tools |-> FALSE]}

\* Two model calls and a tool with two attempts, or a call and two parallel tools.
Calls == Id \cup {"call"}
Tools == Id \cup {"tool"}
BoundValues ==
  {[calls |-> Id, tools |-> {"tool"}, attempts |-> 2],
   [calls |-> {"call"}, tools |-> Id, attempts |-> 1]}

\* Two keys compete for a pool of one; two runs have the same key.
KeyOfValues == (i1 :> "k1") @@ (i2 :> "k1") @@ (r1 :> "k2")

\* Three turns do not fit, one of the largest messages does; arguments that end
\* in every place, with nested brackets and with a quote, a bracket and a comma
\* that are part of a string; and with white space in a string, between tokens
\* and before the last bracket, or only between tokens.
Texts ==
  {<<"{", "q", "x", "q", ":", "1", "1", "}">>,
   <<"{", "q", "x", "q", ":", "[", "1", ",", "{", "}", "]", "}">>,
   <<"{", "q", "x", "q", ":", "q", "b", "q", ",", "q", ",", "q", "x", "q", ":", "{", "}", "}">>,
   <<"{", "w", "q", "x", "w", "q", ":", "[", "1", "w", "]", ",", "w", "q", "q", ":", "1", "w",
     "}">>,
   <<"{", "w", "q", "q", ":", "1", "}">>}

ASSUME ServicesAreConfigured == ServicesConfigured

\* They are JSON, and none of them is before it ends.
ASSUME TextsAreJson ==
  \A d \in Texts : \A n \in 0..Len(d) : Traffic!Parsed(SubSeq(d, 1, n)) <=> n = Len(d)
=============================================================================
