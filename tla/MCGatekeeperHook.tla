-------------------------- MODULE MCGatekeeperHook --------------------------
(* Instances of GatekeeperHook for TLC. *)
EXTENDS GatekeeperHook, TLC

CONSTANTS h1, h2

OneHook  == {h1}
TwoHooks == {h1, h2}
Alike    == Permutations(TwoHooks)

Call(harness, override) ==
  [harness |-> harness, flags |-> "ok", override |-> override,
   input |-> "call", stdout |-> "ok"]

\* Every way to invoke a hook.
AllEnvs == Env

\* For the races: a call, and one that does not parse.
RaceEnvs == {Call("claude", "absent"), [Call("grok", "absent") EXCEPT !.input = "malformed"]}

Disk(xdg, legacy, project) ==
  [n \in FileName |-> CASE n = "xdg" -> xdg [] n = "legacy" -> legacy [] OTHER -> project]

DenyAll    == Policy("deny", {"deny", "other"})
Broken     == Policy("deny", {"deny", "invalid"})
Permissive == Policy("abstain", {"allow"})
Mixed      == Policy("unset", {"allow", "deny"})

\* One of everything in the selected place, shadowed or not.
AllDisks ==
  {Disk(x, l, p) :
     x \in {Absent, EmptyPolicy, Broken},
     l \in {Absent, Unreadable, Junk, DenyAll, Mixed, Policy("deny", {"allow"})},
     p \in {Absent, Junk, Permissive, Policy("unset", {"other"})}}

RaceDisks ==
  {Disk(Absent, DenyAll, Absent), Disk(Broken, DenyAll, Absent),
   Disk(Absent, Mixed, Junk), Disk(Absent, Absent, Absent)}

RaceEdits == {Absent, Permissive, Broken}

\* A promise once broken stays broken (see hist), and with both gone the two
\* invariants of the races say nothing more: such states are left aside, once
\* a hook has got past its install.
StillPromised ==
  hist.knob \/ hist.closed \/
  \A h \in Hooks : pc[h] \in {"start", "install", "installTruncate", "installWrite"}

NoEdits == {}
NoRules == {}
AllowFirst == <<"allow", "deny", "other">>
DenyFirst == <<"deny", "allow">>
DenyRules == {"deny"}
AllowRules == {"allow"}
=============================================================================
