----------------------------- MODULE PolicyFiles -----------------------------
(***************************************************************************)
(* The policy files a hook reads, and how they are layered.                *)
(*                                                                         *)
(* A file is what the hook can learn from it about ONE tool call: can it   *)
(* be read and decoded, which on_error knob does it set, and which classes *)
(* of rules does it hold.  A rule is reduced to its effect on the call:    *)
(*   "allow", "deny"   it matches and says so,                             *)
(*   "other"           it is well formed and does not match,               *)
(*   "invalid"         its regex does not compile.                         *)
(* Loading, layering and evaluation belong to gatekeeper-core, which is    *)
(* not in this repository; they are modelled from how cmd/claude-gatekeeper *)
(* uses them, and from its tests and README.                               *)
(***************************************************************************)

Knob      == {"unset", "abstain", "deny"}
RuleClass == {"allow", "deny", "other", "invalid"}
Decision  == {"allow", "deny", "abstain"}

File == [kind  : {"absent", "unreadable", "junk", "policy"},
         knob  : Knob,
         rules : SUBSET RuleClass]

Policy(knob, rules) == [kind |-> "policy", knob |-> knob, rules |-> rules]
NoPolicy(kind)      == [kind |-> kind, knob |-> "unset", rules |-> {}]

Absent      == NoPolicy("absent")
Unreadable  == NoPolicy("unreadable")
Junk        == NoPolicy("junk")          \* not TOML
EmptyPolicy == Policy("unset", {})       \* an empty file is valid TOML

\* Two candidates for the global layer, one (already chosen) for the project.
FileName == {"xdg", "legacy", "project"}
Files    == [FileName -> File]

Present(f) == f.kind # "absent"

\* The first global candidate that a stat does not report as missing.
FirstPresent(fs) ==
  IF Present(fs["xdg"]) THEN "xdg"
  ELSE IF Present(fs["legacy"]) THEN "legacy"
  ELSE "none"

Selected(fs) == IF FirstPresent(fs) = "none" THEN Absent ELSE fs[FirstPresent(fs)]

\* A layer loads if it is missing, or decodes and holds no invalid rule.
Loads(f) ==
  \/ f.kind = "absent"
  \/ f.kind = "policy" /\ "invalid" \notin f.rules

\* The knob of a file decoded as TOML, its rules left unchecked.
ReadableKnob(f) == IF f.kind = "policy" /\ f.knob = "deny" THEN "deny" ELSE "abstain"

\* The global-only posture: rules are validated first, so a file with an
\* invalid rule cannot speak.
GlobalOnError(fs) == IF Loads(Selected(fs)) THEN ReadableKnob(Selected(fs)) ELSE "abstain"

\* A loaded configuration: project rules are added, project knobs override.
Config == [knob : Knob, rules : SUBSET RuleClass]
NoConfig == [knob |-> "unset", rules |-> {}]
Overlay(cfg, f) ==
  [knob  |-> IF f.knob = "unset" THEN cfg.knob ELSE f.knob,
   rules |-> cfg.rules \cup f.rules]

OnErrorDecision(cfg) == IF cfg.knob = "deny" THEN "deny" ELSE "abstain"

\* Deny wins over allow; no matching rule is an abstain.
Evaluation(rules) ==
  IF "deny" \in rules THEN "deny"
  ELSE IF "allow" \in rules THEN "allow"
  ELSE "abstain"
=============================================================================
