----------------------------- MODULE PolicyTest ------------------------------
(***************************************************************************)
(* claude-gatekeeper test: a suite of cases is evaluated against one       *)
(* configuration file, or against the layered live configuration of each   *)
(* case's directory, while its user edits the files; and the hook calls    *)
(* that the suite is meant to predict.                                     *)
(***************************************************************************)
EXTENDS PolicyFiles, HookInput, Naturals, Sequences, FiniteSets

CONSTANTS
  Inputs,       \* the strings that cases and calls are made of
  Reasons,      \* the reasons of rules
  Dirs,         \* directories with a project configuration
  DefaultDir,   \* --cwd, or the working directory
  Suites,       \* test files
  StartDisks,   \* policy files to start with
  SavedTexts,   \* what an edited policy file may hold
  MaxEdits      \* bound on the edits

\* A rule as far as the suite can tell: the calls it matches, what it decides
\* on them and why, or that its pattern does not compile.
Rule(decision, reason, matches) ==
  [decision |-> decision, reason |-> reason, matches |-> matches, valid |-> TRUE]
InvalidRule == [Rule("deny", "", {}) EXCEPT !.valid = FALSE]
PolicyRule ==
  [decision : {"allow", "deny"}, reason : Reasons \cup {""},
   matches : SUBSET [tool : STRING, input : Inputs], valid : BOOLEAN]

\* A policy file: the File of PolicyFiles with its rules written out.
Text(kind, knob, rules) == [kind |-> kind, knob |-> knob, rules |-> rules]
IsText(f) ==
  /\ f \in [kind : {"absent", "unreadable", "junk", "policy"}, knob : Knob,
           rules : SUBSET PolicyRule]
  /\ f.kind # "policy" => f.rules = {}

\* A case: its tool, what it calls the input ("input", "command" or "both"),
\* the input, the directory ("" for the default), and what is expected.
TestCase ==
  [tool : STRING, by : {"input", "command", "both"}, input : Inputs, cwd : Dirs \cup {""},
   expected : Decision, reason : Reasons \cup {""}]

\* A test file that cannot be read or decoded (unknown fields and trailing
\* values included) has no cases, and decoded is FALSE.
Suite == [decoded : BOOLEAN, cases : Seq(TestCase)]

\* --config: one file, or "" for the layered live configuration.
IsDisk(d) == \A n \in {"xdg", "legacy", "config"} \cup Dirs : n \in DOMAIN d /\ IsText(d[n])

\* "notString" stands for what is no string, see HookInput.
ASSUME InputsAssumption == "notString" \notin Inputs
ASSUME DirsAssumption == DefaultDir \in Dirs /\ Dirs \cap {"xdg", "legacy", "config"} = {}
ASSUME SuitesAssumption == Suites \subseteq Suite
ASSUME DisksAssumption == \A d \in StartDisks : IsDisk(d)
ASSUME SavesAssumption == \A f \in SavedTexts : IsText(f)
ASSUME EditsAssumption == MaxEdits \in Nat

VARIABLES
  suite,    \* the test file
  fixed,    \* whether --config is given
  disk,     \* the policy files by name
  edits,    \* number of edits
  tpc,      \* what the test run does next
  cfg,      \* the rules of the configuration loaded for the current case
  results,  \* Passed of every result, in the order of the cases
  texit,    \* exit code; 3 while there is none
  live      \* the hook calls made afterwards and what was decided

vars == <<suite, fixed, disk, edits, tpc, cfg, results, texit, live>>

Init ==
  /\ suite \in Suites
  /\ fixed \in BOOLEAN
  /\ disk \in StartDisks
  /\ edits = 0
  /\ tpc = "load"
  /\ cfg = {}
  /\ results = <<>>
  /\ texit = 3
  /\ live = {}

-----------------------------------------------------------------------------
(* Configurations *)

\* The class of a rule on a call, as in PolicyFiles.
Class(r, call) ==
  IF ~r.valid THEN "invalid" ELSE IF call \in r.matches THEN r.decision ELSE "other"
View(f, call) == [f EXCEPT !.rules = {Class(r, call) : r \in @}]
AnyCall == [tool |-> "", input |-> ""]
LoadsText(f) == Loads(View(f, AnyCall))

\* A project has one file here; the global layer is one of two.
Layers(d, dir) == [n \in FileName |-> IF n = "project" THEN d[dir] ELSE d[n]]
Global(d)      == Selected(Layers(d, DefaultDir))

\* The reasons a verdict may carry: those of the rules that carry it, of which
\* the engine takes the first.
Decided(rules, call)  == Evaluation({Class(r, call) : r \in rules})
ReasonsOf(rules, call) ==
  LET d == Decided(rules, call)
      S == {r.reason : r \in {q \in rules : Class(q, call) = d}}
  IN  IF S = {} THEN {""} ELSE S

-----------------------------------------------------------------------------
(* The test run *)

TestVars == <<cfg, results, texit>>
Stop(code) ==
  /\ tpc' = "ended"
  /\ texit' = code
  /\ UNCHANGED <<cfg, results>>
TestStep == UNCHANGED <<suite, fixed, disk, edits, live>>

\* A case has a tool, either of input and command, the latter only for Bash.
ValidCase(c) ==
  c.tool # "" /\ c.by # "both" /\ (c.by = "command" => c.tool = "Bash")

\* One invalid case, or none at all, makes the file useless.
LoadFile ==
  /\ tpc = "load"
  /\ IF suite.decoded /\ suite.cases # <<>> /\ \A i \in DOMAIN suite.cases : ValidCase(suite.cases[i])
     THEN tpc' = (IF fixed THEN "fixed" ELSE "global") /\ UNCHANGED TestVars
     ELSE Stop(2)
  /\ TestStep

LoadFixed ==
  /\ tpc = "fixed"
  /\ IF disk["config"].kind = "policy" /\ LoadsText(disk["config"])
     THEN tpc' = "evaluate" /\ cfg' = disk["config"].rules /\ UNCHANGED <<results, texit>>
     ELSE Stop(2)
  /\ TestStep

Current == suite.cases[Len(results) + 1]
DirOf(c) == IF c.cwd = "" THEN DefaultDir ELSE c.cwd
CallOf(c) == [tool |-> c.tool, input |-> c.input]

\* The layered configuration is loaded anew for every case, file by file.
LoadGlobal ==
  /\ tpc = "global"
  /\ IF LoadsText(Global(disk))
     THEN tpc' = "project" /\ cfg' = Global(disk).rules /\ UNCHANGED <<results, texit>>
     ELSE Stop(2)
  /\ TestStep

LoadProject ==
  /\ tpc = "project"
  /\ LET f == disk[DirOf(Current)]
     IN  IF LoadsText(f)
         THEN tpc' = "evaluate" /\ cfg' = cfg \cup f.rules /\ UNCHANGED <<results, texit>>
         ELSE Stop(2)
  /\ TestStep

Then == IF Len(results) + 1 = Len(suite.cases) THEN "report" ELSE IF fixed THEN "evaluate" ELSE "global"

\* A case passes on the decision, and on the reason if it expects one.
Passes(c, decision, reason) ==
  decision = c.expected /\ (c.reason # "" => reason = c.reason)

\* Variant: after an error of the engine, what there is is reported.
EvaluateReporting ==
  /\ tpc = "evaluate"
  /\ tpc' = "report"
  /\ UNCHANGED TestVars /\ TestStep

\* The first error of the engine ends the run without a report.
Evaluate ==
  /\ tpc = "evaluate"
  /\ \/ Stop(2)
     \/ LET call == CallOf(Current)
        IN  /\ \E reason \in ReasonsOf(cfg, call) :
                 results' = Append(results, Passes(Current, Decided(cfg, call), reason))
            /\ tpc' = Then
            /\ UNCHANGED <<cfg, texit>>
  /\ TestStep

\* Variant: the exit code tells of the last case only.
AllPassedLast(r) == r[Len(r)]

AllPassed(r) == \A i \in DOMAIN r : r[i]

Report ==
  /\ tpc = "report"
  /\ \/ Stop(2)
     \/ Stop(IF AllPassed(results) THEN 0 ELSE 1)
  /\ TestStep

-----------------------------------------------------------------------------
(* The user and the harnesses *)

Edit ==
  /\ tpc # "ended" /\ edits < MaxEdits
  /\ \E n \in DOMAIN disk, f \in SavedTexts :
       f # disk[n] /\ disk' = [disk EXCEPT ![n] = f]
  /\ edits' = edits + 1
  /\ UNCHANGED <<suite, fixed, tpc, cfg, results, texit, live>>

\* A hook's decision: on_error's if a layer does not load (module
\* GatekeeperHook has the details), else what all rules together decide.
HookDecision(call, dir) ==
  LET f == disk[dir]
  IN  IF ~LoadsText(Global(disk)) \/ ~LoadsText(f) THEN "error"
      ELSE Decided(Global(disk).rules \cup f.rules, call)

\* A harness makes the call of a case, in a form of its own.
HookCall ==
  /\ tpc = "ended" /\ texit = 0 /\ live = {}
  /\ \E h \in Harness, i \in DOMAIN suite.cases :
       LET c == suite.cases[i]
       IN  /\ c.tool \in Verified(h)
           /\ \E p \in NativeForms(h, c.tool, c.input) :
                live' = {[case |-> i, decision |-> HookDecision(ParseInput(h, p), DirOf(c))]}
  /\ UNCHANGED <<suite, fixed, disk, edits, tpc, cfg, results, texit>>

-----------------------------------------------------------------------------
Next ==
  \/ LoadFile \/ LoadFixed \/ LoadGlobal \/ LoadProject \/ Evaluate \/ Report
  \/ Edit \/ HookCall

Spec == Init /\ [][Next]_vars

-----------------------------------------------------------------------------
(* Properties *)

\* The shapes of the variables; there are results for a prefix of the cases,
\* and for all of them once the run reports.
TypeOK ==
  /\ suite \in Suites
  /\ fixed \in BOOLEAN
  /\ IsDisk(disk)
  /\ edits \in 0..MaxEdits
  /\ tpc \in {"load", "fixed", "global", "project", "evaluate", "report", "ended"}
  /\ cfg \subseteq {r \in PolicyRule : r.valid}
  /\ results \in Seq(BOOLEAN)
  /\ (tpc \in {"global", "project", "evaluate"}) => Len(results) < Len(suite.cases)
  /\ (tpc = "report") => Len(results) = Len(suite.cases)
  /\ texit \in 0..3
  /\ (texit # 3) <=> (tpc = "ended")

\* The run is a gate made of its cases: it exits 0 only if every case of the
\* file was evaluated and passed, and an error is never mistaken for either.
Gate == INSTANCE CheckGate WITH
  checks  <- DOMAIN suite.cases,
  passed  <- {i \in DOMAIN results : results[i]},
  failed  <- {i \in DOMAIN results : ~results[i]},
  verdict <- CASE texit = 3 -> "none" [] texit = 0 -> "pass"
               [] texit = 1 -> "fail" [] texit = 2 -> "error"
TestGate == Gate!Spec

\* What the suite is for: if it passes against the live configuration and
\* nothing is edited meanwhile, a hook decides every call of the suite as the
\* case expects, on every harness that can be relied on to convey it.
PassPredictsHook ==
  ~fixed /\ edits = 0 => \A l \in live : l.decision = suite.cases[l.case].expected
=============================================================================
