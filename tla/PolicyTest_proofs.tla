------------------------- MODULE PolicyTest_proofs --------------------------
(***************************************************************************)
(* Proofs about module PolicyTest, for any test file, any policy files and *)
(* any number of edits.                                                    *)
(***************************************************************************)
EXTENDS PolicyTest, TLAPS

\* The configuration that is loaded is made of valid rules.
LEMMA LoadedRules ==
  ASSUME NEW f, IsText(f), LoadsText(f)
  PROVE  f.rules \subseteq {r \in PolicyRule : r.valid}
<1>1. CASE f.kind = "policy"
  <2>1. f.rules \subseteq PolicyRule
    BY DEF IsText
  <2>2. View(f, AnyCall).kind = f.kind
        /\ View(f, AnyCall).rules = {Class(r, AnyCall) : r \in f.rules}
    BY DEF View, IsText
  <2>3. "invalid" \notin {Class(r, AnyCall) : r \in f.rules}
    BY <1>1, <2>2 DEF LoadsText, Loads
  <2>4. \A r \in f.rules : r.valid
    BY <2>3 DEF Class
  <2> QED BY <2>1, <2>4
<1>2. CASE f.kind # "policy"
  BY <1>2 DEF IsText
<1> QED BY <1>1, <1>2

\* The global layer is a file of the disk, or no file.
LEMMA GlobalIsText ==
  ASSUME IsDisk(disk)
  PROVE  IsText(Global(disk))
<1>1. IsText(disk["xdg"]) /\ IsText(disk["legacy"])
  BY DEF IsDisk
<1>2. IsText(Absent)
  BY DEF IsText, Absent, NoPolicy, Knob
<1>3. Layers(disk, DefaultDir)["xdg"] = disk["xdg"] /\ Layers(disk, DefaultDir)["legacy"] = disk["legacy"]
  BY DEF Layers, FileName
<1> QED BY <1>1, <1>2, <1>3 DEF Global, Selected, FirstPresent

\* What is known of the suite and its results at every step of the run: there
\* are no results at first, a run that got past LoadFile has cases, and the next
\* case is one of them.
RunInv ==
  /\ TypeOK
  /\ tpc = "load" => results = <<>>
  /\ tpc = "fixed" => Len(results) < Len(suite.cases)
  /\ tpc = "report" => suite.cases # <<>>

\* The cases are a sequence, and so are the results.
LEMMA CasesAreSeq ==
  ASSUME TypeOK
  PROVE  /\ suite \in Suite /\ suite.cases \in Seq(TestCase)
         /\ Len(suite.cases) \in Nat /\ DOMAIN suite.cases = 1..Len(suite.cases)
         /\ results \in Seq(BOOLEAN) /\ Len(results) \in Nat
         /\ DOMAIN results = 1..Len(results)
<1>1. suite \in Suite
  BY SuitesAssumption DEF TypeOK
<1> QED BY <1>1 DEF Suite, TypeOK

\* The parts of TypeOK that a step of the run, which edits nothing, leaves alone.
LEMMA TestStepKeeps ==
  ASSUME TypeOK, TestStep
  PROVE  /\ suite' = suite /\ suite' \in Suites /\ fixed' \in BOOLEAN
         /\ IsDisk(disk)' /\ edits' \in 0..MaxEdits
BY DEF TypeOK, TestStep

\* A step that ends the run.
LEMMA StopRun ==
  ASSUME RunInv, TestStep, NEW code \in 0..2, Stop(code)
  PROVE  RunInv'
<1>1. tpc' = "ended" /\ texit' = code /\ cfg' = cfg /\ results' = results
  BY DEF Stop
<1> QED BY <1>1, TestStepKeeps DEF RunInv, TypeOK

\* A run starts without results.
LEMMA InitRun == Init => RunInv
<1> SUFFICES ASSUME Init PROVE RunInv
  OBVIOUS
<1>1. IsDisk(disk) /\ edits \in 0..MaxEdits
  BY DisksAssumption, EditsAssumption DEF Init
<1> QED BY <1>1 DEF Init, RunInv, TypeOK

\* A run gets past its test file only if there is a case to evaluate.
LEMMA LoadFileRun == ASSUME RunInv, LoadFile PROVE RunInv'
<1>1. TestStep
  BY DEF LoadFile
<1>2. CASE Stop(2)
  BY <1>1, <1>2, StopRun
<1>3. CASE /\ suite.cases # <<>> /\ tpc' = (IF fixed THEN "fixed" ELSE "global")
           /\ UNCHANGED TestVars
  <2>1. Len(results) = 0 /\ Len(suite.cases) > 0
    BY <1>3, CasesAreSeq DEF RunInv, LoadFile
  <2>2. tpc' \in {"fixed", "global"} /\ UNCHANGED <<cfg, results, texit>> /\ texit = 3
    BY <1>3 DEF TestVars, RunInv, TypeOK, LoadFile
  <2>3. Len(results') < Len(suite'.cases)
    BY <1>1, <2>1, <2>2, TestStepKeeps DEF RunInv
  <2> QED BY <1>1, <2>2, <2>3, TestStepKeeps DEF RunInv, TypeOK
<1> QED BY <1>2, <1>3 DEF LoadFile

\* A step that loads rules for the current case.
LEMMA LoadsRun ==
  ASSUME RunInv, TestStep, tpc \in {"fixed", "global", "project"},
         tpc' \in {"project", "evaluate"},
         cfg' \subseteq {r \in PolicyRule : r.valid}, UNCHANGED <<results, texit>>
  PROVE  RunInv'
<1>1. Len(results) < Len(suite.cases)
  BY DEF RunInv, TypeOK
<1> QED BY <1>1, TestStepKeeps DEF RunInv, TypeOK

\* --config: the file holds valid rules.
LEMMA LoadFixedRun == ASSUME RunInv, LoadFixed PROVE RunInv'
<1>1. TestStep /\ tpc = "fixed"
  BY DEF LoadFixed
<1>2. CASE Stop(2)
  BY <1>1, <1>2, StopRun
<1>3. CASE /\ LoadsText(disk["config"]) /\ tpc' = "evaluate" /\ cfg' = disk["config"].rules
           /\ UNCHANGED <<results, texit>>
  <2>1. IsText(disk["config"])
    BY DEF RunInv, TypeOK, IsDisk
  <2> QED BY <1>1, <1>3, <2>1, LoadedRules, LoadsRun
<1> QED BY <1>2, <1>3 DEF LoadFixed

\* The global layer holds valid rules.
LEMMA LoadGlobalRun == ASSUME RunInv, LoadGlobal PROVE RunInv'
<1>1. TestStep /\ tpc = "global"
  BY DEF LoadGlobal
<1>2. CASE Stop(2)
  BY <1>1, <1>2, StopRun
<1>3. CASE /\ LoadsText(Global(disk)) /\ tpc' = "project" /\ cfg' = Global(disk).rules
           /\ UNCHANGED <<results, texit>>
  <2>1. IsText(Global(disk))
    BY GlobalIsText DEF RunInv, TypeOK
  <2> QED BY <1>1, <1>3, <2>1, LoadedRules, LoadsRun
<1> QED BY <1>2, <1>3 DEF LoadGlobal

\* The project layer adds valid rules; its directory is the current case's.
LEMMA LoadProjectRun == ASSUME RunInv, LoadProject PROVE RunInv'
<1> DEFINE f == disk[DirOf(Current)]
<1>1. TestStep /\ tpc = "project"
  BY DEF LoadProject
<1>2. CASE Stop(2)
  BY <1>1, <1>2, StopRun
<1>3. CASE LoadsText(f) /\ tpc' = "evaluate" /\ cfg' = cfg \cup f.rules /\ UNCHANGED <<results, texit>>
  <2>1. Current \in TestCase
    <3>1. Len(results) + 1 \in 1..Len(suite.cases)
      BY <1>1, CasesAreSeq DEF RunInv, TypeOK
    <3>2. suite.cases \in Seq(TestCase) /\ DOMAIN suite.cases = 1..Len(suite.cases)
      BY CasesAreSeq DEF RunInv
    <3> QED BY <3>1, <3>2 DEF Current
  <2>2. DirOf(Current) \in Dirs
    BY <2>1, DirsAssumption DEF DirOf, TestCase
  <2>3. IsText(f)
    BY <2>2 DEF RunInv, TypeOK, IsDisk
  <2>4. f.rules \subseteq {r \in PolicyRule : r.valid}
    BY <1>3, <2>3, LoadedRules
  <2>5. cfg' \subseteq {r \in PolicyRule : r.valid}
    BY <1>3, <2>4 DEF RunInv, TypeOK
  <2> QED BY <1>1, <1>3, <2>5, LoadsRun
<1> QED BY <1>2, <1>3 DEF LoadProject

\* An evaluated case adds its result, and the run goes on to the next one.
LEMMA EvaluatedRun ==
  ASSUME RunInv, TestStep, tpc = "evaluate", NEW ok \in BOOLEAN,
         results' = Append(results, ok), tpc' = Then, UNCHANGED <<cfg, texit>>
  PROVE  RunInv'
<1>1. /\ results' \in Seq(BOOLEAN) /\ Len(results') = Len(results) + 1
      /\ Len(results) < Len(suite.cases)
  BY CasesAreSeq DEF RunInv, TypeOK
<1>2. CASE Len(results) + 1 = Len(suite.cases)
  <2>1. suite.cases # <<>>
    BY <1>1, CasesAreSeq DEF RunInv
  <2> QED BY <1>1, <1>2, <2>1, TestStepKeeps DEF RunInv, TypeOK, Then
<1>3. CASE Len(results) + 1 # Len(suite.cases)
  <2>1. Len(results') < Len(suite.cases)
    BY <1>1, <1>3, CasesAreSeq DEF RunInv
  <2> QED BY <1>1, <1>3, <2>1, TestStepKeeps DEF RunInv, TypeOK, Then
<1> QED BY <1>2, <1>3

\* A case passes or it does not.
LEMMA EvaluateCases ==
  ASSUME Evaluate
  PROVE  \/ Stop(2)
         \/ \E ok \in BOOLEAN :
              /\ results' = Append(results, ok) /\ tpc' = Then
              /\ UNCHANGED <<cfg, texit>>
BY Zenon DEF Evaluate, Passes

\* An evaluation adds a result or ends the run.
LEMMA EvaluateRun == ASSUME RunInv, Evaluate PROVE RunInv'
<1>1. TestStep /\ tpc = "evaluate"
  BY DEF Evaluate
<1>2. CASE Stop(2)
  BY <1>1, <1>2, StopRun
<1>3. CASE ~Stop(2)
  <2>1. PICK ok \in BOOLEAN :
          results' = Append(results, ok) /\ tpc' = Then /\ UNCHANGED <<cfg, texit>>
    BY <1>3, EvaluateCases
  <2> QED BY <1>1, <2>1, EvaluatedRun
<1> QED BY <1>2, <1>3

\* A report ends the run.
LEMMA ReportRun == ASSUME RunInv, Report PROVE RunInv'
<1>1. TestStep
  BY DEF Report
<1>2. \E code \in 0..2 : Stop(code)
  BY DEF Report
<1> QED BY <1>1, <1>2, StopRun

\* Neither an edit nor a hook call touches the run.
LEMMA OthersRun ==
  ASSUME RunInv, Edit \/ HookCall
  PROVE  RunInv' /\ UNCHANGED <<suite, results, texit>>
<1>1. UNCHANGED <<suite, fixed, tpc, cfg, results, texit>>
  BY DEF Edit, HookCall
<1>2. IsDisk(disk)' /\ edits' \in 0..MaxEdits
  <2>1. CASE Edit
    <3>1. PICK n \in DOMAIN disk, f \in SavedTexts : disk' = [disk EXCEPT ![n] = f]
      BY <2>1 DEF Edit
    <3>2. IsText(f)
      BY SavesAssumption
    <3>3. IsDisk(disk)'
      BY <3>1, <3>2 DEF RunInv, TypeOK, IsDisk
    <3>4. edits' \in 0..MaxEdits
      BY <2>1, EditsAssumption DEF Edit, RunInv, TypeOK
    <3> QED BY <3>3, <3>4
  <2>2. CASE HookCall
    BY <2>2 DEF HookCall, RunInv, TypeOK
  <2> QED BY <2>1, <2>2
<1> QED BY <1>1, <1>2 DEF RunInv, TypeOK

\* RunInv is inductive.
LEMMA RunInvariant == Spec => []RunInv
<1>1. RunInv /\ [Next]_vars => RunInv'
  <2> SUFFICES ASSUME RunInv, [Next]_vars PROVE RunInv'
    OBVIOUS
  <2>1. CASE UNCHANGED vars
    BY <2>1 DEF vars, RunInv, TypeOK, IsDisk, IsText
  <2> QED BY <2>1, LoadFileRun, LoadFixedRun, LoadGlobalRun, LoadProjectRun, EvaluateRun,
             ReportRun, OthersRun DEF Next
<1> QED BY <1>1, InitRun, PTL DEF Spec

\* Every reachable state of a test run is well typed: the configuration in use
\* has valid rules only, and there is one result for each case so far.
THEOREM TypeCorrect == Spec => []TypeOK
<1>1. RunInv => TypeOK
  BY DEF RunInv
<1> QED BY <1>1, RunInvariant, PTL

-----------------------------------------------------------------------------
(* The run is a gate made of its cases *)

passedCases == {i \in DOMAIN results : results[i]}
failedCases == {i \in DOMAIN results : ~results[i]}
gateVerdict == CASE texit = 3 -> "none" [] texit = 0 -> "pass" [] texit = 1 -> "fail" [] texit = 2 -> "error"

\* A stop with an error breaks the gate off.
LEMMA ErrorRefines ==
  ASSUME RunInv, TestStep, tpc # "ended", Stop(2)
  PROVE  Gate!Next
<1>1. suite' = suite /\ results' = results /\ texit = 3 /\ texit' = 2
  BY DEF TestStep, Stop, RunInv, TypeOK
<1>2. gateVerdict = "none" /\ gateVerdict' = "error"
  BY <1>1 DEF gateVerdict
<1>3. passedCases' = passedCases /\ failedCases' = failedCases
  BY <1>1 DEF passedCases, failedCases
<1> QED BY <1>1, <1>2, <1>3 DEF Gate!Next, Gate!BreakOff, gateVerdict, passedCases, failedCases

\* A case that is evaluated is one that was not evaluated before.
LEMMA CaseRefines ==
  ASSUME RunInv, TestStep, tpc = "evaluate", NEW ok \in BOOLEAN,
         results' = Append(results, ok), UNCHANGED <<cfg, texit>>
  PROVE  Gate!Next
<1> DEFINE n == Len(results) + 1
<1>1. /\ n \in DOMAIN suite.cases /\ n \notin DOMAIN results
      /\ DOMAIN results' = DOMAIN results \cup {n} /\ results'[n] = ok
      /\ \A i \in DOMAIN results : results'[i] = results[i]
  BY CasesAreSeq DEF RunInv, TypeOK
<1>2. n \notin passedCases \cup failedCases
  BY <1>1 DEF passedCases, failedCases
<1>3. suite' = suite /\ texit = 3 /\ texit' = 3
  BY DEF TestStep, RunInv, TypeOK
<1>4. gateVerdict = "none" /\ gateVerdict' = "none"
  BY <1>3 DEF gateVerdict
<1> HIDE DEF n
<1>5. CASE ok
  <2>1. passedCases' = passedCases \cup {n} /\ failedCases' = failedCases
    BY <1>1, <1>5 DEF passedCases, failedCases
  <2>2. \E c \in DOMAIN suite.cases :
          /\ c \in DOMAIN suite.cases \ (passedCases \cup failedCases)
          /\ passedCases' = passedCases \cup {c} /\ failedCases' = failedCases
    BY <1>1, <1>2, <2>1
  <2> QED BY <1>3, <1>4, <2>2 DEF Gate!Next, Gate!Pass, Gate!Open, passedCases, failedCases, gateVerdict
<1>6. CASE ~ok
  <2>1. failedCases' = failedCases \cup {n} /\ passedCases' = passedCases
    BY <1>1, <1>6 DEF passedCases, failedCases
  <2>2. \E c \in DOMAIN suite.cases :
          /\ c \in DOMAIN suite.cases \ (passedCases \cup failedCases)
          /\ failedCases' = failedCases \cup {c} /\ passedCases' = passedCases
    BY <1>1, <1>2, <2>1
  <2> QED BY <1>3, <1>4, <2>2 DEF Gate!Next, Gate!Fail, Gate!Open, passedCases, failedCases, gateVerdict
<1> QED BY <1>5, <1>6

\* A sequence without elements is the empty sequence.
LEMMA EmptySeqIsEmpty == ASSUME NEW S, NEW s \in Seq(S), Len(s) = 0 PROVE s = <<>>
OBVIOUS

\* The report concludes: there are cases, there is a result for each of them,
\* and the exit code is 0 only if all have passed.
LEMMA ReportRefines ==
  ASSUME RunInv, Report
  PROVE  Gate!Next
<1>1. TestStep /\ tpc = "report"
  BY DEF Report
<1>2. CASE Stop(2)
  BY <1>1, <1>2, ErrorRefines
<1>3. suite' = suite /\ texit = 3
  BY <1>1 DEF TestStep, RunInv, TypeOK
<1>4. gateVerdict = "none"
  BY <1>3 DEF gateVerdict
<1>5. DOMAIN results = DOMAIN suite.cases /\ DOMAIN suite.cases # {}
  <2>1. Len(results) = Len(suite.cases) /\ suite.cases # <<>>
    BY <1>1 DEF RunInv, TypeOK
  <2>2. suite.cases \in Seq(TestCase) /\ TypeOK
    BY CasesAreSeq DEF RunInv
  <2>3. Len(suite.cases) # 0
    BY <2>1, <2>2, EmptySeqIsEmpty
  <2>4. DOMAIN results = 1..Len(results) /\ DOMAIN suite.cases = 1..Len(suite.cases)
        /\ Len(suite.cases) \in Nat
    BY <2>2, CasesAreSeq
  <2>5. 1 \in 1..Len(suite.cases)
    BY <2>3, <2>4
  <2> QED BY <2>1, <2>4, <2>5
<1>6. CASE AllPassed(results) /\ Stop(0)
  <2>1. passedCases = DOMAIN suite.cases
    BY <1>5, <1>6 DEF AllPassed, passedCases
  <2>2. results' = results /\ gateVerdict' = "pass"
    BY <1>6 DEF Stop, gateVerdict
  <2>3. passedCases' = passedCases /\ failedCases' = failedCases
    BY <2>2 DEF passedCases, failedCases
  <2> QED BY <1>3, <1>4, <1>5, <2>1, <2>2, <2>3
      DEF Gate!Next, Gate!Conclude, passedCases, failedCases, gateVerdict
<1>7. CASE ~AllPassed(results) /\ Stop(1)
  <2>1. failedCases # {}
    BY <1>7 DEF AllPassed, failedCases
  <2>2. results' = results /\ gateVerdict' = "fail"
    BY <1>7 DEF Stop, gateVerdict
  <2>3. passedCases' = passedCases /\ failedCases' = failedCases
    BY <2>2 DEF passedCases, failedCases
  <2> QED BY <1>3, <1>4, <2>1, <2>2, <2>3
      DEF Gate!Next, Gate!Conclude, passedCases, failedCases, gateVerdict
<1> QED BY <1>2, <1>6, <1>7 DEF Report

\* What the gate does not see.
LEMMA Unseen ==
  ASSUME UNCHANGED <<suite, results, texit>>
  PROVE  UNCHANGED Gate!vars
BY DEF Gate!vars

\* A run of policy tests implements CheckGate: it exits 0 only if the file has
\* cases and each of them was evaluated and passed, 1 only if one was evaluated
\* and failed, and whatever else happens is an error (Run, Passed).
THEOREM TestGateHolds == Spec => TestGate
<1>1. Init => Gate!Init
  BY DEF Init, Gate!Init
<1>2. RunInv /\ [Next]_vars => [Gate!Next]_(Gate!vars)
  <2> SUFFICES ASSUME RunInv, [Next]_vars PROVE [Gate!Next]_(Gate!vars)
    OBVIOUS
  <2>1. CASE UNCHANGED <<suite, results, texit>>
    BY <2>1, Unseen
  <2>2. CASE LoadFile \/ LoadFixed \/ LoadGlobal \/ LoadProject
    <3>1. TestStep /\ tpc # "ended"
      BY <2>2 DEF LoadFile, LoadFixed, LoadGlobal, LoadProject
    <3>2. Stop(2) \/ UNCHANGED <<suite, results, texit>>
      BY <2>2 DEF LoadFile, LoadFixed, LoadGlobal, LoadProject, TestVars, TestStep
    <3> QED BY <2>1, <3>1, <3>2, ErrorRefines
  <2>3. CASE Evaluate
    <3>1. TestStep /\ tpc = "evaluate"
      BY <2>3 DEF Evaluate
    <3>2. CASE Stop(2)
      BY <3>1, <3>2, ErrorRefines
    <3>3. CASE ~Stop(2)
      <4>1. PICK ok \in BOOLEAN : results' = Append(results, ok) /\ UNCHANGED <<cfg, texit>>
        BY <2>3, <3>3, EvaluateCases
      <4> QED BY <3>1, <4>1, CaseRefines
    <3> QED BY <3>2, <3>3
  <2>4. CASE Report
    BY <2>4, ReportRefines
  <2>5. CASE Edit \/ HookCall
    BY <2>1, <2>5, OthersRun
  <2>6. CASE UNCHANGED vars
    BY <2>1, <2>6 DEF vars
  <2> QED BY <2>2, <2>3, <2>4, <2>5, <2>6 DEF Next
<1> QED BY <1>1, <1>2, RunInvariant, PTL DEF Spec, TestGate, Gate!Spec
-----------------------------------------------------------------------------
(* A suite that passes predicts the hooks *)

\* The one field a harness sends is the one its adapter reads ...
LEMMA ExtractsClaude ==
  ASSUME NEW tool \in DOMAIN ClaudeKey, NEW content, content # "notString"
  PROVE  ExtractClaude(tool, [k \in {ClaudeKey[tool]} |-> content]) = content
<1> DEFINE f == [k \in {ClaudeKey[tool]} |-> content]
<1>1. ClaudeKey[tool] \in DOMAIN f /\ f[ClaudeKey[tool]] = content
  OBVIOUS
<1> HIDE DEF f
<1>2. ExtractClaude(tool, f) = content
  BY <1>1, Zenon DEF ExtractClaude
<1> QED BY <1>2 DEF f

\* ... on grok too ...
LEMMA ExtractsGrok ==
  ASSUME NEW tool \in DOMAIN GrokKey, NEW content, content # "notString"
  PROVE  ExtractGrok(tool, [k \in {GrokKey[tool]} |-> content]) = content
<1> DEFINE f == [k \in {GrokKey[tool]} |-> content]
<1>1. GrokKey[tool] \in DOMAIN f /\ f[GrokKey[tool]] = content
  OBVIOUS
<1> HIDE DEF f
<1>2. ExtractGrok(tool, f) = content
  BY <1>1, Zenon DEF ExtractGrok
<1> QED BY <1>2 DEF f

\* ... and its names for a tool are translated back to the tool: every form of
\* a call reaches the rules as that call.
LEMMA CallIsConveyed ==
  ASSUME NEW h \in Harness, NEW tool \in Verified(h), NEW content, content # "notString",
         NEW p \in NativeForms(h, tool, content)
  PROVE  ParseInput(h, p) = [tool |-> tool, input |-> content]
<1>1. PICK n \in NativeNames(h, tool) :
        p.name = n /\ p.fields = [k \in {NativeKey(h, tool)} |-> content]
  BY DEF NativeForms, Payload
<1>2. CASE h = "grok"
  <2>1. n \in DOMAIN GrokAlias /\ GrokAlias[n] = tool
    BY <1>1, <1>2 DEF NativeNames
  <2>2. Alias(GrokAlias, n) = tool
    BY <2>1 DEF Alias
  <2>3. tool \in DOMAIN GrokKey /\ p.fields = [k \in {GrokKey[tool]} |-> content]
    BY <1>1, <1>2 DEF Verified, NativeKey
  <2>4. ExtractGrok(tool, p.fields) = content
    BY <2>3, ExtractsGrok
  <2> QED BY <1>1, <1>2, <2>2, <2>4 DEF ParseInput
<1>3. CASE h \in {"claude", "codex"}
  <2>1. tool \in DOMAIN ClaudeKey /\ p.fields = [k \in {ClaudeKey[tool]} |-> content]
    BY <1>1, <1>3 DEF Verified, NativeKey
  <2>2. ExtractClaude(tool, p.fields) = content
    BY <2>1, ExtractsClaude
  <2>3. CASE h = "claude"
    BY <1>1, <2>2, <2>3 DEF ParseInput, NativeNames
  <2>4. CASE h = "codex"
    <3>1. tool \notin DOMAIN CodexAlias
      BY <2>1 DEF ClaudeKey, CodexAlias
    <3>2. n = tool \/ (n \in DOMAIN CodexAlias /\ CodexAlias[n] = tool)
      BY <1>1, <2>4 DEF NativeNames
    <3>3. Alias(CodexAlias, n) = tool
      BY <3>1, <3>2 DEF Alias
    <3> QED BY <1>1, <2>2, <2>4, <3>3 DEF ParseInput
  <2> QED BY <1>3, <2>3, <2>4
<1> QED BY <1>2, <1>3 DEF Harness

\* A hook that is made the call of a case decides as the case expects.
Predicted(i) ==
  HookDecision(CallOf(suite.cases[i]), DirOf(suite.cases[i])) = suite.cases[i].expected

\* Unless a file is edited, the layers loaded for a case are those its hook
\* loads, a case that passed is predicted, and an exit with 0 means all passed.
PredictInv ==
  ~fixed /\ edits = 0 =>
    /\ tpc # "fixed"
    /\ tpc = "project" => LoadsText(Global(disk)) /\ cfg = Global(disk).rules
    /\ tpc = "evaluate" =>
         LET f == disk[DirOf(Current)]
         IN  /\ LoadsText(Global(disk)) /\ LoadsText(f)
             /\ cfg = Global(disk).rules \cup f.rules
    /\ \A i \in DOMAIN results : results[i] => Predicted(i)
    /\ texit = 0 => \A i \in DOMAIN suite.cases : i \in DOMAIN results /\ results[i]
    /\ \A l \in live : l.decision = suite.cases[l.case].expected

\* What is predicted of a case depends on the suite and the files only.
LEMMA PredictedKept ==
  ASSUME UNCHANGED <<suite, disk>>
  PROVE  /\ \A i : Predicted(i)' = Predicted(i)
         /\ Global(disk)' = Global(disk)
BY DEF Predicted, HookDecision

\* A step of the run that adds no result.
LEMMA PredictLoad ==
  ASSUME RunInv, PredictInv, LoadFile \/ LoadFixed \/ LoadGlobal \/ LoadProject
  PROVE  PredictInv'
<1> SUFFICES ASSUME ~fixed', edits' = 0 PROVE PredictInv'
  BY DEF PredictInv
<1>1. TestStep
  BY DEF LoadFile, LoadFixed, LoadGlobal, LoadProject
<1>2. ~fixed /\ edits = 0 /\ UNCHANGED <<suite, disk, live>>
  BY <1>1 DEF TestStep
<1>3. results' = results /\ texit' # 0
  BY DEF LoadFile, LoadFixed, LoadGlobal, LoadProject, Stop, TestVars, RunInv, TypeOK
<1>4. /\ \A i \in DOMAIN results' : results'[i] => Predicted(i)'
      /\ \A l \in live' : l.decision = suite'.cases[l.case].expected
  BY <1>2, <1>3, PredictedKept DEF PredictInv
<1>5. CASE LoadFile
  BY <1>2, <1>3, <1>4, <1>5 DEF LoadFile, Stop, PredictInv
<1>6. CASE LoadFixed
  BY <1>2, <1>6 DEF LoadFixed, PredictInv
<1>7. CASE LoadGlobal
  <2>1. tpc' = "ended" \/ (tpc' = "project" /\ LoadsText(Global(disk)) /\ cfg' = Global(disk).rules)
    BY <1>7 DEF LoadGlobal, Stop
  <2> QED BY <1>2, <1>3, <1>4, <2>1 DEF PredictInv
<1>8. CASE LoadProject
  <2>1. LoadsText(Global(disk)) /\ cfg = Global(disk).rules
    BY <1>2, <1>8 DEF LoadProject, PredictInv
  <2>2. \/ tpc' = "ended"
        \/ /\ tpc' = "evaluate" /\ LoadsText(disk[DirOf(Current)])
           /\ cfg' = cfg \cup disk[DirOf(Current)].rules
    BY <1>8 DEF LoadProject, Stop
  <2>3. Current' = Current
    BY <1>2, <1>3 DEF Current
  <2> QED BY <1>2, <1>3, <1>4, <2>1, <2>2, <2>3 DEF PredictInv
<1> QED BY <1>5, <1>6, <1>7, <1>8

\* A case that passes was decided by the rules its hook has.
LEMMA PredictEvaluate ==
  ASSUME RunInv, PredictInv, Evaluate
  PROVE  PredictInv'
<1> SUFFICES ASSUME ~fixed', edits' = 0 PROVE PredictInv'
  BY DEF PredictInv
<1>1. TestStep /\ tpc = "evaluate"
  BY DEF Evaluate
<1>2. ~fixed /\ edits = 0 /\ UNCHANGED <<suite, disk, live>>
  BY <1>1 DEF TestStep
<1>3. \A l \in live' : l.decision = suite'.cases[l.case].expected
  BY <1>2 DEF PredictInv
<1>4. CASE Stop(2)
  <2>1. tpc' = "ended" /\ texit' = 2 /\ results' = results
    BY <1>4 DEF Stop
  <2> QED BY <1>2, <1>3, <2>1, PredictedKept DEF PredictInv
<1>5. CASE ~Stop(2)
  <2>1. PICK ok \in BOOLEAN :
          /\ results' = Append(results, ok) /\ tpc' = Then /\ UNCHANGED <<cfg, texit>>
          /\ ok => Decided(cfg, CallOf(Current)) = Current.expected
    BY <1>5, Zenon DEF Evaluate, Passes
  <2>2. /\ DOMAIN results' = DOMAIN results \cup {Len(results) + 1}
        /\ results'[Len(results) + 1] = ok
        /\ \A i \in DOMAIN results : results'[i] = results[i]
    BY <2>1, CasesAreSeq DEF RunInv
  <2>3. ok => Predicted(Len(results) + 1)
    BY <1>1, <1>2, <2>1 DEF PredictInv, Predicted, HookDecision, Current
  <2>4. \A i \in DOMAIN results' : results'[i] => Predicted(i)
    BY <1>2, <2>2, <2>3 DEF PredictInv
  <2>5. tpc' \in {"report", "global"} /\ texit' = 3
    BY <1>1, <1>2, <2>1 DEF Then, RunInv, TypeOK
  <2> QED BY <1>2, <1>3, <2>4, <2>5, PredictedKept DEF PredictInv
<1> QED BY <1>4, <1>5

\* An exit with 0 reports that all passed.
LEMMA PredictReport ==
  ASSUME RunInv, PredictInv, Report
  PROVE  PredictInv'
<1> SUFFICES ASSUME ~fixed', edits' = 0 PROVE PredictInv'
  BY DEF PredictInv
<1>1. TestStep /\ tpc = "report"
  BY DEF Report
<1>2. ~fixed /\ edits = 0 /\ UNCHANGED <<suite, disk, live>>
  BY <1>1 DEF TestStep
<1>3. PICK code \in 0..2 : Stop(code) /\ (code = 0 => AllPassed(results))
  BY DEF Report
<1>4. tpc' = "ended" /\ texit' = code /\ results' = results
  BY <1>3 DEF Stop
<1>5. DOMAIN results = DOMAIN suite.cases
  BY <1>1, CasesAreSeq DEF RunInv, TypeOK
<1>6. texit' = 0 => \A i \in DOMAIN suite.cases : i \in DOMAIN results /\ results[i]
  BY <1>3, <1>4, <1>5 DEF AllPassed
<1> QED BY <1>2, <1>4, <1>6, PredictedKept DEF PredictInv

\* A hook is made the call of a case that passed.
LEMMA PredictHook ==
  ASSUME RunInv, PredictInv, HookCall
  PROVE  PredictInv'
<1> SUFFICES ASSUME ~fixed', edits' = 0 PROVE PredictInv'
  BY DEF PredictInv
<1>1. ~fixed /\ edits = 0 /\ UNCHANGED <<suite, disk, tpc, cfg, results, texit>> /\ texit = 0 /\ tpc = "ended"
  BY DEF HookCall
<1>2. PICK h \in Harness, i \in DOMAIN suite.cases :
        LET c == suite.cases[i]
        IN  /\ c.tool \in Verified(h)
            /\ \E p \in NativeForms(h, c.tool, c.input) :
                 live' = {[case |-> i, decision |-> HookDecision(ParseInput(h, p), DirOf(c))]}
  BY DEF HookCall
<1> DEFINE c == suite.cases[i]
<1>3. PICK p \in NativeForms(h, c.tool, c.input) :
        live' = {[case |-> i, decision |-> HookDecision(ParseInput(h, p), DirOf(c))]}
  BY <1>2
<1>4. c.input # "notString"
  <2>1. c \in TestCase
    BY CasesAreSeq DEF RunInv
  <2>2. c.input \in Inputs
    BY <2>1, Zenon DEF TestCase
  <2> QED BY <2>2, InputsAssumption
<1>5. ParseInput(h, p) = CallOf(c)
  BY <1>2, <1>4, CallIsConveyed DEF CallOf
<1>6. Predicted(i)
  BY <1>1 DEF PredictInv
<1>7. \A l \in live' : l.decision = suite'.cases[l.case].expected
  BY <1>1, <1>3, <1>5, <1>6 DEF Predicted
<1>8. Current' = Current
  BY <1>1 DEF Current
<1> QED BY <1>1, <1>7, <1>8, PredictedKept DEF PredictInv

\* The prediction is right in every reachable state.
LEMMA PredictInvariant == Spec => [](RunInv /\ PredictInv)
<1>1. Init => PredictInv
  <2> SUFFICES ASSUME Init PROVE PredictInv
    OBVIOUS
  <2>1. tpc = "load" /\ results = <<>> /\ texit = 3 /\ live = {}
    BY DEF Init
  <2>2. DOMAIN results = {}
    BY <2>1
  <2> QED BY <2>1, <2>2 DEF PredictInv
<1>2. RunInv /\ PredictInv /\ [Next]_vars => PredictInv'
  <2> SUFFICES ASSUME RunInv, PredictInv, [Next]_vars PROVE PredictInv'
    OBVIOUS
  <2>1. CASE Edit
    <3>1. edits' # 0
      BY <2>1 DEF Edit, RunInv, TypeOK
    <3> QED BY <3>1 DEF PredictInv
  <2>2. CASE UNCHANGED vars
    <3>1. Current' = Current
      BY <2>2 DEF vars, Current
    <3> QED BY <2>2, <3>1, PredictedKept DEF vars, PredictInv
  <2> QED BY <2>1, <2>2, PredictLoad, PredictEvaluate, PredictReport, PredictHook DEF Next
<1> QED BY <1>1, <1>2, RunInvariant, PTL DEF Spec

\* A suite that passes against the live configuration predicts every hook: the
\* harnesses decide the calls of its cases as the cases expect.
THEOREM PassPredictsHookHolds == Spec => []PassPredictsHook
<1>1. PredictInv => PassPredictsHook
  BY DEF PredictInv, PassPredictsHook
<1> QED BY <1>1, PredictInvariant, PTL
=============================================================================
