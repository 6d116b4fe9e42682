------------------------ MODULE GatekeeperHook_proofs ------------------------
(***************************************************************************)
(* Proofs about GatekeeperHook, for any set of hooks, any policy files and *)
(* any template, and any output of `migrate` that keeps deny rules apart   *)
(* from allow rules.                                                       *)
(***************************************************************************)
EXTENDS GatekeeperHook, TLAPS

-----------------------------------------------------------------------------
(* Facts about the operators *)

\* Reading and layering files stays within the types.
LEMMA FileTypes ==
  /\ Absent \in File /\ EmptyPolicy \in File /\ Junk \in File
  /\ NoConfig \in Config
  /\ \A fs \in Files : Selected(fs) \in File /\ FirstPresent(fs) \in {"none", "xdg", "legacy"}
  /\ \A c \in Config, f \in File : Overlay(c, f) \in Config
  /\ \A f \in File : ReadableKnob(f) \in {"abstain", "deny"}
  /\ \A fs \in Files : GlobalOnError(fs) \in {"abstain", "deny"}
  /\ \A c \in Config : OnErrorDecision(c) \in {"abstain", "deny"}
  BY DEF Absent, EmptyPolicy, Junk, NoPolicy, Policy, File, Knob, RuleClass, NoConfig, Config,
         Files, FileName, Selected, FirstPresent, Overlay, ReadableKnob, GlobalOnError,
         OnErrorDecision

\* A decodable file with rules of the known classes is a policy file.
LEMMA PolicyType == \A k \in Knob, R \in SUBSET RuleClass : Policy(k, R) \in File
  BY DEF Policy, File, Knob

\* What `migrate` writes, complete or torn, is a policy file.
LEMMA MigrateTypes == Migrated \in File /\ Torn \subseteq File
<1>1. MigDeny \subseteq RuleClass /\ MigAllow \subseteq RuleClass /\ "unset" \in Knob
  BY MigrateAssumption DEF RuleClass, Knob
<1>2. Migrated \in File
  BY <1>1, PolicyType DEF Migrated
<1>3. ASSUME NEW f \in Torn PROVE f \in File
  <2>1. CASE f = Junk
    BY <2>1, FileTypes
  <2>2. CASE \E S \in SUBSET MigDeny : f = Policy("unset", S)
    BY <2>2, <1>1, PolicyType
  <2>3. CASE \E S \in SUBSET MigAllow : f = Policy("unset", MigDeny \cup S)
    <3>1. PICK S \in SUBSET MigAllow : f = Policy("unset", MigDeny \cup S)
      BY <2>3
    <3>2. MigDeny \cup S \subseteq RuleClass
      BY <1>1
    <3> QED BY <1>1, <3>1, <3>2, PolicyType
  <2> QED BY <1>3, <2>1, <2>2, <2>3 DEF Torn
<1> QED BY <1>2, <1>3

\* The beginnings of the template, its torn copies, and what an overlap with
\* `migrate` leaves, are policy files.
LEMMA TemplateTypes ==
  /\ \A i \in 0..Len(TemplateRules) : TemplateUpTo(i) \in File
  /\ Template \in TornTemplate /\ Template \in File
  /\ TornTemplate \subseteq File
  /\ Blends \subseteq File
<1>0. Len(TemplateRules) \in Nat /\ TemplateKnob \in Knob /\ "unset" \in Knob
  BY TemplateAssumption DEF Knob
<1>1. ASSUME NEW i \in 0..Len(TemplateRules)
      PROVE  {TemplateRules[j] : j \in 1..i} \in SUBSET RuleClass
  <2>1. \A j \in 1..i : TemplateRules[j] \in RuleClass
    BY <1>0, TemplateAssumption
  <2> QED BY <2>1
<1>2. ASSUME NEW i \in 0..Len(TemplateRules)
      PROVE  /\ TemplateUpTo(i) \in File
             /\ Policy(TemplateKnob, TemplateUpTo(i).rules \cup {"invalid"}) \in File
  <2>1. /\ TemplateUpTo(i).rules \in SUBSET RuleClass
        /\ TemplateUpTo(i).rules \cup {"invalid"} \in SUBSET RuleClass
    BY <1>1 DEF TemplateUpTo, Policy, RuleClass
  <2> QED BY <1>0, <1>1, <2>1, PolicyType DEF TemplateUpTo
<1>3. Len(TemplateRules) \in 0..Len(TemplateRules)
  BY <1>0
<1>4. Template \in TornTemplate /\ Template \in File
  BY <1>2, <1>3 DEF Template, TornTemplate
<1>5. TornTemplate \subseteq File
  BY <1>2, FileTypes DEF TornTemplate
<1>6. Blends \subseteq File
  BY <1>0, PolicyType, FileTypes DEF Blends
<1> QED BY <1>2, <1>4, <1>5, <1>6

\* The wire of every harness is a wire, and is heard as one answer.
LEMMA WireTypes ==
  \A e \in Env, d \in Decision :
    /\ Written(e.stdout, Encode(e.harness, d)) \in Wire
    /\ Silent(0) \in Wire
  BY DEF Env, Decision, Written, Encode, EncodeClaude, EncodeCodex, EncodeGrok, Silent, Wire

Promises == [knob : BOOLEAN, valid : BOOLEAN, closed : BOOLEAN]

\* The history records stay records of Booleans.
LEMMA PromiseTypes ==
  /\ \A fs : Promise(fs) \in Promises
  /\ \A p, q \in Promises : Both(p, q) \in Promises
  BY DEF Promise, Promises, Both, Loads, NeverAllows, Present

-----------------------------------------------------------------------------
(* Type correctness *)

\* Any step of a hook keeps every variable in its type.
LEMMA HookStepTypes ==
  ASSUME TypeOK, NEW h \in Hooks, HookStep(h)
  PROVE  TypeOK'
<1> USE DEF TypeOK, WorldUnchanged, local, Goto, PC
<1>0. /\ Selected(files) \in File
      /\ FirstPresent(files) \in {"none", "xdg", "legacy"}
      /\ files["project"] \in File
      /\ GlobalOnError(files) \in {"abstain", "deny"}
      /\ knobPath[h] # "none" => files[knobPath[h]] \in File
      /\ env[h] \in Env
  BY FileTypes DEF Files, FileName
<1>1. CASE StartUp(h)
  BY <1>1, <1>0, WireTypes DEF StartUp, Decision
<1>2. CASE InstallCheck(h)
  BY <1>2 DEF InstallCheck
<1>3. CASE InstallTruncate(h)
  <2>1. files' \in Files
    BY <1>3, FileTypes DEF InstallTruncate, Files, FileName
  <2>2. hist' \in Promises
    <3>1. Both(hist, Promise([files EXCEPT !["legacy"] = Template])) \in Promises
      BY PromiseTypes DEF Promises
    <3> QED BY <1>3, <3>1 DEF InstallTruncate, Promises
  <2> QED BY <1>3, <2>1, <2>2 DEF InstallTruncate, Promises
<1>4. CASE InstallWrite(h)
  <2>1. Copying \subseteq File
    BY TemplateTypes DEF Copying
  <2>2. files' \in Files
    BY <1>4, <2>1 DEF InstallWrite, Files, FileName
  <2> QED BY <1>4, <2>2 DEF InstallWrite
<1>5. CASE ResolvePosture(h)
  BY <1>5 DEF ResolvePosture, Resolve
<1>6. CASE ParseInput(h)
  BY <1>6 DEF ParseInput, FailWith, Decision
<1>7. CASE InputOnError(h)
  BY <1>7, <1>0 DEF InputOnError, FailWith, Decision
<1>8. CASE LoadGlobal(h)
  <2>1. Overlay(NoConfig, Selected(files)) \in Config
    BY <1>0, FileTypes
  <2> QED BY <1>8, <2>1 DEF LoadGlobal, LoadFailed, FailWith, Decision
<1>9. CASE LoadProject(h)
  <2>1. Overlay(cfg[h], files["project"]) \in Config
    BY <1>0, FileTypes
  <2>2. OnErrorDecision(Overlay(cfg[h], files["project"])) \in {"abstain", "deny"}
    BY <2>1, FileTypes
  <2> QED BY <1>9, <2>1, <2>2 DEF LoadProject, LoadFailed, FailWith, Decision
<1>10. CASE LoadOnError(h)
  BY <1>10 DEF LoadOnError, FailWith, Decision
<1>11. CASE StatKnob(h)
  BY <1>11, <1>0 DEF StatKnob, FailWith, Decision
<1>12. CASE ReadKnob(h)
  <2>1. ReadableKnob(files[knobPath[h]]) \in {"abstain", "deny"}
    BY DEF ReadableKnob
  <2> QED BY <1>12, <2>1 DEF ReadKnob, FailWith, Decision
<1>13. CASE CompileEngine(h)
  BY <1>13 DEF CompileEngine, FailWith, Decision
<1>14. CASE Evaluate(h)
  BY <1>14 DEF Evaluate, Evaluation, FailWith, Decision
<1>15. CASE Panic(h)
  BY <1>15 DEF Panic, FailWith, Decision
<1>16. CASE Emit(h)
  <2>1. Written(env[h].stdout, Encode(env[h].harness, verdict[h])) \in Wire
    BY <1>0, WireTypes
  <2> QED BY <1>16, <2>1 DEF Emit
<1> QED
  BY <1>1, <1>2, <1>3, <1>4, <1>5, <1>6, <1>7, <1>8, <1>9, <1>10, <1>11, <1>12, <1>13,
     <1>14, <1>15, <1>16 DEF HookStep, Progress

\* So does any step of `migrate`, of the user, or a kill.
LEMMA WorldStepTypes ==
  ASSUME TypeOK, MigrateStep \/ Edit \/ \E h \in Hooks : Killed(h)
  PROVE  TypeOK'
<1> USE DEF TypeOK, WorldUnchanged, local
<1>1. CASE MigrateStart
  BY <1>1 DEF MigrateStart
<1>2. CASE MigrateTruncate
  <2>1. files' \in Files
    BY <1>2, FileTypes DEF MigrateTruncate, Files, FileName
  <2>2. hist' \in Promises
    <3>1. Both(hist, Promise([files EXCEPT !["legacy"] = Migrated])) \in Promises
      BY PromiseTypes DEF Promises
    <3> QED BY <1>2, <3>1 DEF MigrateTruncate, Promises
  <2> QED BY <1>2, <2>1, <2>2 DEF MigrateTruncate, Promises
<1>3. CASE MigrateWrite
  <2>1. files' \in Files
    BY <1>3, MigrateTypes, TemplateTypes DEF MigrateWrite, Files, FileName
  <2> QED BY <1>3, <2>1 DEF MigrateWrite
<1>4. CASE MigrateCrash
  BY <1>4 DEF MigrateCrash
<1>5. CASE Edit
  <2>1. files' \in Files
    BY <1>5, FileAssumption DEF Edit, Files
  <2>2. edits' \in 0..MaxEdits
    BY <1>5, BoundAssumption DEF Edit
  <2>3. hist' \in Promises
    <3>1. Both(hist, Promise(files')) \in Promises
      BY PromiseTypes DEF Promises
    <3> QED BY <1>5, <3>1 DEF Edit, Promises
  <2> QED BY <1>5, <2>1, <2>2, <2>3 DEF Edit, Promises
<1>6. CASE \E h \in Hooks : Killed(h)
  BY <1>6 DEF Killed, PC
<1> QED BY <1>1, <1>2, <1>3, <1>4, <1>5, <1>6 DEF MigrateStep

\* Every reachable state is well typed.
THEOREM TypeCorrect == Spec => []TypeOK
<1>1. Init => TypeOK
  BY FileAssumption, EnvAssumption, BoundAssumption, FileTypes, WireTypes, PromiseTypes
     DEF Init, TypeOK, PC, Decision, Promises, Wire, Silent
<1>2. TypeOK /\ [Next]_vars => TypeOK'
  <2> SUFFICES ASSUME TypeOK, [Next]_vars PROVE TypeOK'
    OBVIOUS
  <2>1. CASE \E h \in Hooks : HookStep(h)
    BY <2>1, HookStepTypes
  <2>2. CASE MigrateStep \/ Edit \/ \E h \in Hooks : Killed(h)
    BY <2>2, WorldStepTypes
  <2>3. CASE UNCHANGED vars
    BY <2>3 DEF vars, TypeOK
  <2> QED BY <2>1, <2>2, <2>3 DEF Next
<1> QED BY <1>1, <1>2, PTL DEF Spec

-----------------------------------------------------------------------------
(* Fail closed *)

\* The steps at which a posture is read from the files.
KnobSteps == {"inputOnError", "loadOnError", "statKnob", "readKnob"}

\* What a hook h under an override knows at each step: the posture is the
\* override's before anything is read and stays so, the files are never asked
\* for another one, and every failure is answered with it.
OverrideAt(h) ==
  /\ pc[h] \in Guarded \cup {"emit", "done"} => onError[h] = Resolve(env[h].override)
  /\ pc[h] \notin KnobSteps
  /\ failed[h] # "none" => pc[h] \in {"emit", "done", "killed"}
  /\ failed[h] # "none" /\ pc[h] \in {"emit", "done"} => verdict[h] = Resolve(env[h].override)

\* Asked to fail closed, it never evaluates an empty policy either.
StrictAt(h) ==
  /\ pc[h] = "evaluate" => cfg[h].rules # {}
  /\ pc[h] \in {"emit", "done"} /\ failed[h] = "none" /\ env[h].input # "otherEvent"
       => cfg[h].rules # {}

\* A verdict without a failure is the evaluation of what was loaded, which is
\* nothing for an event that is not a tool call.
JudgedAt(h) ==
  /\ pc[h] \in {"start", "install", "installTruncate", "installWrite", "resolve", "parse"}
       => cfg[h] = NoConfig /\ verdict[h] = "abstain"
  /\ pc[h] \in {"emit", "done"} /\ failed[h] = "none" => verdict[h] = Evaluation(cfg[h].rules)

\* An answer is the encoding of the verdict.
WireAt(h) ==
  pc[h] = "done" => wire[h] = Written(env[h].stdout, Encode(env[h].harness, verdict[h]))

\* A failure leads to emit and never carries an allow there.
FaultAt(h) ==
  failed[h] # "none" =>
    verdict[h] # "allow" /\ pc[h] \in KnobSteps \cup {"emit", "done", "killed"}

\* A hook whose flags do not parse ends before anything can fail.
FlagsAt(h) == failed[h] = "none" /\ pc[h] \in {"start", "done", "killed"}

HookAt(h) ==
  /\ env[h].flags = "ok" /\ Active(env[h].override) => OverrideAt(h)
  /\ Strict(env[h]) => StrictAt(h)
  /\ JudgedAt(h)
  /\ env[h].flags = "ok" => WireAt(h)
  /\ FaultAt(h)
  /\ env[h].flags = "bad" => FlagsAt(h)

HookInv == \A h \in Hooks : HookAt(h)

\* A step of one hook leaves what the others know alone.
LEMMA OtherHooks ==
  ASSUME TypeOK, NEW h \in Hooks, HookStep(h) \/ Killed(h)
  PROVE  /\ env' = env
         /\ \A g \in Hooks \ {h} :
              /\ pc'[g] = pc[g] /\ onError'[g] = onError[g] /\ cfg'[g] = cfg[g]
              /\ verdict'[g] = verdict[g] /\ wire'[g] = wire[g] /\ failed'[g] = failed[g]
<1> USE DEF TypeOK, Goto, local
<1>1. CASE StartUp(h)
  BY <1>1 DEF StartUp
<1>2. CASE InstallCheck(h) \/ InstallTruncate(h) \/ InstallWrite(h)
  BY <1>2 DEF InstallCheck, InstallTruncate, InstallWrite
<1>3. CASE ResolvePosture(h) \/ ParseInput(h) \/ InputOnError(h)
  BY <1>3 DEF ResolvePosture, ParseInput, InputOnError, FailWith
<1>4. CASE LoadGlobal(h) \/ LoadProject(h)
  BY <1>4 DEF LoadGlobal, LoadProject, LoadFailed, FailWith
<1>5. CASE LoadOnError(h) \/ StatKnob(h) \/ ReadKnob(h)
  BY <1>5 DEF LoadOnError, StatKnob, ReadKnob, FailWith
<1>6. CASE CompileEngine(h) \/ Evaluate(h)
  BY <1>6 DEF CompileEngine, Evaluate, FailWith
<1>7. CASE Panic(h) \/ Emit(h) \/ Killed(h)
  BY <1>7 DEF Panic, Emit, Killed, FailWith
<1> QED BY <1>1, <1>2, <1>3, <1>4, <1>5, <1>6, <1>7 DEF HookStep, Progress

\* The step of a hook under an override keeps its part of the invariant.
LEMMA OverrideStep ==
  ASSUME TypeOK, HookInv, NEW h \in Hooks, HookStep(h) \/ Killed(h),
         env[h].flags = "ok", Active(env[h].override)
  PROVE  /\ OverrideAt(h)'
         /\ Strict(env[h]) => StrictAt(h)'
<1>0. /\ OverrideAt(h)
      /\ Strict(env[h]) => StrictAt(h) /\ Resolve(env[h].override) = "deny"
  BY DEF HookInv, HookAt, Strict, Resolve
<1>1. env' = env
  BY OtherHooks
<1> USE <1>0, <1>1 DEF TypeOK, OverrideAt, StrictAt, KnobSteps, Guarded, Goto, WorldUnchanged, local, FailWith
<1>2. CASE StartUp(h)
  BY <1>2 DEF StartUp
<1>3. CASE InstallCheck(h) \/ InstallTruncate(h) \/ InstallWrite(h)
  BY <1>3 DEF InstallCheck, InstallTruncate, InstallWrite
<1>4. CASE ResolvePosture(h)
  BY <1>4 DEF ResolvePosture
<1>5. CASE ParseInput(h)
  BY <1>5 DEF ParseInput
<1>6. CASE InputOnError(h) \/ LoadOnError(h) \/ StatKnob(h) \/ ReadKnob(h)
  BY <1>6 DEF InputOnError, LoadOnError, StatKnob, ReadKnob
<1>7. CASE LoadGlobal(h)
  BY <1>7 DEF LoadGlobal, LoadFailed
<1>8. CASE LoadProject(h)
  BY <1>8 DEF LoadProject, LoadFailed
<1>9. CASE CompileEngine(h)
  BY <1>9 DEF CompileEngine
<1>10. CASE Evaluate(h)
  BY <1>10 DEF Evaluate
<1>11. CASE Panic(h)
  BY <1>11 DEF Panic
<1>12. CASE Emit(h)
  BY <1>12 DEF Emit
<1>13. CASE Killed(h)
  BY <1>13 DEF Killed
<1> QED
  BY <1>2, <1>3, <1>4, <1>5, <1>6, <1>7, <1>8, <1>9, <1>10, <1>11, <1>12, <1>13 DEF HookStep, Progress

\* The step of any hook keeps the other parts.
LEMMA AnyHookStep ==
  ASSUME TypeOK, HookInv, NEW h \in Hooks, HookStep(h) \/ Killed(h)
  PROVE  /\ JudgedAt(h)'
         /\ env[h].flags = "ok" => WireAt(h)'
         /\ FaultAt(h)'
         /\ env[h].flags = "bad" => FlagsAt(h)'
<1>0. /\ JudgedAt(h)
      /\ env[h].flags = "ok" => WireAt(h)
      /\ FaultAt(h)
      /\ env[h].flags = "bad" => FlagsAt(h)
      /\ env[h].flags \in {"ok", "bad"}
  BY DEF HookInv, HookAt, TypeOK, Env
<1>1. env' = env /\ Evaluation(NoConfig.rules) = "abstain"
  BY OtherHooks DEF Evaluation, NoConfig
<1> USE <1>0, <1>1 DEF TypeOK, JudgedAt, WireAt, FaultAt, FlagsAt, KnobSteps, Guarded, Goto,
                       WorldUnchanged, local, FailWith
<1>2. CASE StartUp(h)
  BY <1>2 DEF StartUp
<1>3. CASE InstallCheck(h) \/ InstallTruncate(h) \/ InstallWrite(h)
  BY <1>3 DEF InstallCheck, InstallTruncate, InstallWrite
<1>4. CASE ResolvePosture(h)
  BY <1>4 DEF ResolvePosture
<1>5. CASE ParseInput(h)
  BY <1>5 DEF ParseInput
<1>6. CASE InputOnError(h) \/ LoadOnError(h)
  BY <1>6, FileTypes DEF InputOnError, LoadOnError
<1>7. CASE StatKnob(h) \/ ReadKnob(h)
  BY <1>7 DEF StatKnob, ReadKnob, ReadableKnob
<1>8. CASE LoadGlobal(h) \/ LoadProject(h)
  BY <1>8 DEF LoadGlobal, LoadProject, LoadFailed
<1>9. CASE CompileEngine(h) \/ Evaluate(h)
  BY <1>9 DEF CompileEngine, Evaluate
<1>10. CASE Panic(h)
  BY <1>10 DEF Panic
<1>11. CASE Emit(h)
  BY <1>11 DEF Emit
<1>12. CASE Killed(h)
  BY <1>12 DEF Killed
<1> QED
  BY <1>2, <1>3, <1>4, <1>5, <1>6, <1>7, <1>8, <1>9, <1>10, <1>11, <1>12 DEF HookStep, Progress

\* Every reachable state satisfies the invariant, whatever the files do.
LEMMA HookInvariant == Spec => []HookInv
<1>1. Init => HookInv
  BY DEF Init, HookInv, HookAt, OverrideAt, StrictAt, JudgedAt, WireAt, FaultAt, FlagsAt,
         KnobSteps, Guarded
<1>2. TypeOK /\ HookInv /\ [Next]_vars => HookInv'
  <2> SUFFICES ASSUME TypeOK, HookInv, [Next]_vars PROVE HookInv'
    OBVIOUS
  <2>1. ASSUME NEW h \in Hooks, HookStep(h) \/ Killed(h) PROVE HookInv'
    <3>1. env' = env
      BY <2>1, OtherHooks
    <3>2. ASSUME NEW g \in Hooks, g # h PROVE HookAt(g)'
      <4>1. /\ pc'[g] = pc[g] /\ onError'[g] = onError[g] /\ cfg'[g] = cfg[g]
            /\ verdict'[g] = verdict[g] /\ wire'[g] = wire[g] /\ failed'[g] = failed[g]
        BY <2>1, <3>2, OtherHooks
      <4> QED BY <3>1, <4>1 DEF HookInv, HookAt, OverrideAt, StrictAt, JudgedAt, WireAt, FaultAt, FlagsAt
    <3>3. HookAt(h)'
      <4>1. Strict(env[h]) => env[h].flags = "ok" /\ Active(env[h].override)
        BY DEF Strict, Active
      <4> QED BY <2>1, <3>1, <4>1, OverrideStep, AnyHookStep DEF HookAt
    <3> QED BY <3>2, <3>3 DEF HookInv
  <2>2. CASE MigrateStep \/ Edit
    BY <2>2 DEF MigrateStep, MigrateStart, MigrateTruncate, MigrateWrite, MigrateCrash, Edit,
                local, HookInv, HookAt, OverrideAt, StrictAt, JudgedAt, WireAt, FaultAt, FlagsAt
  <2>3. CASE UNCHANGED vars
    BY <2>3 DEF vars, HookInv, HookAt, OverrideAt, StrictAt, JudgedAt, WireAt, FaultAt, FlagsAt
  <2> QED BY <2>1, <2>2, <2>3 DEF Next
<1> QED BY <1>1, <1>2, TypeCorrect, PTL DEF Spec

\* A deny verdict is heard as a deny by every harness that can be told.
LEMMA DenyIsHeard ==
  ASSUME NEW e \in Env, Strict(e)
  PROVE  Reads(e.harness, Written(e.stdout, Encode(e.harness, "deny"))) = "deny"
  BY DEF Env, Strict, Reads, Written, Encode, EncodeClaude, EncodeCodex, EncodeGrok, Silent

\* Under GATEKEEPER_ON_ERROR=deny, or a misspelling of it, every failure and
\* every empty policy is heard as a deny.
THEOREM FailClosedHolds == Spec => []FailClosed
<1>1. TypeOK /\ HookInv => FailClosed
  <2> SUFFICES ASSUME TypeOK, HookInv, NEW h \in Hooks,
                      Answered(h), Strict(env[h]), env[h].input # "otherEvent",
                      failed[h] # "none" \/ cfg[h].rules = {}
               PROVE  Heard(h) = "deny"
    BY DEF FailClosed
  <2>1. verdict[h] = "deny"
    BY DEF HookInv, HookAt, OverrideAt, StrictAt, Answered, Strict, Active, Resolve
  <2>2. wire[h] = Written(env[h].stdout, Encode(env[h].harness, verdict[h]))
    BY DEF HookInv, HookAt, WireAt, Answered, Strict
  <2> QED BY <2>1, <2>2, DenyIsHeard DEF Heard, TypeOK
<1> QED BY <1>1, TypeCorrect, HookInvariant, PTL

-----------------------------------------------------------------------------
(* What a verdict sounds like *)

\* An abstain is left to the harness's own permission system, and only an
\* allow is heard as one.
LEMMA VerdictIsHeard ==
  ASSUME NEW e \in Env, NEW d \in Decision
  PROVE  LET heard == Reads(e.harness, Written(e.stdout, Encode(e.harness, d)))
         IN  (d = "abstain" => heard = "native") /\ (heard = "allow" => d = "allow")
  BY DEF Env, Decision, Reads, Written, Encode, EncodeClaude, EncodeCodex, EncodeGrok, Silent

\* Which is how every answer is heard.
LEMMA AnswerIsHeard ==
  ASSUME TypeOK, HookInv, NEW h \in Hooks, Answered(h), env[h].flags = "ok"
  PROVE  /\ verdict[h] = "abstain" => Heard(h) = "native"
         /\ Heard(h) = "allow" => verdict[h] = "allow"
<1>1. wire[h] = Written(env[h].stdout, Encode(env[h].harness, verdict[h]))
  BY DEF HookInv, HookAt, WireAt, Answered
<1>2. env[h] \in Env /\ verdict[h] \in Decision
  BY DEF TypeOK
<1> QED BY <1>1, <1>2, VerdictIsHeard DEF Heard

\* Under GATEKEEPER_ON_ERROR=abstain no failure denies or allows a call.
THEOREM AdvisoryStaysAdvisoryHolds == Spec => []AdvisoryStaysAdvisory
<1>1. TypeOK /\ HookInv => AdvisoryStaysAdvisory
  <2> SUFFICES ASSUME TypeOK, HookInv, NEW h \in Hooks, Answered(h),
                      env[h].flags = "ok", env[h].override = "abstain", failed[h] # "none"
               PROVE  Heard(h) = "native"
    BY DEF AdvisoryStaysAdvisory
  <2>1. verdict[h] = "abstain"
    BY DEF HookInv, HookAt, OverrideAt, Answered, Active, Resolve
  <2> QED BY <2>1, AnswerIsHeard
<1> QED BY <1>1, TypeCorrect, HookInvariant, PTL

\* A call no rule matches is left to the harness under every posture.
THEOREM NoMatchAbstainsHolds == Spec => []NoMatchAbstains
<1>1. TypeOK /\ HookInv => NoMatchAbstains
  <2> SUFFICES ASSUME TypeOK, HookInv, NEW h \in Hooks, Answered(h), env[h].flags = "ok",
                      failed[h] = "none", cfg[h].rules \cap {"allow", "deny"} = {}
               PROVE  Heard(h) = "native"
    BY DEF NoMatchAbstains
  <2>1. Evaluation(cfg[h].rules) = "abstain"
    BY DEF Evaluation
  <2>2. verdict[h] = "abstain"
    BY <2>1 DEF HookInv, HookAt, JudgedAt, Answered
  <2> QED BY <2>2, AnswerIsHeard
<1> QED BY <1>1, TypeCorrect, HookInvariant, PTL

\* An allow needs a load without failure, an allow rule and no deny rule.
THEOREM AllowNeedsRuleHolds == Spec => []AllowNeedsRule
<1>1. TypeOK /\ HookInv => AllowNeedsRule
  <2> SUFFICES ASSUME TypeOK, HookInv, NEW h \in Hooks, Answered(h), env[h].flags = "ok",
                      Heard(h) = "allow"
               PROVE  failed[h] = "none" /\ "allow" \in cfg[h].rules /\ "deny" \notin cfg[h].rules
    BY DEF AllowNeedsRule
  <2>1. verdict[h] = "allow"
    BY AnswerIsHeard
  <2>2. failed[h] = "none"
    BY <2>1 DEF HookInv, HookAt, FaultAt
  <2>3. Evaluation(cfg[h].rules) = "allow"
    BY <2>1, <2>2 DEF HookInv, HookAt, JudgedAt, Answered
  <2> QED BY <2>2, <2>3 DEF Evaluation
<1> QED BY <1>1, TypeCorrect, HookInvariant, PTL

-----------------------------------------------------------------------------
(* Torn policies *)

\* Rules that do not, together, let the call through.
RulesClosed(rules) == "allow" \in rules => "deny" \in rules

\* While no complete version of any file allows the call on its own, neither
\* does any file as it is on disk, nor what a hook has loaded from them; the
\* writers under way put deny rules first, and do not mix their texts.
TornInv ==
  hist.closed =>
    /\ \A n \in FileName : RulesClosed(files[n].rules)
    /\ \A h \in Hooks : pc[h] = "installWrite" => DenyLeads
    /\ migrate = "writing" => RulesClosed(Migrated.rules)
    /\ migrate \notin {"mixing", "mixed"}
    /\ \A h \in Hooks : RulesClosed(cfg[h].rules) /\ verdict[h] # "allow"

\* Deny rules come first: no prefix of a text that, whole, does not allow the
\* call allows it.
LEMMA TornIsClosed ==
  ASSUME RulesClosed(Migrated.rules), NEW f \in Torn
  PROVE  RulesClosed(f.rules)
<1>1. "allow" \in MigAllow => "deny" \in MigDeny
  BY MigrateAssumption DEF RulesClosed, Migrated, Policy
<1>2. CASE f = Junk
  BY <1>2 DEF Junk, NoPolicy, RulesClosed
<1>3. CASE \E S \in SUBSET MigDeny : f = Policy("unset", S)
  BY <1>3, MigrateAssumption DEF Policy, RulesClosed
<1>4. CASE \E S \in SUBSET MigAllow : f = Policy("unset", MigDeny \cup S)
  BY <1>1, <1>4, MigrateAssumption DEF Policy, RulesClosed
<1> QED BY <1>2, <1>3, <1>4 DEF Torn

\* If the template names a deny first, so does each of its beginnings.
LEMMA CopyIsClosed ==
  ASSUME DenyLeads, NEW f \in TornTemplate
  PROVE  RulesClosed(f.rules)
<1>1. ASSUME NEW i \in 0..Len(TemplateRules) PROVE RulesClosed(TemplateUpTo(i).rules)
  <2> SUFFICES ASSUME NEW j \in 1..i, TemplateRules[j] = "allow"
               PROVE  \E m \in 1..i : TemplateRules[m] = "deny"
    BY DEF RulesClosed, TemplateUpTo, Policy
  <2>1. Len(TemplateRules) \in Nat /\ DOMAIN TemplateRules = 1..Len(TemplateRules)
    BY TemplateAssumption
  <2>2. PICK m \in 1..(j - 1) : TemplateRules[m] = "deny"
    BY <2>1 DEF DenyLeads
  <2> QED BY <2>1, <2>2
<1>2. CASE f \in {EmptyPolicy, Junk}
  BY <1>2 DEF EmptyPolicy, Junk, NoPolicy, Policy, RulesClosed
<1>3. CASE \E i \in 0..Len(TemplateRules) : f = TemplateUpTo(i)
  BY <1>1, <1>3
<1>4. CASE \E i \in 0..Len(TemplateRules) :
             f = Policy(TemplateKnob, TemplateUpTo(i).rules \cup {"invalid"})
  BY <1>1, <1>4 DEF Policy, RulesClosed
<1> QED BY <1>2, <1>3, <1>4 DEF TornTemplate

\* A promise once broken stays broken, and a kept one speaks for the files.
LEMMA ClosedPromise ==
  /\ \A p, q : Both(p, q).closed => p.closed /\ q.closed
  /\ \A fs : Promise(fs).closed => \A n \in FileName : RulesClosed(fs[n].rules)
  BY DEF Both, Promise, NeverAllows, RulesClosed

\* Layering closed rules over closed rules gives closed rules.
LEMMA OverlayIsClosed ==
  ASSUME NEW c, NEW f, RulesClosed(c.rules), RulesClosed(f.rules)
  PROVE  RulesClosed(Overlay(c, f).rules)
  BY DEF Overlay, RulesClosed

\* A hook's step keeps the invariant.
LEMMA TornHookStep ==
  ASSUME TypeOK, TornInv, NEW h \in Hooks, HookStep(h) \/ Killed(h)
  PROVE  TornInv'
<1> USE DEF TypeOK, Goto, WorldUnchanged, local, FailWith, PC
<1>1. CASE InstallTruncate(h)
  <2>1. hist'.closed => hist.closed /\ DenyLeads /\ migrate # "writing"
    <3> DEFINE fs == [files EXCEPT !["legacy"] = Template]
    <3>1. hist'.closed = (Both(hist, Promise(fs)).closed /\ DenyLeads /\ migrate # "writing")
      <4>1. Both(hist, Promise(fs)) \in Promises
        BY PromiseTypes DEF Promises
      <4> QED BY <1>1, <4>1 DEF InstallTruncate, Promises
    <3> HIDE DEF fs
    <3>2. Both(hist, Promise(fs)).closed => hist.closed
      BY ClosedPromise
    <3> QED BY <3>1, <3>2
  <2>2. \A n \in FileName : RulesClosed(files[n].rules) => RulesClosed(files'[n].rules)
    BY <1>1 DEF InstallTruncate, Files, EmptyPolicy, Policy, RulesClosed
  <2>3. migrate # "writing" => migrate' = migrate
    BY <1>1 DEF InstallTruncate
  <2> QED BY <1>1, <2>1, <2>2, <2>3 DEF InstallTruncate, TornInv
<1>2. CASE InstallWrite(h)
  <2>1. PICK f \in Copying : files' = [files EXCEPT !["legacy"] = f]
    BY <1>2 DEF InstallWrite
  <2>2. hist.closed => RulesClosed(f.rules)
    <3> SUFFICES ASSUME hist.closed PROVE RulesClosed(f.rules)
      OBVIOUS
    <3>1. DenyLeads /\ f \in TornTemplate
      BY <1>2, TemplateTypes DEF InstallWrite, TornInv, Copying
    <3> QED BY <3>1, CopyIsClosed
  <2>3. hist.closed => \A n \in FileName : RulesClosed(files'[n].rules)
    BY <2>1, <2>2 DEF TornInv, Files
  <2>4. \A g \in Hooks : pc'[g] = "installWrite" => pc[g] = "installWrite"
    BY <1>2 DEF InstallWrite
  <2> QED BY <1>2, <2>3, <2>4 DEF InstallWrite, TornInv
<1>3. CASE StartUp(h) \/ InstallCheck(h) \/ Killed(h) \/ Emit(h)
  <2>1. UNCHANGED <<files, migrate, hist, cfg, verdict>>
    BY <1>3 DEF StartUp, InstallCheck, Killed, Emit
  <2>2. \A g \in Hooks : pc'[g] = "installWrite" => pc[g] = "installWrite"
    BY <1>3 DEF StartUp, InstallCheck, Killed, Emit
  <2> QED BY <2>1, <2>2 DEF TornInv
<1>4. CASE ResolvePosture(h) \/ ParseInput(h) \/ InputOnError(h) \/ LoadOnError(h)
           \/ StatKnob(h) \/ ReadKnob(h) \/ CompileEngine(h) \/ Panic(h)
  <2>1. UNCHANGED <<files, migrate, hist, cfg>>
    BY <1>4 DEF ResolvePosture, ParseInput, InputOnError, LoadOnError, StatKnob, ReadKnob,
                CompileEngine, Panic
  <2>2. \A g \in Hooks : pc'[g] = "installWrite" => pc[g] = "installWrite"
    BY <1>4 DEF ResolvePosture, ParseInput, InputOnError, LoadOnError, StatKnob, ReadKnob,
                CompileEngine, Panic
  <2>3. \A g \in Hooks : verdict'[g] = verdict[g] \/ verdict'[g] \in {"abstain", "deny"}
    <3>1. CASE ResolvePosture(h) \/ ParseInput(h)
      BY <3>1 DEF ResolvePosture, ParseInput
    <3>2. CASE InputOnError(h) \/ LoadOnError(h)
      BY <3>2, FileTypes DEF InputOnError, LoadOnError
    <3>3. CASE StatKnob(h) \/ ReadKnob(h)
      BY <3>3 DEF StatKnob, ReadKnob, ReadableKnob
    <3>4. CASE CompileEngine(h) \/ Panic(h)
      BY <3>4 DEF CompileEngine, Panic
    <3> QED BY <1>4, <3>1, <3>2, <3>3, <3>4
  <2> QED BY <2>1, <2>2, <2>3 DEF TornInv
<1>5. CASE LoadGlobal(h) \/ LoadProject(h)
  <2>1. UNCHANGED <<files, migrate, hist>>
    BY <1>5 DEF LoadGlobal, LoadProject
  <2>2. \A g \in Hooks : pc'[g] = "installWrite" => pc[g] = "installWrite"
    BY <1>5 DEF LoadGlobal, LoadProject, LoadFailed
  <2>3. \A g \in Hooks : verdict'[g] = verdict[g] \/ verdict'[g] \in {"abstain", "deny"}
    BY <1>5 DEF LoadGlobal, LoadProject, LoadFailed
  <2>4. hist.closed => \A g \in Hooks : RulesClosed(cfg'[g].rules)
    <3> SUFFICES ASSUME hist.closed PROVE \A g \in Hooks : RulesClosed(cfg'[g].rules)
      OBVIOUS
    <3>1. RulesClosed(Selected(files).rules) /\ RulesClosed(files["project"].rules)
      BY DEF TornInv, FileName, Selected, FirstPresent, Absent, NoPolicy, RulesClosed
    <3>2. /\ RulesClosed(Overlay(NoConfig, Selected(files)).rules)
          /\ RulesClosed(Overlay(cfg[h], files["project"]).rules)
      BY <3>1, OverlayIsClosed DEF TornInv, NoConfig, RulesClosed
    <3> QED BY <1>5, <3>2 DEF LoadGlobal, LoadProject, LoadFailed, TornInv
  <2> QED BY <2>1, <2>2, <2>3, <2>4 DEF TornInv
<1>6. CASE Evaluate(h)
  <2>1. UNCHANGED <<files, migrate, hist, cfg>>
    BY <1>6 DEF Evaluate
  <2>2. \A g \in Hooks : pc'[g] = "installWrite" => pc[g] = "installWrite"
    BY <1>6 DEF Evaluate
  <2>3. hist.closed => Evaluation(cfg[h].rules) # "allow"
    BY DEF TornInv, RulesClosed, Evaluation
  <2>4. hist.closed => \A g \in Hooks : verdict'[g] # "allow"
    BY <1>6, <2>3 DEF Evaluate, TornInv
  <2> QED BY <2>1, <2>2, <2>4 DEF TornInv
<1> QED BY <1>1, <1>2, <1>3, <1>4, <1>5, <1>6 DEF HookStep, Progress

\* So does a step of `migrate` or of the user.
LEMMA TornWorldStep ==
  ASSUME TypeOK, TornInv, MigrateStep \/ Edit
  PROVE  TornInv'
<1> USE DEF TypeOK, local
<1>1. CASE MigrateStart \/ MigrateCrash
  BY <1>1 DEF MigrateStart, MigrateCrash, TornInv
<1>2. CASE MigrateTruncate
  <2> DEFINE fs == [files EXCEPT !["legacy"] = Migrated]
  <2>1. hist'.closed => /\ hist.closed /\ RulesClosed(Migrated.rules)
                        /\ migrate' = "writing"
    <3>1. fs["legacy"] = Migrated /\ "legacy" \in FileName
      BY DEF Files, FileName
    <3>2. hist'.closed = (Both(hist, Promise(fs)).closed /\ migrate' = "writing")
      <4>1. Both(hist, Promise(fs)) \in Promises
        BY PromiseTypes DEF Promises
      <4> QED BY <1>2, <4>1 DEF MigrateTruncate, Promises
    <3> HIDE DEF fs
    <3>3. Both(hist, Promise(fs)).closed => hist.closed /\ Promise(fs).closed
      BY ClosedPromise
    <3>4. Promise(fs).closed => RulesClosed(fs["legacy"].rules)
      BY <3>1, ClosedPromise
    <3> QED BY <3>1, <3>2, <3>3, <3>4
  <2>2. \A n \in FileName : RulesClosed(files[n].rules) => RulesClosed(files'[n].rules)
    BY <1>2 DEF MigrateTruncate, Files, EmptyPolicy, Policy, RulesClosed
  <2> QED BY <1>2, <2>1, <2>2 DEF MigrateTruncate, TornInv
<1>3. CASE MigrateWrite
  <2>1. hist.closed => \A n \in FileName : RulesClosed(files'[n].rules)
    BY <1>3, TornIsClosed DEF MigrateWrite, TornInv, Files
  <2> QED BY <1>3, <2>1 DEF MigrateWrite, TornInv
<1>4. CASE Edit
  <2>1. hist'.closed = Both(hist, Promise(files')).closed
    <3>1. Both(hist, Promise(files')) \in Promises
      BY PromiseTypes DEF Promises
    <3> QED BY <1>4, <3>1 DEF Edit, Promises
  <2>2. hist'.closed => hist.closed /\ \A n \in FileName : RulesClosed(files'[n].rules)
    BY <2>1, ClosedPromise
  <2> QED BY <1>4, <2>2 DEF Edit, TornInv
<1> QED BY <1>1, <1>2, <1>3, <1>4 DEF MigrateStep

\* No hook allows a call that no complete version of any policy file allows,
\* as long as an installed template names a deny for it before an allow.
THEOREM TornPolicyNeverAllowsHolds == Spec => []TornPolicyNeverAllows
<1>1. Init => TornInv
  BY ClosedPromise DEF Init, TornInv, NoConfig, RulesClosed
<1>2. TypeOK /\ TornInv /\ [Next]_vars => TornInv'
  <2> SUFFICES ASSUME TypeOK, TornInv, [Next]_vars PROVE TornInv'
    OBVIOUS
  <2>1. CASE \E h \in Hooks : HookStep(h) \/ Killed(h)
    BY <2>1, TornHookStep
  <2>2. CASE MigrateStep \/ Edit
    BY <2>2, TornWorldStep
  <2>3. CASE UNCHANGED vars
    BY <2>3 DEF vars, TornInv
  <2> QED BY <2>1, <2>2, <2>3 DEF Next
<1>3. TypeOK /\ HookInv /\ TornInv => TornPolicyNeverAllows
  <2> SUFFICES ASSUME TypeOK, HookInv, TornInv, hist.closed,
                      NEW h \in Hooks, Answered(h), env[h].flags = "ok"
               PROVE  Heard(h) # "allow"
    BY DEF TornPolicyNeverAllows
  <2>1. wire[h] = Written(env[h].stdout, Encode(env[h].harness, verdict[h]))
    BY DEF HookInv, HookAt, WireAt, Answered
  <2>2. verdict[h] \in {"abstain", "deny"}
    BY DEF TornInv, TypeOK, Decision
  <2>3. env[h] \in Env
    BY DEF TypeOK
  <2> QED BY <2>1, <2>2, <2>3
          DEF Heard, Env, Reads, Written, Encode, EncodeClaude, EncodeCodex, EncodeGrok, Silent
<1> QED BY <1>1, <1>2, <1>3, TypeCorrect, HookInvariant, PTL DEF Spec

-----------------------------------------------------------------------------
(* The readable knob *)

\* What a hook without an override has of a promised knob: the file it found
\* is still the selected one, and a load failure was answered with the knob.
KnobAt(h) ==
  /\ pc[h] = "readKnob" => knobPath[h] = FirstPresent(files)
  /\ pc[h] \in {"emit", "done"} /\ failed[h] = "load" => verdict[h] = "deny"
  /\ pc[h] \in {"emit", "done"} /\ failed[h] = "input" /\ hist.valid => verdict[h] = "deny"

\* As long as every complete version of the selected global file says
\* on_error = "deny", the file on disk says it: no install is under way (it
\* starts without a global file), and `migrate` is not writing the selected one.
KnobInv ==
  hist.knob =>
    /\ ReadableKnob(Selected(files)) = "deny"
    /\ hist.valid => Loads(Selected(files))
    /\ migrate \in {"writing", "mixing"} => FirstPresent(files) = "xdg"
    /\ \A h \in Hooks : pc[h] \notin {"installTruncate", "installWrite"}
    /\ \A h \in Hooks : ~Active(env[h].override) => KnobAt(h)

\* A promised knob is one of a file that exists.
LEMMA KnobIsPresent ==
  ASSUME NEW fs, ReadableKnob(Selected(fs)) = "deny"
  PROVE  FirstPresent(fs) # "none" /\ Selected(fs) = fs[FirstPresent(fs)]
  BY DEF ReadableKnob, Selected, FirstPresent, Absent, NoPolicy

\* What is promised was promised before, and is promised of the new files.
LEMMA KnobPromise ==
  /\ \A p, q : /\ Both(p, q).knob => p.knob /\ q.knob
               /\ Both(p, q).valid => p.valid /\ q.valid
  /\ \A fs : /\ Promise(fs).knob => ReadableKnob(Selected(fs)) = "deny"
             /\ Promise(fs).valid => Loads(Selected(fs))
  BY DEF Both, Promise

\* A rewritten legacy file is not the selected one: a rewrite of the selected
\* one with `migrate`'s output breaks the promise, for it sets no knob.
LEMMA LegacyNotSelected ==
  ASSUME files \in Files, NEW f, f.kind # "absent", f.knob # "deny",
         ReadableKnob(Selected([files EXCEPT !["legacy"] = f])) = "deny"
  PROVE  FirstPresent(files) = "xdg"
  BY DEF Files, FileName, ReadableKnob, Selected, FirstPresent, Present, Absent, NoPolicy

\* While the XDG file is there, the legacy file does not matter.
LEMMA XdgSelected ==
  ASSUME files \in Files, NEW f, FirstPresent(files) = "xdg"
  PROVE  LET fs == [files EXCEPT !["legacy"] = f]
         IN  FirstPresent(fs) = "xdg" /\ Selected(fs) = Selected(files)
  BY DEF Files, FileName, FirstPresent, Present, Selected

\* A hook never disturbs what another one knows of the knob.
LEMMA KnobOthers ==
  ASSUME TypeOK, NEW h \in Hooks, HookStep(h) \/ Killed(h)
  PROVE  \A g \in Hooks \ {h} : knobPath'[g] = knobPath[g]
<1> USE DEF TypeOK, local
<1>1. CASE StatKnob(h)
  BY <1>1 DEF StatKnob
<1>2. CASE StartUp(h) \/ InstallCheck(h) \/ InstallTruncate(h) \/ InstallWrite(h)
           \/ ResolvePosture(h) \/ ParseInput(h) \/ InputOnError(h) \/ LoadGlobal(h)
  BY <1>2 DEF StartUp, InstallCheck, InstallTruncate, InstallWrite, ResolvePosture, ParseInput,
              InputOnError, LoadGlobal
<1>3. CASE LoadProject(h) \/ LoadOnError(h) \/ ReadKnob(h) \/ CompileEngine(h) \/ Evaluate(h)
           \/ Panic(h) \/ Emit(h) \/ Killed(h)
  BY <1>3 DEF LoadProject, LoadOnError, ReadKnob, CompileEngine, Evaluate, Panic, Emit, Killed
<1> QED BY <1>1, <1>2, <1>3 DEF HookStep, Progress

\* Under a promised knob a hook's step leaves the files alone, starts no
\* install, and keeps the hook's own part.
LEMMA KnobOwnStep ==
  ASSUME TypeOK, HookInv, KnobInv, hist.knob, NEW h \in Hooks, HookStep(h) \/ Killed(h)
  PROVE  /\ UNCHANGED <<files, migrate, hist>>
         /\ pc'[h] \notin {"installTruncate", "installWrite"}
         /\ ~Active(env[h].override) => KnobAt(h)'
<1>0. /\ pc[h] \notin {"installTruncate", "installWrite"}
      /\ ReadableKnob(Selected(files)) = "deny"
      /\ hist.valid => GlobalOnError(files) = "deny"
      /\ FirstPresent(files) # "none" /\ Selected(files) = files[FirstPresent(files)]
      /\ ~Active(env[h].override) => KnobAt(h)
      /\ FaultAt(h)
  BY KnobIsPresent DEF KnobInv, GlobalOnError, HookInv, HookAt
<1>1. env' = env
  BY OtherHooks
<1> USE <1>0, <1>1 DEF TypeOK, KnobAt, FaultAt, KnobSteps, Guarded, Goto, WorldUnchanged, local, FailWith
<1>2. CASE StartUp(h)
  BY <1>2 DEF StartUp
<1>3. CASE InstallCheck(h) \/ InstallTruncate(h) \/ InstallWrite(h)
  BY <1>3 DEF InstallCheck, InstallTruncate, InstallWrite
<1>4. CASE ResolvePosture(h) \/ ParseInput(h)
  BY <1>4 DEF ResolvePosture, ParseInput
<1>5. CASE InputOnError(h)
  BY <1>5 DEF InputOnError
<1>6. CASE LoadGlobal(h) \/ LoadProject(h)
  BY <1>6 DEF LoadGlobal, LoadProject, LoadFailed
<1>7. CASE LoadOnError(h)
  BY <1>7 DEF LoadOnError
<1>8. CASE StatKnob(h)
  BY <1>8 DEF StatKnob
<1>9. CASE ReadKnob(h)
  BY <1>9 DEF ReadKnob
<1>10. CASE CompileEngine(h) \/ Evaluate(h)
  BY <1>10 DEF CompileEngine, Evaluate
<1>11. CASE Panic(h)
  BY <1>11 DEF Panic
<1>12. CASE Emit(h) \/ Killed(h)
  BY <1>12 DEF Emit, Killed
<1> QED
  BY <1>2, <1>3, <1>4, <1>5, <1>6, <1>7, <1>8, <1>9, <1>10, <1>11, <1>12 DEF HookStep, Progress

\* A promise that is not there does not come back.
LEMMA KnobNeverReturns ==
  ASSUME TypeOK, [Next]_vars, hist'.knob
  PROVE  hist.knob /\ (hist'.valid => hist.valid)
<1> USE DEF TypeOK, local, WorldUnchanged
<1>1. CASE \E h \in Hooks : HookStep(h) \/ Killed(h)
  <2>1. PICK h \in Hooks : HookStep(h) \/ Killed(h)
    BY <1>1
  <2>2. CASE InstallTruncate(h)
    <3> DEFINE p == Both(hist, Promise([files EXCEPT !["legacy"] = Template]))
    <3>1. p \in Promises
      BY PromiseTypes DEF Promises
    <3>2. hist'.knob = p.knob /\ hist'.valid = p.valid
      BY <2>2, <3>1 DEF InstallTruncate, Promises
    <3> QED BY <3>2, KnobPromise
  <2>3. CASE UNCHANGED hist
    BY <2>3
  <2>4. CASE StartUp(h) \/ InstallCheck(h) \/ InstallWrite(h) \/ ResolvePosture(h)
             \/ ParseInput(h) \/ InputOnError(h) \/ LoadGlobal(h) \/ LoadProject(h)
    BY <2>4, <2>3 DEF StartUp, InstallCheck, InstallWrite, ResolvePosture, ParseInput,
                InputOnError, LoadGlobal, LoadProject
  <2>5. CASE LoadOnError(h) \/ StatKnob(h) \/ ReadKnob(h) \/ CompileEngine(h) \/ Evaluate(h)
             \/ Panic(h) \/ Emit(h) \/ Killed(h)
    BY <2>5, <2>3 DEF LoadOnError, StatKnob, ReadKnob, CompileEngine, Evaluate, Panic, Emit, Killed
  <2> QED BY <2>1, <2>2, <2>4, <2>5 DEF HookStep, Progress
<1>2. CASE MigrateStart \/ MigrateWrite \/ MigrateCrash \/ UNCHANGED vars
  BY <1>2 DEF MigrateStart, MigrateWrite, MigrateCrash, vars
<1>3. CASE MigrateTruncate
  <2> DEFINE p == Both(hist, Promise([files EXCEPT !["legacy"] = Migrated]))
  <2>1. p \in Promises
    BY PromiseTypes DEF Promises
  <2>2. hist'.knob = p.knob /\ hist'.valid = p.valid
    BY <1>3, <2>1 DEF MigrateTruncate, Promises
  <2> QED BY <2>2, KnobPromise
<1>4. CASE Edit
  <2>1. Both(hist, Promise(files')) \in Promises
    BY PromiseTypes DEF Promises
  <2>2. /\ hist'.knob => Both(hist, Promise(files')).knob
        /\ hist'.valid = Both(hist, Promise(files')).valid
    BY <1>4, <2>1 DEF Edit, Promises
  <2> QED BY <2>2, KnobPromise
<1> QED BY <1>1, <1>2, <1>3, <1>4 DEF Next, MigrateStep

\* Nor do `migrate` and the user disturb the knob without breaking the promise.
LEMMA KnobWorldStep ==
  ASSUME TypeOK, KnobInv, MigrateStep \/ Edit
  PROVE  KnobInv'
<1> USE DEF TypeOK, local
<1> SUFFICES ASSUME hist'.knob PROVE KnobInv'
  BY DEF KnobInv
<1>0. hist.knob /\ (hist'.valid => hist.valid)
  BY KnobNeverReturns DEF Next
<1>00. UNCHANGED <<env, pc, knobPath, failed, verdict>>
  BY DEF MigrateStep, MigrateStart, MigrateTruncate, MigrateWrite, MigrateCrash, Edit
<1>1. CASE MigrateStart \/ MigrateCrash
  BY <1>1, <1>0, <1>00 DEF MigrateStart, MigrateCrash, KnobInv, KnobAt
<1>2. ASSUME NEW f, files' = [files EXCEPT !["legacy"] = f], FirstPresent(files) = "xdg"
      PROVE  KnobInv'
  <2>1. FirstPresent(files') = "xdg" /\ Selected(files') = Selected(files)
    BY <1>2, XdgSelected
  <2> QED BY <1>0, <1>00, <1>2, <2>1 DEF KnobInv, KnobAt
<1>3. CASE MigrateTruncate
  <2> DEFINE fs == [files EXCEPT !["legacy"] = Migrated]
  <2>1. hist'.knob = Both(hist, Promise(fs)).knob
    <3>1. Both(hist, Promise(fs)) \in Promises
      BY PromiseTypes DEF Promises
    <3> QED BY <1>3, <3>1 DEF MigrateTruncate, Promises
  <2>2. Promise(fs).knob
    <3> HIDE DEF fs
    <3> QED BY <2>1, KnobPromise
  <2>3. ReadableKnob(Selected(fs)) = "deny"
    <3> HIDE DEF fs
    <3> QED BY <2>2, KnobPromise
  <2>4. Migrated.kind # "absent" /\ Migrated.knob # "deny"
    BY DEF Migrated, Policy
  <2>5. FirstPresent(files) = "xdg"
    BY <2>3, <2>4, LegacyNotSelected
  <2> QED BY <1>2, <1>3, <2>5 DEF MigrateTruncate
<1>4. CASE MigrateWrite
  <2>1. FirstPresent(files) = "xdg"
    BY <1>4, <1>0 DEF MigrateWrite, KnobInv
  <2> QED BY <1>2, <1>4, <2>1 DEF MigrateWrite
<1>5. CASE Edit
  <2>1. Both(hist, Promise(files')) \in Promises
    BY PromiseTypes DEF Promises
  <2>2. /\ Both(hist, Promise(files')).knob /\ FirstPresent(files') = FirstPresent(files)
        /\ hist'.valid => Both(hist, Promise(files')).valid
    BY <1>5, <2>1 DEF Edit, Promises
  <2>3. /\ ReadableKnob(Selected(files')) = "deny"
        /\ hist'.valid => Loads(Selected(files'))
    BY <2>2, KnobPromise
  <2>4. migrate' = migrate
    BY <1>5 DEF Edit
  <2> QED BY <1>0, <1>00, <2>2, <2>3, <2>4 DEF KnobInv, KnobAt
<1> QED BY <1>1, <1>3, <1>4, <1>5 DEF MigrateStep

\* on_error = "deny" in the selected global file answers load failures, and
\* unparseable input while its rules are valid.
THEOREM ReadableKnobProtectsHolds == Spec => []ReadableKnobProtects
<1>1. Init => KnobInv
  BY KnobPromise DEF Init, KnobInv, KnobAt
<1>2. TypeOK /\ HookInv /\ KnobInv /\ [Next]_vars => KnobInv'
  <2> SUFFICES ASSUME TypeOK, HookInv, KnobInv, [Next]_vars PROVE KnobInv'
    OBVIOUS
  <2>1. ASSUME NEW h \in Hooks, HookStep(h) \/ Killed(h) PROVE KnobInv'
    <3> SUFFICES ASSUME hist'.knob PROVE KnobInv'
      BY DEF KnobInv
    <3>1. hist.knob
      BY <2>1, KnobNeverReturns
    <3>2. /\ UNCHANGED <<files, migrate, hist>>
          /\ pc'[h] \notin {"installTruncate", "installWrite"}
          /\ ~Active(env[h].override) => KnobAt(h)'
      BY <2>1, <3>1, KnobOwnStep
    <3>3. env' = env /\ \A g \in Hooks \ {h} : pc'[g] = pc[g] /\ (KnobAt(g) => KnobAt(g)')
      BY <2>1, <3>2, OtherHooks, KnobOthers DEF KnobAt
    <3> QED BY <3>1, <3>2, <3>3 DEF KnobInv
  <2>2. CASE MigrateStep \/ Edit
    BY <2>2, KnobWorldStep
  <2>3. CASE UNCHANGED vars
    BY <2>3 DEF vars, KnobInv, KnobAt
  <2> QED BY <2>1, <2>2, <2>3 DEF Next
<1>3. KnobInv => ReadableKnobProtects
  BY DEF KnobInv, KnobAt, ReadableKnobProtects
<1> QED BY <1>1, <1>2, <1>3, TypeCorrect, HookInvariant, PTL DEF Spec

-----------------------------------------------------------------------------
(* The pipeline implements HookContract *)

strictBar == [h \in Hooks |-> Strict(env[h])]
faultyBar == [h \in Hooks |-> failed[h] # "none"]
answerBar == [h \in Hooks |-> IF Answered(h) THEN Heard(h) ELSE "none"]

\* Whatever is on the wire is heard as some answer.
LEMMA HeardIsAnswer ==
  ASSUME NEW e \in Env, NEW w \in Wire
  PROVE  Reads(e.harness, w) \in Contract!Answer
  BY DEF Env, Wire, Reads, Contract!Answer

\* Until h answers, a step of h can only make it faulty; and nothing cures it.
LEMMA BeforeAnswer ==
  ASSUME TypeOK, HookInv, NEW h \in Hooks, HookStep(h) \/ Killed(h), pc'[h] # "done"
  PROVE  /\ pc[h] # "done"
         /\ failed[h] # "none" => failed'[h] # "none"
<1> USE DEF TypeOK, Goto, FailWith, local
<1>1. CASE StartUp(h) \/ InstallCheck(h) \/ InstallTruncate(h) \/ InstallWrite(h)
  BY <1>1 DEF StartUp, InstallCheck, InstallTruncate, InstallWrite
<1>2. CASE ResolvePosture(h) \/ ParseInput(h) \/ InputOnError(h)
  BY <1>2 DEF ResolvePosture, ParseInput, InputOnError
<1>3. CASE LoadGlobal(h) \/ LoadProject(h)
  BY <1>3 DEF LoadGlobal, LoadProject, LoadFailed
<1>4. CASE LoadOnError(h) \/ StatKnob(h) \/ ReadKnob(h)
  BY <1>4 DEF LoadOnError, StatKnob, ReadKnob
<1>5. CASE CompileEngine(h) \/ Evaluate(h)
  BY <1>5 DEF CompileEngine, Evaluate
<1>6. CASE Panic(h) \/ Killed(h)
  BY <1>6 DEF Panic, Killed, Guarded
<1>7. CASE Emit(h)
  BY <1>7 DEF Emit
<1> QED BY <1>1, <1>2, <1>3, <1>4, <1>5, <1>6, <1>7 DEF HookStep, Progress

\* The step that answers leaves the faults as they are.
LEMMA AtAnswer ==
  ASSUME TypeOK, HookInv, NEW h \in Hooks, HookStep(h) \/ Killed(h), pc'[h] = "done"
  PROVE  pc[h] # "done" /\ failed' = failed
<1> USE DEF TypeOK, Goto, local
<1>1. CASE StartUp(h) \/ Emit(h)
  BY <1>1 DEF StartUp, Emit
<1>2. CASE InstallCheck(h) \/ InstallTruncate(h) \/ InstallWrite(h) \/ ResolvePosture(h)
           \/ ParseInput(h) \/ InputOnError(h)
  BY <1>2 DEF InstallCheck, InstallTruncate, InstallWrite, ResolvePosture, ParseInput, InputOnError
<1>3. CASE LoadGlobal(h) \/ LoadProject(h) \/ LoadOnError(h) \/ StatKnob(h) \/ ReadKnob(h)
  BY <1>3 DEF LoadGlobal, LoadProject, LoadFailed, LoadOnError, StatKnob, ReadKnob
<1>4. CASE CompileEngine(h) \/ Evaluate(h) \/ Panic(h) \/ Killed(h)
  BY <1>4 DEF CompileEngine, Evaluate, Panic, Killed
<1> QED BY <1>1, <1>2, <1>3, <1>4 DEF HookStep, Progress

\* A verdict that is not an allow, and is a deny when it must be, is heard as
\* the contract wants a fault answered.
LEMMA FaultAnswered ==
  ASSUME NEW e \in Env, NEW d \in {"abstain", "deny"}, Strict(e) => d = "deny"
  PROVE  Reads(e.harness, Written(e.stdout, Encode(e.harness, d)))
           \in Contract!FaultAnswers(Strict(e))
<1>1. CASE Strict(e)
  BY <1>1, DenyIsHeard DEF Contract!FaultAnswers
<1>2. CASE ~Strict(e)
  <2>1. Reads(e.harness, Written(e.stdout, Encode(e.harness, d))) \in {"deny", "native"}
    BY DEF Env, Reads, Written, Encode, EncodeClaude, EncodeCodex, EncodeGrok, Silent
  <2> QED BY <1>2, <2>1 DEF Contract!FaultAnswers
<1> QED BY <1>1, <1>2

\* Every step of a hook is a step of the contract, or none of its business.
LEMMA HookStepRefines ==
  ASSUME TypeOK, HookInv, HookInv', TypeOK', NEW h \in Hooks, HookStep(h) \/ Killed(h)
  PROVE  [Contract!CNext]_(Contract!cvars)
<1>1. strictBar' = strictBar
  BY OtherHooks DEF strictBar
<1>2. \A g \in Hooks \ {h} :
        /\ faultyBar'[g] = faultyBar[g]
        /\ answerBar'[g] = answerBar[g]
  BY OtherHooks DEF faultyBar, answerBar, Answered, Heard
<1>3. CASE pc'[h] # "done"
  <2>1. answerBar' = answerBar /\ answerBar[h] = "none"
    <3>1. answerBar[h] = "none" /\ answerBar'[h] = "none"
      BY <1>3, BeforeAnswer DEF answerBar, Answered
    <3> QED BY <1>2, <3>1 DEF answerBar
  <2>2. CASE faultyBar'[h] = faultyBar[h]
    <3>1. faultyBar' = faultyBar
      BY <1>2, <2>2 DEF faultyBar
    <3> QED BY <1>1, <2>1, <3>1 DEF Contract!cvars, strictBar, faultyBar, answerBar
  <2>3. CASE faultyBar'[h] # faultyBar[h]
    <3>1. ~faultyBar[h] /\ faultyBar'[h]
      BY <1>3, <2>3, BeforeAnswer DEF faultyBar
    <3>2. faultyBar' = [faultyBar EXCEPT ![h] = TRUE]
      BY <1>2, <3>1 DEF faultyBar
    <3>3. Contract!Fail(h)
      BY <1>1, <2>1, <3>1, <3>2 DEF Contract!Fail, strictBar, faultyBar, answerBar
    <3> QED BY <3>3 DEF Contract!CNext
  <2> QED BY <2>2, <2>3
<1>4. CASE pc'[h] = "done"
  <2>1. pc[h] # "done" /\ failed' = failed
    BY <1>4, AtAnswer
  <2>2. faultyBar' = faultyBar
    BY <2>1 DEF faultyBar
  <2>3. answerBar[h] = "none"
    BY <2>1 DEF answerBar, Answered
  <2>4. answerBar'[h] = Heard(h)'
    BY <1>4 DEF answerBar, Answered
  <2>5. answerBar' = [answerBar EXCEPT ![h] = Heard(h)']
    BY <1>2, <2>4 DEF answerBar
  <2>6. Heard(h)' \in Contract!Answer
    <3>1. env'[h] \in Env /\ wire'[h] \in Wire
      BY DEF TypeOK
    <3> QED BY <3>1, HeardIsAnswer DEF Heard
  <2>7. faultyBar[h] => Heard(h)' \in Contract!FaultAnswers(strictBar[h])
    <3> SUFFICES ASSUME failed[h] # "none"
                 PROVE  Heard(h)' \in Contract!FaultAnswers(Strict(env[h]))
      BY DEF faultyBar, strictBar
    <3>1. failed'[h] # "none" /\ env' = env /\ env[h] \in Env
      BY <2>1, OtherHooks DEF TypeOK
    <3>2. verdict'[h] \in {"abstain", "deny"} /\ env[h].flags = "ok"
      BY <3>1 DEF HookInv, HookAt, FaultAt, FlagsAt, TypeOK, Decision, Env
    <3>3. Strict(env[h]) => verdict'[h] = "deny"
      BY <1>4, <3>1, <3>2 DEF HookInv, HookAt, OverrideAt, Strict, Active, Resolve
    <3>4. wire'[h] = Written(env[h].stdout, Encode(env[h].harness, verdict'[h]))
      BY <1>4, <3>1, <3>2 DEF HookInv, HookAt, WireAt
    <3> QED BY <3>1, <3>2, <3>3, <3>4, FaultAnswered DEF Heard
  <2>8. Contract!Reply(h)
    BY <1>1, <2>2, <2>3, <2>5, <2>6, <2>7
       DEF Contract!Reply, strictBar, faultyBar, answerBar
  <2> QED BY <2>8 DEF Contract!CNext
<1> QED BY <1>3, <1>4

\* GatekeeperHook implements HookContract: one answer per call, never an allow
\* after a fault, always a deny after a fault of a strict call.
THEOREM ContractHolds == Spec => ContractSpec
<1>1. Init => Contract!CInit
  <2> SUFFICES ASSUME Init PROVE Contract!CInit
    OBVIOUS
  <2>1. strictBar \in [Hooks -> BOOLEAN]
    <3>1. \A h \in Hooks : Strict(env[h]) \in BOOLEAN
      BY DEF Strict
    <3> QED BY <3>1 DEF strictBar
  <2>2. faultyBar = [h \in Hooks |-> FALSE]
    <3>1. \A h \in Hooks : (failed[h] # "none") = FALSE
      BY DEF Init
    <3> QED BY <3>1 DEF faultyBar
  <2>3. answerBar = [h \in Hooks |-> "none"]
    BY DEF Init, answerBar, Answered
  <2> QED BY <2>1, <2>2, <2>3 DEF Contract!CInit, strictBar, faultyBar, answerBar
<1>2. /\ TypeOK /\ HookInv /\ TypeOK' /\ HookInv' /\ [Next]_vars
      => [Contract!CNext]_(Contract!cvars)
  <2> SUFFICES ASSUME TypeOK, HookInv, TypeOK', HookInv', [Next]_vars
               PROVE  [Contract!CNext]_(Contract!cvars)
    OBVIOUS
  <2>1. CASE \E h \in Hooks : HookStep(h) \/ Killed(h)
    BY <2>1, HookStepRefines
  <2>2. CASE MigrateStep \/ Edit \/ UNCHANGED vars
    <3>1. UNCHANGED <<env, pc, wire, failed>>
      BY <2>2 DEF MigrateStep, MigrateStart, MigrateTruncate, MigrateWrite, MigrateCrash, Edit,
                  local, vars
    <3> QED BY <3>1 DEF Contract!cvars, Answered, Heard
  <2> QED BY <2>1, <2>2 DEF Next
<1> QED BY <1>1, <1>2, TypeCorrect, HookInvariant, PTL DEF Spec, ContractSpec, Contract!CSpec
=============================================================================
