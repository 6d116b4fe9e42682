------------------------- MODULE ReleaseVerify_proofs -------------------------
(***************************************************************************)
(* Proofs about the doctor and the release verification that runs it, for  *)
(* any hook files, binaries, releases and options.                         *)
(***************************************************************************)
EXTENDS ReleaseVerify, TLAPS

-----------------------------------------------------------------------------
(* Type correctness of the doctor *)

\* The candidate under inspection is one of the candidates.
LEMMA CandidateTypes ==
  /\ DOMAIN Candidates = 1..Len(Candidates) /\ Len(Candidates) \in Nat
  /\ \A n \in DOMAIN Candidates : Candidates[n] \in AllCandidates
  /\ \A n \in 1..(Len(Candidates) + 1) : n > 1 => Candidates[n - 1] \in AllCandidates
  /\ \A c \in AllCandidates : c.kind \in Kind /\ c.path \in Paths
<1>1. DOMAIN Candidates = 1..Len(Candidates) /\ Len(Candidates) \in Nat
  BY CandidatesAssumption
<1>2. \A n \in DOMAIN Candidates : Candidates[n] \in AllCandidates
  BY DEF AllCandidates
<1>3. \A n \in 1..(Len(Candidates) + 1) : n > 1 => n - 1 \in DOMAIN Candidates
  BY <1>1
<1>4. \A n \in DOMAIN Candidates : Candidates[n] \in Candidate
  BY CandidatesAssumption
<1>5. \A c \in AllCandidates : c.kind \in Kind /\ c.path \in Paths
  BY <1>4 DEF AllCandidates, Candidate
<1> QED BY <1>1, <1>2, <1>3, <1>5

\* A hook is not the absence of one.
LEMMA HookTypes ==
  /\ \A h \in Hook : \A d : [hook |-> h, drift |-> d] # NoSurface
  /\ \A h \in Hook : h.binary \in Binaries /\ h.harness \in BOOLEAN
  BY DEF Hook, NoSurface

\* The binary behind a hook is a binary, and a hook file holds hooks.
LEMMA BinaryTypes ==
  /\ \A c : \A h \in Hook : BinaryOf(c, h) \in Binaries
  /\ \A w \in World, b \in Binaries : w.binaries[b] \in Versions \cup {"", Missing}
  /\ \A w \in World, p \in Paths : w.files[p] \in File
  /\ NoFile \in File /\ \A f \in File : f.hooks \subseteq Hook
  BY HookTypes, BinariesAssumption DEF BinaryOf, World, NoFile, File

\* Recording a surface keeps the report a report.
LEMMA RecordTypes ==
  ASSUME DoctorTypeOK, surface # NoSurface, NEW d \in BOOLEAN, NEW v \in Versions \cup {""},
         Record(d, v)
  PROVE  /\ report' \in [ok : BOOLEAN, unreadable : BOOLEAN, surfaces : SUBSET Surface]
         /\ step' = "files" /\ surface' = NoSurface /\ probe' = NoProbe
<1>1. at \in AllCandidates /\ surface.hook \in Hook
  BY CandidateTypes DEF DoctorTypeOK, at
<1>2. [at |-> at, hook |-> surface.hook, version |-> v] \in Surface
  BY <1>1 DEF Surface
<1>3. report' = [report EXCEPT
         !.ok = @ /\ ~d,
         !.surfaces = @ \cup {[at |-> at, hook |-> surface.hook, version |-> v]}]
  BY DEF Record
<1>4. report \in [ok : BOOLEAN, unreadable : BOOLEAN, surfaces : SUBSET Surface]
  BY DEF DoctorTypeOK
<1>5. step' = "files" /\ surface' = NoSurface /\ probe' = NoProbe
  BY DEF Record
<1> DEFINE new == [at |-> at, hook |-> surface.hook, version |-> v]
<1> HIDE DEF new
<1>6. report' = [report EXCEPT !.ok = @ /\ ~d, !.surfaces = @ \cup {new}] /\ new \in Surface
  BY <1>2, <1>3 DEF new
<1> QED BY <1>4, <1>5, <1>6

\* What a change of the world makes of it is a world.
LEMMA ChangeTypes ==
  ASSUME DoctorTypeOK, Changes
  PROVE  DoctorTypeOK'
<1> USE DEF DoctorTypeOK
<1>1. UNCHANGED <<opts, doctor_vars>>
  BY DEF Changes, EditFile, Upgrade, ChangeTrust, Publish, Change
<1>2. world' \in World
  <2>0. world \in World
    OBVIOUS
  <2>1. CASE EditFile
    <3>1. PICK p \in Paths, f \in Edits : world' = [world EXCEPT !.files[p] = f]
      BY <2>1 DEF EditFile, Change
    <3>2. f \in File
      BY WorldsAssumption
    <3>3. [world.files EXCEPT ![p] = f] \in [Paths -> File]
      BY <2>0, <3>2 DEF World
    <3> QED BY <2>0, <3>1, <3>3 DEF World
  <2>2. CASE Upgrade
    <3>1. PICK b \in Binaries, v \in Versions \cup {"", Missing} :
            world' = [world EXCEPT !.binaries[b] = v]
      BY <2>2 DEF Upgrade, Change
    <3>2. [world.binaries EXCEPT ![b] = v] \in [Binaries -> Versions \cup {"", Missing}]
      BY <2>0 DEF World
    <3> QED BY <2>0, <3>1, <3>2 DEF World
  <2>3. CASE ChangeTrust
    BY <2>3 DEF ChangeTrust, Change, World
  <2>4. CASE Publish
    BY <2>4 DEF Publish, Change, World
  <2> QED BY <2>1, <2>2, <2>3, <2>4 DEF Changes
<1>3. touched' \subseteq Paths \cup Binaries \cup {"trust", "published"}
  BY DEF Changes, EditFile, Upgrade, ChangeTrust, Publish, Change
<1> QED BY <1>1, <1>2, <1>3 DEF doctor_vars

\* A step of the doctor or of its probe keeps the types.
LEMMA DoctorStepTypes ==
  ASSUME DoctorTypeOK, DoctorStep \/ ProbeWaits \/ ProbeChild
  PROVE  DoctorTypeOK'
<1> USE DEF DoctorTypeOK, report_vars
<1>0. NoProbe \in [state : {"none", "running", "ok", "failed", "killed"},
                   text : Versions \cup {""}, held : BOOLEAN, late : BOOLEAN]
  BY DEF NoProbe
<1>1. CASE ListCandidates
  <2>1. listed' \subseteq AllCandidates
    BY <1>1 DEF ListCandidates
  <2>2. step = "list" /\ step' \in {"ended", "files"}
    BY <1>1 DEF ListCandidates
  <2>3. exit' \in 0..3 /\ (step' = "ended" <=> exit' # 3)
    <3>1. CASE world.registry = "bad"
      <4>1. exit' = 2 /\ step' = "ended"
        BY <1>1, <3>1 DEF ListCandidates
      <4> HIDE DEF DoctorTypeOK
      <4> QED BY <4>1
    <3>2. CASE world.registry # "bad"
      <4>1. exit' = exit /\ step' = "files"
        BY <1>1, <3>2 DEF ListCandidates
      <4>2. exit \in 0..3 /\ (step = "ended" <=> exit # 3)
        OBVIOUS
      <4> HIDE DEF DoctorTypeOK
      <4> QED BY <2>2, <4>1, <4>2
    <3> QED BY <3>1, <3>2
  <2>4. UNCHANGED <<world, touched, opts, next, todo, surface, probe, report, trouble>>
    BY <1>1 DEF ListCandidates
  <2> QED BY <2>1, <2>2, <2>3, <2>4
<1>2. CASE ReadFile
  <2> DEFINE c == Candidates[next]
             f == Contents(c)
  <2>1. c \in AllCandidates
    BY <1>2, CandidateTypes DEF ReadFile
  <2>2. f \in File
    BY <2>1, CandidateTypes, BinaryTypes DEF Contents
  <2>3. todo' \subseteq Hook
    BY <1>2, <2>2, BinaryTypes DEF ReadFile
  <2>4. next' \in 1..(Len(Candidates) + 1) /\ next' > 1
    <3>1. next \in 1..Len(Candidates) /\ next' = next + 1
      BY <1>2, CandidateTypes DEF ReadFile
    <3>2. Len(Candidates) \in Nat
      BY CandidateTypes
    <3> HIDE DEF DoctorTypeOK
    <3> QED BY <3>1, <3>2
  <2>5. report' \in [ok : BOOLEAN, unreadable : BOOLEAN, surfaces : SUBSET Surface]
    <3>1. report' = [report EXCEPT !.ok = @ /\ ~Faulty(c, f), !.unreadable = @ \/ Bad(f)]
      BY <1>2 DEF ReadFile
    <3> HIDE DEF f
    <3> QED BY <3>1 DEF Faulty, Bad
  <2> HIDE DEF c, f
  <2> QED BY <1>2, <2>3, <2>4, <2>5 DEF ReadFile
<1>3. CASE Inspect
  <2>1. PICK h \in todo : surface' = [hook  |-> h,
             drift |-> \/ ~h.harness
                       \/ BinaryOf(at, h) # Expected(at)
                       \/ at.kind = "codex-global" /\ ~world.trust]
    BY <1>3 DEF Inspect
  <2>2. surface' \in [hook : Hook, drift : BOOLEAN] /\ surface' # NoSurface
    BY <2>1, HookTypes
  <2> QED BY <1>3, <2>2 DEF Inspect
<1>4. CASE Stat
  <2> DEFINE printed == world.binaries[BinaryOf(at, surface.hook)]
  <2>1. surface # NoSurface /\ printed \in Versions \cup {"", Missing}
    <3>1. surface # NoSurface /\ surface.hook \in Hook
      BY <1>4 DEF Stat
    <3>2. BinaryOf(at, surface.hook) \in Binaries
      BY <3>1, BinaryTypes
    <3>3. world \in World
      OBVIOUS
    <3> HIDE DEF DoctorTypeOK
    <3> QED BY <3>2, <3>3, <3>1, BinaryTypes
  <2>2. CASE printed = Missing
    <3>1. Record(TRUE, "")
      BY <1>4, <2>2 DEF Stat
    <3> QED BY <1>0, <1>4, <2>1, <3>1, RecordTypes DEF Stat, NoProbe
  <2>3. CASE printed # Missing
    <3>1. probe' = [NoProbe EXCEPT !.state = "running", !.text = printed] /\ step' = "probe"
          /\ UNCHANGED <<surface, report>>
      BY <1>4, <2>3 DEF Stat
    <3> HIDE DEF printed
    <3> QED BY <1>0, <1>4, <2>1, <2>3, <3>1 DEF Stat, NoProbe
  <2> QED BY <2>2, <2>3
<1>5. CASE ProbeExits \/ ProbeDeadline \/ ProbeReleased
  BY <1>5 DEF ProbeExits, ProbeDeadline, ProbeReleased, UnchangedByProbe
<1>6. CASE ProbeDrained \/ ProbeCutOff
  <2>1. PICK waited \in BOOLEAN : ProbeEnds(waited) /\ step = "probe"
    BY <1>6 DEF ProbeDrained, ProbeCutOff
  <2>2. surface # NoSurface /\ surface.drift \in BOOLEAN /\ probe.text \in Versions \cup {""}
    BY <2>1
  <2>3. PICK d \in BOOLEAN, v \in Versions \cup {""} : Record(d, v)
    BY <2>1, <2>2 DEF ProbeEnds, Stale
  <2>4. trouble' \in BOOLEAN
    BY <2>1 DEF ProbeEnds
  <2> QED BY <1>0, <2>1, <2>2, <2>3, <2>4, RecordTypes DEF ProbeEnds, NoProbe
<1>7. CASE CountSurfaces
  BY <1>7 DEF CountSurfaces
<1>8. CASE CheckLatest
  BY <1>8 DEF CheckLatest
<1>9. CASE Write
  <2>1. step = "write" /\ step' = "ended" /\ trouble' \in BOOLEAN
    BY <1>9 DEF Write
  <2>3. exit' \in 0..3 /\ exit' # 3
    <3> HIDE DEF DoctorTypeOK
    <3> QED BY <1>9 DEF Write
  <2>2. UNCHANGED <<world, touched, opts, listed, next, todo, surface, probe, report>>
    BY <1>9 DEF Write
  <2> QED BY <2>1, <2>2, <2>3
<1> QED
  BY <1>1, <1>2, <1>3, <1>4, <1>5, <1>6, <1>7, <1>8, <1>9 DEF DoctorStep, ProbeWaits, ProbeChild

-----------------------------------------------------------------------------
(* Type correctness of the verification *)

\* An initial state of the doctor is well typed.
LEMMA DoctorInitTypes ==
  ASSUME NEW s \in {"idle", "list"}, DoctorInit(s)
  PROVE  DoctorTypeOK
<1>1. world \in World /\ opts \in Options
  BY WorldsAssumption, OptionsAssumption DEF DoctorInit
<1>2. next \in 1..(Len(Candidates) + 1)
  BY CandidateTypes DEF DoctorInit
<1>3. NoProbe \in [state : {"none", "running", "ok", "failed", "killed"},
                   text : Versions \cup {""}, held : BOOLEAN, late : BOOLEAN]
      /\ NoProbe.state = "none"
  BY DEF NoProbe
<1>4. exit \in 0..3 /\ exit = 3
  BY DEF DoctorInit
<1> QED BY <1>1, <1>2, <1>3, <1>4 DEF DoctorInit, DoctorTypeOK

\* The verifier's doctor has not started before its command, and has ended
\* when its command has; only the deadline kills.
ChildAt ==
  /\ vstep \in Early \cup Probes \/ (vstep = "doctor" /\ command.state = "none") => step = "idle"
  /\ vstep = "doctor" /\ command.state \in {"ok", "failed"} /\ step # "idle" => step = "ended"
  /\ command.state = "killed" => vlate

\* The kinds of steps are disjoint.
LEMMA StepTypes ==
  /\ \A h \in Harness : Canary(h) \in Canaries
  /\ Canaries = {"claude canary", "codex canary", "grok canary"}
  /\ "doctor" \notin Early \cup Probes
  /\ Early \cap Commands = {} /\ {"off", "report", "ended"} \cap (Early \cup Commands) = {}
<1>1. Canaries = {"claude canary", "codex canary", "grok canary"}
  BY DEF Canaries, Harness, Canary
<1> QED BY <1>1 DEF Canaries, Early, Commands, Probes

\* Every step comes after another, the doctor and what leads to it in order.
LEMMA AfterTypes ==
  ASSUME NEW s \in Early \cup Commands
  PROVE  /\ After(s) \in Early \cup Commands \cup {"report"}
         /\ After(s) \in Early \cup Probes \cup {"doctor"} => s \in Early \cup Probes
<1>1. Canaries = {"claude canary", "codex canary", "grok canary"}
  BY StepTypes
<1> QED BY <1>1 DEF Early, Commands, Probes, After

\* A check is added once.
LEMMA AddTypes ==
  ASSUME checks \subseteq [name : CheckName, ok : BOOLEAN],
         \A c, d \in checks : c.name = d.name => c = d,
         NEW n \in CheckName, n \notin {c.name : c \in checks}, NEW ok \in BOOLEAN, Add(n, ok)
  PROVE  /\ checks' \subseteq [name : CheckName, ok : BOOLEAN]
         /\ \A c, d \in checks' : c.name = d.name => c = d
  BY DEF Add

\* The checks made before a step, once it is reached.
Prior(s) ==
  CASE s = "release"  -> {}
    [] s = "assets"   -> {"release"}
    [] s = "download" -> {"release", "assets"}
    [] s = "checksum" -> {"release", "assets"}
    [] s = "archive"  -> {"release", "assets", "checksum"}
    [] s = "downloaded version" -> {"release", "assets", "checksum", "archive"}
    [] s = "host version" -> {"release", "assets", "checksum", "archive", "downloaded version"}
    [] s = "plugin version" -> {"release", "assets", "checksum", "archive", "downloaded version",
                                "host version"}
    [] s = "doctor" -> {"release", "assets", "checksum", "archive"} \cup Probes
    [] s = "claude canary" -> {"release", "assets", "checksum", "archive", "doctor"} \cup Probes
    [] s = "codex canary" -> {"release", "assets", "checksum", "archive", "doctor", "claude canary"}
                             \cup Probes
    [] s = "grok canary" -> {"release", "assets", "checksum", "archive", "doctor", "claude canary",
                             "codex canary"} \cup Probes

\* Each check adds its name to those made before the next one, and the report
\* comes when all are made.
LEMMA PriorSteps ==
  ASSUME NEW s \in (Early \cup Commands) \ {"download"}
  PROVE  /\ s \in CheckName /\ s \notin Prior(s)
         /\ After(s) # "report" => Prior(After(s)) = Prior(s) \cup {s}
         /\ After(s) = "report" => Prior(s) \cup {s} = CheckName
<1>0. CheckName = {"release", "assets", "checksum", "archive", "downloaded version", "host version",
                   "plugin version", "doctor", "claude canary", "codex canary", "grok canary"}
  BY StepTypes DEF CheckName, Early, Commands, Probes
<1>1. s \in CheckName
  BY DEF CheckName
<1> USE <1>0 DEF Prior, After, Probes
<1>2. CASE s = "release"
  BY <1>2
<1>3. CASE s = "assets"
  BY <1>3
<1>4. CASE s = "checksum"
  BY <1>4
<1>5. CASE s = "archive"
  BY <1>5
<1>6. CASE s = "downloaded version"
  BY <1>6
<1>7. CASE s = "host version"
  BY <1>7
<1>8. CASE s = "plugin version"
  BY <1>8
<1>9. CASE s = "doctor"
  BY <1>9
<1>10. CASE s = "claude canary"
  BY <1>10
<1>11. CASE s = "codex canary"
  BY <1>11
<1>12. CASE s = "grok canary"
  BY <1>12
<1> QED BY <1>1, <1>2, <1>3, <1>4, <1>5, <1>6, <1>7, <1>8, <1>9, <1>10, <1>11, <1>12

\* Until there is a report, the checks in it are those made before the step;
\* a report is of all checks, or tells of one that failed.
Names == {c.name : c \in checks}
GateInv ==
  /\ vstep \in Early \cup Commands => Names = Prior(vstep)
  /\ vstep = "report" => Names = CheckName \/ \E c \in checks : ~c.ok

VInv == TypeOK /\ ChildAt /\ GateInv

PassedChecks == {c.name : c \in {d \in checks : d.ok}}
FailedChecks == {c.name : c \in {d \in checks : ~d.ok}}

\* What a check adds, by name.
LEMMA AddNames ==
  ASSUME NEW n, NEW ok \in BOOLEAN, Add(n, ok)
  PROVE  /\ Names' = Names \cup {n}
         /\ ok => PassedChecks' = PassedChecks \cup {n} /\ FailedChecks' = FailedChecks
         /\ ~ok => PassedChecks' = PassedChecks /\ FailedChecks' = FailedChecks \cup {n}
<1> DEFINE new == [name |-> n, ok |-> ok]
<1>1. checks' = checks \cup {new} /\ new.name = n /\ new.ok = ok
  BY DEF Add
<1> HIDE DEF new
<1> QED BY <1>1 DEF Names, PassedChecks, FailedChecks

\* A check that is made and does not end the verification is followed by the
\* next one; it may end it with a report of its failure.
LEMMA CheckMade ==
  ASSUME VInv, vstep \in (Early \cup Commands) \ {"download"}, NEW ok \in BOOLEAN, Add(vstep, ok),
         vstep' = After(vstep) \/ (vstep' = "report" /\ ~ok)
  PROVE  /\ checks' \subseteq [name : CheckName, ok : BOOLEAN]
         /\ \A c, d \in checks' : c.name = d.name => c = d
         /\ vstep' \in Early \cup Commands \cup {"report"}
         /\ GateInv'
<1>1. Names = Prior(vstep) /\ vstep \in CheckName /\ vstep \notin Prior(vstep)
  BY PriorSteps DEF VInv, GateInv
<1>2. Names' = Names \cup {vstep}
  BY AddNames
<1>3. vstep' \in Early \cup Commands \cup {"report"}
  BY AfterTypes
<1>4. GateInv'
  <2>1. CASE vstep' = After(vstep)
    BY <1>1, <1>2, <1>3, <2>1, PriorSteps, StepTypes DEF GateInv
  <2>2. CASE vstep' = "report" /\ ~ok
    <3>1. FailedChecks' # {}
      BY <2>2, AddNames
    <3>2. \E c \in checks' : ~c.ok
      BY <3>1 DEF FailedChecks
    <3> QED BY <2>2, <3>2, StepTypes DEF GateInv
  <2> QED BY <2>1, <2>2
<1> QED BY <1>1, <1>3, <1>4, AddTypes DEF VInv, TypeOK, Names

\* What leaves the doctor alone keeps its types.
LEMMA DoctorFrame ==
  ASSUME DoctorTypeOK, UNCHANGED dvars
  PROVE  DoctorTypeOK'
  BY DEF DoctorTypeOK, dvars, doctor_vars

\* The early checks keep the invariant.
LEMMA EarlyStep ==
  ASSUME VInv, EarlyCheck
  PROVE  VInv'
<1>1. /\ UNCHANGED <<dvars, release, command, vlate, code>>
      /\ vstep \in Early /\ command.state = "none" /\ vexit \in 0..3 /\ (vexit # 3 <=> vstep = "ended")
  BY StepTypes DEF EarlyCheck, VInv, TypeOK
<1>2. DoctorTypeOK'
  BY <1>1, DoctorFrame DEF VInv, TypeOK
<1>3. ChildAt'
  <2>1. step = "idle" /\ step' = "idle"
    BY <1>1 DEF VInv, ChildAt, dvars, doctor_vars
  <2> QED BY <1>1, <2>1 DEF ChildAt
<1>4. CASE BreakOff
  <2>1. vstep' = "ended" /\ vexit' = 2 /\ checks' = checks
    BY <1>4 DEF BreakOff
  <2>2. vexit' \in 0..3 /\ vexit' # 3
    BY <2>1
  <2>3. GateInv'
    BY <2>1, StepTypes DEF GateInv
  <2> QED BY <1>1, <1>2, <1>3, <2>1, <2>2, <2>3 DEF VInv, TypeOK
<1>5. CASE vstep = "download" /\ vstep' = "checksum" /\ UNCHANGED <<checks, vexit>>
  <2>1. GateInv'
    BY <1>5 DEF VInv, GateInv, Early, Prior, Names
  <2>2. vstep' \in Early /\ vstep' # "ended" /\ vstep # "ended"
    BY <1>5 DEF Early
  <2> QED BY <1>1, <1>2, <1>3, <1>5, <2>1, <2>2 DEF VInv, TypeOK
<1>6. ASSUME vstep # "download", NEW ok \in BOOLEAN, Verdict(ok) PROVE VInv'
  <2>2. /\ checks' \subseteq [name : CheckName, ok : BOOLEAN]
        /\ \A c, d \in checks' : c.name = d.name => c = d
        /\ vstep' \in Early \cup Commands \cup {"report"}
        /\ GateInv'
    BY <1>1, <1>6, CheckMade DEF Verdict
  <2>3. vexit' = vexit /\ vstep' # "ended" /\ vstep # "ended"
    BY <1>1, <1>6, <2>2, StepTypes DEF Verdict
  <2> QED BY <1>1, <1>2, <1>3, <2>2, <2>3 DEF VInv, TypeOK
<1>7. Passes(vstep) \in BOOLEAN \/ vstep = "download"
  BY <1>1 DEF VInv, TypeOK, Release, Passes, Early
<1> QED BY <1>4, <1>5, <1>6, <1>7 DEF EarlyCheck

\* So does the end of a command, in whatever way.
LEMMA ConcludeStep ==
  ASSUME VInv, vstep \in Commands, NEW ok \in BOOLEAN, NEW c \in 0..2, Conclude(ok, c),
         UNCHANGED <<dvars, release, vlate, vexit>>
  PROVE  VInv'
<1>1. vstep' = After(vstep) /\ Add(vstep, ok) /\ vstep # "download"
  BY StepTypes DEF Conclude, Early
<1>2. /\ checks' \subseteq [name : CheckName, ok : BOOLEAN]
      /\ \A a, b \in checks' : a.name = b.name => a = b
      /\ vstep' \in Early \cup Commands \cup {"report"}
      /\ GateInv'
  BY <1>1, CheckMade
<1>3. /\ code' \in 0..2
      /\ command' = NoCommand /\ NoCommand.state = "none"
      /\ NoCommand \in [state : {"none", "running", "ok", "failed", "killed"},
                        good : BOOLEAN, held : BOOLEAN]
  BY DEF VInv, TypeOK, Conclude, NoCommand
<1>4. DoctorTypeOK'
  BY DoctorFrame DEF VInv, TypeOK
<1>5. ChildAt'
  <2>1. CASE vstep' \in Early \cup Probes \cup {"doctor"}
    <3>1. vstep \in Early \cup Probes
      BY <1>1, <2>1, AfterTypes
    <3>2. step' = "idle"
      BY <3>1 DEF VInv, ChildAt, dvars, doctor_vars
    <3> QED BY <1>3, <3>2 DEF ChildAt
  <2>2. CASE vstep' \notin Early \cup Probes \cup {"doctor"}
    BY <1>3, <2>2 DEF ChildAt
  <2> QED BY <2>1, <2>2
<1>6. vexit' = vexit /\ vstep' # "ended" /\ vstep # "ended"
  BY <1>2, StepTypes
<1> QED BY <1>2, <1>3, <1>4, <1>5, <1>6 DEF VInv, TypeOK

\* A command that is started or has something happen to it keeps its type.
CommandType == [state : {"none", "running", "ok", "failed", "killed"}, good : BOOLEAN, held : BOOLEAN]

\* A step that only moves the command that runs.
LEMMA CommandFrame ==
  ASSUME VInv, UNCHANGED <<release, vstep, checks, vlate, code, vexit>>,
         command' \in CommandType, command'.state # "none" => vstep \in Commands,
         DoctorTypeOK', ChildAt'
  PROVE  VInv'
<1>1. GateInv'
  BY DEF VInv, GateInv, Names
<1> QED BY <1>1 DEF VInv, TypeOK, CommandType

\* Starting a command, or failing to.
LEMMA StartStep ==
  ASSUME VInv, StartCommand
  PROVE  VInv'
<1>1. vstep \in Commands /\ command.state = "none"
  BY DEF StartCommand
<1>2. CASE vlate \/ Program = Missing
  <2>1. Conclude(FALSE, 2) /\ UNCHANGED <<dvars, release, vlate, vexit>>
    BY <1>2 DEF StartCommand, dvars, doctor_vars
  <2>2. 2 \in 0..2
    OBVIOUS
  <2> QED BY <1>1, <2>1, <2>2, ConcludeStep
<1>3. CASE ~(vlate \/ Program = Missing)
  <2>1. PICK good \in Good : command' = [state |-> "running", good |-> good, held |-> FALSE]
    BY <1>3 DEF StartCommand
  <2>2. good \in BOOLEAN
    BY <1>1 DEF Good, Commands
  <2>3. /\ UNCHANGED <<world, touched, opts, listed, next, todo, surface, probe, report, trouble, exit,
                       release, vlate, vexit, vstep, checks, code>>
        /\ step' = step \/ (vstep = "doctor" /\ step' = "list")
    BY <1>3 DEF StartCommand
  <2>4. vstep = "doctor" => step = "idle"
    BY <1>1 DEF VInv, ChildAt
  <2>5. DoctorTypeOK'
    <3>1. CASE step' = step
      BY <2>3, <3>1, DoctorFrame DEF VInv, TypeOK, dvars, doctor_vars
    <3>2. CASE vstep = "doctor" /\ step' = "list"
      <4>1. step = "idle"
        BY <2>4, <3>2
      <4> QED BY <2>3, <3>2, <4>1 DEF VInv, TypeOK, DoctorTypeOK
    <3> QED BY <2>3, <3>1, <3>2
  <2>6. ChildAt'
    <3>1. command'.state = "running"
      BY <2>1
    <3> QED BY <1>1, <2>3, <3>1, StepTypes DEF VInv, ChildAt
  <2> QED BY <1>1, <2>1, <2>2, <2>3, <2>5, <2>6, CommandFrame DEF CommandType
<1> QED BY <1>2, <1>3

\* A command exits, or its pipe is closed at last.
LEMMA RunningStep ==
  ASSUME VInv, CommandExits \/ DoctorExits \/ CommandReleased
  PROVE  VInv'
<1>1. UNCHANGED <<dvars, release, vstep, checks, vlate, code, vexit>>
  BY DEF CommandExits, DoctorExits, CommandReleased
<1>2. command' \in CommandType /\ (command'.state # "none" => command.state # "none")
  <2>1. command \in CommandType
    BY DEF VInv, TypeOK, CommandType
  <2>2. CASE CommandExits
    BY <2>1, <2>2 DEF CommandType, CommandExits
  <2>3. CASE DoctorExits
    BY <2>1, <2>3 DEF CommandType, DoctorExits
  <2>4. CASE CommandReleased
    BY <2>1, <2>4 DEF CommandType, CommandReleased
  <2> QED BY <2>2, <2>3, <2>4
<1>3. DoctorTypeOK'
  BY <1>1, DoctorFrame DEF VInv, TypeOK
<1>4. ChildAt'
  <2>1. step' = step
    BY <1>1 DEF dvars, doctor_vars
  <2>2. CASE CommandExits
    <3>1. command.state = "running" /\ command'.state \in {"ok", "failed"}
      BY <2>2 DEF VInv, TypeOK, CommandExits
    <3> QED BY <1>1, <2>1, <2>2, <3>1, StepTypes DEF VInv, ChildAt, CommandExits, IsDoctor
  <2>3. CASE DoctorExits
    <3>1. command'.state \in {"ok", "failed"} /\ vstep = "doctor" /\ step = "ended"
      BY <2>3 DEF VInv, TypeOK, DoctorExits, IsDoctor
    <3> QED BY <1>1, <2>1, <3>1, StepTypes DEF ChildAt
  <2>4. CASE CommandReleased
    <3>1. command'.state = command.state
      BY <2>4 DEF CommandReleased, VInv, TypeOK
    <3> QED BY <1>1, <2>1, <3>1 DEF VInv, ChildAt
  <2> QED BY <2>2, <2>3, <2>4
<1> QED BY <1>1, <1>2, <1>3, <1>4, CommandFrame DEF VInv, TypeOK

\* The deadline ends the verification's commands, the doctor included.
LEMMA DeadlineStep ==
  ASSUME VInv, Deadline
  PROVE  VInv'
<1>1. /\ UNCHANGED <<release, vstep, checks, code, vexit>> /\ vlate' = TRUE
      /\ command.state \in {"none", "running", "ok", "failed", "killed"}
  BY DEF Deadline, VInv, TypeOK
<1>2. CASE command.state = "running"
  <2>1. PICK h \in BOOLEAN : command' = [command EXCEPT !.state = "killed", !.held = h /\ ~IsDoctor]
    BY <1>2 DEF Deadline
  <2>2. command' \in CommandType /\ command'.state = "killed" /\ vstep \in Commands
    BY <1>2, <2>1 DEF VInv, TypeOK, CommandType, IsDoctor
  <2>3. DoctorTypeOK' /\ (step' = step \/ vstep = "doctor")
    <3>1. CASE IsDoctor /\ step # "ended"
      <4>1. KillDoctor
        BY <1>2, <3>1 DEF Deadline
      <4>2. step' = "killed" /\ todo' = {} /\ surface' = NoSurface /\ probe' = NoProbe
            /\ UNCHANGED <<world, touched, opts, listed, next, report, trouble, exit>>
        BY <4>1 DEF KillDoctor
      <4>3. NoProbe \in [state : {"none", "running", "ok", "failed", "killed"},
                         text : Versions \cup {""}, held : BOOLEAN, late : BOOLEAN]
            /\ NoProbe.state = "none"
        BY DEF NoProbe
      <4> QED BY <3>1, <4>2, <4>3 DEF VInv, TypeOK, DoctorTypeOK, IsDoctor
    <3>2. CASE ~(IsDoctor /\ step # "ended")
      <4>1. UNCHANGED dvars
        BY <1>2, <3>2 DEF Deadline
      <4> QED BY <4>1, DoctorFrame DEF VInv, TypeOK, dvars, doctor_vars
    <3> QED BY <3>1, <3>2
  <2>4. ChildAt'
    <3>1. vstep \in Early \cup Probes => vstep # "doctor" /\ step = "idle"
      BY StepTypes DEF VInv, ChildAt
    <3> QED BY <1>1, <2>2, <2>3, <3>1 DEF ChildAt
  <2>5. GateInv'
    BY <1>1 DEF VInv, GateInv, Names
  <2> QED BY <1>1, <2>2, <2>3, <2>4, <2>5 DEF VInv, TypeOK, CommandType
<1>3. CASE command.state # "running"
  <2>1. UNCHANGED <<command, dvars>>
    BY <1>3 DEF Deadline
  <2>2. DoctorTypeOK' /\ ChildAt' /\ GateInv'
    BY <1>1, <2>1, DoctorFrame DEF VInv, TypeOK, ChildAt, GateInv, Names, dvars, doctor_vars
  <2> QED BY <1>1, <2>1, <2>2 DEF VInv, TypeOK
<1> QED BY <1>2, <1>3

\* What is made of a command that has ended.
LEMMA EndStep ==
  ASSUME VInv, CommandEnds
  PROVE  VInv'
<1>1. /\ vstep \in Commands /\ command.state \in {"ok", "failed", "killed"}
      /\ UNCHANGED <<dvars, release, vlate, vexit>>
  BY DEF CommandEnds, VInv, TypeOK
<1>2. CASE Conclude(TRUE, 0)
  <2>1. 0 \in 0..2
    OBVIOUS
  <2> QED BY <1>1, <1>2, <2>1, ConcludeStep
<1>3. ASSUME NEW c \in (IF vlate THEN {2} ELSE IF IsDoctor THEN {exit} ELSE {1, 2}), Conclude(FALSE, c)
      PROVE  VInv'
  <2>1. c \in 0..2
    <3>1. CASE vlate \/ ~IsDoctor
      BY <1>3, <3>1
    <3>2. CASE ~vlate /\ IsDoctor
      <4>1. step = "ended"
        BY <1>1, <3>2 DEF VInv, ChildAt, IsDoctor
      <4>2. exit \in 0..3 /\ exit # 3
        BY <4>1 DEF VInv, TypeOK, DoctorTypeOK
      <4>3. c = exit
        BY <1>3, <3>2
      <4> QED BY <4>2, <4>3
    <3> QED BY <3>1, <3>2
  <2> QED BY <1>1, <1>3, <2>1, ConcludeStep
<1> QED BY <1>2, <1>3 DEF CommandEnds

\* The report does not add anything.
LEMMA ReportStep ==
  ASSUME VInv, Report
  PROVE  VInv'
<1>1. /\ vstep = "report" /\ vstep' = "ended"
      /\ UNCHANGED <<dvars, release, checks, command, vlate, code>>
  BY DEF Report
<1>2. vexit' \in 0..3 /\ vexit' # 3
  <2>1. code \in 0..2
    BY DEF VInv, TypeOK
  <2>2. CASE vexit' = 2
    BY <2>2
  <2>3. CASE vexit' = IF ResultOK THEN 0 ELSE IF code = 0 THEN 1 ELSE code
    BY <2>1, <2>3
  <2> QED BY <2>2, <2>3 DEF Report
<1>3. command.state = "none"
  BY <1>1, StepTypes DEF VInv, TypeOK
<1>4. DoctorTypeOK' /\ ChildAt' /\ GateInv'
  BY <1>1, <1>3, StepTypes, DoctorFrame DEF VInv, TypeOK, ChildAt, GateInv, Early, Probes
<1> QED BY <1>1, <1>2, <1>3, <1>4 DEF VInv, TypeOK

\* Nor do the steps of the doctor and of the world.
LEMMA ChildStep ==
  ASSUME VInv, UNCHANGED verify_vars,
         Changes \/ (DoctorNext /\ (vstep = "off" \/ IsDoctor))
  PROVE  VInv'
<1>1. DoctorTypeOK'
  BY ChangeTypes, DoctorStepTypes DEF VInv, TypeOK, DoctorNext
<1>2. GateInv'
  BY DEF VInv, GateInv, Names, verify_vars
<1>3. ChildAt'
  <2>1. CASE Changes
    <3>1. step' = step
      BY <2>1 DEF Changes, EditFile, Upgrade, ChangeTrust, Publish, Change, doctor_vars
    <3> QED BY <3>1 DEF VInv, ChildAt, verify_vars
  <2>2. CASE DoctorStep \/ ProbeWaits \/ ProbeChild
    <3>1. step # "ended" /\ step # "idle"
      BY <2>2 DEF DoctorStep, ListCandidates, ReadFile, Inspect, Stat, CountSurfaces, CheckLatest, Write,
                  ProbeWaits, ProbeDeadline, ProbeDrained, ProbeCutOff, ProbeChild, ProbeExits, ProbeReleased
    <3>2. CASE vstep = "off"
      <4>1. command.state = "none"
        BY <3>2, StepTypes DEF VInv, TypeOK
      <4> QED BY <3>2, <4>1, StepTypes DEF ChildAt, verify_vars, Early, Probes
    <3>3. CASE vstep # "off" /\ ~Changes
      <4>1. IsDoctor
        BY <3>3
      <4>2. vstep = "doctor" /\ command.state \notin {"none", "ok", "failed"}
        BY <3>1, <4>1 DEF VInv, ChildAt, IsDoctor
      <4> QED BY <4>2, StepTypes DEF VInv, ChildAt, verify_vars
    <3> QED BY <2>1, <3>2, <3>3
  <2> QED BY <2>1, <2>2 DEF DoctorNext
<1> QED BY <1>1, <1>2, <1>3 DEF VInv, TypeOK, verify_vars

\* Every reachable state of the doctor and of a verification satisfies VInv.
LEMMA VerifyInvariant == Spec => []VInv
<1>1. Init => VInv
  <2> SUFFICES ASSUME Init PROVE VInv
    OBVIOUS
  <2>1. /\ checks = {} /\ command = NoCommand /\ vlate = FALSE /\ code = 0 /\ vexit = 3
        /\ DoctorTypeOK
        /\ release \in Release
        /\ vstep = "off" \/ (vstep = "release" /\ step = "idle")
    <3>1. NoRelease \in Release
      BY DEF NoRelease, Release
    <3> QED BY <3>1, ReleasesAssumption, DoctorInitTypes DEF Init, VerifyInit, DoctorInit
  <2>2. NoCommand \in CommandType /\ NoCommand.state = "none"
    BY DEF NoCommand, CommandType
  <2>3. vstep \in Early \cup {"off"}
    BY <2>1 DEF Early
  <2>4. TypeOK
    <3>1. code \in 0..2 /\ vexit \in 0..3 /\ (vexit # 3 <=> vstep = "ended")
      <4>1. vstep # "ended"
        BY <2>1
      <4> QED BY <2>1, <4>1
    <3> QED BY <2>1, <2>2, <2>3, <3>1 DEF TypeOK, CommandType
  <2>5. ChildAt
    BY <2>1, <2>2, StepTypes DEF ChildAt, Early, Probes
  <2>6. GateInv
    BY <2>1, StepTypes DEF GateInv, Names, Prior
  <2> QED BY <2>4, <2>5, <2>6 DEF VInv
<1>2. VInv /\ [Next]_vars => VInv'
  <2> SUFFICES ASSUME VInv, [Next]_vars PROVE VInv'
    OBVIOUS
  <2>1. CASE VerifyStep
    BY <2>1, EarlyStep, StartStep, RunningStep, EndStep, ReportStep DEF VerifyStep
  <2>2. CASE CommandExits \/ CommandReleased \/ Deadline
    BY <2>2, RunningStep, DeadlineStep
  <2>3. CASE UNCHANGED verify_vars /\ (Changes \/ (DoctorNext /\ (vstep = "off" \/ IsDoctor)))
    BY <2>3, ChildStep
  <2>4. CASE UNCHANGED vars
    BY <2>4, DoctorFrame DEF vars, dvars, doctor_vars, verify_vars, VInv, TypeOK, ChildAt, GateInv, Names
  <2> QED BY <2>1, <2>2, <2>3, <2>4 DEF Next
<1> QED BY <1>1, <1>2, PTL DEF Spec

\* Every reachable state is well typed.
THEOREM TypeCorrect == Spec => []TypeOK
<1>1. VInv => TypeOK
  BY DEF VInv
<1> QED BY <1>1, VerifyInvariant, PTL

-----------------------------------------------------------------------------
(* The verifier is a gate made of its checks *)

gateVerdict == CASE vexit = 3 -> "none" [] vexit = 0 -> "pass" [] vexit = 1 -> "fail" [] vexit = 2 -> "error"

\* A check that is made passes or fails once.
LEMMA MadeRefines ==
  ASSUME VInv, vstep \in (Early \cup Commands) \ {"download"}, NEW ok \in BOOLEAN, Add(vstep, ok),
         vexit' = vexit
  PROVE  Gate!Next
<1>1. Names = Prior(vstep) /\ vstep \in CheckName /\ vstep \notin Prior(vstep)
  BY PriorSteps DEF VInv, GateInv
<1>2. vstep \in CheckName \ (PassedChecks \cup FailedChecks)
  BY <1>1 DEF PassedChecks, FailedChecks, Names
<1>3. gateVerdict = "none" /\ gateVerdict' = "none"
  <2>1. vexit = 3
    BY StepTypes DEF VInv, TypeOK
  <2> QED BY <2>1 DEF gateVerdict
<1>4. CASE ok
  <2>1. PassedChecks' = PassedChecks \cup {vstep} /\ FailedChecks' = FailedChecks
    BY <1>4, AddNames
  <2>2. \E c \in CheckName : /\ c \in CheckName \ (PassedChecks \cup FailedChecks)
                             /\ PassedChecks' = PassedChecks \cup {c} /\ FailedChecks' = FailedChecks
    BY <1>1, <1>2, <2>1
  <2> QED BY <1>3, <2>2 DEF Gate!Next, Gate!Pass, Gate!Open, PassedChecks, FailedChecks, gateVerdict
<1>5. CASE ~ok
  <2>1. PassedChecks' = PassedChecks /\ FailedChecks' = FailedChecks \cup {vstep}
    BY <1>5, AddNames
  <2>2. \E c \in CheckName : /\ c \in CheckName \ (PassedChecks \cup FailedChecks)
                             /\ FailedChecks' = FailedChecks \cup {c} /\ PassedChecks' = PassedChecks
    BY <1>1, <1>2, <2>1
  <2> QED BY <1>3, <2>2 DEF Gate!Next, Gate!Fail, Gate!Open, PassedChecks, FailedChecks, gateVerdict
<1> QED BY <1>4, <1>5

\* The report concludes, or is an error.
LEMMA ReportRefines ==
  ASSUME VInv, Report
  PROVE  Gate!Next
<1>1. vstep = "report" /\ vexit = 3 /\ checks' = checks
  BY StepTypes DEF Report, VInv, TypeOK
<1>2. PassedChecks' = PassedChecks /\ FailedChecks' = FailedChecks /\ gateVerdict = "none"
  BY <1>1 DEF PassedChecks, FailedChecks, gateVerdict
<1>3. Names = CheckName \/ FailedChecks # {}
  BY <1>1 DEF VInv, GateInv, FailedChecks
<1>4. CheckName # {}
  BY DEF CheckName, Early
<1>5. CASE vexit' = 2
  <2>1. gateVerdict' = "error"
    BY <1>5 DEF gateVerdict
  <2> QED BY <1>2, <2>1 DEF Gate!Next, Gate!BreakOff, PassedChecks, FailedChecks, gateVerdict
<1>6. CASE ResultOK /\ vexit' = 0
  <2>1. gateVerdict' = "pass"
    BY <1>6 DEF gateVerdict
  <2>2. FailedChecks = {} /\ PassedChecks = Names
    BY <1>6 DEF ResultOK, FailedChecks, PassedChecks, Names
  <2>3. PassedChecks = CheckName
    BY <1>3, <2>2
  <2> QED BY <1>2, <1>4, <2>1, <2>3
          DEF Gate!Next, Gate!Conclude, PassedChecks, FailedChecks, gateVerdict
<1>7. CASE ~ResultOK /\ vexit' = 1
  <2>1. gateVerdict' = "fail"
    BY <1>7 DEF gateVerdict
  <2>2. FailedChecks # {}
    <3>1. CASE checks = {}
      BY <1>3, <1>4, <3>1 DEF Names
    <3>2. CASE checks # {}
      BY <1>7, <3>2 DEF ResultOK, FailedChecks
    <3> QED BY <3>1, <3>2
  <2> QED BY <1>2, <2>1, <2>2
          DEF Gate!Next, Gate!Conclude, PassedChecks, FailedChecks, gateVerdict
<1>8. \/ vexit' = 2
      \/ ResultOK /\ vexit' = 0
      \/ ~ResultOK /\ vexit' = 1
  <2>1. code \in 0..2
    BY DEF VInv, TypeOK
  <2>2. vexit' = 2 \/ vexit' = IF ResultOK THEN 0 ELSE IF code = 0 THEN 1 ELSE code
    BY DEF Report
  <2>3. CASE code \in {0, 1}
    BY <2>2, <2>3
  <2>4. CASE code = 2
    BY <2>2, <2>4
  <2> QED BY <2>1, <2>3, <2>4
<1> QED BY <1>5, <1>6, <1>7, <1>8

\* An error that ends an early check breaks the gate off.
LEMMA BreakRefines ==
  ASSUME VInv, EarlyCheck, BreakOff
  PROVE  Gate!Next
<1>1. vexit = 3 /\ vexit' = 2 /\ checks' = checks
  BY StepTypes DEF BreakOff, EarlyCheck, VInv, TypeOK
<1>2. PassedChecks' = PassedChecks /\ FailedChecks' = FailedChecks
      /\ gateVerdict = "none" /\ gateVerdict' = "error"
  BY <1>1 DEF PassedChecks, FailedChecks, gateVerdict
<1> QED BY <1>2 DEF Gate!Next, Gate!BreakOff, PassedChecks, FailedChecks, gateVerdict

\* The verifier implements CheckGate: exit 0 only if each of the eleven checks
\* was made, once, and passed; exit 1 only if one failed.
THEOREM VerifyGateHolds == Spec => VerifyGate
<1>1. Init => Gate!Init
  BY DEF Init, VerifyInit, Gate!Init
<1>2. VInv /\ [Next]_vars => [Gate!Next]_(Gate!vars)
  <2> SUFFICES ASSUME VInv, [Next]_vars PROVE [Gate!Next]_(Gate!vars)
    OBVIOUS
  <2>1. CASE UNCHANGED <<checks, vexit>>
    BY <2>1 DEF Gate!vars
  <2>2. CASE EarlyCheck
    <3>1. CASE BreakOff
      BY <2>2, <3>1, BreakRefines
    <3>2. CASE vstep # "download" /\ Verdict(Passes(vstep))
      <4>1. Passes(vstep) \in BOOLEAN
        BY <2>2, <3>2 DEF VInv, TypeOK, Release, Passes, Early, EarlyCheck
      <4> QED BY <2>2, <3>2, <4>1, MadeRefines DEF Verdict, EarlyCheck
    <3>3. CASE vstep # "download" /\ Verdict(FALSE)
      BY <2>2, <3>3, MadeRefines DEF Verdict, EarlyCheck
    <3> QED BY <2>1, <2>2, <3>1, <3>2, <3>3 DEF EarlyCheck
  <2>3. CASE StartCommand \/ CommandEnds
    <3>1. CASE \E ok \in BOOLEAN : \E c : Conclude(ok, c)
      <4>1. PICK ok \in BOOLEAN : Add(vstep, ok)
        BY <3>1 DEF Conclude
      <4>2. vstep \in Commands /\ vstep # "download" /\ vexit' = vexit
        BY <2>3, StepTypes DEF StartCommand, CommandEnds, VInv, TypeOK, Early
      <4> QED BY <4>1, <4>2, MadeRefines
    <3>2. CASE ~\E ok \in BOOLEAN : \E c : Conclude(ok, c)
      <4>1. UNCHANGED <<checks, vexit>>
        BY <2>3, <3>2 DEF StartCommand, CommandEnds
      <4> QED BY <2>1, <4>1
    <3> QED BY <3>1, <3>2
  <2>4. CASE Report
    BY <2>4, ReportRefines
  <2>5. CASE DoctorExits \/ CommandExits \/ CommandReleased \/ Deadline
    BY <2>1, <2>5 DEF DoctorExits, CommandExits, CommandReleased, Deadline
  <2>6. CASE UNCHANGED verify_vars
    BY <2>1, <2>6 DEF verify_vars
  <2> QED BY <2>2, <2>3, <2>4, <2>5, <2>6 DEF Next, VerifyStep, vars
<1> QED BY <1>1, <1>2, VerifyInvariant, PTL DEF Spec, VerifyGate, Gate!Spec

-----------------------------------------------------------------------------
(* What is executed *)

\* A step is reached past the checks before it only if they passed.
ClearedInv ==
  /\ vstep \in {"assets", "download", "checksum", "archive"} \cup Commands =>
       release.exact /\ ~release.draft
  /\ vstep \in {"download", "checksum", "archive"} \cup Commands => release.complete
  /\ vstep \in {"archive"} \cup Commands => release.entry /\ release.genuine
  /\ vstep \in Commands => release.unpacks

\* The downloaded binary runs only past the checksum of a published tag.
THEOREM RunsOnlyVerifiedHolds == Spec => []RunsOnlyVerified
<1>1. Init => ClearedInv
  <2>1. Init => vstep \in {"off", "release"}
    BY DEF Init
  <2>2. {"off", "release"} \cap Commands = {}
    BY StepTypes DEF Early
  <2> QED BY <2>1, <2>2 DEF ClearedInv
<1>2. VInv /\ ClearedInv /\ [Next]_vars => ClearedInv'
  <2> SUFFICES ASSUME VInv, ClearedInv, [Next]_vars PROVE ClearedInv'
    OBVIOUS
  <2>1. release' = release
    BY DEF Next, VerifyStep, EarlyCheck, StartCommand, DoctorExits, CommandEnds, Report,
           CommandExits, CommandReleased, Deadline, verify_vars, vars
  <2>2. CASE vstep' = vstep \/ vstep \in Commands
    BY <2>1, <2>2 DEF ClearedInv
  <2>3. CASE EarlyCheck
    <3>1. vstep' \in {"report", "ended"} => ClearedInv'
      BY StepTypes DEF ClearedInv
    <3>2. CASE vstep' \notin {"report", "ended"}
      <4>1. vstep \in Early /\ vstep' = After(vstep) /\ (vstep # "download" => Passes(vstep))
        BY <2>3, <3>2 DEF EarlyCheck, BreakOff, Verdict, After
      <4>2. Early \cap Commands = {}
        BY StepTypes
      <4>3. CASE vstep = "release"
        BY <2>1, <4>1, <4>2, <4>3 DEF ClearedInv, After, Passes, Early
      <4>4. CASE vstep = "assets"
        BY <2>1, <4>1, <4>2, <4>4 DEF ClearedInv, After, Passes, Early
      <4>5. CASE vstep = "download"
        BY <2>1, <4>1, <4>2, <4>5 DEF ClearedInv, After, Early
      <4>6. CASE vstep = "checksum"
        BY <2>1, <4>1, <4>2, <4>6 DEF ClearedInv, After, Passes, Early
      <4>7. CASE vstep = "archive"
        BY <2>1, <4>1, <4>2, <4>7 DEF ClearedInv, After, Passes, Early
      <4> QED BY <4>1, <4>3, <4>4, <4>5, <4>6, <4>7 DEF Early
    <3> QED BY <3>1, <3>2
  <2>4. CASE Report
    BY <2>4, StepTypes DEF Report, ClearedInv
  <2>5. ~EarlyCheck /\ ~Report => (vstep' = vstep \/ vstep \in Commands)
    <3>1. CASE StartCommand \/ CommandEnds
      BY <3>1 DEF StartCommand, CommandEnds, VInv, TypeOK
    <3>2. CASE DoctorExits \/ CommandExits \/ CommandReleased \/ Deadline \/ UNCHANGED verify_vars
      BY <3>2 DEF DoctorExits, CommandExits, CommandReleased, Deadline, verify_vars
    <3> QED BY <3>1, <3>2 DEF Next, VerifyStep, vars
  <2> QED BY <2>2, <2>3, <2>4, <2>5
<1>3. VInv /\ ClearedInv => RunsOnlyVerified
  <2>1. VInv => (command.state # "none" => vstep \in Commands)
    BY DEF VInv, TypeOK
  <2> QED BY <2>1 DEF ClearedInv, RunsOnlyVerified, Published
<1> QED BY <1>1, <1>2, <1>3, VerifyInvariant, PTL DEF Spec
=============================================================================
