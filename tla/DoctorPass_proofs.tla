-------------------------- MODULE DoctorPass_proofs ---------------------------
(***************************************************************************)
(* What the exit codes of the doctor and of the verification say, for any  *)
(* files, binaries, releases and options, any number of changes to them    *)
(* while the doctor reads, and whether a user or the verification runs it: *)
(* exit 0 of the doctor is a verdict on every hook file; the code of an    *)
(* undisturbed doctor is exact; and exit 0 of the verification says of the *)
(* release, the host, the plugin and the hooks that they are as they       *)
(* should be.                                                              *)
(***************************************************************************)
EXTENDS ReleaseVerify_proofs, FiniteSetTheorems, FunctionTheorems

-----------------------------------------------------------------------------
(* What the doctor knows of the parts that did not change *)

\* The doctor has listed its candidates, and has not failed.
Settled == step \in {"files", "stat", "probe", "latest", "write"} \/ exit = 0

\* A hook names the right harness and binary and is trusted.
Matches(c, h) ==
  /\ h.harness /\ BinaryOf(c, h) = Expected(c)
  /\ c.kind = "codex-global" /\ "trust" \notin touched => world.trust

\* What a surface's version may be.
Text == Versions \cup {""}

\* The binary behind a hook prints v.
Prints(c, h, v) ==
  /\ v \in Text
  /\ BinaryOf(c, h) \notin touched => v = world.binaries[BinaryOf(c, h)]

\* A hook is in the report, and the report is right about it.
Recorded(c, h) ==
  /\ Matches(c, h)
  /\ \E s \in report.surfaces :
       s.at = c /\ s.hook = h /\ ~Stale(s.version) /\ Prints(c, h, s.version)

\* A hook of the i-th candidate is being inspected, or waits for it.
Pending(i, h) ==
  /\ i = next - 1
  /\ \/ h \in todo
     \/ /\ surface # NoSurface /\ surface.hook = h
        /\ surface.drift \/ Matches(Candidates[i], h)

\* No file that is there was overlooked.
ListWell == \A c \in AllCandidates : c.path \notin touched /\ Listed(c, world) => c \in listed

\* What was said of the i-th candidate.
ReadWellAt(i) ==
  LET c == Candidates[i]
  IN  i < next /\ c \in listed /\ c.path \notin touched =>
        CleanFile(c) /\ \A h \in HooksOf(c) : Pending(i, h) \/ Recorded(c, h)

\* As long as nothing is wrong, all that was read is clean, and each of its
\* hooks is pending or recorded.
ReadWell == report.ok => \A i \in DOMAIN Candidates : ReadWellAt(i)

\* A probe's text is what the binary prints.
ProbeWell == step = "probe" => Prints(at, surface.hook, probe.text)

\* After the comparison with the latest release every surface has passed it.
LatestWell ==
  (step = "write" \/ exit = 0) /\ opts.latest /\ report.ok =>
    \A s \in report.surfaces :
      /\ "published" \notin touched => s.version = world.published
      /\ s.at.kind = "claude-plugin" /\ opts.pluginDir # "" => s.version = opts.pluginDir

\* Past the files there is nothing left to read or inspect.
DoneWell ==
  /\ step \in {"latest", "write"} \/ exit = 0 => next \notin DOMAIN Candidates /\ todo = {}
  /\ exit = 0 => report.ok

Sight == Settled => ListWell /\ ReadWell /\ ProbeWell /\ LatestWell /\ DoneWell
Start == step \in {"idle", "list"} => next = 1

\* Before it has ended the doctor has no exit code.
LEMMA NoExit == ASSUME DoctorTypeOK, step # "ended" PROVE exit = 3
BY DEF DoctorTypeOK

-----------------------------------------------------------------------------
(* Changes to the world *)

\* The parts of the world that did not change are what they were.
Fresh ==
  /\ touched \subseteq touched'
  /\ world'.registry = world.registry
  /\ \A p \in Paths : p \notin touched' => world'.files[p] = world.files[p]
  /\ \A b \in Binaries : b \notin touched' => world'.binaries[b] = world.binaries[b]
  /\ "trust" \notin touched' => world'.trust = world.trust
  /\ "published" \notin touched' => world'.published = world.published

LEMMA ChangesFresh ==
  ASSUME DoctorTypeOK, Changes
  PROVE  Fresh /\ UNCHANGED <<opts, doctor_vars>>
<1>1. UNCHANGED <<opts, doctor_vars>>
  BY DEF Changes, EditFile, Upgrade, ChangeTrust, Publish, Change
<1>2. world \in World
  BY DEF DoctorTypeOK
<1>3. CASE EditFile
  <2>1. PICK p \in Paths, f \in Edits :
          world' = [world EXCEPT !.files[p] = f] /\ touched' = touched \cup {p}
    BY <1>3 DEF EditFile, Change
  <2>2. \A q \in Paths : q # p => world'.files[q] = world.files[q]
    BY <1>2, <2>1 DEF World
  <2> QED BY <1>1, <1>2, <2>1, <2>2 DEF Fresh, World
<1>4. CASE Upgrade
  <2>1. PICK b \in Binaries, v \in Versions \cup {"", Missing} :
          world' = [world EXCEPT !.binaries[b] = v] /\ touched' = touched \cup {b}
    BY <1>4 DEF Upgrade, Change
  <2>2. \A c \in Binaries : c # b => world'.binaries[c] = world.binaries[c]
    BY <1>2, <2>1 DEF World
  <2> QED BY <1>1, <1>2, <2>1, <2>2 DEF Fresh, World
<1>5. CASE ChangeTrust
  BY <1>1, <1>2, <1>5 DEF ChangeTrust, Change, Fresh, World
<1>6. CASE Publish
  BY <1>1, <1>2, <1>6 DEF Publish, Change, Fresh, World
<1> QED BY <1>3, <1>4, <1>5, <1>6 DEF Changes

\* What is known of the unchanged parts stays known.
LEMMA FreshSight ==
  ASSUME DoctorTypeOK, Sight, Fresh, UNCHANGED <<opts, doctor_vars>>
  PROVE  Sight'
<1> SUFFICES ASSUME Settled' PROVE ListWell' /\ ReadWell' /\ ProbeWell' /\ LatestWell' /\ DoneWell'
  BY DEF Sight
<1> USE DEF doctor_vars
<1>1. Settled
  BY DEF Settled
<1>2. ASSUME NEW c, NEW h, h \in Hook, Matches(c, h) PROVE Matches(c, h)'
  BY <1>2 DEF Matches, Fresh, BinaryOf, Expected
<1>3. ASSUME NEW c, NEW h \in Hook, NEW v, Prints(c, h, v) PROVE Prints(c, h, v)'
  <2>1. BinaryOf(c, h) \in Binaries
    BY BinaryTypes
  <2> QED BY <1>3, <2>1 DEF Prints, Fresh, BinaryOf
<1>4. ListWell'
  <2> SUFFICES ASSUME NEW c \in AllCandidates, c.path \notin touched', Listed(c, world')
               PROVE  c \in listed
    BY DEF ListWell, AllCandidates
  <2>1. c.path \in Paths
    BY CandidateTypes
  <2>2. Listed(c, world) /\ c.path \notin touched
    BY <2>1 DEF Fresh, Listed
  <2> QED BY <1>1, <2>2 DEF Sight, ListWell
<1>5. ReadWell'
  <2> SUFFICES ASSUME report.ok, NEW i \in DOMAIN Candidates,
                      i < next, Candidates[i] \in listed, Candidates[i].path \notin touched'
               PROVE  /\ CleanFile(Candidates[i])'
                      /\ \A h \in HooksOf(Candidates[i])' :
                           Pending(i, h)' \/ Recorded(Candidates[i], h)'
    BY DEF ReadWell, ReadWellAt
  <2> DEFINE c == Candidates[i]
  <2>1. c \in AllCandidates /\ c.path \in Paths
    BY CandidateTypes
  <2>2. world'.files[c.path] = world.files[c.path] /\ c.path \notin touched
    BY <2>1 DEF Fresh
  <2>3. HooksOf(c)' = HooksOf(c)
    BY <2>2 DEF HooksOf, Recognized
  <2>4. world.files[c.path].hooks \subseteq Hook
    BY <2>1, BinaryTypes DEF DoctorTypeOK
  <2>5. CleanFile(c) /\ \A h \in HooksOf(c) : Pending(i, h) \/ Recorded(c, h)
    BY <1>1, <2>2 DEF Sight, ReadWell, ReadWellAt
  <2>6. ASSUME NEW h \in HooksOf(c) PROVE Pending(i, h)' \/ Recorded(c, h)'
    <3>1. h \in Hook
      BY <2>4 DEF HooksOf
    <3>2. CASE Pending(i, h)
      BY <1>2, <3>1, <3>2 DEF Pending
    <3>3. CASE Recorded(c, h)
      <4>1. PICK s \in report.surfaces :
              s.at = c /\ s.hook = h /\ ~Stale(s.version) /\ Prints(c, h, s.version)
        BY <3>3 DEF Recorded
      <4>2. Prints(c, h, s.version)' /\ Matches(c, h)' /\ ~Stale(s.version)'
        BY <1>2, <1>3, <3>1, <3>3, <4>1 DEF Recorded, Stale
      <4> QED BY <4>1, <4>2 DEF Recorded
    <3> QED BY <2>5, <3>2, <3>3
  <2>7. CleanFile(c)' = CleanFile(c)
    BY <2>2 DEF CleanFile, Suspect
  <2> HIDE DEF c
  <2> QED BY <2>3, <2>5, <2>6, <2>7 DEF c
<1>6. ProbeWell'
  <2> SUFFICES ASSUME step = "probe" PROVE Prints(at, surface.hook, probe.text)'
    BY DEF ProbeWell
  <2>1. surface.hook \in Hook
    BY DEF DoctorTypeOK
  <2>2. Prints(at, surface.hook, probe.text)
    BY <1>1 DEF Sight, ProbeWell
  <2>3. BinaryOf(at, surface.hook) \in Binaries
    BY <2>1, BinaryTypes
  <2>4. at' = at
    BY DEF at
  <2> QED BY <2>2, <2>3, <2>4 DEF Prints, Fresh, BinaryOf
<1>7. LatestWell'
  BY <1>1 DEF Sight, LatestWell, Fresh
<1>8. DoneWell'
  BY <1>1 DEF Sight, DoneWell
<1> QED BY <1>4, <1>5, <1>6, <1>7, <1>8

-----------------------------------------------------------------------------
(* Reading, inspecting and recording *)

\* The steps of the doctor and its probe change nothing of the world.
Untouched == UNCHANGED <<world, touched, opts>>

\* What matches, or prints, goes on doing so.
LEMMA StillMatches ==
  ASSUME Untouched, NEW c, NEW h, NEW v
  PROVE  Matches(c, h)' = Matches(c, h) /\ Prints(c, h, v)' = Prints(c, h, v)
         /\ HooksOf(c)' = HooksOf(c) /\ ListWell' = (\A k \in AllCandidates :
               k.path \notin touched /\ Listed(k, world) => k \in listed')
         /\ Stale(v)' = Stale(v) /\ CleanFile(c)' = CleanFile(c)
BY DEF Untouched, Matches, Prints, HooksOf, ListWell, Stale, BinaryOf, Expected, Recognized,
       AllCandidates, Listed, CleanFile, Suspect

\* What is recorded stays recorded.
LEMMA StillRecorded ==
  ASSUME Untouched, report.surfaces \subseteq report'.surfaces, NEW c, NEW h, Recorded(c, h)
  PROVE  Recorded(c, h)'
<1>1. PICK s \in report.surfaces :
        s.at = c /\ s.hook = h /\ ~Stale(s.version) /\ Prints(c, h, s.version)
  BY DEF Recorded
<1> DEFINE v == s.version
<1>2. Matches(c, h)' /\ Prints(c, h, v)' /\ ~Stale(v)'
  BY <1>1, StillMatches DEF Recorded
<1> QED BY <1>1, <1>2 DEF Recorded

\* Once the step is behind the list the doctor has listed its candidates.
LEMMA ListSight ==
  ASSUME DoctorTypeOK, Start, ListCandidates
  PROVE  Sight'
<1>1. step = "list" /\ exit = 3 /\ next = 1 /\ next' = 1 /\ Untouched
  BY NoExit DEF ListCandidates, Start, Untouched
<1>2. CASE world.registry = "bad"
  BY <1>2 DEF ListCandidates, Sight, Settled
<1>3. CASE world.registry # "bad"
  <2>1. step' = "files" /\ listed' = {c \in AllCandidates : Listed(c, world)} /\ exit' = 3
    BY <1>1, <1>3 DEF ListCandidates
  <2>2. ListWell'
    BY <1>1, <2>1, StillMatches
  <2>3. ReadWell'
    <3>1. \A i \in DOMAIN Candidates : ~(i < 1)
      BY CandidateTypes
    <3> QED BY <1>1, <3>1 DEF ReadWell, ReadWellAt
  <2> QED BY <2>1, <2>2, <2>3 DEF Sight, ProbeWell, LatestWell, DoneWell
<1> QED BY <1>2, <1>3

\* Reading the next file: the one before is done with, and of the next one all
\* hooks are pending.
LEMMA ReadFileSight ==
  ASSUME DoctorTypeOK, Sight, ReadFile
  PROVE  Sight'
<1> DEFINE c == Candidates[next]
           f == Contents(c)
<1>1. /\ step = "files" /\ step' = "files" /\ exit = 3 /\ exit' = 3 /\ Untouched /\ Settled
      /\ todo = {} /\ surface = NoSurface /\ surface' = surface
      /\ listed' = listed /\ next' = next + 1 /\ next \in DOMAIN Candidates
      /\ todo' = {h \in f.hooks : Recognized(c, h)}
  BY NoExit DEF ReadFile, Untouched, DoctorTypeOK, Settled
<1>2. report'.surfaces = report.surfaces /\ (report'.ok => report.ok /\ ~Faulty(c, f))
  <2>1. report' = [report EXCEPT !.ok = @ /\ ~Faulty(c, f), !.unreadable = @ \/ Bad(f)]
    BY DEF ReadFile
  <2>2. report \in [ok : BOOLEAN, unreadable : BOOLEAN, surfaces : SUBSET Surface]
    BY DEF DoctorTypeOK
  <2>3. Faulty(c, f) \in BOOLEAN /\ Bad(f) \in BOOLEAN
    BY DEF Faulty, Bad
  <2> HIDE DEF f
  <2> QED BY <2>1, <2>2, <2>3
<1>3. ListWell'
  BY <1>1, StillMatches DEF Sight, ListWell
<1>4. ASSUME NEW k, NEW h, Recorded(k, h) PROVE Recorded(k, h)'
  BY <1>1, <1>2, <1>4, StillRecorded
<1>5. ReadWell'
  <2> SUFFICES ASSUME report'.ok, NEW i \in DOMAIN Candidates, i < next + 1,
                      Candidates[i] \in listed, Candidates[i].path \notin touched
               PROVE  /\ CleanFile(Candidates[i])
                      /\ \A h \in HooksOf(Candidates[i]) :
                           Pending(i, h)' \/ Recorded(Candidates[i], h)'
    BY <1>1, StillMatches DEF ReadWell, ReadWellAt, Untouched
  <2>1. CASE i < next
    <3>1. CleanFile(Candidates[i])
          /\ \A h \in HooksOf(Candidates[i]) : Pending(i, h) \/ Recorded(Candidates[i], h)
      BY <1>1, <1>2, <2>1 DEF Sight, ReadWell, ReadWellAt
    <3>2. \A h : ~Pending(i, h)
      BY <1>1 DEF Pending
    <3> QED BY <1>4, <3>1, <3>2
  <2>2. CASE ~(i < next)
    <3>1. i = next /\ next' - 1 = i
      <4>1. i \in Nat /\ next \in Nat
        BY <1>1, CandidateTypes
      <4> QED BY <1>1, <2>2, <4>1
    <3>2. f = world.files[c.path] /\ c = Candidates[i]
      BY <3>1 DEF Contents
    <3>3. CleanFile(c)
      BY <1>2, <3>2 DEF CleanFile, Faulty, Bad
    <3>4. \A h \in HooksOf(c) : h \in todo'
      BY <1>1, <3>2 DEF HooksOf
    <3> QED BY <3>1, <3>2, <3>3, <3>4 DEF Pending
  <2> QED BY <2>1, <2>2
<1> QED BY <1>1, <1>3, <1>5 DEF Sight, ProbeWell, LatestWell, DoneWell

\* A hook that is taken up was pending, and stays so unless it does not match.
LEMMA InspectSight ==
  ASSUME DoctorTypeOK, Sight, Inspect
  PROVE  Sight'
<1>1. /\ step = "files" /\ step' = "stat" /\ exit = 3 /\ exit' = 3 /\ Untouched /\ Settled
      /\ surface = NoSurface /\ listed' = listed /\ next' = next /\ report' = report
  BY NoExit DEF Inspect, Untouched, DoctorTypeOK, Settled
<1>2. PICK h \in todo :
        /\ todo' = todo \ {h}
        /\ surface' =
             [hook  |-> h,
              drift |-> \/ ~h.harness
                        \/ BinaryOf(at, h) # Expected(at)
                        \/ at.kind = "codex-global" /\ ~world.trust]
  BY DEF Inspect
<1>3. surface' # NoSurface /\ surface'.hook = h /\ (surface'.drift \/ Matches(at, h))
  <2>1. h \in Hook
    BY DEF DoctorTypeOK
  <2>2. surface' # NoSurface
    BY <1>2, <2>1, HookTypes
  <2> QED BY <1>2, <2>2 DEF Matches
<1>4. ListWell'
  BY <1>1, StillMatches DEF Sight, ListWell
<1>5. ASSUME NEW k, NEW g, Recorded(k, g) PROVE Recorded(k, g)'
  BY <1>1, <1>5, StillRecorded
<1>6. ASSUME NEW i \in DOMAIN Candidates, NEW g, Pending(i, g) PROVE Pending(i, g)'
  <2>1. i = next - 1 /\ g \in todo /\ Candidates[i] = at
    BY <1>1, <1>6 DEF Pending, at
  <2>2. CASE g = h
    BY <1>1, <1>3, <2>1, <2>2, StillMatches DEF Pending
  <2>3. CASE g # h
    BY <1>1, <1>2, <2>1, <2>3 DEF Pending
  <2> QED BY <2>2, <2>3
<1>7. ReadWell'
  BY <1>1, <1>5, <1>6, StillMatches DEF Sight, ReadWell, ReadWellAt, Untouched
<1> QED BY <1>1, <1>4, <1>7 DEF Sight, ProbeWell, LatestWell, DoneWell

\* A surface that is recorded without drift, with what its binary prints, is
\* recorded for good.
LEMMA RecordSight ==
  ASSUME DoctorTypeOK, Sight, step \in {"stat", "probe"}, NEW d \in BOOLEAN,
         NEW v \in Text, Record(d, v),
         ~d => ~surface.drift /\ ~Stale(v) /\ Prints(at, surface.hook, v),
         UNCHANGED <<world, touched, opts, listed, next, todo, exit>>
  PROVE  Sight'
<1> DEFINE new == [at |-> at, hook |-> surface.hook, version |-> v]
<1>1. /\ step' = "files" /\ exit = 3 /\ exit' = 3 /\ Untouched /\ Settled
      /\ surface # NoSurface /\ surface' = NoSurface
  BY NoExit DEF Record, Untouched, DoctorTypeOK, Settled
<1>2. report'.surfaces = report.surfaces \cup {new} /\ (report'.ok => report.ok /\ ~d)
  <2>1. report' = [report EXCEPT !.ok = @ /\ ~d, !.surfaces = @ \cup {new}]
    BY DEF Record
  <2>2. report \in [ok : BOOLEAN, unreadable : BOOLEAN, surfaces : SUBSET Surface]
    BY DEF DoctorTypeOK
  <2> HIDE DEF new
  <2> QED BY <2>1, <2>2
<1>3. new.at = at /\ new.hook = surface.hook /\ new.version = v
  OBVIOUS
<1> HIDE DEF new
<1>4. ListWell'
  BY <1>1, StillMatches DEF Sight, ListWell
<1>5. ASSUME NEW k, NEW g, Recorded(k, g) PROVE Recorded(k, g)'
  BY <1>1, <1>2, <1>5, StillRecorded
<1>6. ASSUME report'.ok, NEW i \in DOMAIN Candidates, NEW g, Pending(i, g)
      PROVE  Pending(i, g)' \/ Recorded(Candidates[i], g)'
  <2>1. i = next - 1 /\ Candidates[i] = at
    BY <1>6 DEF Pending, at
  <2>2. CASE g \in todo
    BY <2>1, <2>2 DEF Pending
  <2>3. CASE surface.hook = g /\ Matches(at, g)
    <3> DEFINE c == Candidates[i]
    <3>1. ~Stale(v) /\ Prints(c, g, v) /\ Matches(c, g)
      BY <1>2, <1>6, <2>1, <2>3
    <3> HIDE DEF c
    <3>2. Matches(c, g)' /\ Prints(c, g, v)' /\ ~Stale(v)'
      BY <1>1, <3>1, StillMatches
    <3>3. new \in report'.surfaces /\ new.at = c /\ new.hook = g /\ new.version = v
      BY <1>2, <1>3, <2>1, <2>3 DEF c
    <3>4. Recorded(c, g)'
      BY <3>2, <3>3 DEF Recorded
    <3> QED BY <3>4 DEF c
  <2> QED BY <1>2, <1>6, <2>1, <2>2, <2>3 DEF Pending
<1>7. ReadWell'
  <2> SUFFICES ASSUME report'.ok, NEW i \in DOMAIN Candidates, i < next,
                      Candidates[i] \in listed, Candidates[i].path \notin touched
               PROVE  /\ CleanFile(Candidates[i])
                      /\ \A h \in HooksOf(Candidates[i]) :
                           Pending(i, h)' \/ Recorded(Candidates[i], h)'
    BY <1>1, StillMatches DEF ReadWell, ReadWellAt, Untouched
  <2>1. CleanFile(Candidates[i])
        /\ \A h \in HooksOf(Candidates[i]) : Pending(i, h) \/ Recorded(Candidates[i], h)
    BY <1>1, <1>2 DEF Sight, ReadWell, ReadWellAt
  <2> QED BY <1>5, <1>6, <2>1
<1>8. ProbeWell' /\ LatestWell' /\ DoneWell'
  <2>1. exit' # 0
    BY <1>1
  <2> QED BY <1>1, <2>1, Zenon DEF ProbeWell, LatestWell, DoneWell
<1> QED BY <1>4, <1>7, <1>8 DEF Sight

\* No text at all is a text, and differs from a missing binary.
LEMMA TextTypes ==
  /\ "" \in Text /\ Missing \notin Text
  /\ \A v \in Versions \cup {"", Missing} : v # Missing => v \in Text
BY VersionsAssumption, Zenon DEF Text, Missing

\* What leaves the reading and the report alone keeps what is known of them.
LEMMA ReadingFrame ==
  ASSUME Sight, Settled, Untouched, UNCHANGED <<listed, next, todo, surface, report>>
  PROVE  ListWell' /\ ReadWell'
<1>1. ListWell'
  BY StillMatches DEF Sight, ListWell
<1>2. ASSUME NEW k, NEW g, Recorded(k, g) PROVE Recorded(k, g)'
  BY <1>2, StillRecorded
<1>3. ASSUME NEW i, NEW g, Pending(i, g) PROVE Pending(i, g)'
  BY <1>3, StillMatches DEF Pending
<1>4. ReadWell'
  BY <1>2, <1>3, StillMatches DEF Sight, ReadWell, ReadWellAt, Untouched
<1> QED BY <1>1, <1>4

\* A missing binary is drift, and any other is asked what it prints.
LEMMA StatSight ==
  ASSUME DoctorTypeOK, Sight, Stat
  PROVE  Sight'
<1> DEFINE printed == world.binaries[BinaryOf(at, surface.hook)]
<1>1. /\ step = "stat" /\ Settled /\ exit = 3 /\ exit' = 3 /\ Untouched
      /\ UNCHANGED <<world, touched, opts, listed, next, todo, exit>>
  BY NoExit DEF Stat, Untouched, Settled
<1>2. CASE printed = Missing
  <2>1. Record(TRUE, "")
    BY <1>2 DEF Stat
  <2> QED BY <1>1, <2>1, RecordSight, TextTypes
<1>3. CASE printed # Missing
  <2>1. /\ step' = "probe" /\ UNCHANGED <<surface, report>>
        /\ probe' = [NoProbe EXCEPT !.state = "running", !.text = printed]
    BY <1>3 DEF Stat
  <2>2. probe'.text = printed
    <3> HIDE DEF printed
    <3> QED BY <2>1 DEF NoProbe
  <2>3. printed \in Text
    <3>1. surface.hook \in Hook /\ world \in World
      BY <1>1 DEF DoctorTypeOK
    <3>2. BinaryOf(at, surface.hook) \in Binaries
      BY <3>1, BinaryTypes
    <3>3. printed \in Versions \cup {"", Missing}
      BY <3>1, <3>2, BinaryTypes
    <3> QED BY <1>3, <3>3, TextTypes
  <2>4. Prints(at, surface.hook, printed)
    BY <2>3 DEF Prints
  <2>5. at' = at
    BY <1>1 DEF at
  <2> HIDE DEF printed
  <2>6. ProbeWell'
    BY <1>1, <2>1, <2>2, <2>4, <2>5, StillMatches DEF ProbeWell
  <2>7. ListWell' /\ ReadWell'
    BY <1>1, <2>1, ReadingFrame
  <2>8. exit' # 0
    BY <1>1
  <2>9. LatestWell' /\ DoneWell'
    BY <2>1, <2>8, Zenon DEF LatestWell, DoneWell
  <2> QED BY <2>6, <2>7, <2>9 DEF Sight
<1> QED BY <1>2, <1>3

\* The child goes on without a word more.
LEMMA ProbeSight ==
  ASSUME DoctorTypeOK, Sight, ProbeExits \/ ProbeDeadline \/ ProbeReleased
  PROVE  Sight'
<1>1. /\ step = "probe" /\ step' = "probe" /\ Settled /\ exit = 3 /\ exit' = 3 /\ Untouched
      /\ UNCHANGED <<world, touched, opts, listed, next, todo, surface, report>>
  BY NoExit DEF ProbeExits, ProbeDeadline, ProbeReleased, UnchangedByProbe, Untouched, Settled,
                report_vars
<1>2. probe'.text = probe.text
  <2>1. probe \in [state : {"none", "running", "ok", "failed", "killed"},
                   text : Text, held : BOOLEAN, late : BOOLEAN]
    BY DEF DoctorTypeOK, Text
  <2> QED BY <2>1 DEF ProbeExits, ProbeDeadline, ProbeReleased
<1>3. at' = at
  BY <1>1 DEF at
<1>4. Prints(at, surface.hook, probe.text)
  BY <1>1 DEF Sight, ProbeWell
<1>5. ProbeWell'
  BY <1>1, <1>2, <1>3, <1>4, StillMatches DEF ProbeWell
<1>6. exit' # 0
  BY <1>1
<1>7. LatestWell' /\ DoneWell'
  BY <1>1, <1>6, Zenon DEF LatestWell, DoneWell
<1> QED BY <1>1, <1>5, <1>7, ReadingFrame DEF Sight

\* The probe ends with what the binary prints, or with drift.
LEMMA ProbeEndSight ==
  ASSUME DoctorTypeOK, Sight, step = "probe", NEW waited \in BOOLEAN, ProbeEnds(waited)
  PROVE  Sight'
<1>1. UNCHANGED <<world, touched, opts, listed, next, todo, exit>> /\ Settled
  BY DEF ProbeEnds, Settled
<1>2. CASE Record(TRUE, "")
  BY <1>1, <1>2, RecordSight, TextTypes
<1>3. CASE Record(surface.drift \/ Stale(probe.text), probe.text)
  <2>1. surface.drift \in BOOLEAN
    BY DEF DoctorTypeOK
  <2>2. Prints(at, surface.hook, probe.text) /\ probe.text \in Text
    BY <1>1 DEF Sight, ProbeWell, Prints
  <2>3. Stale(probe.text) \in BOOLEAN
    BY DEF Stale
  <2> DEFINE d == surface.drift \/ Stale(probe.text)
  <2>4. d \in BOOLEAN /\ (~d => ~surface.drift /\ ~Stale(probe.text)) /\ Record(d, probe.text)
    BY <1>3, <2>1, <2>3
  <2> HIDE DEF d
  <2> QED BY <1>1, <2>2, <2>4, RecordSight
<1> QED BY <1>2, <1>3 DEF ProbeEnds

\* Counting the surfaces leaves the report as it is, or worse.
LEMMA CountSight ==
  ASSUME DoctorTypeOK, Sight, CountSurfaces
  PROVE  Sight'
<1>1. /\ step = "files" /\ todo = {} /\ next \notin DOMAIN Candidates /\ Settled /\ exit = 3
      /\ step' = IF opts.latest THEN "latest" ELSE "write"
      /\ UNCHANGED <<world, touched, opts, listed, next, todo, surface, exit>> /\ Untouched
  BY NoExit DEF CountSurfaces, Settled, Untouched
<1>2. report'.surfaces = report.surfaces /\ (report'.ok => report.ok)
  BY DEF CountSurfaces, DoctorTypeOK
<1>3. ListWell'
  BY <1>1, StillMatches DEF Sight, ListWell
<1>4. ASSUME NEW k, NEW g, Recorded(k, g) PROVE Recorded(k, g)'
  BY <1>1, <1>2, <1>4, StillRecorded
<1>5. ASSUME NEW i, NEW g, Pending(i, g) PROVE Pending(i, g)'
  BY <1>1, <1>5, StillMatches DEF Pending
<1>6. ReadWell'
  BY <1>1, <1>2, <1>4, <1>5, StillMatches DEF Sight, ReadWell, ReadWellAt, Untouched
<1>7. exit' # 0 /\ step' # "probe" /\ (step' = "write" => ~opts.latest)
  BY <1>1
<1>8. ProbeWell' /\ LatestWell' /\ DoneWell'
  BY <1>1, <1>7, Zenon DEF ProbeWell, LatestWell, DoneWell
<1> QED BY <1>3, <1>6, <1>8 DEF Sight

\* The comparison with the latest release holds for every surface, or fails
\* the report.
LEMMA LatestSight ==
  ASSUME DoctorTypeOK, Sight, CheckLatest
  PROVE  Sight'
<1>1. /\ step = "latest" /\ step' = "write" /\ Settled /\ exit = 3
      /\ UNCHANGED <<world, touched, opts, listed, next, todo, surface, exit>> /\ Untouched
  BY NoExit DEF CheckLatest, Settled, Untouched
<1>2. /\ report'.surfaces = report.surfaces /\ (report'.ok => report.ok)
      /\ report'.ok => \A s \in report.surfaces : Current(s, world.published)
  <2>1. PICK answered \in BOOLEAN :
          report' = [report EXCEPT
            !.ok = @ /\ answered /\ report.surfaces # {}
                     /\ \A s \in report.surfaces : Current(s, world.published)]
    BY DEF CheckLatest
  <2>2. report \in [ok : BOOLEAN, unreadable : BOOLEAN, surfaces : SUBSET Surface]
    BY DEF DoctorTypeOK
  <2> DEFINE all == \A s \in report.surfaces : Current(s, world.published)
  <2>3. all \in BOOLEAN /\ report' = [report EXCEPT
            !.ok = @ /\ answered /\ report.surfaces # {} /\ all]
    BY <2>1
  <2>4. report'.surfaces = report.surfaces /\ (report'.ok => report.ok /\ all)
    <3> HIDE DEF all
    <3> QED BY <2>2, <2>3
  <2> QED BY <2>4
<1>3. ListWell'
  BY <1>1, StillMatches DEF Sight, ListWell
<1>4. ASSUME NEW k, NEW g, Recorded(k, g) PROVE Recorded(k, g)'
  BY <1>1, <1>2, <1>4, StillRecorded
<1>5. ASSUME NEW i, NEW g, Pending(i, g) PROVE Pending(i, g)'
  BY <1>1, <1>5, StillMatches DEF Pending
<1>6. ReadWell'
  BY <1>1, <1>2, <1>4, <1>5, StillMatches DEF Sight, ReadWell, ReadWellAt, Untouched
<1>7. exit' # 0
  BY <1>1
<1>8. LatestWell'
  BY <1>1, <1>2, Zenon DEF LatestWell, Current
<1>9. ProbeWell' /\ DoneWell'
  <2>1. next \notin DOMAIN Candidates /\ todo = {}
    BY <1>1 DEF Sight, DoneWell
  <2> QED BY <1>1, <1>7, <2>1 DEF ProbeWell, DoneWell
<1> QED BY <1>3, <1>6, <1>8, <1>9 DEF Sight

\* Exit code 0 is written of an ok report only.
LEMMA WriteSight ==
  ASSUME DoctorTypeOK, Sight, Write
  PROVE  Sight'
<1> SUFFICES ASSUME Settled' PROVE ListWell' /\ ReadWell' /\ ProbeWell' /\ LatestWell' /\ DoneWell'
  BY DEF Sight
<1>1. /\ step = "write" /\ step' = "ended" /\ Settled /\ exit = 3
      /\ UNCHANGED <<world, touched, opts, listed, next, todo, surface, report>> /\ Untouched
  BY NoExit DEF Write, Settled, Untouched
<1>2. exit' = 0
  BY <1>1 DEF Settled
<1>3. report.ok
  BY <1>2 DEF Write
<1>4. ListWell' /\ ReadWell'
  BY <1>1, ReadingFrame
<1>5. LatestWell /\ next \notin DOMAIN Candidates /\ todo = {}
  BY <1>1 DEF Sight, DoneWell
<1>6. LatestWell'
  BY <1>1, <1>5, Zenon DEF LatestWell
<1>7. ProbeWell' /\ DoneWell'
  BY <1>1, <1>3, <1>5 DEF ProbeWell, DoneWell
<1> QED BY <1>4, <1>6, <1>7

-----------------------------------------------------------------------------
(* The invariant, for a doctor on its own and for one that is a child *)

\* Nothing of the doctor moves.
LEMMA SightFrame ==
  ASSUME Sight, Start, UNCHANGED dvars
  PROVE  Sight' /\ Start'
<1>1. Start'
  BY DEF Start, dvars, doctor_vars
<1>2. ASSUME Settled' PROVE ListWell' /\ ReadWell' /\ ProbeWell' /\ LatestWell' /\ DoneWell'
  <2>1. Settled /\ Untouched /\ UNCHANGED <<step, listed, next, todo, surface, probe, report, exit>>
    BY <1>2 DEF Settled, Untouched, dvars, doctor_vars
  <2>2. ListWell' /\ ReadWell'
    BY <2>1, ReadingFrame
  <2>3. Prints(at, surface.hook, probe.text)' = Prints(at, surface.hook, probe.text)
    BY <2>1, Zenon DEF Prints, at, BinaryOf, Untouched
  <2>4. ProbeWell'
    BY <2>1, <2>3 DEF Sight, ProbeWell
  <2>5. LatestWell /\ DoneWell
    BY <2>1 DEF Sight
  <2>6. LatestWell' /\ DoneWell'
    BY <2>1, <2>5, Zenon DEF LatestWell, DoneWell, Untouched
  <2> QED BY <2>2, <2>4, <2>6
<1> QED BY <1>1, <1>2 DEF Sight

\* Steps of the doctor, of its probe and of the world.
LEMMA DoctorSight ==
  ASSUME DoctorTypeOK, Sight, Start, DoctorNext
  PROVE  Sight' /\ Start'
<1>1. CASE Changes
  <2>1. Sight'
    BY <1>1, ChangesFresh, FreshSight
  <2>2. Start'
    BY <1>1, ChangesFresh DEF Start, doctor_vars
  <2> QED BY <2>1, <2>2
<1>2. CASE DoctorStep \/ ProbeWaits \/ ProbeChild
  <2>1. Start'
    <3>1. step' \notin {"idle", "list"}
      BY <1>2 DEF DoctorStep, ListCandidates, ReadFile, Inspect, Stat, Record, CountSurfaces, CheckLatest,
                  Write, ProbeWaits, ProbeDeadline, ProbeDrained, ProbeCutOff, ProbeEnds, ProbeChild,
                  ProbeExits, ProbeReleased, UnchangedByProbe
    <3> QED BY <3>1 DEF Start
  <2>2. CASE DoctorStep
    BY <2>1, <2>2, ListSight, ReadFileSight, InspectSight, StatSight, CountSight, LatestSight, WriteSight
       DEF DoctorStep
  <2>3. CASE ProbeExits \/ ProbeDeadline \/ ProbeReleased
    BY <2>1, <2>3, ProbeSight
  <2>4. CASE ProbeDrained \/ ProbeCutOff
    <3>1. step = "probe" /\ \E waited \in BOOLEAN : ProbeEnds(waited)
      BY <2>4 DEF ProbeDrained, ProbeCutOff
    <3> QED BY <2>1, <3>1, ProbeEndSight
  <2> QED BY <1>2, <2>1, <2>2, <2>3, <2>4 DEF ProbeWaits, ProbeChild
<1> QED BY <1>1, <1>2 DEF DoctorNext

\* The verifier starts and kills the doctor, and otherwise leaves it alone.
LEMMA VerifierSight ==
  ASSUME VInv, Sight, Start, VerifyStep \/ CommandExits \/ CommandReleased \/ Deadline
  PROVE  Sight' /\ Start'
<1>1. CASE UNCHANGED dvars
  BY <1>1, SightFrame
<1>2. CASE StartCommand /\ ~UNCHANGED dvars
  <2>1. /\ vstep = "doctor" /\ command.state = "none" /\ step' = "list"
        /\ UNCHANGED <<next, exit>>
    BY <1>2 DEF StartCommand, Conclude, dvars, doctor_vars
  <2>2. step = "idle"
    BY <2>1 DEF VInv, ChildAt
  <2>3. exit = 3 /\ next = 1
    BY <2>2, NoExit DEF VInv, TypeOK, Start
  <2> QED BY <2>1, <2>3 DEF Sight, Settled, Start
<1>3. CASE Deadline /\ ~UNCHANGED dvars
  <2>1. step # "ended" /\ KillDoctor
    BY <1>3 DEF Deadline
  <2>2. step' = "killed" /\ exit' = 3
    BY <2>1, NoExit DEF VInv, TypeOK, KillDoctor
  <2> QED BY <2>2 DEF Sight, Settled, Start
<1> QED BY <1>1, <1>2, <1>3
    DEF VerifyStep, EarlyCheck, DoctorExits, CommandEnds, Report, CommandExits, CommandReleased

\* What is known of the unchanged parts is so in every reachable state.
LEMMA SightInvariant == Spec => [](VInv /\ Sight /\ Start)
<1>1. Init => Sight /\ Start
  BY DEF Init, DoctorInit, Sight, Settled, Start
<1>2. VInv /\ Sight /\ Start /\ [Next]_vars => (Sight /\ Start)'
  <2> SUFFICES ASSUME VInv, Sight, Start, [Next]_vars PROVE (Sight /\ Start)'
    OBVIOUS
  <2>1. DoctorTypeOK
    BY DEF VInv, TypeOK
  <2>2. CASE UNCHANGED vars
    BY <2>2, SightFrame DEF vars
  <2>3. CASE DoctorNext \/ Changes
    BY <2>1, <2>3, DoctorSight DEF DoctorNext
  <2>4. CASE VerifyStep \/ CommandExits \/ CommandReleased \/ Deadline
    BY <2>4, VerifierSight
  <2> QED BY <2>2, <2>3, <2>4 DEF Next
<1> QED BY <1>1, <1>2, VerifyInvariant, PTL DEF Spec

\* Exit 0 of the doctor means that every hook file that did not change is
\* readable and that every gatekeeper hook in it is right.
THEOREM DoctorPassMeansSoundHolds == Spec => []DoctorPassMeansSound
<1>1. ASSUME VInv, Sight, exit = 0,
             NEW c \in Found, c.path \notin touched
      PROVE  CleanFile(c) /\ \A h \in HooksOf(c) : SoundHook(c, h)
  <2>1. DoctorTypeOK /\ step = "ended" /\ surface = NoSurface
    <3>1. DoctorTypeOK
      BY <1>1 DEF VInv, TypeOK
    <3>2. step = "ended"
      <4>1. exit # 3
        BY <1>1
      <4> QED BY <3>1, <4>1, Zenon DEF DoctorTypeOK
    <3>3. surface = NoSurface
      BY <3>1, <3>2, Zenon DEF DoctorTypeOK
    <3> QED BY <3>1, <3>2, <3>3
  <2>2. ListWell /\ ReadWell /\ LatestWell /\ report.ok /\ next \notin DOMAIN Candidates /\ todo = {}
    BY <1>1 DEF Sight, Settled, DoneWell
  <2>3. c \in listed
    BY <1>1, <2>2 DEF ListWell, Found
  <2>4. PICK i \in DOMAIN Candidates : c = Candidates[i]
    BY <1>1 DEF Found, AllCandidates
  <2>5. i < next
    <3>1. next \in 1..(Len(Candidates) + 1)
      BY <2>1 DEF DoctorTypeOK
    <3> QED BY <2>2, <3>1, CandidateTypes
  <2>6. CleanFile(c) /\ \A h \in HooksOf(c) : Pending(i, h) \/ Recorded(c, h)
    BY <1>1, <2>2, <2>3, <2>4, <2>5 DEF ReadWell, ReadWellAt
  <2>7. ASSUME NEW h \in HooksOf(c) PROVE SoundHook(c, h)
    <3>1. Recorded(c, h)
      BY <2>1, <2>2, <2>6 DEF Pending
    <3>2. PICK s \in report.surfaces :
            s.at = c /\ s.hook = h /\ ~Stale(s.version) /\ Prints(c, h, s.version)
      BY <3>1 DEF Recorded
    <3>3. opts.latest =>
            /\ "published" \notin touched => s.version = world.published
            /\ s.at.kind = "claude-plugin" /\ opts.pluginDir # "" => s.version = opts.pluginDir
      BY <1>1, <2>2, <3>2, Zenon DEF LatestWell
    <3>4. s.version # Missing
      BY <3>2, TextTypes, Zenon DEF Prints
    <3> QED BY <3>1, <3>2, <3>3, <3>4, Zenon DEF Recorded, Matches, Prints, Stale, SoundHook
  <2> QED BY <2>6, <2>7
<1>2. VInv /\ Sight => DoctorPassMeansSound
  BY <1>1 DEF DoctorPassMeansSound
<1> QED BY <1>2, SightInvariant, PTL
-----------------------------------------------------------------------------
(* The exit code of an undisturbed doctor *)

\* The doctor has listed its candidates and was not killed.
Reading ==
  step \in {"files", "stat", "probe", "latest", "write"} \/ (step = "ended" /\ world.registry # "bad")

\* The doctor is past its files.
Counted == step \in {"latest", "write", "ended"}

\* What a surface of a hook shows of its binary.
Shown(c, h) ==
  IF world.binaries[BinaryOf(c, h)] = Missing THEN "" ELSE world.binaries[BinaryOf(c, h)]

\* A hook that is there, of a file that was listed.
Live(c, h) == c \in listed /\ h \in HooksOf(c)

\* What is in hand is a hook of the file, and what is said of it is so.
InHand ==
  /\ \A h \in todo : Live(at, h)
  /\ surface # NoSurface => /\ Live(at, surface.hook)
                            /\ surface.drift <=> ~Matches(at, surface.hook)
  /\ step = "probe" => probe.text = world.binaries[BinaryOf(at, surface.hook)]

\* The files read so far, and what is in the report.
Read == {i \in DOMAIN Candidates : i < next /\ Candidates[i] \in listed}
InReport(c, h) == \E s \in report.surfaces : s.at = c /\ s.hook = h

\* Every hook of the files read so far is in hand or in the report, and what is
\* in the report is there.
HeldAt(i, h) == i = next - 1 /\ (h \in todo \/ (surface # NoSurface /\ surface.hook = h))
NoneLost ==
  \A i \in Read : \A h \in HooksOf(Candidates[i]) : HeldAt(i, h) \/ InReport(Candidates[i], h)
NoneInvented ==
  \A s \in report.surfaces : Live(s.at, s.hook) /\ s.version = Shown(s.at, s.hook)

\* Nothing is wrong with any hook file or hook.
HooksSound == \A c \in Found : CleanFile(c) /\ \A h \in HooksOf(c) : SoundHook(c, h)

\* There are as many surfaces as were asked for.
Enough ==
  /\ Cardinality(report.surfaces) >= opts.min
  /\ opts.latest /\ step # "latest" => report.surfaces # {}

\* The report fails for a reason only, and for every reason.
Blamed ==
  /\ ~report.ok /\ HooksSound => Counted /\ ~Enough
  /\ Counted /\ report.ok => Enough
Coded ==
  /\ report.unreadable <=> \E i \in Read : Bad(world.files[Candidates[i].path])
  /\ step = "ended" => exit = IF report.unreadable THEN 2 ELSE IF report.ok THEN 0 ELSE 1

\* What the report of an undisturbed doctor says.
Account ==
  /\ listed = Found
  /\ InHand /\ NoneLost /\ NoneInvented /\ Blamed /\ Coded
  /\ Counted => next \notin DOMAIN Candidates /\ todo = {}
  /\ step = "latest" => opts.latest

EmptyReport == [ok |-> TRUE, unreadable |-> FALSE, surfaces |-> {}]
Undisturbed == touched = {} /\ ~trouble

Exact ==
  /\ step \in {"idle", "list"} => report = EmptyReport
  /\ step \notin {"idle", "list", "ended", "killed"} => world.registry # "bad"
  /\ Undisturbed /\ Reading => Account
  /\ step = "ended" /\ world.registry = "bad" => exit = 2
  /\ IsFiniteSet(report.surfaces)
  /\ (report.ok /\ step # "ended") \/ exit = 0 => ~trouble

\* What depends on the world and the options only.
LEMMA SameWorld ==
  ASSUME Untouched, NEW c, NEW h, NEW v
  PROVE  /\ Found' = Found /\ HooksSound' = HooksSound
         /\ Shown(c, h)' = Shown(c, h) /\ SoundHook(c, h)' = SoundHook(c, h)
         /\ HooksOf(c)' = HooksOf(c) /\ Matches(c, h)' = Matches(c, h) /\ Stale(v)' = Stale(v)
<1>1. Found' = Found
  BY Zenon DEF Untouched, Found, AllCandidates, Listed
<1>2. ASSUME NEW k, NEW g PROVE SoundHook(k, g)' = SoundHook(k, g)
  <2>1. BinaryOf(k, g)' = BinaryOf(k, g) /\ Expected(k)' = Expected(k)
    BY Zenon DEF BinaryOf, Expected
  <2>2. world' = world /\ touched' = touched /\ opts' = opts
    BY DEF Untouched
  <2> QED BY <2>1, <2>2, Zenon DEF SoundHook
<1>3. \A k : HooksOf(k)' = HooksOf(k)
  BY Zenon DEF Untouched, HooksOf, Recognized
<1>4. world' = world
  BY DEF Untouched
<1>5. HooksSound' = HooksSound
  BY <1>1, <1>2, <1>3, <1>4, Zenon DEF HooksSound, CleanFile
<1>6. Shown(c, h)' = Shown(c, h)
  BY <1>4, Zenon DEF Shown, BinaryOf
<1>7. Matches(c, h)' = Matches(c, h) /\ Stale(v)' = Stale(v)
  BY StillMatches
<1> QED BY <1>1, <1>2, <1>3, <1>5, <1>6, <1>7

\* What a sound hook is, for a doctor that is not disturbed.
LEMMA SoundMeans ==
  ASSUME touched = {}, NEW c, NEW h, SoundHook(c, h)
  PROVE  /\ Matches(c, h) /\ world.binaries[BinaryOf(c, h)] # Missing
         /\ ~Stale(world.binaries[BinaryOf(c, h)])
         /\ opts.latest => \A s : s.at = c /\ s.version = Shown(c, h) => Current(s, world.published)
<1>1. BinaryOf(c, h) \notin touched /\ "trust" \notin touched /\ "published" \notin touched
  OBVIOUS
<1>2. Matches(c, h) /\ world.binaries[BinaryOf(c, h)] # Missing
  BY <1>1, Zenon DEF SoundHook, Matches
<1>3. ~Stale(world.binaries[BinaryOf(c, h)])
  BY <1>1, Zenon DEF SoundHook, Stale
<1>4. Shown(c, h) = world.binaries[BinaryOf(c, h)]
  BY <1>2, Zenon DEF Shown
<1>5. ASSUME opts.latest, NEW s, s.at = c, s.version = Shown(c, h)
      PROVE  Current(s, world.published)
  BY <1>1, <1>4, <1>5, Zenon DEF SoundHook, Current
<1> QED BY <1>2, <1>3, <1>5

\* The shape of the report.
LEMMA ReportTypes ==
  ASSUME DoctorTypeOK
  PROVE  report.ok \in BOOLEAN /\ report.unreadable \in BOOLEAN /\ trouble \in BOOLEAN
BY DEF DoctorTypeOK

\* A listing of a registry that can be read is what there is to find.
LEMMA ListExact ==
  ASSUME DoctorTypeOK, Start, Exact, ListCandidates
  PROVE  Exact'
<1>1. /\ step = "list" /\ exit = 3 /\ next = 1 /\ next' = 1 /\ Untouched
      /\ UNCHANGED <<todo, surface, probe, report, trouble>> /\ report = EmptyReport
  BY NoExit DEF ListCandidates, Start, Untouched, Exact
<1>2. /\ report.ok /\ ~report.unreadable /\ report.surfaces = {} /\ ~trouble
  BY <1>1 DEF Exact, EmptyReport
<1>3. todo = {} /\ surface = NoSurface
  <2>1. surface = NoSurface
    BY <1>1, Zenon DEF DoctorTypeOK
  <2>2. todo # {} => next > 1
    BY Zenon DEF DoctorTypeOK
  <2> QED BY <1>1, <2>1, <2>2
<1>4. CASE world.registry = "bad"
  <2>1. step' = "ended" /\ exit' = 2 /\ world'.registry = "bad"
    BY <1>1, <1>4 DEF ListCandidates, Untouched
  <2> QED BY <1>1, <1>2, <2>1 DEF Exact, Reading
<1>5. CASE world.registry # "bad"
  <2>1. step' = "files" /\ listed' = Found /\ exit' = 3 /\ world'.registry # "bad"
    BY <1>1, <1>5 DEF ListCandidates, Found, Untouched
  <2>2. Read' = {}
    <3>1. \A i \in DOMAIN Candidates : ~(i < 1)
      BY CandidateTypes
    <3> QED BY <1>1, <3>1 DEF Read
  <2>3. InHand' /\ NoneLost' /\ NoneInvented'
    BY <1>1, <1>2, <1>3, <2>1, <2>2 DEF InHand, NoneLost, NoneInvented
  <2>4. Blamed' /\ Coded'
    BY <1>1, <1>2, <2>1, <2>2 DEF Blamed, Coded, Counted
  <2>5. Account'
    BY <1>1, <2>1, <2>3, <2>4, SameWorld DEF Account, Counted
  <2> QED BY <1>1, <1>2, <2>1, <2>5 DEF Exact
<1> QED BY <1>4, <1>5

\* A file is read: its hooks are in hand, and it is blamed if it is faulty.
LEMMA ReadFileExact ==
  ASSUME DoctorTypeOK, Exact, ReadFile
  PROVE  Exact'
<1> DEFINE c == Candidates[next]
           f == Contents(c)
<1>1. /\ step = "files" /\ step' = "files" /\ exit = 3 /\ exit' = 3 /\ Untouched
      /\ todo = {} /\ surface = NoSurface /\ surface' = surface
      /\ UNCHANGED <<world, touched, opts, listed, probe, trouble>>
      /\ next' = next + 1 /\ next \in DOMAIN Candidates
      /\ todo' = {h \in f.hooks : Recognized(c, h)}
  BY NoExit DEF ReadFile, Untouched, DoctorTypeOK
<1>2. /\ report'.surfaces = report.surfaces
      /\ report'.ok <=> report.ok /\ ~Faulty(c, f)
      /\ report'.unreadable <=> report.unreadable \/ Bad(f)
  <2>1. report' = [report EXCEPT !.ok = @ /\ ~Faulty(c, f), !.unreadable = @ \/ Bad(f)]
    BY DEF ReadFile
  <2>2. report \in [ok : BOOLEAN, unreadable : BOOLEAN, surfaces : SUBSET Surface]
    BY DEF DoctorTypeOK
  <2>3. Faulty(c, f) \in BOOLEAN /\ Bad(f) \in BOOLEAN
    BY DEF Faulty, Bad
  <2> HIDE DEF f
  <2> QED BY <2>1, <2>2, <2>3
<1>3. ASSUME Undisturbed PROVE Account'
  <2>1. Account
    BY <1>1, <1>3 DEF Exact, Reading
  <2>2. at' = c /\ next' - 1 = next /\ next \in Nat
    <3>1. next \in Nat
      BY <1>1, CandidateTypes
    <3> QED BY <1>1, <3>1 DEF at
  <2>3. Read' = IF c \in listed THEN Read \cup {next} ELSE Read
    <3>1. \A i \in DOMAIN Candidates : i < next + 1 <=> (i < next \/ i = next)
      BY <2>2, CandidateTypes
    <3> QED BY <1>1, <3>1 DEF Read
  <2>4. f = IF c \in listed THEN world.files[c.path] ELSE NoFile
    BY DEF Contents
  <2>5. ~Faulty(c, NoFile) /\ ~Bad(NoFile) /\ NoFile.hooks = {}
    BY DEF NoFile, Faulty, Bad
  <2>6. InHand'
    <3>1. \A h \in todo' : c \in listed /\ h \in HooksOf(c)
      BY <1>1, <2>4, <2>5 DEF HooksOf
    <3> QED BY <1>1, <2>2, <3>1, SameWorld DEF InHand, Live
  <2>7. NoneLost'
    <3> SUFFICES ASSUME NEW i \in Read', NEW h \in HooksOf(Candidates[i])
                 PROVE  HeldAt(i, h)' \/ InReport(Candidates[i], h)'
      BY <1>1, SameWorld DEF NoneLost
    <3>1. CASE i \in Read
      <4>1. InReport(Candidates[i], h)
        BY <1>1, <2>1, <3>1 DEF Account, NoneLost, HeldAt
      <4> QED BY <1>2, <4>1 DEF InReport
    <3>2. CASE i = next /\ c \in listed
      <4>1. h \in todo'
        BY <1>1, <2>4, <3>2 DEF HooksOf
      <4> QED BY <2>2, <3>2, <4>1 DEF HeldAt
    <3> QED BY <2>3, <3>1, <3>2
  <2>8. NoneInvented'
    BY <1>1, <1>2, <2>1, SameWorld DEF Account, NoneInvented, Live
  <2>9. Blamed'
    <3>1. Faulty(c, f) => ~HooksSound
      <4>1. Faulty(c, f) => c \in Found /\ f = world.files[c.path]
        BY <2>1, <2>4, <2>5 DEF Account
      <4>2. Faulty(c, f) => ~CleanFile(c)
        BY <4>1 DEF Faulty, CleanFile, Bad
      <4> QED BY <4>1, <4>2 DEF HooksSound
    <3>2. HooksSound => report.ok
      BY <1>1, <2>1 DEF Account, Blamed, Counted
    <3>3. HooksSound' = HooksSound /\ ~Counted'
      BY <1>1, SameWorld DEF Counted
    <3> QED BY <1>2, <3>1, <3>2, <3>3 DEF Blamed
  <2>10. Coded'
    <3>1. report.unreadable <=> \E i \in Read : Bad(world.files[Candidates[i].path])
      BY <2>1 DEF Account, Coded
    <3>2. CASE c \in listed
      BY <1>1, <1>2, <2>3, <2>4, <3>1, <3>2 DEF Coded
    <3>3. CASE c \notin listed
      BY <1>1, <1>2, <2>3, <2>4, <2>5, <3>1, <3>3 DEF Coded
    <3> QED BY <3>2, <3>3
  <2>11. listed' = Found'
    BY <1>1, <2>1, SameWorld DEF Account
  <2> QED BY <1>1, <2>6, <2>7, <2>8, <2>9, <2>10, <2>11 DEF Account, Counted
<1>4. Undisturbed' => Account'
  BY <1>1, <1>3 DEF Undisturbed
<1>5. report'.ok => report.ok
  BY <1>2
<1> HIDE DEF f
<1> QED BY <1>1, <1>2, <1>4, <1>5 DEF Exact

\* A hook that is taken up is in hand, with what is wrong with it.
LEMMA InspectExact ==
  ASSUME DoctorTypeOK, Exact, Inspect
  PROVE  Exact'
<1>1. /\ step = "files" /\ step' = "stat" /\ exit = 3 /\ exit' = 3 /\ Untouched
      /\ surface = NoSurface
      /\ UNCHANGED <<world, touched, opts, listed, next, probe, report, trouble>>
  BY NoExit DEF Inspect, Untouched, DoctorTypeOK
<1>2. PICK h \in todo :
        /\ todo' = todo \ {h}
        /\ surface' =
             [hook  |-> h,
              drift |-> \/ ~h.harness
                        \/ BinaryOf(at, h) # Expected(at)
                        \/ at.kind = "codex-global" /\ ~world.trust]
  BY DEF Inspect
<1>3. surface' # NoSurface /\ surface'.hook = h
  <2>1. h \in Hook
    BY DEF DoctorTypeOK
  <2> QED BY <1>2, <2>1, HookTypes
<1>4. ASSUME Undisturbed PROVE Account'
  <2>1. Account
    BY <1>1, <1>4 DEF Exact, Reading
  <2>2. surface'.drift <=> ~Matches(at, h)
    <3>1. h.harness \in BOOLEAN
      BY HookTypes DEF DoctorTypeOK
    <3>2. "trust" \notin touched
      BY <1>4 DEF Undisturbed
    <3> QED BY <1>2, <3>1, <3>2 DEF Matches
  <2>3. at' = at /\ Read' = Read
    BY <1>1 DEF at, Read
  <2>4. InHand'
    BY <1>1, <1>2, <1>3, <2>1, <2>2, <2>3, SameWorld DEF Account, InHand, Live
  <2>5. NoneLost'
    <3> SUFFICES ASSUME NEW i \in Read, NEW g \in HooksOf(Candidates[i])
                 PROVE  HeldAt(i, g)' \/ InReport(Candidates[i], g)'
      BY <1>1, <2>3, SameWorld DEF NoneLost
    <3>1. HeldAt(i, g) \/ InReport(Candidates[i], g)
      BY <2>1 DEF Account, NoneLost
    <3> QED BY <1>1, <1>2, <1>3, <3>1 DEF HeldAt, InReport
  <2>6. NoneInvented'
    BY <1>1, <2>1, SameWorld DEF Account, NoneInvented, Live
  <2>7. Blamed' /\ Coded'
    BY <1>1, <2>1, <2>3, SameWorld DEF Account, Blamed, Coded, Counted
  <2>8. listed' = Found'
    BY <1>1, <2>1, SameWorld DEF Account
  <2> QED BY <1>1, <2>4, <2>5, <2>6, <2>7, <2>8 DEF Account, Counted
<1>5. Undisturbed' => Account'
  BY <1>1, <1>4 DEF Undisturbed
<1> QED BY <1>1, <1>5 DEF Exact

\* A surface that is recorded was in hand; the report stays ok unless there is
\* something wrong with it.
LEMMA RecordExact ==
  ASSUME DoctorTypeOK, Exact, step \in {"stat", "probe"}, NEW d \in BOOLEAN,
         NEW v \in Text, Record(d, v),
         Undisturbed' /\ Account => /\ v = Shown(at, surface.hook)
                                    /\ d => ~SoundHook(at, surface.hook),
         ~d => trouble' = trouble, trouble => trouble',
         UNCHANGED <<world, touched, opts, listed, next, todo, exit>>
  PROVE  Exact'
<1> DEFINE new == [at |-> at, hook |-> surface.hook, version |-> v]
<1>1. /\ step' = "files" /\ exit = 3 /\ exit' = 3 /\ Untouched
      /\ surface # NoSurface /\ surface' = NoSurface
  BY NoExit DEF Record, Untouched, DoctorTypeOK
<1>2. /\ report'.surfaces = report.surfaces \cup {new} /\ (report'.ok <=> report.ok /\ ~d)
      /\ report'.unreadable = report.unreadable
  <2>1. report' = [report EXCEPT !.ok = @ /\ ~d, !.surfaces = @ \cup {new}]
    BY DEF Record
  <2>2. report \in [ok : BOOLEAN, unreadable : BOOLEAN, surfaces : SUBSET Surface]
    BY DEF DoctorTypeOK
  <2> HIDE DEF new
  <2> QED BY <2>1, <2>2
<1>3. new.at = at /\ new.hook = surface.hook /\ new.version = v
  OBVIOUS
<1> HIDE DEF new
<1>4. ASSUME Undisturbed' PROVE Account'
  <2>1. Account /\ touched = {} /\ ~trouble
    BY <1>1, <1>4 DEF Exact, Reading, Undisturbed
  <2>2. v = Shown(at, surface.hook) /\ (d => ~SoundHook(at, surface.hook))
        /\ Live(at, surface.hook)
    BY <1>1, <1>4, <2>1 DEF Account, InHand
  <2>3. at' = at /\ Read' = Read
    BY <1>1 DEF at, Read
  <2>4. InHand'
    BY <1>1, <2>1, <2>3, SameWorld DEF Account, InHand, Live
  <2>5. NoneLost'
    <3> SUFFICES ASSUME NEW i \in Read, NEW g \in HooksOf(Candidates[i])
                 PROVE  HeldAt(i, g)' \/ InReport(Candidates[i], g)'
      BY <1>1, <2>3, SameWorld DEF NoneLost
    <3>1. HeldAt(i, g) \/ InReport(Candidates[i], g)
      BY <2>1 DEF Account, NoneLost
    <3>2. CASE i = next - 1 /\ surface.hook = g
      <4>1. new.at = Candidates[i] /\ new.hook = g /\ new \in report'.surfaces
        BY <1>2, <1>3, <3>2 DEF at
      <4> QED BY <4>1 DEF InReport
    <3>3. CASE InReport(Candidates[i], g) \/ (i = next - 1 /\ g \in todo)
      BY <1>2, <3>3 DEF InReport, HeldAt
    <3> QED BY <3>1, <3>2, <3>3 DEF HeldAt
  <2>6. NoneInvented'
    <3>1. \A s \in report'.surfaces : Live(s.at, s.hook) /\ s.version = Shown(s.at, s.hook)
      BY <1>2, <1>3, <2>1, <2>2 DEF Account, NoneInvented
    <3> QED BY <1>1, <3>1, SameWorld DEF NoneInvented, Live
  <2>7. Blamed'
    <3>1. HooksSound => report.ok
      BY <1>1, <2>1 DEF Account, Blamed, Counted
    <3>2. HooksSound => SoundHook(at, surface.hook)
      BY <2>1, <2>2 DEF Account, Live, HooksSound
    <3>3. HooksSound' = HooksSound /\ ~Counted'
      BY <1>1, SameWorld DEF Counted
    <3> QED BY <1>2, <2>2, <3>1, <3>2, <3>3 DEF Blamed
  <2>8. Coded'
    BY <1>1, <1>2, <2>1, <2>3 DEF Account, Coded
  <2>9. listed' = Found'
    BY <1>1, <2>1, SameWorld DEF Account
  <2> QED BY <1>1, <2>4, <2>5, <2>6, <2>7, <2>8, <2>9 DEF Account, Counted
<1>5. IsFiniteSet(report'.surfaces)
  BY <1>2, FS_AddElement DEF Exact
<1>6. report'.ok => ~trouble'
  BY <1>1, <1>2 DEF Exact
<1> QED BY <1>1, <1>4, <1>5, <1>6 DEF Exact

\* A missing binary is blamed, and any other is asked.
LEMMA StatExact ==
  ASSUME DoctorTypeOK, Exact, Stat
  PROVE  Exact'
<1> DEFINE printed == world.binaries[BinaryOf(at, surface.hook)]
<1>1. /\ step = "stat" /\ exit = 3 /\ exit' = 3 /\ Untouched
      /\ UNCHANGED <<world, touched, opts, listed, next, todo, trouble, exit>>
  BY NoExit DEF Stat, Untouched
<1>2. CASE printed = Missing
  <2>1. Record(TRUE, "")
    BY <1>2 DEF Stat
  <2>2. Shown(at, surface.hook) = ""
    BY <1>2, Zenon DEF Shown
  <2>3. touched = {} => ~SoundHook(at, surface.hook)
    BY <1>2, SoundMeans
  <2>4. Undisturbed' => touched = {}
    BY <1>1 DEF Undisturbed
  <2> QED BY <1>1, <2>1, <2>2, <2>3, <2>4, RecordExact, TextTypes
<1>3. CASE printed # Missing
  <2>1. /\ step' = "probe" /\ UNCHANGED <<surface, report>>
        /\ probe' = [NoProbe EXCEPT !.state = "running", !.text = printed]
    BY <1>3 DEF Stat
  <2>2. probe'.text = printed
    <3> HIDE DEF printed
    <3> QED BY <2>1 DEF NoProbe
  <2>3. ASSUME Undisturbed PROVE Account'
    <3>1. Account
      BY <1>1, <2>3 DEF Exact, Reading
    <3>2. at' = at /\ Read' = Read
      BY <1>1, <2>1 DEF at, Read
    <3>3. printed' = printed /\ BinaryOf(at, surface.hook)' = BinaryOf(at, surface.hook)
      BY <1>1, <2>1, <3>2 DEF BinaryOf
    <3>4. InHand'
      BY <1>1, <2>1, <2>2, <3>1, <3>2, <3>3, SameWorld DEF Account, InHand, Live
    <3>5. NoneLost' /\ NoneInvented'
      BY <1>1, <2>1, <3>1, <3>2, SameWorld
         DEF Account, NoneLost, NoneInvented, HeldAt, InReport, Live
    <3>6. Blamed' /\ Coded'
      BY <1>1, <2>1, <3>1, <3>2, SameWorld DEF Account, Blamed, Coded, Counted
    <3>7. listed' = Found'
      BY <1>1, <3>1, SameWorld DEF Account
    <3> QED BY <2>1, <3>4, <3>5, <3>6, <3>7 DEF Account, Counted
  <2>4. Undisturbed' => Account'
    BY <1>1, <2>3 DEF Undisturbed
  <2> QED BY <1>1, <2>1, <2>4 DEF Exact
<1> QED BY <1>2, <1>3

\* What happens to the child changes nothing of the report.
LEMMA ProbeExact ==
  ASSUME DoctorTypeOK, Exact, ProbeExits \/ ProbeDeadline \/ ProbeReleased
  PROVE  Exact'
<1>1. /\ step = "probe" /\ step' = "probe" /\ exit = 3 /\ exit' = 3 /\ Untouched
      /\ UNCHANGED <<world, touched, opts, listed, next, todo, surface, report, trouble>>
  BY NoExit DEF ProbeExits, ProbeDeadline, ProbeReleased, UnchangedByProbe, Untouched, report_vars
<1>2. probe'.text = probe.text
  <2>1. probe \in [state : {"none", "running", "ok", "failed", "killed"},
                   text : Text, held : BOOLEAN, late : BOOLEAN]
    BY DEF DoctorTypeOK, Text
  <2> QED BY <2>1 DEF ProbeExits, ProbeDeadline, ProbeReleased
<1>3. ASSUME Undisturbed PROVE Account'
  <2>1. Account
    BY <1>1, <1>3 DEF Exact, Reading
  <2>2. at' = at /\ Read' = Read /\ BinaryOf(at, surface.hook)' = BinaryOf(at, surface.hook)
    BY <1>1 DEF at, Read, BinaryOf
  <2>3. InHand'
    BY <1>1, <1>2, <2>1, <2>2, SameWorld DEF Account, InHand, Live
  <2>4. NoneLost' /\ NoneInvented'
    BY <1>1, <2>1, <2>2, SameWorld
       DEF Account, NoneLost, NoneInvented, HeldAt, InReport, Live
  <2>5. Blamed' /\ Coded'
    BY <1>1, <2>1, <2>2, SameWorld DEF Account, Blamed, Coded, Counted
  <2>6. listed' = Found'
    BY <1>1, <2>1, SameWorld DEF Account
  <2> QED BY <1>1, <2>3, <2>4, <2>5, <2>6 DEF Account, Counted
<1>4. Undisturbed' => Account'
  BY <1>1, <1>3 DEF Undisturbed
<1> QED BY <1>1, <1>4 DEF Exact

\* A probe that ends in order says what the binary prints, and any other is
\* trouble.
LEMMA ProbeEndExact ==
  ASSUME DoctorTypeOK, Exact, step = "probe", NEW waited \in BOOLEAN, ProbeEnds(waited)
  PROVE  Exact'
<1>1. UNCHANGED <<world, touched, opts, listed, next, todo, exit>>
  BY DEF ProbeEnds
<1>2. CASE Record(TRUE, "") /\ trouble' = TRUE
  BY <1>1, <1>2, RecordExact, TextTypes DEF Undisturbed
<1>3. CASE Record(surface.drift \/ Stale(probe.text), probe.text) /\ UNCHANGED trouble
  <2>1. surface.drift \in BOOLEAN /\ probe.text \in Text
    BY DEF DoctorTypeOK, Text
  <2>2. Stale(probe.text) \in BOOLEAN
    BY DEF Stale
  <2> DEFINE d == surface.drift \/ Stale(probe.text)
  <2>3. d \in BOOLEAN /\ Record(d, probe.text)
    BY <1>3, <2>1, <2>2
  <2>4. ASSUME Undisturbed', Account
        PROVE  probe.text = Shown(at, surface.hook) /\ (d => ~SoundHook(at, surface.hook))
    <3>1. touched = {} /\ surface # NoSurface
      BY <1>1, <2>4 DEF Undisturbed, DoctorTypeOK
    <3>2. probe.text = world.binaries[BinaryOf(at, surface.hook)]
          /\ (surface.drift <=> ~Matches(at, surface.hook))
      BY <2>4, <3>1 DEF Account, InHand
    <3>3. probe.text # Missing
      BY <2>1, TextTypes
    <3>4. probe.text = Shown(at, surface.hook)
      BY <3>2, <3>3, Zenon DEF Shown
    <3>5. d => ~SoundHook(at, surface.hook)
      BY <3>1, <3>2, SoundMeans
    <3> QED BY <3>4, <3>5
  <2> HIDE DEF d
  <2> QED BY <1>1, <1>3, <2>1, <2>3, <2>4, RecordExact
<1> QED BY <1>2, <1>3 DEF ProbeEnds

\* After the files what is in the report stays.
LEMMA ReportFrame ==
  ASSUME Account, Untouched, UNCHANGED <<listed, next, todo, surface>>,
         report'.surfaces = report.surfaces, step' # "probe"
  PROVE  InHand' /\ NoneLost' /\ NoneInvented' /\ listed' = Found' /\ Read' = Read
<1>1. at' = at /\ Read' = Read
  BY DEF at, Read
<1>2. InHand'
  BY <1>1, SameWorld DEF Account, InHand, Live
<1>3. NoneLost'
  BY <1>1, SameWorld DEF Account, NoneLost, HeldAt, InReport
<1>4. NoneInvented' /\ listed' = Found'
  BY SameWorld DEF Account, NoneInvented, Live
<1> QED BY <1>1, <1>2, <1>3, <1>4

\* Too few surfaces are a reason to fail, and so is none for the comparison.
LEMMA CountExact ==
  ASSUME DoctorTypeOK, Exact, CountSurfaces
  PROVE  Exact'
<1> DEFINE enough == Cardinality(report.surfaces) >= opts.min
<1>1. /\ step = "files" /\ todo = {} /\ next \notin DOMAIN Candidates /\ exit = 3 /\ exit' = 3
      /\ step' = (IF opts.latest THEN "latest" ELSE "write") /\ Untouched
      /\ UNCHANGED <<world, touched, opts, listed, next, todo, surface, probe, trouble, exit>>
  BY NoExit DEF CountSurfaces, Untouched
<1>2. /\ report'.surfaces = report.surfaces /\ (report'.ok <=> report.ok /\ enough)
      /\ report'.unreadable = report.unreadable
  <2>1. report' = [report EXCEPT !.ok = @ /\ enough]
    BY DEF CountSurfaces
  <2>2. report \in [ok : BOOLEAN, unreadable : BOOLEAN, surfaces : SUBSET Surface]
    BY DEF DoctorTypeOK
  <2>3. enough \in BOOLEAN
    OBVIOUS
  <2> HIDE DEF enough
  <2> QED BY <2>1, <2>2, <2>3
<1>3. ASSUME Undisturbed PROVE Account'
  <2>1. Account
    BY <1>1, <1>3 DEF Exact, Reading
  <2>2. InHand' /\ NoneLost' /\ NoneInvented' /\ listed' = Found' /\ Read' = Read
    BY <1>1, <1>2, <2>1, ReportFrame
  <2>4. Blamed'
    <3>1. HooksSound => report.ok
      BY <1>1, <2>1 DEF Account, Blamed, Counted
    <3>2. HooksSound' = HooksSound /\ Counted'
      BY <1>1, SameWorld DEF Counted
    <3>3. opts'.latest => step' = "latest"
      BY <1>1
    <3>4. Enough' <=> enough
      BY <1>1, <1>2, <3>3 DEF Enough
    <3> HIDE DEF enough
    <3> QED BY <1>2, <3>1, <3>2, <3>4 DEF Blamed
  <2>5. Coded'
    BY <1>1, <1>2, <2>1, <2>2 DEF Account, Coded
  <2> QED BY <1>1, <2>2, <2>4, <2>5 DEF Account
<1>4. Undisturbed' => Account'
  BY <1>1, <1>3 DEF Undisturbed
<1> HIDE DEF enough
<1> QED BY <1>1, <1>2, <1>4 DEF Exact

\* An answer of the endpoint is compared with what every surface shows.
LEMMA LatestExact ==
  ASSUME DoctorTypeOK, Exact, CheckLatest
  PROVE  Exact'
<1> DEFINE all == \A s \in report.surfaces : Current(s, world.published)
<1>1. /\ step = "latest" /\ step' = "write" /\ exit = 3 /\ exit' = 3 /\ Untouched
      /\ UNCHANGED <<world, touched, opts, listed, next, todo, surface, probe, exit>>
  BY NoExit DEF CheckLatest, Untouched
<1>2. PICK answered \in BOOLEAN :
        /\ report' = [report EXCEPT !.ok = @ /\ answered /\ report.surfaces # {} /\ all]
        /\ trouble' = (trouble \/ ~answered)
  BY DEF CheckLatest
<1>3. /\ report'.surfaces = report.surfaces /\ report'.unreadable = report.unreadable
      /\ report'.ok <=> report.ok /\ answered /\ report.surfaces # {} /\ all
  <2>1. report \in [ok : BOOLEAN, unreadable : BOOLEAN, surfaces : SUBSET Surface]
    BY DEF DoctorTypeOK
  <2>2. all \in BOOLEAN
    OBVIOUS
  <2> HIDE DEF all
  <2> QED BY <1>2, <2>1, <2>2
<1>4. ASSUME Undisturbed' PROVE Account'
  <2>1. Account /\ touched = {} /\ answered /\ opts.latest
    <3>1. ~trouble /\ answered /\ touched = {}
      BY <1>1, <1>2, <1>4, ReportTypes DEF Undisturbed
    <3> QED BY <1>1, <3>1 DEF Exact, Reading, Undisturbed, Account
  <2>2. InHand' /\ NoneLost' /\ NoneInvented' /\ listed' = Found' /\ Read' = Read
    BY <1>1, <1>3, <2>1, ReportFrame
  <2>4. HooksSound => all
    <3> SUFFICES ASSUME HooksSound, NEW s \in report.surfaces PROVE Current(s, world.published)
      OBVIOUS
    <3>1. s.at \in Found /\ s.hook \in HooksOf(s.at) /\ s.version = Shown(s.at, s.hook)
      BY <2>1 DEF Account, NoneInvented, Live
    <3>2. SoundHook(s.at, s.hook)
      BY <3>1 DEF HooksSound
    <3> QED BY <2>1, <3>1, <3>2, SoundMeans
  <2>5. Blamed'
    <3> DEFINE enough == Cardinality(report.surfaces) >= opts.min
    <3>1. (HooksSound => report.ok \/ ~enough) /\ (report.ok => enough)
      BY <1>1, <2>1 DEF Account, Blamed, Counted, Enough
    <3>2. HooksSound' = HooksSound /\ Counted' /\ (Enough' <=> enough /\ report.surfaces # {})
      BY <1>1, <1>3, <2>1, SameWorld DEF Counted, Enough
    <3> HIDE DEF enough, all
    <3> QED BY <1>3, <2>1, <2>4, <3>1, <3>2 DEF Blamed
  <2>6. Coded'
    BY <1>1, <1>3, <2>1, <2>2 DEF Account, Coded
  <2> QED BY <1>1, <2>1, <2>2, <2>5, <2>6 DEF Account, Counted
<1>5. report'.ok => ~trouble'
  BY <1>1, <1>2, <1>3 DEF Exact
<1> HIDE DEF all
<1> QED BY <1>1, <1>3, <1>4, <1>5 DEF Exact

\* The code is written of the report, or there is trouble.
LEMMA WriteExact ==
  ASSUME DoctorTypeOK, Exact, Write
  PROVE  Exact'
<1>1. /\ step = "write" /\ step' = "ended" /\ Untouched
      /\ UNCHANGED <<world, touched, opts, listed, next, todo, surface, probe, report>>
  BY DEF Write, Untouched
<1>2. \/ exit' = 2 /\ trouble' = TRUE
      \/ /\ exit' = IF report.unreadable THEN 2 ELSE IF report.ok THEN 0 ELSE 1
         /\ trouble' = trouble
  BY DEF Write
<1>3. ASSUME Undisturbed' PROVE Account'
  <2>1. Account /\ exit' = IF report.unreadable THEN 2 ELSE IF report.ok THEN 0 ELSE 1
    BY <1>1, <1>2, <1>3 DEF Exact, Reading, Undisturbed
  <2>2. InHand' /\ NoneLost' /\ NoneInvented' /\ listed' = Found' /\ Read' = Read
    BY <1>1, <2>1, ReportFrame
  <2>4. Blamed' /\ Coded'
    BY <1>1, <2>1, <2>2, SameWorld DEF Account, Blamed, Coded, Counted, Enough
  <2> QED BY <1>1, <2>1, <2>2, <2>4 DEF Account, Counted
<1>4. exit' = 0 => ~trouble'
  BY <1>1, <1>2 DEF Exact
<1> QED BY <1>1, <1>3, <1>4 DEF Exact

\* Steps of the doctor, of its probe and of the world.
LEMMA DoctorExact ==
  ASSUME DoctorTypeOK, Exact, Start, DoctorNext
  PROVE  Exact'
<1>1. CASE Changes
  <2>1. UNCHANGED doctor_vars /\ world'.registry = world.registry
    BY <1>1, ChangesFresh DEF Fresh
  <2>2. touched' # {} /\ step # "ended"
    BY <1>1 DEF Changes, EditFile, Upgrade, ChangeTrust, Publish, Change
  <2> QED BY <2>1, <2>2 DEF Exact, Undisturbed, doctor_vars
<1>2. CASE ProbeDrained \/ ProbeCutOff
  <2>1. step = "probe" /\ \E waited \in BOOLEAN : ProbeEnds(waited)
    BY <1>2 DEF ProbeDrained, ProbeCutOff
  <2> QED BY <2>1, ProbeEndExact
<1>3. CASE ProbeExits \/ ProbeDeadline \/ ProbeReleased
  BY <1>3, ProbeExact
<1>4. CASE DoctorStep
  BY <1>4, ListExact, ReadFileExact, InspectExact, StatExact, CountExact, LatestExact, WriteExact
     DEF DoctorStep
<1> QED BY <1>1, <1>2, <1>3, <1>4 DEF DoctorNext, ProbeWaits, ProbeChild

\* Nothing of the doctor moves.
LEMMA ExactFrame ==
  ASSUME Exact, UNCHANGED dvars
  PROVE  Exact'
<1>1. /\ Untouched
      /\ UNCHANGED <<world, touched, step, listed, next, todo, surface, probe, report, trouble, exit>>
  BY DEF dvars, doctor_vars, Untouched
<1>2. ASSUME Account PROVE Account'
  <2>1. at' = at /\ Read' = Read /\ BinaryOf(at, surface.hook)' = BinaryOf(at, surface.hook)
    BY <1>1 DEF at, Read, BinaryOf
  <2>2. InHand'
    BY <1>1, <1>2, <2>1, SameWorld DEF Account, InHand, Live
  <2>3. NoneLost'
    BY <1>1, <1>2, <2>1, SameWorld DEF Account, NoneLost, HeldAt, InReport
  <2>4. NoneInvented' /\ listed' = Found'
    BY <1>1, <1>2, SameWorld DEF Account, NoneInvented, Live
  <2>5. Blamed' /\ Coded'
    BY <1>1, <1>2, <2>1, SameWorld DEF Account, Blamed, Coded, Counted, Enough, Untouched
  <2> QED BY <1>1, <1>2, <2>2, <2>3, <2>4, <2>5 DEF Account, Counted, Untouched
<1> QED BY <1>1, <1>2 DEF Exact, Reading, Undisturbed

\* The verifier starts and kills the doctor, and otherwise leaves it alone.
LEMMA VerifierExact ==
  ASSUME VInv, Exact, VerifyStep \/ CommandExits \/ CommandReleased \/ Deadline
  PROVE  Exact'
<1>1. CASE UNCHANGED dvars
  BY <1>1, ExactFrame
<1>2. CASE StartCommand /\ ~UNCHANGED dvars
  <2>1. /\ vstep = "doctor" /\ command.state = "none" /\ step' = "list"
        /\ UNCHANGED <<report, trouble, exit>>
    BY <1>2 DEF StartCommand, Conclude, dvars, doctor_vars
  <2>2. step = "idle"
    BY <2>1 DEF VInv, ChildAt
  <2>3. exit = 3
    BY <2>2, NoExit DEF VInv, TypeOK
  <2> QED BY <2>1, <2>2, <2>3 DEF Exact, Reading
<1>3. CASE Deadline /\ ~UNCHANGED dvars
  <2>1. step # "ended" /\ KillDoctor
    BY <1>3 DEF Deadline
  <2>2. step' = "killed" /\ exit = 3 /\ exit' = 3 /\ UNCHANGED <<report, trouble>>
    BY <2>1, NoExit DEF VInv, TypeOK, KillDoctor
  <2> QED BY <2>1, <2>2 DEF Exact, Reading
<1> QED BY <1>1, <1>2, <1>3
    DEF VerifyStep, EarlyCheck, DoctorExits, CommandEnds, Report, CommandExits, CommandReleased

\* The account of an undisturbed doctor is right in every reachable state.
LEMMA ExactInvariant == Spec => [](VInv /\ Sight /\ Start /\ Exact)
<1>1. Init => Exact
  <2> SUFFICES ASSUME Init PROVE Exact
    OBVIOUS
  <2>1. report = EmptyReport /\ step \in {"idle", "list"} /\ ~trouble /\ exit = 3
    BY DEF Init, DoctorInit, EmptyReport
  <2>2. report.surfaces = {}
    BY <2>1 DEF EmptyReport
  <2> QED BY <2>1, <2>2, FS_EmptySet DEF Exact, Reading
<1>2. VInv /\ Start /\ Exact /\ [Next]_vars => Exact'
  <2> SUFFICES ASSUME VInv, Start, Exact, [Next]_vars PROVE Exact'
    OBVIOUS
  <2>1. DoctorTypeOK
    BY DEF VInv, TypeOK
  <2>2. CASE UNCHANGED vars
    BY <2>2, ExactFrame DEF vars
  <2>3. CASE DoctorNext \/ Changes
    BY <2>1, <2>3, DoctorExact DEF DoctorNext
  <2>4. CASE VerifyStep \/ CommandExits \/ CommandReleased \/ Deadline
    BY <2>4, VerifierExact
  <2> QED BY <2>2, <2>3, <2>4 DEF Next
<1> QED BY <1>1, <1>2, SightInvariant, PTL DEF Spec

\* The hooks that there are, with the files they are in.
LiveHooks == UNION {{c} \X HooksOf(c) : c \in Found}

\* Past its files an undisturbed doctor has recorded every hook once.
LEMMA SurfacesCount ==
  ASSUME DoctorTypeOK, Account, Counted, IsFiniteSet(report.surfaces)
  PROVE  Cardinality(LiveHooks) = Cardinality(report.surfaces)
         /\ Cardinality(report.surfaces) \in Nat
         /\ (report.surfaces = {} <=> Cardinality(report.surfaces) = 0)
<1>1. surface = NoSurface
  BY Zenon DEF DoctorTypeOK, Counted
<1>2. next \notin DOMAIN Candidates /\ todo = {}
  BY DEF Account
<1>3. \A i \in DOMAIN Candidates : i < next
  <2>1. next \in 1..(Len(Candidates) + 1)
    BY DEF DoctorTypeOK
  <2> QED BY <1>2, <2>1, CandidateTypes
<1> DEFINE PairOf(s) == <<s.at, s.hook>>
           f == [s \in report.surfaces |-> PairOf(s)]
<1>4. ASSUME NEW s \in report.surfaces PROVE f[s] \in LiveHooks
  <2>1. s.at \in Found /\ s.hook \in HooksOf(s.at)
    BY DEF Account, NoneInvented, Live
  <2> QED BY <2>1 DEF LiveHooks
<1>5. ASSUME NEW s \in report.surfaces, NEW t \in report.surfaces, f[s] = f[t] PROVE s = t
  <2>1. s.at = t.at /\ s.hook = t.hook
    BY <1>5
  <2>2. s.version = t.version
    BY <2>1 DEF Account, NoneInvented
  <2>3. {s, t} \subseteq [at : AllCandidates, hook : Hook, version : Text]
    BY DEF DoctorTypeOK, Surface, Text
  <2> QED BY <2>1, <2>2, <2>3
<1>6. ASSUME NEW p \in LiveHooks PROVE \E s \in report.surfaces : f[s] = p
  <2>1. PICK c \in Found : p \in {c} \X HooksOf(c)
    BY DEF LiveHooks
  <2>2. PICK h \in HooksOf(c) : p = <<c, h>>
    BY <2>1
  <2>3. PICK i \in DOMAIN Candidates : c = Candidates[i]
    BY DEF Found, AllCandidates
  <2>4. i \in Read
    BY <1>3, <2>3 DEF Account, Read
  <2>5. InReport(c, h)
    BY <1>1, <1>2, <2>3, <2>4 DEF Account, NoneLost, HeldAt
  <2> QED BY <2>2, <2>5 DEF InReport
<1>7. f \in Bijection(report.surfaces, LiveHooks)
  BY <1>4, <1>5, <1>6, Fun_IsBij
<1>8. ExistsBijection(report.surfaces, LiveHooks)
  BY <1>7, Fun_ExistsBij
<1> QED BY <1>8, FS_Bijection, FS_CardinalityType, FS_EmptySet

\* Exit 0 of the doctor means that there is nothing wrong at all, if nothing
\* has changed.
LEMMA PassMeansAllSound ==
  ASSUME VInv, Sight, Exact, DoctorPassMeansSound, exit = 0, touched = {}
  PROVE  AllSound
<1>1. DoctorTypeOK /\ step = "ended" /\ ~trouble
  <2>1. exit # 3 /\ DoctorTypeOK
    BY DEF VInv, TypeOK
  <2> QED BY <2>1, Zenon DEF Exact, DoctorTypeOK
<1>2. world.registry # "bad"
  BY <1>1 DEF Exact
<1>3. Account
  BY <1>1, <1>2 DEF Exact, Undisturbed, Reading
<1>4. report.ok
  <2>1. exit = IF report.unreadable THEN 2 ELSE IF report.ok THEN 0 ELSE 1
    BY <1>1, <1>3 DEF Account, Coded
  <2> QED BY <2>1
<1>5. Enough /\ Counted
  BY <1>1, <1>3, <1>4 DEF Account, Blamed, Counted
<1>6. Cardinality(LiveHooks) >= IF opts.latest /\ opts.min = 0 THEN 1 ELSE opts.min
  <2>1. Cardinality(LiveHooks) = Cardinality(report.surfaces)
        /\ Cardinality(report.surfaces) \in Nat
        /\ (report.surfaces = {} <=> Cardinality(report.surfaces) = 0)
    BY <1>1, <1>3, <1>5, SurfacesCount DEF Exact
  <2> QED BY <1>1, <1>5, <2>1 DEF Enough
<1>7. HooksSound
  BY DEF DoctorPassMeansSound, HooksSound
<1> QED BY <1>6, <1>7 DEF AllSound, HooksSound, LiveHooks

\* The exit code of an undisturbed doctor is exact.
THEOREM DoctorVerdictExactHolds == Spec => []DoctorVerdictExact
<1>1. ASSUME VInv, Sight, Exact, DoctorPassMeansSound, exit # 3, touched = {}, ~trouble
      PROVE  exit = IF ~Readable THEN 2 ELSE IF AllSound THEN 0 ELSE 1
  <2>1. DoctorTypeOK /\ step = "ended"
    BY <1>1, Zenon DEF VInv, TypeOK, DoctorTypeOK
  <2>2. CASE world.registry = "bad"
    BY <1>1, <2>1, <2>2 DEF Exact, Readable
  <2>3. CASE world.registry # "bad"
    <3>1. Account /\ Counted
      BY <1>1, <2>1, <2>3 DEF Exact, Undisturbed, Reading, Counted
    <3>2. exit = IF report.unreadable THEN 2 ELSE IF report.ok THEN 0 ELSE 1
      BY <2>1, <3>1 DEF Account, Coded
    <3>3. Readable <=> ~report.unreadable
      <4>1. Found = {Candidates[i] : i \in Read}
        <5>1. next \in 1..(Len(Candidates) + 1) /\ next \notin DOMAIN Candidates
          BY <2>1, <3>1 DEF DoctorTypeOK, Account
        <5>2. \A i \in DOMAIN Candidates : i < next
          BY <5>1, CandidateTypes
        <5> QED BY <3>1, <5>2 DEF Account, Read, Found, AllCandidates
      <4> QED BY <2>3, <3>1, <4>1 DEF Account, Coded, Readable, Bad
    <3>4. exit = 0 => AllSound
      BY <1>1, PassMeansAllSound
    <3>5. AllSound => report.ok
      <4> SUFFICES ASSUME AllSound PROVE report.ok
        OBVIOUS
      <4>1. HooksSound
        BY DEF AllSound, HooksSound
      <4>2. Cardinality(LiveHooks) >= IF opts.latest /\ opts.min = 0 THEN 1 ELSE opts.min
        BY DEF AllSound, LiveHooks
      <4>3. Cardinality(LiveHooks) = Cardinality(report.surfaces)
            /\ Cardinality(report.surfaces) \in Nat
            /\ (report.surfaces = {} <=> Cardinality(report.surfaces) = 0)
        BY <1>1, <2>1, <3>1, SurfacesCount DEF Exact
      <4>4. opts.min \in Nat
        BY <2>1 DEF DoctorTypeOK, Options
      <4>5. Enough
        BY <4>2, <4>3, <4>4 DEF Enough
      <4> QED BY <3>1, <4>1, <4>5 DEF Account, Blamed
    <3> QED BY <3>2, <3>3, <3>4, <3>5
  <2> QED BY <2>2, <2>3
<1>2. VInv /\ Sight /\ Exact /\ DoctorPassMeansSound => DoctorVerdictExact
  BY <1>1, Zenon DEF DoctorVerdictExact
<1> QED BY <1>2, ExactInvariant, DoctorPassMeansSoundHolds, PTL
-----------------------------------------------------------------------------
(* Exit 0 of the verification *)

\* What the checks that passed have shown.  A plugin binary that told its
\* version, and was not replaced since, runs the doctor in earnest.
PluginTold == PluginBinary \notin touched => world.binaries[PluginBinary] = Tag
HostTold == HostBinary \notin touched => world.binaries[HostBinary] = Tag
Evidence ==
  /\ "release" \in PassedChecks => release.exact /\ ~release.draft
  /\ "assets" \in PassedChecks => release.complete
  /\ "checksum" \in PassedChecks => release.entry /\ release.genuine
  /\ "archive" \in PassedChecks => release.unpacks
  /\ "downloaded version" \in PassedChecks => release.binary = Tag
  /\ "host version" \in PassedChecks => HostTold
  /\ "plugin version" \in PassedChecks => PluginTold
  /\ {"plugin version", "doctor"} \subseteq PassedChecks /\ PluginBinary \notin touched => exit = 0
  /\ \A h \in Harness : Canary(h) \in PassedChecks => h \in release.denies

\* What the command that runs will have shown if it passes.
InCommand ==
  /\ command.state # "none" /\ command.good =>
       /\ vstep = "downloaded version" => release.binary = Tag
       /\ vstep = "host version" => HostTold
       /\ vstep = "plugin version" => PluginTold
       /\ \A h \in Harness : vstep = Canary(h) => h \in release.denies
  /\ vstep = "doctor" /\ "plugin version" \in PassedChecks /\ PluginBinary \notin touched =>
       /\ command.state # "none" => step # "idle"
       /\ command.state = "ok" => exit = 0

\* The verifier asks for a version, and exits 0 when all checks have passed.
Asked == vstep # "off" => opts.expected # "" /\ ~opts.latest
AllMade == vexit = 0 => PassedChecks = CheckName

Shows == Evidence /\ InCommand /\ Asked /\ AllMade

\* Another canary is another harness's.
LEMMA CanaryTypes ==
  /\ \A g, h \in Harness : Canary(g) = Canary(h) => g = h
  /\ \A h \in Harness : Canary(h) \notin Early \cup Probes \cup {"doctor", "off", "report", "ended"}
  BY DEF Canary, Harness, Early, Probes

\* Changes of the world leave what was told of the binaries standing.
LEMMA FreshTold ==
  ASSUME DoctorTypeOK, Changes
  PROVE  (HostTold => HostTold') /\ (PluginTold => PluginTold')
<1>1. Fresh /\ opts' = opts
  BY ChangesFresh
<1>2. {HostBinary, PluginBinary} \subseteq Binaries /\ world \in World
  BY BinariesAssumption DEF DoctorTypeOK
<1>3. HostTold => HostTold'
  BY <1>1, <1>2, Zenon DEF Fresh, HostTold, Tag
<1>4. PluginTold => PluginTold'
  BY <1>1, <1>2, Zenon DEF Fresh, PluginTold, Tag
<1> QED BY <1>3, <1>4

\* The steps of the doctor and of the world add no check and end no command.
LEMMA ChildShows ==
  ASSUME VInv, Shows, UNCHANGED verify_vars, Changes \/ DoctorNext
  PROVE  Shows'
<1>1. UNCHANGED <<release, vstep, checks, command, vexit>> /\ DoctorTypeOK
  BY DEF verify_vars, VInv, TypeOK
<1>2. PassedChecks' = PassedChecks
  BY <1>1 DEF PassedChecks
<1>3. opts' = opts /\ (step # "idle" => step' # "idle") /\ (exit = 0 => exit' = 0)
      /\ (HostTold => HostTold') /\ (PluginTold => PluginTold')
      /\ (PluginBinary \in touched => PluginBinary \in touched')
  <2>1. CASE Changes
    BY <1>1, <2>1, ChangesFresh, FreshTold DEF doctor_vars, Fresh
  <2>2. CASE DoctorStep \/ ProbeWaits \/ ProbeChild
    <3>1. step # "ended" /\ Untouched /\ step' # "idle"
      BY <2>2 DEF DoctorStep, ListCandidates, ReadFile, Inspect, Stat, Record, CountSurfaces, CheckLatest,
                  Write, ProbeWaits, ProbeDeadline, ProbeDrained, ProbeCutOff, ProbeEnds, ProbeChild,
                  ProbeExits, ProbeReleased, UnchangedByProbe, Untouched
    <3>2. exit # 0
      <4>1. exit = 3
        BY <1>1, <3>1, NoExit
      <4> QED BY <4>1
    <3>3. HostTold' = HostTold /\ PluginTold' = PluginTold /\ opts' = opts /\ touched' = touched
      BY <3>1, Zenon DEF Untouched, HostTold, PluginTold, Tag
    <3> QED BY <3>1, <3>2, <3>3, Zenon
  <2> QED BY <2>1, <2>2 DEF DoctorNext
<1>4. Evidence'
  BY <1>1, <1>2, <1>3, Zenon DEF Shows, Evidence, Tag
<1>5. InCommand'
  BY <1>1, <1>2, <1>3, Zenon DEF Shows, InCommand, Tag
<1>6. Asked' /\ AllMade'
  BY <1>1, <1>2, <1>3, Zenon DEF Shows, Asked, AllMade
<1> QED BY <1>4, <1>5, <1>6 DEF Shows

\* A step that leaves the doctor alone keeps what is known of it.
LEMMA ToldFrame ==
  ASSUME UNCHANGED <<dvars, release>>
  PROVE  /\ HostTold' = HostTold /\ PluginTold' = PluginTold /\ Tag' = Tag
         /\ opts' = opts /\ exit' = exit /\ step' = step /\ release' = release /\ touched' = touched
BY Zenon DEF dvars, doctor_vars, HostTold, PluginTold, Tag

\* An early check that passes has shown what it asks for.
LEMMA EarlyShows ==
  ASSUME VInv, Shows, EarlyCheck
  PROVE  Shows'
<1>1. UNCHANGED <<dvars, release, command>> /\ vstep \in Early
  BY DEF EarlyCheck
<1>0. command.state = "none" /\ vexit = 3 /\ vstep # "off"
  BY <1>1, StepTypes DEF VInv, TypeOK
<1>7. vexit' # 0
  <2>1. vexit' \in {2, 3}
    BY <1>0 DEF EarlyCheck, BreakOff, Verdict
  <2> QED BY <2>1
<1>2. PassedChecks' = PassedChecks
      \/ (PassedChecks' = PassedChecks \cup {vstep} /\ Passes(vstep) /\ vstep # "download")
  <2>1. CASE checks' = checks
    BY <2>1 DEF PassedChecks
  <2>2. CASE vstep # "download" /\ Verdict(Passes(vstep))
    <3>1. Passes(vstep) \in BOOLEAN
      BY <1>1, <2>2 DEF VInv, TypeOK, Release, Passes, Early
    <3> QED BY <2>2, <3>1, AddNames DEF Verdict
  <2>3. CASE Verdict(FALSE)
    BY <2>3, AddNames DEF Verdict
  <2> QED BY <2>1, <2>2, <2>3 DEF EarlyCheck, BreakOff
<1>3. Evidence'
  <2>1. CASE PassedChecks' = PassedChecks
    BY <1>1, <2>1, ToldFrame, Zenon DEF Shows, Evidence
  <2>2. CASE PassedChecks' = PassedChecks \cup {vstep} /\ Passes(vstep) /\ vstep # "download"
    <3>1. /\ vstep = "release" => release.exact /\ ~release.draft
          /\ vstep = "assets" => release.complete
          /\ vstep = "checksum" => release.entry /\ release.genuine
          /\ vstep = "archive" => release.unpacks
      BY <2>2 DEF Passes
    <3>2. vstep \notin Probes \cup {"doctor"}
      BY <1>1, StepTypes DEF Commands
    <3>3. \A h \in Harness : vstep # Canary(h)
      BY <1>1, CanaryTypes
    <3> QED BY <1>1, <2>2, <3>1, <3>2, <3>3, ToldFrame DEF Shows, Evidence, Probes
  <2> QED BY <1>2, <2>1, <2>2
<1>4. InCommand'
  <2>1. command'.state = "none" /\ command'.state # "ok"
    BY <1>0, <1>1
  <2> QED BY <2>1, Zenon DEF InCommand
<1>6. Asked' /\ AllMade'
  BY <1>0, <1>1, <1>7, ToldFrame, Zenon DEF Shows, Asked, AllMade
<1> QED BY <1>3, <1>4, <1>6 DEF Shows

\* A command that passes has shown what it was run for.
LEMMA ConcludeShows ==
  ASSUME VInv, Shows, vstep \in Commands, NEW ok \in BOOLEAN, NEW c, Conclude(ok, c),
         ok => command.state = "ok" /\ command.good,
         UNCHANGED <<dvars, release, vexit>>
  PROVE  Shows'
<1>1. /\ Add(vstep, ok) /\ command' = NoCommand /\ NoCommand.state = "none"
      /\ vstep' = After(vstep) /\ vexit = 3 /\ vstep # "off"
  BY StepTypes DEF Conclude, NoCommand, VInv, TypeOK
<1>0. vexit' # 0 /\ command'.state = "none" /\ command'.state # "ok"
  BY <1>1
<1>2. CASE ~ok
  <2>1. PassedChecks' = PassedChecks
    BY <1>1, <1>2, AddNames
  <2> QED BY <1>1, <2>1, ToldFrame, Zenon DEF Shows, Evidence, InCommand, Asked, AllMade
<1>3. CASE ok
  <2>1. PassedChecks' = PassedChecks \cup {vstep} /\ command.state = "ok" /\ command.good
    BY <1>1, <1>3, AddNames
  <2>2. vstep \notin Early /\ "plugin version" # "doctor"
        /\ (vstep = "plugin version" => "doctor" \notin PassedChecks)
    <3>1. vstep = "plugin version" => Names = Prior("plugin version")
      BY DEF VInv, GateInv
    <3>2. "doctor" \notin Prior("plugin version") /\ PassedChecks \subseteq Names
      BY DEF Prior, PassedChecks, Names
    <3> QED BY <3>1, <3>2, StepTypes
  <2>3. Evidence'
    <3>1. /\ "release" \in PassedChecks' => release.exact /\ ~release.draft
          /\ "assets" \in PassedChecks' => release.complete
          /\ "checksum" \in PassedChecks' => release.entry /\ release.genuine
          /\ "archive" \in PassedChecks' => release.unpacks
      BY <2>1, <2>2 DEF Shows, Evidence, Early
    <3>2. /\ "downloaded version" \in PassedChecks' => release.binary = Tag
          /\ "host version" \in PassedChecks' => HostTold
          /\ "plugin version" \in PassedChecks' => PluginTold
      BY <2>1 DEF Shows, Evidence, InCommand
    <3>3. {"plugin version", "doctor"} \subseteq PassedChecks' /\ PluginBinary \notin touched => exit = 0
      BY <2>1, <2>2 DEF Shows, Evidence, InCommand
    <3>4. \A h \in Harness : Canary(h) \in PassedChecks' => h \in release.denies
      BY <2>1 DEF Shows, Evidence, InCommand
    <3> QED BY <3>1, <3>2, <3>3, <3>4, ToldFrame, Zenon DEF Evidence
  <2>4. InCommand'
    BY <1>0, Zenon DEF InCommand
  <2>5. Asked' /\ AllMade'
    BY <1>0, <1>1, ToldFrame, Zenon DEF Shows, Asked, AllMade
  <2> QED BY <2>3, <2>4, <2>5 DEF Shows
<1> QED BY <1>2, <1>3

\* A command that is started will show what is so now.
LEMMA StartShows ==
  ASSUME VInv, Shows, StartCommand
  PROVE  Shows'
<1>1. vstep \in Commands /\ command.state = "none" /\ vstep # "off"
  BY StepTypes DEF StartCommand
<1>2. CASE vlate \/ Program = Missing
  <2>1. Conclude(FALSE, 2) /\ UNCHANGED <<dvars, release, vexit>>
    BY <1>2 DEF StartCommand, dvars, doctor_vars
  <2> QED BY <1>1, <2>1, ConcludeShows
<1>3. CASE ~(vlate \/ Program = Missing)
  <2>1. PICK good \in Good : command' = [state |-> "running", good |-> good, held |-> FALSE]
    BY <1>3 DEF StartCommand
  <2>2. /\ UNCHANGED <<world, touched, opts, exit, release, vstep, checks, vexit>>
        /\ vstep = "doctor" /\ Program # "" => step' = "list"
    BY <1>3, Zenon DEF StartCommand
  <2>3. /\ PassedChecks' = PassedChecks /\ HostTold' = HostTold /\ PluginTold' = PluginTold
        /\ Tag' = Tag
    BY <2>2, Zenon DEF PassedChecks, HostTold, PluginTold, Tag
  <2>4. command'.state = "running" /\ command'.good = good /\ command'.state # "ok"
    BY <2>1
  <2>5. Tag # ""
    BY <1>1, Zenon DEF Shows, Asked, Tag
  <2>6. InCommand'
    <3>1. ASSUME good, vstep \in Probes PROVE Program = Tag
      <4>1. vstep # "doctor" /\ vstep \notin Canaries
        BY <3>1, StepTypes DEF Probes
      <4>2. Good = {Program = Tag}
        BY <3>1, <4>1 DEF Good
      <4>3. good = (Program = Tag)
        BY <4>2
      <4> QED BY <3>1, <4>3, Zenon
    <3>2. ASSUME good, vstep = "downloaded version" PROVE release.binary = Tag
      BY <3>1, <3>2 DEF Program, Probes
    <3>3. ASSUME good, vstep = "host version" PROVE HostTold
      BY <3>1, <3>3 DEF Program, Probes, HostTold
    <3>4. ASSUME good, vstep = "plugin version" PROVE PluginTold
      BY <3>1, <3>4 DEF Program, Probes, PluginTold
    <3>5. ASSUME good, NEW h \in Harness, vstep = Canary(h) PROVE h \in release.denies
      <4>1. vstep \notin Probes /\ vstep # "doctor" /\ vstep \in Canaries
        BY <3>5, CanaryTypes, StepTypes
      <4>2. PICK g \in release.denies : vstep = Canary(g)
        BY <3>5, <4>1 DEF Good
      <4>3. g \in Harness
        BY DEF VInv, TypeOK, Release
      <4> QED BY <3>5, <4>2, <4>3, CanaryTypes
    <3>6. ASSUME vstep = "doctor", "plugin version" \in PassedChecks, PluginBinary \notin touched
          PROVE  step' # "idle"
      <4>1. PluginTold
        BY <3>6 DEF Shows, Evidence
      <4>2. Program = world.binaries[PluginBinary]
        BY <3>6 DEF Program
      <4>3. Program # ""
        BY <2>5, <3>6, <4>1, <4>2, Zenon DEF PluginTold
      <4> QED BY <2>2, <3>6, <4>3
    <3> QED BY <2>2, <2>3, <2>4, <3>2, <3>3, <3>4, <3>5, <3>6, Zenon DEF InCommand
  <2>7. Evidence' /\ Asked' /\ AllMade'
    BY <2>2, <2>3, Zenon DEF Shows, Evidence, Asked, AllMade
  <2> QED BY <2>6, <2>7 DEF Shows
<1> QED BY <1>2, <1>3

\* What happens to a running command makes it no better; the doctor succeeds
\* with 0 only.
LEMMA RunningShows ==
  ASSUME VInv, Shows, CommandExits \/ DoctorExits \/ CommandReleased
  PROVE  Shows'
<1>1. UNCHANGED <<dvars, release, vstep, checks, vexit>>
  BY DEF CommandExits, DoctorExits, CommandReleased
<1>2. PassedChecks' = PassedChecks
  BY <1>1 DEF PassedChecks
<1>3. command \in CommandType
  BY DEF VInv, TypeOK, CommandType
<1>4. command'.state # "none" => command.state # "none"
  BY <1>3 DEF CommandType, CommandExits, DoctorExits, CommandReleased
<1>5. vstep # "doctor" => command'.good = command.good
  BY <1>3 DEF CommandType, CommandExits, DoctorExits, CommandReleased, IsDoctor
<1>6. ASSUME vstep = "doctor", "plugin version" \in PassedChecks, PluginBinary \notin touched,
             command'.state = "ok"
      PROVE  exit = 0
  <2>1. CASE CommandExits
    <3>1. command.state # "none" /\ step = "idle"
      BY <1>6, <2>1 DEF CommandExits, IsDoctor
    <3> QED BY <1>6, <3>1 DEF Shows, InCommand
  <2>2. CASE DoctorExits
    BY <1>3, <1>6, <2>2 DEF CommandType, DoctorExits
  <2>3. CASE CommandReleased
    <3>1. command.state = "ok"
      BY <1>3, <1>6, <2>3 DEF CommandType, CommandReleased
    <3> QED BY <1>6, <3>1 DEF Shows, InCommand
  <2> QED BY <2>1, <2>2, <2>3
<1>7. InCommand'
  <2>1. vstep = "doctor" => vstep \notin Probes /\ \A h \in Harness : vstep # Canary(h)
    BY StepTypes, CanaryTypes
  <2>2. "downloaded version" # "doctor" /\ "host version" # "doctor" /\ "plugin version" # "doctor"
    OBVIOUS
  <2> QED BY <1>1, <1>2, <1>4, <1>5, <1>6, <2>1, <2>2, ToldFrame, Zenon DEF Shows, InCommand
<1>8. Evidence' /\ Asked' /\ AllMade'
  BY <1>1, <1>2, ToldFrame, Zenon DEF Shows, Evidence, Asked, AllMade
<1> QED BY <1>7, <1>8 DEF Shows

\* The deadline leaves of a command nothing that could pass.
LEMMA DeadlineShows ==
  ASSUME VInv, Shows, Deadline
  PROVE  Shows'
<1>1. /\ UNCHANGED <<release, vstep, checks, vexit>>
      /\ UNCHANGED <<world, touched, opts, exit>> /\ (step' = step \/ step' = "killed")
  BY DEF Deadline, KillDoctor, dvars, doctor_vars
<1>2. /\ PassedChecks' = PassedChecks /\ HostTold' = HostTold /\ PluginTold' = PluginTold
      /\ Tag' = Tag
  BY <1>1, Zenon DEF PassedChecks, HostTold, PluginTold, Tag
<1>3. /\ command'.state # "none" => command.state # "none"
      /\ command'.good = command.good /\ (command'.state = "ok" => command.state = "ok")
  <2>1. command \in CommandType
    BY DEF VInv, TypeOK, CommandType
  <2> QED BY <2>1 DEF CommandType, Deadline
<1>4. "killed" # "idle"
  OBVIOUS
<1>5. InCommand'
  BY <1>1, <1>2, <1>3, <1>4, Zenon DEF Shows, InCommand
<1>6. Evidence' /\ Asked' /\ AllMade'
  BY <1>1, <1>2, Zenon DEF Shows, Evidence, Asked, AllMade
<1> QED BY <1>5, <1>6 DEF Shows

\* The report says 0 only if all checks were made and passed.
LEMMA ReportShows ==
  ASSUME VInv, Shows, Report
  PROVE  Shows'
<1>1. /\ UNCHANGED <<dvars, release, checks, command>> /\ vstep = "report" /\ vstep' = "ended"
      /\ PassedChecks' = PassedChecks
  BY DEF Report, PassedChecks
<1>2. command.state = "none"
  BY <1>1, StepTypes DEF VInv, TypeOK
<1>3. AllMade'
  <2> SUFFICES ASSUME vexit' = 0 PROVE PassedChecks = CheckName
    BY <1>1 DEF AllMade
  <2>1. ResultOK
    <3>1. vexit' = IF ResultOK THEN 0 ELSE IF code = 0 THEN 1 ELSE code
      BY DEF Report
    <3> QED BY <3>1
  <2>2. PassedChecks = Names /\ Names = CheckName
    BY <1>1, <2>1 DEF ResultOK, PassedChecks, Names, VInv, GateInv
  <2> QED BY <2>2
<1>4. InCommand'
  <2>1. command'.state = "none" /\ command'.state # "ok"
    BY <1>1, <1>2
  <2> QED BY <2>1, Zenon DEF InCommand
<1>5. Evidence' /\ Asked'
  <2>1. vstep # "off"
    BY <1>1
  <2> QED BY <1>1, <2>1, ToldFrame, Zenon DEF Shows, Evidence, Asked
<1> QED BY <1>3, <1>4, <1>5 DEF Shows

\* What the checks show holds in every reachable state.
LEMMA ShowsInvariant == Spec => [](VInv /\ Sight /\ Start /\ Exact /\ Shows)
<1>1. Init => Shows
  <2> SUFFICES ASSUME Init PROVE Shows
    OBVIOUS
  <2>1. checks = {} /\ command = NoCommand /\ vexit # 0
    BY DEF Init, VerifyInit
  <2>2. PassedChecks = {} /\ command.state = "none" /\ command.state # "ok"
    BY <2>1 DEF PassedChecks, NoCommand
  <2>3. Evidence /\ InCommand /\ AllMade
    BY <2>1, <2>2, Zenon DEF Evidence, InCommand, AllMade
  <2>4. Asked
    BY VerifyAssumption, Zenon DEF Init, Asked
  <2> QED BY <2>3, <2>4 DEF Shows
<1>2. VInv /\ Shows /\ [Next]_vars => Shows'
  <2> SUFFICES ASSUME VInv, Shows, [Next]_vars PROVE Shows'
    OBVIOUS
  <2>1. CASE VerifyStep
    <3>1. CASE CommandEnds
      <4>1. vstep \in Commands /\ UNCHANGED <<dvars, release, vexit>>
        BY <3>1 DEF CommandEnds, VInv, TypeOK
      <4>2. \/ command.state = "ok" /\ command.good /\ Conclude(TRUE, 0)
            \/ \E c : Conclude(FALSE, c)
        BY <3>1 DEF CommandEnds
      <4> QED BY <4>1, <4>2, ConcludeShows
    <3> QED BY <2>1, <3>1, EarlyShows, StartShows, RunningShows, ReportShows DEF VerifyStep
  <2>2. CASE CommandExits \/ CommandReleased \/ Deadline
    BY <2>2, RunningShows, DeadlineShows
  <2>3. CASE UNCHANGED verify_vars /\ (Changes \/ DoctorNext)
    BY <2>3, ChildShows
  <2>4. CASE UNCHANGED vars
    <3>1. UNCHANGED <<dvars, release, vstep, checks, command, vexit>> /\ PassedChecks' = PassedChecks
      BY <2>4 DEF vars, verify_vars, PassedChecks
    <3>2. Evidence' /\ Asked' /\ AllMade'
      BY <3>1, ToldFrame, Zenon DEF Shows, Evidence, Asked, AllMade
    <3>3. InCommand'
      BY <3>1, ToldFrame, Zenon DEF Shows, InCommand
    <3> QED BY <3>2, <3>3 DEF Shows
  <2> QED BY <2>1, <2>2, <2>3, <2>4 DEF Next
<1> QED BY <1>1, <1>2, ExactInvariant, PTL DEF Spec

\* Exit 0 of the verification means that release, host, plugin and hooks are
\* as they should be.
THEOREM VerifyPassMeansSoundHolds == Spec => []VerifyPassMeansSound
<1>1. ASSUME VInv, Sight, Exact, Shows, DoctorPassMeansSound, vexit = 0
      PROVE  VerifyPassMeansSound
  <2>1. PassedChecks = CheckName
    BY <1>1 DEF Shows, AllMade
  <2>2. /\ {"release", "assets", "checksum", "archive", "downloaded version", "host version",
            "plugin version", "doctor"} \subseteq CheckName
        /\ \A h \in Harness : Canary(h) \in CheckName
    BY StepTypes DEF CheckName, Early, Commands, Probes
  <2>3. Published /\ release.binary = Tag
    BY <1>1, <2>1, <2>2 DEF Shows, Evidence, Published
  <2>4. release.denies = Harness
    <3>1. release.denies \subseteq Harness
      BY <1>1 DEF VInv, TypeOK, Release
    <3> QED BY <1>1, <2>1, <2>2, <3>1 DEF Shows, Evidence
  <2>5. \A b \in {HostBinary, PluginBinary} : b \notin touched => world.binaries[b] = Tag
    <3>1. HostTold /\ PluginTold
      BY <1>1, <2>1, <2>2 DEF Shows, Evidence
    <3> QED BY <3>1, Zenon DEF HostTold, PluginTold
  <2>6. PluginBinary \notin touched => exit = 0
    BY <1>1, <2>1, <2>2 DEF Shows, Evidence
  <2>7. touched = {} => AllSound
    BY <1>1, <2>6, PassMeansAllSound
  <2> QED BY <1>1, <2>3, <2>4, <2>5, <2>6, <2>7, Zenon DEF VerifyPassMeansSound, DoctorPassMeansSound
<1>2. VInv /\ Sight /\ Exact /\ Shows /\ DoctorPassMeansSound => VerifyPassMeansSound
  BY <1>1, Zenon DEF VerifyPassMeansSound
<1> QED BY <1>2, ShowsInvariant, DoctorPassMeansSoundHolds, PTL
=============================================================================
