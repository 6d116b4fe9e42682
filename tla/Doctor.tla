------------------------------- MODULE Doctor --------------------------------
(***************************************************************************)
(* claude-gatekeeper doctor: it discovers the live hook files, inspects    *)
(* every gatekeeper command in them (harness, binary, Codex trust, version *)
(* stamp) and exits 0 only if it found nothing wrong, while users edit     *)
(* hook files, upgrade binaries and publish releases.                      *)
(*                                                                         *)
(* A version is asked of the binary itself, in a child process with five   *)
(* seconds to end and five more (WaitDelay) to have its pipe closed by     *)
(* whatever it leaves behind.                                              *)
(***************************************************************************)
EXTENDS Naturals, Sequences, FiniteSets

CONSTANTS
  Candidates,   \* the hook files in the order of Collect: a sequence of Candidate
  Paths,        \* their paths
  Binaries,     \* the binaries hooks may name
  HostBinary,   \* the one expected of a hook (default: this executable)
  PluginBinary, \* bin/claude-gatekeeper of the installed plugin
  Versions,     \* version stamps
  StartWorlds,  \* what the doctor may find, a subset of World
  OptionSets,   \* how it may be called, a subset of Options
  Edits,        \* what an edited hook file may hold, a subset of File
  MaxChanges    \* bound on the changes to the world during a run

Kind      == {"grok-global", "codex-global", "claude-settings", "claude-plugin"}
Candidate == [kind : Kind, path : Paths]

\* A command in a hook file: it runs a gatekeeper binary; it runs the plugin's
\* bin/run.sh, by a path that does or does not have the gatekeeper's name in
\* it; it mentions the gatekeeper but cannot be parsed, or passes a malformed
\* --harness; or it is none of this program's business.  harness: whether it
\* names (or defaults to) the harness that owns the file.
Hook == [form : {"direct", "wrapper", "namedWrapper", "mangled", "foreign"},
         harness : BOOLEAN, binary : Binaries]

\* A hook file: missing, unreadable or not JSON, or decoded.  odd: its
\* PreToolUse tree has a node of an unexpected type.  Repeated commands count
\* as one surface, so hooks is a set.
File == {f \in [kind : {"absent", "bad", "decoded"}, odd : BOOLEAN, hooks : SUBSET Hook] :
           f.kind # "decoded" => ~f.odd /\ f.hooks = {}}
NoFile == [kind |-> "absent", odd |-> FALSE, hooks |-> {}]

\* What a binary is: missing, or the text it prints for --version.
Missing == "missing"
World ==
  [files     : [Paths -> File],
   registry  : {"absent", "bad", "installed"},  \* installed_plugins.json
   trust     : BOOLEAN,                         \* Codex has approved its hooks
   binaries  : [Binaries -> Versions \cup {"", Missing}],
   published : Versions]                        \* the latest release

\* expected = "": no version is expected.  pluginDir: the version that the
\* plugin's installation path spells, if it does.
Options == [min : Nat, expected : Versions \cup {""}, latest : BOOLEAN,
            pluginDir : Versions \cup {""}]

ASSUME CandidatesAssumption == Candidates \in Seq(Candidate)
ASSUME BinariesAssumption == {HostBinary, PluginBinary} \subseteq Binaries
ASSUME VersionsAssumption == {"", Missing} \cap Versions = {}
ASSUME OptionsAssumption == OptionSets \subseteq Options
ASSUME WorldsAssumption == StartWorlds \subseteq World /\ Edits \subseteq File
ASSUME NamesAssumption ==
  /\ Paths \cap Binaries = {}
  /\ {"registry", "trust", "published"} \cap (Paths \cup Binaries) = {}
ASSUME MaxChangesAssumption == MaxChanges \in Nat

VARIABLES
  world,    \* the files, binaries and the latest release
  touched,  \* the parts of it that changed since the doctor started
  opts,     \* the doctor's flags
  step,     \* what the doctor does next
  listed,   \* the candidates it found to read
  next,     \* the index of the next one
  todo,     \* gatekeeper commands of that file it has not inspected
  surface,  \* the one it is inspecting
  probe,    \* the child asked for its version
  report,   \* ok, whether a file could not be read, and the surfaces
  trouble,  \* history: a probe, the fetch or the output failed
  exit      \* exit code; 3 while there is none

world_vars  == <<world, touched>>
report_vars == <<report, trouble, exit>>
doctor_vars == <<step, listed, next, todo, surface, probe, report, trouble, exit>>
dvars == <<world, touched, opts, doctor_vars>>

AllCandidates == {Candidates[i] : i \in DOMAIN Candidates}
at == Candidates[next - 1]  \* the candidate it is inspecting

NoSurface == [hook |-> [form |-> "none", harness |-> TRUE, binary |-> HostBinary], drift |-> FALSE]
NoProbe   == [state |-> "none", text |-> "", held |-> FALSE, late |-> FALSE]

DoctorInit(s) ==
  /\ world \in StartWorlds
  /\ touched = {}
  /\ opts \in OptionSets
  /\ step = s
  /\ listed = {}
  /\ next = 1
  /\ todo = {}
  /\ surface = NoSurface
  /\ probe = NoProbe
  /\ report = [ok |-> TRUE, unreadable |-> FALSE, surfaces |-> {}]
  /\ trouble = FALSE
  /\ exit = 3

-----------------------------------------------------------------------------
(* Discovery *)

Listed(c, w) ==
  CASE c.kind = "claude-settings" -> w.files[c.path].kind # "absent"
    [] c.kind = "claude-plugin"   -> w.registry = "installed"
    [] OTHER                      -> TRUE

\* Settings files are globbed and plugins taken from Claude Code's registry; a
\* registry that cannot be read or parsed ends the run.
ListCandidates ==
  /\ step = "list"
  /\ IF world.registry = "bad"
     THEN step' = "ended" /\ exit' = 2 /\ UNCHANGED listed
     ELSE /\ step' = "files"
          /\ listed' = {c \in AllCandidates : Listed(c, world)}
          /\ UNCHANGED exit
  /\ UNCHANGED <<world, touched, opts, next, todo, surface, probe, report, trouble>>

Recognized(c, h) ==
  h.form = "direct" \/ (h.form \in {"wrapper", "namedWrapper"} /\ c.kind = "claude-plugin")

\* Not recognized, and the gatekeeper is mentioned.
Suspect(c, h) == h.form = "mangled" \/ (h.form = "namedWrapper" /\ c.kind # "claude-plugin")

Contents(c) == IF c \in listed THEN world.files[c.path] ELSE NoFile

\* Variant: a file that cannot be read is passed over like a missing one.
BadNever(f) == FALSE

Bad(f)       == f.kind = "bad"
Faulty(c, f) == Bad(f) \/ f.odd \/ \E h \in f.hooks : Suspect(c, h)

\* A missing file is skipped, a bad one is an error that does not stop the
\* others; odd shapes and unrecognized gatekeeper commands fail the report.
ReadFile ==
  /\ step = "files" /\ todo = {} /\ next \in DOMAIN Candidates
  /\ next' = next + 1
  /\ LET c == Candidates[next]
         f == Contents(c)
     IN  /\ todo' = {h \in f.hooks : Recognized(c, h)}
         /\ report' = [report EXCEPT !.ok = @ /\ ~Faulty(c, f), !.unreadable = @ \/ Bad(f)]
  /\ UNCHANGED <<world, touched, opts, step, listed, surface, probe, trouble, exit>>

-----------------------------------------------------------------------------
(* Inspection of one surface *)

\* A plugin runs the binary next to its wrapper, whatever the command says.
BinaryOf(c, h) == IF c.kind = "claude-plugin" THEN PluginBinary ELSE h.binary
Expected(c)    == IF c.kind = "claude-plugin" THEN PluginBinary ELSE HostBinary

\* The harness and the binary are compared, and Codex's trust is read.
Inspect ==
  /\ step = "files"
  /\ \E h \in todo :
       /\ todo' = todo \ {h}
       /\ surface' =
            [hook  |-> h,
             drift |-> \/ ~h.harness
                       \/ BinaryOf(at, h) # Expected(at)
                       \/ at.kind = "codex-global" /\ ~world.trust]
  /\ step' = "stat"
  /\ UNCHANGED <<world, touched, opts, listed, next, probe, report, trouble, exit>>

\* Variant: the surface is recorded and kept.
RecordKeeping(drift, version) ==
  /\ report' = [report EXCEPT
       !.ok = @ /\ ~drift,
       !.surfaces = @ \cup {[at |-> at, hook |-> surface.hook, version |-> version]}]
  /\ step' = "files"
  /\ UNCHANGED surface
  /\ probe' = NoProbe

Record(drift, version) ==
  /\ report' = [report EXCEPT
       !.ok = @ /\ ~drift,
       !.surfaces = @ \cup {[at |-> at, hook |-> surface.hook, version |-> version]}]
  /\ step' = "files"
  /\ surface' = NoSurface
  /\ probe' = NoProbe

Stat ==
  /\ step = "stat"
  /\ LET printed == world.binaries[BinaryOf(at, surface.hook)]
     IN  IF printed = Missing
         THEN Record(TRUE, "")
         ELSE /\ step' = "probe"
              /\ probe' = [NoProbe EXCEPT !.state = "running", !.text = printed]
              /\ UNCHANGED <<surface, report>>
  /\ UNCHANGED <<world, touched, opts, listed, next, todo, trouble, exit>>

UnchangedByProbe ==
  UNCHANGED <<world, touched, opts, step, listed, next, todo, surface, report_vars>>

\* The child exits, and may leave descendants that hold its output open.
ProbeExits ==
  /\ step = "probe" /\ probe.state = "running"
  /\ \E s \in {"ok", "failed"}, h \in BOOLEAN :
       probe' = [probe EXCEPT !.state = s, !.held = h]
  /\ UnchangedByProbe

\* Five seconds are over: a child that still runs is killed.
ProbeDeadline ==
  /\ step = "probe" /\ ~probe.late
  /\ \E h \in BOOLEAN :
       /\ probe' = [probe EXCEPT !.late = TRUE,
                      !.state = IF @ = "running" THEN "killed" ELSE @,
                      !.held = IF probe.state = "running" THEN h ELSE @]
  /\ UnchangedByProbe

\* The last descendant is gone.
ProbeReleased ==
  /\ step = "probe" /\ probe.held
  /\ probe' = [probe EXCEPT !.held = FALSE]
  /\ UnchangedByProbe

\* Variant: any version will do.
StaleNever(version) == FALSE

\* Drift of a version, if one is expected.
Stale(version) == opts.expected # "" /\ version # opts.expected

\* What the probe says, its pipe closed (~waited) or cut off (waited): a child
\* that succeeded is believed if all was over in time, or if it printed
\* something before the wait for its descendants was given up.
ProbeEnds(waited) ==
  /\ IF probe.state = "ok" /\ (IF waited THEN probe.text # "" ELSE ~probe.late)
     THEN Record(surface.drift \/ Stale(probe.text), probe.text) /\ UNCHANGED trouble
     ELSE Record(TRUE, "") /\ trouble' = TRUE
  /\ UNCHANGED <<world, touched, opts, listed, next, todo, exit>>

ProbeDrained ==
  /\ step = "probe" /\ probe.state \in {"ok", "failed", "killed"} /\ ~probe.held
  /\ ProbeEnds(FALSE)

\* Variant: without a WaitDelay the pipe's end is waited for.
ProbeWaitsOn ==
  /\ step = "probe" /\ probe.held /\ probe.late
  /\ UNCHANGED dvars

\* WaitDelay: five seconds after the exit, so not before the deadline.
ProbeCutOff ==
  /\ step = "probe" /\ probe.state \in {"ok", "failed", "killed"} /\ probe.held /\ probe.late
  /\ ProbeEnds(TRUE)

-----------------------------------------------------------------------------
(* The report *)

\* Every surface runs the latest published release; a plugin whose path spells
\* another version than it reports is stale too.
Current(s, latest) ==
  /\ s.version = latest
  /\ s.at.kind = "claude-plugin" /\ opts.pluginDir # "" => s.version = opts.pluginDir

CountSurfaces ==
  /\ step = "files" /\ todo = {} /\ next \notin DOMAIN Candidates
  /\ report' = [report EXCEPT !.ok = @ /\ Cardinality(report.surfaces) >= opts.min]
  /\ step' = IF opts.latest THEN "latest" ELSE "write"
  /\ UNCHANGED <<world, touched, opts, listed, next, todo, surface, probe, trouble, exit>>

\* The release endpoint answers or not; without an answer, or without a
\* surface, the invariant is unknown, which is not a pass.
CheckLatest ==
  /\ step = "latest"
  /\ \E answered \in BOOLEAN :
       /\ report' = [report EXCEPT
            !.ok = @ /\ answered /\ report.surfaces # {}
                     /\ \A s \in report.surfaces : Current(s, world.published)]
       /\ trouble' = (trouble \/ ~answered)
  /\ step' = "write"
  /\ UNCHANGED <<world, touched, opts, listed, next, todo, surface, probe, exit>>

\* An unreadable file outranks other drift in the exit code.
Write ==
  /\ step = "write"
  /\ step' = "ended"
  /\ \/ /\ exit' = 2
        /\ trouble' = TRUE
     \/ /\ exit' = IF report.unreadable THEN 2 ELSE IF report.ok THEN 0 ELSE 1
        /\ UNCHANGED trouble
  /\ UNCHANGED <<world, touched, opts, listed, next, todo, surface, probe, report>>

\* The process is killed from outside; its probe is left to itself.
KillDoctor ==
  /\ step' = "killed"
  /\ todo' = {}
  /\ surface' = NoSurface
  /\ probe' = NoProbe
  /\ UNCHANGED <<world, touched, opts, listed, next, report, trouble, exit>>

-----------------------------------------------------------------------------
(* The world: users, package managers, a release *)

Change(part, w) ==
  /\ step # "ended" /\ Cardinality(touched) < MaxChanges
  /\ w # world
  /\ world' = w
  /\ touched' = touched \cup {part}
  /\ UNCHANGED <<opts, doctor_vars>>

EditFile   == \E p \in Paths, f \in Edits : Change(p, [world EXCEPT !.files[p] = f])
Upgrade    == \E b \in Binaries, v \in Versions \cup {"", Missing} :
                Change(b, [world EXCEPT !.binaries[b] = v])
ChangeTrust == Change("trust", [world EXCEPT !.trust = ~@])
Publish    == \E v \in Versions : Change("published", [world EXCEPT !.published = v])

-----------------------------------------------------------------------------
DoctorStep == ListCandidates \/ ReadFile \/ Inspect \/ Stat \/ CountSurfaces \/ CheckLatest \/ Write
ProbeWaits == ProbeDeadline \/ ProbeDrained \/ ProbeCutOff
ProbeChild == ProbeExits \/ ProbeReleased
Changes    == EditFile \/ Upgrade \/ ChangeTrust \/ Publish

DoctorNext == DoctorStep \/ ProbeWaits \/ ProbeChild \/ Changes
DoctorSpec == DoctorInit("list") /\ [][DoctorNext]_dvars

\* The doctor and its timers go on; nothing is assumed of the children.
DoctorFairness == WF_dvars(DoctorStep) /\ WF_dvars(ProbeWaits)

-----------------------------------------------------------------------------
(* Properties *)

Surface == [at : AllCandidates, hook : Hook, version : Versions \cup {""}]

\* The shapes of the variables; a probe is only there while the doctor waits
\* for it, and an exit code only once the doctor has ended.
DoctorTypeOK ==
  /\ world \in World
  /\ touched \subseteq Paths \cup Binaries \cup {"trust", "published"}
  /\ opts \in Options
  /\ step \in {"idle", "list", "files", "stat", "probe", "latest", "write", "ended", "killed"}
  /\ listed \subseteq AllCandidates
  /\ next \in 1..(Len(Candidates) + 1)
  /\ todo \subseteq Hook
  /\ probe \in [state : {"none", "running", "ok", "failed", "killed"},
                text : Versions \cup {""}, held : BOOLEAN, late : BOOLEAN]
  /\ (step = "probe") <=> (probe.state # "none")
  /\ (step \in {"stat", "probe"}) <=> (surface # NoSurface)
  /\ (surface # NoSurface) => surface \in [hook : Hook, drift : BOOLEAN] /\ next > 1
  /\ (todo # {}) => next > 1
  /\ report \in [ok : BOOLEAN, unreadable : BOOLEAN, surfaces : SUBSET Surface]
  /\ trouble \in BOOLEAN
  /\ exit \in 0..3
  /\ (step = "ended") <=> (exit # 3)

Found == {c \in AllCandidates : Listed(c, world)}
HooksOf(c) == {h \in world.files[c.path].hooks : Recognized(c, h)}

\* A file without anything the doctor would have to complain of.
CleanFile(c) ==
  LET f == world.files[c.path]
  IN  f.kind # "bad" /\ ~f.odd /\ \A h \in f.hooks : ~Suspect(c, h)

\* A hook as it should be, as far as the world has not changed meanwhile.
SoundHook(c, h) ==
  LET b == BinaryOf(c, h)
      v == world.binaries[b]
  IN  /\ h.harness /\ b = Expected(c)
      /\ c.kind = "codex-global" /\ "trust" \notin touched => world.trust
      /\ b \notin touched =>
           /\ v # Missing
           /\ opts.expected # "" => v = opts.expected
           /\ opts.latest /\ "published" \notin touched => v = world.published
           /\ opts.latest /\ c.kind = "claude-plugin" /\ opts.pluginDir # "" =>
                v = opts.pluginDir

\* Exit 0 is a verdict on everything: whatever probes failed or hung, and
\* whatever changed elsewhere meanwhile, every hook file that did not change is
\* readable and every gatekeeper hook in it is right in all respects that did
\* not change.
DoctorPassMeansSound ==
  exit = 0 =>
    \A c \in Found : c.path \notin touched =>
      CleanFile(c) /\ \A h \in HooksOf(c) : SoundHook(c, h)

Readable == world.registry # "bad" /\ \A c \in Found : world.files[c.path].kind # "bad"
AllSound ==
  /\ \A c \in Found : CleanFile(c) /\ \A h \in HooksOf(c) : SoundHook(c, h)
  /\ Cardinality(UNION {{c} \X HooksOf(c) : c \in Found}) >=
       (IF opts.latest /\ opts.min = 0 THEN 1 ELSE opts.min)

\* The exit code of an undisturbed run is exact: 2 if and only if a file could
\* not be read, however much else is wrong, and 0 if and only if all is sound.
DoctorVerdictExact ==
  exit # 3 /\ touched = {} /\ ~trouble =>
    exit = IF ~Readable THEN 2 ELSE IF AllSound THEN 0 ELSE 1

\* A doctor that was started ends, though a child hangs or its descendants
\* hold the pipe forever.
DoctorEnds == step = "list" ~> step \in {"ended", "killed"}
=============================================================================
