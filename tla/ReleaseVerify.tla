---------------------------- MODULE ReleaseVerify ----------------------------
(***************************************************************************)
(* claude-gatekeeper verify-release: it downloads a published release,     *)
(* checks its checksum, asks the downloaded, the host's and the plugin's   *)
(* binary for their version, has the plugin's binary run the doctor        *)
(* (module Doctor, as a child process) and has the downloaded one deny a   *)
(* canary command on each harness.  One deadline covers it all.            *)
(*                                                                         *)
(* The commands are run without a WaitDelay: the wait for a child's pipe   *)
(* to be closed by its descendants is not bounded by the deadline.         *)
(***************************************************************************)
EXTENDS Doctor

CONSTANTS
  StartReleases, \* what the requested tag may have published, of Release
  VerifyWorlds,  \* the worlds a verification is run in
  VerifyOptions  \* the options it calls the doctor with

Harness == {"claude", "codex", "grok"}
Canary(h) == CASE h = "claude" -> "claude canary" [] h = "codex" -> "codex canary"
               [] h = "grok" -> "grok canary"

\* What the API and the download URLs serve: whether the exact tag is there, is
\* a draft, has all assets; whether checksums.txt has a valid entry and it
\* matches the archive; whether the archive unpacks (safe paths, no error); the
\* one gatekeeper binary in it (or Missing), and the harnesses for which that
\* binary answers a denied call with the deny wire and the rule's reason.
Release ==
  [exact : BOOLEAN, draft : BOOLEAN, complete : BOOLEAN, entry : BOOLEAN,
   genuine : BOOLEAN, unpacks : BOOLEAN, binary : Versions \cup {"", Missing},
   denies : SUBSET Harness]

ASSUME ReleasesAssumption == StartReleases \subseteq Release
ASSUME VerifyAssumption ==
  /\ VerifyWorlds \subseteq StartWorlds
  /\ VerifyOptions \subseteq {o \in Options : o.expected # "" /\ ~o.latest}

VARIABLES
  release,  \* what is published under the tag
  vstep,    \* what the verifier does next; "off" if the doctor runs alone
  checks,   \* Result.Checks
  command,  \* the command it waits for
  vlate,    \* whether its two minutes are over
  code,     \* Result.ExitCode
  vexit     \* exit code; 3 while there is none

verify_vars == <<release, vstep, checks, command, vlate, code, vexit>>
vars == <<dvars, verify_vars>>

Tag == opts.expected  \* without its v

Early    == {"release", "assets", "download", "checksum", "archive"}
Probes   == {"downloaded version", "host version", "plugin version"}
Canaries == {Canary(h) : h \in Harness}
Commands == Probes \cup {"doctor"} \cup Canaries
CheckName == (Early \ {"download"}) \cup Commands

After(s) ==
  CASE s = "release" -> "assets"              [] s = "assets" -> "download"
    [] s = "download" -> "checksum"           [] s = "checksum" -> "archive"
    [] s = "archive" -> "downloaded version"  [] s = "downloaded version" -> "host version"
    [] s = "host version" -> "plugin version" [] s = "plugin version" -> "doctor"
    [] s = "doctor" -> "claude canary"        [] s = "claude canary" -> "codex canary"
    [] s = "codex canary" -> "grok canary"    [] s = "grok canary" -> "report"

NoCommand == [state |-> "none", good |-> FALSE, held |-> FALSE]

NoRelease ==
  [exact |-> FALSE, draft |-> FALSE, complete |-> FALSE, entry |-> FALSE, genuine |-> FALSE,
   unpacks |-> FALSE, binary |-> Missing, denies |-> {}]

VerifyInit ==
  /\ checks = {}
  /\ command = NoCommand
  /\ vlate = FALSE
  /\ code = 0
  /\ vexit = 3

\* The doctor is run by a user, or by the verifier.
Init ==
  \/ DoctorInit("list") /\ VerifyInit /\ vstep = "off" /\ release = NoRelease
  \/ /\ DoctorInit("idle") /\ VerifyInit /\ vstep = "release" /\ release \in StartReleases
     /\ world \in VerifyWorlds /\ opts \in VerifyOptions

-----------------------------------------------------------------------------
(* Up to the extracted binary *)

Add(name, ok) == checks' = checks \cup {[name |-> name, ok |-> ok]}

Verdict(ok) ==
  /\ Add(vstep, ok)
  /\ vstep' = IF ok THEN After(vstep) ELSE "report"
  /\ UNCHANGED vexit

\* Errors that leave no meaningful report: transport, JSON, local files.
BreakOff ==
  /\ vstep' = "ended" /\ vexit' = 2
  /\ UNCHANGED checks

\* Variant: the archive is looked up in checksums.txt and not compared.
PassesUncompared(s) ==
  CASE s = "release"  -> release.exact /\ ~release.draft
    [] s = "assets"   -> release.complete
    [] s = "checksum" -> release.entry
    [] s = "archive"  -> release.unpacks /\ release.binary # Missing

\* What each early check asks of the release.
Passes(s) ==
  CASE s = "release"  -> release.exact /\ ~release.draft
    [] s = "assets"   -> release.complete
    [] s = "checksum" -> release.entry /\ release.genuine
    [] s = "archive"  -> release.unpacks /\ release.binary # Missing

\* A check that fails here ends the verification with a report; so does an
\* error in reading checksums.txt or in unpacking.
EarlyCheck ==
  /\ vstep \in Early
  /\ \/ vstep # "assets" /\ BreakOff
     \/ /\ vstep = "download" /\ ~vlate
        /\ vstep' = "checksum"
        /\ UNCHANGED <<checks, vexit>>
     \/ /\ vstep \in Early \ {"download"} /\ (vstep = "release" => ~vlate)
        /\ Verdict(Passes(vstep))
     \/ vstep \in {"checksum", "archive"} /\ Verdict(FALSE)
  /\ UNCHANGED <<dvars, release, command, vlate, code>>

-----------------------------------------------------------------------------
(* Commands *)

\* The version of the program that a command runs.
Program ==
  CASE vstep = "host version" -> world.binaries[HostBinary]
    [] vstep \in {"plugin version", "doctor"} -> world.binaries[PluginBinary]
    [] OTHER -> release.binary

IsDoctor == vstep = "doctor" /\ command.state # "none" /\ step # "idle"

\* Variant: a command that failed is left out of the report.
ConcludeSkipping(ok, exitCode) ==
  /\ IF ok THEN Add(vstep, ok) ELSE UNCHANGED checks
  /\ code' = IF vstep = "doctor" THEN exitCode ELSE code
  /\ command' = NoCommand
  /\ vstep' = After(vstep)

\* A command passes or fails, and the next one follows in either case; only
\* the doctor's exit code is kept.
Conclude(ok, exitCode) ==
  /\ Add(vstep, ok)
  /\ code' = IF vstep = "doctor" THEN exitCode ELSE code
  /\ command' = NoCommand
  /\ vstep' = After(vstep)

\* A version probe is good if it prints the tag, a canary if it denies, and a
\* plugin binary that is not the gatekeeper may answer anything to "doctor".
Good ==
  CASE vstep \in Probes   -> {Program = Tag}
    [] vstep = "doctor"   -> BOOLEAN
    [] vstep \in Canaries -> {\E h \in release.denies : vstep = Canary(h)}

\* A command is not started when the time is over, or without a binary.
StartCommand ==
  /\ vstep \in Commands /\ command.state = "none"
  /\ IF vlate \/ Program = Missing
     THEN Conclude(FALSE, 2) /\ UNCHANGED step
     ELSE /\ \E good \in Good :
               command' = [state |-> "running", good |-> good, held |-> FALSE]
          /\ step' = IF vstep = "doctor" /\ Program # "" THEN "list" ELSE step
          /\ UNCHANGED <<vstep, checks, code>>
  /\ UNCHANGED <<world, touched, opts, listed, next, todo, surface, probe, report, trouble, exit,
                 release, vlate, vexit>>

\* The child exits, and may leave descendants that hold its output open.  The
\* doctor leaves none: its probes have pipes of their own.
CommandExits ==
  /\ command.state = "running" /\ ~IsDoctor
  /\ \E s \in {"ok", "failed"}, h \in BOOLEAN :
       command' = [command EXCEPT !.state = s, !.held = h]
  /\ UNCHANGED <<dvars, release, vstep, checks, vlate, code, vexit>>

\* Variant: a doctor that ran has passed.
DoctorExitsWell ==
  /\ command.state = "running" /\ IsDoctor /\ step = "ended"
  /\ command' = [command EXCEPT !.state = "ok", !.good = TRUE]
  /\ UNCHANGED <<dvars, release, vstep, checks, vlate, code, vexit>>

DoctorExits ==
  /\ command.state = "running" /\ IsDoctor /\ step = "ended"
  /\ command' = [command EXCEPT !.state = IF exit = 0 THEN "ok" ELSE "failed", !.good = TRUE]
  /\ UNCHANGED <<dvars, release, vstep, checks, vlate, code, vexit>>

\* Variant: the deadline does not reach the running command.
DeadlineUnheard ==
  /\ vstep \notin {"off", "ended"} /\ ~vlate
  /\ vlate' = TRUE
  /\ UNCHANGED <<dvars, release, vstep, checks, command, code, vexit>>

\* The deadline kills the running command, and no other can be started.
Deadline ==
  /\ vstep \notin {"off", "ended"} /\ ~vlate
  /\ vlate' = TRUE
  /\ IF command.state = "running"
     THEN /\ \E h \in BOOLEAN :
               command' = [command EXCEPT !.state = "killed", !.held = h /\ ~IsDoctor]
          /\ IF IsDoctor /\ step # "ended" THEN KillDoctor ELSE UNCHANGED dvars
     ELSE UNCHANGED <<command, dvars>>
  /\ UNCHANGED <<release, vstep, checks, code, vexit>>

CommandReleased ==
  /\ command.held
  /\ command' = [command EXCEPT !.held = FALSE]
  /\ UNCHANGED <<dvars, release, vstep, checks, vlate, code, vexit>>

\* Run returns once the pipe is closed; then, a deadline that has passed makes
\* an error even of a success.
CommandEnds ==
  /\ command.state \in {"ok", "failed", "killed"} /\ ~command.held
  /\ \/ command.state = "ok" /\ command.good /\ ~vlate /\ Conclude(TRUE, 0)
     \/ /\ command.state # "ok" \/ ~command.good \/ vlate
        /\ \E c \in (IF vlate THEN {2} ELSE IF IsDoctor THEN {exit} ELSE {1, 2}) :
             Conclude(FALSE, c)
  /\ UNCHANGED <<dvars, release, vlate, vexit>>

-----------------------------------------------------------------------------
(* The report *)

ResultOK == checks # {} /\ \A c \in checks : c.ok

Report ==
  /\ vstep = "report"
  /\ vstep' = "ended"
  /\ \/ vexit' = 2
     \/ vexit' = IF ResultOK THEN 0 ELSE IF code = 0 THEN 1 ELSE code
  /\ UNCHANGED <<dvars, release, checks, command, vlate, code>>

-----------------------------------------------------------------------------
VerifyStep == EarlyCheck \/ StartCommand \/ DoctorExits \/ CommandEnds \/ Report

Next ==
  \/ DoctorNext /\ (vstep = "off" \/ IsDoctor) /\ vstep # "ended" /\ UNCHANGED verify_vars
  \/ Changes /\ vstep \notin {"off", "ended"} /\ ~IsDoctor /\ UNCHANGED verify_vars
  \/ VerifyStep \/ CommandExits \/ CommandReleased \/ Deadline

\* The two programs and their timers go on; nothing is assumed of the children.
Fairness ==
  /\ WF_vars(DoctorStep /\ UNCHANGED verify_vars)
  /\ WF_vars(ProbeWaits /\ UNCHANGED verify_vars)
  /\ WF_vars(VerifyStep)
  /\ WF_vars(Deadline)

Spec == Init /\ [][Next]_vars /\ Fairness

-----------------------------------------------------------------------------
(* Properties *)

\* The shapes of the variables; a command belongs to its step, and a result is
\* kept at most once for every check.
TypeOK ==
  /\ DoctorTypeOK
  /\ release \in Release
  /\ vstep \in Early \cup Commands \cup {"off", "report", "ended"}
  /\ checks \subseteq [name : CheckName, ok : BOOLEAN]
  /\ \A c, d \in checks : c.name = d.name => c = d
  /\ command \in [state : {"none", "running", "ok", "failed", "killed"},
                  good : BOOLEAN, held : BOOLEAN]
  /\ (command.state # "none") => vstep \in Commands
  /\ vlate \in BOOLEAN
  /\ code \in 0..2
  /\ vexit \in 0..3
  /\ (vexit # 3) <=> (vstep = "ended")

\* The verifier is a gate made of its eleven checks: it exits 0 only if each of
\* them was made and passed, so a step that was skipped, broken off or killed
\* is never taken for a pass.
Gate == INSTANCE CheckGate WITH
  checks  <- CheckName,
  passed  <- {c.name : c \in {d \in checks : d.ok}},
  failed  <- {c.name : c \in {d \in checks : ~d.ok}},
  verdict <- CASE vexit = 3 -> "none" [] vexit = 0 -> "pass"
               [] vexit = 1 -> "fail" [] vexit = 2 -> "error"
VerifyGate == Gate!Spec

Published ==
  /\ release.exact /\ ~release.draft /\ release.complete
  /\ release.entry /\ release.genuine /\ release.unpacks

\* Exit 0 says of the release, the host and the live hooks together: the tag is
\* published in full and genuine, its binary reports the tag's version and
\* denies on all harnesses, host and plugin run that version, and every hook
\* the doctor can find is right, as far as nothing of it changed meanwhile.  (Of
\* the hooks the plugin's binary is the judge: one replaced since its version was
\* asked may pass anything.)
VerifyPassMeansSound ==
  vexit = 0 =>
    /\ Published /\ release.binary = Tag /\ release.denies = Harness
    /\ \A b \in {HostBinary, PluginBinary} : b \notin touched => world.binaries[b] = Tag
    /\ PluginBinary \notin touched => \A c \in Found : c.path \notin touched =>
         CleanFile(c) /\ \A h \in HooksOf(c) : SoundHook(c, h)
    /\ touched = {} => AllSound

\* The downloaded binary is executed only if it is what a published tag's
\* checksums say.
RunsOnlyVerified ==
  command.state # "none" /\ vstep \in {"downloaded version"} \cup Canaries => Published

\* The verification ends unless something holds a command's pipe forever.
VerifyEnds == []<>(~command.held) => (vstep = "release" ~> vstep = "ended")
=============================================================================
