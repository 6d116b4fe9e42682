------------------------------- MODULE Bootstrap -------------------------------
(***************************************************************************)
(* The plugin's hook wrappers: bin/run.sh (with bin/install.sh) and, on    *)
(* native Windows, bin/run.ps1.  A wrapper runs the installed binary; if   *)
(* there is none it downloads and extracts one, then tries to build one,   *)
(* then gives up.  The harness starts one wrapper per tool call, several   *)
(* at once on a first run, and kills those that take too long.             *)
(*                                                                         *)
(* Extracting or building replaces the binary under its final name and     *)
(* with its final mode from the first byte on, so that others see it, and  *)
(* find it executable, while it is incomplete.  Where a writer finds a     *)
(* file of that name it unlinks it first: an earlier writer then goes on   *)
(* writing to a file that has no name.                                     *)
(***************************************************************************)
EXTENDS Naturals, FiniteSets

CONSTANTS
  Hooks,      \* wrapper processes
  Scripts,    \* which scripts they run, a subset of {"sh", "ps1"}
  Configs     \* the policy files they may find, a subset of ConfigFiles

\* What run.sh sees of a policy file; "quoted" is on_error = 'deny', which TOML
\* readers take for deny and the script's line patterns do not match.
Posture == {"absent", "unreadable", "silent", "abstain", "deny", "quoted"}
ConfigFiles == [{"xdg", "legacy", "project", "claude"} -> Posture]

ASSUME HooksAssumption == "nobody" \notin Hooks
ASSUME ScriptsAssumption == Scripts \subseteq {"sh", "ps1"}
ASSUME ConfigsAssumption == Configs \subseteq ConfigFiles

VARIABLES
  binary,   \* bin/claude-gatekeeper: "absent", "partial" or "complete"
  writer,   \* the wrapper whose writes go to that name, or "nobody"
  config,   \* the policy files
  escape,   \* escape[h]: GATEKEEPER_BOOTSTRAP_ABSTAIN=1
  script,   \* script[h]: the script h runs
  pc,       \* pc[h]: its next step
  exit,     \* exit[h]: its exit code, 3 before it has one
  outcome,  \* history: how h ended
  hist      \* history: two wrappers ran at once; a write was cut short

vars == <<binary, writer, config, escape, script, pc, exit, outcome, hist>>

PC == {"start", "check", "exec", "tryExec", "download", "extract", "extracting", "recheck",
       "build", "building", "lastCheck", "failure", "done", "killed"}

Running(h) == pc[h] \notin {"start", "done", "killed"}

Goto(h, from, to) ==
  /\ pc[h] = from
  /\ pc' = [pc EXCEPT ![h] = to]

Unchanged == UNCHANGED <<config, escape, script>>

Init ==
  /\ binary \in {"absent", "complete"}
  /\ writer = "nobody"
  /\ config \in Configs
  /\ escape \in [Hooks -> BOOLEAN]
  /\ script \in [Hooks -> Scripts]
  /\ pc = [h \in Hooks |-> "start"]
  /\ exit = [h \in Hooks |-> 3]
  /\ outcome = [h \in Hooks |-> "none"]
  /\ hist = [overlap |-> FALSE, cut |-> FALSE]

End(h, code, how) ==
  /\ exit' = [exit EXCEPT ![h] = code]
  /\ outcome' = [outcome EXCEPT ![h] = how]

-----------------------------------------------------------------------------
Start(h) ==
  /\ Goto(h, "start", "check")
  /\ hist' = [hist EXCEPT !.overlap = @ \/ \E g \in Hooks \ {h} : Running(g)]
  /\ UNCHANGED <<binary, writer, exit, outcome>> /\ Unchanged

\* Variant: a binary is always downloaded.
CheckBinaryIgnored(h) ==
  /\ Goto(h, "check", "download")
  /\ UNCHANGED <<binary, writer, exit, outcome, hist>> /\ Unchanged

\* An existing binary is an executable one (see above).
CheckBinary(h) ==
  /\ Goto(h, "check", IF binary = "absent" THEN "download" ELSE "exec")
  /\ UNCHANGED <<binary, writer, exit, outcome, hist>> /\ Unchanged

\* The exit codes of an attempt to execute a binary that is gone, is being
\* written, or was cut short: at its very start (an empty file is an empty
\* script), in its headers, or in its code.  PowerShell stops with 1.
BrokenExit(h) ==
  IF script[h] = "ps1" THEN {1}
  ELSE IF binary = "absent" THEN {127}
  ELSE IF writer # "nobody" THEN {126}
  ELSE {0, 126, 139}

\* exec of the binary as it is now.
Exec(h) ==
  /\ Goto(h, "exec", "done")
  /\ \/ binary = "complete" /\ End(h, 0, "gatekeeper")
     \/ /\ binary # "complete"
        /\ \E code \in BrokenExit(h) : End(h, code, "broken")
  /\ UNCHANGED <<binary, writer, hist>> /\ Unchanged

-----------------------------------------------------------------------------
(* install.sh, and its counterpart in run.ps1 *)

Download(h) ==
  /\ \/ Goto(h, "download", "extract")
     \/ Goto(h, "download", "build")
  /\ UNCHANGED <<binary, writer, exit, outcome, hist>> /\ Unchanged

OpenBinary(h) ==
  /\ binary' = "partial"
  /\ writer' = h

\* Variant: whoever ends last is taken for the one that wrote the file.
CompleteBinaryLast(h) ==
  /\ binary' = "complete"
  /\ writer' = IF writer = h THEN "nobody" ELSE writer

CompleteBinary(h) ==
  /\ binary' = IF writer = h THEN "complete" ELSE binary
  /\ writer' = IF writer = h THEN "nobody" ELSE writer

\* What h wrote so far stays.
AbandonBinary(h) ==
  /\ writer' = IF writer = h THEN "nobody" ELSE writer
  /\ hist' = [hist EXCEPT !.cut = @ \/ writer = h]
  /\ UNCHANGED binary

Extract(h) ==
  /\ Goto(h, "extract", "extracting")
  /\ OpenBinary(h)
  /\ UNCHANGED <<exit, outcome, hist>> /\ Unchanged

\* Extraction ends, or fails on the way (an I/O error, a full disk).
Extracted(h) ==
  /\ \/ Goto(h, "extracting", "recheck") /\ CompleteBinary(h) /\ UNCHANGED hist
     \/ Goto(h, "extracting", "build") /\ AbandonBinary(h)
  /\ UNCHANGED <<exit, outcome>> /\ Unchanged

Recheck(h) ==
  /\ Goto(h, "recheck", IF binary = "absent" THEN "build"
                        ELSE IF script[h] = "sh" THEN "exec" ELSE "tryExec")
  /\ UNCHANGED <<binary, writer, exit, outcome, hist>> /\ Unchanged

\* In run.ps1 this execution is inside the try: one that fails to start counts
\* as a failed download.
TryExec(h) ==
  /\ \/ binary = "complete" /\ Goto(h, "tryExec", "done") /\ End(h, 0, "gatekeeper")
     \/ binary # "complete" /\ Goto(h, "tryExec", "build") /\ UNCHANGED <<exit, outcome>>
  /\ UNCHANGED <<binary, writer, hist>> /\ Unchanged

-----------------------------------------------------------------------------
(* go build *)

\* No go, or it fails before it writes; run.ps1 does not look at its result.
Build(h) ==
  /\ \/ Goto(h, "build", "building") /\ OpenBinary(h)
     \/ /\ Goto(h, "build", "failure") /\ UNCHANGED <<binary, writer>>
     \/ /\ script[h] = "ps1"
        /\ Goto(h, "build", "exec") /\ UNCHANGED <<binary, writer>>
  /\ UNCHANGED <<exit, outcome, hist>> /\ Unchanged

Built(h) ==
  /\ \/ Goto(h, "building", "lastCheck") /\ CompleteBinary(h) /\ UNCHANGED hist
     \/ /\ Goto(h, "building", IF script[h] = "sh" THEN "failure" ELSE "exec")
        /\ AbandonBinary(h)
  /\ UNCHANGED <<exit, outcome>> /\ Unchanged

LastCheck(h) ==
  /\ Goto(h, "lastCheck", IF binary = "absent" THEN "failure" ELSE "exec")
  /\ UNCHANGED <<binary, writer, exit, outcome, hist>> /\ Unchanged

-----------------------------------------------------------------------------
(* bootstrap_failure *)

FirstOf(f, g) == IF f # "absent" THEN f ELSE g

\* Variant: a file that cannot be read is passed over.
ApplyReadable(posture, f) == IF f \in {"abstain", "deny"} THEN f ELSE posture

\* apply_posture_file: the last line that matches speaks for the file.
Apply(posture, f) ==
  CASE f = "unreadable"          -> "deny"
    [] f \in {"abstain", "deny"} -> f
    [] OTHER                     -> posture

BootstrapPosture ==
  Apply(Apply("deny", FirstOf(config["xdg"], config["legacy"])),
        FirstOf(config["project"], config["claude"]))

\* Variant: availability first.
FailureAbstains(h) ==
  /\ Goto(h, "failure", "done")
  /\ End(h, 0, "abstained")
  /\ UNCHANGED <<binary, writer, hist>> /\ Unchanged

Failure(h) ==
  /\ Goto(h, "failure", "done")
  /\ IF script[h] = "ps1" THEN End(h, 1, "gaveUp")
     ELSE IF escape[h] \/ BootstrapPosture = "abstain" THEN End(h, 0, "abstained")
     ELSE End(h, 2, "blocked")
  /\ UNCHANGED <<binary, writer, hist>> /\ Unchanged


\* The harness's timeout, or the end of the session.
Killed(h) ==
  /\ Running(h)
  /\ pc' = [pc EXCEPT ![h] = "killed"]
  /\ AbandonBinary(h)
  /\ UNCHANGED <<exit, outcome>> /\ Unchanged

-----------------------------------------------------------------------------
Step(h) ==
  \/ Start(h) \/ CheckBinary(h) \/ Exec(h)
  \/ Download(h) \/ Extract(h) \/ Extracted(h) \/ Recheck(h) \/ TryExec(h)
  \/ Build(h) \/ Built(h) \/ LastCheck(h) \/ Failure(h)

Next == \E h \in Hooks : Step(h) \/ Killed(h)

Spec == Init /\ [][Next]_vars

-----------------------------------------------------------------------------
(* Properties *)

\* Only a wrapper that extracts or builds writes the binary, and a binary
\* being written is not complete.
TypeOK ==
  /\ binary \in {"absent", "partial", "complete"}
  /\ writer \in Hooks \cup {"nobody"}
  /\ writer # "nobody" => pc[writer] \in {"extracting", "building"} /\ binary = "partial"
  /\ config \in ConfigFiles
  /\ escape \in [Hooks -> BOOLEAN]
  /\ script \in [Hooks -> {"sh", "ps1"}]
  /\ pc \in [Hooks -> PC]
  /\ exit \in [Hooks -> {0, 1, 2, 3, 126, 127, 139}]
  /\ outcome \in [Hooks -> {"none", "gatekeeper", "broken", "abstained", "blocked", "gaveUp"}]
  /\ hist \in [overlap : BOOLEAN, cut : BOOLEAN]

\* The harness takes exit 2 for a block and every other code for no objection.
Ended(h)       == pc[h] = "done"
Unprotected(h) == Ended(h) /\ outcome[h] # "gatekeeper" /\ exit[h] # 2

\* The explicit ways to ask for availability first.
AskedToAbstain(h) ==
  \/ escape[h]
  \/ "abstain" \in {FirstOf(config["xdg"], config["legacy"]),
                    FirstOf(config["project"], config["claude"])}

\* run.sh, when no download or build was ever cut short and wrappers came one
\* after the other: a call is decided by the gatekeeper, or blocked, or the
\* user asked for availability in so many words.
FailsClosedWhenAlone ==
  ~hist.overlap /\ ~hist.cut =>
    \A h \in Hooks : script[h] = "sh" /\ Unprotected(h) => AskedToAbstain(h)

\* run.sh gives up silently only on an explicit word that nothing overrules:
\* not on a global policy it cannot read, nor one a project overlay denies.
AbstainNeedsAWord ==
  \A h \in Hooks :
    outcome[h] = "abstained" /\ ~escape[h] =>
      LET global  == FirstOf(config["xdg"], config["legacy"])
          project == FirstOf(config["project"], config["claude"])
      IN project = "abstain" \/ (global = "abstain" /\ project \notin {"deny", "unreadable"})

\* A complete binary is taken away only by a wrapper that looked for it before
\* another one had finished installing it.
CompleteBinaryStays ==
  [][binary = "complete" /\ ~hist.overlap => binary' = "complete"]_vars

-----------------------------------------------------------------------------
(* What the documentation says and the code does not do *)

\* README: if the plugin wrapper cannot find, download, or build the binary, it
\* blocks the tool call by default.
BlocksByDefault == \A h \in Hooks : Unprotected(h) => AskedToAbstain(h)
=============================================================================
