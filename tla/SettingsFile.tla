----------------------------- MODULE SettingsFile -----------------------------
(***************************************************************************)
(* How `setup` and `uninstall` rewrite a harness's hook file: read, back   *)
(* up, edit in memory, write path.tmp, rename it over the path.  Several   *)
(* such commands may run at once on the same file, each may be interrupted *)
(* or meet an I/O error at any step, and a user (or the harness itself)    *)
(* may save the file at any time.                                          *)
(*                                                                         *)
(* As on a POSIX file system, two commands that open path.tmp write to the *)
(* same file, and a rename moves it even while the other still writes: an  *)
(* open file is known by the name it has now.                              *)
(***************************************************************************)
EXTENDS HookList, FiniteSets

\* A hook list; the order of groups and handlers is that of the file.
Doc == Seq(Seq([command : Command]))

CONSTANTS
  Procs,      \* invocations of setup and uninstall on one file
  OwnCommand, \* the command setup registers, "own" or (on Windows) "exe"
  StartDocs,  \* the hook lists the file may start with
  Saves,      \* the hook lists a user may save
  MaxSaves,   \* bound on the number of such saves
  MaxClock    \* bound on the seconds that pass

ASSUME OwnAssumption == OwnCommand \in {"own", "exe"}
ASSUME DocsAssumption == StartDocs \cup Saves \subseteq Doc
ASSUME BoundsAssumption == MaxSaves \in Nat /\ MaxClock \in Nat

VARIABLES
  live,     \* the hook file
  tmp,      \* its .tmp sibling
  backups,  \* backups[t]: the backup named after second t
  clock,    \* the current second
  saves,    \* number of user saves
  op,       \* op[p]: the command p runs
  pc,       \* pc[p]: its next step
  mem,      \* mem[p]: the hook list it holds in memory
  buf,      \* buf[p]: what it read for its backup
  stamp,    \* stamp[p]: the second its backup is named after
  fd,       \* fd[p]: what the file it has open is called now
  hist      \* history of the file, no command reads it:
            \*   overlap     two commands were running at once
            \*   lateSave    a save fell between a command's start and its end
            \*   sameSecond  two backups were written in one second
            \*   docs        what the user had in place and did not replace himself
            \*   foreign     the other hooks in the last of them

procs == <<op, pc, mem, buf, stamp, fd>>
vars == <<live, tmp, backups, clock, saves, procs, hist>>

\* Contents of a file: missing, empty, unparseable bytes, or a JSON document.
Absent     == [kind |-> "absent", list |-> <<>>]
Empty      == [kind |-> "empty", list |-> <<>>]
Torn       == [kind |-> "torn", list |-> <<>>]
Json(list) == [kind |-> "json", list |-> list]

\* The commands that work on one and the same file.
OpsOnOneFile == {{"install", "uninstall"}, {"codex"}, {"grok"}}

Own == [command |-> OwnCommand]

PC == {"idle", "backup", "backupRead", "backupWrite", "edit", "open", "write", "rename",
       "ok", "failed", "crashed"}
Ended      == {"ok", "failed", "crashed"}
Running(p) == pc[p] \notin {"idle"} \cup Ended

Goto(p, from, to) ==
  /\ pc[p] = from
  /\ pc' = [pc EXCEPT ![p] = to]

Init ==
  /\ live \in {Absent} \cup {Json(doc) : doc \in StartDocs}
  /\ tmp = Absent
  /\ backups = [t \in 0..MaxClock |-> Absent]
  /\ clock = 0
  /\ saves = 0
  /\ \E ops \in OpsOnOneFile : op \in [Procs -> ops]
  /\ pc = [p \in Procs |-> "idle"]
  /\ mem = [p \in Procs |-> <<>>]
  /\ buf = [p \in Procs |-> Absent]
  /\ stamp = [p \in Procs |-> 0]
  /\ fd = [p \in Procs |-> "none"]
  /\ hist = [overlap |-> FALSE, lateSave |-> FALSE, sameSecond |-> FALSE,
             docs |-> {live} \ {Absent}, foreign |-> Foreign(live.list)]

-----------------------------------------------------------------------------
(* Reading and deciding *)

\* install stops when its very command is registered, uninstall when no
\* gatekeeper hook is there; a command without a first word makes the scan
\* panic.  grok's file is the gatekeeper's alone and is not read.
AfterRead(o, list) ==
  IF o = "install" /\ HasCommand(list, OwnCommand) THEN "ok"
  ELSE IF o = "uninstall" /\ Unsearchable(list) THEN "crashed"
  ELSE IF o = "uninstall" /\ ~HasGatekeeperHook(list) THEN "ok"
  ELSE "backup"

AfterOpen(o) ==
  IF o = "grok" THEN "backup"
  ELSE IF live.kind \in {"empty", "torn"} THEN "failed"
  ELSE IF live = Absent /\ o = "uninstall" THEN "ok"
  ELSE AfterRead(o, live.list)

Read(p) ==
  /\ Goto(p, "idle", AfterOpen(op[p]))
  /\ mem' = [mem EXCEPT ![p] = live.list]
  /\ LET met == \E q \in Procs \ {p} : Running(q)
     IN hist' = [hist EXCEPT !.overlap = @ \/ met]
  /\ UNCHANGED <<live, tmp, backups, clock, saves, op, buf, stamp, fd>>

-----------------------------------------------------------------------------
(* backup: it is named after this second, then the file is read and copied *)

BackupName(p) ==
  /\ Goto(p, "backup", IF live = Absent THEN "edit" ELSE "backupRead")
  /\ stamp' = [stamp EXCEPT ![p] = clock]
  /\ UNCHANGED <<live, tmp, backups, clock, saves, op, mem, buf, fd, hist>>

BackupRead(p) ==
  /\ Goto(p, "backupRead", "backupWrite")
  /\ buf' = [buf EXCEPT ![p] = live]
  /\ UNCHANGED <<live, tmp, backups, clock, saves, op, mem, stamp, fd, hist>>

\* Variant: no backup is written.
BackupSkipped(p) ==
  /\ Goto(p, "backupWrite", "edit")
  /\ UNCHANGED <<live, tmp, backups, clock, saves, op, mem, buf, stamp, fd, hist>>

BackupWrite(p) ==
  /\ \/ /\ Goto(p, "backupWrite", "edit")
        /\ backups' = [backups EXCEPT ![stamp[p]] = buf[p]]
     \/ /\ Goto(p, "backupWrite", "failed")
        /\ backups' = [backups EXCEPT ![stamp[p]] = Torn]
  /\ hist' = [hist EXCEPT !.sameSecond = @ \/ backups[stamp[p]] # Absent]
  /\ UNCHANGED <<live, tmp, clock, saves, op, mem, buf, stamp, fd>>

-----------------------------------------------------------------------------
(* The edit in memory *)

Edited(o, list) ==
  CASE o = "uninstall" -> RemoveGatekeeperHook(list)
    [] o = "grok"      -> << <<Own>> >>
    [] OTHER           -> Registered(list, Own)

EditList(p) ==
  /\ IF op[p] # "grok" /\ Unscannable(mem[p])
     THEN Goto(p, "edit", "crashed") /\ UNCHANGED mem
     ELSE Goto(p, "edit", "open") /\ mem' = [mem EXCEPT ![p] = Edited(op[p], @)]
  /\ UNCHANGED <<live, tmp, backups, clock, saves, op, buf, stamp, fd, hist>>

-----------------------------------------------------------------------------
(* writeSettings and writeJSONFile: write path.tmp, rename it *)

OpenTmp(p) ==
  /\ Goto(p, "open", "write")
  /\ tmp' = Empty
  /\ fd' = [fd EXCEPT ![p] = "tmp"]
  /\ UNCHANGED <<live, backups, clock, saves, op, mem, buf, stamp, hist>>

\* What a file holds after c was written to it from its start: what another
\* command wrote meanwhile may stick out.
WrittenOver(old, c) == IF old = Empty THEN {c} ELSE {c, Torn}

\* What p writes goes to the file it has open, whatever it is called.
Opened(p) == CASE fd[p] = "tmp" -> tmp [] fd[p] = "live" -> live [] OTHER -> Empty

Put(p, c) ==
  /\ tmp' = IF fd[p] = "tmp" THEN c ELSE tmp
  /\ live' = IF fd[p] = "live" THEN c ELSE live
  /\ fd' = [fd EXCEPT ![p] = "none"]

WriteTmp(p) ==
  /\ Goto(p, "write", "rename")
  /\ \E c \in WrittenOver(Opened(p), Json(mem[p])) : Put(p, c)
  /\ UNCHANGED <<backups, clock, saves, op, mem, buf, stamp, hist>>

\* Variant of WriteFails: the error is not looked at.
WriteFailsUnseen(p) ==
  /\ Goto(p, "write", "rename")
  /\ \E c \in {Opened(p), Torn} : Put(p, c)
  /\ UNCHANGED <<backups, clock, saves, op, mem, buf, stamp, hist>>

\* Variant of WriteFails: the file stays open.
WriteFailsOpen(p) ==
  /\ Goto(p, "write", "failed")
  /\ UNCHANGED <<live, tmp, fd, backups, clock, saves, op, mem, buf, stamp, hist>>

\* An I/O error or a kill while writing.
WriteFails(p) ==
  /\ Goto(p, "write", "failed")
  /\ \E c \in {Opened(p), Torn} : Put(p, c)
  /\ UNCHANGED <<backups, clock, saves, op, mem, buf, stamp, hist>>

\* What was called path.tmp is called path from now on; files open under the
\* old path have no name any more.
Rename(p) ==
  /\ IF tmp = Absent
     THEN Goto(p, "rename", "failed") /\ UNCHANGED <<live, tmp, fd>>
     ELSE /\ Goto(p, "rename", "ok")
          /\ live' = tmp
          /\ tmp' = Absent
          /\ fd' = [q \in Procs |-> CASE fd[q] = "tmp"  -> "live"
                                      [] fd[q] = "live" -> "gone"
                                      [] OTHER          -> fd[q]]
  /\ UNCHANGED <<backups, clock, saves, op, mem, buf, stamp, hist>>

\* Any other error, or the process being killed: nothing is cleaned up.
Stop(p) ==
  /\ Running(p)
  /\ pc[p] # "write"
  /\ \E end \in {"failed", "crashed"} : pc' = [pc EXCEPT ![p] = end]
  /\ UNCHANGED <<live, tmp, backups, clock, saves, op, mem, buf, stamp, fd, hist>>

-----------------------------------------------------------------------------
(* The user, and time *)

Save ==
  /\ saves < MaxSaves
  /\ saves' = saves + 1
  /\ \E doc \in Saves :
       /\ live' = Json(doc)
       /\ hist' = [hist EXCEPT !.docs = (@ \ {live}) \cup {Json(doc)},
                               !.foreign = Foreign(doc),
                               !.lateSave = @ \/ \E p \in Procs : Running(p)]
  /\ fd' = [p \in Procs |-> IF fd[p] = "live" THEN "gone" ELSE fd[p]]
  /\ UNCHANGED <<tmp, backups, clock, op, pc, mem, buf, stamp>>

Tick ==
  /\ clock < MaxClock
  /\ clock' = clock + 1
  /\ UNCHANGED <<live, tmp, backups, saves, procs, hist>>

-----------------------------------------------------------------------------
Step(p) ==
  \/ Read(p) \/ BackupName(p) \/ BackupRead(p) \/ BackupWrite(p) \/ EditList(p)
  \/ OpenTmp(p) \/ WriteTmp(p) \/ WriteFails(p) \/ Rename(p) \/ Stop(p)

Next == (\E p \in Procs : Step(p)) \/ Save \/ Tick

Spec == Init /\ [][Next]_vars

-----------------------------------------------------------------------------
(* Properties *)

\* A command ran beside another one, or while the user saved.
Raced == hist.overlap \/ hist.lateSave

Readable == live.kind \in {"absent", "json"}

File == [kind : {"absent", "empty", "torn", "json"}, list : Doc]

\* The shapes of the variables; a command has a file open only to write it.
TypeOK ==
  /\ live \in File /\ tmp \in File
  /\ backups \in [0..MaxClock -> File]
  /\ clock \in 0..MaxClock
  /\ saves \in 0..MaxSaves
  /\ op \in [Procs -> UNION OpsOnOneFile]
  /\ pc \in [Procs -> PC]
  /\ stamp \in [Procs -> 0..MaxClock]
  /\ fd \in [Procs -> {"none", "tmp", "live", "gone"}]
  /\ \A p \in Procs : fd[p] # "none" => pc[p] = "write"

\* As long as commands run one after the other, the harness never finds its
\* hook file cut short: not during a write, nor after a crash, an I/O error
\* or a user's save at any step, nor with the .tmp of an earlier crash around.
NeverTorn == ~hist.overlap => Readable

\* Commands that race with nobody keep the hooks that are not the
\* gatekeeper's, in their order, whatever fails on the way (grok's file is
\* the gatekeeper's own and is replaced as a whole).
ForeignHooksKept ==
  ~Raced /\ (\A p \in Procs : op[p] # "grok") =>
    Foreign(live.list) = hist.foreign

\* What a user had in the file, and did not replace himself, is still there or
\* in a backup, however commands overlap and wherever they stop: the first that
\* renames has a copy.  (Not so if he saves while a command runs, or if two
\* backups get the name of one second.)
UserDocsRecoverable ==
  ~hist.lateSave /\ ~hist.sameSecond =>
    \A doc \in hist.docs :
      \/ live = doc
      \/ \E t \in DOMAIN backups : backups[t] = doc

\* What a command makes of the file: its edit of the list it found there.
EditedFile(o, file) == Json(Edited(o, file.list))

\* Commands that run one after the other replace the file in one step, each at
\* most once and by its edit of what it had found, through every failure and
\* crash, and whatever a user saves before or after the step.
Planned(p) ==
  IF ~Running(p) THEN {}
  ELSE IF pc[p] \in {"backup", "backupRead", "backupWrite", "edit"} THEN {Json(Edited(op[p], mem[p]))}
  ELSE {Json(mem[p])}

Atomic == INSTANCE AtomicFile WITH
  Contents <- {Json(doc) : doc \in Saves},
  Edit     <- EditedFile,
  file     <- live,
  begun    <- {p \in Procs : pc[p] # "idle"},
  plan     <- [p \in Procs |-> Planned(p)],
  collided <- hist.overlap
ReplacedAtOnce == Atomic!Spec

\* A command that renames its file without a race leaves it as asked: our
\* command there, as the only one with a gatekeeper's name, or none at all.
\* (On Windows our command has another name than the one looked for.)
JobDone(o, list) ==
  IF o = "uninstall"
  THEN Recognised(list) = <<>>
  ELSE /\ HasCommand(list, OwnCommand)
       /\ Recognised(list) = Recognised(<< <<Own>> >>)

RenameDoesItsJob ==
  [][\A p \in Procs :
       pc[p] = "rename" /\ pc'[p] = "ok" /\ ~Raced => JobDone(op[p], live'.list)]_vars

=============================================================================
