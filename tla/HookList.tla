------------------------------- MODULE HookList -------------------------------
(***************************************************************************)
(* The PreToolUse list of a harness's hook file and the edits setup makes  *)
(* to it.  A list is a sequence of matcher groups, a group a sequence of   *)
(* handlers, a handler a record with a command.  A command is one of:      *)
(*   "own"       the installed binary, claude-gatekeeper,                  *)
(*   "old"       another path ending in claude-gatekeeper,                 *)
(*   "exe"       the installed binary on Windows, claude-gatekeeper.exe,   *)
(*   "prefixed"  claude-gatekeeper behind a GATEKEEPER_ON_ERROR=...        *)
(*               assignment, the README's way to fail closed,              *)
(*   "other"     a hook that has nothing to do with the gatekeeper,        *)
(*   "blank"     white space only.                                         *)
(* Entries and handlers that are no JSON objects, and handlers without a   *)
(* command, are kept as they are, exactly like "other".  An entry whose    *)
(* "hooks" is missing or no array is a group without handlers; where       *)
(* "hooks" or "PreToolUse" itself is of another type the list is empty.    *)
(***************************************************************************)
EXTENDS Naturals, Sequences, SequencesExt

Command == {"own", "old", "exe", "prefixed", "other", "blank"}

\* What the base name of the first word tells, and what a shell would run.
GatekeeperCommand == {"own", "old"}
RunsGatekeeper    == {"own", "old", "exe", "prefixed"}

\* strings.Fields finds no first word.
NoFirstWord(c) == c = "blank"

Handlers(list)        == UNION {ToSet(list[i]) : i \in DOMAIN list}
Commands(list)        == {h.command : h \in Handlers(list)}
HasCommand(list, c)   == c \in Commands(list)
HasGatekeeperHook(list) == Commands(list) \cap GatekeeperCommand # {}

\* Looking at a command without a first word panics.  Removal looks at all
\* commands, the search for a gatekeeper hook at none behind the first it finds.
Unscannable(list) == \E c \in Commands(list) : NoFirstWord(c)

Unsearchable(list) ==
  LET flat == FlattenSeq(list) IN
  \E i \in DOMAIN flat :
    /\ NoFirstWord(flat[i].command)
    /\ \A j \in 1..(i - 1) : flat[j].command \notin GatekeeperCommand

\* A group without its handlers with a command in C, the others in order.
\* (Not a SelectSeq: the proofs look into the definition.)
Without(group, C) ==
  FlattenSeq([i \in DOMAIN group |-> IF group[i].command \in C THEN <<>> ELSE <<group[i]>>])

Kept(group) == Without(group, GatekeeperCommand)

\* Variant: a group with a gatekeeper handler goes as a whole.
RemoveWholeGroup(list) ==
  FlattenSeq([i \in DOMAIN list |-> IF Kept(list[i]) # list[i] THEN <<>> ELSE <<list[i]>>])

\* A group left without handlers is dropped, also one that had none before.
RemoveGatekeeperHook(list) ==
  FlattenSeq([i \in DOMAIN list |-> IF Kept(list[i]) = <<>> THEN <<>> ELSE <<Kept(list[i])>>])

\* Variant: appended beside what is there.
RegisteredBeside(list, own) == Append(list, <<own>>)

\* Remove what is there, append our own group.
Registered(list, own) ==
  Append(IF HasGatekeeperHook(list) THEN RemoveGatekeeperHook(list) ELSE list, <<own>>)

\* The handlers that are not ours to touch, and those the code takes for its
\* own, in file order.
Foreign(list)    == Without(FlattenSeq(list), RunsGatekeeper)
Recognised(list) == Without(FlattenSeq(list), Command \ GatekeeperCommand)
=============================================================================
