------------------------------ MODULE CodexTrust ------------------------------
(***************************************************************************)
(* Codex runs a hook only if its configuration holds, under a key that     *)
(* names the hook's position in hooks.json, the hash of the hook found     *)
(* there.  `setup --harness codex` rewrites the list, then inspects the    *)
(* trust of what it installed; doctor only inspects.  Meanwhile the user   *)
(* edits the list and approves hooks.  (How the file is written is         *)
(* SettingsFile's subject; here a rewrite is one step.)                    *)
(***************************************************************************)
EXTENDS HookList, FiniteSets

CONSTANTS
  StartLists,   \* hook lists to start with, with their approvals as given
  UserHooks,    \* handlers a user may add
  MaxEdits,     \* bound on the number of user edits
  MaxGroups,    \* bound on the length of a list a user edit leaves
  MaxHandlers   \* bound on the size of a group a user edit leaves

\* Positions are pairs of a group and a handler in it.
At(list, pos) == list[pos[1]][pos[2]]
InList(list)  == UNION {{i} \X DOMAIN list[i] : i \in DOMAIN list}

\* A handler carries the matcher of its group; -1 is an omitted timeout.
Handler == [type : {"command", "other"}, command : Command,
            matcher : {"none", "valid", "invalid"}, timeout : Nat \cup {-1}, async : BOOLEAN]

ASSUME HooksAssumption == UserHooks \subseteq Handler
ASSUME StartAssumption ==
  \A start \in StartLists :
    start.groups \in Seq(Seq(Handler)) /\ start.approved \subseteq InList(start.groups)
ASSUME LimitsAssumption == {MaxEdits, MaxGroups, MaxHandlers} \subseteq Nat

\* What InstallCodex appends.
OwnHandler ==
  [type |-> "command", command |-> "own", matcher |-> "none", timeout |-> 10, async |-> FALSE]

VARIABLES
  groups,   \* hooks.json: the PreToolUse list
  trust,    \* config.toml: trust[key], the trusted hash of a position that has one
  readable, \* config.toml can be read and parsed
  step,     \* progress of the running command
  purpose,  \* "setup" or "doctor"
  found,    \* the key and hash Inspect computed
  result,   \* what the last command reported
  edits,    \* number of user edits
  edited    \* history: the list changed since the command looked at it

trustVars == <<groups, trust, readable, step, purpose, found, result, edits, edited>>

\* The hash of no hook.
NoHash == [command |-> "none"]

-----------------------------------------------------------------------------
(* hashPreToolUse: the hash of a hook stands for what is hashed *)

Hash(h) ==
  [h EXCEPT !.timeout = CASE @ = -1 -> 600 [] @ = 0 -> 1 [] OTHER -> @]

\* The same, as Codex does it.
CodexHash(h) ==
  [h EXCEPT !.timeout = IF @ = -1 THEN 600 ELSE IF @ < 1 THEN 1 ELSE @]

\* Codex runs the hook at a position.
Runs(list, tr, pos) ==
  LET h == At(list, pos)
  IN /\ h.type = "command" /\ ~h.async /\ h.matcher # "invalid"
     /\ pos \in DOMAIN tr /\ tr[pos] = CodexHash(h)

-----------------------------------------------------------------------------
TrustInit ==
  /\ \E start \in StartLists :
       /\ groups = start.groups
       /\ trust = [pos \in start.approved |-> CodexHash(At(start.groups, pos))]
  /\ readable = TRUE
  /\ step = "idle"
  /\ purpose = "setup"
  /\ found = [key |-> <<0, 0>>, hash |-> NoHash]
  /\ result = "none"
  /\ edits = 0
  /\ edited = FALSE

\* InstallCodex, up to the rename.
SetupWrite ==
  /\ step = "idle"
  /\ ~Unscannable(groups)
  /\ groups' = Registered(groups, OwnHandler)
  /\ step' = "inspect"
  /\ purpose' = "setup"
  /\ edited' = FALSE
  /\ UNCHANGED <<trust, readable, found, result, edits>>

\* doctor inspects what is there.
Doctor ==
  /\ step = "idle"
  /\ step' = "inspect"
  /\ purpose' = "doctor"
  /\ edited' = FALSE
  /\ UNCHANGED <<groups, trust, readable, found, result, edits>>

\* The positions of our command, and the first of them, where Inspect stops.
OwnAt(list) ==
  {pos \in InList(list) : At(list, pos).type = "command" /\ At(list, pos).command = "own"}
Before(p, q) == p[1] < q[1] \/ (p[1] = q[1] /\ p[2] < q[2])
FirstOwn(list) == {pos \in OwnAt(list) : \A q \in OwnAt(list) \ {pos} : Before(pos, q)}

\* Codex looks at neither an async hook nor one whose matcher is invalid.
Eligible(list) ==
  {pos \in FirstOwn(list) : ~At(list, pos).async /\ At(list, pos).matcher # "invalid"}

\* Variant: keys count from one where Codex counts from zero.
KeyOffByOne(pos) == <<pos[1] + 1, pos[2]>>

\* The key of a position (positions here and keys there count alike).
Key(pos) == pos

\* Inspect reads hooks.json: no such hook, a hook Codex skips, or a key and a
\* hash to look up.
InspectHooks ==
  /\ step = "inspect"
  /\ \/ /\ Eligible(groups) = {}
        /\ step' = "idle"
        /\ result' = "error"
        /\ UNCHANGED found
     \/ \E pos \in Eligible(groups) :
        /\ step' = "compare"
        /\ found' = [key |-> Key(pos), hash |-> Hash(At(groups, pos))]
        /\ UNCHANGED result
  /\ UNCHANGED <<groups, trust, readable, purpose, edits, edited>>

\* Variant: any trusted hash will do.
InspectTrustAny ==
  /\ step = "compare"
  /\ step' = "idle"
  /\ result' = IF found.key \in DOMAIN trust THEN "verified" ELSE "untrusted"
  /\ UNCHANGED <<groups, trust, readable, purpose, found, edits, edited>>

\* ... then config.toml; a missing one trusts nothing.
InspectTrust ==
  /\ step = "compare"
  /\ step' = "idle"
  /\ result' = IF ~readable THEN "error"
               ELSE IF found.key \notin DOMAIN trust THEN "untrusted"
               ELSE IF trust[found.key] = found.hash THEN "verified"
               ELSE "modified"
  /\ UNCHANGED <<groups, trust, readable, purpose, found, edits, edited>>

-----------------------------------------------------------------------------
(* The user *)

\* /hooks in Codex: approve the hook at a position.
ApproveAt(pos) ==
  /\ readable
  /\ trust' = [key \in DOMAIN trust \cup {pos} |->
                IF key = pos THEN CodexHash(At(groups, pos)) ELSE trust[key]]
  /\ trust' # trust
  /\ UNCHANGED <<groups, readable, step, purpose, found, result, edits, edited>>

Approve    == \E pos \in InList(groups) : ApproveAt(pos)
ApproveOwn == \E pos \in OwnAt(groups) : ApproveAt(pos)

\* Add a hook in a group of its own, in an existing group, or remove one.
EditHooks ==
  /\ edits < MaxEdits
  /\ edits' = edits + 1
  /\ \/ /\ Len(groups) < MaxGroups
        /\ \E h \in UserHooks, i \in 1..(Len(groups) + 1) :
             groups' = InsertAt(groups, i, <<h>>)
     \/ \E h \in UserHooks, i \in DOMAIN groups :
          /\ Len(groups[i]) \in 1..(MaxHandlers - 1)
          /\ groups' = [groups EXCEPT ![i] = << [h EXCEPT !.matcher = groups[i][1].matcher] >> \o @]
     \/ \E i \in DOMAIN groups : groups' = RemoveAt(groups, i)
  /\ edited' = TRUE
  /\ result' = "none"
  /\ UNCHANGED <<trust, readable, step, purpose, found>>

\* Break config.toml, or repair it.
EditConfig ==
  /\ edits < MaxEdits
  /\ edits' = edits + 1
  /\ readable' = ~readable
  /\ edited' = TRUE
  /\ result' = "none"
  /\ UNCHANGED <<groups, trust, step, purpose, found>>

-----------------------------------------------------------------------------
TrustNext == SetupWrite \/ Doctor \/ InspectHooks \/ InspectTrust \/ Approve \/ EditHooks \/ EditConfig

TrustSpec == TrustInit /\ [][TrustNext]_trustVars

\* What setup's message asks of the user: approve the hook, rerun setup.  A
\* command that was started gets to its end.
FairSpec ==
  /\ TrustSpec
  /\ WF_trustVars(InspectHooks) /\ WF_trustVars(InspectTrust)
  /\ SF_trustVars(SetupWrite) /\ WF_trustVars(ApproveOwn)
-----------------------------------------------------------------------------
(* Properties *)

\* Lists of handlers, hashes at positions; the key about to be looked up names
\* a hook of the list it was computed from.
TrustTypeOK ==
  /\ groups \in Seq(Seq(Handler))
  /\ DOMAIN trust \subseteq Nat \X Nat
  /\ trust \in [DOMAIN trust -> Handler]
  /\ readable \in BOOLEAN
  /\ step \in {"idle", "inspect", "compare"}
  /\ purpose \in {"setup", "doctor"}
  /\ found \in [key : Nat \X Nat, hash : Handler \cup {NoHash}]
  /\ step = "compare" /\ ~edited => found.key \in InList(groups)
  /\ result \in {"none", "verified", "untrusted", "modified", "error"}
  /\ edits \in 0..MaxEdits
  /\ edited \in BOOLEAN

\* What setup and doctor report is what Codex does with the hook as it stands
\* at that moment: "verified" if it runs it, anything else if it skips it.
\* Only an edit between the two reads can make the report stale.
ReportIsTrue ==
  [][step # "idle" /\ step' = "idle" /\ ~edited =>
       (result' = "verified" <=>
          readable /\ \E pos \in FirstOwn(groups) : Runs(groups, trust, pos))]_trustVars

\* Rerunning setup after the approval it asks for moves no hook, so that the
\* approval still fits: the list setup writes is the list a rerun writes.  (Not
\* so with a group that had no handlers: a first setup keeps it, the rerun,
\* which has something to remove, drops it, and a second approval is due.)
RerunMovesNothing ==
  [][SetupWrite /\ <<>> \notin ToSet(groups) =>
       Registered(groups', OwnHandler) = groups']_trustVars

\* The documented way to a trusted install ends: once the user stops editing,
\* approves what setup installed and reruns it, setup verifies, unless he has
\* left a config.toml that cannot be read.
SetupConverges == <>[]readable => <>[](result = "verified")

-----------------------------------------------------------------------------
(* What the documentation says and the code does not do *)

\* InstallCodex merges because clobbering hooks.json "would silently disable"
\* the other hooks in it: another hook Codex ran before setup it runs after.
OtherHooksStayEnabled ==
  [][SetupWrite =>
       \A pos \in InList(groups) :
         At(groups, pos).command \notin RunsGatekeeper /\ Runs(groups, trust, pos) =>
           \E new \in InList(groups') :
             At(groups', new) = At(groups, pos) /\ Runs(groups', trust, new)]_trustVars
=============================================================================
