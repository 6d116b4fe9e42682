----------------------------- MODULE MergeDomain -----------------------------
(***************************************************************************)
(* scripts/merge-domain-check.sh as the engine runs it: the precondition   *)
(* of a deny rule on merge commands, next to a standing rule that allows   *)
(* them.  The script looks at the seat (the lead marker, the domain file,  *)
(* the origin remote) one thing after the other while fleet tooling        *)
(* rewrites them, and prints one token; a precondition that fails, or runs *)
(* out of its five seconds, skips the deny rule.                           *)
(*                                                                         *)
(* The domain file is read through one open file, from an offset, while it *)
(* may be rewritten in place: the loop can meet a line in the middle, or   *)
(* before all of it is there, and takes what it then sees for a line (one  *)
(* without a newline counts).  A text with no repository in it is written  *)
(* in one go.                                                              *)
(***************************************************************************)
EXTENDS Naturals

CONSTANTS
  Repos,       \* repositories, by their normalized owner/name
  Pieces,      \* those a piece of a line, or of a comment, can be taken for
  Commands,    \* the merge commands under evaluation, a subset of Command
  StartSeats,  \* the seats to start with, a subset of Seat
  Sources,     \* seats whose origin and domain file the seat may take over
  MaxChanges   \* bound on the changes to the seat while the script runs

\* What a command says of the repository it merges in: by a flag (--repo, -R),
\* by the path of an API call, or by a GraphQL mutation.  A flag or a path is
\* missing, or names a repository, or something that cannot be read as one.
Ref     == Repos \cup {"none", "opaque"}
Command == [flag : Ref, path : Ref, mutation : BOOLEAN]

\* A domain file: missing, there but not readable, or a list of repositories
\* (lines that are not an owner/name are dropped, so they are not in it).
Domain == {d \in [kind : {"absent", "unreadable", "list"}, repos : SUBSET Repos] :
             d.kind # "list" => d.repos = {}}
List(S) == [kind |-> "list", repos |-> S]

\* origin is the set of repositories read from the remote: one or none.
Seat == [lead : BOOLEAN, domain : Domain, origin : SUBSET Repos]

ASSUME ReposAssumption == {"none", "opaque"} \cap Repos = {}
ASSUME PiecesAssumption == Pieces \subseteq Repos
ASSUME CommandsAssumption == Commands \subseteq Command
ASSUME SeatsAssumption == StartSeats \subseteq Seat
ASSUME SourcesAssumption == Sources \subseteq Seat
ASSUME ChangesAssumption == MaxChanges \in Nat

VARIABLES
  seat,     \* the files and the remote of the seat
  pending,  \* the list a rewrite of the domain file is putting in place, or {}
  command,  \* the tool input, GATEKEEPER_INPUT
  pc,       \* the script's next step
  list,     \* DOMAIN_LIST
  astray,   \* the offset of the loop need not be the end of the lines it has read
  token,    \* what the script printed
  verdict,  \* the engine's decision on the call
  changes,  \* number of changes to the seat
  hist      \* history: what the seat was at some time, or throughout

vars == <<seat, pending, command, pc, list, astray, token, verdict, changes, hist>>

Token     == {"none", "EXEC", "FOREIGN", "UNPARSEABLE", "NODOMAIN", "OK"}
DenyToken == {"EXEC", "FOREIGN", "UNPARSEABLE", "NODOMAIN"}

Init ==
  /\ seat \in StartSeats
  /\ pending = {}
  /\ command \in Commands
  /\ pc = "lead"
  /\ list = {}
  /\ astray = FALSE
  /\ token = "none"
  /\ verdict = "none"
  /\ changes = 0
  /\ hist = [led |-> seat.lead, filed |-> seat.domain.kind # "absent",
             listed |-> seat.domain.repos, origins |-> seat.origin, overlap |-> FALSE]

Goto(from, to) == pc = from /\ pc' = to
Unchanged == UNCHANGED <<seat, pending, command, astray, changes, hist>>

\* Print a token and exit 0.
Report(from, t) ==
  /\ Goto(from, "printed")
  /\ token' = t
  /\ UNCHANGED <<list, verdict>>

-----------------------------------------------------------------------------
(* The script *)

\* Variant: EXEC is printed without leaving the script.
CheckLeadStays ==
  /\ Goto("lead", "findDomain")
  /\ token' = IF seat.lead THEN token ELSE "EXEC"
  /\ UNCHANGED <<list, verdict>> /\ Unchanged

CheckLead ==
  /\ \/ seat.lead /\ Goto("lead", "findDomain") /\ UNCHANGED <<list, token, verdict>>
     \/ ~seat.lead /\ Report("lead", "EXEC")
  /\ Unchanged

\* Variant: the remote is consulted whenever the file names nothing.
FindDomainFallsBack ==
  /\ Goto("findDomain", IF seat.domain.repos = {} THEN "readRemote" ELSE "openDomain")
  /\ UNCHANGED <<list, token, verdict>> /\ Unchanged

\* A domain file that exists, readable or not, settles where to look.
FindDomain ==
  /\ Goto("findDomain", IF seat.domain.kind = "absent" THEN "readRemote" ELSE "openDomain")
  /\ UNCHANGED <<list, token, verdict>> /\ Unchanged

\* Under set -e a file that cannot be opened (any more) ends the script.
OpenDomain ==
  /\ Goto("openDomain", IF seat.domain.kind = "list" THEN "readDomain" ELSE "failed")
  /\ hist' = [hist EXCEPT !.overlap = @ \/ pending # {}]
  /\ UNCHANGED <<seat, pending, command, list, astray, token, verdict, changes>>

\* One line after the other, of a file that may change under the loop.  (A file
\* replaced by a rename is read to its old end: the same as reading it before.)
ReadLine ==
  /\ pc = "readDomain"
  /\ \E r \in seat.domain.repos \ list : list' = list \cup {r}
  /\ UNCHANGED <<pc, token, verdict>> /\ Unchanged

\* A line that is not all there yet, or whose beginning the offset has passed.
\* The rest of it, if there is one, will be taken for a line as well.
ReadPiece ==
  /\ pc = "readDomain" /\ (pending # {} \/ astray)
  /\ \E r \in Pieces : list' = list \cup {r}
  /\ astray' = TRUE
  /\ UNCHANGED <<seat, pending, command, pc, token, verdict, changes, hist>>

\* An offset gone astray leaves lines out.
EndOfFile ==
  /\ Goto("readDomain", "judge")
  /\ seat.domain.repos \subseteq list \/ astray
  /\ UNCHANGED <<list, token, verdict>> /\ Unchanged

ReadRemote ==
  /\ Goto("readRemote", "judge")
  /\ list' = seat.origin
  /\ UNCHANGED <<token, verdict>> /\ Unchanged

\* The first thing that tells: a flag, a path, a mutation.
Target(c) ==
  IF c.flag # "none" THEN c.flag
  ELSE IF c.path # "none" THEN c.path
  ELSE IF c.mutation THEN "opaque"
  ELSE "none"

\* Variant: a seat without a domain lets its lead merge.
JudgementTrusting(target, domain) ==
  CASE target = "opaque" -> "UNPARSEABLE"
    [] target = "none"   -> "OK"
    [] OTHER             -> IF domain = {} \/ target \in domain THEN "OK" ELSE "FOREIGN"

Judgement(target, domain) ==
  CASE target = "opaque" -> "UNPARSEABLE"
    [] target = "none"   -> "OK"
    [] target \in Repos /\ domain = {} -> "NODOMAIN"
    [] OTHER             -> IF target \in domain THEN "OK" ELSE "FOREIGN"

Judge == Report("judge", Judgement(Target(command), list)) /\ Unchanged

-----------------------------------------------------------------------------
(* The engine *)

Running == pc \in {"lead", "findDomain", "openDomain", "readDomain", "readRemote", "judge"}

\* The five seconds are over, or git or sed could not be run.
GiveUp ==
  /\ Running
  /\ pc' = "failed"
  /\ UNCHANGED <<list, token, verdict>> /\ Unchanged

\* The deny rule applies if the precondition succeeded and its output matches;
\* otherwise the standing rule does.
Decide ==
  /\ verdict = "none"
  /\ pc \in {"printed", "failed"}
  /\ verdict' = IF pc = "printed" /\ token \in DenyToken THEN "deny" ELSE "allow"
  /\ UNCHANGED <<pc, list, token>> /\ Unchanged

-----------------------------------------------------------------------------
(* The seat, changed by fleet tooling and its user *)

Remember(s, written, under) ==
  hist' = [led     |-> hist.led \/ s.lead,
           filed   |-> hist.filed /\ s.domain.kind # "absent",
           listed  |-> hist.listed \cup s.domain.repos \cup written,
           origins |-> hist.origins \cup s.origin,
           overlap |-> hist.overlap \/ under]

\* under: the change rewrites the file the loop is reading.
Change(s, written, under) ==
  /\ Running /\ changes < MaxChanges
  /\ changes' = changes + 1
  /\ seat' = s
  /\ pending' = written
  /\ astray' = (astray \/ under)
  /\ Remember(s, written, under)
  /\ UNCHANGED <<command, pc, list, token, verdict>>

ChangeLead   == Change([seat EXCEPT !.lead = ~@], pending, FALSE)
ChangeOrigin == \E s \in Sources : Change([seat EXCEPT !.origin = s.origin], pending, FALSE)

\* Removed, made unreadable, or truncated in order to be rewritten.
ChangeDomain ==
  \E s \in Sources :
    Change([seat EXCEPT !.domain = [s.domain EXCEPT !.repos = {}]], s.domain.repos,
           pc = "readDomain" /\ s.domain.kind = "list")

\* Lines reach the file in any number of writes, which need not end with a line
\* (ReadPiece).
WriteDomain ==
  /\ pending # {}
  /\ \E S \in SUBSET pending :
       /\ S # {}
       /\ seat' = [seat EXCEPT !.domain = List(@.repos \cup S)]
       /\ pending' = pending \ S
  /\ UNCHANGED <<command, pc, list, astray, token, verdict, changes, hist>>

-----------------------------------------------------------------------------
Script ==
  \/ CheckLead \/ FindDomain \/ OpenDomain \/ ReadLine \/ ReadPiece \/ EndOfFile
  \/ ReadRemote \/ Judge
World  == ChangeLead \/ ChangeOrigin \/ ChangeDomain \/ WriteDomain

Next == Script \/ GiveUp \/ Decide \/ World

Spec == Init /\ [][Next]_vars

-----------------------------------------------------------------------------
(* Properties *)

\* The shapes of the variables; only a file that lists repositories is being
\* rewritten, and only a script that ended has been judged by the engine.
TypeOK ==
  /\ seat \in Seat
  /\ pending \subseteq Repos
  /\ (pending # {} => seat.domain.kind = "list")
  /\ command \in Command
  /\ pc \in {"printed", "failed"} \/ Running
  /\ list \subseteq Repos
  /\ astray \in BOOLEAN
  /\ token \in Token
  /\ (token # "none") <=> (pc = "printed")
  /\ verdict \in {"none", "allow", "deny"}
  /\ (verdict # "none") => ~Running
  /\ changes \in 0..MaxChanges
  /\ hist \in [led : BOOLEAN, filed : BOOLEAN, listed : SUBSET Repos,
              origins : SUBSET Repos, overlap : BOOLEAN]

\* What the seat's authority is at one moment, by the script's header: the
\* domain file if there is one, else the origin.
Authority(s) == IF s.domain.kind = "absent" THEN s.origin ELSE s.domain.repos
MayMerge(s, c) ==
  s.lead /\ Target(c) \in Authority(s) \cup {"none"}

\* A seat nobody touches meanwhile is judged by its authority: its lead merges
\* in the domain and nowhere else, and nobody else merges at all.
SettledSeatDecidesRight ==
  changes = 0 /\ pc = "printed" /\ verdict # "none" =>
    (verdict = "allow" <=> MayMerge(seat, command))

\* What a check may find to be the domain, whenever it looks: what the domain
\* file named at some time; the origin if there was a time without a domain
\* file; and what a piece of a text reads as, if a rewrite of the file was under
\* way, or had been broken off, while the script had it open.
Findable ==
  hist.listed \cup (IF hist.filed THEN {} ELSE hist.origins)
              \cup (IF hist.overlap THEN Pieces ELSE {})

\* Whatever changes in the middle of the check: a check that ends lets a merge
\* through only for a seat that was a lead at some time, and only into what
\* could be found to be its domain.  An empty domain file never falls back to
\* the origin, and a file no rewrite of which meets the reading names nothing
\* that was not written there.
MergesStayInDomain ==
  verdict = "allow" /\ pc = "printed" =>
    hist.led /\ Target(command) \in {"none"} \cup Findable

-----------------------------------------------------------------------------
(* What the documentation says and the code does not do *)

\* The script's header: always exits 0, and never non-zero on a deny path.  If
\* it ends by itself (is not given up) it has printed a token: it does not if the
\* domain file cannot be opened, and the deny rule is then skipped.
AlwaysPrintsAToken == [][Script => pc' # "failed"]_vars
=============================================================================
