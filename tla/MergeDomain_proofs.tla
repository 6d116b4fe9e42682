------------------------- MODULE MergeDomain_proofs --------------------------
(***************************************************************************)
(* The merge-domain check for every set of repositories, every seat and    *)
(* any number of changes to it.                                            *)
(***************************************************************************)
EXTENDS MergeDomain, TLAPS

\* How far the script has come tells what it has seen.  This is the argument
\* for MergesStayInDomain: each conjunct carries one observation forward to the
\* history, which only grows while the seat changes.
Seen ==
  /\ seat.domain.repos \cup pending \subseteq hist.listed
  /\ seat.origin \subseteq hist.origins
  /\ hist.filed => seat.domain.kind # "absent"
  /\ seat.lead => hist.led
  /\ pc \in {"findDomain", "openDomain", "readDomain", "readRemote", "judge"} => hist.led
  /\ pc = "readRemote" => ~hist.filed
  /\ pc \in {"lead", "findDomain", "openDomain", "readRemote"} => list = {}
  /\ pc = "readDomain" => list \subseteq hist.listed \cup (IF hist.overlap THEN Pieces ELSE {})
  /\ astray \/ (pc = "readDomain" /\ pending # {}) => hist.overlap
  /\ pc \in {"judge", "printed"} => list \subseteq Findable

\* A token other than a deny token says that the target is the seat's own.
Judged ==
  pc = "printed" /\ token \notin DenyToken =>
    hist.led /\ Target(command) \in {"none"} \cup list

\* The engine lets a merge through on an OK, or when there is no answer.
Followed == verdict = "allow" /\ pc = "printed" => token \notin DenyToken

IInv == TypeOK /\ Seen /\ Judged /\ Followed

\* A target is a repository, something unreadable, or missing.
LEMMA TargetType == ASSUME NEW c \in Command PROVE Target(c) \in Ref
BY DEF Command, Target, Ref

\* What is printed on a target is a token, and not a deny token only for a
\* target of the seat's own.
LEMMA JudgementSound ==
  ASSUME NEW domain \in SUBSET Repos, NEW t \in Ref
  PROVE  /\ Judgement(t, domain) \in Token \ {"none"}
         /\ Judgement(t, domain) \notin DenyToken => t \in {"none"} \cup domain
BY ReposAssumption DEF Judgement, Ref, Token, DenyToken

\* Nothing has been seen or judged at first.
LEMMA InitInv == Init => IInv
<1> SUFFICES ASSUME Init PROVE IInv
  OBVIOUS
<1>1. seat \in Seat /\ command \in Command
  BY SeatsAssumption, CommandsAssumption DEF Init
<1>2. seat.lead \in BOOLEAN /\ seat.domain.repos \subseteq Repos /\ seat.origin \subseteq Repos
  BY <1>1 DEF Seat, Domain
<1>3. TypeOK
  <2>1. hist \in [led : BOOLEAN, filed : BOOLEAN, listed : SUBSET Repos,
                  origins : SUBSET Repos, overlap : BOOLEAN]
    BY <1>2 DEF Init
  <2>2. pc = "lead" /\ Running
    BY DEF Init, Running
  <2>3. changes \in 0..MaxChanges
    BY ChangesAssumption DEF Init
  <2> QED BY <1>1, <2>1, <2>2, <2>3 DEF Init, TypeOK, Token
<1> QED BY <1>2, <1>3 DEF Init, IInv, Seen, Judged, Followed

\* IInv is inductive.
LEMMA StepInv == IInv /\ [Next]_vars => IInv'
<1> SUFFICES ASSUME IInv, [Next]_vars PROVE IInv'
  OBVIOUS
<1> USE DEF IInv, TypeOK, Seen, Judged, Followed, Running, Token, Findable
<1>1. CASE UNCHANGED vars
  BY <1>1 DEF vars, Target
<1>2. CASE CheckLead
  BY <1>2 DEF CheckLead, Report, Goto, Unchanged, DenyToken
<1>3. CASE FindDomain
  BY <1>3 DEF FindDomain, Goto, Unchanged
<1>4. CASE OpenDomain
  <2>1. Target(command') = Target(command)
    BY <1>4 DEF OpenDomain
  <2>2. hist' = [hist EXCEPT !.overlap = hist.overlap \/ pending # {}]
    BY <1>4 DEF OpenDomain
  <2>3. /\ hist'.overlap = (hist.overlap \/ pending # {})
        /\ hist'.led = hist.led /\ hist'.filed = hist.filed
        /\ hist'.listed = hist.listed /\ hist'.origins = hist.origins
    BY <2>2
  <2>4. TypeOK'
    BY <1>4, <2>2 DEF OpenDomain, Goto
  <2>5. Seen'
    <3>1. /\ UNCHANGED <<seat, pending, list, astray>>
          /\ pc' \in {"readDomain", "failed"} /\ pc = "openDomain" /\ list = {}
      BY <1>4 DEF OpenDomain, Goto
    <3>2. pending # {} => hist'.overlap
      BY <2>3
    <3>3. astray => hist.overlap
      BY DEF Seen
    <3> QED BY <2>3, <3>1, <3>2, <3>3
  <2> QED BY <1>4, <2>1, <2>3, <2>4, <2>5 DEF OpenDomain, Goto
<1>5. CASE ReadLine
  <2>1. seat.domain.repos \subseteq Repos
    BY DEF Seat, Domain
  <2>2. /\ list' \subseteq Repos
        /\ list' \subseteq hist.listed \cup (IF hist.overlap THEN Pieces ELSE {})
    BY <1>5, <2>1 DEF ReadLine
  <2> QED BY <1>5, <2>2 DEF ReadLine, Unchanged
<1>50. CASE ReadPiece
  <2>1. hist.overlap
    BY <1>50 DEF ReadPiece
  <2>2. list' \subseteq Repos /\ list' \subseteq hist.listed \cup Pieces
    BY <1>50, <2>1, PiecesAssumption DEF ReadPiece
  <2> QED BY <1>50, <2>1, <2>2 DEF ReadPiece
<1>6. CASE EndOfFile
  BY <1>6 DEF EndOfFile, Goto, Unchanged
<1>7. CASE ReadRemote
  <2>1. seat.origin \subseteq Repos
    BY DEF Seat
  <2> QED BY <1>7, <2>1 DEF ReadRemote, Goto, Unchanged
<1>8. CASE Judge
  <2>1. Target(command) \in Ref
    BY TargetType
  <2>2. /\ Judgement(Target(command), list) \in Token \ {"none"}
        /\ Judgement(Target(command), list) \notin DenyToken
             => Target(command) \in {"none"} \cup list
    BY <2>1, JudgementSound
  <2>3. Target(command') = Target(command)
    BY <1>8 DEF Judge, Unchanged
  <2> QED BY <1>8, <2>2, <2>3 DEF Judge, Report, Goto, Unchanged
<1>9. CASE GiveUp
  BY <1>9 DEF GiveUp, Unchanged
<1>10. CASE Decide
  <2>1. Target(command') = Target(command)
    BY <1>10 DEF Decide, Unchanged
  <2> QED BY <1>10, <2>1 DEF Decide, Unchanged
<1>11. ASSUME NEW s \in Seat, NEW W \in SUBSET Repos, NEW u \in BOOLEAN, Change(s, W, u),
              W # {} => s.domain.kind = "list",
              pc = "readDomain" => W \subseteq pending \/ u
       PROVE  IInv'
  <2>1. /\ seat' = s /\ pending' = W /\ Running /\ changes' = changes + 1
        /\ astray' = (astray \/ u)
        /\ changes < MaxChanges
        /\ UNCHANGED <<command, pc, list, token, verdict>>
    BY <1>11 DEF Change
  <2>2. hist' = [led     |-> hist.led \/ s.lead,
                 filed   |-> hist.filed /\ s.domain.kind # "absent",
                 listed  |-> hist.listed \cup s.domain.repos \cup W,
                 origins |-> hist.origins \cup s.origin,
                 overlap |-> hist.overlap \/ u]
    BY <1>11 DEF Change, Remember
  <2>3. s.lead \in BOOLEAN /\ s.domain.repos \subseteq Repos /\ s.origin \subseteq Repos
    BY DEF Seat, Domain
  <2>4. TypeOK'
    BY <1>11, <2>1, <2>2, <2>3, ChangesAssumption
  <2>5. Seen'
    BY <1>11, <2>1, <2>2, <2>3
  <2> QED BY <2>1, <2>4, <2>5
<1>12. CASE ChangeLead
  <2>1. [seat EXCEPT !.lead = ~@] \in Seat
    BY DEF Seat
  <2>2. [seat EXCEPT !.lead = ~@].domain = seat.domain
    BY DEF Seat
  <2> QED BY <1>11, <1>12, <2>1, <2>2 DEF ChangeLead
<1>13. CASE ChangeOrigin
  <2>1. PICK s \in Sources : Change([seat EXCEPT !.origin = s.origin], pending, FALSE)
    BY <1>13 DEF ChangeOrigin
  <2>2. [seat EXCEPT !.origin = s.origin] \in Seat
    BY SourcesAssumption DEF Seat
  <2>3. [seat EXCEPT !.origin = s.origin].domain = seat.domain
    BY DEF Seat
  <2> QED BY <1>11, <2>1, <2>2, <2>3
<1>14. CASE ChangeDomain
  <2>1. PICK s \in Sources :
          Change([seat EXCEPT !.domain = [s.domain EXCEPT !.repos = {}]], s.domain.repos,
                 pc = "readDomain" /\ s.domain.kind = "list")
    BY <1>14 DEF ChangeDomain
  <2> DEFINE d == [s.domain EXCEPT !.repos = {}]
  <2>2. s.domain \in Domain
    BY SourcesAssumption DEF Seat
  <2>3. d \in Domain /\ d.kind = s.domain.kind
    BY <2>2 DEF Domain
  <2>4. s.domain.repos # {} => d.kind = "list"
    BY <2>2, <2>3 DEF Domain
  <2>5. s.domain.repos \in SUBSET Repos
    BY <2>2 DEF Domain
  <2>6. [seat EXCEPT !.domain = d] \in Seat /\ [seat EXCEPT !.domain = d].domain = d
    BY <2>3 DEF Seat
  <2>7. s.domain.kind # "list" => s.domain.repos = {}
    BY <2>2 DEF Domain
  <2> QED BY <1>11, <2>1, <2>4, <2>5, <2>6, <2>7
<1>15. CASE WriteDomain
  <2>1. PICK S \in SUBSET pending :
          /\ seat' = [seat EXCEPT !.domain = List(@.repos \cup S)]
          /\ pending' = pending \ S
    BY <1>15 DEF WriteDomain
  <2>2. seat.domain.repos \cup S \in SUBSET Repos
    BY DEF Seat, Domain
  <2>3. List(seat.domain.repos \cup S) \in Domain
    BY <2>2 DEF List, Domain
  <2>4. /\ seat' \in Seat /\ seat'.domain.kind = "list"
        /\ seat'.domain.repos = seat.domain.repos \cup S
        /\ seat'.origin = seat.origin /\ seat'.lead = seat.lead
    BY <2>1, <2>3 DEF Seat, List
  <2>5. UNCHANGED <<command, pc, list, astray, token, verdict, changes, hist>>
    BY <1>15 DEF WriteDomain
  <2>6. TypeOK'
    BY <2>1, <2>4, <2>5
  <2>7. Seen'
    BY <2>1, <2>4, <2>5
  <2> QED BY <2>5, <2>6, <2>7 DEF Target
<1> QED BY <1>1, <1>2, <1>3, <1>4, <1>5, <1>50, <1>6, <1>7, <1>8, <1>9, <1>10, <1>12, <1>13, <1>14,
           <1>15 DEF Next, Script, World

\* The invariant in every reachable state.
LEMMA Invariance == Spec => []IInv
BY InitInv, StepInv, PTL DEF Spec

\* Type correctness, for any repositories, seats and number of changes.
THEOREM TypeCorrect == Spec => []TypeOK
<1>1. IInv => TypeOK
  BY DEF IInv
<1> QED BY <1>1, Invariance, PTL

\* A check that ends lets a merge through only for a seat that was a lead, into
\* what its domain file named, or its origin if there was no such file; a
\* rewrite that meets the reading adds what a piece of a text reads as.
THEOREM StaysInDomain == Spec => []MergesStayInDomain
<1>1. IInv => MergesStayInDomain
  BY DEF IInv, Seen, Judged, Followed, MergesStayInDomain
<1> QED BY <1>1, Invariance, PTL

\* While nobody has touched the seat, the script has read what the seat is.
Untouched ==
  changes = 0 =>
    /\ pending = {} /\ ~astray
    /\ pc \in {"findDomain", "openDomain", "readDomain", "readRemote", "judge"} => seat.lead
    /\ pc \in {"openDomain", "readDomain"} => seat.domain.kind # "absent"
    /\ pc = "readRemote" => seat.domain.kind = "absent"
    /\ pc \in {"lead", "findDomain", "openDomain"} => list = {}
    /\ pc = "readDomain" => list \subseteq seat.domain.repos
    /\ pc = "judge" => list = Authority(seat)
    /\ pc = "printed" => (token \notin DenyToken <=> MayMerge(seat, command))
    /\ pc = "printed" /\ verdict # "none" => (verdict = "allow" <=> token \notin DenyToken)

\* On an untouched seat the judgement is exactly the seat's authority.
LEMMA JudgementExact ==
  ASSUME NEW domain \in SUBSET Repos, NEW t \in Ref
  PROVE  Judgement(t, domain) \notin DenyToken <=> t \in domain \cup {"none"}
BY ReposAssumption DEF Judgement, Ref, DenyToken

\* A seat starts untouched.
LEMMA UntouchedInit == Init => Untouched
BY DEF Init, Untouched

\* On a seat that is left alone what was read stays what is there.
LEMMA UntouchedStep == TypeOK /\ Untouched /\ [Next]_vars => Untouched'
<1> SUFFICES ASSUME TypeOK, Untouched, [Next]_vars, changes' = 0 PROVE Untouched'
  BY DEF Untouched
<1>1. ASSUME NEW s, NEW W, NEW u, Change(s, W, u) PROVE FALSE
  BY <1>1 DEF Change, TypeOK
<1>2. ~ChangeLead /\ ~ChangeOrigin /\ ~ChangeDomain
  BY <1>1 DEF ChangeLead, ChangeOrigin, ChangeDomain
<1>3. changes = 0 /\ ~WriteDomain /\ ~ReadPiece
  BY <1>2 DEF Untouched, Next, Script, World, vars, CheckLead, FindDomain, OpenDomain, ReadLine,
     ReadPiece, EndOfFile, ReadRemote, Judge, GiveUp, Decide, Unchanged, WriteDomain
<1>4. UNCHANGED <<seat, pending, command, astray>>
  BY <1>2, <1>3 DEF Next, Script, World, vars, CheckLead, FindDomain, OpenDomain, ReadLine,
     EndOfFile, ReadRemote, Judge, GiveUp, Decide, Unchanged
<1>5. Authority(seat)' = Authority(seat) /\ MayMerge(seat, command)' = MayMerge(seat, command)
  BY <1>4 DEF Authority, MayMerge, Target
<1>6. seat.domain.repos \subseteq Repos /\ (seat.domain.kind # "list" => seat.domain.repos = {})
  BY DEF TypeOK, Seat, Domain
<1> USE <1>3, <1>4, <1>5 DEF Untouched, TypeOK, Running
<1>7. CASE UNCHANGED vars
  BY <1>7 DEF vars
<1>8. CASE CheckLead
  BY <1>8 DEF CheckLead, Report, Goto, DenyToken, MayMerge
<1>9. CASE FindDomain
  BY <1>9 DEF FindDomain, Goto
<1>10. CASE OpenDomain
  BY <1>10 DEF OpenDomain, Goto
<1>11. CASE ReadLine
  BY <1>11 DEF ReadLine
<1>12. CASE EndOfFile
  BY <1>12 DEF EndOfFile, Goto, Authority
<1>13. CASE ReadRemote
  BY <1>13 DEF ReadRemote, Goto, Authority
<1>14. CASE Judge
  <2>1. Target(command) \in Ref
    BY TargetType
  <2>2. Judgement(Target(command), list) \notin DenyToken <=> Target(command) \in list \cup {"none"}
    BY <2>1, JudgementExact
  <2>3. seat.lead /\ list = Authority(seat)
    BY <1>14 DEF Judge, Report, Goto
  <2>4. Judgement(Target(command), list) \notin DenyToken <=> MayMerge(seat, command)
    BY <2>2, <2>3 DEF MayMerge
  <2> QED BY <1>14, <2>4 DEF Judge, Report, Goto
<1>15. CASE GiveUp
  BY <1>15 DEF GiveUp
<1>16. CASE Decide
  BY <1>16 DEF Decide
<1> QED BY <1>2, <1>3, <1>7, <1>8, <1>9, <1>10, <1>11, <1>12, <1>13, <1>14, <1>15, <1>16
        DEF Next, Script, World

\* A seat nobody touches meanwhile is judged by its authority, whatever the
\* repositories and the command.
THEOREM SettledDecidesRight == Spec => []SettledSeatDecidesRight
<1>1. IInv => TypeOK
  BY DEF IInv
<1>2. TypeOK /\ Untouched => SettledSeatDecidesRight
  BY DEF Untouched, SettledSeatDecidesRight, TypeOK
<1> QED BY <1>1, <1>2, UntouchedInit, UntouchedStep, Invariance, PTL DEF Spec
=============================================================================
