--------------------------- MODULE MCMergeDomain ----------------------------
(* Instances of MergeDomain for TLC. *)
EXTENDS MergeDomain

CONSTANTS own, other, cut

\* The third one is never named: it is what a cut line reads as.
AllRepos == {own, other, cut}
OneCut   == {cut}

\* Every combination of flag, path and mutation is a command.
AllCommands == Command

\* Every seat whose origin is a repository or none.
AllSeats == {s \in Seat : s.origin # {own, other} /\ cut \notin s.domain.repos \cup s.origin}

\* A seat starts as a lead or not, and becomes anything; half of its changes
\* are enough to show the rest.
ChangedSeats == {s \in AllSeats : s.lead}
=============================================================================
