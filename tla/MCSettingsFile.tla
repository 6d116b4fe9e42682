--------------------------- MODULE MCSettingsFile ---------------------------
(* Instances of SettingsFile for TLC. *)
EXTENDS SettingsFile, TLC

CONSTANTS p1, p2

TwoProcs == {p1, p2}

\* Commands differ in what they run, not in their names.
Alike == Permutations(TwoProcs)

H(c) == [command |-> c]

\* Hook lists with the gatekeeper alone, among others in one group, between
\* others, registered under another path or behind an assignment, and with an
\* empty group, or a blank command on either side of it.
Lists ==
  {<<>>,
   << <<H("other")>> >>,
   << <<H("old"), H("other")>>, <<H("other")>> >>,
   << <<H("other")>>, <<H("old")>>, <<>>, <<H("own"), H("old")>> >>,
   << <<H("prefixed")>>, <<H("own")>> >>,
   << <<H("blank")>>, <<H("old")>> >>,
   << <<H("old")>>, <<H("blank")>> >>}

SavedLists == { << <<H("other"), H("own")>> >>, << <<H("old")>>, <<H("other")>>, <<H("other")>> >> }
=============================================================================
