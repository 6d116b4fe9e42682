---------------------------- MODULE MCCodexTrust ----------------------------
(* Instances of CodexTrust for TLC. *)
EXTENDS CodexTrust

H(command, timeout) ==
  [type |-> "command", command |-> command, matcher |-> "none", timeout |-> timeout, async |-> FALSE]

Start(list, approved) == [groups |-> list, approved |-> approved]

\* Fresh; an older install approved with another timeout, before a hook that
\* is approved too; our command made async, or under a matcher that does not
\* compile, by hand; a group without handlers.
Starts ==
  {Start(<<>>, {}),
   Start(<< <<H("own", 5)>>, <<H("other", -1)>> >>, {<<1, 1>>, <<2, 1>>}),
   Start(<< <<H("other", 0), H("old", 10)>> >>, {<<1, 1>>}),
   Start(<< <<[H("own", 10) EXCEPT !.async = TRUE]>>, <<>> >>, {<<1, 1>>}),
   Start(<< <<[H("own", 10) EXCEPT !.matcher = "invalid"]>> >>, {})}

Added == {H("other", 1), H("own", 5), [H("own", 5) EXCEPT !.type = "other"]}

OneApproved == {Start(<< <<H("own", 10)>>, <<H("other", -1)>> >>, {<<1, 1>>, <<2, 1>>})}
NoHooks     == {}
=============================================================================
