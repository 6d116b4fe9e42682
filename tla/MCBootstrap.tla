----------------------------- MODULE MCBootstrap -----------------------------
(* Instances of Bootstrap for TLC. *)
EXTENDS Bootstrap

CONSTANTS w1, w2

TwoWrappers == {w1, w2}

Files(x, l, p, c) ==
  [n \in {"xdg", "legacy", "project", "claude"} |->
     CASE n = "xdg" -> x [] n = "legacy" -> l [] n = "project" -> p [] OTHER -> c]

\* Every pair of layers, with one shadowed file each.
Layers == {Files("absent", g, "absent", p) : g \in Posture, p \in Posture}
            \cup {Files("silent", "abstain", "silent", "abstain"),
                  Files("unreadable", "abstain", "deny", "abstain")}

NoConfig     == {Files("absent", "absent", "absent", "absent")}
Both         == {"sh", "ps1"}
Sh           == {"sh"}
=============================================================================
