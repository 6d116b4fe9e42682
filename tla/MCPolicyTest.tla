---------------------------- MODULE MCPolicyTest ----------------------------
(* Instances of PolicyTest for TLC. *)
EXTENDS PolicyTest

MCInputs  == {"rm", "ls"}
MCReasons == {"no rm", "never"}
MCDirs    == {"here", "there"}

On(tool, input) == [tool |-> tool, input |-> input]

DenyRm    == Rule("deny", "no rm", {On("Bash", "rm")})
DenyNever == Rule("deny", "never", {On("Bash", "rm"), On("Read", "rm")})
AllowAll  == Rule("allow", "", {On(tool, i) : tool \in {"Bash", "Read", "Glob"}, i \in MCInputs})

P(rules)   == Text("policy", "unset", rules)
NoText     == Text("absent", "unset", {})
JunkText   == Text("junk", "unset", {})
MCTexts    == {NoText, JunkText, P({InvalidRule}), P({DenyRm}), P({AllowAll}),
               P({DenyRm, DenyNever}), P({DenyNever, AllowAll})}
MCSaved    == {P({AllowAll}), P({DenyRm}), P({InvalidRule})}

\* Every pair of a global and a project file, the global one at either place;
\* the file of --config and the other directory hold the same two.
MCDisks ==
  UNION {{[xdg |-> f, legacy |-> g, config |-> f, here |-> g, there |-> f],
          [xdg |-> NoText, legacy |-> f, config |-> g, here |-> g, there |-> NoText]}
         : f, g \in MCTexts}

Case(tool, by, input, cwd, expected, reason) ==
  [tool |-> tool, by |-> by, input |-> input, cwd |-> cwd, expected |-> expected,
   reason |-> reason]
Tests(cases) == [decoded |-> TRUE, cases |-> cases]

DeniesRm == Case("Bash", "command", "rm", "", "deny", "")
MCSuites ==
  {[decoded |-> FALSE, cases |-> <<>>], Tests(<<>>),
   Tests(<<DeniesRm, Case("Read", "command", "rm", "", "deny", "")>>),
   Tests(<<DeniesRm, Case("Bash", "both", "rm", "", "deny", "")>>),
   Tests(<<DeniesRm>>),
   Tests(<<Case("Bash", "input", "rm", "", "deny", "no rm"),
           Case("Glob", "input", "ls", "there", "allow", "")>>),
   Tests(<<Case("Read", "input", "rm", "", "deny", "never"),
           Case("Bash", "command", "ls", "there", "abstain", "")>>),
   Tests(<<Case("Bash", "command", "ls", "", "allow", ""),
           Case("Bash", "command", "rm", "there", "deny", ""), DeniesRm>>)}
=============================================================================
