------------------------------ MODULE HookInput ------------------------------
(***************************************************************************)
(* How the adapters turn a harness's hook input into the canonical call    *)
(* that rules are matched against: a tool name and one string.             *)
(***************************************************************************)

Harness == {"claude", "codex", "grok"}

\* A payload: the harness's name for the tool and its input fields; a field
\* that is not in DOMAIN fields is missing, and "notString" is of another type.
\* The text of a whole input is one more string.
Raw == "raw"
Payload(name, fields) == [name |-> name, fields |-> fields]

\* The field that the Claude wire (and Codex's) matches against, by tool.
ClaudeKey ==
  [Bash |-> "command", Read |-> "file_path", Write |-> "file_path", Edit |-> "file_path",
   Glob |-> "pattern", Grep |-> "pattern", WebFetch |-> "url", WebSearch |-> "query",
   Agent |-> "subagent_type"]

CodexAlias == [shell |-> "Bash", local_shell |-> "Bash"]

GrokAlias ==
  [Shell |-> "Bash", run_terminal_command |-> "Bash", search_replace |-> "Edit",
   write |-> "Write", read_file |-> "Read", grep |-> "Grep", list_dir |-> "Glob",
   web_fetch |-> "WebFetch", web_search |-> "WebSearch"]

\* WebSearch is missing on purpose: its input has not been captured.
GrokKey ==
  [Bash |-> "command", Read |-> "target_file", Write |-> "file_path", Edit |-> "file_path",
   Glob |-> "target_directory", Grep |-> "pattern", WebFetch |-> "url"]

Alias(table, name) == IF name \in DOMAIN table THEN table[name] ELSE name

\* A tool without a key is matched by its name.  On the Claude wire a missing
\* field is an empty string, and an input that does not decode is matched raw;
\* on grok's both fall back to the tool's name.
ExtractClaude(tool, fields) ==
  IF tool \notin DOMAIN ClaudeKey THEN tool
  ELSE IF ClaudeKey[tool] \notin DOMAIN fields THEN ""
  ELSE IF fields[ClaudeKey[tool]] = "notString" THEN Raw
  ELSE fields[ClaudeKey[tool]]

ExtractGrok(tool, fields) ==
  IF tool \notin DOMAIN GrokKey THEN tool
  ELSE IF GrokKey[tool] \notin DOMAIN fields THEN tool
  ELSE IF fields[GrokKey[tool]] = "notString" THEN tool
  ELSE fields[GrokKey[tool]]

\* Variant: Codex's shell is taken for an unknown tool.
ParseInputUnaliased(h, p) ==
  LET tool == IF h = "grok" THEN Alias(GrokAlias, p.name) ELSE p.name
  IN  [tool |-> tool, input |-> IF h = "grok" THEN ExtractGrok(tool, p.fields)
                                ELSE ExtractClaude(tool, p.fields)]

ParseInput(h, p) ==
  LET tool == CASE h = "claude" -> p.name
                [] h = "codex"  -> Alias(CodexAlias, p.name)
                [] h = "grok"   -> Alias(GrokAlias, p.name)
  IN  [tool |-> tool, input |-> IF h = "grok" THEN ExtractGrok(tool, p.fields)
                                ELSE ExtractClaude(tool, p.fields)]

-----------------------------------------------------------------------------
(* What the harnesses send, from the captures the adapters quote *)

NativeNames(h, tool) ==
  CASE h = "claude" -> {tool}
    [] h = "codex"  -> {tool} \cup {n \in DOMAIN CodexAlias : CodexAlias[n] = tool}
    [] h = "grok"   -> {n \in DOMAIN GrokAlias : GrokAlias[n] = tool}

NativeKey(h, tool) == IF h = "grok" THEN GrokKey[tool] ELSE ClaudeKey[tool]

\* The tools whose main input field has been verified for a harness.
Verified(h) == IF h = "grok" THEN DOMAIN GrokKey ELSE DOMAIN ClaudeKey

\* A harness's ways to make a call.
NativeForms(h, tool, content) ==
  {Payload(n, [k \in {NativeKey(h, tool)} |-> content]) : n \in NativeNames(h, tool)}
=============================================================================
