------------------------------ MODULE CheckGate ------------------------------
(***************************************************************************)
(* What a gate made of checks promises, be it a release verification or a  *)
(* run of policy tests: every check that is made passes or fails, once and *)
(* for good, and the gate opens only if there are checks and every one of  *)
(* them was made and passed.  It may break off at any time, which is       *)
(* neither a pass nor a failure.                                           *)
(***************************************************************************)
VARIABLES
  checks,   \* the checks to make, which are settled from the start
  passed,
  failed,
  verdict   \* "none", then "pass", "fail" or "error"

vars == <<checks, passed, failed, verdict>>

Init == passed = {} /\ failed = {} /\ verdict = "none"

Open(c) == verdict = "none" /\ c \in checks \ (passed \cup failed)

Pass(c) == Open(c) /\ passed' = passed \cup {c} /\ UNCHANGED <<checks, failed, verdict>>
Fail(c) == Open(c) /\ failed' = failed \cup {c} /\ UNCHANGED <<checks, passed, verdict>>

Conclude ==
  /\ verdict = "none"
  /\ \/ checks # {} /\ passed = checks /\ verdict' = "pass"
     \/ failed # {} /\ verdict' = "fail"
  /\ UNCHANGED <<checks, passed, failed>>

BreakOff == verdict = "none" /\ verdict' = "error" /\ UNCHANGED <<checks, passed, failed>>

Next == (\E c \in checks : Pass(c) \/ Fail(c)) \/ Conclude \/ BreakOff

Spec == Init /\ [][Next]_vars
=============================================================================
