---------------------------- MODULE HookContract ----------------------------
(***************************************************************************)
(* What a gatekeeper hook promises to the harness that called it, without  *)
(* saying how: one answer per call; a call during which the gatekeeper     *)
(* failed is never answered with an allow, and is answered with a deny     *)
(* when the caller asked for the fail-closed posture.                      *)
(***************************************************************************)
CONSTANT Hooks          \* the hook invocations, one process each

VARIABLES strict,       \* strict[h]: h was asked to fail closed, and can answer
          faulty,       \* faulty[h]: the gatekeeper failed while serving h
          answer        \* answer[h]: what the harness reads, or "none" yet

cvars == <<strict, faulty, answer>>

Answer == {"allow", "deny", "native"}

\* What may be answered after a fault.
FaultAnswers(s) == IF s THEN {"deny"} ELSE {"deny", "native"}

CInit ==
  /\ strict \in [Hooks -> BOOLEAN]
  /\ faulty = [h \in Hooks |-> FALSE]
  /\ answer = [h \in Hooks |-> "none"]

Fail(h) ==
  /\ answer[h] = "none"
  /\ ~faulty[h]
  /\ faulty' = [faulty EXCEPT ![h] = TRUE]
  /\ UNCHANGED <<strict, answer>>

Reply(h) ==
  /\ answer[h] = "none"
  /\ \E a \in IF faulty[h] THEN FaultAnswers(strict[h]) ELSE Answer :
       answer' = [answer EXCEPT ![h] = a]
  /\ UNCHANGED <<strict, faulty>>

CNext == \E h \in Hooks : Fail(h) \/ Reply(h)

CSpec == CInit /\ [][CNext]_cvars
=============================================================================
