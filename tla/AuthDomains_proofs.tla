-------------------------- MODULE AuthDomains_proofs --------------------------
(***************************************************************************)
(* Conformant reports of `auth-domains shadow` decide as the requirements  *)
(* say, and waiting never turns a denial into a permit: for all policies,  *)
(* requests and manifests.                                                 *)
(***************************************************************************)
EXTENDS AuthDomains, TLAPS

\* The last report is what the evaluator says of what it names.
Faithful ==
  report # NoReport =>
    /\ report.conformant => Compile(report.policy, report.at)
    /\ report.reason = Reason(report.policy, report.request, report.at)
    /\ report.decision = Kind(report.reason)
    /\ report.at <= now

ShadowInv == TypeOK /\ Faithful

-----------------------------------------------------------------------------
(* The evaluator *)

\* In a policy that compiles, at most one block protects an object, and only
\* against reads.
LEMMA OneBlock ==
  ASSUME NEW p \in Policy, NEW n, Compile(p, n),
         NEW i \in DOMAIN p.blocks, NEW j \in DOMAIN p.blocks,
         p.blocks[i].selector.object = p.blocks[j].selector.object
  PROVE  i = j /\ p.blocks[i].actions = {"read"}
BY DEF Compile, GoodBlock, Overlap

\* The reference definition and the evaluator agree on policies that compile.
LEMMA DecidesRight ==
  ASSUME NEW p \in Policy, NEW r \in Request, NEW n \in Nat, Compile(p, n)
  PROVE  Kind(Reason(p, r, n)) = Required(p, r, n)
<1>1. CASE ~Protected(p, r)
  BY <1>1 DEF Protected, Reason, Kind, Required
<1>2. CASE Protected(p, r)
  <2>1. PICK i \in DOMAIN p.blocks : p.blocks[i].selector.object = r.object
    BY <1>2 DEF Protected
  <2>2. \A j \in DOMAIN p.blocks : p.blocks[j].selector.object = r.object => j = i
    BY <2>1, OneBlock
  <2>3. p.blocks[i].actions = {"read"}
    BY <2>1, OneBlock
  <2>4. Matching(p, r) = IF r.action = "read" THEN {i} ELSE {}
    BY <2>1, <2>2, <2>3 DEF Matching
  <2>5. \A k \in DOMAIN p.exceptions :
          r.action = "read" =>
            (Excepted(p, r, p.exceptions[k], n)
               <=> /\ p.exceptions[k].who = r.context.who
                   /\ p.exceptions[k].expires > n /\ p.exceptions[k].notAfter > n
                   /\ p.exceptions[k].block = p.blocks[i].id
                   /\ p.exceptions[k].selector = p.blocks[i].selector
                   /\ r.action \in p.exceptions[k].actions)
    <3> SUFFICES ASSUME NEW k \in DOMAIN p.exceptions, r.action = "read"
                 PROVE  Excepted(p, r, p.exceptions[k], n)
                          <=> /\ p.exceptions[k].who = r.context.who
                              /\ p.exceptions[k].expires > n /\ p.exceptions[k].notAfter > n
                              /\ p.exceptions[k].block = p.blocks[i].id
                              /\ p.exceptions[k].selector = p.blocks[i].selector
                              /\ r.action \in p.exceptions[k].actions
      OBVIOUS
    <3>1. BlockIDs(p, r) = {p.blocks[i].id}
      BY <2>4 DEF BlockIDs
    <3>2. PICK j \in DOMAIN p.blocks :
            /\ p.blocks[j].id = p.exceptions[k].block
            /\ p.exceptions[k].selector = p.blocks[j].selector
      BY DEF Compile, GoodException
    <3>3. p.exceptions[k].block = p.blocks[i].id => j = i
      BY <3>2 DEF Compile, DistinctIds, Unique
    <3> QED BY <2>1, <3>1, <3>2, <3>3 DEF Excepted
  <2>6. CoversAll(p, r, n)
          <=> r.action = "read" /\ \E k \in DOMAIN p.exceptions : Excepted(p, r, p.exceptions[k], n)
    <3>1. ASSUME CoversAll(p, r, n)
          PROVE  r.action = "read" /\ \E k \in DOMAIN p.exceptions : Excepted(p, r, p.exceptions[k], n)
      <4>1. PICK k \in DOMAIN p.exceptions :
              /\ p.exceptions[k].who = r.context.who
              /\ p.exceptions[k].expires > n /\ p.exceptions[k].notAfter > n
              /\ p.exceptions[k].block = p.blocks[i].id
              /\ p.exceptions[k].selector = p.blocks[i].selector
              /\ r.action \in p.exceptions[k].actions \cap p.blocks[i].actions
        BY <2>1, <3>1 DEF CoversAll
      <4>2. r.action = "read"
        BY <4>1, <2>3
      <4> QED BY <4>1, <4>2, <2>5
    <3>2. ASSUME r.action = "read", NEW k \in DOMAIN p.exceptions, Excepted(p, r, p.exceptions[k], n)
          PROVE  CoversAll(p, r, n)
      <4>1. /\ p.exceptions[k].who = r.context.who
            /\ p.exceptions[k].expires > n /\ p.exceptions[k].notAfter > n
            /\ p.exceptions[k].block = p.blocks[i].id
            /\ p.exceptions[k].selector = p.blocks[i].selector
            /\ r.action \in p.exceptions[k].actions
        BY <3>2, <2>5
      <4>2. r.action \in p.blocks[i].actions
        BY <3>2, <2>3
      <4> QED BY <4>1, <4>2, <2>2 DEF CoversAll
    <3> QED BY <3>1, <3>2
  <2>7. Required(p, r, n) =
          IF r.generation = p.generation /\ validContext(r.context, n) /\ CoversAll(p, r, n)
          THEN "permit_exception" ELSE "deny_blocked"
    BY <2>1 DEF Required
  <2>8. Kind(Reason(p, r, n)) =
          IF /\ r.action = "read" /\ r.generation = p.generation /\ validContext(r.context, n)
             /\ \E k \in DOMAIN p.exceptions : Excepted(p, r, p.exceptions[k], n)
          THEN "permit_exception" ELSE "deny_blocked"
    <3>1. Matching(p, r) = {} <=> r.action # "read"
      BY <2>4
    <3> QED BY <1>2, <3>1 DEF Reason, Kind
  <2> QED BY <2>6, <2>7, <2>8
<1> QED BY <1>1, <1>2

\* What is denied for want of a live exception stays denied.
LEMMA NothingRevives ==
  ASSUME NEW p \in Policy, NEW r \in Request, NEW m \in Nat, NEW n \in Nat, m <= n,
         Reason(p, r, m) = "protected_block"
  PROVE  Kind(Reason(p, r, n)) = "deny_blocked"
<1>1. /\ Protected(p, r)
      /\ \A k \in DOMAIN p.exceptions : ~Excepted(p, r, p.exceptions[k], m)
  BY DEF Reason
<1>2. \A k \in DOMAIN p.exceptions : p.exceptions[k].expires \in Nat /\ p.exceptions[k].notAfter \in Nat
  <2> SUFFICES ASSUME NEW k \in DOMAIN p.exceptions
               PROVE  p.exceptions[k].expires \in Nat /\ p.exceptions[k].notAfter \in Nat
    OBVIOUS
  <2>1. p.exceptions \in Seq(Exception)
    BY DEF Policy
  <2>2. p.exceptions[k] \in Exception
    BY <2>1
  <2> QED BY <2>2, TimesAssumption DEF Exception
<1>3. \A k \in DOMAIN p.exceptions : ~Excepted(p, r, p.exceptions[k], n)
  BY <1>1, <1>2 DEF Excepted
<1> QED BY <1>1, <1>3 DEF Reason, Kind

-----------------------------------------------------------------------------
(* The command *)

\* Which reasons an evaluation gives.
LEMMA ReasonKinds ==
  \A p, r, n :
    /\ Reason(p, r, n) \in {"unprotected", "unknown_protected_action", "stale_generation",
                            "invalid_domain_context", "exact_exception", "protected_block"}
    /\ Kind(Reason(p, r, n)) \in {"permit_unblocked", "permit_exception", "deny_blocked"}
BY DEF Reason, Kind

\* A report is conformant or not.
LEMMA ConformantIsBoolean == \A p, r, m, n : Shadow(p, r, m, n).conformant \in BOOLEAN
BY DEF Shadow, Compile, validateCoverage

\* What a report says of its inputs.
LEMMA ShadowReports ==
  ASSUME NEW p \in Policies, NEW r \in Requests, NEW m, NEW n \in Times
  PROVE  Shadow(p, r, m, n) \in Reports
BY ReasonKinds, ConformantIsBoolean DEF Shadow, Reports

\* Nothing has been read or reported at first.
LEMMA ShadowInit == Init => ShadowInv
BY TimesAssumption, ChangesAssumption DEF Init, ShadowInv, TypeOK, Faithful

\* Reading, replacing a file and the clock keep reports faithful to what was read.
LEMMA ShadowStep == ShadowInv /\ [Next]_vars => ShadowInv'
<1> SUFFICES ASSUME TypeOK, Faithful, [Next]_vars PROVE TypeOK' /\ Faithful'
  BY DEF ShadowInv
<1> USE DEF TypeOK
<1>1. CASE Start
  BY <1>1 DEF Start, Fails, Forget, world, locals, Faithful
<1>2. CASE LoadPolicy
  BY <1>2 DEF LoadPolicy, Fails, Forget, world, locals, Faithful
<1>3. CASE LoadRequest
  BY <1>3 DEF LoadRequest, Fails, Forget, world, locals, Faithful
<1>4. CASE LoadCoverage
  BY <1>4 DEF LoadCoverage, Fails, Forget, world, locals, Faithful
<1>5. CASE Report
  <2>1. CASE Fails("shadow", 2)
    BY <2>1 DEF Fails, Forget, world, locals, Faithful
  <2>2. CASE /\ pc = "shadow" /\ pc' = "idle"
             /\ report' = Shadow(policy, request, coverage, now)
             /\ exit' = IF report'.conformant THEN 0 ELSE 1
             /\ Forget
             /\ UNCHANGED world
    <3>1. report' \in Reports
      BY <2>2, ShadowReports
    <3>2. TypeOK'
      BY <2>2, <3>1 DEF Forget, world
    <3>3. Faithful'
      <4>1. report'.at = now /\ now' = now
        BY <2>2 DEF world, Shadow
      <4>2. report'.at <= now'
        BY <4>1, TimesAssumption
      <4>3. /\ report'.conformant => Compile(report'.policy, report'.at)
            /\ report'.reason = Reason(report'.policy, report'.request, report'.at)
            /\ report'.decision = Kind(report'.reason)
        BY <2>2 DEF Shadow
      <4> QED BY <4>2, <4>3 DEF Faithful
    <3> QED BY <3>2, <3>3
  <2> QED BY <1>5, <2>1, <2>2 DEF Report
<1>6. CASE Replace
  BY <1>6, PoliciesAssumption, ChangesAssumption DEF Replace, locals, Faithful
<1>7. CASE Tick
  <2>1. TypeOK'
    BY <1>7 DEF Tick, locals
  <2>2. report # NoReport => report.at \in Times
    BY DEF Reports
  <2>3. report # NoReport => report.at <= now'
    <3> SUFFICES ASSUME report # NoReport PROVE report.at <= now'
      OBVIOUS
    <3>1. report.at \in Nat /\ now \in Nat
      BY <2>2, TimesAssumption
    <3>2. now' \in Nat /\ now' > now
      BY <1>7, TimesAssumption DEF Tick
    <3>3. report.at <= now
      BY DEF Faithful
    <3> QED BY <3>1, <3>2, <3>3
  <2>4. Faithful'
    BY <1>7, <2>3 DEF Tick, Faithful
  <2> QED BY <2>1, <2>4
<1>8. CASE UNCHANGED vars
  BY <1>8 DEF vars, world, locals, Faithful
<1> QED BY <1>1, <1>2, <1>3, <1>4, <1>5, <1>6, <1>7, <1>8 DEF Next

\* ShadowInv is inductive.
LEMMA ShadowInvariant == Spec => []ShadowInv
BY ShadowInit, ShadowStep, PTL DEF Spec

\* The inputs, what was read of them and the report keep their types, whoever
\* replaces a file between two reads.
THEOREM TypeCorrect == Spec => []TypeOK
<1>1. ShadowInv => TypeOK
  BY DEF ShadowInv
<1> QED BY <1>1, ShadowInvariant, PTL

\* A conformant report decides as the requirements say, whatever was replaced
\* while the command read its files.
THEOREM ConformantReportsDecideRightHolds == Spec => []ConformantReportsDecideRight
<1>1. ShadowInv => ConformantReportsDecideRight
  <2> SUFFICES ASSUME TypeOK, Faithful, report # NoReport, report.conformant
               PROVE  report.decision = Required(report.policy, report.request, report.at)
    BY DEF ShadowInv, ConformantReportsDecideRight
  <2>1. report.policy \in Policy /\ report.request \in Request /\ report.at \in Nat
    BY PoliciesAssumption, RequestsAssumption, TimesAssumption DEF TypeOK, Reports
  <2> QED BY <2>1, DecidesRight DEF Faithful
<1> QED BY <1>1, ShadowInvariant, PTL

\* Denied for want of a live exception, denied for good.
THEOREM WaitingGrantsNothingHolds == Spec => WaitingGrantsNothing
<1>1. ShadowInv /\ [Next]_vars =>
        [/\ report # NoReport /\ report.reason = "protected_block"
         /\ report'.policy = report.policy /\ report'.request = report.request
         => report'.decision = "deny_blocked"]_vars
  <2> SUFFICES ASSUME TypeOK, Faithful, [Next]_vars,
                      report # NoReport, report.reason = "protected_block",
                      report'.policy = report.policy, report'.request = report.request
               PROVE  report'.decision = "deny_blocked"
    BY DEF ShadowInv
  <2>1. /\ report.policy \in Policy /\ report.request \in Request
        /\ report.at \in Nat /\ now \in Nat
    BY PoliciesAssumption, RequestsAssumption, TimesAssumption DEF TypeOK, Reports
  <2>2. CASE report' = report
    BY <2>2 DEF Faithful, Kind
  <2>3. CASE report' = Shadow(policy, request, coverage, now)
    <3>1. report'.policy = policy /\ report'.request = request
      BY <2>3 DEF Shadow
    <3>2. report'.decision = Kind(Reason(report.policy, report.request, now))
      BY <2>3, <3>1 DEF Shadow
    <3> QED BY <2>1, <3>2, NothingRevives DEF Faithful
  <2>4. report' = report \/ report' = Shadow(policy, request, coverage, now)
    BY DEF Next, Start, LoadPolicy, LoadRequest, LoadCoverage, Report, Replace, Tick, Fails, vars
  <2> QED BY <2>2, <2>3, <2>4
<1> QED BY <1>1, ShadowInvariant, PTL DEF Spec, WaitingGrantsNothing
=============================================================================
