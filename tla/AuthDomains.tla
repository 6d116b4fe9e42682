----------------------------- MODULE AuthDomains -----------------------------
(***************************************************************************)
(* `auth-domains shadow` reads a policy generation, a request and a        *)
(* coverage manifest, one file after the other, and reports what a server  *)
(* that enforced the policy would decide.  Files are replaced and time     *)
(* passes while it runs.  The decision is taken whether or not the policy  *)
(* compiles; that it does not is reported beside it.                       *)
(***************************************************************************)
EXTENDS Naturals, Sequences

CONSTANTS
  Objects,      \* object identifiers
  Actions,      \* actions, "read" among them
  Who,          \* (domain, principal, worker, session), compared as one
  Ids,          \* identifiers of blocks and exceptions
  Times,        \* the instants that occur; 0 is the start
  Policies,     \* what the policy file may hold
  Successors,   \* those of them that replace another one
  Requests,     \* what the request file may hold
  Manifests,    \* what the coverage file may hold
  MaxChanges    \* bound on the number of replaced files

\* An empty identifier; a request without context.
NoId == "no id"
NoContext == [minted |-> FALSE]

Selector == [exact : BOOLEAN, object : Objects]

\* complete: reason, owner and audit policy are as required.  expires holds one
\* instant, or none for a block that stays.
Block == [id : Ids \cup {NoId}, selector : Selector, actions : SUBSET Actions,
          complete : BOOLEAN, expires : SUBSET Times]

\* bound: none of the identities, nor the issuer, is empty; leased: exactly one
\* materialization.
Exception == [id : Ids \cup {NoId}, block : Ids \cup {NoId}, selector : Selector,
              actions : SUBSET Actions, who : Who, bound : BOOLEAN, leased : BOOLEAN,
              issued : Times, expires : Times, notAfter : Times]

\* known: the schema and registry versions.
Policy == [known : BOOLEAN, generation : Nat, blocks : Seq(Block), exceptions : Seq(Exception)]

\* minted: schema, authority, runtime kind and non-empty identities.
Context == [minted : BOOLEAN, who : Who, issued : Times, expires : Times]

Request == [action : Actions, object : Objects, generation : Nat,
            context : Context \cup {NoContext}]

\* traced: trace action, negative fixture and owner are given.  known: schema,
\* object, no claim to enforce, and the pins of the independent checker.
Seam     == [id : STRING, critical : BOOLEAN, traced : BOOLEAN]
Neutral  == [name : STRING, critical : BOOLEAN, traced : BOOLEAN, maps : SUBSET STRING]
Manifest == [known : BOOLEAN, seams : Seq(Seam), neutral : Seq(Neutral)]

\* A file that does not decode.
Malformed == [malformed |-> TRUE]

ASSUME TimesAssumption     == Times \subseteq Nat /\ 0 \in Times
ASSUME PoliciesAssumption  == Policies \subseteq Policy /\ Successors \subseteq Policies
ASSUME RequestsAssumption  == Requests \subseteq Request
ASSUME ManifestsAssumption == Manifests \subseteq Manifest
ASSUME ChangesAssumption   == MaxChanges \in Nat

VARIABLES
  files,     \* the three files
  now,       \* the clock
  changes,   \* number of files replaced so far
  pc,        \* progress of the command
  policy, request, coverage,   \* its locals
  exit,      \* the exit code of the last command
  report     \* what the last report said, and on what it was made

locals == <<policy, request, coverage>>
world  == <<files, now, changes>>
vars   == <<world, pc, locals, exit, report>>

-----------------------------------------------------------------------------
(* Compile *)

GoodBlock(b, n) ==
  /\ b.selector.exact
  /\ b.actions = {"read"}
  /\ b.complete
  /\ \A t \in b.expires : t > n

\* Blocks and exceptions share one name space.
Names(list)  == {list[i].id : i \in DOMAIN list}
Unique(list) == \A i, j \in DOMAIN list : list[i].id = list[j].id => i = j

DistinctIds(p) ==
  /\ Unique(p.blocks) /\ Unique(p.exceptions)
  /\ Names(p.blocks) \cap Names(p.exceptions) = {}
  /\ NoId \notin Names(p.blocks) \cup Names(p.exceptions)

\* Two blocks claim one action on one object.
Overlap(p) ==
  \E i, j \in DOMAIN p.blocks :
    /\ i # j
    /\ p.blocks[i].selector.object = p.blocks[j].selector.object
    /\ p.blocks[i].actions \cap p.blocks[j].actions # {}

GoodException(p, e) ==
  /\ \E i \in DOMAIN p.blocks :
       /\ p.blocks[i].id = e.block
       /\ e.selector = p.blocks[i].selector
       /\ e.actions \subseteq p.blocks[i].actions
  /\ e.actions # {}
  /\ e.bound
  /\ e.leased
  /\ e.expires > e.issued
  /\ e.notAfter > e.issued

\* Variant: blocks are looked at one by one.
CompileBlocksOnly(p, n) ==
  /\ p.known /\ p.generation # 0
  /\ DistinctIds(p)
  /\ \A i \in DOMAIN p.blocks : GoodBlock(p.blocks[i], n)
  /\ \A i \in DOMAIN p.exceptions : GoodException(p, p.exceptions[i])

Compile(p, n) ==
  /\ p.known /\ p.generation # 0
  /\ DistinctIds(p)
  /\ \A i \in DOMAIN p.blocks : GoodBlock(p.blocks[i], n)
  /\ ~Overlap(p)
  /\ \A i \in DOMAIN p.exceptions : GoodException(p, p.exceptions[i])

-----------------------------------------------------------------------------
(* validateCoverage *)

requiredSeams ==
  {"policy-store-publish", "policy-evaluator", "durable-audit-admission",
   "decision-replay-claim", "pa-credential-final-pep", "worker-lifecycle-archive"}

wantNeutral ==
  {[name |-> "ordinary-work",        critical |-> FALSE],
   [name |-> "protected-read-pep",   critical |-> TRUE],
   [name |-> "protected-read-audit", critical |-> TRUE]}

SeamIds(m) == {m.seams[i].id : i \in DOMAIN m.seams}

GoodSeams(m) ==
  /\ \A i, j \in DOMAIN m.seams : m.seams[i].id = m.seams[j].id => i = j
  /\ \A i \in DOMAIN m.seams :
       m.seams[i].critical => m.seams[i].id \in requiredSeams /\ m.seams[i].traced
  /\ requiredSeams \subseteq SeamIds(m)

GoodNeutral(m) ==
  /\ \A i, j \in DOMAIN m.neutral : m.neutral[i].name = m.neutral[j].name => i = j
  /\ \A i \in DOMAIN m.neutral :
       /\ m.neutral[i].traced
       /\ m.neutral[i].maps # {} /\ m.neutral[i].maps \subseteq SeamIds(m)
  /\ {[name |-> m.neutral[i].name, critical |-> m.neutral[i].critical]
        : i \in DOMAIN m.neutral} = wantNeutral

validateCoverage(m) == m.known /\ GoodSeams(m) /\ GoodNeutral(m)

-----------------------------------------------------------------------------
(* evaluate *)

Protected(p, r) == \E i \in DOMAIN p.blocks : p.blocks[i].selector.object = r.object

Matching(p, r) ==
  {i \in DOMAIN p.blocks :
     p.blocks[i].selector.object = r.object /\ r.action \in p.blocks[i].actions}

BlockIDs(p, r) == {p.blocks[i].id : i \in Matching(p, r)}

validContext(c, n) == c.minted /\ c.issued <= n /\ c.expires > n

\* Variant: the lease is compared the wrong way round.
ExceptedLate(p, r, e, n) ==
  /\ e.block \in BlockIDs(p, r)
  /\ r.action \in e.actions
  /\ e.selector.object = r.object
  /\ e.who = r.context.who
  /\ e.expires > n /\ e.notAfter <= n

Excepted(p, r, e, n) ==
  /\ e.block \in BlockIDs(p, r)
  /\ r.action \in e.actions
  /\ e.selector.object = r.object
  /\ e.who = r.context.who
  /\ e.expires > n /\ e.notAfter > n

Reason(p, r, n) ==
  IF ~Protected(p, r) THEN "unprotected"
  ELSE IF r.action # "read" \/ Matching(p, r) = {} THEN "unknown_protected_action"
  ELSE IF r.generation # p.generation THEN "stale_generation"
  ELSE IF ~validContext(r.context, n) THEN "invalid_domain_context"
  ELSE IF \E i \in DOMAIN p.exceptions : Excepted(p, r, p.exceptions[i], n)
  THEN "exact_exception"
  ELSE "protected_block"

Kind(reason) ==
  CASE reason = "unprotected"     -> "permit_unblocked"
    [] reason = "exact_exception" -> "permit_exception"
    [] OTHER                      -> "deny_blocked"

\* What the command reports.  (policy, request and at are history.)
Shadow(p, r, m, n) ==
  [conformant |-> Compile(p, n) /\ validateCoverage(m),
   decision   |-> Kind(Reason(p, r, n)),
   reason     |-> Reason(p, r, n),
   policy |-> p, request |-> r, at |-> n]

NoReport == [conformant |-> FALSE, decision |-> "none"]

-----------------------------------------------------------------------------
(* The command *)

Init ==
  /\ files \in [policy : Policies, request : Requests, coverage : Manifests]
  /\ now = 0
  /\ changes = 0
  /\ pc = "idle"
  /\ policy = Malformed /\ request = Malformed /\ coverage = Malformed
  /\ exit = 0
  /\ report = NoReport

Forget == policy' = Malformed /\ request' = Malformed /\ coverage' = Malformed

\* The command ends without a report.
Fails(at, code) ==
  /\ pc = at /\ pc' = "idle"
  /\ exit' = code
  /\ Forget
  /\ UNCHANGED <<world, report>>

\* Usage errors end with 2, a request for help with 0.
Start ==
  \/ /\ pc = "idle" /\ pc' = "policy"
     /\ UNCHANGED <<world, locals, exit, report>>
  \/ \E code \in {0, 2} : Fails("idle", code)

LoadPolicy ==
  \/ files.policy = Malformed /\ Fails("policy", 2)
  \/ /\ pc = "policy" /\ files.policy # Malformed
     /\ policy' = files.policy
     /\ pc' = "request"
     /\ UNCHANGED <<world, request, coverage, exit, report>>

\* Variant: a request that does not decode is looked at all the same.
LoadRequestLenient ==
  /\ pc = "request"
  /\ request' = files.request
  /\ pc' = "coverage"
  /\ UNCHANGED <<world, policy, coverage, exit, report>>

LoadRequest ==
  \/ files.request = Malformed /\ Fails("request", 2)
  \/ /\ pc = "request" /\ files.request # Malformed
     /\ request' = files.request
     /\ pc' = "coverage"
     /\ UNCHANGED <<world, policy, coverage, exit, report>>

LoadCoverage ==
  \/ files.coverage = Malformed /\ Fails("coverage", 2)
  \/ /\ pc = "coverage" /\ files.coverage # Malformed
     /\ coverage' = files.coverage
     /\ pc' = "shadow"
     /\ UNCHANGED <<world, policy, request, exit, report>>

\* The clock is read once, after the files.  A report that cannot be written
\* ends the command with 2.
Report ==
  \/ Fails("shadow", 2)
  \/ /\ pc = "shadow" /\ pc' = "idle"
     /\ report' = Shadow(policy, request, coverage, now)
     /\ exit' = IF report'.conformant THEN 0 ELSE 1
     /\ Forget
     /\ UNCHANGED world

-----------------------------------------------------------------------------
(* The world around it *)

\* Somebody replaces a file, or leaves it malformed.
Replace ==
  /\ changes < MaxChanges
  /\ changes' = changes + 1
  /\ \/ \E p \in Successors \cup {Malformed} : files' = [files EXCEPT !.policy = p]
     \/ \E r \in Requests \cup {Malformed} : files' = [files EXCEPT !.request = r]
     \/ \E m \in Manifests \cup {Malformed} : files' = [files EXCEPT !.coverage = m]
  /\ UNCHANGED <<now, pc, locals, exit, report>>

Tick ==
  /\ now' \in {t \in Times : t > now}
  /\ UNCHANGED <<files, changes, pc, locals, exit, report>>

Next ==
  \/ Start \/ LoadPolicy \/ LoadRequest \/ LoadCoverage \/ Report
  \/ Replace \/ Tick

Spec == Init /\ [][Next]_vars

-----------------------------------------------------------------------------
(* Properties *)

Reports ==
  [conformant : BOOLEAN,
   decision : {"permit_unblocked", "permit_exception", "deny_blocked"},
   reason : {"unprotected", "unknown_protected_action", "stale_generation",
             "invalid_domain_context", "exact_exception", "protected_block"},
   policy : Policies, request : Requests, at : Times]

\* Contents are what the files may hold; a step of the command finds loaded what
\* the steps before it load.
TypeOK ==
  /\ files \in [policy : Policies \cup {Malformed}, request : Requests \cup {Malformed},
                coverage : Manifests \cup {Malformed}]
  /\ now \in Times
  /\ changes \in 0..MaxChanges
  /\ pc \in {"idle", "policy", "request", "coverage", "shadow"}
  /\ policy \in Policies \cup {Malformed}
  /\ request \in Requests \cup {Malformed}
  /\ coverage \in Manifests \cup {Malformed}
  /\ pc \in {"request", "coverage", "shadow"} => policy \in Policies
  /\ pc \in {"coverage", "shadow"} => request \in Requests
  /\ pc = "shadow" => coverage \in Manifests
  /\ exit \in 0..2
  /\ report \in Reports \cup {NoReport}

\* The requirements' own words: a matching block denies unless one exact, live
\* exception covers every matching block.
CoversAll(p, r, n) ==
  \E i \in DOMAIN p.exceptions :
    LET e == p.exceptions[i] IN
    /\ e.who = r.context.who
    /\ e.expires > n /\ e.notAfter > n
    /\ \A j \in DOMAIN p.blocks :
         p.blocks[j].selector.object = r.object =>
           /\ e.block = p.blocks[j].id
           /\ e.selector = p.blocks[j].selector
           /\ r.action \in e.actions \cap p.blocks[j].actions

Required(p, r, n) ==
  IF r.object \notin {p.blocks[i].selector.object : i \in DOMAIN p.blocks}
  THEN "permit_unblocked"
  ELSE IF r.generation = p.generation /\ validContext(r.context, n) /\ CoversAll(p, r, n)
  THEN "permit_exception"
  ELSE "deny_blocked"

\* A report that calls itself conformant decides as the requirements say, in
\* both directions.  The evaluator contents itself with an exception to any one of
\* the matching blocks, and does not look at blocks' expiry; that no other block
\* matches, and none has expired, is what Compile sees to.
ConformantReportsDecideRight ==
  report # NoReport /\ report.conformant =>
    report.decision = Required(report.policy, report.request, report.at)

\* Waiting grants nothing: what an earlier report denied for want of a live
\* exception, no later report on the same two files permits.
WaitingGrantsNothing ==
  [][/\ report # NoReport /\ report.reason = "protected_block"
     /\ report'.policy = report.policy /\ report'.request = report.request
     => report'.decision = "deny_blocked"]_vars
=============================================================================
