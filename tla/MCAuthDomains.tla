--------------------------- MODULE MCAuthDomains ---------------------------
(* Instances of AuthDomains for TLC. *)
EXTENDS AuthDomains

Instants == 0..2
Key   == "credential"
Draft == "draft"
TwoObjects == {Key, Draft}
TwoActions == {"read", "send"}
TwoWho == {"worker", "other"}
FourIds == {"b1", "b2", "e1", "e2"}

Exact(o) == [exact |-> TRUE, object |-> o]

B(id) == [id |-> id, selector |-> Exact(Key), actions |-> {"read"},
          complete |-> TRUE, expires |-> {}]
E(id, block) == [id |-> id, block |-> block, selector |-> Exact(Key), actions |-> {"read"},
                 who |-> "worker", bound |-> TRUE, leased |-> TRUE,
                 issued |-> 0, expires |-> 2, notAfter |-> 2]

\* None, one, one that expires, one for an unknown action, two on one object (for
\* the same action or not), two on different objects, two of one name.
BlockLists ==
  {<<>>, <<B("b1")>>,
   <<[B("b1") EXCEPT !.expires = {1}]>>,
   <<[B("b1") EXCEPT !.actions = {"send"}]>>,
   <<B("b1"), B("b2")>>,
   <<B("b1"), [B("b2") EXCEPT !.actions = {"send"}]>>,
   <<[B("b1") EXCEPT !.selector = Exact(Draft)], B("b2")>>,
   <<B("b1"), [B("b1") EXCEPT !.selector = Exact(Draft)]>>}

\* None, one, a lease that ends first, one for another object, action or session,
\* one behind an expired one, one issued after it ends.
ExceptionLists ==
  {<<>>, <<E("e1", "b1")>>,
   <<[E("e1", "b1") EXCEPT !.notAfter = 1]>>,
   <<[E("e1", "b1") EXCEPT !.selector = Exact(Draft)]>>,
   <<[E("e1", "b1") EXCEPT !.actions = {"read", "send"}]>>,
   <<[E("e1", "b1") EXCEPT !.expires = 1], E("e2", "b2")>>,
   <<[E("e1", "b1") EXCEPT !.issued = 2]>>,
   <<[E("e1", "b1") EXCEPT !.who = "other"], E("b1", "b1")>>}

NextPolicies ==
  [known : {TRUE}, generation : {2}, blocks : {<<B("b1")>>}, exceptions : {<<>>, <<E("e1", "b1")>>}]

SomePolicies ==
  [known : {TRUE}, generation : {1}, blocks : BlockLists, exceptions : ExceptionLists]
    \cup NextPolicies

Minted(who, expires) == [minted |-> TRUE, who |-> who, issued |-> 0, expires |-> expires]

SomeRequests ==
  {[action |-> "read", object |-> Key, generation |-> 1, context |-> c] :
     c \in {NoContext, Minted("worker", 2), Minted("other", 2), Minted("worker", 1)}}
  \cup {[action |-> "read", object |-> Key, generation |-> 2, context |-> Minted("worker", 2)],
        [action |-> "send", object |-> Key, generation |-> 1, context |-> Minted("worker", 2)],
        [action |-> "read", object |-> Draft, generation |-> 1, context |-> Minted("worker", 2)]}

Seams ==
  LET seams == <<"policy-store-publish", "policy-evaluator", "durable-audit-admission",
                 "decision-replay-claim", "pa-credential-final-pep", "worker-lifecycle-archive">>
  IN [i \in DOMAIN seams |-> [id |-> seams[i], critical |-> TRUE, traced |-> TRUE]]

N(name, critical) ==
  [name |-> name, critical |-> critical, traced |-> TRUE, maps |-> {"policy-evaluator"}]

Full == [known |-> TRUE, seams |-> Seams,
         neutral |-> <<N("ordinary-work", FALSE), N("protected-read-pep", TRUE),
                       N("protected-read-audit", TRUE)>>]

SomeManifests == {Full, [Full EXCEPT !.seams = [Seams EXCEPT ![6].traced = FALSE]]}
=============================================================================
