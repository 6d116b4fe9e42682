------------------------------ MODULE AtomicFile ------------------------------
(***************************************************************************)
(* What writing a temporary file and renaming it is for: to everyone else  *)
(* a command replaces the file in one step, by its edit of the content it  *)
(* found, at most once, or not at all.  Nothing is promised once a command *)
(* began while another was under way.                                      *)
(***************************************************************************)
CONSTANTS
  Procs,      \* the commands
  Contents,   \* what users may put into the file
  Edit(_, _)  \* Edit(o, c): what operation o makes of content c

VARIABLES
  file,
  op,       \* op[p]: the operation of p, settled from the start
  begun,    \* the commands that have looked at the file
  plan,     \* plan[p]: empty, or the one content p is about to put there
  collided  \* a command began while another had a plan

vars == <<file, op, begun, plan, collided>>

Init == begun = {} /\ plan = [p \in Procs |-> {}] /\ collided = FALSE

\* A command looks at the file and plans its edit, or finds nothing to do.
Begin(p) ==
  /\ p \notin begun
  /\ begun' = begun \cup {p}
  /\ plan' \in {plan, [plan EXCEPT ![p] = {Edit(op[p], file)}]}
  /\ collided' = (collided \/ \E q \in Procs : plan[q] # {})
  /\ UNCHANGED <<file, op>>

Replace(p) ==
  /\ file' \in plan[p]
  /\ plan' = [plan EXCEPT ![p] = {}]
  /\ UNCHANGED <<op, begun, collided>>

GiveUp(p) == plan' = [plan EXCEPT ![p] = {}] /\ UNCHANGED <<file, op, begun, collided>>

Save == file' \in Contents /\ UNCHANGED <<op, begun, plan, collided>>

Collision == collided /\ collided'

Next == (\E p \in Procs : Begin(p) \/ Replace(p) \/ GiveUp(p)) \/ Save \/ Collision

Spec == Init /\ [][Next]_vars
=============================================================================
