------------------------------ MODULE Custody ------------------------------
(***************************************************************************)
(* What a handoff promises about the agent it moves, without the commands, *)
(* executions, leases and uploads that move it.  The agent has one owner   *)
(* or is on its way between two; a place that gave it away never gets it   *)
(* back; an object appears once, while nobody owns the agent; and the      *)
(* owner's state is worked on by one execution and then replaced by the    *)
(* next one, within the allowance.  When a person deletes a lease, what    *)
(* executions do is no longer bound to the owner, where the agent lives    *)
(* still is.  CloudHandoff.tla is shown to implement this module.          *)
(***************************************************************************)
EXTENDS Integers

CONSTANTS
  Stores,      \* local stores
  Objects,     \* cloud objects
  Home,        \* the first owner
  Executions,  \* executions of the cloud job
  Allowance    \* states of an object that may be worked on

VARIABLES
  owners,      \* where the agent lives: one place or none
  left,        \* the places that gave it away, or gave up their claim to it
  generation,  \* Objects -> the state the object is in, 0 while there is none
  effects,     \* <<object, generation, execution>> that had effects
  intact       \* nobody has deleted a lease

custody == <<owners, left, generation, effects, intact>>

AtHome ==
  /\ owners = {Home}
  /\ left = {}
  /\ generation = [u \in Objects |-> 0]
  /\ effects = {}
  /\ intact = TRUE

Leave(p) ==
  /\ p \notin left
  /\ left' = left \union {p}
  /\ owners' = owners \ {p}
  /\ UNCHANGED <<generation, effects, intact>>

Enter(s) ==
  /\ s \notin left
  /\ owners = {}
  /\ owners' = {s}
  /\ UNCHANGED <<left, generation, effects, intact>>

Appear(u) ==
  /\ generation[u] = 0
  /\ owners = {}
  /\ generation' = [generation EXCEPT ![u] = 1]
  /\ owners' = {u} \ left
  /\ UNCHANGED <<left, effects, intact>>

Work(u, n, e) ==
  /\ effects' = effects \union {<<u, n, e>>}
  /\ intact => /\ owners = {u}
               /\ generation[u] = n
               /\ \A f \in Executions : <<u, n, f>> \notin effects
  /\ UNCHANGED <<owners, left, generation, intact>>

Save(u) ==
  /\ generation[u] \in 1..Allowance
  /\ generation' = [generation EXCEPT ![u] = @ + 1]
  /\ intact => owners = {u}
  /\ \E e \in Executions : <<u, generation[u], e>> \in effects
  /\ UNCHANGED <<owners, left, effects, intact>>

Meddle ==
  /\ intact
  /\ intact' = FALSE
  /\ UNCHANGED <<owners, left, generation, effects>>

Step ==
  \/ \E p \in Stores \union Objects : Leave(p)
  \/ \E s \in Stores : Enter(s)
  \/ \E u \in Objects : Appear(u) \/ Save(u)
  \/ \E u \in Objects, n \in 1..Allowance, e \in Executions : Work(u, n, e)
  \/ Meddle

Spec == AtHome /\ [][Step]_custody
=============================================================================
