---------------------------- MODULE AtomicTurns ----------------------------
(***************************************************************************)
(* What the platform promises about an agent that converses while it is    *)
(* configured, taught and handed off, without sessions, locks, steps or    *)
(* processes.  A turn happens at one instant: an active agent, not handed  *)
(* off, answers the whole conversation so far, by the model its definition *)
(* names at that instant and with the memory it has at that instant.       *)
(* Turns happen in the order in which they were begun, each at most once,  *)
(* and a turn that fails leaves nothing but its receipt.                   *)
(* Conversation.tla is shown to implement this module.                     *)
(***************************************************************************)
EXTENDS Integers, Sequences

CONSTANT Turns  \* the numbers turns are given when they begin

VARIABLES
  definition,  \* the agent: revision (0: not created), active, fenced
  history,     \* the turns answered so far
  receipts,    \* what is recorded of the turns that ended
  memory       \* version of the agent's memory

record == <<definition, history, receipts, memory>>

None == -1

Unborn ==
  /\ definition = [revision |-> 0, active |-> FALSE, fenced |-> FALSE]
  /\ history = <<>>
  /\ receipts = {}
  /\ memory = 0

Create ==
  /\ definition.revision = 0
  /\ definition' = [definition EXCEPT !.revision = 1, !.active = TRUE]
  /\ UNCHANGED <<history, receipts, memory>>

\* Never again once the agent is handed off.
Configure ==
  /\ definition.revision > 0 /\ ~definition.fenced
  /\ \E active \in BOOLEAN :
       definition' = [definition EXCEPT !.revision = @ + 1, !.active = active]
  /\ UNCHANGED <<history, receipts, memory>>

HandOff ==
  /\ definition.revision > 0 /\ ~definition.active /\ ~definition.fenced
  /\ definition' = [definition EXCEPT !.fenced = TRUE]
  /\ UNCHANGED <<history, receipts, memory>>

Learn ==
  /\ definition.revision > 0
  /\ memory' = memory + 1
  /\ UNCHANGED <<definition, history, receipts>>

\* No turn that ended was begun after turn t, and t itself has not ended.
InTurn(t) == \A r \in receipts : r.turn < t

Answer(t) ==
  /\ definition.active /\ ~definition.fenced
  /\ InTurn(t)
  /\ history' = Append(history, t)
  /\ \E shown \in {None, memory} :
       receipts' = receipts \union
         {[turn |-> t, status |-> "replied", binding |-> definition.revision, shown |-> shown]}
  /\ UNCHANGED <<definition, memory>>

Miss(t) ==
  /\ definition.revision > 0
  /\ InTurn(t)
  /\ receipts' = receipts \union
       {[turn |-> t, status |-> "failed", binding |-> None, shown |-> None]}
  /\ UNCHANGED <<definition, history, memory>>

Step ==
  \/ Create \/ Configure \/ HandOff \/ Learn
  \/ \E t \in Turns : Answer(t) \/ Miss(t)

Atomic == Unborn /\ [][Step]_record
=============================================================================
