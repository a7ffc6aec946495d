---------------------------- MODULE Conversation ----------------------------
(***************************************************************************)
(* The conversation of one agent: sessions of several processes           *)
(* (platform/session.py) over its rows in the registry (platform/store.py) *)
(* and its AtMem memory (platform/memory.py), while operators change its   *)
(* configuration, edit its memory and hand it off to the cloud.            *)
(*                                                                         *)
(* AtMem and the model are external.  Memory is a version, which any       *)
(* admitted record, correction or removal moves on; a reply is the number  *)
(* of its turn.  Any call may fail and any process die at any step; the    *)
(* system drops the file lock of a dead process.                           *)
(***************************************************************************)
EXTENDS Integers, Sequences

CONSTANTS
  Procs,        \* processes: a chat, a worker, a web request, a command
  Nobody,       \* the holder of a free turn.lock
  MaxTurns,     \* bound: turns begun
  MaxRevision,  \* bound: revision up to which the agent is reconfigured
  MaxMemory     \* bound: version up to which memory changes

ASSUME HolderAssumption == Nobody \notin Procs

ASSUME BoundsAssumption ==
  MaxTurns \in Nat /\ MaxRevision \in Nat \ {0} /\ MaxMemory \in Nat

VARIABLES
  definition,    \* the agents row, and whether handoffs has a row of it
  conversation,  \* the conversations row
  turns,         \* the turns table: a receipt of each turn that ended
  memory,        \* version of the agent's AtMem records
  confirmed,     \* turns whose exposure AtMem has confirmed
  started,       \* turns begun, which number them
  lock,          \* turn.lock
  session        \* per process: its AgentSession, or the change it makes

vars == <<definition, conversation, turns, memory, confirmed, started, lock, session>>

\* No revision, no package.
None == -1

\* The steps of chat once the definition has been checked.
TurnSteps == {"checked", "opened", "captured", "prepared", "replied", "confirmed"}
ChangeSteps == {"changing", "unfenced"}
LockedSteps == TurnSteps \union ChangeSteps \union {"locked", "failing"}
Steps == LockedSteps \union {"out", "ready", "asked"}

Out == [at |-> "out", revision |-> None, base |-> None, history |-> <<>>,
        turn |-> 0, package |-> None]

Init ==
  /\ definition = [revision |-> 0, active |-> FALSE, fenced |-> FALSE]
  /\ conversation = [revision |-> 0, history |-> <<>>]
  /\ turns = {}
  /\ memory = 0
  /\ confirmed = {}
  /\ started = 0
  /\ lock = Nobody
  /\ session = [p \in Procs |-> Out]

-----------------------------------------------------------------------------
(* Control shared by the processes.                                        *)

rows == <<definition, conversation, turns>>
recall == <<memory, confirmed>>

Puts(p, s) == session' = [session EXCEPT ![p] = s]

Moves(p, from, to) ==
  /\ session[p].at = from
  /\ Puts(p, [session[p] EXCEPT !.at = to])

\* turn_lock never waits: a busy agent refuses the operation.
Takes(p) ==
  /\ lock = Nobody
  /\ lock' = p

Leaves(p, at) ==
  /\ Puts(p, IF at = "out" THEN Out ELSE [Out EXCEPT !.at = at, !.revision = session[p].revision])
  /\ lock' = Nobody

Exists == definition.revision > 0

-----------------------------------------------------------------------------
(* platform/session.py: AgentSession.                                      *)

\* The tools and the instructions are those of the definition read here.
Opens(p) ==
  /\ session[p].at = "out"
  /\ Exists
  /\ Puts(p, [Out EXCEPT !.at = "ready", !.revision = definition.revision])
  /\ UNCHANGED <<rows, recall, started, lock>>

Closes(p) ==
  /\ session[p].at = "ready"
  /\ Puts(p, Out)
  /\ UNCHANGED <<rows, recall, started, lock>>

\* chat: the turn begins under the lock.
Begins(p) ==
  /\ session[p].at = "ready"
  /\ started < MaxTurns
  /\ Takes(p)
  /\ started' = started + 1
  /\ Puts(p, [session[p] EXCEPT !.at = "locked", !.turn = started + 1])
  /\ UNCHANGED <<rows, recall>>

\* Mutated form: only the agent's state is looked at.
CurrentWhenActive(p) == definition.active

\* The agent is active, in the revision the session was made from.
Current(p) == definition.active /\ definition.revision = session[p].revision

Checks(p) ==
  /\ Current(p)
  /\ Moves(p, "locked", "checked")
  /\ UNCHANGED <<rows, recall, started, lock>>

\* Paused, reconfigured, an input its model may not see, a history that
\* cannot be read: no receipt.
Refuses(p) ==
  /\ session[p].at \in {"locked", "checked"}
  /\ Leaves(p, "out")
  /\ UNCHANGED <<rows, recall, started>>

ReadsHistory(p) ==
  /\ session[p].at = "checked"
  /\ Puts(p, [session[p] EXCEPT !.at = "opened", !.base = conversation.revision,
                               !.history = conversation.history])
  /\ UNCHANGED <<rows, recall, started, lock>>

\* remember or capture_user: the message may become a record.
Captures(p) ==
  /\ Moves(p, "opened", "captured")
  /\ memory' \in {memory} \union (IF memory < MaxMemory THEN {memory + 1} ELSE {})
  /\ UNCHANGED <<rows, confirmed, started, lock>>

\* context: candidates are prepared for exposure, if there are any.
Prepares(p) ==
  /\ session[p].at = "captured"
  /\ \E package \in {None, memory} :
       Puts(p, [session[p] EXCEPT !.at = "prepared", !.package = package])
  /\ UNCHANGED <<rows, recall, started, lock>>

\* The model, with its tools, answers what can be kept.
Replies(p) ==
  /\ Moves(p, "prepared", "replied")
  /\ UNCHANGED <<rows, recall, started, lock>>

Confirms(p) ==
  /\ Moves(p, "replied", "confirmed")
  /\ confirmed' = IF session[p].package = None THEN confirmed
                  ELSE confirmed \union {session[p].turn}
  /\ UNCHANGED <<rows, memory, started, lock>>

\* Mutated form: the receipt names the step that wrote it.
ReceiptOfStep(p, status) ==
  [turn |-> session[p].turn, status |-> session[p].at, binding |-> None, shown |-> None]

\* The receipt of a reply names the model that gave it, by the revision whose
\* binding it is, and the memory it was shown; of a failure, neither.
Receipt(p, status) ==
  [turn |-> session[p].turn, status |-> status,
   binding |-> IF status = "replied" THEN session[p].revision ELSE None,
   shown |-> IF status = "replied" THEN session[p].package ELSE None]

Extended(p) ==
  [revision |-> conversation.revision + 1, history |-> Append(session[p].history, session[p].turn)]

\* Mutated form: the history is committed before its receipt is written.
SavesHistoryFirst(p) ==
  /\ conversation.revision = session[p].base
  /\ conversation' = Extended(p)
  /\ Moves(p, "confirmed", "failing")
  /\ UNCHANGED <<definition, turns, recall, started, lock>>

\* save_turn: history and receipt in one transaction, against the revision read.
Saves(p) ==
  /\ session[p].at = "confirmed"
  /\ conversation.revision = session[p].base
  /\ conversation' = Extended(p)
  /\ turns' = turns \union {Receipt(p, "replied")}
  /\ Leaves(p, "ready")
  /\ UNCHANGED <<definition, recall, started>>

\* A refused memory, a timeout, a credential in the answer, a lost revision.
Fails(p) ==
  /\ session[p].at \in TurnSteps \ {"checked"}
  /\ Puts(p, [session[p] EXCEPT !.at = "failing"])
  /\ UNCHANGED <<rows, recall, started, lock>>

RecordsFailure(p) ==
  /\ session[p].at = "failing"
  /\ turns' = turns \union {Receipt(p, "failed")}
  /\ Leaves(p, "out")
  /\ UNCHANGED <<definition, conversation, recall, started>>

\* The process ends, at any step, or record_failure itself cannot write.
Dies(p) ==
  /\ session[p].at # "out"
  /\ Puts(p, Out)
  /\ lock' = IF lock = p THEN Nobody ELSE lock
  /\ UNCHANGED <<rows, recall, started>>

-----------------------------------------------------------------------------
(* The other writers of the agent's rows and memory.                       *)

\* AgentStore.create: both rows in one transaction; a taken name is refused.
Creates ==
  /\ ~Exists
  /\ definition' = [definition EXCEPT !.revision = 1, !.active = TRUE]
  /\ conversation' = [revision |-> 0, history |-> <<>>]
  /\ UNCHANGED <<turns, recall, started, lock, session>>

\* A change is asked for against the revision its author has seen.
Asks(p) ==
  /\ session[p].at = "out"
  /\ Exists
  /\ Puts(p, [Out EXCEPT !.at = "asked", !.revision = definition.revision])
  /\ UNCHANGED <<rows, recall, started, lock>>

ChangeBegins(p) ==
  /\ Moves(p, "asked", "changing")
  /\ Takes(p)
  /\ UNCHANGED <<rows, recall, started>>

ChecksFence(p) ==
  /\ ~definition.fenced
  /\ Moves(p, "changing", "unfenced")
  /\ UNCHANGED <<rows, recall, started, lock>>

\* The update names the revision; the state may be paused or active.
Reconfigures(p) ==
  /\ session[p].at = "unfenced"
  /\ definition.revision = session[p].revision
  /\ definition.revision < MaxRevision
  /\ \E active \in BOOLEAN :
       definition' = [definition EXCEPT !.revision = @ + 1, !.active = active]
  /\ Leaves(p, "out")
  /\ UNCHANGED <<conversation, turns, recall, started>>

ChangeRefused(p) ==
  /\ session[p].at \in ChangeSteps
  /\ Leaves(p, "out")
  /\ UNCHANGED <<rows, recall, started>>

\* stage_cloud_state, under the turn lock and in one transaction.
Stages ==
  /\ lock = Nobody
  /\ Exists /\ ~definition.active /\ ~definition.fenced
  /\ definition' = [definition EXCEPT !.fenced = TRUE]
  /\ UNCHANGED <<conversation, turns, recall, started, lock, session>>

\* Mutated form: memory is edited while a turn is at work.
EditsMemoryAnyTime ==
  /\ Exists
  /\ memory < MaxMemory
  /\ memory' = memory + 1
  /\ UNCHANGED <<rows, confirmed, started, lock, session>>

\* remember, correct, forget of a command or an approved plan: turn_lock.
EditsMemory ==
  /\ Exists
  /\ lock = Nobody
  /\ memory < MaxMemory
  /\ memory' = memory + 1
  /\ UNCHANGED <<rows, confirmed, started, lock, session>>

-----------------------------------------------------------------------------

Chats(p) ==
  \/ Opens(p) \/ Closes(p) \/ Begins(p) \/ Checks(p) \/ Refuses(p)
  \/ ReadsHistory(p) \/ Captures(p) \/ Prepares(p) \/ Replies(p)
  \/ Confirms(p) \/ Saves(p) \/ Fails(p) \/ RecordsFailure(p) \/ Dies(p)

Changes(p) ==
  Asks(p) \/ ChangeBegins(p) \/ ChecksFence(p) \/ Reconfigures(p) \/ ChangeRefused(p)

Next ==
  \/ \E p \in Procs : Chats(p) \/ Changes(p)
  \/ Creates \/ Stages \/ EditsMemory

Spec == Init /\ [][Next]_vars

-----------------------------------------------------------------------------
(* Properties.                                                             *)

Turns == 1..MaxTurns
Revisions == 0..MaxRevision
Versions == 0..MaxMemory

Definitions == [revision : Revisions, active : BOOLEAN, fenced : BOOLEAN]
Conversations == [revision : 0..MaxTurns, history : Seq(Turns)]
Receipts == [turn : Turns, status : {"replied", "failed"},
             binding : Revisions \union {None}, shown : Versions \union {None}]
Sessions ==
  [at : Steps, revision : Revisions \union {None}, base : -1..MaxTurns,
   history : Seq(Turns), turn : 0..MaxTurns, package : Versions \union {None}]

\* Every variable has the type the code gives it.
TypeOK ==
  /\ definition \in Definitions
  /\ conversation \in Conversations
  /\ turns \subseteq Receipts
  /\ memory \in Versions
  /\ confirmed \subseteq Turns
  /\ started \in 0..MaxTurns
  /\ lock \in Procs \union {Nobody}
  /\ session \in [Procs -> Sessions]

\* A turn at work is the work of the agent as it is: in its revision, active,
\* not handed off, and shown memory nobody has corrected or removed since.
\* (session.py:254-259 checks once, and the agent may work for minutes.)
TurnIsUndisturbed ==
  \A p \in Procs : session[p].at \in TurnSteps =>
    /\ session[p].revision = definition.revision
    /\ definition.active /\ ~definition.fenced
    /\ session[p].package \in {None, memory}

ReceiptsOf(status) == {r \in turns : r.status = status}
Said == {conversation.history[i] : i \in 1..Len(conversation.history)}

\* The history holds the reply of each turn whose receipt says "replied", in
\* the order of the turns, and of no other; its revision counts them.  What
\* such a receipt says was shown of memory, AtMem has confirmed.
RepliesAreReceipted ==
  /\ conversation.revision = Len(conversation.history)
  /\ \A i, j \in 1..Len(conversation.history) :
       i < j => conversation.history[i] < conversation.history[j]
  /\ Said = {r.turn : r \in ReceiptsOf("replied")}
  /\ \A r \in turns : r.shown # None => r.turn \in confirmed

-----------------------------------------------------------------------------
(* The conversation as its users see it.                                   *)

Record == INSTANCE AtomicTurns WITH
            history <- conversation.history, receipts <- turns

\* Whatever sessions, changes, failures and crashes do in between, each turn
\* is as if it had happened at the instant its receipt is written: answered by
\* the definition and with the memory of that instant, after every turn
\* recorded before it (session.py chat, store.py save_turn).
TurnsAreAtomic == Record!Atomic
=============================================================================
