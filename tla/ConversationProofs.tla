------------------------- MODULE ConversationProofs -------------------------
(***************************************************************************)
(* What the conversation of an agent keeps, for every set of processes and *)
(* every bound: its types, that nothing changes under a turn at work, and  *)
(* that history, receipts and confirmed exposures agree.                   *)
(***************************************************************************)
EXTENDS Conversation, TLAPS

TurnSection == TurnSteps \union {"locked", "failing"}

\* A process between the lock and its release owns the lock.
Holds(p) ==
  /\ session[p].at \in LockedSteps => lock = p
  /\ session[p].at # "out" => Exists

\* The turn at work is the last one begun, and has no receipt yet.
Numbered(p) ==
  session[p].at \in TurnSection =>
    /\ session[p].turn = started /\ started > 0
    /\ conversation.revision < started
    /\ \A r \in turns : r.turn < started

\* What the turn at work has read is what the registry still says.
Based(p) ==
  session[p].at \in TurnSteps \ {"checked"} =>
    session[p].history = conversation.history

\* A package belongs to the turn at work, which confirms it before it saves.
Packaged(p) ==
  /\ session[p].at \notin {"prepared", "replied", "confirmed", "failing"} =>
       session[p].package = None
  /\ session[p].at = "confirmed" /\ session[p].package # None =>
       session[p].turn \in confirmed

\* What a turn, or a change, has checked under the lock still holds.
Undisturbed(p) ==
  /\ session[p].at \in TurnSteps =>
       /\ session[p].revision = definition.revision
       /\ definition.active /\ ~definition.fenced
       /\ session[p].package \in {None, memory}
  /\ session[p].at = "unfenced" => ~definition.fenced

\* An agent that was handed off is paused.
Rests == definition.fenced => Exists /\ ~definition.active

\* Nothing precedes the agent, and no receipt is ahead of the turns begun.
Counted ==
  /\ ~Exists => conversation.history = <<>> /\ turns = {}
  /\ conversation.revision <= started
  /\ \A r \in turns : r.turn <= started

Process(p) == Holds(p) /\ Numbered(p) /\ Based(p) /\ Packaged(p) /\ Undisturbed(p)

IInv == TypeOK /\ Counted /\ Rests /\ RepliesAreReceipted /\ \A p \in Procs : Process(p)

-----------------------------------------------------------------------------

\* Every step is one of these.
LEMMA Alternatives ==
  ASSUME Next
  PROVE  \/ Creates \/ Stages \/ EditsMemory
         \/ \E p \in Procs :
              \/ Opens(p) \/ Closes(p) \/ Begins(p) \/ Checks(p) \/ Refuses(p)
              \/ ReadsHistory(p) \/ Captures(p) \/ Prepares(p) \/ Replies(p)
              \/ Confirms(p) \/ Saves(p) \/ Fails(p) \/ RecordsFailure(p) \/ Dies(p)
              \/ Asks(p) \/ ChangeBegins(p) \/ ChecksFence(p) \/ Reconfigures(p)
              \/ ChangeRefused(p)
BY DEF Next, Chats, Changes

\* The updates the actions make to a session keep it a session.
LEMMA SessionUpdates ==
  /\ Out \in Sessions
  /\ \A s \in Sessions, at \in Steps :
       /\ [s EXCEPT !.at = at] \in Sessions
       /\ \A r \in Revisions \union {None} : [Out EXCEPT !.at = at, !.revision = r] \in Sessions
       /\ \A t \in 0..MaxTurns : [s EXCEPT !.at = at, !.turn = t] \in Sessions
       /\ \A b \in -1..MaxTurns, h \in Seq(Turns) :
            [s EXCEPT !.at = at, !.base = b, !.history = h] \in Sessions
       /\ \A k \in Versions \union {None} : [s EXCEPT !.at = at, !.package = k] \in Sessions
<1>1. Out \in Sessions
  BY BoundsAssumption DEF Out, Sessions, Steps, None
<1> QED BY <1>1 DEF Sessions, Out

\* The fields of typed records have their types.
LEMMA RecordFields ==
  /\ \A d \in Definitions : d.revision \in Revisions /\ d.active \in BOOLEAN
  /\ \A c \in Conversations : c.revision \in 0..MaxTurns /\ c.history \in Seq(Turns)
  /\ \A s \in Sessions :
       /\ s.at \in Steps /\ s.revision \in Revisions \union {None} /\ s.base \in -1..MaxTurns
       /\ s.history \in Seq(Turns) /\ s.turn \in 0..MaxTurns
       /\ s.package \in Versions \union {None}
BY DEF Definitions, Conversations, Sessions

\* A session is replaced by a session.
LEMMA PutsTyped ==
  ASSUME TypeOK, NEW p \in Procs, NEW s \in Sessions, Puts(p, s)
  PROVE  session' \in [Procs -> Sessions]
BY DEF TypeOK, Puts

\* Every step keeps the typing.
LEMMA Typing ==
  ASSUME IInv, Next
  PROVE  TypeOK'
<1> USE BoundsAssumption, HolderAssumption DEF IInv, Process
<1>0. /\ \A p \in Procs : session[p] \in Sessions
      /\ definition.revision \in Revisions /\ definition.active \in BOOLEAN
      /\ conversation.revision \in 0..MaxTurns /\ conversation.history \in Seq(Turns)
  BY RecordFields DEF TypeOK
<1>1. CASE Creates
  <2>0. 1 \in Revisions
    BY DEF Revisions
  <2>1. [definition EXCEPT !.revision = 1, !.active = TRUE] \in Definitions
    BY <2>0 DEF TypeOK, Definitions
  <2>2. [revision |-> 0, history |-> <<>>] \in Conversations
    BY DEF Conversations
  <2>3. definition' \in Definitions /\ conversation' \in Conversations
    BY <1>1, <2>1, <2>2 DEF Creates
  <2> QED BY <1>1, <2>3 DEF Creates, TypeOK, recall
<1>2. CASE Stages
  <2>1. [definition EXCEPT !.fenced = TRUE] \in Definitions
    BY DEF TypeOK, Definitions
  <2> QED BY <1>2, <2>1 DEF Stages, TypeOK, recall
<1>3. CASE EditsMemory
  BY <1>3 DEF EditsMemory, TypeOK, rows, Versions
<1>4. ASSUME NEW p \in Procs, Opens(p) \/ Closes(p) \/ Asks(p) \/ Dies(p)
      PROVE  TypeOK'
  <2>1. PICK s \in Sessions : Puts(p, s)
    BY <1>0, <1>4, SessionUpdates DEF Opens, Closes, Asks, Dies, Steps
  <2>2. UNCHANGED <<rows, recall, started>> /\ lock' \in {lock, Nobody}
    BY <1>4 DEF Opens, Closes, Asks, Dies
  <2> QED BY <2>1, <2>2, PutsTyped DEF TypeOK, rows, recall
<1>5. ASSUME NEW p \in Procs, Begins(p)
      PROVE  TypeOK'
  <2>1. started + 1 \in 0..MaxTurns
    BY <1>5 DEF Begins, TypeOK
  <2>2. [session[p] EXCEPT !.at = "locked", !.turn = started + 1] \in Sessions
    BY <1>0, <2>1, SessionUpdates DEF Steps, LockedSteps
  <2> QED BY <1>5, <2>1, <2>2, PutsTyped DEF Begins, Takes, TypeOK, rows, recall
<1>6. ASSUME NEW p \in Procs,
             Checks(p) \/ Replies(p) \/ Fails(p) \/ ChangeBegins(p) \/ ChecksFence(p)
      PROVE  TypeOK'
  <2>1. PICK s \in Sessions : Puts(p, s)
    <3>1. \A at \in {"checked", "replied", "failing", "changing", "unfenced"} : at \in Steps
      BY DEF Steps, LockedSteps, TurnSteps, ChangeSteps
    <3> QED BY <1>0, <1>6, <3>1, SessionUpdates
            DEF Checks, Replies, Fails, ChangeBegins, ChecksFence, Moves
  <2>2. UNCHANGED <<rows, recall, started>> /\ lock' \in {lock, p}
    BY <1>6 DEF Checks, Replies, Fails, ChangeBegins, ChecksFence, Takes
  <2> QED BY <2>1, <2>2, PutsTyped DEF TypeOK, rows, recall
<1>7. ASSUME NEW p \in Procs, ReadsHistory(p)
      PROVE  TypeOK'
  <2>1. "opened" \in Steps /\ conversation.revision \in -1..MaxTurns
    BY <1>0 DEF Steps, LockedSteps, TurnSteps
  <2>2. [session[p] EXCEPT !.at = "opened", !.base = conversation.revision, !.history = conversation.history]
          \in Sessions
    BY <1>0, <2>1, SessionUpdates
  <2> QED BY <1>7, <2>2, PutsTyped DEF ReadsHistory, TypeOK, rows, recall
<1>8. ASSUME NEW p \in Procs, Captures(p) \/ Confirms(p)
      PROVE  TypeOK'
  <2>1. PICK s \in Sessions : Puts(p, s)
    <3>1. "captured" \in Steps /\ "confirmed" \in Steps
      BY DEF Steps, LockedSteps, TurnSteps
    <3> QED BY <1>0, <1>8, <3>1, SessionUpdates DEF Captures, Confirms, Moves
  <2>2. CASE Captures(p)
    BY <2>1, <2>2, PutsTyped DEF Captures, TypeOK, rows, Versions
  <2>3. CASE Confirms(p)
    <3>1. session[p].turn \in Turns
      BY <2>3 DEF Confirms, Moves, Numbered, TurnSection, TurnSteps, TypeOK, Turns
    <3> QED BY <2>1, <2>3, <3>1, PutsTyped DEF Confirms, TypeOK, rows
  <2> QED BY <1>8, <2>2, <2>3
<1>9. ASSUME NEW p \in Procs, Prepares(p)
      PROVE  TypeOK'
  <2>1. PICK k \in {None, memory} : Puts(p, [session[p] EXCEPT !.at = "prepared", !.package = k])
    BY <1>9 DEF Prepares
  <2>2. [session[p] EXCEPT !.at = "prepared", !.package = k] \in Sessions
    BY <1>0, SessionUpdates DEF Steps, LockedSteps, TurnSteps, TypeOK
  <2> QED BY <1>9, <2>1, <2>2, PutsTyped DEF Prepares, TypeOK, rows, recall
<1>10. ASSUME NEW p \in Procs, NEW at \in {"out", "ready"}, Leaves(p, at)
       PROVE  session' \in [Procs -> Sessions] /\ lock' \in Procs \union {Nobody}
  <2>1. session[p].revision \in Revisions \union {None} /\ "ready" \in Steps
    BY <1>0, RecordFields DEF Steps
  <2>2. PICK s \in Sessions : Puts(p, s)
    BY <1>10, <2>1, SessionUpdates DEF Leaves
  <2> QED BY <1>10, <2>2, PutsTyped DEF Leaves
<1>11. ASSUME NEW p \in Procs, Refuses(p) \/ ChangeRefused(p)
       PROVE  TypeOK'
  BY <1>10, <1>11 DEF Refuses, ChangeRefused, TypeOK, rows, recall
<1>12. ASSUME NEW p \in Procs, Reconfigures(p)
       PROVE  TypeOK'
  <2>1. definition.revision + 1 \in Revisions
    BY <1>0, <1>12 DEF Reconfigures, Revisions
  <2>2. \A a \in BOOLEAN : [definition EXCEPT !.revision = @ + 1, !.active = a] \in Definitions
    BY <2>1 DEF TypeOK, Definitions
  <2> QED BY <1>10, <1>12, <2>2 DEF Reconfigures, TypeOK, recall
<1>13. ASSUME NEW p \in Procs, RecordsFailure(p)
       PROVE  TypeOK'
  <2>1. session[p].turn \in Turns
    BY <1>13 DEF RecordsFailure, Numbered, TurnSection, TypeOK, Turns
  <2>2. Receipt(p, "failed") \in Receipts
    BY <1>0, <2>1, RecordFields DEF Receipt, Receipts
  <2> QED BY <1>10, <1>13, <2>2 DEF RecordsFailure, TypeOK, recall
<1>14. ASSUME NEW p \in Procs, Saves(p)
       PROVE  TypeOK'
  <2>1. session[p].turn \in Turns /\ conversation.revision + 1 \in 0..MaxTurns
    BY <1>0, <1>14 DEF Saves, Numbered, TurnSection, TurnSteps, TypeOK, Turns
  <2>2. Receipt(p, "replied") \in Receipts
    BY <1>0, <2>1, RecordFields DEF Receipt, Receipts
  <2>3. Append(session[p].history, session[p].turn) \in Seq(Turns)
    BY <1>0, <2>1, RecordFields
  <2>4. Extended(p) \in Conversations
    BY <2>1, <2>3 DEF Extended, Conversations
  <2> QED BY <1>10, <1>14, <2>2, <2>4 DEF Saves, TypeOK, recall
<1> QED BY <1>1, <1>2, <1>3, <1>4, <1>5, <1>6, <1>7, <1>8, <1>9, <1>11, <1>12, <1>13, <1>14,
           Alternatives

\* What a process becomes in a step of its own; the others stay.
LEMMA PutsFacts ==
  ASSUME TypeOK, NEW p \in Procs, NEW s, Puts(p, s)
  PROVE  session'[p] = s /\ \A q \in Procs \ {p} : session'[q] = session[q]
BY DEF TypeOK, Puts

\* What a session that is out looks like.
LEMMA OutFacts ==
  /\ Out.at = "out" /\ Out.package = None
  /\ \A at, r : /\ [Out EXCEPT !.at = at, !.revision = r].at = at
                /\ [Out EXCEPT !.at = at, !.revision = r].package = None
BY DEF Out

\* A move changes only where its session is.
LEMMA MovesFacts ==
  ASSUME TypeOK, NEW p \in Procs, NEW from, NEW to, Moves(p, from, to)
  PROVE  /\ session[p].at = from /\ session'[p].at = to
         /\ session'[p].revision = session[p].revision
         /\ session'[p].history = session[p].history
         /\ session'[p].turn = session[p].turn
         /\ session'[p].package = session[p].package
         /\ \A q \in Procs \ {p} : session'[q] = session[q]
<1>1. session[p] \in Sessions
  BY DEF TypeOK
<1> QED BY <1>1, PutsFacts DEF Moves, Sessions

\* Leaving frees the lock and clears the session.
LEMMA LeavesFacts ==
  ASSUME TypeOK, NEW p \in Procs, NEW at \in {"out", "ready"}, Leaves(p, at)
  PROVE  /\ session'[p].at = at /\ session'[p].package = None /\ lock' = Nobody
         /\ \A q \in Procs \ {p} : session'[q] = session[q]
<1> DEFINE s == IF at = "out" THEN Out ELSE [Out EXCEPT !.at = at, !.revision = session[p].revision]
<1>1. s.at = at /\ s.package = None
  BY OutFacts
<1>2. Puts(p, s) /\ lock' = Nobody
  BY DEF Leaves
<1> HIDE DEF s
<1> QED BY <1>1, <1>2, PutsFacts

\* A process that leaves the lock, or never took it, has nothing to keep.
LEMMA Outside ==
  ASSUME NEW p \in Procs, session'[p].at \in {"out", "ready", "asked"},
         session'[p].package = None, session'[p].at # "out" => Exists'
  PROVE  Process(p)'
BY DEF Process, Holds, Numbered, Based, Packaged, Undisturbed, LockedSteps, TurnSection,
       TurnSteps, ChangeSteps, None

\* The steps of a process leave another one as it was: one of them at most is
\* past the lock, and who is not depends on nothing that moves.
LEMMA Bystander ==
  ASSUME NEW q \in Procs, Process(q), session'[q] = session[q],
         Exists => Exists', confirmed \subseteq confirmed',
         \/ session[q].at \notin LockedSteps
         \/ UNCHANGED <<definition, conversation, turns, memory, started, lock>>
  PROVE  Process(q)'
<1>1. CASE session[q].at \notin LockedSteps
  <2>1. /\ session[q].at \notin TurnSteps /\ session[q].at \notin TurnSection
        /\ session[q].at \notin {"confirmed", "unfenced"}
    BY <1>1 DEF LockedSteps, TurnSection, TurnSteps, ChangeSteps
  <2> QED BY <1>1, <2>1 DEF Process, Holds, Numbered, Based, Packaged, Undisturbed
<1>2. CASE UNCHANGED <<definition, conversation, turns, memory, started, lock>>
  BY <1>2 DEF Process, Holds, Numbered, Based, Packaged, Undisturbed, Exists
<1> QED BY <1>1, <1>2

\* Whoever owns the lock, or finds it free, is alone past it.
LEMMA Alone ==
  ASSUME NEW p \in Procs, lock \in {p, Nobody}, NEW q \in Procs \ {p}, Process(q)
  PROVE  session[q].at \notin LockedSteps
BY HolderAssumption DEF Process, Holds

\* Each step leaves each process what it may rely on.
LEMMA Processes ==
  ASSUME IInv, Next, NEW q \in Procs
  PROVE  Process(q)'
<1> USE DEF IInv
<1>0. \A p \in Procs : session[p] \in Sessions /\ Process(p)
  BY DEF TypeOK
<1>1. CASE Creates
  <2>1. session[q].at = "out" /\ session[q].package = None
    BY <1>0, <1>1 DEF Creates, Process, Holds, Packaged
  <2> QED BY <1>1, <2>1, Outside DEF Creates
<1>2. CASE Stages \/ EditsMemory
  <2>1. session[q].at \notin LockedSteps /\ session'[q] = session[q]
    BY <1>0, <1>2, HolderAssumption DEF Stages, EditsMemory, Process, Holds
  <2>2. [definition EXCEPT !.fenced = TRUE].revision = definition.revision
    BY DEF TypeOK, Definitions
  <2>3. (Exists => Exists') /\ confirmed' = confirmed
    BY <1>2, <2>2 DEF Stages, EditsMemory, Exists, rows, recall
  <2> QED BY <1>0, <2>1, <2>3, Bystander
<1>3. ASSUME NEW p \in Procs, Opens(p) \/ Closes(p) \/ Asks(p) \/ Dies(p)
      PROVE  Process(q)'
  <2>1. /\ session'[p].at \in {"out", "ready", "asked"} /\ session'[p].package = None
        /\ \A o \in Procs \ {p} : session'[o] = session[o]
    <3>1. CASE Closes(p) \/ Dies(p)
      BY <3>1, PutsFacts, OutFacts DEF Closes, Dies
    <3>2. ASSUME NEW at \in {"ready", "asked"},
                 Puts(p, [Out EXCEPT !.at = at, !.revision = definition.revision])
          PROVE  /\ session'[p].at \in {"out", "ready", "asked"} /\ session'[p].package = None
                 /\ \A o \in Procs \ {p} : session'[o] = session[o]
      <4> DEFINE s == [Out EXCEPT !.at = at, !.revision = definition.revision]
      <4>1. s.at = at /\ s.package = None /\ Puts(p, s)
        BY <3>2, OutFacts
      <4> HIDE DEF s
      <4> QED BY <4>1, PutsFacts
    <3> QED BY <1>3, <3>1, <3>2 DEF Opens, Asks
  <2>2. UNCHANGED <<definition, conversation, turns, memory, confirmed, started>>
    BY <1>3 DEF Opens, Closes, Asks, Dies, rows, recall
  <2>3. Exists
    BY <1>0, <1>3 DEF Opens, Closes, Asks, Dies, Process, Holds
  <2>4. Exists'
    BY <2>2, <2>3 DEF Exists
  <2>5. lock' = lock \/ lock = p
    BY <1>3 DEF Opens, Closes, Asks, Dies
  <2>6. CASE q = p
    BY <2>1, <2>4, <2>6, Outside
  <2>7. CASE q # p
    <3>1. UNCHANGED lock \/ session[q].at \notin LockedSteps
      BY <1>0, <2>5, <2>7, Alone
    <3> QED BY <1>0, <2>1, <2>2, <2>4, <2>7, <3>1, Bystander
  <2> QED BY <2>6, <2>7
<1>4. ASSUME NEW p \in Procs, Leaves(p, "out") \/ Leaves(p, "ready"),
             session[p].at \in LockedSteps, Exists => Exists', confirmed' = confirmed
      PROVE  Process(q)'
  <2>1. /\ session'[p].at \in {"out", "ready"} /\ session'[p].package = None
        /\ \A o \in Procs \ {p} : session'[o] = session[o]
    BY <1>4, LeavesFacts
  <2>2. lock = p /\ Exists
    BY <1>0, <1>4 DEF Process, Holds, LockedSteps, TurnSteps, ChangeSteps
  <2>3. CASE q = p
    BY <1>4, <2>1, <2>2, <2>3, Outside
  <2>4. CASE q # p
    <3>1. session[q].at \notin LockedSteps
      BY <1>0, <2>2, <2>4, Alone
    <3> QED BY <1>0, <1>4, <2>1, <2>4, <3>1, Bystander
  <2> QED BY <2>3, <2>4
<1>5. ASSUME NEW p \in Procs, Refuses(p) \/ ChangeRefused(p)
      PROVE  Process(q)'
  BY <1>4, <1>5 DEF Refuses, ChangeRefused, Exists, rows, recall, LockedSteps, TurnSteps
<1>6. ASSUME NEW p \in Procs, Saves(p) \/ RecordsFailure(p)
      PROVE  Process(q)'
  BY <1>4, <1>6 DEF Saves, RecordsFailure, Exists, recall, LockedSteps, TurnSteps
<1>7. ASSUME NEW p \in Procs, Reconfigures(p)
      PROVE  Process(q)'
  <2>1. \A a \in BOOLEAN :
          [definition EXCEPT !.revision = @ + 1, !.active = a].revision = definition.revision + 1
    BY DEF TypeOK, Definitions
  <2>2. definition.revision \in Int
    BY BoundsAssumption DEF TypeOK, Definitions, Revisions
  <2>3. Exists => Exists'
    BY <1>7, <2>1, <2>2 DEF Reconfigures, Exists
  <2>4. Leaves(p, "out") /\ session[p].at \in LockedSteps /\ confirmed' = confirmed
    BY <1>7 DEF Reconfigures, recall, LockedSteps, ChangeSteps
  <2> QED BY <1>4, <2>3, <2>4
<1>8. ASSUME NEW p \in Procs, session[p].at \in LockedSteps, Process(p)', confirmed \subseteq confirmed',
             Exists => Exists', \A o \in Procs \ {p} : session'[o] = session[o]
      PROVE  Process(q)'
  <2>1. lock = p
    BY <1>0, <1>8 DEF Process, Holds
  <2>2. CASE q # p
    <3>1. session[q].at \notin LockedSteps
      BY <1>0, <2>1, <2>2, Alone
    <3> QED BY <1>0, <1>8, <2>2, <3>1, Bystander
  <2> QED BY <1>8, <2>2
<1>9. ASSUME NEW p \in Procs, Begins(p)
      PROVE  Process(q)'
  <2> DEFINE s == [session[p] EXCEPT !.at = "locked", !.turn = started + 1]
  <2>1. s.at = "locked" /\ s.turn = started + 1 /\ s.package = session[p].package
    BY <1>0 DEF Sessions
  <2>2. Puts(p, s) /\ lock = Nobody /\ lock' = p /\ started' = started + 1 /\ session[p].at = "ready"
    BY <1>9 DEF Begins, Takes
  <2> HIDE DEF s
  <2>3. session'[p] = s /\ \A o \in Procs \ {p} : session'[o] = session[o]
    BY <2>2, PutsFacts
  <2>4. UNCHANGED <<definition, conversation, turns, memory, confirmed>>
    BY <1>9 DEF Begins, rows, recall
  <2>5. started \in Int /\ started >= 0 /\ conversation.revision \in Int
        /\ \A r \in turns : r.turn \in Int
    BY BoundsAssumption DEF TypeOK, Conversations, Receipts, Turns
  <2>6. session[p].package = None /\ Exists /\ Exists'
    BY <1>0, <2>2, <2>4 DEF Process, Holds, Packaged, Exists
  <2>7. Holds(p)' /\ Based(p)' /\ Packaged(p)' /\ Undisturbed(p)'
    BY <2>1, <2>2, <2>3, <2>6 DEF Holds, Based, Packaged, Undisturbed, TurnSteps
  <2>8. Numbered(p)'
    BY <2>1, <2>2, <2>3, <2>4, <2>5 DEF Numbered, Counted
  <2>9. CASE q = p
    BY <2>7, <2>8, <2>9 DEF Process
  <2>10. CASE q # p
    <3>1. session[q].at \notin LockedSteps
      BY <1>0, <2>2, <2>10, Alone
    <3> QED BY <1>0, <2>3, <2>4, <2>6, <2>10, <3>1, Bystander
  <2> QED BY <2>9, <2>10
<1>10. ASSUME NEW p \in Procs, ChangeBegins(p)
       PROVE  Process(q)'
  <2>1. /\ session[p].at = "asked" /\ session'[p].at = "changing"
        /\ session'[p].package = session[p].package
        /\ \A o \in Procs \ {p} : session'[o] = session[o]
        /\ lock = Nobody /\ lock' = p
    BY <1>10, MovesFacts DEF ChangeBegins, Takes
  <2>2. UNCHANGED <<definition, conversation, turns, memory, confirmed, started>>
    BY <1>10 DEF ChangeBegins, rows, recall
  <2>3. session[p].package = None /\ Exists /\ Exists'
    BY <1>0, <2>1, <2>2 DEF Process, Holds, Packaged, Exists
  <2>4. Process(p)'
    BY <2>1, <2>3 DEF Process, Holds, Numbered, Based, Packaged, Undisturbed, TurnSteps, TurnSection
  <2>5. CASE q # p
    <3>1. session[q].at \notin LockedSteps
      BY <1>0, <2>1, <2>5, Alone
    <3> QED BY <1>0, <2>1, <2>2, <2>3, <2>5, <3>1, Bystander
  <2> QED BY <2>4, <2>5
<1>11. ASSUME NEW p \in Procs, ChecksFence(p)
       PROVE  Process(q)'
  <2>1. ~definition.fenced /\ Moves(p, "changing", "unfenced")
        /\ UNCHANGED <<definition, conversation, turns, memory, confirmed, started, lock>>
    BY <1>11 DEF ChecksFence, rows, recall
  <2>2. Process(p)'
    BY <1>0, <2>1, MovesFacts DEF Process, Holds, Numbered, Based, Packaged,
       Undisturbed, Exists, TurnSteps, TurnSection, LockedSteps, ChangeSteps
  <2> QED BY <1>8, <2>1, <2>2, MovesFacts DEF Exists, LockedSteps, ChangeSteps
<1>12. ASSUME NEW p \in Procs, Checks(p) \/ Replies(p)
       PROVE  Process(q)'
  <2>1. UNCHANGED <<definition, conversation, turns, memory, confirmed, started, lock>>
    BY <1>12 DEF Checks, Replies, rows, recall
  <2>2. CASE Checks(p)
    <3>1. Moves(p, "locked", "checked") /\ Current(p)
      BY <2>2 DEF Checks
    <3>2. Process(p)'
      BY <1>0, <2>1, <3>1, MovesFacts DEF Process, Holds, Numbered, Based, Packaged, Rests,
         Undisturbed, Exists, Current, TurnSteps, TurnSection, LockedSteps
    <3> QED BY <1>8, <2>1, <3>1, <3>2, MovesFacts DEF Exists, LockedSteps
  <2>3. CASE Replies(p)
    <3>1. Moves(p, "prepared", "replied")
      BY <2>3 DEF Replies
    <3>2. Process(p)'
      BY <1>0, <2>1, <3>1, MovesFacts DEF Process, Holds, Numbered, Based, Packaged,
         Undisturbed, Exists, TurnSteps, TurnSection, LockedSteps
    <3> QED BY <1>8, <2>1, <3>1, <3>2, MovesFacts DEF Exists, LockedSteps, TurnSteps
  <2> QED BY <1>12, <2>2, <2>3
<1>13. ASSUME NEW p \in Procs, ReadsHistory(p)
       PROVE  Process(q)'
  <2> DEFINE s == [session[p] EXCEPT !.at = "opened", !.base = conversation.revision, !.history = conversation.history]
  <2>1. /\ s.at = "opened" /\ s.history = conversation.history
        /\ s.revision = session[p].revision /\ s.turn = session[p].turn
        /\ s.package = session[p].package
    BY <1>0 DEF Sessions
  <2>2. Puts(p, s) /\ session[p].at = "checked"
    BY <1>13 DEF ReadsHistory
  <2> HIDE DEF s
  <2>3. session'[p] = s /\ \A o \in Procs \ {p} : session'[o] = session[o]
    BY <2>2, PutsFacts
  <2>4. UNCHANGED <<definition, conversation, turns, memory, confirmed, started, lock>>
    BY <1>13 DEF ReadsHistory, rows, recall
  <2>5. Process(p)'
    BY <1>0, <2>1, <2>2, <2>3, <2>4 DEF Process, Holds, Numbered, Based, Packaged, Undisturbed,
       Exists, TurnSteps, TurnSection, LockedSteps
  <2> QED BY <1>8, <2>2, <2>3, <2>4, <2>5 DEF Exists, LockedSteps, TurnSteps
<1>14. ASSUME NEW p \in Procs, Captures(p)
       PROVE  Process(q)'
  <2>1. Moves(p, "opened", "captured")
        /\ UNCHANGED <<definition, conversation, turns, confirmed, started, lock>>
    BY <1>14 DEF Captures, rows
  <2>2. Process(p)'
    BY <1>0, <2>1, MovesFacts DEF Process, Holds, Numbered, Based, Packaged, Undisturbed,
       Exists, TurnSteps, TurnSection, LockedSteps
  <2> QED BY <1>8, <2>1, <2>2, MovesFacts DEF Exists, LockedSteps, TurnSteps
<1>15. ASSUME NEW p \in Procs, Prepares(p)
       PROVE  Process(q)'
  <2>1. PICK k \in {None, memory} : Puts(p, [session[p] EXCEPT !.at = "prepared", !.package = k])
    BY <1>15 DEF Prepares
  <2> DEFINE s == [session[p] EXCEPT !.at = "prepared", !.package = k]
  <2>2. /\ s.at = "prepared" /\ s.package = k /\ s.history = session[p].history
        /\ s.revision = session[p].revision /\ s.turn = session[p].turn
    BY <1>0 DEF Sessions
  <2> HIDE DEF s
  <2>3. session'[p] = s /\ \A o \in Procs \ {p} : session'[o] = session[o]
    BY <2>1, PutsFacts DEF s
  <2>4. session[p].at = "captured"
        /\ UNCHANGED <<definition, conversation, turns, memory, confirmed, started, lock>>
    BY <1>15 DEF Prepares, rows, recall
  <2>5. Process(p)'
    BY <1>0, <2>2, <2>3, <2>4 DEF Process, Holds, Numbered, Based, Packaged, Undisturbed,
       Exists, TurnSteps, TurnSection, LockedSteps
  <2> QED BY <1>8, <2>3, <2>4, <2>5 DEF Exists, LockedSteps, TurnSteps
<1>16. ASSUME NEW p \in Procs, Confirms(p)
       PROVE  Process(q)'
  <2>1. Moves(p, "replied", "confirmed") /\ confirmed \subseteq confirmed'
        /\ UNCHANGED <<definition, conversation, turns, memory, started, lock>>
    BY <1>16 DEF Confirms, rows
  <2>2. session[p].package # None => session[p].turn \in confirmed'
    BY <1>16 DEF Confirms
  <2>3. Process(p)'
    BY <1>0, <2>1, <2>2, MovesFacts DEF Process, Holds, Numbered, Based, Packaged, Undisturbed,
       Exists, TurnSteps, TurnSection, LockedSteps
  <2> QED BY <1>8, <2>1, <2>3, MovesFacts DEF Exists, LockedSteps, TurnSteps
<1>17. ASSUME NEW p \in Procs, Fails(p)
       PROVE  Process(q)'
  <2>1. session[p].at \in TurnSteps /\ Moves(p, session[p].at, "failing")
    BY <1>17 DEF Fails, Moves
  <2>2. UNCHANGED <<definition, conversation, turns, memory, confirmed, started, lock>>
    BY <1>17 DEF Fails, rows, recall
  <2>3. Process(p)'
    BY <1>0, <2>1, <2>2, MovesFacts DEF Process, Holds, Numbered, Based, Packaged, Undisturbed,
       Exists, TurnSteps, TurnSection, LockedSteps
  <2> QED BY <1>8, <2>1, <2>2, <2>3, MovesFacts DEF Exists, LockedSteps
<1> QED BY <1>1, <1>2, <1>3, <1>5, <1>6, <1>7, <1>9, <1>10, <1>11, <1>12, <1>13, <1>14, <1>15,
           <1>16, <1>17, Alternatives

-----------------------------------------------------------------------------

\* Steps that write nothing the receipts are compared with.
LEMMA Quiet ==
  ASSUME Counted, RepliesAreReceipted, UNCHANGED <<conversation, turns>>,
         confirmed \subseteq confirmed', started \in Int, started' \in {started, started + 1},
         Exists => Exists', conversation.revision \in Int, \A r \in turns : r.turn \in Int
  PROVE  Counted' /\ RepliesAreReceipted'
<1>1. Counted'
  BY DEF Counted
<1>2. RepliesAreReceipted'
  BY DEF RepliesAreReceipted, Said, ReceiptsOf
<1> QED BY <1>1, <1>2

\* Every step keeps history, receipts and confirmed exposures in agreement.
LEMMA Histories ==
  ASSUME IInv, Next
  PROVE  Counted' /\ RepliesAreReceipted'
<1> USE DEF IInv
<1>0. /\ started \in Int /\ conversation.revision \in Int
      /\ conversation.history \in Seq(Turns)
      /\ \A r \in turns : r.turn \in Int /\ r.status \in {"replied", "failed"}
      /\ \A p \in Procs : Process(p) /\ session[p] \in Sessions
  BY BoundsAssumption DEF TypeOK, Conversations, Receipts, Turns
<1>1. CASE Creates
  <2>1. conversation' = [revision |-> 0, history |-> <<>>] /\ turns = {} /\ turns' = {}
        /\ UNCHANGED <<confirmed, started>> /\ started >= 0
    BY <1>1, BoundsAssumption DEF Creates, Counted, recall, TypeOK
  <2>2. conversation'.revision = 0 /\ conversation'.history = <<>> /\ Len(conversation'.history) = 0
    BY <2>1
  <2>3. Said' = {} /\ ReceiptsOf("replied")' = {}
    BY <2>1, <2>2 DEF Said, ReceiptsOf
  <2> QED BY <1>0, <2>1, <2>2, <2>3 DEF Counted, RepliesAreReceipted
<1>2. ASSUME UNCHANGED <<conversation, turns>>, confirmed \subseteq confirmed',
             started' \in {started, started + 1}, Exists => Exists'
      PROVE  Counted' /\ RepliesAreReceipted'
  BY <1>0, <1>2, Quiet
<1>3. CASE Stages \/ EditsMemory
  <2>1. [definition EXCEPT !.fenced = TRUE].revision = definition.revision
    BY DEF TypeOK, Definitions
  <2> QED BY <1>2, <1>3, <2>1 DEF Stages, EditsMemory, Exists, rows, recall
<1>4. ASSUME NEW p \in Procs,
             \/ Opens(p) \/ Closes(p) \/ Asks(p) \/ Dies(p) \/ Refuses(p) \/ ChangeRefused(p)
             \/ Begins(p) \/ ChangeBegins(p) \/ ChecksFence(p) \/ Checks(p) \/ ReadsHistory(p)
             \/ Captures(p) \/ Prepares(p) \/ Replies(p) \/ Confirms(p) \/ Fails(p)
      PROVE  Counted' /\ RepliesAreReceipted'
  <2>1. CASE Opens(p) \/ Closes(p) \/ Asks(p) \/ Dies(p) \/ Refuses(p) \/ ChangeRefused(p)
    BY <1>2, <2>1 DEF Opens, Closes, Asks, Dies, Refuses, ChangeRefused, rows, recall, Exists
  <2>2. CASE Begins(p) \/ ChangeBegins(p) \/ ChecksFence(p) \/ Checks(p) \/ ReadsHistory(p)
    BY <1>2, <2>2 DEF Begins, ChangeBegins, ChecksFence, Checks, ReadsHistory, rows, recall, Exists
  <2>3. CASE Captures(p) \/ Prepares(p) \/ Replies(p) \/ Confirms(p) \/ Fails(p)
    BY <1>2, <2>3 DEF Captures, Prepares, Replies, Confirms, Fails, rows, recall, Exists
  <2> QED BY <1>4, <2>1, <2>2, <2>3
<1>5. ASSUME NEW p \in Procs, Reconfigures(p)
      PROVE  Counted' /\ RepliesAreReceipted'
  <2>1. \A a \in BOOLEAN :
          [definition EXCEPT !.revision = @ + 1, !.active = a].revision = definition.revision + 1
    BY DEF TypeOK, Definitions
  <2>2. definition.revision \in Int
    BY BoundsAssumption DEF TypeOK, Definitions, Revisions
  <2> QED BY <1>2, <1>5, <2>1, <2>2 DEF Reconfigures, recall, Exists
<1>6. ASSUME NEW p \in Procs, RecordsFailure(p)
      PROVE  Counted' /\ RepliesAreReceipted'
  <2>1. /\ turns' = turns \union {Receipt(p, "failed")}
        /\ UNCHANGED <<definition, conversation, confirmed, started>>
        /\ session[p].turn = started /\ Exists
    BY <1>0, <1>6 DEF RecordsFailure, recall, Process, Numbered, Holds, TurnSection
  <2>2. /\ Receipt(p, "failed").turn = started /\ Receipt(p, "failed").status = "failed"
        /\ Receipt(p, "failed").shown = None
    BY <2>1 DEF Receipt
  <2>3. Counted'
    BY <1>0, <2>1, <2>2 DEF Counted, Exists
  <2>4. ReceiptsOf("replied")' = ReceiptsOf("replied")
    BY <2>1, <2>2 DEF ReceiptsOf
  <2>5. Said' = Said
    BY <2>1 DEF Said
  <2>6. RepliesAreReceipted'
    BY <2>1, <2>2, <2>4, <2>5 DEF RepliesAreReceipted
  <2> QED BY <2>3, <2>6
<1>7. ASSUME NEW p \in Procs, Saves(p)
      PROVE  Counted' /\ RepliesAreReceipted'
  <2> DEFINE h == conversation.history
  <2> DEFINE t == session[p].turn
  <2> DEFINE r == Receipt(p, "replied")
  <2>1. /\ session[p].history = h /\ t = started /\ t \in Turns /\ Exists
        /\ conversation.revision < started /\ \A x \in turns : x.turn < started
        /\ session[p].package # None => t \in confirmed
    BY <1>0, <1>7 DEF Saves, Process, Holds, Numbered, Based, Packaged, TurnSection, TurnSteps,
       Sessions, Turns
  <2>2. /\ turns' = turns \union {r} /\ conversation' = Extended(p)
        /\ UNCHANGED <<definition, confirmed, started>>
    BY <1>7 DEF Saves, recall
  <2>3. /\ conversation'.revision = conversation.revision + 1
        /\ conversation'.history = Append(h, t)
    BY <2>1, <2>2 DEF Extended
  <2>4. r.turn = t /\ r.status = "replied" /\ r.shown = session[p].package
    BY DEF Receipt
  <2> HIDE DEF r
  <2>5. /\ Len(conversation'.history) = Len(h) + 1 /\ Len(h) \in Nat
        /\ \A i \in 1..Len(h) : conversation'.history[i] = h[i] /\ h[i] \in Said
        /\ conversation'.history[Len(h) + 1] = t
    BY <1>0, <2>1, <2>3 DEF Said
  <2>6. Said' = Said \union {t}
    <3>1. 1..Len(conversation'.history) = 1..Len(h) \union {Len(h) + 1}
      BY <2>5
    <3>2. \A x : x \in Said' <=> \E i \in 1..Len(h) \union {Len(h) + 1} : x = conversation'.history[i]
      BY <3>1 DEF Said
    <3>3. \A x : x \in Said' <=> x = t \/ \E i \in 1..Len(h) : x = h[i]
      BY <2>5, <3>2
    <3> QED BY <3>3 DEF Said
  <2>7. ReceiptsOf("replied")' = ReceiptsOf("replied") \union {r}
    BY <2>2, <2>4 DEF ReceiptsOf
  <2>8. \A i \in 1..Len(h) : h[i] < t /\ h[i] \in Int
    BY <1>0, <2>1, <2>5 DEF RepliesAreReceipted, ReceiptsOf
  <2>9. \A i, j \in 1..Len(conversation'.history) :
          i < j => conversation'.history[i] < conversation'.history[j]
    BY <2>5, <2>8 DEF RepliesAreReceipted
  <2>10. Said' = {x.turn : x \in ReceiptsOf("replied")'}
    BY <2>4, <2>6, <2>7 DEF RepliesAreReceipted
  <2>11. \A x \in turns' : x.shown # None => x.turn \in confirmed'
    BY <2>1, <2>2, <2>4 DEF RepliesAreReceipted
  <2>12. conversation'.revision = Len(conversation'.history)
    BY <2>3, <2>5 DEF RepliesAreReceipted
  <2>13. Counted'
    BY <1>0, <2>1, <2>2, <2>3, <2>4 DEF Counted, Exists
  <2> QED BY <2>9, <2>10, <2>11, <2>12, <2>13 DEF RepliesAreReceipted
<1> QED BY <1>1, <1>3, <1>4, <1>5, <1>6, <1>7, Alternatives

\* An agent is handed off when it is paused, and not reconfigured afterwards.
LEMMA Resting ==
  ASSUME IInv, Next
  PROVE  Rests'
<1>1. definition' = definition \/ Creates \/ Stages \/ \E p \in Procs : Reconfigures(p)
  BY Alternatives DEF Opens, Closes, Begins, Checks, Refuses, ReadsHistory, Captures, Prepares,
     Replies, Confirms, Saves, Fails, RecordsFailure, Dies, Asks, ChangeBegins, ChecksFence,
     ChangeRefused, EditsMemory, rows
<1>2. CASE definition' = definition
  BY <1>2 DEF IInv, Rests, Exists
<1>3. CASE Creates
  <2>1. [definition EXCEPT !.revision = 1, !.active = TRUE].fenced = definition.fenced
    BY DEF IInv, TypeOK, Definitions
  <2> QED BY <1>3, <2>1 DEF Creates, IInv, Rests
<1>4. CASE Stages
  <2>1. /\ [definition EXCEPT !.fenced = TRUE].active = definition.active
        /\ [definition EXCEPT !.fenced = TRUE].revision = definition.revision
    BY DEF IInv, TypeOK, Definitions
  <2> QED BY <1>4, <2>1 DEF Stages, Rests, Exists
<1>5. ASSUME NEW p \in Procs, Reconfigures(p)
      PROVE  Rests'
  <2>1. \A a \in BOOLEAN :
          [definition EXCEPT !.revision = @ + 1, !.active = a].fenced = definition.fenced
    BY DEF IInv, TypeOK, Definitions
  <2>2. ~definition.fenced
    BY <1>5 DEF IInv, Process, Undisturbed, Reconfigures
  <2> QED BY <1>5, <2>1, <2>2 DEF Reconfigures, Rests
<1> QED BY <1>1, <1>2, <1>3, <1>4, <1>5

-----------------------------------------------------------------------------

\* The initial state satisfies the inductive invariant.
THEOREM Initially == Init => IInv
<1> SUFFICES ASSUME Init PROVE IInv
  OBVIOUS
<1> USE BoundsAssumption DEF Init
<1>1. TypeOK
  <2>1. definition \in Definitions /\ conversation \in Conversations
    BY DEF Definitions, Conversations, Revisions
  <2>2. session \in [Procs -> Sessions]
    BY SessionUpdates
  <2>3. turns \subseteq Receipts /\ memory \in Versions /\ confirmed \subseteq Turns
        /\ started \in 0..MaxTurns /\ lock \in Procs \union {Nobody}
    BY DEF Versions
  <2> QED BY <2>1, <2>2, <2>3 DEF TypeOK
<1>2. Counted /\ Rests
  BY DEF Counted, Rests
<1>3. RepliesAreReceipted
  BY DEF RepliesAreReceipted, Said, ReceiptsOf
<1>4. ASSUME NEW p \in Procs PROVE Process(p)
  BY OutFacts DEF Process, Holds, Numbered, Based, Packaged, Undisturbed, LockedSteps,
     TurnSection, TurnSteps, ChangeSteps
<1> QED BY <1>1, <1>2, <1>3, <1>4 DEF IInv

\* A step that changes nothing keeps the invariant.
LEMMA Stutters == ASSUME IInv, UNCHANGED vars PROVE IInv'
<1>1. TypeOK' /\ Counted' /\ Rests' /\ RepliesAreReceipted'
  BY DEF IInv, vars, TypeOK, Counted, Rests, Exists, RepliesAreReceipted, Said, ReceiptsOf
<1>2. ASSUME NEW p \in Procs PROVE Process(p)'
  BY DEF IInv, vars, Process, Holds, Numbered, Based, Packaged, Undisturbed, Exists
<1> QED BY <1>1, <1>2 DEF IInv

\* Every reachable state satisfies the inductive invariant.
THEOREM Invariance == Spec => []IInv
<1>1. IInv /\ [Next]_vars => IInv'
  <2>1. ASSUME IInv, Next PROVE IInv'
    BY <2>1, Typing, Processes, Histories, Resting DEF IInv
  <2> QED BY <2>1, Stutters
<1> QED BY Initially, <1>1, PTL DEF Spec

-----------------------------------------------------------------------------
(* The conversation implements its atomic turns.                           *)

\* The conversation begins where the agent of AtomicTurns does.
LEMMA RecordBegins ==
  ASSUME Init
  PROVE  Record!Unborn
BY DEF Init, Record!Unborn

\* What a process does by itself, or gives up, is not seen.
LEMMA Unseen ==
  ASSUME NEW p \in Procs,
         \/ Opens(p) \/ Closes(p) \/ Begins(p) \/ Checks(p) \/ Refuses(p) \/ ReadsHistory(p)
         \/ Prepares(p) \/ Replies(p) \/ Confirms(p) \/ Fails(p) \/ Dies(p)
         \/ Asks(p) \/ ChangeBegins(p) \/ ChecksFence(p) \/ ChangeRefused(p)
  PROVE  UNCHANGED <<definition, conversation, turns, memory>>
BY DEF Opens, Closes, Begins, Checks, Refuses, ReadsHistory, Prepares, Replies, Confirms, Fails,
   Dies, Asks, ChangeBegins, ChecksFence, ChangeRefused, rows, recall

\* A turn that saves is answered at that instant.
LEMMA SavesAnswer ==
  ASSUME IInv, NEW p \in Procs, Saves(p)
  PROVE  \E t \in Turns : Record!Answer(t)
<1> USE DEF IInv
<1>1. session[p].at = "confirmed" /\ Process(p) /\ session[p] \in Sessions
  BY DEF Saves, TypeOK
<1>2. PICK t \in Turns : t = session[p].turn
  BY <1>1 DEF Process, Numbered, TurnSection, TurnSteps, Sessions, Turns
<1>3. /\ definition.active /\ ~definition.fenced
      /\ session[p].revision = definition.revision
      /\ session[p].history = conversation.history
      /\ session[p].package \in {None, memory}
      /\ \A r \in turns : r.turn < t
  BY <1>1, <1>2 DEF Process, Undisturbed, Based, Numbered, TurnSection, TurnSteps
<1>4. conversation'.history = Append(conversation.history, t)
  BY <1>2, <1>3 DEF Saves, Extended
<1>5. PICK shown \in {None, memory} : shown = session[p].package
  BY <1>3
<1>6. Receipt(p, "replied") = [turn |-> t, status |-> "replied",
                               binding |-> definition.revision, shown |-> shown]
  BY <1>2, <1>3, <1>5 DEF Receipt
<1>7. turns' = turns \union {[turn |-> t, status |-> "replied",
                              binding |-> definition.revision, shown |-> shown]}
  BY <1>6 DEF Saves
<1>8. Record!None = None
  BY DEF Record!None, None
<1>9. UNCHANGED <<definition, memory>>
  BY DEF Saves, recall
<1> QED BY <1>3, <1>4, <1>7, <1>8, <1>9 DEF Record!Answer, Record!InTurn

\* A turn that fails leaves its receipt.
LEMMA FailuresMiss ==
  ASSUME IInv, NEW p \in Procs, RecordsFailure(p)
  PROVE  \E t \in Turns : Record!Miss(t)
<1> USE DEF IInv
<1>1. session[p].at = "failing" /\ Process(p) /\ session[p] \in Sessions
  BY DEF RecordsFailure, TypeOK
<1>2. PICK t \in Turns : t = session[p].turn
  BY <1>1 DEF Process, Numbered, TurnSection, TurnSteps, Sessions, Turns
<1>3. definition.revision > 0 /\ \A r \in turns : r.turn < t
  BY <1>1, <1>2 DEF Process, Holds, Exists, Numbered, TurnSection
<1>4. Record!None = None
  BY DEF Record!None, None
<1>5. Receipt(p, "failed") = [turn |-> t, status |-> "failed", binding |-> None, shown |-> None]
  BY <1>2 DEF Receipt
<1>6. turns' = turns \union {[turn |-> t, status |-> "failed", binding |-> None, shown |-> None]}
  BY <1>5 DEF RecordsFailure
<1>7. UNCHANGED <<definition, conversation, memory>>
  BY DEF RecordsFailure, recall
<1> QED BY <1>3, <1>4, <1>6, <1>7 DEF Record!Miss, Record!InTurn

\* Every step is a step of the atomic turns, or is not seen by their users.
LEMMA RecordSteps ==
  ASSUME IInv, Next
  PROVE  Record!Step \/ UNCHANGED Record!record
<1> USE DEF IInv, Record!Step
<1>1. CASE Creates
  <2>1. conversation.history = <<>> /\ definition.revision = 0
    <3>1. definition.revision \in Nat
      BY <1>1, BoundsAssumption DEF TypeOK, Definitions, Revisions
    <3> QED BY <1>1, <3>1 DEF Creates, Counted, Exists
  <2> QED BY <1>1, <2>1 DEF Creates, recall, Record!Create
<1>2. CASE Stages
  BY <1>2 DEF Stages, Exists, recall, Record!HandOff
<1>3. CASE EditsMemory
  BY <1>3 DEF EditsMemory, Exists, rows, Record!Learn
<1>4. ASSUME NEW p \in Procs, Captures(p)
      PROVE  Record!Step \/ UNCHANGED Record!record
  <2>1. Exists
    BY <1>4 DEF Captures, Moves, Process, Holds
  <2> QED BY <1>4, <2>1 DEF Captures, Exists, rows, Record!Learn, Record!record
<1>5. ASSUME NEW p \in Procs, Reconfigures(p)
      PROVE  Record!Configure
  <2>1. Exists /\ ~definition.fenced
    BY <1>5 DEF Reconfigures, Process, Holds, Undisturbed
  <2> QED BY <1>5, <2>1 DEF Reconfigures, Exists, recall, Record!Configure
<1>6. ASSUME NEW p \in Procs, Saves(p) \/ RecordsFailure(p)
      PROVE  Record!Step
  BY <1>6, SavesAnswer, FailuresMiss
<1>7. ASSUME NEW p \in Procs,
             \/ Opens(p) \/ Closes(p) \/ Begins(p) \/ Checks(p) \/ Refuses(p) \/ ReadsHistory(p)
             \/ Prepares(p) \/ Replies(p) \/ Confirms(p) \/ Fails(p) \/ Dies(p)
             \/ Asks(p) \/ ChangeBegins(p) \/ ChecksFence(p) \/ ChangeRefused(p)
      PROVE  UNCHANGED Record!record
  BY <1>7, Unseen DEF Record!record
<1> QED BY <1>1, <1>2, <1>3, <1>4, <1>5, <1>6, <1>7, Alternatives

\* Each turn is as if it had happened at the instant its receipt is written,
\* whatever sessions, changes, failures and crashes do in between.
THEOREM TurnsImplemented == Spec => TurnsAreAtomic
<1>1. Init => Record!Unborn
  BY RecordBegins
<1>2. IInv /\ [Next]_vars => [Record!Step]_(Record!record)
  <2>1. ASSUME IInv, UNCHANGED vars PROVE UNCHANGED Record!record
    BY <2>1 DEF vars, Record!record
  <2> QED BY <2>1, RecordSteps
<1> QED BY <1>1, <1>2, Invariance, PTL DEF Spec, TurnsAreAtomic, Record!Atomic

\* The variables keep the types the code gives them.
THEOREM ConversationTyped == Spec => []TypeOK
<1>1. IInv => TypeOK
  BY DEF IInv
<1> QED BY Invariance, <1>1, PTL

\* A turn at work is never overtaken by a change of configuration, a handoff
\* or an edit of the memory it shows.
THEOREM TurnUndisturbed == Spec => []TurnIsUndisturbed
<1>1. IInv => TurnIsUndisturbed
  BY DEF IInv, Process, Undisturbed, TurnIsUndisturbed
<1> QED BY Invariance, <1>1, PTL

\* History, receipts and confirmed exposures tell the same turns.
THEOREM RepliesReceipted == Spec => []RepliesAreReceipted
<1>1. IInv => RepliesAreReceipted
  BY DEF IInv
<1> QED BY Invariance, <1>1, PTL
=============================================================================
