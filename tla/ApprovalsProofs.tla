-------------------------- MODULE ApprovalsProofs --------------------------
(***************************************************************************)
(* Proofs about Approvals, for any number of receipts and operators and    *)
(* any kinds of plan.  The argument: consume moves a receipt from pending  *)
(* to executing in one transaction, so an executing receipt is held by at  *)
(* most one operator (OneHolder), and the parts performed so far follow    *)
(* from where that operator is (HolderProgress).                           *)
(***************************************************************************)
EXTENDS Approvals, TLAPS

(* The first state satisfies the invariant: no receipt, nobody at work. *)
LEMMA InitInv == Init => IInv
<1> SUFFICES ASSUME Init PROVE IInv
  OBVIOUS
<1>1. TypeOK
  BY DEF Init, TypeOK, Receipts, States, PCs
<1>2. PerformedAtMostOnce /\ OnlySpentReceiptsAct /\ AppliedIsComplete
  BY DEF Init, PerformedAtMostOnce, OnlySpentReceiptsAct, AppliedIsComplete, Parts
<1>3. LockedPlansMeetTheirRevision /\ OneChangePerRevision /\ RevisionMovedOn
  BY DEF Init, LockedPlansMeetTheirRevision, OneChangePerRevision, RevisionMovedOn
<1>4. OneHolder /\ HolderProgress
  BY DEF Init, OneHolder, HolderProgress, Applying
<1> QED
  BY <1>1, <1>2, <1>3, <1>4 DEF IInv

(* What Perform does to the history variables. *)
LEMMA PerformEffect ==
  ASSUME TypeOK, NEW o \in Operators, plan[o] \in Approvals, Perform(o)
  PROVE  /\ done' \in [Approvals -> Nat]
         /\ seen' \in [Approvals -> [revision : Nat, memory : Nat]]
         /\ done'[plan[o]] = done[plan[o]] + 1
         /\ \A id \in Approvals : id # plan[o] => done'[id] = done[id] /\ seen'[id] = seen[id]
         /\ Kind(o) \in Locked => seen'[plan[o]].revision = agent.revision
<1>1. done' = [done EXCEPT ![plan[o]] = done[plan[o]] + 1]
  BY DEF Perform
<1>2. done[plan[o]] + 1 \in Nat
  BY DEF TypeOK
<1>3. done' \in [Approvals -> Nat]
  BY <1>1, <1>2 DEF TypeOK
<1>4. [revision |-> agent.revision, memory |-> memory] \in [revision : Nat, memory : Nat]
  BY DEF TypeOK
<1>5. seen' \in [Approvals -> [revision : Nat, memory : Nat]]
  BY <1>4 DEF Perform, TypeOK
<1>6. done'[plan[o]] = done[plan[o]] + 1
  BY <1>1 DEF TypeOK
<1>7. \A id \in Approvals : id # plan[o] => done'[id] = done[id] /\ seen'[id] = seen[id]
  BY DEF Perform, TypeOK
<1>8. Kind(o) \in Locked => seen'[plan[o]].revision = agent.revision
  BY DEF Perform, TypeOK
<1> QED
  BY <1>3, <1>5, <1>6, <1>7, <1>8

(* Every apply step moves one operator that holds a spent receipt one place
   on, leaves receipts and plans alone, and performs at most one part. *)
LEMMA ApplyShape ==
  ASSUME IInv, NEW o \in Operators, ApplyStep(o)
  PROVE  /\ pc[o] \in {"consumed", "checked", "half"}
         /\ plan[o] \in Approvals
         /\ UNCHANGED <<receipts, plan>>
         /\ \/ /\ pc' = [pc EXCEPT ![o] = "checked"]
               /\ pc[o] = "consumed"
               /\ UNCHANGED <<done, seen>>
            \/ /\ pc' = [pc EXCEPT ![o] = "half"]
               /\ pc[o] \in {"consumed", "checked"}
               /\ Kind(o) \in {"create", "work", "remote"}
               /\ Perform(o)
            \/ /\ pc' = [pc EXCEPT ![o] = "complete"]
               /\ pc[o] = "half" /\ Kind(o) \in {"create", "work", "remote"}
               /\ Perform(o)
            \/ /\ pc' = [pc EXCEPT ![o] = "complete"]
               /\ pc[o] \in {"consumed", "checked"}
               /\ Kind(o) \in {"configure", "memory", "single", "direct"}
               /\ Kind(o) \in Locked => Current(o)
               /\ Perform(o)
<1>1. pc[o] \in {"consumed", "checked", "half"}
  BY DEF ApplyStep, Go, Check, ApplyConfigure, ApplyMemory, SubmitWork, LaunchWork,
         FirstPart, SecondPart, OnlyPart
<1>2. plan[o] \in Approvals
  BY <1>1 DEF IInv, HolderProgress, Applying
<1>3. UNCHANGED <<receipts, plan>>
  BY DEF ApplyStep, Check, ApplyConfigure, ApplyMemory, SubmitWork, LaunchWork,
         FirstPart, SecondPart, OnlyPart
<1>4. CASE Check(o)
  BY <1>1, <1>2, <1>3, <1>4 DEF Check, Go
<1>5. CASE SubmitWork(o) \/ FirstPart(o)
  BY <1>1, <1>2, <1>3, <1>5 DEF SubmitWork, FirstPart, Go
<1>6. CASE LaunchWork(o) \/ SecondPart(o)
  BY <1>1, <1>2, <1>3, <1>6 DEF LaunchWork, SecondPart, Go
<1>7. CASE ApplyConfigure(o) \/ ApplyMemory(o) \/ OnlyPart(o)
  BY <1>1, <1>2, <1>3, <1>7 DEF ApplyConfigure, Swaps, ApplyMemory, OnlyPart, Go, Locked
<1> QED
  BY <1>4, <1>5, <1>6, <1>7 DEF ApplyStep

(* Steps that only touch what the invariant does not speak of. *)
Aside == BeginTurn \/ EndTurn \/ ConfigureByHand \/ ChangeMemoryByHand
         \/ \E id \in Approvals : TakeJob(id)

(* The steps of the platform, by what they touch. *)
LEMMA Alternatives ==
  ASSUME [Next]_vars
  PROVE  \/ \E o \in Operators : ApplyStep(o) \/ Consume(o) \/ Finish(o) \/ Abandon(o) \/ Count(o)
         \/ \E o \in Operators, id \in Approvals : Preview(o, id)
         \/ \E o \in Operators, id \in Approvals, k \in Kinds : Dispatch(o, id, k)
         \/ \E id \in Approvals, k \in Kinds : Request(id, k)
         \/ \E id \in Approvals : Reject(id) \/ Expire(id)
         \/ Aside
         \/ UNCHANGED vars
<1>1. CASE \E o \in Operators : OperatorStep(o)
  BY <1>1 DEF OperatorStep
<1>2. CASE \E id \in Approvals :
             Reject(id) \/ Expire(id) \/ TakeJob(id) \/ (\E k \in Kinds : Request(id, k))
  BY <1>2 DEF Aside
<1>3. CASE BeginTurn \/ EndTurn \/ ConfigureByHand \/ ChangeMemoryByHand
  BY <1>3 DEF Aside
<1> QED
  BY <1>1, <1>2, <1>3 DEF Next

(* The updates the actions make to a receipt keep it a receipt. *)
LEMMA ReceiptUpdates ==
  ASSUME NEW r \in Receipts
  PROVE  /\ \A s \in States : [r EXCEPT !.state = s] \in Receipts
         /\ [r EXCEPT !.expired = TRUE] \in Receipts
BY DEF Receipts

(* Every step keeps the types. *)
LEMMA TypeStep ==
  ASSUME IInv, [Next]_vars
  PROVE  TypeOK'
<1> USE DEF IInv
<1>a. \A id \in Approvals, s \in States : [receipts[id] EXCEPT !.state = s] \in Receipts
  BY ReceiptUpdates DEF TypeOK
<1>b. \A id \in Approvals : [receipts[id] EXCEPT !.expired = TRUE] \in Receipts
  BY ReceiptUpdates DEF TypeOK
<1>1. ASSUME NEW id \in Approvals, NEW k \in Kinds, Insert(id, k)
      PROVE  receipts' \in [Approvals -> Receipts]
  <2>1. \A r, d \in Nat :
          [state |-> "pending", kind |-> k, revision |-> r, digest |-> d,
           expired |-> FALSE] \in Receipts
    BY DEF TypeOK, Receipts, States
  <2>2. /\ (IF k = "create" THEN 0 ELSE agent.revision) \in Nat
        /\ (IF k = "memory" THEN memory ELSE 0) \in Nat
    BY DEF TypeOK
  <2> QED
    BY <1>1, <2>1, <2>2 DEF Insert, TypeOK
<1>2. ASSUME NEW id \in Approvals, NEW k \in Kinds,
             Request(id, k) \/ \E o \in Operators : Dispatch(o, id, k)
      PROVE  TypeOK'
  <2>1. receipts' \in [Approvals -> Receipts]
    BY <1>1, <1>2 DEF Dispatch, Request
  <2>2. pc' \in [Operators -> PCs]
    BY <1>2 DEF Dispatch, Request, Go, TypeOK, PCs
  <2> QED
    BY <1>2, <2>1, <2>2 DEF Dispatch, Request, TypeOK
<1>3. ASSUME NEW id \in Approvals, Reject(id) \/ Expire(id)
      PROVE  TypeOK'
  <2>1. CASE Reject(id)
    <3>1. Rejected(id) \in Receipts
      BY <1>a DEF Rejected, States
    <3>2. receipts' \in [Approvals -> Receipts]
      BY <2>1, <3>1 DEF Reject, TypeOK
    <3> QED
      BY <2>1, <3>2 DEF Reject, TypeOK
  <2>2. CASE Expire(id)
    <3>1. receipts' = [receipts EXCEPT ![id] = [receipts[id] EXCEPT !.expired = TRUE]]
      BY <2>2 DEF Expire
    <3>2. receipts' \in [Approvals -> Receipts]
      BY <1>b, <3>1 DEF TypeOK
    <3> QED
      BY <2>2, <3>2 DEF Expire, TypeOK
  <2> QED
    BY <1>3, <2>1, <2>2
<1>4. ASSUME NEW o \in Operators, NEW id \in Approvals, Preview(o, id)
      PROVE  TypeOK'
  <2>1. pc' \in [Operators -> PCs] /\ plan' \in [Operators -> Approvals \union {Nothing}]
    BY <1>4 DEF Preview, Go, TypeOK, PCs
  <2> QED
    BY <1>4, <2>1 DEF Preview, TypeOK
<1>5. ASSUME NEW o \in Operators, Consume(o) \/ Finish(o) \/ Abandon(o)
      PROVE  TypeOK'
  <2>1. pc' \in [Operators -> PCs] /\ plan' \in [Operators -> Approvals \union {Nothing}]
    BY <1>5 DEF Consume, Finish, Abandon, Go, TypeOK, PCs
  <2>2. Abandon(o) => receipts' = receipts
    BY DEF Abandon
  <2>3. Consume(o) \/ Finish(o) => plan[o] \in Approvals
    BY DEF Consume, Finish, Finishable, Go, HolderProgress, Applying
  <2>4. ASSUME Consume(o) \/ Finish(o)
        PROVE  receipts' \in [Approvals -> Receipts]
    <3>1. PICK s \in States : receipts' = [receipts EXCEPT ![plan[o]] =
                                            [receipts[plan[o]] EXCEPT !.state = s]]
      BY <2>3, <2>4 DEF Consume, Finish, TypeOK, Receipts, States
    <3> QED
      BY <1>a, <2>3, <2>4, <3>1 DEF TypeOK
  <2>5. receipts' \in [Approvals -> Receipts]
    BY <1>5, <2>2, <2>4 DEF TypeOK
  <2> QED
    BY <1>5, <2>1, <2>5 DEF Consume, Finish, Abandon, TypeOK
<1>6. ASSUME NEW o \in Operators, ApplyStep(o)
      PROVE  TypeOK'
  <2>1. /\ pc' \in [Operators -> PCs]
        /\ receipts' \in [Approvals -> Receipts]
        /\ plan' \in [Operators -> Approvals \union {Nothing}]
    BY <1>6, ApplyShape DEF TypeOK, PCs
  <2>2. done' \in [Approvals -> Nat] /\ seen' \in [Approvals -> [revision : Nat, memory : Nat]]
    BY <1>6, ApplyShape, PerformEffect DEF TypeOK
  <2>3. agent' \in [revision : Nat, active : BOOLEAN] /\ memory' \in Nat /\ turn' \in BOOLEAN
    BY <1>6 DEF ApplyStep, Check, ApplyConfigure, ApplyMemory, SubmitWork, LaunchWork,
               FirstPart, SecondPart, OnlyPart, TypeOK
  <2>4. queue' \in [Approvals -> {"none", "queued", "taken"}]
    BY <1>6 DEF ApplyStep, Check, ApplyConfigure, ApplyMemory, SubmitWork, LaunchWork,
               FirstPart, SecondPart, OnlyPart, TypeOK
  <2> QED
    BY <2>1, <2>2, <2>3, <2>4 DEF TypeOK
<1>7. ASSUME Aside
      PROVE  TypeOK'
  <2>1. CASE BeginTurn \/ EndTurn
    BY <2>1 DEF BeginTurn, EndTurn, TypeOK
  <2>2. CASE ConfigureByHand
    BY <2>2 DEF ConfigureByHand, TypeOK
  <2>3. CASE ChangeMemoryByHand
    BY <2>3 DEF ChangeMemoryByHand, TypeOK
  <2>4. ASSUME NEW id \in Approvals, TakeJob(id) PROVE TypeOK'
    BY <2>4 DEF TakeJob, TypeOK
  <2> QED
    BY <1>7, <2>1, <2>2, <2>3, <2>4 DEF Aside
<1>8. CASE UNCHANGED vars
  BY <1>8 DEF vars, TypeOK
<1>9. ASSUME NEW o \in Operators, Count(o)
      PROVE  TypeOK'
  <2>1. pc' \in [Operators -> PCs]
    BY <1>9 DEF Count, Go, TypeOK, PCs
  <2> QED
    BY <1>9, <2>1 DEF Count, TypeOK
<1> QED
  BY Alternatives, <1>2, <1>3, <1>4, <1>5, <1>6, <1>7, <1>8, <1>9

(* A rejection or the passing of time touches a pending receipt's state, or
   no state at all. *)
LEMMA SmallUpdates ==
  ASSUME TypeOK, NEW id \in Approvals, Reject(id) \/ Expire(id)
  PROVE  /\ UNCHANGED <<agent, pc, plan, done, seen>>
         /\ \A x \in Approvals : receipts'[x].kind = receipts[x].kind
                              /\ receipts'[x].revision = receipts[x].revision
         /\ \A x \in Approvals : \/ receipts'[x].state = receipts[x].state
                                 \/ receipts[x].state = "pending" /\ receipts'[x].state = "rejected"
<1>1. CASE Reject(id)
  BY <1>1 DEF Reject, Rejectable, Rejected, TypeOK, Receipts
<1>2. CASE Expire(id)
  <2>1. receipts' = [receipts EXCEPT ![id] = [receipts[id] EXCEPT !.expired = TRUE]]
    BY <1>2 DEF Expire
  <2>2. /\ [receipts[id] EXCEPT !.expired = TRUE].kind = receipts[id].kind
        /\ [receipts[id] EXCEPT !.expired = TRUE].state = receipts[id].state
        /\ [receipts[id] EXCEPT !.expired = TRUE].revision = receipts[id].revision
    BY DEF TypeOK, Receipts
  <2> QED
    BY <1>2, <2>1, <2>2 DEF Expire, TypeOK
<1> QED
  BY <1>1, <1>2

(* A spent receipt keeps one holder, wherever that holder goes next. *)
LEMMA HolderStep ==
  ASSUME IInv, [Next]_vars, TypeOK'
  PROVE  OneHolder' /\ HolderProgress'
<1> USE DEF Applying
<1>1. ASSUME NEW id \in Approvals, NEW k \in Kinds,
             Request(id, k) \/ \E o \in Operators : Dispatch(o, id, k)
      PROVE  OneHolder' /\ HolderProgress'
  <2>1. /\ receipts[id].state = "absent"
        /\ \A x \in Approvals : x # id => receipts'[x] = receipts[x]
        /\ UNCHANGED <<plan, done>>
    BY <1>1 DEF Request, Dispatch, Insert, IInv, TypeOK
  <2>2. \A p \in Operators : pc'[p] = pc[p] \/ (pc[p] = "counted" /\ pc'[p] = "idle")
    BY <1>1 DEF Request, Dispatch, Go, IInv, TypeOK
  <2>3. \A p \in Operators : pc[p] \in Applying \union {"previewed"} =>
          plan[p] \in Approvals /\ plan[p] # id
    BY <2>1 DEF IInv, HolderProgress
  <2>4. OneHolder'
    BY <2>1, <2>2 DEF IInv, OneHolder
  <2>5. HolderProgress'
    BY <2>1, <2>2, <2>3 DEF IInv, HolderProgress, Parts
  <2> QED
    BY <2>4, <2>5
<1>2. ASSUME NEW id \in Approvals, Reject(id) \/ Expire(id)
      PROVE  OneHolder' /\ HolderProgress'
  <2>1. /\ UNCHANGED <<pc, plan, done>>
        /\ \A x \in Approvals : receipts'[x].kind = receipts[x].kind
        /\ \A x \in Approvals : receipts[x].state # "pending" =>
             receipts'[x].state = receipts[x].state
        /\ \A x \in Approvals : receipts[x].state = "pending" =>
             receipts'[x].state \in {"pending", "rejected"}
    BY <1>2, SmallUpdates DEF IInv
  <2>2. OneHolder'
    BY <2>1 DEF IInv, OneHolder
  <2>3. HolderProgress'
    BY <2>1 DEF IInv, HolderProgress, Parts
  <2> QED
    BY <2>2, <2>3
<1>3. ASSUME NEW o \in Operators, NEW id \in Approvals, Preview(o, id)
      PROVE  OneHolder' /\ HolderProgress'
  <2>1. /\ UNCHANGED <<receipts, done>>
        /\ receipts[id].state = "pending"
        /\ pc'[o] = "previewed" /\ plan'[o] = id
        /\ \A p \in Operators : p # o => pc'[p] = pc[p] /\ plan'[p] = plan[p]
    BY <1>3 DEF Preview, Usable, Go, IInv, TypeOK
  <2>2. OneHolder'
    BY <2>1 DEF IInv, OneHolder
  <2>3. HolderProgress'
    BY <2>1 DEF IInv, HolderProgress, Parts
  <2> QED
    BY <2>2, <2>3
<1>4. ASSUME NEW o \in Operators, Consume(o)
      PROVE  OneHolder' /\ HolderProgress'
  <2>1. plan[o] \in Approvals /\ receipts[plan[o]].state = "pending"
    BY <1>4 DEF Consume, Go, Usable, IInv, HolderProgress
  <2>2. /\ UNCHANGED <<plan, done>>
        /\ pc'[o] = "consumed"
        /\ \A p \in Operators : p # o => pc'[p] = pc[p]
        /\ receipts'[plan[o]].state = "executing"
        /\ \A x \in Approvals : receipts'[x].kind = receipts[x].kind
        /\ \A x \in Approvals : x # plan[o] => receipts'[x] = receipts[x]
    BY <1>4, <2>1 DEF Consume, Go, IInv, TypeOK, Receipts
  <2>3. done[plan[o]] = 0
    BY <2>1 DEF IInv, OnlySpentReceiptsAct, TypeOK
  <2>4. \A p \in Operators : p # o /\ pc[p] \in Applying => plan[p] # plan[o]
    BY <2>1 DEF IInv, HolderProgress
  <2>5. OneHolder'
    BY <2>2, <2>4 DEF IInv, OneHolder
  <2>6. HolderProgress'
    BY <2>1, <2>2, <2>3, <2>4 DEF IInv, HolderProgress, Parts
  <2> QED
    BY <2>5, <2>6
<1>5. ASSUME NEW o \in Operators, Finish(o) \/ Abandon(o) \/ Count(o)
      PROVE  OneHolder' /\ HolderProgress'
  <2>1. /\ pc'[o] \in {"idle", "counted"}
        /\ \A p \in Operators : p # o => pc'[p] = pc[p] /\ plan'[p] = plan[p]
        /\ UNCHANGED done
    BY <1>5 DEF Finish, Abandon, Count, Go, IInv, TypeOK
  <2>2. OneHolder'
    BY <2>1 DEF IInv, OneHolder
  <2>3. CASE Abandon(o) \/ Count(o)
    <3>1. UNCHANGED receipts
      BY <2>3 DEF Abandon, Count
    <3> QED
      BY <2>1, <2>2, <3>1 DEF IInv, HolderProgress, Parts
  <2>4. CASE Finish(o)
    <3>1. plan[o] \in Approvals /\ pc[o] = "complete"
      BY <2>4 DEF Finish, Finishable, IInv, HolderProgress
    <3>2. /\ \A x \in Approvals : x # plan[o] => receipts'[x] = receipts[x]
          /\ receipts'[plan[o]].kind = receipts[plan[o]].kind
          /\ receipts'[plan[o]].state = "applied"
      BY <2>4, <3>1 DEF Finish, IInv, HolderProgress, TypeOK, Receipts
    <3>3. \A p \in Operators : p # o /\ pc[p] \in Applying => plan[p] # plan[o]
      BY <3>1 DEF IInv, OneHolder
    <3>4. HolderProgress'
      BY <2>1, <3>1, <3>2, <3>3 DEF IInv, HolderProgress, Parts
    <3> QED
      BY <2>2, <3>4
  <2> QED
    BY <1>5, <2>3, <2>4
<1>6. ASSUME NEW o \in Operators, ApplyStep(o)
      PROVE  OneHolder' /\ HolderProgress'
  <2>1. /\ pc[o] \in {"consumed", "checked", "half"}
        /\ plan[o] \in Approvals
        /\ UNCHANGED <<receipts, plan>>
        /\ \A p \in Operators : p # o => pc'[p] = pc[p]
        /\ pc'[o] \in {"checked", "half", "complete"}
    BY <1>6, ApplyShape DEF IInv, TypeOK
  <2>2. \A p \in Operators : p # o /\ pc[p] \in Applying => plan[p] # plan[o]
    BY <2>1 DEF IInv, OneHolder
  <2>3. \A x \in Approvals : x # plan[o] => done'[x] = done[x]
    BY <1>6, <2>1, ApplyShape, PerformEffect DEF IInv
  <2>4. OneHolder'
    BY <2>1, <2>2 DEF IInv, OneHolder
  <2>5. /\ pc'[o] = "checked" => done'[plan[o]] = 0
        /\ pc'[o] = "half" => done'[plan[o]] = 1 /\ Parts(plan[o]) = 2
        /\ pc'[o] = "complete" => done'[plan[o]] = Parts(plan[o])
    <3>1. /\ pc[o] \in {"consumed", "checked"} => done[plan[o]] = 0
          /\ pc[o] = "half" => done[plan[o]] = 1 /\ Parts(plan[o]) = 2
      BY <2>1 DEF IInv, HolderProgress
    <3>2. Perform(o) => done'[plan[o]] = done[plan[o]] + 1
      BY <2>1, PerformEffect DEF IInv
    <3>3. /\ pc'[o] = "checked" => pc[o] = "consumed" /\ UNCHANGED done
          /\ pc'[o] = "half" => /\ pc[o] \in {"consumed", "checked"}
                                /\ Kind(o) \in {"create", "work", "remote"}
                                /\ Perform(o)
          /\ pc'[o] = "complete" =>
               /\ Perform(o)
               /\ \/ pc[o] = "half"
                  \/ /\ pc[o] \in {"consumed", "checked"}
                     /\ Kind(o) \in {"configure", "memory", "single", "direct"}
      BY <1>6, <2>1, ApplyShape DEF IInv, TypeOK
    <3> QED
      BY <2>1, <3>1, <3>2, <3>3 DEF Kind, Parts
  <2>6. HolderProgress'
    BY <2>1, <2>2, <2>3, <2>5 DEF IInv, HolderProgress, Parts
  <2> QED
    BY <2>4, <2>6
<1>7. CASE Aside \/ UNCHANGED vars
  <2>1. UNCHANGED <<receipts, pc, plan, done>>
    BY <1>7 DEF Aside, BeginTurn, EndTurn, ConfigureByHand, ChangeMemoryByHand, TakeJob, vars
  <2> QED
    BY <2>1 DEF IInv, OneHolder, HolderProgress, Parts
<1> QED
  BY Alternatives, <1>1, <1>2, <1>3, <1>4, <1>5, <1>6, <1>7

(* Parts are only performed by the holder of a spent receipt, and a result
   is only recorded by a holder that has performed them all. *)
LEMMA DoneStep ==
  ASSUME IInv, [Next]_vars, TypeOK'
  PROVE  PerformedAtMostOnce' /\ OnlySpentReceiptsAct' /\ AppliedIsComplete'
<1> USE DEF Applying
<1> DEFINE Goal == PerformedAtMostOnce /\ OnlySpentReceiptsAct /\ AppliedIsComplete
<1>1. ASSUME NEW id \in Approvals, NEW k \in Kinds,
             Request(id, k) \/ \E o \in Operators : Dispatch(o, id, k)
      PROVE  Goal'
  <2>1. /\ receipts[id].state = "absent"
        /\ receipts'[id].state = "pending"
        /\ \A x \in Approvals : x # id => receipts'[x] = receipts[x]
        /\ UNCHANGED done
    BY <1>1 DEF Request, Dispatch, Insert, IInv, TypeOK
  <2>2. done[id] = 0
    BY <2>1 DEF IInv, OnlySpentReceiptsAct, TypeOK
  <2> QED
    BY <2>1, <2>2 DEF IInv, PerformedAtMostOnce, OnlySpentReceiptsAct, AppliedIsComplete, Parts
<1>2. ASSUME NEW id \in Approvals, Reject(id) \/ Expire(id)
      PROVE  Goal'
  <2>1. /\ UNCHANGED done
        /\ \A x \in Approvals : receipts'[x].kind = receipts[x].kind
        /\ \A x \in Approvals : \/ receipts'[x].state = receipts[x].state
                                \/ receipts[x].state = "pending" /\ receipts'[x].state = "rejected"
    BY <1>2, SmallUpdates DEF IInv
  <2> QED
    BY <2>1 DEF IInv, PerformedAtMostOnce, OnlySpentReceiptsAct, AppliedIsComplete, Parts
<1>3. ASSUME NEW o \in Operators, Consume(o) \/ Finish(o)
      PROVE  Goal'
  <2>1. plan[o] \in Approvals
    BY <1>3 DEF Consume, Finish, Finishable, Go, IInv, HolderProgress
  <2>2. /\ UNCHANGED done
        /\ \A x \in Approvals : receipts'[x].kind = receipts[x].kind
        /\ \A x \in Approvals : x # plan[o] => receipts'[x] = receipts[x]
    BY <1>3, <2>1 DEF Consume, Finish, IInv, TypeOK, Receipts
  <2>3. CASE Consume(o)
    <3>1. receipts[plan[o]].state = "pending" /\ receipts'[plan[o]].state = "executing"
      BY <2>1, <2>3 DEF Consume, Usable, IInv, TypeOK, Receipts
    <3> QED
      BY <2>1, <2>2, <3>1 DEF IInv, PerformedAtMostOnce, OnlySpentReceiptsAct,
                              AppliedIsComplete, Parts
  <2>4. CASE Finish(o)
    <3>1. receipts'[plan[o]].state = "applied" /\ done[plan[o]] = Parts(plan[o])
      BY <2>1, <2>4 DEF Finish, Finishable, IInv, HolderProgress, TypeOK, Receipts
    <3> QED
      BY <2>1, <2>2, <3>1 DEF IInv, PerformedAtMostOnce, OnlySpentReceiptsAct,
                              AppliedIsComplete, Parts
  <2> QED
    BY <1>3, <2>3, <2>4
<1>4. ASSUME NEW o \in Operators, ApplyStep(o)
      PROVE  Goal'
  <2>1. /\ pc[o] \in {"consumed", "checked", "half"}
        /\ plan[o] \in Approvals
        /\ UNCHANGED receipts
        /\ pc'[o] \in {"checked", "half", "complete"}
    BY <1>4, ApplyShape DEF IInv, TypeOK
  <2>2. \A x \in Approvals : x # plan[o] => done'[x] = done[x]
    BY <1>4, <2>1, ApplyShape, PerformEffect DEF IInv
  <2>3. receipts[plan[o]].state = "executing"
    BY <2>1 DEF IInv, HolderProgress
  <2>4. done'[plan[o]] <= Parts(plan[o])
    <3>1. plan'[o] = plan[o] /\ Parts(plan[o])' = Parts(plan[o])
      BY <1>4, ApplyShape DEF Parts
    <3>2. HolderProgress'
      BY HolderStep
    <3> QED
      BY <2>1, <3>1, <3>2 DEF HolderProgress, Parts
  <2> QED
    BY <2>1, <2>2, <2>3, <2>4 DEF IInv, PerformedAtMostOnce, OnlySpentReceiptsAct,
                                  AppliedIsComplete, Parts
<1>5. CASE \/ Aside \/ UNCHANGED vars
           \/ \E o \in Operators : Abandon(o) \/ Count(o) \/ \E id \in Approvals : Preview(o, id)
  <2>1. UNCHANGED <<receipts, done>>
    BY <1>5 DEF Aside, BeginTurn, EndTurn, ConfigureByHand, ChangeMemoryByHand, TakeJob, vars,
                Abandon, Count, Preview
  <2> QED
    BY <2>1 DEF IInv, PerformedAtMostOnce, OnlySpentReceiptsAct, AppliedIsComplete, Parts
<1> QED
  BY Alternatives, <1>1, <1>2, <1>3, <1>4, <1>5

(* A plan applied under the turn lock meets the revision it was made for:
   its only part compares the revision in the step that performs it. *)
LEMMA RevisionStep ==
  ASSUME IInv, [Next]_vars, TypeOK'
  PROVE  LockedPlansMeetTheirRevision'
<1>1. ASSUME NEW id \in Approvals, NEW k \in Kinds,
             Request(id, k) \/ \E o \in Operators : Dispatch(o, id, k)
      PROVE  LockedPlansMeetTheirRevision'
  <2>1. /\ receipts[id].state = "absent"
        /\ \A x \in Approvals : x # id => receipts'[x] = receipts[x]
        /\ UNCHANGED <<done, seen>>
    BY <1>1 DEF Request, Dispatch, Insert, IInv, TypeOK
  <2>2. done[id] = 0
    BY <2>1 DEF IInv, OnlySpentReceiptsAct, TypeOK
  <2> QED
    BY <2>1, <2>2 DEF IInv, LockedPlansMeetTheirRevision
<1>2. ASSUME NEW id \in Approvals, Reject(id) \/ Expire(id)
      PROVE  LockedPlansMeetTheirRevision'
  BY <1>2, SmallUpdates DEF IInv, LockedPlansMeetTheirRevision
<1>3. ASSUME NEW o \in Operators, Consume(o) \/ Finish(o)
      PROVE  LockedPlansMeetTheirRevision'
  <2>1. plan[o] \in Approvals
    BY <1>3 DEF Consume, Finish, Finishable, Go, IInv, HolderProgress, Applying
  <2>2. /\ UNCHANGED <<done, seen>>
        /\ \A x \in Approvals : receipts'[x].kind = receipts[x].kind
                             /\ receipts'[x].revision = receipts[x].revision
    <3>1. CASE Consume(o)
      BY <2>1, <3>1 DEF Consume, IInv, TypeOK, Receipts
    <3>2. CASE Finish(o)
      BY <2>1, <3>2 DEF Finish, IInv, TypeOK, Receipts
    <3> QED
      BY <1>3, <3>1, <3>2
  <2> QED
    BY <2>2 DEF IInv, LockedPlansMeetTheirRevision
<1>4. ASSUME NEW o \in Operators, ApplyStep(o)
      PROVE  LockedPlansMeetTheirRevision'
  <2>1. plan[o] \in Approvals /\ UNCHANGED receipts
    BY <1>4, ApplyShape
  <2>2. CASE UNCHANGED <<done, seen>>
    BY <2>1, <2>2 DEF IInv, LockedPlansMeetTheirRevision
  <2>3. CASE Perform(o)
    <3>1. \A x \in Approvals : x # plan[o] => done'[x] = done[x] /\ seen'[x] = seen[x]
      BY <2>1, <2>3, PerformEffect DEF IInv
    <3>2. Kind(o) \in Locked => Current(o)
      <4>1. done' # done
        BY <2>1, <2>3, PerformEffect DEF IInv, TypeOK
      <4> QED
        BY <1>4, <4>1, ApplyShape DEF Locked
    <3>3. Kind(o) \in Locked => seen'[plan[o]].revision = receipts[plan[o]].revision
      BY <2>1, <2>3, <3>2, PerformEffect DEF IInv, Current
    <3> QED
      BY <2>1, <3>1, <3>3 DEF IInv, LockedPlansMeetTheirRevision, Kind
  <2> QED
    BY <1>4, <2>2, <2>3, ApplyShape
<1>5. CASE \/ Aside \/ UNCHANGED vars
           \/ \E o \in Operators : Abandon(o) \/ Count(o) \/ \E id \in Approvals : Preview(o, id)
  <2>1. UNCHANGED <<receipts, done, seen>>
    BY <1>5 DEF Aside, BeginTurn, EndTurn, ConfigureByHand, ChangeMemoryByHand, TakeJob, vars,
                Abandon, Count, Preview
  <2> QED
    BY <2>1 DEF IInv, LockedPlansMeetTheirRevision
<1> QED
  BY Alternatives, <1>1, <1>2, <1>3, <1>4, <1>5

(* Only an approved configuration or somebody's own changes the revision,
   and either moves it on by one. *)
LEMMA RevisionUp ==
  ASSUME TypeOK, [Next]_vars
  PROVE  agent'.revision \in {agent.revision, agent.revision + 1}
<1>1. CASE \E o \in Operators : ApplyConfigure(o)
  BY <1>1 DEF ApplyConfigure
<1>2. CASE ConfigureByHand
  BY <1>2 DEF ConfigureByHand
<1>3. CASE agent' = agent
  BY <1>3
<1> QED
  BY <1>1, <1>2, <1>3 DEF Next, OperatorStep, ApplyStep, Preview, Dispatch, Count, Consume, Check,
     ApplyMemory, SubmitWork, LaunchWork, FirstPart, SecondPart, OnlyPart, Finish, Abandon, Reject,
     Expire, TakeJob, Request, BeginTurn, EndTurn, ChangeMemoryByHand, vars

(* What approve, reject and time write into a receipt keeps its kind, the
   revision and the digest it was made for. *)
LEMMA ReceiptWrites ==
  ASSUME IInv, \/ \E id \in Approvals : Reject(id) \/ Expire(id)
               \/ \E o \in Operators : Consume(o) \/ Finish(o)
  PROVE  /\ \A x \in Approvals : /\ receipts'[x].kind = receipts[x].kind
                                 /\ receipts'[x].revision = receipts[x].revision
                                 /\ receipts'[x].digest = receipts[x].digest
         /\ UNCHANGED <<done, seen>>
<1> USE DEF IInv
<1>1. ASSUME NEW id \in Approvals
      PROVE  /\ receipts[id] \in Receipts
             /\ \A s \in States : /\ [receipts[id] EXCEPT !.state = s].kind = receipts[id].kind
                                  /\ [receipts[id] EXCEPT !.state = s].revision = receipts[id].revision
                                  /\ [receipts[id] EXCEPT !.state = s].digest = receipts[id].digest
             /\ [receipts[id] EXCEPT !.expired = TRUE].kind = receipts[id].kind
             /\ [receipts[id] EXCEPT !.expired = TRUE].revision = receipts[id].revision
             /\ [receipts[id] EXCEPT !.expired = TRUE].digest = receipts[id].digest
  BY DEF TypeOK, Receipts
<1>2. ASSUME NEW id \in Approvals, NEW r, receipts' = [receipts EXCEPT ![id] = r],
             r.kind = receipts[id].kind, r.revision = receipts[id].revision,
             r.digest = receipts[id].digest
      PROVE  \A x \in Approvals : /\ receipts'[x].kind = receipts[x].kind
                                 /\ receipts'[x].revision = receipts[x].revision
                                 /\ receipts'[x].digest = receipts[x].digest
  BY <1>2 DEF TypeOK
<1>3. ASSUME NEW id \in Approvals, Reject(id)
      PROVE  receipts' = [receipts EXCEPT ![id] = [receipts[id] EXCEPT !.state = "rejected"]]
  BY <1>3 DEF Reject, Rejected
<1>4. ASSUME NEW id \in Approvals, Expire(id)
      PROVE  receipts' = [receipts EXCEPT ![id] = [receipts[id] EXCEPT !.expired = TRUE]]
  BY <1>4 DEF Expire
<1>5. ASSUME NEW o \in Operators, Consume(o) \/ Finish(o)
      PROVE  /\ plan[o] \in Approvals
             /\ \E s \in States : receipts' = [receipts EXCEPT ![plan[o]] =
                                                [receipts[plan[o]] EXCEPT !.state = s]]
  <2>1. plan[o] \in Approvals
    BY <1>5 DEF Consume, Finish, Finishable, Go, HolderProgress, Applying
  <2> QED
    BY <1>1, <1>5, <2>1 DEF Consume, Finish, Receipts, States
<1>6. UNCHANGED <<done, seen>>
  BY DEF Reject, Expire, Consume, Finish
<1>7. ASSUME NEW id \in Approvals, Reject(id)
      PROVE  \A x \in Approvals : /\ receipts'[x].kind = receipts[x].kind
                                 /\ receipts'[x].revision = receipts[x].revision
                                 /\ receipts'[x].digest = receipts[x].digest
  <2>1. "rejected" \in States
    BY DEF States
  <2> QED
    BY <1>1, <1>2, <1>3, <1>7, <2>1
<1>8. ASSUME NEW id \in Approvals, Expire(id)
      PROVE  \A x \in Approvals : /\ receipts'[x].kind = receipts[x].kind
                                 /\ receipts'[x].revision = receipts[x].revision
                                 /\ receipts'[x].digest = receipts[x].digest
  BY <1>1, <1>2, <1>4, <1>8
<1>9. ASSUME NEW o \in Operators, Consume(o) \/ Finish(o)
      PROVE  \A x \in Approvals : /\ receipts'[x].kind = receipts[x].kind
                                 /\ receipts'[x].revision = receipts[x].revision
                                 /\ receipts'[x].digest = receipts[x].digest
  <2>1. PICK s \in States : receipts' = [receipts EXCEPT ![plan[o]] =
                                           [receipts[plan[o]] EXCEPT !.state = s]]
    BY <1>5, <1>9
  <2>2. plan[o] \in Approvals
    BY <1>5, <1>9
  <2> QED
    BY <1>1, <1>2, <2>1, <2>2
<1> QED
  BY <1>6, <1>7, <1>8, <1>9

(* An applied configuration leaves its revision behind, so that none made
   for the same revision can follow it. *)
LEMMA ChangeStep ==
  ASSUME IInv, [Next]_vars, TypeOK'
  PROVE  OneChangePerRevision' /\ RevisionMovedOn'
<1> DEFINE Changed(x) == receipts[x].kind = "configure" /\ done[x] > 0
<1>0. /\ agent.revision \in Nat /\ agent'.revision \in {agent.revision, agent.revision + 1}
      /\ \A x \in Approvals : receipts[x].revision \in Nat
  BY RevisionUp DEF IInv, TypeOK, Receipts
<1>1. ASSUME \A x \in Approvals : Changed(x)' =>
                Changed(x) /\ receipts'[x].revision = receipts[x].revision
      PROVE  OneChangePerRevision' /\ RevisionMovedOn'
  BY <1>0, <1>1 DEF IInv, OneChangePerRevision, RevisionMovedOn
<1>2. ASSUME NEW id \in Approvals, NEW k \in Kinds,
             Request(id, k) \/ \E o \in Operators : Dispatch(o, id, k)
      PROVE  OneChangePerRevision' /\ RevisionMovedOn'
  <2>1. /\ receipts[id].state = "absent"
        /\ \A x \in Approvals : x # id => receipts'[x] = receipts[x]
        /\ UNCHANGED done
    BY <1>2 DEF Request, Dispatch, Insert, IInv, TypeOK
  <2>2. done[id] = 0
    BY <2>1 DEF IInv, OnlySpentReceiptsAct, TypeOK
  <2> QED
    BY <1>1, <2>1, <2>2
<1>3. ASSUME NEW id \in Approvals, Reject(id) \/ Expire(id)
      PROVE  OneChangePerRevision' /\ RevisionMovedOn'
  BY <1>1, <1>3, SmallUpdates DEF IInv
<1>4. ASSUME NEW o \in Operators, Consume(o) \/ Finish(o)
      PROVE  OneChangePerRevision' /\ RevisionMovedOn'
  BY <1>1, <1>4, ReceiptWrites
<1>5. ASSUME NEW o \in Operators, ApplyStep(o)
      PROVE  OneChangePerRevision' /\ RevisionMovedOn'
  <2>1. plan[o] \in Approvals /\ UNCHANGED receipts
    BY <1>5, ApplyShape
  <2>2. CASE Kind(o) # "configure" \/ UNCHANGED done
    <3>1. \A x \in Approvals : x # plan[o] => done'[x] = done[x]
      BY <1>5, <2>1, ApplyShape, PerformEffect DEF IInv
    <3> QED
      BY <1>1, <2>1, <2>2, <3>1 DEF Kind
  <2>3. CASE Kind(o) = "configure" /\ done' # done
    <3>1. ApplyConfigure(o)
      BY <1>5, <2>3 DEF ApplyStep, Check, ApplyMemory, SubmitWork, LaunchWork, FirstPart,
         SecondPart, OnlyPart
    <3>2. /\ agent'.revision = agent.revision + 1
          /\ receipts[plan[o]].revision = agent.revision
      BY <3>1 DEF ApplyConfigure, Swaps, Current
    <3>3. \A x \in Approvals : x # plan[o] => done'[x] = done[x]
      BY <2>1, <3>1, PerformEffect DEF ApplyConfigure, IInv
    <3> QED
      BY <1>0, <2>1, <3>2, <3>3 DEF IInv, OneChangePerRevision, RevisionMovedOn
  <2> QED
    BY <2>2, <2>3
<1>6. CASE \/ Aside \/ UNCHANGED vars
           \/ \E o \in Operators : Abandon(o) \/ Count(o) \/ \E id \in Approvals : Preview(o, id)
  <2>1. UNCHANGED <<receipts, done>>
    BY <1>6 DEF Aside, BeginTurn, EndTurn, ConfigureByHand, ChangeMemoryByHand, TakeJob, vars,
                Abandon, Count, Preview
  <2> QED
    BY <1>1, <2>1
<1> QED
  BY Alternatives, <1>2, <1>3, <1>4, <1>5, <1>6

(* The strengthened invariant holds in every reachable state of every
   instance. *)
THEOREM Invariance == Spec => []IInv
<1>1. IInv /\ [Next]_vars => IInv'
  BY TypeStep, HolderStep, DoneStep, RevisionStep, ChangeStep DEF IInv
<1> QED
  BY InitInv, <1>1, PTL DEF Spec

(* Every row, program counter and history keeps its type (control.py and the
   approvals table of jobs.py). *)
THEOREM TypeCorrect == Spec => []TypeOK
<1>1. IInv => TypeOK
  BY DEF IInv
<1> QED
  BY Invariance, <1>1, PTL

(* Single use: for any number of concurrent approvals, retries and crashes,
   no part of a plan takes effect twice (jobs.py consume). *)
THEOREM SingleUse == Spec => []PerformedAtMostOnce
<1>1. IInv => PerformedAtMostOnce
  BY DEF IInv
<1> QED
  BY Invariance, <1>1, PTL

(* Nothing takes effect for a receipt that was rejected or not approved
   (jobs.py reject, consume). *)
THEOREM RejectedNeverActs == Spec => []OnlySpentReceiptsAct
<1>1. IInv => OnlySpentReceiptsAct
  BY DEF IInv
<1> QED
  BY Invariance, <1>1, PTL

(* A receipt that says "applied" stands for the whole plan (control.py
   approve, jobs.py finish_approval). *)
THEOREM AppliedMeansDone == Spec => []AppliedIsComplete
<1>1. IInv => AppliedIsComplete
  BY DEF IInv
<1> QED
  BY Invariance, <1>1, PTL

(* Configuration and memory changes land on the definition revision their
   proposer saw (store.py configure, control.py _apply). *)
THEOREM ApprovedRevision == Spec => []LockedPlansMeetTheirRevision
<1>1. IInv => LockedPlansMeetTheirRevision
  BY DEF IInv
<1> QED
  BY Invariance, <1>1, PTL

(* Of the configurations proposed for one revision, one at most is applied
   (store.py configure). *)
THEOREM OneChange == Spec => []OneChangePerRevision
<1>1. IInv => OneChangePerRevision
  BY DEF IInv
<1> QED
  BY Invariance, <1>1, PTL

-----------------------------------------------------------------------------
(* The approvals table implements the ledger of receipts.                  *)

phases == [id \in Approvals |-> Phase(id)]
kinds == [id \in Approvals |-> receipts[id].kind]
bases == [id \in Approvals |-> receipts[id].revision]

(* The ledger reads a receipt as the table does. *)
LEMMA LedgerReads ==
  ASSUME NEW id \in Approvals
  PROVE  phases[id] = Phase(id) /\ kinds[id] = receipts[id].kind /\ bases[id] = receipts[id].revision
BY DEF phases, kinds, bases

(* When one receipt changes, so does one entry of the ledger. *)
LEMMA OneEntry ==
  ASSUME NEW id \in Approvals,
         \A x \in Approvals : x # id => receipts'[x] = receipts[x]
  PROVE  /\ phases' = [phases EXCEPT ![id] = Phase(id)']
         /\ kinds' = [kinds EXCEPT ![id] = receipts'[id].kind]
         /\ bases' = [bases EXCEPT ![id] = receipts'[id].revision]
<1>1. \A x \in Approvals : x # id => Phase(x)' = Phase(x)
  BY DEF Phase
<1>2. phases' = [phases EXCEPT ![id] = Phase(id)']
  BY <1>1 DEF phases
<1>3. kinds' = [kinds EXCEPT ![id] = receipts'[id].kind]
  BY DEF kinds
<1>4. bases' = [bases EXCEPT ![id] = receipts'[id].revision]
  BY DEF bases
<1> QED
  BY <1>2, <1>3, <1>4

(* A change of state that keeps the kind and the revision is a turn of one
   phase. *)
LEMMA LedgerTurns ==
  ASSUME NEW id \in Approvals, NEW from, NEW to,
         \A x \in Approvals : x # id => receipts'[x] = receipts[x],
         receipts'[id].kind = receipts[id].kind,
         receipts'[id].revision = receipts[id].revision,
         Phase(id) \in from, Phase(id)' = to, UNCHANGED <<done, agent, memory>>
  PROVE  Ledger!Turns(id, from, to) /\ UNCHANGED <<kinds, bases>>
<1>1. phases[id] \in from /\ phases' = [phases EXCEPT ![id] = to]
  BY LedgerReads, OneEntry
<1>2. Ledger!Turns(id, from, to)
  BY <1>1 DEF Ledger!Turns, phases
<1>3. UNCHANGED <<kinds, bases>>
  BY DEF kinds, bases
<1> QED
  BY <1>2, <1>3

(* The table begins as the ledger does. *)
LEMMA LedgerBlank == ASSUME Init PROVE Ledger!Blank
<1>1. \A id \in Approvals : Phase(id) = "absent"
  BY DEF Init, Phase
<1> QED
  BY <1>1 DEF Init, Ledger!Blank

(* A proposal is inserted with the revision of the agent it is about. *)
LEMMA InsertsPropose ==
  ASSUME TypeOK, NEW id \in Approvals, NEW k \in Kinds, Insert(id, k), UNCHANGED <<done, agent, memory>>
  PROVE  Ledger!Propose(id, k)
<1>1. PICK r : r = IF k = "create" THEN 0 ELSE agent.revision
  OBVIOUS
<1>2. /\ receipts[id].state = "absent"
      /\ \A x \in Approvals : x # id => receipts'[x] = receipts[x]
      /\ receipts'[id].state = "pending" /\ receipts'[id].kind = k /\ receipts'[id].revision = r
      /\ ~receipts'[id].expired
  BY <1>1 DEF Insert, TypeOK
<1>3. Phase(id) = "absent" /\ Phase(id)' = "pending"
  BY <1>2 DEF Phase
<1>4. /\ phases[id] = "absent"
      /\ phases' = [phases EXCEPT ![id] = "pending"]
      /\ kinds' = [kinds EXCEPT ![id] = k]
      /\ bases' = [bases EXCEPT ![id] = r]
  BY <1>2, <1>3, LedgerReads, OneEntry
<1>5. Ledger!Turns(id, {"absent"}, "pending")
  BY <1>4 DEF Ledger!Turns, phases
<1> QED
  BY <1>1, <1>4, <1>5 DEF Ledger!Propose, kinds, bases

(* Rejection, time, consumption and the record of the result. *)
LEMMA StateSteps ==
  ASSUME IInv, NEW id \in Approvals,
         \/ Reject(id) \/ Expire(id)
         \/ \E o \in Operators : plan[o] = id /\ (Consume(o) \/ Finish(o))
  PROVE  Ledger!Step \/ UNCHANGED Ledger!ledger
<1> USE DEF IInv
<1>0. receipts[id] \in Receipts /\ DOMAIN receipts = Approvals
  BY DEF TypeOK
<1>1. ASSUME UNCHANGED <<kinds, bases>>,
             \/ Ledger!Turns(id, {"pending", "lapsed"}, "rejected")
             \/ Ledger!Turns(id, {"pending"}, "lapsed")
             \/ Ledger!Turns(id, {"pending"}, "executing")
             \/ Ledger!Turns(id, {"executing"}, "applied") /\ done[id] = Ledger!Size(id)
      PROVE  Ledger!Step
  BY <1>1 DEF Ledger!Step, Ledger!Refuse, Ledger!Lapse, Ledger!Spend, Ledger!Settle, kinds, bases
<1>2. CASE Reject(id)
  <2>1. /\ \A x \in Approvals : x # id => receipts'[x] = receipts[x]
        /\ receipts'[id] = [receipts[id] EXCEPT !.state = "rejected"]
        /\ receipts[id].state = "pending" /\ UNCHANGED <<done, agent, memory>>
    BY <1>0, <1>2 DEF Reject, Rejectable, Rejected
  <2>2. /\ receipts'[id].kind = receipts[id].kind /\ receipts'[id].state = "rejected"
        /\ receipts'[id].revision = receipts[id].revision
    BY <1>0, <2>1 DEF Receipts
  <2>3. Phase(id) \in {"pending", "lapsed"} /\ Phase(id)' = "rejected"
    BY <2>1, <2>2 DEF Phase
  <2> QED
    BY <1>1, <2>1, <2>2, <2>3, LedgerTurns
<1>3. CASE Expire(id)
  <2>1. PICK r \in Receipts : r = [receipts[id] EXCEPT !.expired = TRUE]
    BY <1>0 DEF Receipts
  <2>2. /\ \A x \in Approvals : x # id => receipts'[x] = receipts[x]
        /\ receipts'[id] = r
        /\ receipts[id].state \in {"pending", "executing"} /\ ~receipts[id].expired
        /\ UNCHANGED <<done, agent, memory>>
    BY <1>0, <1>3, <2>1 DEF Expire, Open
  <2>3. /\ receipts'[id].kind = receipts[id].kind /\ receipts'[id].state = receipts[id].state
        /\ receipts'[id].revision = receipts[id].revision /\ receipts'[id].expired = TRUE
    BY <1>0, <2>1, <2>2 DEF Receipts
  <2>4. CASE receipts[id].state = "pending"
    <3>1. Phase(id) = "pending" /\ Phase(id)' = "lapsed"
      BY <2>2, <2>3, <2>4 DEF Phase
    <3> QED
      BY <1>1, <2>2, <2>3, <3>1, LedgerTurns
  <2>5. CASE receipts[id].state = "executing"
    <3>1. Phase(id) = "executing" /\ Phase(id)' = "executing"
      BY <2>3, <2>5 DEF Phase
    <3>2. UNCHANGED <<phases, kinds, bases>>
      <4>1. \A x \in Approvals : Phase(x)' = Phase(x)
        BY <2>2, <3>1 DEF Phase
      <4> QED
        BY <2>2, <2>3, <4>1 DEF phases, kinds, bases
    <3> QED
      BY <2>2, <3>2 DEF Ledger!ledger, phases, kinds, bases
  <2> QED
    BY <2>2, <2>4, <2>5
<1>4. ASSUME NEW o \in Operators, plan[o] = id, Consume(o)
      PROVE  Ledger!Step
  <2>1. /\ \A x \in Approvals : x # id => receipts'[x] = receipts[x]
        /\ receipts'[id] = [receipts[id] EXCEPT !.state = "executing"]
        /\ receipts[id].state = "pending" /\ ~receipts[id].expired
        /\ UNCHANGED <<done, agent, memory>>
    BY <1>0, <1>4 DEF Consume, Usable
  <2>2. /\ receipts'[id].kind = receipts[id].kind /\ receipts'[id].state = "executing"
        /\ receipts'[id].revision = receipts[id].revision
    BY <1>0, <2>1 DEF Receipts
  <2>3. Phase(id) = "pending" /\ Phase(id)' = "executing"
    BY <2>1, <2>2 DEF Phase
  <2> QED
    BY <1>1, <2>1, <2>2, <2>3, LedgerTurns
<1>5. ASSUME NEW o \in Operators, plan[o] = id, Finish(o)
      PROVE  Ledger!Step
  <2>1. receipts[id].state = "executing" /\ done[id] = Parts(id)
    BY <1>5 DEF Finish, Finishable, HolderProgress, Applying
  <2>2. /\ \A x \in Approvals : x # id => receipts'[x] = receipts[x]
        /\ receipts'[id] = [receipts[id] EXCEPT !.state = "applied"]
        /\ UNCHANGED <<done, agent, memory>>
    BY <1>0, <1>5, <2>1 DEF Finish
  <2>3. /\ receipts'[id].kind = receipts[id].kind /\ receipts'[id].state = "applied"
        /\ receipts'[id].revision = receipts[id].revision
    BY <1>0, <2>2 DEF Receipts
  <2>4. Phase(id) = "executing" /\ Phase(id)' = "applied"
    BY <2>1, <2>3 DEF Phase
  <2>5. done[id] = Ledger!Size(id)
    BY <2>1 DEF Parts, Ledger!Size
  <2> QED
    BY <1>1, <2>2, <2>3, <2>4, <2>5, LedgerTurns
<1> QED
  BY <1>2, <1>3, <1>4, <1>5

(* A part of a plan is performed by a step of approve() on a spent receipt. *)
LEMMA ApplyActs ==
  ASSUME IInv, NEW o \in Operators, ApplyStep(o)
  PROVE  Ledger!Step \/ UNCHANGED Ledger!ledger
<1> USE DEF IInv
<1>1. /\ plan[o] \in Approvals /\ UNCHANGED receipts
      /\ receipts[plan[o]].state = "executing"
  BY ApplyShape DEF HolderProgress, Applying
<1>2. UNCHANGED <<phases, kinds, bases>>
  BY <1>1 DEF phases, kinds, bases, Phase
<1>3. CASE Check(o)
  <2>1. UNCHANGED <<done, agent, memory>>
    BY <1>3 DEF Check
  <2> QED
    BY <1>2, <2>1 DEF Ledger!ledger, phases, kinds, bases
<1>4. CASE ~Check(o)
  <2>1. Perform(o)
    BY <1>4 DEF ApplyStep, ApplyConfigure, ApplyMemory, SubmitWork, LaunchWork, FirstPart,
       SecondPart, OnlyPart
  <2>2. PICK id \in Approvals : id = plan[o]
    BY <1>1
  <2>3. done' = [done EXCEPT ![id] = @ + 1]
    BY <2>1, <2>2 DEF Perform
  <2>4. done[id] < Ledger!Size(id)
    <3>1. /\ pc[o] \in {"consumed", "checked"} => done[id] = 0
          /\ pc[o] = "half" => done[id] = 1 /\ Parts(id) = 2
          /\ pc[o] \in {"consumed", "checked", "half"}
      BY <1>1, <2>2, ApplyShape DEF HolderProgress, Applying
    <3>2. Ledger!Size(id) = Parts(id) /\ Parts(id) \in {1, 2}
      BY <2>2 DEF Ledger!Size, Parts
    <3> QED
      BY <3>1, <3>2
  <2>5. phases[id] = "executing" /\ kinds[id] = Kind(o) /\ bases[id] = receipts[id].revision
    BY <1>1, <2>2, LedgerReads DEF Phase, Kind
  <2>6. /\ kinds[id] = "configure" =>
             agent.revision = bases[id] /\ agent'.revision = agent.revision + 1 /\ UNCHANGED memory
        /\ kinds[id] = "memory" =>
             agent.revision = bases[id] /\ memory' = memory + 1 /\ UNCHANGED agent
        /\ kinds[id] \notin {"configure", "memory"} => UNCHANGED <<agent, memory>>
    <3>1. CASE ApplyConfigure(o)
      BY <2>2, <2>5, <3>1 DEF ApplyConfigure, Swaps, Current
    <3>2. CASE ApplyMemory(o)
      BY <2>2, <2>5, <3>2 DEF ApplyMemory, Current
    <3>3. CASE SubmitWork(o) \/ LaunchWork(o) \/ FirstPart(o) \/ SecondPart(o) \/ OnlyPart(o)
      BY <2>5, <3>3 DEF SubmitWork, LaunchWork, FirstPart, SecondPart, OnlyPart
    <3> QED
      BY <1>4, <3>1, <3>2, <3>3 DEF ApplyStep
  <2>7. Ledger!Act(id)
    BY <1>2, <2>3, <2>4, <2>5, <2>6 DEF Ledger!Act, phases, kinds, bases
  <2> QED
    BY <2>7 DEF Ledger!Step
<1> QED
  BY <1>3, <1>4

(* Every step is a step of the ledger, or is not seen in it. *)
LEMMA LedgerSteps ==
  ASSUME IInv, [Next]_vars
  PROVE  Ledger!Step \/ UNCHANGED Ledger!ledger
<1>1. ASSUME NEW id \in Approvals, NEW k \in Kinds,
             Request(id, k) \/ \E o \in Operators : Dispatch(o, id, k)
      PROVE  Ledger!Step
  <2>1. Insert(id, k) /\ UNCHANGED <<done, agent, memory>> /\ k \in PlanKinds
    BY <1>1, KindsAssumption DEF Request, Dispatch
  <2> QED
    BY <2>1, InsertsPropose DEF Ledger!Step, IInv
<1>2. ASSUME NEW o \in Operators, Consume(o) \/ Finish(o)
      PROVE  Ledger!Step \/ UNCHANGED Ledger!ledger
  <2>1. plan[o] \in Approvals
    BY <1>2 DEF Consume, Finish, Finishable, Go, IInv, HolderProgress, Applying
  <2> QED
    BY <1>2, <2>1, StateSteps
<1>3. CASE \/ BeginTurn \/ EndTurn \/ \E id \in Approvals : TakeJob(id)
           \/ UNCHANGED vars
           \/ \E o \in Operators : Abandon(o) \/ Count(o) \/ \E id \in Approvals : Preview(o, id)
  <2>1. UNCHANGED <<receipts, done, agent, memory>>
    BY <1>3 DEF BeginTurn, EndTurn, TakeJob, vars, Abandon, Count, Preview
  <2> QED
    BY <2>1 DEF Ledger!ledger, Phase
<1>4. CASE ConfigureByHand \/ ChangeMemoryByHand
  <2>1. UNCHANGED <<receipts, done>>
    BY <1>4 DEF ConfigureByHand, ChangeMemoryByHand
  <2>2. \/ agent'.revision = agent.revision + 1 /\ UNCHANGED memory
        \/ memory' = memory + 1 /\ UNCHANGED agent
    BY <1>4 DEF ConfigureByHand, ChangeMemoryByHand
  <2>3. Ledger!ByHand
    BY <2>1, <2>2 DEF Ledger!ByHand, Phase
  <2> QED
    BY <2>3 DEF Ledger!Step
<1> QED
  BY <1>1, <1>2, <1>3, <1>4, StateSteps, ApplyActs, Alternatives DEF Aside

(* However approvals, rejections, crashes and changes by hand interleave,
   the table is a ledger whose receipts are spent at one instant and act
   only afterwards (control.py approve). *)
THEOREM ReceiptsImplemented == Spec => ImplementsReceipts
<1>1. Init => Ledger!Blank
  BY LedgerBlank
<1>2. IInv /\ [Next]_vars => [Ledger!Step]_(Ledger!ledger)
  BY LedgerSteps
<1> QED
  BY <1>1, <1>2, Invariance, PTL DEF Spec, ImplementsReceipts, Ledger!Ledger

-----------------------------------------------------------------------------
(* When memory plans do meet the record they were approved for.            *)

\* A memory plan on its way to the turn lock still has the digest of the record.
DigestHolds ==
  \A o \in Operators :
    pc[o] \in {"previewed", "consumed"} /\ Kind(o) = "memory" =>
      receipts[plan[o]].digest = memory

(* The digest compared in preview holds until the plan is applied, if nobody
   changes the record in between. *)
LEMMA DigestStep ==
  ASSUME IInv, [Next]_vars, [KeepsRecord]_vars, DigestHolds
  PROVE  DigestHolds'
<1> USE DEF IInv
<1>0. \A o \in Operators : pc[o] \in {"previewed", "consumed"} =>
        plan[o] \in Approvals /\ receipts[plan[o]].state # "absent"
  BY DEF HolderProgress, Applying
<1>1. \A id \in Approvals : receipts[id].state # "absent" =>
        receipts'[id].kind = receipts[id].kind /\ receipts'[id].digest = receipts[id].digest
  <2>1. ASSUME NEW id \in Approvals, NEW k \in Kinds,
               Request(id, k) \/ \E o \in Operators : Dispatch(o, id, k)
        PROVE  \A x \in Approvals : receipts[x].state # "absent" => receipts'[x] = receipts[x]
    BY <2>1 DEF Request, Dispatch, Insert, TypeOK
  <2>2. CASE UNCHANGED receipts
    BY <2>2
  <2>3. ASSUME NEW o \in Operators, ApplyStep(o)
        PROVE  UNCHANGED receipts
    BY <2>3, ApplyShape
  <2> QED
    BY <2>1, <2>2, <2>3, ReceiptWrites, Alternatives
       DEF Aside, BeginTurn, EndTurn, ConfigureByHand, ChangeMemoryByHand, TakeJob, vars,
           Abandon, Count, Preview
<1>2. ASSUME NEW o \in Operators, pc'[o] \in {"previewed", "consumed"}, Kind(o)' = "memory"
      PROVE  receipts'[plan'[o]].digest = memory'
  <2>1. CASE \E id \in Approvals : Preview(o, id)
    <3>1. PICK id \in Approvals : Preview(o, id)
      BY <2>1
    <3>2. plan'[o] = id /\ UNCHANGED <<receipts, memory>>
      BY <3>1 DEF Preview, TypeOK
    <3> QED
      BY <1>2, <3>1, <3>2 DEF Preview, Kind
  <2>2. CASE ~\E id \in Approvals : Preview(o, id)
    <3>1. pc[o] \in {"previewed", "consumed"} /\ plan'[o] = plan[o]
      <4>1. ASSUME NEW p \in Operators, ApplyStep(p)
            PROVE  pc[o] \in {"previewed", "consumed"} /\ plan'[o] = plan[o]
        BY <1>2, <4>1, ApplyShape DEF TypeOK
      <4>2. ASSUME NEW p \in Operators, Consume(p) \/ Finish(p) \/ Abandon(p) \/ Count(p)
            PROVE  pc[o] \in {"previewed", "consumed"} /\ plan'[o] = plan[o]
        BY <1>2, <4>2 DEF Consume, Finish, Abandon, Count, Go, TypeOK
      <4>3. ASSUME NEW p \in Operators, NEW id \in Approvals,
                   Preview(p, id) \/ \E k \in Kinds : Dispatch(p, id, k)
            PROVE  pc[o] \in {"previewed", "consumed"} /\ plan'[o] = plan[o]
        BY <1>2, <2>2, <4>3 DEF Preview, Dispatch, Go, TypeOK
      <4>4. CASE UNCHANGED <<pc, plan>>
        BY <1>2, <4>4
      <4> QED
        BY <4>1, <4>2, <4>3, <4>4, Alternatives
           DEF Aside, BeginTurn, EndTurn, ConfigureByHand, ChangeMemoryByHand, TakeJob, vars,
               Request, Reject, Expire
    <3>2. PICK id \in Approvals : id = plan[o]
      BY <1>0, <3>1
    <3>3. receipts[id].kind = "memory" /\ receipts'[id].digest = receipts[id].digest
      BY <1>0, <1>1, <1>2, <3>1, <3>2 DEF Kind
    <3>4. memory' = memory
      BY <1>2, <3>2, <3>3 DEF KeepsRecord, vars
    <3> QED
      BY <3>1, <3>2, <3>3, <3>4 DEF DigestHolds, Kind
  <2> QED
    BY <2>1, <2>2
<1> QED
  BY <1>2 DEF DigestHolds

(* A memory plan is applied to the record its digest was compared with. *)
LEMMA RecordStep ==
  ASSUME IInv, [Next]_vars, DigestHolds, MemoryPlansMeetTheirRecord
  PROVE  MemoryPlansMeetTheirRecord'
<1> USE DEF IInv
<1> DEFINE Acted(x) == receipts[x].kind = "memory" /\ done[x] > 0
<1>1. ASSUME \A x \in Approvals : Acted(x)' =>
               Acted(x) /\ receipts'[x].digest = receipts[x].digest /\ seen'[x] = seen[x]
      PROVE  MemoryPlansMeetTheirRecord'
  BY <1>1 DEF MemoryPlansMeetTheirRecord
<1>2. ASSUME NEW id \in Approvals, NEW k \in Kinds,
             Request(id, k) \/ \E o \in Operators : Dispatch(o, id, k)
      PROVE  MemoryPlansMeetTheirRecord'
  <2>1. /\ receipts[id].state = "absent"
        /\ \A x \in Approvals : x # id => receipts'[x] = receipts[x]
        /\ UNCHANGED <<done, seen>>
    BY <1>2 DEF Request, Dispatch, Insert, TypeOK
  <2>2. done[id] = 0
    BY <2>1 DEF OnlySpentReceiptsAct, TypeOK
  <2> QED
    BY <1>1, <2>1, <2>2
<1>3. CASE \/ \E id \in Approvals : Reject(id) \/ Expire(id)
           \/ \E o \in Operators : Consume(o) \/ Finish(o)
  BY <1>1, <1>3, ReceiptWrites
<1>4. ASSUME NEW o \in Operators, ApplyStep(o)
      PROVE  MemoryPlansMeetTheirRecord'
  <2>1. plan[o] \in Approvals /\ UNCHANGED receipts
    BY <1>4, ApplyShape
  <2>2. CASE UNCHANGED <<done, seen>>
    BY <1>1, <2>1, <2>2
  <2>3. CASE Perform(o)
    <3>1. \A x \in Approvals : x # plan[o] => done'[x] = done[x] /\ seen'[x] = seen[x]
      BY <2>1, <2>3, PerformEffect
    <3>2. Kind(o) # "memory" => MemoryPlansMeetTheirRecord'
      BY <1>1, <2>1, <3>1 DEF Kind
    <3>3. ASSUME Kind(o) = "memory"
          PROVE  seen'[plan[o]].memory = receipts[plan[o]].digest
      <4>1. pc[o] = "consumed"
        BY <1>4, <2>3, <3>3 DEF ApplyStep, Check, ApplyConfigure, ApplyMemory, SubmitWork,
           LaunchWork, FirstPart, SecondPart, OnlyPart, Go
      <4>2. receipts[plan[o]].digest = memory
        BY <3>3, <4>1 DEF DigestHolds
      <4>3. seen'[plan[o]].memory = memory
        BY <2>1, <2>3, <3>3 DEF Perform, Locked, TypeOK
      <4> QED
        BY <4>2, <4>3
    <3> QED
      BY <2>1, <3>1, <3>2, <3>3 DEF MemoryPlansMeetTheirRecord
  <2> QED
    BY <1>4, <2>2, <2>3, ApplyShape
<1>5. CASE \/ Aside \/ UNCHANGED vars
           \/ \E o \in Operators : Abandon(o) \/ Count(o) \/ \E id \in Approvals : Preview(o, id)
  <2>1. UNCHANGED <<receipts, done, seen>>
    BY <1>5 DEF Aside, BeginTurn, EndTurn, ConfigureByHand, ChangeMemoryByHand, TakeJob, vars,
                Abandon, Count, Preview
  <2> QED
    BY <1>1, <2>1
<1> QED
  BY Alternatives, <1>2, <1>3, <1>4, <1>5

(* docs/agent-platform.md, "memory digests reject stale approvals", holds
   of every run in which no record changes while an operator is between the
   comparison of the digest and the turn lock (control.py approve, _apply). *)
THEOREM RecordMetWhenKept ==
  Spec /\ [][KeepsRecord]_vars => []MemoryPlansMeetTheirRecord
<1>1. Init => DigestHolds /\ MemoryPlansMeetTheirRecord
  BY DEF Init, DigestHolds, MemoryPlansMeetTheirRecord
<1>2. /\ IInv /\ DigestHolds /\ MemoryPlansMeetTheirRecord
      /\ [Next]_vars /\ [KeepsRecord]_vars
      => DigestHolds' /\ MemoryPlansMeetTheirRecord'
  BY DigestStep, RecordStep
<1> QED
  BY <1>1, <1>2, Invariance, PTL DEF Spec
=============================================================================
