-------------------------- MODULE CredentialsProofs --------------------------
(***************************************************************************)
(* What the credential store keeps, for any processes, accounts and keys,  *)
(* and any number of chunks: its types; whole credentials for everybody    *)
(* who loads one; rotated tokens that stay unused; nothing left behind;    *)
(* and that the chunked store is the register its callers take it for.     *)
(***************************************************************************)
EXTENDS Credentials, TLAPS

Records ==
  [op : Ops, at : Steps, on : Profiles \union {Nobody}, ref : 0..MaxTokens,
   old : 0..MaxTokens, next : 0..Parts + 1, last : 0..Parts,
   got : SUBSET (-1..MaxTokens), new : 0..MaxTokens, job : 0..MaxSignIns,
   out : JobStates \union {"none"}]

\* The steps of each operation, and the kind of its profile.
Walks(r) ==
  \/ r.op = "none" /\ r.at = "idle" /\ r.on = Nobody
  \/ r.op = "login" /\ r.at = "report" /\ r.on = Nobody /\ r.out \in JobStates
  \/ /\ r.op = "login" /\ r.on \in Accounts
     /\ r.at \in Saves \union {"enter", "load", "authorize", "clean", "abort", "status"}
  \/ /\ r.op = "use" /\ r.on \in Accounts
     /\ r.at \in Saves \union {"probe", "enter", "load", "run", "clean", "abort"}
  \/ /\ r.op = "logout" /\ r.on \in Accounts
     /\ r.at \in {"enter", "load", "reread", "remove", "wipe"}
  \/ r.op = "list" /\ r.on \in Accounts /\ r.at = "probe"
  \/ r.op = "addkey" /\ r.on \in Keys /\ r.at \in Saves \union {"clean", "abort", "insert"}
  \/ r.op = "models" /\ r.on \in Keys /\ r.at = "load"

\* Where an operation needs no lock.
Outside == {"idle", "enter", "probe", "report"}

\* Inside, an operation on an account has its lock, and no other.
Locked(p) ==
  /\ proc[p].at \notin Outside /\ proc[p].on \in Accounts => lock[proc[p].on] = p
  /\ \A a \in Accounts : lock[a] = p => proc[p].on = a /\ proc[p].at \notin Outside

\* A key is being added until it is listed, and read afterwards.
Keyed(p) ==
  /\ proc[p].op = "addkey" => row[proc[p].on] = "drawn"
  /\ proc[p].op = "models" => row[proc[p].on] = "listed"
  /\ proc[p].at = "insert" => manifest[proc[p].on] # 0

Unsaved == Saves \union {"abort"}

\* What a save has made of its profile, from its reading of the old manifest.
Saving(p) ==
  LET r == proc[p] IN
  /\ r.at \in Unsaved => r.new \in 1..issued /\ r.new \notin installed
  /\ r.at \in {"write", "commit", "remove"} => r.old = manifest[r.on]
  /\ r.at = "write" =>
       /\ r.next \in 1..Parts
       /\ \A i \in 1..r.next - 1 : cells[Name(r.on, r.new, i)] = r.new
  /\ r.at = "commit" => \A i \in 1..Parts : cells[Name(r.on, r.new, i)] = r.new
  /\ r.at = "remove" => r.old # 0
  /\ r.at = "clean" => r.new # 0 /\ manifest[r.on] = r.new /\ r.old # r.new
  /\ r.at = "wipe" => manifest[r.on] = 0 /\ r.old # 0
  /\ r.at = "reread" => r.next = 0
  /\ r.at \in Cleanings => r.next > 0

\* What a load has got so far: with the lock, or of a listed key, from a
\* generation that stays.
Loading(p) ==
  LET r == proc[p] IN
  r.at \in Loads =>
    /\ r.got \subseteq {r.ref, Nothing, Refused}
    /\ r.at # "probe" =>
         /\ Nothing \notin r.got
         /\ r.next > 0 => r.ref = manifest[r.on] \/ Refused \in r.got
    /\ r.next > 0 /\ r.ref = 0 => r.got \subseteq {Refused}
    /\ r.next = 0 => r.got = {}

\* A request runs with the credential of its profile; a refreshed one has not
\* been in the store, and the one it replaces is still there.
Renewing(p) ==
  LET r == proc[p] IN
  /\ r.at = "run" /\ r.new = 0 => r.ref # 0 /\ r.ref = manifest[r.on]
  /\ r.at \in Saves =>
       \A n \in renewed : n[2] = r.new => n[1] = manifest[r.on] /\ n[1] \notin replayed

Process(p) ==
  Walks(proc[p]) /\ Locked(p) /\ Keyed(p) /\ Saving(p) /\ Loading(p) /\ Renewing(p)

\* A chunk that an operation has still to commit or to delete.
Pending(p, n) ==
  LET r == proc[p] IN
  /\ r.on = n[1]
  /\ \/ r.at = "write" /\ n[2] = r.new /\ n[3] < r.next
     \/ r.at = "commit" /\ n[2] = r.new
     \/ r.at = "abort" /\ n[2] = r.new /\ n[3] \in r.next..r.last
     \/ r.at \in {"clean", "wipe"} /\ n[2] = r.old /\ n[3] \in r.next..r.last

Swept ==
  \A n \in Names :
    cells[n] # Nothing => \/ littered \/ n[2] = manifest[n[1]]
                          \/ \E p \in Procs : Pending(p, n)

\* Two operations neither save the same token nor add the same key.
Apart(p, q) ==
  /\ proc[p].at \in Unsaved /\ proc[q].at \in Unsaved => proc[p].new # proc[q].new
  /\ proc[p].op = "addkey" /\ proc[q].op = "addkey" => proc[p].on # proc[q].on

\* The store: every manifest names a credential of its own whose chunks are
\* all there; a listed key is saved.
Stored ==
  /\ installed \subseteq 1..issued
  /\ \A f \in Profiles : manifest[f] # 0 =>
       /\ manifest[f] \in installed
       /\ \A i \in 1..Parts : cells[Name(f, manifest[f], i)] = manifest[f]
       /\ \A g \in Profiles : manifest[g] = manifest[f] => g = f
  /\ \A n \in Names : cells[n] \in {Nothing, n[2]}
  /\ \A k \in Keys : row[k] = "listed" => manifest[k] # 0

\* A token was saved before it was rotated, and is not saved again.
Rotated ==
  /\ \A n \in renewed : n[1] \in installed /\ n[2] \in 1..issued
  /\ \A t \in replayed : \E n \in renewed : n[1] = t
  /\ \A f \in Profiles, n \in renewed : manifest[f] = n[1] => n[2] \notin installed
  /\ RotatedTokenNotReused

IInv ==
  /\ TypeOK /\ Stored /\ Rotated /\ Swept
  /\ \A p \in Procs : Process(p)
  /\ \A p, q \in Procs : p # q => Apart(p, q)

-----------------------------------------------------------------------------
(* What a step leaves to the other processes.                              *)

\* TypeOK by its parts.
LEMMA Typed ==
  TypeOK <=>
    /\ manifest \in [Profiles -> 0..MaxTokens] /\ cells \in [Names -> 0..MaxTokens]
    /\ lock \in [Accounts -> Procs \union {Nobody}] /\ proc \in [Procs -> Records]
    /\ row \in [Keys -> {"unused", "drawn", "listed"}] /\ jobs \in [Ids -> JobStates]
    /\ issued \in 0..MaxTokens /\ limited \subseteq Tokens
    /\ renewed \subseteq Tokens \X Tokens /\ replayed \subseteq Tokens
    /\ installed \subseteq Tokens /\ littered \in BOOLEAN
BY DEF TypeOK, Records

\* An operation that writes is alone at its profile.
Writes(p) == proc[p].at \notin Outside /\ proc[p].op # "models"

\* Two operations inside the same profile both only read a key.
LEMMA Exclusive ==
  ASSUME IInv, NEW p \in Procs, NEW q \in Procs, p # q,
         Writes(p), proc[q].at \notin Outside
  PROVE  proc[p].on # proc[q].on
<1> USE ProfilesAssumption
<1>1. /\ Process(p) /\ Process(q) /\ Apart(p, q)
      /\ proc[p].on \in Profiles /\ proc[q].on \in Profiles
  BY DEF IInv, Process, Walks, Writes, Outside, Profiles, Saves
<1>2. CASE proc[p].on \in Accounts
  BY <1>1, <1>2 DEF Process, Locked, Writes
<1>3. CASE proc[p].on \in Keys
  <2>1. proc[p].op = "addkey" /\ row[proc[p].on] = "drawn"
    BY <1>1, <1>3 DEF Process, Walks, Keyed, Writes, Outside
  <2>2. ASSUME proc[q].on \in Keys
        PROVE  proc[q].op = "addkey" \/ row[proc[q].on] = "listed"
    BY <1>1, <2>2 DEF Process, Walks, Keyed, Outside
  <2> QED BY <1>1, <1>3, <2>1, <2>2 DEF Apart
<1> QED BY <1>1, <1>2, <1>3 DEF Profiles

\* A step of p that writes inside its own profile only, installs the token it
\* saves, and rotates or presents again the token it runs with.
Local(p) ==
  /\ \A f \in Profiles : manifest'[f] = manifest[f] \/ (f = proc[p].on /\ Writes(p))
  /\ \A n \in Names : cells'[n] = cells[n] \/ (n[1] = proc[p].on /\ Writes(p))
  /\ \A v \in installed' : v \in installed \/ (proc[p].at \in Unsaved /\ v = proc[p].new)
  /\ issued' \in Nat /\ issued <= issued'
  /\ \A n \in renewed' : n \in renewed \/ n[2] = issued + 1
  /\ \A t \in replayed' :
       t \in replayed \/ (proc[p].at = "run" /\ proc[p].new = 0 /\ t = proc[p].ref)
  /\ \A k \in Keys : row'[k] = row[k] \/ row[k] = "unused"
                       \/ (proc[p].op = "addkey" /\ k = proc[p].on)
  /\ \A q \in Procs \ {p} : proc'[q] = proc[q]
  /\ \A q \in Procs \ {p}, a \in Accounts : lock'[a] = q <=> lock[a] = q

\* The others do not notice such a step.
LEMMA Others ==
  ASSUME IInv, NEW p \in Procs, NEW q \in Procs \ {p}, Local(p)
  PROVE  Process(q)'
<1> USE ProfilesAssumption
<1>1. /\ TypeOK /\ Stored /\ Rotated /\ Process(p) /\ Process(q) /\ Apart(p, q)
      /\ Walks(proc[q]) /\ Locked(q) /\ Keyed(q) /\ Saving(q) /\ Loading(q) /\ Renewing(q)
      /\ proc'[q] = proc[q] /\ issued \in Nat /\ proc[q] \in Records /\ proc[p] \in Records
      /\ Parts \in Nat
  BY Typed, BoundsAssumption DEF IInv, Process, Local
<1>2. proc[q].at \notin Outside => proc[q].on \in Profiles
  BY <1>1 DEF Walks, Outside, Profiles
<1>3. proc[q].at \notin Outside => manifest'[proc[q].on] = manifest[proc[q].on]
  BY <1>2, Exclusive DEF Local
<1>4. ASSUME proc[q].at \notin Outside, NEW g \in Tokens, NEW i \in 1..Parts
      PROVE  cells'[Name(proc[q].on, g, i)] = cells[Name(proc[q].on, g, i)]
  <2>1. Name(proc[q].on, g, i) \in Names /\ Name(proc[q].on, g, i)[1] = proc[q].on
    BY <1>2, <1>4 DEF Name, Names
  <2> QED BY <1>4, <2>1, Exclusive DEF Local
<1>5. Walks(proc[q])'
  BY <1>1 DEF Walks
<1>6. Locked(q)'
  BY <1>1 DEF Locked, Local
<1>7. Keyed(q)'
  <2>1. proc[q].op \in {"addkey", "models"} => proc[q].on \in Keys /\ proc[q].at \notin Outside
    BY <1>1 DEF Walks, Outside, Saves
  <2>2. proc[q].op \in {"addkey", "models"} => row'[proc[q].on] = row[proc[q].on]
    <3>1. proc[p].op = "addkey" => Writes(p)
      BY <1>1 DEF Process, Walks, Writes, Outside, Saves
    <3> QED BY <1>1, <2>1, <3>1, Exclusive DEF Local, Keyed
  <2> QED BY <1>1, <1>3, <2>2 DEF Keyed, Outside
<1>8. Saving(q)'
  <2>1. proc[q].at \in Unsaved => proc[q].new \in Tokens /\ proc[q].new \in 1..issued'
    BY <1>1, Typed, BoundsAssumption DEF Saving, Local, Tokens
  <2>2. proc[q].at \in Unsaved => proc[q].new \notin installed'
    BY <1>1 DEF Local, Apart, Saving
  <2>3. /\ proc[q].at = "write" =>
             \A i \in 1..proc[q].next - 1 :
               cells'[Name(proc[q].on, proc[q].new, i)] = proc[q].new
        /\ proc[q].at = "commit" =>
             \A i \in 1..Parts : cells'[Name(proc[q].on, proc[q].new, i)] = proc[q].new
    <3>1. proc[q].at = "write" => proc[q].next \in 1..Parts
      BY <1>1 DEF Saving
    <3> QED BY <1>1, <1>4, <2>1, <3>1 DEF Saving, Unsaved, Saves, Outside
  <2> QED BY <1>1, <1>3, <2>1, <2>2, <2>3 DEF Saving, Outside
<1>9. Loading(q)'
  BY <1>1, <1>3 DEF Loading, Loads, Outside
<1>10. Renewing(q)'
  <2>1. proc[q].at = "run" => manifest'[proc[q].on] = manifest[proc[q].on]
    BY <1>3 DEF Outside
  <2>2. ASSUME proc[q].at \in Saves, NEW n \in renewed', n[2] = proc[q].new
        PROVE  n[1] = manifest'[proc[q].on] /\ n[1] \notin replayed'
    <3>1. n \in renewed
      BY <1>1, <2>2 DEF Local, Saving, Unsaved
    <3>2. n[1] = manifest[proc[q].on] /\ n[1] \notin replayed /\ n[1] \in Tokens
      BY <1>1, <2>2, <3>1, Typed DEF Renewing
    <3>3. manifest'[proc[q].on] = manifest[proc[q].on]
      BY <1>3, <2>2 DEF Saves, Outside
    <3>4. ASSUME proc[p].at = "run", proc[p].new = 0, n[1] = proc[p].ref
          PROVE  FALSE
      <4>1. /\ Writes(p) /\ proc[p].on \in Profiles
            /\ proc[p].ref # 0 /\ proc[p].ref = manifest[proc[p].on]
        BY <1>1, <3>4 DEF Process, Walks, Renewing, Writes, Outside, Profiles, Saves
      <4>2. proc[q].at \notin Outside /\ proc[q].on \in Profiles
        BY <1>2, <2>2 DEF Saves, Outside
      <4>3. proc[p].on = proc[q].on
        <5>1. manifest[proc[p].on] # 0 /\ manifest[proc[q].on] = manifest[proc[p].on]
          BY <3>2, <3>4, <4>1
        <5> QED BY <1>1, <4>1, <4>2, <5>1 DEF Stored
      <4> QED BY <4>1, <4>2, <4>3, Exclusive
    <3> QED BY <3>2, <3>3, <3>4 DEF Local
  <2> QED BY <1>1, <2>1, <2>2 DEF Renewing
<1> QED BY <1>5, <1>6, <1>7, <1>8, <1>9, <1>10 DEF Process

-----------------------------------------------------------------------------
(* Steps that leave the store and the tokens alone.                        *)

\* p goes on with the record r.
Goes(p, r) ==
  /\ proc' = [proc EXCEPT ![p] = r]
  /\ UNCHANGED <<manifest, cells, installed, row, tokens>>
  /\ littered' \in BOOLEAN /\ (littered => littered')
  /\ jobs' \in [Ids -> JobStates]
  /\ lock' \in [Accounts -> Procs \union {Nobody}]
  /\ \A a \in Accounts :
       lock'[a] = lock[a] \/ (lock[a] \in {p, Nobody} /\ lock'[a] \in {p, Nobody})

\* It keeps the invariant when r is in order, saves no other token, adds no
\* other key, and leaves no chunk behind.
LEMMA Quiet ==
  ASSUME IInv, NEW p \in Procs, NEW r \in Records, Goes(p, r),
         Process(p)',
         r.at \in Unsaved => proc[p].at \in Unsaved /\ r.new = proc[p].new,
         r.op = "addkey" => proc[p].op = "addkey" /\ r.on = proc[p].on,
         \A n \in Names : Pending(p, n) => littered' \/ Pending(p, n)'
  PROVE  IInv'
<1> USE ProfilesAssumption DEF Goes
<1>1. /\ TypeOK /\ Stored /\ Rotated /\ Swept /\ proc \in [Procs -> Records]
      /\ issued \in Nat
  BY Typed, BoundsAssumption DEF IInv
<1>2. proc'[p] = r /\ \A q \in Procs \ {p} : proc'[q] = proc[q]
  BY <1>1
<1>3. TypeOK'
  BY <1>1 DEF TypeOK, Records, tokens
<1>4. Stored' /\ Rotated'
  BY <1>1 DEF Stored, Rotated, RotatedTokenNotReused, tokens
<1>5. Swept'
  BY <1>1, <1>2 DEF Swept, Pending
<1>6. ASSUME NEW q \in Procs \ {p}
      PROVE  Process(q)'
  <2>1. Local(p)
    BY <1>1, <1>2 DEF Local, tokens
  <2> QED BY <2>1, Others
<1>7. ASSUME NEW q \in Procs, NEW s \in Procs, q # s
      PROVE  Apart(q, s)'
  BY <1>2, <1>7 DEF Apart, IInv
<1> QED BY <1>3, <1>4, <1>5, <1>6, <1>7 DEF IInv

\* Idle and report hold nothing and need nothing.
LEMMA Rests ==
  ASSUME IInv, NEW p \in Procs, NEW r \in Records, Goes(p, r),
         \/ r = Idle
         \/ r.op = "login" /\ r.at = "report" /\ r.on = Nobody /\ r.out \in JobStates,
         \A a \in Accounts : lock'[a] # p,
         \A n \in Names : Pending(p, n) => littered'
  PROVE  IInv'
<1>1. /\ r.at \in {"idle", "report"} /\ r.on = Nobody
      /\ \/ r.op = "none" /\ r.at = "idle"
         \/ r.op = "login" /\ r.at = "report" /\ r.out \in JobStates
  BY DEF Idle
<1>2. proc'[p] = r
  BY Typed DEF IInv, Goes
<1>3. Process(p)'
  BY <1>1, <1>2 DEF Process, Walks, Locked, Keyed, Saving, Loading, Renewing, Outside, Unsaved,
    Saves, Loads, Cleanings
<1> QED BY <1>1, <1>3, Quiet DEF Unsaved, Saves

\* The lock is left: the operation is over, or its result is to be reported.
LEMMA Ended ==
  ASSUME IInv, NEW p \in Procs, NEW out \in JobStates \union {"none"}, Ends(p, out),
         proc[p].op = "login" => out # "none",
         UNCHANGED <<store, setup, tokens>>,
         \A n \in Names : ~Pending(p, n)
  PROVE  IInv'
<1> DEFINE r == IF proc[p].op = "login"
                THEN [Idle EXCEPT !.op = "login", !.at = "report", !.out = out,
                                  !.job = proc[p].job, !.new = proc[p].new]
                ELSE Idle
<1>1. /\ proc \in [Procs -> Records] /\ lock \in [Accounts -> Procs \union {Nobody}]
      /\ jobs \in [Ids -> JobStates] /\ littered \in BOOLEAN
  BY Typed DEF IInv
<1>2. Idle \in Records
  BY BoundsAssumption DEF Idle, Records, Ops, Steps, JobStates
<1>3. r \in Records
  BY <1>1, <1>2 DEF Records, Ops, Steps
<1>4. r = Idle \/ (r.op = "login" /\ r.at = "report" /\ r.on = Nobody /\ r.out \in JobStates)
  BY DEF Idle
<1>5. Goes(p, r)
  <2>1. /\ UNCHANGED <<manifest, cells, installed, row, tokens>>
        /\ littered' = littered /\ jobs' = jobs
    BY DEF store, setup, tokens
  <2>2. /\ proc' = [proc EXCEPT ![p] = r]
        /\ lock' = [a \in Accounts |-> IF lock[a] = p THEN Nobody ELSE lock[a]]
    BY DEF Ends, Set
  <2> HIDE DEF r
  <2> QED BY <1>1, <2>1, <2>2 DEF Goes
<1>6. \A a \in Accounts : lock'[a] # p
  BY <1>1, ProfilesAssumption DEF Ends
<1> HIDE DEF r
<1> QED BY <1>3, <1>4, <1>5, <1>6, Rests

\* Nothing is pending outside a save or a cleanup, nor when that is through.
LEMMA Nothingness ==
  ASSUME IInv, NEW p \in Procs,
         Cleaned(p) \/ proc[p].at \notin {"write", "commit", "abort", "clean", "wipe"}
  PROVE  \A n \in Names : ~Pending(p, n)
<1>1. proc[p].next \in Int /\ proc[p].last \in Int
  BY Typed, BoundsAssumption DEF IInv, Records
<1>2. CASE Cleaned(p)
  BY <1>1, <1>2 DEF Pending, Cleaned, Cleanings
<1>3. CASE proc[p].at \notin {"write", "commit", "abort", "clean", "wipe"}
  BY <1>3 DEF Pending
<1> QED BY <1>2, <1>3

\* Operations that end, and leave their lock.
LEMMA Endings ==
  ASSUME IInv, NEW p \in Procs,
         \/ Busy(p) \/ Unauthorized(p) \/ LoginStatus(p) \/ ListLoaded(p) \/ Answered(p)
         \/ KeyLoaded(p) \/ DeleteReturns(p)
         \/ SaveReturns(p) /\ proc[p].at = "abort"
         \/ LoginLoaded(p) /\ Error(p)
         \/ LogoutLoaded(p) /\ ~Whole(p)
         \/ UseLoaded(p) /\ ~Saved(p)
  PROVE  IInv'
<1>1. PICK out \in JobStates \union {"none"} :
        /\ Ends(p, out) /\ UNCHANGED <<store, setup, tokens>>
        /\ proc[p].op = "login" => out # "none"
  <2> USE DEF JobStates
  <2>0. Walks(proc[p])
    BY DEF IInv, Process
  <2>1. CASE Busy(p) \/ Unauthorized(p) \/ LoginStatus(p) \/ ListLoaded(p) \/ KeyLoaded(p)
    BY <2>1 DEF Busy, Unauthorized, LoginStatus, ListLoaded, KeyLoaded
  <2>4. CASE Answered(p) \/ DeleteReturns(p)
    BY <2>0, <2>4 DEF Answered, DeleteReturns, Walks, Saves
  <2>2. CASE SaveReturns(p) /\ proc[p].at = "abort"
    BY <2>2 DEF SaveReturns
  <2>3. CASE \/ LoginLoaded(p) /\ Error(p)
             \/ LogoutLoaded(p) /\ ~Whole(p)
             \/ UseLoaded(p) /\ ~Saved(p)
    BY <2>3 DEF LoginLoaded, LogoutLoaded, UseLoaded
  <2> QED BY <2>1, <2>2, <2>3, <2>4
<1>2. Cleaned(p) \/ proc[p].at \notin {"write", "commit", "abort", "clean", "wipe"}
  BY DEF Busy, Unauthorized, LoginStatus, ListLoaded, Answered, KeyLoaded, DeleteReturns,
    SaveReturns, LoginLoaded, LogoutLoaded, UseLoaded, Loaded, Loads
<1> QED BY <1>1, <1>2, Nothingness, Ended

\* The fields of a step that starts anew.
LEMMA Anew ==
  ASSUME IInv, NEW p \in Procs, NEW at \in Steps
  PROVE  /\ To(p, at) \in Records
         /\ To(p, at).at = at /\ To(p, at).next = 0 /\ To(p, at).last = 0
         /\ To(p, at).got = {}
         /\ To(p, at).op = proc[p].op /\ To(p, at).on = proc[p].on
         /\ To(p, at).ref = proc[p].ref /\ To(p, at).old = proc[p].old
         /\ To(p, at).new = proc[p].new
<1>1. proc[p] \in Records /\ 0 \in 0..Parts + 1 /\ 0 \in 0..Parts
  BY Typed, BoundsAssumption DEF IInv
<1>2. To(p, at) = [proc[p] EXCEPT !.at = at, !.next = 0, !.last = 0, !.got = {}]
  BY DEF To
<1>3. To(p, at) \in Records
  BY <1>1, <1>2 DEF Records
<1> QED BY <1>1, <1>2, <1>3 DEF Records

\* A quiet step keeps all that it does not touch.
LEMMA Stays ==
  ASSUME IInv, NEW p \in Procs, NEW r \in Records, Set(p, r),
         UNCHANGED <<store, setup, tokens>>,
         \/ UNCHANGED lock
         \/ /\ proc[p].at = "enter" /\ Free(proc[p].on) /\ proc[p].on \in Accounts
            /\ lock' = [lock EXCEPT ![proc[p].on] = p]
  PROVE  Goes(p, r) /\ proc'[p] = r
<1>1. /\ proc \in [Procs -> Records] /\ lock \in [Accounts -> Procs \union {Nobody}]
      /\ jobs \in [Ids -> JobStates] /\ littered \in BOOLEAN
  BY Typed DEF IInv
<1>2. /\ UNCHANGED <<manifest, cells, installed, row, tokens>>
      /\ littered' = littered /\ jobs' = jobs
  BY DEF store, setup, tokens
<1>3. /\ lock' \in [Accounts -> Procs \union {Nobody}]
      /\ \A a \in Accounts :
           lock'[a] = lock[a] \/ (lock[a] \in {p, Nobody} /\ lock'[a] \in {p, Nobody})
  BY <1>1 DEF Free
<1> QED BY <1>1, <1>2, <1>3 DEF Goes, Set

\* An operation that starts without the store.
LEMMA Begun ==
  ASSUME IInv, NEW p \in Procs,
         \/ \E a \in Accounts :
              StartLogin(p, a) \/ StartLogout(p, a) \/ StartList(p, a) \/ StartUse(p, a)
         \/ \E k \in Keys : UseKey(p, k)
  PROVE  IInv'
<1>1. PICK op \in Ops, f \in Profiles, at \in {"enter", "probe", "load"} :
        /\ Begins(p, op, f, at)
        /\ UNCHANGED <<store, lock, setup, tokens>>
        /\ \/ f \in Accounts /\ op \in {"login", "logout", "use"} /\ at = "enter"
           \/ f \in Accounts /\ op \in {"list", "use"} /\ at = "probe"
           \/ f \in Keys /\ op = "models" /\ at = "load" /\ row[f] = "listed"
  BY DEF StartLogin, StartLogout, StartList, StartUse, UseKey, Profiles, Ops
<1>2. PICK r : r = [Idle EXCEPT !.op = op, !.on = f, !.at = at]
  OBVIOUS
<1>3. /\ r.op = op /\ r.on = f /\ r.at = at /\ r.next = 0 /\ r.got = {} /\ r.new = 0
      /\ r.ref = 0
  BY <1>2 DEF Idle
<1>4. r \in Records
  <2>1. Idle \in Records
    BY BoundsAssumption DEF Idle, Records, Ops, Steps, JobStates
  <2>2. at \in Steps
    BY DEF Steps, Loads
  <2> QED BY <1>2, <2>1, <2>2 DEF Records
<1>5. proc[p] = Idle /\ Set(p, r)
  BY <1>1, <1>2 DEF Begins
<1>6. Goes(p, r) /\ proc'[p] = r /\ UNCHANGED <<manifest, cells, lock, row, renewed>>
  BY <1>1, <1>4, <1>5, Stays DEF store, setup, tokens
<1>7. proc[p].at = "idle" /\ Locked(p)
  BY <1>5 DEF Idle, IInv, Process
<1>8. Process(p)'
  <2>1. Walks(proc[p])'
    BY <1>1, <1>3, <1>6, ProfilesAssumption DEF Walks
  <2>2. Locked(p)' /\ Keyed(p)'
    BY <1>1, <1>3, <1>6, <1>7, ProfilesAssumption DEF Locked, Keyed, Outside
  <2>3. Saving(p)' /\ Loading(p)' /\ Renewing(p)'
    BY <1>1, <1>3, <1>6 DEF Saving, Loading, Renewing, Unsaved, Saves, Cleanings
  <2> QED BY <2>1, <2>2, <2>3 DEF Process
<1>9. \A n \in Names : ~Pending(p, n)
  BY <1>7, Nothingness
<1> QED BY <1>1, <1>3, <1>4, <1>6, <1>8, <1>9, Quiet DEF Unsaved, Saves

\* An operation goes on at its profile, on the same side of its lock.
LEMMA Onward ==
  ASSUME IInv, NEW p \in Procs, NEW r \in Records, Set(p, r),
         UNCHANGED <<store, lock, setup, tokens>>,
         r.op = proc[p].op, r.on = proc[p].on, r.at \in Outside <=> proc[p].at \in Outside,
         Walks(r), r.at = "insert" => manifest[r.on] # 0,
         Saving(p)', Loading(p)', Renewing(p)',
         r.at \in Unsaved => proc[p].at \in Unsaved /\ r.new = proc[p].new,
         \A n \in Names : Pending(p, n) => Pending(p, n)'
  PROVE  IInv'
<1>1. Goes(p, r) /\ proc'[p] = r /\ UNCHANGED <<manifest, lock, row>>
  BY Stays DEF store, setup
<1>2. Locked(p) /\ Keyed(p)
  BY DEF IInv, Process
<1>3. Walks(proc[p])' /\ Locked(p)' /\ Keyed(p)'
  BY <1>1, <1>2 DEF Walks, Locked, Keyed
<1>4. Process(p)'
  BY <1>3 DEF Process
<1> QED BY <1>1, <1>4, Quiet

\* An operation inside has its profile.
LEMMA Inside ==
  ASSUME IInv, NEW p \in Procs, proc[p].at \notin {"idle", "report"}
  PROVE  /\ proc[p].on \in Profiles /\ manifest[proc[p].on] \in 0..MaxTokens
         /\ Walks(proc[p]) /\ Saving(p) /\ Loading(p) /\ Renewing(p)
         /\ proc[p] \in Records
<1>1. Process(p) /\ proc[p] \in Records /\ manifest \in [Profiles -> 0..MaxTokens]
  BY Typed DEF IInv
<1>2. proc[p].on \in Profiles
  BY <1>1 DEF Process, Walks, Profiles
<1> QED BY <1>1, <1>2 DEF Process

\* The manifest, a chunk or an error is read.
LEMMA Reading ==
  ASSUME IInv, NEW p \in Procs, LoadManifest(p) \/ LoadPart(p) \/ LoadRaises(p)
  PROVE  IInv'
<1>1. /\ proc[p].at \in Loads
      /\ proc[p].at \notin {"idle", "report"} \union Unsaved \union Cleanings
      /\ proc[p].at \notin {"run", "insert", "remove", "reread"}
  BY DEF LoadManifest, LoadPart, LoadRaises, Loads, Unsaved, Saves, Cleanings
<1>2. /\ proc[p].on \in Profiles /\ manifest[proc[p].on] \in 0..MaxTokens
      /\ Walks(proc[p]) /\ Loading(p) /\ proc[p] \in Records
      /\ proc[p].next \in 0..Parts + 1 /\ proc[p].ref \in 0..MaxTokens
      /\ proc[p].got \in SUBSET (-1..MaxTokens) /\ Parts \in Nat /\ MaxTokens \in Nat
  BY <1>1, Inside, BoundsAssumption DEF Records
<1>3. PICK r \in Records :
        /\ Set(p, r) /\ UNCHANGED <<store, lock, setup, tokens>>
        /\ r.op = proc[p].op /\ r.on = proc[p].on /\ r.at = proc[p].at
        /\ \/ r.ref = manifest[r.on] /\ r.next = 1 /\ r.got = {}
           \/ /\ proc[p].next \in 1..Parts /\ ~Loaded(p)
              /\ r.ref = proc[p].ref /\ r.next = proc[p].next + 1
              /\ r.got = proc[p].got \union {cells[Name(r.on, r.ref, proc[p].next)]}
           \/ /\ ~Loaded(p) /\ r.ref = proc[p].ref /\ r.next = Parts + 1
              /\ r.got = proc[p].got \union {Refused}
  <2>1. CASE LoadManifest(p)
    <3>1. PICK r : r = [proc[p] EXCEPT !.ref = manifest[proc[p].on], !.next = 1]
      OBVIOUS
    <3>2. r \in Records
      <4>1. PICK m : m = manifest[proc[p].on]
        OBVIOUS
      <4>2. proc[p] \in Records /\ m \in 0..MaxTokens /\ 1 \in 0..Parts + 1
        BY <1>2, <4>1
      <4>3. r = [proc[p] EXCEPT !.ref = m, !.next = 1]
        BY <3>1, <4>1
      <4> QED BY <4>2, <4>3 DEF Records
    <3>3. /\ r.op = proc[p].op /\ r.on = proc[p].on /\ r.at = proc[p].at
          /\ r.ref = manifest[r.on] /\ r.next = 1 /\ r.got = proc[p].got
      BY <1>2, <3>1 DEF Records
    <3>4. proc[p].got = {}
      BY <1>1, <1>2, <2>1 DEF LoadManifest, Loading
    <3> QED BY <2>1, <3>1, <3>2, <3>3, <3>4 DEF LoadManifest
  <2>2. CASE LoadPart(p)
    <3>1. PICK c : c = cells[Name(proc[p].on, proc[p].ref, proc[p].next)]
      OBVIOUS
    <3>2. proc[p].next \in 1..Parts /\ ~Loaded(p)
      BY <2>2 DEF LoadPart
    <3>3. Name(proc[p].on, proc[p].ref, proc[p].next) \in Names
      BY <1>1, <1>2, <3>2 DEF Name, Names, Tokens, Loaded
    <3>4. c \in 0..MaxTokens
      BY <3>1, <3>3, Typed DEF IInv
    <3>5. PICK r : r = [proc[p] EXCEPT !.got = @ \union {c}, !.next = @ + 1]
      OBVIOUS
    <3>6. r \in Records
      <4>1. PICK g, n : g = proc[p].got \union {c} /\ n = proc[p].next + 1
        OBVIOUS
      <4>2. proc[p] \in Records /\ g \in SUBSET (-1..MaxTokens) /\ n \in 0..Parts + 1
        BY <1>2, <3>2, <3>4, <4>1
      <4>3. r = [proc[p] EXCEPT !.got = g, !.next = n]
        BY <3>5, <4>1
      <4> QED BY <4>2, <4>3 DEF Records
    <3>7. /\ r.op = proc[p].op /\ r.on = proc[p].on /\ r.at = proc[p].at
          /\ r.ref = proc[p].ref /\ r.next = proc[p].next + 1 /\ r.got = proc[p].got \union {c}
      BY <1>2, <3>5 DEF Records
    <3>8. Set(p, r) /\ UNCHANGED <<store, lock, setup, tokens>>
      BY <2>2, <3>1, <3>5 DEF LoadPart
    <3> QED BY <3>1, <3>2, <3>6, <3>7, <3>8
  <2>3. CASE LoadRaises(p)
    <3>1. PICK r : r = [proc[p] EXCEPT !.got = @ \union {Refused}, !.next = Parts + 1]
      OBVIOUS
    <3>2. r \in Records
      <4>1. PICK g, n : g = proc[p].got \union {Refused} /\ n = Parts + 1
        OBVIOUS
      <4>2. proc[p] \in Records /\ g \in SUBSET (-1..MaxTokens) /\ n \in 0..Parts + 1
        BY <1>2, <4>1 DEF Refused
      <4>3. r = [proc[p] EXCEPT !.got = g, !.next = n]
        BY <3>1, <4>1
      <4> QED BY <4>2, <4>3 DEF Records
    <3>3. /\ r.op = proc[p].op /\ r.on = proc[p].on /\ r.at = proc[p].at
          /\ r.ref = proc[p].ref /\ r.next = Parts + 1 /\ r.got = proc[p].got \union {Refused}
      BY <1>2, <3>1 DEF Records
    <3> QED BY <2>3, <3>1, <3>2, <3>3 DEF LoadRaises
  <2> QED BY <2>1, <2>2, <2>3
<1>4. proc'[p] = r /\ manifest' = manifest
  BY <1>3, Stays DEF store
<1>5. r.next > 0 /\ r.next \in Nat
  BY <1>2, <1>3
<1>6. Loading(p)'
  <2>1. CASE r.ref = manifest[r.on] /\ r.next = 1 /\ r.got = {}
    BY <1>4, <2>1 DEF Loading
  <2>2. CASE /\ proc[p].next \in 1..Parts /\ ~Loaded(p)
             /\ r.ref = proc[p].ref /\ r.next = proc[p].next + 1
             /\ r.got = proc[p].got \union {cells[Name(r.on, r.ref, proc[p].next)]}
    <3>1. r.ref # 0 /\ Refused \notin proc[p].got /\ proc[p].next > 0
      BY <1>1, <2>2 DEF Loaded
    <3>2. cells[Name(r.on, r.ref, proc[p].next)] \in {Nothing, r.ref}
      <4>1. /\ Name(r.on, r.ref, proc[p].next) \in Names
            /\ Name(r.on, r.ref, proc[p].next)[2] = r.ref
        BY <1>2, <1>3, <2>2, <3>1 DEF Name, Names, Tokens
      <4> QED BY <4>1 DEF IInv, Stored
    <3>3. r.at # "probe" => cells[Name(r.on, r.ref, proc[p].next)] = r.ref
      <4>1. ASSUME r.at # "probe"
            PROVE  r.ref = manifest[r.on]
        BY <1>1, <1>2, <1>3, <2>2, <3>1, <4>1 DEF Loading
      <4> QED BY <1>2, <1>3, <2>2, <3>1, <4>1 DEF IInv, Stored
    <3> QED BY <1>1, <1>2, <1>3, <1>4, <1>5, <2>2, <3>1, <3>2, <3>3
        DEF Loading, Nothing, Refused
  <2>3. CASE ~Loaded(p) /\ r.ref = proc[p].ref /\ r.next = Parts + 1
             /\ r.got = proc[p].got \union {Refused}
    <3>1. proc[p].next > 0 => proc[p].ref # 0
      BY <1>1, <2>3 DEF Loaded
    <3> QED BY <1>1, <1>2, <1>3, <1>4, <1>5, <2>3, <3>1 DEF Loading, Nothing, Refused
  <2> QED BY <1>3, <2>1, <2>2, <2>3
<1>7. Walks(r)
  BY <1>1, <1>2, <1>3 DEF Walks
<1>8. Saving(p)' /\ Renewing(p)'
  BY <1>1, <1>3, <1>4 DEF Saving, Renewing, Unsaved, Saves, Cleanings
<1>9. \A n \in Names : ~Pending(p, n)
  BY <1>1, Nothingness DEF Unsaved, Saves, Cleanings
<1>10. r.at \notin Unsaved /\ r.at # "insert"
  BY <1>1, <1>3
<1> QED BY <1>3, <1>6, <1>7, <1>8, <1>9, <1>10, Onward

\* A save has read what it replaces, or gives up.
LEMMA BeforeCommit ==
  ASSUME IInv, NEW p \in Procs, ReadOld(p) \/ SaveRaises(p)
  PROVE  IInv'
<1>1. proc[p].at \in Saves /\ proc[p].at \notin Outside \union {"report"}
  BY DEF ReadOld, SaveRaises, Saves, Outside
<1>2. /\ proc[p].on \in Profiles /\ manifest[proc[p].on] \in 0..MaxTokens
      /\ Walks(proc[p]) /\ Saving(p) /\ Renewing(p) /\ proc[p] \in Records
      /\ Parts \in Nat /\ issued \in Nat
  BY <1>1, Inside, Typed, BoundsAssumption DEF IInv, Outside
<1>3. ASSUME ReadOld(p)
      PROVE  IInv'
  <2>1. PICK m, at : m = manifest[proc[p].on] /\ at = IF Parts = 0 THEN "commit" ELSE "write"
    OBVIOUS
  <2>2. PICK r : r = [To(p, at) EXCEPT !.old = m, !.next = 1]
    OBVIOUS
  <2>3. at \in Steps /\ m \in 0..MaxTokens /\ 1 \in 0..Parts + 1
    BY <1>2, <2>1 DEF Steps, Saves
  <2>4. /\ r \in Records /\ r.at = at /\ r.next = 1 /\ r.old = m /\ r.new = proc[p].new
        /\ r.op = proc[p].op /\ r.on = proc[p].on /\ r.got = {}
    <3>1. PICK t : t = To(p, at)
      OBVIOUS
    <3>2. /\ t \in Records /\ t.at = at /\ t.new = proc[p].new
          /\ t.op = proc[p].op /\ t.on = proc[p].on /\ t.got = {}
      BY <2>3, <3>1, Anew
    <3>3. r = [t EXCEPT !.old = m, !.next = 1]
      BY <2>2, <3>1
    <3> QED BY <2>3, <3>2, <3>3 DEF Records
  <2>5. Set(p, r) /\ UNCHANGED <<store, lock, setup, tokens>>
    BY <1>3, <2>1, <2>2 DEF ReadOld
  <2>6. /\ proc'[p] = r
        /\ UNCHANGED <<manifest, cells, lock, installed, issued, renewed, replayed>>
    BY <2>4, <2>5, Stays DEF store, tokens
  <2>7. Saving(p)'
    BY <1>1, <1>2, <2>1, <2>4, <2>6 DEF Saving, Unsaved, Saves, Cleanings
  <2>8. Loading(p)' /\ Renewing(p)'
    BY <1>1, <1>2, <2>1, <2>4, <2>6 DEF Loading, Renewing, Saves, Loads
  <2>9. Walks(r)
    BY <1>1, <1>2, <2>1, <2>4 DEF Walks, Saves
  <2>10. r.at \notin Outside /\ r.at # "insert" /\ proc[p].at \in Unsaved
    BY <1>1, <2>1, <2>4 DEF Outside, Unsaved
  <2>11. \A n \in Names : ~Pending(p, n)
    BY <1>3, Nothingness DEF ReadOld
  <2> QED BY <1>1, <2>4, <2>5, <2>7, <2>8, <2>9, <2>10, <2>11, Onward
<1>4. ASSUME SaveRaises(p)
      PROVE  IInv'
  <2>1. PICK l : l = Tried(proc[p])
    OBVIOUS
  <2>2. PICK r : r = [To(p, "abort") EXCEPT !.next = 1, !.last = l]
    OBVIOUS
  <2>3. /\ "abort" \in Steps /\ l \in 0..Parts /\ 1 \in 0..Parts + 1
        /\ proc[p].at = "write" => proc[p].next \in 1..Parts /\ l = proc[p].next
        /\ proc[p].at = "commit" => l = Parts
    BY <1>1, <1>2, <2>1 DEF Steps, Cleanings, Tried, Saves, Saving
  <2>4. /\ r \in Records /\ r.at = "abort" /\ r.next = 1 /\ r.last = l /\ r.new = proc[p].new
        /\ r.op = proc[p].op /\ r.on = proc[p].on /\ r.got = {}
    <3>1. PICK t : t = To(p, "abort")
      OBVIOUS
    <3>2. /\ t \in Records /\ t.at = "abort" /\ t.new = proc[p].new
          /\ t.op = proc[p].op /\ t.on = proc[p].on /\ t.got = {}
      BY <2>3, <3>1, Anew
    <3>3. r = [t EXCEPT !.next = 1, !.last = l]
      BY <2>2, <3>1
    <3> QED BY <2>3, <3>2, <3>3 DEF Records
  <2>5. Set(p, r) /\ UNCHANGED <<store, lock, setup, tokens>>
    BY <1>4, <2>1, <2>2 DEF SaveRaises
  <2>6. /\ proc'[p] = r
        /\ UNCHANGED <<manifest, cells, lock, installed, issued, renewed, replayed>>
    BY <2>4, <2>5, Stays DEF store, tokens
  <2>7. Saving(p)'
    BY <1>1, <1>2, <2>4, <2>6 DEF Saving, Unsaved, Saves, Cleanings
  <2>8. Loading(p)' /\ Renewing(p)'
    BY <2>4, <2>6 DEF Loading, Renewing, Saves, Loads
  <2>9. Walks(r)
    BY <1>1, <1>2, <2>4 DEF Walks, Saves
  <2>10. r.at \notin Outside /\ r.at # "insert" /\ proc[p].at \in Unsaved
    BY <1>1, <2>4 DEF Outside, Unsaved
  <2>11. ASSUME NEW n \in Names, Pending(p, n)
         PROVE  Pending(p, n)'
    <3>1. n[3] \in 1..Parts
      BY DEF Names
    <3>2. proc[p].at \in {"write", "commit"} /\ n[2] = proc[p].new /\ proc[p].on = n[1]
      BY <1>1, <2>11 DEF Pending, Saves
    <3>3. n[3] \in 1..l
      BY <1>2, <2>3, <2>11, <3>1, <3>2 DEF Pending
    <3> QED BY <2>4, <2>6, <3>2, <3>3 DEF Pending
  <2> QED BY <1>1, <2>4, <2>5, <2>7, <2>8, <2>9, <2>10, <2>11, Onward
<1> QED BY <1>3, <1>4

\* An operation that goes on to a step that starts anew.
LEMMA Continuing ==
  ASSUME IInv, NEW p \in Procs,
         \/ SaveReturns(p) /\ proc[p].at = "clean"
         \/ Reread(p)
         \/ LoginLoaded(p) /\ ~Error(p)
         \/ LogoutLoaded(p) /\ Whole(p)
         \/ UseLoaded(p) /\ Saved(p)
         \/ Probed(p) /\ Saved(p)
  PROVE  IInv'
<1>1. PICK at, old, r :
        /\ r = [To(p, at) EXCEPT !.old = old] /\ old \in {proc[p].old, manifest[proc[p].on]}
        /\ Set(p, r) /\ UNCHANGED <<store, lock, setup, tokens>>
        /\ \/ at = "status" /\ Cleaned(p) /\ proc[p].at = "clean" /\ proc[p].op = "login"
           \/ at = "run" /\ Cleaned(p) /\ proc[p].at = "clean" /\ proc[p].op = "use"
           \/ at = "insert" /\ Cleaned(p) /\ proc[p].at = "clean" /\ proc[p].op = "addkey"
           \/ at = "remove" /\ proc[p].at = "reread" /\ old = manifest[proc[p].on] /\ old # 0
           \/ at = "authorize" /\ proc[p].at = "load" /\ proc[p].op = "login"
           \/ at = "reread" /\ proc[p].at \in Loads /\ proc[p].op = "logout"
           \/ at = "run" /\ proc[p].at = "load" /\ proc[p].op = "use" /\ Loaded(p) /\ Saved(p)
           \/ at = "enter" /\ proc[p].at = "probe" /\ proc[p].op = "use"
  <2>1. ASSUME NEW at \in Steps
        PROVE  [To(p, at) EXCEPT !.old = proc[p].old] = To(p, at)
    <3>1. proc[p] \in Records
      BY Typed DEF IInv
    <3> QED BY <3>1 DEF To, Records
  <2>2. {"status", "run", "insert", "remove", "authorize", "reread", "enter"} \subseteq Steps
    BY DEF Steps, Loads
  <2>3. CASE SaveReturns(p) /\ proc[p].at = "clean"
    BY <2>1, <2>2, <2>3 DEF SaveReturns
  <2>4. CASE Reread(p)
    BY <2>4 DEF Reread
  <2>5. CASE LoginLoaded(p) /\ ~Error(p)
    BY <2>1, <2>2, <2>5 DEF LoginLoaded
  <2>6. CASE LogoutLoaded(p) /\ Whole(p)
    BY <2>1, <2>2, <2>6 DEF LogoutLoaded, Loaded
  <2>7. CASE UseLoaded(p) /\ Saved(p)
    BY <2>1, <2>2, <2>7 DEF UseLoaded
  <2>8. CASE Probed(p) /\ Saved(p)
    BY <2>1, <2>2, <2>8 DEF Probed
  <2> QED BY <2>3, <2>4, <2>5, <2>6, <2>7, <2>8
<1>2. /\ proc[p].at \in {"clean", "reread", "load", "probe", "status"}
      /\ at \in {"status", "run", "insert", "remove", "authorize", "reread", "enter"}
  BY <1>1 DEF Loads
<1>3. /\ proc[p].on \in Profiles /\ manifest[proc[p].on] \in 0..MaxTokens
      /\ Walks(proc[p]) /\ Saving(p) /\ Loading(p) /\ proc[p] \in Records
      /\ MaxTokens \in Nat
  BY <1>2, Inside, BoundsAssumption
<1>4. /\ r \in Records /\ r.at = at /\ r.next = 0 /\ r.old = old /\ r.new = proc[p].new
      /\ r.op = proc[p].op /\ r.on = proc[p].on /\ r.got = {} /\ r.ref = proc[p].ref
  <2>1. at \in Steps
    BY <1>2 DEF Steps, Loads
  <2>2. PICK t : t = To(p, at)
    OBVIOUS
  <2>3. /\ t \in Records /\ t.at = at /\ t.next = 0 /\ t.new = proc[p].new
        /\ t.op = proc[p].op /\ t.on = proc[p].on /\ t.got = {} /\ t.ref = proc[p].ref
    BY <2>1, <2>2, Anew
  <2>4. r = [t EXCEPT !.old = old]
    BY <1>1, <2>2
  <2>5. old \in 0..MaxTokens
    BY <1>1, <1>3 DEF Records
  <2> QED BY <2>3, <2>4, <2>5 DEF Records
<1>5. proc'[p] = r /\ UNCHANGED <<manifest, cells, lock, installed, issued, renewed, replayed>>
  BY <1>1, <1>4, Stays DEF store, tokens
<1>6. Saving(p)'
  BY <1>1, <1>2, <1>4, <1>5 DEF Saving, Unsaved, Saves, Cleanings
<1>7. Loading(p)'
  BY <1>4, <1>5 DEF Loading
<1>8. Renewing(p)'
  <2>1. CASE at = "run" /\ proc[p].at = "load"
    BY <1>1, <1>3, <1>4, <1>5, <2>1
      DEF Renewing, Saves, Loading, Loads, Loaded, Saved, Whole, Error
  <2>2. CASE at = "run" /\ proc[p].at = "clean"
    BY <1>3, <1>4, <1>5, <2>2 DEF Renewing, Saves, Saving
  <2>3. CASE at # "run"
    BY <1>2, <1>4, <1>5, <2>3 DEF Renewing, Saves
  <2> QED BY <1>1, <2>1, <2>2, <2>3
<1>9. Walks(r)
  BY <1>1, <1>3, <1>4 DEF Walks, Loads, Saves
<1>10. r.at = "insert" => manifest[r.on] # 0
  BY <1>1, <1>3, <1>4 DEF Saving
<1>11. r.at \notin Unsaved /\ (r.at \in Outside <=> proc[p].at \in Outside)
  BY <1>1, <1>3, <1>4 DEF Unsaved, Saves, Outside, Loads, Walks
<1>12. \A n \in Names : ~Pending(p, n)
  BY <1>1, Nothingness DEF Loads
<1> QED BY <1>1, <1>4, <1>6, <1>7, <1>8, <1>9, <1>10, <1>11, <1>12, Onward

\* The lock is taken.
LEMMA Entering ==
  ASSUME IInv, NEW p \in Procs, Enter(p)
  PROVE  IInv'
<1>1. proc[p].at = "enter" /\ proc[p].at \in Outside
  BY DEF Enter, Outside
<1>2. /\ Walks(proc[p]) /\ Locked(p) /\ proc[p].on \in Accounts /\ proc[p] \in Records
      /\ lock \in [Accounts -> Procs \union {Nobody}]
  BY <1>1, Typed DEF IInv, Process, Walks, Saves
<1>3. PICK at, r :
        /\ r = To(p, at) /\ Set(p, r)
        /\ \/ at = "load"
           \/ at = "authorize" /\ proc[p].op = "login"
  BY DEF Enter
<1>4. /\ r \in Records /\ r.at = at /\ r.next = 0 /\ r.new = proc[p].new
      /\ r.op = proc[p].op /\ r.on = proc[p].on /\ r.got = {} /\ r.ref = proc[p].ref
  BY <1>3, Anew DEF Steps, Loads
<1>5. Goes(p, r) /\ proc'[p] = r
  BY <1>2, <1>3, <1>4, Stays DEF Enter
<1>6. /\ lock' = [lock EXCEPT ![proc[p].on] = p] /\ lock[proc[p].on] = Nobody
      /\ UNCHANGED <<manifest, cells, row>>
  BY DEF Enter, Free, store, setup
<1>7. Walks(proc[p])'
  BY <1>1, <1>2, <1>3, <1>4, <1>5 DEF Walks, Saves
<1>8. Locked(p)'
  <2>1. at \notin Outside
    BY <1>3 DEF Outside
  <2>2. ASSUME NEW a \in Accounts, lock'[a] = p
        PROVE  a = proc[p].on
    BY <1>1, <1>2, <1>6, <2>2 DEF Locked
  <2> QED BY <1>2, <1>4, <1>5, <1>6, <2>1, <2>2 DEF Locked
<1>9. proc[p].op \notin {"addkey", "models"}
  BY <1>1, <1>2 DEF Walks, Saves
<1>10. Keyed(p)' /\ Saving(p)' /\ Loading(p)' /\ Renewing(p)'
  BY <1>3, <1>4, <1>5, <1>9
    DEF Keyed, Saving, Loading, Renewing, Unsaved, Saves, Cleanings
<1>11. Process(p)'
  BY <1>7, <1>8, <1>10 DEF Process
<1>12. \A n \in Names : ~Pending(p, n)
  BY <1>1, Nothingness
<1> QED BY <1>3, <1>4, <1>5, <1>9, <1>11, <1>12, Quiet DEF Unsaved, Saves

\* A sign-in of Setup starts.
LEMMA SigningIn ==
  ASSUME IInv, NEW p \in Procs, NEW a \in Accounts, NEW i \in Ids, SignIn(p, a, i)
  PROVE  IInv'
<1>1. PICK r : r = [Idle EXCEPT !.op = "login", !.on = a, !.at = "enter", !.job = i]
  OBVIOUS
<1>2. /\ r.op = "login" /\ r.on = a /\ r.at = "enter" /\ r.next = 0 /\ r.got = {} /\ r.new = 0
      /\ r \in Records
  <2>1. Idle \in Records
    BY BoundsAssumption DEF Idle, Records, Ops, Steps, JobStates
  <2>2. "login" \in Ops /\ "enter" \in Steps /\ a \in Profiles /\ i \in 0..MaxSignIns
    BY BoundsAssumption DEF Ops, Steps, Profiles, Ids
  <2>3. r \in Records
    BY <1>1, <2>1, <2>2 DEF Records
  <2> QED BY <1>1, <2>3 DEF Idle
<1>3. /\ proc \in [Procs -> Records] /\ lock \in [Accounts -> Procs \union {Nobody}]
      /\ jobs \in [Ids -> JobStates] /\ littered \in BOOLEAN
  BY Typed DEF IInv
<1>4. /\ proc[p] = Idle /\ proc' = [proc EXCEPT ![p] = r]
      /\ UNCHANGED <<manifest, cells, installed, row, tokens, littered, lock>>
  BY <1>1 DEF SignIn, Set, store
<1>5. jobs' \in [Ids -> JobStates]
  BY <1>3 DEF SignIn, JobStates
<1>6. Goes(p, r) /\ proc'[p] = r
  BY <1>3, <1>4, <1>5 DEF Goes
<1>7. proc[p].at = "idle" /\ Locked(p)
  BY <1>4 DEF Idle, IInv, Process
<1>8. Process(p)'
  <2>1. Walks(proc[p])'
    BY <1>2, <1>6 DEF Walks
  <2>2. Locked(p)' /\ Keyed(p)'
    BY <1>2, <1>4, <1>6, <1>7 DEF Locked, Keyed, Outside
  <2>3. Saving(p)' /\ Loading(p)' /\ Renewing(p)'
    BY <1>2, <1>6 DEF Saving, Loading, Renewing, Unsaved, Saves, Cleanings, Loads
  <2> QED BY <2>1, <2>2, <2>3 DEF Process
<1>9. \A n \in Names : ~Pending(p, n)
  BY <1>7, Nothingness
<1> QED BY <1>2, <1>6, <1>8, <1>9, Quiet DEF Unsaved, Saves

\* An operation that is over: reported, not available, or dead.
LEMMA Over ==
  ASSUME IInv, NEW p \in Procs, Report(p) \/ (Probed(p) /\ ~Saved(p)) \/ Crash(p)
  PROVE  IInv'
<1>1. /\ proc \in [Procs -> Records] /\ lock \in [Accounts -> Procs \union {Nobody}]
      /\ jobs \in [Ids -> JobStates] /\ littered \in BOOLEAN /\ Locked(p) /\ Walks(proc[p])
      /\ proc[p] \in Records
  BY Typed DEF IInv, Process
<1>2. Idle \in Records
  BY BoundsAssumption DEF Idle, Records, Ops, Steps, JobStates
<1>3. proc' = [proc EXCEPT ![p] = Idle] /\ UNCHANGED <<manifest, cells, installed, row, tokens>>
  BY DEF Report, Probed, Crash, Set, store, setup
<1>4. jobs' \in [Ids -> JobStates] /\ littered' \in BOOLEAN /\ (littered => littered')
  <2>1. CASE Report(p)
    <3>1. proc[p].out \in JobStates
      BY <1>1, <2>1 DEF Report, Walks, Saves
    <3> QED BY <1>1, <2>1, <3>1 DEF Report, store
  <2>2. CASE Probed(p)
    BY <1>1, <2>2 DEF Probed, store, setup
  <2>3. CASE Crash(p)
    BY <1>1, <2>3 DEF Crash, JobStates
  <2> QED BY <2>1, <2>2, <2>3
<1>5. \/ UNCHANGED lock /\ proc[p].at \in Outside
      \/ lock' = [a \in Accounts |-> IF lock[a] = p THEN Nobody ELSE lock[a]]
  BY DEF Report, Probed, Crash, Outside
<1>6. /\ lock' \in [Accounts -> Procs \union {Nobody}]
      /\ \A a \in Accounts : /\ lock'[a] # p
                             /\ lock'[a] = lock[a] \/ (lock[a] = p /\ lock'[a] = Nobody)
  BY <1>1, <1>5, ProfilesAssumption DEF Locked
<1>7. Goes(p, Idle)
  BY <1>3, <1>4, <1>6 DEF Goes
<1>8. ASSUME NEW n \in Names, Pending(p, n)
      PROVE  littered'
  <2>1. proc[p].at \in Saves \union Cleanings
    BY <1>8 DEF Pending, Saves, Cleanings
  <2> QED BY <2>1 DEF Report, Probed, Crash, Saves, Cleanings
<1> QED BY <1>2, <1>6, <1>7, <1>8, Rests

-----------------------------------------------------------------------------
(* Steps that write.                                                       *)

\* Such a step keeps the invariant when it is local, and keeps the store, what
\* is left in it and its own process in order.
LEMMA Written ==
  ASSUME IInv, NEW p \in Procs, NEW r \in Records, proc' = [proc EXCEPT ![p] = r],
         Local(p), TypeOK', Stored', Rotated', Swept', Process(p)',
         r.at \in Unsaved =>
           r.new > issued \/ (proc[p].at \in Unsaved /\ r.new = proc[p].new),
         r.op = "addkey" =>
           row[r.on] = "unused" \/ (proc[p].op = "addkey" /\ r.on = proc[p].on)
  PROVE  IInv'
<1>1. proc \in [Procs -> Records] /\ issued \in Nat /\ proc'[p] = r
  BY Typed, BoundsAssumption DEF IInv
<1>2. \A q \in Procs : Saving(q) /\ Keyed(q)
  BY DEF IInv, Process
<1>3. \A q \in Procs \ {p} : Process(q)' /\ proc'[q] = proc[q]
  BY <1>1, Others
<1>4. ASSUME NEW q \in Procs \ {p}
      PROVE  /\ r.at \in Unsaved /\ proc[q].at \in Unsaved => r.new # proc[q].new
             /\ r.op = "addkey" /\ proc[q].op = "addkey" => r.on # proc[q].on
  <2>1. Apart(p, q)
    BY DEF IInv
  <2>2. proc[q].at \in Unsaved => proc[q].new <= issued
    BY <1>1, <1>2 DEF Saving
  <2>3. proc[q].op = "addkey" => row[proc[q].on] = "drawn"
    BY <1>2 DEF Keyed
  <2>4. r.new \in Nat /\ proc[q].new \in Nat
    BY <1>1, BoundsAssumption DEF Records
  <2> QED BY <1>1, <2>1, <2>2, <2>3, <2>4 DEF Apart
<1>5. ASSUME NEW q \in Procs, NEW s \in Procs, q # s
      PROVE  Apart(q, s)'
  <2>1. CASE q = p \/ s = p
    BY <1>1, <1>3, <1>4, <1>5, <2>1 DEF Apart
  <2>2. CASE q # p /\ s # p
    BY <1>3, <1>5, <2>2 DEF Apart, IInv
  <2> QED BY <2>1, <2>2
<1> QED BY <1>3, <1>5 DEF IInv

\* A chunk is written under a name that no manifest names.
LEMMA PartWritten ==
  ASSUME IInv, NEW p \in Procs, WritePart(p)
  PROVE  IInv'
<1>1. proc[p].at = "write"
  BY DEF WritePart
<1>2. /\ proc[p].on \in Profiles /\ Walks(proc[p]) /\ Saving(p) /\ Renewing(p)
      /\ proc[p] \in Records /\ TypeOK /\ Stored /\ Rotated /\ Swept
      /\ Locked(p) /\ Keyed(p)
  BY <1>1, Inside DEF IInv, Process
<1>3. /\ proc[p].next \in 1..Parts /\ proc[p].new \in 1..issued /\ proc[p].new \notin installed
      /\ proc[p].new \in Tokens /\ proc[p].old = manifest[proc[p].on]
      /\ Parts \in Nat /\ issued \in Nat /\ proc \in [Procs -> Records]
      /\ cells \in [Names -> 0..MaxTokens]
  BY <1>1, <1>2, Typed, BoundsAssumption DEF Saving, Unsaved, Saves, Tokens, Records
<1>4. PICK n : n = Name(proc[p].on, proc[p].new, proc[p].next)
  OBVIOUS
<1>5. /\ n \in Names /\ n[1] = proc[p].on /\ n[2] = proc[p].new /\ n[3] = proc[p].next
  BY <1>2, <1>3, <1>4 DEF Name, Names
<1>6. /\ cells' = [cells EXCEPT ![n] = proc[p].new]
      /\ UNCHANGED <<manifest, installed, littered, lock, row, jobs, issued, limited, renewed,
                     replayed>>
  BY <1>4 DEF WritePart, setup, tokens
<1>7. PICK r :
        /\ proc' = [proc EXCEPT ![p] = r]
        /\ r = IF proc[p].next = Parts THEN To(p, "commit")
               ELSE [proc[p] EXCEPT !.next = @ + 1]
  BY DEF WritePart, Set
<1>8. /\ r \in Records /\ r.op = proc[p].op /\ r.on = proc[p].on /\ r.new = proc[p].new
      /\ r.old = proc[p].old
      /\ \/ proc[p].next = Parts /\ r.at = "commit"
         \/ proc[p].next < Parts /\ r.at = "write" /\ r.next = proc[p].next + 1
  <2>1. CASE proc[p].next = Parts
    BY <1>7, <2>1, Anew DEF Steps, Saves
  <2>2. CASE proc[p].next # Parts
    <3>1. PICK m : m = proc[p].next + 1
      OBVIOUS
    <3>2. m \in 0..Parts + 1 /\ proc[p].next < Parts
      BY <1>3, <2>2, <3>1
    <3>3. r = [proc[p] EXCEPT !.next = m]
      BY <1>7, <2>2, <3>1
    <3> QED BY <1>1, <1>2, <3>1, <3>2, <3>3 DEF Records
  <2> QED BY <2>1, <2>2
<1>9. proc'[p] = r /\ \A q \in Procs \ {p} : proc'[q] = proc[q]
  BY <1>3, <1>7
<1>10. /\ cells'[n] = proc[p].new
       /\ \A m \in Names : m # n => cells'[m] = cells[m]
  BY <1>3, <1>5, <1>6
<1>11. TypeOK'
  <2>1. cells' \in [Names -> 0..MaxTokens] /\ proc' \in [Procs -> Records]
    <3>1. proc[p].new \in 0..MaxTokens
      BY <1>2 DEF Records
    <3> QED BY <1>3, <1>6, <1>7, <1>8, <3>1
  <2> QED BY <1>2, <1>6, <2>1 DEF TypeOK, Records
<1>12. Stored'
  <2>1. ASSUME NEW f \in Profiles, manifest[f] # 0, NEW i \in 1..Parts
        PROVE  cells'[Name(f, manifest[f], i)] = manifest[f]
    <3>1. manifest[f] \in installed /\ cells[Name(f, manifest[f], i)] = manifest[f]
      BY <1>2, <2>1 DEF Stored
    <3>2. Name(f, manifest[f], i) \in Names /\ Name(f, manifest[f], i)[2] = manifest[f]
      BY <1>2, <2>1, <3>1, Typed DEF Name, Names
    <3> QED BY <1>3, <1>5, <1>10, <3>1, <3>2
  <2> QED BY <1>2, <1>5, <1>6, <1>10, <2>1 DEF Stored
<1>13. Rotated'
  BY <1>2, <1>6 DEF Rotated, RotatedTokenNotReused
<1>14. Swept'
  <2>1. ASSUME NEW m \in Names, cells'[m] # Nothing, ~littered, m[2] # manifest[m[1]]
        PROVE  \E q \in Procs : Pending(q, m)'
    <3>1. CASE m = n
      BY <1>3, <1>5, <1>8, <1>9, <3>1 DEF Pending
    <3>2. CASE m # n
      <4>1. PICK q \in Procs : Pending(q, m)
        BY <1>2, <1>10, <2>1, <3>2 DEF Swept
      <4>2. m[3] \in 1..Parts
        BY DEF Names
      <4> QED BY <1>1, <1>3, <1>8, <1>9, <4>1, <4>2 DEF Pending
    <3> QED BY <3>1, <3>2
  <2> QED BY <1>6, <2>1 DEF Swept
<1>15. Process(p)'
  <2>1. Walks(proc[p])' /\ Locked(p)' /\ Keyed(p)'
    BY <1>1, <1>2, <1>6, <1>8, <1>9 DEF Walks, Locked, Keyed, Saves, Outside
  <2>2. Loading(p)' /\ Renewing(p)'
    BY <1>1, <1>2, <1>6, <1>8, <1>9 DEF Loading, Loads, Renewing, Saves
  <2>3. \A i \in 1..proc[p].next : cells'[Name(proc[p].on, proc[p].new, i)] = proc[p].new
    <3>1. ASSUME NEW i \in 1..proc[p].next
          PROVE  cells'[Name(proc[p].on, proc[p].new, i)] = proc[p].new
      <4>1. Name(proc[p].on, proc[p].new, i) \in Names
        BY <1>2, <1>3 DEF Name, Names
      <4>2. i # proc[p].next => cells[Name(proc[p].on, proc[p].new, i)] = proc[p].new
        BY <1>1, <1>2, <1>3 DEF Saving
      <4> QED BY <1>4, <1>10, <4>1, <4>2
    <3> QED BY <3>1
  <2>4. Saving(p)'
    BY <1>1, <1>3, <1>6, <1>8, <1>9, <2>3 DEF Saving, Unsaved, Saves, Cleanings
  <2> QED BY <2>1, <2>2, <2>4 DEF Process
<1>16. Local(p)
  <2>1. Writes(p)
    BY <1>1, <1>2 DEF Writes, Outside, Walks
  <2> QED BY <1>3, <1>5, <1>6, <1>9, <1>10, <2>1 DEF Local
<1>17. r.at \in Unsaved /\ proc[p].at \in Unsaved
  BY <1>1, <1>8 DEF Unsaved, Saves
<1> QED BY <1>7, <1>8, <1>11, <1>12, <1>13, <1>14, <1>15, <1>16, <1>17, Written

\* The manifest names the new credential, whose chunks are all there.
LEMMA Committed ==
  ASSUME IInv, NEW p \in Procs, Commit(p)
  PROVE  IInv'
<1>1. proc[p].at = "commit"
  BY DEF Commit
<1>2. /\ proc[p].on \in Profiles /\ Walks(proc[p]) /\ Saving(p) /\ Renewing(p)
      /\ proc[p] \in Records /\ TypeOK /\ Stored /\ Rotated /\ Swept
      /\ Locked(p) /\ Keyed(p)
  BY <1>1, Inside DEF IInv, Process
<1>3. /\ proc[p].new \in 1..issued /\ proc[p].new \notin installed
      /\ proc[p].new \in Tokens /\ proc[p].old = manifest[proc[p].on]
      /\ \A i \in 1..Parts : cells[Name(proc[p].on, proc[p].new, i)] = proc[p].new
      /\ Parts \in Nat /\ issued \in 0..MaxTokens /\ proc \in [Procs -> Records]
      /\ manifest \in [Profiles -> 0..MaxTokens] /\ installed \subseteq 1..issued
      /\ renewed \subseteq Tokens \X Tokens /\ MaxTokens \in Nat
  BY <1>1, <1>2, Typed, BoundsAssumption DEF Saving, Unsaved, Saves, Tokens, Records, Stored
<1>4. /\ manifest' = [manifest EXCEPT ![proc[p].on] = proc[p].new]
      /\ installed' = installed \union {proc[p].new}
      /\ UNCHANGED <<cells, littered, lock, row, jobs, issued, limited, renewed, replayed>>
  BY DEF Commit, setup, tokens
<1>5. PICK l : l = IF proc[p].old = 0 THEN 0 ELSE Parts
  OBVIOUS
<1>6. PICK r : r = [To(p, "clean") EXCEPT !.next = 1, !.last = l]
  OBVIOUS
<1>7. /\ r \in Records /\ r.op = proc[p].op /\ r.on = proc[p].on /\ r.new = proc[p].new
      /\ r.old = proc[p].old /\ r.at = "clean" /\ r.next = 1 /\ r.last = l
  <2>1. PICK t : t = To(p, "clean")
    OBVIOUS
  <2>2. /\ t \in Records /\ t.op = proc[p].op /\ t.on = proc[p].on /\ t.new = proc[p].new
        /\ t.old = proc[p].old /\ t.at = "clean"
    BY <2>1, Anew DEF Steps, Cleanings
  <2>3. 1 \in 0..Parts + 1 /\ l \in 0..Parts
    BY <1>3, <1>5
  <2>4. r = [t EXCEPT !.next = 1, !.last = l]
    BY <1>6, <2>1
  <2> QED BY <2>2, <2>3, <2>4 DEF Records
<1>8. proc' = [proc EXCEPT ![p] = r]
  BY <1>5, <1>6 DEF Commit, Set
<1>9. proc'[p] = r /\ \A q \in Procs \ {p} : proc'[q] = proc[q]
  BY <1>3, <1>8
<1>10. /\ manifest'[proc[p].on] = proc[p].new
       /\ \A f \in Profiles : f # proc[p].on => manifest'[f] = manifest[f]
  BY <1>2, <1>3, <1>4
<1>11. TypeOK'
  <2>1. proc[p].new \in 0..MaxTokens
    BY <1>2 DEF Records
  <2>2. manifest' \in [Profiles -> 0..MaxTokens] /\ proc' \in [Procs -> Records]
    BY <1>3, <1>4, <1>7, <1>8, <2>1
  <2>3. installed' \subseteq Tokens
    BY <1>2, <1>3, <1>4, Typed
  <2> QED BY <1>2, <1>4, <2>2, <2>3 DEF TypeOK, Records
<1>12. Stored'
  <2>1. installed' \subseteq 1..issued'
    BY <1>3, <1>4
  <2>2. ASSUME NEW f \in Profiles, manifest'[f] # 0
        PROVE  /\ manifest'[f] \in installed'
               /\ \A i \in 1..Parts : cells'[Name(f, manifest'[f], i)] = manifest'[f]
               /\ \A g \in Profiles : manifest'[g] = manifest'[f] => g = f
    <3>1. CASE f = proc[p].on
      <4>1. ASSUME NEW g \in Profiles, g # f, manifest'[g] = manifest'[f]
            PROVE  FALSE
        BY <1>2, <1>3, <1>10, <2>2, <3>1, <4>1 DEF Stored
      <4> QED BY <1>3, <1>4, <1>10, <3>1, <4>1
    <3>2. CASE f # proc[p].on
      <4>1. manifest'[f] = manifest[f] /\ manifest[f] \in installed
        BY <1>2, <1>10, <2>2, <3>2 DEF Stored
      <4>2. manifest'[proc[p].on] # manifest[f]
        BY <1>3, <1>10, <4>1
      <4> QED BY <1>2, <1>4, <1>10, <2>2, <4>1, <4>2 DEF Stored
    <3> QED BY <3>1, <3>2
  <2>3. \A k \in Keys : row'[k] = "listed" => manifest'[k] # 0
    BY <1>2, <1>3, <1>4, <1>10 DEF Stored, Profiles
  <2> QED BY <1>2, <1>4, <2>1, <2>2, <2>3 DEF Stored
<1>13. Rotated'
  <2>1. ASSUME NEW n \in renewed, n[2] = proc[p].new
        PROVE  n[1] = manifest[proc[p].on] /\ n[1] \notin replayed
    BY <1>1, <1>2, <2>1 DEF Renewing, Saves
  <2>2. ASSUME NEW f \in Profiles, NEW n \in renewed, manifest'[f] = n[1]
        PROVE  n[2] \notin installed'
    <3>1. n[1] \in installed /\ n[1] \in Tokens
      BY <1>2, <1>3 DEF Rotated
    <3>2. f # proc[p].on /\ manifest[f] = n[1]
      BY <1>3, <1>10, <2>2, <3>1
    <3>3. n[2] \notin installed
      BY <1>2, <3>2 DEF Rotated
    <3>4. n[2] # proc[p].new
      <4>1. manifest[f] # 0
        BY <3>1, <3>2 DEF Tokens
      <4> QED BY <1>2, <2>1, <3>2, <4>1 DEF Stored
    <3> QED BY <1>4, <3>3, <3>4
  <2>3. RotatedTokenNotReused'
    BY <1>2, <1>4, <2>1 DEF Rotated, RotatedTokenNotReused
  <2> QED BY <1>2, <1>4, <2>2, <2>3 DEF Rotated
<1>14. Swept'
  <2>1. ASSUME NEW n \in Names, cells'[n] # Nothing, ~littered, n[2] # manifest'[n[1]]
        PROVE  \E q \in Procs : Pending(q, n)'
    <3>1. n[1] \in Profiles /\ n[2] \in Tokens /\ n[3] \in 1..Parts
      BY DEF Names
    <3>2. CASE n[2] = manifest[n[1]]
      <4>1. n[1] = proc[p].on /\ n[2] = proc[p].old
        BY <1>3, <1>10, <2>1, <3>1, <3>2
      <4>2. l = Parts
        BY <1>5, <3>1, <4>1 DEF Tokens
      <4> QED BY <1>7, <1>9, <3>1, <4>1, <4>2 DEF Pending
    <3>3. CASE n[2] # manifest[n[1]]
      <4>1. PICK q \in Procs : Pending(q, n)
        BY <1>2, <1>4, <2>1, <3>3 DEF Swept
      <4>2. q # p
        BY <1>1, <1>10, <2>1, <4>1 DEF Pending
      <4> QED BY <1>9, <4>1, <4>2 DEF Pending
    <3> QED BY <3>2, <3>3
  <2> QED BY <1>4, <2>1 DEF Swept
<1>15. Process(p)'
  <2>1. Walks(proc[p])' /\ Locked(p)' /\ Keyed(p)'
    BY <1>1, <1>2, <1>4, <1>7, <1>9 DEF Walks, Locked, Keyed, Saves, Outside
  <2>2. Loading(p)' /\ Renewing(p)'
    BY <1>7, <1>9 DEF Loading, Loads, Renewing, Saves
  <2>3. proc[p].old # proc[p].new /\ proc[p].new # 0
    BY <1>2, <1>3 DEF Stored
  <2>4. Saving(p)'
    BY <1>7, <1>9, <1>10, <2>3 DEF Saving, Unsaved, Saves, Cleanings
  <2> QED BY <2>1, <2>2, <2>4 DEF Process
<1>16. Local(p)
  <2>1. Writes(p) /\ proc[p].at \in Unsaved
    BY <1>1, <1>2 DEF Writes, Outside, Walks, Unsaved, Saves
  <2> QED BY <1>3, <1>4, <1>9, <1>10, <2>1 DEF Local
<1>17. r.at \notin Unsaved
  BY <1>7 DEF Unsaved, Saves
<1> QED BY <1>1, <1>7, <1>8, <1>11, <1>12, <1>13, <1>14, <1>15, <1>16, <1>17, Written

\* A chunk is deleted that no manifest names.
LEMMA PartCleaned ==
  ASSUME IInv, NEW p \in Procs, CleanPart(p)
  PROVE  IInv'
<1>1. proc[p].at \in Cleanings /\ proc[p].next \in 1..proc[p].last
  BY DEF CleanPart
<1>2. /\ proc[p].on \in Profiles /\ Walks(proc[p]) /\ Saving(p)
      /\ proc[p] \in Records /\ TypeOK /\ Stored /\ Rotated /\ Swept
      /\ Locked(p) /\ Keyed(p)
  BY <1>1, Inside DEF IInv, Process, Cleanings
<1>3. /\ proc[p].next \in Nat /\ proc[p].last \in 0..Parts /\ Parts \in Nat
      /\ proc \in [Procs -> Records] /\ cells \in [Names -> 0..MaxTokens] /\ littered \in BOOLEAN
      /\ manifest \in [Profiles -> 0..MaxTokens] /\ issued \in Nat
  BY <1>1, <1>2, Typed, BoundsAssumption DEF Records
<1>4. PICK d : d = Doomed(proc[p])
  OBVIOUS
<1>5. PICK n : n = Name(proc[p].on, d, proc[p].next)
  OBVIOUS
<1>6. n[1] = proc[p].on /\ n[2] = d /\ n[3] = proc[p].next
  BY <1>5 DEF Name
<1>7. UNCHANGED <<manifest, installed, lock, row, jobs, issued, limited, renewed, replayed>>
  BY DEF CleanPart, setup, tokens
<1>8. /\ \/ cells' = [cells EXCEPT ![n] = Nothing] /\ littered' = littered
         \/ littered' = (littered \/ cells[n] # Nothing) /\ cells' = cells
      /\ proc' = [proc EXCEPT ![p] = [proc[p] EXCEPT !.next = @ + 1]]
  BY <1>4, <1>5 DEF CleanPart, Set
<1>9. PICK r : r = [proc[p] EXCEPT !.next = @ + 1]
  OBVIOUS
<1>10. /\ r \in Records /\ r.op = proc[p].op /\ r.on = proc[p].on /\ r.new = proc[p].new
       /\ r.old = proc[p].old /\ r.at = proc[p].at /\ r.next = proc[p].next + 1
       /\ r.last = proc[p].last
  <2>1. PICK m : m = proc[p].next + 1
    OBVIOUS
  <2>2. m \in 0..Parts + 1
    BY <1>1, <1>3, <2>1
  <2>3. r = [proc[p] EXCEPT !.next = m]
    BY <1>9, <2>1
  <2> QED BY <1>2, <2>1, <2>2, <2>3 DEF Records
<1>11. proc'[p] = r /\ \A q \in Procs \ {p} : proc'[q] = proc[q]
  BY <1>3, <1>8, <1>9
<1>12. \A m \in Names : /\ cells'[m] = cells[m] \/ (m = n /\ cells'[m] = Nothing)
                        /\ m = n /\ cells'[m] # Nothing => littered'
  <2>1. ASSUME NEW m \in Names
        PROVE  /\ cells'[m] = cells[m] \/ (m = n /\ cells'[m] = Nothing)
               /\ m = n /\ cells'[m] # Nothing => littered'
    BY <1>3, <1>8
  <2> QED BY <2>1
<1>13. littered' \in BOOLEAN /\ (littered => littered')
  BY <1>3, <1>8
<1>14. TypeOK'
  <2>1. cells' \in [Names -> 0..MaxTokens]
    BY <1>3, <1>8, BoundsAssumption DEF Nothing
  <2>2. proc' \in [Procs -> Records]
    BY <1>3, <1>8, <1>9, <1>10
  <2> QED BY <1>2, <1>7, <1>13, <2>1, <2>2 DEF TypeOK, Records
<1>15. Stored'
  <2>1. manifest[proc[p].on] # d
    BY <1>1, <1>2, <1>4 DEF Saving, Stored, Doomed, Cleanings, Unsaved
  <2>2. ASSUME NEW f \in Profiles, manifest[f] # 0, NEW i \in 1..Parts
        PROVE  cells'[Name(f, manifest[f], i)] = manifest[f]
    <3>1. Name(f, manifest[f], i) \in Names /\ Name(f, manifest[f], i) # n
      BY <1>3, <1>6, <2>1, <2>2 DEF Name, Names, Tokens
    <3> QED BY <1>2, <1>12, <2>2, <3>1 DEF Stored
  <2> QED BY <1>2, <1>7, <1>12, <2>2 DEF Stored
<1>16. Rotated'
  BY <1>2, <1>7 DEF Rotated, RotatedTokenNotReused
<1>17. Swept'
  <2>1. ASSUME NEW m \in Names, cells'[m] # Nothing, ~littered', m[2] # manifest[m[1]]
        PROVE  \E q \in Procs : Pending(q, m)'
    <3>1. m # n /\ cells[m] # Nothing /\ ~littered
      BY <1>12, <1>13, <2>1
    <3>2. PICK q \in Procs : Pending(q, m)
      BY <1>2, <2>1, <3>1 DEF Swept
    <3>3. CASE q = p
      <4>1. m = <<m[1], m[2], m[3]>> /\ m[3] \in 1..Parts
        BY DEF Names
      <4>2. m[1] = proc[p].on /\ m[2] = d
        BY <1>1, <1>4, <3>2, <3>3 DEF Pending, Doomed, Cleanings
      <4>3. m[3] # proc[p].next
        BY <1>5, <3>1, <4>1, <4>2 DEF Name
      <4>4. m[3] \in proc[p].next + 1..proc[p].last
        BY <1>1, <1>3, <3>2, <3>3, <4>1, <4>3 DEF Pending, Cleanings
      <4> QED BY <1>1, <1>10, <1>11, <3>2, <3>3, <4>4 DEF Pending, Cleanings
    <3> QED BY <1>11, <3>2, <3>3 DEF Pending
  <2> QED BY <1>7, <2>1 DEF Swept
<1>18. Process(p)'
  <2>1. Walks(proc[p])' /\ Locked(p)' /\ Keyed(p)'
    BY <1>1, <1>2, <1>7, <1>10, <1>11
      DEF Walks, Locked, Keyed, Saves, Outside, Cleanings
  <2>2. Loading(p)' /\ Renewing(p)'
    BY <1>1, <1>10, <1>11 DEF Loading, Loads, Renewing, Saves, Cleanings
  <2>3. Saving(p)'
    BY <1>1, <1>2, <1>3, <1>7, <1>10, <1>11 DEF Saving, Unsaved, Saves, Cleanings
  <2> QED BY <2>1, <2>2, <2>3 DEF Process
<1>19. Local(p)
  <2>1. Writes(p)
    BY <1>1, <1>2 DEF Writes, Outside, Walks, Cleanings
  <2> QED BY <1>3, <1>6, <1>7, <1>11, <1>12, <2>1 DEF Local
<1>20. proc' = [proc EXCEPT ![p] = r]
  BY <1>8, <1>9
<1> QED BY <1>10, <1>14, <1>15, <1>16, <1>17, <1>18, <1>19, <1>20, Written

\* A sign-out removes the manifest.
LEMMA Removed ==
  ASSUME IInv, NEW p \in Procs, Remove(p)
  PROVE  IInv'
<1>1. proc[p].at = "remove"
  BY DEF Remove
<1>2. /\ proc[p].on \in Accounts /\ Walks(proc[p]) /\ Saving(p) /\ proc[p].op = "logout"
      /\ proc[p] \in Records /\ TypeOK /\ Stored /\ Rotated /\ Swept
      /\ Locked(p) /\ Keyed(p)
  BY <1>1, Inside DEF IInv, Process, Walks, Saves
<1>3. /\ Parts \in Nat /\ proc \in [Procs -> Records] /\ issued \in Nat
      /\ manifest \in [Profiles -> 0..MaxTokens] /\ proc[p].on \in Profiles
      /\ renewed \subseteq Tokens \X Tokens /\ MaxTokens \in Nat
      /\ proc[p].old = manifest[proc[p].on] /\ proc[p].old # 0
  BY <1>1, <1>2, Typed, BoundsAssumption DEF Saving, Profiles
<1>4. /\ manifest' = [manifest EXCEPT ![proc[p].on] = 0]
      /\ UNCHANGED <<cells, installed, littered, lock, row, jobs, issued, limited, renewed,
                     replayed>>
  BY DEF Remove, setup, tokens
<1>5. PICK r : r = [To(p, "wipe") EXCEPT !.next = 1, !.last = Parts]
  OBVIOUS
<1>6. /\ r \in Records /\ r.op = proc[p].op /\ r.on = proc[p].on
      /\ r.old = proc[p].old /\ r.at = "wipe" /\ r.next = 1 /\ r.last = Parts
  <2>1. PICK t : t = To(p, "wipe")
    OBVIOUS
  <2>2. /\ t \in Records /\ t.op = proc[p].op /\ t.on = proc[p].on
        /\ t.old = proc[p].old /\ t.at = "wipe"
    BY <2>1, Anew DEF Steps, Cleanings
  <2>3. 1 \in 0..Parts + 1 /\ Parts \in 0..Parts
    BY <1>3
  <2>4. r = [t EXCEPT !.next = 1, !.last = Parts]
    BY <1>5, <2>1
  <2> QED BY <2>2, <2>3, <2>4 DEF Records
<1>7. proc' = [proc EXCEPT ![p] = r]
  BY <1>5 DEF Remove, Set
<1>8. proc'[p] = r /\ \A q \in Procs \ {p} : proc'[q] = proc[q]
  BY <1>3, <1>7
<1>9. /\ manifest'[proc[p].on] = 0
      /\ \A f \in Profiles : f # proc[p].on => manifest'[f] = manifest[f]
  BY <1>3, <1>4
<1>10. TypeOK'
  <2>1. manifest' \in [Profiles -> 0..MaxTokens] /\ proc' \in [Procs -> Records]
    BY <1>3, <1>4, <1>6, <1>7
  <2> QED BY <1>2, <1>4, <2>1 DEF TypeOK, Records
<1>11. Stored'
  <2>1. \A k \in Keys : k \in Profiles /\ k # proc[p].on
    BY <1>2, ProfilesAssumption DEF Profiles
  <2>2. \A f \in Profiles : manifest'[f] # 0 => f # proc[p].on /\ manifest'[f] = manifest[f]
    BY <1>9
  <2> QED BY <1>2, <1>4, <1>9, <2>1, <2>2 DEF Stored
<1>12. Rotated'
  <2>1. ASSUME NEW f \in Profiles, NEW n \in renewed, manifest'[f] = n[1]
        PROVE  n[2] \notin installed
    BY <1>2, <1>3, <1>9, <2>1 DEF Rotated, Tokens
  <2> QED BY <1>2, <1>4, <2>1 DEF Rotated, RotatedTokenNotReused
<1>13. Swept'
  <2>1. ASSUME NEW n \in Names, cells[n] # Nothing, ~littered, n[2] # manifest'[n[1]]
        PROVE  \E q \in Procs : Pending(q, n)'
    <3>1. n[1] \in Profiles /\ n[3] \in 1..Parts
      BY DEF Names
    <3>2. CASE n[2] = manifest[n[1]]
      BY <1>3, <1>6, <1>8, <1>9, <2>1, <3>1, <3>2 DEF Pending
    <3>3. CASE n[2] # manifest[n[1]]
      <4>1. PICK q \in Procs : Pending(q, n)
        BY <1>2, <2>1, <3>3 DEF Swept
      <4>2. q # p
        BY <1>1, <4>1 DEF Pending
      <4> QED BY <1>8, <4>1, <4>2 DEF Pending
    <3> QED BY <3>2, <3>3
  <2> QED BY <1>4, <2>1 DEF Swept
<1>14. Process(p)'
  <2>1. Walks(proc[p])' /\ Locked(p)' /\ Keyed(p)'
    BY <1>1, <1>2, <1>4, <1>6, <1>8 DEF Walks, Locked, Keyed, Outside
  <2>2. Loading(p)' /\ Renewing(p)' /\ Saving(p)'
    BY <1>3, <1>6, <1>8, <1>9
      DEF Loading, Loads, Renewing, Saves, Saving, Unsaved, Cleanings
  <2> QED BY <2>1, <2>2 DEF Process
<1>15. Local(p)
  <2>1. Writes(p)
    BY <1>1, <1>2 DEF Writes, Outside
  <2> QED BY <1>3, <1>4, <1>8, <1>9, <2>1 DEF Local
<1>16. r.at \notin Unsaved /\ r.op # "addkey"
  BY <1>2, <1>6 DEF Unsaved, Saves
<1> QED BY <1>6, <1>7, <1>10, <1>11, <1>12, <1>13, <1>14, <1>15, <1>16, Written

\* A token was issued: it is new to everybody.
LEMMA Issued ==
  ASSUME IInv, NEW lacks \in BOOLEAN, Issue(lacks)
  PROVE  /\ issued' = issued + 1 /\ issued \in Nat /\ issued' \in Tokens
         /\ issued' \in 0..MaxTokens /\ limited' \subseteq Tokens
         /\ issued' \notin installed /\ installed \subseteq 1..issued'
         /\ \A n \in renewed : n[2] \in 1..issued /\ n[2] # issued'
<1>1. issued \in 0..MaxTokens /\ limited \subseteq Tokens /\ MaxTokens \in Nat
  BY Typed, BoundsAssumption DEF IInv
<1>2. /\ installed \subseteq 1..issued
      /\ \A n \in renewed : n[2] \in 1..issued
  BY DEF IInv, Stored, Rotated
<1>3. issued' = issued + 1 /\ issued' \in Tokens /\ issued' \in 0..MaxTokens
  BY <1>1 DEF Issue, Tokens
<1>4. limited' \subseteq Tokens
  BY <1>1, <1>3 DEF Issue
<1>5. issued' \notin installed /\ installed \subseteq 1..issued'
  BY <1>1, <1>2, <1>3
<1> QED BY <1>1, <1>2, <1>3, <1>4, <1>5

\* Steps that give a new token to save: the grant of a sign-in, the refresh of
\* a request, a key.
LEMMA Granted ==
  ASSUME IInv, NEW p \in Procs, NEW r \in Records, NEW lacks \in BOOLEAN, Issue(lacks),
         UNCHANGED <<store, lock, jobs, replayed>>, Set(p, r),
         r.at = "old", r.new = issued', r.got = {},
         \/ /\ proc[p].at \in {"authorize", "run"}
            /\ r.op = proc[p].op /\ r.on = proc[p].on /\ row' = row
            /\ \/ renewed' = renewed
               \/ /\ proc[p].at = "run" /\ proc[p].new = 0
                  /\ \A n \in renewed : n[1] # proc[p].ref
                  /\ renewed' = renewed \union {<<proc[p].ref, issued'>>}
         \/ /\ proc[p].at = "idle" /\ r.op = "addkey" /\ r.on \in Keys
            /\ row[r.on] = "unused" /\ row' = [row EXCEPT ![r.on] = "drawn"]
            /\ renewed' = renewed
  PROVE  IInv'
<1> USE ProfilesAssumption
<1>1. /\ TypeOK /\ Stored /\ Rotated /\ Swept /\ Walks(proc[p]) /\ Locked(p) /\ Renewing(p)
      /\ Keyed(p)
      /\ proc \in [Procs -> Records] /\ row \in [Keys -> {"unused", "drawn", "listed"}]
      /\ renewed \subseteq Tokens \X Tokens /\ manifest \in [Profiles -> 0..MaxTokens]
      /\ proc[p] \in Records
  BY Typed DEF IInv, Process
<1>2. /\ issued' = issued + 1 /\ issued \in Nat /\ issued' \in Tokens
      /\ issued' \in 0..MaxTokens /\ limited' \subseteq Tokens
      /\ issued' \notin installed /\ installed \subseteq 1..issued'
      /\ \A n \in renewed : n[2] \in 1..issued /\ n[2] # issued'
  BY Issued
<1>3. UNCHANGED <<manifest, cells, installed, littered, lock, jobs, replayed>>
  BY DEF store
<1>4. /\ proc' = [proc EXCEPT ![p] = r] /\ proc'[p] = r
      /\ \A q \in Procs \ {p} : proc'[q] = proc[q]
  BY <1>1 DEF Set
<1>5. ASSUME NEW n \in renewed', n \notin renewed
      PROVE  /\ n = <<proc[p].ref, issued'>> /\ n[1] = proc[p].ref /\ n[2] = issued'
             /\ n[1] = manifest[proc[p].on] /\ n[1] \in installed /\ n[1] \in Tokens
             /\ n[1] \notin replayed /\ r.on = proc[p].on
  <2>1. /\ n = <<proc[p].ref, issued'>> /\ proc[p].at = "run" /\ proc[p].new = 0
        /\ \A m \in renewed : m[1] # proc[p].ref
        /\ r.on = proc[p].on
    BY <1>5
  <2>2. proc[p].ref # 0 /\ proc[p].ref = manifest[proc[p].on] /\ proc[p].on \in Profiles
    BY <1>1, <2>1 DEF Renewing, Walks, Saves, Profiles
  <2>3. proc[p].ref \in installed
    BY <1>1, <2>2 DEF Stored
  <2>4. proc[p].ref \in Tokens
    BY <1>1, <2>3, Typed
  <2>5. proc[p].ref \notin replayed
    BY <1>1, <2>1 DEF Rotated
  <2> QED BY <2>1, <2>2, <2>3, <2>4, <2>5
<1>6. TypeOK'
  <2>1. row' \in [Keys -> {"unused", "drawn", "listed"}] /\ proc' \in [Procs -> Records]
    BY <1>1, <1>4
  <2>2. renewed' \subseteq Tokens \X Tokens
    BY <1>1, <1>2, <1>5
  <2> QED BY <1>1, <1>2, <1>3, <2>1, <2>2 DEF TypeOK, Records
<1>7. Stored'
  <2>1. \A k \in Keys : row'[k] = "listed" => row[k] = "listed"
    BY <1>1
  <2> QED BY <1>1, <1>2, <1>3, <2>1 DEF Stored
<1>8. Rotated'
  <2>1. ASSUME NEW n \in renewed'
        PROVE  n[1] \in installed /\ n[2] \in 1..issued' /\ (n \in renewed \/ n[2] \notin installed)
    BY <1>1, <1>2, <1>5 DEF Rotated
  <2>2. \A t \in replayed : \E n \in renewed' : n[1] = t
    BY <1>1 DEF Rotated
  <2> QED BY <1>1, <1>3, <2>1, <2>2 DEF Rotated, RotatedTokenNotReused
<1>9. Swept'
  <2>1. \A n \in Names : ~Pending(p, n)
    BY Nothingness
  <2> QED BY <1>1, <1>3, <1>4, <2>1 DEF Swept, Pending
<1>10. Process(p)'
  <2>1. Walks(proc[p])'
    BY <1>1, <1>4 DEF Walks, Saves
  <2>2. Locked(p)' /\ Keyed(p)'
    BY <1>1, <1>3, <1>4 DEF Locked, Keyed, Outside, Walks, Saves
  <2>3. Loading(p)' /\ Saving(p)'
    BY <1>2, <1>3, <1>4 DEF Loading, Loads, Saving, Unsaved, Saves, Cleanings
  <2>4. ASSUME NEW n \in renewed', n[2] = r.new
        PROVE  n[1] = manifest[r.on] /\ n[1] \notin replayed
    BY <1>2, <1>5, <2>4
  <2>5. Renewing(p)'
    BY <1>3, <1>4, <2>4 DEF Renewing
  <2> QED BY <2>1, <2>2, <2>3, <2>5 DEF Process
<1>11. Local(p)
  <2>1. \A k \in Keys : row'[k] = row[k] \/ row[k] = "unused"
    BY <1>1
  <2>2. \A n \in renewed' : n \in renewed \/ n[2] = issued + 1
    BY <1>2, <1>5
  <2> QED BY <1>2, <1>3, <1>4, <2>1, <2>2 DEF Local
<1>12. r.new > issued /\ (r.op = "addkey" =>
          row[r.on] = "unused" \/ (proc[p].op = "addkey" /\ r.on = proc[p].on))
  BY <1>2
<1> QED BY <1>4, <1>6, <1>7, <1>8, <1>9, <1>10, <1>11, <1>12, Written

\* Who is granted a token.
LEMMA Granting ==
  ASSUME IInv, NEW p \in Procs,
         Authorize(p) \/ Refresh(p) \/ \E k \in Keys : AddKey(p, k)
  PROVE  IInv'
<1>1. proc \in [Procs -> Records]
  BY Typed DEF IInv
<1>2. CASE Authorize(p) \/ Refresh(p)
  <2>1. PICK lacks \in BOOLEAN : Issue(lacks)
    BY <1>2 DEF Authorize, Refresh
  <2>2. PICK t : t = To(p, "old")
    OBVIOUS
  <2>3. t \in Records /\ t.at = "old" /\ t.got = {} /\ t.op = proc[p].op /\ t.on = proc[p].on
    BY <2>2, Anew DEF Steps, Saves
  <2>4. PICK v : v = issued'
    OBVIOUS
  <2>5. PICK r : r = [t EXCEPT !.new = v]
    OBVIOUS
  <2>6. v \in 0..MaxTokens
    BY <2>1, <2>4, Issued
  <2>7. /\ r \in Records /\ r.at = "old" /\ r.got = {} /\ r.op = proc[p].op
        /\ r.on = proc[p].on /\ r.new = issued'
    BY <2>3, <2>4, <2>5, <2>6 DEF Records
  <2>8. Set(p, r) /\ UNCHANGED <<store, lock, jobs, row, replayed>>
    BY <1>2, <2>2, <2>4, <2>5 DEF Authorize, Refresh, setup
  <2>9. CASE Authorize(p)
    BY <2>1, <2>7, <2>8, <2>9, Granted DEF Authorize
  <2>10. CASE Refresh(p)
    BY <2>1, <2>7, <2>8, <2>10, Granted DEF Refresh, Presents
  <2> QED BY <1>2, <2>9, <2>10
<1>3. ASSUME NEW k \in Keys, AddKey(p, k)
      PROVE  IInv'
  <2>1. Issue(FALSE) /\ proc[p] = Idle /\ row[k] = "unused"
    BY <1>3 DEF AddKey
  <2>2. PICK v : v = issued'
    OBVIOUS
  <2>3. PICK r : r = [Idle EXCEPT !.op = "addkey", !.on = k, !.at = "old", !.new = v]
    OBVIOUS
  <2>4. v \in 0..MaxTokens
    BY <2>1, <2>2, Issued
  <2>5. r \in Records
    <3>1. Idle \in Records
      BY BoundsAssumption DEF Idle, Records, Ops, Steps, JobStates
    <3>2. "addkey" \in Ops /\ "old" \in Steps /\ k \in Profiles
      BY DEF Ops, Steps, Saves, Profiles
    <3> QED BY <2>3, <2>4, <3>1, <3>2 DEF Records
  <2>6. r.at = "old" /\ r.got = {} /\ r.op = "addkey" /\ r.on = k /\ r.new = issued'
    BY <2>2, <2>3 DEF Idle
  <2>7. Set(p, r) /\ UNCHANGED <<store, lock, jobs, renewed, replayed>>
        /\ row' = [row EXCEPT ![k] = "drawn"]
    BY <1>3, <2>2, <2>3 DEF AddKey
  <2>8. proc[p].at = "idle"
    BY <2>1 DEF Idle
  <2> QED BY <2>1, <2>5, <2>6, <2>7, <2>8, Granted
<1> QED BY <1>2, <1>3

\* A token already rotated is presented: the one that replaced it was never
\* saved, as the store still holds the one it replaced.
LEMMA Replayed ==
  ASSUME IInv, NEW p \in Procs, Replay(p)
  PROVE  IInv'
<1>1. proc[p].at = "run" /\ proc[p].new = 0
  BY DEF Replay, Presents
<1>2. /\ TypeOK /\ Stored /\ Rotated /\ Swept /\ Walks(proc[p]) /\ Locked(p)
      /\ proc[p].op = "use" /\ proc[p].on \in Profiles
      /\ proc[p].ref # 0 /\ proc[p].ref = manifest[proc[p].on]
      /\ proc \in [Procs -> Records] /\ lock \in [Accounts -> Procs \union {Nobody}]
      /\ issued \in Nat
  BY <1>1, Typed, BoundsAssumption
    DEF IInv, Process, Walks, Saves, Renewing, Profiles
<1>3. /\ proc' = [proc EXCEPT ![p] = Idle]
      /\ lock' = [a \in Accounts |-> IF lock[a] = p THEN Nobody ELSE lock[a]]
      /\ UNCHANGED <<manifest, cells, installed, littered, row, jobs, issued, limited, renewed>>
      /\ replayed' = replayed \union {proc[p].ref}
      /\ \E n \in renewed : n[1] = proc[p].ref
  BY <1>2 DEF Replay, Ends, Set, store, setup
<1>4. /\ proc'[p] = Idle /\ \A q \in Procs \ {p} : proc'[q] = proc[q]
      /\ Idle \in Records
  BY <1>2, <1>3, BoundsAssumption DEF Idle, Records, Ops, Steps, JobStates
<1>5. TypeOK'
  <2>1. proc' \in [Procs -> Records] /\ lock' \in [Accounts -> Procs \union {Nobody}]
    BY <1>2, <1>3, <1>4
  <2>2. replayed' \subseteq Tokens
    BY <1>2, <1>3, Typed DEF Stored
  <2> QED BY <1>2, <1>3, <2>1, <2>2 DEF TypeOK, Records
<1>6. Stored'
  BY <1>2, <1>3 DEF Stored
<1>7. Rotated'
  BY <1>2, <1>3 DEF Rotated, RotatedTokenNotReused
<1>8. Swept'
  <2>1. \A n \in Names : ~Pending(p, n)
    BY <1>1, Nothingness
  <2> QED BY <1>2, <1>3, <1>4, <2>1 DEF Swept, Pending
<1>9. Process(p)'
  <2>1. Idle.at = "idle" /\ Idle.op = "none" /\ Idle.on = Nobody
    BY DEF Idle
  <2>2. \A a \in Accounts : lock'[a] # p
    BY <1>2, <1>3, ProfilesAssumption
  <2> QED BY <1>4, <2>1, <2>2
    DEF Process, Walks, Locked, Keyed, Saving, Loading, Renewing, Outside, Unsaved, Saves,
      Loads, Cleanings
<1>10. Local(p)
  BY <1>1, <1>2, <1>3, <1>4, ProfilesAssumption DEF Local
<1>11. Idle.at \notin Unsaved /\ Idle.op # "addkey"
  BY DEF Idle, Unsaved, Saves
<1> QED BY <1>3, <1>4, <1>5, <1>6, <1>7, <1>8, <1>9, <1>10, <1>11, Written

\* A key is listed once it is saved.
LEMMA Inserted ==
  ASSUME IInv, NEW p \in Procs, InsertRow(p)
  PROVE  IInv'
<1>1. proc[p].at = "insert"
  BY DEF InsertRow
<1>2. /\ TypeOK /\ Stored /\ Rotated /\ Swept /\ Walks(proc[p]) /\ Locked(p)
      /\ proc[p].op = "addkey" /\ proc[p].on \in Keys /\ manifest[proc[p].on] # 0
      /\ proc \in [Procs -> Records] /\ row \in [Keys -> {"unused", "drawn", "listed"}]
      /\ issued \in Nat
  BY <1>1, Typed, BoundsAssumption DEF IInv, Process, Walks, Saves, Keyed
<1>3. /\ proc' = [proc EXCEPT ![p] = Idle]
      /\ row' = [row EXCEPT ![proc[p].on] = "listed"]
      /\ UNCHANGED <<manifest, cells, installed, littered, lock, jobs, issued, limited, renewed,
                     replayed>>
  BY DEF InsertRow, Set, store, tokens
<1>4. /\ proc'[p] = Idle /\ \A q \in Procs \ {p} : proc'[q] = proc[q]
      /\ Idle \in Records
  BY <1>2, <1>3, BoundsAssumption DEF Idle, Records, Ops, Steps, JobStates
<1>5. TypeOK'
  <2>1. proc' \in [Procs -> Records] /\ row' \in [Keys -> {"unused", "drawn", "listed"}]
    BY <1>2, <1>3, <1>4
  <2> QED BY <1>2, <1>3, <2>1 DEF TypeOK, Records
<1>6. Stored'
  <2>1. \A k \in Keys : row'[k] = row[k] \/ k = proc[p].on
    BY <1>2, <1>3
  <2> QED BY <1>2, <1>3, <2>1 DEF Stored
<1>7. Rotated'
  BY <1>2, <1>3 DEF Rotated, RotatedTokenNotReused
<1>8. Swept'
  <2>1. \A n \in Names : ~Pending(p, n)
    BY <1>1, Nothingness
  <2> QED BY <1>2, <1>3, <1>4, <2>1 DEF Swept, Pending
<1>9. Process(p)'
  <2>1. Idle.at = "idle" /\ Idle.op = "none" /\ Idle.on = Nobody
    BY DEF Idle
  <2>2. \A a \in Accounts : lock'[a] # p
    BY <1>2, <1>3, ProfilesAssumption DEF Locked
  <2> QED BY <1>4, <2>1, <2>2
    DEF Process, Walks, Locked, Keyed, Saving, Loading, Renewing, Outside, Unsaved, Saves,
      Loads, Cleanings
<1>10. Local(p)
  BY <1>2, <1>3, <1>4 DEF Local
<1>11. Idle.at \notin Unsaved /\ Idle.op # "addkey"
  BY DEF Idle, Unsaved, Saves
<1> QED BY <1>3, <1>4, <1>5, <1>6, <1>7, <1>8, <1>9, <1>10, <1>11, Written

-----------------------------------------------------------------------------
(* The invariant, and what follows from it.                                *)

\* It holds at the start ...
LEMMA Initially == Init => IInv
<1> SUFFICES ASSUME Init
             PROVE  IInv
  OBVIOUS
<1>1. /\ \A p \in Procs : proc[p] = Idle
      /\ \A f \in Profiles : manifest[f] = 0
      /\ \A n \in Names : cells[n] = Nothing
      /\ \A a \in Accounts : lock[a] = Nobody
      /\ \A k \in Keys : row[k] = "unused"
      /\ issued = 0 /\ renewed = {} /\ replayed = {} /\ installed = {}
  BY DEF Init
<1>2. /\ Idle \in Records /\ Idle.at = "idle" /\ Idle.op = "none" /\ Idle.on = Nobody
  BY BoundsAssumption DEF Idle, Records, Ops, Steps, JobStates
<1>3. TypeOK
  <2>1. 0 \in 0..MaxTokens
    BY BoundsAssumption
  <2>2. manifest \in [Profiles -> 0..MaxTokens] /\ cells \in [Names -> 0..MaxTokens]
    BY <2>1 DEF Init, Nothing
  <2>3. /\ lock \in [Accounts -> Procs \union {Nobody}] /\ proc \in [Procs -> Records]
        /\ row \in [Keys -> {"unused", "drawn", "listed"}] /\ jobs \in [Ids -> JobStates]
    BY <1>2 DEF Init, JobStates
  <2>4. /\ issued \in 0..MaxTokens /\ limited = {} /\ renewed = {} /\ replayed = {}
        /\ installed = {} /\ littered \in BOOLEAN
    BY <2>1 DEF Init
  <2> QED BY <2>2, <2>3, <2>4 DEF TypeOK, Records
<1>4. Stored /\ Rotated /\ Swept
  BY <1>1 DEF Stored, Rotated, RotatedTokenNotReused, Swept
<1>5. ASSUME NEW p \in Procs
      PROVE  Process(p)
  <2>1. Walks(proc[p]) /\ Locked(p) /\ Keyed(p)
    BY <1>1, <1>2, ProfilesAssumption DEF Walks, Locked, Keyed, Outside
  <2>2. Saving(p) /\ Loading(p) /\ Renewing(p)
    BY <1>1, <1>2 DEF Saving, Loading, Renewing, Unsaved, Saves, Loads, Cleanings
  <2> QED BY <2>1, <2>2 DEF Process
<1>6. ASSUME NEW p \in Procs, NEW q \in Procs
      PROVE  Apart(p, q)
  BY <1>1, <1>2 DEF Apart, Unsaved, Saves
<1> QED BY <1>3, <1>4, <1>5, <1>6 DEF IInv

\* ... and every step keeps it.
LEMMA Kept == IInv /\ [Next]_vars => IInv'
<1> SUFFICES ASSUME IInv, [Next]_vars
             PROVE  IInv'
  OBVIOUS
<1>1. CASE UNCHANGED vars
  <2>1. /\ UNCHANGED <<manifest, cells, installed, littered, lock, proc, row, jobs, issued,
                      limited, renewed, replayed>>
    BY <1>1 DEF vars, store, setup, tokens
  <2>2. TypeOK' /\ Stored' /\ Rotated' /\ Swept'
    BY <2>1 DEF IInv, TypeOK, Stored, Rotated, RotatedTokenNotReused, Swept, Pending
  <2>3. \A p \in Procs : Process(p)'
    BY <2>1 DEF IInv, Process, Walks, Locked, Keyed, Saving, Loading, Renewing
  <2> QED BY <2>1, <2>2, <2>3 DEF IInv, Apart
<1>2. ASSUME NEW p \in Procs, Start(p)
      PROVE  IInv'
  <2>1. CASE \/ \E a \in Accounts :
                  StartLogin(p, a) \/ StartLogout(p, a) \/ StartList(p, a) \/ StartUse(p, a)
             \/ \E k \in Keys : UseKey(p, k)
    BY <2>1, Begun
  <2>2. CASE \E a \in Accounts, i \in Ids : SignIn(p, a, i)
    BY <2>2, SigningIn
  <2>3. CASE \E k \in Keys : AddKey(p, k)
    BY <2>3, Granting
  <2> QED BY <1>2, <2>1, <2>2, <2>3 DEF Start
<1>3. ASSUME NEW p \in Procs, Step(p)
      PROVE  IInv'
  <2>1. CASE Enter(p)
    BY <2>1, Entering
  <2>2. CASE LoadManifest(p) \/ LoadPart(p) \/ LoadRaises(p)
    BY <2>2, Reading
  <2>3. CASE ReadOld(p) \/ SaveRaises(p)
    BY <2>3, BeforeCommit
  <2>4. CASE WritePart(p) \/ Commit(p) \/ CleanPart(p) \/ Remove(p)
    BY <2>4, PartWritten, Committed, PartCleaned, Removed
  <2>5. CASE Authorize(p) \/ Refresh(p) \/ Replay(p) \/ InsertRow(p)
    BY <2>5, Granting, Replayed, Inserted
  <2>6. CASE \/ Busy(p) \/ Unauthorized(p) \/ LoginStatus(p) \/ ListLoaded(p)
             \/ Answered(p) \/ KeyLoaded(p) \/ DeleteReturns(p)
    BY <2>6, Endings
  <2>7. CASE SaveReturns(p)
    <3>1. proc[p].at \in {"clean", "abort"}
      BY <2>7 DEF SaveReturns
    <3> QED BY <2>7, <3>1, Endings, Continuing
  <2>8. CASE Reread(p)
    BY <2>8, Continuing
  <2>9. CASE LoginLoaded(p) \/ LogoutLoaded(p) \/ UseLoaded(p)
    BY <2>9, Endings, Continuing
  <2>10. CASE Probed(p) \/ Report(p)
    BY <2>10, Continuing, Over
  <2> QED BY <1>3, <2>1, <2>2, <2>3, <2>4, <2>5, <2>6, <2>7, <2>8, <2>9, <2>10 DEF Step
<1>4. ASSUME NEW p \in Procs, Crash(p)
      PROVE  IInv'
  BY <1>4, Over
<1> QED BY <1>1, <1>2, <1>3, <1>4 DEF Next

\* The invariant holds in every state.
THEOREM Invariance == Spec => []IInv
BY Initially, Kept, PTL DEF Spec

\* The types of the store, the locks, the processes and the table.
THEOREM TypeCorrect == Spec => []TypeOK
<1>1. IInv => TypeOK
  BY DEF IInv
<1> QED BY <1>1, Invariance, PTL

\* A load gives one whole credential; under the lock, and for a listed key, it
\* never meets a missing chunk (auth.py load and save).
THEOREM WholeLoads == Spec => []LoadsAreWhole
<1>1. ASSUME IInv
      PROVE  LoadsAreWhole
  <2>1. ASSUME NEW p \in Procs, Loaded(p)
        PROVE  /\ Whole(p) => proc[p].got \subseteq {proc[p].ref}
               /\ proc[p].on \in Keys \/ lock[proc[p].on] = p => Nothing \notin proc[p].got
               /\ proc[p].on \in Keys => ~Absent(p)
    <3>1. /\ proc[p].at \in Loads /\ proc[p].next > 0
          /\ Walks(proc[p]) /\ Loading(p) /\ Locked(p) /\ Keyed(p)
      BY <1>1, <2>1 DEF IInv, Process, Loaded
    <3>2. Whole(p) => proc[p].got \subseteq {proc[p].ref}
      BY <3>1 DEF Loading, Whole, Error
    <3>3. ASSUME proc[p].on \in Keys
          PROVE  proc[p].at = "load" /\ row[proc[p].on] = "listed"
      BY <3>1, <3>3, ProfilesAssumption DEF Walks, Loads, Keyed, Saves
    <3>4. ASSUME proc[p].on \notin Keys, lock[proc[p].on] = p
          PROVE  proc[p].at # "probe"
      <4>1. proc[p].on \in Accounts
        BY <3>1, <3>4 DEF Walks, Loads
      <4> QED BY <3>1, <3>4, <4>1 DEF Locked, Outside
    <3>5. proc[p].on \in Keys => ~Absent(p)
      <4>1. proc[p].on \in Keys => manifest[proc[p].on] # 0
        BY <1>1, <3>3 DEF IInv, Stored
      <4> QED BY <3>1, <3>3, <4>1 DEF Loading, Absent, Error
    <3>6. proc[p].at # "probe" => Nothing \notin proc[p].got
      BY <3>1 DEF Loading
    <3> QED BY <3>2, <3>3, <3>4, <3>5, <3>6
  <2> QED BY <2>1 DEF LoadsAreWhole
<1> QED BY <1>1, Invariance, PTL

\* A refresh token is presented again only when its successor never reached
\* the store (authenticated.py, token refresh).
THEOREM TokensNotReused == Spec => []RotatedTokenNotReused
<1>1. IInv => RotatedTokenNotReused
  BY DEF IInv, Rotated
<1> QED BY <1>1, Invariance, PTL

\* A profile at rest keeps no chunk but those of its credential, unless a
\* delete failed or a process died amid its chunks (auth.py _cleanup_chunks).
THEOREM NothingLeft == Spec => []NothingLeftBehind
<1>1. ASSUME IInv
      PROVE  NothingLeftBehind
  <2>1. ASSUME NEW n \in Names, ~littered, cells[n] # Nothing, cells[n] # manifest[n[1]]
        PROVE  \E p \in Procs : proc[p].on = n[1] /\ proc[p].at \in Saves \union Cleanings
    <3>1. cells[n] = n[2]
      BY <1>1, <2>1 DEF IInv, Stored
    <3>2. PICK p \in Procs : Pending(p, n)
      BY <1>1, <2>1, <3>1 DEF IInv, Swept
    <3> QED BY <3>2 DEF Pending, Saves, Cleanings
  <2> QED BY <2>1 DEF NothingLeftBehind
<1> QED BY <1>1, Invariance, PTL

-----------------------------------------------------------------------------
(* The chunked store is the register of CredentialRegister.                *)

\* What the registers hold, as the refinement maps it.
Mapped ==
  [f \in Profiles |->
    IF \A i \in 1..Parts : manifest[f] # 0 => cells[Name(f, manifest[f], i)] = manifest[f]
    THEN manifest[f] ELSE -1]

\* As every manifest names chunks that are there, that is the manifests.
LEMMA Manifests ==
  /\ IInv => Mapped = manifest
  /\ IInv' => Mapped' = manifest'
<1>1. ASSUME Stored, manifest \in [Profiles -> 0..MaxTokens]
      PROVE  Mapped = manifest
  BY <1>1 DEF Mapped, Stored
<1>2. ASSUME Stored', manifest' \in [Profiles -> 0..MaxTokens]
      PROVE  Mapped' = manifest'
  BY <1>2 DEF Mapped, Stored
<1> QED BY <1>1, <1>2 DEF IInv, TypeOK

\* What a step does to the registers.
LEMMA Effects ==
  ASSUME IInv, NEW p \in Procs, Start(p) \/ Step(p) \/ Crash(p)
  PROVE  \/ UNCHANGED <<manifest, lock, installed>>
         \/ Enter(p) /\ UNCHANGED <<manifest, installed>>
         \/ /\ lock' = [a \in Accounts |-> IF lock[a] = p THEN Nobody ELSE lock[a]]
            /\ UNCHANGED <<manifest, installed>>
         \/ Commit(p) \/ Remove(p)
<1>1. CASE Start(p)
  BY <1>1 DEF Start, StartLogin, StartLogout, StartList, StartUse, SignIn, AddKey, UseKey, store
<1>2. CASE Crash(p)
  BY <1>2 DEF Crash
<1>3. CASE Step(p)
  <2>1. CASE \/ Busy(p) \/ DeleteReturns(p) \/ Unauthorized(p) \/ LoginStatus(p)
             \/ ListLoaded(p) \/ KeyLoaded(p) \/ Answered(p) \/ Replay(p)
    BY <2>1 DEF Busy, DeleteReturns, Unauthorized, LoginStatus, ListLoaded, KeyLoaded, Answered,
      Replay, Ends, store
  <2>2. CASE \/ SaveReturns(p) \/ LoginLoaded(p) \/ LogoutLoaded(p) \/ UseLoaded(p)
    BY <2>2 DEF SaveReturns, LoginLoaded, LogoutLoaded, UseLoaded, Ends, store
  <2>3. CASE \/ LoadManifest(p) \/ LoadPart(p) \/ LoadRaises(p) \/ ReadOld(p) \/ WritePart(p)
             \/ SaveRaises(p) \/ CleanPart(p) \/ Reread(p)
    BY <2>3 DEF LoadManifest, LoadPart, LoadRaises, ReadOld, WritePart, SaveRaises, CleanPart,
      Reread, store
  <2>4. CASE \/ Authorize(p) \/ Probed(p) \/ Refresh(p) \/ InsertRow(p) \/ Report(p)
    BY <2>4 DEF Authorize, Probed, Refresh, InsertRow, Report, store
  <2>5. CASE Enter(p)
    BY <2>5 DEF Enter, store
  <2> QED BY <1>3, <2>1, <2>2, <2>3, <2>4, <2>5 DEF Step
<1> QED BY <1>1, <1>2, <1>3

\* Every step is a step of the registers, or leaves them as they are.
LEMMA StepSimulates ==
  ASSUME IInv, IInv', [Next]_vars
  PROVE  [Register!Next]_(Register!registers)
<1> USE ProfilesAssumption
<1>1. Mapped = manifest /\ Mapped' = manifest'
  BY Manifests
<1>2. /\ Register!registers = <<Mapped, lock, installed>>
      /\ Register!registers' = <<Mapped', lock', installed'>>
  BY DEF Register!registers, Mapped
<1>3. TypeOK /\ manifest \in [Profiles -> 0..MaxTokens]
      /\ lock \in [Accounts -> Procs \union {Nobody}] /\ proc \in [Procs -> Records]
  BY Typed DEF IInv
<1>4. ASSUME UNCHANGED <<manifest, lock, installed>>
      PROVE  UNCHANGED Register!registers
  BY <1>1, <1>2, <1>4
<1>5. ASSUME NEW p \in Procs, Enter(p), UNCHANGED <<manifest, installed>>
      PROVE  Register!Next
  <2>1. proc[p].on \in Accounts
    BY <1>5 DEF IInv, Process, Walks, Enter, Saves
  <2>2. Register!Open(p, proc[p].on)
    BY <1>1, <1>5 DEF Enter, Free, Register!Open, Mapped
  <2> QED BY <2>1, <2>2 DEF Register!Next
<1>6. ASSUME NEW p \in Procs, UNCHANGED <<manifest, installed>>,
             lock' = [a \in Accounts |-> IF lock[a] = p THEN Nobody ELSE lock[a]]
      PROVE  Register!Next \/ UNCHANGED Register!registers
  <2>1. Locked(p)
    BY DEF IInv, Process
  <2>2. CASE \E a \in Accounts : lock[a] = p
    <3>1. PICK a \in Accounts : lock[a] = p
      BY <2>2
    <3>2. \A b \in Accounts : lock[b] = p => b = a
      BY <2>1, <3>1 DEF Locked
    <3>3. lock' = [lock EXCEPT ![a] = Nobody]
      BY <1>3, <1>6, <3>1, <3>2
    <3>4. Register!Close(a)
      BY <1>1, <1>6, <3>3 DEF Register!Close, Mapped
    <3> QED BY <3>4 DEF Register!Next
  <2>3. CASE \A a \in Accounts : lock[a] # p
    <3>1. lock' = lock
      BY <1>3, <1>6, <2>3
    <3> QED BY <1>4, <1>6, <3>1
  <2> QED BY <2>2, <2>3
<1>7. ASSUME NEW p \in Procs, Commit(p)
      PROVE  Register!Next
  <2>1. /\ proc[p].at = "commit" /\ proc[p].on \in Profiles
        /\ proc[p].new \in Tokens \ installed /\ Locked(p)
    <3>1. proc[p].at = "commit" /\ proc[p].at \in Unsaved
      BY <1>7 DEF Commit, Unsaved, Saves
    <3>2. /\ proc[p].on \in Profiles /\ Saving(p) /\ proc[p] \in Records /\ Locked(p)
      BY <3>1, Inside DEF IInv, Process
    <3> QED BY <1>3, <3>1, <3>2, BoundsAssumption DEF Saving, Records, Tokens, TypeOK
  <2>2. proc[p].on \in Accounts => lock[proc[p].on] # Nobody
    BY <2>1 DEF Locked, Outside
  <2>3. /\ manifest' = [manifest EXCEPT ![proc[p].on] = proc[p].new]
        /\ installed' = installed \union {proc[p].new} /\ UNCHANGED lock
    BY <1>7 DEF Commit
  <2>4. PICK f \in Profiles : f = proc[p].on
    BY <2>1
  <2>5. Register!Install(f)
    BY <1>1, <2>1, <2>2, <2>3, <2>4 DEF Register!Install, Register!Writable, Mapped
  <2> QED BY <2>5 DEF Register!Next
<1>8. ASSUME NEW p \in Procs, Remove(p)
      PROVE  Register!Next
  <2>1. proc[p].at = "remove" /\ proc[p].on \in Accounts /\ Locked(p)
    BY <1>8 DEF Remove, IInv, Process, Walks, Saves
  <2>2. lock[proc[p].on] # Nobody
    BY <2>1 DEF Locked, Outside
  <2>3. /\ manifest' = [manifest EXCEPT ![proc[p].on] = 0] /\ UNCHANGED <<lock, installed>>
    BY <1>8 DEF Remove
  <2>4. PICK f \in Profiles : f = proc[p].on
    BY <2>1 DEF Profiles
  <2>5. Register!Remove(f)
    BY <1>1, <2>1, <2>2, <2>3, <2>4 DEF Register!Remove, Register!Writable, Mapped
  <2> QED BY <2>5 DEF Register!Next
<1>9. CASE UNCHANGED vars
  BY <1>4, <1>9 DEF vars, store
<1>10. CASE Next
  <2>1. PICK p \in Procs : Start(p) \/ Step(p) \/ Crash(p)
    BY <1>10 DEF Next
  <2> QED BY <1>4, <1>5, <1>6, <1>7, <1>8, <2>1, Effects
<1> QED BY <1>9, <1>10

\* The store behaves as registers: a credential is installed or removed in one
\* step, whole, and for an account only by the holder of its lock (auth.py).
THEOREM RegisterImplemented == Spec => ImplementsRegister
<1>1. ASSUME Init
      PROVE  Register!Init
  <2>1. Mapped = manifest
    BY <1>1, Initially, Manifests
  <2> QED BY <1>1, <2>1 DEF Init, Register!Init, Mapped
<1>2. IInv /\ IInv' /\ [Next]_vars => [Register!Next]_(Register!registers)
  BY StepSimulates
<1> QED BY <1>1, <1>2, Invariance, PTL DEF Spec, ImplementsRegister, Register!Spec
=================================================================================
