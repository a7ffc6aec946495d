----------------------------- MODULE Credentials -----------------------------
(***************************************************************************)
(* Saved credentials and the operations on them: the store (auth.py), the  *)
(* sign-ins, API keys and connections of Setup (platform/connections.py),  *)
(* and the requests made with an account (providers/authenticated.py,      *)
(* platform/session.py configured_model).                                  *)
(*                                                                         *)
(* A credential is named by the number of the token it holds, which also   *)
(* names its generation of chunks.  On a backend with a size limit it is   *)
(* kept as Parts chunks and a manifest, elsewhere (Parts = 0) as one entry.*)
(* Every call of the backend is a step, may fail without effect, and the   *)
(* process may die before the next one; a dead process holds no file lock. *)
(* The provider is external: it grants tokens and rotates a refresh token. *)
(***************************************************************************)
EXTENDS Integers, FiniteSets

CONSTANTS
  Procs,       \* commands, requests and sign-in threads
  Accounts,    \* profiles of chatgpt or github-copilot
  Keys,        \* profiles key-<uuid>, each drawn at most once
  Nobody,      \* no holder of a lock
  Parts,       \* chunks of a credential
  TableSize,   \* sign-ins kept by SignIns (50 in the code)
  MaxTokens,   \* bound: tokens and keys ever issued
  MaxSignIns   \* bound: sign-ins ever started in Setup

ASSUME ProfilesAssumption == Accounts \intersect Keys = {} /\ Nobody \notin Procs

ASSUME BoundsAssumption ==
  /\ Parts \in Nat
  /\ TableSize \in Nat \ {0}
  /\ MaxTokens \in Nat
  /\ MaxSignIns \in Nat

Profiles == Accounts \union Keys
Tokens == 1..MaxTokens
Ids == 1..MaxSignIns

VARIABLES
  manifest,    \* per profile: the entry of the store, 0 when there is none
  cells,       \* per chunk service: the credential its text belongs to, or 0
  lock,        \* per account: the holder of its file lock
  proc,        \* per process: the operation it is in
  row,         \* per key: drawn and then listed as a connection
  jobs,        \* SignIns.jobs
  issued,      \* tokens issued so far
  limited,     \* tokens without plan usage
  renewed,     \* <<t, s>>: the provider took refresh token t and gave s
  replayed,    \* history: refresh tokens presented again after that
  installed,   \* history: credentials a manifest has named
  littered     \* history: a delete failed or a process died amid its chunks

store == <<manifest, cells, installed, littered>>
tokens == <<issued, limited, renewed, replayed>>
setup == <<row, jobs>>
vars == <<store, lock, proc, setup, tokens>>

Nothing == 0      \* got: the backend has no such entry
Refused == -1     \* got: the backend raised

Idle ==
  [op |-> "none", at |-> "idle", on |-> Nobody, ref |-> 0, old |-> 0, next |-> 0,
   last |-> 0, got |-> {}, new |-> 0, job |-> 0, out |-> "none"]

Ops == {"none", "login", "use", "logout", "list", "addkey", "models"}
Loads == {"probe", "load", "status"}
Saves == {"old", "write", "commit"}
Cleanings == {"clean", "abort", "wipe"}
Steps == Loads \union Saves \union Cleanings \union
  {"idle", "enter", "authorize", "run", "reread", "remove", "insert", "report"}
JobStates == {"absent", "waiting", "connected", "permission_required", "failed"}

Names == Profiles \X Tokens \X (1..Parts)

Init ==
  /\ manifest = [f \in Profiles |-> 0]
  /\ cells = [n \in Names |-> Nothing]
  /\ lock = [a \in Accounts |-> Nobody]
  /\ proc = [p \in Procs |-> Idle]
  /\ row = [k \in Keys |-> "unused"]
  /\ jobs = [i \in Ids |-> "absent"]
  /\ issued = 0
  /\ limited = {}
  /\ renewed = {}
  /\ replayed = {}
  /\ installed = {}
  /\ littered = FALSE

-----------------------------------------------------------------------------
(* Control shared by the operations.                                       *)

Set(p, r) == proc' = [proc EXCEPT ![p] = r]

\* The next step starts with its own counters.
To(p, at) == [proc[p] EXCEPT !.at = at, !.next = 0, !.last = 0, !.got = {}]

\* The lock is left with its block; a login then reports, the others return.
Ends(p, out) ==
  /\ lock' = [a \in Accounts |-> IF lock[a] = p THEN Nobody ELSE lock[a]]
  /\ Set(p, IF proc[p].op = "login"
            THEN [Idle EXCEPT !.op = "login", !.at = "report", !.out = out,
                              !.job = proc[p].job, !.new = proc[p].new]
            ELSE Idle)

Begins(p, op, f, at) ==
  /\ proc[p] = Idle
  /\ Set(p, [Idle EXCEPT !.op = op, !.on = f, !.at = at])

Free(a) == lock[a] = Nobody

\* with profile_lock(...): waits, at most its timeout ...
Enter(p) ==
  LET a == proc[p].on IN
  /\ proc[p].at = "enter"
  /\ Free(a)
  /\ lock' = [lock EXCEPT ![a] = p]
  /\ \/ Set(p, To(p, "load"))
     \/ proc[p].op = "login" /\ Set(p, To(p, "authorize"))   \* github-copilot
  /\ UNCHANGED <<store, setup, tokens>>

\* ... "This profile is busy".
Busy(p) ==
  /\ proc[p].at = "enter"
  /\ ~Free(proc[p].on)
  /\ Ends(p, "failed")
  /\ UNCHANGED <<store, setup, tokens>>

-----------------------------------------------------------------------------
(* The store.                                                              *)

\* Mutated form: names that do not carry the generation.
NameOfAccount(f, g, i) == <<f, 1, i>>

Name(f, g, i) == <<f, g, i>>

LoadManifest(p) ==
  /\ proc[p].at \in Loads
  /\ proc[p].next = 0
  /\ Set(p, [proc[p] EXCEPT !.ref = manifest[proc[p].on], !.next = 1])
  /\ UNCHANGED <<store, lock, setup, tokens>>

\* Nothing saved, every chunk read, or a call that raised.
Loaded(p) ==
  LET r == proc[p] IN
  /\ r.at \in Loads
  /\ r.next > 0
  /\ r.ref = 0 \/ r.next > Parts \/ r.got \intersect {Refused} # {}

LoadPart(p) ==
  LET r == proc[p] IN
  /\ r.at \in Loads
  /\ r.next \in 1..Parts
  /\ ~Loaded(p)
  /\ Set(p, [r EXCEPT !.got = @ \union {cells[Name(r.on, r.ref, r.next)]}, !.next = @ + 1])
  /\ UNCHANGED <<store, lock, setup, tokens>>

\* The keychain is locked.
LoadRaises(p) ==
  /\ proc[p].at \in Loads
  /\ ~Loaded(p)
  /\ Set(p, [proc[p] EXCEPT !.got = @ \union {Refused}, !.next = Parts + 1])
  /\ UNCHANGED <<store, lock, setup, tokens>>

\* What the caller gets: an AuthError, None or the credential.
Error(p) == proc[p].got \intersect {Refused, Nothing} # {}
Absent(p) == ~Error(p) /\ proc[p].ref = 0
Whole(p) == ~Error(p) /\ proc[p].ref # 0

\* credential_state = "saved"; without plan usage it is "identity_only".
Saved(p) == Whole(p) /\ proc[p].ref \notin limited

ReadOld(p) ==
  /\ proc[p].at = "old"
  /\ Set(p, [To(p, IF Parts = 0 THEN "commit" ELSE "write")
               EXCEPT !.old = manifest[proc[p].on], !.next = 1])
  /\ UNCHANGED <<store, lock, setup, tokens>>

WritePart(p) ==
  LET r == proc[p] IN
  /\ r.at = "write"
  /\ cells' = [cells EXCEPT ![Name(r.on, r.new, r.next)] = r.new]
  /\ Set(p, IF r.next = Parts THEN To(p, "commit") ELSE [r EXCEPT !.next = @ + 1])
  /\ UNCHANGED <<manifest, installed, littered, lock, setup, tokens>>

\* The manifest replaces the one before in one call: committed = True.
Commit(p) ==
  LET r == proc[p] IN
  /\ r.at = "commit"
  /\ manifest' = [manifest EXCEPT ![r.on] = r.new]
  /\ installed' = installed \union {r.new}
  /\ Set(p, [To(p, "clean") EXCEPT !.next = 1, !.last = IF r.old = 0 THEN 0 ELSE Parts])
  /\ UNCHANGED <<cells, littered, lock, setup, tokens>>

\* Mutated form: the cleanup runs one past the chunks.
TriedOneMore(r) == IF r.at = "write" THEN r.next + 1 ELSE Parts

\* The chunks save has tried to write.
Tried(r) == CASE r.at = "old" -> 0 [] r.at = "write" -> r.next [] OTHER -> Parts

\* A call of save raised before the commit: every chunk tried is deleted.
SaveRaises(p) ==
  LET r == proc[p] IN
  /\ r.at \in Saves
  /\ Set(p, [To(p, "abort") EXCEPT !.next = 1, !.last = Tried(r)])
  /\ UNCHANGED <<store, lock, setup, tokens>>

\* Mutated form: the generation just committed is taken for the old one.
DoomedNew(r) == IF r.at = "wipe" THEN r.old ELSE r.new

\* The generation whose chunks are deleted.
Doomed(r) == IF r.at = "abort" THEN r.new ELSE r.old

\* _cleanup_chunks: one delete after the other, an error is passed over.
CleanPart(p) ==
  LET r == proc[p]
      n == Name(r.on, Doomed(r), r.next) IN
  /\ r.at \in Cleanings
  /\ r.next \in 1..r.last
  /\ Set(p, [r EXCEPT !.next = @ + 1])
  /\ \/ cells' = [cells EXCEPT ![n] = Nothing] /\ UNCHANGED littered
     \/ littered' = (littered \/ cells[n] # Nothing) /\ UNCHANGED cells
  /\ UNCHANGED <<manifest, installed, lock, setup, tokens>>

Cleaned(p) == proc[p].at \in Cleanings /\ proc[p].next > proc[p].last

\* After a commit, whatever its cleanup met, a login asks for its status, a
\* request runs and a key is listed.
SaveReturns(p) ==
  /\ Cleaned(p)
  /\ \/ /\ proc[p].at = "clean"
        /\ \/ proc[p].op = "login" /\ Set(p, To(p, "status"))
           \/ proc[p].op = "use" /\ Set(p, To(p, "run"))
           \/ proc[p].op = "addkey" /\ Set(p, To(p, "insert"))
        /\ UNCHANGED lock
     \/ proc[p].at = "abort" /\ Ends(p, "failed")
  /\ UNCHANGED <<store, setup, tokens>>

\* delete reads the manifest again, after its load; None is an error there.
Reread(p) ==
  /\ proc[p].at = "reread"
  /\ manifest[proc[p].on] # 0
  /\ Set(p, [To(p, "remove") EXCEPT !.old = manifest[proc[p].on]])
  /\ UNCHANGED <<store, lock, setup, tokens>>

Remove(p) ==
  LET r == proc[p] IN
  /\ r.at = "remove"
  /\ manifest' = [manifest EXCEPT ![r.on] = 0]
  /\ Set(p, [To(p, "wipe") EXCEPT !.next = 1, !.last = Parts])
  /\ UNCHANGED <<cells, installed, littered, lock, setup, tokens>>

DeleteReturns(p) ==
  /\ \/ Cleaned(p) /\ proc[p].at = "wipe"
     \/ proc[p].at \in {"reread", "remove"}      \* the call raised
  /\ Ends(p, "none")
  /\ UNCHANGED <<store, setup, tokens>>

-----------------------------------------------------------------------------
(* Sign-in, sign-out and status.                                           *)

\* A grant or a rotated token; limited when plan usage was declined.
Issue(lacks) ==
  /\ issued < MaxTokens
  /\ issued' = issued + 1
  /\ limited' = IF lacks THEN limited \union {issued + 1} ELSE limited

StartLogin(p, a) ==
  /\ Begins(p, "login", a, "enter")
  /\ UNCHANGED <<store, lock, setup, tokens>>

\* login for chatgpt loads what is saved; a store that raises ends it.
LoginLoaded(p) ==
  /\ Loaded(p)
  /\ proc[p].op = "login" /\ proc[p].at = "load"
  /\ IF Error(p) THEN Ends(p, "failed") ELSE Set(p, To(p, "authorize")) /\ UNCHANGED lock
  /\ UNCHANGED <<store, setup, tokens>>

\* The person approves, with or without plan usage, and save is called.
Authorize(p) ==
  /\ proc[p].at = "authorize"
  /\ \E lacks \in BOOLEAN : Issue(lacks)
  /\ Set(p, [To(p, "old") EXCEPT !.new = issued'])
  /\ UNCHANGED <<store, lock, setup, renewed, replayed>>

\* Denied, no browser, or the timeout cancels the flow at its await.
Unauthorized(p) ==
  /\ proc[p].at = "authorize"
  /\ Ends(p, "failed")
  /\ UNCHANGED <<store, setup, tokens>>

\* auth_status inside the lock; an AuthError reads as store_unavailable.
LoginStatus(p) ==
  /\ Loaded(p)
  /\ proc[p].at = "status"
  /\ Ends(p, IF Saved(p) THEN "connected" ELSE "permission_required")
  /\ UNCHANGED <<store, setup, tokens>>

StartLogout(p, a) ==
  /\ Begins(p, "logout", a, "enter")
  /\ UNCHANGED <<store, lock, setup, tokens>>

LogoutLoaded(p) ==
  /\ Loaded(p)
  /\ proc[p].op = "logout"
  /\ IF Whole(p) THEN Set(p, To(p, "reread")) /\ UNCHANGED lock ELSE Ends(p, "none")
  /\ UNCHANGED <<store, setup, tokens>>

\* auth status and Connections.list take no lock.
StartList(p, a) ==
  /\ Begins(p, "list", a, "probe")
  /\ UNCHANGED <<store, lock, setup, tokens>>

ListLoaded(p) ==
  /\ Loaded(p)
  /\ proc[p].op = "list"
  /\ Ends(p, "none")
  /\ UNCHANGED <<store, setup, tokens>>

-----------------------------------------------------------------------------
(* Requests with an account.                                               *)

\* available() asks for the status before the lock is taken.
StartUse(p, a) ==
  /\ Begins(p, "use", a, "probe")
  /\ UNCHANGED <<store, lock, setup, tokens>>

Probed(p) ==
  /\ Loaded(p)
  /\ proc[p].op = "use" /\ proc[p].at = "probe"
  /\ Set(p, IF Saved(p) THEN To(p, "enter") ELSE Idle)
  /\ UNCHANGED <<store, lock, setup, tokens>>

\* model_context loads again under the lock.
UseLoaded(p) ==
  /\ Loaded(p)
  /\ proc[p].op = "use" /\ proc[p].at = "load"
  /\ IF Saved(p) THEN Set(p, To(p, "run")) /\ UNCHANGED lock ELSE Ends(p, "none")
  /\ UNCHANGED <<store, setup, tokens>>

\* Mutated form: a request keeps presenting the token it loaded.
PresentsAgain(r) == TRUE

\* A refresh token is presented once by a request.
Presents(r) == r.new = 0

\* The refresh token is presented; the provider has not seen it before.
Refresh(p) ==
  LET t == proc[p].ref IN
  /\ proc[p].at = "run"
  /\ Presents(proc[p])
  /\ \A n \in renewed : n[1] # t
  /\ Issue(FALSE)
  /\ renewed' = renewed \union {<<t, issued'>>}
  /\ Set(p, [To(p, "old") EXCEPT !.new = issued'])
  /\ UNCHANGED <<store, lock, setup, replayed>>

\* A token already rotated is refused, and the request with it.
Replay(p) ==
  LET t == proc[p].ref IN
  /\ proc[p].at = "run"
  /\ Presents(proc[p])
  /\ \E n \in renewed : n[1] = t
  /\ replayed' = replayed \union {t}
  /\ Ends(p, "none")
  /\ UNCHANGED <<store, setup, issued, limited, renewed>>

\* The answer of the model, or an error of the provider.
Answered(p) ==
  /\ proc[p].at = "run"
  /\ Ends(p, "none")
  /\ UNCHANGED <<store, setup, tokens>>

-----------------------------------------------------------------------------
(* Setup: API keys and browser sign-ins.                                   *)

\* save_api: the key is saved under a fresh profile ...
AddKey(p, k) ==
  /\ row[k] = "unused"
  /\ Issue(FALSE)
  /\ proc[p] = Idle
  /\ Set(p, [Idle EXCEPT !.op = "addkey", !.on = k, !.at = "old", !.new = issued'])
  /\ row' = [row EXCEPT ![k] = "drawn"]
  /\ UNCHANGED <<store, lock, jobs, renewed, replayed>>

\* ... and the connection is inserted when it is.
InsertRow(p) ==
  /\ proc[p].at = "insert"
  /\ row' = [row EXCEPT ![proc[p].on] = "listed"]
  /\ Set(p, Idle)
  /\ UNCHANGED <<store, lock, jobs, tokens>>

\* api_key and the model catalog of an API connection load the key.
UseKey(p, k) ==
  /\ row[k] = "listed"
  /\ Begins(p, "models", k, "load")
  /\ UNCHANGED <<store, lock, setup, tokens>>

KeyLoaded(p) ==
  /\ Loaded(p)
  /\ proc[p].op = "models"
  /\ Ends(p, "none")
  /\ UNCHANGED <<store, setup, tokens>>

Present == {i \in Ids : jobs[i] # "absent"}

\* SignIns.start, under its lock: a full table keeps what still waits.
SignIn(p, a, i) ==
  /\ \A j \in Ids : jobs[j] # "waiting"
  /\ jobs[i] = "absent"
  /\ jobs' = [j \in Ids |->
       CASE j = i -> "waiting"
         [] Cardinality(Present) >= TableSize /\ jobs[j] # "waiting" -> "absent"
         [] OTHER -> jobs[j]]
  /\ proc[p] = Idle
  /\ Set(p, [Idle EXCEPT !.op = "login", !.on = a, !.at = "enter", !.job = i])
  /\ UNCHANGED <<store, lock, row, tokens>>

\* Mutated form: the thread has no handler for a sign-in that failed.
ReportedSuccess(out) == out # "failed"

\* except Exception: every outcome reaches the table.
Reported(out) == TRUE

\* The thread of a sign-in updates its row; a command prints.
Report(p) ==
  /\ proc[p].at = "report"
  /\ jobs' = [i \in Ids |-> IF i = proc[p].job /\ Reported(proc[p].out)
                            THEN proc[p].out ELSE jobs[i]]
  /\ Set(p, Idle)
  /\ UNCHANGED <<store, lock, row, tokens>>

-----------------------------------------------------------------------------
\* The process dies: its locks are released, and the sign-ins of a desktop,
\* which are kept in memory, are gone with it.
Crash(p) ==
  /\ proc[p] # Idle
  /\ Set(p, Idle)
  /\ lock' = [a \in Accounts |-> IF lock[a] = p THEN Nobody ELSE lock[a]]
  /\ jobs' = IF proc[p].job = 0 THEN jobs ELSE [i \in Ids |-> "absent"]
  /\ littered' = (littered \/ proc[p].at \in Saves \union Cleanings)
  /\ UNCHANGED <<manifest, cells, installed, row, tokens>>

Step(p) ==
  \/ Enter(p) \/ Busy(p)
  \/ LoadManifest(p) \/ LoadPart(p) \/ LoadRaises(p)
  \/ ReadOld(p) \/ WritePart(p) \/ Commit(p) \/ SaveRaises(p)
  \/ CleanPart(p) \/ SaveReturns(p) \/ Reread(p) \/ Remove(p) \/ DeleteReturns(p)
  \/ LoginLoaded(p) \/ Authorize(p) \/ Unauthorized(p) \/ LoginStatus(p)
  \/ LogoutLoaded(p) \/ ListLoaded(p)
  \/ Probed(p) \/ UseLoaded(p) \/ Refresh(p) \/ Replay(p) \/ Answered(p)
  \/ InsertRow(p) \/ KeyLoaded(p) \/ Report(p)

Start(p) ==
  \/ \E a \in Accounts : \/ StartLogin(p, a) \/ StartLogout(p, a)
                         \/ StartList(p, a) \/ StartUse(p, a)
                         \/ \E i \in Ids : SignIn(p, a, i)
  \/ \E k \in Keys : AddKey(p, k) \/ UseKey(p, k)

Next == \E p \in Procs : Start(p) \/ Step(p) \/ Crash(p)

\* A thread that runs goes on: every call returns or raises, the wait for a
\* lock and the wait for the browser have a timeout.
Fairness == \A p \in Procs : WF_vars(Step(p))

Spec == Init /\ [][Next]_vars /\ Fairness

-----------------------------------------------------------------------------
(* Properties.                                                             *)

TypeOK ==
  /\ manifest \in [Profiles -> 0..MaxTokens]
  /\ cells \in [Names -> 0..MaxTokens]
  /\ lock \in [Accounts -> Procs \union {Nobody}]
  /\ proc \in [Procs ->
       [op : Ops, at : Steps, on : Profiles \union {Nobody}, ref : 0..MaxTokens,
        old : 0..MaxTokens, next : 0..Parts + 1, last : 0..Parts,
        got : SUBSET (-1..MaxTokens), new : 0..MaxTokens, job : 0..MaxSignIns,
        out : JobStates \union {"none"}]]
  /\ row \in [Keys -> {"unused", "drawn", "listed"}]
  /\ jobs \in [Ids -> JobStates]
  /\ issued \in 0..MaxTokens
  /\ limited \subseteq Tokens
  /\ renewed \subseteq Tokens \X Tokens
  /\ replayed \subseteq Tokens
  /\ installed \subseteq Tokens
  /\ littered \in BOOLEAN

\* A load that returns a credential returns one whole credential, never text
\* of two generations.  A load under the lock, and the load of a listed key,
\* never meets a missing chunk, and a listed key is there: only a load that
\* takes no lock (auth status, available) may be told to sign in again while
\* another process replaces the credential.
LoadsAreWhole ==
  \A p \in Procs : Loaded(p) =>
    LET r == proc[p] IN
    /\ Whole(p) => r.got \subseteq {r.ref}
    /\ r.on \in Keys \/ lock[r.on] = p => Nothing \notin r.got
    /\ r.on \in Keys => ~Absent(p)

\* "A rotating refresh token must never be replayed by another process"
\* (providers/authenticated.py:131-132): a token is presented a second time
\* only if the one that replaced it never reached the store, because its save
\* failed or its process died.
RotatedTokenNotReused ==
  \A n \in renewed : n[1] \in replayed => n[2] \notin installed

\* Unless a delete failed or a process died amid its chunks, a profile nobody
\* is saving or deleting keeps no chunk but those of its credential: no secret
\* outlives a sign-out, a replacement or a failed save.
NothingLeftBehind ==
  \A n \in Names :
    \/ littered
    \/ \E p \in Procs : proc[p].on = n[1] /\ proc[p].at \in Saves \union Cleanings
    \/ cells[n] # Nothing => cells[n] = manifest[n[1]]

\* The profiles are registers, as CredentialRegister has them: a manifest
\* appears, changes and goes in one step, only when all its chunks are there,
\* and for an account only inside a session that holds its lock.
Register == INSTANCE CredentialRegister WITH
  Empty <- 0, Values <- Tokens, holder <- lock, past <- installed,
  saved <- [f \in Profiles |->
    IF \A i \in 1..Parts : manifest[f] # 0 => cells[Name(f, manifest[f], i)] = manifest[f]
    THEN manifest[f] ELSE -1]

ImplementsRegister == Register!Spec

\* One browser sign-in waits at a time, so one that never ended would refuse
\* every other one: each ends, whatever the browser, the keychain and the
\* other processes do.
SignInSettles == \A i \in Ids : jobs[i] = "waiting" ~> jobs[i] # "waiting"
=============================================================================
