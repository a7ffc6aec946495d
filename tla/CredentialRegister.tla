------------------------- MODULE CredentialRegister -------------------------
(***************************************************************************)
(* What the credential store promises its callers (auth.py): each profile  *)
(* is one register that holds a whole credential or nothing.  A write      *)
(* installs a credential never installed before, in one step; a profile    *)
(* that people sign in to is written by one session at a time.  How a      *)
(* backend with a size limit keeps the credential is not visible here.     *)
(***************************************************************************)
CONSTANTS
  Profiles,   \* profiles of the store
  Accounts,   \* the profiles that are signed in to, the others are API keys
  Procs,      \* processes and threads
  Values,     \* credentials
  Nobody,     \* no session
  Empty       \* nothing saved

VARIABLES
  saved,      \* per profile: the credential saved, or Empty
  holder,     \* per account: the process whose session is open
  past        \* every credential ever installed

registers == <<saved, holder, past>>

Init ==
  /\ saved = [f \in Profiles |-> Empty]
  /\ holder = [a \in Accounts |-> Nobody]
  /\ past = {}

Open(p, a) ==
  /\ holder[a] = Nobody
  /\ holder' = [holder EXCEPT ![a] = p]
  /\ UNCHANGED <<saved, past>>

Close(a) ==
  /\ holder' = [holder EXCEPT ![a] = Nobody]
  /\ UNCHANGED <<saved, past>>

Writable(f) == f \in Accounts => holder[f] # Nobody

Install(f) ==
  /\ Writable(f)
  /\ \E v \in Values \ past :
       /\ saved' = [saved EXCEPT ![f] = v]
       /\ past' = past \union {v}
  /\ UNCHANGED holder

Remove(f) ==
  /\ f \in Accounts
  /\ Writable(f)
  /\ saved' = [saved EXCEPT ![f] = Empty]
  /\ UNCHANGED <<holder, past>>

Next ==
  \/ \E a \in Accounts : Close(a) \/ \E p \in Procs : Open(p, a)
  \/ \E f \in Profiles : Install(f) \/ Remove(f)

Spec == Init /\ [][Next]_registers
=============================================================================
