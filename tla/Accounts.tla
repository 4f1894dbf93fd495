------------------------------ MODULE Accounts ------------------------------
(***************************************************************************)
(* The accounts of src/main/ofp.c: the array in memory, its image in NVS,  *)
(* the API handlers that change both and the boot that reads one back from *)
(* the other.                                                              *)
(*                                                                         *)
(* As in Plannings, requests do not interleave and power may be lost       *)
(* before and after each NVS write.  What a handler refuses without having *)
(* changed anything, such as a full array, is left out.                    *)
(***************************************************************************)
EXTENDS Naturals

CONSTANTS
    MAX_ACCOUNT,    \* OFP_MAX_ACCOUNT_COUNT
    Users,          \* user names
    Admin,          \* admin_str, which is also its first password
    Passwords,      \* passwords, as password_to_string encodes them
    FIRST,          \* the encoding of admin_str
    NULL

ASSUME AccountsAssumption ==
    /\ MAX_ACCOUNT \in Nat \ {0}
    /\ Admin \in Users
    /\ FIRST \in Passwords
    /\ NULL \notin Passwords
    /\ NULL \notin [id : Users, password : Passwords]

VARIABLES
    phase,      \* "loading" in ofp_account_list_init, then "running"
    unread,     \* loading: stored accounts not read yet
    accounts,   \* accounts_global
    nvs,        \* namespace ofp_acc: user name -> password
    op,         \* what the request in service has left to do
    target      \* the user it is about

vars == <<phase, unread, accounts, nvs, op, target>>

Entries == 1 .. MAX_ACCOUNT
Account == [id : Users, password : Passwords]

\* idle, an account to store, an account to take off the array.
Ops == {"idle", "store", "forget"}

TypeOK ==
    /\ phase \in {"loading", "running"}
    /\ unread \in SUBSET Users
    /\ accounts \in [Entries -> Account \cup {NULL}]
    /\ nvs \in [Users -> Passwords \cup {NULL}]
    /\ op \in Ops
    /\ target \in Users

\* First power up: nothing stored.
Init ==
    /\ phase = "loading"
    /\ unread = {}
    /\ accounts = [i \in Entries |-> NULL]
    /\ nvs = [u \in Users |-> NULL]
    /\ op = "idle"
    /\ target = Admin

Holds(i, u) == accounts[i] # NULL /\ accounts[i].id = u
Listed(u) == \E i \in Entries : Holds(i, u)
Stored == {u \in Users : nvs[u] # NULL}

IsFirstFree(i) == accounts[i] = NULL /\ \A j \in Entries : j < i => accounts[j] # NULL

\* ofp_account_list_add_account
Add(u, password) ==
    /\ ~Listed(u)
    /\ \E i \in Entries :
          /\ IsFirstFree(i)
          /\ accounts' = [accounts EXCEPT ![i] = [id |-> u, password |-> password]]

Idle == phase = "running" /\ op = "idle"

\* Mutant: the account is stored before the array is found full.
PostAccountStoredFirst(u, password) ==
    /\ Idle
    /\ ~Listed(u)
    /\ nvs' = [nvs EXCEPT ![u] = password]
    /\ Add(u, password) \/ ((\A i \in Entries : accounts[i] # NULL) /\ UNCHANGED accounts)
    /\ UNCHANGED <<phase, unread, op, target>>

\* POST /accounts: into the array, then into NVS.
PostAccount(u, password) ==
    /\ Idle
    /\ Add(u, password)
    /\ op' = "store"
    /\ target' = u
    /\ UNCHANGED <<phase, unread, nvs>>

\* Mutant: a body without a password clears it.
PatchAccountEmpty(u, password) ==
    /\ Idle
    /\ \E i \in Entries :
          /\ Holds(i, u)
          /\ accounts' = [accounts EXCEPT ![i] = [id |-> u, password |-> NULL]]
    /\ op' = "store"
    /\ target' = u
    /\ UNCHANGED <<phase, unread, nvs>>

\* PATCH /accounts/:id with a password.
PatchAccount(u, password) ==
    /\ Idle
    /\ \E i \in Entries :
          /\ Holds(i, u)
          /\ accounts' = [accounts EXCEPT ![i] = [id |-> u, password |-> password]]
    /\ op' = "store"
    /\ target' = u
    /\ UNCHANGED <<phase, unread, nvs>>

\* ofp_account_store
StoreAccount ==
    /\ op = "store"
    /\ \E i \in Entries :
          /\ Holds(i, target)
          /\ nvs' = [nvs EXCEPT ![target] = accounts[i].password]
    /\ op' = "idle"
    /\ UNCHANGED <<phase, unread, accounts, target>>

\* Mutant: any account can be removed.
DeleteAccountAny(u) ==
    /\ Idle
    /\ Listed(u)
    /\ nvs' = [nvs EXCEPT ![u] = NULL]
    /\ op' = "forget"
    /\ target' = u
    /\ UNCHANGED <<phase, unread, accounts>>

\* Mutant: the account is left in NVS.
DeleteAccountUnpurged(u) ==
    /\ Idle
    /\ u # Admin
    /\ Listed(u)
    /\ op' = "forget"
    /\ target' = u
    /\ UNCHANGED <<phase, unread, accounts, nvs>>

\* DELETE /accounts/:id: out of NVS, then out of the array.
DeleteAccount(u) ==
    /\ Idle
    /\ u # Admin
    /\ Listed(u)
    /\ nvs' = [nvs EXCEPT ![u] = NULL]
    /\ op' = "forget"
    /\ target' = u
    /\ UNCHANGED <<phase, unread, accounts>>

ForgetAccount ==
    /\ op = "forget"
    /\ \E i \in Entries :
          /\ Holds(i, target)
          /\ accounts' = [accounts EXCEPT ![i] = NULL]
    /\ op' = "idle"
    /\ UNCHANGED <<phase, unread, nvs, target>>

\* Power is lost, or the device restarts; the boot is about to read NVS.
Restart ==
    /\ phase' = "loading"
    /\ unread' = Stored
    /\ accounts' = [i \in Entries |-> NULL]
    /\ op' = "idle"
    /\ UNCHANGED <<nvs, target>>

\* ofp_account_list_init reads the stored accounts in the order NVS gives...
LoadAccount(u) ==
    /\ phase = "loading"
    /\ u \in unread
    /\ Add(u, nvs[u])
    /\ unread' = unread \ {u}
    /\ UNCHANGED <<phase, nvs, op, target>>

\* ...creates the administrator's if it read none...
CreateAdmin ==
    /\ phase = "loading"
    /\ unread = {}
    /\ op = "idle"
    /\ Add(Admin, FIRST)
    /\ op' = "store"
    /\ target' = Admin
    /\ UNCHANGED <<phase, unread, nvs>>

\* ...and the boot goes on.
Loaded ==
    /\ phase = "loading"
    /\ unread = {}
    /\ op = "idle"
    /\ Listed(Admin)
    /\ phase' = "running"
    /\ UNCHANGED <<unread, accounts, nvs, op, target>>

Next ==
    \/ \E u \in Users, password \in Passwords : PostAccount(u, password) \/ PatchAccount(u, password)
    \/ \E u \in Users : DeleteAccount(u)
    \/ StoreAccount \/ ForgetAccount
    \/ Restart
    \/ \E u \in Users : LoadAccount(u)
    \/ CreateAdmin \/ Loaded

Spec == Init /\ [][Next]_vars

-----------------------------------------------------------------------------
(* Properties. *)

\* Whatever was stored fits the array at the next boot: the path of
\* ofp_account_list_init for an account that does not fit, which frees its
\* password string twice (ofp.c:1862, 1876), is never taken, and neither is the
\* one where the administrator's account finds no entry (ofp.c:1884).
BootFits ==
    /\ phase = "loading" /\ unread # {} => \E i \in Entries : accounts[i] = NULL
    /\ phase = "loading" /\ ~Listed(Admin) => Admin \in unread \/ \E i \in Entries : accounts[i] = NULL

\* A running device has the administrator's account, in memory and in NVS: no
\* sequence of requests and power losses locks everybody out (ofp.c:1881-1885,
\* api_accounts.c:124-126).
AdminKept == phase = "running" => Listed(Admin) /\ nvs[Admin] # NULL

\* The password of each user in the array.
Accepted ==
    [u \in Users |-> IF Listed(u) THEN accounts[CHOOSE i \in Entries : Holds(i, u)].password ELSE NULL]

\* What the device accepts: while it boots, and once an account is out of NVS,
\* that is what NVS holds.
Book ==
    IF op = "store" \/ (phase = "running" /\ op = "idle") THEN Accepted ELSE nvs

Durable == INSTANCE AccountBook WITH book <- Book, undo <- nvs

\* Accounts implement the durable book: what was acknowledged survives every
\* power loss, what was cut short is made entirely or not at all, and what a
\* boot reads back is what was accepted before it (ofp.c:1655-1973).
ImplementsBook == Durable!Spec
=============================================================================
