---------------------------- MODULE AccessProofs ----------------------------
(* Theorems about Accounts, and about Access on top of it, for every number *)
(* of entries and every set of users, connections and orders.               *)
EXTENDS Access, FiniteSetTheorems, Induction

-----------------------------------------------------------------------------
(* The inductive invariant. *)

\* Two entries never hold the same user.
UniqueUsers == \A u \in Users, i, j \in Entries : Holds(i, u) /\ Holds(j, u) => i = j

\* What the array holds is stored, but for what the request in service changes.
Agree ==
    \A i \in Entries :
        accounts[i] # NULL /\ (op = "idle" \/ accounts[i].id # target) =>
            nvs[accounts[i].id] = accounts[i].password

\* What is stored is in the array, or still to be read.
Covered == \A u \in Stored : Listed(u) \/ u \in unread

\* What is still to be read is stored and not in the array yet.
Unread ==
    /\ phase = "running" => unread = {}
    /\ \A u \in unread : u \in Stored /\ ~Listed(u)
    /\ op # "idle" => unread = {}

\* A request in service is about an account of the array, which a removal has
\* already taken out of NVS; a boot only stores the administrator's.
InService ==
    /\ op # "idle" => Listed(target)
    /\ op = "forget" => nvs[target] = NULL /\ target # Admin
    /\ phase = "loading" /\ op # "idle" => op = "store" /\ target = Admin

\* Nothing is stored before the administrator's account.
AdminFirst ==
    /\ nvs[Admin] = NULL => phase = "loading" /\ Stored = {}
    /\ phase = "running" => Listed(Admin)

\* What is stored fits the array.
Fits == Cardinality(Stored) <= MAX_ACCOUNT /\ IsFiniteSet(Stored)

IInv ==
    /\ TypeOK
    /\ UniqueUsers
    /\ Agree
    /\ Covered
    /\ Unread
    /\ InService
    /\ AdminFirst
    /\ Fits

-----------------------------------------------------------------------------
(* Lemmas. *)

\* Users that are all in the array are at most as many as its entries.
LEMMA ListedFit ==
    ASSUME NEW S \in SUBSET Users, \A u \in S : Listed(u)
    PROVE  IsFiniteSet(S) /\ Cardinality(S) <= MAX_ACCOUNT
<1> DEFINE f == [u \in S |-> CHOOSE i \in Entries : Holds(i, u)]
<1>1. \A u \in S : f[u] \in Entries /\ Holds(f[u], u)
  BY DEF Listed
<1>2. f \in Injection(S, Entries)
  <2>1. f \in [S -> Entries]
    BY <1>1
  <2>2. ASSUME NEW u \in S, NEW v \in S, f[u] = f[v]
        PROVE  u = v
    <3> HIDE DEF f
    <3> QED BY <1>1, <2>2 DEF Holds
  <2> HIDE DEF f
  <2> QED BY <2>1, <2>2 DEF Injection, IsInjective
<1>3. IsFiniteSet(Entries) /\ Cardinality(Entries) = MAX_ACCOUNT
  BY FS_Interval, AccountsAssumption DEF Entries
<1> QED BY <1>2, <1>3, FS_Injection

\* Entry i takes a new account for a user who has none: the others stay.
LEMMA AddFacts ==
    ASSUME TypeOK, NEW u \in Users, NEW password \in Passwords, Add(u, password)
    PROVE  /\ ~Listed(u)
           /\ \E i \in Entries :
                 /\ accounts[i] = NULL
                 /\ accounts' = [accounts EXCEPT ![i] = [id |-> u, password |-> password]]
           /\ accounts' \in [Entries -> Account \cup {NULL}]
           /\ \A v \in Users : Listed(v)' <=> Listed(v) \/ v = u
<1>1. PICK i \in Entries :
         /\ accounts[i] = NULL
         /\ accounts' = [accounts EXCEPT ![i] = [id |-> u, password |-> password]]
  BY DEF Add, IsFirstFree
<1>2. [id |-> u, password |-> password] \in Account /\ [id |-> u, password |-> password] # NULL
  BY AccountsAssumption DEF Account
<1>3. accounts' \in [Entries -> Account \cup {NULL}]
  BY <1>1, <1>2 DEF TypeOK
<1>4. \A v \in Users : Listed(v)' <=> Listed(v) \/ v = u
  <2> TAKE v \in Users
  <2>1. \A j \in Entries : j # i => Holds(j, v)' = Holds(j, v)
    BY <1>1 DEF TypeOK, Holds
  <2>2. Holds(i, v)' <=> v = u
    BY <1>1, <1>2 DEF TypeOK, Holds
  <2>3. ~Holds(i, v)
    BY <1>1 DEF Holds
  <2> QED BY <2>1, <2>2, <2>3 DEF Listed
<1> QED BY <1>1, <1>3, <1>4 DEF Add

\* A new account breaks neither uniqueness nor agreement with NVS.
LEMMA AddKeeps ==
    ASSUME TypeOK, UniqueUsers, NEW u \in Users, NEW password \in Passwords, Add(u, password)
    PROVE  UniqueUsers'
<1>1. PICK i \in Entries :
         /\ accounts[i] = NULL
         /\ accounts' = [accounts EXCEPT ![i] = [id |-> u, password |-> password]]
  BY AddFacts
<1>2. ~Listed(u)
  BY AddFacts
<1> SUFFICES ASSUME NEW v \in Users, NEW j \in Entries, NEW k \in Entries,
                    Holds(j, v)', Holds(k, v)'
             PROVE  j = k
  BY DEF UniqueUsers
<1>3. Holds(i, v)' => v = u
  BY <1>1 DEF TypeOK, Holds
<1>4. \A l \in Entries : l # i /\ Holds(l, v)' => Holds(l, v)
  BY <1>1 DEF TypeOK, Holds
<1>5. CASE v = u
  BY <1>2, <1>4, <1>5 DEF Listed
<1>6. CASE v # u
  BY <1>3, <1>4, <1>6 DEF UniqueUsers
<1> QED BY <1>5, <1>6

-----------------------------------------------------------------------------
(* The invariant holds initially, and every action keeps it. *)

LEMMA InitKeeps == Init => IInv
<1> SUFFICES ASSUME Init PROVE IInv
  OBVIOUS
<1>1. TypeOK
  BY AccountsAssumption DEF Init, TypeOK, Ops
<1>2. Stored = {}
  BY DEF Init, Stored
<1>3. UniqueUsers /\ Agree /\ Covered /\ Unread /\ InService /\ AdminFirst
  BY <1>2 DEF Init, UniqueUsers, Agree, Covered, Unread, InService, AdminFirst, Holds
<1>4. Fits
  BY <1>2, FS_EmptySet, AccountsAssumption DEF Fits
<1> QED BY <1>1, <1>3, <1>4 DEF IInv

\* POST
LEMMA PostAccountKeeps ==
    ASSUME IInv, NEW u \in Users, NEW password \in Passwords, PostAccount(u, password)
    PROVE  IInv'
<1> USE DEF IInv
<1>1. Add(u, password) /\ Idle /\ op' = "store" /\ target' = u /\ UNCHANGED <<phase, unread, nvs>>
  BY DEF PostAccount
<1>2. PICK i \in Entries :
         /\ accounts[i] = NULL
         /\ accounts' = [accounts EXCEPT ![i] = [id |-> u, password |-> password]]
  BY <1>1, AddFacts
<1>3. TypeOK'
  BY <1>1, AddFacts DEF TypeOK, Ops
<1>4. UniqueUsers'
  BY <1>1, AddKeeps
<1>5. \A v \in Users : Listed(v)' <=> Listed(v) \/ v = u
  BY <1>1, AddFacts
<1>6. Agree'
  BY <1>1, <1>2 DEF Agree, TypeOK, Idle
<1>7. Covered' /\ Unread' /\ InService' /\ AdminFirst'
  BY <1>1, <1>5, AccountsAssumption DEF Covered, Unread, InService, AdminFirst, Stored, Idle
<1>8. Fits'
  BY <1>1 DEF Fits, Stored
<1> QED BY <1>3, <1>4, <1>6, <1>7, <1>8

\* PATCH
LEMMA PatchAccountKeeps ==
    ASSUME IInv, NEW u \in Users, NEW password \in Passwords, PatchAccount(u, password)
    PROVE  IInv'
<1> USE DEF IInv
<1>1. Idle /\ op' = "store" /\ target' = u /\ UNCHANGED <<phase, unread, nvs>>
  BY DEF PatchAccount
<1>2. PICK i \in Entries :
         /\ Holds(i, u)
         /\ accounts' = [accounts EXCEPT ![i] = [id |-> u, password |-> password]]
  BY DEF PatchAccount
<1>3. [id |-> u, password |-> password] \in Account /\ [id |-> u, password |-> password] # NULL
  BY AccountsAssumption DEF Account
<1>4. TypeOK'
  BY <1>1, <1>2, <1>3 DEF TypeOK, Ops
<1>5. \A v \in Users, j \in Entries : Holds(j, v)' = Holds(j, v)
  BY <1>2, <1>3 DEF Holds, TypeOK
<1>6. \A v \in Users : Listed(v)' = Listed(v)
  BY <1>5 DEF Listed
<1>7. UniqueUsers'
  BY <1>5 DEF UniqueUsers
<1>8. Agree'
  BY <1>1, <1>2 DEF Agree, TypeOK, Idle
<1>9. Listed(u)
  BY <1>2 DEF Listed
<1>10. Covered' /\ Unread' /\ InService' /\ AdminFirst'
  BY <1>1, <1>6, <1>9, AccountsAssumption DEF Covered, Unread, InService, AdminFirst, Stored, Idle
<1>11. Fits'
  BY <1>1 DEF Fits, Stored
<1> QED BY <1>4, <1>7, <1>8, <1>10, <1>11

\* The write to NVS both end with.
LEMMA StoreAccountKeeps ==
    ASSUME IInv, StoreAccount
    PROVE  IInv'
<1> USE DEF IInv
<1>1. PICK i \in Entries : Holds(i, target) /\ nvs' = [nvs EXCEPT ![target] = accounts[i].password]
  BY DEF StoreAccount
<1>2. op = "store" /\ op' = "idle" /\ UNCHANGED <<phase, unread, accounts, target>>
  BY DEF StoreAccount
<1>3. accounts[i].password \in Passwords /\ accounts[i].password # NULL
  BY <1>1, AccountsAssumption DEF TypeOK, Holds, Account
<1>4. TypeOK'
  BY <1>1, <1>2, <1>3 DEF TypeOK, Ops
<1>5. UniqueUsers' /\ (\A u \in Users : Listed(u)' = Listed(u))
  BY <1>2 DEF UniqueUsers, Listed, Holds
<1>6. Agree'
  <2> SUFFICES ASSUME NEW j \in Entries, accounts[j] # NULL
               PROVE  nvs'[accounts[j].id] = accounts[j].password
    BY <1>2 DEF Agree
  <2>1. accounts[j].id \in Users
    BY DEF TypeOK, Account
  <2>2. CASE accounts[j].id = target
    <3>1. j = i
      BY <1>1, <2>1, <2>2 DEF UniqueUsers, Holds
    <3> QED BY <1>1, <2>2, <3>1 DEF TypeOK
  <2>3. CASE accounts[j].id # target
    BY <1>1, <2>1, <2>3 DEF Agree, TypeOK
  <2> QED BY <2>2, <2>3
<1>7. Stored' = Stored \cup {target}
  BY <1>1, <1>3 DEF Stored, TypeOK
<1>8. unread = {} /\ Listed(target)
  BY <1>2 DEF Unread, InService
<1>9. Covered' /\ Unread' /\ InService'
  <2>1. Stored \subseteq Users /\ target \in Users
    BY DEF Stored, TypeOK
  <2>2. Covered'
    BY <1>2, <1>5, <1>7, <1>8, <2>1 DEF Covered
  <2>3. Unread' /\ InService'
    BY <1>2, <1>8 DEF Unread, InService
  <2> QED BY <2>2, <2>3
<1>10. AdminFirst'
  <2>1. nvs'[Admin] # NULL
    <3>1. CASE target = Admin
      BY <1>1, <1>3, <3>1 DEF TypeOK
    <3>2. CASE target # Admin
      BY <1>1, <1>2, <3>2, AccountsAssumption DEF TypeOK, InService, AdminFirst
    <3> QED BY <3>1, <3>2
  <2> QED BY <2>1, <1>2, <1>5, AccountsAssumption DEF AdminFirst
<1>11. Fits'
  <2>1. Stored' \in SUBSET Users
    BY DEF Stored
  <2>2. \A u \in Stored' : Listed(u)
    BY <1>7, <1>8 DEF Covered
  <2> QED BY <2>1, <2>2, ListedFit DEF Fits
<1> QED BY <1>4, <1>5, <1>6, <1>9, <1>10, <1>11

\* DELETE, out of NVS.
LEMMA DeleteAccountKeeps ==
    ASSUME IInv, NEW u \in Users, DeleteAccount(u)
    PROVE  IInv'
<1> USE DEF IInv
<1>1. /\ Idle /\ u # Admin /\ Listed(u) /\ nvs' = [nvs EXCEPT ![u] = NULL]
      /\ op' = "forget" /\ target' = u /\ UNCHANGED <<phase, unread, accounts>>
  BY DEF DeleteAccount
<1>2. TypeOK'
  BY <1>1 DEF TypeOK, Ops
<1>3. UniqueUsers' /\ (\A v \in Users : Listed(v)' = Listed(v))
  BY <1>1 DEF UniqueUsers, Listed, Holds
<1>4. Agree'
  BY <1>1 DEF Agree, TypeOK, Account, Idle
<1>5. Stored' = Stored \ {u}
  BY <1>1 DEF Stored, TypeOK
<1>6. Covered' /\ Unread'
  BY <1>1, <1>3, <1>5 DEF Covered, Unread, Idle, Stored
<1>7. InService'
  BY <1>1, <1>3 DEF InService, Idle, TypeOK
<1>8. AdminFirst'
  BY <1>1, <1>3, AccountsAssumption DEF AdminFirst, Idle, TypeOK
<1>9. Fits'
  <2>1. Stored' \in SUBSET Stored
    BY <1>5
  <2>2. Cardinality(Stored) \in Nat /\ Cardinality(Stored') \in Nat /\ IsFiniteSet(Stored')
    BY <2>1, FS_Subset, FS_CardinalityType DEF Fits
  <2>3. Cardinality(Stored') <= Cardinality(Stored)
    BY <2>1, FS_Subset DEF Fits
  <2> QED BY <2>2, <2>3, AccountsAssumption DEF Fits
<1> QED BY <1>2, <1>3, <1>4, <1>6, <1>7, <1>8, <1>9

\* DELETE, out of the array.
LEMMA ForgetAccountKeeps ==
    ASSUME IInv, ForgetAccount
    PROVE  IInv'
<1> USE DEF IInv
<1>1. PICK i \in Entries : Holds(i, target) /\ accounts' = [accounts EXCEPT ![i] = NULL]
  BY DEF ForgetAccount
<1>2. op = "forget" /\ op' = "idle" /\ UNCHANGED <<phase, unread, nvs, target>>
  BY DEF ForgetAccount
<1>3. TypeOK'
  BY <1>1, <1>2 DEF TypeOK, Ops
<1>4. \A v \in Users, j \in Entries : Holds(j, v)' <=> Holds(j, v) /\ v # target
  <2> SUFFICES ASSUME NEW v \in Users, NEW j \in Entries
               PROVE  Holds(j, v)' <=> Holds(j, v) /\ v # target
    OBVIOUS
  <2>0. target \in Users
    BY DEF TypeOK
  <2>1. CASE j = i
    BY <1>1, <2>1 DEF Holds, TypeOK
  <2>2. CASE j # i
    <3>1. Holds(j, v)' = Holds(j, v)
      BY <1>1, <2>2 DEF Holds, TypeOK
    <3>2. Holds(j, v) => v # target
      BY <1>1, <2>0, <2>2 DEF UniqueUsers
    <3> QED BY <3>1, <3>2
  <2> QED BY <2>1, <2>2
<1>5. \A v \in Users : Listed(v)' <=> Listed(v) /\ v # target
  BY <1>4 DEF Listed
<1>6. UniqueUsers'
  BY <1>4 DEF UniqueUsers
<1>7. Agree'
  <2> SUFFICES ASSUME NEW j \in Entries, accounts'[j] # NULL
               PROVE  nvs[accounts'[j].id] = accounts'[j].password
    BY <1>2 DEF Agree
  <2>1. j # i /\ accounts'[j] = accounts[j]
    BY <1>1 DEF TypeOK
  <2>2. accounts[j].id \in Users
    BY <2>1 DEF TypeOK, Account
  <2>3. accounts[j].id # target
    BY <1>1, <2>1, <2>2 DEF UniqueUsers, Holds
  <2> QED BY <2>1, <2>3 DEF Agree
<1>8. Covered' /\ Unread' /\ InService'
  BY <1>2, <1>5 DEF Covered, Unread, InService, Stored
<1>9. AdminFirst'
  BY <1>2, <1>5, AccountsAssumption DEF AdminFirst, InService, Stored
<1>10. Fits'
  BY <1>2 DEF Fits, Stored
<1> QED BY <1>3, <1>6, <1>7, <1>8, <1>9, <1>10

\* Power loss or restart.
LEMMA RestartKeeps ==
    ASSUME IInv, Restart
    PROVE  IInv'
<1> USE DEF IInv
<1>1. /\ phase' = "loading" /\ unread' = Stored /\ op' = "idle" /\ UNCHANGED <<nvs, target>>
      /\ accounts' = [i \in Entries |-> NULL]
  BY DEF Restart
<1>2. TypeOK'
  BY <1>1 DEF TypeOK, Ops, Stored
<1>3. (\A j \in Entries, v \in Users : ~Holds(j, v)') /\ (\A v \in Users : ~Listed(v)')
  BY <1>1 DEF Holds, Listed
<1>4. UniqueUsers' /\ Agree'
  BY <1>1, <1>3 DEF UniqueUsers, Agree
<1>5. Covered' /\ Unread' /\ InService' /\ AdminFirst'
  BY <1>1, <1>3 DEF Covered, Unread, InService, AdminFirst, Stored
<1>6. Fits'
  BY <1>1 DEF Fits, Stored
<1> QED BY <1>2, <1>4, <1>5, <1>6

\* The boot, one account read.
LEMMA LoadAccountKeeps ==
    ASSUME IInv, NEW u \in Users, LoadAccount(u)
    PROVE  IInv'
<1> USE DEF IInv
<1>1. /\ phase = "loading" /\ u \in unread /\ Add(u, nvs[u]) /\ unread' = unread \ {u}
      /\ UNCHANGED <<phase, nvs, op, target>>
  BY DEF LoadAccount
<1>2. nvs[u] \in Passwords /\ op = "idle"
  BY <1>1 DEF Unread, Stored, TypeOK, Ops
<1>3. PICK i \in Entries :
         /\ accounts[i] = NULL
         /\ accounts' = [accounts EXCEPT ![i] = [id |-> u, password |-> nvs[u]]]
  BY <1>1, <1>2, AddFacts
<1>4. TypeOK'
  BY <1>1, <1>2, AddFacts DEF TypeOK
<1>5. UniqueUsers'
  BY <1>1, <1>2, AddKeeps
<1>6. \A v \in Users : Listed(v)' <=> Listed(v) \/ v = u
  BY <1>1, <1>2, AddFacts
<1>7. Agree'
  BY <1>1, <1>2, <1>3 DEF Agree, TypeOK
<1>8. Covered' /\ Unread' /\ InService' /\ AdminFirst'
  BY <1>1, <1>2, <1>6, AccountsAssumption DEF Covered, Unread, InService, AdminFirst, Stored
<1>9. Fits'
  BY <1>1 DEF Fits, Stored
<1> QED BY <1>4, <1>5, <1>7, <1>8, <1>9

\* The boot, the administrator's account.
LEMMA CreateAdminKeeps ==
    ASSUME IInv, CreateAdmin
    PROVE  IInv'
<1> USE DEF IInv
<1>1. /\ phase = "loading" /\ unread = {} /\ op = "idle" /\ Add(Admin, FIRST)
      /\ op' = "store" /\ target' = Admin /\ UNCHANGED <<phase, unread, nvs>>
  BY DEF CreateAdmin
<1>2. PICK i \in Entries :
         /\ accounts[i] = NULL
         /\ accounts' = [accounts EXCEPT ![i] = [id |-> Admin, password |-> FIRST]]
  BY <1>1, AddFacts, AccountsAssumption
<1>3. TypeOK'
  BY <1>1, AddFacts, AccountsAssumption DEF TypeOK, Ops
<1>4. UniqueUsers'
  BY <1>1, AddKeeps, AccountsAssumption
<1>5. \A v \in Users : Listed(v)' <=> Listed(v) \/ v = Admin
  BY <1>1, AddFacts, AccountsAssumption
<1>6. Agree'
  BY <1>1, <1>2 DEF Agree, TypeOK
<1>7. Covered' /\ Unread' /\ InService' /\ AdminFirst'
  BY <1>1, <1>5, AccountsAssumption DEF Covered, Unread, InService, AdminFirst, Stored
<1>8. Fits'
  BY <1>1 DEF Fits, Stored
<1> QED BY <1>3, <1>4, <1>6, <1>7, <1>8

\* The boot goes on.
LEMMA LoadedKeeps ==
    ASSUME IInv, Loaded
    PROVE  IInv'
<1> USE DEF IInv
<1>1. /\ phase = "loading" /\ unread = {} /\ op = "idle" /\ Listed(Admin)
      /\ phase' = "running" /\ UNCHANGED <<unread, accounts, nvs, op, target>>
  BY DEF Loaded
<1>2. TypeOK'
  BY <1>1 DEF TypeOK
<1>3. UniqueUsers' /\ Agree' /\ (\A v \in Users : Listed(v)' = Listed(v))
  BY <1>1 DEF UniqueUsers, Agree, Holds, Listed
<1>4. nvs[Admin] # NULL
  <2>1. PICK i \in Entries : Holds(i, Admin)
    BY <1>1 DEF Listed
  <2>2. accounts[i].password \in Passwords /\ nvs[Admin] = accounts[i].password
    BY <1>1, <2>1 DEF Holds, TypeOK, Account, Agree
  <2> QED BY <2>2, AccountsAssumption
<1>5. Covered' /\ Unread' /\ InService' /\ AdminFirst'
  BY <1>1, <1>3, <1>4, AccountsAssumption DEF Covered, Unread, InService, AdminFirst, Stored
<1>6. Fits'
  BY <1>1 DEF Fits, Stored
<1> QED BY <1>2, <1>3, <1>5, <1>6

LEMMA NextKeeps == IInv /\ [Next]_vars => IInv'
<1> SUFFICES ASSUME IInv, [Next]_vars PROVE IInv'
  OBVIOUS
<1>1. CASE UNCHANGED vars
  BY <1>1 DEF vars, IInv, TypeOK, UniqueUsers, Agree, Covered, Unread, InService, AdminFirst,
              Fits, Stored, Listed, Holds
<1>2. CASE Next
  BY <1>2, PostAccountKeeps, PatchAccountKeeps, StoreAccountKeeps, DeleteAccountKeeps,
     ForgetAccountKeeps, RestartKeeps, LoadAccountKeeps, CreateAdminKeeps, LoadedKeeps DEF Next
<1> QED BY <1>1, <1>2

THEOREM Inductive == Spec => []IInv
BY InitKeeps, NextKeeps, PTL DEF Spec

-----------------------------------------------------------------------------
(* What the invariant implies. *)

\* Every variable keeps its type, whatever the number of entries and users.
THEOREM TypeCorrect == Spec => []TypeOK
<1>1. IInv => TypeOK
  BY DEF IInv
<1> QED BY <1>1, Inductive, PTL

\* The administrator's account is never lost, wherever power is.
THEOREM AdminIsKept == Spec => []AdminKept
<1>1. IInv => AdminKept
  BY DEF IInv, AdminFirst, AdminKept
<1> QED BY <1>1, Inductive, PTL

\* A boot finds an entry for every account, whatever was created and removed
\* before: the error path that frees a string twice is never taken.
THEOREM BootAlwaysFits == Spec => []BootFits
<1>1. ASSUME IInv, phase = "loading", unread # {}
      PROVE  \E i \in Entries : accounts[i] = NULL
  <2> SUFFICES ASSUME \A i \in Entries : accounts[i] # NULL
               PROVE  FALSE
    OBVIOUS
  <2> DEFINE g == [i \in Entries |-> accounts[i].id]
  <2>1. PICK u \in unread : u \in Stored /\ ~Listed(u)
    BY <1>1 DEF IInv, Unread
  <2>2. op = "idle"
    BY <1>1 DEF IInv, Unread
  <2>3. \A i \in Entries : accounts[i].id \in Stored \ {u}
    <3> TAKE i \in Entries
    <3>1. accounts[i] \in Account
      BY <1>1 DEF IInv, TypeOK
    <3>2. nvs[accounts[i].id] \in Passwords
      BY <1>1, <2>2, <3>1 DEF IInv, Agree, Account
    <3>3. accounts[i].id # u
      BY <2>1 DEF Listed, Holds
    <3> QED BY <3>1, <3>2, <3>3, AccountsAssumption DEF Stored, Account
  <2>4. g \in Injection(Entries, Stored \ {u})
    <3>1. g \in [Entries -> Stored \ {u}]
      BY <2>3
    <3>2. ASSUME NEW i \in Entries, NEW j \in Entries, g[i] = g[j]
          PROVE  i = j
      BY <1>1, <2>3, <3>2 DEF IInv, UniqueUsers, Holds, Stored
    <3> HIDE DEF g
    <3> QED BY <3>1, <3>2 DEF Injection, IsInjective
  <2>5. IsFiniteSet(Stored \ {u}) /\ Cardinality(Stored \ {u}) = Cardinality(Stored) - 1
    BY <1>1, <2>1, FS_RemoveElement DEF IInv, Fits
  <2>6. Cardinality(Entries) <= Cardinality(Stored) - 1
    <3> HIDE DEF g
    <3> QED BY <2>4, <2>5, FS_Injection
  <2>7. Cardinality(Entries) = MAX_ACCOUNT
    BY FS_Interval, AccountsAssumption DEF Entries
  <2>8. Cardinality(Stored) \in Nat /\ Cardinality(Stored) <= MAX_ACCOUNT
    BY <1>1, FS_CardinalityType DEF IInv, Fits
  <2> QED BY <2>6, <2>7, <2>8, AccountsAssumption
<1>2. ASSUME IInv, phase = "loading", ~Listed(Admin), Admin \notin unread
      PROVE  \E i \in Entries : accounts[i] = NULL
  <2>1. nvs[Admin] = NULL
    BY <1>2, AccountsAssumption DEF IInv, Covered, Stored
  <2>2. Stored = {}
    BY <1>2, <2>1 DEF IInv, AdminFirst
  <2>3. op = "idle"
    BY <1>2 DEF IInv, InService
  <2>4. 1 \in Entries
    BY AccountsAssumption DEF Entries
  <2>5. accounts[1] = NULL
    <3> SUFFICES ASSUME accounts[1] # NULL PROVE FALSE
      OBVIOUS
    <3>1. accounts[1] \in Account
      BY <1>2, <2>4 DEF IInv, TypeOK
    <3>2. nvs[accounts[1].id] \in Passwords /\ accounts[1].id \in Users
      BY <1>2, <2>3, <2>4, <3>1 DEF IInv, Agree, Account
    <3> QED BY <2>2, <3>2, AccountsAssumption DEF Stored
  <2> QED BY <2>4, <2>5
<1>3. IInv => BootFits
  BY <1>1, <1>2 DEF BootFits
<1> QED BY <1>3, Inductive, PTL

-----------------------------------------------------------------------------
(* The refinement. *)

\* The password of a user is the one of the entry that holds it.
LEMMA AcceptedOf ==
    ASSUME TypeOK, UniqueUsers, NEW u \in Users, NEW i \in Entries, Holds(i, u)
    PROVE  Accepted[u] = accounts[i].password /\ Accepted[u] \in Passwords
<1>1. Listed(u)
  BY DEF Listed
<1>2. (CHOOSE j \in Entries : Holds(j, u)) = i
  BY DEF UniqueUsers
<1>3. accounts[i].password \in Passwords
  BY DEF TypeOK, Holds, Account
<1> QED BY <1>1, <1>2, <1>3 DEF Accepted

\* The book is what NVS holds, except for the user whose account is to be
\* stored.
BookFacts ==
    /\ op # "store" => Book = nvs
    /\ op = "store" => /\ target \in Users
                       /\ Accepted[target] \in Passwords
                       /\ Book = [nvs EXCEPT ![target] = Accepted[target]]

LEMMA BookIs == IInv => BookFacts
<1> SUFFICES ASSUME IInv PROVE BookFacts
  OBVIOUS
<1> USE DEF IInv
<1>1. ASSUME NEW u \in Users, op = "idle" \/ u # target, unread = {}
      PROVE  Accepted[u] = nvs[u]
  <2>1. CASE Listed(u)
    <3>1. PICK i \in Entries : Holds(i, u)
      BY <2>1 DEF Listed
    <3>2. nvs[u] = accounts[i].password
      BY <1>1, <3>1 DEF Agree, Holds
    <3> QED BY <3>1, <3>2, AcceptedOf
  <2>2. CASE ~Listed(u)
    BY <1>1, <2>2 DEF Covered, Stored, Accepted
  <2> QED BY <2>1, <2>2
<1>2. nvs \in [Users -> Passwords \cup {NULL}]
  BY DEF TypeOK
<1>3. ASSUME op # "store" PROVE Book = nvs
  <2>1. CASE phase = "running" /\ op = "idle"
    <3>1. unread = {}
      BY <2>1 DEF Unread
    <3>2. Accepted = [u \in Users |-> nvs[u]]
      <4>1. \A u \in Users : Accepted[u] = nvs[u]
        BY <1>1, <2>1, <3>1
      <4>2. Accepted = [u \in Users |-> Accepted[u]]
        BY DEF Accepted
      <4> QED BY <4>1, <4>2
    <3> QED BY <1>2, <2>1, <3>2 DEF Book
  <2>2. CASE ~(phase = "running" /\ op = "idle")
    BY <1>3, <2>2 DEF Book
  <2> QED BY <2>1, <2>2
<1>4. ASSUME op = "store"
      PROVE  /\ target \in Users
             /\ Accepted[target] \in Passwords
             /\ Book = [nvs EXCEPT ![target] = Accepted[target]]
  <2>1. target \in Users /\ unread = {}
    BY <1>4 DEF TypeOK, Unread
  <2>2. PICK i \in Entries : Holds(i, target)
    BY <1>4 DEF InService, Listed
  <2>3. Accepted[target] \in Passwords
    BY <2>1, <2>2, AcceptedOf
  <2>4. \A u \in Users : u # target => Accepted[u] = nvs[u]
    BY <1>1, <2>1
  <2>5. Accepted = [u \in Users |-> Accepted[u]]
    BY DEF Accepted
  <2>6. Accepted = [nvs EXCEPT ![target] = Accepted[target]]
    <3> DEFINE p == Accepted[target]
    <3>1. [nvs EXCEPT ![target] = p] = [u \in Users |-> IF u = target THEN p ELSE nvs[u]]
      BY <1>2
    <3>2. [u \in Users |-> Accepted[u]] = [u \in Users |-> IF u = target THEN p ELSE nvs[u]]
      BY <2>4
    <3> QED BY <2>5, <3>1, <3>2
  <2> QED BY <1>4, <2>1, <2>3, <2>6 DEF Book
<1> QED BY <1>3, <1>4 DEF BookFacts

\* A step that starts to store an account begins a change of the book.
LEMMA BeginStep ==
    ASSUME IInv, IInv', op # "store", op' = "store", UNCHANGED nvs
    PROVE  Durable!Next
<1>0. BookFacts /\ BookFacts'
  BY BookIs, PTL
<1>1. Book = nvs
  BY <1>0 DEF BookFacts
<1>2. /\ target' \in Users
      /\ (Accepted[target])' \in Passwords
      /\ Book' = [nvs' EXCEPT ![target'] = (Accepted[target])']
  BY <1>0 DEF BookFacts
<1>3. Durable!Begin(target', (Accepted[target])')
  BY <1>1, <1>2 DEF Durable!Begin, Durable!Settled
<1> QED BY <1>2, <1>3 DEF Durable!Next

\* Outside of storing, a step that leaves NVS alone leaves the book alone.
LEMMA StutterStep ==
    ASSUME IInv, IInv', op # "store", op' # "store", UNCHANGED nvs
    PROVE  UNCHANGED Durable!vars
<1>0. BookFacts /\ BookFacts'
  BY BookIs, PTL
<1>1. Book = nvs
  BY <1>0 DEF BookFacts
<1>2. Book' = nvs'
  BY <1>0 DEF BookFacts
<1> QED BY <1>1, <1>2 DEF Durable!vars

\* Every step of the accounts is a step of the book, or leaves it alone.
LEMMA StepRefines ==
    ASSUME IInv, IInv', [Next]_vars
    PROVE  [Durable!Next]_(Durable!vars)
<1>0. /\ op # "store" => Book = nvs
      /\ op' # "store" => Book' = nvs'
  <2>1. BookFacts /\ BookFacts'
    BY BookIs, PTL
  <2> QED BY <2>1 DEF BookFacts
<1>1. ASSUME NEW u \in Users, NEW password \in Passwords,
             PostAccount(u, password) \/ PatchAccount(u, password)
      PROVE  Durable!Next
  BY <1>1, BeginStep DEF PostAccount, PatchAccount, Idle
<1>2. CASE StoreAccount
  <2>1. PICK i \in Entries : Holds(i, target) /\ nvs' = [nvs EXCEPT ![target] = accounts[i].password]
    BY <1>2 DEF StoreAccount
  <2>2. op = "store" /\ op' = "idle"
    BY <1>2 DEF StoreAccount
  <2>3. Accepted[target] = accounts[i].password
    BY <2>1, AcceptedOf DEF IInv, TypeOK
  <2>4. Book' = Book /\ nvs' = Book
    BY <1>0, <2>1, <2>2, <2>3, BookIs DEF BookFacts
  <2>5. CASE nvs = Book
    BY <2>4, <2>5 DEF Durable!vars
  <2>6. CASE nvs # Book
    BY <2>4, <2>6 DEF Durable!Next, Durable!Acknowledge, Durable!Settled
  <2> QED BY <2>5, <2>6
<1>3. ASSUME NEW u \in Users, DeleteAccount(u)
      PROVE  Durable!Next
  <2>1. /\ op = "idle" /\ op' = "forget" /\ u # Admin /\ Listed(u)
        /\ nvs' = [nvs EXCEPT ![u] = NULL]
    BY <1>3 DEF DeleteAccount, Idle
  <2>2. Book = nvs /\ Book' = nvs'
    BY <1>0, <2>1
  <2>3. nvs[u] # NULL
    <3>1. PICK i \in Entries : Holds(i, u)
      BY <2>1 DEF Listed
    <3>2. nvs[u] = accounts[i].password /\ accounts[i].password \in Passwords
      BY <2>1, <3>1 DEF IInv, Agree, Holds, TypeOK, Account
    <3> QED BY <3>2, AccountsAssumption
  <2>4. Durable!Remove(u)
    BY <2>1, <2>2, <2>3 DEF Durable!Remove, Durable!Settled
  <2> QED BY <2>4 DEF Durable!Next
<1>4. CASE ForgetAccount
  BY <1>4, StutterStep DEF ForgetAccount
<1>5. CASE Restart
  <2>1. op' = "idle" /\ nvs' = nvs
    BY <1>5 DEF Restart
  <2>2. Book' = nvs
    BY <1>0, <2>1
  <2>3. CASE Book = nvs
    BY <2>1, <2>2, <2>3 DEF Durable!vars
  <2>4. CASE Book # nvs
    BY <2>1, <2>2, <2>4 DEF Durable!Next, Durable!Revert, Durable!Settled
  <2> QED BY <2>3, <2>4
<1>6. ASSUME NEW u \in Users, LoadAccount(u)
      PROVE  UNCHANGED Durable!vars
  <2>1. op # "store" /\ op' = op /\ nvs' = nvs
    BY <1>6 DEF LoadAccount, IInv, Unread
  <2> QED BY <2>1, StutterStep
<1>7. CASE CreateAdmin
  BY <1>7, BeginStep DEF CreateAdmin
<1>8. CASE Loaded
  BY <1>8, StutterStep DEF Loaded
<1>9. CASE UNCHANGED vars
  BY <1>9 DEF vars, Durable!vars, Book, Accepted, Listed, Holds
<1> QED BY <1>1, <1>2, <1>3, <1>4, <1>5, <1>6, <1>7, <1>8, <1>9 DEF Next

\* The accounts implement the durable book, for every number of entries and
\* every set of users and passwords.
THEOREM BookRefined == Spec => ImplementsBook
<1>1. Init => Durable!Init
  <2> SUFFICES ASSUME Init PROVE Durable!Init
    OBVIOUS
  <2>1. Book = nvs
    BY DEF Init, Book
  <2> QED BY <2>1 DEF Init, Durable!Init, Durable!Settled
<1>2. IInv /\ IInv' /\ [Next]_vars => [Durable!Next]_(Durable!vars)
  BY StepRefines
<1> QED BY <1>1, <1>2, Inductive, PTL DEF Spec, ImplementsBook, Durable!Spec

-----------------------------------------------------------------------------
(* The server only does to the accounts what module Accounts describes.    *)

LEMMA StepOfAccounts == [AccessNext]_accessVars => [Next]_vars
<1> SUFFICES ASSUME [AccessNext]_accessVars PROVE [Next]_vars
  OBVIOUS
<1>1. ASSUME NEW c \in Connections, NEW who \in Credentials, ServeUnchanged(c, who)
      PROVE  UNCHANGED vars
  BY <1>1 DEF ServeUnchanged
<1>2. ASSUME NEW c \in Connections, NEW who \in Credentials,
             NEW u \in Users, NEW password \in Passwords,
             Post(c, who, u, password) \/ Patch(c, who, u, password)
      PROVE  Next
  BY <1>2 DEF Post, Patch, Next
<1>3. ASSUME NEW c \in Connections, NEW who \in Credentials, NEW u \in Users, Delete(c, who, u)
      PROVE  Next
  BY <1>3 DEF Delete, Next
<1>4. ASSUME NEW c \in Connections, NEW who \in Credentials, NEW order \in Orders \cup {NONE},
             PutOverride(c, who, order)
      PROVE  UNCHANGED vars
  BY <1>4 DEF PutOverride
<1>5. ASSUME NEW c \in Connections, Close(c)
      PROVE  UNCHANGED vars
  BY <1>5 DEF Close
<1>6. CASE Answer
  BY <1>6 DEF Answer, Next
<1>7. CASE StoreOverride
  BY <1>7 DEF StoreOverride
<1>8. CASE LosePower
  BY <1>8 DEF LosePower, Next
<1>9. CASE LoadAccounts
  BY <1>9 DEF LoadAccounts, Next
<1>10. CASE LoadOverride
  BY <1>10 DEF LoadOverride, Next
<1>11. CASE UNCHANGED accessVars
  BY <1>11 DEF accessVars
<1> QED
  BY <1>1, <1>2, <1>3, <1>4, <1>5, <1>6, <1>7, <1>8, <1>9, <1>10, <1>11 DEF AccessNext

\* The accounts behind the server behave as module Accounts says, so that what
\* holds of it holds here.
THEOREM AccessRefinesAccounts == AccessSpec => Spec
<1>1. AccessInit => Init
  BY DEF AccessInit
<1> QED BY <1>1, StepOfAccounts, PTL DEF AccessSpec, Spec

\* In particular the accounts are still a durable book that always fits and
\* always has the administrator's.
THEOREM GuardedAccountsSafe == AccessSpec => [](TypeOK /\ BootFits /\ AdminKept) /\ ImplementsBook
BY AccessRefinesAccounts, TypeCorrect, BootAlwaysFits, AdminIsKept, BookRefined, PTL

-----------------------------------------------------------------------------
(* The types, and the override. *)

\* What is in memory is what is stored, unless a boot has not read it yet or a
\* request has not stored it yet; a boot has nothing to store.
OverrideInv ==
    /\ AccessTypeOK
    /\ OverrideDurable
    /\ forcing => phase = "running" /\ op = "idle"

\* A request leaves a context in its connection.
LEMMA IdentifiedType ==
    ASSUME AccessTypeOK, NEW c \in Connections, NEW who \in Credentials
    PROVE  Identified(c, who) \in Context
<1>1. InitIfNeeded(c) \in Context
  BY DEF AccessTypeOK, InitIfNeeded, Context
<1> QED BY <1>1 DEF Identified, Context, Credentials

LEMMA OverrideKept == OverrideInv /\ [AccessNext]_accessVars => OverrideInv'
<1> SUFFICES ASSUME OverrideInv, [AccessNext]_accessVars PROVE OverrideInv'
  OBVIOUS
<1> USE DEF OverrideInv, OverrideDurable, AccessTypeOK
<1>1. ASSUME NEW c \in Connections, NEW who \in Credentials, ServeUnchanged(c, who)
      PROVE  OverrideInv'
  BY <1>1, IdentifiedType DEF ServeUnchanged, overrideVars, vars
<1>2. ASSUME NEW c \in Connections, NEW who \in Credentials,
             NEW u \in Users, NEW password \in Passwords,
             Post(c, who, u, password) \/ Patch(c, who, u, password)
      PROVE  OverrideInv'
  BY <1>2, IdentifiedType DEF Post, Patch, Handed, PostAccount, PatchAccount, overrideVars
<1>3. ASSUME NEW c \in Connections, NEW who \in Credentials, NEW u \in Users, Delete(c, who, u)
      PROVE  OverrideInv'
  BY <1>3, IdentifiedType DEF Delete, Handed, DeleteAccount, overrideVars
<1>4. ASSUME NEW c \in Connections, NEW who \in Credentials, NEW order \in Orders \cup {NONE},
             PutOverride(c, who, order)
      PROVE  OverrideInv'
  BY <1>4, IdentifiedType DEF PutOverride, Handed, Idle, vars
<1>5. ASSUME NEW c \in Connections, Close(c)
      PROVE  OverrideInv'
  BY <1>5 DEF Close, overrideVars, vars
<1>6. CASE Answer
  BY <1>6 DEF Answer, StoreAccount, ForgetAccount, overrideVars
<1>7. CASE StoreOverride
  BY <1>7 DEF StoreOverride, vars
<1>8. CASE LosePower
  BY <1>8 DEF LosePower, Restart
<1>9. CASE LoadAccounts
  BY <1>9 DEF LoadAccounts, CreateAdmin, LoadAccount, guardVars, overrideVars
<1>10. CASE LoadOverride
  BY <1>10 DEF LoadOverride, Loaded, guardVars
<1>11. CASE UNCHANGED accessVars
  BY <1>11 DEF accessVars, guardVars, overrideVars, vars
<1> QED
  BY <1>1, <1>2, <1>3, <1>4, <1>5, <1>6, <1>7, <1>8, <1>9, <1>10, <1>11 DEF AccessNext

LEMMA OverrideInvariant == AccessSpec => []OverrideInv
<1>1. AccessInit => OverrideInv
  BY DEF AccessInit, Init, OverrideInv, OverrideDurable, AccessTypeOK
<1> QED BY <1>1, OverrideKept, PTL DEF AccessSpec

\* The contexts of connections, the override and its image in NVS keep their types,
\* whoever is authenticated and wherever power is lost.
THEOREM AccessTypeCorrect == AccessSpec => []AccessTypeOK
<1>1. OverrideInv => AccessTypeOK
  BY DEF OverrideInv
<1> QED BY <1>1, OverrideInvariant, PTL

\* Between requests the override in memory is the one the next boot loads.
THEOREM OverrideSurvives == AccessSpec => []OverrideDurable
<1>1. OverrideInv => OverrideDurable
  BY DEF OverrideInv
<1> QED BY <1>1, OverrideInvariant, PTL

-----------------------------------------------------------------------------
(* Who may change what. *)

\* The rights of a request that is handed to a handler are those of its author.
LEMMA RightsOfAuthor ==
    ASSUME NEW c \in Connections, NEW who \in Credentials, Handed(c, who)
    PROVE  /\ PasswordVerified(author')
           /\ IsAdmin(Identified(c, who)) => author'.user = Admin
           /\ \A u \in Users : IsAdminOrSelf(Identified(c, who), u) =>
                 author'.user = Admin \/ author'.user = u
<1>1. author' = who /\ PasswordVerified(who)
  BY DEF Handed, Authenticated
<1>2. PasswordVerified(author')
  <2>1. PICK i \in Entries : Holds(i, who.user) /\ accounts[i].password = who.password
    BY <1>1 DEF PasswordVerified
  <2>2. Holds(i, author'.user) /\ accounts[i].password = author'.password
    BY <1>1, <2>1 DEF Holds
  <2> QED BY <2>2 DEF PasswordVerified
<1>3. Listed(who.user)
  BY <1>1 DEF PasswordVerified, Listed
<1>4. Identified(c, who) = [user |-> who.user, admin |-> who.user = Admin]
  BY <1>3 DEF Identified
<1>5. Identified(c, who).user = who.user /\ Identified(c, who).admin = (who.user = Admin)
  BY <1>4
<1> QED BY <1>1, <1>2, <1>5 DEF IsAdmin, IsAdminOrSelf

\* A request to create or patch an account changes no other.
LEMMA BegunChange ==
    ASSUME IInv, IInv', NEW u \in Users, NEW password \in Passwords,
           PostAccount(u, password) \/ PatchAccount(u, password),
           NEW v \in Users, Changes(v)
    PROVE  v = u
<1>1. /\ op = "idle" /\ phase = "running"
      /\ op' = "store" /\ target' = u /\ nvs' = nvs
  BY DEF PostAccount, PatchAccount, Idle
<1>2. BookFacts /\ BookFacts'
  BY BookIs, PTL
<1>3. Accepted = nvs
  BY <1>1, <1>2 DEF BookFacts, Book
<1>4. Accepted' = [nvs EXCEPT ![u] = Accepted'[u]]
  BY <1>1, <1>2 DEF BookFacts, Book
<1>5. nvs \in [Users -> Passwords \cup {NULL}]
  BY DEF IInv, TypeOK
<1> QED BY <1>1, <1>3, <1>4, <1>5 DEF Changes

\* What a step may change, as ChangesAuthorised says.
Authorised ==
    /\ override' # override => PasswordVerified(author')
    /\ \A u \in Users : Changes(u) =>
          /\ PasswordVerified(author')
          /\ author'.user = Admin \/ author'.user = u

LEMMA UnchangedAuthorised ==
    ASSUME UNCHANGED vars, UNCHANGED override \/ PasswordVerified(author')
    PROVE  Authorised
<1>1. Accepted' = Accepted /\ nvs' = nvs
  BY DEF vars, Accepted, Listed, Holds
<1> QED BY <1>1 DEF Authorised, Changes

LEMMA StepAuthorised ==
    ASSUME IInv, IInv', [AccessNext]_accessVars, Idle, ~forcing, phase' = "running"
    PROVE  Authorised
<1>1. ASSUME NEW c \in Connections, NEW who \in Credentials, ServeUnchanged(c, who)
      PROVE  Authorised
  BY <1>1, UnchangedAuthorised DEF ServeUnchanged, overrideVars
<1>2. ASSUME NEW c \in Connections, NEW who \in Credentials,
             NEW u \in Users, NEW password \in Passwords, Post(c, who, u, password)
      PROVE  Authorised
  <2>1. Handed(c, who) /\ IsAdmin(Identified(c, who)) /\ UNCHANGED override
    BY <1>2 DEF Post, overrideVars
  <2> QED BY <2>1, RightsOfAuthor DEF Authorised
<1>3. ASSUME NEW c \in Connections, NEW who \in Credentials,
             NEW u \in Users, NEW password \in Passwords, Patch(c, who, u, password)
      PROVE  Authorised
  <2>1. /\ Handed(c, who) /\ IsAdminOrSelf(Identified(c, who), u)
        /\ PatchAccount(u, password) /\ UNCHANGED override
    BY <1>3 DEF Patch, overrideVars
  <2>2. \A v \in Users : Changes(v) => v = u
    BY <2>1, BegunChange
  <2> QED BY <2>1, <2>2, RightsOfAuthor DEF Authorised
<1>4. ASSUME NEW c \in Connections, NEW who \in Credentials, NEW u \in Users, Delete(c, who, u)
      PROVE  Authorised
  <2>1. /\ Handed(c, who) /\ IsAdminOrSelf(Identified(c, who), u)
        /\ nvs' = [nvs EXCEPT ![u] = NULL] /\ UNCHANGED <<accounts, override>>
    BY <1>4 DEF Delete, DeleteAccount, overrideVars
  <2>2. Accepted' = Accepted
    BY <2>1 DEF Accepted, Listed, Holds
  <2>3. \A v \in Users : Changes(v) => v = u
    BY <2>1, <2>2 DEF Changes, IInv, TypeOK
  <2> QED BY <2>1, <2>3, RightsOfAuthor DEF Authorised
<1>5. ASSUME NEW c \in Connections, NEW who \in Credentials, NEW order \in Orders \cup {NONE},
             PutOverride(c, who, order)
      PROVE  Authorised
  BY <1>5, RightsOfAuthor, UnchangedAuthorised DEF PutOverride
<1>6. ASSUME NEW c \in Connections, Close(c)
      PROVE  Authorised
  BY <1>6, UnchangedAuthorised DEF Close, overrideVars
<1>7. ~Answer /\ ~StoreOverride
  BY DEF Answer, StoreAccount, ForgetAccount, StoreOverride, Idle
<1>8. ~LosePower /\ ~LoadAccounts /\ ~LoadOverride
  BY DEF LosePower, Restart, LoadAccounts, CreateAdmin, LoadAccount, LoadOverride, Loaded, Idle
<1>9. CASE UNCHANGED accessVars
  BY <1>9, UnchangedAuthorised DEF accessVars, overrideVars
<1> QED
  BY <1>1, <1>2, <1>3, <1>4, <1>5, <1>6, <1>7, <1>8, <1>9 DEF AccessNext

\* No account and no override changes but for a request with the password that
\* gives that right, whatever the connection carried before.
THEOREM ChangesAreAuthorised == AccessSpec => ChangesAuthorised
<1>1. IInv /\ IInv' /\ [AccessNext]_accessVars =>
         [Idle /\ ~forcing /\ phase' = "running" =>
            /\ override' # override => PasswordVerified(author')
            /\ \A u \in Users : Changes(u) =>
                  /\ PasswordVerified(author')
                  /\ author'.user = Admin \/ author'.user = u]_accessVars
  BY StepAuthorised DEF Authorised
<1> QED BY <1>1, AccessRefinesAccounts, Inductive, PTL DEF AccessSpec, ChangesAuthorised
-----------------------------------------------------------------------------
(* Hashed passwords. *)

\* A password hashed k times.
Times(md, salt, c, k) == [i \in 1 .. k |-> Key(md, salt)] \o <<c>>

LEMMA TimesIs ==
    ASSUME NEW md, NEW salt, NEW c, NEW k \in Nat, NEW U, Key(md, salt) \in U, c \in U
    PROVE  /\ Times(md, salt, c, k) \in Seq(U)
           /\ Len(Times(md, salt, c, k)) = k + 1
           /\ \A i \in 1 .. k : Times(md, salt, c, k)[i] = Key(md, salt)
           /\ Times(md, salt, c, k)[k + 1] = c
<1> DEFINE keys == [i \in 1 .. k |-> Key(md, salt)]
<1>1. keys \in Seq(U) /\ Len(keys) = k
  OBVIOUS
<1>2. <<c>> \in Seq(U) /\ Len(<<c>>) = 1 /\ <<c>>[1] = c
  OBVIOUS
<1>3. \A i \in 1 .. k : keys[i] = Key(md, salt)
  OBVIOUS
<1>4. Times(md, salt, c, k) = keys \o <<c>>
  BY DEF Times
<1> HIDE DEF keys
<1>5. keys \o <<c>> \in Seq(U)
  BY <1>1, <1>2
<1>6. Len(keys \o <<c>>) = k + 1
  BY <1>1, <1>2
<1>7. \A i \in 1 .. k : (keys \o <<c>>)[i] = Key(md, salt)
  BY <1>1, <1>2, <1>3
<1>8. (keys \o <<c>>)[k + 1] = c
  BY <1>1, <1>2
<1> QED
  BY <1>4, <1>5, <1>6, <1>7, <1>8

\* Each iteration puts one key in front.
LEMMA HmacOnce ==
    ASSUME NEW md, NEW salt, NEW c, NEW k \in Nat
    PROVE  Hmac(md, salt, Times(md, salt, c, k)) = Times(md, salt, c, k + 1)
<1> DEFINE U == {Key(md, salt), c}
           once == Hmac(md, salt, Times(md, salt, c, k))
           next == Times(md, salt, c, k + 1)
<1>0. Key(md, salt) \in U /\ c \in U
  OBVIOUS
<1> HIDE DEF U
<1>1. <<Key(md, salt)>> \in Seq(U) /\ Len(<<Key(md, salt)>>) = 1 /\ <<Key(md, salt)>>[1] = Key(md, salt)
  BY <1>0
<1>2. /\ Times(md, salt, c, k) \in Seq(U) /\ Len(Times(md, salt, c, k)) = k + 1
      /\ \A i \in 1 .. k : Times(md, salt, c, k)[i] = Key(md, salt)
      /\ Times(md, salt, c, k)[k + 1] = c
  BY <1>0, TimesIs
<1>3. /\ next \in Seq(U) /\ Len(next) = k + 2 /\ next[k + 2] = c
      /\ \A i \in 1 .. k + 1 : next[i] = Key(md, salt)
  <2> DEFINE m == k + 1
  <2>1. m \in Nat /\ m + 1 = k + 2
    OBVIOUS
  <2> HIDE DEF m
  <2>2. /\ Times(md, salt, c, m) \in Seq(U) /\ Len(Times(md, salt, c, m)) = m + 1
        /\ \A i \in 1 .. m : Times(md, salt, c, m)[i] = Key(md, salt)
        /\ Times(md, salt, c, m)[m + 1] = c
    BY <1>0, <2>1, TimesIs
  <2>3. next = Times(md, salt, c, m)
    BY DEF m
  <2> QED BY <2>1, <2>2, <2>3 DEF m
<1>4. once \in Seq(U) /\ Len(once) = k + 2
  BY <1>1, <1>2 DEF Hmac
<1>5. once[1] = Key(md, salt)
  BY <1>1, <1>2 DEF Hmac
<1>6. \A i \in 2 .. k + 2 : once[i] = Times(md, salt, c, k)[i - 1]
  BY <1>1, <1>2 DEF Hmac
<1>7. \A i \in 1 .. k + 2 : once[i] = next[i]
  <2> TAKE i \in 1 .. k + 2
  <2>1. CASE i = 1
    BY <1>3, <1>5, <2>1
  <2>2. CASE i \in 2 .. k + 1
    <3>1. i - 1 \in 1 .. k /\ i \in 1 .. k + 1
      BY <2>2
    <3> QED BY <1>2, <1>3, <1>6, <3>1
  <2>3. CASE i = k + 2
    <3>1. i - 1 = k + 1 /\ i = (k + 1) + 1 /\ i \in 2 .. k + 2
      BY <2>3
    <3> QED BY <1>2, <1>3, <1>6, <2>3, <3>1
  <2> QED BY <2>1, <2>2, <2>3
<1> HIDE DEF once, next
<1>8. once = next
  BY <1>3, <1>4, <1>7
<1> QED BY <1>8 DEF once, next

\* What the loop of hmac_md_iterations has after its i-th turn out of n.
LEMMA HmacRepeated ==
    ASSUME NEW md, NEW salt, NEW c, NEW n \in Nat \ {0}
    PROVE  HmacIterations(md, salt, <<c>>, n) = Times(md, salt, c, n)
<1> DEFINE Buffers == {"output", "dst_buf", "src_buf"}
           U == {Key(md, salt), c}
           V == [memory : [Buffers -> Seq(U)], src : Buffers, dst : Buffers]
           first == FirstHash(md, salt, <<c>>, n)
           Next2(h, i) == Rehash(md, salt, h, n - i + 1)
           step == [i \in 1 .. n - 1 |-> [h \in V |-> Next2(h, i + 1)]]
           turn == CHOOSE t : t = [i \in 1 .. n |-> IF i = 1 THEN first ELSE Next2(t[i - 1], i)]
<1>1. n - 1 \in Nat /\ n \in 1 .. n
  OBVIOUS
<1>2. Times(md, salt, c, 0) = <<c>>
  BY TimesIs DEF Times
<1>3. Hmac(md, salt, <<c>>) = Times(md, salt, c, 1)
  BY <1>2, HmacOnce, 0 \in Nat
<1>4. first \in V
  <2>1. Times(md, salt, c, 1) \in Seq(U)
    BY TimesIs, 1 \in Nat
  <2>2. Unset \in Seq(U)
    BY DEF Unset
  <2> HIDE DEF U
  <2> QED BY <1>3, <2>1, <2>2 DEF FirstHash
<1>5. \A h \in V, i \in 2 .. n : Next2(h, i) \in V
  <2>1. ASSUME NEW h \in V, NEW i \in 2 .. n PROVE Next2(h, i) \in V
    <3>1. Key(md, salt) \in U
      OBVIOUS
    <3> HIDE DEF U
    <3>2. h.memory[h.dst] \in Seq(U) /\ h.memory \in [Buffers -> Seq(U)] /\ h.src \in Buffers /\ h.dst \in Buffers
      OBVIOUS
    <3>3. Hmac(md, salt, h.memory[h.dst]) \in Seq(U)
      BY <3>1, <3>2 DEF Hmac
    <3> QED BY <3>2, <3>3 DEF Rehash
  <2> QED BY <2>1
<1>6. step \in [1 .. n - 1 -> [V -> V]]
  <2> HIDE DEF V, Next2
  <2>1. \A i \in 1 .. n - 1 : i + 1 \in 2 .. n
    OBVIOUS
  <2> QED BY <1>5, <2>1
<1>7. turn = [i \in 1 .. n |-> IF i = 1 THEN first ELSE Next2(turn[i - 1], i)]
  <2> HIDE DEF V, first, Next2
  <2>1. \A i \in 1 .. n - 1, h \in V : step[i][h] = Next2(h, i + 1)
    OBVIOUS
  <2> HIDE DEF step
  <2>2. PICK f \in [0 .. n - 1 -> V] : GoesUp(f, first, step, n - 1)
    BY <1>1, <1>4, <1>6, RecursionExists
  <2> DEFINE t == [i \in 1 .. n |-> f[i - 1]]
  <2>3. ASSUME NEW i \in 1 .. n PROVE t[i] = IF i = 1 THEN first ELSE Next2(t[i - 1], i)
    <3>1. CASE i = 1
      BY <2>2, <3>1 DEF GoesUp
    <3>2. CASE i # 1
      <4>1. i - 1 \in 1 .. n - 1 /\ (i - 1) + 1 = i /\ (i - 1) - 1 \in 0 .. n - 1 /\ i - 1 \in 1 .. n
        BY <3>2
      <4>2. f[i - 1] = step[i - 1][f[(i - 1) - 1]]
        BY <2>2, <4>1 DEF GoesUp
      <4>3. f[(i - 1) - 1] \in V
        BY <4>1
      <4>4. step[i - 1][f[(i - 1) - 1]] = Next2(f[(i - 1) - 1], i)
        BY <2>1, <4>1, <4>3
      <4>5. t[i] = f[i - 1] /\ t[i - 1] = f[(i - 1) - 1]
        BY <4>1
      <4> QED BY <3>2, <4>2, <4>4, <4>5
    <3> QED BY <3>1, <3>2
  <2>4. t = [i \in 1 .. n |-> t[i]]
    OBVIOUS
  <2> HIDE DEF t
  <2>5. t = [i \in 1 .. n |-> IF i = 1 THEN first ELSE Next2(t[i - 1], i)]
    BY <2>3, <2>4
  <2> QED BY <2>5
<1>8. HmacIterations(md, salt, <<c>>, n) = turn[n].memory["output"]
  BY DEF HmacIterations
<1> DEFINE Loop(i) == /\ turn[i] \in V
                      /\ turn[i].memory[turn[i].dst] = Times(md, salt, c, i)
                      /\ turn[i].dst = "output" <=> i = n
                      /\ i < n => turn[i].src \notin {"output", turn[i].dst}
           holds == {i \in 1 .. n : Loop(i)}
<1>9. 1 \in holds
  <2>1. turn[1] = first
    <3>1. 1 \in 1 .. n
      OBVIOUS
    <3> HIDE DEF turn, first, Next2
    <3> QED BY <1>7, <3>1
  <2>2. turn[1].dst = IF n = 1 THEN "output" ELSE "dst_buf"
    BY <2>1 DEF FirstHash
  <2>3. turn[1].src = "src_buf" /\ turn[1].memory[turn[1].dst] = Hmac(md, salt, <<c>>)
    BY <2>1 DEF FirstHash
  <2>4. turn[1] \in V
    BY <1>4, <2>1
  <2> HIDE DEF turn, first, V
  <2> QED BY <1>3, <2>2, <2>3, <2>4
<1>10. ASSUME NEW i \in 1 .. n - 1, i \in holds PROVE i + 1 \in holds
  <2> HIDE DEF turn, first
  <2>1. i + 1 \in 1 .. n /\ i + 1 \in 2 .. n /\ i \in Nat /\ i + 1 # 1 /\ (i + 1) - 1 = i /\ i # n /\ i < n
    OBVIOUS
  <2>2. turn[i + 1] = Next2(turn[i], i + 1)
    BY <1>7, <2>1
  <2> DEFINE h == turn[i]
             dst == IF i + 1 = n THEN "output" ELSE h.src
  <2>3. n - (i + 1) + 1 = 1 <=> i + 1 = n
    OBVIOUS
  <2>4. Next2(h, i + 1) = [memory |-> [h.memory EXCEPT ![dst] = Hmac(md, salt, h.memory[h.dst])],
                           src |-> h.dst, dst |-> dst]
    BY <2>3 DEF Rehash
  <2>5. /\ h \in V /\ h.memory[h.dst] = Times(md, salt, c, i)
        /\ h.dst # "output" /\ h.src # "output" /\ h.src # h.dst
    BY <1>10, <2>1
  <2>6. turn[i + 1] \in V
    <3> HIDE DEF V, Next2, h
    <3> QED BY <1>5, <2>1, <2>2, <2>5 DEF h
  <2>7. h.memory \in [Buffers -> Seq(U)] /\ dst \in Buffers
    BY <2>5
  <2>8. Hmac(md, salt, h.memory[h.dst]) = Times(md, salt, c, i + 1)
    BY <2>1, <2>5, HmacOnce
  <2>9. /\ turn[i + 1].memory[turn[i + 1].dst] = Times(md, salt, c, i + 1)
        /\ turn[i + 1].dst = dst /\ turn[i + 1].src = h.dst
    <3> HIDE DEF V, Next2, h, dst, Buffers, U
    <3> QED BY <2>2, <2>4, <2>7, <2>8 DEF h
  <2>10. Loop(i + 1)
    <3> HIDE DEF V, Next2, h
    <3> QED BY <2>1, <2>5, <2>6, <2>9
  <2> QED BY <2>1, <2>10
<1>11. n \in holds
  <2> HIDE DEF holds
  <2>1. 1 .. n \subseteq holds
    BY <1>9, <1>10, IntervalInduction
  <2> QED BY <1>1, <2>1
<1>12. Loop(n)
  BY <1>11
<1> HIDE DEF turn
<1> QED
  BY <1>8, <1>12

\* Hence a password is hashed as many times as it should be.
LEMMA HashedRepeatedlyAll ==
    ASSUME NEW c
    PROVE  IsHashedRepeatedly(c)
<1> SUFFICES ASSUME NEW md \in Digests, NEW salt \in Salts, NEW n \in 1 .. MAX_ITERATIONS
             PROVE  HmacIterations(md, salt, <<c>>, n) = [i \in 1 .. n |-> Key(md, salt)] \o <<c>>
  BY DEF IsHashedRepeatedly
<1>1. n \in Nat \ {0}
  BY PasswordAssumption
<1>2. HmacIterations(md, salt, <<c>>, n) = Times(md, salt, c, n)
  BY <1>1, HmacRepeated
<1> QED BY <1>2 DEF Times

\* Two passwords hashed as often are the same only if they were.
LEMMA TimesInjective ==
    ASSUME NEW md, NEW salt, NEW c, NEW d, NEW n \in Nat, Times(md, salt, c, n) = Times(md, salt, d, n)
    PROVE  c = d
<1> DEFINE U == {Key(md, salt), c, d}
<1>1. Key(md, salt) \in U /\ c \in U /\ d \in U
  OBVIOUS
<1> HIDE DEF U
<1>2. Times(md, salt, c, n)[n + 1] = c /\ Times(md, salt, d, n)[n + 1] = d
  BY <1>1, TimesIs
<1> QED BY <1>2

\* What is stored opens for what was hashed and for nothing else, or not at all.
LEMMA KeptAll ==
    ASSUME NEW c, NEW others, c \in others
    PROVE  IsKept(c, others)
<1> SUFFICES ASSUME NEW writer \in Builds, NEW reader \in Builds, NEW salt \in Salts, writer.iterations > 0
             PROVE  LET pwd == PasswordFromString(reader, PasswordToString(writer, PasswordInit(writer, salt, c)))
                    IN IF writer.md \in reader.known
                       THEN {tried \in others : PasswordVerify(pwd, tried)} = {c}
                       ELSE pwd = NO_PASSWORD
  BY DEF IsKept
<1> DEFINE md == writer.md
           n == writer.iterations
           hash == Times(md, salt, c, n)
           str == <<md, n, salt, hash>>
           pwd == PasswordFromString(reader, PasswordToString(writer, PasswordInit(writer, salt, c)))
<1>1. n \in Nat \ {0} /\ n \in Nat
  BY PasswordAssumption DEF Builds
<1>2. HashLength(hash) = Size[md]
  <2> DEFINE U == {Key(md, salt), c}
  <2>1. Key(md, salt) \in U /\ c \in U /\ 1 \in 1 .. n
    BY <1>1
  <2> HIDE DEF U, n, md
  <2>2. hash[1] = Key(md, salt)
    BY <1>1, <2>1, TimesIs
  <2> QED BY <2>2 DEF HashLength, Key
<1>3. PasswordInit(writer, salt, c) = [md |-> md, iterations |-> n, salt |-> salt, hash |-> hash]
  BY <1>1, HmacRepeated DEF PasswordInit
<1>4. PasswordToString(writer, PasswordInit(writer, salt, c)) = str
  BY <1>3 DEF PasswordToString
<1> HIDE DEF md, n, hash
<1>5. pwd = IF md \in reader.known THEN [md |-> md, iterations |-> n, salt |-> salt, hash |-> hash]
                                   ELSE NO_PASSWORD
  BY <1>1, <1>2, <1>4 DEF PasswordFromString
<1>6. CASE md \in reader.known
  <2>1. pwd.md = md /\ pwd.iterations = n /\ pwd.salt = salt /\ pwd.hash = hash
    BY <1>5, <1>6
  <2> HIDE DEF pwd
  <2>2. ASSUME NEW tried \in others PROVE PasswordVerify(pwd, tried) <=> tried = c
    <3>1. PasswordVerify(pwd, tried) <=> hash = Times(md, salt, tried, n)
      BY <1>1, <2>1, HmacRepeated DEF PasswordVerify
    <3> QED BY <1>1, <3>1, TimesInjective DEF hash
  <2>3. {tried \in others : PasswordVerify(pwd, tried)} = {c}
    BY <2>2
  <2> QED BY <1>6, <2>3 DEF pwd, md
<1>7. CASE md \notin reader.known
  BY <1>5, <1>7 DEF md
<1> QED BY <1>6, <1>7

LEMMA PasswordsKept == TypeOK => AccountsHashed /\ AccountsOpen
<1> SUFFICES ASSUME TypeOK, NEW i \in Entries, accounts[i] # NULL
             PROVE  HashedRepeatedly[accounts[i].password] /\ Kept[accounts[i].password]
  BY DEF AccountsHashed, AccountsOpen
<1>1. accounts[i].password \in Passwords
  BY DEF TypeOK, Account
<1>2. HashedRepeatedly[accounts[i].password]
  BY <1>1, HashedRepeatedlyAll DEF HashedRepeatedly
<1>3. Kept[accounts[i].password]
  BY <1>1, KeptAll DEF Kept
<1> QED BY <1>2, <1>3

\* Whatever the number of iterations, with the buffers swapped at each, the
\* password of every account is hashed that many times.
THEOREM AccountsAreHashed == AccessSpec => []AccountsHashed
BY PasswordsKept, AccessRefinesAccounts, TypeCorrect, PTL

\* Whatever firmware reads it after an update, the password of every account opens
\* it and is the only one to.
THEOREM AccountsStayOpen == AccessSpec => []AccountsOpen
BY PasswordsKept, AccessRefinesAccounts, TypeCorrect, PTL
=============================================================================
