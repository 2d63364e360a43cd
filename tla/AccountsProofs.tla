--------------------------- MODULE AccountsProofs -------------------------
(***************************************************************************)
(* Proofs about Accounts: for any number of handlers, ids and passwords,   *)
(* whether statements may fail or not.                                     *)
(***************************************************************************)
EXTENDS Accounts, FiniteSetTheorems, TLAPS

\* Every row was confirmed to its client.
RowsConfirmed == \A i \in DOMAIN User : User[i] \in registered

AccountsInv == TypeOK /\ RowsConfirmed /\ LoginStaysValid /\ DuplicatesOnlyFromRace

\* A request under way is told apart from none.
LEMMA NoneIsNoAccount == None \notin Accounts
<1>1. ASSUME None \in Accounts PROVE FALSE
  <2>1. DOMAIN None = {"id", "pw"}
    BY <1>1 DEF Accounts
  <2>2. DOMAIN None = {"id"}
    BY DEF None
  <2> QED
    BY <2>1, <2>2
<1> QED
  BY <1>1

\* The rows and the pending insertions of an id are finite sets.
LEMMA FiniteCounts ==
  ASSUME TypeOK, NEW id
  PROVE  /\ IsFiniteSet(RowsOf(id)) /\ Cardinality(RowsOf(id)) \in Nat
         /\ IsFiniteSet(Pending(id)) /\ Cardinality(Pending(id)) \in Nat
         /\ Cardinality(Pending(id)) <= Cardinality(Handlers)
         /\ Cardinality(Handlers) \in Nat
<1>1. IsFiniteSet(1..Len(User)) /\ RowsOf(id) \in SUBSET (1..Len(User))
  BY FS_Interval DEF TypeOK, RowsOf
<1>2. IsFiniteSet(RowsOf(id))
  BY <1>1, FS_Subset
<1>3. Pending(id) \in SUBSET Handlers
  BY DEF Pending
<1>4. IsFiniteSet(Pending(id)) /\ Cardinality(Pending(id)) <= Cardinality(Handlers)
  BY <1>3, FS_Subset, AccountsAssumption
<1> QED
  BY <1>2, <1>4, FS_CardinalityType, AccountsAssumption

LEMMA AccountsInit == Init => AccountsInv
<1> SUFFICES ASSUME Init PROVE AccountsInv
  OBVIOUS
<1>1. TypeOK
  BY DEF Init, TypeOK
<1>2. DOMAIN User = {} /\ welcomed = {}
  BY DEF Init
<1>3. RowsConfirmed /\ LoginStaysValid /\ DuplicatesOnlyFromRace
  BY <1>2 DEF RowsConfirmed, LoginStaysValid, DuplicatesOnlyFromRace, RowsOf
<1> QED
  BY <1>1, <1>3 DEF AccountsInv

\* Requests of other handlers and rows stay: the check of a registration.
LEMMA CheckKeeps ==
  ASSUME AccountsInv, NEW h \in Handlers, NEW a \in Accounts, RegisterCheck(h, a)
  PROVE  AccountsInv'
<1> USE DEF AccountsInv
<1>1. /\ req[h] = None /\ RowsOf(a.id) = {}
      /\ req' = [req EXCEPT ![h] = a]
      /\ UNCHANGED <<User, registered, welcomed>>
  BY DEF RegisterCheck, NotTaken
<1>2. TypeOK'
  BY <1>1 DEF TypeOK
<1>3. RowsConfirmed' /\ LoginStaysValid'
  BY <1>1 DEF RowsConfirmed, LoginStaysValid, PasswordRight, RowsOf
<1>4. ASSUME NEW id \in Ids, RowsOf(id)' # {}
      PROVE  (Cardinality(RowsOf(id)) + Cardinality(Pending(id)) <= Cardinality(Handlers))'
  <2>1. RowsOf(id)' = RowsOf(id)
    BY <1>1 DEF RowsOf
  <2>2. Number[id] # Number[a.id]
    BY <1>1, <1>4, <2>1 DEF RowsOf
  <2>3. Pending(id)' = Pending(id)
    BY <1>1, <2>2, NoneIsNoAccount DEF Pending, TypeOK
  <2> QED
    BY <1>4, <2>1, <2>3 DEF DuplicatesOnlyFromRace
<1> QED
  BY <1>2, <1>3, <1>4 DEF DuplicatesOnlyFromRace

\* An insertion goes to the end of the table: no row changes its place.
LEMMA InsertKeeps ==
  ASSUME AccountsInv, NEW h \in Handlers, RegisterInsert(h)
  PROVE  AccountsInv'
<1> USE DEF AccountsInv
<1> DEFINE a == req[h]
<1>1. /\ a # None /\ a \in Accounts /\ a.id \in Ids
      /\ req' = [req EXCEPT ![h] = None] /\ welcomed' = welcomed
      /\ User \in Seq(Accounts)
  BY DEF RegisterInsert, TypeOK, Accounts
<1>2. \A id : Pending(id)' = IF Number[id] = Number[a.id] THEN Pending(id) \ {h} ELSE Pending(id)
  BY <1>1 DEF Pending, TypeOK
<1>3. \A id : Number[id] = Number[a.id] => h \in Pending(id)
  BY <1>1 DEF Pending
<1>4. ASSUME NEW id
      PROVE  Cardinality(Pending(id)') =
               IF Number[id] = Number[a.id] THEN Cardinality(Pending(id)) - 1 ELSE Cardinality(Pending(id))
  BY <1>2, <1>3, FiniteCounts, FS_RemoveElement
<1>5. CASE UNCHANGED <<User, registered>>
  <2>1. TypeOK' /\ RowsConfirmed' /\ LoginStaysValid'
    BY <1>1, <1>5 DEF TypeOK, RowsConfirmed, LoginStaysValid, PasswordRight, RowsOf
  <2>2. \A id : RowsOf(id)' = RowsOf(id)
    BY <1>5 DEF RowsOf
  <2>3. DuplicatesOnlyFromRace'
    BY <2>2, <1>4, FiniteCounts DEF DuplicatesOnlyFromRace
  <2> QED
    BY <2>1, <2>3
<1>6. CASE User' = Append(User, a) /\ registered' = registered \cup {a}
  <2> DEFINE n == Len(User) + 1
  <2>1. /\ User' \in Seq(Accounts) /\ n \in Nat /\ DOMAIN User = 1..Len(User)
        /\ DOMAIN User' = 1..n /\ User'[n] = a
        /\ \A i \in 1..Len(User) : User'[i] = User[i] /\ i < n /\ i \in 1..n /\ i \in Nat
        /\ \A i \in 1..n : i = n \/ i \in 1..Len(User)
        /\ n \notin 1..Len(User)
    BY <1>1, <1>6
  <2>2. TypeOK' /\ RowsConfirmed'
    BY <1>1, <1>6, <2>1 DEF TypeOK, RowsConfirmed
  <2>3. \A id : RowsOf(id)' = IF Number[id] = Number[a.id] THEN RowsOf(id) \cup {n} ELSE RowsOf(id)
    BY <2>1 DEF RowsOf
  <2>4. \A b \in welcomed : PasswordRight(b)'
    <3> SUFFICES ASSUME NEW b \in welcomed PROVE PasswordRight(b)'
      OBVIOUS
    <3>1. PICK i \in RowsOf(b.id) : (\A j \in RowsOf(b.id) : i <= j) /\ User[i].pw = b.pw
      BY DEF LoginStaysValid, PasswordRight
    <3>2. i \in 1..Len(User) /\ i <= n /\ User'[i] = User[i]
      BY <3>1, <2>1 DEF RowsOf
    <3>3. i \in RowsOf(b.id)' /\ \A j \in RowsOf(b.id)' : i <= j
      BY <3>1, <3>2, <2>3
    <3> QED
      BY <3>1, <3>2, <3>3 DEF PasswordRight
  <2>5. LoginStaysValid'
    BY <1>1, <1>6, <2>4 DEF LoginStaysValid
  <2>6. ASSUME NEW id \in Ids, RowsOf(id)' # {}
        PROVE  Cardinality(RowsOf(id)') + Cardinality(Pending(id)') <= Cardinality(Handlers)
    <3>1. CASE Number[id] # Number[a.id]
      BY <3>1, <2>3, <2>6, <1>4 DEF DuplicatesOnlyFromRace
    <3>2. CASE Number[id] = Number[a.id]
      <4>1. n \notin RowsOf(id)
        BY <2>1 DEF RowsOf
      <4>2. Cardinality(RowsOf(id)') = Cardinality(RowsOf(id)) + 1
        BY <3>2, <4>1, <2>3, FiniteCounts, FS_AddElement
      <4>3. RowsOf(id) = {} => Cardinality(RowsOf(id)) = 0
        BY FS_EmptySet
      <4> QED
        BY <3>2, <4>2, <4>3, <1>4, FiniteCounts DEF DuplicatesOnlyFromRace
    <3> QED
      BY <3>1, <3>2
  <2> QED
    BY <2>2, <2>5, <2>6 DEF DuplicatesOnlyFromRace
<1> QED
  BY <1>5, <1>6 DEF RegisterInsert, Inserted

\* A login needs the password of a confirmed row.
LEMMA LoginKeeps ==
  ASSUME AccountsInv, NEW a \in Accounts, Login(a)
  PROVE  AccountsInv'
<1> USE DEF AccountsInv
<1>1. /\ PasswordRight(a) /\ welcomed' = welcomed \cup {a}
      /\ UNCHANGED <<User, req, registered>>
  BY DEF Login
<1>2. PICK i \in DOMAIN User : Number[User[i].id] = Number[a.id] /\ User[i].pw = a.pw
  BY <1>1 DEF PasswordRight, RowsOf
<1>3. \E b \in registered : Number[b.id] = Number[a.id] /\ b.pw = a.pw
  BY <1>2 DEF RowsConfirmed
<1>4. \A b : PasswordRight(b)' = PasswordRight(b)
  BY <1>1 DEF PasswordRight, RowsOf
<1>5. TypeOK' /\ RowsConfirmed' /\ LoginStaysValid'
  BY <1>1, <1>3, <1>4 DEF TypeOK, RowsConfirmed, LoginStaysValid
<1>6. DuplicatesOnlyFromRace'
  BY <1>1 DEF DuplicatesOnlyFromRace, RowsOf, Pending
<1> QED
  BY <1>5, <1>6

LEMMA AccountsInvariance == Spec => []AccountsInv
<1>1. ASSUME AccountsInv, [Next]_vars PROVE AccountsInv'
  <2>1. CASE UNCHANGED vars
    BY <1>1, <2>1 DEF vars, AccountsInv, TypeOK, RowsConfirmed, LoginStaysValid, PasswordRight,
                      DuplicatesOnlyFromRace, RowsOf, Pending
  <2> QED
    BY <1>1, <2>1, CheckKeeps, InsertKeeps, LoginKeeps DEF Next
<1> QED
  BY <1>1, AccountsInit, PTL DEF Spec

\* The table and the histories keep their types, whatever the interleaving.
THEOREM AccountsTypeCorrect == Spec => []TypeOK
BY AccountsInvariance, PTL DEF AccountsInv

\* Who has once logged in is let in for ever, with the password of a confirmed account
\* of that number: a registration that slips through the check of do_register never
\* displaces the account.
THEOREM AccountsLoginStaysValid == Spec => []LoginStaysValid
BY AccountsInvariance, PTL DEF AccountsInv

\* A number has no more rows than there are threads that can be between the two
\* statements of do_register at once.
THEOREM AccountsDuplicatesOnlyFromRace == Spec => []DuplicatesOnlyFromRace
BY AccountsInvariance, PTL DEF AccountsInv
===========================================================================
