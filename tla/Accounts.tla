------------------------------ MODULE Accounts ----------------------------
(***************************************************************************)
(* Registration and login (initcontrol.cpp) over the table User, which has *)
(* no key.  A registration is two statements, a query and an insertion,    *)
(* outside of any transaction, and handlers on several threads interleave  *)
(* between them.  The rows of User are kept in the order of their          *)
(* insertion, in which a query returns them.  The id of a query is not in  *)
(* quotes, so that the database compares it with the column as a number:   *)
(* different ids, '1' and '01', may find each other's rows.                *)
(***************************************************************************)
EXTENDS Integers, FiniteSets, Sequences

CONSTANTS
  Ids, Passwords,
  Number,            \* the number that an id stands for in a comparison
  Handlers,          \* threads that serve requests
  MayFail            \* TRUE if statements may fail

ASSUME AccountsAssumption ==
  IsFiniteSet(Handlers) /\ MayFail \in BOOLEAN /\ Number \in [Ids -> Nat]

VARIABLES
  User,        \* rows of the table User
  req,         \* the account that a handler is about to insert, or None
  registered,  \* history: accounts whose registration was confirmed
  welcomed     \* history: accounts that have logged in

vars == <<User, req, registered, welcomed>>

Accounts == [id : Ids, pw : Passwords]

None == [id |-> "none"]

TypeOK ==
  /\ User \in Seq(Accounts)
  /\ req \in [Handlers -> Accounts \cup {None}]
  /\ registered \subseteq Accounts
  /\ welcomed \subseteq Accounts

Init ==
  /\ User = <<>>
  /\ req = [h \in Handlers |-> None]
  /\ registered = {} /\ welcomed = {}

\* where id = ..., without quotes.
RowsOf(id) == {i \in DOMAIN User : Number[User[i].id] = Number[id]}

MutNotTaken(a) == \A i \in DOMAIN User : User[i].id # a.id

\* select id from User where id = ... returns no row.
NotTaken(a) == RowsOf(a.id) = {}

\* If the id is taken, or the query fails, the answer is no and nothing changes.
RegisterCheck(h, a) ==
  /\ req[h] = None
  /\ NotTaken(a)
  /\ req' = [req EXCEPT ![h] = a]
  /\ UNCHANGED <<User, registered, welcomed>>

MutInserted(a) == <<a>> \o User

Inserted(a) == Append(User, a)

RegisterInsert(h) ==
  /\ req[h] # None
  /\ \/ /\ User' = Inserted(req[h])
        /\ registered' = registered \cup {req[h]}
     \/ /\ MayFail
        /\ UNCHANGED <<User, registered>>
  /\ req' = [req EXCEPT ![h] = None]
  /\ UNCHANGED welcomed

\* The first row of the result has the password.
PasswordRight(a) ==
  \E i \in RowsOf(a.id) : (\A j \in RowsOf(a.id) : i <= j) /\ User[i].pw = a.pw

\* One query.  If it fails or the password is wrong nothing changes.
Login(a) ==
  /\ PasswordRight(a)
  /\ welcomed' = welcomed \cup {a}
  /\ UNCHANGED <<User, req, registered>>

---------------------------------------------------------------------------
Next ==
  \/ \E h \in Handlers : RegisterInsert(h) \/ \E a \in Accounts : RegisterCheck(h, a)
  \/ \E a \in Accounts : Login(a)

Spec == Init /\ [][Next]_vars

---------------------------------------------------------------------------
\* A login that was once granted is granted for ever, and with the password of an
\* account of the same number that was confirmed when it was registered: registrations
\* that race with each other never displace the first one.
LoginStaysValid ==
  \A a \in welcomed :
    /\ PasswordRight(a)
    /\ \E b \in registered : Number[b.id] = Number[a.id] /\ b.pw = a.pw

Pending(id) == {h \in Handlers : req[h] # None /\ Number[req[h].id] = Number[id]}

\* Duplicates come from the window between the two statements only: once a number has
\* a row, its rows and the insertions still under way are no more than the handlers,
\* in whatever ways the number is written.
DuplicatesOnlyFromRace ==
  \A id \in Ids : RowsOf(id) # {} =>
    Cardinality(RowsOf(id)) + Cardinality(Pending(id)) <= Cardinality(Handlers)
===========================================================================
