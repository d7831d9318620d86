------------------------------ MODULE Transactions ------------------------------
(***************************************************************************)
(* The transactions of ChangeRole, Delete and VerifyEmail statement by     *)
(* statement, with the row locks MySQL gives them.  Identity takes each of *)
(* them as one atomic step; ImplementsAccounts checks that it may.         *)
(*                                                                         *)
(* A statement FOR UPDATE waits for the locks of other transactions on the *)
(* rows it reads and keeps its own until the transaction ends.  Nothing    *)
(* indexes users.role, so the scan for admins locks every user, in the     *)
(* order of the ids.  InnoDB breaks a cycle of waits by rolling one        *)
(* transaction back.  Updates become visible at the commit.                *)
(***************************************************************************)
EXTENDS Integers, FiniteSets

CONSTANTS
  Clients,    \* connections: how many transactions are open at once
  MaxUsers,   \* number of users at first; none is created later
  Newcomers,  \* those of them who have not verified their address yet
  Bootstrap,  \* the user who registered the bootstrap address, 0 for nobody
  MaxVersion  \* bound on token versions

ASSUME UserAssumption ==
  MaxUsers \in Nat /\ Bootstrap \in 0..MaxUsers /\ Newcomers \subseteq 1..MaxUsers
ASSUME VersionAssumption == MaxVersion \in Nat \ {0}

VARIABLES
  users,    \* committed rows of users, by id; the token of an unverified one waits
  tx,       \* the open transaction of each client
  welcomed  \* history: welcome messages owed to each user

vars == <<users, tx, welcomed>>

Ids == 1..MaxUsers
Roles == {"user", "admin"}
Account == [role : Roles, verified : BOOLEAN, version : Nat \ {0}]
Absent == [role |-> "none"]

UserRow(id) == <<"user", id>>
TokenRow(id) == <<"token", id>>
Rows == {"user", "token"} \X Ids

\* `held`: rows locked so far; `none`: the plain count found no admin.
Kinds == {"none", "role", "delete", "verify"}
Statements == {"idle", "actor", "token", "target", "admins", "count", "cascade", "write"}
NoTx == [kind |-> "none", at |-> "idle", actor |-> 0, id |-> 0, role |-> "user",
         held |-> {}, none |-> FALSE]

-----------------------------------------------------------------------------
Exists(id) == id \in Ids /\ users[id] # Absent
Present == {id \in Ids : users[id] # Absent}
IsAdmin(id) == Exists(id) /\ users[id].role = "admin"
Admins == {id \in Ids : IsAdmin(id)}
Unverified(id) == Exists(id) /\ ~users[id].verified

\* Faulty: the admins are found by a plain read.
NothingToLock(c) == {}

\* What is left of the locking scan WHERE role = 'admin'.
Unscanned(c) == {id \in Present : UserRow(id) \notin tx[c].held}

\* Faulty: the actor is found by a plain read.
ActorUnlocked(c) == {}

ActorRow(c) == {UserRow(tx[c].actor)}

\* The row the current statement locks next, if any.
Locks(c) ==
  CASE tx[c].at = "actor" -> ActorRow(c)
    [] tx[c].at = "target" -> {UserRow(tx[c].id)}
    [] tx[c].at = "admins" ->
         {UserRow(id) : id \in {i \in Unscanned(c) : \A o \in Unscanned(c) : i <= o}}
    [] tx[c].at \in {"token", "cascade"} -> {TokenRow(tx[c].id)}
    [] OTHER -> {}

\* Faulty: the statements do not lock.
NoWait(c) == TRUE

Free(c) == \A d \in Clients \ {c} : tx[d].held \cap Locks(c) = {}

WaitsFor(c, d) == c # d /\ tx[d].held \cap Locks(c) # {}

\* A set of transactions each waiting for one of the set and awaited by one.
InDeadlock(c) ==
  \E S \in SUBSET Clients :
    /\ c \in S
    /\ \A d \in S : (\E e \in S : WaitsFor(d, e)) /\ (\E e \in S : WaitsFor(e, d))

\* Faulty: an early return that forgets the transaction it began.
AbandonTx(c) == [NoTx EXCEPT !.held = tx[c].held]

\* A returned error rolls back and releases the locks.
RolledBack(c) == NoTx

Demotes(c) ==
  LET t == tx[c] IN IsAdmin(t.id) /\ (t.kind = "delete" \/ (t.kind = "role" /\ t.role # "admin"))

-----------------------------------------------------------------------------
\* Any roles, admins being verified, as registrations and earlier calls left them.
Init ==
  /\ \E roles \in [Ids \ Newcomers -> Roles] :
       users = [id \in Ids |->
         IF id \in Newcomers THEN [role |-> "user", verified |-> FALSE, version |-> 1]
         ELSE [role |-> roles[id], verified |-> TRUE, version |-> 1]]
  /\ tx = [c \in Clients |-> NoTx]
  /\ welcomed = [id \in Ids |-> IF id \in Newcomers THEN 0 ELSE 1]

Begins(c, t) == tx[c] = NoTx /\ tx' = [tx EXCEPT ![c] = t] /\ UNCHANGED <<users, welcomed>>
Rollback(c) == tx' = [tx EXCEPT ![c] = RolledBack(c)] /\ UNCHANGED <<users, welcomed>>
Commits(c) == tx' = [tx EXCEPT ![c] = NoTx]

\* The statement of c gets its lock, if it needs one, and the next one follows.
Locked(c, next) ==
  /\ Free(c)
  /\ tx' = [tx EXCEPT ![c].held = @ \cup Locks(c), ![c].at = next]
  /\ UNCHANGED <<users, welcomed>>

\* The services' checks, before the transaction.
BeginChangeRole(c, actor, id, role) ==
  /\ actor # id /\ IsAdmin(actor) /\ Exists(id) /\ users[id].version < MaxVersion
  /\ role = "admin" => users[id].verified
  /\ Begins(c, [NoTx EXCEPT !.kind = "role", !.at = "actor", !.actor = actor,
                            !.id = id, !.role = role])

\* By an admin, or by the user.
BeginDelete(c, actor, id) ==
  /\ Exists(id)
  /\ IF actor = id THEN users[id].verified ELSE IsAdmin(actor)
  /\ Begins(c, [NoTx EXCEPT !.kind = "delete", !.at = "target", !.actor = actor, !.id = id])

BeginVerify(c, id) ==
  /\ Unverified(id)
  /\ Begins(c, [NoTx EXCEPT !.kind = "verify", !.at = "token", !.id = id])

-----------------------------------------------------------------------------
LockActor(c) ==
  /\ tx[c].at = "actor" /\ Free(c)
  /\ IF IsAdmin(tx[c].actor) THEN Locked(c, "target") ELSE Rollback(c)

LockToken(c) ==
  /\ tx[c].at = "token" /\ Free(c)
  /\ IF Unverified(tx[c].id) THEN Locked(c, "target") ELSE Rollback(c)

LockTarget(c) ==
  LET t == tx[c]
  IN /\ t.at = "target" /\ Free(c)
     /\ IF Exists(t.id) /\ (t.kind = "role" /\ t.role = "admin" => users[t.id].verified)
        THEN Locked(c, IF Demotes(c) THEN "admins"
                       ELSE CASE t.kind = "role" -> "write"
                              [] t.kind = "delete" -> "cascade"
                              [] t.kind = "verify" -> "count")
        ELSE Rollback(c)

LockAdmins(c) ==
  /\ tx[c].at = "admins" /\ Unscanned(c) # {} /\ Locked(c, "admins")

CountAdmins(c) ==
  /\ tx[c].at = "admins" /\ Unscanned(c) = {}
  /\ IF Cardinality(Admins) > 1
     THEN Locked(c, IF tx[c].kind = "role" THEN "write" ELSE "cascade")
     ELSE Rollback(c)

\* The count of VerifyEmail reads a snapshot and locks nothing.
CountPlainly(c) ==
  /\ tx[c].at = "count"
  /\ tx' = [tx EXCEPT ![c].none = (Admins = {}), ![c].at = "write"]
  /\ UNCHANGED <<users, welcomed>>

ChangeRole(c) ==
  LET t == tx[c]
  IN /\ t.at = "write" /\ t.kind = "role" /\ Commits(c)
     /\ users' = [users EXCEPT ![t.id].role = t.role, ![t.id].version = @ + 1]
     /\ UNCHANGED welcomed

\* The foreign key deletes the token's row, which has to be free.
Delete(c) ==
  /\ tx[c].at = "cascade" /\ Free(c) /\ Commits(c)
  /\ users' = [users EXCEPT ![tx[c].id] = Absent]
  /\ UNCHANGED welcomed

VerifyEmail(c) ==
  LET id == tx[c].id
  IN /\ tx[c].at = "write" /\ tx[c].kind = "verify" /\ Commits(c)
     /\ users' = [users EXCEPT ![id] = [verified |-> TRUE, version |-> @.version + 1,
          role |-> IF id = Bootstrap /\ tx[c].none THEN "admin" ELSE @.role]]
     /\ welcomed' = [welcomed EXCEPT ![id] = @ + IF users[id].verified THEN 0 ELSE 1]

\* InnoDB picks a transaction of the cycle.
Victim(c) == InDeadlock(c) /\ Rollback(c)

\* A lock wait timeout, a lost connection, a client gone.
Fail(c) == tx[c].at # "idle" /\ Rollback(c)

Begin(c) ==
  \/ \E actor, id \in Ids : BeginDelete(c, actor, id)
  \/ \E actor, id \in Ids, role \in Roles : BeginChangeRole(c, actor, id, role)
  \/ \E id \in Ids : BeginVerify(c, id)

Step(c) ==
  \/ LockActor(c) \/ LockToken(c) \/ LockTarget(c) \/ LockAdmins(c) \/ CountAdmins(c)
  \/ CountPlainly(c) \/ ChangeRole(c) \/ Delete(c) \/ VerifyEmail(c)

Next == \E c \in Clients : Begin(c) \/ Step(c) \/ Victim(c) \/ Fail(c)

\* InnoDB grants a lock to the requests in the order of their arrival, so a
\* statement that can go on again and again does, and it does look for cycles.
Fairness == \A c \in Clients : SF_vars(Step(c)) /\ WF_vars(Victim(c))

Spec == Init /\ [][Next]_vars /\ Fairness
-----------------------------------------------------------------------------
(* Properties.                                                             *)

Tx == [kind : Kinds, at : Statements, actor : 0..MaxUsers, id : 0..MaxUsers, role : Roles,
       held : SUBSET Rows, none : BOOLEAN]

\* Types, and: two open transactions never hold the same row.
TypeOK ==
  /\ users \in [Ids -> Account \cup {Absent}]
  /\ tx \in [Clients -> Tx]
  /\ welcomed \in [Ids -> Nat]
  /\ \A c, d \in Clients : c # d => tx[c].held \cap tx[d].held = {}

\* Once there is an admin there always is one, however the statements of
\* demotions and deletions that each counted two admins interleave.
AdminRemains == [][Admins # {} => Admins' # {}]_vars

\* Every transaction ends: two admins who change each other's role, or a
\* deletion and a verification of one user, may wait for each other, but never
\* for good, and no refused call leaves rows locked behind.
TransactionsEnd == \A c \in Clients : tx[c].at # "idle" ~> tx[c].at = "idle"

\* Refinement: what a request has read and will act on, as Identity keeps it.
Request(c) ==
  LET t == tx[c]
  IN [at |-> IF t.kind \in {"role", "delete"} THEN t.kind ELSE "idle",
      id |-> IF t.kind = "verify" THEN 0 ELSE t.id, actor |-> t.actor, email |-> 0,
      version |-> 0, token |-> 0, role |-> t.role]

\* The tables as Identity keeps them; an address and its token have the user's id.
AccountRows ==
  [id \in Ids |->
    IF Exists(id)
    THEN [email |-> id, pending |-> 0, verified |-> users[id].verified,
          role |-> users[id].role, version |-> users[id].version]
    ELSE Absent]

TokenRows ==
  [id \in Ids |-> IF Unverified(id) THEN [hash |-> id, age |-> "new"]
                                   ELSE [hash |-> 0, age |-> "expired"]]

Requests == [c \in Clients |-> Request(c)]

Accounts == INSTANCE Identity WITH
  Calls <- {"role", "delete", "deleteSelf", "verify"},
  Emails <- Ids, NoEmail <- 0, MaxHash <- MaxUsers,
  users <- AccountRows, vtokens <- TokenRows, req <- Requests,
  rtokens <- {}, mails <- {[hash |-> id, user |-> id] : id \in Ids},
  nextUser <- MaxUsers + 1, nextHash <- MaxUsers + 1

AtomicStep(c) ==
  \/ Accounts!Fail(c) \/ Accounts!ChangeRole(c) \/ Accounts!Delete(c)
  \/ Accounts!VerifyEmail([hash |-> tx[c].id, user |-> tx[c].id])
  \/ \E actor, id \in Ids :
       \/ Accounts!StartDelete(c, actor, id) \/ Accounts!StartDeleteSelf(c, id)
       \/ \E role \in Roles : Accounts!StartChangeRole(c, actor, id, role)

\* Statement by statement, with locks, cycles and rollbacks, the transactions
\* do no more than the atomic ones of Identity: whatever a statement read
\* still holds when the transaction commits, the plain count included.
ImplementsAccounts == [][UNCHANGED Accounts!vars \/ \E c \in Clients : AtomicStep(c)]_vars
===============================================================================
