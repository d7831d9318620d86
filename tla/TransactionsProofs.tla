-------------------------- MODULE TransactionsProofs --------------------------
(* Theorems about Transactions for every value of its constants.           *)
EXTENDS Transactions, FiniteSetTheorems, TLAPS

(* AdminRemains is not inductive: a demotion relies on a count made some    *)
(* statements ago.  What makes the count last is that the transaction still *)
(* holds the rows it counted, and nobody writes a row without holding it.   *)

\* A transaction past the lock on its target holds the target, which exists.
Targeted(c) ==
  /\ tx[c].at # "idle" => tx[c].id \in Ids /\ tx[c].kind # "none"
  /\ tx[c].at = "actor" => tx[c].actor \in Ids
  /\ tx[c].at = "admins" => tx[c].kind \in {"role", "delete"}
  /\ tx[c].at = "cascade" => tx[c].kind = "delete"
  /\ tx[c].at = "count" => tx[c].kind = "verify"
  /\ tx[c].at \in {"admins", "count", "cascade", "write"} =>
       Exists(tx[c].id) /\ UserRow(tx[c].id) \in tx[c].held

\* A transaction about to demote or delete an admin holds another one.
Spared(c) ==
  tx[c].at \in {"cascade", "write"} /\ Demotes(c) =>
    \E a \in Admins : a # tx[c].id /\ UserRow(a) \in tx[c].held

AdminInv == TypeOK /\ \A c \in Clients : Targeted(c) /\ Spared(c)

USE UserAssumption, VersionAssumption

-----------------------------------------------------------------------------
(* The start, and the effect of a step on the transactions of others.      *)

LEMMA NoTxType == NoTx \in Tx /\ NoTx.held = {} /\ NoTx.at = "idle"
BY DEF NoTx, Tx, Kinds, Statements, Roles, Rows

LEMMA InitInv == Init => AdminInv
<1> SUFFICES ASSUME Init PROVE AdminInv
  OBVIOUS
<1>2. TypeOK
  BY NoTxType DEF Init, TypeOK, Account, Roles, Ids, NoTx
<1>3. \A c \in Clients : Targeted(c) /\ Spared(c)
  BY DEF Init, Targeted, Spared, NoTx
<1> QED BY <1>2, <1>3 DEF AdminInv

\* A row lock of c keeps every user c relies on as it is.
LEMMA OthersKeep ==
  ASSUME AdminInv, NEW c \in Clients, NEW d \in Clients, c # d,
         tx'[d] = tx[d],
         users' \in [Ids -> Account \cup {Absent}],
         \A id \in Ids : UserRow(id) \notin tx[c].held => users'[id] = users[id]
  PROVE  Targeted(d)' /\ Spared(d)'
<1>1. \A id \in Ids : UserRow(id) \in tx[d].held => users'[id] = users[id]
  BY DEF AdminInv, TypeOK
<1>2. Targeted(d)'
  BY <1>1 DEF AdminInv, Targeted, Exists
<1>3. ASSUME tx[d].at \in {"cascade", "write"}, Demotes(d)'
      PROVE  \E a \in Admins' : a # tx[d].id /\ UserRow(a) \in tx[d].held
  <2>1. UserRow(tx[d].id) \in tx[d].held /\ tx[d].id \in Ids
    BY <1>3 DEF AdminInv, Targeted
  <2>2. Demotes(d)
    BY <1>3, <1>1, <2>1 DEF Demotes, IsAdmin, Exists
  <2>3. PICK a \in Admins : a # tx[d].id /\ UserRow(a) \in tx[d].held
    BY <1>3, <2>2 DEF AdminInv, Spared
  <2>4. a \in Admins'
    BY <2>3, <1>1 DEF Admins, IsAdmin, Exists
  <2> QED BY <2>3, <2>4
<1>4. Spared(d)'
  BY <1>3 DEF Spared
<1> QED BY <1>2, <1>4

LEMMA LocksType ==
  ASSUME AdminInv, NEW c \in Clients
  PROVE  Locks(c) \subseteq Rows
<1>1. Targeted(c) /\ tx[c] \in Tx
  BY DEF AdminInv, TypeOK
<1>2. \A id \in Ids : UserRow(id) \in Rows /\ TokenRow(id) \in Rows
  BY DEF UserRow, TokenRow, Rows
<1>3. Unscanned(c) \subseteq Ids
  BY DEF Unscanned, Present
<1>4. CASE tx[c].at = "actor"
  BY <1>1, <1>2, <1>4 DEF Locks, ActorRow, Targeted
<1>5. CASE tx[c].at = "target"
  BY <1>1, <1>2, <1>5 DEF Locks, Targeted
<1>6. CASE tx[c].at = "admins"
  BY <1>2, <1>3, <1>6 DEF Locks
<1>7. CASE tx[c].at \in {"token", "cascade"}
  BY <1>1, <1>2, <1>7 DEF Locks, Targeted
<1>8. CASE tx[c].at \notin {"actor", "target", "admins", "token", "cascade"}
  BY <1>8 DEF Locks
<1> QED BY <1>4, <1>5, <1>6, <1>7, <1>8

\* A step that leaves the users alone and gives c the transaction t.
LEMMA OwnStep ==
  ASSUME AdminInv, NEW c \in Clients, NEW t \in Tx,
         tx' = [tx EXCEPT ![c] = t], UNCHANGED <<users, welcomed>>,
         \A d \in Clients \ {c} : tx[d].held \cap t.held = {},
         Targeted(c)', Spared(c)'
  PROVE  AdminInv'
<1>1. TypeOK'
  BY DEF AdminInv, TypeOK
<1>2. ASSUME NEW d \in Clients, d # c
      PROVE  Targeted(d)' /\ Spared(d)'
  <2>1. tx'[d] = tx[d]
    BY <1>2 DEF AdminInv, TypeOK
  <2>2. users' \in [Ids -> Account \cup {Absent}] /\ \A id \in Ids : users'[id] = users[id]
    BY DEF AdminInv, TypeOK
  <2> QED BY <1>2, <2>1, <2>2, OthersKeep
<1> QED BY <1>1, <1>2 DEF AdminInv

LEMMA RollbackInv ==
  ASSUME AdminInv, NEW c \in Clients, Rollback(c)
  PROVE  AdminInv'
<1>2. tx' = [tx EXCEPT ![c] = NoTx] /\ UNCHANGED <<users, welcomed>>
  BY DEF Rollback, RolledBack
<1>3. tx'[c] = NoTx
  BY <1>2 DEF AdminInv, TypeOK
<1>4. Targeted(c)' /\ Spared(c)'
  BY NoTxType, <1>3 DEF Targeted, Spared
<1> QED BY NoTxType, <1>2, <1>4, OwnStep

-----------------------------------------------------------------------------
(* Beginning, and getting a lock.                                          *)

LEMMA BeginInv ==
  ASSUME AdminInv, NEW c \in Clients, Begin(c)
  PROVE  AdminInv'
<1>1. ASSUME NEW t \in Tx, Begins(c, t), t.held = {}, t.id \in Ids, t.kind # "none",
             t.at \in {"actor", "target", "token"}, t.at = "actor" => t.actor \in Ids
      PROVE  AdminInv'
  <2>1. tx' = [tx EXCEPT ![c] = t] /\ UNCHANGED <<users, welcomed>>
    BY <1>1 DEF Begins
  <2>2. tx'[c] = t
    BY <2>1 DEF AdminInv, TypeOK
  <2>3. Targeted(c)' /\ Spared(c)'
    BY <1>1, <2>2 DEF Targeted, Spared
  <2> QED BY <1>1, <2>1, <2>3, OwnStep
<1>2. ASSUME NEW actor \in Ids, NEW id \in Ids, BeginDelete(c, actor, id)
      PROVE  AdminInv'
  <2> DEFINE t == [NoTx EXCEPT !.kind = "delete", !.at = "target", !.actor = actor, !.id = id]
  <2>1. t \in Tx /\ t.held = {} /\ t.id = id /\ t.kind = "delete" /\ t.at = "target"
    <3>1. "delete" \in Kinds /\ "target" \in Statements /\ actor \in 0..MaxUsers /\ id \in 0..MaxUsers
      BY DEF Kinds, Statements, Ids
    <3> QED BY <3>1, NoTxType DEF Tx
  <2>2. Begins(c, t)
    BY <1>2 DEF BeginDelete
  <2> QED BY <1>1, <2>1, <2>2
<1>3. ASSUME NEW actor \in Ids, NEW id \in Ids, NEW role \in Roles,
             BeginChangeRole(c, actor, id, role)
      PROVE  AdminInv'
  <2> DEFINE t == [NoTx EXCEPT !.kind = "role", !.at = "actor", !.actor = actor,
                               !.id = id, !.role = role]
  <2>1. /\ t \in Tx /\ t.held = {} /\ t.id = id /\ t.kind = "role" /\ t.at = "actor"
        /\ t.actor = actor
    <3>1. "role" \in Kinds /\ "actor" \in Statements /\ actor \in 0..MaxUsers /\ id \in 0..MaxUsers
      BY DEF Kinds, Statements, Ids
    <3> QED BY <3>1, NoTxType DEF Tx
  <2>2. Begins(c, t)
    BY <1>3 DEF BeginChangeRole
  <2> QED BY <1>1, <2>1, <2>2
<1>4. ASSUME NEW id \in Ids, BeginVerify(c, id)
      PROVE  AdminInv'
  <2> DEFINE t == [NoTx EXCEPT !.kind = "verify", !.at = "token", !.id = id]
  <2>1. t \in Tx /\ t.held = {} /\ t.id = id /\ t.kind = "verify" /\ t.at = "token"
    <3>1. "verify" \in Kinds /\ "token" \in Statements /\ 0 \in 0..MaxUsers /\ id \in 0..MaxUsers
      BY DEF Kinds, Statements, Ids
    <3> QED BY <3>1, NoTxType DEF Tx
  <2>2. Begins(c, t)
    BY <1>4 DEF BeginVerify
  <2> QED BY <1>1, <2>1, <2>2
<1> QED BY <1>2, <1>3, <1>4 DEF Begin

\* What Locked does to the transaction of c.
LEMMA LockedTx ==
  ASSUME AdminInv, NEW c \in Clients, NEW next \in Statements, Locked(c, next)
  PROVE  /\ tx'[c] \in Tx /\ tx' = [tx EXCEPT ![c] = tx'[c]]
         /\ tx'[c].held = tx[c].held \cup Locks(c) /\ tx'[c].at = next
         /\ tx'[c].id = tx[c].id /\ tx'[c].kind = tx[c].kind
         /\ tx'[c].actor = tx[c].actor /\ tx'[c].role = tx[c].role
         /\ \A d \in Clients \ {c} : tx[d].held \cap tx'[c].held = {}
<1> DEFINE t == [tx[c] EXCEPT !.held = @ \cup Locks(c), !.at = next]
<1>1. tx \in [Clients -> Tx]
  BY DEF AdminInv, TypeOK
<1>2. tx' = [tx EXCEPT ![c] = t]
  BY <1>1 DEF Locked
<1>3. t \in Tx
  BY <1>1, LocksType DEF Tx
<1>4. /\ t.held = tx[c].held \cup Locks(c) /\ t.at = next
      /\ t.id = tx[c].id /\ t.kind = tx[c].kind /\ t.actor = tx[c].actor /\ t.role = tx[c].role
  BY <1>1 DEF Tx
<1>5. \A d \in Clients \ {c} : tx[d].held \cap t.held = {}
  BY <1>4 DEF AdminInv, TypeOK, Locked, Free
<1>6. tx'[c] = t
  BY <1>1, <1>2
<1> QED BY <1>2, <1>3, <1>4, <1>5, <1>6

LEMMA LockInv ==
  ASSUME AdminInv, NEW c \in Clients, NEW next \in Statements, Locked(c, next),
         Targeted(c)', Spared(c)'
  PROVE  AdminInv'
BY LockedTx, OwnStep DEF Locked

-----------------------------------------------------------------------------
(* The statements before the last.                                         *)

LEMMA LockActorInv ==
  ASSUME AdminInv, NEW c \in Clients, LockActor(c)
  PROVE  AdminInv'
<1>1. CASE Locked(c, "target")
  <2>1. "target" \in Statements
    BY DEF Statements
  <2>2. Targeted(c)' /\ Spared(c)'
    BY <1>1, <2>1, LockedTx DEF AdminInv, Targeted, Spared, LockActor
  <2> QED BY <1>1, <2>1, <2>2, LockInv
<1> QED BY <1>1, RollbackInv DEF LockActor

LEMMA LockTokenInv ==
  ASSUME AdminInv, NEW c \in Clients, LockToken(c)
  PROVE  AdminInv'
<1>1. CASE Locked(c, "target")
  <2>1. "target" \in Statements
    BY DEF Statements
  <2>2. Targeted(c)' /\ Spared(c)'
    BY <1>1, <2>1, LockedTx DEF AdminInv, Targeted, Spared, LockToken
  <2> QED BY <1>1, <2>1, <2>2, LockInv
<1> QED BY <1>1, RollbackInv DEF LockToken

LEMMA LockTargetInv ==
  ASSUME AdminInv, NEW c \in Clients, LockTarget(c)
  PROVE  AdminInv'
<1> DEFINE next == IF Demotes(c) THEN "admins"
                   ELSE CASE tx[c].kind = "role" -> "write"
                          [] tx[c].kind = "delete" -> "cascade"
                          [] tx[c].kind = "verify" -> "count"
<1>1. CASE Exists(tx[c].id) /\ Locked(c, next)
  <2>1. /\ tx[c].at = "target" /\ tx[c].id \in Ids /\ Targeted(c)
        /\ tx[c].kind \in {"role", "delete", "verify"}
    BY DEF LockTarget, AdminInv, TypeOK, Targeted, Tx, Kinds
  <2>2. next \in {"admins", "write", "cascade", "count"}
    BY <2>1
  <2>3. next \in Statements
    BY <2>2 DEF Statements
  <2>4. UserRow(tx[c].id) \in Locks(c)
    BY <2>1 DEF Locks
  <2>5. next = "admins" => tx[c].kind \in {"role", "delete"}
    BY <2>1 DEF Demotes
  <2>6. next = "cascade" => tx[c].kind = "delete"
    BY <2>1
  <2>61. next = "count" => tx[c].kind = "verify"
    BY <2>1
  <2>7. users' = users
    BY <1>1 DEF Locked
  <2> HIDE DEF next
  <2>8. /\ tx'[c].held = tx[c].held \cup Locks(c) /\ tx'[c].at = next
        /\ tx'[c].id = tx[c].id /\ tx'[c].kind = tx[c].kind
        /\ tx'[c].actor = tx[c].actor /\ tx'[c].role = tx[c].role
    BY <1>1, <2>3, LockedTx
  <2>9. Targeted(c)'
    BY <1>1, <2>1, <2>2, <2>4, <2>5, <2>6, <2>61, <2>7, <2>8 DEF Targeted, Exists
  <2>10. Demotes(c)' = Demotes(c)
    BY <2>7, <2>8 DEF Demotes, IsAdmin, Exists
  <2>11. Demotes(c) => next = "admins"
    BY DEF next
  <2>12. Spared(c)'
    BY <2>8, <2>10, <2>11 DEF Spared
  <2> QED BY <1>1, <2>3, <2>9, <2>12, LockInv
<1>2. CASE Rollback(c)
  BY <1>2, RollbackInv
<1> QED BY <1>1, <1>2 DEF LockTarget

LEMMA LockAdminsInv ==
  ASSUME AdminInv, NEW c \in Clients, LockAdmins(c)
  PROVE  AdminInv'
<1>1. "admins" \in Statements /\ Locked(c, "admins") /\ tx[c].at = "admins"
  BY DEF Statements, LockAdmins
<1>2. Targeted(c)' /\ Spared(c)'
  <2>1. /\ tx'[c].held = tx[c].held \cup Locks(c) /\ tx'[c].at = "admins"
        /\ tx'[c].id = tx[c].id /\ tx'[c].kind = tx[c].kind
    BY <1>1, LockedTx
  <2>2. users' = users /\ Targeted(c)
    BY <1>1 DEF Locked, AdminInv
  <2> QED BY <1>1, <2>1, <2>2 DEF Targeted, Spared, Exists
<1> QED BY <1>1, <1>2, LockInv

\* Two admins counted while every user is locked: one of them is not the target.
LEMMA AnotherAdmin ==
  ASSUME NEW c \in Clients, Unscanned(c) = {}, Cardinality(Admins) > 1
  PROVE  \E a \in Admins : a # tx[c].id /\ UserRow(a) \in tx[c].held
<1>1. PICK a \in Admins : a # tx[c].id
  <2>1. SUFFICES ASSUME Admins \subseteq {tx[c].id} PROVE FALSE
    OBVIOUS
  <2>2. IsFiniteSet({tx[c].id}) /\ Cardinality({tx[c].id}) = 1
    BY FS_Singleton
  <2>3. Cardinality(Admins) <= 1
    BY <2>1, <2>2, FS_Subset
  <2>4. IsFiniteSet(Admins)
    BY <2>1, <2>2, FS_Subset
  <2>5. Cardinality(Admins) \in Nat
    BY <2>4, FS_CardinalityType
  <2> QED BY <2>3, <2>5
<1>2. UserRow(a) \in tx[c].held
  BY DEF Unscanned, Present, Admins, IsAdmin, Exists
<1> QED BY <1>1, <1>2

LEMMA CountAdminsInv ==
  ASSUME AdminInv, NEW c \in Clients, CountAdmins(c)
  PROVE  AdminInv'
<1> DEFINE next == IF tx[c].kind = "role" THEN "write" ELSE "cascade"
<1>1. CASE Cardinality(Admins) > 1 /\ Locked(c, next)
  <2>1. next \in Statements /\ next \in {"write", "cascade"} /\ (next = "cascade" => tx[c].kind # "role")
    BY DEF Statements
  <2>2. tx[c].at = "admins" /\ Unscanned(c) = {} /\ Targeted(c)
    BY DEF CountAdmins, AdminInv
  <2>3. PICK a \in Admins : a # tx[c].id /\ UserRow(a) \in tx[c].held
    BY <1>1, <2>2, AnotherAdmin
  <2>4. users' = users
    BY <1>1 DEF Locked
  <2> HIDE DEF next
  <2>5. /\ tx'[c].held = tx[c].held \cup Locks(c) /\ tx'[c].at = next
        /\ tx'[c].id = tx[c].id /\ tx'[c].kind = tx[c].kind
        /\ tx'[c].actor = tx[c].actor
    BY <1>1, <2>1, LockedTx
  <2>6. Targeted(c)'
    BY <2>1, <2>2, <2>4, <2>5 DEF Targeted, Exists
  <2>7. a \in Admins'
    BY <2>4 DEF Admins, IsAdmin, Exists
  <2>8. Spared(c)'
    BY <2>3, <2>5, <2>7 DEF Spared
  <2> QED BY <1>1, <2>1, <2>6, <2>8, LockInv
<1>2. CASE Rollback(c)
  BY <1>2, RollbackInv
<1> QED BY <1>1, <1>2 DEF CountAdmins

LEMMA CountPlainlyInv ==
  ASSUME AdminInv, NEW c \in Clients, CountPlainly(c)
  PROVE  AdminInv'
<1> DEFINE t == [tx[c] EXCEPT !.none = (Admins = {}), !.at = "write"]
<1>1. tx \in [Clients -> Tx] /\ tx[c].at = "count" /\ Targeted(c)
  BY DEF AdminInv, TypeOK, CountPlainly
<1>2. tx' = [tx EXCEPT ![c] = t] /\ UNCHANGED <<users, welcomed>>
  BY <1>1 DEF CountPlainly
<1>3. t \in Tx
  BY <1>1 DEF Tx, Statements
<1>4. /\ tx'[c] = t /\ t.held = tx[c].held /\ t.at = "write" /\ t.id = tx[c].id
      /\ t.kind = tx[c].kind /\ t.role = tx[c].role
  BY <1>1, <1>2 DEF Tx
<1> HIDE DEF t
<1>5. Targeted(c)'
  BY <1>1, <1>2, <1>4 DEF Targeted, Exists
<1>6. Spared(c)'
  BY <1>1, <1>4 DEF Spared, Demotes, Targeted
<1>7. \A d \in Clients \ {c} : tx[d].held \cap t.held = {}
  BY <1>4 DEF AdminInv, TypeOK
<1> QED BY <1>2, <1>3, <1>5, <1>6, <1>7, OwnStep

-----------------------------------------------------------------------------
(* The commits.                                                            *)

\* The commit of c, writing only the user whose row it holds.
LEMMA CommitInv ==
  ASSUME AdminInv, NEW c \in Clients, Commits(c),
         tx[c].at \in {"cascade", "write"},
         users' \in [Ids -> Account \cup {Absent}], welcomed' \in [Ids -> Nat],
         \A id \in Ids \ {tx[c].id} : users'[id] = users[id]
  PROVE  AdminInv'
<1>1. tx \in [Clients -> Tx] /\ Targeted(c)
  BY DEF AdminInv, TypeOK
<1>2. tx' = [tx EXCEPT ![c] = NoTx]
  BY DEF Commits
<1>3. TypeOK'
  BY <1>1, <1>2, NoTxType DEF AdminInv, TypeOK
<1>4. Targeted(c)' /\ Spared(c)'
  BY <1>1, <1>2, NoTxType DEF Targeted, Spared
<1>5. ASSUME NEW d \in Clients, d # c
      PROVE  Targeted(d)' /\ Spared(d)'
  <2>1. tx'[d] = tx[d]
    BY <1>1, <1>2, <1>5
  <2>2. \A id \in Ids : UserRow(id) \notin tx[c].held => users'[id] = users[id]
    BY <1>1 DEF Targeted
  <2> QED BY <1>5, <2>1, <2>2, OthersKeep
<1> QED BY <1>3, <1>4, <1>5 DEF AdminInv

LEMMA ChangeRoleInv ==
  ASSUME AdminInv, NEW c \in Clients, ChangeRole(c)
  PROVE  AdminInv'
<1> DEFINE t == tx[c]
<1>1. t \in Tx /\ t.at = "write" /\ t.id \in Ids /\ Exists(t.id)
  BY DEF AdminInv, TypeOK, Targeted, ChangeRole
<1>2. users \in [Ids -> Account \cup {Absent}] /\ users[t.id] \in Account
  BY <1>1 DEF AdminInv, TypeOK, Exists
<1>3. [users[t.id] EXCEPT !.role = t.role, !.version = @ + 1] \in Account
  <2>1. t.role \in Roles
    BY <1>1 DEF Tx
  <2>2. ASSUME NEW u \in Account, NEW r \in Roles
        PROVE  [u EXCEPT !.role = r, !.version = @ + 1] \in Account
    <3>1. u.version + 1 \in Nat \ {0}
      BY DEF Account
    <3>2. ASSUME NEW v \in Nat \ {0}
          PROVE  [u EXCEPT !.role = r, !.version = v] \in Account
      BY DEF Account
    <3> QED BY <3>1, <3>2
  <2> QED BY <1>2, <2>1, <2>2
<1>4. users' = [users EXCEPT ![t.id] = [users[t.id] EXCEPT !.role = t.role, !.version = @ + 1]]
  BY <1>1, <1>2 DEF ChangeRole
<1>5. users' \in [Ids -> Account \cup {Absent}]
  BY <1>2, <1>3, <1>4
<1>6. \A id \in Ids \ {t.id} : users'[id] = users[id]
  BY <1>2, <1>4
<1>7. welcomed' \in [Ids -> Nat] /\ Commits(c)
  BY DEF ChangeRole, AdminInv, TypeOK
<1> QED BY <1>1, <1>5, <1>6, <1>7, CommitInv

LEMMA DeleteInv ==
  ASSUME AdminInv, NEW c \in Clients, Delete(c)
  PROVE  AdminInv'
<1>1. users' = [users EXCEPT ![tx[c].id] = Absent] /\ tx[c].at = "cascade" /\ Commits(c)
  BY DEF Delete
<1>2. users \in [Ids -> Account \cup {Absent}] /\ welcomed' \in [Ids -> Nat]
  BY DEF Delete, AdminInv, TypeOK
<1> QED BY <1>1, <1>2, CommitInv

LEMMA VerifyEmailInv ==
  ASSUME AdminInv, NEW c \in Clients, VerifyEmail(c)
  PROVE  AdminInv'
<1> DEFINE id == tx[c].id
           u == [verified |-> TRUE, version |-> users[id].version + 1,
                 role |-> IF id = Bootstrap /\ tx[c].none THEN "admin" ELSE users[id].role]
<1>1. tx[c] \in Tx /\ tx[c].at = "write" /\ id \in Ids /\ Exists(id) /\ Commits(c)
  BY DEF AdminInv, TypeOK, Targeted, VerifyEmail
<1>2. users \in [Ids -> Account \cup {Absent}] /\ users[id] \in Account
  BY <1>1 DEF AdminInv, TypeOK, Exists
<1>3. u \in Account
  BY <1>2 DEF Account, Roles
<1>4. users' = [users EXCEPT ![id] = u]
  BY <1>1, <1>2 DEF VerifyEmail
<1>5. users' \in [Ids -> Account \cup {Absent}] /\ \A i \in Ids \ {id} : users'[i] = users[i]
  BY <1>2, <1>3, <1>4
<1>6. welcomed' \in [Ids -> Nat]
  BY <1>1 DEF VerifyEmail, AdminInv, TypeOK
<1> QED BY <1>1, <1>5, <1>6, CommitInv

LEMMA NextInv ==
  ASSUME AdminInv, [Next]_vars
  PROVE  AdminInv'
<1>1. CASE Next
  <2>1. PICK c \in Clients : Begin(c) \/ Step(c) \/ Victim(c) \/ Fail(c)
    BY <1>1 DEF Next
  <2>2. CASE Begin(c)
    BY <2>2, BeginInv
  <2>3. CASE Victim(c) \/ Fail(c)
    BY <2>3, RollbackInv DEF Victim, Fail
  <2>4. CASE Step(c)
    BY <2>4, LockActorInv, LockTokenInv, LockTargetInv, LockAdminsInv, CountAdminsInv,
       CountPlainlyInv, ChangeRoleInv, DeleteInv, VerifyEmailInv DEF Step
  <2> QED BY <2>1, <2>2, <2>3, <2>4
<1>2. CASE UNCHANGED vars
  <2>1. users' = users /\ tx' = tx /\ welcomed' = welcomed
    BY <1>2 DEF vars
  <2>2. TypeOK'
    BY <2>1 DEF AdminInv, TypeOK
  <2>3. ASSUME NEW c \in Clients PROVE Targeted(c)' /\ Spared(c)'
    <3>1. Targeted(c) /\ Spared(c)
      BY DEF AdminInv
    <3> QED BY <2>1, <3>1 DEF Targeted, Spared, Demotes, Exists, Admins, IsAdmin
  <2> QED BY <2>2, <2>3 DEF AdminInv
<1> QED BY <1>1, <1>2

-----------------------------------------------------------------------------
\* Types, and: two open transactions never hold the same row.
THEOREM TypeCorrect == Spec => []TypeOK
<1>1. AdminInv => TypeOK
  BY DEF AdminInv
<1> QED BY <1>1, InitInv, NextInv, PTL DEF Spec

LEMMA OnlyCommitsWrite ==
  ASSUME NEW c \in Clients, Begin(c) \/ Step(c) \/ Victim(c) \/ Fail(c),
         ~(ChangeRole(c) \/ Delete(c) \/ VerifyEmail(c))
  PROVE  users' = users
BY DEF Begin, BeginDelete, BeginChangeRole, BeginVerify, Begins, Step, Victim,
   Fail, Rollback, LockActor, LockToken, LockTarget, LockAdmins, CountAdmins,
   CountPlainly, Locked

\* The three commits leave an admin when there was one.
LEMMA CommitsSpareAdmins ==
  ASSUME AdminInv, Next, Admins # {}
  PROVE  Admins' # {}
<1>1. PICK c \in Clients : Begin(c) \/ Step(c) \/ Victim(c) \/ Fail(c)
  BY DEF Next
<1>2. users \in [Ids -> Account \cup {Absent}] /\ Targeted(c) /\ Spared(c)
  BY DEF AdminInv, TypeOK
<1>3. ASSUME NEW a \in Admins, users'[a] = users[a]
      PROVE  Admins' # {}
  BY <1>3 DEF Admins, IsAdmin, Exists
<1>4. CASE users' = users
  BY <1>3, <1>4
<1>5. ASSUME tx[c].at \in {"cascade", "write"}, Demotes(c),
             \A id \in Ids \ {tx[c].id} : users'[id] = users[id]
      PROVE  Admins' # {}
  <2>1. PICK a \in Admins : a # tx[c].id
    BY <1>2, <1>5 DEF Spared
  <2> QED BY <1>3, <1>5, <2>1 DEF Admins
<1>6. CASE ChangeRole(c)
  <2>1. /\ tx[c].at = "write" /\ tx[c].kind = "role" /\ tx[c].id \in Ids
        /\ users[tx[c].id] \in Account
    BY <1>2, <1>6 DEF ChangeRole, Targeted, Exists
  <2>2. \A id \in Ids \ {tx[c].id} : users'[id] = users[id]
    BY <1>2, <1>6 DEF ChangeRole
  <2>3. CASE tx[c].role = "admin"
    <3>1. users'[tx[c].id].role = "admin"
      BY <1>2, <1>6, <2>1, <2>3 DEF ChangeRole, Account
    <3> QED BY <2>1, <3>1 DEF Admins, IsAdmin, Exists, Absent
  <2>4. CASE tx[c].role # "admin" /\ ~IsAdmin(tx[c].id)
    BY <1>3, <2>2, <2>4 DEF Admins
  <2>5. CASE tx[c].role # "admin" /\ IsAdmin(tx[c].id)
    BY <1>5, <2>1, <2>2, <2>5 DEF Demotes
  <2> QED BY <2>3, <2>4, <2>5
<1>7. CASE Delete(c)
  <2>1. /\ tx[c].at = "cascade" /\ tx[c].kind = "delete"
        /\ \A id \in Ids \ {tx[c].id} : users'[id] = users[id]
    BY <1>2, <1>7 DEF Delete, Targeted
  <2>2. CASE IsAdmin(tx[c].id)
    BY <1>5, <2>1, <2>2 DEF Demotes
  <2>3. CASE ~IsAdmin(tx[c].id)
    BY <1>3, <2>1, <2>3 DEF Admins
  <2> QED BY <2>2, <2>3
<1>8. CASE VerifyEmail(c)
  <2> DEFINE id == tx[c].id
  <2>1. PICK a \in Ids : IsAdmin(a)
    BY DEF Admins
  <2>2. CASE a # id
    BY <1>2, <1>3, <1>8, <2>1, <2>2 DEF VerifyEmail, Admins
  <2>3. CASE a = id
    <3>1. users[id].role = "admin"
      BY <2>1, <2>3 DEF IsAdmin
    <3>2. users'[id].role = "admin"
      BY <1>2, <1>8, <2>1, <2>3, <3>1 DEF VerifyEmail
    <3> QED BY <2>1, <2>3, <3>2 DEF Admins, IsAdmin, Exists, Absent
  <2> QED BY <2>2, <2>3
<1>9. CASE ~(ChangeRole(c) \/ Delete(c) \/ VerifyEmail(c))
  <2>1. users' = users
    BY <1>1, <1>9, OnlyCommitsWrite
  <2> QED BY <1>4, <2>1
<1> QED BY <1>6, <1>7, <1>8, <1>9

\* Once there is an admin there always is one, for any number of users and
\* of concurrent demotions, deletions and verifications.
THEOREM AnAdminRemains == Spec => AdminRemains
<1>1. AdminInv /\ [Next]_vars => [Admins # {} => Admins' # {}]_vars
  BY CommitsSpareAdmins
<1> QED BY <1>1, InitInv, NextInv, PTL DEF Spec, AdminRemains

-----------------------------------------------------------------------------
(* ImplementsAccounts: Identity reads and writes in one step what a         *)
(* transaction here reads some statements before it commits.  Each of the   *)
(* parts below says of one of these reads why it still holds at the commit. *)

\* A change of a role holds its actor, an admin.
ActorHeld(c) ==
  tx[c].kind = "role" /\ tx[c].at \in {"target", "admins", "write"} =>
    IsAdmin(tx[c].actor) /\ UserRow(tx[c].actor) \in tx[c].held

\* The user about to be made an admin has verified an address.
TargetVerified(c) ==
  tx[c].kind = "role" /\ tx[c].role = "admin" /\ tx[c].at \in {"admins", "write"} =>
    users[tx[c].id].verified

\* A verification holds the token, without which nobody verifies the user.
TokenHeld(c) ==
  tx[c].kind = "verify" /\ tx[c].at \in {"target", "count", "write"} =>
    TokenRow(tx[c].id) \in tx[c].held /\ (Exists(tx[c].id) => Unverified(tx[c].id))

\* The plain count of the bootstrap user's verification is not outdated: the
\* first admin can only be that user, and admins there are remain.
CountHolds(c) ==
  tx[c].kind = "verify" /\ tx[c].at = "write" /\ tx[c].id = Bootstrap =>
    (tx[c].none <=> Admins = {})

\* Which statements a transaction has, and what a verification leaves unset.
Formed(c) ==
  /\ tx[c].kind = "verify" => tx[c].actor = 0 /\ tx[c].role = "user"
  /\ tx[c].at = "actor" => tx[c].kind = "role"
  /\ tx[c].at = "token" => tx[c].kind = "verify"

Grounded(c) ==
  Formed(c) /\ ActorHeld(c) /\ TargetVerified(c) /\ TokenHeld(c) /\ CountHolds(c)

GroundInv == AdminInv /\ \A c \in Clients : Grounded(c)

LEMMA NoTxGrounded ==
  ASSUME NEW c \in Clients, tx'[c] = NoTx
  PROVE  Grounded(c)'
BY DEF NoTx, Grounded, Formed, ActorHeld, TargetVerified, TokenHeld, CountHolds

LEMMA InitGround == Init => GroundInv
<1> SUFFICES ASSUME Init PROVE GroundInv
  OBVIOUS
<1>1. ASSUME NEW c \in Clients
      PROVE  Grounded(c)
  <2>1. tx[c] = NoTx
    BY DEF Init
  <2> QED BY <2>1 DEF NoTx, Grounded, Formed, ActorHeld, TargetVerified, TokenHeld, CountHolds
<1> QED BY <1>1, InitInv DEF GroundInv

\* A step of c that commits nothing disturbs only what c has read.
LEMMA QuietGround ==
  ASSUME GroundInv, AdminInv', NEW c \in Clients, users' = users,
         \A d \in Clients \ {c} : tx'[d] = tx[d], Grounded(c)'
  PROVE  GroundInv'
<1>1. ASSUME NEW d \in Clients, d # c
      PROVE  Grounded(d)'
  <2>1. tx'[d] = tx[d] /\ Grounded(d)
    BY <1>1 DEF GroundInv
  <2> QED BY <2>1 DEF Grounded, Formed, ActorHeld, TargetVerified, TokenHeld, CountHolds,
             Unverified, Admins, IsAdmin, Exists
<1> QED BY <1>1 DEF GroundInv

LEMMA RollbackGround ==
  ASSUME GroundInv, NEW c \in Clients, Rollback(c)
  PROVE  GroundInv'
<1>1. AdminInv /\ AdminInv' /\ tx \in [Clients -> Tx]
  BY RollbackInv DEF GroundInv, AdminInv, TypeOK
<1>2. users' = users /\ tx'[c] = NoTx /\ \A d \in Clients \ {c} : tx'[d] = tx[d]
  BY <1>1 DEF Rollback, RolledBack
<1> QED BY <1>1, <1>2, NoTxGrounded, QuietGround

LEMMA BeginGround ==
  ASSUME GroundInv, NEW c \in Clients, Begin(c)
  PROVE  GroundInv'
<1>1. AdminInv' /\ tx \in [Clients -> Tx]
  BY BeginInv DEF GroundInv, AdminInv, TypeOK
<1>2. ASSUME NEW t, Begins(c, t), t.at \in {"actor", "target", "token"},
             t.kind = "verify" => t.at = "token" /\ t.actor = 0 /\ t.role = "user",
             t.kind = "role" => t.at = "actor",
             t.at = "actor" => t.kind = "role", t.at = "token" => t.kind = "verify"
      PROVE  GroundInv'
  <2>1. users' = users /\ tx'[c] = t /\ \A d \in Clients \ {c} : tx'[d] = tx[d]
    BY <1>1, <1>2 DEF Begins
  <2>2. Grounded(c)'
    BY <1>2, <2>1 DEF Grounded, Formed, ActorHeld, TargetVerified, TokenHeld, CountHolds
  <2> QED BY <1>1, <2>1, <2>2, QuietGround
<1>3. ASSUME NEW actor \in Ids, NEW id \in Ids, BeginDelete(c, actor, id)
      PROVE  GroundInv'
  <2> DEFINE t == [NoTx EXCEPT !.kind = "delete", !.at = "target", !.actor = actor, !.id = id]
  <2>1. Begins(c, t) /\ t.kind = "delete" /\ t.at = "target"
    BY <1>3 DEF BeginDelete, NoTx
  <2> QED BY <1>2, <2>1
<1>4. ASSUME NEW actor \in Ids, NEW id \in Ids, NEW role \in Roles,
             BeginChangeRole(c, actor, id, role)
      PROVE  GroundInv'
  <2> DEFINE t == [NoTx EXCEPT !.kind = "role", !.at = "actor", !.actor = actor,
                               !.id = id, !.role = role]
  <2>1. Begins(c, t) /\ t.kind = "role" /\ t.at = "actor"
    BY <1>4 DEF BeginChangeRole, NoTx
  <2> QED BY <1>2, <2>1
<1>5. ASSUME NEW id \in Ids, BeginVerify(c, id)
      PROVE  GroundInv'
  <2> DEFINE t == [NoTx EXCEPT !.kind = "verify", !.at = "token", !.id = id]
  <2>1. Begins(c, t) /\ t.kind = "verify" /\ t.at = "token" /\ t.actor = 0 /\ t.role = "user"
    BY <1>5 DEF BeginVerify, NoTx
  <2> QED BY <1>2, <2>1
<1> QED BY <1>3, <1>4, <1>5 DEF Begin

\* What a statement that gets its lock adds to the ground of c.
LEMMA LockGround ==
  ASSUME GroundInv, AdminInv', NEW c \in Clients, NEW next \in Statements, Locked(c, next),
         next # "actor", next # "token",
         tx[c].kind = "verify" => next # "write",
         tx[c].kind = "role" => IsAdmin(tx[c].actor)
           /\ UserRow(tx[c].actor) \in tx[c].held \cup Locks(c),
         tx[c].kind = "role" /\ tx[c].role = "admin" /\ next \in {"admins", "write"} =>
           users[tx[c].id].verified,
         tx[c].kind = "verify" => TokenRow(tx[c].id) \in tx[c].held \cup Locks(c)
           /\ (Exists(tx[c].id) => Unverified(tx[c].id))
  PROVE  GroundInv'
<1>1. AdminInv /\ tx \in [Clients -> Tx] /\ Formed(c)
  BY DEF GroundInv, AdminInv, TypeOK, Grounded
<1>2. /\ tx'[c].held = tx[c].held \cup Locks(c) /\ tx'[c].at = next
      /\ tx'[c].id = tx[c].id /\ tx'[c].kind = tx[c].kind
      /\ tx'[c].actor = tx[c].actor /\ tx'[c].role = tx[c].role
  BY <1>1, LockedTx
<1>3. users' = users /\ \A d \in Clients \ {c} : tx'[d] = tx[d]
  BY <1>1 DEF Locked
<1>4. Formed(c)'
  BY <1>1, <1>2 DEF Formed
<1>5. ActorHeld(c)'
  BY <1>2, <1>3 DEF ActorHeld, IsAdmin, Exists
<1>6. TargetVerified(c)'
  BY <1>2, <1>3 DEF TargetVerified
<1>7. TokenHeld(c)'
  BY <1>2, <1>3 DEF TokenHeld, Unverified, Exists
<1>8. CountHolds(c)'
  BY <1>2 DEF CountHolds
<1> QED BY <1>3, <1>4, <1>5, <1>6, <1>7, <1>8, QuietGround DEF Grounded

LEMMA LockActorGround ==
  ASSUME GroundInv, NEW c \in Clients, LockActor(c)
  PROVE  GroundInv'
<1>1. AdminInv /\ AdminInv' /\ Formed(c) /\ tx[c].at = "actor"
  BY LockActorInv DEF GroundInv, Grounded, LockActor
<1>2. CASE IsAdmin(tx[c].actor) /\ Locked(c, "target")
  <2>1. tx[c].kind = "role" /\ UserRow(tx[c].actor) \in Locks(c)
    BY <1>1 DEF Formed, Locks, ActorRow
  <2>2. "target" \in Statements
    BY DEF Statements
  <2> QED BY <1>1, <1>2, <2>1, <2>2, LockGround
<1>3. CASE Rollback(c)
  BY <1>3, RollbackGround
<1> QED BY <1>2, <1>3 DEF LockActor

LEMMA LockTokenGround ==
  ASSUME GroundInv, NEW c \in Clients, LockToken(c)
  PROVE  GroundInv'
<1>1. AdminInv /\ AdminInv' /\ Formed(c) /\ tx[c].at = "token"
  BY LockTokenInv DEF GroundInv, Grounded, LockToken
<1>2. CASE Unverified(tx[c].id) /\ Locked(c, "target")
  <2>1. tx[c].kind = "verify" /\ TokenRow(tx[c].id) \in Locks(c)
    BY <1>1 DEF Formed, Locks
  <2>2. "target" \in Statements
    BY DEF Statements
  <2> QED BY <1>1, <1>2, <2>1, <2>2, LockGround
<1>3. CASE Rollback(c)
  BY <1>3, RollbackGround
<1> QED BY <1>2, <1>3 DEF LockToken

LEMMA LockTargetGround ==
  ASSUME GroundInv, NEW c \in Clients, LockTarget(c)
  PROVE  GroundInv'
<1> DEFINE next == IF Demotes(c) THEN "admins"
                   ELSE CASE tx[c].kind = "role" -> "write"
                          [] tx[c].kind = "delete" -> "cascade"
                          [] tx[c].kind = "verify" -> "count"
<1>1. /\ AdminInv' /\ tx[c].at = "target" /\ tx[c].kind \in {"role", "delete", "verify"}
      /\ ActorHeld(c) /\ TokenHeld(c)
  BY LockTargetInv DEF GroundInv, Grounded, LockTarget, AdminInv, TypeOK, Targeted, Tx, Kinds
<1>2. ASSUME Locked(c, next), tx[c].kind = "role" /\ tx[c].role = "admin" => users[tx[c].id].verified
      PROVE  GroundInv'
  <2>1. next \in {"admins", "write", "cascade", "count"} /\ (tx[c].kind = "verify" => next # "write")
    BY <1>1
  <2>2. next \in Statements
    BY <2>1 DEF Statements
  <2> HIDE DEF next
  <2> QED BY <1>1, <1>2, <2>1, <2>2, LockGround DEF ActorHeld, TokenHeld
<1>3. CASE Rollback(c)
  BY <1>3, RollbackGround
<1> QED BY <1>2, <1>3 DEF LockTarget

LEMMA AdminsGround ==
  ASSUME GroundInv, NEW c \in Clients, LockAdmins(c) \/ CountAdmins(c)
  PROVE  GroundInv'
<1>1. /\ AdminInv' /\ tx[c].at = "admins" /\ tx[c].kind \in {"role", "delete"}
      /\ ActorHeld(c) /\ TargetVerified(c)
  BY LockAdminsInv, CountAdminsInv
     DEF GroundInv, Grounded, AdminInv, Targeted, LockAdmins, CountAdmins
<1>2. ASSUME NEW next \in {"admins", "write", "cascade"}, Locked(c, next)
      PROVE  GroundInv'
  <2>1. next \in Statements
    BY DEF Statements
  <2> QED BY <1>1, <1>2, <2>1, LockGround DEF ActorHeld, TargetVerified
<1>3. CASE LockAdmins(c)
  BY <1>2, <1>3 DEF LockAdmins
<1>4. CASE CountAdmins(c)
  BY <1>2, <1>4, RollbackGround DEF CountAdmins
<1> QED BY <1>3, <1>4

LEMMA CountPlainlyGround ==
  ASSUME GroundInv, NEW c \in Clients, CountPlainly(c)
  PROVE  GroundInv'
<1> DEFINE t == [tx[c] EXCEPT !.none = (Admins = {}), !.at = "write"]
<1>1. /\ AdminInv' /\ tx \in [Clients -> Tx] /\ tx[c].at = "count" /\ tx[c].kind = "verify"
      /\ Formed(c) /\ TokenHeld(c)
  BY CountPlainlyInv DEF GroundInv, Grounded, AdminInv, TypeOK, Targeted, CountPlainly
<1>2. tx' = [tx EXCEPT ![c] = t] /\ users' = users
  BY <1>1 DEF CountPlainly
<1>3. /\ tx'[c] = t /\ \A d \in Clients \ {c} : tx'[d] = tx[d]
  BY <1>1, <1>2
<1>4. /\ t.at = "write" /\ t.none = (Admins = {}) /\ t.kind = "verify" /\ t.id = tx[c].id
      /\ t.held = tx[c].held /\ t.actor = tx[c].actor /\ t.role = tx[c].role
  BY <1>1 DEF Tx
<1> HIDE DEF t
<1>5. Formed(c)' /\ ActorHeld(c)' /\ TargetVerified(c)'
  BY <1>1, <1>3, <1>4 DEF Formed, ActorHeld, TargetVerified
<1>6. TokenHeld(c)'
  BY <1>1, <1>2, <1>3, <1>4 DEF TokenHeld, Unverified, Exists
<1>7. CountHolds(c)'
  BY <1>2, <1>3, <1>4 DEF CountHolds, Admins, IsAdmin, Exists
<1> QED BY <1>1, <1>2, <1>3, <1>5, <1>6, <1>7, QuietGround DEF Grounded

\* The commit of c leaves what the others rely on, if it leaves their tokens
\* and the truth of the plain count.
LEMMA CommitGround ==
  ASSUME GroundInv, AdminInv', NEW c \in Clients, NEW u \in Ids, u = tx[c].id, Commits(c),
         tx[c].at \in {"cascade", "write"},
         \A id \in Ids \ {u} : users'[id] = users[id],
         Unverified(u) /\ Exists(u)' /\ ~Unverified(u)' => TokenRow(u) \in tx[c].held,
         Bootstrap = u \/ (Admins = {} <=> Admins' = {})
  PROVE  GroundInv'
<1>1. AdminInv /\ tx \in [Clients -> Tx] /\ UserRow(u) \in tx[c].held /\ Exists(u)
  BY DEF GroundInv, AdminInv, TypeOK, Targeted
<1>2. tx'[c] = NoTx /\ \A d \in Clients \ {c} : tx'[d] = tx[d]
  BY <1>1 DEF Commits
<1>3. ASSUME NEW d \in Clients, d # c
      PROVE  Grounded(d)'
  <2>1. tx'[d] = tx[d] /\ Grounded(d) /\ Targeted(d) /\ tx[d].held \cap tx[c].held = {}
    BY <1>2, <1>3 DEF GroundInv, AdminInv, TypeOK
  <2>2. \A id \in Ids : UserRow(id) \in tx[d].held => users'[id] = users[id]
    BY <1>1, <2>1
  <2>3. Formed(d)'
    BY <2>1 DEF Grounded, Formed
  <2>4. ActorHeld(d)'
    BY <2>1, <2>2 DEF Grounded, ActorHeld, IsAdmin, Exists
  <2>5. TargetVerified(d)'
    BY <2>1, <2>2 DEF Grounded, TargetVerified, Targeted
  <2>6. ASSUME tx[d].kind = "verify", tx[d].at \in {"target", "count", "write"}
        PROVE  TokenHeld(d)'
    <3> PICK id : id = tx[d].id
      OBVIOUS
    <3>1. TokenRow(id) \in tx[d].held /\ (Exists(id) => Unverified(id))
      BY <2>1, <2>6 DEF Grounded, TokenHeld
    <3>2. Exists(id)' => Unverified(id)'
      <4>1. CASE id # u
        BY <3>1, <4>1 DEF Unverified, Exists
      <4>2. CASE id = u
        BY <1>1, <2>1, <3>1, <4>2
      <4> QED BY <4>1, <4>2
    <3> QED BY <2>1, <3>1, <3>2 DEF TokenHeld
  <2>61. TokenHeld(d)'
    BY <2>1, <2>6 DEF TokenHeld
  <2>7. CountHolds(d)'
    <3>1. SUFFICES ASSUME tx[d].kind = "verify", tx[d].at = "write", tx[d].id = Bootstrap
                   PROVE  Admins = {} <=> Admins' = {}
      BY <2>1 DEF Grounded, CountHolds
    <3>2. UserRow(Bootstrap) \in tx[d].held
      BY <2>1, <3>1 DEF Targeted
    <3> QED BY <1>1, <2>1, <3>2
  <2> QED BY <2>3, <2>4, <2>5, <2>61, <2>7 DEF Grounded
<1>4. Grounded(c)'
  BY <1>2, NoTxGrounded
<1> QED BY <1>3, <1>4 DEF GroundInv

LEMMA ChangeRoleGround ==
  ASSUME GroundInv, NEW c \in Clients, ChangeRole(c)
  PROVE  GroundInv'
<1>1. /\ AdminInv /\ AdminInv' /\ tx[c].at = "write" /\ tx[c].kind = "role" /\ tx[c].id \in Ids
      /\ Commits(c) /\ Exists(tx[c].id)
  BY ChangeRoleInv DEF GroundInv, AdminInv, Targeted, ChangeRole
<1>2. PICK u \in Ids : u = tx[c].id
  BY <1>1
<1>3. users \in [Ids -> Account \cup {Absent}] /\ users[u] \in Account
  BY <1>1, <1>2 DEF AdminInv, TypeOK, Exists
<1>4. PICK r : users' = [users EXCEPT ![u].role = r, ![u].version = @ + 1]
  BY <1>2 DEF ChangeRole
<1>5. \A id \in Ids \ {u} : users'[id] = users[id]
  BY <1>3, <1>4
<1>6. users'[u].verified = users[u].verified
  BY <1>3, <1>4 DEF Account
<1>7. Admins # {} /\ Admins' # {}
  <2>1. IsAdmin(tx[c].actor)
    BY <1>1 DEF GroundInv, Grounded, ActorHeld
  <2>2. Admins # {}
    BY <2>1 DEF Admins, IsAdmin, Exists
  <2>3. Next
    BY DEF Next, Step
  <2> QED BY <1>1, <2>2, <2>3, CommitsSpareAdmins
<1> QED BY <1>1, <1>2, <1>5, <1>6, <1>7, CommitGround DEF Unverified

LEMMA DeleteGround ==
  ASSUME GroundInv, NEW c \in Clients, Delete(c)
  PROVE  GroundInv'
<1>1. /\ AdminInv /\ AdminInv' /\ tx[c].at = "cascade" /\ tx[c].id \in Ids /\ Commits(c)
      /\ users \in [Ids -> Account \cup {Absent}]
  BY DeleteInv DEF GroundInv, AdminInv, TypeOK, Targeted, Delete
<1>2. PICK u \in Ids : u = tx[c].id
  BY <1>1
<1>3. users' = [users EXCEPT ![u] = Absent]
  BY <1>2 DEF Delete
<1>4. (\A id \in Ids \ {u} : users'[id] = users[id]) /\ ~Exists(u)'
  BY <1>1, <1>3 DEF Exists
<1>5. Admins = {} <=> Admins' = {}
  <2>1. Admins' \subseteq Admins
    BY <1>4 DEF Admins, IsAdmin, Exists
  <2>2. Next
    BY DEF Next, Step
  <2> QED BY <1>1, <2>1, <2>2, CommitsSpareAdmins
<1> QED BY <1>1, <1>2, <1>4, <1>5, CommitGround

LEMMA VerifyEmailGround ==
  ASSUME GroundInv, NEW c \in Clients, VerifyEmail(c)
  PROVE  GroundInv'
<1>1. /\ AdminInv /\ AdminInv' /\ tx[c].at = "write" /\ tx[c].kind = "verify" /\ tx[c].id \in Ids
      /\ Commits(c) /\ users \in [Ids -> Account \cup {Absent}] /\ Exists(tx[c].id)
      /\ TokenRow(tx[c].id) \in tx[c].held
  BY VerifyEmailInv DEF GroundInv, AdminInv, TypeOK, Targeted, VerifyEmail, Grounded, TokenHeld
<1>2. PICK u \in Ids : u = tx[c].id
  BY <1>1
<1>3. \A i \in Ids \ {u} : users'[i] = users[i]
  BY <1>1, <1>2 DEF VerifyEmail
<1>4. ASSUME u # Bootstrap
      PROVE  Admins = {} <=> Admins' = {}
  <2>1. users'[u].role = users[u].role /\ users'[u] # Absent
    BY <1>1, <1>2, <1>4 DEF VerifyEmail, Absent
  <2> QED BY <1>1, <1>2, <1>3, <2>1 DEF Admins, IsAdmin, Exists
<1> QED BY <1>1, <1>2, <1>3, <1>4, CommitGround

LEMMA NextGround ==
  ASSUME GroundInv, [Next]_vars
  PROVE  GroundInv'
<1>1. CASE Next
  <2>1. PICK c \in Clients : Begin(c) \/ Step(c) \/ Victim(c) \/ Fail(c)
    BY <1>1 DEF Next
  <2>2. CASE Begin(c)
    BY <2>2, BeginGround
  <2>3. CASE Victim(c) \/ Fail(c)
    BY <2>3, RollbackGround DEF Victim, Fail
  <2>4. CASE Step(c)
    BY <2>4, LockActorGround, LockTokenGround, LockTargetGround, AdminsGround,
       CountPlainlyGround, ChangeRoleGround, DeleteGround, VerifyEmailGround DEF Step
  <2> QED BY <2>1, <2>2, <2>3, <2>4
<1>2. CASE UNCHANGED vars
  <2>1. users' = users /\ tx' = tx
    BY <1>2 DEF vars
  <2>2. ASSUME NEW c \in Clients PROVE Grounded(c)'
    <3>1. Grounded(c)
      BY DEF GroundInv
    <3> QED BY <2>1, <3>1 DEF Grounded, Formed, ActorHeld, TargetVerified, TokenHeld,
               CountHolds, Unverified, Admins, IsAdmin, Exists
  <2> QED BY <1>2, <2>2, NextInv DEF GroundInv
<1> QED BY <1>1, <1>2

-----------------------------------------------------------------------------
(* The state of Identity that a state here stands for.                     *)

LEMMA AbstractAccounts ==
  ASSUME AdminInv
  PROVE  /\ \A id \in Ids : (Accounts!Exists(id) <=> Exists(id)) /\ (Accounts!IsAdmin(id) <=> IsAdmin(id))
         /\ \A id \in Ids : Accounts!EmailVerified(id) <=> Exists(id) /\ users[id].verified
         /\ Accounts!Admins = Admins
<1>1. ASSUME NEW id \in Ids, Exists(id)
      PROVE  AccountRows[id] # Accounts!Absent /\ AccountRows[id].role = users[id].role
             /\ AccountRows[id].verified = users[id].verified
  <2>1. users[id].role \in Roles
    BY <1>1 DEF AdminInv, TypeOK, Exists, Account
  <2>2. AccountRows[id] = [email |-> id, pending |-> 0, verified |-> users[id].verified,
                           role |-> users[id].role, version |-> users[id].version]
    BY <1>1 DEF AccountRows
  <2>3. AccountRows[id].role # Accounts!Absent.role
    BY <2>1, <2>2 DEF Roles, Accounts!Absent
  <2> QED BY <2>2, <2>3
<1>2. ASSUME NEW id \in Ids, ~Exists(id)
      PROVE  AccountRows[id] = Accounts!Absent
  BY <1>2 DEF AccountRows, Absent, Accounts!Absent
<1>3. ASSUME NEW id \in Ids
      PROVE  Accounts!Exists(id) <=> Exists(id)
  BY <1>1, <1>2 DEF Accounts!Exists, Accounts!Ids, Ids
<1>4. ASSUME NEW id \in Ids
      PROVE  Accounts!IsAdmin(id) <=> IsAdmin(id)
  BY <1>1, <1>3 DEF Accounts!IsAdmin, IsAdmin
<1>5. ASSUME NEW id \in Ids
      PROVE  Accounts!EmailVerified(id) <=> Exists(id) /\ users[id].verified
  BY <1>1, <1>3 DEF Accounts!EmailVerified
<1>6. Accounts!Admins = Admins
  BY <1>4 DEF Accounts!Admins, Admins, Accounts!Ids, Ids
<1> QED BY <1>3, <1>4, <1>5, <1>6

\* No transaction of these calls is held open by Identity, and there are no sessions.
LEMMA NothingHeld ==
  /\ \A id : Accounts!RowFree(id) /\ Accounts!RevokeSessions(id) = {}
  /\ Accounts!ScanFree
<1>1. \A c \in Clients : Requests[c].at # "write"
  BY DEF Requests, Request
<1> QED BY <1>1 DEF Accounts!RowFree, Accounts!ScanFree, Accounts!RevokeSessions

\* A step of c changes no other request.
LEMMA OnlyRequest ==
  ASSUME NEW c \in Clients, NEW r, Request(c)' = r, \A d \in Clients \ {c} : tx'[d] = tx[d]
  PROVE  Requests' = [Requests EXCEPT ![c] = r]
BY DEF Requests, Request

LEMMA RequestEnds ==
  ASSUME NEW c \in Clients, tx'[c] = NoTx, \A d \in Clients \ {c} : tx'[d] = tx[d]
  PROVE  Requests' = [Requests EXCEPT ![c] = Accounts!NoReq]
<1>1. Request(c)' = Accounts!NoReq
  BY DEF Request, NoTx, Accounts!NoReq
<1>2. ASSUME NEW d \in Clients, d # c
      PROVE  Request(d)' = Request(d)
  BY <1>2 DEF Request
<1> QED BY <1>1, <1>2 DEF Requests

\* Verifying is no request of Identity: the link is all it needs.
LEMMA VerifyingIsIdle ==
  ASSUME NEW c \in Clients, tx[c].kind = "verify", Formed(c)
  PROVE  Requests[c] = Accounts!NoReq
BY DEF Requests, Request, Accounts!NoReq, Formed

LEMMA RowsKept ==
  ASSUME users' = users, welcomed' = welcomed
  PROVE  AccountRows' = AccountRows /\ TokenRows' = TokenRows
BY DEF AccountRows, TokenRows, Unverified, Exists

LEMMA Stutters ==
  ASSUME users' = users, welcomed' = welcomed, Requests' = Requests
  PROVE  UNCHANGED Accounts!vars
BY RowsKept DEF Accounts!vars, Ids

-----------------------------------------------------------------------------
(* The steps.  Locks and counts are stutters of Identity, beginnings and   *)
(* rollbacks are steps of its requests, commits are its transactions.      *)

Implemented == UNCHANGED Accounts!vars \/ \E c \in Clients : AtomicStep(c)

LEMMA LockedStutters ==
  ASSUME GroundInv, NEW c \in Clients, NEW next, Locked(c, next)
  PROVE  UNCHANGED Accounts!vars
<1>1. tx \in [Clients -> Tx] /\ users' = users /\ welcomed' = welcomed
  BY DEF GroundInv, AdminInv, TypeOK, Locked
<1>2. \A d \in Clients : Request(d)' = Request(d)
  <2>1. ASSUME NEW d \in Clients
        PROVE  /\ tx'[d].kind = tx[d].kind /\ tx'[d].id = tx[d].id
               /\ tx'[d].actor = tx[d].actor /\ tx'[d].role = tx[d].role
    BY <1>1 DEF Locked, Tx
  <2> QED BY <2>1 DEF Request
<1>3. Requests' = Requests
  BY <1>2 DEF Requests
<1> QED BY <1>1, <1>3, Stutters

LEMMA CountStutters ==
  ASSUME GroundInv, NEW c \in Clients, CountPlainly(c)
  PROVE  UNCHANGED Accounts!vars
<1>1. tx \in [Clients -> Tx] /\ users' = users /\ welcomed' = welcomed
  BY DEF GroundInv, AdminInv, TypeOK, CountPlainly
<1>2. \A d \in Clients : Request(d)' = Request(d)
  <2>1. ASSUME NEW d \in Clients
        PROVE  /\ tx'[d].kind = tx[d].kind /\ tx'[d].id = tx[d].id
               /\ tx'[d].actor = tx[d].actor /\ tx'[d].role = tx[d].role
    BY <1>1 DEF CountPlainly, Tx
  <2> QED BY <2>1 DEF Request
<1>3. Requests' = Requests
  BY <1>2 DEF Requests
<1> QED BY <1>1, <1>3, Stutters

LEMMA RollbackImplemented ==
  ASSUME GroundInv, NEW c \in Clients, tx[c].at # "idle", Rollback(c)
  PROVE  Implemented
<1>1. /\ tx \in [Clients -> Tx] /\ Targeted(c) /\ Formed(c)
      /\ tx[c].kind \in {"role", "delete", "verify"}
  BY DEF GroundInv, Grounded, AdminInv, TypeOK, Targeted, Tx, Kinds
<1>2. /\ users' = users /\ welcomed' = welcomed /\ tx'[c] = NoTx
      /\ \A d \in Clients \ {c} : tx'[d] = tx[d]
  BY <1>1 DEF Rollback, RolledBack
<1>3. Requests' = [Requests EXCEPT ![c] = Accounts!NoReq]
  BY <1>2, RequestEnds
<1>4. CASE tx[c].kind \in {"role", "delete"}
  <2>1. Requests[c].at # "idle"
    BY <1>4 DEF Requests, Request
  <2>2. Accounts!Ends(c, Requests[c].at)
    BY <1>3 DEF Accounts!Ends
  <2>3. Accounts!Fail(c)
    BY <1>2, <2>1, <2>2, RowsKept DEF Accounts!Fail, Accounts!tables, Ids
  <2> QED BY <2>3 DEF Implemented, AtomicStep
<1>5. CASE tx[c].kind = "verify"
  <2>1. Requests' = Requests
    BY <1>1, <1>3, <1>5, VerifyingIsIdle DEF Requests
  <2> QED BY <1>2, <2>1, Stutters DEF Implemented
<1> QED BY <1>1, <1>4, <1>5

RequestSlot == [at : {"idle", "role", "delete"}, id : 0..MaxUsers, actor : 0..MaxUsers,
                email : {0}, version : {0}, token : {0}, role : Roles]

LEMMA BeginImplemented ==
  ASSUME GroundInv, NEW c \in Clients, Begin(c)
  PROVE  Implemented
<1>1. AdminInv /\ tx \in [Clients -> Tx]
  BY DEF GroundInv, AdminInv, TypeOK
<1>2. ASSUME NEW t, Begins(c, t)
      PROVE  /\ tx[c] = NoTx /\ tx'[c] = t /\ (\A d \in Clients \ {c} : tx'[d] = tx[d])
             /\ users' = users /\ welcomed' = welcomed /\ Requests[c] = Accounts!NoReq
  <2>1. Requests[c] = Request(c) /\ tx[c] = NoTx
    BY <1>2 DEF Requests, Begins
  <2>2. Request(c) = Accounts!NoReq
    BY <2>1 DEF Request, NoTx, Accounts!NoReq
  <2> QED BY <1>1, <1>2, <2>1, <2>2 DEF Begins
<1>21. ASSUME NEW t, Begins(c, t), NEW r \in RequestSlot,
              r.at = IF t.kind \in {"role", "delete"} THEN t.kind ELSE "idle",
              r.id = IF t.kind = "verify" THEN 0 ELSE t.id,
              r.actor = t.actor, r.role = t.role, r.email = 0, r.version = 0, r.token = 0
       PROVE  Requests' = [Requests EXCEPT ![c] = r]
  <2>1. Request(c)' = [at |-> r.at, id |-> r.id, actor |-> r.actor, email |-> 0,
                       version |-> 0, token |-> 0, role |-> r.role]
    BY <1>2, <1>21 DEF Request
  <2>2. Request(c)' = r
    BY <1>21, <2>1 DEF RequestSlot
  <2> QED BY <1>2, <1>21, <2>2, OnlyRequest
<1>22. Accounts!NoReq \in RequestSlot /\ 0 \in 0..MaxUsers
  BY DEF Accounts!NoReq, RequestSlot, Roles
<1>3. ASSUME NEW actor \in Ids, NEW id \in Ids, BeginDelete(c, actor, id)
      PROVE  Implemented
  <2> DEFINE t == [NoTx EXCEPT !.kind = "delete", !.at = "target", !.actor = actor, !.id = id]
             r == [Accounts!NoReq EXCEPT !.at = "delete", !.actor = actor, !.id = id]
  <2>1. Begins(c, t)
    BY <1>3 DEF BeginDelete
  <2>2. /\ r \in RequestSlot /\ r.at = "delete" /\ r.id = id /\ r.actor = actor
        /\ r.role = "user" /\ r.email = 0 /\ r.version = 0 /\ r.token = 0
    BY <1>22, actor \in 0..MaxUsers, id \in 0..MaxUsers DEF RequestSlot, Accounts!NoReq, Ids
  <2>21. t.kind = "delete" /\ t.id = id /\ t.actor = actor /\ t.role = "user"
    BY DEF NoTx
  <2>3. Requests' = [Requests EXCEPT ![c] = r]
    <3> HIDE DEF r, t
    <3> QED BY <1>21, <2>1, <2>2, <2>21
  <2>4. CASE actor # id
    <3>1. Accounts!Begins(c, "delete", r)
      BY <1>2, <2>1, <2>3 DEF Accounts!Begins
    <3>2. Accounts!IsAdmin(actor) /\ Accounts!Exists(id)
      BY <1>1, <1>3, <2>4, AbstractAccounts DEF BeginDelete
    <3>3. Accounts!StartDelete(c, actor, id)
      BY <1>2, <2>1, <2>4, <3>1, <3>2, RowsKept DEF Accounts!StartDelete, Accounts!tables, Ids
    <3> QED BY <3>3 DEF Implemented, AtomicStep
  <2>5. CASE actor = id
    <3>1. Accounts!Begins(c, "deleteSelf", r)
      BY <1>2, <2>1, <2>3 DEF Accounts!Begins
    <3>2. Accounts!EmailVerified(id)
      BY <1>1, <1>3, <2>5, AbstractAccounts DEF BeginDelete
    <3>3. Accounts!StartDeleteSelf(c, id)
      BY <1>2, <2>1, <2>5, <3>1, <3>2, RowsKept DEF Accounts!StartDeleteSelf, Accounts!tables, Ids
    <3> QED BY <3>3 DEF Implemented, AtomicStep
  <2> QED BY <2>4, <2>5
<1>4. ASSUME NEW actor \in Ids, NEW id \in Ids, NEW role \in Roles,
             BeginChangeRole(c, actor, id, role)
      PROVE  Implemented
  <2> DEFINE t == [NoTx EXCEPT !.kind = "role", !.at = "actor", !.actor = actor,
                               !.id = id, !.role = role]
             r == [Accounts!NoReq EXCEPT !.at = "role", !.actor = actor, !.id = id, !.role = role]
  <2>1. Begins(c, t)
    BY <1>4 DEF BeginChangeRole
  <2>2. /\ r \in RequestSlot /\ r.at = "role" /\ r.id = id /\ r.actor = actor
        /\ r.role = role /\ r.email = 0 /\ r.version = 0 /\ r.token = 0
    BY <1>22, actor \in 0..MaxUsers, id \in 0..MaxUsers DEF RequestSlot, Accounts!NoReq, Ids
  <2>21. t.kind = "role" /\ t.id = id /\ t.actor = actor /\ t.role = role
    BY DEF NoTx
  <2>3. Requests' = [Requests EXCEPT ![c] = r]
    <3> HIDE DEF r, t
    <3> QED BY <1>21, <2>1, <2>2, <2>21
  <2>4. Accounts!Begins(c, "role", r)
    BY <1>2, <2>1, <2>3 DEF Accounts!Begins
  <2>5. Accounts!IsAdmin(actor) /\ Accounts!Exists(id)
    BY <1>1, <1>4, AbstractAccounts DEF BeginChangeRole
  <2>6. AccountRows[id].version = users[id].version /\ AccountRows[id].verified = users[id].verified
    BY <1>4 DEF BeginChangeRole, AccountRows
  <2>7. Accounts!StartChangeRole(c, actor, id, role)
    BY <1>2, <1>4, <2>1, <2>4, <2>5, <2>6, RowsKept
       DEF BeginChangeRole, Accounts!StartChangeRole, Accounts!tables, Ids
  <2> QED BY <2>7 DEF Implemented, AtomicStep
<1>5. ASSUME NEW id \in Ids, BeginVerify(c, id)
      PROVE  Implemented
  <2> DEFINE t == [NoTx EXCEPT !.kind = "verify", !.at = "token", !.id = id]
  <2>1. Begins(c, t)
    BY <1>5 DEF BeginVerify
  <2>2. t.kind = "verify" /\ t.actor = 0 /\ t.role = "user"
    BY DEF NoTx
  <2>3. Requests' = [Requests EXCEPT ![c] = Accounts!NoReq]
    <3> HIDE DEF t
    <3> QED BY <1>21, <1>22, <2>1, <2>2 DEF Accounts!NoReq
  <2>4. Requests' = Requests
    BY <1>2, <2>1, <2>3 DEF Requests
  <2> QED BY <1>2, <2>1, <2>4, Stutters DEF Implemented
<1> QED BY <1>3, <1>4, <1>5 DEF Begin

\* Two admins are more than one.
LEMMA TwoAdmins ==
  ASSUME NEW a \in Admins, NEW b \in Admins, a # b
  PROVE  Cardinality(Admins) > 1
<1>1. IsFiniteSet(Ids)
  BY FS_Interval DEF Ids
<1>2. IsFiniteSet(Admins)
  BY <1>1, FS_Subset DEF Admins
<1>3. IsFiniteSet({a}) /\ Cardinality({a}) = 1
  BY FS_Singleton
<1>4. Cardinality({a} \cup {b}) = 2
  BY <1>3, FS_AddElement
<1>5. Cardinality({a} \cup {b}) <= Cardinality(Admins)
  BY <1>2, FS_Subset
<1>6. Cardinality(Admins) \in Nat
  BY <1>2, FS_CardinalityType
<1> QED BY <1>4, <1>5, <1>6

\* The admin counted for a demotion or a deletion is still one.
LEMMA AdminLeftAtCommit ==
  ASSUME GroundInv, NEW c \in Clients, tx[c].at \in {"cascade", "write"}, Exists(tx[c].id),
         tx[c].kind = "delete" \/ (tx[c].kind = "role" /\ tx[c].role # "admin")
  PROVE  Accounts!AdminLeft(tx[c].id)
<1>1. AdminInv /\ Spared(c) /\ tx[c].id \in Ids
  BY DEF GroundInv, AdminInv, Exists
<1> PICK id \in Ids : id = tx[c].id
  BY <1>1
<1>2. ASSUME IsAdmin(tx[c].id)
      PROVE  Cardinality(Admins) > 1
  <2>1. PICK a \in Admins : a # tx[c].id
    BY <1>1, <1>2 DEF Spared, Demotes
  <2>2. tx[c].id \in Admins
    BY <1>1, <1>2 DEF Admins
  <2> QED BY <2>1, <2>2, TwoAdmins
<1>3. Accounts!IsAdmin(id) => Accounts!ScanFree /\ Cardinality(Accounts!Admins) > 1
  BY <1>1, <1>2, AbstractAccounts, NothingHeld
<1>31. Accounts!Cardinality(Accounts!Admins) = Cardinality(Accounts!Admins)
  BY DEF Cardinality, Accounts!Cardinality
<1>4. Accounts!AdminLeft(id)
  BY <1>3, <1>31 DEF Accounts!AdminLeft
<1> QED BY <1>4

LEMMA ChangeRoleImplemented ==
  ASSUME GroundInv, NEW c \in Clients, ChangeRole(c)
  PROVE  Accounts!ChangeRole(c)
<1>1. /\ AdminInv /\ tx[c] \in Tx /\ tx \in [Clients -> Tx]
      /\ tx[c].at = "write" /\ tx[c].kind = "role" /\ Exists(tx[c].id) /\ Commits(c)
      /\ IsAdmin(tx[c].actor) /\ (tx[c].role = "admin" => users[tx[c].id].verified)
  BY DEF ChangeRole, GroundInv, AdminInv, TypeOK, Targeted, Grounded, ActorHeld, TargetVerified
<1>2. PICK id, role : id = tx[c].id /\ role = tx[c].role
  OBVIOUS
<1>3. id \in Ids /\ users \in [Ids -> Account \cup {Absent}] /\ users[id] \in Account
  BY <1>1, <1>2 DEF AdminInv, TypeOK, Exists
<1>4. /\ Requests[c].at = "role" /\ Requests[c].id = id /\ Requests[c].role = role
      /\ Requests[c].actor = tx[c].actor
  BY <1>1, <1>2 DEF Requests, Request
<1>5. Accounts!Ends(c, "role")
  BY <1>1, <1>4, RequestEnds DEF Commits, Accounts!Ends
<1>6. Accounts!ActorIsAdmin(c) /\ Accounts!Exists(id)
  BY <1>1, <1>2, <1>3, <1>4, AbstractAccounts DEF Accounts!ActorIsAdmin, IsAdmin, Exists
<1>7. role = "admin" => AccountRows[id].verified
  BY <1>1, <1>2, <1>3 DEF AccountRows
<1>8. role # "admin" => Accounts!AdminLeft(id)
  BY <1>1, <1>2, AdminLeftAtCommit
<1>9. /\ users'[id].role = role /\ users'[id].version = users[id].version + 1
      /\ users'[id].verified = users[id].verified /\ users'[id] # Absent
      /\ \A i \in Ids \ {id} : users'[i] = users[i]
  BY <1>1, <1>2, <1>3 DEF ChangeRole, Account, Absent, Roles, Tx
<1>10. \A i \in Ids : (Exists(i)' <=> Exists(i)) /\ (Unverified(i)' <=> Unverified(i))
  BY <1>1, <1>2, <1>3, <1>9 DEF Exists, Unverified
<1>11. TokenRows' = TokenRows
  BY <1>10 DEF TokenRows
<1>12. AccountRows' = [AccountRows EXCEPT ![id].role = role, ![id].version = @ + 1]
  BY <1>1, <1>2, <1>3, <1>9, <1>10 DEF AccountRows
<1>13. welcomed' = welcomed
  BY DEF ChangeRole
<1> QED BY <1>4, <1>5, <1>6, <1>7, <1>8, <1>11, <1>12, <1>13, NothingHeld
        DEF Accounts!ChangeRole, Ids

LEMMA DeleteImplemented ==
  ASSUME GroundInv, NEW c \in Clients, Delete(c)
  PROVE  Accounts!Delete(c)
<1>1. /\ AdminInv /\ tx[c] \in Tx /\ tx \in [Clients -> Tx]
      /\ tx[c].at = "cascade" /\ tx[c].kind = "delete" /\ Exists(tx[c].id) /\ Commits(c)
      /\ users \in [Ids -> Account \cup {Absent}]
  BY DEF Delete, GroundInv, AdminInv, TypeOK, Targeted
<1>2. PICK id \in Ids : id = tx[c].id
  BY <1>1 DEF Exists
<1>3. Requests[c].at = "delete" /\ Requests[c].id = id
  BY <1>1, <1>2 DEF Requests, Request
<1>4. Accounts!Ends(c, "delete")
  BY <1>1, <1>3, RequestEnds DEF Commits, Accounts!Ends
<1>5. Accounts!Exists(id) /\ Accounts!AdminLeft(id)
  BY <1>1, <1>2, AbstractAccounts, AdminLeftAtCommit
<1>6. users'[id] = Absent /\ \A i \in Ids \ {id} : users'[i] = users[i]
  BY <1>1, <1>2 DEF Delete
<1>7. /\ ~Exists(id)' /\ ~Unverified(id)'
      /\ \A i \in Ids \ {id} : (Exists(i)' <=> Exists(i)) /\ (Unverified(i)' <=> Unverified(i))
  BY <1>6 DEF Exists, Unverified
<1>8. TokenRows' = [TokenRows EXCEPT ![id] = Accounts!NoToken]
  BY <1>7 DEF TokenRows, Accounts!NoToken
<1>9. AccountRows' = [AccountRows EXCEPT ![id] = Accounts!Absent]
  BY <1>6, <1>7 DEF AccountRows, Absent, Accounts!Absent
<1>10. welcomed' = welcomed
  BY DEF Delete
<1> QED BY <1>3, <1>4, <1>5, <1>8, <1>9, <1>10, NothingHeld DEF Accounts!Delete, Ids

LEMMA VerifyEmailImplemented ==
  ASSUME GroundInv, NEW c \in Clients, VerifyEmail(c)
  PROVE  Accounts!VerifyEmail([hash |-> tx[c].id, user |-> tx[c].id])
<1>1. /\ AdminInv /\ tx[c] \in Tx /\ tx \in [Clients -> Tx]
      /\ tx[c].at = "write" /\ tx[c].kind = "verify" /\ Exists(tx[c].id) /\ Commits(c)
      /\ users \in [Ids -> Account \cup {Absent}] /\ Unverified(tx[c].id)
      /\ Formed(c) /\ (tx[c].id = Bootstrap => (tx[c].none <=> Admins = {}))
  BY DEF VerifyEmail, GroundInv, AdminInv, TypeOK, Targeted, Grounded, TokenHeld, CountHolds
<1>2. PICK id \in Ids : id = tx[c].id
  BY <1>1 DEF Exists
<1>3. users[id] \in Account /\ Accounts!Exists(id)
  BY <1>1, <1>2, AbstractAccounts DEF Exists
<1>4. AccountRows[id] = [email |-> id, pending |-> 0, verified |-> FALSE,
                         role |-> users[id].role, version |-> users[id].version]
  BY <1>1, <1>2, <1>3 DEF AccountRows, Unverified, Account
<1>5. TokenRows[id].hash = id /\ TokenRows[id].age = "new"
  BY <1>1, <1>2 DEF TokenRows
<1>6. Accounts!VerifiedEmail(id) = id /\ Accounts!FirstVerification(id)
  BY <1>4 DEF Accounts!VerifiedEmail, Accounts!FirstVerification
<1>7. ~Accounts!EmailElsewhere(id, id)
  BY DEF Accounts!EmailElsewhere, Accounts!Present, Accounts!Ids, Ids, AccountRows,
         Accounts!Absent, Absent
<1>8. Accounts!VerifiedRole(id) = IF id = Bootstrap /\ tx[c].none THEN "admin" ELSE users[id].role
  BY <1>1, <1>2, <1>4, <1>6, AbstractAccounts DEF Accounts!VerifiedRole
<1>9. /\ users'[id] = [verified |-> TRUE, version |-> users[id].version + 1,
                       role |-> Accounts!VerifiedRole(id)]
      /\ \A i \in Ids \ {id} : users'[i] = users[i]
  BY <1>1, <1>2, <1>8 DEF VerifyEmail
<1>10. /\ Exists(id)' /\ ~Unverified(id)'
       /\ \A i \in Ids \ {id} : (Exists(i)' <=> Exists(i)) /\ (Unverified(i)' <=> Unverified(i))
  BY <1>9 DEF Exists, Unverified, Absent
<1>11. AccountRows' = [AccountRows EXCEPT ![id] =
         [email |-> Accounts!VerifiedEmail(id), pending |-> 0, verified |-> TRUE,
          role |-> Accounts!VerifiedRole(id), version |-> AccountRows[id].version + 1]]
  <2>1. AccountRows'[id] = [email |-> id, pending |-> 0, verified |-> TRUE,
          role |-> Accounts!VerifiedRole(id), version |-> users[id].version + 1]
    <3>1. /\ users'[id].verified = TRUE /\ users'[id].version = users[id].version + 1
          /\ users'[id].role = Accounts!VerifiedRole(id)
      BY <1>9
    <3> QED BY <1>10, <3>1 DEF AccountRows
  <2>2. \A i \in Ids \ {id} : AccountRows'[i] = AccountRows[i]
    BY <1>9, <1>10 DEF AccountRows
  <2>3. AccountRows[id].version = users[id].version
    BY <1>4
  <2> QED BY <1>6, <2>1, <2>2, <2>3 DEF AccountRows
<1>12. TokenRows' = [TokenRows EXCEPT ![id] = Accounts!NoToken]
  BY <1>10 DEF TokenRows, Accounts!NoToken
<1>13. Requests' = Requests
  BY <1>1, RequestEnds, VerifyingIsIdle DEF Commits, Requests
<1>14. welcomed' = [welcomed EXCEPT ![id] = @ + IF Accounts!FirstVerification(id) THEN 1 ELSE 0]
  <2>1. ~users[id].verified
    BY <1>1, <1>2 DEF Unverified
  <2> QED BY <1>2, <1>6, <2>1 DEF VerifyEmail
<1> DEFINE m == [hash |-> id, user |-> id]
<1>15. m.hash = id /\ m.user = id
  OBVIOUS
<1>16. Accounts!VerifyEmail(m)
  BY <1>3, <1>5, <1>6, <1>7, <1>11, <1>12, <1>13, <1>14, <1>15, NothingHeld
     DEF Accounts!VerifyEmail, Ids
<1> QED BY <1>2, <1>16

LEMMA NextImplemented ==
  ASSUME GroundInv, [Next]_vars
  PROVE  Implemented
<1>1. CASE Next
  <2>1. PICK c \in Clients : Begin(c) \/ Step(c) \/ Victim(c) \/ Fail(c)
    BY <1>1 DEF Next
  <2>2. CASE Begin(c)
    BY <2>2, BeginImplemented
  <2>3. ASSUME Rollback(c), tx[c].at # "idle"
        PROVE  Implemented
    BY <2>3, RollbackImplemented
  <2>4. CASE Victim(c) \/ Fail(c)
    <3>1. tx[c].at = "idle" => Locks(c) = {}
      BY DEF Locks
    <3>2. Victim(c) => \E d : WaitsFor(c, d)
      BY DEF Victim, InDeadlock
    <3> QED BY <2>3, <2>4, <3>1, <3>2 DEF Victim, Fail, WaitsFor
  <2>5. CASE LockActor(c) \/ LockToken(c) \/ LockTarget(c) \/ LockAdmins(c) \/ CountAdmins(c)
    BY <2>3, <2>5, LockedStutters
       DEF LockActor, LockToken, LockTarget, LockAdmins, CountAdmins, Implemented
  <2>6. CASE CountPlainly(c)
    BY <2>6, CountStutters DEF Implemented
  <2>7. CASE ChangeRole(c) \/ Delete(c) \/ VerifyEmail(c)
    BY <2>7, ChangeRoleImplemented, DeleteImplemented, VerifyEmailImplemented
       DEF Implemented, AtomicStep
  <2> QED BY <2>1, <2>2, <2>4, <2>5, <2>6, <2>7 DEF Step
<1>2. CASE UNCHANGED vars
  <2>1. users' = users /\ tx' = tx /\ welcomed' = welcomed
    BY <1>2 DEF vars
  <2>2. Requests' = Requests
    BY <2>1 DEF Requests, Request
  <2> QED BY <2>1, <2>2, Stutters DEF Implemented
<1> QED BY <1>1, <1>2

\* Statement by statement, with locks, cycles and rollbacks, the transactions
\* of ChangeRole, Delete and VerifyEmail do no more than the atomic ones of
\* Identity, for any number of users and of transactions.
THEOREM StatementsActAtomically == Spec => ImplementsAccounts
<1>1. GroundInv /\ [Next]_vars => [UNCHANGED Accounts!vars \/ \E c \in Clients : AtomicStep(c)]_vars
  BY NextImplemented DEF Implemented
<1> QED BY <1>1, InitGround, NextGround, PTL DEF Spec, ImplementsAccounts

\* Each step so taken is one of Identity's next-state relation.
THEOREM StepsOfIdentity == Spec => [][Accounts!Next]_(Accounts!vars)
<1>1. ASSUME NEW c \in Clients, AtomicStep(c)
      PROVE  Accounts!Next
  <2>1. CASE Accounts!Fail(c) \/ Accounts!ChangeRole(c) \/ Accounts!Delete(c)
    BY <2>1 DEF Accounts!Next, Accounts!Continue
  <2>2. CASE Accounts!VerifyEmail([hash |-> tx[c].id, user |-> tx[c].id])
    <3>1. tx[c].id \in Ids
      BY <2>2 DEF Accounts!VerifyEmail, Accounts!Exists, Accounts!Ids, Ids
    <3> QED BY <2>2, <3>1 DEF Accounts!Next
  <2>3. ASSUME NEW actor \in Ids, NEW id \in Ids,
               Accounts!StartDelete(c, actor, id) \/ Accounts!StartDeleteSelf(c, id)
                 \/ \E role \in Roles : Accounts!StartChangeRole(c, actor, id, role)
        PROVE  Accounts!Next
    <3>1. Accounts!Begin(c)
      BY <2>3 DEF Accounts!Begin, Accounts!Ids, Ids, Accounts!Roles, Roles
    <3> QED BY <3>1 DEF Accounts!Next
  <2> QED BY <1>1, <2>1, <2>2, <2>3 DEF AtomicStep
<1>2. GroundInv /\ [Next]_vars => [Accounts!Next]_(Accounts!vars)
  BY <1>1, NextImplemented DEF Implemented
<1> QED BY <1>2, InitGround, NextGround, PTL DEF Spec

\* Identity's RoleChangesAuthorised, of the statements: who changes a role is
\* still an admin at the commit, and a verification makes its user an admin
\* only while there is none, though it counted the admins without a lock.
RoleChangesAuthorised ==
  [][\A id \in Present : users'[id] # Absent /\ users'[id].role # users[id].role =>
       \/ \E c \in Clients : /\ tx[c].kind = "role" /\ tx[c].id = id /\ tx'[c].at = "idle"
                             /\ tx[c].actor \in Admins
       \/ Admins = {} /\ id = Bootstrap /\ users'[id].verified]_vars

\* A role changes only by an admin's ChangeRole or by the bootstrap user's
\* verification while nobody is an admin, whatever happens between the reads
\* of a transaction and its commit.
THEOREM RolesChangeByAuthority == Spec => RoleChangesAuthorised
<1>1. ASSUME GroundInv, Next, NEW id \in Present,
             users'[id] # Absent, users'[id].role # users[id].role
      PROVE  \/ \E c \in Clients : /\ tx[c].kind = "role" /\ tx[c].id = id /\ tx'[c].at = "idle"
                                   /\ tx[c].actor \in Admins
             \/ Admins = {} /\ id = Bootstrap /\ users'[id].verified
  <2>1. PICK c \in Clients : Begin(c) \/ Step(c) \/ Victim(c) \/ Fail(c)
    BY <1>1 DEF Next
  <2>2. /\ AdminInv /\ Grounded(c) /\ Targeted(c) /\ tx \in [Clients -> Tx] /\ id \in Ids
        /\ users \in [Ids -> Account \cup {Absent}]
    BY <1>1 DEF GroundInv, AdminInv, TypeOK, Present
  <2>3. CASE ChangeRole(c)
    <3>1. tx[c].id = id
      BY <1>1, <2>2, <2>3 DEF ChangeRole
    <3>2. tx'[c].at = "idle"
      BY <2>2, <2>3, NoTxType DEF ChangeRole, Commits
    <3>3. tx[c].kind = "role" /\ IsAdmin(tx[c].actor)
      BY <2>2, <2>3 DEF ChangeRole, Grounded, ActorHeld
    <3>4. tx[c].actor \in Admins
      BY <3>3 DEF Admins, IsAdmin, Exists
    <3> QED BY <3>1, <3>2, <3>3, <3>4
  <2>4. CASE Delete(c)
    BY <1>1, <2>2, <2>4 DEF Delete
  <2>5. CASE VerifyEmail(c)
    <3>1. tx[c].id = id
      BY <1>1, <2>2, <2>5 DEF VerifyEmail
    <3>2. users'[id] = [verified |-> TRUE, version |-> users[id].version + 1,
            role |-> IF id = Bootstrap /\ tx[c].none THEN "admin" ELSE users[id].role]
      BY <2>2, <2>5, <3>1 DEF VerifyEmail
    <3>3. id = Bootstrap /\ tx[c].none /\ users'[id].verified
      BY <1>1, <3>2
    <3>4. Admins = {}
      BY <2>2, <2>5, <3>1, <3>3 DEF VerifyEmail, Grounded, CountHolds
    <3> QED BY <3>3, <3>4
  <2>6. CASE ~(ChangeRole(c) \/ Delete(c) \/ VerifyEmail(c))
    <3>1. users' = users
      BY <2>1, <2>6, OnlyCommitsWrite
    <3> QED BY <1>1, <3>1
  <2> QED BY <2>3, <2>4, <2>5, <2>6
<1>2. GroundInv /\ [Next]_vars =>
        [\A id \in Present : users'[id] # Absent /\ users'[id].role # users[id].role =>
           \/ \E c \in Clients : /\ tx[c].kind = "role" /\ tx[c].id = id /\ tx'[c].at = "idle"
                                 /\ tx[c].actor \in Admins
           \/ Admins = {} /\ id = Bootstrap /\ users'[id].verified]_vars
  BY <1>1
<1> QED BY <1>2, InitGround, NextGround, PTL DEF Spec, RoleChangesAuthorised
===============================================================================
