------------------------------- MODULE Identity -------------------------------
(***************************************************************************)
(* Users, email verification, roles and refresh tokens: the services of    *)
(* internal/auth and internal/user over the tables users,                  *)
(* email_verification_tokens and refresh_tokens, as several HTTP requests  *)
(* run them at once.                                                       *)
(*                                                                         *)
(* A request is a slot of `req`.  Each read a service acts on later, and   *)
(* each repository transaction, is one step of the request; what it read   *)
(* is kept in the slot.  The transaction of UpdateProfile counts claims    *)
(* with a non-locking read and is two steps, holding its row lock between  *)
(* them; the other transactions lock what they read and are one.  A        *)
(* request may fail at any step, which rolls its transaction back.         *)
(***************************************************************************)
EXTENDS Integers, FiniteSets

CONSTANTS
  Clients,    \* request slots: how many requests run at once
  Calls,      \* the endpoints the clients of an instance use
  Emails, NoEmail,
  Bootstrap,  \* AUTH_BOOTSTRAP_ADMIN_EMAIL, NoEmail when not configured
  MaxUsers,   \* bound on accounts ever created
  MaxHash,    \* bound on tokens ever generated
  MaxVersion  \* bound on token versions

Endpoint == {"register", "create", "resend", "update", "rename", "verify", "login",
             "refresh", "logout", "password", "role", "delete", "deleteSelf", "cleanup"}

ASSUME CallsAssumption == Calls \subseteq Endpoint
ASSUME EmailAssumption == NoEmail \notin Emails /\ Bootstrap \in Emails \cup {NoEmail}
ASSUME MaxAssumption == MaxUsers \in Nat /\ MaxHash \in Nat /\ MaxVersion \in Nat

VARIABLES
  users,    \* rows of users, by id: an account or Absent
  vtokens,  \* row of email_verification_tokens of each user, or NoToken
  rtokens,  \* rows of refresh_tokens, with the claims their JWT carries
  mails,    \* verification messages handed to the queue
  req,      \* the local state of each request
  nextUser, \* AUTO_INCREMENT of users
  nextHash, \* source of fresh tokens
  welcomed  \* history: welcome messages owed to each user

vars == <<users, vtokens, rtokens, mails, req, nextUser, nextHash, welcomed>>
tables == <<users, vtokens, rtokens>>

Ids == 1..MaxUsers
Roles == {"user", "admin"}
Account == [email : Emails, pending : Emails \cup {NoEmail}, verified : BOOLEAN,
            role : Roles, version : Nat \ {0}]
Absent == [role |-> "none"]
VToken == [hash : Nat \ {0}, age : {"new", "old", "expired"}]
NoToken == [hash |-> 0, age |-> "expired"]

\* A refresh token: the version its JWT claims, and the hash it was rotated
\* from (0 for a login).
RToken == [hash : Nat \ {0}, user : Ids, version : Nat \ {0}, from : Nat,
           revoked : BOOLEAN, expired : BOOLEAN]

Steps == {"idle", "create", "send", "issue", "replace", "profile", "write",
          "login", "account", "rotate", "password", "role", "delete"}
NoReq == [at |-> "idle", id |-> 0, actor |-> 0, email |-> NoEmail, version |-> 0,
          token |-> 0, role |-> "user"]

-----------------------------------------------------------------------------
Exists(id) == id \in Ids /\ users[id] # Absent
Present == {id \in Ids : users[id] # Absent}
IsAdmin(id) == Exists(id) /\ users[id].role = "admin"
Admins == {id \in Ids : IsAdmin(id)}
EmailVerified(id) == Exists(id) /\ users[id].verified

\* A row an open UpdateProfile holds FOR UPDATE.  A write of it, or of a child
\* row through its foreign key, waits; a locking scan of the table waits for all.
RowFree(id) == \A c \in Clients : req[c].at = "write" => req[c].id # id

\* Faulty: the count of pending addresses does not lock what it reads.
ScanUnlocked == TRUE

ScanFree == \A c \in Clients : req[c].at # "write"

Claims(email) ==
  {id \in Present : users[id].email = email \/ users[id].pending = email}
PendingElsewhere(id, email) == \E u \in Present \ {id} : users[u].pending = email
EmailElsewhere(id, email) == \E u \in Present \ {id} : users[u].email = email

\* Faulty: TokenVersion is left at its zero value.
NewAccountUnversioned(email) ==
  [email |-> email, pending |-> NoEmail, verified |-> FALSE, role |-> "user", version |-> 0]

NewAccount(email) ==
  [email |-> email, pending |-> NoEmail, verified |-> FALSE, role |-> "user", version |-> 1]

\* Nothing to prove: EmailVerified() && PendingEmail == "".
Settled(id) == users[id].verified /\ users[id].pending = NoEmail

\* Faulty: sessions outlive the change.
KeepSessions(id) == rtokens

\* WHERE user_id = ? AND revoked_at IS NULL
RevokeSessions(id) ==
  {IF t.user = id THEN [t EXCEPT !.revoked = TRUE] ELSE t : t \in rtokens}

\* Faulty: a revoked token is still found.
Unexpired(hash) == {t \in rtokens : t.hash = hash /\ ~t.expired}

\* WHERE token_hash = ? AND revoked_at IS NULL AND expires_at > ?
Active(hash) == {t \in rtokens : t.hash = hash /\ ~t.revoked /\ ~t.expired}

\* The last-admin check of a demotion or deletion, under its row locks.
AdminLeft(id) == IsAdmin(id) => ScanFree /\ Cardinality(Admins) > 1

ActorIsAdmin(c) == IsAdmin(req[c].actor)

\* `first` of User.VerifyEmail.
FirstVerification(id) == ~users[id].verified

VerifiedEmail(id) ==
  IF users[id].pending # NoEmail THEN users[id].pending ELSE users[id].email

\* Faulty: the policy does not look at the number of admins.
BootstrapRole(id) == IF VerifiedEmail(id) = Bootstrap THEN "admin" ELSE users[id].role

\* The role VerifyEmail's policy assigns.
VerifiedRole(id) ==
  IF VerifiedEmail(id) = Bootstrap /\ Admins = {} THEN "admin" ELSE users[id].role

-----------------------------------------------------------------------------
Init ==
  /\ users = [id \in Ids |-> Absent]
  /\ vtokens = [id \in Ids |-> NoToken]
  /\ rtokens = {} /\ mails = {}
  /\ req = [c \in Clients |-> NoReq]
  /\ nextUser = 1 /\ nextHash = 1
  /\ welcomed = [id \in Ids |-> 0]

Begins(c, call, r) == call \in Calls /\ req[c] = NoReq /\ req' = [req EXCEPT ![c] = r]
Moves(c, from, to) == req[c].at = from /\ req' = [req EXCEPT ![c].at = to]
Ends(c, from) == req[c].at = from /\ req' = [req EXCEPT ![c] = NoReq]

Insert(email) ==
  /\ ScanFree /\ nextUser \in Ids
  /\ \A id \in Present : users[id].pending # email /\ users[id].email # email
  /\ users' = [users EXCEPT ![nextUser] = NewAccount(email)]
  /\ nextUser' = nextUser + 1

Mail(id) == [hash |-> nextHash, user |-> id]
NewVToken == [hash |-> nextHash, age |-> "new"]
Generates == nextHash <= MaxHash /\ nextHash' = nextHash + 1

-----------------------------------------------------------------------------
(* Registration and verification messages.                                 *)

\* User, token and dispatch in one transaction.
Register(email) ==
  /\ "register" \in Calls /\ Insert(email) /\ Generates
  /\ vtokens' = [vtokens EXCEPT ![nextUser] = NewVToken]
  /\ mails' = mails \cup {Mail(nextUser)}
  /\ UNCHANGED <<rtokens, req, welcomed>>

\* The dispatch succeeded, the commit did not: the id is used up, no row stays.
RegisterUncommitted(email) ==
  /\ "register" \in Calls /\ ScanFree /\ nextUser \in Ids /\ Generates
  /\ \A id \in Present : users[id].pending # email /\ users[id].email # email
  /\ mails' = mails \cup {Mail(nextUser)}
  /\ nextUser' = nextUser + 1
  /\ UNCHANGED <<tables, req, welcomed>>

\* An admin creates a user: the middleware admits the caller first.
StartCreate(c, actor, email) ==
  /\ IsAdmin(actor) /\ EmailVerified(actor)
  /\ Begins(c, "create", [NoReq EXCEPT !.at = "create", !.actor = actor, !.email = email])
  /\ UNCHANGED <<tables, mails, nextUser, nextHash, welcomed>>

CreateUser(c) ==
  /\ req[c].at = "create" /\ Insert(req[c].email)
  /\ req' = [req EXCEPT ![c] = [NoReq EXCEPT !.at = "send", !.id = nextUser]]
  /\ UNCHANGED <<vtokens, rtokens, mails, nextHash, welcomed>>

\* GetUserByEmailOrPending: the first match by id.
Resend(c, email) ==
  /\ \E id \in Claims(email) :
       /\ \A u \in Claims(email) : id <= u
       /\ ~Settled(id)
       /\ Begins(c, "resend", [NoReq EXCEPT !.at = "issue", !.id = id])
  /\ UNCHANGED <<tables, mails, nextUser, nextHash, welcomed>>

SendVerificationForUser(c) ==
  /\ req[c].at = "send"
  /\ LET id == req[c].id
     IN IF Exists(id) /\ ~Settled(id)
        THEN Moves(c, "send", "issue") ELSE Ends(c, "send")
  /\ UNCHANGED <<tables, mails, nextUser, nextHash, welcomed>>

CanIssueEmailVerification(c) ==
  /\ req[c].at = "issue"
  /\ IF vtokens[req[c].id].age # "new" THEN Moves(c, "issue", "replace") ELSE Ends(c, "issue")
  /\ UNCHANGED <<tables, mails, nextUser, nextHash, welcomed>>

\* The stored token is replaced, then the message handed over, or not.
ReplaceEmailVerificationToken(c) ==
  LET id == req[c].id
  IN /\ Ends(c, "replace") /\ Exists(id) /\ RowFree(id) /\ Generates
     /\ vtokens' = [vtokens EXCEPT ![id] = NewVToken]
     /\ mails' \in {mails, mails \cup {Mail(id)}}
     /\ UNCHANGED <<users, rtokens, nextUser, welcomed>>

VerifyEmail(m) ==
  LET id == m.user
  IN /\ "verify" \in Calls
     /\ Exists(id) /\ vtokens[id].hash = m.hash /\ vtokens[id].age # "expired"
     /\ RowFree(id) /\ ~EmailElsewhere(id, VerifiedEmail(id))
     /\ users' = [users EXCEPT ![id] =
          [email |-> VerifiedEmail(id), pending |-> NoEmail, verified |-> TRUE,
           role |-> VerifiedRole(id), version |-> @.version + 1]]
     /\ vtokens' = [vtokens EXCEPT ![id] = NoToken]
     /\ rtokens' = RevokeSessions(id)
     /\ welcomed' = [welcomed EXCEPT ![id] = @ + IF FirstVerification(id) THEN 1 ELSE 0]
     /\ UNCHANGED <<mails, req, nextUser, nextHash>>

-----------------------------------------------------------------------------
(* Profiles.                                                               *)

\* By the user, or by an admin for the user; without an email the handler
\* passes on the one it read.
StartUpdate(c, id, email) ==
  /\ Exists(id) /\ (EmailVerified(id) \/ Admins # {})
  /\ Begins(c, "update", [NoReq EXCEPT !.at = "profile", !.id = id, !.email = email])
  /\ UNCHANGED <<tables, mails, nextUser, nextHash, welcomed>>

StartRename(c, id) ==
  /\ Exists(id) /\ (EmailVerified(id) \/ Admins # {})
  /\ Begins(c, "rename", [NoReq EXCEPT !.at = "profile", !.id = id,
                             !.email = users[id].email])
  /\ UNCHANGED <<tables, mails, nextUser, nextHash, welcomed>>

\* Lock the row; count the other claims of a new address.
LockProfile(c) ==
  LET id == req[c].id
  IN /\ Exists(id) /\ RowFree(id)
     /\ req[c].email = users[id].email \/ Claims(req[c].email) \subseteq {id}
     /\ Moves(c, "profile", "write")
     /\ UNCHANGED <<tables, mails, nextUser, nextHash, welcomed>>

\* Write under the lock; ux_users_pending_email may still refuse it.
UpdateProfile(c) ==
  LET id == req[c].id
      pending == IF req[c].email = users[id].email THEN NoEmail ELSE req[c].email
  IN /\ Moves(c, "write", "send")
     /\ pending # NoEmail => ~PendingElsewhere(id, pending)
     /\ users' = [users EXCEPT ![id].pending = pending]
     /\ UNCHANGED <<vtokens, rtokens, mails, nextUser, nextHash, welcomed>>

-----------------------------------------------------------------------------
(* Sessions.                                                               *)

StartLogin(c, id) ==
  /\ EmailVerified(id)
  /\ Begins(c, "login", [NoReq EXCEPT !.at = "login", !.id = id,
                            !.version = users[id].version])
  /\ UNCHANGED <<tables, mails, nextUser, nextHash, welcomed>>

NewRToken(c) ==
  [hash |-> nextHash, user |-> req[c].id, version |-> req[c].version,
   from |-> req[c].token, revoked |-> FALSE, expired |-> FALSE]

CreateRefreshToken(c) ==
  /\ Ends(c, "login") /\ Exists(req[c].id) /\ RowFree(req[c].id) /\ Generates
  /\ rtokens' = rtokens \cup {NewRToken(c)}
  /\ UNCHANGED <<users, vtokens, mails, nextUser, welcomed>>

StartRefresh(c, t) ==
  /\ t \in Active(t.hash)
  /\ Begins(c, "refresh", [NoReq EXCEPT !.at = "account", !.id = t.user,
                              !.version = t.version, !.token = t.hash])
  /\ UNCHANGED <<tables, mails, nextUser, nextHash, welcomed>>

ReadAccount(c) ==
  /\ req[c].at = "account"
  /\ IF EmailVerified(req[c].id) /\ users[req[c].id].version = req[c].version
     THEN Moves(c, "account", "rotate") ELSE Ends(c, "account")
  /\ UNCHANGED <<tables, mails, nextUser, nextHash, welcomed>>

RotateRefreshToken(c) ==
  /\ Ends(c, "rotate") /\ Active(req[c].token) # {} /\ RowFree(req[c].id) /\ Generates
  /\ rtokens' = {IF t.hash = req[c].token THEN [t EXCEPT !.revoked = TRUE] ELSE t :
                   t \in rtokens} \cup {NewRToken(c)}
  /\ UNCHANGED <<users, vtokens, mails, nextUser, welcomed>>

Logout(t) ==
  /\ "logout" \in Calls /\ ~t.revoked
  /\ rtokens' = (rtokens \ {t}) \cup {[t EXCEPT !.revoked = TRUE]}
  /\ UNCHANGED <<users, vtokens, mails, req, nextUser, nextHash, welcomed>>

CleanupRefreshTokens ==
  /\ "cleanup" \in Calls
  /\ rtokens' = {t \in rtokens : ~t.revoked /\ ~t.expired}
  /\ UNCHANGED <<users, vtokens, mails, req, nextUser, nextHash, welcomed>>

StartPassword(c, id) ==
  /\ EmailVerified(id) /\ users[id].version < MaxVersion
  /\ Begins(c, "password", [NoReq EXCEPT !.at = "password", !.id = id])
  /\ UNCHANGED <<tables, mails, nextUser, nextHash, welcomed>>

ChangePassword(c) ==
  LET id == req[c].id
  IN /\ Ends(c, "password") /\ Exists(id) /\ RowFree(id)
     /\ users' = [users EXCEPT ![id].version = @ + 1]
     /\ rtokens' = RevokeSessions(id)
     /\ UNCHANGED <<vtokens, mails, nextUser, nextHash, welcomed>>

-----------------------------------------------------------------------------
(* Administration.                                                         *)

StartChangeRole(c, actor, id, role) ==
  /\ actor # id /\ IsAdmin(actor) /\ Exists(id) /\ users[id].version < MaxVersion
  /\ role = "admin" => users[id].verified
  /\ Begins(c, "role", [NoReq EXCEPT !.at = "role", !.actor = actor, !.id = id, !.role = role])
  /\ UNCHANGED <<tables, mails, nextUser, nextHash, welcomed>>

ChangeRole(c) ==
  LET id == req[c].id
  IN /\ Ends(c, "role") /\ RowFree(req[c].actor) /\ ActorIsAdmin(c)
     /\ Exists(id) /\ RowFree(id)
     /\ req[c].role = "admin" => users[id].verified
     /\ req[c].role # "admin" => AdminLeft(id)
     /\ users' = [users EXCEPT ![id].role = req[c].role, ![id].version = @ + 1]
     /\ rtokens' = RevokeSessions(id)
     /\ UNCHANGED <<vtokens, mails, nextUser, nextHash, welcomed>>

\* By an admin, or by the user with the current password.
StartDelete(c, actor, id) ==
  /\ actor # id /\ IsAdmin(actor) /\ Exists(id)
  /\ Begins(c, "delete", [NoReq EXCEPT !.at = "delete", !.actor = actor, !.id = id])
  /\ UNCHANGED <<tables, mails, nextUser, nextHash, welcomed>>

StartDeleteSelf(c, id) ==
  /\ EmailVerified(id)
  /\ Begins(c, "deleteSelf", [NoReq EXCEPT !.at = "delete", !.actor = id, !.id = id])
  /\ UNCHANGED <<tables, mails, nextUser, nextHash, welcomed>>

\* The foreign keys delete the user's tokens with the row.
Delete(c) ==
  LET id == req[c].id
  IN /\ Ends(c, "delete") /\ Exists(id) /\ RowFree(id) /\ AdminLeft(id)
     /\ users' = [users EXCEPT ![id] = Absent]
     /\ vtokens' = [vtokens EXCEPT ![id] = NoToken]
     /\ rtokens' = {t \in rtokens : t.user # id}
     /\ UNCHANGED <<mails, nextUser, nextHash, welcomed>>

-----------------------------------------------------------------------------
(* Failures and time.                                                      *)

Fail(c) ==
  /\ req[c].at # "idle" /\ Ends(c, req[c].at)
  /\ UNCHANGED <<tables, mails, nextUser, nextHash, welcomed>>

\* A minute passes, then the rest of verificationTTL.
AgeVerification(id) ==
  /\ vtokens[id].age # "expired"
  /\ vtokens' = [vtokens EXCEPT ![id].age = IF @ = "new" THEN "old" ELSE "expired"]
  /\ UNCHANGED <<users, rtokens, mails, req, nextUser, nextHash, welcomed>>

ExpireRefresh(t) ==
  /\ "cleanup" \in Calls /\ ~t.expired
  /\ rtokens' = (rtokens \ {t}) \cup {[t EXCEPT !.expired = TRUE]}
  /\ UNCHANGED <<users, vtokens, mails, req, nextUser, nextHash, welcomed>>

Begin(c) ==
  \/ \E email \in Emails : Resend(c, email)
  \/ \E actor \in Ids, email \in Emails : StartCreate(c, actor, email)
  \/ \E id \in Ids, email \in Emails : StartUpdate(c, id, email)
  \/ \E id \in Ids : StartRename(c, id) \/ StartLogin(c, id) \/ StartPassword(c, id)
                     \/ StartDeleteSelf(c, id)
  \/ \E t \in rtokens : StartRefresh(c, t)
  \/ \E actor, id \in Ids : StartDelete(c, actor, id)
  \/ \E actor, id \in Ids, role \in Roles : StartChangeRole(c, actor, id, role)

Continue(c) ==
  \/ CreateUser(c) \/ SendVerificationForUser(c) \/ CanIssueEmailVerification(c)
  \/ ReplaceEmailVerificationToken(c) \/ LockProfile(c) \/ UpdateProfile(c)
  \/ CreateRefreshToken(c) \/ ReadAccount(c) \/ RotateRefreshToken(c)
  \/ ChangePassword(c) \/ ChangeRole(c) \/ Delete(c) \/ Fail(c)

Next ==
  \/ \E email \in Emails : Register(email) \/ RegisterUncommitted(email)
  \/ \E m \in mails : VerifyEmail(m)
  \/ \E c \in Clients : Begin(c) \/ Continue(c)
  \/ \E t \in rtokens : Logout(t) \/ ExpireRefresh(t)
  \/ \E id \in Ids : AgeVerification(id)
  \/ CleanupRefreshTokens

Spec == Init /\ [][Next]_vars
-----------------------------------------------------------------------------
(* Properties.                                                             *)

Slot == [at : Steps, id : 0..MaxUsers, actor : 0..MaxUsers,
         email : Emails \cup {NoEmail}, version : Nat, token : Nat, role : Roles]

\* Types, and: every row of the child tables has a user, whose version is set.
TypeOK ==
  /\ users \in [Ids -> Account \cup {Absent}]
  /\ vtokens \in [Ids -> VToken \cup {NoToken}]
  /\ rtokens \subseteq RToken
  /\ mails \subseteq [hash : Nat \ {0}, user : Ids]
  /\ req \in [Clients -> Slot]
  /\ nextUser \in 1..(MaxUsers + 1) /\ nextHash \in 1..(MaxHash + 1)
  /\ welcomed \in [Ids -> Nat]
  /\ \A id \in Ids : vtokens[id] # NoToken => Exists(id)
  /\ \A t \in rtokens : Exists(t.user)

\* An address a user registered with and has not verified yet is nobody
\* else's pending address: RegisterUser and UpdateProfile, each checking the
\* other's column, never both accept it, whatever their order.
UnverifiedAddressClaimedOnce ==
  \A a, b \in Present : a # b /\ ~users[a].verified => users[b].pending # users[a].email

\* A user becomes or ceases to be an admin only by an admin's ChangeRole, the
\* actor still being an admin when it commits, or by verifying the bootstrap
\* address while there is none.
RoleChangesAuthorised ==
  [][\A id \in Present : users'[id] # Absent /\ users'[id].role # users[id].role =>
       \/ \E c \in Clients : /\ req[c].at = "role" /\ req'[c].at = "idle"
                             /\ req[c].id = id /\ req[c].actor \in Admins
       \/ Admins = {} /\ users'[id].email = Bootstrap /\ users'[id].verified]_vars

\* A refresh token is exchanged at most once, also by requests that both found
\* it active.
SingleUse ==
  \A s, t \in rtokens : s.from = t.from /\ s.from # 0 => s = t

\* A version change ends every session: an active token of an older version
\* is that of a login that read the account before the change, and no
\* rotation descends from it.
OldSessionsEnd ==
  \A t \in rtokens :
    ~t.revoked /\ t.version # users[t.user].version => t.from = 0

\* docs/ARCHITECTURE.md, "User role changes and deletion re-check actor
\* authority": who deletes another user is an admin when the deletion commits.
DeletionAuthorised ==
  [][\A c \in Clients :
       req[c].at = "delete" /\ req[c].actor # req[c].id /\ users[req[c].id] # Absent
         /\ users'[req[c].id] = Absent /\ req'[c].at = "idle" => req[c].actor \in Admins]_vars
===============================================================================
