---------------------------- MODULE IdentityProofs ----------------------------
(***************************************************************************)
(* Theorems about Identity for every value of its constants: any number of *)
(* users, addresses, tokens and requests at once.                          *)
(*                                                                         *)
(* TypeInv says what a request knows at each of its steps; ClaimInv and    *)
(* SessionInv add what a check that was made earlier is still worth when a *)
(* transaction commits.                                                    *)
(***************************************************************************)
EXTENDS Identity, TLAPS

\* Ids and hashes in use were generated before; a hash identifies its token.
Generated ==
  /\ \A id \in Present : id < nextUser
  /\ \A t \in rtokens : t.hash < nextHash /\ t.from < nextHash
  /\ \A s, t \in rtokens : s.hash = t.hash => s = t

\* What a request knows at each of its steps.
Knows(r) ==
  /\ r.at \in {"create", "profile", "write"} => r.email \in Emails
  /\ r.at = "write" => Exists(r.id)
  /\ r.at \in {"login", "account", "rotate"} => r.id \in Ids /\ r.version > 0
  /\ r.at = "login" => r.token = 0
  /\ r.at \in {"account", "rotate"} =>
       /\ r.token \in 1..(nextHash - 1)
       /\ \A t \in rtokens : t.hash = r.token => t.user = r.id

Begun == \A c \in Clients : Knows(req[c])

TypeInv == TypeOK /\ Generated /\ Begun

-----------------------------------------------------------------------------
(* Types.                                                                  *)

LEMMA InitTypes == Init => TypeInv
<1> SUFFICES ASSUME Init PROVE TypeInv
  OBVIOUS
<1>1. NoReq \in Slot /\ Knows(NoReq)
  BY EmailAssumption, MaxAssumption DEF NoReq, Slot, Steps, Roles, Knows
<1>2. nextUser \in 1..(MaxUsers + 1) /\ nextHash \in 1..(MaxHash + 1)
  BY MaxAssumption DEF Init
<1>3. TypeOK
  BY <1>1, <1>2 DEF Init, TypeOK, Exists
<1> QED
  BY <1>1, <1>3 DEF Init, TypeInv, Generated, Begun, Present

LEMMA Constants ==
  ASSUME TypeInv
  PROVE  /\ MaxUsers \in Nat /\ MaxHash \in Nat /\ nextUser \in Nat \ {0} /\ nextHash \in Nat \ {0}
         /\ \A c \in Clients : req[c] \in Slot /\ Knows(req[c])
         /\ \A id \in Ids : Exists(id) <=> users[id] \in Account
         /\ \A id : Exists(id) => id \in Ids /\ users[id] \in Account
         /\ \A t \in rtokens : t \in RToken /\ Exists(t.user)
BY MaxAssumption DEF TypeInv, TypeOK, Begun, Exists, Account, Absent, Roles

\* Steps of one request that write nothing.
Quiet == UNCHANGED <<tables, mails, nextUser, nextHash, welcomed>>

LEMMA QuietTypes ==
  ASSUME TypeInv, Quiet, NEW c \in Clients, NEW r \in Slot, Knows(r),
         req' = [req EXCEPT ![c] = r]
  PROVE  TypeInv'
<1>1. req' \in [Clients -> Slot]
  BY DEF TypeInv, TypeOK
<1>2. \A x : Knows(x)' <=> Knows(x)
  BY DEF Quiet, tables, Knows, Exists
<1>3. \A d \in Clients : req'[d] = IF d = c THEN r ELSE req[d]
  BY DEF TypeInv, TypeOK
<1>4. Begun'
  BY <1>2, <1>3 DEF TypeInv, Begun
<1> QED
  BY <1>1, <1>4 DEF TypeInv, TypeOK, Generated, Quiet, tables, Exists, Present

LEMMA NoReqType == NoReq \in Slot /\ Knows(NoReq) /\ NoReq.at = "idle"
BY EmailAssumption, MaxAssumption DEF NoReq, Slot, Steps, Roles, Knows

LEMMA EndsTypes ==
  ASSUME TypeInv, Quiet, NEW c \in Clients, req' = [req EXCEPT ![c] = NoReq]
  PROVE  TypeInv'
BY NoReqType, QuietTypes

LEMMA MoveType ==
  ASSUME TypeInv, NEW c \in Clients, NEW from, NEW to \in Steps, Moves(c, from, to)
  PROVE  /\ [req[c] EXCEPT !.at = to] \in Slot
         /\ req' = [req EXCEPT ![c] = [req[c] EXCEPT !.at = to]]
         /\ \A d \in Clients : req'[d] = IF d = c THEN [req[c] EXCEPT !.at = to] ELSE req[d]
BY DEF TypeInv, TypeOK, Slot, Moves

LEMMA Moved ==
  ASSUME TypeInv, NEW c \in Clients, NEW from, NEW to \in Steps, Moves(c, from, to)
  PROVE  /\ \A d \in Clients : d # c => req'[d] = req[d]
         /\ req'[c].at = to /\ req'[c].id = req[c].id /\ req'[c].email = req[c].email
         /\ req'[c].version = req[c].version /\ req'[c].token = req[c].token
BY DEF TypeInv, TypeOK, Slot, Moves

\* A request begins before its checks: no slot starts with an outcome of one.
Started(c) ==
  \E r \in Slot : /\ Knows(r) /\ r.at \notin {"write", "rotate"}
                  /\ req' = [req EXCEPT ![c] = r] /\ Quiet

LEMMA BeginsType ==
  ASSUME Quiet, NEW c \in Clients, NEW call, NEW r \in Slot, Begins(c, call, r),
         Knows(r), r.at \notin {"write", "rotate"}
  PROVE  Started(c)
BY DEF Begins, Started

LEMMA BeginStarts ==
  ASSUME TypeInv, NEW c \in Clients, Begin(c)
  PROVE  Started(c)
<1>c. NoReq \in Slot /\ NoReq.token = 0 /\ \A id \in Ids : id \in 0..MaxUsers
  BY NoReqType, MaxAssumption DEF Ids, NoReq
<1>1. ASSUME NEW email \in Emails, Resend(c, email) PROVE Started(c)
  <2>1. PICK id \in Claims(email) : Begins(c, "resend", [NoReq EXCEPT !.at = "issue", !.id = id])
    BY <1>1 DEF Resend
  <2>2. id \in Ids
    BY DEF Claims, Present
  <2> DEFINE r == [NoReq EXCEPT !.at = "issue", !.id = id]
  <2>3. r \in Slot /\ r.at = "issue" /\ r.id = id
    <3>1. "issue" \in Steps
      BY DEF Steps
    <3> QED BY <1>c, <2>2, <3>1 DEF Slot
  <2>4. Knows(r)
    BY <2>3, <2>2 DEF Knows
  <2>5. Begins(c, "resend", r) /\ Quiet
    BY <2>1, <1>1 DEF Resend, Quiet
  <2> HIDE DEF r
  <2> QED BY <2>3, <2>4, <2>5, BeginsType
<1>2. ASSUME NEW actor \in Ids, NEW email \in Emails, StartCreate(c, actor, email) PROVE Started(c)
  <2> DEFINE r == [NoReq EXCEPT !.at = "create", !.actor = actor, !.email = email]
  <2>1. r \in Slot /\ r.at = "create" /\ r.email = email
    <3>1. "create" \in Steps
      BY DEF Steps
    <3> QED BY <1>c, <3>1 DEF Slot
  <2>2. Knows(r)
    BY <2>1 DEF Knows
  <2>3. Begins(c, "create", r) /\ Quiet
    BY <1>2 DEF StartCreate, Quiet
  <2> HIDE DEF r
  <2> QED BY <2>1, <2>2, <2>3, BeginsType
<1>3. ASSUME NEW id \in Ids, NEW email \in Emails, StartUpdate(c, id, email) PROVE Started(c)
  <2> DEFINE r == [NoReq EXCEPT !.at = "profile", !.id = id, !.email = email]
  <2>1. r \in Slot /\ r.at = "profile" /\ r.id = id /\ r.email = email
    <3>1. "profile" \in Steps
      BY DEF Steps
    <3> QED BY <1>c, <3>1 DEF Slot
  <2>2. Knows(r)
    BY <2>1 DEF Knows
  <2>3. Begins(c, "update", r) /\ Quiet
    BY <1>3 DEF StartUpdate, Quiet
  <2> HIDE DEF r
  <2> QED BY <2>1, <2>2, <2>3, BeginsType
<1>4. ASSUME NEW id \in Ids, StartRename(c, id) PROVE Started(c)
  <2>1. users[id].email \in Emails
    BY <1>4, Constants DEF StartRename, Account
  <2> DEFINE r == [NoReq EXCEPT !.at = "profile", !.id = id, !.email = users[id].email]
  <2>2. r \in Slot /\ r.at = "profile" /\ r.id = id /\ r.email = users[id].email
    <3>1. "profile" \in Steps
      BY DEF Steps
    <3> QED BY <1>c, <2>1, <3>1 DEF Slot
  <2>3. Knows(r)
    BY <2>2, <2>1 DEF Knows
  <2>4. Begins(c, "rename", r) /\ Quiet
    BY <1>4 DEF StartRename, Quiet
  <2> HIDE DEF r
  <2> QED BY <2>2, <2>3, <2>4, BeginsType
<1>5. ASSUME NEW id \in Ids, StartLogin(c, id) PROVE Started(c)
  <2>1. users[id].version \in Nat \ {0}
    BY <1>5, Constants DEF StartLogin, EmailVerified, Account
  <2> DEFINE r == [NoReq EXCEPT !.at = "login", !.id = id, !.version = users[id].version]
  <2>2. r \in Slot /\ r.at = "login" /\ r.id = id /\ r.version = users[id].version /\ r.token = 0
    <3>1. "login" \in Steps
      BY DEF Steps
    <3> QED BY <1>c, <2>1, <3>1 DEF Slot
  <2>3. Knows(r)
    BY <2>2, <2>1 DEF Knows
  <2>4. Begins(c, "login", r) /\ Quiet
    BY <1>5 DEF StartLogin, Quiet
  <2> HIDE DEF r
  <2> QED BY <2>2, <2>3, <2>4, BeginsType
<1>6. ASSUME NEW id \in Ids, StartPassword(c, id) PROVE Started(c)
  <2> DEFINE r == [NoReq EXCEPT !.at = "password", !.id = id]
  <2>1. r \in Slot /\ r.at = "password" /\ r.id = id
    <3>1. "password" \in Steps
      BY DEF Steps
    <3> QED BY <1>c, <3>1 DEF Slot
  <2>2. Knows(r)
    BY <2>1 DEF Knows
  <2>3. Begins(c, "password", r) /\ Quiet
    BY <1>6 DEF StartPassword, Quiet
  <2> HIDE DEF r
  <2> QED BY <2>1, <2>2, <2>3, BeginsType
<1>7. ASSUME NEW id \in Ids, StartDeleteSelf(c, id) PROVE Started(c)
  <2> DEFINE r == [NoReq EXCEPT !.at = "delete", !.actor = id, !.id = id]
  <2>1. r \in Slot /\ r.at = "delete" /\ r.id = id
    <3>1. "delete" \in Steps
      BY DEF Steps
    <3> QED BY <1>c, <3>1 DEF Slot
  <2>2. Knows(r)
    BY <2>1 DEF Knows
  <2>3. Begins(c, "deleteSelf", r) /\ Quiet
    BY <1>7 DEF StartDeleteSelf, Quiet
  <2> HIDE DEF r
  <2> QED BY <2>1, <2>2, <2>3, BeginsType
<1>8. ASSUME NEW t \in rtokens, StartRefresh(c, t) PROVE Started(c)
  <2>1. /\ t.user \in Ids /\ t.version \in Nat \ {0} /\ t.hash \in Nat \ {0}
        /\ t.hash \in 1..(nextHash - 1) /\ \A s \in rtokens : s.hash = t.hash => s = t
    BY Constants DEF TypeInv, Generated, RToken
  <2> DEFINE r == [NoReq EXCEPT !.at = "account", !.id = t.user, !.version = t.version, !.token = t.hash]
  <2>2. r \in Slot /\ r.at = "account" /\ r.id = t.user /\ r.version = t.version /\ r.token = t.hash
    <3>1. "account" \in Steps
      BY DEF Steps
    <3> QED BY <1>c, <2>1, <3>1 DEF Slot
  <2>3. Knows(r)
    BY <2>2, <2>1 DEF Knows
  <2>4. Begins(c, "refresh", r) /\ Quiet
    BY <1>8 DEF StartRefresh, Quiet
  <2> HIDE DEF r
  <2> QED BY <2>2, <2>3, <2>4, BeginsType
<1>9. ASSUME NEW actor \in Ids, NEW id \in Ids, StartDelete(c, actor, id) PROVE Started(c)
  <2> DEFINE r == [NoReq EXCEPT !.at = "delete", !.actor = actor, !.id = id]
  <2>1. r \in Slot /\ r.at = "delete" /\ r.id = id
    <3>1. "delete" \in Steps
      BY DEF Steps
    <3> QED BY <1>c, <3>1 DEF Slot
  <2>2. Knows(r)
    BY <2>1 DEF Knows
  <2>3. Begins(c, "delete", r) /\ Quiet
    BY <1>9 DEF StartDelete, Quiet
  <2> HIDE DEF r
  <2> QED BY <2>1, <2>2, <2>3, BeginsType
<1>10. ASSUME NEW actor \in Ids, NEW id \in Ids, NEW role \in Roles, StartChangeRole(c, actor, id, role) PROVE Started(c)
  <2> DEFINE r == [NoReq EXCEPT !.at = "role", !.actor = actor, !.id = id, !.role = role]
  <2>1. r \in Slot /\ r.at = "role" /\ r.id = id
    <3>1. "role" \in Steps
      BY DEF Steps
    <3> QED BY <1>c, <3>1 DEF Slot
  <2>2. Knows(r)
    BY <2>1 DEF Knows
  <2>3. Begins(c, "role", r) /\ Quiet
    BY <1>10 DEF StartChangeRole, Quiet
  <2> HIDE DEF r
  <2> QED BY <2>1, <2>2, <2>3, BeginsType
<1> QED
  BY <1>1, <1>2, <1>3, <1>4, <1>5, <1>6, <1>7, <1>8, <1>9, <1>10 DEF Begin

LEMMA BeginTypes ==
  ASSUME TypeInv, NEW c \in Clients, Begin(c)
  PROVE  TypeInv'
BY BeginStarts, QuietTypes DEF Started

\* The other steps that write nothing.
LEMMA ReadingTypes ==
  ASSUME TypeInv, NEW c \in Clients,
         \/ SendVerificationForUser(c) \/ CanIssueEmailVerification(c)
         \/ LockProfile(c) \/ ReadAccount(c) \/ Fail(c)
  PROVE  TypeInv'
<1>q. Quiet
  BY DEF SendVerificationForUser, CanIssueEmailVerification, LockProfile, ReadAccount, Fail, Quiet
<1>s. {"issue", "replace", "write", "rotate"} \subseteq Steps
  BY DEF Steps
<1>1. ASSUME NEW from, Ends(c, from) PROVE TypeInv'
  BY <1>1, <1>q, EndsTypes DEF Ends
<1>2. ASSUME NEW from, NEW to \in {"issue", "replace", "write", "rotate"}, Moves(c, from, to),
             to = "write" => from = "profile" /\ Exists(req[c].id),
             to = "rotate" => from = "account"
      PROVE  TypeInv'
  <2> DEFINE r == [req[c] EXCEPT !.at = to]
  <2>1. r \in Slot /\ req' = [req EXCEPT ![c] = r] /\ req[c].at = from
    BY <1>2, <1>s, MoveType DEF Moves
  <2>2. /\ r.at = to /\ r.email = req[c].email /\ r.id = req[c].id
        /\ r.version = req[c].version /\ r.token = req[c].token
    BY Constants DEF Slot
  <2>3. Knows(r)
    BY <1>2, <2>1, <2>2, Constants DEF Knows
  <2> HIDE DEF r
  <2> QED BY <1>q, <2>1, <2>3, QuietTypes
<1>3. CASE SendVerificationForUser(c)
  BY <1>1, <1>2, <1>3 DEF SendVerificationForUser
<1>4. CASE CanIssueEmailVerification(c)
  BY <1>1, <1>2, <1>4 DEF CanIssueEmailVerification
<1>5. CASE LockProfile(c)
  BY <1>2, <1>5 DEF LockProfile
<1>6. CASE ReadAccount(c)
  BY <1>1, <1>2, <1>6 DEF ReadAccount
<1>7. CASE Fail(c)
  BY <1>1, <1>7 DEF Fail
<1> QED BY <1>3, <1>4, <1>5, <1>6, <1>7

\* A row of refresh_tokens before and after an UPDATE: only marks are set.
Marked(s, t) ==
  /\ t.hash = s.hash /\ t.user = s.user /\ t.version = s.version /\ t.from = s.from
  /\ s.revoked => t.revoked

\* R is what is left of the tokens, each with some marks more.
Left(R) ==
  /\ R \subseteq RToken
  /\ \A t \in R : \E s \in rtokens : Marked(s, t)
  /\ \A s, t \in R : s.hash = t.hash => s = t

LEMMA SomeLeft ==
  ASSUME TypeInv, NEW R \in SUBSET rtokens
  PROVE  Left(R)
BY DEF TypeInv, TypeOK, Generated, Left, Marked

LEMMA OneMarked ==
  ASSUME TypeInv, NEW t \in rtokens, NEW u \in RToken, Marked(t, u)
  PROVE  Left((rtokens \ {t}) \cup {u})
BY DEF TypeInv, TypeOK, Generated, Left, Marked

LEMMA SessionsRevoked ==
  ASSUME TypeInv, NEW id
  PROVE  /\ Left(RevokeSessions(id))
         /\ \A t \in RevokeSessions(id) : t.user = id => t.revoked
         /\ \A t \in RevokeSessions(id) : t.user # id => t \in rtokens
<1> DEFINE revoked(t) == [t EXCEPT !.revoked = TRUE]
           R == RevokeSessions(id)
<1>1. \A t \in rtokens : /\ revoked(t) \in RToken /\ Marked(t, revoked(t)) /\ revoked(t).revoked
                         /\ Marked(t, t) /\ t \in RToken
  BY DEF TypeInv, TypeOK, RToken, Marked
<1>2. \A t \in R : \E s \in rtokens : t = IF s.user = id THEN revoked(s) ELSE s
  BY DEF RevokeSessions
<1> HIDE DEF revoked, R
<1>3. \A t \in R : t \in RToken /\ \E s \in rtokens :
        Marked(s, t) /\ t = IF s.user = id THEN revoked(s) ELSE s
  BY <1>1, <1>2
<1>4. \A s, t \in R : s.hash = t.hash => s = t
  BY <1>3 DEF TypeInv, Generated, Marked
<1>5. \A t \in R : t.user = id => t.revoked
  BY <1>1, <1>3 DEF Marked
<1>6. \A t \in R : t.user # id => t \in rtokens
  BY <1>3 DEF Marked
<1>7. Left(R)
  BY <1>3, <1>4 DEF Left
<1> QED BY <1>5, <1>6, <1>7 DEF R

\* What RotateRefreshToken leaves of the tokens there were.
Exchanged(hash) ==
  {IF t.hash = hash THEN [t EXCEPT !.revoked = TRUE] ELSE t : t \in rtokens}

LEMMA ExchangedRevoked ==
  ASSUME TypeInv, NEW hash
  PROVE  /\ Left(Exchanged(hash))
         /\ \A t \in Exchanged(hash) : t.hash = hash => t.revoked
         /\ \A t \in Exchanged(hash) : t.hash # hash => t \in rtokens
<1> DEFINE revoked(t) == [t EXCEPT !.revoked = TRUE]
           R == Exchanged(hash)
<1>1. \A t \in rtokens : /\ revoked(t) \in RToken /\ Marked(t, revoked(t)) /\ revoked(t).revoked
                         /\ Marked(t, t) /\ t \in RToken
  BY DEF TypeInv, TypeOK, RToken, Marked
<1>2. \A t \in R : \E s \in rtokens : t = IF s.hash = hash THEN revoked(s) ELSE s
  BY DEF Exchanged
<1> HIDE DEF revoked, R
<1>3. \A t \in R : t \in RToken /\ \E s \in rtokens :
        Marked(s, t) /\ t = IF s.hash = hash THEN revoked(s) ELSE s
  BY <1>1, <1>2
<1>4. \A s, t \in R : s.hash = t.hash => s = t
  BY <1>3 DEF TypeInv, Generated, Marked
<1>5. \A t \in R : t.hash = hash => t.revoked
  BY <1>1, <1>3 DEF Marked
<1>6. \A t \in R : t.hash # hash => t \in rtokens
  BY <1>3 DEF Marked
<1>7. Left(R)
  BY <1>3, <1>4 DEF Left
<1> QED BY <1>5, <1>6, <1>7 DEF R

\* Steps that write the tables.
LEMMA WritingTypes ==
  ASSUME TypeInv,
         users' \in [Ids -> Account \cup {Absent}],
         vtokens' \in [Ids -> VToken \cup {NoToken}],
         mails' \subseteq [hash : Nat \ {0}, user : Ids],
         nextUser' \in 1..(MaxUsers + 1), nextHash' \in 1..(MaxHash + 1),
         nextUser' >= nextUser, nextHash' >= nextHash,
         welcomed' \in [Ids -> Nat],
         \A id \in Ids : vtokens'[id] # NoToken => users'[id] # Absent,
         \A id \in Ids : users'[id] # Absent => users[id] # Absent \/ id < nextUser',
         \A c \in Clients : req'[c].at = "write" => users'[req'[c].id] # Absent,
         NEW R, Left(R), \A t \in R : users'[t.user] # Absent,
         \/ rtokens' = R
         \/ \E t \in RToken :
              /\ rtokens' = R \cup {t} /\ users'[t.user] # Absent
              /\ t.hash = nextHash /\ t.from < nextHash /\ nextHash' = nextHash + 1,
         req' \in [Clients -> Slot],
         \A c \in Clients : req'[c] = req[c] \/ req'[c].at \in {"idle", "send"}
  PROVE  TypeInv'
<1>1. MaxUsers \in Nat /\ nextUser \in Nat /\ nextHash \in Nat /\ nextUser' \in Nat /\ nextHash' \in Nat
  BY Constants
<1>2. \A t \in rtokens' : /\ t \in RToken /\ users'[t.user] # Absent
                          /\ t.hash < nextHash' /\ t.from < nextHash'
                          /\ t.hash = nextHash \/ \E s \in rtokens : Marked(s, t)
  BY <1>1 DEF TypeInv, Generated, Left, Marked, RToken
<1>3. \A s, t \in rtokens' : s.hash = t.hash => s = t
  BY <1>1 DEF TypeInv, Generated, Left, Marked
<1>4. TypeOK'
  BY <1>2 DEF TypeOK, Exists, RToken
<1>5. \A id \in Ids : users'[id] # Absent => id < nextUser'
  BY <1>1 DEF TypeInv, Generated, Present, Ids
<1>6. Generated'
  BY <1>2, <1>3, <1>5 DEF Generated, Present
<1>7. ASSUME NEW c \in Clients PROVE Knows(req[c])'
  <2>1. CASE req'[c].at \in {"idle", "send"}
    BY <2>1 DEF Knows
  <2>2. CASE req'[c] = req[c]
    <3>1. Knows(req[c])
      BY Constants
    <3>2. req[c].at = "write" => req[c].id \in Ids /\ users'[req[c].id] # Absent
      BY <2>2, <3>1 DEF Knows, Exists
    <3> QED BY <1>1, <1>2, <2>2, <3>1, <3>2 DEF Knows, Exists, Marked
  <2> QED BY <2>1, <2>2
<1> QED BY <1>4, <1>6, <1>7 DEF TypeInv, Begun

LEMMA Types ==
  ASSUME TypeInv
  PROVE  /\ users \in [Ids -> Account \cup {Absent}]
         /\ vtokens \in [Ids -> VToken \cup {NoToken}]
         /\ mails \subseteq [hash : Nat \ {0}, user : Ids]
         /\ req \in [Clients -> Slot]
         /\ nextUser \in 1..(MaxUsers + 1) /\ nextHash \in 1..(MaxHash + 1)
         /\ nextUser \in Nat \ {0} /\ nextHash \in Nat \ {0}
         /\ welcomed \in [Ids -> Nat]
         /\ \A id \in Ids : users[id] # Absent => id < nextUser /\ users[id] \in Account
         /\ \A id \in Ids : vtokens[id] # NoToken => users[id] # Absent
         /\ \A c \in Clients : req[c].at = "write" => req[c].id \in Ids /\ users[req[c].id] # Absent
         /\ \A t \in rtokens : t \in RToken /\ t.user \in Ids /\ users[t.user] # Absent
         /\ Left(rtokens)
<1>1. Left(rtokens)
  BY SomeLeft
<1>2. \A c \in Clients : Knows(req[c])
  BY DEF TypeInv, Begun
<1> QED
  BY <1>1, <1>2, MaxAssumption DEF TypeInv, TypeOK, Generated, Present, Knows, Exists

LEMMA RequestEnds ==
  ASSUME TypeInv, NEW c \in Clients, req' = [req EXCEPT ![c] = NoReq]
  PROVE  /\ req' \in [Clients -> Slot]
         /\ \A d \in Clients : req'[d] = req[d] \/ req'[d].at \in {"idle", "send"}
         /\ \A d \in Clients : req'[d].at = "write" => req'[d] = req[d]
BY NoReqType DEF TypeInv, TypeOK

LEMMA NewTypes ==
  /\ \A email \in Emails : NewAccount(email) \in Account /\ NewAccount(email) # Absent
  /\ \A a \in Account : a # Absent
  /\ nextHash \in Nat \ {0} => NewVToken \in VToken
BY DEF NewAccount, Account, Absent, Roles, NewVToken, VToken

LEMMA RegistrationTypes ==
  ASSUME TypeInv,
         \/ \E email \in Emails : Register(email) \/ RegisterUncommitted(email)
         \/ \E c \in Clients : CreateUser(c)
  PROVE  TypeInv'
<1>1. MaxUsers \in Nat /\ MaxHash \in Nat
  BY MaxAssumption
<1>2. ASSUME NEW email \in Emails, Register(email) PROVE TypeInv'
  <2>1. /\ users' = [users EXCEPT ![nextUser] = NewAccount(email)]
        /\ vtokens' = [vtokens EXCEPT ![nextUser] = NewVToken]
        /\ mails' = mails \cup {[hash |-> nextHash, user |-> nextUser]}
        /\ nextUser \in Ids /\ nextUser' = nextUser + 1
        /\ nextHash <= MaxHash /\ nextHash' = nextHash + 1
        /\ UNCHANGED <<rtokens, req, welcomed>>
    BY <1>2 DEF Register, Insert, Generates, Mail
  <2>2. users' \in [Ids -> Account \cup {Absent}] /\ vtokens' \in [Ids -> VToken \cup {NoToken}]
    BY <2>1, Types, NewTypes
  <2>3. \A id \in Ids : /\ users'[id] = IF id = nextUser THEN NewAccount(email) ELSE users[id]
                        /\ vtokens'[id] = IF id = nextUser THEN NewVToken ELSE vtokens[id]
    BY <2>1, Types
  <2> HIDE <1>2
  <2> QED BY <1>1, <2>1, <2>2, <2>3, Types, NewTypes, WritingTypes DEF Ids
<1>3. ASSUME NEW email \in Emails, RegisterUncommitted(email) PROVE TypeInv'
  <2>1. /\ mails' = mails \cup {[hash |-> nextHash, user |-> nextUser]}
        /\ nextUser \in Ids /\ nextUser' = nextUser + 1
        /\ nextHash <= MaxHash /\ nextHash' = nextHash + 1
        /\ UNCHANGED <<users, vtokens, rtokens, req, welcomed>>
    BY <1>3 DEF RegisterUncommitted, Generates, Mail, tables
  <2> HIDE <1>3
  <2> QED BY <1>1, <2>1, Types, WritingTypes DEF Ids
<1>4. ASSUME NEW c \in Clients, CreateUser(c) PROVE TypeInv'
  <2> DEFINE email == req[c].email
             r == [NoReq EXCEPT !.at = "send", !.id = nextUser]
  <2>1. /\ users' = [users EXCEPT ![nextUser] = NewAccount(email)]
        /\ nextUser \in Ids /\ nextUser' = nextUser + 1
        /\ req' = [req EXCEPT ![c] = r]
        /\ UNCHANGED <<vtokens, rtokens, mails, nextHash, welcomed>>
    BY <1>4 DEF CreateUser, Insert
  <2>2. email \in Emails
    BY <1>4, Constants DEF CreateUser, Knows
  <2>3. users' \in [Ids -> Account \cup {Absent}]
        /\ \A id \in Ids : users'[id] = IF id = nextUser THEN NewAccount(email) ELSE users[id]
    BY <2>1, <2>2, Types, NewTypes
  <2>4. r \in Slot /\ r.at = "send"
    <3>1. "send" \in Steps /\ nextUser \in 0..MaxUsers
      BY <1>1, <2>1 DEF Steps, Ids
    <3> QED BY <3>1, NoReqType DEF Slot
  <2> HIDE DEF r
  <2>5. /\ req' \in [Clients -> Slot]
        /\ \A d \in Clients : req'[d] = req[d] \/ req'[d].at \in {"idle", "send"}
        /\ \A d \in Clients : req'[d].at = "write" => req'[d] = req[d]
    BY <2>1, <2>4, Types
  <2>6. \A id \in Ids : /\ users[id] # Absent => users'[id] # Absent
                        /\ users'[id] # Absent => users[id] # Absent \/ id < nextUser'
    BY <2>1, <2>2, <2>3, Types, NewTypes DEF Ids
  <2>7. /\ nextUser' \in 1..(MaxUsers + 1) /\ nextUser' >= nextUser
        /\ \A d \in Clients : req'[d].at = "write" => users'[req'[d].id] # Absent
        /\ \A t \in rtokens : users'[t.user] # Absent
    BY <1>1, <2>1, <2>5, <2>6, Types DEF Ids
  <2>8. UNCHANGED <<vtokens, rtokens, mails, nextHash, welcomed>>
    BY <2>1
  <2> HIDE <1>4
  <2> QED BY <2>3, <2>5, <2>6, <2>7, <2>8, Types, WritingTypes
<1> QED BY <1>2, <1>3, <1>4

\* A request that ends with a write of vtokens, users or both.
LEMMA AccountTypes ==
  ASSUME TypeInv, NEW c \in Clients, UpdateProfile(c) \/ ReplaceEmailVerificationToken(c)
  PROVE  TypeInv'
<1>1. CASE UpdateProfile(c)
  <2> DEFINE id == req[c].id
             pending == IF req[c].email = users[id].email THEN NoEmail ELSE req[c].email
             r == [req[c] EXCEPT !.at = "send"]
  <2>1. /\ users' = [users EXCEPT ![id].pending = pending]
        /\ Moves(c, "write", "send") /\ req[c].at = "write"
        /\ UNCHANGED <<vtokens, rtokens, mails, nextUser, nextHash, welcomed>>
    BY <1>1 DEF UpdateProfile, Moves
  <2>2. id \in Ids /\ users[id] \in Account /\ pending \in Emails \cup {NoEmail}
    BY <2>1, Constants DEF Knows
  <2>3. [users[id] EXCEPT !.pending = pending] \in Account
    BY <2>2 DEF Account
  <2>4. users' \in [Ids -> Account \cup {Absent}]
        /\ \A i \in Ids : users'[i] # Absent <=> users[i] # Absent
    BY <2>1, <2>2, <2>3, Types, NewTypes
  <2>5. "send" \in Steps
    BY DEF Steps
  <2>6. /\ req' \in [Clients -> Slot]
        /\ \A d \in Clients : req'[d] = IF d = c THEN r ELSE req[d]
    BY <2>1, <2>5, MoveType, Types
  <2>7. r.at = "send"
    BY Types DEF Slot
  <2> HIDE DEF r, pending
  <2>8. /\ \A d \in Clients : req'[d] = req[d] \/ req'[d].at \in {"idle", "send"}
        /\ \A d \in Clients : req'[d].at = "write" => users'[req'[d].id] # Absent
        /\ \A t \in rtokens : users'[t.user] # Absent
    BY <2>4, <2>6, <2>7, Types
  <2>9. UNCHANGED <<vtokens, rtokens, mails, nextUser, nextHash, welcomed>>
    BY <2>1
  <2> HIDE <1>1
  <2> QED BY <2>4, <2>6, <2>8, <2>9, Types, WritingTypes
<1>2. CASE ReplaceEmailVerificationToken(c)
  <2> DEFINE id == req[c].id
  <2>1. /\ vtokens' = [vtokens EXCEPT ![id] = NewVToken]
        /\ mails' \in {mails, mails \cup {[hash |-> nextHash, user |-> id]}}
        /\ req' = [req EXCEPT ![c] = NoReq] /\ Exists(id)
        /\ nextHash <= MaxHash /\ nextHash' = nextHash + 1
        /\ UNCHANGED <<users, rtokens, nextUser, welcomed>>
    BY <1>2 DEF ReplaceEmailVerificationToken, Ends, Generates, Mail
  <2>2. id \in Ids /\ users[id] # Absent
    BY <2>1 DEF Exists
  <2>3. /\ vtokens' \in [Ids -> VToken \cup {NoToken}]
        /\ \A i \in Ids : vtokens'[i] = IF i = id THEN NewVToken ELSE vtokens[i]
    BY <2>1, <2>2, Types, NewTypes
  <2>4. /\ mails' \subseteq [hash : Nat \ {0}, user : Ids]
        /\ nextHash' \in 1..(MaxHash + 1) /\ nextHash' >= nextHash
        /\ \A i \in Ids : vtokens'[i] # NoToken => users'[i] # Absent
    BY <2>1, <2>2, <2>3, Types, Constants
  <2>5. /\ req' \in [Clients -> Slot]
        /\ \A d \in Clients : req'[d] = req[d] \/ req'[d].at \in {"idle", "send"}
        /\ \A d \in Clients : req'[d].at = "write" => users'[req'[d].id] # Absent
    BY <2>1, RequestEnds, Types
  <2>6. UNCHANGED <<users, rtokens, nextUser, welcomed>>
    BY <2>1
  <2> HIDE <1>2
  <2> QED BY <2>3, <2>4, <2>5, <2>6, Types, WritingTypes
<1> QED BY <1>1, <1>2

\* A new version of an account ends the user's sessions.
LEMMA VersionTypes ==
  ASSUME TypeInv, NEW id \in Ids, users[id] # Absent, NEW a \in Account,
         users' = [users EXCEPT ![id] = a], rtokens' = RevokeSessions(id),
         vtokens' \in {vtokens, [vtokens EXCEPT ![id] = NoToken]},
         welcomed' \in [Ids -> Nat], UNCHANGED <<mails, nextUser, nextHash>>,
         req' = req \/ \E c \in Clients : req' = [req EXCEPT ![c] = NoReq]
  PROVE  TypeInv'
<1>1. users' \in [Ids -> Account \cup {Absent}] /\ \A i \in Ids : users'[i] # Absent <=> users[i] # Absent
  BY Types, NewTypes
<1>2. /\ vtokens' \in [Ids -> VToken \cup {NoToken}]
      /\ \A i \in Ids : vtokens'[i] # NoToken => users'[i] # Absent
  BY <1>1, Types
<1>3. Left(rtokens') /\ \A t \in rtokens' : users'[t.user] # Absent
  BY <1>1, SessionsRevoked, Types DEF Left, Marked
<1>4. /\ req' \in [Clients -> Slot]
      /\ \A d \in Clients : req'[d] = req[d] \/ req'[d].at \in {"idle", "send"}
      /\ \A d \in Clients : req'[d].at = "write" => users'[req'[d].id] # Absent
  BY <1>1, RequestEnds, Types
<1>5. /\ nextUser' \in 1..(MaxUsers + 1) /\ nextHash' \in 1..(MaxHash + 1)
      /\ nextUser' >= nextUser /\ nextHash' >= nextHash
      /\ mails' \subseteq [hash : Nat \ {0}, user : Ids]
      /\ \A i \in Ids : users'[i] # Absent => users[i] # Absent \/ i < nextUser'
  BY <1>1, Types
<1> QED BY <1>1, <1>2, <1>3, <1>4, <1>5, WritingTypes

LEMMA VerifyTypes ==
  ASSUME TypeInv, NEW m \in mails, VerifyEmail(m)
  PROVE  TypeInv'
<1> DEFINE id == m.user
           a == [email |-> VerifiedEmail(id), pending |-> NoEmail, verified |-> TRUE,
                 role |-> VerifiedRole(id), version |-> users[id].version + 1]
<1>1. /\ id \in Ids /\ users[id] # Absent /\ users' = [users EXCEPT ![id] = a]
      /\ rtokens' = RevokeSessions(id) /\ vtokens' = [vtokens EXCEPT ![id] = NoToken]
      /\ UNCHANGED <<mails, nextUser, nextHash, req>>
  BY DEF VerifyEmail, Exists
<1>2. users[id] \in Account
  BY <1>1, Types
<1>3. a \in Account
  BY <1>2 DEF Account, VerifiedEmail, VerifiedRole, Roles
<1>4. welcomed' \in [Ids -> Nat]
  <2>1. welcomed' = [welcomed EXCEPT ![id] = @ + 1] \/ welcomed' = [welcomed EXCEPT ![id] = @ + 0]
    BY DEF VerifyEmail, FirstVerification
  <2> QED BY <1>1, <2>1, Types
<1> HIDE DEF a
<1> QED BY <1>1, <1>3, <1>4, VersionTypes

LEMMA ChangeTypes ==
  ASSUME TypeInv, NEW c \in Clients, ChangePassword(c) \/ ChangeRole(c)
  PROVE  TypeInv'
<1> DEFINE id == req[c].id
<1>1. CASE ChangePassword(c)
  <2> DEFINE a == [users[id] EXCEPT !.version = @ + 1]
  <2>1. /\ id \in Ids /\ users[id] # Absent /\ users' = [users EXCEPT ![id] = a]
        /\ rtokens' = RevokeSessions(id) /\ req' = [req EXCEPT ![c] = NoReq]
        /\ UNCHANGED <<vtokens, mails, nextUser, nextHash, welcomed>>
    BY <1>1 DEF ChangePassword, Exists, Ends
  <2>2. a \in Account
    BY <2>1, Types DEF Account
  <2> HIDE DEF a
  <2> QED BY <2>1, <2>2, Types, VersionTypes
<1>2. CASE ChangeRole(c)
  <2> DEFINE a == [users[id] EXCEPT !.role = req[c].role, !.version = @ + 1]
  <2>1. /\ id \in Ids /\ users[id] # Absent
        /\ users' = [users EXCEPT ![id].role = req[c].role, ![id].version = @ + 1]
        /\ rtokens' = RevokeSessions(id) /\ req' = [req EXCEPT ![c] = NoReq]
        /\ UNCHANGED <<vtokens, mails, nextUser, nextHash, welcomed>>
    BY <1>2 DEF ChangeRole, Exists, Ends
  <2>2. a \in Account /\ users' = [users EXCEPT ![id] = a]
    <3>1. users[id] \in Account /\ req[c].role \in Roles
      BY <2>1, Types DEF Slot
    <3> QED BY <2>1, <3>1, Types DEF Account
  <2> HIDE DEF a
  <2> QED BY <2>1, <2>2, Types, VersionTypes
<1> QED BY <1>1, <1>2

\* Steps that write refresh_tokens only.
LEMMA TokenTypes ==
  ASSUME TypeInv, UNCHANGED <<users, vtokens, mails, nextUser, welcomed>>,
         NEW R, Left(R),
         \/ rtokens' = R /\ UNCHANGED nextHash
         \/ \E t \in RToken :
              /\ rtokens' = R \cup {t} /\ users[t.user] # Absent
              /\ t.hash = nextHash /\ t.from < nextHash
              /\ nextHash <= MaxHash /\ nextHash' = nextHash + 1,
         req' = req \/ \E c \in Clients : req' = [req EXCEPT ![c] = NoReq]
  PROVE  TypeInv'
<1>1. /\ req' \in [Clients -> Slot]
      /\ \A d \in Clients : req'[d] = req[d] \/ req'[d].at \in {"idle", "send"}
      /\ \A d \in Clients : req'[d].at = "write" => req'[d] = req[d]
  BY RequestEnds, Types
<1>2. \A t \in R : users[t.user] # Absent
  BY Types DEF Left, Marked
<1>3. /\ nextHash' \in 1..(MaxHash + 1) /\ nextHash' >= nextHash
      /\ \/ rtokens' = R
         \/ \E t \in RToken :
              /\ rtokens' = R \cup {t} /\ users'[t.user] # Absent
              /\ t.hash = nextHash /\ t.from < nextHash /\ nextHash' = nextHash + 1
  BY Types, Constants
<1>4. /\ \A d \in Clients : req'[d].at = "write" => users'[req'[d].id] # Absent
      /\ nextUser' \in 1..(MaxUsers + 1) /\ nextUser' >= nextUser
      /\ \A id \in Ids : vtokens'[id] # NoToken => users'[id] # Absent
      /\ \A id \in Ids : users'[id] # Absent => users[id] # Absent \/ id < nextUser'
  BY <1>1, Types
<1> QED BY <1>1, <1>2, <1>3, <1>4, Types, WritingTypes

LEMMA NewRTokenType ==
  ASSUME TypeInv, NEW c \in Clients, req[c].at \in {"login", "rotate"}
  PROVE  /\ NewRToken(c) \in RToken /\ NewRToken(c).hash = nextHash
         /\ NewRToken(c).from < nextHash
<1>1. /\ req[c].id \in Ids /\ req[c].version \in Nat \ {0} /\ req[c].token \in Nat
      /\ req[c].token < nextHash
  BY Constants DEF Knows, Slot
<1> QED BY <1>1, Types DEF NewRToken, RToken

LEMMA SessionTypes ==
  ASSUME TypeInv, NEW c \in Clients, CreateRefreshToken(c) \/ RotateRefreshToken(c)
  PROVE  TypeInv'
<1> DEFINE u == NewRToken(c)
<1>1. CASE CreateRefreshToken(c)
  <2>1. /\ req[c].at = "login" /\ req' = [req EXCEPT ![c] = NoReq]
        /\ users[req[c].id] # Absent /\ nextHash <= MaxHash /\ nextHash' = nextHash + 1
        /\ rtokens' = rtokens \cup {u}
        /\ UNCHANGED <<users, vtokens, mails, nextUser, welcomed>>
    BY <1>1 DEF CreateRefreshToken, Ends, Exists, Generates
  <2>2. u \in RToken /\ u.hash = nextHash /\ u.from < nextHash /\ u.user = req[c].id
    BY <2>1, NewRTokenType DEF NewRToken
  <2> HIDE DEF u
  <2> QED BY <2>1, <2>2, Types, TokenTypes
<1>2. CASE RotateRefreshToken(c)
  <2>1. /\ req[c].at = "rotate" /\ req' = [req EXCEPT ![c] = NoReq]
        /\ nextHash <= MaxHash /\ nextHash' = nextHash + 1
        /\ rtokens' = Exchanged(req[c].token) \cup {u}
        /\ UNCHANGED <<users, vtokens, mails, nextUser, welcomed>>
        /\ Active(req[c].token) # {}
    BY <1>2 DEF RotateRefreshToken, Ends, Generates, Exchanged
  <2>2. u \in RToken /\ u.hash = nextHash /\ u.from < nextHash /\ u.user = req[c].id
    BY <2>1, NewRTokenType DEF NewRToken
  <2>3. users[req[c].id] # Absent
    <3>1. PICK t \in rtokens : t.hash = req[c].token
      BY <2>1 DEF Active
    <3> QED BY <2>1, <3>1, Constants, Types DEF Knows
  <2>4. Left(Exchanged(req[c].token))
    BY ExchangedRevoked
  <2> HIDE DEF u
  <2> QED BY <2>1, <2>2, <2>3, <2>4, TokenTypes
<1> QED BY <1>1, <1>2

LEMMA MarksLeft ==
  ASSUME TypeInv, CleanupRefreshTokens \/ \E t \in rtokens : Logout(t) \/ ExpireRefresh(t)
  PROVE  Left(rtokens')
<1>1. CASE CleanupRefreshTokens
  BY <1>1, SomeLeft DEF CleanupRefreshTokens
<1>2. ASSUME NEW t \in rtokens, Logout(t) PROVE Left(rtokens')
  <2> DEFINE u == [t EXCEPT !.revoked = TRUE]
  <2>1. u \in RToken /\ Marked(t, u)
    BY Types DEF RToken, Marked
  <2>2. rtokens' = (rtokens \ {t}) \cup {u}
    BY <1>2 DEF Logout
  <2> HIDE DEF u
  <2> QED BY <2>1, <2>2, OneMarked
<1>3. ASSUME NEW t \in rtokens, ExpireRefresh(t) PROVE Left(rtokens')
  <2> DEFINE u == [t EXCEPT !.expired = TRUE]
  <2>1. u \in RToken /\ Marked(t, u)
    BY Types DEF RToken, Marked
  <2>2. rtokens' = (rtokens \ {t}) \cup {u}
    BY <1>3 DEF ExpireRefresh
  <2> HIDE DEF u
  <2> QED BY <2>1, <2>2, OneMarked
<1> QED BY <1>1, <1>2, <1>3

LEMMA MarkTypes ==
  ASSUME TypeInv, CleanupRefreshTokens \/ \E t \in rtokens : Logout(t) \/ ExpireRefresh(t)
  PROVE  TypeInv'
<1>1. Left(rtokens')
  BY MarksLeft
<1>2. UNCHANGED <<users, vtokens, mails, req, nextUser, nextHash, welcomed>>
  BY DEF CleanupRefreshTokens, Logout, ExpireRefresh
<1> QED BY <1>1, <1>2, TokenTypes

LEMMA DeleteTypes ==
  ASSUME TypeInv, NEW c \in Clients, Delete(c)
  PROVE  TypeInv'
<1> DEFINE id == req[c].id
           R == {t \in rtokens : t.user # id}
<1>1. /\ id \in Ids /\ RowFree(id) /\ users' = [users EXCEPT ![id] = Absent]
      /\ vtokens' = [vtokens EXCEPT ![id] = NoToken] /\ rtokens' = R
      /\ req' = [req EXCEPT ![c] = NoReq]
      /\ UNCHANGED <<mails, nextUser, nextHash, welcomed>>
  BY DEF Delete, Ends, Exists
<1>2. Left(R) /\ \A t \in R : t.user # id /\ t.user \in Ids /\ users[t.user] # Absent
  BY SomeLeft, Types
<1>3. \A i \in Ids : /\ users'[i] = IF i = id THEN Absent ELSE users[i]
                     /\ vtokens'[i] = IF i = id THEN NoToken ELSE vtokens[i]
  BY <1>1, Types
<1>4. users' \in [Ids -> Account \cup {Absent}] /\ vtokens' \in [Ids -> VToken \cup {NoToken}]
  BY <1>1, Types
<1>5. /\ req' \in [Clients -> Slot]
      /\ \A d \in Clients : req'[d] = req[d] \/ req'[d].at \in {"idle", "send"}
      /\ \A d \in Clients : req'[d].at = "write" => req'[d] = req[d]
  BY <1>1, RequestEnds
<1>6. /\ \A d \in Clients : req'[d].at = "write" => users'[req'[d].id] # Absent
      /\ \A i \in Ids : vtokens'[i] # NoToken => users'[i] # Absent
      /\ \A i \in Ids : users'[i] # Absent => users[i] # Absent
      /\ \A t \in R : users'[t.user] # Absent
  BY <1>1, <1>2, <1>3, <1>5, Types DEF RowFree
<1> HIDE DEF R
<1> QED BY <1>1, <1>2, <1>4, <1>5, <1>6, Types, WritingTypes

LEMMA AgeTypes ==
  ASSUME TypeInv, NEW id \in Ids, AgeVerification(id)
  PROVE  TypeInv'
<1> DEFINE v == [vtokens[id] EXCEPT !.age = IF @ = "new" THEN "old" ELSE "expired"]
<1>1. /\ vtokens' = [vtokens EXCEPT ![id] = v] /\ vtokens[id].age # "expired"
      /\ UNCHANGED <<users, rtokens, mails, req, nextUser, nextHash, welcomed>>
  BY DEF AgeVerification
<1>2. vtokens[id] \in VToken /\ vtokens[id] # NoToken
  BY <1>1, Types DEF NoToken
<1>3. v \in VToken
  BY <1>2 DEF VToken
<1> HIDE DEF v
<1>4. /\ vtokens' \in [Ids -> VToken \cup {NoToken}]
      /\ \A i \in Ids : vtokens'[i] # NoToken => users'[i] # Absent
  BY <1>1, <1>2, <1>3, Types
<1> QED BY <1>1, <1>4, Types, WritingTypes

LEMMA StepTypes == TypeInv /\ [Next]_vars => TypeInv'
<1> SUFFICES ASSUME TypeInv, [Next]_vars PROVE TypeInv'
  OBVIOUS
<1>1. ASSUME NEW c \in Clients, Continue(c) PROVE TypeInv'
  BY <1>1, RegistrationTypes, ReadingTypes, AccountTypes, SessionTypes, ChangeTypes, DeleteTypes
     DEF Continue
<1>2. CASE Next
  BY <1>1, <1>2, RegistrationTypes, VerifyTypes, BeginTypes, MarkTypes, AgeTypes DEF Next
<1>3. CASE UNCHANGED vars
  BY <1>3 DEF vars, TypeInv, TypeOK, Generated, Begun, Knows, Exists, Present
<1> QED BY <1>2, <1>3

\* Every row has its type, the child tables refer to existing users, and an
\* account's version is set, whatever the requests interleave.
THEOREM IdentityTypes == Spec => []TypeOK
<1>1. TypeInv => TypeOK
  BY DEF TypeInv
<1> QED BY <1>1, InitTypes, StepTypes, PTL DEF Spec

-----------------------------------------------------------------------------
(* Addresses.                                                              *)

\* UpdateProfile counted the claims of the new address, and no registration
\* came between: nobody else has it unverified while the row lock is held.
Counted ==
  \A c \in Clients :
    req[c].at = "write" =>
      \/ req[c].email = users[req[c].id].email
      \/ \A a \in Present \ {req[c].id} :
           ~users[a].verified => users[a].email # req[c].email

ClaimInv == TypeInv /\ Counted /\ UnverifiedAddressClaimedOnce

LEMMA InitClaims == Init => ClaimInv
BY InitTypes, NoReqType DEF Init, ClaimInv, Counted, UnverifiedAddressClaimedOnce, Present

\* Steps that begin no write and claim no address.
LEMMA NoClaim ==
  ASSUME ClaimInv,
         \A c \in Clients : req'[c].at = "write" =>
           req'[c] = req[c] /\ users'[req[c].id].email = users[req[c].id].email,
         \A a \in Ids : users'[a] # Absent =>
           /\ users[a] # Absent /\ users'[a].pending \in {users[a].pending, NoEmail}
           /\ ~users'[a].verified => ~users[a].verified /\ users'[a].email = users[a].email
  PROVE  Counted' /\ UnverifiedAddressClaimedOnce'
<1>1. Counted'
  BY DEF ClaimInv, Counted, Present
<1>2. ASSUME NEW a \in Present', NEW b \in Present', a # b, ~users'[a].verified
      PROVE  users'[b].pending # users'[a].email
  <2>1. /\ a \in Present /\ b \in Present /\ ~users[a].verified
        /\ users'[a].email = users[a].email /\ users'[b].pending \in {users[b].pending, NoEmail}
    BY <1>2 DEF Present
  <2>2. users[a].email # NoEmail
    BY <2>1, Types, EmailAssumption DEF ClaimInv, Present, Account
  <2> QED BY <1>2, <2>1, <2>2 DEF ClaimInv, UnverifiedAddressClaimedOnce
<1> QED BY <1>1, <1>2 DEF UnverifiedAddressClaimedOnce

LEMMA OldUsersClaims ==
  ASSUME ClaimInv, UNCHANGED users,
         \A c \in Clients : req'[c].at = "write" => req'[c] = req[c]
  PROVE  Counted' /\ UnverifiedAddressClaimedOnce'
BY NoClaim

\* A request that reads and ends or moves on, not to "write".
LEMMA NotWriting ==
  ASSUME TypeInv, NEW c \in Clients,
         \/ Begin(c) \/ SendVerificationForUser(c) \/ CanIssueEmailVerification(c)
         \/ ReadAccount(c) \/ Fail(c)
  PROVE  Quiet /\ \A d \in Clients : req'[d].at = "write" => req'[d] = req[d]
<1>1. CASE Begin(c)
  BY <1>1, BeginStarts, Types DEF Started
<1>2. ASSUME NEW from, Ends(c, from) PROVE \A d \in Clients : req'[d].at = "write" => req'[d] = req[d]
  BY <1>2, RequestEnds DEF Ends
<1>3. ASSUME NEW from, NEW to \in Steps, Moves(c, from, to), to # "write"
      PROVE  \A d \in Clients : req'[d].at = "write" => req'[d] = req[d]
  BY <1>3, Moved
<1>4. {"issue", "replace", "rotate"} \subseteq Steps
  BY DEF Steps
<1>5. CASE SendVerificationForUser(c)
  BY <1>2, <1>3, <1>4, <1>5 DEF SendVerificationForUser, Quiet
<1>6. CASE CanIssueEmailVerification(c)
  BY <1>2, <1>3, <1>4, <1>6 DEF CanIssueEmailVerification, Quiet
<1>7. CASE ReadAccount(c)
  BY <1>2, <1>3, <1>4, <1>7 DEF ReadAccount, Quiet
<1>8. CASE Fail(c)
  BY <1>2, <1>8 DEF Fail, Quiet
<1> QED BY <1>1, <1>5, <1>6, <1>7, <1>8

\* The registration's locking scan waits for open writes, and finds no claim.
LEMMA InsertClaims ==
  ASSUME ClaimInv, NEW email \in Emails, Insert(email),
         \A c \in Clients : req'[c].at = "write" => req'[c] = req[c]
  PROVE  Counted' /\ UnverifiedAddressClaimedOnce'
<1>1. /\ nextUser \in Ids /\ users' = [users EXCEPT ![nextUser] = NewAccount(email)]
      /\ \A id \in Present : users[id].pending # email
      /\ \A c \in Clients : req[c].at # "write"
  BY DEF Insert, ScanFree
<1>2. NewAccount(email).email = email /\ NewAccount(email).pending = NoEmail /\ email # NoEmail
  BY EmailAssumption DEF NewAccount
<1>3. \A a \in Ids : users'[a] = IF a = nextUser THEN NewAccount(email) ELSE users[a]
  BY <1>1, Types DEF ClaimInv
<1>4. ASSUME NEW a \in Present', NEW b \in Present', a # b, ~users'[a].verified
      PROVE  users'[b].pending # users'[a].email
  <2>1. CASE a = nextUser
    BY <1>1, <1>2, <1>3, <1>4, <2>1 DEF Present
  <2>2. CASE b = nextUser
    <3>1. users'[a].email # NoEmail
      BY <1>3, <1>4, <2>2, Types, EmailAssumption DEF ClaimInv, Present, Account
    <3> QED BY <1>2, <1>3, <2>2, <3>1 DEF Present
  <2>3. CASE a # nextUser /\ b # nextUser
    BY <1>3, <1>4, <2>3 DEF ClaimInv, UnverifiedAddressClaimedOnce, Present
  <2> QED BY <2>1, <2>2, <2>3
<1>5. Counted'
  BY <1>1 DEF Counted
<1> QED BY <1>4, <1>5 DEF UnverifiedAddressClaimedOnce

LEMMA LockClaims ==
  ASSUME ClaimInv, NEW c \in Clients, LockProfile(c)
  PROVE  Counted' /\ UnverifiedAddressClaimedOnce'
<1>1. /\ UNCHANGED users
      /\ req[c].email = users[req[c].id].email \/ Claims(req[c].email) \subseteq {req[c].id}
  BY DEF LockProfile, tables
<1>2. \A d \in Clients : /\ d # c => req'[d] = req[d]
                         /\ req'[c].id = req[c].id /\ req'[c].email = req[c].email
  <2>1. "write" \in Steps
    BY DEF Steps
  <2> QED BY <2>1, Moved DEF LockProfile, ClaimInv
<1>3. Counted'
  BY <1>1, <1>2 DEF ClaimInv, Counted, Claims, Present
<1> QED BY <1>1, <1>3 DEF ClaimInv, UnverifiedAddressClaimedOnce, Present

LEMMA UpdateClaims ==
  ASSUME ClaimInv, NEW c \in Clients, UpdateProfile(c)
  PROVE  Counted' /\ UnverifiedAddressClaimedOnce'
<1> DEFINE id == req[c].id
           pending == IF req[c].email = users[id].email THEN NoEmail ELSE req[c].email
           a1 == [users[id] EXCEPT !.pending = pending]
<1>1. req[c].at = "write" /\ Moves(c, "write", "send") /\ users' = [users EXCEPT ![id].pending = pending]
  BY DEF UpdateProfile, Moves
<1>2. id \in Ids /\ id \in Present /\ users[id] \in Account
  BY <1>1, Types DEF ClaimInv, Present
<1>3. a1.pending = pending /\ a1.email = users[id].email /\ a1.verified = users[id].verified
  BY <1>2 DEF Account
<1>4. \A i \in Ids : users'[i] = IF i = id THEN a1 ELSE users[i]
  BY <1>1, <1>2, Types DEF ClaimInv
<1>5. \A d \in Clients : req'[d].at = "write" => req'[d] = req[d]
  <2>1. "send" \in Steps
    BY DEF Steps
  <2> QED BY <1>1, <2>1, Moved DEF ClaimInv
<1>6. \A a \in Present \ {id} : ~users[a].verified => users[a].email # pending
  <2>1. \A a \in Present : users[a].email # NoEmail
    BY Types, EmailAssumption DEF ClaimInv, Present, Account
  <2> QED BY <1>1, <2>1 DEF ClaimInv, Counted
<1> HIDE DEF a1, pending
<1>7. \A i \in Ids : /\ i \in Present' => i \in Present
                     /\ users'[i].email = users[i].email /\ users'[i].verified = users[i].verified
                     /\ users'[i].pending = IF i = id THEN pending ELSE users[i].pending
  BY <1>2, <1>3, <1>4 DEF Present
<1>8. Counted'
  <2>1. ASSUME NEW d \in Clients, req'[d].at = "write"
        PROVE  /\ req'[d] = req[d] /\ req[d].id \in Ids
               /\ users'[req[d].id].email = users[req[d].id].email
    <3>1. req'[d] = req[d] /\ req[d].id \in Ids
      BY <1>5, <2>1, Types DEF ClaimInv
    <3> QED BY <1>7, <3>1
  <2> QED BY <1>7, <2>1 DEF ClaimInv, Counted, Present
<1>9. ASSUME NEW a \in Present', NEW b \in Present', a # b, ~users'[a].verified
      PROVE  users'[b].pending # users'[a].email
  <2>1. a \in Present /\ b \in Present /\ a \in Ids /\ b \in Ids
    BY <1>7 DEF Present
  <2>2. users'[a].email = users[a].email /\ ~users[a].verified
    BY <1>7, <1>9, <2>1
  <2> QED BY <1>6, <1>7, <1>9, <2>1, <2>2 DEF ClaimInv, UnverifiedAddressClaimedOnce
<1> QED BY <1>8, <1>9 DEF UnverifiedAddressClaimedOnce

\* A verification, a change of password or role, a deletion.
LEMMA RowClaims ==
  ASSUME ClaimInv, NEW id \in Ids, RowFree(id), users[id] # Absent,
         NEW a, users' = [users EXCEPT ![id] = a],
         a # Absent => /\ a.pending \in {users[id].pending, NoEmail}
                       /\ ~a.verified => ~users[id].verified /\ a.email = users[id].email,
         \A c \in Clients : req'[c].at = "write" => req'[c] = req[c]
  PROVE  Counted' /\ UnverifiedAddressClaimedOnce'
<1>1. \A i \in Ids : users'[i] = IF i = id THEN a ELSE users[i]
  BY Types DEF ClaimInv
<1>2. \A c \in Clients : req'[c].at = "write" =>
        req'[c] = req[c] /\ users'[req[c].id].email = users[req[c].id].email
  BY <1>1, Types DEF ClaimInv, RowFree
<1> QED BY <1>1, <1>2, NoClaim

LEMMA VersionClaims ==
  ASSUME ClaimInv, NEW c \in Clients, ChangePassword(c) \/ ChangeRole(c) \/ Delete(c)
  PROVE  Counted' /\ UnverifiedAddressClaimedOnce'
<1> DEFINE id == req[c].id
           a == users'[id]
<1>1. /\ id \in Ids /\ RowFree(id) /\ users[id] # Absent /\ users[id] \in Account
      /\ req' = [req EXCEPT ![c] = NoReq]
  BY Types DEF ClaimInv, ChangePassword, ChangeRole, Delete, Exists, Ends
<1>2. \A d \in Clients : req'[d].at = "write" => req'[d] = req[d]
  BY <1>1, RequestEnds DEF ClaimInv
<1>3. /\ users' = [users EXCEPT ![id] = a]
      /\ a # Absent => /\ a.pending = users[id].pending /\ a.verified = users[id].verified
                       /\ a.email = users[id].email
  <2>1. CASE ChangePassword(c)
    BY <1>1, <2>1, Types DEF ChangePassword, ClaimInv, Account
  <2>2. CASE ChangeRole(c)
    BY <1>1, <2>2, Types DEF ChangeRole, ClaimInv, Account
  <2>3. CASE Delete(c)
    BY <1>1, <2>3, Types DEF Delete, ClaimInv, Account
  <2> QED BY <2>1, <2>2, <2>3
<1> HIDE DEF a
<1> QED BY <1>1, <1>2, <1>3, RowClaims

LEMMA VerifyClaims ==
  ASSUME ClaimInv, NEW m \in mails, VerifyEmail(m)
  PROVE  Counted' /\ UnverifiedAddressClaimedOnce'
<1> DEFINE id == m.user
           a == [email |-> VerifiedEmail(id), pending |-> NoEmail, verified |-> TRUE,
                 role |-> VerifiedRole(id), version |-> users[id].version + 1]
<1>1. /\ id \in Ids /\ users[id] # Absent /\ users' = [users EXCEPT ![id] = a]
      /\ RowFree(id) /\ UNCHANGED req
  BY DEF VerifyEmail, Exists
<1>2. a.pending = NoEmail /\ a.verified
  OBVIOUS
<1> HIDE DEF a
<1> QED BY <1>1, <1>2, RowClaims

LEMMA StepClaims == ClaimInv /\ [Next]_vars => ClaimInv'
<1> SUFFICES ASSUME ClaimInv, [Next]_vars PROVE Counted' /\ UnverifiedAddressClaimedOnce'
  BY StepTypes DEF ClaimInv
<1> USE DEF ClaimInv
<1>1. ASSUME NEW email \in Emails, Register(email) PROVE Counted' /\ UnverifiedAddressClaimedOnce'
  BY <1>1, InsertClaims DEF Register
<1>2. ASSUME NEW c \in Clients, CreateUser(c) PROVE Counted' /\ UnverifiedAddressClaimedOnce'
  <2>1. req[c].email \in Emails /\ Insert(req[c].email)
    BY <1>2, Constants DEF CreateUser, Knows
  <2>2. \A d \in Clients : req'[d].at = "write" => req'[d] = req[d]
    <3> DEFINE r == [NoReq EXCEPT !.at = "send", !.id = nextUser]
    <3>1. r.at = "send" /\ req' = [req EXCEPT ![c] = r]
      BY <1>2, NoReqType DEF CreateUser, Slot
    <3> HIDE DEF r
    <3> QED BY <3>1, Types
  <2> QED BY <2>1, <2>2, InsertClaims
<1>3. ASSUME NEW c \in Clients,
             \/ ReplaceEmailVerificationToken(c) \/ CreateRefreshToken(c) \/ RotateRefreshToken(c)
      PROVE  Counted' /\ UnverifiedAddressClaimedOnce'
  BY <1>3, RequestEnds, OldUsersClaims
     DEF ReplaceEmailVerificationToken, CreateRefreshToken, RotateRefreshToken, Ends
<1>4. ASSUME NEW c \in Clients,
             \/ Begin(c) \/ SendVerificationForUser(c) \/ CanIssueEmailVerification(c)
             \/ ReadAccount(c) \/ Fail(c)
      PROVE  Counted' /\ UnverifiedAddressClaimedOnce'
  BY <1>4, NotWriting, OldUsersClaims DEF Quiet, tables
<1>5. ASSUME UNCHANGED <<users, req>> PROVE Counted' /\ UnverifiedAddressClaimedOnce'
  BY <1>5, OldUsersClaims
<1>6. ASSUME NEW c \in Clients, Begin(c) \/ Continue(c)
      PROVE  Counted' /\ UnverifiedAddressClaimedOnce'
  BY <1>2, <1>3, <1>4, <1>6, LockClaims, UpdateClaims, VersionClaims DEF Continue
<1>7. CASE Next
  BY <1>1, <1>5, <1>6, <1>7, VerifyClaims
     DEF Next, RegisterUncommitted, Logout, ExpireRefresh, AgeVerification, CleanupRefreshTokens, tables
<1>8. CASE UNCHANGED vars
  BY <1>5, <1>8 DEF vars
<1> QED BY <1>7, <1>8

\* Registration and a change of address, each checking the other's column in
\* a transaction of its own, never both accept an unverified address.
THEOREM ClaimedOnce == Spec => []UnverifiedAddressClaimedOnce
<1>1. ClaimInv => UnverifiedAddressClaimedOnce
  BY DEF ClaimInv
<1> QED BY <1>1, InitClaims, StepClaims, PTL DEF Spec

-----------------------------------------------------------------------------
(* Sessions.                                                               *)

\* A token that was exchanged is revoked.
Spent == \A s, t \in rtokens : s.from = t.hash => t.revoked

\* The account a rotation read is still current while its token is not
\* revoked: a new version revokes the tokens in its own transaction.
Current ==
  \A c \in Clients :
    req[c].at = "rotate" =>
      \A t \in rtokens :
        t.hash = req[c].token /\ ~t.revoked => req[c].version = users[t.user].version

SessionInv == TypeInv /\ Spent /\ Current /\ SingleUse /\ OldSessionsEnd

Sessions == Spent /\ Current /\ SingleUse /\ OldSessionsEnd

LEMMA InitSessions == Init => SessionInv
BY InitTypes DEF Init, SessionInv, Spent, Current, SingleUse, OldSessionsEnd

\* Steps that issue no token, and revoke those of an account they version.
LEMMA NoNewToken ==
  ASSUME SessionInv, Left(rtokens'),
         \A t \in rtokens' : ~t.revoked => users'[t.user].version = users[t.user].version,
         \A c \in Clients : req'[c].at = "rotate" => req'[c] = req[c]
  PROVE  Sessions'
<1>1. \A t \in rtokens' : \E s \in rtokens :
        /\ s.hash = t.hash /\ s.user = t.user /\ s.version = t.version /\ s.from = t.from
        /\ s.revoked => t.revoked
  BY DEF Left, Marked
<1>2. \A s, t \in rtokens' : s.hash = t.hash => s = t
  BY DEF Left
<1>3. Spent'
  BY <1>1 DEF SessionInv, Spent
<1>4. Current'
  <2>1. ASSUME NEW c \in Clients, req'[c].at = "rotate",
               NEW t \in rtokens', t.hash = req'[c].token, ~t.revoked
        PROVE  req'[c].version = users'[t.user].version
    <3>1. req'[c] = req[c]
      BY <2>1
    <3>2. PICK s \in rtokens : s.hash = t.hash /\ s.user = t.user /\ ~s.revoked
      BY <1>1, <2>1
    <3> QED BY <2>1, <3>1, <3>2 DEF SessionInv, Current
  <2> QED BY <2>1 DEF Current
<1>5. SingleUse'
  BY <1>1, <1>2 DEF SessionInv, SingleUse
<1>6. OldSessionsEnd'
  BY <1>1 DEF SessionInv, OldSessionsEnd
<1> QED BY <1>3, <1>4, <1>5, <1>6 DEF Sessions

LEMMA SameTokens ==
  ASSUME SessionInv, UNCHANGED rtokens,
         \A t \in rtokens : users'[t.user].version = users[t.user].version,
         \A c \in Clients : req'[c].at = "rotate" => req'[c] = req[c]
  PROVE  Sessions'
BY NoNewToken, Types DEF SessionInv

\* A step that moves a request on, not to "rotate".
LEMMA NotRotating ==
  ASSUME TypeInv, NEW c \in Clients,
         \/ Begin(c) \/ SendVerificationForUser(c) \/ CanIssueEmailVerification(c)
         \/ LockProfile(c) \/ UpdateProfile(c) \/ CreateUser(c) \/ Fail(c)
  PROVE  \A d \in Clients : req'[d].at = "rotate" => req'[d] = req[d]
<1>1. CASE Begin(c)
  BY <1>1, BeginStarts, Types DEF Started
<1>2. ASSUME NEW from, Ends(c, from) PROVE \A d \in Clients : req'[d].at = "rotate" => req'[d] = req[d]
  BY <1>2, NoReqType DEF Ends, TypeInv, TypeOK
<1>3. ASSUME NEW from, NEW to \in Steps, Moves(c, from, to), to # "rotate"
      PROVE  \A d \in Clients : req'[d].at = "rotate" => req'[d] = req[d]
  BY <1>3, Moved
<1>4. {"issue", "replace", "write", "send"} \subseteq Steps
  BY DEF Steps
<1>5. CASE SendVerificationForUser(c)
  BY <1>2, <1>3, <1>4, <1>5 DEF SendVerificationForUser
<1>6. CASE CanIssueEmailVerification(c)
  BY <1>2, <1>3, <1>4, <1>6 DEF CanIssueEmailVerification
<1>7. CASE LockProfile(c)
  BY <1>3, <1>4, <1>7 DEF LockProfile
<1>8. CASE UpdateProfile(c)
  BY <1>3, <1>4, <1>8 DEF UpdateProfile
<1>9. CASE CreateUser(c)
  <2> DEFINE r == [NoReq EXCEPT !.at = "send", !.id = nextUser]
  <2>1. r.at = "send" /\ req' = [req EXCEPT ![c] = r]
    BY <1>9, NoReqType DEF CreateUser, Slot
  <2> HIDE DEF r
  <2> QED BY <2>1, Types
<1>10. CASE Fail(c)
  BY <1>2, <1>10 DEF Fail
<1> QED BY <1>1, <1>5, <1>6, <1>7, <1>8, <1>9, <1>10

\* An account's row is written, its version not: a new one or a profile.
LEMMA AccountSessions ==
  ASSUME SessionInv,
         \/ \E c \in Clients : CreateUser(c) \/ UpdateProfile(c)
         \/ \E email \in Emails : Register(email)
  PROVE  Sessions'
<1>1. UNCHANGED rtokens
  BY DEF CreateUser, UpdateProfile, Register
<1>2. \A d \in Clients : req'[d].at = "rotate" => req'[d] = req[d]
  BY NotRotating DEF SessionInv, Register
<1>3. ASSUME NEW email, Insert(email)
      PROVE  \A t \in rtokens : users'[t.user].version = users[t.user].version
  <2>1. users' = [users EXCEPT ![nextUser] = NewAccount(email)]
    BY <1>3 DEF Insert
  <2>2. \A t \in rtokens : t.user \in Ids /\ t.user # nextUser
    BY Types DEF SessionInv, Ids
  <2> QED BY <2>1, <2>2, Types DEF SessionInv
<1>4. ASSUME NEW c \in Clients, UpdateProfile(c)
      PROVE  \A t \in rtokens : users'[t.user].version = users[t.user].version
  <2> DEFINE id == req[c].id
             pending == IF req[c].email = users[id].email THEN NoEmail ELSE req[c].email
             a == [users[id] EXCEPT !.pending = pending]
  <2>1. users' = [users EXCEPT ![id].pending = pending] /\ req[c].at = "write"
    BY <1>4 DEF UpdateProfile, Moves
  <2>2. id \in Ids /\ users[id] \in Account
    BY <2>1, Types DEF SessionInv
  <2>3. a.version = users[id].version
    BY <2>2 DEF Account
  <2>4. \A t \in rtokens : t.user \in Ids /\ users'[t.user] = IF t.user = id THEN a ELSE users[t.user]
    BY <2>1, <2>2, Types DEF SessionInv
  <2> HIDE DEF a
  <2> QED BY <2>3, <2>4
<1>5. \A t \in rtokens : users'[t.user].version = users[t.user].version
  BY <1>3, <1>4 DEF CreateUser, Register
<1> QED BY <1>1, <1>2, <1>5, SameTokens

\* A new version of an account, or its deletion.
LEMMA VersionSessions ==
  ASSUME SessionInv, NEW id \in Ids, NEW a, users' = [users EXCEPT ![id] = a],
         \/ rtokens' = RevokeSessions(id)
         \/ rtokens' = {t \in rtokens : t.user # id},
         req' = req \/ \E c \in Clients : req' = [req EXCEPT ![c] = NoReq]
  PROVE  Sessions'
<1>1. \A d \in Clients : req'[d].at = "rotate" => req'[d] = req[d]
  BY NoReqType DEF SessionInv, TypeInv, TypeOK
<1>2. Left(rtokens') /\ \A t \in rtokens' : ~t.revoked => t.user # id
  BY SessionsRevoked, SomeLeft DEF SessionInv
<1>3. \A t \in rtokens' : t.user \in Ids
  BY <1>2 DEF Left, RToken
<1>4. \A t \in rtokens' : ~t.revoked => users'[t.user].version = users[t.user].version
  BY <1>2, <1>3, Types DEF SessionInv
<1> QED BY <1>1, <1>2, <1>4, NoNewToken

LEMMA WritesSessions ==
  ASSUME SessionInv,
         \/ \E c \in Clients : ChangePassword(c) \/ ChangeRole(c) \/ Delete(c)
         \/ \E m \in mails : VerifyEmail(m)
  PROVE  Sessions'
<1>1. ASSUME NEW c \in Clients, ChangePassword(c) \/ ChangeRole(c) \/ Delete(c)
      PROVE  Sessions'
  <2> DEFINE id == req[c].id
             a == users'[id]
  <2>1. id \in Ids /\ req' = [req EXCEPT ![c] = NoReq]
    BY <1>1 DEF ChangePassword, ChangeRole, Delete, Exists, Ends
  <2>2. rtokens' = RevokeSessions(id) \/ rtokens' = {t \in rtokens : t.user # id}
    BY <1>1 DEF ChangePassword, ChangeRole, Delete
  <2>3. users' = [users EXCEPT ![id] = a]
    <3>1. CASE ChangePassword(c)
      BY <2>1, <3>1, Types DEF ChangePassword, SessionInv
    <3>2. CASE ChangeRole(c)
      BY <2>1, <3>2, Types DEF ChangeRole, SessionInv
    <3>3. CASE Delete(c)
      BY <2>1, <3>3, Types DEF Delete, SessionInv
    <3> QED BY <1>1, <3>1, <3>2, <3>3
  <2> HIDE DEF a
  <2> QED BY <2>1, <2>2, <2>3, VersionSessions
<1>2. ASSUME NEW m \in mails, VerifyEmail(m) PROVE Sessions'
  BY <1>2, VersionSessions DEF VerifyEmail, Exists
<1> QED BY <1>1, <1>2

\* The checks of a refresh: the account is read after the token.
LEMMA ReadSessions ==
  ASSUME SessionInv, NEW c \in Clients, ReadAccount(c)
  PROVE  Sessions'
<1>1. UNCHANGED <<users, rtokens>>
  BY DEF ReadAccount, tables
<1>2. "rotate" \in Steps
  BY DEF Steps
<1>3. CASE Ends(c, "account")
  <2>1. \A d \in Clients : req'[d].at = "rotate" => req'[d] = req[d]
    BY <1>3, NoReqType DEF Ends, SessionInv, TypeInv, TypeOK
  <2> QED BY <1>1, <2>1, SameTokens
<1>4. CASE Moves(c, "account", "rotate") /\ users[req[c].id].version = req[c].version
  <2>1. /\ \A d \in Clients : d # c => req'[d] = req[d]
        /\ req'[c].version = req[c].version /\ req'[c].token = req[c].token
    BY <1>2, <1>4, Moved DEF SessionInv
  <2>2. \A t \in rtokens : t.hash = req[c].token => t.user = req[c].id
    BY <1>4, Constants DEF Moves, Knows, SessionInv
  <2>3. Current'
    BY <1>1, <1>4, <2>1, <2>2 DEF SessionInv, Current
  <2> QED BY <1>1, <2>3 DEF SessionInv, Sessions, Spent, SingleUse, OldSessionsEnd
<1> QED BY <1>3, <1>4 DEF ReadAccount

\* What is left of the tokens, and a new one.
LEMMA IssueSessions ==
  ASSUME SessionInv, NEW R, Left(R), NEW u \in RToken, rtokens' = R \cup {u}, UNCHANGED users,
         u.hash = nextHash, u.from < nextHash,
         \A c \in Clients : req'[c].at = "rotate" => req'[c] = req[c],
         \A t \in R : u.from = t.hash => t.revoked,
         u.from # 0 => /\ u.version = users[u.user].version
                       /\ \A s \in rtokens : s.from # u.from
  PROVE  Sessions'
<1>1. \A t \in R : \E s \in rtokens :
        /\ s.hash = t.hash /\ s.user = t.user /\ s.version = t.version /\ s.from = t.from
        /\ s.revoked => t.revoked
  BY DEF Left, Marked
<1>2. \A s, t \in R : s.hash = t.hash => s = t
  BY DEF Left
<1>3. \A t \in R : t.hash # u.hash /\ t.from # u.hash
  BY <1>1, Types DEF SessionInv, TypeInv, Generated, RToken
<1>4. u.from # u.hash
  BY Types DEF SessionInv, RToken
<1>5. Spent'
  BY <1>1, <1>3, <1>4 DEF SessionInv, Spent
<1>6. Current'
  <2>1. ASSUME NEW c \in Clients, req'[c].at = "rotate",
               NEW t \in rtokens', t.hash = req'[c].token, ~t.revoked
        PROVE  req'[c].version = users'[t.user].version
    <3>1. req'[c] = req[c]
      BY <2>1
    <3>2. req[c].token # u.hash
      BY <2>1, <3>1, Constants, Types DEF SessionInv, Knows
    <3>3. PICK s \in rtokens : s.hash = t.hash /\ s.user = t.user /\ ~s.revoked
      BY <1>1, <2>1, <3>1, <3>2
    <3> QED BY <2>1, <3>1, <3>3 DEF SessionInv, Current
  <2> QED BY <2>1 DEF Current
<1>7. SingleUse'
  <2>1. \A t \in R : u.from # 0 => t.from # u.from
    BY <1>1
  <2>2. \A s, t \in R : s.from = t.from /\ s.from # 0 => s = t
    BY <1>1, <1>2 DEF SessionInv, SingleUse
  <2> QED BY <2>1, <2>2 DEF SingleUse
<1>8. OldSessionsEnd'
  BY <1>1 DEF SessionInv, OldSessionsEnd
<1> QED BY <1>5, <1>6, <1>7, <1>8 DEF Sessions

LEMMA LoginSessions ==
  ASSUME SessionInv, NEW c \in Clients, CreateRefreshToken(c)
  PROVE  Sessions'
<1> DEFINE u == NewRToken(c)
<1>1. req[c].at = "login" /\ req' = [req EXCEPT ![c] = NoReq]
      /\ rtokens' = rtokens \cup {u} /\ UNCHANGED users
  BY DEF CreateRefreshToken, Ends
<1>2. u \in RToken /\ u.hash = nextHash /\ u.from = 0 /\ u.from < nextHash
  BY <1>1, NewRTokenType, Constants DEF SessionInv, NewRToken, Knows
<1>3. \A t \in rtokens : t.hash # 0
  BY Types DEF SessionInv, RToken
<1>4. \A d \in Clients : req'[d].at = "rotate" => req'[d] = req[d]
  BY <1>1, NoReqType DEF SessionInv, TypeInv, TypeOK
<1>5. Left(rtokens)
  BY Types DEF SessionInv
<1> HIDE DEF u
<1> QED BY <1>1, <1>2, <1>3, <1>4, <1>5, IssueSessions

\* The token is still active when it is exchanged: nobody exchanged it before.
LEMMA RotateSessions ==
  ASSUME SessionInv, NEW c \in Clients, RotateRefreshToken(c)
  PROVE  Sessions'
<1> DEFINE u == NewRToken(c)
           h == req[c].token
<1>1. /\ req[c].at = "rotate" /\ req' = [req EXCEPT ![c] = NoReq] /\ Active(h) # {}
      /\ rtokens' = Exchanged(h) \cup {u} /\ UNCHANGED users
  BY DEF RotateRefreshToken, Ends, Exchanged
<1>2. /\ u \in RToken /\ u.hash = nextHash /\ u.from < nextHash /\ u.from = h
      /\ u.user = req[c].id /\ u.version = req[c].version
  BY <1>1, NewRTokenType DEF SessionInv, NewRToken
<1>3. PICK t \in rtokens : t.hash = h /\ ~t.revoked
  BY <1>1 DEF Active
<1>4. t.user = req[c].id
  BY <1>1, <1>3, Constants DEF SessionInv, Knows
<1>5. u.version = users[u.user].version
  BY <1>1, <1>2, <1>3, <1>4 DEF SessionInv, Current
<1>6. \A s \in rtokens : s.from # h
  BY <1>3 DEF SessionInv, Spent
<1>7. Left(Exchanged(h)) /\ \A s \in Exchanged(h) : h = s.hash => s.revoked
  BY ExchangedRevoked DEF SessionInv
<1>8. \A d \in Clients : req'[d].at = "rotate" => req'[d] = req[d]
  BY <1>1, NoReqType DEF SessionInv, TypeInv, TypeOK
<1> HIDE DEF u, h
<1> QED BY <1>1, <1>2, <1>5, <1>6, <1>7, <1>8, IssueSessions

LEMMA MarkSessions ==
  ASSUME SessionInv, CleanupRefreshTokens \/ \E t \in rtokens : Logout(t) \/ ExpireRefresh(t)
  PROVE  Sessions'
<1>1. Left(rtokens')
  BY MarksLeft DEF SessionInv
<1>2. UNCHANGED <<users, req>>
  BY DEF CleanupRefreshTokens, Logout, ExpireRefresh
<1> QED BY <1>1, <1>2, NoNewToken

LEMMA StepSessions == SessionInv /\ [Next]_vars => SessionInv'
<1> SUFFICES ASSUME SessionInv, [Next]_vars PROVE Sessions'
  BY StepTypes DEF SessionInv, Sessions
<1>1. ASSUME UNCHANGED <<users, rtokens, req>> PROVE Sessions'
  BY <1>1, SameTokens
<1>2. ASSUME NEW c \in Clients,
             \/ Begin(c) \/ SendVerificationForUser(c) \/ CanIssueEmailVerification(c)
             \/ LockProfile(c) \/ Fail(c)
      PROVE  Sessions'
  <2>1. UNCHANGED <<users, rtokens>>
    BY <1>2, BeginStarts
       DEF SendVerificationForUser, CanIssueEmailVerification, LockProfile, Fail, Started, Quiet, tables,
           SessionInv
  <2> QED BY <1>2, <2>1, NotRotating, SameTokens DEF SessionInv
<1>3. ASSUME NEW c \in Clients, ReplaceEmailVerificationToken(c) PROVE Sessions'
  <2>1. \A d \in Clients : req'[d].at = "rotate" => req'[d] = req[d]
    BY <1>3, NoReqType DEF ReplaceEmailVerificationToken, Ends, SessionInv, TypeInv, TypeOK
  <2> QED BY <1>3, <2>1, SameTokens DEF ReplaceEmailVerificationToken
<1>4. ASSUME NEW email \in Emails, Register(email) PROVE Sessions'
  BY <1>4, AccountSessions
<1>5. ASSUME NEW c \in Clients, Begin(c) \/ Continue(c) PROVE Sessions'
  BY <1>2, <1>3, <1>5, AccountSessions, LoginSessions, ReadSessions, RotateSessions, WritesSessions
     DEF Continue
<1>6. CASE Next
  BY <1>1, <1>4, <1>5, <1>6, WritesSessions, MarkSessions
     DEF Next, RegisterUncommitted, AgeVerification, tables
<1>7. CASE UNCHANGED vars
  BY <1>1, <1>7 DEF vars
<1> QED BY <1>6, <1>7

\* A refresh token is exchanged at most once, whatever the requests interleave.
THEOREM ExchangedOnce == Spec => []SingleUse
<1>1. SessionInv => SingleUse
  BY DEF SessionInv
<1> QED BY <1>1, InitSessions, StepSessions, PTL DEF Spec

\* No session that was rotated survives a change of its account's version.
THEOREM SessionsEnd == Spec => []OldSessionsEnd
<1>1. SessionInv => OldSessionsEnd
  BY DEF SessionInv
<1> QED BY <1>1, InitSessions, StepSessions, PTL DEF Spec

-----------------------------------------------------------------------------
(* Roles.                                                                  *)

\* What RoleChangesAuthorised says of one user.
Authorised(id) ==
  users'[id] # Absent /\ users'[id].role # users[id].role =>
    \/ \E c \in Clients : /\ req[c].at = "role" /\ req'[c].at = "idle"
                          /\ req[c].id = id /\ req[c].actor \in Admins
    \/ Admins = {} /\ users'[id].email = Bootstrap /\ users'[id].verified

LEMMA InsertRoles ==
  ASSUME TypeInv, NEW email, Insert(email)
  PROVE  \A id \in Present : users'[id] = users[id]
<1>1. users' = [users EXCEPT ![nextUser] = NewAccount(email)]
  BY DEF Insert
<1>2. \A id \in Present : id \in Ids /\ id # nextUser
  BY Types DEF Present, Ids
<1> QED BY <1>1, <1>2, Types

LEMMA ChangeRoles ==
  ASSUME TypeInv, NEW c \in Clients, ChangeRole(c), NEW id \in Present
  PROVE  Authorised(id)
<1>1. /\ req[c].at = "role" /\ req' = [req EXCEPT ![c] = NoReq] /\ req[c].actor \in Admins
  BY DEF ChangeRole, Ends, ActorIsAdmin, IsAdmin, Admins, Exists
<1>2. req'[c].at = "idle"
  BY <1>1, NoReqType, Types
<1>3. id # req[c].id => users'[id] = users[id]
  BY Types DEF ChangeRole, Present
<1> QED BY <1>1, <1>2, <1>3 DEF Authorised

LEMMA VerifyRoles ==
  ASSUME TypeInv, NEW m \in mails, VerifyEmail(m), NEW id \in Present
  PROVE  Authorised(id)
<1> DEFINE i == m.user
           a == [email |-> VerifiedEmail(i), pending |-> NoEmail, verified |-> TRUE,
                 role |-> VerifiedRole(i), version |-> users[i].version + 1]
<1>1. i \in Ids /\ users' = [users EXCEPT ![i] = a]
  BY DEF VerifyEmail, Exists
<1>2. /\ a.email = VerifiedEmail(i) /\ a.verified
      /\ a.role = users[i].role \/ (VerifiedEmail(i) = Bootstrap /\ Admins = {})
  BY DEF VerifiedRole
<1> HIDE DEF a
<1>3. users'[id] = IF id = i THEN a ELSE users[id]
  BY <1>1, Types DEF Present
<1> QED BY <1>2, <1>3 DEF Authorised

\* The other writes of an account leave its role alone.
LEMMA RolesKept ==
  ASSUME TypeInv, NEW c \in Clients, UpdateProfile(c) \/ ChangePassword(c) \/ Delete(c),
         NEW id \in Present
  PROVE  users'[id] = Absent \/ users'[id].role = users[id].role
<1>1. id \in Ids /\ users[id] \in Account
  BY Types DEF Present
<1>2. CASE UpdateProfile(c)
  BY <1>1, <1>2, Types DEF UpdateProfile, Account
<1>3. CASE ChangePassword(c)
  BY <1>1, <1>3, Types DEF ChangePassword, Account
<1>4. CASE Delete(c)
  BY <1>1, <1>4, Types DEF Delete
<1> QED BY <1>2, <1>3, <1>4

LEMMA StepRoles ==
  ASSUME TypeInv, [Next]_vars, NEW id \in Present
  PROVE  Authorised(id)
<1>1. ASSUME users'[id] = users[id] PROVE Authorised(id)
  BY <1>1 DEF Authorised
<1>2. ASSUME NEW email, Register(email) \/ RegisterUncommitted(email) PROVE Authorised(id)
  BY <1>1, <1>2, InsertRoles DEF Register, RegisterUncommitted, tables
<1>3. ASSUME NEW c \in Clients, Begin(c) PROVE Authorised(id)
  BY <1>1, <1>3, BeginStarts DEF Started, Quiet, tables
<1>4. ASSUME NEW c \in Clients, Continue(c) PROVE Authorised(id)
  <2>1. CASE CreateUser(c)
    BY <1>1, <2>1, InsertRoles DEF CreateUser
  <2>2. CASE UpdateProfile(c) \/ ChangePassword(c) \/ Delete(c)
    BY <2>2, RolesKept DEF Authorised
  <2>3. CASE ChangeRole(c)
    BY <2>3, ChangeRoles
  <2>4. CASE \/ SendVerificationForUser(c) \/ CanIssueEmailVerification(c) \/ LockProfile(c)
             \/ ReadAccount(c) \/ Fail(c) \/ ReplaceEmailVerificationToken(c)
             \/ CreateRefreshToken(c) \/ RotateRefreshToken(c)
    BY <1>1, <2>4
       DEF SendVerificationForUser, CanIssueEmailVerification, LockProfile, ReadAccount, Fail,
           ReplaceEmailVerificationToken, CreateRefreshToken, RotateRefreshToken, tables
  <2> QED BY <1>4, <2>1, <2>2, <2>3, <2>4 DEF Continue
<1>5. CASE Next
  BY <1>1, <1>2, <1>3, <1>4, <1>5, VerifyRoles
     DEF Next, Logout, ExpireRefresh, AgeVerification, CleanupRefreshTokens
<1>6. CASE UNCHANGED vars
  BY <1>1, <1>6 DEF vars
<1> QED BY <1>5, <1>6

\* Who changes a role is an admin when the change commits; the only other way
\* to become one is the bootstrap address while there is no admin.
THEOREM RolesAuthorised == Spec => RoleChangesAuthorised
<1>1. TypeInv /\ [Next]_vars => [\A id \in Present : Authorised(id)]_vars
  BY StepRoles
<1>2. TypeInv /\ [Next]_vars =>
        [\A id \in Present : users'[id] # Absent /\ users'[id].role # users[id].role =>
           \/ \E c \in Clients : /\ req[c].at = "role" /\ req'[c].at = "idle"
                                 /\ req[c].id = id /\ req[c].actor \in Admins
           \/ Admins = {} /\ users'[id].email = Bootstrap /\ users'[id].verified]_vars
  BY <1>1 DEF Authorised
<1> QED BY <1>2, InitTypes, StepTypes, PTL DEF Spec, RoleChangesAuthorised

===============================================================================
