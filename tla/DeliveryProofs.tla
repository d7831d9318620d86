---------------------------- MODULE DeliveryProofs ----------------------------
(* Theorems about Delivery for every value of its constants: any number of *)
(* jobs, workers, clients, addresses and users.                            *)
EXTENDS Delivery, TLAPS

(* TypeOK is not inductive: that a verified user has an address needs that *)
(* a link belongs to a user who exists.                                    *)

\* A request that got past its start is about a user that exists, or that is
\* about to; a token of its own is a token.
Begun(c) ==
  /\ req[c].at # "idle" => req[c].id \in Ids
  /\ req[c].at = "commit" =>
       req[c].account.email \in Emails /\ ~req[c].account.verified /\ req[c].hash > 0
  /\ req[c].at \in {"read", "replace", "notify", "welcome"} => Exists(req[c].id)
  /\ req[c].at = "notify" => req[c].hash > 0

Addressed ==
  \A id \in Ids :
    /\ Exists(id) => VerifiedEmail(users[id]) # NoEmail
    /\ token[id] > 0 => Exists(id)

Linked ==
  \A j \in Jobs : message[j].kind = "verification" => message[j].user \in Ids /\ message[j].hash > 0

TypeInv == TypeOK /\ (\A c \in Clients : Begun(c)) /\ Addressed /\ Linked

USE DeliveryAssumption, BoundAssumption, ConfiguredAssumption

-----------------------------------------------------------------------------
(* What the steps of the queue do to the types.                            *)

LEMMA LifecycleTypes ==
  ASSUME LifecycleTypeOK
  PROVE  /\ \A j \in Jobs : Accept(j) => LifecycleTypeOK'
         /\ \A j \in Jobs, w \in Workers \cup {Nobody} : Take(j, w) => LifecycleTypeOK'
         /\ \A j \in Jobs, w \in Workers, r \in {"done", "waiting", "failed"} :
              Settle(j, w, r) => LifecycleTypeOK'
         /\ \A lost \in SUBSET Jobs : Abandon(lost) => LifecycleTypeOK'
         /\ \A chosen \in SUBSET Jobs, r \in {"waiting", "dropped"} :
              Decide(chosen, r) => LifecycleTypeOK'
BY DEF LifecycleTypeOK, States, Accept, Take, Settle, Abandon, Decide

LEMMA EnqueueTypes ==
  ASSUME LifecycleTypeOK, CommandTypeOK, cmd' = cmd,
         NEW j \in Jobs, NEW name \in Queues, Enqueue(j, name)
  PROVE  LifecycleTypeOK' /\ CommandTypeOK'
BY LifecycleTypes DEF Enqueue, CommandTypeOK

LEMMA CommandTypes ==
  ASSUME LifecycleTypeOK, CommandTypeOK, CommandNext
  PROVE  LifecycleTypeOK' /\ CommandTypeOK'
<1>1. ASSUME NEW names, NEW states PROVE In(names, states) \in SUBSET Jobs
  BY DEF In
<1>2. ASSUME NEW states PROVE QueuesOf(states) \in SUBSET Queues
  BY DEF In, QueuesOf
<1>3. ASSUME NEW what, NEW name PROVE Read(what, name) \in SUBSET Jobs
  BY <1>1 DEF Read
<1>4. ASSUME UNCHANGED <<lifecycleVars, queue>> PROVE LifecycleTypeOK' /\ queue' = queue
  BY <1>4 DEF LifecycleTypeOK, lifecycleVars
<1>6. ASSUME NEW op \in Ops, Start(op) PROVE LifecycleTypeOK' /\ CommandTypeOK'
  <2>1. cmd'.due \in SUBSET Jobs
    BY <1>6, <1>1 DEF Start, NoCommand
  <2> QED
    BY <1>6, <1>4, <2>1 DEF Start, NoCommand, CommandTypeOK
<1>7. ASSUME NEW op \in Ops, NEW name \in Queues, StartOn(op, name)
      PROVE  LifecycleTypeOK' /\ CommandTypeOK'
  BY <1>7, <1>4, <1>1 DEF StartOn, NoCommand, CommandTypeOK
<1>8. ASSUME NEW op \in Ops, NEW j \in Jobs, OperateOn(op, j)
      PROVE  LifecycleTypeOK' /\ CommandTypeOK'
  BY <1>8, LifecycleTypes DEF OperateOn, CommandTypeOK
<1>9. ASSUME NEW name \in Queues, Operate(name) PROVE LifecycleTypeOK' /\ CommandTypeOK'
  <2>1. LifecycleTypeOK'
    BY <1>9, <1>1, LifecycleTypes DEF Operate
  <2> QED
    BY <1>9, <2>1 DEF Operate, CommandTypeOK
<1>10. ASSUME NEW name \in Queues, FirstRead(name) PROVE LifecycleTypeOK' /\ CommandTypeOK'
  BY <1>10, <1>4, <1>1, <1>3 DEF FirstRead, CommandTypeOK
<1>11. CASE ReadRows
  BY <1>11, <1>4, <1>2 DEF ReadRows, StoredQueues, CommandTypeOK
<1>12. CASE ReadStats
  BY <1>12, <1>4, <1>2 DEF ReadStats, CommandTypeOK
<1>13. CASE SecondRead
  BY <1>13, <1>4, <1>3 DEF SecondRead, CommandTypeOK
<1>14. CASE PrintLine
  BY <1>14, <1>4 DEF PrintLine, NoCommand, CommandTypeOK
<1>15. CASE End
  BY <1>15, <1>4 DEF End, NoCommand, CommandTypeOK
<1> QED
  BY <1>6, <1>7, <1>8, <1>9, <1>10, <1>11, <1>12, <1>13, <1>14, <1>15 DEF CommandNext

-----------------------------------------------------------------------------
(* The types of the other variables, by what a step leaves alone.          *)

Places == {"idle", "commit", "read", "replace", "notify", "welcome"}
Request == [at : Places, id : 0..MaxUsers, account : Account, hash : 0..MaxHash]
Message == [kind : {"none", "verification", "welcome", "other"},
            user : 0..MaxUsers, hash : 0..MaxHash, to : Emails \cup {NoEmail}]

AccountTypes ==
  /\ users \in [Ids -> Account]
  /\ \A id \in Ids : users[id].verified => users[id].email # NoEmail
  /\ token \in [Ids -> 0..MaxHash] /\ outdated \subseteq 1..MaxHash
  /\ nextUser \in 1..(MaxUsers + 1) /\ nextHash \in 1..(MaxHash + 1)
RequestTypes == req \in [Clients -> Request]
MessageTypes ==
  /\ message \in [Jobs -> Message]
  /\ \A j \in Jobs : message[j].kind = "verification" => message[j].to # NoEmail
WorkTypes ==
  /\ handler \in [Workers -> [job : 0..MaxJobs, result : {"none", "ok", "error"}]]
  /\ inbox \subseteq Jobs

LEMMA TypeParts ==
  /\ TypeOK <=> /\ LifecycleTypeOK /\ CommandTypeOK
                /\ AccountTypes /\ RequestTypes /\ MessageTypes /\ WorkTypes
  /\ TypeOK' <=> /\ LifecycleTypeOK' /\ CommandTypeOK'
                 /\ AccountTypes' /\ RequestTypes' /\ MessageTypes' /\ WorkTypes'
BY DEF TypeOK, AccountTypes, RequestTypes, MessageTypes, WorkTypes, Places, Request, Message

LEMMA Constants ==
  /\ Absent \in Account /\ ~Absent.verified /\ Absent.email = NoEmail /\ Absent.pending = NoEmail
  /\ Idle \in Request /\ Idle.at = "idle" /\ NoMessage \in Message
  /\ NoTask \in [job : 0..MaxJobs, result : {"none", "ok", "error"}]
  /\ Ids \subseteq 0..MaxUsers /\ Jobs \subseteq 0..MaxJobs /\ 0 \notin Jobs
BY DEF Absent, Account, Idle, Doing, Request, Places, NoMessage, Message, NoTask, Ids, Jobs

LEMMA InitTypes == Init => TypeInv
<1> SUFFICES ASSUME Init PROVE TypeInv
  OBVIOUS
<1>1. LifecycleTypeOK /\ CommandTypeOK
  BY DEF Init, LifecycleInit, CommandInit, LifecycleTypeOK, CommandTypeOK, States, NoCommand
<1>2. AccountTypes /\ RequestTypes /\ MessageTypes /\ WorkTypes
  BY Constants DEF Init, AccountTypes, RequestTypes, MessageTypes, WorkTypes, NoMessage
<1>3. (\A c \in Clients : Begun(c)) /\ Addressed /\ Linked
  BY Constants DEF Init, Begun, Addressed, Linked, Exists, NoMessage
<1> QED
  BY <1>1, <1>2, <1>3, TypeParts DEF TypeInv

\* A message that is queued is well formed if what it is made of is.
LEMMA QueueTypes ==
  ASSUME TypeInv, NEW m \in Message, Queue(m), UNCHANGED cmd,
         m.kind = "verification" => m.user \in Ids /\ m.hash > 0
  PROVE  LifecycleTypeOK' /\ CommandTypeOK' /\ MessageTypes' /\ Linked'
<1>1. PICK j \in Jobs : Enqueue(j, "mail") /\ message' = [message EXCEPT ![j] = m]
  BY DEF Queue, DispatchMessage
<1>2. LifecycleTypeOK' /\ CommandTypeOK'
  BY <1>1, EnqueueTypes, TypeParts DEF TypeInv
<1>3. m.to # NoEmail
  BY DEF Queue, Valid
<1> QED
  BY <1>1, <1>2, <1>3, TypeParts DEF TypeInv, MessageTypes, Linked

\* Nothing but accounts and requests changes.
LEMMA QuietTypes ==
  ASSUME TypeInv, Quiet
  PROVE  LifecycleTypeOK' /\ CommandTypeOK' /\ MessageTypes' /\ WorkTypes' /\ Linked'
BY TypeParts DEF TypeInv, Quiet, NotQueued, LifecycleTypeOK, CommandTypeOK, MessageTypes, WorkTypes,
  Linked, lifecycleVars

LEMMA SameAccounts ==
  ASSUME TypeInv, UNCHANGED <<accounts, counters>>
  PROVE  AccountTypes' /\ Addressed'
BY TypeParts DEF TypeInv, AccountTypes, Addressed, accounts, counters, Exists, VerifiedEmail

\* The request of another client is as good as before while users stay.
LEMMA OneRequest ==
  ASSUME TypeInv, NEW c \in Clients, NEW r \in Request, req' = [req EXCEPT ![c] = r],
         \A id \in Ids : Exists(id) => Exists(id)', Begun(c)'
  PROVE  RequestTypes' /\ \A d \in Clients : Begun(d)'
<1>1. RequestTypes'
  BY TypeParts DEF TypeInv, RequestTypes
<1>2. ASSUME NEW d \in Clients, d # c PROVE Begun(d)'
  <2>1. req'[d] = req[d] /\ Begun(d)
    BY <1>2, TypeParts DEF TypeInv, RequestTypes
  <2> QED
    BY <2>1 DEF Begun
<1> QED
  BY <1>1, <1>2

-----------------------------------------------------------------------------
(* Requests, action by action.                                             *)

LEMMA RegisterTypes ==
  ASSUME TypeInv, NEW c \in Clients, NEW email \in Emails, Register(c, email)
  PROVE  TypeInv'
<1> DEFINE account == [verified |-> FALSE, email |-> email, pending |-> NoEmail]
           m == Verification(nextUser, account, nextHash)
           r == Doing("commit", nextUser, account, nextHash)
<1>1. nextUser \in Ids /\ nextHash \in 1..MaxHash
  BY TypeParts DEF Register, TypeInv, AccountTypes, Ids
<1>2. account \in Account /\ r \in Request /\ m \in Message
  BY <1>1, Constants DEF Account, Request, Places, Message, Verification, Recipient, Doing
<1>3. PICK queued \in BOOLEAN :
        /\ IF queued THEN Queue(m) ELSE NotQueued
        /\ Begins(c, IF Notified(queued) THEN r ELSE Idle)
  BY DEF Register
<1>4. UNCHANGED <<accounts, cmd, handler, inbox>> /\ nextUser' = nextUser + 1 /\ nextHash' = nextHash + 1
  BY DEF Register
<1>5. LifecycleTypeOK' /\ CommandTypeOK' /\ MessageTypes' /\ Linked'
  <2>1. CASE queued
    BY <1>1, <1>2, <1>3, <1>4, <2>1, QueueTypes DEF Verification
  <2>2. CASE ~queued
    BY <1>3, <1>4, <2>2, TypeParts DEF TypeInv, NotQueued, LifecycleTypeOK, CommandTypeOK,
      MessageTypes, Linked, lifecycleVars
  <2> QED
    BY <2>1, <2>2
<1>6. AccountTypes' /\ Addressed' /\ WorkTypes'
  BY <1>1, <1>4, TypeParts DEF TypeInv, AccountTypes, WorkTypes, Addressed, accounts, Exists,
    VerifiedEmail, Ids
<1>7. RequestTypes' /\ \A d \in Clients : Begun(d)'
  <2>1. PICK q \in {r, Idle} : req' = [req EXCEPT ![c] = q]
    BY <1>3 DEF Begins
  <2>2. q \in Request /\ req'[c] = q
    BY <1>2, <2>1, Constants, TypeParts DEF TypeInv, RequestTypes
  <2>3. Begun(c)'
    BY <1>1, <2>2, Constants DEF Begun, Doing
  <2>4. \A id \in Ids : Exists(id) => Exists(id)'
    BY <1>4 DEF accounts, Exists
  <2> QED
    BY <2>1, <2>2, <2>3, <2>4, OneRequest
<1> QED
  BY <1>5, <1>6, <1>7, TypeParts DEF TypeInv

\* Steps that change no account: what is left is the request.
LEMMA QuietRequest ==
  ASSUME TypeInv, NEW c \in Clients, NEW r \in Request, req' = [req EXCEPT ![c] = r],
         UNCHANGED <<accounts, counters>>, Quiet, Begun(c)'
  PROVE  TypeInv'
<1>1. \A id \in Ids : Exists(id) => Exists(id)'
  BY DEF accounts, Exists
<1> QED
  BY <1>1, QuietTypes, SameAccounts, OneRequest, TypeParts DEF TypeInv

LEMMA ReadingTypes ==
  ASSUME TypeInv, NEW c \in Clients,
         (\E id \in Ids : Resend(c, id)) \/ ReadAccount(c) \/ Fail(c)
  PROVE  TypeInv'
<1>1. req[c] \in Request /\ Begun(c) /\ req \in [Clients -> Request]
  BY TypeParts DEF TypeInv, RequestTypes
<1>2. ASSUME NEW id \in Ids, Resend(c, id) PROVE TypeInv'
  <2> DEFINE r == Doing("read", id, Absent, 0)
  <2>1. r \in Request /\ r.at = "read" /\ r.id = id
    BY Constants DEF Doing, Request, Places
  <2>2. req' = [req EXCEPT ![c] = r] /\ req'[c] = r /\ Exists(id)'
    BY <1>1, <1>2 DEF Resend, Begins, accounts, Exists
  <2>3. Begun(c)'
    BY <2>1, <2>2 DEF Begun
  <2> QED
    BY <1>2, <2>1, <2>2, <2>3, QuietRequest DEF Resend
<1>3. CASE ReadAccount(c)
  <2>1. PICK id \in Ids : id = req[c].id /\ Exists(id) /\ users[id] \in Account
    BY <1>1, <1>3, TypeParts DEF ReadAccount, Begun, TypeInv, AccountTypes
  <2> DEFINE asked == Doing("replace", id, users[id], 0)
  <2>2. asked \in Request /\ asked.at = "replace" /\ asked.id = id
    BY <2>1, Constants DEF Doing, Request, Places
  <2>3. PICK r \in {Idle, asked} : req' = [req EXCEPT ![c] = r]
    BY <1>3, <2>1 DEF ReadAccount
  <2>4. r \in Request /\ req'[c] = r
    BY <1>1, <2>2, <2>3, Constants
  <2>5. Exists(id)'
    BY <1>3, <2>1 DEF ReadAccount, accounts, Exists
  <2>6. Begun(c)'
    BY <2>1, <2>2, <2>3, <2>4, <2>5, Constants DEF Begun
  <2> QED
    BY <1>3, <2>3, <2>4, <2>6, QuietRequest DEF ReadAccount
<1>4. CASE Fail(c)
  <2>1. req' = [req EXCEPT ![c] = Idle] /\ req'[c] = Idle
    BY <1>1, <1>4 DEF Fail, Ends
  <2>2. Begun(c)'
    BY <2>1, Constants DEF Begun
  <2> QED
    BY <1>4, <2>1, <2>2, Constants, QuietRequest DEF Fail
<1> QED
  BY <1>2, <1>3, <1>4

LEMMA CommitTypes ==
  ASSUME TypeInv, NEW c \in Clients, Commit(c)
  PROVE  TypeInv'
<1>1. req[c] \in Request /\ Begun(c) /\ req \in [Clients -> Request] /\ AccountTypes
  BY TypeParts DEF TypeInv, RequestTypes
<1>2. PICK id \in Ids, account \in Account, hash \in 1..MaxHash :
        /\ id = req[c].id /\ account = req[c].account /\ hash = req[c].hash
        /\ account.email \in Emails /\ ~account.verified
  BY <1>1 DEF Commit, Begun, Request
<1>3. /\ users' = [users EXCEPT ![id] = account] /\ token' = [token EXCEPT ![id] = hash]
      /\ UNCHANGED <<outdated, nextUser, nextHash>>
  BY <1>2 DEF Commit, counters
<1>4. AccountTypes'
  BY <1>1, <1>2, <1>3 DEF AccountTypes
<1>5. account # Absent /\ VerifiedEmail(account) # NoEmail
  BY <1>2, Constants DEF VerifiedEmail
<1>6. Addressed'
  BY <1>1, <1>2, <1>3, <1>5, TypeParts DEF TypeInv, Addressed, Exists, AccountTypes, VerifiedEmail
<1>7. req' = [req EXCEPT ![c] = Idle] /\ Begun(c)'
  BY <1>1, Constants DEF Commit, Ends, Begun
<1>8. \A other \in Ids : Exists(other) => Exists(other)'
  BY <1>1, <1>3, <1>5 DEF Exists, AccountTypes
<1>9. Quiet
  BY DEF Commit
<1> QED
  BY <1>4, <1>6, <1>7, <1>8, <1>9, Constants, QuietTypes, OneRequest, TypeParts DEF TypeInv

LEMMA UpdateTypes ==
  ASSUME TypeInv, NEW c \in Clients, NEW id \in Ids, NEW email \in Emails,
         UpdateProfile(c, id, email)
  PROVE  TypeInv'
<1>1. req \in [Clients -> Request] /\ AccountTypes /\ Exists(id) /\ Addressed
  BY TypeParts DEF TypeInv, RequestTypes, UpdateProfile
<1>2. PICK pending \in {NoEmail, email} :
        /\ users' = [users EXCEPT ![id].pending = pending]
        /\ pending = NoEmail => users[id].email = email
  BY DEF UpdateProfile
<1>3. users'[id] = [users[id] EXCEPT !.pending = pending] /\ users[id] \in Account
  BY <1>1, <1>2 DEF AccountTypes
<1>4. /\ users'[id] \in Account /\ users'[id].email = users[id].email
      /\ users'[id].verified = users[id].verified /\ users'[id].pending = pending
  BY <1>3 DEF Account
<1>5. \A other \in Ids : other # id => users'[other] = users[other]
  BY <1>1, <1>2 DEF AccountTypes
<1>6. UNCHANGED <<token, counters>> /\ Quiet
      /\ outdated' \in {outdated, outdated \cup ({token[id]} \ {0})}
  BY DEF UpdateProfile
<1>7. AccountTypes'
  <2>1. users' \in [Ids -> Account]
    BY <1>1, <1>2, <1>4 DEF AccountTypes
  <2>2. outdated' \subseteq 1..MaxHash
    BY <1>1, <1>6 DEF AccountTypes
  <2> QED
    BY <1>1, <1>4, <1>5, <1>6, <2>1, <2>2 DEF AccountTypes, counters
<1>8. VerifiedEmail(users'[id]) # NoEmail
  BY <1>2, <1>4 DEF VerifiedEmail
<1>9. users'[id] # Absent
  BY <1>8, Constants DEF VerifiedEmail
<1>10. Addressed' /\ \A other \in Ids : Exists(other) => Exists(other)'
  BY <1>1, <1>5, <1>6, <1>8, <1>9 DEF Addressed, Exists, VerifiedEmail
<1>11. PICK r \in Request : req' = [req EXCEPT ![c] = r] /\ r.at = "read" /\ r.id = id
  <2> DEFINE r == Doing("read", id, Absent, 0)
  <2>1. r \in Request /\ r.at = "read" /\ r.id = id
    BY Constants DEF Doing, Request, Places
  <2> QED
    BY <2>1 DEF UpdateProfile, Begins
<1>12. Begun(c)'
  BY <1>1, <1>9, <1>11 DEF Begun, Exists
<1> QED
  BY <1>6, <1>7, <1>10, <1>11, <1>12, QuietTypes, OneRequest, TypeParts DEF TypeInv

LEMMA ReplaceTypes ==
  ASSUME TypeInv, NEW c \in Clients, ReplaceToken(c)
  PROVE  TypeInv'
<1>1. req[c] \in Request /\ req \in [Clients -> Request] /\ AccountTypes /\ Addressed
  BY TypeParts DEF TypeInv, RequestTypes
<1>2. PICK id \in Ids : id = req[c].id /\ Exists(id)
  BY DEF ReplaceToken, TypeInv, Begun
<1>3. PICK hash \in 1..MaxHash : hash = nextHash
  BY <1>1 DEF ReplaceToken, AccountTypes
<1>4. /\ token' = [token EXCEPT ![id] = hash] /\ nextHash' = hash + 1
      /\ UNCHANGED <<users, nextUser>> /\ Quiet /\ outdated' \in {outdated, outdated \cup {hash}}
  BY <1>2, <1>3 DEF ReplaceToken
<1>5. AccountTypes'
  BY <1>1, <1>3, <1>4 DEF AccountTypes
<1>6. Addressed'
  BY <1>1, <1>2, <1>4 DEF Addressed, Exists, VerifiedEmail, AccountTypes
<1>7. PICK r \in Request : /\ req' = [req EXCEPT ![c] = r]
                           /\ r.at = "notify" /\ r.id = id /\ r.hash > 0
  <2> DEFINE r == Doing("notify", id, req[c].account, hash)
  <2>1. r \in Request /\ r.at = "notify" /\ r.id = id /\ r.hash > 0
    BY <1>1, <1>2, <1>3, Constants DEF Doing, Request, Places
  <2> QED
    BY <1>2, <1>3, <2>1 DEF ReplaceToken
<1>8. Begun(c)'
  BY <1>1, <1>2, <1>4, <1>7 DEF Begun, Exists
<1>9. \A other \in Ids : Exists(other) => Exists(other)'
  BY <1>4 DEF Exists
<1> QED
  BY <1>4, <1>5, <1>6, <1>7, <1>8, <1>9, QuietTypes, OneRequest, TypeParts DEF TypeInv

LEMMA VerifyTypes ==
  ASSUME TypeInv, NEW c \in Clients, NEW j \in Jobs, VerifyEmail(c, j)
  PROVE  TypeInv'
<1>1. req \in [Clients -> Request] /\ AccountTypes /\ Addressed
  BY TypeParts DEF TypeInv, RequestTypes
<1>2. PICK id \in Ids : id = message[j].user /\ token[id] > 0
  BY DEF VerifyEmail, TypeInv, Linked
<1>3. Exists(id) /\ VerifiedEmail(users[id]) # NoEmail
  BY <1>1, <1>2 DEF Addressed
<1> DEFINE verified == [verified |-> TRUE, email |-> VerifiedEmail(users[id]), pending |-> NoEmail]
<1>4. PICK account \in Account : account = verified
  BY <1>1 DEF AccountTypes, Account, VerifiedEmail
<1>5. account.verified /\ account.email # NoEmail /\ account.pending = NoEmail /\ account # Absent
  BY <1>3, <1>4, Constants
<1>6. /\ users' = [users EXCEPT ![id] = account] /\ token' = [token EXCEPT ![id] = 0]
      /\ UNCHANGED <<outdated, nextUser, nextHash>> /\ Quiet
  BY <1>2, <1>4 DEF VerifyEmail, counters
<1>7. AccountTypes'
  BY <1>1, <1>2, <1>5, <1>6 DEF AccountTypes
<1>8. Addressed' /\ \A other \in Ids : Exists(other) => Exists(other)'
  BY <1>1, <1>5, <1>6 DEF Addressed, Exists, VerifiedEmail, AccountTypes
<1>9. PICK r \in Request : req' = [req EXCEPT ![c] = r] /\ (r = Idle \/ (r.at = "welcome" /\ r.id = id))
  <2> DEFINE r == Doing("welcome", id, account, 0)
  <2>1. r \in Request /\ r.at = "welcome" /\ r.id = id
    BY Constants DEF Doing, Request, Places
  <2> QED
    BY <1>2, <1>4, <2>1, Constants DEF VerifyEmail, Begins
<1>10. Begun(c)'
  BY <1>1, <1>5, <1>6, <1>9, Constants DEF Begun, Exists, AccountTypes
<1> QED
  BY <1>6, <1>7, <1>8, <1>9, <1>10, QuietTypes, OneRequest, TypeParts DEF TypeInv

LEMMA NotifyTypes ==
  ASSUME TypeInv, NEW c \in Clients, NotifyVerification(c) \/ NotifyWelcome(c)
  PROVE  TypeInv'
<1>1. req[c] \in Request /\ req \in [Clients -> Request] /\ Begun(c)
  BY TypeParts DEF TypeInv, RequestTypes
<1>2. /\ req' = [req EXCEPT ![c] = Idle] /\ UNCHANGED <<accounts, counters, cmd, handler, inbox>>
  BY DEF NotifyVerification, NotifyWelcome, Ends
<1>3. PICK m \in Message : Queue(m) /\ (m.kind = "verification" => m.user \in Ids /\ m.hash > 0)
  <2>1. CASE NotifyVerification(c)
    <3> DEFINE m == Verification(req[c].id, req[c].account, req[c].hash)
    <3>1. m \in Message
      BY <1>1, Constants DEF Request, Message, Verification, Recipient, Account
    <3>2. m.user \in Ids /\ m.hash > 0
      BY <1>1, <2>1 DEF NotifyVerification, Begun, Verification
    <3> QED
      BY <2>1, <3>1, <3>2 DEF NotifyVerification
  <2>2. CASE NotifyWelcome(c)
    <3> DEFINE m == [kind |-> "welcome", user |-> req[c].id, hash |-> 0, to |-> req[c].account.email]
    <3>1. m \in Message /\ m.kind = "welcome"
      BY <1>1 DEF Request, Message, Account
    <3> QED
      BY <2>2, <3>1 DEF NotifyWelcome
  <2> QED
    BY <2>1, <2>2
<1>4. LifecycleTypeOK' /\ CommandTypeOK' /\ MessageTypes' /\ Linked'
  BY <1>2, <1>3, QueueTypes
<1>5. WorkTypes'
  BY <1>2, TypeParts DEF TypeInv, WorkTypes
<1>6. Begun(c)'
  BY <1>1, <1>2, Constants DEF Begun
<1>7. \A id \in Ids : Exists(id) => Exists(id)'
  BY <1>2 DEF accounts, Exists
<1> QED
  BY <1>2, <1>4, <1>5, <1>6, <1>7, SameAccounts, OneRequest, Constants, TypeParts DEF TypeInv

LEMMA OtherTypes ==
  ASSUME TypeInv, NEW name \in Queues, DispatchOther(name)
  PROVE  TypeInv'
<1>1. PICK j \in Jobs : Enqueue(j, name) /\ message' = [message EXCEPT ![j].kind = "other"]
  BY DEF DispatchOther
<1>2. UNCHANGED <<accounts, counters, req, cmd, handler, inbox>>
  BY DEF DispatchOther
<1>3. LifecycleTypeOK' /\ CommandTypeOK'
  BY <1>1, <1>2, EnqueueTypes, TypeParts DEF TypeInv
<1>4. message'[j] = [message[j] EXCEPT !.kind = "other"] /\ message[j] \in Message
      /\ message' \in [Jobs -> Message] /\ \A i \in Jobs : i # j => message'[i] = message[i]
  BY <1>1, TypeParts DEF TypeInv, MessageTypes, Message
<1>5. message'[j].kind = "other"
  BY <1>4 DEF Message
<1>6. MessageTypes' /\ Linked'
  BY <1>4, <1>5, TypeParts DEF TypeInv, MessageTypes, Linked
<1>7. WorkTypes' /\ RequestTypes' /\ \A c \in Clients : Begun(c)'
  BY <1>2, TypeParts DEF TypeInv, WorkTypes, RequestTypes, Begun, accounts, Exists
<1> QED
  BY <1>2, <1>3, <1>6, <1>7, SameAccounts, TypeParts DEF TypeInv

-----------------------------------------------------------------------------
(* The worker and the operator.                                            *)

LEMMA SameRequests ==
  ASSUME TypeInv, UNCHANGED requests
  PROVE  /\ AccountTypes' /\ RequestTypes' /\ MessageTypes'
         /\ (\A c \in Clients : Begun(c)') /\ Addressed' /\ Linked'
<1>1. UNCHANGED <<accounts, counters, req, message>>
  BY DEF requests
<1>2. RequestTypes' /\ MessageTypes' /\ Linked'
  BY <1>1, TypeParts DEF TypeInv, RequestTypes, MessageTypes, Linked
<1>3. \A c \in Clients : Begun(c)'
  BY <1>1 DEF TypeInv, Begun, accounts, Exists
<1> QED
  BY <1>1, <1>2, <1>3, SameAccounts

WorkerStep ==
  \/ \E w \in Workers : Report(w) \/ Crash(w) \/ \E j \in Jobs : Run(w, j)
  \/ \E j \in Jobs : LoseLease(j)

LEMMA WorkerTypes ==
  ASSUME TypeInv, WorkerStep
  PROVE  TypeInv'
<1>1. LifecycleTypeOK /\ CommandTypeOK /\ WorkTypes
  BY TypeParts DEF TypeInv
<1>2. UNCHANGED <<requests, commandVars>>
  BY DEF WorkerStep, Report, Crash, Run, LoseLease
<1>3. CommandTypeOK'
  BY <1>1, <1>2 DEF CommandTypeOK, commandVars
<1>4. ASSUME NEW w \in Workers, NEW j \in Jobs, Run(w, j) PROVE LifecycleTypeOK' /\ WorkTypes'
  <2>1. LifecycleTypeOK'
    BY <1>1, <1>4, LifecycleTypes DEF Run
  <2>2. PICK result \in {"ok", "error"} :
          handler' = [handler EXCEPT ![w] = [job |-> j, result |-> result]]
    BY <1>4 DEF Run
  <2>3. inbox' \subseteq Jobs
    BY <1>1, <1>4 DEF Run, Send, WorkTypes
  <2> QED
    BY <1>1, <2>1, <2>2, <2>3, Constants DEF WorkTypes
<1>5. ASSUME NEW w \in Workers, Report(w) PROVE LifecycleTypeOK' /\ WorkTypes'
  <2>1. WorkTypes'
    BY <1>1, <1>5, Constants DEF Report, WorkTypes
  <2>2. LifecycleTypeOK'
    BY <1>1, <1>5 DEF Report, LifecycleTypeOK, States, Settle, lifecycleVars
  <2> QED
    BY <2>1, <2>2
<1>6. ASSUME NEW w \in Workers, Crash(w) PROVE LifecycleTypeOK' /\ WorkTypes'
  <2>1. WorkTypes'
    BY <1>1, <1>6, Constants DEF Crash, WorkTypes
  <2>2. {j \in Jobs : owner[j] = w} \in SUBSET Jobs
    OBVIOUS
  <2> QED
    BY <1>1, <1>6, <2>1, <2>2, LifecycleTypes DEF Crash
<1>7. ASSUME NEW j \in Jobs, LoseLease(j) PROVE LifecycleTypeOK' /\ WorkTypes'
  BY <1>1, <1>7, LifecycleTypes DEF LoseLease, WorkTypes
<1> QED
  BY <1>2, <1>3, <1>4, <1>5, <1>6, <1>7, SameRequests, TypeParts DEF WorkerStep, TypeInv

LEMMA OperatorTypes ==
  ASSUME TypeInv, Operator
  PROVE  TypeInv'
<1>1. LifecycleTypeOK' /\ CommandTypeOK'
  BY CommandTypes, TypeParts DEF Operator, TypeInv
<1>2. WorkTypes'
  BY TypeParts DEF Operator, TypeInv, WorkTypes
<1> QED
  BY <1>1, <1>2, SameRequests, TypeParts DEF Operator, TypeInv

LEMMA StepTypes == TypeInv /\ [Next]_vars => TypeInv'
<1>1. ASSUME TypeInv, Next PROVE TypeInv'
  BY <1>1, RegisterTypes, ReadingTypes, CommitTypes, UpdateTypes, ReplaceTypes, VerifyTypes,
    NotifyTypes, OtherTypes, WorkerTypes, OperatorTypes DEF Next, WorkerStep
<1>2. ASSUME TypeInv, UNCHANGED vars PROVE TypeInv'
  <2>1. UNCHANGED requests /\ UNCHANGED <<state, owner, queue, cmd, handler, inbox>>
    BY <1>2 DEF vars, requests, lifecycleVars, commandVars
  <2> QED
    BY <1>2, <2>1, SameRequests, TypeParts DEF TypeInv, LifecycleTypeOK, CommandTypeOK, WorkTypes
<1> QED
  BY <1>1, <1>2

\* Every variable of the delivery model keeps its type, a verified user has an
\* address and a verification message goes to one.
THEOREM DeliveryTypeCorrect == Spec => []TypeOK
<1>1. TypeInv => TypeOK
  BY DEF TypeInv
<1> QED
  BY <1>1, InitTypes, StepTypes, PTL DEF Spec

-----------------------------------------------------------------------------
(* Messages stay what they are: only a job that was never accepted gets    *)
(* one, and no job goes back to never having been accepted.                *)

Fresh == \A j \in Jobs : state[j] = "none" => message[j].kind = "none"

JobsStay ==
  /\ \A j \in Jobs : state[j] # "none" =>
       state'[j] # "none" /\ message'[j] = message[j] /\ queue'[j] = queue[j]
  /\ \A j \in Jobs : state'[j] = "none" => state[j] = "none" /\ message'[j] = message[j]

LEMMA EnqueueStays ==
  ASSUME TypeInv, NEW j \in Jobs, NEW name, NEW m, Enqueue(j, name),
         message' = [message EXCEPT ![j] = m]
  PROVE  JobsStay
BY TypeParts DEF TypeInv, LifecycleTypeOK, CommandTypeOK, MessageTypes, Enqueue, Accept, JobsStay

LEMMA QueueStays ==
  ASSUME TypeInv, NEW m, Queue(m)
  PROVE  JobsStay
BY EnqueueStays DEF Queue, DispatchMessage

LEMMA QuietStays ==
  ASSUME UNCHANGED <<state, queue, message>>
  PROVE  JobsStay
BY DEF JobsStay

LEMMA WorkStays ==
  ASSUME TypeInv, UNCHANGED <<queue, message>>,
         \/ \E j \in Jobs, w \in Workers \cup {Nobody} : Take(j, w)
         \/ \E lost \in SUBSET Jobs : Abandon(lost)
         \/ \E j \in Jobs, w \in Workers, r \in {"done", "waiting", "failed"} : Settle(j, w, r)
         \/ \E chosen \in SUBSET Jobs, r \in {"waiting", "dropped"} : Decide(chosen, r)
  PROVE  JobsStay
BY TypeParts DEF TypeInv, LifecycleTypeOK, Take, Abandon, Settle, Decide, JobsStay

LEMMA StepStays ==
  ASSUME TypeInv, Next
  PROVE  JobsStay
<1>1. ASSUME NEW c \in Clients, NEW email \in Emails, Register(c, email) PROVE JobsStay
  <2> DEFINE m == Verification(nextUser,
                    [verified |-> FALSE, email |-> email, pending |-> NoEmail], nextHash)
  <2>1. Queue(m) \/ NotQueued
    BY <1>1 DEF Register
  <2> QED
    BY <2>1, QueueStays, QuietStays DEF NotQueued, lifecycleVars
<1>2. ASSUME NEW c \in Clients, NotifyVerification(c) \/ NotifyWelcome(c) PROVE JobsStay
  BY <1>2, QueueStays DEF NotifyVerification, NotifyWelcome
<1>3. ASSUME NEW name \in Queues, DispatchOther(name) PROVE JobsStay
  <2>1. PICK j \in Jobs : Enqueue(j, name) /\ message' = [message EXCEPT ![j].kind = "other"]
    BY <1>3 DEF DispatchOther
  <2>2. PICK m : message' = [message EXCEPT ![j] = m]
    BY <2>1
  <2> QED
    BY <2>1, <2>2, EnqueueStays
<1>4. ASSUME Quiet PROVE JobsStay
  BY <1>4, QuietStays DEF Quiet, NotQueued, lifecycleVars
<1>5. CASE WorkerStep
  <2>1. UNCHANGED <<queue, message>>
    BY <1>5 DEF WorkerStep, Run, Report, Crash, LoseLease, requests, commandVars
  <2>2. ASSUME NEW w \in Workers, Crash(w) PROVE \E lost \in SUBSET Jobs : Abandon(lost)
    BY <2>2 DEF Crash
  <2>3. ASSUME NEW w \in Workers, NEW j \in Jobs, Run(w, j) PROVE JobsStay
    BY <2>1, <2>3, WorkStays DEF Run
  <2>4. ASSUME NEW j \in Jobs, LoseLease(j) PROVE JobsStay
    BY <2>1, <2>4, WorkStays DEF LoseLease
  <2>5. ASSUME NEW w \in Workers, Report(w) PROVE JobsStay
    BY <2>1, <2>5, TypeParts DEF TypeInv, LifecycleTypeOK, Report, Settle, JobsStay, lifecycleVars
  <2> QED
    BY <1>5, <2>1, <2>2, <2>3, <2>4, <2>5, WorkStays DEF WorkerStep
<1>6. CASE Operator
  <2>1. UNCHANGED <<queue, message>> /\ CommandNext
    BY <1>6 DEF Operator, CommandNext, Start, StartOn, ReadRows, ReadStats, OperateOn, Operate,
      FirstRead, SecondRead, PrintLine, End, requests
  <2>2. \/ UNCHANGED state
        \/ \E chosen \in SUBSET Jobs, r \in {"waiting", "dropped"} : Decide(chosen, r)
    <3>1. ASSUME NEW op \in Ops, NEW j \in Jobs, OperateOn(op, j)
          PROVE  \E chosen \in SUBSET Jobs, r \in {"waiting", "dropped"} : Decide(chosen, r)
      BY <3>1 DEF OperateOn
    <3>2. ASSUME NEW name \in Queues, Operate(name)
          PROVE  \E chosen \in SUBSET Jobs, r \in {"waiting", "dropped"} : Decide(chosen, r)
      BY <3>2 DEF Operate, In
    <3> QED
      BY <2>1, <3>1, <3>2 DEF CommandNext, Start, StartOn, ReadRows, ReadStats,
        FirstRead, SecondRead, PrintLine, End, lifecycleVars
  <2> QED
    BY <2>1, <2>2, QuietStays, WorkStays
<1> QED
  BY <1>1, <1>2, <1>3, <1>4, <1>5, <1>6 DEF Next, WorkerStep, Commit, UpdateProfile, Resend,
    ReadAccount, ReplaceToken, VerifyEmail, Fail

-----------------------------------------------------------------------------
(* Registration.  The message is accepted before the transaction commits,  *)
(* so what has to be kept is that a request about to commit has its        *)
(* message, and that no message is taken back.                             *)

Announced == \A c \in Clients : req[c].at = "commit" => Sent("verification", req[c].id) # {}

RegistrationInv == TypeInv /\ Fresh /\ RegisteredIsNotified /\ Announced

LEMMA SentStays ==
  ASSUME Fresh, JobsStay, NEW kind \in {"verification", "welcome"}, NEW id
  PROVE  Sent(kind, id) \subseteq Sent(kind, id)'
BY DEF Fresh, JobsStay, Sent

LEMMA FreshStays ==
  ASSUME Fresh, JobsStay
  PROVE  Fresh'
BY DEF Fresh, JobsStay

\* How a row comes into being, or is written without a look whether it is there.
LEMMA NewAccount ==
  ASSUME TypeInv, Next, NEW id \in Ids, Exists(id)'
  PROVE  \/ Exists(id)
         \/ \E c \in Clients : req[c].at = "commit" /\ req[c].id = id
         \/ Sent("verification", id) # {}
<1>1. users \in [Ids -> Account]
  BY TypeParts DEF TypeInv, AccountTypes
<1>2. ASSUME NEW c \in Clients, Commit(c)
      PROVE  Exists(id) \/ (req[c].at = "commit" /\ req[c].id = id)
  BY <1>1, <1>2 DEF Commit, Exists
<1>3. ASSUME NEW c \in Clients, NEW other \in Ids, NEW email \in Emails,
             UpdateProfile(c, other, email)
      PROVE  Exists(id)
  BY <1>1, <1>3 DEF UpdateProfile, Exists
<1>4. ASSUME NEW c \in Clients, NEW j \in Jobs, VerifyEmail(c, j)
      PROVE  Exists(id) \/ Sent("verification", id) # {}
  BY <1>1, <1>4 DEF VerifyEmail, Exists, Sent
<1>5. ASSUME UNCHANGED users PROVE Exists(id)
  BY <1>5 DEF Exists
<1> QED
  BY <1>2, <1>3, <1>4, <1>5 DEF Next, Register, Resend, ReadAccount, ReplaceToken,
    NotifyVerification, NotifyWelcome, Fail, DispatchOther, Report, Crash, Run, LoseLease,
    Operator, requests, accounts

\* A request is about to commit only after its message was queued.
RowOf(email) == [verified |-> FALSE, email |-> email, pending |-> NoEmail]

Registered(c, email) ==
  LET m == Verification(nextUser, RowOf(email), nextHash)
  IN /\ Register(c, email) /\ req' = [req EXCEPT ![c] = Doing("commit", nextUser, RowOf(email), nextHash)]
     /\ \E j \in Jobs : Enqueue(j, "mail") /\ message' = [message EXCEPT ![j] = m]

LEMMA NewCommit ==
  ASSUME TypeInv, Next, NEW c \in Clients, req'[c].at = "commit"
  PROVE  req'[c] = req[c] \/ \E email \in Emails : Registered(c, email)
<1>1. req \in [Clients -> Request]
  BY TypeParts DEF TypeInv, RequestTypes
<1>2. ASSUME NEW d \in Clients, NEW email \in Emails, Register(d, email), req'[c] # req[c]
      PROVE  Registered(c, email)
  <2>1. d = c
    BY <1>1, <1>2 DEF Register, Begins
  <2> DEFINE m == Verification(nextUser, RowOf(email), nextHash)
  <2>2. PICK queued \in BOOLEAN :
          /\ IF queued THEN Queue(m) ELSE NotQueued
          /\ Begins(c, IF Notified(queued)
                       THEN Doing("commit", nextUser, RowOf(email), nextHash) ELSE Idle)
    BY <1>2, <2>1 DEF Register, RowOf
  <2>3. queued
    BY <1>1, <2>2, Constants DEF Begins, Notified
  <2> QED
    BY <1>2, <2>1, <2>2, <2>3 DEF Begins, Notified, Queue, DispatchMessage, Registered
<1>3. ASSUME NEW d \in Clients, NEW r, req' = [req EXCEPT ![d] = r], r.at # "commit"
      PROVE  req'[c] = req[c]
  BY <1>1, <1>3
<1>4. ASSUME NEW d \in Clients, NEW id \in Ids, Resend(d, id)
      PROVE  req'[c] = req[c]
  <2> DEFINE r == Doing("read", id, Absent, 0)
  <2>1. r.at # "commit" /\ req' = [req EXCEPT ![d] = r]
    BY <1>4 DEF Resend, Begins, Doing
  <2> QED
    BY <1>3, <2>1
<1>5. ASSUME NEW d \in Clients, NEW id \in Ids, NEW email \in Emails, UpdateProfile(d, id, email)
      PROVE  req'[c] = req[c]
  <2> DEFINE r == Doing("read", id, Absent, 0)
  <2>1. r.at # "commit" /\ req' = [req EXCEPT ![d] = r]
    BY <1>5 DEF UpdateProfile, Begins, Doing
  <2> QED
    BY <1>3, <2>1
<1>6. ASSUME NEW d \in Clients,
             Commit(d) \/ NotifyVerification(d) \/ NotifyWelcome(d) \/ Fail(d)
      PROVE  req'[c] = req[c]
  <2>1. req' = [req EXCEPT ![d] = Idle] /\ Idle.at # "commit"
    BY <1>6, Constants DEF Commit, NotifyVerification, NotifyWelcome, Fail, Ends
  <2> QED
    BY <1>3, <2>1
<1>7. ASSUME NEW d \in Clients, ReadAccount(d) PROVE req'[c] = req[c]
  BY <1>1, <1>7, Constants DEF ReadAccount, Doing
<1>8. ASSUME NEW d \in Clients, ReplaceToken(d) PROVE req'[c] = req[c]
  BY <1>1, <1>8 DEF ReplaceToken, Doing
<1>9. ASSUME NEW d \in Clients, NEW j \in Jobs, VerifyEmail(d, j) PROVE req'[c] = req[c]
  <2>1. PICK id, account : Begins(d, Doing("welcome", id, account, 0)) \/ Begins(d, Idle)
    BY <1>9 DEF VerifyEmail
  <2>2. Doing("welcome", id, account, 0).at # "commit" /\ Idle.at # "commit"
    BY Constants DEF Doing
  <2> QED
    BY <1>3, <2>1, <2>2 DEF Begins
<1> QED
  BY <1>2, <1>4, <1>5, <1>6, <1>7, <1>8, <1>9 DEF Next, DispatchOther, Report, Crash, Run,
    LoseLease, Operator, requests

LEMMA StepRegistration == RegistrationInv /\ [Next]_vars => RegistrationInv'
<1>1. ASSUME RegistrationInv, Next PROVE RegistrationInv'
  <2>1. TypeInv' /\ JobsStay /\ Fresh'
    BY <1>1, StepTypes, StepStays, FreshStays DEF RegistrationInv
  <2>2. \A id : Sent("verification", id) \subseteq Sent("verification", id)'
    BY <1>1, <2>1, SentStays DEF RegistrationInv
  <2>3. ASSUME NEW id \in Ids, Exists(id)' PROVE Sent("verification", id)' # {}
    BY <1>1, <2>2, <2>3, NewAccount DEF RegistrationInv, RegisteredIsNotified, Announced
  <2>4. ASSUME NEW c \in Clients, req'[c].at = "commit"
        PROVE  (Sent("verification", req[c].id) # {})'
    <3>1. CASE req'[c] = req[c]
      BY <1>1, <2>2, <2>4, <3>1 DEF RegistrationInv, Announced
    <3>2. ASSUME NEW email \in Emails, Registered(c, email)
          PROVE  (Sent("verification", req[c].id) # {})'
      <4> DEFINE m == Verification(nextUser, RowOf(email), nextHash)
      <4>1. req'[c].id = nextUser
        BY <1>1, <3>2, TypeParts DEF RegistrationInv, TypeInv, RequestTypes, Registered, Doing
      <4>2. PICK j \in Jobs : message' = [message EXCEPT ![j] = m]
        BY <3>2 DEF Registered
      <4>3. message'[j] = m /\ m.kind = "verification" /\ m.user = nextUser
        BY <1>1, <4>2, TypeParts DEF RegistrationInv, TypeInv, MessageTypes, Verification
      <4> QED
        BY <4>1, <4>3 DEF Sent
    <3> QED
      BY <1>1, <2>4, <3>1, <3>2, NewCommit DEF RegistrationInv
  <2> QED
    BY <2>1, <2>3, <2>4 DEF RegistrationInv, RegisteredIsNotified, Announced
<1>2. ASSUME RegistrationInv, UNCHANGED vars PROVE RegistrationInv'
  <2>1. TypeInv'
    BY <1>2, StepTypes DEF RegistrationInv
  <2> QED
    BY <1>2, <2>1 DEF RegistrationInv, Fresh, RegisteredIsNotified, Announced, Exists, Sent, vars,
      lifecycleVars, accounts
<1> QED
  BY <1>1, <1>2

\* With any number of clients, workers and jobs: no user is committed for whom the
\* queue has not taken a verification message.
THEOREM NobodyRegisteredInSilence == Spec => []RegisteredIsNotified
<1>1. Init => RegistrationInv
  <2>1. Init => TypeInv
    BY InitTypes
  <2> QED
    BY <2>1, Constants DEF Init, RegistrationInv, Fresh, RegisteredIsNotified, Announced, Exists,
      NoMessage
<1>2. RegistrationInv => RegisteredIsNotified
  BY DEF RegistrationInv
<1> QED
  BY <1>1, <1>2, StepRegistration, PTL DEF Spec

-----------------------------------------------------------------------------
(* Delivery.  A result that waits to be reported speaks of an accepted     *)
(* job, and a good one of a message that has arrived, whoever owns the job *)
(* by then.                                                                *)

Reported ==
  \A w \in Workers : handler[w] # NoTask =>
    LET j == handler[w].job
    IN /\ j \in Jobs /\ state[j] # "none"
       /\ handler[w].result = "ok" /\ queue[j] = "mail" => j \in inbox

DeliveryInv == TypeInv /\ Reported /\ DoneMeansDelivered

LEMMA InboxGrows ==
  ASSUME Next
  PROVE  inbox \subseteq inbox'
BY DEF Next, Register, Commit, UpdateProfile, Resend, ReadAccount, ReplaceToken,
  NotifyVerification, VerifyEmail, NotifyWelcome, Fail, Quiet, DispatchOther, LoseLease, Run, Send,
  Report, Crash, Operator

\* Only the report of a good result makes a job done.
LEMMA NewlyDone ==
  ASSUME TypeInv, Next, NEW j \in Jobs, state'[j] = "done", state[j] # "done"
  PROVE  \E w \in Workers : /\ handler[w] # NoTask /\ handler[w].job = j
                            /\ handler[w].result = "ok" /\ state[j] = "active"
<1> USE DEF Accept, Take, Abandon, Settle, Decide
<1>1. state \in [Jobs -> States]
  BY TypeParts DEF TypeInv, LifecycleTypeOK
<1>2. ASSUME NEW i \in Jobs, NEW name, Enqueue(i, name) PROVE FALSE
  BY <1>1, <1>2 DEF Enqueue
<1>3. ASSUME NEW m, Queue(m) PROVE FALSE
  BY <1>2, <1>3 DEF Queue, DispatchMessage
<1>4. ASSUME UNCHANGED lifecycleVars PROVE FALSE
  BY <1>4 DEF lifecycleVars
<1>5. ASSUME Quiet \/ NotQueued PROVE FALSE
  BY <1>4, <1>5 DEF Quiet, NotQueued
<1>6. ASSUME Operator PROVE FALSE
  <2>1. ASSUME NEW op \in Ops, NEW i \in Jobs, OperateOn(op, i) PROVE FALSE
    BY <2>1 DEF OperateOn
  <2>2. ASSUME NEW name \in Queues, Operate(name) PROVE FALSE
    BY <2>2 DEF Operate
  <2> QED
    BY <1>4, <1>6, <2>1, <2>2 DEF Operator, CommandNext, Start, StartOn, ReadRows, ReadStats,
      FirstRead, SecondRead, PrintLine, End
<1>7. ASSUME NEW w \in Workers, NEW i \in Jobs, Run(w, i) PROVE FALSE
  BY <1>1, <1>7 DEF Run
<1>8. ASSUME NEW i \in Jobs, LoseLease(i) PROVE FALSE
  BY <1>1, <1>8 DEF LoseLease
<1>9. ASSUME NEW w \in Workers, Crash(w) PROVE FALSE
  BY <1>9 DEF Crash
<1>10. ASSUME NEW w \in Workers, Report(w)
       PROVE  /\ handler[w] # NoTask /\ handler[w].job = j
              /\ handler[w].result = "ok" /\ state[j] = "active"
  BY <1>1, <1>4, <1>10 DEF Report
<1>11. ASSUME NEW c \in Clients, NEW email \in Emails, Register(c, email) PROVE FALSE
  BY <1>3, <1>5, <1>11 DEF Register
<1> QED
  BY <1>2, <1>3, <1>5, <1>6, <1>7, <1>8, <1>9, <1>10, <1>11 DEF Next, Commit, UpdateProfile,
    Resend, ReadAccount, ReplaceToken, NotifyVerification, VerifyEmail, NotifyWelcome, Fail,
    DispatchOther

LEMMA StepDelivery == DeliveryInv /\ [Next]_vars => DeliveryInv'
<1>1. ASSUME DeliveryInv, Next PROVE DeliveryInv'
  <2>1. TypeInv' /\ JobsStay /\ inbox \subseteq inbox'
    BY <1>1, StepTypes, StepStays, InboxGrows DEF DeliveryInv
  <2>2. TypeInv /\ WorkTypes /\ Reported /\ DoneMeansDelivered
    BY <1>1, TypeParts DEF DeliveryInv, TypeInv
  <2>3. ASSUME NEW j \in Jobs, state'[j] = "done", queue'[j] = "mail" PROVE j \in inbox'
    <3>1. state[j] # "none" /\ queue[j] = "mail"
      <4>1. state[j] = "done" \/ state[j] = "active"
        BY <1>1, <2>2, <2>3, NewlyDone
      <4> QED
        BY <2>1, <2>3, <4>1 DEF JobsStay
    <3> QED
      BY <1>1, <2>1, <2>2, <2>3, <3>1, NewlyDone DEF Reported, DoneMeansDelivered
  <2>4. ASSUME NEW w \in Workers, handler'[w] # NoTask, handler'[w] = handler[w]
        PROVE  LET j == handler'[w].job
               IN /\ j \in Jobs /\ state'[j] # "none"
                  /\ handler'[w].result = "ok" /\ queue'[j] = "mail" => j \in inbox'
    BY <2>1, <2>2, <2>4 DEF Reported, JobsStay
  <2>5. ASSUME NEW w \in Workers, handler'[w] # NoTask, handler'[w] # handler[w]
        PROVE  \E j \in Jobs : Run(w, j) /\ handler'[w].job = j
    <3>1. ASSUME NEW v \in Workers, NEW j \in Jobs, Run(v, j)
          PROVE  v = w /\ handler'[w].job = j
      BY <2>2, <2>5, <3>1 DEF Run, WorkTypes
    <3>2. ASSUME NEW v \in Workers, Report(v) \/ Crash(v) PROVE FALSE
      BY <2>2, <2>5, <3>2 DEF Report, Crash, WorkTypes
    <3> QED
      BY <1>1, <2>5, <3>1, <3>2 DEF Next, Register, Commit, UpdateProfile, Resend, ReadAccount,
        ReplaceToken, NotifyVerification, VerifyEmail, NotifyWelcome, Fail, Quiet, DispatchOther,
        LoseLease, Operator
  <2>6. ASSUME NEW w \in Workers, NEW j \in Jobs, Run(w, j), handler'[w].job = j
        PROVE  /\ state'[j] # "none"
               /\ handler'[w].result = "ok" /\ queue'[j] = "mail" => j \in inbox'
    <3>1. state'[j] = "active" /\ queue' = queue
      BY <2>2, <2>6, TypeParts DEF Run, Take, TypeInv, LifecycleTypeOK, commandVars
    <3>2. PICK result \in {"ok", "error"} :
            /\ handler' = [handler EXCEPT ![w] = [job |-> j, result |-> result]]
            /\ queue[j] = "mail" => Send(j, result)
      BY <2>6 DEF Run
    <3>3. handler'[w].result = result
      BY <2>2, <3>2 DEF WorkTypes
    <3> QED
      BY <3>1, <3>2, <3>3 DEF Send
  <2>7. Reported'
    BY <2>4, <2>5, <2>6 DEF Reported
  <2> QED
    BY <2>1, <2>3, <2>7 DEF DeliveryInv, DoneMeansDelivered
<1>2. ASSUME DeliveryInv, UNCHANGED vars PROVE DeliveryInv'
  <2>1. TypeInv'
    BY <1>2, StepTypes DEF DeliveryInv
  <2> QED
    BY <1>2, <2>1 DEF DeliveryInv, Reported, DoneMeansDelivered, vars, lifecycleVars, commandVars
<1> QED
  BY <1>1, <1>2

\* With any number of workers: a mail job counts as done only if its message has
\* reached its address, however often leases were lost and workers died.
THEOREM DoneIsDelivered == Spec => []DoneMeansDelivered
<1>1. Init => DeliveryInv
  <2>1. Init => TypeInv
    BY InitTypes
  <2> QED
    BY <2>1 DEF Init, DeliveryInv, Reported, DoneMeansDelivered, LifecycleInit
<1>2. DeliveryInv => DoneMeansDelivered
  BY DEF DeliveryInv
<1> QED
  BY <1>1, <1>2, StepDelivery, PTL DEF Spec
-----------------------------------------------------------------------------
(* The operator's queue command.                                           *)

(* Neither property is inductive: that no job is left over at the end      *)
(* needs the queues the command has still to visit, and that no job is     *)
(* missing from a line needs what the second statement will find.          *)

\* What `all` has to do is failed, and in a queue that is still to come.
LeftToDo ==
  cmd.op \in {"retry", "delete"} =>
    /\ cmd.at \in {"rows", "stats", "queues"}
    /\ cmd.due \subseteq In(Queues, {"failed"})
    /\ cmd.at # "rows" => \A j \in cmd.due : queue[j] \in cmd.names

\* What the first statement of Stats did not count, the second will.
LeftToCount ==
  /\ cmd.at = "second" =>
       cmd.op = "status" /\ cmd.due \ cmd.seen \subseteq In({cmd.queue}, {"done"})
  /\ cmd.at = "line" => cmd.op = "status" /\ cmd.due \subseteq cmd.seen
  /\ cmd.op = "none" <=> cmd.at = "idle"
  /\ cmd.op = "none" => cmd.due = {}

CommandInv == TypeInv /\ LeftToDo /\ LeftToCount

\* Failed jobs wait for the operator, and done ones are done.
LEMMA FinalStates ==
  ASSUME TypeInv, Next, ~Operator, NEW j \in Jobs, state[j] \in {"failed", "done"}
  PROVE  state'[j] = state[j]
<1> USE DEF Accept, Take, Abandon, Settle
<1>1. state \in [Jobs -> States]
  BY TypeParts DEF TypeInv, LifecycleTypeOK
<1>2. ASSUME NEW i \in Jobs, NEW name, Enqueue(i, name) PROVE state'[j] = state[j]
  BY <1>1, <1>2 DEF Enqueue
<1>3. ASSUME NEW m, Queue(m) PROVE state'[j] = state[j]
  BY <1>2, <1>3 DEF Queue, DispatchMessage
<1>4. ASSUME UNCHANGED lifecycleVars \/ Quiet \/ NotQueued PROVE state'[j] = state[j]
  BY <1>4 DEF lifecycleVars, Quiet, NotQueued
<1>5. ASSUME NEW w \in Workers, NEW i \in Jobs, Run(w, i) PROVE state'[j] = state[j]
  BY <1>1, <1>5 DEF Run
<1>6. ASSUME NEW i \in Jobs, LoseLease(i) PROVE state'[j] = state[j]
  BY <1>1, <1>6 DEF LoseLease
<1>7. ASSUME NEW w \in Workers, Crash(w) PROVE state'[j] = state[j]
  BY <1>7 DEF Crash
<1>8. ASSUME NEW w \in Workers, Report(w) PROVE state'[j] = state[j]
  BY <1>1, <1>4, <1>8 DEF Report
<1>9. ASSUME NEW c \in Clients, NEW email \in Emails, Register(c, email) PROVE state'[j] = state[j]
  BY <1>3, <1>4, <1>9 DEF Register
<1> QED
  BY <1>2, <1>3, <1>4, <1>5, <1>6, <1>7, <1>8, <1>9 DEF Next, Commit, UpdateProfile, Resend,
    ReadAccount, ReplaceToken, NotifyVerification, VerifyEmail, NotifyWelcome, Fail, DispatchOther

\* Between the statements of the command the rest of the system goes on.
LEMMA OthersLeave ==
  ASSUME CommandInv, Next, ~Operator
  PROVE  LeftToDo' /\ LeftToCount'
<1>1. JobsStay /\ CommandTypeOK
  BY StepStays, TypeParts DEF CommandInv, TypeInv
<1>2. cmd' = cmd
  BY DEF Next, Register, Commit, UpdateProfile, Resend, ReadAccount, ReplaceToken,
    NotifyVerification, VerifyEmail, NotifyWelcome, Fail, Quiet, DispatchOther, LoseLease, Run,
    Report, Crash, commandVars
<1>3. ASSUME NEW j \in Jobs, state[j] \in {"failed", "done"}
      PROVE  state'[j] = state[j] /\ queue'[j] = queue[j]
  BY <1>1, <1>3, FinalStates DEF CommandInv, JobsStay
<1>4. In(Queues, {"failed"}) \subseteq In(Queues, {"failed"})'
      /\ \A name : In({name}, {"done"}) \subseteq In({name}, {"done"})'
  BY <1>3 DEF In
<1>5. \A j \in In(Queues, {"failed"}) : queue'[j] = queue[j]
  BY <1>3 DEF In
<1>6. LeftToDo'
  BY <1>2, <1>4, <1>5 DEF CommandInv, LeftToDo
<1>7. LeftToCount'
  BY <1>2, <1>4 DEF CommandInv, LeftToCount
<1> QED
  BY <1>6, <1>7

LEMMA OperatorLeaves ==
  ASSUME CommandInv, Operator
  PROVE  LeftToDo' /\ LeftToCount'
<1>1. LeftToDo /\ LeftToCount /\ CommandTypeOK /\ LifecycleTypeOK /\ CommandNext
  BY TypeParts DEF CommandInv, TypeInv, Operator
<1>2. ASSUME UNCHANGED <<lifecycleVars, queue>>
      PROVE  \A names, states : In(names, states)' = In(names, states)
  BY <1>2 DEF In, lifecycleVars
<1>3. ASSUME NEW op \in Ops, Start(op) PROVE LeftToDo' /\ LeftToCount'
  BY <1>2, <1>3 DEF Start, NoCommand, Ops, LeftToDo, LeftToCount
<1>4. ASSUME NEW op \in Ops, NEW name \in Queues, StartOn(op, name)
      PROVE  LeftToDo' /\ LeftToCount'
  <2>1. In({name}, {"failed"}) \subseteq In(Queues, {"failed"})
        /\ \A j \in In({name}, {"failed"}) : queue'[j] = name
    BY <1>4 DEF In, StartOn
  <2> QED
    BY <1>2, <1>4, <2>1 DEF StartOn, NoCommand, Ops, LeftToDo, LeftToCount
<1>5. CASE ReadRows
  <2>1. \A j \in In(Queues, {"failed"}) : queue'[j] \in StoredQueues
    BY <1>5 DEF ReadRows, StoredQueues, QueuesOf, In, Live
  <2> QED
    BY <1>1, <1>2, <1>5, <2>1 DEF ReadRows, LeftToDo, LeftToCount, CommandTypeOK
<1>6. CASE ReadStats
  BY <1>1, <1>2, <1>6 DEF ReadStats, LeftToDo, LeftToCount, CommandTypeOK
<1>7. ASSUME NEW op \in Ops, NEW j \in Jobs, OperateOn(op, j) PROVE LeftToDo' /\ LeftToCount'
  <2>1. queue' = queue /\ cmd' = [cmd EXCEPT !.due = @ \ {j}]
        /\ \A i \in Jobs \ {j} : state'[i] = state[i]
    BY <1>1, <1>7 DEF OperateOn, Decide
  <2>2. state[j] = "failed"
    BY <1>7 DEF OperateOn
  <2>3. In(Queues, {"failed"}) \ {j} \subseteq In(Queues, {"failed"})'
        /\ \A name : In({name}, {"done"}) \subseteq In({name}, {"done"})'
    BY <2>1, <2>2 DEF In
  <2> QED
    BY <1>1, <2>1, <2>3 DEF LeftToDo, LeftToCount, CommandTypeOK
<1>8. ASSUME NEW name \in Queues, Operate(name) PROVE LeftToDo' /\ LeftToCount'
  <2> DEFINE failed == In({name}, {"failed"})
  <2>1. /\ queue' = queue /\ cmd' = [cmd EXCEPT !.names = @ \ {name}, !.due = @ \ failed]
        /\ \A i \in Jobs \ failed : state'[i] = state[i]
    BY <1>1, <1>8 DEF Operate, Decide
  <2>2. /\ cmd'.op = cmd.op /\ cmd'.at = "queues" /\ cmd.at = "queues" /\ cmd.op # "status"
        /\ cmd'.names = cmd.names \ {name} /\ cmd'.due = cmd.due \ failed
    BY <1>1, <1>8 DEF Operate, CommandTypeOK
  <2>3. (In(Queues, {"failed"}) \ failed) \subseteq In(Queues, {"failed"})'
        /\ \A j \in In(Queues, {"failed"}) \ failed : queue'[j] # name
    BY <2>1 DEF In
  <2> QED
    BY <1>1, <2>1, <2>2, <2>3 DEF LeftToDo, LeftToCount
<1>9. ASSUME NEW name \in Queues, FirstRead(name) PROVE LeftToDo' /\ LeftToCount'
  <2> DEFINE counted == In({name}, Live \cup {"done"})
             seen == Read(StatsReads[1], name)
  <2>1. counted \ seen \subseteq In({name}, {"done"})
    BY DEF In, Read, StatsReads
  <2>2. cmd' = [cmd EXCEPT !.at = "second", !.queue = name, !.due = counted, !.seen = seen]
        /\ cmd.op = "status" /\ UNCHANGED <<lifecycleVars, queue>>
    BY <1>9 DEF FirstRead
  <2> HIDE DEF counted, seen
  <2>3. /\ cmd'.op = "status" /\ cmd'.at = "second" /\ cmd'.queue = name
        /\ cmd'.due = counted /\ cmd'.seen = seen
    BY <1>1, <2>2 DEF CommandTypeOK
  <2>4. In({name}, {"done"})' = In({name}, {"done"})
    BY <1>2, <2>2
  <2> QED
    BY <2>1, <2>3, <2>4 DEF LeftToDo, LeftToCount
<1>10. CASE SecondRead
  <2> DEFINE seen == Read(StatsReads[2], cmd.queue)
  <2>1. seen = In({cmd.queue}, {"done"})
    BY DEF Read, StatsReads
  <2>2. cmd' = [cmd EXCEPT !.at = "line", !.seen = @ \cup seen] /\ cmd.at = "second"
    BY <1>10 DEF SecondRead
  <2> HIDE DEF seen
  <2>3. /\ cmd'.op = cmd.op /\ cmd'.at = "line"
        /\ cmd'.due = cmd.due /\ cmd'.seen = cmd.seen \cup seen
    BY <1>1, <2>2 DEF CommandTypeOK
  <2>4. cmd.op = "status" /\ cmd.due \ cmd.seen \subseteq seen
    BY <1>1, <2>1, <2>2 DEF LeftToCount
  <2> QED
    BY <2>3, <2>4 DEF LeftToDo, LeftToCount
<1>11. CASE PrintLine
  BY <1>1, <1>2, <1>11 DEF PrintLine, NoCommand, LeftToDo, LeftToCount, CommandTypeOK
<1>12. CASE End
  BY <1>12 DEF End, NoCommand, LeftToDo, LeftToCount
<1> QED
  BY <1>1, <1>3, <1>4, <1>5, <1>6, <1>7, <1>8, <1>9, <1>10, <1>11, <1>12 DEF CommandNext

LEMMA StepCommand == CommandInv /\ [Next]_vars => CommandInv'
<1>1. ASSUME CommandInv, Next PROVE CommandInv'
  BY <1>1, StepTypes, OthersLeave, OperatorLeaves DEF CommandInv
<1>2. ASSUME CommandInv, UNCHANGED vars PROVE CommandInv'
  <2>1. TypeInv'
    BY <1>2, StepTypes DEF CommandInv
  <2> QED
    BY <1>2, <2>1 DEF CommandInv, LeftToDo, LeftToCount, In, vars, lifecycleVars, commandVars
<1> QED
  BY <1>1, <1>2

LEMMA InitCommand == Init => CommandInv
BY InitTypes DEF Init, CommandInit, NoCommand, CommandInv, LeftToDo, LeftToCount

\* With any number of queues and workers: `retry all` and `delete all` leave none of
\* the jobs alone that were failed when they started.
THEOREM AllAreOperatedOn == Spec => []AllMeansAll
<1>1. CommandInv => AllMeansAll
  <2> SUFFICES ASSUME CommandInv, Finished, cmd.op # "status" PROVE cmd.due = {}
    BY DEF AllMeansAll
  <2>1. cmd.op \in {"retry", "delete"}
    BY TypeParts DEF CommandInv, TypeInv, CommandTypeOK, Ops, LeftToCount, Finished
  <2> QED
    BY <2>1 DEF CommandInv, LeftToDo, Finished
<1> QED
  BY <1>1, InitCommand, StepCommand, PTL DEF Spec

\* A line of `status` accounts for every job that was in its queue when it was read.
THEOREM NoneIsMissed == Spec => []StatsMissNone
<1>1. CommandInv => StatsMissNone
  BY DEF CommandInv, LeftToCount, StatsMissNone
<1> QED
  BY <1>1, InitCommand, StepCommand, PTL DEF Spec

-----------------------------------------------------------------------------
(* Who is welcomed, and which address a link activates.                    *)

(* Both need that a registration does not write over another user: its id  *)
(* is one that no user, request or message had before.                     *)

Reserved ==
  /\ \A c \in Clients : req[c].at = "commit" =>
       /\ req[c].id < nextUser /\ ~Exists(req[c].id)
       /\ \A d \in Clients : req[d].at = "commit" /\ req[d].id = req[c].id => d = c
  /\ \A id \in Ids : Exists(id) => id < nextUser
  /\ \A j \in Jobs : message[j].user < nextUser

\* How a step changes rows that exist: none comes into being but by a commit.
LEMMA NewRow ==
  ASSUME TypeInv, Next, NEW id \in Ids, Exists(id)', ~Exists(id)
  PROVE  \E c \in Clients : Commit(c) /\ req[c].id = id
<1>1. users \in [Ids -> Account] /\ Addressed /\ Linked
  BY TypeParts DEF TypeInv, AccountTypes
<1>2. ASSUME NEW c \in Clients, Commit(c) PROVE req[c].id = id
  BY <1>1, <1>2 DEF Commit, Exists
<1>3. ASSUME NEW c \in Clients, NEW other \in Ids, NEW email \in Emails,
             UpdateProfile(c, other, email)
      PROVE  FALSE
  BY <1>1, <1>3 DEF UpdateProfile, Exists
<1>4. ASSUME NEW c \in Clients, NEW j \in Jobs, VerifyEmail(c, j) PROVE FALSE
  <2>1. message[j].user = id
    BY <1>1, <1>4 DEF VerifyEmail, Exists
  <2> QED
    BY <1>1, <1>4, <2>1 DEF VerifyEmail, Linked, Addressed
<1>5. ASSUME UNCHANGED users PROVE FALSE
  BY <1>5 DEF Exists
<1> QED
  BY <1>2, <1>3, <1>4, <1>5 DEF Next, Register, Resend, ReadAccount, ReplaceToken,
    NotifyVerification, NotifyWelcome, Fail, DispatchOther, Report, Crash, Run, LoseLease,
    Operator, requests, accounts

\* A message that is new has its user from a request, or has none.
LEMMA NewMessage ==
  ASSUME TypeInv, Next, NEW j \in Jobs, message'[j] # message[j]
  PROVE  \/ \E c \in Clients, email \in Emails :
              /\ Register(c, email) /\ nextUser' = nextUser + 1
              /\ message'[j] = Verification(nextUser, RowOf(email), nextHash)
         \/ \E c \in Clients :
              /\ NotifyVerification(c)
              /\ message'[j] = Verification(req[c].id, req[c].account, req[c].hash)
         \/ \E c \in Clients :
              /\ NotifyWelcome(c) /\ message'[j].kind = "welcome" /\ message'[j].user = req[c].id
              /\ message'[j].hash = 0
              /\ \A i \in Jobs : i # j => message'[i] = message[i]
         \/ /\ message'[j].kind = "other" /\ message'[j].user = message[j].user
            /\ message'[j].hash = message[j].hash
            /\ \E name \in Queues : DispatchOther(name)
<1>1. message \in [Jobs -> Message]
  BY TypeParts DEF TypeInv, MessageTypes
<1>2. ASSUME NEW m, Queue(m)
      PROVE  message'[j] = m /\ \A i \in Jobs : i # j => message'[i] = message[i]
  BY <1>1, <1>2 DEF Queue, DispatchMessage
<1>3. ASSUME Quiet \/ NotQueued \/ UNCHANGED requests PROVE FALSE
  BY <1>3 DEF Quiet, NotQueued, requests
<1>4. ASSUME NEW c \in Clients, NEW email \in Emails, Register(c, email)
      PROVE  nextUser' = nextUser + 1 /\ message'[j] = Verification(nextUser, RowOf(email), nextHash)
  BY <1>2, <1>3, <1>4 DEF Register, RowOf
<1>5. ASSUME NEW c \in Clients, NotifyWelcome(c)
      PROVE  /\ message'[j].kind = "welcome" /\ message'[j].user = req[c].id
             /\ message'[j].hash = 0 /\ \A i \in Jobs : i # j => message'[i] = message[i]
  BY <1>2, <1>5 DEF NotifyWelcome
<1>6. ASSUME NEW c \in Clients, NotifyVerification(c)
      PROVE  message'[j] = Verification(req[c].id, req[c].account, req[c].hash)
  BY <1>2, <1>6 DEF NotifyVerification
<1>7. ASSUME NEW name \in Queues, DispatchOther(name)
      PROVE  /\ message'[j].kind = "other" /\ message'[j].user = message[j].user
             /\ message'[j].hash = message[j].hash
  <2>1. PICK i \in Jobs : message' = [message EXCEPT ![i].kind = "other"]
    BY <1>7 DEF DispatchOther
  <2>2. message'[j] = [message[j] EXCEPT !.kind = "other"] /\ message[j] \in Message
    BY <1>1, <2>1
  <2> QED
    BY <2>2 DEF Message
<1> QED
  BY <1>3, <1>4, <1>5, <1>6, <1>7 DEF Next, Commit, UpdateProfile, Resend, ReadAccount,
    ReplaceToken, VerifyEmail, Fail, Report, Crash, Run, LoseLease, Operator

LEMMA CountersGrow ==
  ASSUME TypeInv, Next
  PROVE  /\ nextUser \in Nat /\ nextUser' \in Nat /\ nextUser <= nextUser'
         /\ nextHash \in Nat /\ nextHash' \in Nat /\ nextHash <= nextHash'
         /\ UNCHANGED counters \/ (\E c \in Clients, email \in Emails : Register(c, email))
              \/ (\E c \in Clients : ReplaceToken(c))
<1>1. nextUser \in Nat /\ nextHash \in Nat
  BY TypeParts DEF TypeInv, AccountTypes
<1>2. \/ UNCHANGED counters
      \/ \E c \in Clients, email \in Emails : Register(c, email)
      \/ \E c \in Clients : ReplaceToken(c)
  BY DEF Next, Commit, UpdateProfile, Resend, ReadAccount, NotifyVerification, VerifyEmail,
    NotifyWelcome, Fail, DispatchOther, Report, Crash, Run, LoseLease, Operator, requests, counters
<1>3. ASSUME NEW c \in Clients, NEW email \in Emails, Register(c, email)
      PROVE  nextUser' = nextUser + 1 /\ nextHash' = nextHash + 1
  BY <1>3 DEF Register
<1>4. ASSUME NEW c \in Clients, ReplaceToken(c)
      PROVE  nextUser' = nextUser /\ nextHash' = nextHash + 1
  BY <1>4 DEF ReplaceToken
<1>5. nextUser' \in {nextUser, nextUser + 1} /\ nextHash' \in {nextHash, nextHash + 1}
  BY <1>2, <1>3, <1>4 DEF counters
<1> QED
  BY <1>1, <1>2, <1>5

LEMMA StepReserved ==
  ASSUME TypeInv, Reserved, Next
  PROVE  Reserved'
<1>1. req \in [Clients -> Request] /\ Ids \subseteq Nat /\ nextUser <= nextUser'
      /\ nextUser \in Nat /\ nextUser' \in Nat /\ message \in [Jobs -> Message]
  BY CountersGrow, TypeParts DEF TypeInv, RequestTypes, MessageTypes, Ids
<1>2. ASSUME NEW id \in Ids, Exists(id)' PROVE id < nextUser'
  <2>1. id < nextUser
    BY <1>2, NewRow DEF Reserved, Commit
  <2> QED
    BY <1>1, <2>1
<1>3. ASSUME NEW j \in Jobs PROVE message'[j].user < nextUser'
  <2>1. message[j].user \in Nat /\ message[j].user < nextUser
    BY <1>1 DEF Message, Reserved
  <2>2. \A c \in Clients : req[c].at \in {"notify", "welcome"} =>
          req[c].id \in Nat /\ req[c].id < nextUser
    BY <1>1 DEF TypeInv, Begun, Reserved
  <2>3. CASE message'[j] = message[j]
    BY <1>1, <2>1, <2>3
  <2>4. CASE message'[j] # message[j]
    <3>1. ASSUME NEW id, NEW account, NEW hash, message'[j] = Verification(id, account, hash)
          PROVE  message'[j].user = id
      BY <3>1 DEF Verification
    <3>2. \A c \in Clients : NotifyVerification(c) => req[c].at = "notify"
      BY DEF NotifyVerification
    <3>3. \A c \in Clients : NotifyWelcome(c) => req[c].at = "welcome"
      BY DEF NotifyWelcome
    <3>4. PICK user \in Nat : message'[j].user = user
            /\ (user < nextUser \/ (nextUser' = nextUser + 1 /\ user = nextUser))
      BY <1>1, <2>1, <2>2, <2>4, <3>1, <3>2, <3>3, NewMessage
    <3> QED
      BY <1>1, <3>4
  <2> QED
    BY <2>3, <2>4
<1>4. ASSUME NEW c \in Clients, req'[c].at = "commit", req'[c] = req[c]
      PROVE  req'[c].id \in Ids /\ req'[c].id < nextUser /\ ~Exists(req[c].id)'
  <2>1. req[c].id \in Ids /\ req[c].id < nextUser /\ ~Exists(req[c].id)
    BY <1>4 DEF TypeInv, Begun, Reserved
  <2>2. ASSUME NEW d \in Clients, Commit(d), req[d].id = req[c].id PROVE FALSE
    <3>1. d = c
      BY <1>4, <2>2 DEF Reserved, Commit
    <3>2. req'[c] = Idle
      BY <1>1, <2>2, <3>1 DEF Commit, Ends
    <3> QED
      BY <1>4, <3>2, Constants
  <2>3. PICK id \in Ids : id = req[c].id
    BY <2>1
  <2>4. ~Exists(id)'
    BY <2>1, <2>2, <2>3, NewRow
  <2> QED
    BY <1>4, <2>1, <2>3, <2>4 DEF Exists
<1>5. ASSUME NEW c \in Clients, NEW email \in Emails, Registered(c, email)
      PROVE  /\ req'[c].id = nextUser /\ nextUser \in Ids /\ nextUser' = nextUser + 1
             /\ users'[nextUser] = Absent
             /\ \A d \in Clients : d # c => req'[d] = req[d]
  <2>1. req'[c].id = nextUser /\ \A d \in Clients : d # c => req'[d] = req[d]
    BY <1>1, <1>5 DEF Registered, Doing
  <2>2. nextUser \in Ids /\ nextUser' = nextUser + 1 /\ users' = users
    BY <1>5 DEF Registered, Register, accounts
  <2>3. ~Exists(nextUser)
    BY <1>1, <2>2 DEF Reserved
  <2> QED
    BY <2>1, <2>2, <2>3 DEF Exists
<1>6. ASSUME NEW c \in Clients, req'[c].at = "commit"
      PROVE  /\ req'[c].id < nextUser' /\ ~Exists(req[c].id)'
             /\ \A d \in Clients : req'[d].at = "commit" /\ req'[d].id = req'[c].id => d = c
  <2>1. CASE req'[c] = req[c]
    <3>1. req'[c].id \in Ids /\ req'[c].id < nextUser /\ ~Exists(req[c].id)'
      BY <1>4, <1>6, <2>1
    <3>2. ASSUME NEW d \in Clients, req'[d].at = "commit", req'[d].id = req'[c].id PROVE d = c
      <4>1. req'[d] = req[d] \/ \E email \in Emails : Registered(d, email)
        BY <3>2, NewCommit
      <4> QED
        BY <1>1, <1>5, <1>6, <2>1, <3>1, <3>2, <4>1 DEF Reserved
    <3>3. PICK id \in Nat : id = req'[c].id /\ id < nextUser
      BY <1>1, <3>1
    <3>4. id < nextUser'
      BY <1>1, <3>3
    <3> QED
      BY <3>1, <3>2, <3>3, <3>4
  <2>2. ASSUME NEW email \in Emails, Registered(c, email)
        PROVE  /\ req'[c].id < nextUser' /\ ~Exists(req[c].id)'
               /\ \A d \in Clients : req'[d].at = "commit" /\ req'[d].id = req'[c].id => d = c
    <3>1. /\ req'[c].id = nextUser /\ nextUser' = nextUser + 1 /\ users'[nextUser] = Absent
          /\ \A d \in Clients : d # c => req'[d] = req[d]
      BY <1>5, <2>2
    <3>2. ASSUME NEW d \in Clients, d # c, req'[d].at = "commit" PROVE req'[d].id < nextUser
      BY <3>1, <3>2 DEF Reserved
    <3>3. ~Exists(req[c].id)'
      BY <3>1 DEF Exists
    <3>4. \A d \in Clients : req'[d].at = "commit" /\ req'[d].id = req'[c].id => d = c
      BY <1>1, <3>1, <3>2
    <3>5. req'[c].id < nextUser'
      BY <1>1, <3>1
    <3> QED
      BY <3>3, <3>4, <3>5
  <2> QED
    BY <1>6, <2>1, <2>2, NewCommit
<1> QED
  BY <1>2, <1>3, <1>6 DEF Reserved

-----------------------------------------------------------------------------
(* Welcome messages.                                                       *)

OneAsks ==
  \A c, d \in Clients :
    req[c].at = "welcome" /\ req[d].at = "welcome" /\ req[c].id = req[d].id => c = d

WelcomeInv == TypeInv /\ Fresh /\ Reserved /\ OneAsks /\ WelcomeAfterVerification

LEMMA VerifiedStays ==
  ASSUME TypeInv, Reserved, Next, NEW id \in Ids, users[id].verified
  PROVE  users'[id].verified
<1>1. users \in [Ids -> Account]
  BY TypeParts DEF TypeInv, AccountTypes
<1>2. ASSUME NEW c \in Clients, Commit(c) PROVE users'[id] = users[id]
  BY <1>1, <1>2, Constants DEF Commit, Reserved, Exists
<1>3. ASSUME NEW c \in Clients, NEW other \in Ids, NEW email \in Emails,
             UpdateProfile(c, other, email)
      PROVE  users'[id].verified
  <2>1. PICK pending : users' = [users EXCEPT ![other].pending = pending]
    BY <1>3 DEF UpdateProfile
  <2> QED
    BY <1>1, <2>1 DEF Account
<1>4. ASSUME NEW c \in Clients, NEW j \in Jobs, VerifyEmail(c, j) PROVE users'[id].verified
  BY <1>1, <1>4 DEF VerifyEmail
<1> QED
  BY <1>2, <1>3, <1>4 DEF Next, Register, Resend, ReadAccount, ReplaceToken,
    NotifyVerification, NotifyWelcome, Fail, DispatchOther, Report, Crash, Run, LoseLease,
    Operator, requests, accounts

\* Only the first verification of a user asks for a welcome.
LEMMA NewAsk ==
  ASSUME TypeInv, Next, NEW c \in Clients, req'[c].at = "welcome", req'[c] # req[c]
  PROVE  \E id \in Ids :
           /\ req'[c].id = id /\ ~users[id].verified /\ users'[id].verified
           /\ UNCHANGED message /\ \A d \in Clients : d # c => req'[d] = req[d]
<1>1. req \in [Clients -> Request] /\ users \in [Ids -> Account]
  BY TypeParts DEF TypeInv, RequestTypes, AccountTypes
<1>2. ASSUME NEW d \in Clients, NEW r, req' = [req EXCEPT ![d] = r], r.at # "welcome"
      PROVE  FALSE
  BY <1>1, <1>2
<1>3. \A at, id, account, hash : Doing(at, id, account, hash).at = at /\ Doing(at, id, account, hash).id = id
  BY DEF Doing
<1>4. ASSUME NEW d \in Clients, NEW j \in Jobs, VerifyEmail(d, j)
      PROVE  \E id \in Ids :
               /\ req'[c].id = id /\ ~users[id].verified /\ users'[id].verified
               /\ UNCHANGED message /\ \A e \in Clients : e # c => req'[e] = req[e]
  <2>1. PICK id \in Ids : id = message[j].user
    BY <1>4 DEF VerifyEmail, TypeInv, Linked
  <2>2. PICK account : account = [verified |-> TRUE, email |-> VerifiedEmail(users[id]), pending |-> NoEmail]
    OBVIOUS
  <2> DEFINE r == IF ~users[id].verified THEN Doing("welcome", id, account, 0) ELSE Idle
  <2>3. /\ users' = [users EXCEPT ![id] = account] /\ account.verified
        /\ req' = [req EXCEPT ![d] = r]
    BY <1>4, <2>1, <2>2 DEF VerifyEmail, Begins, FirstVerification
  <2>4. d = c /\ r.at = "welcome"
    BY <1>1, <1>2, <2>3
  <2>5. ~users[id].verified /\ req'[c].id = id
    BY <1>1, <1>3, <2>3, <2>4, Constants
  <2> QED
    BY <1>1, <1>4, <2>3, <2>4, <2>5 DEF VerifyEmail, Quiet, NotQueued
<1>5. ASSUME NEW d \in Clients, NEW email \in Emails, Register(d, email) PROVE FALSE
  <2>1. PICK r : req' = [req EXCEPT ![d] = r] /\ r \in {Doing("commit", nextUser, RowOf(email), nextHash), Idle}
    BY <1>5 DEF Register, Begins, RowOf
  <2> QED
    BY <1>2, <1>3, <2>1, Constants
<1>6. ASSUME NEW d \in Clients, NEW id \in Ids, Resend(d, id) PROVE FALSE
  BY <1>2, <1>3, <1>6 DEF Resend, Begins
<1>7. ASSUME NEW d \in Clients, NEW id \in Ids, NEW email \in Emails, UpdateProfile(d, id, email)
      PROVE  FALSE
  <2>1. req' = [req EXCEPT ![d] = Doing("read", id, Absent, 0)]
    BY <1>7 DEF UpdateProfile, Begins
  <2> QED
    BY <1>2, <1>3, <2>1
<1>8. ASSUME NEW d \in Clients,
             Commit(d) \/ NotifyVerification(d) \/ NotifyWelcome(d) \/ Fail(d)
      PROVE  FALSE
  <2>1. req' = [req EXCEPT ![d] = Idle]
    BY <1>8 DEF Commit, NotifyVerification, NotifyWelcome, Fail, Ends
  <2> QED
    BY <1>2, <2>1, Constants
<1>9. ASSUME NEW d \in Clients, ReadAccount(d) PROVE FALSE
  <2>1. PICK r : req' = [req EXCEPT ![d] = r] /\ r \in {Idle, Doing("replace", req[d].id, users[req[d].id], 0)}
    BY <1>9 DEF ReadAccount
  <2> QED
    BY <1>2, <1>3, <2>1, Constants
<1>10. ASSUME NEW d \in Clients, ReplaceToken(d) PROVE FALSE
  BY <1>2, <1>3, <1>10 DEF ReplaceToken
<1>11. ASSUME UNCHANGED req PROVE FALSE
  BY <1>11
<1> QED
  BY <1>4, <1>5, <1>6, <1>7, <1>8, <1>9, <1>10, <1>11 DEF Next, DispatchOther, Report, Crash,
    Run, LoseLease, Operator, requests

AsksFor(id) == {c \in Clients : req[c].at = "welcome" /\ req[c].id = id}

LEMMA StepWelcome == WelcomeInv /\ [Next]_vars => WelcomeInv'
<1>1. ASSUME WelcomeInv, Next PROVE WelcomeInv'
  <2>1. TypeInv' /\ JobsStay /\ Fresh' /\ Reserved' /\ TypeInv /\ Reserved /\ OneAsks
    BY <1>1, StepTypes, StepStays, FreshStays, StepReserved DEF WelcomeInv
  <2>2. req \in [Clients -> Request]
    BY <2>1, TypeParts DEF TypeInv, RequestTypes
  <2>3. \A id \in Ids : /\ AsksFor(id) \cup Sent("welcome", id) # {} => users[id].verified
                        /\ \A i, j \in Sent("welcome", id) : i = j
                        /\ Sent("welcome", id) # {} => AsksFor(id) = {}
    BY <1>1 DEF WelcomeInv, WelcomeAfterVerification, AsksFor
  \* The verification of somebody who was never asked about.
  <2>4. ASSUME NEW c \in Clients, req'[c].at = "welcome", req'[c] # req[c],
               NEW id \in Ids, req'[c].id = id
        PROVE  /\ users'[id].verified /\ message' = message /\ Sent("welcome", id) = {}
               /\ \A d \in Clients : req'[d].at = "welcome" /\ req'[d].id = id => d = c
    <3>1. ~users[id].verified /\ users'[id].verified /\ UNCHANGED message
          /\ \A d \in Clients : d # c => req'[d] = req[d]
      BY <1>1, <2>1, <2>4, NewAsk
    <3>2. AsksFor(id) = {} /\ Sent("welcome", id) = {}
      BY <2>3, <3>1
    <3> QED
      BY <3>1, <3>2 DEF AsksFor
  <2>5. OneAsks'
    <3> SUFFICES ASSUME NEW c \in Clients, NEW d \in Clients, req'[c].at = "welcome",
                        req'[d].at = "welcome", req'[c].id = req'[d].id
                 PROVE  c = d
      BY DEF OneAsks
    <3>1. req'[c].id \in Ids
      BY <2>1 DEF TypeInv, Begun
    <3>2. CASE req'[c] = req[c] /\ req'[d] = req[d]
      BY <2>1, <3>2 DEF OneAsks
    <3> QED
      BY <2>4, <3>1, <3>2
  \* The message that answers the one request for it.
  <2>6. ASSUME NEW j \in Jobs, message'[j].kind = "welcome", message'[j] # message[j],
               NEW id \in Ids, message'[j].user = id
        PROVE  /\ users'[id].verified
               /\ \A i \in Jobs : i # j => message'[i] = message[i]
               /\ Sent("welcome", id) = {} /\ AsksFor(id)' = {}
    <3>1. PICK c \in Clients : /\ NotifyWelcome(c) /\ req[c].id = id
                               /\ \A i \in Jobs : i # j => message'[i] = message[i]
      <4>1. \A user, account, hash : Verification(user, account, hash).kind = "verification"
        BY DEF Verification
      <4> QED
        BY <1>1, <2>1, <2>6, <4>1, NewMessage
    <3>2. req[c].at = "welcome" /\ req' = [req EXCEPT ![c] = Idle] /\ users' = users
      BY <3>1 DEF NotifyWelcome, Ends, accounts
    <3>3. c \in AsksFor(id) /\ users[id].verified /\ Sent("welcome", id) = {}
      BY <2>3, <3>1, <3>2 DEF AsksFor
    <3>4. \A d \in Clients : ~(req'[d].at = "welcome" /\ req'[d].id = id)
      BY <2>1, <2>2, <3>1, <3>2, Constants DEF OneAsks
    <3>5. AsksFor(id)' = {}
      BY <3>4 DEF AsksFor
    <3> QED
      BY <3>1, <3>2, <3>3, <3>5
  <2>7. ASSUME NEW id \in Ids
        PROVE  /\ (AsksFor(id) \cup Sent("welcome", id))' # {} => users'[id].verified
               /\ \A i, j \in Sent("welcome", id)' : i = j
               /\ Sent("welcome", id)' # {} => AsksFor(id)' = {}
    <3>1. ASSUME NEW c \in Clients, c \in AsksFor(id)' PROVE users'[id].verified
      <4>1. req'[c].at = "welcome" /\ req'[c].id = id
        BY <3>1 DEF AsksFor
      <4>2. CASE req'[c] = req[c]
        BY <1>1, <2>1, <2>3, <4>1, <4>2, VerifiedStays DEF AsksFor
      <4> QED
        BY <2>4, <4>1, <4>2
    <3>2. ASSUME NEW j \in Jobs, j \in Sent("welcome", id)' PROVE users'[id].verified
      <4>1. message'[j].kind = "welcome" /\ message'[j].user = id
        BY <3>2 DEF Sent
      <4>2. CASE message'[j] = message[j]
        BY <1>1, <2>1, <2>3, <4>1, <4>2, VerifiedStays DEF Sent
      <4> QED
        BY <2>6, <4>1, <4>2
    <3>3. ASSUME NEW i \in Sent("welcome", id)', NEW j \in Sent("welcome", id)' PROVE i = j
      <4>1. /\ i \in Jobs /\ message'[i].kind = "welcome" /\ message'[i].user = id
            /\ j \in Jobs /\ message'[j].kind = "welcome" /\ message'[j].user = id
        BY <3>3 DEF Sent
      <4>2. CASE message'[i] = message[i] /\ message'[j] = message[j]
        BY <2>3, <4>1, <4>2 DEF Sent
      <4> QED
        BY <2>6, <4>1, <4>2 DEF Sent
    <3>4. ASSUME NEW j \in Sent("welcome", id)', NEW c \in AsksFor(id)' PROVE FALSE
      <4>1. /\ j \in Jobs /\ message'[j].kind = "welcome" /\ message'[j].user = id
            /\ c \in Clients /\ req'[c].at = "welcome" /\ req'[c].id = id
        BY <3>4 DEF Sent, AsksFor
      <4>2. message'[j] = message[j]
        BY <2>6, <3>4, <4>1
      <4>3. req'[c] = req[c]
        BY <2>4, <4>1, <4>2 DEF Sent
      <4> QED
        BY <2>3, <4>1, <4>2, <4>3 DEF Sent, AsksFor
    <3>5. AsksFor(id)' \subseteq Clients /\ Sent("welcome", id)' \subseteq Jobs
      BY DEF AsksFor, Sent
    <3> QED
      BY <3>1, <3>2, <3>3, <3>4, <3>5
  <2>8. WelcomeAfterVerification'
    BY <2>7 DEF WelcomeAfterVerification, AsksFor
  <2> QED
    BY <2>1, <2>5, <2>8 DEF WelcomeInv
<1>2. ASSUME WelcomeInv, UNCHANGED vars PROVE WelcomeInv'
  <2>1. TypeInv'
    BY <1>2, StepTypes DEF WelcomeInv
  <2>2. UNCHANGED <<state, users, message, req, nextUser>>
    BY <1>2 DEF vars, lifecycleVars, accounts, counters
  <2> QED
    BY <1>2, <2>1, <2>2 DEF WelcomeInv, Fresh, Reserved, OneAsks, WelcomeAfterVerification, Sent, Exists
<1> QED
  BY <1>1, <1>2

\* With any number of users, clients and workers: a welcome message is queued for
\* verified users only, and never a second one.
THEOREM WelcomedOnceVerified == Spec => []WelcomeAfterVerification
<1>1. Init => WelcomeInv
  <2>1. Init => TypeInv
    BY InitTypes
  <2> QED
    BY <2>1, Constants DEF Init, WelcomeInv, Fresh, Reserved, OneAsks, WelcomeAfterVerification, Sent,
      Exists, NoMessage
<1>2. WelcomeInv => WelcomeAfterVerification
  BY DEF WelcomeInv
<1> QED
  BY <1>1, <1>2, StepWelcome, PTL DEF Spec

-----------------------------------------------------------------------------
(* Addresses.  A token says which user it is for but not which address; it *)
(* is bound to one as long as no profile update or late token comes in     *)
(* between (outdated).                                                     *)

\* A hash that is used was drawn before.
Issued ==
  /\ \A j \in Jobs : message[j].hash < nextHash
  /\ \A c \in Clients : req[c].hash < nextHash

\* The message with the current token of a user goes to the address it activates.
Bound ==
  \A j \in Jobs : message[j].kind = "verification" =>
    \A id \in Ids : id = message[j].user /\ token[id] = message[j].hash /\ token[id] \notin outdated
      => message[j].to = VerifiedEmail(users[id])

\* So will the one of a user who is about to be committed ...
CommitBound ==
  \A c \in Clients : req[c].at = "commit" =>
    \A j \in Jobs : message[j].kind = "verification" /\ message[j].user = req[c].id
      => message[j].to = VerifiedEmail(req[c].account)

\* ... and the one that is about to be queued.
NotifyBound ==
  \A c \in Clients : req[c].at = "notify" =>
    \A id \in Ids : id = req[c].id /\ token[id] = req[c].hash /\ token[id] \notin outdated
      => VerifiedEmail(req[c].account) = VerifiedEmail(users[id])

AddressInv == TypeInv /\ Reserved /\ Issued /\ Bound /\ CommitBound /\ NotifyBound

\* What a step does to one row.
LEMMA RowEffect ==
  ASSUME TypeInv, Next, NEW id \in Ids
  PROVE  /\ outdated \subseteq outdated'
         /\ \/ /\ token'[id] = token[id]
               /\ \/ VerifiedEmail(users'[id]) = VerifiedEmail(users[id])
                  \/ token[id] = 0 \/ token[id] \in outdated'
            \/ \E c \in Clients : /\ Commit(c) /\ req[c].id = id
                                  /\ users'[id] = req[c].account /\ token'[id] = req[c].hash
            \/ \E c \in Clients : /\ ReplaceToken(c) /\ req[c].id = id /\ users' = users
                                  /\ token'[id] = nextHash
            \/ token'[id] = 0
<1>1. users \in [Ids -> Account] /\ token \in [Ids -> 0..MaxHash]
  BY TypeParts DEF TypeInv, AccountTypes
<1>2. outdated \subseteq outdated'
  BY DEF Next, Register, Commit, UpdateProfile, Resend, ReadAccount, ReplaceToken,
    NotifyVerification, VerifyEmail, NotifyWelcome, Fail, DispatchOther, Report, Crash, Run, LoseLease,
    Operator, requests, accounts
<1>3. ASSUME NEW c \in Clients, Commit(c)
      PROVE  \/ token'[id] = token[id] /\ users'[id] = users[id]
             \/ req[c].id = id /\ users'[id] = req[c].account /\ token'[id] = req[c].hash
  BY <1>1, <1>3 DEF Commit
<1>4. ASSUME NEW c \in Clients, ReplaceToken(c)
      PROVE  \/ token'[id] = token[id] /\ users'[id] = users[id]
             \/ req[c].id = id /\ users' = users /\ token'[id] = nextHash
  BY <1>1, <1>4 DEF ReplaceToken
<1>5. ASSUME NEW c \in Clients, NEW j \in Jobs, VerifyEmail(c, j)
      PROVE  token'[id] = 0 \/ (token'[id] = token[id] /\ users'[id] = users[id])
  BY <1>1, <1>5 DEF VerifyEmail
<1>6. ASSUME NEW c \in Clients, NEW other \in Ids, NEW email \in Emails,
             UpdateProfile(c, other, email)
      PROVE  /\ token'[id] = token[id]
             /\ \/ VerifiedEmail(users'[id]) = VerifiedEmail(users[id])
                \/ token[id] = 0 \/ token[id] \in outdated'
  <2>1. PICK pending : /\ users' = [users EXCEPT ![other].pending = pending] /\ token' = token
                       /\ VerifiedEmail(users'[other]) # VerifiedEmail(users[other])
                            => outdated' = outdated \cup ({token[other]} \ {0})
    BY <1>6 DEF UpdateProfile, VerifiedEmail
  <2>2. CASE id = other
    BY <2>1, <2>2
  <2>3. CASE id # other
    BY <1>1, <2>1, <2>3
  <2> QED
    BY <2>2, <2>3
<1>7. ASSUME UNCHANGED <<users, token>> PROVE token'[id] = token[id] /\ users'[id] = users[id]
  BY <1>7
<1> QED
  BY <1>2, <1>3, <1>4, <1>5, <1>6, <1>7 DEF Next, Register, Resend, ReadAccount,
    NotifyVerification, NotifyWelcome, Fail, DispatchOther, Report, Crash, Run, LoseLease, Operator,
    requests, accounts

\* A request about to notify has just replaced the token, by its own.
LEMMA NewNotify ==
  ASSUME TypeInv, Next, NEW c \in Clients, req'[c].at = "notify", req'[c] # req[c]
  PROVE  /\ ReplaceToken(c)
         /\ req'[c] = Doing("notify", req[c].id, req[c].account, nextHash)
<1>1. req \in [Clients -> Request]
  BY TypeParts DEF TypeInv, RequestTypes
<1>2. ASSUME NEW d \in Clients, NEW r, req' = [req EXCEPT ![d] = r], r.at # "notify"
      PROVE  FALSE
  BY <1>1, <1>2
<1>3. \A at, id, account, hash : Doing(at, id, account, hash).at = at
  BY DEF Doing
<1>4. ASSUME NEW d \in Clients, NEW j \in Jobs, VerifyEmail(d, j) PROVE FALSE
  <2>1. PICK id, account : Begins(d, Doing("welcome", id, account, 0)) \/ Begins(d, Idle)
    BY <1>4 DEF VerifyEmail
  <2> QED
    BY <1>2, <1>3, <2>1, Constants DEF Begins
<1>5. ASSUME NEW d \in Clients, NEW email \in Emails, Register(d, email) PROVE FALSE
  <2>1. PICK r : req' = [req EXCEPT ![d] = r] /\ r \in {Doing("commit", nextUser, RowOf(email), nextHash), Idle}
    BY <1>5 DEF Register, Begins, RowOf
  <2> QED
    BY <1>2, <1>3, <2>1, Constants
<1>6. ASSUME NEW d \in Clients, NEW id \in Ids, Resend(d, id) PROVE FALSE
  BY <1>2, <1>3, <1>6 DEF Resend, Begins
<1>7. ASSUME NEW d \in Clients, NEW id \in Ids, NEW email \in Emails, UpdateProfile(d, id, email)
      PROVE  FALSE
  <2>1. req' = [req EXCEPT ![d] = Doing("read", id, Absent, 0)]
    BY <1>7 DEF UpdateProfile, Begins
  <2> QED
    BY <1>2, <1>3, <2>1
<1>8. ASSUME NEW d \in Clients,
             Commit(d) \/ NotifyVerification(d) \/ NotifyWelcome(d) \/ Fail(d)
      PROVE  FALSE
  <2>1. req' = [req EXCEPT ![d] = Idle]
    BY <1>8 DEF Commit, NotifyVerification, NotifyWelcome, Fail, Ends
  <2> QED
    BY <1>2, <2>1, Constants
<1>9. ASSUME NEW d \in Clients, ReadAccount(d) PROVE FALSE
  <2>1. PICK r : req' = [req EXCEPT ![d] = r] /\ r \in {Idle, Doing("replace", req[d].id, users[req[d].id], 0)}
    BY <1>9 DEF ReadAccount
  <2> QED
    BY <1>2, <1>3, <2>1, Constants
<1>10. ASSUME NEW d \in Clients, ReplaceToken(d)
       PROVE  d = c /\ req'[c] = Doing("notify", req[c].id, req[c].account, nextHash)
  BY <1>1, <1>10 DEF ReplaceToken
<1>11. ASSUME UNCHANGED req PROVE FALSE
  BY <1>11
<1> QED
  BY <1>4, <1>5, <1>6, <1>7, <1>8, <1>9, <1>10, <1>11 DEF Next, DispatchOther, Report, Crash,
    Run, LoseLease, Operator, requests

LEMMA StepIssued ==
  ASSUME TypeInv, Issued, Next
  PROVE  Issued'
<1>1. /\ req \in [Clients -> Request] /\ message \in [Jobs -> Message]
      /\ nextHash \in 1..(MaxHash + 1) /\ nextHash' \in Nat /\ nextHash <= nextHash'
  BY CountersGrow, TypeParts DEF TypeInv, RequestTypes, MessageTypes, AccountTypes
<1>2. ASSUME NEW c \in Clients, req'[c] # req[c]
      PROVE  req'[c].hash = 0 \/ (req'[c].hash = nextHash /\ nextHash' = nextHash + 1)
  <2>1. \A at, id, account : /\ Doing(at, id, account, 0).hash = 0
                             /\ Doing(at, id, account, nextHash).hash = nextHash
    BY DEF Doing
  <2>2. Idle.hash = 0
    BY <2>1 DEF Idle
  <2>3. ASSUME NEW d \in Clients, NEW r, req' = [req EXCEPT ![d] = r],
               r.hash = 0 \/ (r.hash = nextHash /\ nextHash' = nextHash + 1)
        PROVE  req'[c].hash = 0 \/ (req'[c].hash = nextHash /\ nextHash' = nextHash + 1)
    BY <1>1, <1>2, <2>3
  <2>4. ASSUME NEW d \in Clients, NEW j \in Jobs, VerifyEmail(d, j)
        PROVE  req'[c].hash = 0 \/ (req'[c].hash = nextHash /\ nextHash' = nextHash + 1)
    <3>1. PICK id, account : Begins(d, Doing("welcome", id, account, 0)) \/ Begins(d, Idle)
      BY <2>4 DEF VerifyEmail
    <3> QED
      BY <2>1, <2>2, <2>3, <3>1 DEF Begins
  <2>5. ASSUME NEW d \in Clients, NEW email \in Emails, Register(d, email)
        PROVE  req'[c].hash = 0 \/ (req'[c].hash = nextHash /\ nextHash' = nextHash + 1)
    <3>1. PICK r : req' = [req EXCEPT ![d] = r] /\ r \in {Doing("commit", nextUser, RowOf(email), nextHash), Idle}
      BY <2>5 DEF Register, Begins, RowOf
    <3>2. nextHash' = nextHash + 1
      BY <2>5 DEF Register
    <3> QED
      BY <2>1, <2>2, <2>3, <3>1, <3>2
  <2>6. ASSUME NEW d \in Clients, NEW id \in Ids, Resend(d, id)
        PROVE  req'[c].hash = 0 \/ (req'[c].hash = nextHash /\ nextHash' = nextHash + 1)
    BY <2>1, <2>3, <2>6 DEF Resend, Begins
  <2>7. ASSUME NEW d \in Clients, NEW id \in Ids, NEW email \in Emails, UpdateProfile(d, id, email)
        PROVE  req'[c].hash = 0 \/ (req'[c].hash = nextHash /\ nextHash' = nextHash + 1)
    <3>1. req' = [req EXCEPT ![d] = Doing("read", id, Absent, 0)]
      BY <2>7 DEF UpdateProfile, Begins
    <3> QED
      BY <2>1, <2>3, <3>1
  <2>8. ASSUME NEW d \in Clients,
               Commit(d) \/ NotifyVerification(d) \/ NotifyWelcome(d) \/ Fail(d)
        PROVE  req'[c].hash = 0 \/ (req'[c].hash = nextHash /\ nextHash' = nextHash + 1)
    BY <2>2, <2>3, <2>8 DEF Commit, NotifyVerification, NotifyWelcome, Fail, Ends
  <2>9. ASSUME NEW d \in Clients, ReadAccount(d)
        PROVE  req'[c].hash = 0 \/ (req'[c].hash = nextHash /\ nextHash' = nextHash + 1)
    <3>1. PICK r : req' = [req EXCEPT ![d] = r] /\ r \in {Idle, Doing("replace", req[d].id, users[req[d].id], 0)}
      BY <2>9 DEF ReadAccount
    <3> QED
      BY <2>1, <2>2, <2>3, <3>1
  <2>10. ASSUME NEW d \in Clients, ReplaceToken(d)
         PROVE  req'[c].hash = 0 \/ (req'[c].hash = nextHash /\ nextHash' = nextHash + 1)
    BY <2>1, <2>3, <2>10 DEF ReplaceToken
  <2>11. ASSUME UNCHANGED req PROVE FALSE
    BY <1>2, <2>11
  <2> QED
    BY <2>4, <2>5, <2>6, <2>7, <2>8, <2>9, <2>10, <2>11 DEF Next, DispatchOther, Report, Crash,
      Run, LoseLease, Operator, requests
<1>3. ASSUME NEW c \in Clients PROVE req'[c].hash < nextHash'
  <2>1. req[c].hash \in Nat /\ req[c].hash < nextHash
    BY <1>1 DEF Request, Issued
  <2>2. CASE req'[c] = req[c]
    BY <1>1, <2>1, <2>2
  <2>3. CASE req'[c] # req[c]
    BY <1>1, <1>2, <2>3
  <2> QED
    BY <2>2, <2>3
<1>4. ASSUME NEW j \in Jobs PROVE message'[j].hash < nextHash'
  <2>1. message[j].hash \in Nat /\ message[j].hash < nextHash
    BY <1>1 DEF Message, Issued
  <2>2. \A c \in Clients : req[c].hash \in Nat /\ req[c].hash < nextHash
    BY <1>1 DEF Request, Issued
  <2>3. CASE message'[j] = message[j]
    BY <1>1, <2>1, <2>3
  <2>4. CASE message'[j] # message[j]
    <3>1. \A id, account, hash : Verification(id, account, hash).hash = hash
      BY DEF Verification
    <3>2. \A c \in Clients, email \in Emails : Register(c, email) => nextHash' = nextHash + 1
      BY DEF Register
    <3>3. PICK hash \in Nat : message'[j].hash = hash
            /\ (hash < nextHash \/ (nextHash' = nextHash + 1 /\ hash = nextHash) \/ hash = 0)
      BY <1>1, <2>1, <2>2, <2>4, <3>1, <3>2, NewMessage
    <3> QED
      BY <1>1, <3>3
  <2> QED
    BY <2>3, <2>4
<1> QED
  BY <1>3, <1>4 DEF Issued

LEMMA StepBound ==
  ASSUME AddressInv, Next
  PROVE  Bound'
<1> USE DEF AddressInv
<1>1. /\ \A user, account, hash :
           LET m == Verification(user, account, hash)
           IN /\ m.kind = "verification" /\ m.user = user /\ m.hash = hash
              /\ m.to = VerifiedEmail(account)
      /\ nextHash \in 1..(MaxHash + 1) /\ \A id \in Ids : token[id] \in Nat
  BY TypeParts DEF Verification, Recipient, VerifiedEmail, TypeInv, AccountTypes
<1> SUFFICES ASSUME NEW j \in Jobs, message'[j].kind = "verification",
                    NEW id \in Ids, id = message'[j].user, token'[id] = message'[j].hash,
                    token'[id] \notin outdated'
             PROVE  message'[j].to = VerifiedEmail(users'[id])
  BY DEF Bound, VerifiedEmail
<1>2. CASE message'[j] = message[j]
  <2>1. message[j].hash # 0 /\ message[j].hash # nextHash
    BY <1>1, <1>2, TypeParts DEF TypeInv, Linked, Issued, MessageTypes, Message
  <2>2. outdated \subseteq outdated'
    BY RowEffect
  <2>3. ASSUME token'[id] = token[id], VerifiedEmail(users'[id]) = VerifiedEmail(users[id])
               \/ token[id] = 0 \/ token[id] \in outdated'
        PROVE  message'[j].to = VerifiedEmail(users'[id])
    BY <1>2, <2>1, <2>2, <2>3 DEF Bound
  <2>4. ASSUME NEW c \in Clients, Commit(c), req[c].id = id, users'[id] = req[c].account
        PROVE  message'[j].to = VerifiedEmail(users'[id])
    BY <1>2, <2>4 DEF CommitBound, Commit
  <2> QED
    BY <1>2, <2>1, <2>3, <2>4, RowEffect
<1>3. CASE message'[j] # message[j]
  <2>1. ASSUME NEW c \in Clients, NEW email \in Emails, Register(c, email),
               message'[j] = Verification(nextUser, RowOf(email), nextHash)
        PROVE  FALSE
    <3>1. token[id] = nextHash /\ id = nextUser
      BY <1>1, <2>1 DEF Register, accounts
    <3>2. token[id] > 0
      BY <1>1, <3>1
    <3>3. Exists(id)
      BY <3>2 DEF TypeInv, Addressed
    <3> QED
      BY <3>1, <3>3, CountersGrow DEF Reserved
  <2>2. ASSUME NEW c \in Clients, NotifyVerification(c),
               message'[j] = Verification(req[c].id, req[c].account, req[c].hash)
        PROVE  message'[j].to = VerifiedEmail(users'[id])
    <3>1. UNCHANGED <<users, token, outdated>> /\ req[c].at = "notify"
      BY <2>2 DEF NotifyVerification, accounts
    <3>2. id = req[c].id /\ token[id] = req[c].hash /\ message'[j].to = VerifiedEmail(req[c].account)
      BY <1>1, <2>2, <3>1
    <3> QED
      BY <3>1, <3>2 DEF NotifyBound
  <2> QED
    BY <1>3, <2>1, <2>2, NewMessage
<1> QED
  BY <1>2, <1>3

LEMMA StepCommitBound ==
  ASSUME AddressInv, Next
  PROVE  CommitBound'
<1> USE DEF AddressInv
<1>1. \A user, account, hash :
        LET m == Verification(user, account, hash)
        IN m.kind = "verification" /\ m.user = user /\ m.to = VerifiedEmail(account)
  BY DEF Verification, Recipient, VerifiedEmail
<1> SUFFICES ASSUME NEW c \in Clients, req'[c].at = "commit",
                    NEW j \in Jobs, message'[j].kind = "verification",
                    message'[j].user = req'[c].id
             PROVE  message'[j].to = VerifiedEmail(req'[c].account)
  BY DEF CommitBound, VerifiedEmail
<1>2. CASE req'[c] = req[c] /\ message'[j] = message[j]
  BY <1>2 DEF CommitBound
<1>3. CASE req'[c] = req[c] /\ message'[j] # message[j]
  <2>1. nextUser \in Nat /\ req[c].id < nextUser /\ ~Exists(req[c].id)
    BY <1>3, CountersGrow DEF Reserved
  <2>2. \A d \in Clients : NotifyVerification(d) => Exists(req[d].id)
    BY DEF NotifyVerification, TypeInv, Begun
  <2> QED
    BY <1>1, <1>3, <2>1, <2>2, NewMessage
<1>4. ASSUME NEW email \in Emails, Registered(c, email)
      PROVE  message'[j].to = VerifiedEmail(req'[c].account)
  <2> DEFINE m == Verification(nextUser, RowOf(email), nextHash)
  <2>1. req'[c].id = nextUser /\ req'[c].account = RowOf(email)
    BY <1>4, TypeParts DEF Registered, Doing, TypeInv, RequestTypes
  <2>2. PICK i \in Jobs : message' = [message EXCEPT ![i] = m]
    BY <1>4 DEF Registered
  <2>3. CASE i = j
    BY <1>1, <2>1, <2>2, <2>3, TypeParts DEF TypeInv, MessageTypes
  <2>4. CASE i # j
    <3>1. message[j].user = nextUser /\ nextUser \in Nat
      BY <2>1, <2>2, <2>4, CountersGrow, TypeParts DEF TypeInv, MessageTypes
    <3> QED
      BY <3>1 DEF Reserved
  <2> QED
    BY <2>3, <2>4
<1> QED
  BY <1>2, <1>3, <1>4, NewCommit

LEMMA StepNotifyBound ==
  ASSUME AddressInv, Next
  PROVE  NotifyBound'
<1> USE DEF AddressInv
<1> SUFFICES ASSUME NEW c \in Clients, req'[c].at = "notify",
                    NEW id \in Ids, id = req'[c].id, token'[id] = req'[c].hash,
                    token'[id] \notin outdated'
             PROVE  VerifiedEmail(req'[c].account) = VerifiedEmail(users'[id])
  BY DEF NotifyBound, VerifiedEmail
<1>1. CASE req'[c] = req[c]
  <2>1. /\ req[c].hash # 0 /\ req[c].hash # nextHash
        /\ req[c].at = "notify" /\ req[c].id = id /\ Exists(id)
    BY <1>1, TypeParts DEF TypeInv, Begun, Issued, RequestTypes, Request
  <2>2. outdated \subseteq outdated'
    BY RowEffect
  <2>3. ASSUME token'[id] = token[id], VerifiedEmail(users'[id]) = VerifiedEmail(users[id])
               \/ token[id] = 0 \/ token[id] \in outdated'
        PROVE  VerifiedEmail(req'[c].account) = VerifiedEmail(users'[id])
    BY <1>1, <2>1, <2>2, <2>3 DEF NotifyBound
  <2>4. ASSUME NEW d \in Clients, Commit(d), req[d].id = id PROVE FALSE
    BY <2>1, <2>4 DEF Reserved, Commit
  <2> QED
    BY <1>1, <2>1, <2>3, <2>4, RowEffect
<1>2. CASE req'[c] # req[c]
  <2>1. ReplaceToken(c) /\ req'[c] = Doing("notify", req[c].id, req[c].account, nextHash)
    BY <1>2, NewNotify
  <2>2. req'[c].id = req[c].id /\ req'[c].account = req[c].account /\ req'[c].hash = nextHash
    BY <2>1 DEF Doing
  <2>3. users' = users /\ (VerifiedEmail(req[c].account) # VerifiedEmail(users[id])
                             => nextHash \in outdated')
    BY <2>1, <2>2 DEF ReplaceToken
  <2> QED
    BY <2>2, <2>3
<1> QED
  BY <1>1, <1>2

LEMMA StepAddress == AddressInv /\ [Next]_vars => AddressInv'
<1>1. ASSUME AddressInv, Next PROVE AddressInv'
  BY <1>1, StepTypes, StepReserved, StepIssued, StepBound, StepCommitBound, StepNotifyBound
    DEF AddressInv
<1>2. ASSUME AddressInv, UNCHANGED vars PROVE AddressInv'
  <2>1. TypeInv'
    BY <1>2, StepTypes DEF AddressInv
  <2>2. UNCHANGED <<users, token, outdated, req, message, nextUser, nextHash>>
    BY <1>2 DEF vars, accounts, counters
  <2> QED
    BY <1>2, <2>1, <2>2 DEF AddressInv, Reserved, Exists, Issued, Bound, CommitBound, NotifyBound,
      VerifiedEmail
<1> QED
  BY <1>1, <1>2

\* The last link of the argument: only a followed link makes an address verified.
LEMMA Activation ==
  ASSUME AddressInv, Next, NEW id \in Ids, users'[id].verified,
         ~users[id].verified \/ users'[id].email # users[id].email
  PROVE  \/ token[id] \in outdated
         \/ \E j \in inbox : message[j].hash = token[id] /\ message[j].to = users'[id].email
<1>1. users \in [Ids -> Account]
  BY TypeParts DEF AddressInv, TypeInv, AccountTypes
<1>2. ASSUME NEW c \in Clients, Commit(c) PROVE FALSE
  <2>1. ~req[c].account.verified
    BY <1>2 DEF Commit, AddressInv, TypeInv, Begun
  <2> QED
    BY <1>1, <1>2, <2>1 DEF Commit
<1>3. ASSUME NEW c \in Clients, NEW other \in Ids, NEW email \in Emails,
             UpdateProfile(c, other, email)
      PROVE  FALSE
  <2>1. PICK pending : users' = [users EXCEPT ![other].pending = pending]
    BY <1>3 DEF UpdateProfile
  <2>2. users'[id].verified = users[id].verified /\ users'[id].email = users[id].email
    BY <1>1, <2>1 DEF Account
  <2> QED
    BY <2>2
<1>4. ASSUME NEW c \in Clients, NEW j \in Jobs, VerifyEmail(c, j)
      PROVE  \/ token[id] \in outdated
             \/ message[j].hash = token[id] /\ message[j].to = users'[id].email /\ j \in inbox
  <2>1. message[j].user = id
    BY <1>1, <1>4 DEF VerifyEmail
  <2>2. users'[id].email = VerifiedEmail(users[id])
    BY <1>1, <1>4, <2>1 DEF VerifyEmail
  <2>3. message[j].kind = "verification" /\ token[id] = message[j].hash /\ j \in inbox
    BY <1>4, <2>1 DEF VerifyEmail
  <2> QED
    BY <2>1, <2>2, <2>3 DEF AddressInv, Bound
<1>5. ASSUME UNCHANGED users PROVE FALSE
  BY <1>5
<1> QED
  BY <1>2, <1>3, <1>4, <1>5 DEF Next, Register, Resend, ReadAccount, ReplaceToken,
    NotifyVerification, NotifyWelcome, Fail, DispatchOther, Report, Crash, Run, LoseLease,
    Operator, requests, accounts

\* With any number of users, requests and messages in flight: an address becomes
\* verified only by a link that went to it, or by a token outdated by then.
THEOREM OnlyProvenAddresses == Spec => AddressProven
<1>1. Init => AddressInv
  <2>1. Init => TypeInv
    BY InitTypes
  <2> QED
    BY <2>1, Constants DEF Init, AddressInv, Reserved, Issued, Bound, CommitBound, NotifyBound,
      Exists, NoMessage, Idle, Doing
<1>2. AddressInv /\ [Next]_vars =>
        [\A id \in Ids :
           users'[id].verified /\ (~users[id].verified \/ users'[id].email # users[id].email)
           => \/ token[id] \in outdated
              \/ \E j \in inbox : message[j].hash = token[id] /\ message[j].to = users'[id].email]_vars
  BY Activation
<1> QED
  BY <1>1, <1>2, StepAddress, PTL DEF Spec, AddressProven
=============================================================================
