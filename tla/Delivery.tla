------------------------------- MODULE Delivery -------------------------------
(***************************************************************************)
(* From a request to an inbox: the services that issue verification tokens *)
(* and welcome messages, the notifiers and the mailer that put them on the *)
(* queue, the worker's mail handler, SMTP, and the operator who decides    *)
(* about failed messages.  The queue is the one JobLifecycle promises and  *)
(* JobQueue is checked to implement; accounts have only what messages      *)
(* depend on, Identity has the rest.                                       *)
(***************************************************************************)
EXTENDS QueueCommand

CONSTANTS
  Clients, Emails, NoEmail,
  MaxUsers,  \* bound on user ids
  MaxHash    \* bound on verification tokens

ASSUME DeliveryAssumption ==
  NoEmail \notin Emails /\ {"default", "maintenance", "mail"} \subseteq Queues /\ Nobody \notin Workers
ASSUME BoundAssumption == MaxJobs \in Nat /\ MaxUsers \in Nat /\ MaxHash \in Nat

VARIABLES
  users,    \* committed rows, by id
  token,    \* hash of the stored verification token of each user, 0 for none
  req,      \* what the request of a client has read and will do next
  message,  \* payload of each job
  handler,  \* the job each worker runs, and what came of it
  inbox,    \* jobs whose message reached its address
  nextUser, nextHash,
  outdated  \* history: tokens that do not go to the address they will activate

accounts == <<users, token, outdated>>
counters == <<nextUser, nextHash>>
vars == <<lifecycleVars, commandVars, accounts, counters, req, message, handler, inbox>>

Ids == 1..MaxUsers
Absent == [verified |-> FALSE, email |-> NoEmail, pending |-> NoEmail]
Doing(at, id, account, hash) == [at |-> at, id |-> id, account |-> account, hash |-> hash]
Idle == Doing("idle", 0, Absent, 0)
NoMessage == [kind |-> "none", user |-> 0, hash |-> 0, to |-> NoEmail]
NoTask == [job |-> 0, result |-> "none"]

-----------------------------------------------------------------------------
Exists(id) == users[id] # Absent
Settled(account) == account.verified /\ account.pending = NoEmail

\* Faulty: without a look at whether an address is pending.
PendingEmail(account) == account.pending

\* The address a verification makes the active one.
VerifiedEmail(account) ==
  IF account.pending # NoEmail THEN account.pending ELSE account.email

\* Faulty: to the address of the account, whatever is pending.
ActiveEmail(account) == account.email

\* The copy of the account sendVerification hands to the notifier.
Recipient(account) == IF account.pending # NoEmail THEN account.pending ELSE account.email

\* Faulty: the notifier logs the error and returns nil.
LoggedOnly(queued) == TRUE

\* NotifyVerification succeeds if the message was rendered and queued.
Notified(queued) == queued

\* Faulty: also when a pending address is verified.
EveryVerification(account) == TRUE

FirstVerification(account) == ~account.verified

\* Bound: the commands that go through the queues, and jobs other than mail,
\* run in behaviours of their own.  To the command a job is a job; one failed
\* message may be retried or deleted in all of them.
NoMail == nextUser = 1
OnlyMail == cmd = NoCommand /\ \A j \in Jobs : queue[j] \in {"mail", NoQueue}

Claimed(email) ==
  \/ \E id \in Ids : email \in {users[id].email, users[id].pending}
  \/ \E c \in Clients : req[c].at = "commit" /\ req[c].account.email = email

\* A recipient that parses as an address; subject and content are always there.
Valid(m) == m.to \in Emails

DispatchMessage(m) ==
  \E j \in Jobs : Enqueue(j, "mail") /\ message' = [message EXCEPT ![j] = m]

\* Mailer.Queue, without options.
Queue(m) == Valid(m) /\ DispatchMessage(m)

Verification(id, account, hash) ==
  [kind |-> "verification", user |-> id, hash |-> hash, to |-> Recipient(account)]

NotQueued == UNCHANGED <<lifecycleVars, queue, message>>
Quiet == NotQueued /\ UNCHANGED <<cmd, handler, inbox>>

-----------------------------------------------------------------------------
Init ==
  /\ LifecycleInit /\ CommandInit
  /\ users = [id \in Ids |-> Absent] /\ token = [id \in Ids |-> 0]
  /\ req = [c \in Clients |-> Idle] /\ message = [j \in Jobs |-> NoMessage]
  /\ handler = [w \in Workers |-> NoTask] /\ inbox = {} /\ outdated = {}
  /\ nextUser = 1 /\ nextHash = 1

Begins(c, r) == req[c] = Idle /\ req' = [req EXCEPT ![c] = r]
Ends(c) == req' = [req EXCEPT ![c] = Idle]

\* The user and the token are inserted, then the message is queued on another
\* connection, and only then the transaction commits.
Register(c, email) ==
  LET account == [verified |-> FALSE, email |-> email, pending |-> NoEmail]
  IN /\ OnlyMail /\ ~Claimed(email) /\ nextUser \in Ids /\ nextHash <= MaxHash
     /\ nextUser' = nextUser + 1 /\ nextHash' = nextHash + 1
     /\ \E queued \in BOOLEAN :
          /\ IF queued THEN Queue(Verification(nextUser, account, nextHash)) ELSE NotQueued
          /\ Begins(c, IF Notified(queued)
                       THEN Doing("commit", nextUser, account, nextHash) ELSE Idle)
     /\ UNCHANGED <<accounts, cmd, handler, inbox>>

Commit(c) ==
  /\ req[c].at = "commit" /\ Ends(c)
  /\ users' = [users EXCEPT ![req[c].id] = req[c].account]
  /\ token' = [token EXCEPT ![req[c].id] = req[c].hash]
  /\ UNCHANGED <<outdated, counters>> /\ Quiet

\* By the user or an admin, with a new address or the active one again; then
\* SendVerificationForUser.
UpdateProfile(c, id, email) ==
  /\ Exists(id)
  /\ email = users[id].email \/ users[id].pending = email \/ ~Claimed(email)
  /\ users' = [users EXCEPT ![id].pending =
       IF email = users[id].email THEN NoEmail ELSE email]
  /\ outdated' = IF VerifiedEmail(users[id]') # VerifiedEmail(users[id])
                 THEN outdated \cup ({token[id]} \ {0}) ELSE outdated
  /\ Begins(c, Doing("read", id, Absent, 0))
  /\ UNCHANGED <<token, counters>> /\ Quiet

\* ResendVerification reads the account by an address of it.
Resend(c, id) ==
  /\ Exists(id) /\ Begins(c, Doing("read", id, Absent, 0))
  /\ UNCHANGED <<accounts, counters>> /\ Quiet

ReadAccount(c) ==
  LET id == req[c].id
  IN /\ req[c].at = "read"
     /\ req' = [req EXCEPT ![c] = IF Settled(users[id]) THEN Idle
          ELSE Doing("replace", id, users[id], 0)]
     /\ UNCHANGED <<accounts, counters>> /\ Quiet

\* The rate check let the request through; otherwise it fails.
ReplaceToken(c) ==
  LET id == req[c].id
  IN /\ req[c].at = "replace" /\ nextHash <= MaxHash /\ nextHash' = nextHash + 1
     /\ token' = [token EXCEPT ![id] = nextHash]
     /\ outdated' = IF VerifiedEmail(req[c].account) # VerifiedEmail(users[id])
                    THEN outdated \cup {nextHash} ELSE outdated
     /\ req' = [req EXCEPT ![c] = Doing("notify", id, req[c].account, nextHash)]
     /\ UNCHANGED <<users, nextUser>> /\ Quiet

NotifyVerification(c) ==
  /\ req[c].at = "notify" /\ Ends(c)
  /\ Queue(Verification(req[c].id, req[c].account, req[c].hash))
  /\ UNCHANGED <<accounts, counters, cmd, handler, inbox>>

\* A reader of the inbox follows the link.
VerifyEmail(c, j) ==
  LET id == message[j].user
      verified == [verified |-> TRUE, email |-> VerifiedEmail(users[id]),
                   pending |-> NoEmail]
  IN /\ j \in inbox /\ message[j].kind = "verification" /\ token[id] = message[j].hash
     /\ \A other \in Ids \ {id} : users[other].email # verified.email
     /\ users' = [users EXCEPT ![id] = verified]
     /\ token' = [token EXCEPT ![id] = 0]
     /\ Begins(c, IF FirstVerification(users[id])
                  THEN Doing("welcome", id, verified, 0) ELSE Idle)
     /\ UNCHANGED <<outdated, counters>> /\ Quiet

NotifyWelcome(c) ==
  /\ req[c].at = "welcome" /\ Ends(c)
  /\ Queue([kind |-> "welcome", user |-> req[c].id, hash |-> 0,
            to |-> req[c].account.email])
  /\ UNCHANGED <<accounts, counters, cmd, handler, inbox>>

\* An error, a rollback, a client gone, the server stopped; a lost welcome.
Fail(c) ==
  /\ req[c] # Idle /\ Ends(c)
  /\ UNCHANGED <<accounts, counters>> /\ Quiet

\* queue dispatch-demo; the scheduler's cleanup of refresh tokens.
DispatchOther(name) ==
  /\ NoMail /\ name \in {"default", "maintenance"}
  /\ \E j \in Jobs :
       Enqueue(j, name) /\ message' = [message EXCEPT ![j].kind = "other"]
  /\ UNCHANGED <<accounts, counters, req, cmd, handler, inbox>>

-----------------------------------------------------------------------------
(* The worker.                                                             *)

requests == <<accounts, counters, req, message>>

\* The lease ends and another process reserves the job, but dies.
LoseLease(j) ==
  /\ owner[j] # Nobody /\ Take(j, Nobody)
  /\ UNCHANGED <<requests, commandVars, handler, inbox>>

\* Faulty: without a transport the message counts as sent.
SendOrSkip(j, result) == result = "ok" /\ inbox' \in {inbox, inbox \cup {j}}

\* SMTP takes the message and says so; or it refuses; or its answer is lost.
Send(j, result) ==
  \/ result = "ok" /\ inbox' = inbox \cup {j}
  \/ result = "error" /\ inbox' \in {inbox, inbox \cup {j}}

\* From the reservation to the handler's return.
Run(w, j) ==
  /\ handler[w] = NoTask /\ Take(j, w)
  /\ \E result \in {"ok", "error"} :
       /\ handler' = [handler EXCEPT ![w] = [job |-> j, result |-> result]]
       /\ IF queue[j] = "mail" THEN Send(j, result) ELSE UNCHANGED inbox
  /\ UNCHANGED <<requests, commandVars>>

\* A result counts only while the job is still the worker's.
Report(w) ==
  LET j == handler[w].job
  IN /\ handler[w] # NoTask
     /\ \/ handler[w].result = "ok" /\ Settle(j, w, "done")
        \/ handler[w].result = "error" /\ (Settle(j, w, "waiting") \/ Settle(j, w, "failed"))
        \/ owner[j] # w /\ UNCHANGED lifecycleVars
     /\ handler' = [handler EXCEPT ![w] = NoTask]
     /\ UNCHANGED <<requests, commandVars, inbox>>

\* The process dies, or its result cannot be stored.
Crash(w) ==
  /\ handler[w] # NoTask
  /\ Abandon({j \in Jobs : owner[j] = w})
  /\ handler' = [handler EXCEPT ![w] = NoTask]
  /\ UNCHANGED <<requests, commandVars, inbox>>

Operator ==
  /\ CommandNext /\ (cmd' # NoCommand => NoMail)
  /\ UNCHANGED <<requests, handler, inbox>>

Next ==
  \/ \E c \in Clients :
       \/ \E email \in Emails :
            Register(c, email) \/ \E id \in Ids : UpdateProfile(c, id, email)
       \/ \E id \in Ids : Resend(c, id)
       \/ \E j \in Jobs : VerifyEmail(c, j)
       \/ Commit(c) \/ ReadAccount(c) \/ ReplaceToken(c) \/ NotifyVerification(c)
       \/ NotifyWelcome(c) \/ Fail(c)
  \/ \E name \in Queues : DispatchOther(name)
  \/ \E w \in Workers : Report(w) \/ Crash(w) \/ \E j \in Jobs : Run(w, j)
  \/ \E j \in Jobs : LoseLease(j)
  \/ Operator

Spec == Init /\ [][Next]_vars
-----------------------------------------------------------------------------
(* Properties.                                                             *)

Account == [verified : BOOLEAN, email : Emails \cup {NoEmail}, pending : Emails \cup {NoEmail}]

\* Types, and: verified users and verification messages have an address.
TypeOK ==
  /\ LifecycleTypeOK /\ CommandTypeOK
  /\ users \in [Ids -> Account]
  /\ \A id \in Ids : users[id].verified => users[id].email # NoEmail
  /\ \A j \in Jobs : message[j].kind = "verification" => message[j].to # NoEmail
  /\ token \in [Ids -> 0..MaxHash] /\ outdated \subseteq 1..MaxHash
  /\ req \in [Clients -> [at : {"idle", "commit", "read", "replace", "notify", "welcome"},
                          id : 0..MaxUsers, account : Account, hash : 0..MaxHash]]
  /\ message \in [Jobs -> [kind : {"none", "verification", "welcome", "other"},
                           user : 0..MaxUsers, hash : 0..MaxHash, to : Emails \cup {NoEmail}]]
  /\ handler \in [Workers -> [job : 0..MaxJobs, result : {"none", "ok", "error"}]]
  /\ inbox \subseteq Jobs /\ nextUser \in 1..(MaxUsers + 1) /\ nextHash \in 1..(MaxHash + 1)

Sent(kind, id) == {j \in Jobs : message[j].kind = kind /\ message[j].user = id}

\* No registration commits a user whose verification message the queue has not
\* taken (ADR 0002), whichever of dispatch, commit and delivery fails.
RegisteredIsNotified == \A id \in Ids : Exists(id) => Sent("verification", id) # {}

\* A message that counts as delivered did reach its address: a job is done
\* only after its send succeeded, also when its lease was lost and it ran twice.
DoneMeansDelivered ==
  \A j \in Jobs : state[j] = "done" /\ queue[j] = "mail" => j \in inbox

\* The one welcome message of a user follows the commit of the first
\* verification; retried sends may deliver that one message again, no more.
WelcomeAfterVerification ==
  \A id \in Ids :
    LET asked == {c \in Clients : req[c].at = "welcome" /\ req[c].id = id}
        sent == Sent("welcome", id)
    IN /\ asked \cup sent # {} => users[id].verified
       /\ \A i, j \in sent : i = j
       /\ sent # {} => asked = {}

\* An address becomes a user's verified one only by a link that went to that
\* address, unless the pending address changed since the message's account was
\* read: a token does not say which address it is for.
AddressProven ==
  [][\A id \in Ids :
       users'[id].verified /\ (~users[id].verified \/ users'[id].email # users[id].email)
       => \/ token[id] \in outdated
          \/ \E j \in inbox : message[j].hash = token[id] /\ message[j].to = users'[id].email]_vars
===============================================================================
