------------------------------ MODULE Accounts ------------------------------
(***************************************************************************)
(* How accounts begin and end: registration by mail, sign-in with Google   *)
(* or Apple, the refresh tokens Apple grants, and the worker that revokes  *)
(* them at Apple once their account is deleted.                            *)
(*                                                                         *)
(* As in Participation, a request is a record in req, a step is one        *)
(* statement or several that no other request can tell apart, and the      *)
(* locks a transaction holds are read off its pc. Apple and the mail       *)
(* provider are external: a grant, a revocation, a mail that arrives.      *)
(* Sessions begin where a sign-in ends here.                               *)
(***************************************************************************)
EXTENDS Integers, FiniteSets

CONSTANTS
    Emails,                 \* addresses, normalised
    Subjects,               \* oauth_identities: provider and provider_subject
    Apple,                  \* those of the provider "apple"
    Verified,               \* verified addresses a provider may assert, or None
    Clients,                \* Apple client ids: the app and the web service
    Requests,               \* requests that may be in flight together
    Workers,                \* instances running apple::start_worker
    Legacy,                 \* addresses pending since before migration 010
    MaxAccounts,            \* bound on users.id
    MaxTokens,              \* bound on the verification tokens per address
    MaxGrants,              \* bound on the refresh tokens Apple grants
    RefreshDuringDeletion,  \* TRUE when a client may refresh its Apple
                            \* credential while its account is being deleted
    None                    \* SQL NULL, or no row

Ids    == 1..MaxAccounts
Tokens == 1..MaxTokens      \* a token is its address and its number there
Grants == 1..MaxGrants
Lacking == 0                \* no refresh token

ASSUME AccountsAssumption ==
    /\ Apple \subseteq Subjects
    /\ Verified \in [Subjects -> SUBSET (Emails \cup {None})]
    /\ Legacy \subseteq Emails
    /\ MaxAccounts \in Nat
    /\ MaxTokens \in Nat \ {0}
    /\ MaxGrants \in Nat
    /\ RefreshDuringDeletion \in BOOLEAN
    /\ None \notin Emails \cup Subjects \cup Ids

VARIABLES
    users,       \* address of each users row, None without a row
    minted,      \* ids the users sequence has handed out
    pending,     \* pending_registrations row of each address
    issued,      \* verification tokens drawn for each address
    mailed,      \* tokens that arrived in each mailbox
    opened,      \* history: accounts each token has opened
    identity,    \* oauth_identities.user_id of each subject
    credential,  \* apple_credentials of each user and client
    stored,      \* history: refresh tokens that were ever stored
    replaced,    \* history: those a later token of the same row replaced
    grants,      \* refresh tokens Apple has granted
    revoked,     \* external: those Apple has revoked
    job,         \* apple_revocations row of each refresh token
    req,         \* the requests in flight
    worker       \* what each instance's revocation worker has in hand

registrationVars == <<pending, issued, mailed, opened>>
userVars  == <<users, minted, identity>>
appleVars == <<credential, stored, replaced, grants>>
jobVars   == <<revoked, job, worker>>
vars == <<registrationVars, userVars, appleVars, jobVars, req>>

-----------------------------------------------------------------------------
NoRow == [number |-> 0, live |-> FALSE, resendable |-> FALSE]

\* live: verification_expires_at has not passed; resendable: the token's
\* ciphertext is stored.
PendingRow == [number : Tokens, live : BOOLEAN, resendable : BOOLEAN]

PCs == {"idle", "register", "mail", "complete", "find", "link", "clear",
        "resolve", "exchange", "store", "delete", "copied"}

Request ==
    [pc      : PCs,
     email   : Emails \cup {None},
     number  : 0..MaxTokens,
     subject : Subjects \cup {None},
     user    : Ids \cup {None},
     client  : Clients \cup {None},
     grant   : 0..MaxGrants,
     queue   : SUBSET Grants]       \* apple_revocations, not yet committed

Idle == [pc |-> "idle", email |-> None, number |-> 0, subject |-> None,
         user |-> None, client |-> None, grant |-> Lacking, queue |-> {}]

\* A revocation worker: the row it holds FOR UPDATE and Apple's answer.
Task == [grant : 0..MaxGrants, answer : {"none", "success", "failure"}]
Resting == [grant |-> Lacking, answer |-> "none"]

TypeOK ==
    /\ users \in [Ids -> Emails \cup {None}]
    /\ minted \in 0..MaxAccounts
    /\ pending \in [Emails -> PendingRow \cup {NoRow}]
    /\ issued \in [Emails -> 0..MaxTokens]
    /\ mailed \in [Emails -> SUBSET Tokens]
    /\ opened \in [Emails -> [Tokens -> Nat]]
    /\ identity \in [Subjects -> Ids \cup {None}]
    /\ credential \in [Ids -> [Clients -> 0..MaxGrants]]
    /\ stored \subseteq Grants
    /\ replaced \subseteq Grants
    /\ grants \in 0..MaxGrants
    /\ revoked \subseteq Grants
    /\ job \in [Grants -> {"none", "due", "waiting"}]
    /\ req \in [Requests -> Request]
    /\ worker \in [Workers -> Task]

Init ==
    /\ users = [u \in Ids |-> None]
    /\ minted = 0
    /\ pending = [e \in Emails |->
            IF e \in Legacy
            THEN [number |-> 1, live |-> TRUE, resendable |-> FALSE]
            ELSE NoRow]
    /\ issued = [e \in Emails |-> IF e \in Legacy THEN 1 ELSE 0]
    /\ mailed = [e \in Emails |-> IF e \in Legacy THEN {1} ELSE {}]
    /\ opened = [e \in Emails |-> [n \in Tokens |-> 0]]
    /\ identity = [s \in Subjects |-> None]
    /\ credential = [u \in Ids |-> [c \in Clients |-> Lacking]]
    /\ stored = {}
    /\ replaced = {}
    /\ grants = 0
    /\ revoked = {}
    /\ job = [g \in Grants |-> "none"]
    /\ req = [r \in Requests |-> Idle]
    /\ worker = [w \in Workers |-> Resting]

-----------------------------------------------------------------------------
\* Committed rows, and the locks that requests hold.

Owns(u, e)    == users[u] = e
HasAccount(e) == \E u \in Ids : Owns(u, e)
HasApple(u)   == \E s \in Apple : identity[s] = u
Credentials(u) == {credential[u][c] : c \in Clients} \ {Lacking}

\* The row of a token, found by its hash.
Carries(e, n) == pending[e] # NoRow /\ pending[e].number = n
Expired(e)    == pending[e] # NoRow /\ ~pending[e].live

\* Mutant: complete_registration reads its row without FOR UPDATE.
PendingNeverHeld(e) == TRUE

\* complete_registration holds its row FOR UPDATE until it commits.
PendingFree(e) == \A r \in Requests : ~(req[r].pc = "complete" /\ req[r].email = e)

\* delete_account holds the users row FOR UPDATE until it commits.
Deleting(r, u) == req[r].pc \in {"delete", "copied"} /\ req[r].user = u
UserFree(u)    == \A r \in Requests : ~Deleting(r, u)

\* Mutant: delete_account reads the users row without FOR UPDATE, so that the
\* foreign keys of other statements do not wait for it.
MayReferenceUnlocked(u) == users[u] # None

\* An INSERT that references users: the row is there, and not locked.
MayReference(u) == users[u] # None /\ UserFree(u)

Step(r, next)  == req' = [req EXCEPT ![r] = next]
At(r, pc)      == req[r].pc = pc
End(r)         == Step(r, Idle)

\* A users row: the address is unique, so that the INSERT fails when taken.
InsertUser(e) ==
    /\ ~HasAccount(e)
    /\ minted < MaxAccounts
    /\ minted' = minted + 1
    /\ users' = [users EXCEPT ![minted + 1] = e]

-----------------------------------------------------------------------------
\* Registration.

\* register: cleanup_expired_pending_registrations, then the lookup of an
\* account. The DELETE waits for rows that are locked.
StartRegister(r, e) ==
    /\ At(r, "idle")
    /\ \A f \in Emails : Expired(f) => PendingFree(f)
    /\ pending' = [f \in Emails |-> IF Expired(f) THEN NoRow ELSE pending[f]]
    /\ IF HasAccount(e) THEN UNCHANGED req
       ELSE Step(r, [Idle EXCEPT !.pc = "register", !.email = e])
    /\ UNCHANGED <<issued, mailed, opened, userVars, appleVars, jobVars>>

\* Its transaction: a row that is pending keeps its token and its expiry; a
\* row from before migration 010, or none, gets a new token and 24 hours.
SaveRegistration(r) ==
    LET e == req[r].email IN
    /\ At(r, "register")
    /\ PendingFree(e)
    /\ IF pending[e].resendable
       THEN /\ UNCHANGED <<pending, issued>>
            /\ Step(r, [req[r] EXCEPT !.pc = "mail", !.number = pending[e].number])
       ELSE /\ issued[e] < MaxTokens
            /\ issued' = [issued EXCEPT ![e] = @ + 1]
            /\ pending' = [pending EXCEPT ![e] =
                    [number |-> issued[e] + 1, live |-> TRUE, resendable |-> TRUE]]
            /\ Step(r, [req[r] EXCEPT !.pc = "mail", !.number = issued[e] + 1])
    /\ UNCHANGED <<mailed, opened, userVars, appleVars, jobVars>>

\* send_verification_email: the mail arrives.
SendVerification(r) ==
    /\ At(r, "mail")
    /\ mailed' = [mailed EXCEPT ![req[r].email] = @ \cup {req[r].number}]
    /\ End(r)
    /\ UNCHANGED <<pending, issued, opened, userVars, appleVars, jobVars>>

\* verification_expires_at passes.
LinkExpires(e) ==
    /\ pending[e] # NoRow
    /\ pending[e].live
    /\ pending' = [pending EXCEPT ![e].live = FALSE]
    /\ UNCHANGED <<issued, mailed, opened, userVars, appleVars, jobVars, req>>

\* verify_email: it drops a row that has expired, or whose address has an
\* account by now, and changes nothing otherwise.
VerifyEmail(e, n) ==
    /\ n \in mailed[e]
    /\ Carries(e, n)
    /\ PendingFree(e)
    /\ Expired(e) \/ HasAccount(e)
    /\ pending' = [pending EXCEPT ![e] = NoRow]
    /\ UNCHANGED <<issued, mailed, opened, userVars, appleVars, jobVars, req>>

\* complete_registration: the row of the token, FOR UPDATE.
StartComplete(r, e, n) ==
    /\ At(r, "idle")
    /\ n \in mailed[e]
    /\ Carries(e, n)
    /\ PendingFree(e)
    /\ IF Expired(e)
       THEN pending' = [pending EXCEPT ![e] = NoRow] /\ UNCHANGED req
       ELSE /\ Step(r, [Idle EXCEPT !.pc = "complete", !.email = e, !.number = n])
            /\ UNCHANGED pending
    /\ UNCHANGED <<issued, mailed, opened, userVars, appleVars, jobVars>>

\* Its INSERT and DELETE, committed together; an address that has an account
\* by now only loses its pending row.
CommitComplete(r) ==
    LET e == req[r].email IN
    /\ At(r, "complete")
    /\ \/ HasAccount(e) /\ UNCHANGED <<users, minted, opened>>
       \/ /\ InsertUser(e)
          /\ opened' = [opened EXCEPT ![e][req[r].number] = @ + 1]
    /\ pending' = [pending EXCEPT ![e] = NoRow]
    /\ End(r)
    /\ UNCHANGED <<issued, mailed, identity, appleVars, jobVars>>

-----------------------------------------------------------------------------
\* Sign-in with a provider, and the code that comes with a sign-in at Apple.

\* What a sign-in as u goes on to do: exchange its code, or nothing more here.
SignedIn(r, s, u) ==
    \/ End(r)
    \/ /\ s \in Apple
       /\ \E c \in Clients :
            Step(r, [Idle EXCEPT !.pc = "exchange", !.user = u, !.client = c])

\* oauth_google, oauth_apple and resolve_oauth_user, up to the identity.
StartOAuth(r, s, e) ==
    /\ At(r, "idle")
    /\ e \in Verified[s]
    /\ IF identity[s] # None THEN SignedIn(r, s, identity[s])
       ELSE /\ e # None
            /\ Step(r, [Idle EXCEPT !.pc = "find", !.subject = s, !.email = e])
    /\ UNCHANGED <<registrationVars, userVars, appleVars, jobVars>>

\* The account of the address; create_oauth_user commits a new one by itself.
FindUser(r) ==
    LET e == req[r].email IN
    /\ At(r, "find")
    /\ \/ /\ UNCHANGED <<users, minted>>
          /\ \E u \in Ids : /\ Owns(u, e)
                            /\ Step(r, [req[r] EXCEPT !.pc = "link", !.user = u])
       \/ /\ InsertUser(e)
          /\ Step(r, [req[r] EXCEPT !.pc = "link", !.user = minted + 1])
    /\ UNCHANGED <<registrationVars, identity, appleVars, jobVars>>

\* INSERT INTO oauth_identities ... ON CONFLICT DO NOTHING.
LinkIdentity(r) ==
    LET s == req[r].subject IN
    /\ At(r, "link")
    /\ \/ identity[s] # None /\ UNCHANGED identity
       \/ /\ identity[s] = None
          /\ MayReference(req[r].user)
          /\ identity' = [identity EXCEPT ![s] = req[r].user]
    /\ Step(r, [req[r] EXCEPT !.pc = "clear"])
    /\ UNCHANGED <<registrationVars, users, minted, appleVars, jobVars>>

\* The DELETE of the pending registration, whose failure is ignored.
ClearPending(r) ==
    LET e == req[r].email IN
    /\ At(r, "clear")
    /\ \/ PendingFree(e) /\ pending' = [pending EXCEPT ![e] = NoRow]
       \/ UNCHANGED pending
    /\ Step(r, [req[r] EXCEPT !.pc = "resolve"])
    /\ UNCHANGED <<issued, mailed, opened, userVars, appleVars, jobVars>>

\* The identity again: whoever it belongs to is signed in.
ResolveIdentity(r) ==
    /\ At(r, "resolve")
    /\ identity[req[r].subject] # None
    /\ SignedIn(r, req[r].subject, identity[req[r].subject])
    /\ UNCHANGED <<registrationVars, userVars, appleVars, jobVars>>

\* apple::reauthorize, for the account its session names.
StartReauthorize(r, s) ==
    /\ At(r, "idle")
    /\ s \in Apple
    /\ identity[s] # None
    /\ \E c \in Clients :
         Step(r, [Idle EXCEPT !.pc = "exchange", !.user = identity[s], !.client = c])
    /\ UNCHANGED <<registrationVars, userVars, appleVars, jobVars>>

\* save_code: Apple grants a refresh token for the code.
ExchangeCode(r) ==
    /\ At(r, "exchange")
    /\ grants < MaxGrants
    /\ grants' = grants + 1
    /\ Step(r, [req[r] EXCEPT !.pc = "store", !.grant = grants + 1])
    /\ UNCHANGED <<registrationVars, userVars, credential, stored, replaced, jobVars>>

\* Its INSERT ... ON CONFLICT DO UPDATE: only the INSERT looks at users.
StoreGrant(r) ==
    LET u == req[r].user  c == req[r].client  g == req[r].grant IN
    /\ At(r, "store")
    /\ IF credential[u][c] = Lacking THEN MayReference(u)
       ELSE UserFree(u) \/ RefreshDuringDeletion
    /\ credential' = [credential EXCEPT ![u][c] = g]
    /\ stored' = stored \cup {g}
    /\ replaced' = replaced \cup ({credential[u][c]} \ {Lacking})
    /\ End(r)
    /\ UNCHANGED <<registrationVars, userVars, grants, jobVars>>

-----------------------------------------------------------------------------
\* delete_account.

\* The users row FOR UPDATE; without a credential to revoke, an account with
\* an Apple identity is refused.
StartDelete(r, e) ==
    /\ At(r, "idle")
    /\ \E u \in Ids :
         /\ Owns(u, e)
         /\ UserFree(u)
         /\ HasApple(u) => Credentials(u) # {}
         /\ Step(r, [Idle EXCEPT !.pc = "delete", !.user = u])
    /\ UNCHANGED <<registrationVars, userVars, appleVars, jobVars>>

\* Mutant: the rows of apple_credentials are not queued.
CopyNothing(r) ==
    /\ At(r, "delete")
    /\ Step(r, [req[r] EXCEPT !.pc = "copied"])
    /\ UNCHANGED <<registrationVars, userVars, appleVars, jobVars>>

\* INSERT INTO apple_revocations SELECT ... FROM apple_credentials.
CopyCredentials(r) ==
    /\ At(r, "delete")
    /\ Step(r, [req[r] EXCEPT !.pc = "copied", !.queue = Credentials(req[r].user)])
    /\ UNCHANGED <<registrationVars, userVars, appleVars, jobVars>>

\* DELETE FROM users with its cascades, and COMMIT.
CommitDelete(r) ==
    LET u == req[r].user IN
    /\ At(r, "copied")
    /\ users' = [users EXCEPT ![u] = None]
    /\ identity' = [s \in Subjects |-> IF identity[s] = u THEN None ELSE identity[s]]
    /\ credential' = [credential EXCEPT ![u] = [c \in Clients |-> Lacking]]
    /\ job' = [g \in Grants |-> IF g \in req[r].queue THEN "due" ELSE job[g]]
    /\ End(r)
    /\ UNCHANGED <<registrationVars, minted, stored, replaced, grants, revoked, worker>>

-----------------------------------------------------------------------------
\* apple::revoke_next, every minute in every instance.

Holds(w, g) == worker[w].grant = g

\* SELECT ... FOR UPDATE SKIP LOCKED of a row whose time has come.
PickJob(w, g) ==
    /\ worker[w] = Resting
    /\ job[g] = "due"
    /\ \A v \in Workers : ~Holds(v, g)
    /\ worker' = [worker EXCEPT ![w].grant = g]
    /\ UNCHANGED <<registrationVars, userVars, appleVars, revoked, job, req>>

\* Apple revokes the token and says so.
AppleRevokes(w, g) ==
    /\ Holds(w, g)
    /\ worker[w].answer = "none"
    /\ revoked' = revoked \cup {g}
    /\ worker' = [worker EXCEPT ![w].answer = "success"]
    /\ UNCHANGED <<registrationVars, userVars, appleVars, job, req>>

\* Apple refuses or is not reached, or its answer is lost.
AppleFails(w, g) ==
    /\ Holds(w, g)
    /\ worker[w].answer = "none"
    /\ revoked' \in {revoked, revoked \cup {g}}
    /\ worker' = [worker EXCEPT ![w].answer = "failure"]
    /\ UNCHANGED <<registrationVars, userVars, appleVars, job, req>>

\* The row is deleted once Apple has said so; COMMIT.
MarkRevoked(w, g) ==
    /\ Holds(w, g)
    /\ worker[w].answer = "success"
    /\ job' = [job EXCEPT ![g] = "none"]
    /\ worker' = [worker EXCEPT ![w] = Resting]
    /\ UNCHANGED <<registrationVars, userVars, appleVars, revoked, req>>

\* The row is put off by a quarter of an hour; COMMIT.
PutOff(w, g) ==
    /\ Holds(w, g)
    /\ worker[w].answer = "failure"
    /\ job' = [job EXCEPT ![g] = "waiting"]
    /\ worker' = [worker EXCEPT ![w] = Resting]
    /\ UNCHANGED <<registrationVars, userVars, appleVars, revoked, req>>

\* Mutant: a job that failed once is never due again.
NeverDueAgain(g) == FALSE /\ UNCHANGED vars

\* next_attempt_at passes.
RetryFallsDue(g) ==
    /\ job[g] = "waiting"
    /\ job' = [job EXCEPT ![g] = "due"]
    /\ UNCHANGED <<registrationVars, userVars, appleVars, revoked, worker, req>>

\* The instance stops between any two of these: its transaction is rolled back.
WorkerCrashes(w) ==
    /\ worker[w] # Resting
    /\ worker' = [worker EXCEPT ![w] = Resting]
    /\ UNCHANGED <<registrationVars, userVars, appleVars, revoked, job, req>>

-----------------------------------------------------------------------------
\* A request ends with no further write: an early return, a failed statement,
\* a mail or an exchange that fails, a lost connection, a crash.
Fail(r) ==
    /\ ~At(r, "idle")
    /\ End(r)
    /\ UNCHANGED <<registrationVars, userVars, appleVars, jobVars>>

Start(r) ==
    \/ \E e \in Emails : StartRegister(r, e) \/ StartDelete(r, e)
    \/ \E e \in Emails, n \in Tokens : StartComplete(r, e, n)
    \/ \E s \in Subjects, e \in Emails \cup {None} : StartOAuth(r, s, e)
    \/ \E s \in Subjects : StartReauthorize(r, s)

Advance(r) ==
    \/ SaveRegistration(r)
    \/ SendVerification(r)
    \/ CommitComplete(r)
    \/ FindUser(r)
    \/ LinkIdentity(r)
    \/ ClearPending(r)
    \/ ResolveIdentity(r)
    \/ ExchangeCode(r)
    \/ StoreGrant(r)
    \/ CopyCredentials(r)
    \/ CommitDelete(r)

Work(w, g) ==
    \/ PickJob(w, g)
    \/ AppleRevokes(w, g)
    \/ AppleFails(w, g)
    \/ MarkRevoked(w, g)
    \/ PutOff(w, g)

Environment ==
    \/ \E e \in Emails : LinkExpires(e)
    \/ \E e \in Emails, n \in Tokens : VerifyEmail(e, n)
    \/ \E g \in Grants : RetryFallsDue(g)
    \/ \E w \in Workers : WorkerCrashes(w)

Next ==
    \/ \E r \in Requests : Start(r) \/ Advance(r) \/ Fail(r)
    \/ \E w \in Workers, g \in Grants : Work(w, g)
    \/ Environment

Spec == Init /\ [][Next]_vars

\* The ticker of every instance fires as long as one runs, time passes, and an
\* Apple that is asked again and again, and an instance that is started again
\* and again, get through in the end. One condition for all rows is enough:
\* the oldest due row comes first (ORDER BY next_attempt_at), and each row that
\* gets through leaves fewer.
Fairness ==
    /\ WF_vars(\E g \in Grants : RetryFallsDue(g))
    /\ SF_vars(\E w \in Workers, g \in Grants : PickJob(w, g))
    /\ SF_vars(\E w \in Workers, g \in Grants : AppleRevokes(w, g))
    /\ SF_vars(\E w \in Workers, g \in Grants : MarkRevoked(w, g))
    /\ WF_vars(\E w \in Workers, g \in Grants : PutOff(w, g))

FairSpec == Spec /\ Fairness

-----------------------------------------------------------------------------
(***************************************************************************)
(* What the locks and the order of statements keep true between two steps: *)
(* AccountsInv is inductive as long as no credential is refreshed while    *)
(* its account is being deleted.                                           *)
(***************************************************************************)

\* A request knows what it is about to write.
Named(q) ==
    /\ q.pc \in {"register", "mail", "complete", "find"} => q.email \in Emails
    /\ q.pc \in {"mail", "complete"} => q.number \in Tokens
    /\ q.pc \in {"exchange", "store", "delete", "copied"} => q.user \in Ids
    /\ q.pc \in {"exchange", "store"} => q.client \in Clients
    /\ q.pc = "store" => q.grant \in Grants

RequestsNamed == \A r \in Requests : Named(req[r])

\* The token of a pending row has opened nothing yet: numbers are drawn once,
\* and a row goes in the step in which its token opens an account.
TokensFresh ==
    \A e \in Emails :
        /\ pending[e] # NoRow => pending[e].number <= issued[e]
        /\ \A n \in Tokens : opened[e][n] > 0 => ~Carries(e, n) /\ n <= issued[e]

\* complete_registration holds the row of its token, alone.
CompletionsHold ==
    \A r \in Requests : At(r, "complete") =>
        /\ Carries(req[r].email, req[r].number)
        /\ \A q \in Requests : At(q, "complete") /\ req[q].email = req[r].email => q = r

\* Credentials belong to living accounts.
CredentialsReference ==
    \A u \in Ids, c \in Clients : credential[u][c] # Lacking => users[u] # None

\* delete_account holds its account, alone, and what it has checked and copied
\* still holds.
DeletionsHold ==
    \A r \in Requests, u \in Ids : Deleting(r, u) =>
        /\ users[u] # None
        /\ \A q \in Requests : Deleting(q, u) => q = r
        /\ HasApple(u) => Credentials(u) # {}
        /\ At(r, "copied") => req[r].queue = Credentials(u)

\* Apple says yes only when it has revoked the token.
AnswersTrue ==
    \A w \in Workers : worker[w].answer = "success" => worker[w].grant \in revoked

-----------------------------------------------------------------------------
(***************************************************************************)
(* Properties.                                                             *)
(***************************************************************************)

\* A verification link opens one account at most, also when it is used twice
\* at once, or again after the account it opened was deleted: complete_
\* registration holds the row of its token until the row is gone.
LinkOpensOneAccount == \A e \in Emails, n \in Tokens : opened[e][n] <= 1

\* Every refresh token that was stored is held for a living account, waits in
\* the queue, is revoked at Apple, or was replaced by a later one: neither a
\* deletion nor a crash of the worker forgets one.
TokensAccountedFor ==
    \A g \in stored \ (replaced \cup revoked) :
        \/ job[g] # "none"
        \/ \E u \in Ids : users[u] # None /\ g \in Credentials(u)

\* An account with an Apple identity goes only when a token of its own enters
\* the queue in the same step: what delete_account checked still holds when it
\* commits, whoever signs in with Apple meanwhile.
DeletedWithRevocation ==
    [][\A u \in Ids :
         users[u] # None /\ users'[u] = None /\ HasApple(u) =>
             \E g \in Credentials(u) : job'[g] = "due"]_vars

\* A revocation that is queued is done in the end, though Apple fails, answers
\* are lost and instances stop: its row is deleted only then.
RevokedInTheEnd ==
    \A g \in Grants : job[g] # "none" ~> job[g] = "none" /\ g \in revoked

AccountsInv ==
    /\ TypeOK
    /\ RequestsNamed
    /\ TokensFresh
    /\ CompletionsHold
    /\ CredentialsReference
    /\ DeletionsHold
    /\ AnswersTrue
    /\ LinkOpensOneAccount
    /\ TokensAccountedFor
=============================================================================
