------------------------------ MODULE Sessions ------------------------------
(***************************************************************************)
(* The sessions of one account: login, upgrade, renewal and logout of its  *)
(* devices, against password resets, moderation, deletion and the clock.   *)
(*                                                                         *)
(* An access token is a signed JWT that carries the session_version it was *)
(* issued under; the only rows about it are those of revoked_auth_tokens.  *)
(* A refresh secret is looked up in mobile_sessions, as the current or the *)
(* previous one of a session.  A handler reads the users row first and     *)
(* writes later, in statements of their own, so that a reset or a          *)
(* suspension may commit in between.  A request a device no longer waits   *)
(* for is still served.                                                    *)
(***************************************************************************)
EXTENDS Integers

CONSTANTS
    Devices,          \* apps and browsers signed in to the account
    Requests,         \* slots for requests in flight
    None,             \* no device
    PasswordAtFirst,  \* password_login_enabled of the account, initially
    MaxIssued,        \* bound on the access tokens issued
    MaxEras,          \* bound on the resets and moderation decisions
    MaxLinks,         \* bound on the reset links mailed
    MaxTicks          \* bound on the deadlines that pass

ASSUME SessionsAssumption ==
    /\ None \notin Devices
    /\ PasswordAtFirst \in BOOLEAN
    /\ MaxIssued \in Nat
    /\ MaxEras \in Nat
    /\ MaxLinks \in Nat
    /\ MaxTicks \in Nat

VARIABLES
    account,    \* the users row
    link,       \* the password_resets row of the account, code 0 for none
    mailed,     \* how many reset links were mailed
    sessions,   \* mobile_sessions
    revoked,    \* revoked_auth_tokens
    issued,     \* how many access tokens were issued
    life,       \* what the clock makes of each token's exp
    device,     \* credentials each device stores
    request,    \* requests in flight
    ticks,      \* deadlines that passed
    era,        \* resets and moderation decisions so far
    loggedOut,  \* sessions whose logout was served
    signedOut   \* access tokens whose logout was served

vars == <<account, link, mailed, sessions, revoked, issued, life, device,
          request, ticks, era, loggedOut, signedOut>>

-----------------------------------------------------------------------------
Numbers == 1..MaxIssued
Eras    == 0..MaxEras

Account == [exists        : BOOLEAN,
            version       : Eras,      \* session_version
            suspended     : BOOLEAN,
            passwordLogin : BOOLEAN]   \* password_login_enabled

\* The era of a token or session is that of the password or provider check it
\* descends from; it is the model's, not the code's.
Token == [jti : 0..MaxIssued, version : Eras, mobile : BOOLEAN, era : Eras]

NoToken == [jti |-> 0, version |-> 0, mobile |-> FALSE, era |-> 0]

Credentials == [access : Token, secret : 0..MaxIssued, session : 0..MaxIssued]

Nothing == [access |-> NoToken, secret |-> 0, session |-> 0]

Session == [id       : Numbers,        \* the row: its first secret stands for it
            version  : Eras,
            secret   : Numbers,        \* token_hash, token_ciphertext
            previous : 0..MaxIssued,   \* previous_token_hash
            retry    : BOOLEAN,        \* previous_valid_until > NOW()
            over     : BOOLEAN,        \* expires_at or 365 days are past
            era      : Eras]

Request == [op        : {"login", "oauth", "upgrade", "renew", "logout"},
            at        : {"sent", "read", "checked", "deleted"},
            device    : Devices,
            awaited   : BOOLEAN,       \* the device waits for the answer
            native    : BOOLEAN,       \* wants_refresh_session
            presented : Credentials,
            version   : Eras,          \* session_version as read
            era       : Eras]

Idle == [op |-> "idle", device |-> None, awaited |-> FALSE]

NoLink == [code |-> 0, over |-> FALSE]

Init ==
    /\ account = [exists |-> TRUE, version |-> 0, suspended |-> FALSE,
                  passwordLogin |-> PasswordAtFirst]
    /\ link = NoLink
    /\ mailed = 0
    /\ sessions = {}
    /\ revoked = {}
    /\ issued = 0
    /\ life = [j \in Numbers |-> "valid"]
    /\ device = [d \in Devices |-> Nothing]
    /\ request = [r \in Requests |-> Idle]
    /\ ticks = 0
    /\ era = 0
    /\ loggedOut = {}
    /\ signedOut = {}

-----------------------------------------------------------------------------
(* What handlers look at.                                                  *)

\* decode_jwt: the signature is right and exp is not past, give or take the
\* minute of leeway of jsonwebtoken.
Decodes(t) == t.jti # 0 /\ life[t.jti] # "over"

\* extract_authenticated_user
Accepted(t) ==
    /\ Decodes(t)
    /\ t.jti \notin revoked
    /\ account.exists
    /\ ~account.suspended
    /\ t.version = account.version

\* The WHERE of the row lookup: a row knows its current and its last secret.
Knows(s, secret) == secret # 0 /\ secret \in {s.secret, s.previous}

\* Mutant: logout looks at the current secret alone.
LogsOutCurrent(s, secret) == secret = s.secret

\* The WHERE of logout's DELETE.
LogsOut(s, secret) == secret # 0 /\ secret \in {s.secret, s.previous}

\* row.valid, with the users row as the statement saw it, and the five minutes
\* of the previous secret.
Renews(s, q) ==
    /\ Knows(s, q.presented.secret)
    /\ ~s.over
    /\ s.version = q.version
    /\ q.presented.secret = s.secret \/ s.retry

-----------------------------------------------------------------------------
(* Devices.  A device has one login or renewal outstanding at a time and   *)
(* may log out during it; it stores the answers it waits for.              *)

Free(d) == \A r \in Requests : ~(request[r].device = d /\ request[r].awaited)

Send(r, d, op, at, native) ==
    /\ request[r] = Idle
    /\ request' = [request EXCEPT ![r] =
            [op |-> op, at |-> at, device |-> d, awaited |-> TRUE,
             native |-> native, presented |-> device[d],
             version |-> IF at = "sent" THEN 0 ELSE account.version,
             era     |-> IF at = "sent" THEN 0 ELSE era]]

\* fetch_user_auth and verify_password: one SELECT reads hash and version.
Login(r, d) ==
    /\ Free(d) /\ device[d] = Nothing
    /\ account.exists
    /\ \E native \in BOOLEAN : Send(r, d, "login", "read", native)
    /\ UNCHANGED <<account, link, mailed, sessions, revoked, issued, life,
                   device, era, loggedOut, signedOut, ticks>>

\* resolve_oauth_user of a linked identity, and the check of what it read.
OAuthLogin(r, d) ==
    /\ Free(d) /\ device[d] = Nothing
    /\ account.exists /\ ~account.suspended
    /\ \E native \in BOOLEAN : Send(r, d, "oauth", "checked", native)
    /\ UNCHANGED <<account, link, mailed, sessions, revoked, issued, life,
                   device, era, loggedOut, signedOut, ticks>>

Renew(r, d) ==
    /\ Free(d) /\ device[d].secret # 0
    /\ Send(r, d, "renew", "sent", TRUE)
    /\ UNCHANGED <<account, link, mailed, sessions, revoked, issued, life,
                   device, era, loggedOut, signedOut, ticks>>

\* A native client that still has a 24-hour token of an old version.
Upgrade(r, d) ==
    /\ Free(d) /\ device[d].access.jti # 0 /\ device[d].secret = 0
    /\ Send(r, d, "upgrade", "sent", TRUE)
    /\ UNCHANGED <<account, link, mailed, sessions, revoked, issued, life,
                   device, era, loggedOut, signedOut, ticks>>

\* The device forgets its credentials and waits for nothing any more.
Logout(r, d) ==
    /\ device[d] # Nothing
    /\ request[r] = Idle
    /\ request' = [q \in Requests |->
            IF q = r
            THEN [op |-> "logout", at |-> "sent", device |-> d,
                  awaited |-> FALSE, native |-> TRUE,
                  presented |-> device[d], version |-> 0, era |-> 0]
            ELSE IF request[q].device = d
                 THEN [request[q] EXCEPT !.awaited = FALSE] ELSE request[q]]
    /\ device' = [device EXCEPT ![d] = Nothing]
    /\ UNCHANGED <<account, link, mailed, sessions, revoked, issued, life,
                   era, loggedOut, signedOut, ticks>>

\* A timeout or a lost connection: the device keeps what it stores.
Abandon(r) ==
    /\ request[r].awaited
    /\ request' = [request EXCEPT ![r].awaited = FALSE]
    /\ UNCHANGED <<account, link, mailed, sessions, revoked, issued, life,
                   device, era, loggedOut, signedOut, ticks>>

-----------------------------------------------------------------------------
(* Handlers.                                                               *)

Serving(r, op, at) == request[r] # Idle /\ request[r].op = op /\ request[r].at = at

Done(r) == request' = [request EXCEPT ![r] = Idle]

\* session_response: a fresh access token, and the secret with its session when
\* the client is native.  It reaches the device if that still waits for it.
Answer(r, version, from, mobile, secret, session) ==
    /\ issued < MaxIssued
    /\ issued' = issued + 1
    /\ device' = IF request[r].awaited
                 THEN [device EXCEPT ![request[r].device] =
                        [access  |-> [jti |-> issued + 1, version |-> version,
                                      mobile |-> mobile, era |-> from],
                         secret  |-> secret,
                         session |-> session]]
                 ELSE device
    /\ Done(r)

\* 401: only such an answer makes the device drop its credentials.
Refuse(r) ==
    /\ device' = IF request[r].awaited
                 THEN [device EXCEPT ![request[r].device] = Nothing]
                 ELSE device
    /\ Done(r)
    /\ UNCHANGED <<account, link, mailed, sessions, revoked, issued, life,
                   era, loggedOut, signedOut, ticks>>

\* 500, or a crash of the process: nothing further is written.
Fail(r) ==
    /\ request[r] # Idle
    /\ Done(r)
    /\ UNCHANGED <<account, link, mailed, sessions, revoked, issued, life,
                   device, era, loggedOut, signedOut, ticks>>

\* UPDATE users SET password_login_enabled = TRUE ... AND NOT suspended
LoginMarks(r) ==
    /\ Serving(r, "login", "read")
    /\ account.exists /\ ~account.suspended
    /\ account' = [account EXCEPT !.passwordLogin = TRUE]
    /\ request' = [request EXCEPT ![r].at = "checked"]
    /\ UNCHANGED <<link, mailed, sessions, revoked, issued, life, device,
                   era, loggedOut, signedOut, ticks>>

LoginRefused(r) ==
    /\ Serving(r, "login", "read")
    /\ ~account.exists \/ account.suspended
    /\ Refuse(r)

\* is_legacy_bearer and extract_authenticated_user; the session inherits the
\* check its token descends from.
UpgradeChecks(r) ==
    /\ Serving(r, "upgrade", "sent")
    /\ ~request[r].presented.access.mobile
    /\ Accepted(request[r].presented.access)
    /\ request' = [request EXCEPT ![r].at      = "checked",
                                  ![r].version = account.version,
                                  ![r].era     = request[r].presented.access.era]
    /\ UNCHANGED <<account, link, mailed, sessions, revoked, issued, life,
                   device, era, loggedOut, signedOut, ticks>>

UpgradeRefused(r) ==
    /\ Serving(r, "upgrade", "sent")
    /\ \/ request[r].presented.access.mobile
       \/ ~Accepted(request[r].presented.access)
    /\ Refuse(r)

\* Mutant: the version is read again for the INSERT.
VersionNow(q) == account.version

\* The session_version a new session is inserted with: the one in the claims.
VersionOf(q) == q.version

\* issue_session of a client that wants refresh: INSERT ... FROM users
OpensSession(r) ==
    LET q == request[r] IN
    /\ q # Idle /\ q.at = "checked" /\ q.native
    /\ account.exists
    /\ Answer(r, VersionOf(q), q.era, TRUE, issued + 1, issued + 1)
    /\ sessions' = sessions \cup
            {[id |-> issued + 1, version |-> VersionOf(q),
              secret |-> issued + 1, previous |-> 0, retry |-> FALSE,
              over |-> FALSE, era |-> q.era]}
    /\ UNCHANGED <<account, link, mailed, revoked, life, era, loggedOut,
                   signedOut, ticks>>

\* issue_session of another client: no row, a token of 24 hours.
IssuesToken(r) ==
    LET q == request[r] IN
    /\ q # Idle /\ q.at = "checked" /\ ~q.native
    /\ Answer(r, q.version, q.era, FALSE, 0, 0)
    /\ UNCHANGED <<account, link, mailed, sessions, revoked, life, era,
                   loggedOut, signedOut, ticks>>

\* The statement of refresh_session takes its snapshot of users, and may then
\* wait for the row of the session.
RenewReads(r) ==
    /\ Serving(r, "renew", "sent")
    /\ account.exists /\ ~account.suspended
    /\ request' = [request EXCEPT ![r].at = "read",
                                  ![r].version = account.version]
    /\ UNCHANGED <<account, link, mailed, sessions, revoked, issued, life,
                   device, era, loggedOut, signedOut, ticks>>

\* Mutant: whichever secret was presented, the renewal rotates.
RotatedAlways(s, presented, next) ==
    [s EXCEPT !.previous = s.secret, !.retry = TRUE, !.secret = next]

\* Mutant: the new secret is filed as the previous one.
RotatedBackwards(s, presented, next) ==
    [s EXCEPT !.previous = next, !.retry = TRUE]

\* The row after a renewal that presented the given secret: the current one is
\* replaced by the next, the previous one leaves the row as it is.
Rotated(s, presented, next) ==
    IF presented = s.secret
    THEN [s EXCEPT !.previous = s.secret, !.retry = TRUE, !.secret = next]
    ELSE s

\* The row is locked and read as it is now; UPDATE and COMMIT.
RenewCommits(r) ==
    /\ Serving(r, "renew", "read")
    /\ \E s \in sessions :
        LET t == Rotated(s, request[r].presented.secret, issued + 1) IN
        /\ Renews(s, request[r])
        /\ sessions' = (sessions \ {s}) \cup {t}
        /\ Answer(r, request[r].version, s.era, TRUE, t.secret, s.id)
    /\ UNCHANGED <<account, link, mailed, revoked, life, era, loggedOut,
                   signedOut, ticks>>

RenewRefused(r) ==
    /\ \/ /\ Serving(r, "renew", "sent")
          /\ ~account.exists \/ account.suspended
       \/ /\ Serving(r, "renew", "read")
          /\ \A s \in sessions : ~Renews(s, request[r])
    /\ Refuse(r)

\* logout: DELETE FROM mobile_sessions, by either secret
LogoutDeletes(r) ==
    /\ Serving(r, "logout", "sent")
    /\ sessions' = {s \in sessions : ~LogsOut(s, request[r].presented.secret)}
    /\ loggedOut' = loggedOut \cup ({request[r].presented.session} \ {0})
    /\ request' = [request EXCEPT ![r].at = "deleted"]
    /\ UNCHANGED <<account, link, mailed, revoked, issued, life, device, era,
                   signedOut, ticks>>

\* revoke_auth_token_from_request: a token that does not decode needs no row.
LogoutRevokes(r) ==
    LET t == request[r].presented.access IN
    /\ Serving(r, "logout", "deleted")
    /\ revoked' = IF Decodes(t) THEN revoked \cup {t.jti} ELSE revoked
    /\ signedOut' = signedOut \cup ({t.jti} \ {0})
    /\ Done(r)
    /\ UNCHANGED <<account, link, mailed, sessions, issued, life, device,
                   era, loggedOut, ticks>>

-----------------------------------------------------------------------------
(* The account.                                                            *)

\* request_reset: one row for each account, replaced by the next request; that
\* a minute has passed since the last one is left to chance.
RequestReset ==
    /\ mailed < MaxLinks
    /\ account.exists /\ ~account.suspended /\ account.passwordLogin
    /\ mailed' = mailed + 1
    /\ link' = [code |-> mailed + 1, over |-> FALSE]
    /\ UNCHANGED <<account, sessions, revoked, issued, life, device, request,
                   era, loggedOut, signedOut, ticks>>

\* The version after a reset or a moderation decision.
NextVersion == account.version + 1

\* confirm_reset: DELETE ... RETURNING and the UPDATE of users in one transaction
ConfirmReset(code) ==
    /\ era < MaxEras
    /\ link.code = code /\ ~link.over
    /\ account.exists /\ ~account.suspended /\ account.passwordLogin
    /\ account' = [account EXCEPT !.version = NextVersion]
    /\ link' = NoLink
    /\ era' = era + 1
    /\ UNCHANGED <<mailed, sessions, revoked, issued, life, device, request,
                   loggedOut, signedOut, ticks>>

\* moderate: suspend and unsuspend
Moderate(suspend) ==
    /\ era < MaxEras
    /\ account.exists
    /\ account' = [account EXCEPT !.suspended = suspend, !.version = NextVersion]
    /\ era' = era + 1
    /\ UNCHANGED <<link, mailed, sessions, revoked, issued, life, device,
                   request, loggedOut, signedOut, ticks>>

\* delete_account, and its cascades
DeleteAccount ==
    /\ account.exists
    /\ account' = [account EXCEPT !.exists = FALSE]
    /\ sessions' = {}
    /\ link' = NoLink
    /\ UNCHANGED <<mailed, revoked, issued, life, device, request, era,
                   loggedOut, signedOut, ticks>>

-----------------------------------------------------------------------------
(* The clock, and cleanup_auth_state: three statements of their own.       *)

Tick == ticks < MaxTicks /\ ticks' = ticks + 1

\* Only the tokens that somebody still looks at age.
Watched(j) ==
    \/ \E d \in Devices : device[d].access.jti = j
    \/ \E r \in Requests : request[r] # Idle /\ request[r].presented.access.jti = j
    \/ j \in signedOut

TokenAges(j) ==
    /\ Tick
    /\ Watched(j)
    /\ \/ life[j] = "valid"  /\ life' = [life EXCEPT ![j] = "leeway"]
       \/ life[j] = "leeway" /\ life' = [life EXCEPT ![j] = "over"]
    /\ UNCHANGED <<account, link, mailed, sessions, revoked, issued, device,
                   request, era, loggedOut, signedOut>>

RetryLapses(s) ==
    /\ Tick
    /\ s.retry
    /\ sessions' = (sessions \ {s}) \cup {[s EXCEPT !.retry = FALSE]}
    /\ UNCHANGED <<account, link, mailed, revoked, issued, life, device,
                   request, era, loggedOut, signedOut>>

SessionExpires(s) ==
    /\ Tick
    /\ ~s.over
    /\ sessions' = (sessions \ {s}) \cup {[s EXCEPT !.over = TRUE]}
    /\ UNCHANGED <<account, link, mailed, revoked, issued, life, device,
                   request, era, loggedOut, signedOut>>

LinkExpires ==
    /\ Tick
    /\ link # NoLink /\ ~link.over
    /\ link' = [link EXCEPT !.over = TRUE]
    /\ UNCHANGED <<account, mailed, sessions, revoked, issued, life, device,
                   request, era, loggedOut, signedOut>>

\* Mutant: the comparison the other way round.
NotOutdated(j) == life[j] = "valid"

\* expires_at <= NOW() for a revocation, which has the exp of its token.
Outdated(j) == life[j] # "valid"

CleanRevocations ==
    /\ \E j \in revoked : Outdated(j)
    /\ revoked' = {j \in revoked : ~Outdated(j)}
    /\ UNCHANGED <<account, link, mailed, sessions, issued, life, device,
                   request, era, loggedOut, signedOut, ticks>>

CleanSessions ==
    /\ \E s \in sessions : s.over
    /\ sessions' = {s \in sessions : ~s.over}
    /\ UNCHANGED <<account, link, mailed, revoked, issued, life, device,
                   request, era, loggedOut, signedOut, ticks>>

CleanLinks ==
    /\ link.over
    /\ link' = NoLink
    /\ UNCHANGED <<account, mailed, sessions, revoked, issued, life, device,
                   request, era, loggedOut, signedOut, ticks>>

-----------------------------------------------------------------------------
Asks(r) ==
    \/ \E d \in Devices : Login(r, d) \/ OAuthLogin(r, d) \/ Renew(r, d)
                          \/ Upgrade(r, d) \/ Logout(r, d)
    \/ Abandon(r)

Serves(r) ==
    \/ LoginMarks(r) \/ LoginRefused(r)
    \/ UpgradeChecks(r) \/ UpgradeRefused(r)
    \/ OpensSession(r) \/ IssuesToken(r)
    \/ RenewReads(r) \/ RenewCommits(r) \/ RenewRefused(r)
    \/ LogoutDeletes(r) \/ LogoutRevokes(r)
    \/ Fail(r)

AccountChanges ==
    \/ RequestReset
    \/ \E code \in 1..mailed : ConfirmReset(code)
    \/ \E suspend \in BOOLEAN : Moderate(suspend)
    \/ DeleteAccount

TimePasses ==
    \/ \E j \in Numbers : TokenAges(j)
    \/ \E s \in sessions : RetryLapses(s) \/ SessionExpires(s)
    \/ LinkExpires
    \/ CleanRevocations \/ CleanSessions \/ CleanLinks

Next ==
    \/ \E r \in Requests : Asks(r) \/ Serves(r)
    \/ AccountChanges
    \/ TimePasses

Spec == Init /\ [][Next]_vars

-----------------------------------------------------------------------------
(* Properties.                                                             *)

\* Every variable has its type, and a rotation replaced an older secret.
TypeOK ==
    /\ account \in Account
    /\ link \in [code : 0..MaxLinks, over : BOOLEAN]
    /\ mailed \in 0..MaxLinks
    /\ sessions \subseteq Session
    /\ \A s \in sessions : s.previous < s.secret
    /\ revoked \subseteq Numbers
    /\ issued \in 0..MaxIssued
    /\ life \in [Numbers -> {"valid", "leeway", "over"}]
    /\ device \in [Devices -> Credentials]
    /\ request \in [Requests -> Request \cup {Idle}]
    /\ ticks \in 0..MaxTicks
    /\ era \in Eras
    /\ loggedOut \subseteq Numbers
    /\ signedOut \subseteq Numbers

\* A session that a renewal would be granted to, as the database stands.
Live(s) ==
    /\ account.exists
    /\ ~account.suspended
    /\ ~s.over
    /\ s.version = account.version

\* A password reset or moderation decision ends every session and access token
\* that descends from an earlier check of the password or the provider, also
\* those that a login, upgrade or renewal under way writes after it commits.
ProofsAreCurrent ==
    /\ \A s \in sessions : Live(s) => s.era = era
    /\ \A d \in Devices : Accepted(device[d].access) => device[d].access.era = era

\* What makes it so, and is inductive: era and session_version move together,
\* and whatever is stored or under way carries the version of its era.
Kept(t) == t.version = t.era

VersionsKeepEras ==
    /\ account.version = era
    /\ \A s \in sessions : s.version = s.era
    /\ \A d \in Devices : Kept(device[d].access)
    /\ \A r \in Requests : request[r] # Idle =>
        /\ Kept(request[r].presented.access)
        /\ request[r].at = "checked" \/ request[r].op = "login" => Kept(request[r])

\* Secrets are numbered as they are issued.
SecretsWereIssued == \A s \in sessions : s.secret <= issued

\* The session a device signed in to knows the secret the device stores,
\* whatever answers were lost and whatever retries are still served: as the
\* current one, or as the one before it.
DeviceKeepsItsSession ==
    \A d \in Devices, s \in sessions :
        device[d].session = s.id => Knows(s, device[d].secret)

\* After a logout was served its session has no row, although a renewal of it
\* that the logout overtook may have rotated the secret in between.
LogoutEndsSession == \A s \in sessions : s.id \notin loggedOut

\* The access token presented to a logout is revoked until its exp is past.
SignedOutStaysOut == \A j \in signedOut : life[j] = "valid" => j \in revoked
=============================================================================
