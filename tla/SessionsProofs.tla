--------------------------- MODULE SessionsProofs ---------------------------
(***************************************************************************)
(* For every number of devices, requests in flight, resets and decisions:  *)
(* the types of Sessions; a password reset or a moderation decision ends   *)
(* all that descends from an earlier check; a device keeps its session     *)
(* until a logout ends it for good.                                        *)
(***************************************************************************)
EXTENDS Sessions, TLAPS

IInv == TypeOK /\ SecretsWereIssued /\ VersionsKeepEras

-----------------------------------------------------------------------------
\* Requests.

LEMMA IdleIsApart ==
    /\ Idle.awaited = FALSE
    /\ Idle.device = None
PROOF
  BY DEF Idle

LEMMA NothingIsTyped ==
    /\ Nothing \in Credentials
    /\ Kept(Nothing.access)
PROOF
  BY SessionsAssumption DEF Nothing, NoToken, Credentials, Token, Eras, Kept

\* A request that ends or moves on leaves the others alone.
LEMMA RequestEnds ==
    ASSUME IInv, NEW r \in Requests, Done(r)
    PROVE  /\ request' \in [Requests -> Request \cup {Idle}]
           /\ \A q \in Requests : request'[q] \in {request[q], Idle}
PROOF
  BY DEF IInv, TypeOK, Done

\* A device that gets an answer, or none.
LEMMA RefusedDevices ==
    ASSUME IInv, NEW r \in Requests, Refuse(r)
    PROVE  IInv'
PROOF
  <1>1. /\ device' \in [Devices -> Credentials]
        /\ \A d \in Devices : Kept(device'[d].access)
    BY NothingIsTyped DEF IInv, TypeOK, Refuse, VersionsKeepEras
  <1>2. /\ request' \in [Requests -> Request \cup {Idle}]
        /\ \A q \in Requests : request'[q] \in {request[q], Idle}
    BY RequestEnds DEF Refuse
  <1>3. TypeOK'
    BY <1>1, <1>2 DEF IInv, TypeOK, Refuse
  <1>4. VersionsKeepEras'
    BY <1>1, <1>2 DEF IInv, VersionsKeepEras, Refuse, Kept
  <1>. QED
    BY <1>3, <1>4 DEF IInv, SecretsWereIssued, Refuse

\* A device asks: its request presents what it stores.
LEMMA SentRequest ==
    ASSUME IInv, NEW r \in Requests, NEW d \in Devices,
           NEW op \in {"login", "oauth", "upgrade", "renew"},
           NEW at \in {"sent", "read", "checked"}, NEW native \in BOOLEAN,
           op = "login" => at # "sent",
           Send(r, d, op, at, native),
           UNCHANGED <<account, link, mailed, sessions, revoked, issued, life,
                       device, ticks, era, loggedOut, signedOut>>
    PROVE  IInv'
PROOF
  <1> DEFINE x == [op |-> op, at |-> at, device |-> d, awaited |-> TRUE,
                   native |-> native, presented |-> device[d],
                   version |-> IF at = "sent" THEN 0 ELSE account.version,
                   era     |-> IF at = "sent" THEN 0 ELSE era]
  <1>1. x \in Request /\ Kept(x.presented.access) /\ Kept(x)
    BY SessionsAssumption
    DEF IInv, TypeOK, VersionsKeepEras, Request, Account, Eras, Kept
  <1>2. request' = [request EXCEPT ![r] = x]
    BY DEF Send
  <1>. HIDE DEF x
  <1>3. TypeOK'
    BY <1>1, <1>2 DEF IInv, TypeOK
  <1>4. VersionsKeepEras'
    BY <1>1, <1>2 DEF IInv, TypeOK, VersionsKeepEras, Kept
  <1>. QED
    BY <1>3, <1>4 DEF IInv, SecretsWereIssued

LEMMA LogoutAsked ==
    ASSUME IInv, NEW r \in Requests, NEW d \in Devices, Logout(r, d)
    PROVE  IInv'
PROOF
  <1> DEFINE x == [op |-> "logout", at |-> "sent", device |-> d,
                   awaited |-> FALSE, native |-> TRUE,
                   presented |-> device[d], version |-> 0, era |-> 0]
  <1>1. x \in Request /\ Kept(x.presented.access) /\ Kept(x)
    BY SessionsAssumption
    DEF IInv, TypeOK, VersionsKeepEras, Request, Eras, Kept
  <1>2. \A q \in Requests : request[q] # Idle =>
            LET y == [request[q] EXCEPT !.awaited = FALSE] IN
            /\ y \in Request
            /\ y.presented = request[q].presented
            /\ y.version = request[q].version /\ y.era = request[q].era
            /\ y.at = request[q].at /\ y.op = request[q].op
    BY DEF IInv, TypeOK, Request
  <1>3. \A q \in Requests : request[q].device = d => request[q] # Idle
    BY IdleIsApart, SessionsAssumption
  <1>4. request' = [q \in Requests |->
            IF q = r THEN x
            ELSE IF request[q].device = d
                 THEN [request[q] EXCEPT !.awaited = FALSE] ELSE request[q]]
    BY DEF Logout
  <1>. HIDE DEF x
  <1>5. request' \in [Requests -> Request \cup {Idle}]
    BY <1>1, <1>2, <1>3, <1>4 DEF IInv, TypeOK
  <1>6. /\ device' \in [Devices -> Credentials]
        /\ \A e \in Devices : Kept(device'[e].access)
    BY NothingIsTyped DEF IInv, TypeOK, Logout, VersionsKeepEras
  <1>7. TypeOK'
    BY <1>5, <1>6 DEF IInv, TypeOK, Logout
  <1>8. \A q \in Requests : request'[q] # Idle =>
            /\ Kept(request'[q].presented.access)
            /\ request'[q].at = "checked" \/ request'[q].op = "login" =>
                    Kept(request'[q])
    BY <1>1, <1>2, <1>3, <1>4 DEF IInv, VersionsKeepEras, Kept
  <1>9. VersionsKeepEras'
    BY <1>6, <1>8 DEF IInv, VersionsKeepEras, Logout, Kept
  <1>. QED
    BY <1>7, <1>9 DEF IInv, SecretsWereIssued, Logout

LEMMA Abandoned ==
    ASSUME IInv, NEW r \in Requests, Abandon(r)
    PROVE  IInv'
PROOF
  <1> DEFINE y == [request[r] EXCEPT !.awaited = FALSE]
  <1>1. request[r] \in Request
    BY IdleIsApart DEF IInv, TypeOK, Abandon
  <1>2. /\ y \in Request
        /\ y.presented = request[r].presented
        /\ y.version = request[r].version /\ y.era = request[r].era
        /\ y.at = request[r].at /\ y.op = request[r].op
    BY <1>1 DEF Request
  <1>3. request[r] # Idle
    BY IdleIsApart DEF Abandon
  <1>4. request' = [request EXCEPT ![r] = y]
    BY DEF Abandon
  <1>. HIDE DEF y
  <1>5. TypeOK'
    BY <1>2, <1>4 DEF IInv, TypeOK, Abandon
  <1>6. VersionsKeepEras'
    BY <1>2, <1>3, <1>4 DEF IInv, TypeOK, VersionsKeepEras, Abandon, Kept
  <1>. QED
    BY <1>5, <1>6 DEF IInv, SecretsWereIssued, Abandon

LEMMA Failed ==
    ASSUME IInv, NEW r \in Requests, Fail(r)
    PROVE  IInv'
PROOF
  <1>1. /\ request' \in [Requests -> Request \cup {Idle}]
        /\ \A q \in Requests : request'[q] \in {request[q], Idle}
    BY RequestEnds DEF Fail
  <1>2. TypeOK'
    BY <1>1 DEF IInv, TypeOK, Fail
  <1>3. VersionsKeepEras'
    BY <1>1 DEF IInv, VersionsKeepEras, Fail, Kept
  <1>. QED
    BY <1>2, <1>3 DEF IInv, SecretsWereIssued, Fail

-----------------------------------------------------------------------------
\* A request that moves on to y, with nothing else a session depends on.

LEMMA RequestMoves ==
    ASSUME IInv, NEW r \in Requests, NEW y \in Request,
           Kept(y.presented.access),
           y.at = "checked" \/ y.op = "login" => Kept(y),
           request' = [request EXCEPT ![r] = y]
    PROVE  /\ request' \in [Requests -> Request \cup {Idle}]
           /\ \A q \in Requests : request'[q] # Idle =>
                /\ Kept(request'[q].presented.access)
                /\ request'[q].at = "checked" \/ request'[q].op = "login" =>
                        Kept(request'[q])
PROOF
  BY DEF IInv, TypeOK, VersionsKeepEras

LEMMA LoginMarked ==
    ASSUME IInv, NEW r \in Requests, LoginMarks(r)
    PROVE  IInv'
PROOF
  <1> DEFINE y == [request[r] EXCEPT !.at = "checked"]
  <1>1. request[r] \in Request /\ request[r] # Idle /\ request[r].op = "login"
    BY DEF IInv, TypeOK, LoginMarks, Serving
  <1>2. y \in Request /\ Kept(y.presented.access) /\ Kept(y)
    BY <1>1 DEF Request, IInv, VersionsKeepEras, Kept
  <1>3. request' = [request EXCEPT ![r] = y]
    BY DEF LoginMarks
  <1>. HIDE DEF y
  <1>4. /\ account' \in Account
        /\ account'.version = account.version
    BY DEF IInv, TypeOK, Account, LoginMarks
  <1>5. TypeOK'
    BY <1>2, <1>3, <1>4, RequestMoves DEF IInv, TypeOK, LoginMarks
  <1>6. VersionsKeepEras'
    BY <1>2, <1>3, <1>4, RequestMoves
    DEF IInv, VersionsKeepEras, LoginMarks, Kept
  <1>. QED
    BY <1>5, <1>6 DEF IInv, SecretsWereIssued, LoginMarks

LEMMA UpgradeChecked ==
    ASSUME IInv, NEW r \in Requests, UpgradeChecks(r)
    PROVE  IInv'
PROOF
  <1> DEFINE t == request[r].presented.access
             y == [request[r] EXCEPT !.at      = "checked",
                                     !.version = account.version,
                                     !.era     = t.era]
  <1>1. request[r] \in Request /\ request[r] # Idle
    BY DEF IInv, TypeOK, UpgradeChecks, Serving
  <1>2. t.version = account.version /\ Kept(t) /\ t \in Token
    BY <1>1 DEF UpgradeChecks, Accepted, IInv, VersionsKeepEras, Request,
                Credentials
  <1>3. y \in Request /\ Kept(y.presented.access) /\ Kept(y)
    BY <1>1, <1>2 DEF Request, Token, Kept
  <1>4. request' = [request EXCEPT ![r] = y]
    BY DEF UpgradeChecks
  <1>. HIDE DEF y, t
  <1>5. TypeOK'
    BY <1>3, <1>4, RequestMoves DEF IInv, TypeOK, UpgradeChecks
  <1>6. VersionsKeepEras'
    BY <1>3, <1>4, RequestMoves DEF IInv, VersionsKeepEras, UpgradeChecks, Kept
  <1>. QED
    BY <1>5, <1>6 DEF IInv, SecretsWereIssued, UpgradeChecks

LEMMA RenewRead ==
    ASSUME IInv, NEW r \in Requests, RenewReads(r)
    PROVE  IInv'
PROOF
  <1> DEFINE y == [request[r] EXCEPT !.at = "read", !.version = account.version]
  <1>1. request[r] \in Request /\ request[r] # Idle /\ request[r].op = "renew"
    BY DEF IInv, TypeOK, RenewReads, Serving
  <1>2. /\ y \in Request /\ Kept(y.presented.access)
        /\ y.at = "read" /\ y.op = "renew"
    BY <1>1 DEF Request, IInv, TypeOK, Account, VersionsKeepEras
  <1>3. request' = [request EXCEPT ![r] = y]
    BY DEF RenewReads
  <1>. HIDE DEF y
  <1>4. TypeOK'
    BY <1>2, <1>3, RequestMoves DEF IInv, TypeOK, RenewReads
  <1>5. VersionsKeepEras'
    BY <1>2, <1>3, RequestMoves DEF IInv, VersionsKeepEras, RenewReads, Kept
  <1>. QED
    BY <1>4, <1>5 DEF IInv, SecretsWereIssued, RenewReads

LEMMA LogoutServed ==
    ASSUME IInv, NEW r \in Requests, LogoutDeletes(r)
    PROVE  IInv'
PROOF
  <1> DEFINE y == [request[r] EXCEPT !.at = "deleted"]
  <1>1. request[r] \in Request /\ request[r] # Idle /\ request[r].op = "logout"
    BY DEF IInv, TypeOK, LogoutDeletes, Serving
  <1>2. /\ y \in Request /\ Kept(y.presented.access)
        /\ y.at = "deleted" /\ y.op = "logout"
    BY <1>1 DEF Request, IInv, VersionsKeepEras
  <1>3. request' = [request EXCEPT ![r] = y]
    BY DEF LogoutDeletes
  <1>4. loggedOut' \subseteq Numbers
    BY <1>1, SessionsAssumption
    DEF LogoutDeletes, IInv, TypeOK, Request, Credentials, Numbers
  <1>. HIDE DEF y
  <1>5. TypeOK'
    BY <1>2, <1>3, <1>4, RequestMoves DEF IInv, TypeOK, LogoutDeletes
  <1>6. VersionsKeepEras'
    BY <1>2, <1>3, RequestMoves DEF IInv, VersionsKeepEras, LogoutDeletes, Kept
  <1>. QED
    BY <1>5, <1>6 DEF IInv, SecretsWereIssued, LogoutDeletes

LEMMA LogoutRevoked ==
    ASSUME IInv, NEW r \in Requests, LogoutRevokes(r)
    PROVE  IInv'
PROOF
  <1>1. /\ request' \in [Requests -> Request \cup {Idle}]
        /\ \A q \in Requests : request'[q] \in {request[q], Idle}
    BY RequestEnds DEF LogoutRevokes
  <1>2. request[r] \in Request
    BY DEF IInv, TypeOK, LogoutRevokes, Serving
  <1>3. request[r].presented.access.jti \in 0..MaxIssued
    BY <1>2 DEF Request, Credentials, Token
  <1> DEFINE j == request[r].presented.access.jti
  <1>4. j # 0 => j \in Numbers
    BY <1>3, SessionsAssumption DEF Numbers
  <1>5. /\ revoked' \subseteq revoked \cup ({j} \ {0})
        /\ signedOut' = signedOut \cup ({j} \ {0})
    BY DEF LogoutRevokes, Decodes
  <1>6. revoked' \subseteq Numbers /\ signedOut' \subseteq Numbers
    BY <1>4, <1>5 DEF IInv, TypeOK
  <1>7. TypeOK'
    BY <1>1, <1>6 DEF IInv, TypeOK, LogoutRevokes
  <1>8. VersionsKeepEras'
    BY <1>1 DEF IInv, VersionsKeepEras, LogoutRevokes, Kept
  <1>. QED
    BY <1>7, <1>8 DEF IInv, SecretsWereIssued, LogoutRevokes

-----------------------------------------------------------------------------
\* Answers with a token.

LEMMA Answered ==
    ASSUME IInv, NEW r \in Requests, NEW version \in Eras, NEW mobile \in BOOLEAN,
           NEW secret \in 0..MaxIssued, NEW session \in 0..MaxIssued,
           Answer(r, version, version, mobile, secret, session)
    PROVE  /\ issued' = issued + 1 /\ issued' \in Numbers
           /\ device' \in [Devices -> Credentials]
           /\ \A d \in Devices : Kept(device'[d].access)
           /\ request' \in [Requests -> Request \cup {Idle}]
           /\ \A q \in Requests : request'[q] \in {request[q], Idle}
PROOF
  <1> DEFINE t == [jti |-> issued + 1, version |-> version, mobile |-> mobile,
                   era |-> version]
             c == [access |-> t, secret |-> secret, session |-> session]
  <1>1. issued' = issued + 1 /\ issued' \in Numbers
    BY SessionsAssumption DEF IInv, TypeOK, Answer, Numbers
  <1>2. c \in Credentials /\ Kept(c.access)
    BY <1>1, SessionsAssumption DEF Credentials, Token, Kept, Numbers
  <1>3. device' = IF request[r].awaited
                  THEN [device EXCEPT ![request[r].device] = c] ELSE device
    BY DEF Answer
  <1>. HIDE DEF c
  <1>4. /\ device' \in [Devices -> Credentials]
        /\ \A d \in Devices : Kept(device'[d].access)
    BY <1>2, <1>3 DEF IInv, TypeOK, VersionsKeepEras
  <1>. QED
    BY <1>1, <1>4, RequestEnds DEF Answer

LEMMA SessionOpened ==
    ASSUME IInv, NEW r \in Requests, OpensSession(r)
    PROVE  IInv'
PROOF
  <1> DEFINE q == request[r]
             s == [id |-> issued + 1, version |-> q.version,
                   secret |-> issued + 1, previous |-> 0, retry |-> FALSE,
                   over |-> FALSE, era |-> q.era]
  <1>1. q \in Request /\ q.at = "checked" /\ q.version = q.era /\ q.era \in Eras
    BY DEF IInv, TypeOK, OpensSession, VersionsKeepEras, Kept, Request
  <1>2. issued + 1 \in Numbers /\ issued + 1 \in 0..MaxIssued /\ issued \in Nat
    BY SessionsAssumption DEF IInv, TypeOK, OpensSession, Answer, Numbers
  <1>3. Answer(r, q.version, q.version, TRUE, issued + 1, issued + 1)
    BY <1>1 DEF OpensSession, VersionOf
  <1>4. /\ issued' = issued + 1 /\ issued' \in Numbers
        /\ device' \in [Devices -> Credentials]
        /\ \A d \in Devices : Kept(device'[d].access)
        /\ request' \in [Requests -> Request \cup {Idle}]
        /\ \A p \in Requests : request'[p] \in {request[p], Idle}
    BY <1>1, <1>2, <1>3, Answered
  <1>5. /\ s \in Session /\ s.version = s.era
        /\ s.previous < s.secret /\ s.secret = issued + 1
    BY <1>1, <1>2, SessionsAssumption DEF Session
  <1>6. sessions' = sessions \cup {s}
    BY DEF OpensSession, VersionOf
  <1>. HIDE DEF s
  <1>7. /\ sessions' \subseteq Session
        /\ \A x \in sessions' : x.previous < x.secret /\ x.version = x.era
    BY <1>5, <1>6 DEF IInv, TypeOK, VersionsKeepEras
  <1>8. \A x \in sessions' : x.secret <= issued'
    BY <1>2, <1>4, <1>5, <1>6
    DEF IInv, TypeOK, SecretsWereIssued, Session, Numbers
  <1>9. TypeOK'
    BY <1>4, <1>7, SessionsAssumption DEF IInv, TypeOK, OpensSession, Numbers
  <1>10. VersionsKeepEras'
    BY <1>4, <1>7 DEF IInv, VersionsKeepEras, OpensSession, Kept
  <1>. QED
    BY <1>8, <1>9, <1>10 DEF IInv, SecretsWereIssued

LEMMA TokenIssued ==
    ASSUME IInv, NEW r \in Requests, IssuesToken(r)
    PROVE  IInv'
PROOF
  <1> DEFINE q == request[r]
  <1>1. q \in Request /\ q.version = q.era /\ q.version \in Eras
    BY DEF IInv, TypeOK, IssuesToken, VersionsKeepEras, Kept, Request
  <1>2. Answer(r, q.version, q.version, FALSE, 0, 0)
    BY <1>1 DEF IssuesToken
  <1>3. /\ issued' = issued + 1 /\ issued' \in Numbers
        /\ device' \in [Devices -> Credentials]
        /\ \A d \in Devices : Kept(device'[d].access)
        /\ request' \in [Requests -> Request \cup {Idle}]
        /\ \A p \in Requests : request'[p] \in {request[p], Idle}
    <2>1. 0 \in 0..MaxIssued
      BY SessionsAssumption
    <2>. QED
      BY <1>1, <1>2, <2>1, Answered
  <1>4. TypeOK'
    BY <1>3, SessionsAssumption DEF IInv, TypeOK, IssuesToken, Numbers
  <1>5. VersionsKeepEras'
    BY <1>3 DEF IInv, VersionsKeepEras, IssuesToken, Kept
  <1>6. SecretsWereIssued'
    BY <1>3
    DEF IInv, TypeOK, SecretsWereIssued, IssuesToken, Session, Numbers
  <1>. QED
    BY <1>4, <1>5, <1>6 DEF IInv

\* What a renewal leaves in place of a session.
LEMMA RotationIsSound ==
    ASSUME IInv, NEW s \in sessions, NEW presented, issued < MaxIssued
    PROVE  LET t == Rotated(s, presented, issued + 1) IN
           /\ t \in Session /\ t.version = t.era
           /\ t.previous < t.secret /\ t.secret <= issued + 1
           /\ t.id = s.id /\ t.era = s.era
PROOF
  <1> DEFINE t == [s EXCEPT !.previous = s.secret, !.retry = TRUE,
                            !.secret = issued + 1]
  <1>1. /\ s \in Session /\ s.version = s.era
        /\ s.previous < s.secret /\ s.secret <= issued
    BY DEF IInv, TypeOK, VersionsKeepEras, SecretsWereIssued
  <1>2. issued + 1 \in Numbers /\ issued \in Nat
    BY SessionsAssumption DEF IInv, TypeOK, Numbers
  <1>3. /\ t \in Session /\ t.version = t.era /\ t.id = s.id /\ t.era = s.era
        /\ t.previous = s.secret /\ t.secret = issued + 1
    <2>1. s.secret \in 0..MaxIssued
      BY <1>1, SessionsAssumption DEF Session, Numbers
    <2>. QED
      BY <1>1, <1>2, <2>1 DEF Session
  <1>4. s.secret \in Nat
    BY <1>1 DEF Session, Numbers
  <1>. QED
    BY <1>1, <1>2, <1>3, <1>4 DEF Rotated

LEMMA RenewCommitted ==
    ASSUME IInv, NEW r \in Requests, RenewCommits(r)
    PROVE  IInv'
PROOF
  <1>1. PICK s \in sessions :
            LET t == Rotated(s, request[r].presented.secret, issued + 1) IN
            /\ Renews(s, request[r])
            /\ sessions' = (sessions \ {s}) \cup {t}
            /\ Answer(r, request[r].version, s.era, TRUE, t.secret, s.id)
    BY DEF RenewCommits
  <1> DEFINE t == Rotated(s, request[r].presented.secret, issued + 1)
  <1>2. issued < MaxIssued /\ issued \in Nat
    BY <1>1, SessionsAssumption DEF Answer, IInv, TypeOK
  <1>3. /\ t \in Session /\ t.version = t.era
        /\ t.previous < t.secret /\ t.secret <= issued + 1
        /\ t.id = s.id /\ t.era = s.era
    BY <1>2, RotationIsSound
  <1>4. s.era \in Eras /\ request[r].version = s.era
    BY <1>1 DEF Renews, IInv, TypeOK, VersionsKeepEras, Session
  <1>5. t.secret \in 0..MaxIssued /\ s.id \in 0..MaxIssued
    BY <1>3, SessionsAssumption DEF Session, Numbers
  <1>. HIDE DEF t
  <1>6. Answer(r, s.era, s.era, TRUE, t.secret, s.id)
    BY <1>1, <1>4 DEF t
  <1>7. /\ issued' = issued + 1 /\ issued' \in Numbers
        /\ device' \in [Devices -> Credentials]
        /\ \A d \in Devices : Kept(device'[d].access)
        /\ request' \in [Requests -> Request \cup {Idle}]
        /\ \A p \in Requests : request'[p] \in {request[p], Idle}
    BY <1>4, <1>5, <1>6, Answered
  <1>8. sessions' = (sessions \ {s}) \cup {t}
    BY <1>1 DEF t
  <1>9. /\ sessions' \subseteq Session
        /\ \A x \in sessions' : x.previous < x.secret /\ x.version = x.era
    BY <1>3, <1>8 DEF IInv, TypeOK, VersionsKeepEras
  <1>10. \A x \in sessions' : x.secret <= issued'
    BY <1>2, <1>3, <1>7, <1>8
    DEF IInv, TypeOK, SecretsWereIssued, Session, Numbers
  <1>11. TypeOK'
    BY <1>7, <1>9, SessionsAssumption DEF IInv, TypeOK, RenewCommits, Numbers
  <1>12. VersionsKeepEras'
    BY <1>7, <1>9 DEF IInv, VersionsKeepEras, RenewCommits, Kept
  <1>. QED
    BY <1>10, <1>11, <1>12 DEF IInv, SecretsWereIssued

-----------------------------------------------------------------------------
\* The account, the clock and the cleanup.

LEMMA AccountChanged ==
    ASSUME IInv, AccountChanges
    PROVE  IInv'
PROOF
  <1>1. CASE RequestReset
    <2>1. TypeOK'
      BY <1>1, SessionsAssumption DEF IInv, TypeOK, RequestReset
    <2>. QED
      BY <1>1, <2>1
      DEF IInv, VersionsKeepEras, SecretsWereIssued, RequestReset, Kept
  <1>2. ASSUME NEW code \in 1..mailed, ConfirmReset(code) PROVE IInv'
    <2>1. /\ account' \in Account /\ account'.version = era'
          /\ era' \in Eras /\ link' \in [code : 0..MaxLinks, over : BOOLEAN]
      BY <1>2, SessionsAssumption
      DEF IInv, TypeOK, VersionsKeepEras, ConfirmReset, NextVersion, Account,
          Eras, NoLink
    <2>2. TypeOK'
      BY <1>2, <2>1 DEF IInv, TypeOK, ConfirmReset
    <2>. QED
      BY <1>2, <2>1, <2>2
      DEF IInv, VersionsKeepEras, SecretsWereIssued, ConfirmReset, Kept
  <1>3. ASSUME NEW suspend \in BOOLEAN, Moderate(suspend) PROVE IInv'
    <2>1. /\ account' \in Account /\ account'.version = era'
          /\ era' \in Eras
      <3>1. era + 1 \in Eras /\ account.version = era
        BY <1>3, SessionsAssumption DEF IInv, TypeOK, VersionsKeepEras, Moderate, Eras
      <3>2. account' = [account EXCEPT !.suspended = suspend, !.version = era + 1]
        BY <1>3, <3>1 DEF Moderate, NextVersion
      <3>. QED
        BY <1>3, <3>1, <3>2 DEF IInv, TypeOK, Moderate, Account
    <2>2. TypeOK'
      BY <1>3, <2>1 DEF IInv, TypeOK, Moderate
    <2>. QED
      BY <1>3, <2>1, <2>2
      DEF IInv, VersionsKeepEras, SecretsWereIssued, Moderate, Kept
  <1>4. CASE DeleteAccount
    <2>1. /\ account' \in Account /\ account'.version = account.version
          /\ link' \in [code : 0..MaxLinks, over : BOOLEAN]
      <3>1. link' \in [code : 0..MaxLinks, over : BOOLEAN]
        BY <1>4, SessionsAssumption DEF DeleteAccount, NoLink
      <3>. QED
        BY <1>4, <3>1 DEF IInv, TypeOK, DeleteAccount, Account
    <2>2. TypeOK'
      BY <1>4, <2>1 DEF IInv, TypeOK, DeleteAccount
    <2>. QED
      BY <1>4, <2>1, <2>2
      DEF IInv, VersionsKeepEras, SecretsWereIssued, DeleteAccount, Kept
  <1>. QED
    BY <1>1, <1>2, <1>3, <1>4 DEF AccountChanges

\* A deadline of one session passes.
LEMMA SessionAges ==
    ASSUME IInv, NEW s \in sessions, NEW t,
           t \in {[s EXCEPT !.retry = FALSE], [s EXCEPT !.over = TRUE]},
           Tick, sessions' = (sessions \ {s}) \cup {t},
           UNCHANGED <<account, link, mailed, revoked, issued, life, device,
                       request, era, loggedOut, signedOut>>
    PROVE  IInv'
PROOF
  <1>1. /\ t \in Session /\ t.version = t.era
        /\ t.previous < t.secret /\ t.secret <= issued
    BY DEF IInv, TypeOK, VersionsKeepEras, SecretsWereIssued, Session
  <1>2. TypeOK'
    BY <1>1, SessionsAssumption DEF IInv, TypeOK, Tick
  <1>3. VersionsKeepEras'
    BY <1>1 DEF IInv, VersionsKeepEras, Kept
  <1>. QED
    BY <1>1, <1>2, <1>3 DEF IInv, SecretsWereIssued

LEMMA TimePassed ==
    ASSUME IInv, TimePasses
    PROVE  IInv'
PROOF
  <1>1. ASSUME NEW j \in Numbers, TokenAges(j) PROVE IInv'
    <2>1. TypeOK'
      BY <1>1, SessionsAssumption DEF IInv, TypeOK, TokenAges, Tick
    <2>. QED
      BY <1>1, <2>1
      DEF IInv, VersionsKeepEras, SecretsWereIssued, TokenAges, Kept
  <1>2. ASSUME NEW s \in sessions, RetryLapses(s) \/ SessionExpires(s)
        PROVE  IInv'
    BY <1>2, SessionAges DEF RetryLapses, SessionExpires
  <1>3. CASE LinkExpires
    <2>1. link' \in [code : 0..MaxLinks, over : BOOLEAN]
      BY <1>3 DEF IInv, TypeOK, LinkExpires
    <2>2. TypeOK'
      BY <1>3, <2>1, SessionsAssumption DEF IInv, TypeOK, LinkExpires, Tick
    <2>. QED
      BY <1>3, <2>2
      DEF IInv, VersionsKeepEras, SecretsWereIssued, LinkExpires, Kept
  <1>4. CASE CleanRevocations
    BY <1>4
    DEF IInv, TypeOK, VersionsKeepEras, SecretsWereIssued, CleanRevocations, Kept
  <1>5. CASE CleanSessions
    BY <1>5
    DEF IInv, TypeOK, VersionsKeepEras, SecretsWereIssued, CleanSessions, Kept
  <1>6. CASE CleanLinks
    <2>1. link' \in [code : 0..MaxLinks, over : BOOLEAN]
      BY <1>6, SessionsAssumption DEF CleanLinks, NoLink
    <2>. QED
      BY <1>6, <2>1
      DEF IInv, TypeOK, VersionsKeepEras, SecretsWereIssued, CleanLinks, Kept
  <1>. QED
    BY <1>1, <1>2, <1>3, <1>4, <1>5, <1>6 DEF TimePasses

-----------------------------------------------------------------------------
\* Next, and the theorems.

LEMMA AskedOrServed ==
    ASSUME IInv, NEW r \in Requests, Asks(r) \/ Serves(r)
    PROVE  IInv'
PROOF
  <1>1. ASSUME NEW d \in Devices, Login(r, d) PROVE IInv'
    BY <1>1, SentRequest DEF Login
  <1>2. ASSUME NEW d \in Devices, OAuthLogin(r, d) PROVE IInv'
    BY <1>2, SentRequest DEF OAuthLogin
  <1>3. ASSUME NEW d \in Devices, Renew(r, d) PROVE IInv'
    BY <1>3, SentRequest DEF Renew
  <1>4. ASSUME NEW d \in Devices, Upgrade(r, d) PROVE IInv'
    BY <1>4, SentRequest DEF Upgrade
  <1>5. Asks(r) => IInv'
    BY <1>1, <1>2, <1>3, <1>4, LogoutAsked, Abandoned DEF Asks
  <1>6. LoginRefused(r) \/ UpgradeRefused(r) \/ RenewRefused(r) => IInv'
    BY RefusedDevices DEF LoginRefused, UpgradeRefused, RenewRefused
  <1>7. Serves(r) => IInv'
    BY <1>6, LoginMarked, UpgradeChecked, SessionOpened, TokenIssued, RenewRead,
       RenewCommitted, LogoutServed, LogoutRevoked, Failed DEF Serves
  <1>. QED
    BY <1>5, <1>7

LEMMA InitiallyInductive == Init => IInv
PROOF
  <1> SUFFICES ASSUME Init PROVE IInv
    OBVIOUS
  <1>1. account = [exists |-> TRUE, version |-> 0, suspended |-> FALSE,
                  passwordLogin |-> PasswordAtFirst]
    BY DEF Init
  <1>2. TypeOK
    BY <1>1, SessionsAssumption, NothingIsTyped
    DEF Init, TypeOK, Account, Eras, NoLink, Numbers
  <1>3. VersionsKeepEras /\ SecretsWereIssued
    BY <1>1, NothingIsTyped DEF Init, VersionsKeepEras, SecretsWereIssued
  <1>. QED
    BY <1>2, <1>3 DEF IInv

LEMMA NextInductive ==
    ASSUME IInv, [Next]_vars
    PROVE  IInv'
PROOF
  <1>1. CASE UNCHANGED vars
    BY <1>1
    DEF vars, IInv, TypeOK, VersionsKeepEras, SecretsWereIssued, Kept
  <1>2. CASE Next
    BY <1>2, AskedOrServed, AccountChanged, TimePassed DEF Next
  <1>. QED
    BY <1>1, <1>2

\* Whatever is stored or under way carries the version of its era: login,
\* refresh_session, confirm_reset and moderate keep it together.
THEOREM SessionsInductive == Spec => []IInv
PROOF
  BY InitiallyInductive, NextInductive, PTL DEF Spec

\* The variables of the sessions have their types.
THEOREM SessionTypes == Spec => []TypeOK
PROOF
  <1>1. IInv => TypeOK
    BY DEF IInv
  <1>. QED
    BY <1>1, SessionsInductive, PTL

\* A reset or a moderation decision ends every session and access token that
\* descends from an earlier check, whatever was under way when it committed.
THEOREM ProofsStayCurrent == Spec => []ProofsAreCurrent
PROOF
  <1>1. IInv => ProofsAreCurrent
    BY DEF IInv, VersionsKeepEras, ProofsAreCurrent, Live, Accepted, Kept
  <1>. QED
    BY <1>1, SessionsInductive, PTL

-----------------------------------------------------------------------------
(* Which device holds which session: what makes logout end it.             *)

\* A session is known by its id and by each of its two secrets.
Identified ==
    /\ \A s \in sessions : s.id <= issued
    /\ \A s, t \in sessions : s.id = t.id => s = t
    /\ \A s, t \in sessions : Knows(s, t.secret) \/ Knows(s, t.previous) => s = t

\* Credentials on a device or in a request name the session of their secret.
Copy(c) ==
    /\ c.secret <= issued /\ c.session <= issued
    /\ c.session = 0 <=> c.secret = 0
    /\ \A s \in sessions : Knows(s, c.secret) => c.session = s.id

Copies ==
    /\ \A d \in Devices : Copy(device[d])
    /\ \A r \in Requests : request[r] # Idle => Copy(request[r].presented)

\* A device waits for one answer, and keeps what it asked with until then.
Waiting ==
    \A r \in Requests : request[r].awaited =>
        /\ request[r].presented = device[request[r].device]
        /\ \A q \in Requests :
               request[q].awaited /\ request[q].device = request[r].device => q = r

Leaves(r) == request[r] # Idle /\ request[r].op = "logout"

\* The holder of a session is one device, or the logout that took its place.
Apart ==
    /\ \A d, e \in Devices :
          device[d].session # 0 /\ device[d].session = device[e].session => d = e
    /\ \A r \in Requests : Leaves(r) /\ request[r].presented.session # 0 =>
          /\ \A d \in Devices : device[d].session # request[r].presented.session
          /\ \A q \in Requests :
                Leaves(q) /\ request[q].presented.session = request[r].presented.session
                    => q = r

\* The holder's session knows its secret, and no renewal under way presents a
\* later one: none can rotate that secret out of the row.
Holds(c) ==
    /\ \A s \in sessions : c.session = s.id => Knows(s, c.secret)
    /\ \A q \in Requests :
          request[q] # Idle /\ request[q].op = "renew"
                /\ request[q].presented.session = c.session
             => request[q].presented.secret <= c.secret

Holders ==
    /\ \A d \in Devices : Holds(device[d])
    /\ \A r \in Requests : Leaves(r) => Holds(request[r].presented)

\* A session that was logged out has no row, and its number is not used again.
LoggedOut == \A i \in loggedOut : i <= issued /\ \A s \in sessions : s.id # i

Chain == Identified /\ Copies /\ Waiting /\ Apart /\ Holders /\ LoggedOut

ChainInv == IInv /\ Chain

LEMMA NothingIsHeld ==
    Nothing.session = 0 /\ Nothing.secret = 0
PROOF
  BY DEF Nothing

\* What the types say of numbers.
LEMMA ChainNumbers ==
    ASSUME IInv
    PROVE  /\ issued \in Nat /\ issued <= MaxIssued /\ MaxIssued \in Nat
           /\ \A s \in sessions : /\ s.id \in Nat /\ s.id # 0
                                  /\ s.secret \in Nat /\ s.secret # 0
                                  /\ s.previous \in Nat /\ s.previous < s.secret
                                  /\ s.secret <= issued
           /\ \A d \in Devices : device[d].secret \in Nat /\ device[d].session \in Nat
           /\ \A r \in Requests : request[r] # Idle =>
                /\ request[r].presented.secret \in Nat
                /\ request[r].presented.session \in Nat
                /\ request[r].device \in Devices
                /\ request[r].presented \in Credentials
PROOF
  <1>1. issued \in Nat /\ issued <= MaxIssued /\ MaxIssued \in Nat
    BY SessionsAssumption DEF IInv, TypeOK
  <1>2. \A s \in sessions : /\ s.id \in Nat /\ s.id # 0
                            /\ s.secret \in Nat /\ s.secret # 0
                            /\ s.previous \in Nat /\ s.previous < s.secret
                            /\ s.secret <= issued
    BY <1>1 DEF IInv, TypeOK, SecretsWereIssued, Session, Numbers
  <1>3. \A c \in Credentials : c.secret \in Nat /\ c.session \in Nat
    BY <1>1 DEF Credentials
  <1>4. \A r \in Requests : request[r] # Idle => request[r] \in Request
    BY DEF IInv, TypeOK
  <1>5. \A q \in Request : q.presented \in Credentials /\ q.device \in Devices
    BY DEF Request
  <1>. QED
    BY <1>1, <1>2, <1>3, <1>4, <1>5 DEF IInv, TypeOK

\* Requests that go on present what they presented, and wait no more than before.
Follow == \A q \in Requests : request'[q] # Idle =>
              /\ request[q] # Idle
              /\ request'[q].presented = request[q].presented
              /\ request'[q].op = request[q].op
              /\ request'[q].device = request[q].device
              /\ request'[q].awaited => request[q].awaited

\* Rows go, requests go on or end, and devices keep what they store.
LEMMA RowsGo ==
    ASSUME Chain, Follow, sessions' \subseteq sessions, UNCHANGED <<device, issued>>,
           LoggedOut'
    PROVE  Chain'
PROOF
  <1>1. Identified'
    BY DEF Chain, Identified
  <1>2. Copies'
    BY DEF Chain, Copies, Copy, Follow
  <1>3. Waiting'
    BY IdleIsApart DEF Chain, Waiting, Follow
  <1>4. Apart'
    BY DEF Chain, Apart, Leaves, Follow
  <1>5. Holders'
    BY DEF Chain, Holders, Holds, Leaves, Follow
  <1>. QED
    BY <1>1, <1>2, <1>3, <1>4, <1>5 DEF Chain

LEMMA NothingGoes ==
    ASSUME Chain, Follow, UNCHANGED <<sessions, device, issued, loggedOut>>
    PROVE  Chain'
PROOF
  <1>1. LoggedOut'
    BY DEF Chain, LoggedOut
  <1>. QED
    BY <1>1, RowsGo

\* A request that ends.
LEMMA DoneFollows ==
    ASSUME IInv, NEW r \in Requests, Done(r)
    PROVE  Follow /\ request'[r] = Idle /\ \A q \in Requests : q # r => request'[q] = request[q]
PROOF
  BY DEF IInv, TypeOK, Done, Follow

\* A request that moves on to y.
LEMMA MoveFollows ==
    ASSUME IInv, NEW r \in Requests, NEW y, request[r] # Idle,
           request' = [request EXCEPT ![r] = y],
           y.presented = request[r].presented, y.op = request[r].op,
           y.device = request[r].device, y.awaited => request[r].awaited
    PROVE  Follow
PROOF
  BY DEF IInv, TypeOK, Follow

LEMMA QuietHandlers ==
    ASSUME ChainInv, NEW r \in Requests,
           LoginMarks(r) \/ UpgradeChecks(r) \/ RenewReads(r) \/ LogoutRevokes(r)
             \/ Fail(r) \/ Abandon(r)
    PROVE  Chain'
PROOF
  <1>1. IInv /\ Chain
    BY DEF ChainInv
  <1>2. CASE LogoutRevokes(r) \/ Fail(r)
    BY <1>1, <1>2, DoneFollows, NothingGoes DEF LogoutRevokes, Fail
  <1>3. CASE LoginMarks(r)
    <2> DEFINE y == [request[r] EXCEPT !.at = "checked"]
    <2>1. request[r] \in Request /\ request[r] # Idle
      BY <1>1, <1>3 DEF IInv, TypeOK, LoginMarks, Serving
    <2>2. /\ y.presented = request[r].presented /\ y.op = request[r].op
          /\ y.device = request[r].device /\ y.awaited = request[r].awaited
      BY <2>1 DEF Request
    <2>3. request' = [request EXCEPT ![r] = y]
      BY <1>3 DEF LoginMarks
    <2>. HIDE DEF y
    <2>. QED
      BY <1>1, <1>3, <2>1, <2>2, <2>3, MoveFollows, NothingGoes DEF LoginMarks
  <1>4. CASE UpgradeChecks(r)
    <2> DEFINE y == [request[r] EXCEPT !.at      = "checked",
                                       !.version = account.version,
                                       !.era     = request[r].presented.access.era]
    <2>1. request[r] \in Request /\ request[r] # Idle
      BY <1>1, <1>4 DEF IInv, TypeOK, UpgradeChecks, Serving
    <2>2. /\ y.presented = request[r].presented /\ y.op = request[r].op
          /\ y.device = request[r].device /\ y.awaited = request[r].awaited
      BY <2>1 DEF Request
    <2>3. request' = [request EXCEPT ![r] = y]
      BY <1>4 DEF UpgradeChecks
    <2>. HIDE DEF y
    <2>. QED
      BY <1>1, <1>4, <2>1, <2>2, <2>3, MoveFollows, NothingGoes DEF UpgradeChecks
  <1>5. CASE RenewReads(r)
    <2> DEFINE y == [request[r] EXCEPT !.at = "read", !.version = account.version]
    <2>1. request[r] \in Request /\ request[r] # Idle
      BY <1>1, <1>5 DEF IInv, TypeOK, RenewReads, Serving
    <2>2. /\ y.presented = request[r].presented /\ y.op = request[r].op
          /\ y.device = request[r].device /\ y.awaited = request[r].awaited
      BY <2>1 DEF Request
    <2>3. request' = [request EXCEPT ![r] = y]
      BY <1>5 DEF RenewReads
    <2>. HIDE DEF y
    <2>. QED
      BY <1>1, <1>5, <2>1, <2>2, <2>3, MoveFollows, NothingGoes DEF RenewReads
  <1>6. CASE Abandon(r)
    <2> DEFINE y == [request[r] EXCEPT !.awaited = FALSE]
    <2>1. request[r] \in Request /\ request[r] # Idle
      BY <1>1, <1>6, IdleIsApart DEF IInv, TypeOK, Abandon
    <2>2. /\ y.presented = request[r].presented /\ y.op = request[r].op
          /\ y.device = request[r].device /\ ~y.awaited
      BY <2>1 DEF Request
    <2>3. request' = [request EXCEPT ![r] = y]
      BY <1>6 DEF Abandon
    <2>. HIDE DEF y
    <2>. QED
      BY <1>1, <1>6, <2>1, <2>2, <2>3, MoveFollows, NothingGoes DEF Abandon
  <1>. QED
    BY <1>2, <1>3, <1>4, <1>5, <1>6

\* A request that is answered: its device may store something else now, and it
\* waits for nothing else.
LEMMA WaitingKept ==
    ASSUME ChainInv, NEW r \in Requests, request[r] # Idle, Done(r),
           \A e \in Devices : device'[e] = device[e]
                                \/ (request[r].awaited /\ e = request[r].device)
    PROVE  Waiting'
PROOF
  <1>1. IInv /\ Waiting
    BY DEF ChainInv, Chain
  <1>2. /\ request'[r] = Idle
        /\ \A q \in Requests : q # r => request'[q] = request[q]
    BY <1>1, DoneFollows
  <1>3. \A q \in Requests : request'[q].awaited =>
            /\ q # r /\ request'[q] = request[q] /\ request[q].device \in Devices
            /\ ~(request[r].awaited /\ request[q].device = request[r].device)
    BY <1>1, <1>2, IdleIsApart, ChainNumbers DEF Waiting
  <1>4. \A q \in Requests : request'[q].awaited =>
            device'[request[q].device] = device[request[q].device]
    BY <1>3
  <1>. QED
    BY <1>1, <1>3, <1>4 DEF Waiting

\* The device of an answered request holds no session any more, if it waited.
LEMMA EmptyAnswer ==
    ASSUME ChainInv, NEW r \in Requests, request[r] # Idle, Done(r),
           UNCHANGED <<sessions, loggedOut>>, issued' \in Nat, issued' >= issued,
           \A e \in Devices :
              \/ device'[e] = device[e]
              \/ /\ request[r].awaited /\ e = request[r].device
                 /\ device'[e].session = 0 /\ device'[e].secret = 0
    PROVE  Chain'
PROOF
  <1>1. IInv /\ Chain /\ Follow
    BY DoneFollows DEF ChainInv
  <1>2. Identified' /\ LoggedOut'
    BY <1>1, ChainNumbers, SessionsAssumption
    DEF Chain, Identified, LoggedOut, IInv, TypeOK, Numbers
  <1>3. Copies'
    <2>1. ASSUME NEW e \in Devices PROVE Copy(device[e])'
      BY <1>1, ChainNumbers DEF Chain, Copies, Copy, Knows
    <2>2. \A q \in Requests : request'[q] # Idle => Copy(request[q].presented)'
      BY <1>1, ChainNumbers DEF Chain, Copies, Copy, Follow
    <2>. QED
      BY <2>1, <2>2 DEF Copies
  <1>4. Waiting'
    BY WaitingKept
  <1>5. Apart'
    BY <1>1 DEF Chain, Apart, Leaves, Follow
  <1>6. Holders'
    <2>1. ASSUME NEW e \in Devices PROVE Holds(device[e])'
      <3>1. CASE device'[e] = device[e]
        BY <1>1, <3>1 DEF Chain, Holders, Holds, Follow
      <3>2. CASE device'[e].session = 0 /\ device'[e].secret = 0
        BY <1>1, <3>2, ChainNumbers DEF Chain, Holds, Copies, Copy, Follow
      <3>. QED
        BY <3>1, <3>2
    <2>2. \A q \in Requests : Leaves(q)' => Holds(request[q].presented)'
      BY <1>1 DEF Chain, Holders, Holds, Leaves, Follow
    <2>. QED
      BY <2>1, <2>2 DEF Holders
  <1>. QED
    BY <1>2, <1>3, <1>4, <1>5, <1>6 DEF Chain

LEMMA RefusedChain ==
    ASSUME ChainInv, NEW r \in Requests, request[r] # Idle, Refuse(r)
    PROVE  Chain'
PROOF
  <1>1. IInv
    BY DEF ChainInv
  <1>2. /\ Done(r) /\ UNCHANGED <<sessions, loggedOut, issued>>
        /\ issued \in Nat /\ issued' >= issued
    BY <1>1, ChainNumbers DEF Refuse
  <1>3. \A e \in Devices :
            device'[e] = device[e]
              \/ (request[r].awaited /\ e = request[r].device /\ device'[e] = Nothing)
    BY <1>1 DEF Refuse, IInv, TypeOK
  <1>. QED
    BY <1>2, <1>3, NothingIsHeld, EmptyAnswer

LEMMA TokenChain ==
    ASSUME ChainInv, NEW r \in Requests, IssuesToken(r)
    PROVE  Chain'
PROOF
  <1> DEFINE c == [access |-> [jti |-> issued + 1, version |-> request[r].version,
                               mobile |-> FALSE, era |-> request[r].era],
                   secret |-> 0, session |-> 0]
  <1>1. IInv /\ request[r] # Idle
    BY DEF ChainInv, IssuesToken
  <1>2. /\ Done(r) /\ UNCHANGED <<sessions, loggedOut>>
        /\ issued' \in Nat /\ issued' >= issued
    BY <1>1, ChainNumbers DEF IssuesToken, Answer
  <1>3. c.session = 0 /\ c.secret = 0
    OBVIOUS
  <1>4. device' = IF request[r].awaited
                  THEN [device EXCEPT ![request[r].device] = c] ELSE device
    BY DEF IssuesToken, Answer
  <1>. HIDE DEF c
  <1>5. \A e \in Devices :
            device'[e] = device[e]
              \/ (request[r].awaited /\ e = request[r].device /\ device'[e] = c)
    BY <1>1, <1>4 DEF IInv, TypeOK
  <1>. QED
    BY <1>1, <1>2, <1>3, <1>5, EmptyAnswer

\* A device that asks for a session, a token or a renewal presents what it holds.
LEMMA SentChain ==
    ASSUME ChainInv, NEW r \in Requests, NEW d \in Devices, Free(d),
           NEW op \in {"login", "oauth", "upgrade", "renew"}, NEW at, NEW native,
           Send(r, d, op, at, native),
           UNCHANGED <<sessions, issued, device, loggedOut>>
    PROVE  Chain'
PROOF
  <1> DEFINE x == [op |-> op, at |-> at, device |-> d, awaited |-> TRUE,
                   native |-> native, presented |-> device[d],
                   version |-> IF at = "sent" THEN 0 ELSE account.version,
                   era     |-> IF at = "sent" THEN 0 ELSE era]
  <1>1. IInv /\ Chain
    BY DEF ChainInv
  <1>2. x.op # "logout" /\ x.device = d /\ x.awaited /\ x.presented = device[d]
    OBVIOUS
  <1>3. request' = [request EXCEPT ![r] = x] /\ request[r] = Idle
    BY DEF Send
  <1>. HIDE DEF x
  <1>4. /\ request'[r] = x
        /\ \A q \in Requests : q # r => request'[q] = request[q]
    BY <1>1, <1>3 DEF IInv, TypeOK
  <1>5. Identified' /\ LoggedOut'
    BY <1>1 DEF Chain, Identified, LoggedOut
  <1>6. Copies'
    BY <1>1, <1>2, <1>4 DEF Chain, Copies, Copy
  <1>7. Waiting'
    <2>1. \A q \in Requests : q # r => ~(request'[q].device = d /\ request'[q].awaited)
      BY <1>4 DEF Free
    <2>. QED
      BY <1>1, <1>2, <1>4, <2>1 DEF Chain, Waiting
  <1>8. Apart'
    BY <1>1, <1>2, <1>4 DEF Chain, Apart, Leaves
  <1>9. Holders'
    <2>1. ASSUME NEW e \in Devices, device[d].session = device[e].session
          PROVE  device[d].secret <= device[e].secret
      BY <1>1, <2>1, ChainNumbers DEF Chain, Apart, Copies, Copy
    <2>2. \A e \in Devices : Holds(device[e])'
      BY <1>1, <1>2, <1>4, <2>1 DEF Chain, Holders, Holds
    <2>3. ASSUME NEW q \in Requests, Leaves(q),
                 device[d].session = request[q].presented.session
          PROVE  device[d].secret <= request[q].presented.secret
      BY <1>1, <2>3, ChainNumbers DEF Chain, Apart, Copies, Copy, Leaves
    <2>4. \A q \in Requests : Leaves(q)' => Holds(request[q].presented)'
      BY <1>1, <1>2, <1>4, <2>3 DEF Chain, Holders, Holds, Leaves
    <2>. QED
      BY <2>2, <2>4 DEF Holders
  <1>. QED
    BY <1>5, <1>6, <1>7, <1>8, <1>9 DEF Chain

\* A logout takes over what its device held; the device waits for nothing.
LEMMA LogoutChain ==
    ASSUME ChainInv, NEW r \in Requests, NEW d \in Devices, Logout(r, d)
    PROVE  Chain'
PROOF
  <1> DEFINE x == [op |-> "logout", at |-> "sent", device |-> d,
                   awaited |-> FALSE, native |-> TRUE,
                   presented |-> device[d], version |-> 0, era |-> 0]
  <1>1. IInv /\ Chain /\ request[r] = Idle
        /\ UNCHANGED <<sessions, issued, loggedOut>>
    BY DEF ChainInv, Logout
  <1>2. x.op = "logout" /\ x.device = d /\ ~x.awaited /\ x.presented = device[d]
    OBVIOUS
  <1>3. \A q \in Requests : request[q].device = d => request[q] # Idle
    BY IdleIsApart, SessionsAssumption
  <1>4. \A q \in Requests : request[q] # Idle =>
            LET y == [request[q] EXCEPT !.awaited = FALSE] IN
            /\ y.presented = request[q].presented /\ ~y.awaited
            /\ y.device = request[q].device /\ y.op = request[q].op
    BY <1>1 DEF IInv, TypeOK, Request
  <1>5. request' = [q \in Requests |->
            IF q = r THEN x
            ELSE IF request[q].device = d
                 THEN [request[q] EXCEPT !.awaited = FALSE] ELSE request[q]]
    BY DEF Logout
  <1>. HIDE DEF x
  <1>6. request'[r] = x
    BY <1>5
  <1>7. \A q \in Requests : q # r =>
            /\ request[q].device # d => request'[q] = request[q]
            /\ request[q].device = d => ~request'[q].awaited
            /\ request'[q] # Idle =>
                 /\ request[q] # Idle
                 /\ request'[q].presented = request[q].presented
                 /\ request'[q].op = request[q].op
                 /\ request'[q].device = request[q].device
    BY <1>3, <1>4, <1>5
  <1>8. device'[d] = Nothing /\ \A e \in Devices : e # d => device'[e] = device[e]
    BY <1>1 DEF Logout, IInv, TypeOK
  <1>9. device'[d].session = 0 /\ device'[d].secret = 0
    BY <1>8, NothingIsHeld
  <1>10. Identified' /\ LoggedOut'
    BY <1>1 DEF Chain, Identified, LoggedOut
  <1>11. Copies'
    <2>1. \A e \in Devices : Copy(device[e])'
      BY <1>1, <1>8, <1>9, ChainNumbers DEF Chain, Copies, Copy, Knows
    <2>2. \A q \in Requests : request'[q] # Idle => Copy(request[q].presented)'
      BY <1>1, <1>2, <1>6, <1>7 DEF Chain, Copies, Copy
    <2>. QED
      BY <2>1, <2>2 DEF Copies
  <1>12. Waiting'
    <2>1. \A q \in Requests : request'[q].awaited =>
              /\ q # r /\ request[q].device # d
              /\ request'[q] = request[q] /\ request[q].device \in Devices
      BY <1>1, <1>2, <1>6, <1>7, ChainNumbers, IdleIsApart
    <2>. QED
      BY <1>1, <1>8, <2>1 DEF Chain, Waiting
  <1>13. Apart'
    <2>1. \A q \in Requests : q # r => (Leaves(q)' => Leaves(q))
      BY <1>7 DEF Leaves
    <2>2. ASSUME NEW q \in Requests, q # r, Leaves(q)', request'[q].presented.session # 0
          PROVE  /\ \A e \in Devices : device'[e].session # request'[q].presented.session
                 /\ request'[q].presented.session # x.presented.session
                 /\ \A p \in Requests : p # r /\ Leaves(p)'
                        /\ request'[p].presented.session = request'[q].presented.session
                            => p = q
      BY <1>1, <1>2, <1>7, <1>8, <1>9, <2>1, <2>2 DEF Chain, Apart, Leaves
    <2>3. \A e \in Devices : x.presented.session # 0 =>
              device'[e].session # x.presented.session
      BY <1>1, <1>2, <1>8, <1>9 DEF Chain, Apart
    <2>4. \A e, f \in Devices :
              device'[e].session # 0 /\ device'[e].session = device'[f].session => e = f
      BY <1>1, <1>8, <1>9 DEF Chain, Apart
    <2>. QED
      BY <1>6, <2>2, <2>3, <2>4 DEF Apart
  <1>14. Holders'
    <2>1. \A q \in Requests : request'[q] # Idle /\ request'[q].op = "renew" =>
              /\ request[q] # Idle /\ request[q].op = "renew"
              /\ request'[q].presented = request[q].presented
      BY <1>2, <1>6, <1>7
    <2>3. \A e \in Devices : e # d => Holds(device[e])'
      BY <1>1, <1>8, <2>1 DEF Chain, Holders, Holds
    <2>4. Holds(device[d])'
      BY <1>1, <1>9, <2>1, ChainNumbers DEF Chain, Holds, Copies, Copy
    <2>5. Holds(request[r].presented)'
      BY <1>1, <1>2, <1>6, <2>1 DEF Chain, Holders, Holds
    <2>6. \A q \in Requests : q # r /\ Leaves(q)' => Holds(request[q].presented)'
      BY <1>1, <1>7, <2>1 DEF Chain, Holders, Holds, Leaves
    <2>. QED
      BY <2>3, <2>4, <2>5, <2>6 DEF Holders
  <1>. QED
    BY <1>10, <1>11, <1>12, <1>13, <1>14 DEF Chain

\* A session is opened under a number that nobody has seen.
LEMMA OpenedChain ==
    ASSUME ChainInv, NEW r \in Requests, OpensSession(r)
    PROVE  Chain'
PROOF
  <1> DEFINE n == issued + 1
             c == [access |-> [jti |-> n, version |-> VersionOf(request[r]),
                               mobile |-> TRUE, era |-> request[r].era],
                   secret |-> n, session |-> n]
             s == [id |-> n, version |-> VersionOf(request[r]),
                   secret |-> n, previous |-> 0, retry |-> FALSE,
                   over |-> FALSE, era |-> request[r].era]
  <1>1. IInv /\ Chain /\ request[r] # Idle /\ Done(r) /\ Follow
        /\ loggedOut' = loggedOut
    BY DoneFollows DEF ChainInv, OpensSession, Answer
  <1>2. c.session = n /\ c.secret = n /\ s.id = n /\ s.secret = n /\ s.previous = 0
    OBVIOUS
  <1>3. issued' = n /\ n \in Nat /\ issued \in Nat /\ n > issued
    BY <1>1, ChainNumbers DEF OpensSession, Answer
  <1>4. device' = IF request[r].awaited
                  THEN [device EXCEPT ![request[r].device] = c] ELSE device
    BY DEF OpensSession, Answer
  <1>5. sessions' = sessions \cup {s}
    BY DEF OpensSession
  <1>. HIDE DEF c, s
  <1>6. \A e \in Devices :
            device'[e] = device[e]
              \/ (request[r].awaited /\ e = request[r].device /\ device'[e] = c)
    BY <1>1, <1>4 DEF IInv, TypeOK
  <1>7. Identified'
    BY <1>1, <1>2, <1>3, <1>5, ChainNumbers DEF Chain, Identified, Knows
  <1>8. LoggedOut'
    BY <1>1, <1>2, <1>3, <1>5, SessionsAssumption
    DEF Chain, LoggedOut, IInv, TypeOK, Numbers
  <1>9. \A x \in sessions' : x \in sessions \/ x = s
    BY <1>5
  <1>10. Copies'
    <2>1. ASSUME NEW e \in Devices PROVE Copy(device[e])'
      <3>1. CASE device'[e] = device[e]
        BY <1>1, <1>2, <1>3, <1>9, <3>1, ChainNumbers DEF Chain, Copies, Copy, Knows
      <3>2. CASE device'[e] = c
        BY <1>1, <1>2, <1>3, <1>9, <3>2, ChainNumbers DEF Copy, Knows
      <3>. QED
        BY <1>6, <3>1, <3>2
    <2>2. \A q \in Requests : request'[q] # Idle => Copy(request[q].presented)'
      BY <1>1, <1>2, <1>3, <1>9, ChainNumbers DEF Chain, Copies, Copy, Follow, Knows
    <2>. QED
      BY <2>1, <2>2 DEF Copies
  <1>11. Waiting'
    BY <1>1, <1>6, WaitingKept
  <1>12. Apart'
    <2>1. \A e \in Devices : device[e].session < n
      BY <1>1, <1>3, ChainNumbers DEF Chain, Copies, Copy
    <2>2. \A q \in Requests : request[q] # Idle => request[q].presented.session < n
      BY <1>1, <1>3, ChainNumbers DEF Chain, Copies, Copy
    <2>3. \A e \in Devices : device'[e].session = n => e = request[r].device
      BY <1>3, <1>6, <2>1, ChainNumbers, <1>1
    <2>4. \A e \in Devices : device'[e].session # n => device'[e] = device[e]
      BY <1>2, <1>6
    <2>5. \A d, e \in Devices :
             device'[d].session # 0 /\ device'[d].session = device'[e].session => d = e
      BY <1>1, <2>3, <2>4 DEF Chain, Apart
    <2>6. \A q \in Requests : Leaves(q)' =>
              /\ Leaves(q) /\ request'[q].presented = request[q].presented
              /\ request'[q].presented.session # n
      BY <1>1, <1>3, <2>2, ChainNumbers DEF Follow, Leaves
    <2>7. ASSUME NEW q \in Requests, Leaves(q)', request'[q].presented.session # 0
          PROVE  /\ \A e \in Devices : device'[e].session # request'[q].presented.session
                 /\ \A p \in Requests : Leaves(p)'
                        /\ request'[p].presented.session = request'[q].presented.session
                            => p = q
      BY <1>1, <2>4, <2>6, <2>7 DEF Chain, Apart
    <2>. QED
      BY <2>5, <2>7 DEF Apart
  <1>13. Holders'
    <2>1. \A q \in Requests : request'[q] # Idle =>
              /\ request[q] # Idle /\ request'[q].presented = request[q].presented
              /\ request'[q].op = request[q].op
              /\ request[q].presented.session < n
      BY <1>1, <1>3, ChainNumbers DEF Follow, Chain, Copies, Copy
    <2>2. ASSUME NEW e \in Devices PROVE Holds(device[e])'
      <3>1. CASE device'[e] = device[e]
        <4>1. device[e].session < n
          BY <1>1, <1>3, ChainNumbers DEF Chain, Copies, Copy
        <4>. QED
          BY <1>1, <1>2, <1>3, <1>9, <2>1, <3>1, <4>1 DEF Chain, Holders, Holds
      <3>2. CASE device'[e] = c
        <4>1. \A x \in sessions : x.id # n
          BY <1>1, <1>3, ChainNumbers DEF Chain, Identified
        <4>. QED
          BY <1>2, <1>3, <1>9, <2>1, <3>2, <4>1 DEF Holds, Knows
      <3>. QED
        BY <1>6, <3>1, <3>2
    <2>3. ASSUME NEW q \in Requests, Leaves(q)' PROVE Holds(request[q].presented)'
      <3>1. Leaves(q) /\ request'[q].presented = request[q].presented
            /\ request[q].presented.session < n
        BY <2>1, <2>3 DEF Leaves
      <3>. QED
        BY <1>1, <1>2, <1>3, <1>9, <2>1, <3>1 DEF Chain, Holders, Holds
    <2>. QED
      BY <2>2, <2>3 DEF Holders
  <1>. QED
    BY <1>7, <1>8, <1>10, <1>11, <1>12, <1>13 DEF Chain

\* What a renewal leaves of the secrets of a session.
LEMMA RotationKeeps ==
    ASSUME IInv, NEW s \in sessions, NEW presented, Knows(s, presented), issued < MaxIssued
    PROVE  LET t == Rotated(s, presented, issued + 1) IN
           /\ t.id = s.id
           /\ presented <= t.secret
           /\ \/ t.secret = s.secret /\ t.previous = s.previous
              \/ /\ presented = s.secret
                 /\ t.secret = issued + 1 /\ t.previous = s.secret
PROOF
  <1> DEFINE t == [s EXCEPT !.previous = s.secret, !.retry = TRUE,
                            !.secret = issued + 1]
  <1>1. s \in Session /\ s.secret \in Nat /\ s.previous \in Nat /\ issued \in Nat
        /\ s.previous < s.secret /\ s.secret <= issued
    BY ChainNumbers DEF IInv, TypeOK
  <1>2. t.id = s.id /\ t.previous = s.secret /\ t.secret = issued + 1
    BY <1>1 DEF Session
  <1>3. presented \in {s.secret, s.previous}
    BY DEF Knows
  <1>. HIDE DEF t
  <1>4. Rotated(s, presented, issued + 1) = IF presented = s.secret THEN t ELSE s
    BY DEF Rotated, t
  <1>. QED
    BY <1>1, <1>2, <1>3, <1>4

\* A renewal: no secret that a holder still has falls out of the row.
LEMMA RenewedChain ==
    ASSUME ChainInv, NEW r \in Requests, RenewCommits(r)
    PROVE  Chain'
PROOF
  <1>1. /\ IInv /\ Chain /\ request[r] # Idle /\ request[r].op = "renew"
        /\ UNCHANGED loggedOut
    BY DEF ChainInv, RenewCommits, Serving
  <1>2. PICK s \in sessions :
            LET t == Rotated(s, request[r].presented.secret, issued + 1) IN
            /\ Renews(s, request[r])
            /\ sessions' = (sessions \ {s}) \cup {t}
            /\ Answer(r, request[r].version, s.era, TRUE, t.secret, s.id)
    BY DEF RenewCommits
  <1>x. PICK x : x = request[r].presented.secret
    OBVIOUS
  <1>t. PICK t : t = Rotated(s, x, issued + 1)
    OBVIOUS
  <1>c. PICK c : c = [access |-> [jti |-> issued + 1, version |-> request[r].version,
                                  mobile |-> TRUE, era |-> s.era],
                      secret |-> t.secret, session |-> s.id]
    OBVIOUS
  <1>n. PICK n : n = issued + 1
    OBVIOUS
  <1>3. c.secret = t.secret /\ c.session = s.id
    BY <1>c
  <1>4. /\ issued < MaxIssued /\ issued' = n /\ Done(r) /\ Follow
        /\ n \in Nat /\ issued \in Nat /\ n > issued
    BY <1>1, <1>2, <1>n, ChainNumbers, DoneFollows DEF Answer
  <1>5. Knows(s, x) /\ sessions' = (sessions \ {s}) \cup {t}
    BY <1>2, <1>x, <1>t DEF Renews
  <1>6. \A e \in Devices :
            device'[e] = device[e]
              \/ (request[r].awaited /\ e = request[r].device /\ device'[e] = c)
    <2>1. device' = IF request[r].awaited
                    THEN [device EXCEPT ![request[r].device] = c] ELSE device
      BY <1>2, <1>x, <1>t, <1>c DEF Answer
    <2>. QED
      BY <1>1, <2>1 DEF IInv, TypeOK
  <1>7. /\ t.id = s.id /\ x <= t.secret
        /\ \/ t.secret = s.secret /\ t.previous = s.previous
           \/ x = s.secret /\ t.secret = n /\ t.previous = s.secret
    BY <1>1, <1>4, <1>5, <1>t, <1>n, RotationKeeps
  <1>8. /\ s.id \in Nat /\ s.id # 0 /\ s.id <= issued
        /\ s.secret \in Nat /\ s.secret # 0 /\ s.secret <= issued
        /\ s.previous \in Nat /\ s.previous < s.secret
        /\ x \in Nat /\ request[r].presented.session = s.id
    BY <1>1, <1>5, <1>x, ChainNumbers DEF Chain, Identified, Copies, Copy
  <1>9. \A y \in sessions' : (y \in sessions /\ y # s /\ y.id # s.id) \/ y = t
    BY <1>1, <1>5 DEF Chain, Identified
  <1>10. \A secret : Knows(t, secret) /\ secret <= issued /\ secret \in Nat => Knows(s, secret)
    BY <1>4, <1>7, <1>8 DEF Knows
  <1>11. Identified'
    <2>1. \A y \in sessions' : y.id <= issued'
      BY <1>1, <1>4, <1>7, <1>8, <1>9, ChainNumbers DEF Chain, Identified
    <2>2. \A y, z \in sessions' : y.id = z.id => y = z
      BY <1>1, <1>7, <1>9 DEF Chain, Identified
    <2>3. ASSUME NEW y \in sessions, y # s
          PROVE  /\ ~Knows(y, t.secret) /\ ~Knows(y, t.previous)
                 /\ ~Knows(t, y.secret) /\ ~Knows(t, y.previous)
      <3>1. ~Knows(y, s.secret) /\ ~Knows(y, s.previous)
            /\ ~Knows(s, y.secret) /\ ~Knows(s, y.previous)
        BY <1>1, <2>3 DEF Chain, Identified
      <3>2. y.secret \in Nat /\ y.secret <= issued /\ y.previous \in Nat
            /\ y.previous <= issued
        BY <1>1, <1>4, <2>3, ChainNumbers
      <3>. QED
        BY <1>4, <1>7, <1>10, <3>1, <3>2 DEF Knows
    <2>4. \A y, z \in sessions' : Knows(y, z.secret) \/ Knows(y, z.previous) => y = z
      BY <1>1, <1>9, <2>3 DEF Chain, Identified
    <2>. QED
      BY <2>1, <2>2, <2>4 DEF Identified
  <1>12. LoggedOut'
    BY <1>1, <1>4, <1>7, <1>8, <1>9, SessionsAssumption
    DEF Chain, LoggedOut, IInv, TypeOK, Numbers
  <1>13. \A q \in Requests : request'[q] # Idle =>
            /\ request[q] # Idle /\ request'[q].presented = request[q].presented
            /\ request'[q].op = request[q].op
            /\ Copy(request[q].presented)
    BY <1>1, <1>4 DEF Follow, Chain, Copies
  <1>14. \A y \in sessions' : y # t => Knows(y, t.secret) = FALSE
    BY <1>4, <1>11, <1>5 DEF Identified, Knows
  <1>15. Copies'
    <2>1. ASSUME NEW k \in Credentials, Copy(k)
          PROVE  /\ k.secret <= n /\ k.session <= n
                 /\ k.session = 0 <=> k.secret = 0
                 /\ \A y \in sessions' : Knows(y, k.secret) => k.session = y.id
      <3>1. k.secret \in Nat /\ k.session \in Nat /\ k.secret <= issued /\ k.session <= issued
        BY <1>1, <2>1, ChainNumbers DEF Copy, Credentials
      <3>. QED
        BY <1>4, <1>5, <1>7, <1>9, <1>10, <2>1, <3>1 DEF Copy
    <2>2. ASSUME NEW e \in Devices PROVE Copy(device[e])'
      <3>1. CASE device'[e] = device[e]
        <4>1. Copy(device[e]) /\ device[e] \in Credentials
          BY <1>1 DEF Chain, Copies, IInv, TypeOK
        <4>. QED
          BY <1>4, <2>1, <3>1, <4>1 DEF Copy
      <3>2. CASE device'[e] = c
        BY <1>3, <1>4, <1>7, <1>8, <1>14, <3>2 DEF Copy
      <3>. QED
        BY <1>6, <3>1, <3>2
    <2>3. ASSUME NEW q \in Requests, request'[q] # Idle PROVE Copy(request[q].presented)'
      <3>1. Copy(request[q].presented) /\ request[q].presented \in Credentials
            /\ request'[q].presented = request[q].presented
        BY <1>1, <1>13, <2>3, ChainNumbers
      <3>. QED
        BY <1>4, <2>1, <3>1 DEF Copy
    <2>. QED
      BY <2>2, <2>3 DEF Copies
  <1>16. Waiting'
    BY <1>1, <1>4, <1>6, WaitingKept
  <1>17. \A e \in Devices : device'[e].session = device[e].session
    BY <1>1, <1>3, <1>6, <1>8 DEF Chain, Waiting
  <1>18. Apart'
    BY <1>1, <1>13, <1>17 DEF Chain, Apart, Leaves
  \* A holder of the session has the secret that is presented, or a later one.
  <1>19. ASSUME NEW k, Holds(k), k.secret \in Nat
         PROVE  \A y \in sessions' : k.session = y.id => Knows(y, k.secret)
    <2>1. k.session = s.id => Knows(s, k.secret) /\ x <= k.secret
      BY <1>1, <1>x, <1>8, <1>19 DEF Holds
    <2>2. k.session = s.id => Knows(t, k.secret)
      BY <1>4, <1>7, <1>8, <1>19, <2>1 DEF Knows
    <2>. QED
      BY <1>7, <1>9, <1>19, <2>2 DEF Holds
  <1>20. Holders'
    <2>1. ASSUME NEW e \in Devices PROVE Holds(device[e])'
      <3>1. CASE device'[e] = device[e]
        <4>1. Holds(device[e]) /\ device[e].secret \in Nat
          BY <1>1, ChainNumbers DEF Chain, Holders
        <4>. QED
          BY <1>13, <1>19, <3>1, <4>1 DEF Holds
      <3>2. CASE device'[e] = c /\ request[r].awaited /\ e = request[r].device
        <4>1. device[e] = request[r].presented /\ Holds(device[e])
          BY <1>1, <3>2 DEF Chain, Waiting, Holders
        <4>2. ASSUME NEW q \in Requests, request'[q] # Idle, request'[q].op = "renew",
                     request'[q].presented.session = s.id
              PROVE  request'[q].presented.secret <= t.secret
          <5>1. request[q].presented.secret <= x /\ request[q].presented.secret \in Nat
            BY <1>1, <1>x, <1>8, <1>13, <4>1, <4>2, ChainNumbers DEF Holds
          <5>. QED
            BY <1>4, <1>7, <1>8, <1>13, <4>2, <5>1
        <4>3. \A y \in sessions' : s.id = y.id => Knows(y, t.secret)
          BY <1>4, <1>7, <1>8, <1>9 DEF Knows
        <4>. QED
          BY <1>3, <3>2, <4>2, <4>3 DEF Holds
      <3>. QED
        BY <1>6, <3>1, <3>2
    <2>2. ASSUME NEW q \in Requests, Leaves(q)' PROVE Holds(request[q].presented)'
      <3>1. /\ Holds(request[q].presented) /\ request[q].presented.secret \in Nat
            /\ request'[q].presented = request[q].presented
        BY <1>1, <1>13, <2>2, ChainNumbers DEF Chain, Holders, Leaves
      <3>. QED
        BY <1>13, <1>19, <3>1 DEF Holds
    <2>. QED
      BY <2>1, <2>2 DEF Holders
  <1>. QED
    BY <1>11, <1>12, <1>15, <1>16, <1>18, <1>20 DEF Chain

\* A logout deletes the row: its secret is the current one or the last.
LEMMA LogoutServedChain ==
    ASSUME ChainInv, NEW r \in Requests, LogoutDeletes(r)
    PROVE  Chain'
PROOF
  <1> DEFINE y == [request[r] EXCEPT !.at = "deleted"]
  <1>1. IInv /\ Chain /\ Leaves(r) /\ request[r] \in Request
    BY DEF ChainInv, LogoutDeletes, Serving, Leaves, IInv, TypeOK
  <1>2. /\ y.presented = request[r].presented /\ y.op = request[r].op
        /\ y.device = request[r].device /\ y.awaited = request[r].awaited
    BY <1>1 DEF Request
  <1>3. request' = [request EXCEPT ![r] = y] /\ UNCHANGED <<device, issued>>
    BY DEF LogoutDeletes
  <1>. HIDE DEF y
  <1>4. Follow
    BY <1>1, <1>2, <1>3, MoveFollows DEF Leaves
  <1>5. /\ sessions' = {s \in sessions : ~LogsOut(s, request[r].presented.secret)}
        /\ loggedOut' = loggedOut \cup ({request[r].presented.session} \ {0})
    BY DEF LogoutDeletes
  <1>6. \A s \in sessions : s.id = request[r].presented.session =>
            LogsOut(s, request[r].presented.secret)
    BY <1>1 DEF Chain, Holders, Holds, Knows, LogsOut
  <1>7. request[r].presented.session <= issued
    BY <1>1 DEF Chain, Copies, Copy, Leaves
  <1>8. LoggedOut'
    BY <1>1, <1>3, <1>5, <1>6, <1>7 DEF Chain, LoggedOut
  <1>. QED
    BY <1>1, <1>3, <1>4, <1>5, <1>8, RowsGo

\* Nothing that happens to the account or with time gives a session away.
LEMMA NobodyAsks ==
    UNCHANGED request => Follow
PROOF
  BY DEF Follow

\* A deadline of a session passes: its secrets stay.
LEMMA AgedChain ==
    ASSUME ChainInv, NEW s \in sessions, NEW t,
           t \in {[s EXCEPT !.retry = FALSE], [s EXCEPT !.over = TRUE]},
           sessions' = (sessions \ {s}) \cup {t},
           UNCHANGED <<device, request, issued, loggedOut>>
    PROVE  Chain'
PROOF
  <1>1. IInv /\ Chain
    BY DEF ChainInv
  <1>2. t.id = s.id /\ t.secret = s.secret /\ t.previous = s.previous
    BY <1>1 DEF IInv, TypeOK, Session
  <1>3. \A y \in sessions' : (y \in sessions /\ y # s /\ y.id # s.id) \/ y = t
    BY <1>1 DEF Chain, Identified
  <1>4. \A k : Knows(t, k) <=> Knows(s, k)
    BY <1>2 DEF Knows
  <1>5. Identified'
    BY <1>1, <1>2, <1>3, <1>4 DEF Chain, Identified
  <1>6. Copies' /\ LoggedOut'
    BY <1>1, <1>2, <1>3, <1>4 DEF Chain, Copies, Copy, LoggedOut
  <1>7. Waiting' /\ Apart'
    BY <1>1 DEF Chain, Waiting, Apart, Leaves
  <1>8. Holders'
    BY <1>1, <1>2, <1>3, <1>4 DEF Chain, Holders, Holds, Leaves
  <1>. QED
    BY <1>5, <1>6, <1>7, <1>8 DEF Chain

LEMMA AccountChain ==
    ASSUME ChainInv, AccountChanges \/ TimePasses
    PROVE  Chain'
PROOF
  <1>1. IInv /\ Chain
    BY DEF ChainInv
  <1>2. CASE AccountChanges /\ ~DeleteAccount
    <2>1. UNCHANGED <<sessions, device, request, issued, loggedOut>>
      BY <1>2 DEF AccountChanges, RequestReset, ConfirmReset, Moderate
    <2>. QED
      BY <1>1, <2>1, NobodyAsks, NothingGoes
  <1>3. CASE DeleteAccount
    <2>1. sessions' = {} /\ UNCHANGED <<device, request, issued, loggedOut>>
      BY <1>3 DEF DeleteAccount
    <2>2. LoggedOut'
      BY <1>1, <2>1 DEF Chain, LoggedOut
    <2>. QED
      BY <1>1, <2>1, <2>2, NobodyAsks, RowsGo
  <1>4. CASE CleanSessions
    <2>1. sessions' \subseteq sessions /\ UNCHANGED <<device, request, issued, loggedOut>>
      BY <1>4 DEF CleanSessions
    <2>2. LoggedOut'
      BY <1>1, <2>1 DEF Chain, LoggedOut
    <2>. QED
      BY <1>1, <2>1, <2>2, NobodyAsks, RowsGo
  <1>5. ASSUME NEW s \in sessions, RetryLapses(s) \/ SessionExpires(s)
        PROVE  Chain'
    BY <1>5, AgedChain DEF RetryLapses, SessionExpires
  <1>6. CASE (\E j \in Numbers : TokenAges(j)) \/ LinkExpires \/ CleanRevocations \/ CleanLinks
    <2>1. UNCHANGED <<sessions, device, request, issued, loggedOut>>
      BY <1>6 DEF TokenAges, LinkExpires, CleanRevocations, CleanLinks
    <2>. QED
      BY <1>1, <2>1, NobodyAsks, NothingGoes
  <1>. QED
    BY <1>2, <1>3, <1>4, <1>5, <1>6 DEF TimePasses

LEMMA RequestChain ==
    ASSUME ChainInv, NEW r \in Requests, Asks(r) \/ Serves(r)
    PROVE  Chain'
PROOF
  <1>1. ASSUME NEW d \in Devices, Login(r, d) PROVE Chain'
    BY <1>1, SentChain DEF Login
  <1>2. ASSUME NEW d \in Devices, OAuthLogin(r, d) PROVE Chain'
    BY <1>2, SentChain DEF OAuthLogin
  <1>3. ASSUME NEW d \in Devices, Renew(r, d) PROVE Chain'
    BY <1>3, SentChain DEF Renew
  <1>4. ASSUME NEW d \in Devices, Upgrade(r, d) PROVE Chain'
    BY <1>4, SentChain DEF Upgrade
  <1>5. Asks(r) => Chain'
    BY <1>1, <1>2, <1>3, <1>4, LogoutChain, QuietHandlers DEF Asks
  <1>6. LoginRefused(r) \/ UpgradeRefused(r) \/ RenewRefused(r) => Chain'
    BY RefusedChain DEF LoginRefused, UpgradeRefused, RenewRefused, Serving
  <1>7. Serves(r) => Chain'
    BY <1>6, QuietHandlers, OpenedChain, TokenChain, RenewedChain, LogoutServedChain
    DEF Serves
  <1>. QED
    BY <1>5, <1>7

LEMMA InitiallyChained == Init => ChainInv
PROOF
  <1> SUFFICES ASSUME Init PROVE Chain
    BY InitiallyInductive DEF ChainInv
  <1>1. /\ sessions = {} /\ loggedOut = {} /\ issued = 0
        /\ \A d \in Devices : device[d].session = 0 /\ device[d].secret = 0
        /\ \A r \in Requests : request[r] = Idle
    BY NothingIsHeld DEF Init
  <1>. QED
    BY <1>1, IdleIsApart
    DEF Chain, Identified, Copies, Copy, Waiting, Apart, Leaves, Holders, Holds, LoggedOut

LEMMA NextChained ==
    ASSUME ChainInv, [Next]_vars
    PROVE  ChainInv'
PROOF
  <1>1. IInv'
    BY NextInductive DEF ChainInv
  <1>2. CASE UNCHANGED vars
    BY <1>1, <1>2, NobodyAsks, NothingGoes DEF vars, ChainInv
  <1>3. CASE Next
    <2>1. Chain'
      BY <1>3, RequestChain, AccountChain DEF Next
    <2>. QED
      BY <1>1, <2>1 DEF ChainInv
  <1>. QED
    BY <1>2, <1>3

\* Signing out is kept by each step on its own.
LEMMA NextSignedOut ==
    ASSUME IInv, SignedOutStaysOut, [Next]_vars
    PROVE  SignedOutStaysOut'
PROOF
  <1>1. CASE UNCHANGED <<signedOut, life, revoked>>
    BY <1>1 DEF SignedOutStaysOut
  <1>2. ASSUME NEW r \in Requests, LogoutRevokes(r) PROVE SignedOutStaysOut'
    BY <1>2 DEF LogoutRevokes, SignedOutStaysOut, Decodes
  <1>3. ASSUME NEW j \in Numbers, TokenAges(j) PROVE SignedOutStaysOut'
    BY <1>3 DEF TokenAges, SignedOutStaysOut, IInv, TypeOK
  <1>4. CASE CleanRevocations
    BY <1>4 DEF CleanRevocations, SignedOutStaysOut, Outdated
  <1>5. ASSUME NEW r \in Requests, Asks(r)
        PROVE  UNCHANGED <<signedOut, life, revoked>>
    BY <1>5 DEF Asks, Login, OAuthLogin, Renew, Upgrade, Logout, Abandon
  <1>6. ASSUME NEW r \in Requests, Serves(r), ~LogoutRevokes(r)
        PROVE  UNCHANGED <<signedOut, life, revoked>>
    BY <1>6 DEF Serves, LoginMarks, LoginRefused, UpgradeChecks, UpgradeRefused, Refuse,
                OpensSession, IssuesToken, RenewReads, RenewCommits, RenewRefused,
                LogoutDeletes, Fail
  <1>7. CASE AccountChanges
    BY <1>1, <1>7 DEF AccountChanges, RequestReset, ConfirmReset, Moderate, DeleteAccount
  <1>8. CASE TimePasses
    BY <1>1, <1>3, <1>4, <1>8
    DEF TimePasses, RetryLapses, SessionExpires, LinkExpires, CleanSessions, CleanLinks
  <1>. QED
    BY <1>1, <1>2, <1>5, <1>6, <1>7, <1>8 DEF Next, vars

\* Who holds which session: one device or the logout that took its place, with
\* a secret that its session knows and that no renewal under way can replace.
THEOREM ChainInductive == Spec => []ChainInv
PROOF
  BY InitiallyChained, NextChained, PTL DEF Spec

\* A device is never cut off by a lost answer: refresh_session keeps the secret
\* before the current one, and no late retry rotates twice past its device.
THEOREM DevicesKeepSessions == Spec => []DeviceKeepsItsSession
PROOF
  <1>1. ChainInv => DeviceKeepsItsSession
    BY DEF ChainInv, Chain, Holders, Holds, DeviceKeepsItsSession
  <1>. QED
    BY <1>1, ChainInductive, PTL

\* logout deletes the row of its session by either secret, so that a renewal it
\* overtook cannot keep the session alive, and no step brings the row back.
THEOREM LogoutsEndSessions == Spec => []LogoutEndsSession
PROOF
  <1>1. ChainInv => LogoutEndsSession
    BY DEF ChainInv, Chain, LoggedOut, LogoutEndsSession
  <1>. QED
    BY <1>1, ChainInductive, PTL

\* An access token presented to a logout is in revoked_auth_tokens until its
\* exp is past: cleanup_auth_state removes it no earlier.
THEOREM SignedOutIsRevoked == Spec => []SignedOutStaysOut
PROOF
  <1>1. Init => SignedOutStaysOut
    BY DEF Init, SignedOutStaysOut
  <1>. QED
    BY <1>1, NextSignedOut, SessionsInductive, PTL DEF Spec
=============================================================================
