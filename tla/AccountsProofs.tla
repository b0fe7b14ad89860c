--------------------------- MODULE AccountsProofs ---------------------------
(***************************************************************************)
(* For any addresses, subjects, requests in flight, workers and bounds: a  *)
(* link opens one account, and, when no client refreshes a credential of   *)
(* an account that is being deleted, no Apple token is forgotten.          *)
(*                                                                         *)
(* The first rests on the row that complete_registration holds FOR UPDATE: *)
(* TokensFresh and CompletionsHold are inductive by themselves.  The other *)
(* needs that what delete_account has read is still so when it commits     *)
(* (DeletionsHold): the foreign keys of links and credentials wait for the *)
(* users row that it holds.                                                *)
(***************************************************************************)
EXTENDS Accounts, TLAPS

-----------------------------------------------------------------------------
(* Requests.                                                               *)

LEMMA StepIsTyped ==
    ASSUME TypeOK, RequestsNamed, NEW r \in Requests,
           NEW x \in Request, Named(x), Step(r, x)
    PROVE  req' \in [Requests -> Request] /\ RequestsNamed'
PROOF
  <1>1. req' = [req EXCEPT ![r] = x]
    BY DEF Step
  <1>2. req' \in [Requests -> Request]
    BY <1>1 DEF TypeOK
  <1>3. \A q \in Requests : req'[q] = IF q = r THEN x ELSE req[q]
    BY <1>1 DEF TypeOK
  <1>4. \A q \in Requests : Named(req'[q])
    BY <1>3 DEF RequestsNamed
  <1>. QED
    BY <1>2, <1>4 DEF RequestsNamed

LEMMA IdleIsTyped == Idle \in Request /\ Named(Idle)
  BY AccountsAssumption DEF Idle, Request, PCs, Lacking, Named

LEMMA EndIsTyped ==
    ASSUME TypeOK, RequestsNamed, NEW r \in Requests, End(r)
    PROVE  req' \in [Requests -> Request] /\ RequestsNamed'
  BY StepIsTyped, IdleIsTyped DEF End

LEMMA SignedInIsTyped ==
    ASSUME TypeOK, RequestsNamed, NEW r \in Requests, NEW s \in Subjects,
           NEW u \in Ids, SignedIn(r, s, u)
    PROVE  req' \in [Requests -> Request] /\ RequestsNamed'
PROOF
  <1>1. CASE End(r)
    BY <1>1, EndIsTyped
  <1>2. ASSUME NEW c \in Clients,
               Step(r, [Idle EXCEPT !.pc = "exchange", !.user = u, !.client = c])
        PROVE  req' \in [Requests -> Request] /\ RequestsNamed'
    <2>1. [Idle EXCEPT !.pc = "exchange", !.user = u, !.client = c] \in Request
      BY IdleIsTyped DEF Request, PCs
    <2>2. Named([Idle EXCEPT !.pc = "exchange", !.user = u, !.client = c])
      BY IdleIsTyped DEF Named, Idle
    <2>. QED
      BY <1>2, <2>1, <2>2, StepIsTyped
  <1>. QED
    BY <1>1, <1>2 DEF SignedIn

-----------------------------------------------------------------------------
(* Types.                                                                  *)

LEMMA InsertUserIsTyped ==
    ASSUME TypeOK, NEW e \in Emails, InsertUser(e)
    PROVE  /\ minted + 1 \in Ids
           /\ users' \in [Ids -> Emails \cup {None}]
           /\ minted' \in 0..MaxAccounts
           /\ \A u \in Ids : users[u] # None => users'[u] # None
  BY AccountsAssumption DEF TypeOK, InsertUser, Ids

LEMMA StartIsTyped ==
    ASSUME TypeOK, RequestsNamed, NEW r \in Requests, Start(r)
    PROVE  TypeOK' /\ RequestsNamed'
PROOF
  <1>. USE DEF registrationVars, userVars, appleVars, jobVars
  <1>1. ASSUME NEW e \in Emails, StartRegister(r, e)
        PROVE  TypeOK' /\ RequestsNamed'
    <2>1. [Idle EXCEPT !.pc = "register", !.email = e] \in Request
      BY IdleIsTyped DEF Request, PCs
    <2>2. Named([Idle EXCEPT !.pc = "register", !.email = e])
      BY <1>1, IdleIsTyped DEF Named, Idle
    <2>3. req' \in [Requests -> Request] /\ RequestsNamed'
      <3>1. CASE Step(r, [Idle EXCEPT !.pc = "register", !.email = e])
        BY <3>1, <2>1, <2>2, StepIsTyped
      <3>2. CASE UNCHANGED req
        BY <3>2 DEF TypeOK, RequestsNamed
      <3>. QED
        BY <1>1, <3>1, <3>2 DEF StartRegister
    <2>4. pending' \in [Emails -> PendingRow \cup {NoRow}]
      BY <1>1 DEF StartRegister, TypeOK
    <2>. QED
      BY <1>1, <2>3, <2>4 DEF StartRegister, TypeOK
  <1>2. ASSUME NEW e \in Emails, StartDelete(r, e)
        PROVE  TypeOK' /\ RequestsNamed'
    <2>1. PICK u \in Ids : Step(r, [Idle EXCEPT !.pc = "delete", !.user = u])
      BY <1>2 DEF StartDelete
    <2>2. [Idle EXCEPT !.pc = "delete", !.user = u] \in Request
      BY IdleIsTyped DEF Request, PCs
    <2>3. Named([Idle EXCEPT !.pc = "delete", !.user = u])
      BY IdleIsTyped DEF Named, Idle
    <2>4. req' \in [Requests -> Request] /\ RequestsNamed'
      BY <2>1, <2>2, <2>3, StepIsTyped
    <2>. QED
      BY <1>2, <2>4 DEF StartDelete, TypeOK
  <1>3. ASSUME NEW e \in Emails, NEW n \in Tokens, StartComplete(r, e, n)
        PROVE  TypeOK' /\ RequestsNamed'
    <2>0. n \in 0..MaxTokens
      BY AccountsAssumption DEF Tokens
    <2>1. [Idle EXCEPT !.pc = "complete", !.email = e, !.number = n] \in Request
      BY <2>0, IdleIsTyped DEF Request, PCs
    <2>2. Named([Idle EXCEPT !.pc = "complete", !.email = e, !.number = n])
      BY IdleIsTyped DEF Named, Idle
    <2>3. req' \in [Requests -> Request] /\ RequestsNamed'
      <3>1. CASE Step(r, [Idle EXCEPT !.pc = "complete", !.email = e, !.number = n])
        BY <3>1, <2>1, <2>2, StepIsTyped
      <3>2. CASE UNCHANGED req
        BY <3>2 DEF TypeOK, RequestsNamed
      <3>. QED
        BY <1>3, <3>1, <3>2 DEF StartComplete
    <2>4. pending' \in [Emails -> PendingRow \cup {NoRow}]
      BY <1>3 DEF StartComplete, TypeOK
    <2>. QED
      BY <1>3, <2>3, <2>4 DEF StartComplete, TypeOK
  <1>4. ASSUME NEW s \in Subjects, NEW e \in Emails \cup {None}, StartOAuth(r, s, e)
        PROVE  TypeOK' /\ RequestsNamed'
    <2>1. req' \in [Requests -> Request] /\ RequestsNamed'
      <3>1. CASE identity[s] # None
        <4>1. identity[s] \in Ids
          BY <3>1 DEF TypeOK
        <4>2. SignedIn(r, s, identity[s])
          BY <1>4, <3>1 DEF StartOAuth
        <4>. QED
          BY <4>1, <4>2, SignedInIsTyped
      <3>2. CASE identity[s] = None
        <4>1. e \in Emails
          BY <1>4, <3>2 DEF StartOAuth
        <4>2. [Idle EXCEPT !.pc = "find", !.subject = s, !.email = e] \in Request
          BY <4>1, IdleIsTyped DEF Request, PCs
        <4>3. Named([Idle EXCEPT !.pc = "find", !.subject = s, !.email = e])
          BY <4>1, IdleIsTyped DEF Named, Idle
        <4>. QED
          BY <1>4, <3>2, <4>2, <4>3, StepIsTyped DEF StartOAuth
      <3>. QED
        BY <3>1, <3>2
    <2>. QED
      BY <1>4, <2>1 DEF StartOAuth, TypeOK
  <1>5. ASSUME NEW s \in Subjects, StartReauthorize(r, s)
        PROVE  TypeOK' /\ RequestsNamed'
    <2>1. identity[s] \in Ids
      BY <1>5 DEF StartReauthorize, TypeOK
    <2>2. SignedIn(r, s, identity[s])
      BY <1>5 DEF StartReauthorize, SignedIn
    <2>3. req' \in [Requests -> Request] /\ RequestsNamed'
      BY <2>1, <2>2, SignedInIsTyped
    <2>. QED
      BY <1>5, <2>3 DEF StartReauthorize, TypeOK
  <1>. QED
    BY <1>1, <1>2, <1>3, <1>4, <1>5 DEF Start

LEMMA AdvanceIsTyped ==
    ASSUME TypeOK, RequestsNamed, NEW r \in Requests, Advance(r)
    PROVE  TypeOK' /\ RequestsNamed'
PROOF
  <1>. USE DEF registrationVars, userVars, appleVars, jobVars
  <1>0. req[r] \in Request /\ Named(req[r])
    BY DEF TypeOK, RequestsNamed
  <1>1. CASE SaveRegistration(r)
    <2>1. req[r].email \in Emails
      BY <1>0, <1>1 DEF SaveRegistration, At, Named
    <2>2. /\ pending' \in [Emails -> PendingRow \cup {NoRow}]
          /\ issued' \in [Emails -> 0..MaxTokens]
      <3>1. CASE pending[req[r].email].resendable
        BY <1>1, <3>1 DEF SaveRegistration, TypeOK
      <3>2. CASE ~pending[req[r].email].resendable
        <4>1. issued[req[r].email] + 1 \in Tokens /\ issued[req[r].email] + 1 \in 0..MaxTokens
          BY <1>1, <2>1, <3>2, AccountsAssumption DEF SaveRegistration, TypeOK, Tokens
        <4>2. [number |-> issued[req[r].email] + 1, live |-> TRUE, resendable |-> TRUE]
                \in PendingRow
          BY <4>1 DEF PendingRow
        <4>. QED
          BY <1>1, <3>2, <4>1, <4>2 DEF SaveRegistration, TypeOK
      <3>. QED
        BY <3>1, <3>2
    <2>3. PICK n : n \in Tokens /\ Step(r, [req[r] EXCEPT !.pc = "mail", !.number = n])
      <3>1. CASE pending[req[r].email].resendable
        <4>1. pending[req[r].email].number \in Tokens
          BY <2>1, <3>1 DEF TypeOK, PendingRow, NoRow
        <4>. QED
          BY <1>1, <3>1, <4>1 DEF SaveRegistration
      <3>2. CASE ~pending[req[r].email].resendable
        <4>1. issued[req[r].email] + 1 \in Tokens
          BY <1>1, <2>1, <3>2, AccountsAssumption DEF SaveRegistration, TypeOK, Tokens
        <4>. QED
          BY <1>1, <3>2, <4>1 DEF SaveRegistration
      <3>. QED
        BY <3>1, <3>2
    <2>4. n \in 0..MaxTokens
      BY <2>3, AccountsAssumption DEF Tokens
    <2>5. [req[r] EXCEPT !.pc = "mail", !.number = n] \in Request
      BY <1>0, <2>4 DEF Request, PCs
    <2>6. Named([req[r] EXCEPT !.pc = "mail", !.number = n])
      BY <1>0, <2>1, <2>3 DEF Named, Request
    <2>7. req' \in [Requests -> Request] /\ RequestsNamed'
      BY <2>3, <2>5, <2>6, StepIsTyped
    <2>. QED
      BY <1>1, <2>2, <2>7 DEF SaveRegistration, TypeOK
  <1>2. CASE SendVerification(r)
    <2>1. req' \in [Requests -> Request] /\ RequestsNamed'
      BY <1>2, EndIsTyped DEF SendVerification
    <2>2. mailed' \in [Emails -> SUBSET Tokens]
      BY <1>0, <1>2 DEF SendVerification, At, Named, TypeOK
    <2>. QED
      BY <1>2, <2>1, <2>2 DEF SendVerification, TypeOK
  <1>3. CASE CommitComplete(r)
    <2>0. req[r].email \in Emails /\ req[r].number \in Tokens
      BY <1>0, <1>3 DEF CommitComplete, At, Named
    <2>1. req' \in [Requests -> Request] /\ RequestsNamed'
      BY <1>3, EndIsTyped DEF CommitComplete
    <2>2. users' \in [Ids -> Emails \cup {None}] /\ minted' \in 0..MaxAccounts
      BY <1>3, <2>0, InsertUserIsTyped DEF CommitComplete, TypeOK
    <2>3. opened' \in [Emails -> [Tokens -> Nat]]
      <3>1. opened[req[r].email][req[r].number] + 1 \in Nat
        BY <2>0 DEF TypeOK
      <3>2. \/ UNCHANGED opened
            \/ opened' = [opened EXCEPT ![req[r].email][req[r].number] = @ + 1]
        BY <1>3 DEF CommitComplete
      <3>3. [opened[req[r].email] EXCEPT ![req[r].number] = opened[req[r].email][req[r].number] + 1]
              \in [Tokens -> Nat]
        BY <2>0, <3>1 DEF TypeOK
      <3>. QED
        BY <2>0, <3>2, <3>3 DEF TypeOK
    <2>4. pending' \in [Emails -> PendingRow \cup {NoRow}]
      BY <1>3 DEF CommitComplete, TypeOK
    <2>. QED
      BY <1>3, <2>1, <2>2, <2>3, <2>4 DEF CommitComplete, TypeOK
  <1>4. CASE FindUser(r)
    <2>0. req[r].email \in Emails
      BY <1>0, <1>4 DEF FindUser, At, Named
    <2>1. users' \in [Ids -> Emails \cup {None}] /\ minted' \in 0..MaxAccounts
      BY <1>4, <2>0, InsertUserIsTyped DEF FindUser, TypeOK
    <2>2. PICK u \in Ids : Step(r, [req[r] EXCEPT !.pc = "link", !.user = u])
      BY <1>4, <2>0, InsertUserIsTyped DEF FindUser
    <2>3. [req[r] EXCEPT !.pc = "link", !.user = u] \in Request
      BY <1>0 DEF Request, PCs
    <2>4. Named([req[r] EXCEPT !.pc = "link", !.user = u])
      BY <1>0 DEF Named, Request
    <2>5. req' \in [Requests -> Request] /\ RequestsNamed'
      BY <2>2, <2>3, <2>4, StepIsTyped
    <2>. QED
      BY <1>4, <2>1, <2>5 DEF FindUser, TypeOK
  <1>5. CASE LinkIdentity(r)
    <2>1. identity' \in [Subjects -> Ids \cup {None}]
      BY <1>0, <1>5 DEF LinkIdentity, TypeOK, Request
    <2>2. [req[r] EXCEPT !.pc = "clear"] \in Request
      BY <1>0 DEF Request, PCs
    <2>3. Named([req[r] EXCEPT !.pc = "clear"])
      BY <1>0 DEF Named, Request
    <2>4. req' \in [Requests -> Request] /\ RequestsNamed'
      BY <1>5, <2>2, <2>3, StepIsTyped DEF LinkIdentity
    <2>. QED
      BY <1>5, <2>1, <2>4 DEF LinkIdentity, TypeOK
  <1>6. CASE ClearPending(r)
    <2>1. pending' \in [Emails -> PendingRow \cup {NoRow}]
      BY <1>6 DEF ClearPending, TypeOK
    <2>2. [req[r] EXCEPT !.pc = "resolve"] \in Request
      BY <1>0 DEF Request, PCs
    <2>3. Named([req[r] EXCEPT !.pc = "resolve"])
      BY <1>0 DEF Named, Request
    <2>4. req' \in [Requests -> Request] /\ RequestsNamed'
      BY <1>6, <2>2, <2>3, StepIsTyped DEF ClearPending
    <2>. QED
      BY <1>6, <2>1, <2>4 DEF ClearPending, TypeOK
  <1>7. CASE ResolveIdentity(r)
    <2>1. CASE req[r].subject = None
      <3>1. CASE End(r)
        <4>1. req' \in [Requests -> Request] /\ RequestsNamed'
          BY <3>1, EndIsTyped
        <4>. QED
          BY <1>7, <4>1 DEF ResolveIdentity, TypeOK
      <3>2. CASE ~End(r)
        BY <1>7, <2>1, <3>2, AccountsAssumption DEF ResolveIdentity, SignedIn
      <3>. QED
        BY <3>1, <3>2
    <2>2. CASE req[r].subject # None
      <3>1. req[r].subject \in Subjects
        BY <1>0, <2>2 DEF Request
      <3>2. identity[req[r].subject] \in Ids
        BY <1>7, <3>1 DEF ResolveIdentity, TypeOK
      <3>3. req' \in [Requests -> Request] /\ RequestsNamed'
        BY <1>7, <3>1, <3>2, SignedInIsTyped DEF ResolveIdentity
      <3>. QED
        BY <1>7, <3>3 DEF ResolveIdentity, TypeOK
    <2>. QED
      BY <2>1, <2>2
  <1>8. CASE ExchangeCode(r)
    <2>1. grants + 1 \in Grants /\ grants + 1 \in 0..MaxGrants
      BY <1>8, AccountsAssumption DEF ExchangeCode, TypeOK, Grants
    <2>2. [req[r] EXCEPT !.pc = "store", !.grant = grants + 1] \in Request
      BY <1>0, <2>1 DEF Request, PCs
    <2>3. Named([req[r] EXCEPT !.pc = "store", !.grant = grants + 1])
      BY <1>0, <1>8, <2>1 DEF Named, Request, ExchangeCode, At
    <2>4. req' \in [Requests -> Request] /\ RequestsNamed'
      BY <1>8, <2>2, <2>3, StepIsTyped DEF ExchangeCode
    <2>. QED
      BY <1>8, <2>1, <2>4 DEF ExchangeCode, TypeOK
  <1>9. CASE StoreGrant(r)
    <2>1. req' \in [Requests -> Request] /\ RequestsNamed'
      BY <1>9, EndIsTyped DEF StoreGrant
    <2>2. req[r].user \in Ids /\ req[r].client \in Clients /\ req[r].grant \in Grants
      BY <1>0, <1>9 DEF StoreGrant, At, Named
    <2>3. Grants \subseteq 0..MaxGrants
      BY AccountsAssumption DEF Grants
    <2>4. credential[req[r].user][req[r].client] \in 0..MaxGrants
      BY <2>2 DEF TypeOK
    <2>5. credential' \in [Ids -> [Clients -> 0..MaxGrants]]
      BY <1>9, <2>2, <2>3 DEF StoreGrant, TypeOK
    <2>6. stored' \subseteq Grants /\ replaced' \subseteq Grants
      <3>1. {credential[req[r].user][req[r].client]} \ {Lacking} \subseteq Grants
        BY <2>4, AccountsAssumption DEF Grants, Lacking
      <3>. QED
        BY <1>9, <2>2, <3>1 DEF StoreGrant, TypeOK
    <2>. QED
      BY <1>9, <2>1, <2>5, <2>6 DEF StoreGrant, TypeOK
  <1>10. CASE CopyCredentials(r)
    <2>1. req[r].user \in Ids
      BY <1>0, <1>10 DEF CopyCredentials, At, Named
    <2>2. Credentials(req[r].user) \subseteq Grants
      BY <2>1, AccountsAssumption DEF Credentials, Lacking, Grants, TypeOK
    <2>3. [req[r] EXCEPT !.pc = "copied", !.queue = Credentials(req[r].user)] \in Request
      BY <1>0, <2>2 DEF Request, PCs
    <2>4. Named([req[r] EXCEPT !.pc = "copied", !.queue = Credentials(req[r].user)])
      BY <1>0, <2>1 DEF Named, Request
    <2>5. req' \in [Requests -> Request] /\ RequestsNamed'
      BY <1>10, <2>3, <2>4, StepIsTyped DEF CopyCredentials
    <2>. QED
      BY <1>10, <2>5 DEF CopyCredentials, TypeOK
  <1>11. CASE CommitDelete(r)
    <2>1. req' \in [Requests -> Request] /\ RequestsNamed'
      BY <1>11, EndIsTyped DEF CommitDelete
    <2>2. credential' \in [Ids -> [Clients -> 0..MaxGrants]]
      <3>1. [c \in Clients |-> Lacking] \in [Clients -> 0..MaxGrants]
        BY AccountsAssumption DEF Lacking
      <3>. QED
        BY <1>11, <3>1 DEF CommitDelete, TypeOK
    <2>3. users' \in [Ids -> Emails \cup {None}] /\ identity' \in [Subjects -> Ids \cup {None}]
      BY <1>11 DEF CommitDelete, TypeOK
    <2>4. job' \in [Grants -> {"none", "due", "waiting"}]
      BY <1>11 DEF CommitDelete, TypeOK
    <2>. QED
      BY <1>11, <2>1, <2>2, <2>3, <2>4 DEF CommitDelete, TypeOK
  <1>. QED
    BY <1>1, <1>2, <1>3, <1>4, <1>5, <1>6, <1>7, <1>8, <1>9, <1>10, <1>11 DEF Advance

LEMMA TypesStep ==
    ASSUME TypeOK, RequestsNamed, [Next]_vars
    PROVE  TypeOK' /\ RequestsNamed'
PROOF
  <1>. USE DEF registrationVars, userVars, appleVars, jobVars
  <1>1. ASSUME NEW r \in Requests, Start(r)
        PROVE  TypeOK' /\ RequestsNamed'
    BY <1>1, StartIsTyped
  <1>2. ASSUME NEW r \in Requests, Advance(r)
        PROVE  TypeOK' /\ RequestsNamed'
    BY <1>2, AdvanceIsTyped
  <1>3. ASSUME NEW r \in Requests, Fail(r)
        PROVE  TypeOK' /\ RequestsNamed'
    <2>1. req' \in [Requests -> Request] /\ RequestsNamed'
      BY <1>3, EndIsTyped DEF Fail
    <2>. QED
      BY <1>3, <2>1 DEF Fail, TypeOK
  <1>4. ASSUME NEW w \in Workers, NEW g \in Grants, Work(w, g)
        PROVE  TypeOK' /\ RequestsNamed'
    <2>1. g \in 0..MaxGrants
      BY AccountsAssumption DEF Grants
    <2>2. Resting \in Task
      BY AccountsAssumption DEF Resting, Task, Lacking
    <2>3. worker[w] \in Task
      BY DEF TypeOK
    <2>4. worker' \in [Workers -> Task]
      <3>1. /\ [worker[w] EXCEPT !.grant = g] \in Task
            /\ [worker[w] EXCEPT !.answer = "success"] \in Task
            /\ [worker[w] EXCEPT !.answer = "failure"] \in Task
        BY <2>1, <2>3 DEF Task
      <3>2. CASE PickJob(w, g)
        BY <3>1, <3>2 DEF PickJob, TypeOK
      <3>3. CASE AppleRevokes(w, g) \/ AppleFails(w, g)
        BY <3>1, <3>3 DEF AppleRevokes, AppleFails, TypeOK
      <3>4. CASE MarkRevoked(w, g) \/ PutOff(w, g)
        BY <2>2, <3>4 DEF MarkRevoked, PutOff, TypeOK
      <3>. QED
        BY <1>4, <3>2, <3>3, <3>4 DEF Work
    <2>5. job' \in [Grants -> {"none", "due", "waiting"}] /\ revoked' \subseteq Grants
      BY <1>4 DEF Work, PickJob, AppleRevokes, AppleFails, MarkRevoked, PutOff, TypeOK
    <2>6. UNCHANGED <<registrationVars, userVars, appleVars, req>>
      BY <1>4 DEF Work, PickJob, AppleRevokes, AppleFails, MarkRevoked, PutOff
    <2>. QED
      BY <2>4, <2>5, <2>6 DEF TypeOK, RequestsNamed
  <1>5. CASE Environment
    <2>1. ASSUME NEW e \in Emails, LinkExpires(e)
          PROVE  TypeOK' /\ RequestsNamed'
      <3>1. [pending[e] EXCEPT !.live = FALSE] \in PendingRow
        <4>1. pending[e] \in PendingRow
          BY <2>1 DEF LinkExpires, TypeOK
        <4>. QED
          BY <4>1 DEF PendingRow
      <3>2. pending' = [pending EXCEPT ![e] = [pending[e] EXCEPT !.live = FALSE]]
        BY <2>1 DEF LinkExpires, TypeOK
      <3>3. pending' \in [Emails -> PendingRow \cup {NoRow}]
        BY <3>1, <3>2 DEF TypeOK
      <3>4. UNCHANGED <<issued, mailed, opened, userVars, appleVars, jobVars, req>>
        BY <2>1 DEF LinkExpires
      <3>. QED
        BY <3>3, <3>4 DEF TypeOK, RequestsNamed, userVars, appleVars, jobVars
    <2>2. ASSUME NEW e \in Emails, NEW n \in Tokens, VerifyEmail(e, n)
          PROVE  TypeOK' /\ RequestsNamed'
      BY <2>2 DEF VerifyEmail, TypeOK, RequestsNamed
    <2>3. ASSUME NEW g \in Grants, RetryFallsDue(g)
          PROVE  TypeOK' /\ RequestsNamed'
      BY <2>3 DEF RetryFallsDue, TypeOK, RequestsNamed
    <2>4. ASSUME NEW w \in Workers, WorkerCrashes(w)
          PROVE  TypeOK' /\ RequestsNamed'
      <3>1. Resting \in Task
        BY AccountsAssumption DEF Resting, Task, Lacking
      <3>. QED
        BY <2>4, <3>1 DEF WorkerCrashes, TypeOK, RequestsNamed
    <2>. QED
      BY <1>5, <2>1, <2>2, <2>3, <2>4 DEF Environment
  <1>6. CASE UNCHANGED vars
    BY <1>6 DEF vars, TypeOK, RequestsNamed
  <1>. QED
    BY <1>1, <1>2, <1>3, <1>4, <1>5, <1>6 DEF Next

-----------------------------------------------------------------------------
(* Links.                                                                  *)

LinksInv == TokensFresh /\ CompletionsHold /\ LinkOpensOneAccount

\* A step that leaves registration alone and begins no completion.
LEMMA LinksQuiet ==
    ASSUME TypeOK, LinksInv, UNCHANGED <<pending, issued, opened>>,
           \A q \in Requests : req'[q] = req[q] \/ req'[q].pc # "complete"
    PROVE  LinksInv'
PROOF
  <1>1. TokensFresh' /\ LinkOpensOneAccount'
    BY DEF LinksInv, TokensFresh, LinkOpensOneAccount, Carries
  <1>2. CompletionsHold'
    BY DEF LinksInv, CompletionsHold, At, Carries
  <1>. QED
    BY <1>1, <1>2 DEF LinksInv

\* A step that deletes rows that no completion holds, and begins none.
LEMMA LinksDrop ==
    ASSUME TypeOK, LinksInv, UNCHANGED <<issued, opened>>,
           \A f \in Emails : pending'[f] = pending[f]
                             \/ (pending'[f] = NoRow /\ PendingFree(f)),
           \A q \in Requests : req'[q] = req[q] \/ req'[q].pc # "complete",
           RequestsNamed
    PROVE  LinksInv'
PROOF
  <1>1. TokensFresh' /\ LinkOpensOneAccount'
    BY DEF LinksInv, TokensFresh, LinkOpensOneAccount, Carries
  <1>2. CompletionsHold'
    <2>. SUFFICES ASSUME NEW r \in Requests, At(r, "complete")'
                  PROVE  /\ Carries(req[r].email, req[r].number)'
                         /\ \A q \in Requests :
                              (At(q, "complete") /\ req[q].email = req[r].email)' => q = r
      BY DEF CompletionsHold
    <2>1. req'[r] = req[r] /\ At(r, "complete")
      BY DEF At
    <2>2. req[r].email \in Emails /\ ~PendingFree(req[r].email)
      BY <2>1 DEF RequestsNamed, Named, At, PendingFree
    <2>3. Carries(req[r].email, req[r].number)'
      BY <2>1, <2>2 DEF LinksInv, CompletionsHold, Carries
    <2>. QED
      BY <2>1, <2>3 DEF LinksInv, CompletionsHold, At
  <1>. QED
    BY <1>1, <1>2 DEF LinksInv

LEMMA StepElsewhere ==
    ASSUME TypeOK, NEW r \in Requests, NEW x, Step(r, x)
    PROVE  /\ req'[r] = x
           /\ \A q \in Requests \ {r} : req'[q] = req[q]
  BY DEF TypeOK, Step

LEMMA StepBeginsNone ==
    ASSUME TypeOK, NEW r \in Requests, NEW x, Step(r, x), x.pc # "complete"
    PROVE  \A q \in Requests : req'[q] = req[q] \/ req'[q].pc # "complete"
  BY StepElsewhere

LEMMA LinksStep ==
    ASSUME TypeOK, RequestsNamed, LinksInv, [Next]_vars
    PROVE  LinksInv'
PROOF
  <1>. USE DEF registrationVars, userVars, appleVars, jobVars
  <1>0. \A r \in Requests : req[r] \in Request /\ Named(req[r])
    BY DEF TypeOK, RequestsNamed
  <1>e. ASSUME NEW r \in Requests, End(r)
        PROVE  \A q \in Requests : req'[q] = req[q] \/ req'[q].pc # "complete"
    BY <1>e, StepElsewhere DEF End, Idle
  <1>s. ASSUME NEW r \in Requests, NEW s, NEW u, SignedIn(r, s, u)
        PROVE  \A q \in Requests : req'[q] = req[q] \/ req'[q].pc # "complete"
    <2>1. CASE End(r)
      BY <2>1, <1>e
    <2>2. ASSUME NEW c \in Clients,
                 Step(r, [Idle EXCEPT !.pc = "exchange", !.user = u, !.client = c])
          PROVE  \A q \in Requests : req'[q] = req[q] \/ req'[q].pc # "complete"
      <3>1. [Idle EXCEPT !.pc = "exchange", !.user = u, !.client = c].pc = "exchange"
        BY DEF Idle
      <3>. QED
        BY <2>2, <3>1, StepBeginsNone
    <2>. QED
      BY <1>s, <2>1, <2>2 DEF SignedIn
  <1>1. ASSUME NEW r \in Requests, NEW e \in Emails, StartRegister(r, e)
        PROVE  LinksInv'
    <2>1. \A q \in Requests : req'[q] = req[q] \/ req'[q].pc # "complete"
      <3>1. [Idle EXCEPT !.pc = "register", !.email = e].pc = "register"
        BY DEF Idle
      <3>2. UNCHANGED req \/ Step(r, [Idle EXCEPT !.pc = "register", !.email = e])
        BY <1>1 DEF StartRegister
      <3>. QED
        BY <3>1, <3>2, StepBeginsNone
    <2>2. \A f \in Emails : pending'[f] = pending[f]
                            \/ (pending'[f] = NoRow /\ PendingFree(f))
      <3>. SUFFICES ASSUME NEW f \in Emails
                    PROVE  pending'[f] = pending[f] \/ (pending'[f] = NoRow /\ PendingFree(f))
        OBVIOUS
      <3>1. pending'[f] = IF Expired(f) THEN NoRow ELSE pending[f]
        BY <1>1 DEF StartRegister
      <3>2. Expired(f) => PendingFree(f)
        BY <1>1 DEF StartRegister
      <3>. QED
        BY <3>1, <3>2
    <2>. QED
      BY <1>1, <2>1, <2>2, LinksDrop DEF StartRegister
  <1>2. ASSUME NEW r \in Requests, NEW e \in Emails, NEW n \in Tokens,
               StartComplete(r, e, n)
        PROVE  LinksInv'
    <2>1. CASE Expired(e)
      <3>1. \A f \in Emails : pending'[f] = pending[f] \/ (pending'[f] = NoRow /\ PendingFree(f))
        BY <1>2, <2>1 DEF StartComplete, TypeOK
      <3>2. UNCHANGED <<issued, opened, req>>
        BY <1>2, <2>1 DEF StartComplete
      <3>. QED
        BY <3>1, <3>2, LinksDrop
    <2>2. CASE ~Expired(e)
      <3>1. /\ req'[r] = [Idle EXCEPT !.pc = "complete", !.email = e, !.number = n]
            /\ \A q \in Requests \ {r} : req'[q] = req[q]
            /\ UNCHANGED <<pending, issued, opened>>
            /\ Carries(e, n) /\ PendingFree(e)
        BY <1>2, <2>2, StepElsewhere DEF StartComplete
      <3>2. req'[r].email = e /\ req'[r].number = n
        BY <3>1 DEF Idle
      <3>3. TokensFresh' /\ LinkOpensOneAccount'
        BY <3>1 DEF LinksInv, TokensFresh, LinkOpensOneAccount, Carries
      <3>4. CompletionsHold'
        <4>1. ASSUME NEW q \in Requests \ {r}, At(q, "complete")'
              PROVE  At(q, "complete") /\ req'[q] = req[q] /\ req[q].email # e
          BY <3>1, <4>1 DEF At, PendingFree, Carries, Idle
        <4>2. ASSUME NEW p \in Requests, At(p, "complete")'
              PROVE  Carries(req[p].email, req[p].number)'
          <5>1. CASE p = r
            BY <3>1, <3>2, <5>1 DEF Carries
          <5>2. CASE p # r
            BY <3>1, <4>1, <4>2, <5>2 DEF LinksInv, CompletionsHold, Carries
          <5>. QED
            BY <5>1, <5>2
        <4>3. ASSUME NEW p \in Requests, At(p, "complete")',
                     NEW q \in Requests, At(q, "complete")', req'[q].email = req'[p].email
              PROVE  q = p
          BY <3>2, <4>1, <4>3 DEF LinksInv, CompletionsHold
        <4>. QED
          BY <4>2, <4>3 DEF CompletionsHold, At
      <3>. QED
        BY <3>3, <3>4 DEF LinksInv
    <2>. QED
      BY <2>1, <2>2
  <1>3. ASSUME NEW r \in Requests, NEW s \in Subjects, NEW e, StartOAuth(r, s, e)
        PROVE  LinksInv'
    <2>1. \A q \in Requests : req'[q] = req[q] \/ req'[q].pc # "complete"
      <3>1. CASE identity[s] # None
        BY <1>3, <3>1, <1>s DEF StartOAuth
      <3>2. CASE identity[s] = None
        <4>1. [Idle EXCEPT !.pc = "find", !.subject = s, !.email = e].pc = "find"
          BY DEF Idle
        <4>. QED
          BY <1>3, <3>2, <4>1, StepBeginsNone DEF StartOAuth
      <3>. QED
        BY <3>1, <3>2
    <2>. QED
      BY <1>3, <2>1, LinksQuiet DEF StartOAuth
  <1>4. ASSUME NEW r \in Requests, NEW s \in Subjects, StartReauthorize(r, s)
        PROVE  LinksInv'
    <2>1. SignedIn(r, s, identity[s])
      BY <1>4 DEF StartReauthorize, SignedIn
    <2>. QED
      BY <1>4, <2>1, <1>s, LinksQuiet DEF StartReauthorize
  <1>5. ASSUME NEW r \in Requests, NEW e \in Emails, StartDelete(r, e)
        PROVE  LinksInv'
    <2>1. \A q \in Requests : req'[q] = req[q] \/ req'[q].pc # "complete"
      <3>1. PICK u \in Ids : Step(r, [Idle EXCEPT !.pc = "delete", !.user = u])
        BY <1>5 DEF StartDelete
      <3>2. [Idle EXCEPT !.pc = "delete", !.user = u].pc = "delete"
        BY DEF Idle
      <3>. QED
        BY <3>1, <3>2, StepBeginsNone
    <2>. QED
      BY <1>5, <2>1, LinksQuiet DEF StartDelete
  <1>6. ASSUME NEW r \in Requests, SaveRegistration(r)
        PROVE  LinksInv'
    <2>1. req[r].email \in Emails
      BY <1>0, <1>6 DEF SaveRegistration, At, Named
    <2>2. \A q \in Requests : req'[q] = req[q] \/ req'[q].pc # "complete"
      <3>1. PICK n : Step(r, [req[r] EXCEPT !.pc = "mail", !.number = n])
        BY <1>6 DEF SaveRegistration
      <3>2. [req[r] EXCEPT !.pc = "mail", !.number = n].pc = "mail"
        BY <1>0 DEF Request
      <3>. QED
        BY <3>1, <3>2, StepBeginsNone
    <2>3. CASE pending[req[r].email].resendable
      BY <1>6, <2>2, <2>3, LinksQuiet DEF SaveRegistration
    <2>4. CASE ~pending[req[r].email].resendable
      <3>1. /\ issued' = [issued EXCEPT ![req[r].email] = @ + 1]
            /\ pending' = [pending EXCEPT ![req[r].email] =
                 [number |-> issued[req[r].email] + 1, live |-> TRUE, resendable |-> TRUE]]
            /\ UNCHANGED opened
            /\ PendingFree(req[r].email)
        BY <1>6, <2>4 DEF SaveRegistration
      <3>2. LinkOpensOneAccount'
        BY <3>1 DEF LinksInv, LinkOpensOneAccount
      <3>3. TokensFresh'
        <4>1. ASSUME NEW e \in Emails, e # req[r].email
              PROVE  pending'[e] = pending[e] /\ issued'[e] = issued[e]
          BY <2>1, <3>1, <4>1 DEF TypeOK
        <4>2. /\ pending'[req[r].email].number = issued[req[r].email] + 1
              /\ issued'[req[r].email] = issued[req[r].email] + 1
          BY <2>1, <3>1 DEF TypeOK
        <4>3. issued[req[r].email] \in Nat
          BY <2>1 DEF TypeOK
        <4>4. \A n \in Tokens : n \in Nat
          BY AccountsAssumption DEF Tokens
        <4>5. \A n \in Tokens : opened[req[r].email][n] > 0 => n <= issued[req[r].email]
          BY <2>1 DEF LinksInv, TokensFresh
        <4>. QED
          BY <2>1, <3>1, <4>1, <4>2, <4>3, <4>4, <4>5
          DEF LinksInv, TokensFresh, Carries
      <3>4. CompletionsHold'
        <4>1. ASSUME NEW q \in Requests, At(q, "complete")'
              PROVE  /\ req'[q] = req[q]
                     /\ At(q, "complete")
                     /\ req[q].email \in Emails /\ req[q].email # req[r].email
          BY <1>0, <2>2, <3>1, <4>1 DEF At, PendingFree, Named
        <4>2. \A e \in Emails : e # req[r].email => pending'[e] = pending[e]
          BY <2>1, <3>1 DEF TypeOK
        <4>. QED
          BY <4>1, <4>2 DEF LinksInv, CompletionsHold, Carries, At
      <3>. QED
        BY <3>2, <3>3, <3>4 DEF LinksInv
    <2>. QED
      BY <2>3, <2>4
  <1>7. ASSUME NEW r \in Requests, CommitComplete(r)
        PROVE  LinksInv'
    <2>1. req[r].email \in Emails /\ req[r].number \in Tokens
      BY <1>0, <1>7 DEF CommitComplete, At, Named
    <2>2. Carries(req[r].email, req[r].number)
      BY <1>7 DEF CommitComplete, LinksInv, CompletionsHold
    <2>3. opened[req[r].email][req[r].number] = 0
      BY <2>1, <2>2 DEF LinksInv, TokensFresh, TypeOK
    <2>4. req[r].number <= issued[req[r].email]
      BY <2>1, <2>2 DEF LinksInv, TokensFresh, Carries
    <2>5. /\ pending' = [pending EXCEPT ![req[r].email] = NoRow]
          /\ UNCHANGED issued
          /\ \/ UNCHANGED opened
             \/ opened' = [opened EXCEPT ![req[r].email][req[r].number] = @ + 1]
      BY <1>7 DEF CommitComplete
    <2>6. \A e \in Emails, n \in Tokens :
            \/ opened'[e][n] = opened[e][n]
            \/ e = req[r].email /\ n = req[r].number /\ opened'[e][n] = 1
      BY <2>1, <2>3, <2>5 DEF TypeOK
    <2>7. LinkOpensOneAccount'
      BY <2>6 DEF LinksInv, LinkOpensOneAccount
    <2>8. TokensFresh'
      <3>1. /\ pending'[req[r].email] = NoRow
            /\ \A e \in Emails : e # req[r].email => pending'[e] = pending[e]
        BY <2>1, <2>5 DEF TypeOK
      <3>2. \A e \in Emails : pending'[e] # NoRow => pending'[e].number <= issued'[e]
        BY <2>1, <2>5, <3>1 DEF LinksInv, TokensFresh
      <3>3. ASSUME NEW e \in Emails, NEW n \in Tokens, opened'[e][n] > 0
            PROVE  Carries(e, n)' = FALSE /\ n <= issued'[e]
        <4>1. CASE e = req[r].email /\ n = req[r].number
          BY <2>4, <2>5, <3>1, <4>1 DEF Carries
        <4>2. CASE ~(e = req[r].email /\ n = req[r].number)
          <5>1. opened[e][n] > 0
            BY <2>6, <3>3, <4>2
          <5>2. ~Carries(e, n) /\ n <= issued[e]
            BY <5>1 DEF LinksInv, TokensFresh
          <5>. QED
            BY <2>5, <3>1, <5>2 DEF Carries
        <4>. QED
          BY <4>1, <4>2
      <3>. QED
        BY <3>2, <3>3 DEF TokensFresh
    <2>9. CompletionsHold'
      <3>1. req'[r] = Idle /\ \A q \in Requests \ {r} : req'[q] = req[q]
        BY <1>7, StepElsewhere DEF CommitComplete, End
      <3>2. ASSUME NEW q \in Requests, At(q, "complete")'
            PROVE  /\ req'[q] = req[q]
                   /\ At(q, "complete")
                   /\ req[q].email \in Emails /\ req[q].email # req[r].email
        BY <1>0, <1>7, <3>1, <3>2
        DEF At, Idle, Named, CommitComplete, LinksInv, CompletionsHold
      <3>3. \A e \in Emails : e # req[r].email => pending'[e] = pending[e]
        BY <2>5 DEF TypeOK
      <3>. QED
        BY <3>2, <3>3 DEF LinksInv, CompletionsHold, Carries, At
    <2>. QED
      BY <2>7, <2>8, <2>9 DEF LinksInv
  <1>8. ASSUME NEW r \in Requests, ClearPending(r)
        PROVE  LinksInv'
    <2>1. \A q \in Requests : req'[q] = req[q] \/ req'[q].pc # "complete"
      <3>1. [req[r] EXCEPT !.pc = "resolve"].pc = "resolve"
        BY <1>0 DEF Request
      <3>. QED
        BY <1>8, <3>1, StepBeginsNone DEF ClearPending
    <2>2. \A f \in Emails : pending'[f] = pending[f] \/ (pending'[f] = NoRow /\ PendingFree(f))
      BY <1>8 DEF ClearPending, TypeOK
    <2>3. UNCHANGED <<issued, opened>>
      BY <1>8 DEF ClearPending
    <2>. QED
      BY <2>1, <2>2, <2>3, LinksDrop
  <1>9. ASSUME NEW r \in Requests,
               \/ SendVerification(r) \/ FindUser(r) \/ LinkIdentity(r)
               \/ ResolveIdentity(r) \/ ExchangeCode(r) \/ StoreGrant(r)
               \/ CopyCredentials(r) \/ CommitDelete(r) \/ Fail(r)
        PROVE  LinksInv'
    <2>1. \A q \in Requests : req'[q] = req[q] \/ req'[q].pc # "complete"
      <3>1. CASE SendVerification(r) \/ StoreGrant(r) \/ CommitDelete(r) \/ Fail(r)
        BY <3>1, <1>e DEF SendVerification, StoreGrant, CommitDelete, Fail
      <3>2. CASE ResolveIdentity(r)
        BY <3>2, <1>s DEF ResolveIdentity
      <3>3. CASE FindUser(r)
        <4>1. PICK u : Step(r, [req[r] EXCEPT !.pc = "link", !.user = u])
          BY <3>3 DEF FindUser
        <4>2. [req[r] EXCEPT !.pc = "link", !.user = u].pc = "link"
          BY <1>0 DEF Request
        <4>. QED
          BY <4>1, <4>2, StepBeginsNone
      <3>4. CASE LinkIdentity(r)
        <4>1. [req[r] EXCEPT !.pc = "clear"].pc = "clear"
          BY <1>0 DEF Request
        <4>. QED
          BY <3>4, <4>1, StepBeginsNone DEF LinkIdentity
      <3>5. CASE ExchangeCode(r)
        <4>1. [req[r] EXCEPT !.pc = "store", !.grant = grants + 1].pc = "store"
          BY <1>0 DEF Request
        <4>. QED
          BY <3>5, <4>1, StepBeginsNone DEF ExchangeCode
      <3>6. CASE CopyCredentials(r)
        <4>1. [req[r] EXCEPT !.pc = "copied", !.queue = Credentials(req[r].user)].pc = "copied"
          BY <1>0 DEF Request
        <4>. QED
          BY <3>6, <4>1, StepBeginsNone DEF CopyCredentials
      <3>. QED
        BY <1>9, <3>1, <3>2, <3>3, <3>4, <3>5, <3>6
    <2>2. UNCHANGED <<pending, issued, opened>>
      BY <1>9 DEF SendVerification, FindUser, LinkIdentity, ResolveIdentity,
                  ExchangeCode, StoreGrant, CopyCredentials, CommitDelete, Fail
    <2>. QED
      BY <2>1, <2>2, LinksQuiet
  <1>10. ASSUME NEW w \in Workers, NEW g \in Grants, Work(w, g)
         PROVE  LinksInv'
    <2>1. UNCHANGED <<pending, issued, opened, req>>
      BY <1>10 DEF Work, PickJob, AppleRevokes, AppleFails, MarkRevoked, PutOff
    <2>. QED
      BY <2>1, LinksQuiet
  <1>11. CASE Environment
    <2>1. ASSUME NEW e \in Emails, LinkExpires(e)
          PROVE  LinksInv'
      <3>1. /\ UNCHANGED <<issued, opened, req>>
            /\ \A f \in Emails : /\ pending'[f].number = pending[f].number
                                 /\ pending'[f] # NoRow => pending[f] # NoRow
                                 /\ pending[f] # NoRow => pending'[f] # NoRow
        <4>1. /\ pending[e].live
              /\ pending' = [pending EXCEPT ![e].live = FALSE]
              /\ UNCHANGED <<issued, opened, req>>
          BY <2>1 DEF LinkExpires
        <4>2. pending[e] \in PendingRow
          BY <4>1 DEF TypeOK, NoRow
        <4>3. ASSUME NEW x \in PendingRow
              PROVE  x # NoRow
          BY AccountsAssumption DEF PendingRow, NoRow, Tokens
        <4>4. \A f \in Emails : pending'[f] = IF f = e THEN [pending[e] EXCEPT !.live = FALSE]
                                             ELSE pending[f]
          BY <4>1 DEF TypeOK
        <4>5. /\ [pending[e] EXCEPT !.live = FALSE] \in PendingRow
              /\ [pending[e] EXCEPT !.live = FALSE].number = pending[e].number
          BY <4>2 DEF PendingRow
        <4>. QED
          BY <4>1, <4>2, <4>3, <4>4, <4>5
      <3>2. TokensFresh' /\ LinkOpensOneAccount'
        BY <3>1 DEF LinksInv, TokensFresh, LinkOpensOneAccount, Carries
      <3>3. CompletionsHold'
        BY <1>0, <3>1 DEF LinksInv, CompletionsHold, Carries, At, Named
      <3>. QED
        BY <3>2, <3>3 DEF LinksInv
    <2>2. ASSUME NEW e \in Emails, NEW n \in Tokens, VerifyEmail(e, n)
          PROVE  LinksInv'
      <3>1. \A f \in Emails : pending'[f] = pending[f] \/ (pending'[f] = NoRow /\ PendingFree(f))
        BY <2>2 DEF VerifyEmail, TypeOK
      <3>2. UNCHANGED <<issued, opened, req>>
        BY <2>2 DEF VerifyEmail
      <3>. QED
        BY <3>1, <3>2, LinksDrop
    <2>3. ASSUME NEW g \in Grants, RetryFallsDue(g)
          PROVE  LinksInv'
      BY <2>3, LinksQuiet DEF RetryFallsDue
    <2>4. ASSUME NEW w \in Workers, WorkerCrashes(w)
          PROVE  LinksInv'
      BY <2>4, LinksQuiet DEF WorkerCrashes
    <2>. QED
      BY <1>11, <2>1, <2>2, <2>3, <2>4 DEF Environment
  <1>12. CASE UNCHANGED vars
    BY <1>12, LinksQuiet DEF vars
  <1>. QED
    BY <1>1, <1>2, <1>3, <1>4, <1>5, <1>6, <1>7, <1>8, <1>9, <1>10, <1>11, <1>12
    DEF Next, Start, Advance

-----------------------------------------------------------------------------
(* Deletions and tokens.                                                   *)

ApplesInv == CredentialsReference /\ DeletionsHold /\ AnswersTrue /\ TokensAccountedFor

\* Requests that go on, and accounts that are created.
NoneDeletes == \A q \in Requests : req'[q] = req[q] \/ req'[q].pc \notin {"delete", "copied"}
NoneGone    == \A u \in Ids : users[u] # None => users'[u] # None

LEMMA StepDeletesNone ==
    ASSUME TypeOK, NEW r \in Requests, NEW x, Step(r, x), x.pc \notin {"delete", "copied"}
    PROVE  NoneDeletes
  BY StepElsewhere DEF NoneDeletes

LEMMA EndDeletesNone ==
    ASSUME TypeOK, NEW r \in Requests, End(r)
    PROVE  NoneDeletes
PROOF
  <1>1. Idle.pc \notin {"delete", "copied"}
    BY DEF Idle
  <1>. QED
    BY <1>1, StepDeletesNone DEF End

LEMMA SignedInDeletesNone ==
    ASSUME TypeOK, NEW r \in Requests, NEW s, NEW u, SignedIn(r, s, u)
    PROVE  NoneDeletes
PROOF
  <1>1. ASSUME NEW c \in Clients,
               Step(r, [Idle EXCEPT !.pc = "exchange", !.user = u, !.client = c])
        PROVE  NoneDeletes
    <2>1. [Idle EXCEPT !.pc = "exchange", !.user = u, !.client = c].pc = "exchange"
      BY DEF Idle
    <2>. QED
      BY <1>1, <2>1, StepDeletesNone
  <1>. QED
    BY <1>1, EndDeletesNone DEF SignedIn

\* A step that leaves identities, credentials and jobs alone.
LEMMA ApplesQuiet ==
    ASSUME TypeOK, ApplesInv, NoneDeletes, NoneGone,
           UNCHANGED <<identity, credential, stored, replaced, job, revoked, worker>>
    PROVE  ApplesInv'
PROOF
  <1>1. CredentialsReference'
    BY DEF ApplesInv, CredentialsReference, NoneGone
  <1>2. DeletionsHold'
    <2>. SUFFICES ASSUME NEW r \in Requests, NEW u \in Ids, Deleting(r, u)'
                  PROVE  /\ users'[u] # None
                         /\ \A q \in Requests : Deleting(q, u)' => q = r
                         /\ HasApple(u)' => Credentials(u)' # {}
                         /\ At(r, "copied")' => req'[r].queue = Credentials(u)'
      BY DEF DeletionsHold
    <2>1. ASSUME NEW q \in Requests, Deleting(q, u)'
          PROVE  req'[q] = req[q] /\ Deleting(q, u)
      BY <2>1 DEF NoneDeletes, Deleting
    <2>2. HasApple(u)' = HasApple(u) /\ Credentials(u)' = Credentials(u)
      BY DEF HasApple, Credentials
    <2>. QED
      BY <2>1, <2>2 DEF ApplesInv, DeletionsHold, NoneGone, At
  <1>3. AnswersTrue'
    BY DEF ApplesInv, AnswersTrue
  <1>4. TokensAccountedFor'
    BY DEF ApplesInv, TokensAccountedFor, Credentials, NoneGone
  <1>. QED
    BY <1>1, <1>2, <1>3, <1>4 DEF ApplesInv

LEMMA StartKeepsApples ==
    ASSUME TypeOK, ApplesInv, NEW r \in Requests, Start(r)
    PROVE  ApplesInv'
PROOF
  <1>. USE DEF registrationVars, userVars, appleVars, jobVars
  <1>1. ASSUME NEW e \in Emails, StartRegister(r, e)
        PROVE  ApplesInv'
    <2>1. [Idle EXCEPT !.pc = "register", !.email = e].pc = "register"
      BY DEF Idle
    <2>2. UNCHANGED req \/ Step(r, [Idle EXCEPT !.pc = "register", !.email = e])
      BY <1>1 DEF StartRegister
    <2>3. NoneDeletes
      BY <2>1, <2>2, StepDeletesNone DEF NoneDeletes
    <2>. QED
      BY <1>1, <2>3, ApplesQuiet DEF StartRegister, NoneGone
  <1>2. ASSUME NEW e \in Emails, NEW n \in Tokens, StartComplete(r, e, n)
        PROVE  ApplesInv'
    <2>1. [Idle EXCEPT !.pc = "complete", !.email = e, !.number = n].pc = "complete"
      BY DEF Idle
    <2>2. UNCHANGED req \/ Step(r, [Idle EXCEPT !.pc = "complete", !.email = e, !.number = n])
      BY <1>2 DEF StartComplete
    <2>3. NoneDeletes
      BY <2>1, <2>2, StepDeletesNone DEF NoneDeletes
    <2>. QED
      BY <1>2, <2>3, ApplesQuiet DEF StartComplete, NoneGone
  <1>3. ASSUME NEW s \in Subjects, NEW e, StartOAuth(r, s, e)
        PROVE  ApplesInv'
    <2>1. [Idle EXCEPT !.pc = "find", !.subject = s, !.email = e].pc = "find"
      BY DEF Idle
    <2>2. \/ SignedIn(r, s, identity[s])
          \/ Step(r, [Idle EXCEPT !.pc = "find", !.subject = s, !.email = e])
      BY <1>3 DEF StartOAuth
    <2>3. NoneDeletes
      BY <2>1, <2>2, StepDeletesNone, SignedInDeletesNone
    <2>. QED
      BY <1>3, <2>3, ApplesQuiet DEF StartOAuth, NoneGone
  <1>4. ASSUME NEW s \in Subjects, StartReauthorize(r, s)
        PROVE  ApplesInv'
    <2>1. SignedIn(r, s, identity[s])
      BY <1>4 DEF StartReauthorize, SignedIn
    <2>2. NoneDeletes
      BY <2>1, SignedInDeletesNone
    <2>. QED
      BY <1>4, <2>2, ApplesQuiet DEF StartReauthorize, NoneGone
  <1>5. ASSUME NEW e \in Emails, StartDelete(r, e)
        PROVE  ApplesInv'
    <2>1. PICK u \in Ids : /\ Owns(u, e)
                           /\ UserFree(u)
                           /\ HasApple(u) => Credentials(u) # {}
                           /\ Step(r, [Idle EXCEPT !.pc = "delete", !.user = u])
      BY <1>5 DEF StartDelete
    <2>2. /\ req'[r] = [Idle EXCEPT !.pc = "delete", !.user = u]
          /\ \A q \in Requests \ {r} : req'[q] = req[q]
      BY <2>1, StepElsewhere
    <2>3. req'[r].pc = "delete" /\ req'[r].user = u
      BY <2>2 DEF Idle
    <2>4. UNCHANGED <<users, identity, appleVars, job, revoked, worker>>
      BY <1>5 DEF StartDelete
    <2>5. users[u] # None
      BY <2>1, AccountsAssumption DEF Owns
    <2>6. DeletionsHold'
      <3>. SUFFICES ASSUME NEW p \in Requests, NEW v \in Ids, Deleting(p, v)'
                    PROVE  /\ users'[v] # None
                           /\ \A q \in Requests : Deleting(q, v)' => q = p
                           /\ HasApple(v)' => Credentials(v)' # {}
                           /\ At(p, "copied")' => req'[p].queue = Credentials(v)'
        BY DEF DeletionsHold
      <3>1. HasApple(v)' = HasApple(v) /\ Credentials(v)' = Credentials(v)
        BY <2>4 DEF HasApple, Credentials, appleVars
      <3>2. ASSUME NEW q \in Requests, Deleting(q, v)'
            PROVE  (q = r /\ v = u) \/ (q # r /\ req'[q] = req[q] /\ Deleting(q, v))
        BY <2>2, <2>3, <3>2 DEF Deleting
      <3>3. CASE v = u
        <4>1. ASSUME NEW q \in Requests, Deleting(q, v)'
              PROVE  q = r
          BY <2>1, <3>2, <3>3, <4>1 DEF UserFree
        <4>. QED
          BY <2>1, <2>3, <2>4, <2>5, <3>1, <3>3, <4>1 DEF At
      <3>4. CASE v # u
        BY <2>4, <3>1, <3>2, <3>4 DEF ApplesInv, DeletionsHold, At
      <3>. QED
        BY <3>3, <3>4
    <2>7. CredentialsReference' /\ AnswersTrue' /\ TokensAccountedFor'
      BY <2>4 DEF ApplesInv, CredentialsReference, AnswersTrue, TokensAccountedFor,
                  Credentials, appleVars
    <2>. QED
      BY <2>6, <2>7 DEF ApplesInv
  <1>. QED
    BY <1>1, <1>2, <1>3, <1>4, <1>5 DEF Start

\* A sign-in links an identity to an account that nobody is deleting.
LEMMA LinkKeepsApples ==
    ASSUME TypeOK, ApplesInv, NEW r \in Requests, LinkIdentity(r)
    PROVE  ApplesInv'
PROOF
  <1>1. req[r] \in Request
    BY DEF TypeOK
  <1>2. [req[r] EXCEPT !.pc = "clear"].pc = "clear"
    BY <1>1 DEF Request
  <1>3. NoneDeletes
    BY <1>2, StepDeletesNone DEF LinkIdentity
  <1>4. UNCHANGED <<users, appleVars, job, revoked, worker>>
    BY DEF LinkIdentity, jobVars
  <1>5. \A v \in Ids : (\E q \in Requests : Deleting(q, v)) => (HasApple(v)' => HasApple(v))
    <2>. SUFFICES ASSUME NEW v \in Ids, NEW q \in Requests, Deleting(q, v),
                         NEW s \in Apple, identity'[s] = v
                  PROVE  identity[s] = v
      BY DEF HasApple
    <2>1. s \in Subjects
      BY AccountsAssumption
    <2>2. CASE UNCHANGED identity
      BY <2>2
    <2>3. CASE identity' = [identity EXCEPT ![req[r].subject] = req[r].user]
               /\ UserFree(req[r].user)
      <3>1. v # req[r].user
        BY <2>3 DEF UserFree
      <3>. QED
        BY <2>1, <2>3, <3>1 DEF TypeOK
    <2>. QED
      BY <2>2, <2>3 DEF LinkIdentity, MayReference
  <1>6. DeletionsHold'
    <2>. SUFFICES ASSUME NEW p \in Requests, NEW v \in Ids, Deleting(p, v)'
                  PROVE  /\ users'[v] # None
                         /\ \A q \in Requests : Deleting(q, v)' => q = p
                         /\ HasApple(v)' => Credentials(v)' # {}
                         /\ At(p, "copied")' => req'[p].queue = Credentials(v)'
      BY DEF DeletionsHold
    <2>1. ASSUME NEW q \in Requests, Deleting(q, v)'
          PROVE  req'[q] = req[q] /\ Deleting(q, v)
      BY <1>3, <2>1 DEF NoneDeletes, Deleting
    <2>2. Credentials(v)' = Credentials(v)
      BY <1>4 DEF Credentials, appleVars
    <2>. QED
      BY <1>4, <1>5, <2>1, <2>2 DEF ApplesInv, DeletionsHold, At
  <1>7. CredentialsReference' /\ AnswersTrue' /\ TokensAccountedFor'
    BY <1>4 DEF ApplesInv, CredentialsReference, AnswersTrue, TokensAccountedFor,
                Credentials, appleVars
  <1>. QED
    BY <1>6, <1>7 DEF ApplesInv

\* A credential is stored for an account that nobody is deleting.
LEMMA StoreKeepsApples ==
    ASSUME TypeOK, RequestsNamed, ApplesInv, ~RefreshDuringDeletion,
           NEW r \in Requests, StoreGrant(r)
    PROVE  ApplesInv'
PROOF
  <1>1. PICK u \in Ids, c \in Clients, g \in Grants :
          req[r].user = u /\ req[r].client = c /\ req[r].grant = g
    BY DEF TypeOK, RequestsNamed, Named, StoreGrant, At
  <1>2. NoneDeletes
    BY EndDeletesNone DEF StoreGrant
  <1>3. /\ UNCHANGED <<users, identity, grants, job, revoked, worker>>
        /\ credential' = [credential EXCEPT ![u][c] = g]
        /\ stored' = stored \cup {g}
        /\ replaced' = replaced \cup ({credential[u][c]} \ {Lacking})
    BY <1>1 DEF StoreGrant, userVars, jobVars
  <1>4. users[u] # None /\ UserFree(u)
    BY <1>1 DEF StoreGrant, MayReference, ApplesInv, CredentialsReference
  <1>5. \A v \in Ids, d \in Clients :
          credential'[v][d] = IF v = u /\ d = c THEN g ELSE credential[v][d]
    BY <1>1, <1>3 DEF TypeOK
  <1>6. CredentialsReference'
    BY <1>3, <1>4, <1>5 DEF ApplesInv, CredentialsReference
  <1>7. DeletionsHold'
    <2>. SUFFICES ASSUME NEW p \in Requests, NEW v \in Ids, Deleting(p, v)'
                  PROVE  /\ users'[v] # None
                         /\ \A q \in Requests : Deleting(q, v)' => q = p
                         /\ HasApple(v)' => Credentials(v)' # {}
                         /\ At(p, "copied")' => req'[p].queue = Credentials(v)'
      BY DEF DeletionsHold
    <2>1. ASSUME NEW q \in Requests, Deleting(q, v)'
          PROVE  req'[q] = req[q] /\ Deleting(q, v)
      BY <1>2, <2>1 DEF NoneDeletes, Deleting
    <2>2. v # u
      BY <1>4, <2>1 DEF UserFree
    <2>3. Credentials(v)' = Credentials(v)
      BY <1>5, <2>2 DEF Credentials
    <2>4. HasApple(v)' = HasApple(v)
      BY <1>3 DEF HasApple
    <2>. QED
      BY <1>3, <2>1, <2>3, <2>4 DEF ApplesInv, DeletionsHold, At
  <1>8. TokensAccountedFor'
    <2>. SUFFICES ASSUME NEW h \in stored' \ (replaced' \cup revoked')
                  PROVE  \/ job'[h] # "none"
                         \/ \E v \in Ids : users'[v] # None /\ h \in Credentials(v)'
      BY DEF TokensAccountedFor
    <2>1. CASE h = g
      <3>1. g # Lacking
        BY <1>1, AccountsAssumption DEF Grants, Lacking
      <3>2. g \in Credentials(u)'
        <4>1. credential'[u][c] = g
          BY <1>1, <1>5
        <4>2. Credentials(u)' = {credential'[u][d] : d \in Clients} \ {Lacking}
          BY DEF Credentials
        <4>. QED
          BY <1>1, <3>1, <4>1, <4>2
      <3>3. users'[u] # None
        BY <1>3, <1>4
      <3>. QED
        BY <1>1, <2>1, <3>2, <3>3
    <2>2. CASE h # g
      <3>1. h \in stored \ (replaced \cup revoked)
        BY <1>3, <2>2
      <3>2. \A v \in Ids : h \in Credentials(v) => h \in Credentials(v)'
        BY <1>1, <1>3, <1>5 DEF Credentials
      <3>. QED
        BY <1>3, <3>1, <3>2 DEF ApplesInv, TokensAccountedFor
    <2>. QED
      BY <2>1, <2>2
  <1>9. AnswersTrue'
    BY <1>3 DEF ApplesInv, AnswersTrue
  <1>. QED
    BY <1>6, <1>7, <1>8, <1>9 DEF ApplesInv

LEMMA CopyKeepsApples ==
    ASSUME TypeOK, RequestsNamed, ApplesInv, NEW r \in Requests, CopyCredentials(r)
    PROVE  ApplesInv'
PROOF
  <1>1. req[r] \in Request /\ At(r, "delete") /\ req[r].user \in Ids
    BY DEF TypeOK, RequestsNamed, Named, CopyCredentials, At
  <1>2. UNCHANGED <<users, identity, appleVars, job, revoked, worker>>
    BY DEF CopyCredentials, userVars, jobVars
  <1>3. /\ req'[r] = [req[r] EXCEPT !.pc = "copied", !.queue = Credentials(req[r].user)]
        /\ \A q \in Requests \ {r} : req'[q] = req[q]
    BY StepElsewhere DEF CopyCredentials
  <1>4. /\ req'[r].pc = "copied" /\ req'[r].user = req[r].user
        /\ req'[r].queue = Credentials(req[r].user)
    BY <1>1, <1>3 DEF Request
  <1>5. DeletionsHold'
    <2>. SUFFICES ASSUME NEW p \in Requests, NEW v \in Ids, Deleting(p, v)'
                  PROVE  /\ users'[v] # None
                         /\ \A q \in Requests : Deleting(q, v)' => q = p
                         /\ HasApple(v)' => Credentials(v)' # {}
                         /\ At(p, "copied")' => req'[p].queue = Credentials(v)'
      BY DEF DeletionsHold
    <2>1. HasApple(v)' = HasApple(v) /\ Credentials(v)' = Credentials(v)
      BY <1>2 DEF HasApple, Credentials, appleVars
    <2>2. ASSUME NEW q \in Requests, Deleting(q, v)'
          PROVE  Deleting(q, v)
      BY <1>1, <1>3, <1>4, <2>2 DEF Deleting, At
    <2>3. At(p, "copied")' => req'[p].queue = Credentials(v)'
      <3>1. CASE p = r
        BY <1>4, <2>1, <3>1 DEF Deleting
      <3>2. CASE p # r
        BY <1>3, <2>1, <2>2, <3>2 DEF ApplesInv, DeletionsHold, At
      <3>. QED
        BY <3>1, <3>2
    <2>. QED
      BY <1>2, <2>1, <2>2, <2>3 DEF ApplesInv, DeletionsHold
  <1>6. CredentialsReference' /\ AnswersTrue' /\ TokensAccountedFor'
    BY <1>2 DEF ApplesInv, CredentialsReference, AnswersTrue, TokensAccountedFor,
                Credentials, appleVars
  <1>. QED
    BY <1>5, <1>6 DEF ApplesInv

\* What is deleted with the account has just been queued.
LEMMA DeleteKeepsApples ==
    ASSUME TypeOK, RequestsNamed, ApplesInv, NEW r \in Requests, CommitDelete(r)
    PROVE  ApplesInv'
PROOF
  <1>. DEFINE u == req[r].user
  <1>1. At(r, "copied") /\ u \in Ids /\ Deleting(r, u)
    BY DEF TypeOK, RequestsNamed, Named, CommitDelete, At, Deleting
  <1>2. NoneDeletes
    BY EndDeletesNone DEF CommitDelete
  <1>3. /\ UNCHANGED <<stored, replaced, grants, revoked, worker>>
        /\ users' = [users EXCEPT ![u] = None]
        /\ identity' = [s \in Subjects |-> IF identity[s] = u THEN None ELSE identity[s]]
        /\ credential' = [credential EXCEPT ![u] = [c \in Clients |-> Lacking]]
        /\ job' = [g \in Grants |-> IF g \in req[r].queue THEN "due" ELSE job[g]]
        /\ req' = [req EXCEPT ![r] = Idle]
    BY DEF CommitDelete, End, Step
  <1>4. \A v \in Ids : v # u => /\ users'[v] = users[v]
                                /\ Credentials(v)' = Credentials(v)
                                /\ HasApple(v)' => HasApple(v)
    <2>. SUFFICES ASSUME NEW v \in Ids, v # u
                  PROVE  /\ users'[v] = users[v]
                         /\ Credentials(v)' = Credentials(v)
                         /\ HasApple(v)' => HasApple(v)
      OBVIOUS
    <2>1. users'[v] = users[v] /\ credential'[v] = credential[v]
      BY <1>1, <1>3 DEF TypeOK
    <2>2. Credentials(v)' = Credentials(v)
      BY <2>1 DEF Credentials
    <2>3. v # None /\ Apple \subseteq Subjects
      BY AccountsAssumption
    <2>4. HasApple(v)' => HasApple(v)
      BY <1>3, <2>3 DEF HasApple
    <2>. QED
      BY <2>1, <2>2, <2>4
  <1>5. \A v \in Ids, c \in Clients :
          credential'[v][c] = IF v = u THEN Lacking ELSE credential[v][c]
    BY <1>1, <1>3 DEF TypeOK
  <1>6. CredentialsReference'
    BY <1>4, <1>5 DEF ApplesInv, CredentialsReference
  <1>7. DeletionsHold'
    <2>. SUFFICES ASSUME NEW p \in Requests, NEW v \in Ids, Deleting(p, v)'
                  PROVE  /\ users'[v] # None
                         /\ \A q \in Requests : Deleting(q, v)' => q = p
                         /\ HasApple(v)' => Credentials(v)' # {}
                         /\ At(p, "copied")' => req'[p].queue = Credentials(v)'
      BY DEF DeletionsHold
    <2>1. ASSUME NEW q \in Requests, Deleting(q, v)'
          PROVE  req'[q] = req[q] /\ Deleting(q, v) /\ q # r
      <3>1. req'[q] = req[q] /\ Deleting(q, v)
        BY <1>2, <2>1 DEF NoneDeletes, Deleting
      <3>2. req'[r].pc = "idle"
        BY <1>3 DEF TypeOK, Idle
      <3>. QED
        BY <2>1, <3>1, <3>2 DEF Deleting
    <2>2. v # u
      BY <1>1, <2>1 DEF ApplesInv, DeletionsHold
    <2>. QED
      BY <1>4, <2>1, <2>2 DEF ApplesInv, DeletionsHold, At
  <1>8. TokensAccountedFor'
    <2>. SUFFICES ASSUME NEW h \in stored' \ (replaced' \cup revoked')
                  PROVE  \/ job'[h] # "none"
                         \/ \E v \in Ids : users'[v] # None /\ h \in Credentials(v)'
      BY DEF TokensAccountedFor
    <2>1. h \in Grants /\ h \in stored \ (replaced \cup revoked)
      BY <1>3 DEF TypeOK
    <2>2. CASE h \in Credentials(u)
      <3>1. req[r].queue = Credentials(u)
        BY <1>1 DEF ApplesInv, DeletionsHold
      <3>2. job'[h] = "due"
        BY <1>3, <2>1, <2>2, <3>1
      <3>. QED
        BY <3>2
    <2>3. CASE h \notin Credentials(u)
      <3>1. CASE job[h] # "none"
        <4>1. job'[h] # "none"
          BY <1>3, <2>1, <3>1
        <4>. QED
          BY <4>1
      <3>2. CASE job[h] = "none"
        <4>1. PICK v \in Ids : users[v] # None /\ h \in Credentials(v)
          BY <2>1, <3>2 DEF ApplesInv, TokensAccountedFor
        <4>. QED
          BY <1>4, <2>3, <4>1
      <3>. QED
        BY <3>1, <3>2
    <2>. QED
      BY <2>2, <2>3
  <1>9. AnswersTrue'
    BY <1>3 DEF ApplesInv, AnswersTrue
  <1>. QED
    BY <1>6, <1>7, <1>8, <1>9 DEF ApplesInv

LEMMA ApplesStep ==
    ASSUME TypeOK, RequestsNamed, ApplesInv, ~RefreshDuringDeletion, [Next]_vars
    PROVE  ApplesInv'
PROOF
  <1>. USE DEF registrationVars, userVars, appleVars, jobVars
  <1>0. \A r \in Requests : req[r] \in Request /\ Named(req[r])
    BY DEF TypeOK, RequestsNamed
  <1>1. ASSUME NEW r \in Requests, Start(r)
        PROVE  ApplesInv'
    BY <1>1, StartKeepsApples
  <1>2. ASSUME NEW r \in Requests,
               LinkIdentity(r) \/ StoreGrant(r) \/ CopyCredentials(r) \/ CommitDelete(r)
        PROVE  ApplesInv'
    BY <1>2, LinkKeepsApples, StoreKeepsApples, CopyKeepsApples, DeleteKeepsApples
  <1>3. ASSUME NEW r \in Requests, SendVerification(r) \/ Fail(r)
        PROVE  ApplesInv'
    <2>1. NoneDeletes
      BY <1>3, EndDeletesNone DEF SendVerification, Fail
    <2>. QED
      BY <1>3, <2>1, ApplesQuiet DEF SendVerification, Fail, NoneGone
  <1>4. ASSUME NEW r \in Requests, SaveRegistration(r)
        PROVE  ApplesInv'
    <2>1. PICK n : Step(r, [req[r] EXCEPT !.pc = "mail", !.number = n])
      BY <1>4 DEF SaveRegistration
    <2>2. [req[r] EXCEPT !.pc = "mail", !.number = n].pc = "mail"
      BY <1>0 DEF Request
    <2>3. NoneDeletes
      BY <2>1, <2>2, StepDeletesNone
    <2>. QED
      BY <1>4, <2>3, ApplesQuiet DEF SaveRegistration, NoneGone
  <1>5. ASSUME NEW r \in Requests, CommitComplete(r)
        PROVE  ApplesInv'
    <2>1. NoneDeletes
      BY <1>5, EndDeletesNone DEF CommitComplete
    <2>2. req[r].email \in Emails
      BY <1>0, <1>5 DEF CommitComplete, At, Named
    <2>3. NoneGone
      BY <1>5, <2>2, InsertUserIsTyped DEF CommitComplete, NoneGone
    <2>. QED
      BY <1>5, <2>1, <2>3, ApplesQuiet DEF CommitComplete
  <1>6. ASSUME NEW r \in Requests, FindUser(r)
        PROVE  ApplesInv'
    <2>1. PICK u : Step(r, [req[r] EXCEPT !.pc = "link", !.user = u])
      BY <1>6 DEF FindUser
    <2>2. [req[r] EXCEPT !.pc = "link", !.user = u].pc = "link"
      BY <1>0 DEF Request
    <2>3. NoneDeletes
      BY <2>1, <2>2, StepDeletesNone
    <2>4. req[r].email \in Emails
      BY <1>0, <1>6 DEF FindUser, At, Named
    <2>5. NoneGone
      BY <1>6, <2>4, InsertUserIsTyped DEF FindUser, NoneGone
    <2>. QED
      BY <1>6, <2>3, <2>5, ApplesQuiet DEF FindUser
  <1>7. ASSUME NEW r \in Requests, ClearPending(r)
        PROVE  ApplesInv'
    <2>1. [req[r] EXCEPT !.pc = "resolve"].pc = "resolve"
      BY <1>0 DEF Request
    <2>2. NoneDeletes
      BY <1>7, <2>1, StepDeletesNone DEF ClearPending
    <2>. QED
      BY <1>7, <2>2, ApplesQuiet DEF ClearPending, NoneGone
  <1>8. ASSUME NEW r \in Requests, ResolveIdentity(r)
        PROVE  ApplesInv'
    <2>1. NoneDeletes
      BY <1>8, SignedInDeletesNone DEF ResolveIdentity
    <2>. QED
      BY <1>8, <2>1, ApplesQuiet DEF ResolveIdentity, NoneGone
  <1>9. ASSUME NEW r \in Requests, ExchangeCode(r)
        PROVE  ApplesInv'
    <2>1. [req[r] EXCEPT !.pc = "store", !.grant = grants + 1].pc = "store"
      BY <1>0 DEF Request
    <2>2. NoneDeletes
      BY <1>9, <2>1, StepDeletesNone DEF ExchangeCode
    <2>3. UNCHANGED <<users, identity, credential, stored, replaced, job, revoked, worker>>
      BY <1>9 DEF ExchangeCode
    <2>. QED
      BY <2>2, <2>3, ApplesQuiet DEF NoneGone
  <1>10. ASSUME NEW w \in Workers, NEW g \in Grants, Work(w, g)
         PROVE  ApplesInv'
    <2>1. UNCHANGED <<userVars, appleVars, req>>
      BY <1>10 DEF Work, PickJob, AppleRevokes, AppleFails, MarkRevoked, PutOff
    <2>2. CredentialsReference' /\ DeletionsHold'
      BY <2>1 DEF ApplesInv, CredentialsReference, DeletionsHold, Deleting, HasApple,
                  Credentials, At, appleVars
    <2>3. worker[w] \in Task
      BY DEF TypeOK
    <2>4. revoked \subseteq revoked'
      BY <1>10 DEF Work, PickJob, AppleRevokes, AppleFails, MarkRevoked, PutOff
    <2>5. AnswersTrue'
      <3>1. \A v \in Workers : v # w => worker'[v] = worker[v]
        BY <1>10 DEF Work, PickJob, AppleRevokes, AppleFails, MarkRevoked, PutOff, TypeOK
      <3>2. worker'[w].answer = "success" => worker'[w].grant \in revoked'
        <4>1. CASE AppleRevokes(w, g)
          BY <2>3, <4>1 DEF AppleRevokes, Holds, TypeOK, Task
        <4>2. CASE PickJob(w, g)
          BY <2>3, <4>2 DEF PickJob, Resting, TypeOK, Task
        <4>3. CASE AppleFails(w, g)
          BY <2>3, <4>3 DEF AppleFails, TypeOK, Task
        <4>4. CASE MarkRevoked(w, g) \/ PutOff(w, g)
          BY <4>4 DEF MarkRevoked, PutOff, Resting, TypeOK
        <4>. QED
          BY <1>10, <4>1, <4>2, <4>3, <4>4 DEF Work
      <3>. QED
        BY <2>4, <3>1, <3>2 DEF ApplesInv, AnswersTrue
    <2>6. \A h \in Grants : job[h] # "none" => job'[h] # "none" \/ h \in revoked'
      <3>1. CASE MarkRevoked(w, g)
        <4>1. g \in revoked
          BY <3>1 DEF MarkRevoked, Holds, ApplesInv, AnswersTrue
        <4>. QED
          BY <2>4, <3>1, <4>1 DEF MarkRevoked, TypeOK
      <3>2. CASE ~MarkRevoked(w, g)
        BY <1>10, <3>2 DEF Work, PickJob, AppleRevokes, AppleFails, PutOff, TypeOK
      <3>. QED
        BY <3>1, <3>2
    <2>7. TokensAccountedFor'
      BY <2>1, <2>4, <2>6 DEF ApplesInv, TokensAccountedFor, Credentials, appleVars, TypeOK
    <2>. QED
      BY <2>2, <2>5, <2>7 DEF ApplesInv
  <1>11. CASE Environment
    <2>1. ASSUME NEW e \in Emails, LinkExpires(e)
          PROVE  ApplesInv'
      BY <2>1, ApplesQuiet DEF LinkExpires, NoneDeletes, NoneGone
    <2>2. ASSUME NEW e \in Emails, NEW n \in Tokens, VerifyEmail(e, n)
          PROVE  ApplesInv'
      BY <2>2, ApplesQuiet DEF VerifyEmail, NoneDeletes, NoneGone
    <2>3. ASSUME NEW g \in Grants, RetryFallsDue(g)
          PROVE  ApplesInv'
      <3>1. UNCHANGED <<userVars, appleVars, req, revoked, worker>>
        BY <2>3 DEF RetryFallsDue
      <3>2. CredentialsReference' /\ DeletionsHold' /\ AnswersTrue'
        BY <3>1 DEF ApplesInv, CredentialsReference, DeletionsHold, Deleting, HasApple,
                    Credentials, At, appleVars, AnswersTrue
      <3>3. \A h \in Grants : job[h] # "none" => job'[h] # "none"
        BY <2>3 DEF RetryFallsDue, TypeOK
      <3>4. TokensAccountedFor'
        BY <3>1, <3>3 DEF ApplesInv, TokensAccountedFor, Credentials, appleVars, TypeOK
      <3>. QED
        BY <3>2, <3>4 DEF ApplesInv
    <2>4. ASSUME NEW w \in Workers, WorkerCrashes(w)
          PROVE  ApplesInv'
      <3>1. UNCHANGED <<userVars, appleVars, req, revoked, job>>
        BY <2>4 DEF WorkerCrashes
      <3>2. CredentialsReference' /\ DeletionsHold' /\ TokensAccountedFor'
        BY <3>1 DEF ApplesInv, CredentialsReference, DeletionsHold, Deleting, HasApple,
                    Credentials, At, appleVars, TokensAccountedFor
      <3>3. AnswersTrue'
        BY <2>4, <3>1 DEF WorkerCrashes, ApplesInv, AnswersTrue, Resting, TypeOK
      <3>. QED
        BY <3>2, <3>3 DEF ApplesInv
    <2>. QED
      BY <1>11, <2>1, <2>2, <2>3, <2>4 DEF Environment
  <1>12. CASE UNCHANGED vars
    BY <1>12, ApplesQuiet DEF vars, NoneDeletes, NoneGone
  <1>. QED
    BY <1>1, <1>2, <1>3, <1>4, <1>5, <1>6, <1>7, <1>8, <1>9, <1>10, <1>11, <1>12
    DEF Next, Advance

-----------------------------------------------------------------------------
(* Theorems.                                                               *)

LEMMA InitIsTyped ==
    ASSUME Init
    PROVE  TypeOK /\ RequestsNamed
PROOF
  <1>1. Idle \in Request /\ Named(Idle)
    BY IdleIsTyped
  <1>2. Resting \in Task
    BY AccountsAssumption DEF Resting, Task, Lacking
  <1>3. [c \in Clients |-> Lacking] \in [Clients -> 0..MaxGrants]
    BY AccountsAssumption DEF Lacking
  <1>4. 1 \in Tokens /\ 0 \in 0..MaxAccounts /\ 0 \in 0..MaxGrants
        /\ {0, 1} \subseteq 0..MaxTokens
    BY AccountsAssumption DEF Tokens
  <1>5. pending \in [Emails -> PendingRow \cup {NoRow}]
    BY <1>4 DEF Init, PendingRow
  <1>6. RequestsNamed
    BY <1>1 DEF Init, RequestsNamed
  <1>7. /\ users \in [Ids -> Emails \cup {None}]
        /\ issued \in [Emails -> 0..MaxTokens]
        /\ mailed \in [Emails -> SUBSET Tokens]
        /\ opened \in [Emails -> [Tokens -> Nat]]
        /\ identity \in [Subjects -> Ids \cup {None}]
    BY <1>4 DEF Init
  <1>8. /\ credential \in [Ids -> [Clients -> 0..MaxGrants]]
        /\ job \in [Grants -> {"none", "due", "waiting"}]
        /\ req \in [Requests -> Request]
        /\ worker \in [Workers -> Task]
    BY <1>1, <1>2, <1>3 DEF Init
  <1>. QED
    BY <1>4, <1>5, <1>6, <1>7, <1>8 DEF Init, TypeOK

\* The variables keep their types, and a request knows what it writes.
THEOREM AccountsTyped == Spec => [](TypeOK /\ RequestsNamed)
PROOF
  <1>1. Init => TypeOK /\ RequestsNamed
    BY InitIsTyped
  <1>2. (TypeOK /\ RequestsNamed) /\ [Next]_vars => (TypeOK /\ RequestsNamed)'
    BY TypesStep
  <1>. QED
    BY <1>1, <1>2, PTL DEF Spec

LEMMA LinksHold == Spec => []LinksInv
PROOF
  <1>1. Init => LinksInv
    BY AccountsAssumption
    DEF Init, LinksInv, TokensFresh, CompletionsHold, LinkOpensOneAccount, NoRow, At, Idle
  <1>2. TypeOK /\ RequestsNamed /\ LinksInv /\ [Next]_vars => LinksInv'
    BY LinksStep
  <1>. QED
    BY <1>1, <1>2, AccountsTyped, PTL DEF Spec

\* complete_registration: a verification link opens one account at most.
THEOREM LinksOpenOneAccount == Spec => []LinkOpensOneAccount
PROOF
  <1>1. LinksInv => LinkOpensOneAccount
    BY DEF LinksInv
  <1>. QED
    BY <1>1, LinksHold, PTL

LEMMA ApplesHold == ~RefreshDuringDeletion => (Spec => []ApplesInv)
PROOF
  <1>. SUFFICES ASSUME ~RefreshDuringDeletion PROVE Spec => []ApplesInv
    OBVIOUS
  <1>1. Init => ApplesInv
    <2>. SUFFICES ASSUME Init PROVE ApplesInv
      OBVIOUS
    <2>1. CredentialsReference
      BY DEF Init, CredentialsReference
    <2>2. DeletionsHold /\ AnswersTrue
      BY DEF Init, DeletionsHold, Deleting, Idle, AnswersTrue, Resting
    <2>3. TokensAccountedFor
      BY DEF Init, TokensAccountedFor
    <2>. QED
      BY <2>1, <2>2, <2>3 DEF ApplesInv
  <1>2. TypeOK /\ RequestsNamed /\ ApplesInv /\ [Next]_vars => ApplesInv'
    BY ApplesStep
  <1>. QED
    BY <1>1, <1>2, AccountsTyped, PTL DEF Spec

\* All that the run checks as one invariant, for any number of accounts,
\* requests and instances: fresh tokens, completions and deletions that hold
\* what they have read and locked, and Apple's answers.
THEOREM AccountsInductive == ~RefreshDuringDeletion => (Spec => []AccountsInv)
PROOF
  <1>1. TypeOK /\ RequestsNamed /\ LinksInv /\ ApplesInv => AccountsInv
    BY DEF LinksInv, ApplesInv, AccountsInv
  <1>. QED
    BY <1>1, AccountsTyped, LinksHold, ApplesHold, PTL

\* delete_account and revoke_next: no stored token is forgotten, as long as no
\* credential is refreshed while its account is being deleted.
THEOREM TokensStayAccountedFor ==
    ~RefreshDuringDeletion => (Spec => []TokensAccountedFor)
PROOF
  <1>1. ApplesInv => TokensAccountedFor
    BY DEF ApplesInv
  <1>. QED
    BY <1>1, ApplesHold, PTL

\* delete_account: an account with an Apple identity goes with a revocation.
THEOREM DeletionsRevoke == ~RefreshDuringDeletion => (Spec => DeletedWithRevocation)
PROOF
  <1>1. TypeOK /\ RequestsNamed /\ ApplesInv /\ [Next]_vars =>
          [\A u \in Ids :
             users[u] # None /\ users'[u] = None /\ HasApple(u) =>
                 \E g \in Credentials(u) : job'[g] = "due"]_vars
    <2>. SUFFICES ASSUME TypeOK, RequestsNamed, ApplesInv, Next,
                         NEW u \in Ids, users[u] # None, users'[u] = None, HasApple(u)
                  PROVE  \E g \in Credentials(u) : job'[g] = "due"
      BY DEF vars
    <2>0. \A r \in Requests : Named(req[r])
      BY DEF RequestsNamed
    <2>1. PICK r \in Requests : CommitDelete(r)
      <3>1. ASSUME NEW r \in Requests, CommitComplete(r) \/ FindUser(r)
            PROVE  FALSE
        <4>1. req[r].email \in Emails
          BY <2>0, <3>1 DEF CommitComplete, FindUser, At, Named
        <4>. QED
          BY <3>1, <4>1, InsertUserIsTyped DEF CommitComplete, FindUser
      <3>2. \/ \E r \in Requests : CommitComplete(r) \/ FindUser(r) \/ CommitDelete(r)
            \/ UNCHANGED users
        BY DEF Next, Start, StartRegister, StartDelete, StartComplete, StartOAuth,
               StartReauthorize, Advance, SaveRegistration, SendVerification,
               LinkIdentity, ClearPending, ResolveIdentity, ExchangeCode, StoreGrant,
               CopyCredentials, Fail, Work, PickJob, AppleRevokes, AppleFails,
               MarkRevoked, PutOff, Environment, LinkExpires, VerifyEmail,
               RetryFallsDue, WorkerCrashes, userVars
      <3>. QED
        BY <3>1, <3>2
    <2>2. /\ users' = [users EXCEPT ![req[r].user] = None]
          /\ job' = [g \in Grants |-> IF g \in req[r].queue THEN "due" ELSE job[g]]
          /\ req[r].pc = "copied"
      BY <2>1 DEF CommitDelete, At
    <2>3. req[r].user = u
      BY <2>2 DEF TypeOK
    <2>4. req[r].queue = Credentials(u) /\ Credentials(u) # {}
      BY <2>2, <2>3 DEF ApplesInv, DeletionsHold, Deleting, At
    <2>5. Credentials(u) \subseteq Grants
      BY <2>4 DEF TypeOK, Request
    <2>. QED
      BY <2>2, <2>4, <2>5
  <1>. QED
    BY <1>1, ApplesHold, AccountsTyped, PTL DEF Spec, DeletedWithRevocation
=============================================================================
