----------------------------- MODULE PollsProofs -----------------------------
(***************************************************************************)
(* Polls: a poll of one choice keeps one vote of each user, the handlers   *)
(* implement the ballot box, and a client that hears of all changes shows  *)
(* the polls as they are.                                                  *)
(***************************************************************************)
EXTENDS PollViews, TLAPS

-----------------------------------------------------------------------------
(* Types, and what requests know.                                          *)

Typed == TypeOK /\ RequestsNamed

Named(q) ==
    /\ q.pc \in {"vote", "delete", "created", "voted", "deleted"} => q.poll \in Ids
    /\ q.pc \in {"create", "vote"} => q.user \in Users

LEMMA NamedRequests ==
    Typed => \A r \in Requests : req[r] \in Request /\ Named(req[r])
  BY DEF Typed, TypeOK, RequestsNamed, Named

LEMMA IdleIsTyped == Idle \in Request /\ Named(Idle)
  BY DEF Idle, Request, PCs, Named

LEMMA StepIsTyped ==
    ASSUME Typed, NEW r \in Requests, NEW q \in Request, Named(q), Step(r, q)
    PROVE  /\ req' \in [Requests -> Request]
           /\ RequestsNamed'
           /\ req'[r] = q
           /\ \A s \in Requests \ {r} : req'[s] = req[s]
  BY DEF Typed, TypeOK, RequestsNamed, Named, Step

LEMMA EndIsTyped ==
    ASSUME Typed, NEW r \in Requests, End(r)
    PROVE  /\ req' \in [Requests -> Request]
           /\ RequestsNamed'
           /\ req'[r].pc = "idle"
           /\ \A s \in Requests \ {r} : req'[s] = req[s]
  BY IdleIsTyped, StepIsTyped DEF End, Idle

LEMMA NoPollIsTyped == NoPoll \in PollRow \cup {NoPoll} /\ ~NoPoll.here
  BY DEF NoPoll


LEMMA InvTypes == PollsInv => Typed
  BY DEF PollsInv, Typed

-----------------------------------------------------------------------------
(* The invariant.                                                          *)

\* A request that writes nothing, and does not come to hold a poll.
LEMMA QuietStep ==
    ASSUME PollsInv,
           NEW r \in Requests, NEW q \in Request, Named(q), q.pc # "voting",
           Step(r, q), UNCHANGED <<userVars, pollVars>>, enqueued' \in SUBSET Users
    PROVE  PollsInv'
<1>1. /\ req' \in [Requests -> Request]
      /\ RequestsNamed'
      /\ req'[r] = q
      /\ \A s \in Requests \ {r} : req'[s] = req[s]
  BY InvTypes, StepIsTyped
<1>2. TypeOK'
  BY <1>1 DEF PollsInv, TypeOK, userVars, pollVars
<1>3. VotingHolds'
  <2>1. \A s \in Requests : At(s, "voting")' => s # r /\ At(s, "voting") /\ req'[s] = req[s]
    BY <1>1 DEF At
  <2> QED
    BY <2>1 DEF PollsInv, VotingHolds, pollVars
<1>4. BallotsSound' /\ IdsAreNew'
  BY DEF PollsInv, BallotsSound, IdsAreNew, userVars, pollVars
<1> QED
  BY <1>1, <1>2, <1>3, <1>4 DEF PollsInv

LEMMA QuietEnd ==
    ASSUME PollsInv, NEW r \in Requests,
           End(r), UNCHANGED <<userVars, pollVars>>, enqueued' \in SUBSET Users
    PROVE  PollsInv'
  BY QuietStep, IdleIsTyped DEF End, Idle

\* A change of accounts, invitations, clocks: no request moves.
LEMMA RequestsRest ==
    ASSUME PollsInv, UNCHANGED req
    PROVE  /\ req' \in [Requests -> Request]
           /\ RequestsNamed'
           /\ \A s \in Requests : req'[s] = req[s]
  BY DEF PollsInv, TypeOK, RequestsNamed

LEMMA InitHolds == Init => PollsInv
<1> SUFFICES ASSUME Init PROVE PollsInv
  OBVIOUS
<1> USE PollsAssumption
<1>1. TypeOK
  BY IdleIsTyped DEF Init, TypeOK, Ids
<1>2. VotingHolds /\ RequestsNamed
  BY DEF Init, VotingHolds, RequestsNamed, At, Idle
<1>3. BallotsSound /\ IdsAreNew
  BY DEF Init, BallotsSound, IdsAreNew, AtMostOne, NoPoll
<1> QED
  BY <1>1, <1>2, <1>3 DEF PollsInv

LEMMA StartCreateHolds ==
    ASSUME PollsInv, NEW r \in Requests, NEW u \in Users, StartCreate(r, u)
    PROVE  PollsInv'
<1>1. PICK s \in BOOLEAN :
        Step(r, [Idle EXCEPT !.pc = "create", !.user = u, !.single = s])
  BY DEF StartCreate
<1> DEFINE q == [Idle EXCEPT !.pc = "create", !.user = u, !.single = s]
<1>2. q \in Request /\ Named(q) /\ q.pc # "voting"
  BY DEF Idle, Request, PCs, Named
<1> QED
  BY <1>1, <1>2, QuietStep DEF StartCreate

LEMMA StartVoteHolds ==
    ASSUME PollsInv, NEW r \in Requests, NEW u \in Users, NEW p \in Ids,
           NEW c \in Choices, StartVote(r, u, p, c)
    PROVE  PollsInv'
<1> DEFINE q == [Idle EXCEPT !.pc = "vote", !.user = u, !.poll = p, !.choice = c]
<1>1. q \in Request /\ Named(q) /\ q.pc # "voting"
  BY PollsAssumption DEF Idle, Request, PCs, Named
<1> QED
  BY <1>1, QuietStep DEF StartVote

LEMMA StartDeleteHolds ==
    ASSUME PollsInv, NEW r \in Requests, NEW u \in Users, NEW p \in Ids,
           StartDelete(r, u, p)
    PROVE  PollsInv'
<1> DEFINE q == [Idle EXCEPT !.pc = "delete", !.poll = p]
<1>1. q \in Request /\ Named(q) /\ q.pc # "voting"
  BY DEF Idle, Request, PCs, Named
<1> QED
  BY <1>1, QuietStep DEF StartDelete

LEMMA NotifyHolds ==
    ASSUME PollsInv, NEW r \in Requests, Notify(r)
    PROVE  PollsInv'
<1>1. enqueued' \in SUBSET Users
  BY DEF Notify, PollsInv, TypeOK
<1> QED
  BY <1>1, QuietEnd DEF Notify

\* A creation goes on to the notices.
LEMMA OnToNotices ==
    ASSUME PollsInv, NEW r \in Requests
    PROVE  LET q == [req[r] EXCEPT !.pc = "notify", !.poll = None] IN
           q \in Request /\ Named(q) /\ q.pc # "voting"
<1>1. req[r] \in Request
  BY DEF PollsInv, TypeOK
<1> QED
  BY <1>1 DEF Request, PCs, Named

LEMMA AnnouncedHolds ==
    ASSUME PollsInv, NEW r \in Requests, Announced(r) \/ NotAnnounced(r)
    PROVE  PollsInv'
<1>1. End(r) \/ Step(r, [req[r] EXCEPT !.pc = "notify", !.poll = None])
  BY DEF Announced, NotAnnounced
<1>2. enqueued' = {} /\ UNCHANGED <<userVars, pollVars>>
  BY DEF Announced, NotAnnounced
<1> QED
  BY <1>1, <1>2, OnToNotices, QuietStep, QuietEnd

LEMMA QuietEndings ==
    ASSUME PollsInv, NEW r \in Requests, NothingToSay(r) \/ Fail(r)
    PROVE  PollsInv'
  BY QuietEnd DEF NothingToSay, Fail


LEMMA CommitCreateHolds ==
    ASSUME PollsInv, NEW r \in Requests, CommitCreate(r)
    PROVE  PollsInv'
<1> DEFINE p == lastPoll + 1
           q == [Idle EXCEPT !.pc = "created", !.user = req[r].user, !.poll = p]
           row == [single |-> req[r].single, open |-> TRUE, by |-> req[r].user, here |-> TRUE]
<1>1. /\ p \in Ids
      /\ req[r].pc = "create"
      /\ lastPoll' = p
      /\ poll' = [poll EXCEPT ![p] = row]
      /\ Step(r, q)
      /\ UNCHANGED <<userVars, votes>>
      /\ enqueued' = {}
  BY DEF CommitCreate, At
<1>2. Typed
  BY InvTypes
<1>3. req[r] \in Request /\ req[r].user \in Users
  BY <1>1, <1>2, NamedRequests DEF Named
<1>4. q \in Request /\ Named(q) /\ q.pc # "voting"
  BY <1>1, <1>3 DEF Idle, Request, PCs, Named
<1>5. /\ req' \in [Requests -> Request]
      /\ RequestsNamed'
      /\ req'[r] = q
      /\ \A s \in Requests \ {r} : req'[s] = req[s]
  BY <1>1, <1>2, <1>4, StepIsTyped
<1>6. poll \in [Ids -> PollRow \cup {NoPoll}] /\ lastPoll \in 0..MaxPolls /\ lastPoll' \in 0..MaxPolls
  BY <1>1, PollsAssumption DEF PollsInv, TypeOK, Ids
<1>7. row \in PollRow
  BY <1>3 DEF PollRow, Request
<1>8. /\ poll'[p] = row
      /\ \A i \in Ids \ {p} : poll'[i] = poll[i]
      /\ poll' \in [Ids -> PollRow \cup {NoPoll}]
  BY <1>1, <1>6, <1>7
<1>9. ~poll[p].here
  <2>1. p > lastPoll
    BY <1>6
  <2> QED
    BY <1>1, <2>1 DEF PollsInv, IdsAreNew
<1>10. TypeOK'
  BY <1>1, <1>5, <1>6, <1>8 DEF PollsInv, TypeOK, userVars
<1>11. VotingHolds'
  <2>1. \A s \in Requests : At(s, "voting")' =>
          s # r /\ At(s, "voting") /\ req'[s] = req[s] /\ req[s].poll # p
    BY <1>4, <1>5, <1>9 DEF At, PollsInv, VotingHolds
  <2> QED
    BY <1>1, <1>8, <2>1 DEF PollsInv, VotingHolds
<1>12. BallotsSound'
  <2>1. \A u \in Users : votes[p][u] = {}
    BY <1>1, <1>9 DEF PollsInv, BallotsSound
  <2> QED
    BY <1>1, <1>8, <2>1 DEF PollsInv, BallotsSound, AtMostOne, userVars
<1>13. IdsAreNew'
  <2>1. \A i \in Ids : i > p => i # p /\ i > lastPoll
    BY <1>6 DEF Ids
  <2> QED
    BY <1>1, <1>8, <2>1 DEF PollsInv, IdsAreNew
<1> QED
  BY <1>5, <1>10, <1>11, <1>12, <1>13 DEF PollsInv

LEMMA LockPollHolds ==
    ASSUME PollsInv, NEW r \in Requests, LockPoll(r)
    PROVE  PollsInv'
<1> DEFINE p == req[r].poll
           q == [req[r] EXCEPT !.pc = "voting", !.gone = votes[p][req[r].user]]
<1>1. /\ req[r].pc = "vote"
      /\ PollFree(p)
      /\ Admits(p, req[r].choice)
      /\ Step(r, q)
      /\ UNCHANGED <<userVars, pollVars>>
      /\ enqueued' = {}
  BY DEF LockPoll, At
<1>2. Typed
  BY InvTypes
<1>3. req[r] \in Request /\ p \in Ids /\ req[r].user \in Users
  BY <1>1, <1>2, NamedRequests DEF Named
<1>4. votes[p][req[r].user] \in SUBSET Options
  BY <1>3 DEF PollsInv, TypeOK
<1>5. /\ q \in Request /\ q.pc = "voting" /\ q.poll = p
      /\ q.user = req[r].user /\ q.choice = req[r].choice
      /\ q.gone = votes[p][req[r].user]
  BY <1>3, <1>4 DEF Request, PCs
<1>6. Named(q)
  BY <1>5 DEF Named
<1>7. /\ req' \in [Requests -> Request]
      /\ RequestsNamed'
      /\ req'[r] = q
      /\ \A s \in Requests \ {r} : req'[s] = req[s]
  BY <1>1, <1>2, <1>5, <1>6, StepIsTyped
<1>8. TypeOK'
  BY <1>1, <1>7 DEF PollsInv, TypeOK, userVars, pollVars
<1>9. VotingHolds'
  <2>1. ASSUME NEW s \in Requests, At(s, "voting")', s # r
        PROVE  At(s, "voting") /\ req'[s] = req[s] /\ req[s].poll # p
    BY <1>1, <1>7, <2>1 DEF At, PollFree
  <2>2. /\ p \in Ids
        /\ req[r].user \in Users
        /\ poll[p].here
        /\ poll[p].single => AtMostOne(req[r].choice)
    BY <1>1, <1>3 DEF Admits
  <2>3. ASSUME NEW s \in Requests, At(s, "voting")'
        PROVE  LET i == req'[s].poll IN
               /\ i \in Ids
               /\ req'[s].user \in Users
               /\ poll'[i].here
               /\ poll'[i].single => AtMostOne(req'[s].choice)
               /\ votes'[i][req'[s].user] \subseteq req'[s].gone
               /\ \A t \in Requests : At(t, "voting")' /\ req'[t].poll = i => t = s
    <3>1. CASE s = r
      <4>1. /\ req'[s].poll = p /\ req'[s].user = req[r].user
            /\ req'[s].choice = req[r].choice /\ req'[s].gone = votes[p][req[r].user]
        BY <1>5, <1>7, <3>1
      <4>2. \A t \in Requests : At(t, "voting")' /\ req'[t].poll = p => t = s
        BY <2>1, <3>1
      <4> QED
        BY <1>1, <2>2, <4>1, <4>2 DEF pollVars
    <3>2. CASE s # r
      <4>1. At(s, "voting") /\ req'[s] = req[s] /\ req[s].poll # p
        BY <2>1, <2>3, <3>2
      <4>2. ASSUME NEW t \in Requests, At(t, "voting")', req'[t].poll = req[s].poll
            PROVE  t = s
        <5>1. t # r
          BY <1>5, <1>7, <4>1, <4>2
        <5>2. At(t, "voting") /\ req[t].poll = req[s].poll
          BY <2>1, <4>2, <5>1
        <5> QED
          BY <4>1, <5>2 DEF PollsInv, VotingHolds
      <4> QED
        BY <1>1, <4>1, <4>2 DEF PollsInv, VotingHolds, pollVars
    <3> QED
      BY <3>1, <3>2
  <2> QED
    BY <2>3 DEF VotingHolds, At
<1>10. BallotsSound' /\ IdsAreNew'
  BY <1>1 DEF PollsInv, BallotsSound, IdsAreNew, userVars, pollVars
<1> QED
  BY <1>7, <1>8, <1>9, <1>10 DEF PollsInv


\* A vote that commits leaves its choice and nothing else.
LEMMA VoteReplaces ==
    ASSUME PollsInv, NEW r \in Requests, CommitVote(r)
    PROVE  /\ req[r].poll \in Ids
           /\ req[r].user \in Users
           /\ req[r].choice \in SUBSET Options
           /\ votes' = [votes EXCEPT ![req[r].poll][req[r].user] = req[r].choice]
<1>1. At(r, "voting")
  BY DEF CommitVote
<1>2. /\ req[r].poll \in Ids
      /\ req[r].user \in Users
      /\ votes[req[r].poll][req[r].user] \subseteq req[r].gone
  BY <1>1 DEF PollsInv, VotingHolds
<1>3. req[r].choice \in SUBSET Options
  BY DEF PollsInv, TypeOK, Request
<1>4. (votes[req[r].poll][req[r].user] \ req[r].gone) \cup req[r].choice = req[r].choice
  BY <1>2
<1> QED
  BY <1>2, <1>3, <1>4 DEF CommitVote

LEMMA CommitVoteHolds ==
    ASSUME PollsInv, NEW r \in Requests, CommitVote(r)
    PROVE  PollsInv'
<1> DEFINE p == req[r].poll
           u == req[r].user
           c == req[r].choice
           q == [Idle EXCEPT !.pc = "voted", !.poll = p]
<1>1. /\ p \in Ids /\ u \in Users /\ c \in SUBSET Options
      /\ votes' = [votes EXCEPT ![p][u] = c]
  BY VoteReplaces
<1>2. /\ At(r, "voting")
      /\ c # {} => u \in accounts
      /\ Step(r, q)
      /\ UNCHANGED <<userVars, lastPoll, poll>>
      /\ enqueued' = {}
  BY DEF CommitVote
<1>3. q \in Request /\ Named(q) /\ q.pc # "voting"
  BY <1>1 DEF Idle, Request, PCs, Named
<1>4. /\ req' \in [Requests -> Request]
      /\ RequestsNamed'
      /\ req'[r] = q
      /\ \A s \in Requests \ {r} : req'[s] = req[s]
  BY <1>2, <1>3, InvTypes, StepIsTyped
<1>5. votes \in [Ids -> [Users -> SUBSET Options]]
  BY DEF PollsInv, TypeOK
<1>6. /\ votes' \in [Ids -> [Users -> SUBSET Options]]
      /\ votes'[p][u] = c
      /\ \A i \in Ids, v \in Users : i # p \/ v # u => votes'[i][v] = votes[i][v]
  BY <1>1, <1>5
<1>7. TypeOK'
  BY <1>2, <1>4, <1>6 DEF PollsInv, TypeOK, userVars
<1>8. VotingHolds'
  <2>1. \A s \in Requests : At(s, "voting")' =>
          s # r /\ At(s, "voting") /\ req'[s] = req[s] /\ req[s].poll # p
    BY <1>2, <1>3, <1>4 DEF At, PollsInv, VotingHolds
  <2> QED
    BY <1>2, <1>6, <2>1 DEF PollsInv, VotingHolds
<1>9. BallotsSound'
  <2>1. poll[p].here /\ (poll[p].single => AtMostOne(c))
    BY <1>2 DEF PollsInv, VotingHolds
  <2> QED
    BY <1>2, <1>6, <2>1 DEF PollsInv, BallotsSound, userVars
<1>10. IdsAreNew'
  BY <1>2 DEF PollsInv, IdsAreNew
<1> QED
  BY <1>4, <1>7, <1>8, <1>9, <1>10 DEF PollsInv

LEMMA CommitDeleteHolds ==
    ASSUME PollsInv, NEW r \in Requests, CommitDelete(r)
    PROVE  PollsInv'
<1> DEFINE p == req[r].poll
           q == [req[r] EXCEPT !.pc = "deleted"]
           none == [u \in Users |-> {}]
<1>1. /\ req[r].pc = "delete"
      /\ PollFree(p)
      /\ poll' = [poll EXCEPT ![p] = NoPoll]
      /\ votes' = [votes EXCEPT ![p] = none]
      /\ Step(r, q)
      /\ UNCHANGED <<userVars, lastPoll>>
      /\ enqueued' = {}
  BY DEF CommitDelete, At
<1>2. Typed
  BY InvTypes
<1>3. req[r] \in Request /\ p \in Ids
  BY <1>1, <1>2, NamedRequests DEF Named
<1>4. q \in Request /\ q.pc = "deleted" /\ q.poll = p
  BY <1>3 DEF Request, PCs
<1>5. Named(q)
  BY <1>3, <1>4 DEF Named
<1>6. /\ req' \in [Requests -> Request]
      /\ RequestsNamed'
      /\ req'[r] = q
      /\ \A s \in Requests \ {r} : req'[s] = req[s]
  BY <1>1, <1>2, <1>4, <1>5, StepIsTyped
<1>7. poll \in [Ids -> PollRow \cup {NoPoll}] /\ votes \in [Ids -> [Users -> SUBSET Options]]
  BY DEF PollsInv, TypeOK
<1>8. none \in [Users -> SUBSET Options] /\ \A u \in Users : none[u] = {}
  OBVIOUS
<1>9. /\ poll' \in [Ids -> PollRow \cup {NoPoll}]
      /\ poll'[p] = NoPoll
      /\ \A i \in Ids \ {p} : poll'[i] = poll[i]
  BY <1>1, <1>3, <1>7
<1>10. /\ votes' \in [Ids -> [Users -> SUBSET Options]]
       /\ \A u \in Users : votes'[p][u] = {}
       /\ \A i \in Ids \ {p} : votes'[i] = votes[i]
  <2> HIDE DEF none
  <2> QED
    BY <1>1, <1>3, <1>7, <1>8
<1>11. TypeOK'
  BY <1>1, <1>6, <1>9, <1>10 DEF PollsInv, TypeOK, userVars
<1>12. VotingHolds'
  <2>1. \A s \in Requests : At(s, "voting")' =>
          s # r /\ At(s, "voting") /\ req'[s] = req[s] /\ req[s].poll # p
    BY <1>1, <1>4, <1>6 DEF At, PollFree
  <2> QED
    BY <1>9, <1>10, <2>1 DEF PollsInv, VotingHolds
<1>13. BallotsSound' /\ IdsAreNew'
  BY <1>1, <1>9, <1>10, NoPollIsTyped DEF PollsInv, BallotsSound, IdsAreNew, AtMostOne, userVars
<1> QED
  BY <1>6, <1>11, <1>12, <1>13 DEF PollsInv


LEMMA PollExpiresHolds ==
    ASSUME PollsInv, NEW p \in Ids, PollExpires(p)
    PROVE  PollsInv'
<1> DEFINE row == [poll[p] EXCEPT !.open = FALSE]
<1>1. /\ poll[p].open
      /\ poll' = [poll EXCEPT ![p] = row]
      /\ UNCHANGED <<userVars, lastPoll, votes, req>>
      /\ enqueued' = {}
  BY DEF PollExpires
<1>2. poll \in [Ids -> PollRow \cup {NoPoll}]
  BY DEF PollsInv, TypeOK
<1>3. poll[p] \in PollRow
  BY <1>1, <1>2 DEF NoPoll
<1>4. row \in PollRow /\ row.here = poll[p].here /\ row.single = poll[p].single
  BY <1>3 DEF PollRow
<1>5. /\ poll' \in [Ids -> PollRow \cup {NoPoll}]
      /\ \A i \in Ids : poll'[i].here = poll[i].here /\ poll'[i].single = poll[i].single
  <2> HIDE DEF row
  <2> QED
    BY <1>1, <1>2, <1>4
<1>6. /\ req' \in [Requests -> Request]
      /\ RequestsNamed'
      /\ \A s \in Requests : req'[s] = req[s]
  BY <1>1, RequestsRest
<1>7. TypeOK'
  BY <1>1, <1>5, <1>6 DEF PollsInv, TypeOK, userVars
<1>8. VotingHolds'
  BY <1>1, <1>5 DEF PollsInv, VotingHolds, At
<1>9. BallotsSound' /\ IdsAreNew'
  BY <1>1, <1>5 DEF PollsInv, BallotsSound, IdsAreNew, userVars
<1> QED
  BY <1>6, <1>7, <1>8, <1>9 DEF PollsInv

LEMMA AnswerChangesHolds ==
    ASSUME PollsInv, NEW u \in Users, AnswerChanges(u)
    PROVE  PollsInv'
<1>1. UNCHANGED <<accounts, pollVars, req>> /\ enqueued' = {} /\ accepted' \in SUBSET Users
  BY DEF AnswerChanges, PollsInv, TypeOK
<1>2. TypeOK'
  BY <1>1 DEF PollsInv, TypeOK, pollVars
<1> QED
  BY <1>1, <1>2 DEF PollsInv, VotingHolds, BallotsSound, IdsAreNew, RequestsNamed, At, pollVars

\* The row of a poll, with its creator forgotten.
LEMMA ForgottenCreator ==
    ASSUME NEW row \in PollRow \cup {NoPoll}, row.by # None
    PROVE  LET new == [row EXCEPT !.by = None] IN
           /\ new \in PollRow
           /\ new.here = row.here
           /\ new.single = row.single
           /\ new.open = row.open
<1>1. row \in PollRow
  BY DEF NoPoll
<1> QED
  BY <1>1 DEF PollRow

\* Votes and creators of an account that goes.
LEMMA AccountForgotten ==
    ASSUME PollsInv, NEW u \in Users, DeleteAccount(u)
    PROVE  /\ votes' \in [Ids -> [Users -> SUBSET Options]]
           /\ votes' = [p \in Ids |-> [votes[p] EXCEPT ![u] = {}]]
           /\ \A p \in Ids : votes'[p][u] = {}
           /\ \A p \in Ids, v \in Users \ {u} : votes'[p][v] = votes[p][v]
           /\ poll' \in [Ids -> PollRow \cup {NoPoll}]
           /\ \A p \in Ids : /\ poll'[p].here = poll[p].here
                             /\ poll'[p].single = poll[p].single
                             /\ poll'[p].open = poll[p].open
<1>1. votes \in [Ids -> [Users -> SUBSET Options]] /\ poll \in [Ids -> PollRow \cup {NoPoll}]
  BY DEF PollsInv, TypeOK
<1>2. votes' = [p \in Ids |-> [votes[p] EXCEPT ![u] = {}]]
  BY DEF DeleteAccount
<1>3. /\ votes' \in [Ids -> [Users -> SUBSET Options]]
      /\ \A p \in Ids : votes'[p][u] = {}
      /\ \A p \in Ids, v \in Users \ {u} : votes'[p][v] = votes[p][v]
  BY <1>1, <1>2
<1>4. \A p \in Ids : poll'[p] = IF poll[p].by = u THEN [poll[p] EXCEPT !.by = None]
                                                ELSE poll[p]
  BY DEF DeleteAccount
<1>5. DOMAIN poll' = Ids /\ poll' = [p \in Ids |-> poll'[p]]
  BY DEF DeleteAccount
<1>6. ASSUME NEW p \in Ids
      PROVE  /\ poll'[p] \in PollRow \cup {NoPoll}
             /\ poll'[p].here = poll[p].here
             /\ poll'[p].single = poll[p].single
             /\ poll'[p].open = poll[p].open
  <2>1. CASE poll[p].by = u
    <3>1. poll[p] \in PollRow \cup {NoPoll} /\ poll[p].by # None
      BY <1>1, <2>1, PollsAssumption
    <3> QED
      BY <1>4, <2>1, <3>1, ForgottenCreator
  <2>2. CASE poll[p].by # u
    BY <1>1, <1>4, <2>2
  <2> QED
    BY <2>1, <2>2
<1> QED
  BY <1>2, <1>3, <1>5, <1>6

LEMMA DeleteAccountHolds ==
    ASSUME PollsInv, NEW u \in Users, DeleteAccount(u)
    PROVE  PollsInv'
<1>1. /\ accounts' = accounts \ {u}
      /\ accepted' = accepted \ {u}
      /\ UNCHANGED <<lastPoll, req>>
      /\ enqueued' = {}
  BY DEF DeleteAccount
<1>2. /\ votes' \in [Ids -> [Users -> SUBSET Options]]
      /\ \A p \in Ids, v \in Users : votes'[p][v] \subseteq votes[p][v]
      /\ \A p \in Ids : votes'[p][u] = {}
      /\ \A p \in Ids, v \in Users \ {u} : votes'[p][v] = votes[p][v]
      /\ poll' \in [Ids -> PollRow \cup {NoPoll}]
      /\ \A p \in Ids : poll'[p].here = poll[p].here /\ poll'[p].single = poll[p].single
  BY AccountForgotten
<1>3. /\ req' \in [Requests -> Request]
      /\ RequestsNamed'
      /\ \A s \in Requests : req'[s] = req[s]
  BY <1>1, RequestsRest
<1>4. TypeOK'
  BY <1>1, <1>2, <1>3 DEF PollsInv, TypeOK
<1>5. VotingHolds'
  BY <1>1, <1>2 DEF PollsInv, VotingHolds, At
<1>6. BallotsSound' /\ IdsAreNew'
  BY <1>1, <1>2 DEF PollsInv, BallotsSound, IdsAreNew, AtMostOne
<1> QED
  BY <1>3, <1>4, <1>5, <1>6 DEF PollsInv

LEMMA NextHolds == PollsInv /\ [Next]_vars => PollsInv'
<1> SUFFICES ASSUME PollsInv, [Next]_vars PROVE PollsInv'
  OBVIOUS
<1>1. ASSUME NEW r \in Requests, Handle(r) PROVE PollsInv'
  BY <1>1, StartCreateHolds, StartDeleteHolds, StartVoteHolds, CommitCreateHolds,
     LockPollHolds, CommitVoteHolds, CommitDeleteHolds, QuietEndings, NotifyHolds
     DEF Handle
<1>2. ASSUME NEW r \in Requests, Announced(r) \/ NotAnnounced(r) PROVE PollsInv'
  BY <1>2, AnnouncedHolds
<1>3. ASSUME NEW u \in Users, DeleteAccount(u) PROVE PollsInv'
  BY <1>3, DeleteAccountHolds
<1>4. CASE Environment
  BY <1>4, PollExpiresHolds, AnswerChangesHolds DEF Environment
<1>5. CASE UNCHANGED vars
  BY <1>5 DEF PollsInv, TypeOK, VotingHolds, BallotsSound, IdsAreNew, RequestsNamed, At,
              vars, userVars, pollVars
<1> QED
  BY <1>1, <1>2, <1>3, <1>4, <1>5 DEF Next

\* Whatever the interleaving of creations, votes, deletions and deleted accounts,
\* of any number of requests: types, a vote past its lock is alone at its poll and
\* has seen all that its user has there, ballots are sound, poll_ids are new.
THEOREM PollsInductive == Spec => []PollsInv
<1>1. Init => PollsInv
  BY InitHolds
<1>2. PollsInv /\ [Next]_vars => PollsInv'
  BY NextHolds
<1> QED
  BY <1>1, <1>2, PTL DEF Spec

\* Two votes of one user at once leave one ballot, and a poll of one choice
\* never holds two options of a user.
THEOREM BallotsAreSound == Spec => []BallotsSound
<1>1. PollsInv => BallotsSound
  BY DEF PollsInv
<1> QED
  BY <1>1, PollsInductive, PTL


-----------------------------------------------------------------------------
(* The ballot box.                                                         *)

\* What Box substitutes for its variables.
Kind == [p \in Ids |-> IF poll[p].here
                       THEN IF poll[p].single THEN "single" ELSE "multiple"
                       ELSE IF p <= lastPoll THEN "gone" ELSE "none"]
Open == {p \in Ids : poll[p].open}
AtBox == [p \in Ids |-> {req[r].user : r \in {q \in Requests :
                                        At(q, "voting") /\ req[q].poll = p}}]

LEMMA BoxIs ==
    Box!vars = <<accounts, Kind, Open, AtBox, votes>>
  BY DEF Box!vars, Kind, Open, AtBox

LEMMA AtBoxIs ==
    ASSUME NEW p \in Ids, NEW u
    PROVE  u \in AtBox[p] <=>
             \E r \in Requests : At(r, "voting") /\ req[r].poll = p /\ req[r].user = u
  BY DEF AtBox

LEMMA AtBoxIsThen ==
    ASSUME NEW p \in Ids, NEW u
    PROVE  u \in AtBox'[p] <=>
             \E r \in Requests : At(r, "voting")' /\ req'[r].poll = p /\ req'[r].user = u
  BY DEF AtBox

LEMMA BoxesAreIds == DOMAIN AtBox = Ids /\ DOMAIN AtBox' = Ids
                     /\ AtBox = [p \in Ids |-> AtBox[p]] /\ AtBox' = [p \in Ids |-> AtBox'[p]]
  BY DEF AtBox

\* Nobody comes and nobody goes.
LEMMA NobodyMoves ==
    ASSUME \A s \in Requests : At(s, "voting") \/ At(s, "voting")' => req'[s] = req[s]
    PROVE  AtBox' = AtBox
<1>1. ASSUME NEW p \in Ids, NEW u PROVE u \in AtBox'[p] <=> u \in AtBox[p]
  BY AtBoxIs, AtBoxIsThen DEF At
<1>2. ASSUME NEW p \in Ids PROVE AtBox'[p] = AtBox[p]
  BY <1>1
<1> QED
  BY <1>2, BoxesAreIds

\* Of a request that moves and does not vote, before or after.
LEMMA MovesElsewhere ==
    ASSUME PollsInv, NEW r \in Requests, NEW q, Step(r, q),
           ~At(r, "voting"), q.pc # "voting"
    PROVE  AtBox' = AtBox
<1>1. req'[r] = q /\ \A s \in Requests \ {r} : req'[s] = req[s]
  BY DEF Step, PollsInv, TypeOK
<1> QED
  BY <1>1, NobodyMoves DEF At

\* The voter at a box leaves it.
LEMMA VoterGoes ==
    ASSUME PollsInv, NEW r \in Requests, At(r, "voting"), ~At(r, "voting")',
           \A s \in Requests \ {r} : req'[s] = req[s]
    PROVE  LET p == req[r].poll IN
           /\ p \in Ids
           /\ AtBox[p] = {req[r].user}
           /\ AtBox' = [AtBox EXCEPT ![p] = {}]
<1> DEFINE p == req[r].poll
<1>1. p \in Ids /\ \A s \in Requests : At(s, "voting") /\ req[s].poll = p => s = r
  BY DEF PollsInv, VotingHolds
<1>2. \A u : u \in AtBox[p] <=> u = req[r].user
  BY <1>1, AtBoxIs
<1>3. ASSUME NEW u PROVE u \notin AtBox'[p]
  <2>1. ASSUME NEW s \in Requests, At(s, "voting")', req'[s].poll = p PROVE FALSE
    BY <1>1, <2>1 DEF At
  <2> QED
    BY <1>1, <2>1, AtBoxIsThen
<1>4. ASSUME NEW i \in Ids, i # p PROVE AtBox'[i] = AtBox[i]
  <2>1. ASSUME NEW u PROVE u \in AtBox'[i] <=> u \in AtBox[i]
    BY <1>4, AtBoxIs, AtBoxIsThen DEF At
  <2> QED
    BY <2>1
<1>5. AtBox'[p] = {}
  BY <1>3
<1>6. AtBox[p] = {req[r].user}
  BY <1>2
<1> HIDE DEF p
<1>7. AtBox' = [AtBox EXCEPT ![p] = {}]
  BY <1>1, <1>4, <1>5, BoxesAreIds
<1> QED
  BY <1>1, <1>6, <1>7 DEF p

\* A free poll has nobody before its box.
LEMMA FreeIsEmpty ==
    ASSUME NEW p \in Ids, PollFree(p)
    PROVE  AtBox[p] = {}
<1>1. \A u : u \notin AtBox[p]
  BY AtBoxIs DEF PollFree
<1> QED
  BY <1>1


\* A step that changes no poll, no vote and no account, and moves no voter.
LEMMA BoxRests ==
    ASSUME UNCHANGED <<accounts, lastPoll, votes>>, AtBox' = AtBox,
           \A p \in Ids : /\ poll'[p].here = poll[p].here
                          /\ poll'[p].single = poll[p].single
                          /\ poll'[p].open = poll[p].open
    PROVE  UNCHANGED Box!vars
<1>1. Kind' = Kind /\ Open' = Open
  BY DEF Kind, Open
<1> QED
  BY <1>1, BoxIs DEF Box!vars, Kind, Open, AtBox

\* A request that does not vote, and writes nothing.
LEMMA QuietForBox ==
    ASSUME PollsInv, NEW r \in Requests, NEW q, Step(r, q),
           ~At(r, "voting"), q.pc # "voting", UNCHANGED <<userVars, pollVars>>
    PROVE  UNCHANGED Box!vars
  BY MovesElsewhere, BoxRests DEF userVars, pollVars

LEMMA CreateSetsUp ==
    ASSUME PollsInv, NEW r \in Requests, CommitCreate(r)
    PROVE  \E p \in Ids : Box!SetUp(p)
<1> DEFINE p == lastPoll + 1
           row == [single |-> req[r].single, open |-> TRUE, by |-> req[r].user, here |-> TRUE]
           q == [Idle EXCEPT !.pc = "created", !.user = req[r].user, !.poll = p]
           k == IF row.single THEN "single" ELSE "multiple"
<1>1. /\ p \in Ids
      /\ At(r, "create")
      /\ lastPoll' = p
      /\ poll' = [poll EXCEPT ![p] = row]
      /\ Step(r, q)
      /\ UNCHANGED <<userVars, votes>>
  BY DEF CommitCreate
<1>2. AtBox' = AtBox
  <2>1. ~At(r, "voting") /\ q.pc # "voting"
    BY <1>1 DEF At, Idle
  <2> QED
    BY <1>1, <2>1, MovesElsewhere
<1>3. poll \in [Ids -> PollRow \cup {NoPoll}] /\ lastPoll \in Nat
  BY DEF PollsInv, TypeOK
<1>4. p > lastPoll /\ \A i \in Ids \ {p} : i <= p <=> i <= lastPoll
  BY <1>3 DEF Ids
<1>5. ~poll[p].here
  BY <1>1, <1>4 DEF PollsInv, IdsAreNew
<1>6. /\ poll'[p].here /\ poll'[p].single = row.single /\ poll'[p].open
      /\ \A i \in Ids \ {p} : poll'[i] = poll[i]
  BY <1>1, <1>3
<1> HIDE DEF p, row
<1>7. Kind[p] = "none"
  BY <1>1, <1>3, <1>4, <1>5 DEF Kind, Ids
<1>8. Kind' = [Kind EXCEPT ![p] = k]
  BY <1>1, <1>4, <1>6 DEF Kind
<1>9. Open' = Open \cup {p}
  BY <1>1, <1>6 DEF Open
<1>10. k \in {"single", "multiple"} /\ UNCHANGED <<accounts, votes>>
  BY <1>1 DEF userVars
<1>11. \E z \in {"single", "multiple"} : Kind' = [Kind EXCEPT ![p] = z]
  BY <1>8, <1>10
<1> QED
  BY <1>1, <1>2, <1>7, <1>9, <1>10, <1>11 DEF Box!SetUp, Kind, Open, AtBox

LEMMA LockStepsUp ==
    ASSUME PollsInv, NEW r \in Requests, LockPoll(r)
    PROVE  \E p \in Ids, u \in Users : Box!StepUp(p, u)
<1> DEFINE p == req[r].poll
           u == req[r].user
           q == [req[r] EXCEPT !.pc = "voting", !.gone = votes[p][u]]
<1>1. /\ req[r].pc = "vote"
      /\ PollFree(p)
      /\ Admits(p, req[r].choice)
      /\ Step(r, q)
      /\ UNCHANGED <<userVars, pollVars>>
  BY DEF LockPoll, At
<1>2. req[r] \in Request /\ p \in Ids /\ u \in Users
  BY <1>1, InvTypes, NamedRequests DEF Named
<1>3. q.pc = "voting" /\ q.poll = p /\ q.user = u
  BY <1>2 DEF Request
<1>4. req'[r] = q /\ \A s \in Requests \ {r} : req'[s] = req[s]
  BY <1>1 DEF Step, PollsInv, TypeOK
<1>5. AtBox[p] = {}
  BY <1>1, <1>2, FreeIsEmpty
<1>6. AtBox'[p] = {u}
  <2>1. ASSUME NEW v PROVE v \in AtBox'[p] <=> v = u
    <3>1. \A s \in Requests : At(s, "voting")' /\ req'[s].poll = p => s = r
      BY <1>1, <1>4 DEF At, PollFree
    <3>2. At(r, "voting")' /\ req'[r].poll = p /\ req'[r].user = u
      BY <1>3, <1>4 DEF At
    <3> QED
      BY <1>2, <3>1, <3>2, AtBoxIsThen
  <2> QED
    BY <2>1
<1>7. ASSUME NEW i \in Ids, i # p PROVE AtBox'[i] = AtBox[i]
  <2>1. ~At(r, "voting") /\ req'[r].poll = p
    BY <1>1, <1>3, <1>4 DEF At
  <2>2. \A s \in Requests : At(s, "voting")' /\ req'[s].poll = i =>
                             s # r /\ req'[s] = req[s] /\ At(s, "voting")
    BY <1>4, <1>7, <2>1 DEF At
  <2>3. \A s \in Requests : At(s, "voting") => s # r /\ req'[s] = req[s] /\ At(s, "voting")'
    BY <1>4, <2>1 DEF At
  <2> HIDE DEF p, u, q
  <2>4. ASSUME NEW v PROVE v \in AtBox'[i] <=> v \in AtBox[i]
    BY <2>2, <2>3, AtBoxIs, AtBoxIsThen
  <2> QED
    BY <2>4
<1>8. p \in Open /\ Kind[p] \in {"single", "multiple"}
  BY <1>1, <1>2 DEF Admits, Open, Kind
<1>9. UNCHANGED <<accounts, Kind, Open, votes>>
  BY <1>1 DEF userVars, pollVars, Kind, Open
<1> HIDE DEF p, u
<1>10. AtBox' = [AtBox EXCEPT ![p] = {u}]
  BY <1>2, <1>6, <1>7, BoxesAreIds
<1>11. PICK b \in Ids, v \in Users : b = p /\ v = u
  BY <1>2
<1>12. Box!StepUp(b, v)
  BY <1>5, <1>8, <1>9, <1>10, <1>11 DEF Box!StepUp, Box!Stands, Kind, Open, AtBox
<1> QED
  BY <1>12

LEMMA VoteIsCast ==
    ASSUME PollsInv, NEW r \in Requests, CommitVote(r)
    PROVE  \E p \in Ids, u \in Users : Box!Cast(p, u)
<1> DEFINE p == req[r].poll
           u == req[r].user
           c == req[r].choice
           q == [Idle EXCEPT !.pc = "voted", !.poll = p]
<1>1. /\ p \in Ids /\ u \in Users /\ c \in SUBSET Options
      /\ votes' = [votes EXCEPT ![p][u] = c]
  BY VoteReplaces
<1>2. /\ At(r, "voting")
      /\ c # {} => u \in accounts
      /\ Step(r, q)
      /\ UNCHANGED <<userVars, lastPoll, poll>>
  BY DEF CommitVote
<1>3. q.pc = "voted"
  BY DEF Idle
<1>4. req'[r] = q /\ \A s \in Requests \ {r} : req'[s] = req[s]
  BY <1>2 DEF Step, PollsInv, TypeOK
<1>5. ~At(r, "voting")'
  BY <1>3, <1>4 DEF At
<1>6. AtBox[p] = {u} /\ AtBox' = [AtBox EXCEPT ![p] = {}]
  BY <1>2, <1>4, <1>5, VoterGoes
<1>7. Kind[p] = "single" => AtMostOne(c)
  <2>1. poll[p].here /\ (poll[p].single => AtMostOne(c))
    BY <1>2 DEF PollsInv, VotingHolds
  <2> QED
    BY <1>1, <2>1 DEF Kind
<1>8. UNCHANGED <<accounts, Kind, Open>>
  BY <1>2 DEF userVars, Kind, Open
<1> HIDE DEF p, u, c
<1>9. \E z \in SUBSET Options :
        /\ Kind[p] = "single" => Box!AtMostOne(z)
        /\ z # {} => u \in accounts
        /\ votes' = [votes EXCEPT ![p][u] = z]
  BY <1>1, <1>2, <1>7 DEF AtMostOne, Box!AtMostOne
<1>10. PICK b \in Ids, v \in Users : b = p /\ v = u
  BY <1>1
<1>11. Box!Cast(b, v)
  BY <1>6, <1>8, <1>9, <1>10 DEF Box!Cast, Kind, Open, AtBox
<1> QED
  BY <1>11


LEMMA DeleteRemoves ==
    ASSUME PollsInv, NEW r \in Requests, CommitDelete(r)
    PROVE  \E p \in Ids : Box!Remove(p)
<1> DEFINE p == req[r].poll
           q == [req[r] EXCEPT !.pc = "deleted"]
<1>1. /\ req[r].pc = "delete"
      /\ poll[p].here
      /\ PollFree(p)
      /\ poll' = [poll EXCEPT ![p] = NoPoll]
      /\ votes' = [votes EXCEPT ![p] = [u \in Users |-> {}]]
      /\ Step(r, q)
      /\ UNCHANGED <<userVars, lastPoll>>
  BY DEF CommitDelete, At
<1>2. req[r] \in Request /\ p \in Ids
  BY <1>1, InvTypes, NamedRequests DEF Named
<1>3. AtBox' = AtBox
  <2>1. q.pc = "deleted" /\ ~At(r, "voting")
    BY <1>1, <1>2 DEF Request, At
  <2> QED
    BY <1>1, <2>1, MovesElsewhere
<1>4. AtBox[p] = {}
  BY <1>1, <1>2, FreeIsEmpty
<1>5. p <= lastPoll
  <2>1. ~(p > lastPoll)
    BY <1>1, <1>2 DEF PollsInv, IdsAreNew
  <2> QED
    BY <1>2, <2>1 DEF Ids, PollsInv, TypeOK
<1>6. poll'[p] = NoPoll /\ \A i \in Ids \ {p} : poll'[i] = poll[i]
  BY <1>1, <1>2 DEF PollsInv, TypeOK
<1>7. ~NoPoll.here /\ ~NoPoll.open
  BY DEF NoPoll
<1> HIDE DEF p
<1>8. Kind[p] \in {"single", "multiple"}
  BY <1>1, <1>2 DEF Kind
<1>9. Kind' = [Kind EXCEPT ![p] = "gone"]
  BY <1>1, <1>2, <1>5, <1>6, <1>7 DEF Kind
<1>10. Open' = Open \ {p}
  BY <1>2, <1>6, <1>7 DEF Open
<1>11. PICK b \in Ids : b = p
  BY <1>2
<1>12. Box!Remove(b)
  <2>1. accounts' = accounts
    BY <1>1 DEF userVars
  <2> QED
    BY <1>1, <1>3, <1>4, <1>8, <1>9, <1>10, <1>11, <2>1
       DEF Box!Remove, Box!Stands, Kind, Open, AtBox
<1> QED
  BY <1>12

\* A request that ends, perhaps before the box.
LEMMA FailLeaves ==
    ASSUME PollsInv, NEW r \in Requests, Fail(r)
    PROVE  UNCHANGED Box!vars \/ \E p \in Ids : Box!Leave(p)
<1>1. /\ Step(r, Idle) /\ Idle.pc = "idle"
      /\ UNCHANGED <<userVars, pollVars>>
  BY DEF Fail, End, Idle
<1>2. CASE ~At(r, "voting")
  BY <1>1, <1>2, QuietForBox
<1>3. CASE At(r, "voting")
  <2>1. req'[r] = Idle /\ \A s \in Requests \ {r} : req'[s] = req[s]
    BY <1>1 DEF Step, PollsInv, TypeOK
  <2>2. ~At(r, "voting")'
    BY <1>1, <2>1 DEF At
  <2>3. req[r].poll \in Ids /\ AtBox' = [AtBox EXCEPT ![req[r].poll] = {}]
    BY <1>3, <2>1, <2>2, VoterGoes
  <2>4. PICK b \in Ids : b = req[r].poll
    BY <2>3
  <2>5. UNCHANGED <<accounts, Kind, Open, votes>>
    BY <1>1 DEF userVars, pollVars, Kind, Open
  <2>6. Box!Leave(b)
    BY <2>3, <2>4, <2>5 DEF Box!Leave, Kind, Open, AtBox
  <2> QED
    BY <2>6
<1> QED
  BY <1>2, <1>3

LEMMA ExpiryCloses ==
    ASSUME PollsInv, NEW p \in Ids, PollExpires(p)
    PROVE  Box!Close(p)
<1>1. /\ poll[p].open
      /\ poll' = [poll EXCEPT ![p].open = FALSE]
      /\ UNCHANGED <<userVars, lastPoll, votes, req>>
  BY DEF PollExpires
<1>2. poll \in [Ids -> PollRow \cup {NoPoll}]
  BY DEF PollsInv, TypeOK
<1>3. poll[p] \in PollRow
  BY <1>1, <1>2 DEF NoPoll
<1>4. /\ ~poll'[p].open
      /\ poll'[p].here = poll[p].here /\ poll'[p].single = poll[p].single
      /\ \A i \in Ids \ {p} : poll'[i] = poll[i]
  BY <1>1, <1>2, <1>3 DEF PollRow
<1>5. Kind' = Kind /\ Open' = Open \ {p}
  BY <1>1, <1>4 DEF Kind, Open
<1>6. AtBox' = AtBox
  BY <1>1, NobodyMoves
<1> QED
  BY <1>1, <1>5, <1>6 DEF Box!Close, userVars, Kind, Open, AtBox

LEMMA DeletionForgets ==
    ASSUME PollsInv, NEW u \in Users, DeleteAccount(u)
    PROVE  Box!Forget(u)
<1>1. accounts' = accounts \ {u} /\ UNCHANGED <<lastPoll, req>>
  BY DEF DeleteAccount
<1>2. votes' = [p \in Ids |-> [votes[p] EXCEPT ![u] = {}]]
  BY DEF DeleteAccount
<1>3. Kind' = Kind /\ Open' = Open
  BY <1>1, AccountForgotten DEF Kind, Open
<1>4. AtBox' = AtBox
  BY <1>1, NobodyMoves
<1> QED
  BY <1>1, <1>2, <1>3, <1>4 DEF Box!Forget, Kind, Open, AtBox

LEMMA QuietHandlers ==
    ASSUME PollsInv, NEW r \in Requests,
           \/ \E u \in Users : StartCreate(r, u)
           \/ \E u \in Users, p \in Ids : StartDelete(r, u, p)
           \/ \E u \in Users, p \in Ids, c \in Choices : StartVote(r, u, p, c)
           \/ Notify(r) \/ NothingToSay(r) \/ Announced(r) \/ NotAnnounced(r)
    PROVE  UNCHANGED Box!vars
<1>1. /\ ~At(r, "voting")
      /\ UNCHANGED <<userVars, pollVars>>
      /\ \E q : Step(r, q) /\ q.pc # "voting"
  <2>1. ASSUME NEW s \in BOOLEAN, NEW u PROVE
        [Idle EXCEPT !.pc = "create", !.user = u, !.single = s].pc = "create"
    BY DEF Idle
  <2>2. CASE \E u \in Users : StartCreate(r, u)
    BY <2>1, <2>2 DEF StartCreate, At
  <2>3. ASSUME NEW p \in Ids PROVE [Idle EXCEPT !.pc = "delete", !.poll = p].pc = "delete"
    BY DEF Idle
  <2>4. CASE \E u \in Users, p \in Ids : StartDelete(r, u, p)
    BY <2>3, <2>4 DEF StartDelete, At
  <2>5. ASSUME NEW u, NEW p, NEW c PROVE
        [Idle EXCEPT !.pc = "vote", !.user = u, !.poll = p, !.choice = c].pc = "vote"
    BY DEF Idle
  <2>6. CASE \E u \in Users, p \in Ids, c \in Choices : StartVote(r, u, p, c)
    BY <2>5, <2>6 DEF StartVote, At
  <2>7. Idle.pc # "voting" /\ [req[r] EXCEPT !.pc = "notify", !.poll = None].pc # "voting"
    BY OnToNotices DEF Idle
  <2>8. CASE Notify(r) \/ NothingToSay(r) \/ Announced(r) \/ NotAnnounced(r)
    BY <2>7, <2>8 DEF Notify, NothingToSay, Announced, NotAnnounced, End, At
  <2> QED
    BY <2>2, <2>4, <2>6, <2>8
<1> QED
  BY <1>1, QuietForBox

\* The handlers implement the ballot box: voters of a poll come one by one, each
\* ballot replaces the one before as a whole, a poll that has expired takes no
\* new voter, and a deleted poll does not come back.
THEOREM BallotBoxKept == Spec => ImplementsBallotBox
<1>1. Init => Box!Init
  <2> SUFFICES ASSUME Init PROVE Box!Init
    OBVIOUS
  <2>1. Kind = [p \in Ids |-> "none"]
    BY PollsAssumption DEF Init, Kind, NoPoll, Ids
  <2>2. Open = {}
    BY DEF Init, Open, NoPoll
  <2>3. AtBox = [p \in Ids |-> {}]
    BY DEF Init, AtBox, At, Idle
  <2> QED
    BY <2>1, <2>2, <2>3 DEF Init, Box!Init, Kind, Open, AtBox
<1>2. PollsInv /\ [Next]_vars => [Box!Next]_(Box!vars)
  <2> SUFFICES ASSUME PollsInv, [Next]_vars PROVE Box!Next \/ UNCHANGED Box!vars
    OBVIOUS
  <2>1. ASSUME NEW r \in Requests, Handle(r) \/ Announced(r) \/ NotAnnounced(r)
        PROVE  Box!Next \/ UNCHANGED Box!vars
    BY <2>1, QuietHandlers, CreateSetsUp, LockStepsUp, VoteIsCast, DeleteRemoves, FailLeaves
       DEF Handle, Box!Next
  <2>2. ASSUME NEW u \in Users, DeleteAccount(u) PROVE Box!Next
    BY <2>2, DeletionForgets DEF Box!Next
  <2>3. ASSUME NEW p \in Ids, PollExpires(p) PROVE Box!Next
    BY <2>3, ExpiryCloses DEF Box!Next
  <2>4. ASSUME NEW u \in Users, AnswerChanges(u) PROVE UNCHANGED Box!vars
    BY <2>4, NobodyMoves, BoxRests DEF AnswerChanges, pollVars
  <2>5. CASE UNCHANGED vars
    BY <2>5, NobodyMoves, BoxRests DEF vars, userVars, pollVars
  <2> QED
    BY <2>1, <2>2, <2>3, <2>4, <2>5 DEF Next, Environment
<1> QED
  BY <1>1, <1>2, PollsInductive, PTL DEF Spec, ImplementsBallotBox, Box!Spec


-----------------------------------------------------------------------------
(* What viewers see.                                                       *)

\* Watching the polls does not change them: each step of PollViews is one of
\* Polls, or leaves them as they are.
THEOREM ViewsArePolls == ViewsSpec => Spec
<1>1. ViewsInit => Init
  BY DEF ViewsInit
<1>2. [ViewsNext]_allVars => [Next]_vars
  BY DEF ViewsNext, ChangePolls, Next, allVars, Connect, Subscribe, SendReady, TicketExpires,
         SocketBreaks, CloseSocket, Hear, OpenPage, BeginLoad, EndLoad, LoadFails
<1> QED
  BY <1>1, <1>2, PTL DEF ViewsSpec, Spec

\* An announcement that will be tried: the request has not seen its poll go.
Pending(r) ==
    \/ At(r, "deleted")
    \/ req[r].pc \in {"created", "voted"} /\ poll[req[r].poll].here

Owed == \E r \in Requests : Pending(r)

UpToDate(v) == page[v] # "torn" /\ (page[v] = "none" => view[v] = "current")

\* Why a client shows what it shows: it will hear, or has missed, or an
\* announcement is owed, or nothing happened since its load began.
Accounted(v) == socket[v] # "ready" \/ inbox[v] \/ missed[v] \/ Owed \/ UpToDate(v)

ViewsInv == PollsInv /\ ViewsTypeOK /\ \A v \in Viewers : Accounted(v)

LEMMA AccountedIsCurrent == ViewsInv => HeardAllIsCurrent
<1>1. Owed => Announcing
  BY DEF Owed, Announcing, Pending, At
<1> QED
  BY <1>1 DEF ViewsInv, Accounted, UpToDate, HeardAllIsCurrent

\* Of a request that owes nothing, and changes no poll.
LEMMA StillOwed ==
    ASSUME NEW r \in Requests, ~Pending(r), UNCHANGED poll,
           \A s \in Requests \ {r} : req'[s] = req[s]
    PROVE  Owed => Owed'
<1>1. ASSUME NEW s \in Requests, Pending(s) PROVE Pending(s)'
  BY <1>1 DEF Pending, At
<1> QED
  BY <1>1 DEF Owed

\* A step of a request changes no poll and no vote, and what was owed is owed
\* still; or it commits, and owes the announcement.
LEMMA HandleOwes ==
    ASSUME PollsInv, NEW r \in Requests, Handle(r)
    PROVE  Owed' \/ (UNCHANGED <<poll, votes>> /\ (Owed => Owed'))
<1>1. req \in [Requests -> Request]
  BY DEF PollsInv, TypeOK
<1>2. ASSUME NEW q, Step(r, q) PROVE req'[r] = q /\ \A s \in Requests \ {r} : req'[s] = req[s]
  BY <1>1, <1>2 DEF Step
<1>3. CASE CommitCreate(r)
  <2> DEFINE p == lastPoll + 1
             q == [Idle EXCEPT !.pc = "created", !.user = req[r].user, !.poll = p]
             row == [single |-> req[r].single, open |-> TRUE, by |-> req[r].user, here |-> TRUE]
  <2>1. p \in Ids /\ poll' = [poll EXCEPT ![p] = row] /\ Step(r, q)
    BY <1>3 DEF CommitCreate
  <2>2. poll'[p].here
    BY <2>1 DEF PollsInv, TypeOK
  <2>3. q.pc = "created" /\ q.poll = p
    BY DEF Idle
  <2>4. req'[r] = q
    BY <1>2, <2>1
  <2> QED
    BY <2>2, <2>3, <2>4 DEF Owed, Pending
<1>4. CASE CommitVote(r)
  <2> DEFINE q == [Idle EXCEPT !.pc = "voted", !.poll = req[r].poll]
  <2>1. poll' = poll /\ Step(r, q) /\ At(r, "voting")
    BY <1>4 DEF CommitVote
  <2>2. poll'[req[r].poll].here
    BY <2>1 DEF PollsInv, VotingHolds
  <2>3. q.pc = "voted" /\ q.poll = req[r].poll
    BY DEF Idle
  <2>4. req'[r] = q
    BY <1>2, <2>1
  <2> QED
    BY <2>2, <2>3, <2>4 DEF Owed, Pending
<1>5. CASE CommitDelete(r)
  <2>1. req'[r].pc = "deleted"
    BY <1>1, <1>5 DEF CommitDelete, Step, Request
  <2> QED
    BY <2>1 DEF Owed, Pending, At
<1>6. CASE ~(CommitCreate(r) \/ CommitVote(r) \/ CommitDelete(r))
  <2>1. UNCHANGED <<poll, votes>> /\ (\E q : Step(r, q)) /\ ~Pending(r)
    BY <1>6 DEF Handle, StartCreate, StartDelete, StartVote, LockPoll, NothingToSay, Notify,
                Fail, End, At, Pending, pollVars
  <2> QED
    BY <1>2, <2>1, StillOwed
<1> QED
  BY <1>3, <1>4, <1>5, <1>6

LEMMA EnvironmentOwes ==
    ASSUME PollsInv, Environment
    PROVE  Here' = Here /\ votes' = votes /\ Owed' = Owed
<1>1. \A p \in Ids : poll'[p].here = poll[p].here
  <2>1. CASE \E p \in Ids : PollExpires(p)
    BY <2>1, ExpiryCloses DEF PollExpires, PollsInv, TypeOK, PollRow, NoPoll
  <2>2. CASE \E u \in Users : AnswerChanges(u)
    BY <2>2 DEF AnswerChanges, pollVars
  <2> QED
    BY <2>1, <2>2 DEF Environment
<1>2. votes' = votes /\ req' = req
  BY DEF Environment, PollExpires, AnswerChanges, pollVars
<1>3. Owed' = Owed
  <2>1. ASSUME NEW r \in Requests PROVE Pending(r)' <=> Pending(r)
    <3>1. req[r].pc \in {"created", "voted"} => req[r].poll \in Ids
      BY DEF PollsInv, RequestsNamed
    <3> QED
      BY <1>1, <1>2, <3>1 DEF Pending, At
  <2> QED
    BY <2>1 DEF Owed
<1> QED
  BY <1>1, <1>2, <1>3 DEF Here

LEMMA ChangesAreTyped ==
    ASSUME ViewsTypeOK, ChangePolls
    PROVE  ViewsTypeOK'
<1>1. /\ online' = online /\ socket' = socket
      /\ view' \in [Viewers -> {"current", "stale"}]
      /\ page' \in [Viewers -> {"none", "reading", "torn"}]
  BY DEF ViewsTypeOK, ChangePolls, Age
<1>2. Heard \/ Unheard \/ Silent
  BY DEF ChangePolls
<1>3. inbox' \in [Viewers -> BOOLEAN] /\ missed' \in [Viewers -> BOOLEAN]
  BY <1>2 DEF ViewsTypeOK, Heard, Unheard, Silent, Listening
<1> QED
  BY <1>1, <1>3 DEF ViewsTypeOK

LEMMA ChangesAreAccounted ==
    ASSUME ViewsInv, ChangePolls, NEW v \in Viewers
    PROVE  Accounted(v)'
<1>1. socket' = socket /\ (Here' = Here /\ votes' = votes => view'[v] = view[v] /\ page'[v] = page[v])
  BY DEF ViewsInv, ViewsTypeOK, ChangePolls, Age
<1>2. CASE Heard
  <2>1. socket[v] = "ready" => inbox'[v]
    BY <1>2 DEF Heard, Listening
  <2> QED
    BY <1>1, <2>1 DEF Accounted
<1>3. CASE Unheard
  <2>1. socket[v] = "ready" => missed'[v]
    BY <1>3 DEF Unheard
  <2> QED
    BY <1>1, <2>1 DEF Accounted
<1>4. CASE Silent /\ ((\E r \in Requests : Handle(r)) \/ Environment)
  <2>1. Owed' \/ (Here' = Here /\ votes' = votes /\ (Owed => Owed'))
    BY <1>4, HandleOwes, EnvironmentOwes DEF ViewsInv, Here
  <2> QED
    BY <1>1, <1>4, <2>1 DEF ViewsInv, Accounted, UpToDate, Silent
<1> QED
  BY <1>2, <1>3, <1>4 DEF ChangePolls

\* The steps of sockets and clients.
ClientStep(v) ==
    \/ Connect(v)
    \/ Subscribe(v)
    \/ SendReady(v)
    \/ CloseSocket(v)
    \/ Hear(v)
    \/ OpenPage(v)
    \/ EndLoad(v)
    \/ LoadFails(v)

LEMMA ClientsAreTyped ==
    ASSUME ViewsTypeOK, NEW v \in Viewers, ClientStep(v)
    PROVE  ViewsTypeOK'
  BY DEF ClientStep, ViewsTypeOK, Connect, Subscribe, SendReady, CloseSocket, Hear, OpenPage,
         BeginLoad, EndLoad, LoadFails, clientVars, socketVars

LEMMA ClientsAreAccounted ==
    ASSUME ViewsInv, NEW v \in Viewers, ClientStep(v), NEW w \in Viewers
    PROVE  Accounted(w)'
<1>1. UNCHANGED <<poll, req>> /\ Owed' = Owed
  BY DEF ClientStep, Connect, Subscribe, SendReady, CloseSocket, Hear, OpenPage, BeginLoad,
         EndLoad, LoadFails, vars, pollVars, Owed, Pending, At
<1>2. CASE w # v
  <2>1. /\ socket'[w] = socket[w] /\ inbox'[w] = inbox[w] /\ missed'[w] = missed[w]
        /\ page'[w] = page[w] /\ view'[w] = view[w]
    BY <1>2 DEF ClientStep, Connect, Subscribe, SendReady, CloseSocket, Hear, OpenPage,
                BeginLoad, EndLoad, LoadFails, clientVars, socketVars, ViewsInv, ViewsTypeOK
  <2> QED
    BY <1>1, <2>1 DEF ViewsInv, Accounted, UpToDate
<1>3. CASE w = v
  <2>1. CASE Connect(v) \/ Subscribe(v) \/ CloseSocket(v)
    BY <1>3, <2>1 DEF Connect, Subscribe, CloseSocket, ViewsInv, ViewsTypeOK, Accounted
  <2>2. CASE SendReady(v)
    BY <1>3, <2>2 DEF SendReady, ViewsInv, ViewsTypeOK, Accounted
  <2>3. CASE BeginLoad(v)
    BY <1>3, <2>3 DEF BeginLoad, ViewsInv, ViewsTypeOK, Accounted, UpToDate
  <2>4. CASE EndLoad(v)
    BY <1>1, <1>3, <2>4 DEF EndLoad, ViewsInv, ViewsTypeOK, Accounted, UpToDate, socketVars
  <2>5. CASE LoadFails(v)
    BY <1>3, <2>5 DEF LoadFails, ViewsInv, ViewsTypeOK, Accounted, socketVars
  <2> QED
    BY <2>1, <2>2, <2>3, <2>4, <2>5 DEF ClientStep, Hear, OpenPage
<1> QED
  BY <1>2, <1>3

\* Whatever is changed, announced, lost, connected and loaded in whatever order,
\* for any number of viewers: once the socket of a client is ready and each change
\* is announced, a client that has loaded on all messages shows the polls as they are.
THEOREM ViewsAreCurrent == ViewsSpec => []HeardAllIsCurrent
<1>1. ViewsInit => ViewsInv
  <2>1. ViewsInit => PollsInv
    BY InitHolds DEF ViewsInit
  <2> QED
    BY <2>1 DEF ViewsInit, ViewsInv, ViewsTypeOK, Accounted
<1>2. ViewsInv /\ [ViewsNext]_allVars => ViewsInv'
  <2> SUFFICES ASSUME ViewsInv, [ViewsNext]_allVars PROVE ViewsInv'
    OBVIOUS
  <2>1. CASE ChangePolls
    <3>1. PollsInv'
      BY <2>1, NextHolds DEF ChangePolls, Next, ViewsInv
    <3> QED
      BY <2>1, <3>1, ChangesAreTyped, ChangesAreAccounted DEF ViewsInv
  <2>2. ASSUME NEW v \in Viewers, ClientStep(v) PROVE ViewsInv'
    <3>1. UNCHANGED vars
      BY <2>2 DEF ClientStep, Connect, Subscribe, SendReady, CloseSocket, Hear, OpenPage,
                  BeginLoad, EndLoad, LoadFails
    <3>2. PollsInv'
      BY <3>1, NextHolds DEF ViewsInv
    <3> QED
      BY <2>2, <3>2, ClientsAreTyped, ClientsAreAccounted DEF ViewsInv
  <2>3. CASE UNCHANGED allVars
    <3>1. PollsInv'
      BY <2>3, NextHolds DEF ViewsInv, allVars
    <3>2. ViewsTypeOK' /\ \A v \in Viewers : Accounted(v)'
      BY <2>3 DEF ViewsInv, ViewsTypeOK, Accounted, UpToDate, Owed, Pending, At, allVars, vars,
                  pollVars, viewVars, socketVars, clientVars
    <3> QED
      BY <3>1, <3>2 DEF ViewsInv
  <2> QED
    BY <2>1, <2>2, <2>3 DEF ViewsNext, ClientStep, TicketExpires, SocketBreaks
<1> QED
  BY <1>1, <1>2, AccountedIsCurrent, PTL DEF ViewsSpec
=============================================================================
