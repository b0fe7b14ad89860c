--------------------------- MODULE ContactsProofs ---------------------------
(***************************************************************************)
(* For any users, requests in flight and bounds: a block ends contact and  *)
(* leaves what was accepted, friends have accepted each other, and a link  *)
(* lets one user in.                                                       *)
(*                                                                         *)
(* BlockEndsContact alone is not inductive.  A transaction past its guard  *)
(* writes without looking at user_blocks again, so that what the guard     *)
(* found must still hold then.  It does because no block of the two users  *)
(* can be committed meanwhile: the block would have to hold the advisory   *)
(* lock that the transaction holds.                                        *)
(***************************************************************************)
EXTENDS Contacts, TLAPS

\* What each request carries: who invites, whom a claim concerns, an answer.
WorkShape ==
    \A r \in Slots :
        /\ work[r].op \in {"invite", "email"} => work[r].by = Owner
        /\ work[r].op = "claim" => work[r].to = Owner
        /\ work[r].op = "answer" => work[r].reply # "none"

PairOf(q) == {q.by, q.to}

\* No two transactions hold the advisory lock of the same pair.
LockIsExclusive ==
    \A r, s \in Slots :
        /\ work[r].at = "guarded" /\ work[s].at = "guarded"
        /\ PairOf(work[r]) = PairOf(work[s])
        => r = s

\* What the guard found still holds.
GuardHolds ==
    \A r \in Slots :
        work[r].at = "guarded" /\ work[r].op # "block"
        => ~Blocked(work[r].by, work[r].to)

Locks == WorkShape /\ LockIsExclusive /\ GuardHolds

IInv == TypeOK /\ Locks /\ BlockEndsContact

-----------------------------------------------------------------------------
(* Steps that write to no table.                                           *)

LEMMA BeginKeeps ==
    ASSUME IInv, NEW r \in Slots,
           NEW op, NEW at, NEW by \in Users, NEW to \in Users, NEW row, NEW reply,
           Begin(r, op, at, by, to, row, reply),
           [op |-> op, at |-> at, by |-> by, to |-> to, row |-> row,
            reply |-> reply] \in Work,
           at \in {"asked", "checked", "held"},
           op \in {"invite", "email"} => by = Owner,
           op = "claim" => to = Owner,
           op = "answer" => reply # "none"
    PROVE  IInv'
PROOF
  <1> DEFINE q == [op |-> op, at |-> at, by |-> by, to |-> to, row |-> row,
                   reply |-> reply]
  <1>1. work' = [work EXCEPT ![r] = q] /\ UNCHANGED tables
    BY DEF Begin
  <1>2. TypeOK'
    BY <1>1 DEF IInv, TypeOK, tables
  <1>3. \A s \in Slots : work'[s] = IF s = r THEN q ELSE work[s]
    BY <1>1 DEF IInv, TypeOK
  <1>4. Locks'
    BY <1>1, <1>3
    DEF IInv, Locks, WorkShape, LockIsExclusive, GuardHolds, Blocked, tables
  <1>5. BlockEndsContact'
    BY <1>1 DEF IInv, BlockEndsContact, tables
  <1>. QED
    BY <1>2, <1>4, <1>5 DEF IInv

LEMMA GoesKeeps ==
    ASSUME IInv, NEW r \in Slots, NEW op, NEW from, NEW to,
           Goes(r, op, from, to),
           op # "idle",
           to \in {"read", "checked", "unguarded"}
    PROVE  IInv'
PROOF
  <1>1. work' = [work EXCEPT ![r].at = to] /\ UNCHANGED tables /\ work[r].op = op
    BY DEF Goes
  <1>2. work[r] \in Work
    BY <1>1 DEF IInv, TypeOK, Idle
  <1>3. [work[r] EXCEPT !.at = to] \in Work
    BY <1>2 DEF Work
  <1>4. TypeOK'
    BY <1>1, <1>3 DEF IInv, TypeOK, tables
  <1>5. \A s \in Slots :
            /\ work'[s].op = work[s].op /\ work'[s].by = work[s].by
            /\ work'[s].to = work[s].to /\ work'[s].reply = work[s].reply
            /\ work'[s].at = IF s = r THEN to ELSE work[s].at
    BY <1>1, <1>2 DEF IInv, TypeOK, Work
  <1>6. WorkShape'
    BY <1>5 DEF IInv, Locks, WorkShape
  <1>7. \A s \in Slots : PairOf(work'[s]) = PairOf(work[s])
    BY <1>5 DEF PairOf
  <1>8. LockIsExclusive'
    BY <1>5, <1>7 DEF IInv, Locks, LockIsExclusive
  <1>9. GuardHolds'
    BY <1>1, <1>5 DEF IInv, Locks, GuardHolds, Blocked, tables
  <1>10. BlockEndsContact'
    BY <1>1 DEF IInv, BlockEndsContact, tables
  <1>. QED
    BY <1>4, <1>6, <1>8, <1>9, <1>10 DEF IInv, Locks

\* The guard takes a lock that nobody holds and finds no block.
LEMMA GuardKeeps ==
    ASSUME IInv, NEW r \in Slots, Guard(r)
    PROVE  IInv'
PROOF
  <1>1. /\ work' = [work EXCEPT ![r].at = "guarded"]
        /\ UNCHANGED tables
        /\ work[r].at \in {"checked", "held"}
        /\ PairFree(r, work[r].by, work[r].to)
        /\ work[r].op # "block" => ~Blocked(work[r].by, work[r].to)
    BY DEF Guard, Goes
  <1>2. work[r] \in Work
    BY <1>1 DEF IInv, TypeOK, Idle
  <1>3. [work[r] EXCEPT !.at = "guarded"] \in Work
    BY <1>2 DEF Work
  <1>4. TypeOK'
    BY <1>1, <1>3 DEF IInv, TypeOK, tables
  <1>5. \A s \in Slots :
            /\ work'[s].op = work[s].op /\ work'[s].by = work[s].by
            /\ work'[s].to = work[s].to /\ work'[s].reply = work[s].reply
            /\ work'[s].at = IF s = r THEN "guarded" ELSE work[s].at
    BY <1>1, <1>2 DEF IInv, TypeOK, Work
  <1>6. WorkShape'
    BY <1>5 DEF IInv, Locks, WorkShape
  <1>7. LockIsExclusive'
    <2>1. \A s \in Slots : PairOf(work'[s]) = PairOf(work[s])
      BY <1>5 DEF PairOf
    <2>2. \A s \in Slots \ {r} :
            ~(work[s].at = "guarded" /\ PairOf(work[s]) = PairOf(work[r]))
      BY <1>1 DEF PairFree, PairOf
    <2>. QED
      BY <1>5, <2>1, <2>2 DEF IInv, Locks, LockIsExclusive
  <1>8. GuardHolds'
    BY <1>1, <1>5 DEF IInv, Locks, GuardHolds, Blocked, tables
  <1>9. BlockEndsContact'
    BY <1>1 DEF IInv, BlockEndsContact, tables
  <1>. QED
    BY <1>4, <1>6, <1>7, <1>8, <1>9 DEF IInv, Locks

\* A request that ends releases its lock.
LEMMA DoneKeepsLocks ==
    ASSUME IInv, NEW r \in Slots, Done(r), UNCHANGED blocks
    PROVE  /\ work' \in [Slots -> Work \cup {Idle}]
           /\ Locks'
PROOF
  <1>1. work' \in [Slots -> Work \cup {Idle}]
    BY DEF IInv, TypeOK, Done
  <1>2. \A s \in Slots : work'[s] = IF s = r THEN Idle ELSE work[s]
    BY DEF IInv, TypeOK, Done
  <1>3. Locks'
    BY <1>2
    DEF IInv, Locks, WorkShape, LockIsExclusive, GuardHolds, Blocked, Idle
  <1>. QED
    BY <1>1, <1>3

LEMMA FailKeeps ==
    ASSUME IInv, NEW r \in Slots, Fail(r)
    PROVE  IInv'
PROOF
  <1>1. Done(r) /\ UNCHANGED tables
    BY DEF Fail
  <1>2. TypeOK' /\ Locks'
    BY <1>1, DoneKeepsLocks DEF IInv, TypeOK, tables
  <1>3. BlockEndsContact'
    BY <1>1 DEF IInv, BlockEndsContact, tables
  <1>. QED
    BY <1>2, <1>3 DEF IInv

-----------------------------------------------------------------------------
(* Commits.                                                                *)

\* The guard of a transaction about to commit still holds.
LEMMA NotBlocked ==
    ASSUME IInv, NEW r \in Slots,
           work[r].at = "guarded", work[r].op # "block",
           NEW b \in blocks
    PROVE  {b[1], b[2]} # {work[r].by, work[r].to}
PROOF
  <1>1. b = <<b[1], b[2]>>
    BY DEF IInv, TypeOK
  <1>2. <<work[r].by, work[r].to>> \notin blocks /\ <<work[r].to, work[r].by>> \notin blocks
    BY DEF IInv, Locks, GuardHolds, Blocked
  <1>. QED
    BY <1>1, <1>2

LEMMA WorkIsTyped ==
    ASSUME IInv, NEW r \in Slots, work[r].op # "idle"
    PROVE  work[r] \in Work
PROOF
  BY DEF IInv, TypeOK, Idle

LEMMA RequestCommitted ==
    ASSUME IInv, NEW r \in Slots, CommitRequest(r)
    PROVE  IInv'
PROOF
  <1> DEFINE new == [id |-> asked + 1, sender |-> work[r].by,
                     receiver |-> work[r].to, status |-> "Pending"]
  <1>1. /\ work[r].op = "request" /\ work[r].at = "guarded"
        /\ requests' = requests \cup {new}
        /\ asked < MaxRequests /\ asked' = asked + 1
        /\ Done(r)
        /\ UNCHANGED <<known, friends, blocks, guest, links, shared>>
    BY DEF CommitRequest
  <1>2. work[r] \in Work
    BY <1>1, WorkIsTyped
  <1>3. new \in FriendRequest
    BY <1>1, <1>2, ContactsAssumption DEF IInv, TypeOK, Work, FriendRequest
  <1>4. work' \in [Slots -> Work \cup {Idle}] /\ Locks'
    BY <1>1, DoneKeepsLocks
  <1>5. TypeOK'
    BY <1>1, <1>3, <1>4, ContactsAssumption DEF IInv, TypeOK
  <1>6. BlockEndsContact'
    <2> SUFFICES ASSUME NEW b \in blocks
                 PROVE  \A q \in requests' : {q.sender, q.receiver} # {b[1], b[2]}
      BY <1>1 DEF IInv, BlockEndsContact
    <2>1. {new.sender, new.receiver} # {b[1], b[2]}
      BY <1>1, NotBlocked
    <2>. QED
      BY <1>1, <2>1 DEF IInv, BlockEndsContact
  <1>. QED
    BY <1>4, <1>5, <1>6 DEF IInv

LEMMA AnswerCommitted ==
    ASSUME IInv, NEW r \in Slots, CommitAnswer(r)
    PROVE  IInv'
PROOF
  <1> DEFINE answered(f) ==
        IF f.id = work[r].row THEN [f EXCEPT !.status = work[r].reply] ELSE f
  <1>1. /\ work[r].op = "answer" /\ work[r].at = "guarded"
        /\ requests' = {answered(f) : f \in requests}
        /\ friends' \subseteq friends \cup {{work[r].by, work[r].to}}
        /\ Done(r)
        /\ UNCHANGED <<known, blocks, guest, links, asked, shared>>
    BY DEF CommitAnswer
  <1>2. work[r] \in Work
    BY <1>1, WorkIsTyped
  <1>3. \A f \in requests : /\ answered(f).sender = f.sender
                             /\ answered(f).receiver = f.receiver
    BY DEF IInv, TypeOK, FriendRequest
  <1>4. work' \in [Slots -> Work \cup {Idle}] /\ Locks'
    BY <1>1, DoneKeepsLocks
  <1>5. requests' \subseteq FriendRequest
    <2> SUFFICES ASSUME NEW f \in requests PROVE answered(f) \in FriendRequest
      BY <1>1
    <2>1. f \in FriendRequest
      BY DEF IInv, TypeOK
    <2>2. work[r].reply \in {"Accepted", "Declined"}
      BY <1>1, <1>2 DEF IInv, Locks, WorkShape, Work
    <2>. QED
      BY <2>1, <2>2 DEF FriendRequest
  <1>6. TypeOK'
    <2>1. friends' \subseteq SUBSET Users
      BY <1>1, <1>2 DEF IInv, TypeOK, Work
    <2>. QED
      BY <1>1, <1>4, <1>5, <2>1 DEF IInv, TypeOK
  <1>7. BlockEndsContact'
    <2> SUFFICES ASSUME NEW b \in blocks
                 PROVE  /\ {b[1], b[2]} \notin friends'
                        /\ \A f \in requests' : {f.sender, f.receiver} # {b[1], b[2]}
      BY <1>1 DEF IInv, BlockEndsContact
    <2>1. {b[1], b[2]} \notin friends'
      BY <1>1, NotBlocked DEF IInv, BlockEndsContact
    <2>2. ASSUME NEW f \in requests'
          PROVE  {f.sender, f.receiver} # {b[1], b[2]}
      <3>1. PICK g \in requests : f = answered(g)
        BY <1>1
      <3>2. {g.sender, g.receiver} # {b[1], b[2]}
        BY DEF IInv, BlockEndsContact
      <3>. QED
        BY <1>3, <3>1, <3>2
    <2>. QED
      BY <2>1, <2>2
  <1>. QED
    BY <1>4, <1>6, <1>7 DEF IInv

\* What is between the two is withdrawn in the transaction that blocks.
LEMMA BlockCommitted ==
    ASSUME IInv, NEW r \in Slots, CommitBlock(r)
    PROVE  IInv'
PROOF
  <1> DEFINE a == work[r].by
             b == work[r].to
             ends(u) == {a, b} = {u, Owner}
             between(f) == {f.sender, f.receiver} = {a, b}
             toEither(l) == l.target # None /\ ends(l.target)
  <1>1. /\ work[r].op = "block" /\ work[r].at = "guarded"
        /\ blocks' = blocks \cup {<<a, b>>}
        /\ friends' = friends \ {{a, b}}
        /\ requests' = {f \in requests : ~between(f)}
        /\ guest' = [u \in Guests |->
                IF ends(u) /\ Withdrawn(guest[u]) THEN "none" ELSE guest[u]]
        /\ links' = {l \in links : ~toEither(l)}
        /\ Done(r)
        /\ UNCHANGED <<known, asked, shared>>
    BY DEF CommitBlock
  <1>2. work[r] \in Work
    BY <1>1, WorkIsTyped
  <1>3. work' \in [Slots -> Work \cup {Idle}]
    BY <1>1 DEF IInv, TypeOK, Done
  <1>4. TypeOK'
    <2>1. guest' \in [Guests -> Statuses]
      BY <1>1 DEF IInv, TypeOK, Statuses
    <2>2. blocks' \subseteq Users \X Users
      BY <1>1, <1>2 DEF IInv, TypeOK, Work
    <2>. QED
      BY <1>1, <1>3, <2>1, <2>2 DEF IInv, TypeOK
  <1>5. \A s \in Slots : work'[s] = IF s = r THEN Idle ELSE work[s]
    BY <1>1 DEF IInv, TypeOK, Done
  <1>6. WorkShape' /\ LockIsExclusive'
    BY <1>5 DEF IInv, Locks, WorkShape, LockIsExclusive, Idle
  <1>7. GuardHolds'
    <2> SUFFICES ASSUME NEW s \in Slots,
                        work'[s].at = "guarded", work'[s].op # "block"
                 PROVE  /\ <<work'[s].by, work'[s].to>> \notin blocks'
                        /\ <<work'[s].to, work'[s].by>> \notin blocks'
      BY DEF GuardHolds, Blocked
    <2>1. s # r /\ work'[s] = work[s]
      BY <1>5 DEF Idle
    <2>2. PairOf(work[s]) # PairOf(work[r])
      BY <1>1, <2>1 DEF IInv, Locks, LockIsExclusive
    <2>3. ~Blocked(work[s].by, work[s].to)
      BY <2>1 DEF IInv, Locks, GuardHolds
    <2>. QED
      BY <1>1, <2>1, <2>2, <2>3 DEF Blocked, PairOf
  <1>8. BlockEndsContact'
    <2> SUFFICES ASSUME NEW c \in blocks'
                 PROVE  /\ {c[1], c[2]} \notin friends'
                        /\ \A f \in requests' : {f.sender, f.receiver} # {c[1], c[2]}
                        /\ \A u \in Guests : {u, Owner} = {c[1], c[2]} =>
                              /\ guest'[u] # "Waiting"
                              /\ \A l \in links' : l.target = u => ~l.guarded
      BY DEF BlockEndsContact
    <2>1. CASE c \in blocks
      BY <1>1, <2>1 DEF IInv, BlockEndsContact
    <2>2. CASE c = <<a, b>>
      <3>1. {c[1], c[2]} = {a, b}
        BY <2>2
      <3>2. \A u \in Guests : {u, Owner} = {a, b} => guest'[u] # "Waiting"
        BY <1>1 DEF Withdrawn
      <3>3. \A u \in Guests, l \in links' :
                {u, Owner} = {a, b} /\ l.target = u => FALSE
        BY <1>1, ContactsAssumption DEF Guests
      <3>. QED
        BY <1>1, <3>1, <3>2, <3>3
    <2>. QED
      BY <1>1, <2>1, <2>2
  <1>. QED
    BY <1>4, <1>6, <1>7, <1>8 DEF IInv, Locks

LEMMA InviteCommitted ==
    ASSUME IInv, NEW r \in Slots, CommitInvite(r)
    PROVE  IInv'
PROOF
  <1> DEFINE u == work[r].to
  <1>1. /\ work[r].op = "invite" /\ work[r].at = "guarded"
        /\ guest' = [guest EXCEPT ![u] = Invited(guest[u])]
        /\ Done(r)
        /\ UNCHANGED <<known, friends, requests, blocks, links, asked, shared>>
    BY DEF CommitInvite
  <1>2. work[r].by = Owner
    BY <1>1 DEF IInv, Locks, WorkShape
  <1>3. work' \in [Slots -> Work \cup {Idle}] /\ Locks'
    BY <1>1, DoneKeepsLocks
  <1>4. TypeOK'
    BY <1>1, <1>3 DEF IInv, TypeOK, Invited, Statuses
  <1>5. BlockEndsContact'
    <2> SUFFICES ASSUME NEW b \in blocks, NEW v \in Guests,
                        {v, Owner} = {b[1], b[2]}
                 PROVE  guest'[v] # "Waiting"
      BY <1>1 DEF IInv, BlockEndsContact
    <2>1. v # u
      BY <1>1, <1>2, NotBlocked
    <2>. QED
      BY <1>1, <2>1 DEF IInv, TypeOK, BlockEndsContact
  <1>. QED
    BY <1>3, <1>4, <1>5 DEF IInv

LEMMA LinkCommitted ==
    ASSUME IInv, NEW r \in Slots, CommitLink(r)
    PROVE  IInv'
PROOF
  <1> DEFINE new == [id |-> shared + 1, target |-> work[r].to, usedBy |-> None,
                     over |-> FALSE, guarded |-> work[r].at = "guarded"]
  <1>1. /\ work[r].op = "email" /\ work[r].at \in {"guarded", "unguarded"}
        /\ shared < MaxLinks /\ shared' = shared + 1
        /\ links' = links \cup {new}
        /\ work' = [work EXCEPT ![r].at = "mail", ![r].row = shared + 1]
        /\ UNCHANGED <<known, friends, requests, blocks, guest, asked>>
    BY DEF CommitLink
  <1>2. work[r] \in Work
    BY <1>1, WorkIsTyped
  <1>3. work[r].by = Owner
    BY <1>1 DEF IInv, Locks, WorkShape
  <1>4. new \in Link
    BY <1>1, <1>2, ContactsAssumption DEF IInv, TypeOK, Work, Link
  <1>5. [work[r] EXCEPT !.at = "mail", !.row = shared + 1] \in Work
    <2>1. shared + 1 \in 0..(MaxRequests + MaxLinks)
      BY <1>1, ContactsAssumption DEF IInv, TypeOK
    <2>. QED
      BY <1>2, <2>1 DEF Work
  <1>6. work' \in [Slots -> Work \cup {Idle}]
    BY <1>1, <1>5 DEF IInv, TypeOK
  <1>7. TypeOK'
    <2>1. shared' \in 0..MaxLinks
      BY <1>1, ContactsAssumption DEF IInv, TypeOK
    <2>2. links' \subseteq Link
      <3>. HIDE DEF new
      <3>. QED
        BY <1>1, <1>4 DEF IInv, TypeOK
    <2>. QED
      BY <1>1, <1>6, <2>1, <2>2 DEF IInv, TypeOK
  <1>8. \A s \in Slots :
            /\ work'[s].op = work[s].op /\ work'[s].by = work[s].by
            /\ work'[s].to = work[s].to /\ work'[s].reply = work[s].reply
            /\ work'[s].at = IF s = r THEN "mail" ELSE work[s].at
    BY <1>1, <1>2 DEF IInv, TypeOK, Work
  <1>9. Locks'
    <2>1. \A s \in Slots : PairOf(work'[s]) = PairOf(work[s])
      BY <1>8 DEF PairOf
    <2>2. WorkShape' /\ LockIsExclusive'
      BY <1>8, <2>1 DEF IInv, Locks, WorkShape, LockIsExclusive
    <2>3. GuardHolds'
      <3>1. UNCHANGED blocks
        BY <1>1
      <3>2. ASSUME NEW s \in Slots, work'[s].at = "guarded", work'[s].op # "block"
            PROVE  ~Blocked(work[s].by, work[s].to)
        <4>1. work[s].at = "guarded" /\ work[s].op # "block"
          BY <1>8, <3>2
        <4>. QED
          BY <4>1 DEF IInv, Locks, GuardHolds
      <3>3. \A s \in Slots : work'[s].by = work[s].by /\ work'[s].to = work[s].to
        BY <1>8
      <3>. QED
        BY <3>1, <3>2, <3>3 DEF GuardHolds, Blocked
    <2>. QED
      BY <2>2, <2>3 DEF Locks
  <1>10. BlockEndsContact'
    <2>1. ASSUME NEW b \in blocks, NEW v \in Guests,
                 {v, Owner} = {b[1], b[2]}, new.target = v
          PROVE  ~new.guarded
      BY <1>1, <1>3, <2>1, NotBlocked
    <2> HIDE DEF new
    <2>2. ASSUME NEW b \in blocks, NEW v \in Guests, {v, Owner} = {b[1], b[2]}
          PROVE  \A l \in links' : l.target = v => ~l.guarded
      <3>1. \A l \in links : l.target = v => ~l.guarded
        BY <2>2 DEF IInv, BlockEndsContact
      <3>. QED
        BY <1>1, <2>1, <2>2, <3>1
    <2>3. \A b \in blocks : LET pair == {b[1], b[2]} IN
             /\ pair \notin friends
             /\ \A q \in requests : {q.sender, q.receiver} # pair
             /\ \A u \in Guests : {u, Owner} = pair => guest[u] # "Waiting"
      BY DEF IInv, BlockEndsContact
    <2>4. UNCHANGED <<blocks, friends, requests, guest>>
      BY <1>1
    <2>. QED
      BY <2>2, <2>3, <2>4 DEF BlockEndsContact
  <1>. QED
    BY <1>7, <1>9, <1>10 DEF IInv

LEMMA ClaimCommitted ==
    ASSUME IInv, NEW r \in Slots, CommitClaim(r)
    PROVE  IInv'
PROOF
  <1> DEFINE u == work[r].by
             used(l) == IF l.id = work[r].row THEN [l EXCEPT !.usedBy = u] ELSE l
  <1>1. /\ work[r].op = "claim" /\ work[r].at = "guarded"
        /\ guest' = [v \in Guests |->
                        IF v = u /\ guest[v] = "none" THEN "Waiting" ELSE guest[v]]
        /\ links' = {used(l) : l \in links}
        /\ Done(r)
        /\ UNCHANGED <<known, friends, requests, blocks, asked, shared>>
    BY DEF CommitClaim
  <1>2. work[r] \in Work /\ work[r].to = Owner
    BY <1>1, WorkIsTyped DEF IInv, Locks, WorkShape
  <1>3. work' \in [Slots -> Work \cup {Idle}] /\ Locks'
    BY <1>1, DoneKeepsLocks
  <1>4. \A l \in links : /\ used(l) \in Link
                          /\ used(l).target = l.target /\ used(l).guarded = l.guarded
    BY <1>2 DEF IInv, TypeOK, Link, Work
  <1>5. TypeOK'
    <2>1. guest' \in [Guests -> Statuses]
      BY <1>1 DEF IInv, TypeOK, Statuses
    <2>2. links' \subseteq Link
      BY <1>1, <1>4
    <2>. QED
      BY <1>1, <1>3, <2>1, <2>2 DEF IInv, TypeOK
  <1>6. BlockEndsContact'
    <2> SUFFICES ASSUME NEW b \in blocks, NEW v \in Guests,
                        {v, Owner} = {b[1], b[2]}
                 PROVE  /\ guest'[v] # "Waiting"
                        /\ \A l \in links' : l.target = v => ~l.guarded
      BY <1>1 DEF IInv, BlockEndsContact
    <2>1. v # u
      BY <1>1, <1>2, NotBlocked
    <2>2. guest'[v] # "Waiting"
      BY <1>1, <2>1 DEF IInv, BlockEndsContact
    <2>3. ASSUME NEW l \in links', l.target = v PROVE ~l.guarded
      <3>1. PICK k \in links : l = used(k)
        BY <1>1
      <3>. QED
        BY <1>4, <2>3, <3>1 DEF IInv, BlockEndsContact
    <2>. QED
      BY <2>2, <2>3
  <1>. QED
    BY <1>3, <1>5, <1>6 DEF IInv

LEMMA MailFailed ==
    ASSUME IInv, NEW r \in Slots, MailFails(r)
    PROVE  IInv'
PROOF
  <1>1. /\ links' \subseteq links
        /\ Done(r)
        /\ UNCHANGED <<known, friends, requests, blocks, guest, asked, shared>>
    BY DEF MailFails
  <1>2. TypeOK' /\ Locks'
    BY <1>1, DoneKeepsLocks DEF IInv, TypeOK
  <1>3. BlockEndsContact'
    BY <1>1 DEF IInv, BlockEndsContact
  <1>. QED
    BY <1>2, <1>3 DEF IInv

-----------------------------------------------------------------------------
(* Single statements.                                                      *)

\* None of them opens a contact, and none touches a request in flight.
LEMMA StatementKeeps ==
    ASSUME IInv, UNCHANGED work, TypeOK',
           blocks' \subseteq blocks, friends' \subseteq friends,
           UNCHANGED requests,
           \A u \in Guests : guest'[u] = "Waiting" => guest[u] = "Waiting",
           \A l \in links' : l.target # None /\ l.guarded =>
                \E k \in links : k.target = l.target /\ k.guarded
    PROVE  IInv'
PROOF
  <1>1. Locks'
    BY DEF IInv, Locks, WorkShape, LockIsExclusive, GuardHolds, Blocked
  <1>2. BlockEndsContact'
    <2> SUFFICES ASSUME NEW b \in blocks
                 PROVE  /\ {b[1], b[2]} \notin friends'
                        /\ \A q \in requests : {q.sender, q.receiver} # {b[1], b[2]}
                        /\ \A u \in Guests : {u, Owner} = {b[1], b[2]} =>
                              /\ guest'[u] # "Waiting"
                              /\ \A l \in links' : l.target = u => ~l.guarded
      BY DEF BlockEndsContact
    <2>1. \A u \in Guests : u # None
      BY ContactsAssumption DEF Guests
    <2>. QED
      BY <2>1 DEF IInv, BlockEndsContact
  <1>. QED
    BY <1>1, <1>2 DEF IInv

LEMMA StatementsKeep ==
    ASSUME IInv,
           \/ \E a, b \in Users : DeleteFriend(a, b) \/ Unblock(a, b)
           \/ \E u \in Users : Register(u)
           \/ \E u \in Guests : ExpireInvitation(u) \/ DeleteInvitation(u)
           \/ \E u \in Guests, s \in {"Accepted", "Declined"} : RespondInvitation(u, s)
           \/ \E l \in links : LinkExpires(l)
           \/ CreateShareLink
    PROVE  IInv'
PROOF
  <1>1. ASSUME NEW a \in Users, NEW b \in Users, DeleteFriend(a, b) \/ Unblock(a, b)
        PROVE  IInv'
    <2>1. TypeOK'
      BY <1>1 DEF DeleteFriend, Unblock, IInv, TypeOK
    <2>. QED
      BY <1>1, <2>1, StatementKeeps DEF DeleteFriend, Unblock
  <1>2. ASSUME NEW u \in Users, Register(u)
        PROVE  IInv'
    <2>1. TypeOK'
      BY <1>2 DEF Register, IInv, TypeOK
    <2>. QED
      BY <1>2, <2>1, StatementKeeps DEF Register
  <1>3. ASSUME NEW u \in Guests, NEW s \in {"none", "Accepted", "Declined", "Expired"},
               guest' = [guest EXCEPT ![u] = s],
               UNCHANGED <<known, friends, requests, blocks, links, asked, shared, work>>
        PROVE  IInv'
    <2>1. TypeOK'
      BY <1>3 DEF IInv, TypeOK, Statuses
    <2>2. \A v \in Guests : guest'[v] = "Waiting" => guest[v] = "Waiting"
      BY <1>3 DEF IInv, TypeOK
    <2>. QED
      BY <1>3, <2>1, <2>2, StatementKeeps
  <1>4. ASSUME NEW l \in links, LinkExpires(l)
        PROVE  IInv'
    <2>1. /\ links' = (links \ {l}) \cup {[l EXCEPT !.over = TRUE]}
          /\ UNCHANGED <<known, friends, requests, blocks, guest, asked, shared, work>>
      BY <1>4 DEF LinkExpires
    <2>2. l \in Link
      BY DEF IInv, TypeOK
    <2>3. /\ [l EXCEPT !.over = TRUE] \in Link
          /\ [l EXCEPT !.over = TRUE].target = l.target
          /\ [l EXCEPT !.over = TRUE].guarded = l.guarded
      BY <2>2 DEF Link
    <2>4. TypeOK'
      BY <2>1, <2>3 DEF IInv, TypeOK
    <2>5. \A m \in links' : m.target # None /\ m.guarded =>
                \E k \in links : k.target = m.target /\ k.guarded
      BY <2>1, <2>3
    <2>. QED
      BY <2>1, <2>4, <2>5, StatementKeeps
  <1>5. ASSUME CreateShareLink
        PROVE  IInv'
    <2> DEFINE new == [id |-> shared + 1, target |-> None, usedBy |-> None,
                       over |-> FALSE, guarded |-> TRUE]
    <2>1. /\ shared < MaxLinks /\ shared' = shared + 1
          /\ links' = links \cup {new}
          /\ UNCHANGED <<known, friends, requests, blocks, guest, asked, work>>
      BY <1>5 DEF CreateShareLink
    <2>2. new \in Link /\ new.target = None
      BY <2>1, ContactsAssumption DEF IInv, TypeOK, Link
    <2>3. shared' \in 0..MaxLinks
      BY <2>1, ContactsAssumption DEF IInv, TypeOK
    <2> HIDE DEF new
    <2>4. TypeOK'
      BY <2>1, <2>2, <2>3 DEF IInv, TypeOK
    <2>. QED
      BY <2>1, <2>2, <2>4, StatementKeeps
  <1>6. ASSUME NEW u \in Guests,
               \/ ExpireInvitation(u) \/ DeleteInvitation(u)
               \/ \E s \in {"Accepted", "Declined"} : RespondInvitation(u, s)
        PROVE  IInv'
    BY <1>3, <1>6 DEF ExpireInvitation, DeleteInvitation, RespondInvitation
  <1>. QED
    BY <1>1, <1>2, <1>4, <1>5, <1>6

-----------------------------------------------------------------------------
(* Every step.                                                             *)

LEMMA Started ==
    ASSUME IInv, NEW r \in Slots,
           \/ \E a, b \in Users : AskFriend(r, a, b) \/ Block(r, a, b)
           \/ \E q \in requests, reply \in {"Accepted", "Declined"} :
                 AnswerFriend(r, q, reply)
           \/ \E u \in Guests : Invite(r, u) \/ InviteByEmail(r, u)
           \/ \E u \in Users, l \in links : Claim(r, u, l)
    PROVE  IInv'
PROOF
  <1>0. 0 \in 0..(MaxRequests + MaxLinks) /\ Owner \in Users
    BY ContactsAssumption
  <1>1. ASSUME NEW a \in Users, NEW b \in Users, AskFriend(r, a, b) \/ Block(r, a, b)
        PROVE  IInv'
    BY <1>0, <1>1, BeginKeeps DEF AskFriend, Block, Work
  <1>2. ASSUME NEW q \in requests, NEW reply \in {"Accepted", "Declined"},
               AnswerFriend(r, q, reply)
        PROVE  IInv'
    <2>1. q \in FriendRequest
      BY DEF IInv, TypeOK
    <2>2. q.id \in 0..(MaxRequests + MaxLinks) /\ q.sender \in Users /\ q.receiver \in Users
      BY <2>1, ContactsAssumption DEF FriendRequest
    <2>. QED
      BY <1>2, <2>2, BeginKeeps DEF AnswerFriend, Work
  <1>3. ASSUME NEW u \in Guests, Invite(r, u) \/ InviteByEmail(r, u)
        PROVE  IInv'
    BY <1>0, <1>3, BeginKeeps DEF Invite, InviteByEmail, Work, Guests
  <1>4. ASSUME NEW u \in Users, NEW l \in links, Claim(r, u, l)
        PROVE  IInv'
    <2>1. l.id \in 0..(MaxRequests + MaxLinks)
      BY ContactsAssumption DEF IInv, TypeOK, Link
    <2>. QED
      BY <1>0, <1>4, <2>1, BeginKeeps DEF Claim, Work
  <1>. QED
    BY <1>1, <1>2, <1>3, <1>4

LEMMA Looked ==
    ASSUME IInv, NEW r \in Slots,
           \/ SeesNoFriendship(r) \/ SeesNoRequest(r)
           \/ SeesNoInvitation(r) \/ SeesNoLink(r) \/ GuardUnknown(r)
    PROVE  IInv'
PROOF
  BY GoesKeeps
  DEF SeesNoFriendship, SeesNoRequest, SeesNoInvitation, SeesNoLink, GuardUnknown

LEMMA NextInductive ==
    ASSUME IInv, [Next]_vars
    PROVE  IInv'
PROOF
  <1>1. CASE UNCHANGED vars
    BY <1>1
    DEF vars, IInv, TypeOK, Locks, WorkShape, LockIsExclusive, GuardHolds,
        Blocked, BlockEndsContact
  <1>2. ASSUME NEW r \in Slots, Serves(r)
        PROVE  IInv'
    BY <1>2, Started, Looked, GuardKeeps, FailKeeps, RequestCommitted,
       AnswerCommitted, BlockCommitted, InviteCommitted, LinkCommitted,
       MailFailed, ClaimCommitted DEF Serves
  <1>. QED
    BY <1>1, <1>2, StatementsKeep DEF Next

LEMMA InitiallyInductive == Init => IInv
PROOF
  <1> SUFFICES ASSUME Init PROVE IInv
    OBVIOUS
  <1>1. TypeOK
    BY ContactsAssumption DEF Init, TypeOK, Statuses
  <1>2. Locks
    BY DEF Init, Locks, WorkShape, LockIsExclusive, GuardHolds, Idle
  <1>3. BlockEndsContact
    BY DEF Init, BlockEndsContact
  <1>. QED
    BY <1>1, <1>2, <1>3 DEF IInv

\* What a guard found holds until its transaction ends: the advisory lock of
\* fiestaaa_guard_contact keeps the block of the two users out.
THEOREM ContactsInductive == Spec => []IInv
PROOF
  BY InitiallyInductive, NextInductive, PTL DEF Spec

\* The tables and the requests in flight have their types.
THEOREM ContactTypes == Spec => []TypeOK
PROOF
  <1>1. IInv => TypeOK
    BY DEF IInv
  <1>. QED
    BY <1>1, ContactsInductive, PTL

\* A committed block leaves no friendship, friend request, waiting invitation or
\* guarded link between the two users, and none is made while it stands.
THEOREM BlocksEndContact == Spec => []BlockEndsContact
PROOF
  <1>1. IInv => BlockEndsContact
    BY DEF IInv
  <1>. QED
    BY <1>1, ContactsInductive, PTL
-----------------------------------------------------------------------------
(* Rows that are locked.                                                   *)

\* Friend requests and links are told apart by their ids.
Numbered ==
    /\ \A q \in requests : q.id <= asked
    /\ \A p, q \in requests : p.id = q.id => p = q
    /\ \A l \in links : l.id <= shared
    /\ \A l, m \in links : l.id = m.id => l = m

\* The request that an answer has read with FOR UPDATE is still there, pending,
\* and between the two users the answer is about.
AnswersHold ==
    \A r \in Slots : work[r].op = "answer" =>
        \E q \in requests :
            /\ q.id = work[r].row /\ q.status = "Pending"
            /\ {q.sender, q.receiver} = PairOf(work[r])

\* The link that a claim has read with FOR UPDATE has not been used.
ClaimsHold ==
    \A r \in Slots : work[r].op = "claim" =>
        \A l \in links : l.id = work[r].row => l.usedBy = None

\* One transaction holds a row.
RowsAreExclusive ==
    \A r, s \in Slots :
        /\ work[r].op \in {"answer", "claim"}
        /\ work[s].op = work[r].op /\ work[s].row = work[r].row
        => r = s

Rows == Numbered /\ AnswersHold /\ ClaimsHold /\ RowsAreExclusive

RowsInv == IInv /\ Rows /\ FriendshipsWereAccepted

\* Requests in flight end, or move on with what they have, or have no row.
Onward ==
    \A r \in Slots :
        \/ work'[r].op \notin {"answer", "claim"}
        \/ /\ work'[r].op = work[r].op /\ work'[r].row = work[r].row
           /\ work'[r].by = work[r].by /\ work'[r].to = work[r].to

LEMMA OnwardKeeps ==
    ASSUME RowsInv, Onward
    PROVE  /\ RowsAreExclusive'
           /\ UNCHANGED requests => AnswersHold'
           /\ UNCHANGED links => ClaimsHold'
PROOF
  <1>1. RowsAreExclusive'
    BY DEF RowsInv, Rows, RowsAreExclusive, Onward
  <1>2. ASSUME UNCHANGED requests PROVE AnswersHold'
    <2> SUFFICES ASSUME NEW r \in Slots, work'[r].op = "answer"
                 PROVE  \E q \in requests :
                            /\ q.id = work'[r].row /\ q.status = "Pending"
                            /\ {q.sender, q.receiver} = {work'[r].by, work'[r].to}
      BY <1>2 DEF AnswersHold, PairOf
    <2>1. /\ work'[r].op = work[r].op /\ work'[r].row = work[r].row
          /\ work'[r].by = work[r].by /\ work'[r].to = work[r].to
      BY DEF Onward
    <2>. QED
      BY <2>1 DEF RowsInv, Rows, AnswersHold, PairOf
  <1>3. ASSUME UNCHANGED links PROVE ClaimsHold'
    BY <1>3 DEF RowsInv, Rows, ClaimsHold, Onward
  <1>. QED
    BY <1>1, <1>2, <1>3

\* A step that leaves friend requests, friendships and links as they are.
LEMMA NoRowChanges ==
    ASSUME RowsInv, Onward, UNCHANGED <<requests, asked, links, shared>>,
           friends' \subseteq friends
    PROVE  Rows' /\ FriendshipsWereAccepted'
PROOF
  <1>1. Numbered' /\ FriendshipsWereAccepted'
    BY DEF RowsInv, Rows, Numbered, FriendshipsWereAccepted
  <1>. QED
    BY <1>1, OnwardKeeps DEF Rows

LEMMA DoneMovesOn ==
    ASSUME RowsInv, NEW r \in Slots, Done(r)
    PROVE  /\ Onward
           /\ work'[r].op = "idle"
           /\ \A s \in Slots \ {r} : work'[s] = work[s]
PROOF
  BY DEF RowsInv, IInv, TypeOK, Done, Onward, Idle

LEMMA GoesOn ==
    ASSUME RowsInv, NEW r \in Slots, NEW op, NEW from, NEW to,
           Goes(r, op, from, to), op # "idle"
    PROVE  Rows' /\ FriendshipsWereAccepted'
PROOF
  <1>1. work' = [work EXCEPT ![r].at = to] /\ UNCHANGED tables /\ work[r].op = op
    BY DEF Goes
  <1>2. work[r] \in Work
    BY <1>1, WorkIsTyped DEF RowsInv
  <1>3. Onward
    BY <1>1, <1>2 DEF RowsInv, IInv, TypeOK, Work, Onward
  <1>. QED
    BY <1>1, <1>3, NoRowChanges DEF tables

LEMMA NoRowTaken ==
    ASSUME RowsInv, NEW r \in Slots, NEW op, NEW at, NEW by, NEW to, NEW row, NEW reply,
           Begin(r, op, at, by, to, row, reply), op \notin {"answer", "claim"}
    PROVE  Rows' /\ FriendshipsWereAccepted'
PROOF
  <1>1. /\ work' = [work EXCEPT ![r] = [op |-> op, at |-> at, by |-> by, to |-> to,
                                        row |-> row, reply |-> reply]]
        /\ UNCHANGED tables
    BY DEF Begin
  <1>2. Onward
    BY <1>1 DEF RowsInv, IInv, TypeOK, Onward
  <1>. QED
    BY <1>1, <1>2, NoRowChanges DEF tables

\* SELECT ... FOR UPDATE of a friend request.
LEMMA RequestTaken ==
    ASSUME RowsInv, NEW r \in Slots, NEW f \in requests, NEW reply,
           AnswerFriend(r, f, reply)
    PROVE  Rows' /\ FriendshipsWereAccepted'
PROOF
  <1>1. /\ work' = [work EXCEPT ![r] = [op |-> "answer", at |-> "held",
                        by |-> f.receiver, to |-> f.sender, row |-> f.id,
                        reply |-> reply]]
        /\ UNCHANGED tables /\ f.status = "Pending"
        /\ \A s \in Slots \ {r} : ~(work[s].op = "answer" /\ work[s].row = f.id)
    BY DEF AnswerFriend, Begin, RowFree
  <1>2. /\ work'[r].op = "answer" /\ work'[r].row = f.id
        /\ work'[r].by = f.receiver /\ work'[r].to = f.sender
        /\ \A s \in Slots \ {r} : work'[s] = work[s]
    BY <1>1 DEF RowsInv, IInv, TypeOK
  <1>3. Numbered' /\ FriendshipsWereAccepted'
    BY <1>1 DEF RowsInv, Rows, Numbered, FriendshipsWereAccepted, tables
  <1>4. AnswersHold'
    <2> SUFFICES ASSUME NEW s \in Slots, work'[s].op = "answer"
                 PROVE  \E q \in requests :
                            /\ q.id = work'[s].row /\ q.status = "Pending"
                            /\ {q.sender, q.receiver} = {work'[s].by, work'[s].to}
      BY <1>1 DEF AnswersHold, PairOf, tables
    <2>1. CASE s = r
      BY <1>1, <1>2, <2>1
    <2>2. CASE s # r
      BY <1>2, <2>2 DEF RowsInv, Rows, AnswersHold, PairOf
    <2>. QED
      BY <2>1, <2>2
  <1>5. ClaimsHold'
    BY <1>1, <1>2 DEF RowsInv, Rows, ClaimsHold, tables
  <1>6. RowsAreExclusive'
    BY <1>1, <1>2 DEF RowsInv, Rows, RowsAreExclusive
  <1>. QED
    BY <1>3, <1>4, <1>5, <1>6 DEF Rows

\* SELECT ... FOR UPDATE of a link.
LEMMA LinkTaken ==
    ASSUME RowsInv, NEW r \in Slots, NEW u \in Users, NEW l \in links, Claim(r, u, l)
    PROVE  Rows' /\ FriendshipsWereAccepted'
PROOF
  <1>1. /\ work' = [work EXCEPT ![r] = [op |-> "claim", at |-> "held", by |-> u,
                        to |-> Owner, row |-> l.id, reply |-> "none"]]
        /\ UNCHANGED tables /\ l.usedBy = None
        /\ \A s \in Slots \ {r} : ~(work[s].op = "claim" /\ work[s].row = l.id)
    BY DEF Claim, Begin, RowFree
  <1>2. /\ work'[r].op = "claim" /\ work'[r].row = l.id
        /\ \A s \in Slots \ {r} : work'[s] = work[s]
    BY <1>1 DEF RowsInv, IInv, TypeOK
  <1>3. Numbered' /\ FriendshipsWereAccepted'
    BY <1>1 DEF RowsInv, Rows, Numbered, FriendshipsWereAccepted, tables
  <1>4. AnswersHold'
    <2> SUFFICES ASSUME NEW s \in Slots, work'[s].op = "answer"
                 PROVE  \E q \in requests :
                            /\ q.id = work'[s].row /\ q.status = "Pending"
                            /\ {q.sender, q.receiver} = {work'[s].by, work'[s].to}
      BY <1>1 DEF AnswersHold, PairOf, tables
    <2>1. work'[s] = work[s]
      BY <1>2
    <2>. QED
      BY <2>1 DEF RowsInv, Rows, AnswersHold, PairOf
  <1>5. ClaimsHold'
    BY <1>1, <1>2 DEF RowsInv, Rows, Numbered, ClaimsHold, tables
  <1>6. RowsAreExclusive'
    BY <1>1, <1>2 DEF RowsInv, Rows, RowsAreExclusive
  <1>. QED
    BY <1>3, <1>4, <1>5, <1>6 DEF Rows

-----------------------------------------------------------------------------
(* Commits, and the rows.                                                  *)

LEMMA RequestRows ==
    ASSUME RowsInv, NEW r \in Slots, CommitRequest(r)
    PROVE  Rows' /\ FriendshipsWereAccepted'
PROOF
  <1> DEFINE new == [id |-> asked + 1, sender |-> work[r].by,
                     receiver |-> work[r].to, status |-> "Pending"]
  <1>1. /\ requests' = requests \cup {new} /\ asked' = asked + 1
        /\ Done(r) /\ UNCHANGED <<friends, links, shared>>
    BY DEF CommitRequest
  <1>2. new.id = asked + 1
    OBVIOUS
  <1>. HIDE DEF new
  <1>3. asked \in Nat /\ \A q \in requests : q.id \in Nat
    BY ContactsAssumption DEF RowsInv, IInv, TypeOK, FriendRequest
  <1>4. Numbered'
    BY <1>1, <1>2, <1>3 DEF RowsInv, Rows, Numbered
  <1>5. Onward
    BY <1>1, DoneMovesOn
  <1>6. AnswersHold'
    <2> SUFFICES ASSUME NEW s \in Slots, work'[s].op = "answer"
                 PROVE  \E q \in requests :
                            /\ q.id = work'[s].row /\ q.status = "Pending"
                            /\ {q.sender, q.receiver} = {work'[s].by, work'[s].to}
      BY <1>1 DEF AnswersHold, PairOf
    <2>. QED
      BY <1>5 DEF RowsInv, Rows, AnswersHold, PairOf, Onward
  <1>7. FriendshipsWereAccepted'
    BY <1>1 DEF RowsInv, FriendshipsWereAccepted
  <1>. QED
    BY <1>1, <1>4, <1>5, <1>6, <1>7, OnwardKeeps DEF Rows

LEMMA AnswerRows ==
    ASSUME RowsInv, NEW r \in Slots, CommitAnswer(r)
    PROVE  Rows' /\ FriendshipsWereAccepted'
PROOF
  <1> DEFINE answered(f) ==
        IF f.id = work[r].row THEN [f EXCEPT !.status = work[r].reply] ELSE f
  <1>1. /\ work[r].op = "answer"
        /\ requests' = {answered(f) : f \in requests}
        /\ friends' = friends \cup
                (IF work[r].reply = "Accepted" THEN {PairOf(work[r])} ELSE {})
        /\ Done(r)
        /\ UNCHANGED <<links, asked, shared>>
    BY DEF CommitAnswer, Befriends, PairOf
  <1>2. \A f \in requests :
            /\ answered(f).id = f.id
            /\ answered(f).sender = f.sender /\ answered(f).receiver = f.receiver
            /\ answered(f).status = IF f.id = work[r].row THEN work[r].reply ELSE f.status
    BY DEF RowsInv, IInv, TypeOK, FriendRequest
  <1>. HIDE DEF answered
  <1>3. Numbered'
    <2>1. \A f \in requests' : f.id <= asked'
      BY <1>1, <1>2 DEF RowsInv, Rows, Numbered
    <2>2. \A f, g \in requests' : f.id = g.id => f = g
      BY <1>1, <1>2 DEF RowsInv, Rows, Numbered
    <2>. QED
      BY <1>1, <2>1, <2>2 DEF RowsInv, Rows, Numbered
  <1>4. PICK held \in requests :
            /\ held.id = work[r].row /\ held.status = "Pending"
            /\ {held.sender, held.receiver} = PairOf(work[r])
    BY <1>1 DEF RowsInv, Rows, AnswersHold
  <1>5. /\ Onward /\ work'[r].op = "idle"
        /\ \A s \in Slots \ {r} : work'[s] = work[s]
    BY <1>1, DoneMovesOn
  <1>6. AnswersHold'
    <2> SUFFICES ASSUME NEW s \in Slots, work'[s].op = "answer"
                 PROVE  \E q \in requests' :
                            /\ q.id = work'[s].row /\ q.status = "Pending"
                            /\ {q.sender, q.receiver} = {work'[s].by, work'[s].to}
      BY DEF AnswersHold, PairOf
    <2>1. s # r /\ work'[s] = work[s]
      BY <1>5
    <2>2. PICK q \in requests :
            /\ q.id = work[s].row /\ q.status = "Pending"
            /\ {q.sender, q.receiver} = {work[s].by, work[s].to}
      BY <2>1 DEF RowsInv, Rows, AnswersHold, PairOf
    <2>3. work[s].row # work[r].row
      BY <1>1, <2>1 DEF RowsInv, Rows, RowsAreExclusive
    <2>4. answered(q) \in requests'
      BY <1>1
    <2>. QED
      BY <1>2, <2>1, <2>2, <2>3, <2>4
  <1>7. FriendshipsWereAccepted'
    <2> SUFFICES ASSUME NEW pair \in friends'
                 PROVE  \E q \in requests' :
                            q.status = "Accepted" /\ {q.sender, q.receiver} = pair
      BY DEF FriendshipsWereAccepted
    <2>1. CASE pair \in friends
      <3>1. PICK q \in requests : q.status = "Accepted" /\ {q.sender, q.receiver} = pair
        BY <2>1 DEF RowsInv, FriendshipsWereAccepted
      <3>2. q.id # work[r].row
        BY <1>4, <3>1 DEF RowsInv, Rows, Numbered
      <3>3. answered(q) \in requests'
        BY <1>1
      <3>. QED
        BY <1>2, <3>1, <3>2, <3>3
    <2>2. CASE pair \notin friends
      <3>1. work[r].reply = "Accepted" /\ pair = PairOf(work[r])
        BY <1>1, <2>2
      <3>2. answered(held) \in requests'
        BY <1>1
      <3>. QED
        BY <1>2, <1>4, <3>1, <3>2
    <2>. QED
      BY <2>1, <2>2
  <1>. QED
    BY <1>1, <1>3, <1>5, <1>6, <1>7, OnwardKeeps DEF Rows

\* The DELETEs of a block wait for the rows that answers and claims hold.
LEMMA BlockRows ==
    ASSUME RowsInv, NEW r \in Slots, CommitBlock(r)
    PROVE  Rows' /\ FriendshipsWereAccepted'
PROOF
  <1>1. /\ work[r].op = "block"
        /\ \A f \in requests : {f.sender, f.receiver} = PairOf(work[r])
                => RowFree(r, "answer", f.id)
        /\ friends' = friends \ {PairOf(work[r])}
        /\ requests' = {f \in requests : {f.sender, f.receiver} # PairOf(work[r])}
        /\ links' \subseteq links
        /\ Done(r)
        /\ UNCHANGED <<asked, shared>>
    BY DEF CommitBlock, PairOf
  <1>2. /\ Onward /\ work'[r].op = "idle"
        /\ \A s \in Slots \ {r} : work'[s] = work[s]
    BY <1>1, DoneMovesOn
  <1>3. Numbered'
    BY <1>1 DEF RowsInv, Rows, Numbered
  <1>4. AnswersHold'
    <2> SUFFICES ASSUME NEW s \in Slots, work'[s].op = "answer"
                 PROVE  \E q \in requests' :
                            /\ q.id = work'[s].row /\ q.status = "Pending"
                            /\ {q.sender, q.receiver} = {work'[s].by, work'[s].to}
      BY DEF AnswersHold, PairOf
    <2>1. s # r /\ work'[s] = work[s]
      BY <1>2
    <2>2. PICK q \in requests :
            /\ q.id = work[s].row /\ q.status = "Pending"
            /\ {q.sender, q.receiver} = {work[s].by, work[s].to}
      BY <2>1 DEF RowsInv, Rows, AnswersHold, PairOf
    <2>3. ~RowFree(r, "answer", q.id)
      BY <2>1, <2>2 DEF RowFree
    <2>. QED
      BY <1>1, <2>1, <2>2, <2>3
  <1>5. ClaimsHold'
    BY <1>1, <1>2 DEF RowsInv, Rows, ClaimsHold
  <1>6. FriendshipsWereAccepted'
    BY <1>1 DEF RowsInv, FriendshipsWereAccepted
  <1>. QED
    BY <1>2, <1>3, <1>4, <1>5, <1>6, OnwardKeeps DEF Rows

\* A link more: nobody has claimed it.
LEMMA NewLinkRows ==
    ASSUME RowsInv, Onward, NEW new, new.id = shared + 1, new.usedBy = None,
           links' = links \cup {new}, shared' = shared + 1,
           UNCHANGED <<requests, asked, friends>>
    PROVE  Rows' /\ FriendshipsWereAccepted'
PROOF
  <1>1. shared \in Nat /\ \A l \in links : l.id \in Nat
    BY ContactsAssumption DEF RowsInv, IInv, TypeOK, Link
  <1>2. Numbered'
    BY <1>1 DEF RowsInv, Rows, Numbered
  <1>3. ClaimsHold'
    BY DEF RowsInv, Rows, ClaimsHold, Onward
  <1>4. FriendshipsWereAccepted'
    BY DEF RowsInv, FriendshipsWereAccepted
  <1>. QED
    BY <1>2, <1>3, <1>4, OnwardKeeps DEF Rows

LEMMA LinkRows ==
    ASSUME RowsInv, NEW r \in Slots, CommitLink(r)
    PROVE  Rows' /\ FriendshipsWereAccepted'
PROOF
  <1> DEFINE new == [id |-> shared + 1, target |-> work[r].to, usedBy |-> None,
                     over |-> FALSE, guarded |-> work[r].at = "guarded"]
  <1>1. /\ work[r].op = "email"
        /\ links' = links \cup {new} /\ shared' = shared + 1
        /\ work' = [work EXCEPT ![r].at = "mail", ![r].row = shared + 1]
        /\ UNCHANGED <<requests, asked, friends>>
    BY DEF CommitLink
  <1>2. new.id = shared + 1 /\ new.usedBy = None
    OBVIOUS
  <1>. HIDE DEF new
  <1>3. work[r] \in Work
    BY <1>1, WorkIsTyped DEF RowsInv
  <1>4. Onward
    BY <1>1, <1>3 DEF RowsInv, IInv, TypeOK, Work, Onward
  <1>. QED
    BY <1>1, <1>2, <1>4, NewLinkRows

\* Links go, or change in what is neither their id nor their use.
LEMMA LinksStay ==
    ASSUME RowsInv, Onward, UNCHANGED <<requests, asked, friends, shared>>,
           \A l \in links' : \E k \in links : k.id = l.id /\ k.usedBy = l.usedBy,
           \A l, m \in links' : l.id = m.id => l = m
    PROVE  Rows' /\ FriendshipsWereAccepted'
PROOF
  <1>1. Numbered' /\ FriendshipsWereAccepted'
    BY DEF RowsInv, Rows, Numbered, FriendshipsWereAccepted
  <1>2. ClaimsHold'
    BY DEF RowsInv, Rows, ClaimsHold, Onward
  <1>. QED
    BY <1>1, <1>2, OnwardKeeps DEF Rows

LEMMA MailRows ==
    ASSUME RowsInv, NEW r \in Slots, MailFails(r)
    PROVE  Rows' /\ FriendshipsWereAccepted'
PROOF
  <1>1. /\ links' \subseteq links /\ Done(r)
        /\ UNCHANGED <<requests, asked, friends, shared>>
    BY DEF MailFails
  <1>. QED
    BY <1>1, DoneMovesOn, LinksStay DEF RowsInv, Rows, Numbered

LEMMA ClaimRows ==
    ASSUME RowsInv, NEW r \in Slots, CommitClaim(r)
    PROVE  Rows' /\ FriendshipsWereAccepted'
PROOF
  <1> DEFINE used(l) ==
        IF l.id = work[r].row THEN [l EXCEPT !.usedBy = work[r].by] ELSE l
  <1>1. /\ work[r].op = "claim"
        /\ links' = {used(l) : l \in links}
        /\ Done(r)
        /\ UNCHANGED <<requests, asked, friends, shared>>
    BY DEF CommitClaim
  <1>2. \A l \in links :
            /\ used(l).id = l.id
            /\ l.id # work[r].row => used(l).usedBy = l.usedBy
    BY DEF RowsInv, IInv, TypeOK, Link
  <1>. HIDE DEF used
  <1>3. /\ Onward /\ work'[r].op = "idle"
        /\ \A s \in Slots \ {r} : work'[s] = work[s]
    BY <1>1, DoneMovesOn
  <1>4. Numbered'
    BY <1>1, <1>2 DEF RowsInv, Rows, Numbered
  <1>5. ClaimsHold'
    <2> SUFFICES ASSUME NEW s \in Slots, work'[s].op = "claim",
                        NEW l \in links, used(l).id = work'[s].row
                 PROVE  used(l).usedBy = None
      BY <1>1 DEF ClaimsHold
    <2>1. s # r /\ work'[s] = work[s]
      BY <1>3
    <2>2. work[s].row # work[r].row
      BY <1>1, <2>1 DEF RowsInv, Rows, RowsAreExclusive
    <2>3. l.id # work[r].row /\ l.id = work[s].row
      BY <1>2, <2>1, <2>2
    <2>. QED
      BY <1>2, <2>1, <2>3 DEF RowsInv, Rows, ClaimsHold
  <1>6. FriendshipsWereAccepted'
    BY <1>1 DEF RowsInv, FriendshipsWereAccepted
  <1>. QED
    BY <1>1, <1>3, <1>4, <1>5, <1>6, OnwardKeeps DEF Rows

-----------------------------------------------------------------------------
(* Every step, and the rows.                                               *)

LEMMA StatementRows ==
    ASSUME RowsInv,
           \/ \E a, b \in Users : DeleteFriend(a, b) \/ Unblock(a, b)
           \/ \E u \in Users : Register(u)
           \/ \E u \in Guests : ExpireInvitation(u) \/ DeleteInvitation(u)
           \/ \E u \in Guests, s \in {"Accepted", "Declined"} : RespondInvitation(u, s)
           \/ \E l \in links : LinkExpires(l)
           \/ CreateShareLink
    PROVE  Rows' /\ FriendshipsWereAccepted'
PROOF
  <1>0. UNCHANGED work /\ Onward
    BY DEF DeleteFriend, Unblock, Register, ExpireInvitation, DeleteInvitation,
           RespondInvitation, LinkExpires, CreateShareLink, Onward
  <1>1. CASE UNCHANGED <<requests, asked, links, shared>> /\ friends' \subseteq friends
    BY <1>0, <1>1, NoRowChanges
  <1>2. ASSUME NEW l \in links, LinkExpires(l)
        PROVE  Rows' /\ FriendshipsWereAccepted'
    <2>1. PICK over : over = [l EXCEPT !.over = TRUE]
      OBVIOUS
    <2>2. /\ links' = (links \ {l}) \cup {over}
          /\ UNCHANGED <<requests, asked, friends, shared>>
      BY <1>2, <2>1 DEF LinkExpires
    <2>3. over.id = l.id /\ over.usedBy = l.usedBy
      BY <2>1 DEF RowsInv, IInv, TypeOK, Link
    <2>4. /\ \A m \in links' : \E k \in links : k.id = m.id /\ k.usedBy = m.usedBy
          /\ \A k, m \in links' : k.id = m.id => k = m
      BY <2>2, <2>3 DEF RowsInv, Rows, Numbered
    <2>. QED
      BY <1>0, <2>2, <2>4, LinksStay
  <1>3. ASSUME CreateShareLink
        PROVE  Rows' /\ FriendshipsWereAccepted'
    <2>1. PICK new : new = [id |-> shared + 1, target |-> None, usedBy |-> None,
                            over |-> FALSE, guarded |-> TRUE]
      OBVIOUS
    <2>2. /\ links' = links \cup {new} /\ shared' = shared + 1
          /\ UNCHANGED <<requests, asked, friends>>
      BY <1>3, <2>1 DEF CreateShareLink
    <2>3. new.id = shared + 1 /\ new.usedBy = None
      BY <2>1
    <2>. QED
      BY <1>0, <2>2, <2>3, NewLinkRows
  <1>. QED
    BY <1>1, <1>2, <1>3
    DEF DeleteFriend, Unblock, Register, ExpireInvitation, DeleteInvitation,
        RespondInvitation

LEMMA ServiceRows ==
    ASSUME RowsInv, NEW r \in Slots, Serves(r)
    PROVE  Rows' /\ FriendshipsWereAccepted'
PROOF
  <1>1. CASE \/ \E a, b \in Users : AskFriend(r, a, b) \/ Block(r, a, b)
             \/ \E u \in Guests : Invite(r, u) \/ InviteByEmail(r, u)
    BY <1>1, NoRowTaken DEF AskFriend, Block, Invite, InviteByEmail
  <1>2. CASE \/ SeesNoFriendship(r) \/ SeesNoRequest(r)
             \/ SeesNoInvitation(r) \/ SeesNoLink(r) \/ GuardUnknown(r)
    BY <1>2, GoesOn
    DEF SeesNoFriendship, SeesNoRequest, SeesNoInvitation, SeesNoLink, GuardUnknown
  <1>3. CASE Guard(r)
    <2>1. Goes(r, work[r].op, work[r].at, "guarded") /\ work[r].at \in {"checked", "held"}
      BY <1>3 DEF Guard
    <2>2. work[r].op # "idle"
      BY <2>1 DEF RowsInv, IInv, TypeOK, Work, Idle
    <2>. QED
      BY <2>1, <2>2, GoesOn
  <1>4. CASE Fail(r) \/ CommitInvite(r)
    BY <1>4, DoneMovesOn, NoRowChanges DEF Fail, CommitInvite, tables
  <1>. QED
    BY <1>1, <1>2, <1>3, <1>4, RequestTaken, LinkTaken, RequestRows, AnswerRows,
       BlockRows, LinkRows, MailRows, ClaimRows DEF Serves

LEMMA NextKeepsRows ==
    ASSUME RowsInv, [Next]_vars
    PROVE  RowsInv'
PROOF
  <1>1. CASE UNCHANGED vars
    <2>1. Onward
      BY <1>1 DEF vars, Onward
    <2>. QED
      BY <1>1, <2>1, NoRowChanges, NextInductive DEF RowsInv, vars
  <1>2. CASE Next
    <2>1. Rows' /\ FriendshipsWereAccepted'
      BY <1>2, ServiceRows, StatementRows DEF Next
    <2>. QED
      BY <1>2, <2>1, NextInductive DEF RowsInv
  <1>. QED
    BY <1>1, <1>2

LEMMA InitiallyRows == Init => RowsInv
PROOF
  <1> SUFFICES ASSUME Init PROVE RowsInv
    OBVIOUS
  <1>1. Rows
    BY DEF Init, Rows, Numbered, AnswersHold, ClaimsHold, RowsAreExclusive, Idle
  <1>2. FriendshipsWereAccepted
    BY DEF Init, FriendshipsWereAccepted
  <1>. QED
    BY <1>1, <1>2, InitiallyInductive DEF RowsInv

\* What a transaction has read with FOR UPDATE is as it was read until the
\* transaction ends: other answers, claims and blocks wait for the row.
THEOREM RowsInductive == Spec => []RowsInv
PROOF
  BY InitiallyRows, NextKeepsRows, PTL DEF Spec

\* Two users are friends because one of them accepted a request of the other
\* that is on record.
THEOREM FriendsAccepted == Spec => []FriendshipsWereAccepted
PROOF
  <1>1. RowsInv => FriendshipsWereAccepted
    BY DEF RowsInv
  <1>. QED
    BY <1>1, RowsInductive, PTL

\* No step that changes who blocks whom undoes an accepted invitation.
THEOREM AcceptedGuestsStay == Spec => AcceptedStays
PROOF
  <1> DEFINE Stays == \A u \in Guests : guest[u] = "Accepted" /\ blocks' # blocks
                            => guest'[u] = "Accepted"
  <1>1. ASSUME RowsInv, [Next]_vars PROVE Stays
    <2>1. CASE UNCHANGED blocks \/ UNCHANGED guest
      BY <2>1
    <2>2. ASSUME NEW r \in Slots, CommitBlock(r) PROVE Stays
      BY <2>2 DEF CommitBlock, Withdrawn
    <2>3. ASSUME NEW r \in Slots, Serves(r), ~CommitBlock(r) PROVE UNCHANGED blocks
      BY <2>3 DEF Serves, AskFriend, Block, Invite, InviteByEmail, AnswerFriend, Claim,
         SeesNoFriendship, SeesNoRequest, SeesNoInvitation, SeesNoLink, GuardUnknown,
         Guard, Fail, CommitRequest, CommitAnswer, CommitInvite, CommitLink, MailFails,
         CommitClaim, Begin, Goes, tables
    <2>4. ASSUME Next, \A r \in Slots : ~Serves(r)
          PROVE  UNCHANGED blocks \/ UNCHANGED guest
      BY <2>4 DEF Next, DeleteFriend, Unblock, Register, ExpireInvitation,
         DeleteInvitation, RespondInvitation, LinkExpires, CreateShareLink
    <2>. QED
      BY <1>1, <2>1, <2>2, <2>3, <2>4 DEF vars
  <1>. QED
    BY <1>1, RowsInductive, PTL DEF Spec, AcceptedStays

\* The user a link has let in is the only one it ever lets in.
THEOREM LinksLetOneIn == Spec => LinkUsedOnce
PROOF
  <1> DEFINE Once == \A l \in links, m \in links' :
                        m.id = l.id /\ l.usedBy # None => m.usedBy = l.usedBy
  <1>1. ASSUME RowsInv, [Next]_vars PROVE Once
    <2>0. /\ Numbered
          /\ shared \in Nat /\ \A l \in links : l.id \in Nat
      BY <1>1, ContactsAssumption DEF RowsInv, Rows, IInv, TypeOK, Link
    <2>1. CASE links' \subseteq links
      BY <2>0, <2>1 DEF Numbered
    <2>2. ASSUME NEW new, new.id = shared + 1, links' = links \cup {new} PROVE Once
      BY <2>0, <2>2 DEF Numbered
    <2>3. ASSUME NEW r \in Slots, CommitLink(r) PROVE Once
      <3>1. PICK new : new = [id |-> shared + 1, target |-> work[r].to, usedBy |-> None,
                              over |-> FALSE, guarded |-> work[r].at = "guarded"]
        OBVIOUS
      <3>. QED
        BY <2>2, <2>3, <3>1 DEF CommitLink
    <2>4. ASSUME CreateShareLink PROVE Once
      <3>1. PICK new : new = [id |-> shared + 1, target |-> None, usedBy |-> None,
                              over |-> FALSE, guarded |-> TRUE]
        OBVIOUS
      <3>. QED
        BY <2>2, <2>4, <3>1 DEF CreateShareLink
    <2>5. ASSUME NEW r \in Slots, CommitClaim(r) PROVE Once
      <3> DEFINE used(l) ==
            IF l.id = work[r].row THEN [l EXCEPT !.usedBy = work[r].by] ELSE l
      <3>1. work[r].op = "claim" /\ links' = {used(l) : l \in links}
        BY <2>5 DEF CommitClaim
      <3>2. \A l \in links : used(l).id = l.id
        BY <1>1 DEF RowsInv, IInv, TypeOK, Link
      <3>3. \A l \in links : l.usedBy # None => used(l) = l
        BY <1>1, <3>1 DEF RowsInv, Rows, ClaimsHold
      <3>. HIDE DEF used
      <3>. QED
        BY <2>0, <3>1, <3>2, <3>3 DEF Numbered
    <2>6. ASSUME NEW l \in links, LinkExpires(l) PROVE Once
      <3>1. PICK over : over = [l EXCEPT !.over = TRUE]
        OBVIOUS
      <3>2. over.id = l.id /\ over.usedBy = l.usedBy
        BY <1>1, <3>1 DEF RowsInv, IInv, TypeOK, Link
      <3>3. links' = (links \ {l}) \cup {over}
        BY <2>6, <3>1 DEF LinkExpires
      <3>. QED
        BY <2>0, <3>2, <3>3 DEF Numbered
    <2>7. ASSUME NEW r \in Slots, Serves(r), ~CommitLink(r), ~CommitClaim(r)
          PROVE  links' \subseteq links
      BY <2>7 DEF Serves, AskFriend, Block, Invite, InviteByEmail, AnswerFriend, Claim,
         SeesNoFriendship, SeesNoRequest, SeesNoInvitation, SeesNoLink, GuardUnknown,
         Guard, Fail, CommitRequest, CommitAnswer, CommitBlock, CommitInvite, MailFails,
         Begin, Goes, tables
    <2>8. ASSUME Next, \A r \in Slots : ~Serves(r), ~CreateShareLink,
                 \A l \in links : ~LinkExpires(l)
          PROVE  UNCHANGED links
      BY <2>8 DEF Next, DeleteFriend, Unblock, Register, ExpireInvitation,
         DeleteInvitation, RespondInvitation
    <2>. QED
      BY <1>1, <2>1, <2>3, <2>4, <2>5, <2>6, <2>7, <2>8 DEF vars
  <1>. QED
    BY <1>1, RowsInductive, PTL DEF Spec, LinkUsedOnce
=============================================================================
