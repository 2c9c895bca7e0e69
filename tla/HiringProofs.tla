------------------------- MODULE HiringProofs -------------------------
(***************************************************************************)
(* Machine-checked proofs about what HR does with an applicant, for any     *)
(* number of requests: the invites to an interview, and the applicant's     *)
(* file, status and mails.  Each component has its own part, with its       *)
(* inductive invariant, one lemma for each action, and its theorems.        *)
(***************************************************************************)
EXTENDS InterviewInvite, Hiring, FiniteSetTheorems, SequenceTheorems, TLAPS

-----------------------------------------------------------------------------
(* InterviewInvite.                                                         *)

\* The operations that hold the row lock of an invite between their steps.
Locking == {"redeem", "start", "rejoin"}

\* No two invites for one job description are open: the unique index, and what a request
\* that mints has revoked before it inserts.
AtMostOneNamed ==
    \A i, j \in Invite : /\ invite[i].status \in Active /\ invite[i].job = "named"
                         /\ invite[j].status \in Active /\ invite[j].job = "named"
                         => i = j

\* An invite gets its guest with its first session, and never before it is redeemed.
RowIsBound(i) ==
    /\ invite[i].status \in {"none", "invited"} => invite[i].guest = 0
    /\ (session[i].status # "none") <=> (invite[i].guest # 0)

\* A request that locked a row sees it stand as it read it.
HoldsItsRow(q) ==
    req[q].op \in Locking =>
        \E i \in Invite : /\ req[q].on = {i}
                          /\ req[q].op \in {"redeem", "start"} => invite[i].status = "invited"
                          /\ req[q].op = "rejoin" => invite[i].status = "consumed"

LocksExclude ==
    \A q, r \in Request : /\ req[q].op \in Locking /\ req[r].op \in Locking
                          /\ \E i \in Invite : i \in req[q].on /\ i \in req[r].on
                          => q = r

\* AtMostOneNamed is inductive only with the rows that requests hold under a lock, which
\* must stand until they commit, and these only because two locks exclude each other.
IInv ==
    /\ TypeOK
    /\ AtMostOneNamed
    /\ \A i \in Invite : RowIsBound(i)
    /\ \A q \in Request : HoldsItsRow(q)
    /\ LocksExclude

Dead(i) == invite[i].status \in {"revoked", "completed"}

StaysDead(i) ==
    Dead(i) => /\ invite'[i].status \in {"revoked", "completed"}
               /\ Admitted(i)' \subseteq Admitted(i)
               /\ i \in token' \ token => Admitted(i) # {}

\* Nobody is let in by a dead link: a request that has something to hand over had it
\* before the step, or is let in by links that are open.
AnswersAreOpen ==
    \A s \in Request : req'[s].op = "answer" =>
        \/ req'[s] = req[s]
        \/ \A i \in Invite : i \in req'[s].on => ~Dead(i)

KeepsGuest(i) ==
    /\ invite[i].guest # 0 => invite'[i].guest = invite[i].guest
    /\ session[i].status = "none" /\ session'[i].status # "none"
          => invite'[i].guest \in consent' \/ HadConsent(i)

Good == IInv' /\ \A i \in Invite : StaysDead(i) /\ KeepsGuest(i)

LEMMA Bounds == 0 \in 0..MaxInvites /\ 0 \in 0..MaxNotices /\ \A i \in Invite : i \in 0..MaxInvites /\ i # 0
  BY InvitesAssumption, NoticesAssumption DEF Invite

LEMMA IdleType == Idle \in RequestType /\ Idle.op = "idle"
  BY Bounds DEF Idle, RequestType

LEMMA InitIInv == Init => IInv
  <1> SUFFICES ASSUME Init PROVE IInv
    OBVIOUS
  <1>1. invite \in [Invite -> InviteRow]
    BY Bounds DEF Init, InviteRow, InviteStatus, JobOf
  <1>2. session \in [Invite -> [status : SessionStatus, scored : BOOLEAN]]
    BY DEF Init, SessionStatus
  <1>3. req \in [Request -> RequestType]
    BY IdleType DEF Init
  <1>4. TypeOK
    BY <1>1, <1>2, <1>3, Bounds DEF Init, TypeOK
  <1>5. AtMostOneNamed /\ \A i \in Invite : RowIsBound(i)
    BY DEF Init, AtMostOneNamed, RowIsBound, Active
  <1>6. LocksExclude /\ \A q \in Request : HoldsItsRow(q)
    BY IdleType DEF Init, LocksExclude, HoldsItsRow, Locking
  <1> QED
    BY <1>4, <1>5, <1>6 DEF IInv

LEMMA DeadAdmitNobody ==
  ASSUME AnswersAreOpen, NEW i \in Invite, Dead(i)
  PROVE  Admitted(i)' \subseteq Admitted(i)
  BY DEF AnswersAreOpen, Admitted

\* Requests keep what they hold when nobody else writes the rows they lock.
LEMMA LocksStand ==
  ASSUME IInv,
         \A s \in Request :
            \/ /\ req'[s] = req[s]
               /\ req[s].op \in Locking => \A i \in req[s].on : invite'[i].status = invite[i].status
            \/ req'[s].op \notin Locking
  PROVE  LocksExclude' /\ \A s \in Request : HoldsItsRow(s)'
  <1>1. LocksExclude'
    BY DEF IInv, LocksExclude
  <1>2. ASSUME NEW s \in Request PROVE HoldsItsRow(s)'
    <2>1. CASE req'[s].op \notin Locking
      BY <2>1 DEF HoldsItsRow
    <2>2. CASE req'[s] = req[s] /\ req[s].op \in Locking
      BY <2>2 DEF IInv, HoldsItsRow
    <2> QED
      BY <2>1, <2>2
  <1> QED
    BY <1>1, <1>2

\* What holds when the rows are written by nobody.
LEMMA RowsKept ==
  ASSUME IInv, UNCHANGED invite,
         session' \in [Invite -> [status : SessionStatus, scored : BOOLEAN]],
         \A i \in Invite : (session'[i].status # "none") <=> (session[i].status # "none")
  PROVE  AtMostOneNamed' /\ \A i \in Invite : RowIsBound(i)'
  <1>1. AtMostOneNamed'
    BY DEF IInv, AtMostOneNamed
  <1>2. \A i \in Invite : RowIsBound(i)'
    BY DEF IInv, RowIsBound
  <1> QED
    BY <1>1, <1>2

\* A request that only reads may become anything but a holder of a lock, and is let in
\* by open links only.
LEMMA ReadsKeep ==
  ASSUME IInv, OnlyRequests, NEW r \in Request, NEW q \in RequestType,
         req' = [req EXCEPT ![r] = q], q.op \notin Locking,
         q.op = "answer" => \A i \in Invite : i \in q.on => ~Dead(i)
  PROVE  Good
  <1>1. UNCHANGED <<invite, session, user, consent, token, told>>
    BY DEF OnlyRequests
  <1>2. req'[r] = q /\ \A s \in Request \ {r} : req'[s] = req[s]
    BY DEF IInv, TypeOK
  <1>3. TypeOK'
    BY <1>1 DEF IInv, TypeOK
  <1>4. AtMostOneNamed' /\ \A i \in Invite : RowIsBound(i)'
    BY <1>1, RowsKept DEF IInv, TypeOK
  <1>5. LocksExclude' /\ \A s \in Request : HoldsItsRow(s)'
    BY <1>1, <1>2, LocksStand
  <1>6. AnswersAreOpen
    BY <1>2 DEF AnswersAreOpen
  <1>7. \A i \in Invite : StaysDead(i) /\ KeepsGuest(i)
    BY <1>1, <1>6, DeadAdmitNobody DEF Dead, StaysDead, KeepsGuest
  <1> QED
    BY <1>3, <1>4, <1>5, <1>7 DEF Good, IInv

\* A step that no request makes, and that writes no row.
LEMMA RowsAndRequestsKept ==
  ASSUME IInv, UNCHANGED <<invite, req, user, told>>, token' \subseteq Invite, consent' \subseteq Invite,
         session' \in [Invite -> [status : SessionStatus, scored : BOOLEAN]],
         \A i \in Invite : (session'[i].status # "none") <=> (session[i].status # "none"),
         token' \subseteq token
  PROVE  Good
  <1>1. TypeOK'
    BY DEF IInv, TypeOK
  <1>2. AtMostOneNamed' /\ \A i \in Invite : RowIsBound(i)'
    BY RowsKept
  <1>3. LocksExclude' /\ \A s \in Request : HoldsItsRow(s)'
    BY LocksStand
  <1>4. AnswersAreOpen
    BY DEF AnswersAreOpen
  <1>5. \A i \in Invite : StaysDead(i) /\ KeepsGuest(i)
    BY <1>4, DeadAdmitNobody DEF Dead, StaysDead, KeepsGuest
  <1> QED
    BY <1>1, <1>2, <1>3, <1>5 DEF Good, IInv

LEMMA CreateReadsKeeps == ASSUME IInv, NEW r \in Request, CreateReads(r) PROVE Good
  <1>1. CASE Remember(r, "create", Named)
    <2> DEFINE q == [Idle EXCEPT !.op = "create", !.on = Named]
    <2>1. q \in RequestType /\ q.op = "create"
      BY Bounds DEF Idle, RequestType, Named, ActiveInvites
    <2>2. req' = [req EXCEPT ![r] = q] /\ OnlyRequests
      BY <1>1 DEF Remember, CreateReads
    <2> HIDE DEF q
    <2> QED
      BY <2>1, <2>2, ReadsKeep DEF Locking
  <1>2. CASE Remember(r, "own", {})
    <2> DEFINE q == [Idle EXCEPT !.op = "own", !.on = {}]
    <2>1. q \in RequestType /\ q.op = "own"
      BY Bounds DEF Idle, RequestType
    <2>2. req' = [req EXCEPT ![r] = q] /\ OnlyRequests
      BY <1>2 DEF Remember, CreateReads
    <2> HIDE DEF q
    <2> QED
      BY <2>1, <2>2, ReadsKeep DEF Locking
  <1> QED
    BY <1>1, <1>2 DEF CreateReads

LEMMA AdvanceReadsKeeps == ASSUME IInv, NEW r \in Request, AdvanceReads(r) PROVE Good
  <1> DEFINE q == [Idle EXCEPT !.op = "advance", !.on = {}]
  <1>1. q \in RequestType /\ q.op = "advance"
    BY Bounds DEF Idle, RequestType
  <1>2. req' = [req EXCEPT ![r] = q] /\ OnlyRequests
    BY DEF Remember, AdvanceReads
  <1> HIDE DEF q
  <1> QED
    BY <1>1, <1>2, ReadsKeep DEF Locking

LEMMA ListReadsKeeps == ASSUME IInv, NEW r \in Request, ListReads(r) PROVE Good
  <1> DEFINE q == [Idle EXCEPT !.op = "list", !.on = Completable]
  <1>1. q \in RequestType /\ q.op = "list"
    BY Bounds DEF Idle, RequestType, Completable
  <1>2. req' = [req EXCEPT ![r] = q] /\ OnlyRequests
    BY DEF Remember, ListReads
  <1> HIDE DEF q
  <1> QED
    BY <1>1, <1>2, ReadsKeep DEF Locking

LEMMA AbortKeeps == ASSUME IInv, NEW r \in Request, Abort(r) PROVE Good
  <1>1. req' = [req EXCEPT ![r] = Idle] /\ OnlyRequests
    BY DEF Abort, Reply
  <1> QED
    BY <1>1, IdleType, ReadsKeep DEF Locking

\* A row that is not locked is held by no request.
LEMMA FreeRows ==
  ASSUME NEW i \in Invite, ~Locked(i), NEW s \in Request, req[s].op \in Locking
  PROVE  i \notin req[s].on
  BY DEF Locked, Locking

LEMMA RedeemReadsKeeps == ASSUME IInv, NEW r \in Request, NEW i \in Invite, RedeemReads(r, i) PROVE Good
  <1> DEFINE op == IF invite[i].status = "invited" THEN "redeem" ELSE "rejoin"
             q == [op |-> op, on |-> {i}, user |-> user, granted |-> FALSE]
  <1>1. /\ req[r].op = "idle" /\ ~Locked(i) /\ invite[i].status \in Active
        /\ req' = [req EXCEPT ![r] = q]
        /\ UNCHANGED <<invite, session, user, consent, token, told>>
    BY DEF RedeemReads, Redeemable, OnlyRequests
  <1>2. /\ q \in RequestType /\ q.op \in Locking /\ q.on = {i}
        /\ q.op \in {"redeem", "start"} => invite[i].status = "invited"
        /\ q.op = "rejoin" => invite[i].status = "consumed"
    BY <1>1 DEF IInv, TypeOK, RequestType, Locking, Active
  <1> HIDE DEF op, q
  <1>3. req'[r] = q /\ \A s \in Request \ {r} : req'[s] = req[s]
    BY <1>1 DEF IInv, TypeOK
  <1>4. TypeOK'
    BY <1>1, <1>2 DEF IInv, TypeOK
  <1>5. AtMostOneNamed' /\ \A j \in Invite : RowIsBound(j)'
    BY <1>1, RowsKept DEF IInv, TypeOK
  <1>6. \A s \in Request \ {r} : req[s].op \in Locking => i \notin req[s].on
    BY <1>1, FreeRows
  <1>7. LocksExclude'
    BY <1>2, <1>3, <1>6 DEF IInv, LocksExclude
  <1>8. ASSUME NEW s \in Request PROVE HoldsItsRow(s)'
    BY <1>1, <1>2, <1>3 DEF IInv, HoldsItsRow
  <1>9. AnswersAreOpen
    BY <1>2, <1>3 DEF AnswersAreOpen, Locking
  <1>10. \A j \in Invite : StaysDead(j) /\ KeepsGuest(j)
    BY <1>1, <1>9, DeadAdmitNobody DEF Dead, StaysDead, KeepsGuest
  <1> QED
    BY <1>4, <1>5, <1>7, <1>8, <1>10 DEF Good, IInv

LEMMA ConsentReadsKeeps == ASSUME IInv, NEW r \in Request, ConsentReads(r) PROVE Good
  <1>1. PICK i \in req[r].on :
          /\ req[r].op = "redeem"
          /\ req' = [req EXCEPT ![r].op = "start", ![r].granted = GuestFor(r, i) \in consent]
          /\ UNCHANGED <<invite, session, user, consent, token, told>>
    BY DEF ConsentReads, OnlyRequests
  <1>2. PICK found \in BOOLEAN : found = (GuestFor(r, i) \in consent)
    <2>1. CASE GuestFor(r, i) \in consent
      <3>1. (GuestFor(r, i) \in consent) = TRUE
        BY <2>1
      <3> QED
        BY <3>1
    <2>2. CASE GuestFor(r, i) \notin consent
      <3>1. (GuestFor(r, i) \in consent) = FALSE
        BY <2>2
      <3> QED
        BY <3>1
    <2> QED
      BY <2>1, <2>2
  <1> DEFINE q == [req[r] EXCEPT !.op = "start", !.granted = found]
  <1>3. req' = [req EXCEPT ![r] = q]
    BY <1>1, <1>2 DEF IInv, TypeOK
  <1>4. q \in RequestType /\ q.op = "start" /\ q.on = req[r].on
    BY DEF IInv, TypeOK, RequestType
  <1> HIDE DEF q
  <1>5. req'[r] = q /\ \A s \in Request \ {r} : req'[s] = req[s]
    BY <1>3 DEF IInv, TypeOK
  <1>13. req' \in [Request -> RequestType]
    BY <1>3, <1>4 DEF IInv, TypeOK
  <1>6. TypeOK'
    BY <1>1, <1>13 DEF IInv, TypeOK
  <1>7. AtMostOneNamed' /\ \A j \in Invite : RowIsBound(j)'
    BY <1>1, RowsKept DEF IInv, TypeOK
  <1>8. ASSUME NEW s \in Request, req'[s].op \in Locking
        PROVE  req[s].op \in Locking /\ req'[s].on = req[s].on
    BY <1>1, <1>4, <1>5, <1>8 DEF Locking
  <1>9. LocksExclude'
    <2> SUFFICES ASSUME NEW s \in Request, NEW t \in Request,
                        req'[s].op \in Locking, req'[t].op \in Locking,
                        NEW j \in Invite, j \in req'[s].on, j \in req'[t].on
                 PROVE  s = t
      BY DEF LocksExclude
    <2>1. req[s].op \in Locking /\ req[t].op \in Locking /\ j \in req[s].on /\ j \in req[t].on
      BY <1>8
    <2>2. \E k \in Invite : k \in req[s].on /\ k \in req[t].on
      BY <2>1
    <2>3. LocksExclude
      BY DEF IInv
    <2> QED
      BY <2>1, <2>2, <2>3 DEF LocksExclude
  <1>10. ASSUME NEW s \in Request PROVE HoldsItsRow(s)'
    BY <1>1, <1>4, <1>5 DEF IInv, HoldsItsRow, Locking
  <1>11. AnswersAreOpen
    BY <1>4, <1>5 DEF AnswersAreOpen
  <1>12. \A j \in Invite : StaysDead(j) /\ KeepsGuest(j)
    BY <1>1, <1>11, DeadAdmitNobody DEF Dead, StaysDead, KeepsGuest
  <1> QED
    BY <1>6, <1>7, <1>9, <1>10, <1>12 DEF Good, IInv

\* What a step shows that writes statuses of rows no request holds, and makes no row
\* open that was not, nor binds it.
LEMMA ClosingKeeps ==
  ASSUME IInv, UNCHANGED <<session, user, consent, token>>,
         invite' \in [Invite -> InviteRow], told' \in [Invite -> 0..MaxNotices],
         req' \in [Request -> RequestType],
         \A i \in Invite : \/ invite'[i] = invite[i]
                           \/ /\ invite'[i].status \in {"revoked", "completed"}
                              /\ invite'[i].guest = invite[i].guest,
         \A s \in Request : \/ /\ req'[s] = req[s]
                               /\ req[s].op \in Locking =>
                                    \A i \in req[s].on : invite'[i].status = invite[i].status
                            \/ req'[s].op \notin Locking,
         AnswersAreOpen
  PROVE  Good
  <1>1. TypeOK'
    BY DEF IInv, TypeOK
  <1>2. AtMostOneNamed'
    BY DEF IInv, AtMostOneNamed, Active
  <1>3. \A i \in Invite : RowIsBound(i)'
    BY DEF IInv, RowIsBound
  <1>4. LocksExclude' /\ \A s \in Request : HoldsItsRow(s)'
    BY LocksStand
  <1>5. \A i \in Invite : StaysDead(i) /\ KeepsGuest(i)
    BY DeadAdmitNobody DEF Dead, StaysDead, KeepsGuest
  <1> QED
    BY <1>1, <1>2, <1>3, <1>4, <1>5 DEF Good, IInv

LEMMA RevokeInviteKeeps == ASSUME IInv, NEW i \in Invite, RevokeInvite(i) PROVE Good
  <1>1. /\ ~Locked(i) /\ UNCHANGED <<session, user, consent, token, told, req>>
        /\ invite' = [invite EXCEPT ![i].status = "revoked"]
    BY DEF RevokeInvite
  <1>2. PICK found \in InviteRow : found.status = "revoked" /\ found.guest = invite[i].guest
                                   /\ invite' = [invite EXCEPT ![i] = found]
    <2>1. [invite[i] EXCEPT !.status = "revoked"] \in InviteRow
      BY DEF IInv, TypeOK, InviteRow, InviteStatus
    <2> QED
      BY <1>1, <2>1 DEF IInv, TypeOK, InviteRow
  <1>3. invite' \in [Invite -> InviteRow] /\ invite'[i] = found
        /\ \A j \in Invite \ {i} : invite'[j] = invite[j]
    BY <1>2 DEF IInv, TypeOK
  <1>4. \A s \in Request : req[s].op \in Locking => i \notin req[s].on /\ req[s].on \subseteq Invite
    BY <1>1, FreeRows DEF IInv, TypeOK, RequestType
  <1>5. \A s \in Request : req[s].op \in Locking =>
           \A j \in req[s].on : invite'[j].status = invite[j].status
    BY <1>3, <1>4
  <1>6. AnswersAreOpen
    BY <1>1 DEF AnswersAreOpen
  <1> QED
    BY <1>1, <1>2, <1>3, <1>5, <1>6, ClosingKeeps DEF IInv, TypeOK

LEMMA ListCommitsKeeps == ASSUME IInv, NEW r \in Request, ListCommits(r) PROVE Good
  <1>1. /\ \A i \in req[r].on : ~Locked(i)
        /\ UNCHANGED <<session, user, consent, token>>
        /\ req' = [req EXCEPT ![r] = Idle]
    BY DEF ListCommits, Reply
  <1>2. \A i \in Invite : IF i \in req[r].on
                          THEN invite'[i] = [invite[i] EXCEPT !.status = "completed"]
                          ELSE invite'[i] = invite[i]
    BY DEF ListCommits
  <1>3. ASSUME NEW i \in Invite
        PROVE  /\ [invite[i] EXCEPT !.status = "completed"] \in InviteRow
               /\ [invite[i] EXCEPT !.status = "completed"].status = "completed"
               /\ [invite[i] EXCEPT !.status = "completed"].guest = invite[i].guest
    BY DEF IInv, TypeOK, InviteRow, InviteStatus
  <1>4. invite' \in [Invite -> InviteRow]
    BY <1>3 DEF ListCommits, IInv, TypeOK
  <1>5. \A i \in Invite : \/ invite'[i] = invite[i]
                          \/ /\ invite'[i].status \in {"revoked", "completed"}
                             /\ invite'[i].guest = invite[i].guest
    BY <1>2, <1>3
  <1>6. ASSUME NEW n \in 0..MaxNotices PROVE OneMore(n) \in 0..MaxNotices
    BY NoticesAssumption DEF OneMore
  <1>7. told' \in [Invite -> 0..MaxNotices]
    BY <1>6 DEF ListCommits, IInv, TypeOK
  <1>8. req' \in [Request -> RequestType]
    BY <1>1, IdleType DEF IInv, TypeOK
  <1>9. ASSUME NEW s \in Request
        PROVE  \/ /\ req'[s] = req[s]
                  /\ req[s].op \in Locking => \A i \in req[s].on : invite'[i].status = invite[i].status
               \/ req'[s].op \notin Locking
    <2>1. CASE s = r
      BY <1>1, <2>1, IdleType DEF IInv, TypeOK, Locking
    <2>2. CASE s # r
      <3>1. req'[s] = req[s] /\ req[s].on \subseteq Invite
        BY <1>1, <2>2 DEF IInv, TypeOK, RequestType
      <3>2. ASSUME req[s].op \in Locking, NEW i \in req[s].on PROVE i \notin req[r].on
        BY <1>1, <3>1, <3>2, FreeRows
      <3> QED
        BY <1>2, <3>1, <3>2
    <2> QED
      BY <2>1, <2>2
  <1>10. AnswersAreOpen
    BY <1>1, IdleType DEF AnswersAreOpen, IInv, TypeOK
  <1> QED
    BY <1>1, <1>4, <1>5, <1>7, <1>8, <1>9, <1>10, ClosingKeeps

LEMMA ReconnectKeeps == ASSUME IInv, NEW r \in Request, Reconnect(r) PROVE Good
  <1> DEFINE q == [Idle EXCEPT !.op = "answer", !.on = req[r].on]
  <1>1. req' = [req EXCEPT ![r] = q] /\ OnlyRequests /\ req[r].op = "rejoin"
    BY DEF Reconnect, Answers
  <1>2. q \in RequestType /\ q.op = "answer" /\ q.on = req[r].on
    BY Bounds DEF Idle, IInv, TypeOK, RequestType
  <1>3. \A i \in Invite : i \in req[r].on => ~Dead(i)
    BY <1>1 DEF IInv, HoldsItsRow, Locking, Dead
  <1> HIDE DEF q
  <1> QED
    BY <1>1, <1>2, <1>3, ReadsKeep DEF Locking

LEMMA ResumeKeeps == ASSUME IInv, NEW r \in Request, NEW i \in Invite, Resume(r, i) PROVE Good
  <1> DEFINE q == [Idle EXCEPT !.op = "answer", !.on = {i}]
  <1>1. req' = [req EXCEPT ![r] = q] /\ OnlyRequests /\ invite[i].status = "consumed"
    BY DEF Resume
  <1>2. q \in RequestType /\ q.op = "answer" /\ q.on = {i}
    BY Bounds DEF Idle, RequestType
  <1>3. \A j \in Invite : j \in q.on => ~Dead(j)
    BY <1>1, <1>2 DEF Dead
  <1> HIDE DEF q
  <1> QED
    BY <1>1, <1>2, <1>3, ReadsKeep DEF Locking

LEMMA IssueTokenKeeps == ASSUME IInv, NEW r \in Request, IssueToken(r) PROVE Good
  <1>1. /\ req[r].op = "answer" /\ token' = token \cup req[r].on
        /\ req' = [req EXCEPT ![r] = Idle]
        /\ UNCHANGED <<invite, session, user, consent, told>>
    BY DEF IssueToken, Reply
  <1>2. req'[r] = Idle /\ \A s \in Request \ {r} : req'[s] = req[s]
    BY <1>1 DEF IInv, TypeOK
  <1>3. token' \subseteq Invite /\ req' \in [Request -> RequestType]
    BY <1>1, IdleType DEF IInv, TypeOK, RequestType
  <1>4. TypeOK'
    BY <1>1, <1>3 DEF IInv, TypeOK
  <1>5. AtMostOneNamed' /\ \A j \in Invite : RowIsBound(j)'
    BY <1>1, RowsKept DEF IInv, TypeOK
  <1>6. LocksExclude' /\ \A s \in Request : HoldsItsRow(s)'
    BY <1>1, <1>2, IdleType, LocksStand DEF Locking
  <1>7. AnswersAreOpen
    BY <1>2, IdleType DEF AnswersAreOpen
  <1>8. ASSUME NEW i \in Invite, i \in token' \ token PROVE Admitted(i) # {}
    BY <1>1, <1>8 DEF Admitted
  <1>9. \A j \in Invite : StaysDead(j) /\ KeepsGuest(j)
    BY <1>1, <1>7, <1>8, DeadAdmitNobody DEF Dead, StaysDead, KeepsGuest
  <1> QED
    BY <1>4, <1>5, <1>6, <1>9 DEF Good, IInv

LEMMA InterviewKeeps == ASSUME IInv, NEW i \in Invite, Interview(i) PROVE Good
  <1> DEFINE S == [status : SessionStatus, scored : BOOLEAN]
  <1>1. UNCHANGED <<invite, user, consent, token, told, req>>
    BY DEF Interview, EnterRoom, InterviewEnds, Scored
  <1>2. session \in [Invite -> S] /\ session[i] \in S
    BY DEF IInv, TypeOK
  <1>3. PICK x \in S : session' = [session EXCEPT ![i] = x] /\ (x.status # "none" /\ session[i].status # "none")
    <2>1. CASE EnterRoom(i)
      <3>1. [session[i] EXCEPT !.status = "in_progress"] \in S
        BY <1>2 DEF SessionStatus
      <3> QED
        BY <1>2, <2>1, <3>1 DEF EnterRoom
    <2>2. CASE InterviewEnds(i)
      <3>1. PICK s \in {"completed", "abandoned"} : session' = [session EXCEPT ![i].status = s]
        BY <2>2 DEF InterviewEnds
      <3>2. [session[i] EXCEPT !.status = s] \in S
        BY <1>2 DEF SessionStatus
      <3> QED
        BY <1>2, <2>2, <3>1, <3>2 DEF InterviewEnds
    <2>3. CASE Scored(i)
      <3>1. [session[i] EXCEPT !.scored = TRUE] \in S
        BY <1>2
      <3> QED
        BY <1>2, <2>3, <3>1 DEF Scored
    <2> QED
      BY <2>1, <2>2, <2>3 DEF Interview
  <1>4. session' \in [Invite -> S] /\ session'[i] = x /\ \A j \in Invite \ {i} : session'[j] = session[j]
    BY <1>2, <1>3
  <1>5. \A j \in Invite : (session'[j].status # "none") <=> (session[j].status # "none")
    BY <1>3, <1>4
  <1> QED
    BY <1>1, <1>4, <1>5, RowsAndRequestsKept DEF IInv, TypeOK

LEMMA WithdrawConsentKeeps == ASSUME IInv, NEW g \in Invite, WithdrawConsent(g) PROVE Good
  <1>1. /\ consent' = consent \ {g} /\ UNCHANGED <<invite, session, user, token, told, req>>
    BY DEF WithdrawConsent
  <1> QED
    BY <1>1, RowsAndRequestsKept DEF IInv, TypeOK

LEMMA TokenEndsKeeps == ASSUME IInv, NEW i \in Invite, TokenEnds(i) PROVE Good
  <1>1. /\ token' = token \ {i} /\ UNCHANGED <<invite, session, user, consent, told, req>>
    BY DEF TokenEnds
  <1> QED
    BY <1>1, RowsAndRequestsKept DEF IInv, TypeOK

\* The rows that a rotation leaves: those of the request are revoked, no other is written.
LEMMA RotatedRows ==
  ASSUME IInv, NEW r \in Request
  PROVE  /\ Rotated(r) \in [Invite -> InviteRow]
         /\ \A i \in Invite : /\ Rotated(r)[i].guest = invite[i].guest
                              /\ Rotated(r)[i].job = invite[i].job
                              /\ IF i \in req[r].on THEN Rotated(r)[i].status = "revoked"
                                                    ELSE Rotated(r)[i] = invite[i]
  <1>1. ASSUME NEW i \in Invite
        PROVE  /\ [invite[i] EXCEPT !.status = "revoked"] \in InviteRow
               /\ [invite[i] EXCEPT !.status = "revoked"].status = "revoked"
               /\ [invite[i] EXCEPT !.status = "revoked"].guest = invite[i].guest
               /\ [invite[i] EXCEPT !.status = "revoked"].job = invite[i].job
               /\ invite[i] \in InviteRow
    BY DEF IInv, TypeOK, InviteRow, InviteStatus
  <1> QED
    BY <1>1 DEF Rotated

LEMMA MintCommitsKeeps == ASSUME IInv, NEW r \in Request, MintCommits(r) PROVE Good
  <1>1. /\ req[r].op \in {"create", "own", "advance"}
        /\ \A i \in req[r].on : ~Locked(i)
        /\ req' = [req EXCEPT ![r] = Idle]
        /\ UNCHANGED <<session, user, consent, token, told>>
    BY DEF MintCommits, Reply
  <1>2. req'[r] = Idle /\ req' \in [Request -> RequestType]
        /\ \A s \in Request \ {r} : req'[s] = req[s]
    BY <1>1, IdleType DEF IInv, TypeOK
  <1>3. CASE UNCHANGED invite
    BY <1>1, <1>2, <1>3, IdleType, ReadsKeep DEF OnlyRequests, Locking
  <1>4. ASSUME NEW i \in Invite, Insertable(Rotated(r), JobFor(req[r].op)), Unused(i),
               invite' = [Rotated(r) EXCEPT
                  ![i] = [status |-> "invited", job |-> JobFor(req[r].op), guest |-> 0]]
        PROVE  Good
    <2>1. PICK found \in InviteRow : /\ found.status = "invited" /\ found.guest = 0
                                     /\ found.job = JobFor(req[r].op)
                                     /\ invite' = [Rotated(r) EXCEPT ![i] = found]
      BY <1>4, Bounds DEF InviteRow, InviteStatus, Active, JobOf, JobFor
    <2>2. /\ invite' \in [Invite -> InviteRow] /\ invite'[i] = found
          /\ \A j \in Invite \ {i} : invite'[j] = Rotated(r)[j]
      BY <2>1, RotatedRows
    <2>3. invite[i].status = "none" /\ invite[i].guest = 0 /\ session[i].status = "none"
      BY <1>4 DEF Unused, IInv, RowIsBound
    <2>4. \A j \in Invite \ {i} :
             /\ invite'[j].guest = invite[j].guest /\ invite'[j].job = invite[j].job
             /\ IF j \in req[r].on THEN invite'[j].status = "revoked"
                                   ELSE invite'[j] = invite[j]
      BY <2>2, RotatedRows
    <2>5. TypeOK'
      BY <1>1, <1>2, <2>2 DEF IInv, TypeOK
    <2>6. AtMostOneNamed'
      <3>1. found.job = "named" => \A j \in Invite \ {i} :
               ~(invite'[j].status \in Active /\ invite'[j].job = "named")
        BY <1>4, <2>1, <2>2 DEF Insertable
      <3>2. \A j \in Invite \ {i} : invite'[j].status \in Active =>
               invite[j].status \in Active /\ invite'[j].job = invite[j].job
        BY <2>4 DEF Active
      <3> QED
        BY <2>2, <3>1, <3>2 DEF IInv, AtMostOneNamed
    <2>7. ASSUME NEW j \in Invite PROVE RowIsBound(j)'
      <3>1. CASE j = i
        BY <1>1, <2>1, <2>2, <2>3, <3>1 DEF RowIsBound
      <3>2. CASE j # i
        BY <1>1, <2>4, <3>2 DEF IInv, RowIsBound
      <3> QED
        BY <3>1, <3>2
    <2>8. ASSUME NEW s \in Request
          PROVE  \/ /\ req'[s] = req[s]
                    /\ req[s].op \in Locking => \A j \in req[s].on : invite'[j].status = invite[j].status
                 \/ req'[s].op \notin Locking
      <3>1. CASE s = r
        BY <1>2, <3>1, IdleType DEF Locking
      <3>2. CASE s # r
        <4>1. req'[s] = req[s] /\ req[s].on \subseteq Invite
          BY <1>2, <3>2 DEF IInv, TypeOK, RequestType
        <4>2. ASSUME req[s].op \in Locking, NEW j \in req[s].on
              PROVE  invite'[j].status = invite[j].status
          <5>1. j # i
            BY <2>3, <4>2 DEF IInv, HoldsItsRow, Locking
          <5>2. j \notin req[r].on
            BY <1>1, <4>1, <4>2, FreeRows
          <5> QED
            BY <2>4, <4>1, <4>2, <5>1, <5>2
        <4> QED
          BY <4>1, <4>2
      <3> QED
        BY <3>1, <3>2
    <2>9. LocksExclude' /\ \A s \in Request : HoldsItsRow(s)'
      BY <2>8, LocksStand
    <2>11. AnswersAreOpen
      BY <1>2, IdleType DEF AnswersAreOpen
    <2>10. ASSUME NEW j \in Invite PROVE StaysDead(j) /\ KeepsGuest(j)
      <3>1. CASE j = i
        BY <1>1, <2>3, <3>1 DEF StaysDead, KeepsGuest, Dead
      <3>2. CASE j # i
        BY <1>1, <2>4, <2>11, <3>2, DeadAdmitNobody DEF StaysDead, KeepsGuest, Dead
      <3> QED
        BY <3>1, <3>2
    <2> QED
      BY <2>5, <2>6, <2>7, <2>9, <2>10 DEF Good, IInv
  <1> QED
    BY <1>3, <1>4 DEF MintCommits

LEMMA FirstStartKeeps == ASSUME IInv, NEW r \in Request, FirstStart(r) PROVE Good
  <1>1. PICK i \in req[r].on :
          /\ req[r].op = "start"
          /\ invite' = [invite EXCEPT ![i].status = "consumed", ![i].guest = GuestFor(r, i)]
          /\ user' = GuestFor(r, i)
          /\ consent' = IF req[r].granted THEN consent ELSE consent \cup {GuestFor(r, i)}
          /\ session' = [session EXCEPT ![i].status = "created"]
          /\ Answers(r)
          /\ UNCHANGED <<token, told>>
    BY DEF FirstStart
  <1>2. i \in Invite /\ req[r].on = {i} /\ invite[i].status = "invited"
    BY <1>1 DEF IInv, HoldsItsRow, Locking
  <1>3. PICK g \in Invite : g = GuestFor(r, i)
    BY <1>2 DEF GuestFor, IInv, TypeOK, RequestType, Invite
  <1>4. invite[i].guest = 0 /\ session[i].status = "none" /\ g # 0
    BY <1>2, Bounds DEF IInv, RowIsBound
  <1>5. PICK found \in InviteRow : /\ found.status = "consumed" /\ found.guest = g /\ found.job = invite[i].job
                                   /\ invite' = [invite EXCEPT ![i] = found]
    <2>1. [invite[i] EXCEPT !.status = "consumed", !.guest = g] \in InviteRow
      BY <1>2, Bounds DEF IInv, TypeOK, InviteRow, InviteStatus, Active
    <2> QED
      BY <1>1, <1>2, <1>3, <2>1 DEF IInv, TypeOK, InviteRow
  <1>6. invite' \in [Invite -> InviteRow] /\ invite'[i] = found
        /\ \A j \in Invite \ {i} : invite'[j] = invite[j]
    BY <1>2, <1>5 DEF IInv, TypeOK
  <1> DEFINE S == [status : SessionStatus, scored : BOOLEAN]
  <1>7. PICK x \in S : x.status = "created" /\ session' = [session EXCEPT ![i] = x]
    <2>1. [session[i] EXCEPT !.status = "created"] \in S
      BY <1>2 DEF IInv, TypeOK, SessionStatus
    <2> QED
      BY <1>1, <1>2, <2>1 DEF IInv, TypeOK
  <1>8. session' \in [Invite -> S] /\ session'[i] = x
        /\ \A j \in Invite \ {i} : session'[j] = session[j]
    BY <1>2, <1>7 DEF IInv, TypeOK
  <1>9. /\ user' \in 0..MaxInvites /\ consent' \subseteq Invite /\ token' \subseteq Invite
        /\ g \in consent' \/ HadConsent(i)
    BY <1>1, <1>2, <1>3, Bounds DEF IInv, TypeOK, HadConsent
  <1> DEFINE q == [Idle EXCEPT !.op = "answer", !.on = req[r].on]
  <1>16. q \in RequestType /\ q.op = "answer" /\ q.on = req[r].on
    BY Bounds DEF Idle, IInv, TypeOK, RequestType
  <1>17. req' = [req EXCEPT ![r] = q]
    BY <1>1 DEF Answers
  <1> HIDE DEF q
  <1>10. /\ req' \in [Request -> RequestType] /\ req'[r] = q
         /\ \A s \in Request \ {r} : req'[s] = req[s]
    BY <1>16, <1>17 DEF IInv, TypeOK
  <1>18. AnswersAreOpen
    BY <1>2, <1>10, <1>16 DEF AnswersAreOpen, Dead
  <1>11. TypeOK'
    BY <1>1, <1>6, <1>8, <1>9, <1>10 DEF IInv, TypeOK
  <1>12. AtMostOneNamed'
    <2>1. \A j \in Invite : /\ invite'[j].status \in Active <=> invite[j].status \in Active
                            /\ invite'[j].job = invite[j].job
      BY <1>2, <1>5, <1>6 DEF Active
    <2> QED
      BY <2>1 DEF IInv, AtMostOneNamed
  <1>13. ASSUME NEW j \in Invite PROVE RowIsBound(j)' /\ StaysDead(j) /\ KeepsGuest(j)
    <2>1. CASE j = i
      BY <1>2, <1>4, <1>5, <1>6, <1>7, <1>8, <1>9, <2>1 DEF RowIsBound, StaysDead, KeepsGuest, Dead
    <2>2. CASE j # i
      BY <1>1, <1>6, <1>8, <1>18, <2>2, DeadAdmitNobody
         DEF IInv, RowIsBound, StaysDead, KeepsGuest, Dead
    <2> QED
      BY <2>1, <2>2
  <1>14. ASSUME NEW s \in Request
         PROVE  \/ /\ req'[s] = req[s]
                   /\ req[s].op \in Locking => \A j \in req[s].on : invite'[j].status = invite[j].status
                \/ req'[s].op \notin Locking
    <2>1. CASE s = r
      BY <1>10, <1>16, <2>1 DEF Locking
    <2>2. CASE s # r
      <3>1. req[s].op \in Locking => i \notin req[s].on /\ req[s].on \subseteq Invite
        BY <1>1, <1>2, <2>2 DEF IInv, LocksExclude, Locking, TypeOK, RequestType
      <3> QED
        BY <1>6, <1>10, <2>2, <3>1
    <2> QED
      BY <2>1, <2>2
  <1>15. LocksExclude' /\ \A s \in Request : HoldsItsRow(s)'
    BY <1>14, LocksStand
  <1> QED
    BY <1>11, <1>12, <1>13, <1>15 DEF Good, IInv

LEMMA StepIInv == IInv /\ [Next]_vars => Good
  <1> SUFFICES ASSUME IInv, [Next]_vars PROVE Good
    OBVIOUS
  <1>1. CASE UNCHANGED vars
    <2>1. UNCHANGED <<invite, session, user, consent, token, told, req>>
      BY <1>1 DEF vars
    <2> QED
      BY <2>1, RowsAndRequestsKept DEF IInv, TypeOK
  <1>2. ASSUME NEW r \in Request, Hr(r) PROVE Good
    BY <1>2, CreateReadsKeeps, AdvanceReadsKeeps, MintCommitsKeeps, ListReadsKeeps, ListCommitsKeeps
       DEF Hr
  <1>3. ASSUME NEW r \in Request, Guest(r) PROVE Good
    BY <1>3, RedeemReadsKeeps, ResumeKeeps, ConsentReadsKeeps, FirstStartKeeps, ReconnectKeeps,
       IssueTokenKeeps DEF Guest
  <1>4. ASSUME NEW r \in Request, Abort(r) PROVE Good
    BY <1>4, AbortKeeps
  <1>5. ASSUME NEW i \in Invite, RevokeInvite(i) PROVE Good
    BY <1>5, RevokeInviteKeeps
  <1>6. ASSUME NEW i \in Invite, Interview(i) \/ TokenEnds(i) \/ WithdrawConsent(i) PROVE Good
    BY <1>6, InterviewKeeps, TokenEndsKeeps, WithdrawConsentKeeps
  <1> QED
    BY <1>1, <1>2, <1>3, <1>4, <1>5, <1>6 DEF Next

LEMMA SpecIInv == Spec => []IInv
  <1>1. Good => IInv'
    BY DEF Good
  <1> QED
    BY <1>1, InitIInv, StepIInv, PTL DEF Spec

\* Invites, sessions, tokens and requests keep their types.
THEOREM InviteTypeCorrect == Spec => []TypeOK
  <1>1. IInv => TypeOK
    BY DEF IInv
  <1> QED
    BY <1>1, SpecIInv, PTL

\* A set whose members are all equal has at most one.
LEMMA AtMostOneMember ==
  ASSUME NEW S, \A x, y \in S : x = y PROVE Cardinality(S) <= 1
  <1>1. CASE S = {}
    BY <1>1, FS_EmptySet
  <1>2. ASSUME NEW x \in S PROVE Cardinality(S) <= 1
    <2>1. S = {x}
      OBVIOUS
    <2> QED
      BY <2>1, FS_Singleton
  <1> QED
    BY <1>1, <1>2

\* HR's own invite and the auto-advance never leave two open invites for one job.
THEOREM OneOpenInvitePerJobHolds == Spec => []OneOpenInvitePerJob
  <1>1. IInv => OneOpenInvitePerJob
    <2> SUFFICES ASSUME IInv PROVE OneOpenInvitePerJob
      OBVIOUS
    <2>1. \A i, j \in Named : i = j
      BY DEF IInv, AtMostOneNamed, Named, ActiveInvites
    <2>2. Cardinality(Named) <= 1
      BY <2>1, AtMostOneMember
    <2> QED
      BY <2>2 DEF OneOpenInvitePerJob, IInv, RowIsBound
  <1> QED
    BY <1>1, SpecIInv, PTL

\* No commit of a request that read an invite earlier revives a revoked or completed one,
\* nobody is let in by it any more, and the only tokens it still gives are those of
\* requests whose commit came before its end.
THEOREM DeadLinksStayDeadHolds == Spec => DeadLinksStayDead
  <1>1. Good => \A i \in Invite : invite[i].status \in {"revoked", "completed"} =>
                   /\ invite'[i].status \in {"revoked", "completed"}
                   /\ Admitted(i)' \subseteq Admitted(i)
                   /\ i \in token' \ token => Admitted(i) # {}
    BY DEF Good, StaysDead, Dead
  <1> QED
    BY <1>1, SpecIInv, StepIInv, PTL DEF Spec, DeadLinksStayDead

\* A link stays bound to the guest of its first redeem, and no session begins without a
\* consent of the guest, on record or withdrawn since the redeem read it, whichever
\* redeems and resumes race.
THEOREM GuestKeepsSessionHolds == Spec => GuestKeepsSession
  <1>1. Good => \A i \in Invite :
                   /\ invite[i].guest # 0 => invite'[i].guest = invite[i].guest
                   /\ session[i].status = "none" /\ session'[i].status # "none"
                         => invite'[i].guest \in consent' \/ HadConsent(i)
    BY DEF Good, KeepsGuest
  <1> QED
    BY <1>1, SpecIInv, StepIInv, PTL DEF Spec, GuestKeepsSession

-----------------------------------------------------------------------------
(* Hiring.                                                                  *)

Op == {"none", "create", "bulk", "rescore", "reindex", "patch", "decide"}
Pc == {"idle", "prescore", "insert", "score", "embed", "write"}
Task == [pc : Pc, op : Op, loaded : Status, to : Status, score : BOOLEAN]
Entry == [decision : Decision, previous : Status]

RowIsTyped ==
    /\ file \in BOOLEAN /\ row \in BOOLEAN /\ scored \in BOOLEAN
    /\ embedded \in BOOLEAN /\ carded \in BOOLEAN
    /\ status \in Status
    /\ scored => row
    /\ embedded => row
    /\ mails # <<>> => row
    /\ audits # <<>> => row
    /\ mails \in Seq(Mailed) /\ audits \in Seq(Entry)
    /\ answered \in {"nothing", "created", "failed"}
    /\ served \in 0..MaxRequests

Uploading(q) == q.pc \in {"prescore", "insert"}

\* A request past its first step is about a row that exists or, uploading it, about one
\* that does not yet and whose file is there.
RequestIsSound(q) ==
    /\ q \in Task
    /\ q.op = "none" <=> q.pc = "idle"
    /\ q.pc \in {"score", "embed", "write"} => row
    /\ q.op = "decide" => q.to \in Decision
    /\ Uploading(q) => file /\ ~row

\* No other upload has begun while one is in flight.
OneUpload == \A q, r \in HrRequest : Uploading(task[q]) /\ Uploading(task[r]) => q = r

HiringIInv ==
    /\ RowIsTyped
    /\ task \in [HrRequest -> Task]
    /\ \A r \in HrRequest : RequestIsSound(task[r])
    /\ OneUpload
    /\ LastMailStands /\ ApplicantHasFile

LEMMA HiringInitIInv == HiringInit => HiringIInv
  <1> SUFFICES ASSUME HiringInit PROVE HiringIInv
    OBVIOUS
  <1>1. NoTask \in Task
    BY DEF NoTask, Task, Pc, Op, Status
  <1>2. task \in [HrRequest -> Task] /\ \A r \in HrRequest : RequestIsSound(task[r])
    BY <1>1 DEF HiringInit, RequestIsSound, Uploading, NoTask
  <1>3. OneUpload
    BY DEF HiringInit, OneUpload, Uploading, NoTask
  <1>4. 0 \in 0..MaxRequests
    BY BoundAssumption
  <1>5. <<>> \in Seq(Mailed) /\ <<>> \in Seq(Entry)
    OBVIOUS
  <1>6. /\ file = FALSE /\ row = FALSE /\ scored = FALSE /\ embedded = FALSE
        /\ carded = FALSE /\ status \in Status /\ mails = <<>> /\ audits = <<>>
        /\ answered = "nothing" /\ served = 0
    BY DEF HiringInit, Status
  <1>7. RowIsTyped
    BY <1>4, <1>5, <1>6 DEF RowIsTyped
  <1> QED
    BY <1>2, <1>3, <1>7 DEF HiringInit, HiringIInv, LastMailStands, ApplicantHasFile, Mailed

LEMMA TypedIsTypeOK == HiringIInv => HiringTypeOK
  <1> SUFFICES ASSUME HiringIInv PROVE HiringTypeOK
    OBVIOUS
  <1>1. {file, row, scored, embedded, carded} \subseteq BOOLEAN
    BY DEF HiringIInv, RowIsTyped
  <1>2. (scored \/ embedded \/ mails # <<>> \/ audits # <<>>) => row
    BY DEF HiringIInv, RowIsTyped
  <1>3. \A i \in DOMAIN audits : audits[i] \in Entry
    BY DEF HiringIInv, RowIsTyped
  <1>4. \A r \in HrRequest : /\ task[r].loaded \in Status /\ task[r].to \in Status
                             /\ task[r].pc # "idle" => task[r].op # "none"
    BY DEF HiringIInv, RequestIsSound, Task
  <1> QED
    BY <1>1, <1>2, <1>3, <1>4 DEF HiringIInv, RowIsTyped, HiringTypeOK, Entry

LEMMA ScoreIsBoolean == InternalScoreResume \subseteq BOOLEAN
  BY DEF InternalScoreResume, ScoreResume

\* Appending keeps a sequence over its set, and is the last of what it makes.
LEMMA Appended ==
  ASSUME NEW S, NEW s \in Seq(S), NEW e \in S
  PROVE  Append(s, e) \in Seq(S) /\ Append(s, e) # <<>> /\ Last(Append(s, e)) = e
  BY DEF Last

\* A step of one request preserves the invariant when it preserves what is said of that
\* request and of the row, and when a row that appears is the request's own upload.
LEMMA RequestSteps ==
  ASSUME HiringIInv, NEW r \in HrRequest, NEW q \in Task, task' = [task EXCEPT ![r] = q],
         RowIsTyped', (RequestIsSound(task[r]))', LastMailStands', ApplicantHasFile',
         row => row',
         \/ Uploading(task[r])
         \/ UNCHANGED <<file, row>> /\ ~Uploading(q)
         \/ ~file /\ ~row
  PROVE  HiringIInv'
  <1>1. task'[r] = q /\ \A i \in HrRequest \ {r} : task'[i] = task[i]
    BY DEF HiringIInv
  <1>2. task' \in [HrRequest -> Task]
    BY DEF HiringIInv
  <1>3. \A i \in HrRequest \ {r} : Uploading(task[i]) => ~Uploading(task[r]) /\ file /\ ~row
    BY DEF HiringIInv, OneUpload, RequestIsSound
  <1>4. \A i \in HrRequest \ {r} : Uploading(task[i]) => file' /\ ~row'
    BY <1>3
  <1>5. ASSUME NEW i \in HrRequest \ {r} PROVE (RequestIsSound(task[i]))'
    BY <1>1, <1>4 DEF HiringIInv, RequestIsSound
  <1>6. \A i \in HrRequest : (RequestIsSound(task[i]))'
    BY <1>5
  <1>7. OneUpload'
    BY <1>1, <1>3 DEF HiringIInv, OneUpload
  <1> QED
    BY <1>2, <1>6, <1>7 DEF HiringIInv

\* What a step says that leaves the row's own fields alone.
LEMMA RowKept ==
  ASSUME HiringIInv, UNCHANGED <<hiring, carded>>, file' \in BOOLEAN, row' \in BOOLEAN,
         scored' \in BOOLEAN, embedded' \in BOOLEAN, row => row', row' => file',
         scored' => row', embedded' => row',
         answered' \in {"nothing", "created", "failed"}, served' \in 0..MaxRequests
  PROVE  RowIsTyped' /\ LastMailStands' /\ ApplicantHasFile'
  <1>1. RowIsTyped'
    BY DEF HiringIInv, RowIsTyped, hiring
  <1> QED
    BY <1>1 DEF HiringIInv, LastMailStands, ApplicantHasFile, hiring

\* A request that starts is the one of its caller, and is counted.
LEMMA Started ==
  ASSUME HiringIInv, NEW r \in HrRequest, NEW q \in Task, Starts(r, q)
  PROVE  /\ task[r] = NoTask /\ ~Uploading(task[r])
         /\ task' = [task EXCEPT ![r] = q] /\ task'[r] = q
         /\ served' \in 0..MaxRequests
  <1>1. served + 1 \in 0..MaxRequests
    BY BoundAssumption DEF Starts, HiringIInv, RowIsTyped
  <1> QED
    BY <1>1 DEF Starts, HiringIInv, Uploading, NoTask

LEMMA CreatePutsKeeps == ASSUME HiringIInv, NEW r \in HrRequest, CreatePuts(r) PROVE HiringIInv'
  <1> DEFINE q == [NoTask EXCEPT !.op = "create", !.pc = "insert"]
  <1>1. q \in Task /\ q.pc = "insert" /\ q.op = "create"
    BY DEF NoTask, Task, Pc, Op, Status
  <1>2. Starts(r, q)
    BY DEF CreatePuts, UploadPuts
  <1>3. /\ ~file /\ ~row /\ file' = TRUE
        /\ UNCHANGED <<row, hiring, scored, embedded, carded, answered>>
    BY DEF CreatePuts, UploadPuts
  <1> HIDE DEF q
  <1>4. /\ task' = [task EXCEPT ![r] = q] /\ task'[r] = q
        /\ served' \in 0..MaxRequests
    BY <1>1, <1>2, Started
  <1>5. RowIsTyped' /\ LastMailStands' /\ ApplicantHasFile'
    BY <1>3, <1>4, RowKept DEF HiringIInv, RowIsTyped
  <1>6. (RequestIsSound(task[r]))'
    BY <1>1, <1>3, <1>4 DEF RequestIsSound, Uploading
  <1> QED
    BY <1>1, <1>3, <1>4, <1>5, <1>6, RequestSteps

LEMMA BulkPutsKeeps == ASSUME HiringIInv, NEW r \in HrRequest, BulkPuts(r) PROVE HiringIInv'
  <1> DEFINE q == [NoTask EXCEPT !.op = "bulk", !.pc = "prescore"]
  <1>1. q \in Task /\ q.pc = "prescore" /\ q.op = "bulk"
    BY DEF NoTask, Task, Pc, Op, Status
  <1>2. Starts(r, q)
    BY DEF BulkPuts, UploadPuts
  <1>3. /\ ~file /\ ~row /\ file' = TRUE
        /\ UNCHANGED <<row, hiring, scored, embedded, carded, answered>>
    BY DEF BulkPuts, UploadPuts
  <1> HIDE DEF q
  <1>4. /\ task' = [task EXCEPT ![r] = q] /\ task'[r] = q
        /\ served' \in 0..MaxRequests
    BY <1>1, <1>2, Started
  <1>5. RowIsTyped' /\ LastMailStands' /\ ApplicantHasFile'
    BY <1>3, <1>4, RowKept DEF HiringIInv, RowIsTyped
  <1>6. (RequestIsSound(task[r]))'
    BY <1>1, <1>3, <1>4 DEF RequestIsSound, Uploading
  <1> QED
    BY <1>1, <1>3, <1>4, <1>5, <1>6, RequestSteps

\* A request that starts on a row that exists touches nothing else.
LEMMA RowRequestStarts ==
  ASSUME HiringIInv, NEW r \in HrRequest, NEW q \in Task, Starts(r, q), row,
         q.op # "none", q.pc \in {"score", "embed", "write"},
         q.op = "decide" => q.to \in Decision,
         UNCHANGED <<file, row, hiring, scored, embedded, carded, answered>>
  PROVE  HiringIInv'
  <1>1. /\ task' = [task EXCEPT ![r] = q] /\ task'[r] = q
        /\ served' \in 0..MaxRequests
    BY Started
  <1>2. RowIsTyped' /\ LastMailStands' /\ ApplicantHasFile'
    BY <1>1, RowKept DEF HiringIInv, RowIsTyped, ApplicantHasFile
  <1>3. ~Uploading(q)
    BY DEF Uploading
  <1>4. (RequestIsSound(task[r]))'
    BY <1>1, <1>3 DEF RequestIsSound, Uploading
  <1> QED
    BY <1>1, <1>2, <1>3, <1>4, RequestSteps

LEMMA RescoreReadsKeeps == ASSUME HiringIInv, NEW r \in HrRequest, RescoreReads(r) PROVE HiringIInv'
  <1> DEFINE q == [NoTask EXCEPT !.op = "rescore", !.pc = "score"]
  <1>1. q \in Task /\ q.pc = "score" /\ q.op = "rescore"
    BY DEF NoTask, Task, Pc, Op, Status
  <1>2. /\ Starts(r, q) /\ row
        /\ UNCHANGED <<file, row, hiring, scored, embedded, carded, answered>>
    BY DEF RescoreReads
  <1> HIDE DEF q
  <1> QED
    BY <1>1, <1>2, RowRequestStarts

LEMMA ReindexReadsKeeps == ASSUME HiringIInv, NEW r \in HrRequest, ReindexReads(r) PROVE HiringIInv'
  <1> DEFINE q == [NoTask EXCEPT !.op = "reindex", !.pc = "embed"]
  <1>1. q \in Task /\ q.pc = "embed" /\ q.op = "reindex"
    BY DEF NoTask, Task, Pc, Op, Status
  <1>2. /\ Starts(r, q) /\ row
        /\ UNCHANGED <<file, row, hiring, scored, embedded, carded, answered>>
    BY DEF ReindexReads
  <1> HIDE DEF q
  <1> QED
    BY <1>1, <1>2, RowRequestStarts

LEMMA PatchReadsKeeps ==
  ASSUME HiringIInv, NEW r \in HrRequest, NEW to, PatchReads(r, to) PROVE HiringIInv'
  <1> DEFINE q == [NoTask EXCEPT !.op = "patch", !.pc = "write", !.loaded = status, !.to = to]
  <1>1. status \in Status /\ to \in Status
    BY DEF HiringIInv, RowIsTyped, PatchReads, Valid
  <1>2. q \in Task /\ q.pc = "write" /\ q.op = "patch"
    BY <1>1 DEF NoTask, Task, Pc, Op
  <1>3. /\ Starts(r, q) /\ row
        /\ UNCHANGED <<file, row, hiring, scored, embedded, carded, answered>>
    BY DEF PatchReads
  <1> HIDE DEF q
  <1> QED
    BY <1>2, <1>3, RowRequestStarts

LEMMA DecideReadsKeeps ==
  ASSUME HiringIInv, NEW r \in HrRequest, NEW to \in Decision, DecideReads(r, to) PROVE HiringIInv'
  <1> DEFINE q == [NoTask EXCEPT !.op = "decide", !.pc = "write", !.loaded = status, !.to = to]
  <1>1. status \in Status /\ to \in Status
    BY DEF HiringIInv, RowIsTyped, Decision, Status
  <1>2. q \in Task /\ q.pc = "write" /\ q.op = "decide" /\ q.to = to
    BY <1>1 DEF NoTask, Task, Pc, Op
  <1>3. /\ Starts(r, q) /\ row
        /\ UNCHANGED <<file, row, hiring, scored, embedded, carded, answered>>
    BY DEF DecideReads
  <1> HIDE DEF q
  <1> QED
    BY <1>2, <1>3, RowRequestStarts

\* A request that ends leaves an idle place, whatever it did last to the row.
LEMMA RequestEnds ==
  ASSUME HiringIInv, NEW r \in HrRequest, Ends(r), RowIsTyped', LastMailStands', ApplicantHasFile',
         row => row', Uploading(task[r]) \/ UNCHANGED <<file, row>>
  PROVE  HiringIInv'
  <1>1. NoTask \in Task /\ NoTask.pc = "idle" /\ NoTask.op = "none"
    BY DEF NoTask, Task, Pc, Op, Status
  <1>2. ~Uploading(NoTask)
    BY DEF Uploading, NoTask
  <1>3. task' = [task EXCEPT ![r] = NoTask] /\ task'[r] = NoTask
    BY DEF HiringIInv, Ends
  <1>4. (RequestIsSound(task[r]))'
    BY <1>1, <1>2, <1>3 DEF RequestIsSound, Uploading
  <1> QED
    BY <1>1, <1>2, <1>3, <1>4, RequestSteps

\* A request that goes on changes its step, and its score when the scorer has answered.
LEMMA RequestGoes ==
  ASSUME HiringIInv, NEW r \in HrRequest, NEW pc \in Pc, NEW s \in BOOLEAN, task[r].op # "none",
         task' = [task EXCEPT ![r] = [task[r] EXCEPT !.pc = pc, !.score = s]],
         \/ pc \in {"score", "embed"} /\ row' = TRUE
         \/ pc = "insert" /\ Uploading(task[r]) /\ UNCHANGED <<file, row>>,
         RowIsTyped', LastMailStands', ApplicantHasFile',
         row' \in {row, TRUE}, Uploading(task[r]) \/ UNCHANGED <<file, row>>
  PROVE  HiringIInv'
  <1> DEFINE q == [task[r] EXCEPT !.pc = pc, !.score = s]
  <1>1. task[r] \in Task /\ RequestIsSound(task[r])
    BY DEF HiringIInv
  <1>2. /\ q \in Task /\ q.pc = pc /\ q.op = task[r].op /\ q.to = task[r].to
        /\ task' = [task EXCEPT ![r] = q]
    BY <1>1 DEF Task
  <1> HIDE DEF q
  <1>3. task'[r] = q
    BY <1>2 DEF HiringIInv
  <1>4. Uploading(task[r]) => file /\ ~row
    BY <1>1 DEF RequestIsSound
  <1>5. Uploading(q) => Uploading(task[r])
    BY <1>2 DEF Uploading
  <1>6. (RequestIsSound(task[r]))'
    BY <1>1, <1>2, <1>3, <1>4 DEF RequestIsSound, Uploading, Pc
  <1>7. row => row'
    OBVIOUS
  <1>8. \/ Uploading(task[r])
        \/ UNCHANGED <<file, row>> /\ ~Uploading(q)
    BY <1>5
  <1> QED
    BY <1>2, <1>6, <1>7, <1>8, RequestSteps

LEMMA BulkScoresKeeps == ASSUME HiringIInv, NEW r \in HrRequest, BulkScores(r) PROVE HiringIInv'
  <1>1. /\ Uploading(task[r]) /\ task[r].op # "none" /\ task[r] \in Task
        /\ UNCHANGED <<file, row, hiring, scored, embedded, carded>>
    BY DEF BulkScores, At, Uploading, HiringIInv
  <1>2. CASE answered' = "failed" /\ Ends(r)
    <2>1. served' = served
      BY <1>2 DEF Ends
    <2>2. RowIsTyped' /\ LastMailStands' /\ ApplicantHasFile'
      BY <1>1, <1>2, <2>1, RowKept DEF HiringIInv, RowIsTyped, ApplicantHasFile
    <2> QED
      BY <1>1, <1>2, <2>2, RequestEnds
  <1>3. CASE /\ \E s \in InternalScoreResume : task' = [task EXCEPT ![r].pc = "insert", ![r].score = s]
             /\ UNCHANGED <<answered, served>>
    <2>1. PICK s \in BOOLEAN : task' = [task EXCEPT ![r].pc = "insert", ![r].score = s]
      BY <1>3, ScoreIsBoolean
    <2>2. task' = [task EXCEPT ![r] = [task[r] EXCEPT !.pc = "insert", !.score = s]]
      BY <1>1, <2>1 DEF HiringIInv, Task
    <2>3. RowIsTyped' /\ LastMailStands' /\ ApplicantHasFile'
      BY <1>1, <1>3, RowKept DEF HiringIInv, RowIsTyped, ApplicantHasFile
    <2>4. "insert" \in Pc
      BY DEF Pc
    <2> QED
      BY <1>1, <2>2, <2>3, <2>4, RequestGoes
  <1> QED
    BY <1>2, <1>3 DEF BulkScores

LEMMA InsertsKeeps == ASSUME HiringIInv, NEW r \in HrRequest, Inserts(r) PROVE HiringIInv'
  <1>1. /\ Uploading(task[r]) /\ task[r].op # "none" /\ task[r] \in Task
        /\ file = TRUE /\ row = FALSE /\ scored = FALSE /\ embedded = FALSE
        /\ UNCHANGED <<hiring, embedded, carded>>
    BY DEF Inserts, Uploading, HiringIInv, RequestIsSound, RowIsTyped
  <1>2. CASE answered' = "failed" /\ Ends(r) /\ file' \in {TRUE, AfterInsert(FALSE)}
             /\ UNCHANGED <<row, scored>>
    <2>1. served' = served
      BY <1>2 DEF Ends
    <2>2. file' \in BOOLEAN
      BY <1>2 DEF AfterInsert
    <2>3. RowIsTyped' /\ LastMailStands' /\ ApplicantHasFile'
      BY <1>1, <1>2, <2>1, <2>2, RowKept DEF HiringIInv, RowIsTyped, ApplicantHasFile
    <2> QED
      BY <1>1, <1>2, <2>3, RequestEnds
  <1>3. CASE /\ row' = TRUE /\ scored' = task[r].score
             /\ file' = (file /\ AfterInsert(TRUE))
             /\ Goto(r, IF task[r].op = "create" THEN "score" ELSE "embed")
             /\ UNCHANGED answered
    <2>1. PICK pc \in {"score", "embed"} : pc = IF task[r].op = "create" THEN "score" ELSE "embed"
      OBVIOUS
    <2>2. PICK s \in BOOLEAN : s = task[r].score
      BY <1>1 DEF Task
    <2>3. pc \in Pc
      BY DEF Pc
    <2>4. /\ task' = [task EXCEPT ![r] = [task[r] EXCEPT !.pc = pc, !.score = s]]
          /\ served' = served
      BY <1>1, <1>3, <2>1, <2>2 DEF HiringIInv, Task, Goto
    <2>5. file' = TRUE /\ row' = TRUE /\ scored' = s
      BY <1>1, <1>3, <2>2 DEF AfterInsert
    <2>6. RowIsTyped' /\ LastMailStands' /\ ApplicantHasFile'
      BY <1>1, <1>3, <2>4, <2>5, RowKept DEF HiringIInv, RowIsTyped
    <2> QED
      BY <1>1, <2>4, <2>5, <2>6, <2>3, RequestGoes
  <1> QED
    BY <1>2, <1>3 DEF Inserts

LEMMA ScoreAppliesKeeps == ASSUME HiringIInv, NEW r \in HrRequest, ScoreApplies(r) PROVE HiringIInv'
  <1>1. /\ task[r].op # "none" /\ task[r] \in Task /\ row = TRUE
        /\ UNCHANGED <<file, row, hiring, embedded, carded, answered>>
    BY DEF ScoreApplies, HiringIInv, RequestIsSound, RowIsTyped
  <1>2. PICK t \in BOOLEAN : scored' = (scored \/ t)
    BY ScoreIsBoolean DEF ScoreApplies
  <1>3. scored' \in BOOLEAN
    BY <1>2
  <1>4. task' = [task EXCEPT ![r].pc = "embed"] /\ served' = served
    BY DEF ScoreApplies, Goto
  <1>5. RowIsTyped' /\ LastMailStands' /\ ApplicantHasFile'
    BY <1>1, <1>3, <1>4, RowKept DEF HiringIInv, RowIsTyped, ApplicantHasFile
  <1>6. PICK s \in BOOLEAN : s = task[r].score
    BY <1>1 DEF Task
  <1>7. task' = [task EXCEPT ![r] = [task[r] EXCEPT !.pc = "embed", !.score = s]]
    BY <1>1, <1>4, <1>6 DEF HiringIInv, Task
  <1>8. "embed" \in Pc
    BY DEF Pc
  <1> QED
    BY <1>1, <1>5, <1>7, <1>8, RequestGoes

LEMMA EmbedsKeeps == ASSUME HiringIInv, NEW r \in HrRequest, Embeds(r) PROVE HiringIInv'
  <1>1. /\ row = TRUE /\ Ends(r) /\ served' = served
        /\ UNCHANGED <<file, row, hiring, scored, carded>>
    BY DEF Embeds, HiringIInv, RequestIsSound, RowIsTyped, Ends
  <1>2. embedded' \in {embedded, TRUE}
    BY DEF Embeds
  <1>3. answered' \in {"created", "failed", answered}
    BY DEF Embeds
  <1>4. RowIsTyped' /\ LastMailStands' /\ ApplicantHasFile'
    BY <1>1, <1>2, <1>3, RowKept DEF HiringIInv, RowIsTyped, ApplicantHasFile
  <1> QED
    BY <1>1, <1>4, RequestEnds

LEMMA RescoreFailsKeeps == ASSUME HiringIInv, NEW r \in HrRequest, RescoreFails(r) PROVE HiringIInv'
  <1>1. /\ Ends(r) /\ served' = served
        /\ UNCHANGED <<file, row, hiring, scored, embedded, carded, answered>>
    BY DEF RescoreFails, Ends
  <1>2. RowIsTyped' /\ LastMailStands' /\ ApplicantHasFile'
    BY <1>1, RowKept DEF HiringIInv, RowIsTyped, ApplicantHasFile
  <1> QED
    BY <1>1, <1>2, RequestEnds

\* The status and the mail go together: setting the loaded value writes and mails nothing.
LEMMA StatusCommitsKeeps == ASSUME HiringIInv, NEW r \in HrRequest, StatusCommits(r) PROVE HiringIInv'
  <1> DEFINE loaded == task[r].loaded
             to == task[r].to
             entry == [decision |-> to, previous |-> loaded]
  <1>1. /\ Ends(r) /\ served' = served
        /\ UNCHANGED <<file, row, scored, embedded, carded, answered>>
        /\ status' = IF to = loaded THEN status ELSE to
        /\ mails' = IF to # loaded /\ to \in Mailed THEN Append(mails, to) ELSE mails
        /\ audits' = IF task[r].op = "decide" THEN Append(audits, entry) ELSE audits
    BY DEF StatusCommits, Ends, Written
  <1>2. row = TRUE /\ loaded \in Status /\ to \in Status
    BY DEF StatusCommits, HiringIInv, RequestIsSound, RowIsTyped, Task
  <1>3. task[r].op = "decide" => entry \in Entry
    BY <1>2 DEF HiringIInv, RequestIsSound, Entry
  <1>4. mails \in Seq(Mailed) /\ audits \in Seq(Entry) /\ LastMailStands
    BY DEF HiringIInv, RowIsTyped
  <1> HIDE DEF loaded, to, entry
  <1>5. mails' \in Seq(Mailed) /\ LastMailStands'
    <2>1. CASE to # loaded /\ to \in Mailed
      BY <1>1, <1>4, <2>1, Appended DEF LastMailStands
    <2>2. CASE to # loaded /\ to \notin Mailed
      BY <1>1, <1>4, <2>2 DEF LastMailStands
    <2>3. CASE to = loaded
      BY <1>1, <1>4, <2>3 DEF LastMailStands
    <2> QED
      BY <2>1, <2>2, <2>3
  <1>6. audits' \in Seq(Entry)
    BY <1>1, <1>3, <1>4, Appended
  <1>7. status' \in Status
    BY <1>1, <1>2 DEF HiringIInv, RowIsTyped
  <1>8. RowIsTyped' /\ ApplicantHasFile'
    BY <1>1, <1>2, <1>5, <1>6, <1>7 DEF HiringIInv, RowIsTyped, ApplicantHasFile
  <1> QED
    BY <1>1, <1>5, <1>8, RequestEnds

LEMMA InterviewScoredKeeps == ASSUME HiringIInv, InterviewScored PROVE HiringIInv'
  <1>1. /\ UNCHANGED <<file, row, status, mails, audits, scored, embedded, answered, task, served>>
        /\ carded' = TRUE
    BY DEF InterviewScored, hiring
  <1>2. RowIsTyped' /\ LastMailStands' /\ ApplicantHasFile'
    BY <1>1 DEF HiringIInv, RowIsTyped, LastMailStands, ApplicantHasFile
  <1>3. \A r \in HrRequest : (RequestIsSound(task[r]))'
    BY <1>1 DEF HiringIInv, RequestIsSound
  <1>4. OneUpload'
    BY <1>1 DEF HiringIInv, OneUpload
  <1> QED
    BY <1>1, <1>2, <1>3, <1>4 DEF HiringIInv

LEMMA HiringStepIInv == HiringIInv /\ [HiringNext]_hiringVars => HiringIInv'
  <1> SUFFICES ASSUME HiringIInv, [HiringNext]_hiringVars PROVE HiringIInv'
    OBVIOUS
  <1>1. CASE UNCHANGED hiringVars
    <2>1. UNCHANGED <<file, row, status, scored, embedded, carded, mails, audits, task, answered, served>>
      BY <1>1 DEF hiringVars
    <2>2. RowIsTyped' /\ LastMailStands' /\ ApplicantHasFile'
      BY <2>1 DEF HiringIInv, RowIsTyped, LastMailStands, ApplicantHasFile
    <2>3. \A r \in HrRequest : (RequestIsSound(task[r]))'
      BY <2>1 DEF HiringIInv, RequestIsSound
    <2>4. OneUpload'
      BY <2>1 DEF HiringIInv, OneUpload
    <2> QED
      BY <2>1, <2>2, <2>3, <2>4 DEF HiringIInv
  <1>2. CASE InterviewScored
    BY <1>2, InterviewScoredKeeps
  <1>3. ASSUME NEW r \in HrRequest, CreatePuts(r) \/ BulkPuts(r) PROVE HiringIInv'
    BY <1>3, CreatePutsKeeps, BulkPutsKeeps
  <1>4. ASSUME NEW r \in HrRequest, BulkScores(r) \/ Inserts(r) PROVE HiringIInv'
    BY <1>4, BulkScoresKeeps, InsertsKeeps
  <1>5. ASSUME NEW r \in HrRequest, ScoreApplies(r) \/ Embeds(r) PROVE HiringIInv'
    BY <1>5, ScoreAppliesKeeps, EmbedsKeeps
  <1>6. ASSUME NEW r \in HrRequest, RescoreReads(r) \/ RescoreFails(r) \/ ReindexReads(r) PROVE HiringIInv'
    BY <1>6, RescoreReadsKeeps, RescoreFailsKeeps, ReindexReadsKeeps
  <1>7. ASSUME NEW r \in HrRequest, NEW s, PatchReads(r, s) PROVE HiringIInv'
    BY <1>7, PatchReadsKeeps
  <1>8. ASSUME NEW r \in HrRequest, NEW d \in Decision, DecideReads(r, d) PROVE HiringIInv'
    BY <1>8, DecideReadsKeeps
  <1>9. ASSUME NEW r \in HrRequest, StatusCommits(r) PROVE HiringIInv'
    BY <1>9, StatusCommitsKeeps
  <1> QED
    BY <1>1, <1>2, <1>3, <1>4, <1>5, <1>6, <1>7, <1>8, <1>9 DEF HiringNext

LEMMA HiringSpecIInv == HiringSpec => []HiringIInv
  BY HiringInitIInv, HiringStepIInv, PTL DEF HiringSpec

\* The row, the mails, the audit log and the requests keep their types.
THEOREM HiringTypeCorrect == HiringSpec => []HiringTypeOK
  BY HiringSpecIInv, TypedIsTypeOK, PTL

\* Two HR users who decide at once leave an outbox whose last mail for the applicant agrees
\* with the stored status: the mail is enqueued only by the commit that writes the status.
THEOREM LastMailStandsHolds == HiringSpec => []LastMailStands
  <1>1. HiringIInv => LastMailStands
    BY DEF HiringIInv
  <1> QED
    BY <1>1, HiringSpecIInv, PTL

\* A row never outlives its resume: only the upload that failed to insert removes the file.
THEOREM ApplicantHasFileHolds == HiringSpec => []ApplicantHasFile
  <1>1. HiringIInv => ApplicantHasFile
    BY DEF HiringIInv
  <1> QED
    BY <1>1, HiringSpecIInv, PTL
=============================================================================
