---------------------------- MODULE InterviewInvite ----------------------------
(***************************************************************************)
(* The interview invites of one applicant: minting, rotation, rescheduling, *)
(* listing and revocation by HR (data_gateway routers/hr_interviews.py),    *)
(* redemption and resumption of the magic link by the applicant             *)
(* (routers/interview_take.py), and the room token that lets the guest into *)
(* the interview (interview_core routers/rooms.py).                         *)
(*                                                                         *)
(* A request is one database transaction under READ COMMITTED.  It is split *)
(* where another request may commit between what it read and what it        *)
(* writes: a "read" step remembers the rows, a commit step writes them.     *)
(* Only redeem and resume lock the invite row while they read it; the token  *)
(* they answer with is made after their commit has given the lock back.      *)
(*                                                                         *)
(* The schedule and the expiry of an invite only decide whether a redeem is *)
(* refused, and a refused request changes nothing, which is the same as a   *)
(* request that is not made: they need no state of their own.               *)
(***************************************************************************)
EXTENDS Integers, FiniteSets

CONSTANTS
    Request,        \* HTTP requests that may be in flight at the same time
    MaxInvites,     \* bound: invites minted for the applicant
    MaxNotices      \* bound: notifications counted per invite

ASSUME InvitesAssumption == MaxInvites \in Nat \ {0}
ASSUME NoticesAssumption == MaxNotices \in Nat \ {0}

VARIABLES
    invite,     \* interview_invites, by order of creation
    session,    \* sessions.status and the scorecard of the session an invite is bound to
    user,       \* applicants.user_id: the invite whose redeem made the guest, 0 when NULL
    consent,    \* guests with an active consent row
    token,      \* invites with a guest access token that is still valid
    told,       \* notifications "interview completed" by invite
    req         \* what each request remembers

vars == <<invite, session, user, consent, token, told, req>>

Invite == 1..MaxInvites
Active == {"invited", "consumed"}
InviteStatus == {"none", "completed", "revoked"} \cup Active

\* The job of an invite: the catalogue job HR names, or one made for the invite.
JobOf == {"named", "own"}

InviteRow == [status : InviteStatus, job : JobOf, guest : 0..MaxInvites]
SessionStatus == {"none", "created", "in_progress", "completed", "abandoned"}

\* redeem, start: a first start before and after it has looked for the consent;
\* rejoin: a reconnect; answer: committed, the token still to be made.
Idle == [op |-> "idle", on |-> {}, user |-> 0, granted |-> FALSE]
RequestType == [op : {"idle", "create", "own", "advance", "list", "redeem", "start", "rejoin", "answer"},
                on : SUBSET Invite, user : 0..MaxInvites, granted : BOOLEAN]

TypeOK ==
    /\ invite \in [Invite -> InviteRow]
    /\ session \in [Invite -> [status : SessionStatus, scored : BOOLEAN]]
    /\ user \in 0..MaxInvites
    /\ consent \subseteq Invite
    /\ token \subseteq Invite
    /\ told \in [Invite -> 0..MaxNotices]
    /\ req \in [Request -> RequestType]

Init ==
    /\ invite = [i \in Invite |->
                   [status |-> "none", job |-> "own", guest |-> 0]]
    /\ session = [i \in Invite |-> [status |-> "none", scored |-> FALSE]]
    /\ user = 0
    /\ consent = {}
    /\ token = {}
    /\ told = [i \in Invite |-> 0]
    /\ req = [r \in Request |-> Idle]

ActiveInvites == {i \in Invite : invite[i].status \in Active}

\* Mutant: the invite is read without FOR UPDATE.
LockedNever(i) == FALSE

\* SELECT ... FOR UPDATE: no other request writes the row before this one ends.
Locked(i) == \E q \in Request : req[q].op \in {"redeem", "start", "rejoin"} /\ i \in req[q].on

Remember(r, op, on) == req' = [req EXCEPT ![r] = [Idle EXCEPT !.op = op, !.on = on]]
Reply(r) == req' = [req EXCEPT ![r] = Idle]

\* Reading a request's rows changes nothing but its memory.
OnlyRequests == UNCHANGED <<invite, session, user, consent, token, told>>

-----------------------------------------------------------------------------
(* HR mints an invite: create_invite with a job or without, and the         *)
(* auto-advance of a passed exam.                                           *)

\* The next row; the rows are numbered in the order of their inserts.
Unused(i) == /\ invite[i].status = "none"
             /\ \A j \in Invite : j < i => invite[j].status # "none"

Named == {i \in ActiveInvites : invite[i].job = "named"}

\* Ineligible applicants and schedules in the past are refused and change nothing.
CreateReads(r) ==
    /\ req[r].op = "idle"
    /\ \/ Remember(r, "create", Named)
       \/ Remember(r, "own", {})
    /\ OnlyRequests

\* One invite may be open for the applicant in the whole company.
AdvanceReads(r) ==
    /\ req[r].op = "idle"
    /\ ActiveInvites = {}
    /\ Remember(r, "advance", {})
    /\ OnlyRequests

JobFor(op) == IF op = "create" THEN "named" ELSE "own"

\* Mutant: the partial index on active invites is missing.
InsertableAlways(rows, job) == TRUE

\* uix_interview_invites_active: a fresh job never collides.
Insertable(rows, job) ==
    job = "named" => \A i \in Invite : ~(rows[i].status \in Active /\ rows[i].job = "named")

\* prior.status = "revoked", whatever the row has become since it was read.
Rotated(r) == [i \in Invite |-> IF i \in req[r].on
                                THEN [invite[i] EXCEPT !.status = "revoked"]
                                ELSE invite[i]]

\* A violated index rolls the rotation back with the insert.
MintCommits(r) ==
    LET job == JobFor(req[r].op)
    IN /\ req[r].op \in {"create", "own", "advance"}
       /\ \A i \in req[r].on : ~Locked(i)
       /\ \/ /\ Insertable(Rotated(r), job)
             /\ \E i \in Invite :
                  /\ Unused(i)
                  /\ invite' = [Rotated(r) EXCEPT
                       ![i] = [status |-> "invited", job |-> job, guest |-> 0]]
          \/ ~Insertable(Rotated(r), job) /\ UNCHANGED invite
       /\ Reply(r)
       /\ UNCHANGED <<session, user, consent, token, told>>

\* The status is set whatever it was.
RevokeInvite(i) ==
    /\ invite[i].status # "none" /\ ~Locked(i)
    /\ invite' = [invite EXCEPT ![i].status = "revoked"]
    /\ UNCHANGED <<session, user, consent, token, told, req>>

-----------------------------------------------------------------------------
(* HR looks: list_invites completes the invites whose scorecard exists.     *)

Completable == {i \in Invite : invite[i].status = "consumed" /\ session[i].scored}

ListReads(r) ==
    /\ req[r].op = "idle"
    /\ Completable # {}
    /\ Remember(r, "list", Completable)
    /\ OnlyRequests

\* Counting stops at the bound.
OneMore(n) == IF n < MaxNotices THEN n + 1 ELSE n

ListCommits(r) ==
    /\ req[r].op = "list"
    /\ \A i \in req[r].on : ~Locked(i)
    /\ invite' = [i \in Invite |-> IF i \in req[r].on
                                   THEN [invite[i] EXCEPT !.status = "completed"]
                                   ELSE invite[i]]
    /\ told' = [i \in Invite |-> IF i \in req[r].on THEN OneMore(told[i]) ELSE told[i]]
    /\ Reply(r)
    /\ UNCHANGED <<session, user, consent, token>>

-----------------------------------------------------------------------------
(* The applicant: redeem, resume.                                           *)

Finished(i) == session[i].status = "completed" \/ session[i].scored

Redeemable(i) == invite[i].status \in Active /\ ~Locked(i)

\* The first statement locks the invite, the next ones read the applicant and the
\* session.
RedeemReads(r, i) ==
    /\ req[r].op = "idle"
    /\ Redeemable(i)
    /\ ~Finished(i)
    /\ req' = [req EXCEPT ![r] =
         [op |-> IF invite[i].status = "invited" THEN "redeem" ELSE "rejoin",
          on |-> {i}, user |-> user, granted |-> FALSE]]
    /\ OnlyRequests

\* applicant.user_id as it was read; the applicant row is not locked.
GuestFor(r, i) == IF req[r].user # 0 THEN req[r].user ELSE i

\* has_consent, read before the commit and without a lock on the ledger.
ConsentReads(r) ==
    \E i \in req[r].on :
        /\ req[r].op = "redeem"
        /\ req' = [req EXCEPT ![r].op = "start", ![r].granted = GuestFor(r, i) \in consent]
        /\ OnlyRequests

\* The commit is done and the lock is gone; the token is yet to be made.
Answers(r) == req' = [req EXCEPT ![r] = [Idle EXCEPT !.op = "answer", !.on = req[r].on]]

\* First start: guest, session and the flip in one commit, with a consent row unless one
\* was read; the unique index of the ledger refuses a second active row.  A guest that
\* the request has made replaces whatever applicants.user_id has become: the ids are
\* fresh, so the unique index on user_id has nothing to refuse.
FirstStart(r) ==
    \E i \in req[r].on :
        /\ req[r].op = "start"
        /\ req[r].granted \/ GuestFor(r, i) \notin consent
        /\ invite' = [invite EXCEPT ![i].status = "consumed", ![i].guest = GuestFor(r, i)]
        /\ user' = GuestFor(r, i)
        /\ consent' = IF req[r].granted THEN consent ELSE consent \cup {GuestFor(r, i)}
        /\ session' = [session EXCEPT ![i].status = "created"]
        /\ Answers(r)
        /\ UNCHANGED <<token, told>>

\* Reconnect: the session the invite is bound to stays as it is.
Reconnect(r) ==
    /\ req[r].op = "rejoin"
    /\ Answers(r)
    /\ OnlyRequests

\* The reload of the page: like a reconnect, by cookie, in one locked transaction.
Resume(r, i) ==
    /\ req[r].op = "idle"
    /\ invite[i].status = "consumed" /\ ~Locked(i)
    /\ ~Finished(i)
    /\ req' = [req EXCEPT ![r] = [Idle EXCEPT !.op = "answer", !.on = {i}]]
    /\ OnlyRequests

\* _issue_guest_token, after db.commit(): whatever has become of the invite meanwhile.
IssueToken(r) ==
    /\ req[r].op = "answer"
    /\ token' = token \cup req[r].on
    /\ Reply(r)
    /\ UNCHANGED <<invite, session, user, consent, told>>

\* The request fails or its process dies: the transaction rolls back, or the token of a
\* committed one is never made.
Abort(r) ==
    /\ req[r].op # "idle"
    /\ Reply(r)
    /\ OnlyRequests

-----------------------------------------------------------------------------
(* The interview: the room token asks for the guest token and the consent,  *)
(* not for the status of the session; the worker records start and end.     *)

EnterRoom(i) ==
    /\ i \in token
    /\ invite[i].guest \in consent
    /\ session[i].status # "none"
    /\ session' = [session EXCEPT ![i].status = "in_progress"]
    /\ UNCHANGED <<invite, user, consent, token, told, req>>

InterviewEnds(i) ==
    /\ session[i].status = "in_progress"
    /\ \E s \in {"completed", "abandoned"} : session' = [session EXCEPT ![i].status = s]
    /\ UNCHANGED <<invite, user, consent, token, told, req>>

\* The transcript is scored after the end of an interview, also when the write of
\* its final status was lost.
Scored(i) ==
    /\ session[i].status \in {"in_progress", "completed"} /\ ~session[i].scored
    /\ session' = [session EXCEPT ![i].scored = TRUE]
    /\ UNCHANGED <<invite, user, consent, token, told, req>>

WithdrawConsent(g) ==
    /\ g \in consent
    /\ consent' = consent \ {g}
    /\ UNCHANGED <<invite, session, user, token, told, req>>

TokenEnds(i) ==
    /\ i \in token
    /\ token' = token \ {i}
    /\ UNCHANGED <<invite, session, user, consent, told, req>>

-----------------------------------------------------------------------------

Hr(r) == CreateReads(r) \/ AdvanceReads(r) \/ MintCommits(r) \/ ListReads(r) \/ ListCommits(r)
Guest(r) ==
    \/ \E i \in Invite : RedeemReads(r, i) \/ Resume(r, i)
    \/ ConsentReads(r) \/ FirstStart(r) \/ Reconnect(r) \/ IssueToken(r)

Interview(i) == EnterRoom(i) \/ InterviewEnds(i) \/ Scored(i)

Next ==
    \/ \E r \in Request : Hr(r) \/ Guest(r) \/ Abort(r)
    \/ \E i \in Invite : RevokeInvite(i) \/ Interview(i) \/ TokenEnds(i) \/ WithdrawConsent(i)

Spec == Init /\ [][Next]_vars

-----------------------------------------------------------------------------
(* Properties.                                                              *)

\* Whatever creations race, HR's catalogue job has at most one open invite, and an
\* invite is bound to a guest and a session from its first start on, never before.
OneOpenInvitePerJob ==
    /\ Cardinality(Named) <= 1
    /\ \A i \in Invite : /\ invite[i].status \in {"none", "invited"} => invite[i].guest = 0
                         /\ (session[i].status # "none") <=> (invite[i].guest # 0)

\* The requests that were let in by link i and still have to hand over its token.
Admitted(i) == {r \in Request : req[r].op = "answer" /\ i \in req[r].on}

\* A link that HR has revoked, or that is completed, is dead: no redeem, rotation or
\* list that read it while it was open brings it back to an open status, and no redeem,
\* reconnect or resume is let in by it any more.  Only one whose commit came before the
\* link died may still hand over a token, since tokens are made after the commit.
DeadLinksStayDead ==
    [][\A i \in Invite : invite[i].status \in {"revoked", "completed"} =>
          /\ invite'[i].status \in {"revoked", "completed"}
          /\ Admitted(i)' \subseteq Admitted(i)
          /\ i \in token' \ token => Admitted(i) # {}]_vars

\* The request that starts the session of i had read a consent of the guest.
HadConsent(i) == \E r \in Request : req[r].op = "start" /\ i \in req[r].on /\ req[r].granted

\* The guest of a started invite never changes, so nobody else enters its session, and
\* the session starts with the consent of that guest on record, unless the consent was
\* withdrawn between the look at it and the commit.
GuestKeepsSession ==
    [][\A i \in Invite :
          /\ invite[i].guest # 0 => invite'[i].guest = invite[i].guest
          /\ session[i].status = "none" /\ session'[i].status # "none"
                => invite'[i].guest \in consent' \/ HadConsent(i)]_vars

\* What the migration promises: "One guest user per applicant (concurrent redeem
\* collides -> reuse winner)".
OneGuestPerApplicant ==
    \A i, j \in Invite : invite[i].guest # 0 /\ invite[j].guest # 0
                            => invite[i].guest = invite[j].guest

\* What list_invites promises of the completion notice: "fire-once".
CompletionToldOnce == \A i \in Invite : told[i] <= 1

\* What redeem_invite promises: "A finished interview is never re-enterable".
FinishedIsFinal ==
    [][\A i \in Invite : session[i].status = "completed" =>
          session'[i].status = "completed"]_vars

=============================================================================
