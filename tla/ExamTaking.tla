------------------------------ MODULE ExamTaking ------------------------------
(***************************************************************************)
(* One applicant taking one exam round through magic links:                *)
(* data_gateway routers/exam_take.py (link resolution, start, submit with  *)
(* grading) and the link operations of routers/hr_exams.py (assign,        *)
(* revoke).                                                                *)
(*                                                                         *)
(* Every HTTP request runs its own database session under READ COMMITTED:  *)
(* each action below is one statement or one transaction of a request, so  *)
(* other requests may commit between two of them.  The session factory is  *)
(* built with expire_on_commit=False, so a row a request has once loaded   *)
(* keeps its loaded attributes for the rest of that request (fields        *)
(* linkSt and attSt below), even when it is selected again.                *)
(***************************************************************************)
EXTENDS Integers, FiniteSets

CONSTANTS
    Request,        \* HTTP requests that may be in flight at the same time
    Link,           \* rows exam_assignments may get for this applicant and round
    MaxAttempts,    \* bound: attempts the applicant may open on this round
    None,           \* "no link"
    AllowRetake,    \* exams.allow_retake
    Advances,       \* advances_to_interview /\ auto_advance_on_pass
    RedisReliable   \* Redis answers, and the claim outlives every live grading

ASSUME RequestAssumption == None \notin Link
ASSUME BoundAssumption == MaxAttempts \in Nat \ {0}
ASSUME FlagAssumption == /\ AllowRetake \in BOOLEAN
                         /\ Advances \in BOOLEAN
                         /\ RedisReliable \in BOOLEAN

VARIABLES
    attempt,    \* exam_attempts by attempt_no: status and result
    link,       \* status of the rows of exam_assignments
    overdue,    \* attempts past their deadline plus the submit grace
    claims,     \* Redis keys exam:grading:<attempt>
    invites,    \* active interview invites the auto-advance has minted
    pc,         \* what each request does next
    ctx         \* what each request holds in memory

vars == <<attempt, link, overdue, claims, invites, pc, ctx>>

AttemptNo == 1..MaxAttempts
Final == {"submitted", "expired"}
AttemptStatus == {"none", "in_progress"} \cup Final
LinkStatus == {"none", "invited", "started", "completed", "revoked"}

Blank == [link |-> None, linkSt |-> "none", att |-> 0, attSt |-> "none",
          late |-> FALSE, passed |-> FALSE, mint |-> FALSE]

CtxType == [link : Link \cup {None}, linkSt : LinkStatus, att : 0..MaxAttempts,
            attSt : AttemptStatus, late : BOOLEAN, passed : BOOLEAN, mint : BOOLEAN]

PC == {"idle", "start", "absent", "cleared", "numbered",
       "submit", "loaded", "claimed", "flushed", "unclaim"}

InviteType == [att : AttemptNo, link : Link]

TypeOK ==
    /\ attempt \in [AttemptNo -> [status : AttemptStatus, passed : BOOLEAN]]
    /\ link \in [Link -> LinkStatus]
    /\ overdue \subseteq AttemptNo
    /\ claims \subseteq AttemptNo
    /\ invites \subseteq InviteType
    /\ pc \in [Request -> PC]
    /\ ctx \in [Request -> CtxType]

Init ==
    /\ attempt = [a \in AttemptNo |-> [status |-> "none", passed |-> FALSE]]
    /\ link = [l \in Link |-> "none"]
    /\ overdue = {}
    /\ claims = {}
    /\ invites = {}
    /\ pc = [r \in Request |-> "idle"]
    /\ ctx = [r \in Request |-> Blank]

Live(a) == attempt[a].status = "in_progress"
Graded(a) == attempt[a].status \in Final
Opened == {a \in AttemptNo : attempt[a].status # "none"}

Goto(r, label) == pc' = [pc EXCEPT ![r] = label]
Remember(r, c) == ctx' = [ctx EXCEPT ![r] = c]

\* The request leaves: its response is sent and its session is closed.
Reply(r) ==
    /\ Goto(r, "idle")
    /\ Remember(r, Blank)

-----------------------------------------------------------------------------
(* Row locks: a request that has flushed its updates holds them to its end. *)

Flushed == {r \in Request : pc[r] = "flushed"}
LinkLocked(l) == \E q \in Flushed : ctx[q].link = l
AttemptLocked(a) == \E q \in Flushed : ctx[q].att = a

-----------------------------------------------------------------------------
(* HR: assign (one transaction: rotate the invited link, mint a new one)    *)
(* and revoke.  Publishing and closing only decide whether a request or an  *)
(* assignment is refused, and a refusal changes nothing: see Usable.        *)

Assign(l) ==
    /\ link[l] = "none"
    /\ \A x \in Link : link[x] = "invited" => ~LinkLocked(x)
    /\ link' = [x \in Link |-> IF x = l THEN "invited"
                               ELSE IF link[x] = "invited" THEN "revoked"
                               ELSE link[x]]
    /\ UNCHANGED <<attempt, overdue, claims, invites, pc, ctx>>

Revoke(l) ==
    /\ link[l] # "none" /\ ~LinkLocked(l)
    /\ link' = [link EXCEPT ![l] = "revoked"]
    /\ UNCHANGED <<attempt, overdue, claims, invites, pc, ctx>>

(* The invite stops being active: HR revokes it or the interview ends.      *)
InviteEnds(i) ==
    /\ i \in invites
    /\ invites' = invites \ {i}
    /\ UNCHANGED <<attempt, link, overdue, claims, pc, ctx>>

-----------------------------------------------------------------------------
(* Time: attempt deadlines and the claim's TTL.                             *)

DeadlinePasses(a) ==
    /\ attempt[a].status # "none" /\ a \notin overdue
    /\ overdue' = overdue \cup {a}
    /\ UNCHANGED <<attempt, link, claims, invites, pc, ctx>>

\* Requests between a successful SET NX and the DEL of the finally block.
Holding == {r \in Request : pc[r] \in {"claimed", "flushed", "unclaim"}}

\* Mutant: the key is set without EX.
ClaimWithoutTtl(a) == FALSE

ClaimExpires(a) ==
    /\ a \in claims
    /\ RedisReliable => \A r \in Holding : ctx[r].att # a
    /\ claims' = claims \ {a}
    /\ UNCHANGED <<attempt, link, overdue, invites, pc, ctx>>

-----------------------------------------------------------------------------
(* get_exam_link_ctx: every request re-resolves its link first.  An expired *)
(* link, an unpublished round, a closed exam or a deleted applicant refuse  *)
(* the request before it changes anything, which is the same as a request   *)
(* that is not made, so they need no state of their own here.               *)

Usable(l) == link[l] \notin {"none", "revoked"}

Resolve(r, l, label) ==
    /\ pc[r] = "idle"
    /\ Usable(l)
    /\ Goto(r, label)
    /\ Remember(r, [Blank EXCEPT !.link = l, !.linkSt = link[l]])
    /\ UNCHANGED <<attempt, link, overdue, claims, invites>>

-----------------------------------------------------------------------------
(* POST /exam/start, one action per statement.                              *)

StartFind(r) ==
    /\ pc[r] = "start"
    /\ IF \E a \in AttemptNo : Live(a)
       THEN Reply(r)
       ELSE Goto(r, "absent") /\ UNCHANGED ctx
    /\ UNCHANGED <<attempt, link, overdue, claims, invites>>

AlreadyTaken == /\ ~AllowRetake
                /\ \E a \in AttemptNo : attempt[a].status = "submitted"

\* 409 when already taken, 403 outside the join window of a scheduled link.
StartCheck(r) ==
    /\ pc[r] = "absent"
    /\ \/ Reply(r)
       \/ ~AlreadyTaken /\ Goto(r, "cleared") /\ UNCHANGED ctx
    /\ UNCHANGED <<attempt, link, overdue, claims, invites>>

\* max(attempt_no) + 1
StartNumber(r) ==
    /\ pc[r] = "cleared"
    /\ \E a \in AttemptNo :
         /\ a \notin Opened
         /\ \A b \in AttemptNo : b \in Opened <=> b < a
         /\ Remember(r, [ctx[r] EXCEPT !.att = a])
    /\ Goto(r, "numbered")
    /\ UNCHANGED <<attempt, link, overdue, claims, invites>>

\* Mutant: the partial index on live attempts is missing.
InsertableWithoutLiveIndex(a) == attempt[a].status = "none"

\* uix_exam_attempts_one_live and uq_exam_attempts_round_applicant_no
Insertable(a) == attempt[a].status = "none" /\ \A b \in AttemptNo : ~Live(b)

\* A refused insert rolls back and answers with the live attempt, or fails.  It
\* waits for a transaction that is changing the live row or the link row.
StartInsert(r) ==
    /\ pc[r] = "numbered"
    /\ \A b \in AttemptNo : Live(b) => ~AttemptLocked(b)
    /\ ctx[r].linkSt = "invited" => ~LinkLocked(ctx[r].link)
    /\ LET a == ctx[r].att
           l == ctx[r].link
       IN IF Insertable(a)
          THEN /\ attempt' = [attempt EXCEPT ![a].status = "in_progress"]
               /\ link' = IF ctx[r].linkSt = "invited"
                          THEN [link EXCEPT ![l] = "started"]
                          ELSE link
          ELSE UNCHANGED <<attempt, link>>
    /\ Reply(r)
    /\ UNCHANGED <<overdue, claims, invites>>

-----------------------------------------------------------------------------
(* POST /exam/submit: _load_attempt, then _grade_and_finalize.              *)

Load(r, a) ==
    /\ pc[r] = "submit"
    /\ a \in Opened
    /\ IF Graded(a)
       THEN Reply(r)
       ELSE /\ Goto(r, "loaded")
            /\ Remember(r, [ctx[r] EXCEPT !.att = a, !.attSt = attempt[a].status])
    /\ UNCHANGED <<attempt, link, overdue, claims, invites>>

\* SET NX EX.  `now`, and with it whether the attempt is late, is taken here.
Granted(r, a) ==
    /\ Goto(r, "claimed")
    /\ Remember(r, [ctx[r] EXCEPT !.late = (a \in overdue)])

\* Mutant: SET without NX.
ClaimWithoutNx(r) ==
    LET a == ctx[r].att
    IN /\ pc[r] = "loaded"
       /\ claims' = claims \cup {a}
       /\ Granted(r, a)
       /\ UNCHANGED <<attempt, link, overdue, invites>>

ClaimGranted(r) ==
    LET a == ctx[r].att
    IN /\ pc[r] = "loaded"
       /\ a \notin claims
       /\ claims' = claims \cup {a}
       /\ Granted(r, a)
       /\ UNCHANGED <<attempt, link, overdue, invites>>

\* Refused: the attempt selected again is the cached row, so the answer is the
\* stored result only if that copy was final, and 409 otherwise.
ClaimRefused(r) ==
    /\ pc[r] = "loaded"
    /\ ctx[r].att \in claims
    /\ Reply(r)
    /\ UNCHANGED <<attempt, link, overdue, claims, invites>>

\* A Redis error grants the claim, whether or not the key was written.
ClaimFailsOpen(r) ==
    LET a == ctx[r].att
    IN /\ pc[r] = "loaded"
       /\ ~RedisReliable
       /\ claims' \in {claims, claims \cup {a}}
       /\ Granted(r, a)
       /\ UNCHANGED <<attempt, link, overdue, invites>>

\* Mutant: a late submit gets a status the column does not have.
ResultRowTimedOut(r, passed) ==
    [status |-> IF ctx[r].late THEN "timed_out" ELSE "submitted", passed |-> passed]

\* Mutant: a late submit writes the status of the copy it loaded.
ResultRowKeepsCopy(r, passed) ==
    [status |-> IF ctx[r].late THEN ctx[r].attSt ELSE "submitted", passed |-> passed]

\* The grading result of request r as the row it writes: only a copy that is
\* in_progress changes status.
ResultRow(r, passed) ==
    [status |-> IF ctx[r].attSt = "in_progress"
                THEN IF ctx[r].late THEN "expired" ELSE "submitted"
                ELSE attempt[ctx[r].att].status,
     passed |-> passed]

\* The link row is written unless the cached copy already read completed.
LinkClosedBy(r) ==
    IF ctx[r].linkSt = "completed" THEN link
    ELSE [link EXCEPT ![ctx[r].link] = "completed"]

\* Only the claim key is still needed.
Written(r) ==
    /\ Goto(r, "unclaim")
    /\ Remember(r, [Blank EXCEPT !.att = ctx[r].att])

\* No advance: attempt and link are written by one commit.
Persist(r) ==
    /\ pc[r] = "claimed"
    /\ ctx[r].attSt \notin Final
    /\ ~AttemptLocked(ctx[r].att) /\ ~LinkLocked(ctx[r].link)
    /\ \E passed \in BOOLEAN :
         /\ ~(passed /\ Advances)
         /\ attempt' = [attempt EXCEPT ![ctx[r].att] = ResultRow(r, passed)]
    /\ link' = LinkClosedBy(r)
    /\ Written(r)
    /\ UNCHANGED <<overdue, claims, invites>>

\* Mutant: the updates are not flushed before the check, so nothing orders it.
PersistFlushUnlocked(r) ==
    /\ pc[r] = "claimed"
    /\ Advances
    /\ Remember(r, [ctx[r] EXCEPT !.passed = TRUE, !.mint = (invites = {})])
    /\ Goto(r, "flushed")
    /\ UNCHANGED <<attempt, link, overdue, claims, invites>>

\* Advance: the select of an active invite first flushes the two updates, which
\* locks both rows until the commit.
PersistFlush(r) ==
    /\ pc[r] = "claimed"
    /\ ctx[r].attSt \notin Final
    /\ Advances
    /\ ~AttemptLocked(ctx[r].att) /\ ~LinkLocked(ctx[r].link)
    /\ Remember(r, [ctx[r] EXCEPT !.passed = TRUE, !.mint = (invites = {})])
    /\ Goto(r, "flushed")
    /\ UNCHANGED <<attempt, link, overdue, claims, invites>>

\* The commit writes attempt, link and invite together.  No invite is added when
\* one was active at the flush (minted here or by HR), or when an error raised
\* while it is prepared is swallowed: the rest is committed all the same.
PersistCommit(r) ==
    LET i == [att |-> ctx[r].att, link |-> ctx[r].link]
    IN /\ pc[r] = "flushed"
       /\ attempt' = [attempt EXCEPT ![ctx[r].att] = ResultRow(r, TRUE)]
       /\ link' = LinkClosedBy(r)
       /\ invites' \in {invites} \cup (IF ctx[r].mint THEN {invites \cup {i}} ELSE {})
       /\ Written(r)
       /\ UNCHANGED <<overdue, claims>>

\* Mutant: the link is closed by a commit of its own before the result is written.
PersistFailsHalfway(r) ==
    /\ pc[r] \in {"claimed", "flushed"}
    /\ link' = LinkClosedBy(r)
    /\ Written(r)
    /\ UNCHANGED <<attempt, overdue, claims, invites>>

\* The cached row is final, a question or the row cannot be read, or the commit
\* fails: nothing is written and the finally block still runs.
PersistFails(r) ==
    /\ pc[r] \in {"claimed", "flushed"}
    /\ Written(r)
    /\ UNCHANGED <<attempt, link, overdue, claims, invites>>

\* finally: DEL of the key, whoever set it.
Unclaim(r) ==
    /\ pc[r] = "unclaim"
    /\ \/ claims' = claims \ {ctx[r].att}
       \/ ~RedisReliable /\ UNCHANGED claims
    /\ Reply(r)
    /\ UNCHANGED <<attempt, link, overdue, invites>>

-----------------------------------------------------------------------------
(* The process serving r dies: its transaction rolls back, its claim stays. *)

Crash(r) ==
    /\ pc[r] # "idle"
    /\ Reply(r)
    /\ UNCHANGED <<attempt, link, overdue, claims, invites>>

RequestStep(r) ==
    \/ StartFind(r) \/ StartCheck(r) \/ StartNumber(r) \/ StartInsert(r)
    \/ \E a \in AttemptNo : Load(r, a)
    \/ ClaimGranted(r) \/ ClaimRefused(r) \/ ClaimFailsOpen(r)
    \/ Persist(r) \/ PersistFlush(r) \/ PersistCommit(r) \/ PersistFails(r)
    \/ Unclaim(r)

Arrive(r) == \E l \in Link : Resolve(r, l, "start") \/ Resolve(r, l, "submit")

HR ==
    \/ \E l \in Link : Assign(l) \/ Revoke(l)
    \/ \E i \in invites : InviteEnds(i)

Clock ==
    \E a \in AttemptNo : DeadlinePasses(a) \/ ClaimExpires(a)

Next ==
    \/ HR
    \/ Clock
    \/ \E r \in Request : Arrive(r) \/ RequestStep(r) \/ Crash(r)

Spec == Init /\ [][Next]_vars

\* Redis expires keys on its own clock, and a request that is running goes on.
FairSpec ==
    /\ Spec
    /\ \A a \in AttemptNo : WF_vars(ClaimExpires(a))
    /\ \A r \in Request : WF_vars(RequestStep(r))

-----------------------------------------------------------------------------
(* Properties.                                                              *)

\* Whatever /start requests race, the applicant has at most one open attempt on
\* the round, and the attempts are numbered without a gap.
OneLiveAttempt ==
    /\ \A a, b \in AttemptNo : Live(a) /\ Live(b) => a = b
    /\ \A a \in Opened : \A b \in AttemptNo : b < a => b \in Opened

\* While Redis answers and the claim does not lapse under a live grading, two
\* requests never grade the same attempt at the same time.
GradingIsExclusive ==
    RedisReliable =>
        \A r, q \in Holding : r # q => ctx[r].att # ctx[q].att

\* A link is marked completed only together with a graded attempt: no crash or
\* failed commit consumes the link and leaves nothing graded.
CompletedLinkHasResult ==
    (\E l \in Link : link[l] = "completed") => \E a \in AttemptNo : Graded(a)

\* Two active invites minted by the auto-advance never come from the same attempt
\* or through the same link, however many submits of it race: the row locks taken
\* by the flush order the check for an existing invite.
InvitesAreDistinct ==
    \A i, j \in invites : i # j => i.att # j.att /\ i.link # j.link

\* A graded attempt never reopens, and only a request that had loaded it while it
\* was in progress rewrites its result.
GradedStaysGraded ==
    [][\A a \in AttemptNo : Graded(a) =>
          /\ Graded(a)'
          /\ attempt'[a] # attempt[a] =>
                \E r \in Request : /\ pc[r] \in {"claimed", "flushed"}
                                   /\ ctx[r].att = a
                                   /\ ctx[r].attSt = "in_progress"]_vars

\* A grading claim does not outlive a crashed or failed submit for ever, so the
\* applicant can submit again.
ClaimsAreReleased ==
    \A a \in AttemptNo : (a \in claims) ~> (a \notin claims)

\* What the module docstring promises, and the code does not keep:
\* "Submit is idempotent; a second submit returns the stored result (no re-grade)".
ResultIsFinal ==
    [][\A a \in AttemptNo : Graded(a) => attempt'[a] = attempt[a]]_vars

\* "the token dies immediately on the take path": a revoked link stays revoked.
RevocationSticks ==
    [][\A l \in Link : link[l] = "revoked" => link'[l] = "revoked"]_vars

=============================================================================
