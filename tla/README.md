# Verification of the interview platform

TLA+ specifications of the parts of this repository whose correctness depends on
what happens *between* statements: requests that race over one row, workers that
die, retries, callbacks that arrive in the middle of a close path, calls to
services that cannot commit together with the database. TLC checks them on small
instances; TLAPS proves every safety property of these runs, and the two
refinements, for every value of the constants.

## The system

Four FastAPI services (`data_gateway`, `interview_core`, `feedback_billing`,
`admin_ops`) and a LiveKit worker share one PostgreSQL database, one Redis and
one object store. Each runs in one or more processes; a request is a coroutine
with a database session of its own, built with `expire_on_commit=False`: a row
that a request has loaded is not refreshed by selecting it again, and almost no
route locks what it has checked.

| Component | State it keeps | Correct when | Module |
|---|---|---|---|
| Exam taking, assignments, auto-advance (`exam_take.py`, `hr_exams.py`, `hr_interviews.py`) | `exam_attempts`, `exam_assignments`, the Redis claim `exam:grading:<attempt>`, invites minted by a submit | one open attempt; a graded attempt stays graded; a link is consumed only with a result; claims are released | `ExamTaking` |
| Exam authoring (`hr_exams.py`, `hr_rounds.py`, `hr_coding.py`) | `exams`, `exam_rounds`, `exam_sections`, both tables of questions | positions and numbers are distinct; a paper does not change under its candidates | `ExamAuthoring` |
| Interview invites (`hr_interviews.py`, `interview_take.py`, `rooms.py`) | `interview_invites`, guests, sessions, consents, guest tokens | one open invite per job; dead links stay dead; a guest keeps its session | `InterviewInvite` |
| Email outbox (`mailer.py`) | `email_events` | bounded copies; a mail is delivered before its body is dropped; nothing is given up early | `EmailOutbox`, `MailPromise` |
| Interview worker and scoring (`interview_worker.py`, `rooms.py`, `score.py`) | `sessions.status`, `turns`, `scorecards`, memory of a job | a close is recorded; withdrawn consent ends the interview and is never scored; the first record wins | `InterviewSession` |
| Spoken interview (`livekit_agent.py`, `orchestrator.py`, `brain.py`, `graph/build.py`) | tasks of one event loop, transcript, avatar | the transcript is one the graph allows; sessions are given back; the call ends | `SpokenInterview`, `TurnLoop` |
| Speech to text (`sarvam_stt_stream.py`) | connection, reader task, queue | the last frame is returned; no reader is left | `SttStream` |
| Refresh sessions (`shared/auth/local.py`) | `refresh:*`, `user_sessions:*`, `auth_epoch:*` in Redis | revoked sessions stay out; rotation keeps a session | `AuthSessions` |
| Accounts and Google sign-in (`auth.py`, `admin_hr.py`, `sso_google.py`) | `users`, `user_roles`, `auth_tokens`, `companies` | sessions follow the account; one super admin; Google signs in candidates only | `Accounts` |
| Naipunyam sign-in (`naipunyam/`, `sso_naipunyam.py`) | the circuit breaker, `users` | counters agree; an open breaker sheds calls | `Naipunyam` |
| Consent (`consent.py`, `sessions.py`) | `dpdp_consents` | one active consent per type; a withdrawal covers what was active | `Consent` |
| Resume versions, erasure, retention, PDF (`resume.py`, `erasure*.py`, `retention.py`, `pdf_render.py`) | `users`, `resumes`, `applicants`, `sessions`, `scorecards`, `erasure_requests`, files | a version has its file; erasure is stamped only when the files are gone, once, eventually | `PersonalData` |
| HR applicants and pipeline (`hr_applicants.py`, `hr_pipeline.py`) | `applicants`, mails, audit, files | the last mail enqueued tells the standing decision; an applicant has its file | `Hiring` |
| Code execution (`coding_grader.py`, `piston_client.py`, `jdoodle_client.py`) | semaphores, cached runtimes | scores come from all results; permits balance | `CodeExecution` |
| Worker capacity (`worker_capacity.py`, `interview_worker.py`) | a counter per process, one Redis key | the counter counts what runs; a published number is one process's | `WorkerCapacity` |
| Proctoring (`integrity.py`, `proctoring.py`, `useProctoring`) | the browser's queue, `integrity_events`, the summary | batches are whole; a score is of stored events | `Proctoring` |

They interact through the database (a submit mints an invite and enqueues its
mail in one transaction), through Redis (claims, epoch, job counter), by HTTP
(the worker posts the transcript to the scoring service, with a retry), through
the object store (files stored before and deleted after their rows) and by
callbacks (LiveKit's session events, tracks).

The spoken interview is not on the production path: `launcher.py` starts no agent,
and the worker drives LiveKit's own agent session instead ("not used here",
`interview_worker.py` 156-157). `InterviewAgent`, `InterviewOrchestrator` and
`InterviewBrain` run from `scripts/run_demo.py` and `scripts/smoke_agent.py`; what
the worker does in production is `InterviewSession`. PROJECT.json lists each component,
the ones left out too, with every hazard found in the code at its line.

## The modules

A definition's comment names the code it models; PROJECT.json maps each
definition to its lines. `MC*` modules add symmetry sets and small functions for
TLC. The convention of all database modules is the same: what a handler reads
and checks is one step and remembered in `req` (or `pc`, `ctx`), what it commits
is another, and anything may commit in between. Where the code locks
(`FOR UPDATE`, a flush that holds row locks, a unique index) the guard says so.
A check that refuses a request before it has changed anything is a guard; the
refusal itself is no step.

**ExamTaking.** `attempt` and `link` are the rows of one applicant on one round,
`overdue` the deadlines that have passed, `claims` the Redis keys, `invites` the
active auto-advance invites, `pc`/`ctx` where each request is and what it has
loaded. `ctx.attSt` and `ctx.linkSt` are the row objects cached in the request's
session: the "re-fetch" after grading reads these, not the database. A request
whose updates are flushed but not committed holds both row locks; the autoflush
of the select that begins `advance_applicant_to_interview` takes them, and this
is what orders the check for an existing invite. A Redis error grants the claim,
a claim may expire under a slow grading when `RedisReliable` is FALSE, and a
request may die at any step.

**ExamAuthoring.** `exam`, `round`, `section`, `question` are the tables,
`attempted` the rounds with an attempt. Every route that reads a maximum, a list
of ids or the attempt lock is split there. Start of an attempt is the candidate's
side of `_require_no_attempts`. `late` remembers, for a request, the rounds that
got their first attempt after its check. Deleting a section checks the lock of the
round in the URL, and nothing compares it with the section's own: the request
remembers the round it checked, the paper of another round may change by it
(`Misaddressed`), which `AttemptsFreezeThePaper` excepts and `PapersAreImmutable`,
a finding, does not.

**InterviewInvite.** `invite` by order of creation, `session` what an invite is
bound to, `user` the applicant's guest, `token` the guests' access tokens, `told`
the notices sent. `create_invite` and the auto-advance mint, `list_invites`
completes lazily from rows it read, redeem and resume lock the invite row. The
lock ends with the commit, and the guest token is made after it (`IssueToken`), so
a link may die in between; consent is read by a step of its own and under no lock,
so it may be withdrawn before the start that relied on it commits. Both windows are
written into the properties: a dead link lets nobody in, but who was let in before
still gets a token; a session starts with a consent on record, or with one that was
on record when the request looked.

**EmailOutbox.** `row` is `email_events`; `waiting` and `stale` say which rows'
`next_attempt_at` and visibility timeout lie in the future or past; `batch` and
`outcome` are the memory of a worker between its transactions; `copies` counts
what the relay accepted, with a body and without. Outcomes are recorded by id
alone, so a slow worker writes over a row another worker has reclaimed. A relay
may accept a mail while the call fails. **MailPromise** is the same service
without workers, claims and rows: a mail is open, tried, sent or given up. The
mapping `mail <- [e \in Email |-> MailOf(e)]` reads stage and number of tries off the row and copies off
the relay; `KeepsPromise` says every behaviour of the workers is one of it.

**InterviewSession.** One session over several worker jobs. Four tasks may close
a job: the wall-clock cap, the consent watchdog, the task of the last answer and
the teardown scheduled by the "close" event. The first marks the close; every
await of the close path is a step. `SessionCloses` is the event handler: it
cancels the cap and the watchdog, also when one of them is running the close
path. Scoring requests outlive the worker's timeout and are retried once.

**SpokenInterview**, with **SttStream** and **TurnLoop.** `main` is `run()`,
`consumer` the audio task, `turn` the tasks that speak (the first question and
the replies), `active` the handle `interrupt()` cancels, `phase`/`turns`/
`turn_count`/`message` the brain, `reported` what the hook was told. `turn_count`
is the counter of the code; that it is the number of answers in the transcript is
part of `ClosesOnLastAnswer`, not of the model. A line is streamed and its finished
sentences spoken, then committed, its tail spoken, then reported; `interrupt()`
cancels between any two of these, so that a line may be heard whole and not be in
the transcript: its commit alone decides. The model and the speech vendor may fail
at any of these steps, in the greeting (`GreetingFails`) and in the closing line
(`TurnFails`). `SttStream` is extended, so an answer is heard through one
transcription session with frames, lost connections and reconnects; `finalize` is
two steps around its grace wait. `Stopped` is a cancellation of `run()` while it waits,
for the first question or for the end: in the latter case `run()` cancels the
consumer and waits for it (`CallCloses`), which ends a consumer that hears (and leaves a session open that
was in its grace wait, `CutInGrace`), but not one that waits for a reply, because
`_speak_turn` takes the cancellation of the reply for a barge-in. `TurnLoop` is
the LangGraph of `build.py`; `MirrorsGraph` maps the brain to its nodes
(`node <- NodeOf`); `turns`, `turn_count` and `phase` are the same on both sides.
The brain departs from the graph in two cases, which the property names: an answer
given before the first question is committed (`AnsweredEarly`) is taken, where the
graph would not be waiting yet, and so is one given once `run()` is closing.

**AuthSessions.** One user. Every Redis command is a step, except that a DEL and
the SREM that follows it are one: members of the index whose key is gone have no
effect. A request may die, or its command raise, at any step: after its DEL and
before its answer this takes the session with it (`lost`), for which the code has
no way back. Several `logout_all` calls overlap; each writes the epoch, reads the
index, deletes the keys and drops the index, and the write, or any command after
it, may fail. `now` counts whole seconds, as `int(timestamp())` does.

**Accounts.** `user`, `link` (one-time tokens), `company`, `session` as the pair
of a user and the password that was proved. Password hashing, Google and Redis
lie between a handler's statements; only `create_company_admin` and
`delete_company` lock a row. A revocation that fails, or that misses a sign-in
which had read the account before, marks the session `missed`; the code logs the
first and cannot see the second. `UnverifiedHoldNothing` speaks of live accounts:
the first attempt to prove it for all accounts failed, and TLC shows why with
`MaxRequests = 5`. A login that has checked an unconfirmed password, and whose
account is deleted before `_enforce_email_verified`, finds no live row and passes
(`if row is None: return`); the deletion's revocation may come too early for it.

**PersonalData.** A key names a file of the object store and the row it belongs
to. `store` is what the store holds; `resumes`/`current`/`usersKey` the versions
and their copy in `users`; `card` and `rendered` the scorecard and a PDF not yet
recorded (`score_session` renders for a caller that names the candidate, which none
does today; the erasure deletes the files of one that does); `exec` the memory of each executor. Row locks are explicit
(`LockedByOther`, `Claimable`). `faults` counts refusals of the store and crashes.

**Hiring.** The applicant's row, the mails and audit entries in the order of their
commits, and whether its file exists. That is the order in which mails are
enqueued: the outbox delivers by age, with retries and several workers, and
promises no order of arrival. The unit of work writes a status only when it differs
from the loaded one, and the mail is enqueued in the same transaction. The
resume scorer asks a busy model up to four times; what its client sees is a score
or an error.

**Naipunyam, Consent, WorkerCapacity, Proctoring, CodeExecution.** The state of
the circuit breaker with the calls that have left its lock; the ledger with the
locks that an autoflush takes; the counters of the processes with the writes to
Redis under way, where a job shut down during its first write leaves its count
behind (`EndsUncounted`), because the decrement is registered after it; the browser's queue, the requests' batches and the stored
events; the runs of every call of `run_tests` with its semaphore and the cached
runtimes. Their properties are proved; see below for their small instances.
In modules that a proof module extends together with another one, specifications
and types carry the component's name (`HiringSpec`, `SpokenFairSpec`,
`ConsentTypeOK`, `SttInit`).

**Proofs.** A proof module extends the components of one area, and has one part
for each, with the component's inductive invariant, a lemma for each action, and
its theorems: `ExamTakingProofs`, `EmailOutboxProofs`, `AuthSessionsProofs`,
`InterviewProofs` (InterviewSession, WorkerCapacity, Proctoring, SttStream,
SpokenInterview), `AccountsProofs` (Accounts, Naipunyam), `HiringProofs`
(InterviewInvite, Hiring), `PersonalDataProofs` (PersonalData, Consent) and
`ExamAuthoringProofs` (ExamAuthoring, CodeExecution).

## The runs

| Run | Bounds | Shows |
|---|---|---|
| exam_taking | 2 requests, 2 links, 2 attempts, Redis unreliable, auto-advance on | the database invariants hold when the claim protects nothing |
| exam_claim | 3 requests, 1 link, 1 attempt, Redis reliable, fair | gradings exclude each other; claims are released |
| outbox | 2 workers, 2 mails, 2 attempts, batch 2, crashes, fair | copies, bodies and final failures are right whatever is recorded late; a stuck row is taken back; MailPromise is kept |
| interview | 1 job, 1 to 2 answers, failures and kills, fair | teardown, withdrawal, no scoring after withdrawal |
| interview_rejoin | 2 jobs, 1 answer | first transcript and scorecard win; a scored session has a transcript |
| auth_sessions | 2 requests, 2 tokens, 2 overlapping calls of logout_all, seconds 0 to 4, 1 lost token, failures | sealed sessions stay out while the epoch lives; access tokens stay revoked; rotation keeps a session but where its request died after the DEL |
| invites | 2 requests, 2 invites, 1 notice | one open invite per job; a dead link lets nobody in; a guest keeps its session |
| authoring | 2 requests in flight and 6 in all, 2 rounds, 2 sections, 3 questions, coding | order is strict; a paper changes after the first attempt only by an edit that had passed its check before, or by a deletion addressed to another round |
| personal_data | 2 requests, 2 executors, 3 files, 1 erasure, 1 fault, fair | versions have files; an erasure is stamped once, only when the files are gone, and eventually |
| hiring | 2 requests in flight and 5 in all | the last mail enqueued stands; an applicant has its file |
| accounts | 2 requests in flight and 4 in all, 2 addresses, 2 users, 2 links, confirmation required | sessions follow accounts; no live account is used unconfirmed; one super admin; Google is for candidates |
| spoken | 3 answers, a failing model and speech vendor, a cancellation, 1 reconnect, 2 frames, fair | the interview closes on its last answer, an answer never starts a second voice but in the greeting, sessions are given back, the graph is kept, and the closing ends the call; the exceptions are in the properties |

Why the bounds are enough: the races are between two requests over one row, and
a third adds only waiting (exam_claim has it, because a release by the wrong
holder needs a third). Two links and two attempts make rotation and retakes
happen; two attempts of a mail make a last one and one before it; two jobs make
a rejoin; a refresh token and its successor make a rotation; three files are a
current version, its replacement and a PDF; three questions let two be reordered
while one is deleted; three answers make a first, a middle and a last one.
Seconds are scaled: an access token lives 3, the epoch key 4, so an epoch written
at once expires within the run. The view of `MCAuthSessions` drops what no later
step and no property looks at. `MaxNotices`,
`MaxRequests`, `MaxKeys` and the like bound counters and appear in guards only.

`CHECK_DEADLOCK FALSE` is set everywhere: a finished exam, a drained outbox and
a closed session are ends, and the counters are bounded.

Every property is broken by a mutant: a version of one definition with a
plausible bug (a missing index, SET without NX, the old order of logout_all),
kept beside the definition and marked "Mutant".

### Small instances of the proved modules

`Naipunyam.cfg`, `Consent.cfg`, `Capacity.cfg`, `Proctoring.cfg` and
`CodeExecution.cfg` (with their `MC*` modules) are the instances on which the
theorems of these modules were found; each is exhausted in seconds, with between
2,100 and 108,000 states. `Capacity.cfg` has a process per job, as `run()` does.

### Fairness

* ExamTaking: a running request goes on (its awaits return or raise) and Redis
  expires keys with a TTL. No fairness for arrivals, HR, crashes or deadlines.
* EmailOutbox: time passes (backoff, visibility timeout), and every replica's
  loop polls for ever: `_worker_loop` catches every exception but cancellation.
  Crashes are not fair, and a crashed worker starts again with its service.
* InterviewSession: the event loop runs the steps of a close that has begun,
  LiveKit reports the end of a session, and the watchdog's poll returns. Nothing
  makes a candidate speak, leave or withdraw. WF on `CloseStep` includes the
  timeout of the scoring post, which ends it either way.
* PersonalData: every executor polls for ever (`erasure_executor_task` catches all
  exceptions); faults are bounded, so an erasure is delayed finitely often.
* SpokenInterview: the event loop runs every task that is ready; calls to the
  model and to the speech services have timeouts. Nothing makes a candidate
  speak or a track deliver a frame or end (`FrameAfterEnd`, by which a consumer
  notices the end of the interview, is a frame), and nothing cancels `run()`.

## Proofs

Each theorem holds for every value of the constants, under the assumptions the
base module states (bounds are positive, flags are Boolean) or the theorem names
(`Positive`, `Sorts`, `Placed`, `ProcessPerJob`, `Configured`, and `EpochReadFails = FALSE` for
`SealedSessionsStayOut`, as in its run: the code fails open when the epoch cannot
be read). The argument always has three parts: `Init => IInv`, one lemma per
action, or group of actions that change the same variables, for
`IInv /\ [Next]_vars => IInv'`, and `IInv` implies each property; an action
property follows from `IInv` and the step. None of the properties is inductive by
itself; what the invariant adds is the reason the code is right:

| Component | Theorems about | What the inductive invariant adds |
|---|---|---|
| ExamTaking | `TypeOK`, `OneLiveAttempt`, `CompletedLinkHasResult`, `InvitesAreDistinct`, `GradingIsExclusive`, `GradedStaysGraded` | `CtxInv`: a request holds an attempt that exists, with a status it really had; `LockInv`: two flushed requests hold different rows; `MintInv`: a flushed request that will mint still finds no invite of its own; `ClaimInv`: with a reliable Redis, a request between SET and DEL has its key there |
| EmailOutbox | `TypeOK`, `CopiesWithinAttempts`, `BodyOutlivesDelivery`, `GivenUpOnlyWhenExhausted`, the refinement `KeepsPromise` | `ClaimedOnce`: an attempt of a mail is held by one worker; `Counted`: copies and attempts still held are no more than attempts claimed; `HeldInv`: what a worker holds is no younger than the row, and a body is lost only to a copy that carried it |
| InterviewSession | types, `WithdrawnIsNotScored`, `ScoredSessionHasTranscript`, `FirstRecordWins` | `JobIsSound`: the teardown follows the end of the session, the last close an answer, and past the transcript write what was said is on record, unless a write was lost; `Unscored`: a job without a closer, or closed by the watchdog, never reached the scorer; `ScoringIsRecorded`: a request at the scorer comes with a transcript |
| SpokenInterview | types, `SessionsAreClosed`, `ClosesOnLastAnswer`, `OnlyGreetingIsTalkedOver`, the refinement `MirrorsGraph` | `SessionIsHeld`: a transcription session is open only while the candidate speaks, or was cut in its grace wait; `OneReply`: the consumer waits for the reply it started; `CountIsKept`: the counter is the number of answers, and a closing line follows the last one; `QuestionIsNew`: the first question is committed once; `LinesAlternate`: unless an answer came early, the last line's speaker tells the graph's node; `QuestionIsActive`: a barge-in finds the first question as long as it is under way |
| SttStream | `FinalIsLatestWithoutReconnect`, `ClosedHasNoReader` | `Unsealed`: nothing follows a sentinel until a reconnect; `Attached`: a reader runs only on a connection finalize has not closed |
| AuthSessions | types, `SealedSessionsStayOut`, `AccessTokensStayRevoked`, `RotationKeepsSession` | `KeysAreMinted`: every key, and every session a request works for, was minted; `EpochOutlivesTokens` and `NoEpochYet`: the epoch key expires after every token older than it; `SealedKeysAreStale`: while the epoch lives, no request is past the check for a sealed session; `Held`: a session neither signed out nor lost with a request has a key, or a request about to write one |
| Accounts | types, `SessionsFollowAccount`, `UnverifiedHoldNothing`, `OneAdminPerCompany`, `GoogleIsForCandidates` | `Sound`: what a request remembers of an account still holds, or it is marked stale; `PasswordsAreFresh`: a password about to be set is nobody's and proved by no session, so a change cuts off every older one; `AdminIsAlone`: one request at a time may create the super admin, and only when there is none; `LinksHaveUsers`: rows are never taken back |
| Naipunyam | `CountersAgree`, `SignedInHasRow`, `FollowsDiagram`, `ShieldsTheService` | the counters' bounds in each state of the breaker |
| InterviewInvite | types, `OneOpenInvitePerJob`, `DeadLinksStayDead`, `GuestKeepsSession` | `HoldsItsRow`: an invite under a row lock stands as its holder read it, which `LocksExclude` makes so; `RowIsBound`: an invite has a guest exactly when it has a session; `AnswersAreOpen`, of a step: who is let in is let in by an open link |
| Hiring | types, `LastMailStands`, `ApplicantHasFile` | `RequestIsSound`: a request past its first step is about a row that exists, an upload about one that does not yet and whose file is there; `OneUpload` |
| PersonalData | types, `VersionsHaveFiles`, `ErasedOnce`, `StampedOnlyWhenGone` | `RequestsAreSound`: nobody else knows the key of a file under way; `DueIsQuiet`: nothing of the candidate runs once an erasure is due; `ErasuresAreSound`: one executor holds a due erasure, and still has every key whose file is left |
| Consent | `OneActivePerType`, `WithdrawalCovers`, `AnswersNameRows`, `LedgerOnlyGrows`, and that entries a client prepends to X-Forwarded-For change nothing | `LocksAreExclusive`: a flushed row is one request's; `Covering`: a withdrawal has seen, or will still look up, each row active at its start |
| ExamAuthoring | `OrderIsStrict`, `AttemptsFreezeThePaper` | `Numbered`: numbers and positions do not exceed the rows made; `Orderly`: what the unique indexes enforce; `Remembers`: what a request read are rows that were made; `Guarded`: what it is about to write is in no round that had an attempt at its check, and a section to be deleted was checked through a round that had none |
| WorkerCapacity | `CounterIsExact`, `PublishedIsOneProcess`; `NoDeadRoom` and `NobodyIsTurnedAway` with a process per job | the counter of a process is the number of interviews counted on it, from finiteness of `Interview`; with a process per job the main process counts none |
| Proctoring | `ScoreIsOfStored`, `BatchesAreWhole` | `Carried`: what a request has read is stored or its own |
| CodeExecution | `PermitsAreExact`, `OneLoader`, `ScoresAreFinal` | `ResultWhenDone`: a run has a result exactly when it is over |

Two refinements are proved. `KeepsPromise`: the initial states of EmailOutbox map
to initial states of MailPromise and every step of a worker to a step of it or to
a stutter. `MirrorsGraph`: the same for the conversation and TurnLoop; the mapped
node is read off who spoke last, which is why `LinesAlternate` is needed, and a
step with an early answer, or once `run()` is closing, is allowed by the property. The proof about the
conversation uses the invariant of SttStream for the session in which an answer
is heard.

Only model-checked: the liveness properties (`ClaimsAreReleased`,
`StuckIsReclaimed`, `AbruptIsRecorded`, `WithdrawalEndsInterview`,
`DueIsCompleted`, `ClosingEndsCall`), because fairness and ENABLED are outside
the prover. The safety properties of the runs are all proved; the runs remain,
because they show that the interesting states are reached.

## Promises the code does not keep

Where a doc, a comment or a message promises more than the code does, the promise
is a definition at the end of its module and a finding of PROJECT.json with the
line that breaks it. Put it into a configuration of its module as an INVARIANT or
a PROPERTY to see the counterexample; five configurations that do so are kept:
`ExamRegrade.cfg`, `ExamRevocation.cfg`, `OutboxCrash.cfg`,
`InterviewWithdrawal.cfg`, `AuthLogoutAll.cfg`.

| Promise | Counterexample |
|---|---|
| `ResultIsFinal` | a second submit re-grades: the "re-fetch" returns the cached object |
| `RevocationSticks` | start and submit write back the status of the link they resolved earlier |
| `EveryEmailSettles` | `attempts < max_attempts` guards the reclaim too: a crash in the last attempt leaves the row in `sending` |
| `WithdrawalIsRecorded` | the close event cancels the watchdog that is recording the withdrawal |
| `LogoutAllClosesTheWindow` | a refresh past its epoch check stores its key after logout_all |
| `OneGuestPerApplicant` | two links redeemed at once make two guests |
| `CompletionToldOnce` (`MaxNotices = 2`) | two lists complete one invite |
| `FinishedIsFinal` | a held guest token enters a completed session |
| `PapersAreImmutable` | a section of a frozen round is deleted through the URL of another round |
| `NothingLingers` | deleting a round leaves the questions of its sections live |
| `ErasureIsComplete` | the scorecard of a purged session is not found |
| `UsersFollowCurrent` | set-current after the version was deleted |
| `OnlyHirableAreHired`, `InterviewedCanBeHired` | the PATCH sets hired directly; the decision looks at the stored status, the page at a derived one |
| `UploadSurvivesEmbedding` | a failed store of the vector expires the row the answer is built from |
| `DeletedCompanyIsEmpty` | a manager is provisioned while the company is deleted |
| `OwnPasswordIsVerified` | changing the bootstrap password does not confirm the address |
| `LinkSetsPasswordOnce` | two resets with one link |
| `OneVoice`, `ReportedOnce` | an answer during the greeting starts a second speaker |
| `RunEnds` | the candidate's track ends: `run()` waits for ever |
| `FinalIsLatest` | finalize stops at the sentinel of a replaced reader |
| `ProbesAreLimited` (thresholds 1 and 1) | admitted probes are not counted |
| `WithdrawalIsTotal`, `RevokedByOne` | a grant commits between two types; two withdrawals read the same row |
| `CeilingHolds` (a process per job, `OnePerProcess`) | the counter that is compared is the main process's, which runs no job |
| `NoDeadRoom` (threads, `AllInMain`) | a token is issued by what was published before jobs that are joining start |
| `ScoreIsCurrent` | of two batches, the one that read fewer events commits last |
| `SharedBound`, `NeverRaises`, `NeverRoundedUp` | the semaphore is per call; a garbled body raises; points are rounded before the percentage |

Some findings are exceptions inside a property that otherwise holds, each at its
line: the speech of the closing raises and `run()` waits on (`ClosingEndsCall`); a
`finalize` cancelled in its grace wait leaves its socket (`SessionsAreClosed`); a
job shut down during its first write to Redis is counted for ever
(`CounterIsExact`). Two have no property: `_speak_turn` swallows the cancellation of
`run()`, and a line is committed before its tail is spoken.

## What the models leave out

Grading is a free pass or fail, a transcript is the number of the job it came
from, a mail is whether it has a body, a password is the number of the request
that set it, a resume is its key. Tenancy, authorisation and input validation
refuse a request before it changes state. Postgres is READ COMMITTED with row
locks and unique indexes; Redis executes one command at a time. Timers are free
to fire at any time after they are set, so no property depends on a duration. A
refresh key's own 30 days and legacy keys without a timestamp are not modelled.
`EpochReadFails` is part of `AuthSessions` but FALSE in its run: reading the epoch
fails open by documented policy, and then nothing about refreshes can be
promised. In `PersonalData` requests of the candidate end before an erasure is
due (30 days of grace), so none runs beside an executor.

### Not modelled

* Rate limiting: a fixed window in Redis that only refuses.
* Jobs, notifications, profile: single-statement writes. A job description is a
  file under a fixed key beside its row (see the plan).
* Scorecard reading and analytics: read-only.
* Clients of the model, speech and avatar vendors, question
  generator, embedder: stateless; their outcome is free in the modules that call
  them.
* Templates, web client (but for the proctoring queue), migrations, deployment.

## Plan

Done: everything in the table of components. Left, in this order:

1. The promises that are findings, proved under the condition that excludes their
   counterexample, as `FinalIsLatestWithoutReconnect` is.
2. `ExamTaking` and `InterviewInvite` composed through the invite a submit mints;
   `AuthSessions` as the session store of `Accounts`.
3. The upload of a job description, which stores a file beside its row as
   `PersonalData` does for resumes, and the link expiry of `InterviewInvite`
   should a rule ever depend on it.

## Running

    tlc -workers 2 -config ExamTaking.cfg MCExamTaking.tla
    tlapm ExamTakingProofs.tla

PROJECT.json lists every run with its module and configuration.
