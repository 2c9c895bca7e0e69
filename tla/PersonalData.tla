------------------------------ MODULE PersonalData ------------------------------
(***************************************************************************)
(* What the platform keeps about one candidate, and how it is erased:       *)
(*   - the resume versions of data_gateway routers/resume.py, with the copy *)
(*     of the current one in the users row;                                 *)
(*   - the applicant row HR creates in routers/hr_applicants.py;            *)
(*   - the interview session, its scorecard and the PDF rendered in the     *)
(*     background (feedback_billing pdf_render.py);                         *)
(*   - the nightly purge of old sessions (data_gateway retention.py);       *)
(*   - the right to erasure: the request (admin_ops routers/erasure.py) and *)
(*     the executors that carry it out (erasure_executor.py, s3_client.py). *)
(*                                                                         *)
(* Rows live in Postgres, files in an object store: no transaction spans    *)
(* both.  A handler reads in one step and commits in another; a statement   *)
(* that had to wait for another transaction acts on the rows it saw before. *)
(* A process may die between any two steps.                                 *)
(*                                                                         *)
(* A key names one stored file and, for a resume, its row as well: keys are *)
(* drawn in the order of uploaded_at.  Text and scores go with their row.   *)
(***************************************************************************)
EXTENDS Integers, FiniteSets

CONSTANTS
    Request,      \* requests of the candidate that may be in flight at once
    Executor,     \* admin_ops instances that run the erasure task
    MaxKeys,      \* bound: files ever stored
    MaxErasures,  \* bound: erasure requests ever made
    MaxFaults     \* bound: crashes and refusals of the object store

ASSUME BoundsAssumption == /\ MaxKeys \in Nat \ {0}
                           /\ MaxErasures \in Nat \ {0}
                           /\ MaxFaults \in Nat

VARIABLES
    account,    \* users: active, closing (deleted_at set) or erased
    usersKey,   \* users.resume_s3_key, 0 when NULL
    resumes,    \* keys with a row in resumes
    current,    \* those with is_current
    applicant,  \* the row in applicants
    session,    \* the row in sessions: live, soft (deleted_at set) or gone
    card,       \* the row in scorecards
    rendered,   \* key of a PDF that is stored but not yet recorded, or 0
    store,      \* keys in the object store
    lastKey,    \* the last key drawn
    req,        \* what each request of the candidate remembers
    erasure,    \* erasure_requests by order of creation
    audits,     \* entries "dpdp_erasure_completed" of each request
    admin,      \* an erasure request that has passed its checks
    exec,       \* what each executor is doing
    faults

vars == <<account, usersKey, resumes, current, applicant, session, card, rendered,
          store, lastKey, req, erasure, audits, admin, exec, faults>>

resumeVars == <<usersKey, resumes, current>>
otherRows == <<account, applicant, session, card, rendered>>
erasureVars == <<erasure, audits, admin, exec>>

Key == 1..MaxKeys
KeyOrNull == 0..MaxKeys
Erasure == 1..MaxErasures

\* seen: the rows a statement found; holds: it has locked them, or waits for others.
Idle == [pc |-> "idle", op |-> "none", key |-> 0, seen |-> {}, holds |-> FALSE,
         next |-> 0, was |-> FALSE]
Resting == [pc |-> "resting", found |-> {}, on |-> 0, keys |-> {}]

TypeOK ==
    /\ account \in {"active", "closing", "erased"}
    /\ usersKey \in KeyOrNull
    /\ resumes \subseteq Key /\ current \subseteq resumes
    /\ Cardinality(current) <= 1    \* uq_resumes_current_per_user
    /\ applicant \in [row : {"none", "held", "redacted"}, mine : BOOLEAN, key : KeyOrNull]
    /\ session \in {"live", "soft", "gone"}
    /\ card \in [row : BOOLEAN, pdf : KeyOrNull]
    /\ rendered \in KeyOrNull
    /\ store \subseteq 1..lastKey /\ lastKey \in KeyOrNull
    /\ \A r \in Request : DOMAIN req[r] = DOMAIN Idle
    /\ erasure \in [Erasure -> {"none", "pending", "due", "completed"}]
    /\ audits \in [Erasure -> Nat]
    /\ admin \in BOOLEAN
    /\ \A x \in Executor : exec[x].found \subseteq Erasure /\ exec[x].keys \subseteq Key
    /\ faults \in 0..MaxFaults

\* Someone in an interview: a registered user, or the guest that redeem_invite
\* bound to an applicant whose resume HR had stored.
Init ==
    /\ account = "active" /\ usersKey = 0 /\ resumes = {} /\ current = {}
    /\ lastKey \in {0, 1} /\ store = 1..lastKey
    /\ applicant = [row |-> IF lastKey = 0 THEN "none" ELSE "held",
                    mine |-> lastKey = 1, key |-> lastKey]
    /\ session = "live" /\ card = [row |-> FALSE, pdf |-> 0] /\ rendered = 0
    /\ req = [r \in Request |-> Idle]
    /\ erasure = [e \in Erasure |-> "none"] /\ audits = [e \in Erasure |-> 0]
    /\ admin = FALSE
    /\ exec = [x \in Executor |-> Resting]
    /\ faults = 0

\* An access token outlives the soft delete by 15 minutes at most when its
\* revocation fails; the 30 days of grace outlive every request and task.
CanAct == \A e \in Erasure : erasure[e] \in {"none", "pending"}

NewKey == IF lastKey < MaxKeys THEN {lastKey + 1} ELSE {}
Newest(keys) == IF keys = {} THEN 0 ELSE CHOOSE k \in keys : \A l \in keys : l <= k

Moves(r, rec) == req' = [req EXCEPT ![r] = rec]
Step(r, pc) == Moves(r, [req[r] EXCEPT !.pc = pc, !.seen = {}, !.holds = FALSE])
At(r, op, pc) == req[r].op = op /\ req[r].pc = pc

LockedByOther(r, keys) ==
    \E q \in Request \ {r} : req[q].holds /\ req[q].seen \cap keys # {}

-----------------------------------------------------------------------------
(* Resume versions.  Upload and set-current demote the current version in   *)
(* one statement and promote theirs in a later one of the same transaction: *)
(* a version that became current in between is not demoted, and the partial *)
(* unique index then fails the transaction.                                 *)

\* upload_file raises what put_object raises: the request then ends as if never made.
UploadFile(k) == store' = store \cup {k}

UploadPuts(r) ==
    /\ req[r] = Idle /\ CanAct
    /\ \E k \in NewKey :
         /\ UploadFile(k) /\ lastKey' = k
         /\ Moves(r, [Idle EXCEPT !.op = "upload", !.pc = "loaded", !.key = k])
    /\ UNCHANGED <<resumeVars, otherRows, erasureVars, faults>>

SetReads(r, k) ==
    /\ req[r] = Idle /\ CanAct /\ k \in resumes
    /\ Moves(r, [Idle EXCEPT !.op = "set", !.pc = "loaded", !.key = k])
    /\ UNCHANGED <<resumeVars, otherRows, erasureVars, store, lastKey, faults>>

Demote(r) ==
    /\ req[r].op \in {"upload", "set"} /\ req[r].pc = "loaded"
    /\ Moves(r, [req[r] EXCEPT !.pc = "demoted", !.seen = current,
                               !.holds = ~LockedByOther(r, current)])
    /\ UNCHANGED <<resumeVars, otherRows, erasureVars, store, lastKey, faults>>

Promotable(r, key) == current \subseteq req[r].seen \cup {key}

SyncUsersTable(key) == usersKey' = key

UploadCommits(r) ==
    /\ At(r, "upload", "demoted") /\ ~LockedByOther(r, req[r].seen)
    /\ IF Promotable(r, req[r].key)
       THEN /\ resumes' = resumes \cup {req[r].key}
            /\ current' = {req[r].key} \cup (current \ req[r].seen)
            /\ SyncUsersTable(req[r].key)
            /\ Moves(r, Idle)
       ELSE Step(r, "cleanup") /\ UNCHANGED resumeVars
    /\ UNCHANGED <<otherRows, erasureVars, store, lastKey, faults>>

\* The update by id affects no row when the version is gone; users follows anyway.
SetCommits(r) ==
    LET k == req[r].key
    IN /\ At(r, "set", "demoted") /\ ~LockedByOther(r, req[r].seen \cup {k})
       /\ IF k \notin resumes \/ Promotable(r, k)
          THEN /\ current' = (current \ req[r].seen) \cup ({k} \cap resumes)
               /\ SyncUsersTable(k)
          ELSE UNCHANGED <<current, usersKey>>
       /\ Moves(r, Idle)
       /\ UNCHANGED <<resumes, otherRows, erasureVars, store, lastKey, faults>>

DeleteReads(r, k) ==
    /\ req[r] = Idle /\ CanAct /\ k \in resumes
    /\ Moves(r, [Idle EXCEPT !.op = "delete", !.pc = "loaded", !.key = k,
                             !.was = k \in current])
    /\ UNCHANGED <<resumeVars, otherRows, erasureVars, store, lastKey, faults>>

\* The row is deleted but not committed; the newest other version is to follow it.
DeletePicks(r) ==
    /\ At(r, "delete", "loaded") /\ ~LockedByOther(r, {req[r].key})
    /\ Moves(r, [req[r] EXCEPT !.pc = "picked", !.seen = {req[r].key}, !.holds = TRUE,
                   !.next = IF req[r].was THEN Newest(resumes \ {req[r].key}) ELSE 0])
    /\ UNCHANGED <<resumeVars, otherRows, erasureVars, store, lastKey, faults>>

\* Mutant: the file is dropped although the transaction failed.
DeleteFailsTo(r) == "drop"

DeleteFails(r) == "idle"

DeleteCommits(r) ==
    LET k == req[r].key  n == req[r].next
    IN /\ At(r, "delete", "picked") /\ ~LockedByOther(r, {n})
       /\ IF n \notin resumes \/ Promotable(r, n)
          THEN /\ resumes' = resumes \ {k}
               /\ current' = (current \ {k}) \cup ({n} \cap resumes)
               /\ IF req[r].was THEN SyncUsersTable(n) ELSE UNCHANGED usersKey
               /\ Step(r, "drop")
          ELSE /\ UNCHANGED resumeVars
               /\ IF DeleteFails(r) = "idle" THEN Moves(r, Idle) ELSE Step(r, DeleteFails(r))
       /\ UNCHANGED <<otherRows, erasureVars, store, lastKey, faults>>

\* _delete_from_s3: every error is logged and swallowed.
DropObject(r) ==
    /\ req[r].pc \in {"cleanup", "drop"}
    /\ \/ store' = store \ {req[r].key} /\ UNCHANGED faults
       \/ faults < MaxFaults /\ faults' = faults + 1 /\ UNCHANGED store
    /\ Moves(r, Idle)
    /\ UNCHANGED <<resumeVars, otherRows, erasureVars, lastKey>>

\* The database refuses the transaction of an upload.
UploadFails(r) ==
    /\ At(r, "upload", "demoted") /\ faults < MaxFaults
    /\ faults' = faults + 1
    /\ Step(r, "cleanup")
    /\ UNCHANGED <<resumeVars, otherRows, erasureVars, store, lastKey>>

RequestDies(r) ==
    /\ req[r] # Idle /\ faults < MaxFaults
    /\ faults' = faults + 1
    /\ Moves(r, Idle)
    /\ UNCHANGED <<resumeVars, otherRows, erasureVars, store, lastKey>>

-----------------------------------------------------------------------------
(* The applicant, the interview and its scorecard.                          *)

Score ==
    /\ session = "live" /\ ~card.row
    /\ card' = [row |-> TRUE, pdf |-> 0]
    /\ UNCHANGED <<resumeVars, account, applicant, session, rendered, store, lastKey, req,
                   erasureVars, faults>>

\* score_session renders for a caller that names the candidate; internal_score and the
\* scripts do not.  The erasure has to cope with the files of one that does.
RenderPuts ==
    /\ card.row /\ card.pdf = 0 /\ rendered = 0 /\ CanAct
    /\ \E k \in NewKey : lastKey' = k /\ store' = store \cup {k} /\ rendered' = k
    /\ UNCHANGED <<resumeVars, account, applicant, session, card, req, erasureVars, faults>>

\* _update_pdf_key: an update by id in a transaction of its own; errors are swallowed.
RenderRecords ==
    /\ rendered # 0
    /\ \/ /\ card' = IF card.row THEN [card EXCEPT !.pdf = rendered] ELSE card
          /\ UNCHANGED faults
       \/ faults < MaxFaults /\ faults' = faults + 1 /\ UNCHANGED card
    /\ rendered' = 0
    /\ UNCHANGED <<resumeVars, account, applicant, session, store, lastKey, req,
                   erasureVars>>

\* turns and integrity_events cascade; scorecards has no foreign key to sessions.
\* The delete waits for the row locks of an executor.
SurvivesPurge(c) == c

PurgeExpiredSession ==
    /\ session \in {"live", "soft"} /\ rendered = 0
    /\ \A x \in Executor : exec[x].pc # "erasing"
    /\ session' = "gone"
    /\ card' = SurvivesPurge(card)
    /\ UNCHANGED <<resumeVars, account, applicant, rendered, store, lastKey, req,
                   erasureVars, faults>>

-----------------------------------------------------------------------------
(* The right to erasure.                                                    *)

Open(e) == erasure[e] \in {"pending", "due"}

\* Several administrators may ask: the check and the insert are separate.
RequestErasureReads ==
    /\ ~admin /\ \A e \in Erasure : ~Open(e)
    /\ admin' = TRUE
    /\ UNCHANGED <<resumeVars, otherRows, store, lastKey, req, erasure, audits, exec, faults>>

Admitted == \A e \in Erasure : ~Open(e)

FirstUnused(e) == /\ erasure[e] = "none"
                  /\ \A f \in 1..(e - 1) : erasure[f] # "none"

\* The first of several administrators leaves the others to meet the index.
RequestErasureCommits ==
    /\ admin
    /\ admin' \in BOOLEAN
    /\ IF Admitted
       THEN \E e \in Erasure :
              /\ FirstUnused(e)
              /\ erasure' = [erasure EXCEPT ![e] = "pending"]
              /\ account' = IF account = "active" THEN "closing" ELSE account
              /\ session' = IF session = "live" THEN "soft" ELSE session
       ELSE UNCHANGED <<erasure, account, session>>
    /\ UNCHANGED <<resumeVars, applicant, card, rendered, store, lastKey, req, audits,
                   exec, faults>>

\* scheduled_for, 30 days later.
ComesDue(e) ==
    /\ erasure[e] = "pending"
    /\ \A r \in Request : req[r] = Idle
    /\ rendered = 0
    /\ erasure' = [erasure EXCEPT ![e] = "due"]
    /\ UNCHANGED <<resumeVars, otherRows, store, lastKey, req, audits, admin, exec, faults>>

Runs(x, rec) == exec' = [exec EXCEPT ![x] = rec]

\* The discovery query takes no locks.
Discover(x) ==
    /\ exec[x] = Resting
    /\ \E e \in Erasure : erasure[e] = "due"
    /\ Runs(x, [Resting EXCEPT !.pc = "polling",
                               !.found = {e \in Erasure : erasure[e] = "due"}])
    /\ UNCHANGED <<resumeVars, otherRows, store, lastKey, req, erasure, audits, admin, faults>>

\* Mutant: the claim trusts the discovery query.
ClaimableAlways(e) == TRUE

\* status = 'pending' ... FOR UPDATE SKIP LOCKED
Claimable(e) == erasure[e] = "due" /\ \A x \in Executor : exec[x].on # e

\* The resumes rows are deleted before their keys are read.
CollectedKeys ==
    {usersKey, IF session # "gone" /\ card.row THEN card.pdf ELSE 0} \ {0}

Claim(x, e) ==
    /\ exec[x].pc = "polling" /\ e \in exec[x].found
    /\ Runs(x, IF Claimable(e)
               THEN [pc |-> "erasing", found |-> exec[x].found \ {e}, on |-> e,
                     keys |-> CollectedKeys]
               ELSE [exec[x] EXCEPT !.found = @ \ {e}])
    /\ UNCHANGED <<resumeVars, otherRows, store, lastKey, req, erasure, audits, admin, faults>>

CycleEnds(x) ==
    /\ exec[x].pc = "polling" /\ exec[x].found = {}
    /\ Runs(x, Resting)
    /\ UNCHANGED <<resumeVars, otherRows, store, lastKey, req, erasure, audits, admin, faults>>

\* An absent object counts as deleted.
DeleteOne(x, k) ==
    /\ exec[x].pc = "erasing" /\ k \in exec[x].keys
    /\ store' = store \ {k}
    /\ Runs(x, [exec[x] EXCEPT !.keys = @ \ {k}])
    /\ UNCHANGED <<resumeVars, otherRows, lastKey, req, erasure, audits, admin, faults>>

RolledBack(x) == [exec[x] EXCEPT !.pc = "polling", !.on = 0, !.keys = {}]

\* Mutant: an error of the store is logged and the erasure goes on.
AfterRefusalGoesOn(x) == [exec[x] EXCEPT !.keys = {}]

\* Mutant: nor is the transaction rolled back: its row lock stays.
AfterRefusalHangs(x) == [exec[x] EXCEPT !.pc = "hanging"]

AfterRefusal(x) == RolledBack(x)

StoreRefuses(x) ==
    /\ exec[x].pc = "erasing" /\ exec[x].keys # {} /\ faults < MaxFaults
    /\ faults' = faults + 1
    /\ Runs(x, AfterRefusal(x))
    /\ UNCHANGED <<resumeVars, otherRows, store, lastKey, req, erasure, audits, admin>>

ExecutorDies(x) ==
    /\ exec[x] # Resting /\ faults < MaxFaults
    /\ faults' = faults + 1
    /\ Runs(x, Resting)
    /\ UNCHANGED <<resumeVars, otherRows, store, lastKey, req, erasure, audits, admin>>

RowsErased ==
    /\ resumes' = {} /\ current' = {} /\ usersKey' = 0
    /\ account' = "erased" /\ session' = "gone"
    /\ card' = IF session # "gone" THEN [row |-> FALSE, pdf |-> 0] ELSE card
    /\ applicant' = IF applicant.mine
                    THEN [row |-> "redacted", mine |-> FALSE, key |-> 0] ELSE applicant

Stamped(e) ==
    /\ erasure' = [erasure EXCEPT ![e] = "completed"]
    /\ audits' = [audits EXCEPT ![e] = @ + 1]

EraseCommits(x) ==
    /\ exec[x].pc = "erasing" /\ exec[x].keys = {}
    /\ RowsErased /\ Stamped(exec[x].on)
    /\ Runs(x, RolledBack(x))
    /\ UNCHANGED <<rendered, store, lastKey, req, admin, faults>>

-----------------------------------------------------------------------------

Candidate(r) ==
    \/ UploadPuts(r) \/ Demote(r) \/ UploadCommits(r) \/ UploadFails(r)
    \/ \E k \in Key : SetReads(r, k) \/ DeleteReads(r, k)
    \/ SetCommits(r) \/ DeletePicks(r) \/ DeleteCommits(r)
    \/ DropObject(r) \/ RequestDies(r)

Erases(x) ==
    \/ Discover(x) \/ CycleEnds(x) \/ EraseCommits(x)
    \/ \E e \in Erasure : Claim(x, e)
    \/ \E k \in Key : DeleteOne(x, k)

Next ==
    \/ \E r \in Request : Candidate(r)
    \/ Score \/ RenderPuts \/ RenderRecords
    \/ PurgeExpiredSession
    \/ RequestErasureReads \/ RequestErasureCommits
    \/ \E e \in Erasure : ComesDue(e)
    \/ \E x \in Executor : Erases(x) \/ StoreRefuses(x) \/ ExecutorDies(x)

\* Every instance polls for ever; faults are bounded.
Fairness == \A x \in Executor : WF_vars(Erases(x))

Spec == Init /\ [][Next]_vars /\ Fairness

-----------------------------------------------------------------------------

(* A resume version that is listed can be downloaded: the file is stored     *)
(* before its row appears and removed after it is gone, whatever races,     *)
(* fails or crashes.  Only an executor at work removes files first.         *)
VersionsHaveFiles == CanAct => resumes \subseteq store

(* However often instances poll, crash and find the same request, it is     *)
(* carried out and audited once.                                            *)
ErasedOnce == \A e \in Erasure : audits[e] = IF erasure[e] = "completed" THEN 1 ELSE 0

(* "will NOT stamp completed unless all collected object keys have been      *)
(* physically deleted" (erasure_executor.py:76): the file of the current    *)
(* resume and, while the session exists, that of the scorecard are gone.    *)
StampedOnlyWhenGone ==
    [][\A e \in Erasure :
         erasure'[e] = "completed" /\ erasure[e] # "completed"
           => /\ usersKey \notin store
              /\ session # "gone" => card.pdf \notin store]_vars

(* A refused deletion or a crash of the executor only delays an erasure.     *)
DueIsCompleted == \A e \in Erasure : erasure[e] = "due" ~> erasure[e] = "completed"

(* "all DB PII rows have been deleted / anonymised" (erasure_executor.py:75) *)
(* and every file about the candidate is gone once the request is stamped.  *)
ErasureIsComplete ==
    \A e \in Erasure : erasure[e] = "completed" => ~card.row

(* users.resume_s3_key "keeps pointing at the active version"                *)
(* (resume.py:267).                                                         *)
UsersFollowCurrent == CanAct => usersKey = Newest(current)
=============================================================================
