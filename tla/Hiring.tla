--------------------------------- MODULE Hiring ---------------------------------
(***************************************************************************)
(* One applicant of a company, from the upload of the resume to the         *)
(* decision: data_gateway routers/hr_applicants.py and hr_pipeline.py, with  *)
(* the remote scoring and embedding calls of scoring_client.py and          *)
(* embedding_client.py.                                                     *)
(*                                                                         *)
(* Two routes write the status: the PATCH of hr_applicants and the decision *)
(* of hr_pipeline.  Both load the applicant, set the attribute of the       *)
(* loaded object and commit without a lock.  The unit of work compares the  *)
(* attribute with the loaded value, so setting the value that was loaded    *)
(* writes nothing, and the mail is enqueued in the same transaction.        *)
(*                                                                         *)
(* Of the scores and the embedding only their presence is kept.             *)
(***************************************************************************)
EXTENDS Integers, Sequences, SequencesExt

CONSTANTS
    HrRequest,      \* HTTP requests of HR users that may be in flight at once
    MaxRequests   \* bound: requests ever made

ASSUME BoundAssumption == MaxRequests \in Nat \ {0}

VARIABLES
    file,       \* the resume is in the object store
    row,        \* the row in applicants exists
    status,     \* applicants.status
    scored,     \* applicants.ats_overall is set
    embedded,   \* applicants.embedding is set
    carded,     \* the latest invite with a session has a scorecard
    mails,      \* decision mails in the outbox, in the order they were enqueued
    audits,     \* audit_log entries of decisions, in commit order
    task,        \* what each request remembers
    answered,   \* what the upload that inserted the row told its caller
    served      \* requests made so far

hiringVars == <<file, row, status, scored, embedded, carded, mails, audits, task, answered, served>>

Status == {"new", "shortlisted", "rejected", "interviewed", "hired"}
Decision == {"hired", "rejected"}
Mailed == {"shortlisted", "rejected", "hired"}   \* _DECISION_EMAIL_STATUSES

NoTask == [pc |-> "idle", op |-> "none", loaded |-> "new", to |-> "new", score |-> FALSE]

HiringTypeOK ==
    /\ {file, row, scored, embedded, carded} \subseteq BOOLEAN
    /\ status \in Status
    /\ (scored \/ embedded \/ mails # <<>> \/ audits # <<>>) => row
    /\ mails \in Seq(Mailed)
    /\ \A i \in DOMAIN audits : audits[i] \in [decision : Decision, previous : Status]
    /\ \A r \in HrRequest : /\ task[r].loaded \in Status /\ task[r].to \in Status
                            /\ task[r].pc # "idle" => task[r].op # "none"
    /\ answered \in {"nothing", "created", "failed"}
    /\ served \in 0..MaxRequests

HiringInit ==
    /\ file = FALSE /\ row = FALSE /\ status = "new"
    /\ scored = FALSE /\ embedded = FALSE /\ carded = FALSE
    /\ mails = <<>> /\ audits = <<>>
    /\ task = [r \in HrRequest |-> NoTask]
    /\ answered = "nothing" /\ served = 0

Starts(r, rec) ==
    /\ task[r] = NoTask /\ served < MaxRequests
    /\ served' = served + 1
    /\ task' = [task EXCEPT ![r] = rec]

At(r, op, pc) == task[r].op = op /\ task[r].pc = pc
Goto(r, pc) == task' = [task EXCEPT ![r].pc = pc] /\ UNCHANGED served
Ends(r) == task' = [task EXCEPT ![r] = NoTask] /\ UNCHANGED served

hiring == <<status, mails, audits>>

-----------------------------------------------------------------------------
(* Upload: the file first, then the row; a single upload is scored after    *)
(* its row is committed, a bulk upload before (the scorer extracts name and *)
(* address).                                                                *)

UploadPuts(r, op, pc) ==
    /\ ~row /\ ~file
    /\ file' = TRUE
    /\ Starts(r, [NoTask EXCEPT !.op = op, !.pc = pc])
    /\ UNCHANGED <<row, hiring, scored, embedded, carded, answered>>

CreatePuts(r) == UploadPuts(r, "create", "insert")

\* The next file of a batch; one that is refused only makes a line of the answer.
BulkPuts(r) == UploadPuts(r, "bulk", "prescore")

\* What the model answers to one call: a score, text that does not parse, a status
\* that is retried (or no connection), or a status that is not.
ModelAnswer == {"score", "garbled", "busy", "refused"}

ScoreAttempts == 4    \* _MAX_ATTEMPTS

\* score_resume asks a busy model again; any other answer, or the last one, is final.
ScoreResume(answers) ==
    \E i \in DOMAIN answers :
        answers[i] = "score" /\ \A j \in 1..(i - 1) : answers[j] = "busy"

\* TRUE: a score to persist; FALSE: the 502 that the client raises as ResumeScoreError.
InternalScoreResume ==
    {ScoreResume(answers) : answers \in [1..ScoreAttempts -> ModelAnswer]}

\* A scoring error leaves the row unscored; any other error ends the file here.
BulkScores(r) ==
    /\ At(r, "bulk", "prescore")
    /\ \/ /\ \E s \in InternalScoreResume : task' = [task EXCEPT ![r].pc = "insert", ![r].score = s]
          /\ UNCHANGED <<answered, served>>
       \/ answered' = "failed" /\ Ends(r)
    /\ UNCHANGED <<file, row, hiring, scored, embedded, carded>>

\* Mutant: the file is removed whether or not the row was committed.
AfterInsertRemoved(ok) == FALSE

AfterInsert(ok) == ok

\* A failed insert removes the file again, best effort.
Inserts(r) ==
    /\ task[r].pc = "insert"
    /\ \/ /\ row' = TRUE /\ scored' = task[r].score
          /\ file' = (file /\ AfterInsert(TRUE))
          /\ Goto(r, IF task[r].op = "create" THEN "score" ELSE "embed")
          /\ UNCHANGED answered
       \/ /\ answered' = "failed" /\ Ends(r)
          /\ file' \in {TRUE, AfterInsert(FALSE)}
          /\ UNCHANGED <<row, scored>>
    /\ UNCHANGED <<hiring, embedded, carded>>

\* An upload goes on without a score, a rescore does not.
ScoreApplies(r) ==
    /\ task[r].pc = "score"
    /\ \E s \in InternalScoreResume :
         /\ task[r].op = "rescore" => s
         /\ scored' = (scored \/ s)
    /\ Goto(r, "embed")
    /\ UNCHANGED <<file, row, hiring, embedded, carded, answered>>

\* An embedding error is swallowed.  An error of the store statement rolls back,
\* which expires the loaded applicant: building the answer from it fails then.
Embeds(r) ==
    /\ task[r].pc = "embed"
    /\ \/ /\ embedded' \in {embedded, TRUE}
          /\ answered' = IF task[r].op = "create" THEN "created" ELSE answered
       \/ /\ UNCHANGED embedded
          /\ answered' = IF task[r].op = "create" THEN "failed" ELSE answered
    /\ Ends(r)
    /\ UNCHANGED <<file, row, hiring, scored, carded>>

\* rescore reads the resume and calls the scorer; 502 when that fails.
RescoreReads(r) ==
    /\ row
    /\ Starts(r, [NoTask EXCEPT !.op = "rescore", !.pc = "score"])
    /\ UNCHANGED <<file, row, hiring, scored, embedded, carded, answered>>

RescoreFails(r) ==
    /\ At(r, "rescore", "score") /\ FALSE \in InternalScoreResume
    /\ Ends(r)
    /\ UNCHANGED <<file, row, hiring, scored, embedded, carded, answered>>

\* reindex picks rows without an embedding and updates them by id.
ReindexReads(r) ==
    /\ row /\ ~embedded
    /\ Starts(r, [NoTask EXCEPT !.op = "reindex", !.pc = "embed"])
    /\ UNCHANGED <<file, row, hiring, scored, embedded, carded, answered>>

-----------------------------------------------------------------------------
(* Status and decision.                                                     *)

Valid(to) == to \in Status    \* _VALID_STATUSES

PatchReads(r, to) ==
    /\ row /\ Valid(to)
    /\ Starts(r, [NoTask EXCEPT !.op = "patch", !.pc = "write", !.loaded = status, !.to = to])
    /\ UNCHANGED <<file, row, hiring, scored, embedded, carded, answered>>

\* Hiring asks for a shortlisted or interviewed applicant, rejecting for nothing.
Decidable(decision) == decision = "hired" => status \in {"shortlisted", "interviewed"}

DecideReads(r, to) ==
    /\ row /\ Decidable(to)
    /\ Starts(r, [NoTask EXCEPT !.op = "decide", !.pc = "write", !.loaded = status, !.to = to])
    /\ UNCHANGED <<file, row, hiring, scored, embedded, carded, answered>>

\* Mutant: the status is written even when it is the one that was loaded.
WrittenAlways(loaded, to) == to

\* The UPDATE contains the column only when its value differs from the loaded one.
Written(loaded, to) == IF to = loaded THEN status ELSE to

StatusCommits(r) ==
    LET loaded == task[r].loaded  to == task[r].to
    IN /\ task[r].pc = "write"
       /\ status' = Written(loaded, to)
       /\ mails' = IF to # loaded /\ to \in Mailed THEN Append(mails, to) ELSE mails
       /\ audits' = IF task[r].op = "decide"
                    THEN Append(audits, [decision |-> to, previous |-> loaded])
                    ELSE audits
       /\ Ends(r)
       /\ UNCHANGED <<file, row, scored, embedded, carded, answered>>

\* The scorecard of the applicant's interview is stored: an exam passed is enough to be
\* interviewed, whatever the status.
InterviewScored ==
    /\ row /\ ~carded
    /\ carded' = TRUE
    /\ UNCHANGED <<file, row, hiring, scored, embedded, answered, task, served>>

-----------------------------------------------------------------------------

HiringNext ==
    \/ InterviewScored
    \/ \E r \in HrRequest :
      \/ CreatePuts(r) \/ BulkPuts(r)
      \/ BulkScores(r) \/ Inserts(r) \/ ScoreApplies(r) \/ Embeds(r)
      \/ RescoreReads(r) \/ RescoreFails(r) \/ ReindexReads(r)
      \/ \E s \in Status \cup {"other"} : PatchReads(r, s)
      \/ \E d \in Decision : DecideReads(r, d)
      \/ StatusCommits(r)

HiringSpec == HiringInit /\ [][HiringNext]_hiringVars

-----------------------------------------------------------------------------

\* The status of the pipeline and its filters: 'interviewed' is derived, never written.
Displayed == IF carded /\ status \in {"new", "shortlisted"} THEN "interviewed" ELSE status

(* However many HR users decide at once from what each of them saw, the last *)
(* decision mail that was put into the outbox is that of the decision that   *)
(* stands: no decision is stored without its mail, and none whose write was  *)
(* lost is told after it.  In which order the outbox delivers is not said.   *)
LastMailStands == status \in Mailed => /\ mails # <<>>
                                       /\ Last(mails) = status

(* An applicant that can be opened has a resume that can be downloaded,      *)
(* however the upload went.                                                 *)
ApplicantHasFile == row => file

(* A hire is of someone who is shortlisted or interviewed at that moment     *)
(* ("Only shortlisted or interviewed applicants can be hired.",             *)
(* hr_pipeline.py:335).                                                     *)
OnlyHirableAreHired ==
    [][status # "hired" /\ status' = "hired" => status \in {"shortlisted", "interviewed"}]_hiringVars

(* Who is displayed as interviewed can be hired (hr_pipeline.py:335).        *)
InterviewedCanBeHired == Displayed = "interviewed" => Decidable("hired")

(* "An embedding outage must NOT fail an upload" (hr_applicants.py:218).     *)
UploadSurvivesEmbedding == row => answered # "failed"
=============================================================================
