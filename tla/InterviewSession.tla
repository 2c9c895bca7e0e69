--------------------------- MODULE InterviewSession ---------------------------
(***************************************************************************)
(* One interview session: the LiveKit worker jobs that conduct it          *)
(* (interview_core worker/interview_worker.py, entrypoint), the tokens     *)
(* that let the candidate (re)join the room (routers/rooms.py), and the    *)
(* scoring service that turns the transcript into a scorecard              *)
(* (feedback_billing routers/score.py and scorer.py).                      *)
(*                                                                         *)
(* A job is one asyncio process.  Four tasks may close its interview: the  *)
(* wall-clock cap, the consent watchdog, the task scheduled after the last *)
(* answer, and the teardown scheduled by the session's "close" event.  The *)
(* first to run marks the close; each await of the close path below is a   *)
(* step, and the "close" event can arrive between any two of them.         *)
(***************************************************************************)
EXTENDS Integers

CONSTANTS
    MaxJobs,        \* bound: times the candidate's room gets a worker job
    MinAnswers,     \* MIN_ANSWERS_TO_SCORE
    MaxAnswers,     \* MAX_CANDIDATE_ANSWERS
    MayFail         \* best-effort steps may fail and jobs may be killed

ASSUME JobsAssumption == MaxJobs \in Nat \ {0}
ASSUME AnswersAssumption ==
    MinAnswers \in Nat \ {0} /\ MaxAnswers \in Nat /\ MinAnswers <= MaxAnswers
ASSUME FailAssumption == MayFail \in BOOLEAN

VARIABLES
    status,     \* sessions.status
    turnRows,      \* job whose transcript is in the turns table, 0 when empty
    scorecard,  \* job whose transcript the scorecard scores, 0 when none
    scoring,    \* scoring requests being served
    consent,    \* an active consent row exists
    room,       \* job that owns the room: the number of jobs started
    roomOpen,   \* the LiveKit room exists
    connected,  \* the candidate is in the room
    job,        \* what each job holds in memory
    lost        \* history: a best-effort step has failed, or a job was killed

vars == <<status, turnRows, scorecard, scoring, consent, room, roomOpen, connected, job, lost>>

Job == 1..MaxJobs
Request == [job : Job, try : 1..2]
Status == {"created", "in_progress", "completed", "abandoned"}
Task == {"cap", "watch", "maxed", "abrupt"}
Closing == {"say", "status", "turns", "score", "scoring", "delete"}
Step == Closing \cup {"absent", "live", "done", "cancelled", "killed"}

\* answers bound: the count at which the close is scheduled, plus one late answer.
JobType == [step : Step, closer : Task \cup {"none"}, tasks : SUBSET Task,
            open : BOOLEAN, shut : BOOLEAN, spoken : BOOLEAN,
            answers : 0..(MaxAnswers + 1), final : Status, tries : 0..2]

Absent == [step |-> "absent", closer |-> "none", tasks |-> {}, open |-> FALSE,
           shut |-> FALSE, spoken |-> FALSE, answers |-> 0, final |-> "created", tries |-> 0]

TypeOK ==
    /\ status \in Status
    /\ turnRows \in 0..MaxJobs
    /\ scorecard \in 0..MaxJobs
    /\ scoring \subseteq Request
    /\ consent \in BOOLEAN
    /\ room \in 0..MaxJobs
    /\ roomOpen \in BOOLEAN
    /\ connected \in BOOLEAN
    /\ job \in [Job -> JobType]
    /\ lost \in BOOLEAN

Init ==
    /\ status = "created"
    /\ turnRows = 0
    /\ scorecard = 0
    /\ scoring = {}
    /\ consent = TRUE
    /\ room = 0
    /\ roomOpen = FALSE
    /\ connected = FALSE
    /\ job = [j \in Job |-> Absent]
    /\ lost = FALSE

Unclosed(j) == job[j].closer = "none"

\* A best-effort step: a failure is logged and the close goes on.
Attempted(done, skip) ==
    \/ done /\ UNCHANGED lost
    \/ MayFail /\ skip /\ lost' = TRUE

Enough(j) == job[j].answers >= MinAnswers

FinalStatus(j) == IF Enough(j) THEN "completed" ELSE "abandoned"

-----------------------------------------------------------------------------
(* The candidate: consent, joining, leaving.                                *)

ConsentChanges ==
    /\ consent' = ~consent
    /\ UNCHANGED <<status, turnRows, scorecard, scoring, room, roomOpen, connected, job, lost>>

\* create_room_token asks for consent, never for the status of the session; the
\* room is created by the join and the worker takes every room created.
Join ==
    /\ consent /\ ~roomOpen /\ room < MaxJobs
    /\ room' = room + 1
    /\ roomOpen' = TRUE
    /\ connected' = TRUE
    /\ Attempted(status' = "in_progress", status' = status)
    /\ job' = [job EXCEPT ![room + 1] =
                 [Absent EXCEPT !.step = "live", !.open = TRUE, !.tasks = {"cap"}]]
    /\ UNCHANGED <<turnRows, scorecard, scoring, consent>>

Leave ==
    /\ connected
    /\ connected' = FALSE
    /\ UNCHANGED <<status, turnRows, scorecard, scoring, consent, room, roomOpen, job, lost>>

\* LiveKit closes a room the candidate has left, and the job ends with it.  The
\* shutdown hook waits for the teardown task only: another close still running is lost.
RoomCloses ==
    /\ roomOpen /\ ~connected /\ ~job[room].open
    /\ roomOpen' = FALSE
    /\ job' = [job EXCEPT ![room].tasks = @ \cap {"abrupt"},
                          ![room].step = IF job[room].closer # "abrupt" /\ @ \in Closing
                                         THEN "killed" ELSE @]
    /\ UNCHANGED <<status, turnRows, scorecard, scoring, consent, room, connected, lost>>

-----------------------------------------------------------------------------
(* The conversation and the tasks around it.                                *)

\* _on_conversation_item_added; items are still committed while the session drains.
Speak(j) ==
    /\ job[j].open
    /\ \/ ~job[j].spoken /\ job' = [job EXCEPT ![j].spoken = TRUE]
       \/ /\ job[j].answers <= MaxAnswers
          /\ job' = [job EXCEPT
               ![j].spoken = TRUE,
               ![j].answers = @ + 1,
               ![j].tasks = @ \cup (IF job[j].answers + 1 >= MaxAnswers /\ Unclosed(j)
                                    THEN {"maxed"} ELSE {})]
    /\ UNCHANGED <<status, turnRows, scorecard, scoring, consent, room, roomOpen, connected, lost>>

\* The watchdog starts once the candidate has been resolved from the database.
WatchStarts(j) ==
    /\ job[j].open /\ Unclosed(j) /\ "watch" \notin job[j].tasks
    /\ job' = [job EXCEPT ![j].tasks = @ \cup {"watch"}]
    /\ UNCHANGED <<status, turnRows, scorecard, scoring, consent, room, roomOpen, connected, lost>>

\* _on_close with consent_withdrawn: nothing is said, the session is shut down and
\* the interview is abandoned whatever its answers.
WithdrawnClose(j) ==
    /\ job' = [job EXCEPT ![j].closer = "watch", ![j].step = "status",
                          ![j].shut = TRUE, ![j].final = "abandoned"]
    /\ UNCHANGED <<status, turnRows, scorecard, scoring, consent, room, roomOpen, connected>>

\* Mutant: the watchdog looks at the consent once, when it starts.
WatchFiresNever(j) == FALSE

WatchFires(j) ==
    /\ "watch" \in job[j].tasks /\ Unclosed(j) /\ ~consent
    /\ WithdrawnClose(j)
    /\ UNCHANGED lost

\* Fail closed: the candidate could not be resolved.
WatchCannotStart(j) ==
    /\ MayFail
    /\ job[j].open /\ Unclosed(j) /\ "watch" \notin job[j].tasks
    /\ WithdrawnClose(j)
    /\ lost' = TRUE

\* The cap and the task of the last answer enter _on_close and say goodbye.
SpokenClose(j, task) ==
    /\ task \in job[j].tasks /\ Unclosed(j)
    /\ job' = [job EXCEPT ![j].closer = task, ![j].step = "say"]
    /\ UNCHANGED <<status, turnRows, scorecard, scoring, consent, room, roomOpen, connected, lost>>

\* The goodbye has been spoken and is an item of its own, or say() failed, as it does in
\* a closed session: session.shutdown() and the final status.
SayEnds(j) ==
    LET Shut(said) == job' = [job EXCEPT ![j].step = "status", ![j].shut = TRUE,
                                         ![j].spoken = said, ![j].final = FinalStatus(j)]
    IN /\ job[j].step = "say"
       /\ IF job[j].open
          THEN Attempted(Shut(TRUE), Shut(job[j].spoken))
          ELSE Shut(job[j].spoken) /\ UNCHANGED lost
       /\ UNCHANGED <<status, turnRows, scorecard, scoring, consent, room, roomOpen, connected>>

\* Mutant: no teardown is scheduled when the session closes.
SessionClosesSilently(j) ==
    LET cancelled == job[j].closer \in {"cap", "watch"} /\ job[j].step \in Closing
    IN /\ job[j].open
       /\ job[j].shut \/ ~(connected /\ room = j)
       /\ job' = [job EXCEPT ![j].open = FALSE, ![j].tasks = @ \ {"cap", "watch"},
                             ![j].step = IF cancelled THEN "cancelled" ELSE @]
       /\ UNCHANGED <<status, turnRows, scorecard, scoring, consent, room, roomOpen, connected, lost>>

\* The "close" event, after shutdown() or when the candidate has gone.  It cancels the
\* cap and the watchdog, also when one of them is the task running _on_close: the
\* CancelledError ends it at its next await.
SessionCloses(j) ==
    LET cancelled == job[j].closer \in {"cap", "watch"} /\ job[j].step \in Closing
    IN /\ job[j].open
       /\ job[j].shut \/ ~(connected /\ room = j)
       /\ job' = [job EXCEPT
            ![j].open = FALSE,
            ![j].tasks = (@ \ {"cap", "watch"}) \cup (IF Unclosed(j) THEN {"abrupt"} ELSE {}),
            ![j].step = IF cancelled THEN "cancelled" ELSE @]
       /\ UNCHANGED <<status, turnRows, scorecard, scoring, consent, room, roomOpen, connected, lost>>

\* _abrupt_close starts.
AbruptClose(j) ==
    /\ "abrupt" \in job[j].tasks /\ Unclosed(j)
    /\ job' = [job EXCEPT ![j].closer = "abrupt", ![j].step = "status",
                          ![j].final = FinalStatus(j)]
    /\ UNCHANGED <<status, turnRows, scorecard, scoring, consent, room, roomOpen, connected, lost>>

-----------------------------------------------------------------------------
(* The rest of the close path, the same for _on_close and _abrupt_close.    *)

WriteStatus(j) ==
    /\ job[j].step = "status"
    /\ Attempted(status' = job[j].final, status' = status)
    /\ job' = [job EXCEPT ![j].step = "turns"]
    /\ UNCHANGED <<turnRows, scorecard, scoring, consent, room, roomOpen, connected>>

\* Mutant: only _on_close writes the transcript.
WriteTurnsOnWarmClose(j) ==
    /\ job[j].step = "turns"
    /\ IF job[j].spoken /\ turnRows = 0 /\ job[j].closer # "abrupt"
       THEN Attempted(turnRows' = j, turnRows' = turnRows)
       ELSE UNCHANGED <<turnRows, lost>>
    /\ job' = [job EXCEPT ![j].step = "score"]
    /\ UNCHANGED <<status, scorecard, scoring, consent, room, roomOpen, connected>>

\* Turn numbers start at 1 in every job: the unique (session, number) refuses a
\* second transcript, and the error is only logged.
WriteTurns(j) ==
    /\ job[j].step = "turns"
    /\ IF job[j].spoken /\ turnRows = 0
       THEN Attempted(turnRows' = j, turnRows' = turnRows)
       ELSE UNCHANGED <<turnRows, lost>>
    /\ job' = [job EXCEPT ![j].step = "score"]
    /\ UNCHANGED <<status, scorecard, scoring, consent, room, roomOpen, connected>>

\* What follows the scoring: _on_close deletes the room, _abrupt_close is over.
AfterScore(j) == IF job[j].closer = "abrupt" THEN "done" ELSE "delete"

\* Mutant: only the answers decide.
ShouldScoreAnyway(j) == Enough(j)

ShouldScore(j) == job[j].closer # "watch" /\ Enough(j)

SkipScore(j) ==
    /\ job[j].step = "score" /\ ~ShouldScore(j)
    /\ job' = [job EXCEPT ![j].step = AfterScore(j)]
    /\ UNCHANGED <<status, turnRows, scorecard, scoring, consent, room, roomOpen, connected, lost>>

\* The first post, or the retry after an error, a timeout or a lost answer.
PostScore(j) ==
    /\ \/ job[j].step = "score" /\ ShouldScore(j)
       \/ job[j].step = "scoring" /\ job[j].tries = 1
    /\ scoring' = scoring \cup {[job |-> j, try |-> job[j].tries + 1]}
    /\ job' = [job EXCEPT ![j].step = "scoring", ![j].tries = @ + 1]
    /\ UNCHANGED <<status, turnRows, scorecard, consent, room, roomOpen, connected, lost>>

\* An answer has come, or the last try has timed out with its request still served.
ScoreReturns(j) ==
    /\ job[j].step = "scoring"
    /\ [job |-> j, try |-> job[j].tries] \notin scoring \/ job[j].tries = 2
    /\ job' = [job EXCEPT ![j].step = AfterScore(j)]
    /\ UNCHANGED <<status, turnRows, scorecard, scoring, consent, room, roomOpen, connected, lost>>

DeleteRoom(j) ==
    /\ job[j].step = "delete"
    /\ Attempted(roomOpen' = FALSE /\ connected' = FALSE, UNCHANGED <<roomOpen, connected>>)
    /\ job' = [job EXCEPT ![j].step = "done"]
    /\ UNCHANGED <<status, turnRows, scorecard, scoring, consent, room>>

\* The process of a job is killed (out of memory, drain timeout, host lost).
Kill(j) ==
    /\ MayFail /\ job[j].step \in Closing \cup {"live"}
    /\ job' = [job EXCEPT ![j].step = "killed", ![j].tasks = {}, ![j].open = FALSE]
    /\ lost' = TRUE
    /\ UNCHANGED <<status, turnRows, scorecard, scoring, consent, room, roomOpen, connected>>

-----------------------------------------------------------------------------
(* The scoring service: the model is called first, the row inserted last.   *)

\* Mutant: the insert replaces the row of the session.
ScoreWrittenOver(q) ==
    /\ q \in scoring
    /\ scorecard' = q.job
    /\ scoring' = scoring \ {q}
    /\ UNCHANGED <<status, turnRows, consent, room, roomOpen, connected, job, lost>>

\* scorecards.session_id is unique: a second insert answers 409.
ScoreWritten(q) ==
    /\ q \in scoring
    /\ scorecard' = IF scorecard = 0 THEN q.job ELSE scorecard
    /\ scoring' = scoring \ {q}
    /\ UNCHANGED <<status, turnRows, consent, room, roomOpen, connected, job, lost>>

\* The model failed, or its answer could not be parsed, or the request never came.
ScoreFails(q) ==
    /\ q \in scoring
    /\ scoring' = scoring \ {q}
    /\ UNCHANGED <<status, turnRows, scorecard, consent, room, roomOpen, connected, job, lost>>

-----------------------------------------------------------------------------

CloseStep(j) ==
    \/ AbruptClose(j) \/ SayEnds(j)
    \/ WriteStatus(j) \/ WriteTurns(j)
    \/ SkipScore(j) \/ PostScore(j) \/ ScoreReturns(j)
    \/ DeleteRoom(j)

Next ==
    \/ ConsentChanges \/ Join \/ Leave \/ RoomCloses
    \/ \E j \in Job :
          \/ Speak(j)
          \/ WatchStarts(j) \/ WatchFires(j) \/ WatchCannotStart(j)
          \/ SpokenClose(j, "cap") \/ SpokenClose(j, "maxed")
          \/ SessionCloses(j)
          \/ CloseStep(j)
          \/ Kill(j)
    \/ \E q \in scoring : ScoreWritten(q) \/ ScoreFails(q)

Spec == Init /\ [][Next]_vars

\* The event loop of a live job runs its tasks, LiveKit reports the end of a session,
\* and the poll of the watchdog comes back every 15 s.
FairSpec ==
    /\ Spec
    /\ \A j \in Job : /\ WF_vars(CloseStep(j))
                      /\ WF_vars(SessionCloses(j))
                      /\ WF_vars(WatchFires(j))

-----------------------------------------------------------------------------
(* Properties.                                                              *)

\* Retries of a timed-out scoring call, and a second interview in the same session,
\* never replace the transcript or the scorecard that was written first.
FirstRecordWins ==
    [][/\ scorecard # 0 => scorecard' = scorecard
       /\ turnRows # 0 => turnRows' = turnRows]_vars

\* An interview that was closed because consent was withdrawn is never sent to the
\* scorer by the job that saw the withdrawal, however its answers stood.
WithdrawnIsNotScored ==
    \A j \in Job : job[j].closer = "watch" =>
        scorecard # j /\ \A q \in scoring : q.job # j

\* A scored session has a transcript on record, unless a write failed: the second
\* interview of a session may find the turns of the first, but not none.
ScoredSessionHasTranscript == (scorecard # 0 /\ ~lost) => turnRows # 0

\* The candidate closes the browser in a live interview: the teardown that the "close"
\* event schedules brings the session out of in_progress although the job is ending,
\* unless a write is lost, the process is killed, another close had begun, or a second
\* job has taken over the session's row.
AbruptIsRecorded ==
    \A j \in Job :
        (job[j].step = "live" /\ Unclosed(j) /\ room = j /\ ~connected)
            ~> \/ lost \/ room # j \/ job[j].closer \in {"cap", "watch", "maxed"}
               \/ job[j].step = "done" /\ status \in {"completed", "abandoned"}

\* Consent withdrawn during a watched interview ends it, unless it is given again.
WithdrawalEndsInterview ==
    \A j \in Job :
        ("watch" \in job[j].tasks /\ ~consent) ~> (~Unclosed(j) \/ ~job[j].open \/ consent)

\* "The transcript captured while consent WAS valid is still persisted for audit, and the
\* session is marked 'abandoned'": what _on_close promises and a cancelled watchdog breaks.
WithdrawalIsRecorded ==
    \A j \in Job :
        (job[j].closer = "watch" /\ job[j].step \in {"done", "cancelled"}) =>
            /\ status = "abandoned"
            /\ job[j].spoken => turnRows = j

===============================================================================
