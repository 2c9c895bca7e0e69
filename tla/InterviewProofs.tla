------------------------- MODULE InterviewProofs -------------------------
(***************************************************************************)
(* Machine-checked proofs about the interview core, for all values of the   *)
(* constants: the lifecycle of a session, the admission of its jobs, the    *)
(* proctoring events, the transcription of an answer and the conversation.  *)
(* Each component has its own part, with its inductive invariant, one lemma *)
(* for each action, and its theorems; the conversation uses the invariant   *)
(* of the transcription.                                                    *)
(***************************************************************************)
EXTENDS InterviewSession, WorkerCapacity, Proctoring, SttStream, SpokenInterview, FiniteSetTheorems, TLAPS

-----------------------------------------------------------------------------
(* InterviewSession.                                                        *)

\* One job: an answer is an item; no task of the close path runs before a closer is
\* marked; the teardown follows the end of the session and the close of the last
\* answer follows an answer; a session that still drains has an item, its goodbye;
\* past the transcript, what had been said is on record; a job that has not posted has
\* no try behind it.
JobIsSound(j) ==
    /\ job[j].answers > 0 => job[j].spoken
    /\ Unclosed(j) => job[j].step \notin Closing
    /\ "abrupt" \in job[j].tasks \/ job[j].closer = "abrupt" => ~job[j].open
    /\ "maxed" \in job[j].tasks \/ job[j].closer = "maxed" => job[j].spoken
    /\ (~lost /\ job[j].open /\ job[j].closer # "watch" /\ job[j].step \in Closing \ {"say"})
         => job[j].spoken
    /\ (~lost /\ job[j].spoken /\ job[j].closer # "watch" /\ job[j].step \in {"score", "scoring"})
         => turnRows # 0
    /\ (~lost /\ job[j].step = "scoring") => turnRows # 0
    /\ Unclosed(j) \/ job[j].step \in {"say", "status", "turns", "score"} => job[j].tries = 0
    /\ j > room => job[j] = Absent

\* The job of an unclosed or withdrawn interview never reached the scorer.
Unscored(j) ==
    job[j].closer \in {"none", "watch"} =>
        job[j].step # "scoring" /\ scorecard # j /\ \A q \in scoring : q.job # j

\* What the scorer was ever sent comes with a transcript.
ScoringIsRecorded == (~lost /\ (scoring # {} \/ scorecard # 0)) => turnRows # 0

IInv == TypeOK /\ ScoringIsRecorded /\ \A j \in Job : JobIsSound(j) /\ Unscored(j)

LEMMA AbsentType == Absent \in JobType
  BY AnswersAssumption DEF Absent, JobType, Status, Step, Closing, Task



LEMMA InitIInv == Init => IInv
  <1> SUFFICES ASSUME Init PROVE IInv
    OBVIOUS
  <1>1. \A j \in Job : job[j] = Absent
    BY DEF Init
  <1>2. job \in [Job -> JobType]
    BY AbsentType DEF Init
  <1>3. 0 \in 0..MaxJobs
    BY JobsAssumption
  <1>4. TypeOK
    BY <1>2, <1>3 DEF Init, TypeOK, Status
  <1>5. \A j \in Job : JobIsSound(j)
    BY <1>1 DEF Init, JobIsSound, Absent, Unclosed, Closing
  <1>6. \A j \in Job : Unscored(j)
    BY <1>1 DEF Init, Unscored, Absent, Job
  <1> QED
    BY <1>4, <1>5, <1>6 DEF Init, IInv, ScoringIsRecorded

\* What a step leaves of the jobs that do not take it.
LEMMA OtherJob ==
  ASSUME IInv, NEW i \in Job, job'[i] = job[i],
         lost => lost', turnRows # 0 => turnRows' # 0, UNCHANGED scorecard,
         room' \in Nat, room' >= room, \A q \in scoring' : q \in scoring \/ q.job # i
  PROVE  JobIsSound(i)' /\ Unscored(i)'
  BY JobsAssumption DEF IInv, TypeOK, JobIsSound, Unscored, Unclosed, Job

\* A step of one job preserves the invariant when it preserves what is said of that job.
LEMMA OneJobSteps ==
  ASSUME IInv, NEW j \in Job, NEW r \in JobType, job' = [job EXCEPT ![j] = r],
         status' \in Status, turnRows' \in 0..MaxJobs, roomOpen' \in BOOLEAN, connected' \in BOOLEAN,
         lost' \in BOOLEAN, lost => lost', turnRows # 0 => turnRows' # 0,
         scoring' \subseteq Request, \A q \in scoring' : q \in scoring \/ q.job = j,
         UNCHANGED <<scorecard, consent, room>>,
         JobIsSound(j)', Unscored(j)', ScoringIsRecorded'
  PROVE  IInv'
  <1>1. TypeOK'
    BY DEF IInv, TypeOK
  <1>2. \A i \in Job \ {j} : job'[i] = job[i]
    BY DEF IInv, TypeOK
  <1>3. \A i \in Job \ {j} : JobIsSound(i)' /\ Unscored(i)'
    BY <1>2, OtherJob DEF IInv, TypeOK, Job
  <1> QED
    BY <1>1, <1>3 DEF IInv

\* The same for a step that changes nothing but the job.
LEMMA OnlyJobSteps ==
  ASSUME IInv, NEW j \in Job, NEW r \in JobType, job' = [job EXCEPT ![j] = r],
         UNCHANGED <<status, turnRows, scorecard, scoring, consent, room, roomOpen, connected>>,
         lost' \in BOOLEAN, lost => lost', JobIsSound(j)', Unscored(j)'
  PROVE  IInv'
  <1>1. ScoringIsRecorded'
    BY DEF IInv, ScoringIsRecorded
  <1> QED
    BY <1>1, OneJobSteps DEF IInv, TypeOK

LEMMA LostStays ==
  ASSUME lost \in BOOLEAN, lost' = lost \/ lost' = TRUE
  PROVE  lost' \in BOOLEAN /\ (lost => lost')
  <1>1. CASE lost' = lost
    BY <1>1
  <1>2. CASE lost' = TRUE
    BY <1>2
  <1> QED
    BY <1>1, <1>2

LEMMA ConsentChangesStep == ASSUME IInv, ConsentChanges PROVE IInv'
  BY DEF ConsentChanges, IInv, TypeOK, ScoringIsRecorded, JobIsSound, Unscored, Unclosed

LEMMA LeaveStep == ASSUME IInv, Leave PROVE IInv'
  BY DEF Leave, IInv, TypeOK, ScoringIsRecorded, JobIsSound, Unscored, Unclosed

LEMMA JoinStep == ASSUME IInv, Join PROVE IInv'
  <1>1. PICK j \in Job : j = room + 1
    BY JobsAssumption DEF Join, IInv, TypeOK, Job
  <1>2. /\ UNCHANGED <<turnRows, scorecard, scoring, consent>>
        /\ room' = j /\ roomOpen' = TRUE /\ connected' = TRUE
    BY <1>1 DEF Join
  <1>3. room \in Nat /\ room' \in 0..MaxJobs /\ room' \in Nat
    BY <1>1, <1>2, JobsAssumption DEF Join, IInv, TypeOK
  <1>4. PICK r \in JobType :
           /\ job' = [job EXCEPT ![j] = r]
           /\ r.step = "live" /\ r.closer = "none" /\ r.tasks = {"cap"} /\ r.answers = 0 /\ r.tries = 0
    <2> DEFINE r == [Absent EXCEPT !.step = "live", !.open = TRUE, !.tasks = {"cap"}]
    <2>1. r \in JobType
      BY AbsentType DEF JobType, Step, Task
    <2>2. r.step = "live" /\ r.closer = "none" /\ r.tasks = {"cap"} /\ r.answers = 0 /\ r.tries = 0
      BY DEF Absent
    <2>3. job' = [job EXCEPT ![j] = r]
      BY <1>1 DEF Join
    <2> QED
      BY <2>1, <2>2, <2>3
  <1>5. job'[j] = r /\ \A i \in Job \ {j} : job'[i] = job[i]
    BY <1>4 DEF IInv, TypeOK
  <1>6. scorecard # j /\ \A q \in scoring : q.job # j
    <2>1. job[j] = Absent /\ Unscored(j)
      BY <1>1, <1>3 DEF IInv, JobIsSound
    <2> QED
      BY <2>1 DEF Unscored, Absent
  <1>7. (lost' = lost \/ lost' = TRUE) /\ (status' = status \/ status' = "in_progress")
    BY DEF Join, Attempted
  <1>8. lost' \in BOOLEAN /\ (lost => lost')
    BY <1>7, LostStays DEF IInv, TypeOK
  <1>9. TypeOK'
    BY <1>2, <1>3, <1>4, <1>7, <1>8 DEF IInv, TypeOK, Status
  <1>10. \A i \in Job \ {j} : JobIsSound(i)' /\ Unscored(i)'
    <2> SUFFICES ASSUME NEW i \in Job \ {j} PROVE JobIsSound(i)' /\ Unscored(i)'
      OBVIOUS
    <2>1. job'[i] = job[i] /\ room' >= room
      BY <1>1, <1>2, <1>3, <1>5
    <2> QED
      BY <1>2, <1>3, <1>8, <2>1, OtherJob
  <1>11. JobIsSound(j)'
    BY <1>2, <1>3, <1>4, <1>5 DEF JobIsSound, Unclosed, Closing
  <1>12. Unscored(j)'
    BY <1>2, <1>4, <1>5, <1>6 DEF Unscored
  <1>13. ScoringIsRecorded'
    BY <1>2, <1>8 DEF IInv, ScoringIsRecorded
  <1> QED
    BY <1>9, <1>10, <1>11, <1>12, <1>13 DEF IInv

LEMMA RoomClosesStep == ASSUME IInv, RoomCloses PROVE IInv'
  <1>1. CASE room \notin Job
    <2>1. job' = job
      BY <1>1 DEF RoomCloses, IInv, TypeOK
    <2> QED
      BY <2>1 DEF RoomCloses, IInv, TypeOK, ScoringIsRecorded, JobIsSound, Unscored, Unclosed
  <1>2. CASE room \in Job
    <2> DEFINE p == job[room]
    <2>1. p \in JobType /\ JobIsSound(room) /\ Unscored(room) /\ p.open = FALSE
      BY <1>2 DEF IInv, TypeOK, RoomCloses, JobType
    <2>2. /\ roomOpen' = FALSE
          /\ UNCHANGED <<status, turnRows, scorecard, scoring, consent, room, connected, lost>>
      BY DEF RoomCloses
    <2>3. PICK r \in JobType :
             /\ job' = [job EXCEPT ![room] = r]
             /\ r.closer = p.closer /\ r.spoken = p.spoken /\ r.answers = p.answers /\ r.tries = p.tries
             /\ r.open = FALSE /\ r.tasks \subseteq p.tasks
             /\ r.step = p.step \/ r.step = "killed"
      <3> DEFINE r == [p EXCEPT !.tasks = @ \cap {"abrupt"},
                                !.step = IF p.closer # "abrupt" /\ @ \in Closing
                                         THEN "killed" ELSE @]
      <3>1. r \in JobType
        BY <2>1 DEF JobType, Step, Task
      <3>2. job' = [job EXCEPT ![room] = r]
        BY <1>2 DEF RoomCloses, IInv, TypeOK
      <3>3. /\ r.closer = p.closer /\ r.spoken = p.spoken /\ r.answers = p.answers /\ r.tries = p.tries
            /\ r.open = FALSE /\ r.tasks \subseteq p.tasks
            /\ r.step = p.step \/ r.step = "killed"
        BY <2>1 DEF JobType
      <3> QED
        BY <3>1, <3>2, <3>3
    <2>4. job'[room] = r /\ room \in Nat
      BY <1>2, <2>3 DEF IInv, TypeOK
    <2>5. JobIsSound(room)'
      BY <2>1, <2>2, <2>3, <2>4 DEF JobIsSound, Unclosed, Closing
    <2>6. Unscored(room)'
      BY <2>1, <2>2, <2>3, <2>4 DEF Unscored
    <2>7. ScoringIsRecorded'
      BY <2>2 DEF IInv, ScoringIsRecorded
    <2> QED
      BY <1>2, <2>2, <2>3, <2>5, <2>6, <2>7, OneJobSteps DEF IInv, TypeOK
  <1> QED
    BY <1>1, <1>2

LEMMA SpeakStep == ASSUME IInv, NEW j \in Job, Speak(j) PROVE IInv'
  <1>1. /\ job[j] \in JobType /\ JobIsSound(j) /\ Unscored(j) /\ job[j].open
        /\ UNCHANGED lost /\ lost \in BOOLEAN
    BY DEF IInv, TypeOK, Speak
  <1>2. job[j] # Absent
    BY <1>1 DEF Absent
  <1>3. PICK a \in 0..(MaxAnswers + 1), t \in SUBSET Task :
           /\ job' = [job EXCEPT ![j] = [job[j] EXCEPT !.spoken = TRUE, !.answers = a, !.tasks = t]]
           /\ t \subseteq job[j].tasks \cup {"maxed"}
    <2>1. CASE job' = [job EXCEPT ![j].spoken = TRUE]
      <3>1. [job[j] EXCEPT !.spoken = TRUE]
              = [job[j] EXCEPT !.spoken = TRUE, !.answers = job[j].answers, !.tasks = job[j].tasks]
        BY <1>1 DEF JobType
      <3>2. job[j].answers \in 0..(MaxAnswers + 1) /\ job[j].tasks \in SUBSET Task
        BY <1>1 DEF JobType
      <3> QED
        BY <2>1, <3>1, <3>2
    <2>2. CASE /\ job[j].answers <= MaxAnswers
               /\ job' = [job EXCEPT
                    ![j].spoken = TRUE,
                    ![j].answers = @ + 1,
                    ![j].tasks = @ \cup (IF job[j].answers + 1 >= MaxAnswers /\ Unclosed(j)
                                         THEN {"maxed"} ELSE {})]
      <3> DEFINE a == job[j].answers + 1
                 t == job[j].tasks \cup (IF job[j].answers + 1 >= MaxAnswers /\ Unclosed(j)
                                         THEN {"maxed"} ELSE {})
      <3>1. a \in 0..(MaxAnswers + 1)
        BY <1>1, <2>2, AnswersAssumption DEF JobType
      <3>2. t \in SUBSET Task /\ t \subseteq job[j].tasks \cup {"maxed"}
        BY <1>1 DEF JobType, Task
      <3>3. job' = [job EXCEPT ![j] = [job[j] EXCEPT !.spoken = TRUE, !.answers = a, !.tasks = t]]
        BY <2>2
      <3> QED
        BY <3>1, <3>2, <3>3
    <2> QED
      BY <2>1, <2>2 DEF Speak
  <1> DEFINE r == [job[j] EXCEPT !.spoken = TRUE, !.answers = a, !.tasks = t]
  <1>4. r \in JobType
    BY <1>1 DEF JobType
  <1>5. job' = [job EXCEPT ![j] = r] /\ job'[j] = r
    BY <1>3 DEF IInv, TypeOK
  <1>6. JobIsSound(j)'
    BY <1>1, <1>2, <1>3, <1>5 DEF JobIsSound, JobType, Unclosed, Speak
  <1>7. Unscored(j)'
    BY <1>1, <1>5 DEF Unscored, JobType, Speak
  <1>8. /\ UNCHANGED <<status, turnRows, scorecard, scoring, consent, room, roomOpen, connected>>
        /\ lost' \in BOOLEAN /\ (lost => lost')
    BY <1>1 DEF Speak
  <1> HIDE DEF r
  <1> QED
    BY <1>4, <1>5, <1>6, <1>7, <1>8, OnlyJobSteps

LEMMA WatchStartsStep == ASSUME IInv, NEW j \in Job, WatchStarts(j) PROVE IInv'
  <1>1. job[j] \in JobType /\ JobIsSound(j) /\ Unscored(j) /\ lost \in BOOLEAN /\ room \in Nat
    BY DEF IInv, TypeOK
  <1>2. /\ job[j].open
        /\ UNCHANGED <<status, turnRows, scorecard, scoring, consent, room, roomOpen, connected>>
        /\ UNCHANGED lost
    BY DEF WatchStarts
  <1>3. lost' \in BOOLEAN /\ (lost => lost')
    BY <1>1, <1>2, LostStays
  <1>4. PICK r \in JobType :
           /\ job' = [job EXCEPT ![j] = r]
           /\ r.closer = job[j].closer /\ r.spoken = job[j].spoken /\ r.answers = job[j].answers /\ r.tries = job[j].tries /\ r.open = job[j].open /\ r.step = job[j].step /\ r.tasks = job[j].tasks \cup {"watch"}
    <2> DEFINE r == [job[j] EXCEPT !.tasks = @ \cup {"watch"}]
    <2>1. r \in JobType
      BY <1>1 DEF JobType, Task
    <2>2. job' = [job EXCEPT ![j] = r]
      BY DEF WatchStarts, IInv, TypeOK
    <2>3. r.closer = job[j].closer /\ r.spoken = job[j].spoken /\ r.answers = job[j].answers /\ r.tries = job[j].tries /\ r.open = job[j].open /\ r.step = job[j].step /\ r.tasks = job[j].tasks \cup {"watch"}
      BY <1>1, <1>2 DEF JobType
    <2> QED
      BY <2>1, <2>2, <2>3
  <1>5. job'[j] = r
    BY <1>4 DEF IInv, TypeOK
  <1>6. JobIsSound(j)'
    BY <1>1, <1>2, <1>3, <1>4, <1>5 DEF JobIsSound, Unclosed, Closing, Absent
  <1>7. Unscored(j)'
    BY <1>1, <1>2, <1>4, <1>5 DEF Unscored, Unclosed
  <1> QED
    BY <1>2, <1>3, <1>4, <1>6, <1>7, OnlyJobSteps

LEMMA WithdrawnCloseStep == ASSUME IInv, NEW j \in Job, WithdrawnClose(j), Unclosed(j), job[j].open \/ "watch" \in job[j].tasks, lost' = lost \/ lost' = TRUE PROVE IInv'
  <1>1. job[j] \in JobType /\ JobIsSound(j) /\ Unscored(j) /\ lost \in BOOLEAN /\ room \in Nat
    BY DEF IInv, TypeOK
  <1>2. /\ Unclosed(j) /\ (job[j].open \/ "watch" \in job[j].tasks)
        /\ UNCHANGED <<status, turnRows, scorecard, scoring, consent, room, roomOpen, connected>>
        /\ (lost' = lost \/ lost' = TRUE)
    BY DEF WithdrawnClose
  <1>3. lost' \in BOOLEAN /\ (lost => lost')
    BY <1>1, <1>2, LostStays
  <1>4. PICK r \in JobType :
           /\ job' = [job EXCEPT ![j] = r]
           /\ r.spoken = job[j].spoken /\ r.answers = job[j].answers /\ r.tries = job[j].tries /\ r.open = job[j].open /\ r.tasks = job[j].tasks /\ r.closer = "watch" /\ r.step = "status"
    <2> DEFINE r == [job[j] EXCEPT !.closer = "watch", !.step = "status", !.shut = TRUE, !.final = "abandoned"]
    <2>1. r \in JobType
      BY <1>1 DEF JobType, Task, Step, Closing, Status
    <2>2. job' = [job EXCEPT ![j] = r]
      BY DEF WithdrawnClose, IInv, TypeOK
    <2>3. r.spoken = job[j].spoken /\ r.answers = job[j].answers /\ r.tries = job[j].tries /\ r.open = job[j].open /\ r.tasks = job[j].tasks /\ r.closer = "watch" /\ r.step = "status"
      BY <1>1, <1>2 DEF JobType
    <2> QED
      BY <2>1, <2>2, <2>3
  <1>5. job'[j] = r
    BY <1>4 DEF IInv, TypeOK
  <1>6. JobIsSound(j)'
    BY <1>1, <1>2, <1>3, <1>4, <1>5 DEF JobIsSound, Unclosed, Closing, Absent
  <1>7. Unscored(j)'
    BY <1>1, <1>2, <1>4, <1>5 DEF Unscored, Unclosed
  <1> QED
    BY <1>2, <1>3, <1>4, <1>6, <1>7, OnlyJobSteps

LEMMA SpokenCloseStep == ASSUME IInv, NEW j \in Job, NEW task \in {"cap", "maxed"}, SpokenClose(j, task) PROVE IInv'
  <1>1. job[j] \in JobType /\ JobIsSound(j) /\ Unscored(j) /\ lost \in BOOLEAN /\ room \in Nat
    BY DEF IInv, TypeOK
  <1>2. /\ task \in job[j].tasks /\ Unclosed(j)
        /\ UNCHANGED <<status, turnRows, scorecard, scoring, consent, room, roomOpen, connected>>
        /\ UNCHANGED lost
    BY DEF SpokenClose
  <1>3. lost' \in BOOLEAN /\ (lost => lost')
    BY <1>1, <1>2, LostStays
  <1>4. PICK r \in JobType :
           /\ job' = [job EXCEPT ![j] = r]
           /\ r.spoken = job[j].spoken /\ r.answers = job[j].answers /\ r.tries = job[j].tries /\ r.open = job[j].open /\ r.tasks = job[j].tasks /\ r.closer = task /\ r.step = "say"
    <2> DEFINE r == [job[j] EXCEPT !.closer = task, !.step = "say"]
    <2>1. r \in JobType
      BY <1>1 DEF JobType, Task, Step, Closing
    <2>2. job' = [job EXCEPT ![j] = r]
      BY DEF SpokenClose, IInv, TypeOK
    <2>3. r.spoken = job[j].spoken /\ r.answers = job[j].answers /\ r.tries = job[j].tries /\ r.open = job[j].open /\ r.tasks = job[j].tasks /\ r.closer = task /\ r.step = "say"
      BY <1>1, <1>2 DEF JobType
    <2> QED
      BY <2>1, <2>2, <2>3
  <1>5. job'[j] = r
    BY <1>4 DEF IInv, TypeOK
  <1>6. JobIsSound(j)'
    BY <1>1, <1>2, <1>3, <1>4, <1>5 DEF JobIsSound, Unclosed, Closing, Absent
  <1>7. Unscored(j)'
    BY <1>1, <1>2, <1>4, <1>5 DEF Unscored, Unclosed
  <1> QED
    BY <1>2, <1>3, <1>4, <1>6, <1>7, OnlyJobSteps

LEMMA AbruptCloseStep == ASSUME IInv, NEW j \in Job, AbruptClose(j) PROVE IInv'
  <1>1. job[j] \in JobType /\ JobIsSound(j) /\ Unscored(j) /\ lost \in BOOLEAN /\ room \in Nat
    BY DEF IInv, TypeOK
  <1>2. /\ "abrupt" \in job[j].tasks /\ Unclosed(j)
        /\ UNCHANGED <<status, turnRows, scorecard, scoring, consent, room, roomOpen, connected>>
        /\ UNCHANGED lost
    BY DEF AbruptClose
  <1>3. lost' \in BOOLEAN /\ (lost => lost')
    BY <1>1, <1>2, LostStays
  <1>4. PICK r \in JobType :
           /\ job' = [job EXCEPT ![j] = r]
           /\ r.spoken = job[j].spoken /\ r.answers = job[j].answers /\ r.tries = job[j].tries /\ r.open = job[j].open /\ r.tasks = job[j].tasks /\ r.closer = "abrupt" /\ r.step = "status"
    <2> DEFINE r == [job[j] EXCEPT !.closer = "abrupt", !.step = "status", !.final = FinalStatus(j)]
    <2>1. r \in JobType
      BY <1>1 DEF JobType, Task, Step, Closing, Status, FinalStatus
    <2>2. job' = [job EXCEPT ![j] = r]
      BY DEF AbruptClose, IInv, TypeOK
    <2>3. r.spoken = job[j].spoken /\ r.answers = job[j].answers /\ r.tries = job[j].tries /\ r.open = job[j].open /\ r.tasks = job[j].tasks /\ r.closer = "abrupt" /\ r.step = "status"
      BY <1>1, <1>2 DEF JobType
    <2> QED
      BY <2>1, <2>2, <2>3
  <1>5. job'[j] = r
    BY <1>4 DEF IInv, TypeOK
  <1>6. JobIsSound(j)'
    BY <1>1, <1>2, <1>3, <1>4, <1>5 DEF JobIsSound, Unclosed, Closing, Absent
  <1>7. Unscored(j)'
    BY <1>1, <1>2, <1>4, <1>5 DEF Unscored, Unclosed
  <1> QED
    BY <1>2, <1>3, <1>4, <1>6, <1>7, OnlyJobSteps

LEMMA SkipScoreStep == ASSUME IInv, NEW j \in Job, SkipScore(j) PROVE IInv'
  <1>1. job[j] \in JobType /\ JobIsSound(j) /\ Unscored(j) /\ lost \in BOOLEAN /\ room \in Nat
    BY DEF IInv, TypeOK
  <1>2. /\ job[j].step = "score"
        /\ UNCHANGED <<status, turnRows, scorecard, scoring, consent, room, roomOpen, connected>>
        /\ UNCHANGED lost
    BY DEF SkipScore
  <1>3. lost' \in BOOLEAN /\ (lost => lost')
    BY <1>1, <1>2, LostStays
  <1>4. PICK r \in JobType :
           /\ job' = [job EXCEPT ![j] = r]
           /\ r.closer = job[j].closer /\ r.spoken = job[j].spoken /\ r.answers = job[j].answers /\ r.tries = job[j].tries /\ r.open = job[j].open /\ r.tasks = job[j].tasks /\ r.step \in {"done", "delete"}
    <2> DEFINE r == [job[j] EXCEPT !.step = AfterScore(j)]
    <2>1. r \in JobType
      BY <1>1 DEF JobType, Step, Closing, AfterScore
    <2>2. job' = [job EXCEPT ![j] = r]
      BY DEF SkipScore, IInv, TypeOK
    <2>3. r.closer = job[j].closer /\ r.spoken = job[j].spoken /\ r.answers = job[j].answers /\ r.tries = job[j].tries /\ r.open = job[j].open /\ r.tasks = job[j].tasks /\ r.step \in {"done", "delete"}
      BY <1>1, <1>2 DEF JobType, AfterScore
    <2> QED
      BY <2>1, <2>2, <2>3
  <1>5. job'[j] = r
    BY <1>4 DEF IInv, TypeOK
  <1>6. JobIsSound(j)'
    BY <1>1, <1>2, <1>3, <1>4, <1>5 DEF JobIsSound, Unclosed, Closing, Absent
  <1>7. Unscored(j)'
    BY <1>1, <1>2, <1>4, <1>5 DEF Unscored, Unclosed
  <1> QED
    BY <1>2, <1>3, <1>4, <1>6, <1>7, OnlyJobSteps

LEMMA ScoreReturnsStep == ASSUME IInv, NEW j \in Job, ScoreReturns(j) PROVE IInv'
  <1>1. job[j] \in JobType /\ JobIsSound(j) /\ Unscored(j) /\ lost \in BOOLEAN /\ room \in Nat
    BY DEF IInv, TypeOK
  <1>2. /\ job[j].step = "scoring"
        /\ UNCHANGED <<status, turnRows, scorecard, scoring, consent, room, roomOpen, connected>>
        /\ UNCHANGED lost
    BY DEF ScoreReturns
  <1>3. lost' \in BOOLEAN /\ (lost => lost')
    BY <1>1, <1>2, LostStays
  <1>4. PICK r \in JobType :
           /\ job' = [job EXCEPT ![j] = r]
           /\ r.closer = job[j].closer /\ r.spoken = job[j].spoken /\ r.answers = job[j].answers /\ r.tries = job[j].tries /\ r.open = job[j].open /\ r.tasks = job[j].tasks /\ r.step \in {"done", "delete"}
    <2> DEFINE r == [job[j] EXCEPT !.step = AfterScore(j)]
    <2>1. r \in JobType
      BY <1>1 DEF JobType, Step, Closing, AfterScore
    <2>2. job' = [job EXCEPT ![j] = r]
      BY DEF ScoreReturns, IInv, TypeOK
    <2>3. r.closer = job[j].closer /\ r.spoken = job[j].spoken /\ r.answers = job[j].answers /\ r.tries = job[j].tries /\ r.open = job[j].open /\ r.tasks = job[j].tasks /\ r.step \in {"done", "delete"}
      BY <1>1, <1>2 DEF JobType, AfterScore
    <2> QED
      BY <2>1, <2>2, <2>3
  <1>5. job'[j] = r
    BY <1>4 DEF IInv, TypeOK
  <1>6. JobIsSound(j)'
    BY <1>1, <1>2, <1>3, <1>4, <1>5 DEF JobIsSound, Unclosed, Closing, Absent
  <1>7. Unscored(j)'
    BY <1>1, <1>2, <1>4, <1>5 DEF Unscored, Unclosed
  <1> QED
    BY <1>2, <1>3, <1>4, <1>6, <1>7, OnlyJobSteps

LEMMA KillStep == ASSUME IInv, NEW j \in Job, Kill(j) PROVE IInv'
  <1>1. job[j] \in JobType /\ JobIsSound(j) /\ Unscored(j) /\ lost \in BOOLEAN /\ room \in Nat
    BY DEF IInv, TypeOK
  <1>2. /\ job[j].step \in Closing \cup {"live"}
        /\ UNCHANGED <<status, turnRows, scorecard, scoring, consent, room, roomOpen, connected>>
        /\ (lost' = lost \/ lost' = TRUE)
    BY DEF Kill
  <1>3. lost' \in BOOLEAN /\ (lost => lost')
    BY <1>1, <1>2, LostStays
  <1>4. PICK r \in JobType :
           /\ job' = [job EXCEPT ![j] = r]
           /\ r.closer = job[j].closer /\ r.spoken = job[j].spoken /\ r.answers = job[j].answers /\ r.tries = job[j].tries /\ r.step = "killed" /\ r.tasks = {} /\ r.open = FALSE
    <2> DEFINE r == [job[j] EXCEPT !.step = "killed", !.tasks = {}, !.open = FALSE]
    <2>1. r \in JobType
      BY <1>1 DEF JobType, Step
    <2>2. job' = [job EXCEPT ![j] = r]
      BY DEF Kill, IInv, TypeOK
    <2>3. r.closer = job[j].closer /\ r.spoken = job[j].spoken /\ r.answers = job[j].answers /\ r.tries = job[j].tries /\ r.step = "killed" /\ r.tasks = {} /\ r.open = FALSE
      BY <1>1, <1>2 DEF JobType
    <2> QED
      BY <2>1, <2>2, <2>3
  <1>5. job'[j] = r
    BY <1>4 DEF IInv, TypeOK
  <1>6. JobIsSound(j)'
    BY <1>1, <1>2, <1>3, <1>4, <1>5 DEF JobIsSound, Unclosed, Closing, Absent
  <1>7. Unscored(j)'
    BY <1>1, <1>2, <1>4, <1>5 DEF Unscored, Unclosed
  <1> QED
    BY <1>2, <1>3, <1>4, <1>6, <1>7, OnlyJobSteps

LEMMA SessionClosesStep == ASSUME IInv, NEW j \in Job, SessionCloses(j) PROVE IInv'
  <1>1. job[j] \in JobType /\ JobIsSound(j) /\ Unscored(j) /\ lost \in BOOLEAN /\ room \in Nat
    BY DEF IInv, TypeOK
  <1>2. /\ job[j].open
        /\ UNCHANGED <<status, turnRows, scorecard, scoring, consent, room, roomOpen, connected>>
        /\ UNCHANGED lost
    BY DEF SessionCloses
  <1>3. lost' \in BOOLEAN /\ (lost => lost')
    BY <1>1, <1>2, LostStays
  <1>4. PICK r \in JobType :
           /\ job' = [job EXCEPT ![j] = r]
           /\ r.closer = job[j].closer /\ r.spoken = job[j].spoken /\ r.answers = job[j].answers /\ r.tries = job[j].tries
           /\ r.open = FALSE /\ r.tasks \subseteq job[j].tasks \cup {"abrupt"}
           /\ r.step = job[j].step \/ r.step = "cancelled"
    <2> DEFINE cancelled == job[j].closer \in {"cap", "watch"} /\ job[j].step \in Closing
               t == (job[j].tasks \ {"cap", "watch"})
                      \cup (IF Unclosed(j) THEN {"abrupt"} ELSE {})
               s == IF cancelled THEN "cancelled" ELSE job[j].step
               r == [job[j] EXCEPT !.open = FALSE, !.tasks = t, !.step = s]
    <2>1. t \in SUBSET Task /\ t \subseteq job[j].tasks \cup {"abrupt"}
      BY <1>1 DEF JobType, Task
    <2>2. s \in Step /\ (s = job[j].step \/ s = "cancelled")
      BY <1>1 DEF JobType, Step
    <2>3. job' = [job EXCEPT ![j] = [job[j] EXCEPT !.open = FALSE, !.tasks = t, !.step = s]]
      BY DEF SessionCloses
    <2> HIDE DEF t, s
    <2>4. r \in JobType
      BY <1>1, <2>1, <2>2 DEF JobType
    <2>5. /\ r.closer = job[j].closer /\ r.spoken = job[j].spoken /\ r.answers = job[j].answers /\ r.tries = job[j].tries
          /\ r.open = FALSE /\ r.tasks = t /\ r.step = s
      BY <1>1 DEF JobType
    <2> HIDE DEF r
    <2>6. job' = [job EXCEPT ![j] = r]
      BY <2>3 DEF r
    <2> QED
      BY <2>1, <2>2, <2>4, <2>5, <2>6
  <1>5. job'[j] = r
    BY <1>4 DEF IInv, TypeOK
  <1>6. JobIsSound(j)'
    BY <1>1, <1>2, <1>3, <1>4, <1>5 DEF JobIsSound, Unclosed, Closing, Absent
  <1>7. Unscored(j)'
    BY <1>1, <1>2, <1>4, <1>5 DEF Unscored, Unclosed
  <1> QED
    BY <1>2, <1>3, <1>4, <1>6, <1>7, OnlyJobSteps

LEMMA SayEndsStep == ASSUME IInv, NEW j \in Job, SayEnds(j) PROVE IInv'
  <1>1. job[j] \in JobType /\ JobIsSound(j) /\ Unscored(j) /\ lost \in BOOLEAN /\ room \in Nat
    BY DEF IInv, TypeOK
  <1>2. /\ job[j].step = "say"
        /\ UNCHANGED <<status, turnRows, scorecard, scoring, consent, room, roomOpen, connected>>
        /\ lost' = lost \/ lost' = TRUE
    BY DEF SayEnds, Attempted
  <1>3. lost' \in BOOLEAN /\ (lost => lost')
    BY <1>1, <1>2, LostStays
  <1>4. PICK said \in BOOLEAN :
           /\ job' = [job EXCEPT ![j] = [job[j] EXCEPT !.step = "status", !.shut = TRUE,
                                                       !.spoken = said, !.final = FinalStatus(j)]]
           /\ job[j].spoken => said
           /\ (job[j].open /\ ~lost') => said
    <2>1. job[j].spoken \in BOOLEAN /\ TRUE \in BOOLEAN
      BY <1>1 DEF JobType
    <2> QED
      BY <2>1, Zenon DEF SayEnds, Attempted
  <1>5. PICK r \in JobType :
           /\ job' = [job EXCEPT ![j] = r]
           /\ r.closer = job[j].closer /\ r.answers = job[j].answers /\ r.tries = job[j].tries /\ r.open = job[j].open
           /\ r.tasks = job[j].tasks /\ r.step = "status" /\ r.spoken = said
    <2> DEFINE r == [job[j] EXCEPT !.step = "status", !.shut = TRUE, !.spoken = said,
                                   !.final = FinalStatus(j)]
    <2>1. r \in JobType
      BY <1>1 DEF JobType, Step, Closing, Status, FinalStatus
    <2>2. /\ r.closer = job[j].closer /\ r.answers = job[j].answers /\ r.tries = job[j].tries /\ r.open = job[j].open
          /\ r.tasks = job[j].tasks /\ r.step = "status" /\ r.spoken = said
      BY <1>1 DEF JobType
    <2> QED
      BY <1>4, <2>1, <2>2
  <1>6. job'[j] = r
    BY <1>5 DEF IInv, TypeOK
  <1>7. JobIsSound(j)'
    BY <1>1, <1>2, <1>3, <1>4, <1>5, <1>6 DEF JobIsSound, Unclosed, Closing, Absent
  <1>8. Unscored(j)'
    BY <1>1, <1>2, <1>5, <1>6 DEF Unscored, Unclosed
  <1> QED
    BY <1>2, <1>3, <1>5, <1>7, <1>8, OnlyJobSteps

LEMMA WriteStatusStep == ASSUME IInv, NEW j \in Job, WriteStatus(j) PROVE IInv'
  <1>1. job[j] \in JobType /\ JobIsSound(j) /\ Unscored(j) /\ lost \in BOOLEAN /\ room \in Nat
    BY DEF IInv, TypeOK
  <1>2. /\ job[j].step = "status" /\ status' \in {status, job[j].final}
        /\ UNCHANGED <<turnRows, scorecard, scoring, consent, room, roomOpen, connected>>
        /\ lost' = lost \/ lost' = TRUE
    BY DEF WriteStatus, Attempted
  <1>3. lost' \in BOOLEAN /\ (lost => lost')
    BY <1>1, <1>2, LostStays
  <1>4. PICK r \in JobType :
           /\ job' = [job EXCEPT ![j] = r]
           /\ r.closer = job[j].closer /\ r.answers = job[j].answers /\ r.tries = job[j].tries /\ r.open = job[j].open
           /\ r.tasks = job[j].tasks /\ r.step = "turns" /\ r.spoken = job[j].spoken
    <2> DEFINE r == [job[j] EXCEPT !.step = "turns"]
    <2>1. r \in JobType
      BY <1>1 DEF JobType, Step, Closing
    <2>2. /\ r.closer = job[j].closer /\ r.answers = job[j].answers /\ r.tries = job[j].tries /\ r.open = job[j].open
          /\ r.tasks = job[j].tasks /\ r.step = "turns" /\ r.spoken = job[j].spoken
      BY <1>1 DEF JobType
    <2>3. job' = [job EXCEPT ![j] = r]
      BY DEF WriteStatus
    <2> QED
      BY <2>1, <2>2, <2>3
  <1>5. job'[j] = r
    BY <1>4 DEF IInv, TypeOK
  <1>6. JobIsSound(j)'
    BY <1>1, <1>2, <1>3, <1>4, <1>5 DEF JobIsSound, Unclosed, Closing, Absent
  <1>7. Unscored(j)'
    BY <1>1, <1>2, <1>4, <1>5 DEF Unscored, Unclosed
  <1>8. status' \in Status
    BY <1>1, <1>2 DEF IInv, TypeOK, JobType
  <1>9. ScoringIsRecorded'
    BY <1>2, <1>3 DEF IInv, ScoringIsRecorded
  <1> QED
    BY <1>2, <1>3, <1>4, <1>6, <1>7, <1>8, <1>9, OneJobSteps DEF IInv, TypeOK

LEMMA WriteTurnsStep == ASSUME IInv, NEW j \in Job, WriteTurns(j) PROVE IInv'
  <1>1. job[j] \in JobType /\ JobIsSound(j) /\ Unscored(j) /\ lost \in BOOLEAN /\ room \in Nat
    BY DEF IInv, TypeOK
  <1>2. /\ job[j].step = "turns"
        /\ UNCHANGED <<status, scorecard, scoring, consent, room, roomOpen, connected>>
        /\ lost' = lost \/ lost' = TRUE
    BY DEF WriteTurns, Attempted
  <1>3. lost' \in BOOLEAN /\ (lost => lost')
    BY <1>1, <1>2, LostStays
  <1>4. /\ turnRows' \in {turnRows, j} /\ (turnRows # 0 => turnRows' = turnRows)
        /\ (job[j].spoken /\ ~lost') => turnRows' # 0
    <2>1. CASE job[j].spoken /\ turnRows = 0
      BY <1>1, <2>1 DEF WriteTurns, Attempted, Job
    <2>2. CASE ~(job[j].spoken /\ turnRows = 0)
      BY <1>1, <2>2 DEF WriteTurns
    <2> QED
      BY <2>1, <2>2
  <1>5. PICK r \in JobType :
           /\ job' = [job EXCEPT ![j] = r]
           /\ r.closer = job[j].closer /\ r.answers = job[j].answers /\ r.tries = job[j].tries /\ r.open = job[j].open
           /\ r.tasks = job[j].tasks /\ r.step = "score" /\ r.spoken = job[j].spoken
    <2> DEFINE r == [job[j] EXCEPT !.step = "score"]
    <2>1. r \in JobType
      BY <1>1 DEF JobType, Step, Closing
    <2>2. /\ r.closer = job[j].closer /\ r.answers = job[j].answers /\ r.tries = job[j].tries /\ r.open = job[j].open
          /\ r.tasks = job[j].tasks /\ r.step = "score" /\ r.spoken = job[j].spoken
      BY <1>1 DEF JobType
    <2>3. job' = [job EXCEPT ![j] = r]
      BY DEF WriteTurns
    <2> QED
      BY <2>1, <2>2, <2>3
  <1>6. job'[j] = r
    BY <1>5 DEF IInv, TypeOK
  <1>7. JobIsSound(j)'
    BY <1>1, <1>2, <1>3, <1>4, <1>5, <1>6 DEF JobIsSound, Unclosed, Closing, Absent
  <1>8. Unscored(j)'
    BY <1>1, <1>2, <1>5, <1>6 DEF Unscored, Unclosed
  <1>9. ScoringIsRecorded'
    BY <1>2, <1>3, <1>4 DEF IInv, ScoringIsRecorded
  <1>10. turnRows' \in 0..MaxJobs /\ (turnRows # 0 => turnRows' # 0)
    BY <1>4 DEF IInv, TypeOK, Job
  <1> QED
    BY <1>2, <1>3, <1>5, <1>7, <1>8, <1>9, <1>10, OneJobSteps DEF IInv, TypeOK

LEMMA PostScoreStep == ASSUME IInv, NEW j \in Job, PostScore(j) PROVE IInv'
  <1>1. job[j] \in JobType /\ JobIsSound(j) /\ Unscored(j) /\ lost \in BOOLEAN /\ room \in Nat
    BY DEF IInv, TypeOK
  <1>2. /\ UNCHANGED <<status, turnRows, scorecard, consent, room, roomOpen, connected>>
        /\ UNCHANGED lost
    BY DEF PostScore
  <1>3. lost' \in BOOLEAN /\ (lost => lost')
    BY <1>1, <1>2, LostStays
  <1>4. /\ job[j].closer \notin {"none", "watch"} /\ job[j].tries \in 0..1
        /\ job[j].step \in {"score", "scoring"}
        /\ ~lost => turnRows # 0
    <2>1. CASE job[j].step = "score" /\ ShouldScore(j)
      <3>1. job[j].closer # "watch" /\ job[j].answers > 0
        BY <1>1, <2>1, AnswersAssumption DEF ShouldScore, Enough, JobType
      <3>2. job[j].tries \in 0..1
        BY <1>1, <2>1 DEF JobIsSound
      <3> QED
        BY <1>1, <2>1, <3>1, <3>2 DEF JobIsSound, Unclosed, Closing
    <2>2. CASE job[j].step = "scoring" /\ job[j].tries = 1
      BY <1>1, <2>2 DEF JobIsSound, Unscored
    <2> QED
      BY <2>1, <2>2 DEF PostScore
  <1>5. PICK r \in JobType :
           /\ job' = [job EXCEPT ![j] = r]
           /\ r.closer = job[j].closer /\ r.answers = job[j].answers /\ r.open = job[j].open
           /\ r.tasks = job[j].tasks /\ r.step = "scoring" /\ r.spoken = job[j].spoken
    <2> DEFINE r == [job[j] EXCEPT !.step = "scoring", !.tries = job[j].tries + 1]
    <2>1. job[j].tries + 1 \in 0..2
      BY <1>4
    <2>2. r \in JobType
      BY <1>1, <2>1 DEF JobType, Step, Closing
    <2>3. /\ r.closer = job[j].closer /\ r.answers = job[j].answers /\ r.open = job[j].open
          /\ r.tasks = job[j].tasks /\ r.step = "scoring" /\ r.spoken = job[j].spoken
      BY <1>1 DEF JobType
    <2>4. job' = [job EXCEPT ![j] = r]
      BY DEF PostScore
    <2> QED
      BY <2>2, <2>3, <2>4
  <1>6. job'[j] = r
    BY <1>5 DEF IInv, TypeOK
  <1>7. scoring' \subseteq Request /\ \A q \in scoring' : q \in scoring \/ q.job = j
    <2>1. job[j].tries + 1 \in 1..2
      BY <1>4
    <2>2. [job |-> j, try |-> job[j].tries + 1] \in Request
      BY <2>1 DEF Request
    <2> QED
      BY <2>2 DEF PostScore, IInv, TypeOK
  <1>8. JobIsSound(j)'
    BY <1>1, <1>2, <1>3, <1>4, <1>5, <1>6 DEF JobIsSound, Unclosed, Closing, Absent
  <1>9. Unscored(j)'
    BY <1>4, <1>5, <1>6 DEF Unscored
  <1>10. ScoringIsRecorded'
    BY <1>2, <1>4 DEF ScoringIsRecorded
  <1> QED
    BY <1>2, <1>3, <1>5, <1>7, <1>8, <1>9, <1>10, OneJobSteps DEF IInv, TypeOK

LEMMA DeleteRoomStep == ASSUME IInv, NEW j \in Job, DeleteRoom(j) PROVE IInv'
  <1>1. job[j] \in JobType /\ JobIsSound(j) /\ Unscored(j) /\ lost \in BOOLEAN /\ room \in Nat
    BY DEF IInv, TypeOK
  <1>2. /\ job[j].step = "delete"
        /\ UNCHANGED <<status, turnRows, scorecard, scoring, consent, room>>
        /\ lost' = lost \/ lost' = TRUE
    BY DEF DeleteRoom, Attempted
  <1>3. lost' \in BOOLEAN /\ (lost => lost')
    BY <1>1, <1>2, LostStays
  <1>4. PICK r \in JobType :
           /\ job' = [job EXCEPT ![j] = r]
           /\ r.closer = job[j].closer /\ r.answers = job[j].answers /\ r.tries = job[j].tries /\ r.open = job[j].open
           /\ r.tasks = job[j].tasks /\ r.step = "done" /\ r.spoken = job[j].spoken
    <2> DEFINE r == [job[j] EXCEPT !.step = "done"]
    <2>1. r \in JobType
      BY <1>1 DEF JobType, Step
    <2>2. /\ r.closer = job[j].closer /\ r.answers = job[j].answers /\ r.tries = job[j].tries /\ r.open = job[j].open
          /\ r.tasks = job[j].tasks /\ r.step = "done" /\ r.spoken = job[j].spoken
      BY <1>1 DEF JobType
    <2>3. job' = [job EXCEPT ![j] = r]
      BY DEF DeleteRoom
    <2> QED
      BY <2>1, <2>2, <2>3
  <1>5. job'[j] = r
    BY <1>4 DEF IInv, TypeOK
  <1>6. JobIsSound(j)'
    BY <1>1, <1>2, <1>3, <1>4, <1>5 DEF JobIsSound, Unclosed, Closing, Absent
  <1>7. Unscored(j)'
    BY <1>1, <1>2, <1>4, <1>5 DEF Unscored, Unclosed
  <1>8. roomOpen' \in BOOLEAN /\ connected' \in BOOLEAN
    BY DEF DeleteRoom, Attempted, IInv, TypeOK
  <1>9. ScoringIsRecorded'
    BY <1>2, <1>3 DEF IInv, ScoringIsRecorded
  <1> QED
    BY <1>2, <1>3, <1>4, <1>6, <1>7, <1>8, <1>9, OneJobSteps DEF IInv, TypeOK

LEMMA ScoreEndsStep ==
  ASSUME IInv, NEW q \in scoring, ScoreWritten(q) \/ ScoreFails(q)
  PROVE  IInv'
  <1>1. q \in Request /\ q.job \in Job
    BY DEF IInv, TypeOK, Request
  <1>2. /\ scoring' = scoring \ {q} /\ scorecard' \in {scorecard, q.job}
        /\ UNCHANGED <<status, turnRows, consent, room, roomOpen, connected, job>>
        /\ UNCHANGED lost
    BY DEF ScoreWritten, ScoreFails
  <1>3. TypeOK'
    BY <1>1, <1>2 DEF IInv, TypeOK, Job
  <1>4. ScoringIsRecorded'
    BY <1>2 DEF IInv, ScoringIsRecorded
  <1>5. \A i \in Job : JobIsSound(i)'
    BY <1>2 DEF IInv, JobIsSound, Unclosed
  <1>6. \A i \in Job : Unscored(i)'
    BY <1>1, <1>2 DEF IInv, Unscored
  <1> QED
    BY <1>3, <1>4, <1>5, <1>6 DEF IInv

LEMMA CloseStepStep == ASSUME IInv, NEW j \in Job, CloseStep(j) PROVE IInv'
  BY AbruptCloseStep, SayEndsStep, WriteStatusStep, WriteTurnsStep, SkipScoreStep, PostScoreStep,
     ScoreReturnsStep, DeleteRoomStep
  DEF CloseStep

LEMMA StepIInv == IInv /\ [Next]_vars => IInv'
  <1> SUFFICES ASSUME IInv, [Next]_vars PROVE IInv'
    OBVIOUS
  <1>1. CASE ConsentChanges \/ Join \/ Leave \/ RoomCloses
    BY <1>1, ConsentChangesStep, JoinStep, LeaveStep, RoomClosesStep
  <1>2. ASSUME NEW j \in Job, WatchFires(j) \/ WatchCannotStart(j) PROVE IInv'
    <2>1. WithdrawnClose(j) /\ Unclosed(j) /\ (job[j].open \/ "watch" \in job[j].tasks)
      BY <1>2 DEF WatchFires, WatchCannotStart
    <2>2. lost' = lost \/ lost' = TRUE
      BY <1>2 DEF WatchFires, WatchCannotStart
    <2> QED
      BY <2>1, <2>2, WithdrawnCloseStep
  <1>3. ASSUME NEW j \in Job, SpokenClose(j, "cap") \/ SpokenClose(j, "maxed") PROVE IInv'
    BY <1>3, SpokenCloseStep
  <1>4. ASSUME NEW j \in Job, Speak(j) \/ WatchStarts(j) \/ SessionCloses(j) \/ Kill(j) PROVE IInv'
    BY <1>4, SpeakStep, WatchStartsStep, SessionClosesStep, KillStep
  <1>5. CASE UNCHANGED vars
    BY <1>5 DEF vars, IInv, TypeOK, ScoringIsRecorded, JobIsSound, Unscored, Unclosed
  <1> QED
    BY <1>1, <1>2, <1>3, <1>4, <1>5, CloseStepStep, ScoreEndsStep DEF Next

LEMMA SpecIInv == Spec => []IInv
  BY InitIInv, StepIInv, PTL DEF Spec

\* The variables keep their types: no job, status or request the code does not know.
THEOREM InterviewTypeCorrect == Spec => []TypeOK
  <1>1. IInv => TypeOK
    BY DEF IInv
  <1> QED
    BY <1>1, SpecIInv, PTL

\* However the tasks of a job race for the close, an interview that was closed for a
\* withdrawn consent is not scored by that job.
THEOREM WithdrawnIsNotScoredHolds == Spec => []WithdrawnIsNotScored
  <1>1. IInv => WithdrawnIsNotScored
    BY DEF IInv, Unscored, WithdrawnIsNotScored
  <1> QED
    BY <1>1, SpecIInv, PTL

\* As long as no write was lost and no job killed, a scored session has a transcript.
THEOREM ScoredSessionHasTranscriptHolds == Spec => []ScoredSessionHasTranscript
  <1>1. IInv => ScoredSessionHasTranscript
    BY DEF IInv, ScoringIsRecorded, ScoredSessionHasTranscript
  <1> QED
    BY <1>1, SpecIInv, PTL

\* No retry and no second interview replaces the transcript or the scorecard.
THEOREM FirstRecordWinsHolds == Spec => FirstRecordWins
  <1> DEFINE Kept == /\ scorecard # 0 => scorecard' = scorecard
                     /\ turnRows # 0 => turnRows' = turnRows
  <1>1. [Next]_vars => [Kept]_vars
    <2> SUFFICES ASSUME Next PROVE Kept
      OBVIOUS
    <2>1. ASSUME NEW j \in Job, WriteTurns(j) PROVE Kept
      BY <2>1 DEF WriteTurns
    <2>2. ASSUME NEW q \in scoring, ScoreWritten(q) PROVE Kept
      BY <2>2 DEF ScoreWritten
    <2>3. CASE UNCHANGED <<scorecard, turnRows>>
      BY <2>3
    <2> QED
      BY <2>1, <2>2, <2>3
      DEF Next, ConsentChanges, Join, Leave, RoomCloses, Speak, WatchStarts, WatchFires,
          WatchCannotStart, WithdrawnClose, SpokenClose, SessionCloses, CloseStep, AbruptClose,
          SayEnds, WriteStatus, SkipScore, PostScore, ScoreReturns, DeleteRoom, Kill, ScoreFails
  <1> QED
    BY <1>1, PTL DEF Spec, FirstRecordWins

-----------------------------------------------------------------------------
(* WorkerCapacity.                                                          *)
(* Machine-checked proofs about WorkerCapacity, for every finite set of jobs and *)
(* every placement of them in processes.                                         *)

CapacityIInv == CapacityTypeOK /\ CounterIsExact /\ PublishedIsOneProcess

\* The jobs counted in a process are finitely many, and no more than are placed there.
LEMMA CountedIsFinite ==
  ASSUME Placed, NEW p
  PROVE  /\ IsFiniteSet(CountedOn(p)) /\ Cardinality(CountedOn(p)) \in Nat
         /\ Cardinality(CountedOn(p)) <= Cardinality(PlacedOn(p))
  <1>1. PlacedOn(p) \subseteq Interview /\ CountedOn(p) \subseteq PlacedOn(p)
    BY DEF PlacedOn, CountedOn
  <1>2. IsFiniteSet(PlacedOn(p))
    BY <1>1, FS_Subset DEF Placed
  <1> QED
    BY <1>1, <1>2, FS_Subset, FS_CardinalityType

LEMMA CountedIsFiniteNext ==
  ASSUME Placed, NEW p
  PROVE  /\ IsFiniteSet(CountedOn(p)') /\ Cardinality(CountedOn(p)') \in Nat
         /\ Cardinality(CountedOn(p)') <= Cardinality(PlacedOn(p))
  <1>1. PlacedOn(p) \subseteq Interview /\ CountedOn(p)' \subseteq PlacedOn(p)
    BY DEF PlacedOn, CountedOn
  <1>2. IsFiniteSet(PlacedOn(p))
    BY <1>1, FS_Subset DEF Placed
  <1> QED
    BY <1>1, <1>2, FS_Subset, FS_CardinalityType

LEMMA CapacityInitIInv == ASSUME Placed PROVE CapacityInit => CapacityIInv
  <1> SUFFICES ASSUME CapacityInit PROVE CapacityIInv
    OBVIOUS
  <1>1. \A p \in Process : CountedOn(p) = {}
    BY DEF CapacityInit, CountedOn, PlacedOn, CountedStage
  <1>2. CounterIsExact
    BY <1>1, FS_EmptySet DEF CapacityInit, CounterIsExact
  <1> QED
    BY <1>2 DEF Placed, CapacityInit, CapacityIInv, CapacityTypeOK, PublishedIsOneProcess, Stage

\* A step that starts, ends and kills no interview and leaves the counters alone.
LEMMA KeepsCounted ==
  ASSUME Placed, CapacityIInv, CapacityTypeOK', PublishedIsOneProcess', activeJobs' = activeJobs,
         \A j \in Interview : stage'[j] \in CountedStage <=> stage[j] \in CountedStage
  PROVE  CapacityIInv'
  <1>1. \A p \in Process : CountedOn(p)' = CountedOn(p)
    BY DEF CountedOn, PlacedOn, CountedStage
  <1> QED
    BY <1>1 DEF CapacityIInv, CounterIsExact

LEMMA Asking ==
  ASSUME Placed, CapacityIInv, NEW j \in Interview,
         TokenIssued(j) \/ TurnedAway(j) \/ Accepts(j) \/ Rejects(j)
  PROVE  CapacityIInv'
  <1> USE DEF Goes, TokenIssued, TurnedAway, Accepts, Rejects, Announces
  <1>1. CapacityTypeOK'
    BY DEF CapacityIInv, CapacityTypeOK, Stage, Placed
  <1>2. Main \in Process /\ activeJobs[Main] <= Cardinality(PlacedOn(Main))
    BY CountedIsFinite DEF CapacityIInv, CounterIsExact, Placed
  <1>3. PublishedIsOneProcess'
    BY <1>2 DEF CapacityIInv, CapacityTypeOK, PublishedIsOneProcess
  <1>4. \A i \in Interview : stage'[i] \in CountedStage <=> stage[i] \in CountedStage
    BY DEF CapacityIInv, CapacityTypeOK, CountedStage
  <1> QED
    BY <1>1, <1>3, <1>4, KeepsCounted

\* A number no greater than the jobs of a process may be sent.
LEMMA Announcing ==
  ASSUME CapacityTypeOK, PublishedIsOneProcess, NEW j \in Interview, NEW n, NEW p \in Process,
         n <= Cardinality(PlacedOn(p)), sending' = [sending EXCEPT ![j] = n], key' = key
  PROVE  PublishedIsOneProcess'
  <1>1. \A i \in Interview : sending'[i] = IF i = j THEN n ELSE sending[i]
    BY DEF CapacityTypeOK
  <1>2. \A q : PlacedOn(q)' = PlacedOn(q)
    BY DEF PlacedOn
  <1> QED
    BY <1>1, <1>2 DEF PublishedIsOneProcess

LEMMA Starting ==
  ASSUME Placed, CapacityIInv, NEW j \in Interview, Starts(j)
  PROVE  CapacityIInv'
  <1> DEFINE p == ExecutorOf[j]
  <1> USE DEF Goes, Starts, Announces
  <1>1. p \in Process
    BY DEF Placed
  <1>2. CapacityTypeOK'
    BY <1>1 DEF CapacityIInv, CapacityTypeOK, Stage
  <1>3. CountedOn(p)' = CountedOn(p) \cup {j} /\ j \notin CountedOn(p)
    BY DEF CapacityIInv, CapacityTypeOK, CountedOn, PlacedOn, CountedStage
  <1>4. \A q \in Process \ {p} : CountedOn(q)' = CountedOn(q)
    BY DEF CapacityIInv, CapacityTypeOK, CountedOn, PlacedOn, CountedStage
  <1>5. Cardinality(CountedOn(p)') = Cardinality(CountedOn(p)) + 1
    BY <1>3, CountedIsFinite, FS_AddElement
  <1>6. activeJobs'[p] = activeJobs[p] + 1 /\ \A q \in Process \ {p} : activeJobs'[q] = activeJobs[q]
    BY <1>1 DEF CapacityIInv, CapacityTypeOK
  <1>7. activeJobs'[p] = Cardinality(CountedOn(p)')
    BY <1>1, <1>5, <1>6 DEF CapacityIInv, CounterIsExact
  <1>8. CounterIsExact'
    BY <1>4, <1>6, <1>7 DEF CapacityIInv, CounterIsExact
  <1>9. activeJobs'[p] <= Cardinality(PlacedOn(p))
    BY <1>7, CountedIsFiniteNext
  <1>10. PublishedIsOneProcess'
    BY <1>1, <1>9, Announcing DEF CapacityIInv
  <1> QED
    BY <1>2, <1>8, <1>10 DEF CapacityIInv

LEMMA Ending ==
  ASSUME Placed, CapacityIInv, NEW j \in Interview, Ends(j)
  PROVE  CapacityIInv'
  <1> DEFINE p == ExecutorOf[j]
  <1> USE DEF Goes, Ends, Announces
  <1>1. p \in Process
    BY DEF Placed
  <1>2. CountedOn(p)' = CountedOn(p) \ {j} /\ j \in CountedOn(p)
    BY DEF CapacityIInv, CapacityTypeOK, CountedOn, PlacedOn, CountedStage
  <1>3. \A q \in Process \ {p} : CountedOn(q)' = CountedOn(q)
    BY DEF CapacityIInv, CapacityTypeOK, CountedOn, PlacedOn, CountedStage
  <1>4. Cardinality(CountedOn(p)') = Cardinality(CountedOn(p)) - 1
    BY <1>2, CountedIsFinite, FS_RemoveElement
  <1>5. activeJobs[p] = Cardinality(CountedOn(p)) /\ activeJobs[p] # 0
    BY <1>1, <1>2, CountedIsFinite, FS_EmptySet DEF CapacityIInv, CounterIsExact
  <1>6. activeJobs[p] \in Nat
    BY <1>1 DEF CapacityIInv, CapacityTypeOK
  <1>7. Fewer(activeJobs[p]) = activeJobs[p] - 1 /\ Fewer(activeJobs[p]) \in Nat
    BY <1>5, <1>6 DEF Fewer
  <1>8. activeJobs'[p] = activeJobs[p] - 1 /\ \A q \in Process \ {p} : activeJobs'[q] = activeJobs[q]
    BY <1>1, <1>7 DEF CapacityIInv, CapacityTypeOK
  <1>9. CapacityTypeOK'
    BY <1>1, <1>7 DEF CapacityIInv, CapacityTypeOK, Stage
  <1>10. activeJobs'[p] = Cardinality(CountedOn(p)')
    BY <1>4, <1>5, <1>8
  <1>11. CounterIsExact'
    BY <1>3, <1>8, <1>10 DEF CapacityIInv, CounterIsExact
  <1>12. activeJobs'[p] <= Cardinality(PlacedOn(p))
    BY <1>10, CountedIsFiniteNext
  <1>13. PublishedIsOneProcess'
    BY <1>1, <1>12, Announcing DEF CapacityIInv
  <1> QED
    BY <1>9, <1>11, <1>13 DEF CapacityIInv

LEMMA EndingUncounted ==
  ASSUME Placed, CapacityIInv, NEW j \in Interview, EndsUncounted(j)
  PROVE  CapacityIInv'
  <1> USE DEF Goes, EndsUncounted
  <1>1. CapacityTypeOK' /\ PublishedIsOneProcess'
    BY DEF CapacityIInv, CapacityTypeOK, PublishedIsOneProcess, Stage
  <1>2. \A i \in Interview : stage'[i] \in CountedStage <=> stage[i] \in CountedStage
    BY DEF CapacityIInv, CapacityTypeOK, CountedStage
  <1> QED
    BY <1>1, <1>2, KeepsCounted

LEMMA Publishing ==
  ASSUME Placed, CapacityIInv, (\E j \in Interview : Publishes(j)) \/ KeyExpires
  PROVE  CapacityIInv'
  <1>1. CapacityTypeOK' /\ PublishedIsOneProcess'
    BY DEF Publishes, KeyExpires, CapacityIInv, CapacityTypeOK, PublishedIsOneProcess
  <1>2. activeJobs' = activeJobs /\ \A j \in Interview : stage'[j] \in CountedStage <=> stage[j] \in CountedStage
    BY DEF Publishes, KeyExpires
  <1> QED
    BY <1>1, <1>2, KeepsCounted

LEMMA Dying ==
  ASSUME Placed, CapacityIInv, NEW p \in Process, ProcessDies(p)
  PROVE  CapacityIInv'
  <1> USE DEF ProcessDies
  <1>1. CapacityTypeOK'
    BY DEF CapacityIInv, CapacityTypeOK, Stage
  <1>2. PublishedIsOneProcess'
    BY DEF CapacityIInv, CapacityTypeOK, PublishedIsOneProcess
  <1>3. ASSUME NEW q \in Dies(p), q \in Process PROVE CountedOn(q)' = {} /\ activeJobs'[q] = 0
    BY <1>3 DEF CountedOn, PlacedOn, CountedStage
  <1>4. ASSUME NEW q \in Process \ Dies(p) PROVE CountedOn(q)' = CountedOn(q) /\ activeJobs'[q] = activeJobs[q]
    BY <1>4 DEF CountedOn, PlacedOn, CountedStage
  <1>5. CounterIsExact'
    BY <1>3, <1>4, FS_EmptySet DEF CapacityIInv, CounterIsExact
  <1> QED
    BY <1>1, <1>2, <1>5 DEF CapacityIInv

LEMMA CapacityStepIInv == ASSUME Placed PROVE CapacityIInv /\ [CapacityNext]_capacityVars => CapacityIInv'
  <1> SUFFICES ASSUME CapacityIInv, [CapacityNext]_capacityVars PROVE CapacityIInv'
    OBVIOUS
  <1>1. CASE UNCHANGED capacityVars
    BY <1>1 DEF capacityVars, CapacityIInv, CapacityTypeOK, CounterIsExact, PublishedIsOneProcess, CountedOn, PlacedOn, CountedStage
  <1>2. CASE CapacityNext
    BY <1>2, Asking, Starting, Ending, EndingUncounted, Publishing, Dying DEF CapacityNext
  <1> QED
    BY <1>1, <1>2

LEMMA CapacitySpecIInv == ASSUME Placed PROVE CapacitySpec => []CapacityIInv
  <1>1. CapacityInit => CapacityIInv
    BY CapacityInitIInv
  <1>2. CapacityIInv /\ [CapacityNext]_capacityVars => CapacityIInv'
    BY CapacityStepIInv
  <1> QED
    BY <1>1, <1>2, PTL DEF CapacitySpec

\* The counter of a process is the number of interviews that run in it or were shut
\* down before their decrement was registered.
THEOREM CounterIsExactHolds == ASSUME Placed PROVE CapacitySpec => []CounterIsExact
  <1>1. CapacityIInv => CounterIsExact
    BY DEF CapacityIInv
  <1> QED
    BY <1>1, CapacitySpecIInv, PTL

\* What Redis tells the token endpoint counts the interviews of one process only.
THEOREM PublishedIsOneProcessHolds == ASSUME Placed PROVE CapacitySpec => []PublishedIsOneProcess
  <1>1. CapacityIInv => PublishedIsOneProcess
    BY DEF CapacityIInv
  <1> QED
    BY <1>1, CapacitySpecIInv, PTL

\* With a process per job the main process rejects nothing: its counter stays at zero.
THEOREM ProcessesRejectNothing ==
  ASSUME Placed, ProcessPerJob, ~Full(0)
  PROVE  CapacitySpec => []NoDeadRoom
  <1>1. CapacityInit => NoDeadRoom
    BY DEF CapacityInit, NoDeadRoom
  <1>2. CapacityIInv /\ NoDeadRoom /\ [CapacityNext]_capacityVars => NoDeadRoom'
    <2> SUFFICES ASSUME CapacityIInv, NoDeadRoom, [CapacityNext]_capacityVars PROVE NoDeadRoom'
      OBVIOUS
    <2>1. CountedOn(Main) = {}
      BY DEF CountedOn, PlacedOn, ProcessPerJob
    <2>2. activeJobs[Main] = 0
      BY <2>1, FS_EmptySet DEF CapacityIInv, CounterIsExact, Placed
    <2>3. \A j \in Interview : ~Rejects(j)
      BY <2>2 DEF Rejects
    <2> QED
      BY <2>3 DEF CapacityNext, TokenIssued, TurnedAway, Accepts, Starts, Ends, EndsUncounted, Publishes,
                  KeyExpires, ProcessDies, Goes, capacityVars, NoDeadRoom, CapacityIInv, CapacityTypeOK
  <1> QED
    BY <1>1, <1>2, CapacitySpecIInv, PTL DEF CapacitySpec

\* With a process per job and a ceiling above one no candidate is told to come back
\* later: the number in Redis is at most one.
THEOREM ProcessesTurnNobodyAway ==
  ASSUME Placed, ProcessPerJob, Cap \in Nat, Cap > 1
  PROVE  CapacitySpec => []NobodyIsTurnedAway
  <1>1. CapacityInit => NobodyIsTurnedAway
    BY DEF CapacityInit, NobodyIsTurnedAway
  <1>2. \A p \in Process : Cardinality(PlacedOn(p)) \in {0, 1}
    <2> SUFFICES ASSUME NEW p \in Process PROVE Cardinality(PlacedOn(p)) \in {0, 1}
      OBVIOUS
    <2>1. CASE PlacedOn(p) = {}
      BY <2>1, FS_EmptySet
    <2>2. CASE PlacedOn(p) # {}
      <3>1. PICK j \in PlacedOn(p) : TRUE
        BY <2>2
      <3>2. PlacedOn(p) = {j}
        BY <3>1 DEF PlacedOn, ProcessPerJob
      <3> QED
        BY <3>2, FS_Singleton
    <2> QED
      BY <2>1, <2>2
  <1>3. CapacityIInv /\ NobodyIsTurnedAway /\ [CapacityNext]_capacityVars => NobodyIsTurnedAway'
    <2> SUFFICES ASSUME CapacityIInv, NobodyIsTurnedAway, [CapacityNext]_capacityVars
                 PROVE  NobodyIsTurnedAway'
      OBVIOUS
    <2>1. key # NoValue => key \in Nat /\ key <= 1
      BY <1>2 DEF CapacityIInv, CapacityTypeOK, PublishedIsOneProcess
    <2>2. \A j \in Interview : ~TurnedAway(j)
      BY <2>1 DEF TurnedAway
    <2> QED
      BY <2>2 DEF CapacityNext, TokenIssued, Rejects, Accepts, Starts, Ends, EndsUncounted, Publishes,
                  KeyExpires, ProcessDies, Goes, capacityVars, NobodyIsTurnedAway, CapacityIInv, CapacityTypeOK
  <1> QED
    BY <1>1, <1>3, CapacitySpecIInv, PTL DEF CapacitySpec

-----------------------------------------------------------------------------
(* Proctoring.                                                              *)
(* Machine-checked proofs about Proctoring, for every set of requests and events. *)

ProctoringTypeOK ==
    /\ raised \subseteq Event /\ queue \subseteq raised /\ stored \subseteq raised
    /\ pc \in [Post -> PostStage]
    /\ batch \in [Post -> SUBSET Event]
    /\ read \in [Post -> SUBSET Event]

(* What a request has read is stored already or is its own, and no event is in    *)
(* the queue, a batch and the table at a time without the batch being stored.     *)
Carried ==
    /\ queue \cap stored = {}
    /\ \A r \in Post : /\ batch[r] \subseteq raised
                       /\ pc[r] = "idle" => batch[r] = {}
                       /\ pc[r] = "scoring" => read[r] \subseteq stored \cup batch[r]

ProctoringIInv == ProctoringTypeOK /\ Carried /\ BatchesAreWhole /\ ScoreIsOfStored

LEMMA ProctoringInitIInv == ProctoringInit => ProctoringIInv
  BY DEF ProctoringInit, ProctoringIInv, ProctoringTypeOK, Carried, BatchesAreWhole, ScoreIsOfStored, PostStage

LEMMA Browsing ==
  ASSUME ProctoringIInv, (\E e \in Event : Raises(e)) \/ \E r \in Post : Posts(r)
  PROVE  ProctoringIInv'
  <1>1. ASSUME NEW e \in Event, Raises(e) PROVE ProctoringIInv'
    BY <1>1 DEF Raises, ProctoringIInv, ProctoringTypeOK, Carried, BatchesAreWhole, ScoreIsOfStored
  <1>2. ASSUME NEW r \in Post, Posts(r) PROVE ProctoringIInv'
    <2>1. /\ UNCHANGED <<raised, read, stored, summary>>
          /\ pc[r] = "idle" /\ pc'[r] = "sent" /\ batch[r] = {} /\ batch'[r] \subseteq queue
          /\ queue' \subseteq queue /\ batch'[r] \cap queue' = {}
          /\ \A q \in Post \ {r} : pc'[q] = pc[q] /\ batch'[q] = batch[q]
      BY <1>2 DEF Posts, PostGoes, ProctoringIInv, ProctoringTypeOK, Carried
    <2>2. ProctoringTypeOK'
      BY <1>2, <2>1 DEF Posts, PostGoes, ProctoringIInv, ProctoringTypeOK, PostStage
    <2>3. Carried'
      BY <2>1 DEF ProctoringIInv, ProctoringTypeOK, Carried
    <2>4. \A q \in Post : /\ batch'[q] \cap queue' = {}
                          /\ pc'[q] = "answered" => batch'[q] \subseteq stored'
                          /\ pc'[q] # "answered" => batch'[q] \cap stored' = {}
      BY <2>1 DEF ProctoringIInv, Carried, BatchesAreWhole
    <2>5. \A q \in Post \ {r} : batch'[q] \cap batch'[r] = {}
      BY <2>1 DEF ProctoringIInv, BatchesAreWhole
    <2>6. BatchesAreWhole'
      BY <2>1, <2>4, <2>5 DEF ProctoringIInv, BatchesAreWhole
    <2>7. ScoreIsOfStored'
      BY <2>1 DEF ProctoringIInv, ScoreIsOfStored
    <2> QED
      BY <2>2, <2>3, <2>6, <2>7 DEF ProctoringIInv
  <1> QED
    BY <1>1, <1>2

LEMMA Handling ==
  ASSUME ProctoringIInv, NEW r \in Post,
         Lost(r) \/ Inserts(r) \/ Refused(r) \/ Requeries(r) \/ Fails(r)
  PROVE  ProctoringIInv'
  <1>1. /\ UNCHANGED <<raised, queue, batch, stored, summary>>
        /\ pc[r] \in {"sent", "inserted", "scoring"} /\ pc'[r] \in {"inserted", "scoring", "gone"}
        /\ \A q \in Post \ {r} : pc'[q] = pc[q] /\ read'[q] = read[q]
        /\ pc'[r] = "scoring" => read'[r] = stored \cup batch[r]
    BY DEF Lost, Inserts, Refused, Requeries, Fails, PostGoes, ProctoringIInv, ProctoringTypeOK
  <1>2. ProctoringTypeOK'
    BY DEF Lost, Inserts, Refused, Requeries, Fails, PostGoes, ProctoringIInv, ProctoringTypeOK, PostStage
  <1>3. Carried'
    BY <1>1 DEF ProctoringIInv, Carried
  <1>4. BatchesAreWhole'
    BY <1>1 DEF ProctoringIInv, BatchesAreWhole
  <1>5. ScoreIsOfStored'
    BY <1>1 DEF ProctoringIInv, ScoreIsOfStored
  <1> QED
    BY <1>2, <1>3, <1>4, <1>5 DEF ProctoringIInv

LEMMA Committing ==
  ASSUME ProctoringIInv, NEW r \in Post, PostCommits(r)
  PROVE  ProctoringIInv'
  <1>1. /\ UNCHANGED <<raised, queue, batch, read>>
        /\ stored' = stored \cup batch[r] /\ summary' = SummaryOf(read[r])
        /\ pc[r] = "scoring" /\ pc'[r] = "answered"
        /\ \A q \in Post \ {r} : pc'[q] = pc[q]
    BY DEF PostCommits, PostGoes, ProctoringIInv, ProctoringTypeOK
  <1>2. ProctoringTypeOK'
    BY <1>1 DEF PostCommits, PostGoes, ProctoringIInv, ProctoringTypeOK, Carried, PostStage
  <1>3. Carried'
    BY <1>1 DEF ProctoringIInv, Carried, BatchesAreWhole
  <1>4. BatchesAreWhole'
    BY <1>1 DEF ProctoringIInv, BatchesAreWhole
  <1>5. ScoreIsOfStored'
    BY <1>1 DEF ProctoringIInv, Carried, ScoreIsOfStored, SummaryOf
  <1> QED
    BY <1>2, <1>3, <1>4, <1>5 DEF ProctoringIInv

LEMMA ProctoringStepIInv == ProctoringIInv /\ [ProctoringNext]_proctoringVars => ProctoringIInv'
  <1> SUFFICES ASSUME ProctoringIInv, [ProctoringNext]_proctoringVars PROVE ProctoringIInv'
    OBVIOUS
  <1>1. CASE UNCHANGED proctoringVars \/ Closes
    BY <1>1 DEF proctoringVars, Closes, ProctoringIInv, ProctoringTypeOK, Carried, BatchesAreWhole, ScoreIsOfStored
  <1>2. CASE ProctoringNext /\ ~Closes
    BY <1>2, Browsing, Handling, Committing DEF ProctoringNext
  <1> QED
    BY <1>1, <1>2

LEMMA ProctoringSpecIInv == ProctoringSpec => []ProctoringIInv
  <1> QED
    BY ProctoringInitIInv, ProctoringStepIInv, PTL DEF ProctoringSpec

\* The score shown is that of events that are stored.
THEOREM ScoreIsOfStoredHolds == ProctoringSpec => []ScoreIsOfStored
  <1>1. ProctoringIInv => ScoreIsOfStored
    BY DEF ProctoringIInv
  <1> QED
    BY <1>1, ProctoringSpecIInv, PTL

\* Batches are disjoint, and each is stored as a whole or not at all.
THEOREM BatchesAreWholeHolds == ProctoringSpec => []BatchesAreWhole
  <1>1. ProctoringIInv => BatchesAreWhole
    BY DEF ProctoringIInv
  <1> QED
    BY <1>1, ProctoringSpecIInv, PTL

-----------------------------------------------------------------------------
(* SttStream.                                                               *)
(* Machine-checked proofs about SttStream, for every number of reconnects   *)
(* and of frames: what finalize returns is the last frame of the session as *)
(* long as the connection was not lost.                                     *)

\* Until a reconnect, nothing can follow a sentinel: the reader that wrote it has ended.
Unsealed ==
    stt.reconnects = 0 =>
        /\ stt.reader = "running" => ~stt.sealed
        /\ stt.heard = stt.latest

\* A reader runs only on a connection that finalize has not closed.
Attached == stt.reader = "running" => stt.conn \in {"open", "lost", "ended"}

SttIInv == SttTypeOK /\ Unsealed /\ Attached

LEMMA SttInitIInv == SttInit => SttIInv
  BY ReconnectAssumption, FrameAssumption
  DEF SttInit, NewSession, SttIInv, SttTypeOK, Session, Connection, Unsealed, Attached

LEMMA SttStepIInv == SttIInv /\ [SttNext]_stt => SttIInv'
  <1> SUFFICES ASSUME SttIInv, [SttNext]_stt PROVE SttIInv'
    OBVIOUS
  <1> USE ReconnectAssumption, FrameAssumption
      DEF SttIInv, SttTypeOK, Session, Connection, Unsealed, Attached
  <1>1. CASE Start
    <2>1. stt' = [conn |-> "open", reader |-> "running", finalized |-> FALSE, sealed |-> FALSE,
                  heard |-> 0, latest |-> 0, reconnects |-> 0]
      BY <1>1 DEF Start, NewSession
    <2> QED
      BY <2>1
  <1>2. CASE VendorCloses
    <2>1. PICK how \in {"lost", "ended"} : stt' = [stt EXCEPT !.conn = how]
      BY <1>2 DEF VendorCloses
    <2>2. SttTypeOK'
      BY <2>1
    <2>3. /\ stt'.reader = stt.reader /\ stt'.sealed = stt.sealed /\ stt'.heard = stt.heard
          /\ stt'.latest = stt.latest /\ stt'.reconnects = stt.reconnects /\ stt'.conn = how
      BY <2>1
    <2> QED
      BY <2>2, <2>3
  <1>3. CASE FrameArrives
    <2>1. /\ stt.reader = "running" /\ stt.latest < MaxFrames
          /\ stt' = [stt EXCEPT !.latest = @ + 1,
                                !.heard = IF stt.sealed THEN @ ELSE stt.latest + 1]
      BY <1>3 DEF FrameArrives
    <2>2. stt.latest + 1 \in 0..MaxFrames
      BY <2>1
    <2>3. (IF stt.sealed THEN stt.heard ELSE stt.latest + 1) \in 0..MaxFrames
      BY <2>2
    <2>4. SttTypeOK'
      BY <2>1, <2>2, <2>3
    <2>5. /\ stt'.conn = stt.conn /\ stt'.reader = stt.reader /\ stt'.sealed = stt.sealed
          /\ stt'.reconnects = stt.reconnects /\ stt'.latest = stt.latest + 1
          /\ stt'.heard = IF stt.sealed THEN stt.heard ELSE stt.latest + 1
      BY <2>1
    <2> QED
      BY <2>1, <2>4, <2>5
  <1>4. CASE ReaderEnds
    <2>1. stt' = [stt EXCEPT !.reader = "done", !.sealed = TRUE]
      BY <1>4 DEF ReaderEnds
    <2>2. SttTypeOK'
      BY <2>1
    <2>3. /\ stt'.reader = "done" /\ stt'.heard = stt.heard
          /\ stt'.latest = stt.latest /\ stt'.reconnects = stt.reconnects
      BY <2>1
    <2> QED
      BY <2>2, <2>3
  <1>5. CASE Sent
    <2>1. CASE UNCHANGED stt
      BY <2>1
    <2>2. CASE /\ stt.reconnects < MaxReconnects
               /\ stt' = [stt EXCEPT !.reconnects = @ + 1, !.sealed = TRUE, !.reader = "done"]
      <3>1. stt.reconnects + 1 \in 0..MaxReconnects
        BY <2>2
      <3>2. SttTypeOK'
        BY <2>2, <3>1
      <3>3. stt'.reconnects # 0 /\ stt'.reader = "done"
        BY <2>2
      <3> QED
        BY <3>2, <3>3
    <2>3. CASE /\ stt.reconnects < MaxReconnects
               /\ stt' = [stt EXCEPT !.reconnects = @ + 1, !.sealed = TRUE,
                                     !.conn = "open", !.reader = "running"]
      <3>1. stt.reconnects + 1 \in 0..MaxReconnects
        BY <2>3
      <3>2. SttTypeOK'
        BY <2>3, <3>1
      <3>3. stt'.reconnects # 0 /\ stt'.conn = "open"
        BY <2>3
      <3> QED
        BY <3>2, <3>3
    <2> QED
      BY <1>5, <2>1, <2>2, <2>3 DEF Sent
  <1>6. CASE FinalizeEnds
    <2>1. stt' = [stt EXCEPT !.conn = "closed", !.reader = "done", !.finalized = TRUE,
                             !.sealed = TRUE]
      BY <1>6 DEF FinalizeEnds, Closed
    <2>2. SttTypeOK'
      BY <2>1
    <2>3. /\ stt'.reader = "done" /\ stt'.heard = stt.heard
          /\ stt'.latest = stt.latest /\ stt'.reconnects = stt.reconnects
      BY <2>1
    <2> QED
      BY <2>2, <2>3
  <1>7. CASE FinalizeBegins
    <2>1. stt' = [stt EXCEPT !.finalized = TRUE]
      BY <1>7 DEF FinalizeBegins
    <2>2. SttTypeOK'
      BY <2>1
    <2>3. /\ stt'.conn = stt.conn /\ stt'.reader = stt.reader /\ stt'.sealed = stt.sealed
          /\ stt'.heard = stt.heard /\ stt'.latest = stt.latest
          /\ stt'.reconnects = stt.reconnects
      BY <2>1
    <2> QED
      BY <2>2, <2>3
  <1>8. CASE UNCHANGED stt
    BY <1>8
  <1> QED
    BY <1>1, <1>2, <1>3, <1>4, <1>5, <1>6, <1>7, <1>8 DEF SttNext, Background

LEMMA SttSpecIInv == SttSpec => []SttIInv
  BY SttInitIInv, SttStepIInv, PTL DEF SttSpec

\* The session keeps its type.
THEOREM SttTypeOKHolds == SttSpec => []SttTypeOK
  BY SttSpecIInv, PTL DEF SttIInv

\* Without a reconnect the transcript is the last frame the vendor sent.
THEOREM FinalIsLatestHolds == SttSpec => []FinalIsLatestWithoutReconnect
  <1>1. SttIInv => FinalIsLatestWithoutReconnect
    BY DEF SttIInv, Unsealed, FinalIsLatestWithoutReconnect, Transcript
  <1> QED
    BY <1>1, SttSpecIInv, PTL

\* No reader outlives its session.
THEOREM ClosedHasNoReaderHolds == SttSpec => []ClosedHasNoReader
  <1>1. SttIInv => ClosedHasNoReader
    BY DEF SttIInv, Attached, ClosedHasNoReader
  <1> QED
    BY <1>1, SttSpecIInv, PTL

-----------------------------------------------------------------------------
(* SpokenInterview.                                                         *)

QuestionLine == Interviewer("question", 0)

InTranscript(line) == \E i \in 1..Len(turns) : turns[i] = line

\* Before a candidate is there nothing has been said.
SilentAtFirst ==
    /\ main = "waiting" => /\ turns = <<>> /\ reported = <<>> /\ phase = "greeting"
                           /\ turn_count = 0 /\ done = FALSE /\ turn = [t \in Turn |-> "none"]
    /\ main # "waiting" => /\ phase # "greeting" /\ Len(turns) >= 1
                           /\ turns[1] = Interviewer("greeting", 0) /\ InTranscript(message)
    /\ main \in {"waiting", "building", "greeting"} => turn["question"] = "none"
    /\ main \in {"waiting", "building"} => consumer \in {"none", "gated"}
    /\ track = "none" => consumer = "none"

\* The consumer waits for the reply it started, and replies only while the interview is open.
OneReply ==
    /\ turn["reply"] # "none" => consumer = "replying"
    /\ phase = "done" => turn["reply"] \notin {"created", "streaming"}
    /\ phase = "done" => consumer \notin {"ending", "interrupting"}
    /\ done = TRUE => phase = "done"

\* Each answer is counted, and the one that reaches max_turns closes the interview.
CountIsKept ==
    /\ Answers = turn_count
    /\ (phase = "done") <=> (turn_count = MaxTurns)
    /\ \A i \in 1..Len(turns) : turns[i].kind = "closing" =>
          i > 1 /\ turns[i].after = MaxTurns /\ turns[i - 1] = Candidate(MaxTurns - 1)

\* The first question is committed once.
QuestionIsNew ==
    turn["question"] \in {"none", "created", "streaming"} => ~InTranscript(QuestionLine)

\* While no one has talked before the first question or stopped run(), the lines alternate.
LinesAlternate ==
    (main \notin {"waiting", "closing", "finished"} /\ ~AnsweredEarly) =>
        /\ Len(turns) >= 2 => turns[2] = QuestionLine
        /\ turn["reply"] = "streaming" => turns[Len(turns)].speaker = "candidate"
        /\ (turn["reply"] \notin {"streaming", "failed"} /\ consumer # "died") =>
              turns[Len(turns)].speaker = "interviewer"

\* The consumer is through with an answer, or with all of them.
Through == {"interrupting", "replying", "over", "died"}

\* A session is open only between the first loud frame of an answer and its end, or it was
\* cut in its grace period; and only the end of an answer finalizes it.
SessionIsHeld ==
    /\ ear \in [speaking : BOOLEAN, enough : BOOLEAN]
    /\ ear.speaking = FALSE => stt.conn \in {"none", "closed"} \/ CutInGrace
    /\ consumer \in Through => ear.speaking = FALSE
    /\ stt.finalized => stt.conn = "closed" \/ consumer = "ending" \/ CutInGrace
    /\ consumer = "ending" => stt.finalized = TRUE
    /\ track = "none" => consumer = "none"

HearInv == SttIInv /\ SessionIsHeld

TalkTyped ==
    /\ main \in {"waiting", "building", "greeting", "asking", "conversing", "closing",
                 "finished", "raised"}
    /\ consumer \in {"none", "gated", "listening", "ending", "interrupting", "replying",
                     "over", "died"}
    /\ track \in {"none", "live", "over"}
    /\ turn \in [Turn -> TurnState]
    /\ active \in Turn \cup {"none"}
    /\ phase \in {"greeting", "in_progress", "done"}
    /\ turns \in Seq(Line) /\ reported \in Seq(Line)
    /\ turn_count \in 0..MaxTurns
    /\ message \in Line \cup {NoMessage}
    /\ done \in BOOLEAN
    /\ avatar \in {"none", "simli", "voice", "closed"}

TalkInv ==
    /\ TalkTyped
    /\ SilentAtFirst /\ OneReply /\ CountIsKept
    /\ QuestionIsNew /\ LinesAlternate

LEMMA SpokenInitHears == SpokenInit => HearInv
  <1> SUFFICES ASSUME SpokenInit PROVE HearInv
    OBVIOUS
  <1>1. SttIInv
    BY SttInitIInv DEF SpokenInit
  <1>2. /\ ear = [speaking |-> FALSE, enough |-> FALSE] /\ stt.conn = "none"
        /\ stt.finalized = FALSE /\ consumer = "none"
    BY DEF SpokenInit, Deaf, SttInit, NewSession
  <1> QED
    BY <1>1, <1>2 DEF HearInv, SessionIsHeld, Through

\* A step of the session, or of none, keeps what holds of it.
LEMMA SessionStep ==
  ASSUME SttIInv, SttNext \/ stt' = stt
  PROVE  SttIInv'
  BY SttStepIInv

LEMMA NewSessionFits ==
  ASSUME stt' = NewSession
  PROVE  SttIInv' /\ stt'.conn = "none" /\ stt'.finalized = FALSE
  <1>1. stt'.conn = "none" /\ stt'.finalized = FALSE
    BY DEF NewSession
  <1>2. SttIInv'
    BY ReconnectAssumption, FrameAssumption
    DEF NewSession, SttIInv, SttTypeOK, Session, Connection, Unsealed, Attached
  <1> QED
    BY <1>1, <1>2

LEMMA ClosedFits ==
  ASSUME SttIInv, stt' = Closed
  PROVE  SttIInv' /\ stt'.conn = "closed"
  <1>1. stt \in Session
    BY DEF SttIInv, SttTypeOK
  <1>2. stt' = [stt EXCEPT !.conn = "closed", !.reader = "done", !.finalized = TRUE,
                           !.sealed = TRUE]
    BY DEF Closed
  <1>3. /\ stt'.conn = "closed" /\ stt'.reader = "done" /\ stt'.heard = stt.heard
        /\ stt'.latest = stt.latest /\ stt'.reconnects = stt.reconnects
    BY <1>1, <1>2 DEF Session
  <1>4. stt' \in Session
    BY <1>1, <1>2 DEF Session, Connection
  <1> QED
    BY <1>3, <1>4 DEF SttIInv, SttTypeOK, Unsealed, Attached

\* However the consumer leaves, its finally block has given the session back.
LEMMA LeavingCloses ==
  ASSUME HearInv, NEW how, Leaves(how), consumer \in {"gated", "listening"}, track' = track,
         how # "ending"
  PROVE  HearInv'
  <1>1. SttIInv' /\ stt'.conn \in {"none", "closed"} /\ (stt'.finalized => stt'.conn = "closed")
    <2>1. CASE stt' = stt /\ stt.conn = "none"
      BY <2>1, SessionStep DEF HearInv, SessionIsHeld, CutInGrace
    <2>2. CASE stt' = stt /\ stt.finalized
      BY <2>2, SessionStep DEF HearInv, SessionIsHeld, CutInGrace
    <2>3. CASE stt' = Closed
      BY <2>3, ClosedFits DEF HearInv
    <2> QED
      BY <2>1, <2>2, <2>3 DEF Leaves
  <1>2. ear' = [speaking |-> FALSE, enough |-> FALSE]
    BY DEF Leaves, Deaf
  <1>3. track # "none" /\ consumer' # "ending"
    BY DEF HearInv, SessionIsHeld, Leaves
  <1> QED
    BY <1>1, <1>2, <1>3 DEF HearInv, SessionIsHeld

\* While the candidate speaks a step of the session is all that happens to it.
LEMMA SpeakingKeeps ==
  ASSUME HearInv, SttNext \/ stt' = stt, ear' \in [speaking : BOOLEAN, enough : BOOLEAN],
         ear'.speaking = TRUE, consumer = "listening", consumer' \in {"listening", "ending"},
         stt'.finalized => (stt.finalized \/ consumer' = "ending"), track' = track,
         consumer' = "ending" => stt'.finalized = TRUE,
         stt.conn = "closed" => stt'.conn = "closed"
  PROVE  HearInv'
  <1>1. SttIInv'
    BY SessionStep DEF HearInv
  <1>2. stt'.finalized => stt'.conn = "closed" \/ consumer' = "ending"
    BY DEF HearInv, SessionIsHeld, CutInGrace
  <1>3. track # "none"
    BY DEF HearInv, SessionIsHeld
  <1> QED
    BY <1>1, <1>2, <1>3 DEF HearInv, SessionIsHeld, Through

\* The session rests, and a finalize that was cut remains so.
LEMMA RestingKeeps ==
  ASSUME HearInv, stt' = stt, ear' = ear,
         consumer' \in Through => (consumer \in Through \/ ear.speaking = FALSE),
         consumer \in {"ending", "over"} => consumer' = consumer,
         consumer' = "ending" => consumer = "ending",
         main \in {"closing", "finished"} => main' \in {"closing", "finished"},
         track' = "none" => consumer' = "none"
  PROVE  HearInv'
  <1>1. SttIInv'
    BY SessionStep DEF HearInv
  <1>2. CutInGrace => CutInGrace'
    BY DEF CutInGrace
  <1> QED
    BY <1>1, <1>2 DEF HearInv, SessionIsHeld

LEMMA CancellationHears ==
  ASSUME HearInv, ConsumerCancelled, main' = "closing", track' = track
  PROVE  HearInv'
  <1>1. CASE UNCHANGED <<stt, consumer, ear>>
    BY <1>1, RestingKeeps DEF HearInv, SessionIsHeld
  <1>2. CASE consumer \in {"gated", "listening"} /\ Leaves("over")
    BY <1>2, LeavingCloses
  <1>3. CASE consumer = "ending" /\ consumer' = "over" /\ ear' = Deaf
    <2>1. ear' = [speaking |-> FALSE, enough |-> FALSE] /\ track # "none"
      BY <1>3 DEF Deaf, HearInv, SessionIsHeld
    <2>2. CASE UNCHANGED stt
      <3>1. stt'.finalized = TRUE
        BY <1>3, <2>2 DEF HearInv, SessionIsHeld
      <3>2. CutInGrace'
        BY <1>3, <3>1 DEF CutInGrace
      <3>3. SttIInv'
        BY <2>2, SessionStep DEF HearInv
      <3> QED
        BY <1>3, <2>1, <3>2, <3>3 DEF HearInv, SessionIsHeld
    <2>3. CASE stt' = Closed
      BY <1>3, <2>1, <2>3, ClosedFits DEF HearInv, SessionIsHeld
    <2> QED
      BY <1>3, <2>2, <2>3 DEF ConsumerCancelled
  <1>4. CASE consumer = "interrupting" /\ consumer' \in {"interrupting", "over"}
             /\ UNCHANGED <<stt, ear>>
    BY <1>4, RestingKeeps DEF HearInv, SessionIsHeld, Through
  <1> QED
    BY <1>1, <1>2, <1>3, <1>4 DEF ConsumerCancelled

LEMMA StepHears == HearInv /\ [SpokenNext]_spokenVars => HearInv'
  <1> SUFFICES ASSUME HearInv, [SpokenNext]_spokenVars PROVE HearInv'
    OBVIOUS
  <1>1. /\ ear \in [speaking : BOOLEAN, enough : BOOLEAN] /\ SttIInv
        /\ track = "none" => consumer = "none"
    BY DEF HearInv, SessionIsHeld
  <1>2. CASE \/ StopsWaiting \/ AvatarBuilt \/ GreetingSpoken \/ GreetingFails \/ QuestionEnds
             \/ CallCloses \/ ReplyStarts \/ TrackEnds \/ \E t \in Turn : TurnStep(t)
             \/ (main = "asking" /\ Stopped) \/ UNCHANGED spokenVars
    <2>1. stt' = stt /\ ear' = ear /\ consumer' = consumer /\ track' \in {track, "over"}
      BY <1>2 DEF StopsWaiting, AvatarBuilt, GreetingSpoken, GreetingFails, QuestionEnds,
                  CallCloses, ReplyStarts, TrackEnds, TurnStep, Commits, TurnFails, TurnSpoken,
                  Stopped, spokenVars
    <2>2. main \in {"closing", "finished"} => main' \in {"closing", "finished"}
      BY <1>2 DEF StopsWaiting, AvatarBuilt, GreetingSpoken, GreetingFails, QuestionEnds,
                  CallCloses, ReplyStarts, TrackEnds, TurnStep, Commits, TurnFails, TurnSpoken,
                  Stopped, spokenVars
    <2> QED
      BY <1>1, <2>1, <2>2, RestingKeeps
  <1>3. CASE CallEnds \/ (main = "conversing" /\ Stopped)
    BY <1>3, CancellationHears DEF CallEnds, Stopped
  <1>4. CASE TrackIsOver \/ FrameAfterEnd \/ FrameRaises
    BY <1>4, LeavingCloses DEF TrackIsOver, FrameAfterEnd, FrameRaises, Hears
  <1>5. CASE SpeechBegins
    <2>1. ear' = [speaking |-> TRUE, enough |-> FALSE] /\ SttNext /\ consumer = "listening"
          /\ consumer' = "listening" /\ track' = track
      BY <1>5 DEF SpeechBegins, SttNext, Hears
    <2>2. stt'.finalized = FALSE /\ stt.conn = "none"
      BY <1>5 DEF SpeechBegins, Start, NewSession
    <2> QED
      BY <2>1, <2>2, SpeakingKeeps
  <1>6. ASSUME Sent, consumer = "listening", consumer' = "listening", ear.speaking = TRUE,
               track' = track, ear' \in [speaking : BOOLEAN, enough : BOOLEAN],
               ear'.speaking = TRUE
        PROVE  HearInv'
    <2>1. stt'.finalized = stt.finalized /\ (stt.conn = "closed" => stt'.conn = "closed")
      BY <1>1, <1>6 DEF Sent, SttIInv, SttTypeOK, Session
    <2> QED
      BY <1>6, <2>1, SpeakingKeeps DEF SttNext
  <1>7. CASE Loud
    <2>1. ear' = ear \/ ear' = [ear EXCEPT !.enough = TRUE]
      BY <1>7 DEF Loud
    <2>2. ear.speaking = TRUE /\ Sent /\ consumer = "listening" /\ consumer' = "listening"
          /\ track' = track
      BY <1>1, <1>7 DEF Loud, Hears
    <2>3. ear' \in [speaking : BOOLEAN, enough : BOOLEAN] /\ ear'.speaking = TRUE
      BY <1>1, <2>1, <2>2
    <2> QED
      BY <1>6, <2>2, <2>3
  <1>8. CASE Quiet
    <2>1. ear' = ear /\ ear.speaking = TRUE /\ Sent /\ consumer = "listening"
          /\ consumer' = "listening" /\ track' = track
      BY <1>1, <1>8 DEF Quiet, Hears
    <2> QED
      BY <1>1, <1>6, <2>1
  <1>9. CASE SilenceEndsTurn
    <2>1. ear' = ear /\ ear.speaking = TRUE /\ FinalizeBegins /\ consumer = "listening"
          /\ consumer' = "ending" /\ track' = track
      BY <1>1, <1>9 DEF SilenceEndsTurn, Hears
    <2>2. SttNext /\ stt.conn # "closed" /\ stt'.finalized = TRUE
      BY <1>1, <2>1 DEF SttNext, FinalizeBegins, SttIInv, SttTypeOK, Session
    <2> QED
      BY <1>1, <2>1, <2>2, SpeakingKeeps
  <1>10. CASE TurnHeard
    <2>1. stt' = NewSession /\ ear' = [speaking |-> FALSE, enough |-> FALSE]
          /\ track' = track /\ consumer = "ending" /\ consumer' # "ending"
      BY <1>10 DEF TurnHeard, Deaf
    <2> QED
      BY <1>1, <2>1, NewSessionFits DEF HearInv, SessionIsHeld
  <1>11. CASE SttBackground
    <2>1. SttNext /\ ear' = ear /\ consumer' = consumer /\ main' = main /\ track' = track
      BY <1>11 DEF SttBackground, SttNext
    <2>2. stt.conn \notin {"none", "closed"}
      BY <1>1, <1>11 DEF SttBackground, Background, VendorCloses, FrameArrives, ReaderEnds,
                        SttIInv, Attached
    <2>3. stt'.finalized = stt.finalized
      BY <1>1, <1>11 DEF SttBackground, Background, VendorCloses, FrameArrives, ReaderEnds,
                         SttIInv, SttTypeOK, Session
    <2>4. CutInGrace => CutInGrace'
      BY <2>1, <2>3 DEF CutInGrace
    <2> QED
      BY <1>1, <2>1, <2>2, <2>3, <2>4, SessionStep DEF HearInv, SessionIsHeld
  <1>12. CASE OrchestratorReady \/ TrackSubscribed \/ Interrupts \/ ReplyEnds
    <2>1. /\ stt' = stt /\ ear' = ear /\ main' = main /\ consumer \notin {"ending", "over"}
          /\ consumer' \in Through => consumer \in Through
          /\ consumer' # "ending"
      BY <1>1, <1>12 DEF OrchestratorReady, TrackSubscribed, Interrupts, ReplyEnds, Through
    <2>2. track' # "none"
      BY <1>1, <1>12 DEF OrchestratorReady, TrackSubscribed, Interrupts, ReplyEnds
    <2> QED
      BY <2>1, <2>2, RestingKeeps
  <1>13. Stopped => main \in {"asking", "conversing"}
    BY DEF Stopped
  <1> QED
    BY <1>2, <1>3, <1>4, <1>5, <1>7, <1>8, <1>9, <1>10, <1>11, <1>12, <1>13
    DEF SpokenNext, MainStep, ConsumerStep, Frame

LEMMA TurnBound == MaxTurns \in Nat /\ MaxTurns # 0
  BY TurnsAssumption

LEMMA LinesFit ==
  /\ Interviewer("greeting", 0) \in Line /\ QuestionLine \in Line
  /\ \A n \in 0..MaxTurns : /\ Interviewer("follow-up", n) \in Line
                            /\ Interviewer("closing", n) \in Line /\ Candidate(n) \in Line
  BY TurnBound DEF QuestionLine, Interviewer, Candidate, Graph!Interviewer, Graph!Candidate, Line

LEMMA LinesDiffer ==
  ASSUME NEW n
  PROVE  /\ Interviewer("follow-up", n) # QuestionLine /\ Interviewer("closing", n) # QuestionLine
         /\ Candidate(n) # QuestionLine /\ Interviewer("greeting", 0) # QuestionLine
         /\ Candidate(n).speaker = "candidate" /\ Candidate(n).kind # "closing"
         /\ Interviewer("follow-up", n).speaker = "interviewer"
         /\ Interviewer("follow-up", n).kind # "closing"
         /\ Interviewer("closing", n).speaker = "interviewer"
         /\ Interviewer("closing", n).kind = "closing" /\ Interviewer("closing", n).after = n
         /\ QuestionLine.speaker = "interviewer" /\ QuestionLine.kind # "closing"
         /\ Interviewer("greeting", 0).speaker = "interviewer"
         /\ Interviewer("greeting", 0).kind # "closing"
  BY DEF QuestionLine, Interviewer, Candidate, Graph!Interviewer, Graph!Candidate

LEMMA LineOfIs == LineOf("question") = QuestionLine
                  /\ LineOf("reply") = Interviewer("follow-up", turn_count)
  BY DEF LineOf, QuestionLine

\* Committed to the transcript, for some line.
Said(line) == turns' = Append(turns, line)

LEMMA Appended ==
  ASSUME NEW S, NEW s \in Seq(S), NEW e \in S, NEW u, u = Append(s, e)
  PROVE  /\ u \in Seq(S) /\ Len(u) = Len(s) + 1 /\ Len(s) \in Nat /\ u[Len(s) + 1] = e
         /\ \A i \in 1..Len(s) : u[i] = s[i]
  OBVIOUS

\* The transcript only grows, and an answer in it is counted.
LEMMA Counted ==
  ASSUME NEW s \in Seq(Line), NEW e \in Line, NEW u, u = Append(s, e),
         NEW n \in Nat, n = Cardinality({i \in 1..Len(s) : s[i].speaker = "candidate"})
  PROVE  Cardinality({i \in 1..Len(u) : u[i].speaker = "candidate"})
           = IF e.speaker = "candidate" THEN n + 1 ELSE n
  <1>1. /\ u \in Seq(Line) /\ Len(u) = Len(s) + 1 /\ Len(s) \in Nat /\ u[Len(s) + 1] = e
        /\ \A i \in 1..Len(s) : u[i] = s[i]
    BY Appended
  <1>2. PICK T : T = {i \in 1..Len(s) : s[i].speaker = "candidate"}
    OBVIOUS
  <1>3. IsFiniteSet(T) /\ Len(s) + 1 \notin T
    <2>1. IsFiniteSet(1..Len(s)) /\ T \in SUBSET (1..Len(s))
      BY <1>1, <1>2, FS_Interval
    <2>2. IsFiniteSet(T)
      BY <2>1, FS_Subset
    <2> QED
      BY <1>1, <1>2, <2>2
  <1>4. CASE e.speaker = "candidate"
    <2>1. {i \in 1..Len(u) : u[i].speaker = "candidate"} = T \cup {Len(s) + 1}
      BY <1>1, <1>2, <1>4
    <2>2. Cardinality(T \cup {Len(s) + 1}) = Cardinality(T) + 1
      BY <1>3, FS_AddElement
    <2> QED
      BY <1>2, <1>4, <2>1, <2>2
  <1>5. CASE e.speaker # "candidate"
    <2>1. {i \in 1..Len(u) : u[i].speaker = "candidate"} = T
      BY <1>1, <1>2, <1>5
    <2> QED
      BY <1>2, <1>5, <2>1
  <1> QED
    BY <1>4, <1>5

\* What a step that commits one line does to the transcript.
LEMMA OneLine ==
  ASSUME TalkInv, NEW line \in Line, Said(line)
  PROVE  /\ turns' \in Seq(Line) /\ Len(turns') = Len(turns) + 1 /\ Len(turns) \in Nat
         /\ turns'[Len(turns) + 1] = line /\ \A i \in 1..Len(turns) : turns'[i] = turns[i]
         /\ \A l : InTranscript(l)' <=> (InTranscript(l) \/ l = line)
         /\ Answers' = IF line.speaker = "candidate" THEN Answers + 1 ELSE Answers
         /\ Answers \in Nat
  <1>1. turns \in Seq(Line) /\ Answers \in Nat
    BY TurnBound DEF TalkInv, TalkTyped, CountIsKept
  <1>2. /\ turns' \in Seq(Line) /\ Len(turns') = Len(turns) + 1 /\ Len(turns) \in Nat
        /\ turns'[Len(turns) + 1] = line /\ \A i \in 1..Len(turns) : turns'[i] = turns[i]
    BY <1>1, Appended DEF Said
  <1>3. \A l : InTranscript(l)' <=> (InTranscript(l) \/ l = line)
    BY <1>2 DEF InTranscript
  <1>4. Answers' = IF line.speaker = "candidate" THEN Answers + 1 ELSE Answers
    BY <1>1, Counted DEF Said, Answers
  <1> QED
    BY <1>1, <1>2, <1>3, <1>4

\* A step that leaves the transcript alone.
LEMMA SameTranscript ==
  ASSUME turns' = turns
  PROVE  /\ \A l : InTranscript(l)' <=> InTranscript(l)
         /\ Answers' = Answers /\ (AnsweredEarly' <=> AnsweredEarly)
  BY DEF InTranscript, Answers, AnsweredEarly

LEMMA CountStays ==
  ASSUME TalkInv, UNCHANGED <<turns, turn_count, phase>>
  PROVE  CountIsKept'
  BY DEF TalkInv, CountIsKept, Answers

\* Only run() and the consumer move, and neither of them past what the reply allows.
LEMMA QuietKeeps ==
  ASSUME TalkInv, TalkTyped', UNCHANGED <<turns, turn_count, phase, message, turn, reported>>,
         main' = "waiting" <=> main = "waiting", consumer = "died" => consumer' = "died",
         main \in {"closing", "finished"} => main' \in {"closing", "finished"},
         SilentAtFirst', OneReply'
  PROVE  TalkInv'
  <1>1. QuestionIsNew'
    <2>1. \A l : InTranscript(l)' <=> InTranscript(l)
      BY SameTranscript
    <2> QED
      BY <2>1 DEF TalkInv, QuestionIsNew
  <1>2. LinesAlternate'
    BY SameTranscript DEF TalkInv, LinesAlternate
  <1> QED
    BY <1>1, <1>2, CountStays DEF TalkInv

\* The conversation is as it was: whoever moved, silence at first is what it was.
LEMMA SilenceStays ==
  ASSUME TalkInv, UNCHANGED <<turns, turn_count, phase, message, turn, reported>>,
         main' = "waiting" <=> main = "waiting", main = "waiting" => done' = done,
         main' \in {"waiting", "building", "greeting"} => main \in {"waiting", "building", "greeting"},
         main' \in {"waiting", "building"} => consumer' \in {"none", "gated"},
         track' = "none" => consumer' = "none"
  PROVE  SilentAtFirst'
  <1>1. InTranscript(message)' <=> InTranscript(message)
    BY DEF InTranscript
  <1> QED
    BY <1>1 DEF TalkInv, SilentAtFirst

LEMMA AvatarBuiltKeeps ==
  ASSUME TalkInv, AvatarBuilt
  PROVE  TalkInv'
  <1>1. UNCHANGED <<turns, turn_count, phase, message, turn, reported>>
    BY DEF AvatarBuilt, brain, voice
  <1>2. TalkTyped'
    BY <1>1 DEF AvatarBuilt, brain, voice, TalkInv, TalkTyped, Turn
  <1>3. /\ main' = "waiting" <=> main = "waiting"
        /\ consumer = "died" => consumer' = "died"
        /\ main = "waiting" => done' = done
        /\ main \in {"closing", "finished"} => main' \in {"closing", "finished"}
        /\ main' \in {"waiting", "building", "greeting"} => main \in {"waiting", "building", "greeting"}
        /\ main' \in {"waiting", "building"} => consumer' \in {"none", "gated"}
        /\ track' = "none" => consumer' = "none"
    BY DEF AvatarBuilt, brain, voice, TalkInv, SilentAtFirst
  <1>4. SilentAtFirst'
    BY <1>1, <1>3, SilenceStays
  <1>5. OneReply'
    BY <1>1 DEF AvatarBuilt, brain, voice, TalkInv, OneReply, SilentAtFirst, TalkTyped
  <1> QED
    BY <1>1, <1>2, <1>3, <1>4, <1>5, QuietKeeps

LEMMA QuestionEndsKeeps ==
  ASSUME TalkInv, QuestionEnds
  PROVE  TalkInv'
  <1>1. UNCHANGED <<turns, turn_count, phase, message, turn, reported>>
    BY DEF QuestionEnds, Forgets, brain, voice
  <1>2. TalkTyped'
    BY <1>1 DEF QuestionEnds, Forgets, brain, voice, TalkInv, TalkTyped, Turn
  <1>3. /\ main' = "waiting" <=> main = "waiting"
        /\ consumer = "died" => consumer' = "died"
        /\ main = "waiting" => done' = done
        /\ main \in {"closing", "finished"} => main' \in {"closing", "finished"}
        /\ main' \in {"waiting", "building", "greeting"} => main \in {"waiting", "building", "greeting"}
        /\ main' \in {"waiting", "building"} => consumer' \in {"none", "gated"}
        /\ track' = "none" => consumer' = "none"
    BY DEF QuestionEnds, Forgets, brain, voice, TalkInv, SilentAtFirst
  <1>4. SilentAtFirst'
    BY <1>1, <1>3, SilenceStays
  <1>5. OneReply'
    BY <1>1 DEF QuestionEnds, Forgets, brain, voice, TalkInv, OneReply, SilentAtFirst, TalkTyped
  <1> QED
    BY <1>1, <1>2, <1>3, <1>4, <1>5, QuietKeeps

LEMMA ClosingKeeps ==
  ASSUME TalkInv, GreetingFails \/ CallCloses
  PROVE  TalkInv'
  <1>1. UNCHANGED <<turns, turn_count, phase, message, turn, reported>>
    BY DEF GreetingFails, CallCloses, brain, voice
  <1>2. TalkTyped'
    BY <1>1 DEF GreetingFails, CallCloses, brain, voice, TalkInv, TalkTyped, Turn
  <1>3. /\ main' = "waiting" <=> main = "waiting"
        /\ consumer = "died" => consumer' = "died"
        /\ main = "waiting" => done' = done
        /\ main \in {"closing", "finished"} => main' \in {"closing", "finished"}
        /\ main' \in {"waiting", "building", "greeting"} => main \in {"waiting", "building", "greeting"}
        /\ main' \in {"waiting", "building"} => consumer' \in {"none", "gated"}
        /\ track' = "none" => consumer' = "none"
    BY DEF GreetingFails, CallCloses, brain, voice, TalkInv, SilentAtFirst
  <1>4. SilentAtFirst'
    BY <1>1, <1>3, SilenceStays
  <1>5. OneReply'
    BY <1>1 DEF GreetingFails, CallCloses, brain, voice, TalkInv, OneReply, SilentAtFirst, TalkTyped
  <1> QED
    BY <1>1, <1>2, <1>3, <1>4, <1>5, QuietKeeps

LEMMA TracksKeeps ==
  ASSUME TalkInv, TrackSubscribed \/ TrackEnds \/ OrchestratorReady
  PROVE  TalkInv'
  <1>1. UNCHANGED <<turns, turn_count, phase, message, turn, reported>>
    BY DEF TrackSubscribed, TrackEnds, OrchestratorReady, brain, voice
  <1>2. TalkTyped'
    BY <1>1 DEF TrackSubscribed, TrackEnds, OrchestratorReady, brain, voice, TalkInv, TalkTyped, Turn
  <1>3. /\ main' = "waiting" <=> main = "waiting"
        /\ consumer = "died" => consumer' = "died"
        /\ main = "waiting" => done' = done
        /\ main \in {"closing", "finished"} => main' \in {"closing", "finished"}
        /\ main' \in {"waiting", "building", "greeting"} => main \in {"waiting", "building", "greeting"}
        /\ main' \in {"waiting", "building"} => consumer' \in {"none", "gated"}
        /\ track' = "none" => consumer' = "none"
    BY DEF TrackSubscribed, TrackEnds, OrchestratorReady, brain, voice, TalkInv, SilentAtFirst
  <1>4. SilentAtFirst'
    BY <1>1, <1>3, SilenceStays
  <1>5. OneReply'
    BY <1>1 DEF TrackSubscribed, TrackEnds, OrchestratorReady, brain, voice, TalkInv, OneReply, SilentAtFirst, TalkTyped
  <1> QED
    BY <1>1, <1>2, <1>3, <1>4, <1>5, QuietKeeps

LEMMA LeavingKeeps ==
  ASSUME TalkInv, TrackIsOver \/ FrameAfterEnd \/ FrameRaises
  PROVE  TalkInv'
  <1>1. UNCHANGED <<turns, turn_count, phase, message, turn, reported>>
    BY DEF TrackIsOver, FrameAfterEnd, FrameRaises, Leaves, Hears, IsComplete, brain, voice
  <1>2. TalkTyped'
    BY <1>1 DEF TrackIsOver, FrameAfterEnd, FrameRaises, Leaves, Hears, IsComplete, brain, voice, TalkInv, TalkTyped, Turn
  <1>3. /\ main' = "waiting" <=> main = "waiting"
        /\ consumer = "died" => consumer' = "died"
        /\ main = "waiting" => done' = done
        /\ main \in {"closing", "finished"} => main' \in {"closing", "finished"}
        /\ main' \in {"waiting", "building", "greeting"} => main \in {"waiting", "building", "greeting"}
        /\ main' \in {"waiting", "building"} => consumer' \in {"none", "gated"}
        /\ track' = "none" => consumer' = "none"
    BY DEF TrackIsOver, FrameAfterEnd, FrameRaises, Leaves, Hears, IsComplete, brain, voice, TalkInv, SilentAtFirst
  <1>4. SilentAtFirst'
    BY <1>1, <1>3, SilenceStays
  <1>5. OneReply'
    BY <1>1 DEF TrackIsOver, FrameAfterEnd, FrameRaises, Leaves, Hears, IsComplete, brain, voice, TalkInv, OneReply, SilentAtFirst, TalkTyped
  <1> QED
    BY <1>1, <1>2, <1>3, <1>4, <1>5, QuietKeeps

LEMMA FramesKeeps ==
  ASSUME TalkInv, SpeechBegins \/ Loud \/ Quiet \/ SilenceEndsTurn
  PROVE  TalkInv'
  <1>1. UNCHANGED <<turns, turn_count, phase, message, turn, reported>>
    BY DEF SpeechBegins, Loud, Quiet, SilenceEndsTurn, Hears, IsComplete, brain, voice
  <1>2. TalkTyped'
    BY <1>1 DEF SpeechBegins, Loud, Quiet, SilenceEndsTurn, Hears, IsComplete, brain, voice, TalkInv, TalkTyped, Turn
  <1>3. /\ main' = "waiting" <=> main = "waiting"
        /\ consumer = "died" => consumer' = "died"
        /\ main = "waiting" => done' = done
        /\ main \in {"closing", "finished"} => main' \in {"closing", "finished"}
        /\ main' \in {"waiting", "building", "greeting"} => main \in {"waiting", "building", "greeting"}
        /\ main' \in {"waiting", "building"} => consumer' \in {"none", "gated"}
        /\ track' = "none" => consumer' = "none"
    BY DEF SpeechBegins, Loud, Quiet, SilenceEndsTurn, Hears, IsComplete, brain, voice, TalkInv, SilentAtFirst
  <1>4. SilentAtFirst'
    BY <1>1, <1>3, SilenceStays
  <1>5. OneReply'
    BY <1>1 DEF SpeechBegins, Loud, Quiet, SilenceEndsTurn, Hears, IsComplete, brain, voice, TalkInv, OneReply, SilentAtFirst, TalkTyped
  <1> QED
    BY <1>1, <1>2, <1>3, <1>4, <1>5, QuietKeeps

LEMMA TurnHeardKeeps ==
  ASSUME TalkInv, TurnHeard
  PROVE  TalkInv'
  <1>1. UNCHANGED <<turns, turn_count, phase, message, turn, reported>>
    BY DEF TurnHeard, brain, voice
  <1>2. TalkTyped'
    BY <1>1 DEF TurnHeard, brain, voice, TalkInv, TalkTyped, Turn
  <1>3. /\ main' = "waiting" <=> main = "waiting"
        /\ consumer = "died" => consumer' = "died"
        /\ main = "waiting" => done' = done
        /\ main \in {"closing", "finished"} => main' \in {"closing", "finished"}
        /\ main' \in {"waiting", "building", "greeting"} => main \in {"waiting", "building", "greeting"}
        /\ main' \in {"waiting", "building"} => consumer' \in {"none", "gated"}
        /\ track' = "none" => consumer' = "none"
    BY DEF TurnHeard, brain, voice, TalkInv, SilentAtFirst
  <1>4. SilentAtFirst'
    BY <1>1, <1>3, SilenceStays
  <1>5. OneReply'
    BY <1>1 DEF TurnHeard, brain, voice, TalkInv, OneReply, SilentAtFirst, TalkTyped
  <1> QED
    BY <1>1, <1>2, <1>3, <1>4, <1>5, QuietKeeps

LEMMA SttBackgroundKeeps ==
  ASSUME TalkInv, SttBackground
  PROVE  TalkInv'
  <1>1. UNCHANGED <<turns, turn_count, phase, message, turn, reported>>
    BY DEF SttBackground, brain, voice
  <1>2. TalkTyped'
    BY <1>1 DEF SttBackground, brain, voice, TalkInv, TalkTyped, Turn
  <1>3. /\ main' = "waiting" <=> main = "waiting"
        /\ consumer = "died" => consumer' = "died"
        /\ main = "waiting" => done' = done
        /\ main \in {"closing", "finished"} => main' \in {"closing", "finished"}
        /\ main' \in {"waiting", "building", "greeting"} => main \in {"waiting", "building", "greeting"}
        /\ main' \in {"waiting", "building"} => consumer' \in {"none", "gated"}
        /\ track' = "none" => consumer' = "none"
    BY DEF SttBackground, brain, voice, TalkInv, SilentAtFirst
  <1>4. SilentAtFirst'
    BY <1>1, <1>3, SilenceStays
  <1>5. OneReply'
    BY <1>1 DEF SttBackground, brain, voice, TalkInv, OneReply, SilentAtFirst, TalkTyped
  <1> QED
    BY <1>1, <1>2, <1>3, <1>4, <1>5, QuietKeeps

LEMMA SpokenInitTalks == SpokenInit => TalkInv
  <1> SUFFICES ASSUME SpokenInit PROVE TalkInv
    OBVIOUS
  <1>1. /\ turns = <<>> /\ Len(turns) = 0 /\ reported = <<>> /\ Len(reported) = 0
        /\ turn_count = 0 /\ phase = "greeting" /\ main = "waiting" /\ consumer = "none"
        /\ track = "none" /\ turn = [t \in Turn |-> "none"] /\ active = "none"
        /\ message = NoMessage /\ done = FALSE /\ avatar = "none"
    BY DEF SpokenInit
  <1>2. TalkTyped
    <2>1. turn \in [Turn -> TurnState]
      BY <1>1 DEF TurnState
    <2>2. turns \in Seq(Line) /\ reported \in Seq(Line)
      BY <1>1
    <2>3. turn_count \in 0..MaxTurns
      BY <1>1, TurnBound
    <2> QED
      BY <1>1, <2>1, <2>2, <2>3 DEF TalkTyped
  <1>3. Answers = 0
    <2>1. {i \in 1..Len(turns) : turns[i].speaker = "candidate"} = {}
      BY <1>1
    <2> QED
      BY <2>1, FS_EmptySet DEF Answers
  <1>4. \A l : ~InTranscript(l)
    BY <1>1 DEF InTranscript
  <1> QED
    BY <1>1, <1>2, <1>3, <1>4, TurnBound
    DEF TalkInv, SilentAtFirst, OneReply, CountIsKept, QuestionIsNew, LinesAlternate, Turn

LEMMA StopsWaitingKeeps ==
  ASSUME TalkInv, StopsWaiting
  PROVE  TalkInv'
  <1>1. /\ main = "waiting" /\ main' = "building" /\ phase' = "in_progress"
        /\ turns' = <<Interviewer("greeting", 0)>> /\ message' = Interviewer("greeting", 0)
        /\ UNCHANGED <<consumer, track, turn_count, turn, active, reported, done, avatar>>
    BY DEF StopsWaiting, voice
  <1>2. /\ turns = <<>> /\ reported = <<>> /\ turn_count = 0 /\ done = FALSE
        /\ turn = [t \in Turn |-> "none"]
    BY <1>1 DEF TalkInv, SilentAtFirst
  <1>3. Said(Interviewer("greeting", 0))
    BY <1>1, <1>2 DEF Said
  <1>4. /\ turns' \in Seq(Line) /\ Len(turns') = 1 /\ turns'[1] = Interviewer("greeting", 0)
        /\ \A l : InTranscript(l)' <=> (InTranscript(l) \/ l = Interviewer("greeting", 0))
        /\ Answers' = Answers
    BY <1>2, <1>3, OneLine, LinesFit, LinesDiffer
  <1>5. TalkTyped'
    BY <1>1, <1>4, LinesFit DEF TalkInv, TalkTyped
  <1>6. SilentAtFirst'
    <2>1. InTranscript(message)'
      BY <1>1, <1>4 DEF InTranscript
    <2> QED
      BY <1>1, <1>2, <1>4, <2>1 DEF TalkInv, SilentAtFirst, Turn
  <1>7. OneReply'
    BY <1>1, <1>2 DEF TalkInv, OneReply, SilentAtFirst, Turn
  <1>8. CountIsKept'
    <2>1. turn_count # MaxTurns
      BY <1>2, TurnBound
    <2> QED
      BY <1>1, <1>2, <1>4, <2>1, LinesDiffer DEF TalkInv, CountIsKept
  <1>9. QuestionIsNew'
    <2>1. ~InTranscript(QuestionLine)'
      BY <1>2, <1>4, LinesDiffer DEF TalkInv, QuestionIsNew, Turn
    <2> QED
      BY <1>1, <1>2, <2>1 DEF QuestionIsNew, Turn
  <1>10. LinesAlternate'
    BY <1>1, <1>2, <1>4, LinesDiffer DEF LinesAlternate, Turn
  <1> QED
    BY <1>5, <1>6, <1>7, <1>8, <1>9, <1>10 DEF TalkInv

LEMMA GreetingSpokenKeeps ==
  ASSUME TalkInv, GreetingSpoken
  PROVE  TalkInv'
  <1>1. /\ main = "greeting" /\ main' = "asking"
        /\ reported' = Append(reported, Interviewer("greeting", 0))
        /\ turn' = [turn EXCEPT !["question"] = "streaming"] /\ active' = "question"
        /\ UNCHANGED <<consumer, track, turns, turn_count, phase, message, done, avatar>>
    BY DEF GreetingSpoken, brain
  <1>2. /\ turn \in [Turn -> TurnState] /\ reported \in Seq(Line)
        /\ turn["question"] = "none" /\ turns[1] = Interviewer("greeting", 0) /\ Len(turns) >= 1
        /\ turns \in Seq(Line)
    BY <1>1 DEF TalkInv, TalkTyped, SilentAtFirst
  <1>3. /\ turn'["question"] = "streaming" /\ turn'["reply"] = turn["reply"]
        /\ turn' \in [Turn -> TurnState]
    BY <1>1, <1>2 DEF Turn, TurnState
  <1>4. /\ reported' \in Seq(Line) /\ Len(reported') = Len(reported) + 1 /\ Len(reported) \in Nat
        /\ reported'[Len(reported) + 1] = Interviewer("greeting", 0)
        /\ \A i \in 1..Len(reported) : reported'[i] = reported[i]
    BY <1>1, <1>2, LinesFit, Appended
  <1>5. \A l : InTranscript(l)' <=> InTranscript(l)
    BY <1>1, SameTranscript
  <1>6. TalkTyped'
    BY <1>1, <1>3, <1>4 DEF TalkInv, TalkTyped, Turn
  <1>7. SilentAtFirst'
    <2>1. InTranscript(message)' <=> InTranscript(message)
      BY <1>1 DEF InTranscript
    <2> QED
      BY <1>1, <2>1 DEF TalkInv, SilentAtFirst
  <1>8. OneReply'
    BY <1>1, <1>3 DEF TalkInv, OneReply
  <1>9. QuestionIsNew'
    BY <1>1, <1>2, <1>3, <1>5 DEF TalkInv, QuestionIsNew
  <1>10. LinesAlternate'
    BY <1>1, <1>3, SameTranscript DEF TalkInv, LinesAlternate
  <1> QED
    BY <1>1, <1>6, <1>7, <1>8, <1>9, <1>10, CountStays DEF TalkInv

\* The line of a turn is committed, with the turn's stream drained.
LEMMA CommitsKeeps ==
  ASSUME TalkInv, NEW t \in Turn, Commits(t)
  PROVE  TalkInv'
  <1>1. /\ turn[t] = "streaming" /\ turn' = [turn EXCEPT ![t] = "tail"]
        /\ turns' = Append(turns, LineOf(t)) /\ message' = LineOf(t)
        /\ UNCHANGED <<main, consumer, track, active, phase, turn_count, reported, done, avatar>>
    BY DEF Commits
  <1>2. /\ turn \in [Turn -> TurnState] /\ turn_count \in 0..MaxTurns
        /\ main # "waiting" /\ turns[1] = Interviewer("greeting", 0) /\ Len(turns) >= 1
    BY <1>1 DEF TalkInv, TalkTyped, SilentAtFirst
  <1>3. turn' \in [Turn -> TurnState] /\ \A u \in Turn : turn'[u] = IF u = t THEN "tail" ELSE turn[u]
    BY <1>1, <1>2 DEF TurnState
  <1>4. PICK line \in Line : line = LineOf(t)
    BY <1>2, LineOfIs, LinesFit DEF Turn
  <1>5. line.speaker = "interviewer" /\ line.kind # "closing"
    BY <1>4, LineOfIs, LinesDiffer DEF Turn
  <1>6. Said(line) /\ message' = line
    BY <1>1, <1>4 DEF Said
  <1>7. /\ turns' \in Seq(Line) /\ Len(turns') = Len(turns) + 1 /\ Len(turns) \in Nat
        /\ turns'[Len(turns) + 1] = line /\ \A i \in 1..Len(turns) : turns'[i] = turns[i]
        /\ \A l : InTranscript(l)' <=> (InTranscript(l) \/ l = line)
        /\ Answers' = Answers
    BY <1>5, <1>6, OneLine
  <1>8. TalkTyped'
    BY <1>1, <1>3, <1>6, <1>7 DEF TalkInv, TalkTyped
  <1>9. SilentAtFirst'
    <2>1. InTranscript(message)'
      BY <1>6, <1>7 DEF InTranscript
    <2>2. turns'[1] = Interviewer("greeting", 0) /\ Len(turns') >= 1
      BY <1>2, <1>7
    <2>3. main \in {"waiting", "building", "greeting"} => turn'["question"] = "none"
      BY <1>1, <1>3 DEF TalkInv, SilentAtFirst, Turn
    <2> QED
      BY <1>1, <1>2, <2>1, <2>2, <2>3 DEF TalkInv, SilentAtFirst
  <1>10. OneReply'
    BY <1>1, <1>3 DEF TalkInv, OneReply, Turn
  <1>11. CountIsKept'
    <2>1. ASSUME NEW i \in 1..Len(turns'), turns'[i].kind = "closing"
          PROVE  i > 1 /\ turns'[i].after = MaxTurns /\ turns'[i - 1] = Candidate(MaxTurns - 1)
      <3>1. i \in 1..Len(turns)
        BY <1>5, <1>7, <2>1
      <3>2. i > 1 /\ turns[i].after = MaxTurns /\ turns[i - 1] = Candidate(MaxTurns - 1)
        BY <1>7, <2>1, <3>1 DEF TalkInv, CountIsKept
      <3>3. i - 1 \in 1..Len(turns)
        BY <1>7, <3>1, <3>2
      <3> QED
        BY <1>7, <3>1, <3>2, <3>3
    <2> QED
      BY <1>1, <1>7, <2>1 DEF TalkInv, CountIsKept, Candidate
  <1>12. QuestionIsNew'
    <2>1. CASE t = "question"
      <3>1. line = QuestionLine
        BY <1>4, <2>1, LineOfIs
      <3>2. turn'["question"] = "tail" /\ turn'["reply"] = turn["reply"]
        BY <1>3, <2>1 DEF Turn
      <3> QED
        BY <1>1, <1>7, <3>1, <3>2 DEF TalkInv, QuestionIsNew
    <2>2. CASE t = "reply"
      <3>1. line = Interviewer("follow-up", turn_count) /\ line # QuestionLine
        BY <1>4, <2>2, LineOfIs, LinesDiffer
      <3>2. turn'["reply"] = "tail" /\ turn'["question"] = turn["question"]
        BY <1>3, <2>2 DEF Turn
      <3> QED
        BY <1>1, <1>7, <3>1, <3>2 DEF TalkInv, QuestionIsNew
    <2> QED
      BY <2>1, <2>2 DEF Turn
  <1>13. LinesAlternate'
    <2> SUFFICES ASSUME ~AnsweredEarly', main' \notin {"waiting", "closing", "finished"}
                 PROVE  /\ Len(turns') >= 2 => turns'[2] = QuestionLine
                        /\ turn'["reply"] = "streaming" => turns'[Len(turns')].speaker = "candidate"
                        /\ (turn'["reply"] \notin {"streaming", "failed"} /\ consumer' # "died") =>
                              turns'[Len(turns')].speaker = "interviewer"
      BY DEF LinesAlternate
    <2>1. ~AnsweredEarly
      BY <1>7 DEF AnsweredEarly
    <2>2. /\ Len(turns) >= 2 => turns[2] = QuestionLine
          /\ turn["reply"] = "streaming" => turns[Len(turns)].speaker = "candidate"
      BY <1>1, <2>1 DEF TalkInv, LinesAlternate
    <2>3. turns'[Len(turns')].speaker = "interviewer"
      BY <1>5, <1>7
    <2>4. CASE t = "question"
      <3>1. Len(turns) < 2
        <4>1. ~InTranscript(QuestionLine)
          BY <1>1, <2>4 DEF TalkInv, QuestionIsNew
        <4> QED
          BY <1>7, <2>2, <4>1 DEF InTranscript
      <3>2. Len(turns') = 2 /\ turns'[2] = QuestionLine
        BY <1>2, <1>4, <1>7, <2>4, <3>1, LineOfIs
      <3>3. turn["reply"] # "streaming"
        BY <1>2, <1>7, <2>2, <3>1, LinesDiffer
      <3> QED
        BY <1>3, <2>3, <2>4, <3>2, <3>3 DEF Turn
    <2>5. CASE t = "reply"
      <3>1. turns[Len(turns)].speaker = "candidate"
        BY <1>1, <2>2, <2>5
      <3>2. Len(turns) >= 2
        BY <1>2, <1>7, <3>1, LinesDiffer
      <3>3. turns'[2] = QuestionLine
        BY <1>7, <2>2, <3>2
      <3> QED
        BY <1>3, <2>3, <2>5, <3>3
    <2> QED
      BY <2>4, <2>5 DEF Turn
  <1> QED
    BY <1>8, <1>9, <1>10, <1>11, <1>12, <1>13 DEF TalkInv

\* The turns move, the transcript does not.
LEMMA TurnFailsKeeps ==
  ASSUME TalkInv, NEW t \in Turn, TurnFails(t)
  PROVE  TalkInv'
  <1>1. /\ turn[t] \in {"streaming", "tail"} /\ turn' = [turn EXCEPT ![t] = "failed"]
        /\ UNCHANGED <<main, consumer, track, active, turns, phase, turn_count, message, reported,
                       done, avatar>>
    BY DEF TurnFails, brain
  <1>2. turn \in [Turn -> TurnState] /\ main # "waiting"
    BY <1>1 DEF TalkInv, TalkTyped, SilentAtFirst
  <1>3. turn' \in [Turn -> TurnState] /\ \A u \in Turn : turn'[u] = IF u = t THEN "failed" ELSE turn[u]
    BY <1>1, <1>2 DEF TurnState
  <1>4. \A l : InTranscript(l)' <=> InTranscript(l)
    BY <1>1, SameTranscript
  <1>5. TalkTyped'
    BY <1>1, <1>3 DEF TalkInv, TalkTyped
  <1>6. SilentAtFirst'
    <2>1. InTranscript(message)' <=> InTranscript(message)
      BY <1>1 DEF InTranscript
    <2>2. main \in {"waiting", "building", "greeting"} => turn'["question"] = "none"
      BY <1>1, <1>3 DEF TalkInv, SilentAtFirst, Turn
    <2> QED
      BY <1>1, <1>2, <2>1, <2>2 DEF TalkInv, SilentAtFirst
  <1>7. OneReply'
    BY <1>1, <1>3 DEF TalkInv, OneReply, Turn
  <1>8. QuestionIsNew'
    BY <1>1, <1>3, <1>4 DEF TalkInv, QuestionIsNew, Turn
  <1>9. LinesAlternate'
    BY <1>1, <1>3, SameTranscript DEF TalkInv, LinesAlternate, Turn
  <1> QED
    BY <1>1, <1>5, <1>6, <1>7, <1>8, <1>9, CountStays DEF TalkInv

LEMMA TurnSpokenKeeps ==
  ASSUME TalkInv, NEW t \in Turn, TurnSpoken(t)
  PROVE  TalkInv'
  <1>1. /\ turn[t] = "tail" /\ turn' = [turn EXCEPT ![t] = "over"]
        /\ reported' = Append(reported, message)
        /\ UNCHANGED <<main, consumer, track, active, turns, phase, turn_count, message, done,
                       avatar>>
    BY DEF TurnSpoken, brain
  <1>2. turn \in [Turn -> TurnState] /\ main # "waiting" /\ reported \in Seq(Line)
    BY <1>1 DEF TalkInv, TalkTyped, SilentAtFirst
  <1>3. turn' \in [Turn -> TurnState] /\ \A u \in Turn : turn'[u] = IF u = t THEN "over" ELSE turn[u]
    BY <1>1, <1>2 DEF TurnState
  <1>4. \A l : InTranscript(l)' <=> InTranscript(l)
    BY <1>1, SameTranscript
  <1>5. PICK line : line = message
    OBVIOUS
  <1>6. InTranscript(line) /\ line \in Line
    <2>1. InTranscript(line)
      BY <1>2, <1>5 DEF TalkInv, SilentAtFirst
    <2>2. turns \in Seq(Line)
      BY DEF TalkInv, TalkTyped
    <2> QED
      BY <2>1, <2>2 DEF InTranscript
  <1>7. /\ reported' \in Seq(Line) /\ Len(reported') = Len(reported) + 1 /\ Len(reported) \in Nat
        /\ reported'[Len(reported) + 1] = line
        /\ \A i \in 1..Len(reported) : reported'[i] = reported[i]
    BY <1>1, <1>2, <1>5, <1>6, Appended
  <1>8. TalkTyped'
    BY <1>1, <1>3, <1>7 DEF TalkInv, TalkTyped
  <1>9. SilentAtFirst'
    <2>1. InTranscript(message)' <=> InTranscript(message)
      BY <1>1 DEF InTranscript
    <2>2. main \in {"waiting", "building", "greeting"} => turn'["question"] = "none"
      BY <1>1, <1>3 DEF TalkInv, SilentAtFirst, Turn
    <2> QED
      BY <1>1, <1>2, <2>1, <2>2 DEF TalkInv, SilentAtFirst
  <1>10. OneReply'
    BY <1>1, <1>3 DEF TalkInv, OneReply, Turn
  <1>11. QuestionIsNew'
    BY <1>1, <1>3, <1>4 DEF TalkInv, QuestionIsNew, Turn
  <1>12. LinesAlternate'
    BY <1>1, <1>3, SameTranscript DEF TalkInv, LinesAlternate, Turn
  <1> QED
    BY <1>1, <1>8, <1>9, <1>10, <1>11, <1>12, CountStays DEF TalkInv

LEMMA InterruptsKeeps ==
  ASSUME TalkInv, Interrupts
  PROVE  TalkInv'
  <1>1. /\ consumer = "interrupting" /\ consumer' = "replying" /\ active' = "reply"
        /\ turn' = [t \in Turn |->
                      IF t = "reply" THEN "created"
                      ELSE IF t = active /\ turn[t] \in Running THEN "cancelled" ELSE turn[t]]
        /\ UNCHANGED <<main, track, turns, phase, turn_count, message, reported, done, avatar>>
    BY DEF Interrupts, brain
  <1>2. /\ turn \in [Turn -> TurnState] /\ main \notin {"waiting", "building"}
        /\ turn["reply"] = "none" /\ phase # "done"
    BY <1>1 DEF TalkInv, TalkTyped, SilentAtFirst, OneReply
  <1>3. /\ turn' \in [Turn -> TurnState] /\ turn'["reply"] = "created"
        /\ \/ turn'["question"] = turn["question"]
           \/ turn["question"] \in Running /\ turn'["question"] = "cancelled"
    BY <1>1, <1>2 DEF Turn, TurnState
  <1>4. \A l : InTranscript(l)' <=> InTranscript(l)
    BY <1>1, SameTranscript
  <1>5. TalkTyped'
    BY <1>1, <1>3 DEF TalkInv, TalkTyped, Turn
  <1>6. SilentAtFirst'
    <2>1. InTranscript(message)' <=> InTranscript(message)
      BY <1>1 DEF InTranscript
    <2>2. main = "greeting" => turn'["question"] = "none"
      BY <1>3 DEF TalkInv, SilentAtFirst, Running
    <2>3. track # "none"
      BY <1>1 DEF TalkInv, SilentAtFirst
    <2> QED
      BY <1>1, <1>2, <2>1, <2>2, <2>3 DEF TalkInv, SilentAtFirst
  <1>7. OneReply'
    BY <1>1, <1>2, <1>3 DEF TalkInv, OneReply
  <1>8. QuestionIsNew'
    BY <1>1, <1>3, <1>4 DEF TalkInv, QuestionIsNew
  <1>9. LinesAlternate'
    BY <1>1, <1>2, <1>3, SameTranscript DEF TalkInv, LinesAlternate
  <1> QED
    BY <1>1, <1>5, <1>6, <1>7, <1>8, <1>9, CountStays DEF TalkInv

LEMMA ReplyEndsKeeps ==
  ASSUME TalkInv, ReplyEnds
  PROVE  TalkInv'
  <1>1. /\ consumer = "replying" /\ turn["reply"] \notin Running
        /\ turn' = [turn EXCEPT !["reply"] = "none"]
        /\ active' = IF active = "reply" THEN "none" ELSE active
        /\ consumer' = IF turn["reply"] = "failed" THEN "died" ELSE "listening"
        /\ done' = (done \/ Completed(turn["reply"]))
        /\ UNCHANGED <<main, track, turns, phase, turn_count, message, reported, avatar>>
    BY DEF ReplyEnds, Forgets, brain
  <1>2. /\ turn \in [Turn -> TurnState] /\ main \notin {"waiting", "building"} /\ done \in BOOLEAN
    BY <1>1 DEF TalkInv, TalkTyped, SilentAtFirst
  <1>3. /\ turn' \in [Turn -> TurnState] /\ turn'["reply"] = "none"
        /\ turn'["question"] = turn["question"]
    BY <1>1, <1>2 DEF Turn, TurnState
  <1>4. \A l : InTranscript(l)' <=> InTranscript(l)
    BY <1>1, SameTranscript
  <1>5. done' \in BOOLEAN /\ (done' = TRUE => done = TRUE \/ phase = "done")
    <2>1. Completed(turn["reply"]) \in BOOLEAN /\ (Completed(turn["reply"]) => phase = "done")
      BY DEF Completed, IsComplete
    <2> QED
      BY <1>1, <1>2, <2>1
  <1>6. TalkTyped'
    BY <1>1, <1>3, <1>5 DEF TalkInv, TalkTyped
  <1>7. SilentAtFirst'
    <2>1. InTranscript(message)' <=> InTranscript(message)
      BY <1>1 DEF InTranscript
    <2>2. track # "none"
      BY <1>1 DEF TalkInv, SilentAtFirst
    <2> QED
      BY <1>1, <1>2, <1>3, <2>1, <2>2 DEF TalkInv, SilentAtFirst
  <1>8. OneReply'
    BY <1>1, <1>3, <1>5 DEF TalkInv, OneReply
  <1>9. QuestionIsNew'
    BY <1>1, <1>3, <1>4 DEF TalkInv, QuestionIsNew
  <1>10. LinesAlternate'
    BY <1>1, <1>3, SameTranscript DEF TalkInv, LinesAlternate, Running
  <1> QED
    BY <1>1, <1>6, <1>7, <1>8, <1>9, <1>10, CountStays DEF TalkInv

\* run() stops waiting for the interview's end: what it cancels of a reply is the turn.
LEMMA CancellationKeeps ==
  ASSUME TalkInv, ConsumerCancelled, main = "conversing", main' = "closing",
         UNCHANGED <<track, brain, active, reported, done, avatar>>
  PROVE  TalkInv'
  <1>1. UNCHANGED <<track, turns, turn_count, phase, message, active, reported, done, avatar>>
    BY DEF brain
  <1>2. /\ turn \in [Turn -> TurnState] /\ (track = "none" => consumer = "none")
        /\ turn["reply"] # "none" => consumer = "replying"
    BY DEF TalkInv, TalkTyped, SilentAtFirst, OneReply
  <1>3. /\ consumer' \in {consumer, "over"} /\ (consumer = "none" => consumer' = "none")
        /\ consumer = "replying" => consumer' = "replying"
        /\ \/ turn' = turn
           \/ consumer = "replying" /\ turn' = [turn EXCEPT !["reply"] = "cancelled"]
    BY DEF ConsumerCancelled, Leaves
  <1>4. /\ turn' \in [Turn -> TurnState] /\ turn'["question"] = turn["question"]
        /\ turn'["reply"] = turn["reply"] \/ (consumer = "replying" /\ turn'["reply"] = "cancelled")
    BY <1>2, <1>3 DEF Turn, TurnState
  <1>5. \A l : InTranscript(l)' <=> InTranscript(l)
    BY <1>1, SameTranscript
  <1>6. TalkTyped'
    BY <1>1, <1>3, <1>4 DEF TalkInv, TalkTyped
  <1>7. SilentAtFirst'
    <2>1. InTranscript(message)' <=> InTranscript(message)
      BY <1>1 DEF InTranscript
    <2> QED
      BY <1>1, <1>2, <1>3, <2>1 DEF TalkInv, SilentAtFirst
  <1>8. OneReply'
    BY <1>1, <1>2, <1>3, <1>4 DEF TalkInv, OneReply
  <1>9. QuestionIsNew'
    BY <1>4, <1>5 DEF TalkInv, QuestionIsNew
  <1>10. LinesAlternate'
    BY DEF LinesAlternate
  <1> QED
    BY <1>1, <1>6, <1>7, <1>8, <1>9, <1>10, CountStays DEF TalkInv

LEMMA StoppedKeeps ==
  ASSUME TalkInv, CallEnds \/ Stopped
  PROVE  TalkInv'
  <1>1. CASE main = "asking"
    <2>1. /\ turn' = [turn EXCEPT !["question"] = "cancelled"] /\ main' = main
          /\ UNCHANGED <<consumer, track, turns, turn_count, phase, message, active, reported,
                         done, avatar>>
      BY <1>1 DEF CallEnds, Stopped, brain
    <2>2. /\ turn' \in [Turn -> TurnState] /\ turn'["reply"] = turn["reply"]
          /\ turn'["question"] = "cancelled"
      BY <2>1 DEF TalkInv, TalkTyped, Turn, TurnState
    <2>3. TalkTyped'
      BY <2>1, <2>2 DEF TalkInv, TalkTyped
    <2>4. SilentAtFirst'
      <3>1. InTranscript(message)' <=> InTranscript(message)
        BY <2>1 DEF InTranscript
      <3> QED
        BY <1>1, <2>1, <3>1 DEF TalkInv, SilentAtFirst
    <2>5. OneReply'
      BY <2>1, <2>2 DEF TalkInv, OneReply
    <2>6. QuestionIsNew'
      BY <2>2 DEF QuestionIsNew
    <2>7. LinesAlternate'
      BY <2>1, <2>2, SameTranscript DEF TalkInv, LinesAlternate
    <2> QED
      BY <2>1, <2>3, <2>4, <2>5, <2>6, <2>7, CountStays DEF TalkInv
  <1>2. CASE main = "conversing"
    BY <1>2, CancellationKeeps DEF CallEnds, Stopped
  <1> QED
    BY <1>1, <1>2 DEF CallEnds, Stopped

\* An answer is taken up; the one that reaches max_turns is followed by the closing line.
LEMMA ReplyStartsKeeps ==
  ASSUME TalkInv, ReplyStarts
  PROVE  TalkInv'
  <1>1. PICK n : n = turn_count
    OBVIOUS
  <1>2. /\ turn["reply"] = "created" /\ turn_count' = n + 1
        /\ UNCHANGED <<main, consumer, track, active, reported, done, avatar>>
    BY <1>1 DEF ReplyStarts
  <1>3. /\ turn \in [Turn -> TurnState] /\ turns \in Seq(Line) /\ n \in 0..MaxTurns
        /\ main # "waiting" /\ turns[1] = Interviewer("greeting", 0) /\ Len(turns) >= 1
        /\ phase = "in_progress" /\ InTranscript(message) /\ done # TRUE
        /\ consumer = "replying"
    BY <1>1, <1>2 DEF TalkInv, TalkTyped, SilentAtFirst, OneReply
  <1>4. n + 1 \in 0..MaxTurns /\ n < MaxTurns /\ Answers = n
    BY <1>1, <1>3, TurnBound DEF TalkInv, CountIsKept
  <1>5. PICK cand \in Line : cand = Candidate(n)
    BY <1>3, LinesFit
  <1>6. cand.speaker = "candidate" /\ cand.kind # "closing" /\ cand # QuestionLine
    BY <1>5, LinesDiffer
  <1>7. PICK s : s = Append(turns, cand)
    OBVIOUS
  <1>8. /\ s \in Seq(Line) /\ Len(s) = Len(turns) + 1 /\ Len(turns) \in Nat
        /\ s[Len(turns) + 1] = cand /\ \A i \in 1..Len(turns) : s[i] = turns[i]
    BY <1>3, <1>7, Appended
  <1>9. Cardinality({i \in 1..Len(s) : s[i].speaker = "candidate"}) = n + 1
    BY <1>3, <1>4, <1>6, <1>7, Counted DEF Answers
  <1>10. ASSUME NEW i \in 1..Len(s), s[i].kind = "closing"
         PROVE  i > 1 /\ s[i].after = MaxTurns /\ s[i - 1] = Candidate(MaxTurns - 1)
    <2>1. i \in 1..Len(turns)
      BY <1>6, <1>8, <1>10
    <2>2. i > 1 /\ turns[i].after = MaxTurns /\ turns[i - 1] = Candidate(MaxTurns - 1)
      BY <1>8, <1>10, <2>1 DEF TalkInv, CountIsKept
    <2>3. i - 1 \in 1..Len(turns)
      BY <1>8, <2>1, <2>2
    <2> QED
      BY <1>8, <2>1, <2>2, <2>3
  <1>11. \A l : InTranscript(l) => \E i \in 1..Len(s) : s[i] = l
    BY <1>8 DEF InTranscript
  <1>12. \A i \in 1..Len(s) : s[i] = cand \/ InTranscript(s[i])
    BY <1>8 DEF InTranscript
  <1>13. CASE LastAnswer(n + 1)
    <2>1. /\ n + 1 = MaxTurns
          /\ turns' = turns \o <<Candidate(n), Interviewer("closing", n + 1)>>
          /\ message' = Interviewer("closing", n + 1) /\ phase' = "done"
          /\ turn' = [turn EXCEPT !["reply"] = "tail"]
      BY <1>1, <1>4, <1>13, TurnBound DEF ReplyStarts, LastAnswer
    <2>2. PICK last \in Line : last = Interviewer("closing", n + 1)
      BY <1>4, LinesFit
    <2>3. last.speaker = "interviewer" /\ last.after = MaxTurns /\ last # QuestionLine
      BY <2>1, <2>2, LinesDiffer
    <2>4. turns' = Append(s, last)
      BY <1>3, <1>5, <1>7, <2>1, <2>2
    <2>5. /\ turns' \in Seq(Line) /\ Len(turns') = Len(s) + 1 /\ Len(s) \in Nat
          /\ turns'[Len(s) + 1] = last /\ \A i \in 1..Len(s) : turns'[i] = s[i]
      BY <1>8, <2>4, Appended
    <2>6. /\ turn' \in [Turn -> TurnState] /\ turn'["reply"] = "tail"
          /\ turn'["question"] = turn["question"]
      BY <1>3, <2>1 DEF Turn, TurnState
    <2>7. Answers' = n + 1
      <3>1. n + 1 \in Nat
        BY <1>4
      <3> QED
        BY <1>8, <1>9, <2>3, <2>4, <3>1, Counted DEF Answers
    <2>8. /\ \A l : InTranscript(l) => InTranscript(l)'
          /\ InTranscript(last)'
          /\ InTranscript(QuestionLine)' <=> InTranscript(QuestionLine)
      <3>1. \A l : InTranscript(l)' <=> \E i \in 1..Len(turns') : turns'[i] = l
        BY DEF InTranscript
      <3>2. \A l : InTranscript(l) => InTranscript(l)'
        BY <1>11, <2>5, <3>1
      <3>3. InTranscript(last)'
        BY <2>5, <3>1
      <3>4. \A i \in 1..Len(turns') : turns'[i] = last \/ turns'[i] = cand \/ InTranscript(turns'[i])
        BY <1>12, <2>5
      <3>5. QuestionLine' = QuestionLine
        BY DEF QuestionLine, Interviewer, Graph!Interviewer
      <3> QED
        BY <1>6, <2>3, <3>1, <3>2, <3>3, <3>4, <3>5
    <2>9. TalkTyped'
      BY <1>2, <1>4, <2>1, <2>2, <2>5, <2>6 DEF TalkInv, TalkTyped
    <2>10. SilentAtFirst'
      <3>1. turns'[1] = Interviewer("greeting", 0) /\ Len(turns') >= 1
        BY <1>3, <1>8, <2>5
      <3>2. InTranscript(message)'
        BY <2>1, <2>2, <2>8 DEF InTranscript
      <3> QED
        BY <1>2, <1>3, <2>1, <2>6, <3>1, <3>2 DEF TalkInv, SilentAtFirst
    <2>11. OneReply'
      BY <1>2, <1>3, <2>1, <2>6 DEF TalkInv, OneReply
    <2>12. CountIsKept'
      <3>1. ASSUME NEW i \in 1..Len(turns'), turns'[i].kind = "closing"
            PROVE  i > 1 /\ turns'[i].after = MaxTurns /\ turns'[i - 1] = Candidate(MaxTurns - 1)
        <4>1. CASE i \in 1..Len(s)
          <5>1. i > 1 /\ s[i].after = MaxTurns /\ s[i - 1] = Candidate(MaxTurns - 1)
            BY <1>10, <2>5, <3>1, <4>1
          <5>2. i - 1 \in 1..Len(s)
            BY <2>5, <4>1, <5>1
          <5> QED
            BY <2>5, <4>1, <5>1, <5>2
        <4>2. CASE i = Len(s) + 1
          <5>1. turns'[i - 1] = cand /\ i > 1
            BY <1>8, <2>5, <4>2
          <5>2. n = MaxTurns - 1
            BY <1>3, <2>1, TurnBound
          <5> QED
            BY <1>5, <2>3, <2>5, <4>2, <5>1, <5>2
        <4> QED
          BY <2>5, <3>1, <4>1, <4>2
      <3> QED
        BY <1>2, <2>1, <2>7, <3>1 DEF CountIsKept, Candidate
    <2>13. QuestionIsNew'
      BY <2>6, <2>8 DEF TalkInv, QuestionIsNew
    <2>14. LinesAlternate'
      <3> SUFFICES ASSUME ~AnsweredEarly', main' \notin {"waiting", "closing", "finished"}
                   PROVE  turns'[2] = QuestionLine /\ turns'[Len(turns')].speaker = "interviewer"
        BY <2>6 DEF LinesAlternate
      <3>1. turns'[2].speaker # "candidate"
        BY <1>3, <1>8, <2>5 DEF AnsweredEarly
      <3>2. Len(turns) >= 2
        BY <1>3, <1>6, <1>8, <2>5, <3>1
      <3>3. turns'[2] = turns[2]
        BY <1>8, <2>5, <3>2
      <3> QED
        BY <1>2, <1>3, <2>3, <2>5, <3>1, <3>2, <3>3 DEF TalkInv, LinesAlternate, AnsweredEarly
    <2> QED
      BY <2>9, <2>10, <2>11, <2>12, <2>13, <2>14 DEF TalkInv
  <1>14. CASE ~LastAnswer(n + 1)
    <2>1. /\ n + 1 # MaxTurns /\ turns' = s
          /\ turn' = [turn EXCEPT !["reply"] = "streaming"]
          /\ message' = message /\ phase' = phase
      BY <1>1, <1>3, <1>5, <1>7, <1>14, TurnBound DEF ReplyStarts, LastAnswer
    <2>2. /\ turn' \in [Turn -> TurnState] /\ turn'["reply"] = "streaming"
          /\ turn'["question"] = turn["question"]
      BY <1>3, <2>1 DEF Turn, TurnState
    <2>3. /\ \A l : InTranscript(l) => InTranscript(l)'
          /\ InTranscript(QuestionLine)' <=> InTranscript(QuestionLine)
      <3>1. \A l : InTranscript(l)' <=> \E i \in 1..Len(turns') : turns'[i] = l
        BY DEF InTranscript
      <3>2. QuestionLine' = QuestionLine
        BY DEF QuestionLine, Interviewer, Graph!Interviewer
      <3> QED
        BY <1>6, <1>11, <1>12, <2>1, <3>1, <3>2
    <2>4. TalkTyped'
      BY <1>2, <1>4, <1>8, <2>1, <2>2 DEF TalkInv, TalkTyped
    <2>5. SilentAtFirst'
      <3>1. turns'[1] = Interviewer("greeting", 0) /\ Len(turns') >= 1
        BY <1>3, <1>8, <2>1
      <3>2. InTranscript(message)'
        BY <1>3, <2>1, <2>3 DEF InTranscript
      <3> QED
        BY <1>2, <1>3, <2>1, <2>2, <3>1, <3>2 DEF TalkInv, SilentAtFirst
    <2>6. OneReply'
      BY <1>2, <1>3, <2>1, <2>2 DEF TalkInv, OneReply
    <2>7. CountIsKept'
      <3>1. Answers' = n + 1
        BY <1>9, <2>1 DEF Answers
      <3>2. \A i \in 1..Len(turns') : turns'[i].kind = "closing" =>
              i > 1 /\ turns'[i].after = MaxTurns /\ turns'[i - 1] = Candidate(MaxTurns - 1)
        BY <1>10, <2>1
      <3> QED
        BY <1>2, <1>3, <2>1, <3>1, <3>2 DEF CountIsKept, Candidate
    <2>8. QuestionIsNew'
      BY <2>2, <2>3 DEF TalkInv, QuestionIsNew
    <2>9. LinesAlternate'
      <3> SUFFICES ASSUME ~AnsweredEarly', main' \notin {"waiting", "closing", "finished"}
                   PROVE  turns'[2] = QuestionLine /\ turns'[Len(turns')].speaker = "candidate"
        BY <2>2 DEF LinesAlternate
      <3>1. turns'[2].speaker # "candidate"
        BY <1>3, <1>8, <2>1 DEF AnsweredEarly
      <3>2. Len(turns) >= 2
        BY <1>3, <1>6, <1>8, <2>1, <3>1
      <3>3. turns'[2] = turns[2]
        BY <1>8, <2>1, <3>2
      <3> QED
        BY <1>2, <1>3, <1>6, <1>8, <2>1, <3>1, <3>2, <3>3
        DEF TalkInv, LinesAlternate, AnsweredEarly
    <2> QED
      BY <2>4, <2>5, <2>6, <2>7, <2>8, <2>9 DEF TalkInv
  <1> QED
    BY <1>13, <1>14

LEMMA StepTalks == TalkInv /\ [SpokenNext]_spokenVars => TalkInv'
  <1> SUFFICES ASSUME TalkInv, [SpokenNext]_spokenVars PROVE TalkInv'
    OBVIOUS
  <1>1. CASE UNCHANGED spokenVars
    <2>1. /\ UNCHANGED <<turns, turn_count, phase, message, turn, reported>>
          /\ UNCHANGED <<main, consumer, track, active, done, avatar>>
      BY <1>1 DEF spokenVars
    <2>2. TalkTyped' /\ OneReply'
      BY <2>1 DEF TalkInv, TalkTyped, OneReply
    <2>3. SilentAtFirst'
      BY <2>1, SilenceStays DEF TalkInv, SilentAtFirst
    <2> QED
      BY <2>1, <2>2, <2>3, QuietKeeps
  <1>2. CASE MainStep
    BY <1>2, StopsWaitingKeeps, AvatarBuiltKeeps, GreetingSpokenKeeps, QuestionEndsKeeps,
       StoppedKeeps, ClosingKeeps DEF MainStep
  <1>3. CASE ConsumerStep
    BY <1>3, TracksKeeps, LeavingKeeps, StoppedKeeps, TurnHeardKeeps, InterruptsKeeps, ReplyEndsKeeps
    DEF ConsumerStep
  <1>4. CASE Frame \/ TrackSubscribed \/ TrackEnds
    BY <1>4, FramesKeeps, LeavingKeeps, TracksKeeps DEF Frame
  <1>5. CASE ReplyStarts
    BY <1>5, ReplyStartsKeeps
  <1>6. CASE \E t \in Turn : TurnStep(t)
    BY <1>6, CommitsKeeps, TurnFailsKeeps, TurnSpokenKeeps DEF TurnStep
  <1>7. CASE SttBackground
    BY <1>7, SttBackgroundKeeps
  <1>8. CASE Stopped
    BY <1>8, StoppedKeeps
  <1> QED
    BY <1>1, <1>2, <1>3, <1>4, <1>5, <1>6, <1>7, <1>8 DEF SpokenNext

\* The handle that interrupt() cancels is the question's for as long as that is under way.
QuestionIsActive == Speaking("question") => active = "question"

LEMMA StepActs == TalkInv /\ QuestionIsActive /\ [SpokenNext]_spokenVars => QuestionIsActive'
  <1> SUFFICES ASSUME TalkInv, QuestionIsActive, [SpokenNext]_spokenVars
               PROVE  QuestionIsActive'
    OBVIOUS
  <1>1. turn \in [Turn -> TurnState] /\ "question" \in Turn /\ "reply" \in Turn
    BY DEF TalkInv, TalkTyped, Turn
  <1>2. CASE active' = "question"
    BY <1>2 DEF QuestionIsActive
  <1>3. CASE turn'["question"] \notin Running
    BY <1>3 DEF QuestionIsActive, Speaking
  <1>4. CASE turn'["question"] \in Running /\ turn["question"] \in Running /\ active' = active
    BY <1>4 DEF QuestionIsActive, Speaking
  <1>5. CASE GreetingSpoken
    BY <1>2, <1>5 DEF GreetingSpoken
  <1>6. CASE QuestionEnds
    BY <1>3, <1>6 DEF QuestionEnds
  <1>7. CASE Interrupts
    <2>1. turn'["question"] = IF "question" = active /\ turn["question"] \in Running
                              THEN "cancelled" ELSE turn["question"]
      BY <1>1, <1>7 DEF Interrupts
    <2> QED
      BY <1>3, <2>1 DEF QuestionIsActive, Speaking, Running
  <1>8. CASE ReplyEnds
    <2>1. turn'["question"] = turn["question"] /\ (active = "question" => active' = "question")
      BY <1>1, <1>8 DEF ReplyEnds, Forgets
    <2> QED
      BY <1>2, <1>3, <2>1 DEF QuestionIsActive, Speaking
  <1>9. CASE CallEnds \/ Stopped
    <2>1. turn'["question"] \in {turn["question"], "cancelled"} /\ active' = active
      BY <1>1, <1>9 DEF CallEnds, Stopped, ConsumerCancelled, Leaves
    <2> QED
      BY <1>3, <1>4, <2>1 DEF Running
  <1>10. CASE ReplyStarts
    <2>1. turn'["question"] = turn["question"] /\ active' = active
      BY <1>1, <1>10 DEF ReplyStarts
    <2> QED
      BY <1>3, <1>4, <2>1
  <1>11. ASSUME NEW t \in Turn, TurnStep(t) PROVE QuestionIsActive'
    <2>1. /\ active' = active
          /\ turn'["question"] \in Running => turn["question"] \in Running
      BY <1>1, <1>11 DEF TurnStep, Commits, TurnFails, TurnSpoken, Running
    <2> QED
      BY <1>3, <1>4, <2>1
  <1>12. CASE \/ StopsWaiting \/ AvatarBuilt \/ GreetingFails \/ CallCloses \/ OrchestratorReady
              \/ TrackIsOver \/ TurnHeard \/ Frame \/ TrackSubscribed \/ TrackEnds
              \/ SttBackground \/ UNCHANGED spokenVars
    <2>1. turn' = turn /\ active' = active
      BY <1>12 DEF StopsWaiting, AvatarBuilt, GreetingFails, CallCloses, OrchestratorReady,
                   TrackIsOver, TurnHeard, Frame, SpeechBegins, Loud, Quiet, SilenceEndsTurn,
                   FrameRaises, FrameAfterEnd, TrackSubscribed, TrackEnds, SttBackground, voice,
                   spokenVars
    <2> QED
      BY <1>3, <1>4, <2>1
  <1> QED
    BY <1>5, <1>6, <1>7, <1>8, <1>9, <1>10, <1>11, <1>12 DEF SpokenNext, MainStep, ConsumerStep

LEMMA SpokenSpecHears == SpokenSpec => []HearInv
  BY SpokenInitHears, StepHears, PTL DEF SpokenSpec

LEMMA SpokenSpecTalks == SpokenSpec => []TalkInv
  BY SpokenInitTalks, StepTalks, PTL DEF SpokenSpec

\* run(), the consumer and the turns keep the types of their state (livekit_agent.py).
THEOREM SpokenTypeOKHolds == SpokenSpec => []SpokenTypeOK
  <1>1. HearInv /\ TalkInv => SpokenTypeOK
    BY DEF HearInv, SttIInv, SessionIsHeld, TalkInv, TalkTyped, SpokenTypeOK
  <1> QED
    BY <1>1, SpokenSpecHears, SpokenSpecTalks, PTL

\* However the consumer of the audio ends, and between any two answers, the session with the
\* speech vendor and its reader have been given back, unless finalize was cancelled in its grace
\* period by the end of run().
THEOREM SessionsAreClosedHolds == SpokenSpec => []SessionsAreClosed
  <1>1. HearInv => SessionsAreClosed
    BY DEF HearInv, SttIInv, SttTypeOK, Session, Attached, SessionIsHeld, Through,
           SessionsAreClosed
  <1> QED
    BY <1>1, SpokenSpecHears, PTL

\* The interview closes with the answer that reaches max_turns, whatever the order in which the
\* first question and the replies are committed.
THEOREM ClosesOnLastAnswerHolds == SpokenSpec => []ClosesOnLastAnswer
  <1>1. TalkInv => ClosesOnLastAnswer
    <2> SUFFICES ASSUME TalkInv PROVE ClosesOnLastAnswer
      OBVIOUS
    <2>1. Answers = turn_count /\ turn_count <= MaxTurns
      BY TurnBound DEF TalkInv, TalkTyped, CountIsKept
    <2> QED
      BY <2>1 DEF TalkInv, CountIsKept, ClosesOnLastAnswer
  <1> QED
    BY <1>1, SpokenSpecTalks, PTL

\* An answer never finds a turn under way that interrupt() does not cancel: the first question
\* and a reply come to run at once only when the greeting is over.
THEOREM OnlyGreetingIsTalkedOverHolds == SpokenSpec => OnlyGreetingIsTalkedOver
  <1>1. SpokenInit => QuestionIsActive
    BY DEF SpokenInit, QuestionIsActive, Speaking, Running, Turn
  <1>2. ASSUME TalkInv, QuestionIsActive, [SpokenNext]_spokenVars, main # "greeting",
               ~(Speaking("question") /\ Speaking("reply"))
        PROVE  ~(Speaking("question") /\ Speaking("reply"))'
    <2>1. turn \in [Turn -> TurnState] /\ "question" \in Turn /\ "reply" \in Turn
      BY <1>2 DEF TalkInv, TalkTyped, Turn
    <2>2. CASE Interrupts
      <3>1. turn'["question"] = IF "question" = active /\ turn["question"] \in Running
                                THEN "cancelled" ELSE turn["question"]
        BY <2>1, <2>2 DEF Interrupts
      <3> QED
        BY <1>2, <3>1 DEF QuestionIsActive, Speaking, Running
    <2>3. ASSUME NEW t \in Turn, TurnStep(t)
          PROVE  \A u \in Turn : turn'[u] \in Running => turn[u] \in Running
      BY <2>1, <2>3 DEF TurnStep, Commits, TurnFails, TurnSpoken, Running
    <2>4. CASE \/ ReplyStarts \/ ReplyEnds \/ CallEnds \/ Stopped
      <3>1. \A u \in Turn : turn'[u] \in Running => turn[u] \in Running
        BY <2>1, <2>4 DEF ReplyStarts, ReplyEnds, CallEnds, Stopped, ConsumerCancelled, Leaves,
                          Running
      <3> QED
        BY <1>2, <2>1, <3>1 DEF Speaking
    <2>5. CASE \/ StopsWaiting \/ AvatarBuilt \/ GreetingFails \/ QuestionEnds \/ CallCloses
               \/ OrchestratorReady \/ TrackIsOver \/ TurnHeard \/ Frame \/ TrackSubscribed
               \/ TrackEnds \/ SttBackground \/ UNCHANGED spokenVars
      <3>1. turn' = turn
        BY <2>5 DEF StopsWaiting, AvatarBuilt, GreetingFails, QuestionEnds, CallCloses,
                    OrchestratorReady, TrackIsOver, TurnHeard, Frame, SpeechBegins, Loud, Quiet,
                    SilenceEndsTurn, FrameRaises, FrameAfterEnd, TrackSubscribed, TrackEnds,
                    SttBackground, voice, spokenVars
      <3> QED
        BY <1>2, <3>1 DEF Speaking
    <2>6. ~GreetingSpoken
      BY <1>2 DEF GreetingSpoken
    <2> QED
      BY <1>2, <2>1, <2>2, <2>3, <2>4, <2>5, <2>6
      DEF SpokenNext, MainStep, ConsumerStep, Speaking
  <1>3. TalkInv /\ QuestionIsActive /\ [SpokenNext]_spokenVars
          => [(Speaking("question") /\ Speaking("reply"))'
                => (Speaking("question") /\ Speaking("reply")) \/ main = "greeting"]_spokenVars
    BY <1>2
  <1> QED
    BY <1>1, <1>3, StepActs, SpokenSpecTalks, PTL DEF SpokenSpec, OnlyGreetingIsTalkedOver

\* With the greeting alone no one has answered.
LEMMA GreetingAlone ==
  ASSUME TalkInv, main # "waiting", Len(turns) = 1
  PROVE  phase = "in_progress"
  <1>1. turns[1].speaker = "interviewer"
    BY LinesDiffer DEF TalkInv, SilentAtFirst
  <1>2. {i \in 1..Len(turns) : turns[i].speaker = "candidate"} = {}
    BY <1>1
  <1>3. Answers = 0
    BY <1>2, FS_EmptySet DEF Answers
  <1> QED
    BY <1>3, TurnBound DEF TalkInv, TalkTyped, SilentAtFirst, CountIsKept

LEMMA MirrorsStep ==
  ASSUME TalkInv, [SpokenNext]_spokenVars, ~AnsweredEarly', main \notin {"closing", "finished"}
  PROVE  [Graph!Next]_graph
  <1>1. CASE StopsWaiting
    <2>1. /\ main = "waiting" /\ main' = "building" /\ phase' = "in_progress"
          /\ turns' = <<Interviewer("greeting", 0)>> /\ Len(turns') = 1 /\ turn_count' = turn_count
      BY <1>1 DEF StopsWaiting
    <2>2. NodeOf = "greeting" /\ NodeOf' = "ask_question"
      BY <2>1 DEF NodeOf
    <2> QED
      BY <2>1, <2>2 DEF Graph!Next, Graph!Greeting, Interviewer
  <1>2. ASSUME NEW t \in Turn, Commits(t) PROVE Graph!Next
    <2>1. /\ turn[t] = "streaming" /\ turns' = Append(turns, LineOf(t))
          /\ UNCHANGED <<main, phase, turn_count>>
      BY <1>2 DEF Commits
    <2>2. /\ main # "waiting" /\ turns[1] = Interviewer("greeting", 0) /\ Len(turns) >= 1
          /\ turns \in Seq(Line) /\ turn_count \in 0..MaxTurns
      BY <2>1 DEF TalkInv, TalkTyped, SilentAtFirst
    <2>3. PICK line \in Line : line = LineOf(t)
      BY <2>2, LineOfIs, LinesFit DEF Turn
    <2>4. /\ Len(turns') = Len(turns) + 1 /\ Len(turns) \in Nat /\ turns'[Len(turns) + 1] = line
          /\ \A i \in 1..Len(turns) : turns'[i] = turns[i]
      BY <2>1, <2>2, <2>3, Appended
    <2>5. ~AnsweredEarly
      BY <2>4 DEF AnsweredEarly
    <2>6. line.speaker = "interviewer"
      BY <2>3, LineOfIs, LinesDiffer DEF Turn
    <2>7. CASE t = "question"
      <3>1. Len(turns) = 1
        <4>1. ~InTranscript(QuestionLine)
          BY <2>1, <2>7 DEF TalkInv, QuestionIsNew
        <4>2. Len(turns) >= 2 => turns[2] = QuestionLine
          BY <2>2, <2>5 DEF TalkInv, LinesAlternate
        <4>3. ~(Len(turns) >= 2)
          <5> SUFFICES ASSUME Len(turns) >= 2 PROVE FALSE
            OBVIOUS
          <5>1. 2 \in 1..Len(turns) /\ turns[2] = QuestionLine
            BY <2>4, <4>2
          <5> QED
            BY <4>1, <5>1 DEF InTranscript
        <4>4. PICK k \in Nat : k = Len(turns) /\ k >= 1
          BY <2>2, <2>4
        <4>5. ~(k >= 2)
          BY <4>3, <4>4
        <4>6. k = 1
          BY <4>4, <4>5
        <4> QED
          BY <4>4, <4>6
      <3>2. phase = "in_progress"
        BY <2>2, <3>1, GreetingAlone
      <3>3. NodeOf = "ask_question" /\ NodeOf' = "await"
        BY <2>1, <2>2, <2>4, <2>6, <3>1, <3>2 DEF NodeOf
      <3>4. turns' = Append(turns, Interviewer("question", 0))
        BY <2>1, <2>7 DEF LineOf
      <3> QED
        BY <2>1, <3>3, <3>4 DEF Graph!Next, Graph!AskQuestion, Interviewer
    <2>8. CASE t = "reply"
      <3>1. turns[Len(turns)].speaker = "candidate" /\ phase # "done"
        BY <2>1, <2>2, <2>5, <2>8 DEF TalkInv, LinesAlternate, OneReply
      <3>2. Len(turns) >= 2
        BY <2>2, <2>4, <3>1, LinesDiffer
      <3>3. NodeOf = "follow_up" /\ NodeOf' = "await"
        BY <2>1, <2>2, <2>4, <2>6, <3>1, <3>2 DEF NodeOf
      <3>4. turns' = Append(turns, Interviewer("follow-up", turn_count))
        BY <2>1, <2>8, LineOfIs
      <3> QED
        BY <2>1, <3>3, <3>4 DEF Graph!Next, Graph!FollowUp, Interviewer
    <2> QED
      BY <2>7, <2>8 DEF Turn
  <1>3. CASE ReplyStarts
    <2>1. turn["reply"] = "created" /\ turn_count' = turn_count + 1 /\ main' = main
      BY <1>3 DEF ReplyStarts
    <2>2. /\ main # "waiting" /\ turns[1] = Interviewer("greeting", 0) /\ Len(turns) >= 1
          /\ turns \in Seq(Line) /\ turn_count \in 0..MaxTurns /\ phase = "in_progress"
          /\ consumer # "died"
      BY <2>1 DEF TalkInv, TalkTyped, SilentAtFirst, OneReply
    <2>3. PICK cand \in Line : cand = Candidate(turn_count)
      BY <2>2, LinesFit
    <2>4. cand.speaker = "candidate"
      BY <2>3, LinesDiffer
    <2>5. PICK s : s = Append(turns, cand)
      OBVIOUS
    <2>6. /\ s \in Seq(Line) /\ Len(s) = Len(turns) + 1 /\ Len(turns) \in Nat
          /\ s[Len(turns) + 1] = cand /\ \A i \in 1..Len(turns) : s[i] = turns[i]
      BY <2>2, <2>5, Appended
    <2>7. ASSUME Len(turns') >= Len(s), \A i \in 1..Len(s) : turns'[i] = s[i]
          PROVE  NodeOf = "await"
      <3>1. turns'[2].speaker # "candidate"
        BY <2>2, <2>6, <2>7 DEF AnsweredEarly
      <3>2. Len(turns) >= 2
        BY <2>2, <2>4, <2>6, <2>7, <3>1
      <3>3. ~AnsweredEarly
        BY <2>6, <2>7, <3>1, <3>2 DEF AnsweredEarly
      <3>4. turns[Len(turns)].speaker = "interviewer"
        BY <2>1, <2>2, <3>3 DEF TalkInv, LinesAlternate
      <3> QED
        BY <2>2, <3>2, <3>4 DEF NodeOf
    <2>8. CASE LastAnswer(turn_count + 1)
      <3>1. /\ turns' = turns \o <<Candidate(turn_count), Interviewer("closing", turn_count + 1)>>
            /\ phase' = "done" /\ turn_count + 1 >= MaxTurns
        BY <1>3, <2>8 DEF ReplyStarts, LastAnswer
      <3>2. Interviewer("closing", turn_count + 1) \in Line
        <4>1. turn_count # MaxTurns
          BY <2>2 DEF TalkInv, CountIsKept
        <4>2. turn_count + 1 \in 0..MaxTurns
          BY <2>2, <4>1, TurnBound
        <4> QED
          BY <4>2, LinesFit
      <3>3. turns' = Append(s, Interviewer("closing", turn_count + 1))
        BY <2>2, <2>3, <2>5, <3>1, <3>2
      <3>4. Len(turns') = Len(s) + 1 /\ \A i \in 1..Len(s) : turns'[i] = s[i]
        BY <2>6, <3>2, <3>3, Appended
      <3>5. NodeOf = "await" /\ NodeOf' = "end"
        BY <2>1, <2>2, <2>6, <2>7, <3>1, <3>4 DEF NodeOf
      <3> QED
        BY <2>1, <3>1, <3>5 DEF Graph!Next, Graph!AwaitThenClose, Interviewer, Candidate
    <2>9. CASE ~LastAnswer(turn_count + 1)
      <3>1. turns' = Append(turns, Candidate(turn_count)) /\ phase' = phase
        BY <1>3, <2>9 DEF ReplyStarts
      <3>2. turns' = s
        BY <2>3, <2>5, <3>1
      <3>3. turn_count + 1 < MaxTurns
        BY <2>2, <2>9, TurnBound DEF LastAnswer
      <3>4. NodeOf = "await"
        BY <2>6, <2>7, <3>2
      <3>5. NodeOf' = "follow_up"
        <4>1. Len(turns') # 1 /\ turns'[Len(turns')].speaker = "candidate"
          BY <2>2, <2>4, <2>6, <3>2
        <4> QED
          BY <2>1, <2>2, <3>1, <4>1 DEF NodeOf
      <3> QED
        BY <2>1, <3>1, <3>3, <3>4, <3>5 DEF Graph!Next, Graph!AwaitThenFollowUp, Candidate
    <2> QED
      BY <2>8, <2>9
  <1>4. ASSUME UNCHANGED <<phase, turns, turn_count>>, main' = "waiting" <=> main = "waiting"
        PROVE  UNCHANGED graph
    BY <1>4 DEF NodeOf, graph
  <1>5. CASE \/ AvatarBuilt \/ GreetingSpoken \/ GreetingFails \/ QuestionEnds \/ CallEnds
             \/ CallCloses \/ Stopped
    BY <1>4, <1>5 DEF AvatarBuilt, GreetingSpoken, GreetingFails, QuestionEnds, CallEnds,
                      CallCloses, Stopped, brain
  <1>6. CASE ConsumerStep
    BY <1>4, <1>6 DEF ConsumerStep, OrchestratorReady, TrackIsOver, TurnHeard, Interrupts,
                      ReplyEnds, brain
  <1>7. CASE Frame \/ TrackSubscribed \/ TrackEnds \/ SttBackground
    BY <1>4, <1>7 DEF Frame, SpeechBegins, Loud, Quiet, SilenceEndsTurn, FrameRaises,
                      FrameAfterEnd, TrackSubscribed, TrackEnds, SttBackground, brain
  <1>8. CASE \E t \in Turn : TurnFails(t) \/ TurnSpoken(t)
    BY <1>4, <1>8 DEF TurnFails, TurnSpoken, brain
  <1>9. CASE UNCHANGED spokenVars
    BY <1>4, <1>9 DEF spokenVars
  <1> QED
    BY <1>1, <1>2, <1>3, <1>5, <1>6, <1>7, <1>8, <1>9 DEF SpokenNext, MainStep, TurnStep

\* "Mirrors the node topology of build.py" (brain.py): the conversation implements the graph of
\* TurnLoop, until the candidate answers before the first question is committed, and until run()
\* has stopped waiting for its end.
THEOREM MirrorsGraphHolds == SpokenSpec => MirrorsGraph
  <1>1. SpokenInit => Graph!Init
    BY DEF SpokenInit, Graph!Init, NodeOf
  <1>2. TalkInv /\ [SpokenNext]_spokenVars
          => [Graph!Next \/ AnsweredEarly' \/ main \in {"closing", "finished"}]_graph
    BY MirrorsStep
  <1> QED
    BY <1>1, <1>2, SpokenSpecTalks, PTL DEF SpokenSpec, MirrorsGraph
=============================================================================
