---------------------------- MODULE SpokenInterview ----------------------------
(***************************************************************************)
(* interview_core: one interview as agent/livekit_agent.py conducts it,     *)
(* with agent/orchestrator.py speaking and graph/brain.py deciding what to  *)
(* say.                                                                    *)
(*                                                                         *)
(* Coroutines of one event loop: run(), which opens the interview and waits *)
(* for its end or until it is cancelled; the consumer of the candidate's     *)
(* audio track, which gathers an answer with one SttStream session and then  *)
(* conducts the next turn; and the task of a turn, which draws a line from   *)
(* the model, speaks it and reports it.  run() starts the turn of the first  *)
(* question while the consumer is already listening.                        *)
(*                                                                         *)
(* Audio, sentences and the words of a line are left out: a line is what it  *)
(* is in TurnLoop.                                                         *)
(***************************************************************************)
EXTENDS SttStream, Sequences, FiniteSets

CONSTANT MaxTurns       \* max_turns

ASSUME TurnsAssumption == MaxTurns \in Nat \ {0}

VARIABLES
    main,       \* run()
    consumer,   \* _consume_candidate_audio
    ear,        \* its speaking, and whether speech_ms has reached _MIN_SPEECH_MS
    track,      \* the candidate's audio track
    turn,       \* the turn tasks: of the first question, and in reply to an answer
    active,     \* _active_turn
    phase,      \* brain: phase,
    turns,      \* ... turns, the transcript
    turn_count, \* ... turn_count, the answers given so far
    message,    \* ... next_interviewer_message
    reported,   \* lines given to on_interviewer_text
    done,       \* _done is set
    avatar      \* the avatar transport holds resources

brain == <<phase, turns, turn_count, message>>
voice == <<turn, active, reported>>
spokenVars == <<stt, main, consumer, ear, track, turn, active, phase, turns, turn_count, message,
               reported, done, avatar>>

\* Where the graph of build.py would stand.
NodeOf == IF main = "waiting" THEN "greeting"
          ELSE IF phase = "done" THEN "end"
          ELSE IF Len(turns) = 1 THEN "ask_question"
          ELSE IF turns[Len(turns)].speaker = "candidate" THEN "follow_up" ELSE "await"

Graph == INSTANCE TurnLoop WITH node <- NodeOf

graph == <<NodeOf, phase, turns, turn_count>>

Interviewer(kind, n) == Graph!Interviewer(kind, n)
Candidate(n) == Graph!Candidate(n)

Turn == {"question", "reply"}
TurnState == {"none", "created", "streaming", "tail", "over", "cancelled", "failed"}
Running == {"created", "streaming", "tail"}
NoMessage == Interviewer("none", 0)
Deaf == [speaking |-> FALSE, enough |-> FALSE]

Line == [speaker : {"interviewer", "candidate"},
         kind : {"greeting", "question", "answer", "follow-up", "closing"}, after : 0..MaxTurns]

SpokenTypeOK ==
    /\ SttTypeOK
    /\ main \in {"waiting", "building", "greeting", "asking", "conversing", "closing",
                 "finished", "raised"}
    /\ consumer \in {"none", "gated", "listening", "ending", "interrupting", "replying",
                     "over", "died"}
    /\ ear \in [speaking : BOOLEAN, enough : BOOLEAN]
    /\ track \in {"none", "live", "over"}
    /\ turn \in [Turn -> TurnState]
    /\ active \in Turn \cup {"none"}
    /\ phase \in {"greeting", "in_progress", "done"}
    /\ turns \in Seq(Line) /\ reported \in Seq(Line)
    /\ turn_count \in 0..MaxTurns
    /\ message \in Line \cup {NoMessage}
    /\ done \in BOOLEAN
    /\ avatar \in {"none", "simli", "voice", "closed"}

SpokenInit ==
    /\ SttInit
    /\ main = "waiting" /\ consumer = "none" /\ ear = Deaf /\ track = "none"
    /\ turn = [t \in Turn |-> "none"] /\ active = "none"
    /\ phase = "greeting" /\ turns = <<>> /\ turn_count = 0 /\ message = NoMessage
    /\ reported = <<>> /\ done = FALSE /\ avatar = "none"

-----------------------------------------------------------------------------
(* run().                                                                   *)

\* A candidate is there, or 300 s have passed.  InterviewBrain.start commits the greeting.
StopsWaiting ==
    /\ main = "waiting" /\ main' = "building"
    /\ phase' = "in_progress"
    /\ turns' = <<Interviewer("greeting", 0)>>
    /\ message' = Interviewer("greeting", 0)
    /\ UNCHANGED <<stt, consumer, ear, track, turn_count, voice, done, avatar>>

\* Simli, or a track of our own when it cannot be set up.
AvatarBuilt ==
    /\ main = "building" /\ main' = "greeting"
    /\ avatar' \in {"simli", "voice"}
    /\ UNCHANGED <<stt, consumer, ear, track, brain, voice, done>>

\* begin(): the greeting is spoken outside any turn task, then the first question begins.  A
\* speech vendor's answer or an audio sink that is no good raises, and run() with it.
GreetingFails ==
    /\ main = "greeting" /\ main' = "raised"
    /\ UNCHANGED <<stt, consumer, ear, track, brain, voice, done, avatar>>

GreetingSpoken ==
    /\ main = "greeting" /\ main' = "asking"
    /\ reported' = Append(reported, Interviewer("greeting", 0))
    /\ turn' = [turn EXCEPT !["question"] = "streaming"]
    /\ active' = "question"
    /\ UNCHANGED <<stt, consumer, ear, track, brain, done, avatar>>

\* Mutant: the turn that ends clears the handle whose ever it is.
ForgetsAny(t) == active' = "none"

Forgets(t) == active' = IF active = t THEN "none" ELSE active

\* A cancelled turn is swallowed; any other error leaves run() before its try block.
QuestionEnds ==
    /\ main = "asking" /\ turn["question"] \notin Running
    /\ main' = IF turn["question"] = "failed" THEN "raised" ELSE "conversing"
    /\ Forgets("question")
    /\ UNCHANGED <<stt, consumer, ear, track, turn, brain, reported, done, avatar>>

\* Mutant: only the good path finalizes the session.
LeavesOpen(how) ==
    /\ consumer' = how
    /\ UNCHANGED stt
    /\ ear' = Deaf

\* The finally block finalizes what is left of a session, and suppresses what that raises.
Leaves(how) ==
    /\ consumer' = how
    /\ stt' = IF stt.conn = "none" \/ stt.finalized THEN stt ELSE Closed
    /\ ear' = Deaf

\* cancel() of the consumer's task.  A finalize it cuts in its grace period has begun and is
\* not taken up again, one it meets behind it closes the connection or goes on; interrupt()
\* and _speak_turn take it for the cancellation of the turn they wait for.
ConsumerCancelled ==
    \/ /\ consumer \in {"none", "over", "died"}
       /\ UNCHANGED <<stt, consumer, ear, turn>>
    \/ /\ consumer \in {"gated", "listening"}
       /\ Leaves("over") /\ UNCHANGED turn
    \/ /\ consumer = "ending" /\ UNCHANGED turn
       /\ \/ consumer' = "over" /\ ear' = Deaf /\ ~stt.sealed /\ UNCHANGED stt
          \/ consumer' = "over" /\ ear' = Deaf /\ stt' = Closed
          \/ UNCHANGED <<stt, consumer, ear>>
    \/ /\ consumer = "interrupting" /\ consumer' \in {"interrupting", "over"}
       /\ UNCHANGED <<stt, ear, turn>>
    \/ /\ consumer = "replying" /\ turn' = [turn EXCEPT !["reply"] = "cancelled"]
       /\ UNCHANGED <<stt, consumer, ear>>

CallEnds ==
    /\ main = "conversing" /\ done /\ main' = "closing"
    /\ ConsumerCancelled
    /\ UNCHANGED <<track, brain, active, reported, done, avatar>>

\* run() is cancelled from outside: while it waits for the first question only the question
\* is, and it goes on; while it waits for the end the finally block is entered.  Before, the
\* cancellation ends it as an error does.
Stopped ==
    \/ /\ main = "asking" /\ turn' = [turn EXCEPT !["question"] = "cancelled"]
       /\ UNCHANGED <<stt, main, consumer, ear, track, brain, active, reported, done, avatar>>
    \/ /\ main = "conversing" /\ main' = "closing"
       /\ ConsumerCancelled
       /\ UNCHANGED <<track, brain, active, reported, done, avatar>>

\* The consumer is over, whenever that is: the avatar is closed and the room left.
CallCloses ==
    /\ main = "closing" /\ consumer \in {"none", "over", "died"}
    /\ main' = "finished" /\ avatar' = "closed"
    /\ UNCHANGED <<stt, consumer, ear, track, brain, voice, done>>

-----------------------------------------------------------------------------
(* The task of a turn: brain.first_question or respond, spoken and reported. *)

\* Mutant: one answer more than max_turns before the interview closes.
LastAnswerLate(n) == n > MaxTurns

\* Mutant: ... and one less.
LastAnswerEarly(n) == n + 1 >= MaxTurns

LastAnswer(n) == n >= MaxTurns

\* respond() up to its first wait.
ReplyStarts ==
    LET n == turn_count
    IN /\ turn["reply"] = "created"
       /\ turn_count' = n + 1
       /\ IF LastAnswer(n + 1)
          THEN /\ turns' = turns \o <<Candidate(n), Interviewer("closing", n + 1)>>
               /\ message' = Interviewer("closing", n + 1)
               /\ phase' = "done"
               /\ turn' = [turn EXCEPT !["reply"] = "tail"]
          ELSE /\ turns' = Append(turns, Candidate(n))
               /\ turn' = [turn EXCEPT !["reply"] = "streaming"]
               /\ UNCHANGED <<message, phase>>
       /\ UNCHANGED <<stt, main, consumer, ear, track, active, reported, done, avatar>>

LineOf(t) == IF t = "question" THEN Interviewer("question", 0)
             ELSE Interviewer("follow-up", turn_count)

\* The stream is drained: the line is committed, what is left of it is still to be spoken.
\* Until then any part of it may have been spoken, all of it included.
Commits(t) ==
    /\ turn[t] = "streaming"
    /\ turn' = [turn EXCEPT ![t] = "tail"]
    /\ turns' = Append(turns, LineOf(t))
    /\ message' = LineOf(t)
    /\ UNCHANGED <<stt, main, consumer, ear, track, active, phase, turn_count, reported, done,
                   avatar>>

\* The model raises, or the speech of a sentence does: an answer of the vendor that cannot be
\* decoded, an audio sink that takes no frame.
TurnFails(t) ==
    /\ turn[t] \in {"streaming", "tail"}
    /\ turn' = [turn EXCEPT ![t] = "failed"]
    /\ UNCHANGED <<stt, main, consumer, ear, track, active, brain, reported, done, avatar>>

\* It reports the message the brain holds by then.
TurnSpoken(t) ==
    /\ turn[t] = "tail"
    /\ turn' = [turn EXCEPT ![t] = "over"]
    /\ reported' = Append(reported, message)
    /\ UNCHANGED <<stt, main, consumer, ear, track, active, brain, done, avatar>>

TurnStep(t) == Commits(t) \/ TurnFails(t) \/ TurnSpoken(t)

-----------------------------------------------------------------------------
(* _consume_candidate_audio.                                                *)

\* _on_track_subscribed; a later track of the candidate is ignored.
TrackSubscribed ==
    /\ track = "none" /\ main # "finished"
    /\ track' = "live" /\ consumer' = "gated"
    /\ UNCHANGED <<stt, main, ear, brain, voice, done, avatar>>

TrackEnds ==
    /\ track = "live" /\ track' = "over"
    /\ UNCHANGED <<stt, main, consumer, ear, brain, voice, done, avatar>>

OrchestratorReady ==
    /\ consumer = "gated" /\ main \notin {"waiting", "building"}
    /\ consumer' = "listening"
    /\ UNCHANGED <<stt, main, ear, track, brain, voice, done, avatar>>

IsComplete == phase = "done"

Hears == consumer = "listening" /\ track = "live" /\ ~IsComplete

TrackIsOver ==
    /\ consumer = "listening" /\ track = "over"
    /\ Leaves("over")
    /\ UNCHANGED <<main, track, brain, voice, done, avatar>>

FrameAfterEnd ==
    /\ consumer = "listening" /\ track = "live" /\ IsComplete
    /\ done' = TRUE
    /\ Leaves("over")
    /\ UNCHANGED <<main, track, brain, voice, avatar>>

\* The first loud frame of a turn; when no session can be started it is dropped.
SpeechBegins ==
    /\ Hears /\ ~ear.speaking
    /\ Start
    /\ ear' = [speaking |-> TRUE, enough |-> FALSE]
    /\ UNCHANGED <<main, consumer, track, brain, voice, done, avatar>>

Loud ==
    /\ Hears /\ ear.speaking
    /\ Sent
    /\ ear' \in {ear, [ear EXCEPT !.enough = TRUE]}
    /\ UNCHANGED <<main, consumer, track, brain, voice, done, avatar>>

Quiet ==
    /\ Hears /\ ear.speaking
    /\ Sent
    /\ UNCHANGED <<main, consumer, ear, track, brain, voice, done, avatar>>

\* The frames of silence that Quiet has sent add up to _SILENCE_MS_TO_END_TURN.
SilenceEndsTurn ==
    /\ Hears /\ ear.speaking /\ ear.enough
    /\ FinalizeBegins
    /\ consumer' = "ending"
    /\ UNCHANGED <<main, ear, track, brain, voice, done, avatar>>

FrameRaises ==
    /\ Hears /\ ear.speaking
    /\ SendRaises
    /\ Leaves("died")
    /\ UNCHANGED <<main, track, brain, voice, done, avatar>>

\* _finish_turn after finalize has closed the session: without a transcript there was no answer.
TurnHeard ==
    /\ consumer = "ending"
    /\ consumer' = IF Transcript = 0 THEN "listening" ELSE "interrupting"
    /\ stt' = NewSession
    /\ ear' = Deaf
    /\ UNCHANGED <<main, track, brain, voice, done, avatar>>

\* interrupt(), then on_candidate_turn.
Interrupts ==
    /\ consumer = "interrupting" /\ consumer' = "replying"
    /\ turn' = [t \in Turn |->
                  IF t = "reply" THEN "created"
                  ELSE IF t = active /\ turn[t] \in Running THEN "cancelled" ELSE turn[t]]
    /\ active' = "reply"
    /\ UNCHANGED <<stt, main, ear, track, brain, reported, done, avatar>>

\* Mutant: the end of the interview is noticed with the next audio frame only.
CompletedNever(reply) == FALSE

Completed(reply) == reply # "failed" /\ IsComplete

ReplyEnds ==
    /\ consumer = "replying" /\ turn["reply"] \notin Running
    /\ turn' = [turn EXCEPT !["reply"] = "none"]
    /\ Forgets("reply")
    /\ consumer' = IF turn["reply"] = "failed" THEN "died" ELSE "listening"
    /\ done' = (done \/ Completed(turn["reply"]))
    /\ UNCHANGED <<stt, main, ear, track, brain, reported, avatar>>

-----------------------------------------------------------------------------

SttBackground ==
    /\ Background
    /\ UNCHANGED <<main, consumer, ear, track, brain, voice, done, avatar>>

MainStep == \/ StopsWaiting \/ AvatarBuilt \/ GreetingSpoken \/ GreetingFails
            \/ QuestionEnds \/ CallEnds \/ CallCloses

\* What the consumer does when it need not wait for the candidate.
ConsumerStep ==
    \/ OrchestratorReady \/ TrackIsOver
    \/ TurnHeard \/ Interrupts \/ ReplyEnds

Frame == SpeechBegins \/ Loud \/ Quiet \/ SilenceEndsTurn \/ FrameRaises \/ FrameAfterEnd

SpokenNext ==
    \/ MainStep \/ Stopped \/ ConsumerStep \/ Frame
    \/ ReplyStarts
    \/ \E t \in Turn : TurnStep(t)
    \/ TrackSubscribed \/ TrackEnds
    \/ SttBackground

SpokenSpec == SpokenInit /\ [][SpokenNext]_spokenVars

\* The event loop runs every task that is ready, and calls to the model and the
\* speech services have timeouts.  The candidate need not send another frame, and nobody
\* need cancel run().
SpokenFairSpec ==
    /\ SpokenSpec
    /\ WF_spokenVars(MainStep) /\ WF_spokenVars(ConsumerStep) /\ WF_spokenVars(ReplyStarts)
    /\ \A t \in Turn : WF_spokenVars(TurnStep(t))

-----------------------------------------------------------------------------

\* Answers in the transcript.
Answers == Cardinality({i \in 1..Len(turns) : turns[i].speaker = "candidate"})

(* The interview closes with the answer that reaches max_turns and takes none  *)
(* afterwards, although first question and replies may be spoken at once.      *)
ClosesOnLastAnswer ==
    /\ Answers = turn_count /\ Answers <= MaxTurns
    /\ (phase = "done") <=> (Answers = MaxTurns)
    /\ \A i \in 1..Len(turns) : turns[i].kind = "closing" =>
          turns[i].after = MaxTurns /\ turns[i - 1] = Candidate(MaxTurns - 1)

\* The candidate answered before the first question was committed.
AnsweredEarly == Len(turns) >= 2 /\ turns[2].speaker = "candidate"

\* The line of the turn is being drawn, or spoken.
Speaking(t) == turn[t] \in Running

(* A barge-in finds the turn that is under way: _active_turn is set by the task *)
(* of the question and by the consumer and cleared by whichever turn ends, yet   *)
(* two turns come to run at once only when the question of begin() joins the     *)
(* reply to an answer that was given during the greeting, never by an answer.    *)
OnlyGreetingIsTalkedOver ==
    [][(Speaking("question") /\ Speaking("reply"))'
          => (Speaking("question") /\ Speaking("reply")) \/ main = "greeting"]_spokenVars

(* However the consumer ends, by itself or cancelled, and between two answers,   *)
(* the vendor's connection and its reader are given back: but for a finalize     *)
(* that run() cancelled in its grace period, which nobody takes up again.        *)
CutInGrace == stt.finalized /\ consumer = "over" /\ main \in {"closing", "finished"}

SessionsAreClosed ==
    (consumer \in {"over", "died"} \/ (consumer = "listening" /\ ~ear.speaking))
        => \/ stt.conn \in {"none", "closed"} /\ stt.reader # "running"
           \/ CutInGrace

(* "Mirrors the node topology of build.py" (brain.py): every step is a step of  *)
(* the graph, unless the candidate talks before the first question is out.  The  *)
(* reply that run(), itself cancelled, cancels is the other exception: the        *)
(* consumer takes that for a barge-in and listens on.                             *)
MirrorsGraph ==
    /\ Graph!Init
    /\ [][Graph!Next \/ AnsweredEarly' \/ main \in {"closing", "finished"}]_graph

(* Once the closing line is committed the call ends, or run() had raised before. *)
(* The exceptions: the speech of the closing raised, of which the consumer dies   *)
(* with nobody told; and run(), cancelled in the middle of a reply, waits for a   *)
(* consumer that listens on until the next frame.                                *)
ClosingEndsCall ==
    (phase = "done") ~> \/ main \in {"finished", "raised"}
                        \/ main = "conversing" /\ consumer = "died"
                        \/ main = "closing" /\ consumer = "listening"

(* "if the interviewer is mid-line, cancel it first": no two lines at once.      *)
(* The greeting is spoken outside the turn that a barge-in cancels.              *)
OneVoice ==
    \A t \in Turn : ~(turn[t] \in {"streaming", "tail"} /\
                      (main = "greeting" \/ \E u \in Turn \ {t} : turn[u] \in {"streaming", "tail"}))

(* "Persist the committed line": no line is reported twice.                      *)
ReportedOnce == \A i, j \in 1..Len(reported) : reported[i] = reported[j] => i = j

(* "Run until the interview completes (closing spoken) or room closes": when no  *)
(* one is left to listen, run() does not wait for ever.                          *)
RunEnds == (consumer \in {"over", "died"} /\ main = "conversing") ~> (main = "finished")
=============================================================================
