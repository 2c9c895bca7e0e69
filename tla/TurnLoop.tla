------------------------------- MODULE TurnLoop -------------------------------
(***************************************************************************)
(* interview_core graph/build.py and graph/nodes.py: the interview as a    *)
(* graph of nodes,                                                         *)
(*                                                                         *)
(*   greeting, ask_question, await_candidate_input,                        *)
(*     (follow_up, await_candidate_input)*, closing                        *)
(*                                                                         *)
(* that InterviewBrain claims to mirror.  A line of the transcript is its   *)
(* speaker, its kind and the number of answers given before it.  The nodes  *)
(* that need no model call run in the step of the node before them.         *)
(***************************************************************************)
EXTENDS Integers, Sequences

CONSTANT MaxTurns           \* max_turns: answers the candidate gives

VARIABLES
    node,       \* where the graph stands
    phase,
    turns,      \* the transcript
    turn_count  \* answers the candidate has given

vars == <<node, phase, turns, turn_count>>

Interviewer(kind, n) == [speaker |-> "interviewer", kind |-> kind, after |-> n]
Candidate(n) == [speaker |-> "candidate", kind |-> "answer", after |-> n]

Init == node = "greeting" /\ phase = "greeting" /\ turns = <<>> /\ turn_count = 0

Greeting ==
    /\ node = "greeting" /\ node' = "ask_question"
    /\ phase' = "in_progress"
    /\ turns' = <<Interviewer("greeting", 0)>>
    /\ UNCHANGED turn_count

AskQuestion ==
    /\ node = "ask_question" /\ node' = "await"
    /\ turns' = Append(turns, Interviewer("question", 0))
    /\ UNCHANGED <<phase, turn_count>>

\* _route_after_candidate_input: a follow-up while the candidate owes answers.
AwaitThenFollowUp ==
    /\ node = "await" /\ turn_count + 1 < MaxTurns
    /\ node' = "follow_up"
    /\ turns' = Append(turns, Candidate(turn_count))
    /\ turn_count' = turn_count + 1
    /\ UNCHANGED phase

AwaitThenClose ==
    /\ node = "await" /\ turn_count + 1 >= MaxTurns
    /\ node' = "end" /\ phase' = "done"
    /\ turns' = turns \o <<Candidate(turn_count), Interviewer("closing", turn_count + 1)>>
    /\ turn_count' = turn_count + 1

FollowUp ==
    /\ node = "follow_up" /\ node' = "await"
    /\ turns' = Append(turns, Interviewer("follow-up", turn_count))
    /\ UNCHANGED <<phase, turn_count>>

Next == Greeting \/ AskQuestion \/ AwaitThenFollowUp \/ AwaitThenClose \/ FollowUp

Spec == Init /\ [][Next]_vars
=============================================================================
