------------------------------- MODULE Proctoring -------------------------------
(***************************************************************************)
(* The integrity events of one interview session (interview_core           *)
(* routers/integrity.py, proctoring.py) or exam attempt (data_gateway      *)
(* routers/exam_take.py, ingest_integrity_event): the browser queues       *)
(* events and posts them in batches; each request inserts its batch, reads *)
(* all events back, and overwrites the score and summary, in a transaction *)
(* of its own.                                                             *)
(***************************************************************************)
EXTENDS Integers, FiniteSets, FiniteSetsExt

CONSTANTS
    Event,              \* what the browser may notice
    Post,
    TypeOf,             \* event_type of each event
    Seconds,            \* its duration, 0 when it has no end
    PerSecondPenalty,   \* _PER_SECOND_PENALTY, in half points
    PerEventPenalty,    \* _PER_EVENT_PENALTY, in half points
    MaxEventSeconds     \* _MAX_EVENT_SECONDS

VARIABLES
    raised,     \* history: the events noticed
    queue,      \* queueRef: those not posted
    pc,         \* where each request stands
    batch,      \* the events it carries
    read,       \* the events it has read back
    open,       \* the consent is active, or the attempt in progress
    stored,     \* integrity_events, as committed
    summary     \* proctoring_summary and integrity_score

proctoringVars == <<raised, queue, pc, batch, read, open, stored, summary>>

PostStage == {"idle", "sent", "inserted", "scoring", "answered", "gone"}

\* _duration_seconds clamps the duration; a type the server does not know costs nothing.
Penalty(e) ==
    CASE TypeOf[e] \in DOMAIN PerSecondPenalty ->
            PerSecondPenalty[TypeOf[e]] * (IF Seconds[e] < MaxEventSeconds THEN Seconds[e]
                                           ELSE MaxEventSeconds)
      [] TypeOf[e] \in DOMAIN PerEventPenalty -> PerEventPenalty[TypeOf[e]]
      [] OTHER -> 0

\* compute_integrity, in half points.
ScoreOf(S) ==
    LET penalty == MapThenSumSet(Penalty, S) IN IF penalty < 200 THEN 200 - penalty ELSE 0

SummaryOf(S) == [of |-> S, score |-> ScoreOf(S)]

\* Null columns: this interview or attempt was not proctored yet.
NoSummary == [of |-> {}, score |-> -1]

ProctoringInit ==
    /\ raised = {} /\ queue = {} /\ open = TRUE /\ stored = {}
    /\ pc = [r \in Post |-> "idle"]
    /\ batch = [r \in Post |-> {}]
    /\ read = [r \in Post |-> {}]
    /\ summary = NoSummary

PostGoes(r, from, to) == pc[r] = from /\ pc' = [pc EXCEPT ![r] = to]

-----------------------------------------------------------------------------
(* The browser.                                                             *)

Raises(e) ==
    /\ e \notin raised
    /\ raised' = raised \cup {e} /\ queue' = queue \cup {e}
    /\ UNCHANGED <<pc, batch, read, open, stored, summary>>

\* A flush empties the queue before it posts; the first post carries nothing.
Posts(r) ==
    /\ PostGoes(r, "idle", "sent")
    /\ \/ queue # {} /\ batch' = [batch EXCEPT ![r] = queue] /\ queue' = {}
       \/ UNCHANGED <<queue, batch>>
    /\ UNCHANGED <<raised, read, open, stored, summary>>

\* postIntegrityEvents swallows the error: the batch is not queued again.
Lost(r) ==
    /\ PostGoes(r, "sent", "gone")
    /\ UNCHANGED <<raised, queue, batch, read, open, stored, summary>>

-----------------------------------------------------------------------------
(* The server.                                                              *)

\* The check of the consent, or of the attempt.
Inserts(r) ==
    /\ open /\ PostGoes(r, "sent", "inserted")
    /\ UNCHANGED <<raised, queue, batch, read, open, stored, summary>>

Refused(r) ==
    /\ ~open /\ PostGoes(r, "sent", "gone")
    /\ UNCHANGED <<raised, queue, batch, read, open, stored, summary>>

Requeries(r) ==
    /\ PostGoes(r, "inserted", "scoring")
    /\ read' = [read EXCEPT ![r] = stored \cup batch[r]]
    /\ UNCHANGED <<raised, queue, batch, open, stored, summary>>

PostCommits(r) ==
    /\ PostGoes(r, "scoring", "answered")
    /\ stored' = stored \cup batch[r]
    /\ summary' = SummaryOf(read[r])
    /\ UNCHANGED <<raised, queue, batch, read, open>>

Fails(r) ==
    /\ PostGoes(r, "inserted", "gone") \/ PostGoes(r, "scoring", "gone")
    /\ UNCHANGED <<raised, queue, batch, read, open, stored, summary>>

\* The candidate withdraws the consent, or submits the attempt.
Closes ==
    /\ open /\ open' = FALSE
    /\ UNCHANGED <<raised, queue, pc, batch, read, stored, summary>>

ProctoringNext ==
    \/ \E e \in Event : Raises(e)
    \/ \E r \in Post : \/ Posts(r) \/ Lost(r) \/ Inserts(r) \/ Refused(r)
                       \/ Requeries(r) \/ PostCommits(r) \/ Fails(r)
    \/ Closes

ProctoringSpec == ProctoringInit /\ [][ProctoringNext]_proctoringVars

-----------------------------------------------------------------------------

(* However requests overlap, the score shown is that of a set of events that     *)
(* are stored, and of no others.                                                *)
ScoreIsOfStored ==
    \/ summary = NoSummary
    \/ summary.of \subseteq stored /\ summary.score = ScoreOf(summary.of)

(* No event is counted twice: requests carry disjoint batches, none of them still  *)
(* queued, and each is stored as a whole by the request that carries it, or not   *)
(* at all.                                                                      *)
BatchesAreWhole ==
    /\ \A r \in Post : /\ batch[r] \cap queue = {}
                       /\ pc[r] = "answered" => batch[r] \subseteq stored
                       /\ pc[r] # "answered" => batch[r] \cap stored = {}
    /\ \A r, q \in Post : batch[r] \cap batch[q] # {} => r = q

(* "So it is always current": once no request is in progress, the summary is of    *)
(* all the events stored.                                                        *)
ScoreIsCurrent ==
    (\A r \in Post : pc[r] \notin {"inserted", "scoring"}) => summary.of = stored
================================================================================
