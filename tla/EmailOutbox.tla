------------------------------ MODULE EmailOutbox ------------------------------
(***************************************************************************)
(* data_gateway mailer.py: the email_events outbox and the worker tasks    *)
(* that drain it, one per replica of the service.                          *)
(*                                                                         *)
(* A worker claims a batch in one transaction, then hands the mails of the *)
(* batch to the SMTP relay one after the other, outside any transaction,   *)
(* and records each outcome in a transaction of its own.  Nothing ties the *)
(* record to the claim: the updates go by id alone, so a worker that was   *)
(* slow enough to have its row reclaimed still writes its outcome.         *)
(***************************************************************************)
EXTENDS Integers, FiniteSets

CONSTANTS
    Worker,         \* replicas draining the outbox
    NumEmails,      \* bound: rows ever enqueued, numbered by created_at
    MaxAttempts,    \* email_max_attempts
    BatchSize,      \* email_batch_size
    MayCrash        \* a worker may be killed or cancelled during a batch

ASSUME WorkerAssumption == IsFiniteSet(Worker)
ASSUME BoundAssumption == NumEmails \in Nat /\ MaxAttempts \in Nat \ {0}
ASSUME BatchAssumption == BatchSize \in Nat \ {0}
ASSUME CrashAssumption == MayCrash \in BOOLEAN

VARIABLES
    row,        \* email_events
    waiting,    \* rows whose next_attempt_at lies in the future
    stale,      \* rows whose updated_at is older than the visibility timeout
    batch,      \* payloads each worker has claimed and not yet handed over
    outcome,    \* what the relay answered for the payload in hand
    copies      \* mails the relay accepted: with their body, and empty

vars == <<row, waiting, stale, batch, outcome, copies>>

Email == 1..NumEmails
Status == {"none", "queued", "sending", "sent", "failed", "purged"}
Pending == {"queued", "sending"}
Settled == {"sent", "failed", "purged"}

\* A payload carries the attempts and the body read when it was claimed.
Payload == [id : Email, attempts : 1..MaxAttempts, body : BOOLEAN]
NoOutcome == [answer |-> "none"]
Answered == [answer : {"ok", "error"}, payload : Payload]

TypeOK ==
    /\ row \in [Email -> [status : Status, attempts : 0..MaxAttempts, body : BOOLEAN]]
    /\ waiting \subseteq Email
    /\ stale \subseteq Email
    /\ batch \in [Worker -> SUBSET Payload]
    /\ outcome \in [Worker -> Answered \cup {NoOutcome}]
    /\ copies \in [Email -> [full : Nat, empty : Nat]]

Init ==
    /\ row = [e \in Email |-> [status |-> "none", attempts |-> 0, body |-> FALSE]]
    /\ waiting = {}
    /\ stale = {}
    /\ batch = [w \in Worker |-> {}]
    /\ outcome = [w \in Worker |-> NoOutcome]
    /\ copies = [e \in Email |-> [full |-> 0, empty |-> 0]]

-----------------------------------------------------------------------------
(* enqueue_email: the row appears when the caller's transaction commits.    *)

Enqueue(e) ==
    /\ row[e].status = "none"
    /\ row' = [row EXCEPT ![e] = [status |-> "queued", attempts |-> 0, body |-> TRUE]]
    /\ UNCHANGED <<waiting, stale, batch, outcome, copies>>

-----------------------------------------------------------------------------
(* Time: the backoff elapses, a claim outlives the visibility timeout.      *)

BackoffElapses(e) ==
    /\ e \in waiting
    /\ waiting' = waiting \ {e}
    /\ UNCHANGED <<row, stale, batch, outcome, copies>>

ClaimGoesStale(e) ==
    /\ row[e].status = "sending" /\ e \notin stale
    /\ stale' = stale \cup {e}
    /\ UNCHANGED <<row, waiting, batch, outcome, copies>>

-----------------------------------------------------------------------------
(* _claim_batch: one transaction; the oldest due rows first.                *)

\* Mutant: a row left in sending is never taken back.
DueQueuedOnly(e) ==
    /\ row[e].attempts < MaxAttempts
    /\ row[e].status \in {"queued", "failed"} /\ e \notin waiting

Due(e) ==
    /\ row[e].attempts < MaxAttempts
    /\ \/ row[e].status \in {"queued", "failed"} /\ e \notin waiting
       \/ row[e].status = "sending" /\ e \in stale

\* The BatchSize oldest due rows.
Claimable == {e \in Email : Due(e) /\ Cardinality({f \in Email : Due(f) /\ f < e}) < BatchSize}

Busy(w) == batch[w] # {} \/ outcome[w] # NoOutcome

Claim(w) ==
    /\ ~Busy(w) /\ Claimable # {}
    /\ row' = [e \in Email |-> IF e \in Claimable
                               THEN [row[e] EXCEPT !.status = "sending", !.attempts = @ + 1]
                               ELSE row[e]]
    /\ stale' = stale \ Claimable
    /\ batch' = [batch EXCEPT ![w] =
          {[id |-> e, attempts |-> row[e].attempts + 1, body |-> row[e].body] : e \in Claimable}]
    /\ UNCHANGED <<waiting, outcome, copies>>

-----------------------------------------------------------------------------
(* _drain: deliver_smtp, then the outcome.                                  *)

Accepted(p) ==
    \/ p.body /\ copies' = [copies EXCEPT ![p.id].full = @ + 1]
    \/ ~p.body /\ copies' = [copies EXCEPT ![p.id].empty = @ + 1]

\* Mutant: a mail the relay refused stays in the batch and is tried again at once.
DeliverRetriesInPlace(w, p) ==
    /\ p \in batch[w] /\ outcome[w] = NoOutcome
    /\ UNCHANGED batch
    /\ \E answer \in {"ok", "error"} :
         /\ outcome' = [outcome EXCEPT ![w] = [answer |-> answer, payload |-> p]]
         /\ \/ Accepted(p)
            \/ answer = "error" /\ UNCHANGED copies
    /\ UNCHANGED <<row, waiting, stale>>

\* The relay may accept the mail and the call still raise.
Deliver(w, p) ==
    /\ p \in batch[w] /\ outcome[w] = NoOutcome
    /\ batch' = [batch EXCEPT ![w] = @ \ {p}]
    /\ \E answer \in {"ok", "error"} :
         /\ outcome' = [outcome EXCEPT ![w] = [answer |-> answer, payload |-> p]]
         /\ \/ Accepted(p)
            \/ answer = "error" /\ UNCHANGED copies
    /\ UNCHANGED <<row, waiting, stale>>

\* Mutant: an error of the relay is recorded like a success.
RecordSentAlways(w) ==
    LET p == outcome[w].payload
    IN /\ outcome[w] # NoOutcome
       /\ row' = IF row[p.id].status = "purged" THEN row
                 ELSE [row EXCEPT ![p.id].status = "sent", ![p.id].body = FALSE]
       /\ stale' = stale \ {p.id}
       /\ outcome' = [outcome EXCEPT ![w] = NoOutcome]
       /\ UNCHANGED <<waiting, batch, copies>>

\* _record_sent: an update by id, which finds no row once it is purged.
RecordSent(w) ==
    LET p == outcome[w].payload
    IN /\ outcome[w].answer = "ok"
       /\ row' = IF row[p.id].status = "purged" THEN row
                 ELSE [row EXCEPT ![p.id].status = "sent", ![p.id].body = FALSE]
       /\ stale' = stale \ {p.id}
       /\ outcome' = [outcome EXCEPT ![w] = NoOutcome]
       /\ UNCHANGED <<waiting, batch, copies>>

\* Mutant: the last attempt but one is taken for the last.
TerminalEarly(p) == p.attempts + 1 >= MaxAttempts

Terminal(p) == p.attempts >= MaxAttempts

FailureStatus(p) == IF Terminal(p) THEN "failed" ELSE "queued"

\* _record_failure, with the attempts of the claim and not of the row.
RecordFailure(w) ==
    LET p == outcome[w].payload
    IN /\ outcome[w].answer = "error"
       /\ IF row[p.id].status = "purged" THEN UNCHANGED <<row, waiting>>
          ELSE /\ row' = [row EXCEPT ![p.id].status = FailureStatus(p)]
               /\ waiting' = waiting \cup {p.id}
       /\ stale' = stale \ {p.id}
       /\ outcome' = [outcome EXCEPT ![w] = NoOutcome]
       /\ UNCHANGED <<batch, copies>>

Loses(w) ==
    /\ batch' = [batch EXCEPT ![w] = {}]
    /\ outcome' = [outcome EXCEPT ![w] = NoOutcome]
    /\ UNCHANGED <<row, waiting, stale, copies>>

\* The worker is killed, or cancelled by stop_email_worker, or the outcome cannot
\* be written (the error leaves _drain): the rest of its batch stays 'sending'.
Crash(w) ==
    /\ MayCrash /\ Busy(w)
    /\ Loses(w)

-----------------------------------------------------------------------------
(* purge_old_email_events: delivered and failed rows past their retention.  *)

Purge(e) ==
    /\ row[e].status \in {"sent", "failed"}
    /\ row' = [row EXCEPT ![e].status = "purged", ![e].body = FALSE]
    /\ UNCHANGED <<waiting, stale, batch, outcome, copies>>

-----------------------------------------------------------------------------

WorkerStep(w) ==
    \/ Claim(w)
    \/ \E p \in batch[w] : Deliver(w, p)
    \/ RecordSent(w) \/ RecordFailure(w)

Next ==
    \/ \E e \in Email : \/ Enqueue(e) \/ BackoffElapses(e) \/ ClaimGoesStale(e)
                        \/ Purge(e)
    \/ \E w \in Worker : WorkerStep(w) \/ Crash(w)

Spec == Init /\ [][Next]_vars

\* Time passes, and the loop of every replica polls for ever: main starts it
\* with the service, and an exception does not end it.
FairSpec ==
    /\ Spec
    /\ \A e \in Email : WF_vars(BackoffElapses(e)) /\ WF_vars(ClaimGoesStale(e))
    /\ \A w \in Worker : WF_vars(WorkerStep(w))

-----------------------------------------------------------------------------
(* Properties.                                                              *)

\* However often a slow or killed worker has its rows reclaimed, a mail is handed
\* out at most once per attempt counted on its row, and never more than max_attempts.
CopiesWithinAttempts ==
    \A e \in Email : copies[e].full + copies[e].empty <= row[e].attempts

\* The body, with the magic link in it, is dropped only after the relay has accepted
\* a mail that carried it, or with a row that was given up: no interleaving of a late
\* outcome and a reclaim delivers nothing but empty mails.
BodyOutlivesDelivery ==
    \A e \in Email :
        /\ row[e].status = "sent" => copies[e].full > 0
        /\ row[e].status \in Pending /\ ~row[e].body => copies[e].full > 0
        /\ copies[e].empty > 0 => copies[e].full > 0

\* A mail is given up only when all its attempts are used, even if the failure is
\* recorded by a worker whose claim had been taken over.
GivenUpOnlyWhenExhausted ==
    \A e \in Email :
        /\ row[e].status = "failed" => row[e].attempts = MaxAttempts
        /\ row[e].status = "purged" =>
              row[e].attempts = MaxAttempts \/ copies[e].full > 0

\* Below the last attempt a row never stays where it is: whichever workers die or
\* record late, a queued or stuck row is claimed again or settles.
StuckIsReclaimed ==
    \A e \in Email : \A n \in 0..(MaxAttempts - 1) :
        (row[e].status \in Pending /\ row[e].attempts = n)
            ~> (row[e].status \in Settled \/ row[e].attempts > n)

\* Every mail that is enqueued ends up sent or failed.  "Crash-safe: a row stuck in
\* 'sending' past a visibility timeout is reclaimed" and "safe across replicas" promise
\* it; it fails on the last attempt, when the worker dies, or when the failure of an
\* earlier claim is recorded late and re-queues a row that has no attempt left.
EveryEmailSettles ==
    \A e \in Email : (row[e].status = "queued") ~> (row[e].status \in Settled)

-----------------------------------------------------------------------------
(* Refinement: claims, payloads, outcomes and timers implement MailPromise.  *)

StageOf(status) == IF status \in Pending THEN "open" ELSE status

MailOf(e) == [stage |-> StageOf(row[e].status), tries |-> row[e].attempts,
              full |-> copies[e].full, empty |-> copies[e].empty]

Promise == INSTANCE MailPromise WITH mail <- [e \in Email |-> MailOf(e)]

\* Every step of every worker, also of one whose claim was taken over or which records
\* late, is a step MailPromise allows: no copy without a try of its own, no empty copy
\* before a full one, nothing confirmed undelivered, nothing given up early.
KeepsPromise == Promise!Spec

===============================================================================
