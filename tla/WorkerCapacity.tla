----------------------------- MODULE WorkerCapacity -----------------------------
(***************************************************************************)
(* interview_core worker_capacity.py, the admission of                     *)
(* worker/interview_worker.py and the capacity check of routers/rooms.py:  *)
(* how many interviews run at a time.                                      *)
(*                                                                         *)
(* The framework asks _request_fnc, in the main process of the worker,      *)
(* whether a job is taken, and starts the entrypoint of an accepted job     *)
(* later, in an executor of its own: a thread of the main process or a      *)
(* process of the job (ExecutorOf).  _active_jobs is a variable of the      *)
(* module, so each process has one.                                        *)
(*                                                                         *)
(* Every change of the counter is written to Redis over a connection of its *)
(* own; the write may be lost or overtaken by another, and the key expires. *)
(***************************************************************************)
EXTENDS Integers, FiniteSets

CONSTANTS
    Interview,            \* one interview each
    Process,        \* processes that have a copy of the module
    Main,           \* the one that answers the framework
    ExecutorOf,     \* the process in which each job runs
    Cap,            \* worker_max_concurrent_jobs, 0 for no ceiling
    JobMemory,      \* job_memory_limit_mb, 0 for no estimate
    MemoryLimit,    \* container_memory_limit_mb, 0 for no estimate
    NoValue

VARIABLES
    stage,      \* where each interview stands
    activeJobs,     \* _active_jobs of each process
    key,        \* worker:active_jobs in Redis
    sending     \* the value each job is writing to Redis

capacityVars == <<stage, activeJobs, key, sending>>

Stage == {"asking", "turned_away", "joining", "rejected", "accepted", "running", "ended", "uncounted",
          "killed"}

RunningNow == {j \in Interview : stage[j] = "running"}
PlacedOn(p) == {j \in Interview : ExecutorOf[j] = p}

\* The jobs that raised a counter and have not lowered it.
CountedStage == {"running", "uncounted"}
CountedOn(p) == {j \in PlacedOn(p) : stage[j] \in CountedStage}

CapacityTypeOK ==
    /\ stage \in [Interview -> Stage]
    /\ activeJobs \in [Process -> Nat]
    /\ key \in Nat \cup {NoValue}
    /\ sending \in [Interview -> Nat \cup {NoValue}]

CapacityInit ==
    /\ stage = [j \in Interview |-> "asking"]
    /\ activeJobs = [p \in Process |-> 0]
    /\ key = NoValue
    /\ sending = [j \in Interview |-> NoValue]

Goes(j, from, to) == stage[j] = from /\ stage' = [stage EXCEPT ![j] = to]

-----------------------------------------------------------------------------
(* create_room_token.                                                       *)

\* An absent key, or an error of Redis, lets the candidate through.
TokenIssued(j) ==
    /\ Goes(j, "asking", "joining")
    /\ UNCHANGED <<activeJobs, key, sending>>

TurnedAway(j) ==
    /\ Cap > 0 /\ key # NoValue /\ key >= Cap
    /\ Goes(j, "asking", "turned_away")
    /\ UNCHANGED <<activeJobs, key, sending>>

-----------------------------------------------------------------------------
(* The worker.  Each job writes one value at a time.                        *)

Full(n) ==
    \/ Cap > 0 /\ n >= Cap
    \/ JobMemory > 0 /\ MemoryLimit > 0 /\ (n + 1) * JobMemory > MemoryLimit

\* _publish_capacity.
Announces(j, n) == sending' = [sending EXCEPT ![j] = n]

\* _request_fnc.
Rejects(j) ==
    /\ Full(activeJobs[Main])
    /\ Goes(j, "joining", "rejected")
    /\ Announces(j, activeJobs[Main])
    /\ UNCHANGED <<activeJobs, key>>

Accepts(j) ==
    /\ ~Full(activeJobs[Main])
    /\ Goes(j, "joining", "accepted")
    /\ UNCHANGED <<activeJobs, key, sending>>

\* entrypoint.
Starts(j) ==
    /\ Goes(j, "accepted", "running")
    /\ activeJobs' = [activeJobs EXCEPT ![ExecutorOf[j]] = @ + 1]
    /\ Announces(j, activeJobs'[ExecutorOf[j]])
    /\ UNCHANGED key

\* _active_jobs_decrement.
Fewer(n) == IF n = 0 THEN 0 ELSE n - 1

\* _decrement_job_counter, which entrypoint registers once its first write is over.
Ends(j) ==
    /\ sending[j] = NoValue
    /\ Goes(j, "running", "ended")
    /\ activeJobs' = [activeJobs EXCEPT ![ExecutorOf[j]] = Fewer(@)]
    /\ Announces(j, activeJobs'[ExecutorOf[j]])
    /\ UNCHANGED key

\* The job is shut down during its first write: no decrement is registered yet.
EndsUncounted(j) ==
    /\ sending[j] # NoValue
    /\ Goes(j, "running", "uncounted")
    /\ UNCHANGED <<activeJobs, key, sending>>

\* publish_active_jobs: the write lands, or fails and is forgotten.
Publishes(j) ==
    /\ sending[j] # NoValue
    /\ key' \in {sending[j], key}
    /\ sending' = [sending EXCEPT ![j] = NoValue]
    /\ UNCHANGED <<stage, activeJobs>>

\* The key is not refreshed between two changes of a counter.
KeyExpires ==
    /\ key # NoValue /\ key' = NoValue
    /\ UNCHANGED <<stage, activeJobs, sending>>

\* A process is killed, the main one with all of the others; the next starts from zero.
Dies(p) == IF p = Main THEN Process ELSE {p}

ProcessDies(p) ==
    /\ stage' = [j \in Interview |-> IF /\ stage[j] \in {"accepted", "running", "uncounted"}
                                        /\ ExecutorOf[j] \in Dies(p)
                                     THEN "killed" ELSE stage[j]]
    /\ activeJobs' = [q \in Process |-> IF q \in Dies(p) THEN 0 ELSE activeJobs[q]]
    /\ sending' = [j \in Interview |-> IF ExecutorOf[j] \in Dies(p) THEN NoValue ELSE sending[j]]
    /\ UNCHANGED key

CapacityNext ==
    \/ \E j \in Interview :
          \/ TokenIssued(j) \/ TurnedAway(j) \/ Rejects(j) \/ Accepts(j)
          \/ Starts(j) \/ Ends(j) \/ EndsUncounted(j) \/ Publishes(j)
    \/ KeyExpires
    \/ \E p \in Process : ProcessDies(p)

CapacitySpec == CapacityInit /\ [][CapacityNext]_capacityVars

-----------------------------------------------------------------------------

\* What the code relies on: finitely many jobs, each in a process.
Placed == IsFiniteSet(Interview) /\ Main \in Process /\ ExecutorOf \in [Interview -> Process] /\ NoValue \notin Nat

(* The counter of a process is the number of interviews that run in it, and of     *)
(* those that were shut down before their decrement was registered: it never        *)
(* sticks at zero, and drifts upwards only by the latter.                           *)
CounterIsExact ==
    \A p \in Process : activeJobs[p] = Cardinality(CountedOn(p))

(* A number in Redis, or on its way there, counts the interviews of one process:     *)
(* with a process per job it is never more than one, however many are running.      *)
PublishedIsOneProcess ==
    /\ key # NoValue => \E p \in Process : key <= Cardinality(PlacedOn(p))
    /\ \A j \in Interview :
          sending[j] # NoValue => \E p \in Process : sending[j] <= Cardinality(PlacedOn(p))

\* The default executor of the framework, which run() does not change.
ProcessPerJob ==
    \A i, j \in Interview : ExecutorOf[i] # Main /\ (ExecutorOf[i] = ExecutorOf[j] => i = j)

(* "A candidate gets a 503 rather than a dead room": no job is rejected whose      *)
(* candidate was given a token.  With a process per job it holds, because the       *)
(* counter the main process compares stays at zero; with threads it does not.       *)
NoDeadRoom == \A j \in Interview : stage[j] # "rejected"

(* With a process per job and a ceiling above one nobody is told to come back        *)
(* later, however many interviews are running.                                     *)
NobodyIsTurnedAway == \A j \in Interview : stage[j] # "turned_away"

(* "Reject jobs over the ceiling": no more interviews run than the ceiling.       *)
CeilingHolds == Cap > 0 => Cardinality(RunningNow) <= Cap
================================================================================
