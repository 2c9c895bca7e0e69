----------------------------- MODULE CodeExecution -----------------------------
(***************************************************************************)
(* The coding round's runner (data_gateway coding_grader.py, execution.py, *)
(* piston_client.py, jdoodle_client.py): each call of run_tests runs its   *)
(* tests under a semaphore of its own; a run resolves the language once    *)
(* per process (Piston), posts the program, retries what may pass, and     *)
(* never waits for the other calls.                                        *)
(***************************************************************************)
EXTENDS Integers, FiniteSets, FiniteSetsExt

CONSTANTS
    Call,           \* calls of run_tests: a Run button, or one question being graded
    Grading,        \* those that grade
    Test,           \* the test cases
    Selected,       \* the tests each call runs
    Language,       \* LANGUAGES
    LanguageOf,     \* the language each call asks for
    Allowed,        \* the calls whose question allows that language
    Provider,       \* EXECUTION_PROVIDER: "piston" or "jdoodle"
    Concurrency,    \* code_grade_concurrency
    MaxAttempts,    \* _MAX_ATTEMPTS
    Weight,         \* the weight of each test
    Points          \* the points of the question

VARIABLES
    outcome,    \* where each call stands
    score,      \* what weighted_raw made of it
    permits,    \* the semaphore of each call
    pc,         \* where each run stands
    attempt,    \* its posts so far
    result,     \* its CodingTestResult
    offered,    \* external: the languages the Piston server has installed
    cache       \* _runtime_cache

codeVars == <<outcome, score, permits, pc, attempt, result, offered, cache>>

Run == {r \in Call \X Test : r[2] \in Selected[r[1]]}
Outcome == {"new", "running", "answered", "raised", "refused"}
Stage == {"ready", "looking", "waiting", "loading", "posting", "backoff", "done"}
Verdict == {"passed", "differs", "timed_out", "error"}
Result == Verdict \cup {"none", "raised"}

NotLoaded == {"not loaded"}
NoScore == -1

RunsOf(c) == {r \in Run : r[1] = c}
Holding(c) == {r \in RunsOf(c) : pc[r] \notin {"ready", "done"}}
Posting == {r \in Run : pc[r] = "posting"}

CodeInit ==
    /\ outcome = [c \in Call |-> "new"]
    /\ score = [c \in Call |-> NoScore]
    /\ permits = [c \in Call |-> Concurrency]
    /\ pc = [r \in Run |-> "ready"]
    /\ attempt = [r \in Run |-> 0]
    /\ result = [r \in Run |-> "none"]
    /\ offered \in SUBSET Language
    /\ cache = NotLoaded

Goes(r, from, to) == pc[r] = from /\ pc' = [pc EXCEPT ![r] = to]

\* Leaving the semaphore's block with a result.
Ends(r, from, v) ==
    /\ Goes(r, from, "done")
    /\ result' = [result EXCEPT ![r] = v]
    /\ permits' = [permits EXCEPT ![r[1]] = @ + 1]

-----------------------------------------------------------------------------
(* The calls.                                                               *)

Begins(c) ==
    /\ outcome[c] = "new" /\ c \in Allowed
    /\ outcome' = [outcome EXCEPT ![c] = "running"]
    /\ UNCHANGED <<score, permits, pc, attempt, result, offered, cache>>

\* The language is not allowed, or no attempt is open.
Refuses(c) ==
    /\ outcome[c] = "new"
    /\ outcome' = [outcome EXCEPT ![c] = "refused"]
    /\ UNCHANGED <<score, permits, pc, attempt, result, offered, cache>>

WeightOf(S) == MapThenSumSet(LAMBDA r : Weight[r[2]], S)

\* Python's round of n / d: to the nearest, halves to even.
Rounded(n, d) ==
    LET q == n \div d
        over == 2 * (n % d)
    IN IF over > d \/ (over = d /\ q % 2 = 1) THEN q + 1 ELSE q

\* weighted_raw.
Raw(c) ==
    LET passed == {r \in RunsOf(c) : result[r] = "passed"}
    IN IF WeightOf(RunsOf(c)) <= 0 THEN 0
       ELSE Rounded(Points * WeightOf(passed), WeightOf(RunsOf(c)))

\* gather waits for all the runs, when none of them raises.
Gathers(c) ==
    /\ outcome[c] = "running"
    /\ \A r \in RunsOf(c) : result[r] \in Verdict
    /\ outcome' = [outcome EXCEPT ![c] = "answered"]
    /\ IF c \in Grading THEN score' = [score EXCEPT ![c] = Raw(c)] ELSE UNCHANGED score
    /\ UNCHANGED <<permits, pc, attempt, result, offered, cache>>

-----------------------------------------------------------------------------
(* The runs.                                                                *)

\* The semaphore has a permit; the provider is dispatched on.
CallStarts(r) ==
    /\ outcome[r[1]] \in {"running", "raised"} /\ permits[r[1]] > 0
    /\ permits' = [permits EXCEPT ![r[1]] = @ - 1]
    /\ \/ Provider = "piston" /\ Goes(r, "ready", "looking") /\ UNCHANGED attempt
       \/ /\ Provider = "jdoodle" /\ Goes(r, "ready", "posting")
          /\ attempt' = [attempt EXCEPT ![r] = 1]
    /\ UNCHANGED <<outcome, score, result, offered, cache>>

\* The version is known: post.
Resolves(r, from) ==
    /\ cache # NotLoaded /\ LanguageOf[r[1]] \in cache
    /\ Goes(r, from, "posting")
    /\ attempt' = [attempt EXCEPT ![r] = 1]
    /\ UNCHANGED <<outcome, score, permits, result, offered, cache>>

\* "execution runtime unavailable".
Unresolved(r, from) ==
    /\ cache # NotLoaded /\ LanguageOf[r[1]] \notin cache
    /\ Ends(r, from, "error")
    /\ UNCHANGED <<outcome, score, attempt, offered, cache>>

Queues(r) ==
    /\ cache = NotLoaded /\ Goes(r, "looking", "waiting")
    /\ UNCHANGED <<outcome, score, permits, attempt, result, offered, cache>>

LockIsFree == \A r \in Run : pc[r] # "loading"

\* The lock is granted; the waiters' order is left open.
Granted(r) ==
    /\ LockIsFree
    /\ \/ Resolves(r, "waiting") \/ Unresolved(r, "waiting")
       \/ /\ cache = NotLoaded /\ Goes(r, "waiting", "loading")
          /\ UNCHANGED <<outcome, score, permits, attempt, result, offered, cache>>

Loads(r) ==
    /\ cache' = offered
    /\ IF LanguageOf[r[1]] \in offered
       THEN /\ Goes(r, "loading", "posting")
            /\ attempt' = [attempt EXCEPT ![r] = 1]
            /\ UNCHANGED <<permits, result>>
       ELSE Ends(r, "loading", "error") /\ UNCHANGED attempt
    /\ UNCHANGED <<outcome, score, offered>>

\* Not cached: the next run asks again.
LoadFails(r) ==
    /\ Ends(r, "loading", "error")
    /\ UNCHANGED <<outcome, score, attempt, offered, cache>>

\* Status 200: _parse and _evaluate; or a status that is not retried.
Answered(r, v) ==
    /\ Ends(r, "posting", v)
    /\ UNCHANGED <<outcome, score, attempt, offered, cache>>

\* No connection, or a status that is retried.
Fails(r) ==
    /\ IF attempt[r] < MaxAttempts
       THEN Goes(r, "posting", "backoff") /\ UNCHANGED <<permits, result>>
       ELSE Ends(r, "posting", "error")
    /\ UNCHANGED <<outcome, score, attempt, offered, cache>>

Reposts(r) ==
    /\ Goes(r, "backoff", "posting")
    /\ attempt' = [attempt EXCEPT ![r] = @ + 1]
    /\ UNCHANGED <<outcome, score, permits, result, offered, cache>>

\* Status 200 and a body that is no JSON: the ValueError leaves run_code, and gather
\* raises it in its caller at once. The other runs go on.
Garbled(r) ==
    /\ Ends(r, "posting", "raised")
    /\ outcome' = [outcome EXCEPT ![r[1]] = IF @ = "running" THEN "raised" ELSE @]
    /\ UNCHANGED <<score, attempt, offered, cache>>

Installs(l) ==
    /\ offered' = offered \cup {l}
    /\ UNCHANGED <<outcome, score, permits, pc, attempt, result, cache>>

CodeNext ==
    \/ \E c \in Call : Begins(c) \/ Refuses(c) \/ Gathers(c)
    \/ \E r \in Run : \/ CallStarts(r) \/ Resolves(r, "looking") \/ Unresolved(r, "looking")
                      \/ Queues(r) \/ Granted(r) \/ Loads(r) \/ LoadFails(r)
                      \/ \E v \in Verdict : Answered(r, v)
                      \/ Fails(r) \/ Reposts(r) \/ Garbled(r)
    \/ \E l \in Language : Installs(l)

CodeSpec == CodeInit /\ [][CodeNext]_codeVars

-----------------------------------------------------------------------------

CodeTypeOK ==
    /\ outcome \in [Call -> Outcome]
    /\ DOMAIN score = Call
    /\ permits \in [Call -> Nat]
    /\ pc \in [Run -> Stage]
    /\ attempt \in [Run -> 0..MaxAttempts]
    /\ \A r \in Run : pc[r] = "backoff" => attempt[r] < MaxAttempts
    /\ result \in [Run -> Result]
    /\ offered \in SUBSET Language
    /\ cache \in (SUBSET Language) \cup {NotLoaded}

\* A run has a result when it is done, and not before.
ResultWhenDone == \A r \in Run : pc[r] = "done" <=> result[r] # "none"

(* A permit is never lost, whatever a run ends with, and never given back twice:   *)
(* at most Concurrency runs of a call are under way.                             *)
PermitsAreExact == \A c \in Call : permits[c] + Cardinality(Holding(c)) = Concurrency

(* "Double-checked after acquiring the lock": one run at a time asks for the       *)
(* runtimes, and none does once they are known.                                  *)
OneLoader ==
    /\ \A r, q \in Run : pc[r] = "loading" /\ pc[q] = "loading" => r = q
    /\ cache # NotLoaded => LockIsFree

(* A score is that of the results of all the tests: no run of a graded call is     *)
(* still under way, and none raised.                                             *)
ScoresAreFinal ==
    \A c \in Call : score[c] # NoScore =>
        /\ score[c] = Raw(c)
        /\ \A r \in RunsOf(c) : pc[r] = "done" /\ result[r] \in Verdict

(* "Without exceeding the shared runner's rate limit": no more than Concurrency     *)
(* programs are posted at once.                                                  *)
SharedBound == Cardinality(Posting) <= Concurrency

(* "Never raises".                                                              *)
NeverRaises == \A c \in Call : outcome[c] # "raised"

(* "A candidate is never rounded up across the threshold": the score of a coding    *)
(* question is no more than the share of the weight that passed.                 *)
NeverRoundedUp ==
    \A c \in Call : score[c] # NoScore =>
        score[c] * WeightOf(RunsOf(c)) <=
            Points * WeightOf({r \in RunsOf(c) : result[r] = "passed"})

(* A run fails for want of a runtime only when the server does not have it: what   *)
(* one load found does not go stale.                                             *)
InstalledIsRun ==
    [][\A r \in Run : pc[r] \in {"looking", "waiting"} /\ result'[r] = "error"
            => LanguageOf[r[1]] \notin offered]_codeVars
================================================================================
