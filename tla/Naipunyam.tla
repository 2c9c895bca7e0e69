------------------------------- MODULE Naipunyam -------------------------------
(***************************************************************************)
(* data_gateway naipunyam/ and routers/sso_naipunyam.py: sign-in through    *)
(* the Naipunyam service, behind the in-process circuit breaker that all    *)
(* clients of the process share.                                           *)
(*                                                                         *)
(* The breaker is consulted under its lock, the call is made outside of it, *)
(* and its result is taken note of under the lock again: by then other      *)
(* calls may have opened, half-opened or closed the breaker.               *)
(*                                                                         *)
(* The code exchange and the client's own token are fetched outside the     *)
(* breaker.  An answer of the service counts as a success whatever its      *)
(* status; only a call that raises counts as a failure.                     *)
(***************************************************************************)
EXTENDS Integers, FiniteSets

CONSTANTS
    Callback,            \* callbacks in progress
    Uid,                \* accounts of the Naipunyam service
    FailureThreshold,   \* failure_threshold
    HalfOpenMaxCalls    \* half_open_max_calls

VARIABLES
    state,      \* _state
    failures,   \* _failure_count
    successes,  \* _half_open_successes
    timer,      \* "elapsed" once recovery_timeout has passed since _opened_at
    pc,         \* where each callback stands
    who,        \* naipunyam_uid
    users       \* accounts of the service that have a row in users

breaker == <<state, failures, successes, timer>>
naipunyamVars == <<state, failures, successes, timer, pc, who, users>>

State == {"closed", "open", "half_open"}
Stage == {"idle", "exchanged", "calling", "flying", "fetched", "upserted",
          "done", "unavailable", "failed"}

Flying == {r \in Callback : pc[r] = "flying"}

NaipunyamTypeOK ==
    /\ state \in State
    /\ failures \in Nat /\ successes \in Nat /\ timer \in {"running", "elapsed"}
    /\ pc \in [Callback -> Stage]
    /\ who \in [Callback -> Uid \cup {"nobody"}]
    /\ users \subseteq Uid

NaipunyamInit ==
    /\ state = "closed" /\ failures = 0 /\ successes = 0 /\ timer = "running"
    /\ pc = [r \in Callback |-> "idle"]
    /\ who = [r \in Callback |-> "nobody"]
    /\ users = {}

CallbackGoes(r, from, to) == pc[r] = from /\ pc' = [pc EXCEPT ![r] = to]

-----------------------------------------------------------------------------
(* The breaker.                                                             *)

RecoveryElapses ==
    /\ state = "open" /\ timer = "running" /\ timer' = "elapsed"
    /\ UNCHANGED <<state, failures, successes, pc, who, users>>

\* _maybe_transition.
Due == state = "open" /\ timer = "elapsed"

\* call, up to the release of the lock.
Rejected(r) ==
    /\ state = "open" /\ timer = "running"
    /\ CallbackGoes(r, "calling", "unavailable")
    /\ UNCHANGED <<breaker, who, users>>

Admitted(r) ==
    /\ CallbackGoes(r, "calling", "flying")
    /\ \/ /\ Due /\ state' = "half_open" /\ successes' = 0 /\ timer' = "running"
          /\ UNCHANGED failures
       \/ state # "open" /\ UNCHANGED breaker
    /\ UNCHANGED <<who, users>>

\* _on_success.
OnSuccess ==
    \/ /\ state = "half_open" /\ successes + 1 >= HalfOpenMaxCalls
       /\ state' = "closed" /\ failures' = 0 /\ successes' = 0 /\ UNCHANGED timer
    \/ /\ state = "half_open" /\ successes + 1 < HalfOpenMaxCalls
       /\ successes' = successes + 1 /\ UNCHANGED <<state, failures, timer>>
    \/ state = "closed" /\ failures' = 0 /\ UNCHANGED <<state, successes, timer>>
    \/ state = "open" /\ UNCHANGED breaker

\* _on_failure; a call that was admitted before the breaker opened counts as well.
OnFailure ==
    \/ /\ state = "half_open"
       /\ state' = "open" /\ timer' = "running" /\ successes' = 0 /\ UNCHANGED failures
    \/ /\ state # "half_open" /\ failures + 1 >= FailureThreshold
       /\ state' = "open" /\ timer' = "running" /\ failures' = failures + 1
       /\ UNCHANGED successes
    \/ /\ state # "half_open" /\ failures + 1 < FailureThreshold
       /\ failures' = failures + 1 /\ UNCHANGED <<state, successes, timer>>

-----------------------------------------------------------------------------
(* The callback.                                                            *)

CodeExchanged(r, u) ==
    /\ CallbackGoes(r, "idle", "exchanged")
    /\ who' = [who EXCEPT ![r] = u]
    /\ UNCHANGED <<breaker, users>>

\* An error of the service, or an answer without an account.
CodeRefused(r) ==
    /\ CallbackGoes(r, "idle", "unavailable")
    /\ UNCHANGED <<breaker, who, users>>

\* _ensure_token, which every callback needs: its client is new.
TokenObtained(r) ==
    /\ CallbackGoes(r, "exchanged", "calling")
    /\ UNCHANGED <<breaker, who, users>>

TokenRefused(r) ==
    /\ CallbackGoes(r, "exchanged", "unavailable")
    /\ UNCHANGED <<breaker, who, users>>

\* A profile, or a status of 400 or above.
ProfileAnswered(r) ==
    /\ CallbackGoes(r, "flying", "fetched") \/ CallbackGoes(r, "flying", "unavailable")
    /\ OnSuccess
    /\ UNCHANGED <<who, users>>

ProfileRaises(r) ==
    /\ CallbackGoes(r, "flying", "unavailable")
    /\ OnFailure
    /\ UNCHANGED <<who, users>>

\* The upsert by naipunyam_id.
Upserts(r) ==
    /\ CallbackGoes(r, "fetched", "upserted")
    /\ users' = users \cup {who[r]}
    /\ UNCHANGED <<breaker, who>>

\* Another row has the e-mail address of the profile.
EmailTaken(r) ==
    /\ who[r] \notin users
    /\ CallbackGoes(r, "fetched", "failed")
    /\ UNCHANGED <<breaker, who, users>>

\* mint_refresh_session, which needs Redis.
SessionMinted(r) ==
    /\ CallbackGoes(r, "upserted", "done") \/ CallbackGoes(r, "upserted", "failed")
    /\ UNCHANGED <<breaker, who, users>>

NaipunyamNext ==
    \/ RecoveryElapses
    \/ \E r \in Callback :
         \/ Rejected(r) \/ Admitted(r) \/ ProfileAnswered(r) \/ ProfileRaises(r)
         \/ \E u \in Uid : CodeExchanged(r, u)
         \/ CodeRefused(r) \/ TokenObtained(r) \/ TokenRefused(r)
         \/ Upserts(r) \/ EmailTaken(r) \/ SessionMinted(r)

NaipunyamSpec == NaipunyamInit /\ [][NaipunyamNext]_naipunyamVars

-----------------------------------------------------------------------------

\* The constants the code uses are such.
Positive == FailureThreshold \in Nat \ {0} /\ HalfOpenMaxCalls \in Nat \ {0}

(* However late results come in, the state agrees with the counters: the        *)
(* breaker is closed exactly below the threshold, and probes are counted only    *)
(* while it is half open.                                                       *)
CountersAgree ==
    /\ state = "closed" <=> failures < FailureThreshold
    /\ successes < HalfOpenMaxCalls
    /\ successes > 0 => state = "half_open"
    /\ timer = "elapsed" => state = "open"

(* The state machine in the header of circuit_breaker.py is the whole of it: an  *)
(* open breaker closes only by way of half open, and only with the last probe.   *)
FollowsDiagram ==
    [][/\ state = "open" => state' # "closed"
       /\ state = "closed" => state' # "half_open"
       /\ (state = "half_open" /\ state' = "closed") => successes = HalfOpenMaxCalls - 1]_naipunyamVars

(* While it is open and the recovery timeout has not passed, no call is added to  *)
(* those already on their way to the service.                                    *)
ShieldsTheService ==
    [][state = "open" /\ timer = "running" => Flying' \subseteq Flying]_naipunyamVars

(* A callback that writes a user or a session has exchanged a code for that       *)
(* account, and the row is there when the session is minted.                      *)
SignedInHasRow ==
    \A r \in Callback : /\ pc[r] \in {"upserted", "done"} => who[r] \in users
                        /\ pc[r] \in {"exchanged", "calling", "flying", "fetched"} => who[r] \in Uid

(* "Number of probe calls allowed in HALF_OPEN state": nothing counts the probes  *)
(* that are admitted, only those that have succeeded.                             *)
ProbesAreLimited ==
    state = "half_open" => Cardinality(Flying) + successes <= HalfOpenMaxCalls
================================================================================
