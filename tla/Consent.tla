-------------------------------- MODULE Consent --------------------------------
(***************************************************************************)
(* data_gateway routers/consent.py: the consent ledger of one candidate,   *)
(* and the gate interview_core puts before a new session                   *)
(* (consent_guard.py, routers/sessions.py).                                *)
(*                                                                         *)
(* Each request has a database session of its own.  It reads what is        *)
(* committed at that moment.  What it changes it writes, row by row, before *)
(* its next statement (autoflush) and commits at the end: the rows written  *)
(* stay locked until then, so two withdrawals can wait for each other.      *)
(***************************************************************************)
EXTENDS Integers, Sequences, FiniteSets

CONSTANTS
    Type,               \* _VALID_CONSENT_TYPES
    Voice,              \* _CONSENT_TYPE, the one the session gate asks for
    Row,                \* identifiers of ledger rows
    NoRow,
    Caller,            \* requests of the candidate
    Direct,             \* request.client.host of each request
    Forwarded,          \* the entries of its X-Forwarded-For header
    TrustedProxyCount   \* trusted_proxy_count

VARIABLES
    status,     \* "active": granted and revoked_at is null
    type,       \* consent_type of each row
    evidence,   \* the address in each row, of which the code keeps a hash
    pc,         \* where each request stands
    want,       \* the type a request to record asks for
    answer,     \* the row a request answers with
    todo,       \* types a withdrawal has not looked up
    seen,       \* rows it has found and will revoke
    flushed,    \* those it has written and holds locks on
    held        \* history: the rows active when it began

ledger == <<status, type, evidence>>
withdrawal == <<todo, seen, flushed, held>>
consentVars == <<status, type, evidence, pc, want, answer, todo, seen, flushed, held>>

Stage == {"idle", "inserting", "requery", "granted", "conflict",
          "withdrawing", "withdrawn", "nothing", "killed",
          "checked", "created", "refused"}

\* _find_active_consent and has_active_consent.
Active(t) == {x \in Row : status[x] = "active" /\ type[x] = t}
Recorded == {x \in Row : status[x] # "none"}

ConsentTypeOK ==
    /\ status \in [Row -> {"none", "active", "revoked"}]
    /\ type \in [Row -> Type]
    /\ pc \in [Caller -> Stage]
    /\ want \in [Caller -> Type]
    /\ answer \in [Caller -> Row \cup {NoRow}]
    /\ todo \in [Caller -> SUBSET Type]
    /\ seen \in [Caller -> SUBSET Row]
    /\ flushed \in [Caller -> SUBSET Row]
    /\ held \in [Caller -> SUBSET Row]

ConsentInit ==
    /\ status = [x \in Row |-> "none"]
    /\ type = [x \in Row |-> Voice]
    /\ evidence = [x \in Row |-> "unknown"]
    /\ pc = [r \in Caller |-> "idle"]
    /\ want = [r \in Caller |-> Voice]
    /\ answer = [r \in Caller |-> NoRow]
    /\ todo = [r \in Caller |-> {}]
    /\ seen = [r \in Caller |-> {}]
    /\ flushed = [r \in Caller |-> {}]
    /\ held = [r \in Caller |-> {}]

Goes(r, from, to) == pc[r] = from /\ pc' = [pc EXCEPT ![r] = to]

-----------------------------------------------------------------------------
(* record_consent.                                                          *)

\* _extract_client_ip: the trusted proxies appended the last entries.
ClientAddress(direct, hops) ==
    IF TrustedProxyCount = 0 \/ Len(hops) < TrustedProxyCount
    THEN direct
    ELSE hops[Len(hops) - TrustedProxyCount + 1]

RecordFinds(r, x) ==
    /\ Goes(r, "idle", "granted")
    /\ status[x] = "active"
    /\ want' = [want EXCEPT ![r] = type[x]]
    /\ answer' = [answer EXCEPT ![r] = x]
    /\ UNCHANGED <<ledger, withdrawal>>

RecordMisses(r, t) ==
    /\ Goes(r, "idle", "inserting")
    /\ Active(t) = {}
    /\ want' = [want EXCEPT ![r] = t]
    /\ UNCHANGED <<ledger, answer, withdrawal>>

\* ix_dpdp_consent_active_unique.
Insertable(t) == Active(t) = {}

RecordCommits(r, x) ==
    /\ Goes(r, "inserting", "granted")
    /\ status[x] = "none" /\ Insertable(want[r])
    /\ status' = [status EXCEPT ![x] = "active"]
    /\ type' = [type EXCEPT ![x] = want[r]]
    /\ evidence' = [evidence EXCEPT ![x] = ClientAddress(Direct[r], Forwarded[r])]
    /\ answer' = [answer EXCEPT ![r] = x]
    /\ UNCHANGED <<want, withdrawal>>

\* The insert waits for a withdrawal that has written the row it collides with.
RecordCollides(r) ==
    /\ Goes(r, "inserting", "requery")
    /\ \E x \in Active(want[r]) : \A q \in Caller : x \notin flushed[q]
    /\ UNCHANGED <<ledger, want, answer, withdrawal>>

RecordRequeries(r) ==
    /\ \/ \E x \in Active(want[r]) : /\ Goes(r, "requery", "granted")
                                     /\ answer' = [answer EXCEPT ![r] = x]
       \/ Active(want[r]) = {} /\ Goes(r, "requery", "conflict") /\ UNCHANGED answer
    /\ UNCHANGED <<ledger, want, withdrawal>>

-----------------------------------------------------------------------------
(* revoke_consent.                                                          *)

WithdrawalBegins(r) ==
    /\ Goes(r, "idle", "withdrawing")
    /\ todo' = [todo EXCEPT ![r] = Type]
    /\ held' = [held EXCEPT ![r] = {x \in Row : status[x] = "active"}]
    /\ UNCHANGED <<ledger, want, answer, seen, flushed>>

\* The rows r has found and not written, and who holds them.
Pending(r) == seen[r] \ flushed[r]
WaitsFor(r, q) == q # r /\ Pending(r) \cap flushed[q] # {}

\* The frozenset of types has an order of its own in each process.
WithdrawalReads(r, t) ==
    /\ pc[r] = "withdrawing" /\ t \in todo[r] /\ Pending(r) = {}
    /\ todo' = [todo EXCEPT ![r] = @ \ {t}]
    /\ seen' = [seen EXCEPT ![r] = @ \cup Active(t)]
    /\ UNCHANGED <<ledger, pc, want, answer, flushed, held>>

WithdrawalFlushes(r) ==
    /\ pc[r] = "withdrawing" /\ Pending(r) # {}
    /\ \A q \in Caller : ~WaitsFor(r, q)
    /\ flushed' = [flushed EXCEPT ![r] = seen[r]]
    /\ UNCHANGED <<ledger, pc, want, answer, todo, seen, held>>

WithdrawalFindsNothing(r) ==
    /\ todo[r] = {} /\ seen[r] = {}
    /\ Goes(r, "withdrawing", "nothing")
    /\ UNCHANGED <<ledger, want, answer, withdrawal>>

WithdrawalCommits(r) ==
    /\ todo[r] = {} /\ seen[r] # {} /\ Pending(r) = {}
    /\ Goes(r, "withdrawing", "withdrawn")
    /\ status' = [x \in Row |-> IF x \in seen[r] THEN "revoked" ELSE status[x]]
    /\ flushed' = [flushed EXCEPT ![r] = {}]
    /\ UNCHANGED <<type, evidence, want, answer, todo, seen, held>>

\* The database ends one of two transactions that wait for each other.
WithdrawalIsKilled(r) ==
    /\ \E q \in Caller : WaitsFor(r, q) /\ WaitsFor(q, r)
    /\ Goes(r, "withdrawing", "killed")
    /\ flushed' = [flushed EXCEPT ![r] = {}]
    /\ UNCHANGED <<ledger, want, answer, todo, seen, held>>

-----------------------------------------------------------------------------
(* create_session.                                                          *)

SessionIsChecked(r) ==
    /\ \/ \E x \in Active(Voice) : /\ Goes(r, "idle", "checked")
                                   /\ answer' = [answer EXCEPT ![r] = x]
       \/ Active(Voice) = {} /\ Goes(r, "idle", "refused") /\ UNCHANGED answer
    /\ UNCHANGED <<ledger, want, withdrawal>>

SessionIsCreated(r) ==
    /\ Goes(r, "checked", "created")
    /\ UNCHANGED <<ledger, want, answer, withdrawal>>

ConsentNext ==
    \E r \in Caller :
       \/ \E x \in Row : RecordFinds(r, x) \/ RecordCommits(r, x)
       \/ \E t \in Type : RecordMisses(r, t) \/ WithdrawalReads(r, t)
       \/ RecordCollides(r) \/ RecordRequeries(r)
       \/ WithdrawalBegins(r) \/ WithdrawalFlushes(r) \/ WithdrawalFindsNothing(r)
       \/ WithdrawalCommits(r) \/ WithdrawalIsKilled(r)
       \/ SessionIsChecked(r) \/ SessionIsCreated(r)

ConsentSpec == ConsentInit /\ [][ConsentNext]_consentVars

-----------------------------------------------------------------------------

(* However many requests to record arrive together, one consent of a type is   *)
(* active at a time.                                                           *)
OneActivePerType ==
    \A x, y \in Row : status[x] = "active" /\ status[y] = "active" /\ type[x] = type[y] => x = y

(* A withdrawal that is answered, with rows or with 404, has left no row active  *)
(* that was active when it began, whatever ran beside it.                        *)
WithdrawalCovers ==
    \A r \in Caller : pc[r] \in {"withdrawn", "nothing"} =>
        \A x \in held[r] : status[x] = "revoked"

(* Every answer "consented" names a row of the ledger, of the type asked for,    *)
(* and every session created had one of the voice type.                          *)
AnswersNameRows ==
    \A r \in Caller :
        /\ pc[r] = "granted" => answer[r] \in Recorded /\ type[answer[r]] = want[r]
        /\ pc[r] \in {"checked", "created"} =>
              answer[r] \in Recorded /\ type[answer[r]] = Voice

(* No row is written by two withdrawals at a time.                               *)
LocksAreExclusive ==
    \A r, q \in Caller : flushed[r] \cap flushed[q] # {} => r = q

(* The ledger is an audit trail: a row is never removed, changes neither type     *)
(* nor evidence, and once revoked stays so.                                      *)
LedgerOnlyGrows ==
    [][\A x \in Recorded : /\ x \in Recorded'
                           /\ type'[x] = type[x] /\ evidence'[x] = evidence[x]
                           /\ status[x] = "revoked" => status'[x] = "revoked"]_consentVars

(* "The candidate's full withdrawal is honoured atomically": no consent is        *)
(* active when it commits.                                                       *)
WithdrawalIsTotal ==
    [][\A r \in Caller : pc[r] = "withdrawing" /\ pc'[r] = "withdrawn" =>
          \A x \in Row : status'[x] # "active"]_consentVars

(* "A second DELETE returns 404 consistently": no two withdrawals revoke one row. *)
RevokedByOne ==
    \A r, q \in Caller :
        pc[r] = "withdrawn" /\ pc[q] = "withdrawn" /\ seen[r] \cap seen[q] # {} => r = q
================================================================================
