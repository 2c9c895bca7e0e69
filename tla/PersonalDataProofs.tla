------------------------- MODULE PersonalDataProofs -------------------------
(***************************************************************************)
(* Machine-checked proofs about a candidate's data, for any number of       *)
(* requests, executors and rows: the versions of the resume and their       *)
(* erasure, and the consents.  Each component has its own part.             *)
(***************************************************************************)
EXTENDS PersonalData, Consent, FiniteSetTheorems, WellFoundedInduction, TLAPS

-----------------------------------------------------------------------------
(* PersonalData.                                                            *)

ReqType == [pc : {"idle", "loaded", "demoted", "picked", "cleanup", "drop"},
            op : {"none", "upload", "set", "delete"}, key : KeyOrNull, seen : SUBSET Key,
            holds : BOOLEAN, next : KeyOrNull, was : BOOLEAN]
ExecType == [pc : {"resting", "polling", "erasing"}, found : SUBSET Erasure,
             on : 0..MaxErasures, keys : SUBSET Key]

AccountTyped ==
    /\ account \in {"active", "closing", "erased"}
    /\ applicant \in [row : {"none", "held", "redacted"}, mine : BOOLEAN, key : KeyOrNull]
    /\ session \in {"live", "soft", "gone"}
    /\ card \in [row : BOOLEAN, pdf : KeyOrNull]
    /\ rendered \in KeyOrNull

ResumesTyped ==
    /\ usersKey \in KeyOrNull
    /\ resumes \subseteq Key /\ current \subseteq resumes
    /\ \A a, b \in current : a = b
    /\ store \subseteq 1..lastKey /\ lastKey \in KeyOrNull
    /\ resumes \subseteq 1..lastKey
    /\ faults \in 0..MaxFaults

ErasuresTyped ==
    /\ erasure \in [Erasure -> {"none", "pending", "due", "completed"}]
    /\ audits \in [Erasure -> Nat]
    /\ admin \in BOOLEAN
    /\ exec \in [Executor -> ExecType]

\* What a request of the candidate knows of the file it is about.
Sound(q) ==
    /\ q.key <= lastKey
    /\ q.op = "none" => q = Idle
    /\ q.op # "none" => q.key \in Key
    /\ q.op = "upload" => /\ q.pc \in {"loaded", "demoted", "cleanup"}
                          /\ q.key \notin resumes
                          /\ q.pc # "cleanup" => q.key \in store
    /\ q.op = "set" => q.pc \in {"loaded", "demoted"}
    /\ q.op = "delete" => /\ q.pc \in {"loaded", "picked", "drop"}
                          /\ q.pc = "picked" => q.seen = {q.key} /\ q.next # q.key
                          /\ q.pc = "drop" => q.key \notin resumes

\* Nobody else knows the key of a file that is being uploaded.
KeysDiffer ==
    \A r, s \in Request : r # s /\ req[r].op = "upload" => req[r].key # req[s].key

RequestsAreSound ==
    /\ req \in [Request -> ReqType]
    /\ \A r \in Request : Sound(req[r])
    /\ KeysDiffer

\* Once an erasure is due, nothing of the candidate is under way.
DueIsQuiet == ~CanAct => rendered = 0 /\ \A r \in Request : req[r] = Idle

\* An executor at work holds a request that is due, alone, and has deleted what it does not
\* still have to delete.
Holding(x) ==
    /\ exec[x].pc # "erasing" => exec[x].on = 0
    /\ exec[x].pc = "erasing" =>
          /\ exec[x].on \in Erasure /\ erasure[exec[x].on] = "due"
          /\ usersKey \in exec[x].keys \/ usersKey \notin store
          /\ session # "gone" => card.pdf \in exec[x].keys \/ card.pdf \notin store

OneHolder == \A x, y \in Executor : exec[x].on = exec[y].on /\ exec[x].on # 0 => x = y

FoundWereDue == \A x \in Executor : \A e \in exec[x].found : erasure[e] \in {"due", "completed"}

ErasuresAreSound ==
    /\ \A x \in Executor : Holding(x)
    /\ OneHolder /\ FoundWereDue
    /\ ErasedOnce
    /\ ~card.row => card.pdf = 0

IInv ==
    /\ AccountTyped /\ ResumesTyped /\ ErasuresTyped
    /\ RequestsAreSound /\ DueIsQuiet /\ ErasuresAreSound
    /\ VersionsHaveFiles

\* Every set of naturals has a least member, every set below a bound a greatest.
LEMMA Smallest ==
  ASSUME NEW T, T \subseteq Nat, T # {}
  PROVE  \E x \in T : \A y \in T : x <= y
  <1> DEFINE R == OpToRel(<, Nat)
  <1>1. IsWellFoundedOn(R, Nat)
    BY NatLessThanWellFounded
  <1>2. \A x, y \in Nat : x < y => <<x, y>> \in R
    BY DEF OpToRel
  <1> HIDE DEF R
  <1>3. \E x \in T : \A y \in T : ~(<<y, x>> \in R)
    BY <1>1, WFMin
  <1>4. PICK x \in T : \A y \in T : ~(<<y, x>> \in R)
    BY <1>3
  <1>5. ASSUME NEW y \in T PROVE x <= y
    <2>1. x \in Nat /\ y \in Nat
      OBVIOUS
    <2>2. ~(y < x)
      BY <1>2, <1>4, <2>1
    <2> QED
      BY <2>1, <2>2
  <1> QED
    BY <1>5

LEMMA Greatest ==
  ASSUME NEW N \in Nat, NEW T, T \subseteq 0..N, T # {}
  PROVE  \E x \in T : \A y \in T : y <= x
  <1> DEFINE M == {N - x : x \in T}
  <1>1. PICK t \in T : TRUE
    OBVIOUS
  <1>2. N - t \in M
    OBVIOUS
  <1>3. M \subseteq Nat
    OBVIOUS
  <1>4. M \subseteq Nat /\ M # {}
    BY <1>2, <1>3
  <1> HIDE DEF M
  <1>5. PICK m \in M : \A y \in M : m <= y
    BY <1>4, Smallest
  <1>6. PICK x \in T : m = N - x
    BY DEF M
  <1>7. ASSUME NEW y \in T PROVE y <= x
    <2>1. N - y \in M
      BY DEF M
    <2> QED
      BY <1>5, <1>6, <2>1
  <1> QED
    BY <1>7

\* Newest of nothing is 0, of keys one of them.
LEMMA NewestIsOne ==
  ASSUME NEW keys, keys \subseteq Key
  PROVE  Newest(keys) \in KeyOrNull /\ (Newest(keys) = 0 \/ Newest(keys) \in keys)
  <1>1. CASE keys = {}
    BY <1>1, BoundsAssumption DEF Newest, KeyOrNull
  <1>2. CASE keys # {}
    <2>1. keys \subseteq 0..MaxKeys /\ MaxKeys \in Nat
      BY BoundsAssumption DEF Key
    <2>2. \E k \in keys : \A l \in keys : l <= k
      BY <1>2, <2>1, Greatest
    <2>3. Newest(keys) \in keys
      BY <1>2, <2>2 DEF Newest
    <2> QED
      BY <2>1, <2>3 DEF KeyOrNull
  <1> QED
    BY <1>1, <1>2

LEMMA KeyFacts ==
  /\ MaxKeys \in Nat /\ Key \subseteq KeyOrNull /\ 0 \notin Key /\ 0 \in KeyOrNull
  /\ \A k \in KeyOrNull : k # 0 => k \in Key
  BY BoundsAssumption DEF Key, KeyOrNull

LEMMA NewKeyIsNew ==
  ASSUME IInv, NEW k \in NewKey
  PROVE  /\ k = lastKey + 1 /\ k \in Key /\ k \notin store /\ k \notin resumes
         /\ lastKey < k /\ 1..lastKey \subseteq 1..k
         /\ \A r \in Request : req[r].key # k
  <1>1. k = lastKey + 1 /\ lastKey < MaxKeys /\ lastKey \in Nat /\ MaxKeys \in Nat
    BY BoundsAssumption DEF NewKey, IInv, ResumesTyped, KeyOrNull
  <1>2. store \subseteq 1..lastKey /\ resumes \subseteq 1..lastKey
    BY DEF IInv, ResumesTyped
  <1>3. \A r \in Request : req[r].key <= lastKey /\ req[r].key \in Nat
    BY BoundsAssumption DEF IInv, RequestsAreSound, Sound, ReqType, KeyOrNull
  <1> QED
    BY <1>1, <1>2, <1>3 DEF Key

LEMMA IdleIsSound ==
  /\ Idle \in ReqType /\ Idle.op = "none" /\ Idle.key = 0
  /\ Idle.pc = "idle" /\ Resting \in ExecType
  /\ Resting.on = 0 /\ Resting.found = {} /\ Resting.pc = "resting"
  <1>1. 0 \in KeyOrNull /\ 0 \in 0..MaxErasures
    BY BoundsAssumption DEF KeyOrNull
  <1> QED
    BY <1>1 DEF Idle, Resting, ReqType, ExecType

LEMMA InitIInv == Init => IInv
  <1> SUFFICES ASSUME Init PROVE IInv
    OBVIOUS
  <1>1. lastKey \in KeyOrNull /\ lastKey \in Nat /\ 0 \in KeyOrNull /\ 0 \in 0..MaxFaults
    BY BoundsAssumption DEF Init, KeyOrNull
  <1>2. AccountTyped
    BY <1>1 DEF Init, AccountTyped
  <1>3. ResumesTyped
    BY <1>1 DEF Init, ResumesTyped
  <1>4. ErasuresTyped
    BY IdleIsSound DEF Init, ErasuresTyped
  <1>5. RequestsAreSound
    BY <1>1, IdleIsSound DEF Init, RequestsAreSound, Sound, KeysDiffer
  <1>6. DueIsQuiet
    BY DEF Init, DueIsQuiet
  <1>7. ErasuresAreSound
    BY IdleIsSound DEF Init, ErasuresAreSound, Holding, OneHolder, FoundWereDue, ErasedOnce
  <1> QED
    BY <1>2, <1>3, <1>4, <1>5, <1>6, <1>7 DEF Init, IInv, VersionsHaveFiles

\* While a request of the candidate is under way no erasure is due, so no executor works.
LEMMA RequestMeansCanAct == ASSUME IInv, NEW r \in Request, req[r] # Idle PROVE CanAct
  BY DEF IInv, DueIsQuiet

LEMMA NobodyErases ==
  ASSUME IInv, CanAct, NEW x \in Executor
  PROVE  exec[x].pc # "erasing" /\ exec[x].on = 0
  BY DEF IInv, ErasuresAreSound, Holding, CanAct

\* A step of one request keeps the invariant when it keeps what the others know: it
\* drops no file and lists no key of theirs.
LEMMA RequestSteps ==
  ASSUME IInv, CanAct, NEW r \in Request, NEW q \in ReqType, req' = [req EXCEPT ![r] = q],
         UNCHANGED <<account, applicant, session, card, rendered>>,
         UNCHANGED <<erasure, audits, admin, exec>>,
         ResumesTyped', lastKey <= lastKey', (Sound(req[r]))',
         resumes' \subseteq store',
         \A s \in Request \ {r} : req[s].op = "upload" /\ req[s].key \in store => req[s].key \in store',
         \A s \in Request \ {r} : req[s].key \in resumes' => req[s].key \in resumes,
         q.op = "upload" => \A s \in Request \ {r} : req[s].key # q.key,
         \A s \in Request \ {r} : req[s].op = "upload" => req[s].key # q.key
  PROVE  IInv'
  <1>1. req'[r] = q /\ \A s \in Request \ {r} : req'[s] = req[s]
    BY DEF IInv, RequestsAreSound
  <1>2. req' \in [Request -> ReqType]
    BY DEF IInv, RequestsAreSound
  <1>3. ASSUME NEW s \in Request \ {r} PROVE (Sound(req[s]))'
    <2>1. req[s].key \in Nat /\ lastKey \in Nat /\ lastKey' \in Nat
      BY BoundsAssumption DEF IInv, RequestsAreSound, ReqType, ResumesTyped, KeyOrNull
    <2>2. req[s].key <= lastKey'
      BY <2>1 DEF IInv, RequestsAreSound, Sound
    <2> QED
      BY <1>1, <2>2 DEF IInv, RequestsAreSound, Sound
  <1>4. KeysDiffer'
    BY <1>1 DEF IInv, RequestsAreSound, KeysDiffer
  <1>5. \A s \in Request : (Sound(req[s]))'
    BY <1>3
  <1>6. RequestsAreSound'
    BY <1>2, <1>4, <1>5 DEF RequestsAreSound
  <1>7. CanAct'
    BY DEF CanAct
  <1>8. ErasuresAreSound'
    BY NobodyErases DEF IInv, ErasuresAreSound, Holding, OneHolder, FoundWereDue, ErasedOnce
  <1>9. AccountTyped' /\ ErasuresTyped'
    BY DEF IInv, AccountTyped, ErasuresTyped
  <1> QED
    BY <1>6, <1>7, <1>8, <1>9 DEF IInv, DueIsQuiet, VersionsHaveFiles

\* A request that goes on, or ends, with the file it is about.
LEMMA RequestGoesOn ==
  ASSUME IInv, NEW r \in Request, req[r] # Idle, NEW q \in ReqType, req' = [req EXCEPT ![r] = q],
         q = Idle \/ (q.op = req[r].op /\ q.key = req[r].key),
         UNCHANGED <<account, applicant, session, card, rendered>>,
         UNCHANGED <<erasure, audits, admin, exec>>,
         UNCHANGED lastKey, ResumesTyped', (Sound(req[r]))',
         resumes' \subseteq store',
         store' \in {store, store \ {req[r].key}},
         \/ resumes' \subseteq resumes
         \/ req[r].op = "upload" /\ resumes' = resumes \cup {req[r].key}
  PROVE  IInv'
  <1>1. CanAct
    BY RequestMeansCanAct
  <1>2. lastKey <= lastKey'
    BY BoundsAssumption DEF IInv, ResumesTyped, KeyOrNull
  <1>3. req[r].op # "none" /\ req[r].key \in Key
    BY DEF IInv, RequestsAreSound, Sound
  <1>4. \A s \in Request \ {r} : req[s].op = "upload" => req[s].key # req[r].key /\ req[s].key # q.key
    BY IdleIsSound, KeyFacts DEF IInv, RequestsAreSound, KeysDiffer, Sound
  <1>5. \A s \in Request \ {r} : req[r].op = "upload" => req[s].key # req[r].key
    BY DEF IInv, RequestsAreSound, KeysDiffer
  <1>6. \A s \in Request \ {r} : req[s].op = "upload" /\ req[s].key \in store => req[s].key \in store'
    BY <1>4
  <1>7. \A s \in Request \ {r} : req[s].key \in resumes' => req[s].key \in resumes
    BY <1>5
  <1>8. q.op = "upload" => \A s \in Request \ {r} : req[s].key # q.key
    BY <1>5, IdleIsSound
  <1> QED
    BY <1>1, <1>2, <1>4, <1>6, <1>7, <1>8, RequestSteps

LEMMA UploadPutsKeeps == ASSUME IInv, NEW r \in Request, UploadPuts(r) PROVE IInv'
  <1>1. PICK k \in NewKey :
          /\ store' = store \cup {k} /\ lastKey' = k
          /\ req' = [req EXCEPT ![r] = [Idle EXCEPT !.op = "upload", !.pc = "loaded", !.key = k]]
    BY DEF UploadPuts, UploadFile, Moves
  <1>2. /\ CanAct /\ UNCHANGED <<usersKey, resumes, current>>
        /\ UNCHANGED <<account, applicant, session, card, rendered>>
        /\ UNCHANGED <<erasure, audits, admin, exec>> /\ UNCHANGED faults
    BY DEF UploadPuts, resumeVars, otherRows, erasureVars
  <1>3. /\ k = lastKey + 1 /\ k \in Key /\ k \notin store /\ k \notin resumes
        /\ lastKey < k /\ 1..lastKey \subseteq 1..k
        /\ \A s \in Request : req[s].key # k
    BY NewKeyIsNew
  <1>4. lastKey \in Nat /\ lastKey' \in Nat /\ k \in 1..k
    BY <1>1, <1>3, BoundsAssumption DEF IInv, ResumesTyped, KeyOrNull, Key
  <1>5. PICK q \in ReqType : /\ q.op = "upload" /\ q.pc = "loaded" /\ q.key = k
                             /\ req' = [req EXCEPT ![r] = q]
    BY <1>1, <1>3, KeyFacts, IdleIsSound DEF Idle, ReqType
  <1>6. req'[r] = q
    BY <1>5 DEF IInv, RequestsAreSound
  <1>7. ResumesTyped'
    BY <1>1, <1>2, <1>3, <1>4, KeyFacts DEF IInv, ResumesTyped
  <1>8. (Sound(req[r]))'
    BY <1>1, <1>2, <1>3, <1>4, <1>5, <1>6 DEF Sound
  <1>9. resumes' \subseteq store'
    BY <1>1, <1>2 DEF IInv, VersionsHaveFiles
  <1>10. lastKey <= lastKey'
    BY <1>1, <1>3, <1>4
  <1>11. \A s \in Request \ {r} : req[s].key # q.key
    BY <1>3, <1>5
  <1> QED
    BY <1>1, <1>2, <1>5, <1>7, <1>8, <1>9, <1>10, <1>11, RequestSteps

\* A request that only reads a version.
LEMMA VersionRead ==
  ASSUME IInv, CanAct, NEW r \in Request, NEW k \in resumes, NEW q \in ReqType, q.key = k,
         q.op \in {"set", "delete"}, q.pc = "loaded", req' = [req EXCEPT ![r] = q],
         UNCHANGED <<resumeVars, otherRows, erasureVars, store, lastKey, faults>>
  PROVE  IInv'
  <1>1. /\ UNCHANGED <<usersKey, resumes, current>>
        /\ UNCHANGED <<account, applicant, session, card, rendered>>
        /\ UNCHANGED <<erasure, audits, admin, exec>> /\ UNCHANGED <<store, lastKey, faults>>
    BY DEF resumeVars, otherRows, erasureVars
  <1>2. ResumesTyped' /\ resumes' \subseteq store'
    BY <1>1 DEF IInv, ResumesTyped, VersionsHaveFiles
  <1>3. k \in 1..lastKey /\ lastKey \in Nat /\ k \in Key
    BY BoundsAssumption DEF IInv, ResumesTyped, KeyOrNull
  <1>4. lastKey <= lastKey' /\ k <= lastKey
    BY <1>1, <1>3
  <1>5. req'[r] = q
    BY DEF IInv, RequestsAreSound
  <1>6. (Sound(req[r]))'
    BY <1>1, <1>3, <1>4, <1>5 DEF Sound
  <1>7. \A s \in Request \ {r} : req[s].op = "upload" => req[s].key # q.key
    BY DEF IInv, RequestsAreSound, Sound
  <1> QED
    BY <1>1, <1>2, <1>4, <1>6, <1>7, RequestSteps

LEMMA SetReadsKeeps == ASSUME IInv, NEW r \in Request, NEW k, SetReads(r, k) PROVE IInv'
  <1>1. /\ CanAct /\ k \in resumes
        /\ UNCHANGED <<resumeVars, otherRows, erasureVars, store, lastKey, faults>>
        /\ req' = [req EXCEPT ![r] = [Idle EXCEPT !.op = "set", !.pc = "loaded", !.key = k]]
    BY DEF SetReads, Moves
  <1>2. k \in KeyOrNull
    BY <1>1, KeyFacts DEF IInv, ResumesTyped
  <1>3. PICK q \in ReqType : /\ q.op = "set" /\ q.pc = "loaded" /\ q.key = k
                             /\ req' = [req EXCEPT ![r] = q]
    BY <1>1, <1>2, KeyFacts DEF Idle, ReqType
  <1> QED
    BY <1>1, <1>3, VersionRead

LEMMA DeleteReadsKeeps == ASSUME IInv, NEW r \in Request, NEW k, DeleteReads(r, k) PROVE IInv'
  <1>1. /\ CanAct /\ k \in resumes
        /\ UNCHANGED <<resumeVars, otherRows, erasureVars, store, lastKey, faults>>
        /\ req' = [req EXCEPT ![r] = [Idle EXCEPT !.op = "delete", !.pc = "loaded", !.key = k,
                                                  !.was = k \in current]]
    BY DEF DeleteReads, Moves
  <1>2. k \in KeyOrNull
    BY <1>1, KeyFacts DEF IInv, ResumesTyped
  <1>3. PICK w \in BOOLEAN : w = (k \in current)
    <2>1. (k \in current) \in BOOLEAN
      OBVIOUS
    <2> QED
      BY <2>1
  <1>4. PICK q \in ReqType : /\ q.op = "delete" /\ q.pc = "loaded" /\ q.key = k
                             /\ req' = [req EXCEPT ![r] = q]
    BY <1>1, <1>2, <1>3, KeyFacts DEF Idle, ReqType
  <1> QED
    BY <1>1, <1>4, VersionRead

\* A request that goes on without writing a row or a file.
LEMMA RequestThinks ==
  ASSUME IInv, NEW r \in Request, req[r].op # "none", NEW q \in ReqType,
         req' = [req EXCEPT ![r] = q], q = Idle \/ (q.op = req[r].op /\ q.key = req[r].key),
         q = Idle \/ Sound(q),
         UNCHANGED <<resumeVars, otherRows, erasureVars, store, lastKey>>, faults' \in 0..MaxFaults
  PROVE  IInv'
  <1>1. /\ UNCHANGED <<usersKey, resumes, current>>
        /\ UNCHANGED <<account, applicant, session, card, rendered>>
        /\ UNCHANGED <<erasure, audits, admin, exec>> /\ UNCHANGED <<store, lastKey>>
    BY DEF resumeVars, otherRows, erasureVars
  <1>2. req[r] # Idle
    BY IdleIsSound
  <1>3. CanAct
    BY <1>2, RequestMeansCanAct
  <1>4. ResumesTyped' /\ resumes' \subseteq store'
    BY <1>1, <1>3 DEF IInv, ResumesTyped, VersionsHaveFiles
  <1>5. req'[r] = q /\ lastKey \in Nat
    BY BoundsAssumption DEF IInv, RequestsAreSound, ResumesTyped, KeyOrNull
  <1>6. Sound(q)
    BY <1>5, IdleIsSound DEF Sound
  <1>7. (Sound(req[r]))'
    BY <1>1, <1>5, <1>6 DEF Sound
  <1>8. store' \in {store, store \ {req[r].key}} /\ resumes' \subseteq resumes
    BY <1>1
  <1> QED
    BY <1>1, <1>2, <1>4, <1>7, <1>8, RequestGoesOn

LEMMA DemoteKeeps == ASSUME IInv, NEW r \in Request, Demote(r) PROVE IInv'
  <1>1. /\ req[r].op \in {"upload", "set"} /\ req[r].pc = "loaded"
        /\ req' = [req EXCEPT ![r] = [req[r] EXCEPT !.pc = "demoted", !.seen = current,
                                                    !.holds = ~LockedByOther(r, current)]]
        /\ UNCHANGED <<resumeVars, otherRows, erasureVars, store, lastKey, faults>>
    BY DEF Demote, Moves
  <1>2. PICK h \in BOOLEAN : h = ~LockedByOther(r, current)
    OBVIOUS
  <1>3. req[r] \in ReqType /\ Sound(req[r]) /\ current \subseteq Key /\ faults' \in 0..MaxFaults
    BY <1>1 DEF IInv, RequestsAreSound, ResumesTyped
  <1>4. PICK q \in ReqType : /\ q.op = req[r].op /\ q.key = req[r].key /\ q.pc = "demoted"
                             /\ req' = [req EXCEPT ![r] = q]
    BY <1>1, <1>2, <1>3 DEF ReqType
  <1>5. Sound(q)
    BY <1>1, <1>3, <1>4 DEF Sound
  <1> QED
    BY <1>1, <1>3, <1>4, <1>5, RequestThinks

LEMMA DeletePicksKeeps == ASSUME IInv, NEW r \in Request, DeletePicks(r) PROVE IInv'
  <1> DEFINE next == IF req[r].was THEN Newest(resumes \ {req[r].key}) ELSE 0
  <1>1. /\ req[r].op = "delete" /\ req[r].pc = "loaded"
        /\ req' = [req EXCEPT ![r] = [req[r] EXCEPT !.pc = "picked", !.seen = {req[r].key},
                                                    !.holds = TRUE, !.next = next]]
        /\ UNCHANGED <<resumeVars, otherRows, erasureVars, store, lastKey, faults>>
    BY DEF DeletePicks, Moves, At
  <1>2. req[r] \in ReqType /\ Sound(req[r]) /\ faults' \in 0..MaxFaults /\ req[r].key \in Key
        /\ resumes \ {req[r].key} \subseteq Key
    BY <1>1 DEF IInv, RequestsAreSound, ResumesTyped, Sound
  <1>3. next \in KeyOrNull /\ next # req[r].key
    BY <1>2, NewestIsOne, KeyFacts
  <1> HIDE DEF next
  <1>4. PICK q \in ReqType : /\ q.op = "delete" /\ q.key = req[r].key /\ q.pc = "picked"
                             /\ q.seen = {q.key} /\ q.next # q.key
                             /\ req' = [req EXCEPT ![r] = q]
    BY <1>1, <1>2, <1>3 DEF ReqType
  <1>5. Sound(q)
    BY <1>2, <1>4 DEF Sound
  <1> QED
    BY <1>1, <1>2, <1>4, <1>5, RequestThinks

LEMMA UploadFailsKeeps == ASSUME IInv, NEW r \in Request, UploadFails(r) PROVE IInv'
  <1>1. /\ req[r].op = "upload" /\ faults < MaxFaults /\ faults' = faults + 1
        /\ req' = [req EXCEPT ![r] = [req[r] EXCEPT !.pc = "cleanup", !.seen = {}, !.holds = FALSE]]
        /\ UNCHANGED <<resumeVars, otherRows, erasureVars, store, lastKey>>
    BY DEF UploadFails, Step, Moves, At
  <1>2. req[r] \in ReqType /\ Sound(req[r]) /\ faults' \in 0..MaxFaults
    BY <1>1, BoundsAssumption DEF IInv, RequestsAreSound, ResumesTyped
  <1>3. PICK q \in ReqType : /\ q.op = "upload" /\ q.key = req[r].key /\ q.pc = "cleanup"
                             /\ req' = [req EXCEPT ![r] = q]
    BY <1>1, <1>2 DEF ReqType
  <1>4. Sound(q)
    BY <1>1, <1>2, <1>3 DEF Sound
  <1> QED
    BY <1>1, <1>2, <1>3, <1>4, RequestThinks

LEMMA RequestDiesKeeps == ASSUME IInv, NEW r \in Request, RequestDies(r) PROVE IInv'
  <1>1. /\ req[r] # Idle /\ faults < MaxFaults /\ faults' = faults + 1
        /\ req' = [req EXCEPT ![r] = Idle]
        /\ UNCHANGED <<resumeVars, otherRows, erasureVars, store, lastKey>>
    BY DEF RequestDies, Moves
  <1>2. req[r].op # "none" /\ faults' \in 0..MaxFaults
    BY <1>1, BoundsAssumption DEF IInv, RequestsAreSound, ResumesTyped, Sound
  <1>3. PICK q \in ReqType : q = Idle /\ req' = [req EXCEPT ![r] = q]
    BY <1>1, IdleIsSound
  <1> QED
    BY <1>1, <1>2, <1>3, RequestThinks

\* The three commits keep at most one version current.
LEMMA UploadCommitsKeeps == ASSUME IInv, NEW r \in Request, UploadCommits(r) PROVE IInv'
  <1> DEFINE k == req[r].key
  <1>1. /\ req[r].op = "upload" /\ req[r].pc = "demoted" /\ req[r] \in ReqType /\ Sound(req[r])
        /\ UNCHANGED <<otherRows, erasureVars, store, lastKey, faults>>
    BY DEF UploadCommits, At, IInv, RequestsAreSound
  <1>2. /\ req[r] # Idle /\ k \in Key /\ k \in store /\ k \in 1..lastKey
    BY <1>1, IdleIsSound DEF Sound, IInv, ResumesTyped
  <1>3. CASE Promotable(r, k)
    <2>1. /\ resumes' = resumes \cup {k} /\ current' = {k} \cup (current \ req[r].seen)
          /\ usersKey' = k /\ req' = [req EXCEPT ![r] = Idle]
          /\ UNCHANGED <<account, applicant, session, card, rendered>>
          /\ UNCHANGED <<erasure, audits, admin, exec>> /\ UNCHANGED <<store, lastKey, faults>>
      BY <1>1, <1>3 DEF UploadCommits, SyncUsersTable, Moves, otherRows, erasureVars
    <2>2. current' = {k}
      BY <1>3, <2>1 DEF Promotable
    <2> HIDE DEF k
    <2>3. ResumesTyped'
      BY <1>2, <2>1, <2>2, KeyFacts DEF IInv, ResumesTyped
    <2>4. resumes' \subseteq store'
      BY <1>2, <2>1, RequestMeansCanAct DEF IInv, VersionsHaveFiles
    <2>5. req'[r] = Idle /\ lastKey' \in Nat
      BY <2>1, BoundsAssumption DEF IInv, RequestsAreSound, ResumesTyped, KeyOrNull
    <2>6. (Sound(req[r]))'
      BY <2>5, IdleIsSound DEF Sound
    <2>7. PICK q \in ReqType : q = Idle /\ req' = [req EXCEPT ![r] = q]
      BY <2>1, IdleIsSound
    <2>8. store' \in {store, store \ {req[r].key}} /\ resumes' = resumes \cup {req[r].key}
      BY <2>1 DEF k
    <2> QED
      BY <1>1, <1>2, <2>1, <2>3, <2>4, <2>6, <2>7, <2>8, RequestGoesOn
  <1>4. CASE ~Promotable(r, k)
    <2>1. /\ req' = [req EXCEPT ![r] = [req[r] EXCEPT !.pc = "cleanup", !.seen = {}, !.holds = FALSE]]
          /\ UNCHANGED <<resumeVars, otherRows, erasureVars, store, lastKey, faults>>
      BY <1>4 DEF UploadCommits, Step, Moves
    <2>2. PICK q \in ReqType : /\ q.op = "upload" /\ q.key = req[r].key /\ q.pc = "cleanup"
                               /\ req' = [req EXCEPT ![r] = q]
      BY <1>1, <2>1 DEF ReqType
    <2>3. Sound(q) /\ faults' \in 0..MaxFaults
      BY <1>1, <2>1, <2>2 DEF Sound, IInv, ResumesTyped
    <2> QED
      BY <1>1, <2>1, <2>2, <2>3, RequestThinks
  <1> QED
    BY <1>3, <1>4

LEMMA SetCommitsKeeps == ASSUME IInv, NEW r \in Request, SetCommits(r) PROVE IInv'
  <1> DEFINE k == req[r].key
  <1>1. /\ req[r].op = "set" /\ req[r].pc = "demoted" /\ req[r] \in ReqType /\ Sound(req[r])
        /\ req' = [req EXCEPT ![r] = Idle]
        /\ UNCHANGED <<account, applicant, session, card, rendered>>
        /\ UNCHANGED <<erasure, audits, admin, exec>>
        /\ UNCHANGED <<resumes, store, lastKey, faults>>
    BY DEF SetCommits, At, Moves, IInv, RequestsAreSound, otherRows, erasureVars
  <1>2. req[r] # Idle /\ k \in Key
    BY <1>1, IdleIsSound DEF Sound
  <1>3. \/ /\ k \notin resumes \/ current \subseteq req[r].seen \cup {k}
           /\ current' = (current \ req[r].seen) \cup ({k} \cap resumes)
           /\ usersKey' = k
        \/ UNCHANGED <<current, usersKey>>
    BY DEF SetCommits, Promotable, SyncUsersTable
  <1> HIDE DEF k
  <1>4. \/ current' \subseteq current
        \/ current' \subseteq {k} \cap resumes
    BY <1>3
  <1>5. ResumesTyped'
    BY <1>1, <1>2, <1>3, <1>4, KeyFacts DEF IInv, ResumesTyped
  <1>6. resumes' \subseteq store'
    BY <1>1, <1>2, RequestMeansCanAct DEF IInv, VersionsHaveFiles
  <1>7. req'[r] = Idle /\ lastKey' \in Nat
    BY <1>1, BoundsAssumption DEF IInv, RequestsAreSound, ResumesTyped, KeyOrNull
  <1>8. (Sound(req[r]))'
    BY <1>7, IdleIsSound DEF Sound
  <1>9. PICK q \in ReqType : q = Idle /\ req' = [req EXCEPT ![r] = q]
    BY <1>1, IdleIsSound
  <1>10. store' \in {store, store \ {req[r].key}} /\ resumes' \subseteq resumes
    BY <1>1
  <1> QED
    BY <1>1, <1>2, <1>5, <1>6, <1>8, <1>9, <1>10, RequestGoesOn

LEMMA DeleteCommitsKeeps == ASSUME IInv, NEW r \in Request, DeleteCommits(r) PROVE IInv'
  <1> DEFINE k == req[r].key
             n == req[r].next
  <1>1. /\ req[r].op = "delete" /\ req[r].pc = "picked" /\ req[r] \in ReqType /\ Sound(req[r])
        /\ UNCHANGED <<account, applicant, session, card, rendered>>
        /\ UNCHANGED <<erasure, audits, admin, exec>> /\ UNCHANGED <<store, lastKey, faults>>
    BY DEF DeleteCommits, At, IInv, RequestsAreSound, otherRows, erasureVars
  <1>2. req[r] # Idle /\ k \in Key /\ n \in KeyOrNull /\ n # k /\ req[r].seen = {k}
    BY <1>1, IdleIsSound DEF Sound, ReqType
  <1>3. CASE n \notin resumes \/ Promotable(r, n)
    <2>1. /\ resumes' = resumes \ {k}
          /\ current' = (current \ {k}) \cup ({n} \cap resumes)
          /\ usersKey' \in {usersKey, n}
          /\ req' = [req EXCEPT ![r] = [req[r] EXCEPT !.pc = "drop", !.seen = {}, !.holds = FALSE]]
      BY <1>3 DEF DeleteCommits, SyncUsersTable, Step, Moves
    <2>2. PICK q \in ReqType : /\ q.op = "delete" /\ q.key = k /\ q.pc = "drop"
                               /\ req' = [req EXCEPT ![r] = q]
      BY <1>1, <2>1 DEF ReqType
    <2>3. n \notin resumes \/ current \subseteq {k, n}
      BY <1>2, <1>3 DEF Promotable
    <2>4. req'[r] = q /\ q.key = req[r].key /\ q.op = req[r].op
      BY <1>1, <2>2 DEF IInv, RequestsAreSound
    <2>5. store' \in {store, store \ {req[r].key}} /\ resumes' \subseteq resumes
      BY <1>1, <2>1
    <2> HIDE DEF k, n
    <2>6. \/ current' \subseteq current \ {k}
          \/ current' \subseteq {n} \cap resumes /\ n \in resumes'
      BY <1>2, <2>1, <2>3
    <2>7. ResumesTyped'
      BY <1>1, <1>2, <2>1, <2>6, KeyFacts DEF IInv, ResumesTyped
    <2>8. resumes' \subseteq store'
      BY <1>1, <1>2, <2>1, RequestMeansCanAct DEF IInv, VersionsHaveFiles
    <2>9. k <= lastKey
      BY <1>1 DEF Sound, k
    <2>10. (Sound(req[r]))'
      BY <1>1, <1>2, <2>1, <2>2, <2>4, <2>9 DEF Sound
    <2> QED
      BY <1>1, <1>2, <2>2, <2>4, <2>5, <2>7, <2>8, <2>10, RequestGoesOn
  <1>4. CASE ~(n \notin resumes \/ Promotable(r, n))
    <2>1. /\ req' = [req EXCEPT ![r] = Idle]
          /\ UNCHANGED <<resumeVars, otherRows, erasureVars, store, lastKey, faults>>
      BY <1>4 DEF DeleteCommits, DeleteFails, Moves
    <2>2. PICK q \in ReqType : q = Idle /\ req' = [req EXCEPT ![r] = q]
      BY <2>1, IdleIsSound
    <2>3. faults' \in 0..MaxFaults /\ req[r].op # "none"
      BY <1>1, <2>1 DEF IInv, ResumesTyped
    <2> QED
      BY <2>1, <2>2, <2>3, RequestThinks
  <1> QED
    BY <1>3, <1>4

LEMMA DropObjectKeeps == ASSUME IInv, NEW r \in Request, DropObject(r) PROVE IInv'
  <1>1. /\ req[r].pc \in {"cleanup", "drop"} /\ req[r] \in ReqType /\ Sound(req[r])
        /\ req' = [req EXCEPT ![r] = Idle]
        /\ UNCHANGED <<usersKey, resumes, current>>
        /\ UNCHANGED <<account, applicant, session, card, rendered>>
        /\ UNCHANGED <<erasure, audits, admin, exec>> /\ UNCHANGED lastKey
    BY DEF DropObject, Moves, IInv, RequestsAreSound, resumeVars, otherRows, erasureVars
  <1>2. req[r] # Idle
    BY <1>1, IdleIsSound
  <1>3. req[r].key \notin resumes
    BY <1>1, <1>2 DEF Sound, ReqType
  <1>4. store' \in {store, store \ {req[r].key}} /\ faults' \in 0..MaxFaults
    <2>1. faults \in 0..MaxFaults /\ MaxFaults \in Nat
      BY BoundsAssumption DEF IInv, ResumesTyped
    <2> QED
      BY <2>1 DEF DropObject
  <1>5. resumes' \subseteq store'
    BY <1>1, <1>2, <1>3, <1>4, RequestMeansCanAct DEF IInv, VersionsHaveFiles
  <1>6. ResumesTyped'
    BY <1>1, <1>4 DEF IInv, ResumesTyped
  <1>7. req'[r] = Idle /\ lastKey' \in Nat
    BY <1>1, BoundsAssumption DEF IInv, RequestsAreSound, ResumesTyped, KeyOrNull
  <1>8. (Sound(req[r]))'
    BY <1>7, IdleIsSound DEF Sound
  <1>9. PICK q \in ReqType : q = Idle /\ req' = [req EXCEPT ![r] = q]
    BY <1>1, IdleIsSound
  <1> QED
    BY <1>1, <1>2, <1>4, <1>5, <1>6, <1>8, <1>9, RequestGoesOn

LEMMA CandidateKeeps == ASSUME IInv, NEW r \in Request, Candidate(r) PROVE IInv'
  BY UploadPutsKeeps, DemoteKeeps, UploadCommitsKeeps, UploadFailsKeeps, SetReadsKeeps,
     DeleteReadsKeeps, SetCommitsKeeps, DeletePicksKeeps, DeleteCommitsKeeps, DropObjectKeeps,
     RequestDiesKeeps
     DEF Candidate

\* Steps that leave the files, the versions and the requests alone.
LEMMA RowsStand ==
  ASSUME IInv, UNCHANGED <<usersKey, resumes, current, store, lastKey, req>>, faults' \in 0..MaxFaults
  PROVE  ResumesTyped' /\ RequestsAreSound'
  <1>1. ResumesTyped'
    BY DEF IInv, ResumesTyped
  <1>2. \A r \in Request : (Sound(req[r]))'
    BY DEF IInv, RequestsAreSound, Sound
  <1>3. KeysDiffer'
    BY DEF IInv, RequestsAreSound, KeysDiffer
  <1> QED
    BY <1>1, <1>2, <1>3 DEF IInv, RequestsAreSound

\* Steps of the interview's rows: an executor at work finds nothing new to delete.
LEMMA InterviewMoves ==
  ASSUME IInv, UNCHANGED <<usersKey, resumes, current, store, lastKey, req>>, faults' \in 0..MaxFaults,
         UNCHANGED <<account, applicant, erasure, audits, admin, exec>>,
         AccountTyped', rendered' = rendered \/ rendered' = 0,
         session' # "gone" => session # "gone",
         card'.pdf = card.pdf \/ card'.pdf = 0 \/ CanAct,
         ~card'.row => card'.pdf = 0
  PROVE  IInv'
  <1>1. ResumesTyped' /\ RequestsAreSound'
    BY RowsStand
  <1>2. ErasuresTyped'
    BY DEF IInv, ErasuresTyped
  <1>3. CanAct' <=> CanAct
    BY DEF CanAct
  <1>4. DueIsQuiet' /\ VersionsHaveFiles'
    BY <1>3 DEF IInv, DueIsQuiet, VersionsHaveFiles
  <1>5. 0 \notin store
    BY BoundsAssumption DEF IInv, ResumesTyped, KeyOrNull
  <1>6. ASSUME NEW x \in Executor PROVE Holding(x)'
    <2>1. CASE exec[x].pc # "erasing"
      BY <2>1 DEF IInv, ErasuresAreSound, Holding
    <2>2. CASE exec[x].pc = "erasing"
      <3>1. ~CanAct
        BY <2>2, NobodyErases
      <3>2. card'.pdf = card.pdf \/ card'.pdf = 0
        BY <3>1
      <3> QED
        BY <1>5, <2>2, <3>2 DEF IInv, ErasuresAreSound, Holding
    <2> QED
      BY <2>1, <2>2
  <1>7. OneHolder' /\ FoundWereDue' /\ ErasedOnce'
    BY DEF IInv, ErasuresAreSound, OneHolder, FoundWereDue, ErasedOnce
  <1> QED
    BY <1>1, <1>2, <1>4, <1>6, <1>7 DEF IInv, ErasuresAreSound

LEMMA FaultsCount ==
  ASSUME IInv, faults' = faults \/ (faults < MaxFaults /\ faults' = faults + 1)
  PROVE  faults' \in 0..MaxFaults
  <1>1. faults \in 0..MaxFaults /\ MaxFaults \in Nat
    BY BoundsAssumption DEF IInv, ResumesTyped
  <1> QED
    BY <1>1

LEMMA ScoreKeeps == ASSUME IInv, Score PROVE IInv'
  <1>1. /\ card' = [row |-> TRUE, pdf |-> 0]
        /\ UNCHANGED <<usersKey, resumes, current, store, lastKey, req>>
        /\ UNCHANGED <<account, applicant, erasure, audits, admin, exec>>
        /\ UNCHANGED <<session, rendered, faults>>
    BY DEF Score, resumeVars, erasureVars
  <1>2. card' \in [row : BOOLEAN, pdf : KeyOrNull] /\ card'.pdf = 0 /\ card'.row
    BY <1>1, KeyFacts
  <1>3. AccountTyped' /\ faults' \in 0..MaxFaults
    BY <1>1, <1>2 DEF IInv, AccountTyped, ResumesTyped
  <1> QED
    BY <1>1, <1>2, <1>3, InterviewMoves

LEMMA RenderRecordsKeeps == ASSUME IInv, RenderRecords PROVE IInv'
  <1>1. /\ rendered # 0 /\ rendered' = 0
        /\ UNCHANGED <<usersKey, resumes, current, store, lastKey, req>>
        /\ UNCHANGED <<account, applicant, erasure, audits, admin, exec>>
        /\ UNCHANGED session
        /\ (card' = [card EXCEPT !.pdf = rendered] /\ card.row) \/ card' = card
        /\ faults' = faults \/ (faults < MaxFaults /\ faults' = faults + 1)
    BY DEF RenderRecords, resumeVars, erasureVars
  <1>2. CanAct
    BY <1>1 DEF IInv, DueIsQuiet
  <1>3. card \in [row : BOOLEAN, pdf : KeyOrNull] /\ rendered \in KeyOrNull
    BY DEF IInv, AccountTyped
  <1>4. card' \in [row : BOOLEAN, pdf : KeyOrNull] /\ (~card'.row => card'.pdf = 0)
    BY <1>1, <1>3 DEF IInv, ErasuresAreSound
  <1>5. AccountTyped' /\ faults' \in 0..MaxFaults
    BY <1>1, <1>4, FaultsCount, KeyFacts DEF IInv, AccountTyped
  <1> QED
    BY <1>1, <1>2, <1>4, <1>5, InterviewMoves

LEMMA PurgeKeeps == ASSUME IInv, PurgeExpiredSession PROVE IInv'
  <1>1. /\ session' = "gone" /\ card' = card
        /\ UNCHANGED <<usersKey, resumes, current, store, lastKey, req>>
        /\ UNCHANGED <<account, applicant, erasure, audits, admin, exec>>
        /\ UNCHANGED <<rendered, faults>>
    BY DEF PurgeExpiredSession, SurvivesPurge, resumeVars, erasureVars
  <1>2. AccountTyped' /\ faults' \in 0..MaxFaults
    BY <1>1 DEF IInv, AccountTyped, ResumesTyped
  <1>3. ~card'.row => card'.pdf = 0
    BY <1>1 DEF IInv, ErasuresAreSound
  <1> QED
    BY <1>1, <1>2, <1>3, InterviewMoves

LEMMA RenderPutsKeeps == ASSUME IInv, RenderPuts PROVE IInv'
  <1>1. PICK k \in NewKey : lastKey' = k /\ store' = store \cup {k} /\ rendered' = k
    BY DEF RenderPuts
  <1>2. /\ CanAct /\ UNCHANGED <<usersKey, resumes, current>>
        /\ UNCHANGED <<account, applicant, session, card, req, faults>>
        /\ UNCHANGED <<erasure, audits, admin, exec>>
    BY DEF RenderPuts, resumeVars, erasureVars
  <1>3. /\ k = lastKey + 1 /\ k \in Key /\ lastKey < k /\ 1..lastKey \subseteq 1..k
    BY NewKeyIsNew
  <1>4. lastKey \in Nat /\ lastKey' \in Nat /\ k \in 1..k
    BY <1>1, <1>3, BoundsAssumption DEF IInv, ResumesTyped, KeyOrNull, Key
  <1>5. ResumesTyped' /\ AccountTyped'
    BY <1>1, <1>2, <1>3, <1>4, KeyFacts DEF IInv, ResumesTyped, AccountTyped
  <1>6. ErasuresTyped'
    BY <1>2 DEF IInv, ErasuresTyped
  <1>7. ASSUME NEW r \in Request PROVE (Sound(req[r]))'
    <2>1. req[r].key \in Nat /\ req[r].key <= lastKey
      BY BoundsAssumption DEF IInv, RequestsAreSound, ReqType, Sound, KeyOrNull
    <2>2. req[r].key <= lastKey'
      BY <1>1, <1>3, <1>4, <2>1
    <2> QED
      BY <1>1, <1>2, <2>2 DEF IInv, RequestsAreSound, Sound
  <1>8. RequestsAreSound'
    BY <1>2, <1>7 DEF IInv, RequestsAreSound, KeysDiffer
  <1>9. CanAct'
    BY <1>2 DEF CanAct
  <1>10. ErasuresAreSound'
    BY <1>2, NobodyErases DEF IInv, ErasuresAreSound, Holding, OneHolder, FoundWereDue, ErasedOnce
  <1>11. resumes' \subseteq store'
    BY <1>1, <1>2 DEF IInv, VersionsHaveFiles
  <1> QED
    BY <1>5, <1>6, <1>8, <1>9, <1>10, <1>11 DEF IInv, DueIsQuiet, VersionsHaveFiles

LEMMA RequestErasureReadsKeeps == ASSUME IInv, RequestErasureReads PROVE IInv'
  <1>1. /\ admin' = TRUE
        /\ UNCHANGED <<usersKey, resumes, current, store, lastKey, req>>
        /\ UNCHANGED <<account, applicant, session, card, rendered>>
        /\ UNCHANGED <<erasure, audits, exec, faults>>
    BY DEF RequestErasureReads, resumeVars, otherRows
  <1>2. ResumesTyped' /\ RequestsAreSound'
    BY <1>1, RowsStand DEF IInv, ResumesTyped
  <1>3. AccountTyped' /\ ErasuresTyped'
    BY <1>1 DEF IInv, AccountTyped, ErasuresTyped
  <1>4. CanAct' <=> CanAct
    BY <1>1 DEF CanAct
  <1>5. DueIsQuiet' /\ VersionsHaveFiles'
    BY <1>1, <1>4 DEF IInv, DueIsQuiet, VersionsHaveFiles
  <1>6. ErasuresAreSound'
    BY <1>1 DEF IInv, ErasuresAreSound, Holding, OneHolder, FoundWereDue, ErasedOnce
  <1> QED
    BY <1>2, <1>3, <1>5, <1>6 DEF IInv

\* An administrator's commit: a new request waits for its day.
LEMMA RequestErasureCommitsKeeps == ASSUME IInv, RequestErasureCommits PROVE IInv'
  <1>1. /\ admin' \in BOOLEAN
        /\ UNCHANGED <<usersKey, resumes, current, store, lastKey, req>>
        /\ UNCHANGED <<applicant, card, rendered, audits, exec, faults>>
    BY DEF RequestErasureCommits, resumeVars
  <1>2. ResumesTyped' /\ RequestsAreSound'
    BY <1>1, RowsStand DEF IInv, ResumesTyped
  <1>3. /\ account' \in {account, "closing"}
        /\ session' = session \/ (session' = "soft" /\ session # "gone")
    BY DEF RequestErasureCommits
  <1>4. AccountTyped'
    BY <1>1, <1>3 DEF IInv, AccountTyped
  <1>5. /\ erasure' \in [Erasure -> {"none", "pending", "due", "completed"}]
        /\ \A e \in Erasure : \/ erasure'[e] = erasure[e]
                              \/ erasure[e] = "none" /\ erasure'[e] = "pending"
    BY DEF RequestErasureCommits, FirstUnused, IInv, ErasuresTyped
  <1>6. ErasuresTyped'
    BY <1>1, <1>5 DEF IInv, ErasuresTyped
  <1>7. CanAct' <=> CanAct
    BY <1>5 DEF CanAct
  <1>8. DueIsQuiet' /\ VersionsHaveFiles'
    BY <1>1, <1>7 DEF IInv, DueIsQuiet, VersionsHaveFiles
  <1>9. ASSUME NEW x \in Executor PROVE Holding(x)'
    BY <1>1, <1>3, <1>5 DEF IInv, ErasuresAreSound, Holding
  <1>10. OneHolder' /\ ErasedOnce' /\ (~card'.row => card'.pdf = 0)
    BY <1>1, <1>5 DEF IInv, ErasuresAreSound, OneHolder, ErasedOnce
  <1>11. FoundWereDue'
    <2>1. \A x \in Executor : exec[x].found \subseteq Erasure
      BY DEF IInv, ErasuresTyped, ExecType
    <2> QED
      BY <1>1, <1>5, <2>1 DEF IInv, ErasuresAreSound, FoundWereDue
  <1> QED
    BY <1>2, <1>4, <1>6, <1>8, <1>9, <1>10, <1>11 DEF IInv, ErasuresAreSound

LEMMA ComesDueKeeps == ASSUME IInv, NEW e \in Erasure, ComesDue(e) PROVE IInv'
  <1>1. /\ erasure[e] = "pending" /\ erasure' = [erasure EXCEPT ![e] = "due"]
        /\ rendered = 0 /\ \A r \in Request : req[r] = Idle
        /\ UNCHANGED <<usersKey, resumes, current, store, lastKey, req>>
        /\ UNCHANGED <<account, applicant, session, card, rendered>>
        /\ UNCHANGED <<audits, admin, exec, faults>>
    BY DEF ComesDue, resumeVars, otherRows
  <1>2. ResumesTyped' /\ RequestsAreSound'
    BY <1>1, RowsStand DEF IInv, ResumesTyped
  <1>3. /\ erasure' \in [Erasure -> {"none", "pending", "due", "completed"}]
        /\ erasure'[e] = "due" /\ \A f \in Erasure \ {e} : erasure'[f] = erasure[f]
    BY <1>1 DEF IInv, ErasuresTyped
  <1>4. AccountTyped' /\ ErasuresTyped'
    BY <1>1, <1>3 DEF IInv, AccountTyped, ErasuresTyped
  <1>5. ~CanAct'
    BY <1>3 DEF CanAct
  <1>6. DueIsQuiet' /\ VersionsHaveFiles'
    BY <1>1, <1>5 DEF DueIsQuiet, VersionsHaveFiles
  <1>7. ASSUME NEW x \in Executor PROVE Holding(x)'
    BY <1>1, <1>3 DEF IInv, ErasuresAreSound, Holding
  <1>8. OneHolder' /\ ErasedOnce' /\ (~card'.row => card'.pdf = 0)
    BY <1>1, <1>3 DEF IInv, ErasuresAreSound, OneHolder, ErasedOnce
  <1>9. FoundWereDue'
    <2>1. \A x \in Executor : exec[x].found \subseteq Erasure
      BY DEF IInv, ErasuresTyped, ExecType
    <2> QED
      BY <1>1, <1>3, <2>1 DEF IInv, ErasuresAreSound, FoundWereDue
  <1> QED
    BY <1>2, <1>4, <1>6, <1>7, <1>8, <1>9 DEF IInv, ErasuresAreSound

\* A step of one executor that writes no row.
LEMMA ExecutorMoves ==
  ASSUME IInv, NEW x \in Executor, NEW z \in ExecType, exec' = [exec EXCEPT ![x] = z],
         UNCHANGED <<resumeVars, otherRows, lastKey, req, erasure, audits, admin>>,
         faults' \in 0..MaxFaults,
         store' = store \/ (store' \subseteq store /\ ~CanAct),
         Holding(x)', z.on = 0 \/ \A y \in Executor \ {x} : exec[y].on # z.on,
         \A y \in Executor \ {x} : Holding(y)',
         \A e \in z.found : erasure[e] \in {"due", "completed"}
  PROVE  IInv'
  <1>1. /\ UNCHANGED <<usersKey, resumes, current, lastKey, req>>
        /\ UNCHANGED <<account, applicant, session, card, rendered>>
        /\ UNCHANGED <<erasure, audits, admin>>
    BY DEF resumeVars, otherRows
  <1>2. exec'[x] = z /\ \A y \in Executor \ {x} : exec'[y] = exec[y]
    BY DEF IInv, ErasuresTyped
  <1>3. CanAct' <=> CanAct
    BY <1>1 DEF CanAct
  <1>4. ResumesTyped'
    BY <1>1 DEF IInv, ResumesTyped
  <1>5. RequestsAreSound'
    <2>1. CASE store' = store
      BY <1>1, <2>1, RowsStand
    <2>2. CASE ~CanAct
      <3>1. \A r \in Request : req'[r] = Idle /\ req'[r].op = "none"
        BY <1>1, <2>2, IdleIsSound DEF IInv, DueIsQuiet
      <3>2. \A r \in Request : (Sound(req[r]))'
        BY <1>1, <3>1 DEF IInv, RequestsAreSound, Sound
      <3> QED
        BY <1>1, <3>1, <3>2 DEF IInv, RequestsAreSound, KeysDiffer
    <2> QED
      BY <2>1, <2>2
  <1>6. AccountTyped' /\ ErasuresTyped'
    BY <1>1 DEF IInv, AccountTyped, ErasuresTyped
  <1>7. DueIsQuiet' /\ VersionsHaveFiles'
    BY <1>1, <1>3 DEF IInv, DueIsQuiet, VersionsHaveFiles
  <1>8. OneHolder'
    BY <1>2 DEF IInv, ErasuresAreSound, OneHolder
  <1>9. FoundWereDue'
    BY <1>1, <1>2 DEF IInv, ErasuresAreSound, FoundWereDue
  <1>10. ErasedOnce' /\ (~card'.row => card'.pdf = 0)
    BY <1>1 DEF IInv, ErasuresAreSound, ErasedOnce
  <1>11. \A y \in Executor : Holding(y)'
    OBVIOUS
  <1> QED
    BY <1>4, <1>5, <1>6, <1>7, <1>8, <1>9, <1>10, <1>11 DEF IInv, ErasuresAreSound

\* What an executor holds stays what it holds when files only go.
LEMMA OthersHold ==
  ASSUME IInv, UNCHANGED <<usersKey, session, card, erasure>>, store' \subseteq store,
         NEW y \in Executor, exec'[y] = exec[y]
  PROVE  Holding(y)'
  BY DEF IInv, ErasuresAreSound, Holding

\* A step after which the executor holds nothing.
LEMMA ExecutorLetsGo ==
  ASSUME IInv, NEW x \in Executor, NEW z \in ExecType, exec' = [exec EXCEPT ![x] = z],
         UNCHANGED <<resumeVars, otherRows, store, lastKey, req, erasure, audits, admin>>,
         faults' \in 0..MaxFaults, z.pc # "erasing", z.on = 0,
         \A e \in z.found : erasure[e] \in {"due", "completed"}
  PROVE  IInv'
  <1>1. exec'[x] = z /\ \A y \in Executor \ {x} : exec'[y] = exec[y]
    BY DEF IInv, ErasuresTyped
  <1>2. Holding(x)'
    BY <1>1 DEF Holding
  <1>3. UNCHANGED <<usersKey, session, card, erasure>>
    BY DEF resumeVars, otherRows
  <1>4. \A y \in Executor \ {x} : Holding(y)'
    BY <1>1, <1>3, OthersHold
  <1> QED
    BY <1>2, <1>4, ExecutorMoves

LEMMA FoundKnown ==
  ASSUME IInv, NEW x \in Executor
  PROVE  exec[x] \in ExecType /\ \A e \in exec[x].found : erasure[e] \in {"due", "completed"}
  BY DEF IInv, ErasuresTyped, ErasuresAreSound, FoundWereDue

LEMMA DiscoverKeeps == ASSUME IInv, NEW x \in Executor, Discover(x) PROVE IInv'
  <1> DEFINE due == {e \in Erasure : erasure[e] = "due"}
  <1>1. /\ exec' = [exec EXCEPT ![x] = [Resting EXCEPT !.pc = "polling", !.found = due]]
        /\ UNCHANGED <<resumeVars, otherRows, store, lastKey, req, erasure, audits, admin, faults>>
    BY DEF Discover, Runs
  <1>2. [Resting EXCEPT !.pc = "polling", !.found = due] \in ExecType
    BY IdleIsSound DEF Resting, ExecType
  <1>3. PICK z \in ExecType : /\ exec' = [exec EXCEPT ![x] = z] /\ z.pc = "polling" /\ z.on = 0
                              /\ z.found = due
    BY <1>1, <1>2 DEF Resting
  <1>4. faults' \in 0..MaxFaults
    BY <1>1 DEF IInv, ResumesTyped
  <1> QED
    BY <1>1, <1>3, <1>4, ExecutorLetsGo

LEMMA CycleEndsKeeps == ASSUME IInv, NEW x \in Executor, CycleEnds(x) PROVE IInv'
  <1>1. /\ exec' = [exec EXCEPT ![x] = Resting]
        /\ UNCHANGED <<resumeVars, otherRows, store, lastKey, req, erasure, audits, admin, faults>>
    BY DEF CycleEnds, Runs
  <1>2. faults' \in 0..MaxFaults
    BY <1>1 DEF IInv, ResumesTyped
  <1> QED
    BY <1>1, <1>2, IdleIsSound, ExecutorLetsGo

LEMMA ExecutorDiesKeeps == ASSUME IInv, NEW x \in Executor, ExecutorDies(x) PROVE IInv'
  <1>1. /\ exec' = [exec EXCEPT ![x] = Resting]
        /\ UNCHANGED <<resumeVars, otherRows, store, lastKey, req, erasure, audits, admin>>
        /\ faults < MaxFaults /\ faults' = faults + 1
    BY DEF ExecutorDies, Runs
  <1>2. faults' \in 0..MaxFaults
    BY <1>1, FaultsCount
  <1> QED
    BY <1>1, <1>2, IdleIsSound, ExecutorLetsGo

\* A roll back keeps the list of requests still to try.
LEMMA RolledBackIs ==
  ASSUME IInv, NEW x \in Executor
  PROVE  /\ RolledBack(x) \in ExecType /\ RolledBack(x).pc = "polling" /\ RolledBack(x).on = 0
         /\ RolledBack(x).found = exec[x].found
  <1>1. exec[x] \in ExecType /\ 0 \in 0..MaxErasures
    BY BoundsAssumption DEF IInv, ErasuresTyped
  <1> QED
    BY <1>1 DEF RolledBack, ExecType

LEMMA StoreRefusesKeeps == ASSUME IInv, NEW x \in Executor, StoreRefuses(x) PROVE IInv'
  <1>1. /\ exec' = [exec EXCEPT ![x] = RolledBack(x)]
        /\ UNCHANGED <<resumeVars, otherRows, store, lastKey, req, erasure, audits, admin>>
        /\ faults < MaxFaults /\ faults' = faults + 1
    BY DEF StoreRefuses, Runs, AfterRefusal
  <1>2. PICK z \in ExecType : /\ exec' = [exec EXCEPT ![x] = z] /\ z.pc = "polling" /\ z.on = 0
                              /\ z.found = exec[x].found
    BY <1>1, RolledBackIs
  <1>3. faults' \in 0..MaxFaults
    BY <1>1, FaultsCount
  <1> QED
    BY <1>1, <1>2, <1>3, FoundKnown, ExecutorLetsGo

\* The claim takes what nobody holds, and collects every key it will vouch for.
LEMMA ClaimKeeps == ASSUME IInv, NEW x \in Executor, NEW e \in Erasure, Claim(x, e) PROVE IInv'
  <1>1. /\ exec[x].pc = "polling" /\ e \in exec[x].found
        /\ UNCHANGED <<resumeVars, otherRows, store, lastKey, req, erasure, audits, admin, faults>>
    BY DEF Claim
  <1>2. exec[x] \in ExecType /\ faults' \in 0..MaxFaults
    BY <1>1 DEF IInv, ErasuresTyped, ResumesTyped
  <1>3. exec[x].on = 0
    BY <1>1 DEF IInv, ErasuresAreSound, Holding
  <1>4. CASE ~Claimable(e)
    <2>1. exec' = [exec EXCEPT ![x] = [exec[x] EXCEPT !.found = exec[x].found \ {e}]]
      BY <1>4 DEF Claim, Runs
    <2>2. PICK z \in ExecType : /\ exec' = [exec EXCEPT ![x] = z] /\ z.pc = "polling" /\ z.on = 0
                                /\ z.found = exec[x].found \ {e}
      <3> DEFINE z == [exec[x] EXCEPT !.found = exec[x].found \ {e}]
      <3>1. z \in ExecType /\ z.pc = "polling" /\ z.on = 0 /\ z.found = exec[x].found \ {e}
        BY <1>1, <1>2, <1>3 DEF ExecType
      <3> QED
        BY <2>1, <3>1
    <2> QED
      BY <1>1, <1>2, <2>2, FoundKnown, ExecutorLetsGo
  <1>5. CASE Claimable(e)
    <2> DEFINE z == [pc |-> "erasing", found |-> exec[x].found \ {e}, on |-> e, keys |-> CollectedKeys]
    <2>1. exec' = [exec EXCEPT ![x] = z]
      BY <1>5 DEF Claim, Runs
    <2>2. usersKey \in KeyOrNull /\ card.pdf \in KeyOrNull /\ 0 \notin store
      BY BoundsAssumption DEF IInv, ResumesTyped, AccountTyped, KeyOrNull
    <2>3. CollectedKeys \subseteq Key
      BY <2>2, KeyFacts DEF CollectedKeys
    <2>4. e \in 0..MaxErasures /\ e # 0
      BY BoundsAssumption DEF Erasure
    <2>5. z \in ExecType /\ z.on = e /\ z.found \subseteq exec[x].found
      BY <1>2, <2>3, <2>4 DEF ExecType
    <2>6. /\ usersKey \in CollectedKeys \/ usersKey \notin store
          /\ session # "gone" => card.pdf \in CollectedKeys \/ card.pdf \notin store
      BY <2>2 DEF CollectedKeys, IInv, ErasuresAreSound
    <2>7. UNCHANGED <<usersKey, session, card, erasure, store>>
      BY <1>1 DEF resumeVars, otherRows
    <2>8. /\ exec'[x] = z /\ \A y \in Executor \ {x} : exec'[y] = exec[y]
      BY <2>1 DEF IInv, ErasuresTyped
    <2>9. Holding(x)'
      BY <1>5, <2>6, <2>7, <2>8 DEF Holding, Claimable
    <2>10. \A y \in Executor \ {x} : Holding(y)'
      BY <2>7, <2>8, OthersHold
    <2>11. \A y \in Executor \ {x} : exec[y].on # z.on
      BY <1>5 DEF Claimable
    <2> HIDE DEF z
    <2> QED
      BY <1>1, <1>2, <2>1, <2>5, <2>9, <2>10, <2>11, FoundKnown, ExecutorMoves
  <1> QED
    BY <1>4, <1>5

\* While an executor works an erasure is due.
LEMMA WorkMeansDue ==
  ASSUME IInv, NEW x \in Executor, exec[x].pc = "erasing" PROVE ~CanAct
  BY NobodyErases

LEMMA DeleteOneKeeps == ASSUME IInv, NEW x \in Executor, NEW k \in Key, DeleteOne(x, k) PROVE IInv'
  <1>1. /\ exec[x].pc = "erasing" /\ k \in exec[x].keys /\ store' = store \ {k}
        /\ exec' = [exec EXCEPT ![x] = [exec[x] EXCEPT !.keys = exec[x].keys \ {k}]]
        /\ UNCHANGED <<resumeVars, otherRows, lastKey, req, erasure, audits, admin, faults>>
    BY DEF DeleteOne, Runs
  <1>2. exec[x] \in ExecType /\ faults' \in 0..MaxFaults
    BY <1>1 DEF IInv, ErasuresTyped, ResumesTyped
  <1>3. PICK z \in ExecType : /\ exec' = [exec EXCEPT ![x] = z] /\ z.pc = "erasing"
                              /\ z.on = exec[x].on /\ z.found = exec[x].found
                              /\ z.keys = exec[x].keys \ {k}
    <2> DEFINE z == [exec[x] EXCEPT !.keys = exec[x].keys \ {k}]
    <2>1. /\ z \in ExecType /\ z.pc = "erasing" /\ z.on = exec[x].on
          /\ z.found = exec[x].found /\ z.keys = exec[x].keys \ {k}
      BY <1>1, <1>2 DEF ExecType
    <2> QED
      BY <1>1, <2>1
  <1>4. /\ exec'[x] = z /\ \A y \in Executor \ {x} : exec'[y] = exec[y]
    BY <1>3 DEF IInv, ErasuresTyped
  <1>5. UNCHANGED <<usersKey, session, card, erasure>> /\ store' \subseteq store
    BY <1>1 DEF resumeVars, otherRows
  <1>6. Holding(x)'
    BY <1>1, <1>3, <1>4, <1>5 DEF IInv, ErasuresAreSound, Holding
  <1>7. \A y \in Executor \ {x} : Holding(y)'
    BY <1>4, <1>5, OthersHold
  <1>8. z.on = 0 \/ \A y \in Executor \ {x} : exec[y].on # z.on
    BY <1>3 DEF IInv, ErasuresAreSound, OneHolder
  <1>9. ~CanAct
    BY <1>1, WorkMeansDue
  <1> QED
    BY <1>1, <1>2, <1>3, <1>5, <1>6, <1>7, <1>8, <1>9, FoundKnown, ExecutorMoves

\* The commit of an erasure: the files it vouched for are gone, and nobody else holds it.
LEMMA EraseCommitsKeeps ==
  ASSUME IInv, NEW x \in Executor, EraseCommits(x)
  PROVE  /\ IInv'
         /\ \A e \in Erasure : erasure'[e] = "completed" /\ erasure[e] # "completed"
              => /\ usersKey \notin store
                 /\ session # "gone" => card.pdf \notin store
  <1> DEFINE e == exec[x].on
  <1>1. /\ exec[x].pc = "erasing" /\ exec[x].keys = {}
        /\ erasure' = [erasure EXCEPT ![e] = "completed"]
        /\ audits' = [audits EXCEPT ![e] = audits[e] + 1]
        /\ exec' = [exec EXCEPT ![x] = RolledBack(x)]
        /\ UNCHANGED <<rendered, store, lastKey, req, admin, faults>>
    BY DEF EraseCommits, Stamped, Runs
  <1>2. /\ resumes' = {} /\ current' = {} /\ usersKey' = 0
        /\ account' = "erased" /\ session' = "gone"
        /\ card' = [row |-> FALSE, pdf |-> 0] \/ card' = card
        /\ applicant' = [row |-> "redacted", mine |-> FALSE, key |-> 0] \/ applicant' = applicant
    BY DEF EraseCommits, RowsErased
  <1>3. /\ e \in Erasure /\ e # 0 /\ erasure[e] = "due"
        /\ usersKey \notin store /\ (session # "gone" => card.pdf \notin store)
    BY <1>1, BoundsAssumption DEF IInv, ErasuresAreSound, Holding, Erasure
  <1>7. ASSUME NEW y \in Executor \ {x} PROVE exec[y].on # e
    <2>1. OneHolder /\ e # 0
      BY <1>3 DEF IInv, ErasuresAreSound
    <2> QED
      BY <2>1 DEF OneHolder
  <1> HIDE DEF e
  <1>4. /\ erasure' \in [Erasure -> {"none", "pending", "due", "completed"}]
        /\ erasure'[e] = "completed" /\ \A f \in Erasure \ {e} : erasure'[f] = erasure[f]
    BY <1>1, <1>3 DEF IInv, ErasuresTyped
  <1>5. /\ audits' \in [Erasure -> Nat] /\ audits'[e] = audits[e] + 1
        /\ \A f \in Erasure \ {e} : audits'[f] = audits[f]
    BY <1>1, <1>3 DEF IInv, ErasuresTyped
  <1>6. /\ exec' \in [Executor -> ExecType] /\ exec'[x] = RolledBack(x)
        /\ \A y \in Executor \ {x} : exec'[y] = exec[y]
    BY <1>1, RolledBackIs DEF IInv, ErasuresTyped
  <1>8. AccountTyped'
    <2>1. card' \in [row : BOOLEAN, pdf : KeyOrNull]
      <3>1. [row |-> FALSE, pdf |-> 0] \in [row : BOOLEAN, pdf : KeyOrNull]
        BY KeyFacts
      <3> QED
        BY <1>2, <3>1 DEF IInv, AccountTyped
    <2>2. applicant' \in [row : {"none", "held", "redacted"}, mine : BOOLEAN, key : KeyOrNull]
      <3>1. [row |-> "redacted", mine |-> FALSE, key |-> 0]
               \in [row : {"none", "held", "redacted"}, mine : BOOLEAN, key : KeyOrNull]
        BY KeyFacts
      <3> QED
        BY <1>2, <3>1 DEF IInv, AccountTyped
    <2>3. rendered' \in KeyOrNull
      BY <1>1 DEF IInv, AccountTyped
    <2> QED
      BY <1>2, <2>1, <2>2, <2>3 DEF AccountTyped
  <1>9. ErasuresTyped'
    BY <1>1, <1>4, <1>5, <1>6 DEF IInv, ErasuresTyped
  <1>10. ResumesTyped'
    BY <1>1, <1>2, KeyFacts DEF IInv, ResumesTyped
  <1>11. ~CanAct /\ ~CanAct'
    BY <1>3, <1>4 DEF CanAct
  <1>12. \A r \in Request : req'[r] = Idle /\ req'[r].op = "none"
    BY <1>1, <1>11, IdleIsSound DEF IInv, DueIsQuiet
  <1>13. RequestsAreSound'
    <2>1. \A r \in Request : (Sound(req[r]))'
      BY <1>1, <1>12 DEF IInv, RequestsAreSound, Sound
    <2> QED
      BY <1>1, <1>12, <2>1 DEF IInv, RequestsAreSound, KeysDiffer
  <1>14. DueIsQuiet' /\ VersionsHaveFiles'
    BY <1>1, <1>11, <1>12 DEF IInv, DueIsQuiet, VersionsHaveFiles
  <1>15. 0 \notin store
    BY BoundsAssumption DEF IInv, ResumesTyped, KeyOrNull
  <1>16. ASSUME NEW y \in Executor PROVE Holding(y)'
    <2>1. CASE y = x
      BY <1>6, <2>1, RolledBackIs DEF Holding
    <2>2. CASE y # x
      <3>1. exec'[y] = exec[y] /\ exec[y].on # e
        BY <1>6, <1>7, <2>2
      <3>2. exec[y].pc = "erasing" => exec[y].on \in Erasure /\ erasure[exec[y].on] = "due"
        BY DEF IInv, ErasuresAreSound, Holding
      <3>3. exec[y].pc # "erasing" => exec[y].on = 0
        BY DEF IInv, ErasuresAreSound, Holding
      <3> QED
        BY <1>1, <1>2, <1>4, <1>15, <3>1, <3>2, <3>3 DEF Holding
    <2> QED
      BY <2>1, <2>2
  <1>17. OneHolder'
    BY <1>6, RolledBackIs DEF IInv, ErasuresAreSound, OneHolder
  <1>18. FoundWereDue'
    <2>1. \A y \in Executor : exec'[y].found = exec[y].found /\ exec[y].found \subseteq Erasure
      BY <1>6, RolledBackIs DEF IInv, ErasuresTyped, ExecType
    <2> QED
      BY <1>4, <2>1 DEF IInv, ErasuresAreSound, FoundWereDue
  <1>19. ErasedOnce'
    <2>1. audits[e] = 0
      BY <1>3 DEF IInv, ErasuresAreSound, ErasedOnce
    <2> QED
      BY <1>4, <1>5, <2>1 DEF IInv, ErasuresAreSound, ErasedOnce
  <1>20. ~card'.row => card'.pdf = 0
    BY <1>2 DEF IInv, ErasuresAreSound
  <1> QED
    BY <1>3, <1>4, <1>8, <1>9, <1>10, <1>13, <1>14, <1>16, <1>17, <1>18, <1>19, <1>20
       DEF IInv, ErasuresAreSound

StampIsEarned ==
    \A e \in Erasure : erasure'[e] = "completed" /\ erasure[e] # "completed"
       => /\ usersKey \notin store
          /\ session # "gone" => card.pdf \notin store

LEMMA StepIInv == IInv /\ [Next]_vars => IInv' /\ StampIsEarned
  <1> SUFFICES ASSUME IInv, [Next]_vars PROVE IInv' /\ StampIsEarned
    OBVIOUS
  <1>1. CASE UNCHANGED vars
    <2>1. /\ UNCHANGED <<usersKey, resumes, current, store, lastKey, req>>
          /\ UNCHANGED <<account, applicant, session, card, rendered>>
          /\ UNCHANGED <<erasure, audits, admin, exec, faults>>
      BY <1>1 DEF vars
    <2>2. AccountTyped' /\ faults' \in 0..MaxFaults /\ (~card'.row => card'.pdf = 0)
      BY <2>1 DEF IInv, AccountTyped, ResumesTyped, ErasuresAreSound
    <2> QED
      BY <2>1, <2>2, InterviewMoves DEF StampIsEarned
  <1>2. ASSUME NEW r \in Request, Candidate(r) PROVE IInv' /\ StampIsEarned
    <2>1. UNCHANGED erasure
      BY <1>2 DEF Candidate, UploadPuts, Demote, UploadCommits, UploadFails, SetReads, DeleteReads,
                  SetCommits, DeletePicks, DeleteCommits, DropObject, RequestDies, erasureVars
    <2> QED
      BY <1>2, <2>1, CandidateKeeps DEF StampIsEarned
  <1>3. CASE Score \/ RenderPuts \/ RenderRecords \/ PurgeExpiredSession
    <2>1. UNCHANGED erasure
      BY <1>3 DEF Score, RenderPuts, RenderRecords, PurgeExpiredSession, erasureVars
    <2> QED
      BY <1>3, <2>1, ScoreKeeps, RenderPutsKeeps, RenderRecordsKeeps, PurgeKeeps DEF StampIsEarned
  <1>4. CASE RequestErasureReads
    <2>1. UNCHANGED erasure
      BY <1>4 DEF RequestErasureReads
    <2> QED
      BY <1>4, <2>1, RequestErasureReadsKeeps DEF StampIsEarned
  <1>5. CASE RequestErasureCommits
    <2>1. \A e \in Erasure : erasure'[e] = "completed" => erasure[e] = "completed"
      BY <1>5 DEF RequestErasureCommits, IInv, ErasuresTyped
    <2> QED
      BY <1>5, <2>1, RequestErasureCommitsKeeps DEF StampIsEarned
  <1>6. ASSUME NEW e \in Erasure, ComesDue(e) PROVE IInv' /\ StampIsEarned
    <2>1. \A f \in Erasure : erasure'[f] = "completed" => erasure[f] = "completed"
      BY <1>6 DEF ComesDue, IInv, ErasuresTyped
    <2> QED
      BY <1>6, <2>1, ComesDueKeeps DEF StampIsEarned
  <1>7. ASSUME NEW x \in Executor, StoreRefuses(x) \/ ExecutorDies(x) PROVE IInv' /\ StampIsEarned
    <2>1. UNCHANGED erasure
      BY <1>7 DEF StoreRefuses, ExecutorDies
    <2> QED
      BY <1>7, <2>1, StoreRefusesKeeps, ExecutorDiesKeeps DEF StampIsEarned
  <1>8. ASSUME NEW x \in Executor, Discover(x) \/ CycleEnds(x) PROVE IInv' /\ StampIsEarned
    <2>1. UNCHANGED erasure
      BY <1>8 DEF Discover, CycleEnds
    <2> QED
      BY <1>8, <2>1, DiscoverKeeps, CycleEndsKeeps DEF StampIsEarned
  <1>9. ASSUME NEW x \in Executor, NEW e \in Erasure, Claim(x, e) PROVE IInv' /\ StampIsEarned
    <2>1. UNCHANGED erasure
      BY <1>9 DEF Claim
    <2> QED
      BY <1>9, <2>1, ClaimKeeps DEF StampIsEarned
  <1>10. ASSUME NEW x \in Executor, NEW k \in Key, DeleteOne(x, k) PROVE IInv' /\ StampIsEarned
    <2>1. UNCHANGED erasure
      BY <1>10 DEF DeleteOne
    <2> QED
      BY <1>10, <2>1, DeleteOneKeeps DEF StampIsEarned
  <1>11. ASSUME NEW x \in Executor, EraseCommits(x) PROVE IInv' /\ StampIsEarned
    BY <1>11, EraseCommitsKeeps DEF StampIsEarned
  <1> QED
    BY <1>1, <1>2, <1>3, <1>4, <1>5, <1>6, <1>7, <1>8, <1>9, <1>10, <1>11 DEF Next, Erases

LEMMA SpecIInv == Spec => []IInv
  BY InitIInv, StepIInv, PTL DEF Spec

LEMMA TypedIsTypeOK == IInv => TypeOK
  <1> SUFFICES ASSUME IInv PROVE TypeOK
    OBVIOUS
  <1>1. Cardinality(current) <= 1
    <2>1. CASE current = {}
      BY <2>1, FS_EmptySet
    <2>2. ASSUME NEW k \in current PROVE Cardinality(current) <= 1
      <3>1. current = {k}
        BY DEF IInv, ResumesTyped
      <3> QED
        BY <3>1, FS_Singleton
    <2> QED
      BY <2>1, <2>2
  <1>2. \A r \in Request : DOMAIN req[r] = DOMAIN Idle
    BY DEF IInv, RequestsAreSound, ReqType, Idle
  <1>3. \A x \in Executor : exec[x].found \subseteq Erasure /\ exec[x].keys \subseteq Key
    BY DEF IInv, ErasuresTyped, ExecType
  <1> QED
    BY <1>1, <1>2, <1>3 DEF TypeOK, IInv, AccountTyped, ResumesTyped, ErasuresTyped

\* Rows, files, erasures, requests and executors keep their types.
THEOREM PersonalTypeCorrect == Spec => []TypeOK
  BY SpecIInv, TypedIsTypeOK, PTL

\* Whatever uploads, switches and deletions race or fail, every version a candidate who can
\* act has a row for has its file in the store.
THEOREM VersionsHaveFilesHolds == Spec => []VersionsHaveFiles
  <1>1. IInv => VersionsHaveFiles
    BY DEF IInv
  <1> QED
    BY <1>1, SpecIInv, PTL

\* Executors that find one erasure at once, crash and try again carry it out and audit it once.
THEOREM ErasedOnceHolds == Spec => []ErasedOnce
  <1>1. IInv => ErasedOnce
    BY DEF IInv, ErasuresAreSound
  <1> QED
    BY <1>1, SpecIInv, PTL

\* An erasure is stamped completed only when the file of the current resume and, while the
\* session has its row, that of the scorecard are gone.
THEOREM StampedOnlyWhenGoneHolds == Spec => StampedOnlyWhenGone
  <1>1. StampIsEarned =>
          \A e \in Erasure : erasure'[e] = "completed" /\ erasure[e] # "completed"
             => /\ usersKey \notin store
                /\ session # "gone" => card.pdf \notin store
    BY DEF StampIsEarned
  <1> QED
    BY <1>1, SpecIInv, StepIInv, PTL DEF Spec, StampedOnlyWhenGone

-----------------------------------------------------------------------------
(* Consent.                                                                 *)
(* Machine-checked proofs about Consent, for every set of requests and rows. *)

(* A withdrawal still knows, or will look up, each row active at its start.   *)
Covering ==
    \A r \in Caller :
        /\ held[r] \cup seen[r] \subseteq Recorded
        /\ flushed[r] \subseteq seen[r]
        /\ pc[r] = "idle" => seen[r] = {}
        /\ pc[r] # "withdrawing" => flushed[r] = {}
        /\ pc[r] = "withdrawing" =>
              \A x \in held[r] : \/ status[x] = "revoked"
                                 \/ x \in seen[r]
                                 \/ type[x] \in todo[r]

ConsentIInv == /\ ConsentTypeOK /\ OneActivePerType /\ AnswersNameRows
               /\ LocksAreExclusive /\ Covering /\ WithdrawalCovers

\* The constants are such.
Sorts == Voice \in Type /\ NoRow \notin Row

LEMMA ConsentInitIInv == ASSUME Sorts PROVE ConsentInit => ConsentIInv
  BY DEF Sorts, ConsentInit, ConsentIInv, ConsentTypeOK, OneActivePerType, AnswersNameRows, LocksAreExclusive, Covering,
         WithdrawalCovers, Recorded, Stage

-----------------------------------------------------------------------------
(* Requests that leave the ledger as it is.                                 *)

LEMMA KeepsLedger ==
  ASSUME Sorts, ConsentIInv, UNCHANGED ledger, UNCHANGED withdrawal, ConsentTypeOK', AnswersNameRows',
         NEW r \in Caller, pc[r] # "withdrawing", pc'[r] \notin {"idle", "withdrawing", "withdrawn", "nothing"},
         \A q \in Caller \ {r} : pc'[q] = pc[q]
  PROVE  ConsentIInv'
  BY DEF ConsentIInv, ledger, withdrawal, OneActivePerType, LocksAreExclusive, Covering, WithdrawalCovers,
         Recorded

LEMMA Answering ==
  ASSUME Sorts, ConsentIInv, NEW r \in Caller,
         \/ \E x \in Row : RecordFinds(r, x)
         \/ \E t \in Type : RecordMisses(r, t)
         \/ RecordCollides(r) \/ RecordRequeries(r) \/ SessionIsChecked(r) \/ SessionIsCreated(r)
  PROVE  ConsentIInv'
  <1> USE DEF Sorts, Goes, Active, Stage
  <1>1. ConsentTypeOK'
    BY DEF ConsentIInv, ConsentTypeOK, RecordFinds, RecordMisses, RecordCollides, RecordRequeries,
           SessionIsChecked, SessionIsCreated, ledger, withdrawal
  <1>2. UNCHANGED ledger /\ UNCHANGED withdrawal
    BY DEF RecordFinds, RecordMisses, RecordCollides, RecordRequeries, SessionIsChecked,
           SessionIsCreated
  <1>3. /\ pc[r] # "withdrawing"
        /\ pc'[r] \notin {"idle", "withdrawing", "withdrawn", "nothing"}
        /\ \A q \in Caller \ {r} : pc'[q] = pc[q] /\ want'[q] = want[q] /\ answer'[q] = answer[q]
    BY DEF ConsentIInv, ConsentTypeOK, RecordFinds, RecordMisses, RecordCollides, RecordRequeries,
           SessionIsChecked, SessionIsCreated
  <1>4. /\ pc'[r] = "granted" => answer'[r] \in Recorded /\ type[answer'[r]] = want'[r]
        /\ pc'[r] \in {"checked", "created"} => answer'[r] \in Recorded /\ type[answer'[r]] = Voice
    BY DEF ConsentIInv, ConsentTypeOK, AnswersNameRows, Recorded, RecordFinds, RecordMisses, RecordCollides,
           RecordRequeries, SessionIsChecked, SessionIsCreated
  <1>5. AnswersNameRows'
    BY <1>2, <1>3, <1>4 DEF ConsentIInv, AnswersNameRows, Recorded, ledger
  <1> QED
    BY <1>1, <1>2, <1>3, <1>5, KeepsLedger

LEMMA Granting ==
  ASSUME Sorts, ConsentIInv, NEW r \in Caller, NEW x \in Row, RecordCommits(r, x)
  PROVE  ConsentIInv'
  <1> USE DEF Sorts, Goes, RecordCommits, withdrawal
  <1>1. ConsentTypeOK'
    BY DEF ConsentIInv, ConsentTypeOK, Stage
  <1>2. /\ status'[x] = "active" /\ type'[x] = want[r]
        /\ \A y \in Row \ {x} : status'[y] = status[y] /\ type'[y] = type[y]
        /\ Recorded' = Recorded \cup {x}
    BY DEF ConsentIInv, ConsentTypeOK, Recorded
  <1>3. OneActivePerType'
    BY <1>2 DEF ConsentIInv, OneActivePerType, Insertable, Active
  <1>4. /\ pc'[r] = "granted" /\ answer'[r] = x /\ want' = want
        /\ \A q \in Caller \ {r} : pc'[q] = pc[q] /\ answer'[q] = answer[q]
    BY DEF ConsentIInv, ConsentTypeOK
  <1>5. AnswersNameRows'
    BY <1>2, <1>4 DEF ConsentIInv, AnswersNameRows, Recorded
  <1>6. \A q \in Caller : x \notin held[q] /\ x \notin seen[q]
    BY DEF ConsentIInv, Covering, Recorded
  <1>7. Covering'
    BY <1>2, <1>4, <1>6 DEF ConsentIInv, ConsentTypeOK, Covering
  <1>8. WithdrawalCovers'
    BY <1>2, <1>4, <1>6 DEF ConsentIInv, ConsentTypeOK, WithdrawalCovers
  <1>9. LocksAreExclusive'
    BY DEF ConsentIInv, LocksAreExclusive
  <1> QED
    BY <1>1, <1>3, <1>5, <1>7, <1>8, <1>9 DEF ConsentIInv

-----------------------------------------------------------------------------
(* Withdrawals.                                                             *)

LEMMA Withdrawing ==
  ASSUME Sorts, ConsentIInv, NEW r \in Caller,
         \/ WithdrawalBegins(r) \/ \E t \in Type : WithdrawalReads(r, t)
         \/ WithdrawalFlushes(r) \/ WithdrawalFindsNothing(r) \/ WithdrawalIsKilled(r)
  PROVE  ConsentIInv'
  <1> USE DEF Sorts, Goes, ledger, withdrawal
  <1>1. ConsentTypeOK'
    BY DEF ConsentIInv, ConsentTypeOK, Stage, Active, WithdrawalBegins, WithdrawalReads, WithdrawalFlushes,
           WithdrawalFindsNothing, WithdrawalIsKilled
  <1>2. OneActivePerType'
    BY DEF ConsentIInv, OneActivePerType, WithdrawalBegins, WithdrawalReads, WithdrawalFlushes,
           WithdrawalFindsNothing, WithdrawalIsKilled
  <1>3. /\ pc'[r] \in {"withdrawing", "nothing", "killed"} /\ pc[r] \in {"idle", "withdrawing"}
        /\ \A q \in Caller \ {r} : /\ pc'[q] = pc[q] /\ held'[q] = held[q] /\ todo'[q] = todo[q]
                                   /\ seen'[q] = seen[q] /\ flushed'[q] = flushed[q]
        /\ UNCHANGED <<status, type, want, answer>>
    BY DEF ConsentIInv, ConsentTypeOK, WithdrawalBegins, WithdrawalReads, WithdrawalFlushes,
           WithdrawalFindsNothing, WithdrawalIsKilled
  <1>4. AnswersNameRows'
    BY <1>3 DEF ConsentIInv, AnswersNameRows, Recorded
  <1>5. CASE WithdrawalBegins(r)
    <2>1. /\ todo'[r] = Type /\ held'[r] = {x \in Row : status[x] = "active"}
          /\ seen'[r] = {} /\ flushed'[r] = {} /\ pc'[r] = "withdrawing"
      BY <1>5 DEF WithdrawalBegins, ConsentIInv, ConsentTypeOK, Covering
    <2>2. Covering'
      BY <1>3, <2>1 DEF ConsentIInv, ConsentTypeOK, Covering, Recorded
    <2>3. WithdrawalCovers'
      BY <1>3, <2>1 DEF ConsentIInv, WithdrawalCovers
    <2>4. LocksAreExclusive'
      BY <1>5 DEF WithdrawalBegins, ConsentIInv, LocksAreExclusive
    <2> QED
      BY <1>1, <1>2, <1>4, <2>2, <2>3, <2>4 DEF ConsentIInv
  <1>6. ASSUME NEW t \in Type, WithdrawalReads(r, t) PROVE ConsentIInv'
    <2>1. /\ todo'[r] = todo[r] \ {t} /\ seen'[r] = seen[r] \cup Active(t)
          /\ held'[r] = held[r] /\ flushed'[r] = flushed[r]
          /\ pc[r] = "withdrawing" /\ pc'[r] = "withdrawing"
      BY <1>6 DEF WithdrawalReads, ConsentIInv, ConsentTypeOK
    <2>2. \A x \in held[r] : \/ status'[x] = "revoked" \/ x \in seen'[r] \/ type'[x] \in todo'[r]
      BY <1>3, <2>1 DEF ConsentIInv, ConsentTypeOK, Covering, Recorded, Active
    <2>3. held'[r] \cup seen'[r] \subseteq Recorded' /\ flushed'[r] \subseteq seen'[r]
      BY <1>3, <2>1 DEF ConsentIInv, Covering, Recorded, Active
    <2>4. Covering'
      BY <1>3, <2>1, <2>2, <2>3 DEF ConsentIInv, Covering, Recorded
    <2>5. WithdrawalCovers'
      BY <1>3, <2>1 DEF ConsentIInv, WithdrawalCovers
    <2>6. LocksAreExclusive'
      BY <1>6 DEF WithdrawalReads, ConsentIInv, LocksAreExclusive
    <2> QED
      BY <1>1, <1>2, <1>4, <2>4, <2>5, <2>6 DEF ConsentIInv
  <1>7. CASE WithdrawalFlushes(r)
    <2>1. /\ flushed'[r] = seen[r] /\ seen'[r] = seen[r] /\ held'[r] = held[r] /\ todo'[r] = todo[r]
          /\ pc[r] = "withdrawing" /\ pc'[r] = "withdrawing"
      BY <1>7 DEF WithdrawalFlushes, ConsentIInv, ConsentTypeOK
    <2>2. \A q \in Caller \ {r} : flushed'[r] \cap flushed'[q] = {}
      BY <1>3, <1>7, <2>1 DEF WithdrawalFlushes, WaitsFor, Pending, ConsentIInv, LocksAreExclusive
    <2>3. LocksAreExclusive'
      BY <1>3, <2>2 DEF ConsentIInv, LocksAreExclusive
    <2>4. Covering'
      BY <1>3, <2>1 DEF ConsentIInv, Covering, Recorded
    <2>5. WithdrawalCovers'
      BY <1>3, <2>1 DEF ConsentIInv, WithdrawalCovers
    <2> QED
      BY <1>1, <1>2, <1>4, <2>3, <2>4, <2>5 DEF ConsentIInv
  <1>8. CASE WithdrawalFindsNothing(r) \/ WithdrawalIsKilled(r)
    <2>1. /\ flushed'[r] \subseteq flushed[r] /\ seen'[r] = seen[r] /\ held'[r] = held[r]
          /\ pc[r] = "withdrawing" /\ pc'[r] \in {"nothing", "killed"}
          /\ pc'[r] = "nothing" => todo[r] = {} /\ seen[r] = {}
      BY <1>8 DEF WithdrawalFindsNothing, WithdrawalIsKilled, ConsentIInv, ConsentTypeOK
    <2>2. flushed'[r] = {}
      BY <1>8, <2>1 DEF WithdrawalFindsNothing, WithdrawalIsKilled, ConsentIInv, ConsentTypeOK, Covering
    <2>3. Covering'
      BY <1>3, <2>1, <2>2 DEF ConsentIInv, Covering, Recorded
    <2>4. WithdrawalCovers'
      BY <1>3, <2>1 DEF ConsentIInv, Covering, WithdrawalCovers
    <2>5. LocksAreExclusive'
      BY <1>3, <2>2 DEF ConsentIInv, LocksAreExclusive
    <2> QED
      BY <1>1, <1>2, <1>4, <2>3, <2>4, <2>5 DEF ConsentIInv
  <1> QED
    BY <1>5, <1>6, <1>7, <1>8

LEMMA Committing ==
  ASSUME Sorts, ConsentIInv, NEW r \in Caller, WithdrawalCommits(r)
  PROVE  ConsentIInv'
  <1> USE DEF Sorts, Goes, WithdrawalCommits
  <1>1. ConsentTypeOK'
    BY DEF ConsentIInv, ConsentTypeOK, Stage
  <1>2. /\ \A x \in Row : status'[x] = IF x \in seen[r] THEN "revoked" ELSE status[x]
        /\ UNCHANGED <<type, want, answer, todo, seen, held>>
        /\ pc[r] = "withdrawing" /\ pc'[r] = "withdrawn" /\ flushed'[r] = {}
        /\ \A q \in Caller \ {r} : pc'[q] = pc[q] /\ flushed'[q] = flushed[q]
    BY DEF ConsentIInv, ConsentTypeOK
  <1>3. Recorded' = Recorded
    BY <1>2 DEF ConsentIInv, Covering, Recorded
  <1>4. OneActivePerType'
    BY <1>2 DEF ConsentIInv, OneActivePerType
  <1>5. AnswersNameRows'
    BY <1>2, <1>3 DEF ConsentIInv, AnswersNameRows
  <1>6. LocksAreExclusive'
    BY <1>2 DEF ConsentIInv, LocksAreExclusive
  <1>7. Covering'
    BY <1>2, <1>3 DEF ConsentIInv, ConsentTypeOK, Covering
  <1>8. \A x \in held[r] : status'[x] = "revoked"
    BY <1>2 DEF ConsentIInv, ConsentTypeOK, Covering
  <1>9. WithdrawalCovers'
    <2> SUFFICES ASSUME NEW q \in Caller, pc'[q] \in {"withdrawn", "nothing"}, NEW x \in held[q]
                 PROVE  status'[x] = "revoked"
      BY <1>2 DEF WithdrawalCovers
    <2>1. CASE q = r
      BY <1>8, <2>1
    <2>2. CASE q # r
      <3>1. status[x] = "revoked"
        BY <1>2, <2>2 DEF ConsentIInv, WithdrawalCovers
      <3>2. x \in Row
        BY DEF ConsentIInv, ConsentTypeOK
      <3> QED
        BY <1>2, <3>1, <3>2
    <2> QED
      BY <2>1, <2>2
  <1> QED
    BY <1>1, <1>4, <1>5, <1>6, <1>7, <1>9 DEF ConsentIInv

-----------------------------------------------------------------------------

LEMMA ConsentStepIInv == ASSUME Sorts PROVE ConsentIInv /\ [ConsentNext]_consentVars => ConsentIInv'
  <1> SUFFICES ASSUME ConsentIInv, [ConsentNext]_consentVars PROVE ConsentIInv'
    OBVIOUS
  <1>1. CASE UNCHANGED consentVars
    BY <1>1 DEF consentVars, ConsentIInv, ConsentTypeOK, OneActivePerType, AnswersNameRows, LocksAreExclusive, Covering,
               WithdrawalCovers, Recorded
  <1>2. CASE ConsentNext
    BY <1>2, Answering, Granting, Withdrawing, Committing DEF ConsentNext
  <1> QED
    BY <1>1, <1>2

LEMMA ConsentSpecIInv == ASSUME Sorts PROVE ConsentSpec => []ConsentIInv
  <1>1. ConsentInit => ConsentIInv
    BY ConsentInitIInv
  <1>2. ConsentIInv /\ [ConsentNext]_consentVars => ConsentIInv'
    BY ConsentStepIInv
  <1> QED
    BY <1>1, <1>2, PTL DEF ConsentSpec

\* However many requests record consent at once, one of a type is active.
THEOREM OneActivePerTypeHolds == ASSUME Sorts PROVE ConsentSpec => []OneActivePerType
  <1>1. ConsentIInv => OneActivePerType
    BY DEF ConsentIInv
  <1> QED
    BY <1>1, ConsentSpecIInv, PTL

\* An answered withdrawal has revoked every consent that was active when it began.
THEOREM WithdrawalCoversHolds == ASSUME Sorts PROVE ConsentSpec => []WithdrawalCovers
  <1>1. ConsentIInv => WithdrawalCovers
    BY DEF ConsentIInv
  <1> QED
    BY <1>1, ConsentSpecIInv, PTL

\* "Consented" is answered, and a session created, only on a row of the ledger.
THEOREM AnswersNameRowsHolds == ASSUME Sorts PROVE ConsentSpec => []AnswersNameRows
  <1>1. ConsentIInv => AnswersNameRows
    BY DEF ConsentIInv
  <1> QED
    BY <1>1, ConsentSpecIInv, PTL

\* The ledger is an audit trail: no row leaves it, changes, or comes back to life.
THEOREM LedgerOnlyGrowsHolds == ASSUME Sorts PROVE ConsentSpec => LedgerOnlyGrows
  <1> DEFINE Grows == \A x \in Recorded :
                         /\ x \in Recorded'
                         /\ type'[x] = type[x] /\ evidence'[x] = evidence[x]
                         /\ status[x] = "revoked" => status'[x] = "revoked"
  <1>1. ConsentIInv /\ [ConsentNext]_consentVars => [Grows]_consentVars
    <2> SUFFICES ASSUME ConsentIInv, ConsentNext PROVE Grows
      OBVIOUS
    <2>1. CASE UNCHANGED ledger
      BY <2>1 DEF ledger, Recorded
    <2>2. ASSUME NEW r \in Caller, NEW x \in Row, RecordCommits(r, x) PROVE Grows
      BY <2>2 DEF RecordCommits, ConsentIInv, ConsentTypeOK, Recorded
    <2>3. ASSUME NEW r \in Caller, WithdrawalCommits(r) PROVE Grows
      BY <2>3 DEF WithdrawalCommits, ConsentIInv, ConsentTypeOK, Covering, Recorded
    <2> QED
      BY <2>1, <2>2, <2>3
      DEF ConsentNext, RecordFinds, RecordMisses, RecordCollides, RecordRequeries, WithdrawalBegins,
          WithdrawalReads, WithdrawalFlushes, WithdrawalFindsNothing, WithdrawalIsKilled,
          SessionIsChecked, SessionIsCreated
  <1> QED
    BY <1>1, ConsentSpecIInv, PTL DEF ConsentSpec, LedgerOnlyGrows

\* What a client puts in front of the header has no influence on the address recorded.
THEOREM PrependedHopsAreIgnored ==
  ASSUME NEW Address, TrustedProxyCount \in Nat, NEW direct \in Address,
         NEW prepended \in Seq(Address), NEW hops \in Seq(Address),
         Len(hops) >= TrustedProxyCount
  PROVE  ClientAddress(direct, prepended \o hops) = ClientAddress(direct, hops)
  BY DEF ClientAddress
=============================================================================
