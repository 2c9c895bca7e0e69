-------------------------- MODULE EmailOutboxProofs --------------------------
(* Machine-checked proofs about EmailOutbox, for every number of workers,   *)
(* mails and attempts, every batch size, with and without crashes.          *)
EXTENDS EmailOutbox, FiniteSetTheorems, TLAPS

\* The attempts a mail has been claimed for and no worker has used yet.
Outstanding(e) ==
    {n \in 1..MaxAttempts : \E w \in Worker : \E p \in batch[w] : p.id = e /\ p.attempts = n}

\* Each of them is in one payload of one worker.
ClaimedOnce ==
    \A w, v \in Worker : \A p \in batch[w], q \in batch[v] :
        p.id = q.id /\ p.attempts = q.attempts => w = v /\ p = q

\* A copy was an attempt, and what is outstanding may yet become one.
Counted ==
    \A e \in Email :
        copies[e].full + copies[e].empty + Cardinality(Outstanding(e)) <= row[e].attempts

\* What a worker holds is no younger than the row, and has lost its body only to a copy
\* that carried it.
PayloadInv ==
    \A w \in Worker : \A p \in batch[w] :
        /\ p.attempts <= row[p.id].attempts
        /\ ~p.body => copies[p.id].full > 0

OutcomeInv ==
    \A w \in Worker : outcome[w] # NoOutcome =>
        /\ outcome[w].payload.attempts <= row[outcome[w].payload.id].attempts
        /\ outcome[w].answer = "ok" => copies[outcome[w].payload.id].full > 0

RowInv ==
    \A e \in Email :
        /\ row[e].status = "none" => row[e].attempts = 0
        /\ row[e].status \notin {"none", "purged"} /\ ~row[e].body => copies[e].full > 0

HeldInv == PayloadInv /\ OutcomeInv /\ RowInv

IInv ==
    /\ TypeOK /\ ClaimedOnce /\ Counted /\ HeldInv
    /\ BodyOutlivesDelivery /\ GivenUpOnlyWhenExhausted

-----------------------------------------------------------------------------

LEMMA InitIInv == Init => IInv
  <1> SUFFICES ASSUME Init PROVE IInv
    OBVIOUS
  <1>1. TypeOK
    BY BoundAssumption DEF Init, TypeOK, Status, Email, NoOutcome
  <1>2. ASSUME NEW e \in Email PROVE Outstanding(e) = {}
    BY DEF Init, Outstanding
  <1>3. Counted
    <2>1. ASSUME NEW e \in Email PROVE Cardinality(Outstanding(e)) = 0
      BY <1>2, FS_EmptySet
    <2>2. ASSUME NEW e \in Email
          PROVE  copies[e].full = 0 /\ copies[e].empty = 0 /\ row[e].attempts = 0
      BY DEF Init
    <2> QED
      BY <2>1, <2>2 DEF Counted
  <1>4. ClaimedOnce /\ HeldInv
    BY DEF Init, ClaimedOnce, HeldInv, PayloadInv, OutcomeInv, RowInv, Pending
  <1>5. BodyOutlivesDelivery /\ GivenUpOnlyWhenExhausted
    BY DEF Init, BodyOutlivesDelivery, GivenUpOnlyWhenExhausted, Pending
  <1> QED
    BY <1>1, <1>3, <1>4, <1>5 DEF IInv

\* Every action keeps the types.
LEMMA TypeStep == TypeOK /\ [Next]_vars => TypeOK'
  <1> SUFFICES ASSUME TypeOK, [Next]_vars PROVE TypeOK'
    OBVIOUS
  <1> USE BoundAssumption
  <1>1. ASSUME NEW e \in Email, Enqueue(e) PROVE TypeOK'
    BY <1>1 DEF Enqueue, TypeOK, Status
  <1>2. ASSUME NEW e \in Email, BackoffElapses(e) \/ ClaimGoesStale(e) PROVE TypeOK'
    BY <1>2 DEF BackoffElapses, ClaimGoesStale, TypeOK
  <1>3. ASSUME NEW e \in Email, Purge(e) PROVE TypeOK'
    BY <1>3 DEF Purge, TypeOK, Status
  <1>4. ASSUME NEW w \in Worker, Claim(w) PROVE TypeOK'
    <2>1. \A e \in Claimable : e \in Email /\ row[e].attempts < MaxAttempts
      BY DEF Claimable, Due
    <2>2. row' \in [Email -> [status : Status, attempts : 0..MaxAttempts, body : BOOLEAN]]
      <3>1. ASSUME NEW e \in Email, e \in Claimable
            PROVE  [row[e] EXCEPT !.status = "sending", !.attempts = @ + 1]
                     \in [status : Status, attempts : 0..MaxAttempts, body : BOOLEAN]
        <4>1. row[e] \in [status : Status, attempts : 0..MaxAttempts, body : BOOLEAN]
          BY DEF TypeOK
        <4>2. row[e].attempts + 1 \in 0..MaxAttempts
          BY <2>1, <3>1, <4>1
        <4>3. "sending" \in Status
          BY DEF Status
        <4> QED
          BY <4>1, <4>2, <4>3
      <3> QED
        BY <1>4, <3>1 DEF Claim, TypeOK
    <2>3. {[id |-> e, attempts |-> row[e].attempts + 1, body |-> row[e].body] : e \in Claimable}
            \in SUBSET Payload
      BY <2>1 DEF TypeOK, Payload
    <2>4. batch' \in [Worker -> SUBSET Payload]
      BY <1>4, <2>3 DEF Claim, TypeOK
    <2> QED
      BY <1>4, <2>2, <2>4 DEF Claim, TypeOK
  <1>5. ASSUME NEW w \in Worker, NEW p \in batch[w], Deliver(w, p) PROVE TypeOK'
    <2>1. p \in Payload
      BY DEF TypeOK
    <2>2. copies' \in [Email -> [full : Nat, empty : Nat]]
      <3>1. p.id \in Email /\ copies[p.id] \in [full : Nat, empty : Nat]
        BY <2>1 DEF TypeOK, Payload
      <3>2. CASE Accepted(p)
        <4>1. /\ [copies[p.id] EXCEPT !.full = @ + 1] \in [full : Nat, empty : Nat]
              /\ [copies[p.id] EXCEPT !.empty = @ + 1] \in [full : Nat, empty : Nat]
          BY <3>1
        <4> QED
          BY <3>1, <3>2, <4>1 DEF Accepted, TypeOK
      <3>3. CASE UNCHANGED copies
        BY <3>3 DEF TypeOK
      <3> QED
        BY <1>5, <3>2, <3>3 DEF Deliver
    <2>3. outcome' \in [Worker -> Answered \cup {NoOutcome}]
      BY <1>5, <2>1 DEF Deliver, TypeOK, Answered
    <2>4. batch' \in [Worker -> SUBSET Payload]
      BY <1>5 DEF Deliver, TypeOK
    <2> QED
      BY <1>5, <2>2, <2>3, <2>4 DEF Deliver, TypeOK
  <1>6. ASSUME NEW w \in Worker, RecordSent(w) PROVE TypeOK'
    <2>1. outcome[w].payload \in Payload
      BY <1>6 DEF RecordSent, TypeOK, Answered, NoOutcome
    <2> QED
      BY <1>6, <2>1 DEF RecordSent, TypeOK, Payload, Status
  <1>7. ASSUME NEW w \in Worker, RecordFailure(w) PROVE TypeOK'
    <2>1. outcome[w].payload \in Payload
      BY <1>7 DEF RecordFailure, TypeOK, Answered, NoOutcome
    <2> QED
      BY <1>7, <2>1 DEF RecordFailure, FailureStatus, TypeOK, Payload, Status
  <1>8. ASSUME NEW w \in Worker, Crash(w) PROVE TypeOK'
    BY <1>8 DEF Crash, Loses, TypeOK
  <1>9. CASE UNCHANGED vars
    BY <1>9 DEF vars, TypeOK
  <1> QED
    BY <1>1, <1>2, <1>3, <1>4, <1>5, <1>6, <1>7, <1>8, <1>9 DEF Next, WorkerStep

-----------------------------------------------------------------------------
(* What a step does to the attempts outstanding.                            *)

LEMMA OutstandingFinite ==
  ASSUME NEW e PROVE IsFiniteSet(Outstanding(e)) /\ Cardinality(Outstanding(e)) \in Nat
  <1>1. IsFiniteSet(1..MaxAttempts)
    BY BoundAssumption, FS_Interval
  <1>2. Outstanding(e) \in SUBSET (1..MaxAttempts)
    BY DEF Outstanding
  <1>3. IsFiniteSet(Outstanding(e))
    BY <1>1, <1>2, FS_Subset
  <1> QED
    BY <1>3, FS_CardinalityType

\* If the row and the copies of a mail stay, and nothing is claimed, it stays counted.
LEMMA NothingClaimed ==
  ASSUME TypeOK, TypeOK', Counted,
         \A w \in Worker : batch'[w] \subseteq batch[w],
         \A e \in Email : row'[e].attempts = row[e].attempts,
         copies' = copies
  PROVE  Counted'
  <1>1. ASSUME NEW e \in Email
        PROVE  (copies[e].full + copies[e].empty + Cardinality(Outstanding(e)) <= row[e].attempts)'
    <2>1. Outstanding(e)' \in SUBSET Outstanding(e)
      BY DEF Outstanding
    <2>2. Cardinality(Outstanding(e)') <= Cardinality(Outstanding(e))
      BY <2>1, OutstandingFinite, FS_Subset
    <2>3. IsFiniteSet(Outstanding(e)')
      BY <2>1, OutstandingFinite, FS_Subset
    <2>4. Cardinality(Outstanding(e)') \in Nat
      BY <2>3, FS_CardinalityType
    <2>5. copies[e].full + copies[e].empty + Cardinality(Outstanding(e)) <= row[e].attempts
      BY DEF Counted
    <2>6. copies[e].full \in Nat /\ copies[e].empty \in Nat /\ row[e].attempts \in Nat
      BY BoundAssumption DEF TypeOK
    <2>7. Cardinality(Outstanding(e)) \in Nat
      BY OutstandingFinite
    <2> QED
      BY <2>2, <2>4, <2>5, <2>6, <2>7
  <1> QED
    BY <1>1 DEF Counted

\* A claim takes an attempt no one has.
LEMMA ClaimCounts ==
  ASSUME TypeOK, Counted, PayloadInv, NEW w \in Worker, Claim(w)
  PROVE  Counted'
  <1>1. ASSUME NEW e \in Email
        PROVE  (copies[e].full + copies[e].empty + Cardinality(Outstanding(e)) <= row[e].attempts)'
    <2> DEFINE n == row[e].attempts + 1
    <2>1. batch[w] = {}
      BY DEF Claim, Busy
    <2>2. copies' = copies
      BY DEF Claim
    <2>3. \A v \in Worker \ {w} : batch'[v] = batch[v]
      BY DEF Claim, TypeOK
    <2>4. batch'[w] = {[id |-> f, attempts |-> row[f].attempts + 1, body |-> row[f].body] : f \in Claimable}
      BY DEF Claim, TypeOK
    <2>5. copies[e].full \in Nat /\ copies[e].empty \in Nat /\ row[e].attempts \in Nat
      BY BoundAssumption DEF TypeOK
    <2>6. copies[e].full + copies[e].empty + Cardinality(Outstanding(e)) <= row[e].attempts
      BY DEF Counted
    <2>7. IsFiniteSet(Outstanding(e)) /\ Cardinality(Outstanding(e)) \in Nat
      BY OutstandingFinite
    <2>8. CASE e \in Claimable
      <3>1. n \in 1..MaxAttempts
        BY <2>5, <2>8, BoundAssumption DEF Claimable, Due
      <3>2. Outstanding(e)' = Outstanding(e) \cup {n}
        <4>1. \A p \in batch'[w] : p.id = e => p.attempts = n
          BY <2>4
        <4>2. \E p \in batch'[w] : p.id = e /\ p.attempts = n
          <5> DEFINE q == [id |-> e, attempts |-> n, body |-> row[e].body]
          <5>1. q \in batch'[w] /\ q.id = e /\ q.attempts = n
            BY <2>4, <2>8
          <5> QED
            BY <5>1
        <4>3. Outstanding(e)' \subseteq Outstanding(e) \cup {n}
          BY <2>3, <4>1 DEF Outstanding
        <4>4. n \in Outstanding(e)'
          BY <3>1, <4>2 DEF Outstanding
        <4>5. Outstanding(e) \subseteq Outstanding(e)'
          BY <2>1, <2>3 DEF Outstanding
        <4> QED
          BY <4>3, <4>4, <4>5
      <3>3. n \notin Outstanding(e)
        BY <2>5 DEF Outstanding, PayloadInv
      <3>4. Cardinality(Outstanding(e)') = Cardinality(Outstanding(e)) + 1
        BY <2>7, <3>2, <3>3, FS_AddElement
      <3>5. row'[e].attempts = row[e].attempts + 1
        BY <2>8 DEF Claim, TypeOK
      <3> QED
        BY <2>2, <2>5, <2>6, <2>7, <3>4, <3>5
    <2>9. CASE e \notin Claimable
      <3>1. Outstanding(e)' = Outstanding(e)
        <4>1. \A p \in batch'[w] : p.id # e
          BY <2>4, <2>9
        <4> QED
          BY <2>1, <2>3, <4>1 DEF Outstanding
      <3>2. row'[e].attempts = row[e].attempts
        BY <2>9 DEF Claim, TypeOK
      <3> QED
        BY <2>2, <2>6, <3>1, <3>2
    <2> QED
      BY <2>8, <2>9
  <1> QED
    BY <1>1 DEF Counted

\* A delivery uses up the attempt of its payload, which no other payload has.
LEMMA DeliverCounts ==
  ASSUME TypeOK, TypeOK', Counted, ClaimedOnce, NEW w \in Worker, NEW p \in batch[w], Deliver(w, p)
  PROVE  Counted'
  <1>1. ASSUME NEW e \in Email
        PROVE  (copies[e].full + copies[e].empty + Cardinality(Outstanding(e)) <= row[e].attempts)'
    <2>0. p \in Payload
      BY DEF TypeOK
    <2>1. batch' = [batch EXCEPT ![w] = @ \ {p}] /\ row' = row
      BY DEF Deliver
    <2>2. /\ \A v \in Worker : v # w => batch'[v] = batch[v]
          /\ batch'[w] = batch[w] \ {p}
      BY <2>1 DEF TypeOK
    <2>3. copies[e].full \in Nat /\ copies[e].empty \in Nat /\ row[e].attempts \in Nat
      BY BoundAssumption DEF TypeOK
    <2>4. copies[e].full + copies[e].empty + Cardinality(Outstanding(e)) <= row[e].attempts
      BY DEF Counted
    <2>5. IsFiniteSet(Outstanding(e)) /\ Cardinality(Outstanding(e)) \in Nat
      BY OutstandingFinite
    <2>6. CASE e = p.id
      <3>1. p.attempts \in Outstanding(e)
        BY <2>0, <2>6 DEF Outstanding, Payload
      <3>2. Outstanding(e)' = Outstanding(e) \ {p.attempts}
        BY <2>2, <2>6 DEF Outstanding, ClaimedOnce
      <3>3. Cardinality(Outstanding(e)') = Cardinality(Outstanding(e)) - 1
        BY <2>5, <3>1, <3>2, FS_RemoveElement
      <3>4. /\ copies'[e].full + copies'[e].empty <= copies[e].full + copies[e].empty + 1
            /\ copies'[e].full + copies'[e].empty \in Nat
        <4>1. p.id \in Email /\ copies[e] \in [full : Nat, empty : Nat]
          BY <2>0, <2>6 DEF TypeOK, Payload
        <4>2. CASE Accepted(p)
          <5>1. \/ copies'[e] = [copies[e] EXCEPT !.full = @ + 1]
                \/ copies'[e] = [copies[e] EXCEPT !.empty = @ + 1]
            BY <2>6, <4>1, <4>2 DEF Accepted, TypeOK
          <5> QED
            BY <2>3, <4>1, <5>1
        <4>3. CASE UNCHANGED copies
          BY <2>3, <4>3
        <4> QED
          BY <4>2, <4>3 DEF Deliver
      <3> QED
        BY <2>1, <2>3, <2>4, <2>5, <3>3, <3>4
    <2>7. CASE e # p.id
      <3>1. Outstanding(e)' = Outstanding(e)
        BY <2>2, <2>7 DEF Outstanding
      <3>2. copies'[e] = copies[e]
        BY <2>0, <2>7 DEF Deliver, Accepted, TypeOK, Payload
      <3> QED
        BY <2>1, <2>4, <3>1, <3>2
    <2> QED
      BY <2>6, <2>7
  <1> QED
    BY <1>1 DEF Counted

LEMMA CountedStep ==
  ASSUME IInv, [Next]_vars, TypeOK' PROVE Counted'
  <1> USE DEF IInv, HeldInv
  <1>1. ASSUME NEW e \in Email, Enqueue(e) PROVE Counted'
    <2>1. row[e].attempts = 0
      BY <1>1 DEF Enqueue, RowInv
    <2>2. \A f \in Email : row'[f].attempts = row[f].attempts
      BY <1>1, <2>1 DEF Enqueue, TypeOK
    <2> QED
      BY <1>1, <2>2, NothingClaimed DEF Enqueue
  <1>2. ASSUME NEW e \in Email, BackoffElapses(e) \/ ClaimGoesStale(e) PROVE Counted'
    BY <1>2, NothingClaimed DEF BackoffElapses, ClaimGoesStale
  <1>3. ASSUME NEW e \in Email, Purge(e) PROVE Counted'
    <2>1. \A f \in Email : row'[f].attempts = row[f].attempts
      BY <1>3 DEF Purge, TypeOK
    <2> QED
      BY <1>3, <2>1, NothingClaimed DEF Purge
  <1>4. ASSUME NEW w \in Worker, Claim(w) PROVE Counted'
    BY <1>4, ClaimCounts
  <1>5. ASSUME NEW w \in Worker, NEW p \in batch[w], Deliver(w, p) PROVE Counted'
    BY <1>5, DeliverCounts
  <1>6. ASSUME NEW w \in Worker, RecordSent(w) PROVE Counted'
    <2>1. \A f \in Email : row'[f].attempts = row[f].attempts
      BY <1>6 DEF RecordSent, TypeOK
    <2> QED
      BY <1>6, <2>1, NothingClaimed DEF RecordSent
  <1>7. ASSUME NEW w \in Worker, RecordFailure(w) PROVE Counted'
    <2>1. \A f \in Email : row'[f].attempts = row[f].attempts
      BY <1>7 DEF RecordFailure, TypeOK
    <2> QED
      BY <1>7, <2>1, NothingClaimed DEF RecordFailure
  <1>8. ASSUME NEW w \in Worker, Crash(w) PROVE Counted'
    <2>1. \A v \in Worker : batch'[v] \subseteq batch[v]
      BY <1>8 DEF Crash, Loses, TypeOK
    <2> QED
      BY <1>8, <2>1, NothingClaimed DEF Crash, Loses
  <1>9. CASE UNCHANGED vars
    BY <1>9, NothingClaimed DEF vars
  <1> QED
    BY <1>1, <1>2, <1>3, <1>4, <1>5, <1>6, <1>7, <1>8, <1>9 DEF Next, WorkerStep

LEMMA ClaimedOnceStep ==
  ASSUME IInv, [Next]_vars PROVE ClaimedOnce'
  <1> USE DEF IInv, HeldInv
  <1>1. CASE \A w \in Worker : batch'[w] \subseteq batch[w]
    BY <1>1 DEF ClaimedOnce
  <1>2. ASSUME NEW w \in Worker, Claim(w) PROVE ClaimedOnce'
    <2>1. \A v \in Worker \ {w} : batch'[v] = batch[v]
      BY <1>2 DEF Claim, TypeOK
    <2>2. batch'[w] = {[id |-> f, attempts |-> row[f].attempts + 1, body |-> row[f].body] : f \in Claimable}
      BY <1>2 DEF Claim, TypeOK
    <2>3. \A p, q \in batch'[w] : p.id = q.id => p = q
      BY <2>2
    <2>4. ASSUME NEW v \in Worker \ {w}, NEW q \in batch[v], NEW p \in batch'[w], p.id = q.id
          PROVE  p.attempts # q.attempts
      <3>1. p.attempts = row[q.id].attempts + 1
        BY <2>2, <2>4
      <3>2. q \in Payload
        BY DEF TypeOK
      <3>3. row[q.id].attempts \in Nat /\ q.attempts \in Nat
        BY <3>2, BoundAssumption DEF TypeOK, Payload
      <3>4. q.attempts <= row[q.id].attempts
        BY DEF PayloadInv
      <3> QED
        BY <3>1, <3>3, <3>4
    <2> QED
      BY <2>1, <2>3, <2>4 DEF ClaimedOnce
  <1>3. ASSUME NEW w \in Worker, NEW p \in batch[w], Deliver(w, p)
        PROVE  \A v \in Worker : batch'[v] \subseteq batch[v]
    BY <1>3 DEF Deliver, TypeOK
  <1>4. ASSUME NEW w \in Worker, Crash(w)
        PROVE  \A v \in Worker : batch'[v] \subseteq batch[v]
    BY <1>4 DEF Crash, Loses, TypeOK
  <1>5. CASE UNCHANGED batch
    BY <1>1, <1>5
  <1> QED
    BY <1>1, <1>2, <1>3, <1>4, <1>5
    DEF Next, WorkerStep, Enqueue, BackoffElapses, ClaimGoesStale, Purge, RecordSent,
        RecordFailure, vars

\* Rows and copies only grow, and a copy without a body comes after one with it.
LEMMA Growth ==
  IInv /\ [Next]_vars =>
    \A e \in Email : /\ row[e].attempts <= row'[e].attempts \/ row[e].status = "none"
                     /\ copies[e].full > 0 => copies'[e].full > 0
  <1> SUFFICES ASSUME IInv, [Next]_vars
               PROVE  \A e \in Email :
                         /\ row[e].attempts <= row'[e].attempts \/ row[e].status = "none"
                         /\ copies[e].full > 0 => copies'[e].full > 0
    OBVIOUS
  <1> USE DEF IInv, HeldInv
  <1>0. \A e \in Email : row[e].attempts \in Nat /\ copies[e].full \in Nat
    BY BoundAssumption DEF TypeOK
  <1>1. ASSUME NEW w \in Worker, Claim(w), NEW e \in Email
        PROVE  row[e].attempts <= row'[e].attempts /\ copies' = copies
    <2>1. row'[e].attempts \in {row[e].attempts, row[e].attempts + 1}
      BY <1>1 DEF Claim, TypeOK
    <2>2. row[e].attempts <= row'[e].attempts
      BY <1>0, <2>1
    <2>3. copies' = copies
      BY <1>1 DEF Claim
    <2> QED
      BY <2>2, <2>3
  <1>2. ASSUME NEW w \in Worker, NEW p \in batch[w], Deliver(w, p), NEW e \in Email
        PROVE  row' = row /\ (copies[e].full > 0 => copies'[e].full > 0)
    BY <1>0, <1>2 DEF Deliver, Accepted, TypeOK
  <1>3. ASSUME NEW f \in Email, Enqueue(f) \/ Purge(f), NEW e \in Email
        PROVE  /\ row[e].attempts <= row'[e].attempts \/ row[e].status = "none"
               /\ copies' = copies
    BY <1>0, <1>3 DEF Enqueue, Purge, TypeOK
  <1>4. ASSUME NEW w \in Worker, RecordSent(w) \/ RecordFailure(w), NEW e \in Email
        PROVE  row[e].attempts <= row'[e].attempts /\ copies' = copies
    <2>1. copies' = copies
      BY <1>4 DEF RecordSent, RecordFailure
    <2>2. CASE RecordSent(w)
      <3>1. row'[e].attempts = row[e].attempts
        BY <2>2 DEF RecordSent, TypeOK
      <3> QED
        BY <1>0, <2>1, <3>1
    <2>3. CASE RecordFailure(w)
      <3>1. row'[e].attempts = row[e].attempts
        BY <2>3 DEF RecordFailure, TypeOK
      <3> QED
        BY <1>0, <2>1, <3>1
    <2> QED
      BY <1>4, <2>1, <2>2, <2>3
  <1>5. CASE UNCHANGED <<row, copies>>
    BY <1>0, <1>5
  <1> QED
    BY <1>0, <1>1, <1>2, <1>3, <1>4, <1>5
    DEF Next, WorkerStep, BackoffElapses, ClaimGoesStale, Crash, Loses, vars

\* What a worker holds belongs to a row that has been claimed.
LEMMA HeldIsClaimed ==
  ASSUME IInv
  PROVE  /\ \A w \in Worker : \A p \in batch[w] : p \in Payload /\ row[p.id].status # "none"
         /\ \A w \in Worker : outcome[w] # NoOutcome =>
               /\ outcome[w] \in Answered
               /\ outcome[w].payload \in Payload
               /\ row[outcome[w].payload.id].status # "none"
  <1> USE DEF IInv, HeldInv
  <1>1. ASSUME NEW p \in Payload, p.attempts <= row[p.id].attempts
        PROVE  row[p.id].status # "none"
    BY <1>1, BoundAssumption DEF TypeOK, Payload, RowInv
  <1>2. ASSUME NEW w \in Worker, outcome[w] # NoOutcome
        PROVE  outcome[w] \in Answered /\ outcome[w].payload \in Payload
    BY <1>2 DEF TypeOK, Answered
  <1>3. \A w \in Worker : \A p \in batch[w] : p \in Payload
    BY DEF TypeOK
  <1> QED
    BY <1>1, <1>2, <1>3 DEF PayloadInv, OutcomeInv

LEMMA PayloadStep ==
  ASSUME IInv, [Next]_vars PROVE PayloadInv'
  <1>0. \A e \in Email : /\ row[e].attempts <= row'[e].attempts \/ row[e].status = "none"
                         /\ copies[e].full > 0 => copies'[e].full > 0
    BY Growth
  <1> USE DEF IInv, HeldInv
  <1>1. ASSUME NEW w \in Worker, NEW p \in batch[w]
        PROVE  /\ p.attempts <= row'[p.id].attempts
               /\ ~p.body => copies'[p.id].full > 0
    <2>1. p \in Payload /\ row[p.id].status # "none"
      BY HeldIsClaimed
    <2>2. /\ row[p.id].attempts <= row'[p.id].attempts
          /\ copies[p.id].full > 0 => copies'[p.id].full > 0
      BY <1>0, <2>1 DEF Payload
    <2>3. row[p.id].attempts \in Nat /\ row'[p.id].attempts \in Nat /\ p.attempts \in Nat
      BY <2>1, TypeStep, BoundAssumption DEF TypeOK, Payload
    <2> QED
      BY <2>2, <2>3 DEF PayloadInv
  <1>2. CASE \A w \in Worker : batch'[w] \subseteq batch[w]
    BY <1>1, <1>2 DEF PayloadInv
  <1>3. ASSUME NEW w \in Worker, Claim(w) PROVE PayloadInv'
    <2>1. \A v \in Worker : v # w => batch'[v] = batch[v]
      BY <1>3 DEF Claim, TypeOK
    <2>2. batch'[w] = {[id |-> f, attempts |-> row[f].attempts + 1, body |-> row[f].body] : f \in Claimable}
      BY <1>3 DEF Claim, TypeOK
    <2>3. ASSUME NEW f \in Claimable
          PROVE  /\ row[f].attempts + 1 <= row'[f].attempts
                 /\ ~row[f].body => copies'[f].full > 0
      <3>1. f \in Email /\ row'[f].attempts = row[f].attempts + 1 /\ copies' = copies
        BY <1>3 DEF Claim, Claimable, TypeOK
      <3>2. row[f].status \in {"queued", "failed", "sending"}
        BY DEF Claimable, Due
      <3> QED
        BY <3>1, <3>2, BoundAssumption DEF RowInv, TypeOK
    <2> QED
      BY <1>1, <2>1, <2>2, <2>3 DEF PayloadInv
  <1>4. ASSUME NEW w \in Worker, NEW p \in batch[w], Deliver(w, p)
        PROVE  \A v \in Worker : batch'[v] \subseteq batch[v]
    BY <1>4 DEF Deliver, TypeOK
  <1>5. ASSUME NEW w \in Worker, Crash(w)
        PROVE  \A v \in Worker : batch'[v] \subseteq batch[v]
    BY <1>5 DEF Crash, Loses, TypeOK
  <1>6. CASE UNCHANGED batch
    BY <1>2, <1>6
  <1> QED
    BY <1>2, <1>3, <1>4, <1>5, <1>6
    DEF Next, WorkerStep, Enqueue, BackoffElapses, ClaimGoesStale, Purge, RecordSent,
        RecordFailure, vars

LEMMA OutcomeStep ==
  ASSUME IInv, [Next]_vars PROVE OutcomeInv'
  <1>0. \A e \in Email : /\ row[e].attempts <= row'[e].attempts \/ row[e].status = "none"
                         /\ copies[e].full > 0 => copies'[e].full > 0
    BY Growth
  <1> USE DEF IInv, HeldInv
  <1>1. ASSUME NEW w \in Worker, outcome[w] # NoOutcome, outcome'[w] = outcome[w]
        PROVE  /\ outcome'[w].payload.attempts <= row'[outcome'[w].payload.id].attempts
               /\ outcome'[w].answer = "ok" => copies'[outcome'[w].payload.id].full > 0
    <2> DEFINE p == outcome[w].payload
    <2>1. p \in Payload /\ row[p.id].status # "none"
      BY <1>1, HeldIsClaimed
    <2>2. /\ row[p.id].attempts <= row'[p.id].attempts
          /\ copies[p.id].full > 0 => copies'[p.id].full > 0
      BY <1>0, <2>1 DEF Payload
    <2>3. row[p.id].attempts \in Nat /\ row'[p.id].attempts \in Nat /\ p.attempts \in Nat
      BY <2>1, TypeStep, BoundAssumption DEF TypeOK, Payload
    <2>4. p.attempts <= row[p.id].attempts /\ (outcome[w].answer = "ok" => copies[p.id].full > 0)
      BY <1>1 DEF OutcomeInv
    <2> QED
      BY <1>1, <2>2, <2>3, <2>4
  <1>2. CASE \A w \in Worker : outcome'[w] \in {outcome[w], NoOutcome}
    BY <1>1, <1>2 DEF OutcomeInv
  <1>3. ASSUME NEW w \in Worker, NEW p \in batch[w], Deliver(w, p) PROVE OutcomeInv'
    <2>1. \A v \in Worker : v # w => outcome'[v] = outcome[v]
      BY <1>3 DEF Deliver, TypeOK
    <2>2. outcome'[w].payload = p /\ row' = row
      BY <1>3 DEF Deliver, TypeOK
    <2>3. p \in Payload /\ p.attempts <= row[p.id].attempts /\ (~p.body => copies[p.id].full > 0)
      BY HeldIsClaimed DEF PayloadInv
    <2>4. outcome'[w].answer = "ok" => Accepted(p)
      BY <1>3 DEF Deliver, TypeOK
    <2>5. Accepted(p) => copies'[p.id].full > 0
      BY <2>3 DEF Accepted, TypeOK, Payload
    <2> QED
      BY <1>1, <2>1, <2>2, <2>3, <2>4, <2>5 DEF OutcomeInv
  <1>4. ASSUME NEW w \in Worker, RecordSent(w) \/ RecordFailure(w) \/ Crash(w)
        PROVE  \A v \in Worker : outcome'[v] \in {outcome[v], NoOutcome}
    BY <1>4 DEF RecordSent, RecordFailure, Crash, Loses, TypeOK
  <1>5. CASE UNCHANGED outcome
    BY <1>2, <1>5
  <1> QED
    BY <1>2, <1>3, <1>4, <1>5
    DEF Next, WorkerStep, Claim, Enqueue, BackoffElapses, ClaimGoesStale, Purge, vars

LEMMA BodyStep ==
  ASSUME IInv, [Next]_vars PROVE RowInv' /\ BodyOutlivesDelivery'
  <1>0. \A e \in Email : copies[e].full > 0 => copies'[e].full > 0
    BY Growth
  <1> USE DEF IInv, HeldInv
  <1> DEFINE Good(r, c) == /\ r.status = "none" => r.attempts = 0
                           /\ r.status \notin {"none", "purged"} /\ ~r.body => c.full > 0
                           /\ r.status = "sent" => c.full > 0
                           /\ c.empty > 0 => c.full > 0
  <1>1. \A e \in Email : Good(row[e], copies[e])
    BY DEF RowInv, BodyOutlivesDelivery
  <1>2. (\A e \in Email : Good(row'[e], copies'[e])) => RowInv' /\ BodyOutlivesDelivery'
    BY DEF RowInv, BodyOutlivesDelivery, Pending
  <1> SUFFICES ASSUME NEW e \in Email PROVE Good(row'[e], copies'[e])
    BY <1>2
  <1>3. ASSUME NEW f \in Email, Enqueue(f) PROVE Good(row'[e], copies'[e])
    BY <1>1, <1>3 DEF Enqueue, TypeOK
  <1>4. ASSUME NEW f \in Email, Purge(f) PROVE Good(row'[e], copies'[e])
    BY <1>1, <1>4 DEF Purge, TypeOK
  <1>5. ASSUME NEW w \in Worker, Claim(w) PROVE Good(row'[e], copies'[e])
    <2>1. CASE e \in Claimable
      <3>1. /\ row'[e].status = "sending" /\ row'[e].body = row[e].body
            /\ copies'[e] = copies[e]
        BY <1>5, <2>1 DEF Claim, TypeOK
      <3>2. row[e].status \in {"queued", "failed", "sending"}
        BY <2>1 DEF Claimable, Due
      <3> QED
        BY <1>1, <3>1, <3>2
    <2>2. CASE e \notin Claimable
      <3>1. row'[e] = row[e] /\ copies'[e] = copies[e]
        BY <1>5, <2>2 DEF Claim, TypeOK
      <3> QED
        BY <1>1, <3>1
    <2> QED
      BY <2>1, <2>2
  <1>6. ASSUME NEW w \in Worker, NEW p \in batch[w], Deliver(w, p)
        PROVE  Good(row'[e], copies'[e])
    <2>1. p \in Payload /\ (~p.body => copies[p.id].full > 0)
      BY HeldIsClaimed DEF PayloadInv
    <2>2. row' = row
      BY <1>6 DEF Deliver
    <2>3. copies'[e].empty > copies[e].empty => copies'[e].full > 0
      BY <1>0, <1>6, <2>1 DEF Deliver, Accepted, TypeOK, Payload
    <2>4. copies[e].empty \in Nat /\ copies'[e].empty \in Nat
      BY TypeStep DEF TypeOK
    <2>5. copies'[e].empty > 0 => copies'[e].full > 0
      BY <1>0, <1>1, <2>3, <2>4
    <2> QED
      BY <1>0, <1>1, <2>2, <2>5
  <1>7. ASSUME NEW w \in Worker, RecordSent(w) PROVE Good(row'[e], copies'[e])
    <2> DEFINE p == outcome[w].payload
    <2>1. p \in Payload /\ row[p.id].status # "none" /\ copies[p.id].full > 0
      BY <1>7, HeldIsClaimed DEF RecordSent, OutcomeInv, NoOutcome
    <2>2. row'[e] # row[e] => e = p.id
      BY <1>7 DEF RecordSent, TypeOK
    <2>3. row'[p.id].status \in {"sent", "purged"}
      BY <1>7, <2>1 DEF RecordSent, TypeOK, Payload
    <2>4. copies' = copies
      BY <1>7 DEF RecordSent
    <2> QED
      BY <1>1, <2>1, <2>2, <2>3, <2>4
  <1>8. ASSUME NEW w \in Worker, RecordFailure(w) PROVE Good(row'[e], copies'[e])
    <2> DEFINE p == outcome[w].payload
    <2>1. p \in Payload /\ row[p.id].status # "none"
      BY <1>8, HeldIsClaimed DEF RecordFailure, NoOutcome
    <2>2. \/ row'[e] = row[e]
          \/ /\ row'[e].body = row[e].body /\ row'[e].status \in {"failed", "queued"}
             /\ row[e].status \notin {"none", "purged"}
      BY <1>8, <2>1 DEF RecordFailure, FailureStatus, TypeOK, Payload
    <2>3. copies' = copies
      BY <1>8 DEF RecordFailure
    <2> QED
      BY <1>1, <2>2, <2>3
  <1>9. CASE UNCHANGED <<row, copies>>
    BY <1>1, <1>9
  <1> QED
    BY <1>3, <1>4, <1>5, <1>6, <1>7, <1>8, <1>9
    DEF Next, WorkerStep, BackoffElapses, ClaimGoesStale, Crash, Loses, vars

LEMMA GivenUpStep ==
  ASSUME IInv, [Next]_vars PROVE GivenUpOnlyWhenExhausted'
  <1>0. \A e \in Email : copies[e].full > 0 => copies'[e].full > 0
    BY Growth
  <1> USE DEF IInv, HeldInv
  <1> SUFFICES ASSUME NEW e \in Email
               PROVE  /\ row'[e].status = "failed" => row'[e].attempts = MaxAttempts
                      /\ row'[e].status = "purged" =>
                            row'[e].attempts = MaxAttempts \/ copies'[e].full > 0
    BY DEF GivenUpOnlyWhenExhausted
  <1> DEFINE Fine == /\ row'[e].status = "failed" => row'[e].attempts = MaxAttempts
                     /\ row'[e].status = "purged" =>
                            row'[e].attempts = MaxAttempts \/ copies'[e].full > 0
  <1>1. /\ row[e].status = "failed" => row[e].attempts = MaxAttempts
        /\ row[e].status = "purged" => row[e].attempts = MaxAttempts \/ copies[e].full > 0
        /\ row[e].status = "sent" => copies[e].full > 0
    BY DEF GivenUpOnlyWhenExhausted, BodyOutlivesDelivery
  <1>2. CASE row'[e] = row[e]
    BY <1>0, <1>1, <1>2
  <1>3. ASSUME NEW f \in Email, Enqueue(f) PROVE Fine
    BY <1>2, <1>3 DEF Enqueue, TypeOK
  <1>4. ASSUME NEW f \in Email, Purge(f) PROVE Fine
    <2>1. f = e \/ row'[e] = row[e]
      BY <1>4 DEF Purge, TypeOK
    <2>2. f = e => /\ row'[e].attempts = row[e].attempts /\ row'[e].status = "purged"
                   /\ row[e].status \in {"sent", "failed"}
      BY <1>4 DEF Purge, TypeOK
    <2> QED
      BY <1>0, <1>1, <1>2, <2>1, <2>2
  <1>5. ASSUME NEW w \in Worker, Claim(w) PROVE Fine
    <2>1. row'[e] = row[e] \/ row'[e].status = "sending"
      BY <1>5 DEF Claim, TypeOK
    <2> QED
      BY <1>2, <2>1
  <1>6. ASSUME NEW w \in Worker, RecordSent(w) PROVE Fine
    <2>1. row'[e] = row[e] \/ row'[e].status = "sent"
      BY <1>6 DEF RecordSent, TypeOK
    <2> QED
      BY <1>2, <2>1
  <1>7. ASSUME NEW w \in Worker, RecordFailure(w) PROVE Fine
    <2> DEFINE p == outcome[w].payload
    <2>1. p \in Payload /\ p.attempts <= row[p.id].attempts
      BY <1>7, HeldIsClaimed DEF RecordFailure, NoOutcome, OutcomeInv
    <2>2. \/ row'[e] = row[e]
          \/ row'[e].status = "queued"
          \/ p.id = e /\ p.attempts >= MaxAttempts /\ row'[e].status = "failed"
             /\ row'[e].attempts = row[e].attempts
      BY <1>7, <2>1 DEF RecordFailure, FailureStatus, Terminal, TypeOK, Payload
    <2>3. row[e].attempts \in 0..MaxAttempts /\ p.attempts \in 1..MaxAttempts
      BY <2>1 DEF TypeOK, Payload
    <2> QED
      BY <1>2, <2>1, <2>2, <2>3, BoundAssumption
  <1>8. CASE row' = row
    BY <1>2, <1>8
  <1> QED
    BY <1>3, <1>4, <1>5, <1>6, <1>7, <1>8
    DEF Next, WorkerStep, Deliver, BackoffElapses, ClaimGoesStale, Crash, Loses, vars

-----------------------------------------------------------------------------

LEMMA SpecIInv == Spec => []IInv
  <1>1. Init => IInv
    BY InitIInv
  <1>2. IInv /\ [Next]_vars => IInv'
    <2> SUFFICES ASSUME IInv, [Next]_vars PROVE IInv'
      OBVIOUS
    <2>1. TypeOK'
      BY TypeStep DEF IInv
    <2> QED
      BY <2>1, CountedStep, ClaimedOnceStep, PayloadStep, OutcomeStep, BodyStep, GivenUpStep
      DEF IInv, HeldInv
  <1> QED
    BY <1>1, <1>2, PTL DEF Spec

\* The variables keep their types, whatever workers do and wherever they die.
THEOREM OutboxTypeOK == Spec => []TypeOK
  BY SpecIInv, PTL DEF IInv

\* A mail is handed out at most once per attempt of its row: every copy, and every
\* payload still held by some worker, has an attempt of its own.
THEOREM CopiesWithinAttemptsHolds == Spec => []CopiesWithinAttempts
  <1>1. IInv => CopiesWithinAttempts
    <2> SUFFICES ASSUME IInv, NEW e \in Email
                 PROVE  copies[e].full + copies[e].empty <= row[e].attempts
      BY DEF CopiesWithinAttempts
    <2>1. Cardinality(Outstanding(e)) \in Nat
      BY OutstandingFinite
    <2>2. copies[e].full \in Nat /\ copies[e].empty \in Nat /\ row[e].attempts \in Nat
      BY BoundAssumption DEF IInv, TypeOK
    <2> QED
      BY <2>1, <2>2 DEF IInv, Counted
  <1> QED
    BY <1>1, SpecIInv, PTL

\* No interleaving of late outcomes and reclaims loses the body of a mail before a copy
\* with the body was accepted.
THEOREM BodyOutlivesDeliveryHolds == Spec => []BodyOutlivesDelivery
  BY SpecIInv, PTL DEF IInv

\* A mail given up has used all its attempts.
THEOREM GivenUpHolds == Spec => []GivenUpOnlyWhenExhausted
  BY SpecIInv, PTL DEF IInv

-----------------------------------------------------------------------------
(* The outbox implements MailPromise.                                       *)

Mails == [e \in Email |-> MailOf(e)]

LEMMA PromiseInit == Init => Promise!Init
  BY DEF Init, Promise!Init, MailOf, StageOf, Pending

\* A step that leaves every row's status and attempts and the copies alone is a stutter.
LEMMA PromiseStutter ==
  ASSUME \A e \in Email : MailOf(e)' = MailOf(e)
  PROVE  Mails' = Mails
  BY DEF Mails

\* What one step changes of one mail.
LEMMA PromiseMove ==
  ASSUME NEW e \in Email, NEW stage,
         \A f \in Email : MailOf(f)' = IF f = e THEN [MailOf(f) EXCEPT !.stage = stage] ELSE MailOf(f)
  PROVE  Promise!Moved(e, stage)
  <1>1. [f \in Email |-> MailOf(f)'] = [Mails EXCEPT ![e] = [MailOf(e) EXCEPT !.stage = stage]]
    BY DEF Mails
  <1>2. Mails[e] = MailOf(e)
    BY DEF Mails
  <1> QED
    BY <1>1, <1>2 DEF Promise!Moved, Mails

LEMMA PromiseHere ==
  ASSUME TypeOK, NEW e \in Email, row[e].status \notin {"none", "purged"}
  PROVE  Promise!Here(e)
  <1>1. row[e].status \in Status
    BY DEF TypeOK
  <1> QED
    BY <1>1 DEF Promise!Here, MailOf, StageOf, Pending, Status

LEMMA PromiseStep == IInv /\ [Next]_vars => [Promise!Next]_Mails
  <1> SUFFICES ASSUME IInv, [Next]_vars PROVE Promise!Next \/ Mails' = Mails
    OBVIOUS
  <1> USE DEF IInv
  <1>1. ASSUME NEW e \in Email, Enqueue(e) PROVE Promise!Next
    <2>1. Promise!Accept(e)
      BY <1>1 DEF Enqueue, Promise!Accept, Promise!Moved, MailOf, StageOf, Pending, RowInv, HeldInv, TypeOK
    <2> QED
      BY <2>1 DEF Promise!Next
  <1>2. ASSUME NEW e \in Email, Purge(e) PROVE Promise!Next
    <2>1. Promise!Purge(e)
      BY <1>2 DEF Purge, Promise!Purge, Promise!Moved, MailOf, StageOf, Pending, TypeOK
    <2> QED
      BY <2>1 DEF Promise!Next
  <1>3. ASSUME NEW w \in Worker, Claim(w) PROVE Promise!Next
    <2>1. \A e \in Claimable : e \in Email /\ row[e].status \in Pending /\ row[e].attempts < MaxAttempts
      BY DEF Claimable, Due, GivenUpOnlyWhenExhausted, Pending, TypeOK
    <2>2. \A e \in Email : MailOf(e)' = IF e \in Claimable
                                       THEN [MailOf(e) EXCEPT !.tries = @ + 1] ELSE MailOf(e)
      BY <1>3, <2>1 DEF Claim, MailOf, StageOf, Pending, TypeOK
    <2>3. \A e \in Claimable : MailOf(e).stage = "open" /\ MailOf(e).tries < MaxAttempts
      BY <2>1 DEF MailOf, StageOf
    <2>4. Promise!Try(Claimable)
      BY <2>1, <2>2, <2>3 DEF Promise!Try
    <2>5. Claimable \in SUBSET Email
      BY <2>1
    <2> QED
      BY <2>4, <2>5 DEF Promise!Next
  <1>4. ASSUME NEW w \in Worker, NEW p \in batch[w], Deliver(w, p)
        PROVE  Promise!Next \/ Mails' = Mails
    <2>1. p.id \in Email /\ (~p.body => copies[p.id].full > 0) /\ row' = row
      BY <1>4, HeldIsClaimed DEF Deliver, PayloadInv, HeldInv, Payload
    <2>2. CASE UNCHANGED copies
      <3>1. \A e \in Email : MailOf(e)' = MailOf(e)
        BY <2>1, <2>2 DEF MailOf
      <3> QED
        BY <3>1, PromiseStutter
    <2>3. CASE Accepted(p)
      <3>1. \/ \A e \in Email : MailOf(e)' = IF e = p.id THEN [MailOf(e) EXCEPT !.full = @ + 1]
                                                        ELSE MailOf(e)
            \/ /\ copies[p.id].full > 0
               /\ \A e \in Email : MailOf(e)' = IF e = p.id THEN [MailOf(e) EXCEPT !.empty = @ + 1]
                                                        ELSE MailOf(e)
        BY <2>1, <2>3 DEF Accepted, MailOf, TypeOK
      <3>2. copies[p.id].full + copies[p.id].empty < row[p.id].attempts
        <4>1. p.attempts \in Outstanding(p.id)
          BY HeldIsClaimed DEF Outstanding, Payload
        <4>2. IsFiniteSet(Outstanding(p.id)) /\ Cardinality(Outstanding(p.id)) \in Nat
          BY OutstandingFinite
        <4>3. Cardinality(Outstanding(p.id)) # 0
          BY <4>1, <4>2, FS_EmptySet
        <4>4. /\ copies[p.id].full \in Nat /\ copies[p.id].empty \in Nat
              /\ row[p.id].attempts \in Nat
          BY <2>1, BoundAssumption DEF TypeOK
        <4> QED
          BY <2>1, <4>2, <4>3, <4>4 DEF Counted
      <3>3. Promise!HandOut(p.id)
        <4> DEFINE q == p.id
        <4>1. /\ Mails[q].full = copies[q].full /\ Mails[q].empty = copies[q].empty
              /\ Mails[q].tries = row[q].attempts
          BY <2>1 DEF Mails, MailOf
        <4>2. \/ [f \in Email |-> MailOf(f)'] = [Mails EXCEPT ![q] = [MailOf(q) EXCEPT !.full = @ + 1]]
              \/ /\ copies[q].full > 0
                 /\ [f \in Email |-> MailOf(f)'] = [Mails EXCEPT ![q] = [MailOf(q) EXCEPT !.empty = @ + 1]]
          BY <2>1, <3>1 DEF Mails
        <4>3. Mails[q] = MailOf(q)
          BY <2>1 DEF Mails
        <4> QED
          BY <2>1, <3>2, <4>1, <4>2, <4>3 DEF Promise!HandOut, Mails
      <3> QED
        BY <2>1, <3>3 DEF Promise!Next
    <2> QED
      BY <1>4, <2>2, <2>3 DEF Deliver
  <1>5. ASSUME NEW w \in Worker, RecordSent(w) \/ RecordFailure(w)
        PROVE  Promise!Next \/ Mails' = Mails
    <2> DEFINE e == outcome[w].payload.id
               to(stage) == \A f \in Email : MailOf(f)' = IF f = e THEN [MailOf(f) EXCEPT !.stage = stage]
                                                         ELSE MailOf(f)
    <2>1. /\ e \in Email /\ row[e].status # "none"
          /\ outcome[w].payload.attempts <= row[e].attempts
          /\ outcome[w].payload.attempts \in Nat
          /\ outcome[w].answer = "ok" => copies[e].full > 0
      BY <1>5, HeldIsClaimed
      DEF RecordSent, RecordFailure, NoOutcome, OutcomeInv, HeldInv, Payload
    <2>2. CASE row[e].status = "purged"
      <3>1. row' = row /\ copies' = copies
        BY <1>5, <2>2 DEF RecordSent, RecordFailure
      <3>2. \A f \in Email : MailOf(f)' = MailOf(f)
        BY <3>1 DEF MailOf
      <3> QED
        BY <3>2, PromiseStutter
    <2>3. CASE row[e].status # "purged" /\ RecordSent(w)
      <3>1. to("sent")
        BY <2>1, <2>3 DEF RecordSent, MailOf, StageOf, Pending, TypeOK
      <3>2. copies[e].full > 0
        BY <2>1, <2>3 DEF RecordSent
      <3>3. Promise!Confirm(e)
        <4>1. Promise!Here(e)
          BY <2>1, <2>3, PromiseHere
        <4>2. Promise!Moved(e, "sent")
          BY <2>1, <3>1, PromiseMove
        <4> QED
          BY <2>1, <3>2, <4>1, <4>2 DEF Promise!Confirm, MailOf
      <3> QED
        BY <2>1, <3>3 DEF Promise!Next
    <2>4. CASE row[e].status # "purged" /\ RecordFailure(w)
      <3>1. CASE Terminal(outcome[w].payload)
        <4>1. to("failed")
          BY <2>1, <2>4, <3>1 DEF RecordFailure, FailureStatus, MailOf, StageOf, Pending, TypeOK
        <4>2. row[e].attempts = MaxAttempts
          <5>1. row[e].attempts \in 0..MaxAttempts
            BY <2>1 DEF TypeOK
          <5>2. outcome[w].payload.attempts >= MaxAttempts
            BY <3>1 DEF Terminal
          <5> QED
            BY <2>1, <5>1, <5>2, BoundAssumption
        <4>3. Promise!GiveUp(e)
          <5>1. Promise!Here(e)
            BY <2>1, <2>4, PromiseHere
          <5>2. Promise!Moved(e, "failed")
            BY <2>1, <4>1, PromiseMove
          <5> QED
            BY <2>1, <4>2, <5>1, <5>2 DEF Promise!GiveUp, MailOf
        <4> QED
          BY <2>1, <4>3 DEF Promise!Next
      <3>2. CASE ~Terminal(outcome[w].payload)
        <4>1. to("open")
          BY <2>1, <2>4, <3>2 DEF RecordFailure, FailureStatus, MailOf, StageOf, Pending, TypeOK
        <4>2. Promise!Reopen(e)
          <5>1. Promise!Here(e)
            BY <2>1, <2>4, PromiseHere
          <5>2. Promise!Moved(e, "open")
            BY <2>1, <4>1, PromiseMove
          <5> QED
            BY <5>1, <5>2 DEF Promise!Reopen
        <4> QED
          BY <2>1, <4>2 DEF Promise!Next
      <3> QED
        BY <3>1, <3>2
    <2> QED
      BY <1>5, <2>2, <2>3, <2>4
  <1>6. CASE UNCHANGED <<row, copies>>
    <2>1. \A e \in Email : MailOf(e)' = MailOf(e)
      BY <1>6 DEF MailOf
    <2> QED
      BY <2>1, PromiseStutter
  <1> QED
    BY <1>1, <1>2, <1>3, <1>4, <1>5, <1>6
    DEF Next, WorkerStep, BackoffElapses, ClaimGoesStale, Crash, Loses, vars

\* Every behaviour of the outbox is one that MailPromise allows.
THEOREM OutboxKeepsPromise == Spec => KeepsPromise
  <1>1. Init => Promise!Init
    BY PromiseInit
  <1>2. IInv /\ [Next]_vars => [Promise!Next]_Mails
    BY PromiseStep
  <1> QED
    BY <1>1, <1>2, SpecIInv, PTL DEF Spec, KeepsPromise, Promise!Spec, Mails

=============================================================================
