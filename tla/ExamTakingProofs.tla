-------------------------- MODULE ExamTakingProofs --------------------------
(* Machine-checked proofs about ExamTaking, for every number of requests,  *)
(* links and attempts and every setting of the flags.                      *)
EXTENDS ExamTaking, TLAPS

\* What a request has in memory at each point of its handler.
CtxOK(r) ==
    /\ pc[r] \in {"start", "absent", "cleared", "numbered",
                  "submit", "loaded", "claimed", "flushed"} => ctx[r].link \in Link
    /\ pc[r] = "numbered" =>
          /\ ctx[r].att \in AttemptNo
          /\ \A b \in AttemptNo : b < ctx[r].att => b \in Opened
    /\ pc[r] \in {"loaded", "claimed", "flushed"} =>
          ctx[r].att \in Opened /\ ctx[r].attSt = "in_progress"
    /\ pc[r] = "unclaim" => ctx[r].att \in AttemptNo

CtxInv == \A r \in Request : CtxOK(r)

\* Two flushed transactions never share a row.
LockInv ==
    \A r, q \in Request :
        (r # q /\ pc[r] = "flushed" /\ pc[q] = "flushed") =>
            ctx[r].att # ctx[q].att /\ ctx[r].link # ctx[q].link

\* A transaction about to mint holds the rows of every invite it could duplicate.
MintInv ==
    \A r \in Request : (pc[r] = "flushed" /\ ctx[r].mint) =>
        \A i \in invites : i.att # ctx[r].att /\ i.link # ctx[r].link

\* The key of every request that is grading is in Redis.
ClaimInv == RedisReliable => \A r \in Holding : ctx[r].att \in claims

-----------------------------------------------------------------------------

LEMMA InitTypeOK == Init => TypeOK
  BY RequestAssumption, BoundAssumption, FlagAssumption
  DEF Init, TypeOK, Blank, CtxType, PC, AttemptStatus, LinkStatus, AttemptNo, Final

\* What a handler puts in its context is a well-typed context.
LEMMA CtxUpdates ==
    /\ Blank \in CtxType
    /\ \A l \in Link, s \in LinkStatus :
          [Blank EXCEPT !.link = l, !.linkSt = s] \in CtxType
    /\ \A a \in 0..MaxAttempts : [Blank EXCEPT !.att = a] \in CtxType
    /\ \A c \in CtxType :
          /\ \A a \in 0..MaxAttempts : [c EXCEPT !.att = a] \in CtxType
          /\ \A a \in 0..MaxAttempts, s \in AttemptStatus :
                [c EXCEPT !.att = a, !.attSt = s] \in CtxType
          /\ \A b \in BOOLEAN : [c EXCEPT !.late = b] \in CtxType
          /\ \A b \in BOOLEAN : [c EXCEPT !.passed = TRUE, !.mint = b] \in CtxType
  <1>1. Blank \in CtxType
    BY BoundAssumption DEF Blank, CtxType, LinkStatus, AttemptStatus
  <1>2. ASSUME NEW l \in Link, NEW s \in LinkStatus
        PROVE  [Blank EXCEPT !.link = l, !.linkSt = s] \in CtxType
    BY <1>1 DEF CtxType
  <1>3. ASSUME NEW a \in 0..MaxAttempts
        PROVE  [Blank EXCEPT !.att = a] \in CtxType
    BY DEF Blank, CtxType, LinkStatus, AttemptStatus, Final
  <1>4. ASSUME NEW c \in CtxType
        PROVE  /\ \A a \in 0..MaxAttempts : [c EXCEPT !.att = a] \in CtxType
               /\ \A a \in 0..MaxAttempts, s \in AttemptStatus :
                     [c EXCEPT !.att = a, !.attSt = s] \in CtxType
               /\ \A b \in BOOLEAN : [c EXCEPT !.late = b] \in CtxType
               /\ \A b \in BOOLEAN : [c EXCEPT !.passed = TRUE, !.mint = b] \in CtxType
    BY DEF CtxType
  <1>5. QED
    BY <1>1, <1>2, <1>3, <1>4

LEMMA CtxFields ==
    ASSUME NEW c \in CtxType
    PROVE  /\ c.link \in Link \cup {None}
           /\ c.linkSt \in LinkStatus
           /\ c.att \in 0..MaxAttempts
           /\ c.attSt \in AttemptStatus
           /\ c.late \in BOOLEAN
           /\ c.passed \in BOOLEAN
           /\ c.mint \in BOOLEAN
  BY DEF CtxType

\* Control and memory of one request change to well-typed values.
LEMMA StepTyped ==
    ASSUME TypeOK, NEW r \in Request, NEW label \in PC, NEW c \in CtxType,
           Goto(r, label), Remember(r, c)
    PROVE  pc' \in [Request -> PC] /\ ctx' \in [Request -> CtxType]
  BY DEF TypeOK, Goto, Remember

LEMMA ReplyTyped ==
    ASSUME TypeOK, NEW r \in Request, Reply(r)
    PROVE  pc' \in [Request -> PC] /\ ctx' \in [Request -> CtxType]
  BY CtxUpdates, StepTyped DEF Reply, PC

LEMMA NextTypeOK == TypeOK /\ CtxInv /\ [Next]_vars => TypeOK'
  <1> SUFFICES ASSUME TypeOK, CtxInv, [Next]_vars PROVE TypeOK'
    OBVIOUS
  <1>0. /\ pc \in [Request -> PC]
        /\ ctx \in [Request -> CtxType]
        /\ \A r \in Request : ctx[r] \in CtxType
        /\ \A r \in Request : ctx[r].att \in 0..MaxAttempts
        /\ AttemptNo \subseteq 0..MaxAttempts
    <2>1. \A r \in Request : ctx[r] \in CtxType
      BY DEF TypeOK
    <2>2. QED
      BY <2>1, CtxFields, BoundAssumption DEF TypeOK, AttemptNo
  <1>1. CASE HR
    BY <1>1 DEF HR, Assign, Revoke, InviteEnds, TypeOK, LinkStatus
  <1>2. CASE Clock
    BY <1>2 DEF Clock, DeadlinePasses, ClaimExpires, TypeOK
  <1>3. ASSUME NEW r \in Request, Arrive(r) PROVE TypeOK'
    <2>1. PICK l \in Link, label \in {"start", "submit"} : Resolve(r, l, label)
      BY <1>3 DEF Arrive
    <2>2. link[l] \in LinkStatus /\ label \in PC
      BY DEF TypeOK, PC
    <2>3. pc' \in [Request -> PC] /\ ctx' \in [Request -> CtxType]
      BY <2>1, <2>2, CtxUpdates, StepTyped DEF Resolve
    <2>4. QED
      BY <2>1, <2>3 DEF Resolve, TypeOK
  <1>4. ASSUME NEW r \in Request, Crash(r) PROVE TypeOK'
    BY <1>4, ReplyTyped DEF Crash, TypeOK
  <1>5. ASSUME NEW r \in Request, RequestStep(r) PROVE TypeOK'
    <2>1. CASE StartFind(r)
      BY <2>1, ReplyTyped DEF StartFind, Goto, TypeOK, PC
    <2>2. CASE StartCheck(r)
      BY <2>2, ReplyTyped DEF StartCheck, Goto, TypeOK, PC
    <2>3. CASE StartNumber(r)
      <3>1. pc' \in [Request -> PC] /\ ctx' \in [Request -> CtxType]
        BY <1>0, <2>3, CtxUpdates, StepTyped DEF StartNumber, PC
      <3>2. QED
        BY <2>3, <3>1 DEF StartNumber, TypeOK
    <2>4. CASE StartInsert(r)
      BY <2>4, ReplyTyped DEF StartInsert, TypeOK, AttemptStatus, LinkStatus
    <2>5. ASSUME NEW a \in AttemptNo, Load(r, a) PROVE TypeOK'
      <3>1. attempt[a].status \in AttemptStatus
        BY DEF TypeOK
      <3>2. pc' \in [Request -> PC] /\ ctx' \in [Request -> CtxType]
        BY <1>0, <2>5, <3>1, CtxUpdates, StepTyped, ReplyTyped DEF Load, PC
      <3>3. QED
        BY <2>5, <3>2 DEF Load, TypeOK
    <2>6. CASE ClaimGranted(r) \/ ClaimFailsOpen(r)
      <3>1. Granted(r, ctx[r].att) => pc' \in [Request -> PC] /\ ctx' \in [Request -> CtxType]
        <4> DEFINE c == [ctx[r] EXCEPT !.late = (ctx[r].att \in overdue)]
        <4>1. c \in CtxType
          <5>1. (ctx[r].att \in overdue) = TRUE \/ (ctx[r].att \in overdue) = FALSE
            OBVIOUS
          <5>2. /\ [ctx[r] EXCEPT !.late = TRUE] \in CtxType
                /\ [ctx[r] EXCEPT !.late = FALSE] \in CtxType
            BY <1>0, CtxUpdates
          <5>3. QED
            BY <5>1, <5>2, Zenon
        <4>2. "claimed" \in PC
          BY DEF PC
        <4>3. QED
          BY <4>1, <4>2, StepTyped DEF Granted
      <3>2. ctx[r].att \in AttemptNo
        BY <2>6 DEF CtxInv, CtxOK, ClaimGranted, ClaimFailsOpen, Opened
      <3>3. QED
        BY <1>0, <2>6, <3>1, <3>2 DEF ClaimGranted, ClaimFailsOpen, TypeOK
    <2>7. CASE ClaimRefused(r)
      BY <2>7, ReplyTyped DEF ClaimRefused, TypeOK
    <2>8. Written(r) => pc' \in [Request -> PC] /\ ctx' \in [Request -> CtxType]
      BY <1>0, CtxUpdates, StepTyped DEF Written, PC
    <2>9. LinkClosedBy(r) \in [Link -> LinkStatus]
      BY DEF LinkClosedBy, TypeOK, LinkStatus
    <2>10. \A b \in BOOLEAN :
             [attempt EXCEPT ![ctx[r].att] = ResultRow(r, b)]
                \in [AttemptNo -> [status : AttemptStatus, passed : BOOLEAN]]
      BY DEF ResultRow, TypeOK, AttemptStatus, Final
    <2>11. CASE Persist(r)
      <3>1. attempt' \in [AttemptNo -> [status : AttemptStatus, passed : BOOLEAN]]
        <4>1. PICK b \in BOOLEAN : attempt' = [attempt EXCEPT ![ctx[r].att] = ResultRow(r, b)]
          BY <2>11 DEF Persist
        <4>2. QED
          BY <2>10, <4>1
      <3>2. /\ Written(r)
            /\ link' = LinkClosedBy(r)
            /\ UNCHANGED <<overdue, claims, invites>>
        BY <2>11 DEF Persist
      <3>3. QED
        BY <2>8, <2>9, <3>1, <3>2 DEF TypeOK
    <2>12. CASE PersistFlush(r)
      <3>1. pc' \in [Request -> PC] /\ ctx' \in [Request -> CtxType]
        BY <1>0, <2>12, CtxUpdates, StepTyped DEF PersistFlush, PC
      <3>2. QED
        BY <2>12, <3>1 DEF PersistFlush, TypeOK
    <2>13. CASE PersistCommit(r)
      <3>1. [att |-> ctx[r].att, link |-> ctx[r].link] \in InviteType
        BY <2>13 DEF CtxInv, CtxOK, PersistCommit, Opened, InviteType
      <3>2. attempt' \in [AttemptNo -> [status : AttemptStatus, passed : BOOLEAN]]
        BY <2>10, <2>13 DEF PersistCommit
      <3>3. /\ Written(r)
            /\ link' = LinkClosedBy(r)
            /\ invites' \subseteq invites \cup {[att |-> ctx[r].att, link |-> ctx[r].link]}
            /\ UNCHANGED <<overdue, claims>>
        BY <2>13 DEF PersistCommit
      <3>4. QED
        BY <2>8, <2>9, <3>1, <3>2, <3>3 DEF TypeOK
    <2>14. CASE PersistFails(r)
      BY <2>8, <2>14 DEF PersistFails, TypeOK
    <2>15. CASE Unclaim(r)
      BY <2>15, ReplyTyped DEF Unclaim, TypeOK
    <2>16. QED
      BY <1>5, <2>1, <2>2, <2>3, <2>4, <2>5, <2>6, <2>7, <2>11, <2>12, <2>13, <2>14, <2>15
      DEF RequestStep
  <1>6. CASE UNCHANGED vars
    BY <1>6 DEF vars, TypeOK
  <1>7. QED
    BY <1>1, <1>2, <1>3, <1>4, <1>5, <1>6 DEF Next

-----------------------------------------------------------------------------
(* What each step does to the request that takes it and to the others.      *)

Others(r) == \A q \in Request : q # r => pc'[q] = pc[q] /\ ctx'[q] = ctx[q]

LEMMA Moves ==
    ASSUME TypeOK, NEW r \in Request, NEW label, NEW c, Goto(r, label), Remember(r, c)
    PROVE  pc'[r] = label /\ ctx'[r] = c /\ Others(r)
  BY DEF TypeOK, Goto, Remember, Others

LEMMA Leaves ==
    ASSUME TypeOK, NEW r \in Request, Reply(r)
    PROVE  pc'[r] = "idle" /\ ctx'[r] = Blank /\ Others(r)
  BY Moves DEF Reply

LEMMA Ends ==
    ASSUME TypeOK, NEW r \in Request, Written(r)
    PROVE  /\ pc'[r] = "unclaim" /\ ctx'[r] = [Blank EXCEPT !.att = ctx[r].att]
           /\ Others(r)
  BY Moves DEF Written

LEMMA StepOthers ==
    ASSUME TypeOK, NEW r \in Request, Arrive(r) \/ RequestStep(r) \/ Crash(r)
    PROVE  Others(r)
  <1>1. CASE Arrive(r)
    BY <1>1 DEF Arrive, Resolve, TypeOK, Goto, Remember, Others
  <1>2. CASE Crash(r)
    BY <1>2, Leaves DEF Crash
  <1>3. CASE RequestStep(r)
    <2>1. CASE StartFind(r) \/ StartCheck(r) \/ StartNumber(r) \/ StartInsert(r)
      BY <2>1, Leaves
      DEF StartFind, StartCheck, StartNumber, StartInsert, TypeOK, Goto, Remember, Others
    <2>2. ASSUME NEW a \in AttemptNo, Load(r, a) PROVE Others(r)
      BY <2>2, Leaves DEF Load, TypeOK, Goto, Remember, Others
    <2>3. CASE ClaimGranted(r) \/ ClaimRefused(r) \/ ClaimFailsOpen(r)
      BY <2>3, Leaves, Moves DEF ClaimGranted, ClaimRefused, ClaimFailsOpen, Granted
    <2>4. CASE Persist(r) \/ PersistFlush(r) \/ PersistCommit(r) \/ PersistFails(r)
      BY <2>4, Ends, Moves DEF Persist, PersistFlush, PersistCommit, PersistFails
    <2>5. CASE Unclaim(r)
      BY <2>5, Leaves DEF Unclaim
    <2>6. QED
      BY <1>3, <2>1, <2>2, <2>3, <2>4, <2>5 DEF RequestStep
  <1>4. QED
    BY <1>1, <1>2, <1>3

-----------------------------------------------------------------------------
(* The rows of exam_attempts: an insert opens one, a persist grades one.    *)

Inserts(r) ==
    /\ StartInsert(r)
    /\ Insertable(ctx[r].att)
    /\ attempt' = [attempt EXCEPT ![ctx[r].att].status = "in_progress"]

Grades(r) ==
    /\ Persist(r) \/ PersistCommit(r)
    /\ \E b \in BOOLEAN : attempt' = [attempt EXCEPT ![ctx[r].att] = ResultRow(r, b)]

LEMMA AttemptCases ==
    ASSUME [Next]_vars
    PROVE  attempt' = attempt \/ \E r \in Request : Inserts(r) \/ Grades(r)
  <1>1. CASE HR \/ Clock \/ UNCHANGED vars
    BY <1>1 DEF HR, Assign, Revoke, InviteEnds, Clock, DeadlinePasses, ClaimExpires, vars
  <1>2. ASSUME NEW r \in Request, Arrive(r) \/ Crash(r) PROVE attempt' = attempt
    BY <1>2 DEF Arrive, Resolve, Crash
  <1>3. ASSUME NEW r \in Request, RequestStep(r)
        PROVE  attempt' = attempt \/ Inserts(r) \/ Grades(r)
    <2>1. StartInsert(r) => attempt' = attempt \/ Inserts(r)
      BY DEF StartInsert, Inserts
    <2>2. Persist(r) => Grades(r)
      BY DEF Persist, Grades
    <2>3. PersistCommit(r) => Grades(r)
      BY DEF PersistCommit, Grades
    <2>4. StartFind(r) \/ StartCheck(r) \/ StartNumber(r) => attempt' = attempt
      BY DEF StartFind, StartCheck, StartNumber
    <2>5. (\E a \in AttemptNo : Load(r, a)) => attempt' = attempt
      BY DEF Load
    <2>6. ClaimGranted(r) \/ ClaimRefused(r) \/ ClaimFailsOpen(r) => attempt' = attempt
      BY DEF ClaimGranted, ClaimRefused, ClaimFailsOpen
    <2>7. PersistFlush(r) \/ PersistFails(r) \/ Unclaim(r) => attempt' = attempt
      BY DEF PersistFlush, PersistFails, Unclaim
    <2>8. QED
      BY <1>3, <2>1, <2>2, <2>3, <2>4, <2>5, <2>6, <2>7 DEF RequestStep
  <1>4. QED
    BY <1>1, <1>2, <1>3 DEF Next

\* An insert changes one row, from none to in_progress, when no row is live.
LEMMA InsertEffect ==
    ASSUME TypeOK, CtxInv, NEW r \in Request, Inserts(r)
    PROVE  /\ ctx[r].att \in AttemptNo /\ attempt[ctx[r].att].status = "none"
           /\ \A b \in AttemptNo : ~Live(b)
           /\ \A b \in AttemptNo : b < ctx[r].att => b \in Opened
           /\ attempt'[ctx[r].att].status = "in_progress"
           /\ \A b \in AttemptNo : b # ctx[r].att => attempt'[b] = attempt[b]
  BY DEF Inserts, StartInsert, Insertable, CtxInv, CtxOK, TypeOK

\* A persist changes one opened row, to a final status.
LEMMA GradeEffect ==
    ASSUME TypeOK, CtxInv, NEW r \in Request, Grades(r)
    PROVE  /\ pc[r] \in {"claimed", "flushed"} /\ ctx[r].att \in Opened
           /\ ctx[r].attSt = "in_progress"
           /\ attempt'[ctx[r].att].status \in Final
           /\ \A b \in AttemptNo : b # ctx[r].att => attempt'[b] = attempt[b]
  <1>1. pc[r] \in {"claimed", "flushed"}
    BY DEF Grades, Persist, PersistCommit
  <1>2. ctx[r].att \in Opened /\ ctx[r].attSt = "in_progress"
    BY <1>1 DEF CtxInv, CtxOK
  <1>3. PICK b \in BOOLEAN : attempt' = [attempt EXCEPT ![ctx[r].att] = ResultRow(r, b)]
    BY DEF Grades
  <1>4. ResultRow(r, b).status \in Final
    BY <1>2 DEF ResultRow, Final
  <1>5. QED
    BY <1>1, <1>2, <1>3, <1>4 DEF TypeOK, Opened

LEMMA RowsOnlyAdvance ==
    ASSUME TypeOK, CtxInv, [Next]_vars
    PROVE  /\ Opened \subseteq Opened'
           /\ \A a \in AttemptNo : Graded(a) => Graded(a)'
  <1>1. CASE attempt' = attempt
    BY <1>1 DEF Opened, Graded
  <1>2. ASSUME NEW r \in Request, Inserts(r) PROVE  /\ Opened \subseteq Opened'
               /\ \A a \in AttemptNo : Graded(a) => Graded(a)'
    BY <1>2, InsertEffect DEF Opened, Graded, Final
  <1>3. ASSUME NEW r \in Request, Grades(r) PROVE  /\ Opened \subseteq Opened'
               /\ \A a \in AttemptNo : Graded(a) => Graded(a)'
    BY <1>3, GradeEffect DEF Opened, Graded, Final
  <1>4. QED
    BY <1>1, <1>2, <1>3, AttemptCases

-----------------------------------------------------------------------------
(* CtxInv: opened rows stay open, so only the request that steps matters.   *)

LEMMA CtxStays ==
    ASSUME Opened \subseteq Opened', NEW r \in Request, CtxOK(r),
           pc'[r] = pc[r], ctx'[r] = ctx[r]
    PROVE  CtxOK(r)'
  BY DEF CtxOK

LEMMA CtxIdle ==
    ASSUME NEW r \in Request, pc'[r] = "idle"
    PROVE  CtxOK(r)'
  BY DEF CtxOK

LEMMA CtxUnclaim ==
    ASSUME NEW r \in Request, CtxOK(r), TypeOK,
           pc[r] \in {"claimed", "flushed"}, Written(r)
    PROVE  CtxOK(r)'
  BY Ends DEF CtxOK, Opened, Blank

LEMMA StepCtxOK ==
    ASSUME TypeOK, CtxInv, Opened \subseteq Opened', NEW r \in Request,
           Arrive(r) \/ RequestStep(r) \/ Crash(r)
    PROVE  CtxOK(r)'
  <1>0. CtxOK(r) /\ ctx[r] \in CtxType
    BY DEF CtxInv, TypeOK
  <1>1. ASSUME NEW l \in Link, NEW label \in {"start", "submit"}, Resolve(r, l, label)
        PROVE  CtxOK(r)'
    <2>1. pc'[r] = label /\ ctx'[r].link = l
      BY <1>1 DEF Resolve, TypeOK, Goto, Remember, Blank
    <2>2. QED
      BY <2>1 DEF CtxOK
  <1>2. CASE Crash(r) \/ ClaimRefused(r) \/ Unclaim(r) \/ StartInsert(r)
    BY <1>2, Leaves, CtxIdle DEF Crash, ClaimRefused, Unclaim, StartInsert
  <1>3. CASE StartFind(r) \/ StartCheck(r)
    <2>1. CASE Reply(r)
      BY <2>1, Leaves, CtxIdle
    <2>2. CASE pc[r] \in {"start", "absent"} /\ UNCHANGED ctx
               /\ (Goto(r, "absent") \/ Goto(r, "cleared"))
      BY <1>0, <2>2 DEF TypeOK, Goto, CtxOK
    <2>3. QED
      BY <1>3, <2>1, <2>2 DEF StartFind, StartCheck
  <1>4. CASE StartNumber(r)
    <2>1. PICK a \in AttemptNo : /\ \A b \in AttemptNo : b \in Opened <=> b < a
                                 /\ Remember(r, [ctx[r] EXCEPT !.att = a])
      BY <1>4 DEF StartNumber
    <2>2. /\ pc[r] = "cleared" /\ pc'[r] = "numbered"
          /\ ctx'[r] = [ctx[r] EXCEPT !.att = a]
      BY <1>4, <2>1, Moves DEF StartNumber
    <2>3. ctx'[r].att = a /\ ctx'[r].link = ctx[r].link
      BY <1>0, <2>2 DEF CtxType
    <2>4. QED
      BY <1>0, <2>1, <2>2, <2>3 DEF CtxOK
  <1>5. ASSUME NEW a \in AttemptNo, Load(r, a) PROVE CtxOK(r)'
    <2>1. CASE Reply(r)
      BY <2>1, Leaves, CtxIdle
    <2>2. CASE /\ Goto(r, "loaded") /\ ~Graded(a)
               /\ Remember(r, [ctx[r] EXCEPT !.att = a, !.attSt = attempt[a].status])
      <3>1. pc'[r] = "loaded" /\ ctx'[r] = [ctx[r] EXCEPT !.att = a, !.attSt = attempt[a].status]
        BY <2>2, Moves
      <3>2. ctx'[r].att = a /\ ctx'[r].attSt = attempt[a].status /\ ctx'[r].link = ctx[r].link
        BY <1>0, <3>1 DEF CtxType
      <3>3. attempt[a].status = "in_progress"
        BY <1>5, <2>2 DEF Load, Opened, Graded, TypeOK, AttemptStatus
      <3>4. pc[r] = "submit" /\ a \in Opened
        BY <1>5 DEF Load
      <3>5. QED
        BY <1>0, <3>1, <3>2, <3>3, <3>4 DEF CtxOK
    <2>3. QED
      BY <1>5, <2>1, <2>2 DEF Load
  <1>6. CASE ClaimGranted(r) \/ ClaimFailsOpen(r)
    <2>1. /\ pc[r] = "loaded" /\ pc'[r] = "claimed"
          /\ ctx'[r] = [ctx[r] EXCEPT !.late = (ctx[r].att \in overdue)]
      BY <1>6, Moves DEF ClaimGranted, ClaimFailsOpen, Granted
    <2>2. ctx'[r].att = ctx[r].att /\ ctx'[r].attSt = ctx[r].attSt /\ ctx'[r].link = ctx[r].link
      BY <1>0, <2>1 DEF CtxType
    <2>3. QED
      BY <1>0, <2>1, <2>2 DEF CtxOK
  <1>7. CASE Persist(r) \/ PersistCommit(r) \/ PersistFails(r)
    BY <1>0, <1>7, CtxUnclaim DEF Persist, PersistCommit, PersistFails
  <1>8. CASE PersistFlush(r)
    <2>1. /\ pc[r] = "claimed" /\ pc'[r] = "flushed"
          /\ ctx'[r] = [ctx[r] EXCEPT !.passed = TRUE, !.mint = (invites = {})]
      BY <1>8, Moves DEF PersistFlush
    <2>2. ctx'[r].att = ctx[r].att /\ ctx'[r].attSt = ctx[r].attSt /\ ctx'[r].link = ctx[r].link
      BY <1>0, <2>1 DEF CtxType
    <2>3. QED
      BY <1>0, <2>1, <2>2 DEF CtxOK
  <1>9. QED
    BY <1>1, <1>2, <1>3, <1>4, <1>5, <1>6, <1>7, <1>8 DEF Arrive, RequestStep

LEMMA NextCtxInv == TypeOK /\ CtxInv /\ [Next]_vars => CtxInv'
  <1> SUFFICES ASSUME TypeOK, CtxInv, [Next]_vars, NEW q \in Request
               PROVE  CtxOK(q)'
    BY DEF CtxInv
  <1>1. Opened \subseteq Opened' /\ CtxOK(q)
    BY RowsOnlyAdvance DEF CtxInv
  <1>2. CASE HR \/ Clock \/ UNCHANGED vars
    <2>1. pc' = pc /\ ctx' = ctx
      BY <1>2 DEF HR, Assign, Revoke, InviteEnds, Clock, DeadlinePasses, ClaimExpires, vars
    <2>2. QED
      BY <1>1, <2>1, CtxStays
  <1>3. ASSUME NEW r \in Request, Arrive(r) \/ RequestStep(r) \/ Crash(r)
        PROVE  CtxOK(q)'
    <2>1. CASE q = r
      BY <1>1, <1>3, <2>1, StepCtxOK
    <2>2. CASE q # r
      BY <1>1, <1>3, <2>2, StepOthers, CtxStays DEF Others
    <2>3. QED
      BY <2>1, <2>2
  <1>4. QED
    BY <1>2, <1>3 DEF Next

-----------------------------------------------------------------------------
(* The invariants on rows.                                                  *)

LEMMA NextOneLiveAttempt ==
    ASSUME TypeOK, CtxInv, OneLiveAttempt, [Next]_vars
    PROVE  OneLiveAttempt'
  <1>1. CASE attempt' = attempt
    BY <1>1 DEF OneLiveAttempt, Live, Opened
  <1>2. ASSUME NEW r \in Request, Inserts(r) PROVE OneLiveAttempt'
    <2>1. \A a \in AttemptNo : Live(a)' => a = ctx[r].att
      BY <1>2, InsertEffect DEF Live
    <2>2. Opened' = Opened \cup {ctx[r].att}
      BY <1>2, InsertEffect DEF Opened
    <2>3. \A b \in AttemptNo : b < ctx[r].att => b \in Opened
      BY <1>2, InsertEffect
    <2>4. QED
      BY <2>1, <2>2, <2>3 DEF OneLiveAttempt
  <1>3. ASSUME NEW r \in Request, Grades(r) PROVE OneLiveAttempt'
    <2>1. \A a \in AttemptNo : Live(a)' => Live(a)
      BY <1>3, GradeEffect DEF Live, Final
    <2>2. Opened' = Opened
      BY <1>3, GradeEffect DEF Opened, Final
    <2>3. QED
      BY <2>1, <2>2 DEF OneLiveAttempt
  <1>4. QED
    BY <1>1, <1>2, <1>3, AttemptCases

\* Only a request that grades turns a link to completed.
LEMMA LinkCases ==
    ASSUME TypeOK, [Next]_vars, NEW l \in Link, link'[l] = "completed"
    PROVE  link[l] = "completed" \/ \E r \in Request : Grades(r)
  <1>1. CASE HR
    BY <1>1 DEF HR, Assign, Revoke, InviteEnds, TypeOK
  <1>2. CASE Clock \/ UNCHANGED vars
    BY <1>2 DEF Clock, DeadlinePasses, ClaimExpires, vars
  <1>3. ASSUME NEW r \in Request, Arrive(r) \/ Crash(r) PROVE link' = link
    BY <1>3 DEF Arrive, Resolve, Crash
  <1>4. ASSUME NEW r \in Request, RequestStep(r)
        PROVE  link[l] = "completed" \/ Grades(r)
    <2>1. CASE StartInsert(r)
      BY <2>1 DEF StartInsert, TypeOK
    <2>2. CASE Persist(r) \/ PersistCommit(r)
      BY <2>2 DEF Persist, PersistCommit, Grades
    <2>3. CASE StartFind(r) \/ StartCheck(r) \/ StartNumber(r)
      BY <2>3 DEF StartFind, StartCheck, StartNumber
    <2>4. CASE \E a \in AttemptNo : Load(r, a)
      BY <2>4 DEF Load
    <2>5. CASE ClaimGranted(r) \/ ClaimRefused(r) \/ ClaimFailsOpen(r)
      BY <2>5 DEF ClaimGranted, ClaimRefused, ClaimFailsOpen
    <2>6. CASE PersistFlush(r) \/ PersistFails(r) \/ Unclaim(r)
      BY <2>6 DEF PersistFlush, PersistFails, Unclaim
    <2>7. QED
      BY <1>4, <2>1, <2>2, <2>3, <2>4, <2>5, <2>6 DEF RequestStep
  <1>5. QED
    BY <1>1, <1>2, <1>3, <1>4 DEF Next

LEMMA NextCompletedLinkHasResult ==
    ASSUME TypeOK, CtxInv, CompletedLinkHasResult, [Next]_vars
    PROVE  CompletedLinkHasResult'
  <1> SUFFICES ASSUME NEW l \in Link, link'[l] = "completed"
               PROVE  \E a \in AttemptNo : Graded(a)'
    BY DEF CompletedLinkHasResult
  <1>1. CASE link[l] = "completed"
    BY <1>1, RowsOnlyAdvance DEF CompletedLinkHasResult
  <1>2. ASSUME NEW r \in Request, Grades(r) PROVE \E a \in AttemptNo : Graded(a)'
    BY <1>2, GradeEffect DEF Graded, Opened
  <1>3. QED
    BY <1>1, <1>2, LinkCases

-----------------------------------------------------------------------------
(* Which requests hold row locks and claims after a step.                   *)

\* Only PersistFlush takes the row locks, and the rows must be free.
LEMMA FlushedCases ==
    ASSUME TypeOK, [Next]_vars, NEW q \in Request, pc'[q] = "flushed"
    PROVE  \/ pc[q] = "flushed" /\ ctx'[q] = ctx[q]
           \/ PersistFlush(q)
  <1>1. CASE HR \/ Clock \/ UNCHANGED vars
    BY <1>1 DEF HR, Assign, Revoke, InviteEnds, Clock, DeadlinePasses, ClaimExpires, vars
  <1>2. ASSUME NEW r \in Request, r # q, Arrive(r) \/ RequestStep(r) \/ Crash(r)
        PROVE  pc[q] = "flushed" /\ ctx'[q] = ctx[q]
    BY <1>2, StepOthers DEF Others
  <1>3. CASE Arrive(q)
    BY <1>3 DEF Arrive, Resolve, TypeOK, Goto
  <1>4. CASE Crash(q)
    BY <1>4, Leaves DEF Crash
  <1>5. CASE RequestStep(q)
    <2>1. ~(StartFind(q) \/ StartCheck(q) \/ StartNumber(q) \/ StartInsert(q))
      BY Leaves DEF StartFind, StartCheck, StartNumber, StartInsert, Goto, TypeOK
    <2>2. ~\E a \in AttemptNo : Load(q, a)
      BY Leaves DEF Load, Goto, TypeOK
    <2>3. ~(ClaimGranted(q) \/ ClaimRefused(q) \/ ClaimFailsOpen(q))
      BY Leaves DEF ClaimGranted, ClaimRefused, ClaimFailsOpen, Granted, Goto, TypeOK
    <2>4. ~(Persist(q) \/ PersistCommit(q) \/ PersistFails(q) \/ Unclaim(q))
      BY Leaves, Ends DEF Persist, PersistCommit, PersistFails, Unclaim
    <2>5. QED
      BY <1>5, <2>1, <2>2, <2>3, <2>4 DEF RequestStep
  <1>6. QED
    BY <1>1, <1>2, <1>3, <1>4, <1>5 DEF Next

LEMMA NextLockInv == TypeOK /\ LockInv /\ [Next]_vars => LockInv'
  <1> SUFFICES ASSUME TypeOK, LockInv, [Next]_vars,
                      NEW r \in Request, NEW q \in Request, r # q,
                      pc'[r] = "flushed", pc'[q] = "flushed"
               PROVE  ctx'[r].att # ctx'[q].att /\ ctx'[r].link # ctx'[q].link
    BY DEF LockInv
  <1>1. ASSUME NEW x \in Request, NEW y \in Request, x # y, PersistFlush(x),
               pc[y] = "flushed", ctx'[y] = ctx[y]
        PROVE  ctx'[x].att # ctx'[y].att /\ ctx'[x].link # ctx'[y].link
    <2>1. ctx'[x] = [ctx[x] EXCEPT !.passed = TRUE, !.mint = (invites = {})]
      BY <1>1, Moves DEF PersistFlush
    <2>2. ctx[x] \in CtxType
      BY DEF TypeOK
    <2>3. ctx'[x].att = ctx[x].att /\ ctx'[x].link = ctx[x].link
      BY <2>1, <2>2 DEF CtxType
    <2>4. ~AttemptLocked(ctx[x].att) /\ ~LinkLocked(ctx[x].link) /\ y \in Flushed
      BY <1>1 DEF PersistFlush, Flushed
    <2>5. QED
      BY <1>1, <2>3, <2>4 DEF AttemptLocked, LinkLocked
  <1>2. CASE pc[r] = "flushed" /\ pc[q] = "flushed" /\ ctx'[r] = ctx[r] /\ ctx'[q] = ctx[q]
    BY <1>2 DEF LockInv
  <1>3. PersistFlush(r) => pc[q] = "flushed" /\ ctx'[q] = ctx[q]
    BY FlushedCases, Moves DEF PersistFlush, Others
  <1>4. PersistFlush(q) => pc[r] = "flushed" /\ ctx'[r] = ctx[r]
    BY FlushedCases, Moves DEF PersistFlush, Others
  <1>5. QED
    BY <1>1, <1>2, <1>3, <1>4, FlushedCases

-----------------------------------------------------------------------------
(* Invites: only the commit of a transaction that saw none adds one.        *)

Mints(r) ==
    /\ PersistCommit(r)
    /\ ctx[r].mint
    /\ invites' = invites \cup {[att |-> ctx[r].att, link |-> ctx[r].link]}

LEMMA InviteCases ==
    ASSUME [Next]_vars
    PROVE  invites' \subseteq invites \/ \E r \in Request : Mints(r)
  <1>1. CASE HR \/ Clock \/ UNCHANGED vars
    BY <1>1 DEF HR, Assign, Revoke, InviteEnds, Clock, DeadlinePasses, ClaimExpires, vars
  <1>2. ASSUME NEW r \in Request, Arrive(r) \/ Crash(r) PROVE invites' = invites
    BY <1>2 DEF Arrive, Resolve, Crash
  <1>3. ASSUME NEW r \in Request, RequestStep(r) PROVE invites' = invites \/ Mints(r)
    <2>1. PersistCommit(r) => invites' = invites \/ Mints(r)
      BY DEF PersistCommit, Mints
    <2>2. StartFind(r) \/ StartCheck(r) \/ StartNumber(r) \/ StartInsert(r) => invites' = invites
      BY DEF StartFind, StartCheck, StartNumber, StartInsert
    <2>3. (\E a \in AttemptNo : Load(r, a)) => invites' = invites
      BY DEF Load
    <2>4. ClaimGranted(r) \/ ClaimRefused(r) \/ ClaimFailsOpen(r) => invites' = invites
      BY DEF ClaimGranted, ClaimRefused, ClaimFailsOpen
    <2>5. Persist(r) \/ PersistFlush(r) \/ PersistFails(r) \/ Unclaim(r) => invites' = invites
      BY DEF Persist, PersistFlush, PersistFails, Unclaim
    <2>6. QED
      BY <1>3, <2>1, <2>2, <2>3, <2>4, <2>5 DEF RequestStep
  <1>4. QED
    BY <1>1, <1>2, <1>3 DEF Next

LEMMA NextMintInv ==
    ASSUME TypeOK, LockInv, MintInv, [Next]_vars
    PROVE  MintInv'
  <1> SUFFICES ASSUME NEW q \in Request, pc'[q] = "flushed", ctx'[q].mint, NEW i \in invites'
               PROVE  i.att # ctx'[q].att /\ i.link # ctx'[q].link
    BY DEF MintInv
  <1>1. CASE pc[q] = "flushed" /\ ctx'[q] = ctx[q]
    <2>1. CASE i \in invites
      BY <1>1, <2>1 DEF MintInv
    <2>2. ASSUME NEW r \in Request, Mints(r) PROVE i \in invites \/ r # q
      BY <2>2, Ends DEF Mints, PersistCommit
    <2>3. ASSUME NEW r \in Request, Mints(r), i \notin invites
          PROVE  i.att # ctx[q].att /\ i.link # ctx[q].link
      <3>1. i = [att |-> ctx[r].att, link |-> ctx[r].link]
        BY <2>3 DEF Mints
      <3>2. pc[r] = "flushed" /\ r # q
        BY <2>2, <2>3 DEF Mints, PersistCommit
      <3>3. ctx[r].att # ctx[q].att /\ ctx[r].link # ctx[q].link
        BY <1>1, <3>2 DEF LockInv
      <3>4. QED
        BY <3>1, <3>3
    <2>4. QED
      BY <1>1, <2>1, <2>3, InviteCases
  <1>2. CASE PersistFlush(q)
    <2>1. ctx'[q] = [ctx[q] EXCEPT !.passed = TRUE, !.mint = (invites = {})]
      BY <1>2, Moves DEF PersistFlush
    <2>2. ctx[q] \in CtxType
      BY DEF TypeOK
    <2>3. ctx'[q].mint = (invites = {})
      BY <2>1, <2>2, Zenon DEF CtxType
    <2>4. invites = {}
      BY <2>3
    <2>5. invites' = invites
      BY <1>2 DEF PersistFlush
    <2>6. QED
      BY <2>4, <2>5
  <1>3. QED
    BY <1>1, <1>2, FlushedCases

LEMMA NextInvitesAreDistinct ==
    ASSUME MintInv, InvitesAreDistinct, [Next]_vars
    PROVE  InvitesAreDistinct'
  <1>1. CASE invites' \subseteq invites
    BY <1>1 DEF InvitesAreDistinct
  <1>2. ASSUME NEW r \in Request, Mints(r) PROVE InvitesAreDistinct'
    <2>1. \A j \in invites : j.att # ctx[r].att /\ j.link # ctx[r].link
      BY <1>2 DEF Mints, PersistCommit, MintInv
    <2>2. QED
      BY <1>2, <2>1 DEF Mints, InvitesAreDistinct
  <1>3. QED
    BY <1>1, <1>2, InviteCases

-----------------------------------------------------------------------------
(* Claims: with a reliable Redis the key of every grading request is set.   *)

\* A request is between claim and release after a step only if it was before, with
\* the same attempt, or has just been granted a claim.
LEMMA HoldingCases ==
    ASSUME TypeOK, [Next]_vars, NEW q \in Request, q \in Holding'
    PROVE  \/ q \in Holding /\ ctx'[q].att = ctx[q].att
           \/ /\ ClaimGranted(q) \/ ClaimFailsOpen(q)
              /\ ctx'[q].att = ctx[q].att
  <1>0. ctx[q] \in CtxType
    BY DEF TypeOK
  <1>1. CASE HR \/ Clock \/ UNCHANGED vars
    BY <1>1 DEF HR, Assign, Revoke, InviteEnds, Clock, DeadlinePasses, ClaimExpires, vars, Holding
  <1>2. ASSUME NEW r \in Request, r # q, Arrive(r) \/ RequestStep(r) \/ Crash(r)
        PROVE  q \in Holding /\ ctx'[q].att = ctx[q].att
    BY <1>2, StepOthers DEF Others, Holding
  <1>3. CASE Arrive(q)
    BY <1>3 DEF Arrive, Resolve, TypeOK, Goto, Holding
  <1>4. CASE Crash(q)
    BY <1>4, Leaves DEF Crash, Holding
  <1>5. CASE RequestStep(q)
    <2>1. ~(StartFind(q) \/ StartCheck(q) \/ StartNumber(q) \/ StartInsert(q))
      BY Leaves DEF StartFind, StartCheck, StartNumber, StartInsert, Goto, TypeOK, Holding
    <2>2. ~\E a \in AttemptNo : Load(q, a)
      BY Leaves DEF Load, Goto, TypeOK, Holding
    <2>3. ~(ClaimRefused(q) \/ Unclaim(q))
      BY Leaves DEF ClaimRefused, Unclaim, Holding
    <2>4. CASE ClaimGranted(q) \/ ClaimFailsOpen(q)
      <3>1. ctx'[q] = [ctx[q] EXCEPT !.late = (ctx[q].att \in overdue)]
        BY <2>4, Moves DEF ClaimGranted, ClaimFailsOpen, Granted
      <3>2. ctx'[q].att = ctx[q].att
        BY <1>0, <3>1 DEF CtxType
      <3>3. QED
        BY <2>4, <3>2
    <2>5. CASE Persist(q) \/ PersistCommit(q) \/ PersistFails(q)
      BY <2>5, Ends DEF Persist, PersistCommit, PersistFails, Holding, Blank
    <2>6. CASE PersistFlush(q)
      <3>1. ctx'[q] = [ctx[q] EXCEPT !.passed = TRUE, !.mint = (invites = {})]
        BY <2>6, Moves DEF PersistFlush
      <3>2. ctx'[q].att = ctx[q].att
        BY <1>0, <3>1 DEF CtxType
      <3>3. QED
        BY <2>6, <3>2 DEF PersistFlush, Holding
    <2>7. QED
      BY <1>5, <2>1, <2>2, <2>3, <2>4, <2>5, <2>6 DEF RequestStep
  <1>6. QED
    BY <1>1, <1>2, <1>3, <1>4, <1>5 DEF Next

\* With a reliable Redis a key leaves only when its holder releases it, or when
\* nobody holds it.
LEMMA ClaimCases ==
    ASSUME RedisReliable, [Next]_vars, NEW a \in claims, a \notin claims'
    PROVE  \/ \A r \in Holding : ctx[r].att # a
           \/ \E r \in Request : Unclaim(r) /\ ctx[r].att = a
  <1>1. CASE HR \/ UNCHANGED vars
    BY <1>1 DEF HR, Assign, Revoke, InviteEnds, vars
  <1>2. CASE Clock
    BY <1>2 DEF Clock, DeadlinePasses, ClaimExpires
  <1>3. ASSUME NEW r \in Request, Arrive(r) \/ Crash(r) PROVE FALSE
    BY <1>3 DEF Arrive, Resolve, Crash
  <1>4. ASSUME NEW r \in Request, RequestStep(r) PROVE Unclaim(r) /\ ctx[r].att = a
    <2>1. ~(StartFind(r) \/ StartCheck(r) \/ StartNumber(r) \/ StartInsert(r))
      BY DEF StartFind, StartCheck, StartNumber, StartInsert
    <2>2. ~\E b \in AttemptNo : Load(r, b)
      BY DEF Load
    <2>3. ~(ClaimGranted(r) \/ ClaimRefused(r) \/ ClaimFailsOpen(r))
      BY DEF ClaimGranted, ClaimRefused, ClaimFailsOpen
    <2>4. ~(Persist(r) \/ PersistFlush(r) \/ PersistCommit(r) \/ PersistFails(r))
      BY DEF Persist, PersistFlush, PersistCommit, PersistFails
    <2>5. Unclaim(r)
      BY <1>4, <2>1, <2>2, <2>3, <2>4 DEF RequestStep
    <2>6. QED
      BY <2>5 DEF Unclaim
  <1>5. QED
    BY <1>1, <1>2, <1>3, <1>4 DEF Next

LEMMA NextClaims ==
    ASSUME TypeOK, ClaimInv, GradingIsExclusive, [Next]_vars
    PROVE  ClaimInv' /\ GradingIsExclusive'
  <1> SUFFICES ASSUME RedisReliable
               PROVE  /\ \A r \in Holding' : ctx'[r].att \in claims'
                      /\ \A r, q \in Holding' : r # q => ctx'[r].att # ctx'[q].att
    BY DEF ClaimInv, GradingIsExclusive
  <1>0. /\ \A r \in Holding : ctx[r].att \in claims
        /\ \A r, q \in Holding : r # q => ctx[r].att # ctx[q].att
        /\ Holding \subseteq Request /\ Holding' \subseteq Request
    BY DEF ClaimInv, GradingIsExclusive, Holding
  <1>1. \A q \in Request : ~ClaimFailsOpen(q)
    BY DEF ClaimFailsOpen
  <1>2. ASSUME NEW q \in Holding'
        PROVE  /\ ctx'[q].att \in claims'
               /\ \A r \in Holding' : r # q => ctx'[r].att # ctx'[q].att
    <2>1. CASE ClaimGranted(q)
      <3>1. ctx'[q].att = ctx[q].att
        BY <1>0, <1>1, <1>2, HoldingCases
      <3>2. ctx[q].att \notin claims /\ claims' = claims \cup {ctx[q].att} /\ Others(q)
        BY <2>1, Moves, <1>0 DEF ClaimGranted, Granted
      <3>3. ASSUME NEW r \in Holding', r # q PROVE r \in Holding /\ ctx'[r].att = ctx[r].att
        BY <1>0, <3>2, <3>3 DEF Others, Holding
      <3>4. QED
        BY <1>0, <3>1, <3>2, <3>3
    <2>2. CASE q \in Holding /\ ctx'[q].att = ctx[q].att
      <3>1. ASSUME NEW r \in Holding', r # q PROVE ctx'[r].att # ctx'[q].att
        <4>1. CASE r \in Holding /\ ctx'[r].att = ctx[r].att
          BY <1>0, <2>2, <3>1, <4>1
        <4>2. CASE ClaimGranted(r) /\ ctx'[r].att = ctx[r].att
          BY <1>0, <2>2, <4>2 DEF ClaimGranted
        <4>3. QED
          BY <1>0, <1>1, <4>1, <4>2, HoldingCases
      <3>2. ASSUME ctx[q].att \notin claims' PROVE FALSE
        <4>1. PICK r \in Request : Unclaim(r) /\ ctx[r].att = ctx[q].att
          BY <1>0, <2>2, <3>2, ClaimCases
        <4>2. r \in Holding /\ r \notin Holding'
          BY <4>1, Leaves DEF Unclaim, Holding
        <4>3. r # q
          BY <1>2, <4>2
        <4>4. QED
          BY <1>0, <2>2, <4>1, <4>2, <4>3
      <3>3. QED
        BY <2>2, <3>1, <3>2
    <2>3. QED
      BY <1>0, <1>1, <1>2, <2>1, <2>2, HoldingCases
  <1>3. QED
    BY <1>2

-----------------------------------------------------------------------------
(* The theorems.                                                            *)

IInv == /\ TypeOK /\ CtxInv
        /\ OneLiveAttempt /\ CompletedLinkHasResult
        /\ LockInv /\ MintInv /\ InvitesAreDistinct
        /\ ClaimInv /\ GradingIsExclusive

LEMMA InitIInv == Init => IInv
  <1> SUFFICES ASSUME Init PROVE IInv
    OBVIOUS
  <1>1. TypeOK
    BY InitTypeOK
  <1>2. CtxInv
    BY DEF Init, CtxInv, CtxOK
  <1>3. OneLiveAttempt /\ CompletedLinkHasResult
    BY DEF Init, OneLiveAttempt, CompletedLinkHasResult, Live, Opened
  <1>4. LockInv /\ MintInv /\ InvitesAreDistinct
    BY DEF Init, LockInv, MintInv, InvitesAreDistinct
  <1>5. ClaimInv /\ GradingIsExclusive
    BY DEF Init, ClaimInv, GradingIsExclusive, Holding
  <1>6. QED
    BY <1>1, <1>2, <1>3, <1>4, <1>5 DEF IInv

LEMMA NextIInv == IInv /\ [Next]_vars => IInv'
  BY NextTypeOK, NextCtxInv, NextOneLiveAttempt, NextCompletedLinkHasResult,
     NextLockInv, NextMintInv, NextInvitesAreDistinct, NextClaims
  DEF IInv

LEMMA SpecIInv == Spec => []IInv
  BY InitIInv, NextIInv, PTL DEF Spec

\* Every variable keeps its type, whatever interleaving of requests, HR and clock.
THEOREM TypeCorrect == Spec => []TypeOK
  <1>1. IInv => TypeOK
    BY DEF IInv
  <1>2. QED
    BY <1>1, SpecIInv, PTL

\* The two unique indexes keep racing /start requests to one open attempt.
THEOREM OneLiveAttemptHolds == Spec => []OneLiveAttempt
  <1>1. IInv => OneLiveAttempt
    BY DEF IInv
  <1>2. QED
    BY <1>1, SpecIInv, PTL

\* No link is consumed unless an attempt was graded in the same commit or before.
THEOREM CompletedLinkHasResultHolds == Spec => []CompletedLinkHasResult
  <1>1. IInv => CompletedLinkHasResult
    BY DEF IInv
  <1>2. QED
    BY <1>1, SpecIInv, PTL

\* Racing submits of one attempt never mint two active invites.
THEOREM InvitesAreDistinctHolds == Spec => []InvitesAreDistinct
  <1>1. IInv => InvitesAreDistinct
    BY DEF IInv
  <1>2. QED
    BY <1>1, SpecIInv, PTL

\* The Redis claim serialises the gradings of an attempt as long as it answers.
THEOREM GradingIsExclusiveHolds == Spec => []GradingIsExclusive
  <1>1. IInv => GradingIsExclusive
    BY DEF IInv
  <1>2. QED
    BY <1>1, SpecIInv, PTL

\* A graded attempt is never reopened, and its result changes only through a submit
\* that loaded it while it was in progress.
THEOREM GradedStaysGradedHolds == Spec => GradedStaysGraded
  <1> DEFINE Stays == \A a \in AttemptNo : Graded(a) =>
                        /\ Graded(a)'
                        /\ attempt'[a] # attempt[a] =>
                              \E r \in Request : /\ pc[r] \in {"claimed", "flushed"}
                                                 /\ ctx[r].att = a
                                                 /\ ctx[r].attSt = "in_progress"
  <1>1. IInv /\ [Next]_vars => [Stays]_vars
    <2> SUFFICES ASSUME IInv, [Next]_vars, NEW a \in AttemptNo, Graded(a)
                 PROVE  /\ Graded(a)'
                        /\ attempt'[a] # attempt[a] =>
                              \E r \in Request : /\ pc[r] \in {"claimed", "flushed"}
                                                 /\ ctx[r].att = a
                                                 /\ ctx[r].attSt = "in_progress"
      OBVIOUS
    <2>1. Graded(a)'
      BY RowsOnlyAdvance DEF IInv
    <2>2. ASSUME NEW r \in Request, Inserts(r) PROVE attempt'[a] = attempt[a]
      BY <2>2, InsertEffect DEF IInv, Graded, Final
    <2>3. ASSUME NEW r \in Request, Grades(r), attempt'[a] # attempt[a]
          PROVE  /\ pc[r] \in {"claimed", "flushed"}
                 /\ ctx[r].att = a /\ ctx[r].attSt = "in_progress"
      BY <2>3, GradeEffect DEF IInv
    <2>4. QED
      BY <2>1, <2>2, <2>3, AttemptCases
  <1>2. QED
    BY <1>1, SpecIInv, PTL DEF Spec, GradedStaysGraded

=============================================================================
