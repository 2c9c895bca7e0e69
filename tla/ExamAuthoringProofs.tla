------------------------- MODULE ExamAuthoringProofs -------------------------
(***************************************************************************)
(* Machine-checked proofs about exams, for all values of the constants:     *)
(* their authoring by any number of editors, and the execution of the code  *)
(* that candidates submit.  Each component has its own part.                *)
(***************************************************************************)
EXTENDS ExamAuthoring, CodeExecution, FiniteSetTheorems, WellFoundedInduction, TLAPS

-----------------------------------------------------------------------------
(* ExamAuthoring.                                                           *)

Made(table) == {i \in DOMAIN table : table[i].row # "none"}

\* No more than the index of a row that was made.
Reach(table, n) == n = 0 \/ \E j \in Made(table) : n <= j

Contiguous(table) == \A i, j \in DOMAIN table : (j < i /\ i \in Made(table)) => j \in Made(table)

\* Rows are made in order, and no number or position exceeds how many there are.
Numbered(rounds, sections, questions) ==
    /\ Contiguous(rounds) /\ Contiguous(sections) /\ Contiguous(questions)
    /\ \A i \in Live(rounds) : Reach(rounds, rounds[i].number)
    /\ \A s \in Live(sections) : Reach(sections, sections[s].position)
    /\ \A q \in Live(questions) : /\ Reach(questions, questions[q].position + 1)
                                  /\ questions[q].section \in Made(sections)

\* What a request remembers are rows that were made, and a number that fits the next one.
Remembers(m) ==
    /\ m.op = "create round" => m.pos # 0 /\ Reach(round, m.pos - 1)
    /\ m.op = "create section" => m.on \in Round /\ m.pos # 0 /\ Reach(section, m.pos - 1)
    /\ m.op = "add" => m.on \in Made(section) /\ Reach(question, m.pos)
    /\ m.op = "reorder rounds" => m.rows \subseteq Made(round)
    /\ m.op = "reorder" => m.rows \subseteq Made(question)
    /\ m.op = "delete round" => m.on \in Made(round) /\ m.rows \subseteq Made(section)
    /\ m.op = "delete section" => m.on \in Made(section) /\ m.rows \subseteq Made(question)
    /\ m.op = "start" => m.on \in Round
    /\ m.op \in {"edit", "drop"} => m.on \in Made(question)

\* The rounds that had an attempt when the request made its checks.
Frozen(m) == attempted \ m.late

\* What the request is about to write is in none of them.
Guarded(m) ==
    /\ m.op \in {"edit", "reorder"} => Frozen(m) = {}
    /\ m.op \in {"create section", "delete round"} => m.on \notin Frozen(m)
    /\ m.op = "delete round" => \A s \in m.rows : s \in Live(section) => section[s].round = m.on
    /\ (m.op = "add" /\ m.on \in Live(section)) => section[m.on].round \notin Frozen(m)
    /\ m.op = "delete section" =>
          /\ m.pos \notin Frozen(m)
          /\ \A q \in m.rows : q \in Live(question) => question[q].section = m.on
    /\ (m.op = "drop" /\ m.on \in Live(question) /\ question[m.on].section \in Live(section)) =>
          section[question[m.on].section].round \notin Frozen(m)

Typed ==
    /\ exam \in ExamStatus
    /\ round \in [Round -> RoundRow]
    /\ section \in [Section -> SectionRow]
    /\ question \in [Question -> QuestionRow]
    /\ attempted \subseteq Round
    /\ req \in [Request -> Memory]
    /\ served \in 0..MaxRequests

IInv ==
    /\ Typed
    /\ Numbered(round, section, question)
    /\ Orderly(round, section, question)
    /\ \A r \in Request : Remembers(req[r]) /\ Guarded(req[r])

\* The rows that were made stay made, and a live one has not changed its parent.
EvolvesTo(rounds, sections, questions) ==
    /\ Made(round) \subseteq Made(rounds)
    /\ Made(section) \subseteq Made(sections)
    /\ Made(question) \subseteq Made(questions)
    /\ \A s \in Made(section) : s \in Live(sections) =>
          s \in Live(section) /\ sections[s].round = section[s].round
    /\ \A q \in Made(question) : q \in Live(questions) =>
          q \in Live(question) /\ questions[q].section = question[q].section

\* Tables in which the round has the paper it has now.
SamePaper(rd, sections, questions) ==
    /\ {s \in Live(sections) : sections[s].round = rd} = SectionsOf(rd)
    /\ \A s \in SectionsOf(rd) :
         /\ sections[s].position = section[s].position
         /\ {q \in Live(questions) : questions[q].section = s} = QuestionsOf(s)
         /\ \A q \in QuestionsOf(s) : /\ questions[q].position = question[q].position
                                      /\ questions[q].content = question[q].content

\* Tables in which some of the rows that were made are deleted.
Removes(rounds, sections, questions, rs, ss, qs) ==
    /\ rs \subseteq Made(round) /\ ss \subseteq Made(section) /\ qs \subseteq Made(question)
    /\ \A i \in Round \ rs : rounds[i] = round[i]
    /\ \A i \in Section \ ss : sections[i] = section[i]
    /\ \A i \in Question \ qs : questions[i] = question[i]
    /\ \A i \in Round \cap rs : rounds[i].row = "deleted"
    /\ \A i \in Section \cap ss : sections[i].row = "deleted"
    /\ \A i \in Question \cap qs : questions[i].row = "deleted"

\* What AttemptsFreezeThePaper says of one step.
LeavesPapers == \A rd \in attempted :
                  \/ Paper(rd)' = Paper(rd)
                  \/ \E r \in Request :
                       req'[r] = Idle /\ (rd \in req[r].late \/ Misaddressed(req[r], rd))

\* What a request that made its checks may write.
Fits(m, rounds, sections, questions) ==
    /\ rounds \in [Round -> RoundRow]
    /\ sections \in [Section -> SectionRow]
    /\ questions \in [Question -> QuestionRow]
    /\ Numbered(rounds, sections, questions)
    /\ EvolvesTo(rounds, sections, questions)
    /\ \A rd \in Frozen(m) : ~Misaddressed(m, rd) => SamePaper(rd, sections, questions)

\* A set of naturals has a least member, a bounded one a greatest.
LEMMA LeastNatural ==
  ASSUME NEW T, T \subseteq Nat, T # {}
  PROVE  \E x \in T : \A y \in T : x <= y
  <1> DEFINE R == OpToRel(<, Nat)
  <1>1. IsWellFoundedOn(R, Nat)
    BY NatLessThanWellFounded, Zenon
  <1>2. \A x, y \in Nat : x < y => <<x, y>> \in R
    BY Zenon DEF OpToRel
  <1> HIDE DEF R
  <1>3. PICK x \in T : \A y \in T : ~(<<y, x>> \in R)
    BY <1>1, WFMin
  <1>4. ASSUME NEW y \in T PROVE x <= y
    <2>1. x \in Nat /\ y \in Nat
      OBVIOUS
    <2>2. ~(y < x)
      BY <1>2, <1>3, <2>1
    <2> QED
      BY <2>1, <2>2
  <1> QED
    BY <1>4

LEMMA GreatestNatural ==
  ASSUME NEW N \in Nat, NEW T, T \subseteq 0..N, T # {}
  PROVE  \E x \in T : \A y \in T : y <= x
  <1> DEFINE M == {N - x : x \in T}
  <1>1. PICK t \in T : TRUE
    OBVIOUS
  <1>2. N - t \in M
    OBVIOUS
  <1>3. M \subseteq Nat
    OBVIOUS
  <1>4. M \subseteq Nat /\ M # {}
    BY <1>2, <1>3
  <1> HIDE DEF M
  <1>5. PICK m \in M : \A y \in M : m <= y
    BY <1>4, LeastNatural
  <1>6. PICK x \in T : m = N - x
    BY DEF M
  <1>7. ASSUME NEW y \in T PROVE y <= x
    <2>1. N - y \in M
      BY DEF M
    <2> QED
      BY <1>5, <1>6, <2>1
  <1> QED
    BY <1>7

\* max(...) + 1 is the successor of one of the values.
LEMMA NextFits ==
  ASSUME NEW N \in Nat, NEW values, values \subseteq 0..N, NEW first \in {0, 1}
  PROVE  /\ Next1(values, first) \in Nat
         /\ Next1(values, first) = first \/ \E v \in values : Next1(values, first) = 1 + v
  <1>1. CASE values = {}
    BY <1>1 DEF Next1
  <1>2. CASE values # {}
    <2>1. \E m \in values : \A v \in values : v <= m
      BY <1>2, GreatestNatural
    <2>2. PICK v : v \in values /\ Next1(values, first) = 1 + v
      BY <1>2, <2>1 DEF Next1
    <2> QED
      BY <2>2
  <1> QED
    BY <1>1, <1>2

LEMMA Sizes ==
  /\ MaxRounds \in Nat /\ MaxSections \in Nat /\ MaxQuestions \in Nat /\ MaxRequests \in Nat
  /\ MaxRounds # 0 /\ MaxSections # 0 /\ MaxQuestions # 0 /\ ExamKind \in Kind
  BY BoundsAssumption, KindAssumption

LEMMA Tables ==
  ASSUME Typed
  PROVE  /\ DOMAIN round = Round /\ DOMAIN section = Section /\ DOMAIN question = Question
         /\ Live(round) \subseteq Made(round) /\ Made(round) \subseteq Round
         /\ Live(section) \subseteq Made(section) /\ Made(section) \subseteq Section
         /\ Live(question) \subseteq Made(question) /\ Made(question) \subseteq Question
  BY DEF Typed, Live, Made

LEMMA IdleFits == Idle \in Memory /\ Remembers(Idle) /\ Guarded(Idle)
  <1>1. Idle \in Memory
    BY DEF Idle, Memory, Op
  <1>2. Remembers(Idle) /\ Guarded(Idle)
    BY DEF Idle, Remembers, Guarded
  <1> QED
    BY <1>1, <1>2

LEMMA IdleFitsNext == Remembers(Idle)' /\ Guarded(Idle)'
  BY DEF Idle, Remembers, Guarded

LEMMA ReachGrows ==
  ASSUME NEW t, NEW u, NEW n, Made(t) \subseteq Made(u), Reach(t, n)
  PROVE  Reach(u, n)
  BY DEF Reach

\* What a request remembers stays good while rows only evolve, and while the rounds it
\* must leave alone become no more.
LEMMA RequestStands ==
  ASSUME Typed, Typed', EvolvesTo(round', section', question'),
         Numbered(round, section, question),
         NEW m \in Memory, NEW n \in Memory,
         n.op = m.op, n.on = m.on, n.rows = m.rows, n.pos = m.pos,
         Frozen(n)' \subseteq Frozen(m), Remembers(m), Guarded(m)
  PROVE  Remembers(n)' /\ Guarded(n)'
  <1>1. /\ Made(round) \subseteq Made(round)' /\ Made(section) \subseteq Made(section)'
        /\ Made(question) \subseteq Made(question)'
    BY DEF EvolvesTo, Made
  <1>2. \A k : Reach(round, k) => Reach(round', k)
    BY <1>1 DEF Reach, Made
  <1>3. \A k : Reach(section, k) => Reach(section', k)
    BY <1>1 DEF Reach, Made
  <1>4. \A k : Reach(question, k) => Reach(question', k)
    BY <1>1 DEF Reach, Made
  <1>5. Remembers(n)'
    <2>1. Reach(round, n.pos - 1)' <=> Reach(round', n.pos - 1)
      BY DEF Reach, Made
    <2>2. Reach(section, n.pos - 1)' <=> Reach(section', n.pos - 1)
      BY DEF Reach, Made
    <2>3. Reach(question, n.pos)' <=> Reach(question', n.pos)
      BY DEF Reach, Made
    <2> QED
      BY <1>1, <1>2, <1>3, <1>4, <2>1, <2>2, <2>3 DEF Remembers
  <1>6. /\ \A s \in Made(section) : s \in Live(section)' =>
              s \in Live(section) /\ section'[s].round = section[s].round
        /\ \A q \in Made(question) : q \in Live(question)' =>
              q \in Live(question) /\ question'[q].section = question[q].section
    BY DEF EvolvesTo, Live
  <1>7. \A q \in Live(question) : question[q].section \in Made(section)
    BY DEF Numbered
  <1>8. Guarded(n)'
    BY <1>6, <1>7 DEF Guarded, Remembers
  <1> QED
    BY <1>5, <1>8

\* Every step is of this kind: rows evolve, and a request either is answered or
\* remembers what it did, with no more rounds to leave alone.
LEMMA StepKeeps ==
  ASSUME IInv, Typed', EvolvesTo(round', section', question'),
         Numbered(round', section', question'), Orderly(round', section', question'),
         \A r \in Request : \/ req'[r] = Idle
                            \/ /\ req'[r].op = req[r].op /\ req'[r].on = req[r].on
                               /\ req'[r].rows = req[r].rows /\ req'[r].pos = req[r].pos
                               /\ attempted' \ req'[r].late \subseteq attempted \ req[r].late
                            \/ \E m \in Memory : req'[r] = m /\ Remembers(m)' /\ Guarded(m)'
  PROVE  IInv'
  <1>1. ASSUME NEW r \in Request PROVE (Remembers(req[r]) /\ Guarded(req[r]))'
    <2>1. CASE req'[r] = Idle
      <3>1. PICK n : n = req'[r]
        OBVIOUS
      <3>2. n = Idle
        BY <2>1, <3>1
      <3>3. Remembers(n)' /\ Guarded(n)'
        BY <3>2, IdleFitsNext
      <3> QED
        BY <3>1, <3>3
    <2>2. CASE /\ req'[r].op = req[r].op /\ req'[r].on = req[r].on
               /\ req'[r].rows = req[r].rows /\ req'[r].pos = req[r].pos
               /\ attempted' \ req'[r].late \subseteq attempted \ req[r].late
      <3>1. PICK n \in Memory : n = req'[r]
        BY DEF Typed
      <3>2. PICK m \in Memory : m = req[r]
        BY DEF IInv, Typed
      <3>3. Remembers(m) /\ Guarded(m)
        BY <3>2 DEF IInv
      <3>4. Frozen(n)' \subseteq Frozen(m)
        BY <2>2, <3>1, <3>2 DEF Frozen
      <3>5. n.op = m.op /\ n.on = m.on /\ n.rows = m.rows /\ n.pos = m.pos
        BY <2>2, <3>1, <3>2
      <3>6. Typed /\ Numbered(round, section, question)
        BY DEF IInv
      <3>7. Remembers(n)' /\ Guarded(n)'
        BY <3>3, <3>4, <3>5, <3>6, RequestStands
      <3> QED
        BY <3>1, <3>7
    <2>3. CASE \E m \in Memory : req'[r] = m /\ Remembers(m)' /\ Guarded(m)'
      BY <2>3
    <2> QED
      BY <1>1, <2>1, <2>2, <2>3
  <1>2. Numbered(round, section, question)'
    BY DEF Numbered, Contiguous, Made, Reach, Live
  <1>3. Orderly(round, section, question)'
    BY DEF Orderly, Live
  <1> QED
    BY <1>1, <1>2, <1>3 DEF IInv

\* A request reads, checks and remembers.
LEMMA ReadsKeep ==
  ASSUME IInv, NEW r \in Request, NEW m \in Memory, Arrives,
         req' = [req EXCEPT ![r] = m], Remembers(m), Guarded(m),
         UNCHANGED <<exam, round, section, question, attempted>>
  PROVE  IInv' /\ LeavesPapers
  <1>1. /\ exam' = exam /\ round' = round /\ section' = section
        /\ question' = question /\ attempted' = attempted
    OBVIOUS
  <1>2. served' \in 0..MaxRequests
    BY Sizes DEF Arrives, IInv, Typed
  <1>3. Typed'
    BY <1>1, <1>2 DEF IInv, Typed
  <1>4. EvolvesTo(round, section, question)
    BY DEF EvolvesTo
  <1>5. Remembers(m)' /\ Guarded(m)'
    <2>1. Remembers(m)'
      BY <1>1 DEF Remembers, Reach, Made
    <2>2. Guarded(m)'
      BY <1>1 DEF Guarded, Live, Frozen
    <2> QED
      BY <2>1, <2>2
  <1>6. ASSUME NEW q \in Request
        PROVE  \/ req'[q] = Idle
               \/ /\ req'[q].op = req[q].op /\ req'[q].on = req[q].on
                  /\ req'[q].rows = req[q].rows /\ req'[q].pos = req[q].pos
                  /\ attempted' \ req'[q].late \subseteq attempted \ req[q].late
               \/ \E n \in Memory : req'[q] = n /\ Remembers(n)' /\ Guarded(n)'
    <2>1. req'[q] = IF q = r THEN m ELSE req[q]
      BY DEF IInv, Typed
    <2>2. CASE q = r
      BY <1>5, <2>1, <2>2
    <2>3. CASE q # r
      BY <1>1, <2>1, <2>3
    <2> QED
      BY <2>2, <2>3
  <1>7. IInv'
    <2>1. Numbered(round', section', question') /\ Orderly(round', section', question')
      BY <1>1 DEF IInv
    <2>2. EvolvesTo(round', section', question')
      BY <1>1, <1>4
    <2> HIDE DEF IInv
    <2> QED
      BY <1>3, <1>6, <2>1, <2>2, StepKeeps
  <1>8. LeavesPapers
    BY <1>1 DEF LeavesPapers, Paper, SectionsOf, QuestionsOf, Live
  <1> QED
    BY <1>7, <1>8

LEMMA SamePaperStands ==
  ASSUME NEW rd, SamePaper(rd, section', question')
  PROVE  Paper(rd)' = Paper(rd)
  <1>1. SectionsOf(rd)' = SectionsOf(rd)
    BY DEF SamePaper, SectionsOf, Live
  <1>2. ASSUME NEW s \in SectionsOf(rd)
        PROVE  section'[s].position = section[s].position /\ QuestionsOf(s)' = QuestionsOf(s)
    BY DEF SamePaper, QuestionsOf, Live
  <1>3. ASSUME NEW s \in SectionsOf(rd), NEW q \in QuestionsOf(s)
        PROVE  /\ question'[q].position = question[q].position
               /\ question'[q].content = question[q].content
    BY DEF SamePaper
  <1>4. ASSUME NEW s \in SectionsOf(rd)
        PROVE  {<<s, section'[s].position, q, question'[q].position, question'[q].content>> :
                  q \in QuestionsOf(s)'}
               = {<<s, section[s].position, q, question[q].position, question[q].content>> :
                  q \in QuestionsOf(s)}
    BY <1>2, <1>3
  <1> QED
    BY <1>1, <1>4 DEF Paper

\* An answered request is forgotten, and the others remember what they did.
LEMMA ReplyForgets ==
  ASSUME IInv, NEW r \in Request, Reply(r), attempted' = attempted
  PROVE  /\ req' \in [Request -> Memory] /\ served' = served /\ req'[r] = Idle
         /\ \A q \in Request :
              \/ req'[q] = Idle
              \/ /\ req'[q].op = req[q].op /\ req'[q].on = req[q].on
                 /\ req'[q].rows = req[q].rows /\ req'[q].pos = req[q].pos
                 /\ attempted' \ req'[q].late \subseteq attempted \ req[q].late
  <1>1. req' = [req EXCEPT ![r] = Idle] /\ served' = served
    BY DEF Reply
  <1>2. \A q \in Request : req'[q] = IF q = r THEN Idle ELSE req[q]
    BY <1>1 DEF IInv, Typed
  <1>3. req' \in [Request -> Memory]
    BY <1>1, IdleFits DEF IInv, Typed
  <1> QED
    BY <1>1, <1>2, <1>3

\* A request writes something that fits, or its transaction is rolled back.
LEMMA WritesKeep ==
  ASSUME IInv, NEW r \in Request, NEW rounds, NEW sections, NEW questions,
         Fits(req[r], rounds, sections, questions),
         Writes(r, rounds, sections, questions), exam' = exam
  PROVE  IInv' /\ LeavesPapers
  <1>1. attempted' = attempted /\ Reply(r)
    BY DEF Writes
  <1>2. /\ req' \in [Request -> Memory] /\ served' = served /\ req'[r] = Idle
        /\ \A q \in Request :
             \/ req'[q] = Idle
             \/ /\ req'[q].op = req[q].op /\ req'[q].on = req[q].on
                /\ req'[q].rows = req[q].rows /\ req'[q].pos = req[q].pos
                /\ attempted' \ req'[q].late \subseteq attempted \ req[q].late
    BY <1>1, ReplyForgets
  <1>3. CASE /\ Orderly(rounds, sections, questions)
             /\ round' = rounds /\ section' = sections /\ question' = questions
    <2>1. Typed'
      BY <1>1, <1>2, <1>3 DEF Fits, IInv, Typed
    <2>2. IInv'
      BY <1>2, <1>3, <2>1, StepKeeps DEF Fits
    <2>3. ASSUME NEW rd \in attempted, rd \notin req[r].late, ~Misaddressed(req[r], rd)
          PROVE  Paper(rd)' = Paper(rd)
      <3>1. rd \in Frozen(req[r])
        BY <2>3 DEF Frozen
      <3>2. SamePaper(rd, section', question')
        BY <1>3, <2>3, <3>1 DEF Fits
      <3> QED
        BY <3>2, SamePaperStands
    <2>4. LeavesPapers
      BY <1>2, <2>3 DEF LeavesPapers
    <2> QED
      BY <2>2, <2>4
  <1>4. CASE round' = round /\ section' = section /\ question' = question
    <2>1. Typed'
      BY <1>1, <1>2, <1>4 DEF IInv, Typed
    <2>2. EvolvesTo(round, section, question)
      BY DEF EvolvesTo
    <2>3. Numbered(round', section', question') /\ Orderly(round', section', question')
      BY <1>4 DEF IInv
    <2>4. IInv'
      BY <1>2, <1>4, <2>1, <2>2, <2>3, StepKeeps
    <2>5. LeavesPapers
      BY <1>4 DEF LeavesPapers, Paper, SectionsOf, QuestionsOf, Live
    <2> QED
      BY <2>4, <2>5
  <1> QED
    BY <1>3, <1>4 DEF Writes

\* A new row, or a run of new rows, comes after the ones that were made.
LEMMA GrowsBy ==
  ASSUME NEW N \in Nat, NEW t, NEW u, DOMAIN t = 1..N, DOMAIN u = 1..N, Contiguous(t),
         NEW i \in 1..N, NEW k \in i..N, Fresh(t, i), Made(u) = Made(t) \cup (i..k)
  PROVE  /\ Contiguous(u)
         /\ \A j \in Made(t) : j \in 1..N /\ j < i
         /\ \A n \in Nat : Reach(t, n) => \A x \in i..k : n < x /\ Reach(u, n + 1 + (x - i))
  <1>1. i \notin Made(t) /\ Made(t) \subseteq 1..N
    BY DEF Made, Fresh
  <1>2. \A j \in Made(t) : j \in 1..N /\ j < i
    BY <1>1 DEF Contiguous
  <1>3. \A j \in 1..N : j < i => j \in Made(t)
    BY DEF Fresh, Made
  <1>4. Contiguous(u)
    BY <1>2, <1>3 DEF Contiguous
  <1>5. ASSUME NEW n \in Nat, Reach(t, n), NEW x \in i..k
        PROVE  n < x /\ Reach(u, n + 1 + (x - i))
    <2>1. n < i
      BY <1>2, <1>5 DEF Reach
    <2>2. x \in Made(u) /\ n + 1 + (x - i) <= x
      BY <2>1
    <2> QED
      BY <2>1, <2>2 DEF Reach
  <1> QED
    BY <1>2, <1>4, <1>5

\* A permutation of made rows numbers none of them beyond the last of them.
LEMMA PositionsReach ==
  ASSUME NEW N \in Nat, NEW rows, rows \subseteq 1..N, NEW f \in Positions(rows), NEW i \in rows
  PROVE  f[i] \in 0..(N - 1) /\ \E g \in rows : f[i] + 1 <= g
  <1>1. PICK g \in rows : \A j \in rows : j <= g
    <2>1. rows # {} /\ rows \subseteq 0..N
      OBVIOUS
    <2> QED
      BY <2>1, GreatestNatural
  <1>2. g \in 1..N /\ rows \subseteq 1..g
    BY <1>1
  <1>3. IsFiniteSet(1..g) /\ Cardinality(1..g) = g
    BY <1>2, FS_Interval
  <1>4. IsFiniteSet(rows) /\ Cardinality(rows) <= g
    BY <1>2, <1>3, FS_Subset
  <1>5. Cardinality(rows) \in Nat
    BY <1>4, FS_CardinalityType
  <1>6. f[i] \in 0..(Cardinality(rows) - 1)
    BY DEF Positions
  <1> QED
    BY <1>2, <1>4, <1>5, <1>6

LEMMA Held ==
  ASSUME IInv, NEW r \in Request
  PROVE  /\ req[r] \in Memory /\ req[r].op \in Op /\ req[r].on \in Nat
         /\ req[r].rows \subseteq Nat /\ req[r].pos \in Nat /\ req[r].late \subseteq Round
         /\ Remembers(req[r]) /\ Guarded(req[r])
  <1>1. req[r] \in Memory
    BY DEF IInv, Typed
  <1>2. /\ req[r].op \in Op /\ req[r].on \in Nat /\ req[r].rows \subseteq Nat
        /\ req[r].pos \in Nat /\ req[r].late \subseteq Round
    BY <1>1 DEF Memory
  <1> QED
    BY <1>1, <1>2 DEF IInv

LEMMA PapersAsTheyAre == \A rd : SamePaper(rd, section, question)
  BY DEF SamePaper, SectionsOf, QuestionsOf

\* A table whose made rows are the same, and whose live rows are no more.
LEMMA AsNumbered ==
  ASSUME NEW t, NEW u, DOMAIN u = DOMAIN t, Made(u) = Made(t), Contiguous(t)
  PROVE  Contiguous(u) /\ \A n : Reach(t, n) => Reach(u, n)
  BY DEF Contiguous, Reach

LEMMA CreateRoundKeeps ==
  ASSUME IInv, NEW r \in Request, CreateRoundCommits(r)
  PROVE  IInv' /\ LeavesPapers
  <1>1. PICK i \in Round :
          /\ Fresh(round, i)
          /\ Writes(r, [round EXCEPT ![i] = [row |-> "live", status |-> "draft",
                                             number |-> req[r].pos]], section, question)
    BY DEF CreateRoundCommits
  <1>2. PICK pos \in Nat : pos = req[r].pos
    BY Held
  <1>3. pos # 0 /\ Reach(round, pos - 1)
    BY <1>2, Held DEF CreateRoundCommits, Remembers
  <1>4. PICK R : R = [round EXCEPT ![i] = [row |-> "live", status |-> "draft", number |-> pos]]
    OBVIOUS
  <1>5. /\ round \in [Round -> RoundRow] /\ section \in [Section -> SectionRow]
        /\ question \in [Question -> QuestionRow] /\ Numbered(round, section, question)
    BY DEF IInv, Typed
  <1>6. /\ DOMAIN R = Round /\ DOMAIN round = Round
        /\ R[i] = [row |-> "live", status |-> "draft", number |-> pos]
        /\ \A j \in Round : j # i => R[j] = round[j]
    BY <1>4, <1>5
  <1>7. Made(R) = Made(round) \cup (i..i) /\ Live(R) = Live(round) \cup {i}
    <2>1. i..i = {i}
      BY DEF Round
    <2> QED
      BY <1>6, <2>1 DEF Made, Live
  <1>8. /\ Contiguous(R)
        /\ \A n \in Nat : Reach(round, n) =>
             \A x \in i..i : n < x /\ Reach(R, n + 1 + (x - i))
    <2>1. i \in 1..MaxRounds /\ i \in i..MaxRounds /\ MaxRounds \in Nat
      BY Sizes DEF Round
    <2>2. DOMAIN R = 1..MaxRounds /\ DOMAIN round = 1..MaxRounds
      BY <1>6 DEF Round
    <2>3. Contiguous(round)
      BY <1>5 DEF Numbered
    <2> QED
      BY <1>1, <1>7, <2>1, <2>2, <2>3, GrowsBy
  <1>9. pos \in 0..MaxRounds /\ Reach(R, pos)
    <2>1. pos - 1 \in Nat /\ i \in i..i /\ i \in Nat /\ i <= MaxRounds
      BY <1>3, Sizes DEF Round
    <2>2. pos - 1 < i /\ Reach(R, (pos - 1) + 1 + (i - i))
      BY <1>3, <1>8, <2>1
    <2>3. (pos - 1) + 1 + (i - i) = pos
      BY <2>1
    <2>4. pos \in 0..MaxRounds
      BY <2>1, <2>2, Sizes
    <2> QED
      BY <2>2, <2>3, <2>4
  <1>10. R \in [Round -> RoundRow]
    <2>1. [row |-> "live", status |-> "draft", number |-> pos] \in RoundRow
      BY <1>9 DEF RoundRow, Row
    <2> QED
      BY <1>4, <1>5, <2>1
  <1>11. Numbered(R, section, question)
    <2>1. \A j \in Live(round) : R[j] = round[j] \/ j = i
      BY <1>6 DEF Live
    <2>2. \A j \in Live(round) : Reach(R, round[j].number)
      BY <1>5, <1>7 DEF Numbered, Reach
    <2> QED
      BY <1>5, <1>6, <1>7, <1>8, <1>9, <2>1, <2>2 DEF Numbered
  <1>12. EvolvesTo(R, section, question)
    BY <1>7 DEF EvolvesTo
  <1>13. Fits(req[r], R, section, question)
    BY <1>5, <1>10, <1>11, <1>12, PapersAsTheyAre DEF Fits
  <1>14. Writes(r, R, section, question) /\ exam' = exam
    BY <1>1, <1>2, <1>4 DEF CreateRoundCommits
  <1> QED
    BY <1>13, <1>14, WritesKeep

LEMMA CreateSectionKeeps ==
  ASSUME IInv, NEW r \in Request, CreateSectionCommits(r)
  PROVE  IInv' /\ LeavesPapers
  <1>1. PICK i \in Section, k \in Kind :
          /\ Fresh(section, i)
          /\ Writes(r, round, [section EXCEPT ![i] =
                      [row |-> "live", round |-> req[r].on, kind |-> k,
                       position |-> req[r].pos]], question)
    BY DEF CreateSectionCommits
  <1>2. PICK pos \in Nat, on \in Nat : pos = req[r].pos /\ on = req[r].on
    BY Held
  <1>3. pos # 0 /\ Reach(section, pos - 1) /\ on \in Round /\ on \notin Frozen(req[r])
    BY <1>2, Held DEF CreateSectionCommits, Remembers, Guarded
  <1>4. PICK S : S = [section EXCEPT ![i] = [row |-> "live", round |-> on, kind |-> k,
                                            position |-> pos]]
    OBVIOUS
  <1>5. /\ round \in [Round -> RoundRow] /\ section \in [Section -> SectionRow]
        /\ question \in [Question -> QuestionRow] /\ Numbered(round, section, question)
    BY DEF IInv, Typed
  <1>6. /\ DOMAIN S = Section /\ DOMAIN section = Section
        /\ S[i] = [row |-> "live", round |-> on, kind |-> k, position |-> pos]
        /\ \A j \in Section : j # i => S[j] = section[j]
    BY <1>4, <1>5
  <1>7. Made(S) = Made(section) \cup (i..i) /\ Live(S) = Live(section) \cup {i}
    <2>1. i..i = {i}
      BY DEF Section
    <2> QED
      BY <1>6, <2>1 DEF Made, Live
  <1>8. /\ Contiguous(S)
        /\ \A n \in Nat : Reach(section, n) =>
             \A x \in i..i : n < x /\ Reach(S, n + 1 + (x - i))
    <2>1. i \in 1..MaxSections /\ i \in i..MaxSections /\ MaxSections \in Nat
      BY Sizes DEF Section
    <2>2. DOMAIN S = 1..MaxSections /\ DOMAIN section = 1..MaxSections
      BY <1>6 DEF Section
    <2>3. Contiguous(section)
      BY <1>5 DEF Numbered
    <2> QED
      BY <1>1, <1>7, <2>1, <2>2, <2>3, GrowsBy
  <1>9. pos \in 0..MaxSections /\ Reach(S, pos)
    <2>1. pos - 1 \in Nat /\ i \in i..i /\ i \in Nat /\ i <= MaxSections
      BY <1>3, Sizes DEF Section
    <2>2. pos - 1 < i /\ Reach(S, (pos - 1) + 1 + (i - i))
      BY <1>3, <1>8, <2>1
    <2>3. (pos - 1) + 1 + (i - i) = pos
      BY <2>1
    <2>4. pos \in 0..MaxSections
      BY <2>1, <2>2, Sizes
    <2> QED
      BY <2>2, <2>3, <2>4
  <1>10. S \in [Section -> SectionRow]
    <2>1. on \in 0..MaxRounds
      BY <1>3, Sizes DEF Round
    <2>2. [row |-> "live", round |-> on, kind |-> k, position |-> pos] \in SectionRow
      BY <1>9, <2>1 DEF SectionRow, Row
    <2> QED
      BY <1>4, <1>5, <2>2
  <1>11. i \notin Live(section) /\ i \notin Made(section)
    BY <1>1 DEF Fresh, Live, Made
  <1>12. Numbered(round, S, question)
    <2>1. \A j \in Live(section) : S[j] = section[j]
      BY <1>6, <1>11 DEF Live
    <2>2. \A j \in Live(section) : Reach(S, section[j].position)
      BY <1>5, <1>7 DEF Numbered, Reach
    <2> QED
      BY <1>5, <1>6, <1>7, <1>8, <1>9, <2>1, <2>2 DEF Numbered
  <1>13. EvolvesTo(round, S, question)
    <2>1. \A s \in Made(section) : s # i /\ s \in Section
      BY <1>6, <1>11 DEF Made
    <2> QED
      BY <1>6, <1>7, <2>1 DEF EvolvesTo
  <1>14. ASSUME NEW rd \in Frozen(req[r]) PROVE SamePaper(rd, S, question)
    <2>1. \A s \in SectionsOf(rd) : s \in Live(section) /\ s # i /\ S[s] = section[s]
      BY <1>6, <1>11 DEF SectionsOf, Live
    <2>2. {s \in Live(S) : S[s].round = rd} = SectionsOf(rd)
      <3>1. on # rd
        BY <1>3
      <3>2. \A s \in Live(S) : s # i => s \in Live(section) /\ S[s] = section[s]
        BY <1>6, <1>7 DEF Live
      <3> QED
        BY <1>6, <1>7, <2>1, <3>1, <3>2 DEF SectionsOf
    <2> QED
      BY <2>1, <2>2 DEF SamePaper, QuestionsOf
  <1>15. Fits(req[r], round, S, question)
    BY <1>5, <1>10, <1>12, <1>13, <1>14 DEF Fits
  <1>16. Writes(r, round, S, question) /\ exam' = exam
    BY <1>1, <1>2, <1>4 DEF CreateSectionCommits
  <1> QED
    BY <1>15, <1>16, WritesKeep

\* Deleting sections, and questions, leaves fewer live rows, and the others as they are.
LEMMA DeletedSections ==
  ASSUME Typed, NEW rows, NEW S, S = DeleteSections(rows)
  PROVE  /\ S \in [Section -> SectionRow] /\ DOMAIN S = DOMAIN section
         /\ \A s \in Section \ rows : S[s] = section[s]
         /\ \A s \in Section \cap rows : S[s].row = "deleted"
  <1>1. section \in [Section -> SectionRow]
    BY DEF Typed
  <1>2. ASSUME NEW s \in Section
        PROVE  [section[s] EXCEPT !.row = "deleted", !.round = 0, !.position = 0] \in SectionRow
    <2>1. section[s] \in SectionRow /\ "deleted" \in Row
      BY <1>1 DEF Row
    <2>2. 0 \in 0..MaxRounds /\ 0 \in 0..MaxSections /\ 0 \in 0..MaxQuestions /\ 0 \in 0..1
      BY Sizes
    <2> QED
      BY <2>1, <2>2 DEF SectionRow
  <1>3. S \in [Section -> SectionRow]
    BY <1>1, <1>2 DEF DeleteSections
  <1>4. ASSUME NEW s \in Section \cap rows PROVE S[s].row = "deleted"
    <2>1. S[s] = [section[s] EXCEPT !.row = "deleted", !.round = 0, !.position = 0]
      BY DEF DeleteSections
    <2>2. section[s] \in SectionRow
      BY <1>1
    <2> QED
      BY <2>1, <2>2 DEF SectionRow
  <1>5. \A s \in Section \ rows : S[s] = section[s]
    BY DEF DeleteSections
  <1> QED
    BY <1>1, <1>3, <1>4, <1>5

LEMMA DeletedQuestions ==
  ASSUME Typed, NEW rows, NEW Q, Q = DeleteQuestions(rows)
  PROVE  /\ Q \in [Question -> QuestionRow] /\ DOMAIN Q = DOMAIN question
         /\ \A q \in Question \ rows : Q[q] = question[q]
         /\ \A q \in Question \cap rows : Q[q].row = "deleted"
  <1>1. question \in [Question -> QuestionRow]
    BY DEF Typed
  <1>2. ASSUME NEW q \in Question
        PROVE  [question[q] EXCEPT !.row = "deleted", !.position = 0, !.content = 0]
                  \in QuestionRow
    <2>1. question[q] \in QuestionRow /\ "deleted" \in Row
      BY <1>1 DEF Row
    <2>2. 0 \in 0..MaxRounds /\ 0 \in 0..MaxSections /\ 0 \in 0..MaxQuestions /\ 0 \in 0..1
      BY Sizes
    <2> QED
      BY <2>1, <2>2 DEF QuestionRow
  <1>3. Q \in [Question -> QuestionRow]
    BY <1>1, <1>2 DEF DeleteQuestions
  <1>4. ASSUME NEW q \in Question \cap rows PROVE Q[q].row = "deleted"
    <2>1. Q[q] = [question[q] EXCEPT !.row = "deleted", !.position = 0, !.content = 0]
      BY DEF DeleteQuestions
    <2>2. question[q] \in QuestionRow
      BY <1>1
    <2> QED
      BY <2>1, <2>2 DEF QuestionRow
  <1>5. \A q \in Question \ rows : Q[q] = question[q]
    BY DEF DeleteQuestions
  <1> QED
    BY <1>1, <1>3, <1>4, <1>5

\* Rows that were made may be deleted, whichever they are.
LEMMA DeletingFits ==
  ASSUME IInv, NEW R \in [Round -> RoundRow], NEW S \in [Section -> SectionRow],
         NEW Q \in [Question -> QuestionRow], NEW rs, NEW ss, NEW qs,
         Removes(R, S, Q, rs, ss, qs)
  PROVE  Numbered(R, S, Q) /\ EvolvesTo(R, S, Q)
  <1>1. /\ round \in [Round -> RoundRow] /\ section \in [Section -> SectionRow]
        /\ question \in [Question -> QuestionRow] /\ Numbered(round, section, question)
    BY DEF IInv, Typed
  <1>2. /\ Made(R) = Made(round) /\ Made(S) = Made(section) /\ Made(Q) = Made(question)
    BY <1>1 DEF Made, Removes
  <1>3. /\ \A i \in Live(R) : i \in Live(round) /\ R[i] = round[i]
        /\ \A i \in Live(S) : i \in Live(section) /\ S[i] = section[i]
        /\ \A i \in Live(Q) : i \in Live(question) /\ Q[i] = question[i]
    BY <1>1 DEF Live, Removes
  <1>4. /\ Contiguous(R) /\ Contiguous(S) /\ Contiguous(Q)
    BY <1>1, <1>2 DEF Contiguous, Numbered
  <1>5. /\ \A n : Reach(round, n) => Reach(R, n)
        /\ \A n : Reach(section, n) => Reach(S, n)
        /\ \A n : Reach(question, n) => Reach(Q, n)
    BY <1>2 DEF Reach
  <1>6. Numbered(R, S, Q)
    BY <1>1, <1>2, <1>3, <1>4, <1>5 DEF Numbered
  <1>7. EvolvesTo(R, S, Q)
    BY <1>2, <1>3 DEF EvolvesTo
  <1> QED
    BY <1>6, <1>7

LEMMA DeleteRoundKeeps ==
  ASSUME IInv, NEW r \in Request, DeleteRoundCommits(r)
  PROVE  IInv' /\ LeavesPapers
  <1>1. PICK on \in Nat, rows \in SUBSET Nat : on = req[r].on /\ rows = req[r].rows
    BY Held
  <1>2. /\ on \notin Frozen(req[r]) /\ rows \subseteq Made(section)
        /\ \A s \in rows : s \in Live(section) => section[s].round = on
        /\ on \in Made(round)
    BY <1>1, Held DEF DeleteRoundCommits, Remembers, Guarded
  <1>3. PICK R, S : R = DeleteRounds({on}) /\ S = DeleteSections(rows)
    OBVIOUS
  <1>4. /\ Typed /\ round \in [Round -> RoundRow] /\ section \in [Section -> SectionRow]
        /\ question \in [Question -> QuestionRow]
    BY DEF IInv, Typed
  <1>5. /\ S \in [Section -> SectionRow] /\ DOMAIN S = DOMAIN section
        /\ \A s \in Section \ rows : S[s] = section[s]
        /\ \A s \in Section \cap rows : S[s].row = "deleted"
    BY <1>3, <1>4, DeletedSections
  <1>6. [row |-> "deleted", status |-> "draft", number |-> 0] \in RoundRow
    BY Sizes DEF RoundRow, Row
  <1>7. /\ R \in [Round -> RoundRow]
        /\ \A i \in Round \ {on} : R[i] = round[i]
        /\ \A i \in Round \cap {on} : R[i].row = "deleted"
    BY <1>3, <1>4, <1>6 DEF DeleteRounds
  <1>8. Numbered(R, S, question) /\ EvolvesTo(R, S, question)
    <2>1. Removes(R, S, question, {on}, rows, {})
      BY <1>2, <1>5, <1>7 DEF Removes
    <2> QED
      BY <1>4, <1>5, <1>7, <2>1, DeletingFits
  <1>9. ASSUME NEW rd \in Frozen(req[r]) PROVE SamePaper(rd, S, question)
    <2>1. on # rd
      BY <1>2
    <2>2. \A s \in SectionsOf(rd) : s \in Section /\ s \notin rows /\ S[s] = section[s]
      BY <1>2, <1>4, <1>5, <2>1 DEF SectionsOf, Live
    <2>3. {s \in Live(S) : S[s].round = rd} = SectionsOf(rd)
      <3>1. \A s \in Live(S) : s \in Live(section) /\ S[s] = section[s]
        BY <1>4, <1>5 DEF Live
      <3>2. \A s \in SectionsOf(rd) : s \in Live(S)
        BY <1>4, <1>5, <2>2 DEF SectionsOf, Live
      <3> QED
        BY <2>2, <3>1, <3>2 DEF SectionsOf
    <2> QED
      BY <2>2, <2>3 DEF SamePaper, QuestionsOf
  <1>10. Fits(req[r], R, S, question)
    BY <1>4, <1>5, <1>7, <1>8, <1>9 DEF Fits
  <1>11. Writes(r, R, S, question) /\ exam' = exam
    BY <1>1, <1>3 DEF DeleteRoundCommits
  <1> QED
    BY <1>10, <1>11, WritesKeep

LEMMA DeleteSectionKeeps ==
  ASSUME IInv, NEW r \in Request, DeleteSectionCommits(r)
  PROVE  IInv' /\ LeavesPapers
  <1>1. PICK on \in Nat, rows \in SUBSET Nat : on = req[r].on /\ rows = req[r].rows
    BY Held
  <1>2. /\ req[r].op = "delete section" /\ req[r].pos \notin Frozen(req[r])
        /\ on \in Made(section) /\ rows \subseteq Made(question)
        /\ \A q \in rows : q \in Live(question) => question[q].section = on
    BY <1>1, Held DEF DeleteSectionCommits, Remembers, Guarded
  <1>3. PICK S, Q : S = DeleteSections({on}) /\ Q = DeleteQuestions(rows)
    OBVIOUS
  <1>4. /\ Typed /\ round \in [Round -> RoundRow] /\ section \in [Section -> SectionRow]
        /\ question \in [Question -> QuestionRow]
    BY DEF IInv, Typed
  <1>5. /\ S \in [Section -> SectionRow] /\ DOMAIN S = DOMAIN section
        /\ \A s \in Section \ {on} : S[s] = section[s]
        /\ \A s \in Section \cap {on} : S[s].row = "deleted"
    BY <1>3, <1>4, DeletedSections
  <1>6. /\ Q \in [Question -> QuestionRow] /\ DOMAIN Q = DOMAIN question
        /\ \A q \in Question \ rows : Q[q] = question[q]
        /\ \A q \in Question \cap rows : Q[q].row = "deleted"
    BY <1>3, <1>4, DeletedQuestions
  <1>7. Numbered(round, S, Q) /\ EvolvesTo(round, S, Q)
    <2>1. Removes(round, S, Q, {}, {on}, rows)
      BY <1>2, <1>5, <1>6 DEF Removes
    <2> QED
      BY <1>4, <1>5, <1>6, <2>1, DeletingFits
  <1>8. ASSUME NEW rd \in Frozen(req[r]), ~Misaddressed(req[r], rd) PROVE SamePaper(rd, S, Q)
    <2>4. section[on].round # rd
      BY <1>1, <1>2, <1>8 DEF Misaddressed
    <2>1. \A s \in SectionsOf(rd) :
            s \in Section /\ s \in Live(section) /\ s # on /\ S[s] = section[s]
      BY <1>4, <1>5, <2>4 DEF SectionsOf, Live
    <2>2. {s \in Live(S) : S[s].round = rd} = SectionsOf(rd)
      <3>1. \A s \in Live(S) : s \in Live(section) /\ S[s] = section[s]
        BY <1>4, <1>5 DEF Live
      <3>2. \A s \in SectionsOf(rd) : s \in Live(S)
        BY <1>4, <1>5, <2>1 DEF SectionsOf, Live
      <3> QED
        BY <2>1, <3>1, <3>2 DEF SectionsOf
    <2>3. ASSUME NEW s \in SectionsOf(rd)
          PROVE  /\ {q \in Live(Q) : Q[q].section = s} = QuestionsOf(s)
                 /\ \A q \in QuestionsOf(s) : Q[q] = question[q]
      <3>1. s # on
        BY <2>1
      <3>2. \A q \in Live(Q) : q \in Live(question) /\ Q[q] = question[q]
        BY <1>4, <1>6 DEF Live
      <3>3. \A q \in QuestionsOf(s) : q \in Question /\ q \notin rows /\ Q[q] = question[q]
        BY <1>2, <1>4, <1>6, <3>1 DEF QuestionsOf, Live
      <3>4. \A q \in QuestionsOf(s) : q \in Live(Q)
        BY <1>4, <1>6, <3>3 DEF QuestionsOf, Live
      <3> QED
        BY <3>2, <3>3, <3>4 DEF QuestionsOf
    <2> QED
      BY <2>1, <2>2, <2>3 DEF SamePaper
  <1>9. Fits(req[r], round, S, Q)
    BY <1>4, <1>5, <1>6, <1>7, <1>8 DEF Fits
  <1>10. Writes(r, round, S, Q) /\ exam' = exam
    BY <1>1, <1>3 DEF DeleteSectionCommits
  <1> QED
    BY <1>9, <1>10, WritesKeep

LEMMA ReorderRoundsKeeps ==
  ASSUME IInv, NEW r \in Request, ReorderRoundsCommits(r)
  PROVE  IInv' /\ LeavesPapers
  <1>1. PICK rows \in SUBSET Nat : rows = req[r].rows
    BY Held
  <1>2. rows \subseteq Made(round)
    BY <1>1, Held DEF ReorderRoundsCommits, Remembers
  <1>3. PICK f \in Positions(rows) :
          Writes(r, [i \in Round |-> IF i \in rows \cap Live(round)
                                     THEN [round[i] EXCEPT !.number = f[i] + 1]
                                     ELSE round[i]], section, question)
    BY <1>1 DEF ReorderRoundsCommits
  <1>4. PICK R : R = [i \in Round |-> IF i \in rows \cap Live(round)
                                      THEN [round[i] EXCEPT !.number = f[i] + 1]
                                      ELSE round[i]]
    OBVIOUS
  <1>5. /\ round \in [Round -> RoundRow] /\ section \in [Section -> SectionRow]
        /\ question \in [Question -> QuestionRow] /\ Numbered(round, section, question)
    BY DEF IInv, Typed
  <1>6. ASSUME NEW i \in rows
        PROVE  f[i] + 1 \in 0..MaxRounds /\ Reach(round, f[i] + 1)
    <2>1. rows \subseteq 1..MaxRounds /\ MaxRounds \in Nat
      BY <1>2, <1>5, Sizes DEF Made, Round
    <2>2. f[i] \in 0..(MaxRounds - 1) /\ \E g \in rows : f[i] + 1 <= g
      BY <2>1, PositionsReach
    <2> QED
      BY <1>2, <2>1, <2>2 DEF Reach
  <1>7. ASSUME NEW i \in Round
        PROVE  /\ R[i] \in RoundRow /\ R[i].row = round[i].row
               /\ i \in Live(round) => R[i].number = round[i].number \/ Reach(round, R[i].number)
    <2>1. round[i] \in RoundRow
      BY <1>5
    <2>2. CASE i \in rows \cap Live(round)
      <3>1. R[i] = [round[i] EXCEPT !.number = f[i] + 1]
        BY <1>4, <2>2
      <3>2. f[i] + 1 \in 0..MaxRounds /\ Reach(round, f[i] + 1)
        BY <1>6, <2>2
      <3>3. R[i] \in RoundRow /\ R[i].row = round[i].row /\ R[i].number = f[i] + 1
        BY <2>1, <3>1, <3>2 DEF RoundRow
      <3> QED
        BY <3>2, <3>3
    <2>3. CASE i \notin rows \cap Live(round)
      BY <1>4, <2>1, <2>3
    <2> QED
      BY <2>2, <2>3
  <1>8. R \in [Round -> RoundRow] /\ DOMAIN R = Round /\ DOMAIN round = Round
    BY <1>4, <1>5, <1>7
  <1>9. Made(R) = Made(round) /\ Live(R) = Live(round)
    BY <1>7, <1>8 DEF Made, Live
  <1>10. Numbered(R, section, question)
    <2>1. Contiguous(R)
      BY <1>5, <1>8, <1>9 DEF Contiguous, Numbered
    <2>2. \A i \in Live(R) : Reach(round, R[i].number)
      BY <1>5, <1>7, <1>9 DEF Numbered, Live
    <2>3. \A i \in Live(R) : Reach(R, R[i].number)
      BY <1>9, <2>2 DEF Reach
    <2> QED
      BY <1>5, <2>1, <2>3 DEF Numbered
  <1>11. EvolvesTo(R, section, question)
    BY <1>9 DEF EvolvesTo
  <1>12. Fits(req[r], R, section, question)
    BY <1>5, <1>8, <1>10, <1>11, PapersAsTheyAre DEF Fits
  <1>13. Writes(r, R, section, question) /\ exam' = exam
    BY <1>3, <1>4 DEF ReorderRoundsCommits
  <1> QED
    BY <1>12, <1>13, WritesKeep

\* An edit or a new order of questions, in an exam that had no attempt.
LEMMA RevisedFits ==
  ASSUME IInv, NEW Q \in [Question -> QuestionRow], NEW m, Frozen(m) = {},
         \A q \in Question : /\ Q[q].row = question[q].row
                             /\ Q[q].section = question[q].section
                             /\ Q[q].position = question[q].position
                                  \/ Reach(question, Q[q].position + 1)
  PROVE  Fits(m, round, section, Q)
  <1>1. /\ round \in [Round -> RoundRow] /\ section \in [Section -> SectionRow]
        /\ question \in [Question -> QuestionRow] /\ Numbered(round, section, question)
    BY DEF IInv, Typed
  <1>2. Made(Q) = Made(question) /\ Live(Q) = Live(question) /\ Live(Q) \subseteq Question
    BY <1>1 DEF Made, Live
  <1>3. \A q \in Live(Q) : Reach(Q, Q[q].position + 1) /\ Q[q].section \in Made(section)
    <2>1. \A q \in Live(Q) : Reach(question, Q[q].position + 1)
      BY <1>1, <1>2 DEF Numbered
    <2>2. \A q \in Live(Q) : Q[q].section \in Made(section)
      BY <1>1, <1>2 DEF Numbered
    <2> QED
      BY <1>2, <2>1, <2>2 DEF Reach
  <1>4. Contiguous(Q)
    BY <1>1, <1>2 DEF Contiguous, Numbered
  <1>5. Numbered(round, section, Q)
    BY <1>1, <1>3, <1>4 DEF Numbered
  <1>6. EvolvesTo(round, section, Q)
    BY <1>2 DEF EvolvesTo
  <1> QED
    BY <1>1, <1>5, <1>6 DEF Fits

LEMMA EditKeeps ==
  ASSUME IInv, NEW r \in Request, EditCommits(r)
  PROVE  IInv' /\ LeavesPapers
  <1>1. Frozen(req[r]) = {}
    BY Held DEF EditCommits, Guarded
  <1>2. PICK on : on = req[r].on
    OBVIOUS
  <1>3. PICK Q : Q = [i \in Question |-> IF i \in {on} \cap Live(question)
                                         THEN [question[i] EXCEPT !.content = 1 - @]
                                         ELSE question[i]]
    OBVIOUS
  <1>4. ASSUME NEW q \in Question
        PROVE  /\ Q[q] \in QuestionRow /\ Q[q].row = question[q].row
               /\ Q[q].section = question[q].section /\ Q[q].position = question[q].position
    <2>1. question[q] \in QuestionRow
      BY DEF IInv, Typed
    <2>2. question[q].content \in 0..1
      BY <2>1 DEF QuestionRow
    <2>3. 1 - question[q].content \in 0..1
      BY <2>2
    <2>4. CASE Q[q] = [question[q] EXCEPT !.content = 1 - @]
      BY <2>1, <2>3, <2>4 DEF QuestionRow
    <2>5. CASE Q[q] = question[q]
      BY <2>1, <2>5
    <2> QED
      BY <1>3, <2>4, <2>5
  <1>5. Q \in [Question -> QuestionRow]
    BY <1>3, <1>4
  <1>6. Fits(req[r], round, section, Q)
    BY <1>1, <1>4, <1>5, RevisedFits
  <1>7. Writes(r, round, section, Q) /\ exam' = exam
    BY <1>2, <1>3 DEF EditCommits
  <1> QED
    BY <1>6, <1>7, WritesKeep

LEMMA ReorderKeeps ==
  ASSUME IInv, NEW r \in Request, ReorderCommits(r)
  PROVE  IInv' /\ LeavesPapers
  <1>1. PICK rows \in SUBSET Nat : rows = req[r].rows
    BY Held
  <1>2. rows \subseteq Made(question) /\ Frozen(req[r]) = {}
    BY <1>1, Held DEF ReorderCommits, Remembers, Guarded
  <1>3. PICK f \in Positions(rows) :
          Writes(r, round, section, [i \in Question |-> IF i \in rows \cap Live(question)
                                                THEN [question[i] EXCEPT !.position = f[i]]
                                                ELSE question[i]])
    BY <1>1 DEF ReorderCommits
  <1>4. PICK Q : Q = [i \in Question |-> IF i \in rows \cap Live(question)
                                         THEN [question[i] EXCEPT !.position = f[i]]
                                         ELSE question[i]]
    OBVIOUS
  <1>5. question \in [Question -> QuestionRow]
    BY DEF IInv, Typed
  <1>6. ASSUME NEW i \in rows
        PROVE  f[i] \in 0..MaxQuestions /\ Reach(question, f[i] + 1)
    <2>1. rows \subseteq 1..MaxQuestions /\ MaxQuestions \in Nat
      BY <1>2, <1>5, Sizes DEF Made, Question
    <2>2. f[i] \in 0..(MaxQuestions - 1) /\ \E g \in rows : f[i] + 1 <= g
      BY <2>1, PositionsReach
    <2> QED
      BY <1>2, <2>1, <2>2 DEF Reach
  <1>7. ASSUME NEW q \in Question
        PROVE  /\ Q[q] \in QuestionRow /\ Q[q].row = question[q].row
               /\ Q[q].section = question[q].section
               /\ Q[q].position = question[q].position \/ Reach(question, Q[q].position + 1)
    <2>1. question[q] \in QuestionRow
      BY <1>5
    <2>2. CASE q \in rows \cap Live(question)
      <3>1. Q[q] = [question[q] EXCEPT !.position = f[q]]
        BY <1>4, <2>2
      <3>2. f[q] \in 0..MaxQuestions /\ Reach(question, f[q] + 1)
        BY <1>6, <2>2
      <3>3. /\ Q[q] \in QuestionRow /\ Q[q].row = question[q].row
            /\ Q[q].section = question[q].section /\ Q[q].position = f[q]
        BY <2>1, <3>1, <3>2 DEF QuestionRow
      <3> QED
        BY <3>2, <3>3
    <2>3. CASE q \notin rows \cap Live(question)
      BY <1>4, <2>1, <2>3
    <2> QED
      BY <2>2, <2>3
  <1>8. Q \in [Question -> QuestionRow]
    BY <1>4, <1>7
  <1>9. Fits(req[r], round, section, Q)
    BY <1>2, <1>7, <1>8, RevisedFits
  <1>10. Writes(r, round, section, Q) /\ exam' = exam
    BY <1>3, <1>4 DEF ReorderCommits
  <1> QED
    BY <1>9, <1>10, WritesKeep

LEMMA DropKeeps ==
  ASSUME IInv, NEW r \in Request, DropCommits(r)
  PROVE  IInv' /\ LeavesPapers
  <1>1. PICK on \in Nat : on = req[r].on
    BY Held
  <1>2. /\ on \in Made(question)
        /\ (on \in Live(question) /\ question[on].section \in Live(section)) =>
              section[question[on].section].round \notin Frozen(req[r])
    BY <1>1, Held DEF DropCommits, Remembers, Guarded
  <1>3. PICK Q : Q = DeleteQuestions({on})
    OBVIOUS
  <1>4. /\ Typed /\ round \in [Round -> RoundRow] /\ section \in [Section -> SectionRow]
        /\ question \in [Question -> QuestionRow]
    BY DEF IInv, Typed
  <1>5. /\ Q \in [Question -> QuestionRow] /\ DOMAIN Q = DOMAIN question
        /\ \A q \in Question \ {on} : Q[q] = question[q]
        /\ \A q \in Question \cap {on} : Q[q].row = "deleted"
    BY <1>3, <1>4, DeletedQuestions
  <1>6. Numbered(round, section, Q) /\ EvolvesTo(round, section, Q)
    <2>1. Removes(round, section, Q, {}, {}, {on})
      BY <1>2, <1>5 DEF Removes
    <2> QED
      BY <1>4, <1>5, <2>1, DeletingFits
  <1>7. ASSUME NEW rd \in Frozen(req[r]) PROVE SamePaper(rd, section, Q)
    <2>1. ASSUME NEW s \in SectionsOf(rd)
          PROVE  /\ {q \in Live(Q) : Q[q].section = s} = QuestionsOf(s)
                 /\ \A q \in QuestionsOf(s) : Q[q] = question[q]
      <3>1. on \notin QuestionsOf(s)
        BY <1>2, <1>4 DEF QuestionsOf, SectionsOf
      <3>2. \A q \in Live(Q) : q \in Live(question) /\ Q[q] = question[q]
        BY <1>4, <1>5 DEF Live
      <3>3. \A q \in QuestionsOf(s) : q \in Question /\ q # on /\ Q[q] = question[q]
        BY <1>4, <1>5, <3>1 DEF QuestionsOf, Live
      <3>4. \A q \in QuestionsOf(s) : q \in Live(Q)
        BY <1>4, <1>5, <3>3 DEF QuestionsOf, Live
      <3> QED
        BY <3>2, <3>3, <3>4 DEF QuestionsOf
    <2> QED
      BY <2>1 DEF SamePaper, SectionsOf
  <1>8. Fits(req[r], round, section, Q)
    BY <1>4, <1>5, <1>6, <1>7 DEF Fits
  <1>9. Writes(r, round, section, Q) /\ exam' = exam
    BY <1>1, <1>3 DEF DropCommits
  <1> QED
    BY <1>8, <1>9, WritesKeep

LEMMA AddKeeps ==
  ASSUME IInv, NEW r \in Request, AddCommits(r)
  PROVE  IInv' /\ LeavesPapers
  <1>1. PICK pos \in Nat, on \in Nat : pos = req[r].pos /\ on = req[r].on
    BY Held
  <1>2. PICK n \in 1..MaxQuestions, i \in Question :
          /\ Fresh(question, i) /\ i + n - 1 <= MaxQuestions
          /\ Writes(r, round, section, [q \in Question |->
               IF q \in i..(i + n - 1)
               THEN [row |-> "live", section |-> on, position |-> pos + (q - i), content |-> 0]
               ELSE question[q]])
    BY <1>1 DEF AddCommits
  <1>3. PICK k \in Int : k = i + n - 1
    BY Sizes DEF Question
  <1>4. i \in 1..MaxQuestions /\ k \in i..MaxQuestions /\ MaxQuestions \in Nat /\ i..k \subseteq Question
    BY <1>2, <1>3, Sizes DEF Question
  <1>5. /\ on \in Made(section) /\ Reach(question, pos)
        /\ on \in Live(section) => section[on].round \notin Frozen(req[r])
    BY <1>1, Held DEF AddCommits, Remembers, Guarded
  <1>6. PICK Q : Q = [q \in Question |->
               IF q \in i..k
               THEN [row |-> "live", section |-> on, position |-> pos + (q - i), content |-> 0]
               ELSE question[q]]
    OBVIOUS
  <1>7. /\ round \in [Round -> RoundRow] /\ section \in [Section -> SectionRow]
        /\ question \in [Question -> QuestionRow] /\ Numbered(round, section, question)
    BY DEF IInv, Typed
  <1>8. /\ DOMAIN Q = Question /\ DOMAIN question = Question
        /\ \A q \in i..k : /\ q \in Question /\ Q[q].row = "live" /\ Q[q].section = on
                             /\ Q[q].position = pos + (q - i) /\ Q[q].content = 0
        /\ \A q \in Question : q \notin i..k => Q[q] = question[q]
    <2>1. ASSUME NEW q \in i..k
          PROVE  /\ q \in Question /\ Q[q].row = "live" /\ Q[q].section = on
                 /\ Q[q].position = pos + (q - i) /\ Q[q].content = 0
      <3>1. q \in Question
        BY <1>4
      <3>2. Q[q] = [row |-> "live", section |-> on, position |-> pos + (q - i), content |-> 0]
        BY <1>6, <3>1
      <3> QED
        BY <3>1, <3>2
    <2> QED
      BY <1>6, <1>7, <2>1
  <1>9. Made(Q) = Made(question) \cup (i..k) /\ Live(Q) = Live(question) \cup (i..k)
    BY <1>8 DEF Made, Live
  <1>10. /\ Contiguous(Q)
         /\ \A j \in Made(question) : j \in 1..MaxQuestions /\ j < i
         /\ \A x \in i..k : pos < x /\ Reach(Q, pos + 1 + (x - i))
    <2>1. DOMAIN Q = 1..MaxQuestions /\ DOMAIN question = 1..MaxQuestions
      BY <1>8 DEF Question
    <2>2. Contiguous(question)
      BY <1>7 DEF Numbered
    <2>3. /\ Contiguous(Q)
          /\ \A j \in Made(question) : j \in 1..MaxQuestions /\ j < i
          /\ \A p \in Nat : Reach(question, p) =>
               \A x \in i..k : p < x /\ Reach(Q, p + 1 + (x - i))
      BY <1>2, <1>4, <1>9, <2>1, <2>2, GrowsBy
    <2> QED
      BY <1>5, <2>3
  <1>11. \A q \in Made(question) : q \notin i..k /\ Q[q] = question[q] /\ q \in Question
    <2>1. \A q \in Made(question) : q \notin i..k
      BY <1>4, <1>10
    <2> QED
      BY <1>8, <2>1 DEF Made
  <1>12. Q \in [Question -> QuestionRow]
    <2>1. on \in 0..MaxSections
      BY <1>5, <1>7, Sizes DEF Made, Section
    <2>2. ASSUME NEW q \in i..k PROVE Q[q] \in QuestionRow
      <3>1. pos < i
        BY <1>4, <1>10
      <3>2. pos + (q - i) \in 0..MaxQuestions
        BY <1>4, <3>1
      <3>3. [row |-> "live", section |-> on, position |-> pos + (q - i), content |-> 0]
              \in QuestionRow
        BY <2>1, <3>2 DEF QuestionRow, Row
      <3>4. Q[q] = [row |-> "live", section |-> on, position |-> pos + (q - i), content |-> 0]
        BY <1>4, <1>6
      <3> QED
        BY <3>3, <3>4
    <2> QED
      BY <1>6, <1>7, <1>8, <2>2
  <1>13. Numbered(round, section, Q)
    <2>1. ASSUME NEW q \in Live(Q)
          PROVE  Reach(Q, Q[q].position + 1) /\ Q[q].section \in Made(section)
      <3>1. CASE q \in i..k
        <4>1. Q[q].position = pos + (q - i) /\ Q[q].section = on
          BY <1>8, <3>1
        <4>2. Reach(Q, pos + 1 + (q - i)) /\ pos + 1 + (q - i) = (pos + (q - i)) + 1
          BY <1>4, <1>10, <3>1
        <4> QED
          BY <1>5, <4>1, <4>2
      <3>2. CASE q \in Live(question)
        <4>1. Reach(question, question[q].position + 1) /\ question[q].section \in Made(section)
          BY <1>7, <3>2 DEF Numbered
        <4>2. Q[q] = question[q]
          BY <1>11, <3>2 DEF Live, Made
        <4>3. Reach(Q, question[q].position + 1)
          BY <1>9, <4>1 DEF Reach
        <4> QED
          BY <4>1, <4>2, <4>3
      <3> QED
        BY <1>9, <3>1, <3>2
    <2> QED
      BY <1>7, <1>10, <2>1 DEF Numbered
  <1>14. EvolvesTo(round, section, Q)
    <2>1. \A q \in Made(question) : q \in Live(Q) =>
             q \in Live(question) /\ Q[q].section = question[q].section
      BY <1>9, <1>11
    <2> QED
      BY <1>9, <2>1 DEF EvolvesTo
  <1>15. ASSUME NEW rd \in Frozen(req[r]) PROVE SamePaper(rd, section, Q)
    <2>1. ASSUME NEW s \in SectionsOf(rd)
          PROVE  /\ {q \in Live(Q) : Q[q].section = s} = QuestionsOf(s)
                 /\ \A q \in QuestionsOf(s) : Q[q] = question[q]
      <3>1. s # on
        BY <1>5 DEF SectionsOf
      <3>2. \A q \in Live(question) : Q[q] = question[q] /\ q \in Live(Q)
        BY <1>9, <1>11 DEF Live, Made
      <3>3. \A q \in Live(Q) : q \in Live(question) \/ Q[q].section = on
        BY <1>8, <1>9
      <3> QED
        BY <3>1, <3>2, <3>3 DEF QuestionsOf
    <2> QED
      BY <2>1 DEF SamePaper, SectionsOf
  <1>16. Fits(req[r], round, section, Q)
    BY <1>7, <1>12, <1>13, <1>14, <1>15 DEF Fits
  <1>17. Writes(r, round, section, Q) /\ exam' = exam
    BY <1>2, <1>3, <1>6 DEF AddCommits
  <1> QED
    BY <1>16, <1>17, WritesKeep

\* A step that changes no more than whether rounds, or the exam, are published.
LEMMA StatusKeeps ==
  ASSUME IInv, exam' \in ExamStatus, served' \in 0..MaxRequests,
         round' \in [Round -> RoundRow],
         \A i \in Round : round'[i].row = round[i].row /\ round'[i].number = round[i].number,
         section' = section, question' = question, attempted' = attempted,
         req' = req \/ \E r \in Request : Reply(r)
  PROVE  IInv' /\ LeavesPapers
  <1>1. round \in [Round -> RoundRow] /\ Numbered(round, section, question)
    BY DEF IInv, Typed
  <1>2. Made(round') = Made(round) /\ Live(round') = Live(round)
    BY <1>1 DEF Made, Live
  <1>3. Numbered(round', section', question')
    <2>1. Contiguous(round')
      BY <1>1, <1>2 DEF Numbered, Contiguous
    <2>2. \A i \in Live(round') : Reach(round', round'[i].number)
      <3>1. \A i \in Live(round) : i \in Round /\ Reach(round, round[i].number)
        BY <1>1 DEF Numbered, Live
      <3> QED
        BY <1>2, <3>1 DEF Reach
    <2> QED
      BY <1>1, <2>1, <2>2 DEF Numbered
  <1>4. Orderly(round', section', question')
    <2>1. \A i \in Live(round) : round'[i].number = round[i].number
      BY <1>1 DEF Live
    <2> QED
      BY <1>2, <2>1 DEF IInv, Orderly
  <1>5. EvolvesTo(round', section', question')
    BY <1>2 DEF EvolvesTo
  <1>6. /\ req' \in [Request -> Memory]
        /\ \A q \in Request :
             \/ req'[q] = Idle
             \/ /\ req'[q].op = req[q].op /\ req'[q].on = req[q].on
                /\ req'[q].rows = req[q].rows /\ req'[q].pos = req[q].pos
                /\ attempted' \ req'[q].late \subseteq attempted \ req[q].late
    <2>1. CASE req' = req
      BY <2>1 DEF IInv, Typed
    <2>2. CASE \E r \in Request : Reply(r)
      BY <2>2, ReplyForgets
    <2> QED
      BY <2>1, <2>2
  <1>7. Typed'
    BY <1>6 DEF IInv, Typed
  <1>8. IInv'
    BY <1>3, <1>4, <1>5, <1>6, <1>7, StepKeeps
  <1>9. LeavesPapers
    BY DEF LeavesPapers, Paper, SectionsOf, QuestionsOf, Live
  <1> QED
    BY <1>8, <1>9

LEMMA Arriving == ASSUME IInv, Arrives PROVE served' \in 0..MaxRequests
  BY Sizes DEF IInv, Typed, Arrives

LEMMA Restatus ==
  ASSUME Typed, NEW rows, NEW to \in {"draft", "published"}, round' = WithStatus(rows, to)
  PROVE  /\ round' \in [Round -> RoundRow]
         /\ \A i \in Round : round'[i].row = round[i].row /\ round'[i].number = round[i].number
  <1>1. ASSUME NEW i \in Round
        PROVE  /\ round'[i] \in RoundRow /\ round'[i].row = round[i].row
               /\ round'[i].number = round[i].number
    <2>1. round[i] \in RoundRow
      BY DEF Typed
    <2>2. round'[i] = [round[i] EXCEPT !.status = to] \/ round'[i] = round[i]
      BY DEF WithStatus
    <2>3. [round[i] EXCEPT !.status = to] \in RoundRow
      BY <2>1 DEF RoundRow
    <2> QED
      BY <2>1, <2>2, <2>3 DEF RoundRow
  <1>2. round' \in [Round -> RoundRow]
    BY <1>1 DEF WithStatus
  <1> QED
    BY <1>1, <1>2

LEMMA PublishingKeeps ==
  ASSUME IInv, NEW r \in Request, PublishExamCommits(r) \/ PublishRoundCommits(r)
  PROVE  IInv' /\ LeavesPapers
  <1>1. exam' \in ExamStatus /\ served' \in 0..MaxRequests /\ Reply(r)
    BY DEF PublishExamCommits, PublishRoundCommits, Reply, IInv, Typed, ExamStatus
  <1>2. section' = section /\ question' = question /\ attempted' = attempted
    BY DEF PublishExamCommits, PublishRoundCommits
  <1>3. /\ round' \in [Round -> RoundRow]
        /\ \A i \in Round : round'[i].row = round[i].row /\ round'[i].number = round[i].number
    <2>1. CASE PublishExamCommits(r)
      BY <2>1 DEF PublishExamCommits, IInv, Typed
    <2>2. CASE PublishRoundCommits(r)
      <3>1. PICK rows : rows = req[r].rows
        OBVIOUS
      <3>2. round' = WithStatus(rows, "published")
        BY <2>2, <3>1 DEF PublishRoundCommits
      <3> QED
        BY <3>2, Restatus DEF IInv
    <2> QED
      BY <2>1, <2>2
  <1> QED
    BY <1>1, <1>2, <1>3, StatusKeeps

LEMMA WithdrawingKeeps ==
  ASSUME IInv, WithdrawExam \/ \E rd \in Round : UnpublishRound(rd)
  PROVE  IInv' /\ LeavesPapers
  <1>1. /\ section' = section /\ question' = question /\ attempted' = attempted /\ req' = req
        /\ Arrives
    BY DEF WithdrawExam, UnpublishRound
  <1>2. exam' \in ExamStatus /\ served' \in 0..MaxRequests
    BY <1>1, Arriving DEF WithdrawExam, UnpublishRound, IInv, Typed, ExamStatus
  <1>3. /\ round' \in [Round -> RoundRow]
        /\ \A i \in Round : round'[i].row = round[i].row /\ round'[i].number = round[i].number
    <2>1. CASE WithdrawExam
      BY <2>1 DEF WithdrawExam, IInv, Typed
    <2>2. CASE \E rd \in Round : UnpublishRound(rd)
      <3>1. PICK rd \in Round : UnpublishRound(rd)
        BY <2>2
      <3>2. round' = WithStatus({rd}, "draft")
        BY <3>1 DEF UnpublishRound
      <3> QED
        BY <3>2, Restatus DEF IInv
    <2> QED
      BY <2>1, <2>2
  <1> QED
    BY <1>1, <1>2, <1>3, StatusKeeps

\* A first attempt is late for every request that is under way.
LEMMA StartKeeps ==
  ASSUME IInv, NEW r \in Request, StartCommits(r)
  PROVE  IInv' /\ LeavesPapers
  <1>1. PICK new : new = {req[r].on} \ attempted
    OBVIOUS
  <1>2. new \subseteq Round
    BY <1>1, Held DEF StartCommits, Remembers
  <1>3. /\ exam' = exam /\ round' = round /\ section' = section /\ question' = question
        /\ served' = served /\ attempted' = attempted \cup new
        /\ req' = [q \in Request |-> IF q = r \/ req[q] = Idle THEN Idle
                                     ELSE [req[q] EXCEPT !.late = @ \cup new]]
    BY <1>1 DEF StartCommits
  <1>4. ASSUME NEW q \in Request
        PROVE  /\ req'[q] \in Memory
               /\ \/ req'[q] = Idle
                  \/ /\ req'[q].op = req[q].op /\ req'[q].on = req[q].on
                     /\ req'[q].rows = req[q].rows /\ req'[q].pos = req[q].pos
                     /\ attempted' \ req'[q].late \subseteq attempted \ req[q].late
    <2>1. CASE req'[q] = Idle
      BY <2>1, IdleFits
    <2>2. CASE req'[q] = [req[q] EXCEPT !.late = @ \cup new]
      <3>1. req[q] \in Memory /\ req[q].late \cup new \subseteq Round
        BY <1>2, Held
      <3>2. /\ req'[q] \in Memory /\ req'[q].op = req[q].op /\ req'[q].on = req[q].on
            /\ req'[q].rows = req[q].rows /\ req'[q].pos = req[q].pos
            /\ req'[q].late = req[q].late \cup new
        BY <2>2, <3>1 DEF Memory
      <3> QED
        BY <1>3, <3>2
    <2> QED
      BY <1>3, <2>1, <2>2
  <1>5. Typed'
    <2>1. req' \in [Request -> Memory]
      BY <1>3, <1>4
    <2>2. attempted' \subseteq Round
      BY <1>2, <1>3 DEF IInv, Typed
    <2> QED
      BY <1>3, <2>1, <2>2 DEF IInv, Typed
  <1>6. EvolvesTo(round', section', question')
    BY <1>3 DEF EvolvesTo
  <1>7. Numbered(round', section', question') /\ Orderly(round', section', question')
    BY <1>3 DEF IInv
  <1>8. IInv'
    BY <1>4, <1>5, <1>6, <1>7, StepKeeps
  <1>9. LeavesPapers
    BY <1>3 DEF LeavesPapers, Paper, SectionsOf, QuestionsOf, Live
  <1> QED
    BY <1>8, <1>9

\* max(position) + 1 over live rows.
LEMMA NextNumber ==
  ASSUME IInv
  PROVE  /\ LET n == Next1({round[i].number : i \in Live(round)}, 1)
            IN  n \in Nat /\ n # 0 /\ Reach(round, n - 1)
         /\ \A rd : LET n == Next1({section[s].position : s \in SectionsOf(rd)}, 1)
                    IN  n \in Nat /\ n # 0 /\ Reach(section, n - 1)
         /\ \A s : LET n == Next1({question[q].position : q \in QuestionsOf(s)}, 0)
                   IN  n \in Nat /\ Reach(question, n)
  <1>1. /\ round \in [Round -> RoundRow] /\ section \in [Section -> SectionRow]
        /\ question \in [Question -> QuestionRow] /\ Numbered(round, section, question)
    BY DEF IInv, Typed
  <1>2. /\ \A i \in Round : round[i].number \in 0..MaxRounds
        /\ \A s \in Section : section[s].position \in 0..MaxSections
        /\ \A q \in Question : question[q].position \in 0..MaxQuestions
    BY <1>1 DEF RoundRow, SectionRow, QuestionRow
  <1>3. Live(round) \subseteq Round /\ Live(section) \subseteq Section /\ Live(question) \subseteq Question
    BY <1>1 DEF Live
  <1>4. PICK n : n = Next1({round[i].number : i \in Live(round)}, 1)
    OBVIOUS
  <1>5. n \in Nat /\ n # 0 /\ Reach(round, n - 1)
    <2>1. PICK values : values = {round[i].number : i \in Live(round)}
      OBVIOUS
    <2>2. values \subseteq 0..MaxRounds
      BY <1>2, <1>3, <2>1
    <2>3. n \in Nat /\ (n = 1 \/ \E v \in values : n = 1 + v)
      BY <1>4, <2>1, <2>2, NextFits, Sizes
    <2>4. CASE n = 1
      BY <2>4 DEF Reach
    <2>5. CASE \E v \in values : n = 1 + v
      <3>1. PICK i \in Live(round) : n = 1 + round[i].number
        BY <2>1, <2>5
      <3>2. round[i].number \in Nat /\ Reach(round, round[i].number)
        BY <1>1, <1>2, <1>3, Sizes DEF Numbered
      <3>3. n - 1 = round[i].number /\ n # 0
        BY <3>1, <3>2
      <3> QED
        BY <2>3, <3>2, <3>3
    <2> QED
      BY <2>3, <2>4, <2>5
  <1>6. ASSUME NEW rd, NEW k, k = Next1({section[s].position : s \in SectionsOf(rd)}, 1)
        PROVE  k \in Nat /\ k # 0 /\ Reach(section, k - 1)
    <2>1. PICK values : values = {section[s].position : s \in SectionsOf(rd)}
      OBVIOUS
    <2>2. values \subseteq 0..MaxSections
      BY <1>2, <1>3, <2>1 DEF SectionsOf
    <2>3. k \in Nat /\ (k = 1 \/ \E v \in values : k = 1 + v)
      BY <1>6, <2>1, <2>2, NextFits, Sizes
    <2>4. CASE k = 1
      BY <2>4 DEF Reach
    <2>5. CASE \E v \in values : k = 1 + v
      <3>1. PICK s \in SectionsOf(rd) : k = 1 + section[s].position
        BY <2>1, <2>5
      <3>2. section[s].position \in Nat /\ Reach(section, section[s].position)
        BY <1>1, <1>2, <1>3, Sizes DEF Numbered, SectionsOf
      <3>3. k - 1 = section[s].position /\ k # 0
        BY <3>1, <3>2
      <3> QED
        BY <2>3, <3>2, <3>3
    <2> QED
      BY <2>3, <2>4, <2>5
  <1>7. ASSUME NEW s, NEW k, k = Next1({question[q].position : q \in QuestionsOf(s)}, 0)
        PROVE  k \in Nat /\ Reach(question, k)
    <2>1. PICK values : values = {question[q].position : q \in QuestionsOf(s)}
      OBVIOUS
    <2>2. values \subseteq 0..MaxQuestions
      BY <1>2, <1>3, <2>1 DEF QuestionsOf
    <2>3. k \in Nat /\ (k = 0 \/ \E v \in values : k = 1 + v)
      BY <1>7, <2>1, <2>2, NextFits, Sizes
    <2>4. CASE k = 0
      BY <2>4 DEF Reach
    <2>5. CASE \E v \in values : k = 1 + v
      <3>1. PICK q \in QuestionsOf(s) : k = 1 + question[q].position
        BY <2>1, <2>5
      <3>2. question[q].position \in Nat /\ Reach(question, question[q].position + 1)
        BY <1>1, <1>2, <1>3, Sizes DEF Numbered, QuestionsOf
      <3>3. k = question[q].position + 1
        BY <3>1, <3>2
      <3> QED
        BY <2>3, <3>2, <3>3
    <2> QED
      BY <2>3, <2>4, <2>5
  <1> QED
    BY <1>4, <1>5, <1>6, <1>7

LEMMA StartsKeep ==
  ASSUME IInv, NEW r \in Request, NEW op \in Op, NEW on \in Nat, NEW rows \in SUBSET Nat,
         NEW pos \in Nat, Starts(r, op, on, rows, pos), NEW m,
         m = [op |-> op, on |-> on, rows |-> rows, pos |-> pos, late |-> {}],
         Remembers(m), Guarded(m)
  PROVE  IInv' /\ LeavesPapers
  <1>1. m \in Memory
    BY DEF Memory
  <1>2. /\ Arrives /\ req' = [req EXCEPT ![r] = m]
        /\ UNCHANGED <<exam, round, section, question, attempted>>
    BY DEF Starts
  <1> QED
    BY <1>1, <1>2, ReadsKeep

LEMMA PublishExamReadsKeeps ==
  ASSUME IInv, NEW r \in Request, PublishExamReads(r)
  PROVE  IInv' /\ LeavesPapers
  <1>1. Starts(r, "publish", 0, {},
               IF exam = "published" THEN 0 ELSE 1)
    BY DEF PublishExamReads
  <1>2. PICK rows, pos : /\ rows = {}
                         /\ pos = IF exam = "published" THEN 0 ELSE 1
    OBVIOUS
  <1>3. rows \in SUBSET Nat /\ pos \in Nat /\ 0 \in Nat /\ "publish" \in Op
    BY <1>2, Tables DEF IInv, Op, Round, Section, Question
  <1>4. PICK m : m = [op |-> "publish", on |-> 0, rows |-> rows, pos |-> pos, late |-> {}]
    OBVIOUS
  <1>5. Remembers(m)
    BY <1>2, <1>4 DEF Remembers
  <1>6. Guarded(m)
    BY <1>2, <1>4 DEF Guarded, Frozen
  <1>7. Starts(r, "publish", 0, rows, pos)
    BY <1>1, <1>2
  <1> QED
    BY <1>3, <1>4, <1>5, <1>6, <1>7, StartsKeep

LEMMA CreateRoundReadsKeeps ==
  ASSUME IInv, NEW r \in Request, CreateRoundReads(r)
  PROVE  IInv' /\ LeavesPapers
  <1>1. Starts(r, "create round", 0, {},
               Next1({round[i].number : i \in Live(round)}, 1))
    BY DEF CreateRoundReads
  <1>2. PICK rows, pos : /\ rows = {}
                         /\ pos = Next1({round[i].number : i \in Live(round)}, 1)
    OBVIOUS
  <1>3. pos \in Nat /\ pos # 0 /\ Reach(round, pos - 1)
    BY <1>2, NextNumber
  <1>4. rows \in SUBSET Nat /\ pos \in Nat /\ 0 \in Nat /\ "create round" \in Op
    BY <1>2, <1>3, Tables DEF IInv, Op, Round, Section, Question
  <1>5. PICK m : m = [op |-> "create round", on |-> 0, rows |-> rows, pos |-> pos, late |-> {}]
    OBVIOUS
  <1>6. Remembers(m)
    BY <1>2, <1>3, <1>5 DEF Remembers
  <1>7. Guarded(m)
    BY <1>2, <1>3, <1>5 DEF Guarded, Frozen
  <1>8. Starts(r, "create round", 0, rows, pos)
    BY <1>1, <1>2
  <1> QED
    BY <1>4, <1>5, <1>6, <1>7, <1>8, StartsKeep

LEMMA PublishRoundReadsKeeps ==
  ASSUME IInv, NEW r \in Request, NEW rd \in Round, PublishRoundReads(r, rd)
  PROVE  IInv' /\ LeavesPapers
  <1>1. Starts(r, "publish round", rd, {rd} \ {i \in Round : round[i].status = "published"},
               IF exam = "published" THEN 0 ELSE 1)
    BY DEF PublishRoundReads
  <1>2. PICK rows, pos : /\ rows = {rd} \ {i \in Round : round[i].status = "published"}
                         /\ pos = IF exam = "published" THEN 0 ELSE 1
    OBVIOUS
  <1>3. rows \in SUBSET Nat /\ pos \in Nat /\ rd \in Nat /\ "publish round" \in Op
    BY <1>2, Tables DEF IInv, Op, Round, Section, Question
  <1>4. PICK m : m = [op |-> "publish round", on |-> rd, rows |-> rows, pos |-> pos, late |-> {}]
    OBVIOUS
  <1>5. Remembers(m)
    BY <1>2, <1>4 DEF Remembers
  <1>6. Guarded(m)
    BY <1>2, <1>4 DEF Guarded, Frozen
  <1>7. Starts(r, "publish round", rd, rows, pos)
    BY <1>1, <1>2
  <1> QED
    BY <1>3, <1>4, <1>5, <1>6, <1>7, StartsKeep

LEMMA DeleteRoundReadsKeeps ==
  ASSUME IInv, NEW r \in Request, NEW rd \in Round, DeleteRoundReads(r, rd)
  PROVE  IInv' /\ LeavesPapers
  <1>1. Starts(r, "delete round", rd, SectionsOf(rd),
               0)
    BY DEF DeleteRoundReads
  <1>2. PICK rows, pos : /\ rows = SectionsOf(rd)
                         /\ pos = 0
    OBVIOUS
  <1>3. rd \in Made(round) /\ rows \subseteq Made(section) /\ rd \notin attempted
    BY <1>2, Tables DEF DeleteRoundReads, Unlocked, SectionsOf, IInv
  <1>4. \A s \in rows : section[s].round = rd
    BY <1>2 DEF SectionsOf
  <1>5. rows \in SUBSET Nat /\ pos \in Nat /\ rd \in Nat /\ "delete round" \in Op
    BY <1>2, <1>3, <1>4, Tables DEF IInv, Op, Round, Section, Question
  <1>6. PICK m : m = [op |-> "delete round", on |-> rd, rows |-> rows, pos |-> pos, late |-> {}]
    OBVIOUS
  <1>7. Remembers(m)
    BY <1>2, <1>3, <1>4, <1>6 DEF Remembers
  <1>8. Guarded(m)
    BY <1>2, <1>3, <1>4, <1>6 DEF Guarded, Frozen
  <1>9. Starts(r, "delete round", rd, rows, pos)
    BY <1>1, <1>2
  <1> QED
    BY <1>5, <1>6, <1>7, <1>8, <1>9, StartsKeep

LEMMA ReorderRoundsReadsKeeps ==
  ASSUME IInv, NEW r \in Request, ReorderRoundsReads(r)
  PROVE  IInv' /\ LeavesPapers
  <1>1. Starts(r, "reorder rounds", 0, Live(round),
               0)
    BY DEF ReorderRoundsReads
  <1>2. PICK rows, pos : /\ rows = Live(round)
                         /\ pos = 0
    OBVIOUS
  <1>3. rows \subseteq Made(round)
    BY <1>2, Tables DEF IInv
  <1>4. rows \in SUBSET Nat /\ pos \in Nat /\ 0 \in Nat /\ "reorder rounds" \in Op
    BY <1>2, <1>3, Tables DEF IInv, Op, Round, Section, Question
  <1>5. PICK m : m = [op |-> "reorder rounds", on |-> 0, rows |-> rows, pos |-> pos, late |-> {}]
    OBVIOUS
  <1>6. Remembers(m)
    BY <1>2, <1>3, <1>5 DEF Remembers
  <1>7. Guarded(m)
    BY <1>2, <1>3, <1>5 DEF Guarded, Frozen
  <1>8. Starts(r, "reorder rounds", 0, rows, pos)
    BY <1>1, <1>2
  <1> QED
    BY <1>4, <1>5, <1>6, <1>7, <1>8, StartsKeep

LEMMA CreateSectionReadsKeeps ==
  ASSUME IInv, NEW r \in Request, NEW rd \in Round, CreateSectionReads(r, rd)
  PROVE  IInv' /\ LeavesPapers
  <1>1. Starts(r, "create section", rd, {},
               Next1({section[s].position : s \in SectionsOf(rd)}, 1))
    BY DEF CreateSectionReads
  <1>2. PICK rows, pos : /\ rows = {}
                         /\ pos = Next1({section[s].position : s \in SectionsOf(rd)}, 1)
    OBVIOUS
  <1>3. pos \in Nat /\ pos # 0 /\ Reach(section, pos - 1)
    BY <1>2, NextNumber
  <1>4. rd \notin attempted
    BY DEF CreateSectionReads, Unlocked
  <1>5. rows \in SUBSET Nat /\ pos \in Nat /\ rd \in Nat /\ "create section" \in Op
    BY <1>2, <1>3, <1>4, Tables DEF IInv, Op, Round, Section, Question
  <1>6. PICK m : m = [op |-> "create section", on |-> rd, rows |-> rows, pos |-> pos, late |-> {}]
    OBVIOUS
  <1>7. Remembers(m)
    BY <1>2, <1>3, <1>4, <1>6 DEF Remembers
  <1>8. Guarded(m)
    BY <1>2, <1>3, <1>4, <1>6 DEF Guarded, Frozen
  <1>9. Starts(r, "create section", rd, rows, pos)
    BY <1>1, <1>2
  <1> QED
    BY <1>5, <1>6, <1>7, <1>8, <1>9, StartsKeep

LEMMA DeleteSectionReadsKeeps ==
  ASSUME IInv, NEW r \in Request, NEW rd \in Round, NEW s \in Section,
         DeleteSectionReads(r, rd, s)
  PROVE  IInv' /\ LeavesPapers
  <1>1. Starts(r, "delete section", s, QuestionsOf(s), rd)
    BY DEF DeleteSectionReads
  <1>2. PICK rows, pos : /\ rows = QuestionsOf(s)
                         /\ pos = rd
    OBVIOUS
  <1>3. s \in Made(section) /\ rows \subseteq Made(question) /\ pos \notin attempted
    BY <1>2, Tables DEF DeleteSectionReads, Unlocked, QuestionsOf, IInv
  <1>4. \A q \in rows : question[q].section = s
    BY <1>2 DEF QuestionsOf
  <1>5. rows \in SUBSET Nat /\ pos \in Nat /\ s \in Nat /\ "delete section" \in Op
    BY <1>2, <1>3, <1>4, Tables DEF IInv, Op, Round, Section, Question
  <1>6. PICK m : m = [op |-> "delete section", on |-> s, rows |-> rows, pos |-> pos, late |-> {}]
    OBVIOUS
  <1>7. Remembers(m)
    BY <1>2, <1>3, <1>4, <1>6 DEF Remembers
  <1>8. Guarded(m)
    BY <1>2, <1>3, <1>4, <1>6 DEF Guarded, Frozen
  <1>9. Starts(r, "delete section", s, rows, pos)
    BY <1>1, <1>2
  <1> QED
    BY <1>5, <1>6, <1>7, <1>8, <1>9, StartsKeep

LEMMA AddReadsKeeps ==
  ASSUME IInv, NEW r \in Request, NEW s \in Section, AddReads(r, s)
  PROVE  IInv' /\ LeavesPapers
  <1>1. Starts(r, "add", s, {},
               Next1({question[q].position : q \in QuestionsOf(s)}, 0))
    BY DEF AddReads
  <1>2. PICK rows, pos : /\ rows = {}
                         /\ pos = Next1({question[q].position : q \in QuestionsOf(s)}, 0)
    OBVIOUS
  <1>3. pos \in Nat /\ Reach(question, pos)
    BY <1>2, NextNumber
  <1>4. s \in Live(section) /\ section[s].round \notin attempted
    BY DEF AddReads, SectionTargets, ExamWideTargets, DefaultSections, Unlocked, ExamUnlocked
  <1>5. s \in Made(section)
    BY <1>4, Tables DEF IInv
  <1>6. rows \in SUBSET Nat /\ pos \in Nat /\ s \in Nat /\ "add" \in Op
    BY <1>2, <1>3, <1>4, <1>5, Tables DEF IInv, Op, Round, Section, Question
  <1>7. PICK m : m = [op |-> "add", on |-> s, rows |-> rows, pos |-> pos, late |-> {}]
    OBVIOUS
  <1>8. Remembers(m)
    BY <1>2, <1>3, <1>4, <1>5, <1>7 DEF Remembers
  <1>9. Guarded(m)
    BY <1>2, <1>3, <1>4, <1>5, <1>7 DEF Guarded, Frozen
  <1>10. Starts(r, "add", s, rows, pos)
    BY <1>1, <1>2
  <1> QED
    BY <1>6, <1>7, <1>8, <1>9, <1>10, StartsKeep

LEMMA EditReadsKeeps ==
  ASSUME IInv, NEW r \in Request, NEW q \in Question, EditReads(r, q)
  PROVE  IInv' /\ LeavesPapers
  <1>1. Starts(r, "edit", q, {},
               0)
    BY DEF EditReads
  <1>2. PICK rows, pos : /\ rows = {}
                         /\ pos = 0
    OBVIOUS
  <1>3. q \in Made(question) /\ attempted = {}
    BY Tables DEF EditReads, ExamUnlocked, IInv
  <1>4. rows \in SUBSET Nat /\ pos \in Nat /\ q \in Nat /\ "edit" \in Op
    BY <1>2, <1>3, Tables DEF IInv, Op, Round, Section, Question
  <1>5. PICK m : m = [op |-> "edit", on |-> q, rows |-> rows, pos |-> pos, late |-> {}]
    OBVIOUS
  <1>6. Remembers(m)
    BY <1>2, <1>3, <1>5 DEF Remembers
  <1>7. Guarded(m)
    BY <1>2, <1>3, <1>5 DEF Guarded, Frozen
  <1>8. Starts(r, "edit", q, rows, pos)
    BY <1>1, <1>2
  <1> QED
    BY <1>4, <1>5, <1>6, <1>7, <1>8, StartsKeep

LEMMA DropReadsKeeps ==
  ASSUME IInv, NEW r \in Request, NEW q \in Question, DropReads(r, q)
  PROVE  IInv' /\ LeavesPapers
  <1>1. Starts(r, "drop", q, {},
               0)
    BY DEF DropReads
  <1>2. PICK rows, pos : /\ rows = {}
                         /\ pos = 0
    OBVIOUS
  <1>3. q \in Made(question)
    BY Tables DEF DropReads, IInv
  <1>4. section[question[q].section].round \notin attempted
    BY DEF DropReads, DroppableExamWide, SectionTargets, Unlocked, ExamUnlocked
  <1>5. rows \in SUBSET Nat /\ pos \in Nat /\ q \in Nat /\ "drop" \in Op
    BY <1>2, <1>3, <1>4, Tables DEF IInv, Op, Round, Section, Question
  <1>6. PICK m : m = [op |-> "drop", on |-> q, rows |-> rows, pos |-> pos, late |-> {}]
    OBVIOUS
  <1>7. Remembers(m)
    BY <1>2, <1>3, <1>4, <1>6 DEF Remembers
  <1>8. Guarded(m)
    BY <1>2, <1>3, <1>4, <1>6 DEF Guarded, Frozen
  <1>9. Starts(r, "drop", q, rows, pos)
    BY <1>1, <1>2
  <1> QED
    BY <1>5, <1>6, <1>7, <1>8, <1>9, StartsKeep

LEMMA ReorderReadsKeeps ==
  ASSUME IInv, NEW r \in Request, ReorderReads(r)
  PROVE  IInv' /\ LeavesPapers
  <1>1. Starts(r, "reorder", 0, OfKind("mcq"),
               0)
    BY DEF ReorderReads
  <1>2. PICK rows, pos : /\ rows = OfKind("mcq")
                         /\ pos = 0
    OBVIOUS
  <1>3. rows \subseteq Made(question) /\ attempted = {}
    BY <1>2, Tables DEF ReorderReads, ExamUnlocked, OfKind, IInv
  <1>4. rows \in SUBSET Nat /\ pos \in Nat /\ 0 \in Nat /\ "reorder" \in Op
    BY <1>2, <1>3, Tables DEF IInv, Op, Round, Section, Question
  <1>5. PICK m : m = [op |-> "reorder", on |-> 0, rows |-> rows, pos |-> pos, late |-> {}]
    OBVIOUS
  <1>6. Remembers(m)
    BY <1>2, <1>3, <1>5 DEF Remembers
  <1>7. Guarded(m)
    BY <1>2, <1>3, <1>5 DEF Guarded, Frozen
  <1>8. Starts(r, "reorder", 0, rows, pos)
    BY <1>1, <1>2
  <1> QED
    BY <1>4, <1>5, <1>6, <1>7, <1>8, StartsKeep

LEMMA StartReadsKeeps ==
  ASSUME IInv, NEW r \in Request, NEW rd \in Round, StartReads(r, rd)
  PROVE  IInv' /\ LeavesPapers
  <1>1. Starts(r, "start", rd, {},
               0)
    BY DEF StartReads
  <1>2. PICK rows, pos : /\ rows = {}
                         /\ pos = 0
    OBVIOUS
  <1>3. rows \in SUBSET Nat /\ pos \in Nat /\ rd \in Nat /\ "start" \in Op
    BY <1>2, Tables DEF IInv, Op, Round, Section, Question
  <1>4. PICK m : m = [op |-> "start", on |-> rd, rows |-> rows, pos |-> pos, late |-> {}]
    OBVIOUS
  <1>5. Remembers(m)
    BY <1>2, <1>4 DEF Remembers
  <1>6. Guarded(m)
    BY <1>2, <1>4 DEF Guarded, Frozen
  <1>7. Starts(r, "start", rd, rows, pos)
    BY <1>1, <1>2
  <1> QED
    BY <1>3, <1>4, <1>5, <1>6, <1>7, StartsKeep

LEMMA InitIInv == Init => IInv
  <1> SUFFICES ASSUME Init PROVE IInv
    OBVIOUS
  <1>1. 0 \in 0..MaxRounds /\ 1 \in 0..MaxRounds /\ 0 \in 0..MaxSections /\ 1 \in 0..MaxSections
        /\ 0 \in 0..MaxQuestions /\ 0 \in 0..MaxRequests /\ 1 \in Round /\ 1 \in Section
    BY Sizes DEF Round, Section
  <1>2. \A i \in Round : round[i].row = (IF i = 1 THEN "live" ELSE "none")
                         /\ round[i].number = (IF i = 1 THEN 1 ELSE 0)
    BY DEF Init
  <1>3. \A s \in Section : section[s].row = (IF s = 1 THEN "live" ELSE "none")
                           /\ section[s].position = (IF s = 1 THEN 1 ELSE 0)
    BY DEF Init
  <1>4. \A q \in Question : question[q].row = "none"
    BY DEF Init
  <1>5. DOMAIN round = Round /\ DOMAIN section = Section /\ DOMAIN question = Question
    BY DEF Init
  <1>6. /\ Live(round) = {1} /\ Made(round) = {1} /\ Live(section) = {1} /\ Made(section) = {1}
        /\ Live(question) = {} /\ Made(question) = {}
    BY <1>1, <1>2, <1>3, <1>4, <1>5 DEF Live, Made
  <1>7. Typed
    <2>1. round \in [Round -> RoundRow]
      BY <1>1 DEF Init, RoundRow, Row
    <2>2. section \in [Section -> SectionRow]
      BY <1>1, Sizes DEF Init, SectionRow, Row
    <2>3. question \in [Question -> QuestionRow]
      BY <1>1 DEF Init, QuestionRow, Row
    <2>4. req \in [Request -> Memory]
      BY IdleFits DEF Init
    <2> QED
      BY <1>1, <2>1, <2>2, <2>3, <2>4 DEF Typed, Init, ExamStatus
  <1>8. Numbered(round, section, question)
    <2>1. Contiguous(round) /\ Contiguous(section) /\ Contiguous(question)
      BY <1>5, <1>6 DEF Contiguous, Round, Section
    <2>2. Reach(round, 1) /\ Reach(section, 1)
      BY <1>6 DEF Reach
    <2> QED
      BY <1>1, <1>2, <1>3, <1>6, <2>1, <2>2 DEF Numbered
  <1>9. Orderly(round, section, question)
    BY <1>6 DEF Orderly
  <1>10. \A r \in Request : Remembers(req[r]) /\ Guarded(req[r])
    BY IdleFits DEF Init
  <1> QED
    BY <1>7, <1>8, <1>9, <1>10 DEF IInv

LEMMA StepIInv == IInv /\ [Next]_vars => IInv' /\ [LeavesPapers]_vars
  <1> SUFFICES ASSUME IInv, [Next]_vars PROVE IInv' /\ [LeavesPapers]_vars
    OBVIOUS
  <1>1. CASE WithdrawExam \/ \E rd \in Round : UnpublishRound(rd)
    BY <1>1, WithdrawingKeeps
  <1>2. ASSUME NEW r \in Request, PublishExamReads(r) PROVE IInv' /\ LeavesPapers
    BY <1>2, PublishExamReadsKeeps
  <1>3. ASSUME NEW r \in Request, PublishExamCommits(r) \/ PublishRoundCommits(r)
        PROVE  IInv' /\ LeavesPapers
    BY <1>3, PublishingKeeps
  <1>4. ASSUME NEW r \in Request, CreateRoundReads(r) PROVE IInv' /\ LeavesPapers
    BY <1>4, CreateRoundReadsKeeps
  <1>5. ASSUME NEW r \in Request, CreateRoundCommits(r) PROVE IInv' /\ LeavesPapers
    BY <1>5, CreateRoundKeeps
  <1>6. ASSUME NEW r \in Request, ReorderRoundsReads(r) PROVE IInv' /\ LeavesPapers
    BY <1>6, ReorderRoundsReadsKeeps
  <1>7. ASSUME NEW r \in Request, ReorderRoundsCommits(r) PROVE IInv' /\ LeavesPapers
    BY <1>7, ReorderRoundsKeeps
  <1>8. ASSUME NEW r \in Request, NEW rd \in Round,
               \/ PublishRoundReads(r, rd) \/ DeleteRoundReads(r, rd)
               \/ CreateSectionReads(r, rd) \/ StartReads(r, rd)
               \/ \E s \in Section : DeleteSectionReads(r, rd, s)
        PROVE  IInv' /\ LeavesPapers
    BY <1>8, PublishRoundReadsKeeps, DeleteRoundReadsKeeps, CreateSectionReadsKeeps,
       StartReadsKeeps, DeleteSectionReadsKeeps
  <1>9. ASSUME NEW r \in Request, DeleteRoundCommits(r) PROVE IInv' /\ LeavesPapers
    BY <1>9, DeleteRoundKeeps
  <1>10. ASSUME NEW r \in Request, CreateSectionCommits(r) PROVE IInv' /\ LeavesPapers
    BY <1>10, CreateSectionKeeps
  <1>11. ASSUME NEW r \in Request, DeleteSectionCommits(r) PROVE IInv' /\ LeavesPapers
    BY <1>11, DeleteSectionKeeps
  <1>12. ASSUME NEW r \in Request, NEW s \in Section, AddReads(r, s)
         PROVE  IInv' /\ LeavesPapers
    BY <1>12, AddReadsKeeps
  <1>13. ASSUME NEW r \in Request, AddCommits(r) PROVE IInv' /\ LeavesPapers
    BY <1>13, AddKeeps
  <1>14. ASSUME NEW r \in Request, NEW q \in Question, EditReads(r, q) \/ DropReads(r, q)
         PROVE  IInv' /\ LeavesPapers
    BY <1>14, EditReadsKeeps, DropReadsKeeps
  <1>15. ASSUME NEW r \in Request, EditCommits(r) \/ DropCommits(r) PROVE IInv' /\ LeavesPapers
    BY <1>15, EditKeeps, DropKeeps
  <1>16. ASSUME NEW r \in Request, ReorderReads(r) \/ ReorderCommits(r)
         PROVE  IInv' /\ LeavesPapers
    BY <1>16, ReorderReadsKeeps, ReorderKeeps
  <1>17. ASSUME NEW r \in Request, StartCommits(r) PROVE IInv' /\ LeavesPapers
    BY <1>17, StartKeeps
  <1>18. CASE UNCHANGED vars
    <2>1. Typed'
      BY <1>18 DEF vars, IInv, Typed
    <2>2. Numbered(round', section', question') /\ Orderly(round', section', question')
      BY <1>18 DEF vars, IInv
    <2>3. EvolvesTo(round', section', question')
      BY <1>18 DEF vars, EvolvesTo
    <2>4. \A r \in Request : /\ req'[r].op = req[r].op /\ req'[r].on = req[r].on
                             /\ req'[r].rows = req[r].rows /\ req'[r].pos = req[r].pos
                             /\ attempted' \ req'[r].late \subseteq attempted \ req[r].late
      BY <1>18 DEF vars
    <2> QED
      BY <1>18, <2>1, <2>2, <2>3, <2>4, StepKeeps
  <1> QED
    BY <1>1, <1>2, <1>3, <1>4, <1>5, <1>6, <1>7, <1>8, <1>9, <1>10, <1>11, <1>12, <1>13, <1>14,
       <1>15, <1>16, <1>17, <1>18 DEF Next

\* However the requests interleave, the rows that were made are contiguous, the indexes
\* hold, and what a request remembers between its check and its commit is still of the exam.
THEOREM SpecIInv == Spec => []IInv
  BY InitIInv, StepIInv, PTL DEF Spec

\* A set and its image under an injection have as many members.
LEMMA AsManyValues ==
  ASSUME NEW S, NEW T, IsFiniteSet(S), NEW f \in [S -> T],
         \A x, y \in S : x # y => f[x] # f[y], \A v \in T : \E x \in S : f[x] = v
  PROVE  Cardinality(T) = Cardinality(S)
  <1>1. f \in Surjection(S, T) /\ f \in Injection(S, T)
    BY DEF Surjection, Injection, IsInjective
  <1> QED
    BY <1>1, FS_Surjection

LEMMA FiniteTables ==
  ASSUME Typed
  PROVE  /\ IsFiniteSet(Live(round)) /\ \A rd : IsFiniteSet(SectionsOf(rd))
         /\ \A s : IsFiniteSet(QuestionsOf(s))
  <1>1. IsFiniteSet(Round) /\ IsFiniteSet(Section) /\ IsFiniteSet(Question)
    BY Sizes, FS_Interval DEF Round, Section, Question
  <1>2. /\ Live(round) \in SUBSET Round /\ \A rd : SectionsOf(rd) \in SUBSET Section
        /\ \A s : QuestionsOf(s) \in SUBSET Question
    BY DEF Typed, Live, SectionsOf, QuestionsOf
  <1> QED
    BY <1>1, <1>2, FS_Subset

LEMMA StrictlyOrdered == IInv => OrderIsStrict
  <1> SUFFICES ASSUME IInv PROVE OrderIsStrict
    OBVIOUS
  <1>1. Orderly(round, section, question) /\ Typed
    BY DEF IInv
  <1>2. Cardinality({round[i].number : i \in Live(round)}) = Cardinality(Live(round))
    <2>1. PICK S, T, f : /\ S = Live(round) /\ T = {round[i].number : i \in Live(round)}
                         /\ f = [i \in Live(round) |-> round[i].number]
      OBVIOUS
    <2>2. f \in [S -> T] /\ \A v \in T : \E i \in S : f[i] = v
      BY <2>1
    <2>3. \A i, j \in S : i # j => f[i] # f[j]
      BY <1>1, <2>1 DEF Orderly
    <2>4. IsFiniteSet(S)
      BY <1>1, <2>1, FiniteTables
    <2>5. Cardinality(T) = Cardinality(S)
      BY <2>2, <2>3, <2>4, AsManyValues
    <2> QED
      BY <2>1, <2>5
  <1>3. ASSUME NEW rd
        PROVE  Cardinality({section[s].position : s \in SectionsOf(rd)}) = Cardinality(SectionsOf(rd))
    <2>1. PICK S, T, f : /\ S = SectionsOf(rd) /\ T = {section[s].position : s \in SectionsOf(rd)}
                         /\ f = [s \in SectionsOf(rd) |-> section[s].position]
      OBVIOUS
    <2>2. f \in [S -> T] /\ \A v \in T : \E s \in S : f[s] = v
      BY <2>1
    <2>3. \A i, j \in S : i # j => f[i] # f[j]
      BY <1>1, <2>1 DEF Orderly, SectionsOf
    <2>4. IsFiniteSet(S)
      BY <1>1, <2>1, FiniteTables
    <2>5. Cardinality(T) = Cardinality(S)
      BY <2>2, <2>3, <2>4, AsManyValues
    <2> QED
      BY <2>1, <2>5
  <1>4. ASSUME NEW s
        PROVE  Cardinality({question[q].position : q \in QuestionsOf(s)}) = Cardinality(QuestionsOf(s))
    <2>1. PICK S, T, f : /\ S = QuestionsOf(s) /\ T = {question[q].position : q \in QuestionsOf(s)}
                         /\ f = [q \in QuestionsOf(s) |-> question[q].position]
      OBVIOUS
    <2>2. f \in [S -> T] /\ \A v \in T : \E q \in S : f[q] = v
      BY <2>1
    <2>3. \A i, j \in S : i # j => f[i] # f[j]
      BY <1>1, <2>1 DEF Orderly, QuestionsOf
    <2>4. IsFiniteSet(S)
      BY <1>1, <2>1, FiniteTables
    <2>5. Cardinality(T) = Cardinality(S)
      BY <2>2, <2>3, <2>4, AsManyValues
    <2> QED
      BY <2>1, <2>5
  <1> QED
    BY <1>2, <1>3, <1>4 DEF OrderIsStrict

\* However many editors add, delete and reorder at once, no two live rounds share a number
\* and no two live questions of a section share a position (hr_rounds.py, hr_exams.py).
THEOREM OrderStaysStrict == Spec => []OrderIsStrict
  BY SpecIInv, StrictlyOrdered, PTL

\* Once a round has an attempt, only a request that had passed its lock check before the
\* first attempt began still changes what its candidates are asked, or one that deletes a
\* section through the URL of another round.
THEOREM PapersFreeze == Spec => AttemptsFreezeThePaper
  <1>1. IInv /\ [Next]_vars =>
          [\A rd \in attempted :
             \/ Paper(rd)' = Paper(rd)
             \/ \E r \in Request :
                  req'[r] = Idle /\ (rd \in req[r].late \/ Misaddressed(req[r], rd))]_vars
    BY StepIInv DEF LeavesPapers
  <1> QED
    BY <1>1, SpecIInv, PTL DEF Spec, AttemptsFreezeThePaper

-----------------------------------------------------------------------------
(* CodeExecution.                                                           *)
(* Machine-checked proofs about CodeExecution, for either provider and every       *)
(* finite set of calls and tests.                                                  *)

\* The settings and the tests of the calls.
Configured ==
    /\ IsFiniteSet(Call) /\ IsFiniteSet(Test)
    /\ Selected \in [Call -> SUBSET Test]
    /\ Concurrency \in Nat \ {0} /\ MaxAttempts \in Nat \ {0}
    /\ NotLoaded \notin SUBSET Language

CodeIInv == CodeTypeOK /\ ResultWhenDone /\ PermitsAreExact /\ OneLoader /\ ScoresAreFinal

LEMMA RunType == \A r \in Run : r[1] \in Call /\ r[2] \in Test /\ r = <<r[1], r[2]>>
  BY DEF Run

LEMMA RunsAreFinite ==
  ASSUME Configured, NEW S \in SUBSET Run
  PROVE  IsFiniteSet(S) /\ Cardinality(S) \in Nat
  <1>1. IsFiniteSet(Call \X Test)
    BY FS_Product DEF Configured
  <1>2. S \subseteq Call \X Test
    BY DEF Run
  <1> QED
    BY <1>1, <1>2, FS_Subset, FS_CardinalityType

LEMMA HoldingIsFinite ==
  ASSUME Configured, NEW c
  PROVE  /\ Holding(c) \in SUBSET Run /\ IsFiniteSet(Holding(c))
         /\ Cardinality(Holding(c)) \in Nat
  <1>1. Holding(c) \in SUBSET Run
    BY DEF Holding, RunsOf
  <1> QED
    BY <1>1, RunsAreFinite

LEMMA CodeInitIInv == ASSUME Configured PROVE CodeInit => CodeIInv
  <1> SUFFICES ASSUME CodeInit PROVE CodeIInv
    OBVIOUS
  <1>1. CodeTypeOK
    <2>1. permits \in [Call -> Nat] /\ attempt \in [Run -> 0..MaxAttempts]
      BY DEF Configured, CodeInit
    <2>2. outcome \in [Call -> Outcome] /\ DOMAIN score = Call
      BY DEF CodeInit, Outcome
    <2>3. pc \in [Run -> Stage] /\ \A r \in Run : pc[r] # "backoff"
      BY DEF CodeInit, Stage
    <2>4. result \in [Run -> Result]
      BY DEF CodeInit, Result
    <2>5. offered \in SUBSET Language /\ cache \in (SUBSET Language) \cup {NotLoaded}
      BY DEF CodeInit
    <2> QED
      BY <2>1, <2>2, <2>3, <2>4, <2>5 DEF CodeTypeOK
  <1>2. \A c \in Call : Holding(c) = {}
    BY DEF CodeInit, Holding, RunsOf
  <1>3. PermitsAreExact
    BY <1>2, FS_EmptySet DEF Configured, CodeInit, PermitsAreExact
  <1>4. OneLoader /\ ResultWhenDone
    BY DEF CodeInit, OneLoader, ResultWhenDone, LockIsFree
  <1>5. ScoresAreFinal
    BY DEF CodeInit, ScoresAreFinal
  <1> QED
    BY <1>1, <1>3, <1>4, <1>5 DEF CodeIInv

\* What weighted_raw returns depends on the results of the call's own runs.
LEMMA RawOfResults ==
  ASSUME NEW c, \A r \in RunsOf(c) : result'[r] = result[r]
  PROVE  Raw(c)' = Raw(c)
  <1>1. {r \in RunsOf(c) : result'[r] = "passed"} = {r \in RunsOf(c) : result[r] = "passed"}
    OBVIOUS
  <1> QED
    BY <1>1 DEF Raw

\* A step that leaves the results there are as they are keeps the scores final.
LEMMA KeepsScores ==
  ASSUME CodeIInv, score' = score,
         \A r \in Run : pc[r] = "done" => pc'[r] = "done" /\ result'[r] = result[r]
  PROVE  ScoresAreFinal'
  <1> SUFFICES ASSUME NEW c \in Call, score[c] # NoScore
               PROVE  /\ score[c] = Raw(c)'
                      /\ \A r \in RunsOf(c) : pc'[r] = "done" /\ result'[r] \in Verdict
    BY DEF ScoresAreFinal
  <1>1. score[c] = Raw(c) /\ \A r \in RunsOf(c) : pc[r] = "done" /\ result[r] \in Verdict
    BY DEF CodeIInv, ScoresAreFinal
  <1>2. \A r \in RunsOf(c) : pc'[r] = "done" /\ result'[r] = result[r]
    BY <1>1 DEF RunsOf
  <1> QED
    BY <1>1, <1>2, RawOfResults

\* A run that holds a permit goes on.
LEMMA Moving ==
  ASSUME Configured, CodeIInv, CodeTypeOK', OneLoader', NEW r \in Run, NEW from, NEW to,
         Goes(r, from, to), from \notin {"ready", "done"}, to \notin {"ready", "done"},
         permits' = permits, result' = result, score' = score
  PROVE  CodeIInv'
  <1>1. \A c \in Call : Holding(c)' = Holding(c)
    BY DEF CodeIInv, CodeTypeOK, Goes, Holding, RunsOf
  <1>2. PermitsAreExact'
    BY <1>1 DEF CodeIInv, PermitsAreExact
  <1>3. ResultWhenDone'
    BY DEF CodeIInv, CodeTypeOK, ResultWhenDone, Goes
  <1>4. ScoresAreFinal'
    BY KeepsScores DEF CodeIInv, CodeTypeOK, Goes
  <1> QED
    BY <1>2, <1>3, <1>4 DEF CodeIInv

\* A run that holds a permit ends.
LEMMA Ending ==
  ASSUME Configured, CodeIInv, CodeTypeOK', OneLoader', NEW r \in Run, NEW from, NEW v,
         Ends(r, from, v), from \notin {"ready", "done"}, v # "none", score' = score
  PROVE  CodeIInv'
  <1> DEFINE c == r[1]
  <1>1. c \in Call
    BY RunType
  <1>2. pc[r] = from /\ pc' = [pc EXCEPT ![r] = "done"] /\ result' = [result EXCEPT ![r] = v]
        /\ permits' = [permits EXCEPT ![c] = @ + 1]
    BY DEF Ends, Goes
  <1>3. Holding(c)' = Holding(c) \ {r} /\ r \in Holding(c)
    BY <1>2 DEF CodeIInv, CodeTypeOK, Holding, RunsOf
  <1>4. \A d \in Call \ {c} : Holding(d)' = Holding(d)
    BY <1>2 DEF CodeIInv, CodeTypeOK, Holding, RunsOf
  <1>5. Cardinality(Holding(c)') = Cardinality(Holding(c)) - 1
    BY <1>3, HoldingIsFinite, FS_RemoveElement
  <1>6. permits'[c] = permits[c] + 1 /\ \A d \in Call \ {c} : permits'[d] = permits[d]
    BY <1>1, <1>2 DEF CodeIInv, CodeTypeOK
  <1>7. permits[c] \in Nat /\ permits[c] + Cardinality(Holding(c)) = Concurrency
    BY <1>1 DEF CodeIInv, CodeTypeOK, PermitsAreExact
  <1>8. permits'[c] + Cardinality(Holding(c)') = Concurrency
    BY <1>5, <1>6, <1>7, HoldingIsFinite
  <1>9. \A d \in Call \ {c} : permits'[d] + Cardinality(Holding(d)') = Concurrency
    BY <1>4, <1>6 DEF CodeIInv, PermitsAreExact
  <1>10. PermitsAreExact'
    BY <1>8, <1>9 DEF PermitsAreExact
  <1>11. ResultWhenDone'
    BY <1>2 DEF CodeIInv, CodeTypeOK, ResultWhenDone
  <1>12. ScoresAreFinal'
    BY <1>2, KeepsScores DEF CodeIInv, CodeTypeOK
  <1> QED
    BY <1>10, <1>11, <1>12 DEF CodeIInv

LEMMA Starting ==
  ASSUME Configured, CodeIInv, NEW r \in Run, CallStarts(r)
  PROVE  CodeIInv'
  <1> DEFINE c == r[1]
  <1>1. c \in Call
    BY RunType
  <1>2. PICK to \in {"looking", "posting"} : pc[r] = "ready" /\ pc' = [pc EXCEPT ![r] = to]
    BY DEF CallStarts, Goes
  <1>3. /\ permits[c] > 0 /\ permits' = [permits EXCEPT ![c] = @ - 1]
        /\ UNCHANGED <<outcome, score, result, offered, cache>>
    BY DEF CallStarts
  <1>4. CodeTypeOK'
    <2>1. attempt' \in [Run -> 0..MaxAttempts]
      BY DEF Configured, CodeIInv, CodeTypeOK, CallStarts
    <2>2. pc' \in [Run -> Stage]
      BY <1>2 DEF CodeIInv, CodeTypeOK, Stage
    <2>3. permits' \in [Call -> Nat]
      BY <1>1, <1>3 DEF CodeIInv, CodeTypeOK
    <2>4. attempt' = attempt \/ attempt' = [attempt EXCEPT ![r] = 1]
      BY DEF CallStarts
    <2>5. \A q \in Run : pc'[q] = "backoff" => q # r /\ attempt'[q] < MaxAttempts
      BY <1>2, <2>4 DEF CodeIInv, CodeTypeOK
    <2> QED
      BY <1>3, <2>1, <2>2, <2>3, <2>5 DEF CodeIInv, CodeTypeOK
  <1>5. Holding(c)' = Holding(c) \cup {r} /\ r \notin Holding(c)
    BY <1>2 DEF CodeIInv, CodeTypeOK, Holding, RunsOf
  <1>6. \A d \in Call \ {c} : Holding(d)' = Holding(d)
    BY <1>2 DEF CodeIInv, CodeTypeOK, Holding, RunsOf
  <1>7. Cardinality(Holding(c)') = Cardinality(Holding(c)) + 1
    BY <1>5, HoldingIsFinite, FS_AddElement
  <1>8. permits'[c] = permits[c] - 1 /\ \A d \in Call \ {c} : permits'[d] = permits[d]
    BY <1>1, <1>3 DEF CodeIInv, CodeTypeOK
  <1>9. permits[c] \in Nat /\ permits[c] + Cardinality(Holding(c)) = Concurrency
    BY <1>1 DEF CodeIInv, CodeTypeOK, PermitsAreExact
  <1>10. permits'[c] + Cardinality(Holding(c)') = Concurrency
    BY <1>7, <1>8, <1>9, HoldingIsFinite
  <1>11. \A d \in Call \ {c} : permits'[d] + Cardinality(Holding(d)') = Concurrency
    BY <1>6, <1>8 DEF CodeIInv, PermitsAreExact
  <1>12. PermitsAreExact'
    BY <1>10, <1>11 DEF PermitsAreExact
  <1>13. ResultWhenDone' /\ OneLoader'
    BY <1>2, <1>3 DEF CodeIInv, CodeTypeOK, ResultWhenDone, OneLoader, LockIsFree
  <1>14. ScoresAreFinal'
    BY <1>2, <1>3, KeepsScores DEF CodeIInv, CodeTypeOK
  <1> QED
    BY <1>4, <1>12, <1>13, <1>14 DEF CodeIInv

\* An end changes types and the loader as it should.
LEMMA EndType ==
  ASSUME Configured, CodeIInv, NEW r \in Run, NEW from, NEW v \in Result, Ends(r, from, v)
  PROVE  /\ permits' \in [Call -> Nat] /\ pc' \in [Run -> Stage] /\ result' \in [Run -> Result]
         /\ \A q \in Run : pc'[q] = "loading" => pc[q] = "loading" /\ q # r
         /\ \A q \in Run : pc'[q] = "backoff" => pc[q] = "backoff"
  BY RunType DEF CodeIInv, CodeTypeOK, Ends, Goes, Stage

LEMMA CallSteps ==
  ASSUME Configured, CodeIInv, NEW c \in Call, Begins(c) \/ Refuses(c) \/ Gathers(c)
  PROVE  CodeIInv'
  <1>1. UNCHANGED <<permits, pc, attempt, result, offered, cache>>
    BY DEF Begins, Refuses, Gathers
  <1>2. CodeTypeOK'
    BY <1>1 DEF CodeIInv, CodeTypeOK, Outcome, Begins, Refuses, Gathers
  <1>3. \A d \in Call : Holding(d)' = Holding(d)
    BY <1>1 DEF Holding, RunsOf
  <1>4. PermitsAreExact' /\ OneLoader' /\ ResultWhenDone'
    BY <1>1, <1>3 DEF CodeIInv, PermitsAreExact, OneLoader, LockIsFree, ResultWhenDone
  <1>5. CASE score' = score
    BY <1>1, <1>2, <1>4, <1>5, KeepsScores DEF CodeIInv
  <1>6. CASE Gathers(c) /\ score' = [score EXCEPT ![c] = Raw(c)]
    <2>1. \A d \in Call : Raw(d)' = Raw(d)
      BY <1>1, RawOfResults
    <2>2. \A r \in RunsOf(c) : pc[r] = "done" /\ result[r] \in Verdict
      BY <1>6 DEF Gathers, CodeIInv, ResultWhenDone, RunsOf, Verdict
    <2>3. score'[c] = Raw(c) /\ \A d \in Call \ {c} : score'[d] = score[d]
      BY <1>6 DEF CodeIInv, CodeTypeOK
    <2>4. ScoresAreFinal'
      BY <1>1, <2>1, <2>2, <2>3 DEF CodeIInv, ScoresAreFinal
    <2> QED
      BY <1>2, <1>4, <2>4 DEF CodeIInv
  <1> QED
    BY <1>5, <1>6 DEF Begins, Refuses, Gathers

LEMMA ResolveSteps ==
  ASSUME Configured, CodeIInv, NEW r \in Run, NEW from \in {"looking", "waiting"}
  PROVE  /\ Resolves(r, from) => CodeIInv'
         /\ Unresolved(r, from) => CodeIInv'
  <1>1. ASSUME Resolves(r, from) PROVE CodeIInv'
    <2>1. Goes(r, from, "posting") /\ attempt' = [attempt EXCEPT ![r] = 1]
          /\ UNCHANGED <<outcome, score, permits, result, offered, cache>>
      BY <1>1 DEF Resolves
    <2>2. CodeTypeOK'
      BY <2>1 DEF Configured, CodeIInv, CodeTypeOK, Stage, Goes
    <2>3. OneLoader'
      BY <2>1 DEF CodeIInv, CodeTypeOK, OneLoader, LockIsFree, Goes
    <2> QED
      BY <2>1, <2>2, <2>3, Moving
  <1>2. ASSUME Unresolved(r, from) PROVE CodeIInv'
    <2>1. Ends(r, from, "error") /\ UNCHANGED <<outcome, score, attempt, offered, cache>>
      BY <1>2 DEF Unresolved
    <2>2. "error" \in Result
      BY DEF Result, Verdict
    <2>3. CodeTypeOK'
      BY <2>1, <2>2, EndType DEF CodeIInv, CodeTypeOK
    <2>4. OneLoader'
      BY <2>1, <2>2, EndType DEF CodeIInv, OneLoader, LockIsFree
    <2> QED
      BY <2>1, <2>3, <2>4, Ending
  <1> QED
    BY <1>1, <1>2

LEMMA LockSteps ==
  ASSUME Configured, CodeIInv, NEW r \in Run, Queues(r) \/ Granted(r) \/ Loads(r) \/ LoadFails(r)
  PROVE  CodeIInv'
  <1>0. "error" \in Result
    BY DEF Result, Verdict
  <1>1. CASE Queues(r)
    <2>1. Goes(r, "looking", "waiting")
          /\ UNCHANGED <<outcome, score, permits, attempt, result, offered, cache>>
      BY <1>1 DEF Queues
    <2>2. CodeTypeOK' /\ OneLoader'
      BY <2>1 DEF CodeIInv, CodeTypeOK, Stage, Goes, OneLoader, LockIsFree
    <2> QED
      BY <2>1, <2>2, Moving
  <1>2. CASE Granted(r)
    <2>1. CASE Resolves(r, "waiting") \/ Unresolved(r, "waiting")
      BY <2>1, ResolveSteps
    <2>2. CASE /\ LockIsFree /\ cache = NotLoaded /\ Goes(r, "waiting", "loading")
               /\ UNCHANGED <<outcome, score, permits, attempt, result, offered, cache>>
      <3>1. CodeTypeOK'
        BY <2>2 DEF CodeIInv, CodeTypeOK, Stage, Goes
      <3>2. OneLoader'
        BY <2>2 DEF CodeIInv, CodeTypeOK, Goes, OneLoader, LockIsFree
      <3> QED
        BY <2>2, <3>1, <3>2, Moving
    <2> QED
      BY <1>2, <2>1, <2>2 DEF Granted
  <1>3. CASE Loads(r) /\ Goes(r, "loading", "posting")
    <2>1. /\ attempt' = [attempt EXCEPT ![r] = 1] /\ cache' = offered
          /\ UNCHANGED <<outcome, score, permits, result, offered>>
      BY <1>3 DEF Loads, Ends, Goes, CodeIInv, CodeTypeOK
    <2>2. CodeTypeOK'
      BY <1>3, <2>1 DEF Configured, CodeIInv, CodeTypeOK, Stage, Goes
    <2>3. OneLoader'
      BY <1>3 DEF CodeIInv, CodeTypeOK, OneLoader, LockIsFree, Goes
    <2> QED
      BY <1>3, <2>1, <2>2, <2>3, Moving
  <1>4. CASE Loads(r) /\ Ends(r, "loading", "error") /\ UNCHANGED attempt
    <2>1. cache' = offered /\ UNCHANGED <<outcome, score, offered>>
      BY <1>4 DEF Loads
    <2>2. CodeTypeOK'
      BY <1>0, <1>4, <2>1, EndType DEF CodeIInv, CodeTypeOK
    <2>3. pc[r] = "loading"
      BY <1>4 DEF Ends, Goes
    <2>4. OneLoader'
      BY <1>0, <1>4, <2>3, EndType DEF CodeIInv, OneLoader, LockIsFree
    <2> QED
      BY <1>4, <2>1, <2>2, <2>4, Ending
  <1>5. CASE LoadFails(r)
    <2>1. Ends(r, "loading", "error") /\ UNCHANGED <<outcome, score, attempt, offered, cache>>
      BY <1>5 DEF LoadFails
    <2>2. CodeTypeOK'
      BY <1>0, <2>1, EndType DEF CodeIInv, CodeTypeOK
    <2>3. OneLoader'
      BY <1>0, <2>1, EndType DEF CodeIInv, OneLoader, LockIsFree
    <2> QED
      BY <2>1, <2>2, <2>3, Ending
  <1> QED
    BY <1>1, <1>2, <1>3, <1>4, <1>5 DEF Loads

LEMMA PostSteps ==
  ASSUME Configured, CodeIInv, NEW r \in Run,
         (\E v \in Verdict : Answered(r, v)) \/ Fails(r) \/ Reposts(r) \/ Garbled(r)
  PROVE  CodeIInv'
  <1>1. ASSUME NEW v \in Verdict \cup {"raised"}, Ends(r, "posting", v),
               outcome' \in [Call -> Outcome], UNCHANGED <<score, attempt, offered, cache>>
        PROVE  CodeIInv'
    <2>1. v \in Result /\ v # "none"
      BY DEF Result, Verdict
    <2>2. CodeTypeOK'
      BY <1>1, <2>1, EndType DEF CodeIInv, CodeTypeOK
    <2>3. OneLoader'
      BY <1>1, <2>1, EndType DEF CodeIInv, OneLoader, LockIsFree
    <2> QED
      BY <1>1, <2>1, <2>2, <2>3, Ending
  <1>2. CASE \E v \in Verdict : Answered(r, v)
    BY <1>1, <1>2 DEF Answered, CodeIInv, CodeTypeOK
  <1>3. CASE Fails(r) /\ Ends(r, "posting", "error")
    BY <1>1, <1>3 DEF Fails, Verdict, CodeIInv, CodeTypeOK
  <1>4. CASE /\ Fails(r) /\ attempt[r] < MaxAttempts
             /\ Goes(r, "posting", "backoff") /\ UNCHANGED <<permits, result>>
    <2>1. CodeTypeOK'
      BY <1>4 DEF Fails, CodeIInv, CodeTypeOK, Stage, Goes
    <2>2. OneLoader'
      BY <1>4 DEF Fails, CodeIInv, CodeTypeOK, Goes, OneLoader, LockIsFree
    <2> QED
      BY <1>4, <2>1, <2>2, Moving DEF Fails
  <1>5. CASE Garbled(r)
    <2>1. outcome' \in [Call -> Outcome]
      BY <1>5, RunType DEF Garbled, CodeIInv, CodeTypeOK, Outcome
    <2> QED
      BY <1>1, <1>5, <2>1 DEF Garbled
  <1>6. CASE Reposts(r)
    <2>1. /\ Goes(r, "backoff", "posting") /\ attempt' = [attempt EXCEPT ![r] = @ + 1]
          /\ UNCHANGED <<outcome, score, permits, result, offered, cache>>
      BY <1>6 DEF Reposts
    <2>2. attempt[r] \in 0..MaxAttempts /\ attempt[r] < MaxAttempts
      BY <2>1 DEF CodeIInv, CodeTypeOK, Goes
    <2>3. attempt' \in [Run -> 0..MaxAttempts]
      BY <2>1, <2>2 DEF Configured, CodeIInv, CodeTypeOK
    <2>4. \A q \in Run : pc'[q] = "backoff" => attempt'[q] < MaxAttempts
      BY <2>1 DEF CodeIInv, CodeTypeOK, Goes
    <2>5. CodeTypeOK' /\ OneLoader'
      BY <2>1, <2>3, <2>4 DEF CodeIInv, CodeTypeOK, Stage, Goes, OneLoader, LockIsFree
    <2> QED
      BY <2>1, <2>5, Moving
  <1> QED
    BY <1>2, <1>3, <1>4, <1>5, <1>6 DEF Fails

LEMMA CodeStepIInv == ASSUME Configured PROVE CodeIInv /\ [CodeNext]_codeVars => CodeIInv'
  <1> SUFFICES ASSUME CodeIInv, [CodeNext]_codeVars PROVE CodeIInv'
    OBVIOUS
  <1>1. CASE \E c \in Call : Begins(c) \/ Refuses(c) \/ Gathers(c)
    BY <1>1, CallSteps
  <1>2. CASE \E r \in Run : \/ CallStarts(r) \/ Resolves(r, "looking")
                             \/ Unresolved(r, "looking") \/ Queues(r) \/ Granted(r)
                             \/ Loads(r) \/ LoadFails(r)
    <2> PICK r \in Run : \/ CallStarts(r) \/ Resolves(r, "looking")
                         \/ Unresolved(r, "looking") \/ Queues(r) \/ Granted(r)
                         \/ Loads(r) \/ LoadFails(r)
      BY <1>2
    <2>1. Resolves(r, "looking") \/ Unresolved(r, "looking") => CodeIInv'
      BY ResolveSteps
    <2> QED
      BY <2>1, Starting, LockSteps
  <1>3. CASE \E r \in Run : (\E v \in Verdict : Answered(r, v)) \/ Fails(r) \/ Reposts(r)
                             \/ Garbled(r)
    BY <1>3, PostSteps
  <1>4. CASE (\E l \in Language : Installs(l)) \/ UNCHANGED codeVars
    <2>1. UNCHANGED <<outcome, score, permits, pc, attempt, result, cache>>
      BY <1>4 DEF Installs, codeVars
    <2>2. offered' \in SUBSET Language
      BY <1>4 DEF Installs, codeVars, CodeIInv, CodeTypeOK
    <2>3. CodeTypeOK' /\ OneLoader' /\ ResultWhenDone'
      BY <2>1, <2>2 DEF CodeIInv, CodeTypeOK, OneLoader, LockIsFree, ResultWhenDone
    <2>4. \A c \in Call : Holding(c)' = Holding(c)
      BY <2>1 DEF Holding, RunsOf
    <2>5. PermitsAreExact'
      BY <2>1, <2>4 DEF CodeIInv, PermitsAreExact
    <2>6. ScoresAreFinal'
      BY <2>1, KeepsScores
    <2> QED
      BY <2>3, <2>5, <2>6 DEF CodeIInv
  <1> QED
    BY <1>1, <1>2, <1>3, <1>4 DEF CodeNext

LEMMA Invariance == ASSUME Configured PROVE CodeSpec => []CodeIInv
  <1>1. CodeInit => CodeIInv
    BY CodeInitIInv
  <1>2. CodeIInv /\ [CodeNext]_codeVars => CodeIInv'
    BY CodeStepIInv
  <1> QED
    BY <1>1, <1>2, PTL DEF CodeSpec

-----------------------------------------------------------------------------

(* However runs end, a call's permits and the runs that hold one add up to          *)
(* code_grade_concurrency.                                                       *)
THEOREM PermitsAreExactHolds == ASSUME Configured PROVE CodeSpec => []PermitsAreExact
  <1>1. CodeIInv => PermitsAreExact
    BY DEF CodeIInv
  <1> QED
    BY <1>1, Invariance, PTL

(* The double-checked lock of _load_runtimes: one run at a time asks the server,     *)
(* and none once the cache is filled.                                            *)
THEOREM OneLoaderHolds == ASSUME Configured PROVE CodeSpec => []OneLoader
  <1>1. CodeIInv => OneLoader
    BY DEF CodeIInv
  <1> QED
    BY <1>1, Invariance, PTL

(* A score is never that of a part of the tests, though the runs of a failed call    *)
(* go on: all the runs of a graded call have ended, and the score is what their    *)
(* results give.                                                                *)
THEOREM ScoresAreFinalHold == ASSUME Configured PROVE CodeSpec => []ScoresAreFinal
  <1>1. CodeIInv => ScoresAreFinal
    BY DEF CodeIInv
  <1> QED
    BY <1>1, Invariance, PTL
=============================================================================
