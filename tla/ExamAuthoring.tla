----------------------------- MODULE ExamAuthoring -----------------------------
(***************************************************************************)
(* Authoring of one exam by HR: the exam-wide routes of data_gateway        *)
(* routers/hr_exams.py (multiple choice) and hr_coding.py (coding), the     *)
(* round, section and section-scoped routes of hr_rounds.py, and the        *)
(* candidates whose attempts lock what has been authored.                   *)
(*                                                                         *)
(* A request reads and checks in one step and commits in another, because   *)
(* no route locks what it has checked: READ COMMITTED lets other requests   *)
(* commit in between.  An update is addressed by primary key and may hit a  *)
(* row that was soft-deleted in the meantime; since nothing reads such a    *)
(* row again, all that is kept of it is that it is deleted (and, for the    *)
(* questions that outlive it, the kind of a section).                       *)
(*                                                                         *)
(* Titles, prompts, limits and thresholds are left out: an edit of a        *)
(* question is a change of its content, which has two values.               *)
(***************************************************************************)
EXTENDS Integers, FiniteSets

CONSTANTS
    Request,        \* HTTP requests that may be in flight at the same time
    ExamKind,       \* exams.kind
    MaxRounds,      \* bound: rounds ever created
    MaxSections,    \* bound: sections ever created
    MaxQuestions,   \* bound: questions ever created
    MaxRequests     \* bound: requests ever made

Kind == {"mcq", "coding"}

ASSUME KindAssumption == ExamKind \in Kind
ASSUME BoundsAssumption == /\ MaxRounds \in Nat \ {0}
                           /\ MaxSections \in Nat \ {0}
                           /\ MaxQuestions \in Nat \ {0}
                           /\ MaxRequests \in Nat \ {0}

VARIABLES
    exam,       \* exams.status
    round,      \* exam_rounds, by order of creation
    section,    \* exam_sections
    question,   \* exam_questions and coding_questions
    attempted,  \* rounds on which an attempt exists
    req,        \* what each request remembers
    served      \* requests made so far

vars == <<exam, round, section, question, attempted, req, served>>

Round == 1..MaxRounds
Section == 1..MaxSections
Question == 1..MaxQuestions
Row == {"none", "live", "deleted"}

ExamStatus == {"draft", "published", "closed"}
RoundRow == [row : Row, status : {"draft", "published"}, number : 0..MaxRounds]
SectionRow == [row : Row, round : 0..MaxRounds, kind : Kind, position : 0..MaxSections]
QuestionRow == [row : Row, section : 0..MaxSections, position : 0..MaxQuestions,
                content : 0..1]

Op == {"idle", "publish", "create round", "publish round", "delete round",
       "reorder rounds", "create section", "delete section", "add", "edit", "drop",
       "reorder", "start"}

\* pos: the number the request has computed, or the round a section is deleted through.
\* late: rounds whose first attempt began after the request had made its checks.
Memory == [op : Op, on : Nat, rows : SUBSET Nat, pos : Nat, late : SUBSET Round]
Idle == [op |-> "idle", on |-> 0, rows |-> {}, pos |-> 0, late |-> {}]

TypeOK ==
    /\ exam \in ExamStatus
    /\ round \in [Round -> RoundRow]
    /\ section \in [Section -> SectionRow]
    /\ question \in [Question -> QuestionRow]
    /\ attempted \subseteq Round
    /\ \A r \in Request : /\ DOMAIN req[r] = DOMAIN Idle
                          /\ req[r].on \in Nat
                          /\ req[r].late \subseteq Round
    /\ served \in 0..MaxRequests

\* create_exam: the exam comes with one round and one section of its kind.
Init ==
    /\ exam = "draft"
    /\ round = [r \in Round |-> [row |-> IF r = 1 THEN "live" ELSE "none",
                                 status |-> "draft", number |-> IF r = 1 THEN 1 ELSE 0]]
    /\ section = [s \in Section |-> [row |-> IF s = 1 THEN "live" ELSE "none",
                                     round |-> IF s = 1 THEN 1 ELSE 0,
                                     kind |-> ExamKind,
                                     position |-> IF s = 1 THEN 1 ELSE 0]]
    /\ question = [q \in Question |-> [row |-> "none", section |-> 0, position |-> 0,
                                       content |-> 0]]
    /\ attempted = {}
    /\ req = [r \in Request |-> Idle]
    /\ served = 0

Live(table) == {i \in DOMAIN table : table[i].row = "live"}
SectionsOf(rd) == {s \in Live(section) : section[s].round = rd}
QuestionsOf(s) == {q \in Live(question) : question[q].section = s}
KindOf(q) == section[question[q].section].kind

\* The questions of one kind in the exam, whatever became of their sections.
OfKind(k) == {q \in Live(question) : KindOf(q) = k}

\* max(...) + 1, or the first value in an empty table.
Next1(values, first) ==
    IF values = {} THEN first ELSE 1 + CHOOSE m \in values : \A v \in values : v <= m

\* The next unused row of a table.
Fresh(table, i) == /\ table[i].row = "none"
                   /\ \A j \in DOMAIN table : j < i => table[j].row # "none"

\* Mutant: the partial unique indexes are missing.
OrderlyAlways(rounds, sections, questions) == TRUE

\* The partial unique indexes on live rows.
Orderly(rounds, sections, questions) ==
    /\ \A i, j \in Live(rounds) : i # j => rounds[i].number # rounds[j].number
    /\ \A i, j \in Live(sections) :
         i # j /\ sections[i].round = sections[j].round
           => sections[i].position # sections[j].position
    /\ \A i, j \in Live(questions) :
         /\ i # j /\ questions[i].section = questions[j].section
         => questions[i].position # questions[j].position

Arrives == served < MaxRequests /\ served' = served + 1

Starts(r, op, on, rows, pos) ==
    /\ req[r] = Idle /\ Arrives
    /\ req' = [req EXCEPT ![r] = [op |-> op, on |-> on, rows |-> rows, pos |-> pos,
                                  late |-> {}]]
    /\ UNCHANGED <<exam, round, section, question, attempted>>

Reply(r) == req' = [req EXCEPT ![r] = Idle] /\ UNCHANGED served

\* An insert or update that violates an index is rolled back with its transaction.
Writes(r, rounds, sections, questions) ==
    /\ IF Orderly(rounds, sections, questions)
       THEN round' = rounds /\ section' = sections /\ question' = questions
       ELSE UNCHANGED <<round, section, question>>
    /\ Reply(r)
    /\ UNCHANGED attempted

\* deleted_at = now
DeleteRounds(rows) ==
    [i \in Round |-> IF i \in rows THEN [row |-> "deleted", status |-> "draft", number |-> 0]
                     ELSE round[i]]
DeleteSections(rows) ==
    [i \in Section |-> IF i \in rows
                       THEN [section[i] EXCEPT !.row = "deleted", !.round = 0, !.position = 0]
                       ELSE section[i]]
DeleteQuestions(rows) ==
    [i \in Question |-> IF i \in rows
                        THEN [question[i] EXCEPT !.row = "deleted", !.position = 0, !.content = 0]
                        ELSE question[i]]

Positions(rows) == {f \in [rows -> 0..Cardinality(rows) - 1] :
                      \A i, j \in rows : i # j => f[i] # f[j]}

\* Mutant: the round is not checked for attempts.
UnlockedAlways(rd) == TRUE

\* _require_no_round_attempts
Unlocked(rd) == rd \notin attempted

\* _require_no_attempts
ExamUnlocked(e) == attempted = {}

-----------------------------------------------------------------------------
(* The exam.                                                                *)

\* A column is written only when its value differs from the one that was loaded:
\* pos is 1 when exams.status has to change.
PublishExamReads(r) ==
    /\ OfKind(ExamKind) # {}
    /\ Starts(r, "publish", 0, {}, IF exam = "published" THEN 0 ELSE 1)

PublishExamCommits(r) ==
    /\ req[r].op = "publish"
    /\ exam' = IF req[r].pos = 1 THEN "published" ELSE exam
    /\ Reply(r)
    /\ UNCHANGED <<round, section, question, attempted>>

\* Nothing is checked: the request is one step.
WithdrawExam ==
    /\ Arrives
    /\ exam' \in {"draft", "closed"}
    /\ UNCHANGED <<round, section, question, attempted, req>>

-----------------------------------------------------------------------------
(* Rounds.                                                                  *)

CreateRoundReads(r) ==
    Starts(r, "create round", 0, {}, Next1({round[i].number : i \in Live(round)}, 1))

CreateRoundCommits(r) ==
    /\ req[r].op = "create round"
    /\ \E i \in Round :
         /\ Fresh(round, i)
         /\ Writes(r, [round EXCEPT ![i] = [row |-> "live", status |-> "draft",
                                            number |-> req[r].pos]], section, question)
    /\ UNCHANGED exam

\* The first round to be published publishes the exam.
PublishRoundReads(r, rd) ==
    /\ rd \in Live(round)
    /\ \E s \in SectionsOf(rd) : QuestionsOf(s) # {}
    /\ Starts(r, "publish round", rd, {rd} \ {i \in Round : round[i].status = "published"},
              IF exam = "published" THEN 0 ELSE 1)

WithStatus(rows, to) == [i \in Round |-> IF i \in rows \cap Live(round)
                                         THEN [round[i] EXCEPT !.status = to]
                                         ELSE round[i]]

PublishRoundCommits(r) ==
    /\ req[r].op = "publish round"
    /\ round' = WithStatus(req[r].rows, "published")
    /\ exam' = IF req[r].pos = 1 THEN "published" ELSE exam
    /\ Reply(r)
    /\ UNCHANGED <<section, question, attempted>>

UnpublishRound(rd) ==
    /\ Arrives
    /\ rd \in Live(round)
    /\ round' = WithStatus({rd}, "draft")
    /\ UNCHANGED <<exam, section, question, attempted, req>>

DeleteRoundReads(r, rd) ==
    /\ rd \in Live(round) /\ Unlocked(rd)
    /\ Cardinality(Live(round)) > 1
    /\ Starts(r, "delete round", rd, SectionsOf(rd), 0)

\* The cascade stops at the sections.
DeleteRoundCommits(r) ==
    /\ req[r].op = "delete round"
    /\ Writes(r, DeleteRounds({req[r].on}), DeleteSections(req[r].rows), question)
    /\ UNCHANGED exam

ReorderRoundsReads(r) == Starts(r, "reorder rounds", 0, Live(round), 0)

\* The numbers are parked at 10000 first, so only rows outside the list can clash.
ReorderRoundsCommits(r) ==
    /\ req[r].op = "reorder rounds"
    /\ \E f \in Positions(req[r].rows) :
         Writes(r, [i \in Round |-> IF i \in req[r].rows \cap Live(round)
                                    THEN [round[i] EXCEPT !.number = f[i] + 1]
                                    ELSE round[i]], section, question)
    /\ UNCHANGED exam

-----------------------------------------------------------------------------
(* Sections.                                                                *)

CreateSectionReads(r, rd) ==
    /\ rd \in Live(round) /\ Unlocked(rd)
    /\ Starts(r, "create section", rd, {},
              Next1({section[s].position : s \in SectionsOf(rd)}, 1))

\* The round may have been soft-deleted since: the foreign key does not see it.
CreateSectionCommits(r) ==
    /\ req[r].op = "create section"
    /\ \E s \in Section, k \in Kind :
         /\ Fresh(section, s)
         /\ Writes(r, round, [section EXCEPT ![s] =
                     [row |-> "live", round |-> req[r].on, kind |-> k,
                      position |-> req[r].pos]], question)
    /\ UNCHANGED exam

\* The round of the URL is found and checked, and the section is found in the exam: that
\* it is a section of that round is not asked.
DeleteSectionReads(r, rd, s) ==
    /\ rd \in Live(round) /\ Unlocked(rd)
    /\ s \in Live(section)
    /\ Starts(r, "delete section", s, QuestionsOf(s), rd)

DeleteSectionCommits(r) ==
    /\ req[r].op = "delete section"
    /\ Writes(r, round, DeleteSections({req[r].on}), DeleteQuestions(req[r].rows))
    /\ UNCHANGED exam

-----------------------------------------------------------------------------
(* Questions.                                                               *)

\* Multiple-choice routes serve every exam, coding routes only coding exams.
ExamWideKinds == {"mcq", ExamKind}

DefaultSections(k) ==
    LET ofKind == {s \in Live(section) : section[s].kind = k}
    IN {s \in ofKind : \A t \in ofKind : section[s].position <= section[t].position}

SectionTargets == {s \in Live(section) : Unlocked(section[s].round)}

ExamWideTargets ==
    IF ExamUnlocked(0) THEN UNION {DefaultSections(k) : k \in ExamWideKinds} ELSE {}

AddReads(r, s) ==
    /\ s \in SectionTargets \cup ExamWideTargets
    /\ Starts(r, "add", s, {}, Next1({question[q].position : q \in QuestionsOf(s)}, 0))

\* One question or, for multiple choice, a reviewed list or an imported file.
AddCommits(r) ==
    /\ req[r].op = "add"
    /\ \E n \in 1..MaxQuestions, q \in Question :
         /\ Fresh(question, q) /\ q + n - 1 <= MaxQuestions
         /\ n > 1 => section[req[r].on].kind = "mcq"
         /\ Writes(r, round, section, [i \in Question |->
              IF i \in q..(q + n - 1)
              THEN [row |-> "live", section |-> req[r].on,
                    position |-> req[r].pos + (i - q), content |-> 0]
              ELSE question[i]])
    /\ UNCHANGED exam

EditReads(r, q) ==
    /\ q \in Live(question) /\ KindOf(q) \in ExamWideKinds /\ ExamUnlocked(0)
    /\ Starts(r, "edit", q, {}, 0)

EditCommits(r) ==
    /\ req[r].op = "edit"
    /\ Writes(r, round, section,
              [i \in Question |-> IF i \in {req[r].on} \cap Live(question)
                                  THEN [question[i] EXCEPT !.content = 1 - @]
                                  ELSE question[i]])
    /\ UNCHANGED exam

\* The exam-wide routes keep one question of a published exam, the section routes do not.
DroppableExamWide(q) ==
    /\ KindOf(q) \in ExamWideKinds /\ ExamUnlocked(0)
    /\ ~(exam = "published" /\ Cardinality(OfKind(KindOf(q))) <= 1)

DropReads(r, q) ==
    /\ q \in Live(question)
    /\ DroppableExamWide(q) \/ question[q].section \in SectionTargets
    /\ Starts(r, "drop", q, {}, 0)

DropCommits(r) ==
    /\ req[r].op = "drop"
    /\ Writes(r, round, section, DeleteQuestions({req[r].on}))
    /\ UNCHANGED exam

ReorderReads(r) == /\ ExamUnlocked(0) /\ OfKind("mcq") # {}
                   /\ Starts(r, "reorder", 0, OfKind("mcq"), 0)

\* The list runs over all sections of the exam, the index over one of them.
ReorderCommits(r) ==
    /\ req[r].op = "reorder"
    /\ \E f \in Positions(req[r].rows) :
         Writes(r, round, section,
                [i \in Question |-> IF i \in req[r].rows \cap Live(question)
                                    THEN [question[i] EXCEPT !.position = f[i]]
                                    ELSE question[i]])
    /\ UNCHANGED exam

-----------------------------------------------------------------------------
(* A candidate whose link names the round.                                  *)

StartReads(r, rd) ==
    /\ rd \in Live(round) /\ round[rd].status = "published" /\ exam # "closed"
    /\ Starts(r, "start", rd, {}, 0)

\* The first attempt on a round; later ones change nothing here.
StartCommits(r) ==
    LET new == {req[r].on} \ attempted
    IN /\ req[r].op = "start"
       /\ attempted' = attempted \cup new
       /\ req' = [q \in Request |->
                    IF q = r \/ req[q] = Idle THEN Idle
                    ELSE [req[q] EXCEPT !.late = @ \cup new]]
       /\ UNCHANGED <<exam, round, section, question, served>>

-----------------------------------------------------------------------------

Next ==
    \/ WithdrawExam
    \/ \E rd \in Round : UnpublishRound(rd)
    \/ \E r \in Request :
      \/ PublishExamReads(r) \/ PublishExamCommits(r)
      \/ CreateRoundReads(r) \/ CreateRoundCommits(r)
      \/ ReorderRoundsReads(r) \/ ReorderRoundsCommits(r)
      \/ \E rd \in Round : \/ PublishRoundReads(r, rd) \/ DeleteRoundReads(r, rd)
                           \/ CreateSectionReads(r, rd) \/ StartReads(r, rd)
                           \/ \E s \in Section : DeleteSectionReads(r, rd, s)
      \/ PublishRoundCommits(r) \/ DeleteRoundCommits(r)
      \/ CreateSectionCommits(r) \/ DeleteSectionCommits(r)
      \/ \E s \in Section : AddReads(r, s)
      \/ AddCommits(r)
      \/ \E q \in Question : EditReads(r, q) \/ DropReads(r, q)
      \/ EditCommits(r) \/ DropCommits(r)
      \/ ReorderReads(r) \/ ReorderCommits(r)
      \/ StartCommits(r)

Spec == Init /\ [][Next]_vars

-----------------------------------------------------------------------------

\* What a candidate of the round is shown and graded on.
Paper(rd) ==
    UNION {{<<s, section[s].position, q, question[q].position, question[q].content>> :
              q \in QuestionsOf(s)} : s \in SectionsOf(rd)}

(* However many editors race for max(position) + 1 or reorder at once, two   *)
(* live rounds never share a number and two live questions of a section     *)
(* never share a position.                                                  *)
OrderIsStrict ==
    /\ Cardinality({round[i].number : i \in Live(round)}) = Cardinality(Live(round))
    /\ \A rd \in Live(round) :
         Cardinality({section[s].position : s \in SectionsOf(rd)}) = Cardinality(SectionsOf(rd))
    /\ \A s \in Section :
         Cardinality({question[q].position : q \in QuestionsOf(s)}) = Cardinality(QuestionsOf(s))

(* A deletion of a section of the round through the URL of another one.      *)
Misaddressed(m, rd) ==
    m.op = "delete section" /\ m.pos # rd /\ section[m.on].round = rd

(* Once a round has an attempt its paper changes no more, except through a   *)
(* request that had passed its checks before the first attempt began (the   *)
(* lock check and the edit are separate statements), and through a deletion  *)
(* of a section by the URL of an unlocked round (delete_section checks the   *)
(* round of the URL, not that of the section).                               *)
AttemptsFreezeThePaper ==
    [][\A rd \in attempted :
         \/ Paper(rd)' = Paper(rd)
         \/ \E r \in Request :
              req'[r] = Idle /\ (rd \in req[r].late \/ Misaddressed(req[r], rd))]_vars

(* "A round's structure/questions are immutable once any attempt exists on   *)
(* it" (hr_rounds.py:169).                                                   *)
PapersAreImmutable == [][\A rd \in attempted : Paper(rd)' = Paper(rd)]_vars

(* "Cascade soft-delete the section's questions so they don't linger as live *)
(* rows" (hr_rounds.py:557): a live question is in a live section.          *)
NothingLingers == \A q \in Live(question) : question[q].section \in Live(section)
=============================================================================
