------------------------------ MODULE Courses ------------------------------
(***************************************************************************)
(* The timetable in the database, which PUT /api/courses replaces as a     *)
(* whole in one transaction, and which GET, and PUT for its answer, reads  *)
(* with four SELECTs outside of any: the courses, the sessions, and the    *)
(* two counts.  The page puts back the text of an earlier answer.          *)
(*                                                                         *)
(* The ids of courses begin at 1 again after each replacement: a course is *)
(* its position.                                                           *)
(***************************************************************************)
EXTENDS Timetable

CONSTANTS
    Req,         \* the requests of a behaviour, each served once
    Put,         \* the bodies clients send
    TotalWeeks,  \* [term] total_weeks
    NotRead,     \* a part of the answer that has not been read
    NoPut        \* the body of a GET

ASSUME TotalWeeksIsPositive == TotalWeeks \in Nat \ {0}

Token == [kind : {"day", "time", "weeks", "parity", "comment", "name", "bar"},
          a : Int, b : Int]
Phrase == Seq(Token)
Lesson == [weekday : 1..7, start : 0..9999, end : 0..9999, parity : {All, Odd, Even},
           first : 1..30, last : 1..30, location : Phrase]

\* A text, an array of courses with their sessions, or what is neither.
Form == [form : {"text"}, text : Seq(Phrase)]
          \cup [form : {"courses"},
                courses : Seq([name : Phrase, location : Phrase, sessions : Seq(Lesson)])]
          \cup [form : {"neither"}]

ASSUME PutsHaveForm == Put \subseteq Form
ASSUME NoPutIsNone == NoPut \notin Put

VARIABLES
    courses,   \* the rows of courses, in the order of sort_order
    sessions,  \* the rows of course_sessions, in the order of their ids
    pc,        \* what each request does next
    put,       \* what each request puts
    answer,    \* what each request has read for its answer
    quiet      \* the requests that have begun to read, without a PUT since

vars == <<courses, sessions, pc, put, answer, quiet>>

Unread == [courses |-> NotRead, sessions |-> NotRead, courseCount |-> NotRead,
           sessionCount |-> NotRead, saved |-> NotRead]

Init ==
    /\ courses = <<>> /\ sessions = <<>>
    /\ pc = [r \in Req |-> "idle"]
    /\ put = [r \in Req |-> NoPut]
    /\ answer = [r \in Req |-> Unread]
    /\ quiet = {}

-----------------------------------------------------------------------------
(* What is stored and what is shown.                                       *)

CourseRows(parsed) ==
    [i \in DOMAIN parsed |-> [name |-> parsed[i].name, location |-> parsed[i].location]]

\* Faulty: the sessions of the courses that go are not deleted.
SessionRowsBesideOld(parsed) ==
    sessions \o FlattenSeq([i \in DOMAIN parsed |-> [j \in DOMAIN parsed[i].sessions |->
                    [course |-> i, session |-> parsed[i].sessions[j]]]])

SessionRows(parsed) ==
    FlattenSeq([i \in DOMAIN parsed |-> [j \in DOMAIN parsed[i].sessions |->
                    [course |-> i, session |-> parsed[i].sessions[j]]]])

Earlier(x, y) ==
    \/ x.session.weekday < y.session.weekday
    \/ x.session.weekday = y.session.weekday /\ x.session.start < y.session.start

\* sessions_by_course: ORDER BY weekday, start_time, and what is equal in them
\* as it was inserted; grouped.
OfCourse(rows, i) ==
    LET own == {j \in DOMAIN rows : rows[j].course = i}
        before(j, k) == \/ Earlier(rows[j], rows[k])
                        \/ ~Earlier(rows[k], rows[j]) /\ j < k
        place(j) == Cardinality({k \in own : before(k, j)}) + 1
    IN  [n \in 1..Cardinality(own) |-> rows[CHOOSE j \in own : place(j) = n].session]

\* The text of an answer.
TextOf(a) == Format(a.courses, [i \in DOMAIN a.courses |-> OfCourse(a.sessions, i)])

Answered(r) == pc[r] = "done" /\ answer[r].sessionCount # NotRead

\* The body with which the page saves what it was shown.
PutBack(r) == [form |-> "text", text |-> TextOf(answer[r])]

-----------------------------------------------------------------------------
(* The handlers.                                                           *)

Parsed(p) == IF p.form = "text" THEN Parse(p.text, TotalWeeks) ELSE p.courses

\* An empty array, or a text of nothing but white space.
Clears(p) == IF p.form = "text" THEN \A i \in DOMAIN p.text : IsBlank(p.text[i])
             ELSE p.courses = <<>>

\* 422: neither form, a line that cannot be parsed, or nothing parsed from
\* what is no order to clear.
Rejected(p) ==
    CASE p.form = "neither" -> TRUE
      [] p.form = "text" /\ Fails(p.text, TotalWeeks) -> TRUE
      [] OTHER -> Parsed(p) = <<>> /\ ~Clears(p)

Sendable == Put \cup {PutBack(r) : r \in {q \in Req : Answered(q)}}

PutRejected(r) ==
    /\ pc[r] = "idle"
    /\ \E p \in Sendable : Rejected(p) /\ put' = [put EXCEPT ![r] = p]
    /\ pc' = [pc EXCEPT ![r] = "done"]
    /\ UNCHANGED <<courses, sessions, answer, quiet>>

\* replace_all: DELETE, INSERT each course and its sessions, COMMIT.
PutReplaces(r) ==
    /\ pc[r] = "idle"
    /\ \E p \in Sendable :
          /\ ~Rejected(p)
          /\ put' = [put EXCEPT ![r] = p]
          /\ courses' = CourseRows(Parsed(p))
          /\ sessions' = SessionRows(Parsed(p))
          /\ answer' = [answer EXCEPT ![r].saved = <<Len(courses'), Len(SessionRows(Parsed(p)))>>]
    /\ pc' = [pc EXCEPT ![r] = "courses"]
    /\ quiet' = {}

\* The transaction fails, and is rolled back; 500.
PutFails(r) ==
    /\ pc[r] = "idle"
    /\ \E p \in Sendable : ~Rejected(p) /\ put' = [put EXCEPT ![r] = p]
    /\ pc' = [pc EXCEPT ![r] = "done"]
    /\ UNCHANGED <<courses, sessions, answer, quiet>>

Reads(r, from, to, field, value) ==
    /\ pc[r] = from
    /\ pc' = [pc EXCEPT ![r] = to]
    /\ answer' = [answer EXCEPT ![r][field] = value]
    /\ UNCHANGED <<courses, sessions, put>>

\* load_courses; a GET begins with it.
ReadCourses(r) ==
    /\ Reads(r, IF pc[r] = "idle" THEN "idle" ELSE "courses", "sessions", "courses", courses)
    /\ quiet' = quiet \cup {r}

ReadSessions(r) ==
    Reads(r, "sessions", "courseCount", "sessions", sessions) /\ UNCHANGED quiet

CountCourses(r) ==
    Reads(r, "courseCount", "sessionCount", "courseCount", Len(courses)) /\ UNCHANGED quiet

CountSessions(r) ==
    Reads(r, "sessionCount", "done", "sessionCount", Len(sessions)) /\ UNCHANGED quiet

Next == \E r \in Req : \/ PutRejected(r) \/ PutReplaces(r) \/ PutFails(r)
                       \/ ReadCourses(r) \/ ReadSessions(r)
                       \/ CountCourses(r) \/ CountSessions(r)

Spec == Init /\ [][Next]_vars

-----------------------------------------------------------------------------
(* Properties.                                                             *)

TypeOK ==
    /\ \A i \in DOMAIN courses : DOMAIN courses[i] = {"name", "location"}
    /\ \A j \in DOMAIN sessions : DOMAIN sessions[j] = {"course", "session"}
    /\ pc \in [Req -> {"idle", "courses", "sessions", "courseCount", "sessionCount", "done"}]
    /\ quiet \subseteq Req

\* The types; and an answer that no PUT overlapped is one timetable: it counts
\* what it lists, no session is without its course, and so it is in the
\* table, where a replacement leaves nothing of what it replaced.
AnswersAddUp ==
    /\ TypeOK
    /\ \A j \in DOMAIN sessions : sessions[j].course \in DOMAIN courses
    /\ \A r \in quiet : Answered(r) =>
          /\ answer[r].courseCount = Len(answer[r].courses)
          /\ answer[r].sessionCount = Len(answer[r].sessions)
          /\ \A j \in DOMAIN answer[r].sessions :
                answer[r].sessions[j].course \in DOMAIN answer[r].courses

ContentLines(p) == {i \in DOMAIN p.text : IsContent(p.text[i])}

NameOf(line) == CourseName(Tokenize(line))

SessionsOf(i) == {j \in DOMAIN sessions : sessions[j].course = i}

\* The courses a body asks for, told without parsing it as the code does: those
\* of an array with as many sessions; of a text one for every name, with a
\* session for every line of that name.
SavedWhole(p) ==
    IF p.form = "courses"
    THEN /\ Len(courses') = Len(p.courses)
         /\ \A i \in DOMAIN courses' :
               Cardinality(SessionsOf(i)') = Len(p.courses[i].sessions)
    ELSE /\ {courses'[i].name : i \in DOMAIN courses'} = {NameOf(p.text[n]) : n \in ContentLines(p)}
         /\ \A i \in DOMAIN courses' :
               Cardinality({n \in ContentLines(p) : NameOf(p.text[n]) = courses'[i].name})
                 = Cardinality(SessionsOf(i)')

\* A timetable never loses a lesson silently: a PUT that changes it stores a
\* session for every line it was sent, and leaves it empty only if what was
\* sent is empty; a comment is not.
PutIsWhole ==
    [][\A r \in Req : put'[r] # put[r] /\ <<courses, sessions>>' # <<courses, sessions>> =>
          /\ SavedWhole(put'[r])
          /\ courses' = <<>> => put'[r] \in {[form |-> "courses", courses |-> <<>>]} \/
                                \A i \in DOMAIN put'[r].text : IsBlank(put'[r].text[i])]_vars

\* What a user sees of the table: the courses in order, and for each session
\* when and where it is.
Seen(rows, lessons) ==
    [i \in DOMAIN rows |->
        [name |-> rows[i].name,
         lessons |-> LET own == OfCourse(lessons, i) IN
                     [j \in DOMAIN own |-> [own[j] EXCEPT !.location = PlaceOf(rows[i], own[j])]]]]

HasBar(phrase) == \E i \in DOMAIN phrase : phrase[i].kind = "bar"

\* A table that a text can tell: the name of a course is one word and its
\* own, it has sessions, their hours and weeks are in order, no name or
\* location has a bar in it, and where one session has a location and the
\* course has none, all have.  A table parsed from lines whose names have no
\* blanks is one; one put as an array need not be.
Tellable ==
    /\ \A i \in DOMAIN courses :
          LET located == {j \in SessionsOf(i) : sessions[j].session.location # <<>>}
          IN  /\ Len(courses[i].name) = 1 /\ SessionsOf(i) # {}
              /\ ~HasBar(courses[i].name) /\ ~HasBar(courses[i].location)
              /\ courses[i].location # <<>> \/ located \in {{}, SessionsOf(i)}
              /\ \A j \in DOMAIN courses : courses[i].name = courses[j].name => i = j
    /\ \A j \in DOMAIN sessions : /\ sessions[j].session.start < sessions[j].session.end
                                  /\ sessions[j].session.first <= sessions[j].session.last
                                  /\ ~HasBar(sessions[j].session.location)

PutsBack(r) == Answered(r) /\ \E q \in Req : put[q] = NoPut /\ put'[q] = PutBack(r)

\* Saving the page without a change changes nothing that is seen, if nobody
\* else replaced the timetable since its text was read.
SavedBackChangesNothing ==
    [][\A r \in quiet : PutsBack(r) /\ Tellable =>
          Seen(courses', sessions') = Seen(courses, sessions)]_vars

\* The same of any table, as the documentation has it.  The code does not
\* satisfy it: a name or location of an array may have a bar.
TextCanBePutBack ==
    [][\A r \in quiet : PutsBack(r) => Seen(courses', sessions') = Seen(courses, sessions)]_vars
=============================================================================
