----------------------------- MODULE Timetable -----------------------------
(***************************************************************************)
(* The text format of the timetable: how a text is parsed into courses,    *)
(* and how stored courses are shown as a text to be edited.                *)
(*                                                                         *)
(* A word is [kind, a, b]: "day" a; "time" from a to b, each the number    *)
(* its digits make; "weeks" from a to b, whatever the numbers; "parity" a; *)
(* a bar is a word of kind "bar"; a comment begins with a word of kind     *)
(* "comment"; any other word is a "name".  A phrase, and a line, is a      *)
(* sequence of words, empty for no text.  A text is a sequence of lines.   *)
(***************************************************************************)
EXTENDS Integers, Sequences, FiniteSets, SequencesExt

All == 0
Odd == 1
Even == 2

IsKind(phrase, kind) == Len(phrase) = 1 /\ phrase[1].kind = kind

IsClock(time) == time \div 100 \in 0..23 /\ time % 100 \in 0..59

\* _parse_time: TIME_RANGE_RE matches, both are times of a day, and in order.
IsTime(phrase) ==
    /\ IsKind(phrase, "time")
    /\ IsClock(phrase[1].a) /\ IsClock(phrase[1].b) /\ phrase[1].a < phrase[1].b

\* _parse_weeks: WEEKS_RE matches and the weeks are in order.
IsWeeks(phrase) == IsKind(phrase, "weeks") /\ phrase[1].a >= 1 /\ phrase[1].a <= phrase[1].b

Words(phrase) == [i \in DOMAIN phrase |-> <<phrase[i]>>]

\* What stands between the bars of a line.
Segments(line) ==
    LET bars(i) == Cardinality({j \in 1..i : line[j].kind = "bar"})
        end(n) == Cardinality({i \in DOMAIN line : bars(i) < n})
    IN  [n \in 1..bars(Len(line)) + 1 |->
            SubSeq(line, IF n = 1 THEN 1 ELSE end(n - 1) + 2, end(n))]

\* Without a bar every word is a field; with bars only the words of the first
\* segment, and the others are fields as they are, unless they are empty.
Tokenize(line) ==
    LET filled(segment) == segment # <<>>
    IN  Words(Segments(line)[1]) \o SelectSeq(Tail(Segments(line)), filled)

\* What is left when the last field is of a kind that may be left out.
Stripped(fields, Matches(_)) ==
    IF fields # <<>> /\ Matches(Last(fields)) THEN Front(fields) ELSE fields

IsParity(phrase) == IsKind(phrase, "parity")
LooksLikeWeeks(phrase) == IsKind(phrase, "weeks")

NoSession == [weekday |-> 0]

\* " ".join of fields.
Joined(fields) == FlattenSeq(fields)

ParseLine(tokens, total) ==
    LET rest == SubSeq(tokens, 3, Len(tokens))
        named == Stripped(rest, IsParity)
        placed == Stripped(named, IsWeeks)
    IN  IF /\ Len(tokens) > 2 /\ IsKind(tokens[1], "day") /\ IsTime(tokens[2])
           /\ placed # <<>>
        THEN [weekday |-> tokens[1][1].a,
              start |-> tokens[2][1].a, end |-> tokens[2][1].b,
              parity |-> IF named = rest THEN All ELSE Last(rest)[1].a,
              first |-> IF placed = named THEN 1 ELSE Last(named)[1].a,
              last |-> IF placed = named THEN total ELSE Last(named)[1].b,
              location |-> Joined(Tail(placed))]
        ELSE NoSession

\* The rules of ParseLine once more, but for weeks that are not in order.
CourseName(tokens) ==
    LET rest == Stripped(Stripped(SubSeq(tokens, 3, Len(tokens)), IsParity), LooksLikeWeeks)
    IN  IF rest = <<>> THEN <<>> ELSE rest[1]

IsBlank(line) == line = <<>>

IsComment(line) == line[1].kind = "comment"

IsContent(line) == ~IsBlank(line) /\ ~IsComment(line)

LineFails(line, total) ==
    \/ ParseLine(Tokenize(line), total) = NoSession
    \/ CourseName(Tokenize(line)) = <<>>

Fails(text, total) == \E i \in DOMAIN text : IsContent(text[i]) /\ LineFails(text[i], total)

\* Faulty: a later line replaces what the earlier ones gave.
WithLastSession(courses, name, session) ==
    LET same == {i \in DOMAIN courses : courses[i].name = name} IN
    IF same = {}
    THEN Append(courses, [name |-> name, location |-> session.location, sessions |-> <<session>>])
    ELSE [courses EXCEPT ![CHOOSE i \in same : TRUE].sessions = <<session>>]

\* A course is opened by its first line; a later line adds its session, and
\* its location if the course has none.
WithSession(courses, name, session) ==
    LET same == {i \in DOMAIN courses : courses[i].name = name} IN
    IF same = {}
    THEN Append(courses, [name |-> name, location |-> session.location, sessions |-> <<session>>])
    ELSE LET i == CHOOSE i \in same : TRUE IN
         [courses EXCEPT ![i].sessions = Append(@, session),
                         ![i].location = IF @ = <<>> THEN session.location ELSE @]

\* A blank line or a comment adds nothing.
WithLine(courses, line, total) ==
    IF ~IsContent(line) THEN courses
    ELSE WithSession(courses, CourseName(Tokenize(line)), ParseLine(Tokenize(line), total))

\* The courses of a text none of whose lines fails.
Parse(text, total) ==
    LET add(courses, line) == WithLine(courses, line, total)
    IN  FoldLeft(add, <<>>, text)

-----------------------------------------------------------------------------
Word(kind, a, b) == [kind |-> kind, a |-> a, b |-> b]

\* The location shown for a session is its own, or that of its course.
PlaceOf(course, session) ==
    IF session.location # <<>> THEN session.location ELSE course.location

\* Faulty: the parity is not shown.
LineOfNoParity(course, session) ==
    <<Word("day", session.weekday, 0), Word("time", session.start, session.end)>>
      \o course.name \o PlaceOf(course, session)
      \o <<Word("weeks", session.first, session.last)>>

\* One line, without a bar but those of the name and the location.
LineOf(course, session) ==
    <<Word("day", session.weekday, 0), Word("time", session.start, session.end)>>
      \o course.name \o PlaceOf(course, session)
      \o <<Word("weeks", session.first, session.last)>>
      \o IF session.parity = All THEN <<>> ELSE <<Word("parity", session.parity, 0)>>

\* One line for every session, of the courses in their order; sessions[i] are
\* those of the i-th course in the order shown.
Format(courses, sessions) ==
    FlattenSeq([i \in DOMAIN courses |->
        [j \in DOMAIN sessions[i] |-> LineOf(courses[i], sessions[i][j])]])
=============================================================================
