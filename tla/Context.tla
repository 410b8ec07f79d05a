------------------------------ MODULE Context ------------------------------
(***************************************************************************)
(* The time context of an ingestion: which week of the term it is, which   *)
(* lessons are on, over, or to come, in the zone of the configuration.     *)
(*                                                                         *)
(* A moment is a day, counted from the first day of the term, and a minute *)
(* of it (the seconds of a now are left out).  `monday' is the weekday,    *)
(* 1..7, the term's start_date falls on: 1, if the configuration says what *)
(* it should.  A session is a row of flat_sessions; hours that no clock    *)
(* shows ("99:99") are a start of -1.                                      *)
(***************************************************************************)
EXTENDS Integers, Sequences, FiniteSets

UpcomingWindow == 60
JustEndedWindow == 60

\* 0 for a day that is not in the term.
WeekOf(day, totalWeeks) ==
    LET week == day \div 7 + 1 IN IF day < 0 \/ week > totalWeeks THEN 0 ELSE week

\* Faulty: the parity is that of the first week.
SessionAppliesByStart(s, week) ==
    /\ week > 0 /\ s.first <= week /\ week <= s.last
    /\ s.parity = "odd" => s.first % 2 = 1
    /\ s.parity = "even" => s.first % 2 = 0

SessionApplies(s, week) ==
    /\ week > 0 /\ s.first <= week /\ week <= s.last
    /\ s.parity = "odd" => week % 2 = 1
    /\ s.parity = "even" => week % 2 = 0

\* local.weekday() + 1.
Today(monday, day) == ((monday - 1 + day) % 7) + 1

\* Where a session of today stands: start and end belong to it, and so do the
\* ends of the two windows.
StandingOf(s, minute) ==
    CASE s.start <= minute /\ minute <= s.end -> "current"
      [] minute < s.start /\ s.start - minute <= UpcomingWindow -> "upcoming"
      [] minute < s.start /\ s.start - minute > UpcomingWindow -> "later"
      [] OTHER -> IF minute - s.end <= JustEndedWindow THEN "just ended" ELSE "over"

\* _at: replace(hour=99) raises a ValueError.
HasNoHour(s) == s.start < 0

\* _course_lines: what is said of each session, or that it raises.  The lines
\* are the sessions with one saying.
CourseLines(monday, day, minute, totalWeeks, sessions) ==
    LET week == WeekOf(day, totalWeeks)
        today == Today(monday, day)
        todays == {s \in sessions : s.weekday = today /\ SessionApplies(s, week)}
        rest == {s \in sessions : s.weekday > today /\ SessionApplies(s, week)}
    IN  [failed |-> \E s \in todays : HasNoHour(s),
         said |-> {<<s, StandingOf(s, minute)>> : s \in {t \in todays : StandingOf(t, minute) # "over"}}
                  \cup {<<s, "this week">> : s \in rest}]
=============================================================================
