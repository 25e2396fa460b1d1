------------------------------ MODULE TimeWindow ------------------------------
(***************************************************************************)
(* The probing schedule (internal/probe/window.go, and how its store reads *)
(* a list of days).  A window has a set of days (0 is Sunday), a start and *)
(* an end.                                                                 *)
(*                                                                         *)
(* Clock values are text that is compared as text.  A clock is the minute  *)
(* of the day that it names (at), and whether it is written with a sign or *)
(* a space in front (odd), which Validate accepts, and which comes before  *)
(* every digit.                                                            *)
(***************************************************************************)
EXTENDS RuleInput, Integers

Days == 0..6
LastMinute == 24 * 60 - 1
Clock == [at : 0..LastMinute, odd : BOOLEAN]
Window == [days : SUBSET Days, start : Clock, end : Clock, enabled : BOOLEAN]

\* The order of the texts.
AtMost(c, d) == IF c.odd = d.odd THEN c.at <= d.at ELSE c.odd

\* The time of day, as Format writes it.
Plain(t) == [at |-> t, odd |-> FALSE]

SpansMidnight(w) == ~AtMost(w.start, w.end)

ContainsTime(w, t) ==
    IF SpansMidnight(w)
    THEN AtMost(w.start, Plain(t)) \/ AtMost(Plain(t), w.end)
    ELSE AtMost(w.start, Plain(t)) /\ AtMost(Plain(t), w.end)

Yesterday(day) == (day + 6) % 7

\* Mutant of MatchesDay: the morning leg belongs to its own day.
MatchesDayOfMorning(w, day, t) == w.days = {} \/ day \in w.days

\* No days are every day.
MatchesDay(w, day, t) ==
    \/ w.days = {}
    \/ day \in w.days
    \/ SpansMidnight(w) /\ AtMost(Plain(t), w.end) /\ Yesterday(day) \in w.days

Matches(w, day, t) == w.enabled /\ MatchesDay(w, day, t) /\ ContainsTime(w, t)

\* Without an enabled window probing is unrestricted.
ShouldProbeNow(windows, day, t) ==
    LET enabled == {w \in windows : w.enabled}
    IN  enabled = {} \/ \E w \in enabled : Matches(w, day, t)

-----------------------------------------------------------------------------
(* Properties *)

\* What a window means, in minutes: it opens at its start on each of its days,
\* and is open until the end that comes next, both included.
Opens(w, day) == w.enabled /\ (w.days = {} \/ day \in w.days)
Length(w) == (w.end.at - w.start.at) % (24 * 60)
Scheduled(w, day, t) ==
    \/ Opens(w, day) /\ t \in w.start.at..w.start.at + Length(w)
    \/ Opens(w, Yesterday(day)) /\ t + 24 * 60 \in w.start.at..w.start.at + Length(w)

\* The schedule is what the windows mean, across midnight too, to the minute of
\* the end (window.go:90, window_test.go:120), and nothing is forbidden without one.
FollowsSchedule(windows, day, t) ==
    LET enabled == {w \in windows : w.enabled}
    IN  ShouldProbeNow(windows, day, t) <=>
            (enabled = {} \/ \E w \in enabled : Scheduled(w, day, t))

\* So it is for clocks without a sign or a space, but for the small hours before
\* a window that spans midnight opens: its mornings count on both of its days.
FollowsScheduleMostly(windows, day, t) ==
    LET plain == \A w \in windows : ~w.start.odd /\ ~w.end.odd
        early == \E w \in windows : w.enabled /\ w.start.at > w.end.at /\ t <= w.end.at
                                    /\ day \in w.days /\ Yesterday(day) \notin w.days
    IN  plain /\ ~early => FollowsSchedule(windows, day, t)
\* What is asked of a schedule: at a minute of a day.
WindowInputs == [rule : {"window"}, windows : SUBSET Window, day : Days, at : 0..LastMinute]

\* Probing follows the windows (containsTime and matchesDay, window.go:84-110),
\* but in the small hours of a day whose window opens only in the evening.
ScheduleIsMostlyKept ==
    input.rule = "window" => FollowsScheduleMostly(input.windows, input.day, input.at)

\* Probing follows the windows, in the small hours too.
ScheduleIsKept == input.rule = "window" => FollowsSchedule(input.windows, input.day, input.at)

\* The example of window.go:95-96: "06:30 on Tuesday is inside a Mon 22:00-06:00
\* window".  By the code, and by window_test.go:120, it is outside.
MondayNight == [days |-> {1}, start |-> Plain(22 * 60), end |-> Plain(6 * 60), enabled |-> TRUE]
MorningLegRunsOver ==
    input.rule = "window" /\ input.windows = {MondayNight} /\ input.day = 2 /\ input.at = 6 * 60 + 30 =>
        ShouldProbeNow(input.windows, input.day, input.at)
=============================================================================
