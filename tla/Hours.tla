-------------------------------- MODULE Hours --------------------------------
(***************************************************************************)
(* The opening hours (timing.c).  A file lists the intervals of the week   *)
(* in which the game is open.  mud_open() says whether it is open now and  *)
(* when that changes; who logs in asks it, and so does the timer, which    *)
(* warns of the closing, closes and opens.  Both write the next event into *)
(* the same variable.                                                      *)
(*                                                                         *)
(* tm_wday, tm_hour and tm_min are compared in this order and subtracted   *)
(* with their weights, so that a time of the week is its number of minutes *)
(* since Sunday 0:00 (a day more than Saturday is seven days later).  The  *)
(* clock is seen in half minutes, because round_to_min() rounds up or      *)
(* down.  next_event is kept as what is left of the time until then.       *)
(***************************************************************************)
EXTENDS Integers, Sequences, FiniteSets, SequencesExt, FiniteSetsExt

CONSTANTS
  Week,      \* SECS_IN_A_WEEK, in minutes
  Warning1,  \* WARNING_1
  Warning2,  \* WARNING_2
  MaxLines,  \* bound: lines of the hours file
  MaxLate    \* bound: half minutes by which the clock can be set forward

ASSUME WeekAssumption == Week \in Nat \ {0}
ASSUME WarningAssumption ==
  Warning2 \in Nat \ {0} /\ Warning1 \in Nat /\ Warning2 < Warning1
ASSUME BoundAssumption == MaxLines \in Nat /\ MaxLate \in Nat \ {0}

Minutes == 0 .. Week - 1
Never == -100 * Week     \* TIME_NEVER: next_event is no time

VARIABLES
  file,       \* the hours file: opening, closing, opening, ...
  openTimes,  \* open_times, of the length intervals
  openState,  \* open_state
  clock,      \* global_clock, in half minutes of the week
  left,       \* next_event - global_clock, in half minutes, or Never
  welcome     \* history: what the last login without a privilege was told

hoursVars == <<file, openTimes, openState, clock, left, welcome>>

-----------------------------------------------------------------------------
(* xboot_times(): the times may decrease once on the way round, and from   *)
(* there on they count as those of the next week.                          *)

\* blater() of each time and the one before it, that of the first and the last at the end.
Wraps(f) == {i \in DOMAIN f : f[i] <= f[IF i = 1 THEN Len(f) ELSE i - 1]}
\* A file without lines, or without one wrap, is not accepted or says nothing.
Accepted(f) == f # << >> /\ Cardinality(Wraps(f)) = 1
Unrolled(f) ==
  LET wrapPoint == CHOOSE i \in Wraps(f) : TRUE
  IN [i \in DOMAIN f |-> IF i >= wrapPoint THEN f[i] + Week ELSE f[i]]

-----------------------------------------------------------------------------
(* mud_open().                                                             *)

\* The first of the times that is later, from 0 on, or their number; a mutant takes
\* the present minute for later.
FirstNotEarlier(now) ==
  LET later == {i \in DOMAIN openTimes : openTimes[i] >= now}
  IN IF later = {} THEN Len(openTimes) ELSE Min(later) - 1
FirstLater(now) ==
  LET later == {i \in DOMAIN openTimes : openTimes[i] > now}
  IN IF later = {} THEN Len(openTimes) ELSE Min(later) - 1

\* Before the first time of the file it is the week after that counts; a mutant does
\* not search that one.
NextTimeOnce(now) ==
  IF FirstLater(now) = Len(openTimes) THEN 0 ELSE FirstLater(now)
NextTime(now) ==
  LET x == FirstLater(now)
      y == IF x = 0 THEN FirstLater(now + Week) ELSE x
  IN IF y = Len(openTimes) THEN 0 ELSE y

\* diff(): the weeks go round.
Diff(from, to) == IF from > to THEN Week - (from - to) ELSE to - from

\* round_to_min(), and the minute of the week it gives.
Rounded(c) == 2 * ((c + 1) \div 2)
MinuteOf(c) == (Rounded(c) \div 2) % Week

MudOpen(c) == openTimes = << >> \/ NextTime(MinuteOf(c)) % 2 = 1
LeftAt(c) ==
  IF openTimes = << >> THEN Never
  ELSE 2 * Diff(MinuteOf(c), openTimes[NextTime(MinuteOf(c)) + 1]) + (Rounded(c) - c)

-----------------------------------------------------------------------------
Files == {f \in BoundedSeq(Minutes, 2 * MaxLines) : Len(f) % 2 = 0}

\* boot_hours()
BootHours(f, c) ==
  /\ file = f /\ clock = c /\ welcome = "none"
  /\ openTimes = (IF Accepted(f) THEN Unrolled(f) ELSE << >>)
  /\ left = LeftAt(c)
  /\ openState = IF ~Accepted(f) THEN "always" ELSE IF MudOpen(c) THEN "open" ELSE "closed"

InitHours == \E f \in Files, c \in 0 .. 2 * Week - 1 : BootHours(f, c)

\* login_ok(), for those who are neither operators nor privileged; these change
\* next_event as well, and get in.
LoginOk(privileged) ==
  /\ left' = LeftAt(clock)
  /\ welcome' = IF privileged THEN welcome ELSE IF MudOpen(clock) THEN "in" ELSE "out"
  /\ UNCHANGED <<file, openTimes, openState, clock>>

\* check_if_closed() at the time c, with the rest r until the next event.
Warns(s, r) ==
  \/ s = "open" /\ r < 2 * Warning1
  \/ s = "warning1" /\ r < 2 * Warning2
Turns(s, r) == s \in {"warning2", "closed"} /\ r < 0
AfterState(s) ==
  CASE s = "open" -> "warning1" [] s = "warning1" -> "warning2"
    [] s = "warning2" -> "closed" [] s = "closed" -> "open"

CheckIfClosed(c, r) ==
  IF r # Never /\ openState # "always"
  THEN /\ openState' = IF Warns(openState, r) \/ Turns(openState, r)
                       THEN AfterState(openState) ELSE openState
       /\ left' = IF Turns(openState, r) THEN LeftAt(c) ELSE r
  ELSE openState' = openState /\ left' = r

\* on_timer(): the clock goes on, and is set by that of the machine once in an hour,
\* which is ahead when timers came late.
OnTimer ==
  \E late \in 0 .. MaxLate :
    LET c == (clock + late) % (2 * Week)
    IN /\ clock' = c
       /\ CheckIfClosed(c, IF left = Never THEN Never ELSE left - late)
       /\ UNCHANGED <<file, openTimes, welcome>>

Restart ==
  /\ left' = LeftAt(clock)
  /\ openState' = IF openTimes = << >> THEN "always"
                  ELSE IF MudOpen(clock) THEN "open" ELSE "closed"
  /\ welcome' = "none"
  /\ UNCHANGED <<file, openTimes, clock>>

HoursNext == OnTimer \/ Restart \/ \E privileged \in BOOLEAN : LoginOk(privileged)
HoursSpec == InitHours /\ [][HoursNext]_hoursVars

-----------------------------------------------------------------------------
(* What makes it right.  The hours as the file says them: from each opening *)
(* to the closing after it, round the week.                                 *)

Apart(from, to) == (to - from) % Week
InHours(m) ==
  \/ ~Accepted(file)
  \/ \E i \in DOMAIN file :
       i % 2 = 1 /\ Apart(file[i], m) < Apart(file[i], file[i + 1])

\* Whoever has no privilege is let in exactly in the hours of the file, rounded to the
\* minute, wherever the week turns (login_ok(), mud_open()).
HoursKept ==
  [][\A p \in BOOLEAN : (LoginOk(p) /\ ~p) =>
       (welcome' = "in") = InHours(MinuteOf(clock))]_hoursVars

\* Minutes until the next opening or closing.
Ahead(m) == Min({IF Apart(m, file[i]) = 0 THEN Week ELSE Apart(m, file[i]) : i \in DOMAIN file})

\* mud_open() is asked by one who logs in, and at the start.
Asked == Restart \/ \E privileged \in BOOLEAN : LoginOk(privileged)

\* What is left of the time until then, to the half minute.
LeftUntil(minutes) == 2 * minutes + Rounded(clock) - clock

\* The times that xboot_times() puts into the next week: in a file that does not cross the
\* turn of the week, all of them.
Carried == {i \in DOMAIN file : \E w \in Wraps(file) : w <= i}

\* The event that the timer then waits for is the next one of the file, whichever way the
\* file and the week turn, except while a time of this week is to come that was put into
\* the next: then it is exactly a week late (next_time(), diff()).
EventOnTheWeek ==
  [][(Asked /\ left' # Never) =>
       LET m == MinuteOf(clock)
           skipped == \E i \in Carried : m < file[i]
       IN left' = LeftUntil(Ahead(m) + (IF skipped THEN Week ELSE 0))]_hoursVars

\* What timing.c says over mud_open(), "the closing-time in the variable pointed to by
\* next_ev" while the game is open and the opening time while it is closed (160): the
\* event is the next one of the file.
EventIsNext ==
  [][(Asked /\ left' # Never) => left' = LeftUntil(Ahead(MinuteOf(clock)))]_hoursVars
=============================================================================
