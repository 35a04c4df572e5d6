----------------------------- MODULE TimeService ------------------------------
(***************************************************************************)
(* The time service and those who show its time: the information bar of    *)
(* main.cc, and in the settings application the first row of its list and  *)
(* the clock page, whose pickers set the time.                             *)
(*                                                                         *)
(* Time is counted in the units of a small calendar: so many seconds,      *)
(* minutes and hours, months of unequal length, years all alike.  There is *)
(* no summer time.  A listener is the pair of who shows the time and the   *)
(* event it asked for: the list of the service calls them all, and the     *)
(* order does not matter since a handler only redraws its own text.        *)
(***************************************************************************)
EXTENDS Integers, Sequences

CONSTANTS
    Seconds, Minutes, Hours,  \* in a minute, an hour and a day
    MonthStart,               \* the days of the year before each month
    YearDays,                 \* the days of a year
    MaxInt,                   \* the largest int
    Years,                    \* the years the date picker offers
    StartClock, MaxClock      \* bound: the host's clock while the model runs

Month == DOMAIN MonthStart
MonthLength(m) ==
    (IF m = Len(MonthStart) THEN YearDays ELSE MonthStart[m + 1]) - MonthStart[m]
Shortest == CHOOSE n \in {MonthLength(m) : m \in Month} :
                \A m \in Month : n <= MonthLength(m)

ASSUME CalendarAssumption ==
    /\ {Seconds, Minutes, Hours, YearDays} \subseteq Nat \ {0}
    /\ MonthStart \in Seq(Nat) /\ Len(MonthStart) > 0 /\ MonthStart[1] = 0
    /\ \A m \in Month : MonthLength(m) > 0
ASSUME RangeAssumption ==
    /\ MaxInt \in Nat /\ Years \subseteq Nat
    /\ StartClock \in Nat /\ MaxClock \in StartClock .. MaxInt

Client == {"bar", "list", "clock"}
Event == {"SECOND", "MINUTE", "HOUR", "MDAY", "MONTH", "YEAR"}

VARIABLES
    time,      \* m_time
    diff,      \* m_diff: what the user has set the time forward
    handlers,  \* m_eventHandler
    app,       \* the settings application: "none", "open" or "stopped"
    shown,     \* the time each client shows, or NotShown
    clock,     \* time(NULL) when the service last looked
    inRange    \* the time has never left the range of an int

vars == <<time, diff, handlers, app, shown, clock, inRange>>
NotShown == -1

(* Types.  However far the clock is set, the service never shows a time    *)
(* before the epoch (the clamp of TimeSnapshot::set, TimeService.cc:335).  *)
TypeOK ==
    /\ time \in Nat /\ diff \in Int
    /\ handlers \subseteq Client \X Event
    /\ app \in {"none", "open", "stopped"}
    /\ shown \in [Client -> Nat \cup {NotShown}]
    /\ clock \in StartClock .. MaxClock
    /\ inRange \in BOOLEAN

-----------------------------------------------------------------------------
(* The calendar (localtime, mktime) and the width of an int.               *)

Fields(t) ==
    LET day == t \div (Seconds * Minutes * Hours)
        yday == day % YearDays
        month == CHOOSE m \in Month :
                    MonthStart[m] <= yday /\ yday < MonthStart[m] + MonthLength(m)
    IN  [SECOND |-> t % Seconds,
         MINUTE |-> (t \div Seconds) % Minutes,
         HOUR   |-> (t \div (Seconds * Minutes)) % Hours,
         MDAY   |-> yday - MonthStart[month] + 1,
         MONTH  |-> month,
         YEAR   |-> day \div YearDays]

(* A day the month does not have is a day of the month after it.           *)
MkTime(f) ==
    LET day == f.YEAR * YearDays + MonthStart[f.MONTH] + f.MDAY - 1
    IN  ((day * Hours + f.HOUR) * Minutes + f.MINUTE) * Seconds + f.SECOND

AsInt(x) == ((x + MaxInt + 1) % (2 * (MaxInt + 1))) - (MaxInt + 1)

NotClamped(t) == t                              \* MUTANT of Clamped
Clamped(t) == IF t <= 0 THEN 0 ELSE t

(* What a client's format shows: the bar and the list %H:%M only.          *)
Face(c, t) == IF c = "clock" THEN t \div Seconds
                             ELSE (t \div Seconds) % (Minutes * Hours)

-----------------------------------------------------------------------------
InterestsMinute(c) ==                           \* MUTANT of Interests
    IF c = "clock" THEN Event \ {"SECOND"} ELSE {"MINUTE"}
(* The events a client has itself called for.                              *)
Interests(c) ==
    IF c = "clock" THEN Event \ {"SECOND"} ELSE {"MINUTE", "HOUR"}

Registered(c) == {c} \X Interests(c)

(* raiseEvent, for each of the events in E.                                *)
Raised(E, t, faces) ==
    [c \in Client |-> IF \E e \in E : <<c, e>> \in handlers
                      THEN Face(c, t) ELSE faces[c]]

Init ==
    /\ time = StartClock /\ clock = StartClock /\ diff = 0
    /\ handlers = Registered("bar")
    /\ shown = [c \in Client |->
                   IF c = "bar" THEN Face(c, StartClock) ELSE NotShown]
    /\ app = "none" /\ inRange = TRUE

(* timerProc.  The timer may be late; it compares before and after, and    *)
(* raises an event for each field that differs.                            *)
Tick(now) ==
    LET new == Clamped(AsInt(now + diff))
        changed == {e \in Event : Fields(new)[e] # Fields(time)[e]}
    IN  /\ clock' = now
        /\ time' = new
        /\ shown' = Raised(changed, new, shown)
        /\ inRange' = (inRange /\ now + diff <= MaxInt)
        /\ UNCHANGED <<diff, handlers, app>>

DifferenceLast(s, t) == AsInt(t) - AsInt(s.time)    \* MUTANT of Difference
(* m_diff += ..., with the seconds as the int that get() returns.          *)
Difference(s, t) == s.diff + (AsInt(t) - AsInt(s.time))

(* TimeService::set: one field, and only the event of that field.          *)
SetField(s, e, val) ==
    LET made == MkTime([Fields(s.time) EXCEPT ![e] = val])
        new == Clamped(made)
    IN  [time |-> new,
         diff |-> Difference(s, new),
         shown |-> IF made = s.time THEN s.shown ELSE Raised({e}, new, s.shown)]

AsOfNow == [time |-> time, diff |-> diff, shown |-> shown]
Becomes(s) ==
    /\ time' = s.time /\ diff' = s.diff /\ shown' = s.shown
    /\ inRange' = (inRange /\ s.time <= MaxInt)
    /\ UNCHANGED <<handlers, app, clock>>

SetDateMonthFirst(s, y, m, d) ==                \* MUTANT of SetDate
    SetField(SetField(SetField(s, "YEAR", y), "MONTH", m), "MDAY", d)
(* datechanged_notify.                                                     *)
SetDate(s, y, m, d) ==
    SetField(SetField(SetField(s, "YEAR", y), "MDAY", d), "MONTH", m)

(* The user turns the date picker of the clock page to a date.  Bound: not *)
(* again once the time has left the range of an int.                       *)
PickDate(y, m, d) ==
    /\ app = "open" /\ inRange
    /\ d <= MonthLength(m)
    /\ Becomes(SetDate(AsOfNow, y, m, d))

(* timechanged_notify.                                                     *)
PickTime(h, mi) ==
    /\ app = "open" /\ inRange
    /\ Becomes(SetField(SetField(AsOfNow, "HOUR", h), "MINUTE", mi))

-----------------------------------------------------------------------------
(* The settings application is created (createUIMainWin, initClockWin),    *)
(* stopped and, after the effect of the activity stack, destroyed.         *)
OpenSettings ==
    /\ app = "none"
    /\ app' = "open"
    /\ handlers' = handlers \cup Registered("list") \cup Registered("clock")
    /\ shown' = [c \in Client |-> IF c = "bar" THEN shown[c] ELSE Face(c, time)]
    /\ UNCHANGED <<time, diff, clock, inRange>>

StopSettings ==
    /\ app = "open"
    /\ app' = "stopped"
    /\ handlers' = {l \in handlers : l[1] # "clock"}
    /\ UNCHANGED <<time, diff, shown, clock, inRange>>

DestroySettings ==
    /\ app = "stopped"
    /\ app' = "none"
    /\ handlers' = {l \in handlers : l[1] # "list"}
    /\ shown' = [c \in Client |-> IF c = "bar" THEN shown[c] ELSE NotShown]
    /\ UNCHANGED <<time, diff, clock, inRange>>

Next ==
    \/ \E now \in clock .. MaxClock : Tick(now)
    \/ \E y \in Years, m \in Month, d \in 1 .. YearDays : PickDate(y, m, d)
    \/ \E h \in 0 .. Hours - 1, mi \in 0 .. Minutes - 1 : PickTime(h, mi)
    \/ OpenSettings
    \/ StopSettings
    \/ DestroySettings

Spec == Init /\ [][Next]_vars

-----------------------------------------------------------------------------
(* Between two messages every client on the screen shows the time of the   *)
(* service, though a set() raises one event whatever it changes, a late    *)
(* tick may change any fields, and the clients listen to different events; *)
(* and nobody listens who is gone (TimeService.cc:75-88, 156-221,          *)
(* main.cc:728-730, SettingMainWinPiece.cc:61-62, 291,                     *)
(* SettingClockPiece.cc:469-489).  The clock page is let off while it      *)
(* waits, stopped, for its window to be closed.                            *)
ShownCurrent ==
    \A c \in Client :
        \/ c = "clock" /\ app = "stopped" /\ handlers \cap Registered(c) = {}
        \/ c # "bar" /\ app = "none" /\ shown[c] = NotShown
                     /\ handlers \cap Registered(c) = {}
        \/ shown[c] = Face(c, time)

(* What the user has set stays set: after any dates, times and ticks the   *)
(* service is ahead of the host by exactly what the settings added up to   *)
(* (m_diff, TimeService.cc:77 and :169), while the seconds fit an int.     *)
SettingKept == inRange => time = clock + diff

(* The date picked is the date set, and the time of day stays, though the  *)
(* fields are set one by one and each set is normalised by mktime - for a  *)
(* day that every month has (SettingClockPiece.cc:118-126).                *)
PickedDateSet ==
    [][\A y \in Years, m \in Month, d \in 1 .. Shortest :
          PickDate(y, m, d) =>
              time' = MkTime([Fields(time) EXCEPT !.YEAR = y, !.MONTH = m,
                                                  !.MDAY = d])]_vars

=============================================================================
