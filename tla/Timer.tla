-------------------------------- MODULE Timer --------------------------------
(***************************************************************************)
(* Timer (SmingCore/Timer.cpp) over SimpleTimer and the OS timer below it: *)
(* an interval longer than the OS timer can measure is cut into equal      *)
(* parts that are counted.  Application calls, and the calls a timer's own *)
(* callback makes on it, come in any order.                                *)
(*                                                                         *)
(* Time is in microseconds, scaled down by the constants.                  *)
(***************************************************************************)
EXTENDS Integers

CONSTANTS
    MAX_OS_TIMER_INTERVAL_US,
    MsLimit,       \* 10000: above, the OS timer counts milliseconds
    Ms,            \* 1000: the microseconds of a millisecond
    Width,         \* 2^16: longIntervalCounter and its limit are uint16_t
    Intervals,     \* the intervals the application asks for
    MaxCalls       \* bound: calls of the application

ASSUME MaxOsAssumption ==
    /\ MAX_OS_TIMER_INTERVAL_US \in Nat \ {0} /\ Ms \in Nat \ {0}
    /\ MsLimit \in Nat /\ Ms <= MsLimit
    /\ 2 * MsLimit < MAX_OS_TIMER_INTERVAL_US
ASSUME WidthAssumption == Width \in Nat \ {0} /\ MaxCalls \in Nat

\* No interval is so long (200 days) that the count of its parts overflows.
ASSUME IntervalsAssumption ==
    \A us \in Intervals : us \in Nat /\ us \div MAX_OS_TIMER_INTERVAL_US + 1 < Width

VARIABLES
    t,             \* the timer
    asked,         \* the interval last set
    elapsed,       \* time since the start or since the callback was last called
    ticks,         \* calls of the callback since the start: 0, 1 or 2 for more
    last,          \* at the last call: the time waited and the interval asked for
    calls          \* calls of the application

vars == <<t, asked, elapsed, ticks, last, calls>>

Init ==
    /\ t = [interval |-> 0, longIntervalCounter |-> 0, longIntervalCounterLimit |-> 0,
            repeating |-> FALSE, started |-> FALSE, callback |-> FALSE,
            armed |-> FALSE, period |-> 0, osRepeat |-> FALSE]
    /\ asked = 0 /\ elapsed = 0 /\ ticks = 0 /\ calls = 0
    /\ last = [waited |-> 0, asked |-> 0]

-----------------------------------------------------------------------------
(* The methods, from a timer to a timer *)

\* A variant for mutation testing.
stop_KeepsCounter(s) ==
    IF s.started THEN [s EXCEPT !.armed = FALSE, !.started = FALSE] ELSE s

stop(s) ==
    IF s.started THEN [s EXCEPT !.armed = FALSE, !.started = FALSE, !.longIntervalCounter = 0]
    ELSE s

\* SimpleTimer::startMs, startUs: the OS timer, disarmed first.
osStart(s, period, repeat) == [s EXCEPT !.armed = TRUE, !.period = period, !.osRepeat = repeat]

\* A variant for mutation testing.
start_OsOnce(s, repeat) ==
    LET stopped == stop([s EXCEPT !.repeating = repeat])
        begun == [stopped EXCEPT !.started = TRUE]
    IN  IF s.interval = 0 THEN stopped
        ELSE IF s.interval > MsLimit THEN osStart(begun, (s.interval \div Ms) * Ms, repeat)
        ELSE osStart(begun, s.interval, repeat)

start(s, repeat) ==
    LET stopped == stop([s EXCEPT !.repeating = repeat])
        begun == [stopped EXCEPT !.started = TRUE]
    IN  IF s.interval = 0 THEN stopped
        ELSE IF s.interval > MsLimit
        THEN osStart(begun, (s.interval \div Ms) * Ms, s.longIntervalCounterLimit > 0 \/ repeat)
        ELSE osStart(begun, s.interval, repeat)

restart(s) == start(stop(s), TRUE)

divider(us) == us \div MAX_OS_TIMER_INTERVAL_US + 1

cut(s, us) ==
    IF us > MAX_OS_TIMER_INTERVAL_US
    THEN [s EXCEPT !.interval = us \div divider(us), !.longIntervalCounter = 0,
                   !.longIntervalCounterLimit = divider(us) % Width]
    ELSE [s EXCEPT !.interval = us, !.longIntervalCounter = 0, !.longIntervalCounterLimit = 0]

setIntervalUs(s, us) == IF s.started THEN restart(cut(s, us)) ELSE cut(s, us)

setCallback(s, given) ==
    LET set == [s EXCEPT !.callback = given] IN IF given THEN set ELSE stop(set)

\* initializeUs, initializeMs
initialize(s, us, given) == setIntervalUs(setCallback(s, given), us)

-----------------------------------------------------------------------------
(* The calls that the application makes, also from the callback *)

Starts == {"start", "startOnce", "restart"}
Ops == Starts \cup {"stop", "setInterval", "setCallback", "clearCallback", "initialize",
                     "initializeNull"}

called(s, op, us) ==
    CASE op = "start" -> start(s, TRUE)
      [] op = "startOnce" -> start(s, FALSE)
      [] op = "restart" -> restart(s)
      [] op = "stop" -> stop(s)
      [] op = "setInterval" -> setIntervalUs(s, us)
      [] op = "setCallback" -> setCallback(s, TRUE)
      [] op = "clearCallback" -> setCallback(s, FALSE)
      [] op = "initialize" -> initialize(s, us, TRUE)
      [] op = "initializeNull" -> initialize(s, us, FALSE)

\* Which of them set an interval, and which of them start the timer.
SetsInterval == {"setInterval", "initialize", "initializeNull"}
Begins(s, op) == op \in Starts \/ (op \in {"setInterval", "initialize"} /\ s.started)

\* What a call changes, the timer being s and the ticks of this start n.
Calls(s, op, us, n, time) ==
    /\ calls < MaxCalls /\ calls' = calls + 1
    /\ t' = called(s, op, us)
    /\ asked' = IF op \in SetsInterval THEN us ELSE asked
    /\ elapsed' = IF Begins(s, op) THEN 0 ELSE time
    /\ ticks' = IF Begins(s, op) THEN 0 ELSE n

Application(op, us) == Calls(t, op, us, ticks, elapsed) /\ UNCHANGED last

-----------------------------------------------------------------------------
(* The OS timer fires *)

fired == [t EXCEPT !.armed = t.osRepeat]

\* processing(): a part of a long interval, or all of it.
counted == t.longIntervalCounter + 1
\* A variant for mutation testing.
isPart_OneMore == t.longIntervalCounterLimit > 0 /\ counted <= t.longIntervalCounterLimit

isPart == t.longIntervalCounterLimit > 0 /\ counted < t.longIntervalCounterLimit

\* A variant for mutation testing.
dueTimer_NoStop ==
    IF t.longIntervalCounterLimit = 0 THEN fired ELSE [fired EXCEPT !.longIntervalCounter = 0]

dueTimer ==
    IF t.longIntervalCounterLimit = 0 THEN fired
    ELSE LET reset == [fired EXCEPT !.longIntervalCounter = 0]
         IN  IF t.repeating THEN reset ELSE stop(reset)

FirePart ==
    /\ t.armed /\ isPart
    /\ t' = [fired EXCEPT !.longIntervalCounter = counted]
    /\ elapsed' = elapsed + t.period
    /\ UNCHANGED <<asked, ticks, last, calls>>

moreTicks == IF ticks = 0 THEN 1 ELSE 2
waited == [waited |-> elapsed + t.period, asked |-> asked]

\* tick() without a callback stops the timer, otherwise calls it ...
FireIdle ==
    /\ t.armed /\ ~isPart
    /\ t' = IF dueTimer.callback THEN dueTimer ELSE stop(dueTimer)
    /\ elapsed' = 0 /\ last' = waited
    /\ ticks' = IF t.callback THEN moreTicks ELSE ticks
    /\ UNCHANGED <<asked, calls>>

\* ... and the callback may call the timer's methods.
FireCalling(op, us) ==
    /\ t.armed /\ ~isPart /\ t.callback
    /\ Calls(dueTimer, op, us, moreTicks, 0)
    /\ last' = waited

Next ==
    \/ \E op \in Ops, us \in Intervals : Application(op, us) \/ FireCalling(op, us)
    \/ FirePart
    \/ FireIdle

Spec == Init /\ [][Next]_vars

\* An armed OS timer fires.
FairSpec == Spec /\ WF_vars(FirePart \/ FireIdle)

-----------------------------------------------------------------------------
(* Properties *)

TypeOK ==
    /\ t \in [interval : 0..MAX_OS_TIMER_INTERVAL_US, longIntervalCounter : 0..(Width - 1),
              longIntervalCounterLimit : 0..(Width - 1), repeating : BOOLEAN, started : BOOLEAN,
              callback : BOOLEAN, armed : BOOLEAN, period : 0..MAX_OS_TIMER_INTERVAL_US,
              osRepeat : BOOLEAN]
    /\ asked \in Nat /\ elapsed \in Nat /\ ticks \in 0..2 /\ calls \in 0..MaxCalls
    /\ last \in [waited : Nat, asked : Nat]

\* The OS timer runs only for a timer that is started, so that stop() and the
\* destructor silence it, and it runs for every started timer that still has to
\* call its callback; a counter left over from an earlier start never shortens
\* the next (stop, start, processing).
ArmedIffDue ==
    /\ t.armed => t.started
    /\ t.started /\ (t.repeating \/ ticks = 0) => t.armed
    /\ ~t.started => t.longIntervalCounter = 0

\* A one-shot timer calls its callback once, although for a long interval the OS
\* timer below it repeats (processing).
OneShotOnce == ~t.repeating => ticks <= 1

\* The callback is called when the interval asked for has passed: never later, and
\* early by less than the rounding to milliseconds of each part and to parts
\* allows (setIntervalUs, start, processing).
TickOnTime ==
    LET early == last.asked - last.waited
        n == divider(last.asked)
    IN  /\ early >= 0
        /\ last.asked <= MsLimit => early = 0
        /\ early <= n * (Ms - 1) + (n - 1)

\* A timer that runs calls its callback, or is stopped, once the application
\* leaves it alone: counting up to the limit ends.
TimerFires == t.started ~> (ticks > 0 \/ ~t.started)
=============================================================================
