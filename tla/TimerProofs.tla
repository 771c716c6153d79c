----------------------------- MODULE TimerProofs -----------------------------
(***************************************************************************)
(* Proofs about Timer, for all intervals, calls of the application and     *)
(* limits of the OS timer.                                                 *)
(***************************************************************************)
EXTENDS Timer, TLAPS

MAX == MAX_OS_TIMER_INTERVAL_US

TimerType ==
    [interval : Nat, longIntervalCounter : Nat, longIntervalCounterLimit : Nat,
     repeating : BOOLEAN, started : BOOLEAN, callback : BOOLEAN,
     armed : BOOLEAN, period : 0..MAX, osRepeat : BOOLEAN]

\* What the OS timer is set to for an interval.
part(interval) == IF interval > MsLimit THEN (interval \div Ms) * Ms ELSE interval

\* The interval asked for, cut into parts.
CutFor(s, us) ==
    IF us > MAX
    THEN s.interval = us \div divider(us) /\ s.longIntervalCounterLimit = divider(us)
    ELSE s.interval = us /\ s.longIntervalCounterLimit = 0

\* A timer that does not run has counted nothing; one that runs, less than its limit.
Counted(s) ==
    /\ s \in TimerType
    /\ ~s.started => s.longIntervalCounter = 0
    /\ IF s.longIntervalCounterLimit = 0 THEN s.longIntervalCounter = 0
       ELSE s.longIntervalCounter < s.longIntervalCounterLimit

\* The OS timer is set for the parts of the timer: it repeats for a timer that
\* repeats or has parts to count, and runs until a one-shot timer has called.
Running(s, n) ==
    /\ s.armed => s.started
    /\ s.started => s.period = part(s.interval)
                    /\ (s.osRepeat <=> s.repeating \/ s.longIntervalCounterLimit > 0)
    /\ s.started /\ (s.repeating \/ n = 0) => s.armed
    /\ ~s.repeating /\ s.armed => n = 0
    /\ ~s.repeating => n <= 1

\* The time that has passed is that of the parts counted.
Passed(s, time) == s.armed => time = s.longIntervalCounter * s.period

Sound(s, n, time) == Counted(s) /\ Running(s, n) /\ Passed(s, time)

Inv ==
    /\ Sound(t, ticks, elapsed) /\ CutFor(t, asked)
    /\ asked \in Intervals \cup {0} /\ ticks \in 0..2 /\ elapsed \in Nat /\ calls \in 0..MaxCalls
    /\ last \in [waited : Nat, asked : Nat] /\ TickOnTime

-----------------------------------------------------------------------------
(* Arithmetic *)

LEMMA DivFacts ==
    ASSUME NEW a \in Nat, NEW b \in Nat \ {0}
    PROVE  (a \div b) \in Nat /\ b * (a \div b) <= a /\ a < b * (a \div b) + b
  OBVIOUS

\* The parts of a long interval are short enough for the OS timer, and long enough
\* for it to be set in milliseconds, which alone lets a one-shot timer count them.
LEMMA DividerFacts ==
    ASSUME NEW us \in Nat
    PROVE  /\ divider(us) \in Nat \ {0}
           /\ (us \div divider(us)) \in Nat /\ us \div divider(us) <= MAX
           /\ us > MAX => divider(us) >= 2 /\ us \div divider(us) > MsLimit
<1> DEFINE q == us \div MAX
           d == divider(us)
           i == us \div d
<1>1. MAX \in Nat \ {0} /\ MsLimit \in Nat \ {0} /\ 2 * MsLimit < MAX
  BY MaxOsAssumption DEF MAX
<1>2. q \in Nat /\ MAX * q <= us /\ us < MAX * q + MAX
  BY <1>1, DivFacts
<1>3. d = q + 1
  BY DEF divider, MAX
<1>4. i \in Nat /\ d * i <= us /\ us < d * i + d
  BY <1>2, <1>3, DivFacts
<1> HIDE DEF q, d, i
<1>5. i <= MAX
  <2> SUFFICES ASSUME i > MAX PROVE FALSE
    BY <1>1, <1>4
  <2>1. d * i >= d * MAX /\ d * MAX = MAX * q + MAX
    BY <1>1, <1>2, <1>3, <1>4
  <2> QED
    BY <1>1, <1>2, <1>3, <1>4, <2>1
<1>6. ASSUME us > MAX PROVE d >= 2 /\ i > MsLimit
  <2>1. q >= 1
    BY <1>1, <1>2, <1>6
  <2>2. us >= d * (MsLimit + 1)
    <3>1. CASE q = 1
      BY <1>1, <1>3, <1>6, <3>1
    <3>2. CASE q >= 2
      <4>1. MAX * q >= (2 * MsLimit + 1) * q
        BY <1>1, <1>2
      <4>2. (2 * MsLimit + 1) * q = MsLimit * q + MsLimit * q + q
        BY <1>1, <1>2
      <4>3. MsLimit * q >= MsLimit * 2
        BY <1>1, <1>2, <3>2
      <4>4. d * (MsLimit + 1) = MsLimit * q + q + MsLimit + 1
        BY <1>1, <1>2, <1>3
      <4>5. MsLimit * q \in Nat
        BY <1>1, <1>2
      <4> QED
        BY <1>1, <1>2, <4>1, <4>2, <4>3, <4>4, <4>5
    <3> QED
      BY <1>2, <2>1, <3>1, <3>2
  <2>3. ASSUME i <= MsLimit PROVE FALSE
    <3>1. d * i + d <= d * (MsLimit + 1)
      BY <1>1, <1>2, <1>3, <1>4, <2>3
    <3>2. d * (MsLimit + 1) \in Nat
      BY <1>1, <1>2, <1>3
    <3> QED
      BY <1>2, <1>3, <1>4, <2>2, <3>1, <3>2
  <2> QED
    BY <1>1, <1>2, <1>3, <1>4, <2>1, <2>3
<1> QED
  BY <1>2, <1>3, <1>4, <1>5, <1>6 DEF d, i

LEMMA PartFacts ==
    ASSUME NEW i \in Nat
    PROVE  /\ part(i) \in Nat /\ part(i) <= i /\ i - part(i) <= Ms - 1
           /\ i <= MsLimit => part(i) = i
<1>1. (i \div Ms) \in Nat /\ Ms * (i \div Ms) <= i /\ i < Ms * (i \div Ms) + Ms
  BY DivFacts, MaxOsAssumption
<1>2. (i \div Ms) * Ms = Ms * (i \div Ms) /\ (i \div Ms) * Ms \in Nat
  BY <1>1, MaxOsAssumption
<1> QED
  BY <1>1, <1>2, MaxOsAssumption DEF part

-----------------------------------------------------------------------------
(* The methods *)

\* stop() keeps what there is to keep, and resets the count.
LEMMA StopEffect ==
    ASSUME NEW s \in TimerType, ~s.started => s.longIntervalCounter = 0
    PROVE  /\ stop(s) \in TimerType /\ ~stop(s).started /\ stop(s).longIntervalCounter = 0
           /\ stop(s).interval = s.interval /\ stop(s).repeating = s.repeating
           /\ stop(s).longIntervalCounterLimit = s.longIntervalCounterLimit
           /\ stop(s).callback = s.callback
           /\ s.started => ~stop(s).armed
           /\ ~s.started => stop(s) = s
  BY DEF stop, TimerType

LEMMA StopSound ==
    ASSUME NEW s, NEW n \in 0..2, NEW time, NEW us, Sound(s, n, time), CutFor(s, us)
    PROVE  Sound(stop(s), n, time) /\ CutFor(stop(s), us) /\ ~stop(s).armed
<1>1. s \in TimerType /\ (~s.started => s.longIntervalCounter = 0) /\ (~s.started => ~s.armed)
  BY DEF Sound, Counted, Running
<1>2. CutFor(stop(s), us)
  BY <1>1, StopEffect DEF CutFor
<1>3. ~stop(s).armed
  BY <1>1, StopEffect
<1>4. Counted(stop(s))
  BY <1>1, StopEffect DEF Counted, Sound, TimerType
<1>5. Running(stop(s), n)
  BY <1>1, <1>3, StopEffect DEF Running, Sound
<1> QED
  BY <1>2, <1>3, <1>4, <1>5 DEF Sound, Passed

\* start() sets the OS timer for the parts that setIntervalUs() made, so that a
\* one-shot timer with parts to count repeats below.
LEMMA StartSound ==
    ASSUME NEW s \in TimerType, ~s.started => s.longIntervalCounter = 0,
           ~s.started => ~s.armed,
           NEW us \in Nat, CutFor(s, us), NEW repeat \in BOOLEAN
    PROVE  Sound(start(s, repeat), 0, 0) /\ CutFor(start(s, repeat), us)
<1> DEFINE r == [s EXCEPT !.repeating = repeat]
           stopped == stop(r)
<1>1. /\ r \in TimerType /\ r.started = s.started /\ r.interval = s.interval
      /\ r.longIntervalCounter = s.longIntervalCounter /\ r.armed = s.armed
      /\ r.longIntervalCounterLimit = s.longIntervalCounterLimit /\ r.repeating = repeat
  BY DEF TimerType
<1>2. /\ stopped \in TimerType /\ ~stopped.started /\ stopped.longIntervalCounter = 0
      /\ stopped.interval = s.interval /\ stopped.repeating = repeat /\ ~stopped.armed
      /\ stopped.longIntervalCounterLimit = s.longIntervalCounterLimit
  <2> HIDE DEF r
  <2> QED
    BY <1>1, StopEffect
<1>3. s.interval \in Nat /\ s.longIntervalCounterLimit \in Nat
  BY DEF TimerType
<1>4. s.longIntervalCounterLimit > 0 => s.interval > MsLimit
  BY <1>3, DividerFacts DEF CutFor
<1>5. start(s, repeat) =
        LET begun == [stopped EXCEPT !.started = TRUE]
        IN  IF s.interval = 0 THEN stopped
            ELSE IF s.interval > MsLimit
            THEN osStart(begun, (s.interval \div Ms) * Ms, s.longIntervalCounterLimit > 0 \/ repeat)
            ELSE osStart(begun, s.interval, repeat)
  BY DEF start
<1> HIDE DEF stopped
<1>6. CASE s.interval = 0
  <2>1. start(s, repeat) = stopped
    BY <1>5, <1>6
  <2>2. Counted(stopped) /\ CutFor(stopped, us)
    BY <1>2, <1>3 DEF Counted, CutFor
  <2>3. Running(stopped, 0) /\ Passed(stopped, 0)
    BY <1>2 DEF Running, Passed
  <2> QED
    BY <2>1, <2>2, <2>3 DEF Sound
<1>7. CASE s.interval # 0
  <2> DEFINE z == start(s, repeat)
             os == IF s.interval > MsLimit THEN s.longIntervalCounterLimit > 0 \/ repeat ELSE repeat
  <2>1. z = [stopped EXCEPT !.started = TRUE, !.armed = TRUE, !.period = part(s.interval),
                            !.osRepeat = os]
    BY <1>2, <1>5, <1>7 DEF osStart, part, TimerType
  <2>2. os \in BOOLEAN /\ (os <=> repeat \/ s.longIntervalCounterLimit > 0)
    BY <1>3, <1>4
  <2>3. part(s.interval) \in 0..MAX
    <3>1. MAX \in Nat /\ s.interval <= MAX
      BY <1>3, DividerFacts, MaxOsAssumption DEF CutFor, MAX
    <3>2. part(s.interval) \in Nat /\ part(s.interval) <= s.interval
      BY <1>3, PartFacts
    <3> QED
      BY <1>3, <3>1, <3>2
  <2> HIDE DEF z, os
  <2>4. /\ z \in TimerType /\ z.started /\ z.armed /\ z.period = part(s.interval)
        /\ z.osRepeat = os /\ z.longIntervalCounter = 0 /\ z.interval = s.interval
        /\ z.longIntervalCounterLimit = s.longIntervalCounterLimit /\ z.repeating = repeat
    BY <1>2, <2>1, <2>2, <2>3 DEF TimerType
  <2>5. Counted(z) /\ CutFor(z, us)
    BY <1>3, <2>4 DEF Counted, CutFor
  <2>6. Running(z, 0)
    BY <2>2, <2>4 DEF Running
  <2>7. Passed(z, 0)
    BY <2>3, <2>4 DEF Passed
  <2> QED
    BY <2>5, <2>6, <2>7 DEF Sound, z
<1> QED
  BY <1>6, <1>7

LEMMA RestartSound ==
    ASSUME NEW s \in TimerType, ~s.started => s.longIntervalCounter = 0,
           ~s.started => ~s.armed, NEW us \in Nat, CutFor(s, us)
    PROVE  Sound(restart(s), 0, 0) /\ CutFor(restart(s), us)
<1> DEFINE r == stop(s)
<1>1. /\ r \in TimerType /\ ~r.started /\ r.longIntervalCounter = 0 /\ ~r.armed
      /\ r.interval = s.interval /\ r.longIntervalCounterLimit = s.longIntervalCounterLimit
  BY StopEffect
<1>2. CutFor(r, us)
  BY <1>1 DEF CutFor
<1> HIDE DEF r
<1> QED
  BY <1>1, <1>2, StartSound DEF restart, r

\* setIntervalUs() cuts the interval, and starts a timer that runs again.
LEMMA SetIntervalSound ==
    ASSUME NEW s, NEW n \in 0..2, NEW time, Sound(s, n, time), NEW us \in Intervals
    PROVE  LET r == setIntervalUs(s, us)
           IN  CutFor(r, us) /\ IF s.started THEN Sound(r, 0, 0) ELSE Sound(r, n, time)
<1> DEFINE c == cut(s, us)
<1>1. us \in Nat /\ divider(us) \in Nat /\ divider(us) % Width = divider(us)
  <2>1. us \in Nat /\ divider(us) < Width
    BY IntervalsAssumption DEF divider
  <2>2. divider(us) \in Nat
    BY <2>1, DividerFacts
  <2>3. \A d, w \in Nat : d < w => d % w = d
    OBVIOUS
  <2> QED
    BY <2>1, <2>2, <2>3, WidthAssumption
<1>2. MAX \in Nat /\ us \div divider(us) \in Nat /\ (us > MAX => divider(us) >= 2)
  BY <1>1, DividerFacts, MaxOsAssumption DEF MAX
<1>3. s \in TimerType /\ (~s.started => ~s.armed)
  BY DEF Sound, Counted, Running
<1>4. /\ c \in TimerType /\ c.longIntervalCounter = 0 /\ CutFor(c, us)
      /\ c.started = s.started /\ c.armed = s.armed /\ c.repeating = s.repeating
  <2> DEFINE i == IF us > MAX THEN us \div divider(us) ELSE us
             l == IF us > MAX THEN divider(us) ELSE 0
  <2>1. c = [s EXCEPT !.interval = i, !.longIntervalCounter = 0, !.longIntervalCounterLimit = l]
    BY <1>1 DEF cut, MAX
  <2>2. i \in Nat /\ l \in Nat
    BY <1>1, <1>2
  <2> HIDE DEF c, i, l
  <2>3. /\ c \in TimerType /\ c.longIntervalCounter = 0
        /\ c.interval = i /\ c.longIntervalCounterLimit = l
        /\ c.started = s.started /\ c.armed = s.armed /\ c.repeating = s.repeating
    BY <1>3, <2>1, <2>2 DEF TimerType
  <2>4. CutFor(c, us)
    BY <2>3 DEF CutFor, i, l
  <2> QED
    BY <2>3, <2>4
<1> HIDE DEF c
<1>5. CASE s.started
  BY <1>1, <1>3, <1>4, <1>5, RestartSound DEF setIntervalUs, c
<1>6. CASE ~s.started
  <2>1. Counted(c)
    BY <1>4, <1>6 DEF Counted, TimerType
  <2>2. Running(c, n) /\ Passed(c, time)
    BY <1>3, <1>4, <1>6 DEF Sound, Running, Passed
  <2> QED
    BY <1>4, <1>6, <2>1, <2>2 DEF setIntervalUs, Sound, c
<1> QED
  BY <1>5, <1>6

LEMMA SetCallbackSound ==
    ASSUME NEW s, NEW n \in 0..2, NEW time, NEW us, Sound(s, n, time), CutFor(s, us),
           NEW given \in BOOLEAN
    PROVE  LET r == setCallback(s, given)
           IN  Sound(r, n, time) /\ CutFor(r, us) /\ (r.started <=> s.started /\ given)
<1> DEFINE r == [s EXCEPT !.callback = given]
<1>1. s \in TimerType
  BY DEF Sound, Counted
<1>2. /\ r \in TimerType /\ r.started = s.started /\ r.interval = s.interval
      /\ r.longIntervalCounter = s.longIntervalCounter /\ r.armed = s.armed
      /\ r.longIntervalCounterLimit = s.longIntervalCounterLimit /\ r.repeating = s.repeating
      /\ r.period = s.period /\ r.osRepeat = s.osRepeat
  BY <1>1 DEF TimerType
<1> HIDE DEF r
<1>3. Sound(r, n, time) /\ CutFor(r, us)
  BY <1>2 DEF Sound, Counted, Running, Passed, CutFor
<1>4. Sound(stop(r), n, time) /\ CutFor(stop(r), us)
  BY <1>3, StopSound
<1>5. ~stop(r).started
  BY <1>2, <1>3, StopEffect DEF Sound, Counted
<1> QED
  BY <1>2, <1>3, <1>4, <1>5 DEF setCallback, r

\* Any call of the application, from outside or from the callback.
LEMMA CallSound ==
    ASSUME NEW s, NEW n \in 0..2, NEW time, NEW a \in Intervals \cup {0},
           Sound(s, n, time), CutFor(s, a), NEW op \in Ops, NEW us \in Intervals
    PROVE  LET r == called(s, op, us)
           IN  /\ Sound(r, IF Begins(s, op) THEN 0 ELSE n, IF Begins(s, op) THEN 0 ELSE time)
               /\ CutFor(r, IF op \in SetsInterval THEN us ELSE a)
<1>1. us \in Nat /\ a \in Nat
  BY IntervalsAssumption
<1>2. /\ s \in TimerType /\ (~s.started => s.longIntervalCounter = 0) /\ (~s.started => ~s.armed)
  BY DEF Sound, Counted, Running
<1> USE DEF Begins, Starts, SetsInterval
<1>3. CASE op \in {"start", "startOnce"}
  BY <1>1, <1>2, <1>3, StartSound DEF called
<1>4. CASE op = "restart"
  BY <1>1, <1>2, <1>4, RestartSound DEF called
<1>5. CASE op = "stop"
  BY <1>5, StopSound DEF called
<1>6. CASE op = "setInterval"
  BY <1>6, SetIntervalSound DEF called
<1>7. CASE op \in {"setCallback", "clearCallback"}
  BY <1>7, SetCallbackSound DEF called
<1>8. CASE op \in {"initialize", "initializeNull"}
  <2> DEFINE given == (op = "initialize")
             r == setCallback(s, given)
  <2>1. called(s, op, us) = setIntervalUs(r, us)
    BY <1>8 DEF called, initialize
  <2>2. Sound(r, n, time) /\ (r.started <=> s.started /\ given)
    BY SetCallbackSound
  <2> HIDE DEF r
  <2>3. LET z == setIntervalUs(r, us)
        IN  CutFor(z, us) /\ IF r.started THEN Sound(z, 0, 0) ELSE Sound(z, n, time)
    BY <2>2, SetIntervalSound
  <2>4. Begins(s, op) <=> r.started
    BY <1>8, <2>2
  <2> QED
    BY <1>8, <2>1, <2>3, <2>4
<1> QED
  BY <1>3, <1>4, <1>5, <1>6, <1>7, <1>8 DEF Ops

-----------------------------------------------------------------------------
(* The OS timer fires *)

\* The parts counted make up the interval asked for, less what was rounded off.
LEMMA WaitedOnTime ==
    ASSUME Inv, t.armed, ~isPart
    PROVE  /\ waited \in [waited : Nat, asked : Nat]
           /\ LET early == asked - waited.waited
                  n == divider(asked)
              IN  /\ early >= 0
                  /\ asked <= MsLimit => early = 0
                  /\ early <= n * (Ms - 1) + (n - 1)
<1> DEFINE n == divider(asked)
           i == t.interval
           p == t.period
           c == t.longIntervalCounter
<1>1. t \in TimerType /\ t.started /\ p = part(i) /\ elapsed = c * p /\ asked \in Nat
  BY IntervalsAssumption DEF Inv, Sound, Counted, Running, Passed
<1>2. i \in Nat /\ c \in Nat /\ p \in Nat
  BY <1>1 DEF TimerType
<1>3. p <= i /\ i - p <= Ms - 1 /\ (i <= MsLimit => p = i)
  BY <1>1, <1>2, PartFacts
<1>4. n \in Nat \ {0}
  BY <1>1, DividerFacts
<1>5. elapsed + p = (c + 1) * p /\ (c + 1) * p \in Nat
  BY <1>1, <1>2
<1>6. waited.waited = (c + 1) * p /\ waited \in [waited : Nat, asked : Nat]
  BY <1>1, <1>5 DEF waited
<1>7. Ms \in Nat \ {0} /\ MsLimit \in Nat /\ MsLimit < MAX /\ MAX \in Nat
  BY MaxOsAssumption DEF MAX
<1>8. CASE asked > MAX
  <2>1. c + 1 = n
    BY <1>2, <1>4, <1>8 DEF Inv, CutFor, Sound, Counted, isPart, counted
  <2>2. i = asked \div n
    BY <1>8 DEF Inv, CutFor
  <2>3. n * i <= asked /\ asked < n * i + n
    BY <1>1, <1>4, <2>2, DivFacts
  <2>4. n * p <= n * i /\ n * i - n * p <= n * (Ms - 1) /\ n * p \in Nat /\ n * i \in Nat
    <3> HIDE DEF n, i, p
    <3>1. n * (i - p) <= n * (Ms - 1) /\ n * (i - p) = n * i - n * p
      BY <1>2, <1>3, <1>4, <1>7
    <3>2. n * p <= n * i /\ n * p \in Nat /\ n * i \in Nat
      BY <1>2, <1>3, <1>4
    <3> QED
      BY <3>1, <3>2
  <2>5. n * (Ms - 1) \in Nat
    BY <1>4, <1>7
  <2> HIDE DEF n, i, p, c
  <2> QED
    BY <1>1, <1>2, <1>4, <1>6, <1>7, <1>8, <2>1, <2>3, <2>4, <2>5 DEF n
<1>9. CASE ~(asked > MAX)
  <2>1. c = 0 /\ i = asked
    BY <1>9 DEF Inv, CutFor, Sound, Counted
  <2>2. waited.waited = p
    BY <1>2, <1>6, <2>1
  <2>3. n * (Ms - 1) >= Ms - 1 /\ n * (Ms - 1) \in Nat
    BY <1>4, <1>7
  <2> HIDE DEF n, i, p, c
  <2>4. \A a, q, m, l, k \in Nat :
          q <= a /\ a - q <= m - 1 /\ l * (m - 1) >= m - 1 /\ l >= 1 /\ (a <= k => q = a)
          => a - q >= 0 /\ (a <= k => a - q = 0) /\ a - q <= l * (m - 1) + (l - 1)
    OBVIOUS
  <2>5. p <= asked /\ asked - p <= Ms - 1 /\ (asked <= MsLimit => p = asked)
    BY <1>3, <2>1
  <2>6. /\ asked - p >= 0 /\ (asked <= MsLimit => asked - p = 0)
        /\ asked - p <= n * (Ms - 1) + (n - 1)
    BY <1>1, <1>2, <1>4, <1>7, <2>3, <2>4, <2>5
  <2> QED
    BY <1>6, <2>2, <2>6 DEF n
<1> QED
  BY <1>6, <1>8, <1>9

\* The timer with its interval passed: a one-shot timer does not run on, a timer
\* that repeats counts from 0 again.
LEMMA DueSound ==
    ASSUME Inv, t.armed, ~isPart
    PROVE  /\ Sound(dueTimer, moreTicks, 0) /\ CutFor(dueTimer, asked)
           /\ dueTimer.callback = t.callback /\ moreTicks \in 0..2
           /\ t.started
<1>1. t \in TimerType /\ Counted(t) /\ Running(t, ticks) /\ CutFor(t, asked) /\ ticks \in 0..2
  BY DEF Inv, Sound, Counted
<1>2. moreTicks \in 0..2 /\ moreTicks # 0 /\ (~t.repeating => moreTicks = 1)
  BY <1>1 DEF moreTicks, Running
<1>3. t.started /\ t.period = part(t.interval)
      /\ (t.osRepeat <=> t.repeating \/ t.longIntervalCounterLimit > 0)
  BY <1>1 DEF Running
<1>4. t.longIntervalCounterLimit \in Nat /\ t.period \in Nat
  BY <1>1 DEF TimerType
<1>5. /\ fired \in TimerType /\ fired.armed = t.osRepeat /\ fired.interval = t.interval
      /\ fired.longIntervalCounter = t.longIntervalCounter /\ fired.started
      /\ fired.longIntervalCounterLimit = t.longIntervalCounterLimit
      /\ fired.repeating = t.repeating /\ fired.callback = t.callback
      /\ fired.period = t.period /\ fired.osRepeat = t.osRepeat
  BY <1>1, <1>3 DEF fired, TimerType
<1>6. CASE t.longIntervalCounterLimit = 0
  <2>1. dueTimer = fired /\ t.longIntervalCounter = 0 /\ (t.osRepeat <=> t.repeating)
    BY <1>1, <1>3, <1>6 DEF dueTimer, Counted
  <2>2. Counted(fired) /\ CutFor(fired, asked)
    BY <1>1, <1>5, <1>6, <2>1 DEF Counted, CutFor
  <2>3. Running(fired, moreTicks)
    BY <1>2, <1>3, <1>5, <1>6, <2>1 DEF Running
  <2>4. Passed(fired, 0)
    BY <1>4, <1>5, <2>1 DEF Passed
  <2> QED
    BY <1>2, <1>3, <1>5, <2>1, <2>2, <2>3, <2>4 DEF Sound
<1>7. CASE t.longIntervalCounterLimit # 0
  <2> DEFINE reset == [fired EXCEPT !.longIntervalCounter = 0]
  <2>1. /\ reset \in TimerType /\ reset.armed /\ reset.interval = t.interval
        /\ reset.longIntervalCounter = 0 /\ reset.started
        /\ reset.longIntervalCounterLimit = t.longIntervalCounterLimit
        /\ reset.repeating = t.repeating /\ reset.callback = t.callback
        /\ reset.period = t.period /\ reset.osRepeat = t.osRepeat
    BY <1>3, <1>4, <1>5, <1>7 DEF TimerType
  <2>2. dueTimer = IF t.repeating THEN reset ELSE stop(reset)
    BY <1>7 DEF dueTimer
  <2> HIDE DEF reset
  <2>3. Counted(reset) /\ CutFor(reset, asked)
    BY <1>1, <1>4, <1>7, <2>1 DEF Counted, CutFor
  <2>4. Passed(reset, 0)
    BY <1>4, <2>1 DEF Passed
  <2>5. CASE t.repeating
    <3>1. Running(reset, moreTicks)
      BY <1>3, <2>1, <2>5 DEF Running
    <3> QED
      BY <1>2, <1>3, <2>1, <2>2, <2>3, <2>4, <2>5, <3>1 DEF Sound
  <2>6. CASE ~t.repeating
    <3>1. /\ stop(reset) \in TimerType /\ ~stop(reset).started /\ ~stop(reset).armed
          /\ stop(reset).longIntervalCounter = 0 /\ stop(reset).interval = t.interval
          /\ stop(reset).longIntervalCounterLimit = t.longIntervalCounterLimit
          /\ stop(reset).callback = t.callback /\ stop(reset).repeating = t.repeating
      BY <2>1, StopEffect
    <3>2. Counted(stop(reset)) /\ CutFor(stop(reset), asked)
      BY <1>1, <1>4, <1>7, <3>1 DEF Counted, CutFor
    <3>3. Running(stop(reset), moreTicks) /\ Passed(stop(reset), 0)
      BY <1>2, <3>1 DEF Running, Passed
    <3> QED
      BY <1>2, <1>3, <2>2, <2>6, <3>1, <3>2, <3>3 DEF Sound
  <2> QED
    BY <2>5, <2>6
<1> QED
  BY <1>6, <1>7

-----------------------------------------------------------------------------
(* Theorems *)

LEMMA InitInv == Init => Inv
<1> SUFFICES ASSUME Init PROVE Inv
  OBVIOUS
<1>1. MAX \in Nat /\ Ms \in Nat \ {0} /\ divider(0) \in Nat \ {0}
  BY DividerFacts, MaxOsAssumption DEF MAX
<1>2. /\ t \in TimerType /\ t.interval = 0 /\ t.longIntervalCounter = 0
      /\ t.longIntervalCounterLimit = 0 /\ ~t.started /\ ~t.armed
  <2>1. 0 \in 0..MAX
    BY <1>1
  <2> QED
    BY <2>1 DEF Init, TimerType
<1>3. Counted(t) /\ CutFor(t, asked)
  BY <1>1, <1>2 DEF Init, Counted, CutFor
<1>4. Running(t, ticks) /\ Passed(t, elapsed)
  BY <1>2 DEF Init, Running, Passed
<1>5. last \in [waited : Nat, asked : Nat] /\ last.asked = 0 /\ last.waited = 0
  BY DEF Init
<1>6. TickOnTime
  <2>1. divider(0) * (Ms - 1) + (divider(0) - 1) >= 0
    BY <1>1
  <2> QED
    BY <1>5, <2>1 DEF TickOnTime
<1>7. asked \in Intervals \cup {0} /\ ticks \in 0..2 /\ elapsed \in Nat /\ calls \in 0..MaxCalls
  BY WidthAssumption DEF Init
<1> QED
  BY <1>3, <1>4, <1>5, <1>6, <1>7 DEF Inv, Sound

\* What Calls() leaves behind, from any timer that is sound.
LEMMA CallsInv ==
    ASSUME NEW s, NEW op \in Ops, NEW us \in Intervals, NEW n \in 0..2, NEW time \in Nat,
           Sound(s, n, time), CutFor(s, asked), asked \in Intervals \cup {0},
           calls \in 0..MaxCalls, Calls(s, op, us, n, time)
    PROVE  /\ Sound(t', ticks', elapsed') /\ CutFor(t', asked')
           /\ asked' \in Intervals \cup {0} /\ ticks' \in 0..2 /\ elapsed' \in Nat
           /\ calls' \in 0..MaxCalls
<1>1. Sound(t', ticks', elapsed') /\ CutFor(t', asked')
  BY CallSound DEF Calls
<1>2. asked' \in Intervals \cup {0}
  BY DEF Calls
<1>3. ticks' \in 0..2 /\ elapsed' \in Nat
  BY DEF Calls
<1>4. calls' \in 0..MaxCalls
  BY WidthAssumption DEF Calls
<1> QED
  BY <1>1, <1>2, <1>3, <1>4

LEMMA NextInv == Inv /\ [Next]_vars => Inv'
<1> SUFFICES ASSUME Inv, [Next]_vars PROVE Inv'
  OBVIOUS
<1>1. ASSUME NEW op \in Ops, NEW us \in Intervals, Application(op, us) PROVE Inv'
  <2>1. last' = last /\ Calls(t, op, us, ticks, elapsed)
    BY <1>1 DEF Application
  <2>2. TickOnTime'
    BY <2>1 DEF Inv, TickOnTime, divider
  <2> QED
    BY <2>1, <2>2, CallsInv DEF Inv
<1>2. ASSUME t.armed, ~isPart, last' = waited PROVE TickOnTime' /\ last' \in [waited : Nat, asked : Nat]
  <2>1. last'.asked = asked
    BY <1>2 DEF waited
  <2> QED
    BY <1>2, <2>1, WaitedOnTime DEF TickOnTime, divider
<1>3. ASSUME NEW op \in Ops, NEW us \in Intervals, FireCalling(op, us) PROVE Inv'
  <2>1. t.armed /\ ~isPart /\ last' = waited /\ Calls(dueTimer, op, us, moreTicks, 0)
    BY <1>3 DEF FireCalling
  <2>2. Sound(dueTimer, moreTicks, 0) /\ CutFor(dueTimer, asked) /\ moreTicks \in 0..2
    BY <2>1, DueSound
  <2> QED
    BY <1>2, <2>1, <2>2, CallsInv DEF Inv
<1>4. CASE FireIdle
  <2>1. /\ t.armed /\ ~isPart /\ last' = waited /\ elapsed' = 0
        /\ t' = (IF dueTimer.callback THEN dueTimer ELSE stop(dueTimer))
        /\ ticks' = (IF t.callback THEN moreTicks ELSE ticks) /\ asked' = asked /\ calls' = calls
    BY <1>4 DEF FireIdle
  <2>2. /\ Sound(dueTimer, moreTicks, 0) /\ CutFor(dueTimer, asked) /\ moreTicks \in 0..2
        /\ dueTimer.callback = t.callback
    BY <2>1, DueSound
  <2>3. CASE t.callback
    BY <1>2, <2>1, <2>2, <2>3 DEF Inv
  <2>4. CASE ~t.callback
    <3>1. /\ Sound(stop(dueTimer), moreTicks, 0) /\ CutFor(stop(dueTimer), asked)
          /\ ~stop(dueTimer).armed
      BY <2>2, StopSound
    <3>2. ~stop(dueTimer).started /\ stop(dueTimer).repeating = t.repeating
      <4>1. dueTimer \in TimerType /\ (~dueTimer.started => dueTimer.longIntervalCounter = 0)
        BY <2>2 DEF Sound, Counted
      <4>2. t \in TimerType
        BY DEF Inv, Sound, Counted
      <4>3. dueTimer.repeating = t.repeating
        BY <4>2, StopEffect DEF dueTimer, fired, stop, TimerType
      <4> QED
        BY <4>1, <4>3, StopEffect
    <3>3. ~t.repeating => ticks = 0
      BY <2>1 DEF Inv, Sound, Running
    <3>4. Running(stop(dueTimer), ticks)
      BY <3>1, <3>2, <3>3 DEF Running
    <3>5. Sound(t', ticks', elapsed') /\ CutFor(t', asked')
      BY <2>1, <2>2, <2>4, <3>1, <3>4 DEF Sound
    <3> QED
      BY <1>2, <2>1, <2>4, <3>5 DEF Inv
  <2> QED
    BY <2>3, <2>4
<1>5. CASE FirePart
  <2> DEFINE c == t.longIntervalCounter
  <2>1. t \in TimerType /\ Sound(t, ticks, elapsed) /\ CutFor(t, asked)
    BY DEF Inv, Sound, Counted
  <2>2. c \in Nat /\ t.longIntervalCounterLimit \in Nat /\ t.period \in Nat
    BY <2>1 DEF TimerType
  <2>3. /\ t' = [fired EXCEPT !.longIntervalCounter = c + 1] /\ t.armed
        /\ t.longIntervalCounterLimit > 0 /\ c + 1 < t.longIntervalCounterLimit
        /\ elapsed' = elapsed + t.period
        /\ asked' = asked /\ ticks' = ticks /\ last' = last /\ calls' = calls
    BY <1>5 DEF FirePart, isPart, counted
  <2>4. t.started /\ t.osRepeat /\ elapsed = c * t.period
    BY <2>1, <2>3 DEF Sound, Running, Passed
  <2>5. /\ t' \in TimerType /\ t'.armed /\ t'.started /\ t'.longIntervalCounter = c + 1
        /\ t'.longIntervalCounterLimit = t.longIntervalCounterLimit /\ t'.interval = t.interval
        /\ t'.period = t.period /\ t'.osRepeat = t.osRepeat /\ t'.repeating = t.repeating
    <3> DEFINE f == fired
               r == [f EXCEPT !.longIntervalCounter = c + 1]
    <3>1. /\ f \in TimerType /\ f.armed /\ f.started
          /\ f.longIntervalCounterLimit = t.longIntervalCounterLimit /\ f.interval = t.interval
          /\ f.period = t.period /\ f.osRepeat = t.osRepeat /\ f.repeating = t.repeating
      BY <2>1, <2>4 DEF fired, TimerType
    <3>2. t' = r /\ c + 1 \in Nat
      BY <2>2, <2>3
    <3> HIDE DEF f, c
    <3>3. /\ r \in TimerType /\ r.armed /\ r.started /\ r.longIntervalCounter = c + 1
          /\ r.longIntervalCounterLimit = f.longIntervalCounterLimit /\ r.interval = f.interval
          /\ r.period = f.period /\ r.osRepeat = f.osRepeat /\ r.repeating = f.repeating
      BY <3>1, <3>2 DEF TimerType
    <3> HIDE DEF r
    <3> QED
      BY <3>1, <3>2, <3>3
  <2>6. Counted(t') /\ CutFor(t', asked')
    BY <2>1, <2>2, <2>3, <2>5 DEF Counted, CutFor
  <2>7. Running(t', ticks')
    BY <2>1, <2>3, <2>5 DEF Sound, Running
  <2>8. Passed(t', elapsed') /\ elapsed' \in Nat
    <3>1. c * t.period + t.period = (c + 1) * t.period /\ (c + 1) * t.period \in Nat
      BY <2>2
    <3> QED
      BY <2>3, <2>4, <2>5, <3>1 DEF Passed
  <2>9. TickOnTime'
    BY <2>3 DEF Inv, TickOnTime, divider
  <2> QED
    BY <2>3, <2>6, <2>7, <2>8, <2>9 DEF Inv, Sound
<1>6. CASE UNCHANGED vars
  BY <1>6 DEF vars, Inv, Sound, Counted, Running, Passed, CutFor, TickOnTime, divider, TimerType
<1> QED
  BY <1>1, <1>3, <1>4, <1>5, <1>6 DEF Next

LEMMA SpecInv == Spec => []Inv
  BY InitInv, NextInv, PTL DEF Spec

\* Type correctness: no part of an interval is longer than the OS timer can
\* measure, and the count of parts never overflows its 16 bits.
THEOREM TypeCorrect == Spec => []TypeOK
<1>1. Inv => TypeOK
  <2> SUFFICES ASSUME Inv PROVE TypeOK
    OBVIOUS
  <2> DEFINE w == 0..(Width - 1)
             os == 0..MAX_OS_TIMER_INTERVAL_US
  <2>1. asked \in Nat /\ divider(asked) \in Nat /\ (asked > MAX => divider(asked) < Width)
    <3>1. asked \in Nat /\ (asked \in Intervals => divider(asked) < Width)
      BY IntervalsAssumption DEF Inv, divider
    <3>2. asked > MAX => asked \in Intervals
      BY MaxOsAssumption DEF Inv, MAX
    <3> QED
      BY <3>1, <3>2, DividerFacts
  <2>2. t \in TimerType
    BY DEF Inv, Sound, Counted
  <2>3. t.interval \in os
    BY <2>1, <2>2, DividerFacts, MaxOsAssumption DEF Inv, CutFor, MAX, TimerType
  <2>4. t.longIntervalCounterLimit \in w /\ t.longIntervalCounter \in w
    <3>1. t.longIntervalCounterLimit < Width
      BY <2>1, WidthAssumption DEF Inv, CutFor
    <3>2. t.longIntervalCounter <= t.longIntervalCounterLimit
      BY <2>2 DEF Inv, Sound, Counted, TimerType
    <3>3. t.longIntervalCounterLimit \in Nat /\ t.longIntervalCounter \in Nat
      BY <2>2 DEF TimerType
    <3>4. \A l, c, n \in Nat : l < n /\ c <= l => l \in 0..(n - 1) /\ c \in 0..(n - 1)
      OBVIOUS
    <3> QED
      BY <3>1, <3>2, <3>3, <3>4, WidthAssumption
  <2>5. t.period \in os
    BY <2>2 DEF TimerType, MAX
  <2> QED
    BY <2>1, <2>2, <2>3, <2>4, <2>5 DEF Inv, TypeOK, TimerType
<1> QED
  BY SpecInv, <1>1, PTL

\* Timer.cpp:56-83 and 147-168: the OS timer runs for a timer exactly while it is
\* started and has to call.
THEOREM ArmedCorrect == Spec => []ArmedIffDue
<1>1. Inv => ArmedIffDue
  BY DEF Inv, Sound, Counted, Running, ArmedIffDue
<1> QED
  BY SpecInv, <1>1, PTL

\* Timer.cpp:147-168: a one-shot timer calls once, in however many parts.
THEOREM OneShotCorrect == Spec => []OneShotOnce
<1>1. Inv => OneShotOnce
  BY DEF Inv, Sound, Running, OneShotOnce
<1> QED
  BY SpecInv, <1>1, PTL

\* Timer.cpp:61-108 and 147-168: the callback comes when the interval has passed,
\* early by no more than was rounded off, whatever the interval.
THEOREM OnTime == Spec => []TickOnTime
<1>1. Inv => TickOnTime
  BY DEF Inv
<1> QED
  BY SpecInv, <1>1, PTL
=============================================================================
