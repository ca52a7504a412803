-------------------------------- MODULE Timer --------------------------------
(***************************************************************************)
(* The millisecond clock and the timers of Timer.h in the loop they are    *)
(* made for: at each tick the loop takes getMSTimeDiff from the last tick  *)
(* to now, updates every timer with it, and resets those that have passed. *)
(* getMSTime() is the real time modulo the range of uint32, which is twice *)
(* that of the int32 values >= 0; time_t is wide enough not to overflow.   *)
(* A tick may take as long as getMSTimeDiff can tell, up to the range of   *)
(* the clock (49 days).                                                    *)
(***************************************************************************)
EXTENDS Integers

CONSTANTS
    Half,           \* one more than the greatest int32
    MaxTick,        \* the longest tick in milliseconds
    MaxPeriod,      \* bound on intervals and periods
    MaxNow          \* bound on the real time

Modulus == 2 * Half     \* one more than the greatest uint32

TimerAssumption ==
    /\ Half \in Nat /\ MaxTick \in Nat /\ MaxPeriod \in Nat /\ MaxNow \in Nat
    /\ MaxTick < Modulus /\ MaxPeriod < Half

VARIABLES
    now,        \* the real time since the application started
    last,       \* what getMSTime() returned at the last tick
    elapsed,    \* history: the sum of the differences
    interval,   \* IntervalTimer: _interval, _current
    small,      \* TimeTrackerSmall: i_expiryTime, what it is reset to, and history: when it was
    wide,       \* TimeTracker: the same
    periodic,   \* PeriodicTimer: i_period, i_expireTime
    start,      \* history: what _current and i_expireTime were at the start
    long        \* history: some difference was no int32

vars == <<now, last, elapsed, interval, small, wide, periodic, start, long>>

Signed(n) == ((n + Half) % Modulus) - Half
getMSTime(t) == t % Modulus

\* Mutant of getMSTimeDiff: the overflow is not handled, and the clock runs backwards.
getMSTimeDiffPlain(oldMSTime, newMSTime) ==
    IF oldMSTime > newMSTime THEN oldMSTime - newMSTime ELSE newMSTime - oldMSTime

getMSTimeDiff(oldMSTime, newMSTime) ==
    IF oldMSTime > newMSTime
    THEN (Modulus - 1 - oldMSTime) + newMSTime
    ELSE newMSTime - oldMSTime

TypeOK ==
    /\ now \in 0..MaxNow /\ last \in 0..Modulus - 1 /\ elapsed \in 0..MaxNow
    /\ interval \in [interval : 1..MaxPeriod, current : 0..MaxPeriod - 1]
    /\ small \in [expiry : -Half..Half - 1, period : 1..MaxPeriod, began : 0..MaxNow]
    /\ wide \in [expiry : 1..MaxPeriod, period : 1..MaxPeriod, began : 0..MaxNow]
    /\ periodic \in [period : 1..MaxPeriod, expire : -Half..Half - 1]
    /\ long \in BOOLEAN

Init ==
    /\ now = 0 /\ last = 0 /\ elapsed = 0 /\ long = FALSE
    /\ \E p \in 1..MaxPeriod, c \in 0..MaxPeriod - 1 :
         /\ c < p
         /\ interval = [interval |-> p, current |-> c]
         /\ small = [expiry |-> p, period |-> p, began |-> 0]
         /\ wide = [expiry |-> p, period |-> p, began |-> 0]
    /\ \E p, s \in 1..MaxPeriod : periodic = [period |-> p, expire |-> s]
    /\ start = [current |-> interval.current, expire |-> periodic.expire]

-----------------------------------------------------------------------------
(* IntervalTimer::Update, Passed and Reset.                                *)

IntervalReset(t) == IF t.current >= t.interval THEN [t EXCEPT !.current = @ % t.interval] ELSE t

IntervalUpdate(t, diff) ==
    [t EXCEPT !.current = IF @ + diff < 0 THEN 0 ELSE @ + diff]

(* TimeTrackerSmall: counts down, and has passed at 0 or below.  A         *)
(* difference from Half on becomes a negative int32, which puts the time   *)
(* off, and may run over; that is undefined, and wraps here.               *)
SmallUpdate(t, diff) == [t EXCEPT !.expiry = Signed(@ - diff)]

(* TimeTracker: the same with time_t.                                      *)
WideUpdate(t, diff) == [t EXCEPT !.expiry = @ - diff]

Passed(t) == t.expiry <= 0
Reset(t, time) == [t EXCEPT !.expiry = t.period, !.began = time]

(* PeriodicTimer::Update; the next time is never in the past: a tick that  *)
(* is longer than the period moves it by the tick.                         *)
PeriodicPassed(t, diff) == Signed(t.expire - diff) <= 0

PeriodicStep(t, diff) == IF t.period > Signed(diff) THEN t.period ELSE diff

PeriodicUpdate(t, diff) ==
    [t EXCEPT !.expire = Signed(@ - diff + IF PeriodicPassed(t, diff) THEN PeriodicStep(t, diff) ELSE 0)]

(* Its tracker interface: the caller asks TPassed and calls TReset.        *)
TUpdate(t, diff) == [t EXCEPT !.expire = Signed(@ - diff)]
TPassed(t) == t.expire <= 0
TReset(t, diff, period) ==
    [t EXCEPT !.expire = Signed(@ + IF period > Signed(diff) THEN period ELSE Signed(diff))]

AsTracker(t, diff) ==
    LET updated == TUpdate(t, diff)
    IN  IF TPassed(updated) THEN TReset(updated, diff, t.period) ELSE updated

-----------------------------------------------------------------------------
Tick ==
    \E d \in 0..MaxTick :
        LET time == getMSTime(now + d)
            diff == getMSTimeDiff(last, time)
            shorter == SmallUpdate(small, diff)
            shorterWide == WideUpdate(wide, diff)
        IN /\ now + d <= MaxNow
           /\ now' = now + d
           /\ last' = time
           /\ elapsed' = elapsed + diff
           /\ interval' = IntervalReset(IntervalUpdate(interval, diff))
           /\ small' = IF Passed(shorter) THEN Reset(shorter, elapsed') ELSE shorter
           /\ wide' = IF Passed(shorterWide) THEN Reset(shorterWide, elapsed') ELSE shorterWide
           /\ periodic' \in {PeriodicUpdate(periodic, diff), AsTracker(periodic, diff)}
           /\ long' = (long \/ diff >= Half)
           /\ UNCHANGED start

Spec == Init /\ [][Tick]_vars

-----------------------------------------------------------------------------
(* The loop's time falls behind the real time by exactly one millisecond   *)
(* each time the clock wraps, and by nothing else.                         *)
OneLostPerWrap == elapsed = now - (now \div Modulus)

(* An IntervalTimer keeps its rhythm: however long the ticks are, what is  *)
(* over the interval when it passes counts for the next one.               *)
IntervalNoDrift == interval.current = (start.current + elapsed) % interval.interval

(* A tracker has passed as soon as its time is over, and not before: what  *)
(* is left and what has gone make up the period.  A TimeTrackerSmall does  *)
(* only as long as no difference was too long for an int32 (24 days).      *)
Exact(t) ==
    /\ t.expiry = t.period - (elapsed - t.began)
    /\ elapsed - t.began < t.period

TrackersExact == Exact(wide) /\ (~long => Exact(small))

(* A PeriodicTimer that was due is due again later, never at once, and not *)
(* later than its period after the end of the tick, or its first time,     *)
(* whichever of its two interfaces is used; with differences that are      *)
(* int32, again.                                                           *)
PeriodicDue ==
    ~long => /\ periodic.expire > 0
             /\ periodic.expire <= periodic.period \/ periodic.expire <= start.expire

=============================================================================
