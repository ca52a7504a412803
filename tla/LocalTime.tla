------------------------------ MODULE LocalTime ------------------------------
(***************************************************************************)
(* The local-time helpers of Timer.cpp: TimeBreakdown, for which 0 means   *)
(* now, the getters of single fields, and GetLocalHourTimestamp, the next  *)
(* moment at which the local clock shows a given hour; and the packed time *)
(* of ByteBuffer.cpp, a local time in 32 bits.  The clock goes on while a  *)
(* caller reads one field after the other, and the time zone changes its   *)
(* offset once, as at the end or the beginning of summer time.  In one     *)
(* behaviour the caller does one thing: it reads fields, asks for an hour, *)
(* or packs a time and unpacks it again.                                   *)
(*                                                                         *)
(* The fields below the hour, and those from the day on, are one each:     *)
(* a moment is a day, an hour and a tick of it.                            *)
(***************************************************************************)
EXTENDS Integers

CONSTANTS
    Minute,         \* ticks of a minute
    Hour,           \* ticks of an hour
    Hours,          \* hours of a day
    MaxTime,        \* bound on the times asked about
    MaxNow,         \* bound on the clock
    Offsets,        \* offsets of the time zone
    PackedDays      \* days of the 32 years a packed time can tell apart

Day == Hours * Hour

(* The clock is past the first day of the epoch, for good.                 *)
LocalTimeAssumption ==
    /\ {Minute, Hour, Hours, PackedDays} \subseteq Nat \ {0}
    /\ MaxTime \in Nat /\ MaxNow \in Nat /\ Day <= MaxNow /\ Offsets \subseteq Int

Fields == {"tick", "hour", "day"}
Calls == [of : {"fields", "packed"}]
         \cup [of : {"hour"}, hour : 0..Hours - 1, onlyAfterTime : BOOLEAN]

VARIABLES
    now,            \* GetEpochTime()
    zone,           \* the offsets before and from a moment on
    call,           \* what the caller does
    time,           \* the time it asks about
    moment,         \* history: the moment that is; for time 0, when it first asked; or none yet
    read,           \* the fields it has read
    stamp,          \* the result of GetLocalHourTimestamp, or none yet
    packed,         \* what AppendPackedTime has appended, or none yet
    unpacked        \* what ReadPackedTime has made of it, or none yet

vars == <<now, zone, call, time, moment, read, stamp, packed, unpacked>>

TypeOK ==
    /\ now \in Day..MaxNow /\ time \in 0..MaxTime
    /\ zone \in [switch : 1..MaxNow, before : Offsets, from : Offsets]
    /\ call \in Calls
    /\ moment = <<>> \/ moment[1] \in 1..MaxTime \cup Day..MaxNow
    /\ DOMAIN read \subseteq Fields
    /\ "tick" \in DOMAIN read => read["tick"] \in 0..Hour - 1
    /\ "hour" \in DOMAIN read => read["hour"] \in 0..Hours - 1
    /\ stamp = <<>> \/ stamp[1] \in Int
    /\ unpacked = <<>> \/ unpacked[1] \in Int

Init ==
    /\ now = Day
    /\ zone \in [switch : 1..MaxNow, before : Offsets, from : Offsets]
    /\ call \in Calls
    /\ time \in 0..MaxTime
    /\ read = [f \in {} |-> 0]
    /\ moment = <<>> /\ stamp = <<>> /\ packed = <<>> /\ unpacked = <<>>

(* localtime_r and mktime: the offset found for a moment goes into         *)
(* tm_isdst, and mktime takes it from there.                               *)
Offset(t) == IF t < zone.switch THEN zone.before ELSE zone.from
localtime(t) ==
    LET local == t + Offset(t)
    IN [day |-> local \div Day, hour |-> (local % Day) \div Hour, tick |-> local % Hour,
        offset |-> Offset(t)]
mktime(tm) == tm.day * Day + tm.hour * Hour + tm.tick - tm.offset

TimeBreakdown(t) == localtime(IF t = 0 THEN now ELSE t)

Asked == moment' = IF moment # <<>> THEN moment ELSE <<IF time = 0 THEN now ELSE time>>

(* GetSeconds to GetYear.                                                  *)
GetField(f) ==
    /\ call.of = "fields" /\ f \notin DOMAIN read
    /\ read' = [g \in DOMAIN read \cup {f} |->
                  IF g = f THEN TimeBreakdown(IF time = 0 THEN now ELSE time)[f] ELSE read[g]]
    /\ Asked
    /\ UNCHANGED <<now, zone, call, time, stamp, packed, unpacked>>

GetLocalHourTimestamp ==
    /\ call.of = "hour" /\ stamp = <<>>
    /\ LET midnight == mktime([TimeBreakdown(time) EXCEPT !.hour = 0, !.tick = 0])
           hourLocal == midnight + call.hour * Hour
       IN stamp' = <<IF call.onlyAfterTime /\ hourLocal <= time THEN hourLocal + Day ELSE hourLocal>>
    /\ Asked
    /\ UNCHANGED <<now, zone, call, time, read, packed, unpacked>>

(* The seconds are left out.                                               *)
AppendPackedTime ==
    /\ call.of = "packed" /\ packed = <<>>
    /\ LET lt == TimeBreakdown(time)
       IN  packed' = <<[day |-> lt.day, hour |-> lt.hour, minute |-> lt.tick \div Minute]>>
    /\ Asked
    /\ UNCHANGED <<now, zone, call, time, read, stamp, unpacked>>

(* tm() leaves tm_isdst 0: mktime counts with the offset of winter time.   *)
Winter == IF zone.before < zone.from THEN zone.before ELSE zone.from

ReadPackedTime ==
    /\ packed # <<>> /\ unpacked = <<>>
    /\ LET lt == [day |-> packed[1].day % PackedDays, hour |-> packed[1].hour,
                   tick |-> packed[1].minute * Minute, offset |-> Winter]
       IN  unpacked' = <<mktime(lt)>>
    /\ UNCHANGED <<now, zone, call, time, moment, read, stamp, packed>>

ClockTicks ==
    /\ now < MaxNow
    /\ now' = now + 1
    /\ UNCHANGED <<zone, call, time, moment, read, stamp, packed, unpacked>>

Next == (\E f \in Fields : GetField(f)) \/ GetLocalHourTimestamp
        \/ AppendPackedTime \/ ReadPackedTime \/ ClockTicks

Spec == Init /\ [][Next]_vars

-----------------------------------------------------------------------------
(* The next local hour is after the time asked about and at most a day     *)
(* away, also on the days on which the offset changes and have an hour     *)
(* more or less: the hour is counted with the offset of that time.  Asked  *)
(* for time 0, the code compares with 0 and not with now: the hour is one  *)
(* of this day, and may be over, as it may where onlyAfterTime is not set. *)
NextHour ==
    stamp # <<>> =>
        IF call.onlyAfterTime /\ time # 0
        THEN stamp[1] > time /\ stamp[1] - time <= Day
        ELSE stamp[1] > moment[1] - Day /\ stamp[1] < moment[1] + Day

(* At that moment the local clock shows the hour sharp, unless the offset  *)
(* has changed between the time asked about and then: after that the clock *)
(* is wrong by the change, neither more nor less.                          *)
HourSharp ==
    stamp # <<>> =>
        (stamp[1] + Offset(stamp[1])) % Day =
            (call.hour * Hour + Offset(stamp[1]) - Offset(moment[1])) % Day

SameHour(s, t) ==
    Offset(s) = Offset(t) /\ (s + Offset(s)) \div Hour = (t + Offset(t)) \div Hour

(* Fields read one after the other, while the clock goes on, give the time *)
(* asked about when they are put together; for time 0 each is that of      *)
(* another now, and they give a moment since the first was read only when  *)
(* no hour has begun and the offset has not changed since.                 *)
FieldsOfOneMoment ==
    DOMAIN read = Fields =>
        LET together == mktime([day |-> read["day"], hour |-> read["hour"],
                                tick |-> read["tick"], offset |-> Offset(moment[1])])
        IN IF time # 0 THEN together = time
           ELSE SameHour(moment[1], now) => moment[1] <= together /\ together <= now

(* A packed time comes back as its minute, late by what summer time is     *)
(* ahead when it lies in summer time, and early by 32 years if it lies     *)
(* behind the last year that can be packed.                                *)
PackedTimeBack ==
    unpacked # <<>> =>
        LET local == moment[1] + Offset(moment[1])
        IN  unpacked[1] = moment[1] - ((local % Hour) % Minute) + (Offset(moment[1]) - Winter)
                                    - (local \div (PackedDays * Day)) * PackedDays * Day

=============================================================================
