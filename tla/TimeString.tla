------------------------------ MODULE TimeString ------------------------------
(***************************************************************************)
(* Warhead::Time::ToTimeString: a duration in microseconds is cut into     *)
(* days, hours, minutes, seconds, milliseconds and microseconds, and the   *)
(* parts that are not zero are appended, three at most.  Callers that have *)
(* milliseconds, seconds or minutes come through a template that           *)
(* multiplies in 64 bits without sign; the duration itself is signed.      *)
(*                                                                         *)
(* The text is a row of parts, each a unit and a value.  The radixes and   *)
(* the width of a word are constants, so that words run over in a small    *)
(* model as they do in the code.                                           *)
(***************************************************************************)
EXTENDS Integers, Sequences, Functions

CONSTANTS
    Radix,          \* us per ms, ms per s, s per min, min per hour, hours per day
    Word,           \* 2^64
    Half            \* 2^32

Microseconds == 1
Days == 6
Units == Microseconds..Days
Formats == {"FullText", "ShortText", "Numeric"}

\* TimeDiff: the microseconds in a unit.
Factor[u \in Units] == IF u = Microseconds THEN 1 ELSE Radix[u - 1] * Factor[u - 1]

VARIABLES
    asked,          \* the call: its number, unit and format
    duration,       \* durationTime.count(), signed
    unit,           \* the unit AddOut is called for next, 0 at the end
    out             \* the parts appended so far

vars == <<asked, duration, unit, out>>

Parts == [unit : Units, value : 0..Word - 1]

TypeOK ==
    /\ asked \in [count : 0..Word - 1, unit : Units, format : Formats]
    /\ duration \in -(Word \div 2)..Word - 1
    /\ unit \in 0..Days
    /\ out \in Seq(Parts) /\ Len(out) <= 3

Signed(word) == IF 2 * word < Word THEN word ELSE word - Word

(* The templates multiply without sign, in a word.                         *)
Product(count, u) == (count * Factor[u]) % Word

(* The templates exist for microseconds to minutes.                        *)
Init ==
    /\ \E count \in 0..Word - 1, u \in Microseconds..4, format \in Formats :
         /\ asked = [count |-> count, unit |-> u, format |-> format]
         /\ duration = Signed(Product(count, u))
    /\ unit = Days
    /\ out = <<>>

(* Divided by a constant without sign a negative duration becomes the word *)
(* it is stored as; only the microseconds are the signed remainder, stored *)
(* without sign.                                                           *)
Part(u) ==
    CASE u = Microseconds /\ duration < 0 -> (-((-duration) % Radix[1])) % Word
      [] u = Days -> (duration % Word) \div Factor[u]
      [] OTHER -> ((duration % Word) \div Factor[u]) % Radix[u]

Printed(value) == IF asked.format = "Numeric" THEN value ELSE value % Half

(* AddOut and AddOutNumerlic take the same parts; the numeric text leaves  *)
(* the names of the units out, the others take a value of 32 bits.         *)
AddOut ==
    /\ unit > 0
    /\ out' = IF Part(unit) # 0 /\ Len(out) < 3
              THEN Append(out, [unit |-> unit, value |-> Printed(Part(unit))])
              ELSE out
    /\ unit' = unit - 1
    /\ UNCHANGED <<asked, duration>>

Next == AddOut

Spec == Init /\ [][Next]_vars

-----------------------------------------------------------------------------
Shown == FoldFunction(LAMBDA part, sum : sum + part.value * Factor[part.unit], 0, out)
Exact == asked.count * Factor[asked.unit]

(* A duration that fits is never overstated, and what the text leaves out  *)
(* is less than one of the smallest unit it shows, or nothing if it shows  *)
(* fewer than three parts: leaving zeros out and stopping after three may  *)
(* not skip a part that matters.  (The examples of the formats in Timer.h  *)
(* have five parts; ToTimeString never appends more than three.)           *)
ShownIsFloor ==
    unit = 0 /\ 2 * Exact < Word =>
        /\ Shown <= Exact
        /\ Exact - Shown < IF Len(out) = 3 THEN Factor[out[3].unit] ELSE 1

(* A text that names its units can be read in one way only: each part      *)
(* below the days is less than one of the next larger unit, and the parts  *)
(* come from the largest unit to the smallest.  The numeric text does not  *)
(* name them, and cannot: an hour and five seconds, and a minute and five  *)
(* milliseconds, are both 1:05.                                            *)
PartsInRange ==
    asked.format # "Numeric" =>
        /\ \A i \in DOMAIN out :
             duration >= 0 /\ out[i].unit < Days => out[i].value < Radix[out[i].unit]
        /\ \A i, j \in DOMAIN out : i < j => out[i].unit > out[j].unit

=============================================================================
