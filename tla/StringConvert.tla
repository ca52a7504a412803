---------------------------- MODULE StringConvert ----------------------------
(***************************************************************************)
(* StringTo and ToString of the integral types: the choice of a base from  *)
(* a prefix, std::from_chars, and the test that all of the text was used.  *)
(* The port, the levels of loggers and the sizes of log files are read     *)
(* through it.                                                             *)
(*                                                                         *)
(* A text is a row of characters of a small alphabet that has digits of    *)
(* every base, both prefixes and the sign.  Words have Word values.        *)
(***************************************************************************)
EXTENDS Integers, SequencesExt

CONSTANTS
    MaxLength,      \* bound on the texts
    Word            \* 2^w for a type of w bits

Digit == [c \in {"0", "1", "2", "9", "a", "b"} |->
    CASE c = "0" -> 0 [] c = "1" -> 1 [] c = "2" -> 2 [] c = "9" -> 9 [] c = "a" -> 10 [] c = "b" -> 11]
Characters == DOMAIN Digit \cup {"x", "-"}
Bases == {0, 10, 16}

\* std::optional: no value or one.
Nullopt == <<>>

VARIABLES
    asked,          \* the call: text, base and whether T is signed
    text, base,     \* str and base of FromString, as they change
    step, result

vars == <<asked, text, base, step, result>>

IntegerRange(signed) == IF signed THEN -(Word \div 2)..Word \div 2 - 1 ELSE 0..Word - 1

TypeOK ==
    /\ text \in BoundedSeq(Characters, MaxLength)
    /\ base \in Bases \cup {2}
    /\ step \in {"base", "parse", "done"}
    /\ Len(result) <= 1 /\ \A i \in DOMAIN result : result[i] \in IntegerRange(asked.signed)

Init ==
    /\ text \in BoundedSeq(Characters, MaxLength)
    /\ base \in Bases
    /\ \E signed \in BOOLEAN : asked = [text |-> text, base |-> base, signed |-> signed]
    /\ step = "base"
    /\ result = Nullopt

Prefixed(prefix) == Len(text) >= 2 /\ SubSeq(text, 1, 2) = prefix

(* Base 0 asks for the base the prefix names, and nothing but a prefix is  *)
(* no number.                                                              *)
DetectBase ==
    /\ step = "base"
    /\ base' = CASE base # 0 -> base [] Prefixed(<<"0", "x">>) -> 16 [] Prefixed(<<"0", "b">>) -> 2 [] OTHER -> 10
    /\ text' = IF base = 0 /\ base' # 10 THEN SubSeq(text, 3, Len(text)) ELSE text
    /\ step' = IF base = 0 /\ text' = <<>> THEN "done" ELSE "parse"
    /\ UNCHANGED <<asked, result>>

(* std::from_chars: a sign for signed types only, then as many digits of   *)
(* the base as there are.  ptr counts the characters used.                 *)
Sign == IF asked.signed /\ text # <<>> /\ text[1] = "-" THEN 1 ELSE 0
IsDigit(c) == c \in DOMAIN Digit /\ Digit[c] < base
Used == CHOOSE k \in Sign..Len(text) :
            /\ \A i \in Sign + 1..k : IsDigit(text[i])
            /\ k < Len(text) => ~IsDigit(text[k + 1])
Accumulated ==
    FoldLeft(LAMBDA sum, c : sum * base + Digit[c], 0, SubSeq(text, Sign + 1, Used))
from_chars ==
    LET val == IF Sign = 1 THEN -Accumulated ELSE Accumulated
    IN [ptr |-> IF Used = Sign THEN 0 ELSE Used,
        ok |-> Used > Sign /\ val \in IntegerRange(asked.signed),
        val |-> val]

Parse ==
    /\ step = "parse"
    /\ result' = IF from_chars.ptr = Len(text) /\ from_chars.ok THEN <<from_chars.val>> ELSE Nullopt
    /\ step' = "done"
    /\ UNCHANGED <<asked, text, base>>

Next == DetectBase \/ Parse

Spec == Init /\ [][Next]_vars

(* std::to_chars in base 10, as ToString calls it (TLC has the name).      *)
Decimal[n \in Nat] ==
    LET last == n % 10
        c == IF last \in Range(Digit) THEN CHOOSE d \in DOMAIN Digit : Digit[d] = last ELSE "other"
    IN IF n < 10 THEN <<c>> ELSE Append(Decimal[n \div 10], c)
ToText(val) == IF val < 0 THEN <<"-">> \o Decimal[-val] ELSE Decimal[val]

-----------------------------------------------------------------------------
(* Every value of the type comes back from the text ToString makes of it,  *)
(* with the base left to the text or given.                                *)
RoundTrip ==
    step = "done" /\ asked.base # 16 =>
        \A val \in IntegerRange(asked.signed) : asked.text = ToText(val) => result = <<val>>

(* What is accepted is a whole numeral: digits of the base the caller or   *)
(* the prefix names, their sum the value, and the value in the range of    *)
(* the type.  A number followed by anything else is no number.             *)
AcceptedIsNumeral ==
    result # Nullopt =>
        LET digits == SelectSeq(text, LAMBDA c : c # "-")
            sum == FoldFunctionOnSet(LAMBDA x, y : x + y, 0,
                       [i \in DOMAIN digits |-> Digit[digits[i]] * base^(Len(digits) - i)],
                       DOMAIN digits)
        IN /\ digits # <<>> /\ \A i \in DOMAIN digits : Digit[digits[i]] < base
           /\ text = digits \/ (asked.signed /\ text = <<"-">> \o digits)
           /\ result = <<IF text = digits THEN sum ELSE -sum>>
           /\ asked.base # 0 => text = asked.text

=============================================================================
