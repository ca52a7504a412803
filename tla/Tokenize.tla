------------------------------- MODULE Tokenize -------------------------------
(***************************************************************************)
(* Warhead::Tokenize, the loop over the separators of a string, with and   *)
(* without the empty tokens.  Log reads every option of the configuration  *)
(* through it.  A token is the pair of its first position and the position *)
(* behind it, as a string_view is.                                         *)
(***************************************************************************)
EXTENDS Naturals, SequencesExt

CONSTANTS
    Letters,        \* what is not a separator
    MaxLength       \* bound on the strings

Sep == "sep"

VARIABLES str, keepEmpty, start, tokens, done

vars == <<str, keepEmpty, start, tokens, done>>

\* Positions count from 0, as in the code.
At(i) == str[i + 1]
npos == Len(str) + 1

TypeOK ==
    /\ str \in BoundedSeq(Letters \cup {Sep}, MaxLength)
    /\ keepEmpty \in BOOLEAN /\ done \in BOOLEAN
    /\ start \in 0..Len(str)
    /\ \A i \in DOMAIN tokens :
         tokens[i].from \in 0..Len(str) /\ tokens[i].to \in tokens[i].from..Len(str)

Init ==
    /\ str \in BoundedSeq(Letters \cup {Sep}, MaxLength)
    /\ keepEmpty \in BOOLEAN
    /\ start = 0
    /\ tokens = <<>>
    /\ done = FALSE

(* str.find(sep, start)                                                    *)
find == Min({i \in start..Len(str) - 1 : At(i) = Sep} \cup {npos})

\* Mutant of Pushed: an empty token is never pushed.
PushedNonEmpty(from, to) ==
    IF from < to THEN Append(tokens, [from |-> from, to |-> to]) ELSE tokens

Pushed(from, to) ==
    IF keepEmpty \/ from < to THEN Append(tokens, [from |-> from, to |-> to]) ELSE tokens

FoundSep ==
    /\ ~done /\ find # npos
    /\ tokens' = Pushed(start, find)
    /\ start' = find + 1
    /\ UNCHANGED <<str, keepEmpty, done>>

Rest ==
    /\ ~done /\ find = npos
    /\ tokens' = Pushed(start, Len(str))
    /\ done' = TRUE
    /\ UNCHANGED <<str, keepEmpty, start>>

Next == FoundSep \/ Rest

Spec == Init /\ [][Next]_vars

-----------------------------------------------------------------------------
Text(token) == SubSeq(str, token.from + 1, token.to)

(* With the empty tokens kept nothing of the string is lost: joined by the *)
(* separator the tokens are the string again, so that the position of an   *)
(* option, which GetPositionOptions counts, is that of the configuration   *)
(* line, also when options before it are empty.                            *)
JoinGivesString ==
    done /\ keepEmpty =>
        /\ tokens # <<>>
        /\ FoldLeft(LAMBDA joined, token : joined \o <<Sep>> \o Text(token),
                    Text(Head(tokens)), Tail(tokens)) = str

(* Without them the tokens are the longest runs without a separator, each  *)
(* once and in the order of the string.                                    *)
TokensAreRuns ==
    done /\ ~keepEmpty =>
        LET runs == {r \in [from : 0..Len(str), to : 0..Len(str)] :
                        /\ r.from < r.to
                        /\ \A i \in r.from..r.to - 1 : At(i) # Sep
                        /\ r.from > 0 => At(r.from - 1) = Sep
                        /\ r.to < Len(str) => At(r.to) = Sep}
        IN tokens = SetToSortSeq(runs, LAMBDA a, b : a.from < b.from)

=============================================================================
