--------------------------- MODULE FractionalIndex ---------------------------
(***************************************************************************)
(* The position strings of blocks (internal/blocks/service.go, Fractional  *)
(* indexing).  A position is a sequence of digits, a character being the   *)
(* digit it stands for in the alphabet; the empty sequence is the empty    *)
(* string, which stands for "no block on that side".                       *)
(***************************************************************************)
EXTENDS Integers, Sequences

CONSTANTS
  Base,    \* the length of the alphabet, 62 in the code
  Digits   \* digits of a rebalanced position, 4 in the code

ASSUME BaseAssumption ==
  /\ Base \in Nat /\ Base >= 3
  /\ Digits \in Nat \ {0}

Digit    == 0 .. Base - 1
MidDigit == Base \div 2
Max0     == Base - 1

String == Seq(Digit)

\* The order of the column (COLLATE "C"): digit by digit, a prefix first.
Less(s, t) ==
  \E k \in 1 .. Len(t) :
    /\ k <= Len(s) + 1
    /\ \A j \in 1 .. k - 1 : s[j] = t[j]
    /\ k <= Len(s) => s[k] < t[k]

\* No string is between the two that the loop could find: next is prev, or
\* prev with zeros after it.
Crowded(prev, next) ==
  /\ prev # <<>>
  /\ Len(prev) <= Len(next)
  /\ \A i \in DOMAIN prev : prev[i] = next[i]
  /\ \A i \in Len(prev) + 1 .. Len(next) : next[i] = 0

\* The digits the loop compares: beyond its end the previous position has
\* only the least digit, and the next one only the greatest.
Low(prev, i)  == IF i <= Len(prev) THEN prev[i] ELSE 0
High(next, i) == IF i <= Len(next) THEN next[i] ELSE Max0

\* The place of the first digit that leaves room between the two: the first
\* one that differs, or after it the first with room below the greatest digit.
Differ(prev, next, i) ==
  /\ Low(prev, i) # High(next, i)
  /\ \A j \in 1 .. i - 1 : Low(prev, j) = High(next, j)

HasGap(low, high) == high - low > 1

Opens(prev, i, k) ==
  /\ HasGap(Low(prev, k), Max0)
  /\ \A j \in i + 1 .. k - 1 : ~HasGap(Low(prev, j), Max0)

\* Mutant: the middle is rounded up to the next position's digit.
SplitUp(prev, k, high) ==
  [j \in 1 .. k |-> IF j < k THEN Low(prev, j) ELSE high]

\* prev up to the place k, and there the middle of its digit and the other.
Split(prev, k, high) ==
  [j \in 1 .. k |->
     IF j < k THEN Low(prev, j)
     ELSE Low(prev, j) + (high - Low(prev, j)) \div 2]

Between(prev, next) ==
  LET i == CHOOSE i \in 1 .. Len(prev) + Len(next) + 1 : Differ(prev, next, i)
  IN  IF HasGap(Low(prev, i), High(next, i))
      THEN Split(prev, i, High(next, i))
      ELSE Split(prev,
             CHOOSE k \in i + 1 .. i + Len(prev) + 1 : Opens(prev, i, k), Max0)

\* The last place whose digit is not d.
IsLastOther(s, d, i) ==
  i \in DOMAIN s /\ s[i] # d /\ \A j \in i + 1 .. Len(s) : s[j] = d
LastOther(s, d) == CHOOSE i \in DOMAIN s : IsLastOther(s, d, i)

\* The last digit that can be is decreased, with a middle digit after a zero.
Before(next) ==
  LET i == LastOther(next, 0)
  IN  CASE \A j \in DOMAIN next : next[j] = 0 -> <<0, MidDigit>>
        [] OTHER -> SubSeq(next, 1, i - 1) \o
                      (IF next[i] = 1 THEN <<0, MidDigit>> ELSE <<next[i] - 1>>)

\* Mutant: the greatest digit is increased too.
AfterOverflows(prev) == [prev EXCEPT ![Len(prev)] = @ + 1]

\* The last digit that can be is increased.
After(prev) ==
  LET i == LastOther(prev, Max0)
  IN  IF \A j \in DOMAIN prev : prev[j] = Max0 THEN prev \o <<MidDigit>>
      ELSE SubSeq(prev, 1, i - 1) \o <<prev[i] + 1>>

CalculateMiddlePosition(prev, next) ==
  CASE prev = <<>> /\ next = <<>> -> <<MidDigit>>
    [] prev = <<>> /\ next # <<>> -> Before(next)
    [] prev # <<>> /\ next = <<>> -> After(prev)
    [] OTHER                      -> Between(prev, next)

\* What long division of num by denom has left after each digit.
Remainders(num, denom) ==
  LET rest[i \in 0 .. Digits] ==
        IF i = 0 THEN num ELSE (rest[i - 1] * Base) % denom
  IN  rest

\* The digit that the division finds with `rest' left.
Quotient(rest, denom) ==
  LET digit == (rest * Base) \div denom
  IN  IF digit > Max0 THEN Max0 ELSE digit

\* The first Digits digits of the fraction num/denom, up to the one that
\* leaves nothing.
IndexToPosition(num, denom) ==
  LET rest   == Remainders(num, denom)
      length == CHOOSE k \in 1 .. Digits :
                  /\ k = Digits \/ rest[k] = 0
                  /\ \A j \in 1 .. k - 1 : rest[j] # 0
  IN  [i \in 1 .. length |-> Quotient(rest[i - 1], denom)]
===============================================================================
