-------------------------- MODULE BlockOrderProofs --------------------------
(* What the position arithmetic computes for every base, and the theorems of *)
(* BlockOrder for any numbers of teachers, blocks and edits: positions stay  *)
(* positions, a block comes right after the one it was put after, and a      *)
(* rebalance keeps the order.                                                *)
EXTENDS BlockOrder, FiniteSetTheorems, WellFoundedInduction, SequenceTheorems, TLAPS

-----------------------------------------------------------------------------
(* The position between two others (CalculateMiddlePosition)               *)

\* What is true of some natural number has a least one.
LEMMA LeastNatural ==
  ASSUME NEW S \in SUBSET Nat, S # {}
  PROVE  \E m \in S : \A k \in S : m <= k
<1> DEFINE R == OpToRel(<, Nat)
<1>1. \A j, k \in Nat : j < k => <<j, k>> \in R
  BY Zenon DEF OpToRel
<1>2. IsWellFoundedOn(R, Nat)
  BY NatLessThanWellFounded
<1> HIDE DEF R
<1>3. PICK m \in S : \A k \in S : ~(<<k, m>> \in R)
  BY <1>2, WFMin
<1>4. ASSUME NEW k \in S, k < m
      PROVE  FALSE
  <2>1. k \in Nat /\ m \in Nat
    OBVIOUS
  <2> QED
    BY ONLY <2>1, <1>1, <1>3, <1>4, Zenon
<1>5. \A k \in S : m \in Nat /\ k \in Nat /\ ~(k < m)
  BY <1>4
<1> QED
  BY <1>5

\* The first place where the loop finds two different digits.
LEMMA Differs ==
  ASSUME NEW prev \in String, NEW next \in String, NEW n \in Nat \ {0},
         Low(prev, n) # High(next, n)
  PROVE  \E i \in 1 .. n : Differ(prev, next, i)
<1> DEFINE S == {i \in 1 .. n : Low(prev, i) # High(next, i)}
<1>1. S \in SUBSET Nat /\ n \in S
  OBVIOUS
<1>2. PICK i \in S : \A j \in S : i <= j
  <2> HIDE DEF S
  <2> QED
    BY <1>1, LeastNatural
<1>3. i \in 1 .. n /\ Low(prev, i) # High(next, i)
  BY <1>2
<1>4. \A j \in 1 .. i - 1 : j \in 1 .. n /\ ~(j \in S)
  BY <1>2, <1>3
<1> QED
  BY <1>3, <1>4 DEF Differ

\* After it, the first place with room below the greatest digit.
LEMMA OpensSomewhere ==
  ASSUME NEW prev \in String, NEW i \in Nat \ {0}
  PROVE  \E k \in i + 1 .. i + Len(prev) + 1 : Opens(prev, i, k)
<1> DEFINE n == i + Len(prev) + 1
           S == {k \in i + 1 .. n : HasGap(Low(prev, k), Max0)}
<1>1. Len(prev) \in Nat
  BY DEF String
<1>2. S \in SUBSET Nat /\ n \in S
  BY <1>1, BaseAssumption DEF HasGap, Low, Max0
<1>3. PICK k \in S : \A j \in S : k <= j
  <2> HIDE DEF S
  <2> QED
    BY <1>2, LeastNatural
<1>4. k \in i + 1 .. n /\ HasGap(Low(prev, k), Max0)
  BY <1>3
<1>5. \A j \in i + 1 .. k - 1 : j \in i + 1 .. n /\ ~(j \in S)
  BY <1>1, <1>3, <1>4
<1> QED
  BY <1>4, <1>5 DEF Opens

\* What the loop reads of prev is a digit.
LEMMA LowDigit ==
  ASSUME NEW prev \in String, NEW i \in Nat \ {0}
  PROVE  /\ Low(prev, i) \in Digit
         /\ i <= Len(prev) => Low(prev, i) = prev[i]
  BY BaseAssumption DEF Low, String, Digit

\* Where the loop finds two different digits, the next position's is greater.
LEMMA DiffersBelow ==
  ASSUME NEW prev \in String, NEW next \in String, prev # <<>>,
         Less(prev, next), ~Crowded(prev, next),
         NEW i \in Nat \ {0}, Differ(prev, next, i)
  PROVE  /\ i <= Len(next)
         /\ Low(prev, i) < next[i]
         /\ \A j \in 1 .. i - 1 : Low(prev, j) = next[j]
<1>1. PICK k \in 1 .. Len(next) :
        /\ k <= Len(prev) + 1
        /\ \A j \in 1 .. k - 1 : prev[j] = next[j]
        /\ k <= Len(prev) => prev[k] < next[k]
  BY DEF Less
<1>2. Len(prev) \in Nat /\ Len(next) \in Nat
  BY DEF String
<1>3. \A j \in 1 .. Len(next) : High(next, j) = next[j] /\ next[j] \in Digit
  BY DEF High, String
<1>4. \A j \in 1 .. Len(prev) : Low(prev, j) = prev[j] /\ prev[j] \in Digit
  BY DEF Low, String
<1>5. Low(prev, i) # High(next, i) /\ \A j \in 1 .. i - 1 : Low(prev, j) = High(next, j)
  BY DEF Differ
<1>6. i <= Len(next) => \A j \in 1 .. i - 1 : Low(prev, j) = next[j]
  BY <1>2, <1>3, <1>5
<1>7. CASE k <= Len(prev)
  <2>1. Low(prev, k) # High(next, k) /\ \A j \in 1 .. k - 1 : Low(prev, j) = High(next, j)
    <3>1. k \in 1 .. Len(prev) /\ k \in 1 .. Len(next) /\ k \in Int
      BY <1>1, <1>2, <1>7
    <3>2. Low(prev, k) = prev[k] /\ High(next, k) = next[k] /\ prev[k] < next[k]
          /\ prev[k] \in Int /\ next[k] \in Int
      BY <1>1, <1>3, <1>4, <3>1, BaseAssumption DEF Digit
    <3>3. \A j \in 1 .. k - 1 : j \in 1 .. Len(prev) /\ j \in 1 .. Len(next)
      BY <1>2, <3>1
    <3>4. \A j \in 1 .. k - 1 : Low(prev, j) = High(next, j)
      BY <1>1, <1>3, <1>4, <3>3
    <3> QED
      BY <3>2, <3>4
  <2>2. i = k
    BY <1>1, <1>2, <1>5, <2>1
  <2> QED
    BY <1>1, <1>2, <1>3, <1>4, <1>6, <1>7, <2>2
<1>8. CASE k > Len(prev)
  <2>1. k = Len(prev) + 1 /\ \A j \in 1 .. Len(prev) : prev[j] = next[j]
    BY <1>1, <1>2, <1>8
  <2>2. PICK n \in Len(prev) + 1 .. Len(next) : next[n] # 0
    BY <1>1, <1>2, <2>1 DEF Crowded, String
  <2>3. Low(prev, n) = 0 /\ High(next, n) = next[n]
    BY <1>2, <1>3, <2>2 DEF Low
  <2>4. i <= n
    BY <1>2, <1>5, <2>2, <2>3
  <2>5. i > Len(prev)
    BY <1>1, <1>2, <1>3, <1>4, <1>5, <2>1
  <2>6. Low(prev, i) = 0 /\ High(next, i) = next[i] /\ next[i] \in Digit
    BY <1>2, <1>3, <2>2, <2>4, <2>5 DEF Low
  <2> QED
    BY <1>2, <1>5, <1>6, <2>2, <2>4, <2>6 DEF Digit
<1> QED
  BY <1>1, <1>2, <1>7, <1>8

\* A digit put above that of prev at the place k.
LEMMA SplitAbove ==
  ASSUME NEW prev \in String, NEW k \in Nat \ {0},
         NEW high \in Digit, HasGap(Low(prev, k), high)
  PROVE  LET m == Split(prev, k, high)
         IN  /\ m \in String /\ Len(m) = k /\ m[k] # 0
             /\ Low(prev, k) < m[k] /\ m[k] < high
             /\ \A j \in 1 .. k - 1 : m[j] = Low(prev, j)
             /\ Less(prev, m)
<1> DEFINE m == Split(prev, k, high)
           low == Low(prev, k)
           mid == low + (high - low) \div 2
<1>1. Len(prev) \in Nat /\ Base \in Nat
  BY BaseAssumption DEF String
<1>2. low \in Digit /\ low \in Nat /\ high \in Nat
  BY LowDigit, <1>1 DEF Digit
<1>3. low < mid /\ mid < high /\ mid \in Digit /\ mid # 0
  <2> HIDE DEF low
  <2> QED
    BY <1>1, <1>2 DEF HasGap, Digit, low
<1>4. /\ Len(m) = k /\ m[k] = mid
      /\ \A j \in 1 .. k - 1 : m[j] = Low(prev, j)
  BY DEF Split
<1>5. m \in String
  <2>1. \A j \in 1 .. k : (IF j < k THEN Low(prev, j)
                            ELSE Low(prev, j) + (high - Low(prev, j)) \div 2) \in Digit
    <3> TAKE j \in 1 .. k
    <3>1. CASE j < k
      BY <3>1, LowDigit
    <3>2. CASE j = k
      BY <3>2, <1>3
    <3> QED
      BY <3>1, <3>2
  <2> QED
    BY <2>1 DEF Split, String
<1>6. Less(prev, m)
  <2>1. \A j \in 1 .. k - 1 : j <= Len(prev) => prev[j] = m[j]
    BY <1>4, LowDigit
  <2>2. k <= Len(prev) => prev[k] < m[k]
    BY <1>3, <1>4, LowDigit
  <2> HIDE DEF m, mid, low
  <2>3. CASE k <= Len(prev)
    BY <1>1, <1>4, <2>1, <2>2, <2>3 DEF Less
  <2>4. CASE k > Len(prev)
    <3>1. Len(prev) + 1 \in 1 .. Len(m)
      BY <1>1, <1>4, <2>4
    <3>2. \A j \in 1 .. Len(prev) : prev[j] = m[j]
      BY <1>1, <2>1, <2>4
    <3> QED
      BY <1>1, <3>1, <3>2 DEF Less
  <2> QED
    BY <1>1, <2>3, <2>4
<1> QED
  BY <1>3, <1>4, <1>5, <1>6

\* A digit put between two others at the place k.
LEMMA SplitLies ==
  ASSUME NEW prev \in String, NEW next \in String,
         NEW i \in Nat \ {0}, NEW k \in Nat, i <= k, i <= Len(next),
         Low(prev, i) < next[i],
         \A j \in 1 .. i - 1 : Low(prev, j) = next[j],
         NEW high \in Digit, HasGap(Low(prev, k), high), k = i => high = next[i]
  PROVE  LET m == Split(prev, k, high)
         IN  m \in String /\ Less(prev, m) /\ Less(m, next) /\ m[Len(m)] # 0
<1> DEFINE m == Split(prev, k, high)
<1>1. Len(prev) \in Nat /\ Len(next) \in Nat /\ k \in Nat \ {0}
  BY DEF String
<1>2. /\ m \in String /\ Len(m) = k /\ m[k] # 0
      /\ Low(prev, k) < m[k] /\ m[k] < high
      /\ \A j \in 1 .. k - 1 : m[j] = Low(prev, j)
      /\ Less(prev, m)
  BY <1>1, SplitAbove
<1> HIDE DEF m
<1>3. m[i] < next[i]
  <2>1. CASE i < k
    BY <2>1, <1>1, <1>2
  <2>2. CASE i = k
    BY <2>2, <1>2
  <2> QED
    BY <1>1, <2>1, <2>2
<1>4. \A j \in 1 .. i - 1 : m[j] = next[j]
  BY <1>1, <1>2
<1>5. Less(m, next)
  BY <1>1, <1>2, <1>3, <1>4 DEF Less
<1> QED
  BY <1>2, <1>5 DEF m

\* The loop finds a place to split whatever the two strings are, so that what
\* it returns is a string above the first that does not end in a zero.
LEMMA BetweenSplits ==
  ASSUME NEW prev \in String, NEW next \in String
  PROVE  \E i \in Nat \ {0}, k \in Nat \ {0}, high \in Digit :
           /\ Differ(prev, next, i)
           /\ i <= k /\ HasGap(Low(prev, k), high)
           /\ k = i => high = High(next, i)
           /\ Between(prev, next) = Split(prev, k, high)
<1> DEFINE i == CHOOSE n \in 1 .. Len(prev) + Len(next) + 1 : Differ(prev, next, n)
           k == CHOOSE n \in i + 1 .. i + Len(prev) + 1 : Opens(prev, i, n)
<1>1. Len(prev) \in Nat /\ Len(next) \in Nat /\ Base \in Nat
  BY BaseAssumption DEF String
<1>2. i \in Nat \ {0} /\ Differ(prev, next, i)
  <2> DEFINE n == Len(prev) + Len(next) + 1
  <2>1. n \in Nat \ {0} /\ Low(prev, n) # High(next, n)
    BY <1>1, BaseAssumption DEF Low, High, Max0
  <2>2. \E d \in 1 .. n : Differ(prev, next, d)
    <3> HIDE DEF n
    <3> QED
      BY <2>1, Differs
  <2> QED
    BY <1>1, <2>2
<1> HIDE DEF i
<1>3. High(next, i) \in Digit /\ Max0 \in Digit
  BY <1>1, <1>2, BaseAssumption DEF High, String, Max0, Digit
<1>4. CASE HasGap(Low(prev, i), High(next, i))
  <2>1. Between(prev, next) = Split(prev, i, High(next, i))
    BY <1>4 DEF Between, i
  <2> QED
    BY <1>2, <1>3, <1>4, <2>1
<1>5. CASE ~HasGap(Low(prev, i), High(next, i))
  <2>1. k \in i + 1 .. i + Len(prev) + 1 /\ Opens(prev, i, k)
    BY <1>2, OpensSomewhere
  <2>2. Between(prev, next) = Split(prev, k, Max0)
    BY <1>5 DEF Between, i
  <2> HIDE DEF k
  <2>3. k \in Nat \ {0} /\ i <= k /\ k # i /\ HasGap(Low(prev, k), Max0)
    BY <1>1, <1>2, <2>1 DEF Opens
  <2> QED
    BY <1>2, <1>3, <2>2, <2>3
<1> QED
  BY <1>4, <1>5

\* Between two positions with room, Case 4 finds a position, and it does not
\* end in a zero: the loop stops, and what follows can be split again.
THEOREM BetweenLies ==
  ASSUME NEW prev \in String, NEW next \in String, prev # <<>>,
         Less(prev, next), ~Crowded(prev, next)
  PROVE  LET m == Between(prev, next)
         IN  m \in String /\ Less(prev, m) /\ Less(m, next) /\ m[Len(m)] # 0
<1>1. PICK i \in Nat \ {0}, k \in Nat \ {0}, high \in Digit :
        /\ Differ(prev, next, i)
        /\ i <= k /\ HasGap(Low(prev, k), high)
        /\ k = i => high = High(next, i)
        /\ Between(prev, next) = Split(prev, k, high)
  BY BetweenSplits
<1>2. /\ i <= Len(next)
      /\ Low(prev, i) < next[i]
      /\ \A j \in 1 .. i - 1 : Low(prev, j) = next[j]
  BY <1>1, DiffersBelow
<1>3. High(next, i) = next[i]
  BY <1>2 DEF High
<1> QED
  BY <1>1, <1>2, <1>3, SplitLies

\* Where some digit is not d, there is a last such place.
LEMMA LastOtherFound ==
  ASSUME NEW s \in String, NEW d, \E j \in DOMAIN s : s[j] # d
  PROVE  IsLastOther(s, d, LastOther(s, d))
<1> DEFINE n == Len(s)
           S == {n - j : j \in {j \in DOMAIN s : s[j] # d}}
<1>1. n \in Nat /\ DOMAIN s = 1 .. n
  BY DEF String
<1>2. S \in SUBSET Nat /\ S # {}
  BY <1>1
<1>3. PICK m \in S : \A k \in S : m <= k
  <2> HIDE DEF S
  <2> QED
    BY <1>2, LeastNatural
<1>4. PICK i \in DOMAIN s : s[i] # d /\ m = n - i
  BY <1>3
<1>5. \A j \in i + 1 .. n : s[j] = d
  <2> SUFFICES ASSUME NEW j \in i + 1 .. n, s[j] # d
               PROVE  FALSE
    OBVIOUS
  <2>1. j \in DOMAIN s /\ n - j \in S
    BY <1>1, <1>4
  <2>2. n - i <= n - j
    BY <1>3, <1>4, <2>1
  <2> QED
    BY <1>1, <1>4, <2>1, <2>2
<1>6. IsLastOther(s, d, i)
  BY <1>4, <1>5 DEF IsLastOther
<1> QED
  BY <1>4, <1>6 DEF LastOther

\* A string that keeps the digits of s before the place i, and then goes on
\* with the digits of t.
LEMMA KeepsUpTo ==
  ASSUME NEW s \in String, NEW i \in 1 .. Len(s), NEW t \in String
  PROVE  LET m == SubSeq(s, 1, i - 1) \o t
         IN  /\ m \in String
             /\ Len(m) = i - 1 + Len(t)
             /\ \A j \in 1 .. i - 1 : m[j] = s[j]
             /\ \A j \in 1 .. Len(t) : m[i - 1 + j] = t[j]
<1> DEFINE r == SubSeq(s, 1, i - 1)
<1>1. /\ r \in String /\ Len(r) = i - 1
      /\ \A j \in 1 .. i - 1 : r[j] = s[j]
  BY DEF String
<1> HIDE DEF r
<1>2. r \o t \in String /\ Len(r \o t) = i - 1 + Len(t)
  <2> HIDE DEF Digit
  <2>1. r \in Seq(Digit) /\ t \in Seq(Digit)
    BY <1>1 DEF String
  <2>2. r \o t \in Seq(Digit) /\ Len(r \o t) = Len(r) + Len(t)
    BY <2>1, ConcatProperties
  <2> QED
    BY <1>1, <2>2 DEF String
<1>3. \A j \in 1 .. i - 1 : (r \o t)[j] = s[j]
  BY <1>1 DEF String
<1>4. \A j \in 1 .. Len(t) : (r \o t)[i - 1 + j] = t[j]
  BY <1>1 DEF String
<1> QED
  BY <1>2, <1>3, <1>4 DEF r

\* The middle digit is one, and is not zero.
LEMMA Mid ==
  /\ MidDigit \in Digit /\ MidDigit # 0 /\ 0 \in Digit /\ 1 \in Digit
  /\ <<MidDigit>> \in String /\ <<0, MidDigit>> \in String
<1>1. MidDigit \in Digit /\ MidDigit # 0 /\ 0 \in Digit /\ 1 \in Digit
  BY BaseAssumption DEF MidDigit, Digit
<1> QED
  BY <1>1 DEF String

\* Case 2 finds a position below one that is not all zeros.
THEOREM BeforeLies ==
  ASSUME NEW next \in String, \E j \in DOMAIN next : next[j] # 0
  PROVE  LET m == Before(next)
         IN  m \in String /\ Less(m, next) /\ m # <<>> /\ m[Len(m)] # 0
<1> DEFINE i == LastOther(next, 0)
           t == IF next[i] = 1 THEN <<0, MidDigit>> ELSE <<next[i] - 1>>
           m == SubSeq(next, 1, i - 1) \o t
<1>1. i \in 1 .. Len(next) /\ next[i] # 0 /\ next[i] \in Digit
  <2>1. IsLastOther(next, 0, i)
    BY LastOtherFound
  <2> QED
    BY <2>1 DEF IsLastOther, String
<1>2. Before(next) = m
  BY DEF Before
<1> HIDE DEF i
<1>3. /\ t \in String /\ Len(t) \in {1, 2}
      /\ t[1] < next[i] /\ t[Len(t)] # 0
  <2>1. CASE next[i] = 1
    BY <2>1, Mid
  <2>2. CASE next[i] # 1
    <3>1. next[i] - 1 \in Digit /\ next[i] - 1 < next[i] /\ next[i] - 1 # 0
      BY <1>1, <2>2, BaseAssumption DEF Digit
    <3>2. t = <<next[i] - 1>>
      BY <2>2
    <3> QED
      BY <3>1, <3>2 DEF String
  <2> QED
    BY <2>1, <2>2
<1> HIDE DEF t
<1>4. /\ m \in String /\ Len(m) = i - 1 + Len(t)
      /\ \A j \in 1 .. i - 1 : m[j] = next[j]
      /\ \A j \in 1 .. Len(t) : m[i - 1 + j] = t[j]
  BY <1>1, <1>3, KeepsUpTo
<1> HIDE DEF m
<1>5. /\ m[i] = t[1] /\ Len(m) >= i /\ Len(m) \in Nat /\ Len(next) \in Nat
      /\ m[Len(m)] = t[Len(t)]
  <2>1. 1 \in 1 .. Len(t) /\ Len(t) \in 1 .. Len(t) /\ i \in Nat
        /\ i - 1 + 1 = i
    BY <1>1, <1>3
  <2>2. m[i - 1 + 1] = t[1] /\ m[i - 1 + Len(t)] = t[Len(t)]
    BY <1>4, <2>1
  <2> QED
    BY <1>1, <1>3, <1>4, <2>1, <2>2 DEF String
<1>6. Less(m, next)
  BY <1>1, <1>3, <1>4, <1>5 DEF Less
<1> QED
  BY <1>1, <1>2, <1>3, <1>4, <1>5, <1>6

\* Case 3 finds a position above any other.
THEOREM AfterLies ==
  ASSUME NEW prev \in String, prev # <<>>
  PROVE  LET m == After(prev)
         IN  m \in String /\ Less(prev, m) /\ m[Len(m)] # 0
<1>0. Len(prev) \in Nat /\ DOMAIN prev = 1 .. Len(prev)
  BY DEF String
<1>1. CASE \A j \in DOMAIN prev : prev[j] = Max0
  <2> DEFINE m == prev \o <<MidDigit>>
  <2>1. After(prev) = m
    BY <1>1 DEF After
  <2>2. /\ m \in String /\ Len(m) = Len(prev) + 1 /\ m[Len(prev) + 1] = MidDigit
        /\ \A j \in 1 .. Len(prev) : m[j] = prev[j]
    BY Mid DEF String
  <2> HIDE DEF m
  <2>3. Less(prev, m)
    BY <1>0, <2>2 DEF Less
  <2> QED
    BY <2>1, <2>2, <2>3, Mid
<1>2. CASE ~\A j \in DOMAIN prev : prev[j] = Max0
  <2> DEFINE i == LastOther(prev, Max0)
             t == <<prev[i] + 1>>
             m == SubSeq(prev, 1, i - 1) \o t
  <2>1. i \in 1 .. Len(prev) /\ prev[i] # Max0 /\ prev[i] \in Digit
    <3>1. IsLastOther(prev, Max0, i)
      BY <1>2, LastOtherFound
    <3> QED
      BY <3>1 DEF IsLastOther, String
  <2>2. After(prev) = m
    BY <1>2 DEF After
  <2> HIDE DEF i
  <2>3. /\ t \in String /\ Len(t) = 1 /\ t[1] > prev[i] /\ t[1] # 0
    <3>1. prev[i] + 1 \in Digit /\ prev[i] + 1 > prev[i] /\ prev[i] + 1 # 0
      BY <2>1, BaseAssumption DEF Digit, Max0
    <3> QED
      BY <3>1 DEF String
  <2> HIDE DEF t
  <2>4. /\ m \in String /\ Len(m) = i - 1 + Len(t)
        /\ \A j \in 1 .. i - 1 : m[j] = prev[j]
        /\ \A j \in 1 .. Len(t) : m[i - 1 + j] = t[j]
    BY <2>1, <2>3, KeepsUpTo
  <2> HIDE DEF m
  <2>5. m[i] = t[1] /\ Len(m) = i
    BY <2>1, <2>3, <2>4
  <2>6. Less(prev, m)
    BY <1>0, <2>1, <2>3, <2>4, <2>5 DEF Less, Digit
  <2> QED
    BY <2>2, <2>3, <2>4, <2>5, <2>6
<1> QED
  BY <1>1, <1>2

\* What CalculateMiddlePosition's comment says of it, where it can hold: the
\* position is between its neighbours, and ends in a digit that is not zero.
THEOREM MiddleLies ==
  ASSUME NEW prev \in String, NEW next \in String,
         prev # <<>> /\ next # <<>> => Less(prev, next) /\ ~Crowded(prev, next),
         next # <<>> => \E j \in DOMAIN next : next[j] # 0
  PROVE  LET m == CalculateMiddlePosition(prev, next)
         IN  /\ m \in String /\ m # <<>> /\ m[Len(m)] # 0
             /\ prev # <<>> => Less(prev, m)
             /\ next # <<>> => Less(m, next)
<1>0. \A s : ~Less(s, <<>>)
  BY DEF Less
<1>1. CASE prev = <<>> /\ next = <<>>
  <2>1. CalculateMiddlePosition(prev, next) = <<MidDigit>>
    BY <1>1 DEF CalculateMiddlePosition
  <2> QED
    BY <1>1, <2>1, Mid
<1>2. CASE prev = <<>> /\ next # <<>>
  <2>1. CalculateMiddlePosition(prev, next) = Before(next)
    BY <1>2 DEF CalculateMiddlePosition
  <2> QED
    BY <1>2, <2>1, BeforeLies
<1>3. CASE prev # <<>> /\ next = <<>>
  <2>1. CalculateMiddlePosition(prev, next) = After(prev)
    BY <1>3 DEF CalculateMiddlePosition
  <2> QED
    BY <1>0, <1>3, <2>1, AfterLies
<1>4. CASE prev # <<>> /\ next # <<>>
  <2>1. CalculateMiddlePosition(prev, next) = Between(prev, next)
    BY <1>4 DEF CalculateMiddlePosition
  <2> QED
    BY <1>0, <1>4, <2>1, BetweenLies
<1> QED
  BY <1>1, <1>2, <1>3, <1>4

-----------------------------------------------------------------------------
(* The order of positions                                                  *)

\* Whatever its neighbours are, a new position is a string that does not end
\* in a zero.
LEMMA MiddleTyped ==
  ASSUME NEW prev \in String, NEW next \in String
  PROVE  LET m == CalculateMiddlePosition(prev, next)
         IN  m \in String /\ m # <<>> /\ m[Len(m)] # 0
<1>1. CASE prev = <<>> \/ next = <<>>
  <2>1. CASE next # <<>> /\ \A j \in DOMAIN next : next[j] = 0
    <3>1. prev = <<>>
      BY <1>1, <2>1
    <3>2. CalculateMiddlePosition(prev, next) = Before(next)
      BY <2>1, <3>1 DEF CalculateMiddlePosition
    <3>3. Before(next) = <<0, MidDigit>>
      BY <2>1 DEF Before
    <3> QED
      BY <3>2, <3>3, Mid
  <2>2. CASE next # <<>> => \E j \in DOMAIN next : next[j] # 0
    BY <1>1, <2>2, MiddleLies
  <2> QED
    BY <2>1, <2>2
<1>2. CASE prev # <<>> /\ next # <<>>
  <2>1. CalculateMiddlePosition(prev, next) = Between(prev, next)
    BY <1>2 DEF CalculateMiddlePosition
  <2>2. PICK k \in Nat \ {0}, high \in Digit :
          HasGap(Low(prev, k), high) /\ Between(prev, next) = Split(prev, k, high)
    BY BetweenSplits
  <2>3. PICK m : m = Split(prev, k, high)
    OBVIOUS
  <2>4. m \in String /\ Len(m) = k /\ m[k] # 0
    BY <2>2, <2>3, SplitAbove
  <2>5. Len(m) # 0
    BY <2>4
  <2> QED
    BY <2>1, <2>2, <2>3, <2>4, <2>5
<1> QED
  BY <1>1, <1>2

\* Strings are ordered linearly, the empty one first.
LEMMA LessLinear ==
  ASSUME NEW s \in String, NEW t \in String
  PROVE  /\ ~Less(s, s)
         /\ s = t \/ Less(s, t) \/ Less(t, s)
         /\ ~Less(s, <<>>)
         /\ s # <<>> => Less(<<>>, s)
<1>1. /\ Len(s) \in Nat /\ Len(t) \in Nat
      /\ \A j \in 1 .. Len(s) : s[j] \in Int
      /\ \A j \in 1 .. Len(t) : t[j] \in Int
  BY BaseAssumption DEF String, Digit
<1>2. ~Less(s, s)
  BY <1>1 DEF Less
<1>3. ~Less(s, <<>>)
  BY DEF Less
<1>4. s # <<>> => Less(<<>>, s)
  <2> HAVE s # <<>>
  <2>1. 1 \in 1 .. Len(s)
    BY <1>1 DEF String
  <2> QED
    BY <2>1 DEF Less
<1>5. s = t \/ Less(s, t) \/ Less(t, s)
  <2> DEFINE S == {k \in Nat \ {0} : \/ k > Len(s) \/ k > Len(t)
                                      \/ s[k] # t[k]}
  <2>1. S \in SUBSET Nat /\ Len(s) + Len(t) + 1 \in S
    BY <1>1
  <2>2. PICK k \in S : \A j \in S : k <= j
    <3> HIDE DEF S
    <3> QED
      BY <2>1, LeastNatural
  <2>3. k \in Nat \ {0} /\ \A j \in 1 .. k - 1 : j <= Len(s) /\ j <= Len(t) /\ s[j] = t[j]
    BY <1>1, <2>2
  <2>4. k <= Len(s) + 1 /\ k <= Len(t) + 1
    BY <1>1, <2>3
  <2>5. CASE k > Len(s) /\ k > Len(t)
    <3>1. Len(s) = Len(t) /\ \A j \in 1 .. Len(s) : s[j] = t[j]
      BY <1>1, <2>3, <2>4, <2>5
    <3>2. s \in Seq(Digit) /\ t \in Seq(Digit)
      BY DEF String
    <3> QED
      BY <3>1, <3>2, SeqEqual
  <2>6. CASE k > Len(s) /\ k <= Len(t)
    BY <1>1, <2>3, <2>4, <2>6 DEF Less
  <2>7. CASE k <= Len(s) /\ k > Len(t)
    BY <1>1, <2>3, <2>4, <2>7 DEF Less
  <2>8. CASE k <= Len(s) /\ k <= Len(t)
    <3>1. s[k] < t[k] \/ t[k] < s[k]
      BY <1>1, <2>2, <2>3, <2>8
    <3>2. k \in 1 .. Len(s) /\ k \in 1 .. Len(t)
      BY <2>3, <2>8
    <3> HIDE DEF S
    <3> QED
      BY <2>3, <2>4, <3>1, <3>2 DEF Less
  <2> QED
    BY <1>1, <2>3, <2>5, <2>6, <2>7, <2>8
<1> QED
  BY <1>2, <1>3, <1>4, <1>5

\* What is below a string is below all above it.
LEMMA LessTransitive ==
  ASSUME NEW s \in String, NEW t \in String, NEW r \in String, Less(s, t), Less(t, r)
  PROVE  Less(s, r)
<1>1. /\ Len(s) \in Nat /\ Len(t) \in Nat /\ Len(r) \in Nat
      /\ \A j \in 1 .. Len(s) : s[j] \in Int
      /\ \A j \in 1 .. Len(t) : t[j] \in Int
      /\ \A j \in 1 .. Len(r) : r[j] \in Int
  BY BaseAssumption DEF String, Digit
<1>2. PICK k \in 1 .. Len(t) :
        /\ k <= Len(s) + 1
        /\ \A j \in 1 .. k - 1 : s[j] = t[j]
        /\ k <= Len(s) => s[k] < t[k]
  BY DEF Less
<1>3. PICK n \in 1 .. Len(r) :
        /\ n <= Len(t) + 1
        /\ \A j \in 1 .. n - 1 : t[j] = r[j]
        /\ n <= Len(t) => t[n] < r[n]
  BY DEF Less
<1>4. k \in Nat /\ n \in Nat
  BY <1>1
<1>5. CASE k <= n
  <2>1. k \in 1 .. Len(r)
    BY <1>1, <1>5
  <2>2. \A j \in 1 .. k - 1 : s[j] = r[j]
    BY <1>1, <1>2, <1>3, <1>5
  <2>3. k <= Len(s) => s[k] < r[k]
    <3>1. CASE k < n
      BY <1>1, <1>2, <1>3, <3>1
    <3>2. CASE k = n
      BY <1>1, <1>2, <1>3, <2>1, <3>2
    <3> QED
      BY <1>4, <1>5, <3>1, <3>2
  <2> QED
    BY <1>2, <2>1, <2>2, <2>3 DEF Less
<1>6. CASE n < k
  <2>1. n \in 1 .. Len(r) /\ n <= Len(s) + 1
    BY <1>1, <1>2, <1>4, <1>6
  <2>2. \A j \in 1 .. n - 1 : s[j] = r[j]
    BY <1>1, <1>2, <1>3, <1>6
  <2>3. n <= Len(s) => s[n] < r[n]
    BY <1>1, <1>2, <1>3, <1>4, <1>6
  <2> QED
    BY <2>1, <2>2, <2>3 DEF Less
<1> QED
  BY <1>4, <1>5, <1>6

-----------------------------------------------------------------------------
(* Rebalanced positions (IndexToPosition)                                  *)

\* The number of strings of each length.
Power[i \in 0 .. Digits] == IF i = 0 THEN 1 ELSE Power[i - 1] * Base

\* f has what a gives after each of n steps.
Iterated(a, step, n, f) ==
  f \in [0 .. n -> Nat] /\ f[0] = a /\ \A i \in 1 .. n : f[i] = step[f[i - 1]]

\* A step can be iterated any number of times.
LEMMA Iterates ==
  ASSUME NEW a \in Nat, NEW step \in [Nat -> Nat], NEW n \in Nat
  PROVE  \E f : Iterated(a, step, n, f)
<1> DEFINE S == {m \in Nat : ~\E f : Iterated(a, step, m, f)}
<1>1. SUFFICES ASSUME S # {} PROVE FALSE
  BY <1>1
<1>2. PICK m \in S : \A k \in S : m <= k
  <2>1. S \in SUBSET Nat
    OBVIOUS
  <2> HIDE DEF S
  <2> QED
    BY <1>1, <2>1, LeastNatural
<1>3. m # 0
  <2>1. Iterated(a, step, 0, [i \in 0 .. 0 |-> a])
    BY DEF Iterated
  <2> QED
    BY <1>2, <2>1
<1>4. m \in Nat /\ m - 1 \in Nat /\ m - 1 \notin S
  <2>1. S \in SUBSET Nat
    OBVIOUS
  <2> HIDE DEF S
  <2> QED
    BY <1>2, <1>3, <2>1
<1>5. PICK f : Iterated(a, step, m - 1, f)
  BY <1>4
<1> DEFINE g == [i \in 0 .. m |-> IF i = m THEN step[f[m - 1]] ELSE f[i]]
<1>6. ~Iterated(a, step, m, g)
  BY <1>2
<1> HIDE DEF S
<1>7. f \in [0 .. m - 1 -> Nat] /\ f[0] = a /\ \A i \in 1 .. m - 1 : f[i] = step[f[i - 1]]
  BY <1>5 DEF Iterated
<1>8. step[f[m - 1]] \in Nat /\ \A i \in 0 .. m : i # m => f[i] \in Nat
  <2>1. m - 1 \in 0 .. m - 1 /\ \A i \in 0 .. m : i # m => i \in 0 .. m - 1
    BY <1>4
  <2>2. f[m - 1] \in Nat
    BY <1>7, <2>1
  <2> QED
    BY <1>7, <2>1, <2>2
<1>9. g \in [0 .. m -> Nat] /\ g[0] = a
  <2>1. \A i \in 0 .. m : (IF i = m THEN step[f[m - 1]] ELSE f[i]) \in Nat
    BY <1>8
  <2>2. 0 \in 0 .. m
    BY <1>4
  <2> QED
    BY <1>3, <1>7, <2>1, <2>2
<1>10. ASSUME NEW i \in 1 .. m PROVE g[i] = step[g[i - 1]]
  <2>1. i - 1 \in 0 .. m /\ i - 1 # m /\ g[i - 1] = f[i - 1]
    BY <1>4
  <2>2. CASE i = m
    BY <1>4, <2>1, <2>2
  <2>3. CASE i # m
    <3>1. i \in 1 .. m - 1 /\ g[i] = f[i]
      BY <1>4, <2>3
    <3> QED
      BY <1>7, <2>1, <3>1
  <2> QED
    BY <2>2, <2>3
<1> QED
  BY <1>6, <1>9, <1>10 DEF Iterated

\* What steps on natural numbers give are natural numbers.
LEMMA IteratesTyped ==
  ASSUME NEW a \in Nat, NEW step \in [Nat -> Nat], NEW n \in Nat, NEW f,
         f[0] = a, \A i \in 1 .. n : f[i - 1] \in Nat => f[i] = step[f[i - 1]]
  PROVE  \A i \in 0 .. n : f[i] \in Nat
<1> DEFINE S == {i \in 0 .. n : f[i] \notin Nat}
<1>1. SUFFICES ASSUME S # {} PROVE FALSE
  BY <1>1
<1>2. PICK m \in S : \A k \in S : m <= k
  <2>1. S \in SUBSET Nat
    OBVIOUS
  <2> HIDE DEF S
  <2> QED
    BY <1>1, <2>1, LeastNatural
<1>3. m \in 1 .. n /\ f[m] \notin Nat
  BY <1>2
<1>4. f[m - 1] \in Nat
  <2>1. m - 1 \in 0 .. n /\ ~(m <= m - 1)
    BY <1>3
  <2> QED
    BY <1>2, <2>1
<1>5. f[m] = step[f[m - 1]]
  BY <1>3, <1>4
<1> QED
  BY <1>3, <1>4, <1>5

\* Power is the function it is defined as.
LEMMA Powers ==
  /\ Power \in [0 .. Digits -> Nat] /\ Power[0] = 1
  /\ \A i \in 1 .. Digits : Power[i] = Power[i - 1] * Base
<1> DEFINE step == [x \in Nat |-> x * Base]
           P(f) == f = [i \in 0 .. Digits |-> IF i = 0 THEN 1 ELSE f[i - 1] * Base]
<1>1. step \in [Nat -> Nat] /\ Digits \in Nat /\ 1 \in Nat
  BY BaseAssumption
<1>2. \A x \in Nat : step[x] = x * Base
  OBVIOUS
<1> HIDE DEF step, P
<1>3. PICK f : Iterated(1, step, Digits, f)
  BY <1>1, Iterates
<1>4. f \in [0 .. Digits -> Nat] /\ f[0] = 1
  BY <1>3 DEF Iterated
<1>5. ASSUME NEW i \in 1 .. Digits PROVE f[i] = f[i - 1] * Base
  <2>1. i - 1 \in 0 .. Digits
    BY <1>1
  <2>2. f[i] = step[f[i - 1]]
    BY <1>3 DEF Iterated
  <2> QED
    BY <1>2, <1>4, <2>1, <2>2
<1>6. P(f)
  BY <1>1, <1>4, <1>5 DEF P
<1>7. P(Power)
  BY <1>6 DEF Power, P
<1>8. Power[0] = 1 /\ \A i \in 1 .. Digits : Power[i] = Power[i - 1] * Base
  <2>1. 0 \in 0 .. Digits /\ \A i \in 1 .. Digits : i \in 0 .. Digits /\ i # 0
    BY <1>1
  <2>2. Power = [i \in 0 .. Digits |-> IF i = 0 THEN 1 ELSE Power[i - 1] * Base]
    BY <1>7 DEF P
  <2> QED
    BY <2>1, <2>2
<1>9. \A i \in 1 .. Digits : Power[i - 1] \in Nat => Power[i] = step[Power[i - 1]]
  BY <1>2, <1>8
<1>10. \A i \in 0 .. Digits : Power[i] \in Nat
  BY <1>1, <1>8, <1>9, IteratesTyped
<1>11. Power \in [0 .. Digits -> Nat]
  BY <1>7, <1>10 DEF P
<1> QED
  BY <1>8, <1>11

\* Division with a remainder.
LEMMA Division ==
  ASSUME NEW a \in Nat, NEW d \in Nat \ {0}
  PROVE  /\ a \div d \in Nat /\ a % d \in Nat /\ a % d < d
         /\ a = (d * (a \div d)) + (a % d)
OBVIOUS

\* Products grow with their factors.
LEMMA Products ==
  ASSUME NEW a \in Nat, NEW b \in Nat, NEW c \in Nat
  PROVE  /\ a * c \in Nat
         /\ a <= b => a * c <= b * c
         /\ a < b /\ c # 0 => a * c < b * c
OBVIOUS

\* What long division has left after each digit.
LEMMA RemaindersAre ==
  ASSUME NEW num \in Nat, NEW denom \in Nat \ {0}
  PROVE  LET r == Remainders(num, denom)
         IN  /\ r \in [0 .. Digits -> Nat] /\ r[0] = num
             /\ \A i \in 1 .. Digits : r[i] = (r[i - 1] * Base) % denom
<1> DEFINE step == [x \in Nat |-> (x * Base) % denom]
           P(f) == f = [i \in 0 .. Digits |->
                          IF i = 0 THEN num ELSE (f[i - 1] * Base) % denom]
           r == Remainders(num, denom)
<1>0. Digits \in Nat /\ Base \in Nat
  BY BaseAssumption
<1>1. step \in [Nat -> Nat]
  <2>1. \A x \in Nat : (x * Base) % denom \in Nat
    <3> TAKE x \in Nat
    <3>1. x * Base \in Nat
      BY <1>0, Products
    <3> QED
      BY <3>1, Division
  <2> QED
    BY <2>1
<1>2. \A x \in Nat : step[x] = (x * Base) % denom
  OBVIOUS
<1>3. r = CHOOSE f : P(f)
  BY DEF Remainders
<1> HIDE DEF step, P, r
<1>4. PICK f : Iterated(num, step, Digits, f)
  BY <1>0, <1>1, Iterates
<1>5. f \in [0 .. Digits -> Nat] /\ f[0] = num
  BY <1>4 DEF Iterated
<1>6. ASSUME NEW i \in 1 .. Digits PROVE f[i] = (f[i - 1] * Base) % denom
  <2>1. i - 1 \in 0 .. Digits
    BY <1>0
  <2>2. f[i] = step[f[i - 1]]
    BY <1>4 DEF Iterated
  <2> QED
    BY <1>2, <1>5, <2>1, <2>2
<1>7. P(f)
  BY <1>0, <1>5, <1>6 DEF P
<1>8. P(r)
  BY <1>3, <1>7
<1>9. r[0] = num /\ \A i \in 1 .. Digits : r[i] = (r[i - 1] * Base) % denom
  <2>1. 0 \in 0 .. Digits /\ \A i \in 1 .. Digits : i \in 0 .. Digits /\ i # 0
    BY <1>0
  <2>2. r = [i \in 0 .. Digits |-> IF i = 0 THEN num ELSE (r[i - 1] * Base) % denom]
    BY <1>8 DEF P
  <2> QED
    BY <2>1, <2>2
<1>10. \A i \in 1 .. Digits : r[i - 1] \in Nat => r[i] = step[r[i - 1]]
  BY <1>2, <1>9
<1>11. \A i \in 0 .. Digits : r[i] \in Nat
  BY <1>0, <1>1, <1>9, <1>10, IteratesTyped
<1>12. r \in [0 .. Digits -> Nat]
  BY <1>8, <1>11 DEF P
<1> QED
  BY <1>9, <1>12 DEF r

\* Every digit of a fraction is one, and with what is left after it gives
\* back what there was.
LEMMA QuotientIs ==
  ASSUME NEW rest \in Nat, NEW denom \in Nat \ {0}, rest < denom
  PROVE  /\ Quotient(rest, denom) \in Digit
         /\ rest * Base = (denom * Quotient(rest, denom)) + ((rest * Base) % denom)
<1> DEFINE digit == (rest * Base) \div denom
<1>1. Base \in Nat \ {0} /\ Max0 = Base - 1
  BY BaseAssumption DEF Max0
<1>2. rest * Base \in Nat /\ rest * Base < denom * Base
  BY <1>1, Products
<1>3. /\ digit \in Nat /\ (rest * Base) % denom \in Nat
      /\ rest * Base = (denom * digit) + ((rest * Base) % denom)
  BY <1>2, Division
<1> HIDE DEF digit
<1>4. digit < Base
  <2> SUFFICES ASSUME Base <= digit PROVE FALSE
    BY <1>1, <1>3
  <2>1. Base * denom <= digit * denom /\ Base * denom \in Nat /\ digit * denom \in Nat
    BY <1>1, <1>3, Products
  <2>2. Base * denom = denom * Base /\ digit * denom = denom * digit
    BY <1>1, <1>3
  <2> QED
    BY <1>2, <1>3, <2>1, <2>2
<1>5. Quotient(rest, denom) = digit /\ digit \in Digit
  BY <1>1, <1>3, <1>4 DEF Quotient, Digit, digit
<1> QED
  BY <1>3, <1>5

\* A rebalanced position: it has the digits of the fraction, up to the last
\* that is not zero when there are no more.
LEMMA PositionOfIndex ==
  ASSUME NEW num \in Nat, NEW denom \in Nat, num < denom
  PROVE  LET r == Remainders(num, denom)
             p == IndexToPosition(num, denom)
         IN  /\ p \in String /\ Len(p) \in 1 .. Digits
             /\ \A k \in 1 .. Digits : Low(p, k) = Quotient(r[k - 1], denom)
<1> DEFINE r == Remainders(num, denom)
           p == IndexToPosition(num, denom)
           Last(k) == /\ k = Digits \/ r[k] = 0
                      /\ \A j \in 1 .. k - 1 : r[j] # 0
           length == CHOOSE k \in 1 .. Digits : Last(k)
<1>1. /\ denom \in Nat \ {0} /\ Digits \in Nat \ {0} /\ Base \in Nat
      /\ 0 % denom = 0 /\ 0 \div denom = 0 /\ 0 * Base = 0
  <2>1. denom \in Nat \ {0}
    OBVIOUS
  <2>2. 0 = (denom * (0 \div denom)) + (0 % denom) /\ 0 \div denom \in Nat /\ 0 % denom \in Nat
    BY <2>1, Division
  <2> QED
    BY <2>1, <2>2, BaseAssumption
<1>2. p = [i \in 1 .. length |-> Quotient(r[i - 1], denom)]
  BY DEF IndexToPosition
<1>3. /\ r \in [0 .. Digits -> Nat] /\ r[0] = num
      /\ \A i \in 1 .. Digits : r[i] = (r[i - 1] * Base) % denom
  BY <1>1, RemaindersAre
<1> HIDE DEF r, p
<1>4. length \in 1 .. Digits /\ Last(length)
  <2> DEFINE S == {k \in 1 .. Digits : k = Digits \/ r[k] = 0}
  <2>1. S \in SUBSET Nat /\ Digits \in S
    BY <1>1
  <2>2. PICK k \in S : \A j \in S : k <= j
    <3> HIDE DEF S
    <3> QED
      BY <2>1, LeastNatural
  <2>3. k \in 1 .. Digits /\ (k = Digits \/ r[k] = 0)
    BY <2>2
  <2>4. ASSUME NEW j \in 1 .. k - 1 PROVE r[j] # 0
    <3>1. j \in 1 .. Digits /\ ~(k <= j)
      <4> HIDE DEF S
      <4> QED
        BY <1>1, <2>3
    <3> QED
      BY <2>2, <3>1
  <2> QED
    BY <2>3, <2>4
<1> HIDE DEF length
\* What is left stays below the denominator, and zero stays zero.
<1>5. \A k \in 0 .. Digits : r[k] \in Nat /\ r[k] < denom
  <2> TAKE k \in 0 .. Digits
  <2>1. CASE k = 0
    BY <1>3, <2>1
  <2>2. CASE k # 0
    <3>1. k \in 1 .. Digits /\ k - 1 \in 0 .. Digits
      BY <1>1, <2>2
    <3>2. r[k - 1] * Base \in Nat
      BY <1>1, <1>3, <3>1, Products
    <3> QED
      BY <1>1, <1>3, <3>1, <3>2, Division
  <2> QED
    BY <2>1, <2>2
<1>6. \A k \in length .. Digits : k < Digits => r[k] = 0
  <2> DEFINE S == {k \in length .. Digits : k < Digits /\ r[k] # 0}
  <2>1. SUFFICES ASSUME S # {} PROVE FALSE
    OBVIOUS
  <2>2. PICK k \in S : \A j \in S : k <= j
    <3>1. S \in SUBSET Nat
      BY <1>4
    <3> HIDE DEF S
    <3> QED
      BY <2>1, <3>1, LeastNatural
  <2>3. k \in length .. Digits /\ k < Digits /\ r[k] # 0 /\ k # length
    BY <1>4, <2>2
  <2>4. k - 1 \in length .. Digits /\ k - 1 < Digits /\ ~(k <= k - 1) /\ k \in 1 .. Digits
    <3> HIDE DEF S
    <3> QED
      BY <1>1, <1>4, <2>3
  <2>5. r[k - 1] = 0
    BY <2>2, <2>4
  <2> HIDE DEF S
  <2> QED
    BY <1>1, <1>3, <2>3, <2>4, <2>5
<1>7. \A k \in 1 .. Digits : Quotient(r[k - 1], denom) \in Digit
  <2> TAKE k \in 1 .. Digits
  <2>1. k - 1 \in 0 .. Digits
    BY <1>1
  <2> QED
    BY <1>1, <1>5, <2>1, QuotientIs
<1>8. p \in String /\ Len(p) = length
  <2>1. \A i \in 1 .. length : Quotient(r[i - 1], denom) \in Digit
    BY <1>1, <1>4, <1>7
  <2>2. p \in [1 .. length -> Digit]
    BY <1>2, <2>1
  <2> QED
    BY <1>4, <2>2 DEF String
<1>9. ASSUME NEW k \in 1 .. Digits
      PROVE  Low(p, k) = Quotient(r[k - 1], denom)
  <2>1. CASE k <= length
    <3>1. k \in 1 .. length
      BY <1>4, <2>1
    <3> QED
      BY <1>2, <1>8, <2>1, <3>1 DEF Low
  <2>2. CASE k > length
    <3>1. k - 1 \in length .. Digits /\ k - 1 < Digits
      BY <1>1, <1>4, <2>2
    <3>2. r[k - 1] = 0
      BY <1>6, <3>1
    <3>3. Quotient(0, denom) = 0
      BY <1>1, BaseAssumption DEF Quotient, Max0
    <3> QED
      BY <1>4, <1>8, <2>2, <3>2, <3>3 DEF Low
  <2> QED
    BY <1>4, <2>1, <2>2
<1> QED
  BY <1>4, <1>8, <1>9 DEF r, p


\* Two fractions have different digits when there are as many strings of that
\* length as the denominator, and the first that differ order them.
LEMMA FractionsDiffer ==
  ASSUME NEW a \in Nat, NEW b \in Nat, NEW denom \in Nat,
         a < b, b < denom, denom <= Power[Digits]
  PROVE  LET p == IndexToPosition(a, denom)
             q == IndexToPosition(b, denom)
         IN  \E k \in 1 .. Digits :
               /\ Low(p, k) < Low(q, k)
               /\ \A j \in 1 .. k - 1 : Low(p, j) = Low(q, j)
<1> DEFINE p == IndexToPosition(a, denom)
           q == IndexToPosition(b, denom)
           r == Remainders(a, denom)
           s == Remainders(b, denom)
           Same(i) == \A j \in 1 .. i : Low(p, j) = Low(q, j)
<1>1. denom \in Nat \ {0} /\ Digits \in Nat \ {0} /\ Base \in Nat \ {0} /\ a < denom
  BY BaseAssumption
<1>2. /\ r \in [0 .. Digits -> Nat] /\ r[0] = a
      /\ \A i \in 1 .. Digits : r[i] = (r[i - 1] * Base) % denom
      /\ s \in [0 .. Digits -> Nat] /\ s[0] = b
      /\ \A i \in 1 .. Digits : s[i] = (s[i - 1] * Base) % denom
  BY <1>1, RemaindersAre
<1>3. \A k \in 1 .. Digits : /\ Low(p, k) = Quotient(r[k - 1], denom)
                             /\ Low(q, k) = Quotient(s[k - 1], denom)
  BY <1>1, PositionOfIndex
<1> HIDE DEF p, q, r, s
<1>4. \A k \in 0 .. Digits : r[k] < denom /\ s[k] < denom
  <2> TAKE k \in 0 .. Digits
  <2>1. CASE k = 0
    BY <1>1, <1>2, <2>1
  <2>2. CASE k # 0
    <3>1. k \in 1 .. Digits /\ k - 1 \in 0 .. Digits
      BY <1>1, <2>2
    <3>2. r[k - 1] * Base \in Nat /\ s[k - 1] * Base \in Nat
      BY <1>1, <1>2, <3>1, Products
    <3> QED
      BY <1>1, <1>2, <3>1, <3>2, Division
  <2> QED
    BY <2>1, <2>2
<1>5. ASSUME NEW k \in 1 .. Digits
      PROVE  /\ Low(p, k) \in Nat /\ Low(q, k) \in Nat
             /\ r[k - 1] * Base = (denom * Low(p, k)) + r[k]
             /\ s[k - 1] * Base = (denom * Low(q, k)) + s[k]
  <2>1. k - 1 \in 0 .. Digits
    BY <1>1
  <2>2. /\ r[k - 1] \in Nat /\ r[k - 1] < denom
        /\ s[k - 1] \in Nat /\ s[k - 1] < denom
    BY <1>2, <1>4, <2>1
  <2>3. /\ Low(p, k) \in Digit /\ Low(q, k) \in Digit
        /\ r[k - 1] * Base = (denom * Low(p, k)) + r[k]
        /\ s[k - 1] * Base = (denom * Low(q, k)) + s[k]
    <3>1. /\ Quotient(r[k - 1], denom) \in Digit
          /\ r[k - 1] * Base = (denom * Quotient(r[k - 1], denom)) + ((r[k - 1] * Base) % denom)
      BY <1>1, <2>2, QuotientIs
    <3>2. /\ Quotient(s[k - 1], denom) \in Digit
          /\ s[k - 1] * Base = (denom * Quotient(s[k - 1], denom)) + ((s[k - 1] * Base) % denom)
      BY <1>1, <2>2, QuotientIs
    <3>3. /\ r[k] = (r[k - 1] * Base) % denom /\ s[k] = (s[k - 1] * Base) % denom
          /\ Low(p, k) = Quotient(r[k - 1], denom) /\ Low(q, k) = Quotient(s[k - 1], denom)
      BY <1>2, <1>3
    <3> QED
      BY <3>1, <3>2, <3>3
  <2> QED
    BY <1>1, <2>3 DEF Digit
\* As long as the digits are the same, what is left of the two goes apart.
<1>6. \A i \in 0 .. Digits : Same(i) => r[i] + Power[i] <= s[i]
  <2> DEFINE S == {i \in 0 .. Digits : Same(i) /\ ~(r[i] + Power[i] <= s[i])}
  <2> HIDE DEF Same
  <2>1. SUFFICES ASSUME S # {} PROVE FALSE
    OBVIOUS
  <2>2. PICK m \in S : \A j \in S : m <= j
    <3>1. S \in SUBSET Nat
      OBVIOUS
    <3> HIDE DEF S
    <3> QED
      BY <2>1, <3>1, LeastNatural
  <2>3. m \in 0 .. Digits /\ Same(m) /\ ~(r[m] + Power[m] <= s[m])
    BY <2>2
  <2>4. \A i \in 0 .. Digits : i < m /\ Same(i) => r[i] + Power[i] <= s[i]
    <3> SUFFICES ASSUME NEW i \in 0 .. Digits, i < m, Same(i),
                        ~(r[i] + Power[i] <= s[i])
                 PROVE  FALSE
      OBVIOUS
    <3>1. i \in S
      OBVIOUS
    <3>2. m <= i
      BY <2>2, <3>1
    <3> HIDE DEF S
    <3> QED
      BY <1>1, <2>3, <3>2
  <2> HIDE DEF S
  <2>5. m # 0
    BY <1>2, <2>3, Powers
  <2>6. m \in 1 .. Digits /\ m - 1 \in 0 .. Digits /\ m - 1 < m
    BY <1>1, <2>3, <2>5
  <2>7. Low(p, m) = Low(q, m) /\ Same(m - 1)
    BY <1>1, <2>3, <2>6 DEF Same
  <2>8. r[m - 1] + Power[m - 1] <= s[m - 1]
    BY <2>4, <2>6, <2>7
  <2>9. PICK x \in Nat, y \in Nat, w \in Nat :
          x = r[m - 1] /\ y = s[m - 1] /\ w = Power[m - 1]
    BY <1>2, <2>6, Powers
  <2>10. (x + w) * Base <= y * Base /\ (x + w) * Base = (x * Base) + (w * Base)
    <3>1. x + w <= y /\ x + w \in Nat
      BY <2>8, <2>9
    <3> QED
      BY <1>1, <3>1, Products
  <2>11. PICK z \in Nat, v \in Nat, u \in Nat, t \in Nat :
           z = r[m] /\ v = s[m] /\ u = Power[m] /\ t = denom * Low(p, m)
    <3>1. denom * Low(p, m) \in Nat
      BY <1>1, <1>5, <2>6, Products
    <3> QED
      BY <1>2, <2>3, <3>1, Powers
  <2>12. x * Base = t + z /\ y * Base = t + v /\ w * Base = u
    BY <1>5, <2>6, <2>7, <2>9, <2>11, Powers
  <2>13. z + u <= v
    BY <2>10, <2>12
  <2> QED
    BY <2>3, <2>11, <2>13
<1> DEFINE D == {k \in 1 .. Digits : Low(p, k) # Low(q, k)}
<1>7. D # {}
  <2> SUFFICES ASSUME D = {} PROVE FALSE
    OBVIOUS
  <2>1. Digits \in 0 .. Digits /\ Same(Digits)
    BY <1>1
  <2>2. r[Digits] + Power[Digits] <= s[Digits]
    BY <1>6, <2>1
  <2>3. r[Digits] \in Nat /\ s[Digits] \in Nat /\ Power[Digits] \in Nat /\ s[Digits] < denom
    BY <1>2, <1>4, <2>1, Powers
  <2> QED
    BY <2>2, <2>3
<1>8. PICK k \in D : \A j \in D : k <= j
  <2>1. D \in SUBSET Nat
    OBVIOUS
  <2> HIDE DEF D
  <2> QED
    BY <1>7, <2>1, LeastNatural
<1>9. k \in 1 .. Digits /\ Low(p, k) # Low(q, k)
  BY <1>8
<1>10. Same(k - 1)
  <2> SUFFICES ASSUME NEW j \in 1 .. k - 1, Low(p, j) # Low(q, j) PROVE FALSE
    OBVIOUS
  <2>1. j \in 1 .. Digits /\ ~(k <= j)
    BY <1>1, <1>9
  <2> QED
    BY <1>8, <2>1
<1> HIDE DEF D
<1>11. Low(p, k) < Low(q, k)
  <2>1. k - 1 \in 0 .. Digits
    BY <1>1, <1>9
  <2>2. PICK x \in Nat, y \in Nat, w \in Nat :
          x = r[k - 1] /\ y = s[k - 1] /\ w = Power[k - 1]
    BY <1>2, <2>1, Powers
  <2>3. x <= y
    <3>1. x + w <= y
      BY <1>6, <1>10, <2>1, <2>2
    <3> QED
      BY <3>1
  <2>4. x * Base <= y * Base
    BY <1>1, <2>3, Products
  <2>5. PICK z \in Nat, v \in Nat, c \in Nat, d \in Nat :
          z = r[k] /\ v = s[k] /\ c = Low(p, k) /\ d = Low(q, k)
    <3>1. k \in 0 .. Digits
      BY <1>9
    <3> QED
      BY <1>2, <1>5, <1>9, <3>1
  <2>6. x * Base = (denom * c) + z /\ y * Base = (denom * d) + v /\ v < denom
    <3>1. k \in 0 .. Digits
      BY <1>9
    <3> QED
      BY <1>4, <1>5, <1>9, <2>2, <2>5, <3>1
  <2>7. SUFFICES ASSUME d < c PROVE FALSE
    BY <1>9, <2>5
  <2>8. (d + 1) * denom <= c * denom
    BY <1>1, <2>5, <2>7, Products
  <2>9. (denom * d) + denom <= denom * c
    <3>1. (d + 1) * denom = (denom * d) + denom /\ c * denom = denom * c
      BY <1>1
    <3> QED
      BY <2>8, <3>1
  <2> QED
    BY <1>1, <2>4, <2>6, <2>9
<1> QED
  BY <1>9, <1>10, <1>11 DEF p, q

\* Rebalanced positions are ordered like the fractions.
LEMMA FractionsOrdered ==
  ASSUME NEW a \in Nat, NEW b \in Nat, NEW denom \in Nat,
         a < b, b < denom, denom <= Power[Digits]
  PROVE  Less(IndexToPosition(a, denom), IndexToPosition(b, denom))
<1> DEFINE p == IndexToPosition(a, denom)
           q == IndexToPosition(b, denom)
<1>1. PICK k \in 1 .. Digits :
        Low(p, k) < Low(q, k) /\ \A j \in 1 .. k - 1 : Low(p, j) = Low(q, j)
  BY FractionsDiffer
<1>2. p \in String /\ q \in String
  <2>1. a < denom
    OBVIOUS
  <2> QED
    BY <2>1, PositionOfIndex
<1> HIDE DEF p, q
<1>3. /\ Len(p) \in Nat /\ Len(q) \in Nat /\ k \in Nat \ {0}
      /\ \A i \in 1 .. Len(p) : p[i] \in Nat
      /\ \A i \in 1 .. Len(q) : q[i] \in Nat
  BY <1>2, BaseAssumption DEF String, Digit
<1>4. k <= Len(q) /\ Low(q, k) = q[k]
  <2>1. Low(p, k) \in Nat
    BY <1>2, <1>3, LowDigit, BaseAssumption DEF Digit
  <2>2. CASE k > Len(q)
    BY <1>1, <1>3, <2>1, <2>2 DEF Low
  <2>3. CASE k <= Len(q)
    BY <2>3 DEF Low
  <2> QED
    BY <1>3, <2>2, <2>3
<1>5. \A j \in 1 .. k - 1 : j <= Len(p) => p[j] = q[j]
  BY <1>1, <1>3, <1>4 DEF Low
<1>6. CASE k <= Len(p)
  <2>1. p[k] < q[k]
    BY <1>1, <1>4, <1>6 DEF Low
  <2>2. k \in 1 .. Len(q) /\ \A j \in 1 .. k - 1 : p[j] = q[j]
    BY <1>3, <1>4, <1>5, <1>6
  <2> QED
    BY <1>3, <1>6, <2>1, <2>2 DEF Less, p, q
<1>7. CASE k > Len(p)
  <2>1. /\ Len(p) + 1 \in 1 .. Len(q) /\ ~(Len(p) + 1 <= Len(p))
        /\ \A j \in 1 .. (Len(p) + 1) - 1 : p[j] = q[j]
    BY <1>3, <1>4, <1>5, <1>7
  <2>2. Less(p, q)
    BY <1>3, <2>1 DEF Less
  <2> QED
    BY <2>2 DEF p, q
<1> QED
  BY <1>3, <1>6, <1>7

\* No rebalanced position is all zeros.
LEMMA FractionsPositive ==
  ASSUME NEW b \in Nat, NEW denom \in Nat, 0 < b, b < denom, denom <= Power[Digits]
  PROVE  \E j \in DOMAIN IndexToPosition(b, denom) : IndexToPosition(b, denom)[j] # 0
<1> DEFINE p == IndexToPosition(0, denom)
           q == IndexToPosition(b, denom)
<1>1. PICK k \in 1 .. Digits : Low(p, k) < Low(q, k)
  BY FractionsDiffer
<1>2. p \in String /\ q \in String
  <2>1. 0 \in Nat /\ 0 < denom
    OBVIOUS
  <2> QED
    BY <2>1, PositionOfIndex
<1> HIDE DEF p, q
<1>3. Low(p, k) \in Nat /\ Len(q) \in Nat /\ DOMAIN q = 1 .. Len(q)
  BY <1>2, LowDigit, BaseAssumption DEF Digit, String
<1>4. Low(q, k) # 0 /\ k \in Nat
  BY <1>1, <1>3, BaseAssumption
<1>5. k \in DOMAIN q /\ q[k] # 0
  BY <1>3, <1>4, <1>1 DEF Low
<1> QED
  BY <1>5 DEF q


-----------------------------------------------------------------------------
(* The positions of a course                                               *)

MaybePosition == Position \cup {NoPosition}
DraftRow == [position : MaybePosition, base : MaybePosition]

\* Published positions are those of some checkpoint.
PublishedUsed ==
  \A b \in Block : published[b] # NoPosition =>
    \E i \in DOMAIN checkpoints : checkpoints[i][b] = published[b]

\* Each edit makes at most one position, and nothing else makes any.
FewPositions ==
  IsFiniteSet(UsedPositions) /\ Cardinality(UsedPositions) <= edits

IInv == TypeOK /\ PublishedUsed /\ FewPositions

\* No position is all zeros: there is room before it.
RoomBefore == \A p \in UsedPositions : \E j \in DOMAIN p : p[j] # 0

\* Where the used positions are used.
LEMMA UsedIs ==
  ASSUME NEW p
  PROVE  p \in UsedPositions <=>
           /\ p # NoPosition
           /\ \/ \E i \in DOMAIN checkpoints, b \in Block : checkpoints[i][b] = p
              \/ \E u \in Teacher, b \in Block : drafts[u][b].position = p
              \/ \E u \in Teacher, b \in Block : drafts[u][b].base = p
BY DEF UsedPositions

LEMMA UsedIsThen ==
  ASSUME NEW p
  PROVE  p \in UsedPositions' <=>
           /\ p # NoPosition
           /\ \/ \E i \in DOMAIN checkpoints', b \in Block : checkpoints'[i][b] = p
              \/ \E u \in Teacher, b \in Block : drafts'[u][b].position = p
              \/ \E u \in Teacher, b \in Block : drafts'[u][b].base = p
BY DEF UsedPositions

\* All that teachers see and publish has one of the used positions.
LEMMA UsedTyped ==
  ASSUME IInv
  PROVE  /\ UsedPositions \subseteq Position
         /\ \A b \in Block : published[b] \in UsedPositions \cup {NoPosition}
         /\ \A u \in Teacher, b \in Block :
              /\ drafts[u][b].position \in UsedPositions \cup {NoPosition}
              /\ drafts[u][b].base \in UsedPositions \cup {NoPosition}
         /\ \A i \in DOMAIN checkpoints, b \in Block :
              checkpoints[i][b] \in UsedPositions \cup {NoPosition}
<1>1. /\ published \in [Block -> MaybePosition]
      /\ drafts \in [Teacher -> [Block -> DraftRow]]
      /\ checkpoints \in Seq([Block -> MaybePosition])
  BY DEF IInv, TypeOK, MaybePosition, DraftRow
<1>2. \A i \in DOMAIN checkpoints : checkpoints[i] \in [Block -> MaybePosition]
  BY <1>1
<1>3. \A u \in Teacher, b \in Block :
        drafts[u][b].position \in MaybePosition /\ drafts[u][b].base \in MaybePosition
  BY <1>1 DEF DraftRow
<1>4. UsedPositions \subseteq Position
  BY <1>2, <1>3, UsedIs DEF MaybePosition
<1>5. \A b \in Block : published[b] \in UsedPositions \cup {NoPosition}
  BY UsedIs DEF IInv, PublishedUsed
<1>6. /\ \A u \in Teacher, b \in Block :
           /\ drafts[u][b].position \in UsedPositions \cup {NoPosition}
           /\ drafts[u][b].base \in UsedPositions \cup {NoPosition}
      /\ \A i \in DOMAIN checkpoints, b \in Block :
           checkpoints[i][b] \in UsedPositions \cup {NoPosition}
  BY UsedIs
<1> QED
  BY <1>4, <1>5, <1>6

\* A step that edits one block of one draft, to a position that may be new.
LEMMA EditIInv ==
  ASSUME IInv, NEW u \in Teacher, NEW b \in Block, NEW d \in DraftRow, NEW p,
         drafts' = [drafts EXCEPT ![u][b] = d], CountEdit,
         UNCHANGED <<published, checkpoints, rebalances>>,
         d.position \in UsedPositions \cup {NoPosition, p},
         d.base \in UsedPositions \cup {NoPosition}
  PROVE  IInv' /\ UsedPositions' \subseteq UsedPositions \cup {p}
<1>1. /\ edits \in Nat /\ edits' = edits + 1 /\ edits' \in 0 .. MaxEdits
      /\ IsFiniteSet(UsedPositions) /\ Cardinality(UsedPositions) \in Nat
      /\ Cardinality(UsedPositions) <= edits
  BY ConstantsAssumption, FS_CardinalityType DEF IInv, TypeOK, FewPositions, CountEdit
<1>2. drafts \in [Teacher -> [Block -> DraftRow]]
  BY DEF IInv, TypeOK, MaybePosition, DraftRow
<1>3. drafts' \in [Teacher -> [Block -> DraftRow]]
  BY <1>2
<1>4. TypeOK'
  BY <1>1, <1>3 DEF IInv, TypeOK, MaybePosition, DraftRow
<1>5. \A v \in Teacher, c \in Block :
        drafts'[v][c] = IF v = u /\ c = b THEN d ELSE drafts[v][c]
  BY <1>2
<1>6. UsedPositions' \subseteq UsedPositions \cup {p}
  <2> SUFFICES ASSUME NEW q \in UsedPositions' PROVE q \in UsedPositions \cup {p}
    OBVIOUS
  <2>1. /\ q # NoPosition
        /\ \/ \E i \in DOMAIN checkpoints, c \in Block : checkpoints[i][c] = q
           \/ \E v \in Teacher, c \in Block : drafts'[v][c].position = q
           \/ \E v \in Teacher, c \in Block : drafts'[v][c].base = q
    BY UsedIsThen
  <2>2. CASE \E i \in DOMAIN checkpoints, c \in Block : checkpoints[i][c] = q
    BY <2>1, <2>2, UsedIs
  <2>3. ASSUME NEW v \in Teacher, NEW c \in Block,
               drafts'[v][c].position = q \/ drafts'[v][c].base = q
        PROVE  q \in UsedPositions \cup {p}
    <3>1. CASE v = u /\ c = b
      BY <1>5, <2>1, <2>3, <3>1
    <3>2. CASE ~(v = u /\ c = b)
      <4>1. drafts'[v][c] = drafts[v][c]
        BY <1>5, <3>2
      <4> QED
        BY <2>1, <2>3, <4>1, UsedIs
    <3> QED
      BY <3>1, <3>2
  <2> QED
    BY <2>1, <2>2, <2>3
<1>7. FewPositions'
  <2>1. /\ IsFiniteSet(UsedPositions \cup {p})
        /\ Cardinality(UsedPositions \cup {p}) <= Cardinality(UsedPositions) + 1
    BY <1>1, FS_AddElement
  <2>2. UsedPositions' \in SUBSET (UsedPositions \cup {p})
    BY <1>6
  <2>3. IsFiniteSet(UsedPositions') /\ Cardinality(UsedPositions') \in Nat
        /\ Cardinality(UsedPositions') <= Cardinality(UsedPositions \cup {p})
    BY <2>1, <2>2, FS_Subset, FS_CardinalityType
  <2>4. Cardinality(UsedPositions \cup {p}) \in Nat
    BY <2>1, FS_CardinalityType
  <2> QED
    BY <1>1, <2>1, <2>3, <2>4 DEF FewPositions
<1>8. PublishedUsed'
  BY DEF IInv, PublishedUsed
<1> QED
  BY <1>4, <1>6, <1>7, <1>8 DEF IInv

\* A step that makes no position.
LEMMA QuietIInv ==
  ASSUME IInv, TypeOK', PublishedUsed', UsedPositions' \subseteq UsedPositions, edits' = edits
  PROVE  IInv'
<1>1. UsedPositions' \in SUBSET UsedPositions /\ IsFiniteSet(UsedPositions)
  BY DEF IInv, FewPositions
<1>2. /\ IsFiniteSet(UsedPositions')
      /\ Cardinality(UsedPositions') <= Cardinality(UsedPositions)
      /\ Cardinality(UsedPositions') \in Nat /\ Cardinality(UsedPositions) \in Nat
  BY <1>1, FS_Subset, FS_CardinalityType
<1> QED
  BY <1>2 DEF IInv, TypeOK, FewPositions


-----------------------------------------------------------------------------
(* A teacher's view of the course                                          *)

\* A view orders blocks linearly: those of one position by their ids.
LEMMA PrecedesLinear ==
  ASSUME NEW view \in [Block -> String], NEW b \in Block, NEW c \in Block
  PROVE  /\ ~Precedes(view, b, b)
         /\ b = c \/ Precedes(view, b, c) \/ Precedes(view, c, b)
<1>1. view[b] \in String /\ view[c] \in String /\ b \in Nat /\ c \in Nat
  BY ConstantsAssumption
<1>2. ~Less(view[b], view[b])
  BY <1>1, LessLinear
<1>3. view[b] = view[c] \/ Less(view[b], view[c]) \/ Less(view[c], view[b])
  BY <1>1, LessLinear
<1> QED
  BY <1>1, <1>2, <1>3 DEF Precedes

\* What precedes a block precedes all that come after it.
LEMMA PrecedesTransitive ==
  ASSUME NEW view \in [Block -> String], NEW b \in Block, NEW c \in Block, NEW d \in Block,
         Precedes(view, b, c), Precedes(view, c, d)
  PROVE  Precedes(view, b, d)
<1>1. /\ view[b] \in String /\ view[c] \in String /\ view[d] \in String
      /\ b \in Nat /\ c \in Nat /\ d \in Nat
  BY ConstantsAssumption
<1>2. Less(view[b], view[c]) /\ Less(view[c], view[d]) => Less(view[b], view[d])
  BY <1>1, LessTransitive
<1> QED
  BY <1>1, <1>2 DEF Precedes

\* Some block of any is before the others.
LEMMA FirstBlock ==
  ASSUME NEW view \in [Block -> String], NEW S \in SUBSET Block, S # {}
  PROVE  \E b \in S : \A c \in S \ {b} : Precedes(view, b, c)
<1> DEFINE Below(c) == {d \in S : Precedes(view, d, c)}
           N == {Cardinality(Below(c)) : c \in S}
<1>1. \A c \in S : Below(c) \in SUBSET S /\ IsFiniteSet(S)
  BY ConstantsAssumption, FS_Subset
<1>2. \A c \in S : IsFiniteSet(Below(c)) /\ Cardinality(Below(c)) \in Nat
  BY <1>1, FS_Subset, FS_CardinalityType
<1>3. PICK m \in N : \A n \in N : m <= n
  <2>1. N \in SUBSET Nat /\ N # {}
    BY <1>2
  <2> HIDE DEF N
  <2> QED
    BY <2>1, LeastNatural
<1>4. PICK b \in S : m = Cardinality(Below(b))
  BY <1>3
<1>5. ASSUME NEW c \in S, Precedes(view, c, b)
      PROVE  FALSE
  <2>1. Below(c) \in SUBSET Below(b)
    BY <1>5, PrecedesTransitive
  <2>2. c \in Below(b) /\ c \notin Below(c)
    BY <1>5, PrecedesLinear
  <2>3. Cardinality(Below(b)) <= Cardinality(Below(c))
    BY <1>3, <1>4
  <2> HIDE DEF Below
  <2>4. Cardinality(Below(c)) <= Cardinality(Below(b))
    BY <1>2, <2>1, FS_Subset
  <2>5. Cardinality(Below(b)) = Cardinality(Below(c))
    BY <1>2, <2>3, <2>4
  <2>6. Below(b) = Below(c)
    BY <1>2, <2>1, <2>5, FS_Subset
  <2> QED
    BY <2>2, <2>6
<1> QED
  BY <1>5, PrecedesLinear

\* A view has the used positions, and no others.
LEMMA ViewTyped ==
  ASSUME IInv, NEW u \in Teacher
  PROVE  /\ View(u) \in [Block -> UsedPositions \cup {NoPosition}]
         /\ View(u) \in [Block -> String]
         /\ UsedPositions \subseteq Position /\ UsedPositions \subseteq String
<1>1. View(u) \in [Block -> UsedPositions \cup {NoPosition}]
  BY UsedTyped DEF View
<1>2. UsedPositions \subseteq Position /\ Position \subseteq String /\ NoPosition \in String
  BY UsedTyped DEF Position, String, NoPosition
<1>3. \A b \in Block : View(u)[b] \in String
  BY <1>1, <1>2
<1>4. View(u) \in [Block -> String]
  BY <1>1, <1>3
<1> QED
  BY <1>1, <1>2, <1>4

\* What the code reads before it computes a position.
LEMMA NeighboursAre ==
  ASSUME NEW view \in [Block -> String], NEW after \in Shown(view) \cup {NoBlock}
  PROVE  LET prev == PositionOf(view, after)
             next == NextPosition(view, after)
         IN  /\ prev \in String /\ next \in String
             /\ after = NoBlock => prev = NoPosition
             /\ after # NoBlock => prev = view[after] /\ prev # NoPosition
             /\ Following(view, after) = {} => next = NoPosition
             /\ Following(view, after) # {} =>
                  \E n \in Following(view, after) :
                    /\ next = view[n] /\ next # NoPosition
                    /\ \A c \in Following(view, after) \ {n} : Precedes(view, n, c)
<1>1. Following(view, after) \in SUBSET Block /\ Shown(view) \subseteq Block
  BY DEF Following, Shown
<1>2. NoPosition \in String
  BY DEF NoPosition, String
<1>3. \A b \in Shown(view) : b \in Block /\ b # NoBlock /\ view[b] # NoPosition
  BY ConstantsAssumption DEF Shown
<1>4. CASE Following(view, after) = {}
  BY <1>2, <1>3, <1>4 DEF PositionOf, NextPosition
<1>5. CASE Following(view, after) # {}
  <2> DEFINE n == CHOOSE b \in Following(view, after) :
                    \A c \in Following(view, after) \ {b} : Precedes(view, b, c)
  <2>1. /\ n \in Following(view, after)
        /\ \A c \in Following(view, after) \ {n} : Precedes(view, n, c)
    BY <1>1, <1>5, FirstBlock
  <2>2. NextPosition(view, after) = view[n]
    BY <1>5 DEF NextPosition
  <2> HIDE DEF n
  <2>3. n \in Block /\ view[n] # NoPosition
    BY <2>1, <1>3 DEF Following
  <2> QED
    BY <1>2, <1>3, <1>5, <2>1, <2>2, <2>3 DEF PositionOf
<1> QED
  BY <1>4, <1>5

\* A new position is a string that does not end in a zero.
LEMMA NewPositionTyped ==
  ASSUME NEW view \in [Block -> String], NEW after \in Shown(view) \cup {NoBlock}
  PROVE  LET p == NewPosition(view, after)
         IN  p \in String /\ p # NoPosition /\ p[Len(p)] # 0
<1>1. PositionOf(view, after) \in String /\ NextPosition(view, after) \in String
  BY NeighboursAre
<1> QED
  BY <1>1, MiddleTyped DEF NewPosition, NoPosition

\* The new position is that of the draft, the base is an older one.
LEMMA PutIInv ==
  ASSUME IInv, NEW u \in Teacher, NEW b \in Block, NEW after,
         NEW base \in UsedPositions \cup {NoPosition},
         Put(u, b, base, after), CountEdit, UNCHANGED <<published, checkpoints, rebalances>>
  PROVE  /\ IInv'
         /\ UsedPositions' \subseteq UsedPositions \cup {NewPosition(View(u), after)}
<1> DEFINE p == NewPosition(View(u), after)
           d == [position |-> p, base |-> base]
<1>1. p \in String /\ p # NoPosition /\ Len(p) <= MaxLength
  BY ViewTyped, NewPositionTyped DEF Put
<1>2. drafts' = [drafts EXCEPT ![u][b] = d]
  BY DEF Put
<1>3. p \in Position
  BY <1>1 DEF Position
<1> HIDE DEF p
<1>4. d \in DraftRow
  BY <1>3, ViewTyped DEF DraftRow, MaybePosition
<1>5. d.position = p /\ d.base = base
  OBVIOUS
<1> HIDE DEF d
<1> QED
  BY <1>2, <1>4, <1>5, EditIInv DEF p


-----------------------------------------------------------------------------
(* The steps                                                               *)

\* The positions a step leaves are old ones or not all zeros.
OldOrNonzero == \A p \in UsedPositions' : p \in UsedPositions \/ \E j \in DOMAIN p : p[j] # 0

\* Where blocks are created, moved, changed and deleted.
LEMMA EditsStep ==
  ASSUME IInv, NEW u \in Teacher, NEW b \in Block,
         \/ \E after \in Block \cup {NoBlock} :
              CreateBlock(u, b, after) \/ MoveBlock(u, b, after)
         \/ PatchBlock(u, b) \/ DeleteBlockByID(u, b)
  PROVE  IInv' /\ OldOrNonzero
<1>1. /\ published[b] \in UsedPositions \cup {NoPosition}
      /\ drafts[u][b].base \in UsedPositions \cup {NoPosition}
      /\ UsedPositions \subseteq Position
  BY UsedTyped
<1>2. ASSUME NEW after, NEW base \in UsedPositions \cup {NoPosition},
             Put(u, b, base, after), CountEdit, UNCHANGED <<published, checkpoints, rebalances>>
      PROVE  IInv' /\ OldOrNonzero
  <2> DEFINE p == NewPosition(View(u), after)
  <2>1. p \in String /\ p # NoPosition /\ p[Len(p)] # 0
    BY <1>2, ViewTyped, NewPositionTyped DEF Put
  <2>2. IInv' /\ UsedPositions' \subseteq UsedPositions \cup {p}
    BY <1>2, PutIInv
  <2> HIDE DEF p
  <2>3. Len(p) \in DOMAIN p
    BY <2>1 DEF String, NoPosition
  <2> QED
    BY <2>1, <2>2, <2>3 DEF OldOrNonzero
<1>3. ASSUME NEW after, CreateBlock(u, b, after)
      PROVE  IInv' /\ OldOrNonzero
  BY <1>2, <1>3 DEF CreateBlock
<1>4. ASSUME NEW after, MoveBlock(u, b, after)
      PROVE  IInv' /\ OldOrNonzero
  BY <1>1, <1>2, <1>4 DEF MoveBlock
<1>5. ASSUME NEW d \in DraftRow, drafts' = [drafts EXCEPT ![u][b] = d], CountEdit,
             UNCHANGED <<published, checkpoints, rebalances>>,
             d.position \in UsedPositions \cup {NoPosition},
             d.base \in UsedPositions \cup {NoPosition}
      PROVE  IInv' /\ OldOrNonzero
  <2>1. IInv' /\ UsedPositions' \subseteq UsedPositions \cup {NoPosition}
    BY <1>5, EditIInv
  <2>2. NoPosition \notin UsedPositions'
    BY UsedIsThen
  <2> QED
    BY <2>1, <2>2 DEF OldOrNonzero
<1>6. CASE PatchBlock(u, b)
  <2> DEFINE d == [position |-> published[b], base |-> published[b]]
  <2>1. d \in DraftRow /\ d.position = published[b] /\ d.base = published[b]
    BY <1>1 DEF DraftRow, MaybePosition
  <2>2. /\ drafts' = [drafts EXCEPT ![u][b] = d] /\ CountEdit
        /\ UNCHANGED <<published, checkpoints, rebalances>>
    BY <1>6 DEF PatchBlock
  <2> HIDE DEF d
  <2> QED
    BY <1>1, <1>5, <2>1, <2>2
<1>7. CASE DeleteBlockByID(u, b)
  <2> DEFINE base == IF HasDraft(u, b) THEN drafts[u][b].base ELSE published[b]
             d == [position |-> NoPosition, base |-> base]
  <2>1. base \in UsedPositions \cup {NoPosition}
    BY <1>1
  <2>2. /\ drafts' = [drafts EXCEPT ![u][b] = d] /\ CountEdit
        /\ UNCHANGED <<published, checkpoints, rebalances>>
    BY <1>7 DEF DeleteBlockByID
  <2> HIDE DEF base
  <2>3. d \in DraftRow /\ d.position = NoPosition /\ d.base = base
    BY <1>1, <2>1 DEF DraftRow, MaybePosition
  <2> HIDE DEF d
  <2> QED
    BY <1>5, <2>1, <2>2, <2>3
<1> QED
  BY <1>3, <1>4, <1>6, <1>7

\* Discarding takes positions away.
LEMMA DiscardStep ==
  ASSUME IInv, NEW u \in Teacher, DiscardDrafts(u)
  PROVE  IInv' /\ OldOrNonzero
<1>1. drafts \in [Teacher -> [Block -> DraftRow]]
  BY DEF IInv, TypeOK, MaybePosition, DraftRow
<1>2. /\ drafts' = [drafts EXCEPT ![u] = [b \in Block |-> NoDraft]]
      /\ UNCHANGED <<published, checkpoints, edits, rebalances>>
  BY DEF DiscardDrafts
<1>3. NoDraft \in DraftRow
  BY DEF NoDraft, DraftRow, MaybePosition
<1>4. drafts' \in [Teacher -> [Block -> DraftRow]]
  BY <1>1, <1>2, <1>3
<1>5. TypeOK' /\ PublishedUsed'
  BY <1>2, <1>4 DEF IInv, TypeOK, MaybePosition, DraftRow, PublishedUsed
<1>6. \A v \in Teacher, b \in Block : drafts'[v][b] \in {drafts[v][b], NoDraft}
  BY <1>1, <1>2
<1>7. UsedPositions' \subseteq UsedPositions
  <2> SUFFICES ASSUME NEW q \in UsedPositions' PROVE q \in UsedPositions
    OBVIOUS
  <2>1. NoDraft.position = NoPosition /\ NoDraft.base = NoPosition
    BY DEF NoDraft
  <2> QED
    BY <1>2, <1>6, <2>1, UsedIs, UsedIsThen
<1> QED
  BY <1>2, <1>5, <1>7, QuietIInv DEF OldOrNonzero

\* A publish or a restore adds a checkpoint with the positions there are.
LEMMA CheckpointStep ==
  ASSUME IInv, published' \in [Block -> UsedPositions \cup {NoPosition}],
         checkpoints' = Append(checkpoints, published'),
         UNCHANGED <<edits, rebalances>>,
         \/ UNCHANGED drafts
         \/ \E u \in Teacher : drafts' = [drafts EXCEPT ![u] = [b \in Block |-> NoDraft]]
  PROVE  IInv' /\ OldOrNonzero
<1>1. /\ drafts \in [Teacher -> [Block -> DraftRow]]
      /\ checkpoints \in Seq([Block -> MaybePosition])
      /\ UsedPositions \subseteq Position
  BY UsedTyped DEF IInv, TypeOK, MaybePosition, DraftRow
<1>2. NoDraft \in DraftRow /\ NoDraft.position = NoPosition /\ NoDraft.base = NoPosition
  BY DEF NoDraft, DraftRow, MaybePosition
<1>3. /\ drafts' \in [Teacher -> [Block -> DraftRow]]
      /\ \A v \in Teacher, b \in Block : drafts'[v][b] \in {drafts[v][b], NoDraft}
  BY <1>1, <1>2
<1>4. published' \in [Block -> MaybePosition]
  BY <1>1 DEF MaybePosition
<1> DEFINE n == Len(checkpoints) + 1
<1>5. /\ checkpoints' \in Seq([Block -> MaybePosition])
      /\ Len(checkpoints) \in Nat /\ DOMAIN checkpoints = 1 .. Len(checkpoints)
      /\ DOMAIN checkpoints' = 1 .. n /\ n \in 1 .. n
      /\ checkpoints'[n] = published'
      /\ \A i \in 1 .. Len(checkpoints) : checkpoints'[i] = checkpoints[i]
  BY <1>1, <1>4, AppendProperties, LenProperties
<1>6. TypeOK'
  BY <1>3, <1>4, <1>5 DEF IInv, TypeOK, MaybePosition, DraftRow
<1>7. PublishedUsed'
  BY <1>5 DEF PublishedUsed
<1>8. UsedPositions' \subseteq UsedPositions
  <2> SUFFICES ASSUME NEW q \in UsedPositions' PROVE q \in UsedPositions
    OBVIOUS
  <2>1. /\ q # NoPosition
        /\ \/ \E i \in DOMAIN checkpoints', b \in Block : checkpoints'[i][b] = q
           \/ \E v \in Teacher, b \in Block : drafts'[v][b].position = q
           \/ \E v \in Teacher, b \in Block : drafts'[v][b].base = q
    BY UsedIsThen
  <2>2. ASSUME NEW i \in DOMAIN checkpoints', NEW b \in Block, checkpoints'[i][b] = q
        PROVE  q \in UsedPositions
    <3>1. CASE i = n
      BY <1>5, <2>1, <2>2, <3>1
    <3>2. CASE i # n
      <4>1. i \in DOMAIN checkpoints /\ checkpoints'[i] = checkpoints[i]
        BY <1>5, <3>2
      <4> QED
        BY <2>1, <2>2, <4>1, UsedIs
    <3> QED
      BY <3>1, <3>2
  <2>3. ASSUME NEW v \in Teacher, NEW b \in Block,
               drafts'[v][b].position = q \/ drafts'[v][b].base = q
        PROVE  q \in UsedPositions
    BY <1>2, <1>3, <2>1, <2>3, UsedIs
  <2> QED
    BY <2>1, <2>2, <2>3
<1> QED
  BY <1>6, <1>7, <1>8, QuietIInv DEF OldOrNonzero

\* A merge gives a block the drafted or the published position.
LEMMA PublishStep ==
  ASSUME IInv, NEW u \in Teacher, PublishDrafts(u)
  PROVE  IInv' /\ OldOrNonzero
<1>1. ASSUME NEW b \in Block
      PROVE  /\ published[b] \in UsedPositions \cup {NoPosition}
             /\ Merged(drafts[u][b], published[b]) \in UsedPositions \cup {NoPosition}
  BY UsedTyped DEF Merged
<1>2. published' \in [Block -> UsedPositions \cup {NoPosition}]
  BY <1>1 DEF PublishDrafts
<1> QED
  BY <1>2, CheckpointStep DEF PublishDrafts

\* A restore publishes the positions of a checkpoint.
LEMMA RestoreStep ==
  ASSUME IInv, NEW i, RestoreCheckpoint(i)
  PROVE  IInv' /\ OldOrNonzero
<1>1. checkpoints \in Seq([Block -> MaybePosition]) /\ i \in DOMAIN checkpoints
  BY DEF IInv, TypeOK, MaybePosition, RestoreCheckpoint
<1>2. checkpoints[i] \in [Block -> UsedPositions \cup {NoPosition}]
  <2>1. checkpoints[i] \in [Block -> MaybePosition]
    BY <1>1
  <2>2. \A b \in Block : checkpoints[i][b] \in UsedPositions \cup {NoPosition}
    BY <1>1, UsedTyped
  <2> QED
    BY <2>1, <2>2
<1> QED
  BY <1>2, CheckpointStep DEF RestoreCheckpoint


RankOf(p) == Cardinality({q \in UsedPositions : q = p \/ Less(q, p)})

\* Used positions have the ranks from one to their number, in their order.
LEMMA RanksOf ==
  ASSUME IInv
  PROVE  LET total == Cardinality(UsedPositions)
         IN  /\ total \in Nat
             /\ \A p \in UsedPositions :
                  /\ RankOf(p) \in 1 .. total
                  /\ Rebalanced(p) = IndexToPosition(RankOf(p), total + 1)
             /\ \A p, q \in UsedPositions : Less(p, q) => RankOf(p) < RankOf(q)
<1> DEFINE total == Cardinality(UsedPositions)
           UpTo(p) == {q \in UsedPositions : q = p \/ Less(q, p)}
<1>1. IsFiniteSet(UsedPositions) /\ total \in Nat /\ UsedPositions \subseteq String
  BY FS_CardinalityType, UsedTyped DEF IInv, FewPositions, Position
<1>2. \A p \in UsedPositions : p # NoPosition
  BY UsedIs
<1>3. ASSUME NEW p \in UsedPositions
      PROVE  /\ IsFiniteSet(UpTo(p)) /\ Cardinality(UpTo(p)) \in 1 .. total
             /\ RankOf(p) = Cardinality(UpTo(p))
  <2>1. UpTo(p) \in SUBSET UsedPositions /\ UpTo(p) # {}
    BY <1>3
  <2>2. RankOf(p) = Cardinality(UpTo(p))
    BY DEF RankOf
  <2> HIDE DEF UpTo
  <2>3. /\ IsFiniteSet(UpTo(p)) /\ Cardinality(UpTo(p)) \in Nat
        /\ Cardinality(UpTo(p)) <= total /\ Cardinality(UpTo(p)) # 0
    BY <1>1, <2>1, FS_Subset, FS_CardinalityType, FS_EmptySet
  <2> QED
    BY <1>1, <2>2, <2>3
<1>4. ASSUME NEW p \in UsedPositions
      PROVE  Rebalanced(p) = IndexToPosition(RankOf(p), total + 1)
  BY <1>2 DEF Rebalanced, RankOf
<1>5. ASSUME NEW p \in UsedPositions, NEW q \in UsedPositions, Less(p, q)
      PROVE  RankOf(p) < RankOf(q)
  <2>1. UpTo(p) \in SUBSET UpTo(q)
    BY <1>1, <1>5, LessTransitive
  <2>2. q \in UpTo(q) /\ q \notin UpTo(p)
    <3>1. p # q /\ ~Less(q, p)
      <4>1. p \in String /\ q \in String
        BY <1>1
      <4> QED
        BY <1>5, <4>1, LessLinear, LessTransitive
    <3> QED
      BY <3>1
  <2> HIDE DEF UpTo
  <2>3. Cardinality(UpTo(p)) <= Cardinality(UpTo(q)) /\ Cardinality(UpTo(p)) # Cardinality(UpTo(q))
    BY <1>3, <2>1, <2>2, FS_Subset
  <2> QED
    BY <1>1, <1>3, <2>3
<1> QED
  BY <1>1, <1>3, <1>4, <1>5

\* Each position is replaced, wherever it is used, by one of at most Digits
\* digits.
LEMMA RebalanceStep ==
  ASSUME IInv, RebalanceBlockPositions
  PROVE  /\ IInv'
         /\ UsedPositions' \subseteq {Rebalanced(p) : p \in UsedPositions}
<1> DEFINE total == Cardinality(UsedPositions)
           f == [p \in UsedPositions |-> Rebalanced(p)]
           T == {Rebalanced(p) : p \in UsedPositions}
<1>1. ASSUME NEW p \in UsedPositions
      PROVE  Rebalanced(p) \in Position
  <2>1. /\ RankOf(p) \in Nat /\ total + 1 \in Nat /\ RankOf(p) < total + 1
        /\ Rebalanced(p) = IndexToPosition(RankOf(p), total + 1)
    BY RanksOf
  <2>2. Rebalanced(p) \in String /\ Len(Rebalanced(p)) \in 1 .. Digits
    BY <2>1, PositionOfIndex
  <2>3. Rebalanced(p) # NoPosition /\ Len(Rebalanced(p)) <= MaxLength
    BY <2>2, BaseAssumption, ConstantsAssumption DEF NoPosition
  <2> QED
    BY <2>2, <2>3 DEF Position
<1>2. Rebalanced(NoPosition) = NoPosition
  BY DEF Rebalanced
<1>3. \A p \in UsedPositions \cup {NoPosition} : Rebalanced(p) \in MaybePosition
  BY <1>1, <1>2 DEF MaybePosition
<1>4. PICK R \in [UsedPositions \cup {NoPosition} -> MaybePosition] :
        \A p \in UsedPositions \cup {NoPosition} : R[p] = Rebalanced(p)
  <2>1. [p \in UsedPositions \cup {NoPosition} |-> Rebalanced(p)]
          \in [UsedPositions \cup {NoPosition} -> MaybePosition]
    BY <1>3
  <2> QED
    BY <2>1
<1>5. /\ \A b \in Block : published[b] \in UsedPositions \cup {NoPosition}
      /\ \A u \in Teacher, b \in Block :
           /\ drafts[u][b].position \in UsedPositions \cup {NoPosition}
           /\ drafts[u][b].base \in UsedPositions \cup {NoPosition}
      /\ \A i \in DOMAIN checkpoints, b \in Block :
           checkpoints[i][b] \in UsedPositions \cup {NoPosition}
  BY UsedTyped
<1>6. /\ \A b \in Block : published'[b] = R[published[b]]
      /\ \A i \in DOMAIN checkpoints, b \in Block : checkpoints'[i][b] = R[checkpoints[i][b]]
      /\ \A u \in Teacher, b \in Block :
           /\ drafts'[u][b].position = R[drafts[u][b].position]
           /\ drafts'[u][b].base = R[drafts[u][b].base]
  <2>1. /\ published' = [b \in Block |-> Rebalanced(published[b])]
        /\ checkpoints' = [i \in DOMAIN checkpoints |->
             [b \in Block |-> Rebalanced(checkpoints[i][b])]]
        /\ drafts' = [u \in Teacher |-> [b \in Block |->
             [position |-> Rebalanced(drafts[u][b].position),
              base |-> Rebalanced(drafts[u][b].base)]]]
    BY DEF RebalanceBlockPositions
  <2> QED
    BY <1>4, <1>5, <2>1
<1>7. /\ published' \in [Block -> MaybePosition]
      /\ checkpoints' \in Seq([Block -> MaybePosition]) /\ DOMAIN checkpoints' = DOMAIN checkpoints
      /\ drafts' \in [Teacher -> [Block -> DraftRow]]
      /\ edits' = edits /\ rebalances' \in 0 .. MaxRebalances
  <2>1. published' \in [Block -> MaybePosition]
    BY <1>3, <1>5 DEF RebalanceBlockPositions
  <2>2. checkpoints' \in Seq([Block -> MaybePosition]) /\ DOMAIN checkpoints' = DOMAIN checkpoints
    <3>1. Len(checkpoints) \in Nat /\ DOMAIN checkpoints = 1 .. Len(checkpoints)
      BY LenProperties DEF IInv, TypeOK
    <3>2. checkpoints' \in [1 .. Len(checkpoints) -> [Block -> MaybePosition]]
      BY <1>3, <1>5, <3>1 DEF RebalanceBlockPositions
    <3> QED
      BY <3>1, <3>2, SeqDef
  <2>3. drafts' \in [Teacher -> [Block -> DraftRow]]
    BY <1>3, <1>5 DEF RebalanceBlockPositions, DraftRow
  <2>4. edits' = edits /\ rebalances' \in 0 .. MaxRebalances
    BY ConstantsAssumption DEF RebalanceBlockPositions, IInv, TypeOK
  <2> QED
    BY <2>1, <2>2, <2>3, <2>4
<1>8. TypeOK'
  BY <1>7 DEF IInv, TypeOK, MaybePosition, DraftRow
<1>9. R[NoPosition] = NoPosition
  BY <1>2, <1>4
<1>10. PublishedUsed'
  <2> SUFFICES ASSUME NEW b \in Block, published'[b] # NoPosition
               PROVE  \E i \in DOMAIN checkpoints' : checkpoints'[i][b] = published'[b]
    BY DEF PublishedUsed
  <2>1. published[b] # NoPosition
    BY <1>6, <1>9
  <2>2. PICK i \in DOMAIN checkpoints : checkpoints[i][b] = published[b]
    BY <2>1 DEF IInv, PublishedUsed
  <2> QED
    BY <1>6, <1>7, <2>2
<1>11. UsedPositions' \subseteq T
  <2> SUFFICES ASSUME NEW q \in UsedPositions' PROVE q \in T
    OBVIOUS
  <2>1. /\ q # NoPosition
        /\ \/ \E i \in DOMAIN checkpoints', b \in Block : checkpoints'[i][b] = q
           \/ \E v \in Teacher, b \in Block : drafts'[v][b].position = q
           \/ \E v \in Teacher, b \in Block : drafts'[v][b].base = q
    BY UsedIsThen
  <2>2. PICK p \in UsedPositions \cup {NoPosition} : q = R[p]
    <3>1. CASE \E i \in DOMAIN checkpoints', b \in Block : checkpoints'[i][b] = q
      <4>1. PICK i \in DOMAIN checkpoints, b \in Block : checkpoints'[i][b] = q
        BY <1>7, <3>1
      <4> QED
        BY <1>5, <1>6, <4>1
    <3>2. CASE \E v \in Teacher, b \in Block : drafts'[v][b].position = q
      BY <1>5, <1>6, <3>2
    <3>3. CASE \E v \in Teacher, b \in Block : drafts'[v][b].base = q
      BY <1>5, <1>6, <3>3
    <3> QED
      BY <2>1, <3>1, <3>2, <3>3
  <2> QED
    BY <1>4, <1>9, <2>1, <2>2
<1>12. FewPositions'
  <2>1. IsFiniteSet(UsedPositions) /\ Cardinality(UsedPositions) <= edits
        /\ Cardinality(UsedPositions) \in Nat /\ edits \in Nat
    BY FS_CardinalityType, ConstantsAssumption DEF IInv, TypeOK, FewPositions
  <2>2. f \in Surjection(UsedPositions, T)
    BY DEF Surjection
  <2> HIDE DEF f, T
  <2>3. IsFiniteSet(T) /\ Cardinality(T) <= Cardinality(UsedPositions) /\ Cardinality(T) \in Nat
    BY <2>1, <2>2, FS_Surjection, FS_CardinalityType
  <2>4. UsedPositions' \in SUBSET T
    BY <1>11
  <2>5. /\ IsFiniteSet(UsedPositions') /\ Cardinality(UsedPositions') \in Nat
        /\ Cardinality(UsedPositions') <= Cardinality(T)
    BY <2>3, <2>4, FS_Subset, FS_CardinalityType
  <2> QED
    BY <1>7, <2>1, <2>3, <2>5 DEF FewPositions
<1> QED
  BY <1>8, <1>10, <1>11, <1>12 DEF IInv


\* Every step keeps what is known of positions.
LEMMA NextIInv == IInv /\ [Next]_vars => IInv'
<1> SUFFICES ASSUME IInv, [Next]_vars PROVE IInv'
  OBVIOUS
<1>1. ASSUME NEW u \in Teacher, NEW b \in Block,
             \/ \E after \in Block \cup {NoBlock} :
                  CreateBlock(u, b, after) \/ MoveBlock(u, b, after)
             \/ PatchBlock(u, b) \/ DeleteBlockByID(u, b)
      PROVE  IInv'
  BY <1>1, EditsStep
<1>2. CASE UNCHANGED vars
  BY <1>2 DEF vars, IInv, TypeOK, PublishedUsed, FewPositions, UsedPositions
<1> QED
  BY <1>1, <1>2, PublishStep, DiscardStep, RestoreStep, RebalanceStep DEF Next

\* Positions are typed and few, and published ones are those of a checkpoint.
THEOREM Invariance == Spec => []IInv
<1>1. Init => IInv
  <2> SUFFICES ASSUME Init PROVE IInv
    OBVIOUS
  <2>1. NoDraft \in DraftRow /\ NoDraft.position = NoPosition /\ NoDraft.base = NoPosition
    BY DEF NoDraft, DraftRow, MaybePosition
  <2>2. published \in [Block -> MaybePosition] /\ drafts \in [Teacher -> [Block -> DraftRow]]
    BY <2>1 DEF Init, MaybePosition
  <2>3. TypeOK
    BY <2>2, ConstantsAssumption DEF Init, TypeOK, MaybePosition, DraftRow
  <2>4. PublishedUsed
    BY DEF Init, PublishedUsed
  <2>5. UsedPositions = {}
    BY <2>1 DEF Init, UsedPositions
  <2> QED
    BY <2>3, <2>4, <2>5, FS_EmptySet DEF Init, IInv, FewPositions
<1> QED
  BY <1>1, NextIInv, PTL DEF Spec

\* Positions stay strings of digits that fit in the column, whatever is put,
\* published, restored and rebalanced: TypeOK.
THEOREM TypeCorrect == Spec => []TypeOK
BY Invariance, PTL DEF IInv

\* While there are fewer positions than strings of Digits digits, as there are
\* while there were fewer edits, a rebalance keeps their order:
\* RebalanceKeepsOrder.
THEOREM RebalancesKeepOrder ==
  ASSUME MaxEdits < Power[Digits]
  PROVE  Spec => RebalanceKeepsOrder
<1>1. IInv => \A p, q \in UsedPositions : Less(p, q) => Less(Rebalanced(p), Rebalanced(q))
  <2> SUFFICES ASSUME IInv, NEW p \in UsedPositions, NEW q \in UsedPositions, Less(p, q)
               PROVE  Less(Rebalanced(p), Rebalanced(q))
    OBVIOUS
  <2> DEFINE total == Cardinality(UsedPositions)
  <2>1. /\ total \in Nat /\ RankOf(p) \in 1 .. total /\ RankOf(q) \in 1 .. total
        /\ RankOf(p) < RankOf(q)
        /\ Rebalanced(p) = IndexToPosition(RankOf(p), total + 1)
        /\ Rebalanced(q) = IndexToPosition(RankOf(q), total + 1)
    BY RanksOf
  <2>2. total <= edits /\ edits \in 0 .. MaxEdits /\ MaxEdits \in Nat
    BY ConstantsAssumption DEF IInv, TypeOK, FewPositions
  <2>3. Power[Digits] \in Nat
    BY Powers, BaseAssumption
  <2> HIDE DEF total
  <2>4. /\ total + 1 \in Nat /\ total + 1 <= Power[Digits]
        /\ RankOf(p) \in Nat /\ RankOf(q) \in Nat /\ RankOf(q) < total + 1
    BY <2>1, <2>2, <2>3
  <2> QED
    BY <2>1, <2>4, FractionsOrdered
<1> QED
  BY <1>1, Invariance, PTL DEF RebalanceKeepsOrder

\* The new positions of a rebalance are not all zeros either.
LEMMA NextRoomBefore ==
  ASSUME MaxEdits < Power[Digits], IInv, RoomBefore, [Next]_vars
  PROVE  RoomBefore'
<1>1. ASSUME OldOrNonzero
      PROVE  RoomBefore'
  BY <1>1 DEF OldOrNonzero, RoomBefore
<1>2. ASSUME NEW u \in Teacher, NEW b \in Block,
             \/ \E after \in Block \cup {NoBlock} :
                  CreateBlock(u, b, after) \/ MoveBlock(u, b, after)
             \/ PatchBlock(u, b) \/ DeleteBlockByID(u, b)
      PROVE  RoomBefore'
  BY <1>1, <1>2, EditsStep
<1>3. CASE RebalanceBlockPositions
  <2> SUFFICES ASSUME NEW q \in UsedPositions' PROVE \E j \in DOMAIN q : q[j] # 0
    BY DEF RoomBefore
  <2>1. PICK p \in UsedPositions : q = Rebalanced(p)
    BY <1>3, RebalanceStep
  <2> DEFINE total == Cardinality(UsedPositions)
  <2>2. /\ total \in Nat /\ RankOf(p) \in 1 .. total
        /\ Rebalanced(p) = IndexToPosition(RankOf(p), total + 1)
    BY RanksOf
  <2>3. total <= edits /\ edits \in 0 .. MaxEdits /\ MaxEdits \in Nat /\ Power[Digits] \in Nat
    BY ConstantsAssumption, Powers, BaseAssumption DEF IInv, TypeOK, FewPositions
  <2> HIDE DEF total
  <2>4. /\ total + 1 \in Nat /\ total + 1 <= Power[Digits]
        /\ RankOf(p) \in Nat /\ 0 < RankOf(p) /\ RankOf(p) < total + 1
    BY <2>2, <2>3
  <2> QED
    BY <2>1, <2>2, <2>4, FractionsPositive
<1>4. CASE UNCHANGED vars
  BY <1>4 DEF vars, RoomBefore, UsedPositions
<1> QED
  BY <1>1, <1>2, <1>3, <1>4, PublishStep, DiscardStep, RestoreStep DEF Next

\* Where a block was put, and which others there are.
LEMMA PutsAre ==
  ASSUME IInv, NEW u \in Teacher, NEW b \in Block, NEW after \in Block \cup {NoBlock},
         CreateBlock(u, b, after) \/ MoveBlock(u, b, after)
  PROVE  /\ after \in Shown(View(u)) \cup {NoBlock} /\ b # after
         /\ View(u)' = [View(u) EXCEPT ![b] = NewPosition(View(u), after)]
<1>1. PICK base : Put(u, b, base, after)
  BY DEF CreateBlock, MoveBlock
<1>2. published' = published
  BY DEF CreateBlock, MoveBlock
<1>3. after \in Shown(View(u)) \cup {NoBlock}
  BY <1>1 DEF Put
<1>4. b # after
  <2>1. CASE CreateBlock(u, b, after)
    <3>1. ~HasDraft(u, b) /\ \A i \in DOMAIN checkpoints : checkpoints[i][b] = NoPosition
      BY <2>1 DEF CreateBlock, IsUnused
    <3>2. View(u)[b] = NoPosition
      BY <3>1 DEF View, IInv, PublishedUsed
    <3>3. b \notin Shown(View(u)) /\ b # NoBlock
      BY <3>2, ConstantsAssumption DEF Shown
    <3> QED
      BY <1>3, <3>3
  <2>2. CASE MoveBlock(u, b, after)
    BY <2>2 DEF MoveBlock
  <2> QED
    BY <2>1, <2>2
<1> DEFINE p == NewPosition(View(u), after)
           d == [position |-> p, base |-> base]
<1>5. p # NoPosition
  BY <1>3, ViewTyped, NewPositionTyped
<1>6. drafts' = [drafts EXCEPT ![u][b] = d] /\ d.position = p
  BY <1>1 DEF Put
<1>7. drafts \in [Teacher -> [Block -> DraftRow]]
  BY DEF IInv, TypeOK, MaybePosition, DraftRow
<1> HIDE DEF p, d
<1>8. drafts'[u][b] = d /\ \A c \in Block \ {b} : drafts'[u][c] = drafts[u][c]
  BY <1>6, <1>7
<1>9. HasDraft(u, b)'
  <2>1. NoDraft.position = NoPosition
    BY DEF NoDraft
  <2> QED
    BY <1>5, <1>6, <1>8, <2>1 DEF HasDraft
<1>10. View(u)' = [c \in Block |-> IF c = b THEN p ELSE View(u)[c]]
  BY <1>2, <1>6, <1>8, <1>9 DEF View, HasDraft
<1>11. View(u)' = [View(u) EXCEPT ![b] = p]
  BY <1>10 DEF View
<1> QED
  BY <1>3, <1>4, <1>11 DEF p

\* With room between its neighbours, a block comes right after the one it was
\* put after.
LEMMA PutsPlace ==
  ASSUME IInv, RoomBefore, NEW u \in Teacher, NEW b \in Block, NEW after \in Block \cup {NoBlock},
         CreateBlock(u, b, after) \/ MoveBlock(u, b, after),
         ~Crowded(PositionOf(View(u), after), NextPosition(View(u), after))
  PROVE  PutRightAfter(u, b, after)
<1>1. PICK view : view = View(u)
  OBVIOUS
<1>2. PICK w : w = View(u)'
  OBVIOUS
<1> DEFINE p == NewPosition(view, after)
           prev == PositionOf(view, after)
           next == NextPosition(view, after)
<1>3. /\ after \in Shown(view) \cup {NoBlock} /\ b # after
      /\ w = [view EXCEPT ![b] = p]
  BY <1>1, <1>2, PutsAre
<1>4. /\ view \in [Block -> String] /\ view \in [Block -> UsedPositions \cup {NoPosition}]
  BY <1>1, ViewTyped
<1>5. w[b] = p /\ \A c \in Block \ {b} : w[c] = view[c]
  BY <1>3, <1>4
<1>6. /\ prev \in String /\ next \in String
      /\ after = NoBlock => prev = NoPosition
      /\ after # NoBlock => prev = view[after] /\ prev # NoPosition
      /\ Following(view, after) = {} => next = NoPosition
      /\ Following(view, after) # {} =>
           \E n \in Following(view, after) :
             /\ next = view[n] /\ next # NoPosition
             /\ \A c \in Following(view, after) \ {n} : Precedes(view, n, c)
  BY <1>3, <1>4, NeighboursAre
<1>7. p = CalculateMiddlePosition(prev, next) /\ ~Crowded(prev, next)
  BY <1>1 DEF NewPosition
<1> HIDE DEF p, prev, next
<1>8. prev # <<>> /\ next # <<>> => Less(prev, next)
  <2> HAVE prev # <<>> /\ next # <<>>
  <2>1. after # NoBlock /\ prev = view[after]
    BY <1>6 DEF NoPosition
  <2>2. PICK n \in Following(view, after) : next = view[n]
    BY <1>6 DEF NoPosition
  <2>3. prev = next \/ Less(prev, next)
    BY <2>1, <2>2 DEF Following, Precedes
  <2>4. prev # next
    BY <1>6, <1>7 DEF Crowded, String
  <2> QED
    BY <2>3, <2>4
<1>9. next # <<>> => \E j \in DOMAIN next : next[j] # 0
  <2> HAVE next # <<>>
  <2>1. PICK n \in Following(view, after) : next = view[n] /\ next # NoPosition
    BY <1>6 DEF NoPosition
  <2>2. n \in Block
    BY <2>1 DEF Following, Shown
  <2> QED
    BY <1>4, <2>1, <2>2 DEF RoomBefore
<1>10. p \in String /\ (prev # <<>> => Less(prev, p)) /\ (next # <<>> => Less(p, next))
  BY <1>6, <1>7, <1>8, <1>9, MiddleLies
<1>11. ASSUME NEW c \in Shown(view) \ {b}
       PROVE  Precedes(w, c, b) <=> after # NoBlock /\ (c = after \/ Precedes(view, c, after))
  <2>1. c \in Block /\ view[c] \in String /\ w[c] = view[c] /\ w[b] = p
    BY <1>4, <1>5 DEF Shown
  <2>2. CASE after # NoBlock /\ (c = after \/ Precedes(view, c, after))
    <3>1. Less(prev, p) /\ prev = view[after]
      BY <1>6, <1>10, <2>2 DEF NoPosition
    <3>2. view[c] = prev \/ Less(view[c], prev)
      BY <2>2, <3>1 DEF Precedes
    <3>3. Less(view[c], p)
      BY <1>6, <1>10, <2>1, <3>1, <3>2, LessTransitive
    <3> QED
      BY <2>1, <2>2, <3>3 DEF Precedes
  <2>3. CASE ~(after # NoBlock /\ (c = after \/ Precedes(view, c, after)))
    <3>1. c \in Following(view, after)
      <4>1. after # NoBlock => Precedes(view, after, c)
        BY <1>3, <1>4, <2>1, <2>3, PrecedesLinear
      <4> QED
        BY <4>1 DEF Following
    <3>2. PICK n \in Following(view, after) :
            /\ next = view[n] /\ next # NoPosition
            /\ \A d \in Following(view, after) \ {n} : Precedes(view, n, d)
      BY <1>6, <3>1
    <3>3. view[c] = next \/ Less(next, view[c])
      BY <3>1, <3>2 DEF Precedes
    <3>4. Less(p, next)
      BY <1>10, <3>2 DEF NoPosition
    <3>5. Less(p, view[c])
      BY <1>6, <1>10, <2>1, <3>3, <3>4, LessTransitive
    <3>6. ~Less(view[c], p) /\ view[c] # p
      BY <1>10, <2>1, <3>5, LessLinear, LessTransitive
    <3> QED
      BY <2>1, <2>3, <3>6 DEF Precedes
  <2> QED
    BY <2>2, <2>3
<1>12. ASSUME NEW c \in Shown(view) \ {b}, NEW d \in Shown(view) \ {b}
       PROVE  Precedes(w, c, d) <=> Precedes(view, c, d)
  <2>1. w[c] = view[c] /\ w[d] = view[d]
    BY <1>5 DEF Shown
  <2> QED
    BY <2>1 DEF Precedes
<1> QED
  BY <1>1, <1>2, <1>11, <1>12 DEF PutRightAfter, Precedes

\* With as few edits, a block put where there is room comes right after the
\* one it was put after: PutsRightAfter.
THEOREM BlocksPlaced ==
  ASSUME MaxEdits < Power[Digits]
  PROVE  Spec => PutsRightAfter
<1>1. Init => RoomBefore
  BY DEF Init, RoomBefore, UsedPositions, NoDraft
<1>2. IInv /\ RoomBefore /\ [Next]_vars => RoomBefore'
  BY NextRoomBefore
<1>3. IInv /\ RoomBefore =>
        \A u \in Teacher, b \in Block, after \in Block \cup {NoBlock} :
          /\ CreateBlock(u, b, after) \/ MoveBlock(u, b, after)
          /\ ~Crowded(PositionOf(View(u), after), NextPosition(View(u), after))
          => PutRightAfter(u, b, after)
  BY PutsPlace
<1> QED
  BY <1>1, <1>2, <1>3, Invariance, PTL DEF Spec, PutsRightAfter


===============================================================================
