------------------------ MODULE LineProtocol_proofs -------------------------
(***************************************************************************)
(* Proofs about readline, writeread and readbinblock, for any terminator,  *)
(* any texts and blocks a device answers with and any number of commands.  *)
(***************************************************************************)
EXTENDS LineProtocol, WellFoundedInduction, SequenceTheorems, TLAPS

-----------------------------------------------------------------------------
\* Induction on natural numbers, as the existence of a least one

LEMMA Least ==
  ASSUME NEW T \in SUBSET Nat, T # {}
  PROVE  \E m \in T : \A k \in T : m <= k
  <1>1. PICK m \in T : \A k \in T : <<k, m>> \notin OpToRel(<, Nat)
    BY WFMin, NatLessThanWellFounded, Zenon
  <1>2. \A k \in T : ~ (k < m)
    BY <1>1, Zenon DEF OpToRel
  <1> QED BY <1>2

-----------------------------------------------------------------------------
\* Sequences of bytes

LEMMA Slice ==
  ASSUME NEW s \in Seq(Byte), NEW i \in Nat, NEW j \in Nat, 1 <= i, i <= j + 1, j <= Len(s)
  PROVE  /\ SubSeq(s, i, j) \in Seq(Byte)
         /\ Len(SubSeq(s, i, j)) = j - i + 1
         /\ \A k \in 1 .. (j - i + 1) : SubSeq(s, i, j)[k] = s[i + k - 1]
  <1>1. \A k \in i .. j : s[k] \in Byte
    OBVIOUS
  <1>2. /\ SubSeq(s, i, j) \in Seq(Byte)
        /\ Len(SubSeq(s, i, j)) = IF i <= j THEN j - i + 1 ELSE 0
        /\ \A k \in 1 .. (j - i + 1) : SubSeq(s, i, j)[k] = s[i + k - 1]
    BY <1>1, SubSeqProperties
  <1>3. i <= j \/ j - i + 1 = 0
    OBVIOUS
  <1> QED BY <1>2, <1>3

LEMMA Joined ==
  ASSUME NEW s \in Seq(Byte), NEW t \in Seq(Byte)
  PROVE  /\ s \o t \in Seq(Byte)
         /\ Len(s \o t) = Len(s) + Len(t)
         /\ \A k \in 1 .. Len(s) : (s \o t)[k] = s[k]
         /\ \A k \in 1 .. Len(t) : (s \o t)[Len(s) + k] = t[k]
  <1> QED BY ConcatProperties

LEMMA SameSlice ==
  ASSUME NEW s \in Seq(Byte), NEW t \in Seq(Byte), NEW i \in Nat, NEW j \in Nat,
         1 <= i, i <= j + 1, j <= Len(s), j <= Len(t), \A k \in 1 .. j : s[k] = t[k]
  PROVE  SubSeq(s, i, j) = SubSeq(t, i, j)
  <1>1. \A k \in 1 .. (j - i + 1) : i + k - 1 \in 1 .. j
    OBVIOUS
  <1>2. /\ SubSeq(s, i, j) \in Seq(Byte) /\ SubSeq(t, i, j) \in Seq(Byte)
        /\ Len(SubSeq(s, i, j)) = j - i + 1 /\ Len(SubSeq(t, i, j)) = j - i + 1
        /\ \A k \in 1 .. (j - i + 1) : SubSeq(s, i, j)[k] = SubSeq(t, i, j)[k]
    BY <1>1, Slice
  <1> QED BY <1>2, SeqEqual

LEMMA Split ==
  ASSUME NEW s \in Seq(Byte), NEW i \in Nat, NEW j \in Nat, NEW m \in Nat, NEW k \in Nat,
         1 <= i, i <= j + 1, j < m, m <= j + 1, j <= k, k <= Len(s)
  PROVE  SubSeq(s, i, j) \o SubSeq(s, m, k) = SubSeq(s, i, k)
  <1>1. i \in 1 .. Len(s) + 1 /\ j \in i - 1 .. Len(s) /\ k \in j .. Len(s)
    OBVIOUS
  <1>2. SubSeq(s, i, j) \o SubSeq(s, j + 1, k) = SubSeq(s, i, k)
    BY <1>1, ConcatAdjacentSubSeq
  <1>3. m = j + 1
    OBVIOUS
  <1> QED BY <1>2, <1>3, Zenon

LEMMA Halves ==
  ASSUME NEW s \in Seq(Byte), NEW j \in Nat, NEW m \in Nat, NEW k \in Nat,
         j < m, m <= j + 1, j <= k, k <= Len(s), Len(s) <= k
  PROVE  SubSeq(s, 1, j) \o SubSeq(s, m, k) = s
  <1>1. 1 \in Nat /\ 1 <= j + 1 /\ 1 <= 1
    OBVIOUS
  <1>2. SubSeq(s, 1, j) \o SubSeq(s, m, k) = SubSeq(s, 1, k)
    BY <1>1, Split
  <1>3. k = Len(s)
    OBVIOUS
  <1> QED BY <1>2, <1>3, SubSeqFull

-----------------------------------------------------------------------------
\* The digits of a number

NextDigits(f, n) == IF n < 10 THEN <<Zero + n>> ELSE Append(f[n \div 10], Zero + (n % 10))
DigitsUpTo(f, m) == f = [n \in 0 .. m |-> NextDigits(f, n)]

LEMMA DigitsExist ==
  ASSUME NEW m \in Nat
  PROVE  \E f : DigitsUpTo(f, m)
  <1> DEFINE T == {k \in Nat : ~ \E f : DigitsUpTo(f, k)}
  <1>1. SUFFICES ASSUME T # {} PROVE FALSE
    BY DEF DigitsUpTo
  <1>2. PICK k \in T : \A j \in T : k <= j
    BY <1>1, Least
  <1>3. CASE k = 0
    <2>1. DigitsUpTo([n \in 0 .. 0 |-> <<Zero + n>>], 0)
      BY DEF DigitsUpTo, NextDigits
    <2> QED BY <1>2, <1>3, <2>1
  <1>4. CASE k # 0
    <2>1. k - 1 \in Nat /\ k - 1 \notin T
      BY <1>2, <1>4
    <2>2. PICK f : DigitsUpTo(f, k - 1)
      BY <2>1
    <2>3. PICK g : g = [n \in 0 .. k |-> IF n < k THEN f[n] ELSE NextDigits(f, k)]
      OBVIOUS
    <2>4. ASSUME NEW n \in 0 .. k
          PROVE  g[n] = NextDigits(g, n)
      <3>1. n >= 10 => n \div 10 \in 0 .. (n - 1)
        OBVIOUS
      <3>2. n >= 10 => g[n \div 10] = f[n \div 10]
        BY <1>2, <2>3, <3>1
      <3>3. n < k => f[n] = NextDigits(f, n) /\ g[n] = f[n]
        <4>1. n < k => n \in 0 .. (k - 1)
          BY <1>2
        <4> QED BY <2>2, <2>3, <4>1 DEF DigitsUpTo
      <3>4. n >= k => n = k /\ g[n] = NextDigits(f, k)
        BY <1>2, <2>3
      <3>5. g[n] = NextDigits(f, n)
        BY <1>2, <3>3, <3>4
      <3> QED BY <3>2, <3>5 DEF NextDigits
    <2>5. DigitsUpTo(g, k)
      BY <2>3, <2>4 DEF DigitsUpTo
    <2> QED BY <1>2, <2>5
  <1> QED BY <1>3, <1>4

LEMMA DigitsAgree ==
  ASSUME NEW i \in Nat, NEW j \in Nat, NEW f, NEW g, DigitsUpTo(f, i), DigitsUpTo(g, j),
         NEW n \in Nat, n <= i, n <= j
  PROVE  f[n] = g[n]
  <1> DEFINE T == {k \in Nat : k <= i /\ k <= j /\ f[k] # g[k]}
  <1>1. SUFFICES ASSUME T # {} PROVE FALSE
    OBVIOUS
  <1>2. PICK k \in T : \A l \in T : k <= l
    BY <1>1, Least
  <1>3. k \in Nat /\ k <= i /\ k <= j
    BY <1>2
  <1>4. f[k] = NextDigits(f, k) /\ g[k] = NextDigits(g, k)
    <2>1. k \in 0 .. i /\ k \in 0 .. j
      BY <1>3
    <2>2. f[k] = NextDigits(f, k)
      BY <2>1, Zenon DEF DigitsUpTo
    <2>3. g[k] = NextDigits(g, k)
      BY <2>1, Zenon DEF DigitsUpTo
    <2> QED BY <2>2, <2>3
  <1>5. k >= 10 => f[k \div 10] = g[k \div 10]
    <2>1. k >= 10 => k \div 10 \in Nat /\ k \div 10 < k
      BY <1>3
    <2> QED BY <1>2, <1>3, <2>1
  <1> QED BY <1>2, <1>4, <1>5 DEF NextDigits

\* The recursive definition of Digits has a solution.
LEMMA DigitsUnfold ==
  ASSUME NEW n \in Nat
  PROVE  Digits[n] = IF n < 10 THEN <<Zero + n>> ELSE Append(Digits[n \div 10], Zero + (n % 10))
  <1> DEFINE F == [m \in Nat |-> (CHOOSE f : DigitsUpTo(f, m))[m]]
  <1>1. ASSUME NEW m \in Nat
        PROVE  F[m] = NextDigits(F, m)
    <2>1. PICK f : f = CHOOSE g : DigitsUpTo(g, m)
      OBVIOUS
    <2>2. DigitsUpTo(f, m)
      BY <2>1, DigitsExist
    <2>3. F[m] = f[m] /\ f[m] = NextDigits(f, m)
      BY <2>1, <2>2 DEF DigitsUpTo
    <2>4. CASE m < 10
      BY <2>3, <2>4 DEF NextDigits
    <2>5. CASE m >= 10
      <3>1. m \div 10 \in Nat /\ m \div 10 <= m
        BY <2>5
      <3>2. DigitsUpTo(CHOOSE g : DigitsUpTo(g, m \div 10), m \div 10)
        BY <3>1, DigitsExist
      <3>3. F[m \div 10] = f[m \div 10]
        BY <2>2, <3>1, <3>2, DigitsAgree
      <3> QED BY <2>3, <2>5, <3>3 DEF NextDigits
    <2> QED BY <2>4, <2>5
  <1>2. F = [m \in Nat |-> F[m]]
    OBVIOUS
  <1> HIDE DEF F
  <1>3. F = [m \in Nat |-> NextDigits(F, m)]
    BY <1>1, <1>2
  <1>4. F = [m \in Nat |-> IF m < 10 THEN <<Zero + m>> ELSE Append(F[m \div 10], Zero + (m % 10))]
    BY <1>3, Zenon DEF NextDigits
  <1>5. Digits = [m \in Nat |-> IF m < 10 THEN <<Zero + m>>
                                ELSE Append(Digits[m \div 10], Zero + (m % 10))]
    BY <1>4, Zenon DEF Digits
  <1> QED BY <1>5

LEMMA DigitsSmall ==
  ASSUME NEW n \in Nat, n < 10
  PROVE  Digits[n] = <<Zero + n>>
  <1> QED BY DigitsUnfold

LEMMA DigitsLarge ==
  ASSUME NEW n \in Nat, NEW q, n >= 10, q = n \div 10
  PROVE  Digits[n] = Append(Digits[q], Zero + (n % 10))
  <1>1. ~ (n < 10)
    OBVIOUS
  <1>2. Digits[n] = Append(Digits[n \div 10], Zero + (n % 10))
    BY <1>1, DigitsUnfold, Zenon
  <1> QED BY <1>2, Zenon

-----------------------------------------------------------------------------
\* What a sequence of digits stands for

Sums(ds, it) ==
  /\ it[0] = 0
  /\ \A k \in 1 .. Len(ds) : it[k] = 10 * it[k - 1] + (ds[k] - Zero)

NextFold(ds, g, s) ==
  IF s = {} THEN 0 ELSE LET x == Max(s) IN 10 * g[s \ {x}] + (ds[x] - Zero)
FoldUpTo(ds, g, k) == g = [s \in SUBSET (1 .. k) |-> NextFold(ds, g, s)]

LEMMA MaxOfPrefix ==
  ASSUME NEW k \in Nat, NEW s \in SUBSET (1 .. k), k \in s
  PROVE  Max(s) = k
  <1>1. \A y \in s : k >= y
    OBVIOUS
  <1>2. Max(s) = CHOOSE x \in s : \A y \in s : x >= y
    BY DEF Max
  <1>3. Max(s) \in s /\ \A y \in s : Max(s) >= y
    BY <1>1, <1>2
  <1>4. PICK x \in 1 .. k : x = Max(s)
    BY <1>3
  <1> QED BY <1>3, <1>4

LEMMA FoldExists ==
  ASSUME NEW ds, NEW m \in Nat
  PROVE  \E g : FoldUpTo(ds, g, m)
  <1> DEFINE T == {k \in Nat : ~ \E g : FoldUpTo(ds, g, k)}
  <1>1. SUFFICES ASSUME T # {} PROVE FALSE
    BY DEF FoldUpTo
  <1>2. PICK k \in T : \A j \in T : k <= j
    BY <1>1, Least
  <1>3. CASE k = 0
    <2>1. FoldUpTo(ds, [s \in SUBSET (1 .. 0) |-> 0], 0)
      <3>1. \A s \in SUBSET (1 .. 0) : s = {}
        OBVIOUS
      <3> QED BY <3>1 DEF FoldUpTo, NextFold
    <2> QED BY <1>2, <1>3, <2>1
  <1>4. CASE k # 0
    <2>1. k - 1 \in Nat /\ k - 1 \notin T /\ k \in Nat
      BY <1>2, <1>4
    <2>2. PICK f : FoldUpTo(ds, f, k - 1)
      BY <2>1
    <2>3. PICK g : g = [s \in SUBSET (1 .. k) |->
                          IF k \in s THEN 10 * f[s \ {k}] + (ds[k] - Zero) ELSE f[s]]
      OBVIOUS
    <2>4. ASSUME NEW s \in SUBSET (1 .. k)
          PROVE  g[s] = NextFold(ds, g, s)
      <3>1. CASE k \in s
        <4>1. Max(s) = k
          BY <2>1, <3>1, MaxOfPrefix
        <4>2. s \ {k} \in SUBSET (1 .. k) /\ k \notin s \ {k}
          OBVIOUS
        <4>3. g[s \ {k}] = f[s \ {k}]
          BY <2>3, <4>2
        <4>4. g[s] = 10 * f[s \ {k}] + (ds[k] - Zero)
          BY <2>3, <3>1
        <4>5. s # {}
          BY <3>1
        <4> QED BY <4>1, <4>3, <4>4, <4>5 DEF NextFold
      <3>2. CASE k \notin s
        <4>1. s \in SUBSET (1 .. (k - 1))
          BY <2>1, <3>2
        <4>2. g[s] = f[s]
          BY <2>3, <3>2
        <4>3. f[s] = NextFold(ds, f, s)
          BY <2>2, <4>1 DEF FoldUpTo
        <4>4. \A x : g[s \ {x}] = f[s \ {x}]
          BY <2>3, <3>2
        <4> QED BY <4>2, <4>3, <4>4 DEF NextFold
      <3> QED BY <3>1, <3>2
    <2>5. FoldUpTo(ds, g, k)
      BY <2>3, <2>4 DEF FoldUpTo
    <2> QED BY <1>2, <2>5
  <1> QED BY <1>3, <1>4

\* FoldLeft over digits is the loop it stands for.
LEMMA NumberSums ==
  ASSUME NEW ds, NEW m \in Nat, DOMAIN ds = 1 .. m, Len(ds) = m
  PROVE  \E it : Sums(ds, it) /\ Number(ds) = it[m]
  <1> DEFINE G == CHOOSE g : g = [s \in SUBSET (1 .. m) |->
                     IF s = {} THEN 0 ELSE LET x == Max(s) IN 10 * g[s \ {x}] + (ds[x] - Zero)]
  <1>1. Number(ds) = G[1 .. m]
    BY DEF Number, FoldLeft, MapThenFoldSet
  <1>2. FoldUpTo(ds, G, m)
    <2>1. G = CHOOSE g : FoldUpTo(ds, g, m)
      BY DEF FoldUpTo, NextFold
    <2> QED BY <2>1, FoldExists
  <1> HIDE DEF G
  <1>3. PICK it : it = [k \in 0 .. m |-> G[1 .. k]]
    OBVIOUS
  <1>4. \A k \in 0 .. m : 1 .. k \in SUBSET (1 .. m) /\ it[k] = G[1 .. k]
    BY <1>3
  <1>5. it[0] = 0
    <2>1. 1 .. 0 = {} /\ {} \in SUBSET (1 .. m)
      OBVIOUS
    <2>2. G[{}] = 0
      BY <1>2, <2>1 DEF FoldUpTo, NextFold
    <2> QED BY <1>3, <2>1, <2>2
  <1>6. ASSUME NEW k \in 1 .. m
        PROVE  it[k] = 10 * it[k - 1] + (ds[k] - Zero)
    <2> DEFINE s == 1 .. k
    <2>0. k \in Nat /\ s \in SUBSET (1 .. k) /\ k \in s
      OBVIOUS
    <2>1. Max(s) = k /\ s # {}
      <3> HIDE DEF s
      <3> QED BY <2>0, MaxOfPrefix
    <2>2. s \ {k} = 1 .. (k - 1) /\ s \in SUBSET (1 .. m)
      OBVIOUS
    <2>3. G[s] = 10 * G[s \ {k}] + (ds[k] - Zero)
      <3> HIDE DEF s
      <3>1. G[s] = NextFold(ds, G, s)
        BY <1>2, <2>2 DEF FoldUpTo
      <3> QED BY <2>1, <3>1 DEF NextFold
    <2>4. it[k] = G[s] /\ it[k - 1] = G[1 .. (k - 1)]
      BY <1>3
    <2> QED BY <2>2, <2>3, <2>4
  <1> QED BY <1>1, <1>4, <1>5, <1>6 DEF Sums
LEMMA SumsAgree ==
  ASSUME NEW ds, NEW es, NEW it, NEW jt, NEW n \in Nat, n <= Len(ds), n <= Len(es),
         Len(ds) \in Nat, Len(es) \in Nat, \A k \in 1 .. n : ds[k] = es[k],
         Sums(ds, it), Sums(es, jt)
  PROVE  it[n] = jt[n]
  <1> DEFINE T == {k \in Nat : k <= n /\ it[k] # jt[k]}
  <1>1. SUFFICES ASSUME T # {} PROVE FALSE
    OBVIOUS
  <1>2. PICK k \in T : \A l \in T : k <= l
    BY <1>1, Least
  <1>3. k # 0
    BY <1>2 DEF Sums
  <1>4. k \in 1 .. n /\ k \in 1 .. Len(ds) /\ k \in 1 .. Len(es)
    BY <1>2, <1>3
  <1>5. it[k - 1] = jt[k - 1]
    BY <1>2, <1>4
  <1>6. it[k] = 10 * it[k - 1] + (ds[k] - Zero) /\ jt[k] = 10 * jt[k - 1] + (es[k] - Zero)
    BY <1>4 DEF Sums
  <1> QED BY <1>2, <1>4, <1>5, <1>6

LEMMA NumberOne ==
  ASSUME NEW c \in Digit
  PROVE  Number(<<c>>) = c - Zero
  <1>1. DOMAIN <<c>> = 1 .. 1 /\ Len(<<c>>) = 1 /\ <<c>>[1] = c
    OBVIOUS
  <1>2. PICK it : Sums(<<c>>, it) /\ Number(<<c>>) = it[1]
    BY <1>1, NumberSums
  <1>3. it[0] = 0 /\ it[1] = 10 * it[1 - 1] + (c - Zero)
    BY <1>1, <1>2 DEF Sums
  <1> QED BY <1>2, <1>3 DEF Digit, Zero

LEMMA NumberAppend ==
  ASSUME NEW ds \in Seq(Digit), NEW c \in Digit
  PROVE  Number(Append(ds, c)) = 10 * Number(ds) + (c - Zero)
  <1>1. PICK es : es = Append(ds, c)
    OBVIOUS
  <1>2. PICK m \in Nat : m = Len(ds)
    OBVIOUS
  <1>3. /\ DOMAIN ds = 1 .. m /\ Len(ds) = m
        /\ DOMAIN es = 1 .. (m + 1) /\ Len(es) = m + 1
        /\ \A k \in 1 .. m : ds[k] = es[k]
        /\ es[m + 1] = c
    BY <1>1, <1>2
  <1>4. PICK it : Sums(ds, it) /\ Number(ds) = it[m]
    BY <1>3, NumberSums
  <1>5. PICK jt : Sums(es, jt) /\ Number(es) = jt[m + 1]
    BY <1>3, NumberSums
  <1>6. it[m] = jt[m]
    BY <1>3, <1>4, <1>5, SumsAgree
  <1>7. jt[m + 1] = 10 * jt[(m + 1) - 1] + (c - Zero)
    BY <1>3, <1>5 DEF Sums
  <1>8. (m + 1) - 1 = m
    OBVIOUS
  <1> QED BY <1>1, <1>4, <1>5, <1>6, <1>7, <1>8

LEMMA NumberIsNat ==
  ASSUME NEW ds \in Seq(Digit)
  PROVE  Number(ds) \in Nat
  <1>1. PICK m \in Nat : m = Len(ds) /\ DOMAIN ds = 1 .. m
    OBVIOUS
  <1>2. PICK it : Sums(ds, it) /\ Number(ds) = it[m]
    BY <1>1, NumberSums
  <1> DEFINE T == {k \in Nat : k <= m /\ it[k] \notin Nat}
  <1>3. SUFFICES ASSUME T # {} PROVE FALSE
    BY <1>2
  <1>4. PICK k \in T : \A l \in T : k <= l
    BY <1>3, Least
  <1>5. k # 0
    BY <1>2, <1>4 DEF Sums
  <1>6. k \in 1 .. m /\ ds[k] \in Digit
    BY <1>1, <1>4, <1>5
  <1>7. PICK a \in Nat : a = it[k - 1]
    BY <1>4, <1>6
  <1>8. it[k] = 10 * it[k - 1] + (ds[k] - Zero)
    BY <1>1, <1>2, <1>6 DEF Sums
  <1>9. PICK d \in Nat : d = ds[k] - Zero
    BY <1>6 DEF Digit, Zero
  <1>10. it[k] \in Nat
    BY <1>7, <1>8, <1>9
  <1> QED BY <1>4, <1>10

-----------------------------------------------------------------------------
\* str2num undoes num2str, and a size a header can hold has at most nine digits

LEMMA DigitsOf ==
  ASSUME NEW m \in Nat
  PROVE  Digits[m] \in Seq(Digit) /\ Digits[m] # << >> /\ Number(Digits[m]) = m
  <1> DEFINE Right(n) == Digits[n] \in Seq(Digit) /\ Digits[n] # << >> /\ Number(Digits[n]) = n
             T == {n \in Nat : ~ Right(n)}
  <1>1. SUFFICES ASSUME T # {} PROVE FALSE
    OBVIOUS
  <1>2. PICK n \in Nat : ~ Right(n) /\ \A l \in Nat : l < n => Right(l)
    <2>1. PICK n \in T : \A l \in T : n <= l
      BY <1>1, Least
    <2> QED BY <2>1
  <1> HIDE DEF T
  <1>3. CASE n < 10
    <2>1. PICK c : c = Zero + n
      OBVIOUS
    <2>2. c \in Digit /\ c - Zero = n
      BY <1>3, <2>1 DEF Digit, Zero
    <2>3. Digits[n] = <<c>>
      BY <1>3, <2>1, DigitsSmall
    <2>4. Number(<<c>>) = n
      BY <2>2, NumberOne
    <2>5. <<c>> \in Seq(Digit) /\ <<c>> # << >>
      BY <2>2
    <2> QED BY <1>2, <2>3, <2>4, <2>5
  <1>4. CASE n >= 10
    <2>1. PICK q \in Nat : q = n \div 10 /\ q < n
      BY <1>2, <1>4
    <2>2. Right(q)
      BY <1>2, <2>1
    <2>3. PICK c : c = Zero + (n % 10)
      OBVIOUS
    <2>4. c \in Digit /\ n = 10 * q + (c - Zero)
      BY <1>2, <2>1, <2>3 DEF Digit, Zero
    <2>5. Digits[n] = Append(Digits[q], c)
      BY <1>4, <2>1, <2>3, DigitsLarge
    <2>6. PICK ds \in Seq(Digit) : ds = Digits[q] /\ Number(ds) = q
      BY <2>2
    <2>7. Number(Append(ds, c)) = n
      BY <2>4, <2>6, NumberAppend
    <2>8. Append(ds, c) \in Seq(Digit) /\ Append(ds, c) # << >>
      BY <2>4, <2>6
    <2> QED BY <1>2, <2>5, <2>6, <2>7, <2>8
  <1> QED BY <1>2, <1>3, <1>4

Shorter(b, l) == \A m \in Nat : m < b => Len(Digits[m]) <= l

LEMMA OneMoreDigit ==
  ASSUME NEW b \in Nat, NEW l \in Nat, b > 0, l > 0, Shorter(b, l)
  PROVE  Shorter(10 * b, l + 1)
  <1>1. SUFFICES ASSUME NEW m \in Nat, m < 10 * b
                 PROVE  Len(Digits[m]) <= l + 1
    BY DEF Shorter
  <1>2. CASE m < 10
    <2>1. Digits[m] = <<Zero + m>>
      BY <1>2, DigitsSmall
    <2> QED BY <2>1
  <1>3. CASE m >= 10
    <2>1. PICK q \in Nat : q = m \div 10 /\ q < b
      BY <1>1
    <2>2. Digits[m] = Append(Digits[q], Zero + (m % 10))
      BY <1>3, <2>1, DigitsLarge
    <2>3. Digits[q] \in Seq(Digit) /\ Len(Digits[q]) <= l
      BY <2>1, DigitsOf DEF Shorter
    <2>4. Zero + (m % 10) \in Digit
      BY DEF Digit, Zero
    <2>5. Len(Digits[m]) = Len(Digits[q]) + 1
      BY <2>2, <2>3, <2>4
    <2> QED BY <2>3, <2>5
  <1> QED BY <1>2, <1>3

LEMMA SizeFits ==
  ASSUME NEW m \in Nat, m < BlockLimit
  PROVE  Len(Digits[m]) \in 1 .. 9
  <1>1. Shorter(10, 1)
    <2>1. ASSUME NEW k \in Nat, k < 10 PROVE Len(Digits[k]) <= 1
      <3>1. Digits[k] = <<Zero + k>>
        BY <2>1, DigitsSmall
      <3> QED BY <3>1
    <2> QED BY <2>1 DEF Shorter
  <1>2. Shorter(100, 2)
    BY <1>1, OneMoreDigit, SMT
  <1>3. Shorter(1000, 3)
    BY <1>2, OneMoreDigit, SMT
  <1>4. Shorter(10000, 4)
    BY <1>3, OneMoreDigit, SMT
  <1>5. Shorter(100000, 5)
    BY <1>4, OneMoreDigit, SMT
  <1>6. Shorter(1000000, 6)
    BY <1>5, OneMoreDigit, SMT
  <1>7. Shorter(10000000, 7)
    BY <1>6, OneMoreDigit, SMT
  <1>8. Shorter(100000000, 8)
    BY <1>7, OneMoreDigit, SMT
  <1>9. Shorter(1000000000, 9)
    BY <1>8, OneMoreDigit, SMT
  <1>10. Digits[m] \in Seq(Digit) /\ Digits[m] # << >>
    BY DigitsOf
  <1>11. PICK l \in Nat : l = Len(Digits[m]) /\ l # 0
    BY <1>10
  <1>12. l <= 9
    BY <1>9, <1>11, SMT DEF Shorter, BlockLimit
  <1>13. l \in 1 .. 9
    <2>1. l # 0
      BY <1>11
    <2> QED BY <1>12, <2>1
  <1> QED BY <1>11, <1>13, Zenon

\* What writebinblock puts in a header readbinblock reads out of it: a number of digits that
\* one digit tells, and digits whose number is the size, whatever the size of the data is.
THEOREM SizesSurvive ==
  ASSUME NEW v \in Blocks
  PROVE  /\ Digits[Len(v)] \in Seq(Digit) /\ Len(Digits[Len(v)]) \in 1 .. 9
         /\ Number(Digits[Len(v)]) = Len(v)
  <1>1. PICK c \in Nat : c = Len(v)
    BY ReplyAssumption
  <1>2. c < BlockLimit
    BY <1>1, ReplyAssumption
  <1> QED BY <1>1, <1>2, DigitsOf, SizeFits

-----------------------------------------------------------------------------
\* Where a text occurs

Places(data, t) == {i \in 1 .. (Len(data) - Len(t) + 1) : SubSeq(data, i, i + Len(t) - 1) = t}

LEMMA IndexPlaces ==
  ASSUME NEW data \in Seq(Byte), NEW t \in Seq(Byte)
  PROVE  \/ Index(data, t) = 0 /\ Places(data, t) = {}
         \/ /\ Index(data, t) \in Places(data, t)
            /\ \A j \in Places(data, t) : Index(data, t) <= j
  <1>1. PICK P : P = Places(data, t)
    OBVIOUS
  <1>2. Index(data, t) = IF P = {} THEN 0 ELSE CHOOSE i \in P : \A j \in P : i <= j
    <2>1. Index(data, t) = IF Places(data, t) = {} THEN 0
                           ELSE CHOOSE i \in Places(data, t) : \A j \in Places(data, t) : i <= j
      BY DEF Index, Places
    <2> QED BY <1>1, <2>1
  <1>3. CASE P = {}
    BY <1>1, <1>2, <1>3
  <1>4. CASE P # {}
    <2>1. P \in SUBSET Nat
      BY <1>1 DEF Places
    <2>2. \E i \in P : \A j \in P : i <= j
      BY <1>4, <2>1, Least
    <2>3. Index(data, t) \in P /\ \A j \in P : Index(data, t) <= j
      BY <1>2, <1>4, <2>2, Zenon
    <2> QED BY <1>1, <2>3
  <1> QED BY <1>3, <1>4

LEMMA IndexIsNat ==
  ASSUME NEW data \in Seq(Byte), NEW t \in Seq(Byte)
  PROVE  Index(data, t) \in Nat
  <1>1. \A j \in Places(data, t) : j \in Nat
    BY DEF Places
  <1> QED BY <1>1, IndexPlaces

\* A text that was not in the data and is now that more is there ends where the data ends.
LEMMA FoundAtEnd ==
  ASSUME NEW t \in Seq(Byte), NEW old \in Seq(Byte), NEW data \in Seq(Byte),
         t # << >>, Len(old) <= Len(data), \A j \in 1 .. Len(old) : data[j] = old[j],
         Len(data) <= IF old = << >> THEN Len(t) ELSE Len(old) + 1,
         Index(old, t) = 0, Index(data, t) # 0
  PROVE  /\ Index(data, t) + Len(t) - 1 = Len(data)
         /\ data = SubSeq(data, 1, Index(data, t) - 1) \o t
         /\ Len(SubSeq(data, 1, Index(data, t) - 1)) = Index(data, t) - 1
  <1>8. PICK end \in Nat : Index(data, t) = end
    BY IndexIsNat
  <1>9. PICK lo \in Nat : Len(old) = lo
    OBVIOUS
  <1>10. PICK ld \in Nat : Len(data) = ld
    OBVIOUS
  <1>11. PICK lt \in Nat : Len(t) = lt
    OBVIOUS
  <1>12. /\ lo <= ld /\ 0 < lt /\ ld <= IF lo = 0 THEN lt ELSE lo + 1
         /\ \A j \in 1 .. lo : data[j] = old[j]
    BY <1>9, <1>10, <1>11
  <1>1. end \in Places(data, t)
    BY <1>8, IndexPlaces
  <1>2. Places(old, t) = {}
    <2>1. \A j \in Places(old, t) : j > 0
      BY DEF Places
    <2> QED BY <2>1, IndexPlaces
  <1>3. end \in 1 .. (ld - lt + 1) /\ SubSeq(data, end, end + lt - 1) = t
    BY <1>1, <1>10, <1>11 DEF Places
  <1>4. PICK k \in Nat : k = end - 1
    BY <1>3
  <1>5. end + lt - 1 = ld
    <2>1. SUFFICES ASSUME end + lt - 1 < ld PROVE FALSE
      BY <1>3
    <2>2. CASE lo = 0
      BY <1>3, <1>12, <2>1, <2>2
    <2>3. CASE lo # 0
      <3>1. PICK l \in Nat : l = end + lt - 1
        BY <1>12
      <3>2. l <= lo /\ l <= ld /\ 1 <= end /\ end <= l + 1
        BY <1>3, <1>12, <2>1, <2>3, <3>1
      <3>3. \A j \in 1 .. l : old[j] = data[j]
        BY <1>12, <3>2
      <3>4. SubSeq(old, end, l) = SubSeq(data, end, l)
        BY <1>9, <1>10, <3>2, <3>3, SameSlice
      <3>5. end \in 1 .. (lo - lt + 1)
        BY <1>3, <3>1, <3>2
      <3>6. SubSeq(old, end, end + lt - 1) = t
        BY <1>3, <3>1, <3>4
      <3>7. end \in Places(old, t)
        BY <1>9, <1>11, <3>5, <3>6 DEF Places
      <3> QED BY <1>2, <3>7
    <2> QED BY <2>2, <2>3
  <1>6. data = SubSeq(data, 1, k) \o SubSeq(data, end, ld)
    <2>1. k <= ld /\ end = k + 1
      BY <1>3, <1>4, <1>12
    <2> QED BY <1>10, <2>1, Halves, SMTT(30)
  <1>7. Len(SubSeq(data, 1, k)) = k
    <2>1. k <= ld /\ 1 <= k + 1 /\ k - 1 + 1 = k
      BY <1>3, <1>4, <1>12
    <2> QED BY <1>10, <2>1, Slice
  <1> QED BY <1>3, <1>4, <1>5, <1>6, <1>7, <1>8, <1>10, <1>11

\* Of two lines of which one begins the other, the first terminator ends both.
LEMMA SameLine ==
  ASSUME NEW t \in Seq(Byte), NEW v \in Seq(Byte), NEW w \in Seq(Byte), NEW all \in Seq(Byte),
         t # << >>, all = w \o t, Index(all, t) = Len(w) + 1,
         Len(v) <= Len(w), SubSeq(all, 1, Len(v) + Len(t)) = v \o t
  PROVE  v = w
  <1>1. \A j \in Places(all, t) : Len(w) + 1 <= j
    <2>1. Len(w) + 1 # 0
      OBVIOUS
    <2> QED BY <2>1, IndexPlaces
  <1>2. SubSeq(all, Len(v) + 1, Len(v) + Len(t)) = t
    <2>1. \A j \in 1 .. Len(t) : all[Len(v) + j] = (v \o t)[Len(v) + j]
      OBVIOUS
    <2> QED BY <2>1
  <1>3. Len(v) + 1 \in Places(all, t)
    BY <1>2 DEF Places
  <1>4. Len(v) = Len(w)
    BY <1>1, <1>3
  <1> QED BY <1>4

-----------------------------------------------------------------------------
\* A block, byte by byte

\* w is the block of v with n before it and s for the digits of its size; a, b and c are the
\* lengths of n, s and v.
Lengths(n, s, v, a, b, c) ==
  /\ a \in Nat /\ b \in 1 .. 9 /\ c \in Nat
  /\ n \in Seq(Byte) /\ s \in Seq(Digit) /\ v \in Seq(Byte)
  /\ Len(n) = a /\ Len(s) = b /\ Len(v) = c
  /\ Number(s) = c
  /\ \A i \in 1 .. a : n[i] # Hash
SizeOf(s, v) == s = Digits[Len(v)]
Laid(w, n, s, v, a, b, c) ==
  /\ w \in Seq(Byte) /\ Len(w) = a + b + c + 3
  /\ \A i \in 1 .. a : w[i] = n[i]
  /\ w[a + 1] = Hash
  /\ w[a + 2] = Zero + b
  /\ \A i \in 1 .. b : w[a + 2 + i] = s[i]
  /\ \A i \in 1 .. c : w[a + b + 2 + i] = v[i]
  /\ w[a + b + c + 3] = Newline

LEMMA NoHash ==
  ASSUME NEW n \in Seq(Byte), NEW t \in Seq(Byte), Len(t) = 1, Index(n, t) = 0,
         NEW i \in 1 .. Len(n)
  PROVE  n[i] # t[1]
  <1>1. SUFFICES ASSUME n[i] = t[1] PROVE FALSE
    OBVIOUS
  <1>2. /\ SubSeq(n, i, i) \in Seq(Byte) /\ Len(SubSeq(n, i, i)) = 1
        /\ SubSeq(n, i, i)[1] = n[i]
    <2>1. /\ i \in Nat /\ 1 <= i /\ i <= i + 1 /\ i <= Len(n)
          /\ 1 \in 1 .. (i - i + 1) /\ i + 1 - 1 = i
      OBVIOUS
    <2> QED BY <2>1, Slice
  <1>3. SubSeq(n, i, i) = t
    BY <1>1, <1>2, SeqEqual
  <1>4. i + Len(t) - 1 = i /\ i \in 1 .. (Len(n) - Len(t) + 1)
    OBVIOUS
  <1>5. i \in Places(n, t)
    BY <1>3, <1>4 DEF Places
  <1>6. \A j \in Places(n, t) : j > 0
    BY DEF Places
  <1> QED BY <1>5, <1>6, IndexPlaces

LEMMA BlockLengths ==
  ASSUME NEW n \in Noise, NEW v \in Blocks
  PROVE  \E s, a, b, c : SizeOf(s, v) /\ Lengths(n, s, v, a, b, c)
  <1>1. n \in Seq(Byte) /\ v \in Seq(Byte) /\ Index(n, <<Hash>>) = 0
    BY ReplyAssumption
  <1>2. <<Hash>> \in Seq(Byte)
    BY DEF Byte, Hash
  <1>3. PICK t \in Seq(Byte) : t = <<Hash>>
    BY <1>2
  <1>4. Len(t) = 1 /\ t[1] = Hash /\ Index(n, t) = 0
    BY <1>1, <1>3
  <1>5. \A i \in 1 .. Len(n) : n[i] # Hash
    BY <1>1, <1>4, NoHash
  <1>6. PICK c \in Nat : c = Len(v)
    BY <1>1
  <1>7. c < BlockLimit
    BY <1>6, ReplyAssumption
  <1>8. Digits[c] \in Seq(Digit) /\ Number(Digits[c]) = c /\ Len(Digits[c]) \in 1 .. 9
    BY <1>7, DigitsOf, SizeFits
  <1>9. Lengths(n, Digits[c], v, Len(n), Len(Digits[c]), c)
    BY <1>1, <1>5, <1>6, <1>8 DEF Lengths
  <1> QED BY <1>6, <1>9 DEF SizeOf

Concat(u, s, t, l, m) ==
  /\ u \in Seq(Byte) /\ Len(u) = l + m
  /\ \A k \in 1 .. l : u[k] = s[k]
  /\ \A k \in 1 .. m : u[l + k] = t[k]

LEMMA ConcatOf ==
  ASSUME NEW s \in Seq(Byte), NEW t \in Seq(Byte), NEW l \in Nat, NEW m \in Nat,
         Len(s) = l, Len(t) = m
  PROVE  Concat(s \o t, s, t, l, m)
  <1> QED BY Joined DEF Concat

LEMMA Encoded ==
  ASSUME NEW n, NEW s, NEW v, NEW a, NEW b, NEW c, Lengths(n, s, v, a, b, c), SizeOf(s, v)
  PROVE  Laid(n \o Encode(v), n, s, v, a, b, c)
  <1>1. /\ a \in Nat /\ b \in 1 .. 9 /\ c \in Nat
        /\ n \in Seq(Byte) /\ s \in Seq(Digit) /\ v \in Seq(Byte)
        /\ Len(n) = a /\ Len(s) = b /\ Len(v) = c
    BY DEF Lengths
  <1>2. s \in Seq(Byte)
    <2>1. Digit \subseteq Byte
      BY DEF Digit, Byte, Zero
    <2> QED BY <1>1, <2>1, SeqMonotonic
  <1>3. PICK h : h = <<Hash, Zero + b>>
    OBVIOUS
  <1>4. h \in Seq(Byte) /\ Len(h) = 2 /\ h[1] = Hash /\ h[2] = Zero + b
    <2>1. Hash \in Byte /\ Zero + b \in Byte
      BY <1>1 DEF Byte, Hash, Zero
    <2> QED BY <1>3, <2>1
  <1>5. PICK e : e = <<Newline>>
    OBVIOUS
  <1>6. e \in Seq(Byte) /\ Len(e) = 1 /\ e[1] = Newline
    <2>1. Newline \in Byte
      BY DEF Byte, Newline
    <2> QED BY <1>5, <2>1
  <1>7. Encode(v) = ((h \o s) \o v) \o e
    BY <1>3, <1>5, <1>1 DEF Encode, SizeOf, Lengths
  <1>8. PICK x : x = h \o s
    OBVIOUS
  <1>9. Concat(x, h, s, 2, b)
    <2>1. 2 \in Nat /\ b \in Nat
      BY <1>1
    <2>2. Concat(h \o s, h, s, 2, b)
      BY <1>1, <1>2, <1>4, <2>1, ConcatOf, Zenon
    <2> QED BY <1>8, <2>2
  <1>10. PICK y : y = x \o v
    OBVIOUS
  <1>11. Concat(y, x, v, b + 2, c)
    <2>1. x \in Seq(Byte) /\ Len(x) = b + 2
      BY <1>1, <1>9 DEF Concat
    <2>2. Concat(x \o v, x, v, b + 2, c)
      BY <1>1, <2>1, ConcatOf
    <2> QED BY <1>10, <2>2
  <1>12. PICK z : z = y \o e
    OBVIOUS
  <1>13. Concat(z, y, e, b + c + 2, 1)
    <2>1. y \in Seq(Byte) /\ Len(y) = b + c + 2
      BY <1>1, <1>11 DEF Concat
    <2>2. 1 \in Nat /\ b + c + 2 \in Nat
      BY <1>1
    <2>3. Concat(y \o e, y, e, b + c + 2, 1)
      BY <1>6, <2>1, <2>2, ConcatOf, Zenon
    <2> QED BY <1>12, <2>3
  <1>14. PICK w : w = n \o z
    OBVIOUS
  <1>15. Concat(w, n, z, a, b + c + 3)
    <2>1. z \in Seq(Byte) /\ Len(z) = b + c + 3
      BY <1>1, <1>13 DEF Concat
    <2>2. Concat(n \o z, n, z, a, b + c + 3)
      BY <1>1, <2>1, ConcatOf
    <2> QED BY <1>14, <2>2
  <1>16. /\ x[1] = Hash /\ x[2] = Zero + b /\ \A i \in 1 .. b : x[2 + i] = s[i]
    BY <1>4, <1>9 DEF Concat
  <1>17. /\ y[1] = Hash /\ y[2] = Zero + b /\ \A i \in 1 .. b : y[2 + i] = s[i]
         /\ \A i \in 1 .. c : y[b + 2 + i] = v[i]
    BY <1>1, <1>11, <1>16 DEF Concat
  <1>18. /\ z[1] = Hash /\ z[2] = Zero + b /\ \A i \in 1 .. b : z[2 + i] = s[i]
         /\ \A i \in 1 .. c : z[b + 2 + i] = v[i]
         /\ z[b + c + 3] = Newline
    <2>1. \A i \in 1 .. (b + c + 2) : z[i] = y[i]
      BY <1>13 DEF Concat
    <2>2. z[(b + c + 2) + 1] = e[1] /\ (b + c + 2) + 1 = b + c + 3
      BY <1>1, <1>13 DEF Concat
    <2>3. /\ 1 \in 1 .. (b + c + 2) /\ 2 \in 1 .. (b + c + 2)
          /\ \A i \in 1 .. b : 2 + i \in 1 .. (b + c + 2)
          /\ \A i \in 1 .. c : b + 2 + i \in 1 .. (b + c + 2)
      BY <1>1
    <2> QED BY <1>6, <1>17, <2>1, <2>2, <2>3
  <1>19. \A i \in 1 .. (b + c + 3) : w[a + i] = z[i]
    BY <1>15 DEF Concat
  <1>20. Laid(w, n, s, v, a, b, c)
    <2>1. w \in Seq(Byte) /\ Len(w) = a + b + c + 3 /\ \A i \in 1 .. a : w[i] = n[i]
      BY <1>1, <1>15 DEF Concat
    <2>2. w[a + 1] = Hash /\ w[a + 2] = Zero + b
      BY <1>1, <1>18, <1>19
    <2>3. w[a + (b + c + 3)] = Newline
      BY <1>1, <1>18, <1>19
    <2>4. ASSUME NEW i \in 1 .. b PROVE w[a + 2 + i] = s[i]
      <3>1. w[a + (2 + i)] = z[2 + i] /\ a + (2 + i) = a + 2 + i
        BY <1>1, <1>19
      <3> QED BY <1>18, <3>1
    <2>5. ASSUME NEW i \in 1 .. c PROVE w[a + b + 2 + i] = v[i]
      <3>1. w[a + (b + 2 + i)] = z[b + 2 + i] /\ a + (b + 2 + i) = a + b + 2 + i
        BY <1>1, <1>19
      <3> QED BY <1>18, <3>1
    <2>6. a + (b + c + 3) = a + b + c + 3
      BY <1>1
    <2> QED BY <2>1, <2>2, <2>3, <2>4, <2>5, <2>6 DEF Laid
  <1> QED BY <1>7, <1>8, <1>10, <1>12, <1>14, <1>20

-----------------------------------------------------------------------------
\* The inductive invariant, part by part

Kind == {"line", "block"}
Phase == {"none", "scan", "digit", "size", "data", "end"}
NewestReply == replies[Len(replies)]

\* What has arrived was sent, what was read has arrived; one answer to a command.
CarrierInv ==
  /\ content \in Seq(Byte)
  /\ sent \in [{Device} -> Nat] /\ mark \in [{Device} -> Nat]
  /\ mark[Device] <= sent[Device] /\ sent[Device] <= Len(content)
  /\ asked \in Seq(Kind) /\ replies \in Seq(Seq(Byte)) /\ Len(replies) <= Len(asked)

CallType ==
  [op : Kind \cup {"idle"}, phase : Phase, want : Nat, data : Seq(Byte), size : Seq(Byte),
   len : Nat, late : BOOLEAN, fresh : BOOLEAN, start : Nat]

\* A running function, of which there is no result yet.
CallInv ==
  /\ call \in CallType
  /\ call.op = "idle" => call = IdleCall
  /\ call.op # "idle" => result = NoResult /\ call.start <= mark[Device]
  /\ call.op = "line" <=> call.op # "idle" /\ call.phase = "none"
  /\ call.op = "block" /\ call.phase \in {"scan", "digit", "end"} => call.want = 1
  /\ call.phase \in {"scan", "digit"} => call.data = << >> /\ call.size = << >>

\* A result is of the newest command, and nothing was read since.
ResultType ==
  [op : Kind \cup {"none"}, status : {"none", "ok", "error"}, value : Seq(Byte),
   whole : BOOLEAN, late : BOOLEAN, fresh : BOOLEAN, start : Nat, command : Nat]

ResultInv ==
  /\ result \in ResultType
  /\ result.op # "none" => result.start <= mark[Device] /\ result.command = Len(asked)

\* readline has all that was read since it began, without a terminator in it.
LineInv ==
  call.op = "line" =>
    /\ call.data = SubSeq(content, call.start + 1, mark[Device])
    /\ Index(call.data, Terminator) = 0
    /\ call.want = IF call.data = << >> THEN Len(Terminator) ELSE 1

\* A call that began with nothing unread and no answer owed: behind where it began there is
\* nothing, or the answer to its command.
Answer(bytes) == SubSeq(content, call.start + 1, Len(content)) = bytes
Unanswered ==
  /\ Len(replies) = Len(asked) - 1 /\ Len(content) = call.start
  /\ call.op = "block" => call.phase = "scan"
Answered ==
  /\ Len(replies) = Len(asked) /\ call.start <= Len(content)
  /\ NewestReply \in Values(call.op)

FreshInv ==
  call.op # "idle" /\ call.fresh =>
    /\ asked # << >> /\ asked[Len(asked)] = call.op
    /\ \/ Unanswered
       \/ Answered /\ \E bytes \in Answers(call.op, NewestReply) : Answer(bytes)

\* How far into a block behind the noise n the readbinblock c has read.
PlaceAt(c, mk, n, v) ==
  LET size == Digits[Len(v)]
      at == mk - c.start - Len(n) IN
  /\ c.phase = "scan" => at <= 0 /\ c.data = << >> /\ c.size = << >>
  /\ c.phase = "digit" => at = 1 /\ c.data = << >> /\ c.size = << >>
  /\ c.phase = "size" =>
       /\ at = 2 + Len(c.size) /\ c.data = << >>
       /\ c.want = Len(size) - Len(c.size) /\ c.want > 0
       /\ c.size = SubSeq(size, 1, Len(c.size))
  /\ c.phase \in {"data", "end"} =>
       /\ at = 2 + Len(size) + Len(c.data)
       /\ Len(c.data) <= Len(v) /\ c.data = SubSeq(v, 1, Len(c.data))
  /\ c.phase = "data" => c.len = Len(v) /\ c.want = c.len - Len(c.data)
  /\ c.phase = "end" => c.late \/ c.data = v
BlockAt(n, v) == PlaceAt(call, mark[Device], n, v)

BlockInv ==
  call.op = "block" /\ call.fresh /\ Answered =>
    \E n \in Noise : Answer(n \o Encode(NewestReply)) /\ BlockAt(n, NewestReply)

IInv ==
  /\ CarrierInv /\ CallInv /\ ResultInv /\ LineInv /\ FreshInv /\ BlockInv
  /\ LinesEndAtTerminator /\ LinesMatchCommands /\ BlocksMatchCommands

-----------------------------------------------------------------------------
\* Calls that begin or fail, bytes that arrive

\* Nothing is claimed of no result, nor of an error.
Silent == result.op = "none" \/ (result.status = "error" /\ result.whole = FALSE)

LEMMA NothingClaimed ==
  Silent => LinesEndAtTerminator /\ LinesMatchCommands /\ BlocksMatchCommands
  <1> QED BY DEF Silent, LinesEndAtTerminator, LinesMatchCommands, BlocksMatchCommands

LEMMA NothingClaimedNext ==
  Silent' => LinesEndAtTerminator' /\ LinesMatchCommands' /\ BlocksMatchCommands'
  <1> QED BY DEF Silent, LinesEndAtTerminator, LinesMatchCommands, BlocksMatchCommands

LEMMA NoResultNext ==
  ASSUME result' = NoResult
  PROVE  Silent' /\ ResultInv'
  <1>1. << >> \in Seq(Byte)
    OBVIOUS
  <1> QED BY <1>1 DEF Silent, ResultInv, ResultType, NoResult

\* A call begins, with an answer owed or without.
Begun(kind, fresh, at) ==
  [op |-> kind, phase |-> IF kind = "line" THEN "none" ELSE "scan",
   want |-> IF kind = "line" THEN Len(Terminator) ELSE 1, data |-> << >>,
   size |-> << >>, len |-> 0, late |-> FALSE, fresh |-> fresh, start |-> at]

LEMMA BeginHolds ==
  ASSUME CarrierInv', result' = NoResult, NEW kind \in Kind, NEW fresh \in BOOLEAN,
         call' = Begun(kind, fresh, mark'[Device]),
         fresh = TRUE => /\ asked' # << >> /\ asked'[Len(asked')] = kind
                         /\ Len(replies') = Len(asked') - 1 /\ mark'[Device] = Len(content')
  PROVE  IInv'
  <1>1. /\ call'.op = kind /\ call'.data = << >> /\ call'.size = << >> /\ call'.len = 0
        /\ call'.start = mark'[Device] /\ call'.fresh = fresh
        /\ kind = "line" => call'.phase = "none" /\ call'.want = Len(Terminator)
        /\ kind = "block" => call'.phase = "scan" /\ call'.want = 1
    BY DEF Begun, Kind
  <1>2. mark'[Device] \in Nat /\ Len(Terminator) \in Nat
    BY TerminatorAssumption DEF CarrierInv, Device
  <1>3. << >> \in Seq(Byte)
    OBVIOUS
  <1>4. CallInv'
    <2>1. call' \in CallType
      <3>1. /\ (IF kind = "line" THEN "none" ELSE "scan") \in Phase
            /\ (IF kind = "line" THEN Len(Terminator) ELSE 1) \in Nat
        BY <1>2 DEF Phase
      <3> QED BY <1>2, <1>3, <3>1 DEF Begun, CallType, Kind
    <2>2. kind = "line" \/ kind = "block"
      BY DEF Kind
    <2> QED BY <1>1, <1>2, <2>1, <2>2 DEF CallInv
  <1>5. LineInv'
    <2>1. SUFFICES ASSUME call'.op = "line" PROVE LineInv'
      BY DEF LineInv
    <2>2. call'.data = << >> /\ call'.start = mark'[Device] /\ call'.want = Len(Terminator)
      BY <1>1, <2>1
    <2>3. SubSeq(content', mark'[Device] + 1, mark'[Device]) = << >>
      BY <1>2, SubSeqEmpty
    <2>4. Index(<< >>, Terminator) = 0
      <3>1. PICK e \in Seq(Byte) : e = << >> /\ Len(e) = 0
        BY <1>3
      <3>2. Places(e, Terminator) = {}
        BY <3>1, TerminatorAssumption DEF Places
      <3> QED BY <3>1, <3>2, IndexPlaces, TerminatorAssumption
    <2> QED BY <2>2, <2>3, <2>4 DEF LineInv
  <1>6. FreshInv'
    <2>1. fresh = TRUE => Unanswered'
      BY <1>1 DEF Unanswered, Kind
    <2> QED BY <1>1, <2>1 DEF FreshInv
  <1>7. BlockInv'
    <2>1. fresh = TRUE => ~Answered'
      <3>1. Len(asked') \in Nat
        BY DEF CarrierInv
      <3>2. fresh = TRUE => Len(replies') # Len(asked')
        BY <3>1
      <3> QED BY <3>2 DEF Answered
    <2> QED BY <1>1, <2>1 DEF BlockInv
  <1>8. Silent' /\ ResultInv'
    BY NoResultNext
  <1> QED BY <1>4, <1>5, <1>6, <1>7, <1>8, NothingClaimedNext DEF IInv

\* A call has ended, or none has begun.
LEMMA IdleHolds ==
  ASSUME CarrierInv', ResultInv', call' = IdleCall,
         LinesEndAtTerminator', LinesMatchCommands', BlocksMatchCommands'
  PROVE  IInv'
  <1>1. << >> \in Seq(Byte)
    OBVIOUS
  <1>2. CallInv'
    BY <1>1 DEF CallInv, CallType, IdleCall, Kind, Phase
  <1> QED BY <1>2 DEF IInv, IdleCall, LineInv, FreshInv, BlockInv

LEMMA InitHolds == Init => IInv
  <1>1. SUFFICES ASSUME Init PROVE IInv
    OBVIOUS
  <1>2. CarrierInv
    BY <1>1 DEF Init, Carrier!Init, CarrierInv, Device
  <1>3. << >> \in Seq(Byte)
    OBVIOUS
  <1>4. ResultInv /\ Silent
    BY <1>1, <1>3 DEF Init, Silent, ResultInv, ResultType, NoResult
  <1>5. CallInv /\ LineInv /\ FreshInv /\ BlockInv
    BY <1>1, <1>3 DEF Init, CallInv, CallType, IdleCall, Kind, Phase, LineInv, FreshInv, BlockInv
  <1> QED BY <1>2, <1>4, <1>5, NothingClaimed DEF IInv

LEMMA ArriveHolds == IInv /\ Arrive => IInv'
  <1>1. SUFFICES ASSUME IInv, Arrive PROVE IInv'
    OBVIOUS
  <1>2. CarrierInv'
    BY <1>1 DEF IInv, CarrierInv, Arrive, Carrier!Emit, devvars, Device
  <1>3. UNCHANGED <<mark, content, asked, replies, call, result>>
    BY <1>1 DEF Arrive, Carrier!Emit, devvars, callvars
  <1>4. (CallInv /\ ResultInv /\ LineInv)'
    BY <1>1, <1>3 DEF IInv, CallInv, ResultInv, LineInv
  <1>5. (FreshInv /\ BlockInv)'
    BY <1>1, <1>3 DEF IInv, FreshInv, BlockInv, BlockAt, Unanswered, Answered, Answer,
                      NewestReply
  <1>6. (LinesEndAtTerminator /\ LinesMatchCommands /\ BlocksMatchCommands)'
    BY <1>1, <1>3 DEF IInv, LinesEndAtTerminator, LinesMatchCommands, BlocksMatchCommands, Synced
  <1> QED BY <1>2, <1>4, <1>5, <1>6 DEF IInv

LEMMA WriteReadHolds ==
  ASSUME IInv, NEW kind \in Kind, WriteRead(kind)
  PROVE  IInv'
  <1>1. PICK fresh \in BOOLEAN : fresh = Synced
    BY DEF Synced
  <1>2. Start(kind, fresh) /\ asked' = Append(asked, kind)
    BY <1>1, Zenon DEF WriteRead
  <1>3. CarrierInv' /\ result' = NoResult
    <2>1. Append(asked, kind) \in Seq(Kind) /\ Len(Append(asked, kind)) = Len(asked) + 1
      BY DEF IInv, CarrierInv
    <2> QED BY <1>2, <2>1 DEF IInv, CarrierInv, Start
  <1>5. call' = Begun(kind, fresh, mark'[Device])
    BY <1>2 DEF Start, IdleCall, Begun
  <1>4. fresh = TRUE => /\ asked' # << >> /\ asked'[Len(asked')] = kind
                        /\ Len(replies') = Len(asked') - 1 /\ mark'[Device] = Len(content')
    <2>1. SUFFICES ASSUME Synced
                   PROVE  /\ asked' # << >> /\ asked'[Len(asked')] = kind
                          /\ Len(replies') = Len(asked') - 1 /\ mark'[Device] = Len(content')
      BY <1>1
    <2>2. asked \in Seq(Kind) /\ kind \in Kind
      BY DEF IInv, CarrierInv
    <2>3. asked' # << >> /\ asked'[Len(asked')] = kind /\ Len(asked') = Len(asked) + 1
      BY <1>2, <2>2
    <2>4. replies' = replies /\ mark' = mark /\ content' = content
      BY <1>2 DEF Start
    <2> QED BY <2>1, <2>2, <2>3, <2>4 DEF Synced
  <1> QED BY <1>3, <1>4, <1>5, BeginHolds

LEMMA ReadMoreHolds ==
  ASSUME IInv, NEW kind \in Kind, ReadMore(kind)
  PROVE  IInv'
  <1>1. Start(kind, FALSE) /\ asked' = asked
    BY DEF ReadMore
  <1>2. CarrierInv' /\ result' = NoResult
    BY <1>1 DEF IInv, CarrierInv, Start
  <1>3. PICK fresh \in BOOLEAN : fresh = FALSE
    OBVIOUS
  <1>4. call' = Begun(kind, fresh, mark'[Device]) /\ fresh # TRUE
    BY <1>1, <1>3 DEF Start, IdleCall, Begun
  <1> QED BY <1>2, <1>4, BeginHolds

LEMMA FlushInputHolds == IInv /\ FlushInput => IInv'
  <1>1. SUFFICES ASSUME IInv, FlushInput PROVE IInv'
    OBVIOUS
  <1>2. call = IdleCall /\ call' = IdleCall
    BY <1>1 DEF FlushInput, Callable, IInv, CallInv
  <1>3. CarrierInv'
    BY <1>1 DEF FlushInput, Carrier!Drop, devvars, IInv, CarrierInv, Device
  <1>4. result' = NoResult
    BY <1>1 DEF FlushInput
  <1>5. ResultInv' /\ LinesEndAtTerminator' /\ LinesMatchCommands' /\ BlocksMatchCommands'
    BY <1>4, NoResultNext, NothingClaimedNext
  <1> QED BY <1>2, <1>3, <1>5, IdleHolds

LEMMA InterruptHolds == IInv /\ Interrupt => IInv'
  <1>1. SUFFICES ASSUME IInv, Interrupt PROVE IInv'
    OBVIOUS
  <1>2. PICK k \in Nat : k <= Available /\ Carrier!Drop(Device, mark[Device] + k, "error")
    <2>1. Available \in Nat
      BY <1>1 DEF IInv, CarrierInv, Available, Device
    <2> QED BY <1>1, <2>1 DEF Interrupt
  <1>3. mark[Device] \in Nat /\ sent[Device] \in Nat /\ call \in CallType /\ asked \in Seq(Kind)
    BY <1>1 DEF IInv, CarrierInv, CallInv, Device
  <1>4. mark' = [mark EXCEPT ![Device] = mark[Device] + k] /\ sent' = sent
    BY <1>2 DEF Carrier!Drop
  <1>5. UNCHANGED <<content, asked, replies>>
    BY <1>1 DEF Interrupt, devvars
  <1>6. mark' \in [{Device} -> Nat] /\ mark'[Device] = mark[Device] + k
    BY <1>1, <1>3, <1>4 DEF IInv, CarrierInv
  <1>7. CarrierInv'
    BY <1>1, <1>2, <1>3, <1>4, <1>5, <1>6 DEF IInv, CarrierInv, Available, Device
  <1>8. call' = IdleCall /\ call.op \in Kind
    BY <1>1, <1>3 DEF Interrupt, Finish, CallType
  <1>9. ResultInv' /\ Silent'
    <2>1. result' = [op |-> call.op, status |-> "error", value |-> << >>, whole |-> FALSE,
                     late |-> call.late, fresh |-> call.fresh, start |-> call.start,
                     command |-> Len(asked)]
      BY <1>1 DEF Interrupt, Finish
    <2>2. << >> \in Seq(Byte) /\ Len(asked) \in Nat
      BY <1>3
    <2>3. result' \in ResultType
      BY <1>3, <1>8, <2>1, <2>2 DEF ResultType, CallType
    <2>4. call.start <= mark[Device] /\ call.start \in Nat
      BY <1>1, <1>3, <1>8 DEF IInv, CallInv, CallType, Kind
    <2>5. call.start <= mark'[Device]
      BY <1>3, <1>6, <2>4
    <2> QED BY <1>5, <2>1, <2>3, <2>5 DEF ResultInv, Silent
  <1> QED BY <1>7, <1>8, <1>9, NothingClaimedNext, IdleHolds

-----------------------------------------------------------------------------
\* The device answers

LEMMA AnswerBytes ==
  ASSUME NEW kind \in Kind, NEW v \in Values(kind), NEW bytes \in Answers(kind, v)
  PROVE  v \in Seq(Byte) /\ bytes \in Seq(Byte)
  <1>1. CASE kind = "line"
    BY <1>1, ReplyAssumption, TerminatorAssumption, Joined DEF Values, Answers
  <1>2. CASE kind = "block"
    <2>1. v \in Blocks
      BY <1>2 DEF Values
    <2>2. PICK n \in Noise : bytes = n \o Encode(v)
      BY <1>2 DEF Answers
    <2>3. PICK s, a, b, c : SizeOf(s, v) /\ Lengths(n, s, v, a, b, c)
      BY <2>1, BlockLengths
    <2>4. n \o Encode(v) \in Seq(Byte)
      BY <2>3, Encoded DEF Laid
    <2> QED BY <2>1, <2>2, <2>4, ReplyAssumption
  <1> QED BY <1>1, <1>2 DEF Kind

LEMMA ReplyHolds == IInv /\ Reply => IInv'
  <1>1. SUFFICES ASSUME IInv, Reply PROVE IInv'
    OBVIOUS
  <1>2. PICK kind, v, bytes :
          /\ kind = asked[Len(replies) + 1]
          /\ v \in Values(kind) /\ bytes \in Answers(kind, v)
          /\ replies' = Append(replies, v)
          /\ content' = content \o bytes
    BY <1>1 DEF Reply
  <1>3. UNCHANGED <<sent, mark, asked, call, result>> /\ Len(replies) < Len(asked)
    BY <1>1 DEF Reply, callvars
  <1>4. CarrierInv
    BY <1>1 DEF IInv
  <1>5. /\ mark[Device] \in Nat /\ sent[Device] \in Nat /\ Len(content) \in Nat
        /\ mark[Device] <= sent[Device] /\ sent[Device] <= Len(content)
        /\ Len(asked) \in Nat /\ Len(replies) \in Nat /\ content \in Seq(Byte)
    BY <1>4 DEF CarrierInv, Device
  <1>6. kind \in Kind
    <2>1. Len(replies) + 1 \in 1 .. Len(asked)
      BY <1>3, <1>5
    <2> QED BY <1>2, <1>4, <2>1 DEF CarrierInv
  <1>7. v \in Seq(Byte) /\ bytes \in Seq(Byte)
    BY <1>2, <1>6, AnswerBytes
  <1>8. /\ content' \in Seq(Byte) /\ Len(content') = Len(content) + Len(bytes)
        /\ \A i \in 1 .. Len(content) : content'[i] = content[i]
        /\ \A i \in 1 .. Len(bytes) : content'[Len(content) + i] = bytes[i]
    <2>1. PICK u : u = content \o bytes
      OBVIOUS
    <2>2. /\ u \in Seq(Byte) /\ Len(u) = Len(content) + Len(bytes)
          /\ \A i \in 1 .. Len(content) : u[i] = content[i]
          /\ \A i \in 1 .. Len(bytes) : u[Len(content) + i] = bytes[i]
      BY <1>5, <1>7, <2>1, Joined
    <2> QED BY <1>2, <2>1, <2>2
  <1>9. CarrierInv'
    <2>1. Append(replies, v) \in Seq(Seq(Byte)) /\ Len(Append(replies, v)) = Len(replies) + 1
      BY <1>4, <1>7 DEF CarrierInv
    <2>2. Len(bytes) \in Nat
      BY <1>7
    <2>3. Len(replies') <= Len(asked') /\ replies' \in Seq(Seq(Byte))
      BY <1>2, <1>3, <1>5, <2>1
    <2>4. sent'[Device] <= Len(content')
      BY <1>3, <1>5, <1>8, <2>2
    <2> QED BY <1>3, <1>4, <1>8, <2>3, <2>4 DEF CarrierInv
  <1>10. CallInv' /\ ResultInv'
    BY <1>1, <1>3 DEF IInv, CallInv, ResultInv
  \* What was read stays what it is.
  <1>11. ASSUME NEW i \in Nat, i <= mark[Device]
         PROVE  SubSeq(content', i + 1, mark[Device]) = SubSeq(content, i + 1, mark[Device])
    <2>1. PICK j \in Nat : j = i + 1
      OBVIOUS
    <2>2. /\ 1 <= j /\ j <= mark[Device] + 1 /\ mark[Device] <= Len(content)
          /\ mark[Device] <= Len(content') /\ Len(bytes) \in Nat
      BY <1>5, <1>7, <1>8, <1>11, <2>1
    <2>3. \A k \in 1 .. mark[Device] : content'[k] = content[k]
      BY <1>5, <1>8
    <2>4. SubSeq(content', j, mark[Device]) = SubSeq(content, j, mark[Device])
      BY <1>5, <1>8, <2>2, <2>3, SameSlice, SMTT(30)
    <2> QED BY <2>1, <2>4
  <1>12. LineInv'
    <2>1. call.op = "line" => call.start \in Nat /\ call.start <= mark[Device]
      BY <1>1 DEF IInv, CallInv, CallType
    <2> QED BY <1>1, <1>3, <1>11, <2>1 DEF IInv, LineInv
  <1>13. CASE call.op # "idle" /\ call.fresh
    <2>1. /\ Unanswered /\ asked # << >> /\ asked[Len(asked)] = call.op
      BY <1>1, <1>3, <1>5, <1>13 DEF IInv, FreshInv, Answered
    <2>2. kind = call.op /\ Len(content) = call.start
      <3>1. Len(replies) + 1 = Len(asked)
        BY <1>5, <2>1 DEF Unanswered
      <3> QED BY <1>2, <2>1, <3>1 DEF Unanswered
    <2>3. NewestReply' = v /\ Len(replies') = Len(asked')
      <3>1. /\ Len(Append(replies, v)) = Len(replies) + 1
            /\ Append(replies, v)[Len(replies) + 1] = v
        BY <1>4, <1>7 DEF CarrierInv
      <3>2. Len(replies) + 1 = Len(asked)
        BY <1>5, <2>1 DEF Unanswered
      <3> QED BY <1>2, <1>3, <3>1, <3>2 DEF NewestReply
    <2>4. Answered'
      <3>1. Len(content) <= Len(content')
        <4>1. Len(bytes) \in Nat
          BY <1>7
        <4> QED BY <1>5, <1>8, <4>1
      <3> QED BY <1>2, <1>3, <2>2, <2>3, <3>1 DEF Answered
    <2>5. Answer(bytes)'
      <3>1. PICK i \in Nat, j \in Nat : i = Len(content) + 1 /\ j = Len(content')
        BY <1>5, <1>8
      <3>2. PICK m \in Nat : Len(bytes) = m
        BY <1>7
      <3>3. 1 <= i /\ i <= j + 1 /\ j <= Len(content') /\ j - i + 1 = m
        BY <1>5, <1>8, <3>1, <3>2
      <3>4. /\ SubSeq(content', i, j) \in Seq(Byte) /\ Len(SubSeq(content', i, j)) = m
            /\ \A k \in 1 .. m : SubSeq(content', i, j)[k] = content'[i + k - 1]
        BY <1>8, <3>3, Slice
      <3>5. \A k \in 1 .. m : content'[i + k - 1] = bytes[k]
        <4>1. \A k \in 1 .. m : i + k - 1 = Len(content) + k
          BY <1>5, <3>1
        <4> QED BY <1>8, <3>2, <4>1
      <3>6. SubSeq(content', i, j) = bytes
        BY <1>7, <3>2, <3>4, <3>5, SeqEqual
      <3> QED BY <1>3, <2>2, <3>1, <3>6 DEF Answer
    <2>6. FreshInv'
      BY <1>2, <1>3, <2>1, <2>2, <2>3, <2>4, <2>5 DEF FreshInv
    <2>7. BlockInv'
      <3>1. SUFFICES ASSUME call.op = "block" PROVE BlockInv'
        BY <1>3 DEF BlockInv
      <3>2. v \in Blocks /\ \E n \in Noise : bytes = n \o Encode(v)
        BY <1>2, <2>2, <3>1 DEF Answers, Values
      <3>3. PICK n \in Noise : bytes = n \o Encode(v)
        BY <3>2
      <3>4. /\ call.phase = "scan" /\ call.data = << >> /\ call.size = << >>
            /\ call.start <= mark[Device] /\ call.start \in Nat
        BY <1>1, <2>1, <3>1 DEF Unanswered, IInv, CallInv, CallType
      <3>5. mark[Device] = call.start
        BY <1>5, <2>2, <3>4
      <3>6. Len(n) \in Nat
        BY ReplyAssumption
      <3>7. mark[Device] - call.start - Len(n) <= 0
        BY <3>4, <3>5, <3>6
      <3>8. BlockAt(n, v)'
        BY <1>3, <3>4, <3>7 DEF BlockAt, PlaceAt
      <3>9. Answer(n \o Encode(v))'
        BY <2>5, <3>3
      <3> QED BY <2>3, <3>8, <3>9 DEF BlockInv
    <2>8. result = NoResult
      BY <1>1, <1>13 DEF IInv, CallInv
    <2>9. Silent'
      BY <1>3, <2>8 DEF Silent, NoResult
    <2> QED BY <1>9, <1>10, <1>12, <2>6, <2>7, <2>9, NothingClaimedNext DEF IInv
  <1>14. CASE ~ (call.op # "idle" /\ call.fresh)
    <2>1. FreshInv' /\ BlockInv'
      BY <1>3, <1>14 DEF FreshInv, BlockInv
    <2>2. LinesEndAtTerminator'
      <3>1. result.op = "line" => result.start \in Nat /\ result.start <= mark[Device]
        BY <1>1 DEF IInv, ResultInv, ResultType
      <3> QED BY <1>1, <1>3, <1>11, <3>1 DEF IInv, LinesEndAtTerminator
    <2>3. LinesMatchCommands'
      BY <1>1, <1>3, <1>5 DEF IInv, LinesMatchCommands, Synced
    <2>4. BlocksMatchCommands'
      <3>1. result.op = "block" => result.command = Len(asked)
        BY <1>1 DEF IInv, ResultInv
      <3> QED BY <1>1, <1>3, <1>5, <3>1 DEF IInv, BlocksMatchCommands, Synced
    <2> QED BY <1>9, <1>10, <1>12, <2>1, <2>2, <2>3, <2>4 DEF IInv
  <1> QED BY <1>13, <1>14

-----------------------------------------------------------------------------
\* A read

\* The function took the k bytes b, late if they are fewer than it asked for.
Took(k, b, late) ==
  /\ call.op # "idle" /\ k <= call.want
  /\ mark[Device] \in Nat /\ mark[Device] + k <= Len(content)
  /\ b \in Seq(Byte) /\ Len(b) = k
  /\ b = SubSeq(content, mark[Device] + 1, mark[Device] + k)
  /\ \A j \in 1 .. k : b[j] = content[mark[Device] + j]
  /\ late = TRUE \/ (k = call.want /\ call.late = FALSE)
Moved(k) ==
  /\ mark'[Device] = mark[Device] + k
  /\ UNCHANGED <<content, asked, replies>>
  /\ CarrierInv'
Used(b, late) ==
  \/ call.op = "line" /\ LineBytes(b, late)
  \/ call.phase = "scan" /\ ScanBytes(b, late)
  \/ call.phase = "digit" /\ DigitBytes(b, late)
  \/ call.phase = "size" /\ SizeBytes(b, late)
  \/ call.phase = "data" /\ DataBytes(b, late)
  \/ call.phase = "end" /\ EndBytes(b, late)

LEMMA ReadTakes ==
  ASSUME IInv, ReadStep
  PROVE  \E k \in Nat, b \in Seq(Byte), late \in BOOLEAN :
           Took(k, b, late) /\ Moved(k) /\ Used(b, late)
  <1>1. /\ CarrierInv /\ call \in CallType /\ mark[Device] \in Nat /\ sent[Device] \in Nat
        /\ sent[Device] <= Len(content) /\ mark[Device] <= sent[Device] /\ Len(content) \in Nat
        /\ content \in Seq(Byte) /\ call.want \in Nat /\ call.late \in BOOLEAN
    BY DEF IInv, CarrierInv, CallInv, CallType, Device
  <1>2. Available \in Nat /\ mark[Device] + Available = sent[Device]
    BY <1>1 DEF Available
  <1>3. PICK k \in Nat : k = IF call.want <= Available THEN call.want ELSE Available
    BY <1>1, <1>2
  <1>4. k <= call.want /\ k <= Available
    BY <1>1, <1>2, <1>3
  <1>5. PICK b : b = SubSeq(content, mark[Device] + 1, mark[Device] + k)
    OBVIOUS
  <1>6. /\ mark[Device] + k <= Len(content)
        /\ b \in Seq(Byte) /\ Len(b) = k /\ \A j \in 1 .. k : b[j] = content[mark[Device] + j]
    <2>1. PICK i \in Nat, j \in Nat : i = mark[Device] + 1 /\ j = mark[Device] + k
      BY <1>1
    <2>5. j <= Len(content)
      <3>1. mark[Device] + k <= sent[Device]
        BY <1>1, <1>2, <1>4
      <3>2. mark[Device] + k <= Len(content)
        BY <1>1, <3>1
      <3> QED BY <2>1, <3>2
    <2>6. 1 <= i /\ i <= j + 1 /\ j - i + 1 = k
      BY <1>1, <2>1, SMTT(30)
    <2>2. 1 <= i /\ i <= j + 1 /\ j <= Len(content) /\ j - i + 1 = k
      BY <2>5, <2>6
    <2>3. /\ SubSeq(content, i, j) \in Seq(Byte) /\ Len(SubSeq(content, i, j)) = k
          /\ \A l \in 1 .. k : SubSeq(content, i, j)[l] = content[i + l - 1]
      BY <1>1, <2>2, Slice
    <2>4. \A l \in 1 .. k : i + l - 1 = mark[Device] + l
      BY <1>1, <2>1
    <2> QED BY <1>1, <1>5, <2>1, <2>2, <2>3, <2>4
  <1>7. PICK late \in BOOLEAN : late = (call.late \/ Len(b) < call.want)
    OBVIOUS
  <1>8. late = TRUE \/ (k = call.want /\ call.late = FALSE)
    <2>1. Len(b) < call.want \/ k = call.want
      BY <1>1, <1>4, <1>6
    <2> QED BY <1>1, <1>7, <2>1, Zenon
  <1>9. Used(b, late)
    <2>1. Use(b)
      BY <1>3, <1>5, Zenon DEF ReadStep
    <2> QED BY <1>7, <2>1, Zenon DEF Use, Used
  <1>10. Moved(k)
    <2>1. Carrier!Deliver(Device, mark[Device] + k) /\ UNCHANGED <<content, asked, replies>>
      BY <1>3, Zenon DEF ReadStep, devvars
    <2>2. mark' = [mark EXCEPT ![Device] = mark[Device] + k] /\ sent' = sent
      BY <2>1 DEF Carrier!Deliver
    <2>3. mark' \in [{Device} -> Nat] /\ mark'[Device] = mark[Device] + k
      BY <1>1, <2>2 DEF CarrierInv
    <2>4. mark'[Device] <= sent'[Device]
      BY <1>1, <1>2, <1>4, <2>2, <2>3
    <2> QED BY <1>1, <2>1, <2>2, <2>3, <2>4 DEF CarrierInv, Moved
  <1>11. call.op # "idle"
    BY DEF ReadStep
  <1>12. Took(k, b, late)
    BY <1>1, <1>4, <1>5, <1>6, <1>8, <1>11, Zenon DEF Took
  <1> QED BY <1>6, <1>9, <1>10, <1>12, Zenon

\* The function returns.
LEMMA FinishHolds ==
  ASSUME IInv, NEW k \in Nat, NEW b \in Seq(Byte), NEW late \in BOOLEAN,
         Took(k, b, late), Moved(k),
         NEW status \in {"ok", "error"}, NEW value \in Seq(Byte), NEW whole \in BOOLEAN,
         Finish(status, value, whole, late),
         LinesEndAtTerminator', LinesMatchCommands', BlocksMatchCommands'
  PROVE  IInv'
  <1>1. call' = IdleCall /\ CarrierInv' /\ Len(asked) \in Nat /\ asked' = asked
    BY DEF Finish, Moved, IInv, CarrierInv
  <1>2. result' = [op |-> call.op, status |-> status, value |-> value, whole |-> whole,
                   late |-> late, fresh |-> call.fresh, start |-> call.start,
                   command |-> Len(asked)]
    BY DEF Finish
  <1>3. /\ call.op \in Kind /\ call.fresh \in BOOLEAN /\ call.start \in Nat
        /\ call.start <= mark[Device] /\ mark[Device] \in Nat
    BY DEF IInv, CallInv, CallType, Took
  <1>4. result' \in ResultType
    BY <1>1, <1>2, <1>3 DEF ResultType
  <1>5. call.start <= mark'[Device]
    BY <1>3 DEF Moved
  <1>6. ResultInv'
    BY <1>1, <1>2, <1>4, <1>5 DEF ResultInv
  <1> QED BY <1>1, <1>6, IdleHolds

\* The function goes on.
Goes ==
  /\ call'.op = call.op /\ call'.fresh = call.fresh /\ call'.start = call.start
  /\ result' = result

LEMMA GoesOnHolds ==
  ASSUME IInv, NEW k \in Nat, NEW b \in Seq(Byte), NEW late \in BOOLEAN,
         Took(k, b, late), Moved(k), Goes,
         CallInv', LineInv', BlockInv', call.fresh = TRUE => ~ Unanswered
  PROVE  IInv'
  <1>1. CarrierInv' /\ result' = NoResult
    BY DEF Moved, Goes, IInv, CallInv, Took
  <1>2. FreshInv'
    <2>1. call.fresh = TRUE =>
            /\ asked # << >> /\ asked[Len(asked)] = call.op
            /\ Answered /\ \E bytes \in Answers(call.op, NewestReply) : Answer(bytes)
      <3>1. call.op # "idle"
        BY DEF Took
      <3> QED BY <3>1 DEF IInv, FreshInv
    <2>2. NewestReply' = NewestReply /\ Answered' = Answered
      BY DEF Moved, Goes, NewestReply, Answered
    <2>3. \A bytes : Answer(bytes)' = Answer(bytes)
      BY DEF Moved, Goes, Answer
    <2>4. call.fresh \in BOOLEAN /\ call'.fresh = call.fresh
      BY DEF IInv, CallInv, CallType, Goes
    <2>5. SUFFICES ASSUME call.fresh = TRUE PROVE FreshInv'
      BY <2>4 DEF FreshInv
    <2>6. PICK bytes \in Answers(call.op, NewestReply) : Answer(bytes)
      BY <2>1, <2>5
    <2>7. /\ asked' # << >> /\ asked'[Len(asked')] = call'.op /\ Answered'
          /\ bytes \in Answers(call'.op, NewestReply') /\ Answer(bytes)'
      BY <2>1, <2>2, <2>3, <2>5, <2>6 DEF Moved, Goes
    <2> QED BY <2>7 DEF FreshInv
  <1> QED BY <1>1, <1>2, NoResultNext, NothingClaimedNext DEF IInv

\* readline
LEMMA LineReadHolds ==
  ASSUME IInv, NEW k \in Nat, NEW b \in Seq(Byte), NEW late \in BOOLEAN,
         Took(k, b, late), Moved(k), call.op = "line", LineBytes(b, late)
  PROVE  IInv'
  <1>1. PICK st \in Nat : call.start = st
    BY DEF IInv, CallInv, CallType
  <1>2. PICK mk \in Nat : mark[Device] = mk
    BY DEF Took
  <1>3. PICK m \in Nat : m = mk + k
    OBVIOUS
  <1>4. PICK old \in Seq(Byte) : old = call.data
    BY DEF IInv, CallInv, CallType
  <1>5. PICK data : data = old \o b
    OBVIOUS
  <1>30. st <= mk /\ mk <= m /\ m <= Len(content)
    <2>1. call.start <= mark[Device] /\ mark[Device] + k <= Len(content)
      BY DEF IInv, CallInv, Took
    <2> QED BY <1>1, <1>2, <1>3, <2>1
  <1>31. content \in Seq(Byte) /\ Len(content) \in Nat
    BY DEF IInv, CarrierInv
  <1>32. /\ Terminator \in Seq(Byte)
         /\ Len(Terminator) \in Nat /\ Len(Terminator) > 0
    BY TerminatorAssumption
  \* What has been read since the function began.
  <1>6. /\ data = SubSeq(content, st + 1, m) /\ data \in Seq(Byte) /\ Len(data) = m - st
        /\ Len(old) = mk - st /\ Len(data) = Len(old) + k
        /\ \A j \in 1 .. Len(old) : data[j] = old[j]
        /\ \A j \in 1 .. (m - st) : data[j] = content[st + j]
    <2>1. old = SubSeq(content, st + 1, mk)
      BY <1>1, <1>2, <1>4 DEF IInv, LineInv
    <2>2. b = SubSeq(content, mk + 1, m)
      BY <1>2, <1>3 DEF Took
    <2>3. PICK i \in Nat : i = st + 1
      OBVIOUS
    <2>15. PICK j \in Nat : j = mk + 1
      OBVIOUS
    <2>4. /\ 1 <= i /\ i <= mk + 1 /\ mk < j /\ j <= mk + 1
          /\ i <= m + 1 /\ mk <= Len(content)
      BY <1>30, <1>31, <2>3, <2>15
    <2>5. SubSeq(content, i, mk) \o SubSeq(content, j, m) = SubSeq(content, i, m)
      BY <1>30, <1>31, <2>4, Split
    <2>6. /\ SubSeq(content, i, m) \in Seq(Byte) /\ Len(SubSeq(content, i, m)) = m - i + 1
          /\ \A l \in 1 .. (m - i + 1) : SubSeq(content, i, m)[l] = content[i + l - 1]
      BY <1>30, <1>31, <2>4, Slice
    <2>7. Len(SubSeq(content, i, mk)) = mk - i + 1
      BY <1>31, <2>4, Slice
    <2>8. data = SubSeq(content, i, m) /\ old = SubSeq(content, i, mk)
      BY <1>5, <2>1, <2>2, <2>3, <2>5, <2>15
    <2>9. m - i + 1 = m - st /\ mk - i + 1 = mk - st
      BY <2>3
    <2>10. \A l \in 1 .. (m - st) : i + l - 1 = st + l
      BY <2>3
    <2>11. \A l \in 1 .. (m - st) : data[l] = content[st + l]
      BY <2>6, <2>8, <2>9, <2>10
    <2>12. Len(data) = m - st /\ Len(old) = mk - st /\ data \in Seq(Byte)
      BY <2>6, <2>7, <2>8, <2>9
    <2>13. \A l \in 1 .. Len(old) : data[l] = old[l]
      BY <1>5, Joined
    <2>14. m - st = (mk - st) + k
      BY <1>3
    <2> QED BY <2>3, <2>8, <2>11, <2>12, <2>13, <2>14
  <1>7. \/ Finish("ok", old, FALSE, late)
        \/ /\ Index(data, Terminator) > 0
           /\ Finish("ok", SubSeq(data, 1, Index(data, Terminator) - 1), TRUE, late)
        \/ /\ b # << >> /\ Index(data, Terminator) = 0
           /\ call' = [call EXCEPT !.data = data, !.want = 1, !.late = late]
           /\ UNCHANGED result
    <2>1. Index(data, Terminator) \in Nat
      BY <1>6, <1>32, IndexIsNat
    <2> QED BY <1>4, <1>5, <2>1 DEF LineBytes
  <1>8. CASE Finish("ok", old, FALSE, late)
    <2>1. result'.whole = FALSE /\ result'.op = "line"
      BY <1>8 DEF Finish
    <2>2. LinesEndAtTerminator' /\ LinesMatchCommands' /\ BlocksMatchCommands'
      BY <2>1 DEF LinesEndAtTerminator, LinesMatchCommands, BlocksMatchCommands
    <2> QED BY <1>4, <1>8, <2>2, FinishHolds
  <1>9. CASE /\ Index(data, Terminator) > 0
             /\ Finish("ok", SubSeq(data, 1, Index(data, Terminator) - 1), TRUE, late)
    <2>1. PICK end \in Nat : Index(data, Terminator) = end /\ end # 0
      <3>1. Index(data, Terminator) \in Nat
        BY <1>6, <1>32, IndexIsNat
      <3> QED BY <1>9, <3>1
    <2>2. PICK value : value = SubSeq(data, 1, end - 1)
      OBVIOUS
    <2>13. data \in Seq(Byte)
      BY <1>6
    <2>14. PICK lo \in Nat : Len(old) = lo
      OBVIOUS
    <2>15. PICK ld \in Nat : Len(data) = ld
      BY <2>13
    <2>16. PICK lt \in Nat : Len(Terminator) = lt
      BY <1>32
    <2>3. Len(old) = lo /\ Len(data) = ld /\ Len(Terminator) = lt
      BY <2>14, <2>15, <2>16
    <2>4. /\ lo <= ld /\ 0 < lt /\ ld <= IF lo = 0 THEN lt ELSE lo + 1
      <3>1. call.want = IF old = << >> THEN Len(Terminator) ELSE 1
        BY <1>4 DEF IInv, LineInv
      <3>2. k <= call.want
        BY DEF Took
      <3>3. lo = 0 => k <= lt
        BY <2>3, <3>1, <3>2
      <3>4. lo # 0 => k <= 1
        BY <2>3, <3>1, <3>2
      <3>5. ld = lo + k
        BY <1>6, <2>3
      <3> QED BY <1>32, <2>3, <3>3, <3>4, <3>5
    <2>5. Index(old, Terminator) = 0
      BY <1>4 DEF IInv, LineInv
    <2>6. /\ end + lt - 1 = ld
          /\ data = value \o Terminator
          /\ Len(value) = end - 1
      <3>1. \A j \in 1 .. lo : data[j] = old[j]
        BY <1>6, <2>3
      <3>2. /\ end + lt - 1 = ld
            /\ data = SubSeq(data, 1, end - 1) \o Terminator
            /\ Len(SubSeq(data, 1, end - 1)) = end - 1
        <4>1. /\ Len(old) <= Len(data) /\ \A j \in 1 .. Len(old) : data[j] = old[j]
              /\ Len(data) <= IF old = << >> THEN Len(Terminator) ELSE Len(old) + 1
              /\ Terminator # << >> /\ Index(data, Terminator) # 0
          BY <1>32, <2>1, <2>3, <2>4, <3>1
        <4>2. /\ Index(data, Terminator) + Len(Terminator) - 1 = Len(data)
              /\ data = SubSeq(data, 1, Index(data, Terminator) - 1) \o Terminator
              /\ Len(SubSeq(data, 1, Index(data, Terminator) - 1)) = Index(data, Terminator) - 1
          BY <1>32, <2>5, <2>13, <4>1, FoundAtEnd
        <4> QED BY <2>1, <2>3, <4>2
      <3> QED BY <2>2, <3>2
    <2>7. value \in Seq(Byte)
      <3>1. PICK e \in Nat : e = end - 1
        BY <2>1
      <3>2. 1 <= 1 /\ 1 \in Nat /\ 1 <= e + 1 /\ e <= Len(data)
        BY <2>3, <2>4, <2>6, <3>1
      <3> QED BY <1>6, <2>2, <3>1, <3>2, Slice
    <2>8. /\ result'.op = "line" /\ result'.value = value /\ result'.start = st
          /\ result'.fresh = call.fresh /\ result'.command = Len(asked) /\ result'.whole = TRUE
          /\ Finish("ok", value, TRUE, late)
      BY <1>1, <1>9, <2>1, <2>2 DEF Finish
    <2>9. LinesEndAtTerminator'
      <3>1. data = SubSeq(content', result'.start + 1, mark'[Device])
        BY <1>2, <1>3, <1>6, <2>8 DEF Moved
      <3>2. Index(data, Terminator) = Len(value) + 1
        <4>1. end = Len(value) + 1
          BY <2>6
        <4> QED BY <2>1, <4>1
      <3> QED BY <2>6, <2>8, <3>1, <3>2 DEF LinesEndAtTerminator
    <2>10. ASSUME call.fresh
           PROVE  /\ Len(replies) = Len(asked) /\ value = NewestReply
                  /\ m = Len(content)
      <3>1. ~ Unanswered
        <4>1. ld # 0
          BY <2>1, <2>4, <2>6
        <4>2. m > st
          BY <1>6, <2>3, <4>1
        <4> QED BY <1>1, <1>30, <1>31, <4>2 DEF Unanswered
      <3>2. /\ Len(replies) = Len(asked) /\ NewestReply \in Values(call.op)
            /\ \E bytes \in Answers(call.op, NewestReply) : Answer(bytes)
        BY <2>10, <3>1 DEF IInv, FreshInv, Answered, Took
      <3>3. PICK w \in Texts : w = NewestReply
        BY <3>2 DEF Values
      <3>4. w \in Seq(Byte) /\ Index(w \o Terminator, Terminator) = Len(w) + 1
        BY <3>3, ReplyAssumption
      <3>5. PICK all : all = w \o Terminator
        OBVIOUS
      <3>6. all = SubSeq(content, st + 1, Len(content))
        BY <1>1, <3>2, <3>3, <3>5 DEF Answers, Answer
      <3>7. /\ all \in Seq(Byte) /\ Len(all) = Len(content) - st
            /\ \A j \in 1 .. (Len(content) - st) : all[j] = content[st + j]
        <4>1. PICK n \in Nat : Len(content) = n
          BY <1>31
        <4>5. PICK i \in Nat : i = st + 1
          OBVIOUS
        <4>2. 1 <= i /\ i <= n + 1 /\ n <= Len(content) /\ n - i + 1 = n - st
          BY <1>30, <4>1, <4>5
        <4>3. /\ SubSeq(content, i, n) \in Seq(Byte) /\ Len(SubSeq(content, i, n)) = n - i + 1
              /\ \A l \in 1 .. (n - i + 1) : SubSeq(content, i, n)[l] = content[i + l - 1]
          BY <1>31, <4>2, Slice
        <4>4. \A l \in 1 .. (n - st) : i + l - 1 = st + l
          BY <4>5
        <4> QED BY <3>6, <4>1, <4>2, <4>3, <4>4, <4>5
      <3>8. Len(all) = Len(w) + lt
        BY <1>32, <2>3, <3>4, <3>5, Joined
      <3>9. Len(value) + lt = ld /\ ld = m - st
        BY <1>6, <2>3, <2>6
      <3>10. Len(value) <= Len(w)
        BY <1>30, <1>31, <3>4, <3>7, <3>8, <3>9
      <3>11. SubSeq(all, 1, Len(value) + lt) = value \o Terminator
        <4>1. PICK one \in Nat : one = 1
          OBVIOUS
        <4>2. 1 <= one /\ one <= ld + 1 /\ ld <= Len(all) /\ ld <= Len(data)
          BY <1>30, <1>31, <2>3, <3>7, <3>9, <4>1
        <4>3. \A j \in 1 .. ld : all[j] = data[j]
          BY <1>30, <1>31, <1>6, <3>7, <3>9
        <4>4. SubSeq(all, one, ld) = SubSeq(data, one, ld)
          BY <1>6, <3>7, <4>2, <4>3, SameSlice
        <4>5. SubSeq(data, 1, Len(data)) = data
          BY <1>6, SubSeqFull
        <4> QED BY <2>3, <2>6, <3>9, <4>1, <4>4, <4>5
      <3>12. Index(all, Terminator) = Len(w) + 1
        BY <3>4, <3>5
      <3>13. value = w
        <4>1. Terminator # << >> /\ Len(Terminator) = lt
          BY <2>3, TerminatorAssumption
        <4> QED BY <1>32, <2>7, <3>4, <3>5, <3>7, <3>10, <3>11, <3>12, <4>1, SameLine
      <3> QED BY <1>30, <1>31, <2>3, <3>2, <3>3, <3>7, <3>8, <3>9, <3>13
    <2>11. LinesMatchCommands'
      <3>1. SUFFICES ASSUME call.fresh PROVE LinesMatchCommands'
        BY <2>8 DEF LinesMatchCommands
      <3>2. /\ Len(replies') = result'.command /\ result'.value = replies'[result'.command]
        BY <2>8, <2>10, <3>1 DEF Moved, NewestReply
      <3>3. Synced'
        BY <1>2, <1>3, <2>10, <3>1 DEF Moved, Synced
      <3> QED BY <3>2, <3>3 DEF LinesMatchCommands
    <2>12. BlocksMatchCommands'
      BY <2>8 DEF BlocksMatchCommands
    <2> QED BY <2>7, <2>8, <2>9, <2>11, <2>12, FinishHolds
  <1>10. CASE /\ b # << >> /\ Index(data, Terminator) = 0
              /\ call' = [call EXCEPT !.data = data, !.want = 1, !.late = late]
              /\ UNCHANGED result
    <2>1. /\ call.phase = "none" /\ call \in CallType /\ result = NoResult
      BY DEF IInv, CallInv
    <2>2. /\ call' \in CallType
          /\ call'.op = "line" /\ call'.phase = "none" /\ call'.data = data /\ call'.want = 1
          /\ call'.fresh = call.fresh /\ call'.start = st
      BY <1>1, <1>6, <1>10, <2>1 DEF CallType
    <2>3. call'.start <= mark'[Device]
      BY <1>2, <1>30, <2>2 DEF Moved
    <2>4. CallInv' /\ Goes
      BY <1>1, <1>10, <2>1, <2>2, <2>3 DEF CallInv, Goes
    <2>5. data # << >>
      <3>1. Len(b) # 0 /\ Len(b) = k
        BY <1>10 DEF Took
      <3>2. Len(data) # 0
        BY <1>6, <3>1
      <3> QED BY <3>2
    <2>6. LineInv'
      BY <1>2, <1>3, <1>6, <1>10, <2>2, <2>5 DEF LineInv, Moved
    <2>7. BlockInv'
      BY <2>2 DEF BlockInv
    <2>8. ~ Unanswered
      <3>1. k # 0
        BY <1>10 DEF Took
      <3> QED BY <1>1, <1>3, <1>30, <1>31, <3>1 DEF Unanswered
    <2> QED BY <2>4, <2>6, <2>7, <2>8, GoesOnHolds
  <1> QED BY <1>7, <1>8, <1>9, <1>10

\* readbinblock
ReadsBlock(k, b, late) == Took(k, b, late) /\ Moved(k) /\ call.op = "block"

LEMMA ReadsBlockTypes ==
  ASSUME IInv, NEW k \in Nat, NEW b \in Seq(Byte), NEW late \in BOOLEAN, ReadsBlock(k, b, late)
  PROVE  /\ Took(k, b, late) /\ Moved(k) /\ call.op = "block" /\ result = NoResult
         /\ call \in CallType /\ call.start \in Nat /\ call.want \in Nat /\ call.len \in Nat
         /\ call.data \in Seq(Byte) /\ call.size \in Seq(Byte) /\ call.phase \in Phase
         /\ call.fresh \in BOOLEAN /\ call.late \in BOOLEAN
         /\ mark[Device] \in Nat /\ call.start <= mark[Device] /\ call.phase # "none"
         /\ content \in Seq(Byte) /\ Len(content) \in Nat
         /\ Len(b) = k /\ k <= call.want /\ mark[Device] + k <= Len(content)
         /\ \A j \in 1 .. k : b[j] = content[mark[Device] + j]
         /\ late = TRUE \/ (k = call.want /\ call.late = FALSE)
         /\ mark'[Device] = mark[Device] + k /\ UNCHANGED <<content, asked, replies>>
  <1>1. Took(k, b, late) /\ Moved(k) /\ call.op = "block"
    BY DEF ReadsBlock
  <1>2. /\ result = NoResult /\ call \in CallType
        /\ call.start <= mark[Device] /\ call.phase # "none"
    BY <1>1 DEF IInv, CallInv
  <1>3. content \in Seq(Byte) /\ Len(content) \in Nat
    BY DEF IInv, CarrierInv
  <1>4. /\ call.start \in Nat /\ call.want \in Nat /\ call.len \in Nat
        /\ call.data \in Seq(Byte) /\ call.size \in Seq(Byte) /\ call.phase \in Phase
        /\ call.fresh \in BOOLEAN /\ call.late \in BOOLEAN
    BY <1>2 DEF CallType
  <1>5. /\ mark[Device] \in Nat
        /\ Len(b) = k /\ k <= call.want /\ mark[Device] + k <= Len(content)
        /\ \A j \in 1 .. k : b[j] = content[mark[Device] + j]
    BY <1>1 DEF Took
  <1>6. late = TRUE \/ (k = call.want /\ call.late = FALSE)
    BY <1>1, Zenon DEF Took
  <1>7. mark'[Device] = mark[Device] + k /\ UNCHANGED <<content, asked, replies>>
    BY <1>1 DEF Moved
  <1> QED BY <1>1, <1>2, <1>3, <1>4, <1>5, <1>6, <1>7, Zenon

LEMMA ErrorHolds ==
  ASSUME IInv, NEW k \in Nat, NEW b \in Seq(Byte), NEW late \in BOOLEAN, ReadsBlock(k, b, late),
         Finish("error", << >>, FALSE, late)
  PROVE  IInv'
  <1>1. result'.status = "error" /\ result'.whole = FALSE
    BY DEF Finish
  <1>2. << >> \in Seq(Byte)
    OBVIOUS
  <1>3. LinesEndAtTerminator' /\ LinesMatchCommands' /\ BlocksMatchCommands'
    BY <1>1, NothingClaimedNext DEF Silent
  <1> QED BY <1>2, <1>3, FinishHolds DEF ReadsBlock

\* Nothing came: the function returns nothing, and is late if it asked for something.
LEMMA NothingHolds ==
  ASSUME IInv, NEW k \in Nat, NEW b \in Seq(Byte), NEW late \in BOOLEAN, ReadsBlock(k, b, late),
         Finish("ok", << >>, FALSE, late), call.fresh = TRUE => late = TRUE
  PROVE  IInv'
  <1>1. /\ result'.op = "block" /\ result'.value = << >>
        /\ result'.late = late /\ result'.fresh = call.fresh
    BY DEF Finish, ReadsBlock
  <1>2. << >> \in Seq(Byte)
    OBVIOUS
  <1>3. LinesEndAtTerminator' /\ LinesMatchCommands'
    BY <1>1 DEF LinesEndAtTerminator, LinesMatchCommands
  <1>4. BlocksMatchCommands'
    <2>1. call.fresh \in BOOLEAN
      BY ReadsBlockTypes
    <2> QED BY <1>1, <2>1 DEF BlocksMatchCommands
  <1> QED BY <1>2, <1>3, <1>4, FinishHolds DEF ReadsBlock

\* It goes on to another place in the block.
Onward ==
  \A n \in Noise, v \in Blocks :
    v = NewestReply /\ Answer(n \o Encode(v)) /\ BlockAt(n, v) => BlockAt(n, v)'

LEMMA BlockGoesOn ==
  ASSUME IInv, NEW k \in Nat, NEW b \in Seq(Byte), NEW late \in BOOLEAN, ReadsBlock(k, b, late),
         call' \in CallType, Goes, call'.phase # "none",
         call'.phase \in {"scan", "digit", "end"} => call'.want = 1,
         call'.phase \in {"scan", "digit"} => call'.data = << >> /\ call'.size = << >>,
         call.fresh = TRUE => ~ Unanswered /\ Onward
  PROVE  IInv'
  <1>1. /\ call'.op = "block" /\ call'.start = call.start /\ call'.fresh = call.fresh
        /\ result' = NoResult
    BY ReadsBlockTypes DEF Goes
  <1>2. call'.start <= mark'[Device]
    <2>1. /\ mark[Device] \in Nat /\ call.start <= mark[Device] /\ call.start \in Nat
          /\ mark'[Device] = mark[Device] + k
      BY ReadsBlockTypes
    <2>2. call.start <= mark[Device] + k
      BY <2>1
    <2> QED BY <1>1, <2>1, <2>2
  <1>3. CallInv'
    BY <1>1, <1>2 DEF CallInv
  <1>4. LineInv'
    BY <1>1 DEF LineInv
  <1>5. BlockInv'
    <2>1. SUFFICES ASSUME call.fresh = TRUE, Answered' PROVE BlockInv'
      <3>1. call.fresh \in BOOLEAN
        BY ReadsBlockTypes
      <3> QED BY <1>1, <3>1 DEF BlockInv
    <2>2. UNCHANGED <<content, asked, replies>> /\ call.op = "block"
      BY ReadsBlockTypes
    <2>3. Answered /\ NewestReply' = NewestReply
      BY <1>1, <2>1, <2>2 DEF Answered, NewestReply
    <2>4. PICK n \in Noise : Answer(n \o Encode(NewestReply)) /\ BlockAt(n, NewestReply)
      BY <2>1, <2>2, <2>3 DEF IInv, BlockInv
    <2>5. PICK v \in Blocks : v = NewestReply
      BY <2>2, <2>3 DEF Answered, Values
    <2>6. BlockAt(n, v)'
      BY <2>1, <2>4, <2>5 DEF Onward
    <2>7. Answer(n \o Encode(v))'
      BY <1>1, <2>2, <2>4, <2>5 DEF Answer
    <2> QED BY <2>3, <2>5, <2>6, <2>7 DEF BlockInv
  <1> QED BY <1>3, <1>4, <1>5, GoesOnHolds DEF ReadsBlock

\* What there is behind where a fresh call began.
Behind(s, v, a, b, c) ==
  /\ Len(content) = call.start + a + b + c + 3
  /\ \A i \in 1 .. a : content[call.start + i] # Hash
  /\ content[call.start + a + 1] = Hash
  /\ content[call.start + a + 2] = Zero + b
  /\ \A i \in 1 .. b : content[call.start + a + 2 + i] = s[i]
  /\ \A i \in 1 .. c : content[call.start + a + b + 2 + i] = v[i]
  /\ content[call.start + a + b + c + 3] = Newline

LEMMA BehindStart ==
  ASSUME call.start \in Nat, content \in Seq(Byte), call.start <= Len(content),
         NEW w, NEW n, NEW s, NEW v, NEW a, NEW b, NEW c, Lengths(n, s, v, a, b, c),
         Laid(w, n, s, v, a, b, c), Answer(w)
  PROVE  Behind(s, v, a, b, c)
  <1>17. PICK st \in Nat : call.start = st
    OBVIOUS
  <1>1. a \in Nat /\ b \in Nat /\ c \in Nat /\ b >= 1 /\ \A i \in 1 .. a : n[i] # Hash
    BY DEF Lengths
  <1>2. /\ w \in Seq(Byte) /\ Len(w) = a + b + c + 3
        /\ \A i \in 1 .. a : w[i] = n[i]
        /\ w[a + 1] = Hash /\ w[a + 2] = Zero + b
        /\ \A i \in 1 .. b : w[a + 2 + i] = s[i]
        /\ \A i \in 1 .. c : w[a + b + 2 + i] = v[i]
        /\ w[a + b + c + 3] = Newline
    BY DEF Laid
  <1>3. PICK i \in Nat : i = st + 1
    OBVIOUS
  <1>4. PICK m \in Nat : Len(content) = m
    OBVIOUS
  <1>5. 1 <= i /\ i <= m + 1 /\ m <= Len(content) /\ m - i + 1 = m - st
    BY <1>3, <1>4, <1>17
  <1>6. /\ SubSeq(content, i, m) \in Seq(Byte) /\ Len(SubSeq(content, i, m)) = m - i + 1
        /\ \A l \in 1 .. (m - i + 1) : SubSeq(content, i, m)[l] = content[i + l - 1]
    BY <1>5, Slice
  <1>7. SubSeq(content, i, m) = w
    BY <1>3, <1>4, <1>17 DEF Answer
  <1>8. m - st = a + b + c + 3
    BY <1>2, <1>5, <1>6, <1>7
  <1>9. \A l \in 1 .. (a + b + c + 3) : content[st + l] = w[l]
    <2>1. \A l \in 1 .. (m - st) : i + l - 1 = st + l
      BY <1>3
    <2> QED BY <1>5, <1>6, <1>7, <1>8, <2>1
  <1>10. Len(content) = st + a + b + c + 3
    BY <1>1, <1>4, <1>8
  <1>11. ASSUME NEW l \in 1 .. a PROVE content[st + l] # Hash
    <2>1. l \in 1 .. (a + b + c + 3)
      BY <1>1
    <2>2. content[st + l] = w[l]
      BY <1>9, <2>1
    <2> QED BY <1>1, <1>2, <2>2
  <1>12. content[st + (a + 1)] = Hash /\ content[st + (a + 2)] = Zero + b
    BY <1>1, <1>2, <1>9, SMTT(30)
  <1>13. content[st + (a + b + c + 3)] = Newline
    BY <1>1, <1>2, <1>9
  <1>14. ASSUME NEW l \in 1 .. b PROVE content[st + a + 2 + l] = s[l]
    <2>1. PICK j \in 1 .. (a + b + c + 3) : j = a + 2 + l
      BY <1>1
    <2>2. content[st + j] = w[j]
      BY <1>9
    <2>3. st + j = st + a + 2 + l
      BY <1>1, <2>1
    <2> QED BY <1>2, <2>1, <2>2, <2>3
  <1>15. ASSUME NEW l \in 1 .. c PROVE content[st + a + b + 2 + l] = v[l]
    <2>1. PICK j \in 1 .. (a + b + c + 3) : j = a + b + 2 + l
      BY <1>1
    <2>2. content[st + j] = w[j]
      BY <1>9
    <2>3. st + j = st + a + b + 2 + l
      BY <1>1, <2>1
    <2> QED BY <1>2, <2>1, <2>2, <2>3
  <1>16. /\ st + (a + 1) = st + a + 1 /\ st + (a + 2) = st + a + 2
         /\ st + (a + b + c + 3) = st + a + b + c + 3
    BY <1>1
  <1> QED BY <1>10, <1>11, <1>12, <1>13, <1>14, <1>15, <1>16, <1>17 DEF Behind

\* A fresh call is in the block that answers its command.
InBlock(n, s, v, a, b, c) ==
  /\ Lengths(n, s, v, a, b, c) /\ SizeOf(s, v) /\ Behind(s, v, a, b, c) /\ BlockAt(n, v)

LEMMA BlockFound ==
  ASSUME IInv, call.op = "block", call.start \in Nat, call.start <= Len(content),
         content \in Seq(Byte),
         NEW n \in Noise, NEW v \in Blocks, Answer(n \o Encode(v)), BlockAt(n, v)
  PROVE  \E s, a, b, c : InBlock(n, s, v, a, b, c)
  <1>1. PICK s, a, b, c : SizeOf(s, v) /\ Lengths(n, s, v, a, b, c)
    BY BlockLengths
  <1>2. PICK w : w = n \o Encode(v)
    OBVIOUS
  <1>3. Laid(w, n, s, v, a, b, c) /\ Answer(w)
    BY <1>1, <1>2, Encoded
  <1>5. Behind(s, v, a, b, c)
    BY <1>1, <1>3, BehindStart
  <1> QED BY <1>1, <1>5 DEF InBlock

\* The place of the function c in the block, by the lengths of its parts.
PlaceOf(c, mk, s, v, la, ls, lv) ==
  /\ c.phase = "scan" => mk <= c.start + la /\ c.data = << >> /\ c.size = << >>
  /\ c.phase = "digit" => mk = c.start + la + 1 /\ c.data = << >> /\ c.size = << >>
  /\ c.phase = "size" =>
       /\ mk = c.start + la + 2 + Len(c.size) /\ c.data = << >>
       /\ c.want = ls - Len(c.size) /\ c.want > 0
       /\ c.size = SubSeq(s, 1, Len(c.size))
  /\ c.phase \in {"data", "end"} =>
       /\ mk = c.start + la + 2 + ls + Len(c.data)
       /\ Len(c.data) <= lv /\ c.data = SubSeq(v, 1, Len(c.data))
  /\ c.phase = "data" => c.len = lv /\ c.want = c.len - Len(c.data)
  /\ c.phase = "end" => c.late \/ c.data = v

LEMMA PlaceIs ==
  ASSUME NEW c, NEW mk \in Nat, c.start \in Nat, c.size \in Seq(Byte), c.data \in Seq(Byte),
         NEW n, NEW s, NEW v, NEW la, NEW ls, NEW lv,
         Lengths(n, s, v, la, ls, lv), SizeOf(s, v)
  PROVE  PlaceAt(c, mk, n, v) <=> PlaceOf(c, mk, s, v, la, ls, lv)
  <1>1. /\ la \in Nat /\ ls \in Nat /\ lv \in Nat /\ Len(n) = la /\ Len(s) = ls /\ Len(v) = lv
        /\ Digits[Len(v)] = s
    BY DEF Lengths, SizeOf
  <1>2. PICK st \in Nat, lz \in Nat, ld \in Nat :
          c.start = st /\ Len(c.size) = lz /\ Len(c.data) = ld
    OBVIOUS
  <1>3. /\ mk - st - la <= 0 <=> mk <= st + la
        /\ mk - st - la = 1 <=> mk = st + la + 1
        /\ mk - st - la = 2 + lz <=> mk = st + la + 2 + lz
        /\ mk - st - la = 2 + ls + ld <=> mk = st + la + 2 + ls + ld
    BY <1>1
  <1> QED BY <1>1, <1>2, <1>3, Zenon DEF PlaceAt, PlaceOf

\* A fresh readbinblock reads nothing, or reads in the block that answers its command.
LEMMA FreshBlock ==
  ASSUME IInv, NEW k \in Nat, NEW b \in Seq(Byte), NEW late \in BOOLEAN, ReadsBlock(k, b, late),
         call.fresh = TRUE
  PROVE  \/ k = 0 /\ call.phase = "scan"
         \/ /\ ~ Unanswered /\ Len(replies) = Len(asked)
            /\ \E n \in Noise, v \in Blocks : v = NewestReply /\ BlockAt(n, v)
                                              /\ \E s, la, ls, lv : InBlock(n, s, v, la, ls, lv)
  <1>1. /\ call.op = "block" /\ call.start \in Nat /\ call.start <= mark[Device]
        /\ mark[Device] \in Nat /\ content \in Seq(Byte) /\ Len(content) \in Nat
        /\ mark[Device] + k <= Len(content)
    BY ReadsBlockTypes
  <1>2. CASE Unanswered
    <2>1. k = 0
      BY <1>1, <1>2 DEF Unanswered
    <2> QED BY <1>1, <1>2, <2>1 DEF Unanswered
  <1>3. CASE ~ Unanswered
    <2>1. Answered
      BY <1>1, <1>3 DEF IInv, FreshInv
    <2>2. PICK n \in Noise : Answer(n \o Encode(NewestReply)) /\ BlockAt(n, NewestReply)
      BY <1>1, <2>1 DEF IInv, BlockInv
    <2>3. PICK v \in Blocks : v = NewestReply
      BY <1>1, <2>1 DEF Answered, Values
    <2>4. call.start <= Len(content)
      BY <1>1
    <2>5. \E s, la, ls, lv : InBlock(n, s, v, la, ls, lv)
      BY <1>1, <2>2, <2>3, <2>4, BlockFound
    <2> QED BY <1>3, <2>1, <2>2, <2>3, <2>5 DEF Answered
  <1> QED BY <1>2, <1>3

\* The next place, for the block a fresh call is in.
LEMMA OnwardTo ==
  ASSUME IInv, NEW k \in Nat, NEW b \in Seq(Byte), NEW late \in BOOLEAN, ReadsBlock(k, b, late),
         call' \in CallType, Goes,
         \A n, s, v, la, ls, lv :
           /\ Lengths(n, s, v, la, ls, lv) /\ Behind(s, v, la, ls, lv)
           /\ PlaceOf(call, mark[Device], s, v, la, ls, lv)
           => PlaceOf(call', mark[Device] + k, s, v, la, ls, lv)
  PROVE  Onward
  <1>1. SUFFICES ASSUME NEW n \in Noise, NEW v \in Blocks, Answer(n \o Encode(v)), BlockAt(n, v)
                 PROVE  BlockAt(n, v)'
    BY DEF Onward
  <1>2. /\ call.op = "block" /\ call.start \in Nat /\ call.start <= mark[Device]
        /\ mark[Device] \in Nat /\ content \in Seq(Byte) /\ Len(content) \in Nat
        /\ mark[Device] + k <= Len(content) /\ mark'[Device] = mark[Device] + k
        /\ call.data \in Seq(Byte) /\ call.size \in Seq(Byte)
    BY ReadsBlockTypes, ZenonT(40)
  <1>3. call.start <= Len(content)
    BY <1>2
  <1>4. PICK s, la, ls, lv : InBlock(n, s, v, la, ls, lv)
    BY <1>1, <1>2, <1>3, BlockFound
  <1>5. Lengths(n, s, v, la, ls, lv) /\ SizeOf(s, v) /\ Behind(s, v, la, ls, lv)
    BY <1>4 DEF InBlock
  <1>6. PlaceOf(call, mark[Device], s, v, la, ls, lv)
    BY <1>1, <1>2, <1>5, PlaceIs DEF BlockAt
  <1>7. PlaceOf(call', mark[Device] + k, s, v, la, ls, lv)
    BY <1>5, <1>6
  <1>8. call'.start \in Nat /\ call'.data \in Seq(Byte) /\ call'.size \in Seq(Byte)
    BY DEF CallType
  <1>9. PICK mk \in Nat : mk = mark[Device] + k
    BY <1>2
  <1>10. PlaceOf(call', mk, s, v, la, ls, lv)
    BY <1>7, <1>9
  <1>11. PlaceAt(call', mk, n, v)
    BY <1>5, <1>8, <1>10, PlaceIs
  <1> QED BY <1>2, <1>9, <1>11 DEF BlockAt

-----------------------------------------------------------------------------
\* readbinblock, phase by phase

\* The function goes on in phase p and reads w bytes next.
LEMMA GoOnFields ==
  ASSUME IInv, NEW k \in Nat, NEW b \in Seq(Byte), NEW late \in BOOLEAN, ReadsBlock(k, b, late),
         NEW p \in Phase, NEW w \in Nat, GoOn(p, w, late)
  PROVE  /\ call' \in CallType /\ Goes /\ call'.start = call.start
         /\ call'.phase = p /\ call'.want = w /\ call'.late = late
         /\ call'.data = call.data /\ call'.size = call.size /\ call'.len = call.len
  <1>1. call \in CallType
    BY ReadsBlockTypes
  <1>2. call' = [call EXCEPT !.phase = p, !.want = w, !.late = late] /\ result' = result
    BY DEF GoOn
  <1> QED BY <1>1, <1>2 DEF CallType, Goes

\* A block without a size is none that answers a command.
LEMMA NoSizeHolds ==
  ASSUME IInv, NEW k \in Nat, NEW b \in Seq(Byte), NEW late \in BOOLEAN, ReadsBlock(k, b, late),
         NoSize(late), call.fresh # TRUE
  PROVE  IInv'
  <1>1. CASE Finish("error", << >>, FALSE, late)
    BY <1>1, ErrorHolds
  <1>2. CASE GoOn("end", 1, late)
    <2>1. PICK p \in Phase, w \in Nat : p = "end" /\ w = 1
      BY DEF Phase
    <2>2. GoOn(p, w, late)
      BY <1>2, <2>1
    <2>3. call' \in CallType /\ Goes /\ call'.phase = p /\ call'.want = w
      BY <2>2, GoOnFields
    <2> QED BY <2>1, <2>3, BlockGoesOn
  <1> QED BY <1>1, <1>2 DEF NoSize

LEMMA ScanHolds ==
  ASSUME IInv, NEW k \in Nat, NEW b \in Seq(Byte), NEW late \in BOOLEAN, ReadsBlock(k, b, late),
         call.phase = "scan", ScanBytes(b, late)
  PROVE  IInv'
  <1>1. /\ call.data = << >> /\ call.size = << >> /\ call.want = 1
    BY ReadsBlockTypes DEF IInv, CallInv
  <1>2. /\ Len(b) = k /\ k <= call.want /\ call.start \in Nat /\ mark[Device] \in Nat
        /\ \A j \in 1 .. k : b[j] = content[mark[Device] + j]
        /\ late = TRUE \/ k = call.want
    BY ReadsBlockTypes, ZenonT(40)
  <1>3. CASE b = << >>
    <2>1. k = 0
      BY <1>2, <1>3
    <2>2. late = TRUE
      BY <1>1, <1>2, <2>1
    <2>3. Finish("ok", << >>, FALSE, late)
      BY <1>3 DEF ScanBytes
    <2> QED BY <2>2, <2>3, NothingHolds
  <1>4. CASE b # << >>
    <2>1. k = 1 /\ b[1] = content[mark[Device] + 1]
      BY <1>1, <1>2, <1>4
    <2>2. PICK p \in Phase, w \in Nat :
            /\ p = IF b[1] = Hash THEN "digit" ELSE "scan"
            /\ w = 1
      BY DEF Phase
    <2>3. GoOn(p, w, late)
      <3>1. b = <<Hash>> <=> b[1] = Hash
        BY <1>2, <2>1
      <3> QED BY <1>4, <2>2, <3>1 DEF ScanBytes
    <2>4. /\ call' \in CallType /\ Goes /\ call'.phase = p /\ call'.want = w
          /\ call'.data = << >> /\ call'.size = << >> /\ call'.start = call.start
      BY <1>1, <2>3, GoOnFields
    <2>5. ASSUME NEW n, NEW s, NEW v, NEW la, NEW ls, NEW lv,
                 Lengths(n, s, v, la, ls, lv), Behind(s, v, la, ls, lv),
                 PlaceOf(call, mark[Device], s, v, la, ls, lv)
          PROVE  PlaceOf(call', mark[Device] + k, s, v, la, ls, lv)
      <3>1. la \in Nat /\ ls \in Nat /\ lv \in Nat
        BY <2>5 DEF Lengths
      <3>2. mark[Device] <= call.start + la
        BY <2>5 DEF PlaceOf
      <3>3. b[1] = Hash => mark[Device] = call.start + la
        <4>1. SUFFICES ASSUME b[1] = Hash, mark[Device] < call.start + la PROVE FALSE
          BY <1>2, <3>1, <3>2
        <4>2. PICK i \in 1 .. la : i = mark[Device] - call.start + 1
          <5>1. call.start <= mark[Device]
            BY ReadsBlockTypes
          <5> QED BY <1>2, <3>1, <4>1, <5>1
        <4>3. content[call.start + i] # Hash
          BY <2>5 DEF Behind
        <4>4. call.start + i = mark[Device] + 1
          BY <1>2, <4>2
        <4> QED BY <2>1, <4>1, <4>3, <4>4
      <3>4. b[1] # Hash => mark[Device] < call.start + la
        <4>1. SUFFICES ASSUME mark[Device] = call.start + la PROVE b[1] = Hash
          BY <1>2, <3>1, <3>2
        <4>2. content[call.start + la + 1] = Hash
          BY <2>5 DEF Behind
        <4> QED BY <2>1, <4>1, <4>2
      <3>5. CASE b[1] = Hash
        <4>1. call'.phase = "digit" /\ mark[Device] + k = call'.start + la + 1
          BY <1>2, <2>1, <2>2, <2>4, <3>1, <3>3, <3>5
        <4> QED BY <2>4, <4>1 DEF PlaceOf
      <3>6. CASE b[1] # Hash
        <4>1. call'.phase = "scan" /\ mark[Device] + k <= call'.start + la
          BY <1>2, <2>1, <2>2, <2>4, <3>1, <3>4, <3>6
        <4> QED BY <2>4, <4>1 DEF PlaceOf
      <3> QED BY <3>5, <3>6
    <2>6. Onward
      BY <2>4, <2>5, OnwardTo
    <2>7. call.fresh = TRUE => ~ Unanswered
      <3>1. k # 0
        BY <2>1
      <3> QED BY <3>1, FreshBlock
    <2> QED BY <2>2, <2>4, <2>6, <2>7, BlockGoesOn
  <1> QED BY <1>3, <1>4

LEMMA DigitHolds ==
  ASSUME IInv, NEW k \in Nat, NEW b \in Seq(Byte), NEW late \in BOOLEAN, ReadsBlock(k, b, late),
         call.phase = "digit", DigitBytes(b, late)
  PROVE  IInv'
  <1>1. /\ call.data = << >> /\ call.size = << >> /\ call.want = 1
    BY ReadsBlockTypes DEF IInv, CallInv
  <1>2. /\ Len(b) = k /\ k <= call.want /\ call.start \in Nat /\ mark[Device] \in Nat
        /\ \A j \in 1 .. k : b[j] = content[mark[Device] + j]
        /\ late = TRUE \/ k = call.want
    BY ReadsBlockTypes, ZenonT(40)
  <1>3. CASE b = << >>
    <2>1. k = 0
      BY <1>2, <1>3
    <2>2. late = TRUE
      BY <1>1, <1>2, <2>1
    <2>3. Finish("ok", << >>, FALSE, late)
      BY <1>3 DEF DigitBytes
    <2> QED BY <2>2, <2>3, NothingHolds
  <1>4. CASE b # << >>
    <2>1. k = 1 /\ b[1] = content[mark[Device] + 1] /\ b[1] \in Nat
      <3>1. k = 1 /\ b[1] = content[mark[Device] + 1]
        BY <1>1, <1>2, <1>4
      <3>2. b[1] \in Byte
        BY <1>2, <1>4
      <3>3. \A x \in Byte : x \in Nat
        BY DEF Byte
      <3> QED BY <3>1, <3>2, <3>3, Zenon
    \* In a block there is the number of digits.
    <2>2. ASSUME NEW n, NEW s, NEW v, NEW la, NEW ls, NEW lv,
                 Lengths(n, s, v, la, ls, lv), Behind(s, v, la, ls, lv),
                 PlaceOf(call, mark[Device], s, v, la, ls, lv)
          PROVE  /\ mark[Device] = call.start + la + 1 /\ b[1] = Zero + ls
                 /\ la \in Nat /\ ls \in 1 .. 9 /\ lv \in Nat /\ Len(s) = ls
      <3>1. la \in Nat /\ ls \in 1 .. 9 /\ lv \in Nat /\ Len(s) = ls
        BY <2>2 DEF Lengths
      <3>2. mark[Device] = call.start + la + 1
        BY <2>2 DEF PlaceOf
      <3>3. content[call.start + la + 2] = Zero + ls
        BY <2>2 DEF Behind
      <3>4. mark[Device] + 1 = call.start + la + 2
        BY <1>2, <3>1, <3>2
      <3> QED BY <2>1, <3>1, <3>2, <3>3, <3>4
    <2>3. CASE b[1] \in Digit \ {Zero}
      <3>1. PICK w \in Nat : w = b[1] - Zero
        BY <2>3 DEF Digit, Zero
      <3>2. PICK p \in Phase : p = "size"
        BY DEF Phase
      <3>3. GoOn(p, w, late)
        BY <1>4, <2>3, <3>1, <3>2 DEF DigitBytes
      <3>4. /\ call' \in CallType /\ Goes /\ call'.phase = "size" /\ call'.want = w
            /\ call'.data = << >> /\ call'.size = << >> /\ call'.start = call.start
        BY <1>1, <3>2, <3>3, GoOnFields
      <3>5. ASSUME NEW n, NEW s, NEW v, NEW la, NEW ls, NEW lv,
                   Lengths(n, s, v, la, ls, lv), Behind(s, v, la, ls, lv),
                   PlaceOf(call, mark[Device], s, v, la, ls, lv)
            PROVE  PlaceOf(call', mark[Device] + k, s, v, la, ls, lv)
        <4>1. /\ mark[Device] = call.start + la + 1 /\ b[1] = Zero + ls
              /\ la \in Nat /\ ls \in 1 .. 9 /\ lv \in Nat /\ Len(s) = ls
          BY <2>2, <3>5
        <4>2. mark[Device] + k = call.start + la + 2 + 0
          BY <1>2, <2>1, <4>1
        <4>3. w = ls
          BY <3>1, <4>1 DEF Zero
        <4>4. w = ls - 0 /\ w > 0
          BY <4>1, <4>3
        <4>5. Len(<< >>) = 0 /\ << >> = SubSeq(s, 1, 0)
          BY SubSeqEmpty
        <4> QED BY <3>4, <4>2, <4>4, <4>5 DEF PlaceOf
      <3>6. Onward
        BY <3>4, <3>5, OnwardTo
      <3>7. call.fresh = TRUE => ~ Unanswered
        BY <2>1, FreshBlock
      <3> QED BY <3>4, <3>6, <3>7, BlockGoesOn
    <2>4. CASE b[1] \notin Digit \ {Zero}
      <3>1. call.fresh # TRUE
        <4>1. SUFFICES ASSUME call.fresh = TRUE PROVE FALSE
          OBVIOUS
        <4>2. PICK n, v, s, la, ls, lv :
                n \in Noise /\ v \in Blocks /\ BlockAt(n, v) /\ InBlock(n, s, v, la, ls, lv)
          BY <2>1, <4>1, FreshBlock
        <4>3. Lengths(n, s, v, la, ls, lv) /\ SizeOf(s, v) /\ Behind(s, v, la, ls, lv)
          BY <4>2 DEF InBlock
        <4>4. PlaceOf(call, mark[Device], s, v, la, ls, lv)
          BY <4>2, <4>3, ReadsBlockTypes, PlaceIs DEF BlockAt
        <4>5. b[1] = Zero + ls /\ ls \in 1 .. 9
          BY <2>2, <4>3, <4>4
        <4> QED BY <2>4, <4>5 DEF Digit, Zero
      <3>2. NoSize(late)
        BY <1>4, <2>4 DEF DigitBytes
      <3> QED BY <3>1, <3>2, NoSizeHolds
    <2> QED BY <2>3, <2>4
  <1> QED BY <1>3, <1>4

\* A read goes on where the ones before it have taken the first lo elements of s.
Prefixed(old, s, lo) == Len(old) = lo /\ old = SubSeq(s, 1, lo)
Follows(b, s, lo, k) ==
  Len(b) = k /\ lo + k <= Len(s) /\ \A j \in 1 .. k : b[j] = s[lo + j]

LEMMA PrefixGrows ==
  ASSUME NEW s \in Seq(Byte), NEW old \in Seq(Byte), NEW b \in Seq(Byte), NEW lo \in Nat,
         NEW k \in Nat, Prefixed(old, s, lo), Follows(b, s, lo, k)
  PROVE  old \o b = SubSeq(s, 1, lo + k)
  <1>10. Len(b) = k /\ lo + k <= Len(s) /\ \A j \in 1 .. k : b[j] = s[lo + j]
    BY DEF Follows
  <1>1. PICK all : all = old \o b
    OBVIOUS
  <1>2. /\ all \in Seq(Byte) /\ Len(all) = lo + k
        /\ \A j \in 1 .. lo : all[j] = old[j]
        /\ \A j \in 1 .. k : all[lo + j] = b[j]
    BY <1>1, <1>10, Joined DEF Prefixed
  <1>3. PICK m \in Nat : m = lo + k
    OBVIOUS
  <1>4. PICK one \in Nat : one = 1
    OBVIOUS
  <1>5. ASSUME NEW j \in 1 .. lo PROVE all[j] = s[j]
    <2>1. 1 <= one /\ one <= lo + 1 /\ lo <= Len(s)
      BY <1>4, <1>10
    <2>2. \A l \in 1 .. (lo - one + 1) : SubSeq(s, one, lo)[l] = s[one + l - 1]
      BY <2>1, Slice
    <2>3. j \in 1 .. (lo - one + 1) /\ one + j - 1 = j
      BY <1>4
    <2> QED BY <1>2, <1>4, <2>2, <2>3 DEF Prefixed
  <1>6. ASSUME NEW j \in 1 .. m PROVE all[j] = s[j]
    <2>1. CASE j <= lo
      BY <1>5, <2>1
    <2>2. CASE j > lo
      <3>1. PICK i \in 1 .. k : i = j - lo
        BY <1>3, <2>2
      <3>2. all[lo + i] = s[lo + i] /\ lo + i = j
        <4>1. all[lo + i] = b[i] /\ b[i] = s[lo + i]
          BY <1>2, <1>10
        <4> QED BY <3>1, <4>1
      <3> QED BY <3>2
    <2> QED BY <2>1, <2>2
  <1>7. 1 <= one /\ one <= m + 1 /\ m <= Len(s) /\ m <= Len(all)
    BY <1>2, <1>3, <1>4, <1>10
  <1>8. SubSeq(all, one, m) = SubSeq(s, one, m)
    BY <1>2, <1>6, <1>7, SameSlice
  <1>9. SubSeq(all, 1, Len(all)) = all
    BY <1>2, SubSeqFull
  <1> QED BY <1>1, <1>2, <1>3, <1>4, <1>8, <1>9

LEMMA SizeHolds ==
  ASSUME IInv, NEW k \in Nat, NEW b \in Seq(Byte), NEW late \in BOOLEAN, ReadsBlock(k, b, late),
         call.phase = "size", SizeBytes(b, late)
  PROVE  IInv'
  <1>1. /\ Len(b) = k /\ k <= call.want /\ call.want \in Nat /\ call.start \in Nat
        /\ mark[Device] \in Nat /\ call \in CallType
        /\ \A j \in 1 .. k : b[j] = content[mark[Device] + j]
        /\ late = TRUE \/ k = call.want
    BY ReadsBlockTypes, ZenonT(40)
  <1>2. PICK old \in Seq(Byte) : old = call.size
    BY ReadsBlockTypes
  <1>3. PICK size : size = old \o b
    OBVIOUS
  <1>4. PICK lo \in Nat : Len(old) = lo
    OBVIOUS
  <1>5. /\ size \in Seq(Byte) /\ Len(size) = lo + k
    BY <1>1, <1>3, <1>4, Joined
  \* In a block there are the digits of its size.
  <1>6. ASSUME NEW n, NEW s, NEW v, NEW la, NEW ls, NEW lv,
               Lengths(n, s, v, la, ls, lv), Behind(s, v, la, ls, lv),
               PlaceOf(call, mark[Device], s, v, la, ls, lv)
        PROVE  /\ la \in Nat /\ ls \in Nat /\ lv \in Nat /\ Len(s) = ls /\ s \in Seq(Digit)
               /\ Number(s) = lv
               /\ mark[Device] = call.start + la + 2 + lo /\ call.data = << >>
               /\ call.want = ls - lo /\ call.want > 0 /\ lo + k <= ls
               /\ size = SubSeq(s, 1, lo + k)
    <2>1. /\ la \in Nat /\ ls \in Nat /\ lv \in Nat /\ Len(s) = ls /\ s \in Seq(Digit)
          /\ Number(s) = lv
      BY <1>6 DEF Lengths
    <2>2. /\ mark[Device] = call.start + la + 2 + lo /\ call.data = << >>
          /\ call.want = ls - lo /\ call.want > 0 /\ old = SubSeq(s, 1, lo)
      BY <1>2, <1>4, <1>6 DEF PlaceOf
    <2>3. lo + k <= ls
      BY <1>1, <2>1, <2>2
    <2>4. \A j \in 1 .. ls : content[call.start + la + 2 + j] = s[j]
      BY <1>6 DEF Behind
    <2>5. s \in Seq(Byte)
      <3>1. Digit \subseteq Byte
        BY DEF Digit, Byte, Zero
      <3> QED BY <2>1, <3>1, SeqMonotonic
    <2>6. ASSUME NEW j \in 1 .. k PROVE b[j] = s[lo + j]
      <3>1. PICK i \in 1 .. ls : i = lo + j
        BY <2>1, <2>3
      <3>2. content[call.start + la + 2 + i] = s[i]
        BY <2>4
      <3>3. call.start + la + 2 + i = mark[Device] + j
        BY <1>1, <2>1, <2>2, <3>1, SMTT(30)
      <3> QED BY <1>1, <3>1, <3>2, <3>3
    <2>7. Prefixed(old, s, lo)
      BY <1>4, <2>2 DEF Prefixed
    <2>8. size = SubSeq(s, 1, lo + k)
      <3>1. lo + k <= Len(s) /\ s \in Seq(Byte) /\ Len(b) = k
        BY <1>1, <2>1, <2>3, <2>5
      <3>2. old \in Seq(Byte) /\ lo \in Nat
        BY <1>2, <1>4
      <3>3. old \o b = SubSeq(s, 1, lo + k)
        <4>1. Follows(b, s, lo, k)
          BY <2>6, <3>1 DEF Follows
        <4> QED BY <2>7, <3>1, <3>2, <4>1, PrefixGrows
      <3> QED BY <1>3, <3>3
    <2> QED BY <2>1, <2>2, <2>3, <2>8
  <1>7. ASSUME call.fresh = TRUE
        PROVE  \E n, s, v, la, ls, lv :
                 /\ Lengths(n, s, v, la, ls, lv) /\ Behind(s, v, la, ls, lv)
                 /\ PlaceOf(call, mark[Device], s, v, la, ls, lv)
    <2>1. PICK n, v, s, la, ls, lv :
            n \in Noise /\ v \in Blocks /\ BlockAt(n, v) /\ InBlock(n, s, v, la, ls, lv)
      BY <1>7, FreshBlock
    <2>2. Lengths(n, s, v, la, ls, lv) /\ SizeOf(s, v) /\ Behind(s, v, la, ls, lv)
      BY <2>1 DEF InBlock
    <2>3. PlaceOf(call, mark[Device], s, v, la, ls, lv)
      BY <2>1, <2>2, ReadsBlockTypes, PlaceIs DEF BlockAt
    <2> QED BY <2>2, <2>3
  <1>8. call.fresh = TRUE => ~ Unanswered
    BY FreshBlock
  <1>9. ASSUME b = << >>, Finish("ok", << >>, FALSE, late) PROVE IInv'
    <2>1. k = 0
      BY <1>1, <1>9
    <2>2. call.fresh = TRUE => late = TRUE
      <3>1. SUFFICES ASSUME call.fresh = TRUE PROVE late = TRUE
        OBVIOUS
      <3>2. call.want > 0
        BY <1>6, <1>7, <3>1
      <3> QED BY <1>1, <2>1, <3>2
    <2> QED BY <1>9, <2>2, NothingHolds
  <1>10. ASSUME Len(b) < call.want, UNCHANGED result,
                call' = [call EXCEPT !.size = size, !.want = @ - Len(b), !.late = late]
         PROVE  IInv'
    <2>1. PICK w \in Nat : w = call.want - k
      BY <1>1
    <2>2. call' = [call EXCEPT !.size = size, !.want = w, !.late = late]
      BY <1>1, <1>10, <2>1
    <2>3. /\ call' \in CallType /\ Goes /\ call'.phase = "size" /\ call'.want = w
          /\ call'.size = size /\ call'.data = call.data /\ call'.start = call.start
      BY <1>1, <1>5, <1>10, <2>2 DEF CallType, Goes
    <2>4. ASSUME NEW n, NEW s, NEW v, NEW la, NEW ls, NEW lv,
                 Lengths(n, s, v, la, ls, lv), Behind(s, v, la, ls, lv),
                 PlaceOf(call, mark[Device], s, v, la, ls, lv)
          PROVE  PlaceOf(call', mark[Device] + k, s, v, la, ls, lv)
      <3>1. /\ la \in Nat /\ ls \in Nat /\ lv \in Nat
            /\ mark[Device] = call.start + la + 2 + lo /\ call.data = << >>
            /\ call.want = ls - lo /\ size = SubSeq(s, 1, lo + k)
        BY <1>6, <2>4
      <3>2. mark[Device] + k = call.start + la + 2 + Len(size)
        BY <1>1, <1>4, <1>5, <3>1
      <3>3. w = ls - Len(size) /\ w > 0
        BY <1>1, <1>4, <1>5, <1>10, <2>1, <3>1, SMTT(30)
      <3>4. size = SubSeq(s, 1, Len(size))
        BY <1>5, <3>1
      <3> QED BY <2>3, <3>1, <3>2, <3>3, <3>4 DEF PlaceOf
    <2>5. Onward
      BY <2>3, <2>4, OnwardTo
    <2> QED BY <1>8, <2>3, <2>5, BlockGoesOn
  <1>11. ASSUME Len(b) = call.want, \A i \in DOMAIN size : size[i] \in Digit, UNCHANGED result,
                call' = [call EXCEPT !.phase = "data", !.size = size, !.want = Number(size),
                                     !.len = Number(size), !.late = late]
         PROVE  IInv'
    <2>1. size \in Seq(Digit)
      <3>1. \A i \in 1 .. Len(size) : size[i] \in Digit
        BY <1>5, <1>11
      <3> QED BY <1>5, <3>1
    <2>2. PICK w \in Nat : w = Number(size)
      BY <2>1, NumberIsNat
    <2>3. call' = [call EXCEPT !.phase = "data", !.size = size, !.want = w, !.len = w,
                               !.late = late]
      BY <1>11, <2>2
    <2>4. /\ call' \in CallType /\ Goes /\ call'.phase = "data" /\ call'.want = w
          /\ call'.len = w /\ call'.data = call.data /\ call'.start = call.start
      BY <1>1, <1>5, <1>11, <2>3 DEF CallType, Goes, Phase
    <2>5. ASSUME NEW n, NEW s, NEW v, NEW la, NEW ls, NEW lv,
                 Lengths(n, s, v, la, ls, lv), Behind(s, v, la, ls, lv),
                 PlaceOf(call, mark[Device], s, v, la, ls, lv)
          PROVE  PlaceOf(call', mark[Device] + k, s, v, la, ls, lv)
      <3>1. /\ la \in Nat /\ ls \in Nat /\ lv \in Nat /\ Len(s) = ls /\ Number(s) = lv
            /\ s \in Seq(Digit)
            /\ mark[Device] = call.start + la + 2 + lo /\ call.data = << >>
            /\ call.want = ls - lo /\ size = SubSeq(s, 1, lo + k)
        BY <1>6, <2>5
      <3>2. lo + k = ls
        BY <1>1, <1>4, <1>11, <3>1
      <3>3. size = s
        BY <3>1, <3>2, SubSeqFull
      <3>4. w = lv
        BY <2>2, <3>1, <3>3
      <3>5. mark[Device] + k = call.start + la + 2 + ls + 0
        <4>1. PICK mk \in Nat, st \in Nat : mk = mark[Device] /\ st = call.start
          BY <1>1
        <4>2. mk = st + la + 2 + lo /\ la \in Nat /\ ls \in Nat
          BY <3>1, <4>1
        <4>3. mk + k = st + la + 2 + ls + 0
          BY <3>2, <4>2
        <4> QED BY <4>1, <4>3
      <3>6. Len(<< >>) = 0 /\ << >> = SubSeq(v, 1, 0) /\ 0 <= lv /\ lv = lv - 0
        BY <3>1, SubSeqEmpty
      <3> QED BY <2>4, <3>1, <3>4, <3>5, <3>6 DEF PlaceOf
    <2>6. Onward
      BY <2>4, <2>5, OnwardTo
    <2> QED BY <1>8, <2>4, <2>6, BlockGoesOn
  <1>12. ASSUME Len(b) = call.want, \E i \in DOMAIN size : size[i] \notin Digit, NoSize(late)
         PROVE  IInv'
    <2>1. call.fresh # TRUE
      <3>1. SUFFICES ASSUME call.fresh = TRUE PROVE FALSE
        OBVIOUS
      <3>2. PICK n, s, v, la, ls, lv :
              /\ Lengths(n, s, v, la, ls, lv) /\ Behind(s, v, la, ls, lv)
              /\ PlaceOf(call, mark[Device], s, v, la, ls, lv)
        BY <1>7, <3>1
      <3>3. /\ ls \in Nat /\ Len(s) = ls /\ s \in Seq(Digit)
            /\ call.want = ls - lo /\ size = SubSeq(s, 1, lo + k)
        BY <1>6, <3>2
      <3>4. lo + k = ls
        BY <1>1, <1>4, <1>12, <3>3
      <3>5. size = s
        BY <3>3, <3>4, SubSeqFull
      <3> QED BY <1>12, <3>3, <3>5
    <2> QED BY <1>12, <2>1, NoSizeHolds
  <1>13. call.size \o b = size
    BY <1>2, <1>3
  <1> QED BY <1>9, <1>10, <1>11, <1>12, <1>13 DEF SizeBytes

LEMMA DataHolds ==
  ASSUME IInv, NEW k \in Nat, NEW b \in Seq(Byte), NEW late \in BOOLEAN, ReadsBlock(k, b, late),
         call.phase = "data", DataBytes(b, late)
  PROVE  IInv'
  <1>1. /\ Len(b) = k /\ k <= call.want /\ call.want \in Nat /\ call.start \in Nat
        /\ mark[Device] \in Nat /\ call \in CallType /\ call.len \in Nat
        /\ \A j \in 1 .. k : b[j] = content[mark[Device] + j]
        /\ late = TRUE \/ k = call.want
    BY ReadsBlockTypes, ZenonT(40)
  <1>2. PICK old \in Seq(Byte) : old = call.data
    BY ReadsBlockTypes
  <1>3. PICK data : data = old \o b
    OBVIOUS
  <1>4. PICK lo \in Nat : Len(old) = lo
    OBVIOUS
  <1>5. data \in Seq(Byte) /\ Len(data) = lo + k
    BY <1>1, <1>3, <1>4, Joined
  \* In a block there is its data.
  <1>6. ASSUME NEW n, NEW s, NEW v, NEW la, NEW ls, NEW lv,
               Lengths(n, s, v, la, ls, lv), Behind(s, v, la, ls, lv),
               PlaceOf(call, mark[Device], s, v, la, ls, lv)
        PROVE  /\ la \in Nat /\ ls \in Nat /\ lv \in Nat /\ Len(v) = lv /\ v \in Seq(Byte)
               /\ mark[Device] = call.start + la + 2 + ls + lo
               /\ call.len = lv /\ call.want = lv - lo /\ lo + k <= lv
               /\ data = SubSeq(v, 1, lo + k)
    <2>1. /\ la \in Nat /\ ls \in Nat /\ lv \in Nat /\ Len(v) = lv /\ v \in Seq(Byte)
      BY <1>6 DEF Lengths
    <2>2. /\ mark[Device] = call.start + la + 2 + ls + lo
          /\ call.len = lv /\ call.want = lv - lo /\ old = SubSeq(v, 1, lo)
      BY <1>2, <1>4, <1>6 DEF PlaceOf
    <2>3. lo + k <= lv
      BY <1>1, <2>1, <2>2
    <2>4. \A j \in 1 .. lv : content[call.start + la + ls + 2 + j] = v[j]
      BY <1>6 DEF Behind
    <2>5. ASSUME NEW j \in 1 .. k PROVE b[j] = v[lo + j]
      <3>1. PICK i \in 1 .. lv : i = lo + j
        BY <2>1, <2>3
      <3>2. content[call.start + la + ls + 2 + i] = v[i]
        BY <2>4
      <3>3. call.start + la + ls + 2 + i = mark[Device] + j
        BY <1>1, <2>1, <2>2, <3>1, SMTT(30)
      <3> QED BY <1>1, <3>1, <3>2, <3>3
    <2>6. Prefixed(old, v, lo)
      BY <1>4, <2>2 DEF Prefixed
    <2>7. data = SubSeq(v, 1, lo + k)
      <3>1. lo + k <= Len(v) /\ v \in Seq(Byte) /\ Len(b) = k
        BY <1>1, <2>1, <2>3
      <3>2. old \in Seq(Byte) /\ lo \in Nat
        BY <1>2, <1>4
      <3>3. old \o b = SubSeq(v, 1, lo + k)
        <4>1. Follows(b, v, lo, k)
          BY <2>5, <3>1 DEF Follows
        <4> QED BY <2>6, <3>1, <3>2, <4>1, PrefixGrows
      <3> QED BY <1>3, <3>3
    <2> QED BY <2>1, <2>2, <2>3, <2>7
  <1>7. call.fresh = TRUE => ~ Unanswered
    BY FreshBlock
  \* The place behind what was read.
  <1>8. ASSUME NEW n, NEW s, NEW v, NEW la, NEW ls, NEW lv,
               Lengths(n, s, v, la, ls, lv), Behind(s, v, la, ls, lv),
               PlaceOf(call, mark[Device], s, v, la, ls, lv)
        PROVE  /\ mark[Device] + k = call.start + la + 2 + ls + Len(data)
               /\ Len(data) <= lv /\ data = SubSeq(v, 1, Len(data))
    <2>1. /\ la \in Nat /\ ls \in Nat /\ lv \in Nat
          /\ mark[Device] = call.start + la + 2 + ls + lo
          /\ lo + k <= lv /\ data = SubSeq(v, 1, lo + k)
      BY <1>6, <1>8
    <2>2. mark[Device] + k = call.start + la + 2 + ls + (lo + k)
      <3>1. PICK mk \in Nat, st \in Nat : mk = mark[Device] /\ st = call.start
        BY <1>1
      <3>2. mk = st + la + 2 + ls + lo
        BY <2>1, <3>1
      <3>3. mk + k = st + la + 2 + ls + (lo + k)
        BY <2>1, <3>2
      <3> QED BY <3>1, <3>3
    <2> QED BY <1>5, <2>1, <2>2
  <1>9. ASSUME Len(data) < call.len, UNCHANGED result,
               call' = [call EXCEPT !.data = data, !.want = call.len - Len(data), !.late = late]
        PROVE  IInv'
    <2>1. PICK w \in Nat : w = call.len - Len(data)
      BY <1>1, <1>5, <1>9
    <2>2. call' = [call EXCEPT !.data = data, !.want = w, !.late = late]
      BY <1>9, <2>1
    <2>3. /\ call' \in CallType /\ Goes /\ call'.phase = "data" /\ call'.want = w
          /\ call'.data = data /\ call'.start = call.start /\ call'.len = call.len
      BY <1>1, <1>5, <1>9, <2>2 DEF CallType, Goes
    <2>4. ASSUME NEW n, NEW s, NEW v, NEW la, NEW ls, NEW lv,
                 Lengths(n, s, v, la, ls, lv), Behind(s, v, la, ls, lv),
                 PlaceOf(call, mark[Device], s, v, la, ls, lv)
          PROVE  PlaceOf(call', mark[Device] + k, s, v, la, ls, lv)
      <3>1. call.len = lv
        BY <1>6, <2>4
      <3>2. w = call'.len - Len(data) /\ call'.len = lv
        BY <2>1, <2>3, <3>1
      <3>3. /\ mark[Device] + k = call.start + la + 2 + ls + Len(data)
            /\ Len(data) <= lv /\ data = SubSeq(v, 1, Len(data))
        BY <1>8, <2>4
      <3> QED BY <2>3, <3>2, <3>3 DEF PlaceOf
    <2>5. Onward
      BY <2>3, <2>4, OnwardTo
    <2> QED BY <1>7, <2>3, <2>5, BlockGoesOn
  <1>10. ASSUME UNCHANGED result,
                call' = [call EXCEPT !.phase = "end", !.data = data, !.want = 1, !.late = late]
         PROVE  IInv'
    <2>1. /\ call' \in CallType /\ Goes /\ call'.phase = "end" /\ call'.want = 1
          /\ call'.data = data /\ call'.start = call.start /\ call'.late = late
      BY <1>1, <1>5, <1>10 DEF CallType, Goes, Phase
    <2>2. ASSUME NEW n, NEW s, NEW v, NEW la, NEW ls, NEW lv,
                 Lengths(n, s, v, la, ls, lv), Behind(s, v, la, ls, lv),
                 PlaceOf(call, mark[Device], s, v, la, ls, lv)
          PROVE  PlaceOf(call', mark[Device] + k, s, v, la, ls, lv)
      <3>1. /\ mark[Device] + k = call.start + la + 2 + ls + Len(data)
            /\ Len(data) <= lv /\ data = SubSeq(v, 1, Len(data))
        BY <1>8, <2>2
      <3>2. late = TRUE \/ data = v
        <4>1. SUFFICES ASSUME k = call.want PROVE data = v
          BY <1>1
        <4>2. /\ lv \in Nat /\ Len(v) = lv /\ v \in Seq(Byte) /\ call.want = lv - lo
              /\ data = SubSeq(v, 1, lo + k)
          BY <1>6, <2>2
        <4>3. lo + k = lv
          BY <4>1, <4>2
        <4> QED BY <4>2, <4>3, SubSeqFull
      <3>3. call'.late \/ call'.data = v
        BY <2>1, <3>2
      <3> QED BY <2>1, <3>1, <3>3 DEF PlaceOf
    <2>3. Onward
      BY <2>1, <2>2, OnwardTo
    <2> QED BY <1>7, <2>1, <2>3, BlockGoesOn
  <1>11. call.data \o b = data
    BY <1>2, <1>3
  <1> QED BY <1>9, <1>10, <1>11 DEF DataBytes

LEMMA EndHolds ==
  ASSUME IInv, NEW k \in Nat, NEW b \in Seq(Byte), NEW late \in BOOLEAN, ReadsBlock(k, b, late),
         call.phase = "end", EndBytes(b, late)
  PROVE  IInv'
  <1>1. /\ Len(b) = k /\ k <= call.want /\ call.start \in Nat /\ call.data \in Seq(Byte)
        /\ mark[Device] \in Nat /\ call.op = "block" /\ call.fresh \in BOOLEAN
        /\ late = TRUE \/ (k = call.want /\ call.late = FALSE)
        /\ mark'[Device] = mark[Device] + k /\ UNCHANGED <<content, asked, replies>>
    BY ReadsBlockTypes, ZenonT(40)
  <1>2. call.want = 1
    BY <1>1 DEF IInv, CallInv
  <1>3. ASSUME Finish("ok", call.data, TRUE, late) PROVE IInv'
    <2>1. /\ result'.op = "block" /\ result'.value = call.data /\ result'.late = late
          /\ result'.fresh = call.fresh /\ result'.command = Len(asked)
      BY <1>1, <1>3 DEF Finish
    <2>2. LinesEndAtTerminator' /\ LinesMatchCommands'
      BY <2>1 DEF LinesEndAtTerminator, LinesMatchCommands
    <2>3. BlocksMatchCommands'
      <3>1. SUFFICES ASSUME call.fresh = TRUE
                     PROVE  /\ Len(replies) = Len(asked) /\ IsPrefix(call.data, NewestReply)
                            /\ late = FALSE => /\ call.data = NewestReply
                                               /\ mark[Device] + k = Len(content)
        <4>1. NewestReply = replies[Len(replies)]
          BY DEF NewestReply
        <4> QED BY <1>1, <2>1, <3>1, <4>1 DEF BlocksMatchCommands, Synced
      <3>2. Len(replies) = Len(asked)
        BY <1>1, <3>1, FreshBlock
      <3>3. PICK n, v, s, la, ls, lv :
              n \in Noise /\ v \in Blocks /\ v = NewestReply
              /\ BlockAt(n, v) /\ InBlock(n, s, v, la, ls, lv)
        BY <1>1, <3>1, FreshBlock
      <3>4. Lengths(n, s, v, la, ls, lv) /\ SizeOf(s, v) /\ Behind(s, v, la, ls, lv)
        BY <3>3 DEF InBlock
      <3>5. PlaceOf(call, mark[Device], s, v, la, ls, lv)
        BY <3>3, <3>4, ReadsBlockTypes, PlaceIs DEF BlockAt
      <3>6. /\ la \in Nat /\ ls \in Nat /\ lv \in Nat /\ Len(v) = lv /\ v \in Seq(Byte)
        BY <3>4 DEF Lengths
      <3>7. /\ mark[Device] = call.start + la + 2 + ls + Len(call.data)
            /\ Len(call.data) <= lv /\ call.data = SubSeq(v, 1, Len(call.data))
            /\ call.late \/ call.data = v
        BY <3>5 DEF PlaceOf
      <3>8. IsPrefix(call.data, v)
        BY <1>1, <3>6, <3>7 DEF IsPrefix
      <3>9. ASSUME late = FALSE PROVE call.data = v /\ mark[Device] + k = Len(content)
        <4>1. k = 1 /\ call.data = v
          BY <1>1, <1>2, <3>7, <3>9
        <4>2. Len(content) = call.start + la + ls + lv + 3
          BY <3>4 DEF Behind
        <4>3. mark[Device] = call.start + la + 2 + ls + lv
          BY <3>6, <3>7, <4>1
        <4> QED BY <1>1, <3>6, <4>1, <4>2, <4>3, SMTT(30)
      <3> QED BY <3>2, <3>3, <3>8, <3>9
    <2> QED BY <1>1, <1>3, <2>2, <2>3, FinishHolds DEF ReadsBlock
  <1> QED BY <1>3, ErrorHolds DEF EndBytes

LEMMA ReadStepHolds == IInv /\ ReadStep => IInv'
  <1>1. SUFFICES ASSUME IInv, ReadStep PROVE IInv'
    OBVIOUS
  <1>2. PICK k \in Nat, b \in Seq(Byte), late \in BOOLEAN :
          Took(k, b, late) /\ Moved(k) /\ Used(b, late)
    BY <1>1, ReadTakes
  <1>3. CASE call.op = "line"
    <2>1. call.phase = "none"
      BY <1>1, <1>3 DEF IInv, CallInv
    <2>2. LineBytes(b, late)
      BY <1>2, <2>1 DEF Used
    <2> QED BY <1>1, <1>2, <1>3, <2>2, LineReadHolds
  <1>4. CASE call.op # "line"
    <2>1. call.op = "block"
      BY <1>1, <1>2, <1>4 DEF IInv, CallInv, CallType, Kind, Took
    <2>2. ReadsBlock(k, b, late)
      BY <1>2, <2>1 DEF ReadsBlock
    <2> QED BY <1>1, <1>2, <1>4, <2>2, ScanHolds, DigitHolds, SizeHolds, DataHolds, EndHolds
            DEF Used
  <1> QED BY <1>3, <1>4

-----------------------------------------------------------------------------
\* Every step

LEMMA StutterHolds == IInv /\ UNCHANGED vars => IInv'
  <1>1. SUFFICES ASSUME IInv, UNCHANGED vars PROVE IInv'
    OBVIOUS
  <1>2. UNCHANGED <<sent, mark, last, content, asked, replies, call, result>>
    BY <1>1 DEF vars
  <1>3. CarrierInv' /\ CallInv' /\ ResultInv' /\ LineInv'
    BY <1>1, <1>2 DEF IInv, CarrierInv, CallInv, ResultInv, LineInv
  <1>4. FreshInv'
    BY <1>1, <1>2 DEF IInv, FreshInv, Unanswered, Answered, NewestReply, Answer
  <1>5. BlockInv'
    BY <1>1, <1>2 DEF IInv, BlockInv, Answered, NewestReply, Answer, BlockAt, PlaceAt
  <1>6. LinesEndAtTerminator' /\ LinesMatchCommands' /\ BlocksMatchCommands'
    BY <1>1, <1>2
       DEF IInv, LinesEndAtTerminator, LinesMatchCommands, BlocksMatchCommands, Synced
  <1> QED BY <1>3, <1>4, <1>5, <1>6 DEF IInv

\* The inductive invariant: what a running function has read and where it stands in the
\* answer to its command, if it began with nothing unread and no answer owed.
THEOREM InductiveInvariant == Spec => []IInv
  <1>1. IInv /\ [Next]_vars => IInv'
    <2>1. SUFFICES ASSUME IInv, [Next]_vars PROVE IInv'
      OBVIOUS
    <2>2. ASSUME NEW kind \in {"line", "block"}, WriteRead(kind) \/ ReadMore(kind) PROVE IInv'
      <3>1. kind \in Kind
        BY DEF Kind
      <3> QED BY <2>1, <2>2, <3>1, WriteReadHolds, ReadMoreHolds
    <2> QED BY <2>1, <2>2, ReplyHolds, ArriveHolds, FlushInputHolds, ReadStepHolds,
               InterruptHolds, StutterHolds DEF Next
  <1> QED BY <1>1, InitHolds, PTL DEF Spec

\* What the functions are told of and keep has its type: the dialogue with the device, the
\* running function's variables, its result.
THEOREM Types == Spec => [](CarrierInv /\ call \in CallType /\ result \in ResultType)
  <1>1. IInv => CarrierInv /\ call \in CallType /\ result \in ResultType
    BY DEF IInv, CallInv, ResultInv
  <1> QED BY <1>1, InductiveInvariant, PTL

\* A line that readline found the terminator of is all that was read since it began, up to
\* the first terminator, however long the terminator is and whatever went wrong before.
THEOREM LinesEndThere == Spec => []LinesEndAtTerminator
  <1>1. IInv => LinesEndAtTerminator
    BY DEF IInv
  <1> QED BY <1>1, InductiveInvariant, PTL

\* writeread returns the answer to its own command if it returns a whole line and began
\* with nothing unread and no answer owed, and leaves the dialogue so.
THEOREM LinesAreAnswers == Spec => []LinesMatchCommands
  <1>1. IInv => LinesMatchCommands
    BY DEF IInv
  <1> QED BY <1>1, InductiveInvariant, PTL

\* readbinblock after such a beginning returns data of the block that answers its command
\* and of nothing else, and all of it if no read came short: for any blocks, any noise
\* without a "#" before them, however the bytes arrive.
THEOREM BlocksAreAnswers == Spec => []BlocksMatchCommands
  <1>1. IInv => BlocksMatchCommands
    BY DEF IInv
  <1> QED BY <1>1, InductiveInvariant, PTL

=============================================================================
