---------------------------- MODULE LaptopProofs ----------------------------
(***************************************************************************)
(* Theorems about the two programs that are functions: what is framed is   *)
(* read back field by field and no burst of flipped bits passes the        *)
(* checksum; a lag lies in the window that was asked for, and it is the    *)
(* one at which the signal arrived.  And about a session at the laptop,    *)
(* LaptopPrograms: what ToolsProofs and DialInProofs prove of each         *)
(* program, and this module of packets and lags, holds in a session that   *)
(* may be with any of them.                                                *)
(***************************************************************************)
EXTENDS LaptopPrograms, ToolsProofs, DialInProofs

(****************************** induction ********************************)

\* Induction up to a number, over the set of those for which a fact holds.
LEMMA UpTo ==
  ASSUME NEW n \in Nat, NEW S, 0 \in S, \A i \in 0..n - 1 : i \in S => i + 1 \in S
  PROVE  \A i \in 0..n : i \in S
<1> SUFFICES ASSUME NEW j \in 0..n, j \notin S PROVE FALSE
  OBVIOUS
<1> DEFINE bad == {i \in 0..n : i \notin S}
<1>1. bad \in SUBSET Nat /\ bad # {}
  OBVIOUS
<1>2. PICK m \in bad : \A i \in bad : m <= i
  BY <1>1, LeastIn
<1>3. m \in 0..n /\ m \notin S /\ m # 0
  BY <1>2
<1>4. m - 1 \in 0..n - 1 /\ (m - 1) + 1 = m
  BY <1>3
<1>5. m - 1 \notin bad
  BY <1>2, <1>3
<1>6. m - 1 \in S
  BY <1>4, <1>5
<1> QED BY <1>3, <1>4, <1>6

\* What a recursive function over 0..n computes step by step.
Run(f, D, a, n, F) ==
  f \in [0..n -> D] /\ f[0] = a /\ \A i \in 1..n : f[i] = F[<<i, f[i - 1]>>]

LEMMA RunExists ==
  ASSUME NEW D, NEW a \in D, NEW n \in Nat, NEW F \in [(1..n) \X D -> D]
  PROVE  \E f : Run(f, D, a, n, F)
<1> DEFINE Upto(f, m) == f[0] = a /\ \A i \in 1..m : f[i] = F[<<i, f[i - 1]>>]
           S == {m \in 0..n : \E f \in [0..m -> D] : Upto(f, m)}
<1>1. 0 \in S
  <2>1. [i \in 0..0 |-> a] \in [0..0 -> D] /\ Upto([i \in 0..0 |-> a], 0)
    OBVIOUS
  <2> HIDE DEF Upto
  <2>2. 0 \in 0..n
    OBVIOUS
  <2>3. \E f \in [0..0 -> D] : Upto(f, 0)
    BY <2>1
  <2> QED BY <2>2, <2>3
<1>2. ASSUME NEW m \in 0..n - 1, m \in S PROVE m + 1 \in S
  <2>1. PICK f \in [0..m -> D] : Upto(f, m)
    BY <1>2
  <2> DEFINE g == [i \in 0..m + 1 |-> IF i = m + 1 THEN F[<<m + 1, f[m]>>] ELSE f[i]]
  <2>2. f[m] \in D /\ <<m + 1, f[m]>> \in (1..n) \X D
    OBVIOUS
  <2>3. g \in [0..m + 1 -> D]
    <3>1. F[<<m + 1, f[m]>>] \in D
      BY <2>2
    <3>2. \A i \in 0..m + 1 : i # m + 1 => f[i] \in D
      OBVIOUS
    <3> QED BY <3>1, <3>2
  <2>4. ASSUME NEW i \in 1..m + 1 PROVE g[i] = F[<<i, g[i - 1]>>]
    <3>1. i - 1 \in 0..m /\ i - 1 \in 0..m + 1 /\ i - 1 # m + 1 /\ i \in 0..m + 1
      OBVIOUS
    <3>2. g[i - 1] = f[i - 1]
      BY <3>1
    <3>3. CASE i = m + 1
      <4>1. g[i] = F[<<m + 1, f[m]>>] /\ i - 1 = m
        BY <3>1, <3>3
      <4> QED BY <3>2, <3>3, <4>1
    <3>4. CASE i # m + 1
      <4>1. i \in 1..m /\ g[i] = f[i]
        BY <3>1, <3>4
      <4>2. f[i] = F[<<i, f[i - 1]>>]
        BY <4>1, <2>1
      <4> QED BY <3>2, <4>1, <4>2
    <3> QED BY <3>3, <3>4
  <2>5. g[0] = a
    BY <2>1
  <2>6. Upto(g, m + 1)
    BY <2>4, <2>5
  <2> HIDE DEF g, Upto
  <2>7. m + 1 \in 0..n
    OBVIOUS
  <2> QED BY <2>3, <2>6, <2>7
<1> HIDE DEF S
<1>3. n \in S
  BY <1>1, <1>2, UpTo
<1> QED BY <1>3 DEF S, Run

(****************************** CRC-32C **********************************)

\* The register of the checksum.
Word == SUBSET (0..31)

\* A bit of one number or the other, not of both.
Either(p, q) == (p /\ ~q) \/ (q /\ ~p)

\* What one turn does to every bit.
LEMMA TurnBits ==
  ASSUME NEW c \in Word
  PROVE  /\ TableStep(c) \in Word
         /\ \A i \in 0..31 : i \in TableStep(c) <=>
              Either(i <= 30 /\ i + 1 \in c, 0 \in c /\ i \in CRC32C_POLY)
<1> DEFINE shifted == Field(c, 1, 31)
           poly == CRC32C_POLY
<1>1. \A i : i \in shifted <=> i \in 0..30 /\ i + 1 \in c
  BY DEF Field
<1>2. poly \subseteq 0..31
  BY DEF CRC32C_POLY, BitsOf
<1>3. TableStep(c) = IF 0 \in c THEN SymDiff(shifted, poly) ELSE shifted
  BY DEF TableStep
<1> HIDE DEF shifted, poly
<1>4. \A i : i \in TableStep(c) <=> Either(i \in shifted, 0 \in c /\ i \in poly)
  BY <1>3 DEF SymDiff, Either
<1>5. TableStep(c) \in Word
  <2>1. \A i \in TableStep(c) : i \in shifted \/ i \in poly
    BY <1>4 DEF Either
  <2>2. shifted \subseteq 0..31
    BY <1>1
  <2> QED BY <1>2, <2>1, <2>2 DEF Word
<1>6. \A i \in 0..31 : i \in shifted <=> i <= 30 /\ i + 1 \in c
  BY <1>1
<1> QED BY <1>4, <1>5, <1>6 DEF poly

\* Exclusive or passes through a turn.
LEMMA TurnIsLinear ==
  ASSUME NEW c \in Word, NEW d \in Word
  PROVE  SymDiff(c, d) \in Word /\ TableStep(SymDiff(c, d)) = SymDiff(TableStep(c), TableStep(d))
<1>1. SymDiff(c, d) \in Word /\ \A i : i \in SymDiff(c, d) <=> Either(i \in c, i \in d)
  BY DEF SymDiff, Word, Either
<1>2. TableStep(c) \in Word /\ TableStep(d) \in Word /\ TableStep(SymDiff(c, d)) \in Word
  BY <1>1, TurnBits
<1>3. ASSUME NEW i \in 0..31
      PROVE  i \in TableStep(SymDiff(c, d)) <=> Either(i \in TableStep(c), i \in TableStep(d))
  <2>1. i \in TableStep(c) <=> Either(i <= 30 /\ i + 1 \in c, 0 \in c /\ i \in CRC32C_POLY)
    BY TurnBits
  <2>2. i \in TableStep(d) <=> Either(i <= 30 /\ i + 1 \in d, 0 \in d /\ i \in CRC32C_POLY)
    BY TurnBits
  <2>3. i \in TableStep(SymDiff(c, d)) <=>
          Either(i <= 30 /\ i + 1 \in SymDiff(c, d), 0 \in SymDiff(c, d) /\ i \in CRC32C_POLY)
    BY <1>1, TurnBits
  <2>4. /\ i + 1 \in SymDiff(c, d) <=> Either(i + 1 \in c, i + 1 \in d)
        /\ 0 \in SymDiff(c, d) <=> Either(0 \in c, 0 \in d)
    BY <1>1
  <2> QED BY <2>1, <2>2, <2>3, <2>4 DEF Either
<1>4. \A i : i \in SymDiff(TableStep(c), TableStep(d)) <=> Either(i \in TableStep(c), i \in TableStep(d))
  BY DEF SymDiff, Either
<1>5. SymDiff(TableStep(c), TableStep(d)) \subseteq 0..31 /\ TableStep(SymDiff(c, d)) \subseteq 0..31
  BY <1>2 DEF SymDiff, Word
<1> QED BY <1>1, <1>3, <1>4, <1>5

\* The polynomial has bit 31: a turn whose result is low has shifted out a zero.
LEMMA TurnBack ==
  ASSUME NEW c \in Word, NEW r \in Int, r <= 30, TableStep(c) \subseteq 0..r
  PROVE  c \subseteq 1..r + 1
<1>1. 31 \in CRC32C_POLY
  BY DEF CRC32C_POLY
<1>2. 0 \notin c
  <2>1. 31 \notin TableStep(c)
    OBVIOUS
  <2>2. 31 \in TableStep(c) <=> Either(31 <= 30 /\ 31 + 1 \in c, 0 \in c /\ 31 \in CRC32C_POLY)
    BY TurnBits
  <2> QED BY <1>1, <2>1, <2>2 DEF Either
<1>3. ASSUME NEW x \in c PROVE x \in 1..r + 1
  <2>1. x \in 1..31 /\ x - 1 \in 0..31 /\ x - 1 <= 30 /\ (x - 1) + 1 = x
    BY <1>2 DEF Word
  <2>2. x - 1 \in TableStep(c)
    BY <1>2, <2>1, TurnBits DEF Either
  <2> QED BY <2>1, <2>2
<1> QED BY <1>3

\* One bit of the message: it is added to the lowest of the register, which turns.
Shift(c, one) == TableStep(IF one THEN SymDiff(c, {0}) ELSE c)

LEMMA ShiftInWord ==
  ASSUME NEW c \in Word, NEW one \in BOOLEAN
  PROVE  Shift(c, one) \in Word
<1>1. SymDiff(c, {0}) \in Word
  BY DEF SymDiff, Word
<1> QED BY <1>1, TurnBits DEF Shift

\* The table has eight turns for every byte.
LEMMA EightTurns ==
  ASSUME NEW y \in SUBSET (0..7)
  PROVE  \E t \in [0..8 -> Word] :
           /\ t[0] = y /\ \A i \in 0..7 : t[i + 1] = TableStep(t[i])
           /\ CRC32C_TABLE[y] = t[8]
<1> DEFINE Is(f) == f = [turn \in 0..8 |-> IF turn = 0 THEN y ELSE TableStep(f[turn - 1])]
           F == [p \in (1..8) \X Word |-> TableStep(p[2])]
           g == CHOOSE f : Is(f)
<1>1. y \in Word /\ F \in [(1..8) \X Word -> Word]
  <2>1. \A p \in (1..8) \X Word : TableStep(p[2]) \in Word
    BY TurnBits
  <2> QED BY <2>1 DEF Word
<1>2. PICK f : Run(f, Word, y, 8, F)
  <2> HIDE DEF F
  <2>1. 8 \in Nat
    OBVIOUS
  <2> QED BY <1>1, <2>1, RunExists
<1> HIDE DEF Is, g
<1>3. f \in [0..8 -> Word] /\ f[0] = y /\ \A i \in 1..8 : f[i] = TableStep(f[i - 1])
  <2>1. \A i \in 1..8 : f[i - 1] \in Word
    BY <1>2 DEF Run
  <2>2. \A i \in 1..8 : F[<<i, f[i - 1]>>] = TableStep(f[i - 1])
    BY <2>1
  <2> HIDE DEF F
  <2> QED BY <1>2, <2>2 DEF Run
<1>4. Is(f)
  <2>1. \A i \in 0..8 : i # 0 => i \in 1..8
    OBVIOUS
  <2>2. f = [turn \in 0..8 |-> f[turn]]
    BY <1>3
  <2>3. \A i \in 0..8 : f[i] = IF i = 0 THEN y ELSE TableStep(f[i - 1])
    BY <1>3, <2>1
  <2> QED BY <2>2, <2>3 DEF Is
<1>5. Is(g)
  BY <1>4 DEF g
<1>6. CRC32C_TABLE[y] = g[8]
  BY DEF CRC32C_TABLE, Is, g
<1>7. /\ DOMAIN g = 0..8 /\ g = [i \in 0..8 |-> g[i]] /\ g[0] = y
      /\ \A i \in 1..8 : g[i] = TableStep(g[i - 1])
  BY <1>5 DEF Is
<1>8. \A i \in 0..7 : g[i + 1] = TableStep(g[i])
  <2>1. ASSUME NEW i \in 0..7 PROVE g[i + 1] = TableStep(g[i])
    <3>1. i + 1 \in 1..8 /\ (i + 1) - 1 = i
      OBVIOUS
    <3>2. g[i + 1] = TableStep(g[(i + 1) - 1])
      BY <1>7, <3>1
    <3> QED BY <3>1, <3>2
  <2> QED BY <2>1
<1> DEFINE S == {i \in 0..8 : g[i] \in Word}
<1>9. 0 \in S
  BY <1>1, <1>7
<1>10. \A i \in 0..8 - 1 : i \in S => i + 1 \in S
  BY <1>8, TurnBits
<1> HIDE DEF S
<1>11. \A i \in 0..8 : i \in S
  BY <1>9, <1>10, UpTo
<1>12. g \in [0..8 -> Word]
  BY <1>7, <1>11 DEF S
<1> QED BY <1>6, <1>7, <1>8, <1>12

\* The table does at one blow what eight bits, one by one, do to the register.
LEMMA ByteIsEightBits ==
  ASSUME NEW c \in [0..8 -> Word], NEW y \in SUBSET (0..7),
         \A i \in 0..7 : c[i + 1] = Shift(c[i], i \in y)
  PROVE  ByteStep(c[0], y) = c[8]
<1> DEFINE u == y \cup (c[0] \cap 8..31)
           x == SymDiff(Field(c[0], 0, 8), y)
           Rest(i) == Field(u, i, 32 - i)
<1>1. c[0] \in Word
  OBVIOUS
<1>2. x \in SUBSET (0..7)
  <2>1. Field(c[0], 0, 8) \subseteq 0..7
    BY DEF Field
  <2> QED BY <2>1 DEF SymDiff
<1>3. PICK t \in [0..8 -> Word] : /\ t[0] = x /\ \A i \in 0..7 : t[i + 1] = TableStep(t[i])
                                  /\ CRC32C_TABLE[x] = t[8]
  BY <1>2, EightTurns
<1>4. u \in Word
  <2>1. 0..7 \subseteq 0..31
    OBVIOUS
  <2> QED BY <1>1, <2>1 DEF Word
<1>5. t[0] = SymDiff(c[0], Rest(0))
  <2>1. \A i : i \in Field(c[0], 0, 8) <=> i \in 0..7 /\ i \in c[0]
    BY DEF Field
  <2>2. \A i : i \in Rest(0) <=> i \in 0..31 /\ i \in u
    BY DEF Field
  <2>3. \A i : i \in c[0] => i \in 0..31
    BY <1>1 DEF Word
  <2>4. \A i : i \in x <=> Either(i \in Field(c[0], 0, 8), i \in y)
    BY DEF SymDiff, Either
  <2>5. \A i : i \in SymDiff(c[0], Rest(0)) <=> Either(i \in c[0], i \in Rest(0))
    BY DEF SymDiff, Either
  <2>6. \A i : i \in u <=> i \in y \/ (i \in c[0] /\ i \in 8..31)
    OBVIOUS
  <2>7. \A i : i \in y => i \in 0..7
    OBVIOUS
  <2> HIDE DEF x, u, Rest
  <2>8. \A i : i \in x <=> i \in SymDiff(c[0], Rest(0))
    <3>1. ASSUME NEW i PROVE i \in x <=> i \in SymDiff(c[0], Rest(0))
      <4>1. i \in 0..31 => (i \in 0..7 \/ i \in 8..31) /\ ~(i \in 0..7 /\ i \in 8..31)
        OBVIOUS
      <4>2. i \in 0..7 => i \in 0..31
        OBVIOUS
      <4> QED BY <2>1, <2>2, <2>3, <2>4, <2>5, <2>6, <2>7, <4>1, <4>2 DEF Either
    <3> QED BY <3>1
  <2> QED BY <1>3, <2>8
<1>6. ASSUME NEW i \in 0..7, t[i] = SymDiff(c[i], Rest(i))
      PROVE  t[i + 1] = SymDiff(c[i + 1], Rest(i + 1))
  <2> DEFINE fed == IF i \in y THEN SymDiff(c[i], {0}) ELSE c[i]
             high == {k \in 1..31 : k - 1 \in Rest(i + 1)}
  <2>1. c[i] \in Word /\ i \in Nat /\ i + 1 \in 0..8
    OBVIOUS
  <2>2. fed \in Word /\ high \in Word
    <3>1. \A k \in SymDiff(c[i], {0}) : k \in 0..31
      BY <2>1 DEF SymDiff, Word
    <3>2. high \subseteq 0..31
      OBVIOUS
    <3> QED BY <2>1, <3>1, <3>2 DEF Word
  <2>3. \A k : k \in Rest(i) <=> k \in 0..31 - i /\ k + i \in u
    <3>1. 32 - i - 1 = 31 - i
      OBVIOUS
    <3> QED BY <3>1 DEF Field
  <2>4. \A k : k \in Rest(i + 1) <=> k \in 0..30 - i /\ k + (i + 1) \in u
    <3>1. 32 - (i + 1) - 1 = 30 - i
      OBVIOUS
    <3> QED BY <3>1 DEF Field
  <2>5. i \in y <=> i \in u
    OBVIOUS
  <2> HIDE DEF u, Rest
  <2>6. \A k : k \in Rest(i) <=> k \in high \/ (k = 0 /\ i \in y)
    <3>1. ASSUME NEW k, k \in Rest(i) PROVE k \in high \/ (k = 0 /\ i \in y)
      <4>1. k \in 0..31 - i /\ k + i \in u
        BY <3>1, <2>3
      <4>2. CASE k = 0
        BY <4>1, <4>2, <2>5
      <4>3. CASE k # 0
        <5>1. k \in 1..31 /\ k - 1 \in 0..30 - i /\ (k - 1) + (i + 1) = k + i
          BY <4>1, <4>3
        <5> QED BY <4>1, <5>1, <2>4
      <4> QED BY <4>2, <4>3
    <3>2. ASSUME NEW k, k \in high PROVE k \in Rest(i)
      <4>1. k \in 1..31 /\ k - 1 \in 0..30 - i /\ (k - 1) + (i + 1) \in u
        BY <3>2, <2>4
      <4>2. k \in 0..31 - i /\ (k - 1) + (i + 1) = k + i
        BY <4>1
      <4> QED BY <4>1, <4>2, <2>3
    <3>3. i \in y => 0 \in Rest(i)
      <4>1. 0 \in 0..31 - i /\ 0 + i = i
        OBVIOUS
      <4> QED BY <4>1, <2>3, <2>5
    <3> QED BY <3>1, <3>2, <3>3
  <2>7. SymDiff(c[i], Rest(i)) = SymDiff(fed, high)
    <3>1. 0 \notin high
      OBVIOUS
    <3> HIDE DEF high
    <3>2. \A k : k \in fed <=> Either(k \in c[i], i \in y /\ k = 0)
      BY DEF SymDiff, Either
    <3> HIDE DEF fed
    <3>3. \A k : /\ k \in SymDiff(c[i], Rest(i)) <=> Either(k \in c[i], k \in Rest(i))
                 /\ k \in SymDiff(fed, high) <=> Either(k \in fed, k \in high)
      BY DEF SymDiff, Either
    <3>4. ASSUME NEW k PROVE k \in SymDiff(c[i], Rest(i)) <=> k \in SymDiff(fed, high)
      <4>1. k \in high => k # 0
        BY <3>1
      <4>2. k \in Rest(i) <=> k \in high \/ (k = 0 /\ i \in y)
        BY <2>6
      <4>3. k \in fed <=> Either(k \in c[i], i \in y /\ k = 0)
        BY <3>2
      <4>4. k \in SymDiff(c[i], Rest(i)) <=> Either(k \in c[i], k \in Rest(i))
        BY <3>3 DEF Either
      <4>5. k \in SymDiff(fed, high) <=> Either(k \in fed, k \in high)
        BY <3>3 DEF Either
      <4> QED BY <4>1, <4>2, <4>3, <4>4, <4>5 DEF Either
    <3> QED BY <3>4
  <2>8. TableStep(high) = Rest(i + 1)
    <3>1. 0 \notin high
      OBVIOUS
    <3>2. \A k \in 0..31 : k \in TableStep(high) <=> k <= 30 /\ k + 1 \in high
      BY <2>2, <3>1, TurnBits DEF Either
    <3>3. \A k \in 0..30 : k + 1 \in 1..31 /\ (k + 1) - 1 = k
      OBVIOUS
    <3>4. \A k \in 0..30 : k + 1 \in high <=> k \in Rest(i + 1)
      BY <3>3
    <3>5. Rest(i + 1) \subseteq 0..30
      BY <2>4
    <3>6. TableStep(high) \subseteq 0..31
      BY <2>2, TurnBits DEF Word
    <3> HIDE DEF high
    <3>7. \A k : k \in TableStep(high) <=> k \in Rest(i + 1)
      BY <3>2, <3>4, <3>5, <3>6
    <3> QED BY <3>7
  <2>9. TableStep(fed) = c[i + 1]
    BY DEF Shift
  <2>10. TableStep(SymDiff(fed, high)) = SymDiff(TableStep(fed), TableStep(high))
    <3> HIDE DEF fed, high
    <3> QED BY <2>2, TurnIsLinear
  <2> HIDE DEF fed, high
  <2> QED BY <1>3, <1>6, <2>7, <2>8, <2>9, <2>10
<1> DEFINE S == {i \in 0..8 : t[i] = SymDiff(c[i], Rest(i))}
<1>7. 0 \in S
  BY <1>5
<1>8. \A i \in 0..8 - 1 : i \in S => i + 1 \in S
  <2> HIDE DEF Rest
  <2> QED BY <1>6
<1> HIDE DEF S
<1>9. 8 \in S
  BY <1>7, <1>8, UpTo
<1>10. t[8] = SymDiff(c[8], Rest(8))
  BY <1>9 DEF S
<1>11. Rest(8) = Field(c[0], 8, 24)
  <2>1. ASSUME NEW k \in 0..23 PROVE k + 8 \in u <=> k + 8 \in c[0]
    <3>1. k + 8 \in 8..31 /\ k + 8 \notin 0..7
      OBVIOUS
    <3> QED BY <3>1
  <2>2. Rest(8) = {k \in 0..23 : k + 8 \in u}
    BY DEF Field
  <2>3. Field(c[0], 8, 24) = {k \in 0..23 : k + 8 \in c[0]}
    BY DEF Field
  <2> HIDE DEF u, Rest
  <2> QED BY <2>1, <2>2, <2>3
<1>12. ByteStep(c[0], y) = SymDiff(Field(c[0], 8, 24), t[8])
  BY <1>3 DEF ByteStep
<1> HIDE DEF Rest, x, u
<1>13. \A a, b : SymDiff(a, SymDiff(b, a)) = b
  BY DEF SymDiff
<1> QED BY <1>10, <1>11, <1>12, <1>13

\* The register after every one of the first n bits.
Register(b, s, n) ==
  b \in [0..n -> Word] /\ b[0] = 0..31 /\ \A t \in 0..n - 1 : b[t + 1] = Shift(b[t], t \in s)

LEMMA RegisterExists ==
  ASSUME NEW s, NEW n \in Nat
  PROVE  \E b : Register(b, s, n)
<1> DEFINE F == [p \in (1..n) \X Word |-> Shift(p[2], p[1] - 1 \in s)]
<1>1. 0..31 \in Word
  BY DEF Word
<1>2. F \in [(1..n) \X Word -> Word]
  <2>1. ASSUME NEW p \in (1..n) \X Word PROVE Shift(p[2], p[1] - 1 \in s) \in Word
    <3>1. (p[1] - 1 \in s) \in BOOLEAN /\ p[2] \in Word
      OBVIOUS
    <3> QED BY <3>1, ShiftInWord
  <2> QED BY <2>1
<1>3. PICK b : Run(b, Word, 0..31, n, F)
  <2> HIDE DEF F
  <2> QED BY <1>1, <1>2, RunExists
<1>4. ASSUME NEW t \in 0..n - 1 PROVE b[t + 1] = Shift(b[t], t \in s)
  <2>1. t + 1 \in 1..n /\ (t + 1) - 1 = t /\ t \in 0..n
    OBVIOUS
  <2>2. b[t + 1] = F[<<t + 1, b[(t + 1) - 1]>>]
    <3> HIDE DEF F
    <3> QED BY <1>3, <2>1 DEF Run
  <2>3. b[t] \in Word
    BY <1>3, <2>1 DEF Run
  <2>4. <<t + 1, b[t]>> \in (1..n) \X Word
    BY <2>1, <2>3
  <2>5. F[<<t + 1, b[t]>>] = Shift(b[t], (t + 1) - 1 \in s)
    BY <2>4
  <2> HIDE DEF F
  <2> QED BY <2>1, <2>2, <2>5
<1> HIDE DEF F
<1> QED BY <1>3, <1>4 DEF Register, Run

\* The checksum, byte by byte through the table, is that of a register that is fed
\* bit by bit.
LEMMA CrcOfRegister ==
  ASSUME NEW s, NEW n \in Nat, NEW b, Register(b, s, 8 * n)
  PROVE  crc32c(s, n) = SymDiff(0..31, b[8 * n])
<1> DEFINE Is(f) == f = [k \in 0..n |-> IF k = 0 THEN 0..31 ELSE ByteStep(f[k - 1], Byte(s, k - 1))]
           g == CHOOSE f : Is(f)
           f == [k \in 0..n |-> b[8 * k]]
<1>1. /\ b \in [0..8 * n -> Word] /\ b[0] = 0..31
      /\ \A t \in 0..8 * n - 1 : b[t + 1] = Shift(b[t], t \in s)
  BY DEF Register
<1>2. ASSUME NEW k \in 1..n PROVE f[k] = ByteStep(f[k - 1], Byte(s, k - 1))
  <2> DEFINE c == [i \in 0..8 |-> b[8 * (k - 1) + i]]
             y == Byte(s, k - 1)
  <2>1. \A i \in 0..8 : 8 * (k - 1) + i \in 0..8 * n
    OBVIOUS
  <2>2. c \in [0..8 -> Word]
    BY <1>1, <2>1
  <2>3. y \in SUBSET (0..7) /\ \A i \in 0..7 : i \in y <=> 8 * (k - 1) + i \in s
    <3>1. y = {i \in 0..7 : i + 8 * (k - 1) \in s}
      BY DEF Byte, Field
    <3>2. \A i \in 0..7 : i + 8 * (k - 1) = 8 * (k - 1) + i
      OBVIOUS
    <3> HIDE DEF y
    <3> QED BY <3>1, <3>2
  <2>4. ASSUME NEW i \in 0..7 PROVE c[i + 1] = Shift(c[i], i \in y)
    <3> DEFINE t == 8 * (k - 1) + i
    <3>1. /\ t \in 0..8 * n - 1 /\ t + 1 = 8 * (k - 1) + (i + 1)
          /\ i + 1 \in 0..8 /\ i \in 0..8
      OBVIOUS
    <3>2. c[i] = b[t] /\ c[i + 1] = b[t + 1]
      BY <3>1
    <3>3. i \in y <=> t \in s
      BY <2>3
    <3> HIDE DEF c, t, y
    <3>4. b[t + 1] = Shift(b[t], t \in s)
      BY <1>1, <3>1
    <3>5. (i \in y) = (t \in s)
      BY <3>3
    <3> QED BY <3>2, <3>4, <3>5
  <2>5. c[0] = f[k - 1] /\ c[8] = f[k]
    <3>1. k - 1 \in 0..n /\ k \in 0..n /\ 8 * (k - 1) + 0 = 8 * (k - 1) /\ 8 * (k - 1) + 8 = 8 * k
      OBVIOUS
    <3> QED BY <3>1
  <2>6. ByteStep(c[0], y) = c[8]
    <3> HIDE DEF c, y
    <3> QED BY <2>2, <2>3, <2>4, ByteIsEightBits
  <2> HIDE DEF c, f
  <2> QED BY <2>5, <2>6
<1>3. f[0] = 0..31
  BY <1>1
<1>4. Is(f)
  <2>1. f = [k \in 0..n |-> f[k]]
    OBVIOUS
  <2>2. \A k \in 0..n : k # 0 => k \in 1..n
    OBVIOUS
  <2> HIDE DEF f
  <2>3. \A k \in 0..n : f[k] = IF k = 0 THEN 0..31 ELSE ByteStep(f[k - 1], Byte(s, k - 1))
    BY <1>2, <1>3, <2>2
  <2> QED BY <2>1, <2>3
<1>5. f[n] = b[8 * n]
  OBVIOUS
<1> HIDE DEF f
<1>6. crc32c(s, n) = SymDiff(0..31, g[n])
  BY DEF crc32c
<1> HIDE DEF Is
<1>7. Is(g)
  BY <1>4
<1> HIDE DEF g
<1> DEFINE S == {k \in 0..n : g[k] = f[k]}
<1>8. 0 \in S
  <2>1. g[0] = 0..31
    BY <1>7 DEF Is
  <2> QED BY <1>3, <2>1
<1>9. ASSUME NEW k \in 0..n - 1, k \in S PROVE k + 1 \in S
  <2>1. k + 1 \in 1..n /\ k + 1 \in 0..n /\ k + 1 # 0 /\ (k + 1) - 1 = k
    OBVIOUS
  <2>2. g[k + 1] = ByteStep(g[(k + 1) - 1], Byte(s, (k + 1) - 1))
    BY <1>7, <2>1 DEF Is
  <2>3. f[k + 1] = ByteStep(f[(k + 1) - 1], Byte(s, (k + 1) - 1))
    BY <1>2, <2>1
  <2> QED BY <1>9, <2>1, <2>2, <2>3
<1> HIDE DEF S
<1>10. n \in S
  BY <1>8, <1>9, UpTo
<1>11. g[n] = f[n]
  BY <1>10 DEF S
<1> QED BY <1>5, <1>6, <1>11

\* The checksum of n bytes is a word, and depends on those bytes alone.
LEMMA CrcOfPrefix ==
  ASSUME NEW s, NEW r, NEW n \in Nat, \A t \in 0..8 * n - 1 : t \in s <=> t \in r
  PROVE  crc32c(s, n) \in Word /\ crc32c(s, n) = crc32c(r, n)
<1> DEFINE m == 8 * n
<1>1. m \in Nat
  OBVIOUS
<1> HIDE DEF m
<1>2. PICK b : Register(b, s, m)
  BY <1>1, RegisterExists
<1>3. Register(b, r, m)
  <2>1. ASSUME NEW t \in 0..m - 1 PROVE (t \in s) = (t \in r)
    BY DEF m
  <2> QED BY <1>2, <2>1 DEF Register
<1>4. b[m] \in Word
  BY <1>1, <1>2 DEF Register
<1>5. SymDiff(0..31, b[m]) \in Word
  BY <1>4 DEF SymDiff, Word
<1> QED BY <1>2, <1>3, <1>5, CrcOfRegister DEF m

(************************* bursts are seen *******************************)

\* The registers of two messages.
LEMMA ShiftIsLinear ==
  ASSUME NEW c \in Word, NEW d \in Word, NEW s, NEW r, NEW t
  PROVE  SymDiff(c, d) \in Word
         /\ SymDiff(Shift(c, t \in s), Shift(d, t \in r)) = Shift(SymDiff(c, d), t \in SymDiff(s, r))
<1> DEFINE a == IF t \in s THEN SymDiff(c, {0}) ELSE c
           e == IF t \in r THEN SymDiff(d, {0}) ELSE d
           x == IF t \in SymDiff(s, r) THEN SymDiff(SymDiff(c, d), {0}) ELSE SymDiff(c, d)
<1>1. a \in Word /\ e \in Word
  BY DEF SymDiff, Word
<1>2. SymDiff(a, e) = x
  <2>1. \A i : i \in a <=> Either(i \in c, t \in s /\ i = 0)
    BY DEF SymDiff, Either
  <2>2. \A i : i \in e <=> Either(i \in d, t \in r /\ i = 0)
    BY DEF SymDiff, Either
  <2>3. \A i : i \in x <=> Either(Either(i \in c, i \in d), Either(t \in s, t \in r) /\ i = 0)
    BY DEF SymDiff, Either
  <2>4. \A i : i \in SymDiff(a, e) <=> Either(i \in a, i \in e)
    BY DEF SymDiff, Either
  <2> HIDE DEF a, e, x
  <2>5. ASSUME NEW i PROVE i \in SymDiff(a, e) <=> i \in x
    <3>1. i \in a <=> Either(i \in c, t \in s /\ i = 0)
      BY <2>1
    <3>2. i \in e <=> Either(i \in d, t \in r /\ i = 0)
      BY <2>2
    <3>3. i \in x <=> Either(Either(i \in c, i \in d), Either(t \in s, t \in r) /\ i = 0)
      BY <2>3
    <3>4. i \in SymDiff(a, e) <=> Either(i \in a, i \in e)
      BY <2>4
    <3> QED BY <3>1, <3>2, <3>3, <3>4 DEF Either
  <2> QED BY <2>5
<1>3. SymDiff(TableStep(a), TableStep(e)) = TableStep(SymDiff(a, e))
  <2> HIDE DEF a, e
  <2> QED BY <1>1, TurnIsLinear
<1>4. /\ Shift(c, t \in s) = TableStep(a) /\ Shift(d, t \in r) = TableStep(e)
      /\ Shift(SymDiff(c, d), t \in SymDiff(s, r)) = TableStep(x)
  BY DEF Shift
<1>5. SymDiff(c, d) \in Word
  BY TurnIsLinear
<1> HIDE DEF a, e, x
<1> QED BY <1>2, <1>3, <1>4, <1>5

\* A burst: where two messages differ, from bit j to no further than 31 bits on.
Burst(s, r, j) ==
  /\ ~(j \in s <=> j \in r)
  /\ \A t \in Nat : t < j \/ t > j + 31 => (t \in s <=> t \in r)

\* Not two messages that end in their checksum differ by a burst, wherever it
\* begins, in the checksum too.
LEMMA BurstIsSeen ==
  ASSUME NEW s, NEW r, NEW n \in Nat, NEW j \in 0..8 * n + 31, Burst(s, r, j),
         Field(s, 8 * n, 32) = crc32c(s, n), Field(r, 8 * n, 32) = crc32c(r, n)
  PROVE  FALSE
<1> DEFINE m == 8 * n
<1>1. m \in Nat /\ j \in Nat /\ j <= m + 31
  OBVIOUS
<1>2. PICK b : Register(b, s, m)
  BY <1>1, RegisterExists
<1>3. PICK c : Register(c, r, m)
  BY <1>1, RegisterExists
<1> DEFINE d(t) == SymDiff(b[t], c[t])
           one(t) == t \in SymDiff(s, r)
<1>4. Field(s, m, 32) = SymDiff(0..31, b[m]) /\ Field(r, m, 32) = SymDiff(0..31, c[m])
  BY <1>2, <1>3, CrcOfRegister
<1> HIDE DEF m
<1>5. /\ \A t \in 0..m : b[t] \in Word /\ c[t] \in Word
      /\ b[0] = c[0]
      /\ \A t \in 0..m - 1 : b[t + 1] = Shift(b[t], t \in s) /\ c[t + 1] = Shift(c[t], t \in r)
  BY <1>2, <1>3 DEF Register
<1>6. ASSUME NEW t \in 0..m PROVE d(t) \in Word
  BY <1>5, TurnIsLinear
<1>7. ASSUME NEW t \in 0..m - 1 PROVE d(t + 1) = Shift(d(t), one(t))
  <2>1. t \in 0..m
    BY <1>1
  <2>2. b[t] \in Word /\ c[t] \in Word
    BY <1>5, <2>1
  <2>3. SymDiff(Shift(b[t], t \in s), Shift(c[t], t \in r)) = Shift(d(t), one(t))
    BY <2>2, ShiftIsLinear
  <2> QED BY <1>5, <2>3
<1>8. ASSUME NEW i \in 0..31 PROVE i \in d(m) <=> one(i + m)
  <2>1. i \in SymDiff(0..31, b[m]) <=> i \notin b[m]
    BY DEF SymDiff
  <2>2. i \in SymDiff(0..31, c[m]) <=> i \notin c[m]
    BY DEF SymDiff
  <2>3. i \in Field(s, m, 32) <=> i + m \in s
    BY DEF Field
  <2>4. i \in Field(r, m, 32) <=> i + m \in r
    BY DEF Field
  <2>5. i \in d(m) <=> Either(i \in b[m], i \in c[m])
    BY DEF SymDiff, Either
  <2>6. one(i + m) <=> Either(i + m \in s, i + m \in r)
    BY DEF SymDiff, Either
  <2> QED BY <1>4, <2>1, <2>2, <2>3, <2>4, <2>5, <2>6 DEF Either
<1>9. one(j) /\ \A t \in Nat : t < j \/ t > j + 31 => ~one(t)
  BY DEF Burst, SymDiff
<1>10. d(0) = {}
  BY <1>5 DEF SymDiff
<1> HIDE DEF d, one
\* Up to the burst the registers agree.
<1>11. ASSUME NEW k \in 0..m, k <= j PROVE d(k) = {}
  <2> DEFINE S == {t \in 0..k : d(t) = {}}
  <2>1. 0 \in S
    BY <1>10
  <2>2. ASSUME NEW t \in 0..k - 1, t \in S PROVE t + 1 \in S
    <3>1. t \in 0..m - 1 /\ t \in Nat /\ t < j /\ t + 1 \in 0..k /\ d(t) = {}
      BY <1>1, <1>11, <2>2
    <3>2. ~one(t)
      BY <1>9, <3>1
    <3>3. d(t + 1) = TableStep({})
      BY <1>7, <3>1, <3>2 DEF Shift
    <3>4. TableStep({}) = {}
      BY DEF TableStep, Field
    <3> QED BY <3>1, <3>3, <3>4
  <2> HIDE DEF S
  <2>3. k \in Nat
    OBVIOUS
  <2>4. k \in S
    BY <2>1, <2>2, <2>3, UpTo
  <2> QED BY <2>4 DEF S
<1>12. CASE j >= m
  <2>1. d(m) = {}
    BY <1>1, <1>11, <1>12
  <2>2. j - m \in 0..31 /\ (j - m) + m = j
    BY <1>1, <1>12
  <2>3. j - m \in d(m)
    BY <1>8, <1>9, <2>2
  <2> QED BY <2>1, <2>3
<1>13. CASE j < m
  \* The first bit of the burst leaves the polynomial.
  <2>1. j + 1 \in 0..m /\ j \in 0..m - 1 /\ j \in 0..m
    BY <1>1, <1>13
  <2>2. 31 \in d(j + 1)
    <3>1. d(j + 1) = Shift(d(j), one(j)) /\ d(j) = {}
      BY <1>1, <1>7, <1>11, <2>1
    <3>2. Shift({}, one(j)) = TableStep({0})
      <4>1. SymDiff({}, {0}) = {0}
        BY DEF SymDiff
      <4> QED BY <1>9, <4>1 DEF Shift
    <3>3. {0} \in Word
      BY DEF Word
    <3>4. 31 \in TableStep({0}) <=> Either(31 <= 30 /\ 31 + 1 \in {0}, 0 \in {0} /\ 31 \in CRC32C_POLY)
      BY <3>3, TurnBits
    <3>5. 31 \in CRC32C_POLY
      BY DEF CRC32C_POLY
    <3>6. 31 \in TableStep({0})
      BY <3>4, <3>5 DEF Either
    <3> QED BY <3>1, <3>2, <3>6
  \* From the end backwards: what is left of the burst is no longer than its rest.
  <2> DEFINE S == {k \in 0..m - (j + 1) : d(m - k) \subseteq 0..(j + 31) - (m - k)}
  <2>3. 0 \in S
    <3>1. ASSUME NEW i \in d(m) PROVE i \in 0..(j + 31) - m
      <4>1. m \in 0..m
        BY <1>1
      <4>2. i \in 0..31 /\ one(i + m)
        BY <1>6, <1>8, <4>1 DEF Word
      <4>3. i + m <= j + 31
        BY <1>1, <1>9, <4>2
      <4> QED BY <1>1, <4>2, <4>3
    <3>2. m - 0 = m /\ 0 \in 0..m - (j + 1)
      BY <1>1, <1>13
    <3> QED BY <3>1, <3>2
  <2>4. ASSUME NEW k \in 0..(m - (j + 1)) - 1, k \in S PROVE k + 1 \in S
    <3> DEFINE t == m - (k + 1)
               e == IF one(t) THEN SymDiff(d(t), {0}) ELSE d(t)
               h == (j + 31) - (t + 1)
    <3>1. /\ t \in 0..m - 1 /\ t \in 0..m /\ t \in Nat /\ t >= j + 1 /\ t + 1 = m - k
          /\ k + 1 \in 0..m - (j + 1) /\ h \in Int /\ h <= 30 /\ h + 1 = (j + 31) - t
      BY <1>1, <1>13
    <3> HIDE DEF t, h
    <3>2. d(t) \in Word
      BY <1>6, <3>1
    <3>3. e \in Word
      BY <3>2 DEF SymDiff, Word
    <3>4. d(t + 1) = TableStep(e)
      BY <1>7, <3>1 DEF Shift
    <3>5. d(t + 1) \subseteq 0..h
      BY <2>4, <3>1 DEF h
    <3>6. e \subseteq 1..h + 1
      <4> HIDE DEF e
      <4> QED BY <3>1, <3>3, <3>4, <3>5, TurnBack
    <3>7. ASSUME NEW i \in d(t) PROVE i \in 0..(j + 31) - t
      <4>1. CASE i \in e
        BY <3>1, <3>6, <4>1
      <4>2. CASE i \notin e
        <5>1. one(t) /\ i = 0
          BY <4>2 DEF SymDiff
        <5>2. t <= j + 31
          BY <1>1, <1>9, <3>1, <5>1
        <5> QED BY <1>1, <3>1, <5>1, <5>2
      <4> QED BY <4>1, <4>2
    <3> QED BY <3>1, <3>7 DEF t
  <2> HIDE DEF S
  <2>5. m - (j + 1) \in Nat /\ m - (m - (j + 1)) = j + 1 /\ (j + 31) - (j + 1) = 30
    BY <1>1, <1>13
  <2>6. m - (j + 1) \in S
    BY <2>3, <2>4, <2>5, UpTo
  <2>7. d(j + 1) \subseteq 0..30
    BY <2>5, <2>6 DEF S
  <2> QED BY <2>2, <2>7
<1> QED BY <1>1, <1>12, <1>13

(**************************** numbers ************************************)

\* The halves of a number, and its bits in them.
Halves(half, n) ==
  /\ half \in [0..30 -> Nat] /\ half[0] = n
  /\ \A i \in 0..29 : half[i + 1] = half[i] \div 2
  /\ BitsOf(n) = {i \in 0..30 : half[i] % 2 = 1}

LEMMA HalvesExist ==
  ASSUME NEW n \in Nat
  PROVE  \E half : Halves(half, n)
<1> DEFINE Is(f) == f = [i \in 0..30 |-> IF i = 0 THEN n ELSE f[i - 1] \div 2]
           F == [p \in (1..30) \X Nat |-> p[2] \div 2]
           g == CHOOSE f : Is(f)
<1>1. F \in [(1..30) \X Nat -> Nat] /\ 30 \in Nat
  OBVIOUS
<1>2. PICK f : Run(f, Nat, n, 30, F)
  <2> HIDE DEF F
  <2> QED BY <1>1, RunExists
<1> HIDE DEF Is, g
<1>3. f \in [0..30 -> Nat] /\ f[0] = n /\ \A i \in 1..30 : f[i] = f[i - 1] \div 2
  <2> HIDE DEF F
  <2>0. f \in [0..30 -> Nat]
    BY <1>2 DEF Run
  <2>1. \A i \in 1..30 : f[i - 1] \in Nat
    BY <2>0
  <2>2. \A i \in 1..30 : F[<<i, f[i - 1]>>] = f[i - 1] \div 2
    BY <2>1 DEF F
  <2> QED BY <1>2, <2>2 DEF Run
<1>4. Is(f)
  <2>1. \A i \in 0..30 : i # 0 => i \in 1..30
    OBVIOUS
  <2>2. f = [i \in 0..30 |-> f[i]]
    BY <1>3
  <2>3. \A i \in 0..30 : f[i] = IF i = 0 THEN n ELSE f[i - 1] \div 2
    BY <1>3, <2>1
  <2> QED BY <2>2, <2>3 DEF Is
<1>5. Is(g)
  BY <1>4 DEF g
<1>6. BitsOf(n) = {i \in 0..30 : g[i] % 2 = 1}
  BY DEF BitsOf, Is, g
<1>7. /\ g = [i \in 0..30 |-> g[i]] /\ g[0] = n
      /\ \A i \in 1..30 : g[i] = g[i - 1] \div 2
  BY <1>5 DEF Is
<1>8. \A i \in 0..29 : g[i + 1] = g[i] \div 2
  <2>1. ASSUME NEW i \in 0..29 PROVE g[i + 1] = g[i] \div 2
    <3>1. i + 1 \in 1..30 /\ (i + 1) - 1 = i
      OBVIOUS
    <3>2. g[i + 1] = g[(i + 1) - 1] \div 2
      BY <1>7, <3>1
    <3> QED BY <3>1, <3>2
  <2> QED BY <2>1
<1> DEFINE S == {i \in 0..30 : g[i] \in Nat}
<1>9. 0 \in S
  BY <1>7
<1>10. \A i \in 0..30 - 1 : i \in S => i + 1 \in S
  BY <1>8
<1> HIDE DEF S
<1>11. \A i \in 0..30 : i \in S
  BY <1>9, <1>10, UpTo
<1>12. g \in [0..30 -> Nat]
  BY <1>7, <1>11 DEF S
<1> QED BY <1>6, <1>7, <1>8, <1>12 DEF Halves

\* A number of w bits has been halved to nothing after w halvings.
LEMMA HalvedAway ==
  ASSUME NEW n \in Nat, NEW half, Halves(half, n), NEW w \in {8, 16}, n < 2^w
  PROVE  \A i \in w..30 : half[i] = 0
<1>1. /\ half \in [0..30 -> Nat] /\ half[0] = n
      /\ \A i \in 0..29 : half[i + 1] = half[i] \div 2
  BY DEF Halves
<1>2. \A x, b \in Nat : x < 2 * b => x \div 2 < b
  OBVIOUS
<1>3. ASSUME NEW i \in 0..29, NEW b \in Nat, half[i] < 2 * b PROVE half[i + 1] < b
  BY <1>1, <1>2, <1>3
<1>4. half[8] = 0 \/ (w = 16 /\ half[8] < 256)
  <2>1. CASE w = 8
    <3>1. half[0] < 256
      BY <1>1, <2>1
    <3>2. half[0 + 1] < 128
      BY <1>3, <3>1
    <3>3. half[1 + 1] < 64
      BY <1>3, <3>2
    <3>4. half[2 + 1] < 32
      BY <1>3, <3>3
    <3>5. half[3 + 1] < 16
      BY <1>3, <3>4
    <3>6. half[4 + 1] < 8
      BY <1>3, <3>5
    <3>7. half[5 + 1] < 4
      BY <1>3, <3>6
    <3>8. half[6 + 1] < 2
      BY <1>3, <3>7
    <3>9. half[7 + 1] < 1
      BY <1>3, <3>8
    <3> QED BY <1>1, <3>9
  <2>2. CASE w = 16
    <3>1. half[0] < 65536
      BY <1>1, <2>2
    <3>2. half[0 + 1] < 32768
      BY <1>3, <3>1
    <3>3. half[1 + 1] < 16384
      BY <1>3, <3>2
    <3>4. half[2 + 1] < 8192
      BY <1>3, <3>3
    <3>5. half[3 + 1] < 4096
      BY <1>3, <3>4
    <3>6. half[4 + 1] < 2048
      BY <1>3, <3>5
    <3>7. half[5 + 1] < 1024
      BY <1>3, <3>6
    <3>8. half[6 + 1] < 512
      BY <1>3, <3>7
    <3>9. half[7 + 1] < 256
      BY <1>3, <3>8
    <3> QED BY <2>2, <3>9
  <2> QED BY <2>1, <2>2
<1>5. half[w] = 0
  <2>1. CASE half[8] < 256 /\ w = 16
    <3>2. half[8 + 1] < 128
      BY <1>3, <2>1
    <3>3. half[9 + 1] < 64
      BY <1>3, <3>2
    <3>4. half[10 + 1] < 32
      BY <1>3, <3>3
    <3>5. half[11 + 1] < 16
      BY <1>3, <3>4
    <3>6. half[12 + 1] < 8
      BY <1>3, <3>5
    <3>7. half[13 + 1] < 4
      BY <1>3, <3>6
    <3>8. half[14 + 1] < 2
      BY <1>3, <3>7
    <3>9. half[15 + 1] < 1
      BY <1>3, <3>8
    <3> QED BY <1>1, <2>1, <3>9
  <2>2. CASE w = 8 /\ half[8] = 0
    BY <2>2
  <2>3. w = 16 /\ half[8] = 0 => half[8] < 256
    OBVIOUS
  <2> QED BY <1>4, <2>1, <2>2, <2>3
<1> DEFINE S == {k \in 0..30 - w : half[w + k] = 0}
<1>6. 0 \in S
  BY <1>5
<1>7. ASSUME NEW k \in 0..(30 - w) - 1, k \in S PROVE k + 1 \in S
  <2>1. w + k \in 0..29 /\ w + (k + 1) = (w + k) + 1 /\ k + 1 \in 0..30 - w
    OBVIOUS
  <2>2. half[(w + k) + 1] = 0
    BY <1>1, <1>7, <2>1
  <2> QED BY <2>1, <2>2
<1> HIDE DEF S
<1>8. \A k \in 0..30 - w : k \in S
  <2>1. 30 - w \in Nat
    OBVIOUS
  <2> QED BY <1>6, <1>7, <2>1, UpTo
<1>9. ASSUME NEW i \in w..30 PROVE half[i] = 0
  <2>1. i - w \in 0..30 - w /\ w + (i - w) = i
    OBVIOUS
  <2> QED BY <1>8, <2>1 DEF S
<1> QED BY <1>9

LEMMA BitsBelow ==
  ASSUME NEW n \in Nat, NEW w \in {8, 16}, n < 2^w
  PROVE  BitsOf(n) \subseteq 0..w - 1
<1>1. PICK half : Halves(half, n)
  BY HalvesExist
<1>2. \A i \in w..30 : half[i] = 0
  BY <1>1, HalvedAway
<1>3. ASSUME NEW i \in BitsOf(n) PROVE i \in 0..w - 1
  <2>1. i \in 0..30 /\ half[i] % 2 = 1
    BY <1>1 DEF Halves
  <2>2. i \notin w..30
    BY <1>2, <2>1
  <2> QED BY <2>1, <2>2
<1> QED BY <1>3

\* Sixteen bits are read back.
LEMMA ValueOfBits ==
  ASSUME NEW n \in Nat, n < 65536
  PROVE  ValueOf(BitsOf(n) \cap 0..15) = n
<1> DEFINE bits == BitsOf(n) \cap 0..15
           Is(f) == f = [i \in 0..16 |-> IF i = 0 THEN 0
                                         ELSE 2 * f[i - 1] + (IF 16 - i \in bits THEN 1 ELSE 0)]
           g == CHOOSE f : Is(f)
<1>1. PICK half : Halves(half, n)
  BY HalvesExist
<1>2. /\ half \in [0..30 -> Nat] /\ half[0] = n
      /\ \A i \in 0..29 : half[i + 1] = half[i] \div 2
      /\ \A i \in 0..15 : i \in bits <=> half[i] % 2 = 1
  BY <1>1 DEF Halves
<1>3. half[16] = 0
  <2>1. 2^16 = 65536
    OBVIOUS
  <2> QED BY <1>1, <2>1, HalvedAway
<1> HIDE DEF bits
<1> DEFINE f == [i \in 0..16 |-> half[16 - i]]
<1>4. ASSUME NEW i \in 1..16
      PROVE  f[i] = 2 * f[i - 1] + (IF 16 - i \in bits THEN 1 ELSE 0)
  <2> DEFINE x == half[16 - i]
  <2>1. 16 - i \in 0..15 /\ 16 - i \in 0..29 /\ (16 - i) + 1 = 16 - (i - 1) /\ i - 1 \in 0..16 /\ i \in 0..16
    OBVIOUS
  <2>2. x \in Nat /\ f[i] = x /\ f[i - 1] = x \div 2
    BY <1>2, <2>1
  <2>3. 16 - i \in bits <=> x % 2 = 1
    BY <1>2, <2>1
  <2> HIDE DEF x, f
  <2>4. x = 2 * (x \div 2) + (IF x % 2 = 1 THEN 1 ELSE 0)
    BY <2>2
  <2> QED BY <2>2, <2>3, <2>4
<1>5. f[0] = 0 /\ f[16] = n /\ f = [i \in 0..16 |-> f[i]]
  BY <1>2, <1>3
<1> HIDE DEF f
<1>6. Is(f)
  <2>1. \A i \in 0..16 : i # 0 => i \in 1..16
    OBVIOUS
  <2>2. \A i \in 0..16 : f[i] = IF i = 0 THEN 0
                                ELSE 2 * f[i - 1] + (IF 16 - i \in bits THEN 1 ELSE 0)
    BY <1>4, <1>5, <2>1
  <2> QED BY <1>5, <2>2
<1>7. ValueOf(bits) = g[16]
  BY DEF ValueOf
<1> HIDE DEF Is
<1>8. Is(g)
  BY <1>6
<1> HIDE DEF g
<1> DEFINE S == {i \in 0..16 : g[i] = f[i]}
<1>9. 0 \in S
  <2>1. g[0] = 0
    BY <1>8 DEF Is
  <2> QED BY <1>5, <2>1
<1>10. ASSUME NEW i \in 0..16 - 1, i \in S PROVE i + 1 \in S
  <2>1. i + 1 \in 1..16 /\ i + 1 \in 0..16 /\ i + 1 # 0 /\ (i + 1) - 1 = i
    OBVIOUS
  <2>2. g[i + 1] = 2 * g[(i + 1) - 1] + (IF 16 - (i + 1) \in bits THEN 1 ELSE 0)
    BY <1>8, <2>1 DEF Is
  <2>3. f[i + 1] = 2 * f[(i + 1) - 1] + (IF 16 - (i + 1) \in bits THEN 1 ELSE 0)
    BY <1>4, <2>1
  <2>4. g[i] = f[i]
    BY <1>10
  <2>5. g[i + 1] = f[i + 1]
    BY <2>1, <2>2, <2>3, <2>4
  <2> QED BY <2>1, <2>5
<1> HIDE DEF S
<1>11. 16 \in S
  <2>1. 16 \in Nat
    OBVIOUS
  <2> QED BY <1>9, <1>10, <2>1, UpTo
<1>12. g[16] = f[16]
  BY <1>11 DEF S
<1> QED BY <1>5, <1>7, <1>12 DEF bits

(****************************** the packet format ************************)

\* A header as frame_packet is given it: the fields of struct.pack have their
\* width, the flags and the phone id are any numbers.
Framed(h) ==
  /\ h.packet_type \subseteq 0..7 /\ h.flags \subseteq Nat /\ h.phone_id \subseteq Nat
  /\ h.sequence \subseteq 0..31 /\ h.sample_rate_hz \subseteq 0..31
  /\ h.timestamp_us \subseteq 0..63 /\ h.sample_count \in Nat

\* A packet: the header, the samples and whatever checksum.
Sealed(h, samples, crc) ==
  pack(h) \cup Raised(samples, 8 * HEADER_SIZE)
    \cup Raised(crc, 8 * (HEADER_SIZE + 2 * h.sample_count))

LEMMA VersionIsByte == VERSION \subseteq 0..7
<1>1. 1 \in Nat /\ 1 < 2^8 /\ 8 \in {8, 16}
  OBVIOUS
<1>2. BitsOf(1) \subseteq 0..8 - 1
  BY <1>1, BitsBelow
<1> QED BY <1>2 DEF VERSION

LEMMA TypesAreBytes == PacketTypes \subseteq SUBSET (0..7)
<1>1. \A n \in {1, 2, 3} : n \in Nat /\ n < 2^8 /\ 8 \in {8, 16}
  OBVIOUS
<1>2. \A n \in {1, 2, 3} : BitsOf(n) \subseteq 0..8 - 1
  BY <1>1, BitsBelow
<1> QED BY <1>2 DEF PacketTypes

\* A number that is moved up has its bits that much higher.
LEMMA InRaised ==
  ASSUME NEW s, s \subseteq Int, NEW k \in Int, NEW x \in Int
  PROVE  x \in Raised(s, k) <=> x - k \in s
<1>1. ASSUME x \in Raised(s, k) PROVE x - k \in s
  <2>1. PICK i \in s : x = i + k
    BY <1>1 DEF Raised
  <2>2. i \in Int /\ x - k = i
    BY <2>1
  <2> QED BY <2>2
<1>2. ASSUME x - k \in s PROVE x \in Raised(s, k)
  <2>1. x = (x - k) + k
    OBVIOUS
  <2> QED BY <1>2, <2>1 DEF Raised
<1> QED BY <1>1, <1>2

\* Bit x is a one of the field it lies in.
IsOne(x, h, samples, crc) ==
  \/ x \in MAGIC
  \/ x - 32 \in VERSION
  \/ x - 40 \in h.packet_type
  \/ x - 48 \in h.flags \cap 0..7
  \/ x - 56 \in h.phone_id \cap 0..7
  \/ x - 64 \in h.sequence
  \/ x - 96 \in h.sample_rate_hz
  \/ x - 128 \in BitsOf(h.sample_count)
  \/ x - 176 \in h.timestamp_us
  \/ x - 240 \in samples
  \/ x - (240 + 16 * h.sample_count) \in crc

\* Which bits of a packet are one.
LEMMA SealedBits ==
  ASSUME NEW h, Framed(h), NEW samples, samples \subseteq Nat, NEW crc, crc \subseteq Nat,
         NEW x \in Int
  PROVE  x \in Sealed(h, samples, crc) <=> IsOne(x, h, samples, crc)
<1>1. 8 * HEADER_SIZE = 240 /\ 8 * (HEADER_SIZE + 2 * h.sample_count) = 240 + 16 * h.sample_count
      /\ 240 + 16 * h.sample_count \in Int
  BY DEF HEADER_SIZE, Framed
<1>2. x \in pack(h) <=>
           \/ x \in MAGIC
           \/ x \in Raised(VERSION, 32)
           \/ x \in Raised(h.packet_type, 40)
           \/ x \in Raised(h.flags \cap 0..7, 48)
           \/ x \in Raised(h.phone_id \cap 0..7, 56)
           \/ x \in Raised(h.sequence, 64)
           \/ x \in Raised(h.sample_rate_hz, 96)
           \/ x \in Raised(BitsOf(h.sample_count), 128)
           \/ x \in Raised(h.timestamp_us, 176)
  BY DEF pack
<1>3. /\ VERSION \subseteq Int /\ h.packet_type \subseteq Int
      /\ h.flags \cap 0..7 \subseteq Int /\ h.phone_id \cap 0..7 \subseteq Int
      /\ h.sequence \subseteq Int /\ h.sample_rate_hz \subseteq Int
      /\ h.timestamp_us \subseteq Int /\ samples \subseteq Int /\ crc \subseteq Int
  BY VersionIsByte DEF Framed
<1>4. BitsOf(h.sample_count) \subseteq Int
  BY DEF BitsOf
<1>5. x \in Sealed(h, samples, crc) <=>
           \/ x \in pack(h)
           \/ x \in Raised(samples, 240)
           \/ x \in Raised(crc, 240 + 16 * h.sample_count)
  BY <1>1 DEF Sealed
<1>6. x \in Raised(VERSION, 32) <=> x - 32 \in VERSION
  <2>1. VERSION \subseteq Int /\ 32 \in Int
    BY <1>3
  <2> QED BY <2>1, InRaised
<1>7. x \in Raised(h.packet_type, 40) <=> x - 40 \in h.packet_type
  <2>1. h.packet_type \subseteq Int /\ 40 \in Int
    BY <1>3, <1>4
  <2> QED BY <2>1, InRaised
<1>8. x \in Raised(h.flags \cap 0..7, 48) <=> x - 48 \in h.flags \cap 0..7
  <2>1. h.flags \cap 0..7 \subseteq Int /\ 48 \in Int
    BY <1>3, <1>4
  <2> QED BY <2>1, InRaised
<1>9. x \in Raised(h.phone_id \cap 0..7, 56) <=> x - 56 \in h.phone_id \cap 0..7
  <2>1. h.phone_id \cap 0..7 \subseteq Int /\ 56 \in Int
    BY <1>3, <1>4
  <2> QED BY <2>1, InRaised
<1>10. x \in Raised(h.sequence, 64) <=> x - 64 \in h.sequence
  <2>1. h.sequence \subseteq Int /\ 64 \in Int
    BY <1>3, <1>4
  <2> QED BY <2>1, InRaised
<1>11. x \in Raised(h.sample_rate_hz, 96) <=> x - 96 \in h.sample_rate_hz
  <2>1. h.sample_rate_hz \subseteq Int /\ 96 \in Int
    BY <1>3, <1>4
  <2> QED BY <2>1, InRaised
<1>12. x \in Raised(BitsOf(h.sample_count), 128) <=> x - 128 \in BitsOf(h.sample_count)
  <2>1. BitsOf(h.sample_count) \subseteq Int /\ 128 \in Int
    BY <1>3, <1>4
  <2> QED BY <2>1, InRaised
<1>13. x \in Raised(h.timestamp_us, 176) <=> x - 176 \in h.timestamp_us
  <2>1. h.timestamp_us \subseteq Int /\ 176 \in Int
    BY <1>3, <1>4
  <2> QED BY <2>1, InRaised
<1>14. x \in Raised(samples, 240) <=> x - 240 \in samples
  <2>1. samples \subseteq Int /\ 240 \in Int
    BY <1>3
  <2> QED BY <2>1, InRaised
<1>15. x \in Raised(crc, 240 + 16 * h.sample_count) <=> x - (240 + 16 * h.sample_count) \in crc
  <2> DEFINE k == 240 + 16 * h.sample_count
  <2>1. crc \subseteq Int /\ k \in Int
    BY <1>1, <1>3
  <2> HIDE DEF k
  <2>2. x \in Raised(crc, k) <=> x - k \in crc
    BY <2>1, InRaised
  <2> QED BY <2>2 DEF k
<1> QED BY <1>2, <1>5, <1>6, <1>7, <1>8, <1>9, <1>10, <1>11, <1>12, <1>13, <1>14, <1>15
        DEF IsOne

\* A field is read where its bits lie.
LEMMA FieldReads ==
  ASSUME NEW s, NEW f, NEW k \in Int, NEW w \in Nat,
         \A x \in k..k + w - 1 : x \in s <=> x - k \in f
  PROVE  Field(s, k, w) = f \cap 0..w - 1
<1>1. ASSUME NEW i \in 0..w - 1 PROVE i + k \in s <=> i \in f
  <2>1. i + k \in k..k + w - 1 /\ (i + k) - k = i
    OBVIOUS
  <2>2. i + k \in s <=> (i + k) - k \in f
    BY <2>1
  <2> QED BY <2>1, <2>2
<1> QED BY <1>1 DEF Field

\* What frame_packet makes is such a packet.
LEMMA FrameIsSealed ==
  ASSUME NEW h, NEW samples
  PROVE  \E crc : frame_packet(h, samples).bits = Sealed(h, samples, crc)
  BY DEF frame_packet, Sealed

\* Every field of every header reads back as it was framed, whatever the samples
\* and the checksum are: sequence numbers over the whole of 32 bits and times over
\* the whole of 64, phone ids and flags cut to a byte; and so do the samples
\* (protocol.py 80-177).
THEOREM HeadersReadBack ==
  ASSUME NEW h, Framed(h), NEW samples, samples \subseteq 0..16 * h.sample_count - 1,
         NEW crc, crc \subseteq Nat
  PROVE  LET bits == Sealed(h, samples, crc)
         IN  /\ Field(bits, 0, 32) = MAGIC /\ Field(bits, 32, 8) = VERSION
             /\ parse_header(bits) =
                  [packet_type |-> h.packet_type, flags |-> h.flags \cap 0..7,
                   phone_id |-> h.phone_id \cap 0..7, sequence |-> h.sequence,
                   sample_rate_hz |-> h.sample_rate_hz,
                   sample_count |-> ValueOf(BitsOf(h.sample_count) \cap 0..15),
                   timestamp_us |-> h.timestamp_us]
             /\ Field(bits, 8 * HEADER_SIZE, 16 * h.sample_count) = samples
<1> DEFINE bits == Sealed(h, samples, crc)
           n == 16 * h.sample_count
<1>1. /\ h.packet_type \subseteq 0..7 /\ h.sequence \subseteq 0..31
      /\ h.sample_rate_hz \subseteq 0..31 /\ h.timestamp_us \subseteq 0..63
      /\ n \in Nat /\ samples \subseteq Nat
  BY DEF Framed
<1>2. MAGIC \subseteq 0..30 /\ VERSION \subseteq 0..7 /\ BitsOf(h.sample_count) \subseteq 0..30
  BY VersionIsByte DEF MAGIC, BitsOf
<1>3. ASSUME NEW x \in Int
      PROVE  /\ 0 <= x /\ x <= 31 => (x \in bits <=> x - 0 \in MAGIC)
             /\ 32 <= x /\ x <= 39 => (x \in bits <=> x - 32 \in VERSION)
             /\ 40 <= x /\ x <= 47 => (x \in bits <=> x - 40 \in h.packet_type)
             /\ 48 <= x /\ x <= 55 => (x \in bits <=> x - 48 \in h.flags \cap 0..7)
             /\ 56 <= x /\ x <= 63 => (x \in bits <=> x - 56 \in h.phone_id \cap 0..7)
             /\ 64 <= x /\ x <= 95 => (x \in bits <=> x - 64 \in h.sequence)
             /\ 96 <= x /\ x <= 127 => (x \in bits <=> x - 96 \in h.sample_rate_hz)
             /\ 128 <= x /\ x <= 143 => (x \in bits <=> x - 128 \in BitsOf(h.sample_count))
             /\ 176 <= x /\ x <= 239 => (x \in bits <=> x - 176 \in h.timestamp_us)
             /\ 240 <= x /\ x <= 240 + n - 1 => (x \in bits <=> x - 240 \in samples)
  <2>1. x \in bits <=>
               \/ x - 0 \in MAGIC
               \/ x - 32 \in VERSION
               \/ x - 40 \in h.packet_type
               \/ x - 48 \in h.flags \cap 0..7
               \/ x - 56 \in h.phone_id \cap 0..7
               \/ x - 64 \in h.sequence
               \/ x - 96 \in h.sample_rate_hz
               \/ x - 128 \in BitsOf(h.sample_count)
               \/ x - 176 \in h.timestamp_us
               \/ x - 240 \in samples
               \/ x - (240 + n) \in crc
    <3>1. x - 0 = x
      OBVIOUS
    <3>2. samples \subseteq Nat
      BY <1>1
    <3>3. x \in bits <=> IsOne(x, h, samples, crc)
      BY <3>2, SealedBits
    <3> QED BY <3>1, <3>3 DEF IsOne
  <2> HIDE DEF bits, n
  <2>2. x - 0 \in MAGIC => 0 <= x /\ x <= 30
    BY <1>1, <1>2
  <2>3. x - 32 \in VERSION => 32 <= x /\ x <= 39
    BY <1>1, <1>2
  <2>4. x - 40 \in h.packet_type => 40 <= x /\ x <= 47
    BY <1>1, <1>2
  <2>5. x - 48 \in h.flags \cap 0..7 => 48 <= x /\ x <= 55
    BY <1>1, <1>2
  <2>6. x - 56 \in h.phone_id \cap 0..7 => 56 <= x /\ x <= 63
    BY <1>1, <1>2
  <2>7. x - 64 \in h.sequence => 64 <= x /\ x <= 95
    BY <1>1, <1>2
  <2>8. x - 96 \in h.sample_rate_hz => 96 <= x /\ x <= 127
    BY <1>1, <1>2
  <2>9. x - 128 \in BitsOf(h.sample_count) => 128 <= x /\ x <= 158
    BY <1>1, <1>2
  <2>10. x - 176 \in h.timestamp_us => 176 <= x /\ x <= 239
    BY <1>1, <1>2
  <2>11. x - 240 \in samples => 240 <= x /\ x <= 240 + n - 1
    <3>1. samples \subseteq 0..n - 1
      BY DEF n
    <3> QED BY <1>1, <3>1
  <2>12. x - (240 + n) \in crc => 240 + n <= x
    <3>1. ASSUME x - (240 + n) \in crc PROVE x - (240 + n) \in Nat
      BY <3>1
    <3> QED BY <1>1, <3>1
  <2>13. 0 <= x /\ x <= 31 => (x \in bits <=> x - 0 \in MAGIC)
    BY <1>1, <2>1, <2>2, <2>3, <2>4, <2>5, <2>6, <2>7, <2>8, <2>9, <2>10, <2>11, <2>12
  <2>14. 32 <= x /\ x <= 39 => (x \in bits <=> x - 32 \in VERSION)
    BY <1>1, <2>1, <2>2, <2>3, <2>4, <2>5, <2>6, <2>7, <2>8, <2>9, <2>10, <2>11, <2>12
  <2>15. 40 <= x /\ x <= 47 => (x \in bits <=> x - 40 \in h.packet_type)
    BY <1>1, <2>1, <2>2, <2>3, <2>4, <2>5, <2>6, <2>7, <2>8, <2>9, <2>10, <2>11, <2>12
  <2>16. 48 <= x /\ x <= 55 => (x \in bits <=> x - 48 \in h.flags \cap 0..7)
    BY <1>1, <2>1, <2>2, <2>3, <2>4, <2>5, <2>6, <2>7, <2>8, <2>9, <2>10, <2>11, <2>12
  <2>17. 56 <= x /\ x <= 63 => (x \in bits <=> x - 56 \in h.phone_id \cap 0..7)
    BY <1>1, <2>1, <2>2, <2>3, <2>4, <2>5, <2>6, <2>7, <2>8, <2>9, <2>10, <2>11, <2>12
  <2>18. 64 <= x /\ x <= 95 => (x \in bits <=> x - 64 \in h.sequence)
    BY <1>1, <2>1, <2>2, <2>3, <2>4, <2>5, <2>6, <2>7, <2>8, <2>9, <2>10, <2>11, <2>12
  <2>19. 96 <= x /\ x <= 127 => (x \in bits <=> x - 96 \in h.sample_rate_hz)
    BY <1>1, <2>1, <2>2, <2>3, <2>4, <2>5, <2>6, <2>7, <2>8, <2>9, <2>10, <2>11, <2>12
  <2>20. 128 <= x /\ x <= 143 => (x \in bits <=> x - 128 \in BitsOf(h.sample_count))
    BY <1>1, <2>1, <2>2, <2>3, <2>4, <2>5, <2>6, <2>7, <2>8, <2>9, <2>10, <2>11, <2>12
  <2>21. 176 <= x /\ x <= 239 => (x \in bits <=> x - 176 \in h.timestamp_us)
    BY <1>1, <2>1, <2>2, <2>3, <2>4, <2>5, <2>6, <2>7, <2>8, <2>9, <2>10, <2>11, <2>12
  <2>22. 240 <= x /\ x <= 240 + n - 1 => (x \in bits <=> x - 240 \in samples)
    BY <1>1, <2>1, <2>2, <2>3, <2>4, <2>5, <2>6, <2>7, <2>8, <2>9, <2>10, <2>11, <2>12
  <2> QED BY <2>13, <2>14, <2>15, <2>16, <2>17, <2>18, <2>19, <2>20, <2>21, <2>22
<1> HIDE DEF bits, n
<1>5. Field(bits, 0, 32) = MAGIC
  <2>1. \A x \in 0..0 + 32 - 1 : x \in bits <=> x - 0 \in MAGIC
    BY <1>1, <1>3
  <2>2. Field(bits, 0, 32) = MAGIC \cap 0..32 - 1
    BY <2>1, FieldReads
  <2>3. MAGIC \subseteq 0..32 - 1
    BY <1>1, <1>2
  <2> QED BY <2>2, <2>3
<1>6. Field(bits, 32, 8) = VERSION
  <2>1. \A x \in 32..32 + 8 - 1 : x \in bits <=> x - 32 \in VERSION
    BY <1>1, <1>3
  <2>2. Field(bits, 32, 8) = VERSION \cap 0..8 - 1
    BY <2>1, FieldReads
  <2>3. VERSION \subseteq 0..8 - 1
    BY <1>1, <1>2
  <2> QED BY <2>2, <2>3
<1>7. Field(bits, 40, 8) = h.packet_type
  <2>1. \A x \in 40..40 + 8 - 1 : x \in bits <=> x - 40 \in h.packet_type
    BY <1>1, <1>3
  <2>2. Field(bits, 40, 8) = h.packet_type \cap 0..8 - 1
    BY <2>1, FieldReads
  <2>3. h.packet_type \subseteq 0..8 - 1
    BY <1>1, <1>2
  <2> QED BY <2>2, <2>3
<1>8. Field(bits, 48, 8) = h.flags \cap 0..7
  <2>1. \A x \in 48..48 + 8 - 1 : x \in bits <=> x - 48 \in h.flags \cap 0..7
    BY <1>1, <1>3
  <2>2. Field(bits, 48, 8) = (h.flags \cap 0..7) \cap 0..8 - 1
    BY <2>1, FieldReads
  <2>3. h.flags \cap 0..7 \subseteq 0..8 - 1
    BY <1>1, <1>2
  <2> QED BY <2>2, <2>3
<1>9. Field(bits, 56, 8) = h.phone_id \cap 0..7
  <2>1. \A x \in 56..56 + 8 - 1 : x \in bits <=> x - 56 \in h.phone_id \cap 0..7
    BY <1>1, <1>3
  <2>2. Field(bits, 56, 8) = (h.phone_id \cap 0..7) \cap 0..8 - 1
    BY <2>1, FieldReads
  <2>3. h.phone_id \cap 0..7 \subseteq 0..8 - 1
    BY <1>1, <1>2
  <2> QED BY <2>2, <2>3
<1>10. Field(bits, 64, 32) = h.sequence
  <2>1. \A x \in 64..64 + 32 - 1 : x \in bits <=> x - 64 \in h.sequence
    BY <1>1, <1>3
  <2>2. Field(bits, 64, 32) = h.sequence \cap 0..32 - 1
    BY <2>1, FieldReads
  <2>3. h.sequence \subseteq 0..32 - 1
    BY <1>1, <1>2
  <2> QED BY <2>2, <2>3
<1>11. Field(bits, 96, 32) = h.sample_rate_hz
  <2>1. \A x \in 96..96 + 32 - 1 : x \in bits <=> x - 96 \in h.sample_rate_hz
    BY <1>1, <1>3
  <2>2. Field(bits, 96, 32) = h.sample_rate_hz \cap 0..32 - 1
    BY <2>1, FieldReads
  <2>3. h.sample_rate_hz \subseteq 0..32 - 1
    BY <1>1, <1>2
  <2> QED BY <2>2, <2>3
<1>12. Field(bits, 128, 16) = BitsOf(h.sample_count) \cap 0..15
  <2>1. \A x \in 128..128 + 16 - 1 : x \in bits <=> x - 128 \in BitsOf(h.sample_count)
    BY <1>1, <1>3
  <2>2. Field(bits, 128, 16) = BitsOf(h.sample_count) \cap 0..16 - 1
    BY <2>1, FieldReads
  <2>3. 0..16 - 1 = 0..15
    OBVIOUS
  <2> QED BY <2>2, <2>3
<1>13. Field(bits, 176, 64) = h.timestamp_us
  <2>1. \A x \in 176..176 + 64 - 1 : x \in bits <=> x - 176 \in h.timestamp_us
    BY <1>1, <1>3
  <2>2. Field(bits, 176, 64) = h.timestamp_us \cap 0..64 - 1
    BY <2>1, FieldReads
  <2>3. h.timestamp_us \subseteq 0..64 - 1
    BY <1>1, <1>2
  <2> QED BY <2>2, <2>3
<1>14. Field(bits, 240, n) = samples
  <2>1. \A x \in 240..240 + n - 1 : x \in bits <=> x - 240 \in samples
    BY <1>1, <1>3
  <2>2. Field(bits, 240, n) = samples \cap 0..n - 1
    BY <1>1, <2>1, FieldReads
  <2>3. samples \subseteq 0..n - 1
    BY DEF n
  <2> QED BY <2>2, <2>3
<1>15. parse_header(bits) =
         [packet_type |-> h.packet_type, flags |-> h.flags \cap 0..7,
          phone_id |-> h.phone_id \cap 0..7, sequence |-> h.sequence,
          sample_rate_hz |-> h.sample_rate_hz,
          sample_count |-> ValueOf(BitsOf(h.sample_count) \cap 0..15),
          timestamp_us |-> h.timestamp_us]
  BY <1>7, <1>8, <1>9, <1>10, <1>11, <1>12, <1>13 DEF parse_header
<1>16. 8 * HEADER_SIZE = 240
  BY DEF HEADER_SIZE
<1> QED BY <1>5, <1>6, <1>14, <1>15, <1>16 DEF bits, n


(******************** what is framed is verified *************************)

\* The number of samples that a header is read to have.
LEMMA ValueIsNat ==
  ASSUME NEW s
  PROVE  ValueOf(s) \in Nat
<1> DEFINE Is(f) == f = [i \in 0..16 |-> IF i = 0 THEN 0
                                         ELSE 2 * f[i - 1] + (IF 16 - i \in s THEN 1 ELSE 0)]
           F == [p \in (1..16) \X Nat |-> 2 * p[2] + (IF 16 - p[1] \in s THEN 1 ELSE 0)]
           g == CHOOSE f : Is(f)
<1>1. F \in [(1..16) \X Nat -> Nat] /\ 16 \in Nat
  OBVIOUS
<1>2. PICK f : Run(f, Nat, 0, 16, F)
  <2> HIDE DEF F
  <2> QED BY <1>1, RunExists
<1> HIDE DEF Is, g
<1>3. f \in [0..16 -> Nat] /\ f[0] = 0
      /\ \A i \in 1..16 : f[i] = 2 * f[i - 1] + (IF 16 - i \in s THEN 1 ELSE 0)
  <2> HIDE DEF F
  <2>1. \A i \in 1..16 : f[i - 1] \in Nat
    BY <1>2 DEF Run
  <2>2. \A i \in 1..16 : F[<<i, f[i - 1]>>] = 2 * f[i - 1] + (IF 16 - i \in s THEN 1 ELSE 0)
    BY <2>1 DEF F
  <2> QED BY <1>2, <2>2 DEF Run
<1>4. Is(f)
  <2>1. \A i \in 0..16 : i # 0 => i \in 1..16
    OBVIOUS
  <2>2. f = [i \in 0..16 |-> f[i]]
    BY <1>3
  <2>3. \A i \in 0..16 : f[i] = IF i = 0 THEN 0
                                ELSE 2 * f[i - 1] + (IF 16 - i \in s THEN 1 ELSE 0)
    BY <1>3, <2>1
  <2> QED BY <2>2, <2>3 DEF Is
<1>5. Is(g)
  BY <1>4 DEF g
<1>6. ValueOf(s) = g[16]
  BY DEF ValueOf, Is, g
<1> DEFINE S == {i \in 0..16 : g[i] \in Nat}
<1>7. 0 \in S
  BY <1>5 DEF Is
<1>8. ASSUME NEW i \in 0..16 - 1, i \in S PROVE i + 1 \in S
  <2>1. i + 1 \in 0..16 /\ i + 1 # 0 /\ (i + 1) - 1 = i
    OBVIOUS
  <2>2. g[i + 1] = 2 * g[i] + (IF 16 - (i + 1) \in s THEN 1 ELSE 0)
    BY <1>5, <2>1 DEF Is
  <2> QED BY <1>8, <2>1, <2>2
<1> HIDE DEF S
<1>9. 16 \in S
  BY <1>1, <1>7, <1>8, UpTo
<1> QED BY <1>6, <1>9 DEF S

\* A packet that is accepted has the size that its header says, and ends in the
\* checksum of the rest.
LEMMA VerifiedSize ==
  ASSUME NEW packet, Verified(packet)
  PROVE  LET n == parse_header(packet.bits).sample_count
             size == HEADER_SIZE + 2 * n
         IN  /\ n \in Nat /\ packet.size = 34 + 2 * n /\ size \in Nat
             /\ Field(packet.bits, 8 * size, 32) = crc32c(packet.bits, size)
<1> DEFINE n == parse_header(packet.bits).sample_count
<1>1. n \in Nat
  <2>1. n = ValueOf(Field(packet.bits, 128, 16))
    BY DEF parse_header
  <2> QED BY <2>1, ValueIsNat
<1>2. /\ packet.size = HEADER_SIZE + 2 * n + CRC_SIZE
      /\ Field(packet.bits, 8 * (HEADER_SIZE + 2 * n), 32) = crc32c(packet.bits, HEADER_SIZE + 2 * n)
  BY DEF Verified, LengthFits
<1> HIDE DEF n
<1>3. HEADER_SIZE + 2 * n \in Nat /\ HEADER_SIZE + 2 * n + CRC_SIZE = 34 + 2 * n
  BY <1>1 DEF HEADER_SIZE, CRC_SIZE
<1> QED BY <1>1, <1>2, <1>3 DEF n

\* Bits before the checksum are those of the packet without one; from there on they
\* are the checksum's.
LEMMA SealedApart ==
  ASSUME NEW h, Framed(h), NEW samples, samples \subseteq 0..16 * h.sample_count - 1,
         NEW crc, crc \subseteq Nat, NEW x \in Nat
  PROVE  LET m == 240 + 16 * h.sample_count
         IN  /\ x < m => (x \in Sealed(h, samples, crc) <=> x \in Sealed(h, samples, {}))
             /\ x >= m => (x \in Sealed(h, samples, crc) <=> x - m \in crc)
<1> DEFINE n == 16 * h.sample_count
           m == 240 + n
<1>1. /\ h.packet_type \subseteq 0..7 /\ h.sequence \subseteq 0..31
      /\ h.sample_rate_hz \subseteq 0..31 /\ h.timestamp_us \subseteq 0..63
      /\ n \in Nat /\ samples \subseteq 0..n - 1
  BY DEF Framed
<1>2. MAGIC \subseteq 0..30 /\ VERSION \subseteq 0..7 /\ BitsOf(h.sample_count) \subseteq 0..30
  BY VersionIsByte DEF MAGIC, BitsOf
<1>3. x \in Sealed(h, samples, crc) <=> IsOne(x, h, samples, crc)
  <2>1. samples \subseteq Nat /\ x \in Int
    BY <1>1
  <2> QED BY <2>1, SealedBits
<1>4. x \in Sealed(h, samples, {}) <=> IsOne(x, h, samples, {})
  <2>1. samples \subseteq Nat /\ x \in Int /\ {} \subseteq Nat
    BY <1>1
  <2> QED BY <2>1, SealedBits
<1> DEFINE lower == \/ x \in MAGIC
                    \/ x - 32 \in VERSION
                    \/ x - 40 \in h.packet_type
                    \/ x - 48 \in h.flags \cap 0..7
                    \/ x - 56 \in h.phone_id \cap 0..7
                    \/ x - 64 \in h.sequence
                    \/ x - 96 \in h.sample_rate_hz
                    \/ x - 128 \in BitsOf(h.sample_count)
                    \/ x - 176 \in h.timestamp_us
                    \/ x - 240 \in samples
<1>5. (IsOne(x, h, samples, crc) <=> lower \/ x - m \in crc) /\ (IsOne(x, h, samples, {}) <=> lower)
  BY DEF IsOne
<1> HIDE DEF n
<1>6. lower => x < m
  <2>1. x \in MAGIC => x < m
    BY <1>1, <1>2
  <2>2. x - 32 \in VERSION => x < m
    BY <1>1, <1>2
  <2>3. x - 40 \in h.packet_type \/ x - 48 \in h.flags \cap 0..7 \/ x - 56 \in h.phone_id \cap 0..7 => x < m
    BY <1>1
  <2>4. x - 64 \in h.sequence \/ x - 96 \in h.sample_rate_hz => x < m
    BY <1>1
  <2>5. x - 128 \in BitsOf(h.sample_count) \/ x - 176 \in h.timestamp_us => x < m
    BY <1>1, <1>2
  <2>6. x - 240 \in samples => x < m
    BY <1>1
  <2> QED BY <2>1, <2>2, <2>3, <2>4, <2>5, <2>6
<1>7. x - m \in crc => x >= m
  BY <1>1
<1> HIDE DEF lower, m
<1>8. m \in Nat /\ (x < m <=> ~(x >= m))
  BY <1>1 DEF m
<1> QED BY <1>3, <1>4, <1>5, <1>6, <1>7, <1>8 DEF m, n

\* What frame_packet makes of a header and its samples is accepted at the other end,
\* and is read there as it was: the checksum that verify_packet computes over the
\* packet is the one that was computed before it was appended (protocol.py 120-177).
THEOREM FramedIsVerified ==
  ASSUME NEW h, Framed(h), h.packet_type \in PacketTypes, Frameable(h),
         NEW samples, samples \subseteq 0..16 * h.sample_count - 1
  PROVE  LET packet == frame_packet(h, samples)
         IN  /\ Verified(packet)
             /\ parse_header(packet.bits) =
                  [packet_type |-> h.packet_type, flags |-> h.flags \cap 0..7,
                   phone_id |-> h.phone_id \cap 0..7, sequence |-> h.sequence,
                   sample_rate_hz |-> h.sample_rate_hz, sample_count |-> h.sample_count,
                   timestamp_us |-> h.timestamp_us]
             /\ payload(packet) = samples
<1> DEFINE n == h.sample_count
           body == Sealed(h, samples, {})
           size == HEADER_SIZE + 2 * n
           crc == crc32c(body, size)
           bits == Sealed(h, samples, crc)
           packet == frame_packet(h, samples)
<1>1. n \in Nat /\ n <= 16384 /\ n < 65536 /\ size = 30 + 2 * n /\ size \in Nat
      /\ 8 * size = 240 + 16 * n
  BY DEF Framed, Frameable, MAX_PAYLOAD_SAMPLES, HEADER_SIZE
<1>2. packet = [size |-> size + CRC_SIZE, bits |-> bits]
  <2>1. pack(h) \cup Raised(samples, 8 * HEADER_SIZE) = body
    BY DEF Sealed, Raised
  <2> QED BY <2>1 DEF frame_packet, Sealed
<1>3. crc \in Word /\ crc \subseteq Nat
  <2>1. crc \in Word
    <3> HIDE DEF body, size
    <3> QED BY <1>1, CrcOfPrefix
  <2> HIDE DEF crc
  <2> QED BY <2>1 DEF Word
<1> HIDE DEF crc
<1>4. /\ Field(bits, 0, 32) = MAGIC /\ Field(bits, 32, 8) = VERSION
      /\ parse_header(bits) =
           [packet_type |-> h.packet_type, flags |-> h.flags \cap 0..7,
            phone_id |-> h.phone_id \cap 0..7, sequence |-> h.sequence,
            sample_rate_hz |-> h.sample_rate_hz,
            sample_count |-> ValueOf(BitsOf(n) \cap 0..15),
            timestamp_us |-> h.timestamp_us]
      /\ Field(bits, 8 * HEADER_SIZE, 16 * n) = samples
  BY <1>3, HeadersReadBack
<1>5. ValueOf(BitsOf(n) \cap 0..15) = n
  BY <1>1, ValueOfBits
<1>6. ASSUME NEW x \in Nat
      PROVE  /\ x < 8 * size => (x \in bits <=> x \in body)
             /\ x >= 8 * size => (x \in bits <=> x - 8 * size \in crc)
  <2> DEFINE m == 240 + 16 * h.sample_count
  <2>1. /\ x < m => (x \in bits <=> x \in body)
        /\ x >= m => (x \in bits <=> x - m \in crc)
    BY <1>3, SealedApart
  <2>2. m = 8 * size
    BY <1>1
  <2> HIDE DEF bits, body, size, m, crc
  <2>3. x < m => (x \in bits <=> x \in body)
    BY <2>1
  <2>4. x >= m => (x \in bits <=> x - m \in crc)
    BY <2>1
  <2> QED BY <2>2, <2>3, <2>4
<1> HIDE DEF bits, body, size, packet, n
<1>8. crc32c(bits, size) = crc
  <2>1. \A t \in 0..8 * size - 1 : t \in bits <=> t \in body
    BY <1>1, <1>6
  <2> QED BY <1>1, <2>1, CrcOfPrefix DEF crc
<1>9. Field(bits, 8 * size, 32) = crc
  <2>1. 8 * size \in Int /\ 8 * size \in Nat /\ 32 \in Nat
    BY <1>1
  <2>2. \A x \in 8 * size..8 * size + 32 - 1 : x \in Nat /\ x >= 8 * size
    BY <2>1
  <2>3. \A x \in 8 * size..8 * size + 32 - 1 : x \in bits <=> x - 8 * size \in crc
    BY <1>6, <2>2
  <2> DEFINE at == 8 * size
  <2> HIDE DEF at
  <2>4. Field(bits, at, 32) = crc \cap 0..32 - 1
    BY <2>1, <2>3, FieldReads DEF at
  <2>5. crc \subseteq 0..32 - 1
    BY <1>3 DEF Word
  <2> QED BY <2>4, <2>5 DEF at
<1>10. /\ packet.size = size + CRC_SIZE /\ packet.bits = bits
       /\ parse_header(bits).sample_count = n
  BY <1>2, <1>4, <1>5
<1>11. Field(bits, 40, 8) \in PacketTypes
  <2>1. parse_header(bits).packet_type = Field(bits, 40, 8)
    BY DEF parse_header
  <2> QED BY <1>4, <2>1
<1>12. packet.size >= HEADER_SIZE + CRC_SIZE /\ packet.size >= HEADER_SIZE
  BY <1>1, <1>10 DEF HEADER_SIZE, CRC_SIZE
<1>13. HeaderAccepted(packet)
  BY <1>1, <1>4, <1>10, <1>11, <1>12 DEF HeaderAccepted, MAX_PAYLOAD_SAMPLES
<1>14. Verified(packet)
  BY <1>8, <1>9, <1>10, <1>12, <1>13 DEF Verified, LengthFits, size
<1>15. payload(packet) = samples
  BY <1>4, <1>10 DEF payload
<1> QED BY <1>4, <1>5, <1>10, <1>14, <1>15 DEF packet, n

\* No burst of up to 32 flipped bits turns an accepted packet into another that is
\* accepted, wherever it strikes, its header and its checksum included: the
\* Castagnoli polynomial has its full degree, and a header whose sample count was
\* struck no longer fits the size (protocol.py 155-171, 184-207).
THEOREM BurstsAreSeen ==
  ASSUME NEW packet, NEW other, other.size = packet.size,
         NEW j \in 0..8 * packet.size - 1, Burst(packet.bits, other.bits, j),
         Verified(packet), Verified(other)
  PROVE  FALSE
<1> DEFINE n == parse_header(packet.bits).sample_count
           k == parse_header(other.bits).sample_count
           size == HEADER_SIZE + 2 * n
<1>1. /\ n \in Nat /\ packet.size = 34 + 2 * n /\ size \in Nat
      /\ Field(packet.bits, 8 * size, 32) = crc32c(packet.bits, size)
  BY VerifiedSize
<1>2. /\ k \in Nat /\ other.size = 34 + 2 * k
      /\ Field(other.bits, 8 * (HEADER_SIZE + 2 * k), 32) = crc32c(other.bits, HEADER_SIZE + 2 * k)
  BY VerifiedSize
<1> HIDE DEF n, k
<1>3. k = n
  BY <1>1, <1>2
<1>4. Field(other.bits, 8 * size, 32) = crc32c(other.bits, size)
  BY <1>2, <1>3
<1>5. j \in 0..8 * size + 31
  BY <1>1 DEF HEADER_SIZE
<1> HIDE DEF size
<1> QED BY <1>1, <1>4, <1>5, BurstIsSeen

\* Nor is a packet accepted that was cut short or has grown.
THEOREM OtherSizesAreRefused ==
  ASSUME NEW packet, Verified(packet), NEW size \in Nat, size # packet.size
  PROVE  ~Verified([size |-> size, bits |-> packet.bits \cap 0..8 * size - 1])
<1> DEFINE other == [size |-> size, bits |-> packet.bits \cap 0..8 * size - 1]
<1> SUFFICES ASSUME Verified(other) PROVE FALSE
  OBVIOUS
<1> DEFINE n == parse_header(packet.bits).sample_count
           k == parse_header(other.bits).sample_count
<1>1. n \in Nat /\ packet.size = 34 + 2 * n
  BY VerifiedSize
<1>2. k \in Nat /\ other.size = 34 + 2 * k
  BY VerifiedSize
<1>3. Field(other.bits, 128, 16) = Field(packet.bits, 128, 16)
  <2>1. size >= 34
    BY <1>2
  <2>2. \A i \in 0..15 : i + 128 \in 0..8 * size - 1
    BY <2>1
  <2>3. \A i \in 0..15 : i + 128 \in other.bits <=> i + 128 \in packet.bits
    BY <2>2
  <2> QED BY <2>3 DEF Field
<1>4. k = n
  BY <1>3 DEF parse_header
<1> QED BY <1>1, <1>2, <1>4

(************************ one packet on the wire *************************)

WireSpec == WireInit /\ [][WireNext]_wire

\* The packet is the framed one, or has been altered and is refused.
WireInv ==
  /\ wire \in [header : SUBSET Headers, packet : [size : Nat, bits : SUBSET Nat],
               altered : BOOLEAN]
  /\ \A h \in wire.header :
       /\ Frameable(h)
       /\ ~wire.altered => wire.packet = frame_packet(h, Samples(h.sample_count))
       /\ wire.altered => ~Verified(wire.packet)

LEMMA HeaderIsFramed ==
  ASSUME NEW h \in Headers
  PROVE  /\ Framed(h) /\ h.packet_type \in PacketTypes
         /\ Samples(h.sample_count) \subseteq 0..16 * h.sample_count - 1
<1>1. h \in [packet_type : PacketTypes, flags : SUBSET Nat, phone_id : SUBSET Nat,
             sequence : SUBSET (0..31), sample_rate_hz : SUBSET (0..31),
             sample_count : Nat, timestamp_us : SUBSET (0..63)]
  BY WireAssumption
<1>2. h.packet_type \subseteq 0..7
  BY <1>1, TypesAreBytes
<1> QED BY <1>1, <1>2 DEF Framed, Samples

\* A framed packet is a number of bytes, and its bits are numbered from 0.
LEMMA FrameTyped ==
  ASSUME NEW h \in Headers
  PROVE  frame_packet(h, Samples(h.sample_count)) \in [size : Nat, bits : SUBSET Nat]
<1> DEFINE n == h.sample_count
           samples == Samples(n)
           size == HEADER_SIZE + 2 * n
           body == pack(h) \cup Raised(samples, 8 * HEADER_SIZE)
           crc == crc32c(body, size)
<1>1. Framed(h) /\ samples \subseteq 0..16 * n - 1
  BY HeaderIsFramed
<1>2. n \in Nat /\ size \in Nat /\ size + CRC_SIZE \in Nat /\ 8 * size \in Nat
  BY <1>1 DEF Framed, HEADER_SIZE, CRC_SIZE
<1>3. ASSUME NEW s \in SUBSET Nat, NEW k \in Nat PROVE Raised(s, k) \subseteq Nat
  <2>1. \A i \in s : i + k \in Nat
    OBVIOUS
  <2> QED BY <2>1 DEF Raised
<1>4. crc \subseteq Nat
  <2>1. crc \in Word
    <3> HIDE DEF body, size
    <3> QED BY <1>2, CrcOfPrefix
  <2> HIDE DEF crc
  <2> QED BY <2>1 DEF Word
<1>5. pack(h) \subseteq Nat
  <2>1. /\ VERSION \subseteq Nat /\ h.packet_type \subseteq Nat /\ h.flags \cap 0..7 \subseteq Nat
        /\ h.phone_id \cap 0..7 \subseteq Nat /\ h.sequence \subseteq Nat
        /\ h.sample_rate_hz \subseteq Nat /\ h.timestamp_us \subseteq Nat
    BY <1>1, VersionIsByte DEF Framed
  <2>2. MAGIC \subseteq Nat /\ BitsOf(n) \subseteq Nat
    BY DEF MAGIC, BitsOf
  <2> DEFINE fields == {MAGIC, Raised(VERSION, 32), Raised(h.packet_type, 40),
                        Raised(h.flags \cap 0..7, 48), Raised(h.phone_id \cap 0..7, 56),
                        Raised(h.sequence, 64), Raised(h.sample_rate_hz, 96),
                        Raised(BitsOf(n), 128), Raised(h.timestamp_us, 176)}
  <2>3. \A s \in fields : s \subseteq Nat
    BY <1>3, <2>1, <2>2
  <2>4. pack(h) = UNION fields
    BY DEF pack
  <2> HIDE DEF fields
  <2> QED BY <2>3, <2>4
<1>6. Raised(samples, 8 * HEADER_SIZE) \subseteq Nat /\ Raised(crc, 8 * size) \subseteq Nat
  <2>1. samples \subseteq Nat /\ 8 * HEADER_SIZE \in Nat
    BY <1>1 DEF HEADER_SIZE
  <2> HIDE DEF samples, crc, size
  <2> QED BY <1>2, <1>3, <1>4, <2>1
<1>7. frame_packet(h, samples) =
        [size |-> size + CRC_SIZE, bits |-> body \cup Raised(crc, 8 * size)]
  BY DEF frame_packet
<1> HIDE DEF crc, size, samples
<1> QED BY <1>2, <1>5, <1>6, <1>7 DEF samples, n

LEMMA WireStarts == WireInit => WireInv
  BY DEF WireInit, WireInv

LEMMA WireMoves == WireInv /\ [WireNext]_wire => WireInv'
<1> SUFFICES ASSUME WireInv, [WireNext]_wire PROVE WireInv'
  OBVIOUS
<1>0. wire \in [header : SUBSET Headers, packet : [size : Nat, bits : SUBSET Nat],
                altered : BOOLEAN]
  BY DEF WireInv
\* What happens to an altered packet: both kinds.
<1>1. ASSUME NEW p \in [size : Nat, bits : SUBSET Nat], Altered(p),
             \A h \in wire.header : ~Verified(p)
      PROVE  WireInv'
  <2>1. /\ wire' \in [header : SUBSET Headers, packet : [size : Nat, bits : SUBSET Nat],
                      altered : BOOLEAN]
        /\ wire'.header = wire.header /\ wire'.altered = TRUE /\ wire'.packet = p
    BY <1>0, <1>1 DEF Altered
  <2> QED BY <1>1, <2>1 DEF WireInv
<1>2. ASSUME ~wire.altered, NEW h \in wire.header
      PROVE  Verified(wire.packet)
  <2>1. h \in Headers /\ Frameable(h) /\ wire.packet = frame_packet(h, Samples(h.sample_count))
    BY <1>0, <1>2 DEF WireInv
  <2> QED BY <2>1, HeaderIsFramed, FramedIsVerified
<1>3. ASSUME NEW h \in Headers, Send(h) PROVE WireInv'
  <2>1. wire' = [header |-> {h}, packet |-> frame_packet(h, Samples(h.sample_count)),
                 altered |-> FALSE]
        /\ Frameable(h)
    BY <1>3 DEF Send
  <2>2. frame_packet(h, Samples(h.sample_count)) \in [size : Nat, bits : SUBSET Nat]
    BY FrameTyped
  <2> QED BY <2>1, <2>2 DEF WireInv
<1>4. ASSUME NEW n \in Bursts, NEW from \in 0..8 * wire.packet.size, FlipBits(from, n)
      PROVE  WireInv'
  <2> DEFINE p == wire.packet
             q == [p EXCEPT !.bits = SymDiff(@, from..from + n - 1)]
  <2>1. n \in 1..32 /\ p \in [size : Nat, bits : SUBSET Nat]
        /\ ~wire.altered /\ from + n <= 8 * p.size /\ Altered(q)
    BY <1>0, <1>4, WireAssumption DEF FlipBits
  <2>2. /\ q \in [size : Nat, bits : SUBSET Nat] /\ q.size = p.size
        /\ q.bits = SymDiff(p.bits, from..from + n - 1)
    <3>1. q = [size |-> p.size, bits |-> SymDiff(p.bits, from..from + n - 1)]
      BY <2>1
    <3>2. SymDiff(p.bits, from..from + n - 1) \subseteq Nat
      <4>1. p.size \in Nat /\ p.bits \subseteq Nat
        BY <2>1
      <4>2. from..from + n - 1 \subseteq Nat
        BY <2>1, <4>1
      <4> HIDE DEF p
      <4> QED BY <4>1, <4>2 DEF SymDiff
    <3> HIDE DEF q
    <3> QED BY <2>1, <3>1, <3>2
  <2>3. from \in 0..8 * p.size - 1 /\ from \in Nat
    <3> HIDE DEF q
    <3>1. p.size \in Nat /\ from + n <= 8 * p.size
      BY <2>1
    <3>2. n \in 1..32
      BY <2>1
    <3> HIDE DEF p
    <3>3. from \in 0..8 * p.size
      BY DEF p
    <3> QED BY <3>1, <3>2, <3>3
  <2> HIDE DEF p, q
  <2>4. Burst(p.bits, q.bits, from)
    <3>1. from \in from..from + n - 1
      BY <2>1, <2>3
    <3>3. n \in Int /\ n <= 32
      BY <2>1
    <3>2. \A t \in Nat : t < from \/ t > from + 31 => t \notin from..from + n - 1
      BY <2>3, <3>3
    <3> QED BY <2>2, <3>1, <3>2 DEF Burst, SymDiff
  <2>5. \A h \in wire.header : ~Verified(q)
    BY <1>2, <2>1, <2>2, <2>3, <2>4, BurstsAreSeen DEF p
  <2> QED BY <1>1, <2>1, <2>2, <2>5
<1>5. ASSUME NEW size \in 0..wire.packet.size + 2, Resize(size)
      PROVE  WireInv'
  <2> DEFINE p == wire.packet
             q == [size |-> size, bits |-> p.bits \cap 0..8 * size - 1]
  <2>1. p \in [size : Nat, bits : SUBSET Nat] /\ size \in Nat
        /\ ~wire.altered /\ size # p.size /\ Altered(q)
    BY <1>0, <1>5 DEF Resize
  <2>2. q \in [size : Nat, bits : SUBSET Nat]
    BY <2>1
  <2>3. \A h \in wire.header : ~Verified(q)
    <3> HIDE DEF p
    <3> QED BY <1>2, <2>1, OtherSizesAreRefused DEF p
  <2> HIDE DEF p, q
  <2> QED BY <1>1, <2>1, <2>2, <2>3
<1>6. CASE UNCHANGED wire
  BY <1>6 DEF WireInv
<1> QED BY <1>3, <1>4, <1>5, <1>6 DEF WireNext

\* What one end frames the other reads back field by field, and nothing else is
\* accepted in its place, for every header, any number of samples the format allows
\* and any burst of up to 32 bits (protocol.py 80-177, 184-207).
THEOREM PacketsReadBack == WireSpec => []FramedIsReadBack
<1>1. WireInv => FramedIsReadBack
  <2> SUFFICES ASSUME WireInv, NEW h \in wire.header
               PROVE  /\ Verified(wire.packet) <=> ~wire.altered
                      /\ ~wire.altered =>
                           /\ parse_header(wire.packet.bits) =
                                [h EXCEPT !.phone_id = @ \cap 0..7, !.flags = @ \cap 0..7]
                           /\ payload(wire.packet) = Samples(h.sample_count)
    BY DEF FramedIsReadBack
  <2>1. h \in Headers /\ Frameable(h) /\ (wire.altered => ~Verified(wire.packet))
    BY DEF WireInv
  <2>2. CASE ~wire.altered
    <3>1. wire.packet = frame_packet(h, Samples(h.sample_count))
      BY <2>2 DEF WireInv
    <3>5. /\ Framed(h) /\ h.packet_type \in PacketTypes
          /\ Samples(h.sample_count) \subseteq 0..16 * h.sample_count - 1
      BY <2>1, HeaderIsFramed
    <3>2. Verified(wire.packet) /\ payload(wire.packet) = Samples(h.sample_count)
      BY <2>1, <3>1, <3>5, FramedIsVerified
    <3>3. parse_header(wire.packet.bits) =
            [packet_type |-> h.packet_type, flags |-> h.flags \cap 0..7,
             phone_id |-> h.phone_id \cap 0..7, sequence |-> h.sequence,
             sample_rate_hz |-> h.sample_rate_hz, sample_count |-> h.sample_count,
             timestamp_us |-> h.timestamp_us]
      BY <2>1, <3>1, <3>5, FramedIsVerified
    <3>4. [h EXCEPT !.phone_id = @ \cap 0..7, !.flags = @ \cap 0..7] =
            [packet_type |-> h.packet_type, flags |-> h.flags \cap 0..7,
             phone_id |-> h.phone_id \cap 0..7, sequence |-> h.sequence,
             sample_rate_hz |-> h.sample_rate_hz, sample_count |-> h.sample_count,
             timestamp_us |-> h.timestamp_us]
      <4> DEFINE id == h.phone_id \cap 0..7
                 flags == h.flags \cap 0..7
                 cut == [h EXCEPT !.phone_id = id, !.flags = flags]
      <4>1. h \in [packet_type : PacketTypes, flags : SUBSET Nat, phone_id : SUBSET Nat,
                   sequence : SUBSET (0..31), sample_rate_hz : SUBSET (0..31),
                   sample_count : Nat, timestamp_us : SUBSET (0..63)]
        BY <2>1, WireAssumption
      <4>2. cut = [h EXCEPT !.phone_id = @ \cap 0..7, !.flags = @ \cap 0..7]
        OBVIOUS
      <4>3. id \in SUBSET Nat /\ flags \in SUBSET Nat
        BY <4>1
      <4> HIDE DEF id, flags
      <4>4. /\ cut \in [packet_type : PacketTypes, flags : SUBSET Nat, phone_id : SUBSET Nat,
                       sequence : SUBSET (0..31), sample_rate_hz : SUBSET (0..31),
                       sample_count : Nat, timestamp_us : SUBSET (0..63)]
            /\ cut.packet_type = h.packet_type /\ cut.flags = flags /\ cut.phone_id = id
            /\ cut.sequence = h.sequence /\ cut.sample_rate_hz = h.sample_rate_hz
            /\ cut.sample_count = h.sample_count /\ cut.timestamp_us = h.timestamp_us
        BY <4>1, <4>3
      <4> HIDE DEF cut
      <4> QED BY <4>2, <4>4 DEF id, flags
    <3> QED BY <2>2, <3>2, <3>3, <3>4
  <2> QED BY <2>1, <2>2
<1> QED BY <1>1, WireStarts, WireMoves, PTL DEF WireSpec

(****************************** lags *************************************)

\* A correlation has a peak.
LEMMA PeakExists ==
  ASSUME NEW n \in Nat \ {0}, NEW f \in [0..n - 1 -> Int]
  PROVE  \E p \in 0..n - 1 : \A j \in 0..n - 1 : f[j] <= f[p]
<1> DEFINE Peaked(m) == \E p \in 0..m - 1 : \A j \in 0..m - 1 : f[j] <= f[p]
           S == {m \in 1..n : ~Peaked(m)}
<1>1. ASSUME S # {} PROVE FALSE
  <2>1. S \in SUBSET Nat
    OBVIOUS
  <2>2. PICK m \in S : \A k \in S : m <= k
    BY <1>1, <2>1, LeastIn
  <2>3. m \in 1..n /\ ~Peaked(m)
    BY <2>2
  <2>4. m # 1
    <3>1. ASSUME m = 1 PROVE Peaked(m)
      <4>1. 0 \in 0..n - 1
        OBVIOUS
      <4>2. f[0] \in Int
        BY <4>1
      <4>3. 0 \in 0..1 - 1 /\ \A j \in 0..1 - 1 : j = 0
        OBVIOUS
      <4>4. \A j \in 0..1 - 1 : f[j] <= f[0]
        BY <4>2, <4>3
      <4>5. Peaked(1)
        BY <4>3, <4>4
      <4> QED BY <3>1, <4>5
    <3> QED BY <2>3, <3>1
  <2>5. m - 1 \in 1..n
    <3>1. m \in 1..n /\ m # 1
      BY <2>3, <2>4
    <3> HIDE DEF S, Peaked
    <3> QED BY <3>1
  <2>6. Peaked(m - 1)
    <3>1. ASSUME m - 1 \in S PROVE FALSE
      <4>1. m <= m - 1
        BY <2>2, <3>1
      <4>2. m \in Int
        BY <2>3
      <4> HIDE DEF S, Peaked
      <4> QED BY <4>1, <4>2
    <3> QED BY <2>5, <3>1
  <2>7. PICK p \in 0..(m - 1) - 1 : \A j \in 0..(m - 1) - 1 : f[j] <= f[p]
    BY <2>6
  <2>8. /\ p \in 0..m - 1 /\ m - 1 \in 0..m - 1 /\ p \in 0..n - 1 /\ m - 1 \in 0..n - 1
        /\ \A j \in 0..m - 1 : j \in 0..n - 1 /\ (j = m - 1 \/ j \in 0..(m - 1) - 1)
    BY <2>3, <2>5
  <2>9. f[p] \in Int /\ f[m - 1] \in Int /\ \A j \in 0..m - 1 : f[j] \in Int
    BY <2>8
  <2> HIDE DEF Peaked, S
  <2>10. CASE f[m - 1] <= f[p]
    <3>1. \A j \in 0..m - 1 : f[j] <= f[p]
      BY <2>7, <2>8, <2>10
    <3> QED BY <2>3, <2>8, <3>1 DEF Peaked
  <2>11. CASE f[p] < f[m - 1]
    <3>1. \A j \in 0..m - 1 : f[j] <= f[m - 1]
      BY <2>7, <2>8, <2>9, <2>11
    <3> QED BY <2>3, <2>8, <3>1 DEF Peaked
  <2> QED BY <2>9, <2>10, <2>11
<1>2. n \in 1..n
  OBVIOUS
<1>3. Peaked(n)
  BY <1>1, <1>2
<1> QED BY <1>3

LEMMA ArgMaxIsPeak ==
  ASSUME NEW n \in Nat \ {0}, NEW f \in [0..n - 1 -> Int]
  PROVE  ArgMax(f) \in 0..n - 1 /\ \A j \in 0..n - 1 : f[j] <= f[ArgMax(f)]
<1> DEFINE S == {i \in DOMAIN f : \A j \in DOMAIN f : f[j] <= f[i]}
<1>1. S \in SUBSET Nat /\ S # {}
  <2>1. DOMAIN f = 0..n - 1
    OBVIOUS
  <2>2. PICK p \in 0..n - 1 : \A j \in 0..n - 1 : f[j] <= f[p]
    BY PeakExists
  <2>3. p \in S
    BY <2>1, <2>2
  <2>4. S \in SUBSET (0..n - 1)
    BY <2>1
  <2>5. 0..n - 1 \subseteq Nat
    OBVIOUS
  <2> QED BY <2>3, <2>4, <2>5
<1>2. Min(S) \in S
  BY <1>1, MinIn
<1>3. ArgMax(f) = Min(S)
  BY DEF ArgMax, Min
<1> QED BY <1>2, <1>3

\* Any index up to half the length is a lag to the one side, any other to the other.
LEMMA SignedLagRange ==
  ASSUME NEW n \in Nat \ {0}, NEW m \in Nat, NEW i \in 0..n - 1, i <= m \/ n - m <= i
  PROVE  SignedLag(i, n) \in -m..m
<1> DEFINE h == n \div 2
<1>1. h \in Nat /\ 2 * h <= n /\ n <= 2 * h + 1
  OBVIOUS
<1>2. SignedLag(i, n) = IF i <= h THEN i ELSE i - n
  BY DEF SignedLag
<1> HIDE DEF h
<1>3. CASE i <= h
  BY <1>1, <1>2, <1>3
<1>4. CASE ~(i <= h)
  BY <1>1, <1>2, <1>4
<1> QED BY <1>3, <1>4

\* The chirp search never returns a lag outside the window it was given, when there
\* is any correlation in that window, however strong the echoes outside it are and
\* for every length of transform (correlation.py 36-52, 97-114).
THEOREM LagInWindow ==
  ASSUME NEW n \in Nat \ {0}, NEW max_lag \in Nat, NEW xcorr \in [0..n - 1 -> Int],
         \E i \in 0..n - 1 : (i <= max_lag \/ n - max_lag <= i) /\ xcorr[i] > 0
  PROVE  -SignedLag(ArgMax(WindowLag(xcorr, n, max_lag)), n) \in -max_lag..max_lag
<1> DEFINE f == WindowLag(xcorr, n, max_lag)
           p == ArgMax(f)
           h == n \div 2
<1>1. h \in Nat /\ 2 * h <= n /\ n <= 2 * h + 1
  OBVIOUS
<1>2. f = [i \in 0..n - 1 |-> IF max_lag < h /\ i \in max_lag + 1..n - max_lag - 1
                              THEN 0 ELSE xcorr[i]]
  BY DEF WindowLag
<1> HIDE DEF f, h
<1>3. f \in [0..n - 1 -> Int]
  BY <1>2
<1>4. p \in 0..n - 1 /\ \A j \in 0..n - 1 : f[j] <= f[p]
  BY <1>3, ArgMaxIsPeak
<1>5. PICK i \in 0..n - 1 : (i <= max_lag \/ n - max_lag <= i) /\ xcorr[i] > 0
  OBVIOUS
<1>6. f[i] = xcorr[i]
  BY <1>2, <1>5
<1> HIDE DEF p
<1>7. f[p] > 0
  BY <1>3, <1>4, <1>5, <1>6
<1>8. ~(max_lag < h /\ p \in max_lag + 1..n - max_lag - 1)
  BY <1>2, <1>4, <1>7
<1>9. p <= max_lag \/ n - max_lag <= p
  BY <1>1, <1>4, <1>8
<1>10. SignedLag(p, n) \in -max_lag..max_lag
  BY <1>4, <1>9, SignedLagRange
<1>11. \A x \in -max_lag..max_lag : -x \in -max_lag..max_lag
  OBVIOUS
<1> QED BY <1>10, <1>11 DEF p, f

\* Remainders of sums of two indices, and the index that is d before another.
LEMMA Wrapped ==
  ASSUME NEW n \in Nat \ {0}, NEW x \in Int
  PROVE  /\ x \in 0..n - 1 => x % n = x
         /\ x \in n..2 * n - 1 => x % n = x - n
         /\ x \in -n..-1 => x % n = x + n
         /\ x % n \in 0..n - 1
  OBVIOUS

\* Rotating by s and then by t is rotating by s + t.
LEMMA WrappedTwice ==
  ASSUME NEW n \in Nat \ {0}, NEW x \in -n..2 * n - 1, NEW y \in 0..n - 1
  PROVE  ((x % n) + y) % n = (x + y) % n
<1>1. \A z \in 0..n - 1 : z % n = z
  OBVIOUS
<1>2. \A z \in n..2 * n - 1 : z % n = z - n
  OBVIOUS
<1>3. \A z \in 2 * n..3 * n - 1 : z % n = z - 2 * n
  OBVIOUS
<1>4. \A z \in -n..-1 : z % n = z + n
  OBVIOUS
<1>5. CASE x \in 0..n - 1
  BY <1>1, <1>5
<1>6. CASE x \in n..2 * n - 1
  <2>1. x % n = x - n /\ x + y \in n..3 * n - 1 /\ (x - n) + y \in 0..2 * n - 1
    BY <1>2, <1>6
  <2>2. ((x - n) + y) % n = (x + y) % n
    BY <1>1, <1>2, <1>3, <1>6
  <2> QED BY <2>1, <2>2
<1>7. CASE x \in -n..-1
  <2>1. x % n = x + n
    BY <1>4, <1>7
  <2>2. ((x + n) + y) % n = (x + y) % n
    BY <1>1, <1>2, <1>4, <1>7
  <2> QED BY <2>1, <2>2
<1> QED BY <1>5, <1>6, <1>7

\* A sum of n terms, term by term.
Totals(sum, f, n) ==
  /\ sum \in [0..n -> Int] /\ sum[0] = 0
  /\ \A i \in 0..n - 1 : sum[i + 1] = sum[i] + f[i]
  /\ Total(f, n) = sum[n]

LEMMA TotalsExist ==
  ASSUME NEW n \in Nat, NEW f \in [0..n - 1 -> Int]
  PROVE  \E sum : Totals(sum, f, n)
<1> DEFINE Is(g) == g = [i \in 0..n |-> IF i = 0 THEN 0 ELSE g[i - 1] + f[i - 1]]
           F == [p \in (1..n) \X Int |-> p[2] + f[p[1] - 1]]
           s == CHOOSE g : Is(g)
<1>1. F \in [(1..n) \X Int -> Int] /\ 0 \in Int
  OBVIOUS
<1>2. PICK g : Run(g, Int, 0, n, F)
  <2> HIDE DEF F
  <2> QED BY <1>1, RunExists
<1> HIDE DEF Is, s
<1>3. g \in [0..n -> Int] /\ g[0] = 0 /\ \A i \in 1..n : g[i] = g[i - 1] + f[i - 1]
  <2> HIDE DEF F
  <2>0. g \in [0..n -> Int]
    BY <1>2 DEF Run
  <2>1. \A i \in 1..n : g[i - 1] \in Int
    BY <2>0
  <2>2. \A i \in 1..n : F[<<i, g[i - 1]>>] = g[i - 1] + f[i - 1]
    BY <2>1 DEF F
  <2> QED BY <1>2, <2>2 DEF Run
<1>4. Is(g)
  <2>1. \A i \in 0..n : i # 0 => i \in 1..n
    OBVIOUS
  <2>2. g = [i \in 0..n |-> g[i]]
    BY <1>3
  <2>3. \A i \in 0..n : g[i] = IF i = 0 THEN 0 ELSE g[i - 1] + f[i - 1]
    BY <1>3, <2>1
  <2> QED BY <2>2, <2>3 DEF Is
<1>5. Is(s)
  BY <1>4 DEF s
<1>6. Total(f, n) = s[n]
  BY DEF Total, Is, s
<1>7. /\ s = [i \in 0..n |-> s[i]] /\ s[0] = 0
      /\ \A i \in 1..n : s[i] = s[i - 1] + f[i - 1]
  <2>1. s = [i \in 0..n |-> IF i = 0 THEN 0 ELSE s[i - 1] + f[i - 1]]
    BY <1>5 DEF Is
  <2>2. s = [i \in 0..n |-> s[i]]
    BY <2>1
  <2>3. \A i \in 0..n : s[i] = IF i = 0 THEN 0 ELSE s[i - 1] + f[i - 1]
    BY <2>1
  <2>4. 0 \in 0..n /\ \A i \in 1..n : i \in 0..n /\ i # 0
    OBVIOUS
  <2> QED BY <2>2, <2>3, <2>4
<1>8. \A i \in 0..n - 1 : s[i + 1] = s[i] + f[i]
  <2>1. ASSUME NEW i \in 0..n - 1 PROVE s[i + 1] = s[i] + f[i]
    <3>1. i + 1 \in 1..n /\ (i + 1) - 1 = i
      OBVIOUS
    <3>2. s[i + 1] = s[(i + 1) - 1] + f[(i + 1) - 1]
      BY <1>7, <3>1
    <3> QED BY <3>1, <3>2
  <2> QED BY <2>1
<1> DEFINE S == {i \in 0..n : s[i] \in Int}
<1>9. 0 \in S
  BY <1>7
<1>10. \A i \in 0..n - 1 : i \in S => i + 1 \in S
  BY <1>8
<1> HIDE DEF S
<1>11. \A i \in 0..n : i \in S
  BY <1>9, <1>10, UpTo
<1>12. s \in [0..n -> Int]
  BY <1>7, <1>11 DEF S
<1> QED BY <1>6, <1>7, <1>8, <1>12 DEF Totals

LEMMA TotalIsInt ==
  ASSUME NEW n \in Nat, NEW f \in [0..n - 1 -> Int]
  PROVE  Total(f, n) \in Int
<1>1. PICK sum : Totals(sum, f, n)
  BY TotalsExist
<1> QED BY <1>1 DEF Totals

\* No term is negative and one is positive: so is the sum.
LEMMA TotalIsPositive ==
  ASSUME NEW n \in Nat, NEW f \in [0..n - 1 -> Int], \A i \in 0..n - 1 : f[i] >= 0,
         NEW j \in 0..n - 1, f[j] > 0
  PROVE  Total(f, n) > 0
<1>1. PICK sum : Totals(sum, f, n)
  BY TotalsExist
<1>2. /\ sum \in [0..n -> Int] /\ sum[0] = 0 /\ Total(f, n) = sum[n]
      /\ \A i \in 0..n - 1 : sum[i + 1] = sum[i] + f[i]
  BY <1>1 DEF Totals
<1> DEFINE S == {i \in 0..n : sum[i] >= 0 /\ (i > j => sum[i] > 0)}
<1>3. 0 \in S
  BY <1>2
<1>4. ASSUME NEW i \in 0..n - 1, i \in S PROVE i + 1 \in S
  <2>1. sum[i + 1] = sum[i] + f[i] /\ sum[i] \in Int /\ f[i] \in Int /\ f[i] >= 0 /\ f[j] > 0
    BY <1>2
  <2>2. i + 1 > j => i > j \/ i = j
    OBVIOUS
  <2>3. i + 1 \in 0..n /\ sum[i] >= 0 /\ (i > j => sum[i] > 0)
    BY <1>4
  <2> QED BY <2>1, <2>2, <2>3
<1> HIDE DEF S
<1>5. \A i \in 0..n : i \in S
  BY <1>3, <1>4, UpTo
<1>6. n \in S
  BY <1>5
<1> QED BY <1>2, <1>6 DEF S

\* The sum of the squares of two signals is twice that of their products, and that
\* of the squares of their differences.
LEMMA TotalOfSquares ==
  ASSUME NEW n \in Nat, NEW f \in [0..n - 1 -> Int], NEW g \in [0..n - 1 -> Int]
  PROVE  Total([i \in 0..n - 1 |-> f[i] * f[i]], n) + Total([i \in 0..n - 1 |-> g[i] * g[i]], n)
           = 2 * Total([i \in 0..n - 1 |-> f[i] * g[i]], n)
             + Total([i \in 0..n - 1 |-> (f[i] - g[i]) * (f[i] - g[i])], n)
<1> DEFINE ff == [i \in 0..n - 1 |-> f[i] * f[i]]
           gg == [i \in 0..n - 1 |-> g[i] * g[i]]
           fg == [i \in 0..n - 1 |-> f[i] * g[i]]
           dd == [i \in 0..n - 1 |-> (f[i] - g[i]) * (f[i] - g[i])]
<1>1. /\ ff \in [0..n - 1 -> Int] /\ gg \in [0..n - 1 -> Int]
      /\ fg \in [0..n - 1 -> Int] /\ dd \in [0..n - 1 -> Int]
  OBVIOUS
<1>2. \A i \in 0..n - 1 : ff[i] + gg[i] = 2 * fg[i] + dd[i]
  <2> SUFFICES ASSUME NEW i \in 0..n - 1 PROVE ff[i] + gg[i] = 2 * fg[i] + dd[i]
    OBVIOUS
  <2>1. \A x, y \in Int : x * x + y * y = 2 * (x * y) + (x - y) * (x - y)
    OBVIOUS
  <2> QED BY <2>1
<1> HIDE DEF ff, gg, fg, dd
<1>3. PICK a : Totals(a, ff, n)
  BY <1>1, TotalsExist
<1>4. PICK b : Totals(b, gg, n)
  BY <1>1, TotalsExist
<1>5. PICK c : Totals(c, fg, n)
  BY <1>1, TotalsExist
<1>6. PICK d : Totals(d, dd, n)
  BY <1>1, TotalsExist
<1> DEFINE S == {i \in 0..n : a[i] + b[i] = 2 * c[i] + d[i]}
<1>7. 0 \in S
  BY <1>3, <1>4, <1>5, <1>6 DEF Totals
<1>8. ASSUME NEW i \in 0..n - 1, i \in S PROVE i + 1 \in S
  <2> DEFINE p == a[i]   q == b[i]   r == c[i]   s == d[i]
             p1 == ff[i] q1 == gg[i] r1 == fg[i] s1 == dd[i]
  <2>1. p \in Int /\ q \in Int /\ r \in Int /\ s \in Int
    <3>1. i \in 0..n
      OBVIOUS
    <3>2. p \in Int
      BY <1>3, <3>1 DEF Totals
    <3>3. q \in Int
      BY <1>4, <3>1 DEF Totals
    <3>4. r \in Int
      BY <1>5, <3>1 DEF Totals
    <3>5. s \in Int
      BY <1>6, <3>1 DEF Totals
    <3> QED BY <3>2, <3>3, <3>4, <3>5
  <2>2. p1 \in Int /\ q1 \in Int /\ r1 \in Int /\ s1 \in Int
    BY <1>1
  <2>3. p1 + q1 = 2 * r1 + s1
    BY <1>2
  <2>4. p + q = 2 * r + s
    BY <1>8
  <2>5. /\ a[i + 1] = p + p1 /\ b[i + 1] = q + q1
        /\ c[i + 1] = r + r1 /\ d[i + 1] = s + s1
    <3>1. a[i + 1] = p + p1
      BY <1>3 DEF Totals
    <3>2. b[i + 1] = q + q1
      BY <1>4 DEF Totals
    <3>3. c[i + 1] = r + r1
      BY <1>5 DEF Totals
    <3>4. d[i + 1] = s + s1
      BY <1>6 DEF Totals
    <3> QED BY <3>1, <3>2, <3>3, <3>4
  <2>6. i + 1 \in 0..n
    OBVIOUS
  <2> HIDE DEF S, p, q, r, s, p1, q1, r1, s1
  <2>7. (p + p1) + (q + q1) = 2 * (r + r1) + (s + s1)
    BY <2>1, <2>2, <2>3, <2>4
  <2> QED BY <2>5, <2>6, <2>7 DEF S
<1> HIDE DEF S
<1>9. \A i \in 0..n : i \in S
  BY <1>7, <1>8, UpTo
<1>10. n \in S
  BY <1>9
<1> QED BY <1>3, <1>4, <1>5, <1>6, <1>10 DEF S, Totals, ff, gg, fg, dd

\* A signal of n samples read from sample t on, round the end.
Rotated(f, t, n) == [i \in 0..n - 1 |-> f[(i + t) % n]]

LEMMA RotatedIs ==
  ASSUME NEW n \in Nat \ {0}, NEW f \in [0..n - 1 -> Int], NEW t \in Int
  PROVE  Rotated(f, t, n) \in [0..n - 1 -> Int]
<1>1. \A i \in 0..n - 1 : (i + t) % n \in 0..n - 1
  BY Wrapped
<1> QED BY <1>1 DEF Rotated

\* Rotating a signal leaves its sum.
LEMMA RotatedOnce ==
  ASSUME NEW n \in Nat \ {0}, NEW f \in [0..n - 1 -> Int]
  PROVE  Total(Rotated(f, 1, n), n) = Total(f, n)
<1> DEFINE g == Rotated(f, 1, n)
<1>1. g \in [0..n - 1 -> Int]
  BY RotatedIs
<1>2. \A i \in 0..n - 1 : i + 1 \in 0..n - 1 => g[i] = f[i + 1]
  <2>1. ASSUME NEW i \in 0..n - 1, i + 1 \in 0..n - 1 PROVE (i + 1) % n = i + 1
    BY <2>1
  <2> QED BY <2>1 DEF Rotated
<1>3. g[n - 1] = f[0]
  <2>1. ((n - 1) + 1) % n = 0
    BY Wrapped
  <2> QED BY <2>1 DEF Rotated
<1> HIDE DEF g
<1>4. PICK a : Totals(a, f, n)
  BY TotalsExist
<1>5. PICK b : Totals(b, g, n)
  BY <1>1, TotalsExist
<1>6. /\ a \in [0..n -> Int] /\ a[0] = 0 /\ Total(f, n) = a[n]
      /\ \A i \in 0..n - 1 : a[i + 1] = a[i] + f[i]
  BY <1>4 DEF Totals
<1>7. /\ b \in [0..n -> Int] /\ b[0] = 0 /\ Total(g, n) = b[n]
      /\ \A i \in 0..n - 1 : b[i + 1] = b[i] + g[i]
  BY <1>5 DEF Totals
<1> DEFINE S == {i \in 0..n - 1 : b[i] = a[i + 1] - f[0]}
<1>8. 0 \in S
  <2>1. 0 \in 0..n - 1 /\ a[0 + 1] = a[0] + f[0] /\ f[0] \in Int
    BY <1>6
  <2> QED BY <1>6, <1>7, <2>1
<1>9. ASSUME NEW i \in 0..(n - 1) - 1, i \in S PROVE i + 1 \in S
  <2>1. i \in 0..n - 1 /\ i + 1 \in 0..n - 1 /\ b[i] = a[i + 1] - f[0]
    BY <1>9
  <2>2. /\ b[i + 1] = b[i] + g[i] /\ g[i] = f[i + 1]
        /\ a[(i + 1) + 1] = a[i + 1] + f[i + 1]
    BY <1>2, <1>6, <1>7, <2>1
  <2>3. /\ f[0] \in Int /\ f[i + 1] \in Int /\ i + 1 \in 0..n
        /\ a[i + 1] \in Int
    BY <1>6, <2>1
  <2> QED BY <2>1, <2>2, <2>3
<1> HIDE DEF S
<1>10. n - 1 \in Nat /\ n - 1 \in 0..n - 1 /\ (n - 1) + 1 = n
  OBVIOUS
<1>11. n - 1 \in S
  BY <1>8, <1>9, <1>10, UpTo
<1>12. b[n - 1] = a[n] - f[0]
  BY <1>10, <1>11 DEF S
<1>13. b[n] = b[n - 1] + f[0]
  BY <1>3, <1>7, <1>10
<1>14. a[n] \in Int /\ f[0] \in Int
  BY <1>6
<1>15. b[n] = a[n]
  BY <1>12, <1>13, <1>14
<1> QED BY <1>6, <1>7, <1>15 DEF g

LEMMA RotatedTotal ==
  ASSUME NEW n \in Nat \ {0}, NEW f \in [0..n - 1 -> Int], NEW t \in 0..n - 1
  PROVE  Total(Rotated(f, t, n), n) = Total(f, n)
<1> DEFINE S == {i \in 0..n - 1 : Total(Rotated(f, i, n), n) = Total(f, n)}
<1>1. 0 \in S
  <2>1. ASSUME NEW i \in 0..n - 1 PROVE (i + 0) % n = i
    OBVIOUS
  <2>2. Rotated(f, 0, n) = f
    BY <2>1 DEF Rotated
  <2> QED BY <2>2
<1>2. ASSUME NEW i \in 0..(n - 1) - 1, i \in S PROVE i + 1 \in S
  <2> DEFINE g == Rotated(f, i, n)
  <2>1. g \in [0..n - 1 -> Int]
    BY RotatedIs
  <2>2. Rotated(f, i + 1, n) = Rotated(g, 1, n)
    <3>1. \A j \in 0..n - 1 : Rotated(g, 1, n)[j] = f[(j + (i + 1)) % n]
      <4> SUFFICES ASSUME NEW j \in 0..n - 1 PROVE Rotated(g, 1, n)[j] = f[(j + (i + 1)) % n]
        OBVIOUS
      <4>1. (j + 1) % n \in 0..n - 1
        <5>1. j + 1 \in Int
          OBVIOUS
        <5> QED BY <5>1, Wrapped
      <4>2. Rotated(g, 1, n)[j] = g[(j + 1) % n]
        BY DEF Rotated
      <4>3. g[(j + 1) % n] = f[(((j + 1) % n) + i) % n]
        BY <4>1 DEF Rotated
      <4>4. (((j + 1) % n) + i) % n = ((j + 1) + i) % n
        <5>1. j + 1 \in -n..2 * n - 1 /\ i \in 0..n - 1
          OBVIOUS
        <5> QED BY <5>1, WrappedTwice
      <4>5. (j + 1) + i = j + (i + 1)
        OBVIOUS
      <4> QED BY <4>2, <4>3, <4>4, <4>5
    <3>2. Rotated(g, 1, n) = [j \in 0..n - 1 |-> Rotated(g, 1, n)[j]]
      BY DEF Rotated
    <3>3. Rotated(f, i + 1, n) = [j \in 0..n - 1 |-> f[(j + (i + 1)) % n]]
      BY DEF Rotated
    <3> HIDE DEF g
    <3> QED BY <3>1, <3>2, <3>3
  <2> HIDE DEF g
  <2>3. Total(Rotated(g, 1, n), n) = Total(g, n)
    BY <2>1, RotatedOnce
  <2>4. Total(g, n) = Total(f, n)
    BY <1>2 DEF g
  <2> QED BY <2>2, <2>3, <2>4
<1> HIDE DEF S
<1>3. t \in S
  <2>1. n - 1 \in Nat
    OBVIOUS
  <2> QED BY <1>1, <1>2, <2>1, UpTo
<1> QED BY <1>3 DEF S

\* How much a signal is like itself read from t samples on.
Likeness(f, t, n) == Total([i \in 0..n - 1 |-> f[i] * f[(i + t) % n]], n)

LEMMA LikenessIsInt ==
  ASSUME NEW n \in Nat \ {0}, NEW f \in [0..n - 1 -> Int], NEW t \in Int
  PROVE  Likeness(f, t, n) \in Int
<1> DEFINE h == [i \in 0..n - 1 |-> f[i] * f[(i + t) % n]]
<1>1. \A i \in 0..n - 1 : f[(i + t) % n] \in Int
  BY RotatedIs DEF Rotated
<1>2. h \in [0..n - 1 -> Int]
  BY <1>1
<1> HIDE DEF h
<1>3. Total(h, n) \in Int
  BY <1>2, TotalIsInt
<1> QED BY <1>3 DEF Likeness, h

\* A signal is like nothing as much as itself, unless a rotation leaves it as it is.
LEMMA LikestItself ==
  ASSUME NEW n \in Nat \ {0}, NEW f \in [0..n - 1 -> Int], NEW t \in 0..n - 1,
         NEW j \in 0..n - 1, f[j] # f[(j + t) % n]
  PROVE  Likeness(f, t, n) < Likeness(f, 0, n)
<1> DEFINE g  == Rotated(f, t, n)
           ff == [i \in 0..n - 1 |-> f[i] * f[i]]
           gg == [i \in 0..n - 1 |-> g[i] * g[i]]
           fg == [i \in 0..n - 1 |-> f[i] * g[i]]
           dd == [i \in 0..n - 1 |-> (f[i] - g[i]) * (f[i] - g[i])]
<1>1. g \in [0..n - 1 -> Int] /\ \A i \in 0..n - 1 : g[i] = f[(i + t) % n]
  BY RotatedIs DEF Rotated
<1>2. \A i \in 0..n - 1 : (i + t) % n \in 0..n - 1
  BY Wrapped
<1> HIDE DEF g
<1>3. ff \in [0..n - 1 -> Int] /\ fg \in [0..n - 1 -> Int] /\ dd \in [0..n - 1 -> Int]
  <2>1. ff \in [0..n - 1 -> Int]
    OBVIOUS
  <2>2. fg \in [0..n - 1 -> Int]
    BY <1>1
  <2>3. dd \in [0..n - 1 -> Int]
    BY <1>1
  <2> HIDE DEF ff, fg, dd
  <2> QED BY <2>1, <2>2, <2>3
<1>4. gg = Rotated(ff, t, n)
  <2>1. \A i \in 0..n - 1 : gg[i] = ff[(i + t) % n]
    BY <1>1, <1>2
  <2>2. gg = [i \in 0..n - 1 |-> gg[i]]
    OBVIOUS
  <2> HIDE DEF gg, ff
  <2> QED BY <2>1, <2>2 DEF Rotated
<1>5. Total(ff, n) + Total(gg, n) = 2 * Total(fg, n) + Total(dd, n)
  BY <1>1, TotalOfSquares
<1>6. Likeness(f, 0, n) = Total(ff, n)
  <2>1. ASSUME NEW i \in 0..n - 1 PROVE (i + 0) % n = i
    OBVIOUS
  <2>2. [i \in 0..n - 1 |-> f[i] * f[(i + 0) % n]] = ff
    BY <2>1
  <2> QED BY <2>2 DEF Likeness
<1>7. Likeness(f, t, n) = Total(fg, n)
  <2>1. [i \in 0..n - 1 |-> f[i] * f[(i + t) % n]] = fg
    BY <1>1
  <2> QED BY <2>1 DEF Likeness
<1>8. \A i \in 0..n - 1 : dd[i] >= 0
  <2>1. \A x \in Int : x * x >= 0
    OBVIOUS
  <2>2. \A i \in 0..n - 1 : f[i] - g[i] \in Int
    BY <1>1
  <2> QED BY <2>1, <2>2
<1>9. dd[j] > 0
  <2>1. \A x \in Int : x # 0 => x * x > 0
    OBVIOUS
  <2>2. f[j] - g[j] \in Int /\ f[j] - g[j] # 0
    BY <1>1
  <2> QED BY <2>1, <2>2
<1> HIDE DEF ff, gg, fg, dd
<1>10. Total(dd, n) > 0
  BY <1>3, <1>8, <1>9, TotalIsPositive
<1>11. Total(gg, n) = Total(ff, n)
  BY <1>3, <1>4, RotatedTotal
<1>12. Total(ff, n) \in Int /\ Total(fg, n) \in Int /\ Total(dd, n) \in Int
  BY <1>3, TotalIsInt
<1> QED BY <1>5, <1>6, <1>7, <1>10, <1>11, <1>12

\* A signal is as like itself one sample on as one sample back.
LEMMA LikeBothWays ==
  ASSUME NEW n \in Nat \ {0}, NEW f \in [0..n - 1 -> Int], NEW t \in 1..n - 1
  PROVE  Likeness(f, t, n) = Likeness(f, n - t, n)
<1> DEFINE on   == [i \in 0..n - 1 |-> f[i] * f[(i + t) % n]]
           back == [i \in 0..n - 1 |-> f[i] * f[(i + (n - t)) % n]]
<1>1. \A i \in 0..n - 1 : (i + t) % n \in 0..n - 1 /\ (i + (n - t)) % n \in 0..n - 1
  <2>1. \A x \in Int : x % n \in 0..n - 1
    OBVIOUS
  <2>2. \A i \in 0..n - 1 : i + t \in Int /\ i + (n - t) \in Int
    OBVIOUS
  <2> QED BY <2>1, <2>2
<1>2. back \in [0..n - 1 -> Int]
  BY <1>1
<1>3. on = Rotated(back, t, n)
  <2>1. ASSUME NEW i \in 0..n - 1 PROVE on[i] = back[(i + t) % n]
    <3>1. (((i + t) % n) + (n - t)) % n = ((i + t) + (n - t)) % n
      <4>1. i + t \in -n..2 * n - 1 /\ n - t \in 0..n - 1
        OBVIOUS
      <4> QED BY <4>1, WrappedTwice
    <3>2. ((i + t) + (n - t)) % n = i
      OBVIOUS
    <3>3. back[(i + t) % n] = f[(i + t) % n] * f[(((i + t) % n) + (n - t)) % n]
      BY <1>1
    <3>4. back[(i + t) % n] = f[(i + t) % n] * f[i]
      BY <3>1, <3>2, <3>3
    <3>5. f[(i + t) % n] \in Int /\ f[i] \in Int
      BY <1>1
    <3>6. on[i] = f[i] * f[(i + t) % n]
      OBVIOUS
    <3>7. \A x, y \in Int : x * y = y * x
      OBVIOUS
    <3> HIDE DEF on, back
    <3> QED BY <3>4, <3>5, <3>6, <3>7
  <2>2. on = [i \in 0..n - 1 |-> on[i]]
    OBVIOUS
  <2> HIDE DEF on, back
  <2> QED BY <2>1, <2>2 DEF Rotated
<1> HIDE DEF on, back
<1>4. Total(on, n) = Total(back, n)
  <2>1. t \in 0..n - 1
    OBVIOUS
  <2> QED BY <1>2, <1>3, <2>1, RotatedTotal
<1> QED BY <1>4 DEF Likeness, on, back

\* A signal that fills no more than half of the transform is left as it is by no
\* rotation.
LEMMA RotationIsSeen ==
  ASSUME NEW n \in Nat \ {0}, NEW f \in [0..n - 1 -> Int], NEW a \in Nat, NEW size \in Nat,
         2 * size <= n, a + size <= n,
         \A i \in 0..n - 1 : f[i] # 0 => i \in a..a + size - 1,
         \E i \in 0..n - 1 : f[i] # 0,
         NEW t \in 1..n - 1
  PROVE  \E j \in 0..n - 1 : f[j] # f[(j + t) % n]
<1>1. \A x \in 0..n - 1 : x % n = x
  <2> SUFFICES ASSUME NEW x \in 0..n - 1 PROVE x % n = x
    OBVIOUS
  <2>1. x \in Int
    OBVIOUS
  <2> QED BY <2>1, Wrapped
<1>2. \A x \in n..2 * n - 1 : x % n = x - n
  <2> SUFFICES ASSUME NEW x \in n..2 * n - 1 PROVE x % n = x - n
    OBVIOUS
  <2>1. x \in Int
    OBVIOUS
  <2> QED BY <2>1, Wrapped
<1> DEFINE S == {i \in 0..n - 1 : f[i] # 0}
<1>3. S \in SUBSET Nat /\ S # {}
  OBVIOUS
<1>4. PICK lo \in S : \A i \in S : lo <= i
  BY <1>3, LeastIn
<1>5. lo \in 0..n - 1 /\ f[lo] # 0 /\ lo \in a..a + size - 1
  BY <1>4
<1>6. ASSUME NEW i \in 0..n - 1, f[i] # 0 PROVE i \in lo..a + size - 1
  BY <1>4, <1>6
<1> HIDE DEF S
<1>7. SUFFICES ASSUME \A j \in 0..n - 1 : f[j] = f[(j + t) % n] PROVE FALSE
  OBVIOUS
\* on from the first sample that is not silent
<1>8. t <= size - 1
  <2>1. CASE lo + t \in 0..n - 1
    <3>1. (lo + t) % n = lo + t
      BY <1>1, <2>1
    <3>2. f[lo + t] = f[lo]
      BY <1>5, <1>7, <3>1
    <3> QED BY <1>5, <1>6, <2>1, <3>2
  <2>2. CASE lo + t \in n..2 * n - 1
    <3> DEFINE on == lo + t
    <3> HIDE DEF on
    <3>1. on % n = on - n
      BY <1>2, <2>2 DEF on
    <3>2. f[on % n] = f[lo]
      BY <1>5, <1>7 DEF on
    <3>3. on - n \in 0..n - 1 /\ on - n < lo
      BY <1>5, <2>2 DEF on
    <3> QED BY <1>5, <1>6, <3>1, <3>2, <3>3
  <2> QED BY <1>5, <2>1, <2>2
\* and back from it
<1>9. ~(lo - t \in 0..n - 1)
  <2> SUFFICES ASSUME lo - t \in 0..n - 1 PROVE FALSE
    OBVIOUS
  <2>1. (lo - t) + t = lo /\ lo % n = lo
    BY <1>1, <1>5
  <2>2. f[lo - t] = f[((lo - t) + t) % n]
    BY <1>7
  <2>3. f[lo - t] = f[lo]
    BY <2>1, <2>2
  <2> QED BY <1>5, <1>6, <2>3
<1>10. lo - t + n \in 0..n - 1 /\ lo + n \in n..2 * n - 1 /\ (lo - t + n) + t = lo + n
  BY <1>5, <1>9
<1>11. f[lo - t + n] = f[lo]
  <2>1. (lo + n) % n = lo
    <3>1. (lo + n) % n = (lo + n) - n
      BY <1>2, <1>10
    <3> QED BY <1>5, <3>1
  <2>2. f[lo - t + n] = f[((lo - t + n) + t) % n]
    BY <1>7, <1>10
  <2> QED BY <1>10, <2>1, <2>2
<1>12. lo - t + n \in lo..a + size - 1
  BY <1>5, <1>6, <1>10, <1>11
<1> QED BY <1>5, <1>8, <1>12

\* A correlation with one peak, at index k0, and the same on both sides of it.
PeaksAt(cc, k0, n) ==
  /\ cc \in [0..n - 1 -> Int] /\ cc[k0] > 0
  /\ \A k \in 0..n - 1 : k # k0 => cc[k] < cc[k0]
  /\ cc[(k0 - 1) % n] = cc[(k0 + 1) % n]

\* A signal that fills no more than half of the transform, and is not silent.
FillsHalf(f, n) ==
  /\ f \in [0..n - 1 -> Int]
  /\ \E i \in 0..n - 1 : f[i] # 0
  /\ \E a, size \in Nat : /\ 2 * size <= n /\ a + size <= n
                          /\ \A i \in 0..n - 1 : f[i] # 0 => i \in a..a + size - 1

\* The correlation of a signal with the same signal rotated by k0 peaks at k0.
LEMMA CorrelationPeaks ==
  ASSUME NEW n \in Nat, n >= 2, NEW x, NEW y, NEW k0 \in 0..n - 1,
         FillsHalf(Padded(x, n), n), Padded(y, n) = Rotated(Padded(x, n), k0, n)
  PROVE  PeaksAt(CircularCorrelation(x, y, n), k0, n)
<1> DEFINE f  == Padded(x, n)
           g  == Padded(y, n)
           cc == CircularCorrelation(x, y, n)
           L(t) == Likeness(f, t, n)
<1>1. f \in [0..n - 1 -> Int] /\ n \in Nat \ {0} /\ \E i \in 0..n - 1 : f[i] # 0
  BY DEF FillsHalf
<1>2. cc = [k \in 0..n - 1 |-> Total([i \in 0..n - 1 |-> f[i] * g[(i - k) % n]], n)]
  BY DEF CircularCorrelation
<1>3. \A i \in 0..n - 1 : g[i] = f[(i + k0) % n]
  BY DEF Rotated
<1>4. \E a, size \in Nat : /\ 2 * size <= n /\ a + size <= n
                           /\ \A i \in 0..n - 1 : f[i] # 0 => i \in a..a + size - 1
  BY DEF FillsHalf
<1> HIDE DEF f, g, cc
<1>5. ASSUME NEW k \in 0..n - 1 PROVE cc[k] = L((k0 - k) % n)
  <2>1. ASSUME NEW i \in 0..n - 1 PROVE g[(i - k) % n] = f[(i + ((k0 - k) % n)) % n]
    <3>1. (i - k) % n \in 0..n - 1
      <4>1. i - k \in Int
        OBVIOUS
      <4> QED BY <1>1, <4>1, Wrapped
    <3>2. g[(i - k) % n] = f[(((i - k) % n) + k0) % n]
      BY <1>3, <3>1
    <3>3. (((i - k) % n) + k0) % n = ((i - k) + k0) % n
      <4>1. i - k \in -n..2 * n - 1
        OBVIOUS
      <4> QED BY <1>1, <4>1, WrappedTwice
    <3>4. (((k0 - k) % n) + i) % n = ((k0 - k) + i) % n
      <4>1. k0 - k \in -n..2 * n - 1
        OBVIOUS
      <4> QED BY <1>1, <4>1, WrappedTwice
    <3>5. (k0 - k) + i = (i - k) + k0
      OBVIOUS
    <3>6. i + ((k0 - k) % n) = ((k0 - k) % n) + i
      <4>1. k0 - k \in Int
        OBVIOUS
      <4>2. (k0 - k) % n \in 0..n - 1
        BY <1>1, <4>1, Wrapped
      <4> QED BY <4>2
    <3> QED BY <3>2, <3>3, <3>4, <3>5, <3>6
  <2>2. cc[k] = Total([i \in 0..n - 1 |-> f[i] * g[(i - k) % n]], n)
    BY <1>2
  <2>3. [i \in 0..n - 1 |-> f[i] * g[(i - k) % n]]
          = [i \in 0..n - 1 |-> f[i] * f[(i + ((k0 - k) % n)) % n]]
    BY <2>1
  <2> QED BY <2>2, <2>3 DEF Likeness
<1>6. ASSUME NEW k \in 0..n - 1 PROVE (k0 - k) % n \in 0..n - 1
  <2>1. k0 - k \in Int
    OBVIOUS
  <2> QED BY <1>1, <2>1, Wrapped
<1>7. cc[k0] = L(0)
  <2>1. (k0 - k0) % n = 0
    OBVIOUS
  <2> QED BY <1>5, <2>1
<1>8. ASSUME NEW t \in 1..n - 1 PROVE L(t) < L(0)
  <2>1. PICK a \in Nat, size \in Nat :
          /\ 2 * size <= n /\ a + size <= n
          /\ \A i \in 0..n - 1 : f[i] # 0 => i \in a..a + size - 1
    BY <1>4
  <2>2. PICK j \in 0..n - 1 : f[j] # f[(j + t) % n]
    BY <1>1, <2>1, RotationIsSeen
  <2>3. t \in 0..n - 1
    OBVIOUS
  <2> QED BY <1>1, <2>2, <2>3, LikestItself
<1>9. cc \in [0..n - 1 -> Int]
  <2>1. \A k \in 0..n - 1 : cc[k] \in Int
    <3> SUFFICES ASSUME NEW k \in 0..n - 1 PROVE cc[k] \in Int
      OBVIOUS
    <3>1. (k0 - k) % n \in Int
      BY <1>6
    <3> QED BY <1>1, <1>5, <3>1, LikenessIsInt
  <2>2. cc = [k \in 0..n - 1 |-> cc[k]]
    BY <1>2
  <2> QED BY <2>1, <2>2
<1>10. cc[k0] > 0
  <2> DEFINE ff == [i \in 0..n - 1 |-> f[i] * f[i]]
  <2>1. PICK j \in 0..n - 1 : f[j] # 0
    BY <1>1
  <2>2. \A z \in Int : z * z \in Int /\ z * z >= 0 /\ (z # 0 => z * z > 0)
    OBVIOUS
  <2>3. /\ ff \in [0..n - 1 -> Int] /\ ff[j] > 0
        /\ \A i \in 0..n - 1 : ff[i] >= 0
    BY <1>1, <2>1, <2>2
  <2>4. L(0) = Total(ff, n)
    <3>1. ASSUME NEW i \in 0..n - 1 PROVE (i + 0) % n = i
      OBVIOUS
    <3>2. [i \in 0..n - 1 |-> f[i] * f[(i + 0) % n]] = ff
      BY <3>1
    <3> QED BY <3>2 DEF Likeness
  <2> HIDE DEF ff
  <2> QED BY <1>7, <2>3, <2>4, TotalIsPositive
<1>11. ASSUME NEW k \in 0..n - 1, k # k0 PROVE cc[k] < cc[k0]
  <2>1. (k0 - k) % n # 0
    <3>1. CASE k0 - k \in 1..n - 1
      <4>1. (k0 - k) % n = k0 - k
        BY <3>1
      <4> QED BY <1>11, <4>1
    <3>2. CASE k0 - k \in -n..-1
      <4>1. (k0 - k) % n = k0 - k + n
        BY <3>2
      <4> QED BY <4>1
    <3> QED BY <1>11, <3>1, <3>2
  <2>2. (k0 - k) % n \in 1..n - 1
    BY <1>6, <2>1
  <2> QED BY <1>5, <1>7, <1>8, <2>2
<1>12. cc[(k0 - 1) % n] = cc[(k0 + 1) % n]
  <2>1. (k0 - 1) % n \in 0..n - 1 /\ (k0 - ((k0 - 1) % n)) % n = 1
    <3>1. CASE k0 = 0
      <4>1. (k0 - 1) % n = n - 1
        BY <3>1
      <4>2. (0 - (n - 1)) % n = 1
        OBVIOUS
      <4> QED BY <3>1, <4>1, <4>2
    <3>2. CASE k0 # 0
      <4>1. (k0 - 1) % n = k0 - 1
        BY <3>2
      <4>2. k0 - (k0 - 1) = 1 /\ 1 % n = 1
        OBVIOUS
      <4> QED BY <3>2, <4>1, <4>2
    <3> QED BY <3>1, <3>2
  <2>2. (k0 + 1) % n \in 0..n - 1 /\ (k0 - ((k0 + 1) % n)) % n = n - 1
    <3>1. CASE k0 = n - 1
      <4>1. (k0 + 1) % n = 0
        BY <3>1
      <4>2. (k0 - 0) % n = n - 1
        BY <3>1
      <4> QED BY <4>1, <4>2
    <3>2. CASE k0 # n - 1
      <4>1. (k0 + 1) % n = k0 + 1
        BY <3>2
      <4>2. k0 - (k0 + 1) = -1 /\ (-1) % n = n - 1
        OBVIOUS
      <4> QED BY <3>2, <4>1, <4>2
    <3> QED BY <3>1, <3>2
  <2>3. cc[(k0 - 1) % n] = L(1)
    BY <1>5, <2>1
  <2>4. cc[(k0 + 1) % n] = L(n - 1)
    BY <1>5, <2>2
  <2>5. L(1) = L(n - 1)
    <3>1. 1 \in 1..n - 1
      OBVIOUS
    <3> QED BY <1>1, <3>1, LikeBothWays
  <2> QED BY <2>3, <2>4, <2>5
<1> QED BY <1>9, <1>10, <1>11, <1>12 DEF PeaksAt, cc

\* Where one entry is above every other.
Highest(f, k0, n) ==
  f \in [0..n - 1 -> Int] /\ \A k \in 0..n - 1 : k # k0 => f[k] < f[k0]

LEMMA OnePeak ==
  ASSUME NEW n \in Nat \ {0}, NEW k0 \in 0..n - 1, NEW f, Highest(f, k0, n)
  PROVE  ArgMax(f) = k0
<1>1. f \in [0..n - 1 -> Int] /\ \A k \in 0..n - 1 : k # k0 => f[k] < f[k0]
  BY DEF Highest
<1> DEFINE p == ArgMax(f)
<1>2. p \in 0..n - 1 /\ \A j \in 0..n - 1 : f[j] <= f[p]
  BY <1>1, ArgMaxIsPeak
<1> HIDE DEF p
<1>3. f[k0] <= f[p] /\ f[k0] \in Int /\ f[p] \in Int
  BY <1>1, <1>2
<1>4. p = k0
  BY <1>1, <1>2, <1>3
<1> QED BY <1>4 DEF p

\* A peak within the window is left alone by it.
LEMMA WindowKeepsPeak ==
  ASSUME NEW n \in Nat \ {0}, NEW k0 \in 0..n - 1, NEW cc, PeaksAt(cc, k0, n),
         NEW max_lag \in Nat, k0 <= max_lag \/ n - max_lag <= k0
  PROVE  /\ Highest(WindowLag(cc, n, max_lag), k0, n)
         /\ ~(max_lag < n \div 2) => WindowLag(cc, n, max_lag) = cc
<1> DEFINE f == WindowLag(cc, n, max_lag)
           h == n \div 2
<1>1. f = [i \in 0..n - 1 |-> IF max_lag < h /\ i \in max_lag + 1..n - max_lag - 1
                              THEN 0 ELSE cc[i]]
  BY DEF WindowLag
<1>2. /\ cc \in [0..n - 1 -> Int] /\ cc[k0] > 0
      /\ \A k \in 0..n - 1 : k # k0 => cc[k] < cc[k0]
  BY DEF PeaksAt
<1>3. h \in Nat
  OBVIOUS
<1> HIDE DEF f, h
<1>4. f \in [0..n - 1 -> Int]
  BY <1>1, <1>2
<1>5. f[k0] = cc[k0]
  BY <1>1, <1>2
<1>6. ASSUME NEW k \in 0..n - 1, k # k0 PROVE f[k] < f[k0]
  <2>1. f[k] = 0 \/ f[k] = cc[k]
    BY <1>1
  <2> QED BY <1>2, <1>5, <1>6, <2>1
<1>7. ~(max_lag < h) => f = cc
  <2>1. cc = [i \in 0..n - 1 |-> cc[i]]
    BY <1>2
  <2> QED BY <1>1, <2>1
<1> QED BY <1>4, <1>6, <1>7 DEF Highest, f, h

\* The refinement of a peak is less than half a sample, and none where the samples
\* on both sides are equal.
Refinement(d) ==
  d = <<d[1], d[2]>> /\ d[1] \in Int /\ d[2] \in Nat \ {0} /\ -d[2] < 2 * d[1] /\ 2 * d[1] < d[2]

LEMMA RefinedByLess ==
  ASSUME NEW n \in Nat, n >= 2, NEW k0 \in 0..n - 1, NEW f, Highest(f, k0, n)
  PROVE  /\ Refinement(Parabola(f, k0, n))
         /\ f[(k0 - 1) % n] = f[(k0 + 1) % n] => Parabola(f, k0, n)[1] = 0
<1> DEFINE b == f[(k0 - 1) % n]
           a == f[(k0 + 1) % n]
           v == f[k0]
           c == 2 * (2 * v - b - a)
<1>1. f \in [0..n - 1 -> Int] /\ \A k \in 0..n - 1 : k # k0 => f[k] < f[k0]
  BY DEF Highest
<1>2. (k0 - 1) % n \in 0..n - 1 /\ (k0 - 1) % n # k0
  <2>1. CASE k0 = 0
    <3>1. (k0 - 1) % n = n - 1
      BY <2>1
    <3> QED BY <2>1, <3>1
  <2>2. CASE k0 # 0
    <3>1. (k0 - 1) % n = k0 - 1
      BY <2>2
    <3> QED BY <2>2, <3>1
  <2> QED BY <2>1, <2>2
<1>3. (k0 + 1) % n \in 0..n - 1 /\ (k0 + 1) % n # k0
  <2>1. CASE k0 = n - 1
    <3>1. (k0 + 1) % n = 0
      BY <2>1
    <3> QED BY <2>1, <3>1
  <2>2. CASE k0 # n - 1
    <3>1. (k0 + 1) % n = k0 + 1
      BY <2>2
    <3> QED BY <2>2, <3>1
  <2> QED BY <2>1, <2>2
<1>4. a \in Int /\ b \in Int /\ v \in Int /\ a < v /\ b < v
  BY <1>1, <1>2, <1>3
<1>5. Parabola(f, k0, n) = IF c = 0 THEN <<0, 1>> ELSE <<a - b, c>>
  BY DEF Parabola
<1> HIDE DEF a, b, v
<1>6. c \in Nat \ {0} /\ -c < 2 * (a - b) /\ 2 * (a - b) < c /\ a - b \in Int
  BY <1>4
<1>7. a = b => a - b = 0
  BY <1>4
<1> HIDE DEF c
<1>8. Parabola(f, k0, n) = <<a - b, c>>
  BY <1>5, <1>6
<1>9. <<a - b, c>>[1] = a - b /\ <<a - b, c>>[2] = c
  OBVIOUS
<1>10. Refinement(<<a - b, c>>)
  BY <1>6, <1>9 DEF Refinement
<1> QED BY <1>7, <1>8, <1>9, <1>10 DEF a, b

\* Division of a whole number of ds and less than one more.
LEMMA DivWhole ==
  ASSUME NEW d \in Nat \ {0}, NEW q \in Int, NEW r \in 0..d - 1
  PROVE  (q * d + r) \div d = q
  OBVIOUS

\* The sample a refined peak is in, to within one.
LEMMA RefinedPeak ==
  ASSUME NEW d \in Nat \ {0}, NEW q \in Int, NEW r \in Int, -d < 2 * r, 2 * r < d
  PROVE  (q * d + r) \div d \in {q - 1, q}
<1>1. CASE r >= 0
  <2>1. r \in 0..d - 1
    BY <1>1
  <2> QED BY <2>1, DivWhole
<1>2. CASE r < 0
  <2>1. d + r \in 0..d - 1 /\ q - 1 \in Int
    BY <1>2
  <2>2. (q - 1) * d + (d + r) = q * d + r
    OBVIOUS
  <2>3. ((q - 1) * d + (d + r)) \div d = q - 1
    BY <2>1, DivWhole
  <2> QED BY <2>2, <2>3
<1> QED BY <1>1, <1>2

LEMMA TimesLess ==
  ASSUME NEW d \in Nat, NEW p \in Int, NEW q \in Int, p < q
  PROVE  p * d + d <= q * d
<1>1. (q - p - 1) * d >= 0
  <2>1. \A x, y \in Nat : x * y >= 0
    OBVIOUS
  <2> QED BY <2>1
<1>2. (q - p - 1) * d = q * d - p * d - d
  OBVIOUS
<1>3. q * d \in Int /\ p * d \in Int
  OBVIOUS
<1> QED BY <1>1, <1>2, <1>3

\* A refined peak of the lower half stays in it, one of the upper half in that: and
\* what it is truncated to is its index or the one nearer to zero.
LEMMA LowPeak ==
  ASSUME NEW h \in Nat, NEW k \in 1..h, NEW num \in Int, NEW den \in Nat \ {0},
         -den < 2 * num, 2 * num < den, k = h => num = 0
  PROVE  k * den + num <= h * den /\ TowardsZero(k * den + num, den) \in {k - 1, k}
<1>1. 0 * den + den <= k * den
  BY TimesLess
<1>2. k < h => k * den + den <= h * den
  BY TimesLess
<1>3. k * den \in Int /\ h * den \in Int
  OBVIOUS
<1>4. k * den + num >= 0
  BY <1>1, <1>3
<1>5. k * den + num <= h * den
  BY <1>2, <1>3
<1>6. (k * den + num) \div den \in {k - 1, k}
  BY RefinedPeak
<1> QED BY <1>4, <1>5, <1>6 DEF TowardsZero

LEMMA HighPeak ==
  ASSUME NEW h \in Nat, NEW n \in Nat, NEW k \in h + 1..n - 1, NEW num \in Int,
         NEW den \in Nat \ {0}, -den < 2 * num, 2 * num < den,
         NEW r, r = k * den + num, NEW up, up = r - n * den
  PROVE  ~(r <= h * den) /\ TowardsZero(up, den) \in {k - n, k - n + 1}
<1>1. h * den + den <= k * den
  BY TimesLess
<1>2. k * den + den <= n * den
  BY TimesLess
<1>3. k * den \in Int /\ h * den \in Int /\ n * den \in Int
  OBVIOUS
<1>4. ~(k * den + num <= h * den)
  BY <1>1, <1>3
<1> DEFINE x == k * den + num - n * den
<1>5. ~(x >= 0)
  BY <1>2, <1>3
<1>6. -x = (n - k) * den + (-num)
  <2>1. (n - k) * den = n * den - k * den
    OBVIOUS
  <2> QED BY <1>3, <2>1
<1>7. (-x) \div den \in {n - k - 1, n - k}
  <2>1. n - k \in Int /\ -num \in Int /\ -den < 2 * (-num) /\ 2 * (-num) < den
    OBVIOUS
  <2>2. ((n - k) * den + (-num)) \div den \in {n - k - 1, n - k}
    BY <2>1, RefinedPeak
  <2> QED BY <1>6, <2>2
<1> HIDE DEF x
<1>8. TowardsZero(x, den) \in {k - n, k - n + 1}
  <2>1. TowardsZero(x, den) = -((-x) \div den)
    BY <1>5 DEF TowardsZero
  <2> QED BY <1>7, <2>1
<1>9. up = x
  BY DEF x
<1> QED BY <1>4, <1>8, <1>9

\* The delay that a peak at index k0 stands for: minus its lag.
LEMMA PeakIsFound ==
  ASSUME NEW reference \in Seq(Int), NEW recording \in Seq(Int), NEW n, n \in Nat, n >= 2,
         n = NextPow2(Len(reference) + Len(recording)),
         NEW k0 \in 0..n - 1,
         PeaksAt(CircularCorrelation(reference, recording, n), k0, n),
         NEW max_lag \in Nat, k0 <= max_lag \/ n - max_lag <= k0
  PROVE  /\ find_offset(reference, recording, max_lag) = -SignedLag(k0, n)
         /\ find_offset_sub_sample(reference, recording, max_lag) \in Int
         /\ find_offset_sub_sample(reference, recording, max_lag) + SignedLag(k0, n) \in -1..1
<1> DEFINE cc   == CircularCorrelation(reference, recording, n)
           corr == WindowLag(cc, n, max_lag)
           d    == Parabola(corr, k0, n)
           num  == d[1]
           den  == d[2]
           r    == k0 * den + num
           up   == r - n * den
           h    == n \div 2
           fine == find_offset_sub_sample(reference, recording, max_lag)
<1>1. n \in Nat \ {0} /\ h \in Nat /\ 2 * h <= n /\ n <= 2 * h + 1
  OBVIOUS
<1>2. Highest(corr, k0, n) /\ (~(max_lag < h) => corr = cc)
  BY <1>1, WindowKeepsPeak
<1>3. ArgMax(corr) = k0
  BY <1>1, <1>2, OnePeak
<1>4. corr = ChirpCorrelation(reference, recording, n, max_lag)
  BY DEF ChirpCorrelation
<1>5. find_offset(reference, recording, max_lag) = -SignedLag(k0, n)
  BY <1>3, <1>4 DEF find_offset
<1>6. /\ k0 \in {0, n - 1} => fine = -SignedLag(k0, n)
      /\ k0 \notin {0, n - 1} /\ r <= h * den => fine = -TowardsZero(r, den)
      /\ k0 \notin {0, n - 1} /\ ~(r <= h * den) => fine = -TowardsZero(up, den)
  <2> DEFINE c == ChirpCorrelation(reference, recording, n, max_lag)
             p == ArgMax(c)
             e == Parabola(c, p, n)
             x == p * e[2] + e[1]
             Read(k, v, w, q) == IF k \in {0, n - 1} THEN -SignedLag(k, n)
                                 ELSE IF v <= h * q THEN -TowardsZero(v, q)
                                 ELSE -TowardsZero(w, q)
  <2>1. fine = Read(p, x, x - n * e[2], e[2])
    BY DEF find_offset_sub_sample
  <2>2. p = k0 /\ x = r /\ x - n * e[2] = up /\ e[2] = den
    BY <1>3, <1>4
  <2>3. fine = Read(k0, r, up, den)
    <3> HIDE DEF Read, p, e, x, den, r, up, fine
    <3> QED BY <2>1, <2>2
  <2> HIDE DEF p, e, x, c, d, num, den, fine, h, r, up
  <2>4. k0 \in {0, n - 1} => fine = -SignedLag(k0, n)
    BY <2>3
  <2>5. k0 \notin {0, n - 1} /\ r <= h * den => fine = -TowardsZero(r, den)
    BY <2>3
  <2>6. k0 \notin {0, n - 1} /\ ~(r <= h * den) => fine = -TowardsZero(up, den)
    BY <2>3
  <2> QED BY <2>4, <2>5, <2>6
<1>7. Refinement(d) /\ (corr[(k0 - 1) % n] = corr[(k0 + 1) % n] => num = 0)
  BY <1>2, RefinedByLess
<1>8. ~(max_lag < h) => num = 0
  BY <1>2, <1>7 DEF PeaksAt
<1>9. num \in Int /\ den \in Nat \ {0} /\ -den < 2 * num /\ 2 * num < den
  BY <1>7 DEF Refinement
<1>10. SignedLag(k0, n) = IF k0 <= h THEN k0 ELSE k0 - n
  BY DEF SignedLag
<1> HIDE DEF d, num, den, h, corr, cc, fine, r, up
<1>11. fine \in Int /\ fine + SignedLag(k0, n) \in -1..1
  <2>1. CASE k0 \in {0, n - 1}
    <3>1. fine = -SignedLag(k0, n)
      BY <1>6, <2>1
    <3>2. SignedLag(k0, n) \in Int
      BY <1>1, <1>10
    <3>3. \A x \in Int : -x + x = 0
      OBVIOUS
    <3> QED BY <3>1, <3>2, <3>3
  <2>2. CASE k0 \notin {0, n - 1} /\ k0 <= h
    <3>1. k0 \in 1..h
      BY <1>1, <2>2
    <3>2. k0 = h => num = 0
      BY <1>1, <1>8
    <3>3. r <= h * den /\ TowardsZero(r, den) \in {k0 - 1, k0}
      BY <1>1, <1>9, <3>1, <3>2, LowPeak DEF r
    <3>4. fine = -TowardsZero(r, den)
      BY <1>6, <2>2, <3>3
    <3>5. fine \in {-(k0 - 1), -k0}
      BY <3>3, <3>4
    <3> QED BY <1>10, <2>2, <3>5
  <2>3. CASE k0 \notin {0, n - 1} /\ k0 > h
    <3>1. k0 \in h + 1..n - 1
      BY <1>1, <2>3
    <3>2. ~(r <= h * den) /\ TowardsZero(up, den) \in {k0 - n, k0 - n + 1}
      <4>1. r = k0 * den + num /\ up = r - n * den
        BY DEF r, up
      <4> QED BY <1>1, <1>9, <3>1, <4>1, HighPeak
    <3>3. fine = -TowardsZero(up, den)
      BY <1>6, <2>3, <3>2
    <3>4. fine \in {-(k0 - n), -(k0 - n + 1)}
      BY <3>2, <3>3
    <3>5. SignedLag(k0, n) = k0 - n
      BY <1>1, <1>10, <2>3
    <3>6. fine \in Int /\ fine + (k0 - n) \in {0, -1}
      <4> DEFINE y == k0 - n
      <4>1. y \in Int
        OBVIOUS
      <4>2. fine \in {-y, -(y + 1)}
        BY <3>4
      <4> HIDE DEF y
      <4>3. fine \in Int /\ fine + y \in {0, -1}
        BY <4>1, <4>2
      <4> QED BY <4>3 DEF y
    <3> QED BY <3>5, <3>6
  <2> QED BY <1>1, <2>1, <2>2, <2>3
<1> QED BY <1>5, <1>11 DEF fine

\* The transform is at least as long as was asked for.
LEMMA PowerIsEnough ==
  ASSUME NEW n \in Nat
  PROVE  NextPow2(n) \in Nat /\ NextPow2(n) >= n
<1> DEFINE Is(g) == g = [k \in 0..n |-> IF k = 0 THEN 1 ELSE Doubled(g[k - 1], n)]
           F == [p \in (1..n) \X Nat |-> Doubled(p[2], n)]
           s == CHOOSE g : Is(g)
<1>1. \A x \in Nat : Doubled(x, n) \in Nat
  BY DEF Doubled
<1>2. F \in [(1..n) \X Nat -> Nat] /\ 1 \in Nat
  BY <1>1
<1>3. PICK g : Run(g, Nat, 1, n, F)
  <2> HIDE DEF F
  <2> QED BY <1>2, RunExists
<1> HIDE DEF Is, s
<1>4. g \in [0..n -> Nat] /\ g[0] = 1 /\ \A i \in 1..n : g[i] = Doubled(g[i - 1], n)
  <2> HIDE DEF F
  <2>0. g \in [0..n -> Nat]
    BY <1>3 DEF Run
  <2>1. \A i \in 1..n : g[i - 1] \in Nat
    BY <2>0
  <2>2. \A i \in 1..n : F[<<i, g[i - 1]>>] = Doubled(g[i - 1], n)
    BY <2>1 DEF F
  <2> QED BY <1>3, <2>2 DEF Run
<1>5. Is(g)
  <2>1. \A i \in 0..n : i # 0 => i \in 1..n
    OBVIOUS
  <2>2. g = [i \in 0..n |-> g[i]]
    BY <1>4
  <2>3. \A i \in 0..n : g[i] = IF i = 0 THEN 1 ELSE Doubled(g[i - 1], n)
    BY <1>4, <2>1
  <2> QED BY <2>2, <2>3 DEF Is
<1>6. Is(s)
  BY <1>5 DEF s
<1>7. NextPow2(n) = s[n]
  BY DEF NextPow2, Is, s
<1>8. \A i \in 0..n : s[i] = IF i = 0 THEN 1 ELSE Doubled(s[i - 1], n)
  <2>1. s = [k \in 0..n |-> IF k = 0 THEN 1 ELSE Doubled(s[k - 1], n)]
    BY <1>6 DEF Is
  <2> QED BY <2>1
<1> DEFINE S == {i \in 0..n : s[i] \in Nat /\ (s[i] >= n \/ s[i] >= i + 1)}
<1>9. 0 \in S
  BY <1>8
<1>10. ASSUME NEW i \in 0..n - 1, i \in S PROVE i + 1 \in S
  <2>1. i + 1 \in 0..n /\ i + 1 # 0 /\ (i + 1) - 1 = i
    OBVIOUS
  <2>2. s[i + 1] = Doubled(s[i], n)
    BY <1>8, <2>1
  <2>3. s[i] \in Nat /\ (s[i] >= n \/ s[i] >= i + 1)
    BY <1>10
  <2>4. Doubled(s[i], n) = IF s[i] < n THEN 2 * s[i] ELSE s[i]
    BY DEF Doubled
  <2>5. s[i + 1] \in Nat /\ (s[i + 1] >= n \/ s[i + 1] >= i + 2)
    BY <2>2, <2>3, <2>4
  <2> QED BY <2>1, <2>5
<1> HIDE DEF S
<1>11. \A i \in 0..n : i \in S
  BY <1>9, <1>10, UpTo
<1>12. n \in S
  BY <1>11
<1>13. s[n] \in Nat /\ (s[n] >= n \/ s[n] >= n + 1)
  BY <1>12 DEF S
<1> QED BY <1>7, <1>13

LEMMA ChirpIsHeard ==
  Len(Chirp) \in Nat \ {0} /\ Chirp \in [1..Len(Chirp) -> Int] /\ Chirp \in Seq(Int)
<1>1. Chirp \in Seq(Int) /\ \E i \in 1..Len(Chirp) : Chirp[i] # 0
  BY LagsAssumption
<1>2. Len(Chirp) \in Nat /\ Chirp \in [1..Len(Chirp) -> Int]
  BY <1>1
<1>3. Len(Chirp) # 0
  <2>1. PICK i \in 1..Len(Chirp) : TRUE
    BY <1>1
  <2> QED BY <1>2, <2>1
<1> QED BY <1>1, <1>2, <1>3

LEMMA RecordingIs ==
  ASSUME NEW d \in Nat, NEW size \in Nat
  PROVE  RecordingWith(d, size) \in Seq(Int) /\ Len(RecordingWith(d, size)) = size
<1> DEFINE s == RecordingWith(d, size)
<1>1. s = [i \in 1..size |-> IF i - d \in 1..Len(Chirp) THEN Chirp[i - d] ELSE 0]
  BY DEF RecordingWith
<1>2. \A i \in 1..size : (IF i - d \in 1..Len(Chirp) THEN Chirp[i - d] ELSE 0) \in Int
  BY ChirpIsHeard
<1> HIDE DEF s
<1>3. s \in [1..size -> Int]
  BY <1>1, <1>2
<1>4. s \in Seq(Int) /\ Len(s) = size
  BY <1>3
<1> QED BY <1>4 DEF s

\* A signal of which the transform's input has a copy from index a on.
Placed(c, a, n) ==
  [i \in 0..n - 1 |-> IF i - a \in 0..Len(c) - 1 THEN c[i - a + 1] ELSE 0]

LEMMA PlacedFills ==
  ASSUME NEW c \in Seq(Int), \E i \in 1..Len(c) : c[i] # 0,
         NEW n \in Nat, 2 * Len(c) <= n, NEW a \in Nat, a + Len(c) <= n
  PROVE  FillsHalf(Placed(c, a, n), n)
<1> DEFINE f == Placed(c, a, n)
<1>1. Len(c) \in Nat /\ c \in [1..Len(c) -> Int]
  OBVIOUS
<1>2. f = [i \in 0..n - 1 |-> IF i - a \in 0..Len(c) - 1 THEN c[i - a + 1] ELSE 0]
  BY DEF Placed
<1> HIDE DEF f
<1>3. ASSUME NEW i \in 0..n - 1, i - a \in 0..Len(c) - 1 PROVE c[i - a + 1] \in Int
  <2>1. i - a + 1 \in 1..Len(c)
    BY <1>1, <1>3
  <2> QED BY <1>1, <2>1
<1>4. f \in [0..n - 1 -> Int]
  BY <1>2, <1>3
<1>5. \E i \in 0..n - 1 : f[i] # 0
  <2>1. PICK i \in 1..Len(c) : c[i] # 0
    OBVIOUS
  <2> DEFINE j == a + i - 1
  <2>2. j \in 0..n - 1 /\ j - a \in 0..Len(c) - 1 /\ j - a + 1 = i
    BY <1>1
  <2> HIDE DEF j
  <2>3. f[j] = c[i]
    BY <1>2, <2>2
  <2> QED BY <2>1, <2>2, <2>3
<1>6. ASSUME NEW i \in 0..n - 1, f[i] # 0 PROVE i \in a..a + Len(c) - 1
  <2>1. i - a \in 0..Len(c) - 1
    BY <1>2, <1>6
  <2> QED BY <1>1, <2>1
<1>7. \E b, size \in Nat : /\ 2 * size <= n /\ b + size <= n
                           /\ \A i \in 0..n - 1 : f[i] # 0 => i \in b..b + size - 1
  BY <1>1, <1>6
<1> QED BY <1>4, <1>5, <1>7 DEF FillsHalf, f

\* Two copies of a signal are rotations of each other.
LEMMA PlacedApart ==
  ASSUME NEW c \in Seq(Int), NEW n \in Nat \ {0}, NEW a \in Nat, NEW b \in Nat,
         a + Len(c) <= n, b + Len(c) <= n,
         NEW k0 \in 0..n - 1, k0 = a - b \/ k0 = a - b + n
  PROVE  Placed(c, b, n) = Rotated(Placed(c, a, n), k0, n)
<1> DEFINE f == Placed(c, a, n)
           g == Placed(c, b, n)
<1>1. Len(c) \in Nat
  OBVIOUS
<1>2. /\ f = [i \in 0..n - 1 |-> IF i - a \in 0..Len(c) - 1 THEN c[i - a + 1] ELSE 0]
      /\ g = [i \in 0..n - 1 |-> IF i - b \in 0..Len(c) - 1 THEN c[i - b + 1] ELSE 0]
  BY DEF Placed
<1> HIDE DEF f, g
<1>3. ASSUME NEW i \in 0..n - 1 PROVE g[i] = f[(i + k0) % n]
  <2> DEFINE j == (i + k0) % n
  <2>1. j \in 0..n - 1 /\ (j = i + k0 \/ j = i + k0 - n)
    <3>1. i + k0 \in 0..n - 1 \/ i + k0 \in n..2 * n - 1
      OBVIOUS
    <3> DEFINE x == i + k0
    <3>2. x \in Int
      OBVIOUS
    <3> HIDE DEF x
    <3>3. /\ x \in 0..n - 1 => x % n = x
          /\ x \in n..2 * n - 1 => x % n = x - n
          /\ x % n \in 0..n - 1
      BY <3>2, Wrapped
    <3> QED BY <3>1, <3>3 DEF x
  <2> HIDE DEF j
  <2>2. j = i - b + a - n \/ j = i - b + a \/ j = i - b + a + n
    BY <2>1
  <2>3. i - b \in 0..Len(c) - 1 => j - a = i - b
    BY <1>1, <2>1, <2>2
  <2>4. j - a \in 0..Len(c) - 1 => j - a = i - b
    BY <1>1, <2>1, <2>2
  <2>5. g[i] = f[j]
    <3>1. g[i] = IF i - b \in 0..Len(c) - 1 THEN c[i - b + 1] ELSE 0
      BY <1>2
    <3>2. f[j] = IF j - a \in 0..Len(c) - 1 THEN c[j - a + 1] ELSE 0
      BY <1>2, <2>1
    <3>3. CASE i - b \in 0..Len(c) - 1
      BY <2>3, <3>1, <3>2, <3>3
    <3>4. CASE i - b \notin 0..Len(c) - 1
      BY <2>4, <3>1, <3>2, <3>4
    <3> QED BY <3>3, <3>4
  <2> QED BY <2>5 DEF j
<1>4. g = [i \in 0..n - 1 |-> g[i]]
  BY <1>2
<1> QED BY <1>3, <1>4 DEF Rotated, f, g

\* The chirp, the recording it starts at sample d of, and a click are such copies.
LEMMA ChirpIsPlaced ==
  ASSUME NEW n \in Nat, Len(Chirp) <= n
  PROVE  Padded(Chirp, n) = Placed(Chirp, 0, n)
<1>1. ASSUME NEW i \in 0..n - 1
      PROVE  (IF i < Len(Chirp) THEN Chirp[i + 1] ELSE 0)
               = (IF i - 0 \in 0..Len(Chirp) - 1 THEN Chirp[i - 0 + 1] ELSE 0)
  <2>1. i < Len(Chirp) <=> i - 0 \in 0..Len(Chirp) - 1
    BY ChirpIsHeard
  <2>2. i - 0 + 1 = i + 1
    OBVIOUS
  <2> QED BY <2>1, <2>2
<1> QED BY <1>1 DEF Padded, Placed

LEMMA RecordingIsPlaced ==
  ASSUME NEW n \in Nat, NEW size \in Nat, size <= n, NEW d \in Nat, d + Len(Chirp) <= size
  PROVE  Padded(RecordingWith(d, size), n) = Placed(Chirp, d, n)
<1> DEFINE s == RecordingWith(d, size)
           p == Padded(s, n)
           q == Placed(Chirp, d, n)
<1>1. s = [i \in 1..size |-> IF i - d \in 1..Len(Chirp) THEN Chirp[i - d] ELSE 0]
  BY DEF RecordingWith
<1>2. s \in Seq(Int) /\ Len(s) = size
  BY RecordingIs
<1> HIDE DEF s
<1>3. p = [i \in 0..n - 1 |-> IF i < size THEN s[i + 1] ELSE 0]
  BY <1>2 DEF Padded
<1>4. q = [i \in 0..n - 1 |-> IF i - d \in 0..Len(Chirp) - 1 THEN Chirp[i - d + 1] ELSE 0]
  BY DEF Placed
<1> HIDE DEF p, q
<1>5. ASSUME NEW i \in 0..n - 1 PROVE p[i] = q[i]
  <2>1. CASE i < size
    <3>1. i + 1 \in 1..size /\ (i + 1) - d = i - d + 1
      BY <2>1
    <3>2. p[i] = IF (i + 1) - d \in 1..Len(Chirp) THEN Chirp[(i + 1) - d] ELSE 0
      BY <1>1, <1>3, <2>1, <3>1
    <3>3. (i + 1) - d \in 1..Len(Chirp) <=> i - d \in 0..Len(Chirp) - 1
      BY ChirpIsHeard
    <3> QED BY <1>4, <3>1, <3>2, <3>3
  <2>2. CASE ~(i < size)
    <3>1. i - d \notin 0..Len(Chirp) - 1
      BY <2>2, ChirpIsHeard
    <3> QED BY <1>3, <1>4, <2>2, <3>1
  <2> QED BY <2>1, <2>2
<1>6. p = [i \in 0..n - 1 |-> p[i]] /\ q = [i \in 0..n - 1 |-> q[i]]
  BY <1>3, <1>4
<1> QED BY <1>5, <1>6 DEF p, q, s

\* Each call of the chirp search, with either of the two signals late.
LEMMA ChirpIsFound ==
  ASSUME NEW size \in Nat, NEW max_lag \in Nat, NEW d \in Nat,
         d + Len(Chirp) <= size, d <= max_lag,
         NEW n, n = NextPow2(Len(Chirp) + size)
  PROVE  LET late == RecordingWith(d, size)
         IN  /\ 2 * d \in -n..n - 1
                  => /\ find_offset(Chirp, late, max_lag) = d
                     /\ find_offset_sub_sample(Chirp, late, max_lag) - d \in -1..1
             /\ 2 * (-d) \in -n..n - 1
                  => /\ find_offset(late, Chirp, max_lag) = -d
                     /\ find_offset_sub_sample(late, Chirp, max_lag) - (-d) \in -1..1
<1> DEFINE late == RecordingWith(d, size)
           L == Len(Chirp)
           h == n \div 2
<1>1. L \in Nat \ {0} /\ Chirp \in Seq(Int) /\ (\E i \in 1..L : Chirp[i] # 0)
  BY ChirpIsHeard, LagsAssumption
<1>2. late \in Seq(Int) /\ Len(late) = size
  BY RecordingIs
<1>3. n \in Nat \ {0} /\ n >= L + size /\ n >= 2
  <2>1. L + size \in Nat
    BY <1>1
  <2>2. NextPow2(L + size) \in Nat /\ NextPow2(L + size) >= L + size
    BY <2>1, PowerIsEnough
  <2>3. size \in Nat /\ L <= size
    BY <1>1
  <2> HIDE DEF L
  <2> QED BY <1>1, <2>2, <2>3 DEF L
<1>4. /\ 2 * L <= n /\ L <= n /\ size <= n /\ d + L <= n /\ 0 + L <= n /\ d < n
      /\ size + L = L + size
  BY <1>1, <1>3
<1>5. Padded(Chirp, n) = Placed(Chirp, 0, n) /\ Padded(late, n) = Placed(Chirp, d, n)
  BY <1>3, <1>4, ChirpIsPlaced, RecordingIsPlaced
<1>6. FillsHalf(Padded(Chirp, n), n) /\ FillsHalf(Padded(late, n), n)
  BY <1>1, <1>3, <1>4, <1>5, PlacedFills
<1>7. h \in Nat /\ 2 * h <= n /\ n <= 2 * h + 1
  BY <1>3
<1> HIDE DEF late, L, h
<1>8. ASSUME NEW k0 \in 0..n - 1 PROVE SignedLag(k0, n) = IF k0 <= h THEN k0 ELSE k0 - n
  BY DEF SignedLag, h
<1>9. ASSUME 2 * d \in -n..n - 1
      PROVE  /\ find_offset(Chirp, late, max_lag) = d
             /\ find_offset_sub_sample(Chirp, late, max_lag) - d \in -1..1
  <2> DEFINE k0 == IF d = 0 THEN 0 ELSE n - d
  <2>1. /\ k0 \in 0..n - 1 /\ (k0 = 0 - d \/ k0 = 0 - d + n)
        /\ (k0 <= max_lag \/ n - max_lag <= k0)
    BY <1>3, <1>4
  <2>2. SignedLag(k0, n) = -d
    <3>1. d # 0 => ~(n - d <= h)
      BY <1>3, <1>7, <1>9
    <3>2. (n - d) - n = -d
      BY <1>3
    <3>3. CASE d = 0
      BY <1>7, <1>8, <2>1, <3>3
    <3>4. CASE d # 0
      BY <1>8, <2>1, <3>1, <3>2, <3>4
    <3> QED BY <3>3, <3>4
  <2> HIDE DEF k0
  <2>3. Padded(late, n) = Rotated(Padded(Chirp, n), k0, n)
    <3>1. d + Len(Chirp) <= n /\ 0 + Len(Chirp) <= n /\ 0 - d = -d
      BY <1>3, <1>4 DEF L
    <3>2. Len(Chirp) \in Nat /\ Chirp \in Seq(Int)
      BY <1>1
    <3>3. Placed(Chirp, d, n) = Rotated(Placed(Chirp, 0, n), k0, n)
      BY <1>3, <2>1, <3>1, <3>2, PlacedApart
    <3> QED BY <1>5, <3>3
  <2>4. PeaksAt(CircularCorrelation(Chirp, late, n), k0, n)
    BY <1>3, <1>6, <2>1, <2>3, CorrelationPeaks
  <2>5. n = NextPow2(Len(Chirp) + Len(late))
    BY <1>2
  <2>6. /\ find_offset(Chirp, late, max_lag) = -SignedLag(k0, n)
        /\ find_offset_sub_sample(Chirp, late, max_lag) \in Int
        /\ find_offset_sub_sample(Chirp, late, max_lag) + SignedLag(k0, n) \in -1..1
    BY <1>1, <1>2, <1>3, <2>1, <2>4, <2>5, PeakIsFound
  <2>7. -(-d) = d /\ \A x \in Int : x + (-d) = x - d
    OBVIOUS
  <2> QED BY <2>2, <2>6, <2>7
<1>10. ASSUME 2 * (-d) \in -n..n - 1
       PROVE  /\ find_offset(late, Chirp, max_lag) = -d
              /\ find_offset_sub_sample(late, Chirp, max_lag) - (-d) \in -1..1
  <2>1. d \in 0..n - 1 /\ d = d - 0 /\ (d <= max_lag \/ n - max_lag <= d) /\ d <= h
    BY <1>3, <1>4, <1>7, <1>10
  <2>2. SignedLag(d, n) = d
    BY <1>8, <2>1
  <2>3. Padded(Chirp, n) = Rotated(Padded(late, n), d, n)
    <3>1. d + Len(Chirp) <= n /\ 0 + Len(Chirp) <= n /\ d - 0 = d
      BY <1>3, <1>4 DEF L
    <3>2. Len(Chirp) \in Nat /\ Chirp \in Seq(Int)
      BY <1>1
    <3>3. Placed(Chirp, 0, n) = Rotated(Placed(Chirp, d, n), d, n)
      BY <1>3, <2>1, <3>1, <3>2, PlacedApart
    <3> QED BY <1>5, <3>3
  <2>4. PeaksAt(CircularCorrelation(late, Chirp, n), d, n)
    BY <1>3, <1>6, <2>1, <2>3, CorrelationPeaks
  <2>5. n = NextPow2(Len(late) + Len(Chirp))
    BY <1>2, <1>4 DEF L
  <2>6. /\ find_offset(late, Chirp, max_lag) = -SignedLag(d, n)
        /\ find_offset_sub_sample(late, Chirp, max_lag) \in Int
        /\ find_offset_sub_sample(late, Chirp, max_lag) + SignedLag(d, n) \in -1..1
    BY <1>1, <1>2, <1>3, <2>1, <2>4, <2>5, PeakIsFound
  <2>7. \A x \in Int : x - (-d) = x + d
    OBVIOUS
  <2> QED BY <2>2, <2>6, <2>7
<1> QED BY <1>9, <1>10 DEF late

\* The chirp is found wherever it starts within half of the transform, whatever signal
\* it is and whichever signal is late, and refined to less than a sample: for every
\* chirp, every length of recording and every window (correlation.py 36-52, 65-94,
\* 97-114).
THEOREM LagsAreRead == LagsSpec => []LagsAreSigned
<1>1. LagsInit => LagsAreSigned
  BY DEF LagsInit, LagsAreSigned
<1>2. ASSUME LagsAreSigned, [LagsNext]_trial PROVE LagsAreSigned'
  <2>1. CASE UNCHANGED trial
    BY <1>2, <2>1 DEF LagsAreSigned
  <2>2. ASSUME NEW size \in Len(Chirp)..MaxRecording, NEW max_lag \in MaxLags,
               NEW d \in 0..MaxRecording, FindChirp(size, max_lag, d)
        PROVE  LagsAreSigned'
    <3> DEFINE late == RecordingWith(d, size)
               n == NextPow2(Len(Chirp) + size)
               fine1 == find_offset_sub_sample(Chirp, late, max_lag)
               fine2 == find_offset_sub_sample(late, Chirp, max_lag)
    <3>1. size \in Nat /\ max_lag \in Nat /\ d \in Nat
      BY ChirpIsHeard, LagsAssumption
    <3>2. d + Len(Chirp) <= size /\ d <= max_lag
      BY <2>2, <3>1, ChirpIsHeard DEF FindChirp, LowerOf
    <3>3. Len(late) = size /\ size + Len(Chirp) = Len(Chirp) + size
      BY <3>1, RecordingIs, ChirpIsHeard
    <3>4. \/ trial' = [of |-> "chirp", delay |-> d, n |-> n,
                       lag |-> find_offset(Chirp, late, max_lag), fine |-> fine1]
          \/ trial' = [of |-> "chirp", delay |-> -d, n |-> n,
                       lag |-> find_offset(late, Chirp, max_lag), fine |-> fine2]
      BY <2>2, <3>3 DEF FindChirp
    <3>5. /\ 2 * d \in -n..n - 1
               => find_offset(Chirp, late, max_lag) = d /\ fine1 - d \in -1..1
          /\ 2 * (-d) \in -n..n - 1
               => find_offset(late, Chirp, max_lag) = -d /\ fine2 - (-d) \in -1..1
      BY <3>1, <3>2, ChirpIsFound
    <3> HIDE DEF late, n, fine1, fine2
    <3> QED BY <3>4, <3>5 DEF LagsAreSigned
  <2> QED BY <1>2, <2>1, <2>2 DEF LagsNext
<1> QED BY <1>1, <1>2, PTL DEF LagsSpec

(****************************** a session ********************************)

\* A step of the session is a step of its program and leaves the others alone.
LEMMA ProgramsStart ==
  ProgramsInit => /\ BatchInit /\ DriverInit /\ FetchInit /\ BootInit /\ LiveInit /\ DialInInit
                  /\ LagsInit /\ WireInit
  BY DEF ProgramsInit

LEMMA ProgramsMove ==
  ASSUME [ProgramsNext]_programVars
  PROVE  /\ [BatchNext]_batchVars
         /\ [DriverNext]_driverVars
         /\ [FetchNext]_fetchVars
         /\ [BootNext]_bootVars
         /\ [LiveNext]_liveVars
         /\ [DialInNext]_dialVars
         /\ [LagsNext]_trial
         /\ [WireNext]_wire
<1>1. \/ BatchNext /\ UNCHANGED <<driverVars, fetchVars, bootVars, liveVars, dialVars, trial, wire>>
      \/ DriverNext /\ UNCHANGED <<batchVars, fetchVars, bootVars, liveVars, dialVars, trial, wire>>
      \/ FetchNext /\ UNCHANGED <<batchVars, driverVars, bootVars, liveVars, dialVars, trial, wire>>
      \/ BootNext /\ UNCHANGED <<batchVars, driverVars, fetchVars, liveVars, dialVars, trial, wire>>
      \/ LiveNext /\ UNCHANGED <<batchVars, driverVars, fetchVars, bootVars, dialVars, trial, wire>>
      \/ DialInNext /\ UNCHANGED <<batchVars, driverVars, fetchVars, bootVars, liveVars, trial, wire>>
      \/ LagsNext /\ UNCHANGED <<batchVars, driverVars, fetchVars, bootVars, liveVars, dialVars, wire>>
      \/ WireNext /\ UNCHANGED <<batchVars, driverVars, fetchVars, bootVars, liveVars, dialVars, trial>>
      \/ UNCHANGED <<batchVars, driverVars, fetchVars, bootVars, liveVars, dialVars, trial, wire>>
  BY DEF ProgramsNext, programVars
<1> QED BY <1>1

\* The session of every program implements each program's own specification.
LEMMA ProgramsApart ==
  ProgramsSpec => /\ BatchSpec /\ DriverSpec /\ FetchSpec /\ BootSpec /\ LiveSpec /\ DialInSpec
                  /\ LagsSpec /\ WireSpec
<1> QED BY ProgramsStart, ProgramsMove, PTL
        DEF ProgramsSpec, BatchSpec, DriverSpec, FetchSpec, BootSpec, LiveSpec, DialInSpec, LagsSpec, WireSpec

\* What holds of every program in every session, for any phones, files, stems,
\* speakers, models, viewers, dials, headers and bounds.
SessionInv ==
  /\ NothingTorn /\ LatestRunTogether /\ RecordedAsOwn
  /\ StemsInStep /\ SpeakersToldApart
  /\ FetchedModelLoads /\ AudioUnbroken
  /\ DialedWhole /\ LagsAreSigned /\ FramedIsReadBack

\* A session with any of the laptop's programs keeps what was proved of each,
\* whichever the command line starts (cli.py 20-205).
THEOREM SessionsAreSafe == ProgramsSpec => []SessionInv /\ StampSettles
<1>1. NothingTorn /\ LatestRunTogether /\ RecordedAsOwn /\ StemsInStep /\ SpeakersToldApart
      /\ FetchedModelLoads /\ AudioUnbroken /\ DialedWhole
      /\ LagsAreSigned /\ FramedIsReadBack => SessionInv
  BY DEF SessionInv
<1> QED BY <1>1, ProgramsApart, TornIsRefused, LatestRunLoads, NamesAreRight,
           EveryTurnAFrame, TracksAreSpeakers, FetchLeavesModel, StampIsSettled,
           NoFrameUnheard, DialsAreWhole, LagsAreRead, PacketsReadBack, PTL

=============================================================================
