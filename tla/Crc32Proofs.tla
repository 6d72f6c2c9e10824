---------------------------- MODULE Crc32Proofs -----------------------------
(***************************************************************************)
(* That crc32.c computes the checksum, for messages of every length.       *)
(*                                                                         *)
(* What a recursive function does is an induction.  Induction is stated    *)
(* here for a set of numbers, and the division for one register after the  *)
(* other.  The division is linear in the register and the message, and it  *)
(* only shifts a register whose own upper bits come in as the message:     *)
(* together with the table this makes eight of its turns one of the code.  *)
(***************************************************************************)
EXTENDS Crc32, WellFoundedInduction, TLAPS

-----------------------------------------------------------------------------
(* Induction. *)

LEMMA LessIsWellFounded ==
  \E R : /\ IsWellFoundedOn(R, Nat)
         /\ \A i, j \in Nat : <<i, j>> \in R <=> i < j
<1>1. \A i, j \in Nat : <<i, j>> \in OpToRel(<, Nat) <=> i < j
  BY DEF OpToRel
<1>2. QED
  BY <1>1, NatLessThanWellFounded

LEMMA LeastElement ==
  ASSUME NEW T, T \subseteq Nat, T # {}
  PROVE  \E x \in T : \A y \in T : x <= y
<1>1. PICK R : /\ IsWellFoundedOn(R, Nat)
               /\ \A i, j \in Nat : <<i, j>> \in R <=> i < j
  BY LessIsWellFounded
<1>2. \E x \in T : \A y \in T : ~ (<<y, x>> \in R)
  <2>1. IsWellFoundedOn(R, Nat)
    BY <1>1
  <2>2. QED
    BY <2>1, WFMin
<1>3. PICK x \in T : \A y \in T : ~ (<<y, x>> \in R)
  BY <1>2
<1>4. \A y \in T : ~ (y < x)
  BY <1>1, <1>3
<1>5. QED
  BY <1>4

(* What holds at 0, and at n + 1 if it holds at n, holds for every number:
   a set of numbers takes the place of the predicate. *)
LEMMA Induction ==
  ASSUME NEW S, 0 \in S, \A n \in Nat : n \in S => n + 1 \in S
  PROVE  Nat \subseteq S
<1>1. SUFFICES ASSUME Nat \ S # {} PROVE FALSE
  OBVIOUS
<1>2. PICK x \in Nat \ S : \A y \in Nat \ S : x <= y
  BY <1>1, LeastElement
<1>3. x # 0 /\ x - 1 \in Nat \ S
  BY <1>2
<1>4. QED
  BY <1>2, <1>3

-----------------------------------------------------------------------------
(* Functions that are defined step by step. *)

(* f starts with c and goes on with step[1], step[2] ... up to n. *)
IsRun(f, c, step, n) ==
  f = [i \in 0 .. n |-> IF i = 0 THEN c ELSE step[i][f[i - 1]]]

LEMMA RunValues ==
  ASSUME NEW f, NEW c, NEW step, NEW n \in Nat, IsRun(f, c, step, n)
  PROVE  /\ f[0] = c
         /\ \A i \in 1 .. n : f[i] = step[i][f[i - 1]]
<1>1. 0 \in 0 .. n /\ \A i \in 1 .. n : i \in 0 .. n /\ i # 0
  OBVIOUS
<1>2. QED
  BY <1>1, Zenon DEF IsRun

LEMMA ValuesRun ==
  ASSUME NEW f, NEW c, NEW step, NEW n \in Nat,
         f = [i \in 0 .. n |-> f[i]],
         f[0] = c,
         \A i \in 1 .. n : f[i] = step[i][f[i - 1]]
  PROVE  IsRun(f, c, step, n)
<1>1. \A i \in 0 .. n : i # 0 => i \in 1 .. n
  OBVIOUS
<1>2. \A i \in 0 .. n : f[i] = IF i = 0 THEN c ELSE step[i][f[i - 1]]
  BY <1>1, Zenon
<1>3. QED
  BY <1>2, Zenon DEF IsRun

LEMMA RunExists ==
  ASSUME NEW c, NEW step, NEW n \in Nat
  PROVE  \E f : IsRun(f, c, step, n)
<1> DEFINE S == {m \in Nat : \E f : IsRun(f, c, step, m)}
<1>1. 0 \in S
  <2> DEFINE f == [i \in 0 .. 0 |-> c]
  <2>1. /\ f = [i \in 0 .. 0 |-> f[i]]
        /\ f[0] = c
        /\ \A i \in 1 .. 0 : f[i] = step[i][f[i - 1]]
    OBVIOUS
  <2> HIDE DEF f
  <2>2. IsRun(f, c, step, 0)
    BY <2>1, ValuesRun
  <2>3. QED
    BY <2>2
<1>2. ASSUME NEW m \in Nat, m \in S
      PROVE  m + 1 \in S
  <2>1. PICK f : IsRun(f, c, step, m)
    BY <1>2
  <2> DEFINE g == [i \in 0 .. m + 1 |-> IF i = m + 1 THEN step[m + 1][f[m]] ELSE f[i]]
  <2>2. f[0] = c /\ \A i \in 1 .. m : f[i] = step[i][f[i - 1]]
    BY <2>1, RunValues
  <2>3. g[m + 1] = step[m + 1][f[m]] /\ \A i \in 0 .. m : g[i] = f[i]
    OBVIOUS
  <2>4. g = [i \in 0 .. m + 1 |-> g[i]]
    OBVIOUS
  <2> HIDE DEF g
  <2>5. ASSUME NEW i \in 1 .. m + 1
        PROVE  g[i] = step[i][g[i - 1]]
    <3>1. CASE i = m + 1
      BY <3>1, <2>3
    <3>2. CASE i # m + 1
      <4>1. i \in 1 .. m /\ i \in 0 .. m /\ i - 1 \in 0 .. m
        BY <3>2
      <4>2. QED
        BY <4>1, <2>2, <2>3, Zenon
    <3>3. QED
      BY <3>1, <3>2
  <2>6. g[0] = c
    BY <2>2, <2>3
  <2>7. IsRun(g, c, step, m + 1)
    <3>1. m + 1 \in Nat
      OBVIOUS
    <3>2. QED
      BY <3>1, <2>4, <2>5, <2>6, ValuesRun
  <2>8. QED
    BY <2>7
<1>3. Nat \subseteq S
  <2> HIDE DEF S
  <2> QED
    BY <1>1, <1>2, Induction
<1>4. QED
  BY <1>3

-----------------------------------------------------------------------------
(* Words. *)

Byte == SUBSET ByteBits
Reg  == SUBSET Bit

LEMMA WordType ==
  /\ \A w, n : Shl(w, n) \in Reg
  /\ \A w : Upper(w) \in Byte /\ Complement(w) \in Reg
  /\ \A v, w \in Reg : Xor(v, w) \in Reg
  /\ \A v, w \in Byte : Xor(v, w) \in Byte
  /\ Polynomial \in Reg
  /\ AllOnes \in Reg /\ {} \in Reg /\ {} \in Byte
  BY DEF Byte, Reg, Shl, Upper, Complement, Xor, Polynomial, Word, AllOnes, Bit, BitsOf

LEMMA XorFacts ==
  /\ \A w : Xor(w, {}) = w /\ Xor({}, w) = w /\ Xor(w, w) = {}
  /\ \A v, w : Xor(v, Xor(v, w)) = w
  BY DEF Xor

LEMMA ShlXor ==
  ASSUME NEW v, NEW w, NEW n
  PROVE  Shl(Xor(v, w), n) = Xor(Shl(v, n), Shl(w, n))
  BY DEF Shl, Xor

LEMMA ShlShl ==
  ASSUME NEW w \in Reg, NEW m \in Nat, NEW n \in Nat
  PROVE  Shl(Shl(w, m), n) = Shl(w, m + n)
  BY DEF Shl, Reg, Bit

LEMMA ShlNone ==
  ASSUME NEW w \in Reg
  PROVE  Shl(w, 0) = w /\ Shl(w, 32) = {}
<1>1. \A i \in 0 .. 31 : i - 0 = i /\ i >= 0 /\ ~ i >= 32
  OBVIOUS
<1>2. w \subseteq 0 .. 31
  BY DEF Reg, Bit
<1>3. QED
  BY <1>1, <1>2, Zenon DEF Shl, Bit

(* One turn of the division, of a sum of registers and of messages. *)
LEMMA DivideBitLinear ==
  ASSUME NEW r \in Reg, NEW s \in Reg, NEW x \in Byte, NEW y \in Byte, NEW i
  PROVE  DivideBit(Xor(r, s), Xor(x, y), i) = Xor(DivideBit(r, x, i), DivideBit(s, y, i))
<1>1. /\ i \in Xor(x, y) <=> ~ (i \in x <=> i \in y)
      /\ 31 \in Xor(r, s) <=> ~ (31 \in r <=> 31 \in s)
  BY DEF Xor
<1>2. Shl(Xor(r, s), 1) = Xor(Shl(r, 1), Shl(s, 1))
  BY ShlXor
<1> DEFINE v == Shl(r, 1)
           w == Shl(s, 1)
           P == Polynomial
<1> HIDE DEF v, w, P
<1>3. /\ Xor(Xor(v, w), P) = Xor(Xor(v, P), w)
      /\ Xor(Xor(v, w), P) = Xor(v, Xor(w, P))
      /\ Xor(v, w) = Xor(Xor(v, P), Xor(w, P))
  BY DEF Xor
<1>4. /\ DivideBit(r, x, i) = IF i \in x <=> 31 \in r THEN v ELSE Xor(v, P)
      /\ DivideBit(s, y, i) = IF i \in y <=> 31 \in s THEN w ELSE Xor(w, P)
      /\ DivideBit(Xor(r, s), Xor(x, y), i) =
           IF i \in Xor(x, y) <=> 31 \in Xor(r, s) THEN Xor(v, w) ELSE Xor(Xor(v, w), P)
  BY <1>2, Zenon DEF DivideBit, v, w, P
<1>5. QED
  BY <1>1, <1>3, <1>4

LEMMA DivideBitType ==
  ASSUME NEW r, NEW byte, NEW i
  PROVE  DivideBit(r, byte, i) \in Reg
  BY WordType DEF DivideBit, Reg, Xor

-----------------------------------------------------------------------------
(* The registers of a division. *)

(* What turn n of the division of msg takes the next bit from. *)
Turn(r, msg, n) == DivideBit(r, msg[(n - 1) \div 8 + 1], 7 - ((n - 1) % 8))

IsRegister(f, start, msg) ==
  f = [n \in 0 .. 8 * Len(msg) |-> IF n = 0 THEN start ELSE Turn(f[n - 1], msg, n)]

LEMMA RegisterValues ==
  ASSUME NEW start \in Reg, NEW msg \in Seq(Byte), NEW f, IsRegister(f, start, msg)
  PROVE  /\ f[0] = start
         /\ \A n \in 1 .. 8 * Len(msg) : f[n] = Turn(f[n - 1], msg, n)
         /\ \A n \in 0 .. 8 * Len(msg) : f[n] \in Reg
<1>1. /\ 0 \in 0 .. 8 * Len(msg)
      /\ \A n \in 1 .. 8 * Len(msg) : n \in 0 .. 8 * Len(msg) /\ n # 0
      /\ \A n \in 0 .. 8 * Len(msg) : n = 0 \/ n \in 1 .. 8 * Len(msg)
  OBVIOUS
<1>2. /\ f[0] = start
      /\ \A n \in 1 .. 8 * Len(msg) : f[n] = Turn(f[n - 1], msg, n)
  BY <1>1, Zenon DEF IsRegister
<1>3. \A r, n : Turn(r, msg, n) \in Reg
  BY DivideBitType DEF Turn
<1>4. QED
  BY <1>1, <1>2, <1>3, Zenon

(* There is such a function: the division is a run of its turns. *)
LEMMA RegisterExists ==
  ASSUME NEW start \in Reg, NEW msg \in Seq(Byte)
  PROVE  \E f : IsRegister(f, start, msg)
<1> DEFINE last == 8 * Len(msg)
           step == [n \in 1 .. last |-> [r \in Reg |-> Turn(r, msg, n)]]
<1>1. last \in Nat
  OBVIOUS
<1>2. \A n \in 1 .. last : \A r \in Reg : step[n][r] = Turn(r, msg, n)
  OBVIOUS
<1>3. \A r, n : Turn(r, msg, n) \in Reg
  BY DivideBitType DEF Turn
<1> HIDE DEF last, step
<1>4. PICK f : IsRun(f, start, step, last)
  BY <1>1, RunExists
<1>5. f[0] = start /\ \A n \in 1 .. last : f[n] = step[n][f[n - 1]]
  BY <1>1, <1>4, RunValues
<1>6. \A n \in Nat : n <= last => f[n] \in Reg
  <2> DEFINE S == {n \in Nat : n <= last => f[n] \in Reg}
  <2>1. 0 \in S
    BY <1>5
  <2>2. ASSUME NEW n \in Nat, n \in S
        PROVE  n + 1 \in S
    BY <1>1, <1>2, <1>3, <1>5, <2>2
  <2>3. Nat \subseteq S
    <3> HIDE DEF S
    <3> QED
      BY <2>1, <2>2, Induction
  <2>4. QED
    BY <2>3
<1>7. \A n \in 0 .. last : f[n] = IF n = 0 THEN start ELSE Turn(f[n - 1], msg, n)
  <2> TAKE n \in 0 .. last
  <2>1. CASE n = 0
    BY <1>5, <2>1
  <2>2. CASE n # 0
    <3>1. n \in 1 .. last /\ n - 1 \in Nat /\ n - 1 <= last
      BY <1>1, <2>2
    <3>2. QED
      BY <3>1, <2>2, <1>2, <1>5, <1>6, Zenon
  <2>3. QED
    BY <2>1, <2>2
<1>8. f = [n \in 0 .. last |-> f[n]]
  BY <1>4, Zenon DEF IsRun
<1>9. IsRegister(f, start, msg)
  BY <1>7, <1>8, Zenon DEF IsRegister, last
<1>10. QED
  BY <1>9

(* Only one function does, and it is the one whose last value Divide is. *)
LEMMA DivideIsLast ==
  ASSUME NEW start \in Reg, NEW msg \in Seq(Byte), NEW f, IsRegister(f, start, msg)
  PROVE  Divide(start, msg) = f[8 * Len(msg)]
<1> DEFINE g == CHOOSE g : IsRegister(g, start, msg)
<1>1. IsRegister(g, start, msg)
  BY RegisterExists
<1>2. Divide(start, msg) = g[8 * Len(msg)]
  BY Zenon DEF Divide, IsRegister, Turn
<1> HIDE DEF g
<1>3. 8 * Len(msg) \in Nat
  OBVIOUS
<1> DEFINE last == 8 * Len(msg)
           S == {n \in Nat : n <= last => f[n] = g[n]}
<1>4. 0 \in S
  BY <1>1, RegisterValues
<1>5. ASSUME NEW n \in Nat, n \in S
      PROVE  n + 1 \in S
  <2>1. SUFFICES ASSUME n + 1 <= last PROVE f[n + 1] = g[n + 1]
    OBVIOUS
  <2>2. n + 1 \in 1 .. 8 * Len(msg) /\ n + 1 - 1 = n /\ f[n] = g[n]
    BY <1>3, <1>5, <2>1
  <2>3. QED
    <3>1. f[n + 1] = Turn(f[n + 1 - 1], msg, n + 1)
      BY <2>2, RegisterValues
    <3>2. g[n + 1] = Turn(g[n + 1 - 1], msg, n + 1)
      BY <1>1, <2>2, RegisterValues
    <3>3. QED
      BY <2>2, <3>1, <3>2
<1>6. Nat \subseteq S
  <2> HIDE DEF S
  <2> QED
    BY <1>4, <1>5, Induction
<1>7. QED
  BY <1>2, <1>3, <1>6

(* Eight turns from k bytes on are the division of byte k + 1. *)
LEMMA RegisterByte ==
  ASSUME NEW start \in Reg, NEW msg \in Seq(Byte), NEW h, IsRegister(h, start, msg),
         NEW k \in Nat, k < Len(msg)
  PROVE  h[8 * (k + 1)] = Divide(h[8 * k], <<msg[k + 1]>>)
<1> DEFINE one == <<msg[k + 1]>>
<1>1. one \in Seq(Byte) /\ Len(one) = 1 /\ one[1] = msg[k + 1]
  OBVIOUS
<1>2. 8 * k \in 0 .. 8 * Len(msg)
  OBVIOUS
<1>3. h[8 * k] \in Reg
  BY <1>2, RegisterValues
<1> HIDE DEF one
<1>4. PICK g : IsRegister(g, h[8 * k], one)
  BY <1>1, <1>3, RegisterExists
<1>5. g[0] = h[8 * k] /\ \A n \in 1 .. 8 : g[n] = Turn(g[n - 1], one, n)
  <2>1. ASSUME NEW r \in Reg, NEW m \in Seq(Byte), Len(m) = 1, IsRegister(g, r, m)
        PROVE  g[0] = r /\ \A n \in 1 .. 8 : g[n] = Turn(g[n - 1], m, n)
    <3>1. g[0] = r /\ \A n \in 1 .. 8 * Len(m) : g[n] = Turn(g[n - 1], m, n)
      BY <2>1, RegisterValues
    <3>2. QED
      BY <2>1, <3>1
  <2>2. QED
    BY <2>1, <1>1, <1>3, <1>4
<1>6. \A n \in 1 .. 8 : h[8 * k + n] = Turn(h[8 * k + n - 1], msg, 8 * k + n)
  <2>1. \A n \in 1 .. 8 : 8 * k + n \in 1 .. 8 * Len(msg)
    OBVIOUS
  <2>2. QED
    BY <2>1, RegisterValues
<1>7. \A r : \A n \in 1 .. 8 : Turn(r, msg, 8 * k + n) = Turn(r, one, n)
  <2> TAKE r
  <2> TAKE n \in 1 .. 8
  <2>1. (8 * k + n - 1) \div 8 = k /\ (8 * k + n - 1) % 8 = n - 1
    OBVIOUS
  <2>2. (n - 1) \div 8 = 0 /\ (n - 1) % 8 = n - 1
    OBVIOUS
  <2>3. /\ Turn(r, msg, 8 * k + n)
             = DivideBit(r, msg[(8 * k + n - 1) \div 8 + 1], 7 - ((8 * k + n - 1) % 8))
        /\ Turn(r, one, n) = DivideBit(r, one[(n - 1) \div 8 + 1], 7 - ((n - 1) % 8))
    BY DEF Turn
  <2>4. 0 + 1 = 1
    OBVIOUS
  <2>5. QED
    BY <2>1, <2>2, <2>3, <2>4, <1>1, Zenon
<1> DEFINE S == {n \in Nat : n <= 8 => g[n] = h[8 * k + n]}
<1>8. 0 \in S
  BY <1>5
<1>9. ASSUME NEW n \in Nat, n \in S
      PROVE  n + 1 \in S
  <2>1. SUFFICES ASSUME n + 1 <= 8
                 PROVE  g[n + 1] = h[8 * k + (n + 1)]
    OBVIOUS
  <2>2. /\ n + 1 \in 1 .. 8 /\ n + 1 - 1 = n
        /\ 8 * k + (n + 1) - 1 = 8 * k + n
        /\ g[n] = h[8 * k + n]
    BY <1>9, <2>1
  <2>3. g[n + 1] = Turn(g[n], one, n + 1)
    <3>1. n + 1 \in 1 .. 8 /\ \A i \in 1 .. 8 : g[i] = Turn(g[i - 1], one, i)
      BY <1>5, <2>2
    <3>2. g[n + 1] = Turn(g[n + 1 - 1], one, n + 1)
      BY <3>1
    <3>3. QED
      BY <2>2, <3>2
  <2>4. h[8 * k + (n + 1)] = Turn(h[8 * k + (n + 1) - 1], msg, 8 * k + (n + 1))
    BY <1>6, <2>2, Zenon
  <2>5. QED
    BY <1>7, <2>2, <2>3, <2>4
<1>10. Nat \subseteq S
  <2> HIDE DEF S
  <2> QED
    BY <1>8, <1>9, Induction
<1>11. g[8] = h[8 * k + 8]
  BY <1>10
<1>12. Divide(h[8 * k], one) = g[8 * Len(one)]
  BY <1>1, <1>3, <1>4, DivideIsLast
<1>13. QED
  BY <1>1, <1>11, <1>12 DEF one

(* The division of a sum is the sum of the divisions. *)
LEMMA DivideLinear ==
  ASSUME NEW r \in Reg, NEW s \in Reg,
         NEW a \in Seq(Byte), NEW b \in Seq(Byte), NEW m \in Seq(Byte),
         Len(a) = Len(m), Len(b) = Len(m),
         \A i \in 1 .. Len(m) : m[i] = Xor(a[i], b[i])
  PROVE  Divide(Xor(r, s), m) = Xor(Divide(r, a), Divide(s, b))
<1>1. Xor(r, s) \in Reg
  BY WordType
<1>2. PICK f : IsRegister(f, r, a)
  BY RegisterExists
<1>3. PICK g : IsRegister(g, s, b)
  BY RegisterExists
<1>4. PICK h : IsRegister(h, Xor(r, s), m)
  BY <1>1, RegisterExists
<1> DEFINE last == 8 * Len(m)
           S == {n \in Nat : n <= last => h[n] = Xor(f[n], g[n])}
<1>5. last \in Nat
  OBVIOUS
<1>6. /\ f[0] = r /\ \A n \in 1 .. last : f[n] = Turn(f[n - 1], a, n)
      /\ g[0] = s /\ \A n \in 1 .. last : g[n] = Turn(g[n - 1], b, n)
      /\ h[0] = Xor(r, s) /\ \A n \in 1 .. last : h[n] = Turn(h[n - 1], m, n)
      /\ \A n \in 0 .. last : f[n] \in Reg /\ g[n] \in Reg
  BY <1>1, <1>2, <1>3, <1>4, RegisterValues
<1>7. 0 \in S
  BY <1>6
<1>8. ASSUME NEW n \in Nat, n \in S
      PROVE  n + 1 \in S
  <2>1. SUFFICES ASSUME n + 1 <= last
                 PROVE  h[n + 1] = Xor(f[n + 1], g[n + 1])
    OBVIOUS
  <2> DEFINE q == (n + 1 - 1) \div 8 + 1
             i == 7 - ((n + 1 - 1) % 8)
  <2>2. /\ n + 1 \in 1 .. last /\ n \in 0 .. last /\ n + 1 - 1 = n
        /\ h[n] = Xor(f[n], g[n])
    BY <1>5, <1>8, <2>1
  <2>3. q \in 1 .. Len(m)
    BY <2>1
  <2>4. m[q] = Xor(a[q], b[q]) /\ a[q] \in Byte /\ b[q] \in Byte
    BY <2>3
  <2> HIDE DEF q, i, last
  <2>5. /\ f[n + 1] = DivideBit(f[n], a[q], i)
        /\ g[n + 1] = DivideBit(g[n], b[q], i)
        /\ h[n + 1] = DivideBit(h[n], m[q], i)
    <3>1. \A z, msg : Turn(z, msg, n + 1) = DivideBit(z, msg[q], i)
      BY DEF Turn, q, i
    <3>2. /\ f[n + 1] = Turn(f[n], a, n + 1)
          /\ g[n + 1] = Turn(g[n], b, n + 1)
          /\ h[n + 1] = Turn(h[n], m, n + 1)
      BY <1>6, <2>2
    <3>3. QED
      BY <3>1, <3>2
  <2>6. DivideBit(Xor(f[n], g[n]), Xor(a[q], b[q]), i)
          = Xor(DivideBit(f[n], a[q], i), DivideBit(g[n], b[q], i))
    BY <1>6, <2>2, <2>4, DivideBitLinear
  <2>7. QED
    BY <2>2, <2>4, <2>5, <2>6
<1>9. Nat \subseteq S
  <2> HIDE DEF S
  <2> QED
    BY <1>7, <1>8, Induction
<1>10. h[last] = Xor(f[last], g[last])
  BY <1>5, <1>9
<1>11. /\ Divide(r, a) = f[last]
       /\ Divide(s, b) = g[last]
       /\ Divide(Xor(r, s), m) = h[last]
  <2>1. Divide(r, a) = f[last]
    <3>1. Divide(r, a) = f[8 * Len(a)]
      BY <1>2, DivideIsLast
    <3>2. QED
      BY <3>1
  <2>2. Divide(s, b) = g[last]
    <3>1. Divide(s, b) = g[8 * Len(b)]
      BY <1>3, DivideIsLast
    <3>2. QED
      BY <3>1
  <2>3. Divide(Xor(r, s), m) = h[last]
    BY <1>1, <1>4, DivideIsLast
  <2>4. QED
    BY <2>1, <2>2, <2>3
<1>12. QED
  BY <1>10, <1>11

(* A register whose bits come in again as the message is only shifted. *)
LEMMA DivideShifts ==
  ASSUME NEW v \in Reg, NEW m \in Seq(Byte),
         \A i \in 1 .. Len(m) : m[i] = Upper(Shl(v, 8 * (i - 1)))
  PROVE  Divide(v, m) = Shl(v, 8 * Len(m))
<1>1. PICK f : IsRegister(f, v, m)
  BY RegisterExists
<1> DEFINE last == 8 * Len(m)
           S == {n \in Nat : n <= last => f[n] = Shl(v, n)}
<1>2. last \in Nat
  OBVIOUS
<1>3. f[0] = v /\ \A n \in 1 .. last : f[n] = Turn(f[n - 1], m, n)
  BY <1>1, RegisterValues
<1>4. 0 \in S
  BY <1>3, ShlNone
<1>5. ASSUME NEW n \in Nat, n \in S
      PROVE  n + 1 \in S
  <2>1. SUFFICES ASSUME n + 1 <= last
                 PROVE  f[n + 1] = Shl(v, n + 1)
    OBVIOUS
  <2> DEFINE q == (n + 1 - 1) \div 8 + 1
             i == 7 - ((n + 1 - 1) % 8)
  <2>2. /\ n + 1 \in 1 .. last /\ n + 1 - 1 = n
        /\ f[n] = Shl(v, n)
    BY <1>2, <1>5, <2>1
  <2>3. q \in 1 .. Len(m) /\ i \in 0 .. 7 /\ i + 24 + 0 - 8 * (q - 1) = 31 - n
    BY <2>1
  <2>4. i \in m[q] <=> 31 \in Shl(v, n)
    <3> HIDE DEF q, i
    <3>1. m[q] = Upper(Shl(v, 8 * (q - 1)))
      BY <2>3
    <3>2. i \in m[q] <=> i + 24 \in Shl(v, 8 * (q - 1))
      BY <2>3, <3>1 DEF Upper, ByteBits
    <3>3. i + 24 \in Shl(v, 8 * (q - 1)) <=> 31 - n \in v
      BY <2>3 DEF Shl, Bit, Reg
    <3>4. 31 \in Shl(v, n) <=> 31 - n \in v
      <4>1. \A j \in v : j \in 0 .. 31
        BY DEF Reg, Bit
      <4>2. 31 \in Shl(v, n) <=> 31 \in 0 .. 31 /\ 31 - n \in v /\ 31 >= n
        BY DEF Shl, Bit
      <4>3. ASSUME 31 - n \in v
            PROVE  31 >= n
        <5>1. 31 - n \in 0 .. 31
          BY <4>1, <4>3, Zenon
        <5>2. QED
          BY <5>1
      <4>4. 31 \in 0 .. 31
        OBVIOUS
      <4>5. QED
        BY <4>2, <4>3, <4>4, Zenon
    <3>5. QED
      BY <3>2, <3>3, <3>4
  <2> HIDE DEF q, i, last
  <2>5. f[n + 1] = DivideBit(Shl(v, n), m[q], i)
    <3>1. f[n + 1] = Turn(Shl(v, n), m, n + 1)
      BY <1>3, <2>2
    <3>2. QED
      BY <3>1 DEF Turn, q, i
  <2>6. f[n + 1] = Shl(Shl(v, n), 1)
    BY <2>4, <2>5 DEF DivideBit
  <2>7. QED
    BY <2>6, ShlShl
<1>6. Nat \subseteq S
  <2> HIDE DEF S
  <2> QED
    BY <1>4, <1>5, Induction
<1>7. f[last] = Shl(v, last)
  BY <1>2, <1>6
<1>8. QED
  BY <1>1, <1>7, DivideIsLast

(* One turn of the loop of the code is the division of one byte. *)
LEMMA StepDivides ==
  ASSUME NEW r \in Reg, NEW x \in Byte
  PROVE  Divide(r, <<x>>) = Step(r, x)
<1> DEFINE up == Upper(r)
           y  == Xor(up, x)
           m  == <<x>>
           a  == <<up>>
           b  == <<y>>
<1>1. up \in Byte /\ y \in Byte /\ {} \in Reg
  BY WordType
<1>2. x = Xor(up, y) /\ r = Xor(r, {})
  BY XorFacts
<1> HIDE DEF up, y
<1>3. /\ m \in Seq(Byte) /\ a \in Seq(Byte) /\ b \in Seq(Byte)
      /\ Len(m) = 1 /\ Len(a) = 1 /\ Len(b) = 1
      /\ m[1] = x /\ a[1] = up /\ b[1] = y
  BY <1>1
<1> HIDE DEF m, a, b
<1>4. Divide(Xor(r, {}), m) = Xor(Divide(r, a), Divide({}, b))
  <2>1. \A i \in 1 .. Len(m) : m[i] = Xor(a[i], b[i])
    BY <1>2, <1>3
  <2>2. QED
    BY <2>1, <1>1, <1>3, DivideLinear
<1>5. Divide(r, a) = Shl(r, 8)
  <2>1. \A i \in 1 .. Len(a) : a[i] = Upper(Shl(r, 8 * (i - 1)))
    <3>1. Shl(r, 8 * (1 - 1)) = r
      BY ShlNone
    <3>2. QED
      BY <3>1, <1>3 DEF up
  <2>2. Divide(r, a) = Shl(r, 8 * Len(a))
    BY <2>1, <1>3, DivideShifts
  <2>3. QED
    BY <2>2, <1>3
<1>6. Divide({}, b) = crc32Table[y]
  BY <1>1, TableAssumption DEF b, Byte
<1>7. QED
  BY <1>2, <1>4, <1>5, <1>6 DEF Step, m, y, up

-----------------------------------------------------------------------------
(* The checksum of a message. *)

LEMMA DivideType ==
  ASSUME NEW start \in Reg, NEW msg \in Seq(Byte)
  PROVE  Divide(start, msg) \in Reg
<1>1. PICK f : IsRegister(f, start, msg)
  BY RegisterExists
<1>2. 8 * Len(msg) \in 0 .. 8 * Len(msg)
  OBVIOUS
<1>3. f[8 * Len(msg)] \in Reg
  BY <1>1, <1>2, RegisterValues
<1>4. QED
  BY <1>1, <1>3, DivideIsLast

LEMMA DivideEmpty ==
  ASSUME NEW start \in Reg
  PROVE  Divide(start, <<>>) = start
<1>1. <<>> \in Seq(Byte) /\ Len(<<>>) = 0 /\ 8 * 0 = 0
  OBVIOUS
<1>2. PICK f : IsRegister(f, start, <<>>)
  BY <1>1, RegisterExists
<1>3. f[0] = start
  BY <1>1, <1>2, RegisterValues
<1>4. Divide(start, <<>>) = f[8 * Len(<<>>)]
  BY <1>1, <1>2, DivideIsLast
<1>5. QED
  BY <1>1, <1>3, <1>4

(* A byte more is a turn of the loop more. *)
LEMMA DivideAppend ==
  ASSUME NEW start \in Reg, NEW msg \in Seq(Byte), NEW x \in Byte
  PROVE  Divide(start, Append(msg, x)) = Step(Divide(start, msg), x)
<1> DEFINE more == Append(msg, x)
           len  == Len(msg)
<1>1. /\ more \in Seq(Byte) /\ Len(more) = len + 1 /\ len \in Nat
      /\ \A i \in 1 .. len : more[i] = msg[i]
      /\ more[len + 1] = x
  OBVIOUS
<1> HIDE DEF more
<1>2. PICK f : IsRegister(f, start, msg)
  BY RegisterExists
<1>3. PICK h : IsRegister(h, start, more)
  BY <1>1, RegisterExists
<1>4. /\ f[0] = start /\ \A n \in 1 .. 8 * len : f[n] = Turn(f[n - 1], msg, n)
      /\ \A n \in 0 .. 8 * len : f[n] \in Reg
  BY <1>2, RegisterValues
<1>5. h[0] = start /\ \A n \in 1 .. 8 * len : h[n] = Turn(h[n - 1], more, n)
  <2>1. h[0] = start /\ \A n \in 1 .. 8 * Len(more) : h[n] = Turn(h[n - 1], more, n)
    BY <1>1, <1>3, RegisterValues
  <2>2. \A n \in 1 .. 8 * len : n \in 1 .. 8 * Len(more)
    BY <1>1
  <2>3. QED
    BY <2>1, <2>2
<1>6. \A r : \A n \in 1 .. 8 * len : Turn(r, more, n) = Turn(r, msg, n)
  <2> TAKE r
  <2> TAKE n \in 1 .. 8 * len
  <2>1. (n - 1) \div 8 + 1 \in 1 .. len
    BY <1>1
  <2>2. more[(n - 1) \div 8 + 1] = msg[(n - 1) \div 8 + 1]
    BY <1>1, <2>1
  <2>3. QED
    BY <2>2 DEF Turn
<1> DEFINE S == {n \in Nat : n <= 8 * len => h[n] = f[n]}
<1>7. 0 \in S
  BY <1>4, <1>5
<1>8. ASSUME NEW n \in Nat, n \in S
      PROVE  n + 1 \in S
  <2>1. SUFFICES ASSUME n + 1 <= 8 * len
                 PROVE  h[n + 1] = f[n + 1]
    OBVIOUS
  <2>2. n + 1 \in 1 .. 8 * len /\ n + 1 - 1 = n /\ h[n] = f[n]
    BY <1>1, <1>8, <2>1
  <2>3. h[n + 1] = Turn(h[n], more, n + 1) /\ f[n + 1] = Turn(f[n], msg, n + 1)
    BY <1>4, <1>5, <2>2
  <2>4. QED
    BY <1>6, <2>2, <2>3
<1>9. Nat \subseteq S
  <2> HIDE DEF S
  <2> QED
    BY <1>7, <1>8, Induction
<1>10. h[8 * len] = f[8 * len] /\ f[8 * len] \in Reg
  BY <1>1, <1>4, <1>9
<1>11. h[8 * (len + 1)] = Divide(h[8 * len], <<more[len + 1]>>)
  <2>1. len < Len(more)
    BY <1>1
  <2>2. QED
    BY <1>1, <1>3, <2>1, RegisterByte
<1>12. Divide(start, more) = h[8 * (len + 1)]
  <2>1. Divide(start, more) = h[8 * Len(more)]
    BY <1>1, <1>3, DivideIsLast
  <2>2. QED
    BY <1>1, <2>1
<1>13. Divide(start, msg) = f[8 * len]
  BY <1>2, DivideIsLast
<1>14. Divide(f[8 * len], <<x>>) = Step(f[8 * len], x)
  BY <1>10, StepDivides
<1>15. QED
  BY <1>1, <1>10, <1>11, <1>12, <1>13, <1>14 DEF more

(* The loop of the code passes through every eighth register. *)
LEMMA GetCrcDivides ==
  ASSUME NEW msg \in Seq(Byte)
  PROVE  GetCrc(msg) = Complement(Remainder(msg))
<1> DEFINE IsState(f) ==
             f = [offset \in 0 .. Len(msg) |->
                    IF offset = 0 THEN AllOnes ELSE Step(f[offset - 1], msg[offset])]
<1>1. ASSUME NEW f, IsState(f)
      PROVE  f[0] = AllOnes /\ \A i \in 1 .. Len(msg) : f[i] = Step(f[i - 1], msg[i])
  <2>1. 0 \in 0 .. Len(msg) /\ \A i \in 1 .. Len(msg) : i \in 0 .. Len(msg) /\ i # 0
    OBVIOUS
  <2>2. QED
    BY <1>1, <2>1, Zenon
<1>2. PICK h : IsRegister(h, AllOnes, msg)
  BY WordType, RegisterExists
<1>3. h[0] = AllOnes /\ \A n \in 0 .. 8 * Len(msg) : h[n] \in Reg
  BY <1>2, WordType, RegisterValues
<1>4. ASSUME NEW k \in Nat, k < Len(msg)
      PROVE  h[8 * (k + 1)] = Step(h[8 * k], msg[k + 1])
  <2>1. h[8 * (k + 1)] = Divide(h[8 * k], <<msg[k + 1]>>)
    BY <1>2, <1>4, WordType, RegisterByte
  <2>2. 8 * k \in 0 .. 8 * Len(msg) /\ msg[k + 1] \in Byte
    BY <1>4
  <2>3. QED
    BY <1>3, <2>1, <2>2, StepDivides
<1> DEFINE state == [k \in 0 .. Len(msg) |-> h[8 * k]]
<1>5. IsState(state)
  <2>1. \A k \in 0 .. Len(msg) :
          state[k] = IF k = 0 THEN AllOnes ELSE Step(state[k - 1], msg[k])
    <3> TAKE k \in 0 .. Len(msg)
    <3>1. CASE k = 0
      BY <1>3, <3>1
    <3>2. CASE k # 0
      <4>1. /\ k - 1 \in Nat /\ k - 1 < Len(msg) /\ k - 1 + 1 = k
            /\ k - 1 \in 0 .. Len(msg)
        BY <3>2
      <4>2. state[k] = h[8 * k] /\ state[k - 1] = h[8 * (k - 1)]
        BY <4>1
      <4>3. h[8 * (k - 1 + 1)] = Step(h[8 * (k - 1)], msg[k - 1 + 1])
        BY <1>4, <4>1
      <4>4. QED
        BY <3>2, <4>1, <4>2, <4>3
    <3>3. QED
      BY <3>1, <3>2
  <2>2. state = [k \in 0 .. Len(msg) |-> state[k]]
    OBVIOUS
  <2> HIDE DEF state
  <2>3. QED
    BY <2>1, <2>2, Zenon
<1> DEFINE crcState == CHOOSE f : IsState(f)
<1>6. IsState(crcState)
  <2> HIDE DEF IsState, state
  <2> QED
    BY <1>5
<1>7. GetCrc(msg) = Complement(crcState[Len(msg)])
  BY Zenon DEF GetCrc
<1> HIDE DEF IsState, state, crcState
<1>8. crcState[Len(msg)] = h[8 * Len(msg)]
  <2> DEFINE S == {k \in Nat : k <= Len(msg) => crcState[k] = h[8 * k]}
  <2>1. /\ crcState[0] = AllOnes
        /\ \A i \in 1 .. Len(msg) : crcState[i] = Step(crcState[i - 1], msg[i])
    BY <1>1, <1>6
  <2>2. 0 \in S
    BY <1>3, <2>1
  <2>3. ASSUME NEW k \in Nat, k \in S
        PROVE  k + 1 \in S
    <3>1. SUFFICES ASSUME k + 1 <= Len(msg)
                   PROVE  crcState[k + 1] = h[8 * (k + 1)]
      OBVIOUS
    <3>2. k + 1 \in 1 .. Len(msg) /\ k + 1 - 1 = k /\ k < Len(msg) /\ crcState[k] = h[8 * k]
      BY <2>3, <3>1
    <3>3. crcState[k + 1] = Step(crcState[k], msg[k + 1])
      BY <2>1, <3>2
    <3>4. QED
      BY <1>4, <3>2, <3>3
  <2>4. Nat \subseteq S
    <3> HIDE DEF S
    <3> QED
      BY <2>2, <2>3, Induction
  <2>5. Len(msg) \in Nat
    OBVIOUS
  <2>6. QED
    BY <2>4, <2>5
<1>9. Divide(AllOnes, msg) = h[8 * Len(msg)]
  BY <1>2, WordType, DivideIsLast
<1>10. QED
  BY <1>7, <1>8, <1>9 DEF Remainder

(* What follows a message is divided on from where the message left the
   register: so for no byte, and for a byte more if for those before it. *)
LEMMA DivideOn ==
  ASSUME NEW start \in Reg, NEW msg \in Seq(Byte), NEW rest \in Seq(Byte), NEW x \in Byte,
         Divide(start, msg \o rest) = Divide(Divide(start, msg), rest)
  PROVE  Divide(start, msg \o Append(rest, x)) = Divide(Divide(start, msg), Append(rest, x))
<1>1. msg \o Append(rest, x) = Append(msg \o rest, x) /\ msg \o rest \in Seq(Byte)
  OBVIOUS
<1>2. Divide(start, msg) \in Reg
  BY DivideType
<1>3. Divide(start, Append(msg \o rest, x)) = Step(Divide(start, msg \o rest), x)
  BY <1>1, DivideAppend
<1>4. Divide(Divide(start, msg), Append(rest, x)) = Step(Divide(Divide(start, msg), rest), x)
  BY <1>2, DivideAppend
<1>5. QED
  BY <1>1, <1>3, <1>4

LEMMA DivideBehind ==
  ASSUME NEW start \in Reg, NEW msg \in Seq(Byte),
         NEW a \in Byte, NEW b \in Byte, NEW c \in Byte, NEW d \in Byte
  PROVE  Divide(start, msg \o <<a, b, c, d>>) = Divide(Divide(start, msg), <<a, b, c, d>>)
<1> DEFINE Behind(rest) == Divide(start, msg \o rest) = Divide(Divide(start, msg), rest)
<1>1. Behind(<<>>)
  <2>1. msg \o <<>> = msg /\ Divide(start, msg) \in Reg
    BY DivideType
  <2>2. QED
    BY <2>1, DivideEmpty
<1>2. ASSUME NEW rest \in Seq(Byte), NEW x \in Byte, Behind(rest)
      PROVE  Behind(Append(rest, x))
  BY <1>2, DivideOn
<1> HIDE DEF Behind
<1>3. /\ <<>> \in Seq(Byte) /\ <<a>> \in Seq(Byte)
      /\ <<a, b>> \in Seq(Byte) /\ <<a, b, c>> \in Seq(Byte)
  OBVIOUS
<1>4. /\ <<a>> = Append(<<>>, a) /\ <<a, b>> = Append(<<a>>, b)
      /\ <<a, b, c>> = Append(<<a, b>>, c) /\ <<a, b, c, d>> = Append(<<a, b, c>>, d)
  OBVIOUS
<1>5. Behind(<<a>>)
  BY <1>1, <1>2, <1>3, <1>4
<1>6. Behind(<<a, b>>)
  BY <1>2, <1>3, <1>4, <1>5
<1>7. Behind(<<a, b, c>>)
  BY <1>2, <1>3, <1>4, <1>6
<1>8. Behind(<<a, b, c, d>>)
  BY <1>2, <1>3, <1>4, <1>7
<1>9. QED
  BY <1>8 DEF Behind

(* The checksum, put behind its message, takes the message out of the register
   again: what is left is the checksum of four bytes of 0. *)
LEMMA TrailerLeavesResidue ==
  ASSUME NEW msg \in Seq(Byte), NEW crc, crc = Complement(Remainder(msg))
  PROVE  GetCrc(msg \o [i \in 1 .. 4 |-> Upper(Shl(crc, 8 * (i - 1)))]) = Residue
<1> DEFINE s == Remainder(msg)
           t(i) == Upper(Shl(crc, 8 * (i - 1)))
           trailer == <<t(1), t(2), t(3), t(4)>>
           zeros == <<{}, {}, {}, {}>>
<1>1. s \in Reg /\ crc \in Reg /\ AllOnes \in Reg
  BY WordType, DivideType DEF Remainder
<1>2. \A i : t(i) \in Byte
  BY WordType
<1>3. [i \in 1 .. 4 |-> Upper(Shl(crc, 8 * (i - 1)))] = trailer
  <2> HIDE DEF t
  <2>1. [i \in 1 .. 4 |-> t(i)] = trailer
    OBVIOUS
  <2>2. QED
    BY <2>1 DEF t
<1> HIDE DEF s, t
<1>4. /\ trailer \in Seq(Byte) /\ Len(trailer) = 4 /\ \A i \in 1 .. 4 : trailer[i] = t(i)
      /\ zeros \in Seq(Byte) /\ Len(zeros) = 4 /\ \A i \in 1 .. 4 : zeros[i] = {}
  BY <1>2, WordType
<1>5. msg \o trailer \in Seq(Byte)
  BY <1>4
<1>6. Divide(AllOnes, msg \o trailer) = Divide(s, trailer)
  <2>1. t(1) \in Byte /\ t(2) \in Byte /\ t(3) \in Byte /\ t(4) \in Byte
    BY <1>2
  <2>2. QED
    BY <1>1, <2>1, DivideBehind DEF s, Remainder
<1>7. s = Xor(AllOnes, crc)
  BY <1>1 DEF s, Xor, Complement, AllOnes, Reg
<1> HIDE DEF trailer, zeros
<1>8. Divide(Xor(AllOnes, crc), trailer) = Xor(Divide(AllOnes, zeros), Divide(crc, trailer))
  <2>1. \A i \in 1 .. Len(trailer) : trailer[i] = Xor(zeros[i], trailer[i])
    BY <1>4, XorFacts
  <2>2. /\ trailer \in Seq(Byte) /\ zeros \in Seq(Byte) /\ Len(zeros) = Len(trailer)
        /\ AllOnes \in Reg /\ crc \in Reg
    BY <1>1, <1>4
  <2>3. QED
    BY <2>1, <2>2, DivideLinear
<1>9. Divide(crc, trailer) = {}
  <2>1. \A i \in 1 .. Len(trailer) : trailer[i] = Upper(Shl(crc, 8 * (i - 1)))
    BY <1>4 DEF t
  <2>2. Divide(crc, trailer) = Shl(crc, 8 * Len(trailer))
    BY <1>1, <1>4, <2>1, DivideShifts
  <2>3. 8 * Len(trailer) = 32
    BY <1>4
  <2>4. QED
    BY <1>1, <2>2, <2>3, ShlNone
<1>10. Divide(AllOnes, msg \o trailer) = Remainder(zeros)
  BY <1>6, <1>7, <1>8, <1>9, XorFacts DEF Remainder
<1>11. GetCrc(msg \o trailer) = Complement(Remainder(zeros))
  BY <1>5, <1>10, GetCrcDivides DEF Remainder
<1>12. QED
  BY <1>3, <1>11, ResidueAssumption DEF zeros

-----------------------------------------------------------------------------
(* The stream. *)

(* At every point the word is the remainder of what was sent so far. *)
CrcInv ==
  /\ sent \in Seq(Byte)
  /\ final \in BOOLEAN
  /\ crcVal = IF final THEN Complement(Remainder(sent)) ELSE Remainder(sent)

THEOREM InitCrcInv == Init => CrcInv
<1>1. <<>> \in Seq(Byte) /\ Remainder(<<>>) = AllOnes
  BY WordType, DivideEmpty DEF Remainder
<1>2. QED
  BY <1>1 DEF Init, CrcInv

THEOREM NextCrcInv == CrcInv /\ [Next]_vars => CrcInv'
<1>1. SUFFICES ASSUME CrcInv, [Next]_vars
               PROVE  CrcInv'
  OBVIOUS
<1>2. ASSUME Len(sent) < Len(Inputs), NEW byte \in Inputs[Len(sent) + 1], UpdataCrc(byte)
      PROVE  CrcInv'
  <2>1. byte \in Byte
    BY <1>1, <1>2, InputAssumption DEF CrcInv, Byte
  <2>2. crcVal = Remainder(sent) /\ crcVal' = Step(crcVal, byte)
    BY <1>1, <1>2 DEF CrcInv, UpdataCrc, Step
  <2>3. Remainder(Append(sent, byte)) = Step(Remainder(sent), byte)
    BY <1>1, <2>1, WordType, DivideAppend DEF CrcInv, Remainder
  <2>4. QED
    BY <1>1, <1>2, <2>1, <2>2, <2>3 DEF CrcInv, UpdataCrc
<1>3. CASE FinalCrc
  BY <1>1, <1>3 DEF CrcInv, FinalCrc
<1>4. CASE UNCHANGED vars
  BY <1>1, <1>4 DEF CrcInv, vars
<1>5. QED
  BY <1>1, <1>2, <1>3, <1>4 DEF Next, Update

THEOREM CrcInvHolds == Spec => []CrcInv
  BY InitCrcInv, NextCrcInv, PTL DEF Spec

(* For every message, of whatever length, the table and the way the code uses
   it give the checksum that is defined by the division. *)
THEOREM CrcRemainder == Spec => []CrcIsRemainder
<1>1. CrcInv => CrcIsRemainder
  BY DEF CrcInv, CrcIsRemainder
<1>2. QED
  BY <1>1, CrcInvHolds, PTL

(* crc32_initCrc, crc32_updataCrc for each byte and crc32_finalCrc give what
   crc32_getCrc gives for the message at once. *)
THEOREM CrcStream == Spec => []StreamIsOneShot
<1>1. CrcInv => StreamIsOneShot
  BY GetCrcDivides DEF CrcInv, StreamIsOneShot
<1>2. QED
  BY <1>1, CrcInvHolds, PTL

(* A receiver that lets the checksum follow the message finds the same word,
   whatever the message was. *)
THEOREM CrcResidue == Spec => []ResidueIsFixed
<1>1. CrcInv => ResidueIsFixed
  BY TrailerLeavesResidue DEF CrcInv, ResidueIsFixed, Trailer
<1>2. QED
  BY <1>1, CrcInvHolds, PTL
=============================================================================
