---------------------------- MODULE LinkageProofs ----------------------------
(* Theorems about messages as bytes and about the programs that exchange   *)
(* them, for data of any length, any names and any calls.                  *)
EXTENDS Linkage, SequenceTheorems, NaturalsInduction, WellFoundedInduction, TLAPS

-----------------------------------------------------------------------------
(* Induction and recursion over numbers.  The library's theorems take a    *)
(* predicate; a set of numbers and a function of steps say the same.       *)

LEMMA Smallest ==
    ASSUME NEW T \in SUBSET Nat, T # {}
    PROVE  \E x \in T : \A y \in T : x <= y
  <1> DEFINE R == OpToRel(<, Nat)
  <1>1. IsWellFoundedOn(R, Nat)
    BY NatLessThanWellFounded, Zenon
  <1> HIDE DEF R
  <1>2. PICK x \in T : \A y \in T : ~(<<y, x>> \in R)
    BY <1>1, WFMin
  <1>3. \A y \in T : ~(y < x)
    BY <1>2 DEF R, OpToRel
  <1> QED BY <1>3

LEMMA MinIs ==
    ASSUME NEW T \in SUBSET Nat, T # {}
    PROVE  Min(T) \in T /\ \A y \in T : Min(T) <= y
  BY Smallest DEF Min

(* Induction up to a bound: zero and every successor.                      *)
LEMMA UpTo ==
    ASSUME NEW n \in Nat, NEW T, 0 \in T, \A k \in T \cap Nat : k < n => k + 1 \in T
    PROVE  \A k \in 0 .. n : k \in T
  <1> DEFINE U == (0 .. n) \ T
  <1> SUFFICES ASSUME U # {} PROVE FALSE
    OBVIOUS
  <1>1. PICK x \in U : \A y \in U : x <= y
    <2>1. U \in SUBSET Nat
      OBVIOUS
    <2> HIDE DEF U
    <2> QED BY <2>1, Smallest
  <1>2. x # 0 /\ x - 1 \in 0 .. n /\ x - 1 \in Nat /\ x - 1 < n /\ x - 1 + 1 = x
    OBVIOUS
  <1>3. x - 1 \in T
    BY <1>1, <1>2
  <1> QED BY <1>2, <1>3

(* A function given by its first value and by steps exists.                *)
Steps(n, V) == [1 .. n -> [V -> V]]
Follows(f, n, base, step) == f[0] = base /\ \A k \in 1 .. n : f[k] = step[k][f[k - 1]]

LEMMA Recursion ==
    ASSUME NEW n \in Nat, NEW V, NEW base \in V, NEW step \in Steps(n, V)
    PROVE  \E f \in [0 .. n -> V] : Follows(f, n, base, step)
  <1> DEFINE Is(f, j) == /\ f \in [0 .. j -> V]
                         /\ f[0] = base /\ \A k \in 1 .. j : f[k] = step[k][f[k - 1]]
             T == {j \in 0 .. n : \E f : Is(f, j)}
  <1>1. 0 \in T
    <2> DEFINE f == [k \in 0 .. 0 |-> base]
    <2>1. Is(f, 0)
      OBVIOUS
    <2> HIDE DEF f
    <2> QED BY <2>1
  <1>2. ASSUME NEW j \in T \cap Nat, j < n PROVE j + 1 \in T
    <2>1. PICK f : Is(f, j)
      BY <1>2
    <2> DEFINE g == [k \in 0 .. j + 1 |-> IF k = j + 1 THEN step[k][f[j]] ELSE f[k]]
    <2>2. \A k \in 0 .. j : g[k] = f[k] /\ g[k] \in V
      BY <2>1
    <2>3. g[j + 1] = step[j + 1][f[j]] /\ g[j + 1] \in V
      <3>1. f[j] \in V /\ j + 1 \in 1 .. n
        BY <1>2, <2>1
      <3> QED BY <3>1 DEF Steps
    <2>4. g \in [0 .. j + 1 -> V]
      <3>1. \A k \in 0 .. j + 1 : k = j + 1 \/ k \in 0 .. j
        BY <1>2
      <3>2. \A k \in 0 .. j + 1 : g[k] \in V
        BY <2>2, <2>3, <3>1
      <3>3. g = [k \in 0 .. j + 1 |-> g[k]]
        OBVIOUS
      <3> HIDE DEF g
      <3> QED BY <3>2, <3>3
    <2> HIDE DEF g
    <2>5. g[0] = base
      BY <2>1, <2>2
    <2>6. ASSUME NEW k \in 1 .. j + 1 PROVE g[k] = step[k][g[k - 1]]
      <3>1. CASE k = j + 1
        BY <2>2, <2>3, <3>1
      <3>2. CASE k # j + 1
        <4>1. k \in 1 .. j /\ k \in 0 .. j /\ k - 1 \in 0 .. j
          BY <3>2
        <4> QED BY <2>1, <2>2, <4>1
      <3> QED BY <3>1, <3>2
    <2>7. Is(g, j + 1)
      BY <2>4, <2>5, <2>6
    <2>8. j + 1 \in 0 .. n
      BY <1>2
    <2> QED BY <2>7, <2>8
  <1> HIDE DEF T
  <1>3. n \in T
    BY <1>1, <1>2, UpTo
  <1> QED BY <1>3 DEF T, Follows

-----------------------------------------------------------------------------
(* Words of four bytes.                                                    *)

LEMMA IsSeq ==
    ASSUME NEW S, NEW n \in Nat, NEW s \in [1 .. n -> S]
    PROVE  s \in Seq(S) /\ Len(s) = n
  OBVIOUS

LEMMA ByteIs == \A n \in Nat : n <= 255 => n \in Byte
  BY DEF Byte

LEMMA LetterIs == Letter \subseteq Byte /\ Letter = Byte \ {0}
  <1>1. \A i : i \in 1 .. 255 <=> i \in 0 .. 255 /\ i # 0
    BY SMT
  <1> QED BY <1>1 DEF Letter, Byte

LEMMA WordIs ==
    ASSUME NEW b \in Word
    PROVE  /\ b \in Seq(Byte) /\ Len(b) = 4
           /\ Swapped(b) \in Word /\ Swapped(Swapped(b)) = b
           /\ \A i \in 1 .. 4 : Swapped(b)[i] = b[5 - i]
  <1>1. ASSUME NEW w \in Word PROVE w \in Seq(Byte) /\ Len(w) = 4
    <2>1. w \in [1 .. 4 -> Byte] /\ DOMAIN w = 1 .. 4
      BY DEF Word
    <2>2. w \in Seq(Byte)
      BY <2>1, IsSeq
    <2>3. Len(w) \in Nat /\ DOMAIN w = 1 .. Len(w)
      BY <2>2, LenProperties
    <2>4. ASSUME Len(w) # 4 PROVE FALSE
      <3>1. 4 \in 1 .. Len(w)
        BY <2>1, <2>3
      <3>2. Len(w) \in 1 .. 4 /\ 4 <= Len(w)
        BY <2>1, <2>3, <3>1
      <3> QED BY <2>3, <2>4, <3>2
    <2> QED BY <2>2, <2>4
  <1>2. ASSUME NEW w \in Word
        PROVE  Swapped(w) = [i \in 1 .. 4 |-> w[5 - i]] /\ Swapped(w) \in Word
    <2>1. Len(w) = 4 /\ \A i \in 1 .. 4 : 4 - i + 1 = 5 - i /\ 5 - i \in 1 .. 4
      BY <1>1
    <2>2. Swapped(w) = [i \in 1 .. 4 |-> w[5 - i]]
      BY <2>1 DEF Swapped, Reverse
    <2>3. \A i \in 1 .. 4 : w[5 - i] \in Byte
      BY <2>1 DEF Word
    <2> QED BY <2>2, <2>3 DEF Word
  <1>3. Swapped(Swapped(b)) = b
    <2>1. \A i \in 1 .. 4 : 5 - i \in 1 .. 4 /\ 5 - (5 - i) = i
      OBVIOUS
    <2>2. Swapped(Swapped(b)) = [i \in 1 .. 4 |-> Swapped(b)[5 - i]]
      BY <1>2
    <2>3. \A i \in 1 .. 4 : Swapped(b)[5 - i] = b[i]
      BY <1>2, <2>1
    <2> QED BY <2>2, <2>3 DEF Word
  <1>4. \A i \in 1 .. 4 : Swapped(b)[i] = b[5 - i]
    BY <1>2
  <1> QED BY <1>1, <1>2, <1>3, <1>4

LEMMA MaxIntIs == MaxInt \in Nat
  BY SMT DEF MaxInt

(* htonl() and ntohl() are inverse to each other.                          *)
LEMMA NetIs ==
    ASSUME NEW n \in Nat, n <= MaxInt
    PROVE  Net(n) \in Word /\ NetNumber(Net(n)) = n
  <1>1. n < 4294967296
    BY SMT DEF MaxInt
  <1>2. /\ n % 256 \in Byte /\ (n \div 256) % 256 \in Byte
        /\ (n \div 65536) % 256 \in Byte /\ (n \div 16777216) % 256 \in Byte
    BY <1>1, SMT DEF Byte
  <1>3. Host(n) \in Word
    <2>1. \A a, b, c, d \in Byte : <<a, b, c, d>> \in Word
      BY DEF Word
    <2> QED BY <1>2, <2>1, SMT DEF Host
  <1>4. NetNumber(Net(n)) = Number(Host(n))
    BY <1>3, WordIs DEF NetNumber, Net
  <1>5. Number(Host(n)) = (n % 256) + 256 * ((n \div 256) % 256)
            + 65536 * ((n \div 65536) % 256) + 16777216 * ((n \div 16777216) % 256)
    BY SMT DEF Number, Host
  <1>6. (n % 256) + 256 * ((n \div 256) % 256)
            + 65536 * ((n \div 65536) % 256) + 16777216 * ((n \div 16777216) % 256) = n
    BY <1>1, SMT
  <1>7. Number(Host(n)) = n
    BY <1>5, <1>6, SMT
  <1> QED BY <1>3, <1>4, <1>7, WordIs DEF Net

-----------------------------------------------------------------------------
(* Items.                                                                  *)

(* The four bytes at a place.                                              *)
LEMMA FieldIs ==
    ASSUME NEW p \in Seq(Byte), NEW at \in Nat \ {0}, NEW w \in Word, at + 3 <= Len(p),
           \A i \in 1 .. 4 : p[at + i - 1] = w[i]
    PROVE  Field(p, at) = w
  <1> DEFINE q == SubSeq(p, at, at + 3)
  <1>1. \A i \in at .. at + 3 : p[i] \in Byte
    BY ElementOfSeq
  <1>2. q \in Seq(Byte) /\ Len(q) = 4 /\ \A i \in 1 .. 4 : q[i] = p[at + i - 1]
    <2>1. /\ SubSeq(p, at, at + 3) \in Seq(Byte)
          /\ Len(SubSeq(p, at, at + 3)) = IF at <= at + 3 THEN at + 3 - at + 1 ELSE 0
          /\ \A i \in 1 .. at + 3 - at + 1 : SubSeq(p, at, at + 3)[i] = p[at + i - 1]
      BY <1>1, SubSeqProperties
    <2>2. at + 3 - at + 1 = 4 /\ at <= at + 3
      OBVIOUS
    <2> QED BY <2>1, <2>2
  <1> HIDE DEF q
  <1>3. \A i \in 1 .. 4 : q[i] = w[i]
    BY <1>2
  <1>4. w \in Seq(Byte) /\ Len(w) = 4
    BY WordIs
  <1>5. q = w
    BY <1>2, <1>3, <1>4, SeqEqual
  <1> QED BY <1>5 DEF q, Field

(* A string is a block of bytes, and its length is one that a word holds.  *)
LEMMA TextIs ==
    ASSUME NEW s \in Text
    PROVE  s \in Seq(Byte) /\ Len(s) \in Nat /\ Len(s) <= MaxInt
           /\ Net(Len(s)) \in Word /\ NetNumber(Net(Len(s))) = Len(s)
  <1>1. s \in Seq(Letter) /\ Len(s) <= MaxInt
    BY DEF Text
  <1>2. Len(s) \in Nat
    BY <1>1, LenProperties
  <1>3. s \in Seq(Byte)
    BY <1>1, LetterIs, SeqMonotonic
  <1> QED BY <1>1, <1>2, <1>3, NetIs

(* One block after another.                                                *)
LEMMA Joined ==
    ASSUME NEW a \in Seq(Byte), NEW b \in Seq(Byte)
    PROVE  /\ a \o b \in Seq(Byte) /\ Len(a \o b) = Len(a) + Len(b)
           /\ Len(a) \in Nat /\ Len(b) \in Nat
           /\ \A i \in 1 .. Len(a) : (a \o b)[i] = a[i]
           /\ \A i \in 1 .. Len(b) : (a \o b)[Len(a) + i] = b[i]
  <1>1. Len(a) \in Nat /\ Len(b) \in Nat
    BY LenProperties
  <1>2. /\ a \o b \in Seq(Byte) /\ Len(a \o b) = Len(a) + Len(b)
        /\ \A i \in 1 .. Len(a) + Len(b) : (a \o b)[i] = IF i <= Len(a) THEN a[i] ELSE b[i - Len(a)]
    BY ConcatProperties
  <1> DEFINE c == a \o b
  <1> HIDE DEF c
  <1>3. \A i \in 1 .. Len(a) + Len(b) : c[i] = IF i <= Len(a) THEN a[i] ELSE b[i - Len(a)]
    BY <1>2 DEF c
  <1>4. \A i \in 1 .. Len(a) : c[i] = a[i]
    BY <1>1, <1>3
  <1>5. \A i \in 1 .. Len(b) : c[Len(a) + i] = b[i]
    BY <1>1, <1>3
  <1> QED BY <1>1, <1>2, <1>4, <1>5 DEF c

(* A type, four bytes and the bytes that follow them.                      *)
LEMMA LayoutIs ==
    ASSUME NEW t \in Seq(Byte), Len(t) = 1, NEW w \in Word, NEW s \in Seq(Byte)
    PROVE  /\ t \o w \o s \in Seq(Byte) /\ Len(t \o w \o s) = 5 + Len(s)
           /\ (t \o w \o s)[1] = t[1]
           /\ \A i \in 1 .. 4 : (t \o w \o s)[1 + i] = w[i]
           /\ \A i \in 1 .. Len(s) : (t \o w \o s)[5 + i] = s[i]
  <1> DEFINE h == t \o w
  <1>1. w \in Seq(Byte) /\ Len(w) = 4
    BY WordIs
  <1>2. /\ h \in Seq(Byte) /\ Len(h) = 5 /\ h[1] = t[1]
        /\ \A i \in 1 .. 4 : h[1 + i] = w[i]
    <2>1. /\ h \in Seq(Byte) /\ Len(h) = Len(t) + Len(w)
          /\ \A i \in 1 .. Len(t) : h[i] = t[i]
          /\ \A i \in 1 .. Len(w) : h[Len(t) + i] = w[i]
      BY <1>1, Joined
    <2> HIDE DEF h
    <2> QED BY <1>1, <2>1
  <1> HIDE DEF h
  <1> DEFINE b == h \o s
  <1>3. /\ b \in Seq(Byte) /\ Len(b) = Len(h) + Len(s) /\ Len(s) \in Nat
        /\ \A i \in 1 .. Len(h) : b[i] = h[i]
        /\ \A i \in 1 .. Len(s) : b[Len(h) + i] = s[i]
    BY <1>2, Joined
  <1> HIDE DEF b
  <1>4. \A i \in 1 .. 4 : 1 + i \in 1 .. 5
    OBVIOUS
  <1>5. /\ b \in Seq(Byte) /\ Len(b) = 5 + Len(s) /\ b[1] = t[1]
        /\ \A i \in 1 .. 4 : b[1 + i] = w[i]
        /\ \A i \in 1 .. Len(s) : b[5 + i] = s[i]
    BY <1>2, <1>3, <1>4
  <1> QED BY <1>5 DEF b, h

LEMMA ItemIs ==
    ASSUME NEW x \in Datum
    PROVE  /\ DatumBytes(x) \in Seq(Byte) /\ Len(DatumBytes(x)) = DatumSize(x)
           /\ DatumSize(x) \in Nat
  <1>1. CASE x.t = DT_FLOAT
    <2>1. x.f \in Word
      BY <1>1 DEF Datum, DT_FLOAT, DT_STRING
    <2>2. Swapped(x.f) \in Word /\ DT_FLOAT \in Byte
      BY <2>1, WordIs DEF DT_FLOAT, Byte
    <2>3. Swapped(x.f) \in Seq(Byte) /\ Len(Swapped(x.f)) = 4
      BY <2>2, WordIs
    <2>4. <<x.t>> \in Seq(Byte) /\ Len(<<x.t>>) = 1
      BY <1>1, <2>2
    <2>5. /\ <<x.t>> \o Swapped(x.f) \in Seq(Byte)
          /\ Len(<<x.t>> \o Swapped(x.f)) = Len(<<x.t>>) + Len(Swapped(x.f))
      BY <2>3, <2>4, Joined
    <2>6. DatumBytes(x) = <<x.t>> \o Swapped(x.f) /\ DatumSize(x) = 5
      BY <1>1 DEF DatumBytes, DatumSize
    <2> QED BY <2>3, <2>4, <2>5, <2>6
  <1>2. CASE x.t # DT_FLOAT
    <2>1. x.s \in Text /\ x.t = DT_STRING
      BY <1>2 DEF Datum
    <2>2. /\ x.s \in Seq(Byte) /\ Net(Len(x.s)) \in Word /\ Len(x.s) \in Nat
          /\ x.t \in Byte
      BY <2>1, TextIs DEF DT_STRING, Byte
    <2>3. DatumBytes(x) = <<x.t>> \o Net(Len(x.s)) \o x.s
      BY <1>2 DEF DatumBytes
    <2>5. DatumSize(x) = 5 + Len(x.s)
      <3>1. DatumSize(x) = 1 + 4 + Len(x.s)
        BY <1>2 DEF DatumSize
      <3> QED BY <2>2, <3>1
    <2>4. DatumBytes(x) \in Seq(Byte) /\ Len(DatumBytes(x)) = 5 + Len(x.s)
      <3> DEFINE t == <<x.t>>
                 w == Net(Len(x.s))
      <3>1. t \in Seq(Byte) /\ Len(t) = 1 /\ w \in Word
        BY <2>2
      <3>2. DatumBytes(x) = t \o w \o x.s
        BY <2>3
      <3> HIDE DEF t, w
      <3>3. t \o w \o x.s \in Seq(Byte) /\ Len(t \o w \o x.s) = 5 + Len(x.s)
        BY <2>2, <3>1, LayoutIs
      <3> QED BY <3>2, <3>3
    <2> QED BY <2>2, <2>4, <2>5
  <1> QED BY <1>1, <1>2

(* fromMessage() finds the item that lies at the place that it has reached.*)
LEMMA TakesItem ==
    ASSUME NEW p \in Seq(Byte), NEW at \in Nat \ {0}, NEW x \in Datum, NEW ds \in Seq(Datum),
           at + DatumSize(x) - 1 <= Len(p),
           \A i \in 1 .. DatumSize(x) : p[at + i - 1] = DatumBytes(x)[i]
    PROVE  TakeDatum(p, [at |-> at, d |-> ds])
             = [at |-> at + DatumSize(x), d |-> Append(ds, x)]
  <1> DEFINE s == [at |-> at, d |-> ds]
  <1>0. s.at = at /\ s.d = ds /\ s # Thrown
    <2>1. DOMAIN s = {"at", "d"} /\ DOMAIN Thrown = {"thrown"}
      BY DEF Thrown
    <2>2. "at" \notin {"thrown"}
      OBVIOUS
    <2> QED BY <2>1, <2>2
  <1> HIDE DEF s
  <1>1. CASE x.t = DT_FLOAT
    <2>1. x.f \in Word /\ x = Float(x.f) /\ DatumSize(x) = 5
      BY <1>1 DEF Datum, DT_FLOAT, DT_STRING, DatumSize, Float
    <2>2. Swapped(x.f) \in Word /\ Swapped(Swapped(x.f)) = x.f /\ DT_FLOAT \in Byte
      BY <2>1, WordIs DEF DT_FLOAT, Byte
    <2>3. DatumBytes(x)[1] = x.t /\ \A i \in 1 .. 4 : DatumBytes(x)[1 + i] = Swapped(x.f)[i]
      <3>1. Swapped(x.f) \in Seq(Byte) /\ Len(Swapped(x.f)) = 4
        BY <2>2, WordIs
      <3>2. <<x.t>> \in Seq(Byte) /\ Len(<<x.t>>) = 1
        BY <1>1, <2>2
      <3>3. <<x.t>>[1] = x.t
        OBVIOUS
      <3> DEFINE b == DatumBytes(x)
                 w == Swapped(x.f)
                 t == <<x.t>>
      <3>4. b = t \o w
        BY <1>1 DEF DatumBytes
      <3> HIDE DEF b, w, t
      <3>5. /\ \A i \in 1 .. Len(t) : b[i] = t[i]
            /\ \A i \in 1 .. Len(w) : b[Len(t) + i] = w[i]
        BY <3>1, <3>2, <3>4, Joined DEF w, t
      <3>6. Len(t) = 1 /\ Len(w) = 4 /\ t[1] = x.t
        BY <3>1, <3>2, <3>3 DEF w, t
      <3>7. b[1] = x.t /\ \A i \in 1 .. 4 : b[1 + i] = w[i]
        BY <3>5, <3>6
      <3> QED BY <3>7 DEF b, w
    <2>4. p[at] = DT_FLOAT
      <3>1. 1 \in 1 .. DatumSize(x) /\ at + 1 - 1 = at
        BY <2>1
      <3> QED BY <1>1, <2>3, <3>1
    <2>5. \A i \in 1 .. 4 : p[at + 1 + i - 1] = Swapped(x.f)[i]
      <3>1. \A i \in 1 .. 4 : 1 + i \in 1 .. DatumSize(x) /\ at + (1 + i) - 1 = at + 1 + i - 1
        BY <2>1
      <3> QED BY <2>3, <3>1
    <2>6. Field(p, at + 1) = Swapped(x.f)
      <3>1. at + 1 \in Nat \ {0} /\ at + 1 + 3 <= Len(p)
        BY <2>1, LenProperties
      <3> QED BY <2>2, <2>5, <3>1, FieldIs
    <2>7. TakeDatum(p, s) = [at |-> at + 5, d |-> Append(ds, Float(Swapped(Swapped(x.f))))]
      BY <1>0, <2>4, <2>6 DEF TakeDatum
    <2> QED BY <2>1, <2>2, <2>7 DEF s
  <1>2. CASE x.t # DT_FLOAT
    <2>1. x.s \in Text /\ x = String(x.s) /\ x.t = DT_STRING
      BY <1>2 DEF Datum, String
    <2> DEFINE len == Len(x.s)
               w == Net(len)
    <2>2. /\ x.s \in Seq(Byte) /\ len \in Nat /\ w \in Word /\ NetNumber(w) = len
          /\ x.t \in Byte
      BY <2>1, TextIs DEF DT_STRING, Byte
    <2>3. DatumSize(x) = 5 + len
      BY <1>2, <2>2 DEF DatumSize
    <2>4. DatumBytes(x) = <<x.t>> \o w \o x.s
      BY <1>2 DEF DatumBytes
    <2> HIDE DEF w
    <2>5. /\ DatumBytes(x)[1] = x.t /\ \A i \in 1 .. 4 : DatumBytes(x)[1 + i] = w[i]
          /\ \A i \in 1 .. len : DatumBytes(x)[5 + i] = x.s[i]
      <3> DEFINE t == <<x.t>>
                 b == DatumBytes(x)
      <3>1. t \in Seq(Byte) /\ Len(t) = 1 /\ t[1] = x.t
        BY <2>2
      <3> HIDE DEF t
      <3>2. b = t \o w \o x.s
        BY <2>4 DEF t
      <3> DEFINE c == t \o w \o x.s
      <3>3. /\ c[1] = t[1] /\ \A i \in 1 .. 4 : c[1 + i] = w[i]
            /\ \A i \in 1 .. len : c[5 + i] = x.s[i]
        BY <2>2, <3>1, LayoutIs
      <3> HIDE DEF b, c
      <3>4. b = c
        BY <3>2 DEF c
      <3>5. /\ b[1] = x.t /\ \A i \in 1 .. 4 : b[1 + i] = w[i]
            /\ \A i \in 1 .. len : b[5 + i] = x.s[i]
        BY <3>1, <3>3, <3>4
      <3> QED BY <3>5 DEF b
    <2> HIDE DEF len
    <2>6. p[at] = DT_STRING /\ p[at] # DT_FLOAT
      <3>1. 1 \in 1 .. DatumSize(x) /\ at + 1 - 1 = at
        BY <2>2, <2>3
      <3> QED BY <1>2, <2>1, <2>5, <3>1
    <2>7. \A i \in 1 .. 4 : p[at + 1 + i - 1] = w[i]
      <3>1. \A i \in 1 .. 4 : 1 + i \in 1 .. DatumSize(x) /\ at + (1 + i) - 1 = at + 1 + i - 1
        BY <2>2, <2>3
      <3> QED BY <2>5, <3>1
    <2>8. \A i \in 1 .. len : p[at + 4 + i] = x.s[i]
      <3>1. \A i \in 1 .. len : 5 + i \in 1 .. DatumSize(x) /\ at + (5 + i) - 1 = at + 4 + i
        BY <2>2, <2>3
      <3> QED BY <2>5, <3>1
    <2>9. Len(p) \in Nat /\ at + 4 + len <= Len(p)
      BY <2>2, <2>3, LenProperties
    <2>10. Field(p, at + 1) = w
      <3>1. at + 1 \in Nat \ {0} /\ at + 1 + 3 <= Len(p)
        BY <2>2, <2>9
      <3> QED BY <2>2, <2>7, <3>1, FieldIs
    <2>11. SubSeq(p, at + 5, at + 4 + len) = x.s
      <3> DEFINE q == SubSeq(p, at + 5, at + 4 + len)
      <3>1. \A i \in at + 5 .. at + 4 + len : p[i] \in Byte
        BY <2>2, <2>9, ElementOfSeq
      <3>2. /\ q \in Seq(Byte)
            /\ Len(q) = IF at + 5 <= at + 4 + len THEN at + 4 + len - (at + 5) + 1 ELSE 0
            /\ \A i \in 1 .. at + 4 + len - (at + 5) + 1 : q[i] = p[at + 5 + i - 1]
        BY <2>2, <3>1, SubSeqProperties
      <3> HIDE DEF q
      <3>3. at + 4 + len - (at + 5) + 1 = len /\ (at + 5 > at + 4 + len => len = 0)
            /\ \A i \in 1 .. len : at + 5 + i - 1 = at + 4 + i
        BY <2>2
      <3>4. Len(q) = len /\ \A i \in 1 .. len : q[i] = p[at + 4 + i]
        BY <2>2, <3>2, <3>3
      <3> DEFINE t == x.s
      <3>5. t \in Seq(Byte) /\ Len(q) = Len(t)
        BY <2>2, <3>4 DEF len
      <3>6. \A i \in 1 .. Len(q) : q[i] = t[i]
        BY <2>8, <3>4
      <3> HIDE DEF t
      <3>7. q = t
        BY <3>2, <3>5, <3>6, SeqEqual
      <3> QED BY <3>7 DEF q, t
    <2>12. TakeDatum(p, s) = [at |-> at + 5 + len, d |-> Append(ds, String(x.s))]
      BY <1>0, <2>2, <2>6, <2>10, <2>11 DEF TakeDatum
    <2>13. at + 5 + len = at + DatumSize(x)
      BY <2>2, <2>3
    <2> QED BY <2>1, <2>12, <2>13 DEF s
  <1> QED BY <1>1, <1>2

-----------------------------------------------------------------------------
(* The two passes of toMessage(): the size, and the bytes.                 *)

LEMMA NameLenIs ==
    ASSUME NEW name \in Name
    PROVE  /\ name \in Seq(Letter) /\ name \in Seq(Byte) /\ Len(name) \in Nat
           /\ NameLen(name) \in Nat \ {0} /\ NameLen(name) \in Byte
           /\ NameLen(name) <= Len(name) + 1
           /\ NameLen(name) = IF Len(name) <= MaxName THEN Len(name) + 1 ELSE MaxName + 1
           /\ MaxName \in Nat
  <1>1. name \in Seq(Letter)
    BY DEF Name
  <1>2. Len(name) \in Nat /\ MaxName \in Nat /\ MaxName <= 254
    BY <1>1, LenProperties, CodecAssumption
  <1>3. name \in Seq(Byte)
    BY <1>1, LetterIs, SeqMonotonic
  <1> DEFINE T == {Len(name), MaxName}
             m == Min(T)
  <1>4. m \in T /\ m <= Len(name) /\ m <= MaxName
    <2>1. T \in SUBSET Nat /\ T # {} /\ Len(name) \in T /\ MaxName \in T
      BY <1>2
    <2> HIDE DEF T
    <2> QED BY <2>1, MinIs
  <1>5. m \in {Len(name), MaxName}
    BY <1>4
  <1>6. NameLen(name) = m + 1
    BY DEF NameLen
  <1> HIDE DEF m
  <1>7. m + 1 \in Byte
    <2>1. m + 1 \in Nat /\ m + 1 <= 255
      BY <1>2, <1>4, <1>5
    <2> QED BY <2>1, ByteIs
  <1> QED BY <1>1, <1>2, <1>3, <1>4, <1>5, <1>6, <1>7

(* The bytes of the name that are sent: with its end, or cut short.        *)
Letters(name) == SubSeq(Append(name, 0), 1, NameLen(name))

LEMMA LettersAre ==
    ASSUME NEW name \in Name
    PROVE  /\ Letters(name) \in Seq(Byte) /\ Len(Letters(name)) = NameLen(name)
           /\ \A i \in 1 .. NameLen(name) :
                 Letters(name)[i] = IF i <= Len(name) THEN name[i] ELSE 0
  <1> DEFINE e == Append(name, 0)
             l == Len(name)
             m == NameLen(name)
             q == SubSeq(e, 1, m)
  <1>1. l \in Nat /\ name \in Seq(Byte) /\ m \in Nat \ {0} /\ m <= l + 1
    BY NameLenIs
  <1>2. e \in Seq(Byte) /\ Len(e) = l + 1 /\ e[l + 1] = 0 /\ \A i \in 1 .. l : e[i] = name[i]
    <2>1. 0 \in Byte
      BY ByteIs
    <2> QED BY <1>1, <2>1, AppendProperties
  <1> HIDE DEF e, l, m
  <1>3. \A i \in 1 .. m : e[i] \in Byte /\ e[i] = IF i <= l THEN name[i] ELSE 0
    <2>1. ASSUME NEW i \in 1 .. m PROVE e[i] \in Byte /\ e[i] = IF i <= l THEN name[i] ELSE 0
      <3>1. i \in 1 .. l + 1 /\ (i \in 1 .. l \/ i = l + 1)
        BY <1>1
      <3> QED BY <1>1, <1>2, <3>1, ElementOfSeq
    <2> QED BY <2>1
  <1>4. /\ q \in Seq(Byte) /\ Len(q) = IF 1 <= m THEN m - 1 + 1 ELSE 0
        /\ \A i \in 1 .. m - 1 + 1 : q[i] = e[1 + i - 1]
    BY <1>1, <1>3, SubSeqProperties
  <1> HIDE DEF q
  <1>5. m - 1 + 1 = m /\ \A i \in 1 .. m : 1 + i - 1 = i
    BY <1>1
  <1>6. q \in Seq(Byte) /\ Len(q) = m /\ \A i \in 1 .. m : q[i] = IF i <= l THEN name[i] ELSE 0
    BY <1>1, <1>3, <1>4, <1>5
  <1> QED BY <1>6 DEF q, e, m, l, Letters

LEMMA SizesAre ==
    ASSUME NEW name \in Name, NEW d \in Seq(Datum)
    PROVE  /\ Sizes(name, d)[0] = 9 + NameLen(name)
           /\ \A k \in 1 .. Len(d) :
                 Sizes(name, d)[k] = Sizes(name, d)[k - 1] + DatumSize(d[k])
  <1> DEFINE n == Len(d)
             base == 9 + NameLen(name)
             Rule(f) == f = [k \in 0 .. n |->
                IF k = 0 THEN 4 + 4 + 1 + NameLen(name) ELSE f[k - 1] + DatumSize(d[k])]
             step == [k \in 1 .. n |-> [v \in Nat |-> v + DatumSize(d[k])]]
  <1>1. n \in Nat /\ base \in Nat /\ 4 + 4 + 1 + NameLen(name) = base
    BY NameLenIs, LenProperties
  <1>2. \A k \in 1 .. n : DatumSize(d[k]) \in Nat
    BY ItemIs, ElementOfSeq
  <1>3. Sizes(name, d) = CHOOSE f : Rule(f)
    BY Zenon DEF Sizes
  <1>4. \E f : Rule(f)
    <2>1. step \in Steps(n, Nat)
      BY <1>2 DEF Steps
    <2>2. ASSUME NEW k \in 1 .. n, NEW v \in Nat PROVE step[k][v] = v + DatumSize(d[k])
      OBVIOUS
    <2> HIDE DEF step, base, n
    <2>a. PICK f \in [0 .. n -> Nat] : Follows(f, n, base, step)
      BY <1>1, <2>1, Recursion
    <2>3. f[0] = base /\ \A k \in 1 .. n : f[k] = step[k][f[k - 1]]
      BY <2>a DEF Follows
    <2>4. ASSUME NEW k \in 0 .. n
          PROVE  f[k] = IF k = 0 THEN 4 + 4 + 1 + NameLen(name) ELSE f[k - 1] + DatumSize(d[k])
      <3>1. CASE k = 0
        BY <1>1, <2>3, <3>1
      <3>2. CASE k # 0
        <4>1. k \in 1 .. n /\ k - 1 \in 0 .. n
          BY <1>1, <3>2
        <4>2. f[k] = step[k][f[k - 1]] /\ f[k - 1] \in Nat
          BY <2>3, <4>1
        <4> QED BY <2>2, <3>2, <4>1, <4>2
      <3> QED BY <3>1, <3>2
    <2>5. Rule(f)
      <3>1. f = [k \in 0 .. n |-> f[k]]
        OBVIOUS
      <3> QED BY <2>4, <3>1
    <2> QED BY <2>5
  <1>5. Rule(Sizes(name, d))
    <2> HIDE DEF Rule
    <2> QED BY <1>3, <1>4
  <1> DEFINE g == Sizes(name, d)
  <1>6. g = [k \in 0 .. n |-> IF k = 0 THEN 4 + 4 + 1 + NameLen(name) ELSE g[k - 1] + DatumSize(d[k])]
    BY <1>5
  <1> HIDE DEF g, n, base, Rule
  <1>7. 0 \in 0 .. n /\ \A k \in 1 .. n : k \in 0 .. n /\ k # 0
    BY <1>1
  <1>8. g[0] = 4 + 4 + 1 + NameLen(name) /\ \A k \in 1 .. n : g[k] = g[k - 1] + DatumSize(d[k])
    BY ONLY <1>6, <1>7
  <1> QED BY <1>1, <1>8 DEF g, n, base

LEMMA BytesAre ==
    ASSUME NEW d \in Seq(Datum)
    PROVE  /\ BytesUpTo(d)[0] = <<>>
           /\ \A k \in 1 .. Len(d) : BytesUpTo(d)[k] = BytesUpTo(d)[k - 1] \o DatumBytes(d[k])
           /\ \A k \in 0 .. Len(d) : BytesUpTo(d)[k] \in Seq(Byte)
  <1> DEFINE n == Len(d)
             Rule(f) == f = [k \in 0 .. n |->
                IF k = 0 THEN <<>> ELSE f[k - 1] \o DatumBytes(d[k])]
             step == [k \in 1 .. n |-> [v \in Seq(Byte) |-> v \o DatumBytes(d[k])]]
  <1>1. n \in Nat /\ <<>> \in Seq(Byte)
    BY LenProperties, EmptySeq
  <1>2. \A k \in 1 .. n : DatumBytes(d[k]) \in Seq(Byte)
    BY ItemIs, ElementOfSeq
  <1>3. BytesUpTo(d) = CHOOSE f : Rule(f)
    BY Zenon DEF BytesUpTo
  <1>4. \E f : Rule(f)
    <2>1. step \in Steps(n, Seq(Byte))
      <3>1. \A k \in 1 .. n : \A v \in Seq(Byte) : v \o DatumBytes(d[k]) \in Seq(Byte)
        BY <1>2, Joined
      <3> QED BY <3>1 DEF Steps
    <2>2. ASSUME NEW k \in 1 .. n, NEW v \in Seq(Byte) PROVE step[k][v] = v \o DatumBytes(d[k])
      OBVIOUS
    <2> HIDE DEF step, n
    <2>a. PICK f \in [0 .. n -> Seq(Byte)] : Follows(f, n, <<>>, step)
      BY <1>1, <2>1, Recursion
    <2>3. f[0] = <<>> /\ \A k \in 1 .. n : f[k] = step[k][f[k - 1]]
      BY <2>a DEF Follows
    <2>4. ASSUME NEW k \in 0 .. n
          PROVE  f[k] = IF k = 0 THEN <<>> ELSE f[k - 1] \o DatumBytes(d[k])
      <3>1. CASE k = 0
        BY <2>3, <3>1
      <3>2. CASE k # 0
        <4>1. k \in 1 .. n /\ k - 1 \in 0 .. n
          BY <1>1, <3>2
        <4>2. f[k] = step[k][f[k - 1]] /\ f[k - 1] \in Seq(Byte)
          BY <2>3, <4>1
        <4> QED BY <2>2, <3>2, <4>1, <4>2
      <3> QED BY <3>1, <3>2
    <2>5. Rule(f)
      <3>1. f = [k \in 0 .. n |-> f[k]]
        OBVIOUS
      <3> QED BY <2>4, <3>1
    <2> QED BY <2>5
  <1>5. Rule(BytesUpTo(d))
    <2> HIDE DEF Rule
    <2> QED BY <1>3, <1>4
  <1> DEFINE g == BytesUpTo(d)
  <1>6. g = [k \in 0 .. n |-> IF k = 0 THEN <<>> ELSE g[k - 1] \o DatumBytes(d[k])]
    BY <1>5
  <1> HIDE DEF g, n, Rule
  <1>7. 0 \in 0 .. n /\ \A k \in 1 .. n : k \in 0 .. n /\ k # 0
    BY <1>1
  <1>8. g[0] = <<>> /\ \A k \in 1 .. n : g[k] = g[k - 1] \o DatumBytes(d[k])
    BY ONLY <1>6, <1>7
  <1>9. \A k \in 0 .. n : g[k] \in Seq(Byte)
    <2> DEFINE T == {k \in 0 .. n : g[k] \in Seq(Byte)}
    <2>1. 0 \in T
      <3>1. g[0] \in Seq(Byte)
        BY <1>1, <1>8
      <3> QED BY <1>7, <3>1
    <2>2. ASSUME NEW k \in T \cap Nat, k < n PROVE k + 1 \in T
      <3>1. k + 1 \in 1 .. n /\ k + 1 \in 0 .. n /\ (k + 1) - 1 = k
        BY <1>1, <2>2
      <3>2. g[k + 1] = g[k] \o DatumBytes(d[k + 1])
        BY <1>8, <3>1
      <3>3. g[k + 1] \in Seq(Byte)
        BY <1>2, <3>1, <3>2, Joined
      <3> QED BY <3>1, <3>3
    <2> HIDE DEF T
    <2>3. \A k \in 0 .. n : k \in T
      BY <1>1, <2>1, <2>2, UpTo
    <2> QED BY <2>3 DEF T
  <1> QED BY <1>8, <1>9 DEF g, n

(* "Now we have the size, alloc the buffer and fill it in."                *)
LEMMA PassesAgree ==
    ASSUME NEW name \in Name, NEW d \in Seq(Datum)
    PROVE  \A k \in 0 .. Len(d) : Sizes(name, d)[k] = 9 + NameLen(name) + Len(BytesUpTo(d)[k])
  <1> DEFINE n == Len(d)
             l == NameLen(name)
             g == Sizes(name, d)
             b == BytesUpTo(d)
             T == {k \in 0 .. n : g[k] = 9 + l + Len(b[k])}
  <1>1. n \in Nat /\ l \in Nat
    BY NameLenIs, LenProperties
  <1>2. g[0] = 9 + l /\ \A k \in 1 .. n : g[k] = g[k - 1] + DatumSize(d[k])
    BY SizesAre
  <1>3. /\ b[0] = <<>> /\ \A k \in 1 .. n : b[k] = b[k - 1] \o DatumBytes(d[k])
        /\ \A k \in 0 .. n : b[k] \in Seq(Byte)
    BY BytesAre
  <1>4. \A k \in 1 .. n : /\ DatumBytes(d[k]) \in Seq(Byte) /\ DatumSize(d[k]) \in Nat
                          /\ Len(DatumBytes(d[k])) = DatumSize(d[k])
    BY ItemIs, ElementOfSeq
  <1> HIDE DEF n, l, g, b
  <1>5. 0 \in T
    <2>1. Len(b[0]) = 0 /\ 0 \in 0 .. n
      BY <1>1, <1>3
    <2>2. g[0] = 9 + l + Len(b[0])
      BY <1>1, <1>2, <2>1
    <2> QED BY <2>1, <2>2
  <1>6. ASSUME NEW k \in T \cap Nat, k < n PROVE k + 1 \in T
    <2>1. k + 1 \in 1 .. n /\ k \in 0 .. n /\ k + 1 \in 0 .. n /\ (k + 1) - 1 = k
      BY <1>1, <1>6
    <2>2. g[k + 1] = g[k] + DatumSize(d[k + 1]) /\ b[k + 1] = b[k] \o DatumBytes(d[k + 1])
      BY <1>2, <1>3, <2>1
    <2>3. Len(b[k + 1]) = Len(b[k]) + DatumSize(d[k + 1]) /\ Len(b[k]) \in Nat
      <3>1. b[k] \in Seq(Byte) /\ DatumBytes(d[k + 1]) \in Seq(Byte)
        BY <1>3, <1>4, <2>1
      <3>2. Len(b[k] \o DatumBytes(d[k + 1])) = Len(b[k]) + Len(DatumBytes(d[k + 1]))
            /\ Len(b[k]) \in Nat
        BY <3>1, Joined
      <3> QED BY <1>4, <2>1, <2>2, <3>2
    <2>4. g[k] = 9 + l + Len(b[k]) /\ DatumSize(d[k + 1]) \in Nat
      BY <1>4, <2>1
    <2>5. g[k + 1] = 9 + l + Len(b[k + 1])
      <3> DEFINE size == DatumSize(d[k + 1])
                 r == Len(b[k])
                 m == Len(b[k + 1])
      <3>1. /\ g[k + 1] = g[k] + size /\ m = r + size /\ r \in Nat
            /\ g[k] = 9 + l + r /\ size \in Nat
        BY <2>2, <2>3, <2>4
      <3> HIDE DEF size, r, m
      <3>2. g[k + 1] = 9 + l + m
        BY <1>1, <3>1
      <3> QED BY <3>2 DEF m
    <2> QED BY <2>1, <2>5
  <1> HIDE DEF T
  <1>7. \A k \in 0 .. n : k \in T
    BY <1>1, <1>5, <1>6, UpTo
  <1> QED BY <1>7 DEF T, n, l, g, b

(* What has been written stays as it is.                                   *)
LEMMA WrittenStays ==
    ASSUME NEW d \in Seq(Datum), NEW k \in 0 .. Len(d)
    PROVE  /\ Len(BytesUpTo(d)[k]) \in Nat /\ Len(DataBytes(d)) \in Nat
           /\ Len(BytesUpTo(d)[k]) <= Len(DataBytes(d))
           /\ \A i \in 1 .. Len(BytesUpTo(d)[k]) : DataBytes(d)[i] = BytesUpTo(d)[k][i]
  <1> DEFINE n == Len(d)
             b == BytesUpTo(d)
             Kept(m) == k <= m => /\ Len(b[k]) <= Len(b[m])
                                  /\ \A i \in 1 .. Len(b[k]) : b[m][i] = b[k][i]
             T == {m \in 0 .. n : Kept(m)}
  <1>1. n \in Nat
    BY LenProperties
  <1>2. /\ \A j \in 1 .. n : b[j] = b[j - 1] \o DatumBytes(d[j])
        /\ \A j \in 0 .. n : b[j] \in Seq(Byte)
    BY BytesAre
  <1>3. \A j \in 1 .. n : DatumBytes(d[j]) \in Seq(Byte)
    BY ItemIs, ElementOfSeq
  <1>4. \A j \in 0 .. n : Len(b[j]) \in Nat
    BY <1>2, LenProperties
  <1>a. k \in 0 .. n
    OBVIOUS
  <1> HIDE DEF n, b
  <1>5. Kept(k)
    BY <1>4, <1>a
  <1>6. 0 \in T
    <2>1. k <= 0 => k = 0
      BY <1>1, <1>a
    <2> QED BY <1>1, <1>5, <2>1
  <1>7. ASSUME NEW m \in T \cap Nat, m < n PROVE m + 1 \in T
    <2>1. m + 1 \in 1 .. n /\ m \in 0 .. n /\ m + 1 \in 0 .. n /\ (m + 1) - 1 = m
      BY <1>1, <1>7
    <2>2. CASE k = m + 1
      BY <1>5, <2>1, <2>2
    <2>3. CASE k # m + 1 /\ ~(k <= m)
      <3>1. ~(k <= m + 1)
        BY <1>1, <1>a, <2>1, <2>3
      <3> QED BY <2>1, <3>1
    <2>4. CASE k <= m
      <3>1. Len(b[k]) <= Len(b[m]) /\ \A i \in 1 .. Len(b[k]) : b[m][i] = b[k][i]
        BY <2>4
      <3> DEFINE x == b[m]
                 y == DatumBytes(d[m + 1])
      <3>2. x \in Seq(Byte) /\ y \in Seq(Byte) /\ b[m + 1] = x \o y
        BY <1>2, <1>3, <2>1
      <3> HIDE DEF y
      <3>3. /\ Len(x \o y) = Len(x) + Len(y) /\ Len(x) \in Nat /\ Len(y) \in Nat
            /\ \A i \in 1 .. Len(x) : (x \o y)[i] = x[i]
        BY <3>2, Joined
      <3>4. /\ Len(b[m + 1]) = Len(b[m]) + Len(y)
            /\ \A i \in 1 .. Len(b[m]) : b[m + 1][i] = b[m][i]
        BY <3>2, <3>3
      <3>5. Len(b[k]) <= Len(b[m + 1])
        BY <1>4, <1>a, <2>1, <3>1, <3>3, <3>4
      <3>6. \A i \in 1 .. Len(b[k]) : b[m + 1][i] = b[k][i]
        <4>1. \A i \in 1 .. Len(b[k]) : i \in 1 .. Len(b[m])
          BY <1>4, <1>a, <2>1, <3>1
        <4> QED BY <3>1, <3>4, <4>1
      <3> QED BY <2>1, <3>5, <3>6
    <2> QED BY <2>2, <2>3, <2>4
  <1>8. \A m \in 0 .. n : m \in T
    <2> HIDE DEF T
    <2> QED BY <1>1, <1>6, <1>7, UpTo
  <1>9. n \in 0 .. n /\ k <= n
    BY <1>1, <1>a
  <1>10. Kept(n)
    BY <1>8, <1>9
  <1>11. DataBytes(d) = b[n]
    BY DEF DataBytes, b, n
  <1> QED BY <1>4, <1>9, <1>10, <1>11, <1>a DEF b

-----------------------------------------------------------------------------
(* A "const char *" in a block.                                            *)

LEMMA CStringIs ==
    ASSUME NEW q \in Seq(Byte), NEW s \in Seq(Letter), Len(s) + 1 <= Len(q),
           \A i \in 1 .. Len(s) : q[i] = s[i], q[Len(s) + 1] = 0
    PROVE  CString(q) = s
  <1> DEFINE ends == {i \in 1 .. Len(q) : q[i] = 0}
  <1>1. Len(s) \in Nat /\ Len(q) \in Nat /\ \A i \in 1 .. Len(s) : s[i] # 0
    BY LenProperties, ElementOfSeq, LetterIs
  <1>2. ends \in SUBSET Nat /\ ends # {} /\ Len(s) + 1 \in ends
    BY <1>1
  <1>3. \A i \in ends : i >= Len(s) + 1
    BY <1>1
  <1>4. Min(ends) = Len(s) + 1
    <2> HIDE DEF ends
    <2>1. Min(ends) \in ends /\ Min(ends) <= Len(s) + 1 /\ Min(ends) \in Nat
      BY <1>2, MinIs
    <2> QED BY <1>1, <1>3, <2>1
  <1>5. SubSeq(q, 1, Len(s)) = s
    <2> DEFINE r == SubSeq(q, 1, Len(s))
    <2>1. \A i \in 1 .. Len(s) : q[i] \in Letter
      BY <1>1, ElementOfSeq
    <2>2. /\ r \in Seq(Letter)
          /\ Len(r) = IF 1 <= Len(s) THEN Len(s) - 1 + 1 ELSE 0
          /\ \A i \in 1 .. Len(s) - 1 + 1 : r[i] = q[1 + i - 1]
      BY <1>1, <2>1, SubSeqProperties
    <2> HIDE DEF r
    <2>3. Len(s) - 1 + 1 = Len(s) /\ \A i \in 1 .. Len(s) : 1 + i - 1 = i
      BY <1>1
    <2>4. Len(r) = Len(s) /\ \A i \in 1 .. Len(s) : r[i] = s[i]
      BY <1>1, <2>2, <2>3
    <2>5. r = s
      BY <2>2, <2>4, SeqEqual
    <2> QED BY <2>5 DEF r
  <1>6. CString(q) = SubSeq(q, 1, Min(ends) - 1)
    BY <1>2 DEF CString
  <1>7. Len(s) + 1 - 1 = Len(s)
    BY <1>1
  <1> HIDE DEF ends
  <1> QED BY <1>4, <1>5, <1>6, <1>7

(* It ends before the first 0, or with the block.                          *)
LEMMA CStringType ==
    ASSUME NEW q \in Seq(Byte)
    PROVE  /\ CString(q) \in Seq(Letter) /\ Len(CString(q)) \in Nat /\ Len(CString(q)) <= Len(q)
           /\ \A i \in 1 .. Len(CString(q)) : CString(q)[i] = q[i]
           /\ \/ CString(q) = q
              \/ Len(CString(q)) + 1 <= Len(q) /\ q[Len(CString(q)) + 1] = 0
  <1> DEFINE ends == {i \in 1 .. Len(q) : q[i] = 0}
  <1>1. Len(q) \in Nat
    BY LenProperties
  <1>2. ASSUME NEW i \in 1 .. Len(q), i \notin ends PROVE q[i] \in Letter
    <2>1. q[i] \in Byte /\ q[i] # 0
      BY <1>2, ElementOfSeq
    <2> QED BY <2>1, LetterIs
  <1>3. CASE ends = {}
    <2>1. CString(q) = q
      BY <1>3 DEF CString
    <2>2. \A i \in 1 .. Len(q) : q[i] \in Letter
      BY <1>2, <1>3
    <2>3. q \in [1 .. Len(q) -> Letter]
      <3>1. q \in [1 .. Len(q) -> Byte]
        BY LenProperties
      <3> QED BY <2>2, <3>1
    <2> QED BY <1>1, <2>1, <2>3, IsSeq
  <1>4. CASE ends # {}
    <2> DEFINE m == Min(ends)
               r == SubSeq(q, 1, m - 1)
    <2>1. CString(q) = r
      BY <1>4 DEF CString
    <2>2. ends \in SUBSET Nat
      OBVIOUS
    <2>3. m \in ends /\ \A i \in ends : m <= i
      <3> HIDE DEF ends
      <3> QED BY <1>4, <2>2, MinIs
    <2>4. m \in 1 .. Len(q) /\ q[m] = 0
      BY <2>3
    <2> HIDE DEF m
    <2>5. \A i \in 1 .. m - 1 : i \in 1 .. Len(q) /\ i \notin ends
      BY <1>1, <2>3, <2>4
    <2>6. \A i \in 1 .. m - 1 : q[i] \in Letter
      BY <1>2, <2>5
    <2>7. /\ r \in Seq(Letter) /\ Len(r) = IF 1 <= m - 1 THEN m - 1 - 1 + 1 ELSE 0
          /\ \A i \in 1 .. m - 1 - 1 + 1 : r[i] = q[1 + i - 1]
      BY <2>4, <2>6, SubSeqProperties
    <2> HIDE DEF r
    <2>8. Len(r) = m - 1 /\ \A i \in 1 .. Len(r) : r[i] = q[i]
      <3>1. m - 1 - 1 + 1 = m - 1 /\ \A i \in 1 .. m - 1 : 1 + i - 1 = i
        BY <1>1, <2>4
      <3>2. Len(r) = m - 1
        BY <1>1, <2>4, <2>7
      <3> QED BY <2>7, <3>1, <3>2
    <2>9. Len(r) \in Nat /\ Len(r) + 1 <= Len(q) /\ q[Len(r) + 1] = 0 /\ Len(r) <= Len(q)
      BY <1>1, <2>4, <2>8
    <2> QED BY <2>1, <2>7, <2>8, <2>9
  <1> QED BY <1>3, <1>4

(* Letters before a block go on into it.                                   *)
LEMMA CStringJoined ==
    ASSUME NEW a \in Seq(Letter), NEW b \in Seq(Byte)
    PROVE  CString(a \o b) = a \o CString(b)
  <1> DEFINE c == a \o b
             s == CString(b)
             r == a \o s
             l == Len(a)
  <1>1. a \in Seq(Byte) /\ l \in Nat /\ Len(b) \in Nat
    BY LetterIs, SeqMonotonic, LenProperties
  <1>2. /\ c \in Seq(Byte) /\ Len(c) = l + Len(b)
        /\ \A i \in 1 .. l : c[i] = a[i]
        /\ \A i \in 1 .. Len(b) : c[l + i] = b[i]
    BY <1>1, Joined
  <1>3. /\ s \in Seq(Letter) /\ Len(s) \in Nat /\ Len(s) <= Len(b)
        /\ \A i \in 1 .. Len(s) : s[i] = b[i]
        /\ s = b \/ (Len(s) + 1 <= Len(b) /\ b[Len(s) + 1] = 0)
    BY CStringType
  <1>4. s \in Seq(Byte)
    BY <1>3, LetterIs, SeqMonotonic
  <1> HIDE DEF s
  <1>5. /\ Len(r) = l + Len(s)
        /\ \A i \in 1 .. l : r[i] = a[i]
        /\ \A i \in 1 .. Len(s) : r[l + i] = s[i]
    BY <1>1, <1>4, Joined
  <1>6. r \in Seq(Letter)
    BY <1>3, ConcatProperties
  <1> HIDE DEF c, r, l
  <1>7. ASSUME NEW i \in 1 .. Len(r) PROVE c[i] = r[i]
    <2>1. CASE i \in 1 .. l
      BY <1>2, <1>5, <2>1
    <2>2. CASE i \notin 1 .. l
      <3>1. i - l \in 1 .. Len(s) /\ i - l \in 1 .. Len(b) /\ i = l + (i - l)
        BY <1>1, <1>3, <1>5, <2>2
      <3>2. c[l + (i - l)] = b[i - l] /\ r[l + (i - l)] = s[i - l] /\ s[i - l] = b[i - l]
        BY <1>2, <1>3, <1>5, <3>1
      <3> QED BY <3>1, <3>2
    <2> QED BY <2>1, <2>2
  <1>8. CASE Len(s) + 1 <= Len(b) /\ b[Len(s) + 1] = 0
    <2>1. Len(s) + 1 \in 1 .. Len(b) /\ Len(r) + 1 <= Len(c) /\ Len(r) + 1 = l + (Len(s) + 1)
      BY <1>1, <1>2, <1>3, <1>5, <1>8
    <2>2. c[Len(r) + 1] = 0
      BY <1>2, <1>8, <2>1
    <2>3. CString(c) = r
      BY <1>2, <1>6, <1>7, <2>1, <2>2, CStringIs
    <2> QED BY <2>3 DEF c, r, s
  <1>9. CASE s = b
    <2>1. c = r
      BY <1>9 DEF c, r
    <2>2. \A i \in 1 .. Len(c) : c[i] # 0
      BY <1>6, <2>1, ElementOfSeq, LetterIs
    <2>3. CString(c) = c
      BY <2>2 DEF CString
    <2> QED BY <2>1, <2>3 DEF c, r, s
  <1> QED BY <1>3, <1>8, <1>9

(* The last part of a block.                                               *)
LEMMA RestIs ==
    ASSUME NEW p \in Seq(Byte), NEW m \in Nat \ {0}, m <= Len(p) + 1
    PROVE  /\ SubSeq(p, m, Len(p)) \in Seq(Byte)
           /\ Len(SubSeq(p, m, Len(p))) = Len(p) - m + 1
           /\ \A i \in 1 .. Len(p) - m + 1 : SubSeq(p, m, Len(p))[i] = p[m + i - 1]
  <1>1. Len(p) \in Nat
    BY LenProperties
  <1>2. \A i \in m .. Len(p) : p[i] \in Byte
    BY <1>1, ElementOfSeq
  <1> DEFINE q == SubSeq(p, m, Len(p))
  <1>3. /\ q \in Seq(Byte)
        /\ Len(q) = IF m <= Len(p) THEN Len(p) - m + 1 ELSE 0
        /\ \A i \in 1 .. Len(p) - m + 1 : q[i] = p[m + i - 1]
    BY <1>1, <1>2, SubSeqProperties
  <1> HIDE DEF q
  <1>4. Len(q) = Len(p) - m + 1
    BY <1>1, <1>3
  <1> QED BY <1>3, <1>4 DEF q

-----------------------------------------------------------------------------
(* What is where in a message.                                             *)

Types == {CS_PUBLISH, CS_SUBSCRIBE, CS_KILLSERVER, CS_CLEARSERVER, SC_NOTIFY, SC_KILLCLIENT}

LEMMA TypesAre == \A type \in Types : type \in Nat /\ type <= MaxInt
  <1>1. \A type \in Types : type \in Nat /\ type <= 30
    BY DEF Types, CS_PUBLISH, CS_SUBSCRIBE, CS_KILLSERVER, CS_CLEARSERVER, SC_NOTIFY, SC_KILLCLIENT
  <1>2. MaxInt \in Nat /\ 30 <= MaxInt
    BY SMT DEF MaxInt
  <1> QED BY <1>1, <1>2

(* What follows the type.                                                  *)
Rest(name, d) == ((Net(Len(d)) \o <<NameLen(name)>>) \o Letters(name)) \o DataBytes(d)

LEMMA DataBytesAre ==
    ASSUME NEW d \in Data
    PROVE  DataBytes(d) \in Seq(Byte) /\ Len(DataBytes(d)) \in Nat
  <1>1. d \in Seq(Datum) /\ Len(d) \in Nat
    BY LenProperties DEF Data
  <1>2. Len(d) \in 0 .. Len(d)
    BY <1>1
  <1>3. DataBytes(d) \in Seq(Byte)
    BY <1>1, <1>2, BytesAre DEF DataBytes
  <1> QED BY <1>3, LenProperties

LEMMA RestsAre ==
    ASSUME NEW name \in Name, NEW d \in Data
    PROVE  LET r == Rest(name, d)
               m == NameLen(name)
           IN  /\ r \in Seq(Byte) /\ Len(r) = 5 + m + Len(DataBytes(d))
               /\ \A i \in 1 .. 4 : r[i] = Net(Len(d))[i]
               /\ r[5] = m
               /\ \A i \in 1 .. m : r[5 + i] = Letters(name)[i]
               /\ \A i \in 1 .. Len(DataBytes(d)) : r[5 + m + i] = DataBytes(d)[i]
  <1> DEFINE b == Net(Len(d))
             c == <<NameLen(name)>>
             e == Letters(name)
             f == DataBytes(d)
             m == NameLen(name)
  <1>1. m \in Nat /\ m \in Byte
    BY NameLenIs
  <1>2. b \in Seq(Byte) /\ Len(b) = 4
    <2>1. Len(d) \in Nat /\ Len(d) <= MaxInt
      BY LenProperties DEF Data
    <2> QED BY <2>1, NetIs, WordIs
  <1>3. c \in Seq(Byte) /\ Len(c) = 1 /\ c[1] = m
    BY <1>1
  <1>4. e \in Seq(Byte) /\ Len(e) = m
    BY LettersAre
  <1>5. f \in Seq(Byte) /\ Len(f) \in Nat
    BY DataBytesAre
  <1>6. Rest(name, d) = ((b \o c) \o e) \o f
    BY DEF Rest
  <1> HIDE DEF b, c, e, f, m
  <1> DEFINE x == b \o c
             y == x \o e
             z == y \o f
  <1>7. /\ x \in Seq(Byte) /\ Len(x) = Len(b) + Len(c)
        /\ \A i \in 1 .. Len(b) : x[i] = b[i]
        /\ \A i \in 1 .. Len(c) : x[Len(b) + i] = c[i]
    BY <1>2, <1>3, Joined
  <1> HIDE DEF x
  <1>8. /\ y \in Seq(Byte) /\ Len(y) = Len(x) + Len(e)
        /\ \A i \in 1 .. Len(x) : y[i] = x[i]
        /\ \A i \in 1 .. Len(e) : y[Len(x) + i] = e[i]
    BY <1>4, <1>7, Joined
  <1> HIDE DEF y
  <1>9. /\ z \in Seq(Byte) /\ Len(z) = Len(y) + Len(f)
        /\ \A i \in 1 .. Len(y) : z[i] = y[i]
        /\ \A i \in 1 .. Len(f) : z[Len(y) + i] = f[i]
    BY <1>5, <1>8, Joined
  <1> HIDE DEF z
  <1>10. Len(x) = 5 /\ Len(y) = 5 + m /\ Len(z) = 5 + m + Len(f)
    BY <1>1, <1>2, <1>3, <1>4, <1>5, <1>7, <1>8, <1>9
  <1>11. ASSUME NEW i \in 1 .. 5 PROVE z[i] = x[i]
    <2>1. i \in 1 .. Len(x) /\ i \in 1 .. Len(y)
      BY <1>1, <1>10
    <2> QED BY <1>8, <1>9, <2>1
  <1>12. \A i \in 1 .. 4 : z[i] = b[i]
    <2>1. \A i \in 1 .. 4 : i \in 1 .. 5 /\ i \in 1 .. Len(b)
      BY <1>2
    <2> QED BY <1>7, <1>11, <2>1
  <1>13. z[5] = m
    <2>1. 5 \in 1 .. 5 /\ 1 \in 1 .. Len(c) /\ Len(b) + 1 = 5
      BY <1>2, <1>3
    <2>2. z[5] = x[5] /\ x[Len(b) + 1] = c[1]
      BY <1>7, <1>11, <2>1
    <2> QED BY <1>3, <2>1, <2>2
  <1>14. \A i \in 1 .. m : z[5 + i] = e[i]
    <2>1. \A i \in 1 .. m : 5 + i \in 1 .. Len(y) /\ i \in 1 .. Len(e)
      BY <1>1, <1>4, <1>10
    <2> QED BY <1>8, <1>9, <1>10, <2>1
  <1>15. \A i \in 1 .. Len(f) : z[5 + m + i] = f[i]
    BY <1>9, <1>10
  <1>16. z = Rest(name, d)
    BY <1>6 DEF z, y, x
  <1> QED BY <1>9, <1>10, <1>12, <1>13, <1>14, <1>15, <1>16 DEF b, e, f, m

(* The type is all that Stamped() changes.                                 *)
LEMMA TypeAndRest ==
    ASSUME NEW type \in Types, NEW name \in Name, NEW d \in Data
    PROVE  /\ ToMessage(type, name, d) = Net(type) \o Rest(name, d)
           /\ SubSeq(ToMessage(type, name, d), 5, Len(ToMessage(type, name, d))) = Rest(name, d)
  <1> DEFINE a == Net(type)
             b == Net(Len(d))
             c == <<NameLen(name)>>
             e == Letters(name)
             f == DataBytes(d)
             p == ToMessage(type, name, d)
             r == Rest(name, d)
  <1>1. a \in Seq(Byte) /\ Len(a) = 4
    BY TypesAre, NetIs, WordIs
  <1>2. b \in Seq(Byte)
    <2>1. Len(d) \in Nat /\ Len(d) <= MaxInt
      BY LenProperties DEF Data
    <2> QED BY <2>1, NetIs, WordIs
  <1>3. c \in Seq(Byte)
    BY NameLenIs
  <1>4. e \in Seq(Byte) /\ f \in Seq(Byte)
    BY LettersAre, DataBytesAre
  <1>5. p = (((a \o b) \o c) \o e) \o f /\ r = ((b \o c) \o e) \o f
    BY DEF ToMessage, Rest, Letters
  <1> HIDE DEF a, b, c, e, f, p, r
  <1>6. /\ (a \o b) \o c = a \o (b \o c)
        /\ (a \o (b \o c)) \o e = a \o ((b \o c) \o e)
        /\ (a \o ((b \o c) \o e)) \o f = a \o (((b \o c) \o e) \o f)
    <2>1. b \o c \in Seq(Byte) /\ (b \o c) \o e \in Seq(Byte)
      BY <1>2, <1>3, <1>4, ConcatProperties
    <2>2. (a \o b) \o c = a \o (b \o c)
      BY <1>1, <1>2, <1>3, ConcatAssociative
    <2> DEFINE x == b \o c
               y == x \o e
    <2>3. x \in Seq(Byte) /\ y \in Seq(Byte)
      BY <2>1
    <2> HIDE DEF x, y
    <2>4. ASSUME NEW u \in Seq(Byte), NEW v \in Seq(Byte), NEW w \in Seq(Byte)
          PROVE  (u \o v) \o w = u \o (v \o w)
      BY ConcatAssociative
    <2>5. (a \o x) \o e = a \o (x \o e)
      BY <1>1, <1>4, <2>3, <2>4, Zenon
    <2>6. (a \o y) \o f = a \o (y \o f)
      BY <1>1, <1>4, <2>3, <2>4, Zenon
    <2> QED BY <2>2, <2>5, <2>6 DEF x, y
  <1>7. p = a \o r
    BY <1>5, <1>6
  <1>8. r \in Seq(Byte)
    BY RestsAre DEF r
  <1>9. /\ p \in Seq(Byte) /\ Len(p) = 4 + Len(r) /\ Len(r) \in Nat
        /\ \A i \in 1 .. Len(r) : p[4 + i] = r[i]
    <2>1. /\ a \o r \in Seq(Byte) /\ Len(a \o r) = Len(a) + Len(r) /\ Len(r) \in Nat
          /\ \A i \in 1 .. Len(r) : (a \o r)[Len(a) + i] = r[i]
      BY <1>1, <1>8, Joined
    <2> QED BY <1>1, <1>7, <2>1
  <1> DEFINE q == SubSeq(p, 5, Len(p))
  <1>10. /\ q \in Seq(Byte) /\ Len(q) = Len(p) - 5 + 1
         /\ \A i \in 1 .. Len(p) - 5 + 1 : q[i] = p[5 + i - 1]
    <2>1. 5 \in Nat \ {0} /\ 5 <= Len(p) + 1
      BY <1>9
    <2> QED BY <1>9, <2>1, RestIs
  <1> HIDE DEF q
  <1>11. Len(q) = Len(r) /\ \A i \in 1 .. Len(r) : q[i] = r[i]
    <2>1. Len(p) - 5 + 1 = Len(r) /\ \A i \in 1 .. Len(r) : 5 + i - 1 = 4 + i
      BY <1>9
    <2> QED BY <1>9, <1>10, <2>1
  <1>12. q = r
    BY <1>8, <1>10, <1>11, SeqEqual
  <1> QED BY <1>7, <1>12 DEF q, p, a, r

LEMMA MessageIs ==
    ASSUME NEW type \in Types, NEW name \in Name, NEW d \in Data
    PROVE  LET p == ToMessage(type, name, d)
               m == NameLen(name)
           IN  /\ p \in Seq(Byte) /\ Len(p) = 9 + m + Len(DataBytes(d))
               /\ \A i \in 1 .. 4 : p[i] = Net(type)[i]
               /\ \A i \in 1 .. 4 : p[4 + i] = Net(Len(d))[i]
               /\ p[9] = m
               /\ \A i \in 1 .. m : p[9 + i] = Letters(name)[i]
               /\ \A i \in 1 .. Len(DataBytes(d)) : p[9 + m + i] = DataBytes(d)[i]
  <1> DEFINE a == Net(type)
             r == Rest(name, d)
             f == DataBytes(d)
             e == Letters(name)
             b == Net(Len(d))
             p == a \o r
             m == NameLen(name)
  <1>1. a \in Seq(Byte) /\ Len(a) = 4
    BY TypesAre, NetIs, WordIs
  <1>2. /\ r \in Seq(Byte) /\ Len(r) = 5 + m + Len(f)
        /\ \A i \in 1 .. 4 : r[i] = b[i]
        /\ r[5] = m
        /\ \A i \in 1 .. m : r[5 + i] = e[i]
        /\ \A i \in 1 .. Len(f) : r[5 + m + i] = f[i]
    BY RestsAre
  <1>3. m \in Nat /\ Len(f) \in Nat
    BY NameLenIs, DataBytesAre
  <1> HIDE DEF a, r, f, e, b, m
  <1>4. /\ p \in Seq(Byte) /\ Len(p) = 4 + Len(r)
        /\ \A i \in 1 .. 4 : p[i] = a[i]
        /\ \A i \in 1 .. Len(r) : p[4 + i] = r[i]
    <2>1. /\ p \in Seq(Byte) /\ Len(p) = Len(a) + Len(r)
          /\ \A i \in 1 .. Len(a) : p[i] = a[i]
          /\ \A i \in 1 .. Len(r) : p[Len(a) + i] = r[i]
      BY <1>1, <1>2, Joined
    <2> HIDE DEF p
    <2> QED BY <1>1, <2>1
  <1> HIDE DEF p
  <1>5. Len(p) = 9 + m + Len(f)
    BY <1>2, <1>3, <1>4
  <1>6. \A i \in 1 .. 4 : p[4 + i] = b[i]
    <2>1. \A i \in 1 .. 4 : i \in 1 .. Len(r)
      BY <1>2, <1>3
    <2> QED BY <1>2, <1>4, <2>1
  <1>7. p[9] = m
    <2>1. 5 \in 1 .. Len(r) /\ 4 + 5 = 9
      BY <1>2, <1>3
    <2> QED BY <1>2, <1>4, <2>1
  <1>8. \A i \in 1 .. m : p[9 + i] = e[i]
    <2>1. \A i \in 1 .. m : 5 + i \in 1 .. Len(r) /\ 4 + (5 + i) = 9 + i
      BY <1>2, <1>3
    <2> QED BY <1>2, <1>4, <2>1
  <1>9. \A i \in 1 .. Len(f) : p[9 + m + i] = f[i]
    <2>1. \A i \in 1 .. Len(f) : 5 + m + i \in 1 .. Len(r) /\ 4 + (5 + m + i) = 9 + m + i
      BY <1>2, <1>3
    <2> QED BY <1>2, <1>4, <2>1
  <1>10. p = ToMessage(type, name, d)
    BY TypeAndRest DEF p, a, r
  <1> QED BY <1>4, <1>5, <1>6, <1>7, <1>8, <1>9, <1>10 DEF a, b, e, f, m

(* What is sent of a name that is not clipped, and of one that is.         *)
LEMMA BeyondIs == \A x \in Beyond : x \in Seq(Byte)
  <1>1. \A x \in Beyond : x \in Seq(Letter)
    BY CodecAssumption DEF Letter
  <1> QED BY <1>1, LetterIs, SeqMonotonic

LEMMA NameSentIs ==
    ASSUME NEW name \in Name, NEW d \in Data, NEW x \in Beyond
    PROVE  /\ NameSent(name, d, x) \in Name
           /\ CString(Letters(name) \o (DataBytes(d) \o x)) = NameSent(name, d, x)
           /\ Letters(NameSent(name, d, x)) = Letters(name)
           /\ NameLen(NameSent(name, d, x)) = NameLen(name)
  <1> DEFINE l == Len(name)
             f == DataBytes(d) \o x
             e == Letters(name)
             m == NameLen(name)
  <1>1. /\ l \in Nat /\ name \in Seq(Letter) /\ m \in Nat \ {0} /\ m <= l + 1 /\ MaxName \in Nat
        /\ m = IF l <= MaxName THEN l + 1 ELSE MaxName + 1
    BY NameLenIs
  <1>2. e \in Seq(Byte) /\ Len(e) = m /\ \A i \in 1 .. m : e[i] = IF i <= l THEN name[i] ELSE 0
    BY LettersAre
  <1>3. f \in Seq(Byte) /\ Len(f) \in Nat
    <2>1. DataBytes(d) \in Seq(Byte) /\ x \in Seq(Byte)
      BY DataBytesAre, BeyondIs
    <2> QED BY <2>1, Joined
  <1>4. CASE l <= MaxName
    <2>1. NameSent(name, d, x) = name
      BY <1>4 DEF NameSent
    <2> HIDE DEF l, f, e, m
    <2> DEFINE q == e \o f
    <2>2. /\ q \in Seq(Byte) /\ Len(q) = m + Len(f)
          /\ \A i \in 1 .. m : q[i] = e[i]
      BY <1>2, <1>3, Joined
    <2> HIDE DEF q
    <2>3. l + 1 <= Len(q) /\ q[l + 1] = 0 /\ \A i \in 1 .. l : q[i] = name[i]
      <3>1. m = l + 1 /\ l + 1 \in 1 .. m /\ \A i \in 1 .. l : i \in 1 .. m
        BY <1>1, <1>4
      <3>2. ~(l + 1 <= l) /\ \A i \in 1 .. l : i <= l
        BY <1>1
      <3> QED BY <1>1, <1>2, <1>3, <2>2, <3>1, <3>2
    <2>4. CString(q) = name
      BY <1>1, <2>2, <2>3, CStringIs DEF l
    <2> QED BY <2>1, <2>4 DEF q, e, f, m
  <1>5. CASE ~(l <= MaxName)
    <2>1. m = MaxName + 1 /\ m <= l
      BY <1>1, <1>5
    <2> DEFINE a == SubSeq(name, 1, MaxName + 1)
               c == CString(f)
               s == a \o c
    <2>2. NameSent(name, d, x) = s
      BY <1>5 DEF NameSent
    <2>3. a \in Seq(Letter) /\ Len(a) = m /\ \A i \in 1 .. m : a[i] = name[i]
      <3>1. \A i \in 1 .. MaxName + 1 : name[i] \in Letter
        BY <1>1, <2>1, ElementOfSeq
      <3>2. /\ a \in Seq(Letter)
            /\ Len(a) = IF 1 <= MaxName + 1 THEN MaxName + 1 - 1 + 1 ELSE 0
            /\ \A i \in 1 .. MaxName + 1 - 1 + 1 : a[i] = name[1 + i - 1]
        BY <1>1, <3>1, SubSeqProperties
      <3>3. MaxName + 1 - 1 + 1 = m /\ 1 <= MaxName + 1 /\ \A i \in 1 .. m : 1 + i - 1 = i
        BY <1>1, <2>1
      <3> HIDE DEF a, m
      <3> QED BY <3>2, <3>3
    <2>4. c \in Seq(Letter) /\ Len(c) \in Nat
      BY <1>3, CStringType
    <2> HIDE DEF a, c, l, f, e, m
    <2>5. a \in Seq(Byte)
      BY <2>3, LetterIs, SeqMonotonic
    <2>6. e = a
      <3>1. \A i \in 1 .. m : i <= l
        BY <1>1, <2>1
      <3> QED BY <1>2, <2>3, <2>5, <3>1, SeqEqual
    <2>7. CString(e \o f) = s
      BY <1>3, <2>3, <2>6, CStringJoined DEF c
    <2>8. /\ s \in Seq(Letter) /\ Len(s) = m + Len(c)
          /\ \A i \in 1 .. m : s[i] = a[i]
      <3>1. /\ s \in Seq(Letter) /\ Len(s) = Len(a) + Len(c)
            /\ \A i \in 1 .. Len(a) + Len(c) : s[i] = IF i <= Len(a) THEN a[i] ELSE c[i - Len(a)]
        BY <2>3, <2>4, ConcatProperties
      <3> HIDE DEF s
      <3>2. \A i \in 1 .. m : i \in 1 .. m + Len(c) /\ i <= m
        BY <1>1, <2>4
      <3> QED BY <2>3, <3>1, <3>2
    <2> HIDE DEF s
    <2>9. s \in Name
      BY <2>8 DEF Name
    <2>10. NameLen(s) = m
      <3>1. ~(Len(s) <= MaxName)
        BY <1>1, <2>1, <2>4, <2>8
      <3> QED BY <2>1, <2>9, <3>1, NameLenIs
    <2>11. Letters(s) = e
      <3>1. /\ Letters(s) \in Seq(Byte) /\ Len(Letters(s)) = m
            /\ \A i \in 1 .. m : Letters(s)[i] = IF i <= Len(s) THEN s[i] ELSE 0
        BY <2>9, <2>10, LettersAre
      <3>2. \A i \in 1 .. m : i <= Len(s)
        BY <1>1, <2>4, <2>8
      <3>3. \A i \in 1 .. m : Letters(s)[i] = e[i]
        BY <2>6, <2>8, <3>1, <3>2
      <3> QED BY <1>2, <3>1, <3>3, SeqEqual
    <2> QED BY <2>2, <2>7, <2>9, <2>10, <2>11 DEF e, f, m
  <1> QED BY <1>4, <1>5

(* Under the name that has been sent it is sent again unchanged.           *)
LEMMA SameMessage ==
    ASSUME NEW type, NEW name \in Name, NEW d \in Data, NEW x \in Beyond
    PROVE  ToMessage(type, NameSent(name, d, x), d) = ToMessage(type, name, d)
  BY NameSentIs DEF ToMessage, Letters

LEMMA StampedIs ==
    ASSUME NEW type \in Types, NEW name \in Name, NEW d \in Data
    PROVE  Stamped(ToMessage(type, name, d)) = ToMessage(SC_NOTIFY, name, d)
  <1>1. SC_NOTIFY \in Types
    BY DEF Types
  <1> QED BY <1>1, TypeAndRest DEF Stamped

(* The type, and the name, that a message is found to have.                *)
LEMMA HeaderIs ==
    ASSUME NEW type \in Types, NEW name \in Name, NEW d \in Data
    PROVE  LET p == ToMessage(type, name, d)
           IN  /\ MsgType(p) = type
               /\ NameFromMsg(p) = {NameSent(name, d, x) : x \in Beyond}
  <1> DEFINE p == ToMessage(type, name, d)
             m == NameLen(name)
             f == DataBytes(d)
             e == Letters(name)
  <1>1. m \in Nat /\ f \in Seq(Byte) /\ Len(f) \in Nat /\ e \in Seq(Byte) /\ Len(e) = m
    BY NameLenIs, DataBytesAre, LettersAre
  <1>2. /\ p \in Seq(Byte) /\ Len(p) = 9 + m + Len(f)
        /\ \A i \in 1 .. 4 : p[i] = Net(type)[i]
        /\ \A i \in 1 .. m : p[9 + i] = e[i]
        /\ \A i \in 1 .. Len(f) : p[9 + m + i] = f[i]
    BY MessageIs
  <1>3. \A x \in Beyond : CString(e \o (f \o x)) = NameSent(name, d, x)
    BY NameSentIs
  <1> HIDE DEF p, m, f, e
  <1>4. MsgType(p) = type
    <2>1. Net(type) \in Word /\ NetNumber(Net(type)) = type
      BY TypesAre, NetIs
    <2>2. 1 \in Nat \ {0} /\ 1 + 3 <= Len(p) /\ \A i \in 1 .. 4 : 1 + i - 1 = i
      BY <1>1, <1>2
    <2>3. Field(p, 1) = Net(type)
      BY <1>2, <2>1, <2>2, FieldIs
    <2>4. SubSeq(p, 1, 4) = Field(p, 1)
      BY DEF Field
    <2> QED BY <2>1, <2>3, <2>4 DEF MsgType
  <1>5. \A x \in Beyond : CString(SubSeq(p, 10, Len(p)) \o x) = NameSent(name, d, x)
    <2> DEFINE q == SubSeq(p, 10, Len(p))
               r == e \o f
    <2>1. 10 \in Nat \ {0} /\ 10 <= Len(p) + 1 /\ Len(p) - 10 + 1 = m + Len(f)
      BY <1>1, <1>2
    <2>2. /\ q \in Seq(Byte) /\ Len(q) = Len(p) - 10 + 1
          /\ \A i \in 1 .. Len(p) - 10 + 1 : q[i] = p[10 + i - 1]
      BY <1>2, <2>1, RestIs
    <2>3. /\ r \in Seq(Byte) /\ Len(r) = m + Len(f)
          /\ \A i \in 1 .. m : r[i] = e[i]
          /\ \A i \in 1 .. Len(f) : r[m + i] = f[i]
      BY <1>1, Joined
    <2> HIDE DEF q, r
    <2>4. ASSUME NEW i \in 1 .. m + Len(f) PROVE q[i] = r[i]
      <3>1. q[i] = p[9 + i]
        <4>1. i \in 1 .. Len(p) - 10 + 1 /\ 10 + i - 1 = 9 + i
          BY <1>1, <2>1
        <4> QED BY <2>2, <4>1
      <3>2. CASE i \in 1 .. m
        BY <1>2, <2>3, <3>1, <3>2
      <3>3. CASE i \notin 1 .. m
        <4> DEFINE j == i - m
        <4>1. j \in 1 .. Len(f) /\ i = m + j /\ 9 + i = 9 + m + j
          BY <1>1, <3>3
        <4> HIDE DEF j
        <4> QED BY <1>2, <2>3, <3>1, <4>1
      <3> QED BY <3>2, <3>3
    <2>5. q = r
      BY <2>1, <2>2, <2>3, <2>4, SeqEqual
    <2> SUFFICES ASSUME NEW x \in Beyond PROVE CString(q \o x) = NameSent(name, d, x)
      BY DEF q
    <2>6. r \o x = e \o (f \o x)
      BY <1>1, BeyondIs, ConcatAssociative DEF r
    <2> QED BY <1>3, <2>5, <2>6
  <1> QED BY <1>4, <1>5 DEF p, NameFromMsg

-----------------------------------------------------------------------------
(* fromMessage() undoes toMessage().                                       *)

(* What lies where the k-th item has been written.                         *)
LEMMA ItemAt ==
    ASSUME NEW d \in Seq(Datum), NEW k \in 1 .. Len(d)
    PROVE  LET at == Len(BytesUpTo(d)[k - 1])
           IN  /\ at \in Nat /\ Len(BytesUpTo(d)[k]) = at + DatumSize(d[k])
               /\ at + DatumSize(d[k]) <= Len(DataBytes(d))
               /\ \A i \in 1 .. DatumSize(d[k]) : DataBytes(d)[at + i] = DatumBytes(d[k])[i]
  <1> DEFINE x == BytesUpTo(d)[k - 1]
             y == DatumBytes(d[k])
             z == BytesUpTo(d)[k]
             m == DatumSize(d[k])
             all == DataBytes(d)
  <1>1. Len(d) \in Nat /\ k \in 0 .. Len(d) /\ k - 1 \in 0 .. Len(d)
    BY LenProperties
  <1>2. x \in Seq(Byte) /\ z = x \o y
    BY <1>1, BytesAre
  <1>3. y \in Seq(Byte) /\ Len(y) = m /\ m \in Nat
    BY ItemIs, ElementOfSeq
  <1>4. Len(z) <= Len(all) /\ \A i \in 1 .. Len(z) : all[i] = z[i]
    BY <1>1, WrittenStays
  <1> HIDE DEF x, y, z, m, all
  <1>5. /\ Len(x \o y) = Len(x) + Len(y) /\ Len(x) \in Nat
        /\ \A i \in 1 .. Len(y) : (x \o y)[Len(x) + i] = y[i]
    BY <1>2, <1>3, Joined
  <1>6. Len(z) = Len(x) + m /\ \A i \in 1 .. m : z[Len(x) + i] = y[i]
    BY <1>2, <1>3, <1>5
  <1>7. \A i \in 1 .. m : all[Len(x) + i] = y[i]
    <2>1. \A i \in 1 .. m : Len(x) + i \in 1 .. Len(z)
      BY <1>3, <1>5, <1>6
    <2> QED BY <1>4, <1>6, <2>1
  <1>8. Len(x) + m <= Len(all)
    BY <1>4, <1>6
  <1> QED BY <1>5, <1>6, <1>7, <1>8 DEF x, y, z, m, all

(* The items so far, and one more.                                         *)
LEMMA OneMore ==
    ASSUME NEW d \in Seq(Datum), NEW k \in 1 .. Len(d)
    PROVE  /\ SubSeq(d, 1, k - 1) \in Seq(Datum)
           /\ SubSeq(d, 1, k) = Append(SubSeq(d, 1, k - 1), d[k])
  <1> DEFINE a == SubSeq(d, 1, k - 1)
             b == SubSeq(d, 1, k)
             c == Append(a, d[k])
  <1>1. Len(d) \in Nat /\ d[k] \in Datum
    BY LenProperties, ElementOfSeq
  <1>2. \A i \in 1 .. k : d[i] \in Datum
    BY <1>1, ElementOfSeq
  <1>3. b \in Seq(Datum) /\ Len(b) = k /\ \A i \in 1 .. k : b[i] = d[i]
    <2>1. /\ b \in Seq(Datum) /\ Len(b) = IF 1 <= k THEN k - 1 + 1 ELSE 0
          /\ \A i \in 1 .. k - 1 + 1 : b[i] = d[1 + i - 1]
      BY <1>1, <1>2, SubSeqProperties
    <2>2. k - 1 + 1 = k /\ 1 <= k /\ \A i \in 1 .. k : 1 + i - 1 = i
      OBVIOUS
    <2> QED BY <2>1, <2>2
  <1>4. a \in Seq(Datum) /\ Len(a) = k - 1 /\ \A i \in 1 .. k - 1 : a[i] = d[i]
    <2>1. \A i \in 1 .. k - 1 : d[i] \in Datum
      BY <1>2
    <2>2. /\ a \in Seq(Datum) /\ Len(a) = IF 1 <= k - 1 THEN k - 1 - 1 + 1 ELSE 0
          /\ \A i \in 1 .. k - 1 - 1 + 1 : a[i] = d[1 + i - 1]
      BY <1>1, <2>1, SubSeqProperties
    <2>3. k - 1 - 1 + 1 = k - 1 /\ (1 <= k - 1 \/ k - 1 = 0) /\ \A i \in 1 .. k - 1 : 1 + i - 1 = i
      OBVIOUS
    <2> QED BY <2>2, <2>3
  <1> HIDE DEF a, b
  <1>5. /\ c \in Seq(Datum) /\ Len(c) = k
        /\ \A i \in 1 .. k - 1 : c[i] = a[i]
        /\ c[k] = d[k]
    <2>1. /\ c \in Seq(Datum) /\ Len(c) = Len(a) + 1
          /\ \A i \in 1 .. Len(a) : c[i] = a[i]
          /\ c[Len(a) + 1] = d[k]
      BY <1>1, <1>4, AppendProperties
    <2>2. k - 1 + 1 = k
      OBVIOUS
    <2> HIDE DEF c
    <2> QED BY <1>4, <2>1, <2>2
  <1> HIDE DEF c
  <1>6. \A i \in 1 .. k : b[i] = c[i]
    <2>1. \A i \in 1 .. k : i = k \/ i \in 1 .. k - 1
      OBVIOUS
    <2> QED BY <1>3, <1>4, <1>5, <2>1
  <1>7. b = c
    BY <1>3, <1>5, <1>6, SeqEqual
  <1> QED BY <1>4, <1>7 DEF a, b, c

LEMMA RoundTrip ==
    ASSUME NEW type \in Types, NEW name \in Name, NEW d \in Data
    PROVE  LET p == ToMessage(type, name, d)
           IN  FromMessage(p) = [at |-> Len(p) + 1, d |-> d]
  <1> DEFINE p == ToMessage(type, name, d)
             l == NameLen(name) - 1
             n == Len(d)
             b == BytesUpTo(d)
             all == DataBytes(d)
             h == [k \in 0 .. n |-> [at |-> 11 + l + Len(b[k]), d |-> SubSeq(d, 1, k)]]
             Rule(f) == f = [i \in 0 .. NetNumber(Field(p, 5)) |->
                 IF i = 0 THEN [at |-> 10 + p[9], d |-> <<>>] ELSE TakeDatum(p, f[i - 1])]
             Follow(f) == f = [i \in 0 .. n |->
                 IF i = 0 THEN h[0] ELSE TakeDatum(p, f[i - 1])]
  <1>1. l \in Nat /\ n \in Nat /\ n <= MaxInt /\ d \in Seq(Datum)
    BY NameLenIs, LenProperties DEF Data
  <1>2. /\ p \in Seq(Byte) /\ Len(p) = 10 + l + Len(all) /\ p[9] = l + 1
        /\ \A i \in 1 .. 4 : p[4 + i] = Net(n)[i]
        /\ \A i \in 1 .. Len(all) : p[10 + l + i] = all[i]
    <2>1. /\ p \in Seq(Byte) /\ Len(p) = 9 + NameLen(name) + Len(all) /\ p[9] = NameLen(name)
          /\ \A i \in 1 .. 4 : p[4 + i] = Net(n)[i]
          /\ \A i \in 1 .. Len(all) : p[9 + NameLen(name) + i] = all[i]
      BY MessageIs
    <2>2. NameLen(name) \in Nat /\ 9 + NameLen(name) = 10 + l /\ NameLen(name) = l + 1
      BY NameLenIs
    <2> HIDE DEF p, l, n, all
    <2> QED BY <2>1, <2>2
  <1>3. 0 \in 0 .. n /\ n \in 0 .. n /\ \A k \in 1 .. n : k \in 0 .. n /\ k - 1 \in 0 .. n /\ k # 0
    BY <1>1
  <1>4. \A k \in 0 .. n : Len(b[k]) \in Nat /\ Len(all) \in Nat
    BY <1>1, WrittenStays
  <1>5. b[0] = <<>> /\ Len(b[0]) = 0 /\ all = b[n]
    <2>1. b[0] = <<>>
      BY <1>1, BytesAre
    <2> QED BY <2>1 DEF DataBytes
  <1>6. \A k \in 1 .. n :
           /\ Len(b[k]) = Len(b[k - 1]) + DatumSize(d[k])
           /\ Len(b[k - 1]) + DatumSize(d[k]) <= Len(all)
           /\ \A i \in 1 .. DatumSize(d[k]) : all[Len(b[k - 1]) + i] = DatumBytes(d[k])[i]
    BY <1>1, ItemAt
  <1>7. NetNumber(Field(p, 5)) = n
    <2>1. Net(n) \in Word /\ NetNumber(Net(n)) = n
      BY <1>1, NetIs
    <2>2. 5 \in Nat \ {0} /\ 5 + 3 <= Len(p) /\ \A i \in 1 .. 4 : 5 + i - 1 = 4 + i
      BY <1>1, <1>2, <1>3, <1>4
    <2> HIDE DEF p, n
    <2>3. Field(p, 5) = Net(n)
      BY <1>2, <2>1, <2>2, FieldIs
    <2> QED BY <2>1, <2>3
  <1>8. Reads(p) = CHOOSE f : Rule(f)
    BY Zenon DEF Reads
  <1> HIDE DEF p, n, b, all, l
  <1>9. h[0] = [at |-> 10 + p[9], d |-> <<>>]
    <2>1. SubSeq(d, 1, 0) = <<>>
      BY SubSeqEmpty
    <2>2. 11 + l + Len(b[0]) = 10 + p[9]
      BY <1>1, <1>2, <1>5
    <2>3. h[0] = [at |-> 11 + l + Len(b[0]), d |-> SubSeq(d, 1, 0)]
      BY <1>3
    <2> QED BY <2>1, <2>2, <2>3
  <1>10. \A f : Rule(f) <=> Follow(f)
    BY <1>7, <1>9, Zenon
  <1>11. ASSUME NEW k \in 1 .. n PROVE h[k] = TakeDatum(p, h[k - 1])
    <2> DEFINE at == 11 + l + Len(b[k - 1])
               size == DatumSize(d[k])
    <2>1. h[k - 1] = [at |-> at, d |-> SubSeq(d, 1, k - 1)]
      BY <1>3
    <2>2. h[k] = [at |-> 11 + l + Len(b[k]), d |-> SubSeq(d, 1, k)]
      BY <1>3
    <2>3. d[k] \in Datum /\ size \in Nat
      BY <1>1, ElementOfSeq, ItemIs DEF n
    <2>4. at \in Nat \ {0}
      <3> DEFINE m == Len(b[k - 1])
      <3>1. m \in Nat
        BY <1>3, <1>4
      <3> HIDE DEF m
      <3>2. 11 + l + m \in Nat \ {0}
        BY <1>1, <3>1
      <3> QED BY <3>2 DEF m
    <2>5. SubSeq(d, 1, k - 1) \in Seq(Datum) /\ SubSeq(d, 1, k) = Append(SubSeq(d, 1, k - 1), d[k])
      BY <1>1, OneMore DEF n
    <2> DEFINE m == Len(b[k - 1])
    <2>6. /\ m \in Nat /\ m + size <= Len(all) /\ Len(all) \in Nat
          /\ Len(b[k]) = m + size
          /\ \A i \in 1 .. size : all[m + i] = DatumBytes(d[k])[i]
      BY <1>3, <1>4, <1>6
    <2> HIDE DEF size, m
    <2>7. at = 11 + l + m
      BY DEF m
    <2> HIDE DEF at
    <2>8. at + size - 1 <= Len(p)
      BY <1>1, <1>2, <2>3, <2>6, <2>7
    <2>9. \A i \in 1 .. size : p[at + i - 1] = DatumBytes(d[k])[i]
      <3>1. \A i \in 1 .. size : m + i \in 1 .. Len(all) /\ at + i - 1 = 10 + l + (m + i)
        BY <1>1, <2>3, <2>6, <2>7
      <3> QED BY <1>2, <2>6, <3>1
    <2>10. TakeDatum(p, [at |-> at, d |-> SubSeq(d, 1, k - 1)])
             = [at |-> at + size, d |-> Append(SubSeq(d, 1, k - 1), d[k])]
      BY <1>2, <2>3, <2>4, <2>5, <2>8, <2>9, TakesItem DEF size
    <2>11. at + size = 11 + l + Len(b[k])
      BY <1>1, <2>3, <2>6, <2>7
    <2> HIDE DEF h
    <2> QED BY <2>1, <2>2, <2>5, <2>10, <2>11
  <1>12. h = [k \in 0 .. n |-> h[k]]
    OBVIOUS
  <1> HIDE DEF h
  <1>13. Follow(h)
    <2>1. \A k \in 0 .. n : k = 0 \/ k \in 1 .. n
      BY <1>1
    <2>2. \A k \in 0 .. n : h[k] = IF k = 0 THEN h[0] ELSE TakeDatum(p, h[k - 1])
      BY <1>11, <2>1
    <2> QED BY <1>12, <2>2
  <1> DEFINE g == Reads(p)
  <1>14. Rule(g)
    <2> HIDE DEF Rule, Follow
    <2>1. \E f : Rule(f)
      BY <1>10, <1>13
    <2> QED BY <1>8, <2>1
  <1>15. Follow(g)
    <2> HIDE DEF Rule, Follow
    <2> QED BY <1>10, <1>14
  <1> HIDE DEF g, Rule
  <1>16. g[0] = h[0] /\ \A k \in 1 .. n : g[k] = TakeDatum(p, g[k - 1])
    BY ONLY <1>3, <1>15
  <1> HIDE DEF Follow
  <1>17. g[n] = h[n]
    <2> DEFINE T == {k \in 0 .. n : g[k] = h[k]}
    <2>1. 0 \in T
      BY <1>3, <1>16
    <2>2. ASSUME NEW k \in T \cap Nat, k < n PROVE k + 1 \in T
      <3>1. k + 1 \in 1 .. n /\ k + 1 \in 0 .. n /\ (k + 1) - 1 = k
        BY <1>1, <2>2
      <3>2. g[k + 1] = TakeDatum(p, g[k]) /\ h[k + 1] = TakeDatum(p, h[k])
        BY <1>11, <1>16, <3>1
      <3>3. g[k] = h[k]
        OBVIOUS
      <3> QED BY <3>1, <3>2, <3>3
    <2> HIDE DEF T
    <2>3. \A k \in 0 .. n : k \in T
      BY <1>1, <2>1, <2>2, UpTo
    <2> QED BY <1>3, <2>3 DEF T
  <1>18. h[n] = [at |-> Len(p) + 1, d |-> d]
    <2>1. h[n] = [at |-> 11 + l + Len(b[n]), d |-> SubSeq(d, 1, n)]
      BY <1>3 DEF h
    <2>2. SubSeq(d, 1, n) = d
      BY <1>1, SubSeqFull DEF n
    <2>3. 11 + l + Len(b[n]) = Len(p) + 1
      <3> DEFINE m == Len(b[n])
      <3>1. Len(p) = 10 + l + m /\ m \in Nat
        BY <1>2, <1>3, <1>4, <1>5
      <3> HIDE DEF m
      <3>2. 11 + l + m = Len(p) + 1
        BY <1>1, <3>1
      <3> QED BY <3>2 DEF m
    <2> QED BY <2>1, <2>2, <2>3
  <1>19. FromMessage(p) = g[n]
    BY <1>7 DEF FromMessage, g
  <1>20. FromMessage(p) = [at |-> Len(p) + 1, d |-> d]
    BY <1>17, <1>18, <1>19
  <1> QED BY <1>20 DEF p

(* The size that toMessage() computes, and its buffer.                     *)
LEMMA SizeIs ==
    ASSUME NEW type \in Types, NEW name \in Name, NEW d \in Data
    PROVE  /\ Len(ToMessage(type, name, d)) = SizeOf(name, d)
           /\ NameFits(name, d) <=>
                 Len(name) <= MaxName \/ Len(name) <= MaxName + Len(DataBytes(d))
  <1> DEFINE k == NameLen(name)
             m == Len(DataBytes(d))
             l == Len(name)
  <1>1. /\ d \in Seq(Datum) /\ Len(d) \in Nat /\ l \in Nat /\ k \in Nat /\ MaxName \in Nat
        /\ k = IF l <= MaxName THEN l + 1 ELSE MaxName + 1
    BY NameLenIs, LenProperties DEF Data
  <1>2. Len(d) \in 0 .. Len(d)
    BY <1>1
  <1>3. SizeOf(name, d) = 9 + k + m
    BY <1>1, <1>2, PassesAgree DEF SizeOf, DataBytes
  <1>4. m \in Nat
    BY DataBytesAre
  <1>5. Len(ToMessage(type, name, d)) = 9 + k + m
    BY MessageIs
  <1>6. NameFits(name, d) <=> 4 + 4 + 1 + l + 1 <= 9 + k + m
    BY <1>3 DEF NameFits
  <1> HIDE DEF k, m, l
  <1>7. 4 + 4 + 1 + l + 1 <= 9 + k + m <=> l <= MaxName \/ l <= MaxName + m
    <2>1. CASE l <= MaxName
      BY <1>1, <1>4, <2>1
    <2>2. CASE ~(l <= MaxName)
      BY <1>1, <1>4, <2>2
    <2> QED BY <2>1, <2>2
  <1> QED BY <1>3, <1>5, <1>6, <1>7 DEF m, l

(* The other two messages.                                                 *)
LEMMA StrMsgIs ==
    ASSUME NEW type \in Types, NEW name \in Name
    PROVE  MsgType(StrMsg(type, name)) = type
  <1> DEFINE a == Net(type)
             T == {Len(name) + 1, 256}
             m == Min(T)
             e == SubSeq(Append(name, 0), 1, m)
             p == a \o e
  <1>1. a \in Word /\ a \in Seq(Byte) /\ Len(a) = 4 /\ NetNumber(a) = type
    BY TypesAre, NetIs, WordIs
  <1>2. name \in Seq(Byte) /\ Len(name) \in Nat /\ 0 \in Byte
    BY ByteIs, NameLenIs
  <1>3. m \in Nat /\ m <= Len(name) + 1
    <2>1. T \in SUBSET Nat /\ T # {} /\ Len(name) + 1 \in T
      BY <1>2
    <2> HIDE DEF T
    <2> QED BY <2>1, MinIs
  <1>4. Append(name, 0) \in Seq(Byte) /\ Len(Append(name, 0)) = Len(name) + 1
    BY <1>2, AppendProperties
  <1> HIDE DEF a, m
  <1>5. e \in Seq(Byte)
    <2>1. \A i \in 1 .. m : Append(name, 0)[i] \in Byte
      BY <1>2, <1>3, <1>4, ElementOfSeq
    <2> QED BY <1>3, <2>1, SubSeqProperties
  <1> HIDE DEF e
  <1>6. /\ p \in Seq(Byte) /\ Len(p) = Len(a) + Len(e) /\ Len(e) \in Nat
        /\ \A i \in 1 .. Len(a) : p[i] = a[i]
    BY <1>1, <1>5, Joined
  <1> HIDE DEF p
  <1>7. MsgType(p) = type
    <2>1. 1 \in Nat \ {0} /\ 1 + 3 <= Len(p) /\ \A i \in 1 .. 4 : p[1 + i - 1] = a[i]
      BY <1>1, <1>6
    <2>2. Field(p, 1) = a
      BY <1>1, <1>6, <2>1, FieldIs
    <2>3. SubSeq(p, 1, 4) = Field(p, 1)
      BY DEF Field
    <2> QED BY <1>1, <2>2, <2>3 DEF MsgType
  <1>8. p = StrMsg(type, name)
    BY DEF StrMsg, MsgLen, p, e, m, a
  <1> QED BY <1>7, <1>8

LEMMA NoDataMsgIs ==
    ASSUME NEW type \in Types
    PROVE  NoDataMsg(type) \in Seq(Byte) /\ MsgType(NoDataMsg(type)) = type
  <1>1. /\ Net(type) \in Seq(Byte) /\ Len(Net(type)) = 4 /\ NetNumber(Net(type)) = type
    BY TypesAre, NetIs, WordIs
  <1>2. SubSeq(Net(type), 1, 4) = Net(type)
    BY <1>1, SubSeqFull
  <1> QED BY <1>1, <1>2 DEF MsgType, NoDataMsg

-----------------------------------------------------------------------------
(* The inductive invariant.  What is on the way, what the broker keeps and *)
(* what the client has are all made of what has been published; what is to *)
(* be published is well formed; and what Python's publish() is about to    *)
(* send is the whole of its sequence.                                      *)

FromClient ==
    {ToMessage(CS_PUBLISH, e[1], e[2]) : e \in published}
      \cup {StrMsg(CS_SUBSCRIBE, n) : n \in Names}
      \cup {NoDataMsg(CS_KILLSERVER), NoDataMsg(CS_CLEARSERVER)}

FromBroker ==
    {ToMessage(SC_NOTIFY, e[1], e[2]) : e \in published} \cup {NoDataMsg(SC_KILLCLIENT)}

States == {"TOPIC_NODATA", "TOPIC_UNCHANGED", "TOPIC_CHANGED", "TOPIC_NOTCONNECTED",
           "TOPIC_NOTFOUND"}

TopicRecords == [d : Data, state : States]

WellFormed ==
    /\ program \in Programs
    /\ topicToPublish \in Data
    /\ published \subseteq Names \X Data

OnTheWay == outbox \in Seq(FromClient) /\ inbox \in Seq(FromBroker)

StoredPart ==
    \A n \in DOMAIN stored : PublishedAs(n, stored[n])

TopicsPart ==
    \A n \in DOMAIN topics :
        /\ topics[n] \in TopicRecords
        /\ topics[n].state # "TOPIC_NODATA" => PublishedAs(n, topics[n].d)

AccessPart ==
    /\ topicToAccess \in TopicRecords
    /\ IsValid(topicToAccess) => \E n \in Names : PublishedAs(n, topicToAccess.d)

DataInv == WellFormed /\ OnTheWay /\ StoredPart /\ TopicsPart /\ AccessPart

Sequences == {q \in Seq(Item) : Len(q) <= MaxInt}

IsConversion(d, seq) ==
    Len(d) = Len(seq) /\ \A i \in 1 .. Len(seq) : d[i] = Converted(seq[i])

PyInv ==
    /\ program.lang = "C" => pc = "idle" /\ tuple = False
    /\ pc \in {"subscribe", "publish", "get"} => asked.name \in Names
    /\ pc = "publish" => asked.seq \in Sequences /\ IsConversion(topicToPublish, asked.seq)
    /\ tuple # False => tuple = <<topicToAccess.d>>

IInv == DataInv /\ PyInv
-----------------------------------------------------------------------------
(* Constants and initial states.                                           *)

LEMMA NamesAre ==
    ASSUME program \in Programs
    PROVE  Names \subseteq Name /\ program.lang \in {"C", "Python"}
  BY LinkageAssumption DEF Names

LEMMA NothingIs ==
    /\ <<>> \in Data /\ Fresh \in TopicRecords
    /\ \A t : t = <<>> => DOMAIN t = {}
  <1>1. <<>> \in Seq(Datum) /\ Len(<<>>) = 0
    BY EmptySeq
  <1>2. <<>> \in Data
    BY <1>1, MaxIntIs DEF Data
  <1>3. Fresh \in TopicRecords
    BY <1>2 DEF Fresh, TopicRecords, States
  <1> QED BY <1>2, <1>3

LEMMA Initially ==
    ASSUME Init
    PROVE  IInv
  <1> USE DEF Init
  <1>1. WellFormed
    BY NothingIs DEF WellFormed
  <1>2. OnTheWay
    BY EmptySeq DEF OnTheWay
  <1>3. StoredPart
    BY NothingIs DEF StoredPart
  <1>4. TopicsPart
    BY NothingIs DEF TopicsPart
  <1>5. AccessPart
    BY NothingIs DEF AccessPart, IsValid, Fresh
  <1>6. PyInv
    BY DEF PyInv
  <1> QED BY <1>1, <1>2, <1>3, <1>4, <1>5, <1>6 DEF IInv, DataInv

-----------------------------------------------------------------------------
(* What is made of published data still is when more has been published.   *)

LEMMA StillOnTheWay ==
    ASSUME program' = program, published \subseteq published'
    PROVE  /\ Names' = Names
           /\ FromClient \subseteq FromClient' /\ FromBroker \subseteq FromBroker'
           /\ Seq(FromClient) \subseteq Seq(FromClient')
           /\ Seq(FromBroker) \subseteq Seq(FromBroker')
  <1>1. Names' = Names
    BY DEF Names
  <1>2. FromClient \subseteq FromClient'
    BY <1>1 DEF FromClient
  <1>3. FromBroker \subseteq FromBroker'
    BY DEF FromBroker
  <1> QED BY <1>1, <1>2, <1>3, SeqMonotonic

(* Nothing of it changes.                                                  *)
LEMMA Unmoved ==
    ASSUME DataInv, UNCHANGED <<program, topicToPublish, topicToAccess, topics, outbox, inbox,
                                stored, published>>
    PROVE  DataInv'
  BY DEF DataInv, WellFormed, OnTheWay, StoredPart, TopicsPart, AccessPart, IsValid, Names,
         PublishedAs, FromClient, FromBroker

(* The parts of the invariant that more publications leave alone.          *)
LEMMA Kept ==
    ASSUME DataInv, program' = program, published \subseteq published'
    PROVE  /\ stored' = stored => StoredPart'
           /\ topics' = topics => TopicsPart'
           /\ topicToAccess' = topicToAccess => AccessPart'
           /\ outbox' = outbox => outbox' \in Seq(FromClient')
           /\ inbox' = inbox => inbox' \in Seq(FromBroker')
  <1>1. Names' = Names
    BY StillOnTheWay
  <1>2. ASSUME stored' = stored PROVE StoredPart'
    BY <1>1, <1>2 DEF DataInv, StoredPart, PublishedAs
  <1>3. ASSUME topics' = topics PROVE TopicsPart'
    BY <1>1, <1>3 DEF DataInv, TopicsPart, PublishedAs
  <1>4. ASSUME topicToAccess' = topicToAccess PROVE AccessPart'
    BY <1>1, <1>4 DEF DataInv, AccessPart, IsValid, PublishedAs
  <1>5. ASSUME outbox' = outbox PROVE outbox' \in Seq(FromClient')
    BY <1>5, StillOnTheWay DEF DataInv, OnTheWay
  <1>6. ASSUME inbox' = inbox PROVE inbox' \in Seq(FromBroker')
    BY <1>6, StillOnTheWay DEF DataInv, OnTheWay
  <1> QED BY <1>2, <1>3, <1>4, <1>5, <1>6

(* A message to the broker.                                                *)
LEMMA Requested ==
    ASSUME DataInv, program' = program, published \subseteq published',
           NEW m \in FromClient', outbox' = Append(outbox, m)
    PROVE  outbox' \in Seq(FromClient')
  <1>1. outbox \in Seq(FromClient')
    BY StillOnTheWay DEF DataInv, OnTheWay
  <1> QED BY <1>1, AppendProperties

-----------------------------------------------------------------------------
(* The C functions.                                                        *)

LEMMA NotConnectedKeeps ==
    ASSUME DataInv, program' = program, NEW r, NotConnected(r)
    PROVE  DataInv'
  BY Unmoved DEF NotConnected, clientVars, brokerVars, histVars

LEMMA CallsKeep ==
    ASSUME DataInv, program' = program, NEW r,
           \/ diamondapparatus_init(r) \/ diamondapparatus_destroy(r)
           \/ diamondapparatus_waitforany(r)
    PROVE  DataInv'
  BY Unmoved DEF diamondapparatus_init, diamondapparatus_destroy, diamondapparatus_waitforany,
                 clientVars, brokerVars, histVars

LEMMA CommandsKeep ==
    ASSUME DataInv, program' = program, NEW r,
           diamondapparatus_killserver(r) \/ diamondapparatus_clearserver(r)
    PROVE  DataInv'
  <1>1. CASE NotConnected(r)
    BY <1>1, NotConnectedKeeps
  <1>2. CASE ~NotConnected(r)
    <2>1. PICK m \in {NoDataMsg(CS_KILLSERVER), NoDataMsg(CS_CLEARSERVER)} : Request(m)
      BY <1>2 DEF diamondapparatus_killserver, diamondapparatus_clearserver
    <2>2. UNCHANGED <<topicToPublish, topicToAccess, topics, inbox, stored, published>>
      BY <1>2 DEF diamondapparatus_killserver, diamondapparatus_clearserver, Connected,
                  clientVars, brokerVars, histVars
    <2>3. outbox' \in Seq(FromClient')
      <3>1. m \in FromClient'
        BY DEF FromClient
      <3> QED BY <2>1, <2>2, <3>1, Requested DEF Request
    <2>4. WellFormed'
      BY <2>2 DEF DataInv, WellFormed, Names
    <2> QED BY <2>2, <2>3, <2>4, Kept DEF DataInv, OnTheWay
  <1> QED BY <1>1, <1>2

LEMMA SubscribeKeeps ==
    ASSUME DataInv, program' = program, NEW n \in Names, NEW r, diamondapparatus_subscribe(n, r)
    PROVE  DataInv'
  <1>1. CASE NotConnected(r)
    BY <1>1, NotConnectedKeeps
  <1>2. CASE ~NotConnected(r)
    <2>1. Request(StrMsg(CS_SUBSCRIBE, n)) /\ topics' = With(topics, n, Fresh)
      BY <1>2 DEF diamondapparatus_subscribe
    <2>2. UNCHANGED <<topicToPublish, topicToAccess, inbox, stored, published>>
      BY <1>2 DEF diamondapparatus_subscribe, brokerVars, histVars
    <2>3. Names' = Names
      BY DEF Names
    <2>4. outbox' \in Seq(FromClient')
      <3>1. StrMsg(CS_SUBSCRIBE, n) \in FromClient'
        BY <2>3 DEF FromClient
      <3> QED BY <2>1, <2>2, <3>1, Requested DEF Request
    <2>5. TopicsPart'
      <3>1. DOMAIN topics' = DOMAIN topics \cup {n}
        BY <2>1 DEF With
      <3>2. \A k \in DOMAIN topics' : topics'[k] = IF k = n THEN Fresh ELSE topics[k]
        BY <2>1 DEF With
      <3>3. Fresh.state = "TOPIC_NODATA" /\ Fresh \in TopicRecords
        BY NothingIs DEF Fresh
      <3> QED BY <2>2, <2>3, <3>1, <3>2, <3>3 DEF DataInv, TopicsPart, TopicRecords, PublishedAs
    <2>6. WellFormed'
      BY <2>2, <2>3 DEF DataInv, WellFormed
    <2> QED BY <2>2, <2>4, <2>5, <2>6, Kept DEF DataInv, OnTheWay
  <1> QED BY <1>1, <1>2

LEMMA PublishKeeps ==
    ASSUME DataInv, program' = program, NEW n \in Names, NEW r, diamondapparatus_publish(n, r)
    PROVE  DataInv'
  <1>1. CASE NotConnected(r)
    BY <1>1, NotConnectedKeeps
  <1>2. CASE ~NotConnected(r)
    <2>1. /\ Request(ToMessage(CS_PUBLISH, n, topicToPublish))
          /\ published' = published \cup {<<n, topicToPublish>>}
      BY <1>2 DEF diamondapparatus_publish
    <2>2. UNCHANGED <<topicToPublish, topicToAccess, topics, inbox, stored>>
      BY <1>2 DEF diamondapparatus_publish, Connected, clientVars, brokerVars
    <2>3. Names' = Names /\ topicToPublish \in Data
      BY DEF Names, DataInv, WellFormed
    <2>4. outbox' \in Seq(FromClient')
      <3>1. ToMessage(CS_PUBLISH, n, topicToPublish) \in FromClient'
        <4>1. <<n, topicToPublish>> \in published'
          BY <2>1
        <4> DEFINE e == <<n, topicToPublish>>
        <4>2. e[1] = n /\ e[2] = topicToPublish
          OBVIOUS
        <4> HIDE DEF e
        <4>3. e \in published'
          BY <4>1 DEF e
        <4>4. ToMessage(CS_PUBLISH, e[1], e[2]) \in FromClient'
          BY <4>3 DEF FromClient
        <4> QED BY <4>2, <4>4
      <3> QED BY <2>1, <2>2, <3>1, Requested DEF Request
    <2>5. WellFormed'
      BY <2>1, <2>2, <2>3 DEF DataInv, WellFormed
    <2> QED BY <2>1, <2>2, <2>4, <2>5, Kept DEF DataInv, OnTheWay
  <1> QED BY <1>1, <1>2

LEMMA GetKeeps ==
    ASSUME DataInv, program' = program, NEW n \in Names, NEW wait, diamondapparatus_get(n, wait)
    PROVE  DataInv'
  <1>1. UNCHANGED <<topicToPublish, outbox, inbox, stored, published>>
    BY DEF diamondapparatus_get, brokerVars, histVars
  <1>2. Names' = Names
    BY DEF Names
  <1>3. WellFormed'
    BY <1>1, <1>2 DEF DataInv, WellFormed
  <1>4. AccessPart' /\ TopicsPart'
    <2>1. CASE /\ topics' = topics
               /\ \E s \in {"TOPIC_NOTCONNECTED", "TOPIC_NOTFOUND"} :
                     topicToAccess' = [Fresh EXCEPT !.state = s]
      <3>1. PICK s \in {"TOPIC_NOTCONNECTED", "TOPIC_NOTFOUND"} :
               topicToAccess' = [Fresh EXCEPT !.state = s]
        BY <2>1
      <3>2. topicToAccess' \in TopicRecords /\ topicToAccess'.state = s
        BY <3>1, NothingIs DEF TopicRecords, States
      <3>3. AccessPart'
        BY <3>2 DEF AccessPart, IsValid, TopicRecords
      <3> QED BY <1>1, <2>1, <3>3, Kept
    <2>2. CASE /\ Has(topics, n) /\ topics[n].state # "TOPIC_NODATA"
               /\ topicToAccess' = topics[n]
               /\ topics' = [topics EXCEPT ![n].state = "TOPIC_UNCHANGED"]
      <3>1. n \in DOMAIN topics /\ topics[n] \in TopicRecords
            /\ PublishedAs(n, topics[n].d)
        BY <2>2 DEF DataInv, TopicsPart, Has
      <3>2. AccessPart'
        BY <1>1, <1>2, <2>2, <3>1 DEF AccessPart, TopicRecords, PublishedAs
      <3>3. TopicsPart'
        <4> DEFINE t == [topics[n] EXCEPT !.state = "TOPIC_UNCHANGED"]
        <4>1. DOMAIN topics' = DOMAIN topics
          BY <2>2
        <4>2. \A k \in DOMAIN topics : topics'[k] = IF k = n THEN t ELSE topics[k]
          BY <2>2
        <4>3. t \in TopicRecords /\ t.d = topics[n].d
          BY <3>1 DEF TopicRecords, States
        <4> HIDE DEF t
        <4> QED BY <1>1, <1>2, <3>1, <4>1, <4>2, <4>3 DEF DataInv, TopicsPart, TopicRecords, PublishedAs
      <3> QED BY <3>2, <3>3
    <2> QED BY <2>1, <2>2 DEF diamondapparatus_get
  <1>5. StoredPart' /\ OnTheWay'
    BY <1>1, Kept DEF OnTheWay
  <1> QED BY <1>3, <1>4, <1>5 DEF DataInv

(* A topic to be published that is put together anew.                      *)
LEMMA BuildsKeep ==
    ASSUME DataInv, topicToPublish' \in Data,
           UNCHANGED <<program, topicToAccess, topics, outbox, inbox, stored, published>>
    PROVE  DataInv'
  <1>1. WellFormed'
    BY DEF DataInv, WellFormed, Names
  <1> QED BY <1>1, Kept DEF DataInv, OnTheWay

-----------------------------------------------------------------------------
(* What a message that is taken from the way is.                           *)

LEMMA PublishedIs ==
    ASSUME DataInv, NEW e \in published
    PROVE  e = <<e[1], e[2]>> /\ e[1] \in Names /\ e[1] \in Name /\ e[2] \in Data
  <1>1. e \in Names \X Data
    BY DEF DataInv, WellFormed
  <1>2. e = <<e[1], e[2]>> /\ e[1] \in Names /\ e[2] \in Data
    BY <1>1
  <1> QED BY <1>2, NamesAre DEF DataInv, WellFormed

LEMMA TypesDiffer ==
    /\ CS_PUBLISH \in Types /\ CS_SUBSCRIBE \in Types /\ CS_KILLSERVER \in Types
    /\ CS_CLEARSERVER \in Types /\ SC_NOTIFY \in Types /\ SC_KILLCLIENT \in Types
    /\ CS_PUBLISH \notin {CS_SUBSCRIBE, CS_KILLSERVER, CS_CLEARSERVER}
    /\ SC_NOTIFY # SC_KILLCLIENT
  BY DEF Types, CS_PUBLISH, CS_SUBSCRIBE, CS_KILLSERVER, CS_CLEARSERVER, SC_NOTIFY, SC_KILLCLIENT

LEMMA ClientMessage ==
    ASSUME DataInv, NEW p \in FromClient, MsgType(p) = CS_PUBLISH
    PROVE  \E e \in published : p = ToMessage(CS_PUBLISH, e[1], e[2])
  <1>1. ASSUME NEW n \in Names, p = StrMsg(CS_SUBSCRIBE, n) PROVE FALSE
    <2>1. n \in Name
      BY NamesAre DEF DataInv, WellFormed
    <2>2. MsgType(p) = CS_SUBSCRIBE
      BY <1>1, <2>1, TypesDiffer, StrMsgIs
    <2> QED BY <2>2, TypesDiffer
  <1>2. ASSUME NEW type \in {CS_KILLSERVER, CS_CLEARSERVER}, p = NoDataMsg(type) PROVE FALSE
    <2>1. MsgType(p) = type
      BY <1>2, TypesDiffer, NoDataMsgIs
    <2> QED BY <2>1, TypesDiffer
  <1> QED BY <1>1, <1>2 DEF FromClient

LEMMA BrokerMessage ==
    ASSUME DataInv, NEW p \in FromBroker, MsgType(p) = SC_NOTIFY
    PROVE  \E e \in published : p = ToMessage(SC_NOTIFY, e[1], e[2])
  <1>1. p # NoDataMsg(SC_KILLCLIENT)
    BY TypesDiffer, NoDataMsgIs
  <1> QED BY <1>1 DEF FromBroker

-----------------------------------------------------------------------------
(* The broker.                                                             *)

(* A notice of what has been published.                                    *)
LEMMA SentKeeps ==
    ASSUME DataInv, program' = program, published \subseteq published',
           NEW e \in published', Sent(ToMessage(SC_NOTIFY, e[1], e[2]))
    PROVE  inbox' \in Seq(FromBroker')
  <1> DEFINE m == ToMessage(SC_NOTIFY, e[1], e[2])
  <1>1. m \in FromBroker'
    BY DEF FromBroker
  <1>2. inbox \in Seq(FromBroker')
    BY StillOnTheWay DEF DataInv, OnTheWay
  <1>3. inbox' = Append(inbox, m)
    BY DEF Sent
  <1> HIDE DEF m
  <1> QED BY <1>1, <1>2, <1>3, AppendProperties

LEMMA StoresKeeps ==
    ASSUME DataInv, program' = program, published \subseteq published',
           NEW n \in Names, NEW d \in Data, <<n, d>> \in published',
           Stores(ToMessage(CS_PUBLISH, n, d))
    PROVE  StoredPart' /\ inbox' \in Seq(FromBroker')
  <1> DEFINE p == ToMessage(CS_PUBLISH, n, d)
             e == <<n, d>>
  <1>1. n \in Name
    BY NamesAre DEF DataInv, WellFormed
  <1>2. /\ NameFromMsg(p) = {NameSent(n, d, x) : x \in Beyond}
        /\ FromMessage(p).d = d /\ Stamped(p) = ToMessage(SC_NOTIFY, n, d)
    <2>1. FromMessage(p) = [at |-> Len(p) + 1, d |-> d]
      BY <1>1, TypesDiffer, RoundTrip
    <2>2. NameFromMsg(p) = {NameSent(n, d, x) : x \in Beyond}
      BY <1>1, TypesDiffer, HeaderIs
    <2>3. Stamped(p) = ToMessage(SC_NOTIFY, n, d)
      BY <1>1, TypesDiffer, StampedIs
    <2> HIDE DEF p
    <2> QED BY <2>1, <2>2, <2>3
  <1>3. Stores(p)
    OBVIOUS
  <1>4. e[1] = n /\ e[2] = d /\ e \in published'
    OBVIOUS
  <1> HIDE DEF p, e
  <1>5. PICK x \in Beyond :
           /\ stored' = With(stored, NameSent(n, d, x), d)
           /\ Sent(ToMessage(SC_NOTIFY, e[1], e[2])) \/ inbox' = inbox
    BY <1>2, <1>3, <1>4 DEF Stores
  <1> DEFINE s == NameSent(n, d, x)
  <1>6. PublishedAs(s, d)'
    BY <1>4 DEF PublishedAs
  <1> HIDE DEF s
  <1>7. StoredPart'
    <2>1. DOMAIN stored' = DOMAIN stored \cup {s}
      BY <1>5 DEF With, s
    <2>2. \A k \in DOMAIN stored' : stored'[k] = IF k = s THEN d ELSE stored[k]
      BY <1>5 DEF With, s
    <2>3. \A k \in DOMAIN stored : PublishedAs(k, stored[k])
      BY DEF DataInv, StoredPart
    <2> QED BY <1>6, <2>1, <2>2, <2>3 DEF StoredPart, PublishedAs
  <1>8. inbox' \in Seq(FromBroker')
    BY <1>4, <1>5, SentKeeps, Kept
  <1> QED BY <1>7, <1>8

(* What holds when the broker takes a message.                             *)
LEMMA TakenIs ==
    ASSUME DataInv, NEW type, BrokerTakes(type)
    PROVE  /\ Head(outbox) \in FromClient /\ MsgType(Head(outbox)) = type
           /\ UNCHANGED <<program, topicToPublish, topicToAccess, topics, published>>
           /\ WellFormed' /\ TopicsPart' /\ AccessPart' /\ outbox' \in Seq(FromClient')
  <1>1. UNCHANGED <<program, topicToPublish, topicToAccess, topics, published>>
    BY DEF BrokerTakes, brokerOnly, cVars, clientVars, histVars
  <1>2. /\ outbox \in Seq(FromClient) /\ outbox # <<>> /\ outbox' = Tail(outbox)
        /\ MsgType(Head(outbox)) = type
    BY DEF DataInv, OnTheWay, BrokerTakes
  <1>3. Head(outbox) \in FromClient /\ outbox' \in Seq(FromClient)
    BY <1>2, HeadTailProperties
  <1>4. outbox' \in Seq(FromClient')
    BY <1>1, <1>3, StillOnTheWay
  <1>5. WellFormed'
    BY <1>1 DEF DataInv, WellFormed, Names
  <1> QED BY <1>1, <1>2, <1>3, <1>4, <1>5, Kept

LEMMA BrokerPublishesKeeps ==
    ASSUME DataInv, BrokerPublishes
    PROVE  DataInv'
  <1>1. BrokerTakes(CS_PUBLISH) /\ Stores(Head(outbox))
    BY DEF BrokerPublishes
  <1>2. PICK e \in published : Head(outbox) = ToMessage(CS_PUBLISH, e[1], e[2])
    BY <1>1, TakenIs, ClientMessage
  <1>3. e[1] \in Names /\ e[2] \in Data /\ <<e[1], e[2]>> \in published
    BY PublishedIs
  <1>4. program' = program /\ published' = published
    BY <1>1, TakenIs
  <1>5. StoredPart' /\ inbox' \in Seq(FromBroker')
    BY <1>1, <1>2, <1>3, <1>4, StoresKeeps
  <1> QED BY <1>1, <1>5, TakenIs DEF DataInv, OnTheWay

LEMMA BrokerSubscribesKeeps ==
    ASSUME DataInv, BrokerSubscribes
    PROVE  DataInv'
  <1>1. PICK n \in MsgOf(Head(outbox)) :
           /\ BrokerTakes(CS_SUBSCRIBE) /\ stored' = stored
           /\ \/ Has(stored, n) /\ Sent(ToMessage(SC_NOTIFY, n, stored[n]))
              \/ inbox' = inbox
    BY DEF BrokerSubscribes
  <1>2. program' = program /\ published' = published
    BY <1>1, TakenIs
  <1>3. inbox' \in Seq(FromBroker')
    <2>1. CASE Has(stored, n) /\ Sent(ToMessage(SC_NOTIFY, n, stored[n]))
      <3>1. PICK e \in published, x \in Beyond :
               n = NameSent(e[1], e[2], x) /\ stored[n] = e[2]
        BY <2>1 DEF DataInv, StoredPart, PublishedAs, Has
      <3>2. ToMessage(SC_NOTIFY, n, stored[n]) = ToMessage(SC_NOTIFY, e[1], e[2])
        BY <3>1, PublishedIs, SameMessage
      <3> QED BY <1>2, <2>1, <3>2, SentKeeps
    <2>2. CASE inbox' = inbox
      BY <1>2, <2>2, Kept
    <2> QED BY <1>1, <2>1, <2>2
  <1>4. StoredPart'
    BY <1>1, <1>2, Kept
  <1> QED BY <1>1, <1>3, <1>4, TakenIs DEF DataInv, OnTheWay

(* The notice that ends the client.                                        *)
LEMMA KillclientKeeps ==
    ASSUME DataInv, program' = program, published' = published,
           inbox' = Append(inbox, NoDataMsg(SC_KILLCLIENT))
    PROVE  inbox' \in Seq(FromBroker')
  <1>1. NoDataMsg(SC_KILLCLIENT) \in FromBroker'
    BY DEF FromBroker
  <1>2. inbox \in Seq(FromBroker')
    BY StillOnTheWay DEF DataInv, OnTheWay
  <1> QED BY <1>1, <1>2, AppendProperties

LEMMA BrokerKilledKeeps ==
    ASSUME DataInv, BrokerKilled
    PROVE  DataInv'
  <1>1. /\ BrokerTakes(CS_KILLSERVER) /\ stored' = stored
        /\ inbox' = Append(inbox, NoDataMsg(SC_KILLCLIENT))
    BY DEF BrokerKilled
  <1>2. program' = program /\ published' = published
    BY <1>1, TakenIs
  <1> QED BY <1>1, <1>2, TakenIs, KillclientKeeps, Kept DEF DataInv, OnTheWay

LEMMA BrokerClearedKeeps ==
    ASSUME DataInv, BrokerCleared
    PROVE  DataInv'
  <1>1. BrokerTakes(CS_CLEARSERVER) /\ stored' = <<>> /\ inbox' = inbox
    BY DEF BrokerCleared
  <1>2. program' = program /\ published' = published
    BY <1>1, TakenIs
  <1>3. StoredPart'
    BY <1>1, NothingIs DEF StoredPart
  <1> QED BY <1>1, <1>2, <1>3, TakenIs, Kept DEF DataInv, OnTheWay

LEMMA OtherPublishesKeeps ==
    ASSUME DataInv, NEW n \in Names, NEW d \in Others, OtherPublishes(n, d)
    PROVE  DataInv'
  <1>1. /\ Stores(ToMessage(CS_PUBLISH, n, d)) /\ published' = published \cup {<<n, d>>}
        /\ UNCHANGED <<program, topicToPublish, topicToAccess, topics, outbox>>
    BY DEF OtherPublishes, brokerOnly, cVars, clientVars
  <1>2. d \in Data
    BY LinkageAssumption
  <1>3. StoredPart' /\ inbox' \in Seq(FromBroker')
    <2>1. published \subseteq published' /\ <<n, d>> \in published' /\ program' = program
      BY <1>1
    <2> QED BY <1>1, <1>2, <2>1, StoresKeeps
  <1>4. Names' = Names
    BY <1>1 DEF Names
  <1>5. WellFormed'
    BY <1>1, <1>2, <1>4 DEF DataInv, WellFormed
  <1>6. TopicsPart' /\ AccessPart' /\ outbox' \in Seq(FromClient')
    BY <1>1, Kept
  <1> QED BY <1>3, <1>5, <1>6 DEF DataInv, OnTheWay

LEMMA BrokerEndsKeeps ==
    ASSUME DataInv, BrokerEnds
    PROVE  DataInv'
  <1>1. /\ inbox' = Append(inbox, NoDataMsg(SC_KILLCLIENT))
        /\ UNCHANGED <<program, topicToPublish, topicToAccess, topics, outbox, stored, published>>
    BY DEF BrokerEnds, brokerOnly, cVars, clientVars, histVars
  <1>2. WellFormed'
    BY <1>1 DEF DataInv, WellFormed, Names
  <1> QED BY <1>1, <1>2, KillclientKeeps, Kept DEF DataInv, OnTheWay

LEMMA BrokerStartsKeeps ==
    ASSUME DataInv, BrokerStarts
    PROVE  DataInv'
  BY Unmoved DEF BrokerStarts, brokerOnly, cVars, clientVars, histVars

(* MyClient::process().                                                    *)
LEMMA ProcessKeeps ==
    ASSUME DataInv, Process
    PROVE  DataInv'
  <1>1. UNCHANGED <<program, topicToPublish, topicToAccess, outbox, stored, published>>
    BY DEF Process, cVars, histVars
  <1>2. inbox \in Seq(FromBroker) /\ inbox # <<>> /\ inbox' = Tail(inbox)
    BY DEF DataInv, OnTheWay, Process
  <1>3. Head(inbox) \in FromBroker /\ inbox' \in Seq(FromBroker)
    BY <1>2, HeadTailProperties
  <1>4. inbox' \in Seq(FromBroker')
    BY <1>1, <1>3, StillOnTheWay
  <1> DEFINE p == Head(inbox)
             t == [d |-> FromMessage(p).d, state |-> "TOPIC_CHANGED"]
  <1>5. \/ topics' = topics
        \/ /\ MsgType(p) = SC_NOTIFY
           /\ \E n \in NameFromMsg(p) : topics' = [topics EXCEPT ![n] = t]
    BY DEF Process
  <1>6. TopicsPart'
    <2>1. CASE topics' = topics
      BY <1>1, <2>1, Kept
    <2>2. ASSUME MsgType(p) = SC_NOTIFY,
                 NEW n \in NameFromMsg(p), topics' = [topics EXCEPT ![n] = t]
          PROVE  TopicsPart'
      <3>1. PICK e \in published : p = ToMessage(SC_NOTIFY, e[1], e[2])
        BY <1>3, <2>2, BrokerMessage
      <3>2. e[1] \in Names /\ e[1] \in Name /\ e[2] \in Data
        BY PublishedIs
      <3>3. /\ \E x \in Beyond : n = NameSent(e[1], e[2], x)
            /\ FromMessage(p) = [at |-> Len(p) + 1, d |-> e[2]]
        BY <3>1, <3>2, TypesDiffer, HeaderIs, RoundTrip
      <3> HIDE DEF p
      <3>4. t.d = e[2] /\ t.state = "TOPIC_CHANGED" /\ t \in TopicRecords
        BY <3>2, <3>3 DEF TopicRecords, States
      <3> HIDE DEF t
      <3>5. DOMAIN topics' = DOMAIN topics
        BY <2>2
      <3>6. \A k \in DOMAIN topics : topics'[k] = IF k = n THEN t ELSE topics[k]
        BY <2>2
      <3>7. PublishedAs(n, t.d)
        BY <3>3, <3>4 DEF PublishedAs
      <3> QED BY <1>1, <3>4, <3>5, <3>6, <3>7 DEF DataInv, TopicsPart, PublishedAs
    <2> QED BY <1>5, <2>1, <2>2
  <1>7. WellFormed'
    BY <1>1 DEF DataInv, WellFormed, Names
  <1>8. StoredPart' /\ AccessPart' /\ outbox' \in Seq(FromClient')
    BY <1>1, Kept
  <1> QED BY <1>4, <1>6, <1>7, <1>8 DEF DataInv, OnTheWay

-----------------------------------------------------------------------------
(* A Python sequence and the topic that is built from it.                  *)

LEMMA ConvertedIs ==
    ASSUME NEW x \in Item, x.kind # "other"
    PROVE  Converted(x) \in Datum
  <1>1. \A f \in Word : Float(f) \in Datum
    BY DEF Datum, Float
  <1>2. CASE x.kind = "number"
    <2>1. x.f \in Word
      BY <1>2 DEF Item
    <2>2. Converted(x) = Float(x.f)
      BY <1>2 DEF Converted
    <2> QED BY <1>1, <2>1, <2>2
  <1>3. CASE x.kind = "odd"
    <2>1. MinusOne \in Word
      <3>1. 0 \in Byte /\ 128 \in Byte /\ 191 \in Byte
        BY ByteIs
      <3>2. \A a, b \in Byte : <<0, 0, a, b>> \in Word
        BY <3>1 DEF Word
      <3> QED BY <3>1, <3>2 DEF MinusOne
    <2>2. Converted(x) = Float(MinusOne)
      BY <1>3 DEF Converted
    <2> QED BY <1>1, <2>1, <2>2
  <1>4. CASE x.kind = "text"
    <2>1. x.s \in Seq(Byte) /\ Len(x.s) <= MaxInt
      BY <1>4 DEF Item
    <2>2. /\ CString(x.s) \in Seq(Letter) /\ Len(CString(x.s)) <= Len(x.s)
          /\ Len(CString(x.s)) \in Nat /\ Len(x.s) \in Nat
      BY <2>1, CStringType, LenProperties
    <2>3. Len(CString(x.s)) <= MaxInt
      BY <2>1, <2>2, MaxIntIs
    <2>4. CString(x.s) \in Text
      BY <2>2, <2>3 DEF Text
    <2>5. Converted(x) = String(CString(x.s))
      BY <1>4 DEF Converted
    <2> QED BY <2>4, <2>5 DEF Datum, String
  <1>5. x.kind \in {"number", "text", "odd"}
    BY DEF Item
  <1> QED BY <1>2, <1>3, <1>4, <1>5

LEMMA AcceptedIs ==
    ASSUME NEW seq \in Sequences
    PROVE  /\ Accepted(seq) \in Sequences
           /\ \A i \in 1 .. Len(Accepted(seq)) : Accepted(seq)[i].kind # "other"
  <1> DEFINE others == {i \in 1 .. Len(seq) : seq[i].kind = "other"}
  <1>1. seq \in Seq(Item) /\ Len(seq) \in Nat /\ Len(seq) <= MaxInt
    BY LenProperties DEF Sequences
  <1>2. CASE others = {}
    <2>1. Accepted(seq) = seq
      BY <1>2 DEF Accepted
    <2> QED BY <1>2, <2>1
  <1>3. CASE others # {}
    <2> DEFINE m == Min(others)
               r == SubSeq(seq, 1, m - 1)
    <2>1. Accepted(seq) = r
      BY <1>3 DEF Accepted
    <2>2. others \in SUBSET Nat
      OBVIOUS
    <2>3. m \in others /\ \A i \in others : m <= i
      <3> HIDE DEF others
      <3> QED BY <1>3, <2>2, MinIs
    <2>4. m \in 1 .. Len(seq)
      BY <2>3
    <2> HIDE DEF m
    <2>5. \A i \in 1 .. m - 1 : i \in 1 .. Len(seq) /\ seq[i].kind # "other"
      BY <1>1, <2>3, <2>4
    <2>6. \A i \in 1 .. m - 1 : seq[i] \in Item
      BY <1>1, <2>5, ElementOfSeq
    <2>7. /\ r \in Seq(Item) /\ Len(r) = IF 1 <= m - 1 THEN m - 1 - 1 + 1 ELSE 0
          /\ \A i \in 1 .. m - 1 - 1 + 1 : r[i] = seq[1 + i - 1]
      BY <2>4, <2>6, SubSeqProperties
    <2> HIDE DEF r
    <2>8. Len(r) = m - 1 /\ \A i \in 1 .. m - 1 : r[i] = seq[i]
      <3>1. m - 1 - 1 + 1 = m - 1 /\ (1 <= m - 1 \/ m - 1 = 0)
            /\ \A i \in 1 .. m - 1 : 1 + i - 1 = i
        BY <2>4
      <3> QED BY <2>7, <3>1
    <2>9. Len(r) <= MaxInt
      BY <1>1, <2>4, <2>8, MaxIntIs
    <2> QED BY <2>1, <2>5, <2>7, <2>8, <2>9 DEF Sequences
  <1> QED BY <1>2, <1>3

LEMMA BuildsTopicIs ==
    ASSUME NEW seq \in Sequences, BuildsTopic(seq)
    PROVE  /\ topicToPublish' \in Data
           /\ Accepted(seq) = seq => IsConversion(topicToPublish', seq)
  <1> DEFINE a == Accepted(seq)
             d == [i \in 1 .. Len(a) |-> Converted(a[i])]
  <1>1. a \in Seq(Item) /\ Len(a) \in Nat /\ Len(a) <= MaxInt
    BY AcceptedIs, LenProperties DEF Sequences
  <1>2. \A i \in 1 .. Len(a) : a[i].kind # "other"
    BY AcceptedIs
  <1>3. topicToPublish' = d
    BY DEF BuildsTopic
  <1> HIDE DEF a
  <1>4. \A i \in 1 .. Len(a) : Converted(a[i]) \in Datum
    BY <1>1, <1>2, ElementOfSeq, ConvertedIs
  <1>5. d \in [1 .. Len(a) -> Datum]
    BY <1>4
  <1>6. d \in Seq(Datum) /\ Len(d) = Len(a)
    <2> HIDE DEF d
    <2> QED BY <1>1, <1>5, IsSeq
  <1>7. \A i \in 1 .. Len(a) : d[i] = Converted(a[i])
    OBVIOUS
  <1> HIDE DEF d
  <1>8. d \in Data
    BY <1>1, <1>6 DEF Data
  <1>9. ASSUME Accepted(seq) = seq PROVE IsConversion(d, seq)
    BY <1>6, <1>7, <1>9 DEF IsConversion, a
  <1> QED BY <1>3, <1>8, <1>9

(* The tuple has the items of the topic.                                   *)
LEMMA TupleIs ==
    ASSUME NEW t, t.d \in Data
    PROVE  PyTuple(t) = t.d
  <1>1. t.d \in Seq(Datum) /\ Len(t.d) \in Nat /\ t.d = [i \in 1 .. Len(t.d) |-> t.d[i]]
    BY LenProperties DEF Data
  <1>2. ASSUME NEW i \in 1 .. Len(t.d)
        PROVE  t.d[i] = IF fetchtype(t, i) = DT_FLOAT THEN Float(fetchfloat(t, i))
                                                      ELSE String(fetchstring(t, i))
    <2> DEFINE x == t.d[i]
    <2>1. Fetch(t, i) = x /\ x \in Datum
      BY <1>1, ElementOfSeq DEF Fetch
    <2> HIDE DEF x
    <2>2. fetchtype(t, i) = x.t
      BY <2>1 DEF fetchtype
    <2>3. CASE x.t = DT_FLOAT
      <3>1. fetchfloat(t, i) = x.f
        BY <2>1, <2>2, <2>3 DEF fetchfloat
      <3>2. x = Float(x.f)
        BY <2>1, <2>3 DEF Datum, Float, DT_FLOAT, DT_STRING
      <3> QED BY <2>2, <2>3, <3>1, <3>2 DEF x
    <2>4. CASE x.t # DT_FLOAT
      <3>1. x.t = DT_STRING /\ x = String(x.s)
        BY <2>1, <2>4 DEF Datum, String
      <3>2. fetchstring(t, i) = x.s
        BY <2>1, <2>2, <3>1 DEF fetchstring
      <3> QED BY <2>2, <2>4, <3>1, <3>2 DEF x
    <2> QED BY <2>3, <2>4
  <1>3. fetchsize(t) = Len(t.d)
    BY DEF fetchsize
  <1> QED BY <1>1, <1>2, <1>3 DEF PyTuple

-----------------------------------------------------------------------------
(* The calls of a program in C, and those of one in Python.                *)

LEMMA AddKeeps ==
    ASSUME DataInv, program' = program, Len(topicToPublish) < MaxItems,
           NEW x \in Datums, diamondapparatus_add(x)
    PROVE  DataInv'
  <1>1. x \in Datum
    BY LinkageAssumption DEF Datums, Datum, Float, String
  <1>2. /\ topicToPublish \in Seq(Datum) /\ Len(topicToPublish) \in Nat
        /\ topicToPublish' = Append(topicToPublish, x)
    BY LenProperties DEF DataInv, WellFormed, Data, diamondapparatus_add
  <1>3. topicToPublish' \in Seq(Datum) /\ Len(topicToPublish') = Len(topicToPublish) + 1
    BY <1>1, <1>2, AppendProperties
  <1>4. MaxItems \in Nat /\ MaxItems <= MaxInt
    BY LinkageAssumption, MaxIntIs
  <1>5. Len(topicToPublish') <= MaxInt
    BY <1>2, <1>3, <1>4, MaxIntIs
  <1>6. topicToPublish' \in Data
    BY <1>3, <1>5 DEF Data
  <1> QED BY <1>6, BuildsKeep DEF diamondapparatus_add, clientVars, brokerVars, histVars

LEMMA CCallsKeep ==
    ASSUME IInv, CCalls
    PROVE  IInv'
  <1>1. /\ program' = program /\ program.lang = "C" /\ DataInv
        /\ UNCHANGED <<raised, tuple, pc, asked>>
    BY DEF CCalls, IInv, pyVars
  <1>2. PyInv'
    BY <1>1 DEF IInv, PyInv
  <1>3. DataInv'
    <2>1. CASE \E r \in -1 .. MaxInits :
                  \/ diamondapparatus_init(r) \/ diamondapparatus_destroy(r)
                  \/ diamondapparatus_waitforany(r)
      BY <1>1, <2>1, CallsKeep
    <2>2. CASE \E r \in -1 .. MaxInits :
                  diamondapparatus_killserver(r) \/ diamondapparatus_clearserver(r)
      BY <1>1, <2>2, CommandsKeep
    <2>3. CASE \E r \in -1 .. MaxInits, n \in Names : diamondapparatus_subscribe(n, r)
      BY <1>1, <2>3, SubscribeKeeps
    <2>4. CASE \E r \in -1 .. MaxInits, n \in Names : diamondapparatus_publish(n, r)
      BY <1>1, <2>4, PublishKeeps
    <2>5. CASE \E n \in Names, w \in GetWaits : diamondapparatus_get(n, w)
      BY <1>1, <2>5, GetKeeps
    <2>6. CASE diamondapparatus_newtopic
      BY <1>1, <2>6, NothingIs, BuildsKeep DEF diamondapparatus_newtopic, clientVars,
         brokerVars, histVars
    <2>7. CASE Len(topicToPublish) < MaxItems /\ \E x \in Datums : diamondapparatus_add(x)
      BY <1>1, <2>7, AddKeeps
    <2> QED BY <2>1, <2>2, <2>3, <2>4, <2>5, <2>6, <2>7 DEF CCalls
  <1> QED BY <1>2, <1>3 DEF IInv

(* A call that is over, and has not touched the topic that was fetched.    *)
LEMMA PyReturns ==
    ASSUME PyInv, program.lang = "Python", UNCHANGED <<program, tuple, topicToAccess>>,
           NEW reason, Raises(reason)
    PROVE  PyInv'
  BY DEF PyInv, Raises

LEMMA InitKeeps ==
    ASSUME IInv, diamond_init
    PROVE  IInv'
  <1>1. UNCHANGED <<program, tuple>> /\ program.lang = "Python"
    BY DEF diamond_init
  <1>2. PICK r \in {-1, 0} : /\ diamondapparatus_init(r)
                             /\ \E reason : Raises(reason)
    BY DEF diamond_init
  <1>3. DataInv'
    BY <1>1, <1>2, CallsKeep DEF IInv
  <1>4. topicToAccess' = topicToAccess
    BY <1>2 DEF diamondapparatus_init
  <1>5. PyInv'
    BY <1>1, <1>2, <1>4, PyReturns DEF IInv
  <1> QED BY <1>3, <1>5 DEF IInv

(* Entering a function other than publish().                               *)
LEMMA ChkrunKeeps ==
    ASSUME IInv, NEW f, f # "publish", NEW n, f \in {"subscribe", "get"} => n \in Names,
           Chkrun(f, n, <<>>), topicToPublish' = topicToPublish
    PROVE  IInv'
  <1>1. /\ program.lang = "Python"
        /\ UNCHANGED <<program, tuple, topicToAccess, topics, outbox, inbox, stored, published>>
    BY DEF Chkrun, clientVars, brokerVars, histVars
  <1>2. DataInv'
    BY <1>1, Unmoved DEF IInv
  <1>3. PyInv'
    <2>1. CASE running
      <3>1. pc' = f /\ asked'.name = n
        BY <2>1 DEF Chkrun, NoCall
      <3>2. Names' = Names
        BY <1>1 DEF Names
      <3> QED BY <1>1, <3>1, <3>2 DEF IInv, PyInv
    <2>2. CASE ~running
      BY <1>1, <2>2, PyReturns DEF Chkrun, IInv
    <2> QED BY <2>1, <2>2
  <1> QED BY <1>2, <1>3 DEF IInv

LEMMA PyPublishKeeps ==
    ASSUME IInv, NEW n \in Names, NEW seq \in PySequences, diamond_publish(n, seq)
    PROVE  IInv'
  <1>1. seq \in Sequences
    BY LinkageAssumption DEF Sequences
  <1>2. /\ program.lang = "Python"
        /\ UNCHANGED <<program, tuple, topicToAccess, topics, outbox, inbox, stored, published>>
    BY DEF diamond_publish, Chkrun, clientVars, brokerVars, histVars
  <1>3. CASE ~running
    <2>1. topicToPublish' = topicToPublish /\ \E reason : Raises(reason)
      BY <1>3 DEF diamond_publish, Chkrun
    <2> QED BY <1>2, <2>1, Unmoved, PyReturns DEF IInv
  <1>4. CASE running
    <2>1. BuildsTopic(seq)
      BY <1>4 DEF diamond_publish
    <2>2. topicToPublish' \in Data /\ (Accepted(seq) = seq => IsConversion(topicToPublish', seq))
      BY <1>1, <2>1, BuildsTopicIs
    <2>3. DataInv'
      BY <1>2, <2>2, BuildsKeep DEF IInv
    <2>4. CASE Accepted(seq) = seq
      <3>1. pc' = "publish" /\ asked'.name = n /\ asked'.seq = seq
        BY <1>4, <2>4 DEF diamond_publish, Chkrun, NoCall
      <3>2. Names' = Names
        BY <1>2 DEF Names
      <3>3. PyInv'
        BY <1>1, <1>2, <2>2, <2>4, <3>1, <3>2 DEF IInv, PyInv
      <3> QED BY <2>3, <3>3 DEF IInv
    <2>5. CASE Accepted(seq) # seq
      <3>1. \E reason : Raises(reason)
        BY <1>4, <2>5 DEF diamond_publish
      <3> QED BY <1>2, <2>3, <3>1, PyReturns DEF IInv
    <2> QED BY <2>4, <2>5
  <1> QED BY <1>3, <1>4

LEMMA PyEntersKeeps ==
    ASSUME IInv, PyEnters
    PROVE  IInv'
  <1>1. CASE Chkrun("destroy", <<>>, <<>>) /\ topicToPublish' = topicToPublish
    BY <1>1, ChkrunKeeps
  <1>2. CASE Chkrun("waitforany", <<>>, <<>>) /\ topicToPublish' = topicToPublish
    BY <1>2, ChkrunKeeps
  <1>3. CASE (\E n \in Names : Chkrun("subscribe", n, <<>>)) /\ topicToPublish' = topicToPublish
    BY <1>3, ChkrunKeeps
  <1>4. CASE (\E n \in Names : Chkrun("get", n, <<>>)) /\ topicToPublish' = topicToPublish
    BY <1>4, ChkrunKeeps
  <1>5. CASE \E n \in Names, seq \in PySequences : diamond_publish(n, seq)
    BY <1>5, PyPublishKeeps
  <1> QED BY <1>1, <1>2, <1>3, <1>4, <1>5 DEF PyEnters

LEMMA PyRequestsKeeps ==
    ASSUME IInv, PyRequests
    PROVE  IInv'
  <1>1. UNCHANGED <<program, tuple>> /\ program.lang # "C" /\ DataInv /\ program \in Programs
    BY DEF PyRequests, Fallible, IInv, PyInv, DataInv, WellFormed
  <1>2. PICK r \in -1 .. 1 : Fallible(r) /\ \E reason : Raises(reason)
    BY DEF PyRequests
  <1>3. DataInv'
    <2>1. CASE pc = "publish" /\ diamondapparatus_publish(asked.name, r)
      BY <1>1, <2>1, PublishKeeps DEF IInv, PyInv
    <2>2. CASE pc = "subscribe" /\ diamondapparatus_subscribe(asked.name, r)
      BY <1>1, <2>2, SubscribeKeeps DEF IInv, PyInv
    <2>3. CASE pc = "waitforany" /\ diamondapparatus_waitforany(r)
      BY <1>1, <2>3, CallsKeep
    <2> QED BY <1>2, <2>1, <2>2, <2>3 DEF Fallible
  <1>4. topicToAccess' = topicToAccess
    BY <1>2 DEF Fallible, diamondapparatus_publish, diamondapparatus_subscribe,
                diamondapparatus_waitforany, NotConnected
  <1>5. PyInv'
    BY <1>1, <1>2, <1>4, NamesAre, PyReturns DEF IInv
  <1> QED BY <1>3, <1>5 DEF IInv

LEMMA PyDestroysKeeps ==
    ASSUME IInv, PyDestroys
    PROVE  IInv'
  <1>1. UNCHANGED <<program, tuple>> /\ program.lang # "C" /\ DataInv /\ program \in Programs
    BY DEF PyDestroys, IInv, PyInv, DataInv, WellFormed
  <1>2. PICK r \in 0 .. MaxInits : diamondapparatus_destroy(r) /\ Raises("nothing")
    BY DEF PyDestroys
  <1>3. DataInv'
    BY <1>1, <1>2, CallsKeep
  <1>4. topicToAccess' = topicToAccess
    BY <1>2 DEF diamondapparatus_destroy
  <1>5. PyInv'
    BY <1>1, <1>2, <1>4, NamesAre, PyReturns DEF IInv
  <1> QED BY <1>3, <1>5 DEF IInv

LEMMA PyGetsKeeps ==
    ASSUME IInv, PyGets
    PROVE  IInv'
  <1>1. /\ program' = program /\ program.lang # "C" /\ DataInv /\ asked.name \in Names
        /\ tuple' = IF IsValid(topicToAccess') THEN <<PyTuple(topicToAccess')>> ELSE False
        /\ pc' = "idle"
    BY DEF PyGets, Raises, IInv, PyInv
  <1>2. DataInv'
    <2>1. PICK w \in GetWaits : diamondapparatus_get(asked.name, w)
      BY DEF PyGets
    <2> QED BY <1>1, <2>1, GetKeeps
  <1>3. topicToAccess'.d \in Data
    BY <1>2 DEF DataInv, AccessPart, TopicRecords
  <1>4. PyTuple(topicToAccess') = topicToAccess'.d
    BY <1>3, TupleIs
  <1>5. PyInv'
    BY <1>1, <1>4 DEF PyInv
  <1> QED BY <1>2, <1>5 DEF IInv

(* What the program does not do leaves its own state alone.                *)
LEMMA PyUntouched ==
    ASSUME PyInv, UNCHANGED <<program, topicToPublish, topicToAccess, tuple, pc, asked>>
    PROVE  PyInv'
  BY DEF PyInv, Names

LEMMA BrokerKeeps ==
    ASSUME IInv, Broker
    PROVE  IInv'
  <1>0. DataInv /\ PyInv
    BY DEF IInv
  <1>1. UNCHANGED brokerOnly
    BY DEF Broker, BrokerPublishes, BrokerSubscribes, BrokerKilled, BrokerCleared, BrokerTakes,
           BrokerStarts, BrokerEnds, OtherPublishes
  <1>2. PyInv'
    BY <1>0, <1>1, PyUntouched DEF brokerOnly, cVars, pyVars
  <1>3. DataInv'
    <2>1. CASE BrokerPublishes
      BY <1>0, <2>1, BrokerPublishesKeeps
    <2>2. CASE BrokerSubscribes
      BY <1>0, <2>2, BrokerSubscribesKeeps
    <2>3. CASE BrokerKilled
      BY <1>0, <2>3, BrokerKilledKeeps
    <2>4. CASE BrokerCleared
      BY <1>0, <2>4, BrokerClearedKeeps
    <2>5. CASE BrokerStarts
      BY <1>0, <2>5, BrokerStartsKeeps
    <2>6. CASE BrokerEnds
      BY <1>0, <2>6, BrokerEndsKeeps
    <2>7. CASE \E n \in Names, d \in Others : OtherPublishes(n, d)
      BY <1>0, <2>7, OtherPublishesKeeps
    <2> QED BY <2>1, <2>2, <2>3, <2>4, <2>5, <2>6, <2>7 DEF Broker
  <1> QED BY <1>2, <1>3 DEF IInv

LEMMA StepKeeps ==
    ASSUME IInv, [Next]_vars
    PROVE  IInv'
  <1>1. CASE CCalls
    BY <1>1, CCallsKeep
  <1>2. CASE diamond_init
    BY <1>2, InitKeeps
  <1>3. CASE PyEnters
    BY <1>3, PyEntersKeeps
  <1>4. CASE PyRequests
    BY <1>4, PyRequestsKeeps
  <1>5. CASE PyDestroys
    BY <1>5, PyDestroysKeeps
  <1>6. CASE PyGets
    BY <1>6, PyGetsKeeps
  <1>7. CASE Broker
    BY <1>7, BrokerKeeps
  <1>8. CASE Process
    <2>1. PyInv'
      BY <1>8, PyUntouched DEF Process, cVars, pyVars, IInv
    <2> QED BY <1>8, <2>1, ProcessKeeps DEF IInv
  <1>9. CASE UNCHANGED vars
    <2>1. UNCHANGED <<program, topicToPublish, topicToAccess, topics, outbox, inbox, stored,
                      published, tuple, pc, asked>>
      BY <1>9 DEF vars, cVars, pyVars, clientVars, brokerVars, histVars
    <2> QED BY <2>1, Unmoved, PyUntouched DEF IInv
  <1> QED BY <1>1, <1>2, <1>3, <1>4, <1>5, <1>6, <1>7, <1>8, <1>9 DEF Next, PyCalls

-----------------------------------------------------------------------------
(* The invariant holds at every moment, whatever the program calls.        *)
THEOREM LinkageInvariance == Spec => []IInv
  <1>1. Init => IInv
    BY Initially
  <1>2. IInv /\ [Next]_vars => IInv'
    BY StepKeeps
  <1> QED BY <1>1, <1>2, PTL DEF Spec

(* Whatever the broker keeps and whatever a program has fetched, in C or   *)
(* as a tuple in Python, was published under that name, datum for datum,   *)
(* or under a longer one that toMessage() has clipped to it.               *)
THEOREM AlwaysAsPublished == Spec => []FetchedAsPublished
  <1>1. IInv => FetchedAsPublished
    BY DEF IInv, DataInv, PyInv, StoredPart, TopicsPart, AccessPart, FetchedAsPublished
  <1> QED BY <1>1, LinkageInvariance, PTL

(* The items and the clipped name fill the buffer that toMessage() has     *)
(* allocated, whatever the length of the name; strcpy() leaves it exactly  *)
(* when the name exceeds MaxName by more than the items are long; and      *)
(* fromMessage() reads a notice to its end and not beyond.                 *)
THEOREM SizesAlwaysAgree == Spec => []SizesAgree
  <1>1. ASSUME IInv PROVE SizesAgree
    <2>1. DataInv
      BY <1>1 DEF IInv
    <2>2. ASSUME NEW e \in published
          PROVE  /\ Len(ToMessage(CS_PUBLISH, e[1], e[2])) = SizeOf(e[1], e[2])
                 /\ NameFits(e[1], e[2]) <=>
                        Len(e[1]) <= MaxName \/ Len(e[1]) <= MaxName + Len(DataBytes(e[2]))
      BY <2>1, PublishedIs, TypesDiffer, SizeIs
    <2>3. ASSUME NEW p \in ToSet(inbox), MsgType(p) = SC_NOTIFY
          PROVE  FromMessage(p).at = Len(p) + 1
      <3>1. p \in FromBroker
        <4>1. inbox \in Seq(FromBroker)
          BY <2>1 DEF DataInv, OnTheWay
        <4>2. PICK i \in DOMAIN inbox : p = inbox[i]
          BY DEF ToSet
        <4>3. i \in 1 .. Len(inbox)
          BY <4>1, LenProperties
        <4> QED BY <4>1, <4>2, <4>3, ElementOfSeq
      <3>2. PICK e \in published : p = ToMessage(SC_NOTIFY, e[1], e[2])
        BY <2>1, <2>3, <3>1, BrokerMessage
      <3>3. FromMessage(p) = [at |-> Len(p) + 1, d |-> e[2]]
        BY <2>1, <3>2, PublishedIs, TypesDiffer, RoundTrip
      <3> QED BY <3>3
    <2> QED BY <2>2, <2>3 DEF SizesAgree
  <1>2. IInv => SizesAgree
    BY <1>1
  <1> QED BY <1>2, LinkageInvariance, PTL

(* A publish() of Python that does not raise has sent its own sequence.    *)
THEOREM AlwaysPublishesItsSequence == Spec => PublishesItsSequence
  <1> DEFINE p == Last(outbox')
             d == FromMessage(p).d
             Own == /\ Len(asked.name) <= MaxName => \A n \in NameFromMsg(p) : n = asked.name
                    /\ Len(d) = Len(asked.seq)
                    /\ \A i \in 1 .. Len(d) :
                          /\ asked.seq[i].kind = "number" => d[i] = Float(asked.seq[i].f)
                          /\ asked.seq[i].kind = "text" => d[i] = String(CString(asked.seq[i].s))
             Step == pc = "publish" /\ pc' = "idle" /\ raised' = "nothing" => Own
  <1>1. ASSUME IInv, Next, pc = "publish", pc' = "idle", raised' = "nothing" PROVE Own
    <2>1. program.lang # "C" /\ DataInv /\ asked.name \in Names /\ topicToPublish \in Data
          /\ IsConversion(topicToPublish, asked.seq)
      BY <1>1 DEF IInv, PyInv, DataInv, WellFormed
    <2>2. PyRequests
      BY <1>1, <2>1 DEF Next, CCalls, PyCalls, diamond_init, PyEnters, Chkrun, diamond_publish,
            PyDestroys, PyGets, Broker, BrokerPublishes, BrokerSubscribes, BrokerKilled,
            BrokerCleared, BrokerTakes, BrokerStarts, BrokerEnds, OtherPublishes, Process,
            brokerOnly, pyVars
    <2>3. PICK r \in -1 .. 1 :
             /\ diamondapparatus_publish(asked.name, r)
             /\ Raises(IF r < 0 THEN Error' ELSE IF Pending THEN "SystemError" ELSE "nothing")
      BY <1>1, <2>2 DEF PyRequests, Fallible
    <2>4. ~NotConnected(r)
      <3> SUFFICES ASSUME NotConnected(r) PROVE FALSE
        OBVIOUS
      <3>1. r = -1 /\ inerror' = TRUE /\ exception' = "not connected"
        BY DEF NotConnected, Fails
      <3>2. Error' = "not connected"
        BY <3>1, Zenon DEF Error
      <3>3. r < 0
        <4>1. r = -1
          BY <3>1, Zenon
        <4> QED BY <4>1
      <3>4. raised' = Error'
        BY <2>3, <3>3 DEF Raises
      <3> QED BY <1>1, <3>2, <3>4
    <2>5. outbox' = Append(outbox, ToMessage(CS_PUBLISH, asked.name, topicToPublish))
      BY <2>3, <2>4 DEF diamondapparatus_publish, Request
    <2>6. p = ToMessage(CS_PUBLISH, asked.name, topicToPublish)
      <3> DEFINE m == ToMessage(CS_PUBLISH, asked.name, topicToPublish)
      <3> HIDE DEF m
      <3>1. outbox \in Seq(FromClient \cup {m})
        <4>1. outbox \in Seq(FromClient)
          BY <2>1 DEF DataInv, OnTheWay
        <4> QED BY <4>1, SeqMonotonic
      <3>2. outbox' = Append(outbox, m)
        BY <2>5 DEF m
      <3>3. Len(outbox') = Len(outbox) + 1 /\ outbox'[Len(outbox) + 1] = m
        BY <3>1, <3>2, AppendProperties
      <3>4. Last(outbox') = m
        BY <3>3 DEF Last
      <3> QED BY <3>4 DEF m
    <2>7. asked.name \in Name
      BY <2>1, NamesAre DEF DataInv, WellFormed
    <2>8. /\ NameFromMsg(p) = {NameSent(asked.name, topicToPublish, x) : x \in Beyond}
          /\ FromMessage(p) = [at |-> Len(p) + 1, d |-> topicToPublish]
      BY <2>1, <2>6, <2>7, TypesDiffer, HeaderIs, RoundTrip
    <2>a. Len(asked.name) <= MaxName => \A n \in NameFromMsg(p) : n = asked.name
      BY <2>8 DEF NameSent
    <2>9. d = topicToPublish
      <3> HIDE DEF p
      <3> QED BY <2>8
    <2> HIDE DEF p, d
    <2>10. Len(d) = Len(asked.seq) /\ \A i \in 1 .. Len(d) : d[i] = Converted(asked.seq[i])
      BY <2>1, <2>9 DEF IsConversion
    <2>11. \A x : /\ x.kind = "number" => Converted(x) = Float(x.f)
                  /\ x.kind = "text" => Converted(x) = String(CString(x.s))
      BY DEF Converted
    <2> QED BY <2>a, <2>10, <2>11
  <1>2. IInv /\ [Next]_vars => [Step]_vars
    <2> HIDE DEF Own
    <2> QED BY <1>1
  <1>3. [][Step]_vars <=> PublishesItsSequence
    BY DEF PublishesItsSequence
  <1> HIDE DEF Step
  <1> QED BY <1>2, <1>3, LinkageInvariance, PTL DEF Spec
=============================================================================
