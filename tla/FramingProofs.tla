---------------------------- MODULE FramingProofs ----------------------------
(* Theorems about the framing, for every size and number of messages.      *)
EXTENDS Framing, SequenceTheorems, TLAPS

Byte == Nat \X Nat

(* No write fails while the receiver is there, and no signal interrupts.   *)
Reliable == Faults = FALSE /\ MaxSignals = 0

-----------------------------------------------------------------------------
(* The bytes of a message.                                                 *)

(* The size of a message is SizeLen bytes.                                 *)
LEMMA SizeBytesOK ==
    ASSUME NEW k \in Nat
    PROVE  /\ SizeBytes(k) \in Seq(Byte) /\ Len(SizeBytes(k)) = SizeLen
           /\ \A j \in 1 .. SizeLen : SizeBytes(k)[j] = <<k, j>>
  BY FramingAssumption DEF SizeBytes, Byte

(* Its data come after them.                                               *)
LEMMA DataBytesOK ==
    ASSUME posted \in Seq(Sizes), NEW k \in 1 .. Len(posted)
    PROVE  /\ posted[k] \in Nat \ {0}
           /\ DataBytes(k) \in Seq(Byte) /\ Len(DataBytes(k)) = posted[k]
           /\ \A j \in 1 .. posted[k] : DataBytes(k)[j] = <<k, SizeLen + j>>
  <1>1. PICK n \in Nat \ {0} : n = posted[k]
    BY FramingAssumption, ElementOfSeq
  <1>2. DataBytes(k) = [j \in 1 .. n |-> <<k, SizeLen + j>>]
    BY <1>1 DEF DataBytes
  <1>3. [j \in 1 .. n |-> <<k, SizeLen + j>>] \in Seq(Nat \X Nat)
    BY FramingAssumption
  <1> QED BY <1>1, <1>2, <1>3 DEF Byte

(* A stretch of L bytes of N messages, the last byte of message k being    *)
(* byte E[k]: byte i is byte j[i] of message m[i].                         *)
Follows(E, m1, j1, m2, j2) ==
    IF j1 < E[m1] THEN m2 = m1 /\ j2 = j1 + 1 ELSE m2 = m1 + 1 /\ j2 = 1

Chain(m, j, L, N, E) ==
    \A i \in 1 .. L :
        /\ m[i] \in 1 .. N /\ j[i] \in 1 .. E[m[i]]
        /\ i < L => Follows(E, m[i], j[i], m[i + 1], j[i + 1])
        /\ \A l \in i .. L :
              j[i] + (l - i) <= E[m[i]] => m[l] = m[i] /\ j[l] = j[i] + (l - i)

(* Writing the next bytes of the message at hand prolongs the stretch.     *)
LEMMA RunChained ==
    ASSUME NEW N \in Nat, NEW E \in [1 .. N -> Nat],
           NEW L \in Nat, NEW R \in Nat \ {0},
           NEW wm, NEW wj, NEW vm, NEW vj,
           NEW k \in 1 .. N, NEW o \in Nat, o + R <= E[k],
           Chain(wm, wj, L, N, E),
           \A i \in 1 .. L : vm[i] = wm[i] /\ vj[i] = wj[i],
           \A i \in L + 1 .. L + R : vm[i] = k /\ vj[i] = o + (i - L),
           L # 0 => Follows(E, wm[L], wj[L], k, o + 1)
    PROVE  Chain(vm, vj, L + R, N, E)
  <1>0. /\ \A i \in 1 .. L : wm[i] \in 1 .. N /\ wj[i] \in 1 .. E[wm[i]]
        /\ \A i \in 1 .. L : i < L => Follows(E, wm[i], wj[i], wm[i + 1], wj[i + 1])
        /\ \A i \in 1 .. L : \A l \in i .. L :
              wj[i] + (l - i) <= E[wm[i]] => wm[l] = wm[i] /\ wj[l] = wj[i] + (l - i)
    BY DEF Chain
  <1>1. ASSUME NEW i \in 1 .. L
        PROVE  /\ vm[i] \in 1 .. N /\ vj[i] \in 1 .. E[vm[i]]
               /\ i < L + R => Follows(E, vm[i], vj[i], vm[i + 1], vj[i + 1])
    <2>1. CASE i < L
      <3>1. i + 1 \in 1 .. L
        BY <2>1
      <3>2. vm[i + 1] = wm[i + 1] /\ vj[i + 1] = wj[i + 1] /\ vm[i] = wm[i] /\ vj[i] = wj[i]
        BY <3>1
      <3> QED BY <2>1, <3>2, <1>0
    <2>2. CASE i = L
      <3>1. vm[L + 1] = k /\ vj[L + 1] = o + 1 /\ vm[L] = wm[L] /\ vj[L] = wj[L]
        BY <2>2
      <3> QED BY <2>2, <3>1, <1>0
    <2> QED BY <2>1, <2>2
  <1>2. ASSUME NEW i \in 1 .. L, NEW l \in i .. L + R, vj[i] + (l - i) <= E[vm[i]]
        PROVE  vm[l] = vm[i] /\ vj[l] = vj[i] + (l - i)
    <2>0. wm[i] \in Nat /\ wj[i] \in Nat
      <3>1. wm[i] \in 1 .. N /\ wj[i] \in 1 .. E[wm[i]]
        BY <1>0
      <3>2. wm[i] \in Nat /\ E[wm[i]] \in Nat
        BY <3>1
      <3> QED BY <3>1, <3>2
    <2>1. PICK m \in Nat : m = wm[i]
      BY <2>0, Zenon
    <2>2. PICK j \in Nat : j = wj[i]
      BY <2>0, Zenon
    <2>3. PICK e \in Nat : e = E[m]
      BY <2>1, <1>0
    <2>4. vm[i] = m /\ vj[i] = j /\ j + (l - i) <= e
      BY <2>1, <2>2, <2>3, <1>2
    <2>5. \A h \in i .. L : j + (h - i) <= e => wm[h] = m /\ wj[h] = j + (h - i)
      BY <2>1, <2>2, <2>3, <1>0
    <2>6. CASE l <= L
      <3>1. wm[l] = m /\ wj[l] = j + (l - i)
        BY <2>4, <2>5, <2>6
      <3> QED BY <2>4, <2>6, <3>1
    <2>7. CASE l > L
      <3>1. j + (L - i) < e
        BY <2>4, <2>7
      <3>2. wm[L] = m /\ wj[L] = j + (L - i)
        BY <2>5, <3>1
      <3>3. k = m /\ o + 1 = j + (L - i) + 1
        BY <2>3, <3>1, <3>2 DEF Follows
      <3>4. vm[l] = k /\ vj[l] = o + (l - L)
        BY <2>7
      <3> QED BY <2>4, <3>3, <3>4
    <2> QED BY <2>6, <2>7
  <1>3. ASSUME NEW i \in L + 1 .. L + R
        PROVE  /\ vm[i] \in 1 .. N /\ vj[i] \in 1 .. E[vm[i]]
               /\ i < L + R => Follows(E, vm[i], vj[i], vm[i + 1], vj[i + 1])
               /\ \A l \in i .. L + R : vm[l] = vm[i] /\ vj[l] = vj[i] + (l - i)
    <2>1. vm[i] = k /\ vj[i] = o + (i - L)
      OBVIOUS
    <2>2. i < L + R => vm[i + 1] = k /\ vj[i + 1] = o + (i - L) + 1
      OBVIOUS
    <2>3. i < L + R => Follows(E, vm[i], vj[i], vm[i + 1], vj[i + 1])
      BY <2>1, <2>2 DEF Follows
    <2>4. \A l \in i .. L + R : vm[l] = k /\ vj[l] = o + (i - L) + (l - i)
      OBVIOUS
    <2> QED BY <2>1, <2>3, <2>4
  <1>4. ASSUME NEW i \in 1 .. L + R
        PROVE  /\ vm[i] \in 1 .. N /\ vj[i] \in 1 .. E[vm[i]]
               /\ i < L + R => Follows(E, vm[i], vj[i], vm[i + 1], vj[i + 1])
               /\ \A l \in i .. L + R :
                     vj[i] + (l - i) <= E[vm[i]] => vm[l] = vm[i] /\ vj[l] = vj[i] + (l - i)
    <2>1. CASE i <= L
      BY <2>1, <1>1, <1>2
    <2>2. CASE i > L
      BY <2>2, <1>3
    <2> QED BY <2>1, <2>2
  <1> QED BY <1>4 DEF Chain

(* The stretches of the module Framing are such stretches.                 *)
Msgs(w) == [i \in 1 .. Len(w) |-> w[i][1]]

Places(w) == [i \in 1 .. Len(w) |-> w[i][2]]

Ends(p) == [k \in 1 .. Len(p) |-> SizeLen + p[k]]

(* Every message has a last byte.                                          *)
LEMMA EndsOK ==
    ASSUME NEW p, p \in Seq(Sizes)
    PROVE  /\ Len(p) \in Nat /\ Ends(p) \in [1 .. Len(p) -> Nat]
           /\ \A k \in 1 .. Len(p) : /\ p[k] \in Nat \ {0}
                                     /\ Ends(p)[k] = SizeLen + p[k]
                                     /\ Ends(p)[k] > SizeLen
  <1>1. Len(p) \in Nat
    BY LenProperties
  <1>2. \A k \in 1 .. Len(p) : p[k] \in Nat \ {0}
    BY ElementOfSeq, FramingAssumption
  <1>3. \A k \in 1 .. Len(p) : SizeLen + p[k] \in Nat /\ SizeLen + p[k] > SizeLen
    BY <1>2, FramingAssumption
  <1> QED BY <1>1, <1>2, <1>3 DEF Ends

(* The byte after another, place by place.                                 *)
LEMMA AfterFollows ==
    ASSUME NEW p, NEW k \in 1 .. Len(p), NEW j, NEW m, NEW i
    PROVE  After(p, <<k, j>>) = <<m, i>> <=> Follows(Ends(p), k, j, m, i)
  BY DEF After, Follows, Ends

(* A byte is a pair.                                                       *)
LEMMA ByteOK ==
    ASSUME NEW w, w \in Seq(Byte), NEW i \in 1 .. Len(w)
    PROVE  /\ w[i] = <<w[i][1], w[i][2]>> /\ w[i][1] \in Nat /\ w[i][2] \in Nat
           /\ Msgs(w)[i] = w[i][1] /\ Places(w)[i] = w[i][2]
  BY ElementOfSeq DEF Byte, Msgs, Places

(* A stretch in terms of bytes and in terms of their places.               *)
LEMMA LinkedIsChain ==
    ASSUME NEW p, p \in Seq(Sizes), NEW w, w \in Seq(Byte)
    PROVE  Linked(p, w) <=> Chain(Msgs(w), Places(w), Len(w), Len(p), Ends(p))
  <1>1. \A i \in 1 .. Len(w) :
           /\ w[i] = <<Msgs(w)[i], Places(w)[i]>>
           /\ w[i][1] = Msgs(w)[i] /\ w[i][2] = Places(w)[i]
    BY ByteOK
  <1>2. ASSUME NEW i \in 1 .. Len(w), Msgs(w)[i] \in 1 .. Len(p), i < Len(w)
        PROVE  w[i + 1] = After(p, w[i]) <=>
                   Follows(Ends(p), Msgs(w)[i], Places(w)[i], Msgs(w)[i + 1], Places(w)[i + 1])
    <2>1. i + 1 \in 1 .. Len(w)
      BY <1>2, LenProperties
    <2>2. /\ w[i + 1] = <<Msgs(w)[i + 1], Places(w)[i + 1]>>
          /\ w[i] = <<Msgs(w)[i], Places(w)[i]>>
      BY <1>1, <2>1
    <2>3. After(p, <<Msgs(w)[i], Places(w)[i]>>) = <<Msgs(w)[i + 1], Places(w)[i + 1]>> <=>
                   Follows(Ends(p), Msgs(w)[i], Places(w)[i], Msgs(w)[i + 1], Places(w)[i + 1])
      BY <1>2, AfterFollows
    <2> QED BY <2>2, <2>3
  <1>3. ASSUME NEW i \in 1 .. Len(w), NEW l \in i .. Len(w)
        PROVE  w[l] = <<w[i][1], w[i][2] + (l - i)>> <=>
                   Msgs(w)[l] = Msgs(w)[i] /\ Places(w)[l] = Places(w)[i] + (l - i)
    <2>1. l \in 1 .. Len(w)
      BY LenProperties
    <2>2. w[l] = <<Msgs(w)[l], Places(w)[l]>>
      BY <1>1, <2>1
    <2> QED BY <1>1, <2>2
  <1>4. \A k \in 1 .. Len(p) : Ends(p)[k] = SizeLen + p[k]
    BY DEF Ends
  <1>5. ASSUME NEW i \in 1 .. Len(w), Msgs(w)[i] \in 1 .. Len(p)
        PROVE  /\ SizeLen + p[w[i][1]] = Ends(p)[Msgs(w)[i]]
               /\ (\A l \in i .. Len(w) :
                      w[i][2] + (l - i) <= SizeLen + p[w[i][1]] =>
                          w[l] = <<w[i][1], w[i][2] + (l - i)>>)
                  <=>
                  (\A l \in i .. Len(w) :
                      Places(w)[i] + (l - i) <= Ends(p)[Msgs(w)[i]] =>
                          Msgs(w)[l] = Msgs(w)[i] /\ Places(w)[l] = Places(w)[i] + (l - i))
    <2>1. w[i][1] = Msgs(w)[i] /\ w[i][2] = Places(w)[i]
      BY <1>1
    <2>2. SizeLen + p[w[i][1]] = Ends(p)[Msgs(w)[i]]
      BY <2>1, <1>4, <1>5
    <2>3. ASSUME NEW l \in i .. Len(w)
          PROVE  (w[i][2] + (l - i) <= SizeLen + p[w[i][1]] =>
                     w[l] = <<w[i][1], w[i][2] + (l - i)>>)
                 <=>
                 (Places(w)[i] + (l - i) <= Ends(p)[Msgs(w)[i]] =>
                     Msgs(w)[l] = Msgs(w)[i] /\ Places(w)[l] = Places(w)[i] + (l - i))
      BY <2>1, <2>2, <1>3
    <2> QED BY <2>2, <2>3, Zenon
  <1>6. CASE Linked(p, w)
    <2>1. ASSUME NEW i \in 1 .. Len(w)
          PROVE  /\ Msgs(w)[i] \in 1 .. Len(p)
                 /\ Places(w)[i] \in 1 .. SizeLen + p[w[i][1]]
                 /\ i < Len(w) => w[i + 1] = After(p, w[i])
                 /\ \A l \in i .. Len(w) :
                      w[i][2] + (l - i) <= SizeLen + p[w[i][1]] =>
                          w[l] = <<w[i][1], w[i][2] + (l - i)>>
      BY <1>1, <1>6, Zenon DEF Linked
    <2> QED BY <2>1, <1>2, <1>5, <1>6, Zenon DEF Chain
  <1>7. CASE Chain(Msgs(w), Places(w), Len(w), Len(p), Ends(p))
    <2>1. ASSUME NEW i \in 1 .. Len(w)
          PROVE  /\ Msgs(w)[i] \in 1 .. Len(p) /\ Places(w)[i] \in 1 .. Ends(p)[Msgs(w)[i]]
                 /\ i < Len(w) => Follows(Ends(p), Msgs(w)[i], Places(w)[i],
                                          Msgs(w)[i + 1], Places(w)[i + 1])
                 /\ \A l \in i .. Len(w) :
                      Places(w)[i] + (l - i) <= Ends(p)[Msgs(w)[i]] =>
                          Msgs(w)[l] = Msgs(w)[i] /\ Places(w)[l] = Places(w)[i] + (l - i)
      BY <1>7, Zenon DEF Chain
    <2>2. ASSUME NEW i \in 1 .. Len(w)
          PROVE  /\ w[i][1] \in 1 .. Len(p) /\ w[i][2] \in 1 .. SizeLen + p[w[i][1]]
                 /\ i < Len(w) => w[i + 1] = After(p, w[i])
                 /\ \A l \in i .. Len(w) :
                      w[i][2] + (l - i) <= SizeLen + p[w[i][1]] =>
                          w[l] = <<w[i][1], w[i][2] + (l - i)>>
      <3>1. w[i][1] \in 1 .. Len(p)
        BY <2>1, <1>1
      <3>2. w[i][2] \in 1 .. SizeLen + p[w[i][1]]
        BY <2>1, <1>1, <1>5
      <3>3. i < Len(w) => w[i + 1] = After(p, w[i])
        BY <2>1, <1>2
      <3>4. \A l \in i .. Len(w) :
                w[i][2] + (l - i) <= SizeLen + p[w[i][1]] =>
                    w[l] = <<w[i][1], w[i][2] + (l - i)>>
        BY <2>1, <1>5, Zenon
      <3> QED BY <3>1, <3>2, <3>3, <3>4
    <2> QED BY <2>2, <1>7, Zenon DEF Linked
  <1> QED BY <1>6, <1>7

(* The bytes r of message k, from byte o + 1 on, come after the stretch w. *)
Fits(p, w, r, k, o) ==
    /\ p \in Seq(Sizes) /\ w \in Seq(Byte) /\ Linked(p, w)
    /\ k \in 1 .. Len(p) /\ o \in Nat
    /\ r \in Seq(Byte) /\ Len(r) > 0 /\ o + Len(r) <= SizeLen + p[k]
    /\ \A j \in 1 .. Len(r) : r[j] = <<k, o + j>>
    /\ w # <<>> => After(p, w[Len(w)]) = <<k, o + 1>>

Prolonged(p, w, r, k, o) ==
    /\ w \o r \in Seq(Byte) /\ Linked(p, w \o r)
    /\ w \o r # <<>>
    /\ (w \o r)[1] = IF w = <<>> THEN <<k, o + 1>> ELSE w[1]
    /\ (w \o r)[Len(w \o r)] = <<k, o + Len(r)>>

(* Writing them prolongs the stretch.                                      *)
LEMMA RunLinked ==
    ASSUME NEW p, NEW w, NEW r, NEW k, NEW o, Fits(p, w, r, k, o)
    PROVE  Prolonged(p, w, r, k, o)
  <1>f. /\ p \in Seq(Sizes) /\ w \in Seq(Byte) /\ Linked(p, w)
        /\ k \in 1 .. Len(p) /\ o \in Nat
        /\ r \in Seq(Byte) /\ Len(r) > 0 /\ o + Len(r) <= SizeLen + p[k]
    BY DEF Fits
  <1>0. /\ \A j \in 1 .. Len(r) : r[j] = <<k, o + j>>
        /\ w # <<>> => After(p, w[Len(w)]) = <<k, o + 1>>
    BY DEF Fits
  <1>1. /\ w \o r \in Seq(Byte) /\ Len(w \o r) = Len(w) + Len(r)
        /\ \A i \in 1 .. Len(w) + Len(r) :
              (w \o r)[i] = IF i <= Len(w) THEN w[i] ELSE r[i - Len(w)]
    BY <1>f, ConcatProperties
  <1>2. Len(w) \in Nat /\ Len(r) \in Nat
    BY <1>f, LenProperties
  <1>3. \A i \in Len(w) + 1 .. Len(w) + Len(r) : (w \o r)[i] = <<k, o + (i - Len(w))>>
    <2> SUFFICES ASSUME NEW i \in Len(w) + 1 .. Len(w) + Len(r)
                 PROVE  (w \o r)[i] = <<k, o + (i - Len(w))>>
      OBVIOUS
    <2>1. i - Len(w) \in 1 .. Len(r) /\ i \in 1 .. Len(w) + Len(r) /\ ~(i <= Len(w))
      BY <1>2
    <2>2. (w \o r)[i] = r[i - Len(w)]
      BY <2>1, <1>1
    <2> QED BY <1>0, <2>1, <2>2
  <1>4. \A i \in 1 .. Len(w) : (w \o r)[i] = w[i]
    BY <1>1, <1>2
  <1>5. /\ \A i \in 1 .. Len(w) : /\ Msgs(w \o r)[i] = Msgs(w)[i]
                                  /\ Places(w \o r)[i] = Places(w)[i]
        /\ \A i \in Len(w) + 1 .. Len(w) + Len(r) :
              Msgs(w \o r)[i] = k /\ Places(w \o r)[i] = o + (i - Len(w))
    <2>1. \A i \in 1 .. Len(w) + Len(r) : /\ Msgs(w \o r)[i] = (w \o r)[i][1]
                                           /\ Places(w \o r)[i] = (w \o r)[i][2]
      BY <1>1, <1>f, ByteOK
    <2>2. \A i \in 1 .. Len(w) : Msgs(w)[i] = w[i][1] /\ Places(w)[i] = w[i][2]
      BY <1>f, ByteOK
    <2>3. \A i \in Len(w) + 1 .. Len(w) + Len(r) :
             i \in 1 .. Len(w) + Len(r) /\ (w \o r)[i][1] = k /\ (w \o r)[i][2] = o + (i - Len(w))
      <3> SUFFICES ASSUME NEW i \in Len(w) + 1 .. Len(w) + Len(r)
                   PROVE  /\ i \in 1 .. Len(w) + Len(r)
                          /\ (w \o r)[i][1] = k /\ (w \o r)[i][2] = o + (i - Len(w))
        OBVIOUS
      <3>1. (w \o r)[i] = <<k, o + (i - Len(w))>>
        BY <1>3
      <3>2. i \in 1 .. Len(w) + Len(r)
        BY <1>2
      <3> QED BY <3>1, <3>2
    <2>4. \A i \in 1 .. Len(w) : i \in 1 .. Len(w) + Len(r)
      BY <1>2
    <2>5. \A i \in 1 .. Len(w) : /\ Msgs(w \o r)[i] = Msgs(w)[i]
                                  /\ Places(w \o r)[i] = Places(w)[i]
      <3> TAKE i \in 1 .. Len(w)
      <3>1. i \in 1 .. Len(w) + Len(r)
        BY <2>4
      <3>2. Msgs(w \o r)[i] = (w \o r)[i][1] /\ Places(w \o r)[i] = (w \o r)[i][2]
        BY <3>1, <2>1, Zenon
      <3>3. (w \o r)[i] = w[i]
        BY <1>4, Zenon
      <3>4. Msgs(w)[i] = w[i][1] /\ Places(w)[i] = w[i][2]
        BY <2>2, Zenon
      <3> QED BY ONLY <3>2, <3>3, <3>4, Zenon
    <2>6. \A i \in Len(w) + 1 .. Len(w) + Len(r) :
             Msgs(w \o r)[i] = k /\ Places(w \o r)[i] = o + (i - Len(w))
      BY <2>1, <2>3, Zenon
    <2> QED BY <2>5, <2>6
  <1>6. Chain(Msgs(w), Places(w), Len(w), Len(p), Ends(p))
    BY <1>f, LinkedIsChain
  <1>7. Len(w) # 0 => Follows(Ends(p), Msgs(w)[Len(w)], Places(w)[Len(w)], k, o + 1)
    <2> HAVE Len(w) # 0
    <2>1. w # <<>> /\ Len(w) \in 1 .. Len(w)
      BY <1>2, EmptySeq
    <2>2. w[Len(w)] = <<Msgs(w)[Len(w)], Places(w)[Len(w)]>>
      BY <1>f, <2>1, ByteOK
    <2>3. Msgs(w)[Len(w)] \in 1 .. Len(p)
      BY <2>1, <1>6, Zenon DEF Chain
    <2>4. After(p, <<Msgs(w)[Len(w)], Places(w)[Len(w)]>>) = <<k, o + 1>>
      BY <1>0, <2>1, <2>2
    <2> QED BY <2>3, <2>4, AfterFollows
  <1>8. o + Len(r) <= Ends(p)[k] /\ Len(p) \in Nat /\ Ends(p) \in [1 .. Len(p) -> Nat]
    BY <1>f, EndsOK
  <1>9. Chain(Msgs(w \o r), Places(w \o r), Len(w) + Len(r), Len(p), Ends(p))
    <2> DEFINE N == Len(p)
               E == Ends(p)
               L == Len(w)
               R == Len(r)
               wm == Msgs(w)
               wj == Places(w)
               vm == Msgs(w \o r)
               vj == Places(w \o r)
    <2>1. N \in Nat /\ E \in [1 .. N -> Nat] /\ L \in Nat /\ R \in Nat \ {0}
      BY <1>2, <1>8, <1>f
    <2>2. k \in 1 .. N /\ o \in Nat /\ o + R <= E[k]
      BY <1>8, <1>f
    <2>3. Chain(wm, wj, L, N, E)
      BY <1>6
    <2>4. \A i \in 1 .. L : vm[i] = wm[i] /\ vj[i] = wj[i]
      BY <1>5
    <2>5. \A i \in L + 1 .. L + R : vm[i] = k /\ vj[i] = o + (i - L)
      BY <1>5
    <2>6. L # 0 => Follows(E, wm[L], wj[L], k, o + 1)
      BY <1>7
    <2> HIDE DEF N, E, L, R, wm, wj, vm, vj
    <2>7. Chain(vm, vj, L + R, N, E)
      BY ONLY <2>1, <2>2, <2>3, <2>4, <2>5, <2>6, RunChained
    <2> QED BY <2>7 DEF N, E, L, R, wm, wj, vm, vj
  <1>10. Linked(p, w \o r)
    BY <1>1, <1>9, <1>f, LinkedIsChain
  <1>11. Len(w \o r) \in Nat \ {0}
    BY <1>1, <1>2, <1>f
  <1>12. w \o r # <<>>
    BY <1>11, EmptySeq
  <1>13. (w \o r)[1] = IF w = <<>> THEN <<k, o + 1>> ELSE w[1]
    <2>1. CASE w = <<>>
      <3>1. Len(w) = 0
        BY <2>1, EmptySeq
      <3>2. 1 \in Len(w) + 1 .. Len(w) + Len(r) /\ 1 - Len(w) = 1
        BY <3>1, <1>2, <1>f
      <3>3. (w \o r)[1] = <<k, o + (1 - Len(w))>>
        BY <3>2, <1>3
      <3> QED BY <2>1, <3>2, <3>3
    <2>2. CASE w # <<>>
      <3>1. 1 \in 1 .. Len(w)
        BY <2>2, <1>2, <1>f, EmptySeq
      <3> QED BY <2>2, <3>1, <1>4
    <2> QED BY <2>1, <2>2
  <1>14. (w \o r)[Len(w \o r)] = <<k, o + Len(r)>>
    <2>1. /\ Len(w) + Len(r) \in Len(w) + 1 .. Len(w) + Len(r)
          /\ (Len(w) + Len(r)) - Len(w) = Len(r)
      BY <1>2, <1>f
    <2>2. (w \o r)[Len(w) + Len(r)] = <<k, o + ((Len(w) + Len(r)) - Len(w))>>
      BY <1>3, <2>1
    <2> QED BY <1>1, <2>1, <2>2
  <1> QED BY <1>1, <1>10, <1>12, <1>13, <1>14 DEF Prolonged

(* What is left of a stretch when its first n bytes have been read, or all *)
(* but its first n bytes are lost, is a stretch.                           *)
LEMMA SubLinked ==
    ASSUME NEW p, p \in Seq(Sizes), NEW w, w \in Seq(Byte), Linked(p, w),
           NEW a \in Nat, NEW b \in Nat, b <= Len(w)
    PROVE  SubSeq(w, a + 1, b) \in Seq(Byte) /\ Linked(p, SubSeq(w, a + 1, b))
  <1> DEFINE u == SubSeq(w, a + 1, b)
  <1>1. Len(w) \in Nat
    BY LenProperties
  <1>2. /\ u \in Seq(Byte)
        /\ Len(u) = IF a + 1 <= b THEN b - a ELSE 0
        /\ \A i \in 1 .. Len(u) : u[i] = w[a + i] /\ a + i \in 1 .. Len(w)
    <2>1. \A i \in a + 1 .. b : w[i] \in Byte
      BY <1>1, ElementOfSeq
    <2>2. /\ u \in Seq(Byte)
          /\ Len(u) = IF a + 1 <= b THEN b - (a + 1) + 1 ELSE 0
          /\ \A i \in 1 .. b - (a + 1) + 1 : u[i] = w[(a + 1) + i - 1]
      BY <2>1, SubSeqProperties
    <2> QED BY <2>2, <1>1
  <1>3. Len(u) \in Nat
    BY <1>2
  <1> HIDE DEF u
  <1>4. ASSUME NEW i \in 1 .. Len(u)
        PROVE  /\ u[i][1] \in 1 .. Len(p)
               /\ u[i][2] \in 1 .. SizeLen + p[u[i][1]]
    BY <1>2, Zenon DEF Linked
  <1>5. ASSUME NEW i \in 1 .. Len(u), i < Len(u)
        PROVE  u[i + 1] = After(p, u[i])
    <2>1. a + i < Len(w) /\ i + 1 \in 1 .. Len(u) /\ a + (i + 1) = (a + i) + 1
      BY <1>1, <1>2, <1>3, <1>5
    <2>2. u[i] = w[a + i] /\ u[i + 1] = w[(a + i) + 1] /\ a + i \in 1 .. Len(w)
      BY <2>1, <1>2
    <2>3. w[(a + i) + 1] = After(p, w[a + i])
      BY <2>1, <2>2, Zenon DEF Linked
    <2> QED BY <2>2, <2>3
  <1>6. ASSUME NEW i \in 1 .. Len(u), NEW l \in i .. Len(u),
               u[i][2] + (l - i) <= SizeLen + p[u[i][1]]
        PROVE  u[l] = <<u[i][1], u[i][2] + (l - i)>>
    <2>1. l \in 1 .. Len(u) /\ a + l \in a + i .. Len(w) /\ (a + l) - (a + i) = l - i
      BY <1>1, <1>2, <1>3
    <2>2. u[i] = w[a + i] /\ u[l] = w[a + l] /\ a + i \in 1 .. Len(w)
      BY <2>1, <1>2
    <2>3. w[a + i][2] + ((a + l) - (a + i)) <= SizeLen + p[w[a + i][1]] =>
             w[a + l] = <<w[a + i][1], w[a + i][2] + ((a + l) - (a + i))>>
      BY <2>1, <2>2, Zenon DEF Linked
    <2> QED BY <2>1, <2>2, <2>3, <1>6
  <1>7. Linked(p, u)
    BY <1>4, <1>5, <1>6, Zenon DEF Linked
  <1> QED BY <1>2, <1>7 DEF u

(* One more message changes nothing for the bytes of those before it.      *)
LEMMA GrowLinked ==
    ASSUME NEW p, p \in Seq(Sizes), NEW s \in Sizes,
           NEW w, w \in Seq(Byte), Linked(p, w)
    PROVE  /\ Append(p, s) \in Seq(Sizes) /\ Len(Append(p, s)) = Len(p) + 1
           /\ \A k \in 1 .. Len(p) : k \in 1 .. Len(p) + 1 /\ Append(p, s)[k] = p[k]
           /\ Linked(Append(p, s), w)
           /\ w # <<>> => After(Append(p, s), w[Len(w)]) = After(p, w[Len(w)])
  <1> DEFINE q == Append(p, s)
  <1>1. /\ q \in Seq(Sizes) /\ Len(q) = Len(p) + 1 /\ Len(p) \in Nat
        /\ \A k \in 1 .. Len(p) : k \in 1 .. Len(q) /\ q[k] = p[k]
    BY AppendProperties, LenProperties
  <1> HIDE DEF q
  <1>2. ASSUME NEW i \in 1 .. Len(w)
        PROVE  /\ w[i][1] \in 1 .. Len(p)
               /\ w[i][1] \in 1 .. Len(q)
               /\ q[w[i][1]] = p[w[i][1]]
               /\ After(q, w[i]) = After(p, w[i])
    <2>1. w[i][1] \in 1 .. Len(p)
      BY Zenon DEF Linked
    <2>2. q[w[i][1]] = p[w[i][1]]
      BY <2>1, <1>1
    <2> QED BY <2>1, <2>2, <1>1 DEF After
  <1>3. Linked(q, w)
    <2>1. ASSUME NEW i \in 1 .. Len(w)
          PROVE  /\ w[i][2] \in 1 .. SizeLen + q[w[i][1]]
                 /\ i < Len(w) => w[i + 1] = After(q, w[i])
                 /\ \A l \in i .. Len(w) :
                      w[i][2] + (l - i) <= SizeLen + q[w[i][1]] =>
                          w[l] = <<w[i][1], w[i][2] + (l - i)>>
      <3>1. /\ w[i][2] \in 1 .. SizeLen + p[w[i][1]]
            /\ i < Len(w) => w[i + 1] = After(p, w[i])
            /\ \A l \in i .. Len(w) :
                 w[i][2] + (l - i) <= SizeLen + p[w[i][1]] =>
                     w[l] = <<w[i][1], w[i][2] + (l - i)>>
        BY Zenon DEF Linked
      <3> QED BY <3>1, <1>2, Zenon
    <2> QED BY <1>2, <2>1, Zenon DEF Linked
  <1>4. ASSUME w # <<>>
        PROVE  After(q, w[Len(w)]) = After(p, w[Len(w)])
    <2>1. Len(w) \in 1 .. Len(w)
      BY <1>4, EmptySeq, LenProperties
    <2> QED BY <2>1, <1>2
  <1> QED BY <1>1, <1>3, <1>4 DEF q

-----------------------------------------------------------------------------
(* Types, whatever fails.                                                  *)

Trying == sender \in {"size", "data"} => posted # <<>> /\ tries < Tries

FTypeInv == TypeOK /\ Trying

(* The first bytes of a stretch, and the rest of it.                       *)
LEMMA SubSeqOK ==
    ASSUME NEW w, w \in Seq(Byte), NEW a \in Nat, NEW b \in Nat, b <= Len(w)
    PROVE  /\ SubSeq(w, a + 1, b) \in Seq(Byte)
           /\ Len(SubSeq(w, a + 1, b)) = IF a < b THEN b - a ELSE 0
           /\ \A i \in 1 .. b - a : SubSeq(w, a + 1, b)[i] = w[a + i]
  <1>1. Len(w) \in Nat
    BY LenProperties
  <1>2. \A i \in a + 1 .. b : w[i] \in Byte
    BY <1>1, ElementOfSeq
  <1>3. /\ SubSeq(w, a + 1, b) \in Seq(Byte)
        /\ Len(SubSeq(w, a + 1, b)) = IF a + 1 <= b THEN b - (a + 1) + 1 ELSE 0
        /\ \A i \in 1 .. b - (a + 1) + 1 : SubSeq(w, a + 1, b)[i] = w[(a + 1) + i - 1]
    BY <1>2, SubSeqProperties
  <1> QED BY <1>3

(* What write() can leave on the connection.                               *)
LEMMA WriteType ==
    ASSUME NEW bytes, bytes \in Seq(Byte), NEW positive \in BOOLEAN, TypeOK,
           Write(bytes, positive)
    PROVE  /\ wire' \in Seq(Byte)
           /\ errno' \in {"none", "EPIPE", "other"}
           /\ sockError' \subseteq {"sender", "receiver"}
  <1> USE DEF TypeOK, Byte
  <1>1. CASE Written(bytes)
    BY <1>1, ConcatProperties DEF Written, Reach
  <1>2. CASE WrittenInPart(bytes)
    <2>1. PICK n \in 1 .. Len(bytes) - 1 : wire' = Reach(SubSeq(bytes, 1, n))
      BY <1>2 DEF WrittenInPart
    <2>2. Len(bytes) \in Nat /\ n \in Nat /\ n <= Len(bytes) /\ 0 + 1 = 1
      BY LenProperties
    <2>3. SubSeq(bytes, 1, n) \in Seq(Byte)
      BY <2>2, SubSeqOK
    <2> QED BY <1>2, <2>1, <2>3, ConcatProperties DEF Reach, WrittenInPart
  <1>3. CASE WriteFails
    BY <1>3 DEF WriteFails
  <1> QED BY <1>1, <1>2, <1>3 DEF Write

(* What read() takes, and what it leaves.                                  *)
LEMMA ReadType ==
    ASSUME TypeOK, NEW n \in 1 .. Len(wire), Read(n)
    PROVE  /\ wire' \in Seq(Byte) /\ Filled(n) \in Seq(Byte)
           /\ Len(Filled(n)) = Len(buffer) + n
           /\ \A i \in 1 .. Len(buffer) : Filled(n)[i] = buffer[i]
           /\ \A i \in 1 .. n : Filled(n)[Len(buffer) + i] = wire[i]
  <1>1. wire \in Seq(Byte) /\ buffer \in Seq(Byte)
    BY DEF TypeOK, Byte
  <1>2. Len(wire) \in Nat /\ Len(buffer) \in Nat /\ n \in Nat \ {0} /\ n <= Len(wire) /\ 0 + 1 = 1
    BY <1>1, LenProperties
  <1>3. wire' \in Seq(Byte)
    BY <1>1, <1>2, SubSeqOK DEF Read
  <1>4. /\ SubSeq(wire, 1, n) \in Seq(Byte) /\ Len(SubSeq(wire, 1, n)) = n
        /\ \A i \in 1 .. n : SubSeq(wire, 1, n)[i] = wire[i]
    <2>1. /\ SubSeq(wire, 0 + 1, n) \in Seq(Byte)
          /\ Len(SubSeq(wire, 0 + 1, n)) = IF 0 < n THEN n - 0 ELSE 0
          /\ \A i \in 1 .. n - 0 : SubSeq(wire, 0 + 1, n)[i] = wire[0 + i]
      BY <1>1, <1>2, SubSeqOK
    <2> QED BY <2>1, <1>2
  <1>5. /\ Filled(n) \in Seq(Byte) /\ Len(Filled(n)) = Len(buffer) + n
        /\ \A i \in 1 .. Len(buffer) + n :
              Filled(n)[i] = IF i <= Len(buffer) THEN buffer[i]
                             ELSE SubSeq(wire, 1, n)[i - Len(buffer)]
    BY <1>1, <1>4, ConcatProperties DEF Filled
  <1>6. \A i \in 1 .. Len(buffer) : Filled(n)[i] = buffer[i]
    BY <1>2, <1>5
  <1>7. \A i \in 1 .. n : Filled(n)[Len(buffer) + i] = wire[i]
    <2> TAKE i \in 1 .. n
    <2>1. /\ Len(buffer) + i \in 1 .. Len(buffer) + n
          /\ ~(Len(buffer) + i <= Len(buffer))
          /\ (Len(buffer) + i) - Len(buffer) = i
      BY <1>2
    <2> QED BY <2>1, <1>4, <1>5
  <1> QED BY <1>3, <1>5, <1>6, <1>7

(* The types hold in the beginning.                                        *)
LEMMA FTypeInit == Init => FTypeInv
  <1> SUFFICES ASSUME Init PROVE FTypeInv
    OBVIOUS
  <1>1. /\ posted \in Seq(Sizes) /\ wire \in Seq(Nat \X Nat) /\ buffer \in Seq(Nat \X Nat)
        /\ delivered \in Seq(Seq(Nat \X Nat))
    BY EmptySeq DEF Init
  <1>2. tries \in 0 .. Tries
    BY FramingAssumption DEF Init
  <1> QED BY <1>1, <1>2 DEF Init, FTypeInv, TypeOK, Trying

(* A new message keeps them.                                               *)
LEMMA BeginType ==
    ASSUME FTypeInv, NEW s \in Sizes, Begin(s), signals' \in Nat
    PROVE  FTypeInv'
  <1>1. posted' \in Seq(Sizes) /\ posted' # <<>>
    <2>1. posted \in Seq(Sizes) /\ posted' = Append(posted, s)
      BY DEF Begin, FTypeInv, TypeOK
    <2> QED BY ONLY <2>1, s \in Sizes, AppendProperties
  <1>2. tries' = 0 /\ 0 \in 0 .. Tries /\ 0 < Tries /\ sender' = "size"
    BY FramingAssumption DEF Begin
  <1>3. UNCHANGED <<first, errno, wire, sockError, recvVars>>
    BY DEF Begin
  <1> QED BY <1>1, <1>2, <1>3 DEF FTypeInv, TypeOK, Trying, recvVars, partVars

(* The steps of basesend() keep them.                                      *)
LEMMA SenderType ==
    ASSUME FTypeInv, SenderStep
    PROVE  FTypeInv'
  <1>1. TypeOK /\ posted \in Seq(Sizes) /\ posted # <<>> /\ Current \in 1 .. Len(posted)
        /\ tries \in Nat /\ Tries \in Nat /\ tries < Tries
    BY EmptySeq, LenProperties, FramingAssumption
       DEF FTypeInv, TypeOK, Trying, SenderStep, WriteSize, WriteData, Current
  <1>2. SizeBytes(Current) \in Seq(Byte) /\ DataBytes(Current) \in Seq(Byte)
    <2>1. Current \in Nat
      BY <1>1, LenProperties
    <2> QED BY <1>1, <2>1, SizeBytesOK, DataBytesOK
  <1>3. CASE WriteSize
    <2>1. PICK positive \in BOOLEAN : Write(SizeBytes(Current), positive) /\ first' = positive
      BY <1>3 DEF WriteSize
    <2>2. /\ wire' \in Seq(Byte) /\ errno' \in {"none", "EPIPE", "other"}
          /\ sockError' \subseteq {"sender", "receiver"}
      BY <1>1, <1>2, <2>1, WriteType
    <2>3. sender' = "data" /\ first' \in BOOLEAN /\ UNCHANGED <<posted, tries, signals, recvVars>>
      BY <1>3, <2>1 DEF WriteSize
    <2> QED BY <1>1, <2>2, <2>3 DEF FTypeInv, TypeOK, Trying, Byte, recvVars, partVars
  <1>4. CASE WriteData
    <2>1. PICK positive \in BOOLEAN :
            /\ Write(DataBytes(Current), positive)
            /\ IF (first /\ positive) \/ errno' = "EPIPE"
                 THEN sender' = "idle" /\ UNCHANGED tries
                 ELSE TryAgain
      BY <1>4 DEF WriteData
    <2>2. /\ wire' \in Seq(Byte) /\ errno' \in {"none", "EPIPE", "other"}
          /\ sockError' \subseteq {"sender", "receiver"}
      BY <1>1, <1>2, <2>1, WriteType
    <2>3. \/ sender' = "idle" /\ tries' = tries
          \/ sender' = "size" /\ tries' = tries + 1 /\ tries + 1 < Tries
          \/ sender' = "thrown" /\ tries' = tries + 1
      BY <2>1 DEF TryAgain
    <2>4. UNCHANGED <<posted, first, signals, recvVars>>
      BY <1>4 DEF WriteData
    <2>5. tries' \in 0 .. Tries /\ sender' \in {"idle", "size", "thrown"}
          /\ (sender' = "size" => tries' < Tries)
      BY <1>1, <2>3
    <2> QED BY <1>1, <2>2, <2>4, <2>5 DEF FTypeInv, TypeOK, Trying, Byte, recvVars, partVars
  <1> QED BY <1>3, <1>4 DEF SenderStep

(* Reading bytes keeps them.                                               *)
LEMMA ReadingType ==
    ASSUME FTypeInv, NEW n \in 1 .. Len(wire), ReadPart(n) \/ ReadSize(n) \/ ReadData(n)
    PROVE  FTypeInv'
  <1>1. Read(n)
    BY DEF ReadPart, ReadSize, ReadData
  <1>2. wire' \in Seq(Byte) /\ Filled(n) \in Seq(Byte) /\ TypeOK
    BY <1>1, ReadType DEF FTypeInv
  <1>3. UNCHANGED <<sendVars, sockError, portClosed, open>>
    BY <1>1 DEF Read
  <1>4. <<>> \in Seq(Byte)
    BY EmptySeq
  <1>5. /\ recvdata' \in BOOLEAN /\ recvsize' \in Nat
        /\ buffer' \in Seq(Byte)
        /\ rv' \in BOOLEAN /\ delivered' \in Seq(Seq(Byte))
    <2>1. CASE ReadPart(n)
      BY <1>2, <2>1 DEF ReadPart, TypeOK, Byte
    <2>2. CASE ReadSize(n)
      <3>1. \A k \in 1 .. Len(posted) : posted[k] \in Nat
        BY <1>2, DataBytesOK DEF TypeOK
      <3> QED BY <1>2, <1>4, <2>2, <3>1, FramingAssumption DEF ReadSize, TypeOK, Byte
    <2>3. CASE ReadData(n)
      BY <1>2, <1>4, <2>3, AppendProperties DEF ReadData, TypeOK, Byte
    <2> QED BY <2>1, <2>2, <2>3
  <1> QED BY <1>2, <1>3, <1>5 DEF FTypeInv, TypeOK, Trying, Byte, sendVars

(* The end of a connection keeps them.                                     *)
LEMMA EndType ==
    ASSUME FTypeInv, \/ SenderGone \/ SenderResets
                     \/ ReadNothing \/ ReadError \/ ReadInterrupted \/ ReceiverGone
    PROVE  FTypeInv'
  <1>0. <<>> \in Seq(Byte) /\ wire \in Seq(Byte)
    BY EmptySeq DEF FTypeInv, TypeOK, Byte
  <1>1. CASE SenderGone
    BY <1>1 DEF SenderGone, FTypeInv, TypeOK, Trying, recvVars, partVars
  <1>2. CASE SenderResets
    <2>1. PICK n \in 0 .. Len(wire) : wire' = SubSeq(wire, 1, n)
      BY <1>2 DEF SenderResets
    <2>2. n \in Nat /\ n <= Len(wire) /\ 0 + 1 = 1
      BY <1>0, LenProperties
    <2>3. wire' \in Seq(Byte)
      BY <1>0, <2>1, <2>2, SubSeqOK
    <2> QED BY <1>2, <2>3 DEF SenderResets, FTypeInv, TypeOK, Trying, recvVars, partVars, Byte
  <1>3. ASSUME Break \/ (CloseEnd /\ UNCHANGED <<sendVars, partVars, rv, delivered>>),
               portClosed' \in BOOLEAN
        PROVE  FTypeInv'
    BY <1>0, <1>3 DEF Break, CloseEnd, FTypeInv, TypeOK, Trying, sendVars, partVars, Byte
  <1>4. CASE ReadNothing \/ ReadError \/ ReadInterrupted
    BY <1>3, <1>4 DEF ReadNothing, ReadError, ReadInterrupted, FTypeInv, TypeOK
  <1>5. CASE ReceiverGone
    BY <1>3, <1>5 DEF ReceiverGone, FTypeInv, TypeOK
  <1> QED BY <1>1, <1>2, <1>4, <1>5

(* Every step keeps the types.                                             *)
LEMMA FTypeStep == FTypeInv /\ [Next]_vars => FTypeInv'
  <1> SUFFICES ASSUME FTypeInv, [Next]_vars PROVE FTypeInv'
    OBVIOUS
  <1>1. CASE \E s \in Sizes : Send(s)
    <2>1. PICK s \in Sizes : Send(s)
      BY <1>1
    <2>2. Begin(s) /\ signals' \in Nat
      BY <2>1 DEF Send, FTypeInv, TypeOK
    <2> QED BY <2>2, BeginType
  <1>2. CASE Interrupt
    <2>1. Begin(KillSize) /\ signals' \in Nat /\ KillSize \in Sizes
      BY <1>2, FramingAssumption DEF Interrupt, FTypeInv, TypeOK
    <2> QED BY <2>1, BeginType
  <1>3. CASE SenderStep
    BY <1>3, SenderType
  <1>4. CASE ReceiverStep
    BY <1>4, ReadingType, EndType DEF ReceiverStep
  <1>5. CASE SenderGone \/ SenderResets \/ ReadInterrupted \/ ReceiverGone
    BY <1>5, EndType
  <1>6. CASE UNCHANGED vars
    BY <1>6 DEF FTypeInv, TypeOK, Trying, vars, sendVars, recvVars, partVars
  <1> QED BY <1>1, <1>2, <1>3, <1>4, <1>5, <1>6 DEF Next

(* The types of the connection, of basesend() and of TCPReceiver hold with *)
(* every number of messages, signals and attempts, and whatever write()    *)
(* and read() do.                                                          *)
THEOREM FramingTypeCorrect == Spec => []TypeOK
  <1>1. FTypeInv => TypeOK
    BY DEF FTypeInv
  <1> QED BY <1>1, FTypeInit, FTypeStep, PTL DEF Spec

-----------------------------------------------------------------------------
(* The two ends are in step.                                               *)

FInv == TypeOK /\ InStep

(* The message that the receiver is at, and the byte of it that it has     *)
(* reached after n more of them.                                           *)
AtMsg == Len(delivered) + 1

Offset == IF recvdata THEN SizeLen ELSE 0

Reached(n) == Offset + Len(buffer) + n

(* The bytes that read() takes are the next ones of the message that the   *)
(* receiver is at, and what it leaves starts with the byte after them.     *)
LEMMA HeadRead ==
    ASSUME FInv, open, NEW n, n \in 1 .. Len(wire), Read(n)
    PROVE  /\ AtMsg \in 1 .. Len(posted) /\ Reached(n) \in Nat
           /\ Reached(n) <= SizeLen + (IF recvdata THEN posted[AtMsg] ELSE 0)
           /\ \A i \in 1 .. Len(buffer) + n : Filled(n)[i] = <<AtMsg, Offset + i>>
           /\ Linked(posted, wire')
           /\ wire' # <<>> => wire'[1] = After(posted, <<AtMsg, Reached(n)>>)
           /\ sender \in {"idle", "size", "data"} =>
                 There = IF wire' = <<>> THEN After(posted, <<AtMsg, Reached(n)>>)
                         ELSE After(posted, wire'[Len(wire')])
  <1>0. PICK d, t : d = AtMsg /\ t = Reached(n)
    OBVIOUS
  <1>d. d = Len(delivered) + 1
    BY <1>0 DEF AtMsg
  <1>t. t = Offset + Len(buffer) + n
    BY <1>0 DEF Reached
  <1>1. /\ TypeOK /\ posted \in Seq(Sizes) /\ wire \in Seq(Byte) /\ buffer \in Seq(Byte)
        /\ Len(wire) \in Nat /\ Len(buffer) \in Nat /\ Len(delivered) \in Nat /\ Offset \in Nat
        /\ SizeLen \in Nat
    BY FramingAssumption, LenProperties DEF FInv, TypeOK, Byte, Offset
  <1>2. /\ Linked(posted, wire)
        /\ wire # <<>> => wire[1] = Here
        /\ sender \in {"idle", "size", "data"} =>
              There = IF wire = <<>> THEN Here ELSE After(posted, wire[Len(wire)])
        /\ recvdata => recvsize = posted[d]
        /\ \A i \in 1 .. Len(buffer) : buffer[i] = <<d, Offset + i>>
    BY <1>d DEF FInv, InStep, WireInStep, BufferInStep, Offset
  <1>3. n \in Nat \ {0} /\ n <= Len(wire) /\ wire # <<>> /\ t \in Nat
    BY <1>1, <1>t, EmptySeq
  <1>f. PICK f \in Nat : f = Offset + Len(buffer)
    BY <1>1
  <1>4. d = wire[1][1] /\ wire[1][2] = f + 1 /\ t = f + n
    <2>1. wire[1] = Here
      BY <1>2, <1>3
    <2>2. t = f + n
      BY <1>1, <1>f, <1>t
    <2>3. Here = <<d, f + 1>>
      BY <1>1, <1>d, <1>f DEF Here, Offset
    <2> QED BY <2>1, <2>2, <2>3
  <1>5. d \in 1 .. Len(posted)
    <2>1. 1 \in 1 .. Len(wire)
      BY <1>1, <1>3
    <2> QED BY <1>2, <1>4, <2>1, Zenon DEF Linked
  <1>6. PICK e \in Nat : e = posted[d]
    BY <1>1, <1>5, DataBytesOK
  <1>7. t <= SizeLen + (IF recvdata THEN e ELSE 0)
    <2>1. n <= Wanted
      BY DEF Read
    <2>n. PICK l \in Nat : l = Len(buffer)
      BY <1>1
    <2>2. CASE recvdata
      <3>1. Wanted = e - Len(buffer) /\ Offset = SizeLen
        BY <1>2, <1>6, <2>2 DEF Wanted, Offset
      <3>2. n <= e - l /\ t = SizeLen + l + n /\ SizeLen \in Nat /\ n \in Nat
        BY ONLY <1>1, <1>3, <1>t, <2>1, <2>n, <3>1
      <3>3. t <= SizeLen + e
        BY ONLY <1>6, <2>n, <3>2, e \in Nat, l \in Nat
      <3> QED BY <2>2, <3>3
    <2>3. CASE ~recvdata
      <3>1. Wanted = SizeLen - Len(buffer) /\ Offset = 0
        BY <2>3 DEF Wanted, Offset
      <3>2. n <= SizeLen - l /\ t = 0 + l + n /\ SizeLen \in Nat /\ n \in Nat
        BY ONLY <1>1, <1>3, <1>t, <2>1, <2>n, <3>1
      <3>3. t <= SizeLen + 0
        BY ONLY <2>n, <3>2, l \in Nat
      <3> QED BY <2>3, <3>3
    <2> QED BY <2>2, <2>3
  <1>8. t <= SizeLen + posted[d]
    <2>1. t <= SizeLen + e
      BY <1>1, <1>3, <1>7
    <2> QED BY <1>6, <2>1
  <1>9. \A i \in 1 .. n : wire[i] = <<d, f + i>>
    <2> TAKE i \in 1 .. n
    <2>0. i \in Nat /\ 1 <= i /\ i <= n /\ f + n <= SizeLen + e
      BY <1>3, <1>4, <1>6, <1>8
    <2>1. 1 \in 1 .. Len(wire) /\ i \in 1 .. Len(wire)
          /\ (f + 1) + (i - 1) = f + i /\ f + i <= SizeLen + e
      BY <1>1, <1>3, <2>0
    <2>2. \A l \in 1 .. Len(wire) :
             wire[1][2] + (l - 1) <= SizeLen + posted[wire[1][1]] =>
                 wire[l] = <<wire[1][1], wire[1][2] + (l - 1)>>
      BY <1>2, <2>1, Zenon DEF Linked
    <2>3. wire[i] = <<d, (f + 1) + (i - 1)>>
      BY <1>4, <1>6, <2>1, <2>2
    <2> QED BY <2>1, <2>3
  <1>15. n < Len(wire) => wire[n + 1] = After(posted, <<d, t>>)
    <2>1. n < Len(wire) => wire[n + 1] = After(posted, wire[n])
      BY <1>2, Zenon DEF Linked
    <2>2. wire[n] = <<d, t>>
      BY <1>3, <1>4, <1>9
    <2> QED BY <2>1, <2>2
  <1>10. \A i \in 1 .. Len(buffer) + n : Filled(n)[i] = <<d, Offset + i>>
    <2> TAKE i \in 1 .. Len(buffer) + n
    <2>1. CASE i <= Len(buffer)
      <3>1. i \in 1 .. Len(buffer)
        BY <1>1, <2>1
      <3>2. Filled(n)[i] = buffer[i]
        BY <1>1, <3>1, ReadType
      <3> QED BY <1>2, <3>1, <3>2
    <2>2. CASE ~(i <= Len(buffer))
      <3>1. PICK h \in 1 .. n : i = Len(buffer) + h
        <4>1. i - Len(buffer) \in 1 .. n /\ i = Len(buffer) + (i - Len(buffer))
          BY <1>1, <2>2
        <4> QED BY <4>1
      <3>2. Filled(n)[i] = wire[h]
        BY <1>1, <3>1, ReadType
      <3>4. wire[h] = <<d, f + h>>
        BY <1>9
      <3>5. f + h = Offset + i
        BY <1>1, <1>f, <3>1
      <3> QED BY <3>2, <3>4, <3>5
    <2> QED BY <2>1, <2>2
  <1>11. /\ wire' = SubSeq(wire, n + 1, Len(wire)) /\ wire' \in Seq(Byte)
         /\ Len(wire') = IF n < Len(wire) THEN Len(wire) - n ELSE 0
         /\ \A i \in 1 .. Len(wire) - n : wire'[i] = wire[n + i]
    BY <1>1, <1>3, SubSeqOK DEF Read
  <1>12. Linked(posted, wire')
    BY <1>1, <1>2, <1>3, <1>11, SubLinked
  <1>13. CASE n < Len(wire)
    <2>0. PICK r \in Nat \ {0} : Len(wire) - n = r
      <3>1. Len(wire) - n \in Nat \ {0}
        BY <1>1, <1>3, <1>13
      <3> QED BY <3>1
    <2>1. wire' # <<>> /\ Len(wire') = r
      BY <1>11, <1>13, <2>0, EmptySeq
    <2>2. wire'[1] = wire[n + 1]
      <3>1. 1 \in 1 .. Len(wire) - n
        BY <1>1, <1>3, <2>0
      <3> QED BY <1>11, <3>1
    <2>3. wire'[Len(wire')] = wire[Len(wire)]
      <3>1. wire'[r] = wire[n + r] /\ n + r = Len(wire)
        BY <1>1, <1>3, <1>11, <2>0
      <3> QED BY <2>1, <3>1
    <2> QED
      BY <1>0, <1>2, <1>3, <1>4, <1>5, <1>6, <1>7, <1>10, <1>12, <1>13, <1>15, <2>1, <2>2, <2>3
  <1>14. CASE n = Len(wire)
    <2>1. wire' = <<>>
      BY <1>1, <1>11, <1>14, EmptySeq
    <2>2. wire[n] = <<d, t>>
      BY <1>3, <1>4, <1>9
    <2> QED BY <1>0, <1>2, <1>3, <1>5, <1>6, <1>7, <1>10, <1>12, <1>14, <2>1, <2>2
  <1> QED BY <1>1, <1>3, <1>13, <1>14

(* The two ends are in step in the beginning.                              *)
LEMMA InStepInit == Init => InStep
  <1> SUFFICES ASSUME Init PROVE InStep
    OBVIOUS
  <1>1. PacketsAreMessages
    BY DEF Init, PacketsAreMessages
  <1>2. NoRetry
    BY DEF Init, NoRetry
  <1>3. WireInStep
    BY DEF Init, WireInStep, Linked, There, Here, Current
  <1>4. BufferInStep
    BY FramingAssumption DEF Init, BufferInStep
  <1> QED BY <1>1, <1>2, <1>3, <1>4 DEF InStep

(* A message more leaves them in step.                                     *)
LEMMA SendInStep ==
    ASSUME FInv, NEW s \in Sizes, Send(s)
    PROVE  InStep'
  <1>1. /\ posted' = Append(posted, s) /\ sender = "idle" /\ sender' = "size" /\ tries' = 0
        /\ UNCHANGED <<first, errno, wire, sockError>>
        /\ UNCHANGED <<recvdata, recvsize, buffer, rv, portClosed, open, delivered>>
    BY DEF Send, Begin, recvVars, partVars
  <1>2. posted \in Seq(Sizes) /\ wire \in Seq(Byte) /\ Len(posted) \in Nat
    BY LenProperties DEF FInv, TypeOK, Byte
  <1>3. /\ posted' \in Seq(Sizes) /\ Len(posted') = Len(posted) + 1
        /\ \A k \in 1 .. Len(posted) : k \in 1 .. Len(posted) + 1 /\ posted'[k] = posted[k]
    <2>1. s \in Sizes
      OBVIOUS
    <2>2. /\ Append(posted, s) \in Seq(Sizes) /\ Len(Append(posted, s)) = Len(posted) + 1
          /\ \A k \in 1 .. Len(posted) : Append(posted, s)[k] = posted[k]
      BY ONLY <1>2, <2>1, AppendProperties
    <2> QED BY <1>1, <1>2, <2>2
  <1>4. PacketsAreMessages'
    <2>1. Len(delivered) <= Len(posted) /\ Len(delivered) \in Nat
      BY LenProperties DEF FInv, InStep, PacketsAreMessages, TypeOK
    <2>2. ASSUME NEW k \in 1 .. Len(delivered)
          PROVE  delivered[k] = DataBytes(k)'
      <3>1. k \in 1 .. Len(posted)
        BY <1>2, <2>1
      <3>2. posted'[k] = posted[k]
        BY <1>3, <3>1
      <3>3. delivered[k] = DataBytes(k)
        BY DEF FInv, InStep, PacketsAreMessages
      <3> QED BY <3>2, <3>3 DEF DataBytes
    <2> QED BY <1>1, <1>2, <1>3, <2>1, <2>2 DEF PacketsAreMessages
  <1>5. NoRetry'
    <2>1. posted' # <<>> /\ 0 < Tries
      BY <1>2, <1>3, EmptySeq, FramingAssumption
    <2> QED BY <1>1, <2>1 DEF FInv, InStep, NoRetry
  <1>6. open => WireInStep'
    <2> HAVE open
    <2>1. /\ Linked(posted, wire) /\ (wire # <<>> => wire[1] = Here)
          /\ There = IF wire = <<>> THEN Here ELSE After(posted, wire[Len(wire)])
      BY <1>1 DEF FInv, InStep, WireInStep
    <2>2. /\ Linked(posted', wire)
          /\ wire # <<>> => After(posted', wire[Len(wire)]) = After(posted, wire[Len(wire)])
      <3>1. s \in Sizes /\ Linked(posted, wire)
        BY <2>1
      <3> QED BY <1>1, <1>2, <3>1, GrowLinked
    <2>3. Here' = Here /\ There' = There
      BY <1>1, <1>2, <1>3 DEF Here, There, Current
    <2> QED BY <1>1, <2>1, <2>2, <2>3 DEF WireInStep, Linked, After
  <1>7. open => BufferInStep'
    <2> HAVE open
    <2>1. BufferInStep
      BY DEF FInv, InStep
    <2>2. ASSUME recvdata
          PROVE  Len(delivered) < Len(posted') /\ recvsize = posted'[Len(delivered) + 1]
      <3>1. Len(delivered) < Len(posted) /\ recvsize = posted[Len(delivered) + 1]
            /\ Len(delivered) \in Nat
        BY <2>1, <2>2, LenProperties DEF BufferInStep, FInv, TypeOK
      <3>2. Len(delivered) + 1 \in 1 .. Len(posted)
        BY <1>2, <3>1
      <3> QED BY <1>2, <1>3, <3>1, <3>2
    <2> QED BY <1>1, <2>1, <2>2 DEF BufferInStep
  <1> QED BY <1>1, <1>4, <1>5, <1>6, <1>7 DEF InStep

(* write() fails only on a broken connection.                              *)
LEMMA WriteReliable ==
    ASSUME Reliable, FInv, NEW bytes, NEW positive \in BOOLEAN, Write(bytes, positive)
    PROVE  /\ open => positive /\ wire' = wire \o bytes /\ UNCHANGED <<errno, sockError>>
           /\ positive => wire' = Reach(bytes) /\ UNCHANGED <<errno, sockError>>
  BY DEF Reliable, Write, Written, WrittenInPart, WriteFails, Reach, FInv, InStep, NoRetry

(* The bytes r are those of message k from byte o + 1 on, and the sender's *)
(* next.                                                                   *)
ComesNext(r, k, o) ==
    /\ k \in 1 .. Len(posted) /\ o \in Nat
    /\ r \in Seq(Byte) /\ Len(r) > 0 /\ o + Len(r) <= SizeLen + posted[k]
    /\ \A j \in 1 .. Len(r) : r[j] = <<k, o + j>>
    /\ There = <<k, o + 1>>

(* The stretch w goes from the receiver to byte e of message k.            *)
Spans(w, k, e) ==
    /\ w # <<>> /\ Linked(posted, w)
    /\ w[1] = Here /\ w[Len(w)] = <<k, e>>

(* What basesend() writes is what the receiver is to read next.            *)
LEMMA WriteInStep ==
    ASSUME FInv, open, sender \in {"idle", "size", "data"},
           NEW r, NEW k, NEW o, ComesNext(r, k, o)
    PROVE  Spans(wire \o r, k, o + Len(r))
  <1>1. /\ posted \in Seq(Sizes) /\ wire \in Seq(Byte) /\ Linked(posted, wire)
        /\ wire # <<>> => wire[1] = Here
        /\ <<k, o + 1>> = IF wire = <<>> THEN Here ELSE After(posted, wire[Len(wire)])
    BY DEF FInv, TypeOK, InStep, WireInStep, Byte, ComesNext
  <1>2. wire # <<>> => After(posted, wire[Len(wire)]) = <<k, o + 1>>
    BY <1>1
  <1>3. /\ Linked(posted, wire \o r)
        /\ wire \o r # <<>>
        /\ (wire \o r)[1] = IF wire = <<>> THEN <<k, o + 1>> ELSE wire[1]
        /\ (wire \o r)[Len(wire \o r)] = <<k, o + Len(r)>>
    <2>1. Fits(posted, wire, r, k, o)
      BY <1>1, <1>2, Zenon DEF Fits, ComesNext
    <2>2. Prolonged(posted, wire, r, k, o)
      BY <2>1, RunLinked
    <2> QED BY <2>2 DEF Prolonged
  <1> QED BY <1>1, <1>3 DEF Spans

(* The steps of basesend() leave them in step.                             *)
LEMMA SenderInStep ==
    ASSUME Reliable, FInv, SenderStep
    PROVE  InStep'
  <1>1. /\ posted \in Seq(Sizes) /\ wire \in Seq(Byte) /\ Len(posted) \in Nat
        /\ sender \in {"size", "data"} /\ posted # <<>> /\ tries < Tries
        /\ tries \in Nat /\ Tries \in Nat
    BY LenProperties, FramingAssumption
       DEF FInv, TypeOK, Byte, InStep, NoRetry, SenderStep, WriteSize, WriteData
  <1>2. /\ UNCHANGED posted
        /\ UNCHANGED <<recvdata, recvsize, buffer, rv, portClosed, open, delivered>>
    BY DEF SenderStep, WriteSize, WriteData, recvVars, partVars
  <1>3. Current \in 1 .. Len(posted) /\ Current \in Nat /\ Current = Len(posted)
    BY <1>1, EmptySeq DEF Current
  <1>4. PacketsAreMessages'
    BY <1>2 DEF FInv, InStep, PacketsAreMessages, DataBytes
  <1>5. open => BufferInStep'
    BY <1>2 DEF FInv, InStep, BufferInStep
  <1>6. PICK p \in Nat \ {0} : p = posted[Current]
    BY <1>1, <1>3, DataBytesOK
  <1>7. CASE WriteSize
    <2>1. PICK positive \in BOOLEAN : Write(SizeBytes(Current), positive) /\ first' = positive
      BY <1>7 DEF WriteSize
    <2>2. sender = "size" /\ sender' = "data" /\ tries' = tries
      BY <1>7 DEF WriteSize
    <2>3. open => /\ positive /\ wire' = wire \o SizeBytes(Current)
                  /\ errno' = errno /\ sockError' = sockError
      BY <2>1, WriteReliable
    <2>4. NoRetry'
      BY <1>1, <1>2, <2>1, <2>2, <2>3 DEF FInv, InStep, NoRetry
    <2>5. open => WireInStep'
      <3> SUFFICES ASSUME open PROVE WireInStep'
        OBVIOUS
      <3>1. /\ SizeBytes(Current) \in Seq(Byte) /\ Len(SizeBytes(Current)) = SizeLen
            /\ SizeLen \in Nat /\ SizeLen > 0 /\ 0 + SizeLen <= SizeLen + posted[Current]
            /\ \A j \in 1 .. SizeLen : SizeBytes(Current)[j] = <<Current, 0 + j>>
        <4>1. \A j \in 1 .. SizeLen : SizeBytes(Current)[j] = <<Current, j>>
          BY <1>3, SizeBytesOK
        <4>2. SizeLen \in Nat /\ SizeLen > 0
          BY FramingAssumption
        <4>3. 0 + SizeLen <= SizeLen + p
          BY <4>2
        <4> QED BY <1>3, <1>6, <4>1, <4>2, <4>3, SizeBytesOK
      <3>2. There = <<Current, 0 + 1>>
        BY <1>3, <2>2 DEF There
      <3>3. /\ wire' # <<>>
            /\ Linked(posted, wire')
            /\ wire'[1] = Here
            /\ wire'[Len(wire')] = <<Current, 0 + SizeLen>>
        <4>1. ComesNext(SizeBytes(Current), Current, 0)
          BY ONLY <1>3, <3>1, <3>2, 0 \in Nat DEF ComesNext
        <4>2. Spans(wire \o SizeBytes(Current), Current, 0 + Len(SizeBytes(Current)))
          BY <1>1, <4>1, WriteInStep
        <4>3. Spans(wire', Current, 0 + SizeLen)
          BY ONLY <2>3, <3>1, <4>2, open
        <4> QED BY <4>3 DEF Spans
      <3>4. After(posted, <<Current, SizeLen>>) = <<Current, SizeLen + 1>>
        <4>1. SizeLen < SizeLen + p
          BY <3>1
        <4> QED BY <1>6, <4>1 DEF After
      <3>5. There' = <<Current, SizeLen + 1>> /\ Here' = Here
        BY <1>2, <2>2 DEF There, Here, Current
      <3>6. After(posted, wire'[Len(wire')]) = <<Current, SizeLen + 1>>
        <4>1. wire'[Len(wire')] = <<Current, 0 + SizeLen>> /\ 0 + SizeLen = SizeLen
          BY ONLY <3>1, <3>3
        <4> QED BY ONLY <3>4, <4>1
      <3> QED BY <1>2, <3>3, <3>5, <3>6 DEF WireInStep, Linked, After
    <2> QED BY <1>2, <1>4, <1>5, <2>4, <2>5 DEF InStep
  <1>8. CASE WriteData
    <2>1. PICK positive \in BOOLEAN :
            /\ Write(DataBytes(Current), positive)
            /\ IF (first /\ positive) \/ errno' = "EPIPE"
                 THEN sender' = "idle" /\ UNCHANGED tries
                 ELSE TryAgain
      BY <1>8 DEF WriteData
    <2>2. sender = "data" /\ first' = first
      BY <1>8 DEF WriteData
    <2>3. open => /\ positive /\ wire' = wire \o DataBytes(Current)
                  /\ errno' = errno /\ sockError' = sockError
      BY <2>1, WriteReliable
    <2>4. open => sender' = "idle" /\ tries' = tries
      BY <2>1, <2>2, <2>3 DEF FInv, InStep, NoRetry
    <2>5. NoRetry'
      <3>1. sender' = "idle" \/ sender' = "thrown" \/ (sender' = "size" /\ tries' < Tries)
        BY <2>1 DEF TryAgain
      <3> QED BY <1>1, <1>2, <2>3, <2>4, <3>1 DEF FInv, InStep, NoRetry
    <2>6. open => WireInStep'
      <3> SUFFICES ASSUME open PROVE WireInStep'
        OBVIOUS
      <3>1. /\ DataBytes(Current) \in Seq(Byte) /\ Len(DataBytes(Current)) = p
            /\ \A j \in 1 .. p : DataBytes(Current)[j] = <<Current, SizeLen + j>>
            /\ p > 0 /\ SizeLen \in Nat /\ SizeLen + p <= SizeLen + posted[Current]
        <4>1. p > 0 /\ SizeLen \in Nat /\ SizeLen + p <= SizeLen + p
          BY FramingAssumption
        <4> QED BY <1>1, <1>3, <1>6, <4>1, DataBytesOK
      <3>2. There = <<Current, SizeLen + 1>>
        BY <1>3, <2>2 DEF There
      <3>3. /\ wire' # <<>>
            /\ Linked(posted, wire')
            /\ wire'[1] = Here
            /\ wire'[Len(wire')] = <<Current, SizeLen + p>>
        <4>1. ComesNext(DataBytes(Current), Current, SizeLen)
          BY ONLY <1>3, <3>1, <3>2, 0 \in Nat DEF ComesNext
        <4>2. Spans(wire \o DataBytes(Current), Current, SizeLen + Len(DataBytes(Current)))
          BY <1>1, <4>1, WriteInStep
        <4>3. Spans(wire', Current, SizeLen + p)
          BY ONLY <2>3, <3>1, <4>2, open
        <4> QED BY <4>3 DEF Spans
      <3>4. After(posted, <<Current, SizeLen + p>>) = <<Current + 1, 1>>
        <4>1. ~(SizeLen + p < SizeLen + p)
          BY <3>1
        <4> QED BY <1>6, <4>1 DEF After
      <3>5. There' = <<Current + 1, 1>> /\ Here' = Here
        BY <1>2, <2>4 DEF There, Here, Current
      <3>6. After(posted, wire'[Len(wire')]) = <<Current + 1, 1>>
        BY <3>3, <3>4
      <3> QED BY <1>2, <3>3, <3>5, <3>6 DEF WireInStep, Linked, After
    <2> QED BY <1>2, <1>4, <1>5, <2>5, <2>6 DEF InStep
  <1> QED BY <1>7, <1>8 DEF SenderStep

(* Reading leaves them in step, if the receiver now expects the byte after *)
(* the last one that was read.                                             *)
LEMMA StreamInStep ==
    ASSUME FInv, open, NEW n, n \in 1 .. Len(wire), Read(n),
           Here' = After(posted, <<AtMsg, Reached(n)>>)
    PROVE  NoRetry' /\ WireInStep'
  <1>1. /\ UNCHANGED <<posted, sender, tries, first, errno, signals>>
        /\ UNCHANGED <<sockError, portClosed, open>>
    BY DEF Read, sendVars
  <1>2. NoRetry'
    BY <1>1 DEF FInv, InStep, NoRetry
  <1>3. /\ Linked(posted, wire')
        /\ wire' # <<>> => wire'[1] = After(posted, <<AtMsg, Reached(n)>>)
        /\ sender \in {"idle", "size", "data"} =>
              There = IF wire' = <<>> THEN After(posted, <<AtMsg, Reached(n)>>)
                      ELSE After(posted, wire'[Len(wire')])
    BY HeadRead
  <1>4. There' = There
    BY <1>1 DEF There, Current
  <1>5. posted' = posted /\ sender' = sender
    BY <1>1
  <1>6. WireInStep'
    BY <1>3, <1>4, <1>5 DEF WireInStep, Linked, After
  <1> QED BY <1>2, <1>6

(* The steps of update() that read bytes leave them in step.               *)
LEMMA ReadInStep ==
    ASSUME FInv, NEW n, n \in 1 .. Len(wire), ReadPart(n) \/ ReadSize(n) \/ ReadData(n)
    PROVE  InStep'
  <1>1. open /\ Read(n) /\ n \in Nat \ {0} /\ n <= Wanted
    BY DEF ReadPart, ReadSize, ReadData, Read
  <1>2. /\ posted' = posted /\ open' = open
    BY <1>1 DEF Read, sendVars
  <1>3. /\ TypeOK /\ posted \in Seq(Sizes) /\ SizeLen \in Nat /\ SizeLen > 0
        /\ Len(buffer) \in Nat /\ Len(delivered) \in Nat /\ Len(posted) \in Nat
    BY FramingAssumption, LenProperties DEF FInv, TypeOK
  <1>4. /\ AtMsg \in 1 .. Len(posted) /\ Reached(n) \in Nat
        /\ \A i \in 1 .. Len(buffer) + n : Filled(n)[i] = <<AtMsg, Offset + i>>
        /\ AtMsg = Len(delivered) + 1
    BY <1>1, HeadRead DEF AtMsg
  <1>5. PICK p \in Nat \ {0} : p = posted[AtMsg]
    BY <1>3, <1>4, DataBytesOK
  <1>6. /\ Filled(n) \in Seq(Byte) /\ Len(Filled(n)) = Len(buffer) + n
    BY <1>1, <1>3, ReadType
  <1>7. /\ PacketsAreMessages
        /\ recvdata => recvsize = p
    BY <1>1, <1>4, <1>5 DEF FInv, InStep, BufferInStep
  <1>8. CASE ReadPart(n)
    <2>1. /\ n < Wanted /\ buffer' = Filled(n)
          /\ UNCHANGED <<recvdata, recvsize, delivered>>
      BY <1>8 DEF ReadPart
    <2>2. Len(buffer) + n < (IF recvdata THEN p ELSE SizeLen)
      BY <1>1, <1>3, <1>7, <2>1 DEF Wanted
    <2>3. PICK t \in Nat : t = Reached(n) /\ t = Offset + (Len(buffer) + n)
      <3>1. Reached(n) = Offset + (Len(buffer) + n)
        BY <1>1, <1>3 DEF Reached, Offset
      <3> QED BY <1>4, <3>1
    <2>4. t < SizeLen + p
      BY <1>1, <1>3, <2>2, <2>3 DEF Offset
    <2>5. After(posted, <<AtMsg, Reached(n)>>) = <<AtMsg, t + 1>>
      BY <1>5, <2>3, <2>4 DEF After
    <2>6. Here' = <<AtMsg, t + 1>>
      BY <1>4, <1>6, <2>1, <2>3 DEF Here, Offset
    <2>7. NoRetry' /\ WireInStep'
      BY <1>1, <2>5, <2>6, StreamInStep
    <2>8. BufferInStep'
      <3>1. Len(buffer') < (IF recvdata' THEN recvsize' ELSE SizeLen)
        BY <1>6, <1>7, <2>1, <2>2
      <3>2. recvdata' => Len(delivered') < Len(posted') /\ recvsize' = posted'[Len(delivered') + 1]
        BY <1>1, <1>2, <2>1 DEF FInv, InStep, BufferInStep
      <3>3. \A i \in 1 .. Len(buffer') :
               buffer'[i] = <<Len(delivered') + 1, (IF recvdata' THEN SizeLen ELSE 0) + i>>
        BY <1>4, <1>6, <2>1 DEF Offset
      <3> QED BY <3>1, <3>2, <3>3 DEF BufferInStep
    <2>9. PacketsAreMessages'
      BY <1>2, <1>7, <2>1 DEF PacketsAreMessages, DataBytes
    <2> QED BY <2>7, <2>8, <2>9 DEF InStep
  <1>9. CASE ReadSize(n)
    <2>1. /\ n = Wanted /\ ~recvdata
          /\ \/ \E k \in 1 .. Len(posted) :
                   Filled(n) = SizeBytes(k) /\ recvsize' = posted[k] /\ recvdata' = TRUE
             \/ \A k \in 1 .. Len(posted) : Filled(n) # SizeBytes(k)
          /\ buffer' = <<>> /\ delivered' = delivered
      BY <1>9 DEF ReadSize
    <2>2. Len(buffer) + n = SizeLen /\ Offset = 0
      BY <1>1, <1>3, <2>1 DEF Wanted, Offset
    <2>3. \A i \in 1 .. SizeLen : Filled(n)[i] = <<AtMsg, i>>
      <3>1. \A i \in 1 .. SizeLen : 0 + i = i
        BY <1>3
      <3> QED BY <1>4, <2>2, <3>1
    <2>4. Filled(n) = SizeBytes(AtMsg)
      <3>1. AtMsg \in Nat
        BY <1>3, <1>4
      <3>2. /\ SizeBytes(AtMsg) \in Seq(Byte) /\ Len(SizeBytes(AtMsg)) = SizeLen
            /\ \A j \in 1 .. SizeLen : SizeBytes(AtMsg)[j] = <<AtMsg, j>>
        BY <3>1, SizeBytesOK
      <3> QED BY <1>6, <2>2, <2>3, <3>2, SeqEqual
    <2>5. PICK k \in 1 .. Len(posted) :
             Filled(n) = SizeBytes(k) /\ recvsize' = posted[k] /\ recvdata' = TRUE
      BY <1>4, <2>1, <2>4
    <2>6. k = AtMsg
      <3>1. k \in Nat /\ 1 \in 1 .. SizeLen
        BY <1>3
      <3>2. SizeBytes(k)[1] = <<k, 1>>
        BY <3>1, SizeBytesOK
      <3>3. Filled(n)[1] = <<AtMsg, 1>>
        BY <2>3, <3>1
      <3> QED BY <2>5, <3>2, <3>3
    <2>7. Reached(n) = SizeLen
      BY <1>1, <1>3, <2>2 DEF Reached
    <2>8. After(posted, <<AtMsg, Reached(n)>>) = <<AtMsg, SizeLen + 1>>
      <3>1. SizeLen < SizeLen + p
        BY <1>3
      <3> QED BY <1>5, <2>7, <3>1 DEF After
    <2>9. Here' = <<AtMsg, SizeLen + 1>>
      <3>1. Len(buffer') = 0 /\ SizeLen + 0 + 1 = SizeLen + 1
        BY <1>3, <2>1, EmptySeq
      <3> QED BY <1>4, <2>1, <2>5, <3>1 DEF Here
    <2>10. NoRetry' /\ WireInStep'
      BY <1>1, <2>8, <2>9, StreamInStep
    <2>11. BufferInStep'
      <3>1. Len(buffer') = 0
        BY <2>1, EmptySeq
      <3>2. Len(delivered') < Len(posted') /\ recvsize' = posted'[Len(delivered') + 1]
        BY <1>2, <1>3, <1>4, <2>1, <2>5, <2>6
      <3>3. Len(buffer') < (IF recvdata' THEN recvsize' ELSE SizeLen)
        BY <1>5, <2>5, <2>6, <3>1
      <3>4. \A i \in 1 .. Len(buffer') :
               buffer'[i] = <<Len(delivered') + 1, (IF recvdata' THEN SizeLen ELSE 0) + i>>
        BY <3>1
      <3> QED BY <3>2, <3>3, <3>4 DEF BufferInStep
    <2>12. PacketsAreMessages'
      BY <1>2, <1>7, <2>1 DEF PacketsAreMessages, DataBytes
    <2> QED BY <2>10, <2>11, <2>12 DEF InStep
  <1>10. CASE ReadData(n)
    <2>1. /\ n = Wanted /\ recvdata
          /\ delivered' = Append(delivered, Filled(n))
          /\ recvdata' = FALSE /\ buffer' = <<>>
      BY <1>10 DEF ReadData
    <2>2. Len(buffer) + n = p /\ Offset = SizeLen
      BY <1>1, <1>3, <1>7, <2>1 DEF Wanted, Offset
    <2>3. Filled(n) = DataBytes(AtMsg)
      <3>1. /\ DataBytes(AtMsg) \in Seq(Byte) /\ Len(DataBytes(AtMsg)) = p
            /\ \A j \in 1 .. p : DataBytes(AtMsg)[j] = <<AtMsg, SizeLen + j>>
        BY <1>3, <1>4, <1>5, DataBytesOK
      <3> QED BY <1>4, <1>6, <2>2, <3>1, SeqEqual
    <2>4. /\ Len(delivered') = AtMsg /\ delivered'[AtMsg] = DataBytes(AtMsg)
          /\ \A k \in 1 .. Len(delivered) : delivered'[k] = delivered[k]
      <3>1. delivered \in Seq(Seq(Byte))
        BY <1>3 DEF TypeOK, Byte
      <3> QED BY <1>4, <1>6, <2>1, <2>3, <3>1, AppendProperties
    <2>5. PacketsAreMessages'
      <3>1. \A k \in 1 .. AtMsg : k = AtMsg \/ k \in 1 .. Len(delivered)
        BY <1>3, <1>4
      <3>2. \A k \in 1 .. AtMsg : delivered'[k] = DataBytes(k)
        BY <1>7, <2>4, <3>1 DEF PacketsAreMessages
      <3>3. AtMsg <= Len(posted)
        BY <1>3, <1>4
      <3> QED BY <1>2, <2>4, <3>2, <3>3 DEF PacketsAreMessages, DataBytes
    <2>6. Reached(n) = SizeLen + p
      <3>1. Reached(n) = Offset + (Len(buffer) + n)
        BY <1>1, <1>3, <2>2 DEF Reached
      <3> QED BY <2>2, <3>1
    <2>7. After(posted, <<AtMsg, Reached(n)>>) = <<AtMsg + 1, 1>>
      <3>1. ~(SizeLen + p < SizeLen + p)
        BY <1>3
      <3> QED BY <1>5, <2>6, <3>1 DEF After
    <2>8. Here' = <<AtMsg + 1, 1>>
      <3>1. Len(buffer') = 0 /\ 0 + 0 + 1 = 1
        BY <2>1, EmptySeq
      <3> QED BY <2>1, <2>4, <3>1 DEF Here
    <2>9. NoRetry' /\ WireInStep'
      BY <1>1, <2>7, <2>8, StreamInStep
    <2>10. BufferInStep'
      <3>1. Len(buffer') = 0
        BY <2>1, EmptySeq
      <3> QED BY <1>3, <2>1, <3>1 DEF BufferInStep
    <2> QED BY <2>5, <2>9, <2>10 DEF InStep
  <1> QED BY <1>8, <1>9, <1>10

(* The end of a connection is no harm to the packets that have come.       *)
LEMMA EndInStep ==
    ASSUME Reliable, FInv, \/ SenderGone \/ SenderResets \/ ReadNothing \/ ReadError
                           \/ ReadInterrupted \/ ReceiverGone
    PROVE  InStep'
  <1>1. /\ posted' = posted /\ delivered' = delivered
        /\ UNCHANGED <<tries, first, errno>>
        /\ sender' = sender \/ sender' = "gone"
    BY DEF SenderGone, SenderResets, ReadNothing, ReadError, ReadInterrupted, ReceiverGone,
           Break, sendVars, recvVars
  <1>2. PacketsAreMessages'
    BY <1>1 DEF FInv, InStep, PacketsAreMessages, DataBytes
  <1>3. ASSUME open' = FALSE
        PROVE  InStep'
    BY <1>1, <1>2, <1>3 DEF FInv, InStep, NoRetry
  <1>4. ASSUME UNCHANGED <<open, wire, sockError, partVars>>
        PROVE  InStep'
    <2>1. NoRetry'
      BY <1>1, <1>4 DEF FInv, InStep, NoRetry
    <2>2. open => WireInStep'
      BY <1>1, <1>4 DEF FInv, InStep, WireInStep, Linked, After, Here, There, Current, partVars
    <2>3. open => BufferInStep'
      BY <1>1, <1>4 DEF FInv, InStep, BufferInStep, partVars
    <2> QED BY <1>2, <1>4, <2>1, <2>2, <2>3 DEF InStep
  <1>5. CASE SenderGone
    BY <1>4, <1>5 DEF SenderGone, recvVars
  <1>6. CASE SenderResets
    <2>1. PICK n \in 0 .. Len(wire) : wire' = SubSeq(wire, 1, n)
      BY <1>6 DEF SenderResets
    <2>2. /\ posted \in Seq(Sizes) /\ wire \in Seq(Byte) /\ Len(wire) \in Nat
          /\ Linked(posted, wire) /\ (wire # <<>> => wire[1] = Here)
          /\ n \in Nat /\ n <= Len(wire) /\ 0 + 1 = 1
      BY <1>6, LenProperties DEF SenderResets, FInv, TypeOK, InStep, WireInStep, Byte
    <2>3. Linked(posted, wire')
      BY <2>1, <2>2, SubLinked
    <2>4. wire' # <<>> => wire # <<>> /\ wire'[1] = wire[1]
      <3>1. /\ SubSeq(wire, 0 + 1, n) \in Seq(Byte)
            /\ Len(SubSeq(wire, 0 + 1, n)) = IF 0 < n THEN n - 0 ELSE 0
            /\ \A i \in 1 .. n - 0 : SubSeq(wire, 0 + 1, n)[i] = wire[0 + i]
        BY <2>2, SubSeqOK
      <3>2. wire' \in Seq(Byte) /\ Len(wire') = n /\ \A i \in 1 .. n : wire'[i] = wire[i]
        BY <2>1, <2>2, <3>1
      <3>3. ASSUME wire' # <<>>
            PROVE  n # 0
        BY <3>2, <3>3, EmptySeq
      <3>4. ASSUME n # 0
            PROVE  wire # <<>> /\ wire'[1] = wire[1]
        BY <2>2, <3>2, <3>4, EmptySeq
      <3> QED BY <3>3, <3>4
    <2>5. sender' = "gone" /\ Here' = Here /\ open' = open /\ open
      BY <1>6 DEF SenderResets, Here, recvVars, partVars
    <2>6. WireInStep'
      BY <1>1, <2>2, <2>3, <2>4, <2>5 DEF WireInStep, Linked, After
    <2>7. NoRetry'
      BY <1>1, <1>6 DEF SenderResets, recvVars, FInv, InStep, NoRetry
    <2>8. BufferInStep'
      BY <1>1, <1>6 DEF SenderResets, recvVars, partVars, FInv, InStep, BufferInStep
    <2> QED BY <1>2, <2>6, <2>7, <2>8 DEF InStep
  <1>7. CASE ReadNothing \/ ReadError \/ ReadInterrupted
    BY <1>3, <1>4, <1>7 DEF ReadNothing, ReadError, ReadInterrupted, Break, CloseEnd
  <1>8. CASE ReceiverGone
    BY <1>3, <1>8 DEF ReceiverGone, CloseEnd
  <1> QED BY <1>5, <1>6, <1>7, <1>8

(* With a connection that does not fail half-way, and no signal, process() *)
(* gets the messages that basesend() was called with, whole, once each and *)
(* in order, however write() and read() cut the stream; at every moment    *)
(* the wire and the receiver's buffer hold exactly what is in between; and *)
(* basesend() writes nothing twice.                                        *)
THEOREM FramingInStep == ASSUME Reliable PROVE Spec => []InStep
  <1>1. FTypeInv /\ InStep /\ [Next]_vars => InStep'
    <2> SUFFICES ASSUME FTypeInv, InStep, [Next]_vars PROVE InStep'
      OBVIOUS
    <2>0. FInv
      BY DEF FInv, FTypeInv
    <2>1. CASE \E s \in Sizes : Send(s)
      BY <2>0, <2>1, SendInStep
    <2>2. CASE Interrupt
      BY <2>0, <2>2 DEF Reliable, Interrupt, FInv, TypeOK
    <2>3. CASE SenderStep
      BY <2>0, <2>3, SenderInStep
    <2>4. CASE ReceiverStep
      BY <2>0, <2>4, ReadInStep, EndInStep DEF ReceiverStep
    <2>5. CASE SenderGone \/ SenderResets \/ ReadInterrupted \/ ReceiverGone
      BY <2>0, <2>5, EndInStep
    <2>6. CASE UNCHANGED vars
      <3>1. /\ UNCHANGED <<posted, sender, tries, first, errno, signals, wire, sockError>>
            /\ UNCHANGED <<recvdata, recvsize, buffer, rv, portClosed, open, delivered>>
        BY <2>6 DEF vars, sendVars, recvVars, partVars
      <3>2. PacketsAreMessages' /\ NoRetry'
        BY <3>1 DEF InStep, PacketsAreMessages, DataBytes, NoRetry
      <3>3. open => WireInStep' /\ BufferInStep'
        BY <3>1 DEF InStep, WireInStep, BufferInStep, Linked, After, Here, There, Current
      <3> QED BY <3>1, <3>2, <3>3 DEF InStep
    <2> QED BY <2>1, <2>2, <2>3, <2>4, <2>5, <2>6 DEF Next
  <1>2. Spec => []FTypeInv
    BY FTypeInit, FTypeStep, PTL DEF Spec
  <1> QED BY <1>1, <1>2, InStepInit, PTL DEF Spec

-----------------------------------------------------------------------------
(* The framing implements the abstract channel.                            *)

(* No more is sent than the bound allows.                                  *)
Bounded == Len(posted) <= MaxMessages

(* The bound holds in the beginning, and every step keeps it.              *)
LEMMA BoundedInv == ASSUME Reliable PROVE Spec => []Bounded
  <1>1. Init => Bounded
    BY FramingAssumption DEF Init, Bounded
  <1>2. TypeOK /\ Bounded /\ [Next]_vars => Bounded'
    <2> SUFFICES ASSUME TypeOK, Bounded, [Next]_vars PROVE Bounded'
      OBVIOUS
    <2>1. CASE \E s \in Sizes : Send(s)
      <3>1. PICK s \in Sizes : posted' = Append(posted, s) /\ Len(posted) < MaxMessages
        BY <2>1 DEF Send, Begin
      <3>2. posted \in Seq(Sizes) /\ Len(posted) \in Nat /\ MaxMessages \in Nat
        BY FramingAssumption, LenProperties DEF TypeOK
      <3>3. Len(posted') = Len(posted) + 1
        BY <3>1, <3>2, AppendProperties
      <3> QED BY <3>1, <3>2, <3>3 DEF Bounded
    <2>2. CASE Interrupt
      BY <2>2 DEF Reliable, Interrupt, TypeOK
    <2>3. CASE posted' = posted
      BY <2>3 DEF Bounded
    <2>4. \/ \E s \in Sizes : Send(s)
          \/ Interrupt
          \/ posted' = posted
      BY DEF Next, SenderStep, ReceiverStep, WriteSize, WriteData, ReadPart, ReadSize, ReadData,
             Read, ReadNothing, ReadError, ReadInterrupted, ReceiverGone, Break, SenderGone,
             SenderResets, vars, sendVars
    <2> QED BY <2>1, <2>2, <2>3, <2>4
  <1> QED BY <1>1, <1>2, FramingTypeCorrect, PTL DEF Spec

(* The channel has the messages that basesend() was called with.           *)
LEMMA SendIsChannelSend ==
    ASSUME TypeOK, Bounded, NEW s \in Sizes, Send(s)
    PROVE  Channel!Send
  <1>1. /\ posted' = Append(posted, s) /\ Len(posted) < MaxMessages
        /\ open' = open /\ delivered' = delivered
    BY DEF Send, Begin, recvVars, partVars
  <1>2. posted \in Seq(Sizes) /\ Len(posted) \in Nat /\ MaxMessages \in Nat /\ MaxSignals \in Nat
    BY FramingAssumption, LenProperties DEF TypeOK
  <1>3. /\ Len(posted') = Len(posted) + 1 /\ posted'[Len(posted) + 1] = s
        /\ \A k \in 1 .. Len(posted) : posted'[k] = posted[k]
    BY <1>1, <1>2, AppendProperties
  <1>4. PICK k : k = Len(posted) + 1
    OBVIOUS
  <1> DEFINE new == [j \in 1 .. s |-> <<k, SizeLen + j>>]
  <1>5. new \in FifoMessage
    <2>1. k \in 1 .. MaxMessages + MaxSignals
      BY <1>1, <1>2, <1>4
    <2> QED BY <2>1 DEF FifoMessage
  <1>6. SentMessages' = Append(SentMessages, new)
    <2>1. /\ SentMessages = [i \in 1 .. Len(posted) |-> DataBytes(i)]
          /\ SentMessages' = [i \in 1 .. Len(posted) + 1 |-> DataBytes(i)']
      BY <1>3 DEF SentMessages
    <2>2. \A i \in 1 .. Len(posted) : DataBytes(i)' = DataBytes(i)
      BY <1>3 DEF DataBytes
    <2>3. DataBytes(k)' = new
      BY <1>3, <1>4 DEF DataBytes
    <2> HIDE DEF new
    <2> DEFINE S == {SentMessages'[i] : i \in 1 .. Len(posted) + 1}
    <2>4. SentMessages' \in Seq(S) /\ Len(SentMessages') = Len(posted) + 1
      BY <1>2, <2>1
    <2>5. \A i \in 1 .. Len(posted) : SentMessages[i] = SentMessages'[i] /\ SentMessages[i] \in S
      <3> TAKE i \in 1 .. Len(posted)
      <3>1. i \in 1 .. Len(posted) + 1
        BY <1>2
      <3> QED BY <2>1, <2>2, <3>1
    <2>6. SentMessages'[k] = new /\ new \in S
      <3>1. k \in 1 .. Len(posted) + 1
        BY <1>2, <1>4
      <3> QED BY <2>1, <2>3, <3>1
    <2>7. SentMessages \in Seq(S) /\ Len(SentMessages) = Len(posted)
      <3>1. \A i \in 1 .. Len(posted) : DataBytes(i) \in S
        BY <2>1, <2>5
      <3> HIDE DEF S
      <3> QED BY <1>2, <2>1, <3>1
    <2> HIDE DEF S
    <2>8. /\ Append(SentMessages, new) \in Seq(S)
          /\ Len(Append(SentMessages, new)) = Len(posted) + 1
          /\ \A i \in 1 .. Len(posted) : Append(SentMessages, new)[i] = SentMessages[i]
          /\ Append(SentMessages, new)[k] = new
      BY <1>4, <2>6, <2>7, AppendProperties
    <2>9. \A i \in 1 .. Len(posted) + 1 : SentMessages'[i] = Append(SentMessages, new)[i]
      <3>1. \A i \in 1 .. Len(posted) + 1 : i \in 1 .. Len(posted) \/ i = k
        BY <1>2, <1>4
      <3> QED BY <2>5, <2>6, <2>8, <3>1
    <2> QED BY <2>4, <2>8, <2>9, SeqEqual
  <1> HIDE DEF new
  <1>7. \E m \in FifoMessage : SentMessages' = Append(SentMessages, m)
    BY <1>5, <1>6
  <1>8. UNCHANGED <<delivered, open>>
    BY <1>1
  <1> QED BY <1>7, <1>8, Zenon DEF Channel!Send

(* With a connection that does not fail half-way, and no signal, what      *)
(* basesend() and TCPReceiver do is what the module Fifo describes: whole  *)
(* messages, once and in order, until the connection ends.                 *)
THEOREM FramingImplementsFifo == ASSUME Reliable PROVE Spec => Channel!Spec
  <1>1. Init => Channel!Init
    <2> SUFFICES ASSUME Init PROVE Channel!Init
      OBVIOUS
    <2>1. posted = <<>> /\ delivered = <<>> /\ open = TRUE
      BY DEF Init
    <2>2. SentMessages = <<>>
      BY <2>1 DEF SentMessages
    <2> QED BY <2>1, <2>2 DEF Channel!Init
  <1>2. TypeOK /\ InStep /\ InStep' /\ Bounded /\ [Next]_vars => [Channel!Next]_(Channel!vars)
    <2> SUFFICES ASSUME TypeOK, InStep, InStep', Bounded, [Next]_vars
                 PROVE  [Channel!Next]_(Channel!vars)
      OBVIOUS
    <2>1. CASE \E s \in Sizes : Send(s)
      BY <2>1, SendIsChannelSend DEF Channel!Next
    <2>2. CASE Interrupt
      BY <2>2 DEF Reliable, Interrupt, TypeOK
    <2>3. ASSUME posted' = posted, delivered' = delivered, open' = open \/ (open /\ open' = FALSE)
          PROVE  [Channel!Next]_(Channel!vars)
      <3>1. SentMessages' = SentMessages
        BY <2>3 DEF SentMessages, DataBytes
      <3> QED BY <2>3, <3>1 DEF Channel!Next, Channel!Break, Channel!vars
    <2>4. ASSUME NEW n \in 1 .. Len(wire), ReadData(n)
          PROVE  Channel!Deliver
      <3>1. /\ open /\ open' = open /\ posted' = posted
            /\ delivered' = Append(delivered, Filled(n))
        BY <2>4 DEF ReadData, Read, sendVars
      <3>2. /\ Len(posted) \in Nat /\ Len(delivered) \in Nat
            /\ delivered \in Seq(Seq(Byte)) /\ Filled(n) \in Seq(Byte)
        <4>1. Read(n)
          BY <2>4 DEF ReadData
        <4> QED BY <4>1, ReadType, LenProperties DEF TypeOK, Byte
      <3>3. Len(delivered') = Len(delivered) + 1 /\ delivered'[Len(delivered) + 1] = Filled(n)
        BY <3>1, <3>2, AppendProperties
      <3>4. Len(delivered) + 1 \in 1 .. Len(posted) /\ Filled(n) = DataBytes(Len(delivered) + 1)
        <4>1. Len(delivered') <= Len(posted')
              /\ \A k \in 1 .. Len(delivered') : delivered'[k] = DataBytes(k)'
          BY DEF InStep, PacketsAreMessages
        <4>2. PICK k : k = Len(delivered) + 1
          OBVIOUS
        <4>3. k \in 1 .. Len(delivered')
          BY <3>2, <3>3, <4>2
        <4>4. DataBytes(k)' = DataBytes(k)
          BY <3>1 DEF DataBytes
        <4> QED BY <3>1, <3>2, <3>3, <4>1, <4>2, <4>3, <4>4
      <3>5. SentMessages' = SentMessages
        BY <3>1 DEF SentMessages, DataBytes
      <3>6. /\ Len(SentMessages) = Len(posted)
            /\ SentMessages[Len(delivered) + 1] = DataBytes(Len(delivered) + 1)
        BY <3>2, <3>4 DEF SentMessages
      <3>7. Len(delivered) < Len(posted)
        BY <3>2, <3>4
      <3> QED BY <3>1, <3>4, <3>5, <3>6, <3>7 DEF Channel!Deliver
    <2>5. \/ \E s \in Sizes : Send(s)
          \/ Interrupt
          \/ \E n \in 1 .. Len(wire) : ReadData(n)
          \/ posted' = posted /\ delivered' = delivered /\ (open' = open \/ (open /\ open' = FALSE))
      BY DEF Next, SenderStep, ReceiverStep, WriteSize, WriteData, ReadPart, ReadSize, Read,
             ReadNothing, ReadError, ReadInterrupted, ReceiverGone, Break, CloseEnd, SenderGone,
             SenderResets, vars, sendVars, recvVars, partVars
    <2> QED BY <2>1, <2>2, <2>3, <2>4, <2>5 DEF Channel!Next
  <1> QED BY <1>1, <1>2, FramingTypeCorrect, FramingInStep, BoundedInv, PTL DEF Spec, Channel!Spec
=============================================================================
