------------------------- MODULE FrameCodec_proofs --------------------------
(***************************************************************************)
(* What holds of frames on a TCP stream for every number of values of a     *)
(* byte and every sequence of frames, wherever the reads end and wherever   *)
(* the connection breaks.                                                   *)
(*                                                                         *)
(* First the payloads: put and get of a number are inverse when the number  *)
(* fits its bytes, each kind of field is read as it was written whatever    *)
(* follows it, and so, one field after the other, is a payload.  Then the   *)
(* frames: the header gives the length, the type and the id.  Last the      *)
(* stream: the buffer, the wire and the bytes lost with the connection are, *)
(* in that order, what the frames not yet received were encoded to.         *)
(***************************************************************************)
EXTENDS FrameCodec, Induction, SequenceTheorems, TLAPS

----------------------------------------------------------------------------
(* Numbers of several bytes.                                                *)

LEMMA DivMod ==
    ASSUME NEW n \in Nat
    PROVE  /\ n \div Radix \in Nat /\ n % Radix \in Nat
           /\ n = (n \div Radix) * Radix + (n % Radix)
<1>1. PICK q \in Nat : q = n \div Radix
  BY PayloadsAssumption
<1>2. q * Radix <= n /\ n < q * Radix + Radix
  BY <1>1, PayloadsAssumption
<1>3. q * Radix \in Nat
  BY PayloadsAssumption
<1>4. PICK r \in Nat : r = n - q * Radix
  BY <1>2, <1>3
<1>5. r < Radix /\ n = q * Radix + r
  BY <1>2, <1>3, <1>4, PayloadsAssumption
<1>6. (q * Radix + r) % Radix = r
  BY <1>5, PayloadsAssumption
<1> QED
  BY <1>1, <1>5, <1>6

(* The number n without its last i bytes.                                   *)
IsShifts(g, n, w) == g = [i \in 0 .. w |-> IF i = 0 THEN n ELSE g[i - 1] \div Radix]

LEMMA ShiftsExist ==
    ASSUME NEW n \in Nat, NEW w \in Nat
    PROVE  \E g : IsShifts(g, n, w) /\ \A i \in 0 .. w : g[i] \in Nat
<1> DEFINE P(v) == \E g : IsShifts(g, n, v) /\ \A i \in 0 .. v : g[i] \in Nat
           S == {v \in Nat : P(v)}
<1>1. 0 \in S
  <2> DEFINE g == [i \in 0 .. 0 |-> n]
  <2>1. IsShifts(g, n, 0)
    BY DEF IsShifts
  <2>2. \A i \in 0 .. 0 : g[i] \in Nat
    OBVIOUS
  <2> QED
    BY <2>1, <2>2
<1>2. ASSUME NEW v \in Nat, v \in S PROVE v + 1 \in S
  <2>1. PICK g : IsShifts(g, n, v) /\ \A i \in 0 .. v : g[i] \in Nat
    BY <1>2
  <2>2. /\ DOMAIN g = 0 .. v
        /\ \A i \in 0 .. v : g[i] = IF i = 0 THEN n ELSE g[i - 1] \div Radix
    BY <2>1 DEF IsShifts
  <2> DEFINE h == [i \in 0 .. v + 1 |-> IF i = v + 1 THEN g[v] \div Radix ELSE g[i]]
  <2>3. \A i \in 0 .. v : h[i] = g[i]
    OBVIOUS
  <2>4. h[v + 1] = g[v] \div Radix /\ v \in 0 .. v
    OBVIOUS
  <2>5. \A i \in 0 .. v + 1 : h[i] = IF i = 0 THEN n ELSE h[i - 1] \div Radix
    <3> SUFFICES ASSUME NEW i \in 0 .. v + 1
                 PROVE  h[i] = IF i = 0 THEN n ELSE h[i - 1] \div Radix
      OBVIOUS
    <3> HIDE DEF h
    <3>1. CASE i = v + 1
      <4>1. i - 1 = v /\ i # 0
        BY <3>1
      <4> QED
        BY <4>1, <3>1, <2>3, <2>4
    <3>2. CASE i # v + 1
      <4>1. i \in 0 .. v
        BY <3>2
      <4>2. i # 0 => i - 1 \in 0 .. v
        BY <4>1
      <4> QED
        BY <4>1, <4>2, <2>2, <2>3
    <3> QED
      BY <3>1, <3>2
  <2>6. IsShifts(h, n, v + 1)
    BY <2>5 DEF IsShifts
  <2>7. \A i \in 0 .. v + 1 : h[i] \in Nat
    <3>1. g[v] \div Radix \in Nat
      BY <2>1, <2>4, DivMod
    <3>2. \A i \in 0 .. v + 1 : i # v + 1 => i \in 0 .. v
      OBVIOUS
    <3> HIDE DEF h
    <3> QED
      BY <3>1, <3>2, <2>1, <2>3, <2>4
  <2> HIDE DEF h
  <2> QED
    BY <2>6, <2>7
<1> HIDE DEF S
<1>3. w \in S
  BY <1>1, <1>2, SetInduction, Zenon
<1> QED
  BY <1>3 DEF S

LEMMA PutIs ==
    ASSUME NEW n \in Nat, NEW w \in Nat
    PROVE  \E g : /\ IsShifts(g, n, w) /\ \A i \in 0 .. w : g[i] \in Nat
                  /\ put(n, w) = [i \in 1 .. w |-> g[w - i] % Radix]
<1> DEFINE c == CHOOSE g : IsShifts(g, n, w)
<1>1. PICK g : IsShifts(g, n, w) /\ \A i \in 0 .. w : g[i] \in Nat
  BY ShiftsExist
<1>2. IsShifts(c, n, w)
  BY <1>1
<1>3. c = g
  <2>1. /\ DOMAIN c = 0 .. w /\ DOMAIN g = 0 .. w
        /\ c = [i \in 0 .. w |-> c[i]] /\ g = [i \in 0 .. w |-> g[i]]
        /\ \A i \in 0 .. w : c[i] = IF i = 0 THEN n ELSE c[i - 1] \div Radix
        /\ \A i \in 0 .. w : g[i] = IF i = 0 THEN n ELSE g[i - 1] \div Radix
    <3> HIDE DEF c
    <3> QED BY <1>1, <1>2 DEF IsShifts
  <2> HIDE DEF c
  <2> DEFINE S == {i \in Nat : i <= w => c[i] = g[i]}
  <2>2. 0 \in S
    <3>1. 0 \in 0 .. w
      OBVIOUS
    <3> QED
      BY <2>1, <3>1
  <2>3. ASSUME NEW i \in Nat, i \in S PROVE i + 1 \in S
    <3>1. ASSUME i + 1 <= w PROVE c[i + 1] = g[i + 1]
      <4>1. i + 1 \in 0 .. w /\ i + 1 # 0 /\ (i + 1) - 1 = i /\ i <= w
        BY <3>1
      <4>2. c[i + 1] = c[(i + 1) - 1] \div Radix /\ g[i + 1] = g[(i + 1) - 1] \div Radix
        BY <4>1, <2>1, Zenon
      <4> QED
        BY <4>1, <4>2, <2>3
    <3> QED
      BY <3>1
  <2> HIDE DEF S
  <2>4. \A i \in Nat : i \in S
    BY <2>2, <2>3, SetInduction, Zenon
  <2>5. \A i \in 0 .. w : c[i] = g[i]
    BY <2>4 DEF S
  <2> QED
    BY <2>1, <2>5
<1>4. put(n, w) = [i \in 1 .. w |-> c[w - i] % Radix]
  BY DEF put, IsShifts
<1> HIDE DEF c
<1> QED
  BY <1>1, <1>3, <1>4

(* The number read from the first i bytes.                                  *)
IsNumber(h, src, w) ==
    h = [i \in 0 .. w |-> IF i = 0 THEN 0 ELSE h[i - 1] * Radix + src[i]]

LEMMA GetIs ==
    ASSUME NEW src, NEW w \in Nat, NEW h, IsNumber(h, src, w), ~ (Len(src) < w)
    PROVE  get(src, w) = Got(h[w], Rest(src, w))
<1> DEFINE c == CHOOSE g : IsNumber(g, src, w)
<1>1. IsNumber(c, src, w)
  OBVIOUS
<1>2. get(src, w) = Got(c[w], Rest(src, w))
  BY DEF get, IsNumber
<1> HIDE DEF c
<1>3. /\ \A i \in 0 .. w : c[i] = IF i = 0 THEN 0 ELSE c[i - 1] * Radix + src[i]
      /\ \A i \in 0 .. w : h[i] = IF i = 0 THEN 0 ELSE h[i - 1] * Radix + src[i]
  BY <1>1 DEF IsNumber
<1> DEFINE S == {i \in Nat : i <= w => c[i] = h[i]}
<1>4. 0 \in S
  <2>1. 0 \in 0 .. w
    OBVIOUS
  <2> QED
    BY <2>1, <1>3
<1>5. ASSUME NEW i \in Nat, i \in S PROVE i + 1 \in S
  <2>1. ASSUME i + 1 <= w PROVE c[i + 1] = h[i + 1]
    <3>1. i + 1 \in 0 .. w /\ i + 1 # 0 /\ (i + 1) - 1 = i /\ i <= w
      BY <2>1
    <3>2. /\ c[i + 1] = c[(i + 1) - 1] * Radix + src[i + 1]
          /\ h[i + 1] = h[(i + 1) - 1] * Radix + src[i + 1]
      BY <3>1, <1>3, Zenon
    <3> QED
      BY <3>1, <3>2, <1>5
  <2> QED
    BY <2>1
<1> HIDE DEF S
<1>6. w \in S
  BY <1>4, <1>5, SetInduction, Zenon
<1>7. c[w] = h[w]
  BY <1>6 DEF S
<1> QED
  BY <1>2, <1>7

(* What put wrote get reads, if the number fits its bytes and they are the  *)
(* first of the source.                                                     *)
LEMMA GetShifts ==
    ASSUME NEW w \in Nat, NEW src \in Seq(Nat), Len(src) >= w, NEW n \in Nat,
           NEW g, IsShifts(g, n, w), \A i \in 0 .. w : g[i] \in Nat, g[w] = 0,
           \A i \in 1 .. w : src[i] = g[w - i] % Radix
    PROVE  get(src, w) = Got(n, Rest(src, w))
<1> DEFINE h == [i \in 0 .. w |-> g[w - i]]
<1>1. /\ g[0] = n
      /\ \A i \in 1 .. w : g[i] = g[i - 1] \div Radix
  <2>1. \A i \in 0 .. w : g[i] = IF i = 0 THEN n ELSE g[i - 1] \div Radix
    BY DEF IsShifts
  <2>2. 0 \in 0 .. w /\ \A i \in 1 .. w : i \in 0 .. w /\ i # 0
    OBVIOUS
  <2> QED
    BY <2>1, <2>2, Zenon
<1>2. \A i \in 0 .. w : h[i] = IF i = 0 THEN 0 ELSE h[i - 1] * Radix + src[i]
  <2> SUFFICES ASSUME NEW i \in 0 .. w
               PROVE  h[i] = IF i = 0 THEN 0 ELSE h[i - 1] * Radix + src[i]
    OBVIOUS
  <2>1. CASE i = 0
    BY <2>1
  <2>2. CASE i # 0
    <3>1. i \in 1 .. w /\ i - 1 \in 0 .. w /\ (w - i) + 1 \in 1 .. w /\ w - i \in 0 .. w
      BY <2>2
    <3>2. h[i] = g[w - i] /\ h[i - 1] = g[w - (i - 1)]
      BY <3>1
    <3>3. w - (i - 1) = (w - i) + 1 /\ ((w - i) + 1) - 1 = w - i
      OBVIOUS
    <3>4. PICK a \in Nat : a = g[w - i]
      BY <3>1
    <3>5. g[(w - i) + 1] = g[((w - i) + 1) - 1] \div Radix
      BY <3>1, <1>1, Zenon
    <3>6. h[i - 1] = a \div Radix /\ src[i] = a % Radix /\ h[i] = a
      BY <3>1, <3>2, <3>3, <3>4, <3>5
    <3>7. a = (a \div Radix) * Radix + (a % Radix)
      BY DivMod
    <3> HIDE DEF h
    <3> QED
      BY <3>6, <3>7, <2>2
  <2> QED
    BY <2>1, <2>2
<1>3. IsNumber(h, src, w)
  BY <1>2 DEF IsNumber
<1>4. ~ (Len(src) < w)
  OBVIOUS
<1>5. h[w] = n
  BY <1>1
<1> HIDE DEF h
<1> QED
  BY <1>3, <1>4, <1>5, GetIs

LEMMA PutBytes ==
    ASSUME NEW n \in Nat, NEW w \in Nat
    PROVE  put(n, w) \in Seq(Nat) /\ Len(put(n, w)) = w
<1>1. PICK g : /\ IsShifts(g, n, w) /\ \A i \in 0 .. w : g[i] \in Nat
               /\ put(n, w) = [i \in 1 .. w |-> g[w - i] % Radix]
  BY PutIs
<1>2. \A i \in 1 .. w : g[w - i] % Radix \in Nat
  <2> SUFFICES ASSUME NEW i \in 1 .. w PROVE g[w - i] % Radix \in Nat
    OBVIOUS
  <2>1. w - i \in 0 .. w
    OBVIOUS
  <2> QED
    BY <2>1, <1>1, DivMod
<1> QED
  BY <1>1, <1>2

(* Nothing is left of n once w bytes have been taken off.                   *)
Fits(n, w) == \A g : IsShifts(g, n, w) => g[w] = 0
AllFit(a, w) == \A n \in 0 .. a - 1 : Fits(n, w)

LEMMA OneByteMore ==
    ASSUME NEW a \in Nat, NEW w \in Nat, AllFit(a, w)
    PROVE  AllFit(a * Radix, w + 1)
<1> SUFFICES ASSUME NEW n \in 0 .. (a * Radix) - 1, NEW g, IsShifts(g, n, w + 1)
             PROVE  g[w + 1] = 0
  BY DEF AllFit, Fits
<1>1. a * Radix \in Nat
  BY PayloadsAssumption
<1>2. n \in Nat /\ n < a * Radix
  BY <1>1
<1>3. n \div Radix \in Nat /\ n \div Radix < a
  BY <1>2, DivMod, PayloadsAssumption
<1>4. n \div Radix \in 0 .. a - 1
  BY <1>3
<1> DEFINE h == [i \in 0 .. w |-> g[i + 1]]
<1>5. \A i \in 0 .. w + 1 : g[i] = IF i = 0 THEN n ELSE g[i - 1] \div Radix
  BY DEF IsShifts
<1>6. \A i \in 0 .. w : h[i] = IF i = 0 THEN n \div Radix ELSE h[i - 1] \div Radix
  <2> SUFFICES ASSUME NEW i \in 0 .. w
               PROVE  h[i] = IF i = 0 THEN n \div Radix ELSE h[i - 1] \div Radix
    OBVIOUS
  <2>1. i + 1 \in 0 .. w + 1 /\ i + 1 # 0 /\ (i + 1) - 1 = i /\ i \in 0 .. w + 1
    OBVIOUS
  <2>2. g[i + 1] = g[(i + 1) - 1] \div Radix
    BY <2>1, <1>5, Zenon
  <2>3. h[i] = g[i] \div Radix
    BY <2>1, <2>2
  <2>4. CASE i = 0
    BY <2>1, <2>3, <2>4, <1>5
  <2>5. CASE i # 0
    <3>1. i - 1 \in 0 .. w /\ (i - 1) + 1 = i
      BY <2>5
    <3>2. h[i - 1] = g[i]
      BY <3>1
    <3> QED
      BY <3>2, <2>3, <2>5
  <2> QED
    BY <2>4, <2>5
<1>7. IsShifts(h, n \div Radix, w)
  BY <1>6 DEF IsShifts
<1>8. h[w] = g[w + 1]
  OBVIOUS
<1> HIDE DEF h
<1> QED
  BY <1>4, <1>7, <1>8 DEF AllFit, Fits

LEMMA WordsFit == AllFit(U8, 1) /\ AllFit(U16, 2) /\ AllFit(U32, 4) /\ AllFit(U64, 8)
<1>0. AllFit(1, 0)
  <2> SUFFICES ASSUME NEW n \in 0 .. 1 - 1, NEW g, IsShifts(g, n, 0) PROVE g[0] = 0
    BY DEF AllFit, Fits
  <2>1. n = 0 /\ 0 \in 0 .. 0
    OBVIOUS
  <2> QED
    BY <2>1 DEF IsShifts
<1>1. ASSUME NEW a \in Nat, NEW w \in Nat, AllFit(a, w)
      PROVE  AllFit(a * U16, w + 2)
  <2>1. a * Radix \in Nat /\ w + 1 \in Nat /\ (w + 1) + 1 = w + 2 /\ (a * Radix) * Radix = a * U16
    BY PayloadsAssumption DEF U16, U8
  <2>2. AllFit(a * Radix, w + 1)
    BY <1>1, OneByteMore
  <2>3. AllFit((a * Radix) * Radix, (w + 1) + 1)
    BY <2>1, <2>2, OneByteMore, Zenon
  <2> QED
    BY <2>1, <2>3
<1>2. U16 \in Nat /\ U16 * U16 \in Nat /\ (U16 * U16) * U16 \in Nat
  BY PayloadsAssumption DEF U16, U8
<1>3. AllFit(U8, 1)
  <2>1. AllFit(1 * Radix, 0 + 1)
    BY <1>0, OneByteMore
  <2> QED
    BY <2>1, PayloadsAssumption DEF U8
<1>4. AllFit(U16, 2)
  <2>1. AllFit(1 * U16, 0 + 2)
    BY <1>0, <1>1
  <2> QED
    BY <2>1, <1>2
<1>5. AllFit(U32, 4)
  <2>1. AllFit(U16 * U16, 2 + 2)
    BY <1>1, <1>2, <1>4
  <2> QED
    BY <2>1 DEF U32
<1>6. AllFit(U64, 8)
  <2> DEFINE h == U16
  <2>1. AllFit((h * h) * h, 4 + 2)
    BY <1>1, <1>2, <1>5 DEF U32
  <2>2. AllFit(((h * h) * h) * h, (4 + 2) + 2)
    BY <1>1, <1>2, <2>1
  <2>3. \A x \in Nat : ((x * x) * x) * x = (x * x) * (x * x)
    OBVIOUS
  <2>4. ((h * h) * h) * h = U64
    BY <2>3, <1>2 DEF U64, U32
  <2> HIDE DEF h
  <2> QED
    BY <2>2, <2>4
<1> QED
  BY <1>3, <1>4, <1>5, <1>6

LEMMA GetPut ==
    ASSUME NEW w \in Nat, NEW src \in Seq(Nat), Len(src) >= w, NEW n \in Nat, Fits(n, w),
           \A i \in 1 .. w : src[i] = put(n, w)[i]
    PROVE  get(src, w) = Got(n, Rest(src, w))
<1>1. PICK g : /\ IsShifts(g, n, w) /\ \A i \in 0 .. w : g[i] \in Nat
               /\ put(n, w) = [i \in 1 .. w |-> g[w - i] % Radix]
  BY PutIs
<1>2. g[w] = 0
  BY <1>1 DEF Fits
<1>3. \A i \in 1 .. w : src[i] = g[w - i] % Radix
  BY <1>1
<1> QED
  BY <1>1, <1>2, <1>3, GetShifts

LEMMA RestConcat ==
    ASSUME NEW s \in Seq(Nat), NEW t \in Seq(Nat)
    PROVE  /\ Rest(s \o t, Len(s)) = t /\ SubSeq(s \o t, 1, Len(s)) = s
           /\ s \o t \in Seq(Nat) /\ Len(s \o t) = Len(s) + Len(t)
           /\ \A i \in 1 .. Len(s) : (s \o t)[i] = s[i]
  BY DEF Rest

LEMMA GetWritten ==
    ASSUME NEW w \in Nat, NEW n \in Nat, Fits(n, w), NEW rest \in Seq(Nat)
    PROVE  get(put(n, w) \o rest, w) = Got(n, rest)
<1> DEFINE s == put(n, w)
<1>1. s \in Seq(Nat) /\ Len(s) = w
  BY PutBytes
<1> HIDE DEF s
<1>2. /\ Rest(s \o rest, w) = rest
      /\ s \o rest \in Seq(Nat) /\ Len(s \o rest) >= w
      /\ \A i \in 1 .. w : (s \o rest)[i] = s[i]
  BY <1>1, RestConcat
<1>3. \A i \in 1 .. w : (s \o rest)[i] = put(n, w)[i]
  BY <1>2 DEF s
<1>4. get(s \o rest, w) = Got(n, Rest(s \o rest, w))
  BY <1>2, <1>3, GetPut
<1>5. get(s \o rest, w) = Got(n, rest)
  BY <1>2, <1>4
<1> QED
  BY <1>5 DEF s

(* A single byte, of an enumeration, may be larger than Radix.              *)
LEMMA GetByte ==
    ASSUME NEW b \in Nat, NEW rest \in Seq(Nat)
    PROVE  get(<<b>> \o rest, 1) = Got(b, rest)
<1> DEFINE src == <<b>> \o rest
           h == [i \in 0 .. 1 |-> IF i = 0 THEN 0 ELSE b]
<1>1. src \in Seq(Nat) /\ Len(src) = 1 + Len(rest) /\ src[1] = b
  OBVIOUS
<1>2. Rest(src, 1) = rest
  BY DEF Rest
<1>3. IsNumber(h, src, 1)
  <2>1. \A i \in 0 .. 1 : i = 0 \/ i = 1
    OBVIOUS
  <2> HIDE DEF src
  <2>2. \A i \in 0 .. 1 : h[i] = IF i = 0 THEN 0 ELSE h[i - 1] * Radix + src[i]
    BY <1>1, <2>1, PayloadsAssumption
  <2> QED
    BY <2>2 DEF IsNumber
<1>4. ~ (Len(src) < 1) /\ h[1] = b
  BY <1>1
<1> HIDE DEF src, h
<1>5. get(src, 1) = Got(b, rest)
  BY <1>2, <1>3, <1>4, GetIs
<1> QED
  BY <1>5 DEF src

----------------------------------------------------------------------------
(* FlattenSeq, one element after the other.                                 *)

IsFlat(f, E, m) == f = [i \in 1 .. m |-> IF i = 1 THEN E[i] ELSE f[i - 1] \o E[i]]

LEMMA FlatExists ==
    ASSUME NEW E, NEW m \in Nat
    PROVE  \E f : IsFlat(f, E, m)
<1> DEFINE P(v) == \E f : IsFlat(f, E, v)
           S == {v \in Nat : P(v)}
<1>1. 0 \in S
  <2> DEFINE f == [i \in 1 .. 0 |-> E[1]]
  <2>1. IsFlat(f, E, 0)
    BY DEF IsFlat
  <2> QED
    BY <2>1
<1>2. ASSUME NEW v \in Nat, v \in S PROVE v + 1 \in S
  <2>1. PICK f : IsFlat(f, E, v)
    BY <1>2
  <2>2. \A i \in 1 .. v : f[i] = IF i = 1 THEN E[i] ELSE f[i - 1] \o E[i]
    BY <2>1 DEF IsFlat
  <2> DEFINE last == IF v = 0 THEN E[v + 1] ELSE f[v] \o E[v + 1]
             h == [i \in 1 .. v + 1 |-> IF i = v + 1 THEN last ELSE f[i]]
  <2>3. \A i \in 1 .. v : h[i] = f[i]
    OBVIOUS
  <2>4. h[v + 1] = last
    OBVIOUS
  <2>5. \A i \in 1 .. v + 1 : h[i] = IF i = 1 THEN E[i] ELSE h[i - 1] \o E[i]
    <3> SUFFICES ASSUME NEW i \in 1 .. v + 1
                 PROVE  h[i] = IF i = 1 THEN E[i] ELSE h[i - 1] \o E[i]
      OBVIOUS
    <3> HIDE DEF h
    <3>1. CASE i = v + 1
      <4>1. i - 1 = v /\ (i = 1 <=> v = 0) /\ (v # 0 => v \in 1 .. v)
        BY <3>1
      <4>2. v # 0 => h[i - 1] = f[v]
        BY <4>1, <2>3
      <4> QED
        BY <4>1, <4>2, <3>1, <2>4
    <3>2. CASE i # v + 1
      <4>1. i \in 1 .. v
        BY <3>2
      <4>2. i # 1 => i - 1 \in 1 .. v
        BY <4>1
      <4> QED
        BY <4>1, <4>2, <2>2, <2>3
    <3> QED
      BY <3>1, <3>2
  <2>6. IsFlat(h, E, v + 1)
    BY <2>5 DEF IsFlat
  <2> HIDE DEF h
  <2> QED
    BY <2>6
<1> HIDE DEF S
<1>3. m \in S
  BY <1>1, <1>2, SetInduction, Zenon
<1> QED
  BY <1>3 DEF S

(* What is left to read after i of n elements that were written one after   *)
(* the other, with rest behind them.                                        *)
Remains(S, E, n, rest) ==
    /\ S \in [0 .. n -> Seq(Nat)]
    /\ S[n] = rest
    /\ \A i \in 1 .. n : S[i - 1] = E[i] \o S[i]

LEMMA Elements ==
    ASSUME NEW Z, NEW s \in Seq(Z)
    PROVE  /\ Len(s) \in Nat /\ DOMAIN s = 1 .. Len(s)
           /\ \A i \in 1 .. Len(s) : s[i] \in Z
  OBVIOUS

LEMMA Assoc ==
    ASSUME NEW a \in Seq(Nat), NEW b \in Seq(Nat), NEW c \in Seq(Nat)
    PROVE  (a \o b) \o c = a \o (b \o c)
  OBVIOUS

LEMMA FlatSuffixes ==
    ASSUME NEW E \in Seq(Seq(Nat)), NEW f, IsFlat(f, E, Len(E))
    PROVE  \A n \in Nat : n \in 1 .. Len(E) =>
               /\ f[n] \in Seq(Nat)
               /\ \A rest \in Seq(Nat) : \E S : Remains(S, E, n, rest) /\ S[0] = f[n] \o rest
<1> DEFINE P(n) == /\ f[n] \in Seq(Nat)
                   /\ \A rest \in Seq(Nat) : \E S : Remains(S, E, n, rest) /\ S[0] = f[n] \o rest
           N == {n \in Nat : n \in 1 .. Len(E) => P(n)}
<1>0. /\ \A i \in 1 .. Len(E) : f[i] = IF i = 1 THEN E[i] ELSE f[i - 1] \o E[i]
      /\ \A i \in 1 .. Len(E) : E[i] \in Seq(Nat)
      /\ Len(E) \in Nat
  <2>1. \A i \in 1 .. Len(E) : f[i] = IF i = 1 THEN E[i] ELSE f[i - 1] \o E[i]
    BY DEF IsFlat
  <2> QED
    BY <2>1, Elements, Zenon
<1>1. 0 \in N
  OBVIOUS
<1>2. ASSUME NEW n \in Nat, n \in N PROVE n + 1 \in N
  <2> SUFFICES ASSUME n + 1 \in 1 .. Len(E) PROVE P(n + 1)
    <3> HIDE DEF P
    <3> QED OBVIOUS
  <2>1. CASE n = 0
    <3>0. n + 1 = 1
      BY <2>1
    <3>1. f[n + 1] = E[n + 1] /\ E[n + 1] \in Seq(Nat) /\ n + 1 = 1
      BY <3>0, <1>0, Zenon
    <3>2. ASSUME NEW rest \in Seq(Nat)
          PROVE  \E S : Remains(S, E, n + 1, rest) /\ S[0] = f[n + 1] \o rest
      <4> DEFINE S == [i \in 0 .. 1 |-> IF i = 0 THEN E[1] \o rest ELSE rest]
      <4>1. E[1] \o rest \in Seq(Nat)
        BY <3>1
      <4>2. S \in [0 .. 1 -> Seq(Nat)] /\ S[1] = rest /\ S[0] = E[1] \o rest
        BY <4>1
      <4>3. \A i \in 1 .. 1 : S[i - 1] = E[i] \o S[i]
        <5>1. \A i \in 1 .. 1 : i = 1 /\ i - 1 = 0
          OBVIOUS
        <5> HIDE DEF S
        <5> QED BY <5>1, <4>2
      <4> HIDE DEF S
      <4>4. Remains(S, E, 1, rest) /\ S[0] = f[1] \o rest
        BY <4>2, <4>3, <3>1 DEF Remains
      <4> QED
        BY <4>4, <3>1
    <3> QED
      BY <3>1, <3>2
  <2>2. CASE n # 0
    <3>1. n \in 1 .. Len(E) /\ n + 1 # 1 /\ (n + 1) - 1 = n
      BY <2>2
    <3>2. P(n)
      <4> HIDE DEF P
      <4> QED BY <1>2, <3>1
    <3>3. f[n + 1] = f[(n + 1) - 1] \o E[n + 1] /\ E[n + 1] \in Seq(Nat)
      BY <1>0, <3>1, Zenon
    <3>4. f[n + 1] = f[n] \o E[n + 1] /\ f[n] \in Seq(Nat) /\ f[n + 1] \in Seq(Nat)
      BY <3>1, <3>2, <3>3
    <3>5. ASSUME NEW rest \in Seq(Nat)
          PROVE  \E S : Remains(S, E, n + 1, rest) /\ S[0] = f[n + 1] \o rest
      <4>1. E[n + 1] \o rest \in Seq(Nat)
        BY <3>3
      <4>2. PICK T : Remains(T, E, n, E[n + 1] \o rest) /\ T[0] = f[n] \o (E[n + 1] \o rest)
        BY <3>2, <4>1
      <4>3. /\ T \in [0 .. n -> Seq(Nat)] /\ T[n] = E[n + 1] \o rest
            /\ \A i \in 1 .. n : T[i - 1] = E[i] \o T[i]
        BY <4>2 DEF Remains
      <4> DEFINE S == [i \in 0 .. n + 1 |-> IF i = n + 1 THEN rest ELSE T[i]]
      <4>4. \A i \in 0 .. n : S[i] = T[i]
        OBVIOUS
      <4>5. S[n + 1] = rest /\ S \in [0 .. n + 1 -> Seq(Nat)]
        BY <4>3
      <4>6. \A i \in 1 .. n + 1 : S[i - 1] = E[i] \o S[i]
        <5> SUFFICES ASSUME NEW i \in 1 .. n + 1 PROVE S[i - 1] = E[i] \o S[i]
          OBVIOUS
        <5> HIDE DEF S
        <5>1. CASE i = n + 1
          <6>1. i - 1 = n /\ n \in 0 .. n
            BY <5>1
          <6> QED BY <5>1, <6>1, <4>3, <4>4, <4>5
        <5>2. CASE i # n + 1
          <6>1. i \in 1 .. n /\ i - 1 \in 0 .. n /\ i \in 0 .. n
            BY <5>2
          <6> QED BY <6>1, <4>3, <4>4
        <5> QED BY <5>1, <5>2
      <4>7. f[n] \o (E[n + 1] \o rest) = (f[n] \o E[n + 1]) \o rest
        BY <3>3, <3>4, Assoc, Zenon
      <4>8. S[0] = f[n + 1] \o rest
        <5>1. 0 \in 0 .. n
          OBVIOUS
        <5> HIDE DEF S
        <5> QED BY <5>1, <3>4, <4>2, <4>4, <4>7
      <4> HIDE DEF S
      <4>9. Remains(S, E, n + 1, rest)
        BY <4>5, <4>6 DEF Remains
      <4> QED
        BY <4>8, <4>9
    <3> QED
      BY <3>4, <3>5
  <2> QED
    BY <2>1, <2>2
<1> HIDE DEF N
<1>3. \A n \in Nat : n \in N
  BY <1>1, <1>2, SetInduction, Zenon
<1> QED
  BY <1>3 DEF N

LEMMA FlattenSuffixes ==
    ASSUME NEW E \in Seq(Seq(Nat)), NEW rest \in Seq(Nat)
    PROVE  /\ FlattenSeq(E) \in Seq(Nat)
           /\ \E S : Remains(S, E, Len(E), rest) /\ S[0] = FlattenSeq(E) \o rest
<1>1. CASE Len(E) = 0
  <2>1. FlattenSeq(E) = E /\ E = << >>
    BY <1>1 DEF FlattenSeq
  <2>2. FlattenSeq(E) \in Seq(Nat) /\ FlattenSeq(E) \o rest = rest
    BY <2>1
  <2> DEFINE S == [i \in 0 .. 0 |-> rest]
  <2>3. Remains(S, E, 0, rest) /\ S[0] = rest
    BY DEF Remains
  <2> HIDE DEF S
  <2> QED
    BY <1>1, <2>2, <2>3
<1>2. CASE Len(E) # 0
  <2> DEFINE f == CHOOSE g : IsFlat(g, E, Len(E))
  <2>1. IsFlat(f, E, Len(E))
    <3>1. Len(E) \in Nat
      BY Elements, Zenon
    <3>2. \E g : IsFlat(g, E, Len(E))
      BY <3>1, FlatExists, Zenon
    <3> QED
      BY <3>2, Zenon
  <2>2. FlattenSeq(E) = f[Len(E)]
    BY <1>2 DEF FlattenSeq, IsFlat
  <2> HIDE DEF f
  <2>3. Len(E) \in Nat /\ Len(E) \in 1 .. Len(E)
    <3>1. Len(E) \in Nat
      BY Elements, Zenon
    <3> QED
      BY <3>1, <1>2
  <2>4. /\ f[Len(E)] \in Seq(Nat)
        /\ \A r \in Seq(Nat) : \E S : Remains(S, E, Len(E), r) /\ S[0] = f[Len(E)] \o r
    BY <2>1, <2>3, FlatSuffixes, Zenon
  <2> QED
    BY <2>2, <2>4, Zenon
<1> QED
  BY <1>1, <1>2

----------------------------------------------------------------------------
(* What was written of a field is read again, whatever follows.             *)

LEMMA NumbersFit ==
    /\ \A n \in Nat : (n < U8 => Fits(n, 1)) /\ (n < U16 => Fits(n, 2))
    /\ \A n \in Nat : (n < U32 => Fits(n, 4)) /\ (n < U64 => Fits(n, 8))
<1>1. U8 \in Nat /\ U16 \in Nat
  BY PayloadsAssumption DEF U8, U16
<1>2. U32 \in Nat
  BY <1>1 DEF U32
<1>3. U64 \in Nat
  BY <1>2 DEF U64
<1>4. \A n, a \in Nat : n < a => n \in 0 .. a - 1
  OBVIOUS
<1> QED
  BY <1>1, <1>2, <1>3, <1>4, WordsFit DEF AllFit

LEMMA WordSizes ==
    /\ U8 \in Nat /\ U16 \in Nat /\ U32 \in Nat /\ U64 \in Nat
    /\ U16 > 24
<1>1. U8 \in Nat /\ U16 \in Nat
  BY PayloadsAssumption DEF U8, U16
<1>2. U32 \in Nat
  BY <1>1 DEF U32
<1>3. U64 \in Nat
  BY <1>2 DEF U64
<1>4. \A r \in Nat : r > 4 => r * r > 24
  <2> SUFFICES ASSUME NEW r \in Nat, r > 4 PROVE r * r > 24
    OBVIOUS
  <2>1. PICK k \in Nat : r = 5 + k
    <3>1. r - 5 \in Nat /\ r = 5 + (r - 5)
      OBVIOUS
    <3> QED BY <3>1
  <2>2. r * r = 25 + 10 * k + k * k /\ k * k \in Nat
    BY <2>1
  <2> QED
    BY <2>2
<1> QED
  BY <1>1, <1>2, <1>3, <1>4, PayloadsAssumption DEF U16, U8

LEMMA Cat ==
    ASSUME NEW a \in Seq(Nat), NEW b \in Seq(Nat)
    PROVE  a \o b \in Seq(Nat)
  OBVIOUS

LEMMA GotFields ==
    ASSUME NEW v, NEW r
    PROVE  Got(v, r).ok /\ Got(v, r).val = v /\ Got(v, r).src = r
  BY DEF Got

LEMMA ThenGot ==
    ASSUME NEW m, NEW s, NEW key, NEW v, NEW r
    PROVE  Then(Got(m, s), key, Got(v, r)) = Got(insert(m, key, v), r)
  BY DEF Then, Got

(* The first field of a record is read, and the rest follows.               *)
LEMMA ReadNumber ==
    ASSUME NEW w \in Nat, NEW n \in Nat, Fits(n, w), NEW rest \in Seq(Nat),
           NEW m, NEW s, NEW key
    PROVE  Then(Got(m, s), key, get(put(n, w) \o rest, w)) = Got(insert(m, key, n), rest)
<1>1. get(put(n, w) \o rest, w) = Got(n, rest)
  BY GetWritten
<1> QED
  BY <1>1, ThenGot

LEMMA CodesAre ==
    /\ Codes["Flags"] \subseteq Nat /\ Codes["TraceFlags"] \subseteq Nat
    /\ Codes["ResponseCode"] \subseteq Nat /\ Codes["ErrorCode"] \subseteq Nat
    /\ Codes["ChecksumType"] \subseteq Nat
  BY DEF Codes

LEMMA ReadCode ==
    ASSUME NEW kind, NEW v \in Codes[kind], v \in Nat, NEW rest \in Seq(Nat)
    PROVE  decode_bitflag(kind, <<v>> \o rest) = Got(v, rest)
<1>1. get(<<v>> \o rest, 1) = Got(v, rest)
  BY GetByte
<1> QED
  BY <1>1 DEF decode_bitflag, Got

LEMMA ReadString ==
    ASSUME NEW w \in Nat, NEW s \in Seq(Nat), Fits(Len(s), w), NEW rest \in Seq(Nat)
    PROVE  /\ encode_string_field(s, w) \in Seq(Nat)
           /\ Len(encode_string_field(s, w)) = w + Len(s)
           /\ decode_string_field(encode_string_field(s, w) \o rest, w) = Got(s, rest)
<1>0. Len(s) \in Nat
  OBVIOUS
<1>1. PICK p \in Seq(Nat) : p = put(Len(s), w) /\ Len(p) = w
  BY <1>0, PutBytes
<1>2. s \o rest \in Seq(Nat)
  OBVIOUS
<1>3. encode_string_field(s, w) = p \o s
  BY <1>1 DEF encode_string_field
<1>4. (p \o s) \o rest = p \o (s \o rest)
  BY Assoc
<1>5. get(p \o (s \o rest), w) = Got(Len(s), s \o rest)
  BY <1>0, <1>1, <1>2, GetWritten
<1>6. /\ Rest(s \o rest, Len(s)) = rest /\ SubSeq(s \o rest, 1, Len(s)) = s
      /\ Len(s \o rest) >= Len(s)
  BY RestConcat
<1>7. decode_string_field(p \o (s \o rest), w) = Got(s, rest)
  <2> DEFINE n == Got(Len(s), s \o rest)
  <2>1. n.ok /\ n.val = Len(s) /\ n.src = s \o rest
    BY DEF Got
  <2> HIDE DEF n
  <2>2. get(p \o (s \o rest), w) = n
    BY <1>5 DEF n
  <2>3. Len(n.src) >= n.val
    BY <2>1, <1>6
  <2>4. SubSeq(n.src, 1, n.val) = s /\ Rest(n.src, n.val) = rest
    BY <2>1, <1>6, Zenon
  <2> QED
    BY <2>1, <2>2, <2>3, <2>4, Zenon DEF decode_string_field
<1>8. p \o s \in Seq(Nat) /\ Len(p \o s) = w + Len(s)
  BY <1>1, RestConcat
<1> QED
  BY <1>3, <1>4, <1>7, <1>8, Zenon

LEMMA ReadTracing ==
    ASSUME NEW t \in Tracings, NEW rest \in Seq(Nat)
    PROVE  /\ encode_tracing(t) \in Seq(Nat)
           /\ decode_tracing(encode_tracing(t) \o rest) = Got(t, rest)
<1>1. /\ t.span_id \in Nat /\ t.parent_id \in Nat /\ t.trace_id \in Nat
      /\ t.span_id < U64 /\ t.parent_id < U64 /\ t.trace_id < U64
      /\ t.trace_flags \in Codes["TraceFlags"] /\ t.trace_flags \in Nat
  BY WordSizes, CodesAre DEF Tracings, Number
<1>2. Fits(t.span_id, 8) /\ Fits(t.parent_id, 8) /\ Fits(t.trace_id, 8)
  BY <1>1, NumbersFit
<1> DEFINE a == put(t.span_id, 8)
           b == put(t.parent_id, 8)
           c == put(t.trace_id, 8)
           d == <<t.trace_flags>>
           r1 == d \o rest
           r2 == c \o r1
           r3 == b \o r2
           src == a \o r3
<1>3. a \in Seq(Nat) /\ b \in Seq(Nat) /\ c \in Seq(Nat)
  BY <1>1, PutBytes
<1>4. d \in Seq(Nat)
  BY <1>1
<1>6. r1 \in Seq(Nat)
  <2> HIDE DEF d
  <2> QED BY <1>4, Cat
<1>7. r2 \in Seq(Nat)
  <2> HIDE DEF c, r1
  <2> QED BY <1>3, <1>6, Cat
<1>8. r3 \in Seq(Nat)
  <2> HIDE DEF b, r2
  <2> QED BY <1>3, <1>7, Cat
<1>5. encode_tracing(t) \in Seq(Nat) /\ encode_tracing(t) \o rest = src
  <2> DEFINE ab == a \o b
             abc == ab \o c
  <2>1. encode_tracing(t) = abc \o d
    BY DEF encode_tracing
  <2> HIDE DEF a, b, c, d, r2, r3
  <2>2. ab \in Seq(Nat) /\ (a \o b) \o r2 = a \o (b \o r2)
    <3>1. a \in Seq(Nat) /\ b \in Seq(Nat)
      BY <1>3
    <3> QED
      BY <3>1, <1>7, Assoc, SMTT(30)
  <2> HIDE DEF ab, r1
  <2>3. abc \in Seq(Nat) /\ (ab \o c) \o r1 = ab \o (c \o r1)
    BY <1>3, <1>6, <2>2, Assoc, Cat, ZenonT(40)
  <2> HIDE DEF abc
  <2>4. abc \o d \in Seq(Nat) /\ (abc \o d) \o rest = abc \o (d \o rest)
    BY <1>4, <2>3, Assoc, Cat
  <2> QED
    BY <2>1, <2>2, <2>3, <2>4, Zenon DEF src, r3, r2, r1, ab, abc
<1>9. decode_bitflag("TraceFlags", r1) = Got(t.trace_flags, rest)
  BY <1>1, ReadCode
<1> DEFINE m1 == insert(<< >>, "span_id", t.span_id)
           m2 == insert(m1, "parent_id", t.parent_id)
           m3 == insert(m2, "trace_id", t.trace_id)
           m4 == insert(m3, "trace_flags", t.trace_flags)
<1>10. Then(Got(<< >>, src), "span_id", get(src, 8)) = Got(m1, r3)
  <2> HIDE DEF r3
  <2> QED BY <1>1, <1>2, <1>8, ReadNumber
<1>11. Then(Got(m1, r3), "parent_id", get(r3, 8)) = Got(m2, r2)
  <2> HIDE DEF r2, m1
  <2> QED BY <1>1, <1>2, <1>7, ReadNumber
<1>12. Then(Got(m2, r2), "trace_id", get(r2, 8)) = Got(m3, r1)
  <2> HIDE DEF r1, m2
  <2> QED BY <1>1, <1>2, <1>6, ReadNumber
<1>13. decode_tracing(src) = Got(m4, rest)
  <2> HIDE DEF m1, m2, m3, src, r1, r2, r3
  <2>1. Then(Got(m3, r1), "trace_flags", decode_bitflag("TraceFlags", r1)) = Got(m4, rest)
    BY <1>9, ThenGot
  <2>2. Got(m1, r3).src = r3 /\ Got(m2, r2).src = r2 /\ Got(m3, r1).src = r1
    BY GotFields
  <2> HIDE DEF m4
  <2> QED
    BY <1>10, <1>11, <1>12, <2>1, <2>2 DEF decode_tracing
<1>14. m4 = t
  <2>1. DOMAIN m1 = {"span_id"} /\ m1["span_id"] = t.span_id
    BY DEF insert
  <2> HIDE DEF m1
  <2>2. /\ DOMAIN m2 = {"span_id", "parent_id"} /\ m2["span_id"] = t.span_id
        /\ m2["parent_id"] = t.parent_id
    BY <2>1 DEF insert
  <2> HIDE DEF m2
  <2>3. /\ DOMAIN m3 = {"span_id", "parent_id", "trace_id"} /\ m3["span_id"] = t.span_id
        /\ m3["parent_id"] = t.parent_id /\ m3["trace_id"] = t.trace_id
    BY <2>2 DEF insert
  <2> HIDE DEF m3
  <2>4. m4 = [k \in {"span_id", "parent_id", "trace_id", "trace_flags"} |->
                IF k = "trace_flags" THEN t.trace_flags ELSE m3[k]]
    BY <2>3 DEF insert
  <2> HIDE DEF m4
  <2>5. t = [span_id |-> t.span_id, parent_id |-> t.parent_id, trace_id |-> t.trace_id,
             trace_flags |-> t.trace_flags]
    BY DEF Tracings
  <2> QED
    BY <2>3, <2>4, <2>5
<1> HIDE DEF m4, src
<1> QED
  BY <1>5, <1>13, <1>14

LEMMA ReadChecksum ==
    ASSUME NEW c \in Checksums, NEW rest \in Seq(Nat)
    PROVE  /\ encode_checksum(c) \in Seq(Nat)
           /\ decode_checksum(encode_checksum(c) \o rest) = Got(c, rest)
<1>1. /\ c.type \in Nat /\ c.type \in Codes["ChecksumType"]
      /\ c.value \in Nat /\ c.value < U32 /\ (c.type = 0 => c.value = 0)
      /\ c = [type |-> c.type, value |-> c.value]
  BY WordSizes, CodesAre DEF Checksums
<1>2. Fits(c.value, 4)
  BY <1>1, NumbersFit
<1>3. PICK d \in Seq(Nat) : d = IF c.type = 0 THEN << >> ELSE put(c.value, 4)
  <2>1. put(c.value, 4) \in Seq(Nat)
    <3>1. c.value \in Nat /\ 4 \in Nat
      BY <1>1
    <3> QED
      BY <3>1, PutBytes, Zenon
  <2>2. << >> \in Seq(Nat)
    OBVIOUS
  <2> QED
    BY <2>1, <2>2, Zenon
<1>4. PICK r1 \in Seq(Nat) : r1 = d \o rest
  BY Cat, Zenon
<1>5. encode_checksum(c) = <<c.type>> \o d /\ <<c.type>> \in Seq(Nat)
  BY <1>1, <1>3 DEF encode_checksum
<1>6. encode_checksum(c) \o rest = <<c.type>> \o r1 /\ encode_checksum(c) \in Seq(Nat)
  BY <1>4, <1>5, Assoc
<1>7. decode_bitflag("ChecksumType", <<c.type>> \o r1) = Got(c.type, r1)
  BY <1>1, ReadCode
<1>8. (IF c.type # 0 THEN get(r1, 4) ELSE Got(0, r1)) = Got(c.value, rest)
  <2>1. CASE c.type = 0
    <3>1. r1 = rest
      BY <2>1, <1>3, <1>4
    <3> QED BY <2>1, <3>1, <1>1
  <2>2. CASE c.type # 0
    BY <2>2, <1>1, <1>2, <1>3, <1>4, GetWritten
  <2> QED
    BY <2>1, <2>2
<1> DEFINE src == <<c.type>> \o r1
           m1 == insert(<< >>, "type", c.type)
           m2 == insert(m1, "value", c.value)
<1>9. decode_checksum(src) = Got(m2, rest)
  <2> HIDE DEF src, m1, m2
  <2>1. decode_bitflag("ChecksumType", src) = Got(c.type, r1)
    BY <1>7 DEF src
  <2>2. Then(Got(<< >>, src), "type", Got(c.type, r1)) = Got(m1, r1)
    BY ThenGot DEF m1
  <2>3. Then(Got(m1, r1), "value", Got(c.value, rest)) = Got(m2, rest)
    BY ThenGot DEF m2
  <2>4. Got(c.type, r1).ok /\ Got(c.type, r1).val = c.type /\ Got(c.type, r1).src = r1
    BY GotFields
  <2> QED
    BY <1>8, <2>1, <2>2, <2>3, <2>4 DEF decode_checksum
<1>10. m2 = c
  <2>1. DOMAIN m1 = {"type"} /\ m1["type"] = c.type
    BY DEF insert
  <2> HIDE DEF m1
  <2>2. m2 = [k \in {"type", "value"} |-> IF k = "value" THEN c.value ELSE m1[k]]
    BY <2>1 DEF insert
  <2> HIDE DEF m2
  <2> QED
    BY <1>1, <2>1, <2>2
<1> HIDE DEF m2
<1> QED
  BY <1>6, <1>9, <1>10

(* The map of the first i pairs.                                            *)
MapOf(h, i) == [k \in {h[j][1] : j \in 1 .. i} |-> h[CHOOSE j \in 1 .. i : h[j][1] = k][2]]

LEMMA HeaderPairs ==
    ASSUME NEW h \in Headers
    PROVE  /\ Len(h) \in Nat /\ DOMAIN h = 1 .. Len(h)
           /\ \A i \in 1 .. Len(h) : h[i][1] \in Seq(Nat) /\ h[i][2] \in Seq(Nat)
           /\ \A i, j \in 1 .. Len(h) : h[i][1] = h[j][1] => i = j
<1> DEFINE P == Seq(Nat) \X Seq(Nat)
<1>1. h \in Seq(P) /\ \A i, j \in 1 .. Len(h) : h[i][1] = h[j][1] => i = j
  BY Zenon DEF Headers
<1>2. \A x \in P : x[1] \in Seq(Nat) /\ x[2] \in Seq(Nat)
  OBVIOUS
<1> HIDE DEF P
<1>3. Len(h) \in Nat /\ DOMAIN h = 1 .. Len(h) /\ \A i \in 1 .. Len(h) : h[i] \in P
  BY <1>1, Elements, Zenon
<1> QED
  BY <1>1, <1>2, <1>3, Zenon

(* Pairs of a key and a value in which no key occurs twice.                 *)
DistinctKeys(h) ==
    Len(h) \in Nat /\ \A i, j \in 1 .. Len(h) : h[i][1] = h[j][1] => i = j

LEMMA MapEntries ==
    ASSUME NEW h, DistinctKeys(h), NEW i \in 0 .. Len(h)
    PROVE  /\ DOMAIN MapOf(h, i) = {h[j][1] : j \in 1 .. i}
           /\ \A j \in 1 .. i : MapOf(h, i)[h[j][1]] = h[j][2]
<1>1. Len(h) \in Nat /\ \A j, k \in 1 .. Len(h) : h[j][1] = h[k][1] => j = k
  BY DEF DistinctKeys
<1>2. DOMAIN MapOf(h, i) = {h[j][1] : j \in 1 .. i}
  BY DEF MapOf
<1>3. ASSUME NEW j \in 1 .. i PROVE MapOf(h, i)[h[j][1]] = h[j][2]
  <2> DEFINE c == CHOOSE k \in 1 .. i : h[k][1] = h[j][1]
  <2>1. c \in 1 .. i /\ h[c][1] = h[j][1]
    OBVIOUS
  <2>2. MapOf(h, i)[h[j][1]] = h[c][2]
    BY DEF MapOf
  <2> HIDE DEF c
  <2>3. c \in 1 .. Len(h) /\ j \in 1 .. Len(h)
    BY <1>1, <2>1
  <2>4. c = j
    BY <1>1, <2>1, <2>3, Zenon
  <2> QED
    BY <2>2, <2>4
<1> QED
  BY <1>2, <1>3

LEMMA MapInsert ==
    ASSUME NEW h, DistinctKeys(h), NEW i \in 1 .. Len(h)
    PROVE  MapOf(h, i) = insert(MapOf(h, i - 1), h[i][1], h[i][2])
<1>0. Len(h) \in Nat
  BY DEF DistinctKeys
<1>1. /\ i \in 0 .. Len(h) /\ i - 1 \in 0 .. Len(h) /\ i \in 1 .. i
      /\ \A j \in 1 .. i : j = i \/ j \in 1 .. i - 1
      /\ \A j \in 1 .. i - 1 : j \in 1 .. i
  BY <1>0
<1> DEFINE m == MapOf(h, i)
           p == MapOf(h, i - 1)
           q == insert(p, h[i][1], h[i][2])
<1>2. /\ DOMAIN m = {h[j][1] : j \in 1 .. i} /\ \A j \in 1 .. i : m[h[j][1]] = h[j][2]
      /\ DOMAIN p = {h[j][1] : j \in 1 .. i - 1} /\ \A j \in 1 .. i - 1 : p[h[j][1]] = h[j][2]
  BY <1>1, MapEntries, Zenon
<1>3. m = [k \in DOMAIN m |-> m[k]]
  BY DEF MapOf
<1> HIDE DEF m, p
<1>4. q = [k \in DOMAIN q |-> q[k]] /\ DOMAIN q = DOMAIN p \cup {h[i][1]}
  BY DEF insert
<1>5. DOMAIN q = DOMAIN m
  <2> HIDE DEF q
  <2> QED BY <1>1, <1>2, <1>4
<1>6. ASSUME NEW k \in DOMAIN m PROVE q[k] = m[k]
  <2>1. PICK j \in 1 .. i : k = h[j][1]
    BY <1>2
  <2>2. m[k] = h[j][2]
    BY <1>2, <2>1
  <2>3. CASE k = h[i][1]
    <3>1. m[k] = h[i][2]
      BY <2>3, <1>1, <1>2
    <3>2. q[k] = h[i][2]
      BY <2>3 DEF insert
    <3> QED BY <3>1, <3>2
  <2>4. CASE k # h[i][1]
    <3>1. j \in 1 .. i - 1
      BY <2>1, <2>4, <1>1
    <3>2. k \in DOMAIN p /\ p[k] = h[j][2]
      BY <3>1, <2>1, <1>2
    <3>3. q[k] = p[k]
      BY <3>2, <2>4 DEF insert
    <3> QED BY <2>2, <3>2, <3>3
  <2> QED BY <2>3, <2>4
<1> HIDE DEF q
<1>7. m = q
  BY <1>3, <1>4, <1>5, <1>6
<1> QED
  BY <1>7 DEF m, p, q

HeaderStep(c, w) ==
    LET key == decode_string_field(c.src, w)
        val == decode_string_field(key.src, w)
    IN  IF c.ok /\ key.ok /\ val.ok
        THEN Got(insert(c.val, key.val, val.val), val.src) ELSE Failed

IsHeaders(d, src, w, m) ==
    d = [i \in 0 .. m |-> IF i = 0 THEN Got(<< >>, src) ELSE HeaderStep(d[i - 1], w)]

LEMMA HeadersAre ==
    ASSUME NEW src, NEW rest, NEW w, NEW m \in Nat, NEW h, IsHeaders(h, rest, w, m),
           get(src, w) = Got(m, rest)
    PROVE  decode_headers_field(src, w) = h[m]
<1> DEFINE c == CHOOSE g : IsHeaders(g, rest, w, m)
<1>1. IsHeaders(c, rest, w, m)
  OBVIOUS
<1>2. decode_headers_field(src, w) = c[m]
  <2> DEFINE n == get(src, w)
             e == CHOOSE g : IsHeaders(g, n.src, w, n.val)
  <2>1. decode_headers_field(src, w) = IF n.ok THEN e[n.val] ELSE Failed
    BY DEF decode_headers_field, IsHeaders, HeaderStep
  <2>2. n.ok /\ n.val = m /\ n.src = rest
    BY DEF Got
  <2> HIDE DEF n
  <2>3. e = c
    BY <2>2
  <2> HIDE DEF e, c
  <2> QED
    BY <2>1, <2>2, <2>3
<1> HIDE DEF c
<1>3. /\ \A i \in 0 .. m : c[i] = IF i = 0 THEN Got(<< >>, rest) ELSE HeaderStep(c[i - 1], w)
      /\ \A i \in 0 .. m : h[i] = IF i = 0 THEN Got(<< >>, rest) ELSE HeaderStep(h[i - 1], w)
  BY <1>1 DEF IsHeaders
<1> DEFINE S == {i \in Nat : i <= m => c[i] = h[i]}
<1>4. 0 \in S
  <2>1. 0 \in 0 .. m
    OBVIOUS
  <2> QED
    BY <2>1, <1>3
<1>5. ASSUME NEW i \in Nat, i \in S PROVE i + 1 \in S
  <2>1. ASSUME i + 1 <= m PROVE c[i + 1] = h[i + 1]
    <3>1. i + 1 \in 0 .. m /\ i + 1 # 0 /\ (i + 1) - 1 = i /\ i <= m
      BY <2>1
    <3>2. /\ c[i + 1] = HeaderStep(c[(i + 1) - 1], w)
          /\ h[i + 1] = HeaderStep(h[(i + 1) - 1], w)
      BY <3>1, <1>3, Zenon
    <3> QED
      BY <3>1, <3>2, <1>5
  <2> QED
    BY <2>1
<1> HIDE DEF S
<1>6. m \in S
  BY <1>4, <1>5, SetInduction, Zenon
<1>7. c[m] = h[m]
  BY <1>6 DEF S
<1> QED
  BY <1>2, <1>7

LEMMA SeqOfLength ==
    ASSUME NEW Z, NEW m \in Nat, NEW s \in [1 .. m -> Z]
    PROVE  s \in Seq(Z) /\ Len(s) = m
  OBVIOUS

LEMMA ReadHeader ==
    ASSUME NEW w \in Nat, NEW k \in Seq(Nat), NEW v \in Seq(Nat), Fits(Len(k), w), Fits(Len(v), w),
           NEW rest \in Seq(Nat), NEW m
    PROVE  /\ encode_string_field(k, w) \o encode_string_field(v, w) \in Seq(Nat)
           /\ HeaderStep(Got(m, (encode_string_field(k, w) \o encode_string_field(v, w)) \o rest), w)
              = Got(insert(m, k, v), rest)
<1>1. PICK a \in Seq(Nat) : a = encode_string_field(k, w)
  BY ReadString
<1>2. PICK b \in Seq(Nat) : b = encode_string_field(v, w)
  BY ReadString
<1>3. b \o rest \in Seq(Nat) /\ a \o b \in Seq(Nat) /\ (a \o b) \o rest = a \o (b \o rest)
  <2>1. b \o rest \in Seq(Nat)
    OBVIOUS
  <2>2. a \o b \in Seq(Nat)
    OBVIOUS
  <2>3. (a \o b) \o rest = a \o (b \o rest)
    BY SMTT(30)
  <2> QED BY <2>1, <2>2, <2>3
<1>4. decode_string_field(a \o (b \o rest), w) = Got(k, b \o rest)
  BY <1>1, <1>3, ReadString, ZenonT(40)
<1>5. decode_string_field(b \o rest, w) = Got(v, rest)
  BY <1>2, ReadString
<1> DEFINE src == a \o (b \o rest)
<1>6. HeaderStep(Got(m, src), w) = Got(insert(m, k, v), rest)
  <2>1. /\ Got(m, src).ok /\ Got(m, src).val = m /\ Got(m, src).src = src
        /\ Got(k, b \o rest).ok /\ Got(k, b \o rest).val = k /\ Got(k, b \o rest).src = b \o rest
        /\ Got(v, rest).ok /\ Got(v, rest).val = v /\ Got(v, rest).src = rest
    BY DEF Got
  <2> HIDE DEF src
  <2>2. decode_string_field(src, w) = Got(k, b \o rest)
    BY <1>4 DEF src
  <2> QED
    BY <1>5, <2>1, <2>2 DEF HeaderStep
<1> QED
  BY <1>1, <1>2, <1>3, <1>6

LEMMA ReadHeaders ==
    ASSUME NEW w \in Nat, NEW h \in Headers, Fits(Len(h), w),
           \A i \in 1 .. Len(h) : Fits(Len(h[i][1]), w) /\ Fits(Len(h[i][2]), w),
           NEW rest \in Seq(Nat)
    PROVE  /\ encode_header_fields(h, w) \in Seq(Nat)
           /\ decode_headers_field(encode_header_fields(h, w) \o rest, w)
              = Got(MapOf(h, Len(h)), rest)
<1> DEFINE L == Len(h)
           E == [i \in DOMAIN h |-> encode_string_field(h[i][1], w) \o encode_string_field(h[i][2], w)]
<1>1. /\ L \in Nat /\ DOMAIN h = 1 .. L
      /\ \A i \in 1 .. L : h[i][1] \in Seq(Nat) /\ h[i][2] \in Seq(Nat)
  BY HeaderPairs, Zenon
<1>2. \A i \in 1 .. L : encode_string_field(h[i][1], w) \o encode_string_field(h[i][2], w) \in Seq(Nat)
  <2> SUFFICES ASSUME NEW i \in 1 .. L
               PROVE  encode_string_field(h[i][1], w) \o encode_string_field(h[i][2], w) \in Seq(Nat)
    OBVIOUS
  <2>1. /\ h[i][1] \in Seq(Nat) /\ h[i][2] \in Seq(Nat)
        /\ Fits(Len(h[i][1]), w) /\ Fits(Len(h[i][2]), w)
    BY <1>1, Zenon
  <2> QED
    BY <2>1, ReadHeader
<1>3. E \in Seq(Seq(Nat)) /\ Len(E) = L /\ \A i \in 1 .. L :
         E[i] = encode_string_field(h[i][1], w) \o encode_string_field(h[i][2], w)
  <2> HIDE DEF L
  <2>1. E \in [1 .. L -> Seq(Nat)] /\ \A i \in 1 .. L :
           E[i] = encode_string_field(h[i][1], w) \o encode_string_field(h[i][2], w)
    BY <1>1, <1>2
  <2> HIDE DEF E
  <2> QED BY <1>1, <2>1, SeqOfLength, Zenon
<1>4. encode_header_fields(h, w) = put(L, w) \o FlattenSeq(E)
  BY DEF encode_header_fields
<1> HIDE DEF E, L
<1>5. FlattenSeq(E) \in Seq(Nat)
  BY <1>3, FlattenSuffixes, Zenon
<1>6. PICK S : Remains(S, E, L, rest) /\ S[0] = FlattenSeq(E) \o rest
  BY <1>3, FlattenSuffixes, Zenon
<1>7. /\ \A i \in 0 .. L : S[i] \in Seq(Nat)
      /\ S[L] = rest
      /\ \A i \in 1 .. L : S[i - 1] = E[i] \o S[i]
  BY <1>6 DEF Remains
<1>8. S[0] \in Seq(Nat) /\ put(L, w) \in Seq(Nat)
  <2>1. 0 \in 0 .. L
    BY <1>1
  <2> QED BY <2>1, <1>1, <1>7, PutBytes
<1>9. /\ encode_header_fields(h, w) \in Seq(Nat)
      /\ encode_header_fields(h, w) \o rest = put(L, w) \o S[0]
  <2>1. (put(L, w) \o FlattenSeq(E)) \o rest = put(L, w) \o (FlattenSeq(E) \o rest)
    BY <1>5, <1>8, Assoc, ZenonT(40)
  <2>2. put(L, w) \o FlattenSeq(E) \in Seq(Nat)
    BY <1>5, <1>8, Cat
  <2> QED BY <1>4, <1>6, <2>1, <2>2
<1>10. get(put(L, w) \o S[0], w) = Got(L, S[0])
  <2>1. Fits(L, w)
    BY DEF L
  <2> QED BY <2>1, <1>1, <1>8, GetWritten
<1> DEFINE d == [i \in 0 .. L |-> Got(MapOf(h, i), S[i])]
<1>11. \A i \in 0 .. L : d[i] = IF i = 0 THEN Got(<< >>, S[0]) ELSE HeaderStep(d[i - 1], w)
  <2> SUFFICES ASSUME NEW i \in 0 .. L
               PROVE  d[i] = IF i = 0 THEN Got(<< >>, S[0]) ELSE HeaderStep(d[i - 1], w)
    OBVIOUS
  <2>1. CASE i = 0
    <3>1. MapOf(h, 0) = << >>
      BY DEF MapOf
    <3> QED BY <3>1, <2>1
  <2>2. CASE i # 0
    <3>1. i \in 1 .. L /\ i - 1 \in 0 .. L
      BY <2>2, <1>1
    <3>2. /\ h[i][1] \in Seq(Nat) /\ h[i][2] \in Seq(Nat)
          /\ Fits(Len(h[i][1]), w) /\ Fits(Len(h[i][2]), w) /\ S[i] \in Seq(Nat)
      BY <3>1, <1>1, <1>7, Zenon DEF L
    <3>3. S[i - 1] = (encode_string_field(h[i][1], w) \o encode_string_field(h[i][2], w)) \o S[i]
      BY <3>1, <1>3, <1>7
    <3>4. HeaderStep(Got(MapOf(h, i - 1), S[i - 1]), w)
          = Got(insert(MapOf(h, i - 1), h[i][1], h[i][2]), S[i])
      BY <3>2, <3>3, ReadHeader, SMTT(30)
    <3>5. MapOf(h, i) = insert(MapOf(h, i - 1), h[i][1], h[i][2])
      <4>1. DistinctKeys(h)
        BY HeaderPairs, Zenon DEF DistinctKeys
      <4> QED BY <3>1, <4>1, MapInsert DEF L
    <3>6. d[i] = Got(MapOf(h, i), S[i]) /\ d[i - 1] = Got(MapOf(h, i - 1), S[i - 1])
      BY <3>1
    <3> HIDE DEF d
    <3> QED BY <2>2, <3>4, <3>5, <3>6
  <2> QED BY <2>1, <2>2
<1>12. IsHeaders(d, S[0], w, L)
  BY <1>11 DEF IsHeaders
<1>13. d[L] = Got(MapOf(h, L), rest)
  BY <1>1, <1>7
<1> HIDE DEF d
<1>14. decode_headers_field(put(L, w) \o S[0], w) = d[L]
  BY <1>1, <1>10, <1>12, HeadersAre
<1> QED
  BY <1>9, <1>13, <1>14 DEF L

ArgStep(c) ==
    LET arg == decode_arg(c.src)
    IN  IF c.src = << >> THEN c
        ELSE IF arg.ok THEN Got(Append(c.val, arg.val), arg.src) ELSE Failed

IsArgs(d, src, m) ==
    d = [i \in 0 .. m |-> IF i = 0 THEN Got(<< >>, src) ELSE ArgStep(d[i - 1])]

LEMMA ArgsAre ==
    ASSUME NEW src, NEW h, IsArgs(h, src, MAX_FRAME_ARGS)
    PROVE  decode_args(src) = IF src # << >> /\ h[MAX_FRAME_ARGS].src = << >>
                              THEN h[MAX_FRAME_ARGS] ELSE Failed
<1> DEFINE m == MAX_FRAME_ARGS
           c == CHOOSE g : IsArgs(g, src, m)
<1>1. IsArgs(c, src, m)
  OBVIOUS
<1>2. decode_args(src) = IF src # << >> /\ c[m].src = << >> THEN c[m] ELSE Failed
  BY DEF decode_args, IsArgs, ArgStep
<1>0. m \in Nat
  BY DEF MAX_FRAME_ARGS
<1> HIDE DEF c, m
<1>3. /\ \A i \in 0 .. m : c[i] = IF i = 0 THEN Got(<< >>, src) ELSE ArgStep(c[i - 1])
      /\ \A i \in 0 .. m : h[i] = IF i = 0 THEN Got(<< >>, src) ELSE ArgStep(h[i - 1])
  BY <1>1 DEF IsArgs, m
<1> DEFINE S == {i \in Nat : i <= m => c[i] = h[i]}
<1>4. 0 \in S
  <2>1. 0 \in 0 .. m
    BY <1>0
  <2> QED
    BY <2>1, <1>3
<1>5. ASSUME NEW i \in Nat, i \in S PROVE i + 1 \in S
  <2>1. ASSUME i + 1 <= m PROVE c[i + 1] = h[i + 1]
    <3>1. i + 1 \in 0 .. m /\ i + 1 # 0 /\ (i + 1) - 1 = i /\ i <= m
      BY <1>0, <2>1
    <3>2. c[i + 1] = ArgStep(c[(i + 1) - 1]) /\ h[i + 1] = ArgStep(h[(i + 1) - 1])
      BY <3>1, <1>3, Zenon
    <3> QED
      BY <3>1, <3>2, <1>5
  <2> QED
    BY <2>1
<1> HIDE DEF S
<1>6. m \in S
  BY <1>0, <1>4, <1>5, SetInduction, Zenon
<1>7. c[m] = h[m]
  BY <1>0, <1>6 DEF S
<1> QED
  BY <1>2, <1>7 DEF m

LEMMA FirstElements ==
    ASSUME NEW Z, NEW s \in Seq(Z)
    PROVE  /\ SubSeq(s, 1, 0) = << >> /\ SubSeq(s, 1, Len(s)) = s
           /\ \A i \in 1 .. Len(s) : SubSeq(s, 1, i) = Append(SubSeq(s, 1, i - 1), s[i])
<1>1. SubSeq(s, 1, 0) = << >> /\ SubSeq(s, 1, Len(s)) = s
  OBVIOUS
<1>2. ASSUME NEW i \in 1 .. Len(s)
      PROVE  SubSeq(s, 1, i) = Append(SubSeq(s, 1, i - 1), s[i])
  OBVIOUS
<1> QED
  BY <1>1, <1>2

LEMMA ModSmall ==
    ASSUME NEW n \in Nat, NEW m \in Nat, n < m
    PROVE  n % m = n
  OBVIOUS

LEMMA ArgBytes ==
    ASSUME NEW a \in Seq(Nat), NEW rest \in Seq(Nat)
    PROVE  LET p == put(Len(a) % U16, 2)
           IN  /\ p \o a \in Seq(Nat)
               /\ Len((p \o a) \o rest) = 2 + Len(a) + Len(rest)
               /\ (p \o a) \o rest = p \o (a \o rest)
<1>1. Len(a) % U16 \in Nat
  BY WordSizes
<1>2. PICK p \in Seq(Nat) : p = put(Len(a) % U16, 2) /\ Len(p) = 2
  BY <1>1, PutBytes
<1>3. p \o a \in Seq(Nat) /\ Len(p \o a) = Len(p) + Len(a)
  BY RestConcat
<1>4. Len((p \o a) \o rest) = Len(p \o a) + Len(rest)
  BY <1>3, RestConcat
<1>5. (p \o a) \o rest = p \o (a \o rest)
  BY Assoc
<1>6. Len((p \o a) \o rest) = 2 + Len(a) + Len(rest)
  BY <1>2, <1>3, <1>4
<1> QED
  BY <1>2, <1>3, <1>5, <1>6, Zenon

(* One argument is read: its length, compared with what is left of the      *)
(* frame, and its bytes.                                                    *)
LEMMA ReadArg ==
    ASSUME NEW a \in Seq(Nat), NEW rest \in Seq(Nat), 2 + Len(a) + Len(rest) < U16
    PROVE  decode_arg((put(Len(a) % U16, 2) \o a) \o rest) = Got(a, rest)
<1>1. Len(a) \in Nat /\ Len(rest) \in Nat /\ Len(a) < U16 /\ U16 \in Nat
  BY WordSizes
<1>2. Len(a) % U16 = Len(a)
  BY <1>1, ModSmall, Zenon
<1> DEFINE p == put(Len(a), 2)
           r == a \o rest
           src == p \o r
<1>3. (put(Len(a) % U16, 2) \o a) \o rest = src /\ Len(src) = 2 + Len(a) + Len(rest)
  <2> DEFINE x == put(Len(a) % U16, 2)
  <2>1. (x \o a) \o rest = x \o (a \o rest) /\ Len((x \o a) \o rest) = 2 + Len(a) + Len(rest)
    BY ArgBytes, Zenon
  <2>2. x = p
    BY <1>2
  <2> HIDE DEF x, p
  <2>3. (x \o a) \o rest = src /\ Len(src) = 2 + Len(a) + Len(rest)
    BY <2>1, <2>2
  <2> QED BY <2>3 DEF x
<1>4. r \in Seq(Nat)
  BY Cat
<1>7. 2 + Len(a) + Len(rest) \in Nat
  BY <1>1
<1>8. Len(src) % U16 = 2 + Len(a) + Len(rest)
  <2> HIDE DEF src
  <2> QED BY <1>1, <1>3, <1>7, ModSmall, Zenon
<1>9. Fits(Len(a), 2)
  BY <1>1, NumbersFit
<1>10. get(src, 2) = Got(Len(a), r)
  <2> HIDE DEF r
  <2> QED BY <1>1, <1>4, <1>9, GetWritten
<1>11. Rest(r, Len(a)) = rest /\ SubSeq(r, 1, Len(a)) = a
  BY RestConcat
<1> HIDE DEF src, r
<1>12. decode_arg(src) = Got(a, rest)
  <2> DEFINE n == Got(Len(a), r)
  <2>1. n.ok /\ n.val = Len(a) /\ n.src = r
    BY DEF Got
  <2> HIDE DEF n
  <2>2. get(src, 2) = n
    BY <1>10 DEF n
  <2>3. ~ (n.val > (Len(src) % U16) - 2)
    BY <1>1, <1>8, <2>1
  <2>4. SubSeq(n.src, 1, n.val) = a /\ Rest(n.src, n.val) = rest
    BY <2>1, <1>11, Zenon
  <2> QED
    BY <2>1, <2>2, <2>3, <2>4, Zenon DEF decode_arg
<1> QED
  BY <1>3, <1>12

LEMMA ArgsBytes ==
    ASSUME NEW args \in Seq(Seq(Nat))
    PROVE  encode_args(args) \in Seq(Nat)
<1> DEFINE L == Len(args)
           E == [i \in DOMAIN args |-> put(Len(args[i]) % U16, 2) \o args[i]]
<1>0. << >> \in Seq(Nat)
  OBVIOUS
<1>1. L \in Nat /\ DOMAIN args = 1 .. L /\ \A i \in 1 .. L : args[i] \in Seq(Nat)
  BY Elements, Zenon
<1>2. \A i \in 1 .. L : put(Len(args[i]) % U16, 2) \o args[i] \in Seq(Nat)
  BY <1>0, <1>1, ArgBytes, Zenon
<1> HIDE DEF L
<1>3. E \in [1 .. L -> Seq(Nat)]
  BY <1>1, <1>2
<1>4. encode_args(args) = FlattenSeq(E)
  BY DEF encode_args
<1> HIDE DEF E
<1>5. E \in Seq(Seq(Nat))
  BY <1>1, <1>3, SeqOfLength, Zenon
<1> QED
  BY <1>0, <1>4, <1>5, FlattenSuffixes, Zenon

LEMMA ReadArgs ==
    ASSUME NEW args \in Seq(Seq(Nat)), Len(args) \in 1 .. MAX_FRAME_ARGS,
           Len(encode_args(args)) < U16
    PROVE  /\ encode_args(args) \in Seq(Nat)
           /\ decode_args(encode_args(args)) = Got(args, << >>)
<1> DEFINE L == Len(args)
           E == [i \in DOMAIN args |-> put(Len(args[i]) % U16, 2) \o args[i]]
<1>0. << >> \in Seq(Nat)
  OBVIOUS
<1>1. L \in Nat /\ DOMAIN args = 1 .. L /\ \A i \in 1 .. L : args[i] \in Seq(Nat)
  BY Elements, Zenon
<1>2. \A i \in 1 .. L : put(Len(args[i]) % U16, 2) \o args[i] \in Seq(Nat)
  <2> SUFFICES ASSUME NEW i \in 1 .. L
               PROVE  put(Len(args[i]) % U16, 2) \o args[i] \in Seq(Nat)
    OBVIOUS
  <2>1. PICK a \in Seq(Nat) : a = args[i]
    BY <1>1, Zenon
  <2>2. put(Len(a) % U16, 2) \o a \in Seq(Nat)
    BY <1>0, ArgBytes, Zenon
  <2> QED
    BY <2>1, <2>2
<1>3. E \in Seq(Seq(Nat)) /\ Len(E) = L
      /\ \A i \in 1 .. L : E[i] = put(Len(args[i]) % U16, 2) \o args[i]
  <2> HIDE DEF L
  <2>1. E \in [1 .. L -> Seq(Nat)]
        /\ \A i \in 1 .. L : E[i] = put(Len(args[i]) % U16, 2) \o args[i]
    BY <1>1, <1>2
  <2> HIDE DEF E
  <2> QED BY <1>1, <2>1, SeqOfLength, Zenon
<1>4. encode_args(args) = FlattenSeq(E)
  BY DEF encode_args
<1> HIDE DEF E, L
<1>5. FlattenSeq(E) \in Seq(Nat)
  BY <1>0, <1>3, FlattenSuffixes, Zenon
<1>6. PICK S : Remains(S, E, L, << >>) /\ S[0] = FlattenSeq(E) \o << >>
  BY <1>0, <1>3, FlattenSuffixes, Zenon
<1>7. /\ \A i \in 0 .. L : S[i] \in Seq(Nat)
      /\ S[L] = << >>
      /\ \A i \in 1 .. L : S[i - 1] = E[i] \o S[i]
  BY <1>6 DEF Remains
<1>8. S[0] = encode_args(args)
  BY <1>4, <1>5, <1>6
<1>9. \A i \in 1 .. L : Len(S[i - 1]) = 2 + Len(args[i]) + Len(S[i])
  <2> SUFFICES ASSUME NEW i \in 1 .. L PROVE Len(S[i - 1]) = 2 + Len(args[i]) + Len(S[i])
    OBVIOUS
  <2>1. PICK a, r \in Seq(Nat) : a = args[i] /\ r = S[i]
    <3>1. i \in 0 .. L
      BY <1>1
    <3> QED BY <3>1, <1>1, <1>7
  <2>2. S[i - 1] = (put(Len(a) % U16, 2) \o a) \o r
    BY <1>3, <1>7, <2>1
  <2>3. Len((put(Len(a) % U16, 2) \o a) \o r) = 2 + Len(a) + Len(r)
    BY ArgBytes, Zenon
  <2> QED BY <2>1, <2>2, <2>3
<1>10. \A i \in 0 .. L : Len(S[i]) < U16
  <2> DEFINE N == {i \in Nat : i <= L => Len(S[i]) < U16}
  <2>1. 0 \in N
    BY <1>8
  <2>2. ASSUME NEW i \in Nat, i \in N PROVE i + 1 \in N
    <3> SUFFICES ASSUME i + 1 <= L PROVE Len(S[i + 1]) < U16
      OBVIOUS
    <3>1. i + 1 \in 1 .. L /\ (i + 1) - 1 = i /\ i <= L /\ i + 1 \in 0 .. L
      BY <1>1
    <3>2. Len(S[(i + 1) - 1]) = 2 + Len(args[i + 1]) + Len(S[i + 1])
      BY <1>9, <3>1, Zenon
    <3>3. Len(args[i + 1]) \in Nat /\ Len(S[i + 1]) \in Nat
      <4>1. args[i + 1] \in Seq(Nat) /\ S[i + 1] \in Seq(Nat)
        BY <3>1, <1>1, <1>7, Zenon
      <4> QED BY <4>1
    <3>4. Len(S[i]) < U16
      BY <2>2, <3>1
    <3>5. PICK x, y, z \in Nat : x = Len(args[i + 1]) /\ y = Len(S[i + 1]) /\ z = U16
      BY <3>3, WordSizes
    <3>6. 2 + x + y < z
      BY <3>1, <3>2, <3>4, <3>5
    <3>7. y < z
      BY <3>6
    <3> QED BY <3>5, <3>7
  <2> HIDE DEF N
  <2>3. \A i \in Nat : i \in N
    BY <2>1, <2>2, SetInduction, Zenon
  <2> QED BY <2>3, <1>1 DEF N
<1> DEFINE m == MAX_FRAME_ARGS
           d == [i \in 0 .. m |-> IF i <= L THEN Got(SubSeq(args, 1, i), S[i]) ELSE Got(args, << >>)]
<1>11. m \in Nat /\ L <= m /\ L >= 1
  <2>1. L \in 1 .. MAX_FRAME_ARGS
    BY DEF L
  <2> HIDE DEF L
  <2> QED BY <1>1, <2>1 DEF MAX_FRAME_ARGS
<1>12. /\ SubSeq(args, 1, 0) = << >> /\ SubSeq(args, 1, L) = args
       /\ \A i \in 1 .. L : SubSeq(args, 1, i) = Append(SubSeq(args, 1, i - 1), args[i])
  BY FirstElements, Zenon DEF L
<1> HIDE DEF m
<1>13. \A i \in 0 .. m : d[i] = IF i = 0 THEN Got(<< >>, S[0]) ELSE ArgStep(d[i - 1])
  <2> SUFFICES ASSUME NEW i \in 0 .. m
               PROVE  d[i] = IF i = 0 THEN Got(<< >>, S[0]) ELSE ArgStep(d[i - 1])
    OBVIOUS
  <2>1. CASE i = 0
    <3>1. 0 <= L
      BY <1>1
    <3> QED BY <2>1, <3>1, <1>12
  <2>2. CASE i # 0 /\ i <= L
    <3>1. i \in 1 .. L /\ i - 1 \in 0 .. L /\ i \in 0 .. L /\ i - 1 \in 0 .. m /\ i - 1 <= L
      BY <2>2, <1>1, <1>11
    <3>2. PICK a, r \in Seq(Nat) : a = args[i] /\ r = S[i]
      BY <3>1, <1>1, <1>7
    <3>3. S[i - 1] = (put(Len(a) % U16, 2) \o a) \o r
      BY <3>1, <3>2, <1>3, <1>7
    <3>4. Len(S[i - 1]) = 2 + Len(a) + Len(r) /\ Len(S[i - 1]) < U16
      BY <3>1, <3>2, <1>9, <1>10
    <3>5. decode_arg(S[i - 1]) = Got(a, r)
      BY <3>3, <3>4, ReadArg
    <3>6. S[i - 1] # << >>
      <4>1. Len(a) \in Nat /\ Len(r) \in Nat
        OBVIOUS
      <4> QED BY <3>4, <4>1
    <3>7. ArgStep(Got(SubSeq(args, 1, i - 1), S[i - 1]))
          = Got(Append(SubSeq(args, 1, i - 1), a), r)
      <4> DEFINE s == SubSeq(args, 1, i - 1)
                 c == Got(s, S[i - 1])
                 g == Got(a, r)
      <4>1. c.src = S[i - 1] /\ c.val = s /\ g.ok /\ g.val = a /\ g.src = r
        BY DEF Got
      <4>2. decode_arg(S[i - 1]) = g
        BY <3>5
      <4> HIDE DEF s, c, g
      <4> QED BY <3>6, <4>1, <4>2, Zenon DEF ArgStep, s, c
    <3>8. d[i] = Got(SubSeq(args, 1, i), S[i]) /\ d[i - 1] = Got(SubSeq(args, 1, i - 1), S[i - 1])
      BY <2>2, <3>1
    <3>9. SubSeq(args, 1, i) = Append(SubSeq(args, 1, i - 1), a)
      BY <3>1, <3>2, <1>12
    <3> HIDE DEF d
    <3> QED BY <2>2, <3>2, <3>7, <3>8, <3>9
  <2>3. CASE i # 0 /\ ~ (i <= L)
    <3>1. i - 1 \in 0 .. m /\ (i - 1 <= L => i - 1 = L)
      BY <2>3, <1>1, <1>11
    <3>2. d[i] = Got(args, << >>) /\ d[i - 1] = Got(args, << >>)
      BY <3>1, <2>3, <1>7, <1>12
    <3>3. ArgStep(Got(args, << >>)) = Got(args, << >>)
      BY DEF ArgStep, Got
    <3> HIDE DEF d
    <3> QED BY <2>3, <3>2, <3>3
  <2> QED BY <2>1, <2>2, <2>3
<1>14. IsArgs(d, S[0], m)
  BY <1>13 DEF IsArgs
<1>15. d[m] = Got(args, << >>)
  <2>1. m \in 0 .. m /\ (m <= L => m = L)
    BY <1>1, <1>11
  <2>2. d[m] = IF m <= L THEN Got(SubSeq(args, 1, m), S[m]) ELSE Got(args, << >>)
    BY <2>1
  <2> HIDE DEF d
  <2> QED BY <2>1, <2>2, <1>7, <1>12
<1>16. S[0] # << >>
  <2>1. 1 \in 1 .. L /\ 1 - 1 = 0 /\ 1 \in 0 .. L
    BY <1>1, <1>11
  <2>2. Len(S[0]) = 2 + Len(args[1]) + Len(S[1])
    BY <2>1, <1>9
  <2>3. Len(args[1]) \in Nat /\ Len(S[1]) \in Nat
    <3>1. args[1] \in Seq(Nat) /\ S[1] \in Seq(Nat)
      BY <2>1, <1>1, <1>7, Zenon
    <3> QED BY <3>1
  <2>4. Len(S[0]) # 0
    <3>1. PICK x, y \in Nat : x = Len(args[1]) /\ y = Len(S[1])
      BY <2>3, Zenon
    <3>2. 2 + x + y # 0
      OBVIOUS
    <3> QED BY <2>2, <3>1, <3>2, Zenon
  <2>5. Len(<< >>) = 0
    OBVIOUS
  <2> QED BY <2>4, <2>5, Zenon
<1>17. Got(args, << >>).src = << >>
  BY DEF Got
<1> HIDE DEF d
<1> QED
  BY <1>4, <1>5, <1>8, <1>14, <1>15, <1>16, <1>17, ArgsAre DEF m

----------------------------------------------------------------------------
(* Whole payloads.                                                          *)

Kinds == {"u16", "u32", "Tracing", "small_string", "string", "small_headers", "headers",
          "checksum", "args", "Flags", "ResponseCode", "ErrorCode"}
HeaderKinds == {"small_headers", "headers"}

(* The fields of a payload have names of their own; arguments come last;    *)
(* the field named headers, and no other, is a map.                         *)
FieldsOK(F) ==
    /\ Len(F) \in Nat /\ DOMAIN F = 1 .. Len(F)
    /\ \A i, j \in 1 .. Len(F) : F[i][1] = F[j][1] => i = j
    /\ \A i \in 1 .. Len(F) :
          /\ F[i][2] \in Kinds
          /\ F[i][2] = "args" => i = Len(F)
          /\ F[i][2] \in HeaderKinds <=> F[i][1] = "headers"

LEMMA WrittenAre ==
    /\ Written["InitRequest"] = <<<<"version", "u16">>, <<"headers", "headers">>>>
    /\ Written["InitResponse"] = <<<<"version", "u16">>, <<"headers", "headers">>>>
    /\ Written["PingRequest"] = << >>
    /\ Written["PingResponse"] = << >>
    /\ Written["Error"] = <<<<"code", "ErrorCode">>, <<"tracing", "Tracing">>, <<"message", "string">>>>
  BY DEF Written

LEMMA WrittenCalls ==
    /\ Written["CallRequest"] = <<<<"flags", "Flags">>, <<"ttl", "u32">>, <<"tracing", "Tracing">>,
                                  <<"service", "small_string">>, <<"headers", "small_headers">>,
                                  <<"checksum", "checksum">>, <<"args", "args">>>>
    /\ Written["CallResponse"] = <<<<"flags", "Flags">>, <<"code", "ResponseCode">>,
                                   <<"tracing", "Tracing">>, <<"headers", "small_headers">>,
                                   <<"checksum", "checksum">>, <<"args", "args">>>>
    /\ Written["CallRequestContinue"] = <<<<"flags", "Flags">>, <<"checksum", "checksum">>,
                                          <<"args", "args">>>>
    /\ Written["CallResponseContinue"] = <<<<"flags", "Flags">>, <<"checksum", "checksum">>,
                                           <<"args", "args">>>>
<1>1. /\ Written["CallRequest"] = (<<<<"flags", "Flags">>>> \o CallRequestFields) \o CallArgs
      /\ Written["CallResponse"] = (<<<<"flags", "Flags">>>> \o CallResponseFields) \o CallArgs
      /\ Written["CallRequestContinue"] = (<<<<"flags", "Flags">>>> \o << >>) \o CallArgs
      /\ Written["CallResponseContinue"] = (<<<<"flags", "Flags">>>> \o << >>) \o CallArgs
  BY DEF Written, CallWithFieldsEncoded
<1> DEFINE flags == <<"flags", "Flags">>
           ttl == <<"ttl", "u32">>
           code == <<"code", "ResponseCode">>
           tracing == <<"tracing", "Tracing">>
           service == <<"service", "small_string">>
           headers == <<"headers", "small_headers">>
           checksum == <<"checksum", "checksum">>
           args == <<"args", "args">>
<1>2. /\ CallRequestFields = <<ttl, tracing, service, headers>>
      /\ CallResponseFields = <<code, tracing, headers>>
      /\ CallArgs = <<checksum, args>>
  BY Zenon DEF CallRequestFields, CallResponseFields, CallArgs
<1>3. /\ (<<flags>> \o CallRequestFields) \o CallArgs
         = <<flags, ttl, tracing, service, headers, checksum, args>>
      /\ (<<flags>> \o CallResponseFields) \o CallArgs
         = <<flags, code, tracing, headers, checksum, args>>
      /\ (<<flags>> \o << >>) \o CallArgs = <<flags, checksum, args>>
  <2> HIDE DEF flags, ttl, code, tracing, service, headers, checksum, args
  <2> DEFINE Z == {flags, ttl, code, tracing, service, headers, checksum, args}
  <2>0. /\ flags \in Z /\ ttl \in Z /\ code \in Z /\ tracing \in Z
        /\ service \in Z /\ headers \in Z /\ checksum \in Z /\ args \in Z
    OBVIOUS
  <2> HIDE DEF Z
  <2>1. (<<flags>> \o <<ttl, tracing, service, headers>>) \o <<checksum, args>>
        = <<flags, ttl, tracing, service, headers, checksum, args>>
    <3> DEFINE s == (<<flags>> \o <<ttl, tracing, service, headers>>) \o <<checksum, args>>
               t == <<flags, ttl, tracing, service, headers, checksum, args>>
    <3>1. s \in Seq(Z) /\ t \in Seq(Z)
      BY <2>0
    <3>2. Len(s) = 7 /\ Len(t) = 7
      BY <2>0
    <3>3. \A i \in 1 .. 7 : s[i] = t[i]
      BY <2>0
    <3> QED
      BY <3>1, <3>2, <3>3, SeqEqual
  <2>2. (<<flags>> \o <<code, tracing, headers>>) \o <<checksum, args>>
        = <<flags, code, tracing, headers, checksum, args>>
    <3> DEFINE s == (<<flags>> \o <<code, tracing, headers>>) \o <<checksum, args>>
               t == <<flags, code, tracing, headers, checksum, args>>
    <3>1. s \in Seq(Z) /\ t \in Seq(Z)
      BY <2>0
    <3>2. Len(s) = 6 /\ Len(t) = 6
      BY <2>0
    <3>3. \A i \in 1 .. 6 : s[i] = t[i]
      BY <2>0
    <3> QED
      BY <3>1, <3>2, <3>3, SeqEqual
  <2>3. (<<flags>> \o << >>) \o <<checksum, args>>
        = <<flags, checksum, args>>
    <3> DEFINE s == (<<flags>> \o << >>) \o <<checksum, args>>
               t == <<flags, checksum, args>>
    <3>1. s \in Seq(Z) /\ t \in Seq(Z)
      BY <2>0
    <3>2. Len(s) = 3 /\ Len(t) = 3
      BY <2>0
    <3>3. \A i \in 1 .. 3 : s[i] = t[i]
      BY <2>0
    <3> QED
      BY <3>1, <3>2, <3>3, SeqEqual
  <2> QED
    BY <1>2, <2>1, <2>2, <2>3
<1> QED
  BY <1>1, <1>3

LEMMA ReadAsWritten ==
    ASSUME NEW type \in DOMAIN Written
    PROVE  ReadOrder[type] = Written[type]
  BY WrittenAre, WrittenCalls DEF ReadOrder, Written

LEMMA WrittenFieldsOK ==
    ASSUME NEW type \in DOMAIN Written
    PROVE  FieldsOK(Written[type])
<1>1. type \in {"InitRequest", "InitResponse", "CallRequest", "CallResponse", "CallRequestContinue",
                "CallResponseContinue", "PingRequest", "PingResponse", "Error"}
  BY DEF Written
<1>2. CASE type \in {"InitRequest", "InitResponse"}
  <2>1. FieldsOK(<<<<"version", "u16">>, <<"headers", "headers">>>>)
    BY DEF FieldsOK, Kinds, HeaderKinds
  <2> QED BY <1>2, <2>1, WrittenAre
<1>3. CASE type \in {"PingRequest", "PingResponse"}
  BY <1>3, WrittenAre DEF FieldsOK, Kinds, HeaderKinds
<1>4. CASE type = "Error"
  BY <1>4, WrittenAre DEF FieldsOK, Kinds, HeaderKinds
<1>5. CASE type = "CallRequest"
  BY <1>5, WrittenCalls DEF FieldsOK, Kinds, HeaderKinds
<1>6. CASE type = "CallResponse"
  BY <1>6, WrittenCalls DEF FieldsOK, Kinds, HeaderKinds
<1>7. CASE type \in {"CallRequestContinue", "CallResponseContinue"}
  <2>1. FieldsOK(<<<<"flags", "Flags">>, <<"checksum", "checksum">>, <<"args", "args">>>>)
    BY DEF FieldsOK, Kinds, HeaderKinds
  <2> QED BY <1>7, <2>1, WrittenCalls
<1> QED
  BY <1>1, <1>2, <1>3, <1>4, <1>5, <1>6, <1>7

(* The value of a field once it has been read.                              *)
FieldAsRead(kind, v) == IF kind \in HeaderKinds THEN MapOf(v, Len(v)) ELSE v

FieldReads(kind, v) ==
    \A rest \in Seq(Nat) :
        DecodeField(kind, EncodeField(kind, v) \o rest) = Got(FieldAsRead(kind, v), rest)

LEMMA ReadField ==
    ASSUME NEW kind \in Kinds, kind # "args", NEW v, FieldOK(kind, v), FieldFits(kind, v)
    PROVE  EncodeField(kind, v) \in Seq(Nat) /\ FieldReads(kind, v)
<1> USE DEF Kinds, HeaderKinds
<1>1. CASE kind \in {"u16", "u32"}
  <2>1. v \in Nat /\ (kind = "u16" => v < U16) /\ (kind = "u32" => v < U32)
    BY <1>1, WordSizes DEF FieldOK
  <2>2. PICK w \in {2, 4} : Fits(v, w) /\ (kind = "u16" <=> w = 2)
    BY <1>1, <2>1, NumbersFit
  <2>3. w \in Nat /\ EncodeField(kind, v) = put(v, w) /\ FieldAsRead(kind, v) = v
    BY <1>1, <2>2 DEF EncodeField, FieldAsRead
  <2>4. \A src : DecodeField(kind, src) = get(src, w)
    BY <1>1, <2>2 DEF DecodeField
  <2>5. put(v, w) \in Seq(Nat) /\ \A rest \in Seq(Nat) : get(put(v, w) \o rest, w) = Got(v, rest)
    BY <2>1, <2>2, <2>3, PutBytes, GetWritten
  <2> QED BY <2>3, <2>4, <2>5 DEF FieldReads
<1>2. CASE kind = "Tracing"
  <2>1. v \in Tracings
    BY <1>2 DEF FieldOK
  <2>2. EncodeField(kind, v) = encode_tracing(v) /\ FieldAsRead(kind, v) = v
    BY <1>2 DEF EncodeField, FieldAsRead
  <2>3. \A src : DecodeField(kind, src) = decode_tracing(src)
    BY <1>2 DEF DecodeField
  <2>4. << >> \in Seq(Nat)
    OBVIOUS
  <2> QED BY <2>1, <2>2, <2>3, <2>4, ReadTracing, Zenon DEF FieldReads
<1>3. CASE kind \in {"small_string", "string"}
  <2>1. v \in Seq(Nat) /\ (kind = "small_string" => Len(v) < U8) /\ (kind = "string" => Len(v) < U16)
    BY <1>3 DEF FieldOK, FieldFits
  <2>2. PICK w \in {1, 2} : Fits(Len(v), w) /\ (kind = "small_string" <=> w = 1)
    BY <1>3, <2>1, NumbersFit
  <2>3. w \in Nat /\ EncodeField(kind, v) = encode_string_field(v, w) /\ FieldAsRead(kind, v) = v
    BY <1>3, <2>2 DEF EncodeField, FieldAsRead
  <2>4. \A src : DecodeField(kind, src) = decode_string_field(src, w)
    BY <1>3, <2>2 DEF DecodeField
  <2>5. << >> \in Seq(Nat)
    OBVIOUS
  <2>6. /\ encode_string_field(v, w) \in Seq(Nat)
        /\ \A rest \in Seq(Nat) :
              decode_string_field(encode_string_field(v, w) \o rest, w) = Got(v, rest)
    BY <2>1, <2>2, <2>3, <2>5, ReadString, Zenon
  <2> QED BY <2>3, <2>4, <2>6 DEF FieldReads
<1>4. CASE kind \in HeaderKinds
  <2>1. /\ v \in Headers
        /\ kind = "small_headers" => Len(v) < U8 /\ \A i \in DOMAIN v : \A j \in 1 .. 2 : Len(v[i][j]) < U8
        /\ kind = "headers" => Len(v) < U16 /\ \A i \in DOMAIN v : \A j \in 1 .. 2 : Len(v[i][j]) < U16
    BY <1>4 DEF FieldOK, FieldFits
  <2>2. /\ Len(v) \in Nat /\ DOMAIN v = 1 .. Len(v)
        /\ \A i \in 1 .. Len(v) : v[i][1] \in Seq(Nat) /\ v[i][2] \in Seq(Nat)
    BY <2>1, HeaderPairs, Zenon
  <2>3. \A i \in 1 .. Len(v) : Len(v[i][1]) \in Nat /\ Len(v[i][2]) \in Nat
    BY <2>2
  <2>4. PICK w \in {1, 2} : kind = "small_headers" <=> w = 1
    BY <1>4
  <2>5. /\ Fits(Len(v), w)
        /\ \A i \in 1 .. Len(v) : Fits(Len(v[i][1]), w) /\ Fits(Len(v[i][2]), w)
    <3>1. 1 \in 1 .. 2 /\ 2 \in 1 .. 2
      OBVIOUS
    <3>2. CASE w = 1
      <4>1. Len(v) < U8 /\ \A i \in 1 .. Len(v) : Len(v[i][1]) < U8 /\ Len(v[i][2]) < U8
        BY <1>4, <2>1, <2>2, <2>4, <3>1, <3>2
      <4> QED BY <2>2, <2>3, <3>2, <4>1, NumbersFit
    <3>3. CASE w = 2
      <4>1. Len(v) < U16 /\ \A i \in 1 .. Len(v) : Len(v[i][1]) < U16 /\ Len(v[i][2]) < U16
        BY <1>4, <2>1, <2>2, <2>4, <3>1, <3>3
      <4> QED BY <2>2, <2>3, <3>3, <4>1, NumbersFit
    <3> QED BY <3>2, <3>3
  <2>6. /\ w \in Nat /\ EncodeField(kind, v) = encode_header_fields(v, w)
        /\ FieldAsRead(kind, v) = MapOf(v, Len(v))
    BY <1>4, <2>4 DEF EncodeField, FieldAsRead
  <2>7. \A src : DecodeField(kind, src) = decode_headers_field(src, w)
    BY <1>4, <2>4 DEF DecodeField
  <2>8. << >> \in Seq(Nat)
    OBVIOUS
  <2> QED BY <2>1, <2>5, <2>6, <2>7, <2>8, ReadHeaders, ZenonT(60) DEF FieldReads
<1>5. CASE kind = "checksum"
  <2>1. v \in Checksums
    BY <1>5 DEF FieldOK
  <2>2. EncodeField(kind, v) = encode_checksum(v) /\ FieldAsRead(kind, v) = v
    BY <1>5 DEF EncodeField, FieldAsRead
  <2>3. \A src : DecodeField(kind, src) = decode_checksum(src)
    BY <1>5 DEF DecodeField
  <2>4. << >> \in Seq(Nat)
    OBVIOUS
  <2> QED BY <2>1, <2>2, <2>3, <2>4, ReadChecksum, Zenon DEF FieldReads
<1>6. CASE kind \in {"Flags", "ResponseCode", "ErrorCode"}
  <2>1. v \in Codes[kind]
    BY <1>6 DEF FieldOK
  <2>2. v \in Nat
    BY <1>6, <2>1, CodesAre
  <2>3. EncodeField(kind, v) = <<v>> /\ FieldAsRead(kind, v) = v
    BY <1>6 DEF EncodeField, FieldAsRead
  <2>4. \A src : DecodeField(kind, src) = decode_bitflag(kind, src)
    BY <1>6 DEF DecodeField
  <2>5. <<v>> \in Seq(Nat)
    BY <2>2
  <2>6. \A rest \in Seq(Nat) : decode_bitflag(kind, <<v>> \o rest) = Got(v, rest)
    BY <2>1, <2>2, ReadCode, Zenon
  <2> QED BY <2>3, <2>4, <2>5, <2>6 DEF FieldReads
<1> QED
  BY <1>1, <1>2, <1>3, <1>4, <1>5, <1>6

FieldStep(c, field) ==
    LET r == DecodeField(field[2], c.src)
    IN  IF c.ok THEN Then(c, field[1], r) ELSE Failed

IsFields(d, F, src, m) ==
    d = [i \in 0 .. m |-> IF i = 0 THEN Got(<< >>, src) ELSE FieldStep(d[i - 1], F[i])]

LEMMA FieldsAre ==
    ASSUME NEW type, NEW src, NEW F, F = ReadOrder[type], NEW m \in Nat, m = Len(F),
           NEW h, IsFields(h, F, src, m)
    PROVE  decode(type, src) = h[m]
<1> DEFINE c == CHOOSE g : IsFields(g, F, src, m)
<1>1. IsFields(c, F, src, m)
  OBVIOUS
<1>2. decode(type, src) = c[m]
  <2> DEFINE e == CHOOSE g : IsFields(g, ReadOrder[type], src, Len(ReadOrder[type]))
  <2>1. decode(type, src) = e[Len(ReadOrder[type])]
    BY DEF decode, IsFields, FieldStep
  <2>2. e = c /\ Len(ReadOrder[type]) = m
    OBVIOUS
  <2> HIDE DEF e, c
  <2> QED BY <2>1, <2>2
<1> HIDE DEF c
<1>3. /\ \A i \in 0 .. m : c[i] = IF i = 0 THEN Got(<< >>, src) ELSE FieldStep(c[i - 1], F[i])
      /\ \A i \in 0 .. m : h[i] = IF i = 0 THEN Got(<< >>, src) ELSE FieldStep(h[i - 1], F[i])
  BY <1>1 DEF IsFields
<1> DEFINE S == {i \in Nat : i <= m => c[i] = h[i]}
<1>4. 0 \in S
  <2>1. 0 \in 0 .. m
    OBVIOUS
  <2> QED
    BY <2>1, <1>3
<1>5. ASSUME NEW i \in Nat, i \in S PROVE i + 1 \in S
  <2>1. ASSUME i + 1 <= m PROVE c[i + 1] = h[i + 1]
    <3>1. i + 1 \in 0 .. m /\ i + 1 # 0 /\ (i + 1) - 1 = i /\ i <= m
      BY <2>1
    <3>2. /\ c[i + 1] = FieldStep(c[(i + 1) - 1], F[i + 1])
          /\ h[i + 1] = FieldStep(h[(i + 1) - 1], F[i + 1])
      BY <3>1, <1>3, Zenon
    <3> QED
      BY <3>1, <3>2, <1>5
  <2> QED
    BY <2>1
<1> HIDE DEF S
<1>6. m \in S
  BY <1>4, <1>5, SetInduction, Zenon
<1>7. c[m] = h[m]
  BY <1>6 DEF S
<1> QED
  BY <1>2, <1>7

LEMMA MapAsRead ==
    ASSUME NEW h \in Headers
    PROVE  MapOf(h, Len(h)) = [k \in {x[1] : x \in Range(h)} |-> (CHOOSE x \in Range(h) : x[1] = k)[2]]
<1> DEFINE L == Len(h)
           m == MapOf(h, L)
           q == [k \in {x[1] : x \in Range(h)} |-> (CHOOSE x \in Range(h) : x[1] = k)[2]]
<1>1. /\ L \in Nat /\ DOMAIN h = 1 .. L
      /\ \A i, j \in 1 .. L : h[i][1] = h[j][1] => i = j
  BY HeaderPairs, Zenon
<1>2. Range(h) = {h[j] : j \in 1 .. L}
  BY <1>1 DEF Range
<1>3. /\ DOMAIN m = {h[j][1] : j \in 1 .. L}
      /\ \A j \in 1 .. L : m[h[j][1]] = h[j][2]
  <2>1. L \in 0 .. Len(h) /\ DistinctKeys(h)
    BY <1>1 DEF DistinctKeys
  <2> QED BY <2>1, MapEntries, Zenon
<1>4. m = [k \in DOMAIN m |-> m[k]]
  BY DEF MapOf
<1>5. DOMAIN q = {x[1] : x \in Range(h)} /\ q = [k \in DOMAIN q |-> q[k]]
  OBVIOUS
<1> HIDE DEF m, L
<1>6. {x[1] : x \in Range(h)} = DOMAIN m
  BY <1>2, <1>3
<1>7. ASSUME NEW k \in DOMAIN m PROVE q[k] = m[k]
  <2> DEFINE c == CHOOSE x \in Range(h) : x[1] = k
  <2>1. q[k] = c[2]
    BY <1>6
  <2>2. \E x \in Range(h) : x[1] = k
    BY <1>2, <1>3
  <2>3. c \in Range(h) /\ c[1] = k
    BY <2>2
  <2> HIDE DEF c, q
  <2>4. PICK j \in 1 .. L : c = h[j]
    BY <2>3, <1>2
  <2>5. m[h[j][1]] = h[j][2]
    BY <1>3
  <2> QED BY <2>1, <2>3, <2>4, <2>5
<1> HIDE DEF q
<1>8. m = q
  BY <1>4, <1>5, <1>6, <1>7
<1> QED
  BY <1>8 DEF m, q, L

(* The fields of a payload with their values once they have been read.      *)
PairsOf(F, body) == [i \in 1 .. Len(F) |-> <<F[i][1], FieldAsRead(F[i][2], body[F[i][1]])>>]

LEMMA PairsAsRead ==
    ASSUME NEW type \in DOMAIN Written, NEW body, PayloadOK(type, body)
    PROVE  MapOf(PairsOf(Written[type], body), Len(Written[type])) = AsRead(body)
<1> DEFINE F == Written[type]
           L == Len(F)
           h == PairsOf(F, body)
           m == MapOf(h, L)
           q == AsRead(body)
<1>1. FieldsOK(F)
  BY WrittenFieldsOK
<1>2. /\ body = [name \in {field[1] : field \in Range(F)} |-> body[name]]
      /\ \A field \in Range(F) : FieldOK(field[2], body[field[1]])
  BY DEF PayloadOK
<1> HIDE DEF F
<1>3. /\ L \in Nat /\ DOMAIN F = 1 .. L
      /\ \A i, j \in 1 .. L : F[i][1] = F[j][1] => i = j
      /\ \A i \in 1 .. L : F[i][2] \in HeaderKinds <=> F[i][1] = "headers"
  BY <1>1 DEF FieldsOK
<1> HIDE DEF L
<1>4. h = [i \in 1 .. L |-> <<F[i][1], FieldAsRead(F[i][2], body[F[i][1]])>>]
  BY DEF PairsOf, L
<1> HIDE DEF h
<1>5. /\ Len(h) = L
      /\ \A i \in 1 .. L : h[i][1] = F[i][1] /\ h[i][2] = FieldAsRead(F[i][2], body[F[i][1]])
  BY <1>3, <1>4
<1>6. DistinctKeys(h) /\ L \in 0 .. Len(h)
  BY <1>3, <1>5 DEF DistinctKeys
<1>7. DOMAIN m = {h[j][1] : j \in 1 .. L} /\ \A j \in 1 .. L : m[h[j][1]] = h[j][2]
  BY <1>6, MapEntries, Zenon
<1>8. m = [k \in DOMAIN m |-> m[k]]
  BY DEF MapOf
<1> HIDE DEF m
<1>9. Range(F) = {F[j] : j \in 1 .. L}
  BY <1>3 DEF Range
<1>10. DOMAIN m = {F[j][1] : j \in 1 .. L} /\ \A j \in 1 .. L : m[F[j][1]] = FieldAsRead(F[j][2], body[F[j][1]])
  BY <1>5, <1>7, SMTT(30)
<1>11. DOMAIN body = DOMAIN m
  <2>1. DOMAIN body = {field[1] : field \in Range(F)}
    BY <1>2
  <2> QED BY <2>1, <1>9, <1>10
<1>12. DOMAIN q = DOMAIN body /\ q = [k \in DOMAIN body |-> q[k]]
  <2>1. body = [k \in DOMAIN body |-> body[k]]
    BY <1>2
  <2> QED BY <2>1 DEF AsRead
<1>13. ASSUME NEW k \in DOMAIN m PROVE q[k] = m[k]
  <2>1. PICK j \in 1 .. L : k = F[j][1]
    BY <1>10
  <2>2. m[k] = FieldAsRead(F[j][2], body[k])
    BY <2>1, <1>10
  <2>3. CASE k = "headers"
    <3>1. F[j][2] \in HeaderKinds /\ "headers" \in DOMAIN body
      BY <2>1, <2>3, <1>3, <1>11
    <3>2. F[j] \in Range(F)
      BY <1>9
    <3>3. FieldOK(F[j][2], body["headers"])
      BY <1>2, <2>1, <2>3, <3>2
    <3>4. body["headers"] \in Headers
      BY <3>1, <3>3 DEF FieldOK, HeaderKinds
    <3>5. m[k] = MapOf(body["headers"], Len(body["headers"]))
      BY <2>2, <2>3, <3>1 DEF FieldAsRead
    <3>6. q[k] = [l \in {x[1] : x \in Range(body["headers"])} |->
                    (CHOOSE x \in Range(body["headers"]) : x[1] = l)[2]]
      BY <2>3, <3>1 DEF AsRead
    <3> QED BY <3>4, <3>5, <3>6, MapAsRead
  <2>4. CASE k # "headers"
    <3>1. F[j][2] \notin HeaderKinds
      BY <2>1, <2>4, <1>3
    <3>2. m[k] = body[k]
      BY <2>2, <3>1 DEF FieldAsRead
    <3>3. q[k] = body[k]
      BY <2>4, <1>11 DEF AsRead
    <3> QED BY <3>2, <3>3
  <2> QED BY <2>3, <2>4
<1> HIDE DEF q
<1>14. m = q
  BY <1>8, <1>11, <1>12, <1>13
<1> QED
  BY <1>14 DEF m, q, h, L, F

(* decode returns what encode was given: the reads of the fields follow     *)
(* each other through the suffixes of the payload, and the arguments are    *)
(* the last of them.                                                        *)
LEMMA ReadPayload ==
    ASSUME NEW type \in DOMAIN Written, NEW body, PayloadOK(type, body), Encodable(type, body)
    PROVE  /\ encode_bytes(type, body) \in Seq(Nat)
           /\ Len(encode_bytes(type, body)) < U16 =>
                 decode(type, encode_bytes(type, body)) = Got(AsRead(body), << >>)
<1> DEFINE F == Written[type]
           L == Len(F)
           V(i) == body[F[i][1]]
           E == [i \in DOMAIN F |-> EncodeField(F[i][2], V(i))]
           h == PairsOf(F, body)
<1>0. << >> \in Seq(Nat)
  OBVIOUS
<1>1. FieldsOK(F) /\ F = ReadOrder[type]
  BY WrittenFieldsOK, ReadAsWritten
<1>2. \A i \in DOMAIN F : FieldFits(F[i][2], V(i))
  BY DEF Encodable
<1>3. \A field \in Range(F) : FieldOK(field[2], body[field[1]])
  BY DEF PayloadOK
<1>4. encode_bytes(type, body) = FlattenSeq(E)
  BY DEF encode_bytes
<1> HIDE DEF F
<1>5. /\ L \in Nat /\ DOMAIN F = 1 .. L
      /\ \A i, j \in 1 .. L : F[i][1] = F[j][1] => i = j
      /\ \A i \in 1 .. L : F[i][2] \in Kinds /\ (F[i][2] = "args" => i = L)
  BY <1>1 DEF FieldsOK
<1> HIDE DEF L
<1>6. \A i \in 1 .. L : FieldOK(F[i][2], V(i)) /\ FieldFits(F[i][2], V(i))
  <2> SUFFICES ASSUME NEW i \in 1 .. L PROVE FieldOK(F[i][2], V(i)) /\ FieldFits(F[i][2], V(i))
    OBVIOUS
  <2>1. F[i] \in Range(F)
    BY <1>5 DEF Range
  <2> QED BY <2>1, <1>2, <1>3, <1>5
<1>7. ASSUME NEW i \in 1 .. L, F[i][2] = "args"
      PROVE  /\ V(i) \in Seq(Seq(Nat)) /\ Len(V(i)) \in 1 .. MAX_FRAME_ARGS
             /\ EncodeField(F[i][2], V(i)) = encode_args(V(i))
  <2>1. FieldOK("args", V(i)) /\ FieldFits("args", V(i))
    BY <1>6, <1>7
  <2>2. EncodeField("args", V(i)) = encode_args(V(i))
    BY DEF EncodeField
  <2> HIDE DEF V
  <2> QED BY <2>1, <2>2, <1>7 DEF FieldOK, FieldFits
<1>8. \A i \in 1 .. L : EncodeField(F[i][2], V(i)) \in Seq(Nat)
  <2> SUFFICES ASSUME NEW i \in 1 .. L PROVE EncodeField(F[i][2], V(i)) \in Seq(Nat)
    OBVIOUS
  <2>1. CASE F[i][2] = "args"
    <3>1. PICK a \in Seq(Seq(Nat)) : a = V(i) /\ EncodeField(F[i][2], V(i)) = encode_args(a)
      BY <2>1, <1>7, Zenon
    <3>2. encode_args(a) \in Seq(Nat)
      BY ArgsBytes, Zenon
    <3> QED BY <3>1, <3>2
  <2>2. CASE F[i][2] # "args"
    <3> HIDE DEF V
    <3> QED BY <2>2, <1>5, <1>6, ReadField, Zenon
  <2> QED BY <2>1, <2>2
<1>9. E \in Seq(Seq(Nat)) /\ Len(E) = L /\ \A i \in 1 .. L : E[i] = EncodeField(F[i][2], V(i))
  <2>1. E \in [1 .. L -> Seq(Nat)] /\ \A i \in 1 .. L : E[i] = EncodeField(F[i][2], V(i))
    BY <1>5, <1>8
  <2> HIDE DEF E
  <2> QED BY <1>5, <2>1, SeqOfLength, Zenon
<1> HIDE DEF E
<1>10. FlattenSeq(E) \in Seq(Nat)
  BY <1>0, <1>9, FlattenSuffixes, Zenon
<1> SUFFICES ASSUME Len(encode_bytes(type, body)) < U16
             PROVE  decode(type, encode_bytes(type, body)) = Got(AsRead(body), << >>)
  BY <1>4, <1>10
<1>11. PICK S : Remains(S, E, L, << >>) /\ S[0] = FlattenSeq(E) \o << >>
  BY <1>0, <1>9, FlattenSuffixes, Zenon
<1>12. /\ \A i \in 0 .. L : S[i] \in Seq(Nat)
       /\ S[L] = << >>
       /\ \A i \in 1 .. L : S[i - 1] = E[i] \o S[i]
  BY <1>11 DEF Remains
<1>13. S[0] = encode_bytes(type, body) /\ Len(S[0]) < U16
  BY <1>4, <1>10, <1>11
<1>14. \A i \in 0 .. L : Len(S[i]) < U16
  <2> DEFINE N == {i \in Nat : i <= L => Len(S[i]) < U16}
  <2>1. 0 \in N
    BY <1>13
  <2>2. ASSUME NEW i \in Nat, i \in N PROVE i + 1 \in N
    <3> SUFFICES ASSUME i + 1 <= L PROVE Len(S[i + 1]) < U16
      OBVIOUS
    <3>1. i + 1 \in 1 .. L /\ (i + 1) - 1 = i /\ i <= L /\ i + 1 \in 0 .. L
      BY <1>5
    <3>2. S[(i + 1) - 1] = E[i + 1] \o S[i + 1]
      BY <1>12, <3>1, Zenon
    <3>3. PICK a, b \in Seq(Nat) : a = E[i + 1] /\ b = S[i + 1]
      BY <3>1, <1>8, <1>9, <1>12, Zenon
    <3>4. S[i] = a \o b
      BY <3>1, <3>2, <3>3
    <3>5. Len(a \o b) = Len(a) + Len(b) /\ Len(a) \in Nat /\ Len(b) \in Nat
      BY RestConcat
    <3>6. Len(S[i]) < U16
      BY <2>2, <3>1
    <3>7. Len(b) < U16
      <4>1. PICK x, y, z \in Nat : x = Len(a) /\ y = Len(b) /\ z = U16
        BY <3>5, WordSizes
      <4>2. x + y < z
        BY <3>4, <3>5, <3>6, <4>1
      <4>3. y < z
        BY <4>2
      <4> QED BY <4>1, <4>3
    <3> QED BY <3>3, <3>7
  <2> HIDE DEF N
  <2>3. \A i \in Nat : i \in N
    BY <2>1, <2>2, SetInduction, Zenon
  <2> QED BY <2>3, <1>5 DEF N
<1>15. \A i \in 1 .. L :
          DecodeField(F[i][2], S[i - 1]) = Got(FieldAsRead(F[i][2], V(i)), S[i])
  <2> SUFFICES ASSUME NEW i \in 1 .. L
               PROVE  DecodeField(F[i][2], S[i - 1]) = Got(FieldAsRead(F[i][2], V(i)), S[i])
    OBVIOUS
  <2>0. i \in 0 .. L /\ i - 1 \in 0 .. L
    BY <1>5
  <2>1. S[i - 1] = EncodeField(F[i][2], V(i)) \o S[i] /\ S[i] \in Seq(Nat)
    BY <2>0, <1>9, <1>12
  <2>2. CASE F[i][2] = "args"
    <3>1. S[i] = << >>
      BY <2>2, <1>5, <1>12
    <3>2. PICK a \in Seq(Seq(Nat)) : /\ a = V(i) /\ Len(a) \in 1 .. MAX_FRAME_ARGS
                                     /\ EncodeField(F[i][2], V(i)) = encode_args(a)
      BY <2>2, <1>7, Zenon
    <3>3. encode_args(a) \in Seq(Nat)
      BY ArgsBytes, Zenon
    <3>4. S[i - 1] = encode_args(a)
      BY <2>1, <3>1, <3>2, <3>3
    <3>5. Len(encode_args(a)) < U16
      BY <2>0, <3>4, <1>14
    <3>6. decode_args(encode_args(a)) = Got(a, << >>)
      BY <3>2, <3>5, ReadArgs, Zenon
    <3>7. DecodeField("args", S[i - 1]) = decode_args(S[i - 1])
      BY DEF DecodeField
    <3>8. FieldAsRead("args", a) = a
      BY DEF FieldAsRead, HeaderKinds
    <3> QED BY <2>2, <3>1, <3>2, <3>4, <3>6, <3>7, <3>8
  <2>3. CASE F[i][2] # "args"
    <3> HIDE DEF V
    <3>1. FieldReads(F[i][2], V(i))
      BY <2>3, <1>5, <1>6, ReadField, Zenon
    <3> QED BY <2>1, <3>1, Zenon DEF FieldReads
  <2> QED BY <2>2, <2>3
<1> DEFINE d == [i \in 0 .. L |-> Got(MapOf(h, i), S[i])]
<1>16. /\ Len(h) = L
       /\ \A i \in 1 .. L : h[i][1] = F[i][1] /\ h[i][2] = FieldAsRead(F[i][2], V(i))
  <2>1. h = [i \in 1 .. L |-> <<F[i][1], FieldAsRead(F[i][2], V(i))>>]
    BY DEF PairsOf, L
  <2> HIDE DEF h, V
  <2> QED BY <1>5, <2>1
<1> HIDE DEF h, V
<1>17. DistinctKeys(h)
  BY <1>5, <1>16 DEF DistinctKeys
<1>18. \A i \in 0 .. L : d[i] = IF i = 0 THEN Got(<< >>, S[0]) ELSE FieldStep(d[i - 1], F[i])
  <2> SUFFICES ASSUME NEW i \in 0 .. L
               PROVE  d[i] = IF i = 0 THEN Got(<< >>, S[0]) ELSE FieldStep(d[i - 1], F[i])
    OBVIOUS
  <2>1. CASE i = 0
    <3>1. MapOf(h, 0) = << >>
      BY DEF MapOf
    <3> QED BY <3>1, <2>1
  <2>2. CASE i # 0
    <3>1. i \in 1 .. L /\ i - 1 \in 0 .. L /\ i \in 1 .. Len(h)
      BY <2>2, <1>5, <1>16
    <3>2. DecodeField(F[i][2], S[i - 1]) = Got(h[i][2], S[i]) /\ F[i][1] = h[i][1]
      BY <3>1, <1>15, <1>16
    <3>3. MapOf(h, i) = insert(MapOf(h, i - 1), h[i][1], h[i][2])
      BY <3>1, <1>17, MapInsert
    <3>4. FieldStep(Got(MapOf(h, i - 1), S[i - 1]), F[i]) = Got(MapOf(h, i), S[i])
      <4> DEFINE m == MapOf(h, i - 1)
                 c == Got(m, S[i - 1])
      <4>1. c.ok /\ c.src = S[i - 1]
        BY DEF Got
      <4>2. Then(c, h[i][1], Got(h[i][2], S[i])) = Got(insert(m, h[i][1], h[i][2]), S[i])
        BY ThenGot
      <4> HIDE DEF m, c
      <4>3. FieldStep(c, F[i]) = Then(c, h[i][1], Got(h[i][2], S[i]))
        BY <3>2, <4>1 DEF FieldStep
      <4> QED BY <3>3, <4>2, <4>3 DEF c, m
    <3>5. d[i] = Got(MapOf(h, i), S[i]) /\ d[i - 1] = Got(MapOf(h, i - 1), S[i - 1])
      BY <3>1
    <3> HIDE DEF d
    <3> QED BY <2>2, <3>4, <3>5
  <2> QED BY <2>1, <2>2
<1>19. IsFields(d, F, S[0], L)
  BY <1>18 DEF IsFields
<1>20. d[L] = Got(MapOf(h, L), << >>)
  BY <1>5, <1>12
<1>21. MapOf(h, L) = AsRead(body)
  BY PairsAsRead DEF h, L, F
<1> HIDE DEF d
<1>22. decode(type, S[0]) = d[L]
  <2>1. L = Len(F)
    BY DEF L
  <2> QED BY <2>1, <1>1, <1>5, <1>19, FieldsAre
<1> QED
  BY <1>13, <1>20, <1>21, <1>22

----------------------------------------------------------------------------
(* Frames.                                                                  *)

KnownFrames == UNION {Range(b) : b \in Batches}
EncodedFrames == {f \in KnownFrames : Encodable(f.type, f.body)}

LEMMA KnownSendable ==
    ASSUME NEW f \in KnownFrames
    PROVE  Sendable(f)
<1>1. PICK b \in Batches : f \in Range(b)
  BY DEF KnownFrames
<1> QED
  BY <1>1, FrameCodecAssumption

LEMMA PayloadShort ==
    ASSUME NEW f \in EncodedFrames
    PROVE  LET payload == encode_bytes(f.type, f.body)
           IN  /\ payload \in Seq(Nat)
               /\ Len(payload) + FRAME_HEADER_LENGTH < U16
               /\ decode(f.type, payload) = Got(AsRead(f.body), << >>)
<1> DEFINE payload == encode_bytes(f.type, f.body)
<1>1. Encodable(f.type, f.body) /\ Sendable(f)
  BY KnownSendable DEF EncodedFrames
<1>2. /\ f.type \in DOMAIN Written /\ PayloadOK(f.type, f.body)
      /\ "args" \notin DOMAIN f.body => Len(payload) < U16 - FRAME_HEADER_LENGTH
      /\ "args" \in DOMAIN f.body => Len(payload) <= FRAME_MAX_LENGTH - FRAME_HEADER_LENGTH
  BY <1>1 DEF Sendable, Encodable, PayloadFits
<1>3. payload \in Seq(Nat) /\ (Len(payload) < U16 => decode(f.type, payload) = Got(AsRead(f.body), << >>))
  BY <1>1, <1>2, ReadPayload, Zenon
<1> HIDE DEF payload
<1>4. PICK n \in Nat : n = Len(payload)
  BY <1>3
<1>5. n < U16 - 16
  BY <1>2, <1>4, WordSizes DEF FRAME_MAX_LENGTH, FRAME_HEADER_LENGTH
<1>6. n + FRAME_HEADER_LENGTH < U16 /\ n < U16
  BY <1>5, WordSizes DEF FRAME_HEADER_LENGTH
<1> QED
  BY <1>3, <1>4, <1>6 DEF payload

LEMMA ConcatElements ==
    ASSUME NEW s \in Seq(Nat), NEW t \in Seq(Nat)
    PROVE  /\ s \o t \in Seq(Nat) /\ Len(s \o t) = Len(s) + Len(t)
           /\ \A i \in 1 .. Len(s) : (s \o t)[i] = s[i]
           /\ \A i \in 1 .. Len(t) : (s \o t)[Len(s) + i] = t[i]
  OBVIOUS

LEMMA TypeBytes ==
    /\ DOMAIN Written \subseteq DOMAIN TypeByte
    /\ \A t \in DOMAIN TypeByte : TypeByte[t] \in Nat
    /\ \A t, u \in DOMAIN TypeByte : TypeByte[t] = TypeByte[u] => t = u
  BY DEF TypeByte, Written

(* What the header of a written frame says, byte by byte.                   *)
LEMMA FrameBytes ==
    ASSUME NEW f \in EncodedFrames
    PROVE  LET e == encode(f)
               payload == encode_bytes(f.type, f.body)
           IN  /\ e \in Seq(Nat) /\ Len(e) = FRAME_HEADER_LENGTH + Len(payload) /\ Len(e) < U16
               /\ \A i \in 1 .. 2 : e[i] = put(Len(e), 2)[i]
               /\ e[3] = TypeByte[f.type]
               /\ \A i \in 1 .. 4 : e[4 + i] = put(f.id, 4)[i]
               /\ SubSeq(e, FRAME_HEADER_LENGTH + 1, Len(e)) = payload
<1> DEFINE e == encode(f)
           payload == encode_bytes(f.type, f.body)
           n == Len(payload) + 16
           p == put(n, 2)
           t == <<TypeByte[f.type], 0>>
           q == put(f.id, 4)
           z == [i \in 1 .. 8 |-> 0]
           h4 == p \o t
           h8 == h4 \o q
           h16 == h8 \o z
<1>1. payload \in Seq(Nat) /\ Len(payload) \in Nat /\ n < U16 /\ n \in Nat /\ Len(payload) < U16
  <2>1. payload \in Seq(Nat) /\ Len(payload) + 16 < U16
    BY PayloadShort DEF FRAME_HEADER_LENGTH
  <2> HIDE DEF payload
  <2> QED BY <2>1, WordSizes
<1>2. f.id \in Nat /\ TypeByte[f.type] \in Nat
  <2>1. f.id \in 0 .. U32 - 1 /\ f.type \in DOMAIN Written
    BY KnownSendable DEF EncodedFrames, Sendable
  <2> QED BY <2>1, WordSizes, TypeBytes
<1>3. e = h16 \o payload
  <2>1. Len(payload) % U16 = Len(payload)
    <3> HIDE DEF payload
    <3> QED BY <1>1, WordSizes, ModSmall, Zenon
  <2>2. e = (((put((Len(payload) % U16) + 16, 2) \o t) \o q) \o z) \o payload
    BY DEF encode, FRAME_HEADER_LENGTH
  <2> QED BY <2>1, <2>2
<1>4. p \in Seq(Nat) /\ Len(p) = 2
  <2> HIDE DEF n
  <2> QED BY <1>1, PutBytes
<1>5. t \in Seq(Nat) /\ Len(t) = 2 /\ t[1] = TypeByte[f.type]
  BY <1>2
<1>6. q \in Seq(Nat) /\ Len(q) = 4
  BY <1>2, PutBytes
<1>7. z \in Seq(Nat) /\ Len(z) = 8
  OBVIOUS
<1> HIDE DEF e, payload, p, t, q, z
<1>8. h4 \in Seq(Nat) /\ Len(h4) = 4 /\ h4[1] = p[1] /\ h4[2] = p[2] /\ h4[3] = t[1]
  <2>1. /\ h4 \in Seq(Nat) /\ Len(h4) = 2 + 2
        /\ \A i \in 1 .. 2 : h4[i] = p[i]
        /\ \A i \in 1 .. 2 : h4[2 + i] = t[i]
    <3>1. /\ p \o t \in Seq(Nat) /\ Len(p \o t) = Len(p) + Len(t)
          /\ \A i \in 1 .. Len(p) : (p \o t)[i] = p[i]
          /\ \A i \in 1 .. Len(t) : (p \o t)[Len(p) + i] = t[i]
      BY <1>4, <1>5, ConcatElements, Zenon
    <3> QED BY <1>4, <1>5, <3>1, Zenon
  <2>2. 1 \in 1 .. 2 /\ 2 \in 1 .. 2 /\ 2 + 1 = 3 /\ 2 + 2 = 4
    OBVIOUS
  <2> HIDE DEF h4
  <2> QED BY <2>1, <2>2
<1> HIDE DEF h4
<1>9. /\ h8 \in Seq(Nat) /\ Len(h8) = 8 /\ h8[1] = p[1] /\ h8[2] = p[2] /\ h8[3] = t[1]
      /\ \A i \in 1 .. 4 : h8[4 + i] = q[i]
  <2>1. /\ h8 \in Seq(Nat) /\ Len(h8) = 4 + 4
        /\ \A i \in 1 .. 4 : h8[i] = h4[i]
        /\ \A i \in 1 .. 4 : h8[4 + i] = q[i]
    <3>1. /\ h4 \o q \in Seq(Nat) /\ Len(h4 \o q) = Len(h4) + Len(q)
          /\ \A i \in 1 .. Len(h4) : (h4 \o q)[i] = h4[i]
          /\ \A i \in 1 .. Len(q) : (h4 \o q)[Len(h4) + i] = q[i]
      BY <1>6, <1>8, ConcatElements, Zenon
    <3> QED BY <1>6, <1>8, <3>1, Zenon
  <2>2. 1 \in 1 .. 4 /\ 2 \in 1 .. 4 /\ 3 \in 1 .. 4 /\ 4 + 4 = 8
    OBVIOUS
  <2> HIDE DEF h8
  <2> QED BY <1>8, <2>1, <2>2
<1> HIDE DEF h8
<1>10. /\ h16 \in Seq(Nat) /\ Len(h16) = 16 /\ h16[1] = p[1] /\ h16[2] = p[2] /\ h16[3] = t[1]
       /\ \A i \in 1 .. 4 : h16[4 + i] = q[i]
  <2>1. h16 \in Seq(Nat) /\ Len(h16) = 8 + 8 /\ \A i \in 1 .. 8 : h16[i] = h8[i]
    <3>1. /\ h8 \o z \in Seq(Nat) /\ Len(h8 \o z) = Len(h8) + Len(z)
          /\ \A i \in 1 .. Len(h8) : (h8 \o z)[i] = h8[i]
      BY <1>7, <1>9, ConcatElements, Zenon
    <3> QED BY <1>7, <1>9, <3>1, Zenon
  <2>2. /\ \A i \in 1 .. 4 : 4 + i \in 1 .. 8
        /\ 1 \in 1 .. 8 /\ 2 \in 1 .. 8 /\ 3 \in 1 .. 8 /\ 8 + 8 = 16
    OBVIOUS
  <2> HIDE DEF h16
  <2> QED BY <1>9, <2>1, <2>2
<1> HIDE DEF h16
<1>11. /\ e \in Seq(Nat) /\ Len(e) = 16 + Len(payload) /\ e[1] = p[1] /\ e[2] = p[2] /\ e[3] = t[1]
       /\ \A i \in 1 .. 4 : e[4 + i] = q[i]
  <2>1. /\ h16 \o payload \in Seq(Nat) /\ Len(h16 \o payload) = 16 + Len(payload)
        /\ \A i \in 1 .. 16 : (h16 \o payload)[i] = h16[i]
    <3>1. /\ h16 \o payload \in Seq(Nat) /\ Len(h16 \o payload) = Len(h16) + Len(payload)
          /\ \A i \in 1 .. Len(h16) : (h16 \o payload)[i] = h16[i]
      BY <1>1, <1>10, ConcatElements, Zenon
    <3> QED BY <1>10, <3>1, Zenon
  <2>2. /\ \A i \in 1 .. 4 : 4 + i \in 1 .. 16
        /\ 1 \in 1 .. 16 /\ 2 \in 1 .. 16 /\ 3 \in 1 .. 16
    OBVIOUS
  <2>3. \A i \in 1 .. 16 : e[i] = h16[i]
    BY <1>3, <2>1
  <2>4. e \in Seq(Nat) /\ Len(e) = 16 + Len(payload)
    BY <1>3, <2>1
  <2> HIDE DEF e
  <2> QED BY <1>10, <2>2, <2>3, <2>4, Zenon
<1>12. SubSeq(e, 17, Len(e)) = payload
  <2>1. Rest(h16 \o payload, Len(h16)) = payload
    BY <1>1, <1>10, RestConcat
  <2>2. Rest(e, 16) = payload
    BY <1>3, <1>10, <2>1
  <2> QED BY <2>2 DEF Rest
<1>13. Len(e) = n
  BY <1>1, <1>11
<1>14. \A i \in 1 .. 2 : e[i] = put(Len(e), 2)[i]
  <2>1. \A i \in 1 .. 2 : i = 1 \/ i = 2
    OBVIOUS
  <2>2. \A i \in 1 .. 2 : e[i] = p[i]
    BY <1>11, <2>1
  <2> HIDE DEF n
  <2> QED BY <1>13, <2>2 DEF p
<1>15. 16 + 1 = 17 /\ Len(e) < U16
  BY <1>1, <1>13
<1> QED
  BY <1>5, <1>11, <1>12, <1>14, <1>15 DEF e, payload, q, FRAME_HEADER_LENGTH

(* Two ways to cut the same bytes.                                          *)
LEMMA SameBytes ==
    ASSUME NEW s \in Seq(Nat), NEW z \in Seq(Nat), NEW e \in Seq(Nat), NEW t \in Seq(Nat),
           s \o z = e \o t
    PROVE  /\ \A i \in 1 .. Len(s) : i <= Len(e) => s[i] = e[i]
           /\ Len(s) + Len(z) = Len(e) + Len(t)
<1>1. /\ Len(s \o z) = Len(s) + Len(z)
      /\ \A i \in 1 .. Len(s) : (s \o z)[i] = s[i]
  BY ConcatElements
<1>2. /\ Len(e \o t) = Len(e) + Len(t)
      /\ \A i \in 1 .. Len(e) : (e \o t)[i] = e[i]
  BY ConcatElements
<1>3. \A i \in 1 .. Len(s) : i <= Len(e) => i \in 1 .. Len(e)
  OBVIOUS
<1> QED
  BY <1>1, <1>2, <1>3

LEMMA PrefixElements ==
    ASSUME NEW s \in Seq(Nat), NEW e \in Seq(Nat), Len(s) <= Len(e),
           \A i \in 1 .. Len(s) : s[i] = e[i]
    PROVE  SubSeq(e, 1, Len(s)) = s
<1> DEFINE p == SubSeq(e, 1, Len(s))
<1>1. p \in Seq(Nat) /\ Len(p) = Len(s)
  OBVIOUS
<1>2. \A i \in 1 .. Len(s) : p[i] = e[i]
  OBVIOUS
<1> HIDE DEF p
<1>3. p = s
  BY <1>1, <1>2, SeqEqual
<1> QED
  BY <1>3 DEF p

LEMMA ShorterIsPrefix ==
    ASSUME NEW s \in Seq(Nat), NEW z \in Seq(Nat), NEW e \in Seq(Nat), NEW t \in Seq(Nat),
           s \o z = e \o t, Len(s) < Len(e)
    PROVE  IsStrictPrefix(s, e)
<1>1. \A i \in 1 .. Len(s) : s[i] = e[i]
  <2>1. \A i \in 1 .. Len(s) : i <= Len(e) => s[i] = e[i]
    BY SameBytes, ZenonT(40)
  <2>2. \A i \in 1 .. Len(s) : i <= Len(e)
    OBVIOUS
  <2> QED
    BY <2>1, <2>2
<1>2. SubSeq(s, 1, Len(s)) = s
  OBVIOUS
<1>3. SubSeq(e, 1, Len(s)) = s
  <2>1. Len(s) <= Len(e)
    OBVIOUS
  <2> QED
    BY <1>1, <2>1, PrefixElements, Zenon
<1> QED
  BY <1>2, <1>3 DEF IsStrictPrefix, IsPrefix

CutTwice(s, z, e, t) ==
    /\ s \in Seq(Nat) /\ z \in Seq(Nat) /\ e \in Seq(Nat) /\ t \in Seq(Nat)
    /\ s \o z = e \o t

LEMMA LongerHasPrefix ==
    ASSUME NEW s, NEW z, NEW e, NEW t, CutTwice(s, z, e, t), ~ (Len(s) < Len(e))
    PROVE  \E r \in Seq(Nat) : s = e \o r /\ r \o z = t
<1> SUFFICES ASSUME s \in Seq(Nat), z \in Seq(Nat), e \in Seq(Nat), t \in Seq(Nat),
                    s \o z = e \o t
             PROVE  \E r \in Seq(Nat) : s = e \o r /\ r \o z = t
  BY DEF CutTwice
<1> DEFINE r == SubSeq(s, Len(e) + 1, Len(s))
<1>0. Len(e) \in Nat /\ Len(s) \in Nat /\ Len(e) <= Len(s)
  OBVIOUS
<1>1. \A i \in 1 .. Len(e) : s[i] = e[i]
  <2>1. \A i \in 1 .. Len(s) : i <= Len(e) => s[i] = e[i]
    BY SameBytes, ZenonT(40)
  <2>2. \A i \in 1 .. Len(e) : i \in 1 .. Len(s) /\ i <= Len(e)
    BY <1>0
  <2> QED
    BY <2>1, <2>2
<1>2. r \in Seq(Nat) /\ Len(r) = Len(s) - Len(e) /\ \A i \in 1 .. Len(r) : r[i] = s[Len(e) + i]
  OBVIOUS
<1> HIDE DEF r
<1>3. s = e \o r
  <2>1. Len(e \o r) = Len(s) /\ e \o r \in Seq(Nat)
    BY <1>2
  <2>2. \A i \in 1 .. Len(s) : (e \o r)[i] = s[i]
    <3> SUFFICES ASSUME NEW i \in 1 .. Len(s) PROVE (e \o r)[i] = s[i]
      OBVIOUS
    <3>1. CASE i <= Len(e)
      BY <1>1, <1>2, <3>1
    <3>2. CASE i > Len(e)
      <4>1. i - Len(e) \in 1 .. Len(r) /\ Len(e) + (i - Len(e)) = i
        BY <1>2, <3>2, SMTT(30)
      <4>2. (e \o r)[i] = r[i - Len(e)]
        BY <1>2, <3>2, SMTT(30)
      <4> QED
        BY <1>2, <4>1, <4>2
    <3>3. i <= Len(e) \/ i > Len(e)
      BY <1>0
    <3> QED
      BY <3>1, <3>2, <3>3, Zenon
  <2> QED
    BY <2>1, <2>2, SeqEqual
<1>4. r \o z = t
  <2>1. (e \o r) \o z = e \o (r \o z)
    BY <1>2, Assoc, Zenon
  <2>2. e \o (r \o z) = e \o t
    BY <1>3, <2>1
  <2>3. r \o z \in Seq(Nat)
    BY <1>2
  <2>4. Rest(e \o (r \o z), Len(e)) = r \o z
    BY <2>3, RestConcat
  <2>5. Rest(e \o t, Len(e)) = t
    BY RestConcat
  <2> QED
    BY <2>2, <2>4, <2>5
<1> QED
  BY <1>2, <1>3, <1>4

(* is_buffering says whether the frame that comes next is there.            *)
LEMMA LengthRead ==
    ASSUME NEW f \in EncodedFrames,
           NEW src \in Seq(Nat), NEW z \in Seq(Nat), NEW t \in Seq(Nat),
           src \o z = encode(f) \o t
    PROVE  /\ Len(src) >= 2 => get(src, 2) = Got(Len(encode(f)), Rest(src, 2))
           /\ is_buffering(src) <=> Len(src) < Len(encode(f))
<1> DEFINE e == encode(f)
<1>1. /\ e \in Seq(Nat) /\ Len(e) \in Nat /\ Len(e) >= 16 /\ Len(e) < U16
      /\ \A i \in 1 .. 2 : e[i] = put(Len(e), 2)[i]
  <2> DEFINE payload == encode_bytes(f.type, f.body)
  <2>1. /\ e \in Seq(Nat) /\ Len(e) = 16 + Len(payload) /\ Len(e) < U16
        /\ \A i \in 1 .. 2 : e[i] = put(Len(e), 2)[i]
    BY FrameBytes DEF FRAME_HEADER_LENGTH
  <2>2. payload \in Seq(Nat)
    BY PayloadShort
  <2> HIDE DEF payload, e
  <2> QED
    BY <2>1, <2>2
<1> HIDE DEF e
<1>2. src \o z = e \o t
  BY DEF e
<1>3. Fits(Len(e), 2)
  BY <1>1, NumbersFit
<1>4. ASSUME Len(src) >= 2 PROVE get(src, 2) = Got(Len(e), Rest(src, 2))
  <2>1. \A i \in 1 .. Len(src) : i <= Len(e) => src[i] = e[i]
    BY <1>1, <1>2, SameBytes
  <2>2. \A i \in 1 .. 2 : i \in 1 .. Len(src) /\ i <= Len(e)
    BY <1>1, <1>4, SMTT(30)
  <2>3. \A i \in 1 .. 2 : src[i] = put(Len(e), 2)[i]
    BY <1>1, <2>1, <2>2
  <2>4. 2 \in Nat
    OBVIOUS
  <2> QED
    BY <1>1, <1>3, <1>4, <2>3, <2>4, GetPut
<1>5. is_buffering(src) <=> Len(src) < Len(e)
  <2>1. CASE Len(src) >= 2
    <3>1. get(src, 2).val = Len(e)
      BY <1>4, <2>1 DEF Got
    <3> QED
      BY <1>1, <2>1, <3>1 DEF is_buffering
  <2>2. CASE ~ (Len(src) >= 2)
    BY <1>1, <2>2 DEF is_buffering
  <2> QED
    BY <2>1, <2>2
<1> QED
  BY <1>4, <1>5 DEF e

(* A frame as TFrameIdCodec::decode returns it.                             *)
AsReceived(f) == [id |-> f.id, type |-> f.type, payload |-> encode_bytes(f.type, f.body)]

LEMMA DecodeFrame ==
    ASSUME NEW f \in EncodedFrames, NEW t \in Seq(Nat)
    PROVE  decode_frame(encode(f) \o t) = Got(AsReceived(f), t)
<1> DEFINE e == encode(f)
           payload == encode_bytes(f.type, f.body)
           src == e \o t
<1>1. /\ e \in Seq(Nat) /\ Len(e) = 16 + Len(payload) /\ Len(e) < U16
      /\ e[3] = TypeByte[f.type]
      /\ \A i \in 1 .. 4 : e[4 + i] = put(f.id, 4)[i]
      /\ SubSeq(e, 17, Len(e)) = payload
  <2>1. 16 + 1 = 17
    OBVIOUS
  <2> QED BY <2>1, FrameBytes DEF FRAME_HEADER_LENGTH
<1>2. payload \in Seq(Nat)
  BY PayloadShort
<1>3. f.id \in 0 .. U32 - 1 /\ f.type \in DOMAIN Written
  BY KnownSendable DEF EncodedFrames, Sendable
<1>4. get(src, 2) = Got(Len(e), Rest(src, 2))
  <2>1. src \in Seq(Nat) /\ << >> \in Seq(Nat) /\ src \o << >> = encode(f) \o t /\ Len(src) >= 2
    <3> HIDE DEF e, payload
    <3>1. src \in Seq(Nat) /\ Len(src) >= 2
      BY <1>1, <1>2
    <3>2. \A s \in Seq(Nat) : s \o << >> = s
      OBVIOUS
    <3> QED BY <3>1, <3>2 DEF e
  <2> QED
    BY <2>1, LengthRead
<1> HIDE DEF e, payload
<1>5. /\ src \in Seq(Nat) /\ Len(src) = Len(e) + Len(t)
      /\ \A i \in 1 .. Len(e) : src[i] = e[i]
      /\ Rest(src, Len(e)) = t
  BY <1>1, RestConcat
<1> HIDE DEF src
<1>6. /\ Len(e) \in Nat /\ Len(e) >= 16 /\ Len(e) <= Len(src)
      /\ \A i \in 1 .. 16 : i \in 1 .. Len(e)
  <2>1. PICK n \in Nat, m \in Nat : n = Len(payload) /\ m = Len(t)
    BY <1>2
  <2>2. Len(e) = 16 + n /\ Len(src) = (16 + n) + m
    BY <1>1, <1>5, <2>1
  <2>3. 16 + n \in Nat /\ 16 + n >= 16 /\ 16 + n <= (16 + n) + m
        /\ \A i \in 1 .. 16 : i \in 1 .. 16 + n
    OBVIOUS
  <2> QED
    BY <2>2, <2>3
<1>7. src[3] = TypeByte[f.type] /\ \A i \in 1 .. 4 : src[4 + i] = put(f.id, 4)[i]
  <2>1. 3 \in 1 .. 16 /\ \A i \in 1 .. 4 : 4 + i \in 1 .. 16
    OBVIOUS
  <2>2. \A i \in 1 .. 16 : src[i] = e[i]
    BY <1>5, <1>6
  <2> QED
    BY <1>1, <2>1, <2>2
<1>8. {u \in DOMAIN TypeByte : TypeByte[u] = src[3]} = {f.type}
  BY <1>3, <1>7, TypeBytes
<1>9. get(Rest(src, 4), 4).val = f.id
  <2> DEFINE s == Rest(src, 4)
  <2>1. s \in Seq(Nat) /\ Len(s) >= 4 /\ \A i \in 1 .. 4 : s[i] = src[4 + i]
    <3>1. PICK m \in Nat : m = Len(src)
      BY <1>5
    <3>2. m >= 16
      BY <1>6, <3>1
    <3>3. s = SubSeq(src, 5, m) /\ src \in Seq(Nat)
      BY <1>5, <3>1 DEF Rest
    <3>4. \A u \in Seq(Nat) : \A k \in Nat : k = Len(u) /\ k >= 16 =>
             /\ SubSeq(u, 5, k) \in Seq(Nat) /\ Len(SubSeq(u, 5, k)) = k - 4
             /\ \A i \in 1 .. k - 4 : SubSeq(u, 5, k)[i] = u[4 + i]
      OBVIOUS
    <3>5. /\ SubSeq(src, 5, m) \in Seq(Nat) /\ Len(SubSeq(src, 5, m)) = m - 4
          /\ \A i \in 1 .. m - 4 : SubSeq(src, 5, m)[i] = src[4 + i]
      BY <3>1, <3>2, <3>3, <3>4, Zenon
    <3>6. m - 4 >= 4 /\ \A i \in 1 .. 4 : i \in 1 .. m - 4
      BY <3>2
    <3> HIDE DEF s
    <3> QED
      BY <3>3, <3>5, <3>6
  <2> HIDE DEF s
  <2>2. f.id \in Nat /\ f.id < U32 /\ 4 \in Nat
    BY <1>3, WordSizes
  <2>3. Fits(f.id, 4)
    BY <2>2, NumbersFit
  <2>4. \A i \in 1 .. 4 : s[i] = put(f.id, 4)[i]
    BY <1>7, <2>1
  <2>5. get(s, 4) = Got(f.id, Rest(s, 4))
    BY <2>1, <2>2, <2>3, <2>4, GetPut
  <2>6. get(s, 4).val = f.id
    BY <2>5 DEF Got
  <2> QED
    BY <2>6 DEF s
<1>10. SubSeq(src, 17, Len(e)) = payload
  <2>1. SubSeq(src, 17, Len(e)) = SubSeq(e, 17, Len(e))
    BY <1>1, <1>5, <1>6
  <2> QED
    BY <1>1, <2>1
<1>11. get(src, 2).val = Len(e)
  BY <1>4 DEF Got
<1>12. (CHOOSE u \in {f.type} : TRUE) = f.type
  OBVIOUS
<1>13. ~ (Len(e) < 16) /\ ~ (Len(e) > Len(src)) /\ {f.type} # {} /\ 16 + 1 = 17
  <2>1. Len(src) \in Nat
    BY <1>5
  <2> QED
    BY <1>6, <2>1
<1>14. decode_frame(src) = Got([id |-> f.id, type |-> f.type, payload |-> payload], t)
  BY <1>5, <1>8, <1>9, <1>10, <1>11, <1>12, <1>13 DEF decode_frame, FRAME_HEADER_LENGTH
<1> QED
  BY <1>14 DEF AsReceived, src, e, payload

----------------------------------------------------------------------------
(* The stream.                                                              *)

(* T[i] is what the frames of s after the i-th are on the wire.             *)
IsStream(T, s) ==
    /\ T \in [0 .. Len(s) -> Seq(Nat)]
    /\ T[Len(s)] = << >>
    /\ \A i \in 1 .. Len(s) : T[i - 1] = encode(s[i]) \o T[i]

CodecTypeOK ==
    /\ toSend \in Seq(KnownFrames)
    /\ sent \in Seq(EncodedFrames)
    /\ wire \in Seq(Nat)
    /\ link \in {"open", "closed", "broken"}
    /\ buf \in Seq(Nat)
    /\ reader \in {"reading", "decoding", "ended"}
    /\ received \in Seq({AsReceived(f) : f \in EncodedFrames})

ReceivedInOrder ==
    /\ Len(received) <= Len(sent)
    /\ \A i \in 1 .. Len(received) : received[i] = AsReceived(sent[i])

(* z are the bytes that were lost when the connection broke.                *)
Framed(T, z) ==
    /\ IsStream(T, sent)
    /\ z \in Seq(Nat)
    /\ link # "broken" => z = << >>
    /\ buf \o (wire \o z) = T[Len(received)]

CodecInv ==
    /\ CodecTypeOK
    /\ ReceivedInOrder
    /\ \E T, z : Framed(T, z)
    /\ reader \in {"reading", "ended"} => is_buffering(buf)

LEMMA CodecInit == Init => CodecInv
<1> SUFFICES ASSUME Init PROVE CodecInv
  OBVIOUS
<1>1. /\ toSend \in Batches /\ sent = << >> /\ wire = << >> /\ link = "open"
      /\ buf = << >> /\ reader = "reading" /\ received = << >>
  BY DEF Init
<1>2. toSend \in Seq(KnownFrames)
  <2>1. toSend \in Seq(Range(toSend))
    BY <1>1, FrameCodecAssumption
  <2>2. Range(toSend) \subseteq KnownFrames
    BY <1>1 DEF KnownFrames
  <2> DEFINE Z == Range(toSend)
  <2> HIDE DEF Z
  <2>3. toSend \in Seq(Z) /\ Z \subseteq KnownFrames
    BY <2>1, <2>2 DEF Z
  <2> QED
    BY <2>3
<1>3. CodecTypeOK
  BY <1>1, <1>2 DEF CodecTypeOK
<1>4. ReceivedInOrder
  BY <1>1 DEF ReceivedInOrder
<1>5. \E T, z : Framed(T, z)
  <2> DEFINE T == [i \in 0 .. 0 |-> << >>]
  <2>1. << >> \in Seq(Nat) /\ << >> \o (<< >> \o << >>) = << >> /\ Len(<< >>) = 0
    OBVIOUS
  <2>2. T \in [0 .. 0 -> Seq(Nat)] /\ T[0] = << >>
    OBVIOUS
  <2>3. \A i \in 1 .. 0 : FALSE
    OBVIOUS
  <2> HIDE DEF T
  <2>4. IsStream(T, << >>)
    BY <2>1, <2>2, <2>3 DEF IsStream
  <2>5. Framed(T, << >>)
    BY <1>1, <2>1, <2>2, <2>4 DEF Framed
  <2> QED
    BY <2>5
<1>6. is_buffering(buf)
  <2>1. ~ (Len(<< >>) >= 2)
    OBVIOUS
  <2> QED
    BY <1>1, <2>1 DEF is_buffering
<1> QED
  BY <1>3, <1>4, <1>5, <1>6 DEF CodecInv

LEMMA ThreeParts ==
    ASSUME NEW a \in Seq(Nat), NEW b \in Seq(Nat), NEW c \in Seq(Nat)
    PROVE  /\ (a \o b) \o c = a \o (b \o c)
           /\ a \o b \in Seq(Nat) /\ b \o c \in Seq(Nat)
           /\ a \o << >> = a /\ << >> \o a = a
  OBVIOUS

(* One more frame at the end of a stream.                                   *)
LEMMA StreamAppend ==
    ASSUME NEW T, NEW s \in Seq(EncodedFrames), IsStream(T, s), NEW f \in EncodedFrames
    PROVE  \E U : /\ IsStream(U, Append(s, f))
                  /\ \A i \in 0 .. Len(s) : U[i] = T[i] \o encode(f)
<1> DEFINE e == encode(f)
           n == Len(s)
           s1 == Append(s, f)
           U == [i \in 0 .. n + 1 |-> IF i = n + 1 THEN << >> ELSE T[i] \o e]
<1>1. n \in Nat /\ Len(s1) = n + 1 /\ s1[n + 1] = f /\ \A i \in 1 .. n : s1[i] = s[i]
  OBVIOUS
<1>2. e \in Seq(Nat)
  BY FrameBytes
<1>3. /\ \A i \in 0 .. n : T[i] \in Seq(Nat)
      /\ T[n] = << >>
      /\ \A i \in 1 .. n : T[i - 1] = encode(s[i]) \o T[i]
  BY DEF IsStream
<1>4. \A i \in 1 .. n : s[i] \in EncodedFrames
  OBVIOUS
<1> HIDE DEF e, n, s1
<1>5. \A i \in 0 .. n : U[i] = T[i] \o e
  BY <1>1
<1>6. U[n + 1] = << >>
  BY <1>1
<1>7. U \in [0 .. n + 1 -> Seq(Nat)]
  <2>1. \A i \in 0 .. n + 1 : i # n + 1 => i \in 0 .. n
    BY <1>1
  <2>2. \A i \in 0 .. n : T[i] \o e \in Seq(Nat)
    BY <1>2, <1>3, Cat, Zenon
  <2>3. << >> \in Seq(Nat)
    OBVIOUS
  <2> QED
    BY <2>1, <2>2, <2>3
<1> HIDE DEF U
<1>8. ASSUME NEW i \in 1 .. n + 1 PROVE U[i - 1] = encode(s1[i]) \o U[i]
  <2>1. CASE i = n + 1
    <3>1. i - 1 = n /\ n \in 0 .. n
      BY <1>1, <2>1
    <3>2. U[n] = << >> \o e
      BY <1>3, <1>5, <3>1
    <3>3. << >> \o e = e \o << >>
      BY <1>2
    <3> QED
      BY <1>1, <1>6, <2>1, <3>1, <3>2, <3>3 DEF e
  <2>2. CASE i # n + 1
    <3>1. i \in 1 .. n /\ i - 1 \in 0 .. n /\ i \in 0 .. n
      BY <1>1, <2>2
    <3>2. PICK d : d = encode(s[i]) /\ d \in Seq(Nat)
      BY <1>4, <3>1, FrameBytes
    <3>3. U[i - 1] = T[i - 1] \o e /\ U[i] = T[i] \o e /\ T[i - 1] = d \o T[i] /\ T[i] \in Seq(Nat)
      BY <1>3, <1>5, <3>1, <3>2
    <3>4. (d \o T[i]) \o e = d \o (T[i] \o e)
      BY <1>2, <3>2, <3>3, Assoc, Zenon
    <3> QED
      BY <1>1, <3>1, <3>2, <3>3, <3>4
  <2> QED
    BY <2>1, <2>2
<1>9. IsStream(U, s1)
  BY <1>1, <1>6, <1>7, <1>8 DEF IsStream
<1> QED
  BY <1>5, <1>9 DEF e, n, s1

(* What comes next in the buffer: the next frame of those sent, or nothing. *)
LEMMA NextFrame ==
    ASSUME CodecTypeOK, ReceivedInOrder, NEW T, NEW z, Framed(T, z)
    PROVE  /\ Len(received) \in Nat /\ Len(sent) \in Nat /\ Len(received) <= Len(sent)
           /\ Len(received) = Len(sent) => buf = << >>
           /\ Len(received) # Len(sent) =>
                 /\ sent[Len(received) + 1] \in EncodedFrames
                 /\ T[Len(received) + 1] \in Seq(Nat)
                 /\ buf \o (wire \o z) = encode(sent[Len(received) + 1]) \o T[Len(received) + 1]
<1>1. /\ buf \in Seq(Nat) /\ wire \in Seq(Nat) /\ z \in Seq(Nat)
      /\ buf \o (wire \o z) = T[Len(received)] /\ IsStream(T, sent)
  BY DEF CodecTypeOK, Framed
<1>2. PICK k \in Nat, n \in Nat : k = Len(received) /\ n = Len(sent) /\ k <= n
  <2>1. Len(received) \in Nat
    <3> DEFINE Z == {AsReceived(f) : f \in EncodedFrames}
    <3>1. received \in Seq(Z)
      BY DEF CodecTypeOK
    <3> HIDE DEF Z
    <3> QED BY <3>1
  <2>2. Len(sent) \in Nat
    BY DEF CodecTypeOK
  <2>3. Len(received) <= Len(sent)
    BY DEF ReceivedInOrder
  <2> QED BY <2>1, <2>2, <2>3
<1>3. ASSUME k = n PROVE buf = << >>
  <2>1. buf \o (wire \o z) = << >>
    BY <1>1, <1>2, <1>3 DEF IsStream
  <2>2. \A a, b \in Seq(Nat) : a \o b = << >> => a = << >>
    <3> SUFFICES ASSUME NEW a \in Seq(Nat), NEW b \in Seq(Nat), a \o b = << >> PROVE a = << >>
      OBVIOUS
    <3>1. Len(a) + Len(b) = 0
      <4>1. Len(a \o b) = Len(a) + Len(b)
        OBVIOUS
      <4>2. Len(a \o b) = 0
        OBVIOUS
      <4> QED BY <4>1, <4>2
    <3>2. Len(a) = 0
      BY <3>1
    <3> QED BY <3>2
  <2>3. wire \o z \in Seq(Nat)
    BY <1>1
  <2> QED
    BY <1>1, <2>1, <2>2, <2>3, Zenon
<1>4. ASSUME k # n
      PROVE  /\ sent[k + 1] \in EncodedFrames
             /\ T[k + 1] \in Seq(Nat)
             /\ buf \o (wire \o z) = encode(sent[k + 1]) \o T[k + 1]
  <2>1. k + 1 \in 1 .. n /\ k + 1 \in 0 .. n /\ (k + 1) - 1 = k
    BY <1>2, <1>4
  <2>2. sent[k + 1] \in EncodedFrames
    BY <1>2, <2>1 DEF CodecTypeOK
  <2>3. /\ T \in [0 .. n -> Seq(Nat)]
        /\ \A i \in 1 .. n : T[i - 1] = encode(sent[i]) \o T[i]
    BY <1>1, <1>2 DEF IsStream
  <2>4. T[(k + 1) - 1] = encode(sent[k + 1]) \o T[k + 1]
    BY <2>1, <2>3, Zenon
  <2> QED
    BY <1>1, <1>2, <2>1, <2>2, <2>3, <2>4
<1> QED
  BY <1>2, <1>3, <1>4

LEMMA WriteInv ==
    ASSUME CodecInv, Write
    PROVE  CodecInv'
<1>1. /\ CodecTypeOK /\ ReceivedInOrder
      /\ reader \in {"reading", "ended"} => is_buffering(buf)
  BY DEF CodecInv
<1>2. PICK T, z : Framed(T, z)
  BY DEF CodecInv
<1> DEFINE f == Head(toSend)
<1>3. /\ link = "open" /\ toSend # << >> /\ toSend' = Tail(toSend)
      /\ link' = link /\ buf' = buf /\ reader' = reader /\ received' = received
      /\ \/ Encodable(f.type, f.body) /\ wire' = wire \o encode(f) /\ sent' = Append(sent, f)
         \/ wire' = wire /\ sent' = sent
  BY DEF Write
<1>4. toSend' \in Seq(KnownFrames) /\ f \in KnownFrames
  BY <1>1, <1>3 DEF CodecTypeOK
<1>5. is_buffering(buf)' <=> is_buffering(buf)
  BY <1>3 DEF is_buffering
<1> HIDE DEF f
<1>6. /\ Len(received) \in Nat /\ Len(sent) \in Nat /\ Len(received) <= Len(sent)
  BY <1>1, <1>2, NextFrame, Zenon
<1>7. CASE wire' = wire /\ sent' = sent
  <2>1. CodecTypeOK'
    BY <1>1, <1>3, <1>4, <1>7 DEF CodecTypeOK
  <2>2. ReceivedInOrder'
    BY <1>1, <1>3, <1>7 DEF ReceivedInOrder
  <2>3. Framed(T, z)'
    BY <1>2, <1>3, <1>7 DEF Framed
  <2> QED
    BY <1>1, <1>3, <1>5, <2>1, <2>2, <2>3 DEF CodecInv
<1>8. CASE Encodable(f.type, f.body) /\ wire' = wire \o encode(f) /\ sent' = Append(sent, f)
  <2>1. f \in EncodedFrames
    BY <1>4, <1>8 DEF EncodedFrames
  <2>2. encode(f) \in Seq(Nat)
    BY <2>1, FrameBytes
  <2>3. /\ buf \in Seq(Nat) /\ wire \in Seq(Nat) /\ sent \in Seq(EncodedFrames)
        /\ link \in {"open", "closed", "broken"} /\ reader \in {"reading", "decoding", "ended"}
        /\ received \in Seq({AsReceived(g) : g \in EncodedFrames})
    BY <1>1 DEF CodecTypeOK
  <2>4. wire' \in Seq(Nat)
    BY <1>8, <2>2, <2>3
  <2>5. /\ sent' \in Seq(EncodedFrames) /\ Len(sent') = Len(sent) + 1
        /\ \A i \in 1 .. Len(sent) : sent'[i] = sent[i]
    BY <1>8, <2>1, <2>3
  <2>6. CodecTypeOK'
    BY <1>3, <1>4, <2>3, <2>4, <2>5, Zenon DEF CodecTypeOK
  <2>7. ReceivedInOrder'
    <3>1. \A i \in 1 .. Len(received) : received[i] = AsReceived(sent[i])
      BY <1>1 DEF ReceivedInOrder
    <3>2. \A i \in 1 .. Len(received) : i \in 1 .. Len(sent)
      BY <1>6
    <3>3. \A i \in 1 .. Len(received) : received'[i] = AsReceived(sent'[i])
      BY <1>3, <2>5, <3>1, <3>2, Zenon
    <3>4. Len(received) <= Len(sent')
      BY <1>6, <2>5
    <3> QED
      BY <1>3, <3>3, <3>4 DEF ReceivedInOrder
  <2>8. \E U : Framed(U, << >>)'
    <3>1. IsStream(T, sent) /\ z = << >> /\ buf \o (wire \o z) = T[Len(received)]
      BY <1>2, <1>3 DEF Framed
    <3>2. PICK U : /\ IsStream(U, Append(sent, f))
                   /\ \A i \in 0 .. Len(sent) : U[i] = T[i] \o encode(f)
      BY <2>1, <2>3, <3>1, StreamAppend, Zenon
    <3>3. U[Len(received)] = (buf \o wire) \o encode(f)
      <4>1. Len(received) \in 0 .. Len(sent)
        BY <1>6
      <4>2. wire \o z = wire
        BY <2>3, <3>1
      <4> QED
        BY <3>1, <3>2, <4>1, <4>2
    <3>4. (buf \o wire) \o encode(f) = buf \o (wire' \o << >>)
      <4>1. (buf \o wire) \o encode(f) = buf \o (wire \o encode(f))
        BY <2>2, <2>3, Assoc, Zenon
      <4>2. wire' \o << >> = wire'
        BY <2>4
      <4> QED
        BY <1>8, <4>1, <4>2
    <3>5. << >> \in Seq(Nat)
      OBVIOUS
    <3>6. Framed(U, << >>)'
      BY <1>3, <1>8, <3>2, <3>3, <3>4, <3>5 DEF Framed
    <3> QED
      BY <3>6
  <2> QED
    BY <1>1, <1>3, <1>5, <2>6, <2>7, <2>8 DEF CodecInv
<1> QED
  BY <1>3, <1>7, <1>8

LEMMA DecodeInv ==
    ASSUME CodecInv, Decode
    PROVE  CodecInv'
<1>1. /\ CodecTypeOK /\ ReceivedInOrder
      /\ reader \in {"reading", "ended"} => is_buffering(buf)
  BY DEF CodecInv
<1>2. PICK T, z : Framed(T, z)
  BY DEF CodecInv
<1>3. toSend' = toSend /\ sent' = sent /\ wire' = wire /\ link' = link
  BY DEF Decode
<1>4. CASE is_buffering(buf) /\ reader' = "reading" /\ buf' = buf /\ received' = received
  <2>1. CodecTypeOK'
    BY <1>1, <1>3, <1>4 DEF CodecTypeOK
  <2>2. ReceivedInOrder'
    BY <1>1, <1>3, <1>4 DEF ReceivedInOrder
  <2>3. Framed(T, z)'
    BY <1>2, <1>3, <1>4 DEF Framed
  <2>4. is_buffering(buf)'
    BY <1>4 DEF is_buffering
  <2> QED
    BY <2>1, <2>2, <2>3, <2>4 DEF CodecInv
<1> DEFINE k == Len(received)
           f == sent[k + 1]
           d == decode_frame(buf)
<1>5. CASE /\ ~is_buffering(buf)
           /\ received' = IF d.ok THEN Append(received, d.val) ELSE received
           /\ buf' = d.src
           /\ reader' = IF d.ok THEN "decoding" ELSE "failed"
  <2>1. /\ buf \in Seq(Nat) /\ wire \in Seq(Nat) /\ z \in Seq(Nat)
        /\ received \in Seq({AsReceived(g) : g \in EncodedFrames})
        /\ toSend \in Seq(KnownFrames) /\ sent \in Seq(EncodedFrames)
        /\ link \in {"open", "closed", "broken"}
    BY <1>1, <1>2 DEF CodecTypeOK, Framed
  <2>2. /\ k \in Nat /\ Len(sent) \in Nat /\ k <= Len(sent)
        /\ k = Len(sent) => buf = << >>
        /\ k # Len(sent) =>
              /\ f \in EncodedFrames /\ T[k + 1] \in Seq(Nat)
              /\ buf \o (wire \o z) = encode(f) \o T[k + 1]
    BY <1>1, <1>2, NextFrame, Zenon
  <2> HIDE DEF k, f
  <2>3. k # Len(sent)
    <3>1. ~ (Len(<< >>) >= 2)
      OBVIOUS
    <3>2. buf # << >>
      BY <1>5, <3>1 DEF is_buffering
    <3> QED
      BY <2>2, <3>2
  <2>4. encode(f) \in Seq(Nat) /\ wire \o z \in Seq(Nat)
    BY <2>1, <2>2, <2>3, FrameBytes, Cat
  <2>5. ~ (Len(buf) < Len(encode(f)))
    BY <1>5, <2>1, <2>2, <2>3, <2>4, LengthRead, Zenon
  <2>6. PICK r \in Seq(Nat) : buf = encode(f) \o r /\ r \o (wire \o z) = T[k + 1]
    <3>1. PICK s, y, e, t : s = buf /\ y = wire \o z /\ e = encode(f) /\ t = T[k + 1]
      OBVIOUS
    <3>2. CutTwice(s, y, e, t) /\ ~ (Len(s) < Len(e))
      BY <2>1, <2>2, <2>3, <2>4, <2>5, <3>1 DEF CutTwice
    <3>3. \E r \in Seq(Nat) : s = e \o r /\ r \o y = t
      BY <3>2, LongerHasPrefix
    <3> QED
      BY <3>1, <3>3, Zenon
  <2>7. d = Got(AsReceived(f), r)
    BY <2>2, <2>3, <2>6, DecodeFrame
  <2>8. d.ok /\ d.val = AsReceived(f) /\ d.src = r
    BY <2>7 DEF Got
  <2> HIDE DEF d
  <2>9. received' = Append(received, AsReceived(f)) /\ buf' = r /\ reader' = "decoding"
    BY <1>5, <2>8
  <2>10. /\ received' \in Seq({AsReceived(g) : g \in EncodedFrames})
         /\ Len(received') = k + 1 /\ received'[k + 1] = AsReceived(f)
         /\ \A i \in 1 .. k : received'[i] = received[i]
    <3> DEFINE Z == {AsReceived(g) : g \in EncodedFrames}
               v == AsReceived(f)
    <3>1. received \in Seq(Z) /\ v \in Z /\ received' = Append(received, v) /\ k = Len(received)
      BY <2>1, <2>2, <2>3, <2>9 DEF k
    <3> HIDE DEF Z, v
    <3>2. /\ received' \in Seq(Z) /\ Len(received') = k + 1 /\ received'[k + 1] = v
          /\ \A i \in 1 .. k : received'[i] = received[i]
      BY <3>1
    <3> QED
      BY <3>2 DEF Z, v
  <2>11. CodecTypeOK'
    BY <1>3, <2>1, <2>6, <2>9, <2>10, Zenon DEF CodecTypeOK
  <2>12. ReceivedInOrder'
    <3>1. \A i \in 1 .. k : received[i] = AsReceived(sent[i])
      BY <1>1 DEF ReceivedInOrder, k
    <3>2. \A i \in 1 .. k + 1 : i = k + 1 \/ i \in 1 .. k
      BY <2>2
    <3>3. \A i \in 1 .. k + 1 : received'[i] = AsReceived(sent[i])
      BY <2>10, <3>1, <3>2, Zenon DEF f
    <3>4. k + 1 <= Len(sent)
      BY <2>2, <2>3
    <3> QED
      BY <1>3, <2>10, <3>3, <3>4 DEF ReceivedInOrder
  <2>13. Framed(T, z)'
    <3>1. IsStream(T, sent) /\ z \in Seq(Nat) /\ (link # "broken" => z = << >>)
      BY <1>2 DEF Framed
    <3>2. r \o (wire \o z) = T[Len(received')]
      BY <2>6, <2>10
    <3> QED
      BY <1>3, <2>9, <3>1, <3>2 DEF Framed
  <2> QED
    BY <2>9, <2>11, <2>12, <2>13 DEF CodecInv
<1> QED
  BY <1>4, <1>5 DEF Decode

FourParts(a, b, c, d) == a \in Seq(Nat) /\ b \in Seq(Nat) /\ c \in Seq(Nat) /\ d \in Seq(Nat)

LEMMA FourConcat ==
    ASSUME NEW a, NEW b, NEW c, NEW d, FourParts(a, b, c, d)
    PROVE  (a \o b) \o (c \o d) = a \o ((b \o c) \o d)
<1>1. a \in Seq(Nat) /\ b \in Seq(Nat) /\ c \in Seq(Nat) /\ d \in Seq(Nat)
  BY DEF FourParts
<1>2. PICK cd : cd = c \o d
  OBVIOUS
<1>3. cd \in Seq(Nat)
  BY <1>1, <1>2
<1>4. (a \o b) \o cd = a \o (b \o cd)
  BY <1>1, <1>3, SMTT(30)
<1>5. b \o (c \o d) = (b \o c) \o d
  BY <1>1
<1> QED
  BY <1>2, <1>4, <1>5

(* The link closes or breaks, a read returns.                               *)
LEMMA LinkInv ==
    ASSUME CodecInv,
           CloseStream \/ Break \/ ReadEof \/ \E n \in 1 .. Len(wire) : ReadBytes(n)
    PROVE  CodecInv'
<1>1. /\ CodecTypeOK /\ ReceivedInOrder
      /\ reader \in {"reading", "ended"} => is_buffering(buf)
  BY DEF CodecInv
<1>2. PICK T, z : Framed(T, z)
  BY DEF CodecInv
<1>3. /\ buf \in Seq(Nat) /\ wire \in Seq(Nat) /\ z \in Seq(Nat)
      /\ IsStream(T, sent) /\ (link # "broken" => z = << >>)
      /\ buf \o (wire \o z) = T[Len(received)]
  BY <1>1, <1>2 DEF CodecTypeOK, Framed
<1>4. CASE CloseStream
  <2>1. /\ link = "open" /\ link' = "closed" /\ toSend' = toSend /\ sent' = sent
        /\ wire' = wire /\ buf' = buf /\ reader' = reader /\ received' = received
    BY <1>4 DEF CloseStream
  <2>2. CodecTypeOK'
    BY <1>1, <2>1 DEF CodecTypeOK
  <2>3. ReceivedInOrder'
    BY <1>1, <2>1 DEF ReceivedInOrder
  <2>4. Framed(T, z)'
    BY <1>2, <2>1 DEF Framed
  <2>5. is_buffering(buf)' <=> is_buffering(buf)
    BY <2>1 DEF is_buffering
  <2> QED
    BY <1>1, <2>1, <2>2, <2>3, <2>4, <2>5 DEF CodecInv
<1>5. CASE Break
  <2>1. /\ link' = "broken" /\ wire' = << >> /\ toSend' = toSend /\ sent' = sent
        /\ buf' = buf /\ reader' = reader /\ received' = received
    BY <1>5 DEF Break
  <2>2. CodecTypeOK'
    BY <1>1, <2>1 DEF CodecTypeOK
  <2>3. ReceivedInOrder'
    BY <1>1, <2>1 DEF ReceivedInOrder
  <2>4. \E u : Framed(T, u)'
    <3>1. wire \o z \in Seq(Nat)
      BY <1>3
    <3>2. << >> \o (wire \o z) = wire \o z
      BY <3>1
    <3>3. buf \o (<< >> \o (wire \o z)) = T[Len(received)]
      BY <1>3, <3>2
    <3>4. PICK u : u = wire \o z
      OBVIOUS
    <3>5. Framed(T, u)'
      BY <1>3, <2>1, <3>1, <3>3, <3>4 DEF Framed
    <3> QED
      BY <3>5
  <2>5. is_buffering(buf)' <=> is_buffering(buf)
    BY <2>1 DEF is_buffering
  <2> QED
    BY <1>1, <2>1, <2>2, <2>3, <2>4, <2>5 DEF CodecInv
<1>6. CASE ReadEof
  <2>1. /\ link' = link /\ wire' = wire /\ toSend' = toSend /\ sent' = sent
        /\ buf' = buf /\ reader = "reading" /\ reader' = "ended" /\ received' = received
    BY <1>6 DEF ReadEof
  <2>2. CodecTypeOK'
    BY <1>1, <2>1 DEF CodecTypeOK
  <2>3. ReceivedInOrder'
    BY <1>1, <2>1 DEF ReceivedInOrder
  <2>4. Framed(T, z)'
    BY <1>2, <2>1 DEF Framed
  <2>5. is_buffering(buf)' <=> is_buffering(buf)
    BY <2>1 DEF is_buffering
  <2> QED
    BY <1>1, <2>1, <2>2, <2>3, <2>4, <2>5 DEF CodecInv
<1>7. ASSUME NEW n \in 1 .. Len(wire), ReadBytes(n) PROVE CodecInv'
  <2>1. /\ buf' = buf \o SubSeq(wire, 1, n) /\ wire' = Rest(wire, n) /\ n <= Len(wire)
        /\ reader' = "decoding" /\ received' = received
        /\ toSend' = toSend /\ sent' = sent /\ link' = link
    BY <1>7 DEF ReadBytes
  <2>2. PICK a, b : a = SubSeq(wire, 1, n) /\ b = Rest(wire, n)
    OBVIOUS
  <2>3. a \in Seq(Nat) /\ b \in Seq(Nat) /\ wire = a \o b
    <3>1. \A w \in Seq(Nat) : \A m \in 1 .. Len(w) :
             /\ SubSeq(w, 1, m) \in Seq(Nat) /\ SubSeq(w, m + 1, Len(w)) \in Seq(Nat)
             /\ w = SubSeq(w, 1, m) \o SubSeq(w, m + 1, Len(w))
      OBVIOUS
    <3> QED
      BY <1>3, <2>2, <3>1, Zenon DEF Rest
  <2>4. buf' \in Seq(Nat) /\ wire' \in Seq(Nat)
    BY <1>3, <2>1, <2>2, <2>3
  <2>5. CodecTypeOK'
    BY <1>1, <2>1, <2>4 DEF CodecTypeOK
  <2>6. ReceivedInOrder'
    BY <1>1, <2>1 DEF ReceivedInOrder
  <2>7. (buf \o a) \o (b \o z) = T[Len(received)]
    <3>1. FourParts(buf, a, b, z)
      BY <1>3, <2>3 DEF FourParts
    <3>2. (buf \o a) \o (b \o z) = buf \o ((a \o b) \o z)
      BY <3>1, FourConcat
    <3> QED
      BY <1>3, <2>3, <3>2
  <2>8. Framed(T, z)'
    BY <1>3, <2>1, <2>2, <2>7 DEF Framed
  <2> QED
    BY <2>1, <2>5, <2>6, <2>8 DEF CodecInv
<1> QED
  BY <1>4, <1>5, <1>6, <1>7

(* Whatever the reads return and wherever the connection breaks, the buffer *)
(* and the wire hold, in order, what the frames that were sent and not yet  *)
(* received were encoded to, up to the bytes that were lost.                *)
THEOREM StreamInvariant == Spec => []CodecInv
<1>1. Init => CodecInv
  BY CodecInit
<1>2. CodecInv /\ [Next]_vars => CodecInv'
  <2> SUFFICES ASSUME CodecInv, [Next]_vars PROVE CodecInv'
    OBVIOUS
  <2>1. CASE Write
    BY <2>1, WriteInv
  <2>2. CASE CloseStream \/ Break \/ ReadEof \/ \E n \in 1 .. Len(wire) : ReadBytes(n)
    BY <2>2, LinkInv
  <2>3. CASE Decode
    BY <2>3, DecodeInv
  <2>4. CASE UNCHANGED vars
    <3>1. CodecTypeOK /\ ReceivedInOrder /\ (reader \in {"reading", "ended"} => is_buffering(buf))
      BY DEF CodecInv
    <3>2. PICK T, z : Framed(T, z)
      BY DEF CodecInv
    <3>3. CodecTypeOK'
      BY <2>4, <3>1 DEF CodecTypeOK, vars
    <3>4. ReceivedInOrder'
      BY <2>4, <3>1 DEF ReceivedInOrder, vars
    <3>5. Framed(T, z)'
      BY <2>4, <3>2 DEF Framed, vars
    <3>6. (reader \in {"reading", "ended"} => is_buffering(buf))'
      BY <2>4, <3>1 DEF is_buffering, vars
    <3> QED
      BY <3>3, <3>4, <3>5, <3>6 DEF CodecInv
  <2> QED
    BY <2>1, <2>2, <2>3, <2>4 DEF Next, Read
<1> QED
  BY <1>1, <1>2, PTL DEF Spec

(* Every frame that FramedRead returns is the next of those written, with   *)
(* its id, its type and every field of its payload; nothing is misread.     *)
THEOREM FramesArriveIntact == Spec => []FramesIntact
<1>1. CodecInv => FramesIntact
  <2> SUFFICES ASSUME CodecInv PROVE FramesIntact
    OBVIOUS
  <2>1. CodecTypeOK /\ ReceivedInOrder
    BY DEF CodecInv
  <2>2. reader # "failed" /\ Len(received) <= Len(sent)
    BY <2>1 DEF CodecTypeOK, ReceivedInOrder
  <2>3. DOMAIN received = 1 .. Len(received) /\ Len(received) \in Nat
    <3> DEFINE Z == {AsReceived(f) : f \in EncodedFrames}
    <3>1. received \in Seq(Z)
      BY <2>1 DEF CodecTypeOK
    <3> HIDE DEF Z
    <3> QED BY <3>1
  <2>4. ASSUME NEW i \in 1 .. Len(received)
        PROVE  LET payload == decode(received[i].type, received[i].payload)
               IN  /\ received[i].id = sent[i].id
                   /\ received[i].type = sent[i].type
                   /\ payload.ok /\ payload.val = AsRead(sent[i].body)
    <3>1. sent \in Seq(EncodedFrames)
      BY <2>1 DEF CodecTypeOK
    <3>2. sent[i] \in EncodedFrames
      BY <2>2, <2>3, <3>1
    <3>3. received[i] = AsReceived(sent[i])
      BY <2>1 DEF ReceivedInOrder
    <3>4. PICK f : f = sent[i] /\ f \in EncodedFrames /\ received[i] = AsReceived(f)
      BY <3>2, <3>3
    <3>5. /\ received[i].id = f.id /\ received[i].type = f.type
          /\ received[i].payload = encode_bytes(f.type, f.body)
      BY <3>4 DEF AsReceived
    <3>6. decode(received[i].type, received[i].payload) = Got(AsRead(f.body), << >>)
      BY <3>4, <3>5, PayloadShort
    <3> QED
      BY <3>4, <3>5, <3>6 DEF Got
  <2> QED
    BY <2>2, <2>3, <2>4 DEF FramesIntact
<1> QED
  BY <1>1, StreamInvariant, PTL

(* When FramedRead waits for bytes, or has come to the end of the stream,   *)
(* its buffer holds a proper beginning of the next frame, or nothing: a     *)
(* frame that has arrived whole is never kept waiting for the one after.    *)
THEOREM NoFrameWaits == Spec => []BufferIsPartial
<1>1. CodecInv => BufferIsPartial
  <2> SUFFICES ASSUME CodecInv, reader \in {"reading", "ended"}, buf # << >>
               PROVE  /\ Len(received) < Len(sent)
                      /\ IsStrictPrefix(buf, encode(sent[Len(received) + 1]))
    BY DEF BufferIsPartial
  <2>1. CodecTypeOK /\ ReceivedInOrder /\ is_buffering(buf)
    BY DEF CodecInv
  <2>2. PICK T, z : Framed(T, z)
    BY DEF CodecInv
  <2> DEFINE k == Len(received)
             f == sent[k + 1]
  <2>3. /\ k \in Nat /\ Len(sent) \in Nat /\ k <= Len(sent)
        /\ k = Len(sent) => buf = << >>
        /\ k # Len(sent) =>
              /\ f \in EncodedFrames /\ T[k + 1] \in Seq(Nat)
              /\ buf \o (wire \o z) = encode(f) \o T[k + 1]
    BY <2>1, <2>2, NextFrame, Zenon
  <2>4. buf \in Seq(Nat) /\ wire \in Seq(Nat) /\ z \in Seq(Nat)
    BY <2>1, <2>2 DEF CodecTypeOK, Framed
  <2>5. k # Len(sent) /\ k < Len(sent)
    <3> HIDE DEF k
    <3> QED BY <2>3
  <2> HIDE DEF k, f
  <2>6. encode(f) \in Seq(Nat) /\ wire \o z \in Seq(Nat)
    BY <2>3, <2>4, <2>5, FrameBytes, Cat
  <2>7. Len(buf) < Len(encode(f))
    BY <2>1, <2>3, <2>4, <2>5, <2>6, LengthRead, Zenon
  <2>8. IsStrictPrefix(buf, encode(f))
    BY <2>3, <2>4, <2>5, <2>6, <2>7, ShorterIsPrefix, Zenon
  <2> QED
    BY <2>5, <2>8 DEF k, f
<1> QED
  BY <1>1, StreamInvariant, PTL
=============================================================================
