---------------------------- MODULE Framing_proof ----------------------------
(***************************************************************************)
(* What the reader of frames makes of a stream, for every set of messages  *)
(* and noise, every cap and window, and every way the pipe cuts it.        *)
(*                                                                         *)
(* No byte is lost: the solid part of a stream is a homomorphism, so that  *)
(* what arrives can be appended on both sides, a frame can be cut off the  *)
(* buffer, and blank lines can be dropped from it.                         *)
(*                                                                         *)
(* Frames are the messages: what the peer wrote is laid out in pieces, a   *)
(* message or noise each, and the reader is at the cut between two of them *)
(* with the messages before it returned, whichever way the bytes came; at  *)
(* the front of a piece its decision is the one for that piece, or to wait *)
(* for more of it, and it waits only for what the pipe or the peer has.    *)
(***************************************************************************)
EXTENDS Framing, Induction_proof, SequenceTheorems

-----------------------------------------------------------------------------
(* The solid part of a sequence.                                           *)

Counts(f, s) ==
  /\ f \in [0..Len(s) -> Seq(Tokens)]
  /\ f[0] = <<>>
  /\ \A i \in 1..Len(s) :
       f[i] = IF IsBlank(s[i]) THEN f[i-1] ELSE Append(f[i-1], s[i])

(* Solid is computed from left to right.                                   *)
LEMMA SolidIsCounted ==
  ASSUME NEW s \in Seq(Tokens)
  PROVE  \E f : Counts(f, s) /\ Solid(s) = f[Len(s)]
<1> DEFINE N == Len(s)
           V == Seq(Tokens)
           h == [i \in 1..N |-> [v \in V |-> IF IsBlank(s[i]) THEN v ELSE Append(v, s[i])]]
           Step(g) == [i \in 0..N |-> IF i = 0 THEN <<>>
                         ELSE IF IsBlank(s[i]) THEN g[i-1] ELSE Append(g[i-1], s[i])]
           c == CHOOSE g : g = Step(g)
<1>1. N \in Nat /\ <<>> \in V
  OBVIOUS
<1>2. h \in [1..N -> [V -> V]]
  <2>1. ASSUME NEW i \in 1..N, NEW v \in V PROVE Append(v, s[i]) \in V
    OBVIOUS
  <2> QED BY <2>1
<1>3. \A i \in 1..N : \A v \in V : h[i][v] = IF IsBlank(s[i]) THEN v ELSE Append(v, s[i])
  OBVIOUS
<1> HIDE DEF N, V, h
<1>4. PICK f \in [0..N -> V] : f[0] = <<>> /\ \A i \in 1..N : f[i] = h[i][f[i-1]]
  <2> DEFINE none == <<>>
  <2> HIDE DEF none
  <2>1. N \in Nat
    BY <1>1
  <2>2. none \in V
    BY <1>1 DEF none
  <2>3. \E f \in [0..N -> V] : f[0] = none /\ \A i \in 1..N : f[i] = h[i][f[i-1]]
    BY <2>1, <2>2, <1>2, Recursion
  <2> QED BY <2>3 DEF none
<1>5. \A i \in 1..N : f[i] = IF IsBlank(s[i]) THEN f[i-1] ELSE Append(f[i-1], s[i])
  <2> TAKE i \in 1..N
  <2>1. i-1 \in 0..N
    BY <1>1
  <2>2. f[i-1] \in V
    BY <2>1
  <2> QED BY <1>3, <1>4, <2>2
<1>6. f = Step(f)
  <2>1. \A i \in 0..N : i # 0 => i \in 1..N
    BY <1>1
  <2>2. \A i \in 0..N : f[i] = Step(f)[i]
    BY <1>4, <1>5, <2>1
  <2>3. DOMAIN f = 0..N /\ f = [i \in 0..N |-> f[i]]
    OBVIOUS
  <2> QED BY <2>2, <2>3
<1>7. c = Step(c)
  BY <1>6
<1>8. Solid(s) = c[N]
  BY DEF Solid, N
<1>9. c[0] = <<>> /\ \A i \in 1..N : c[i] = IF IsBlank(s[i]) THEN c[i-1] ELSE Append(c[i-1], s[i])
  <2> HIDE DEF c
  <2>1. \A i \in 1..N : i # 0 /\ i \in 0..N
    BY <1>1
  <2>2. 0 \in 0..N
    BY <1>1
  <2> QED BY <1>7, <2>1, <2>2
<1> HIDE DEF c
<1> DEFINE S == {n \in Nat : n <= N => c[n] = f[n]}
<1>10. 0 \in S
  BY <1>4, <1>9
<1>11. ASSUME NEW n \in Nat, n \in S PROVE n + 1 \in S
  <2> SUFFICES ASSUME n + 1 <= N PROVE c[n+1] = f[n+1]
    OBVIOUS
  <2>1. n + 1 \in 1..N /\ (n + 1) - 1 = n /\ n <= N
    BY <1>1
  <2>2. c[n] = f[n]
    BY <1>11, <2>1
  <2> QED BY <1>5, <1>9, <2>1, <2>2
<1> HIDE DEF S
<1>12. N \in S
  BY <1>1, <1>10, <1>11, SetInduction
<1>13. c[N] = f[N]
  BY <1>1, <1>12 DEF S
<1>14. Counts(f, s)
  BY <1>4, <1>5 DEF Counts, N, V
<1> QED BY <1>8, <1>13, <1>14 DEF N

LEMMA SolidType ==
  ASSUME NEW s \in Seq(Tokens)
  PROVE  Solid(s) \in Seq(Tokens)
<1>1. PICK f : Counts(f, s) /\ Solid(s) = f[Len(s)]
  BY SolidIsCounted
<1>2. Len(s) \in 0..Len(s)
  OBVIOUS
<1> QED BY <1>1, <1>2 DEF Counts

(* Of blanks nothing is left.                                              *)
LEMMA SolidOfBlanks ==
  ASSUME NEW s \in Seq(Tokens), AllBlank(s)
  PROVE  Solid(s) = <<>>
<1>1. PICK f : Counts(f, s) /\ Solid(s) = f[Len(s)]
  BY SolidIsCounted
<1> DEFINE S == {n \in Nat : n <= Len(s) => f[n] = <<>>}
<1>2. 0 \in S
  BY <1>1 DEF Counts
<1>3. ASSUME NEW n \in Nat, n \in S PROVE n + 1 \in S
  <2> SUFFICES ASSUME n + 1 <= Len(s) PROVE f[n+1] = <<>>
    OBVIOUS
  <2>1. n + 1 \in 1..Len(s) /\ (n + 1) - 1 = n /\ n <= Len(s)
    OBVIOUS
  <2>2. f[n] = <<>>
    BY <1>3, <2>1
  <2>3. IsBlank(s[n+1])
    BY <2>1 DEF AllBlank
  <2> QED BY <1>1, <2>1, <2>2, <2>3 DEF Counts
<1> HIDE DEF S
<1>4. Len(s) \in S
  BY <1>2, <1>3, SetInduction
<1> QED BY <1>1, <1>4 DEF S

LEMMA AppendToConcat ==
  ASSUME NEW a \in Seq(Tokens), NEW b \in Seq(Tokens), NEW e \in Tokens
  PROVE  Append(a \o b, e) = a \o Append(b, e)
<1> DEFINE x == Append(a \o b, e)
           y == a \o Append(b, e)
<1>1. /\ a \o b \in Seq(Tokens) /\ Len(a \o b) = Len(a) + Len(b)
      /\ \A i \in 1..Len(a)+Len(b) : (a \o b)[i] = IF i <= Len(a) THEN a[i] ELSE b[i - Len(a)]
  BY ConcatProperties
<1>2. /\ Append(b, e) \in Seq(Tokens) /\ Len(Append(b, e)) = Len(b) + 1
      /\ \A i \in 1..Len(b) : Append(b, e)[i] = b[i]
      /\ Append(b, e)[Len(b) + 1] = e
  BY AppendProperties
<1>3. /\ x \in Seq(Tokens) /\ Len(x) = Len(a) + Len(b) + 1
      /\ \A i \in 1..Len(x) : x[i] = IF i <= Len(a) + Len(b) THEN (a \o b)[i] ELSE e
  BY <1>1
<1>4. /\ y \in Seq(Tokens) /\ Len(y) = Len(a) + Len(b) + 1
      /\ \A i \in 1..Len(y) : y[i] = IF i <= Len(a) THEN a[i] ELSE Append(b, e)[i - Len(a)]
  BY <1>2
<1> HIDE DEF x, y
<1>5. ASSUME NEW i \in 1..Len(x) PROVE x[i] = y[i]
  <2>1. Len(a) \in Nat /\ Len(b) \in Nat /\ i \in Nat /\ i \in 1..(Len(a) + Len(b) + 1)
    BY <1>3
  <2>2. CASE i <= Len(a)
    BY <1>1, <1>3, <1>4, <2>1, <2>2
  <2>3. CASE i > Len(a) /\ i <= Len(a) + Len(b)
    <3>1. i - Len(a) \in 1..Len(b)
      BY <2>1, <2>3
    <3>2. x[i] = b[i - Len(a)]
      BY <1>1, <1>3, <2>1, <2>3
    <3>3. y[i] = Append(b, e)[i - Len(a)]
      BY <1>4, <2>1, <2>3
    <3> QED BY <1>2, <3>1, <3>2, <3>3
  <2>4. CASE i = Len(a) + Len(b) + 1
    <3>1. x[i] = e
      BY <1>3, <2>1, <2>4
    <3>2. y[i] = Append(b, e)[Len(b) + 1]
      BY <1>4, <2>1, <2>4
    <3> QED BY <1>2, <3>1, <3>2
  <2> QED BY <2>1, <2>2, <2>3, <2>4
<1> QED BY <1>3, <1>4, <1>5, SeqEqual DEF x, y

LEMMA TokensAssociative ==
  ASSUME NEW a \in Seq(Tokens), NEW b \in Seq(Tokens), NEW c \in Seq(Tokens)
  PROVE  (a \o b) \o c = a \o (b \o c)
BY ConcatAssociative

(* The solid part of a concatenation.                                      *)
LEMMA SolidConcat ==
  ASSUME NEW s \in Seq(Tokens), NEW t \in Seq(Tokens)
  PROVE  Solid(s \o t) = Solid(s) \o Solid(t)
<1> DEFINE st == s \o t
           m == Len(s)
           k == Len(t)
<1>1. /\ st \in Seq(Tokens) /\ m \in Nat /\ k \in Nat
      /\ Len(st) = m + k
      /\ \A i \in 1..(m+k) : st[i] = IF i <= m THEN s[i] ELSE t[i-m]
  BY ConcatProperties
<1>2. PICK f : Counts(f, s) /\ Solid(s) = f[m]
  BY SolidIsCounted
<1>3. PICK g : Counts(g, t) /\ Solid(t) = g[k]
  BY SolidIsCounted
<1> HIDE DEF st
<1>4. PICK h : Counts(h, st) /\ Solid(st) = h[m+k]
  BY <1>1, SolidIsCounted
<1>5. /\ f \in [0..m -> Seq(Tokens)] /\ f[0] = <<>>
      /\ \A i \in 1..m : f[i] = IF IsBlank(s[i]) THEN f[i-1] ELSE Append(f[i-1], s[i])
  BY <1>2 DEF Counts
<1>6. /\ g \in [0..k -> Seq(Tokens)] /\ g[0] = <<>>
      /\ \A i \in 1..k : g[i] = IF IsBlank(t[i]) THEN g[i-1] ELSE Append(g[i-1], t[i])
  BY <1>3 DEF Counts
<1>7. /\ h[0] = <<>>
      /\ \A i \in 1..(m+k) : h[i] = IF IsBlank(st[i]) THEN h[i-1] ELSE Append(h[i-1], st[i])
  BY <1>1, <1>4 DEF Counts
<1>8. \A i \in 1..k : t[i] \in Tokens
  OBVIOUS
<1> HIDE DEF m, k
<1> DEFINE S == {n \in Nat : n <= m => h[n] = f[n]}
<1>9. 0 \in S
  BY <1>5, <1>7
<1>10. ASSUME NEW n \in Nat, n \in S PROVE n + 1 \in S
  <2> SUFFICES ASSUME n + 1 <= m PROVE h[n+1] = f[n+1]
    OBVIOUS
  <2>1. n + 1 \in 1..m /\ n + 1 \in 1..(m+k) /\ (n + 1) - 1 = n /\ n <= m
    BY <1>1
  <2>2. h[n] = f[n]
    BY <1>10, <2>1
  <2>3. st[n+1] = s[n+1]
    BY <1>1, <2>1
  <2> QED BY <1>5, <1>7, <2>1, <2>2, <2>3
<1> HIDE DEF S
<1>11. m \in S
  BY <1>1, <1>9, <1>10, SetInduction
<1>12. h[m] = f[m]
  BY <1>1, <1>11 DEF S
<1>13. f[m] \in Seq(Tokens)
  BY <1>1, <1>5
<1> DEFINE R == {n \in Nat : n <= k => h[m+n] = f[m] \o g[n]}
<1>14. 0 \in R
  <2>1. f[m] \o <<>> = f[m]
    BY <1>13, ConcatEmptySeq
  <2>2. m + 0 = m
    BY <1>1
  <2>3. h[m+0] = f[m] \o g[0]
    BY <1>6, <1>12, <2>1, <2>2
  <2> QED BY <2>3
<1>15. ASSUME NEW n \in Nat, n \in R PROVE n + 1 \in R
  <2> SUFFICES ASSUME n + 1 <= k PROVE h[m+(n+1)] = f[m] \o g[n+1]
    <3>1. n + 1 \in Nat
      OBVIOUS
    <3> QED BY <3>1, Zenon
  <2>1. /\ n + 1 \in 1..k /\ (n + 1) - 1 = n /\ n <= k /\ n \in 0..k
        /\ m + (n+1) \in 1..(m+k) /\ (m + (n+1)) - 1 = m + n
        /\ ~(m + (n+1) <= m) /\ (m + (n+1)) - m = n + 1
    BY <1>1
  <2>2. h[m+n] = f[m] \o g[n]
    BY <1>15, <2>1
  <2>3. st[m+(n+1)] = t[n+1]
    BY <1>1, <2>1
  <2>4. g[n] \in Seq(Tokens) /\ t[n+1] \in Tokens
    BY <1>6, <1>8, <2>1
  <2>5. Append(f[m] \o g[n], t[n+1]) = f[m] \o Append(g[n], t[n+1])
    <3> DEFINE a == f[m]
               b == g[n]
               e == t[n+1]
    <3>1. a \in Seq(Tokens) /\ b \in Seq(Tokens) /\ e \in Tokens
      BY <1>13, <2>4
    <3> HIDE DEF a, b, e
    <3>2. Append(a \o b, e) = a \o Append(b, e)
      BY <3>1, AppendToConcat
    <3> QED BY <3>2 DEF a, b, e
  <2>6. h[m+(n+1)] = IF IsBlank(t[n+1]) THEN h[m+n] ELSE Append(h[m+n], t[n+1])
    BY <1>7, <2>1, <2>3
  <2>7. g[n+1] = IF IsBlank(t[n+1]) THEN g[n] ELSE Append(g[n], t[n+1])
    BY <1>6, <2>1
  <2> QED BY <2>2, <2>5, <2>6, <2>7
<1> HIDE DEF R
<1>16. k \in R
  BY <1>1, <1>14, <1>15, SetInduction
<1>17. h[m+k] = f[m] \o g[k]
  <2>1. k <= k
    BY <1>1
  <2>2. k \in {n \in Nat : n <= k => h[m+n] = f[m] \o g[n]}
    BY <1>16 DEF R
  <2> QED BY <2>1, <2>2, Zenon
<1> QED BY <1>2, <1>3, <1>4, <1>17 DEF st

(* What Take and Drop make of a sequence.                                  *)
LEMMA TakeAndDrop ==
  ASSUME NEW s \in Seq(Tokens), NEW n \in 0..Len(s)
  PROVE  /\ Take(s, n) \in Seq(Tokens) /\ Drop(s, n) \in Seq(Tokens)
         /\ Take(s, n) \o Drop(s, n) = s
         /\ Len(Take(s, n)) = n
         /\ \A i \in 1..n : Take(s, n)[i] = s[i]
<1>1. \A i \in 1..n : s[i] \in Tokens
  OBVIOUS
<1>2. \A i \in n+1..Len(s) : s[i] \in Tokens
  OBVIOUS
<1>3. 1 \in Int /\ n \in Int /\ n + 1 \in Int /\ Len(s) \in Int
  OBVIOUS
<1>4. /\ SubSeq(s, 1, n) \in Seq(Tokens)
      /\ Len(SubSeq(s, 1, n)) = IF 1 <= n THEN n - 1 + 1 ELSE 0
      /\ \A i \in 1..n-1+1 : SubSeq(s, 1, n)[i] = s[1+i-1]
  BY <1>1, <1>3, SubSeqProperties
<1>5. SubSeq(s, n+1, Len(s)) \in Seq(Tokens)
  BY <1>2, <1>3, SubSeqProperties
<1>6. 1 \in 1..Len(s)+1 /\ n \in 1-1..Len(s) /\ Len(s) \in n..Len(s)
  OBVIOUS
<1>7. SubSeq(s, 1, n) \o SubSeq(s, n+1, Len(s)) = SubSeq(s, 1, Len(s))
  BY <1>6, ConcatAdjacentSubSeq
<1>8. SubSeq(s, 1, Len(s)) = s
  BY SubSeqFull
<1>9. Len(SubSeq(s, 1, n)) = n /\ \A i \in 1..n : SubSeq(s, 1, n)[i] = s[i]
  BY <1>4
<1> QED BY <1>4, <1>5, <1>7, <1>8, <1>9 DEF Take, Drop

-----------------------------------------------------------------------------
(* What read_frame decides.                                                *)

LEMMA FirstAtIsAPlace ==
  ASSUME NEW places, places \subseteq Nat
  PROVE  IF places = {} THEN FirstAt(places) = 0 ELSE FirstAt(places) \in places
<1>1. CASE places = {}
  BY <1>1 DEF FirstAt
<1>2. CASE places # {}
  <2>1. \E i \in places : \A j \in places : i <= j
    BY <1>2, Least
  <2>2. (CHOOSE i \in places : \A j \in places : i <= j) \in places
    BY <2>1
  <2> QED BY <1>2, <2>2 DEF FirstAt
<1> QED BY <1>1, <1>2

Modes == {NewlineMode, LengthMode, Undetected}

LEMMA ModeInForce ==
  ASSUME mode \in Modes
  PROVE  /\ Mode \in Modes
         /\ mode # Undetected => Mode = mode
         /\ (Mode = Undetected /\ eof) => buf = <<>>
<1>1. Detect(buf) \in Modes
  BY DEF Detect, Modes
<1> QED BY <1>1 DEF Mode, Modes, NewlineMode, LengthMode, Undetected

FrameSet == [raw : Seq(Tokens), json : BOOLEAN, over : BOOLEAN]

(* Every decision takes a prefix of the buffer that exists; what is        *)
(* skipped, and what is left when there are no more frames, is blank.      *)
Sound(d) ==
  /\ d.do \in {"fill", "frame", "skip", "end"}
  /\ d.do = "frame" => d.take \in 0..Len(buf) /\ d.frame \in Seq(FrameSet)
  /\ d.do = "skip" => d.take \in 0..Len(buf) /\ AllBlank(Take(buf, d.take))
  /\ d.do = "end" => eof /\ AllBlank(buf)

LEMMA ReturnIsSound ==
  ASSUME buf \in Seq(Tokens), NEW take \in 0..Len(buf), NEW body, NEW marked \in BOOLEAN
  PROVE  Sound(Return(take, body, marked))
<1>1. Take(buf, take) \in Seq(Tokens)
  BY TakeAndDrop
<1>2. Parses(body) \in BOOLEAN
  BY DEF Parses
<1>3. ASSUME NEW raw PROVE OverCap(raw, body, marked) \in BOOLEAN
  BY DEF OverCap
<1>4. Frame(Take(buf, take), body, marked) \in FrameSet
  BY <1>1, <1>2, <1>3 DEF Frame, FrameSet
<1>5. <<Frame(Take(buf, take), body, marked)>> \in Seq(FrameSet)
  BY <1>4
<1> QED BY <1>5 DEF Sound, Return, Outcome, OriginalBytes

LEMMA MoreIsSound == Sound(More)
BY DEF Sound, More, Outcome

LEMMA NoneLeftIsSound ==
  ASSUME eof, AllBlank(buf)
  PROVE  Sound(NoneLeft)
BY DEF Sound, NoneLeft, Outcome

LEMMA NewlineIsSound ==
  ASSUME buf \in Seq(Tokens), eof \in BOOLEAN
  PROVE  Sound(NewlineOutcome)
<1> DEFINE places == {i \in DOMAIN buf : buf[i] \in LineEnds}
           nl == FirstAt(places)
           size == IF nl # 0 THEN nl ELSE Len(buf)
           line == Take(buf, size)
           body == StripEnd(line)
<1>1. DOMAIN buf = 1..Len(buf) /\ Len(buf) \in Nat
  OBVIOUS
<1>2. places \subseteq Nat
  BY <1>1
<1>3. IF places = {} THEN nl = 0 ELSE nl \in places
  <2> HIDE DEF places
  <2> QED BY <1>2, FirstAtIsAPlace
<1> HIDE DEF nl
<1>4. size \in 0..Len(buf)
  BY <1>1, <1>3
<1>5. /\ line \in Seq(Tokens) /\ Len(line) = size
      /\ \A i \in 1..size : line[i] = buf[i]
  <2> HIDE DEF size
  <2> QED BY <1>4, TakeAndDrop
<1>6. (nl # 0 /\ AllBlank(body)) => AllBlank(line)
  <2> SUFFICES ASSUME nl # 0, AllBlank(body), NEW i \in DOMAIN line PROVE IsBlank(line[i])
    BY DEF AllBlank
  <2>1. nl \in 1..Len(buf) /\ buf[nl] \in LineEnds /\ size = nl
    BY <1>1, <1>3
  <2> HIDE DEF line, size
  <2>2. DOMAIN line = 1..nl /\ line[nl] = buf[nl] /\ nl \in Nat
    BY <1>5, <2>1
  <2>3. CASE i = nl
    BY <2>1, <2>2, <2>3 DEF IsBlank
  <2>4. CASE i # nl
    <3>1. i \in 1..(nl - 1)
      BY <2>2, <2>4
    <3>2. Last(line) \in LineEnds /\ line # <<>>
      BY <1>5, <2>1, <2>2 DEF Last
    <3>3. body = SubSeq(line, 1, nl - 1)
      BY <1>5, <2>1, <3>2 DEF StripEnd, Front
    <3>4. \A k \in 1..(nl - 1) : line[k] \in Tokens
      BY <1>5, <2>1, <2>2
    <3>5. /\ SubSeq(line, 1, nl - 1) \in Seq(Tokens)
          /\ Len(SubSeq(line, 1, nl - 1)) = IF 1 <= nl - 1 THEN (nl - 1) - 1 + 1 ELSE 0
          /\ \A k \in 1..(nl - 1) - 1 + 1 : SubSeq(line, 1, nl - 1)[k] = line[1 + k - 1]
      <4> DEFINE n == nl - 1
      <4>1. n \in Int /\ 1 \in Int
        BY <2>2
      <4> HIDE DEF n
      <4>2. \A k \in 1..n : line[k] \in Tokens
        BY <3>4 DEF n
      <4>3. /\ SubSeq(line, 1, n) \in Seq(Tokens)
            /\ Len(SubSeq(line, 1, n)) = IF 1 <= n THEN n - 1 + 1 ELSE 0
            /\ \A k \in 1..n - 1 + 1 : SubSeq(line, 1, n)[k] = line[1 + k - 1]
        BY <4>1, <4>2, SubSeqProperties
      <4> QED BY <4>3 DEF n
    <3>6. i \in DOMAIN body /\ body[i] = line[i]
      BY <2>2, <3>1, <3>3, <3>5
    <3> QED BY <3>6 DEF AllBlank
  <2> QED BY <2>3, <2>4
<1>7. nl = 0 => body = buf
  <2> SUFFICES ASSUME nl = 0 PROVE body = buf
    OBVIOUS
  <2>1. places = {} /\ size = Len(buf)
    BY <1>3
  <2>2. line = buf
    BY <2>1, SubSeqFull DEF Take
  <2>3. ~(buf # <<>> /\ Last(buf) \in LineEnds)
    BY <1>1, <2>1 DEF Last
  <2> QED BY <2>2, <2>3 DEF StripEnd
<1>8. nl # 0 => line = Take(buf, nl)
  OBVIOUS
<1> HIDE DEF places, size, line, body
<1>9. NewlineOutcome =
        CASE nl = 0 /\ ~eof                -> More
          [] nl = 0 /\ eof /\ AllBlank(body) -> NoneLeft
          [] nl # 0 /\ AllBlank(body)      -> IF nl = Len(buf) /\ eof THEN NoneLeft
                                              ELSE Outcome("skip", nl, <<>>)
          [] OTHER                         -> Return(size, body, FALSE)
  BY DEF NewlineOutcome, nl, places, size, line, body
<1>10. CASE nl = 0 /\ ~eof
  <2>1. NewlineOutcome = More
    BY <1>9, <1>10
  <2> QED BY <2>1, MoreIsSound
<1>11. CASE nl = 0 /\ eof /\ AllBlank(body)
  BY <1>7, <1>9, <1>11, NoneLeftIsSound
<1>12. CASE nl # 0 /\ AllBlank(body)
  <2>1. CASE nl = Len(buf) /\ eof
    <3>1. NewlineOutcome = NoneLeft
      BY <1>9, <1>12, <2>1
    <3>2. Take(buf, nl) = buf
      BY <2>1, SubSeqFull DEF Take
    <3> QED BY <1>6, <1>8, <1>12, <2>1, <3>1, <3>2, NoneLeftIsSound
  <2>2. CASE ~(nl = Len(buf) /\ eof)
    <3>1. NewlineOutcome = Outcome("skip", nl, <<>>)
      BY <1>9, <1>12, <2>2
    <3>2. AllBlank(Take(buf, nl))
      BY <1>6, <1>8, <1>12
    <3>3. nl \in 0..Len(buf)
      BY <1>4, <1>12 DEF size
    <3> QED BY <3>1, <3>2, <3>3 DEF Sound, Outcome
  <2> QED BY <2>1, <2>2
<1>13. CASE ~AllBlank(body) /\ ~(nl = 0 /\ ~eof)
  <2>1. NewlineOutcome = Return(size, body, FALSE)
    BY <1>9, <1>13
  <2> QED BY <1>4, <2>1, ReturnIsSound
<1> QED BY <1>10, <1>11, <1>12, <1>13

LEMMA LengthIsSound ==
  ASSUME buf \in Seq(Tokens), eof \in BOOLEAN
  PROVE  Sound(LengthOutcome)
<1> DEFINE places == {i \in 1..(Len(buf) - 1) : buf[i] = CRLF /\ buf[i + 1] = CRLF}
           sep == FirstAt(places)
           header == Take(buf, sep - 1)
           length == CHOOSE n \in Accepted(header) : TRUE
           start == sep + 1
           whole == start + length
<1>1. Len(buf) \in Nat /\ places \subseteq Nat
  OBVIOUS
<1>2. IF places = {} THEN sep = 0 ELSE sep \in places
  <2> HIDE DEF places
  <2> QED BY <1>1, FirstAtIsAPlace
<1>3. sep # 0 => sep \in 1..(Len(buf) - 1)
  BY <1>2
<1> HIDE DEF places, sep
<1>4. sep # 0 => start \in 0..Len(buf)
  BY <1>1, <1>3
<1>5. (sep # 0 /\ Accepted(header) # {}) => length \in Nat
  <2> SUFFICES ASSUME sep # 0, Accepted(header) # {} PROVE length \in Nat
    OBVIOUS
  <2>1. sep - 1 \in 0..Len(buf)
    BY <1>1, <1>3
  <2>2. header \in Seq(Tokens)
    <3> DEFINE n == sep - 1
    <3> HIDE DEF n
    <3>1. n \in 0..Len(buf)
      BY <2>1 DEF n
    <3>2. Take(buf, n) \in Seq(Tokens)
      BY <3>1, TakeAndDrop
    <3> QED BY <3>2 DEF n
  <2> HIDE DEF header
  <2>3. Accepted(header) \subseteq Nat
    <3> SUFFICES ASSUME NEW i \in DOMAIN header PROVE header[i][2] \in Nat
      BY DEF Accepted, Declared, LenLines, LineStarts
    <3>1. header[i] \in Tokens
      BY <2>2
    <3> QED BY <3>1 DEF Tokens
  <2> QED BY <2>3
<1> HIDE DEF header, length
<1>6. LengthOutcome =
        CASE sep = 0 /\ ~eof             -> More
          [] sep = 0 /\ eof /\ buf = <<>> -> NoneLeft
          [] sep = 0 /\ eof /\ buf # <<>> -> Return(Len(buf), <<>>, FALSE)
          [] sep # 0 /\ Accepted(header) = {} -> Return(start, <<>>, DeclaresOverCap(header))
          [] OTHER -> IF Holds(buf, whole) THEN Return(whole, SubSeq(buf, start + 1, whole), FALSE)
                      ELSE IF eof THEN Return(Len(buf), <<>>, FALSE) ELSE More
  BY DEF LengthOutcome, sep, places, header, length
<1>7. CASE sep = 0 /\ ~eof
  <2>1. LengthOutcome = More
    BY <1>6, <1>7
  <2> QED BY <2>1, MoreIsSound
<1>8. CASE sep = 0 /\ eof /\ buf = <<>>
  <2>1. AllBlank(buf)
    BY <1>8 DEF AllBlank
  <2>2. LengthOutcome = NoneLeft
    BY <1>6, <1>8
  <2> QED BY <1>8, <2>1, <2>2, NoneLeftIsSound
<1>9. Len(buf) \in 0..Len(buf)
  BY <1>1
<1>10. CASE sep = 0 /\ eof /\ buf # <<>>
  <2>1. LengthOutcome = Return(Len(buf), <<>>, FALSE)
    BY <1>6, <1>10
  <2> QED BY <1>9, <2>1, ReturnIsSound
<1>11. CASE sep # 0 /\ Accepted(header) = {}
  <2>1. LengthOutcome = Return(start, <<>>, DeclaresOverCap(header))
    BY <1>6, <1>11
  <2>2. DeclaresOverCap(header) \in BOOLEAN
    BY DEF DeclaresOverCap
  <2> HIDE DEF start
  <2> QED BY <1>4, <1>11, <2>1, <2>2, ReturnIsSound
<1>12. CASE sep # 0 /\ Accepted(header) # {}
  <2>1. CASE Holds(buf, whole)
    <3>1. LengthOutcome = Return(whole, SubSeq(buf, start + 1, whole), FALSE)
      BY <1>6, <1>12, <2>1
    <3>2. whole \in 0..Len(buf)
      BY <1>1, <1>4, <1>5, <1>12, <2>1 DEF Holds
    <3> HIDE DEF whole
    <3> QED BY <3>1, <3>2, ReturnIsSound
  <2>2. CASE ~Holds(buf, whole) /\ eof
    <3>1. LengthOutcome = Return(Len(buf), <<>>, FALSE)
      BY <1>6, <1>12, <2>2
    <3> QED BY <1>9, <3>1, ReturnIsSound
  <2>3. CASE ~Holds(buf, whole) /\ ~eof
    <3>1. LengthOutcome = More
      BY <1>6, <1>12, <2>3
    <3> QED BY <3>1, MoreIsSound
  <2> QED BY <2>1, <2>2, <2>3
<1> QED BY <1>7, <1>8, <1>10, <1>11, <1>12

LEMMA DecisionIsSound ==
  ASSUME buf \in Seq(Tokens), eof \in BOOLEAN, mode \in Modes
  PROVE  Sound(Decision) /\ (Decision.do = "frame" => Mode # Undetected)
<1>1. CASE Mode = LengthMode
  <2>1. Decision = LengthOutcome
    BY <1>1 DEF Decision, NewlineMode, LengthMode
  <2> QED BY <1>1, <2>1, LengthIsSound DEF LengthMode, Undetected
<1>2. CASE Mode = NewlineMode
  <2>1. Decision = NewlineOutcome
    BY <1>2 DEF Decision, NewlineMode, LengthMode
  <2> QED BY <1>2, <2>1, NewlineIsSound DEF NewlineMode, Undetected
<1>3. CASE Mode = Undetected /\ eof
  <2>1. Decision = NoneLeft
    BY <1>3 DEF Decision, NewlineMode, LengthMode, Undetected
  <2>2. AllBlank(buf)
    BY <1>3, ModeInForce DEF AllBlank
  <2> QED BY <1>3, <2>1, <2>2, NoneLeftIsSound DEF NoneLeft, Outcome
<1>4. CASE Mode = Undetected /\ ~eof
  <2>1. Decision = More
    BY <1>4 DEF Decision, NewlineMode, LengthMode, Undetected
  <2> QED BY <2>1, MoreIsSound DEF More, Outcome
<1> QED BY <1>1, <1>2, <1>3, <1>4, ModeInForce DEF Modes

-----------------------------------------------------------------------------
(* The invariant.                                                          *)

(* The parts of the stream are sequences of bytes, and after the end of    *)
(* the stream there is nothing on its way.                                 *)
Typed ==
  /\ peer \in {NewlineMode, LengthMode} /\ side \in {"c2s", "s2c"} /\ mode \in Modes
  /\ closed \in BOOLEAN /\ eof \in BOOLEAN /\ ended \in BOOLEAN
  /\ Len(wrote) <= MaxMessages /\ wrote \in Seq(Bodies) /\ noise \in 0..MaxNoise
  /\ pipe \in Seq(Tokens) /\ got \in Seq(Tokens)
  /\ buf \in Seq(Tokens) /\ out \in Seq(Tokens)
  /\ frames \in Seq(FrameSet)
  /\ frames # <<>> => mode # Undetected
  /\ eof => closed /\ pipe = <<>>
  /\ ended => eof /\ buf = <<>>

Balance == Solid(got) = Solid(out \o buf)

StreamInv == Typed /\ Balance

LEMMA InvIsConserved == StreamInv => Conserved
<1> SUFFICES ASSUME Typed, Balance PROVE Conserved
  BY DEF StreamInv
<1>1. \A i \in DOMAIN frames : frames[i].json \in BOOLEAN /\ frames[i].over \in BOOLEAN
  <2>1. \A i \in DOMAIN frames : frames[i] \in FrameSet
    BY DEF Typed
  <2> QED BY <2>1 DEF FrameSet
<1>2. noise <= MaxNoise
  BY BoundsAreNumbers DEF Typed
<1> QED BY <1>1, <1>2 DEF Typed, Balance, Conserved, TypeOK, Modes

LEMMA NothingIsSolid == Solid(<<>>) = <<>>
<1>1. <<>> \in Seq(Tokens) /\ AllBlank(<<>>)
  BY DEF AllBlank
<1> QED BY <1>1, SolidOfBlanks

LEMMA InitStream == Init => StreamInv
<1> SUFFICES ASSUME Init PROVE StreamInv
  OBVIOUS
<1>1. Typed
  <2>1. /\ <<>> \in Seq(Tokens) /\ <<>> \in Seq(Bodies) /\ <<>> \in Seq(FrameSet)
        /\ Len(<<>>) <= MaxMessages /\ 0 \in 0..MaxNoise
    BY BoundsAreNumbers
  <2> QED BY <2>1 DEF Init, Typed, Modes
<1>2. <<>> \o <<>> = <<>>
  OBVIOUS
<1>3. Balance
  BY <1>2 DEF Init, Balance
<1> QED BY <1>1, <1>3 DEF StreamInv

(* What a peer sends is bytes, however it frames them.                     *)
LEMMA EncodedIsBytes ==
  ASSUME NEW body \in Bodies, NEW framing
  PROVE  Encode(body, framing) \in Seq(Tokens)
<1>1. body \in Seq(Tokens) /\ Len(body) \in Nat
  BY PeersSendTokens
<1>2. LenOf(Len(body)) \in Tokens /\ CRLF \in Tokens /\ LF \in Tokens
  BY <1>1 DEF LenOf, CRLF, LF, Tokens, Kinds
<1>3. <<LenOf(Len(body)), CRLF, CRLF>> \in Seq(Tokens) /\ <<LF>> \in Seq(Tokens)
  BY <1>2
<1> HIDE DEF Tokens
<1> QED BY <1>1, <1>3, ConcatProperties DEF Encode

LEMMA PeerKeepsStream ==
  ASSUME StreamInv,
         \/ \E body \in Bodies : Write(body)
         \/ \E piece \in Noise : WriteNoise(piece)
         \/ Close
  PROVE  StreamInv'
<1>1. Typed /\ Balance
  BY DEF StreamInv
<1>2. UNCHANGED readerVars /\ ~closed /\ ~eof
  BY <1>1 DEF Write, WriteNoise, Close, Typed
<1>3. Balance'
  BY <1>1, <1>2 DEF readerVars, Balance
<1>4. ASSUME NEW body \in Bodies, Write(body) PROVE Typed'
  <2>1. Append(wrote, body) \in Seq(Bodies) /\ Len(Append(wrote, body)) = Len(wrote) + 1 /\ Len(wrote) \in Nat
    BY <1>1 DEF Typed
  <2>2. pipe \o Encode(body, peer) \in Seq(Tokens)
    BY <1>1, EncodedIsBytes, ConcatProperties DEF Typed
  <2>3. Len(wrote') <= MaxMessages
    BY <1>4, <2>1, BoundsAreNumbers DEF Write
  <2> QED BY <1>1, <1>2, <1>4, <2>1, <2>2, <2>3 DEF Typed, Write, readerVars
<1>5. ASSUME NEW piece \in Noise, WriteNoise(piece) PROVE Typed'
  <2>1. piece \in Seq(Tokens)
    BY PeersSendTokens
  <2>2. pipe \o piece \in Seq(Tokens)
    BY <1>1, <2>1, ConcatProperties DEF Typed
  <2>3. noise' \in 0..MaxNoise
    BY <1>1, <1>5, BoundsAreNumbers DEF Typed, WriteNoise
  <2> QED BY <1>1, <1>2, <1>5, <2>2, <2>3 DEF Typed, WriteNoise, readerVars
<1>6. ASSUME Close PROVE Typed'
  <2>1. pipe' \in Seq(Tokens)
    <3>1. CASE pipe' = pipe
      BY <1>1, <3>1 DEF Typed
    <3>2. ASSUME NEW body \in Bodies, NEW n \in 1..(Len(Encode(body, peer)) - 1),
                 pipe' = pipe \o Take(Encode(body, peer), n)
          PROVE  pipe' \in Seq(Tokens)
      <4> DEFINE e == Encode(body, peer)
      <4>1. e \in Seq(Tokens)
        BY EncodedIsBytes
      <4> HIDE DEF e
      <4>2. n \in 0..Len(e)
        BY <4>1, <3>2 DEF e
      <4>3. Take(e, n) \in Seq(Tokens)
        BY <4>1, <4>2, TakeAndDrop
      <4> QED BY <1>1, <3>2, <4>3, ConcatProperties DEF e, Typed
    <3> QED BY <1>6, <3>1, <3>2 DEF Close
  <2> QED BY <1>1, <1>2, <1>6, <2>1 DEF Typed, Close, readerVars
<1>7. Typed'
  BY <1>4, <1>5, <1>6
<1> QED BY <1>3, <1>7 DEF StreamInv

LEMMA ReaderKeepsStream ==
  ASSUME StreamInv, Reader
  PROVE  StreamInv'
<1>1. Typed /\ Balance
  BY DEF StreamInv
<1>2. /\ buf \in Seq(Tokens) /\ out \in Seq(Tokens) /\ got \in Seq(Tokens) /\ pipe \in Seq(Tokens)
      /\ eof \in BOOLEAN /\ mode \in Modes /\ frames \in Seq(FrameSet)
      /\ ~ended /\ UNCHANGED peerVars /\ mode' = Mode
  BY <1>1 DEF Typed, Reader
<1>3. PICK d : d = Decision
  OBVIOUS
<1>4. Sound(d) /\ (d.do = "frame" => Mode # Undetected)
  BY <1>2, <1>3, DecisionIsSound
<1>5. mode' \in Modes /\ (mode # Undetected => mode' # Undetected)
  BY <1>2, ModeInForce
<1>6. ASSUME NEW n \in DOMAIN pipe, Receive(n) PROVE StreamInv'
  <2> DEFINE x == Take(pipe, n)
  <2>1. n \in 0..Len(pipe)
    BY <1>2
  <2>2. x \in Seq(Tokens) /\ Drop(pipe, n) \in Seq(Tokens)
    BY <1>2, <2>1, TakeAndDrop
  <2>3. ~eof
    BY <1>1, <1>6 DEF Typed
  <2>4. got' = got \o x /\ buf' = buf \o x /\ pipe' = Drop(pipe, n) /\ UNCHANGED <<eof, out, frames, ended>>
    BY <1>6 DEF Receive
  <2> HIDE DEF x
  <2>5. got \o x \in Seq(Tokens) /\ buf \o x \in Seq(Tokens) /\ out \o buf \in Seq(Tokens)
    BY <1>2, <2>2, ConcatProperties
  <2>6. Typed'
    BY <1>1, <1>2, <1>5, <2>2, <2>3, <2>4, <2>5 DEF Typed, peerVars
  <2>7. Solid(got \o x) = Solid(got) \o Solid(x)
    BY <1>2, <2>2, SolidConcat
  <2>8. Solid((out \o buf) \o x) = Solid(out \o buf) \o Solid(x)
    BY <2>2, <2>5, SolidConcat
  <2>9. (out \o buf) \o x = out \o (buf \o x)
    BY <1>2, <2>2, TokensAssociative
  <2>10. Balance'
    BY <1>1, <2>4, <2>7, <2>8, <2>9 DEF Balance
  <2> QED BY <2>6, <2>10 DEF StreamInv
<1>7. ASSUME ReceiveEof PROVE StreamInv'
  <2>1. Typed'
    BY <1>1, <1>2, <1>5, <1>7 DEF Typed, ReceiveEof, peerVars
  <2>2. Balance'
    BY <1>1, <1>7 DEF Balance, ReceiveEof
  <2> QED BY <2>1, <2>2 DEF StreamInv
<1>8. ASSUME d.do = "frame", ReturnFrame(d) PROVE StreamInv'
  <2>1. PICK k \in 0..Len(buf) : k = d.take
    BY <1>4, <1>8 DEF Sound
  <2>2. /\ Take(buf, k) \in Seq(Tokens) /\ Drop(buf, k) \in Seq(Tokens)
        /\ Take(buf, k) \o Drop(buf, k) = buf
    BY <1>2, TakeAndDrop
  <2>3. frames' = frames \o d.frame /\ d.frame \in Seq(FrameSet) /\ mode' # Undetected
    BY <1>2, <1>4, <1>8 DEF ReturnFrame, Sound
  <2>4. frames' \in Seq(FrameSet)
    BY <1>2, <2>3, ConcatProperties
  <2>5. out' = out \o Take(buf, k) /\ buf' = Drop(buf, k) /\ UNCHANGED <<pipe, got, eof, ended>>
    BY <1>8, <2>1 DEF ReturnFrame
  <2>6. out' \in Seq(Tokens)
    BY <1>2, <2>2, <2>5, ConcatProperties
  <2>7. Typed'
    BY <1>1, <1>2, <1>5, <2>2, <2>3, <2>4, <2>5, <2>6 DEF Typed, peerVars
  <2>8. (out \o Take(buf, k)) \o Drop(buf, k) = out \o (Take(buf, k) \o Drop(buf, k))
    BY <1>2, <2>2, TokensAssociative
  <2>9. out' \o buf' = out \o buf
    BY <2>2, <2>5, <2>8
  <2>10. Balance'
    BY <1>1, <2>5, <2>9 DEF Balance
  <2> QED BY <2>7, <2>10 DEF StreamInv
<1>9. ASSUME d.do = "skip", SkipBlankLine(d) PROVE StreamInv'
  <2>1. PICK k \in 0..Len(buf) : k = d.take
    BY <1>4, <1>9 DEF Sound
  <2> DEFINE x == Take(buf, k)
             y == Drop(buf, k)
  <2>2. x \in Seq(Tokens) /\ y \in Seq(Tokens) /\ x \o y = buf
    BY <1>2, TakeAndDrop
  <2>3. AllBlank(x)
    BY <1>4, <1>9, <2>1 DEF Sound
  <2>4. buf' = y /\ UNCHANGED <<pipe, got, eof, out, frames, ended>>
    BY <1>9, <2>1 DEF SkipBlankLine
  <2> HIDE DEF x, y
  <2>5. Typed'
    BY <1>1, <1>2, <1>5, <2>2, <2>4 DEF Typed, peerVars
  <2>6. Solid(out \o buf) = Solid(out) \o Solid(buf)
    BY <1>2, SolidConcat
  <2>7. Solid(buf) = Solid(x) \o Solid(y)
    BY <2>2, SolidConcat
  <2>8. Solid(x) = <<>>
    BY <2>2, <2>3, SolidOfBlanks
  <2>9. Solid(y) \in Seq(Tokens)
    BY <2>2, SolidType
  <2>10. <<>> \o Solid(y) = Solid(y)
    BY <2>9, ConcatEmptySeq
  <2>11. Solid(out \o y) = Solid(out) \o Solid(y)
    BY <1>2, <2>2, SolidConcat
  <2>12. Solid(out \o buf) = Solid(out \o y)
    BY <2>6, <2>7, <2>8, <2>10, <2>11
  <2>13. Balance'
    BY <1>1, <2>4, <2>12 DEF Balance
  <2> QED BY <2>5, <2>13 DEF StreamInv
<1>10. ASSUME d.do = "end", ReturnNone PROVE StreamInv'
  <2>1. eof /\ AllBlank(buf)
    BY <1>4, <1>10 DEF Sound
  <2>2. buf' = <<>> /\ ended' = TRUE /\ UNCHANGED <<pipe, got, eof, out, frames>>
    BY <1>10 DEF ReturnNone
  <2>3. <<>> \in Seq(Tokens)
    OBVIOUS
  <2>4. Typed'
    BY <1>1, <1>2, <1>5, <2>1, <2>2, <2>3 DEF Typed, peerVars
  <2>5. Solid(out \o buf) = Solid(out) \o Solid(buf)
    BY <1>2, SolidConcat
  <2>6. Solid(buf) = <<>>
    BY <1>2, <2>1, SolidOfBlanks
  <2>7. Solid(out) \in Seq(Tokens)
    BY <1>2, SolidType
  <2>8. Solid(out) \o <<>> = Solid(out) /\ out \o <<>> = out
    BY <1>2, <2>7, ConcatEmptySeq
  <2>9. Balance'
    BY <1>1, <2>2, <2>5, <2>6, <2>8 DEF Balance
  <2> QED BY <2>4, <2>9 DEF StreamInv
<1> QED BY <1>3, <1>6, <1>7, <1>8, <1>9, <1>10 DEF Reader

LEMMA StutterKeepsStream == StreamInv /\ UNCHANGED vars => StreamInv'
BY DEF StreamInv, Typed, Balance, vars

(* No byte is lost, made up or reordered between the pipe and the frames   *)
(* (read_frame and _fill of framing.py): at every moment the solid bytes   *)
(* received are those of the frames returned and of the buffer, in order.  *)
THEOREM NoByteIsLost == Spec => []Conserved
<1>1. StreamInv /\ [Next]_vars => StreamInv'
  <2> SUFFICES ASSUME StreamInv, [Next]_vars PROVE StreamInv'
    OBVIOUS
  <2>1. CASE Reader
    BY <2>1, ReaderKeepsStream
  <2>2. CASE Over
    BY <2>2, StutterKeepsStream DEF Over
  <2>3. CASE UNCHANGED vars
    BY <2>3, StutterKeepsStream
  <2> QED BY <2>1, <2>2, <2>3, PeerKeepsStream DEF Next
<1> QED BY <1>1, InitStream, InvIsConserved, PTL DEF Spec

-----------------------------------------------------------------------------
(* The frames that hold a message.                                         *)

LEMMA MessagesAreCounted ==
  ASSUME NEW fs \in Seq(FrameSet)
  PROVE  \E f \in [0..Len(fs) -> Seq(FrameSet)] :
           /\ f[0] = <<>> /\ Messages(fs) = f[Len(fs)]
           /\ \A i \in 1..Len(fs) : f[i] = IF fs[i].json THEN Append(f[i-1], fs[i]) ELSE f[i-1]
<1> DEFINE N == Len(fs)
           V == Seq(FrameSet)
           h == [i \in 1..N |-> [v \in V |-> IF fs[i].json THEN Append(v, fs[i]) ELSE v]]
           Step(g) == [i \in 0..N |-> IF i = 0 THEN <<>>
                         ELSE IF fs[i].json THEN Append(g[i-1], fs[i]) ELSE g[i-1]]
           c == CHOOSE g : g = Step(g)
<1>1. N \in Nat /\ <<>> \in V
  OBVIOUS
<1>2. h \in [1..N -> [V -> V]]
  <2>1. ASSUME NEW i \in 1..N, NEW v \in V PROVE Append(v, fs[i]) \in V
    OBVIOUS
  <2> QED BY <2>1
<1>3. \A i \in 1..N : \A v \in V : h[i][v] = IF fs[i].json THEN Append(v, fs[i]) ELSE v
  OBVIOUS
<1> HIDE DEF N, V, h
<1>4. PICK f \in [0..N -> V] : f[0] = <<>> /\ \A i \in 1..N : f[i] = h[i][f[i-1]]
  <2> DEFINE none == <<>>
  <2> HIDE DEF none
  <2>1. N \in Nat
    BY <1>1
  <2>2. none \in V
    BY <1>1 DEF none
  <2>3. \E f \in [0..N -> V] : f[0] = none /\ \A i \in 1..N : f[i] = h[i][f[i-1]]
    BY <2>1, <2>2, <1>2, Recursion
  <2> QED BY <2>3 DEF none
<1>5. \A i \in 1..N : f[i] = IF fs[i].json THEN Append(f[i-1], fs[i]) ELSE f[i-1]
  <2> TAKE i \in 1..N
  <2>1. i-1 \in 0..N
    BY <1>1
  <2>2. f[i-1] \in V
    BY <2>1
  <2> QED BY <1>3, <1>4, <2>2
<1>6. f = Step(f)
  <2>1. \A i \in 0..N : i # 0 => i \in 1..N
    BY <1>1
  <2>2. \A i \in 0..N : f[i] = Step(f)[i]
    BY <1>4, <1>5, <2>1
  <2>3. DOMAIN f = 0..N /\ f = [i \in 0..N |-> f[i]]
    OBVIOUS
  <2> QED BY <2>2, <2>3
<1>7. c = Step(c)
  BY <1>6
<1>8. Messages(fs) = c[N]
  BY DEF Messages, N
<1>9. c[0] = <<>> /\ \A i \in 1..N : c[i] = IF fs[i].json THEN Append(c[i-1], fs[i]) ELSE c[i-1]
  <2> HIDE DEF c
  <2>1. \A i \in 1..N : i # 0 /\ i \in 0..N
    BY <1>1
  <2>2. 0 \in 0..N
    BY <1>1
  <2> QED BY <1>7, <2>1, <2>2
<1> HIDE DEF c
<1> DEFINE S == {n \in Nat : n <= N => c[n] = f[n]}
<1>10. 0 \in S
  BY <1>4, <1>9
<1>11. ASSUME NEW n \in Nat, n \in S PROVE n + 1 \in S
  <2> SUFFICES ASSUME n + 1 <= N PROVE c[n+1] = f[n+1]
    OBVIOUS
  <2>1. n + 1 \in 1..N /\ (n + 1) - 1 = n /\ n <= N
    BY <1>1
  <2>2. c[n] = f[n]
    BY <1>11, <2>1
  <2> QED BY <1>5, <1>9, <2>1, <2>2
<1> HIDE DEF S
<1>12. N \in S
  BY <1>1, <1>10, <1>11, SetInduction
<1>13. c[N] = f[N]
  BY <1>1, <1>12 DEF S
<1>14. f \in [0..Len(fs) -> Seq(FrameSet)]
  BY DEF N, V
<1> QED BY <1>4, <1>5, <1>8, <1>13, <1>14 DEF N

LEMMA NoMessageYet == Messages(<<>>) = <<>>
<1>1. <<>> \in Seq(FrameSet) /\ Len(<<>>) = 0
  OBVIOUS
<1> QED BY <1>1, MessagesAreCounted

LEMMA OneFrameMore ==
  ASSUME NEW fs \in Seq(FrameSet), NEW frame \in FrameSet
  PROVE  /\ Messages(fs) \in Seq(FrameSet)
         /\ Messages(Append(fs, frame)) =
              IF frame.json THEN Append(Messages(fs), frame) ELSE Messages(fs)
<1> DEFINE N == Len(fs)
           more == Append(fs, frame)
<1>1. /\ N \in Nat /\ more \in Seq(FrameSet) /\ Len(more) = N + 1
      /\ more[N + 1] = frame /\ \A i \in 1..N : more[i] = fs[i]
  OBVIOUS
<1>2. PICK f \in [0..N -> Seq(FrameSet)] :
        /\ f[0] = <<>> /\ Messages(fs) = f[N]
        /\ \A i \in 1..N : f[i] = IF fs[i].json THEN Append(f[i-1], fs[i]) ELSE f[i-1]
  BY MessagesAreCounted
<1> HIDE DEF more, N
<1>3. PICK g \in [0..Len(more) -> Seq(FrameSet)] :
        /\ g[0] = <<>> /\ Messages(more) = g[Len(more)]
        /\ \A i \in 1..Len(more) : g[i] = IF more[i].json THEN Append(g[i-1], more[i]) ELSE g[i-1]
  BY <1>1, MessagesAreCounted
<1> DEFINE S == {n \in Nat : n <= N => g[n] = f[n]}
<1>4. 0 \in S
  BY <1>2, <1>3
<1>5. ASSUME NEW n \in Nat, n \in S PROVE n + 1 \in S
  <2> SUFFICES ASSUME n + 1 <= N PROVE g[n+1] = f[n+1]
    OBVIOUS
  <2>1. n + 1 \in 1..N /\ n + 1 \in 1..Len(more) /\ (n + 1) - 1 = n /\ n <= N
    BY <1>1
  <2>2. g[n] = f[n] /\ more[n+1] = fs[n+1]
    BY <1>1, <1>5, <2>1
  <2> QED BY <1>2, <1>3, <2>1, <2>2
<1> HIDE DEF S
<1>6. N \in S
  BY <1>1, <1>4, <1>5, SetInduction
<1>7. g[N] = f[N] /\ N \in 0..N
  BY <1>1, <1>6 DEF S
<1>8. N + 1 \in 1..Len(more) /\ (N + 1) - 1 = N
  BY <1>1
<1>9. g[N + 1] = IF frame.json THEN Append(f[N], frame) ELSE f[N]
  <2>1. g[N + 1] = IF more[N + 1].json THEN Append(g[(N + 1) - 1], more[N + 1]) ELSE g[(N + 1) - 1]
    BY <1>3, <1>8
  <2> QED BY <1>1, <1>7, <1>8, <2>1, Zenon
<1> QED BY <1>1, <1>2, <1>3, <1>7, <1>9 DEF more

-----------------------------------------------------------------------------
(* The decision, for what may be at the front of the buffer.               *)

LEMMA TokensDiffer ==
  /\ CRLF # LF /\ CRLF \in LineEnds /\ LF \in LineEnds
  /\ \A n : LenOf(n) # CRLF /\ IsLenLine(LenOf(n)) /\ ~IsBlank(LenOf(n)) /\ LenOf(n)[2] = n
                            /\ LenOf(n)[1] = "len"
  /\ \A t : IsBlank(t) => ~IsLenLine(t)
  /\ \A t : t \in LineEnds => IsBlank(t)
BY DEF CRLF, LF, LineEnds, LenOf, IsLenLine, IsBlank, Blank

LEMMA FirstAtIs ==
  ASSUME NEW places, places \subseteq Nat, NEW k \in places, \A j \in places : k <= j
  PROVE  FirstAt(places) = k
<1> DEFINE first == CHOOSE i \in places : \A j \in places : i <= j
<1>1. first \in places /\ \A j \in places : first <= j
  OBVIOUS
<1>2. FirstAt(places) = first
  BY DEF FirstAt
<1> HIDE DEF first
<1>3. first <= k /\ k <= first /\ first \in Nat /\ k \in Nat
  BY <1>1
<1> QED BY <1>2, <1>3

(* What a message is made of. *)
LEMMA EncodedIs ==
  ASSUME NEW body \in Bodies
  PROVE  /\ Len(body) \in Nat
         /\ LET e == Encode(body, LengthMode) IN
            /\ e \in Seq(Tokens) /\ Len(e) = Len(body) + 3
            /\ e[1] = LenOf(Len(body)) /\ e[2] = CRLF /\ e[3] = CRLF
            /\ \A i \in 1..Len(body) : e[i + 3] = body[i]
         /\ LET e == Encode(body, NewlineMode) IN
            /\ e \in Seq(Tokens) /\ Len(e) = Len(body) + 1 /\ e[Len(body) + 1] = LF
            /\ \A i \in 1..Len(body) : e[i] = body[i]
<1> DEFINE head == <<LenOf(Len(body)), CRLF, CRLF>>
           tail == <<LF>>
           e == head \o body
           f == body \o tail
<1>1. body \in Seq(Tokens) /\ Len(body) \in Nat
  BY PeersSendTokens
<1>2. Encode(body, LengthMode) = e /\ Encode(body, NewlineMode) = f
  BY DEF Encode, LengthMode, NewlineMode
<1>3. e \in Seq(Tokens) /\ f \in Seq(Tokens)
  BY <1>2, EncodedIsBytes
<1>4. LenOf(Len(body)) \in Tokens /\ CRLF \in Tokens /\ LF \in Tokens
  BY <1>1 DEF LenOf, CRLF, LF, Tokens, Kinds
<1>5. head \in Seq(Tokens) /\ Len(head) = 3 /\ head[1] = LenOf(Len(body)) /\ head[2] = CRLF /\ head[3] = CRLF
      /\ tail \in Seq(Tokens) /\ Len(tail) = 1 /\ tail[1] = LF
  <2> HIDE DEF Tokens
  <2> QED BY <1>4
<1> HIDE DEF head, tail, Tokens
<1>6. /\ Len(e) = 3 + Len(body)
      /\ \A i \in 1..(3 + Len(body)) : e[i] = IF i <= 3 THEN head[i] ELSE body[i - 3]
  <2>1. /\ Len(e) = Len(head) + Len(body)
        /\ \A i \in 1..(Len(head) + Len(body)) : e[i] = IF i <= Len(head) THEN head[i] ELSE body[i - Len(head)]
    BY <1>1, <1>5, ConcatProperties
  <2> HIDE DEF e
  <2> QED BY <1>5, <2>1
<1>7. /\ Len(f) = Len(body) + 1
      /\ \A i \in 1..(Len(body) + 1) : f[i] = IF i <= Len(body) THEN body[i] ELSE tail[i - Len(body)]
  <2>1. /\ Len(f) = Len(body) + Len(tail)
        /\ \A i \in 1..(Len(body) + Len(tail)) : f[i] = IF i <= Len(body) THEN body[i] ELSE tail[i - Len(body)]
    BY <1>1, <1>5, ConcatProperties
  <2> HIDE DEF f
  <2> QED BY <1>5, <2>1
<1> HIDE DEF e, f
<1>8. e[1] = LenOf(Len(body)) /\ e[2] = CRLF /\ e[3] = CRLF
  BY <1>1, <1>5, <1>6
<1>9. ASSUME NEW i \in 1..Len(body) PROVE e[i + 3] = body[i]
  <2>1. i + 3 \in 1..(3 + Len(body)) /\ ~(i + 3 <= 3) /\ (i + 3) - 3 = i
    BY <1>1
  <2> QED BY <1>6, <2>1
<1>10. f[Len(body) + 1] = LF /\ \A i \in 1..Len(body) : f[i] = body[i]
  BY <1>1, <1>5, <1>7
<1> QED BY <1>1, <1>2, <1>3, <1>6, <1>7, <1>8, <1>9, <1>10

Pair(s, i) == s[i] = CRLF /\ s[i + 1] = CRLF
SepAt(k) == k \in 1..(Len(buf) - 1) /\ Pair(buf, k) /\ \A i \in 1..(k - 1) : ~Pair(buf, i)

LEMMA LengthWithoutSeparator ==
  ASSUME buf \in Seq(Tokens), eof \in BOOLEAN, Mode = LengthMode,
         \A i \in 1..(Len(buf) - 1) : ~Pair(buf, i)
  PROVE  Decision = IF ~eof THEN More ELSE IF buf = <<>> THEN NoneLeft ELSE Return(Len(buf), <<>>, FALSE)
<1> DEFINE places == {i \in 1..(Len(buf) - 1) : buf[i] = CRLF /\ buf[i + 1] = CRLF}
           sep == FirstAt(places)
<1>1. places = {}
  BY DEF Pair
<1>2. sep = 0
  BY <1>1 DEF FirstAt
<1> HIDE DEF places
<1>3. LengthOutcome = IF ~eof THEN More ELSE IF buf = <<>> THEN NoneLeft ELSE Return(Len(buf), <<>>, FALSE)
  BY <1>2 DEF LengthOutcome, places
<1> QED BY <1>3 DEF Decision, NewlineMode, LengthMode

LEMMA LengthWithSeparator ==
  ASSUME buf \in Seq(Tokens), eof \in BOOLEAN, Mode = LengthMode, NEW k \in Nat, SepAt(k)
  PROVE  LET header == Take(buf, k - 1) IN
         /\ Accepted(header) = {} => Decision = Return(k + 1, <<>>, DeclaresOverCap(header))
         /\ \A n \in Nat : Accepted(header) = {n} =>
              Decision = IF Len(buf) >= k + 1 + n
                         THEN Return(k + 1 + n, SubSeq(buf, k + 2, k + 1 + n), FALSE)
                         ELSE IF eof THEN Return(Len(buf), <<>>, FALSE) ELSE More
<1> DEFINE places == {i \in 1..(Len(buf) - 1) : buf[i] = CRLF /\ buf[i + 1] = CRLF}
           sep == FirstAt(places)
           header == Take(buf, k - 1)
<1>1. k \in places /\ places \subseteq Nat /\ Len(buf) \in Nat
  BY DEF SepAt, Pair
<1>2. \A j \in places : k <= j
  <2> SUFFICES ASSUME NEW j \in places, ~(k <= j) PROVE FALSE
    OBVIOUS
  <2>1. j \in 1..(k - 1)
    BY <1>1
  <2> QED BY <2>1 DEF SepAt, Pair
<1>3. sep = k /\ k # 0
  <2>1. sep = k
    BY <1>1, <1>2, FirstAtIs
  <2> QED BY <2>1 DEF SepAt
<1>4. Decision = LengthOutcome
  BY DEF Decision, NewlineMode, LengthMode
<1> HIDE DEF places
<1>5. Accepted(header) = {} => LengthOutcome = Return(k + 1, <<>>, DeclaresOverCap(header))
  BY <1>3 DEF LengthOutcome, places
<1>6. ASSUME NEW n \in Nat, Accepted(header) = {n}
      PROVE  LengthOutcome = IF Len(buf) >= k + 1 + n
                             THEN Return(k + 1 + n, SubSeq(buf, k + 2, k + 1 + n), FALSE)
                             ELSE IF eof THEN Return(Len(buf), <<>>, FALSE) ELSE More
  <2> DEFINE length == CHOOSE m \in Accepted(header) : TRUE
             start == k + 1
             whole == start + length
  <2>1. length = n /\ Accepted(header) # {}
    BY <1>6
  <2>2. LengthOutcome = IF Holds(buf, whole) THEN Return(whole, SubSeq(buf, start + 1, whole), FALSE)
                        ELSE IF eof THEN Return(Len(buf), <<>>, FALSE) ELSE More
    <3> DEFINE head == Take(buf, sep - 1)
               size == CHOOSE m \in Accepted(head) : TRUE
               from == sep + 1
               all  == from + size
    <3>1. LengthOutcome =
            CASE sep = 0 /\ ~eof             -> More
              [] sep = 0 /\ eof /\ buf = <<>> -> NoneLeft
              [] sep = 0 /\ eof /\ buf # <<>> -> Return(Len(buf), <<>>, FALSE)
              [] sep # 0 /\ Accepted(head) = {} -> Return(from, <<>>, DeclaresOverCap(head))
              [] OTHER -> IF Holds(buf, all) THEN Return(all, SubSeq(buf, from + 1, all), FALSE)
                          ELSE IF eof THEN Return(Len(buf), <<>>, FALSE) ELSE More
      BY DEF LengthOutcome, places
    <3>2. head = header /\ size = length /\ from = start /\ all = whole
      BY <1>3
    <3> HIDE DEF head, size, from, all, sep, header, length, start, whole
    <3> QED BY <1>3, <2>1, <3>1, <3>2
  <2>3. start + 1 = k + 2 /\ start + n = k + 1 + n
    OBVIOUS
  <2> HIDE DEF length
  <2> QED BY <2>1, <2>2, <2>3 DEF Holds
<1> QED BY <1>4, <1>5, <1>6

(* The header of a message, and a header without any length. *)
LEMMA HeaderOfOne ==
  ASSUME NEW h \in Seq(Tokens), NEW n \in Nat, Len(h) = 1, h[1] = LenOf(n)
  PROVE  Accepted(h) = IF n <= Cap THEN {n} ELSE {}
<1>1. DOMAIN h = {1}
  OBVIOUS
<1>2. LineStarts(h) = {1}
  BY <1>1 DEF LineStarts
<1>3. LenLines(h) = {1}
  BY <1>2, TokensDiffer DEF LenLines
<1>4. Alone(h, 1) /\ h[1][1] = "len" /\ h[1][2] = n
  BY TokensDiffer DEF Alone
<1>5. Declared(h) = {n}
  <2>1. {j \in LenLines(h) : Alone(h, j) /\ h[j][1] = "len"} = {1}
    BY <1>3, <1>4
  <2> QED BY <1>4, <2>1 DEF Declared
<1>6. \E i \in LenLines(h) : LenLines(h) = {i}
  BY <1>3
<1> QED BY <1>5, <1>6 DEF Accepted

LEMMA HeaderOfNone ==
  ASSUME NEW h, \A i \in DOMAIN h : ~IsLenLine(h[i])
  PROVE  Accepted(h) = {}
<1>1. LenLines(h) = {}
  BY DEF LenLines, LineStarts
<1> QED BY <1>1 DEF Accepted

(* A message in Content-Length framing, or the front of one. *)
LEMMA DecideMessage ==
  ASSUME buf \in Seq(Tokens), eof \in BOOLEAN, Mode = LengthMode, NEW w \in Bodies,
         \A i \in 1..Len(buf) : i <= Len(Encode(w, LengthMode)) => buf[i] = Encode(w, LengthMode)[i]
  PROVE  \/ Len(w) <= Cap /\ Len(buf) >= Len(w) + 3 /\ Decision = Return(Len(w) + 3, w, FALSE)
         \/ ~eof /\ Decision = More /\ Len(buf) < Len(w) + 3
         \/ eof /\ buf = <<>> /\ Decision = NoneLeft
         \/ eof /\ buf # <<>> /\ Decision = Return(Len(buf), <<>>, FALSE) /\ Len(buf) < Len(w) + 3
         \/ /\ Len(w) > Cap /\ Len(buf) >= 3
            /\ \E marked \in BOOLEAN : Decision = Return(3, <<>>, marked)
<1> DEFINE e == Encode(w, LengthMode)
           n == Len(w)
<1>1. /\ n \in Nat /\ Len(e) = n + 3 /\ e[1] = LenOf(n) /\ e[2] = CRLF /\ e[3] = CRLF
      /\ \A i \in 1..n : e[i + 3] = w[i]
  BY EncodedIs
<1>2. Len(buf) \in Nat /\ w \in Seq(Tokens) /\ Cap \in Nat
  BY PeersSendTokens, BoundsAreNumbers
<1>3. \A i \in 1..Len(buf) : i <= n + 3 => buf[i] = e[i]
  BY <1>1
<1> HIDE DEF e, n
<1>4. Len(buf) >= 1 => buf[1] # CRLF /\ buf[1] = LenOf(n)
  BY <1>1, <1>2, <1>3, TokensDiffer
<1>5. CASE Len(buf) < 3
  <2>1. ASSUME NEW i \in 1..(Len(buf) - 1) PROVE ~Pair(buf, i)
    <3>1. i = 1 /\ Len(buf) >= 1
      BY <1>2, <1>5
    <3> QED BY <1>4, <3>1 DEF Pair
  <2>2. Decision = IF ~eof THEN More ELSE IF buf = <<>> THEN NoneLeft ELSE Return(Len(buf), <<>>, FALSE)
    BY <2>1, LengthWithoutSeparator
  <2>3. Len(buf) < n + 3
    BY <1>1, <1>2, <1>5
  <2> QED BY <2>2, <2>3 DEF n
<1>6. CASE Len(buf) >= 3
  <2> DEFINE header == Take(buf, 1)
  <2>1. buf[2] = CRLF /\ buf[3] = CRLF
    BY <1>1, <1>2, <1>3, <1>6
  <2>2. SepAt(2)
    <3>1. 2 \in 1..(Len(buf) - 1) /\ 2 + 1 = 3 /\ 1..(2 - 1) = {1}
      BY <1>2, <1>6
    <3> QED BY <1>2, <1>4, <1>6, <2>1, <3>1 DEF SepAt, Pair
  <2>3. header \in Seq(Tokens) /\ Len(header) = 1 /\ header[1] = LenOf(n)
    <3>1. 1 \in 0..Len(buf) /\ 1 \in 1..1 /\ Len(buf) >= 1
      BY <1>2, <1>6
    <3>2. header \in Seq(Tokens) /\ Len(header) = 1 /\ \A i \in 1..1 : header[i] = buf[i]
      BY <3>1, TakeAndDrop
    <3> HIDE DEF header
    <3> QED BY <1>4, <3>1, <3>2
  <2>4. Accepted(header) = IF n <= Cap THEN {n} ELSE {}
    BY <1>1, <2>3, HeaderOfOne
  <2>5. /\ Accepted(header) = {} => Decision = Return(3, <<>>, DeclaresOverCap(header))
        /\ Accepted(header) = {n} =>
             Decision = IF Len(buf) >= 3 + n THEN Return(3 + n, SubSeq(buf, 4, 3 + n), FALSE)
                        ELSE IF eof THEN Return(Len(buf), <<>>, FALSE) ELSE More
    <3>1. 2 \in Nat /\ 2 - 1 = 1 /\ 2 + 1 = 3 /\ 2 + 2 = 4
      OBVIOUS
    <3>2. LET h == Take(buf, 2 - 1) IN
          /\ Accepted(h) = {} => Decision = Return(2 + 1, <<>>, DeclaresOverCap(h))
          /\ \A m \in Nat : Accepted(h) = {m} =>
               Decision = IF Len(buf) >= 2 + 1 + m
                          THEN Return(2 + 1 + m, SubSeq(buf, 2 + 2, 2 + 1 + m), FALSE)
                          ELSE IF eof THEN Return(Len(buf), <<>>, FALSE) ELSE More
      BY <2>2, <3>1, LengthWithSeparator
    <3> QED BY <1>1, <3>1, <3>2
  <2> HIDE DEF header
  <2>6. CASE n > Cap
    <3>1. DeclaresOverCap(header) \in BOOLEAN
      BY DEF DeclaresOverCap
    <3>2. Decision = Return(3, <<>>, DeclaresOverCap(header))
      BY <1>1, <1>2, <2>4, <2>5, <2>6
    <3> QED BY <1>6, <2>6, <3>1, <3>2 DEF n
  <2>7. CASE n <= Cap /\ Len(buf) >= 3 + n
    <3> DEFINE b == SubSeq(buf, 4, 3 + n)
    <3>1. b = w
      <4>1. b \in Seq(Tokens) /\ Len(b) = n /\ \A i \in 1..n : b[i] = buf[i + 3]
        <5>1. \A i \in 4..(3 + n) : buf[i] \in Tokens
          BY <1>1, <1>2, <2>7
        <5>2. 4 \in Int /\ 3 + n \in Int
          BY <1>1
        <5>3. /\ b \in Seq(Tokens) /\ Len(b) = IF 4 <= 3 + n THEN (3 + n) - 4 + 1 ELSE 0
              /\ \A i \in 1..((3 + n) - 4 + 1) : b[i] = buf[4 + i - 1]
          BY <5>1, <5>2, SubSeqProperties
        <5> HIDE DEF b
        <5>4. (3 + n) - 4 + 1 = n /\ \A i \in 1..n : 4 + i - 1 = i + 3
          BY <1>1
        <5> QED BY <1>1, <5>3, <5>4
      <4> HIDE DEF b
      <4>2. \A i \in 1..n : b[i] = w[i]
        <5> TAKE i \in 1..n
        <5>1. i + 3 \in 1..Len(buf) /\ i + 3 <= n + 3
          BY <1>1, <1>2, <2>7
        <5> QED BY <1>1, <1>3, <4>1, <5>1
      <4> QED BY <1>2, <4>1, <4>2 DEF n
    <3>2. Decision = Return(3 + n, b, FALSE)
      BY <2>4, <2>5, <2>7
    <3> HIDE DEF b
    <3>3. 3 + n = n + 3
      BY <1>1
    <3> QED BY <2>7, <3>1, <3>2, <3>3 DEF n
  <2>8. CASE n <= Cap /\ ~(Len(buf) >= 3 + n)
    <3>1. Decision = IF eof THEN Return(Len(buf), <<>>, FALSE) ELSE More
      BY <2>4, <2>5, <2>8
    <3>2. buf # <<>> /\ Len(buf) < n + 3
      BY <1>1, <1>2, <1>6, <2>8
    <3> QED BY <3>1, <3>2 DEF n
  <2>9. n > Cap \/ (n <= Cap /\ Len(buf) >= 3 + n) \/ (n <= Cap /\ ~(Len(buf) >= 3 + n))
    BY <1>1, <1>2
  <2> QED BY <2>6, <2>7, <2>8, <2>9, Zenon
<1>7. Len(buf) < 3 \/ Len(buf) >= 3
  BY <1>2
<1> QED BY <1>5, <1>6, <1>7, Zenon

(* A header block that declares nothing usable, or the front of one. *)
LEMMA DecideBlock ==
  ASSUME buf \in Seq(Tokens), eof \in BOOLEAN, Mode = LengthMode, NEW piece \in Seq(Tokens),
         HeaderBlock(piece),
         \A i \in 1..Len(buf) : i <= Len(piece) => buf[i] = piece[i]
  PROVE  \/ /\ Len(buf) >= Len(piece)
            /\ \E marked \in BOOLEAN : Decision = Return(Len(piece), <<>>, marked)
         \/ Len(buf) < Len(piece) /\ (~eof => Decision = More)
<1> DEFINE n == Len(piece)
<1>1. n \in Nat /\ n > 1 /\ Len(buf) \in Nat
  BY DEF HeaderBlock
<1>2. piece[n - 1] = CRLF /\ piece[n] = CRLF /\ \A i \in 1..(n - 2) : ~Pair(piece, i)
  BY DEF HeaderBlock, Pair
<1> HIDE DEF n
<1>3. ASSUME NEW i \in 1..(n - 2), i \in 1..(Len(buf) - 1) PROVE ~Pair(buf, i)
  <2>1. i \in 1..Len(buf) /\ i + 1 \in 1..Len(buf) /\ i <= n /\ i + 1 <= n
    BY <1>1, <1>3
  <2> QED BY <1>2, <2>1 DEF Pair, n
<1>4. CASE Len(buf) >= n
  <2> DEFINE header == Take(buf, n - 2)
             k == n - 1
  <2>1. SepAt(k)
    <3>1. k \in 1..(Len(buf) - 1) /\ k + 1 = n /\ k - 1 = n - 2
      BY <1>1, <1>4
    <3>2. buf[k] = CRLF /\ buf[n] = CRLF
      <4>1. k \in 1..Len(buf) /\ n \in 1..Len(buf) /\ k <= n /\ n <= n
        BY <1>1, <1>4
      <4> QED BY <1>2, <4>1 DEF n
    <3>3. ASSUME NEW i \in 1..(k - 1) PROVE ~Pair(buf, i)
      <4>1. i \in 1..(n - 2) /\ i \in 1..(Len(buf) - 1)
        BY <1>1, <1>4
      <4> QED BY <1>3, <4>1
    <3> HIDE DEF k
    <3> QED BY <3>1, <3>2, <3>3 DEF SepAt, Pair
  <2>2. header = Take(piece, n - 2)
    <3>1. n - 2 \in 0..Len(buf) /\ n - 2 \in 0..Len(piece)
      BY <1>1, <1>4 DEF n
    <3>2. /\ header \in Seq(Tokens) /\ Len(header) = n - 2 /\ \A i \in 1..(n - 2) : header[i] = buf[i]
          /\ Take(piece, n - 2) \in Seq(Tokens) /\ Len(Take(piece, n - 2)) = n - 2
          /\ \A i \in 1..(n - 2) : Take(piece, n - 2)[i] = piece[i]
      BY <3>1, TakeAndDrop
    <3>3. \A i \in 1..(n - 2) : buf[i] = piece[i]
      <4> TAKE i \in 1..(n - 2)
      <4>1. i \in 1..Len(buf) /\ i <= Len(piece)
        BY <1>1, <1>4 DEF n
      <4> QED BY <4>1
    <3> QED BY <3>2, <3>3
  <2>3. Accepted(header) = {}
    BY <2>2 DEF HeaderBlock, n
  <2>4. k - 1 = n - 2 /\ k \in Nat /\ k + 1 = n
    BY <1>1
  <2>5. Accepted(Take(buf, k - 1)) = {} => Decision = Return(k + 1, <<>>, DeclaresOverCap(Take(buf, k - 1)))
    <3> HIDE DEF k
    <3> QED BY <2>1, <2>4, LengthWithSeparator
  <2>6. Decision = Return(n, <<>>, DeclaresOverCap(header))
    BY <2>3, <2>4, <2>5
  <2>7. DeclaresOverCap(header) \in BOOLEAN
    BY DEF DeclaresOverCap
  <2> QED BY <1>4, <2>6, <2>7 DEF n
<1>5. CASE Len(buf) < n
  <2>1. ASSUME NEW i \in 1..(Len(buf) - 1) PROVE ~Pair(buf, i)
    <3>1. i \in 1..(n - 2)
      BY <1>1, <1>5
    <3> QED BY <1>3, <3>1
  <2>2. ~eof => Decision = More
    BY <2>1, LengthWithoutSeparator
  <2> QED BY <1>5, <2>2 DEF n
<1> QED BY <1>1, <1>4, <1>5

(* Bytes with no length line in them make no message. *)
LEMMA DecideDraining ==
  ASSUME buf \in Seq(Tokens), eof \in BOOLEAN, Mode = LengthMode,
         \A i \in 1..Len(buf) : ~IsLenLine(buf[i])
  PROVE  \/ ~eof /\ Decision = More
         \/ eof /\ Decision = NoneLeft
         \/ \E take \in 0..Len(buf), marked \in BOOLEAN : Decision = Return(take, <<>>, marked)
<1>1. CASE \A i \in 1..(Len(buf) - 1) : ~Pair(buf, i)
  <2>1. Decision = IF ~eof THEN More ELSE IF buf = <<>> THEN NoneLeft ELSE Return(Len(buf), <<>>, FALSE)
    BY <1>1, LengthWithoutSeparator
  <2>2. Len(buf) \in 0..Len(buf) /\ FALSE \in BOOLEAN
    OBVIOUS
  <2> QED BY <2>1, <2>2
<1>2. CASE \E i \in 1..(Len(buf) - 1) : Pair(buf, i)
  <2> DEFINE P == {i \in 1..(Len(buf) - 1) : Pair(buf, i)}
  <2>1. P # {} /\ P \subseteq Nat
    BY <1>2
  <2>2. PICK k \in P : \A j \in P : k <= j
    <3> HIDE DEF P
    <3> QED BY <2>1, Least
  <2>3. SepAt(k) /\ k \in Nat /\ k + 1 \in 0..Len(buf) /\ k - 1 \in 0..Len(buf)
    <3>1. \A i \in 1..(k - 1) : ~(k <= i) /\ i \in 1..(Len(buf) - 1)
      BY <2>2
    <3> QED BY <2>2, <3>1 DEF SepAt
  <2> DEFINE header == Take(buf, k - 1)
  <2>4. Len(header) = k - 1 /\ header \in Seq(Tokens) /\ \A i \in 1..(k - 1) : header[i] = buf[i]
    BY <2>3, TakeAndDrop
  <2>5. \A i \in DOMAIN header : ~IsLenLine(header[i])
    <3> HIDE DEF header
    <3>1. DOMAIN header = 1..(k - 1) /\ 1..(k - 1) \subseteq 1..Len(buf)
      BY <2>3, <2>4
    <3> QED BY <2>4, <3>1
  <2>6. Accepted(header) = {}
    BY <2>5, HeaderOfNone
  <2>7. Decision = Return(k + 1, <<>>, DeclaresOverCap(header))
    BY <2>3, <2>6, LengthWithSeparator
  <2>8. DeclaresOverCap(header) \in BOOLEAN
    BY DEF DeclaresOverCap
  <2> QED BY <2>3, <2>7, <2>8
<1> QED BY <1>1, <1>2

(* Lines. *)
LineEndAt(k) == k \in 1..Len(buf) /\ buf[k] \in LineEnds /\ \A i \in 1..(k - 1) : buf[i] \notin LineEnds

LEMMA NewlineWithoutEnd ==
  ASSUME buf \in Seq(Tokens), eof \in BOOLEAN, Mode = NewlineMode,
         \A i \in 1..Len(buf) : buf[i] \notin LineEnds
  PROVE  Decision = IF ~eof THEN More ELSE IF AllBlank(buf) THEN NoneLeft ELSE Return(Len(buf), buf, FALSE)
<1> DEFINE places == {i \in DOMAIN buf : buf[i] \in LineEnds}
           nl == FirstAt(places)
           size == IF nl # 0 THEN nl ELSE Len(buf)
           body == StripEnd(Take(buf, size))
<1>1. places = {} /\ DOMAIN buf = 1..Len(buf) /\ Len(buf) \in Nat
  OBVIOUS
<1>2. nl = 0
  BY <1>1 DEF FirstAt
<1> HIDE DEF places
<1>3. size = Len(buf)
  BY <1>2
<1>4. Take(buf, size) = buf
  BY <1>3, SubSeqFull DEF Take
<1>5. body = buf
  <2>1. buf # <<>> => Last(buf) \notin LineEnds
    <3>1. buf # <<>> => Len(buf) \in 1..Len(buf)
      BY <1>1
    <3> QED BY <3>1 DEF Last
  <2> QED BY <1>4, <2>1 DEF StripEnd
<1>6. NewlineOutcome = IF ~eof THEN More ELSE IF AllBlank(body) THEN NoneLeft ELSE Return(size, body, FALSE)
  BY <1>2 DEF NewlineOutcome, places
<1>7. Decision = NewlineOutcome
  BY DEF Decision, NewlineMode, LengthMode
<1> QED BY <1>3, <1>5, <1>6, <1>7

LEMMA NewlineWithEnd ==
  ASSUME buf \in Seq(Tokens), eof \in BOOLEAN, Mode = NewlineMode, NEW k \in Nat, LineEndAt(k)
  PROVE  LET body == SubSeq(buf, 1, k - 1) IN
         /\ body \in Seq(Tokens) /\ Len(body) = k - 1 /\ \A i \in 1..(k - 1) : body[i] = buf[i]
         /\ Decision = IF AllBlank(body)
                       THEN IF k = Len(buf) /\ eof THEN NoneLeft ELSE Outcome("skip", k, <<>>)
                       ELSE Return(k, body, FALSE)
<1> DEFINE places == {i \in DOMAIN buf : buf[i] \in LineEnds}
           nl == FirstAt(places)
           size == IF nl # 0 THEN nl ELSE Len(buf)
           line == Take(buf, k)
           body == SubSeq(buf, 1, k - 1)
<1>1. k \in places /\ places \subseteq Nat /\ DOMAIN buf = 1..Len(buf) /\ Len(buf) \in Nat /\ k \in 1..Len(buf)
  BY DEF LineEndAt
<1>2. \A j \in places : k <= j
  <2> SUFFICES ASSUME NEW j \in places, ~(k <= j) PROVE FALSE
    OBVIOUS
  <2>1. j \in 1..(k - 1)
    BY <1>1
  <2> QED BY <2>1 DEF LineEndAt
<1>3. nl = k /\ nl # 0 /\ size = k
  <2>1. nl = k
    <3> HIDE DEF places
    <3> QED BY <1>1, <1>2, FirstAtIs
  <2>2. k # 0
    BY <1>1
  <2> HIDE DEF nl
  <2> QED BY <2>1, <2>2
<1> HIDE DEF places
<1>4. line \in Seq(Tokens) /\ Len(line) = k /\ \A i \in 1..k : line[i] = buf[i]
  <2>1. k \in 0..Len(buf)
    BY <1>1
  <2> QED BY <2>1, TakeAndDrop
<1>5. body \in Seq(Tokens) /\ Len(body) = k - 1 /\ \A i \in 1..(k - 1) : body[i] = buf[i]
  <2>1. k - 1 \in 0..Len(buf)
    BY <1>1
  <2> QED BY <2>1, TakeAndDrop DEF Take
<1>6. StripEnd(line) = body
  <2> DEFINE front == SubSeq(line, 1, k - 1)
  <2>1. line # <<>> /\ Last(line) \in LineEnds
    <3>1. k \in 1..k
      BY <1>1
    <3> QED BY <1>1, <1>4, <3>1 DEF Last, LineEndAt
  <2>2. StripEnd(line) = front
    BY <1>4, <2>1 DEF StripEnd, Front
  <2>3. front \in Seq(Tokens) /\ Len(front) = k - 1 /\ \A i \in 1..(k - 1) : front[i] = line[i]
    <3>1. k - 1 \in 0..Len(line)
      BY <1>1, <1>4
    <3> HIDE DEF line
    <3> QED BY <1>4, <3>1, TakeAndDrop DEF Take
  <2>4. front = body
    <3> HIDE DEF front, body, line
    <3>1. \A i \in 1..(k - 1) : line[i] = buf[i]
      BY <1>4
    <3> QED BY <1>5, <2>3, <3>1
  <2> QED BY <2>2, <2>4
<1> HIDE DEF body, line
<1>7. NewlineOutcome = IF AllBlank(body)
                       THEN IF k = Len(buf) /\ eof THEN NoneLeft ELSE Outcome("skip", k, <<>>)
                       ELSE Return(k, body, FALSE)
  <2>1. StripEnd(Take(buf, size)) = body
    BY <1>3, <1>6 DEF line
  <2> HIDE DEF size
  <2> QED BY <1>3, <2>1 DEF NewlineOutcome, places, size
<1>8. Decision = NewlineOutcome
  BY DEF Decision, NewlineMode, LengthMode
<1> QED BY <1>5, <1>7, <1>8 DEF body

(* A message on a line of its own, or the front of one. *)
LEMMA DecideLine ==
  ASSUME buf \in Seq(Tokens), eof \in BOOLEAN, Mode = NewlineMode, NEW w \in Bodies,
         \A i \in DOMAIN w : w[i] \notin LineEnds,
         \A i \in 1..Len(buf) : i <= Len(Encode(w, NewlineMode)) => buf[i] = Encode(w, NewlineMode)[i]
  PROVE  \/ Len(buf) >= Len(w) + 1 /\ Decision = Return(Len(w) + 1, w, FALSE)
         \/ ~eof /\ Decision = More /\ \A i \in 1..Len(buf) : buf[i] \notin LineEnds
         \/ eof /\ Decision = NoneLeft /\ Len(buf) < Len(w) + 1
         \/ eof /\ buf # <<>> /\ Decision = Return(Len(buf), buf, FALSE) /\ Len(buf) < Len(w) + 1
<1> DEFINE e == Encode(w, NewlineMode)
           n == Len(w)
<1>1. n \in Nat /\ Len(e) = n + 1 /\ e[n + 1] = LF /\ \A i \in 1..n : e[i] = w[i]
  BY EncodedIs
<1>2. Len(buf) \in Nat /\ w \in Seq(Tokens) /\ DOMAIN w = 1..n
  BY PeersSendTokens
<1>3. \A i \in 1..Len(buf) : i <= n + 1 => buf[i] = e[i]
  BY <1>1
<1>4. \A i \in 1..n : w[i] \notin LineEnds
  BY <1>2
<1> HIDE DEF e, n
<1>5. ASSUME NEW i \in 1..Len(buf), i <= n PROVE buf[i] = w[i] /\ buf[i] \notin LineEnds
  <2>1. i \in 1..n /\ i <= n + 1
    BY <1>1, <1>2, <1>5
  <2> QED BY <1>1, <1>3, <1>4, <2>1
<1>6. CASE Len(buf) >= n + 1
  <2> DEFINE body == SubSeq(buf, 1, (n + 1) - 1)
  <2>1. LineEndAt(n + 1) /\ n + 1 \in Nat
    <3>1. n + 1 \in 1..Len(buf) /\ n + 1 <= n + 1
      BY <1>1, <1>2, <1>6
    <3>2. buf[n + 1] \in LineEnds
      BY <1>1, <1>3, <3>1, TokensDiffer
    <3>3. \A i \in 1..((n + 1) - 1) : i \in 1..Len(buf) /\ i <= n
      BY <1>1, <1>2, <1>6
    <3> QED BY <1>1, <1>5, <3>1, <3>2, <3>3 DEF LineEndAt
  <2>2. /\ body \in Seq(Tokens) /\ Len(body) = (n + 1) - 1 /\ \A i \in 1..((n + 1) - 1) : body[i] = buf[i]
        /\ Decision = IF AllBlank(body)
                      THEN IF n + 1 = Len(buf) /\ eof THEN NoneLeft ELSE Outcome("skip", n + 1, <<>>)
                      ELSE Return(n + 1, body, FALSE)
    BY <2>1, NewlineWithEnd
  <2> HIDE DEF body
  <2>3. body = w
    <3>1. (n + 1) - 1 = n
      BY <1>1
    <3>2. \A i \in 1..n : body[i] = w[i]
      <4> TAKE i \in 1..n
      <4>1. i \in 1..Len(buf) /\ i <= n
        BY <1>1, <1>2, <1>6
      <4> QED BY <1>5, <2>2, <3>1, <4>1
    <3> QED BY <1>2, <2>2, <3>1, <3>2 DEF n
  <2>4. ~AllBlank(w)
    BY PeersSendMessages
  <2> QED BY <1>6, <2>2, <2>3, <2>4 DEF n
<1>7. CASE Len(buf) < n + 1
  <2>1. \A i \in 1..Len(buf) : i <= n
    BY <1>1, <1>2, <1>7
  <2>2. \A i \in 1..Len(buf) : buf[i] \notin LineEnds
    BY <1>5, <2>1
  <2>3. Decision = IF ~eof THEN More ELSE IF AllBlank(buf) THEN NoneLeft ELSE Return(Len(buf), buf, FALSE)
    BY <2>2, NewlineWithoutEnd
  <2>4. buf = <<>> => AllBlank(buf)
    BY DEF AllBlank
  <2> QED BY <1>7, <2>2, <2>3, <2>4 DEF n
<1>8. Len(buf) >= n + 1 \/ Len(buf) < n + 1
  BY <1>1, <1>2
<1> QED BY <1>6, <1>7, <1>8, Zenon

(* Blank lines, or the front of them. *)
LEMMA DecideBlanks ==
  ASSUME buf \in Seq(Tokens), eof \in BOOLEAN, Mode = NewlineMode, NEW n \in Nat, n > 0,
         \A i \in 1..Len(buf) : i <= n => IsBlank(buf[i]),
         n <= Len(buf) => buf[n] \in LineEnds
  PROVE  \/ eof /\ Decision = NoneLeft /\ Len(buf) <= n
         \/ \E take \in 1..n : take <= Len(buf) /\ Decision = Outcome("skip", take, <<>>)
         \/ ~eof /\ Decision = More /\ \A i \in 1..Len(buf) : buf[i] \notin LineEnds
         \/ eof /\ Len(buf) < n
<1>1. Len(buf) \in Nat
  OBVIOUS
<1>2. CASE \A i \in 1..Len(buf) : buf[i] \notin LineEnds
  <2>1. Decision = IF ~eof THEN More ELSE IF AllBlank(buf) THEN NoneLeft ELSE Return(Len(buf), buf, FALSE)
    BY <1>2, NewlineWithoutEnd
  <2>2. Len(buf) < n
    <3> SUFFICES ASSUME n <= Len(buf) PROVE FALSE
      BY <1>1
    <3>1. n \in 1..Len(buf)
      BY <1>1
    <3> QED BY <1>2, <3>1
  <2> QED BY <1>2, <2>1, <2>2
<1>3. CASE \E i \in 1..Len(buf) : buf[i] \in LineEnds
  <2> DEFINE P == {i \in 1..Len(buf) : buf[i] \in LineEnds}
  <2>1. P # {} /\ P \subseteq Nat
    BY <1>3
  <2>2. PICK k \in P : \A j \in P : k <= j
    <3> HIDE DEF P
    <3> QED BY <2>1, Least
  <2>3. LineEndAt(k) /\ k \in Nat /\ k \in 1..Len(buf)
    <3>1. \A i \in 1..(k - 1) : ~(k <= i) /\ i \in 1..Len(buf)
      BY <2>2
    <3> QED BY <2>2, <3>1 DEF LineEndAt
  <2>4. k <= n
    <3>1. CASE n <= Len(buf)
      <4>1. n \in P
        BY <1>1, <3>1
      <4> QED BY <2>2, <4>1
    <3>2. CASE ~(n <= Len(buf))
      BY <1>1, <2>3, <3>2
    <3> QED BY <3>1, <3>2
  <2> DEFINE body == SubSeq(buf, 1, k - 1)
  <2>5. /\ body \in Seq(Tokens) /\ Len(body) = k - 1 /\ \A i \in 1..(k - 1) : body[i] = buf[i]
        /\ Decision = IF AllBlank(body)
                      THEN IF k = Len(buf) /\ eof THEN NoneLeft ELSE Outcome("skip", k, <<>>)
                      ELSE Return(k, body, FALSE)
    BY <2>3, NewlineWithEnd
  <2> HIDE DEF body
  <2>6. AllBlank(body)
    <3>1. DOMAIN body = 1..(k - 1) /\ \A i \in 1..(k - 1) : i \in 1..Len(buf) /\ i <= n
      BY <2>3, <2>4, <2>5
    <3> QED BY <2>5, <3>1 DEF AllBlank
  <2>7. k \in 1..n /\ k <= Len(buf)
    BY <2>3, <2>4
  <2> QED BY <2>5, <2>6, <2>7
<1> QED BY <1>2, <1>3

-----------------------------------------------------------------------------
(* Where the reader is in the stream, and what the stream tells it of its mode. *)

Stream == got \o pipe
Base   == Len(got) - Len(buf)

Placed ==
  /\ ends \in Seq(Nat) /\ Len(ends) = Len(wrote) /\ Len(buf) <= Len(got)
  /\ \A i \in 1..Len(buf) : buf[i] = Stream[Base + i]

ModeKnown ==
  /\ mode \in {Undetected, peer} /\ (mode = Undetected => Len(buf) = Len(got))
  /\ peer = NewlineMode => \A i \in 1..Len(Stream) : ~IsLenLine(Stream[i])
  /\ peer = LengthMode /\ Len(Stream) > 0 => IsLenLine(Stream[1])
  /\ wrote # <<>> => Len(Stream) > 0

LEMMA StreamIs ==
  ASSUME Typed
  PROVE  /\ Stream \in Seq(Tokens) /\ Len(Stream) = Len(got) + Len(pipe)
         /\ Len(Stream) \in Nat /\ Len(got) \in Nat /\ Len(buf) \in Nat /\ Len(pipe) \in Nat
         /\ Len(got) <= Len(Stream)
         /\ \A i \in 1..Len(got) : Stream[i] = got[i]
         /\ eof => Len(got) = Len(Stream)
<1>1. got \in Seq(Tokens) /\ pipe \in Seq(Tokens) /\ buf \in Seq(Tokens)
  BY DEF Typed
<1>2. Len(got) \in Nat /\ Len(buf) \in Nat /\ Len(pipe) \in Nat
  BY <1>1
<1>3. /\ Stream \in Seq(Tokens) /\ Len(Stream) = Len(got) + Len(pipe)
      /\ \A i \in 1..(Len(got) + Len(pipe)) : Stream[i] = IF i <= Len(got) THEN got[i] ELSE pipe[i - Len(got)]
  BY <1>1, ConcatProperties DEF Stream
<1>4. \A i \in 1..Len(got) : Stream[i] = got[i]
  BY <1>2, <1>3
<1>5. eof => Len(pipe) = 0
  BY DEF Typed
<1> QED BY <1>2, <1>3, <1>4, <1>5

(* The mode in force is the peer's, or not known yet and then nothing can be cut. *)
LEMMA ModeIs ==
  ASSUME Typed, Placed, ModeKnown
  PROVE  /\ Mode \in {Undetected, peer}
         /\ Mode = Undetected =>
              /\ mode = Undetected /\ (eof => buf = <<>>) /\ (peer = LengthMode => buf = <<>>)
              /\ \A i \in 1..Len(buf) : buf[i] \notin LineEnds
<1>1. /\ peer \in {NewlineMode, LengthMode} /\ mode \in {Undetected, peer} /\ NewlineMode # LengthMode
      /\ NewlineMode # Undetected /\ LengthMode # Undetected
  BY DEF Typed, ModeKnown, NewlineMode, LengthMode, Undetected
<1>2. CASE mode # Undetected
  BY <1>1, <1>2 DEF Mode
<1>3. CASE mode = Undetected
  <2> DEFINE size  == IF Len(buf) < Window THEN Len(buf) ELSE Window
             head  == Take(buf, size)
             places == {i \in DOMAIN head : ~IsBlank(head[i])}
             first == FirstAt(places)
  <2>1. /\ Len(buf) \in Nat /\ Window \in Nat /\ Window >= 1 /\ buf \in Seq(Tokens)
        /\ \A i \in 1..Len(buf) : buf[i] = Stream[i] /\ i \in 1..Len(Stream)
    <3>1. Base = 0
      BY <1>3, StreamIs DEF ModeKnown, Base
    <3>2. Len(buf) = Len(got)
      BY <1>3 DEF ModeKnown
    <3>3. \A i \in 1..Len(buf) : 0 + i = i /\ i \in 1..Len(Stream)
      BY <3>2, StreamIs
    <3> QED BY <3>1, <3>3, StreamIs, BoundsAreNumbers DEF Placed, Typed
  <2>2. size \in 0..Len(buf) /\ (Len(buf) > 0 => size >= 1)
    BY <2>1
  <2> HIDE DEF size
  <2>3. head \in Seq(Tokens) /\ Len(head) = size /\ \A i \in 1..size : head[i] = buf[i]
    BY <2>1, <2>2, TakeAndDrop
  <2> HIDE DEF head
  <2>4. DOMAIN head = 1..size /\ places \subseteq Nat /\ places \subseteq 1..size
    BY <2>1, <2>2, <2>3
  <2>5. IF places = {} THEN first = 0 ELSE first \in places
    <3> HIDE DEF places
    <3> QED BY <2>4, FirstAtIsAPlace
  <2>6. Detect(buf) = IF first # 0 /\ IsLenLine(head[first]) THEN LengthMode
                      ELSE IF Len(buf) >= Window \/ \E i \in DOMAIN buf : buf[i] \in LineEnds THEN NewlineMode
                      ELSE Undetected
    BY DEF Detect, head, size
  <2>7. Mode = IF Detect(buf) # Undetected THEN Detect(buf)
               ELSE IF eof /\ buf # <<>> THEN NewlineMode ELSE Undetected
    BY <1>3 DEF Mode
  <2>8. DOMAIN buf = 1..Len(buf)
    BY <2>1
  <2>9. CASE peer = NewlineMode
    <3>1. ASSUME first # 0 PROVE ~IsLenLine(head[first])
      <4>1. first \in 1..size
        BY <2>4, <2>5, <3>1
      <4>2. head[first] = buf[first] /\ first \in 1..Len(buf)
        BY <2>1, <2>2, <2>3, <4>1
      <4>3. buf[first] = Stream[first] /\ first \in 1..Len(Stream)
        BY <2>1, <4>2
      <4> QED BY <2>9, <4>2, <4>3 DEF ModeKnown
    <3> HIDE DEF first
    <3>2. Detect(buf) = IF Len(buf) >= Window \/ \E i \in 1..Len(buf) : buf[i] \in LineEnds THEN NewlineMode
                        ELSE Undetected
      BY <2>6, <2>8, <3>1
    <3> QED BY <1>1, <1>3, <2>7, <2>9, <3>2
  <2>10. CASE peer = LengthMode /\ buf # <<>>
    <3>1. 1 \in 1..Len(buf) /\ 1 \in 1..size
      BY <2>1, <2>2, <2>10
    <3>2. head[1] = Stream[1] /\ 1 \in 1..Len(Stream)
      BY <2>1, <2>3, <3>1
    <3>3. Len(Stream) > 0
      BY <3>2, StreamIs
    <3>4. IsLenLine(head[1])
      BY <2>10, <3>2, <3>3 DEF ModeKnown
    <3>5. ~IsBlank(head[1])
      BY <3>4, TokensDiffer
    <3>6. 1 \in places
      BY <2>4, <3>1, <3>5
    <3>7. \A j \in places : 1 <= j
      BY <2>4
    <3>8. first = 1
      <4> HIDE DEF places
      <4> QED BY <2>4, <3>6, <3>7, FirstAtIs
    <3> HIDE DEF first
    <3>9. Detect(buf) = LengthMode
      BY <2>6, <3>4, <3>8
    <3> QED BY <1>1, <2>7, <2>10, <3>9
  <2>11. CASE peer = LengthMode /\ buf = <<>>
    <3>1. Len(buf) = 0 /\ size = 0
      BY <2>1, <2>2, <2>11
    <3>2. places = {}
      BY <2>4, <3>1
    <3>3. first = 0
      BY <2>5, <3>2
    <3>4. ~(Len(buf) >= Window) /\ ~\E i \in DOMAIN buf : buf[i] \in LineEnds
      BY <2>1, <2>8, <3>1
    <3> HIDE DEF first
    <3>5. Detect(buf) = Undetected
      BY <2>6, <3>3, <3>4
    <3>6. \A i \in 1..Len(buf) : buf[i] \notin LineEnds
      BY <3>1
    <3> QED BY <1>1, <1>3, <2>7, <2>11, <3>5, <3>6
  <2> QED BY <1>1, <2>9, <2>10, <2>11
<1> QED BY <1>2, <1>3

-----------------------------------------------------------------------------
(* The layout of the stream, and where the reader is in it.                *)

At(a, s) == a + Len(s) <= Len(Stream) /\ \A i \in 1..Len(s) : Stream[a + i] = s[i]

(* From a to b the peer wrote its n-th message, or noise. *)
Message(a, b, n) ==
  /\ n \in 1..Len(wrote) /\ Sendable(wrote[n]) /\ ends[n] = b
  /\ At(a, Encode(wrote[n], peer)) /\ b = a + Len(Encode(wrote[n], peer))
Filler(a, b) ==
  \E piece \in Noise : (peer = NewlineMode) = AllBlank(piece) /\ At(a, piece) /\ b = a + Len(piece)

(* The stream is cut into m pieces at these places, so many messages before each. *)
Layout(m, cut, num) ==
  /\ m \in Nat /\ cut \in [0..m -> Nat] /\ num \in [0..m -> Nat]
  /\ cut[0] = 0 /\ num[0] = 0 /\ num[m] = Len(wrote) /\ cut[m] <= Len(Stream)
  /\ \A j, k \in 0..m : j < k => cut[j] < cut[k] /\ num[j] <= num[k]
  /\ \A j \in 0..(m - 1) : \/ num[j + 1] = num[j] + 1 /\ Message(cut[j], cut[j + 1], num[j + 1])
                           \/ num[j + 1] = num[j] /\ Filler(cut[j], cut[j + 1])
  /\ \A i \in 1..Len(wrote) : \E j \in 0..(m - 1) : num[j] = i - 1 /\ num[j + 1] = i /\ cut[j + 1] = ends[i]

(* After the last piece there is nothing, or the front of a message the peer did not finish. *)
Unfinished(end) ==
  \/ Len(Stream) = end
  \/ closed /\ \E body \in Bodies : \E n \in 1..(Len(Encode(body, peer)) - 1) :
       /\ Sendable(body) /\ Len(Stream) = end + n
       /\ \A i \in 1..n : Stream[end + i] = Encode(body, peer)[i]

(* The reader is at a cut and has returned the messages before it, or has skipped some of the    *)
(* blank lines after the cut.                                                                     *)
Reading(m, cut, num, r) ==
  /\ r \in 0..m /\ Len(Bodied) = num[r] /\ cut[r] <= Base
  /\ Base # cut[r] => r < m /\ peer = NewlineMode /\ num[r + 1] = num[r] /\ Base < cut[r + 1]

(* Or it is past the last message, and no more will come of what is left. *)
Past ==
  /\ closed /\ Len(Bodied) >= Len(wrote)
  /\ \/ eof /\ buf = <<>>
     \/ /\ peer = LengthMode /\ mode = LengthMode
        /\ \A i \in 1..Len(Stream) : i > Base => ~IsLenLine(Stream[i])

Follows ==
  \E m \in Nat : \E cut \in [0..m -> Nat] : \E num \in [0..m -> Nat] :
    /\ Layout(m, cut, num) /\ Unfinished(cut[m])
    /\ Past \/ \E r \in 0..m : Reading(m, cut, num, r)

FramesAre ==
  \A i \in DOMAIN Bodied :
    \/ i \in DOMAIN wrote /\ Bodied[i].raw = Encode(wrote[i], peer)
    \/ closed /\ i = Len(wrote) + 1 /\ Bodied[i].raw \in Bodies

FollowsInv ==
  /\ Typed /\ Placed /\ ModeKnown /\ FittingBodiesAreInspected
  /\ InStep => Follows /\ FramesAre

-----------------------------------------------------------------------------
(* The peer's steps.                                                       *)

LEMMA StreamGrows ==
  ASSUME Typed, NEW x \in Seq(Tokens), got' = got, pipe' = pipe \o x
  PROVE  /\ Stream' = Stream \o x
         /\ Len(Stream') = Len(Stream) + Len(x)
         /\ \A i \in 1..Len(Stream) : Stream'[i] = Stream[i]
         /\ \A i \in 1..Len(x) : Stream'[Len(Stream) + i] = x[i]
<1>1. got \in Seq(Tokens) /\ pipe \in Seq(Tokens)
  BY DEF Typed
<1>2. (got \o pipe) \o x = got \o (pipe \o x)
  BY <1>1, TokensAssociative
<1>3. Stream' = Stream \o x
  BY <1>2 DEF Stream
<1>4. Stream \in Seq(Tokens) /\ Len(Stream) \in Nat /\ Len(x) \in Nat
  BY StreamIs
<1> DEFINE s == Stream
           t == s \o x
<1>5. s \in Seq(Tokens) /\ Len(s) \in Nat
  BY <1>4
<1> HIDE DEF s
<1>6. Len(t) = Len(s) + Len(x) /\ \A i \in 1..(Len(s) + Len(x)) : t[i] = IF i <= Len(s) THEN s[i] ELSE x[i - Len(s)]
  BY <1>5, ConcatProperties
<1> HIDE DEF t
<1>7. \A i \in 1..Len(s) : t[i] = s[i]
  BY <1>4, <1>5, <1>6
<1>8. ASSUME NEW i \in 1..Len(x) PROVE t[Len(s) + i] = x[i]
  <2>1. Len(s) + i \in 1..(Len(s) + Len(x)) /\ ~(Len(s) + i <= Len(s)) /\ (Len(s) + i) - Len(s) = i
    BY <1>4, <1>5
  <2> QED BY <1>6, <2>1
<1> QED BY <1>3, <1>6, <1>7, <1>8 DEF s, t

(* What was written stays written. *)
Extends ==
  /\ peer' = peer /\ Len(wrote) <= Len(wrote')
  /\ \A i \in 1..Len(wrote) : wrote'[i] = wrote[i] /\ ends'[i] = ends[i]
  /\ Len(Stream) \in Nat /\ Len(Stream') \in Nat /\ Len(Stream) <= Len(Stream')
  /\ \A i \in 1..Len(Stream) : Stream'[i] = Stream[i]

LEMMA AtStays ==
  ASSUME Typed, Typed', Extends, NEW a \in Nat, NEW s \in Seq(Tokens), At(a, s)
  PROVE  At(a, s)'
<1>1. Len(Stream) \in Nat /\ Len(Stream') \in Nat /\ Len(s) \in Nat
  BY DEF Extends
<1>2. a + Len(s) <= Len(Stream) /\ \A i \in 1..Len(s) : Stream[a + i] = s[i]
  BY DEF At
<1>3. Len(Stream) <= Len(Stream') /\ \A i \in 1..Len(Stream) : Stream'[i] = Stream[i]
  BY DEF Extends
<1>4. \A i \in 1..Len(s) : a + i \in 1..Len(Stream)
  BY <1>1, <1>2
<1>5. a + Len(s) <= Len(Stream')
  BY <1>1, <1>2, <1>3
<1>6. \A i \in 1..Len(s) : Stream'[a + i] = s[i]
  BY <1>2, <1>3, <1>4
<1> QED BY <1>5, <1>6 DEF At

LEMMA PiecesStay ==
  ASSUME Typed, Typed', Extends, NEW a \in Nat, NEW b, NEW n
  PROVE  /\ Message(a, b, n) => Message(a, b, n)'
         /\ Filler(a, b) => Filler(a, b)'
<1>1. ASSUME Message(a, b, n) PROVE Message(a, b, n)'
  <2>1. n \in 1..Len(wrote) /\ Len(wrote) \in Nat /\ Len(wrote') \in Nat /\ wrote \in Seq(Bodies)
    BY <1>1 DEF Message, Typed
  <2>2. n \in 1..Len(wrote') /\ wrote'[n] = wrote[n] /\ ends'[n] = ends[n] /\ peer' = peer
    BY <2>1 DEF Extends
  <2>3. Encode(wrote[n], peer) \in Seq(Tokens)
    <3>1. wrote[n] \in Bodies
      BY <2>1
    <3> QED BY <3>1, EncodedIsBytes
  <2>4. At(a, Encode(wrote[n], peer)) /\ b = a + Len(Encode(wrote[n], peer)) /\ Sendable(wrote[n]) /\ ends[n] = b
    BY <1>1 DEF Message
  <2>5. PICK s \in Seq(Tokens) : s = Encode(wrote[n], peer)
    BY <2>3
  <2>6. At(a, s)'
    BY <2>4, <2>5, AtStays
  <2>7. s' = s /\ Encode(wrote'[n], peer') = s
    BY <2>2, <2>5
  <2>8. Sendable(wrote[n])'
    BY <2>2, <2>4 DEF Sendable
  <2> QED BY <2>2, <2>4, <2>5, <2>6, <2>7, <2>8 DEF Message, At, Sendable
<1>2. ASSUME Filler(a, b) PROVE Filler(a, b)'
  <2>1. PICK piece \in Noise : (peer = NewlineMode) = AllBlank(piece) /\ At(a, piece) /\ b = a + Len(piece)
    BY <1>2 DEF Filler
  <2>2. piece \in Seq(Tokens)
    BY PeersSendTokens
  <2>3. At(a, piece)'
    BY <2>1, <2>2, AtStays
  <2> QED BY <2>1, <2>3 DEF Filler, Extends
<1> QED BY <1>1, <1>2

LEMMA LayoutStays ==
  ASSUME Typed, Typed', Extends, NEW m, NEW cut, NEW num, Layout(m, cut, num), Len(wrote') = Len(wrote)
  PROVE  Layout(m, cut, num)'
<1>1. Len(wrote) \in Nat /\ m \in Nat /\ cut \in [0..m -> Nat] /\ num \in [0..m -> Nat]
  <2>1. Len(wrote) \in Nat
    BY DEF Typed
  <2>2. m \in Nat /\ cut \in [0..m -> Nat] /\ num \in [0..m -> Nat]
    BY DEF Layout
  <2> QED BY <2>1, <2>2
<1>2. cut[m] <= Len(Stream')
  BY <1>1 DEF Layout, Extends
<1>3. \A j \in 0..(m - 1) : \/ num[j + 1] = num[j] + 1 /\ Message(cut[j], cut[j + 1], num[j + 1])'
                            \/ num[j + 1] = num[j] /\ Filler(cut[j], cut[j + 1])'
  <2> TAKE j \in 0..(m - 1)
  <2>1. j \in 0..m /\ cut[j] \in Nat
    BY <1>1
  <2>2. \/ num[j + 1] = num[j] + 1 /\ Message(cut[j], cut[j + 1], num[j + 1])
        \/ num[j + 1] = num[j] /\ Filler(cut[j], cut[j + 1])
    BY DEF Layout
  <2> QED BY <2>1, <2>2, PiecesStay
<1>4. \A i \in 1..Len(wrote) : \E j \in 0..(m - 1) : num[j] = i - 1 /\ num[j + 1] = i /\ cut[j + 1] = ends'[i]
  <2> TAKE i \in 1..Len(wrote)
  <2>1. PICK j \in 0..(m - 1) : num[j] = i - 1 /\ num[j + 1] = i /\ cut[j + 1] = ends[i]
    BY DEF Layout
  <2>2. ends'[i] = ends[i]
    BY DEF Extends
  <2> QED BY <2>1, <2>2
<1> QED BY <1>2, <1>3, <1>4 DEF Layout

(* The same, after the step. *)
MessageNext(a, b, n) == Message(a, b, n)'
FillerNext(a, b) == Filler(a, b)'
LayoutNext(m, cut, num) == Layout(m, cut, num)'

(* The stream has grown from a to b by a message, or by a piece of noise; q are written now. *)
Added(a, b, q) ==
  /\ a = Len(Stream) /\ b = Len(Stream') /\ q = Len(wrote') /\ a < b
  /\ \/ q = Len(wrote) + 1 /\ ends'[q] = b /\ MessageNext(a, b, q)
     \/ q = Len(wrote) /\ FillerNext(a, b)

OneMore(m, cut, num, b) ==
  \E cut2 \in [0..(m + 1) -> Nat] : \E num2 \in [0..(m + 1) -> Nat] :
    /\ LayoutNext(m + 1, cut2, num2) /\ cut2[m + 1] = b
    /\ \A j \in 0..m : cut2[j] = cut[j] /\ num2[j] = num[j]

LEMMA OnePieceMore ==
  ASSUME Typed, Typed', Extends, NEW m, NEW cut, NEW num, Layout(m, cut, num),
         NEW a, NEW b, NEW q, Added(a, b, q), cut[m] = a
  PROVE  OneMore(m, cut, num, b)
<1> DEFINE k == Len(wrote)
           n == m + 1
<1>1. /\ m \in Nat /\ cut \in [0..m -> Nat] /\ num \in [0..m -> Nat]
      /\ cut[0] = 0 /\ num[0] = 0 /\ num[m] = k /\ cut[m] = a
  BY DEF Layout
<1>2. a \in Nat /\ b \in Nat /\ a < b /\ \A i \in 1..k : ends'[i] = ends[i]
  BY DEF Extends, Added
<1>3. k \in Nat /\ q \in Nat
  <2>1. wrote \in Seq(Bodies) /\ wrote' \in Seq(Bodies)
    BY DEF Typed
  <2> QED BY <2>1 DEF Added
<1>4. \A i, j \in 0..m : i < j => cut[i] < cut[j] /\ num[i] <= num[j]
  BY DEF Layout
<1>5. \A j \in 0..(m - 1) : \/ num[j + 1] = num[j] + 1 /\ MessageNext(cut[j], cut[j + 1], num[j + 1])
                            \/ num[j + 1] = num[j] /\ FillerNext(cut[j], cut[j + 1])
  <2> TAKE j \in 0..(m - 1)
  <2>1. j \in 0..m /\ cut[j] \in Nat
    BY <1>1
  <2>2. \/ num[j + 1] = num[j] + 1 /\ Message(cut[j], cut[j + 1], num[j + 1])
        \/ num[j + 1] = num[j] /\ Filler(cut[j], cut[j + 1])
    BY DEF Layout
  <2> QED BY <2>1, <2>2, PiecesStay DEF MessageNext, FillerNext
<1>6. ASSUME NEW i \in 1..k PROVE \E j \in 0..(m - 1) : num[j] = i - 1 /\ num[j + 1] = i /\ cut[j + 1] = ends'[i]
  <2>1. PICK j \in 0..(m - 1) : num[j] = i - 1 /\ num[j + 1] = i /\ cut[j + 1] = ends[i]
    BY DEF Layout
  <2> QED BY <1>2, <2>1
<1>7. \/ q = k + 1 /\ ends'[q] = b /\ MessageNext(a, b, q)
      \/ q = k /\ FillerNext(a, b)
  BY DEF Added
<1>20. b = Len(Stream') /\ q = Len(wrote')
  BY DEF Added
<1> HIDE DEF k
<1>8. n \in Nat /\ n \in 0..n /\ m \in 0..n /\ m # n /\ 0 # n /\ 0..m \subseteq 0..n /\ n \notin 0..m
  BY <1>1
<1>9. 0..n = (0..m) \cup {n}
  BY <1>1
<1>10. PICK cut2 \in [0..n -> Nat] : cut2[n] = b /\ \A j \in 0..m : cut2[j] = cut[j]
  <2> HIDE DEF n
  <2> DEFINE f == [j \in 0..n |-> IF j = n THEN b ELSE cut[j]]
  <2>1. f \in [0..n -> Nat] /\ f[n] = b /\ \A j \in 0..m : f[j] = cut[j]
    BY <1>1, <1>2, <1>8, <1>9
  <2> QED BY <2>1
<1>11. PICK num2 \in [0..n -> Nat] : num2[n] = q /\ \A j \in 0..m : num2[j] = num[j]
  <2> HIDE DEF n
  <2> DEFINE f == [j \in 0..n |-> IF j = n THEN q ELSE num[j]]
  <2>1. f \in [0..n -> Nat] /\ f[n] = q /\ \A j \in 0..m : f[j] = num[j]
    BY <1>1, <1>3, <1>8, <1>9
  <2> QED BY <2>1
<1>12. 0 \in 0..m /\ m \in 0..m
  BY <1>1
<1>13. ASSUME NEW i \in 0..n, NEW j \in 0..n, i < j PROVE cut2[i] < cut2[j] /\ num2[i] <= num2[j]
  <2>1. CASE j # n
    <3>1. i \in 0..m /\ j \in 0..m
      BY <1>8, <1>9, <1>13, <2>1
    <3> QED BY <1>4, <1>10, <1>11, <1>13, <3>1
  <2>2. CASE j = n
    <3>1. i \in 0..m
      BY <1>1, <1>13, <2>2
    <3>2. cut[i] \in Nat /\ num[i] \in Nat
      BY <1>1, <3>1
    <3>3. cut[i] <= a /\ num[i] <= k /\ q >= k
      <4>1. i < m \/ i = m
        BY <1>1, <3>1
      <4>2. i < m => cut[i] < cut[m] /\ num[i] <= num[m]
        BY <1>4, <1>12, <3>1
      <4>3. cut[m] = a /\ num[m] = k
        BY <1>1
      <4>4. q >= k
        BY <1>3, <1>7
      <4>5. i = m => cut[i] = a /\ num[i] = k
        BY <4>3
      <4> QED BY <1>2, <1>3, <3>2, <4>1, <4>2, <4>3, <4>4, <4>5
    <3>4. cut[i] < b /\ num[i] <= q
      BY <1>2, <1>3, <3>2, <3>3
    <3> QED BY <1>10, <1>11, <2>2, <3>1, <3>4
  <2> QED BY <2>1, <2>2
<1>14. ASSUME NEW j \in 0..(n - 1)
       PROVE  \/ num2[j + 1] = num2[j] + 1 /\ MessageNext(cut2[j], cut2[j + 1], num2[j + 1])
              \/ num2[j + 1] = num2[j] /\ FillerNext(cut2[j], cut2[j + 1])
  <2>1. j \in 0..m /\ (j = m \/ (j \in 0..(m - 1) /\ j + 1 \in 0..m))
    BY <1>1
  <2>2. CASE j = m
    <3>1. cut2[j] = a /\ cut2[j + 1] = b /\ num2[j] = k /\ num2[j + 1] = q
      BY <1>1, <1>10, <1>11, <1>12, <2>2
    <3> QED BY <1>7, <3>1
  <2>3. CASE j \in 0..(m - 1) /\ j + 1 \in 0..m
    <3>1. cut2[j] = cut[j] /\ cut2[j + 1] = cut[j + 1] /\ num2[j] = num[j] /\ num2[j + 1] = num[j + 1]
      BY <1>10, <1>11, <2>1, <2>3
    <3> QED BY <1>5, <2>3, <3>1
  <2> QED BY <2>1, <2>2, <2>3
<1>15. ASSUME NEW i \in 1..q
       PROVE  \E j \in 0..(n - 1) : num2[j] = i - 1 /\ num2[j + 1] = i /\ cut2[j + 1] = ends'[i]
  <2>1. CASE i \in 1..k
    <3>1. PICK j \in 0..(m - 1) : num[j] = i - 1 /\ num[j + 1] = i /\ cut[j + 1] = ends'[i]
      BY <1>6, <2>1
    <3>2. j \in 0..m /\ j + 1 \in 0..m /\ j \in 0..(n - 1)
      BY <1>1
    <3> QED BY <1>10, <1>11, <3>1, <3>2
  <2>2. CASE i \notin 1..k
    <3>1. q = k + 1 /\ i = q /\ ends'[q] = b
      BY <1>3, <1>7, <2>2
    <3>2. m \in 0..(n - 1) /\ num2[m] = i - 1 /\ num2[m + 1] = i /\ cut2[m + 1] = ends'[i]
      BY <1>1, <1>3, <1>10, <1>11, <1>12, <3>1
    <3> QED BY <3>2
  <2> QED BY <2>1, <2>2
<1>16. cut2[0] = 0 /\ num2[0] = 0 /\ num2[n] = q /\ cut2[n] <= b
  BY <1>1, <1>2, <1>10, <1>11, <1>12
<1>17. \A i, j \in 0..n : i < j => cut2[i] < cut2[j] /\ num2[i] <= num2[j]
  BY <1>13
<1>18. n \in Nat
  BY <1>8
<1>19. LayoutNext(n, cut2, num2)
  <2> HIDE DEF n
  <2> QED BY <1>14, <1>15, <1>16, <1>17, <1>18, <1>20 DEF LayoutNext, Layout, MessageNext, FillerNext
<1> QED BY <1>10, <1>11, <1>19 DEF OneMore

(* The reader is where it was. *)
LEMMA ReaderStays ==
  ASSUME FollowsInv, Typed', Extends, ~closed, UNCHANGED readerVars, side' = side,
         ends' \in Seq(Nat), Len(ends') = Len(wrote')
  PROVE  /\ Base' = Base /\ Placed' /\ FittingBodiesAreInspected'
         /\ InStep' => InStep
         /\ InStep => FramesAre'
<1>1. Typed /\ Placed /\ FittingBodiesAreInspected /\ (InStep => FramesAre)
  BY DEF FollowsInv
<1>2. got' = got /\ buf' = buf /\ mode' = mode /\ frames' = frames /\ peer' = peer
  BY DEF readerVars, Extends
<1>3. Base' = Base
  BY <1>2 DEF Base
<1>4. Placed'
  <2>1. Len(buf) <= Len(got) /\ \A i \in 1..Len(buf) : buf[i] = Stream[Base + i]
    BY <1>1 DEF Placed
  <2>2. \A i \in 1..Len(buf) : Base + i \in 1..Len(Stream)
    <3>1. Len(got) \in Nat /\ Len(buf) \in Nat /\ Len(got) <= Len(Stream) /\ Len(Stream) \in Nat
      BY <1>1, StreamIs
    <3> QED BY <2>1, <3>1 DEF Base
  <2>3. \A i \in 1..Len(buf) : Stream'[Base + i] = Stream[Base + i]
    BY <2>2 DEF Extends
  <2>4. \A i \in 1..Len(buf) : buf'[i] = Stream'[Base' + i]
    BY <1>2, <1>3, <2>1, <2>3
  <2> QED BY <1>2, <2>1, <2>4 DEF Placed
<1>5. FittingBodiesAreInspected'
  BY <1>1, <1>2 DEF FittingBodiesAreInspected
<1>6. Len(wrote) \in Nat /\ Len(wrote') \in Nat /\ DOMAIN wrote = 1..Len(wrote) /\ DOMAIN wrote' = 1..Len(wrote')
  BY <1>1 DEF Typed
<1>7. \A i \in DOMAIN wrote : i \in DOMAIN wrote' /\ wrote'[i] = wrote[i]
  BY <1>6 DEF Extends
<1>8. InStep' => InStep
  BY <1>2, <1>7 DEF InStep, Oversized
<1>9. InStep => FramesAre'
  <2> SUFFICES ASSUME InStep PROVE FramesAre'
    OBVIOUS
  <2>1. Bodied' = Bodied
    BY <1>2 DEF Bodied
  <2>2. \A i \in DOMAIN Bodied : i \in DOMAIN wrote /\ Bodied[i].raw = Encode(wrote[i], peer)
    BY <1>1 DEF FramesAre
  <2>3. \A i \in DOMAIN Bodied' : i \in DOMAIN wrote' /\ Bodied'[i].raw = Encode(wrote'[i], peer')
    BY <1>2, <1>7, <2>1, <2>2
  <2> QED BY <2>3 DEF FramesAre
<1> QED BY <1>3, <1>4, <1>5, <1>8, <1>9

(* Before the peer ends, the layout reaches to the end of the stream. *)
LEMMA NothingAfterLayout ==
  ASSUME Follows, ~closed
  PROVE  \E m \in Nat : \E cut \in [0..m -> Nat] : \E num \in [0..m -> Nat] :
           \E r \in 0..m : Layout(m, cut, num) /\ Len(Stream) = cut[m] /\ Reading(m, cut, num, r)
BY DEF Follows, Unfinished, Past

LEMMA FollowsOnePiece ==
  ASSUME FollowsInv, InStep, Typed', Extends, ~closed, UNCHANGED readerVars, side' = side,
         NEW a, NEW b, NEW q, Added(a, b, q)
  PROVE  Follows'
<1>1. Typed /\ Follows
  BY DEF FollowsInv
<1>2. PICK m \in Nat : \E cut \in [0..m -> Nat] : \E num \in [0..m -> Nat] :
           \E r \in 0..m : Layout(m, cut, num) /\ Len(Stream) = cut[m] /\ Reading(m, cut, num, r)
  BY <1>1, NothingAfterLayout
<1>3. PICK cut \in [0..m -> Nat], num \in [0..m -> Nat], r \in 0..m :
           Layout(m, cut, num) /\ Len(Stream) = cut[m] /\ Reading(m, cut, num, r)
  BY <1>2
<1> DEFINE n == m + 1
<1>4. PICK cut2 \in [0..n -> Nat], num2 \in [0..n -> Nat] :
           /\ LayoutNext(n, cut2, num2) /\ cut2[n] = b
           /\ \A j \in 0..m : cut2[j] = cut[j] /\ num2[j] = num[j]
  <2>1. Layout(m, cut, num) /\ cut[m] = a
    BY <1>3 DEF Added
  <2>2. OneMore(m, cut, num, b)
    BY <1>1, <2>1, OnePieceMore
  <2> QED BY <2>2 DEF OneMore
<1>5. Base' = Base /\ Bodied' = Bodied /\ peer' = peer
  BY DEF readerVars, Bodied, Base, Extends
<1>6. Reading(n, cut2, num2, r)'
  <2>1. r \in 0..n /\ (r < m => r + 1 \in 0..m) /\ (r < m => r < n)
    OBVIOUS
  <2>2. Len(Bodied) = num[r] /\ cut[r] <= Base /\ (Base # cut[r] => r < m /\ peer = NewlineMode /\ num[r + 1] = num[r] /\ Base < cut[r + 1])
    BY <1>3 DEF Reading
  <2>3. cut2[r] = cut[r] /\ num2[r] = num[r] /\ (r < m => cut2[r + 1] = cut[r + 1] /\ num2[r + 1] = num[r + 1])
    BY <1>4, <2>1
  <2> HIDE DEF n
  <2> QED BY <1>5, <2>1, <2>2, <2>3 DEF Reading
<1>7. Unfinished(cut2[n])'
  BY <1>4 DEF Unfinished, Added
<1>8. n \in Nat
  OBVIOUS
<1> HIDE DEF n
<1>9. r \in 0..n
  BY <1>6 DEF Reading
<1> QED BY <1>4, <1>6, <1>7, <1>8, <1>9 DEF Follows, LayoutNext

(* What the peer's bytes tell of its mode. *)
LEMMA ModeStaysKnown ==
  ASSUME Typed, Typed', ModeKnown, Extends, UNCHANGED readerVars,
         NEW x \in Seq(Tokens), Stream' = Stream \o x, Len(Stream') = Len(Stream) + Len(x),
         \A i \in 1..Len(x) : Stream'[Len(Stream) + i] = x[i],
         peer = NewlineMode => \A i \in 1..Len(x) : ~IsLenLine(x[i]),
         peer = LengthMode /\ Len(Stream) = 0 /\ Len(x) > 0 => IsLenLine(x[1]),
         wrote' # <<>> => Len(Stream) + Len(x) > 0
  PROVE  ModeKnown'
<1>1. mode' = mode /\ got' = got /\ buf' = buf /\ peer' = peer
  BY DEF readerVars, Extends
<1>2. Len(Stream) \in Nat /\ Len(x) \in Nat /\ \A i \in 1..Len(Stream) : Stream'[i] = Stream[i]
  BY DEF Extends
<1>3. ASSUME peer = NewlineMode, NEW i \in 1..Len(Stream') PROVE ~IsLenLine(Stream'[i])
  <2>1. CASE i <= Len(Stream)
    <3>1. i \in 1..Len(Stream)
      BY <1>2, <2>1
    <3> QED BY <1>2, <1>3, <3>1 DEF ModeKnown
  <2>2. CASE ~(i <= Len(Stream))
    <3>1. i - Len(Stream) \in 1..Len(x) /\ Len(Stream) + (i - Len(Stream)) = i
      BY <1>2, <2>2
    <3>2. Stream'[i] = x[i - Len(Stream)]
      BY <3>1
    <3> QED BY <1>3, <3>1, <3>2
  <2> QED BY <2>1, <2>2
<1>4. ASSUME peer = LengthMode, Len(Stream') > 0 PROVE IsLenLine(Stream'[1])
  <2>1. CASE Len(Stream) > 0
    <3>1. 1 \in 1..Len(Stream)
      BY <1>2, <2>1
    <3> QED BY <1>2, <1>4, <2>1, <3>1 DEF ModeKnown
  <2>2. CASE ~(Len(Stream) > 0)
    <3>1. Len(Stream) = 0 /\ Len(x) > 0 /\ 1 \in 1..Len(x) /\ Len(Stream) + 1 = 1
      BY <1>2, <1>4, <2>2
    <3>2. Stream'[1] = x[1]
      BY <3>1
    <3> QED BY <1>4, <3>1, <3>2
  <2> QED BY <2>1, <2>2
<1> QED BY <1>1, <1>3, <1>4 DEF ModeKnown

LEMMA WriteFollows ==
  ASSUME FollowsInv, Typed', NEW body \in Bodies, Write(body)
  PROVE  FollowsInv'
<1>1. Typed /\ Placed /\ ModeKnown
  BY DEF FollowsInv
<1>2. PICK x : x = Encode(body, peer)
  OBVIOUS
<1>3. /\ ~closed /\ Sendable(body) /\ wrote' = Append(wrote, body) /\ pipe' = pipe \o x
      /\ ends' = Append(ends, Len(got) + Len(pipe'))
      /\ UNCHANGED <<peer, side, noise, closed>> /\ UNCHANGED readerVars
  BY <1>2 DEF Write
<1>4. x \in Seq(Tokens) /\ Len(x) \in Nat /\ Len(x) > 0 /\ peer \in {NewlineMode, LengthMode}
  <2>1. peer \in {NewlineMode, LengthMode}
    BY <1>1 DEF Typed
  <2>2. CASE peer = NewlineMode
    <3>1. x \in Seq(Tokens) /\ Len(x) = Len(body) + 1 /\ Len(body) \in Nat
      BY <1>2, <2>2, EncodedIs
    <3> QED BY <2>1, <3>1
  <2>3. CASE peer = LengthMode
    <3>1. x \in Seq(Tokens) /\ Len(x) = Len(body) + 3 /\ Len(body) \in Nat
      BY <1>2, <2>3, EncodedIs
    <3> QED BY <2>1, <3>1
  <2> QED BY <2>1, <2>2, <2>3
<1>5. got' = got
  BY <1>3 DEF readerVars
<1>6. /\ Stream' = Stream \o x /\ Len(Stream') = Len(Stream) + Len(x)
      /\ \A i \in 1..Len(Stream) : Stream'[i] = Stream[i]
      /\ \A i \in 1..Len(x) : Stream'[Len(Stream) + i] = x[i]
  BY <1>1, <1>3, <1>4, <1>5, StreamGrows
<1>7. Len(Stream) \in Nat /\ Len(got) \in Nat /\ Len(pipe) \in Nat /\ Len(Stream) = Len(got) + Len(pipe)
  BY <1>1, StreamIs
<1>8. Len(pipe') = Len(pipe) + Len(x)
  BY <1>1, <1>3, <1>4, ConcatProperties DEF Typed
<1> DEFINE q == Len(wrote) + 1
<1>9. /\ wrote \in Seq(Bodies) /\ Len(wrote) \in Nat /\ ends \in Seq(Nat) /\ Len(ends) = Len(wrote)
      /\ Len(wrote') = q /\ wrote'[q] = body /\ \A i \in 1..Len(wrote) : wrote'[i] = wrote[i]
  BY <1>1, <1>3 DEF Typed, Placed
<1>10. /\ ends' \in Seq(Nat) /\ Len(ends') = Len(wrote') /\ ends'[q] = Len(Stream')
       /\ \A i \in 1..Len(wrote) : ends'[i] = ends[i]
  <2>1. Len(got) + Len(pipe') = Len(Stream') /\ Len(Stream') \in Nat
    BY <1>4, <1>6, <1>7, <1>8
  <2> QED BY <1>3, <1>9, <2>1
<1>11. Extends
  <2>1. Len(wrote) <= Len(wrote')
    BY <1>9
  <2> QED BY <1>3, <1>4, <1>6, <1>7, <1>9, <1>10, <2>1 DEF Extends
<1>12. /\ Placed' /\ FittingBodiesAreInspected' /\ (InStep' => InStep) /\ (InStep => FramesAre')
  BY <1>3, <1>10, <1>11, ReaderStays
<1>13. ModeKnown'
  <2>1. peer = NewlineMode => \A i \in 1..Len(x) : ~IsLenLine(x[i])
    <3> SUFFICES ASSUME peer = NewlineMode, NEW i \in 1..Len(x) PROVE ~IsLenLine(x[i])
      OBVIOUS
    <3>1. /\ Len(body) \in Nat /\ Len(x) = Len(body) + 1 /\ x[Len(body) + 1] = LF
          /\ \A j \in 1..Len(body) : x[j] = body[j]
      BY <1>2, EncodedIs
    <3>2. i \in 1..Len(body) \/ i = Len(body) + 1
      BY <1>4, <3>1
    <3>3. \A j \in 1..Len(body) : ~IsLenLine(body[j])
      <4>1. body \in Seq(Tokens)
        BY PeersSendTokens
      <4> QED BY <4>1, PeersSendMessages
    <3> QED BY <3>1, <3>2, <3>3, TokensDiffer
  <2>2. peer = LengthMode => IsLenLine(x[1])
    BY <1>2, EncodedIs, TokensDiffer
  <2>3. Len(Stream) + Len(x) > 0
    BY <1>4, <1>7
  <2> QED BY <1>1, <1>3, <1>4, <1>6, <1>11, <2>1, <2>2, <2>3, ModeStaysKnown
<1>14. InStep => Follows'
  <2> SUFFICES ASSUME InStep PROVE Follows'
    OBVIOUS
  <2>1. PICK a, b, n : a = Len(Stream) /\ b = Len(Stream') /\ n = q
    OBVIOUS
  <2>2. a < b /\ a \in Nat /\ b = a + Len(x) /\ n \in 1..n
    BY <1>4, <1>6, <1>7, <1>9, <2>1
  <2>3. wrote'[n] = body /\ Encode(wrote'[n], peer') = x /\ Len(wrote') = n /\ ends'[n] = b /\ peer' = peer
    BY <1>2, <1>3, <1>9, <1>10, <2>1
  <2>4. Sendable(body)'
    BY <1>3 DEF Sendable
  <2>5. a + Len(x) <= Len(Stream') /\ \A i \in 1..Len(x) : Stream'[a + i] = x[i]
    BY <1>6, <2>1, <2>2
  <2>6. MessageNext(a, b, n)
    BY <2>2, <2>3, <2>4, <2>5 DEF MessageNext, Message, At, Sendable
  <2>7. Added(a, b, n)
    BY <2>1, <2>2, <2>3, <2>6 DEF Added
  <2> QED BY <1>3, <1>11, <2>7, FollowsOnePiece
<1> QED BY <1>12, <1>13, <1>14 DEF FollowsInv

LEMMA NoiseFollows ==
  ASSUME FollowsInv, Typed', NEW x \in Noise, WriteNoise(x)
  PROVE  FollowsInv'
<1>1. Typed /\ Placed /\ ModeKnown
  BY DEF FollowsInv
<1>2. /\ ~closed /\ wrote # <<>> /\ (peer = NewlineMode) = AllBlank(x) /\ pipe' = pipe \o x
      /\ UNCHANGED <<peer, side, wrote, ends, closed>> /\ UNCHANGED readerVars
  BY DEF WriteNoise
<1>3. x \in Seq(Tokens) /\ Len(x) \in Nat /\ Len(x) > 0 /\ peer \in {NewlineMode, LengthMode}
  <2>1. x \in Seq(Tokens)
    BY PeersSendTokens
  <2>2. CASE AllBlank(x)
    <3>1. x # <<>>
      BY <2>2, PeersSendMessages DEF BlankLines
    <3> QED BY <1>1, <2>1, <3>1 DEF Typed
  <2>3. CASE ~AllBlank(x)
    <3>1. Len(x) > 1
      BY <2>3, PeersSendMessages DEF HeaderBlock
    <3> QED BY <1>1, <2>1, <3>1 DEF Typed
  <2> QED BY <2>2, <2>3
<1>4. got' = got
  BY <1>2 DEF readerVars
<1>5. /\ Stream' = Stream \o x /\ Len(Stream') = Len(Stream) + Len(x)
      /\ \A i \in 1..Len(Stream) : Stream'[i] = Stream[i]
      /\ \A i \in 1..Len(x) : Stream'[Len(Stream) + i] = x[i]
  BY <1>1, <1>2, <1>3, <1>4, StreamGrows
<1>6. Len(Stream) \in Nat /\ Len(Stream) > 0
  BY <1>1, <1>2, StreamIs DEF ModeKnown
<1>7. ends' \in Seq(Nat) /\ Len(ends') = Len(wrote') /\ Len(wrote) \in Nat
  BY <1>1, <1>2 DEF Placed, Typed
<1>8. Extends
  <2>1. Len(wrote) <= Len(wrote')
    BY <1>2, <1>7
  <2> QED BY <1>2, <1>3, <1>5, <1>6, <2>1 DEF Extends
<1>9. /\ Placed' /\ FittingBodiesAreInspected' /\ (InStep' => InStep) /\ (InStep => FramesAre')
  BY <1>2, <1>7, <1>8, ReaderStays
<1>10. ModeKnown'
  <2>1. peer = NewlineMode => \A i \in 1..Len(x) : ~IsLenLine(x[i])
    <3> SUFFICES ASSUME peer = NewlineMode, NEW i \in 1..Len(x) PROVE ~IsLenLine(x[i])
      OBVIOUS
    <3>1. AllBlank(x)
      BY <1>2
    <3>2. i \in DOMAIN x
      BY <1>3
    <3>3. IsBlank(x[i])
      BY <3>1, <3>2 DEF AllBlank
    <3> QED BY <3>3, TokensDiffer
  <2>2. Len(Stream) # 0 /\ Len(Stream) + Len(x) > 0
    BY <1>3, <1>6
  <2> QED BY <1>1, <1>2, <1>3, <1>5, <1>8, <2>1, <2>2, ModeStaysKnown
<1>11. InStep => Follows'
  <2> SUFFICES ASSUME InStep PROVE Follows'
    OBVIOUS
  <2>1. PICK a, b, n : a = Len(Stream) /\ b = Len(Stream') /\ n = Len(wrote)
    OBVIOUS
  <2>2. a < b /\ a \in Nat /\ b = a + Len(x)
    BY <1>3, <1>5, <1>6, <2>1
  <2>3. a + Len(x) <= Len(Stream') /\ \A i \in 1..Len(x) : Stream'[a + i] = x[i]
    BY <1>5, <2>1, <2>2
  <2>4. FillerNext(a, b)
    BY <1>2, <2>2, <2>3 DEF FillerNext, Filler, At
  <2>5. Added(a, b, n)
    BY <1>2, <2>1, <2>2, <2>4 DEF Added
  <2> QED BY <1>2, <1>8, <2>5, FollowsOnePiece
<1> QED BY <1>9, <1>10, <1>11 DEF FollowsInv

LEMMA CloseFollows ==
  ASSUME FollowsInv, Typed', Close
  PROVE  FollowsInv'
<1>1. Typed /\ Placed /\ ModeKnown
  BY DEF FollowsInv
<1>2. /\ ~closed /\ closed' /\ UNCHANGED <<peer, side, wrote, ends, noise>> /\ UNCHANGED readerVars
      /\ peer \in {NewlineMode, LengthMode}
  BY <1>1 DEF Close, Typed
<1>3. PICK x \in Seq(Tokens) :
        /\ pipe' = pipe \o x
        /\ \/ Len(x) = 0
           \/ \E body \in Bodies : \E n \in 1..(Len(Encode(body, peer)) - 1) :
                /\ Sendable(body) /\ Len(x) = n /\ \A i \in 1..n : x[i] = Encode(body, peer)[i]
  <2>1. CASE pipe' = pipe
    <3>1. <<>> \in Seq(Tokens) /\ Len(<<>>) = 0
      OBVIOUS
    <3>2. pipe \o <<>> = pipe
      BY <1>1, ConcatEmptySeq DEF Typed
    <3> QED BY <2>1, <3>1, <3>2
  <2>2. ASSUME NEW body \in Bodies, NEW n \in 1..(Len(Encode(body, peer)) - 1), Sendable(body),
               pipe' = pipe \o Take(Encode(body, peer), n)
        PROVE  \E y \in Seq(Tokens) :
                 /\ pipe' = pipe \o y
                 /\ \/ Len(y) = 0
                    \/ \E w \in Bodies : \E k \in 1..(Len(Encode(w, peer)) - 1) :
                         /\ Sendable(w) /\ Len(y) = k /\ \A i \in 1..k : y[i] = Encode(w, peer)[i]
    <3>1. PICK e \in Seq(Tokens) : e = Encode(body, peer)
      BY EncodedIsBytes
    <3>2. n \in 0..Len(e)
      BY <2>2, <3>1
    <3>3. Take(e, n) \in Seq(Tokens) /\ Len(Take(e, n)) = n /\ \A i \in 1..n : Take(e, n)[i] = e[i]
      BY <3>2, TakeAndDrop
    <3>4. PICK y \in Seq(Tokens) : y = Take(e, n)
      BY <3>3
    <3>5. Sendable(body) /\ Len(y) = n /\ \A i \in 1..n : y[i] = Encode(body, peer)[i]
      BY <2>2, <3>1, <3>3, <3>4
    <3>6. pipe' = pipe \o y
      BY <2>2, <3>1, <3>4
    <3>7. \E w \in Bodies : \E k \in 1..(Len(Encode(w, peer)) - 1) :
             /\ Sendable(w) /\ Len(y) = k /\ \A i \in 1..k : y[i] = Encode(w, peer)[i]
      BY <3>5
    <3> QED BY <3>4, <3>6, <3>7
  <2>3. \/ pipe' = pipe
        \/ \E body \in Bodies : \E n \in 1..(Len(Encode(body, peer)) - 1) :
             Sendable(body) /\ pipe' = pipe \o Take(Encode(body, peer), n)
    BY DEF Close
  <2> QED BY <2>1, <2>2, <2>3
<1>4. got' = got /\ Len(x) \in Nat
  BY <1>2 DEF readerVars
<1>5. /\ Stream' = Stream \o x /\ Len(Stream') = Len(Stream) + Len(x)
      /\ \A i \in 1..Len(Stream) : Stream'[i] = Stream[i]
      /\ \A i \in 1..Len(x) : Stream'[Len(Stream) + i] = x[i]
  BY <1>1, <1>3, <1>4, StreamGrows
<1>6. Len(Stream) \in Nat
  BY <1>1, StreamIs
<1>7. ends' \in Seq(Nat) /\ Len(ends') = Len(wrote') /\ Len(wrote) \in Nat
  BY <1>1, <1>2 DEF Placed, Typed
<1>8. Extends
  <2>1. Len(wrote) <= Len(wrote')
    BY <1>2, <1>7
  <2> QED BY <1>2, <1>4, <1>5, <1>6, <2>1 DEF Extends
<1>9. /\ Placed' /\ FittingBodiesAreInspected' /\ (InStep' => InStep) /\ (InStep => FramesAre')
  BY <1>2, <1>7, <1>8, ReaderStays
<1>10. ModeKnown'
  <2>1. ASSUME Len(x) # 0
        PROVE  \E body \in Bodies : /\ Len(x) <= Len(Encode(body, peer)) - 1
                                    /\ \A i \in 1..Len(x) : x[i] = Encode(body, peer)[i]
    <3>1. PICK body \in Bodies : \E n \in 1..(Len(Encode(body, peer)) - 1) :
                 Len(x) = n /\ \A i \in 1..n : x[i] = Encode(body, peer)[i]
      BY <1>3, <2>1
    <3>2. PICK n \in 1..(Len(Encode(body, peer)) - 1) :
                 Len(x) = n /\ \A i \in 1..n : x[i] = Encode(body, peer)[i]
      BY <3>1
    <3>3. n <= Len(Encode(body, peer)) - 1
      BY EncodedIsBytes
    <3> QED BY <3>2, <3>3
  <2>2. peer = NewlineMode => \A i \in 1..Len(x) : ~IsLenLine(x[i])
    <3> SUFFICES ASSUME peer = NewlineMode, NEW i \in 1..Len(x) PROVE ~IsLenLine(x[i])
      OBVIOUS
    <3>1. PICK body \in Bodies : /\ Len(x) <= Len(Encode(body, peer)) - 1
                                 /\ \A j \in 1..Len(x) : x[j] = Encode(body, peer)[j]
      BY <1>4, <2>1
    <3>2. /\ Len(body) \in Nat /\ Len(Encode(body, peer)) = Len(body) + 1
          /\ \A j \in 1..Len(body) : Encode(body, peer)[j] = body[j]
      BY EncodedIs
    <3>3. i \in 1..Len(body)
      BY <1>4, <3>1, <3>2
    <3>4. body \in Seq(Tokens)
      BY PeersSendTokens
    <3> QED BY <3>1, <3>2, <3>3, <3>4, PeersSendMessages
  <2>3. peer = LengthMode /\ Len(x) > 0 => IsLenLine(x[1])
    <3> SUFFICES ASSUME peer = LengthMode, Len(x) > 0 PROVE IsLenLine(x[1])
      OBVIOUS
    <3>1. PICK body \in Bodies : /\ Len(x) <= Len(Encode(body, peer)) - 1
                                 /\ \A j \in 1..Len(x) : x[j] = Encode(body, peer)[j]
      BY <1>4, <2>1
    <3>2. Encode(body, peer)[1] = LenOf(Len(body)) /\ 1 \in 1..Len(x)
      BY <1>4, EncodedIs
    <3> QED BY <3>1, <3>2, TokensDiffer
  <2>4. wrote' # <<>> => Len(Stream) + Len(x) > 0
    BY <1>1, <1>2, <1>4, <1>6 DEF ModeKnown
  <2> QED BY <1>1, <1>2, <1>5, <1>8, <2>2, <2>3, <2>4, ModeStaysKnown
<1>11. InStep => Follows'
  <2> SUFFICES ASSUME InStep PROVE Follows'
    OBVIOUS
  <2>1. PICK m \in Nat : \E cut \in [0..m -> Nat] : \E num \in [0..m -> Nat] :
           \E r \in 0..m : Layout(m, cut, num) /\ Len(Stream) = cut[m] /\ Reading(m, cut, num, r)
    BY <1>2, NothingAfterLayout DEF FollowsInv
  <2>2. PICK cut \in [0..m -> Nat], num \in [0..m -> Nat], r \in 0..m :
           Layout(m, cut, num) /\ Len(Stream) = cut[m] /\ Reading(m, cut, num, r)
    BY <2>1
  <2>3. Layout(m, cut, num)'
    BY <1>1, <1>2, <1>8, <2>2, LayoutStays
  <2>4. Reading(m, cut, num, r)'
    BY <1>2, <2>2 DEF Reading, Base, Bodied, readerVars
  <2>5. Unfinished(cut[m])'
    <3>1. CASE Len(x) = 0
      BY <1>5, <1>6, <2>2, <3>1 DEF Unfinished
    <3>2. ASSUME NEW body \in Bodies, NEW n \in 1..(Len(Encode(body, peer)) - 1),
                 Sendable(body), Len(x) = n, \A i \in 1..n : x[i] = Encode(body, peer)[i]
          PROVE  Unfinished(cut[m])'
      <4>1. Len(Stream') = cut[m] + n /\ \A i \in 1..n : Stream'[cut[m] + i] = Encode(body, peer')[i]
        BY <1>2, <1>5, <2>2, <3>2
      <4>2. Sendable(body)' /\ n \in 1..(Len(Encode(body, peer')) - 1)
        BY <1>2, <3>2 DEF Sendable
      <4> QED BY <1>2, <4>1, <4>2 DEF Unfinished, Sendable
    <3> QED BY <1>3, <3>1, <3>2
  <2> QED BY <2>3, <2>4, <2>5 DEF Follows
<1> QED BY <1>9, <1>10, <1>11 DEF FollowsInv

-----------------------------------------------------------------------------
(* The reader's steps.                                                     *)

LEMMA DropIs ==
  ASSUME NEW s \in Seq(Tokens), NEW n \in 0..Len(s)
  PROVE  /\ Drop(s, n) \in Seq(Tokens) /\ Len(Drop(s, n)) = Len(s) - n
         /\ \A i \in 1..(Len(s) - n) : Drop(s, n)[i] = s[n + i]
<1> DEFINE d == SubSeq(s, n + 1, Len(s))
<1>1. Len(s) \in Nat /\ n + 1 \in Int /\ Len(s) \in Int
  OBVIOUS
<1>2. \A i \in (n + 1)..Len(s) : s[i] \in Tokens
  OBVIOUS
<1>3. /\ d \in Seq(Tokens) /\ Len(d) = IF n + 1 <= Len(s) THEN Len(s) - (n + 1) + 1 ELSE 0
      /\ \A i \in 1..(Len(s) - (n + 1) + 1) : d[i] = s[(n + 1) + i - 1]
  BY <1>1, <1>2, SubSeqProperties
<1> HIDE DEF d
<1>4. Len(s) - (n + 1) + 1 = Len(s) - n /\ \A i \in 1..(Len(s) - n) : (n + 1) + i - 1 = n + i
  BY <1>1
<1>5. Len(d) = Len(s) - n
  <2>1. n + 1 <= Len(s) \/ Len(s) - n = 0
    BY <1>1
  <2>2. CASE n + 1 <= Len(s)
    BY <1>3, <1>4, <2>2
  <2>3. CASE ~(n + 1 <= Len(s))
    BY <1>3, <2>1, <2>3
  <2> QED BY <2>2, <2>3
<1> QED BY <1>3, <1>4, <1>5 DEF Drop, d

(* A header declares at most one length, and only up to the cap. *)
LEMMA AcceptsOne ==
  ASSUME NEW h \in Seq(Tokens), Accepted(h) # {}
  PROVE  \E n \in Nat : n <= Cap /\ Accepted(h) = {n}
<1>1. PICK n \in Accepted(h) : TRUE
  OBVIOUS
<1>2. n \in Declared(h) /\ n <= Cap
  BY <1>1 DEF Accepted
<1>3. PICK i \in LenLines(h) : LenLines(h) = {i}
  BY <1>1 DEF Accepted
<1>4. \A k \in Declared(h) : k = h[i][2]
  BY <1>3 DEF Declared
<1>5. Accepted(h) \subseteq Declared(h)
  BY DEF Accepted
<1>6. n \in Nat
  <2>1. i \in DOMAIN h
    BY DEF LenLines, LineStarts
  <2>2. h[i] \in Tokens
    BY <2>1
  <2>3. n = h[i][2]
    BY <1>2, <1>4
  <2> QED BY <2>2, <2>3 DEF Tokens
<1>7. Accepted(h) = {n}
  BY <1>1, <1>2, <1>4, <1>5
<1> QED BY <1>2, <1>6, <1>7

(* In Content-Length mode a frame with a body has one that fits the cap. *)
LEMMA LengthDecision ==
  ASSUME Typed, Mode = LengthMode
  PROVE  \/ Decision = More \/ Decision = NoneLeft
         \/ \E take \in 0..Len(buf) : \E body : \E marked \in BOOLEAN :
              /\ Decision = Return(take, body, marked)
              /\ body = <<>> \/ (marked = FALSE /\ Len(body) <= Cap)
<1>1. buf \in Seq(Tokens) /\ eof \in BOOLEAN /\ Len(buf) \in Nat /\ Len(buf) \in 0..Len(buf) /\ FALSE \in BOOLEAN
  BY DEF Typed
<1>2. CASE \A i \in 1..(Len(buf) - 1) : ~Pair(buf, i)
  <2>1. Decision = IF ~eof THEN More ELSE IF buf = <<>> THEN NoneLeft ELSE Return(Len(buf), <<>>, FALSE)
    BY <1>1, <1>2, LengthWithoutSeparator
  <2> QED BY <1>1, <2>1
<1>3. CASE \E i \in 1..(Len(buf) - 1) : Pair(buf, i)
  <2> DEFINE P == {i \in 1..(Len(buf) - 1) : Pair(buf, i)}
  <2>1. P # {} /\ P \subseteq Nat
    BY <1>1, <1>3
  <2>2. PICK k \in P : \A j \in P : k <= j
    <3> HIDE DEF P
    <3> QED BY <2>1, Least
  <2>3. SepAt(k) /\ k \in Nat /\ k + 1 \in 0..Len(buf) /\ k - 1 \in 0..Len(buf)
    <3>1. \A i \in 1..(k - 1) : ~(k <= i) /\ i \in 1..(Len(buf) - 1)
      BY <1>1, <2>2
    <3> QED BY <1>1, <2>2, <3>1 DEF SepAt
  <2> HIDE DEF P
  <2> DEFINE header == Take(buf, k - 1)
  <2>4. header \in Seq(Tokens)
    BY <1>1, <2>3, TakeAndDrop
  <2>5. /\ Accepted(header) = {} => Decision = Return(k + 1, <<>>, DeclaresOverCap(header))
        /\ \A n \in Nat : Accepted(header) = {n} =>
              Decision = IF Len(buf) >= k + 1 + n
                         THEN Return(k + 1 + n, SubSeq(buf, k + 2, k + 1 + n), FALSE)
                         ELSE IF eof THEN Return(Len(buf), <<>>, FALSE) ELSE More
    BY <1>1, <2>3, LengthWithSeparator
  <2> HIDE DEF header
  <2>6. CASE Accepted(header) = {}
    <3>1. DeclaresOverCap(header) \in BOOLEAN
      BY DEF DeclaresOverCap
    <3> QED BY <2>3, <2>5, <2>6, <3>1
  <2>7. CASE Accepted(header) # {}
    <3>1. PICK n \in Nat : n <= Cap /\ Accepted(header) = {n}
      BY <2>4, <2>7, AcceptsOne
    <3>2. Decision = IF Len(buf) >= k + 1 + n
                         THEN Return(k + 1 + n, SubSeq(buf, k + 2, k + 1 + n), FALSE)
                         ELSE IF eof THEN Return(Len(buf), <<>>, FALSE) ELSE More
      BY <2>5, <3>1
    <3>3. CASE Len(buf) >= k + 1 + n
      <4> DEFINE b == SubSeq(buf, k + 2, k + 1 + n)
      <4>1. Len(b) = n
        <5>1. k + 2 \in Int /\ k + 1 + n \in Int /\ \A i \in (k + 2)..(k + 1 + n) : i \in 1..Len(buf)
          BY <1>1, <2>3, <3>1, <3>3
        <5>2. \A i \in (k + 2)..(k + 1 + n) : buf[i] \in Tokens
          BY <1>1, <5>1
        <5>3. Len(b) = IF k + 2 <= k + 1 + n THEN (k + 1 + n) - (k + 2) + 1 ELSE 0
          BY <5>1, <5>2, SubSeqProperties
        <5> HIDE DEF b
        <5> QED BY <2>3, <3>1, <5>3
      <4>2. k + 1 + n \in 0..Len(buf)
        BY <1>1, <2>3, <3>1, <3>3
      <4>3. Decision = Return(k + 1 + n, b, FALSE) /\ Len(b) <= Cap
        BY <3>1, <3>2, <3>3, <4>1
      <4> HIDE DEF b
      <4> QED BY <1>1, <4>2, <4>3
    <3>4. CASE ~(Len(buf) >= k + 1 + n)
      BY <1>1, <3>2, <3>4
    <3> QED BY <3>3, <3>4
  <2> QED BY <2>6, <2>7
<1> QED BY <1>2, <1>3

(* What is returned, skipped, ended or asked for. *)
LEMMA OutcomesDiffer ==
  /\ More.do = "fill" /\ NoneLeft.do = "end"
  /\ \A take : Outcome("skip", take, <<>>).do = "skip" /\ Outcome("skip", take, <<>>).take = take
  /\ \A take, body, marked :
       /\ Return(take, body, marked).do = "frame" /\ Return(take, body, marked).take = take
       /\ Return(take, body, marked).frame = <<Frame(Take(buf, take), body, marked)>>
BY DEF More, NoneLeft, Outcome, Return, OriginalBytes

LEMMA NothingIsNoMessage == <<>> \notin Bodies
<1>1. AllBlank(<<>>)
  BY DEF AllBlank
<1> QED BY <1>1, PeersSendMessages

-----------------------------------------------------------------------------
(* What the reader does with the piece it is at.                           *)

GivesMessage(m, cut, num, r) ==
  /\ r < m /\ num[r + 1] = num[r] + 1 /\ Base = cut[r] /\ cut[r + 1] - cut[r] <= Len(buf)
  /\ Decision = Return(cut[r + 1] - cut[r], wrote[num[r + 1]], FALSE)
GivesBlock(m, cut, num, r) ==
  /\ r < m /\ num[r + 1] = num[r] /\ Base = cut[r] /\ cut[r + 1] - cut[r] <= Len(buf)
  /\ \E marked \in BOOLEAN : Decision = Return(cut[r + 1] - cut[r], <<>>, marked)
SkipsBlanks(m, cut, num, r) ==
  /\ r < m /\ num[r + 1] = num[r] /\ peer = NewlineMode
  /\ \E take \in 1..Len(buf) : Base + take <= cut[r + 1] /\ Decision = Outcome("skip", take, <<>>)
GivesRest(m, r) ==
  r = m /\ closed /\ eof /\ \E body \in {<<>>, buf} : Decision = Return(Len(buf), body, FALSE)
DropsHeader(m, r) ==
  /\ r = m /\ closed /\ peer = LengthMode /\ Mode = LengthMode /\ Len(buf) >= 3
  /\ \E marked \in BOOLEAN : Decision = Return(3, <<>>, marked)
  /\ \A i \in 1..Len(Stream) : i > Base + 3 => ~IsLenLine(Stream[i])
Ends(num, r) == eof /\ Decision = NoneLeft /\ num[r] = Len(wrote)
Waits(m, cut, r) == ~eof /\ Decision = More /\ (r < m => Len(got) < cut[r + 1])

LEMMA BufferIs ==
  ASSUME Typed, Placed
  PROVE  /\ Base \in Nat /\ Len(buf) \in Nat /\ Len(got) = Base + Len(buf)
         /\ \A i \in 1..Len(buf) : buf[i] = Stream[Base + i]
         /\ buf \in Seq(Tokens) /\ eof \in BOOLEAN /\ peer \in {NewlineMode, LengthMode}
<1>1. Len(got) \in Nat /\ Len(buf) \in Nat /\ Len(buf) <= Len(got)
  BY StreamIs DEF Placed
<1>2. Base \in Nat /\ Len(got) = Base + Len(buf)
  BY <1>1 DEF Base
<1> QED BY <1>1, <1>2 DEF Placed, Typed

LEMMA UndetectedDecides ==
  ASSUME Mode = Undetected
  PROVE  Decision = IF eof THEN NoneLeft ELSE More
BY DEF Decision, Undetected, NewlineMode, LengthMode

LEMMA EmptyDecides ==
  ASSUME Typed, Placed, ModeKnown, buf = <<>>
  PROVE  Decision = IF eof THEN NoneLeft ELSE More
<1>1. Mode \in {Undetected, NewlineMode, LengthMode} /\ buf \in Seq(Tokens) /\ eof \in BOOLEAN /\ Len(buf) = 0
  BY ModeIs DEF Typed
<1>2. CASE Mode = Undetected
  BY <1>2, UndetectedDecides
<1>3. CASE Mode = LengthMode
  <2>1. \A i \in 1..(Len(buf) - 1) : ~Pair(buf, i)
    BY <1>1
  <2> QED BY <1>1, <1>3, <2>1, LengthWithoutSeparator
<1>4. CASE Mode = NewlineMode
  <2>1. \A i \in 1..Len(buf) : buf[i] \notin LineEnds
    BY <1>1
  <2>2. AllBlank(buf)
    BY DEF AllBlank
  <2> QED BY <1>1, <1>4, <2>1, <2>2, NewlineWithoutEnd
<1> QED BY <1>1, <1>2, <1>3, <1>4

LEMMA LayoutIs ==
  ASSUME NEW m, NEW cut, NEW num, Layout(m, cut, num), NEW r \in 0..m
  PROVE  /\ m \in Nat /\ cut[r] \in Nat /\ num[r] \in Nat /\ num[m] = Len(wrote)
         /\ cut[r] <= cut[m] /\ cut[m] <= Len(Stream) /\ cut[m] \in Nat
         /\ r < m => /\ r + 1 \in 0..m /\ cut[r + 1] \in Nat /\ num[r + 1] \in Nat
                     /\ cut[r] < cut[r + 1] /\ cut[r + 1] <= cut[m]
                     /\ cut[r + 1] < cut[m] \/ r + 1 = m
                     /\ \/ num[r + 1] = num[r] + 1 /\ Message(cut[r], cut[r + 1], num[r + 1])
                        \/ num[r + 1] = num[r] /\ Filler(cut[r], cut[r + 1])
<1>1. m \in Nat /\ cut \in [0..m -> Nat] /\ num \in [0..m -> Nat] /\ num[m] = Len(wrote) /\ cut[m] <= Len(Stream)
  BY DEF Layout
<1>2. \A j, k \in 0..m : j < k => cut[j] < cut[k]
  BY DEF Layout
<1>3. m \in 0..m /\ \A j \in 0..m : cut[j] \in Nat /\ num[j] \in Nat
  BY <1>1
<1>4. \A j \in 0..m : cut[j] <= cut[m] /\ (cut[j] < cut[m] \/ j = m)
  <2> TAKE j \in 0..m
  <2>1. j < m \/ j = m
    BY <1>1
  <2> QED BY <1>2, <1>3, <2>1
<1>5. r < m => r + 1 \in 0..m /\ r < r + 1 /\ r \in 0..(m - 1)
  BY <1>1
<1>6. r < m => \/ num[r + 1] = num[r] + 1 /\ Message(cut[r], cut[r + 1], num[r + 1])
               \/ num[r + 1] = num[r] /\ Filler(cut[r], cut[r + 1])
  BY <1>5 DEF Layout
<1>7. r < m => cut[r] < cut[r + 1]
  BY <1>2, <1>5
<1> QED BY <1>1, <1>3, <1>4, <1>5, <1>6, <1>7

LEMMA AtMessage ==
  ASSUME Typed, Placed, ModeKnown, InStep, NEW m, NEW cut, NEW num, Layout(m, cut, num),
         NEW r, Reading(m, cut, num, r), r < m, num[r + 1] = num[r] + 1
  PROVE  GivesMessage(m, cut, num, r) \/ Waits(m, cut, r)
<1> DEFINE i == num[r + 1]
           w == wrote[i]
           e == Encode(w, peer)
           size == cut[r + 1] - cut[r]
<1>1. r \in 0..m /\ num[r] \in Nat /\ Base = cut[r]
  <2>1. r \in 0..m /\ (Base # cut[r] => num[r + 1] = num[r])
    BY DEF Reading
  <2>2. num[r] \in Nat
    BY <2>1, LayoutIs
  <2> QED BY <2>1, <2>2
<1>2. /\ cut[r] \in Nat /\ cut[r + 1] \in Nat /\ cut[r] < cut[r + 1] /\ cut[r + 1] <= Len(Stream)
      /\ Message(cut[r], cut[r + 1], i)
  <2>1. /\ cut[r] \in Nat /\ cut[r + 1] \in Nat /\ cut[r] < cut[r + 1]
        /\ cut[r + 1] <= cut[m] /\ cut[m] <= Len(Stream) /\ cut[m] \in Nat
    BY <1>1, LayoutIs
  <2>2. num[r + 1] # num[r]
    BY <1>1
  <2>3. Message(cut[r], cut[r + 1], num[r + 1])
    BY <1>1, <2>2, LayoutIs
  <2>4. Len(Stream) \in Nat
    BY StreamIs
  <2> QED BY <2>1, <2>3, <2>4
<1>3. i \in 1..Len(wrote) /\ Sendable(w) /\ At(cut[r], e) /\ cut[r + 1] = cut[r] + Len(e)
  BY <1>2 DEF Message
<1>4. w \in Bodies /\ i \in DOMAIN wrote
  BY <1>3 DEF Typed
<1> HIDE DEF w, i
<1>5. e \in Seq(Tokens) /\ Len(e) \in Nat /\ size = Len(e) /\ size > 0
  <2>1. e \in Seq(Tokens)
    BY <1>4, EncodedIsBytes
  <2> HIDE DEF e
  <2> QED BY <1>2, <1>3, <2>1
<1>6. /\ Base \in Nat /\ Len(buf) \in Nat /\ Len(got) = Base + Len(buf) /\ buf \in Seq(Tokens) /\ eof \in BOOLEAN
      /\ peer \in {NewlineMode, LengthMode} /\ \A k \in 1..Len(buf) : buf[k] = Stream[Base + k]
  BY BufferIs
<1>7. \A k \in 1..Len(buf) : k <= Len(e) => buf[k] = e[k]
  <2> TAKE k \in 1..Len(buf)
  <2>1. k <= Len(e) => k \in 1..Len(e)
    BY <1>5, <1>6
  <2> QED BY <1>1, <1>3, <1>6, <2>1 DEF At
<1>8. eof => Len(buf) >= size
  <2>1. eof => Len(got) = Len(Stream)
    BY StreamIs
  <2> QED BY <1>1, <1>2, <1>6, <2>1
<1>9. ASSUME Len(buf) < size PROVE Len(got) < cut[r + 1]
  BY <1>1, <1>2, <1>6, <1>9
<1> HIDE DEF size
<1>10. CASE Mode = Undetected
  <2>1. /\ eof => buf = <<>>
        /\ peer = LengthMode => buf = <<>>
        /\ \A k \in 1..Len(buf) : buf[k] \notin LineEnds
    BY <1>10, ModeIs
  <2>2. ~eof
    BY <1>5, <1>6, <1>8, <2>1
  <2>3. Len(buf) < size
    <3>1. CASE peer = LengthMode
      BY <1>5, <1>6, <2>1, <3>1
    <3>2. CASE peer = NewlineMode
      <4> SUFFICES ASSUME Len(buf) >= size PROVE FALSE
        BY <1>5, <1>6
      <4>1. Len(w) \in Nat /\ Len(e) = Len(w) + 1 /\ e[Len(w) + 1] = LF
        BY <1>4, <3>2, EncodedIs
      <4>2. Len(e) \in 1..Len(buf) /\ Len(e) <= Len(e)
        BY <1>5, <1>6
      <4>3. buf[Len(e)] = LF
        BY <1>7, <4>1, <4>2
      <4> QED BY <2>1, <4>2, <4>3, TokensDiffer
    <3> QED BY <1>6, <3>1, <3>2
  <2>4. Decision = More
    BY <1>10, <2>2, UndetectedDecides
  <2> QED BY <1>9, <2>2, <2>3, <2>4 DEF Waits
<1>11. CASE Mode = LengthMode /\ peer = LengthMode
  <2>1. Len(w) <= Cap /\ Len(w) \in Nat /\ Len(e) = Len(w) + 3
    <3>1. Len(w) \in Nat /\ Len(e) = Len(w) + 3
      BY <1>4, <1>11, EncodedIs
    <3>2. ~Oversized(w)
      BY <1>4 DEF InStep, w
    <3> QED BY <1>11, <3>1, <3>2, BoundsAreNumbers DEF Oversized
  <2>2. \/ Len(w) <= Cap /\ Len(buf) >= Len(w) + 3 /\ Decision = Return(Len(w) + 3, w, FALSE)
        \/ ~eof /\ Decision = More /\ Len(buf) < Len(w) + 3
        \/ eof /\ buf = <<>> /\ Decision = NoneLeft
        \/ eof /\ buf # <<>> /\ Decision = Return(Len(buf), <<>>, FALSE) /\ Len(buf) < Len(w) + 3
        \/ /\ Len(w) > Cap /\ Len(buf) >= 3
           /\ \E marked \in BOOLEAN : Decision = Return(3, <<>>, marked)
    BY <1>4, <1>6, <1>7, <1>11, DecideMessage
  <2>3. eof => buf # <<>> /\ ~(Len(buf) < Len(w) + 3)
    BY <1>5, <1>6, <1>8, <2>1
  <2>4. ~(Len(w) > Cap)
    BY <2>1, BoundsAreNumbers
  <2>5. \/ Len(buf) >= size /\ Decision = Return(size, w, FALSE)
        \/ ~eof /\ Decision = More /\ Len(buf) < size
    BY <1>5, <2>1, <2>2, <2>3, <2>4
  <2>6. CASE Len(buf) >= size /\ Decision = Return(size, w, FALSE)
    BY <1>1, <1>5, <1>6, <2>6 DEF GivesMessage, size, w, i
  <2>7. CASE ~eof /\ Decision = More /\ Len(buf) < size
    BY <1>9, <2>7 DEF Waits
  <2> QED BY <2>5, <2>6, <2>7
<1>12. CASE Mode = NewlineMode /\ peer = NewlineMode
  <2>1. Len(w) \in Nat /\ Len(e) = Len(w) + 1
    BY <1>4, <1>12, EncodedIs
  <2>2. \A k \in DOMAIN w : w[k] \notin LineEnds
    BY <1>3, <1>12 DEF Sendable, NewlineMode, LengthMode
  <2>3. \/ Len(buf) >= Len(w) + 1 /\ Decision = Return(Len(w) + 1, w, FALSE)
        \/ ~eof /\ Decision = More /\ \A k \in 1..Len(buf) : buf[k] \notin LineEnds
        \/ eof /\ Decision = NoneLeft /\ Len(buf) < Len(w) + 1
        \/ eof /\ buf # <<>> /\ Decision = Return(Len(buf), buf, FALSE) /\ Len(buf) < Len(w) + 1
    BY <1>4, <1>6, <1>7, <1>12, <2>2, DecideLine
  <2>4. eof => ~(Len(buf) < Len(w) + 1)
    BY <1>5, <1>6, <1>8, <2>1
  <2>5. (\A k \in 1..Len(buf) : buf[k] \notin LineEnds) => Len(buf) < size
    <3> SUFFICES ASSUME \A k \in 1..Len(buf) : buf[k] \notin LineEnds, Len(buf) >= size PROVE FALSE
      BY <1>5, <1>6
    <3>1. Len(e) \in 1..Len(buf) /\ Len(e) <= Len(e)
      BY <1>5, <1>6
    <3>2. e[Len(e)] = LF
      BY <1>4, <1>12, EncodedIs
    <3> QED BY <1>7, <3>1, <3>2, TokensDiffer
  <2>6. \/ Len(buf) >= size /\ Decision = Return(size, w, FALSE)
        \/ ~eof /\ Decision = More /\ Len(buf) < size
    BY <1>5, <2>1, <2>3, <2>4, <2>5
  <2>7. CASE Len(buf) >= size /\ Decision = Return(size, w, FALSE)
    BY <1>1, <1>5, <1>6, <2>7 DEF GivesMessage, size, w, i
  <2>8. CASE ~eof /\ Decision = More /\ Len(buf) < size
    BY <1>9, <2>8 DEF Waits
  <2> QED BY <2>6, <2>7, <2>8
<1> QED BY <1>6, <1>10, <1>11, <1>12, ModeIs

LEMMA AtFiller ==
  ASSUME Typed, Placed, ModeKnown, NEW m, NEW cut, NEW num, Layout(m, cut, num),
         NEW r, Reading(m, cut, num, r), r < m, num[r + 1] = num[r]
  PROVE  \/ GivesBlock(m, cut, num, r) \/ SkipsBlanks(m, cut, num, r)
         \/ Ends(num, r) \/ Waits(m, cut, r)
<1>1. r \in 0..m /\ num[r] \in Nat /\ cut[r] <= Base
      /\ (Base # cut[r] => peer = NewlineMode /\ Base < cut[r + 1])
  <2>1. r \in 0..m /\ cut[r] <= Base /\ (Base # cut[r] => peer = NewlineMode /\ Base < cut[r + 1])
    BY DEF Reading
  <2>2. num[r] \in Nat
    BY <2>1, LayoutIs
  <2> QED BY <2>1, <2>2
<1>2. /\ m \in Nat /\ cut[r] \in Nat /\ cut[r + 1] \in Nat /\ cut[r] < cut[r + 1] /\ cut[m] \in Nat
      /\ cut[r + 1] <= cut[m] /\ cut[m] <= Len(Stream) /\ (cut[r + 1] < cut[m] \/ r + 1 = m)
      /\ num[m] = Len(wrote)
  BY <1>1, LayoutIs
<1>3. Filler(cut[r], cut[r + 1])
  <2>1. num[r + 1] # num[r] + 1
    BY <1>1
  <2> QED BY <1>1, <2>1, LayoutIs
<1>4. PICK piece \in Noise : (peer = NewlineMode) = AllBlank(piece) /\ At(cut[r], piece) /\ cut[r + 1] = cut[r] + Len(piece)
  BY <1>3 DEF Filler
<1>5. piece \in Seq(Tokens) /\ Len(piece) \in Nat
  BY PeersSendTokens
<1>6. /\ Base \in Nat /\ Len(buf) \in Nat /\ Len(got) = Base + Len(buf) /\ buf \in Seq(Tokens) /\ eof \in BOOLEAN
      /\ peer \in {NewlineMode, LengthMode} /\ \A k \in 1..Len(buf) : buf[k] = Stream[Base + k]
  BY BufferIs
<1>7. Len(Stream) \in Nat /\ (eof => Len(got) = Len(Stream))
  BY StreamIs
<1> DEFINE n == cut[r + 1] - Base
           off == Base - cut[r]
<1>8. n \in Nat /\ n > 0 /\ off \in Nat /\ off + n = Len(piece)
  <2>1. PICK a, b, c : a = cut[r] /\ b = cut[r + 1] /\ c = Len(piece)
    OBVIOUS
  <2>2. a \in Nat /\ b \in Nat /\ a < b /\ a <= Base /\ (Base # a => Base < b) /\ b = a + c /\ c \in Nat
    BY <1>1, <1>2, <1>4, <1>5, <2>1
  <2>3. Base < b
    BY <1>6, <2>2
  <2>4. b - Base \in Nat /\ b - Base > 0 /\ Base - a \in Nat /\ (Base - a) + (b - Base) = c
    BY <1>6, <2>2, <2>3
  <2> QED BY <2>1, <2>4
<1>9. \A k \in 1..Len(buf) : k <= n => buf[k] = piece[off + k] /\ off + k \in 1..Len(piece)
  <2> SUFFICES ASSUME NEW k \in 1..Len(buf), k <= n PROVE buf[k] = piece[off + k] /\ off + k \in 1..Len(piece)
    OBVIOUS
  <2>1. off + k \in 1..Len(piece) /\ cut[r] + (off + k) = Base + k
    <3>1. PICK a : a = cut[r] /\ a \in Nat
      BY <1>2
    <3>2. a + ((Base - a) + k) = Base + k
      BY <1>6, <3>1
    <3> HIDE DEF n
    <3>3. off + k \in 1..Len(piece)
      <4> HIDE DEF off
      <4> QED BY <1>5, <1>6, <1>8
    <3> QED BY <3>1, <3>2, <3>3
  <2>2. Stream[cut[r] + (off + k)] = piece[off + k]
    BY <1>4, <2>1 DEF At
  <2>3. buf[k] = Stream[Base + k]
    BY <1>6
  <2> HIDE DEF off, n
  <2> QED BY <2>1, <2>2, <2>3
<1>10. ASSUME Len(buf) < n PROVE ~eof /\ Len(got) < cut[r + 1]
  BY <1>2, <1>6, <1>7, <1>10
<1>11. CASE peer = LengthMode
  <2>1. HeaderBlock(piece) /\ Base = cut[r]
    <3>1. LengthMode # NewlineMode
      BY DEF LengthMode, NewlineMode
    <3> QED BY <1>1, <1>4, <1>11, <3>1, PeersSendMessages
  <2>2. off = 0 /\ n = Len(piece) /\ n = cut[r + 1] - cut[r]
    BY <1>2, <1>4, <1>5, <2>1
  <2> HIDE DEF n, off
  <2>3. \A k \in 1..Len(buf) : k <= Len(piece) => buf[k] = piece[k]
    BY <1>6, <1>9, <2>2
  <2>4. CASE Mode = LengthMode
    <3>1. \/ /\ Len(buf) >= Len(piece)
             /\ \E marked \in BOOLEAN : Decision = Return(Len(piece), <<>>, marked)
          \/ Len(buf) < Len(piece) /\ (~eof => Decision = More)
      BY <1>5, <1>6, <2>1, <2>3, <2>4, DecideBlock
    <3>2. CASE Len(buf) >= Len(piece) /\ \E marked \in BOOLEAN : Decision = Return(Len(piece), <<>>, marked)
      <4>1. cut[r + 1] - cut[r] <= Len(buf)
        BY <1>5, <1>6, <2>2, <3>2
      <4> QED BY <2>1, <2>2, <3>2, <4>1 DEF GivesBlock
    <3>3. CASE Len(buf) < Len(piece) /\ (~eof => Decision = More)
      BY <1>10, <2>2, <3>3 DEF Waits
    <3> QED BY <3>1, <3>2, <3>3
  <2>5. CASE Mode = Undetected
    <3>1. buf = <<>>
      BY <1>11, <2>5, ModeIs
    <3>2. Len(buf) < n
      BY <1>8, <3>1
    <3>3. ~eof /\ Len(got) < cut[r + 1]
      BY <1>10, <3>2
    <3> QED BY <2>5, <3>3, UndetectedDecides DEF Waits
  <2> QED BY <1>11, <2>4, <2>5, ModeIs
<1>12. CASE peer = NewlineMode
  <2>1. AllBlank(piece) /\ Len(piece) > 0 /\ piece[Len(piece)] \in LineEnds
    <3>1. AllBlank(piece)
      BY <1>4, <1>12
    <3>2. BlankLines(piece)
      BY <3>1, PeersSendMessages
    <3> QED BY <1>5, <3>1, <3>2 DEF BlankLines, Last
  <2> HIDE DEF n, off
  <2>2. \A k \in 1..Len(buf) : k <= n => IsBlank(buf[k])
    <3> SUFFICES ASSUME NEW k \in 1..Len(buf), k <= n PROVE IsBlank(buf[k])
      OBVIOUS
    <3>1. buf[k] = piece[off + k] /\ off + k \in DOMAIN piece
      BY <1>5, <1>9
    <3> QED BY <2>1, <3>1 DEF AllBlank
  <2>3. n <= Len(buf) => buf[n] \in LineEnds
    <3> SUFFICES ASSUME n <= Len(buf) PROVE buf[n] \in LineEnds
      OBVIOUS
    <3>1. n \in 1..Len(buf) /\ n <= n
      BY <1>6, <1>8
    <3> QED BY <1>8, <1>9, <2>1, <3>1
  <2>4. (\A k \in 1..Len(buf) : buf[k] \notin LineEnds) => Len(buf) < n
    <3> SUFFICES ASSUME \A k \in 1..Len(buf) : buf[k] \notin LineEnds, Len(buf) >= n PROVE FALSE
      BY <1>6, <1>8
    <3>1. n \in 1..Len(buf) /\ n <= Len(buf)
      BY <1>6, <1>8
    <3> QED BY <2>3, <3>1
  <2>5. CASE Mode = Undetected
    <3>1. Len(buf) < n
      BY <2>4, <2>5, ModeIs
    <3>2. ~eof /\ Len(got) < cut[r + 1]
      BY <1>10, <3>1
    <3> QED BY <2>5, <3>2, UndetectedDecides DEF Waits
  <2>6. CASE Mode = NewlineMode
    <3>1. \/ eof /\ Decision = NoneLeft /\ Len(buf) <= n
          \/ \E take \in 1..n : take <= Len(buf) /\ Decision = Outcome("skip", take, <<>>)
          \/ ~eof /\ Decision = More /\ \A k \in 1..Len(buf) : buf[k] \notin LineEnds
          \/ eof /\ Len(buf) < n
      BY <1>6, <1>8, <2>2, <2>3, <2>6, DecideBlanks
    <3>2. CASE eof /\ Decision = NoneLeft /\ Len(buf) <= n
      <4>1. Base + n = cut[r + 1]
        BY <1>2, <1>6 DEF n
      <4>2. ~(cut[r + 1] < cut[m])
        BY <1>2, <1>6, <1>7, <1>8, <3>2, <4>1
      <4>3. num[r + 1] = Len(wrote)
        BY <1>2, <4>2
      <4> QED BY <3>2, <4>3 DEF Ends
    <3>3. CASE \E take \in 1..n : take <= Len(buf) /\ Decision = Outcome("skip", take, <<>>)
      <4>1. PICK take \in 1..n : take <= Len(buf) /\ Decision = Outcome("skip", take, <<>>)
        BY <3>3
      <4>2. take \in 1..Len(buf) /\ Base + take <= cut[r + 1]
        BY <1>2, <1>6, <1>8, <4>1 DEF n
      <4> QED BY <1>12, <4>1, <4>2 DEF SkipsBlanks
    <3>4. CASE ~eof /\ Decision = More /\ \A k \in 1..Len(buf) : buf[k] \notin LineEnds
      <4>1. Len(buf) < n
        BY <2>4, <3>4
      <4> QED BY <1>10, <3>4, <4>1 DEF Waits
    <3>5. CASE eof /\ Len(buf) < n
      BY <1>10, <3>5
    <3> QED BY <3>1, <3>2, <3>3, <3>4, <3>5
  <2> QED BY <1>12, <2>5, <2>6, ModeIs
<1> QED BY <1>6, <1>11, <1>12

LEMMA AtTail ==
  ASSUME Typed, Placed, ModeKnown, NEW m, NEW cut, NEW num, Layout(m, cut, num), Unfinished(cut[m]),
         Reading(m, cut, num, m)
  PROVE  GivesRest(m, m) \/ DropsHeader(m, m) \/ Ends(num, m) \/ Waits(m, cut, m)
<1>1. m \in Nat /\ cut[m] \in Nat /\ num[m] = Len(wrote) /\ Base = cut[m]
  <2>1. m \in 0..m
    BY DEF Layout
  <2>2. m \in Nat /\ cut[m] \in Nat /\ num[m] = Len(wrote)
    BY <2>1, LayoutIs
  <2>3. ~(m < m)
    BY <2>2
  <2> QED BY <2>2, <2>3 DEF Reading
<1>2. /\ Base \in Nat /\ Len(buf) \in Nat /\ Len(got) = Base + Len(buf) /\ buf \in Seq(Tokens) /\ eof \in BOOLEAN
      /\ peer \in {NewlineMode, LengthMode} /\ \A k \in 1..Len(buf) : buf[k] = Stream[Base + k]
  BY BufferIs
<1>3. Len(Stream) \in Nat /\ Len(got) <= Len(Stream) /\ ~(m < m)
  BY <1>1, StreamIs
<1>4. ASSUME Decision = IF eof THEN NoneLeft ELSE More PROVE Ends(num, m) \/ Waits(m, cut, m)
  BY <1>1, <1>2, <1>3, <1>4 DEF Ends, Waits
<1>5. CASE Len(Stream) = cut[m]
  <2>1. Len(buf) = 0
    BY <1>1, <1>2, <1>3, <1>5
  <2>2. buf = <<>>
    BY <1>2, <2>1
  <2> QED BY <1>4, <2>2, EmptyDecides
<1>6. CASE Mode = Undetected
  BY <1>4, <1>6, UndetectedDecides
<1>7. ASSUME closed, NEW body \in Bodies, NEW n \in 1..(Len(Encode(body, peer)) - 1),
             Sendable(body), Len(Stream) = cut[m] + n,
             \A i \in 1..n : Stream[cut[m] + i] = Encode(body, peer)[i],
             Mode # Undetected
      PROVE  GivesRest(m, m) \/ DropsHeader(m, m) \/ Ends(num, m) \/ Waits(m, cut, m)
  <2> DEFINE e == Encode(body, peer)
  <2>1. e \in Seq(Tokens) /\ Len(e) \in Nat
    <3>1. e \in Seq(Tokens)
      BY EncodedIsBytes
    <3> HIDE DEF e
    <3> QED BY <3>1
  <2>2. Len(buf) <= n /\ n < Len(e) /\ n \in Nat /\ \A k \in 1..Len(buf) : k \in 1..n
    BY <1>1, <1>2, <1>3, <1>7, <2>1
  <2>3. \A k \in 1..Len(buf) : k <= Len(e) => buf[k] = e[k]
    BY <1>1, <1>2, <1>7, <2>2
  <2>4. Mode = peer
    BY <1>7, ModeIs
  <2>5. ~(Len(buf) >= Len(e))
    BY <1>2, <2>1, <2>2
  <2> HIDE DEF e
  <2>6. CASE peer = LengthMode
    <3>1. /\ Len(body) \in Nat /\ Len(e) = Len(body) + 3
          /\ \A i \in 1..Len(body) : e[i + 3] = body[i]
      BY <2>6, EncodedIs DEF e
    <3>2. \/ Len(body) <= Cap /\ Len(buf) >= Len(body) + 3 /\ Decision = Return(Len(body) + 3, body, FALSE)
          \/ ~eof /\ Decision = More /\ Len(buf) < Len(body) + 3
          \/ eof /\ buf = <<>> /\ Decision = NoneLeft
          \/ eof /\ buf # <<>> /\ Decision = Return(Len(buf), <<>>, FALSE) /\ Len(buf) < Len(body) + 3
          \/ /\ Len(body) > Cap /\ Len(buf) >= 3
             /\ \E marked \in BOOLEAN : Decision = Return(3, <<>>, marked)
      BY <1>2, <2>3, <2>4, <2>6, DecideMessage DEF e
    <3>3. CASE (~eof /\ Decision = More) \/ (eof /\ Decision = NoneLeft)
      BY <1>4, <3>3
    <3>4. CASE eof /\ Decision = Return(Len(buf), <<>>, FALSE)
      BY <1>7, <3>4 DEF GivesRest
    <3>5. CASE Len(buf) >= 3 /\ \E marked \in BOOLEAN : Decision = Return(3, <<>>, marked)
      <4>1. ASSUME NEW i \in 1..Len(Stream), i > Base + 3 PROVE ~IsLenLine(Stream[i])
        <5>1. i - cut[m] \in 1..n /\ cut[m] + (i - cut[m]) = i
          BY <1>1, <1>3, <1>7, <2>2, <4>1
        <5>2. Stream[i] = e[i - cut[m]]
          BY <1>7, <5>1 DEF e
        <5>3. (i - cut[m]) - 3 \in 1..Len(body) /\ ((i - cut[m]) - 3) + 3 = i - cut[m]
          <6>1. PICK j, a, c : j = i - cut[m] /\ a = cut[m] /\ c = Len(body)
            OBVIOUS
          <6>2. j \in 1..n /\ a + j > a + 3 /\ n < c + 3 /\ a \in Nat /\ c \in Nat /\ n \in Nat
            BY <1>1, <1>3, <2>2, <3>1, <4>1, <5>1, <6>1
          <6>3. j - 3 \in 1..c /\ (j - 3) + 3 = j
            BY <6>2
          <6> QED BY <6>1, <6>3
        <5>4. e[i - cut[m]] = body[(i - cut[m]) - 3]
          BY <3>1, <5>3
        <5>5. (i - cut[m]) - 3 \in DOMAIN body
          BY <5>3, PeersSendTokens
        <5> QED BY <5>2, <5>4, <5>5, PeersSendMessages
      <4> QED BY <1>7, <2>4, <2>6, <3>5, <4>1 DEF DropsHeader
    <3>6. ~(Len(buf) >= Len(body) + 3)
      BY <2>5, <3>1
    <3> QED BY <3>2, <3>3, <3>4, <3>5, <3>6
  <2>7. CASE peer = NewlineMode
    <3>1. Len(body) \in Nat /\ Len(e) = Len(body) + 1
      BY <2>7, EncodedIs DEF e
    <3>2. \A k \in DOMAIN body : body[k] \notin LineEnds
      BY <1>7, <2>7 DEF Sendable, NewlineMode, LengthMode
    <3>3. \/ Len(buf) >= Len(body) + 1 /\ Decision = Return(Len(body) + 1, body, FALSE)
          \/ ~eof /\ Decision = More /\ \A k \in 1..Len(buf) : buf[k] \notin LineEnds
          \/ eof /\ Decision = NoneLeft /\ Len(buf) < Len(body) + 1
          \/ eof /\ buf # <<>> /\ Decision = Return(Len(buf), buf, FALSE) /\ Len(buf) < Len(body) + 1
      BY <1>2, <2>3, <2>4, <2>7, <3>2, DecideLine DEF e
    <3>4. CASE (~eof /\ Decision = More) \/ (eof /\ Decision = NoneLeft)
      BY <1>4, <3>4
    <3>5. CASE eof /\ Decision = Return(Len(buf), buf, FALSE)
      BY <1>7, <3>5 DEF GivesRest
    <3>6. ~(Len(buf) >= Len(body) + 1)
      BY <2>5, <3>1
    <3> QED BY <3>3, <3>4, <3>5, <3>6
  <2> QED BY <1>2, <2>6, <2>7
<1> QED BY <1>5, <1>6, <1>7 DEF Unfinished

LEMMA PastIs ==
  ASSUME Typed, Placed, ModeKnown, Past
  PROVE  \/ ~eof /\ Decision = More
         \/ eof /\ Decision = NoneLeft
         \/ /\ Mode = LengthMode /\ mode = LengthMode
            /\ \E take \in 0..Len(buf), marked \in BOOLEAN : Decision = Return(take, <<>>, marked)
<1>1. CASE eof /\ buf = <<>>
  BY <1>1, EmptyDecides
<1>2. CASE /\ peer = LengthMode /\ mode = LengthMode
           /\ \A i \in 1..Len(Stream) : i > Base => ~IsLenLine(Stream[i])
  <2>1. /\ Base \in Nat /\ Len(buf) \in Nat /\ Len(got) = Base + Len(buf) /\ buf \in Seq(Tokens) /\ eof \in BOOLEAN
        /\ \A k \in 1..Len(buf) : buf[k] = Stream[Base + k]
    BY BufferIs
  <2>2. Len(Stream) \in Nat /\ Len(got) <= Len(Stream)
    BY StreamIs
  <2>3. \A k \in 1..Len(buf) : Base + k \in 1..Len(Stream) /\ Base + k > Base
    BY <2>1, <2>2
  <2>4. \A k \in 1..Len(buf) : ~IsLenLine(buf[k])
    BY <1>2, <2>1, <2>3
  <2>5. Mode = LengthMode
    BY <1>2 DEF Mode, LengthMode, Undetected
  <2> QED BY <1>2, <2>1, <2>4, <2>5, DecideDraining
<1> QED BY <1>1, <1>2 DEF Past

LEMMA ReceiveStep ==
  ASSUME Typed, Placed, NEW n \in DOMAIN pipe, Receive(n)
  PROVE  /\ Stream' = Stream /\ Base' = Base /\ Len(buf') <= Len(got')
         /\ Len(got') = Len(got) + n /\ Len(buf') = Len(buf) + n
         /\ \A i \in 1..Len(buf') : buf'[i] = Stream[Base + i]
<1>1. /\ Base \in Nat /\ Len(buf) \in Nat /\ Len(got) = Base + Len(buf) /\ buf \in Seq(Tokens)
      /\ got \in Seq(Tokens) /\ pipe \in Seq(Tokens) /\ \A k \in 1..Len(buf) : buf[k] = Stream[Base + k]
  BY BufferIs DEF Typed
<1>2. n \in 0..Len(pipe) /\ n \in Nat /\ Len(got) \in Nat /\ Len(pipe) \in Nat /\ n <= Len(pipe)
  BY <1>1
<1> DEFINE x == Take(pipe, n)
           y == Drop(pipe, n)
<1>3. x \in Seq(Tokens) /\ y \in Seq(Tokens) /\ x \o y = pipe /\ Len(x) = n /\ \A i \in 1..n : x[i] = pipe[i]
  BY <1>1, <1>2, TakeAndDrop
<1>4. got' = got \o x /\ buf' = buf \o x /\ pipe' = y
  BY DEF Receive
<1> HIDE DEF x, y
<1>5. Stream' = Stream
  <2>1. (got \o x) \o y = got \o (x \o y)
    BY <1>1, <1>3, TokensAssociative
  <2> QED BY <1>3, <1>4, <2>1 DEF Stream
<1>6. Len(got') = Len(got) + n
  BY <1>1, <1>3, <1>4, ConcatProperties
<1>7. /\ Len(buf') = Len(buf) + n
      /\ \A i \in 1..(Len(buf) + n) : buf'[i] = IF i <= Len(buf) THEN buf[i] ELSE x[i - Len(buf)]
  BY <1>1, <1>3, <1>4, ConcatProperties
<1>8. Base' = Base
  BY <1>1, <1>2, <1>6, <1>7 DEF Base
<1>9. \A i \in 1..(Len(got) + Len(pipe)) : Stream[i] = IF i <= Len(got) THEN got[i] ELSE pipe[i - Len(got)]
  BY <1>1, ConcatProperties DEF Stream
<1>10. ASSUME NEW i \in 1..Len(buf') PROVE buf'[i] = Stream[Base + i]
  <2>1. CASE i <= Len(buf)
    <3>1. i \in 1..Len(buf) /\ i \in 1..(Len(buf) + n)
      BY <1>1, <1>2, <1>7, <2>1
    <3> QED BY <1>1, <1>7, <2>1, <3>1
  <2>2. CASE ~(i <= Len(buf))
    <3>1. i - Len(buf) \in 1..n /\ i \in 1..(Len(buf) + n)
      BY <1>1, <1>2, <1>7, <2>2
    <3>2. /\ Base + i \in 1..(Len(got) + Len(pipe)) /\ ~(Base + i <= Len(got))
          /\ (Base + i) - Len(got) = i - Len(buf)
      BY <1>1, <1>2, <2>2, <3>1
    <3>3. buf'[i] = pipe[i - Len(buf)]
      BY <1>3, <1>7, <2>2, <3>1
    <3>4. Stream[Base + i] = pipe[i - Len(buf)]
      BY <1>9, <3>2
    <3> QED BY <3>3, <3>4
  <2> QED BY <2>1, <2>2
<1>11. Len(buf') <= Len(got')
  BY <1>1, <1>2, <1>6, <1>7
<1> QED BY <1>5, <1>6, <1>7, <1>8, <1>10, <1>11

LEMMA DropStep ==
  ASSUME Typed, Placed, NEW k \in 0..Len(buf), buf' = Drop(buf, k), got' = got, pipe' = pipe
  PROVE  /\ Stream' = Stream /\ Base' = Base + k /\ Len(buf') <= Len(got') /\ Len(buf') = Len(buf) - k
         /\ \A i \in 1..Len(buf') : buf'[i] = Stream[Base + k + i]
<1>1. /\ Base \in Nat /\ Len(buf) \in Nat /\ Len(got) = Base + Len(buf) /\ buf \in Seq(Tokens)
      /\ \A i \in 1..Len(buf) : buf[i] = Stream[Base + i]
  BY BufferIs
<1>2. Len(buf') = Len(buf) - k /\ \A i \in 1..(Len(buf) - k) : buf'[i] = buf[k + i]
  BY <1>1, DropIs
<1>3. Base' = Base + k /\ Len(buf') <= Len(got')
  BY <1>1, <1>2 DEF Base
<1>4. ASSUME NEW i \in 1..Len(buf') PROVE buf'[i] = Stream[Base + k + i]
  <2>1. k + i \in 1..Len(buf) /\ Base + (k + i) = Base + k + i /\ i \in 1..(Len(buf) - k)
    BY <1>1, <1>2
  <2> QED BY <1>1, <1>2, <2>1
<1> QED BY <1>2, <1>3, <1>4 DEF Stream

LEMMA FrameStep ==
  ASSUME Typed, Typed', NEW take \in 0..Len(buf), NEW body, NEW marked \in BOOLEAN,
         NEW d, d = Return(take, body, marked), ReturnFrame(d)
  PROVE  LET frame == Frame(Take(buf, take), body, marked) IN
         /\ frames' = Append(frames, frame) /\ frame \in FrameSet /\ frame.raw = Take(buf, take)
         /\ frame.json = (body \in Bodies) /\ frame.over = OverCap(Take(buf, take), body, marked)
         /\ Bodied' = IF body \in Bodies THEN Append(Bodied, frame) ELSE Bodied
         /\ Bodied \in Seq(FrameSet)
         /\ buf' = Drop(buf, take) /\ got' = got /\ pipe' = pipe /\ eof' = eof
<1> DEFINE frame == Frame(Take(buf, take), body, marked)
<1>1. d.do = "frame" /\ d.take = take /\ d.frame = <<frame>>
  BY OutcomesDiffer
<1>2. buf \in Seq(Tokens) /\ frames \in Seq(FrameSet)
  BY DEF Typed
<1>3. Take(buf, take) \in Seq(Tokens)
  BY <1>2, TakeAndDrop
<1>4. frame.raw = Take(buf, take) /\ frame.json = (body \in Bodies) /\ frame.over = OverCap(Take(buf, take), body, marked)
  BY DEF Frame, Parses
<1>5. frame \in FrameSet
  <2>1. OverCap(Take(buf, take), body, marked) \in BOOLEAN /\ Parses(body) \in BOOLEAN
    BY DEF OverCap, Parses
  <2> QED BY <1>3, <2>1 DEF Frame, FrameSet
<1> HIDE DEF frame
<1>6. frames' = Append(frames, frame)
  <2>1. frames' = frames \o <<frame>>
    BY <1>1 DEF ReturnFrame
  <2> QED BY <1>2, <1>5, <2>1
<1>7. Messages(frames) \in Seq(FrameSet) /\ Messages(Append(frames, frame)) =
              IF frame.json THEN Append(Messages(frames), frame) ELSE Messages(frames)
  BY <1>2, <1>5, OneFrameMore
<1>8. Bodied' = IF body \in Bodies THEN Append(Bodied, frame) ELSE Bodied
  BY <1>4, <1>6, <1>7 DEF Bodied
<1>9. buf' = Drop(buf, take) /\ got' = got /\ pipe' = pipe /\ eof' = eof
  BY <1>1 DEF ReturnFrame
<1> QED BY <1>4, <1>5, <1>6, <1>7, <1>8, <1>9 DEF frame, Bodied

(* What a step of the reader leaves, if it leaves the buffer in its place. *)
LEMMA StreamStaysKnown ==
  ASSUME Typed, Typed', Placed, ModeKnown, UNCHANGED peerVars, mode' = Mode, Stream' = Stream,
         Len(buf') <= Len(got'), \A i \in 1..Len(buf') : buf'[i] = Stream[Base' + i],
         Mode = Undetected => Len(buf') = Len(got')
  PROVE  Placed' /\ ModeKnown' /\ Extends /\ InStep' = InStep
<1>1. UNCHANGED <<peer, side, wrote, ends, noise, closed>>
  BY DEF peerVars
<1>2. Mode \in {Undetected, peer}
  BY ModeIs
<1>3. Placed'
  BY <1>1 DEF Placed
<1>4. ModeKnown'
  BY <1>1, <1>2 DEF ModeKnown
<1>5. Extends
  <2>1. Len(Stream) \in Nat /\ wrote \in Seq(Bodies)
    BY StreamIs DEF Typed
  <2>2. Len(wrote) <= Len(wrote')
    BY <1>1, <2>1
  <2> QED BY <1>1, <2>1, <2>2 DEF Extends
<1>6. InStep' = InStep
  BY <1>1 DEF InStep, Oversized
<1> QED BY <1>3, <1>4, <1>5, <1>6

LEMMA FittingStays ==
  ASSUME Typed, FittingBodiesAreInspected, side' = side, mode' = Mode, frames' = frames
  PROVE  FittingBodiesAreInspected'
<1>1. CASE frames = <<>>
  <2>1. DOMAIN frames = {}
    BY <1>1
  <2> QED BY <2>1 DEF FittingBodiesAreInspected
<1>2. CASE frames # <<>>
  <2>1. mode # Undetected /\ mode \in Modes
    BY <1>2 DEF Typed
  <2>2. mode' = mode
    BY <2>1, ModeInForce
  <2> QED BY <2>2 DEF FittingBodiesAreInspected
<1> QED BY <1>1, <1>2

ReadingNext(m, cut, num, r) == Reading(m, cut, num, r)'

LEMMA StillFollows ==
  ASSUME Typed, Typed', Extends, UNCHANGED peerVars, Stream' = Stream,
         NEW m \in Nat, NEW cut \in [0..m -> Nat], NEW num \in [0..m -> Nat],
         Layout(m, cut, num), Unfinished(cut[m]),
         Past' \/ \E r \in 0..m : ReadingNext(m, cut, num, r)
  PROVE  Follows'
<1>1. UNCHANGED <<peer, side, wrote, ends, noise, closed>>
  BY DEF peerVars
<1>2. Layout(m, cut, num)'
  <2>1. Len(wrote') = Len(wrote)
    BY <1>1
  <2> QED BY <2>1, LayoutStays
<1>3. Unfinished(cut[m])'
  BY <1>1 DEF Unfinished, Sendable
<1> QED BY <1>2, <1>3 DEF Follows, ReadingNext

LEMMA FramesStay ==
  ASSUME FramesAre, UNCHANGED peerVars, frames' = frames
  PROVE  FramesAre' /\ Bodied' = Bodied
BY DEF FramesAre, Bodied, peerVars

LEMMA FillFollows ==
  ASSUME FollowsInv, Typed', UNCHANGED peerVars, mode' = Mode,
         (\E n \in DOMAIN pipe : Receive(n)) \/ ReceiveEof
  PROVE  FollowsInv'
<1>1. Typed /\ Placed /\ ModeKnown /\ FittingBodiesAreInspected /\ (InStep => Follows /\ FramesAre)
  BY DEF FollowsInv
<1>2. UNCHANGED <<peer, side, wrote, ends, noise, closed>>
  BY DEF peerVars
<1>3. Mode = Undetected => Len(buf) = Len(got)
  BY <1>1, ModeIs DEF ModeKnown
<1>4. /\ Stream' = Stream /\ Base' = Base /\ Len(buf') <= Len(got') /\ frames' = frames
      /\ \A i \in 1..Len(buf') : buf'[i] = Stream[Base + i]
      /\ Mode = Undetected => Len(buf') = Len(got')
      /\ eof => eof' /\ buf' = buf
  <2>1. ASSUME NEW n \in DOMAIN pipe, Receive(n) PROVE <1>4!:
    <3>1. /\ Stream' = Stream /\ Base' = Base /\ Len(buf') <= Len(got')
          /\ Len(got') = Len(got) + n /\ Len(buf') = Len(buf) + n
          /\ \A i \in 1..Len(buf') : buf'[i] = Stream[Base + i]
      BY <1>1, <2>1, ReceiveStep
    <3>2. ~eof /\ frames' = frames
      BY <1>1, <2>1 DEF Typed, Receive
    <3> QED BY <1>3, <3>1, <3>2
  <2>2. CASE ReceiveEof
    BY <1>1, <1>3, <2>2 DEF ReceiveEof, Stream, Base, Placed
  <2> QED BY <2>1, <2>2
<1>5. Placed' /\ ModeKnown' /\ Extends /\ InStep' = InStep
  BY <1>1, <1>4, StreamStaysKnown
<1>6. FittingBodiesAreInspected'
  BY <1>1, <1>2, <1>4, FittingStays
<1>7. ASSUME InStep PROVE Follows' /\ FramesAre'
  <2>1. FramesAre' /\ Bodied' = Bodied
    BY <1>1, <1>4, <1>7, FramesStay
  <2>2. PICK m \in Nat : \E cut \in [0..m -> Nat] : \E num \in [0..m -> Nat] :
          Layout(m, cut, num) /\ Unfinished(cut[m]) /\ (Past \/ \E r \in 0..m : Reading(m, cut, num, r))
    BY <1>1, <1>7 DEF Follows
  <2>3. PICK cut \in [0..m -> Nat], num \in [0..m -> Nat] :
          Layout(m, cut, num) /\ Unfinished(cut[m]) /\ (Past \/ \E r \in 0..m : Reading(m, cut, num, r))
    BY <2>2
  <2>4. Past => Past'
    <3>1. mode = LengthMode => mode' = LengthMode
      BY DEF Mode, LengthMode, Undetected
    <3> QED BY <1>2, <1>4, <2>1, <3>1 DEF Past
  <2>5. ASSUME NEW r \in 0..m, Reading(m, cut, num, r) PROVE ReadingNext(m, cut, num, r)
    BY <1>2, <1>4, <2>1, <2>5 DEF ReadingNext, Reading
  <2>6. Past' \/ \E r \in 0..m : ReadingNext(m, cut, num, r)
    BY <2>3, <2>4, <2>5
  <2> QED BY <1>1, <1>4, <1>5, <2>1, <2>3, <2>6, StillFollows
<1> QED BY <1>1, <1>5, <1>6, <1>7 DEF FollowsInv

(* ... or if it cuts the front off it. *)
LEMMA CutStep ==
  ASSUME FollowsInv, Typed', UNCHANGED peerVars, mode' = Mode, Mode # Undetected,
         NEW take \in 0..Len(buf), buf' = Drop(buf, take), got' = got, pipe' = pipe
  PROVE  /\ Stream' = Stream /\ Base' = Base + take /\ Base \in Nat
         /\ Placed' /\ ModeKnown' /\ Extends /\ InStep' = InStep
<1>1. Typed /\ Placed /\ ModeKnown
  BY DEF FollowsInv
<1>2. /\ Stream' = Stream /\ Base' = Base + take /\ Len(buf') <= Len(got')
      /\ \A i \in 1..Len(buf') : buf'[i] = Stream[Base + take + i]
  BY <1>1, DropStep
<1>3. Base \in Nat
  BY <1>1, BufferIs
<1> QED BY <1>1, <1>2, <1>3, StreamStaysKnown

LEMMA FittingFrame ==
  ASSUME Typed, Typed', FittingBodiesAreInspected, side' = side, mode' = Mode,
         NEW d, d = Decision, d.do = "frame", ReturnFrame(d)
  PROVE  FittingBodiesAreInspected'
<1>1. CASE Mode # LengthMode
  BY <1>1 DEF FittingBodiesAreInspected
<1>2. CASE Mode = LengthMode
  <2>1. d # More /\ d # NoneLeft
    BY OutcomesDiffer
  <2>2. PICK take \in 0..Len(buf) : \E body : \E marked \in BOOLEAN :
              d = Return(take, body, marked) /\ (body = <<>> \/ (marked = FALSE /\ Len(body) <= Cap))
    BY <1>2, <2>1, LengthDecision
  <2>3. PICK body : \E marked \in BOOLEAN :
              d = Return(take, body, marked) /\ (body = <<>> \/ (marked = FALSE /\ Len(body) <= Cap))
    BY <2>2
  <2>4. PICK marked \in BOOLEAN :
              d = Return(take, body, marked) /\ (body = <<>> \/ (marked = FALSE /\ Len(body) <= Cap))
    BY <2>3
  <2>5. PICK frame : frame = Frame(Take(buf, take), body, marked)
    OBVIOUS
  <2>6. /\ frames' = Append(frames, frame) /\ frame.json = (body \in Bodies)
        /\ frame.over = OverCap(Take(buf, take), body, marked)
    BY <2>4, <2>5, FrameStep
  <2>7. (frame.json /\ side = "s2c") => ~frame.over
    <3> SUFFICES ASSUME body \in Bodies, side = "s2c" PROVE ~OverCap(Take(buf, take), body, marked)
      BY <2>6
    <3>1. marked = FALSE /\ Len(body) <= Cap
      BY <2>4, NothingIsNoMessage
    <3>2. Len(body) \in Nat /\ Cap \in Nat
      BY PeersSendTokens, BoundsAreNumbers
    <3>3. ~(Len(body) > Cap)
      BY <3>1, <3>2
    <3> QED BY <1>2, <3>1, <3>3 DEF OverCap
  <2>8. frames \in Seq(FrameSet) /\ mode \in Modes /\ (frames # <<>> => mode # Undetected)
    BY DEF Typed
  <2>9. \A i \in DOMAIN frames' : (i \in DOMAIN frames /\ frames'[i] = frames[i]) \/ frames'[i] = frame
    BY <2>6, <2>8
  <2>10. ASSUME NEW i \in DOMAIN frames, frames[i].json, side = "s2c" PROVE ~frames[i].over
    <3>1. frames # <<>>
      BY <2>10
    <3>2. mode = LengthMode
      BY <1>2, <2>8, <3>1, ModeInForce
    <3> QED BY <2>10, <3>2 DEF FittingBodiesAreInspected
  <2> QED BY <2>7, <2>9, <2>10 DEF FittingBodiesAreInspected
<1> QED BY <1>1, <1>2

(* The piece the reader was at is a message, a block, blank lines or the unfinished rest. *)
LEMMA Pieces ==
  ASSUME Typed, Placed, ModeKnown, InStep, NEW m, NEW cut, NEW num, Layout(m, cut, num), Unfinished(cut[m]),
         NEW r, Reading(m, cut, num, r)
  PROVE  \/ GivesMessage(m, cut, num, r) \/ GivesBlock(m, cut, num, r) \/ SkipsBlanks(m, cut, num, r)
         \/ GivesRest(m, r) \/ DropsHeader(m, r) \/ Ends(num, r) \/ Waits(m, cut, r)
<1>1. r \in 0..m
  BY DEF Reading
<1>2. m \in Nat
  BY DEF Layout
<1>3. r < m \/ r = m
  BY <1>1, <1>2
<1>4. r < m => num[r + 1] = num[r] + 1 \/ num[r + 1] = num[r]
  BY <1>1, LayoutIs
<1> QED BY <1>3, <1>4, AtMessage, AtFiller, AtTail

LEMMA FrameFollows ==
  ASSUME FollowsInv, Typed', UNCHANGED peerVars, mode' = Mode,
         NEW d, d = Decision, d.do = "frame", ReturnFrame(d)
  PROVE  FollowsInv'
<1>1. Typed /\ Placed /\ ModeKnown /\ FittingBodiesAreInspected /\ (InStep => Follows /\ FramesAre)
  BY DEF FollowsInv
<1>2. UNCHANGED <<peer, side, wrote, ends, noise, closed>>
  BY DEF peerVars
<1>3. Sound(d) /\ Mode # Undetected
  BY <1>1, DecisionIsSound DEF Typed
<1>4. PICK k \in 0..Len(buf) : k = d.take
  BY <1>3 DEF Sound
<1>5. buf' = Drop(buf, k) /\ got' = got /\ pipe' = pipe /\ eof' = eof
  BY <1>4 DEF ReturnFrame
<1>6. /\ Stream' = Stream /\ Base' = Base + k /\ Base \in Nat
      /\ Placed' /\ ModeKnown' /\ Extends /\ InStep' = InStep
  BY <1>3, <1>5, CutStep
<1>7. FittingBodiesAreInspected'
  BY <1>1, <1>2, FittingFrame
<1>8. ASSUME InStep PROVE Follows' /\ FramesAre'
  <2>1. PICK m \in Nat : \E cut \in [0..m -> Nat] : \E num \in [0..m -> Nat] :
          Layout(m, cut, num) /\ Unfinished(cut[m]) /\ (Past \/ \E r \in 0..m : Reading(m, cut, num, r))
    BY <1>1, <1>8 DEF Follows
  <2>2. PICK cut \in [0..m -> Nat], num \in [0..m -> Nat] :
          Layout(m, cut, num) /\ Unfinished(cut[m]) /\ (Past \/ \E r \in 0..m : Reading(m, cut, num, r))
    BY <2>1
  <2>3. FramesAre
    BY <1>1, <1>8
  <2>4. d # More /\ d # NoneLeft /\ \A take : d # Outcome("skip", take, <<>>)
    BY OutcomesDiffer
  <2>5. ASSUME NEW take \in 0..Len(buf), NEW body, NEW marked \in BOOLEAN, d = Return(take, body, marked)
        PROVE  LET frame == Frame(Take(buf, take), body, marked) IN
               /\ take = k /\ frame.raw = Take(buf, take)
               /\ Bodied' = IF body \in Bodies THEN Append(Bodied, frame) ELSE Bodied
               /\ Bodied \in Seq(FrameSet) /\ frame \in FrameSet
    BY <1>1, <1>4, <2>5, FrameStep, OutcomesDiffer
  <2>6. Len(buf) \in Nat /\ FALSE \in BOOLEAN
    BY <1>1, BufferIs
  <2>7. Bodied' = Bodied => FramesAre'
    BY <1>2, <2>3 DEF FramesAre
  <2>8. CASE Past
    <3>1. PICK take \in 0..Len(buf), marked \in BOOLEAN : d = Return(take, <<>>, marked)
      BY <1>1, <2>4, <2>8, PastIs
    <3>2. Bodied' = Bodied
      BY <2>5, <3>1, NothingIsNoMessage
    <3>3. ~(eof /\ buf = <<>>)
      BY <1>1, <2>4, EmptyDecides
    <3>4. mode = LengthMode => mode' = LengthMode
      BY DEF Mode, LengthMode, Undetected
    <3>6. Past'
      <4>1. \A i \in 1..Len(Stream) : i > Base + k => i > Base
        <5>1. Len(Stream) \in Nat /\ k \in Nat
          BY <1>1, <2>6, StreamIs
        <5> QED BY <1>6, <5>1
      <4> QED BY <1>2, <1>6, <2>8, <3>2, <3>3, <3>4, <4>1 DEF Past
    <3> QED BY <1>1, <1>6, <2>2, <2>7, <3>2, <3>6, StillFollows
  <2>9. ASSUME NEW r \in 0..m, Reading(m, cut, num, r) PROVE Follows' /\ FramesAre'
    <3>1. Len(Bodied) = num[r] /\ num[r] \in Nat /\ cut[r] \in Nat
      BY <2>2, <2>9, LayoutIs DEF Reading
    <3>2. r < m => r + 1 \in 0..m /\ cut[r + 1] \in Nat /\ num[r + 1] \in Nat /\ cut[r] < cut[r + 1]
      BY <2>2, LayoutIs
    <3>3. ASSUME r < m, Base = cut[r], k = cut[r + 1] - cut[r], Len(Bodied') = num[r + 1]
          PROVE  Follows'
      <4>1. Base' = cut[r + 1]
        BY <1>6, <3>1, <3>2, <3>3
      <4>2. ReadingNext(m, cut, num, r + 1)
        BY <3>2, <3>3, <4>1 DEF ReadingNext, Reading
      <4> QED BY <1>1, <1>6, <2>2, <3>2, <3>3, <4>2, StillFollows
    <3>4. CASE GivesMessage(m, cut, num, r)
      <4> DEFINE w == wrote[num[r + 1]]
                 size == cut[r + 1] - cut[r]
                 frame == Frame(Take(buf, size), w, FALSE)
      <4>1. /\ r < m /\ num[r + 1] = num[r] + 1 /\ Base = cut[r] /\ size <= Len(buf)
            /\ d = Return(size, w, FALSE)
        BY <3>4 DEF GivesMessage
      <4>2. Message(cut[r], cut[r + 1], num[r + 1])
        <5>1. num[r + 1] # num[r]
          BY <3>1, <4>1
        <5>2. Layout(m, cut, num)
          BY <2>2
        <5>3. \/ num[r + 1] = num[r] + 1 /\ Message(cut[r], cut[r + 1], num[r + 1])
              \/ num[r + 1] = num[r] /\ Filler(cut[r], cut[r + 1])
          BY <4>1, <5>2, LayoutIs
        <5> QED BY <5>1, <5>3
      <4>3. num[r + 1] \in 1..Len(wrote) /\ At(cut[r], Encode(w, peer)) /\ cut[r + 1] = cut[r] + Len(Encode(w, peer))
        BY <4>2 DEF Message
      <4>4. w \in Bodies /\ num[r + 1] \in DOMAIN wrote
        <5>1. PICK i : i = num[r + 1]
          OBVIOUS
        <5>2. wrote \in Seq(Bodies) /\ i \in 1..Len(wrote)
          BY <1>1, <4>3, <5>1 DEF Typed
        <5>3. wrote[i] \in Bodies /\ i \in DOMAIN wrote
          BY <5>2
        <5> QED BY <5>1, <5>3
      <4>5. Encode(w, peer) \in Seq(Tokens) /\ Len(Encode(w, peer)) \in Nat
        BY <4>4, EncodedIsBytes
      <4>6. size = Len(Encode(w, peer)) /\ size \in 0..Len(buf)
        <5>1. PICK a, b, c : a = cut[r] /\ b = cut[r + 1] /\ c = Len(Encode(w, peer))
          OBVIOUS
        <5>2. a \in Nat /\ c \in Nat /\ b = a + c /\ b - a <= Len(buf)
          BY <3>1, <4>1, <4>3, <4>5, <5>1
        <5>3. b - a = c /\ b - a \in 0..Len(buf)
          BY <2>6, <5>2
        <5> QED BY <5>1, <5>3
      <4>7. /\ size = k /\ frame.raw = Take(buf, size) /\ Bodied' = Append(Bodied, frame)
            /\ Bodied \in Seq(FrameSet) /\ frame \in FrameSet
        BY <2>5, <2>6, <4>1, <4>4, <4>6
      <4>8. Take(buf, size) = Encode(w, peer)
        <5>1. buf \in Seq(Tokens) /\ \A i \in 1..Len(buf) : buf[i] = Stream[Base + i]
          BY <1>1, BufferIs
        <5>2. PICK n \in 0..Len(buf) : n = size
          BY <4>6
        <5>3. Take(buf, n) \in Seq(Tokens) /\ Len(Take(buf, n)) = n /\ \A i \in 1..n : Take(buf, n)[i] = buf[i]
          BY <5>1, TakeAndDrop
        <5>4. PICK e \in Seq(Tokens) : e = Encode(w, peer)
          BY <4>5
        <5>5. Len(e) = n /\ \A i \in 1..n : Stream[cut[r] + i] = e[i]
          BY <4>3, <4>6, <5>2, <5>4 DEF At
        <5>6. \A i \in 1..n : buf[i] = e[i]
          <6>1. \A i \in 1..n : i \in 1..Len(buf)
            BY <2>6
          <6> QED BY <4>1, <5>1, <5>5, <6>1
        <5>7. PICK t \in Seq(Tokens) : t = Take(buf, n)
          BY <5>3
        <5>8. t = e
          <6>1. Len(t) = n /\ Len(e) = n /\ \A i \in 1..n : t[i] = e[i]
            BY <5>3, <5>5, <5>6, <5>7
          <6> QED BY <6>1, SeqEqual
        <5> QED BY <5>2, <5>4, <5>7, <5>8
      <4> HIDE DEF frame, size, w
      <4>9. /\ Len(Bodied') = num[r + 1] /\ Bodied'[num[r + 1]] = frame
            /\ \A i \in DOMAIN Bodied' : (i \in DOMAIN Bodied /\ Bodied'[i] = Bodied[i]) \/ i = num[r + 1]
        <5>1. PICK B, n, f : B = Bodied /\ n = num[r] /\ f = frame
          OBVIOUS
        <5>2. B \in Seq(FrameSet) /\ f \in FrameSet /\ Len(B) = n /\ n \in Nat
          BY <3>1, <4>7, <5>1
        <5>3. /\ Append(B, f) \in Seq(FrameSet) /\ Len(Append(B, f)) = n + 1 /\ Append(B, f)[n + 1] = f
              /\ \A i \in 1..n : Append(B, f)[i] = B[i]
          <6>1. B \in Seq(FrameSet) /\ f \in FrameSet /\ Len(B) = n
            BY <5>2
          <6>2. Len(Append(B, f)) = Len(B) + 1 /\ Append(B, f)[Len(B) + 1] = f
                /\ Append(B, f) \in Seq(FrameSet) /\ \A i \in 1..Len(B) : Append(B, f)[i] = B[i]
            BY <6>1, AppendProperties
          <6> QED BY <6>1, <6>2
        <5>4. DOMAIN Append(B, f) = 1..(n + 1) /\ DOMAIN B = 1..n /\ \A i \in 1..(n + 1) : i \in 1..n \/ i = n + 1
          BY <5>2, <5>3
        <5>5. Bodied' = Append(B, f) /\ num[r + 1] = n + 1
          BY <4>1, <4>7, <5>1
        <5> QED BY <5>1, <5>3, <5>4, <5>5
      <4>10. FramesAre'
        <5> SUFFICES ASSUME NEW i \in DOMAIN Bodied'
                     PROVE  \/ i \in DOMAIN wrote /\ Bodied'[i].raw = Encode(wrote[i], peer)
                            \/ closed /\ i = Len(wrote) + 1 /\ Bodied'[i].raw \in Bodies
          BY <1>2 DEF FramesAre
        <5>1. CASE i \in DOMAIN Bodied /\ Bodied'[i] = Bodied[i]
          BY <2>3, <5>1 DEF FramesAre
        <5>2. CASE i = num[r + 1]
          BY <4>4, <4>7, <4>8, <4>9, <5>2 DEF w
        <5> QED BY <4>9, <5>1, <5>2
      <4>11. Follows'
        BY <3>3, <4>1, <4>7, <4>9 DEF size
      <4> QED BY <4>10, <4>11
    <3>5. CASE GivesBlock(m, cut, num, r)
      <4>1. /\ r < m /\ num[r + 1] = num[r] /\ Base = cut[r] /\ cut[r + 1] - cut[r] <= Len(buf)
            /\ \E marked \in BOOLEAN : d = Return(cut[r + 1] - cut[r], <<>>, marked)
        BY <3>5 DEF GivesBlock
      <4>2. cut[r + 1] - cut[r] \in 0..Len(buf)
        <5>1. PICK a, b : a = cut[r] /\ b = cut[r + 1]
          OBVIOUS
        <5>2. a \in Nat /\ b \in Nat /\ a < b /\ b - a <= Len(buf)
          BY <3>1, <3>2, <4>1, <5>1
        <5>3. b - a \in 0..Len(buf)
          BY <2>6, <5>2
        <5> QED BY <5>1, <5>3
      <4>3. PICK n \in 0..Len(buf) : n = cut[r + 1] - cut[r]
        BY <4>2
      <4>4. k = cut[r + 1] - cut[r] /\ Bodied' = Bodied
        BY <2>5, <4>1, <4>3, NothingIsNoMessage
      <4>5. Len(Bodied') = num[r + 1]
        BY <3>1, <4>1, <4>4
      <4>6. Follows'
        BY <3>3, <4>1, <4>4, <4>5
      <4> QED BY <2>7, <4>4, <4>6
    <3>6. CASE GivesRest(m, r)
      <4>1. PICK body \in {<<>>, buf} : r = m /\ closed /\ eof /\ d = Return(Len(buf), body, FALSE)
        BY <3>6 DEF GivesRest
      <4>2. PICK n \in 0..Len(buf) : n = Len(buf)
        BY <2>6
      <4> DEFINE frame == Frame(Take(buf, n), body, FALSE)
      <4>3. /\ n = k /\ frame.raw = Take(buf, n)
            /\ Bodied' = IF body \in Bodies THEN Append(Bodied, frame) ELSE Bodied
            /\ Bodied \in Seq(FrameSet)
        BY <2>5, <2>6, <4>1, <4>2
      <4> HIDE DEF frame
      <4>4. buf \in Seq(Tokens) /\ Take(buf, n) = buf
        <5>1. buf \in Seq(Tokens)
          BY <1>1, BufferIs
        <5> QED BY <4>2, <5>1, SubSeqFull DEF Take
      <4>5. num[m] = Len(wrote)
        BY <2>2 DEF Layout
      <4>6. Len(Bodied') >= Len(wrote)
        BY <3>1, <4>1, <4>3, <4>5
      <4>7. eof' /\ buf' = <<>>
        <5>1. Len(buf') = 0 /\ buf' \in Seq(Tokens)
          <6>1. buf' = Drop(buf, n) /\ Len(buf) - n = 0
            BY <1>5, <2>6, <4>2, <4>3
          <6> QED BY <4>4, <6>1, DropIs
        <5> QED BY <1>5, <4>1, <5>1
      <4>8. Past'
        BY <1>2, <4>1, <4>6, <4>7 DEF Past
      <4>9. FramesAre'
        <5> SUFFICES ASSUME NEW i \in DOMAIN Bodied', body \in Bodies
                     PROVE  \/ i \in DOMAIN wrote /\ Bodied'[i].raw = Encode(wrote[i], peer)
                            \/ closed /\ i = Len(wrote) + 1 /\ Bodied'[i].raw \in Bodies
          BY <1>2, <2>7, <4>3 DEF FramesAre
        <5>1. body = buf
          BY <4>1, NothingIsNoMessage
        <5>2. \/ i \in DOMAIN Bodied /\ Bodied'[i] = Bodied[i]
              \/ i = Len(Bodied) + 1 /\ Bodied'[i] = frame
          BY <4>3
        <5>3. CASE i \in DOMAIN Bodied /\ Bodied'[i] = Bodied[i]
          BY <2>3, <5>3 DEF FramesAre
        <5>4. CASE i = Len(Bodied) + 1 /\ Bodied'[i] = frame
          BY <3>1, <4>1, <4>3, <4>4, <4>5, <5>1, <5>4
        <5> QED BY <5>2, <5>3, <5>4
      <4> QED BY <1>1, <1>6, <2>2, <4>8, <4>9, StillFollows
    <3>7. CASE DropsHeader(m, r)
      <4>1. PICK marked \in BOOLEAN : d = Return(3, <<>>, marked)
        BY <3>7 DEF DropsHeader
      <4>2. /\ r = m /\ closed /\ peer = LengthMode /\ Mode = LengthMode /\ Len(buf) >= 3
            /\ \A i \in 1..Len(Stream) : i > Base + 3 => ~IsLenLine(Stream[i])
        BY <3>7 DEF DropsHeader
      <4>3. 3 \in 0..Len(buf)
        BY <2>6, <4>2
      <4>4. k = 3 /\ Bodied' = Bodied
        BY <2>5, <4>1, <4>3, NothingIsNoMessage
      <4>5. num[m] = Len(wrote) /\ Len(Bodied') >= Len(wrote)
        BY <2>2, <3>1, <4>2, <4>4 DEF Layout
      <4>6. Past'
        BY <1>2, <1>6, <4>2, <4>4, <4>5 DEF Past
      <4> QED BY <1>1, <1>6, <2>2, <2>7, <4>4, <4>6, StillFollows
    <3>8. ~SkipsBlanks(m, cut, num, r) /\ ~Ends(num, r) /\ ~Waits(m, cut, r)
      BY <2>4 DEF SkipsBlanks, Ends, Waits
    <3> QED BY <1>1, <1>8, <2>2, <2>9, <3>4, <3>5, <3>6, <3>7, <3>8, Pieces
  <2> QED BY <2>2, <2>8, <2>9
<1> QED BY <1>1, <1>6, <1>7, <1>8 DEF FollowsInv

LEMMA SkipFollows ==
  ASSUME FollowsInv, Typed', UNCHANGED peerVars, mode' = Mode,
         NEW d, d = Decision, d.do = "skip", SkipBlankLine(d)
  PROVE  FollowsInv'
<1>1. Typed /\ Placed /\ ModeKnown /\ FittingBodiesAreInspected /\ (InStep => Follows /\ FramesAre)
  BY DEF FollowsInv
<1>2. UNCHANGED <<peer, side, wrote, ends, noise, closed>>
  BY DEF peerVars
<1>3. Sound(d) /\ d # More /\ d # NoneLeft /\ \A take, body, marked : d # Return(take, body, marked)
  BY <1>1, DecisionIsSound, OutcomesDiffer DEF Typed
<1>4. Mode # Undetected
  BY <1>3, UndetectedDecides
<1>5. PICK k \in 0..Len(buf) : k = d.take
  BY <1>3 DEF Sound
<1>6. buf' = Drop(buf, k) /\ got' = got /\ pipe' = pipe /\ eof' = eof /\ frames' = frames
  BY <1>5 DEF SkipBlankLine
<1>7. /\ Stream' = Stream /\ Base' = Base + k /\ Base \in Nat
      /\ Placed' /\ ModeKnown' /\ Extends /\ InStep' = InStep
  BY <1>4, <1>6, CutStep
<1>8. FittingBodiesAreInspected'
  BY <1>1, <1>2, <1>6, FittingStays
<1>9. ASSUME InStep PROVE Follows' /\ FramesAre'
  <2>1. FramesAre' /\ Bodied' = Bodied
    BY <1>1, <1>6, <1>9, FramesStay
  <2>2. PICK m \in Nat : \E cut \in [0..m -> Nat] : \E num \in [0..m -> Nat] :
          Layout(m, cut, num) /\ Unfinished(cut[m]) /\ (Past \/ \E r \in 0..m : Reading(m, cut, num, r))
    BY <1>1, <1>9 DEF Follows
  <2>3. PICK cut \in [0..m -> Nat], num \in [0..m -> Nat] :
          Layout(m, cut, num) /\ Unfinished(cut[m]) /\ (Past \/ \E r \in 0..m : Reading(m, cut, num, r))
    BY <2>2
  <2>4. ~Past
    BY <1>1, <1>3, PastIs
  <2>5. PICK r \in 0..m : Reading(m, cut, num, r)
    BY <2>3, <2>4
  <2>6. SkipsBlanks(m, cut, num, r)
    <3>1. /\ ~GivesMessage(m, cut, num, r) /\ ~GivesBlock(m, cut, num, r)
          /\ ~GivesRest(m, r) /\ ~DropsHeader(m, r) /\ ~Ends(num, r) /\ ~Waits(m, cut, r)
      BY <1>3 DEF GivesMessage, GivesBlock, GivesRest, DropsHeader, Ends, Waits
    <3> QED BY <1>1, <1>9, <2>3, <2>5, <3>1, Pieces
  <2>7. /\ r < m /\ num[r + 1] = num[r] /\ peer = NewlineMode
        /\ \E take \in 1..Len(buf) : Base + take <= cut[r + 1] /\ d = Outcome("skip", take, <<>>)
    BY <2>6 DEF SkipsBlanks
  <2>8. Base + k <= cut[r + 1] /\ k > 0
    BY <1>5, <2>7, OutcomesDiffer
  <2>9. r + 1 \in 0..m /\ cut[r + 1] \in Nat /\ cut[r] \in Nat /\ cut[r] < cut[r + 1]
    BY <2>3, <2>7, LayoutIs
  <2>10. Len(Bodied) = num[r] /\ cut[r] <= Base
    BY <2>5 DEF Reading
  <2>11. CASE Base + k = cut[r + 1]
    <3>1. ReadingNext(m, cut, num, r + 1)
      BY <1>7, <2>1, <2>7, <2>9, <2>10, <2>11 DEF ReadingNext, Reading
    <3> QED BY <1>1, <1>7, <2>1, <2>3, <2>9, <3>1, StillFollows
  <2>12. CASE Base + k # cut[r + 1]
    <3>k. k \in Nat
      <4>1. Len(buf) \in Nat
        BY <1>1, BufferIs
      <4> QED BY <4>1
    <3>a. PICK a : a = cut[r]
      OBVIOUS
    <3>b. PICK b : b = cut[r + 1]
      OBVIOUS
    <3>c. PICK c : c = Base
      OBVIOUS
    <3>d. c + k <= b /\ b \in Nat /\ a \in Nat /\ c \in Nat /\ a <= c /\ c + k # b
      BY <1>7, <2>8, <2>9, <2>10, <2>12, <3>a, <3>b, <3>c
    <3>e. c + k < b /\ a <= c + k
      BY <3>k, <3>d
    <3>1. Base + k < cut[r + 1] /\ cut[r] <= Base + k
      BY <3>e, <3>a, <3>b, <3>c
    <3>2. ReadingNext(m, cut, num, r)
      BY <1>2, <1>7, <2>1, <2>7, <2>10, <3>1 DEF ReadingNext, Reading
    <3> QED BY <1>1, <1>7, <2>1, <2>3, <3>2, StillFollows
  <2> QED BY <2>11, <2>12
<1> QED BY <1>1, <1>7, <1>8, <1>9 DEF FollowsInv

LEMMA EndFollows ==
  ASSUME FollowsInv, Typed', UNCHANGED peerVars, mode' = Mode,
         NEW d, d = Decision, d.do = "end", ReturnNone
  PROVE  FollowsInv'
<1>1. Typed /\ Placed /\ ModeKnown /\ FittingBodiesAreInspected /\ (InStep => Follows /\ FramesAre)
  BY DEF FollowsInv
<1>2. UNCHANGED <<peer, side, wrote, ends, noise, closed>>
  BY DEF peerVars
<1>3. Sound(d) /\ d # More /\ \A n : d # Outcome("skip", n, <<>>)
      /\ \A take, body, marked : d # Return(take, body, marked)
  BY <1>1, DecisionIsSound, OutcomesDiffer DEF Typed
<1>4. eof /\ closed
  BY <1>1, <1>3 DEF Sound, Typed
<1>5. buf' = <<>> /\ Len(buf') = 0 /\ got' = got /\ pipe' = pipe /\ eof' = eof /\ frames' = frames
  BY DEF ReturnNone
<1>6. Stream' = Stream
  BY <1>5 DEF Stream
<1>7. Mode = Undetected => Len(got') = 0
  <2> SUFFICES ASSUME Mode = Undetected PROVE Len(got') = 0
    OBVIOUS
  <2>1. buf = <<>> /\ mode = Undetected
    BY <1>1, <1>4, ModeIs
  <2>2. Len(buf) = Len(got)
    BY <1>1, <2>1 DEF ModeKnown
  <2>3. Len(<<>>) = 0
    OBVIOUS
  <2> QED BY <1>5, <2>1, <2>2, <2>3
<1>8. Len(got) \in Nat
  BY <1>1, StreamIs
<1>9. Placed' /\ ModeKnown' /\ Extends /\ InStep' = InStep
  <2>1. Len(buf') <= Len(got') /\ \A i \in 1..Len(buf') : buf'[i] = Stream[Base' + i]
    BY <1>5, <1>8
  <2>2. Mode = Undetected => Len(buf') = Len(got')
    BY <1>5, <1>7
  <2> QED BY <1>1, <1>6, <2>1, <2>2, StreamStaysKnown
<1>10. FittingBodiesAreInspected'
  BY <1>1, <1>2, <1>5, FittingStays
<1>11. ASSUME InStep PROVE Follows' /\ FramesAre'
  <2>1. FramesAre' /\ Bodied' = Bodied
    BY <1>1, <1>5, <1>11, FramesStay
  <2>2. PICK m \in Nat : \E cut \in [0..m -> Nat] : \E num \in [0..m -> Nat] :
          Layout(m, cut, num) /\ Unfinished(cut[m]) /\ (Past \/ \E r \in 0..m : Reading(m, cut, num, r))
    BY <1>1, <1>11 DEF Follows
  <2>3. PICK cut \in [0..m -> Nat], num \in [0..m -> Nat] :
          Layout(m, cut, num) /\ Unfinished(cut[m]) /\ (Past \/ \E r \in 0..m : Reading(m, cut, num, r))
    BY <2>2
  <2>4. Len(Bodied) >= Len(wrote)
    <3>1. CASE Past
      BY <3>1 DEF Past
    <3>2. ASSUME NEW r \in 0..m, Reading(m, cut, num, r) PROVE Len(Bodied) >= Len(wrote)
      <4>1. /\ ~GivesMessage(m, cut, num, r) /\ ~GivesBlock(m, cut, num, r) /\ ~SkipsBlanks(m, cut, num, r)
            /\ ~GivesRest(m, r) /\ ~DropsHeader(m, r) /\ ~Waits(m, cut, r)
        BY <1>3 DEF GivesMessage, GivesBlock, GivesRest, DropsHeader, SkipsBlanks, Waits
      <4>2. Ends(num, r)
        BY <1>1, <1>11, <2>3, <3>2, <4>1, Pieces
      <4>3. num[r] \in Nat
        BY <2>3, LayoutIs
      <4> QED BY <3>2, <4>2, <4>3 DEF Ends, Reading
    <3> QED BY <2>3, <3>1, <3>2
  <2>5. Past'
    BY <1>2, <1>4, <1>5, <2>1, <2>4 DEF Past
  <2> QED BY <1>1, <1>6, <1>9, <2>1, <2>3, <2>5, StillFollows
<1> QED BY <1>1, <1>9, <1>10, <1>11 DEF FollowsInv

LEMMA ReaderFollows ==
  ASSUME FollowsInv, Typed', Reader
  PROVE  FollowsInv'
<1>1. PICK d : d = Decision
  OBVIOUS
<1>2. /\ mode' = Mode /\ UNCHANGED peerVars
      /\ \/ (\E n \in DOMAIN pipe : Receive(n)) \/ ReceiveEof
         \/ d.do = "frame" /\ ReturnFrame(d)
         \/ d.do = "skip" /\ SkipBlankLine(d)
         \/ d.do = "end" /\ ReturnNone
  BY <1>1 DEF Reader
<1> QED BY <1>1, <1>2, FillFollows, FrameFollows, SkipFollows, EndFollows

LEMMA InitFollows == Init => FollowsInv
<1> SUFFICES ASSUME Init PROVE FollowsInv
  OBVIOUS
<1>1. Typed
  BY InitStream DEF StreamInv
<1>2. /\ wrote = <<>> /\ ends = <<>> /\ pipe = <<>> /\ got = <<>> /\ buf = <<>> /\ frames = <<>>
      /\ mode = Undetected /\ peer \in {NewlineMode, LengthMode} /\ closed = FALSE
  BY DEF Init
<1>3. Len(<<>>) = 0 /\ <<>> \in Seq(Nat) /\ DOMAIN <<>> = {} /\ <<>> \o <<>> = <<>>
  OBVIOUS
<1>4. Stream = <<>> /\ Base = 0 /\ Bodied = <<>>
  BY <1>2, <1>3, NoMessageYet DEF Stream, Base, Bodied
<1>5. Placed /\ ModeKnown
  BY <1>2, <1>3, <1>4 DEF Placed, ModeKnown
<1>6. FittingBodiesAreInspected /\ FramesAre
  BY <1>2, <1>3, <1>4 DEF FittingBodiesAreInspected, FramesAre
<1>7. Follows
  <2> DEFINE cut == [j \in 0..0 |-> 0]
  <2>1. cut \in [0..0 -> Nat] /\ cut[0] = 0 /\ 0 \in 0..0 /\ 0 \in Nat
    OBVIOUS
  <2> HIDE DEF cut
  <2>2. Layout(0, cut, cut)
    <3>1. \A j, k \in 0..0 : ~(j < k)
      OBVIOUS
    <3>2. 0..(0 - 1) = {} /\ 1..0 = {}
      OBVIOUS
    <3> QED BY <1>2, <1>3, <1>4, <2>1, <3>1, <3>2 DEF Layout
  <2>3. Unfinished(cut[0])
    BY <1>3, <1>4, <2>1 DEF Unfinished
  <2>4. Reading(0, cut, cut, 0)
    BY <1>3, <1>4, <2>1 DEF Reading
  <2> QED BY <2>1, <2>2, <2>3, <2>4 DEF Follows
<1> QED BY <1>1, <1>5, <1>6, <1>7 DEF FollowsInv

LEMMA StutterFollows ==
  ASSUME FollowsInv, UNCHANGED vars
  PROVE  FollowsInv'
<1>1. UNCHANGED <<peer, side, wrote, ends, noise, pipe, closed, got, buf, eof, mode, out, frames, ended>>
  BY DEF vars
<1>2. Typed' /\ Placed' /\ ModeKnown' /\ FittingBodiesAreInspected'
  BY <1>1 DEF FollowsInv, Typed, Placed, ModeKnown, FittingBodiesAreInspected, Stream, Base
<1>3. InStep' = InStep /\ FramesAre' = FramesAre
  BY <1>1 DEF InStep, Oversized, FramesAre, Bodied
<1>4. Follows' = Follows
  BY <1>1 DEF Follows, Layout, Message, Filler, At, Unfinished, Reading, Past, Stream, Base, Bodied, Sendable
<1> QED BY <1>2, <1>3, <1>4 DEF FollowsInv

LEMMA StepFollows ==
  ASSUME StreamInv, FollowsInv, [Next]_vars
  PROVE  FollowsInv'
<1>1. StreamInv'
  BY ReaderKeepsStream, PeerKeepsStream, StutterKeepsStream DEF Next, Over
<1>2. Typed'
  BY <1>1 DEF StreamInv
<1> QED BY <1>2, WriteFollows, NoiseFollows, CloseFollows, ReaderFollows, StutterFollows DEF Next, Over

-----------------------------------------------------------------------------
(* The invariant, for every set of messages and noise, every cap and      *)
(* window: the reader has returned what was cut off, and stands at a cut.  *)
THEOREM ReaderFollowsThePeer == Spec => [](StreamInv /\ FollowsInv)
<1>1. Init => StreamInv /\ FollowsInv
  BY InitStream, InitFollows
<1>2. StreamInv /\ FollowsInv /\ [Next]_vars => StreamInv' /\ FollowsInv'
  <2> SUFFICES ASSUME StreamInv, FollowsInv, [Next]_vars PROVE StreamInv' /\ FollowsInv'
    OBVIOUS
  <2>1. StreamInv'
    BY ReaderKeepsStream, PeerKeepsStream, StutterKeepsStream DEF Next, Over
  <2> QED BY <2>1, StepFollows
<1> QED BY <1>1, <1>2, PTL DEF Spec

(* The frames that parse are the messages the peer wrote, in order and in  *)
(* their own bytes, as long as no length it declares is above the cap; and *)
(* on the way to the client a body that fits the cap is never taken for    *)
(* one above it (read_frame of framing.py, the size test of guard.py).     *)
THEOREM FramesAreTheMessages == Spec => []FramesAreMessages
<1>1. FollowsInv => FramesAreMessages
  BY DEF FollowsInv, FramesAre, FramesAreMessages
<1> QED BY <1>1, ReaderFollowsThePeer, PTL

LEMMA NothingIsHeldBack ==
  ASSUME FollowsInv, InStep, Decision.do = "fill", NEW i \in DOMAIN ends, ends[i] <= Len(got)
  PROVE  i <= Len(Bodied)
<1>1. Typed /\ Placed /\ ModeKnown /\ Follows
  BY DEF FollowsInv
<1>2. ends \in Seq(Nat) /\ Len(ends) = Len(wrote) /\ i \in 1..Len(wrote) /\ Len(wrote) \in Nat
  BY <1>1 DEF Placed, Typed
<1>3. frames \in Seq(FrameSet)
  BY <1>1 DEF Typed
<1>4. PICK m \in Nat : \E cut \in [0..m -> Nat] : \E num \in [0..m -> Nat] :
        Layout(m, cut, num) /\ Unfinished(cut[m]) /\ (Past \/ \E r \in 0..m : Reading(m, cut, num, r))
  BY <1>1 DEF Follows
<1>5. PICK cut \in [0..m -> Nat], num \in [0..m -> Nat] :
        Layout(m, cut, num) /\ Unfinished(cut[m]) /\ (Past \/ \E r \in 0..m : Reading(m, cut, num, r))
  BY <1>4
<1>6. Len(Bodied) \in Nat
  <2>1. PICK f \in [0..Len(frames) -> Seq(FrameSet)] : Messages(frames) = f[Len(frames)]
    BY <1>3, MessagesAreCounted
  <2>2. Len(frames) \in 0..Len(frames)
    BY <1>3
  <2>3. Bodied \in Seq(FrameSet)
    BY <2>1, <2>2 DEF Bodied
  <2> QED BY <2>3
<1>7. CASE Past
  BY <1>2, <1>6, <1>7 DEF Past
<1>8. ASSUME NEW r \in 0..m, Reading(m, cut, num, r) PROVE i <= Len(Bodied)
  <2>1. Waits(m, cut, r)
    <3>1. Decision # NoneLeft /\ (\A take : Decision # Outcome("skip", take, <<>>))
          /\ \A take, body, marked : Decision # Return(take, body, marked)
      BY OutcomesDiffer
    <3>2. /\ ~GivesMessage(m, cut, num, r) /\ ~GivesBlock(m, cut, num, r) /\ ~SkipsBlanks(m, cut, num, r)
          /\ ~GivesRest(m, r) /\ ~DropsHeader(m, r) /\ ~Ends(num, r)
      BY <3>1 DEF GivesMessage, GivesBlock, GivesRest, DropsHeader, SkipsBlanks, Ends
    <3> QED BY <1>1, <1>5, <1>8, <3>2, Pieces
  <2>2. PICK j \in 0..(m - 1) : num[j] = i - 1 /\ num[j + 1] = i /\ cut[j + 1] = ends[i]
    BY <1>2, <1>5 DEF Layout
  <2>3. \A k, l \in 0..m : k < l => cut[k] < cut[l] /\ num[k] <= num[l]
    BY <1>5 DEF Layout
  <2>4. j + 1 \in 0..m /\ j \in 0..m /\ Len(Bodied) = num[r]
    BY <1>8 DEF Reading
  <2>5. \A k \in 0..m : cut[k] \in Nat /\ num[k] \in Nat
    OBVIOUS
  <2>6. CASE j + 1 <= r
    <3>1. num[j + 1] <= num[r]
      <4>1. j + 1 < r \/ j + 1 = r
        BY <2>4, <2>6
      <4> QED BY <2>3, <2>4, <2>5, <4>1
    <3> QED BY <2>2, <2>4, <3>1
  <2>7. CASE ~(j + 1 <= r)
    <3>1. r < m /\ r + 1 \in 0..m /\ (r + 1 < j + 1 \/ r + 1 = j + 1)
      BY <2>4, <2>7
    <3>2. cut[r + 1] <= cut[j + 1]
      BY <2>3, <2>4, <2>5, <3>1
    <3>3. Len(got) < cut[r + 1] /\ Len(got) \in Nat
      BY <1>1, <2>1, <3>1, StreamIs DEF Waits
    <3>4. FALSE
      BY <2>2, <2>4, <2>5, <3>1, <3>2, <3>3
    <3> QED BY <3>4
  <2> QED BY <2>6, <2>7
<1> QED BY <1>5, <1>7, <1>8

(* The reader never asks for more bytes while it holds a whole message     *)
(* (the loops of read_frame): every message that has arrived in full has   *)
(* been returned when it waits.                                            *)
THEOREM ReaderNeverStalls == Spec => []NoStall
<1>1. FollowsInv => NoStall
  BY NothingIsHeldBack DEF NoStall
<1> QED BY <1>1, ReaderFollowsThePeer, PTL
=============================================================================
