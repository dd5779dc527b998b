----------------------------- MODULE FilesProofs ----------------------------
(***************************************************************************)
(* The file calls, for every file, array of buffers, offset and buffer     *)
(* size: outside the named gaps they are the plain calls of ByteFile.      *)
(***************************************************************************)
EXTENDS Files, FiniteSetTheorems, WellFoundedInduction, TLAPS

----------------------------------------------------------------------------
(* Loops over an array.                                                    *)

\* What holds of zero and of the next number holds up to N.
LEMMA UpTo ==
  ASSUME NEW S, NEW N \in Nat, 0 \in S, \A n \in 0 .. N - 1 : n \in S => n + 1 \in S
  PROVE  \A n \in 0 .. N : n \in S
<1> DEFINE Out == {n \in 0 .. N : n \notin S}
<1> SUFFICES ASSUME Out # {} PROVE FALSE
  OBVIOUS
<1>1. Out \subseteq Nat
  OBVIOUS
<1>2. PICK n \in Out : \A k \in Out : <<k, n>> \notin OpToRel(<, Nat)
  <2> HIDE DEF Out
  <2> QED BY <1>1, WFMin, NatLessThanWellFounded
<1>3. n # 0 /\ n - 1 \in 0 .. N - 1
  OBVIOUS
<1>4. n - 1 \in Out
  BY <1>3
<1>5. <<n - 1, n>> \in OpToRel(<, Nat)
  BY <1>3 DEF OpToRel
<1> QED BY <1>2, <1>4, <1>5

\* The concatenation of the buffers grows by one buffer at a time, ...
LEMMA JoiningEquation ==
  ASSUME NEW iovs \in Seq(Seq(Byte))
  PROVE  /\ Joining(iovs)[0] = <<>>
         /\ \A n \in 1 .. Len(iovs) :
              Joining(iovs)[n] = Joining(iovs)[n - 1] \o iovs[n]
<1> DEFINE Then(acc, p) == acc \o p
           Folds(f, N) == f = [n \in 0 .. N |-> IF n = 0 THEN <<>>
                                            ELSE Then(f[n - 1], iovs[n])]
           S == {N \in Nat : \E f : Folds(f, N)}
<1> HIDE DEF Then
<1>1. 0 \in S
  <2>1. Folds([n \in 0 .. 0 |-> <<>>], 0)
    OBVIOUS
  <2> QED BY <2>1
<1>2. ASSUME NEW N \in Nat, NEW f, Folds(f, N) PROVE \E g : Folds(g, N + 1)
  <2> DEFINE g == [n \in 0 .. N + 1 |-> IF n = N + 1 THEN Then(f[N], iovs[N + 1]) ELSE f[n]]
  <2>1. ASSUME NEW n \in 0 .. N + 1
        PROVE  g[n] = IF n = 0 THEN <<>> ELSE Then(g[n - 1], iovs[n])
    <3>1. CASE n = N + 1
      <4>1. n - 1 = N /\ g[n - 1] = f[N]
        BY <3>1
      <4> QED BY <3>1, <4>1
    <3>2. CASE n \in 1 .. N
      <4>1. n \in 0 .. N /\ n - 1 \in 0 .. N /\ n # 0 /\ n # N + 1 /\ n - 1 # N + 1
        BY <3>2
      <4>2. g[n] = f[n] /\ g[n - 1] = f[n - 1]
        BY <4>1
      <4>3. f[n] = Then(f[n - 1], iovs[n])
        BY <1>2, <4>1
      <4> QED BY <4>1, <4>2, <4>3
    <3>3. CASE n = 0
      BY <1>2, <3>3
    <3> QED BY <3>1, <3>2, <3>3
  <2>2. g = [n \in 0 .. N + 1 |-> g[n]]
    OBVIOUS
  <2>3. Folds(g, N + 1)
    <3> HIDE DEF g
    <3> QED BY <2>1, <2>2
  <2> QED BY <2>3
<1> HIDE DEF Folds
<1> DEFINE N == Len(iovs)
<1>3. N \in Nat
  OBVIOUS
<1>4. \A n \in 0 .. N - 1 : n \in S => n + 1 \in S
  BY <1>2
<1>5. N \in S
  <2> HIDE DEF S, N
  <2>1. \A n \in 0 .. N : n \in S
    BY <1>1, <1>3, <1>4, UpTo
  <2> QED BY <1>3, <2>1
<1>6. Folds(Joining(iovs), N)
  BY <1>5 DEF Folds, Joining, Then
<1> DEFINE F == Joining(iovs)
<1> HIDE DEF N, F
<1>7. \A n \in 0 .. N : F[n] = IF n = 0 THEN <<>> ELSE Then(F[n - 1], iovs[n])
  BY <1>6 DEF Folds, F
<1>8. F[0] = <<>> /\ \A n \in 1 .. N : F[n] = Then(F[n - 1], iovs[n])
  BY <1>3, <1>7
<1> QED BY <1>8 DEF F, N, Then

\* ... and the number of bytes asked for by one length.
LEMMA AddingEquation ==
  ASSUME NEW lens \in Seq(Nat)
  PROVE  /\ Adding(lens)[0] = 0
         /\ \A n \in 1 .. Len(lens) :
              Adding(lens)[n] = Adding(lens)[n - 1] + lens[n]
<1> DEFINE Folds(f, N) == f = [n \in 0 .. N |-> IF n = 0 THEN 0
                                            ELSE f[n - 1] + lens[n]]
           S == {N \in Nat : \E f : Folds(f, N)}
<1>1. 0 \in S
  <2>1. Folds([n \in 0 .. 0 |-> 0], 0)
    OBVIOUS
  <2> QED BY <2>1
<1>2. ASSUME NEW N \in Nat, NEW f, Folds(f, N) PROVE \E g : Folds(g, N + 1)
  <2> DEFINE g == [n \in 0 .. N + 1 |-> IF n = N + 1 THEN f[N] + lens[N + 1] ELSE f[n]]
  <2>1. ASSUME NEW n \in 0 .. N + 1
        PROVE  g[n] = IF n = 0 THEN 0 ELSE g[n - 1] + lens[n]
    <3>1. CASE n = N + 1
      <4>1. n - 1 = N /\ g[n - 1] = f[N]
        BY <3>1
      <4> QED BY <3>1, <4>1
    <3>2. CASE n \in 1 .. N
      <4>1. n \in 0 .. N /\ n - 1 \in 0 .. N /\ n # 0 /\ n # N + 1 /\ n - 1 # N + 1
        BY <3>2
      <4>2. g[n] = f[n] /\ g[n - 1] = f[n - 1]
        BY <4>1
      <4>3. f[n] = f[n - 1] + lens[n]
        BY <1>2, <4>1
      <4> QED BY <4>1, <4>2, <4>3
    <3>3. CASE n = 0
      BY <1>2, <3>3
    <3> QED BY <3>1, <3>2, <3>3
  <2>2. g = [n \in 0 .. N + 1 |-> g[n]]
    OBVIOUS
  <2>3. Folds(g, N + 1)
    <3> HIDE DEF g
    <3> QED BY <2>1, <2>2
  <2> QED BY <2>3
<1> HIDE DEF Folds
<1> DEFINE N == Len(lens)
<1>3. N \in Nat
  OBVIOUS
<1>4. \A n \in 0 .. N - 1 : n \in S => n + 1 \in S
  BY <1>2
<1>5. N \in S
  <2> HIDE DEF S, N
  <2>1. \A n \in 0 .. N : n \in S
    BY <1>1, <1>3, <1>4, UpTo
  <2> QED BY <1>3, <2>1
<1>6. Folds(Adding(lens), N)
  BY <1>5 DEF Folds, Adding
<1> DEFINE F == Adding(lens)
<1> HIDE DEF N, F
<1>7. \A n \in 0 .. N : F[n] = IF n = 0 THEN 0 ELSE F[n - 1] + lens[n]
  BY <1>6 DEF Folds, F
<1>8. F[0] = 0 /\ \A n \in 1 .. N : F[n] = F[n - 1] + lens[n]
  BY <1>3, <1>7
<1> QED BY <1>8 DEF F, N

\* A vectored read takes one buffer after the other, ...
LEMMA ReadingEquation ==
  ASSUME NEW s, NEW off, NEW lens \in Seq(Nat)
  PROVE  /\ Reading(s, off, lens)[0] = [got |-> <<>>, short |-> FALSE]
         /\ \A n \in 1 .. Len(lens) :
              Reading(s, off, lens)[n] = ReadBuf(s, off, Reading(s, off, lens)[n - 1], lens[n])
<1> DEFINE Folds(f, N) == f = [n \in 0 .. N |-> IF n = 0 THEN [got |-> <<>>, short |-> FALSE]
                                            ELSE ReadBuf(s, off, f[n - 1], lens[n])]
           S == {N \in Nat : \E f : Folds(f, N)}
<1>1. 0 \in S
  <2>1. Folds([n \in 0 .. 0 |-> [got |-> <<>>, short |-> FALSE]], 0)
    OBVIOUS
  <2> QED BY <2>1
<1>2. ASSUME NEW N \in Nat, NEW f, Folds(f, N) PROVE \E g : Folds(g, N + 1)
  <2> DEFINE g == [n \in 0 .. N + 1 |-> IF n = N + 1 THEN ReadBuf(s, off, f[N], lens[N + 1]) ELSE f[n]]
  <2>1. ASSUME NEW n \in 0 .. N + 1
        PROVE  g[n] = IF n = 0 THEN [got |-> <<>>, short |-> FALSE] ELSE ReadBuf(s, off, g[n - 1], lens[n])
    <3>1. CASE n = N + 1
      <4>1. n - 1 = N /\ g[n - 1] = f[N]
        BY <3>1
      <4> QED BY <3>1, <4>1
    <3>2. CASE n \in 1 .. N
      <4>1. n \in 0 .. N /\ n - 1 \in 0 .. N /\ n # 0 /\ n # N + 1 /\ n - 1 # N + 1
        BY <3>2
      <4>2. g[n] = f[n] /\ g[n - 1] = f[n - 1]
        BY <4>1
      <4>3. f[n] = ReadBuf(s, off, f[n - 1], lens[n])
        BY <1>2, <4>1
      <4> QED BY <4>1, <4>2, <4>3
    <3>3. CASE n = 0
      BY <1>2, <3>3
    <3> QED BY <3>1, <3>2, <3>3
  <2>2. g = [n \in 0 .. N + 1 |-> g[n]]
    OBVIOUS
  <2>3. Folds(g, N + 1)
    <3> HIDE DEF g
    <3> QED BY <2>1, <2>2
  <2> QED BY <2>3
<1> HIDE DEF Folds
<1> DEFINE N == Len(lens)
<1>3. N \in Nat
  OBVIOUS
<1>4. \A n \in 0 .. N - 1 : n \in S => n + 1 \in S
  BY <1>2
<1>5. N \in S
  <2> HIDE DEF S, N
  <2>1. \A n \in 0 .. N : n \in S
    BY <1>1, <1>3, <1>4, UpTo
  <2> QED BY <1>3, <2>1
<1>6. Folds(Reading(s, off, lens), N)
  BY <1>5 DEF Folds, Reading
<1> DEFINE F == Reading(s, off, lens)
<1> HIDE DEF N, F
<1>7. \A n \in 0 .. N : F[n] = IF n = 0 THEN [got |-> <<>>, short |-> FALSE] ELSE ReadBuf(s, off, F[n - 1], lens[n])
  BY <1>6 DEF Folds, F
<1>8. F[0] = [got |-> <<>>, short |-> FALSE] /\ \A n \in 1 .. N : F[n] = ReadBuf(s, off, F[n - 1], lens[n])
  BY <1>3, <1>7
<1> QED BY <1>8 DEF F, N

\* ... and so does a vectored write.
LEMMA WritingEquation ==
  ASSUME NEW b, NEW off, NEW passEmpty, NEW iovs \in Seq(Seq(Byte))
  PROVE  /\ Writing(b, off, iovs, passEmpty)[0] = [b |-> b, off |-> off]
         /\ \A n \in 1 .. Len(iovs) :
              Writing(b, off, iovs, passEmpty)[n] = WriteBuf(Writing(b, off, iovs, passEmpty)[n - 1], iovs[n], passEmpty)
<1> DEFINE Folds(f, N) == f = [n \in 0 .. N |-> IF n = 0 THEN [b |-> b, off |-> off]
                                            ELSE WriteBuf(f[n - 1], iovs[n], passEmpty)]
           S == {N \in Nat : \E f : Folds(f, N)}
<1>1. 0 \in S
  <2>1. Folds([n \in 0 .. 0 |-> [b |-> b, off |-> off]], 0)
    OBVIOUS
  <2> QED BY <2>1
<1>2. ASSUME NEW N \in Nat, NEW f, Folds(f, N) PROVE \E g : Folds(g, N + 1)
  <2> DEFINE g == [n \in 0 .. N + 1 |-> IF n = N + 1 THEN WriteBuf(f[N], iovs[N + 1], passEmpty) ELSE f[n]]
  <2>1. ASSUME NEW n \in 0 .. N + 1
        PROVE  g[n] = IF n = 0 THEN [b |-> b, off |-> off] ELSE WriteBuf(g[n - 1], iovs[n], passEmpty)
    <3>1. CASE n = N + 1
      <4>1. n - 1 = N /\ g[n - 1] = f[N]
        BY <3>1
      <4> QED BY <3>1, <4>1
    <3>2. CASE n \in 1 .. N
      <4>1. n \in 0 .. N /\ n - 1 \in 0 .. N /\ n # 0 /\ n # N + 1 /\ n - 1 # N + 1
        BY <3>2
      <4>2. g[n] = f[n] /\ g[n - 1] = f[n - 1]
        BY <4>1
      <4>3. f[n] = WriteBuf(f[n - 1], iovs[n], passEmpty)
        BY <1>2, <4>1
      <4> QED BY <4>1, <4>2, <4>3
    <3>3. CASE n = 0
      BY <1>2, <3>3
    <3> QED BY <3>1, <3>2, <3>3
  <2>2. g = [n \in 0 .. N + 1 |-> g[n]]
    OBVIOUS
  <2>3. Folds(g, N + 1)
    <3> HIDE DEF g
    <3> QED BY <2>1, <2>2
  <2> QED BY <2>3
<1> HIDE DEF Folds
<1> DEFINE N == Len(iovs)
<1>3. N \in Nat
  OBVIOUS
<1>4. \A n \in 0 .. N - 1 : n \in S => n + 1 \in S
  BY <1>2
<1>5. N \in S
  <2> HIDE DEF S, N
  <2>1. \A n \in 0 .. N : n \in S
    BY <1>1, <1>3, <1>4, UpTo
  <2> QED BY <1>3, <2>1
<1>6. Folds(Writing(b, off, iovs, passEmpty), N)
  BY <1>5 DEF Folds, Writing
<1> DEFINE F == Writing(b, off, iovs, passEmpty)
<1> HIDE DEF N, F
<1>7. \A n \in 0 .. N : F[n] = IF n = 0 THEN [b |-> b, off |-> off] ELSE WriteBuf(F[n - 1], iovs[n], passEmpty)
  BY <1>6 DEF Folds, F
<1>8. F[0] = [b |-> b, off |-> off] /\ \A n \in 1 .. N : F[n] = WriteBuf(F[n - 1], iovs[n], passEmpty)
  BY <1>3, <1>7
<1> QED BY <1>8 DEF F, N

----------------------------------------------------------------------------
(* Parts of a file, and files overwritten.                                 *)

Bytes == Byte \union {Zero}

\* Sequences of the same length and elements are equal.
LEMMA SameSeq ==
  ASSUME NEW B, NEW s \in Seq(B), NEW t \in Seq(B), Len(s) = Len(t),
         \A i \in 1 .. Len(s) : s[i] = t[i]
  PROVE  s = t
  OBVIOUS

\* What a concatenation holds.
IsConcat(r, s, t, B) ==
    /\ r \in Seq(B)
    /\ Len(r) = Len(s) + Len(t)
    /\ \A i \in 1 .. Len(s) : r[i] = s[i]
    /\ \A i \in 1 .. Len(t) : r[Len(s) + i] = t[i]

\* Two strings put together: its length and each of its bytes.
LEMMA Concat ==
  ASSUME NEW B, NEW s \in Seq(B), NEW t \in Seq(B)
  PROVE  IsConcat(s \o t, s, t, B)
  BY DEF IsConcat

\* What ReadAt returns.
PartLen(s, off, k) == IF Len(s) <= off THEN 0 ELSE IF off + k < Len(s) THEN k ELSE Len(s) - off
IsPart(p, B, s, off, k) ==
    /\ p \in Seq(B)
    /\ Len(p) = PartLen(s, off, k)
    /\ \A i \in 1 .. Len(p) : p[i] = s[off + i]

\* What readAt returns: the bytes from the offset on, as many as there are and were asked for.
LEMMA PartIs ==
  ASSUME NEW B, NEW s \in Seq(B), NEW off \in Nat, NEW k \in Nat
  PROVE  IsPart(ReadAt(s, off, k), B, s, off, k)
<1> DEFINE e == IF off + k < Len(s) THEN off + k ELSE Len(s)
<1>1. e \in Nat /\ e <= Len(s)
  OBVIOUS
<1>2. \A i \in off + 1 .. e : s[i] \in B
  BY <1>1
<1> HIDE DEF e
<1>3. SubSeq(s, off + 1, e) \in Seq(B)
  BY <1>1, <1>2
<1>4. Len(SubSeq(s, off + 1, e)) = IF off + 1 <= e THEN e - off ELSE 0
  BY <1>1, <1>2
<1>5. \A i \in 1 .. e - off : SubSeq(s, off + 1, e)[i] = s[off + i]
  BY <1>1, <1>2
<1>6. ReadAt(s, off, k) = SubSeq(s, off + 1, e)
  BY DEF ReadAt, e
<1>7. PartLen(s, off, k) = IF off + 1 <= e THEN e - off ELSE 0
  BY DEF PartLen, e
<1>8. \A i \in 1 .. Len(SubSeq(s, off + 1, e)) : SubSeq(s, off + 1, e)[i] = s[off + i]
  BY <1>1, <1>4, <1>5
<1> QED BY <1>3, <1>4, <1>6, <1>7, <1>8 DEF IsPart

\* A full part and the part after it are one part.
LEMMA PartsJoin ==
  ASSUME NEW B, NEW s \in Seq(B), NEW off \in Nat, NEW k \in Nat, NEW j \in Nat,
         Len(ReadAt(s, off, k)) = k
  PROVE  ReadAt(s, off, k) \o ReadAt(s, off + k, j) = ReadAt(s, off, k + j)
<1> DEFINE p == ReadAt(s, off, k)
           q == ReadAt(s, off + k, j)
           r == ReadAt(s, off, k + j)
<1>0. off + k \in Nat /\ k + j \in Nat
  OBVIOUS
<1>1. IsPart(p, B, s, off, k) /\ Len(p) = k
  BY PartIs
<1>2. IsPart(q, B, s, off + k, j)
  BY <1>0, PartIs
<1>3. IsPart(r, B, s, off, k + j)
  BY <1>0, PartIs
<1> HIDE DEF p, q, r
<1>4. /\ p \in Seq(B) /\ k = PartLen(s, off, k) /\ \A i \in 1 .. k : p[i] = s[off + i]
      /\ q \in Seq(B) /\ Len(q) = PartLen(s, off + k, j)
      /\ \A i \in 1 .. Len(q) : q[i] = s[(off + k) + i]
      /\ r \in Seq(B) /\ Len(r) = PartLen(s, off, k + j) /\ \A i \in 1 .. Len(r) : r[i] = s[off + i]
  BY <1>1, <1>2, <1>3 DEF IsPart
<1>5. Len(s) \in Nat /\ Len(q) \in Nat /\ Len(r) \in Nat
  BY <1>4
<1>6. Len(r) = k + Len(q)
  <2>1. k = IF Len(s) <= off THEN 0 ELSE IF off + k < Len(s) THEN k ELSE Len(s) - off
    BY <1>4 DEF PartLen
  <2>2. Len(q) = IF Len(s) <= off + k THEN 0
                 ELSE IF off + k + j < Len(s) THEN j ELSE Len(s) - (off + k)
    BY <1>4 DEF PartLen
  <2>3. Len(r) = IF Len(s) <= off THEN 0
                 ELSE IF off + (k + j) < Len(s) THEN k + j ELSE Len(s) - off
    BY <1>4 DEF PartLen
  <2> QED BY <1>5, <2>1, <2>2, <2>3
<1>7. /\ p \o q \in Seq(B) /\ Len(p \o q) = k + Len(q)
      /\ \A i \in 1 .. Len(p) : (p \o q)[i] = p[i]
      /\ \A i \in 1 .. Len(q) : (p \o q)[k + i] = q[i]
  <2>1. p \in Seq(B) /\ q \in Seq(B) /\ Len(p) = k
    BY <1>1, <1>4
  <2>2. IsConcat(p \o q, p, q, B)
    BY <2>1, Concat
  <2> QED BY <2>1, <2>2 DEF IsConcat
<1>8. ASSUME NEW i \in 1 .. Len(r) PROVE (p \o q)[i] = r[i]
  <2>1. CASE i <= k
    <3>1. i \in 1 .. Len(p) /\ i \in 1 .. k
      BY <1>1, <1>5, <2>1
    <3>2. (p \o q)[i] = p[i]
      BY <1>7, <3>1
    <3> QED BY <1>4, <3>1, <3>2
  <2>2. CASE i > k
    <3>1. i - k \in 1 .. Len(q) /\ (off + k) + (i - k) = off + i /\ k + (i - k) = i
      BY <1>5, <1>6, <2>2
    <3>2. (p \o q)[i] = q[i - k]
      BY <1>7, <3>1
    <3>3. q[i - k] = s[off + i] /\ r[i] = s[off + i]
      BY <1>4, <3>1
    <3> QED BY <3>2, <3>3
  <2>3. i \in Int
    OBVIOUS
  <2>4. i <= k \/ i > k
    BY <2>3
  <2> QED BY <2>1, <2>2, <2>4
<1>9. p \o q = r
  BY <1>4, <1>6, <1>7, <1>8, SameSeq
<1> QED BY <1>9 DEF p, q, r

\* After a short part there is no more.
LEMMA ShortPart ==
  ASSUME NEW B, NEW s \in Seq(B), NEW off \in Nat, NEW k \in Nat, NEW j \in Nat,
         Len(ReadAt(s, off, k)) < k
  PROVE  /\ ReadAt(s, off, k + j) = ReadAt(s, off, k)
         /\ Len(ReadAt(s, off, k + j)) < k + j
<1>1. IsPart(ReadAt(s, off, k), B, s, off, k)
  BY PartIs
<1>2. Len(ReadAt(s, off, k)) = PartLen(s, off, k)
  BY <1>1 DEF IsPart
<1>3. Len(s) < off + k
  BY <1>2 DEF PartLen
<1>4. ReadAt(s, off, k + j) = ReadAt(s, off, k)
  BY <1>3 DEF ReadAt
<1>5. Len(ReadAt(s, off, k)) \in Nat
  BY <1>1 DEF IsPart
<1> QED BY <1>4, <1>5

\* s with d written at off; bytes that were never written are zero.
OverLen(s, d, off) == IF Len(s) < off + Len(d) THEN off + Len(d) ELSE Len(s)
Over(s, d, off) ==
    [i \in 1 .. OverLen(s, d, off) |->
        IF off < i /\ i <= off + Len(d) THEN d[i - off] ELSE IF i <= Len(s) THEN s[i] ELSE Zero]

\* The content a write at an offset gives is a string of bytes of the length it should have.
LEMMA OverType ==
  ASSUME NEW s \in Seq(Bytes), NEW d \in Seq(Bytes), NEW off \in Nat
  PROVE  /\ OverLen(s, d, off) \in Nat
         /\ Over(s, d, off) \in Seq(Bytes)
         /\ Len(Over(s, d, off)) = OverLen(s, d, off)
<1>1. OverLen(s, d, off) \in Nat
  BY DEF OverLen
<1>2. Zero \in Bytes
  BY DEF Bytes
<1>3. \A i \in 1 .. OverLen(s, d, off) : Over(s, d, off)[i] \in Bytes
  BY <1>1, <1>2 DEF Over, OverLen
<1>4. Over(s, d, off) \in [1 .. OverLen(s, d, off) -> Bytes]
  BY <1>1, <1>3 DEF Over
<1> QED BY <1>1, <1>4

\* Writing one string after another is writing both.
LEMMA OverTwice ==
  ASSUME NEW s \in Seq(Bytes), NEW d \in Seq(Bytes), NEW p \in Seq(Bytes), NEW off \in Nat
  PROVE  Over(Over(s, d, off), p, off + Len(d)) = Over(s, d \o p, off)
<1> DEFINE t == Over(s, d, off)
           u == Over(t, p, off + Len(d))
           v == Over(s, d \o p, off)
<1>1. d \o p \in Seq(Bytes) /\ Len(d \o p) = Len(d) + Len(p) /\ off + Len(d) \in Nat
  OBVIOUS
<1>2. t \in Seq(Bytes) /\ Len(t) = OverLen(s, d, off)
  BY OverType
<1>3. u \in Seq(Bytes) /\ Len(u) = OverLen(t, p, off + Len(d))
  <2> HIDE DEF t
  <2> QED BY <1>1, <1>2, OverType
<1>4. v \in Seq(Bytes) /\ Len(v) = OverLen(s, d \o p, off)
  BY <1>1, OverType
<1>5. Len(u) = Len(v)
  <2> HIDE DEF t, u, v
  <2>1. Len(s) \in Nat /\ Len(d) \in Nat /\ Len(p) \in Nat
    OBVIOUS
  <2>2. Len(t) = (IF Len(s) < off + Len(d) THEN off + Len(d) ELSE Len(s))
        /\ Len(u) = (IF Len(t) < off + Len(d) + Len(p) THEN off + Len(d) + Len(p) ELSE Len(t))
        /\ Len(v) = (IF Len(s) < off + (Len(d) + Len(p)) THEN off + (Len(d) + Len(p)) ELSE Len(s))
    BY <1>1, <1>2, <1>3, <1>4 DEF OverLen
  <2> QED BY <2>1, <2>2
<1>6. ASSUME NEW i \in 1 .. Len(v) PROVE u[i] = v[i]
  <2>0. i \in Nat /\ Len(s) \in Nat /\ Len(d) \in Nat /\ Len(p) \in Nat /\ i \in 1 .. Len(u)
    BY <1>4, <1>5
  <2>1. u[i] = IF off + Len(d) < i /\ i <= off + Len(d) + Len(p) THEN p[i - (off + Len(d))]
               ELSE IF i <= Len(t) THEN t[i] ELSE Zero
    <3> HIDE DEF t
    <3> QED BY <1>3, <2>0 DEF Over
  <2>2. v[i] = IF off < i /\ i <= off + Len(d) + Len(p) THEN (d \o p)[i - off]
               ELSE IF i <= Len(s) THEN s[i] ELSE Zero
    <3> DEFINE e == d \o p
    <3>1. v = Over(s, e, off) /\ Len(e) = Len(d) + Len(p)
      BY <1>1
    <3> HIDE DEF v, e
    <3>2. i \in 1 .. OverLen(s, e, off)
      BY <1>4 DEF e
    <3>3. v[i] = IF off < i /\ i <= off + Len(e) THEN e[i - off] ELSE IF i <= Len(s) THEN s[i] ELSE Zero
      BY <3>1, <3>2 DEF Over
    <3> QED BY <2>0, <3>1, <3>3 DEF e
  <2>3. i <= Len(t) => t[i] = IF off < i /\ i <= off + Len(d) THEN d[i - off]
                              ELSE IF i <= Len(s) THEN s[i] ELSE Zero
    <3>1. t = Over(s, d, off)
      OBVIOUS
    <3> HIDE DEF t
    <3>2. i <= Len(t) => i \in 1 .. OverLen(s, d, off)
      BY <1>2, <2>0
    <3> QED BY <3>1, <3>2 DEF Over
  <2> HIDE DEF t, u, v
  <2>4. CASE off < i /\ i <= off + Len(d)
    <3>1. (d \o p)[i - off] = d[i - off]
      BY <2>0, <2>4
    <3>2. i <= Len(t)
      BY <1>2, <2>0, <2>4 DEF OverLen
    <3> QED BY <2>0, <2>1, <2>2, <2>3, <2>4, <3>1, <3>2
  <2>5. CASE off + Len(d) < i /\ i <= off + Len(d) + Len(p)
    <3>1. (d \o p)[i - off] = p[(i - off) - Len(d)]
      BY <2>0, <2>5
    <3>2. (i - off) - Len(d) = i - (off + Len(d))
      BY <2>0
    <3> QED BY <2>0, <2>1, <2>2, <2>5, <3>1, <3>2
  <2>6. CASE i <= off \/ off + Len(d) + Len(p) < i
    <3>1. ~(off + Len(d) < i /\ i <= off + Len(d) + Len(p)) /\ ~(off < i /\ i <= off + Len(d) + Len(p))
          /\ ~(off < i /\ i <= off + Len(d))
      BY <2>0, <2>6
    <3>2. i > Len(t) => i > Len(s)
      BY <1>2, <2>0 DEF OverLen
    <3> QED BY <2>0, <2>1, <2>2, <2>3, <3>1, <3>2
  <2> QED BY <2>0, <2>4, <2>5, <2>6
<1> HIDE DEF t, u, v
<1>7. u = v
  BY <1>3, <1>4, <1>5, <1>6, SameSeq
<1> QED BY <1>7 DEF t, u, v

----------------------------------------------------------------------------
(* Vectored transfers are plain transfers.                                 *)

\* The partial sums of a list of lengths are numbers.
LEMMA TotalType ==
  ASSUME NEW lens \in Seq(Nat)
  PROVE  \A n \in 0 .. Len(lens) : Adding(lens)[n] \in Nat
<1> DEFINE A == Adding(lens)
           S == {n \in 0 .. Len(lens) : A[n] \in Nat}
<1>1. A[0] = 0 /\ \A n \in 1 .. Len(lens) : A[n] = A[n - 1] + lens[n]
  BY AddingEquation
<1> HIDE DEF A
<1>2. 0 \in S
  BY <1>1
<1>3. ASSUME NEW n \in 0 .. Len(lens) - 1, n \in S PROVE n + 1 \in S
  <2>1. n + 1 \in 1 .. Len(lens) /\ (n + 1) - 1 = n /\ lens[n + 1] \in Nat
    OBVIOUS
  <2>2. A[n + 1] = A[n] + lens[n + 1]
    BY <1>1, <2>1
  <2> QED BY <1>3, <2>1, <2>2
<1>4. \A n \in 0 .. Len(lens) : n \in S
  <2>1. Len(lens) \in Nat
    OBVIOUS
  <2> HIDE DEF S
  <2> QED BY <1>2, <1>3, <2>1, UpTo
<1> QED BY <1>4 DEF A

\* A vectored read is one read of all the bytes asked for.
LEMMA ReadvIsRead ==
  ASSUME NEW B, NEW s \in Seq(B), NEW off \in Nat, NEW lens \in Seq(Nat)
  PROVE  Readv(s, off, lens) = ReadAt(s, off, Total(lens))
<1> DEFINE A == Adding(lens)
           R == Reading(s, off, lens)
           N == Len(lens)
           Done(n) == /\ R[n] = [got |-> R[n].got, short |-> R[n].short]
                      /\ R[n].got = ReadAt(s, off, A[n])
                      /\ R[n].short \in BOOLEAN
                      /\ R[n].short <=> Len(R[n].got) # A[n]
           S == {n \in 0 .. N : Done(n)}
<1>1. A[0] = 0 /\ \A n \in 1 .. N : A[n] = A[n - 1] + lens[n]
  BY AddingEquation
<1>2. R[0] = [got |-> <<>>, short |-> FALSE] /\ \A n \in 1 .. N : R[n] = ReadBuf(s, off, R[n - 1], lens[n])
  BY ReadingEquation
<1>3. \A n \in 0 .. N : A[n] \in Nat
  BY TotalType
<1>4. N \in Nat /\ \A n \in 1 .. N : lens[n] \in Nat
  OBVIOUS
<1> HIDE DEF A, R, N
<1>5. Done(0)
  <2>1. IsPart(ReadAt(s, off, 0), B, s, off, 0)
    BY PartIs
  <2>2. ReadAt(s, off, 0) \in Seq(B) /\ Len(ReadAt(s, off, 0)) = 0
    BY <2>1 DEF IsPart, PartLen
  <2>3. ReadAt(s, off, 0) = <<>>
    BY <2>2
  <2> QED BY <1>1, <1>2, <2>3
<1>6. ASSUME NEW n \in 0 .. N - 1, Done(n) PROVE Done(n + 1)
  <2> DEFINE k == lens[n + 1]
             p == ReadAt(s, off, A[n])
  <2>1. n + 1 \in 1 .. N /\ (n + 1) - 1 = n /\ n \in 0 .. N
    BY <1>4
  <2>2. k \in Nat /\ A[n] \in Nat /\ A[n + 1] = A[n] + k /\ R[n + 1] = ReadBuf(s, off, R[n], k)
    BY <1>1, <1>2, <1>3, <1>4, <2>1
  <2>3. IsPart(p, B, s, off, A[n])
    BY <2>2, PartIs
  <2>4. p \in Seq(B) /\ Len(p) <= A[n]
    BY <2>2, <2>3 DEF IsPart, PartLen
  <2>5. R[n].got = p /\ (R[n].short <=> Len(p) # A[n]) /\ R[n].short \in BOOLEAN
    BY <1>6
  <2> HIDE DEF k, p
  <2>6. CASE R[n].short
    <3>1. R[n + 1] = R[n]
      BY <2>2, <2>6 DEF ReadBuf
    <3>2. Len(p) < A[n]
      BY <2>2, <2>4, <2>5, <2>6
    <3>3. ReadAt(s, off, A[n] + k) = p /\ Len(p) < A[n] + k
      BY <2>2, <3>2, ShortPart DEF p
    <3>4. Len(p) # A[n] + k
      BY <2>2, <2>4, <3>3
    <3> QED BY <1>6, <2>2, <2>5, <2>6, <3>1, <3>3, <3>4
  <2>7. CASE ~R[n].short
    <3> DEFINE q == ReadAt(s, off + A[n], k)
    <3>1. Len(p) = A[n]
      BY <2>5, <2>7
    <3>2. R[n + 1] = [got |-> p \o q, short |-> Len(q) < k]
      BY <2>2, <2>5, <2>7, <3>1 DEF ReadBuf
    <3>3. p \o q = ReadAt(s, off, A[n] + k)
      BY <2>2, <3>1, PartsJoin DEF p
    <3>4. IsPart(q, B, s, off + A[n], k)
      <4>1. off + A[n] \in Nat
        BY <2>2
      <4> QED BY <2>2, <4>1, PartIs
    <3>5. q \in Seq(B) /\ Len(q) \in Nat /\ Len(q) <= k
      BY <2>2, <3>4 DEF IsPart, PartLen
    <3> HIDE DEF q
    <3>6. IsConcat(p \o q, p, q, B)
      BY <2>4, <3>5, Concat
    <3>7. Len(p \o q) = A[n] + Len(q)
      BY <3>1, <3>6 DEF IsConcat
    <3>8. Len(q) < k <=> A[n] + Len(q) # A[n] + k
      BY <2>2, <3>5
    <3>9. /\ R[n + 1].got = p \o q
          /\ R[n + 1].short = (Len(q) < k)
          /\ R[n + 1] = [got |-> R[n + 1].got, short |-> R[n + 1].short]
      BY <3>2
    <3>10. Len(R[n + 1].got) = A[n] + Len(q)
      BY <3>7, <3>9
    <3>11. R[n + 1].got = ReadAt(s, off, A[n + 1])
      BY <2>2, <3>3, <3>9
    <3>12. R[n + 1].short \in BOOLEAN /\ (R[n + 1].short <=> Len(R[n + 1].got) # A[n + 1])
      <4>1. Len(q) < k <=> Len(R[n + 1].got) # A[n + 1]
        BY <2>2, <3>8, <3>10
      <4>2. (Len(q) < k) \in BOOLEAN
        OBVIOUS
      <4> QED BY <3>9, <4>1, <4>2, Zenon
    <3> QED BY <3>9, <3>11, <3>12
  <2> QED BY <2>5, <2>6, <2>7
<1>7. Done(N)
  <2>1. 0 \in S /\ \A n \in 0 .. N - 1 : n \in S => n + 1 \in S
    <3> HIDE DEF Done
    <3> QED BY <1>4, <1>5, <1>6
  <2>2. \A n \in 0 .. N : n \in S
    <3> HIDE DEF S
    <3> QED BY <1>4, <2>1, UpTo
  <2> QED BY <1>4, <2>2
<1> QED BY <1>7 DEF Readv, Total, A, R, N

----------------------------------------------------------------------------
(* The buffer behind the file.                                             *)

IsBuffer(b) ==
    /\ b = [data |-> b.data, spare |-> b.spare]
    /\ b.data \in Seq(Bytes)
    /\ b.spare \in Seq(Bytes)

\* Clean, of a buffer.
Clear(b, off) == \A i \in 1 .. off - Len(b.data) : i \in DOMAIN b.spare => b.spare[i] = Zero

\* A fresh slice is zeroes, and an empty one when its length would be negative.
LEMMA FreshIs ==
  ASSUME NEW k \in Int
  PROVE  /\ Fresh(k) \in Seq(Bytes)
         /\ Len(Fresh(k)) = IF k < 0 THEN 0 ELSE k
         /\ \A i \in 1 .. k : Fresh(k)[i] = Zero
<1> DEFINE m == IF k < 0 THEN 0 ELSE k
<1>1. m \in Nat /\ 1 .. k = 1 .. m
  OBVIOUS
<1>2. Fresh(k) = [i \in 1 .. m |-> Zero]
  BY <1>1 DEF Fresh
<1> HIDE DEF m
<1>3. Fresh(k) \in Seq(Bytes) /\ Len(Fresh(k)) = m
  BY <1>1, <1>2 DEF Bytes
<1>4. \A i \in 1 .. k : Fresh(k)[i] = Zero
  BY DEF Fresh
<1> QED BY <1>3, <1>4 DEF m

\* A grown buffer shows what it showed, and after it what was spare or fresh.
IsGrown(g, b, needed) ==
    /\ IsBuffer(g)
    /\ Len(g.data) = IF needed <= Len(b.data) THEN Len(b.data) ELSE needed
    /\ \A i \in 1 .. Len(g.data) :
          g.data[i] = IF i <= Len(b.data) THEN b.data[i]
                      ELSE IF needed <= Cap(b) THEN b.spare[i - Len(b.data)] ELSE Zero

\* growTo keeps every byte and gives a buffer of the length asked for, whose spare part is clear.
LEMMA GrownIs ==
  ASSUME NEW b, IsBuffer(b), NEW needed \in Nat
  PROVE  IsGrown(Grown(b, needed), b, needed)
<1> DEFINE d == b.data
           s == b.spare
           room == d \o s
           sizes == {needed, 2 * Cap(b), MinCap}
           newCap == CHOOSE c \in sizes : \A e \in sizes : e <= c
<1>1. b = [data |-> d, spare |-> s] /\ d \in Seq(Bytes) /\ s \in Seq(Bytes)
  BY DEF IsBuffer
<1>2. Len(d) \in Nat /\ Len(s) \in Nat /\ Cap(b) = Len(d) + Len(s)
  BY <1>1 DEF Cap
<1>3. IsConcat(room, d, s, Bytes)
  BY <1>1, Concat
<1>4. newCap \in Nat /\ needed <= newCap
  <2>1. 2 * Cap(b) \in Nat /\ MinCap \in Nat
    <3>1. MinCap \in Nat
      BY FilesAssumption
    <3>2. Cap(b) \in Nat
      <4> HIDE DEF d, s
      <4> QED BY <1>2
    <3> QED BY <3>1, <3>2
  <2> DEFINE twice == 2 * Cap(b)
  <2> HIDE DEF twice
  <2>2. \E c \in {needed, twice, MinCap} : \A e \in {needed, twice, MinCap} : e <= c
    BY <2>1 DEF twice
  <2>3. sizes = {needed, twice, MinCap}
    BY DEF twice
  <2> HIDE DEF sizes
  <2>4. newCap \in sizes /\ \A e \in sizes : e <= newCap
    BY <2>2, <2>3
  <2> QED BY <2>1, <2>3, <2>4 DEF twice
<1> HIDE DEF d, s, room, sizes, newCap
<1>5. CASE needed <= Len(d)
  <2>1. Grown(b, needed) = b
    BY <1>5 DEF Grown, d
  <2> QED BY <1>1, <1>2, <1>5, <2>1 DEF IsGrown, IsBuffer, d, s
<1>6. CASE needed > Len(d) /\ needed <= Cap(b)
  <2> DEFINE g == SubSeq(room, 1, needed)
             h == SubSeq(room, needed + 1, Len(room))
  <2>1. Grown(b, needed) = [data |-> g, spare |-> h]
    BY <1>2, <1>6 DEF Grown, d, s, room
  <2>2. room \in Seq(Bytes) /\ Len(room) = Len(d) + Len(s)
    BY <1>3 DEF IsConcat
  <2>3. g \in Seq(Bytes) /\ Len(g) = needed /\ \A i \in 1 .. needed : g[i] = room[i]
    BY <1>2, <1>6, <2>2
  <2>4. h \in Seq(Bytes)
    BY <1>2, <1>6, <2>2
  <2>5. ASSUME NEW i \in 1 .. needed PROVE g[i] = IF i <= Len(d) THEN d[i] ELSE s[i - Len(d)]
    <3>1. CASE i <= Len(d)
      <4>1. i \in 1 .. Len(d)
        BY <1>2, <3>1
      <4> QED BY <1>3, <2>3, <3>1, <4>1 DEF IsConcat
    <3>2. CASE ~(i <= Len(d))
      <4>1. i - Len(d) \in 1 .. Len(s) /\ Len(d) + (i - Len(d)) = i
        BY <1>2, <1>6, <3>2
      <4>2. room[Len(d) + (i - Len(d))] = s[i - Len(d)]
        BY <1>3, <4>1 DEF IsConcat
      <4> QED BY <2>3, <3>2, <4>1, <4>2
    <3> QED BY <3>1, <3>2
  <2> HIDE DEF g, h
  <2> QED BY <1>2, <1>6, <2>1, <2>3, <2>4, <2>5 DEF IsGrown, IsBuffer, d, s
<1>7. CASE needed > Cap(b)
  <2> DEFINE z == Fresh(needed - Len(d))
             g == d \o z
             h == Fresh(newCap - needed)
  <2>1. needed > Len(d)
    BY <1>2, <1>7
  <2>2. Grown(b, needed) = [data |-> g, spare |-> h]
    BY <1>2, <1>7, <2>1 DEF Grown, d, newCap, sizes
  <2>3. z \in Seq(Bytes) /\ Len(z) = needed - Len(d) /\ \A i \in 1 .. needed - Len(d) : z[i] = Zero
    <3>1. needed - Len(d) \in Int /\ ~(needed - Len(d) < 0)
      BY <1>2, <2>1
    <3> QED BY <3>1, FreshIs
  <2>4. h \in Seq(Bytes)
    BY <1>4, FreshIs
  <2> HIDE DEF z, h
  <2>5. IsConcat(g, d, z, Bytes)
    BY <1>1, <2>3, Concat
  <2>6. g \in Seq(Bytes) /\ Len(g) = needed
    BY <1>2, <2>3, <2>5 DEF IsConcat
  <2>7. ASSUME NEW i \in 1 .. needed PROVE g[i] = IF i <= Len(d) THEN d[i] ELSE Zero
    <3>1. CASE i <= Len(d)
      <4>1. i \in 1 .. Len(d)
        BY <1>2, <3>1
      <4> QED BY <2>5, <3>1, <4>1 DEF IsConcat
    <3>2. CASE ~(i <= Len(d))
      <4>1. i - Len(d) \in 1 .. needed - Len(d) /\ Len(d) + (i - Len(d)) = i
        BY <1>2, <2>1, <3>2
      <4>2. g[Len(d) + (i - Len(d))] = z[i - Len(d)]
        BY <2>3, <2>5, <4>1 DEF IsConcat
      <4> QED BY <2>3, <3>2, <4>1, <4>2
    <3> QED BY <3>1, <3>2
  <2> HIDE DEF g
  <2> QED BY <1>2, <1>7, <2>1, <2>2, <2>4, <2>6, <2>7 DEF IsGrown, IsBuffer, d, s
<1>8. needed <= Len(d) \/ (needed > Len(d) /\ needed <= Cap(b)) \/ needed > Cap(b)
  BY <1>2
<1> QED BY <1>5, <1>6, <1>7, <1>8

\* WriteAt keeps a buffer a buffer, ...
LEMMA WriteAtType ==
  ASSUME NEW b, IsBuffer(b), NEW p \in Seq(Bytes), NEW off \in Nat
  PROVE  IsBuffer(WriteAt(b, p, off))
<1> DEFINE g == Grown(b, off + Len(p))
           w == [i \in DOMAIN g.data |-> IF i \in off + 1 .. off + Len(p) THEN p[i - off] ELSE g.data[i]]
<1>1. off + Len(p) \in Nat
  OBVIOUS
<1>2. IsGrown(g, b, off + Len(p))
  BY <1>1, GrownIs
<1> HIDE DEF g
<1>3. g = [data |-> g.data, spare |-> g.spare] /\ g.data \in Seq(Bytes) /\ g.spare \in Seq(Bytes)
  BY <1>2 DEF IsGrown, IsBuffer
<1>4. \A i \in off + 1 .. off + Len(p) : p[i - off] \in Bytes
  OBVIOUS
<1>5. \A i \in DOMAIN g.data : w[i] \in Bytes
  BY <1>3, <1>4
<1>6. w \in Seq(Bytes)
  <2>1. Len(g.data) \in Nat /\ DOMAIN g.data = 1 .. Len(g.data)
    BY <1>3
  <2>2. w \in [1 .. Len(g.data) -> Bytes]
    BY <1>5, <2>1
  <2> QED BY <2>1, <2>2
<1>7. WriteAt(b, p, off) = [data |-> w, spare |-> g.spare]
  <2>1. ASSUME NEW x, NEW y, Grown(b, off + Len(p)) = [data |-> x, spare |-> y]
        PROVE  WriteAt(b, p, off)
                 = [data |-> [i \in DOMAIN x |-> IF i \in off + 1 .. off + Len(p) THEN p[i - off] ELSE x[i]],
                    spare |-> y]
    BY <2>1 DEF WriteAt
  <2>2. Grown(b, off + Len(p)) = [data |-> g.data, spare |-> g.spare]
    BY <1>3 DEF g
  <2> QED BY <2>1, <2>2
<1> HIDE DEF w
<1> QED BY <1>3, <1>6, <1>7 DEF IsBuffer

\* ... and writes over what was there, if no byte from before a truncation is in
\* the gap.
LEMMA WriteAtIsOver ==
  ASSUME NEW b, IsBuffer(b), NEW p \in Seq(Bytes), NEW off \in Nat, Clear(b, off)
  PROVE  WriteAt(b, p, off).data = Over(b.data, p, off)
<1> DEFINE k == off + Len(p)
           d == b.data
           g == Grown(b, k)
           w == [i \in DOMAIN g.data |-> IF i \in off + 1 .. k THEN p[i - off] ELSE g.data[i]]
<1>1. k \in Nat /\ d \in Seq(Bytes) /\ Len(d) \in Nat /\ Len(p) \in Nat
  BY DEF IsBuffer
<1>2. IsGrown(g, b, k)
  BY <1>1, GrownIs
<1>3. WriteAt(b, p, off).data = w
  <2>1. g = [data |-> g.data, spare |-> g.spare]
    BY <1>2 DEF IsGrown, IsBuffer
  <2> QED BY <2>1 DEF WriteAt
<1> HIDE DEF g
<1>4. /\ DOMAIN g.data = 1 .. Len(g.data)
      /\ Len(g.data) = IF k <= Len(d) THEN Len(d) ELSE k
      /\ \A i \in 1 .. Len(g.data) :
            g.data[i] = IF i <= Len(d) THEN d[i] ELSE IF k <= Cap(b) THEN b.spare[i - Len(d)] ELSE Zero
  BY <1>2 DEF IsGrown, IsBuffer
<1>5. Len(g.data) = OverLen(d, p, off)
  BY <1>1, <1>4 DEF OverLen
<1>6. ASSUME NEW i \in 1 .. Len(g.data)
      PROVE  w[i] = IF off < i /\ i <= off + Len(p) THEN p[i - off] ELSE IF i <= Len(d) THEN d[i] ELSE Zero
  <2>0. i \in Nat /\ Len(g.data) \in Nat /\ i >= 1
    BY <1>1, <1>4
  <2>1. w[i] = IF i \in off + 1 .. k THEN p[i - off] ELSE g.data[i]
    BY <1>4
  <2>2. CASE off < i /\ i <= off + Len(p)
    <3>1. i \in off + 1 .. k
      BY <1>1, <2>0, <2>2
    <3> QED BY <2>1, <2>2, <3>1
  <2>3. CASE ~(off < i /\ i <= off + Len(p))
    <3>1. i \notin off + 1 .. k
      BY <1>1, <2>0, <2>3
    <3>2. w[i] = g.data[i]
      BY <2>1, <3>1
    <3>3. CASE i <= Len(d)
      BY <1>4, <2>3, <3>2, <3>3
    <3>4. CASE ~(i <= Len(d))
      <4>1. k > Len(d) /\ i <= off
        BY <1>1, <1>4, <2>0, <2>3, <3>4
      <4>2. i - Len(d) \in 1 .. off - Len(d)
        BY <1>1, <2>0, <3>4, <4>1
      <4>3. k <= Cap(b) => b.spare[i - Len(d)] = Zero
        <5>1. b.spare \in Seq(Bytes) /\ Cap(b) = Len(d) + Len(b.spare)
          BY DEF IsBuffer, Cap
        <5>0. Len(b.spare) \in Nat /\ DOMAIN b.spare = 1 .. Len(b.spare)
          BY <5>1
        <5>2. k <= Cap(b) => i - Len(d) \in DOMAIN b.spare
          <6> HIDE DEF d
          <6> QED BY <1>1, <2>0, <3>4, <4>1, <5>0, <5>1
        <5> QED BY <4>2, <5>2 DEF Clear
      <4> QED BY <1>4, <2>3, <3>2, <3>4, <4>3
    <3> QED BY <3>3, <3>4
  <2> QED BY <2>2, <2>3
<1>7. w = Over(d, p, off)
  BY <1>4, <1>5, <1>6 DEF Over
<1> QED BY <1>3, <1>7

----------------------------------------------------------------------------
(* Vectored writes and truncations.                                        *)

\* The buffers of a vectored write put together are a string of bytes.
LEMMA JoiningType ==
  ASSUME NEW iovs \in Seq(Seq(Byte))
  PROVE  \A n \in 0 .. Len(iovs) : Joining(iovs)[n] \in Seq(Byte)
<1> DEFINE J == Joining(iovs)
           N == Len(iovs)
           S == {n \in 0 .. N : J[n] \in Seq(Byte)}
<1>1. J[0] = <<>> /\ \A n \in 1 .. N : J[n] = J[n - 1] \o iovs[n]
  BY JoiningEquation
<1>2. N \in Nat /\ \A n \in 1 .. N : iovs[n] \in Seq(Byte)
  OBVIOUS
<1> HIDE DEF J, N
<1>3. 0 \in S
  <2>1. <<>> \in Seq(Byte) /\ 0 \in 0 .. N
    BY <1>2
  <2> QED BY <1>1, <2>1
<1>4. ASSUME NEW n \in 0 .. N - 1, n \in S PROVE n + 1 \in S
  <2>1. n + 1 \in 1 .. N /\ n + 1 \in 0 .. N /\ (n + 1) - 1 = n
    BY <1>2
  <2>2. J[n + 1] = J[n] \o iovs[n + 1] /\ iovs[n + 1] \in Seq(Byte) /\ J[n] \in Seq(Byte)
    BY <1>1, <1>2, <1>4, <2>1
  <2>3. IsConcat(J[n] \o iovs[n + 1], J[n], iovs[n + 1], Byte)
    BY <2>2, Concat
  <2> QED BY <2>1, <2>2, <2>3 DEF IsConcat
<1>5. \A n \in 0 .. N : n \in S
  <2> HIDE DEF S
  <2> QED BY <1>2, <1>3, <1>4, UpTo
<1> QED BY <1>5 DEF J, N

\* Bytes written are bytes of a file.
LEMMA ByteSeq ==
  ASSUME NEW p \in Seq(Byte)
  PROVE  p \in Seq(Bytes) /\ Len(p) \in Nat
  BY DEF Bytes

\* Where a vectored write stands after each buffer: what has been written so far is
\* one write of what has been joined so far, or nothing has.
Stands(w, b, j, off, passEmpty) ==
    /\ w = [b |-> w.b, off |-> off + Len(j)]
    /\ IsBuffer(w.b)
    /\ Clear(b, off) => \/ w.b.data = Over(b.data, j, off)
                        \/ j = <<>> /\ w.b = b
    /\ passEmpty /\ j = <<>> => w.b = b

\* One more buffer of a vectored write keeps the loop where a single write of all of them would be.
LEMMA StandsNext ==
  ASSUME NEW w, NEW b, IsBuffer(b), NEW j \in Seq(Byte), NEW off \in Nat, NEW passEmpty \in BOOLEAN,
         Stands(w, b, j, off, passEmpty), NEW p \in Seq(Byte)
  PROVE  Stands(WriteBuf(w, p, passEmpty), b, j \o p, off, passEmpty)
<1>0. j \in Seq(Bytes) /\ p \in Seq(Bytes) /\ Len(j) \in Nat /\ Len(p) \in Nat /\ b.data \in Seq(Bytes)
  BY ByteSeq DEF IsBuffer
<1>1. IsConcat(j \o p, j, p, Byte)
  BY Concat
<1>2. j \o p \in Seq(Byte) /\ Len(j \o p) = Len(j) + Len(p)
  BY <1>1 DEF IsConcat
<1>3. /\ w = [b |-> w.b, off |-> off + Len(j)] /\ w.off = off + Len(j) /\ IsBuffer(w.b)
      /\ off + Len(j) \in Nat
  BY <1>0 DEF Stands
<1>4. CASE passEmpty /\ p = <<>>
  <2>1. j \o p = j
    BY <1>4
  <2> QED BY <1>4, <2>1 DEF WriteBuf
<1>5. CASE ~(passEmpty /\ p = <<>>)
  <2> DEFINE v == WriteAt(w.b, p, off + Len(j))
             x == WriteBuf(w, p, passEmpty)
  <2>1. x = [b |-> v, off |-> (off + Len(j)) + Len(p)]
    BY <1>3, <1>5 DEF WriteBuf
  <2>2. x = [b |-> x.b, off |-> off + Len(j \o p)] /\ x.b = v
    BY <1>0, <1>2, <1>3, <2>1
  <2>3. IsBuffer(v)
    BY <1>0, <1>3, WriteAtType
  <2>4. Clear(b, off) => v.data = Over(b.data, j \o p, off)
    <3> SUFFICES ASSUME Clear(b, off) PROVE v.data = Over(b.data, j \o p, off)
      OBVIOUS
    <3>1. CASE w.b.data = Over(b.data, j, off)
      <4>1. Len(w.b.data) \in Nat /\ Len(w.b.data) >= off + Len(j)
        <5>1. Len(w.b.data) = OverLen(b.data, j, off)
          BY <1>0, <3>1, OverType
        <5>2. Len(b.data) \in Nat
          BY <1>0
        <5> QED BY <1>0, <5>1, <5>2 DEF OverLen
      <4>2. Clear(w.b, off + Len(j))
        <5>1. 1 .. (off + Len(j)) - Len(w.b.data) = {}
          BY <1>3, <4>1
        <5> QED BY <5>1 DEF Clear
      <4>3. v.data = Over(w.b.data, p, off + Len(j))
        BY <1>0, <1>3, <4>2, WriteAtIsOver
      <4>4. Over(Over(b.data, j, off), p, off + Len(j)) = Over(b.data, j \o p, off)
        BY <1>0, OverTwice
      <4> QED BY <3>1, <4>3, <4>4
    <3>2. CASE j = <<>> /\ w.b = b
      <4>1. off + Len(j) = off /\ j \o p = p
        BY <3>2
      <4>2. WriteAt(b, p, off).data = Over(b.data, p, off)
        BY <1>0, WriteAtIsOver
      <4> QED BY <3>2, <4>1, <4>2
    <3> QED BY <3>1, <3>2 DEF Stands
  <2>5. passEmpty => j \o p # <<>>
    <3>1. p # <<>> => Len(j \o p) # 0
      <4>1. p # <<>> => Len(p) # 0
        OBVIOUS
      <4> QED BY <1>0, <1>2, <4>1
    <3> QED BY <1>5, <3>1
  <2> HIDE DEF v, x
  <2>6. Stands(x, b, j \o p, off, passEmpty)
    BY <2>2, <2>3, <2>4, <2>5 DEF Stands
  <2> QED BY <2>6 DEF x
<1> QED BY <1>4, <1>5

\* After its last buffer a vectored write is where one write of all the bytes would be.
LEMMA WritevStands ==
  ASSUME NEW b, IsBuffer(b), NEW off \in Nat, NEW iovs \in Seq(Seq(Byte)), NEW passEmpty \in BOOLEAN
  PROVE  Stands(Writing(b, off, iovs, passEmpty)[Len(iovs)], b, Joined(iovs), off, passEmpty)
<1> DEFINE J == Joining(iovs)
           W == Writing(b, off, iovs, passEmpty)
           N == Len(iovs)
           S == {n \in 0 .. N : Stands(W[n], b, J[n], off, passEmpty)}
<1>1. J[0] = <<>> /\ \A n \in 1 .. N : J[n] = J[n - 1] \o iovs[n]
  BY JoiningEquation
<1>2. W[0] = [b |-> b, off |-> off] /\ \A n \in 1 .. N : W[n] = WriteBuf(W[n - 1], iovs[n], passEmpty)
  BY WritingEquation
<1>3. \A n \in 0 .. N : J[n] \in Seq(Byte)
  BY JoiningType
<1>4. N \in Nat /\ \A n \in 1 .. N : iovs[n] \in Seq(Byte)
  OBVIOUS
<1> HIDE DEF J, W, N
<1>5. 0 \in S
  <2>1. Stands([b |-> b, off |-> off], b, <<>>, off, passEmpty)
    BY DEF Stands
  <2> QED BY <1>1, <1>2, <1>4, <2>1
<1>6. ASSUME NEW n \in 0 .. N - 1, n \in S PROVE n + 1 \in S
  <2>1. n + 1 \in 1 .. N /\ n + 1 \in 0 .. N /\ (n + 1) - 1 = n /\ n \in 0 .. N
    BY <1>4
  <2>2. /\ J[n + 1] = J[n] \o iovs[n + 1] /\ iovs[n + 1] \in Seq(Byte) /\ J[n] \in Seq(Byte)
        /\ W[n + 1] = WriteBuf(W[n], iovs[n + 1], passEmpty)
    BY <1>1, <1>2, <1>3, <1>4, <2>1
  <2>3. Stands(W[n], b, J[n], off, passEmpty)
    BY <1>6
  <2>4. Stands(WriteBuf(W[n], iovs[n + 1], passEmpty), b, J[n] \o iovs[n + 1], off, passEmpty)
    BY <2>2, <2>3, StandsNext
  <2> QED BY <2>1, <2>2, <2>4
<1>7. N \in S
  <2>1. \A n \in 0 .. N : n \in S
    <3> HIDE DEF S
    <3> QED BY <1>4, <1>5, <1>6, UpTo
  <2> QED BY <1>4, <2>1
<1> QED BY <1>7 DEF J, W, N, Joined

\* The whole of a vectored write is a string of bytes, and its length a number.
LEMMA JoinedType ==
  ASSUME NEW iovs \in Seq(Seq(Byte))
  PROVE  Joined(iovs) \in Seq(Byte) /\ Length(iovs) \in Nat
<1>1. Len(iovs) \in 0 .. Len(iovs)
  OBVIOUS
<1>2. Joined(iovs) \in Seq(Byte)
  BY <1>1, JoiningType DEF Joined
<1> QED BY <1>2 DEF Length

\* A vectored write leaves a buffer.
LEMMA WritevType ==
  ASSUME NEW b, IsBuffer(b), NEW off \in Nat, NEW iovs \in Seq(Seq(Byte)), NEW passEmpty \in BOOLEAN
  PROVE  IsBuffer(Writev(b, off, iovs, passEmpty))
  BY WritevStands DEF Stands, Writev

\* The plain write.
LEMMA WrittenIs ==
  ASSUME NEW s \in Seq(Bytes), NEW k \in Nat
  PROVE  /\ Plain!Written(s, k) \in Seq(Bytes)
         /\ Len(Plain!Written(s, k)) = k
         /\ \A i \in 1 .. k : Plain!Written(s, k)[i] = IF i <= Len(s) THEN s[i] ELSE Zero
<1> DEFINE z == Fresh(k - Len(s))
           r == s \o z
<1>1. Plain!Written(s, k) = SubSeq(r, 1, k)
  BY DEF Plain!Written, Plain!Zeros, Fresh
<1>2. Len(s) \in Nat /\ k - Len(s) \in Int
  OBVIOUS
<1>3. /\ z \in Seq(Bytes) /\ Len(z) = (IF k - Len(s) < 0 THEN 0 ELSE k - Len(s))
      /\ \A i \in 1 .. k - Len(s) : z[i] = Zero
  BY <1>2, FreshIs
<1> HIDE DEF z
<1>4. IsConcat(r, s, z, Bytes)
  BY <1>3, Concat
<1> HIDE DEF r
<1>5. r \in Seq(Bytes) /\ Len(r) >= k /\ Len(r) \in Nat
  BY <1>2, <1>3, <1>4 DEF IsConcat
<1>6. /\ SubSeq(r, 1, k) \in Seq(Bytes) /\ Len(SubSeq(r, 1, k)) = k
      /\ \A i \in 1 .. k : SubSeq(r, 1, k)[i] = r[i]
  BY <1>5
<1>7. ASSUME NEW i \in 1 .. k PROVE r[i] = IF i <= Len(s) THEN s[i] ELSE Zero
  <2>1. CASE i <= Len(s)
    <3>1. i \in 1 .. Len(s)
      BY <1>2, <2>1
    <3> QED BY <1>4, <2>1, <3>1 DEF IsConcat
  <2>2. CASE ~(i <= Len(s))
    <3>1. i - Len(s) \in 1 .. k - Len(s) /\ i - Len(s) \in 1 .. Len(z) /\ Len(s) + (i - Len(s)) = i
      BY <1>2, <1>3, <2>2
    <3>2. r[Len(s) + (i - Len(s))] = z[i - Len(s)]
      BY <1>4, <3>1 DEF IsConcat
    <3> QED BY <1>3, <2>2, <3>1, <3>2
  <2> QED BY <2>1, <2>2
<1> QED BY <1>1, <1>6, <1>7

\* The plain write of some bytes writes over what was there.
LEMMA PutIsOver ==
  ASSUME NEW s \in Seq(Bytes), NEW d \in Seq(Bytes), d # <<>>, NEW off \in Nat
  PROVE  Plain!Put(s, d, off) = Over(s, d, off)
<1> DEFINE w == Plain!Written(s, off)
           e == off + Len(d)
           q == SubSeq(s, e + 1, Len(s))
           u == w \o d
           r == u \o q
           v == Over(s, d, off)
<1>1. Plain!Put(s, d, off) = r
  BY DEF Plain!Put
<1>2. Len(s) \in Nat /\ Len(d) \in Nat /\ e \in Nat
  OBVIOUS
<1>3. /\ w \in Seq(Bytes) /\ Len(w) = off
      /\ \A i \in 1 .. off : w[i] = IF i <= Len(s) THEN s[i] ELSE Zero
  BY WrittenIs
<1>4. /\ q \in Seq(Bytes) /\ Len(q) = (IF e < Len(s) THEN Len(s) - e ELSE 0)
      /\ \A i \in 1 .. Len(q) : q[i] = s[e + i]
  <2> HIDE DEF e
  <2> QED BY <1>2
<1> HIDE DEF w, q
<1>5. IsConcat(u, w, d, Bytes)
  BY <1>3, Concat
<1>6. u \in Seq(Bytes) /\ Len(u) = e
  BY <1>3, <1>5 DEF IsConcat
<1> HIDE DEF u
<1>7. IsConcat(r, u, q, Bytes)
  BY <1>4, <1>6, Concat
<1> HIDE DEF r
<1>8. v \in Seq(Bytes) /\ Len(v) = OverLen(s, d, off)
  BY OverType
<1>9. Len(r) = Len(v) /\ r \in Seq(Bytes)
  <2>1. Len(r) = e + Len(q) /\ r \in Seq(Bytes)
    BY <1>6, <1>7 DEF IsConcat
  <2>2. Len(v) = IF Len(s) < e THEN e ELSE Len(s)
    BY <1>8 DEF OverLen
  <2> HIDE DEF v, e
  <2> QED BY <1>2, <1>4, <2>1, <2>2
<1>10. ASSUME NEW i \in 1 .. Len(v) PROVE r[i] = v[i]
  <2>0. i \in Nat /\ i >= 1 /\ i \in 1 .. OverLen(s, d, off) /\ Len(v) \in Nat
    BY <1>8
  <2>1. v[i] = IF off < i /\ i <= e THEN d[i - off] ELSE IF i <= Len(s) THEN s[i] ELSE Zero
    BY <2>0 DEF Over
  <2>2. Len(v) = IF Len(s) < e THEN e ELSE Len(s)
    BY <1>8 DEF OverLen
  <2> HIDE DEF v
  <2>3. CASE i <= off
    <3>1. i \in 1 .. Len(w) /\ i \in 1 .. Len(u) /\ i \in 1 .. off
      BY <1>2, <1>3, <1>6, <2>0, <2>3
    <3>2. r[i] = u[i] /\ u[i] = w[i]
      BY <1>5, <1>7, <3>1 DEF IsConcat
    <3> HIDE DEF e
    <3> QED BY <1>2, <1>3, <2>0, <2>1, <2>3, <3>1, <3>2
  <2>4. CASE off < i /\ i <= e
    <3>1. i - off \in 1 .. Len(d) /\ i \in 1 .. Len(u) /\ Len(w) + (i - off) = i
      BY <1>2, <1>3, <1>6, <2>0, <2>4
    <3>2. r[i] = u[i] /\ u[Len(w) + (i - off)] = d[i - off]
      BY <1>5, <1>7, <3>1 DEF IsConcat
    <3> QED BY <2>1, <2>4, <3>1, <3>2
  <2>5. CASE e < i
    <3>1. i <= Len(s) /\ i - e \in 1 .. Len(q) /\ Len(u) + (i - e) = i /\ e + (i - e) = i /\ ~(i <= e)
      <4> HIDE DEF e
      <4> QED BY <1>2, <1>4, <1>6, <2>0, <2>2, <2>5
    <3>2. r[Len(u) + (i - e)] = q[i - e]
      BY <1>7, <3>1 DEF IsConcat
    <3>3. q[i - e] = s[e + (i - e)]
      BY <1>4, <3>1
    <3> QED BY <2>1, <3>1, <3>2, <3>3
  <2> HIDE DEF e
  <2> QED BY <1>2, <2>0, <2>3, <2>4, <2>5
<1> HIDE DEF v
<1>11. r = v
  BY <1>8, <1>9, <1>10, SameSeq
<1> QED BY <1>1, <1>11 DEF v

\* A vectored write is one plain write of the concatenated buffers: that of fd_write
\* always, that of fd_pwrite if there is a byte to write or the offset is in the file.
LEMMA WritevIsPut ==
  ASSUME NEW b, IsBuffer(b), NEW off \in Nat, NEW iovs \in Seq(Seq(Byte)), NEW passEmpty \in BOOLEAN,
         Length(iovs) > 0 => Clear(b, off),
         Length(iovs) = 0 => passEmpty \/ off <= Len(b.data)
  PROVE  Writev(b, off, iovs, passEmpty).data = Plain!Put(b.data, Joined(iovs), off)
<1> DEFINE j == Joined(iovs)
           v == Writev(b, off, iovs, passEmpty)
<1>1. j \in Seq(Byte) /\ Len(j) = Length(iovs) /\ Len(j) \in Nat
  BY JoinedType DEF Length
<1>2. j \in Seq(Bytes) /\ b.data \in Seq(Bytes) /\ Len(b.data) \in Nat
  BY <1>1, ByteSeq DEF IsBuffer
<1>3. /\ Clear(b, off) => v.data = Over(b.data, j, off) \/ (j = <<>> /\ v = b)
      /\ passEmpty /\ j = <<>> => v = b
  BY WritevStands DEF Stands, Writev
<1> HIDE DEF j, v
<1>4. CASE j = <<>>
  <2>1. Plain!Put(b.data, j, off) = b.data
    BY <1>4 DEF Plain!Put
  <2>2. CASE passEmpty
    BY <1>3, <1>4, <2>1, <2>2 DEF j, v
  <2>3. CASE ~passEmpty
    <3>1. off <= Len(b.data) /\ Len(j) = 0
      BY <1>1, <1>4, <2>3
    <3>2. Clear(b, off)
      <4>1. 1 .. off - Len(b.data) = {}
        BY <1>2, <3>1
      <4> QED BY <4>1 DEF Clear
    <3>3. Over(b.data, j, off) = b.data
      <4>1. OverLen(b.data, j, off) = Len(b.data)
        BY <1>2, <3>1 DEF OverLen
      <4>2. \A i \in 1 .. Len(b.data) : Over(b.data, j, off)[i] = b.data[i]
        BY <1>2, <3>1, <4>1 DEF Over
      <4>3. Over(b.data, j, off) \in Seq(Bytes) /\ Len(Over(b.data, j, off)) = Len(b.data)
        BY <1>2, <4>1, OverType
      <4> QED BY <1>2, <4>2, <4>3, SameSeq
    <3> QED BY <1>3, <2>1, <3>2, <3>3 DEF j, v
  <2> QED BY <2>2, <2>3
<1>5. CASE j # <<>>
  <2>1. Length(iovs) > 0
    BY <1>1, <1>5
  <2>2. v.data = Over(b.data, j, off)
    BY <1>3, <1>5, <2>1
  <2>3. Plain!Put(b.data, j, off) = Over(b.data, j, off)
    BY <1>2, <1>5, PutIsOver
  <2> QED BY <2>2, <2>3 DEF j, v
<1> QED BY <1>4, <1>5

\* FS.Truncate shows what the plain call does.
LEMMA TruncatedIs ==
  ASSUME NEW b, IsBuffer(b), NEW k \in Nat
  PROVE  IsBuffer(Truncated(b, k)) /\ Truncated(b, k).data = Plain!Written(b.data, k)
<1> DEFINE d == b.data
           s == b.spare
           w == Plain!Written(d, k)
<1>1. b = [data |-> d, spare |-> s] /\ d \in Seq(Bytes) /\ s \in Seq(Bytes) /\ Len(d) \in Nat
  BY DEF IsBuffer
<1>2. w \in Seq(Bytes) /\ Len(w) = k /\ \A i \in 1 .. k : w[i] = IF i <= Len(d) THEN d[i] ELSE Zero
  BY <1>1, WrittenIs
<1> HIDE DEF d, s, w
<1>3. CASE k < Len(d)
  <2> DEFINE x == SubSeq(d, 1, k)
             y == SubSeq(d, k + 1, Len(d))
             z == y \o s
  <2>1. Truncated(b, k) = [data |-> x, spare |-> z]
    BY <1>3 DEF Truncated, d, s
  <2>2. x \in Seq(Bytes) /\ Len(x) = k /\ \A i \in 1 .. k : x[i] = d[i]
    BY <1>1, <1>3
  <2>3. y \in Seq(Bytes)
    BY <1>1, <1>3
  <2> HIDE DEF x, y
  <2>4. IsConcat(z, y, s, Bytes)
    BY <1>1, <2>3, Concat
  <2>5. ASSUME NEW i \in 1 .. k PROVE x[i] = w[i]
    <3>1. i <= Len(d)
      BY <1>1, <1>3
    <3> QED BY <1>2, <2>2, <3>1
  <2>6. x = w
    BY <1>2, <2>2, <2>5, SameSeq
  <2> HIDE DEF z
  <2> QED BY <2>1, <2>2, <2>4, <2>6 DEF IsBuffer, IsConcat, w, d
<1>4. CASE k > Len(d)
  <2> DEFINE z == Fresh(k - Len(d))
             x == d \o z
  <2>1. Truncated(b, k) = [data |-> x, spare |-> <<>>]
    BY <1>1, <1>4 DEF Truncated, d
  <2>2. k - Len(d) \in Int /\ ~(k - Len(d) < 0)
    BY <1>1, <1>4
  <2>3. z \in Seq(Bytes) /\ Len(z) = k - Len(d) /\ \A i \in 1 .. k - Len(d) : z[i] = Zero
    BY <2>2, FreshIs
  <2> HIDE DEF z
  <2>4. IsConcat(x, d, z, Bytes)
    BY <1>1, <2>3, Concat
  <2> HIDE DEF x
  <2>5. x \in Seq(Bytes) /\ Len(x) = k
    BY <1>1, <2>3, <2>4 DEF IsConcat
  <2>6. ASSUME NEW i \in 1 .. k PROVE x[i] = w[i]
    <3>1. CASE i <= Len(d)
      <4>1. i \in 1 .. Len(d)
        BY <1>1, <3>1
      <4> QED BY <1>2, <2>4, <3>1, <4>1 DEF IsConcat
    <3>2. CASE ~(i <= Len(d))
      <4>1. i - Len(d) \in 1 .. k - Len(d) /\ Len(d) + (i - Len(d)) = i
        BY <1>1, <3>2
      <4>2. x[Len(d) + (i - Len(d))] = z[i - Len(d)]
        BY <2>3, <2>4, <4>1 DEF IsConcat
      <4> QED BY <1>2, <2>3, <3>2, <4>1, <4>2
    <3> QED BY <3>1, <3>2
  <2>7. x = w
    BY <1>2, <2>5, <2>6, SameSeq
  <2>8. <<>> \in Seq(Bytes)
    OBVIOUS
  <2> QED BY <2>1, <2>5, <2>7, <2>8 DEF IsBuffer, w, d
<1>5. CASE k = Len(d)
  <2>1. Truncated(b, k) = b
    BY <1>1, <1>5 DEF Truncated, d
  <2>2. \A i \in 1 .. k : w[i] = d[i]
    BY <1>1, <1>2, <1>5
  <2>3. w = d
    BY <1>1, <1>2, <1>5, <2>2, SameSeq
  <2> QED BY <2>1, <2>3 DEF w, d
<1> QED BY <1>1, <1>3, <1>4, <1>5

----------------------------------------------------------------------------
(* The directory.                                                          *)

\* A list that has each element of a set once.
Lists(r, S) ==
    /\ r \in Seq(S)
    /\ Len(r) = Cardinality(S)
    /\ \A i, j \in 1 .. Len(r) : i # j => r[i] # r[j]

\* A listing of a finite directory holds each of its names.
LEMMA ListsAll ==
  ASSUME NEW S, IsFiniteSet(S), NEW r, Lists(r, S)
  PROVE  ToSet(r) = S
<1> DEFINE N == Len(r)
<1>1. N \in Nat /\ N = Cardinality(S) /\ DOMAIN r = 1 .. N /\ r \in [1 .. N -> S]
  BY DEF Lists
<1>2. r \in Injection(1 .. N, S)
  BY <1>1 DEF Lists, Injection, IsInjective
<1>3. Cardinality(1 .. N) = Cardinality(S)
  <2>1. Cardinality(1 .. N) = IF 1 > N THEN 0 ELSE N - 1 + 1
    BY <1>1, FS_Interval
  <2> HIDE DEF N
  <2> QED BY <1>1, <2>1
<1>4. r \in Surjection(1 .. N, S)
  BY <1>2, <1>3, FS_Injection
<1> QED BY <1>1, <1>4 DEF ToSet, Surjection

\* Any order of the directory lists "." and ".." and then the children.
LEMMA ListingsList ==
  ASSUME Dots \subseteq names, names \subseteq Names \union Dots, NEW r \in Listings
  PROVE  IsFiniteSet(names) /\ Lists(r, names)
<1> DEFINE C == names \ Dots
           d == SetToSeq(Dots)
<1>1. IsFiniteSet(Dots) /\ IsFiniteSet(Names) /\ Dots \intersect Names = {}
  BY FilesAssumption
<1>2. IsFiniteSet(Names \union Dots)
  BY <1>1, FS_Union
<1>3. IsFiniteSet(names) /\ IsFiniteSet(C)
  BY <1>2, FS_Subset
<1>4. Cardinality(Dots) \in Nat /\ Cardinality(C) \in Nat
  BY <1>1, <1>3, FS_CardinalityType
<1>5. Cardinality(names) = Cardinality(Dots) + Cardinality(C)
  <2>1. Dots \union C = names /\ Dots \intersect C = {}
    OBVIOUS
  <2>2. Cardinality(Dots \union C) = Cardinality(Dots) + Cardinality(C) - Cardinality(Dots \intersect C)
    BY <1>1, <1>3, FS_Union
  <2>3. Cardinality({}) = 0
    BY FS_EmptySet
  <2> HIDE DEF C
  <2>4. Cardinality(names) = Cardinality(Dots) + Cardinality(C) - Cardinality({})
    BY <2>1, <2>2, Zenon
  <2> QED BY <1>4, <2>3, <2>4
<1>6. Lists(d, Dots)
  <2>1. PICK n \in Nat : ExistsBijection(1 .. n, Dots)
    BY <1>1, FS_CardinalityType
  <2>2. PICK f : f \in Bijection(1 .. n, Dots)
    BY <2>1 DEF ExistsBijection
  <2>3. Cardinality(1 .. n) = n
    <3>1. Cardinality(1 .. n) = IF 1 > n THEN 0 ELSE n - 1 + 1
      BY FS_Interval
    <3> QED BY <3>1
  <2>4. n = Cardinality(Dots)
    <3>1. IsFiniteSet(1 .. n)
      BY FS_Interval
    <3>2. Cardinality(1 .. n) = Cardinality(Dots)
      BY <1>1, <2>1, <3>1, FS_Bijection
    <3> QED BY <2>3, <3>2
  <2>5. f \in [1 .. Cardinality(Dots) -> Dots] /\ IsInjective(f)
    BY <2>2, <2>4 DEF Bijection, Injection
  <2>6. d \in [1 .. Cardinality(Dots) -> Dots] /\ IsInjective(d)
    BY <2>5 DEF SetToSeq
  <2> HIDE DEF d
  <2>7. d \in Seq(Dots) /\ Len(d) = Cardinality(Dots)
    BY <1>4, <2>6
  <2> QED BY <2>6, <2>7 DEF Lists, IsInjective
<1>7. PICK s \in SetToSeqs(C) : r = d \o s
  BY DEF Listings
<1>8. Lists(s, C)
  <2>1. s \in [1 .. Cardinality(C) -> C] /\ \A i, j \in 1 .. Cardinality(C) : i # j => s[i] # s[j]
    BY DEF SetToSeqs
  <2> HIDE DEF C
  <2>2. s \in Seq(C) /\ Len(s) = Cardinality(C)
    BY <1>4, <2>1
  <2> QED BY <2>1, <2>2 DEF Lists
<1> HIDE DEF C, d
<1>9. d \in Seq(names) /\ s \in Seq(names) /\ Len(d) \in Nat /\ Len(s) \in Nat
  <2>1. d \in Seq(Dots) /\ s \in Seq(C) /\ C \subseteq names
    BY <1>6, <1>8 DEF Lists, C
  <2> QED BY <2>1
<1>10. IsConcat(r, d, s, names)
  BY <1>7, <1>9, Concat
<1>11. Len(r) = Len(d) + Len(s) /\ Len(r) = Cardinality(names)
  BY <1>4, <1>5, <1>6, <1>8, <1>10 DEF IsConcat, Lists
<1>12. ASSUME NEW i \in 1 .. Len(r), NEW j \in 1 .. Len(r), i < j PROVE r[i] # r[j]
  <2>1. CASE j <= Len(d)
    <3>1. i \in 1 .. Len(d) /\ j \in 1 .. Len(d) /\ i # j
      BY <1>9, <1>12, <2>1
    <3> QED BY <1>6, <1>10, <3>1 DEF IsConcat, Lists
  <2>2. CASE i <= Len(d) /\ ~(j <= Len(d))
    <3>1. i \in 1 .. Len(d) /\ j - Len(d) \in 1 .. Len(s) /\ Len(d) + (j - Len(d)) = j
      BY <1>9, <1>11, <2>2
    <3>2. r[i] = d[i] /\ r[Len(d) + (j - Len(d))] = s[j - Len(d)]
      BY <1>10, <3>1 DEF IsConcat
    <3>3. d[i] \in Dots /\ s[j - Len(d)] \in C
      BY <1>6, <1>8, <3>1 DEF Lists
    <3> QED BY <3>1, <3>2, <3>3 DEF C
  <2>3. CASE ~(i <= Len(d))
    <3>1. /\ i - Len(d) \in 1 .. Len(s) /\ Len(d) + (i - Len(d)) = i
          /\ j - Len(d) \in 1 .. Len(s) /\ Len(d) + (j - Len(d)) = j
          /\ i - Len(d) # j - Len(d)
      BY <1>9, <1>11, <1>12, <2>3
    <3>2. r[Len(d) + (i - Len(d))] = s[i - Len(d)] /\ r[Len(d) + (j - Len(d))] = s[j - Len(d)]
      BY <1>10, <3>1 DEF IsConcat
    <3>3. s[i - Len(d)] # s[j - Len(d)]
      BY <1>8, <3>1 DEF Lists
    <3> QED BY <3>1, <3>2, <3>3
  <2> QED BY <1>9, <1>11, <2>1, <2>2, <2>3
<1>13. \A i, j \in 1 .. Len(r) : i # j => r[i] # r[j]
  <2>1. \A i, j \in 1 .. Len(r) : i # j => i < j \/ j < i
    BY <1>9, <1>11
  <2> QED BY <1>12, <2>1
<1>14. r \in Seq(names)
  BY <1>10 DEF IsConcat
<1> QED BY <1>3, <1>11, <1>13, <1>14 DEF Lists

----------------------------------------------------------------------------
(* The invariants.                                                         *)

FileFd(d) ==
    /\ d.kind = "file" /\ d = [kind |-> "file", append |-> d.append, off |-> d.off]
    /\ d.append \in BOOLEAN /\ d.off \in Nat
DirFd(d) ==
    /\ d.kind = "dir" /\ d = [kind |-> "dir", off |-> d.off, owed |-> d.owed, given |-> d.given]
    /\ d.off \in Nat
StdFd(d) == d.kind = "std" /\ d = [kind |-> "std"]
Fd(d) == FileFd(d) \/ DirFd(d) \/ StdFd(d)

\* The next number of a descriptor is free.
FdsOK ==
    /\ nextFD \in 3 .. MaxFd + 1
    /\ fds = [f \in DOMAIN fds |-> fds[f]]
    /\ DOMAIN fds \subseteq 3 .. nextFD - 1
    /\ \A f \in DOMAIN fds : Fd(fds[f])

\* "." and ".." are always there.
NamesOK == Dots \subseteq names /\ names \subseteq Names \union Dots

ReplyOK == reply = [n |-> reply.n, data |-> reply.data] /\ reply.n \in Nat /\ Len(reply.data) \in Nat

FilesTypeOK ==
    /\ data \in Seq(Bytes) /\ spare \in Seq(Bytes)
    /\ stdin \in Nat
    /\ FdsOK /\ NamesOK /\ ReplyOK

\* A scan of a directory that fits the buffer is at its beginning, or it has given
\* everything and is at or beyond the end.
ScanAt(d) ==
    /\ d.owed \subseteq names
    /\ d.off = 0 => d.given = {}
    /\ d.off > 0 => d.owed = {} /\ Cardinality(names) <= d.off
ScanInv == \A f \in DOMAIN fds : OnDir(f) => ScanAt(fds[f])

\* The invariants hold before the first call.
LEMMA FilesInitOK == Init => FilesTypeOK /\ ScanInv
<1> SUFFICES ASSUME Init PROVE FilesTypeOK /\ ScanInv
  OBVIOUS
<1>1. data \in Seq(Bytes) /\ spare \in Seq(Bytes) /\ stdin \in Nat
  BY DEF Init
<1>2. FdsOK
  <2>1. MaxFd \in Nat \ 0 .. 2
    BY FilesAssumption
  <2>2. DOMAIN fds = {} /\ nextFD = 3 /\ fds = [f \in DOMAIN fds |-> fds[f]]
    BY DEF Init
  <2> QED BY <2>1, <2>2 DEF FdsOK
<1>3. NamesOK
  BY DEF Init, NamesOK
<1>4. ReplyOK
  BY DEF Init, ReplyOK, Nothing
<1>5. ScanInv
  BY DEF Init, ScanInv
<1> QED BY <1>1, <1>2, <1>3, <1>4, <1>5 DEF FilesTypeOK

\* What the calls return.
LEMMA NothingOK == reply' = Nothing => ReplyOK'
  BY DEF Nothing, ReplyOK
\* A reply that moved k bytes is well formed.
LEMMA MovedOK == ASSUME NEW k \in Nat, reply' = Moved(k) PROVE ReplyOK'
  BY DEF Moved, ReplyOK
\* So is a reply with what was read.
LEMMA GotOK == ASSUME NEW B, NEW s \in Seq(B), reply' = Got(s) PROVE ReplyOK' /\ reply'.n \in Nat
  BY DEF Got, ReplyOK

\* A new descriptor, a changed one, none.
LEMMA AddFdOK ==
  ASSUME FdsOK, NEW d, Fd(d), AddFd(d)
  PROVE  FdsOK' /\ ReplyOK'
<1>1. MaxFd \in Nat
  BY FilesAssumption
<1>2. fds' = [f \in DOMAIN fds \union {nextFD} |-> IF f = nextFD THEN d ELSE fds[f]] /\ nextFD' = nextFD + 1
  BY DEF AddFd
<1>3. DOMAIN fds' = DOMAIN fds \union {nextFD}
      /\ \A f \in DOMAIN fds' : fds'[f] = IF f = nextFD THEN d ELSE fds[f]
  BY <1>2
<1>4. fds' = [f \in DOMAIN fds' |-> fds'[f]]
  BY <1>2
<1>5. DOMAIN fds' \subseteq 3 .. nextFD' - 1 /\ nextFD' \in 3 .. MaxFd + 1
  BY <1>1, <1>2, <1>3 DEF FdsOK, AddFd
<1>6. \A f \in DOMAIN fds' : Fd(fds'[f])
  BY <1>3 DEF FdsOK
<1>7. FdsOK'
  BY <1>4, <1>5, <1>6 DEF FdsOK
<1> QED BY <1>7, NothingOK DEF AddFd

\* Replacing the state of one open descriptor keeps the table well formed ...
LEMMA SetFdOK ==
  ASSUME FdsOK, NEW g \in DOMAIN fds, NEW d, Fd(d),
         fds' = [fds EXCEPT ![g] = d], nextFD' = nextFD
  PROVE  FdsOK'
<1>1. DOMAIN fds' = DOMAIN fds /\ \A f \in DOMAIN fds : fds'[f] = IF f = g THEN d ELSE fds[f]
  OBVIOUS
<1>2. fds' = [f \in DOMAIN fds' |-> fds'[f]]
  OBVIOUS
<1>3. \A f \in DOMAIN fds' : Fd(fds'[f])
  BY <1>1 DEF FdsOK
<1> QED BY <1>1, <1>2, <1>3 DEF FdsOK

\* ... and so does moving the offset of a file.
LEMMA SetOffOK ==
  ASSUME FdsOK, NEW g, OnFile(g), NEW k \in Nat, SetOff(g, k), nextFD' = nextFD
  PROVE  FdsOK'
<1>1. g \in DOMAIN fds /\ FileFd(fds[g])
  BY DEF OnFile, FdsOK, Fd, DirFd, StdFd
<1> DEFINE d == [kind |-> "file", append |-> fds[g].append, off |-> k]
<1>2. d = [fds[g] EXCEPT !.off = k]
  BY <1>1 DEF FileFd
<1>3. fds' = [fds EXCEPT ![g] = d]
  BY <1>2 DEF SetOff
<1>4. Fd(d)
  BY <1>1 DEF Fd, FileFd
<1> HIDE DEF d
<1> QED BY <1>1, <1>3, <1>4, SetFdOK

\* One step, by what it may change.
LEMMA FilesTypeSplit ==
  ASSUME FilesTypeOK, data' \in Seq(Bytes), spare' \in Seq(Bytes), stdin' \in Nat, FdsOK', NamesOK', ReplyOK'
  PROVE  FilesTypeOK'
  BY DEF FilesTypeOK
\* A call that leaves the table alone keeps it well formed ...
LEMMA SameFds == FdsOK /\ UNCHANGED <<fds, nextFD>> => FdsOK'
  BY DEF FdsOK
\* ... and one that leaves the directory alone keeps its names.
LEMMA SameNames == NamesOK /\ names' = names => NamesOK'
  BY DEF NamesOK
\* Storing a well-formed buffer leaves a well-formed file.
LEMMA SetFileOK == ASSUME NEW b, IsBuffer(b), SetFile(b) PROVE data' \in Seq(Bytes) /\ spare' \in Seq(Bytes)
  BY DEF IsBuffer, SetFile
\* The file is a well-formed buffer.
LEMMA FileIsBuffer == FilesTypeOK => IsBuffer(File)
  BY DEF FilesTypeOK, IsBuffer, File
\* A call that leaves the file alone keeps it one.
LEMMA KeptFile == FilesTypeOK /\ Keep => data' \in Seq(Bytes) /\ spare' \in Seq(Bytes)
  BY DEF FilesTypeOK, Keep

\* A vectored read of a sequence of bytes.
LEMMA ReadvType ==
  ASSUME NEW B, NEW s \in Seq(B), NEW off \in Nat, NEW lens \in Seq(Nat)
  PROVE  Readv(s, off, lens) \in Seq(B)
<1>1. Total(lens) \in Nat
  BY TotalType DEF Total
<1>2. IsPart(ReadAt(s, off, Total(lens)), B, s, off, Total(lens))
  BY <1>1, PartIs
<1> QED BY <1>2, ReadvIsRead DEF IsPart

\* The descriptors of the file have a position.
LEMMA FilePosition == ASSUME FdsOK, NEW f, OnFile(f) PROVE FileFd(fds[f]) /\ fds[f].off \in Nat
  BY DEF FdsOK, OnFile, Fd, FileFd, DirFd, StdFd
\* A descriptor of the directory is one of a scan and stands at a number.
LEMMA DirPosition == ASSUME FdsOK, NEW f, OnDir(f) PROVE DirFd(fds[f]) /\ fds[f].off \in Nat
  BY DEF FdsOK, OnDir, Fd, FileFd, DirFd, StdFd

\* What getdents64 leaves in the descriptor.
Scanned(d, S, k) ==
    [kind |-> "dir", off |-> d.off + k, owed |-> d.owed \ S, given |-> d.given \union S]
\* Every call keeps the types.
LEMMA FilesTypeNext ==
  ASSUME FilesTypeOK, Next
  PROVE  FilesTypeOK'
<1>0. /\ data \in Seq(Bytes) /\ spare \in Seq(Bytes) /\ stdin \in Nat
      /\ FdsOK /\ NamesOK /\ ReplyOK
  BY DEF FilesTypeOK
<1>P. Positions \subseteq Nat
  BY FilesAssumption
<1>R. ReadVecs \subseteq Seq(Nat)
  BY FilesAssumption
<1>W. WriteVecs \subseteq Seq(Seq(Byte))
  BY FilesAssumption
<1>1. ASSUME NEW a \in BOOLEAN, NEW tr \in BOOLEAN, OpenFile(a, tr) PROVE FilesTypeOK'
  <2> DEFINE b == IF tr THEN [data |-> <<>>, spare |-> <<>>] ELSE File
  <2>1. IsBuffer(b)
    <3>1. IsBuffer([data |-> <<>>, spare |-> <<>>])
      BY DEF IsBuffer
    <3> QED BY <3>1, FileIsBuffer
  <2>2. SetFile(b)
    BY <1>1 DEF OpenFile
  <2> HIDE DEF b
  <2>3. data' \in Seq(Bytes) /\ spare' \in Seq(Bytes)
    BY <2>1, <2>2, SetFileOK
  <2> DEFINE d == [kind |-> "file", append |-> a, off |-> IF a THEN Len(data') ELSE 0]
  <2>4. Fd(d)
    BY <2>3 DEF Fd, FileFd
  <2>5. AddFd(d)
    BY <1>1 DEF OpenFile
  <2> HIDE DEF d
  <2>6. FdsOK' /\ ReplyOK'
    BY <1>0, <2>4, <2>5, AddFdOK
  <2>7. names' = names /\ stdin' \in Nat
    BY <1>0, <1>1 DEF OpenFile
  <2> QED BY <1>0, <2>3, <2>6, <2>7, SameNames, FilesTypeSplit
<1>2. CASE OpenDir
  <2> DEFINE d == [kind |-> "dir", off |-> 0, owed |-> names, given |-> {}]
  <2>1. Fd(d)
    BY DEF Fd, DirFd
  <2>2. AddFd(d) /\ Keep /\ names' = names /\ stdin' \in Nat
    BY <1>0, <1>2 DEF OpenDir
  <2> HIDE DEF d
  <2>3. FdsOK' /\ ReplyOK'
    BY <1>0, <2>1, <2>2, AddFdOK
  <2> QED BY <1>0, <2>2, <2>3, KeptFile, SameNames, FilesTypeSplit
<1>3. ASSUME NEW f, Dup(f) PROVE FilesTypeOK'
  <2> DEFINE d == IF f \in DOMAIN fds THEN fds[f] ELSE [kind |-> "std"]
  <2>1. Fd(d)
    BY <1>0 DEF Fd, StdFd, FdsOK
  <2>2. AddFd(d) /\ Keep /\ names' = names /\ stdin' \in Nat
    BY <1>0, <1>3 DEF Dup
  <2> HIDE DEF d
  <2>3. FdsOK' /\ ReplyOK'
    BY <1>0, <2>1, <2>2, AddFdOK
  <2> QED BY <1>0, <2>2, <2>3, KeptFile, SameNames, FilesTypeSplit
<1>4. ASSUME NEW f, Close(f) PROVE FilesTypeOK'
  <2>1. Keep /\ names' = names /\ stdin' \in Nat /\ reply' = Nothing /\ nextFD' = nextFD
        /\ fds' = [g \in DOMAIN fds \ {f} |-> fds[g]]
    BY <1>0, <1>4 DEF Close
  <2>2. FdsOK'
    <3>1. DOMAIN fds' \subseteq DOMAIN fds /\ \A g \in DOMAIN fds' : fds'[g] = fds[g]
      BY <2>1
    <3>2. fds' = [g \in DOMAIN fds' |-> fds'[g]]
      BY <2>1
    <3> QED BY <1>0, <2>1, <3>1, <3>2 DEF FdsOK
  <2> QED BY <1>0, <2>1, <2>2, NothingOK, KeptFile, SameNames, FilesTypeSplit
<1>5. ASSUME NEW f, Rewind(f) PROVE FilesTypeOK'
  <2> DEFINE d == [kind |-> "dir", off |-> 0, owed |-> names, given |-> {}]
  <2>1. Fd(d)
    BY DEF Fd, DirFd
  <2>2. Keep /\ names' = names /\ stdin' \in Nat /\ reply' = Nothing /\ nextFD' = nextFD
        /\ fds' = [fds EXCEPT ![f] = d] /\ f \in DOMAIN fds
    BY <1>0, <1>5 DEF Rewind, OnDir
  <2> HIDE DEF d
  <2>3. FdsOK'
    BY <1>0, <2>1, <2>2, SetFdOK
  <2> QED BY <1>0, <2>2, <2>3, NothingOK, KeptFile, SameNames, FilesTypeSplit
<1>6. ASSUME NEW f, Getdents64(f) PROVE FilesTypeOK'
  <2>1. OnDir(f) /\ Keep /\ names' = names /\ stdin' \in Nat /\ nextFD' = nextFD
    BY <1>0, <1>6 DEF Getdents64
  <2>2. DirFd(fds[f]) /\ fds[f].off \in Nat
    BY <1>0, <2>1, DirPosition
  <2>3. PICK r \in Listings :
          LET given == ReadAt(r, fds[f].off, Batch) IN
          /\ reply' = Got(given)
          /\ fds' = [fds EXCEPT ![f] = [kind |-> "dir", off |-> @.off + Len(given),
                                        owed |-> @.owed \ ToSet(given),
                                        given |-> @.given \union ToSet(given)]]
    BY <1>6 DEF Getdents64
  <2> DEFINE g == ReadAt(r, fds[f].off, Batch)
             d == Scanned(fds[f], ToSet(g), Len(g))
  <2>4. g \in Seq(names)
    <3>1. r \in Seq(names)
      BY <1>0, ListingsList DEF NamesOK, Lists
    <3>2. Batch \in Nat
      BY FilesAssumption
    <3> QED BY <2>2, <3>1, <3>2, PartIs DEF IsPart
  <2>5. reply' = Got(g)
    BY <2>3
  <2>6. fds' = [fds EXCEPT ![f] = d]
    BY <2>3 DEF Scanned
  <2> HIDE DEF g
  <2>7. Fd(d)
    BY <2>2, <2>4 DEF Fd, DirFd, Scanned
  <2> HIDE DEF d
  <2>8. FdsOK'
    BY <1>0, <2>1, <2>6, <2>7, SetFdOK DEF OnDir
  <2> QED BY <1>0, <2>1, <2>4, <2>5, <2>8, GotOK, KeptFile, SameNames, FilesTypeSplit
<1>7. ASSUME NEW f, NEW lens \in ReadVecs, FdRead(f, lens) PROVE FilesTypeOK'
  <2>1. Keep /\ names' = names /\ nextFD' = nextFD
    BY <1>7 DEF FdRead
  <2>2. lens \in Seq(Nat)
    BY <1>R
  <2>3. ReplyOK' /\ reply'.n \in Nat
    <3>1. CASE OnFile(f)
      <4>1. Readv(data, fds[f].off, lens) \in Seq(Bytes)
        BY <1>0, <2>2, <3>1, FilePosition, ReadvType
      <4>0. f # 0
        BY <1>0, <3>1 DEF FdsOK, OnFile
      <4>2. reply' = Got(Readv(data, fds[f].off, lens))
        BY <1>7, <3>1, <4>0 DEF FdRead
      <4> QED BY <4>1, <4>2, GotOK
    <3>2. CASE ~OnFile(f) /\ f = 0
      <4>0. StdIn \in Seq(Byte)
        BY FilesAssumption
      <4>1. Readv(StdIn, stdin, lens) \in Seq(Byte)
        BY <1>0, <2>2, <4>0, ReadvType
      <4>2. reply' = Got(Readv(StdIn, stdin, lens))
        BY <1>7, <3>2 DEF FdRead
      <4> QED BY <4>1, <4>2, GotOK
    <3>3. CASE ~OnFile(f) /\ f # 0
      <4>1. reply' = Nothing
        BY <1>7, <3>3 DEF FdRead
      <4> QED BY <4>1, NothingOK DEF Nothing
    <3> QED BY <3>1, <3>2, <3>3
  <2>4. stdin' \in Nat
    BY <1>0, <1>7, <2>3 DEF FdRead
  <2>5. FdsOK'
    <3>1. CASE OnFile(f)
      <4>1. fds[f].off + reply'.n \in Nat
        BY <1>0, <2>3, <3>1, FilePosition
      <4>2. SetOff(f, fds[f].off + reply'.n)
        BY <1>7, <3>1 DEF FdRead, SetOff
      <4> QED BY <1>0, <2>1, <3>1, <4>1, <4>2, SetOffOK
    <3>2. CASE ~OnFile(f)
      BY <1>0, <1>7, <2>1, <3>2, SameFds DEF FdRead
    <3> QED BY <3>1, <3>2
  <2> QED BY <1>0, <2>1, <2>3, <2>4, <2>5, KeptFile, SameNames, FilesTypeSplit
<1>8. ASSUME NEW f, NEW off \in Positions, NEW lens \in ReadVecs, FdPread(f, off, lens) PROVE FilesTypeOK'
  <2>1. Keep /\ names' = names /\ nextFD' = nextFD /\ fds' = fds /\ stdin' \in Nat
    BY <1>0, <1>8 DEF FdPread
  <2>2. ReplyOK'
    <3>1. Readv(data, off, lens) \in Seq(Bytes)
      BY <1>0, <1>P, <1>R, ReadvType
    <3>2. reply' = Got(Readv(data, off, lens)) \/ reply' = Nothing
      BY <1>8 DEF FdPread
    <3> QED BY <3>1, <3>2, GotOK, NothingOK
  <2> QED BY <1>0, <2>1, <2>2, SameFds, KeptFile, SameNames, FilesTypeSplit
<1>9. ASSUME NEW f, NEW iovs \in WriteVecs, FdWrite(f, iovs) PROVE FilesTypeOK'
  <2>1. names' = names /\ nextFD' = nextFD /\ stdin' \in Nat
    BY <1>0, <1>9 DEF FdWrite
  <2>2. iovs \in Seq(Seq(Byte))
    BY <1>W
  <2>3. Length(iovs) \in Nat
    BY <2>2, JoinedType
  <2>4. CASE OnFile(f)
    <3>1. fds[f].off \in Nat
      BY <1>0, <2>4, FilePosition
    <3>2. /\ SetFile(Writev(File, fds[f].off, iovs, TRUE))
          /\ SetOff(f, fds[f].off + Length(iovs)) /\ reply' = Moved(Length(iovs))
      BY <1>9, <2>4 DEF FdWrite
    <3>3. IsBuffer(Writev(File, fds[f].off, iovs, TRUE))
      <4>1. IsBuffer(File)
        BY FileIsBuffer
      <4> QED BY <2>2, <3>1, <4>1, WritevType
    <3>4. data' \in Seq(Bytes) /\ spare' \in Seq(Bytes)
      BY <3>2, <3>3, SetFileOK
    <3>5. FdsOK'
      <4>1. fds[f].off + Length(iovs) \in Nat
        BY <2>3, <3>1
      <4> QED BY <1>0, <2>1, <2>4, <3>2, <4>1, SetOffOK
    <3> QED BY <1>0, <2>1, <2>3, <3>2, <3>4, <3>5, MovedOK, SameNames, FilesTypeSplit
  <2>5. CASE ~OnFile(f)
    <3>1. Keep /\ fds' = fds /\ (reply' = Moved(Length(iovs)) \/ reply' = Nothing)
      BY <1>9, <2>5 DEF FdWrite
    <3> QED BY <1>0, <2>1, <2>3, <3>1, MovedOK, NothingOK, SameFds, KeptFile, SameNames, FilesTypeSplit
  <2> QED BY <2>4, <2>5
<1>10. ASSUME NEW f, NEW off \in Positions, NEW iovs \in WriteVecs, FdPwrite(f, off, iovs) PROVE FilesTypeOK'
  <2>1. names' = names /\ nextFD' = nextFD /\ fds' = fds /\ stdin' \in Nat
    BY <1>0, <1>10 DEF FdPwrite
  <2>2. iovs \in Seq(Seq(Byte)) /\ off \in Nat
    BY <1>P, <1>W
  <2>3. Length(iovs) \in Nat
    BY <2>2, JoinedType
  <2>4. CASE OnFile(f)
    <3>1. SetFile(Writev(File, off, iovs, FALSE)) /\ reply' = Moved(Length(iovs))
      BY <1>10, <2>4 DEF FdPwrite
    <3>2. IsBuffer(Writev(File, off, iovs, FALSE))
      <4>1. IsBuffer(File)
        BY FileIsBuffer
      <4> QED BY <2>2, <4>1, WritevType
    <3>3. data' \in Seq(Bytes) /\ spare' \in Seq(Bytes)
      BY <3>1, <3>2, SetFileOK
    <3> QED BY <1>0, <2>1, <2>3, <3>1, <3>3, MovedOK, SameFds, SameNames, FilesTypeSplit
  <2>5. CASE ~OnFile(f)
    <3>1. Keep /\ reply' = Nothing
      BY <1>10, <2>5 DEF FdPwrite
    <3> QED BY <1>0, <2>1, <3>1, NothingOK, SameFds, KeptFile, SameNames, FilesTypeSplit
  <2> QED BY <2>4, <2>5
<1>11. ASSUME NEW f, NEW offset \in Positions \union {-1}, NEW whence \in {"set", "cur", "end"},
              FdSeek(f, offset, whence)
       PROVE  FilesTypeOK'
  <2> DEFINE base == CASE whence = "set" -> 0 [] whence = "cur" -> fds[f].off [] whence = "end" -> Len(data)
             new == base + offset
  <2>1. OnFile(f) /\ Keep /\ names' = names /\ nextFD' = nextFD /\ stdin' \in Nat
    BY <1>0, <1>11 DEF FdSeek
  <2>2. base \in Nat
    BY <1>0, <2>1, FilePosition
  <2>3. IF new < 0 THEN reply' = Nothing /\ UNCHANGED fds ELSE reply' = Moved(new) /\ SetOff(f, new)
    BY <1>11 DEF FdSeek
  <2> HIDE DEF base
  <2>4. new \in Int
    BY <1>P, <2>2
  <2>5. CASE new < 0
    BY <1>0, <2>1, <2>3, <2>5, NothingOK, SameFds, KeptFile, SameNames, FilesTypeSplit
  <2>6. CASE ~(new < 0)
    <3>1. new \in Nat
      BY <2>4, <2>6
    <3> HIDE DEF new
    <3>2. FdsOK' /\ ReplyOK'
      BY <1>0, <2>1, <2>3, <2>6, <3>1, MovedOK, SetOffOK
    <3> QED BY <1>0, <2>1, <3>2, KeptFile, SameNames, FilesTypeSplit
  <2> QED BY <2>5, <2>6
<1>12. ASSUME NEW f, NEW k \in Positions, Ftruncate(f, k) PROVE FilesTypeOK'
  <2>1. SetFile(Truncated(File, k)) /\ names' = names /\ nextFD' = nextFD /\ fds' = fds /\ stdin' \in Nat
        /\ reply' = Nothing
    BY <1>0, <1>12 DEF Ftruncate
  <2>2. IsBuffer(Truncated(File, k))
    <3>1. IsBuffer(File)
      BY FileIsBuffer
    <3> QED BY <1>P, <3>1, TruncatedIs
  <2>3. data' \in Seq(Bytes) /\ spare' \in Seq(Bytes)
    BY <2>1, <2>2, SetFileOK
  <2> QED BY <1>0, <2>1, <2>3, NothingOK, SameFds, SameNames, FilesTypeSplit
<1>13. ASSUME NEW n \in Names, Create(n) PROVE FilesTypeOK'
  <2>1. Keep /\ nextFD' = nextFD /\ fds' = fds /\ stdin' \in Nat /\ reply' = Nothing /\ names' = names \union {n}
    BY <1>0, <1>13 DEF Create
  <2>2. NamesOK'
    BY <1>0, <2>1 DEF NamesOK
  <2> QED BY <1>0, <2>1, <2>2, NothingOK, SameFds, KeptFile, FilesTypeSplit
<1>14. ASSUME NEW n \in Names, Unlink(n) PROVE FilesTypeOK'
  <2>1. /\ Keep /\ nextFD' = nextFD /\ stdin' \in Nat /\ reply' = Nothing /\ names' = names \ {n}
        /\ fds' = [f \in DOMAIN fds |-> IF OnDir(f) THEN [fds[f] EXCEPT !.owed = @ \ {n}] ELSE fds[f]]
    BY <1>0, <1>14 DEF Unlink
  <2>2. NamesOK'
    <3>1. Dots \intersect Names = {}
      BY FilesAssumption
    <3> QED BY <1>0, <2>1, <3>1 DEF NamesOK
  <2>3. FdsOK'
    <3>1. /\ DOMAIN fds' = DOMAIN fds /\ fds' = [f \in DOMAIN fds' |-> fds'[f]]
          /\ \A f \in DOMAIN fds : fds'[f] = IF OnDir(f) THEN [fds[f] EXCEPT !.owed = @ \ {n}] ELSE fds[f]
      BY <2>1
    <3>2. ASSUME NEW f \in DOMAIN fds PROVE Fd(fds'[f])
      <4>1. CASE OnDir(f)
        <5>1. DirFd(fds[f])
          BY <1>0, <4>1, DirPosition
        <5>2. fds'[f] = [kind |-> "dir", off |-> fds[f].off, owed |-> fds[f].owed \ {n}, given |-> fds[f].given]
          BY <3>1, <4>1, <5>1 DEF DirFd
        <5> QED BY <5>1, <5>2 DEF Fd, DirFd
      <4>2. CASE ~OnDir(f)
        BY <1>0, <3>1, <4>2 DEF FdsOK
      <4> QED BY <4>1, <4>2
    <3> QED BY <1>0, <2>1, <3>1, <3>2 DEF FdsOK
  <2> QED BY <1>0, <2>1, <2>2, <2>3, NothingOK, KeptFile, FilesTypeSplit
<1> QED BY <1>1, <1>2, <1>3, <1>4, <1>5, <1>6, <1>7, <1>8, <1>9, <1>10, <1>11, <1>12, <1>13, <1>14 DEF Next

\* The calls keep their variables well typed, in every use.
THEOREM FilesTypeCorrect == Spec => []FilesTypeOK
<1>1. FilesTypeOK /\ UNCHANGED vars => FilesTypeOK'
  <2> SUFFICES ASSUME FilesTypeOK, UNCHANGED vars PROVE FilesTypeOK'
    OBVIOUS
  <2>1. /\ data' = data /\ spare' = spare /\ names' = names /\ fds' = fds
        /\ nextFD' = nextFD /\ stdin' = stdin /\ reply' = reply
    BY DEF vars
  <2> QED BY <2>1, SameFds, SameNames DEF FilesTypeOK, ReplyOK
<1> QED BY <1>1, FilesInitOK, FilesTypeNext, PTL DEF Spec

----------------------------------------------------------------------------
(* Scans of a directory that fits the buffer.                              *)

NoScanGaps == "long" \notin Gaps /\ "change" \notin Gaps

\* One call gives the whole directory, or, at its end, nothing.
LEMMA GivesAllOrNothing ==
  ASSUME FilesTypeOK, NoScanGaps, ScanInv, NEW f, OnDir(f), Getdents64(f), NEW r \in Listings
  PROVE  \/ fds[f].off = 0 /\ ReadAt(r, fds[f].off, Batch) = r /\ ToSet(r) = names
            /\ Len(r) = Cardinality(names) /\ (r = <<>> => names = {})
         \/ fds[f].off > 0 /\ ReadAt(r, fds[f].off, Batch) = <<>>
<1>1. fds[f].off \in Nat /\ ScanAt(fds[f]) /\ FdsOK /\ NamesOK
  BY DirPosition DEF FilesTypeOK, ScanInv, OnDir
<1>2. IsFiniteSet(names) /\ Lists(r, names)
  BY <1>1, ListingsList DEF NamesOK
<1>3. r \in Seq(names) /\ Len(r) = Cardinality(names) /\ Len(r) \in Nat
  BY <1>2 DEF Lists
<1>4. Batch \in Nat /\ Len(r) <= Batch
  <2>1. Batch \in Nat
    BY FilesAssumption
  <2>2. ~(Cardinality(names) > Batch)
    BY DEF Getdents64, NoScanGaps
  <2> QED BY <1>3, <2>1, <2>2
<1>5. CASE fds[f].off = 0
  <2>1. IsPart(ReadAt(r, 0, Batch), names, r, 0, Batch)
    BY <1>3, <1>4, PartIs
  <2>2. PartLen(r, 0, Batch) = Len(r)
    BY <1>3, <1>4 DEF PartLen
  <2>3. /\ ReadAt(r, 0, Batch) \in Seq(names) /\ Len(ReadAt(r, 0, Batch)) = Len(r)
        /\ \A i \in 1 .. Len(r) : ReadAt(r, 0, Batch)[i] = r[i]
    <3>1. \A i \in 1 .. Len(r) : ReadAt(r, 0, Batch)[i] = r[0 + i]
      BY <2>1, <2>2 DEF IsPart
    <3>2. \A i \in 1 .. Len(r) : 0 + i = i
      BY <1>3
    <3> QED BY <2>1, <2>2, <3>1, <3>2 DEF IsPart
  <2>4. ReadAt(r, 0, Batch) = r
    BY <1>3, <2>3, SameSeq
  <2>5. ToSet(r) = names
    BY <1>2, ListsAll
  <2>6. r = <<>> => names = {}
    BY <2>5 DEF ToSet
  <2> QED BY <1>3, <1>5, <2>4, <2>5, <2>6
<1>6. CASE fds[f].off > 0
  <2> DEFINE p == ReadAt(r, fds[f].off, Batch)
  <2>1. Len(r) <= fds[f].off
    BY <1>1, <1>3, <1>6 DEF ScanAt
  <2>2. IsPart(p, names, r, fds[f].off, Batch)
    BY <1>1, <1>3, <1>4, PartIs
  <2>3. p \in Seq(names) /\ Len(p) = 0
    BY <2>1, <2>2 DEF IsPart, PartLen
  <2> HIDE DEF p
  <2>4. p = <<>>
    BY <2>3
  <2> QED BY <1>6, <2>4 DEF p
<1> QED BY <1>1, <1>5, <1>6

\* A scan is what it was if the descriptor and the directory are.
LEMMA ScanKept ==
  ASSUME ScanInv, names' = names,
         \A f \in DOMAIN fds' : OnDir(f)' => (OnDir(f) /\ fds'[f] = fds[f]) \/ ScanAt(fds[f])'
  PROVE  ScanInv'
  BY DEF ScanInv, ScanAt, OnDir

\* Moving the offset of a file touches no scan.
LEMMA ScanSetOff ==
  ASSUME FdsOK, ScanInv, names' = names, NEW g, OnFile(g), NEW k, SetOff(g, k)
  PROVE  ScanInv'
<1>1. FileFd(fds[g]) /\ g \in DOMAIN fds
  BY FilePosition DEF OnFile
<1>2. DOMAIN fds' = DOMAIN fds /\ (\A f \in DOMAIN fds : f # g => fds'[f] = fds[f]) /\ fds'[g].kind = "file"
  BY <1>1 DEF SetOff, FileFd
<1> QED BY <1>2, ScanKept DEF OnDir

\* Every call keeps the scans where they are: nothing given yet, or everything owed given.
LEMMA ScanNext ==
  ASSUME FilesTypeOK, NoScanGaps, ScanInv, Next
  PROVE  ScanInv'
<1>0. FdsOK /\ NamesOK
  BY DEF FilesTypeOK
<1>1. ASSUME NEW d, AddFd(d), names' = names, d.kind = "dir" => ScanAt(d) PROVE ScanInv'
  <2>1. /\ DOMAIN fds' = DOMAIN fds \union {nextFD}
        /\ \A f \in DOMAIN fds' : fds'[f] = IF f = nextFD THEN d ELSE fds[f]
    BY <1>1 DEF AddFd
  <2> QED BY <1>1, <2>1, ScanKept DEF OnDir, ScanAt
<1>2. fds' = fds /\ names' = names => ScanInv'
  BY ScanKept DEF OnDir
<1>3. ASSUME NEW a \in BOOLEAN, NEW tr \in BOOLEAN, OpenFile(a, tr) PROVE ScanInv'
  <2> DEFINE d == [kind |-> "file", append |-> a, off |-> IF a THEN Len(data') ELSE 0]
  <2>1. AddFd(d) /\ names' = names /\ d.kind # "dir"
    BY <1>3 DEF OpenFile
  <2> HIDE DEF d
  <2> QED BY <1>1, <2>1
<1>4. CASE OpenDir
  <2> DEFINE d == [kind |-> "dir", off |-> 0, owed |-> names, given |-> {}]
  <2>1. AddFd(d) /\ names' = names /\ ScanAt(d)
    BY <1>4 DEF OpenDir, ScanAt
  <2> HIDE DEF d
  <2> QED BY <1>1, <2>1
<1>5. ASSUME NEW f, Dup(f) PROVE ScanInv'
  <2> DEFINE d == IF f \in DOMAIN fds THEN fds[f] ELSE [kind |-> "std"]
  <2>1. AddFd(d) /\ names' = names /\ (d.kind = "dir" => ScanAt(d))
    BY <1>5 DEF Dup, ScanInv, OnDir
  <2> HIDE DEF d
  <2> QED BY <1>1, <2>1
<1>6. ASSUME NEW f, Close(f) PROVE ScanInv'
  <2>1. names' = names /\ DOMAIN fds' \subseteq DOMAIN fds /\ \A g \in DOMAIN fds' : fds'[g] = fds[g]
    BY <1>6 DEF Close
  <2> QED BY <2>1, ScanKept DEF OnDir
<1>7. ASSUME NEW f, Rewind(f) PROVE ScanInv'
  <2> DEFINE d == [kind |-> "dir", off |-> 0, owed |-> names, given |-> {}]
  <2>1. names' = names /\ DOMAIN fds' = DOMAIN fds
        /\ \A g \in DOMAIN fds' : fds'[g] = IF g = f THEN d ELSE fds[g]
    BY <1>7 DEF Rewind
  <2>2. f \in DOMAIN fds
    BY <1>7 DEF Rewind, OnDir
  <2>3. ScanAt(fds[f])'
    BY <2>1, <2>2 DEF ScanAt
  <2>4. ASSUME NEW h \in DOMAIN fds', OnDir(h)' PROVE (OnDir(h) /\ fds'[h] = fds[h]) \/ ScanAt(fds[h])'
    <3>1. CASE h = f
      BY <2>3, <3>1
    <3>2. CASE h # f
      BY <2>1, <2>4, <3>2 DEF OnDir
    <3> QED BY <3>1, <3>2
  <2> QED BY <2>1, <2>4, ScanKept
<1>8. ASSUME NEW f, Getdents64(f) PROVE ScanInv'
  <2>1. OnDir(f) /\ names' = names
    BY <1>8 DEF Getdents64
  <2>2. PICK r \in Listings :
          LET given == ReadAt(r, fds[f].off, Batch) IN
          fds' = [fds EXCEPT ![f] = [kind |-> "dir", off |-> @.off + Len(given),
                                     owed |-> @.owed \ ToSet(given),
                                     given |-> @.given \union ToSet(given)]]
    BY <1>8 DEF Getdents64
  <2> DEFINE g == ReadAt(r, fds[f].off, Batch)
             d == Scanned(fds[f], ToSet(g), Len(g))
  <2>3. DOMAIN fds' = DOMAIN fds /\ \A h \in DOMAIN fds' : fds'[h] = IF h = f THEN d ELSE fds[h]
    BY <2>2 DEF Scanned
  <2>4. ScanAt(fds[f]) /\ fds[f].off \in Nat
    BY <1>0, <2>1, DirPosition DEF ScanInv, OnDir
  <2>5. ScanAt(d)
    <3>1. CASE fds[f].off = 0 /\ g = r /\ ToSet(r) = names /\ Len(r) = Cardinality(names) /\ (r = <<>> => names = {})
      <4>1. IsFiniteSet(names) /\ Len(r) \in Nat
        BY <1>0, ListingsList DEF NamesOK, Lists
      <4>2. d = [kind |-> "dir", off |-> 0 + Len(r), owed |-> fds[f].owed \ names, given |-> {} \union names]
        BY <2>4, <3>1 DEF Scanned, ScanAt
      <4>3. fds[f].owed \ names = {}
        BY <2>4 DEF ScanAt
      <4>4. Len(r) = 0 => names = {}
        BY <3>1, <4>1, FS_EmptySet
      <4> HIDE DEF d
      <4> QED BY <3>1, <4>1, <4>2, <4>3, <4>4 DEF ScanAt
    <3>2. CASE fds[f].off > 0 /\ g = <<>>
      <4>1. ToSet(g) = {} /\ Len(g) = 0
        BY <3>2 DEF ToSet
      <4>2. d.off = fds[f].off /\ d.owed = fds[f].owed /\ d.given = fds[f].given
        BY <2>4, <4>1 DEF Scanned
      <4> HIDE DEF d
      <4> QED BY <2>4, <4>2 DEF ScanAt
    <3> HIDE DEF d
    <3> QED BY <1>8, <2>1, <3>1, <3>2, GivesAllOrNothing
  <2>6. ScanAt(fds[f])'
    <3>1. fds'[f] = d
      BY <2>1, <2>3 DEF OnDir
    <3> HIDE DEF d
    <3> QED BY <2>1, <2>5, <3>1 DEF ScanAt
  <2>7. ASSUME NEW h \in DOMAIN fds', OnDir(h)' PROVE (OnDir(h) /\ fds'[h] = fds[h]) \/ ScanAt(fds[h])'
    <3>1. CASE h = f
      BY <2>6, <3>1
    <3>2. CASE h # f
      BY <2>3, <2>7, <3>2 DEF OnDir
    <3> QED BY <3>1, <3>2
  <2> QED BY <2>1, <2>7, ScanKept
<1>9. ASSUME NEW f, NEW lens \in ReadVecs, FdRead(f, lens) PROVE ScanInv'
  <2>1. names' = names
    BY <1>9 DEF FdRead
  <2>2. CASE OnFile(f)
    <3>1. SetOff(f, fds[f].off + reply'.n)
      BY <1>9, <2>2 DEF FdRead, SetOff
    <3> QED BY <1>0, <2>1, <2>2, <3>1, ScanSetOff
  <2>3. CASE ~OnFile(f)
    BY <1>2, <1>9, <2>1, <2>3 DEF FdRead
  <2> QED BY <2>2, <2>3
<1>10. ASSUME NEW f, NEW off, NEW lens, FdPread(f, off, lens) PROVE ScanInv'
  BY <1>2, <1>10 DEF FdPread
<1>11. ASSUME NEW f, NEW iovs \in WriteVecs, FdWrite(f, iovs) PROVE ScanInv'
  <2>1. names' = names
    BY <1>11 DEF FdWrite
  <2>2. CASE OnFile(f)
    <3>1. SetOff(f, fds[f].off + Length(iovs))
      BY <1>11, <2>2 DEF FdWrite
    <3> QED BY <1>0, <2>1, <2>2, <3>1, ScanSetOff
  <2>3. CASE ~OnFile(f)
    BY <1>2, <1>11, <2>1, <2>3 DEF FdWrite
  <2> QED BY <2>2, <2>3
<1>12. ASSUME NEW f, NEW off, NEW iovs, FdPwrite(f, off, iovs) PROVE ScanInv'
  BY <1>2, <1>12 DEF FdPwrite
<1>13. ASSUME NEW f, NEW offset, NEW whence, FdSeek(f, offset, whence) PROVE ScanInv'
  <2>1. names' = names /\ OnFile(f) /\ (fds' = fds \/ \E k : SetOff(f, k))
    BY <1>13 DEF FdSeek
  <2> QED BY <1>0, <1>2, <2>1, ScanSetOff
<1>14. ASSUME NEW f, NEW k, Ftruncate(f, k) PROVE ScanInv'
  BY <1>2, <1>14 DEF Ftruncate
<1>15. ASSUME NEW n \in Names, Create(n) PROVE ScanInv'
  <2>1. fds' = fds /\ names' = names \union {n} /\ \A f \in DOMAIN fds : OnDir(f) => ~(fds[f].off > 0)
    BY <1>15 DEF Create, NoScanGaps
  <2>2. ASSUME NEW f \in DOMAIN fds, OnDir(f) PROVE ScanAt(fds[f])'
    <3>1. ScanAt(fds[f]) /\ ~(fds[f].off > 0)
      BY <2>1, <2>2 DEF ScanInv
    <3> QED BY <2>1, <3>1 DEF ScanAt
  <2> QED BY <2>1, <2>2 DEF ScanInv, OnDir
<1>16. ASSUME NEW n \in Names, Unlink(n) PROVE ScanInv'
  <2>1. /\ names' = names \ {n} /\ DOMAIN fds' = DOMAIN fds
        /\ \A f \in DOMAIN fds : fds'[f] = IF OnDir(f) THEN [fds[f] EXCEPT !.owed = @ \ {n}] ELSE fds[f]
    BY <1>16 DEF Unlink
  <2>2. ASSUME NEW f \in DOMAIN fds, OnDir(f) PROVE ScanAt(fds[f])'
    <3>1. ScanAt(fds[f]) /\ DirFd(fds[f]) /\ fds[f].off \in Nat
      BY <1>0, <2>2, DirPosition DEF ScanInv
    <3>2. fds'[f].off = fds[f].off /\ fds'[f].owed = fds[f].owed \ {n} /\ fds'[f].given = fds[f].given
      BY <2>1, <2>2, <3>1 DEF DirFd
    <3>3. fds[f].off > 0 => Cardinality(names') <= fds[f].off
      <4>1. IsFiniteSet(names)
        <5>1. IsFiniteSet(Names) /\ IsFiniteSet(Dots)
          BY FilesAssumption
        <5>2. IsFiniteSet(Names \union Dots)
          BY <5>1, FS_Union
        <5> QED BY <1>0, <5>2, FS_Subset DEF NamesOK
      <4>2. Cardinality(names') <= Cardinality(names) /\ Cardinality(names') \in Nat /\ Cardinality(names) \in Nat
        <5>1. names' \in SUBSET names
          BY <2>1
        <5> QED BY <4>1, <5>1, FS_Subset, FS_CardinalityType
      <4> QED BY <3>1, <4>2 DEF ScanAt
    <3> QED BY <2>1, <3>1, <3>2, <3>3 DEF ScanAt
  <2>3. \A f \in DOMAIN fds' : OnDir(f)' => OnDir(f)
    <3>1. ASSUME NEW f \in DOMAIN fds PROVE OnDir(f)' => OnDir(f)
      <4>1. ~OnDir(f) => fds'[f] = fds[f]
        BY <2>1
      <4> QED BY <4>1 DEF OnDir
    <3> QED BY <2>1, <3>1
  <2> QED BY <2>1, <2>2, <2>3 DEF ScanInv
<1> QED BY <1>3, <1>4, <1>5, <1>6, <1>7, <1>8, <1>9, <1>10, <1>11, <1>12, <1>13, <1>14, <1>15, <1>16 DEF Next

\* What is true of every reachable state of a program that keeps to scans that fit.
LEMMA FilesInvInductive ==
  ASSUME NoScanGaps
  PROVE  Spec => [](FilesTypeOK /\ ScanInv)
<1>1. FilesTypeOK /\ ScanInv /\ [Next]_vars => FilesTypeOK' /\ ScanInv'
  <2>1. FilesTypeOK /\ ScanInv /\ Next => FilesTypeOK' /\ ScanInv'
    BY FilesTypeNext, ScanNext
  <2>2. ASSUME FilesTypeOK, ScanInv, UNCHANGED vars PROVE FilesTypeOK' /\ ScanInv'
    <3>1. /\ data' = data /\ spare' = spare /\ names' = names /\ fds' = fds
          /\ nextFD' = nextFD /\ stdin' = stdin /\ reply' = reply
      BY <2>2 DEF vars
    <3>2. FilesTypeOK'
      BY <2>2, <3>1, SameFds, SameNames DEF FilesTypeOK, ReplyOK
    <3> QED BY <2>2, <3>1, <3>2, ScanKept DEF OnDir
  <2> QED BY <2>1, <2>2
<1> QED BY <1>1, FilesInitOK, PTL DEF Spec

\* A dir descriptor moves on only by getdents64.
LEMMA OnlyScansMove ==
  ASSUME FilesTypeOK, Next, NEW f \in DOMAIN fds, OnDir(f), f \in DOMAIN fds', fds'[f].off > fds[f].off
  PROVE  Getdents64(f)
<1>0. FdsOK /\ fds[f].off \in Nat /\ f # nextFD /\ ~OnFile(f)
  <2>1. FdsOK
    BY DEF FilesTypeOK
  <2>2. f # nextFD
    BY <2>1 DEF FdsOK
  <2> QED BY <2>1, <2>2, DirPosition DEF OnFile, OnDir
<1>1. ~(fds[f].off > fds[f].off)
  BY <1>0
<1>2. fds'[f] # fds[f]
  BY <1>1
<1>3. ASSUME NEW d, AddFd(d) PROVE FALSE
  BY <1>0, <1>2, <1>3 DEF AddFd
<1>4. ASSUME NEW g, NEW k, OnFile(g), SetOff(g, k) PROVE FALSE
  BY <1>0, <1>2, <1>4 DEF SetOff
<1>5. ASSUME NEW a \in BOOLEAN, NEW tr \in BOOLEAN, OpenFile(a, tr) PROVE FALSE
  BY <1>3, <1>5 DEF OpenFile
<1>6. ~OpenDir
  BY <1>3 DEF OpenDir
<1>7. ASSUME NEW g, Dup(g) PROVE FALSE
  BY <1>3, <1>7 DEF Dup
<1>8. ASSUME NEW g, Close(g) PROVE FALSE
  <2>1. fds' = [h \in DOMAIN fds \ {g} |-> fds[h]]
    BY <1>8 DEF Close
  <2>2. fds'[f] = fds[f]
    BY <2>1
  <2> QED BY <1>2, <2>2
<1>9. ASSUME NEW g, Rewind(g) PROVE FALSE
  <2>1. fds' = [fds EXCEPT ![g] = [kind |-> "dir", off |-> 0, owed |-> names, given |-> {}]]
    BY <1>9 DEF Rewind
  <2>2. fds'[f] = fds[f] \/ fds'[f].off = 0
    BY <2>1
  <2> QED BY <1>0, <1>2, <2>2
<1>10. ASSUME NEW g, Getdents64(g), g # f PROVE FALSE
  <2>1. fds'[f] = fds[f]
    BY <1>10 DEF Getdents64
  <2> QED BY <1>2, <2>1
<1>11. ASSUME NEW g, NEW lens, FdRead(g, lens) PROVE FALSE
  <2>1. fds' = fds \/ (OnFile(g) /\ SetOff(g, fds[g].off + reply'.n))
    BY <1>11 DEF FdRead, SetOff
  <2> QED BY <1>2, <1>4, <2>1
<1>12. ASSUME NEW g, NEW off, NEW lens, FdPread(g, off, lens) PROVE FALSE
  BY <1>2, <1>12 DEF FdPread
<1>13. ASSUME NEW g, NEW iovs, FdWrite(g, iovs) PROVE FALSE
  <2>1. fds' = fds \/ (OnFile(g) /\ SetOff(g, fds[g].off + Length(iovs)))
    BY <1>13 DEF FdWrite
  <2> QED BY <1>2, <1>4, <2>1
<1>14. ASSUME NEW g, NEW off, NEW iovs, FdPwrite(g, off, iovs) PROVE FALSE
  BY <1>2, <1>14 DEF FdPwrite
<1>15. ASSUME NEW g, NEW offset, NEW whence, FdSeek(g, offset, whence) PROVE FALSE
  <2>1. fds' = fds \/ (OnFile(g) /\ \E k : SetOff(g, k))
    BY <1>15 DEF FdSeek
  <2> QED BY <1>2, <1>4, <2>1
<1>16. ASSUME NEW g, NEW k, Ftruncate(g, k) PROVE FALSE
  BY <1>2, <1>16 DEF Ftruncate
<1>17. ASSUME NEW n \in Names, Create(n) PROVE FALSE
  BY <1>2, <1>17 DEF Create
<1>18. ASSUME NEW n \in Names, Unlink(n) PROVE FALSE
  <2>1. fds'[f] = [fds[f] EXCEPT !.owed = @ \ {n}] /\ DirFd(fds[f])
    BY <1>0, <1>18, DirPosition DEF Unlink
  <2>2. fds'[f].off = fds[f].off
    BY <2>1 DEF DirFd
  <2> QED BY <1>0, <2>2
<1> QED BY <1>5, <1>6, <1>7, <1>8, <1>9, <1>10, <1>11, <1>12, <1>13, <1>14, <1>15, <1>16, <1>17, <1>18 DEF Next

\* In a directory that fits the buffer, unchanged while it is scanned, a scan gives
\* each entry once and ends only when it has given all: what JOURNAL.md says of
\* getdents64 is false only beyond that.
THEOREM FittingScanGivesEachOnce ==
  ASSUME NoScanGaps
  PROVE  Spec => ScanGivesEachOnce
<1>1. FilesTypeOK /\ ScanInv /\ [Next]_vars =>
        [\A f \in DOMAIN fds : OnDir(f) /\ f \in DOMAIN fds' =>
            /\ fds'[f].off > fds[f].off => ToSet(reply'.data) \intersect fds[f].given = {}
            /\ Getdents64(f) /\ reply'.n = 0 => fds[f].owed = {}]_vars
  <2> SUFFICES ASSUME FilesTypeOK, ScanInv, Next, NEW f \in DOMAIN fds, OnDir(f), f \in DOMAIN fds'
               PROVE  /\ fds'[f].off > fds[f].off => ToSet(reply'.data) \intersect fds[f].given = {}
                      /\ Getdents64(f) /\ reply'.n = 0 => fds[f].owed = {}
    OBVIOUS
  <2>0. ScanAt(fds[f]) /\ fds[f].off \in Nat
    BY DirPosition DEF FilesTypeOK, ScanInv
  <2>1. ASSUME Getdents64(f)
        PROVE  /\ fds'[f].off > fds[f].off => ToSet(reply'.data) \intersect fds[f].given = {}
               /\ reply'.n = 0 => fds[f].owed = {}
    <3>1. PICK r \in Listings :
            LET given == ReadAt(r, fds[f].off, Batch) IN
            /\ reply' = Got(given)
            /\ fds' = [fds EXCEPT ![f] = [kind |-> "dir", off |-> @.off + Len(given),
                                          owed |-> @.owed \ ToSet(given),
                                          given |-> @.given \union ToSet(given)]]
      BY <2>1 DEF Getdents64
    <3> DEFINE g == ReadAt(r, fds[f].off, Batch)
    <3>2. reply'.n = Len(g) /\ reply'.data = g
      BY <3>1 DEF Got
    <3>3. CASE fds[f].off = 0 /\ (r = <<>> => names = {}) /\ g = r /\ Len(r) = Cardinality(names)
      <4>1. fds[f].given = {} /\ fds[f].owed \subseteq names
        BY <2>0, <3>3 DEF ScanAt
      <4>2. Len(r) = 0 => names = {}
        <5>1. r \in Seq(names)
          BY ListingsList DEF FilesTypeOK, NamesOK, Lists
        <5> QED BY <3>3, <5>1
      <4> HIDE DEF g
      <4> QED BY <3>2, <3>3, <4>1, <4>2
    <3>4. CASE fds[f].off > 0 /\ g = <<>>
      <4>1. fds[f].owed = {}
        BY <2>0, <3>4 DEF ScanAt
      <4>2. ToSet(g) = {}
        BY <3>4 DEF ToSet
      <4> HIDE DEF g
      <4> QED BY <3>2, <4>1, <4>2
    <3> HIDE DEF g
    <3> QED BY <2>1, <3>3, <3>4, GivesAllOrNothing DEF g
  <2> QED BY <2>1, OnlyScansMove
<1> QED BY <1>1, FilesInvInductive, PTL DEF Spec, ScanGivesEachOnce

----------------------------------------------------------------------------
(* Every call is the plain call.                                           *)

\* The descriptors as ByteFile sees them.
ViewFds == [f \in DOMAIN fds |-> PlainFd(fds[f])]

\* The descriptors as the plain program sees them.
LEMMA PlainFds ==
  ASSUME FdsOK
  PROVE  /\ DOMAIN ViewFds = DOMAIN fds
         /\ \A f \in DOMAIN fds : ViewFds[f] = PlainFd(fds[f]) /\ ViewFds[f].kind = fds[f].kind
         /\ \A f : OnFile(f) => ViewFds[f] = fds[f]
         /\ \A f : OnDir(f) => ViewFds[f] = [kind |-> "dir", owed |-> fds[f].owed, given |-> fds[f].given]
<1>1. DOMAIN ViewFds = DOMAIN fds /\ \A f \in DOMAIN fds : ViewFds[f] = PlainFd(fds[f])
  BY DEF ViewFds
<1>2. ASSUME NEW d, Fd(d)
      PROVE  /\ PlainFd(d).kind = d.kind
             /\ d.kind = "file" => PlainFd(d) = d
             /\ d.kind = "dir" => PlainFd(d) = [kind |-> "dir", owed |-> d.owed, given |-> d.given]
  BY <1>2 DEF PlainFd, Fd, FileFd, DirFd, StdFd
<1>3. \A f \in DOMAIN fds : Fd(fds[f])
  BY DEF FdsOK
<1> QED BY <1>1, <1>2, <1>3 DEF OnFile, OnDir

\* The two sides agree on which descriptors are files and which are scans.
LEMMA PlainOn ==
  ASSUME FdsOK, NEW f
  PROVE  (Plain!OnFile(f) <=> OnFile(f)) /\ (Plain!OnDir(f) <=> OnDir(f))
<1>1. /\ DOMAIN ViewFds = DOMAIN fds
      /\ f \in DOMAIN fds => ViewFds[f].kind = fds[f].kind
  BY PlainFds
<1>2. /\ Plain!OnFile(f) <=> f \in DOMAIN ViewFds /\ ViewFds[f].kind = "file"
      /\ Plain!OnDir(f) <=> f \in DOMAIN ViewFds /\ ViewFds[f].kind = "dir"
  BY DEF Plain!OnFile, Plain!OnDir, ViewFds
<1> QED BY <1>1, <1>2 DEF OnFile, OnDir

\* The replies are the same records, and the offset that a plain call gives a
\* descriptor is the one that SetOff gives.
LEMMA PlainReplies ==
  /\ Plain!Nothing = Nothing
  /\ \A s : Plain!Got(s) = Got(s)
  /\ \A k : Plain!Moved(k) = Moved(k)
  BY DEF Plain!Nothing, Plain!Got, Plain!Moved, Nothing, Got, Moved

\* Setting a plain descriptor, written out.
LEMMA PlainWith ==
  ASSUME NEW f, NEW d
  PROVE  Plain!With(f, d) = [g \in DOMAIN ViewFds \union {f} |-> IF g = f THEN d ELSE ViewFds[g]]
  BY DEF Plain!With, ViewFds

\* allocFD adds the same descriptor on both sides, at a number that was free.
LEMMA ViewAdd ==
  ASSUME FdsOK, NEW d, AddFd(d)
  PROVE  ViewFds' = Plain!With(nextFD, PlainFd(d)) /\ nextFD \notin DOMAIN ViewFds /\ nextFD \in 3 .. MaxFd
<1>1. /\ DOMAIN fds' = DOMAIN fds \union {nextFD}
      /\ \A f \in DOMAIN fds' : fds'[f] = IF f = nextFD THEN d ELSE fds[f]
  BY DEF AddFd
<1>2. ViewFds' = [f \in DOMAIN fds' |-> PlainFd(fds'[f])]
  BY DEF ViewFds
<1>3. DOMAIN ViewFds = DOMAIN fds /\ \A f \in DOMAIN fds : ViewFds[f] = PlainFd(fds[f])
  BY PlainFds
<1>4. ViewFds' = [g \in DOMAIN ViewFds \union {nextFD} |-> IF g = nextFD THEN PlainFd(d) ELSE ViewFds[g]]
  BY <1>1, <1>2, <1>3
<1>5. nextFD \notin DOMAIN fds /\ nextFD \in 3 .. MaxFd
  <2>1. MaxFd \in Nat
    BY FilesAssumption
  <2> QED BY <2>1 DEF FdsOK, AddFd
<1> QED BY <1>3, <1>4, <1>5, PlainWith

\* So does replacing the state of one ...
LEMMA ViewSet ==
  ASSUME FdsOK, NEW f \in DOMAIN fds, NEW d, fds' = [fds EXCEPT ![f] = d]
  PROVE  ViewFds' = Plain!With(f, PlainFd(d)) /\ ViewFds' = [ViewFds EXCEPT ![f] = PlainFd(d)]
<1>1. DOMAIN fds' = DOMAIN fds /\ \A g \in DOMAIN fds : fds'[g] = IF g = f THEN d ELSE fds[g]
  OBVIOUS
<1>2. ViewFds' = [g \in DOMAIN fds' |-> PlainFd(fds'[g])] /\ ViewFds = [g \in DOMAIN fds |-> PlainFd(fds[g])]
  BY DEF ViewFds
<1>3. DOMAIN ViewFds = DOMAIN fds /\ \A g \in DOMAIN fds : ViewFds[g] = PlainFd(fds[g])
  BY PlainFds
<1>4. DOMAIN ViewFds \union {f} = DOMAIN fds
  BY <1>3
<1>5. ViewFds' = [g \in DOMAIN ViewFds \union {f} |-> IF g = f THEN PlainFd(d) ELSE ViewFds[g]]
  BY <1>1, <1>2, <1>3, <1>4
<1>6. ViewFds' = [ViewFds EXCEPT ![f] = PlainFd(d)]
  BY <1>1, <1>2, <1>3
<1> QED BY <1>5, <1>6, PlainWith

\* ... and moving the offset of a file.
LEMMA ViewSetOff ==
  ASSUME FdsOK, NEW f, OnFile(f), NEW k, SetOff(f, k)
  PROVE  ViewFds' = Plain!At(f, k)
<1>1. FileFd(fds[f]) /\ f \in DOMAIN fds
  BY FilePosition DEF OnFile
<1> DEFINE d == [fds[f] EXCEPT !.off = k]
<1>2. fds' = [fds EXCEPT ![f] = d]
  BY DEF SetOff
<1>3. d.kind = "file"
  BY <1>1 DEF FileFd
<1>4. PlainFd(d) = d
  <2> HIDE DEF d
  <2> QED BY <1>3 DEF PlainFd
<1>5. ViewFds' = [ViewFds EXCEPT ![f] = d]
  <2> HIDE DEF d
  <2> QED BY <1>1, <1>2, <1>4, ViewSet
<1>6. d = [ViewFds[f] EXCEPT !.off = k]
  BY <1>1, PlainFds
<1>7. Plain!At(f, k) = [ViewFds EXCEPT ![f].off = k]
  BY DEF Plain!At, ViewFds
<1>8. Plain!At(f, k) = [ViewFds EXCEPT ![f] = [ViewFds[f] EXCEPT !.off = k]]
  BY <1>7
<1> QED BY <1>5, <1>6, <1>8

\* With the same table the plain program sees the same descriptors.
LEMMA ViewSame == fds' = fds => ViewFds' = ViewFds
  BY DEF ViewFds

\* What the plain calls leave alone.
LEMMA ViewDir ==
  ASSUME NEW o, NEW w, NEW v
  PROVE  PlainFd([kind |-> "dir", off |-> o, owed |-> w, given |-> v]) = [kind |-> "dir", owed |-> w, given |-> v]
  BY DEF PlainFd

\* openat of the file is the plain open.
LEMMA OpenFileIsPlain ==
  ASSUME FdsOK, NEW a \in BOOLEAN, NEW tr \in BOOLEAN, OpenFile(a, tr)
  PROVE  Plain!OpenFile(nextFD, a, tr) /\ nextFD \in 3 .. MaxFd
<1> DEFINE d == [kind |-> "file", append |-> a, off |-> IF a THEN Len(data') ELSE 0]
<1>1. AddFd(d) /\ names' = names /\ stdin' = stdin
  BY DEF OpenFile
<1>2. data' = IF tr THEN <<>> ELSE data
  BY DEF OpenFile, SetFile, File
<1>3. PlainFd(d) = d
  BY DEF PlainFd
<1>4. reply' = Plain!Nothing
  BY <1>1, PlainReplies DEF AddFd
<1> HIDE DEF d
<1>5. ViewFds' = Plain!With(nextFD, d) /\ nextFD \notin DOMAIN ViewFds /\ nextFD \in 3 .. MaxFd
  BY <1>1, <1>3, ViewAdd
<1> QED BY <1>1, <1>2, <1>4, <1>5 DEF Plain!OpenFile, ViewFds, d

\* openat of the directory begins a plain scan.
LEMMA OpenDirIsPlain ==
  ASSUME FdsOK, OpenDir
  PROVE  Plain!OpenDir(nextFD) /\ nextFD \in 3 .. MaxFd
<1> DEFINE d == [kind |-> "dir", off |-> 0, owed |-> names, given |-> {}]
           v == [kind |-> "dir", owed |-> names, given |-> {}]
<1>1. AddFd(d) /\ names' = names /\ stdin' = stdin /\ data' = data
  BY DEF OpenDir, Keep
<1>2. PlainFd(d) = v
  BY ViewDir
<1>3. reply' = Plain!Nothing
  BY <1>1, PlainReplies DEF AddFd
<1> HIDE DEF d, v
<1>4. ViewFds' = Plain!With(nextFD, v) /\ nextFD \notin DOMAIN ViewFds /\ nextFD \in 3 .. MaxFd
  BY <1>1, <1>2, ViewAdd
<1> QED BY <1>1, <1>3, <1>4 DEF Plain!OpenDir, ViewFds, v

\* dup is the plain dup.
LEMMA DupIsPlain ==
  ASSUME FdsOK, NEW f, Dup(f)
  PROVE  Plain!Dup(f, nextFD) /\ nextFD \in 3 .. MaxFd
<1> DEFINE d == IF f \in DOMAIN fds THEN fds[f] ELSE [kind |-> "std"]
<1>1. AddFd(d) /\ names' = names /\ stdin' = stdin /\ data' = data /\ f \in DOMAIN fds \union 0 .. 2
  BY DEF Dup, Keep
<1>2. reply' = Plain!Nothing
  BY <1>1, PlainReplies DEF AddFd
<1>3. f \in DOMAIN fds => PlainFd(d) = ViewFds[f] /\ f \in DOMAIN ViewFds
  BY PlainFds
<1>4. f \notin DOMAIN fds => PlainFd(d) = [kind |-> "std"]
  BY DEF PlainFd
<1> HIDE DEF d
<1>5. ViewFds' = Plain!With(nextFD, PlainFd(d)) /\ nextFD \notin DOMAIN ViewFds /\ nextFD \in 3 .. MaxFd
  BY <1>1, ViewAdd
<1>6. CASE f \in DOMAIN fds
  BY <1>1, <1>2, <1>3, <1>5, <1>6 DEF Plain!Dup, ViewFds
<1>7. CASE f \notin DOMAIN fds
  BY <1>1, <1>2, <1>4, <1>5, <1>7 DEF Plain!Dup, ViewFds
<1> QED BY <1>6, <1>7

\* fd_close is the plain close.
LEMMA CloseIsPlain ==
  ASSUME FdsOK, NEW f, Close(f)
  PROVE  Plain!Close(f)
<1>1. /\ fds' = [g \in DOMAIN fds \ {f} |-> fds[g]] /\ reply' = Nothing
      /\ names' = names /\ stdin' = stdin /\ data' = data
  BY DEF Close, Keep
<1>2. reply' = Plain!Nothing
  BY <1>1, PlainReplies
<1>3. DOMAIN ViewFds = DOMAIN fds /\ \A g \in DOMAIN fds : ViewFds[g] = PlainFd(fds[g])
  BY PlainFds
<1>4. ViewFds' = [g \in DOMAIN fds' |-> PlainFd(fds'[g])]
  BY DEF ViewFds
<1>5. DOMAIN fds' = DOMAIN fds \ {f} /\ \A g \in DOMAIN fds' : fds'[g] = fds[g]
  BY <1>1
<1>6. ViewFds' = [g \in DOMAIN ViewFds \ {f} |-> ViewFds[g]]
  BY <1>3, <1>4, <1>5
<1> QED BY <1>1, <1>2, <1>6 DEF Plain!Close, ViewFds

\* A new scan by rewinddir is the plain rewind.
LEMMA RewindIsPlain ==
  ASSUME FdsOK, NEW f, Rewind(f)
  PROVE  Plain!Rewind(f)
<1> DEFINE d == [kind |-> "dir", off |-> 0, owed |-> names, given |-> {}]
           v == [kind |-> "dir", owed |-> names, given |-> {}]
<1>1. /\ OnDir(f) /\ f \in DOMAIN fds /\ fds' = [fds EXCEPT ![f] = d] /\ reply' = Nothing
      /\ names' = names /\ stdin' = stdin /\ data' = data
  BY DEF Rewind, Keep, OnDir
<1>2. PlainFd(d) = v
  BY ViewDir
<1>3. reply' = Plain!Nothing /\ Plain!OnDir(f)
  BY <1>1, PlainReplies, PlainOn
<1> HIDE DEF d, v
<1>4. ViewFds' = Plain!With(f, v)
  BY <1>1, <1>2, ViewSet
<1> QED BY <1>1, <1>3, <1>4 DEF Plain!Rewind, ViewFds, v

\* fd_seek of a file is the plain seek.
LEMMA SeekIsPlain ==
  ASSUME FilesTypeOK, NEW f, NEW offset \in Positions \union {-1}, NEW whence \in {"set", "cur", "end"},
         FdSeek(f, offset, whence)
  PROVE  Plain!Fail \/ \E k \in 0 .. MaxLen : Plain!Seek(f, k)
<1> DEFINE base == CASE whence = "set" -> 0 [] whence = "cur" -> fds[f].off [] whence = "end" -> Len(data)
           new == base + offset
<1>1. /\ OnFile(f) /\ new <= MaxLen /\ names' = names /\ stdin' = stdin /\ data' = data
      /\ IF new < 0 THEN reply' = Nothing /\ UNCHANGED fds ELSE reply' = Moved(new) /\ SetOff(f, new)
  BY DEF FdSeek, Keep
<1>2. base \in Nat
  BY <1>1, FilePosition DEF FilesTypeOK
<1> HIDE DEF base
<1>3. new \in Int /\ MaxLen \in Nat
  <2>1. offset \in Int /\ MaxLen \in Nat
    BY FilesAssumption
  <2> QED BY <1>2, <2>1
<1> HIDE DEF new
<1>4. CASE new < 0
  BY <1>1, <1>4, ViewSame, PlainReplies DEF Plain!Fail, ViewFds
<1>5. CASE ~(new < 0)
  <2>1. new \in 0 .. MaxLen
    BY <1>1, <1>3, <1>5
  <2>2. ViewFds' = Plain!At(f, new) /\ reply' = Plain!Moved(new) /\ Plain!OnFile(f)
    BY <1>1, <1>5, ViewSetOff, PlainReplies, PlainOn DEF FilesTypeOK
  <2>3. Plain!Seek(f, new)
    BY <1>1, <2>1, <2>2 DEF Plain!Seek, ViewFds
  <2> QED BY <2>1, <2>3
<1> QED BY <1>4, <1>5

\* ftruncate is the plain truncation: growing shows zeroes, whatever was cut off before.
LEMMA FtruncateIsPlain ==
  ASSUME FilesTypeOK, NEW f, NEW k \in Positions, Ftruncate(f, k)
  PROVE  Plain!Truncate(f, k) /\ k \in 0 .. MaxLen
<1>1. OnFile(f) /\ SetFile(Truncated(File, k)) /\ names' = names /\ fds' = fds /\ stdin' = stdin /\ reply' = Nothing
  BY DEF Ftruncate
<1>2. k \in 0 .. MaxLen /\ k \in Nat
  BY FilesAssumption
<1>3. IsBuffer(File) /\ File.data = data
  BY FileIsBuffer DEF File
<1>4. data' = Plain!Written(data, k)
  BY <1>1, <1>2, <1>3, TruncatedIs DEF SetFile
<1>5. ViewFds' = ViewFds /\ reply' = Plain!Nothing /\ Plain!OnFile(f)
  BY <1>1, ViewSame, PlainReplies, PlainOn DEF FilesTypeOK
<1> QED BY <1>1, <1>2, <1>4, <1>5 DEF Plain!Truncate, ViewFds

\* A name that appears is one more entry, owed to no scan opened before it.
LEMMA CreateIsPlain ==
  ASSUME NEW n \in Names, Create(n)
  PROVE  Plain!Create(n)
<1>1. fds' = fds /\ data' = data /\ stdin' = stdin /\ names' = names \union {n} /\ reply' = Nothing
  BY DEF Create, Keep
<1>2. ViewFds' = ViewFds /\ reply' = Plain!Nothing
  BY <1>1, ViewSame, PlainReplies
<1> QED BY <1>1, <1>2 DEF Plain!Create, ViewFds

\* Removing a name takes it from what every scan still owes.
LEMMA UnlinkIsPlain ==
  ASSUME FilesTypeOK, ScanInv, NEW n \in Names, Unlink(n)
  PROVE  Plain!Unlink(n)
<1>0. FdsOK
  BY DEF FilesTypeOK
<1>1. /\ data' = data /\ stdin' = stdin /\ names' = names \ {n} /\ reply' = Nothing
      /\ fds' = [f \in DOMAIN fds |-> IF OnDir(f) THEN [fds[f] EXCEPT !.owed = @ \ {n}] ELSE fds[f]]
  BY DEF Unlink, Keep
<1>2. DOMAIN fds' = DOMAIN fds
      /\ \A f \in DOMAIN fds : fds'[f] = IF OnDir(f) THEN [fds[f] EXCEPT !.owed = @ \ {n}] ELSE fds[f]
  BY <1>1
<1>3. ASSUME NEW f \in DOMAIN fds
      PROVE  PlainFd(fds'[f]) = IF ViewFds[f].kind = "dir"
                                THEN [ViewFds[f] EXCEPT !.owed = @ \intersect (names \ {n})] ELSE ViewFds[f]
  <2>0. ViewFds[f] = PlainFd(fds[f]) /\ ViewFds[f].kind = fds[f].kind
    BY <1>0, PlainFds
  <2>1. CASE OnDir(f)
    <3> DEFINE w == fds[f].owed \ {n}
               v == fds[f].given
    <3>1. DirFd(fds[f]) /\ fds[f].owed \subseteq names
      BY <1>0, <2>1, DirPosition DEF ScanInv, ScanAt
    <3>2. fds'[f] = [kind |-> "dir", off |-> fds[f].off, owed |-> w, given |-> v]
      BY <1>2, <2>1, <3>1 DEF DirFd
    <3>3. PlainFd(fds'[f]) = [kind |-> "dir", owed |-> w, given |-> v]
      <4> HIDE DEF w, v
      <4> QED BY <3>2, ViewDir
    <3>4. ViewFds[f] = [kind |-> "dir", owed |-> fds[f].owed, given |-> v]
      BY <1>0, <2>1, PlainFds
    <3>5. w = fds[f].owed \intersect (names \ {n})
      BY <3>1
    <3> DEFINE o == fds[f].owed
               u == o \intersect (names \ {n})
    <3>6. [ViewFds[f] EXCEPT !.owed = @ \intersect (names \ {n})] = [kind |-> "dir", owed |-> u, given |-> v]
      BY <3>4
    <3> HIDE DEF w, v, u
    <3>7. ViewFds[f].kind = "dir"
      BY <3>4
    <3> QED BY <3>3, <3>5, <3>6, <3>7 DEF u
  <2>2. CASE ~OnDir(f)
    <3>1. ViewFds[f].kind # "dir" /\ fds'[f] = fds[f]
      BY <1>2, <2>0, <2>2 DEF OnDir
    <3> QED BY <2>0, <3>1
  <2> QED BY <2>1, <2>2
<1>4. ViewFds' = Plain!Owing(names')
  <2>1. ViewFds' = [f \in DOMAIN fds' |-> PlainFd(fds'[f])] /\ DOMAIN ViewFds = DOMAIN fds
    BY <1>0, PlainFds DEF ViewFds
  <2>2. Plain!Owing(names') = [f \in DOMAIN ViewFds |->
            IF ViewFds[f].kind = "dir" THEN [ViewFds[f] EXCEPT !.owed = @ \intersect names'] ELSE ViewFds[f]]
    BY DEF Plain!Owing, ViewFds
  <2>3. Plain!Owing(names') = [f \in DOMAIN fds |->
            IF ViewFds[f].kind = "dir" THEN [ViewFds[f] EXCEPT !.owed = @ \intersect (names \ {n})] ELSE ViewFds[f]]
    BY <1>1, <2>1, <2>2
  <2>4. ViewFds' = [f \in DOMAIN fds |-> PlainFd(fds'[f])]
    BY <1>2, <2>1
  <2> QED BY <1>3, <2>3, <2>4
<1>5. reply' = Plain!Nothing
  BY <1>1, PlainReplies
<1> QED BY <1>1, <1>4, <1>5 DEF Plain!Unlink, ViewFds

\* A getdents64 in which every record fits is a plain read of the directory.
LEMMA GetdentsIsPlain ==
  ASSUME FilesTypeOK, NoScanGaps, ScanInv, NEW f, Getdents64(f)
  PROVE  Plain!ReadDir(f)
<1>0. FdsOK /\ NamesOK
  BY DEF FilesTypeOK
<1>1. OnDir(f) /\ f \in DOMAIN fds /\ names' = names /\ data' = data /\ stdin' = stdin
  BY DEF Getdents64, Keep, OnDir
<1>2. PICK r \in Listings :
        LET given == ReadAt(r, fds[f].off, Batch) IN
        /\ reply' = Got(given)
        /\ fds' = [fds EXCEPT ![f] = [kind |-> "dir", off |-> @.off + Len(given),
                                      owed |-> @.owed \ ToSet(given),
                                      given |-> @.given \union ToSet(given)]]
  BY DEF Getdents64
<1> DEFINE g == ReadAt(r, fds[f].off, Batch)
           d == Scanned(fds[f], ToSet(g), Len(g))
           v == [kind |-> "dir", owed |-> ViewFds[f].owed \ ToSet(g), given |-> ViewFds[f].given \union ToSet(g)]
<1>3. reply' = Plain!Got(g) /\ fds' = [fds EXCEPT ![f] = d]
  BY <1>2, PlainReplies DEF Scanned
<1>4. ViewFds[f].owed = fds[f].owed /\ ViewFds[f].given = fds[f].given
  <2>1. ViewFds[f] = [kind |-> "dir", owed |-> fds[f].owed, given |-> fds[f].given]
    BY <1>0, <1>1, PlainFds
  <2> QED BY <2>1
<1>5. PlainFd(d) = v
  <2> DEFINE o == fds[f].off + Len(g)
             w == fds[f].owed \ ToSet(g)
             u == fds[f].given \union ToSet(g)
  <2>1. d = [kind |-> "dir", off |-> o, owed |-> w, given |-> u]
    BY DEF Scanned
  <2>2. v = [kind |-> "dir", owed |-> w, given |-> u]
    BY <1>4
  <2> HIDE DEF d, v, o, w, u
  <2> QED BY <2>1, <2>2, ViewDir
<1>6. ViewFds' = Plain!With(f, v)
  <2> HIDE DEF d, v
  <2> QED BY <1>0, <1>1, <1>3, <1>5, ViewSet
<1>7. /\ g \in UNION {SetToSeqs(S) : S \in SUBSET (names \ ViewFds[f].given)}
      /\ g = <<>> => ViewFds[f].owed = {}
  <2>0. ScanAt(fds[f]) /\ fds[f].off \in Nat
    BY <1>0, <1>1, DirPosition DEF ScanInv
  <2>1. CASE fds[f].off = 0 /\ g = r /\ (r = <<>> => names = {})
    <3>1. Lists(r, names) /\ IsFiniteSet(names)
      BY <1>0, ListingsList DEF NamesOK
    <3>2. r \in SetToSeqs(names)
      <4>1. r \in [1 .. Cardinality(names) -> names]
        BY <3>1 DEF Lists
      <4> QED BY <3>1, <4>1 DEF SetToSeqs, Lists
    <3>3. ViewFds[f].given = {} /\ ViewFds[f].owed \subseteq names
      BY <1>4, <2>0, <2>1 DEF ScanAt
    <3> HIDE DEF g
    <3>4. g \in SetToSeqs(names) /\ names \in SUBSET (names \ ViewFds[f].given)
      BY <2>1, <3>2, <3>3
    <3> QED BY <2>1, <3>3, <3>4
  <2>2. CASE fds[f].off > 0 /\ g = <<>>
    <3>1. <<>> \in SetToSeqs({})
      <4>1. Cardinality({}) = 0
        BY FS_EmptySet
      <4>2. <<>> \in [1 .. 0 -> {}]
        OBVIOUS
      <4> QED BY <4>1, <4>2 DEF SetToSeqs
    <3>2. ViewFds[f].owed = {}
      BY <1>4, <2>0, <2>2 DEF ScanAt
    <3>3. {} \in SUBSET (names \ ViewFds[f].given)
      OBVIOUS
    <3> HIDE DEF g
    <3> QED BY <2>2, <3>1, <3>2, <3>3
  <2> HIDE DEF g
  <2> QED BY <1>1, <2>1, <2>2, GivesAllOrNothing DEF g
<1>8. Plain!OnDir(f)
  BY <1>0, <1>1, PlainOn
<1> HIDE DEF g, d
<1>9. \E s \in UNION {SetToSeqs(S) : S \in SUBSET (names \ ViewFds[f].given)} :
        /\ s = <<>> => ViewFds[f].owed = {}
        /\ reply' = Plain!Got(s)
        /\ ViewFds' = Plain!With(f, [kind |-> "dir", owed |-> ViewFds[f].owed \ ToSet(s),
                                     given |-> ViewFds[f].given \union ToSet(s)])
  BY <1>3, <1>6, <1>7 DEF v
<1>10. /\ \A S : Plain!SetToSeqs(S) = SetToSeqs(S)
       /\ \A s : Plain!ToSet(s) = ToSet(s)
  <2>1. \A S : Plain!SetToSeqs(S) = SetToSeqs(S)
    <3>1. \A S : Plain!Cardinality(S) = Cardinality(S)
      BY Zenon DEF Plain!Cardinality, Cardinality, Plain!IsFiniteSet, IsFiniteSet
    <3> QED BY <3>1 DEF Plain!SetToSeqs, SetToSeqs
  <2>2. \A s : Plain!ToSet(s) = ToSet(s)
    BY DEF Plain!ToSet, ToSet
  <2> QED BY <2>1, <2>2
<1> HIDE DEF v
<1>11. \E s \in UNION {Plain!SetToSeqs(S) : S \in SUBSET (names \ ViewFds[f].given)} :
        /\ s = <<>> => ViewFds[f].owed = {}
        /\ reply' = Plain!Got(s)
        /\ ViewFds' = Plain!With(f, [kind |-> "dir", owed |-> ViewFds[f].owed \ Plain!ToSet(s),
                                     given |-> ViewFds[f].given \union Plain!ToSet(s)])
  <2>1. PICK s \in UNION {SetToSeqs(S) : S \in SUBSET (names \ ViewFds[f].given)} :
          /\ s = <<>> => ViewFds[f].owed = {}
          /\ reply' = Plain!Got(s)
          /\ ViewFds' = Plain!With(f, [kind |-> "dir", owed |-> ViewFds[f].owed \ ToSet(s),
                                       given |-> ViewFds[f].given \union ToSet(s)])
    BY <1>9
  <2>2. s \in UNION {Plain!SetToSeqs(S) : S \in SUBSET (names \ ViewFds[f].given)}
    BY <2>1, <1>10
  <2>3. ToSet(s) = Plain!ToSet(s)
    BY <1>10
  <2> QED BY <2>1, <2>2, <2>3
<1> QED BY <1>1, <1>8, <1>11 DEF Plain!ReadDir, ViewFds

\* ReadAt is the part that a plain read returns.
LEMMA PartIsReadAt == \A s, off, k : Plain!Part(s, off, k) = ReadAt(s, off, k)
  BY DEF Plain!Part, ReadAt

\* fd_read, buffer by buffer, is one plain read of the total length ...
LEMMA FdReadIsPlain ==
  ASSUME FilesTypeOK, NEW f, NEW lens \in ReadVecs, FdRead(f, lens)
  PROVE  Plain!Read(f, Total(lens))
<1> DEFINE k == Total(lens)
<1>0. /\ FdsOK /\ data \in Seq(Bytes) /\ stdin \in Nat /\ StdIn \in Seq(Byte)
      /\ lens \in Seq(Nat) /\ names' = names /\ data' = data
  BY FilesAssumption DEF FilesTypeOK, FdRead, Keep
<1>1. CASE OnFile(f)
  <2>1. fds[f].off \in Nat /\ ViewFds[f] = fds[f] /\ Plain!OnFile(f) /\ f # 0
    BY <1>0, <1>1, FilePosition, PlainFds, PlainOn DEF FdsOK, OnFile
  <2>2. reply' = Got(Readv(data, fds[f].off, lens)) /\ SetOff(f, fds[f].off + reply'.n) /\ stdin' = stdin
    BY <1>1, <2>1 DEF FdRead, SetOff
  <2>3. Readv(data, fds[f].off, lens) = Plain!Part(data, ViewFds[f].off, k)
    BY <1>0, <2>1, ReadvIsRead, PartIsReadAt
  <2>4. reply' = Plain!Got(Plain!Part(data, ViewFds[f].off, k))
    BY <2>2, <2>3, PlainReplies
  <2>5. ViewFds' = Plain!At(f, ViewFds[f].off + reply'.n)
    BY <1>0, <1>1, <2>1, <2>2, ViewSetOff
  <2> HIDE DEF k
  <2>6. Plain!Read(f, k)
    BY <1>0, <2>1, <2>2, <2>4, <2>5 DEF Plain!Read, ViewFds
  <2> QED BY <2>6 DEF k
<1>2. CASE ~OnFile(f) /\ f = 0
  <2>1. reply' = Got(Readv(StdIn, stdin, lens)) /\ fds' = fds /\ stdin' = stdin + reply'.n
    BY <1>2 DEF FdRead
  <2>2. Readv(StdIn, stdin, lens) = Plain!Part(StdIn, stdin, k)
    BY <1>0, ReadvIsRead, PartIsReadAt
  <2>3. reply' = Plain!Got(Plain!Part(StdIn, stdin, k))
    BY <2>1, <2>2, PlainReplies
  <2>4. ViewFds' = ViewFds /\ ~Plain!OnFile(f)
    BY <1>0, <1>2, <2>1, ViewSame, PlainOn
  <2> HIDE DEF k
  <2>5. Plain!Read(f, k)
    BY <1>0, <1>2, <2>1, <2>3, <2>4 DEF Plain!Read, ViewFds
  <2> QED BY <2>5 DEF k
<1>3. CASE ~OnFile(f) /\ f # 0
  <2>1. reply' = Nothing /\ fds' = fds /\ stdin' = stdin
    BY <1>3 DEF FdRead
  <2>2. reply' = Plain!Got(<<>>)
    BY <2>1, PlainReplies DEF Nothing, Got
  <2>3. ViewFds' = ViewFds /\ ~Plain!OnFile(f)
    BY <1>0, <1>3, <2>1, ViewSame, PlainOn
  <2> HIDE DEF k
  <2>4. Plain!Read(f, k)
    BY <1>0, <1>3, <2>1, <2>2, <2>3 DEF Plain!Read, ViewFds
  <2> QED BY <2>4 DEF k
<1> QED BY <1>1, <1>2, <1>3

\* ... and fd_pread one plain positioned read.
LEMMA FdPreadIsPlain ==
  ASSUME FilesTypeOK, NEW f, NEW off \in Positions, NEW lens \in ReadVecs, FdPread(f, off, lens)
  PROVE  Plain!Pread(f, off, Total(lens)) /\ off \in 0 .. MaxLen
<1> DEFINE k == Total(lens)
<1>0. /\ FdsOK /\ data \in Seq(Bytes) /\ lens \in Seq(Nat) /\ off \in Nat /\ off \in 0 .. MaxLen
      /\ names' = names /\ data' = data /\ fds' = fds /\ stdin' = stdin
  BY FilesAssumption DEF FilesTypeOK, FdPread, Keep
<1>1. Readv(data, off, lens) = Plain!Part(data, off, k)
  BY <1>0, ReadvIsRead, PartIsReadAt
<1>2. reply' = IF OnFile(f) THEN Got(Readv(data, off, lens)) ELSE Nothing
  BY DEF FdPread
<1>3. reply' = IF Plain!OnFile(f) THEN Plain!Got(Plain!Part(data, off, k)) ELSE Plain!Nothing
  BY <1>0, <1>1, <1>2, PlainOn, PlainReplies
<1>4. ViewFds' = ViewFds
  BY <1>0, ViewSame
<1> HIDE DEF k
<1>5. Plain!Pread(f, off, k)
  BY <1>0, <1>3, <1>4 DEF Plain!Pread, ViewFds
<1> QED BY <1>0, <1>5 DEF k

\* fd_write, buffer by buffer, is one plain write of the joined buffers ...
LEMMA FdWriteIsPlain ==
  ASSUME FilesTypeOK, Gaps = {}, NEW f, NEW iovs \in WriteVecs, FdWrite(f, iovs)
  PROVE  Plain!Write(f, Joined(iovs))
<1> DEFINE j == Joined(iovs)
           k == Length(iovs)
<1>0. FdsOK /\ iovs \in Seq(Seq(Byte)) /\ names' = names /\ stdin' = stdin
  BY FilesAssumption DEF FilesTypeOK, FdWrite
<1>1. j \in Seq(Byte) /\ Len(j) = k /\ k \in Nat /\ (j = <<>> <=> k = 0)
  <2>1. j \in Seq(Byte) /\ Len(j) = k /\ k \in Nat
    BY <1>0, JoinedType DEF Length
  <2> QED BY <2>1
<1>2. CASE OnFile(f)
  <2> DEFINE off == fds[f].off
  <2>1. off \in Nat /\ ViewFds[f] = fds[f] /\ Plain!OnFile(f) /\ FileFd(fds[f]) /\ f \in DOMAIN fds
    BY <1>0, <1>2, FilePosition, PlainFds, PlainOn DEF OnFile
  <2>2. /\ fds[f].append => off = Len(data)
        /\ k > 0 => Clean(off)
        /\ SetFile(Writev(File, off, iovs, TRUE)) /\ SetOff(f, off + k) /\ reply' = Moved(k)
    BY <1>2 DEF FdWrite
  <2>3. IsBuffer(File) /\ File.data = data /\ (k > 0 => Clear(File, off))
    BY <2>2, FileIsBuffer DEF File, Clear, Clean
  <2>4. Writev(File, off, iovs, TRUE).data = Plain!Put(data, j, off)
    BY <1>0, <2>1, <2>3, WritevIsPut
  <2>5. data' = Plain!Put(data, j, off)
    BY <2>2, <2>4 DEF SetFile
  <2>6. off = IF ViewFds[f].append THEN Len(data) ELSE ViewFds[f].off
    BY <2>1, <2>2
  <2>7. ViewFds' = Plain!At(f, off + k)
    BY <1>0, <1>2, <2>2, ViewSetOff
  <2>8. k = 0 => ViewFds' = ViewFds
    <3> SUFFICES ASSUME k = 0 PROVE ViewFds' = ViewFds
      OBVIOUS
    <3>1. off + k = off
      BY <2>1
    <3>2. [fds[f] EXCEPT !.off = off] = fds[f]
      BY <2>1 DEF FileFd
    <3>3. fds' = [fds EXCEPT ![f] = fds[f]]
      BY <2>2, <3>1, <3>2 DEF SetOff
    <3>4. fds' = fds
      BY <1>0, <3>3 DEF FdsOK
    <3> QED BY <3>4, ViewSame
  <2>9. reply' = Plain!Moved(k)
    BY <2>2, PlainReplies
  <2> HIDE DEF off, k, j
  <2>10. Plain!Write(f, j)
    BY <1>0, <1>1, <2>1, <2>5, <2>6, <2>7, <2>8, <2>9 DEF Plain!Write, ViewFds
  <2> QED BY <2>10 DEF j
<1>3. CASE ~OnFile(f)
  <2>1. /\ reply' = IF f \in {1, 2} THEN Moved(k) ELSE Nothing
        /\ data' = data /\ fds' = fds
    BY <1>3 DEF FdWrite, Keep
  <2>2. reply' = IF f \in {1, 2} THEN Plain!Moved(Len(j)) ELSE Plain!Nothing
    BY <1>1, <2>1, PlainReplies
  <2>3. ViewFds' = ViewFds /\ ~Plain!OnFile(f)
    BY <1>0, <1>3, <2>1, ViewSame, PlainOn
  <2> HIDE DEF j
  <2>4. Plain!Write(f, j)
    BY <1>0, <2>1, <2>2, <2>3 DEF Plain!Write, ViewFds
  <2> QED BY <2>4 DEF j
<1> QED BY <1>2, <1>3

\* ... and fd_pwrite one plain positioned write.
LEMMA FdPwriteIsPlain ==
  ASSUME FilesTypeOK, Gaps = {}, NEW f, NEW off \in Positions, NEW iovs \in WriteVecs, FdPwrite(f, off, iovs)
  PROVE  Plain!Pwrite(f, off, Joined(iovs)) /\ off \in 0 .. MaxLen
<1> DEFINE j == Joined(iovs)
           k == Length(iovs)
<1>0. /\ FdsOK /\ iovs \in Seq(Seq(Byte)) /\ off \in Nat /\ off \in 0 .. MaxLen
      /\ names' = names /\ fds' = fds /\ stdin' = stdin
  BY FilesAssumption DEF FilesTypeOK, FdPwrite
<1>1. j \in Seq(Byte) /\ Len(j) = k /\ k \in Nat
  BY <1>0, JoinedType DEF Length
<1>2. ViewFds' = ViewFds
  BY <1>0, ViewSame
<1>3. CASE OnFile(f)
  <2>1. /\ k = 0 => ~(off > Len(data))
        /\ Clean(off) /\ SetFile(Writev(File, off, iovs, FALSE)) /\ reply' = Moved(k)
    BY <1>3 DEF FdPwrite
  <2>2. IsBuffer(File) /\ File.data = data /\ Clear(File, off) /\ Len(data) \in Nat
    BY <2>1, FileIsBuffer DEF File, Clear, Clean, FilesTypeOK
  <2>3. k = 0 => off <= Len(File.data)
    BY <1>0, <2>1, <2>2
  <2>4. Writev(File, off, iovs, FALSE).data = Plain!Put(data, j, off)
    BY <1>0, <2>2, <2>3, WritevIsPut
  <2>5. data' = Plain!Put(data, j, off)
    BY <2>1, <2>4 DEF SetFile
  <2>6. reply' = Plain!Moved(Len(j)) /\ Plain!OnFile(f)
    BY <1>0, <1>1, <1>3, <2>1, PlainReplies, PlainOn
  <2> HIDE DEF j
  <2>7. Plain!Pwrite(f, off, j)
    BY <1>0, <1>2, <2>5, <2>6 DEF Plain!Pwrite, ViewFds
  <2> QED BY <1>0, <2>7 DEF j
<1>4. CASE ~OnFile(f)
  <2>1. reply' = Plain!Nothing /\ data' = data /\ ~Plain!OnFile(f)
    BY <1>0, <1>4, PlainReplies, PlainOn DEF FdPwrite, Keep
  <2> HIDE DEF j
  <2>2. Plain!Pwrite(f, off, j)
    BY <1>0, <1>2, <2>1 DEF Plain!Pwrite, ViewFds
  <2> QED BY <1>0, <2>2 DEF j
<1> QED BY <1>3, <1>4

\* Every step of the calls is a step of the plain file and directory, or changes nothing it has.
LEMMA FilesStepIsPlain ==
  ASSUME FilesTypeOK, ScanInv, Gaps = {}, Next
  PROVE  Plain!Next
<1>0. FdsOK /\ NoScanGaps /\ {0, 1} \union 3 .. MaxFd \subseteq 0 .. MaxFd
  <2>1. MaxFd \in Nat \ 0 .. 2
    BY FilesAssumption
  <2> QED BY <2>1 DEF FilesTypeOK, NoScanGaps
<1>1. \A lens \in ReadVecs : Total(lens) \in {Total(v) : v \in ReadVecs}
  OBVIOUS
<1>2. \A iovs \in WriteVecs : Joined(iovs) \in {Joined(v) : v \in WriteVecs}
  OBVIOUS
<1>3. \A f : (OnDir(f) \/ OnFile(f)) => f \in 3 .. MaxFd
  <2>1. MaxFd \in Nat
    BY FilesAssumption
  <2> QED BY <1>0, <2>1 DEF FdsOK, OnDir, OnFile
<1>4. ASSUME NEW a \in BOOLEAN, NEW tr \in BOOLEAN, OpenFile(a, tr) PROVE Plain!Next
  <2>1. Plain!OpenFile(nextFD, a, tr) /\ nextFD \in 3 .. MaxFd
    BY <1>0, <1>4, OpenFileIsPlain
  <2> QED BY <2>1 DEF Plain!Next
<1>5. CASE OpenDir
  <2>1. Plain!OpenDir(nextFD) /\ nextFD \in 3 .. MaxFd
    BY <1>0, <1>5, OpenDirIsPlain
  <2> QED BY <2>1 DEF Plain!Next
<1>6. ASSUME NEW f \in 0 .. MaxFd, Dup(f) PROVE Plain!Next
  <2>1. Plain!Dup(f, nextFD) /\ nextFD \in 3 .. MaxFd
    BY <1>0, <1>6, DupIsPlain
  <2> QED BY <2>1 DEF Plain!Next
<1>7. ASSUME NEW f \in 0 .. MaxFd, Close(f) PROVE Plain!Next
  <2>1. Plain!Close(f)
    BY <1>0, <1>7, CloseIsPlain
  <2> QED BY <2>1 DEF Plain!Next
<1>8. ASSUME NEW f, Rewind(f) PROVE Plain!Next
  <2>1. Plain!Rewind(f) /\ f \in 3 .. MaxFd
    BY <1>0, <1>3, <1>8, RewindIsPlain DEF Rewind
  <2> QED BY <2>1 DEF Plain!Next
<1>9. ASSUME NEW f, Getdents64(f) PROVE Plain!Next
  <2>1. Plain!ReadDir(f) /\ f \in 3 .. MaxFd
    BY <1>0, <1>3, <1>9, GetdentsIsPlain DEF Getdents64
  <2> QED BY <2>1 DEF Plain!Next
<1>10. ASSUME NEW f \in 0 .. MaxFd, NEW lens \in ReadVecs, FdRead(f, lens) PROVE Plain!Next
  <2>1. Plain!Read(f, Total(lens))
    BY <1>10, FdReadIsPlain
  <2> QED BY <1>1, <2>1 DEF Plain!Next
<1>11. ASSUME NEW f \in 0 .. MaxFd, NEW off \in Positions, NEW lens \in ReadVecs, FdPread(f, off, lens)
       PROVE  Plain!Next
  <2>1. Plain!Pread(f, off, Total(lens)) /\ off \in 0 .. MaxLen
    BY <1>11, FdPreadIsPlain
  <2> QED BY <1>1, <2>1 DEF Plain!Next
<1>12. ASSUME NEW f \in 0 .. MaxFd, NEW iovs \in WriteVecs, FdWrite(f, iovs) PROVE Plain!Next
  <2>1. Plain!Write(f, Joined(iovs))
    BY <1>12, FdWriteIsPlain
  <2> QED BY <1>2, <2>1 DEF Plain!Next
<1>13. ASSUME NEW f \in 0 .. MaxFd, NEW off \in Positions, NEW iovs \in WriteVecs, FdPwrite(f, off, iovs)
       PROVE  Plain!Next
  <2>1. Plain!Pwrite(f, off, Joined(iovs)) /\ off \in 0 .. MaxLen
    BY <1>13, FdPwriteIsPlain
  <2> QED BY <1>2, <2>1 DEF Plain!Next
<1>14. ASSUME NEW f, NEW offset \in Positions \union {-1}, NEW whence \in {"set", "cur", "end"},
              FdSeek(f, offset, whence)
       PROVE  Plain!Next
  <2>1. Plain!Fail \/ \E k \in 0 .. MaxLen : Plain!Seek(f, k)
    BY <1>14, SeekIsPlain
  <2>2. f \in 3 .. MaxFd
    BY <1>3, <1>14 DEF FdSeek
  <2> QED BY <2>1, <2>2 DEF Plain!Next
<1>15. ASSUME NEW f, NEW k \in Positions, Ftruncate(f, k) PROVE Plain!Next
  <2>1. Plain!Truncate(f, k) /\ k \in 0 .. MaxLen
    BY <1>15, FtruncateIsPlain
  <2>2. f \in 3 .. MaxFd
    BY <1>3, <1>15 DEF Ftruncate
  <2> QED BY <2>1, <2>2 DEF Plain!Next
<1>16. ASSUME NEW n \in Names, Create(n) PROVE Plain!Next
  <2>1. Plain!Create(n)
    BY <1>16, CreateIsPlain
  <2> QED BY <2>1 DEF Plain!Next
<1>17. ASSUME NEW n \in Names, Unlink(n) PROVE Plain!Next
  <2>1. Plain!Unlink(n)
    BY <1>17, UnlinkIsPlain
  <2> QED BY <2>1 DEF Plain!Next
<1> QED BY <1>0, <1>4, <1>5, <1>6, <1>7, <1>8, <1>9, <1>10, <1>11, <1>12, <1>13, <1>14, <1>15, <1>16, <1>17 DEF Next

\* Outside the gaps every call is the plain call: whatever the sizes of the buffers it
\* is given, and however the array behind the file grew and shrank.
THEOREM FilesImplementsByteFile ==
  ASSUME Gaps = {}
  PROVE  Spec => ImplementsByteFile
<1>0. NoScanGaps
  BY DEF NoScanGaps
<1>1. Init => Plain!Init
  <2> SUFFICES ASSUME Init PROVE Plain!Init
    OBVIOUS
  <2>1. data = <<>> /\ names \in {Dots \union S : S \in SUBSET Names} /\ stdin = 0 /\ reply = Plain!Nothing
    BY PlainReplies DEF Init
  <2>2. ViewFds = Plain!NoFds
    <3>1. fds = [f \in {} |-> 0]
      BY DEF Init
    <3>2. DOMAIN fds = {}
      BY <3>1
    <3> QED BY <3>2 DEF ViewFds, Plain!NoFds
  <2> QED BY <2>1, <2>2 DEF Plain!Init, ViewFds
<1>2. FilesTypeOK /\ ScanInv /\ [Next]_vars => [Plain!Next]_(Plain!byteVars)
  <2>1. ASSUME FilesTypeOK, ScanInv, Next PROVE Plain!Next
    BY <2>1, FilesStepIsPlain
  <2>2. UNCHANGED vars => UNCHANGED Plain!byteVars
    BY DEF vars, Plain!byteVars
  <2> QED BY <2>1, <2>2
<1> QED BY <1>0, <1>1, <1>2, FilesInvInductive, PTL DEF Spec, ImplementsByteFile, Plain!Spec

============================================================================
