-------------------------- MODULE FileViewer_proofs --------------------------
(***************************************************************************)
(* The window of the viewer is a true part of the file, for any file that  *)
(* is written in whole characters: first what the cutting of chunks does,  *)
(* then what an answer is, then the steps of the viewer.                   *)
(***************************************************************************)
EXTENDS FileViewer, SequenceTheorems, NaturalsInduction, WellFoundedInduction, TLAPS

-----------------------------------------------------------------------------
(* Least and greatest elements.                                             *)

LEMMA LeastIs ==
    ASSUME NEW T, T \subseteq Nat, T # {}
    PROVE  Min(T) \in T /\ \A y \in T : Min(T) =< y
<1>1. PICK x \in T : \A y \in T : ~ (<<y, x>> \in OpToRel(<, Nat))
  BY NatLessThanWellFounded, WFMin
<1>2. \A y \in T : ~(y < x)
  BY <1>1, Zenon DEF OpToRel
<1>3. x \in T /\ \A y \in T : x =< y
  BY <1>2
<1> QED BY <1>3 DEF Min

LEMMA GreatestIs ==
    ASSUME NEW n \in Nat, NEW T, T \subseteq 0..n, T # {}
    PROVE  Max(T) \in T /\ \A y \in T : y =< Max(T)
<1> DEFINE D == {n - x : x \in T}
<1>1. D \subseteq Nat /\ D # {}
  <2>1. \A x \in T : n - x \in Nat
    OBVIOUS
  <2>2. PICK x \in T : TRUE
    OBVIOUS
  <2>3. n - x \in D
    OBVIOUS
  <2> QED BY <2>1, <2>3
<1>2. Min(D) \in D /\ \A y \in D : Min(D) =< y
  <2> HIDE DEF D
  <2> QED BY <1>1, LeastIs
<1>3. PICK x \in T : Min(D) = n - x
  BY <1>2
<1>4. \A y \in T : n - x =< n - y
  BY <1>2, <1>3
<1>5. x \in T /\ \A y \in T : x >= y
  BY <1>4
<1>6. Max(T) \in T /\ \A y \in T : Max(T) >= y
  BY <1>5 DEF Max
<1> QED BY <1>6

-----------------------------------------------------------------------------
(* Texts: their characters, and the edges between them.                     *)

Byte == 0..NL
IsText(s) == s \in Seq(Byte) /\ WholeCharacters(s)
\* Position p does not split a character of s.
Edge(s, p) == p \in 0..Len(s) /\ (p < Len(s) => s[p + 1] # 0)

LEMMA ByteValues == NL = 5 /\ Byte = {0, 1, 2, 3, 4, 5}
BY DEF NL, Byte

LEMMA BytesOf ==
    ASSUME NEW s, IsText(s)
    PROVE  Len(s) \in Nat /\ DOMAIN s = 1..Len(s) /\ \A i \in 1..Len(s) : s[i] \in Byte
BY DEF IsText

\* The first byte of a character, and what follows it.
LEMMA Character ==
    ASSUME NEW s, IsText(s), NEW i \in 1..Len(s), s[i] \notin {0, NL}
    PROVE  /\ s[i] \in 1..4 /\ s[i] =< ChunkBytes /\ i + s[i] - 1 =< Len(s)
           /\ \A j \in (i + 1)..(i + s[i] - 1) : s[j] = 0
<1>1. s[i] \in 1..4
  BY BytesOf, ByteValues
<1>2. s[i] =< ChunkBytes /\ i + s[i] - 1 =< Len(s) /\ \A k \in 1..(s[i] - 1) : s[i + k] = 0
  BY DEF IsText, WholeCharacters
<1>3. ASSUME NEW j \in (i + 1)..(i + s[i] - 1) PROVE s[j] = 0
  <2>1. j - i \in 1..(s[i] - 1) /\ i + (j - i) = j
    BY <1>1
  <2> QED BY <1>2, <2>1
<1> QED BY <1>1, <1>2, <1>3

\* A continuation byte belongs to a character.
LEMMA Continuation ==
    ASSUME NEW s, IsText(s), NEW j \in 1..Len(s), s[j] = 0
    PROVE  \E i \in 1..(j - 1) : s[i] \notin {0, NL} /\ j < i + s[i]
BY DEF IsText, WholeCharacters

LEMMA Ends ==
    ASSUME NEW s, IsText(s)
    PROVE  Edge(s, 0) /\ Edge(s, Len(s))
<1>1. Len(s) \in Nat
  BY BytesOf
<1>2. ASSUME 0 < Len(s), s[1] = 0 PROVE FALSE
  <2>1. \E i \in 1..(1 - 1) : s[i] \notin {0, NL}
    BY <1>1, <1>2, Continuation
  <2> QED BY <2>1
<1> QED BY <1>1, <1>2 DEF Edge

LEMMA AfterNewline ==
    ASSUME NEW s, IsText(s), NEW i \in 1..Len(s), s[i] = NL
    PROVE  Edge(s, i)
<1>1. Len(s) \in Nat
  BY BytesOf
<1>2. ASSUME i < Len(s), s[i + 1] = 0 PROVE FALSE
  <2>1. PICK k \in 1..i : s[k] \notin {0, NL} /\ i + 1 < k + s[k]
    <3>1. i + 1 \in 1..Len(s) /\ (i + 1) - 1 = i
      BY <1>1, <1>2
    <3> QED BY <1>2, <3>1, Continuation
  <2>2. k # i /\ k \in 1..Len(s)
    BY <2>1, <1>1
  <2>3. s[k] \in 1..4 /\ \A j \in (k + 1)..(k + s[k] - 1) : s[j] = 0
    BY <2>1, <2>2, Character
  <2>4. i \in (k + 1)..(k + s[k] - 1)
    BY <2>1, <2>2, <2>3
  <2> QED BY <2>3, <2>4, ByteValues
<1> QED BY <1>1, <1>2 DEF Edge

LEMMA AfterCharacter ==
    ASSUME NEW s, IsText(s), NEW i \in 1..Len(s), s[i] \notin {0, NL}
    PROVE  Edge(s, i + s[i] - 1)
<1>1. Len(s) \in Nat
  BY BytesOf
<1>2. /\ s[i] \in 1..4 /\ i + s[i] - 1 =< Len(s)
      /\ \A j \in (i + 1)..(i + s[i] - 1) : s[j] = 0
  BY Character
<1>3. ASSUME i + s[i] - 1 < Len(s), s[i + s[i] - 1 + 1] = 0 PROVE FALSE
  <2>1. i + s[i] - 1 + 1 = i + s[i] /\ i + s[i] \in 1..Len(s)
    BY <1>1, <1>2, <1>3
  <2>2. PICK k \in 1..(i + s[i] - 1) : s[k] \notin {0, NL} /\ i + s[i] < k + s[k]
    <3> DEFINE e == i + s[i]
    <3>1. e \in 1..Len(s) /\ s[e] = 0
      BY <1>3, <2>1
    <3> HIDE DEF e
    <3>2. \E k \in 1..(e - 1) : s[k] \notin {0, NL} /\ e < k + s[k]
      BY <3>1, Continuation
    <3>3. e - 1 = i + s[i] - 1
      BY <1>2 DEF e
    <3>4. \E k \in 1..(i + s[i] - 1) : s[k] \notin {0, NL} /\ e < k + s[k]
      BY <3>2, <3>3
    <3> QED BY <3>4 DEF e
  <2>3. k \in 1..Len(s) /\ k =< i
    BY <1>1, <1>2, <2>1, <2>2
  <2>4. s[k] \in 1..4 /\ \A j \in (k + 1)..(k + s[k] - 1) : s[j] = 0
    BY <2>2, <2>3, Character
  <2>5. k < i
    BY <1>2, <2>2, <2>3
  <2>6. i \in (k + 1)..(k + s[k] - 1)
    BY <1>2, <2>2, <2>4, <2>5
  <2> QED BY <2>4, <2>6
<1> QED BY <1>1, <1>2, <1>3 DEF Edge

\* Whole characters after whole characters.
LEMMA JoinedBytes ==
    ASSUME NEW f, IsText(f), NEW g, IsText(g)
    PROVE  /\ f \o g \in Seq(Byte) /\ Len(f \o g) = Len(f) + Len(g)
           /\ \A i \in 1..Len(f) : (f \o g)[i] = f[i]
           /\ \A i \in 1..Len(g) : (f \o g)[Len(f) + i] = g[i]
BY DEF IsText

LEMMA Joined ==
    ASSUME NEW f, IsText(f), NEW g, IsText(g)
    PROVE  /\ IsText(f \o g)
           /\ \A p : Edge(f, p) => Edge(f \o g, p)
<1> DEFINE h == f \o g
<1>1. /\ h \in Seq(Byte) /\ Len(h) = Len(f) + Len(g) /\ DOMAIN h = 1..Len(h)
      /\ \A i \in 1..Len(f) : h[i] = f[i]
      /\ \A i \in 1..Len(g) : h[Len(f) + i] = g[i]
      /\ Len(f) \in Nat /\ Len(g) \in Nat
  BY JoinedBytes, BytesOf
<1> HIDE DEF h
<1>2. ASSUME NEW i \in 1..Len(h), h[i] \notin {0, NL}
      PROVE  /\ h[i] =< ChunkBytes /\ i + h[i] - 1 =< Len(h)
             /\ \A k \in 1..(h[i] - 1) : h[i + k] = 0
  <2>1. CASE i =< Len(f)
    <3>1. i \in 1..Len(f) /\ h[i] = f[i]
      BY <1>1, <2>1
    <3>2. /\ f[i] \in 1..4 /\ f[i] =< ChunkBytes /\ i + f[i] - 1 =< Len(f)
          /\ \A j \in (i + 1)..(i + f[i] - 1) : f[j] = 0
      BY <1>2, <3>1, Character
    <3>3. ASSUME NEW k \in 1..(h[i] - 1) PROVE h[i + k] = 0
      <4>1. i + k \in (i + 1)..(i + f[i] - 1) /\ i + k \in 1..Len(f)
        BY <1>1, <3>1, <3>2
      <4> QED BY <1>1, <3>2, <4>1
    <3> QED BY <1>1, <3>1, <3>2, <3>3
  <2>2. CASE i > Len(f)
    <3> DEFINE m == i - Len(f)
    <3>1. m \in 1..Len(g) /\ i = Len(f) + m
      BY <1>1, <2>2
    <3> HIDE DEF m
    <3>2. h[i] = g[m]
      BY <1>1, <3>1
    <3>3. /\ g[m] \in 1..4 /\ g[m] =< ChunkBytes /\ m + g[m] - 1 =< Len(g)
          /\ \A j \in (m + 1)..(m + g[m] - 1) : g[j] = 0
      BY <1>2, <3>1, <3>2, Character
    <3>4. ASSUME NEW k \in 1..(h[i] - 1) PROVE h[i + k] = 0
      <4>1. m + k \in (m + 1)..(m + g[m] - 1) /\ m + k \in 1..Len(g) /\ i + k = Len(f) + (m + k)
        <5>1. PICK v \in 1..4 : v = g[m] /\ m + v - 1 =< Len(g)
          BY <3>3
        <5>2. k \in 1..(v - 1) /\ m \in Nat
          BY <1>1, <3>1, <3>2, <5>1
        <5>3. m + k \in (m + 1)..(m + v - 1) /\ m + k \in 1..Len(g) /\ i + k = Len(f) + (m + k)
          BY <1>1, <3>1, <5>1, <5>2
        <5> QED BY <5>1, <5>3
      <4> QED BY <1>1, <3>3, <4>1
    <3> QED BY <1>1, <3>1, <3>2, <3>3, <3>4
  <2> QED BY <1>1, <2>1, <2>2
<1>3. ASSUME NEW j \in 1..Len(h), h[j] = 0
      PROVE  \E i \in 1..(j - 1) : h[i] \notin {0, NL} /\ j < i + h[i]
  <2>1. CASE j =< Len(f)
    <3>1. j \in 1..Len(f) /\ f[j] = 0
      BY <1>1, <1>3, <2>1
    <3>2. PICK i \in 1..(j - 1) : f[i] \notin {0, NL} /\ j < i + f[i]
      BY <3>1, Continuation
    <3>3. h[i] = f[i]
      BY <1>1, <2>1, <3>2
    <3> QED BY <3>2, <3>3
  <2>2. CASE j > Len(f)
    <3> DEFINE m == j - Len(f)
    <3>1. m \in 1..Len(g) /\ j = Len(f) + m
      BY <1>1, <2>2
    <3> HIDE DEF m
    <3>2. g[m] = 0
      BY <1>1, <1>3, <3>1
    <3>3. PICK i \in 1..(m - 1) : g[i] \notin {0, NL} /\ m < i + g[i]
      BY <3>1, <3>2, Continuation
    <3>4. h[Len(f) + i] = g[i] /\ Len(f) + i \in 1..(j - 1) /\ g[i] \in Byte
      BY <1>1, <3>1, <3>3, BytesOf
    <3>5. j < (Len(f) + i) + g[i]
      <4>1. PICK v \in Nat : v = g[i]
        BY <3>4, ByteValues
      <4>2. m < i + v /\ m \in Nat /\ i \in Nat
        BY <1>1, <3>1, <3>3, <4>1
      <4> QED BY <1>1, <3>1, <4>1, <4>2
    <3> QED BY <3>3, <3>4, <3>5
  <2> QED BY <1>1, <2>1, <2>2
<1>4. IsText(h)
  BY <1>1, <1>2, <1>3 DEF IsText, WholeCharacters
<1>5. ASSUME NEW p, Edge(f, p) PROVE Edge(h, p)
  <2>1. p \in 0..Len(f) /\ (p < Len(f) => f[p + 1] # 0)
    BY <1>5 DEF Edge
  <2>2. p \in 0..Len(h)
    BY <1>1, <2>1
  <2>3. CASE p < Len(f)
    <3>1. p + 1 \in 1..Len(f)
      BY <1>1, <2>1, <2>3
    <3> QED BY <1>1, <2>1, <2>2, <2>3, <3>1 DEF Edge
  <2>4. CASE p = Len(f)
    <3>1. CASE p < Len(h)
      <4>1. 0 < Len(g) /\ g[1] # 0
        BY <1>1, <2>4, <3>1, Ends DEF Edge
      <4>2. h[Len(f) + 1] = g[1]
        BY <1>1, <4>1
      <4> QED BY <2>2, <2>4, <4>1, <4>2 DEF Edge
    <3> QED BY <2>2, <3>1 DEF Edge
  <2> QED BY <1>1, <2>1, <2>3, <2>4
<1> QED BY <1>4, <1>5 DEF h

-----------------------------------------------------------------------------
(* Parts of a text.                                                         *)

\* The bytes of s from position a up to position b.
Part(s, a, b) == SubSeq(s, a + 1, b)

LEMMA PartBytes ==
    ASSUME NEW S, NEW s \in Seq(S), NEW a \in 0..Len(s), NEW b \in a..Len(s)
    PROVE  /\ Part(s, a, b) \in Seq(S) /\ Len(Part(s, a, b)) = b - a
           /\ DOMAIN Part(s, a, b) = 1..(b - a)
           /\ \A i \in 1..(b - a) : Part(s, a, b)[i] = s[a + i]
<1>1. Len(s) \in Nat /\ a \in Nat /\ b \in Nat /\ a =< b
  OBVIOUS
<1>2. \A i \in (a + 1)..b : s[i] \in S
  BY <1>1, ElementOfSeq
<1>3. /\ Part(s, a, b) \in Seq(S)
      /\ Len(Part(s, a, b)) = IF a + 1 =< b THEN b - (a + 1) + 1 ELSE 0
      /\ \A i \in 1..(b - (a + 1) + 1) : Part(s, a, b)[i] = s[(a + 1) + i - 1]
  BY <1>1, <1>2, SubSeqProperties DEF Part
<1>4. Len(Part(s, a, b)) = b - a
  BY <1>1, <1>3
<1>5. ASSUME NEW i \in 1..(b - a) PROVE Part(s, a, b)[i] = s[a + i]
  <2>1. i \in 1..(b - (a + 1) + 1) /\ (a + 1) + i - 1 = a + i
    BY <1>1
  <2> QED BY <1>3, <2>1
<1>6. DOMAIN Part(s, a, b) = 1..(b - a)
  BY <1>3, <1>4
<1> QED BY <1>3, <1>4, <1>5, <1>6

LEMMA Halves ==
    ASSUME NEW S, NEW t \in Seq(S), NEW m \in 0..Len(t)
    PROVE  /\ First(t, m) \in Seq(S) /\ Len(First(t, m)) = m
           /\ \A i \in 1..m : First(t, m)[i] = t[i]
           /\ From(t, m) \in Seq(S) /\ Len(From(t, m)) = Len(t) - m
           /\ \A i \in 1..(Len(t) - m) : From(t, m)[i] = t[m + i]
<1>1. Len(t) \in Nat /\ m \in Nat /\ m =< Len(t)
  OBVIOUS
<1>2. First(t, m) = Part(t, 0, m)
  BY DEF First, Part
<1>3. From(t, m) = Part(t, m, Len(t))
  <2>1. ~(m < 0) /\ 1 + m = m + 1
    BY <1>1
  <2> QED BY <2>1 DEF From, Part
<1>4. /\ Part(t, 0, m) \in Seq(S) /\ Len(Part(t, 0, m)) = m - 0
      /\ \A i \in 1..(m - 0) : Part(t, 0, m)[i] = t[0 + i]
  <2>1. 0 \in 0..Len(t) /\ m \in 0..Len(t)
    BY <1>1
  <2> QED BY <2>1, PartBytes
<1>5. /\ Part(t, m, Len(t)) \in Seq(S) /\ Len(Part(t, m, Len(t))) = Len(t) - m
      /\ \A i \in 1..(Len(t) - m) : Part(t, m, Len(t))[i] = t[m + i]
  <2>1. Len(t) \in m..Len(t)
    BY <1>1
  <2> QED BY <2>1, PartBytes
<1>6. m - 0 = m /\ \A i \in 1..m : 0 + i = i
  BY <1>1
<1> QED BY <1>2, <1>3, <1>4, <1>5, <1>6

LEMMA PartOfPart ==
    ASSUME NEW S, NEW s \in Seq(S), NEW a \in 0..Len(s), NEW b \in a..Len(s), NEW m \in 0..(b - a)
    PROVE  /\ First(Part(s, a, b), m) = Part(s, a, a + m)
           /\ From(Part(s, a, b), m) = Part(s, a + m, b)
<1>1. PICK data \in Seq(S) : data = Part(s, a, b)
  BY PartBytes
<1>2. /\ Len(data) = b - a /\ Len(s) \in Nat
      /\ \A i \in 1..(b - a) : data[i] = s[a + i]
  <2>1. /\ Len(Part(s, a, b)) = b - a
        /\ \A i \in 1..(b - a) : Part(s, a, b)[i] = s[a + i]
    BY PartBytes
  <2>2. Len(s) \in Nat
    OBVIOUS
  <2> QED BY <1>1, <2>1, <2>2, Zenon
<1>3. /\ a + m \in 0..Len(s) /\ b \in (a + m)..Len(s) /\ a + m \in a..Len(s)
      /\ m \in 0..Len(data)
  BY <1>2
<1>4. /\ Part(s, a, a + m) \in Seq(S) /\ Len(Part(s, a, a + m)) = m
      /\ \A i \in 1..m : Part(s, a, a + m)[i] = s[a + i]
  <2>1. (a + m) - a = m
    BY <1>2
  <2> QED BY <1>3, <2>1, PartBytes
<1>5. /\ Part(s, a + m, b) \in Seq(S) /\ Len(Part(s, a + m, b)) = (b - a) - m
      /\ \A i \in 1..((b - a) - m) : Part(s, a + m, b)[i] = s[(a + m) + i]
  <2>1. b - (a + m) = (b - a) - m
    BY <1>2
  <2> QED BY <1>3, <2>1, PartBytes
<1>6. /\ First(data, m) \in Seq(S) /\ Len(First(data, m)) = m
      /\ \A i \in 1..m : First(data, m)[i] = data[i]
      /\ From(data, m) \in Seq(S) /\ Len(From(data, m)) = Len(data) - m
      /\ \A i \in 1..(Len(data) - m) : From(data, m)[i] = data[m + i]
  BY <1>3, Halves
<1>7. First(data, m) = Part(s, a, a + m)
  <2>1. ASSUME NEW i \in 1..m PROVE First(data, m)[i] = Part(s, a, a + m)[i]
    <3>1. i \in 1..(b - a)
      BY <1>2
    <3> QED BY <1>2, <1>4, <1>6, <3>1
  <2> QED BY <1>4, <1>6, <2>1, SeqEqual
<1>8. From(data, m) = Part(s, a + m, b)
  <2>1. ASSUME NEW i \in 1..((b - a) - m) PROVE From(data, m)[i] = Part(s, a + m, b)[i]
    <3>1. m + i \in 1..(b - a) /\ a + (m + i) = (a + m) + i
      BY <1>2
    <3> QED BY <1>2, <1>5, <1>6, <3>1
  <2> QED BY <1>2, <1>5, <1>6, <2>1, SeqEqual
<1> QED BY <1>1, <1>7, <1>8

LEMMA AdjacentParts ==
    ASSUME NEW S, NEW s \in Seq(S), NEW a \in 0..Len(s), NEW b \in a..Len(s), NEW c \in b..Len(s)
    PROVE  Part(s, a, b) \o Part(s, b, c) = Part(s, a, c)
<1>1. a + 1 \in 1..(Len(s) + 1) /\ b \in ((a + 1) - 1)..Len(s) /\ c \in b..Len(s)
  OBVIOUS
<1> QED BY <1>1, ConcatAdjacentSubSeq DEF Part

LEMMA PartOfJoined ==
    ASSUME NEW f, IsText(f), NEW g, IsText(g), NEW a \in 0..Len(f), NEW b \in a..Len(f)
    PROVE  Part(f \o g, a, b) = Part(f, a, b)
<1> DEFINE h == f \o g
<1>1. /\ h \in Seq(Byte) /\ Len(h) = Len(f) + Len(g) /\ f \in Seq(Byte)
      /\ \A i \in 1..Len(f) : h[i] = f[i]
      /\ Len(f) \in Nat /\ Len(g) \in Nat
  BY JoinedBytes, BytesOf DEF IsText
<1> HIDE DEF h
<1>2. a \in 0..Len(h) /\ b \in a..Len(h)
  BY <1>1
<1>3. /\ Part(h, a, b) \in Seq(Byte) /\ Len(Part(h, a, b)) = b - a
      /\ \A i \in 1..(b - a) : Part(h, a, b)[i] = h[a + i]
  BY <1>1, <1>2, PartBytes
<1>4. /\ Part(f, a, b) \in Seq(Byte) /\ Len(Part(f, a, b)) = b - a
      /\ \A i \in 1..(b - a) : Part(f, a, b)[i] = f[a + i]
  BY <1>1, PartBytes
<1>5. \A i \in 1..(b - a) : Part(h, a, b)[i] = Part(f, a, b)[i]
  <2>1. \A i \in 1..(b - a) : a + i \in 1..Len(f)
    BY <1>1
  <2> QED BY <1>1, <1>3, <1>4, <2>1
<1> QED BY <1>3, <1>4, <1>5, SeqEqual DEF h

\* The bytes that a reader gets are such a part.
LEMMA BytesArePart ==
    ASSUME NEW s, Len(s) \in Nat, NEW a \in Nat, NEW n \in Nat
    PROVE  /\ a + n =< Len(s) => Bytes(s, a, n) = Part(s, a, a + n)
           /\ a + n > Len(s) => Bytes(s, a, n) = Part(s, a, Len(s))
<1>1. CASE a + n < Len(s)
  BY <1>1 DEF Bytes, Part
<1>2. CASE a + n = Len(s)
  BY <1>2 DEF Bytes, Part
<1>3. CASE a + n > Len(s)
  BY <1>3 DEF Bytes, Part
<1> QED BY <1>1, <1>2, <1>3

-----------------------------------------------------------------------------
(* Where chunks are cut.                                                    *)

LEMMA ViewerConstants == ChunkBytes \in Nat /\ ChunkBytes > 0 /\ MaxChunks \in Nat /\ MaxChunks > 0
BY ViewerAssumption

\* A full chunk, without its incomplete last character.
LEMMA TailCut ==
    ASSUME NEW s, IsText(s), NEW a \in 0..Len(s), NEW b \in a..Len(s), a < b, b - a >= ChunkBytes,
           NEW keep, keep = Len(Part(s, a, b)) - IncompleteTail(Part(s, a, b))
    PROVE  keep \in 0..(b - a) /\ Edge(s, a + keep) /\ (keep = 0 => b - a < ChunkBytes)
<1>1. PICK data : data = Part(s, a, b)
  OBVIOUS
<1>2. /\ Len(s) \in Nat /\ \A i \in 1..Len(s) : s[i] \in Byte
      /\ Len(data) = b - a /\ DOMAIN data = 1..(b - a)
      /\ \A i \in 1..(b - a) : data[i] = s[a + i]
  BY <1>1, BytesOf, PartBytes DEF IsText
<1> DEFINE leads == {i \in DOMAIN data : data[i] # 0 /\ Len(data) - i < 4}
           back  == Len(data) - Max(leads) + 1
<1>3. IncompleteTail(data) = IF leads # {} /\ data[Max(leads)] # NL /\ data[Max(leads)] > back THEN back ELSE 0
  BY DEF IncompleteTail
<1>4. /\ leads \subseteq 0..(b - a) /\ \A i \in leads : i \in 1..(b - a) /\ data[i] # 0 /\ (b - a) - i < 4
      /\ \A i \in 1..(b - a) : data[i] # 0 /\ (b - a) - i < 4 => i \in leads
      /\ back = (b - a) - Max(leads) + 1
  BY <1>2
<1> HIDE DEF leads, back
<1>5. leads # {} => Max(leads) \in leads /\ \A y \in leads : y =< Max(leads)
  <2>1. b - a \in Nat
    BY <1>2
  <2> QED BY <1>4, <2>1, GreatestIs
<1>6. keep = (b - a) - IncompleteTail(data)
  BY <1>1, <1>2
<1>7. CASE Edge(s, b)
  <2>1. ASSUME leads # {}, data[Max(leads)] # NL, data[Max(leads)] > back PROVE FALSE
    <3>1. PICK m : m = Max(leads)
      OBVIOUS
    <3>2. m \in 1..(b - a) /\ data[m] # 0 /\ data[m] = s[a + m] /\ a + m \in 1..Len(s) /\ a + m =< b
      <4>1. m \in leads
        BY <1>5, <2>1, <3>1
      <4>2. m \in 1..(b - a) /\ data[m] # 0
        BY <1>4, <4>1
      <4>3. a + m \in 1..Len(s) /\ a + m =< b
        BY <1>2, <4>2
      <4> QED BY <1>2, <4>2, <4>3
    <3>3. PICK i \in 1..Len(s) : i = a + m
      BY <3>2
    <3>4. /\ s[i] \in 1..4 /\ i + s[i] - 1 =< Len(s)
          /\ \A j \in (i + 1)..(i + s[i] - 1) : s[j] = 0
      BY <2>1, <3>1, <3>2, <3>3, Character
    <3>5. s[i] > (b - a) - m + 1
      BY <1>4, <2>1, <3>1, <3>2, <3>3
    <3>6. b + 1 \in (i + 1)..(i + s[i] - 1) /\ b < Len(s)
      <4>1. /\ a \in Nat /\ b \in Nat /\ m \in Nat /\ i \in Nat /\ s[i] \in Nat /\ Len(s) \in Nat
            /\ i = a + m /\ i =< b
        BY <1>2, <3>2, <3>3, <3>4
      <4>2. PICK v \in Nat : v = s[i] /\ v > (b - a) - m + 1 /\ i + v - 1 =< Len(s)
        BY <3>4, <3>5, <4>1
      <4>3. b + 1 \in (i + 1)..(i + v - 1) /\ b < Len(s)
        BY <4>1, <4>2
      <4> QED BY <4>2, <4>3
    <3> QED BY <1>7, <3>4, <3>6 DEF Edge
  <2>2. IncompleteTail(data) = 0
    BY <1>3, <2>1
  <2>3. keep = b - a /\ a + keep = b /\ keep # 0 /\ keep \in 0..(b - a)
    BY <1>2, <1>6, <2>2
  <2> QED BY <1>7, <2>3
<1>8. CASE ~Edge(s, b)
  <2>1. b < Len(s) /\ b + 1 \in 1..Len(s) /\ s[b + 1] = 0
    BY <1>2, <1>8 DEF Edge
  <2>2. PICK i \in 1..b : s[i] \notin {0, NL} /\ b + 1 < i + s[i]
    <3>1. PICK e \in 1..Len(s) : e = b + 1
      BY <2>1
    <3>2. \E i \in 1..(e - 1) : s[i] \notin {0, NL} /\ e < i + s[i]
      BY <2>1, <3>1, Continuation
    <3>3. e - 1 = b
      BY <1>2, <3>1
    <3> QED BY <3>1, <3>2, <3>3
  <2>3. i \in 1..Len(s)
    BY <1>2, <2>2
  <2>4. /\ s[i] \in 1..4 /\ s[i] =< ChunkBytes /\ i + s[i] - 1 =< Len(s)
        /\ \A j \in (i + 1)..(i + s[i] - 1) : s[j] = 0
    BY <2>2, <2>3, Character
  <2>5. i > a
    <3>1. ASSUME i =< a PROVE FALSE
      <4>1. PICK w \in 1..4 : w = s[i] /\ w =< ChunkBytes /\ b + 1 < i + w
        BY <2>2, <2>4
      <4>2. i \in Nat /\ a \in Nat /\ b \in Nat /\ ChunkBytes \in Nat
        BY <1>2, <2>3, ViewerConstants
      <4> QED BY <3>1, <4>1, <4>2
    <3> QED BY <3>1, <2>3, <1>2
  <2>6. PICK m \in 1..(b - a) : i = a + m
    <3>1. i - a \in 1..(b - a) /\ i = a + (i - a)
      BY <1>2, <2>2, <2>5
    <3> QED BY <3>1
  <2> DEFINE w == s[i]
  <2>16. /\ w \in Nat /\ w =< 4 /\ b + 1 < i + w
         /\ a \in Nat /\ b \in Nat /\ m \in Nat /\ i \in Nat /\ i = a + m /\ m =< b - a
    <3>1. w \in Nat /\ w =< 4
      BY <2>4
    <3>2. b + 1 < i + w
      BY <2>2
    <3>3. a \in Nat /\ b \in Nat
      BY <1>2
    <3>4. m \in Nat /\ m =< b - a /\ i \in Nat
      BY <3>3
    <3> QED BY <2>6, <3>1, <3>2, <3>3, <3>4
  <2> HIDE DEF w
  <2>7. data[m] = s[i] /\ (b - a) - m < 4
    <3>1. data[m] = s[i]
      BY <1>2, <2>6
    <3>2. (b - a) - m < 4
      BY <2>16
    <3> QED BY <3>1, <3>2
  <2>8. m \in leads
    BY <1>4, <2>2, <2>6, <2>7
  <2>9. ASSUME NEW y \in leads, y > m PROVE FALSE
    <3>1. y \in 1..(b - a) /\ data[y] # 0
      BY <1>4
    <3>2. a + y \in (i + 1)..(i + s[i] - 1)
      <4>1. y \in Nat /\ y > m /\ y =< b - a
        BY <2>9, <2>16, <3>1
      <4>2. a + y \in (i + 1)..(i + w - 1)
        BY <2>16, <4>1
      <4> QED BY <4>2 DEF w
    <3>3. data[y] = s[a + y]
      BY <1>2, <3>1
    <3> QED BY <2>4, <3>1, <3>2, <3>3
  <2>10. Max(leads) = m
    <3>1. Max(leads) \in leads /\ m =< Max(leads)
      BY <1>5, <2>8
    <3>2. ~(Max(leads) > m)
      BY <2>9, <3>1
    <3>3. Max(leads) \in 1..(b - a)
      BY <1>4, <3>1
    <3> QED BY <2>6, <3>1, <3>2, <3>3
  <2>11. back = (b - a) - m + 1
    BY <1>4, <2>10
  <2>12. IncompleteTail(data) = back
    <3>1. s[i] > back
      <4>1. w > (b - a) - m + 1
        BY <2>16
      <4> QED BY <2>11, <4>1 DEF w
    <3> QED BY <1>3, <2>2, <2>7, <2>8, <2>10, <3>1
  <2>13. keep = m - 1 /\ a + keep = i - 1 /\ keep \in 0..(b - a)
    <3>1. PICK n : n = back
      OBVIOUS
    <3>2. n = (b - a) - m + 1 /\ keep = (b - a) - n
      BY <1>6, <2>11, <2>12, <3>1
    <3> QED BY <2>6, <2>16, <3>2
  <2>14. Edge(s, i - 1)
    <3>1. i - 1 \in 0..Len(s) /\ (i - 1) + 1 = i
      BY <1>2, <2>3
    <3> QED BY <2>2, <3>1 DEF Edge
  <2>15. ASSUME keep = 0 PROVE b - a < ChunkBytes
    <3>1. m = 1
      BY <2>13, <2>15, <2>16
    <3>2. b - a < w
      BY <2>16, <3>1
    <3>3. w =< ChunkBytes
      BY <2>4 DEF w
    <3> QED BY <2>16, <3>2, <3>3, ViewerConstants
  <2> QED BY <2>13, <2>14, <2>15
<1> QED BY <1>7, <1>8

\* A chunk that is read forward.
LEMMA LastNewline ==
    ASSUME NEW s, IsText(s), NEW a \in 0..Len(s), NEW b \in a..Len(s), Positions(Part(s, a, b), NL) # {}
    PROVE  Max(Positions(Part(s, a, b), NL)) \in 0..(b - a) /\ Edge(s, a + Max(Positions(Part(s, a, b), NL)))
<1> DEFINE T == Positions(Part(s, a, b), NL)
<1>1. b - a \in Nat /\ Len(s) \in Nat
  BY BytesOf
<1>2. \A i \in T : i \in 1..(b - a) /\ s[a + i] = NL
  BY PartBytes DEF Positions, IsText
<1>3. T \subseteq 0..(b - a)
  BY <1>1, <1>2
<1> HIDE DEF T
<1>4. Max(T) \in T
  <2>1. T # {}
    BY DEF T
  <2> QED BY <1>1, <1>3, <2>1, GreatestIs
<1>5. a + Max(T) \in 1..Len(s)
  BY <1>1, <1>2, <1>4
<1> QED BY <1>2, <1>3, <1>4, <1>5, AfterNewline DEF T

LEMMA ForwardCut ==
    ASSUME NEW s, IsText(s), NEW a \in 0..Len(s), NEW b \in a..Len(s),
           NEW atEof \in BOOLEAN, ~atEof => b - a >= ChunkBytes
    PROVE  /\ AlignForward(Part(s, a, b), atEof) \in 0..(b - a)
           /\ atEof => AlignForward(Part(s, a, b), atEof) = b - a
           /\ ~atEof => Edge(s, a + AlignForward(Part(s, a, b), atEof))
<1> DEFINE data == Part(s, a, b)
           newlines == Positions(data, NL)
           keep == Len(data) - IncompleteTail(data)
<1>1. AlignForward(data, atEof) = IF atEof \/ data = <<>> THEN Len(data)
                                  ELSE IF newlines # {} THEN Max(newlines)
                                  ELSE IF keep > 0 THEN keep ELSE Len(data)
  BY DEF AlignForward
<1>2. Len(data) = b - a /\ Len(s) \in Nat
  BY PartBytes, BytesOf DEF IsText
<1>3. newlines # {} => Max(newlines) \in 0..(b - a) /\ Edge(s, a + Max(newlines))
  BY LastNewline
<1>4. a < b /\ b - a >= ChunkBytes =>
          keep \in 0..(b - a) /\ Edge(s, a + keep) /\ (keep = 0 => b - a < ChunkBytes)
  BY TailCut
<1> HIDE DEF data, newlines, keep
<1>5. CASE atEof
  <2>1. b - a \in 0..(b - a)
    BY <1>2
  <2> QED BY <1>1, <1>2, <1>5, <2>1 DEF data
<1>6. CASE ~atEof /\ data # <<>>
  <2>1. b - a >= ChunkBytes /\ a < b
    BY <1>2, <1>6, ViewerConstants
  <2>2. keep \in 0..(b - a) /\ Edge(s, a + keep) /\ keep > 0
    BY <1>2, <1>4, <2>1, ViewerConstants
  <2> QED BY <1>1, <1>3, <1>6, <2>2 DEF data
<1>7. CASE ~atEof /\ data = <<>>
  BY <1>2, <1>7, ViewerConstants
<1> QED BY <1>5, <1>6, <1>7

\* A poll of follow mode at the end of the file: complete lines, unless a line is too long.
LEMMA LinesCut ==
    ASSUME NEW s, IsText(s), NEW a \in 0..Len(s), NEW b \in a..Len(s)
    PROVE  /\ AlignCompleteLines(Part(s, a, b)) \in 0..(b - a)
           /\ \/ AlignCompleteLines(Part(s, a, b)) = 0
              \/ Edge(s, a + AlignCompleteLines(Part(s, a, b)))
<1> DEFINE data == Part(s, a, b)
           newlines == Positions(data, NL)
<1>1. AlignCompleteLines(data) = IF newlines # {} THEN Max(newlines)
                                 ELSE IF Len(data) >= ChunkBytes THEN AlignForward(data, FALSE) ELSE 0
  BY DEF AlignCompleteLines
<1>2. Len(data) = b - a /\ Len(s) \in Nat
  BY PartBytes, BytesOf DEF IsText
<1>3. newlines # {} => Max(newlines) \in 0..(b - a) /\ Edge(s, a + Max(newlines))
  BY LastNewline
<1>4. b - a >= ChunkBytes => AlignForward(data, FALSE) \in 0..(b - a) /\ Edge(s, a + AlignForward(data, FALSE))
  BY ForwardCut
<1>5. 0 \in 0..(b - a)
  BY <1>2
<1> HIDE DEF data, newlines
<1> QED BY <1>1, <1>2, <1>3, <1>4, <1>5 DEF data

\* A chunk that is read backward: `lo` is where it may start.
LEMMA HeadCut ==
    ASSUME NEW s, IsText(s), NEW lo \in 0..Len(s), NEW b \in lo..Len(s), b - lo = ChunkBytes,
           NEW n, n = ContinuationHead(Part(s, lo, b))
    PROVE  n \in 0..(b - lo) /\ n < b - lo /\ Edge(s, lo + n)
<1>1. PICK data : data = Part(s, lo, b)
  OBVIOUS
<1>2. /\ Len(s) \in Nat /\ Len(data) = b - lo /\ lo \in Nat /\ b \in Nat /\ b > lo
      /\ \A i \in 1..(b - lo) : data[i] = s[lo + i]
  <2>1. Len(s) \in Nat
    BY BytesOf
  <2>2. Len(data) = b - lo /\ \A i \in 1..(b - lo) : data[i] = s[lo + i]
    BY <1>1, PartBytes DEF IsText
  <2>3. lo \in Nat /\ b \in Nat /\ b > lo
    BY <2>1, ViewerConstants
  <2> QED BY <2>1, <2>2, <2>3
<1> DEFINE T == {k \in 0..3 : k =< Len(data) /\ \A i \in 1..k : data[i] = 0}
<1>3. n = Max(T)
  BY <1>1 DEF ContinuationHead
<1>4. T \subseteq 0..3 /\ 0 \in T /\ \A k \in T : k \in 0..3 /\ \A i \in 1..k : data[i] = 0
  <2>1. \A i \in 1..0 : data[i] = 0
    OBVIOUS
  <2> QED BY <1>2, <2>1
<1>5. \A k \in 0..3 : k =< b - lo /\ (\A i \in 1..k : data[i] = 0) => k \in T
  BY <1>2
<1> HIDE DEF T
<1>6. n \in T /\ \A y \in T : y =< n
  BY <1>3, <1>4, GreatestIs
<1>7. ASSUME NEW m \in 0..3, m < b - lo, \A i \in 1..m : data[i] = 0, data[m + 1] # 0
      PROVE  n = m
  <2>1. m \in T
    BY <1>2, <1>5, <1>7
  <2>2. ASSUME n > m PROVE FALSE
    <3>1. m + 1 \in 1..n
      BY <1>4, <1>6, <2>2
    <3> QED BY <1>4, <1>6, <1>7, <3>1
  <2>3. n \in 0..3 /\ m =< n
    BY <1>4, <1>6, <2>1
  <2> QED BY <2>2, <2>3
<1>8. CASE s[lo + 1] # 0
  <2>1. data[0 + 1] # 0 /\ 0 < b - lo /\ \A i \in 1..0 : data[i] = 0
    BY <1>2, <1>8
  <2>2. n = 0
    BY <1>7, <2>1
  <2> QED BY <1>2, <1>8, <2>2 DEF Edge
<1>9. CASE s[lo + 1] = 0
  <2>1. PICK i \in 1..lo : s[i] \notin {0, NL} /\ lo + 1 < i + s[i]
    <3>1. PICK e \in 1..Len(s) : e = lo + 1
      <4>1. lo + 1 \in 1..Len(s)
        BY <1>2
      <4> QED BY <4>1
    <3>2. \E i \in 1..(e - 1) : s[i] \notin {0, NL} /\ e < i + s[i]
      BY <1>9, <3>1, Continuation
    <3>3. e - 1 = lo
      BY <1>2, <3>1
    <3> QED BY <3>1, <3>2, <3>3
  <2>2. i \in 1..Len(s) /\ i \in Nat
    BY <1>2, <2>1
  <2>3. /\ s[i] \in 1..4 /\ s[i] =< ChunkBytes /\ i + s[i] - 1 =< Len(s) /\ s[i] \in Nat
        /\ \A j \in (i + 1)..(i + s[i] - 1) : s[j] = 0
    BY <2>1, <2>2, Character
  <2>4. Edge(s, i + s[i] - 1)
    BY <2>1, <2>2, AfterCharacter
  <2>5. i + s[i] - 1 =< b
    <3>1. PICK v \in 1..4 : v = s[i] /\ v =< ChunkBytes
      BY <2>3
    <3>2. i =< lo /\ b - lo = ChunkBytes /\ ChunkBytes \in Nat
      BY <1>2, <2>1, ViewerConstants
    <3> QED BY <1>2, <2>2, <3>1, <3>2
  <2>6. PICK m \in Nat : lo + m = i + s[i] - 1
    <3>1. PICK v \in 1..4 : v = s[i]
      BY <2>3
    <3>2. (i + v - 1) - lo \in Nat /\ lo + ((i + v - 1) - lo) = i + v - 1
      BY <1>2, <2>1, <2>2, <3>1
    <3> QED BY <3>1, <3>2
  <2>7. m \in 0..3 /\ m < b - lo
    <3>1. PICK v \in 1..4 : v = s[i]
      BY <2>3
    <3>2. lo + m = i + v - 1 /\ v =< b - lo /\ i =< lo
      BY <1>2, <2>1, <2>2, <2>3, <2>6, <3>1
    <3>3. lo \in Nat /\ b \in Nat /\ i \in Nat
      BY <1>2, <2>2
    <3>4. m =< v - 1
      BY <3>2, <3>3
    <3> QED BY <3>2, <3>3, <3>4
  <2>8. ASSUME NEW k \in 1..m PROVE data[k] = 0
    <3>1. lo + k \in (i + 1)..(i + s[i] - 1) /\ k \in 1..(b - lo)
      BY <1>2, <2>1, <2>2, <2>3, <2>6, <2>7
    <3> QED BY <1>2, <2>3, <3>1
  <2>9. data[m + 1] # 0
    <3>1. m + 1 \in 1..(b - lo) /\ lo + (m + 1) = (lo + m) + 1 /\ lo + m < Len(s)
      BY <1>2, <2>7
    <3>2. data[m + 1] = s[lo + (m + 1)]
      BY <1>2, <3>1
    <3>3. s[(lo + m) + 1] # 0
      BY <2>4, <2>6, <3>1 DEF Edge
    <3> QED BY <3>1, <3>2, <3>3
  <2>10. n = m
    BY <1>7, <2>7, <2>8, <2>9
  <2> QED BY <1>2, <2>4, <2>6, <2>7, <2>10
<1> QED BY <1>8, <1>9

LEMMA FirstNewline ==
    ASSUME NEW s, IsText(s), NEW a \in 0..Len(s), NEW b \in a..Len(s), Positions(Part(s, a, b), NL) # {}
    PROVE  Min(Positions(Part(s, a, b), NL)) \in 0..(b - a) /\ Edge(s, a + Min(Positions(Part(s, a, b), NL)))
<1> DEFINE T == Positions(Part(s, a, b), NL)
<1>1. b - a \in Nat /\ Len(s) \in Nat
  BY BytesOf
<1>2. \A i \in T : i \in 1..(b - a) /\ s[a + i] = NL
  BY PartBytes DEF Positions, IsText
<1>3. T \subseteq Nat
  BY <1>1, <1>2
<1> HIDE DEF T
<1>4. Min(T) \in T
  <2>1. T # {}
    BY DEF T
  <2> QED BY <1>3, <2>1, LeastIs
<1>5. Min(T) \in 0..(b - a) /\ a + Min(T) \in 1..Len(s)
  BY <1>1, <1>2, <1>4
<1> QED BY <1>2, <1>4, <1>5, AfterNewline DEF T

LEMMA BackwardCut ==
    ASSUME NEW s, IsText(s), NEW b \in 0..Len(s),
           NEW lo \in 0..b, NEW a \in 0..lo,
           lo = 0 \/ (a = lo - 1 /\ b - lo = ChunkBytes)
    PROVE  /\ AlignBackward(Part(s, a, b), a, lo) \in a..b
           /\ Edge(s, AlignBackward(Part(s, a, b), a, lo))
<1>1. Len(s) \in Nat /\ s \in Seq(Byte)
  BY BytesOf DEF IsText
<1>2. a \in 0..Len(s) /\ b \in a..Len(s) /\ a =< lo /\ lo =< b /\ lo \in Nat /\ b \in Nat /\ a \in Nat
  BY <1>1
<1>3. Len(Part(s, a, b)) = b - a
  BY <1>1, <1>2, PartBytes
<1> DEFINE data == Part(s, a, b)
           newlines == Positions(data, NL)
           skip == lo - a
           n == ContinuationHead(From(data, skip))
           start == skip + n
<1>4. AlignBackward(data, a, lo) =
          IF lo =< 0 THEN 0
          ELSE IF newlines # {} /\ Min(newlines) < Len(data) THEN a + Min(newlines)
          ELSE IF start >= Len(data) THEN lo ELSE a + start
  BY DEF AlignBackward
<1>5. CASE lo = 0
  BY <1>2, <1>4, <1>5, Ends
<1>6. CASE lo # 0
  <2>1. a = lo - 1 /\ b - lo = ChunkBytes /\ skip = 1 /\ lo > 0 /\ ~(lo =< 0)
    BY <1>2, <1>6
  <2>2. From(data, skip) = Part(s, lo, b)
    <3>1. skip \in 0..(b - a) /\ a + skip = lo
      BY <1>2
    <3> QED BY <1>1, <1>2, <3>1, PartOfPart
  <2>3. n \in 0..(b - lo) /\ n < b - lo /\ Edge(s, lo + n)
    <3>1. lo \in 0..Len(s) /\ b \in lo..Len(s)
      BY <1>1, <1>2
    <3> QED BY <2>1, <2>2, <3>1, HeadCut
  <2>4. newlines # {} => Min(newlines) \in 0..(b - a) /\ Edge(s, a + Min(newlines))
    BY <1>2, FirstNewline
  <2> HIDE DEF data, newlines, n
  <2>5. ~(start >= Len(data)) /\ a + start = lo + n
    BY <1>2, <1>3, <2>1, <2>3 DEF data
  <2>6. a + start \in a..b /\ Edge(s, a + start)
    BY <1>2, <2>1, <2>3, <2>5
  <2>7. newlines # {} => a + Min(newlines) \in a..b
    BY <1>2, <2>4
  <2> HIDE DEF start
  <2>8. AlignBackward(data, a, lo) \in a..b /\ Edge(s, AlignBackward(data, a, lo))
    BY <1>4, <2>1, <2>4, <2>5, <2>6, <2>7
  <2> QED BY <2>8 DEF data
<1> QED BY <1>5, <1>6

-----------------------------------------------------------------------------
(* Answers: a failure, or a part of the file between two borders.           *)

\* Where chunks may meet: at the edge of a character, or at the places M where a chunk that
\* was taken for the last one has ended.
Border(f, M, p) == Edge(f, p) \/ (p \in M /\ p \in 0..Len(f))

IsRequest(f, M, r) ==
    /\ r \in [kind : {"offset", "before", "end"}, at : Nat, follow : BOOLEAN]
    /\ Border(f, M, r.at)
    /\ r.kind # "offset" => ~r.follow
IsSize(f, size) == size = Unknown \/ Edge(f, size)
IsPiece(f, M, c) ==
    /\ Border(f, M, c.offset) /\ Border(f, M, c.end) /\ c.offset =< c.end
    /\ c.text = Part(f, c.offset, c.end)
    /\ c.bof \in BOOLEAN /\ c.eof \in BOOLEAN
IsAnswer(f, M, result) ==
    result.status \in {200, 400, 404, 504} /\ (result.status = 200 => IsPiece(f, M, result))

\* What is read for a request, of a file of which a size was seen, but not beyond `top`.
IsRead(f, r, size, top, data) ==
    /\ r.kind = "offset" /\ size = Unknown =>
           \E b \in r.at..Len(f) : data = Part(f, r.at, b) /\ (b - r.at < ChunkBytes => b = Len(f))
    /\ r.kind = "offset" /\ size # Unknown /\ r.at =< size =>
           \E b \in r.at..top : data = Part(f, r.at, b) /\ (b < size => b - r.at = ChunkBytes)
    /\ r.kind = "before" /\ size # Unknown /\ r.at =< size => data = Part(f, ReadStart(r, size), r.at)
    /\ r.kind = "end" /\ size # Unknown =>
           \E b \in size..top : /\ data = Part(f, ReadStart(r, size), b)
                                /\ b # size => ReadStart(r, size) = 0 /\ b =< ChunkBytes + 1

LEMMA EdgeIs ==
    ASSUME NEW f, IsText(f), NEW p, Edge(f, p)
    PROVE  p \in Nat /\ p =< Len(f) /\ p \in 0..Len(f) /\ p # Unknown /\ Len(f) \in Nat
BY BytesOf DEF Edge, Unknown

LEMMA BorderIs ==
    ASSUME NEW f, IsText(f), NEW M, NEW p, Border(f, M, p)
    PROVE  p \in Nat /\ p =< Len(f) /\ p \in 0..Len(f) /\ p # Unknown /\ Len(f) \in Nat
<1>1. Len(f) \in Nat /\ p \in 0..Len(f)
  BY BytesOf DEF Border, Edge
<1> QED BY <1>1 DEF Unknown

LEMMA LargerIs ==
    ASSUME NEW m \in Int, NEW n \in Int
    PROVE  Larger(m, n) \in {m, n} /\ Larger(m, n) >= m /\ Larger(m, n) >= n
BY DEF Larger

\* Where a backward read starts: a byte before the chunk, or at the start of the file.
LEMMA StartOfRead ==
    ASSUME NEW f, IsText(f), NEW M, NEW r, IsRequest(f, M, r), NEW size, Edge(f, size),
           NEW b, b = (IF r.kind = "before" THEN r.at ELSE size), r.kind # "offset",
           NEW lo, lo = Larger(0, b - ChunkBytes)
    PROVE  /\ b \in 0..Len(f) /\ lo \in 0..b /\ ReadStart(r, size) \in 0..lo
           /\ lo = 0 \/ (ReadStart(r, size) = lo - 1 /\ b - lo = ChunkBytes)
<1>1. /\ r.kind \in {"before", "end"} /\ r.at \in Nat /\ r.at \in 0..Len(f) /\ size \in Nat
      /\ ChunkBytes \in Nat /\ ChunkBytes > 0
  BY EdgeIs, BorderIs, ViewerConstants DEF IsRequest
<1>2. b \in Nat /\ b \in 0..Len(f)
  BY <1>1, EdgeIs
<1>3. CASE r.kind = "before"
  <2>1. PICK c \in Nat : c = ChunkBytes /\ c > 0
    BY <1>1
  <2>2. ReadStart(r, size) = Larger(0, lo - 1) /\ lo = Larger(0, b - c)
    BY <1>3, <2>1 DEF ReadStart
  <2>3. CASE b =< c
    <3>1. Larger(0, b - c) = 0 /\ Larger(0, 0 - 1) = 0
      BY <1>2, <2>1, <2>3 DEF Larger
    <3> QED BY <1>2, <2>2, <3>1
  <2>4. CASE b > c
    <3>1. lo = b - c
      BY <1>2, <2>1, <2>2, <2>4 DEF Larger
    <3>2. lo \in Nat /\ lo > 0
      BY <1>2, <2>1, <2>4, <3>1
    <3>3. Larger(0, lo - 1) = lo - 1
      BY <3>2 DEF Larger
    <3> QED BY <1>2, <2>1, <2>2, <3>1, <3>2, <3>3
  <2> QED BY <1>2, <2>1, <2>3, <2>4
<1>4. CASE r.kind = "end"
  <2>1. PICK c \in Nat : c = ChunkBytes /\ c > 0
    BY <1>1
  <2>2. ReadStart(r, size) = Larger(0, b - (c + 1)) /\ lo = Larger(0, b - c)
    BY <1>4, <2>1 DEF ReadStart
  <2>3. CASE b =< c
    <3>1. Larger(0, b - (c + 1)) = 0 /\ Larger(0, b - c) = 0
      BY <1>2, <2>1, <2>3 DEF Larger
    <3> QED BY <1>2, <2>2, <3>1
  <2>4. CASE b > c
    <3>1. Larger(0, b - (c + 1)) = b - (c + 1) /\ Larger(0, b - c) = b - c
      BY <1>2, <2>1, <2>4 DEF Larger
    <3> QED BY <1>2, <2>1, <2>2, <2>4, <3>1
  <2> QED BY <1>2, <2>1, <2>3, <2>4
<1> QED BY <1>1, <1>3, <1>4

\* No bytes.
LEMMA NoPart ==
    ASSUME NEW f, NEW p \in Nat
    PROVE  Part(f, p, p) = <<>>
<1>1. p + 1 \in Int /\ p \in Int /\ p < p + 1
  OBVIOUS
<1> QED BY <1>1, SubSeqEmpty DEF Part

\* What the reader process of a local file, and `rclone cat`, get.
LEMMA LocalRead ==
    ASSUME NEW f, IsText(f), NEW M, NEW r, IsRequest(f, M, r), NEW size, Edge(f, size)
    PROVE  IsRead(f, r, size, Len(f), LocalData(r, size, f))
<1>1. /\ r.at \in Nat /\ r.at =< Len(f) /\ Len(f) \in Nat
      /\ size \in Nat /\ size =< Len(f) /\ size # Unknown
      /\ ChunkBytes \in Nat /\ ChunkBytes > 0
      /\ r.kind \in {"offset", "before", "end"}
  <2>1. Border(f, M, r.at) /\ r.kind \in {"offset", "before", "end"}
    BY DEF IsRequest
  <2> QED BY <2>1, EdgeIs, BorderIs, ViewerConstants
<1> DEFINE data == LocalData(r, size, f)
           a == ReadStart(r, size)
           n == ReadCount(r, size)
<1>2. data = IF a >= size THEN <<>> ELSE Bytes(f, a, n)
  BY DEF LocalData
<1>3. CASE r.kind = "offset"
  <2>1. a = r.at /\ n = ChunkBytes
    BY <1>3 DEF ReadStart, ReadCount
  <2> HIDE DEF a, n, data
  <2>2. SUFFICES ASSUME r.at =< size
                 PROVE  \E b \in r.at..Len(f) : data = Part(f, r.at, b) /\ (b < size => b - r.at = ChunkBytes)
    BY <1>1, <1>3 DEF IsRead, data
  <2>3. CASE r.at >= size
    <3>1. data = <<>> /\ r.at = size
      BY <1>1, <1>2, <2>1, <2>2, <2>3
    <3>2. data = Part(f, r.at, r.at) /\ r.at \in r.at..Len(f) /\ ~(r.at < size)
      BY <1>1, <3>1, NoPart
    <3> QED BY <3>2
  <2>4. CASE ~(r.at >= size) /\ r.at + ChunkBytes =< Len(f)
    <3>1. data = Part(f, r.at, r.at + ChunkBytes)
      BY <1>1, <1>2, <2>1, <2>4, BytesArePart
    <3>2. r.at + ChunkBytes \in r.at..Len(f) /\ (r.at + ChunkBytes) - r.at = ChunkBytes
      BY <1>1, <2>4
    <3> QED BY <3>1, <3>2
  <2>5. CASE ~(r.at >= size) /\ r.at + ChunkBytes > Len(f)
    <3>1. data = Part(f, r.at, Len(f))
      BY <1>1, <1>2, <2>1, <2>5, BytesArePart
    <3>2. Len(f) \in r.at..Len(f) /\ ~(Len(f) < size)
      BY <1>1
    <3> QED BY <3>1, <3>2
  <2> QED BY <1>1, <2>3, <2>4, <2>5
<1>4. CASE r.kind = "before"
  <2>1. SUFFICES ASSUME r.at =< size PROVE data = Part(f, a, r.at)
    BY <1>1, <1>4 DEF IsRead
  <2>2. a \in Nat /\ a =< r.at /\ n = r.at - a /\ (a = r.at => r.at = 0)
    <3>1. PICK c \in Nat : c = ChunkBytes /\ c > 0
      BY <1>1
    <3>2. a = Larger(0, Larger(0, r.at - c) - 1) /\ n = r.at - a
      BY <1>4, <3>1 DEF ReadStart, ReadCount
    <3> HIDE DEF a, n
    <3>3. CASE r.at =< c
      <4>1. Larger(0, r.at - c) = 0 /\ Larger(0, 0 - 1) = 0
        BY <1>1, <3>1, <3>3 DEF Larger
      <4> QED BY <1>1, <3>2, <4>1
    <3>4. CASE r.at > c
      <4>1. Larger(0, r.at - c) = r.at - c
        BY <1>1, <3>1, <3>4 DEF Larger
      <4>2. Larger(0, (r.at - c) - 1) = (r.at - c) - 1
        BY <1>1, <3>1, <3>4 DEF Larger
      <4> QED BY <1>1, <3>1, <3>2, <3>4, <4>1, <4>2
    <3> QED BY <1>1, <3>1, <3>3, <3>4
  <2> HIDE DEF a, n, data
  <2>3. CASE a >= size
    <3>1. a = 0 /\ r.at = 0 /\ data = <<>>
      BY <1>1, <1>2, <2>1, <2>2, <2>3
    <3> QED BY <3>1, NoPart
  <2>4. CASE ~(a >= size)
    <3>1. n \in Nat /\ a + n = r.at
      BY <1>1, <2>2
    <3> QED BY <1>1, <1>2, <2>2, <2>4, <3>1, BytesArePart
  <2> QED BY <2>3, <2>4
<1>5. CASE r.kind = "end"
  <2>1. SUFFICES \E b \in size..Len(f) : data = Part(f, a, b) /\ (b # size => a = 0 /\ b =< ChunkBytes + 1)
    BY <1>1, <1>5 DEF IsRead
  <2>2. PICK c \in Nat : c = ChunkBytes + 1 /\ c > 0
    BY <1>1
  <2>3. a = Larger(0, size - c) /\ n = c
    BY <1>5, <2>2 DEF ReadStart, ReadCount
  <2> HIDE DEF a, n, data
  <2>4. CASE size = 0
    <3>1. a = 0 /\ data = <<>>
      BY <1>2, <2>2, <2>3, <2>4 DEF Larger
    <3>2. data = Part(f, a, 0) /\ 0 \in size..Len(f)
      BY <1>1, <2>4, <3>1, NoPart
    <3> QED BY <2>4, <3>2
  <2>5. CASE size # 0 /\ size >= c
    <3>1. a = size - c /\ a \in Nat /\ ~(a >= size) /\ a + c = size
      BY <1>1, <2>2, <2>3, <2>5 DEF Larger
    <3>2. data = Part(f, a, size)
      BY <1>1, <1>2, <2>3, <3>1, BytesArePart
    <3>3. size \in size..Len(f)
      BY <1>1
    <3> QED BY <3>2, <3>3
  <2>6. CASE size # 0 /\ ~(size >= c)
    <3>1. a = 0 /\ ~(a >= size)
      BY <1>1, <2>2, <2>3, <2>6 DEF Larger
    <3>2. data = Bytes(f, 0, c)
      BY <1>2, <2>3, <3>1
    <3>3. CASE c =< Len(f)
      <4>1. 0 + c =< Len(f) /\ 0 + c = c /\ c \in size..Len(f)
        BY <1>1, <2>2, <2>6, <3>3
      <4>2. data = Part(f, 0, c)
        BY <1>1, <3>2, <4>1, BytesArePart
      <4> QED BY <1>1, <2>2, <3>1, <4>1, <4>2
    <3>4. CASE c > Len(f)
      <4>1. 0 + c > Len(f) /\ Len(f) \in size..Len(f) /\ Len(f) =< c
        BY <1>1, <2>2, <3>4
      <4>2. data = Part(f, 0, Len(f))
        BY <1>1, <3>2, <4>1, BytesArePart
      <4> QED BY <2>2, <3>1, <4>1, <4>2
    <3> QED BY <1>1, <2>2, <3>3, <3>4
  <2> QED BY <2>4, <2>5, <2>6
<1> QED BY <1>1, <1>3, <1>4, <1>5

LEMMA CloudRead ==
    ASSUME NEW f, IsText(f), NEW M, NEW r, IsRequest(f, M, r), NEW size, IsSize(f, size)
    PROVE  IsRead(f, r, size, size, CloudData(r, size, f))
<1>1. /\ r.at \in Nat /\ r.at =< Len(f) /\ Len(f) \in Nat
      /\ ChunkBytes \in Nat /\ ChunkBytes > 0
      /\ r.kind \in {"offset", "before", "end"}
  <2>1. Border(f, M, r.at) /\ r.kind \in {"offset", "before", "end"}
    BY DEF IsRequest
  <2> QED BY <2>1, BorderIs, ViewerConstants
<1>2. CASE r.kind = "offset" /\ size = Unknown
  <2>1. CloudData(r, size, f) = Bytes(f, r.at, ChunkBytes)
    BY <1>1, <1>2 DEF CloudData, ReadStart, ReadCount, NeedsCat
  <2>2. CASE r.at + ChunkBytes =< Len(f)
    <3>1. CloudData(r, size, f) = Part(f, r.at, r.at + ChunkBytes)
      BY <1>1, <2>1, <2>2, BytesArePart
    <3>2. r.at + ChunkBytes \in r.at..Len(f) /\ ~((r.at + ChunkBytes) - r.at < ChunkBytes)
      BY <1>1, <2>2
    <3> QED BY <1>1, <1>2, <3>1, <3>2 DEF IsRead
  <2>3. CASE r.at + ChunkBytes > Len(f)
    <3>1. CloudData(r, size, f) = Part(f, r.at, Len(f))
      BY <1>1, <2>1, <2>3, BytesArePart
    <3>2. Len(f) \in r.at..Len(f)
      BY <1>1
    <3> QED BY <1>1, <1>2, <3>1, <3>2 DEF IsRead
  <2> QED BY <1>1, <2>2, <2>3
<1>3. CASE r.kind = "offset" /\ size # Unknown
  <2>1. Edge(f, size) /\ size \in Nat /\ size =< Len(f)
    <3>1. Edge(f, size)
      BY <1>3 DEF IsSize
    <3> QED BY <3>1, EdgeIs
  <2>2. SUFFICES ASSUME r.at =< size
                 PROVE  \E b \in r.at..size : /\ CloudData(r, size, f) = Part(f, r.at, b)
                                              /\ b < size => b - r.at = ChunkBytes
    BY <1>3 DEF IsRead
  <2>3. CASE r.at = size
    <3>1. CloudData(r, size, f) = <<>>
      BY <1>1, <1>3, <2>1, <2>3 DEF CloudData, NeedsCat, Backward
    <3>2. Part(f, r.at, size) = <<>>
      <4>1. r.at + 1 \in Int /\ size \in Int /\ size < r.at + 1
        BY <1>1, <2>1, <2>3
      <4> QED BY <4>1, SubSeqEmpty DEF Part
    <3>3. size \in r.at..size /\ ~(size < size)
      BY <2>1, <2>3
    <3> QED BY <3>1, <3>2, <3>3
  <2>4. CASE r.at < size
    <3> DEFINE n == IF ChunkBytes < size - r.at THEN ChunkBytes ELSE size - r.at
    <3>1. CloudData(r, size, f) = Bytes(f, r.at, n)
      BY <1>3, <2>4 DEF CloudData, NeedsCat, ReadStart, ReadCount
    <3>2. /\ n \in Nat /\ r.at + n =< Len(f) /\ r.at + n \in r.at..size
          /\ r.at + n < size => (r.at + n) - r.at = ChunkBytes
      BY <1>1, <2>1, <2>4
    <3> HIDE DEF n
    <3>3. CloudData(r, size, f) = Part(f, r.at, r.at + n)
      BY <1>1, <3>1, <3>2, BytesArePart
    <3> QED BY <3>2, <3>3
  <2> QED BY <1>1, <2>1, <2>2, <2>3, <2>4
<1>4. CASE r.kind # "offset" /\ size # Unknown
  <2>1. Edge(f, size) /\ size \in Nat /\ size =< Len(f)
    <3>1. Edge(f, size)
      BY <1>4 DEF IsSize
    <3> QED BY <3>1, EdgeIs
  <2> DEFINE a == ReadStart(r, size)
             b == IF r.kind = "before" THEN r.at ELSE size
             n == IF ReadCount(r, size) < size - a THEN ReadCount(r, size) ELSE size - a
  <2>2. b \in 0..Len(f) /\ Larger(0, b - ChunkBytes) \in 0..b /\ a \in 0..Larger(0, b - ChunkBytes)
    BY <1>1, <1>4, <2>1, StartOfRead
  <2>3. a \in Nat /\ b \in Nat /\ a =< b /\ b =< Len(f)
    BY <1>1, <2>2
  <2>4. CloudData(r, size, f) = Bytes(f, a, n)
    BY <1>4 DEF CloudData, NeedsCat, Backward
  <2>5. r.kind = "before" => ReadCount(r, size) = b - a /\ b = r.at
    BY DEF ReadCount
  <2>6. r.kind = "end" => ReadCount(r, size) = ChunkBytes + 1 /\ a = Larger(0, size - (ChunkBytes + 1)) /\ b = size
    BY DEF ReadCount, ReadStart
  <2>7. (r.kind = "before" => r.at =< size) => n \in Nat /\ a + n = b
    <3>1. CASE r.kind = "before"
      <4> HIDE DEF a, b
      <4> QED BY <1>1, <2>1, <2>3, <2>5, <3>1
    <3>2. CASE r.kind = "end"
      <4>1. ChunkBytes + 1 >= size - a
        BY <1>1, <2>1, <2>6, <3>2 DEF Larger
      <4> HIDE DEF a, b
      <4> QED BY <1>1, <2>1, <2>3, <2>6, <3>2, <4>1
    <3> QED BY <1>1, <1>4, <3>1, <3>2
  <2> HIDE DEF a, b, n
  <2>8. (r.kind = "before" => r.at =< size) => CloudData(r, size, f) = Part(f, a, b)
    BY <1>1, <2>3, <2>4, <2>7, BytesArePart
  <2>9. size \in size..size
    BY <2>1
  <2> QED BY <1>1, <1>4, <2>5, <2>6, <2>8, <2>9 DEF IsRead, a
<1>5. CASE r.kind # "offset" /\ size = Unknown
  BY <1>5 DEF IsRead
<1> QED BY <1>2, <1>3, <1>4, <1>5

\* A chunk of such bytes.
LEMMA ChunkIsAnswer ==
    ASSUME NEW f, NEW M, NEW a, NEW b, Border(f, M, a), Border(f, M, b), a =< b,
           NEW size, NEW eof \in BOOLEAN, NEW text, text = Part(f, a, b)
    PROVE  IsAnswer(f, M, Chunk(a, b, text, size, eof))
BY DEF IsAnswer, IsPiece, Chunk

LEMMA FailureIsAnswer ==
    ASSUME NEW f, NEW M, NEW status \in {400, 404, 504}
    PROVE  IsAnswer(f, M, Failure(status)) /\ Failure(status).status # 200
BY DEF IsAnswer, Failure

LEMMA ChoiceIsBoolean ==
    ASSUME NEW c, NEW p \in BOOLEAN, NEW q \in BOOLEAN
    PROVE  (IF c THEN p ELSE q) \in BOOLEAN
<1>1. CASE c
  BY <1>1
<1>2. CASE ~c
  BY <1>2
<1> QED BY <1>1, <1>2

LEMMA Wider ==
    ASSUME NEW f, NEW M, NEW N, M \subseteq N, NEW p, Border(f, M, p)
    PROVE  Border(f, N, p)
BY DEF Border

LEMMA ForwardAnswer ==
    ASSUME NEW f, IsText(f), NEW M, NEW r, IsRequest(f, M, r), NEW size, IsSize(f, size),
           NEW top, top = size \/ top = Len(f), NEW data,
           IsRead(f, r, size, top, data), r.kind = "offset", size # Unknown => r.at =< size,
           NEW N, M \subseteq N, top # size => PastSize(r, size, ForwardResult(r, size, data)) \subseteq N
    PROVE  IsAnswer(f, N, ForwardResult(r, size, data))
<1>1. PICK a : a = r.at
  OBVIOUS
<1>2. /\ Border(f, M, a) /\ a \in Nat /\ a \in 0..Len(f) /\ Len(f) \in Nat /\ r.follow \in BOOLEAN
      /\ ChunkBytes \in Nat /\ f \in Seq(Byte) /\ Edge(f, Len(f))
  <2>1. Border(f, M, a) /\ r.follow \in BOOLEAN
    BY <1>1 DEF IsRequest
  <2> QED BY <2>1, BorderIs, Ends, ViewerConstants DEF IsText
<1>3. size # Unknown => Edge(f, size) /\ size \in Nat /\ size =< Len(f)
  <2>1. size # Unknown => Edge(f, size)
    BY DEF IsSize
  <2> QED BY <2>1, EdgeIs
<1>4. PICK b \in a..Len(f) : /\ data = Part(f, a, b)
                             /\ size = Unknown => (b - a < ChunkBytes => b = Len(f))
                             /\ size # Unknown => (b > size => top # size) /\ (b < size => b - a = ChunkBytes)
  <2>1. CASE size = Unknown
    BY <1>1, <2>1 DEF IsRead
  <2>2. CASE size # Unknown
    <3>1. PICK b \in a..top : data = Part(f, a, b) /\ (b < size => b - a = ChunkBytes)
      BY <1>1, <2>2 DEF IsRead
    <3>2. b \in a..Len(f) /\ (b > size => top # size)
      BY <1>2, <1>3, <2>2, <3>1
    <3> QED BY <2>2, <3>1, <3>2
  <2> QED BY <2>1, <2>2
<1>5. Len(data) = b - a /\ a + Len(data) = b /\ b \in Nat /\ a =< b
  <2>1. Len(data) = b - a
    BY <1>2, <1>4, PartBytes
  <2> QED BY <1>2, <2>1
<1> DEFINE known0 == IF size # Unknown /\ data # <<>> THEN Larger(size, b) ELSE size
           atEof  == IF known0 # Unknown THEN b >= known0 ELSE Len(data) < ChunkBytes
           keep   == IF r.follow /\ atEof THEN AlignCompleteLines(data) ELSE AlignForward(data, atEof)
           known  == IF known0 = Unknown /\ atEof THEN b ELSE known0
           eof    == IF r.follow THEN atEof ELSE known # Unknown /\ a + keep >= known
<1>6. ForwardResult(r, size, data) = Chunk(a, a + keep, First(data, keep), known, eof)
  BY <1>1, <1>5 DEF ForwardResult
<1>7. /\ size = Unknown => known0 = Unknown
      /\ size # Unknown => known0 \in Nat /\ (b >= known0 <=> b >= size)
  <2>1. CASE size = Unknown
    BY <2>1
  <2>2. CASE size # Unknown
    <3>1. size \in Nat
      BY <1>3, <2>2
    <3>2. Larger(size, b) \in Nat /\ (b >= Larger(size, b) <=> b >= size)
      BY <1>5, <3>1 DEF Larger
    <3> QED BY <2>2, <3>1, <3>2
  <2> QED BY <2>1, <2>2
<1>8. atEof <=> IF size # Unknown THEN b >= size ELSE b - a < ChunkBytes
  <2>1. CASE size = Unknown
    <3> HIDE DEF known0
    <3> QED BY <1>5, <1>7, <2>1
  <2>2. CASE size # Unknown
    <3>1. known0 # Unknown
      BY <1>7, <2>2 DEF Unknown
    <3> HIDE DEF known0
    <3> QED BY <1>7, <2>2, <3>1
  <2> QED BY <2>1, <2>2
<1>9. atEof \in BOOLEAN
  <2>1. (b >= known0) \in BOOLEAN /\ (Len(data) < ChunkBytes) \in BOOLEAN
    OBVIOUS
  <2> HIDE DEF known0
  <2> QED BY <2>1, ChoiceIsBoolean, Zenon
<1> HIDE DEF known0, atEof
<1>11. ~atEof => b - a >= ChunkBytes
  <2>1. CASE size = Unknown
    <3>1. ~atEof => ~(b - a < ChunkBytes)
      BY <1>8, <2>1, Zenon
    <3> QED BY <1>2, <1>5, <3>1
  <2>2. CASE size # Unknown
    <3>1. size \in Nat /\ (b < size => b - a = ChunkBytes)
      BY <1>3, <1>4, <2>2
    <3>2. ~atEof => ~(b >= size)
      BY <1>8, <2>2, Zenon
    <3> QED BY <1>2, <1>5, <3>1, <3>2
  <2> QED BY <2>1, <2>2
<1>12. /\ keep \in 0..(b - a)
       /\ Edge(f, a + keep) \/ keep = 0 \/ (atEof /\ ~r.follow /\ keep = b - a)
  <2>1. CASE r.follow /\ atEof
    <3>1. keep = AlignCompleteLines(Part(f, a, b))
      BY <1>4, <2>1
    <3> HIDE DEF keep
    <3> QED BY <1>2, <1>4, <3>1, LinesCut
  <2>2. CASE ~(r.follow /\ atEof)
    <3>1. keep = AlignForward(Part(f, a, b), atEof)
      BY <1>4, <2>2
    <3>2. /\ AlignForward(Part(f, a, b), atEof) \in 0..(b - a)
          /\ atEof => AlignForward(Part(f, a, b), atEof) = b - a
          /\ ~atEof => Edge(f, a + AlignForward(Part(f, a, b), atEof))
      BY <1>2, <1>4, <1>9, <1>11, ForwardCut
    <3> HIDE DEF keep
    <3> QED BY <2>2, <3>1, <3>2
  <2> QED BY <2>1, <2>2
<1> HIDE DEF keep
<1>13. First(data, keep) = Part(f, a, a + keep)
  BY <1>2, <1>4, <1>12, PartOfPart
<1>14. a =< a + keep
  BY <1>2, <1>5, <1>12
<1>15. eof \in BOOLEAN
  <2>1. CASE r.follow
    BY <1>9, <2>1
  <2>2. CASE ~r.follow
    BY <2>2, Zenon
  <2> QED BY <2>1, <2>2
<1> HIDE DEF known, eof
<1>16. Border(f, N, a)
  BY <1>2, Wider
<1>17. Border(f, N, a + keep)
  <2>1. CASE Edge(f, a + keep)
    BY <2>1 DEF Border
  <2>2. CASE keep = 0
    <3>1. a + keep = a
      BY <1>2, <2>2
    <3> QED BY <1>16, <3>1
  <2>3. CASE atEof /\ ~r.follow /\ keep = b - a
    <3>1. a + keep = b
      BY <1>2, <1>5, <2>3
    <3>2. CASE size = Unknown
      <4>1. b = Len(f)
        BY <1>4, <1>8, <2>3, <3>2
      <4> QED BY <1>2, <3>1, <4>1 DEF Border
    <3>3. CASE size # Unknown /\ b =< size
      <4>1. b = size /\ Edge(f, size)
        BY <1>3, <1>5, <1>8, <2>3, <3>3
      <4> QED BY <3>1, <4>1 DEF Border
    <3>4. CASE size # Unknown /\ b > size
      <4>1. ForwardResult(r, size, data).end = b
        BY <1>6, <3>1 DEF Chunk
      <4>2. PastSize(r, size, ForwardResult(r, size, data)) = {b}
        BY <2>3, <3>4, <4>1 DEF PastSize
      <4>3. b \in N /\ b \in 0..Len(f)
        BY <1>2, <1>4, <1>5, <3>4, <4>2
      <4> QED BY <3>1, <4>3 DEF Border
    <3> QED BY <1>3, <1>5, <3>2, <3>3, <3>4
  <2> QED BY <1>12, <2>1, <2>2, <2>3
<1> QED BY <1>6, <1>13, <1>14, <1>15, <1>16, <1>17, ChunkIsAnswer

LEMMA BackwardAnswer ==
    ASSUME NEW f, IsText(f), NEW M, NEW r, IsRequest(f, M, r), NEW size, Edge(f, size),
           NEW top, top = size \/ top = Len(f), NEW data,
           IsRead(f, r, size, top, data), r.kind # "offset", r.kind = "before" => r.at =< size,
           NEW N, M \subseteq N, top # size => PastSize(r, size, BackwardResult(r, size, data)) \subseteq N
    PROVE  IsAnswer(f, N, BackwardResult(r, size, data))
<1>1. /\ r.kind \in {"before", "end"} /\ f \in Seq(Byte) /\ Len(f) \in Nat
      /\ size # Unknown /\ size \in Nat /\ size =< Len(f) /\ Border(f, M, r.at)
      /\ ChunkBytes \in Nat /\ ChunkBytes > 0
  BY EdgeIs, ViewerConstants DEF IsRequest, IsText
<1>2. PICK a : a = ReadStart(r, size)
  OBVIOUS
<1>3. PICK b : /\ data = Part(f, a, b)
               /\ r.kind = "before" => b = r.at
               /\ r.kind = "end" => b \in size..top /\ (b # size => a = 0 /\ b =< ChunkBytes + 1)
  <2>1. CASE r.kind = "before"
    BY <1>1, <1>2, <2>1 DEF IsRead
  <2>2. CASE r.kind = "end"
    <3>1. PICK b \in size..top : data = Part(f, a, b) /\ (b # size => a = 0 /\ b =< ChunkBytes + 1)
      BY <1>1, <1>2, <2>2 DEF IsRead
    <3> QED BY <2>2, <3>1
  <2> QED BY <1>1, <2>1, <2>2
<1>4. PICK lo : lo = Larger(0, b - ChunkBytes)
  OBVIOUS
<1>5. /\ b \in 0..Len(f) /\ lo \in 0..b /\ a \in 0..lo
      /\ lo = 0 \/ (a = lo - 1 /\ b - lo = ChunkBytes)
  <2>1. CASE b = (IF r.kind = "before" THEN r.at ELSE size)
    BY <1>2, <1>4, <2>1, StartOfRead
  <2>2. CASE b # (IF r.kind = "before" THEN r.at ELSE size)
    <3>1. r.kind = "end" /\ b \in Nat /\ b =< Len(f) /\ a = 0 /\ b =< ChunkBytes + 1
      BY <1>1, <1>3, <2>2
    <3>2. PICK c \in Nat : c = ChunkBytes /\ c > 0
      BY <1>1
    <3>3. CASE b =< c
      <4>1. lo = 0
        BY <1>4, <3>1, <3>2, <3>3 DEF Larger
      <4> QED BY <1>1, <3>1, <4>1
    <3>4. CASE b > c
      <4>1. lo = b - c /\ b = c + 1
        BY <1>4, <3>1, <3>2, <3>4 DEF Larger
      <4> QED BY <1>1, <3>1, <3>2, <4>1
    <3> QED BY <3>1, <3>2, <3>3, <3>4
  <2> QED BY <2>1, <2>2
<1>6. /\ a \in 0..Len(f) /\ b \in a..Len(f) /\ a \in Nat /\ b \in Nat
  BY <1>1, <1>5
<1>7. Len(data) = b - a /\ a + Len(data) = b
  <2>1. Len(data) = b - a
    BY <1>1, <1>3, <1>6, PartBytes
  <2> QED BY <1>6, <2>1
<1> DEFINE start == AlignBackward(data, a, lo)
           known == IF data # <<>> THEN Larger(size, b) ELSE size
<1>8. BackwardResult(r, size, data) = Chunk(start, b, From(data, start - a), known, b >= known)
  BY <1>2, <1>4, <1>7 DEF BackwardResult
<1>9. start \in a..b /\ Edge(f, start)
  BY <1>3, <1>5, BackwardCut
<1> HIDE DEF start, known
<1>10. From(data, start - a) = Part(f, start, b)
  <2>1. start - a \in 0..(b - a) /\ a + (start - a) = start
    BY <1>6, <1>9
  <2> QED BY <1>1, <1>3, <1>6, <2>1, PartOfPart
<1>11. start =< b /\ (b >= known) \in BOOLEAN
  BY <1>6, <1>9
<1>12. Border(f, N, b)
  <2>1. CASE r.kind = "before"
    BY <1>1, <1>3, <2>1, Wider
  <2>2. CASE r.kind = "end" /\ b = size
    BY <2>2 DEF Border
  <2>3. CASE r.kind = "end" /\ b # size
    <3>1. b > size /\ top # size /\ ~r.follow
      BY <1>1, <1>3, <1>6, <2>3 DEF IsRequest
    <3>2. BackwardResult(r, size, data).end = b
      BY <1>8 DEF Chunk
    <3>3. PastSize(r, size, BackwardResult(r, size, data)) = {b}
      BY <3>1, <3>2 DEF PastSize
    <3> QED BY <1>5, <3>1, <3>3 DEF Border
  <2> QED BY <1>1, <2>1, <2>2, <2>3
<1>13. Border(f, N, start)
  BY <1>9 DEF Border
<1> QED BY <1>8, <1>10, <1>11, <1>12, <1>13, ChunkIsAnswer

\* Whatever the server answers to a request is the part of the file that it says, for any file
\* and chunk length, also where the file grew after its size was read (file_view.py:282,
\* rclone_connection.py:149). It lies between edges of characters, but for one that starts
\* where an earlier answer ended, and one that ends past the size that was seen (PastSize: the
\* reader of a local file reads beyond it, local_connection.py:316).
THEOREM AnswersAreTrue ==
    ASSUME NEW f, IsText(f), NEW M, NEW r, IsRequest(f, M, r), NEW size, IsSize(f, size),
           NEW top, top = size \/ top = Len(f), NEW data, IsRead(f, r, size, top, data),
           NEW N, M \subseteq N, top # size => PastSize(r, size, ChunkResult(r, size, data)) \subseteq N
    PROVE  IsAnswer(f, N, ChunkResult(r, size, data))
<1> DEFINE beyond == size # Unknown /\ r.kind # "end" /\ r.at > size
<1>1. ChunkResult(r, size, data) =
          IF RefusesStat(r, size) \/ (beyond /\ ~r.follow) THEN Failure(400)
          ELSE IF beyond \/ (~Backward(r) /\ size = r.at /\ data = <<>>) THEN Chunk(size, size, <<>>, size, TRUE)
          ELSE IF Backward(r) THEN BackwardResult(r, size, data)
          ELSE ForwardResult(r, size, data)
  BY DEF ChunkResult
<1>2. r.at \in Nat /\ Len(f) \in Nat /\ r.kind \in {"offset", "before", "end"}
  <2>1. Border(f, M, r.at) /\ r.kind \in {"offset", "before", "end"}
    BY DEF IsRequest
  <2> QED BY <2>1, BorderIs
<1>3. size # Unknown => Edge(f, size) /\ size \in Nat /\ size =< Len(f)
  <2>1. size # Unknown => Edge(f, size)
    BY DEF IsSize
  <2> QED BY <2>1, EdgeIs
<1>4. CASE RefusesStat(r, size) \/ (beyond /\ ~r.follow)
  <2>1. ChunkResult(r, size, data) = Failure(400)
    BY <1>1, <1>4, Zenon
  <2> QED BY <2>1, FailureIsAnswer
<1>5. CASE /\ ~(RefusesStat(r, size) \/ (beyond /\ ~r.follow))
           /\ beyond \/ (~Backward(r) /\ size = r.at /\ data = <<>>)
  <2>1. Edge(f, size) /\ size \in Nat
    <3>1. size # Unknown
      BY <1>2, <1>5 DEF Unknown
    <3> QED BY <1>3, <3>1
  <2>2. Part(f, size, size) = <<>> /\ size =< size /\ TRUE \in BOOLEAN
    BY <2>1, NoPart
  <2>3. Border(f, N, size)
    BY <2>1 DEF Border
  <2>4. IsAnswer(f, N, Chunk(size, size, <<>>, size, TRUE))
    BY <2>2, <2>3, ChunkIsAnswer
  <2> QED BY <1>1, <1>5, <2>4
<1>6. CASE /\ ~(RefusesStat(r, size) \/ (beyond /\ ~r.follow))
           /\ ~(beyond \/ (~Backward(r) /\ size = r.at /\ data = <<>>))
  <2>1. CASE Backward(r)
    <3>1. r.kind # "offset" /\ size # Unknown /\ (r.kind = "before" => r.at =< size)
      <4>1. r.kind # "offset" /\ size # Unknown /\ ~(r.kind = "before" /\ r.at > size)
        BY <1>6, <2>1 DEF RefusesStat, Backward
      <4> QED BY <1>2, <1>3, <4>1
    <3>2. ChunkResult(r, size, data) = BackwardResult(r, size, data)
      BY <1>1, <1>6, <2>1
    <3>3. Edge(f, size)
      BY <1>3, <3>1
    <3> QED BY <3>1, <3>2, <3>3, BackwardAnswer
  <2>2. CASE ~Backward(r)
    <3>1. r.kind = "offset" /\ (size # Unknown => r.at =< size)
      <4>1. r.kind = "offset" /\ ~beyond
        BY <1>6, <2>2 DEF Backward
      <4> QED BY <1>2, <1>3, <4>1
    <3>2. ChunkResult(r, size, data) = ForwardResult(r, size, data)
      BY <1>1, <1>6, <2>2
    <3> QED BY <3>1, <3>2, ForwardAnswer
  <2> QED BY <2>1, <2>2
<1> QED BY <1>4, <1>5, <1>6

-----------------------------------------------------------------------------
(* The window.                                                              *)

ChunkSet == [offset : Nat, end : Nat, text : Seq(Byte), bof : BOOLEAN, eof : BOOLEAN]
IsWindow(f, M, w) ==
    /\ w \in Seq(ChunkSet)
    /\ \A i \in 1..Len(w) : IsPiece(f, M, w[i])
    /\ \A i \in 2..Len(w) : w[i].offset = w[i - 1].end

LEMMA AnsweredChunk ==
    ASSUME NEW f, IsText(f), NEW M, NEW result, IsAnswer(f, M, result), result.status = 200
    PROVE  /\ ToChunk(result) \in ChunkSet /\ IsPiece(f, M, ToChunk(result))
           /\ ToChunk(result).offset = result.offset /\ ToChunk(result).end = result.end
           /\ Border(f, M, result.end) /\ result.end \in Nat /\ result.offset \in Nat
<1>1. IsPiece(f, M, result)
  BY DEF IsAnswer
<1>2. /\ Border(f, M, result.offset) /\ Border(f, M, result.end) /\ result.offset =< result.end
      /\ result.text = Part(f, result.offset, result.end)
      /\ result.bof \in BOOLEAN /\ result.eof \in BOOLEAN
  BY <1>1 DEF IsPiece
<1>3. result.offset \in 0..Len(f) /\ result.end \in result.offset..Len(f) /\ result.end \in Nat /\ result.offset \in Nat
  <2>1. result.offset \in Nat /\ result.end \in Nat /\ result.end =< Len(f) /\ result.offset =< Len(f) /\ Len(f) \in Nat
    BY <1>2, BorderIs
  <2> QED BY <1>2, <2>1
<1>4. result.text \in Seq(Byte)
  <2>1. f \in Seq(Byte)
    BY DEF IsText
  <2>2. PICK a \in 0..Len(f) : a = result.offset
    BY <1>3
  <2>3. PICK b \in a..Len(f) : b = result.end
    BY <1>3, <2>2
  <2>4. Part(f, a, b) \in Seq(Byte)
    BY <2>1, PartBytes
  <2> QED BY <1>2, <2>2, <2>3, <2>4
<1>5. PICK c : c = ToChunk(result)
  OBVIOUS
<1>6. /\ c = [offset |-> result.offset, end |-> result.end, text |-> result.text,
              bof |-> result.bof, eof |-> result.eof]
      /\ c.offset = result.offset /\ c.end = result.end /\ c.text = result.text
      /\ c.bof = result.bof /\ c.eof = result.eof
  BY <1>5 DEF ToChunk
<1>7. c \in ChunkSet
  BY <1>2, <1>3, <1>4, <1>6 DEF ChunkSet
<1>8. IsPiece(f, M, c)
  BY <1>2, <1>6 DEF IsPiece
<1> QED BY <1>2, <1>3, <1>5, <1>6, <1>7, <1>8

\* Any run of the chunks of a window is a window.
LEMMA WindowSlice ==
    ASSUME NEW f, NEW M, NEW w, IsWindow(f, M, w), NEW m \in 1..(Len(w) + 1), NEW n \in 0..Len(w)
    PROVE  IsWindow(f, M, SubSeq(w, m, n))
<1> DEFINE v == SubSeq(w, m, n)
<1>1. w \in Seq(ChunkSet) /\ Len(w) \in Nat /\ m \in Nat /\ n \in Nat
  BY DEF IsWindow
<1>2. \A i \in m..n : w[i] \in ChunkSet
  <2>1. \A i \in m..n : i \in 1..Len(w)
    BY <1>1
  <2> QED BY <1>1, <2>1, ElementOfSeq
<1>3. /\ v \in Seq(ChunkSet) /\ Len(v) = IF m =< n THEN n - m + 1 ELSE 0
      /\ \A i \in 1..(n - m + 1) : v[i] = w[m + i - 1]
  BY <1>1, <1>2, SubSeqProperties
<1> HIDE DEF v
<1>4. ASSUME NEW i \in 1..Len(v) PROVE m + i - 1 \in 1..Len(w) /\ v[i] = w[m + i - 1]
  <2>1. m =< n /\ i \in 1..(n - m + 1)
    BY <1>1, <1>3
  <2> QED BY <1>1, <1>3, <2>1
<1>5. \A i \in 1..Len(v) : IsPiece(f, M, v[i])
  BY <1>4 DEF IsWindow
<1>6. ASSUME NEW i \in 2..Len(v) PROVE v[i].offset = v[i - 1].end
  <2>1. i \in 1..Len(v) /\ i - 1 \in 1..Len(v) /\ m + (i - 1) - 1 = (m + i - 1) - 1
    BY <1>1, <1>3
  <2>2. v[i] = w[m + i - 1] /\ v[i - 1] = w[(m + i - 1) - 1] /\ m + i - 1 \in 1..Len(w) /\ (m + i - 1) - 1 \in 1..Len(w)
    BY <1>4, <2>1
  <2>3. m + i - 1 \in 2..Len(w)
    BY <1>1, <2>1, <2>2
  <2> QED BY <2>2, <2>3 DEF IsWindow
<1> QED BY <1>3, <1>5, <1>6 DEF IsWindow, v

LEMMA WindowTrimmed ==
    ASSUME NEW f, NEW M, NEW w, IsWindow(f, M, w)
    PROVE  IsWindow(f, M, Tops(w)) /\ IsWindow(f, M, Bottoms(w))
<1>1. Len(w) \in Nat
  BY DEF IsWindow
<1>2. /\ (IF Len(w) > MaxChunks THEN MaxChunks ELSE Len(w)) \in 0..Len(w)
      /\ (IF Len(w) > MaxChunks THEN Len(w) - MaxChunks + 1 ELSE 1) \in 1..(Len(w) + 1)
      /\ 1 \in 1..(Len(w) + 1) /\ Len(w) \in 0..Len(w)
  BY <1>1, ViewerConstants
<1>3. IsWindow(f, M, Tops(w))
  BY <1>2, WindowSlice DEF Tops
<1>4. IsWindow(f, M, Bottoms(w))
  BY <1>2, WindowSlice DEF Bottoms
<1> QED BY <1>3, <1>4

LEMMA Replaced ==
    ASSUME NEW f, IsText(f), NEW M, NEW result, IsAnswer(f, M, result), result.status = 200
    PROVE  IsWindow(f, M, ReplaceChunks(result))
<1>1. ToChunk(result) \in ChunkSet /\ IsPiece(f, M, ToChunk(result))
  BY AnsweredChunk
<1>2. PICK w : w = <<ToChunk(result)>>
  OBVIOUS
<1>3. w \in Seq(ChunkSet) /\ Len(w) = 1 /\ w[1] = ToChunk(result)
  BY <1>1, <1>2
<1>4. (\A i \in 1..Len(w) : IsPiece(f, M, w[i])) /\ \A i \in 2..Len(w) : w[i].offset = w[i - 1].end
  BY <1>1, <1>3
<1> QED BY <1>2, <1>3, <1>4 DEF IsWindow, ReplaceChunks

LEMMA Appended ==
    ASSUME NEW f, IsText(f), NEW M, NEW w, IsWindow(f, M, w), NEW result, IsAnswer(f, M, result), result.status = 200
    PROVE  IsWindow(f, M, AppendChunk(w, result))
<1>1. CASE w = <<>> \/ result.offset # LastOf(w).end
  BY <1>1 DEF AppendChunk
<1>2. CASE ~(w = <<>> \/ result.offset # LastOf(w).end)
  <2>1. PICK c \in ChunkSet : c = ToChunk(result) /\ IsPiece(f, M, c) /\ c.offset = result.offset
    BY AnsweredChunk
  <2>2. PICK v : v = Append(w, c)
    OBVIOUS
  <2>3. w \in Seq(ChunkSet) /\ Len(w) \in Nat /\ Len(w) # 0
    BY <1>2 DEF IsWindow
  <2>4. /\ v \in Seq(ChunkSet) /\ Len(v) = Len(w) + 1 /\ v[Len(w) + 1] = c
        /\ \A i \in 1..Len(w) : v[i] = w[i]
    BY <2>2, <2>3, AppendProperties
  <2>5. ASSUME NEW i \in 1..Len(v) PROVE IsPiece(f, M, v[i])
    <3>1. i \in 1..Len(w) \/ i = Len(w) + 1
      BY <2>3, <2>4
    <3> QED BY <2>1, <2>4, <3>1 DEF IsWindow
  <2>6. ASSUME NEW i \in 2..Len(v) PROVE v[i].offset = v[i - 1].end
    <3>1. CASE i \in 2..Len(w)
      <4>1. i \in 1..Len(w) /\ i - 1 \in 1..Len(w)
        BY <2>3, <3>1
      <4> QED BY <2>4, <3>1, <4>1 DEF IsWindow
    <3>2. CASE i = Len(w) + 1
      <4>1. i - 1 = Len(w) /\ Len(w) \in 1..Len(w)
        BY <2>3, <3>2
      <4>2. v[i] = c /\ v[i - 1] = w[Len(w)]
        BY <2>4, <3>2, <4>1
      <4>3. c.offset = w[Len(w)].end
        BY <1>2, <2>1 DEF LastOf
      <4> QED BY <4>2, <4>3
    <3>3. i \in 2..Len(w) \/ i = Len(w) + 1
      BY <2>3, <2>4
    <3> QED BY <3>1, <3>2, <3>3
  <2>7. IsWindow(f, M, v)
    BY <2>4, <2>5, <2>6 DEF IsWindow
  <2>8. AppendChunk(w, result) = Bottoms(v)
    BY <1>2, <2>1, <2>2 DEF AppendChunk
  <2> QED BY <2>7, <2>8, WindowTrimmed
<1> QED BY <1>1, <1>2

LEMMA Prepended ==
    ASSUME NEW f, IsText(f), NEW M, NEW w, IsWindow(f, M, w), NEW result, IsAnswer(f, M, result), result.status = 200
    PROVE  IsWindow(f, M, PrependChunk(w, result))
<1>1. CASE w = <<>> \/ result.end # w[1].offset
  BY <1>1 DEF PrependChunk
<1>2. CASE ~(w = <<>> \/ result.end # w[1].offset)
  <2>1. PICK c \in ChunkSet : c = ToChunk(result) /\ IsPiece(f, M, c) /\ c.end = result.end
    BY AnsweredChunk
  <2>2. PICK v : v = <<c>> \o w
    OBVIOUS
  <2>3. w \in Seq(ChunkSet) /\ Len(w) \in Nat /\ Len(w) # 0
    BY <1>2 DEF IsWindow
  <2>4. /\ v \in Seq(ChunkSet) /\ Len(v) = Len(w) + 1 /\ v[1] = c
        /\ \A i \in 2..(Len(w) + 1) : v[i] = w[i - 1]
    <3>0. PICK u : u = <<c>>
      OBVIOUS
    <3>1. u \in Seq(ChunkSet) /\ u = <<c>> /\ Len(u) = 1 /\ u[1] = c
      BY <3>0
    <3>2. /\ v \in Seq(ChunkSet) /\ Len(v) = 1 + Len(w)
          /\ \A i \in 1..(1 + Len(w)) : v[i] = IF i =< 1 THEN u[i] ELSE w[i - 1]
      BY <2>2, <2>3, <3>1, ConcatProperties
    <3> QED BY <2>3, <3>1, <3>2
  <2>5. ASSUME NEW i \in 1..Len(v) PROVE IsPiece(f, M, v[i])
    <3>1. CASE i = 1
      BY <2>1, <2>4, <3>1
    <3>2. CASE i # 1
      <4>1. i \in 2..(Len(w) + 1) /\ i - 1 \in 1..Len(w)
        BY <2>3, <2>4, <3>2
      <4> QED BY <2>4, <4>1 DEF IsWindow
    <3> QED BY <3>1, <3>2
  <2>6. ASSUME NEW i \in 2..Len(v) PROVE v[i].offset = v[i - 1].end
    <3>1. i \in 2..(Len(w) + 1) /\ i - 1 \in 1..Len(w) /\ v[i] = w[i - 1]
      BY <2>3, <2>4
    <3>2. CASE i = 2
      BY <1>2, <2>1, <2>4, <3>1, <3>2
    <3>3. CASE i # 2
      <4>1. i - 1 \in 2..(Len(w) + 1) /\ i - 1 \in 2..Len(w)
        BY <2>3, <3>1, <3>3
      <4> QED BY <2>4, <3>1, <4>1 DEF IsWindow
    <3> QED BY <3>2, <3>3
  <2>7. IsWindow(f, M, v)
    BY <2>4, <2>5, <2>6 DEF IsWindow
  <2>8. PrependChunk(w, result) = Tops(v)
    BY <1>2, <2>1, <2>2 DEF PrependChunk
  <2> QED BY <2>7, <2>8, WindowTrimmed
<1> QED BY <1>1, <1>2

LEMMA Followed ==
    ASSUME NEW f, IsText(f), NEW M, NEW w, IsWindow(f, M, w), NEW result, IsAnswer(f, M, result), result.status = 200
    PROVE  IsWindow(f, M, AppendFollowChunk(w, result))
<1> DEFINE last == LastOf(w)
<1>1. CASE w = <<>> \/ result.offset # last.end \/ result.end =< result.offset
  BY <1>1 DEF AppendFollowChunk
<1>2. CASE /\ ~(w = <<>> \/ result.offset # last.end \/ result.end =< result.offset)
           /\ (last.end - last.offset) + (result.end - result.offset) =< MergeBytes
  <2>1. PICK n : n = Len(w) /\ w \in Seq(ChunkSet) /\ n \in Nat /\ n # 0 /\ n \in 1..Len(w) /\ DOMAIN w = 1..n
    BY <1>2 DEF IsWindow
  <2>2. PICK c \in ChunkSet : c = w[n] /\ IsPiece(f, M, c) /\ c.end = result.offset
    BY <1>2, <2>1, ElementOfSeq DEF IsWindow, LastOf
  <2>3. PICK d \in ChunkSet : /\ IsPiece(f, M, d) /\ d.offset = result.offset /\ d.end = result.end
                              /\ d.text = result.text /\ d.eof = result.eof
    <3>1. ToChunk(result) \in ChunkSet /\ IsPiece(f, M, ToChunk(result))
      BY AnsweredChunk
    <3>2. /\ ToChunk(result).offset = result.offset /\ ToChunk(result).end = result.end
          /\ ToChunk(result).text = result.text /\ ToChunk(result).eof = result.eof
      BY DEF ToChunk
    <3> QED BY <3>1, <3>2, Zenon
  <2>4. PICK e : e = [c EXCEPT !.end = result.end, !.text = c.text \o result.text, !.eof = result.eof]
    OBVIOUS
  <2>5. /\ e.offset = c.offset /\ e.end = d.end /\ e.text = c.text \o d.text /\ e.bof = c.bof /\ e.eof = d.eof
        /\ c.end \in Nat /\ c.offset \in Nat
    BY <2>2, <2>3, <2>4 DEF ChunkSet
  <2>6. e \in ChunkSet
    <3>1. c.text \o d.text \in Seq(Byte)
      <4>1. c.text \in Seq(Byte) /\ d.text \in Seq(Byte)
        BY <2>2, <2>3 DEF ChunkSet
      <4> QED BY <4>1, ConcatProperties
    <3> QED BY <2>2, <2>3, <2>4, <3>1 DEF ChunkSet
  <2>7. IsPiece(f, M, e)
    <3>1. /\ Border(f, M, c.offset) /\ Border(f, M, c.end) /\ Border(f, M, d.end) /\ c.offset =< c.end /\ c.end =< d.end
          /\ c.text = Part(f, c.offset, c.end) /\ d.text = Part(f, c.end, d.end)
          /\ c.bof \in BOOLEAN /\ d.eof \in BOOLEAN
      BY <2>2, <2>3 DEF IsPiece
    <3>2. c.offset \in 0..Len(f) /\ c.end \in c.offset..Len(f) /\ d.end \in c.end..Len(f) /\ c.offset =< d.end
      <4>1. /\ c.offset \in Nat /\ c.end \in Nat /\ d.end \in Nat /\ Len(f) \in Nat
            /\ c.offset =< Len(f) /\ c.end =< Len(f) /\ d.end =< Len(f)
        BY <3>1, BorderIs
      <4> QED BY <3>1, <4>1
    <3>3. Part(f, c.offset, c.end) \o Part(f, c.end, d.end) = Part(f, c.offset, d.end)
      <4>1. f \in Seq(Byte)
        BY DEF IsText
      <4>2. PICK x \in 0..Len(f) : x = c.offset
        BY <3>2
      <4>3. PICK y \in x..Len(f) : y = c.end
        BY <3>2, <4>2
      <4>4. PICK z \in y..Len(f) : z = d.end
        BY <3>2, <4>3
      <4>5. Part(f, x, y) \o Part(f, y, z) = Part(f, x, z)
        BY <4>1, AdjacentParts
      <4> QED BY <4>2, <4>3, <4>4, <4>5
    <3> QED BY <2>5, <3>1, <3>2, <3>3 DEF IsPiece
  <2>8. PICK v : v = [w EXCEPT ![n] = e]
    OBVIOUS
  <2>9. AppendFollowChunk(w, result) = v
    <3>1. AppendFollowChunk(w, result) =
              [w EXCEPT ![Len(w)] = [LastOf(w) EXCEPT !.end = result.end,
                                                      !.text = LastOf(w).text \o result.text, !.eof = result.eof]]
      BY <1>2, Zenon DEF AppendFollowChunk
    <3>2. LastOf(w) = c
      BY <2>1, <2>2 DEF LastOf
    <3> QED BY <2>1, <2>4, <2>8, <3>1, <3>2
  <2>10. v \in Seq(ChunkSet) /\ Len(v) = n /\ \A i \in 1..n : v[i] = IF i = n THEN e ELSE w[i]
    BY <2>1, <2>6, <2>8, ExceptSeq
  <2>11. \A i \in 1..Len(v) : IsPiece(f, M, v[i])
    BY <2>1, <2>7, <2>10 DEF IsWindow
  <2>12. ASSUME NEW i \in 2..Len(v) PROVE v[i].offset = v[i - 1].end
    <3>1. i \in 1..n /\ i - 1 \in 1..n /\ i - 1 # n /\ w[i].offset = w[i - 1].end
      BY <2>1, <2>10 DEF IsWindow
    <3>2. v[i].offset = w[i].offset
      BY <2>2, <2>5, <2>10, <3>1
    <3> QED BY <2>10, <3>1, <3>2
  <2> QED BY <2>9, <2>10, <2>11, <2>12 DEF IsWindow
<1>3. CASE /\ ~(w = <<>> \/ result.offset # last.end \/ result.end =< result.offset)
           /\ ~((last.end - last.offset) + (result.end - result.offset) =< MergeBytes)
  <2>1. AppendFollowChunk(w, result) = AppendChunk(w, result)
    BY <1>3 DEF AppendFollowChunk
  <2> QED BY <2>1, Appended
<1> QED BY <1>1, <1>2, <1>3

-----------------------------------------------------------------------------
(* The requests that wait.                                                  *)

RequestSet == [kind : {"offset", "before", "end"}, at : Nat, follow : BOOLEAN]
AskSet == [for : {"load", "tail", "poll"}, request : RequestSet,
           kind : {"first", "next", "prev", "jump", "none"}, then : {"none", "start", "reload"},
           fresh : BOOLEAN, ours : BOOLEAN]
IsAsk(f, M, ask) ==
    /\ ask \in AskSet /\ IsRequest(f, M, ask.request)
    /\ ask.for = "load" => ask.kind # "none"
IsQueue(f, M, q) == q \in Seq(AskSet) /\ \A i \in 1..Len(q) : IsAsk(f, M, q[i])

LEMMA RequestsAre ==
    ASSUME NEW f, IsText(f), NEW M, NEW at, Border(f, M, at)
    PROVE  /\ IsRequest(f, M, Forward(at)) /\ IsRequest(f, M, FollowFrom(at)) /\ IsRequest(f, M, Before(at))
           /\ IsRequest(f, M, FromEnd)
<1>1. at \in Nat /\ Border(f, M, 0)
  BY BorderIs, Ends DEF Border
<1> QED BY <1>1 DEF IsRequest, Forward, FollowFrom, Before, FromEnd

LEMMA AskIs ==
    ASSUME NEW f, NEW M, NEW for \in {"load", "tail", "poll"}, NEW request, IsRequest(f, M, request),
           NEW kind \in {"first", "next", "prev", "jump", "none"}, NEW then \in {"none", "start", "reload"},
           for = "load" => kind # "none"
    PROVE  IsAsk(f, M, Ask(for, request, kind, then))
<1>1. request \in RequestSet
  BY DEF IsRequest, RequestSet
<1> QED BY <1>1 DEF IsAsk, Ask, AskSet

LEMMA QueueAppend ==
    ASSUME NEW f, NEW M, NEW q, IsQueue(f, M, q), NEW ask, IsAsk(f, M, ask)
    PROVE  IsQueue(f, M, Append(q, ask))
<1>1. q \in Seq(AskSet) /\ ask \in AskSet /\ Len(q) \in Nat
  BY DEF IsQueue, IsAsk
<1>2. PICK v : v = Append(q, ask)
  OBVIOUS
<1>3. /\ v \in Seq(AskSet) /\ Len(v) = Len(q) + 1 /\ v[Len(q) + 1] = ask
      /\ \A i \in 1..Len(q) : v[i] = q[i]
  BY <1>1, <1>2, AppendProperties
<1>4. ASSUME NEW i \in 1..Len(v) PROVE IsAsk(f, M, v[i])
  <2>1. i \in 1..Len(q) \/ i = Len(q) + 1
    BY <1>1, <1>3
  <2> QED BY <1>3, <2>1 DEF IsQueue
<1> QED BY <1>2, <1>3, <1>4 DEF IsQueue

LEMMA QueueTail ==
    ASSUME NEW f, NEW M, NEW q, IsQueue(f, M, q), q # <<>>
    PROVE  IsQueue(f, M, Tail(q)) /\ IsAsk(f, M, Head(q))
<1>1. q \in Seq(AskSet) /\ Len(q) \in Nat /\ Len(q) # 0
  BY DEF IsQueue
<1>2. PICK v : v = Tail(q)
  OBVIOUS
<1>3. v \in Seq(AskSet) /\ Len(v) = Len(q) - 1 /\ \A i \in 1..Len(v) : v[i] = q[i + 1]
  BY <1>1, <1>2, HeadTailProperties
<1>4. ASSUME NEW i \in 1..Len(v) PROVE IsAsk(f, M, v[i])
  <2>1. i + 1 \in 1..Len(q)
    BY <1>1, <1>3
  <2> QED BY <1>3, <2>1 DEF IsQueue
<1>5. Head(q) = q[1] /\ 1 \in 1..Len(q)
  BY <1>1
<1> QED BY <1>2, <1>3, <1>4, <1>5 DEF IsQueue

LEMMA QueueMarked ==
    ASSUME NEW f, NEW M, NEW q, IsQueue(f, M, q)
    PROVE  IsQueue(f, M, Older(q)) /\ IsQueue(f, M, Disowned(q))
<1>1. q \in Seq(AskSet) /\ Len(q) \in Nat /\ DOMAIN q = 1..Len(q) /\ \A i \in 1..Len(q) : IsAsk(f, M, q[i])
  BY DEF IsQueue
<1>2. ASSUME NEW ask, IsAsk(f, M, ask)
      PROVE  IsAsk(f, M, [ask EXCEPT !.fresh = FALSE]) /\ IsAsk(f, M, [ask EXCEPT !.ours = FALSE])
  <2>1. PICK a : a = [ask EXCEPT !.fresh = FALSE]
    OBVIOUS
  <2>2. PICK b : b = [ask EXCEPT !.ours = FALSE]
    OBVIOUS
  <2>3. ask \in AskSet
    BY <1>2 DEF IsAsk
  <2>4. a \in AskSet /\ a.request = ask.request /\ a.for = ask.for /\ a.kind = ask.kind
    BY <2>1, <2>3 DEF AskSet
  <2>5. b \in AskSet /\ b.request = ask.request /\ b.for = ask.for /\ b.kind = ask.kind
    BY <2>2, <2>3 DEF AskSet
  <2>6. IsAsk(f, M, a) /\ IsAsk(f, M, b)
    BY <1>2, <2>4, <2>5 DEF IsAsk
  <2> QED BY <2>1, <2>2, <2>6
<1>3. IsQueue(f, M, Older(q))
  <2>1. PICK v : v = Older(q)
    OBVIOUS
  <2>2. v = [i \in 1..Len(q) |-> [q[i] EXCEPT !.fresh = FALSE]]
    BY <1>1, <2>1 DEF Older
  <2>3. DOMAIN v = 1..Len(q) /\ \A i \in 1..Len(q) : IsAsk(f, M, v[i]) /\ v[i] \in AskSet
    BY <1>1, <1>2, <2>2 DEF IsAsk
  <2>4. v \in Seq(AskSet) /\ Len(v) = Len(q)
    BY <1>1, <2>2, <2>3
  <2> QED BY <2>1, <2>3, <2>4 DEF IsQueue
<1>4. IsQueue(f, M, Disowned(q))
  <2>1. PICK v : v = Disowned(q)
    OBVIOUS
  <2>2. v = [i \in 1..Len(q) |-> [q[i] EXCEPT !.ours = FALSE]]
    BY <1>1, <2>1 DEF Disowned
  <2>3. DOMAIN v = 1..Len(q) /\ \A i \in 1..Len(q) : IsAsk(f, M, v[i]) /\ v[i] \in AskSet
    BY <1>1, <1>2, <2>2 DEF IsAsk
  <2>4. v \in Seq(AskSet) /\ Len(v) = Len(q)
    BY <1>1, <2>2, <2>3
  <2> QED BY <2>1, <2>3, <2>4 DEF IsQueue
<1> QED BY <1>3, <1>4

-----------------------------------------------------------------------------
(* The invariant: as long as the file is only appended to, its chunks, the  *)
(* requests for more of it and the end that is followed are at borders.     *)

Aligned(f, M) ==
    /\ IsText(f)
    /\ IsWindow(f, M, chunks)
    /\ followEnd = None \/ Border(f, M, followEnd)
    /\ IsQueue(f, M, queue)
    /\ seen = NotSeen \/ IsSize(f, seen)
    /\ store = "local" => seen # Unknown
ViewInv ==
    /\ changes \in {"appended", "truncated", "deleted"} /\ written \in Nat \ {0}
    /\ changes = "appended" => Aligned(file, outgrown)

\* What was true of the file is true of the longer one.
LEMMA BordersStay ==
    ASSUME NEW f, IsText(f), NEW M, NEW g, IsText(g), NEW p, Border(f, M, p)
    PROVE  Border(f \o g, M, p)
<1>1. CASE Edge(f, p)
  BY <1>1, Joined DEF Border
<1>2. CASE p \in M /\ p \in 0..Len(f)
  <2>1. Len(f) \in Nat /\ Len(g) \in Nat /\ Len(f \o g) = Len(f) + Len(g)
    BY BytesOf, JoinedBytes
  <2>2. p \in 0..Len(f \o g)
    BY <1>2, <2>1
  <2> QED BY <1>2, <2>2 DEF Border
<1> QED BY <1>1, <1>2 DEF Border

LEMMA Grows ==
    ASSUME NEW f, IsText(f), NEW M, NEW g, IsText(g)
    PROVE  /\ \A w : IsWindow(f, M, w) => IsWindow(f \o g, M, w)
           /\ \A q : IsQueue(f, M, q) => IsQueue(f \o g, M, q)
           /\ \A size : IsSize(f, size) => IsSize(f \o g, size)
<1>1. ASSUME NEW c, IsPiece(f, M, c) PROVE IsPiece(f \o g, M, c)
  <2>1. Border(f, M, c.offset) /\ Border(f, M, c.end) /\ c.offset =< c.end
    BY <1>1 DEF IsPiece
  <2>2. Border(f \o g, M, c.offset) /\ Border(f \o g, M, c.end)
    BY <2>1, BordersStay
  <2>3. PICK a \in 0..Len(f) : a = c.offset
    BY <2>1, BorderIs
  <2>4. PICK b \in a..Len(f) : b = c.end
    <3>1. c.end \in Nat /\ c.end =< Len(f) /\ c.offset \in Nat /\ Len(f) \in Nat
      BY <2>1, BorderIs
    <3> QED BY <2>1, <2>3, <3>1
  <2>5. Part(f \o g, a, b) = Part(f, a, b)
    BY PartOfJoined
  <2> QED BY <1>1, <2>2, <2>3, <2>4, <2>5 DEF IsPiece
<1>2. ASSUME NEW w, IsWindow(f, M, w) PROVE IsWindow(f \o g, M, w)
  BY <1>1, <1>2 DEF IsWindow
<1>3. ASSUME NEW q, IsQueue(f, M, q) PROVE IsQueue(f \o g, M, q)
  <2>1. \A r : IsRequest(f, M, r) => IsRequest(f \o g, M, r)
    BY BordersStay DEF IsRequest
  <2>2. \A ask : IsAsk(f, M, ask) => IsAsk(f \o g, M, ask)
    BY <2>1 DEF IsAsk
  <2> QED BY <1>3, <2>2 DEF IsQueue
<1>4. ASSUME NEW size, IsSize(f, size) PROVE IsSize(f \o g, size)
  BY <1>4, Joined DEF IsSize
<1> QED BY <1>2, <1>3, <1>4

\* What is true with some ends of answers is true with more of them.
LEMMA Widens ==
    ASSUME NEW f, NEW M, NEW N, M \subseteq N
    PROVE  /\ \A w : IsWindow(f, M, w) => IsWindow(f, N, w)
           /\ \A q : IsQueue(f, M, q) => IsQueue(f, N, q)
<1>1. \A p : Border(f, M, p) => Border(f, N, p)
  BY Wider
<1>2. \A c : IsPiece(f, M, c) => IsPiece(f, N, c)
  BY <1>1 DEF IsPiece
<1>3. \A ask : IsAsk(f, M, ask) => IsAsk(f, N, ask)
  BY <1>1 DEF IsAsk, IsRequest
<1> QED BY <1>2, <1>3 DEF IsWindow, IsQueue

LEMMA PieceIsText == ASSUME NEW i \in 1..Len(Pieces) PROVE IsText(Pieces[i])
<1>1. Pieces \in Seq(Seq(Byte)) /\ DOMAIN Pieces = 1..Len(Pieces)
  BY ViewerAssumption DEF Byte
<1> QED BY <1>1, ViewerAssumption, ElementOfSeq DEF IsText

LEMMA ViewInitInv == ViewInit => ViewInv
<1> SUFFICES ASSUME ViewInit PROVE ViewInv
  OBVIOUS
<1>1. IsText(file)
  <2>1. 1 \in 1..Len(Pieces)
    BY ViewerAssumption
  <2> QED BY <2>1, PieceIsText DEF ViewInit
<1>2. IsWindow(file, outgrown, chunks) /\ IsQueue(file, outgrown, queue)
  BY DEF ViewInit, IsWindow, IsQueue
<1> QED BY <1>1, <1>2 DEF ViewInit, ViewInv, Aligned, NotSeen, Unknown

-----------------------------------------------------------------------------
(* Answers change the window and the queue.                                 *)

LEMMA ReloadsTail ==
    ASSUME IsText(file), NEW M, NEW rest, IsQueue(file, M, rest), ReloadTail(rest)
    PROVE  IsQueue(file, M, queue') /\ chunks' = chunks
<1>1. IsRequest(file, M, FromEnd)
  <2>1. Border(file, M, 0)
    BY Ends DEF Border
  <2> QED BY <2>1, RequestsAre
<1>2. IsAsk(file, M, Ask("tail", FromEnd, "jump", "reload")) /\ IsAsk(file, M, Ask("load", FromEnd, "jump", "reload"))
  BY <1>1, AskIs
<1>3. IsQueue(file, M, Older(rest))
  BY QueueMarked
<1>4. CASE paused
  BY <1>2, <1>4, QueueAppend DEF ReloadTail, Enqueue, windowVars
<1>5. CASE ~paused
  BY <1>2, <1>3, <1>5, QueueAppend DEF ReloadTail, Enqueue
<1> QED BY <1>4, <1>5

LEMMA ContinuesWith ==
    ASSUME IsText(file), NEW M, IsQueue(file, M, queue), queue # <<>>, NEW q, NEW got, Continues(q, got)
    PROVE  IsQueue(file, M, queue')
<1>1. IsQueue(file, M, Tail(queue))
  BY QueueTail
<1>2. IsQueue(file, M, Disowned(Tail(queue)))
  BY <1>1, QueueMarked
<1> QED BY <1>1, <1>2 DEF Continues

Follows(M) ==
    /\ IsWindow(file, M, chunks) /\ IsQueue(file, M, queue) /\ queue # <<>>
    /\ followEnd = None \/ Border(file, M, followEnd)

LEMMA LoadKeeps ==
    ASSUME IsText(file), NEW M, Follows(M), NEW result, IsAnswer(file, M, result), Head(queue).for = "load",
           LoadAnswered(Head(queue), result)
    PROVE  IsQueue(file, M, queue') /\ IsWindow(file, M, chunks') /\ (followEnd' = None \/ Border(file, M, followEnd'))
<1> DEFINE q == Head(queue)
           got == q.fresh /\ result.status = 200
<1>1. /\ IsWindow(file, M, chunks) /\ IsQueue(file, M, queue) /\ queue # <<>>
      /\ followEnd = None \/ Border(file, M, followEnd)
  BY DEF Follows
<1>2. IsAsk(file, M, q)
  BY <1>1, QueueTail
<1>3. q.kind \in {"first", "next", "prev", "jump"}
  BY <1>2 DEF IsAsk, AskSet
<1>4. IsQueue(file, M, queue')
  BY <1>1, ContinuesWith DEF LoadAnswered
<1>5. got => /\ Border(file, M, result.end) /\ IsWindow(file, M, ReplaceChunks(result))
             /\ IsWindow(file, M, AppendChunk(chunks, result)) /\ IsWindow(file, M, PrependChunk(chunks, result))
  BY <1>1, AnsweredChunk, Replaced, Appended, Prepended
<1>6. followEnd' = None \/ Border(file, M, followEnd')
  BY <1>1, <1>5 DEF LoadAnswered
<1>7. chunks' = IF ~got THEN chunks
                ELSE CASE q.kind \in {"first", "jump"} -> ReplaceChunks(result)
                       [] q.kind = "next" -> AppendChunk(chunks, result)
                       [] q.kind = "prev" -> PrependChunk(chunks, result)
  BY DEF LoadAnswered
<1> HIDE DEF got, q
<1>8. IsWindow(file, M, chunks')
  <2>1. CASE ~got
    BY <1>1, <1>7, <2>1
  <2>2. CASE got /\ q.kind \in {"first", "jump"}
    BY <1>5, <1>7, <2>2
  <2>3. CASE got /\ q.kind = "next"
    BY <1>5, <1>7, <2>3
  <2>4. CASE got /\ q.kind = "prev"
    BY <1>5, <1>7, <2>4
  <2> QED BY <1>3, <2>1, <2>2, <2>3, <2>4
<1> QED BY <1>4, <1>6, <1>8

LEMMA TailKeeps ==
    ASSUME IsText(file), NEW M, Follows(M), NEW result, IsAnswer(file, M, result), TailAnswered(Head(queue), result)
    PROVE  IsQueue(file, M, queue') /\ IsWindow(file, M, chunks') /\ (followEnd' = None \/ Border(file, M, followEnd'))
<1>1. /\ IsWindow(file, M, chunks) /\ IsQueue(file, M, queue) /\ queue # <<>>
      /\ followEnd = None \/ Border(file, M, followEnd)
  BY DEF Follows
<1>2. IsQueue(file, M, queue')
  BY <1>1, ContinuesWith DEF TailAnswered
<1>3. result.status = 200 => Border(file, M, result.end)
  BY <1>1, AnsweredChunk
<1>4. chunks' = chunks
  BY DEF TailAnswered, windowVars
<1> QED BY <1>1, <1>2, <1>3, <1>4 DEF TailAnswered

LEMMA PollKeeps ==
    ASSUME IsText(file), NEW M, Follows(M), NEW result, IsAnswer(file, M, result), PollAnswered(Head(queue), result)
    PROVE  IsQueue(file, M, queue') /\ IsWindow(file, M, chunks') /\ (followEnd' = None \/ Border(file, M, followEnd'))
<1> DEFINE q == Head(queue)
<1>1. /\ IsWindow(file, M, chunks) /\ IsQueue(file, M, queue) /\ queue # <<>>
      /\ followEnd = None \/ Border(file, M, followEnd)
  BY DEF Follows
<1>2. IsQueue(file, M, Tail(queue))
  BY <1>1, QueueTail
<1>3. IsQueue(file, M, Disowned(Tail(queue)))
  BY <1>2, QueueMarked
<1>4. CASE ~following \/ ~q.ours
  BY <1>1, <1>2, <1>4 DEF PollAnswered, followVars, windowVars
<1>5. CASE PollAgain
  BY <1>1, <1>2, <1>5 DEF PollAgain, windowVars
<1>6. CASE StopFollowing /\ UNCHANGED windowVars /\ queue' = Disowned(Tail(queue))
  BY <1>1, <1>3, <1>6 DEF StopFollowing, windowVars
<1>7. CASE ReloadTail(Tail(queue)) /\ UNCHANGED followVars
  <2>1. IsQueue(file, M, queue') /\ chunks' = chunks
    BY <1>1, <1>2, <1>7, ReloadsTail
  <2> QED BY <1>1, <1>7, <2>1 DEF followVars
<1>8. CASE /\ result.status \notin {400, 404} /\ ~(result.status # 200)
           /\ followEnd' = result.end
           /\ IF ~WindowAtFollowEnd /\ ~paused
              THEN ReloadTail(Tail(queue)) /\ UNCHANGED timer
              ELSE /\ chunks' = IF WindowAtFollowEnd THEN AppendFollowChunk(chunks, result) ELSE chunks
                   /\ SchedulePoll
                   /\ queue' = Tail(queue)
                   /\ UNCHANGED <<loading, failed>>
  <2>1. Border(file, M, result.end) /\ IsWindow(file, M, AppendFollowChunk(chunks, result))
    BY <1>1, <1>8, AnsweredChunk, Followed
  <2>2. CASE ~WindowAtFollowEnd /\ ~paused
    <3>1. IsQueue(file, M, queue') /\ chunks' = chunks
      BY <1>1, <1>2, <1>8, <2>2, ReloadsTail
    <3> QED BY <1>1, <1>8, <2>1, <3>1
  <2>3. CASE ~(~WindowAtFollowEnd /\ ~paused)
    <3>1. queue' = Tail(queue) /\ chunks' = IF WindowAtFollowEnd THEN AppendFollowChunk(chunks, result) ELSE chunks
      BY <1>8, <2>3
    <3>2. IsWindow(file, M, chunks')
      <4>1. CASE WindowAtFollowEnd
        BY <2>1, <3>1, <4>1
      <4>2. CASE ~WindowAtFollowEnd
        BY <1>1, <3>1, <4>2
      <4> QED BY <4>1, <4>2
    <3> QED BY <1>2, <1>8, <2>1, <3>1, <3>2
  <2> QED BY <2>2, <2>3
<1> DEFINE stale == ~q.fresh \/ q.request.at # followEnd
<1>9. CASE (following /\ q.ours) /\ stale
  <2>1. PollAgain
    BY <1>9, Zenon DEF PollAnswered, Overtaken
  <2> QED BY <1>5, <2>1
<1>10. CASE (following /\ q.ours) /\ ~stale /\ result.status \in {400, 404}
  <2>1. StopFollowing /\ UNCHANGED windowVars /\ queue' = Disowned(Tail(queue))
    BY <1>10, Zenon DEF PollAnswered
  <2> QED BY <1>6, <2>1
<1>11. CASE (following /\ q.ours) /\ ~stale /\ result.status \notin {400, 404} /\ result.status # 200
  <2>1. PollAgain
    BY <1>11, Zenon DEF PollAnswered
  <2> QED BY <1>5, <2>1
<1>12. CASE (following /\ q.ours) /\ ~stale /\ result.status \notin {400, 404} /\ ~(result.status # 200)
  <2>1. CASE Truncated(result)
    <3>1. ReloadTail(Tail(queue)) /\ UNCHANGED followVars
      BY <1>12, <2>1, Zenon DEF PollAnswered
    <3> QED BY <1>7, <3>1
  <2>2. CASE ~Truncated(result) /\ ~News(result)
    <3>1. PollAgain
      BY <1>12, <2>2, Zenon DEF PollAnswered
    <3> QED BY <1>5, <3>1
  <2>3. CASE ~Truncated(result) /\ News(result) /\ FarBehind(result)
    <3>1. ReloadTail(Tail(queue)) /\ UNCHANGED followVars
      BY <1>12, <2>3, Zenon DEF PollAnswered
    <3> QED BY <1>7, <3>1
  <2>4. CASE ~Truncated(result) /\ News(result) /\ ~FarBehind(result)
    <3>1. /\ followEnd' = result.end
          /\ IF ~WindowAtFollowEnd /\ ~paused
             THEN ReloadTail(Tail(queue)) /\ UNCHANGED timer
             ELSE /\ chunks' = IF WindowAtFollowEnd THEN AppendFollowChunk(chunks, result) ELSE chunks
                  /\ SchedulePoll
                  /\ queue' = Tail(queue)
                  /\ UNCHANGED <<loading, failed>>
      BY <1>12, <2>4, Zenon DEF PollAnswered
    <3> QED BY <1>8, <1>12, <3>1
  <2> QED BY <2>1, <2>2, <2>3, <2>4
<1> QED BY <1>4, <1>9, <1>10, <1>11, <1>12

LEMMA AnsweredKeeps ==
    ASSUME Aligned(file, outgrown), queue # <<>>, outgrown \subseteq outgrown',
           NEW result, IsAnswer(file, outgrown', result), Answered(result)
    PROVE  Aligned(file, outgrown)' /\ UNCHANGED fileVars
<1>1. Follows(outgrown')
  BY Widens, Wider DEF Aligned, Follows
<1>2. IsText(file)
  BY DEF Aligned
<1>3. /\ IsQueue(file, outgrown', queue') /\ IsWindow(file, outgrown', chunks')
      /\ followEnd' = None \/ Border(file, outgrown', followEnd')
  BY <1>1, <1>2, LoadKeeps, TailKeeps, PollKeeps DEF Answered
<1>4. file' = file /\ seen' = NotSeen /\ UNCHANGED fileVars
  BY DEF Answered, fileVars
<1> QED BY <1>2, <1>3, <1>4 DEF Aligned, NotSeen, Unknown

-----------------------------------------------------------------------------
(* The steps.                                                               *)

\* The server reads what is there, or fails.
LEMMA ServerKeeps ==
    ASSUME Aligned(file, outgrown), changes = "appended", ServerStep
    PROVE  Aligned(file, outgrown)' /\ UNCHANGED fileVars
<1>1. /\ IsText(file) /\ IsQueue(file, outgrown, queue) /\ Edge(file, Len(file))
      /\ seen = NotSeen \/ IsSize(file, seen)
      /\ store = "local" => seen # Unknown
  BY Ends DEF Aligned
<1>2. queue # <<>> => IsRequest(file, outgrown, Head(queue).request)
  BY <1>1, QueueTail DEF IsAsk
<1>3. CASE ReadLocal
  <2>1. PICK result : /\ result = ChunkResult(Head(queue).request, seen, LocalData(Head(queue).request, seen, file))
                      /\ Answered(result) /\ queue # <<>> /\ store = "local" /\ seen # NotSeen
                      /\ outgrown' = outgrown \cup PastSize(Head(queue).request, seen, result)
    BY <1>3 DEF ReadLocal
  <2>2. Edge(file, seen) /\ IsSize(file, seen)
    BY <1>1, <2>1 DEF IsSize
  <2>3. IsRead(file, Head(queue).request, seen, Len(file), LocalData(Head(queue).request, seen, file))
    BY <1>1, <1>2, <2>1, <2>2, LocalRead
  <2>4. outgrown \subseteq outgrown' /\ PastSize(Head(queue).request, seen, result) \subseteq outgrown'
    BY <2>1
  <2>5. IsAnswer(file, outgrown', result)
    BY <1>1, <1>2, <2>1, <2>2, <2>3, <2>4, AnswersAreTrue
  <2> QED BY <2>1, <2>4, <2>5, AnsweredKeeps
<1>4. CASE Stat
  <2>1. /\ seen' = IF store = "unsized" THEN Unknown ELSE Len(file)
        /\ UNCHANGED <<fileVars, windowVars, followVars, queue, outgrown>>
    BY <1>4 DEF Stat, boundVars
  <2>2. IsSize(file, seen')
    BY <1>1, <2>1 DEF IsSize
  <2>3. store = "local" => seen' # Unknown
    BY <1>1, <2>1, EdgeIs
  <2> QED BY <2>1, <2>2, <2>3 DEF Aligned, fileVars, windowVars, followVars
<1>5. CASE Cat
  <2>1. PICK result : /\ result = ChunkResult(Head(queue).request, seen, CloudData(Head(queue).request, seen, file))
                      /\ Answered(result) /\ queue # <<>> /\ seen # NotSeen /\ outgrown' = outgrown
    BY <1>5 DEF Cat
  <2>2. IsSize(file, seen)
    BY <1>1, <2>1
  <2>3. IsRead(file, Head(queue).request, seen, seen, CloudData(Head(queue).request, seen, file))
    BY <1>1, <1>2, <2>1, <2>2, CloudRead
  <2>4. IsAnswer(file, outgrown, result)
    BY <1>1, <1>2, <2>1, <2>2, <2>3, AnswersAreTrue
  <2> QED BY <2>1, <2>4, AnsweredKeeps
<1>6. CASE NotFound
  BY <1>6 DEF NotFound
<1>7. CASE RequestFails
  <2>1. queue # <<>> /\ Answered(Failure(504)) /\ outgrown' = outgrown
    BY <1>7 DEF RequestFails
  <2>2. IsAnswer(file, outgrown', Failure(504))
    BY FailureIsAnswer
  <2> QED BY <2>1, <2>2, AnsweredKeeps
<1> QED BY <1>3, <1>4, <1>5, <1>6, <1>7 DEF ServerStep, AnswerRequest

\* The user: jumps, scrolling and follow mode.
LEMMA LastEdge ==
    ASSUME NEW f, NEW M, NEW w, IsWindow(f, M, w), w # <<>>
    PROVE  Border(f, M, LastOf(w).end) /\ Border(f, M, w[1].offset)
<1>1. w \in Seq(ChunkSet) /\ Len(w) \in 1..Len(w) /\ 1 \in 1..Len(w)
  BY DEF IsWindow
<1> QED BY <1>1 DEF IsWindow, IsPiece, LastOf

LEMMA JumpKeeps ==
    ASSUME NEW f, NEW M, NEW request, IsRequest(f, M, request), NEW pending, IsQueue(f, M, pending),
           NEW then \in {"none", "start"}, Jumps(request, pending, then)
    PROVE  IsQueue(f, M, queue') /\ chunks' = chunks
<1>1. IsAsk(f, M, Load("jump", request, then))
  BY AskIs DEF Load
<1>2. IsQueue(f, M, Older(pending))
  BY QueueMarked
<1> QED BY <1>1, <1>2, QueueAppend DEF Jumps, Enqueue

LEMMA UserKeeps ==
    ASSUME Aligned(file, outgrown), UserStep
    PROVE  Aligned(file, outgrown)' /\ UNCHANGED fileVars
<1>1. /\ IsText(file) /\ IsQueue(file, outgrown, queue) /\ IsWindow(file, outgrown, chunks) /\ Border(file, outgrown, 0)
      /\ followEnd = None \/ Border(file, outgrown, followEnd)
  BY Ends DEF Aligned, Border
<1>2. IsRequest(file, outgrown, Forward(0)) /\ IsRequest(file, outgrown, FromEnd)
  BY <1>1, RequestsAre
<1>3. SUFFICES /\ IsQueue(file, outgrown, queue') /\ chunks' = chunks /\ UNCHANGED <<fileVars, seen, outgrown>>
               /\ followEnd' = None \/ Border(file, outgrown, followEnd')
  BY DEF Aligned, fileVars
<1>4. IsQueue(file, outgrown, Disowned(queue))
  BY <1>1, QueueMarked
<1>5. CASE Open
  <2>1. IsAsk(file, outgrown, Load("first", Forward(0), "none"))
    BY <1>2, AskIs DEF Load
  <2> QED BY <1>1, <1>5, <2>1, QueueAppend DEF Open, Enqueue, followVars, boundVars
<1>6. CASE LoadNext
  <2>1. IsRequest(file, outgrown, Forward(LastOf(chunks).end))
    BY <1>1, <1>6, LastEdge, RequestsAre DEF LoadNext, MayLoad
  <2>2. IsAsk(file, outgrown, Load("next", Forward(LastOf(chunks).end), "none"))
    BY <2>1, AskIs DEF Load
  <2> QED BY <1>1, <1>6, <2>2, QueueAppend DEF LoadNext, Scrolls, Enqueue, followVars, boundVars
<1>7. CASE LoadPrevious
  <2>1. IsRequest(file, outgrown, Before(chunks[1].offset))
    BY <1>1, <1>7, LastEdge, RequestsAre DEF LoadPrevious, MayLoad
  <2>2. IsAsk(file, outgrown, Load("prev", Before(chunks[1].offset), "none"))
    BY <2>1, AskIs DEF Load
  <2> QED BY <1>1, <1>7, <2>2, QueueAppend DEF LoadPrevious, Scrolls, Enqueue, followVars, boundVars
<1>8. CASE JumpToTop
  BY <1>1, <1>2, <1>8, JumpKeeps DEF JumpToTop, Acts, Acting
<1>9. ASSUME ToBottom PROVE IsQueue(file, outgrown, queue') /\ chunks' = chunks /\ followEnd' = followEnd
  BY <1>1, <1>2, <1>9, JumpKeeps DEF ToBottom
<1>10. CASE JumpToBottom
  BY <1>1, <1>9, <1>10 DEF JumpToBottom, Acts, Acting
<1>11. CASE StartFollow
  <2>1. CASE chunks # <<>> /\ LastOf(chunks).eof /\ ~failed /\ loading = "none"
    <3>1. Border(file, outgrown, LastOf(chunks).end)
      BY <1>1, <2>1, LastEdge
    <3> QED BY <1>4, <1>11, <2>1, <3>1 DEF StartFollow, Acts, Acting, windowVars
  <2>2. CASE ~(chunks # <<>> /\ LastOf(chunks).eof /\ ~failed /\ loading = "none")
    <3>1. followEnd' = None /\ Jumps(FromEnd, Disowned(queue), "start") /\ UNCHANGED <<fileVars, seen, outgrown>>
      BY <1>11, <2>2, Zenon DEF StartFollow, Acts, Acting
    <3> QED BY <1>2, <1>4, <3>1, JumpKeeps
  <2> QED BY <2>1, <2>2
<1>12. CASE StopFollow
  BY <1>1, <1>4, <1>12 DEF StopFollow, StopFollowing, Acts, Acting, windowVars
<1>13. CASE Pause
  BY <1>1, <1>13 DEF Pause, Acts, Acting, windowVars
<1>14. ASSUME Unpauses PROVE UNCHANGED <<queue, chunks, followEnd>>
  BY <1>14 DEF Unpauses, windowVars
<1>15. CASE ScrollDown
  BY <1>1, <1>14, <1>15 DEF ScrollDown, Acting
<1>16. CASE Resume
  BY <1>1, <1>9, <1>14, <1>16 DEF Resume, Acting
<1>17. CASE Visibility
  BY <1>1, <1>17 DEF Visibility, Acts, Acting, windowVars
<1>18. CASE Poll
  <2>1. IsRequest(file, outgrown, FollowFrom(followEnd))
    BY <1>1, <1>18, RequestsAre DEF Poll
  <2>2. IsAsk(file, outgrown, Ask("poll", FollowFrom(followEnd), "none", "none"))
    BY <2>1, AskIs
  <2> QED BY <1>1, <1>18, <2>2, QueueAppend DEF Poll, Enqueue, windowVars, boundVars
<1>19. CASE PollIdle
  BY <1>1, <1>4, <1>19 DEF PollIdle, StopFollowing, windowVars, boundVars
<1> QED BY <1>5, <1>6, <1>7, <1>8, <1>10, <1>11, <1>12, <1>13, <1>15, <1>16, <1>17, <1>18, <1>19 DEF UserStep

\* The writer of the file.
LEMMA WriteKeeps ==
    ASSUME Aligned(file, outgrown), written \in Nat \ {0}, Write
    PROVE  Aligned(file, outgrown)'
<1>1. /\ file' = file \o Pieces[written + 1] /\ written + 1 \in 1..Len(Pieces)
      /\ UNCHANGED <<store, windowVars, followVars, queue, seen, outgrown>>
  <2>1. Len(Pieces) \in Nat
    BY ViewerAssumption
  <2> QED BY <2>1 DEF Write, boundVars
<1>2. IsText(file) /\ IsText(Pieces[written + 1])
  BY <1>1, PieceIsText DEF Aligned
<1>3. IsText(file') /\ \A p : Border(file, outgrown, p) => Border(file', outgrown, p)
  BY <1>1, <1>2, Joined, BordersStay
<1>4. /\ \A w : IsWindow(file, outgrown, w) => IsWindow(file', outgrown, w)
      /\ \A q : IsQueue(file, outgrown, q) => IsQueue(file', outgrown, q)
      /\ \A size : IsSize(file, size) => IsSize(file', size)
  BY <1>1, <1>2, Grows
<1> QED BY <1>1, <1>3, <1>4 DEF Aligned, windowVars, followVars

\* No answer, no poll, no act of the user and no growth of the file breaks the invariant
\* (FileViewerDialog.jsx:210, :464).
THEOREM ViewStep == ViewInv /\ [ViewNext]_viewVars => ViewInv'
<1> SUFFICES ASSUME ViewInv, [ViewNext]_viewVars PROVE ViewInv'
  OBVIOUS
<1>1. CASE changes = "appended" /\ ServerStep
  BY <1>1, ServerKeeps DEF ViewInv, fileVars
<1>2. CASE changes = "appended" /\ UserStep
  BY <1>2, UserKeeps DEF ViewInv, fileVars
<1>3. CASE changes = "appended" /\ Write
  BY <1>3, WriteKeeps DEF ViewInv, Write
<1>4. CASE Truncate
  BY <1>4 DEF ViewInv, Truncate
<1>5. CASE Delete
  BY <1>5 DEF ViewInv, Delete
<1>6. CASE UNCHANGED viewVars
  BY <1>6 DEF ViewInv, Aligned, viewVars, fileVars, windowVars, followVars, boundVars
<1>7. ASSUME changes # "appended", ServerStep \/ UserStep PROVE UNCHANGED fileVars
  BY <1>7 DEF ServerStep, AnswerRequest, ReadLocal, Stat, Cat, NotFound, RequestFails, Answered, UserStep,
     Open, LoadNext, LoadPrevious, Scrolls, JumpToTop, JumpToBottom, StartFollow, StopFollow, Pause, ScrollDown,
     Resume, Visibility, Poll, PollIdle, Acts, Acting
<1>8. CASE changes # "appended" /\ (ServerStep \/ UserStep)
  BY <1>7, <1>8 DEF ViewInv, fileVars
<1>9. CASE changes # "appended" /\ Write
  BY <1>9 DEF ViewInv, Write
<1> QED BY <1>1, <1>2, <1>3, <1>4, <1>5, <1>6, <1>8, <1>9 DEF ViewNext, FileStep

\* The window, the requests and the followed end stay at the edges of characters, or where an
\* answer ended past the size that was seen, however jumps, scrolling and polls overtake each
\* other (FileViewerDialog.jsx, viewerChunks.js, file_view.py).
THEOREM ViewInvariant == ViewSpec => []ViewInv
BY ViewInitInv, ViewStep, PTL DEF ViewSpec

LEMMA AlignedIsTrue == ViewInv => WindowIsTrue
<1> SUFFICES ASSUME ViewInv, changes = "appended", NEW i \in DOMAIN chunks
    PROVE  LET c == chunks[i] IN
           /\ c.text = Bytes(file, c.offset, c.end - c.offset) /\ Len(c.text) = c.end - c.offset
           /\ i > 1 => c.offset = chunks[i - 1].end
           /\ \A edge \in {c.offset, c.end} \ outgrown : edge < Len(file) => file[edge + 1] # 0
  BY DEF WindowIsTrue
<1>1. IsText(file) /\ IsWindow(file, outgrown, chunks) /\ i \in 1..Len(chunks)
  BY DEF ViewInv, Aligned, IsWindow
<1>2. PICK c : c = chunks[i] /\ IsPiece(file, outgrown, c)
  BY <1>1 DEF IsWindow
<1>3. PICK a \in 0..Len(file) : a = c.offset /\ Border(file, outgrown, a)
  BY <1>1, <1>2, BorderIs DEF IsPiece
<1>4. PICK b \in a..Len(file) : b = c.end /\ Border(file, outgrown, b)
  <2>1. c.end \in Nat /\ c.end =< Len(file) /\ Len(file) \in Nat /\ c.offset \in Nat /\ c.offset =< c.end /\ Border(file, outgrown, c.end)
    BY <1>1, <1>2, BorderIs DEF IsPiece
  <2> QED BY <1>3, <2>1
<1>5. c.text = Part(file, a, b) /\ Len(c.text) = b - a
  <2>1. c.text = Part(file, a, b)
    BY <1>2, <1>3, <1>4 DEF IsPiece
  <2>2. file \in Seq(Byte)
    BY <1>1 DEF IsText
  <2>3. Len(Part(file, a, b)) = b - a
    BY <2>2, PartBytes
  <2> QED BY <2>1, <2>3
<1>6. Bytes(file, a, b - a) = Part(file, a, b)
  <2>1. a \in Nat /\ b - a \in Nat /\ a + (b - a) = b /\ b =< Len(file) /\ Len(file) \in Nat
    BY <1>1, BytesOf
  <2> QED BY <2>1, BytesArePart
<1>7. i > 1 => c.offset = chunks[i - 1].end
  <2>1. i > 1 => i \in 2..Len(chunks)
    BY <1>1 DEF IsWindow
  <2> QED BY <1>1, <1>2, <2>1 DEF IsWindow
<1>8. \A edge \in {a, b} \ outgrown : edge < Len(file) => file[edge + 1] # 0
  BY <1>3, <1>4 DEF Border, Edge
<1> QED BY <1>2, <1>3, <1>4, <1>5, <1>6, <1>7, <1>8

\* As long as the file is only appended to, the window is a contiguous part of it, for any file,
\* chunk length and number of chunks, however jumps, scrolling and polls overtake each other and
\* the file grows between the size and the bytes of a read (viewerChunks.js:5); and its chunks
\* start and end with whole characters (file_view.py:217) but where one ended past the size that
\* was seen of a local file.
THEOREM WindowsAreTrue == ViewSpec => []WindowIsTrue
BY ViewInvariant, AlignedIsTrue, PTL
=============================================================================
