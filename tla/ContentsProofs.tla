--------------------------- MODULE ContentsProofs ---------------------------
(***************************************************************************)
(* For every choice of overrides, providers and other managers'            *)
(* keys: what the operator's writes leave alone in a Secret it shares, and *)
(* which override ends up in the data; that the hashed text tells data     *)
(* apart whose values have no line like the assignment of a key, and with  *)
(* that what an unchanged hash says about the Secret.  What takes          *)
(* induction over the keys goes by least counterexamples (LeastNumber).    *)
(***************************************************************************)
EXTENDS SecretContents, WellFoundedInduction, SequenceTheorems, TLAPS

-----------------------------------------------------------------------------
(* Sequences of whatever *)

\* A set of numbers has a least one.
LEMMA LeastNumber ==
    ASSUME NEW T, T \subseteq Nat, T # {}
    PROVE  \E x \in T : \A y \in T : x <= y
<1>1. PICK x \in T : \A y \in T : ~ (<<y, x>> \in OpToRel(<, Nat))
  BY NatLessThanWellFounded, WFMin
<1>2. ASSUME NEW y \in T PROVE x <= y
  <2>1. ~ (y < x)
    BY <1>1 DEF OpToRel
  <2> QED
    BY <2>1
<1> QED
  BY <1>2

IsSequence(s) == \E S : s \in Seq(S)

\* What concatenation gives, whatever the elements.
LEMMA Concatenation ==
    ASSUME NEW s, NEW t, IsSequence(s), IsSequence(t)
    PROVE  /\ IsSequence(s \o t)
           /\ Len(s) \in Nat /\ Len(t) \in Nat
           /\ Len(s \o t) = Len(s) + Len(t)
           /\ \A i \in 1..Len(s) : (s \o t)[i] = s[i]
           /\ \A i \in 1..Len(t) : (s \o t)[Len(s) + i] = t[i]
<1>1. PICK S : s \in Seq(S)
  BY DEF IsSequence
<1>2. PICK T : t \in Seq(T)
  BY DEF IsSequence
<1>3. s \in Seq(S \cup T) /\ t \in Seq(S \cup T)
  BY <1>1, <1>2, SeqMonotonic
<1>4. /\ s \o t \in Seq(S \cup T)
      /\ Len(s \o t) = Len(s) + Len(t)
      /\ \A i \in 1..Len(s) + Len(t) :
            (s \o t)[i] = IF i <= Len(s) THEN s[i] ELSE t[i - Len(s)]
  BY <1>3, ConcatProperties
<1>5. Len(s) \in Nat /\ Len(t) \in Nat
  BY <1>3, LenProperties
<1>6. \A i \in 1..Len(s) : (s \o t)[i] = s[i]
  BY <1>4, <1>5
<1>7. ASSUME NEW i \in 1..Len(t) PROVE (s \o t)[Len(s) + i] = t[i]
  <2>1. /\ Len(s) + i \in 1..Len(s) + Len(t)
        /\ ~ (Len(s) + i <= Len(s))
        /\ Len(s) + i - Len(s) = i
    BY <1>5
  <2> QED
    BY <2>1, <1>4
<1> QED
  BY <1>4, <1>5, <1>6, <1>7 DEF IsSequence

\* The beginnings of a concatenation: text[i] is that of the first i blocks.
IsBuildUp(text, blocks, n) ==
    /\ text = [i \in 1..n |-> text[i]]
    /\ \A i \in 1..n : text[i] = IF i = 1 THEN blocks[i] ELSE text[i - 1] \o blocks[i]

\* Every concatenation has beginnings.
LEMMA BuildUpExists ==
    ASSUME NEW blocks, NEW n \in Nat
    PROVE  \E text : IsBuildUp(text, blocks, n)
<1> DEFINE Bad == {m \in Nat : ~ \E f : IsBuildUp(f, blocks, m)}
<1>1. CASE Bad = {}
  BY <1>1
<1>2. CASE Bad # {}
  <2>1. PICK m \in Bad : \A l \in Bad : m <= l
    BY <1>2, LeastNumber
  <2>2. IsBuildUp([i \in 1..0 |-> blocks[1]], blocks, 0)
    BY DEF IsBuildUp
  <2>3. m \in Nat /\ m # 0
    BY <2>1, <2>2
  <2>4. m - 1 \in Nat /\ m - 1 \notin Bad
    <3>1. m - 1 \in Nat /\ ~ (m <= m - 1)
      BY <2>3
    <3> QED
      BY <2>1, <3>1
  <2>5. PICK f : IsBuildUp(f, blocks, m - 1)
    BY <2>4
  <2> DEFINE g == [i \in 1..m |-> IF i < m THEN f[i]
                                  ELSE IF i = 1 THEN blocks[i] ELSE f[i - 1] \o blocks[i]]
  <2>6. ASSUME NEW i \in 1..m
        PROVE  g[i] = IF i = 1 THEN blocks[i] ELSE g[i - 1] \o blocks[i]
    <3>0. i \in Nat /\ i >= 1 /\ i <= m
      BY <2>3
    <3>1. CASE i < m
      <4>1. i \in 1..m - 1 /\ g[i] = f[i]
        BY <3>0, <3>1, <2>3
      <4>2. i # 1 => i - 1 \in 1..m /\ i - 1 < m
        BY <3>0, <3>1, <2>3
      <4>3. i # 1 => g[i - 1] = f[i - 1]
        BY <4>2
      <4>4. f[i] = IF i = 1 THEN blocks[i] ELSE f[i - 1] \o blocks[i]
        BY <4>1, <2>5 DEF IsBuildUp
      <4> HIDE DEF g
      <4> QED
        BY <4>1, <4>3, <4>4
    <3>2. CASE i = m
      <4>1. g[i] = IF i = 1 THEN blocks[i] ELSE f[i - 1] \o blocks[i]
        BY <3>0, <3>2, <2>3
      <4>2. i # 1 => i - 1 \in 1..m /\ i - 1 < m
        BY <3>0, <3>2, <2>3
      <4>3. i # 1 => g[i - 1] = f[i - 1]
        BY <4>2
      <4> HIDE DEF g
      <4> QED
        BY <4>1, <4>3
    <3> QED
      BY <3>0, <3>1, <3>2, <2>3
  <2>7. g = [i \in 1..m |-> g[i]]
    OBVIOUS
  <2>8. IsBuildUp(g, blocks, m)
    <3> HIDE DEF g
    <3> QED
      BY <2>6, <2>7 DEF IsBuildUp
  <2> QED
    BY <2>1, <2>8
<1> QED
  BY <1>1, <1>2

\* FlattenSeq is the last of the beginnings.
LEMMA Flattened ==
    ASSUME NEW blocks, Len(blocks) \in Nat, Len(blocks) # 0
    PROVE  \E text : /\ IsBuildUp(text, blocks, Len(blocks))
                     /\ FlattenSeq(blocks) = text[Len(blocks)]
<1> DEFINE n == Len(blocks)
           Recursive(f) ==
             f = [i \in 1..n |-> IF i = 1 THEN blocks[i] ELSE f[i - 1] \o blocks[i]]
           text == CHOOSE f : Recursive(f)
<1>1. \E f : Recursive(f)
  <2>1. PICK f : IsBuildUp(f, blocks, n)
    BY BuildUpExists
  <2>2. f = [i \in 1..n |-> f[i]]
    BY <2>1 DEF IsBuildUp
  <2>3. \A i \in 1..n : f[i] = IF i = 1 THEN blocks[i] ELSE f[i - 1] \o blocks[i]
    BY <2>1 DEF IsBuildUp
  <2>4. Recursive(f)
    BY <2>2, <2>3, Zenon
  <2> QED
    BY <2>4
<1>2. Recursive(text)
  <2> HIDE DEF Recursive
  <2> QED
    BY <1>1
<1>3. ASSUME NEW f, Recursive(f) PROVE IsBuildUp(f, blocks, n)
  BY <1>3 DEF IsBuildUp
<1>4. FlattenSeq(blocks) = text[n]
  BY DEF FlattenSeq
<1> QED
  <2> HIDE DEF Recursive, text
  <2>1. IsBuildUp(text, blocks, n)
    BY <1>2, <1>3
  <2> QED
    BY <2>1, <1>4

\* Where the blocks of a concatenation lie in it: each somewhere, every element in one
\* of them, and after each that is not the last comes another.
IsLayout(start, text, blocks, n) ==
    /\ Len(text) \in Nat
    /\ \A i \in 1..n :
          /\ start[i] \in Nat
          /\ start[i] + Len(blocks[i]) <= Len(text)
          /\ \A x \in 1..Len(blocks[i]) : text[start[i] + x] = blocks[i][x]
    /\ \A y \in 1..Len(text) : \E i \in 1..n : \E x \in 1..Len(blocks[i]) : y = start[i] + x
    /\ \A i \in 1..n : start[i] + Len(blocks[i]) < Len(text) =>
          \E j \in 1..n : Len(blocks[j]) > 0 /\ start[j] = start[i] + Len(blocks[i])

\* A concatenation has a layout.
LEMMA LayoutExists ==
    ASSUME NEW n \in Nat, NEW blocks, \A i \in 1..n : IsSequence(blocks[i]),
           NEW begin, begin[0] = <<>>,
           \A i \in 1..n : begin[i] = begin[i - 1] \o blocks[i]
    PROVE  \E start : IsLayout(start, begin[n], blocks, n)
<1>1. \A i \in 0..n : IsSequence(begin[i])
  <2> DEFINE Bad == {i \in 0..n : ~ IsSequence(begin[i])}
  <2>1. ASSUME Bad # {} PROVE FALSE
    <3>0. Bad \subseteq Nat
      OBVIOUS
    <3>1. PICK i \in Bad : \A j \in Bad : i <= j
      <4> HIDE DEF Bad
      <4> QED
        BY <2>1, <3>0, LeastNumber
    <3>2. i # 0
      <4>1. <<>> \in Seq({})
        BY EmptySeq
      <4> QED
        BY <3>1, <4>1 DEF IsSequence
    <3>3. i \in 1..n /\ i - 1 \in 0..n /\ ~ (i <= i - 1)
      BY <3>1, <3>2
    <3>4. IsSequence(begin[i - 1])
      BY <3>1, <3>3
    <3>5. IsSequence(begin[i - 1] \o blocks[i])
      BY <3>3, <3>4, Concatenation
    <3> QED
      BY <3>1, <3>3, <3>5
  <2> QED
    BY <2>1
<1>2. \A i \in 0..n : Len(begin[i]) \in Nat
  BY <1>1, LenProperties DEF IsSequence
<1>3. \A i \in 1..n : Len(blocks[i]) \in Nat
  BY LenProperties DEF IsSequence
<1>4. ASSUME NEW i \in 1..n
      PROVE  /\ Len(begin[i]) = Len(begin[i - 1]) + Len(blocks[i])
             /\ \A x \in 1..Len(begin[i - 1]) : begin[i][x] = begin[i - 1][x]
             /\ \A x \in 1..Len(blocks[i]) : begin[i][Len(begin[i - 1]) + x] = blocks[i][x]
  <2>1. IsSequence(begin[i - 1]) /\ IsSequence(blocks[i])
    <3>1. i - 1 \in 0..n
      OBVIOUS
    <3> QED
      BY <3>1, <1>1
  <2> DEFINE s == begin[i - 1]
             t == blocks[i]
  <2>2. begin[i] = s \o t
    OBVIOUS
  <2>3. /\ Len(s \o t) = Len(s) + Len(t)
        /\ \A x \in 1..Len(s) : (s \o t)[x] = s[x]
        /\ \A x \in 1..Len(t) : (s \o t)[Len(s) + x] = t[x]
    <3> HIDE DEF s, t
    <3>1. IsSequence(s) /\ IsSequence(t)
      BY <2>1 DEF s, t
    <3> QED
      BY <3>1, Concatenation
  <2> QED
    BY <2>2, <2>3, Zenon
<1>5. ASSUME NEW l \in 0..n, NEW m \in 0..n, l <= m
      PROVE  /\ Len(begin[l]) <= Len(begin[m])
             /\ \A x \in 1..Len(begin[l]) : begin[m][x] = begin[l][x]
  <2> DEFINE Keeps(i) == /\ Len(begin[l]) <= Len(begin[i])
                         /\ \A x \in 1..Len(begin[l]) : begin[i][x] = begin[l][x]
             Bad == {i \in l..n : ~ Keeps(i)}
  <2>1. ASSUME Bad # {} PROVE FALSE
    <3>0. Bad \subseteq Nat
      OBVIOUS
    <3>1. PICK i \in Bad : \A j \in Bad : i <= j
      <4> HIDE DEF Bad
      <4> QED
        BY <2>1, <3>0, LeastNumber
    <3>2. i # l
      BY <3>1, <1>2
    <3>3. i \in 1..n /\ i - 1 \in l..n /\ ~ (i <= i - 1)
      BY <3>1, <3>2
    <3>4. Keeps(i - 1)
      <4> HIDE DEF Keeps
      <4> QED
        BY <3>1, <3>3
    <3>5. Keeps(i)
      <4>1. i - 1 \in 0..n
        BY <3>3
      <4>2. Len(begin[i - 1]) \in Nat /\ Len(begin[l]) \in Nat /\ Len(blocks[i]) \in Nat
        BY <4>1, <3>3, <1>2, <1>3
      <4>3. Len(begin[l]) <= Len(begin[i])
        <5>1. Len(begin[l]) <= Len(begin[i - 1])
          BY <3>4
        <5>2. Len(begin[i]) = Len(begin[i - 1]) + Len(blocks[i])
          BY <3>3, <1>4
        <5>3. \A a, b, c \in Nat : a <= b => a <= b + c
          OBVIOUS
        <5> QED
          BY <4>2, <5>1, <5>2, <5>3, Zenon
      <4>4. ASSUME NEW x \in 1..Len(begin[l]) PROVE begin[i][x] = begin[l][x]
        <5>1. x \in 1..Len(begin[i - 1])
          BY <4>2, <3>4
        <5> QED
          BY <5>1, <3>3, <3>4, <1>4
      <4> QED
        BY <4>3, <4>4
    <3> QED
      BY <3>1, <3>5
  <2>2. Keeps(m)
    <3>1. m \in l..n
      BY <1>5
    <3> HIDE DEF Keeps
    <3> QED
      BY <2>1, <3>1
  <2> QED
    BY <2>2
<1>6. ASSUME NEW y \in 1..Len(begin[n])
      PROVE  \E i \in 1..n : Len(begin[i - 1]) < y /\ y <= Len(begin[i])
  <2> DEFINE Past == {i \in 0..n : y <= Len(begin[i])}
  <2>1. n \in Past /\ Past \subseteq Nat
    BY <1>2
  <2>2. PICK i \in Past : \A j \in Past : i <= j
    BY <2>1, LeastNumber
  <2>3. i # 0
    <3>1. Len(begin[0]) = 0
      BY EmptySeq
    <3> QED
      BY <3>1, <2>2
  <2>4. i \in 1..n /\ i - 1 \in 0..n /\ ~ (i <= i - 1)
    BY <2>2, <2>3
  <2>5. ~ (y <= Len(begin[i - 1]))
    BY <2>2, <2>4
  <2>6. y \in Int /\ Len(begin[i - 1]) \in Nat
    BY <2>4, <1>2
  <2> QED
    BY <2>2, <2>4, <2>5, <2>6
<1> DEFINE start == [i \in 1..n |-> Len(begin[i - 1])]
<1>7. ASSUME NEW i \in 1..n
      PROVE  /\ start[i] = Len(begin[i - 1])
             /\ start[i] \in Nat
             /\ start[i] + Len(blocks[i]) = Len(begin[i])
             /\ Len(begin[i]) <= Len(begin[n])
             /\ \A x \in 1..Len(blocks[i]) : begin[n][start[i] + x] = blocks[i][x]
  <2>1. i - 1 \in 0..n /\ i \in 0..n /\ n \in 0..n /\ i <= n
    OBVIOUS
  <2>2. start[i] = Len(begin[i - 1]) /\ start[i] \in Nat
    BY <2>1, <1>2
  <2>3. start[i] + Len(blocks[i]) = Len(begin[i])
    BY <2>2, <1>4
  <2>4. /\ Len(begin[i]) <= Len(begin[n])
        /\ \A x \in 1..Len(begin[i]) : begin[n][x] = begin[i][x]
    BY <2>1, <1>5
  <2> HIDE DEF start
  <2>5. ASSUME NEW x \in 1..Len(blocks[i]) PROVE begin[n][start[i] + x] = blocks[i][x]
    <3>1. start[i] + x \in 1..start[i] + Len(blocks[i])
      <4>1. start[i] \in Nat /\ Len(blocks[i]) \in Nat
        BY <2>2, <1>3
      <4> QED
        BY <4>1
    <3>2. begin[i][start[i] + x] = blocks[i][x]
      BY <2>2, <1>4
    <3> QED
      BY <3>1, <3>2, <2>3, <2>4
  <2> QED
    BY <2>2, <2>3, <2>4, <2>5
<1> HIDE DEF start
<1>8. ASSUME NEW y \in 1..Len(begin[n])
      PROVE  \E i \in 1..n : \E x \in 1..Len(blocks[i]) : y = start[i] + x
  <2>1. PICK i \in 1..n : Len(begin[i - 1]) < y /\ y <= Len(begin[i])
    BY <1>6
  <2>2. /\ start[i] \in Nat /\ Len(blocks[i]) \in Nat
        /\ start[i] < y /\ y <= start[i] + Len(blocks[i])
    BY <2>1, <1>3, <1>7
  <2>3. y - start[i] \in 1..Len(blocks[i]) /\ y = start[i] + (y - start[i])
    BY <2>2
  <2> QED
    BY <2>3
<1>9. ASSUME NEW i \in 1..n, start[i] + Len(blocks[i]) < Len(begin[n])
      PROVE  \E j \in 1..n : Len(blocks[j]) > 0 /\ start[j] = start[i] + Len(blocks[i])
  <2>1. Len(begin[i]) \in Nat /\ Len(begin[n]) \in Nat /\ Len(begin[i]) < Len(begin[n])
    BY <1>2, <1>7, <1>9
  <2>2. PICK j \in 1..n : /\ Len(begin[j - 1]) < Len(begin[i]) + 1
                          /\ Len(begin[i]) + 1 <= Len(begin[j])
    <3>1. Len(begin[i]) + 1 \in 1..Len(begin[n])
      BY <2>1
    <3> QED
      BY <3>1, <1>6
  <2>3. /\ j - 1 \in 0..n /\ j \in 0..n /\ i \in 0..n
        /\ Len(begin[j - 1]) \in Nat /\ Len(begin[j]) \in Nat
    BY <1>2
  <2>4. i <= j - 1
    <3>1. ~ (j <= i)
      BY <2>1, <2>2, <2>3, <1>5
    <3> QED
      BY <3>1
  <2>5. Len(begin[i]) <= Len(begin[j - 1])
    BY <2>3, <2>4, <1>5
  <2>6. Len(begin[j - 1]) = Len(begin[i])
    BY <2>1, <2>2, <2>3, <2>5
  <2>7. Len(blocks[j]) > 0
    <3>1. Len(begin[j]) = Len(begin[j - 1]) + Len(blocks[j])
      BY <1>4
    <3> QED
      BY <3>1, <2>1, <2>2, <2>3, <2>6, <1>3
  <2> QED
    BY <2>6, <2>7, <1>7
<1> QED
  <2>1. IsLayout(start, begin[n], blocks, n)
    BY <1>2, <1>7, <1>8, <1>9 DEF IsLayout
  <2> QED
    BY <2>1

-----------------------------------------------------------------------------
(* The hashed text *)

\* Texts, whatever the strings are.
IsLine(line) == IsSequence(line) /\ line # <<>>
IsText(value) == /\ IsSequence(value)
                 /\ value # <<>>
                 /\ \A i \in 1..Len(value) : IsLine(value[i])

\* Secret data: a text for some of the keys.
IsData(data) == /\ DOMAIN data \subseteq Keys
                /\ \A k \in DOMAIN data : IsText(data[k])

\* Lengths of texts and of their lines.
LEMMA TextLengths ==
    ASSUME NEW value, IsText(value)
    PROVE  /\ Len(value) \in Nat \ {0}
           /\ DOMAIN value = 1..Len(value)
           /\ \A i \in 1..Len(value) : Len(value[i]) \in Nat \ {0}
<1>1. ASSUME NEW s, IsSequence(s), s # <<>>
      PROVE  Len(s) \in Nat \ {0} /\ DOMAIN s = 1..Len(s)
  BY <1>1, LenProperties, EmptySeq DEF IsSequence
<1> QED
  BY <1>1 DEF IsText, IsLine

\* A key's name in front of a line.
LEMMA NamedLine ==
    ASSUME NEW k, NEW line, IsLine(line)
    PROVE  /\ IsSequence(<<k>> \o line)
           /\ Len(<<k>> \o line) = Len(line) + 1
           /\ Len(line) \in Nat \ {0}
           /\ (<<k>> \o line)[1] = k
           /\ \A i \in 1..Len(line) : (<<k>> \o line)[i + 1] = line[i]
<1>1. IsSequence(<<k>>) /\ Len(<<k>>) = 1 /\ <<k>>[1] = k
  <2>1. <<k>> \in Seq({k})
    OBVIOUS
  <2> QED
    BY <2>1 DEF IsSequence
<1>2. IsSequence(line) /\ Len(line) \in Nat \ {0}
  BY LenProperties, EmptySeq DEF IsLine, IsSequence
<1>3. /\ IsSequence(<<k>> \o line)
      /\ Len(<<k>> \o line) = 1 + Len(line)
      /\ \A i \in 1..1 : (<<k>> \o line)[i] = <<k>>[i]
      /\ \A i \in 1..Len(line) : (<<k>> \o line)[1 + i] = line[i]
  <2> DEFINE s == <<k>>
  <2>1. IsSequence(s)
    BY <1>1
  <2> HIDE DEF s
  <2>2. IsSequence(line)
    BY <1>2
  <2>3. /\ IsSequence(s \o line)
        /\ Len(s \o line) = Len(s) + Len(line)
        /\ \A i \in 1..Len(s) : (s \o line)[i] = s[i]
        /\ \A i \in 1..Len(line) : (s \o line)[Len(s) + i] = line[i]
    BY <2>1, <2>2, Concatenation
  <2> QED
    BY <1>1, <2>3, Zenon DEF s
<1>4. ASSUME NEW i \in 1..Len(line) PROVE (<<k>> \o line)[i + 1] = line[i]
  <2>1. i + 1 = 1 + i
    OBVIOUS
  <2> QED
    BY <2>1, <1>3
<1> QED
  BY <1>1, <1>2, <1>3, <1>4

\* A key's block is its value with the name in front, or nothing.
LEMMA BlockOfKey ==
    ASSUME NEW data, IsData(data), NEW k
    PROVE  /\ IsSequence(Block(data, k))
           /\ k \notin DOMAIN data => Len(Block(data, k)) = 0
           /\ k \in DOMAIN data =>
                 /\ Len(Block(data, k)) = Len(data[k])
                 /\ Block(data, k)[1] = <<k>> \o data[k][1]
                 /\ \A x \in 2..Len(data[k]) : Block(data, k)[x] = data[k][x]
<1>1. CASE k \notin DOMAIN data
  <2>1. Block(data, k) = <<>>
    BY <1>1 DEF Block
  <2>2. <<>> \in Seq({}) /\ Len(<<>>) = 0
    BY EmptySeq
  <2> QED
    BY <1>1, <2>1, <2>2 DEF IsSequence
<1>2. CASE k \in DOMAIN data
  <2> DEFINE value == data[k]
             first == <<k>> \o value[1]
  <2>1. IsText(value)
    BY <1>2 DEF IsData
  <2>2. PICK S : value \in Seq(S)
    BY <2>1 DEF IsText, IsSequence
  <2>3. Len(value) \in Nat \ {0}
    BY <2>1, TextLengths
  <2>4. Block(data, k) = [value EXCEPT ![1] = first]
    BY <1>2 DEF Block
  <2> HIDE DEF value, first
  <2>5. value \in Seq(S \cup {first}) /\ first \in S \cup {first} /\ 1 \in 1..Len(value)
    BY <2>2, <2>3, SeqMonotonic
  <2>6. /\ [value EXCEPT ![1] = first] \in Seq(S \cup {first})
        /\ Len([value EXCEPT ![1] = first]) = Len(value)
        /\ \A j \in 1..Len(value) :
              [value EXCEPT ![1] = first][j] = IF j = 1 THEN first ELSE value[j]
    BY <2>5, ExceptSeq
  <2>7. /\ IsSequence(Block(data, k))
        /\ Len(Block(data, k)) = Len(value)
        /\ Block(data, k)[1] = first
        /\ \A x \in 2..Len(value) : Block(data, k)[x] = value[x]
    <3>1. IsSequence(Block(data, k)) /\ Len(Block(data, k)) = Len(value)
      BY <2>4, <2>6 DEF IsSequence
    <3>2. Block(data, k)[1] = first
      BY <2>4, <2>5, <2>6
    <3>3. ASSUME NEW x \in 2..Len(value) PROVE Block(data, k)[x] = value[x]
      <4>1. x \in 1..Len(value) /\ x # 1
        BY <2>3
      <4> QED
        BY <4>1, <2>4, <2>6
    <3> QED
      BY <3>1, <3>2, <3>3
  <2> QED
    BY <1>2, <2>7 DEF value, first
<1> QED
  BY <1>1, <1>2

\* The hashed text has a layout, with a block for each key there may be.
LEMMA HashedTextLayout ==
    ASSUME NEW data, IsData(data)
    PROVE  \E start : IsLayout(start, HashedText(data),
                               [i \in 1..Len(KeyOrder) |-> Block(data, KeyOrder[i])],
                               Len(KeyOrder))
<1> DEFINE n == Len(KeyOrder)
           blocks == [i \in 1..n |-> Block(data, KeyOrder[i])]
<1>1. n \in Nat /\ DOMAIN KeyOrder = 1..n
  BY InputsAssumption, LenProperties
<1>2. Len(blocks) = n
  BY <1>1
<1>3. HashedText(data) = FlattenSeq(blocks)
  BY <1>1 DEF HashedText
<1>4. \A i \in 1..n : IsSequence(blocks[i])
  BY BlockOfKey
<1> HIDE DEF blocks
<1>5. CASE n = 0
  <2>1. Len(HashedText(data)) = 0
    BY <1>2, <1>3, <1>5 DEF FlattenSeq
  <2>2. IsLayout(blocks, HashedText(data), blocks, n)
    BY <1>5, <2>1 DEF IsLayout
  <2> QED
    BY <2>2 DEF blocks
<1>6. CASE n # 0
  <2>1. PICK text : IsBuildUp(text, blocks, n) /\ FlattenSeq(blocks) = text[n]
    BY <1>1, <1>2, <1>6, Flattened
  <2> DEFINE begin == [i \in 0..n |-> IF i = 0 THEN <<>> ELSE text[i]]
  <2>2. ASSUME NEW i \in 1..n PROVE begin[i] = begin[i - 1] \o blocks[i]
    <3>1. text[i] = IF i = 1 THEN blocks[i] ELSE text[i - 1] \o blocks[i]
      BY <2>1 DEF IsBuildUp
    <3>2. begin[i] = text[i] /\ (i # 1 => begin[i - 1] = text[i - 1])
      BY <1>1
    <3>3. CASE i = 1
      <4>1. begin[i - 1] = <<>>
        BY <1>1, <3>3
      <4>2. <<>> \o blocks[i] = blocks[i]
        BY <1>4, ConcatEmptySeq DEF IsSequence
      <4> HIDE DEF begin
      <4> QED
        BY <3>1, <3>2, <3>3, <4>1, <4>2
    <3>4. CASE i # 1
      <4> HIDE DEF begin
      <4> QED
        BY <3>1, <3>2, <3>4
    <3> QED
      BY <3>3, <3>4
  <2>3. begin[0] = <<>> /\ begin[n] = HashedText(data)
    BY <1>1, <1>3, <1>6, <2>1
  <2> HIDE DEF begin
  <2>4. \E start : IsLayout(start, begin[n], blocks, n)
    BY <1>1, <1>4, <2>2, <2>3, LayoutExists
  <2> QED
    BY <2>3, <2>4 DEF blocks
<1> QED
  BY <1>5, <1>6

\* Where each key's lines are in a hashed text.
IsReading(start, text, data) ==
    /\ Len(text) \in Nat
    /\ \A k \in DOMAIN data :
          /\ start[k] \in Nat
          /\ start[k] + Len(data[k]) <= Len(text)
          /\ text[start[k] + 1] = <<k>> \o data[k][1]
          /\ \A x \in 2..Len(data[k]) : text[start[k] + x] = data[k][x]
    /\ \A y \in 1..Len(text) :
          \E k \in DOMAIN data : \E x \in 1..Len(data[k]) : y = start[k] + x
    /\ \A k \in DOMAIN data : start[k] + Len(data[k]) < Len(text) =>
          \E l \in DOMAIN data : start[l] = start[k] + Len(data[k])

\* Every hashed text can be read.
LEMMA ReadingExists ==
    ASSUME NEW data, IsData(data)
    PROVE  \E start : IsReading(start, HashedText(data), data)
<1> DEFINE n == Len(KeyOrder)
           blocks == [i \in 1..n |-> Block(data, KeyOrder[i])]
           text == HashedText(data)
<1>1. PICK place : IsLayout(place, text, blocks, n)
  BY HashedTextLayout
<1>2. n \in Nat /\ DOMAIN KeyOrder = 1..n
  BY InputsAssumption, LenProperties
<1>3. \A k \in Keys : \E i \in 1..n : KeyOrder[i] = k
  BY <1>2 DEF Keys, ToSet
<1> DEFINE index(k) == CHOOSE i \in 1..n : KeyOrder[i] = k
           start == [k \in DOMAIN data |-> place[index(k)]]
<1>4. ASSUME NEW k \in DOMAIN data
      PROVE  /\ index(k) \in 1..n /\ KeyOrder[index(k)] = k
             /\ blocks[index(k)] = Block(data, k)
             /\ start[k] = place[index(k)]
  <2>1. k \in Keys
    BY DEF IsData
  <2>2. index(k) \in 1..n /\ KeyOrder[index(k)] = k
    BY <2>1, <1>3
  <2> HIDE DEF index
  <2> QED
    BY <2>2
<1>5. ASSUME NEW i \in 1..n, KeyOrder[i] \in DOMAIN data
      PROVE  start[KeyOrder[i]] = place[i]
  <2>1. index(KeyOrder[i]) \in 1..n /\ KeyOrder[index(KeyOrder[i])] = KeyOrder[i]
    BY <1>4, <1>5
  <2> HIDE DEF index
  <2>2. index(KeyOrder[i]) = i
    BY <2>1, <1>2, InputsAssumption DEF IsInjective
  <2> QED
    BY <1>5, <2>2
<1>6. ASSUME NEW i \in 1..n, Len(blocks[i]) > 0
      PROVE  /\ KeyOrder[i] \in DOMAIN data
             /\ Len(blocks[i]) = Len(data[KeyOrder[i]])
             /\ start[KeyOrder[i]] = place[i]
  <2> DEFINE key == KeyOrder[i]
             block == Block(data, key)
  <2>1. blocks[i] = block
    OBVIOUS
  <2>2. /\ key \notin DOMAIN data => Len(block) = 0
        /\ key \in DOMAIN data => Len(block) = Len(data[key])
    <3> HIDE DEF key
    <3> QED
      BY BlockOfKey
  <2> HIDE DEF block, blocks, start
  <2>3. key \in DOMAIN data /\ Len(blocks[i]) = Len(data[key])
    BY <2>1, <2>2, <1>6
  <2> QED
    BY <2>3, <1>5
<1> HIDE DEF index, start, text
<1>7. ASSUME NEW k \in DOMAIN data
      PROVE  /\ start[k] \in Nat
             /\ Len(blocks[index(k)]) = Len(data[k])
             /\ start[k] + Len(data[k]) <= Len(text)
             /\ text[start[k] + 1] = <<k>> \o data[k][1]
             /\ \A x \in 2..Len(data[k]) : text[start[k] + x] = data[k][x]
  <2> DEFINE block == Block(data, k)
  <2>1. /\ Len(block) = Len(data[k])
        /\ block[1] = <<k>> \o data[k][1]
        /\ \A x \in 2..Len(data[k]) : block[x] = data[k][x]
    BY BlockOfKey
  <2>2. blocks[index(k)] = block /\ start[k] = place[index(k)] /\ index(k) \in 1..n
    BY <1>4
  <2> HIDE DEF block, blocks
  <2>3. /\ start[k] \in Nat
        /\ start[k] + Len(block) <= Len(text)
        /\ \A x \in 1..Len(block) : text[start[k] + x] = block[x]
    BY <1>1, <2>2 DEF IsLayout
  <2>4. Len(data[k]) \in Nat \ {0}
    BY TextLengths DEF IsData
  <2>5. 1 \in 1..Len(block) /\ \A x \in 2..Len(data[k]) : x \in 1..Len(block)
    BY <2>1, <2>4
  <2> QED
    BY <2>1, <2>2, <2>3, <2>5
<1>8. ASSUME NEW y \in 1..Len(text)
      PROVE  \E k \in DOMAIN data : \E x \in 1..Len(data[k]) : y = start[k] + x
  <2> HIDE DEF blocks
  <2>1. PICK i \in 1..n : \E x \in 1..Len(blocks[i]) : y = place[i] + x
    BY <1>1 DEF IsLayout
  <2>2. Len(blocks[i]) > 0
    <3>1. Len(blocks[i]) \in Nat
      BY BlockOfKey, LenProperties DEF IsSequence, blocks
    <3> QED
      BY <2>1, <3>1
  <2> QED
    BY <2>1, <2>2, <1>6
<1>9. ASSUME NEW k \in DOMAIN data, start[k] + Len(data[k]) < Len(text)
      PROVE  \E l \in DOMAIN data : start[l] = start[k] + Len(data[k])
  <2> HIDE DEF blocks
  <2>1. /\ index(k) \in 1..n /\ start[k] = place[index(k)]
        /\ Len(blocks[index(k)]) = Len(data[k])
    BY <1>4, <1>7
  <2>2. PICK j \in 1..n : /\ Len(blocks[j]) > 0
                          /\ place[j] = place[index(k)] + Len(blocks[index(k)])
    BY <1>1, <1>9, <2>1 DEF IsLayout
  <2> QED
    BY <2>1, <2>2, <1>6
<1>10. Len(text) \in Nat
  BY <1>1 DEF IsLayout
<1>11. IsReading(start, text, data)
  BY <1>7, <1>8, <1>9, <1>10 DEF IsReading
<1> QED
  BY <1>11 DEF text

IsLegible(data) == \A k \in DOMAIN data : ~Ambiguous(data[k])

\* Two legible data with one text: what one has, the other has at the same place, and
\* no longer.
LEMMA SamePlaces ==
    ASSUME NEW d, IsData(d), IsLegible(d), NEW e, IsData(e), IsLegible(e),
           NEW text, NEW s, IsReading(s, text, d), NEW t, IsReading(t, text, e),
           NEW k \in DOMAIN d
    PROVE  k \in DOMAIN e /\ s[k] = t[k] /\ Len(e[k]) <= Len(d[k])
<1> DEFINE Opens(y, l) == Len(text[y]) > 1 /\ text[y][1] = l
<1>1. ASSUME NEW l \in DOMAIN d
      PROVE  l \in Keys /\ s[l] + 1 \in 1..Len(text) /\ Opens(s[l] + 1, l)
  <2>1. IsText(d[l]) /\ l \in Keys
    BY DEF IsData
  <2>2. Len(d[l]) \in Nat \ {0} /\ IsLine(d[l][1])
    BY <2>1, TextLengths DEF IsText
  <2> DEFINE line == d[l][1]
             named == <<l>> \o line
  <2>3. Len(named) > 1 /\ named[1] = l
    <3>1. IsLine(line)
      BY <2>2
    <3> HIDE DEF line
    <3>2. Len(named) = Len(line) + 1 /\ Len(line) \in Nat \ {0} /\ named[1] = l
      BY <3>1, NamedLine
    <3> HIDE DEF named
    <3> QED
      BY <3>2
  <2>4. /\ s[l] \in Nat /\ s[l] + Len(d[l]) <= Len(text) /\ Len(text) \in Nat
        /\ text[s[l] + 1] = named
    BY DEF IsReading
  <2> HIDE DEF named
  <2>5. s[l] + 1 \in 1..Len(text)
    BY <2>2, <2>4
  <2> QED
    BY <2>1, <2>3, <2>4, <2>5
<1>2. ASSUME NEW y \in 1..Len(text), NEW l \in Keys, Opens(y, l)
      PROVE  l \in DOMAIN e /\ y = t[l] + 1
  <2>1. PICK m \in DOMAIN e : \E x \in 1..Len(e[m]) : y = t[m] + x
    BY DEF IsReading
  <2>2. PICK x \in 1..Len(e[m]) : y = t[m] + x
    BY <2>1
  <2>3. Len(e[m]) \in Nat \ {0} /\ IsLine(e[m][1])
    BY TextLengths DEF IsData, IsText
  <2>4. CASE x = 1
    <3> DEFINE line == e[m][1]
               named == <<m>> \o line
    <3>1. text[y] = named /\ IsLine(line)
      BY <2>2, <2>3, <2>4 DEF IsReading
    <3>2. text[y][1] = m
      <4> HIDE DEF line
      <4> QED
        BY <3>1, NamedLine
    <3> QED
      BY <3>2, <1>2, <2>2, <2>4
  <2>5. CASE x # 1
    <3>1. x \in 2..Len(e[m])
      BY <2>3, <2>5
    <3>2. text[y] = e[m][x]
      BY <3>1, <2>2 DEF IsReading
    <3>3. Ambiguous(e[m])
      BY <3>1, <3>2, <1>2 DEF Ambiguous
    <3> QED
      BY <3>3 DEF IsLegible
  <2> QED
    BY <2>4, <2>5
<1> HIDE DEF Opens
<1>3. k \in DOMAIN e /\ s[k] + 1 = t[k] + 1
  BY <1>1, <1>2
<1>4. s[k] \in Nat /\ t[k] \in Nat
  BY <1>3 DEF IsReading
<1>5. s[k] = t[k]
  BY <1>3, <1>4
<1>6. ASSUME Len(d[k]) < Len(e[k]) PROVE FALSE
  <2>1. Len(d[k]) \in Nat \ {0} /\ Len(e[k]) \in Nat \ {0}
    BY <1>3, TextLengths DEF IsData
  <2>2. t[k] + Len(e[k]) <= Len(text) /\ Len(text) \in Nat
    BY <1>3 DEF IsReading
  <2>3. s[k] + Len(d[k]) < Len(text)
    BY <1>4, <1>5, <1>6, <2>1, <2>2
  <2>4. PICK l \in DOMAIN d : s[l] = s[k] + Len(d[k])
    BY <2>3 DEF IsReading
  <2> DEFINE x == Len(d[k]) + 1
  <2>5. x \in 2..Len(e[k]) /\ s[l] + 1 = t[k] + x
    <3> DEFINE a == Len(d[k])
               b == Len(e[k])
    <3>1. a \in Nat \ {0} /\ b \in Nat /\ a < b /\ t[k] \in Nat /\ s[l] = t[k] + a
      BY <1>4, <1>5, <1>6, <2>1, <2>4
    <3> HIDE DEF a, b
    <3>2. a + 1 \in 2..b /\ s[l] + 1 = t[k] + (a + 1)
      BY <3>1
    <3> QED
      BY <3>2 DEF a, b
  <2> HIDE DEF x
  <2>6. text[s[l] + 1] = e[k][x]
    <3>1. text[t[k] + x] = e[k][x]
      BY <1>3, <2>5 DEF IsReading
    <3> QED
      BY <2>5, <3>1
  <2>7. Ambiguous(e[k])
    BY <1>1, <2>5, <2>6 DEF Ambiguous, Opens
  <2> QED
    BY <1>3, <2>7 DEF IsLegible
<1>7. Len(e[k]) <= Len(d[k])
  <2>1. Len(d[k]) \in Nat /\ Len(e[k]) \in Nat
    BY <1>3, TextLengths DEF IsData
  <2> QED
    BY <2>1, <1>6
<1> QED
  BY <1>3, <1>5, <1>7

\* Sequences with the same elements are the same.
LEMMA SameElements ==
    ASSUME NEW s, IsSequence(s), NEW t, IsSequence(t),
           Len(s) = Len(t), \A i \in 1..Len(s) : s[i] = t[i]
    PROVE  s = t
<1>1. PICK S : s \in Seq(S)
  BY DEF IsSequence
<1>2. PICK T : t \in Seq(T)
  BY DEF IsSequence
<1>3. s \in Seq(S \cup T) /\ t \in Seq(S \cup T)
  BY <1>1, <1>2, SeqMonotonic
<1> QED
  BY <1>3, SeqEqual

\* Lines that are the same with a name in front are the same.
LEMMA SameLine ==
    ASSUME NEW k, NEW a, IsLine(a), NEW b, IsLine(b), <<k>> \o a = <<k>> \o b
    PROVE  a = b
<1> DEFINE c == <<k>> \o a
           d == <<k>> \o b
<1>1. /\ Len(c) = Len(a) + 1 /\ Len(a) \in Nat
      /\ \A i \in 1..Len(a) : c[i + 1] = a[i]
  BY NamedLine
<1>2. /\ Len(d) = Len(b) + 1 /\ Len(b) \in Nat
      /\ \A i \in 1..Len(b) : d[i + 1] = b[i]
  BY NamedLine
<1>3. c = d
  OBVIOUS
<1> HIDE DEF c, d
<1>4. Len(a) = Len(b)
  BY <1>1, <1>2, <1>3
<1>5. \A i \in 1..Len(a) : a[i] = b[i]
  BY <1>1, <1>2, <1>3, <1>4
<1> QED
  BY <1>4, <1>5, SameElements DEF IsLine

\* The hashed text tells legible data apart, whatever the keys and the values.
LEMMA HashTellsApart ==
    ASSUME NEW d, IsData(d), IsLegible(d), NEW e, IsData(e), IsLegible(e),
           HashedText(d) = HashedText(e)
    PROVE  DOMAIN d = DOMAIN e /\ \A k \in DOMAIN d : d[k] = e[k]
<1> DEFINE text == HashedText(d)
<1>1. PICK s : IsReading(s, text, d)
  BY ReadingExists
<1>2. PICK t : IsReading(t, text, e)
  BY ReadingExists
<1> HIDE DEF text
<1>3. \A k \in DOMAIN d : k \in DOMAIN e /\ s[k] = t[k] /\ Len(e[k]) <= Len(d[k])
  BY <1>1, <1>2, SamePlaces
<1>4. \A k \in DOMAIN e : k \in DOMAIN d /\ t[k] = s[k] /\ Len(d[k]) <= Len(e[k])
  BY <1>1, <1>2, SamePlaces
<1>5. ASSUME NEW k \in DOMAIN d PROVE d[k] = e[k]
  <2> DEFINE v == d[k]
             w == e[k]
             a == v[1]
             b == w[1]
  <2>1. k \in DOMAIN e /\ s[k] = t[k] /\ Len(w) <= Len(v) /\ Len(v) <= Len(w)
    BY <1>3, <1>4
  <2>2. IsText(v) /\ IsText(w)
    BY <2>1 DEF IsData
  <2>3. Len(v) \in Nat \ {0} /\ Len(w) \in Nat \ {0}
    BY <2>2, TextLengths
  <2>4. Len(v) = Len(w)
    BY <2>1, <2>3
  <2>5. IsLine(a) /\ IsLine(b)
    BY <2>2, <2>3 DEF IsText
  <2>6. /\ text[s[k] + 1] = <<k>> \o a
        /\ \A x \in 2..Len(v) : text[s[k] + x] = v[x]
    BY <1>1 DEF IsReading
  <2>7. /\ text[t[k] + 1] = <<k>> \o b
        /\ \A x \in 2..Len(w) : text[t[k] + x] = w[x]
    BY <1>2, <2>1 DEF IsReading
  <2>8. a = b
    <3> HIDE DEF a, b
    <3>1. <<k>> \o a = <<k>> \o b
      BY <2>1, <2>6, <2>7
    <3> QED
      BY <2>5, <3>1, SameLine
  <2> HIDE DEF v, w
  <2>9. ASSUME NEW x \in 1..Len(v) PROVE v[x] = w[x]
    <3>1. CASE x = 1
      BY <2>8, <3>1
    <3>2. CASE x # 1
      <4>1. x \in 2..Len(v) /\ x \in 2..Len(w)
        BY <2>3, <2>4, <3>2
      <4> QED
        BY <4>1, <2>1, <2>6, <2>7
    <3> QED
      BY <3>1, <3>2
  <2>10. v = w
    BY <2>2, <2>4, <2>9, SameElements DEF IsText
  <2> QED
    BY <2>10 DEF v, w
<1> QED
  BY <1>3, <1>4, <1>5

-----------------------------------------------------------------------------
(* What a reconciliation builds *)

\* The texts of the model are texts.
LEMMA TextsAreTexts == ASSUME NEW value \in Texts PROVE IsText(value)
<1>1. value \in Seq(Seq(STRING) \ {<<>>}) /\ value # <<>>
  BY DEF Texts
<1>2. \A i \in 1..Len(value) : value[i] \in Seq(STRING) \ {<<>>}
  BY <1>1, ElementOfSeq
<1> QED
  BY <1>1, <1>2 DEF IsText, IsLine, IsSequence

\* One line is a text.
LEMMA LineIsText == ASSUME NEW string PROVE IsText(Line(string))
<1> DEFINE line == <<string>>
<1>1. line \in Seq({string}) /\ line # <<>>
  OBVIOUS
<1>2. IsLine(line)
  BY <1>1 DEF IsLine, IsSequence
<1> HIDE DEF line
<1>3. /\ <<line>> \in Seq({line}) /\ <<line>> # <<>>
      /\ \A i \in 1..Len(<<line>>) : <<line>>[i] = line
  OBVIOUS
<1>4. IsText(<<line>>)
  BY <1>2, <1>3 DEF IsText, IsSequence
<1> QED
  BY <1>4 DEF Line, line

\* A text stays one with another first line.
LEMMA FirstLineReplaced ==
    ASSUME NEW value, IsText(value), NEW line, IsLine(line)
    PROVE  IsText([value EXCEPT ![1] = line])
<1>1. PICK S : value \in Seq(S)
  BY DEF IsText, IsSequence
<1>2. Len(value) \in Nat \ {0}
  BY TextLengths
<1>3. value \in Seq(S \cup {line}) /\ line \in S \cup {line} /\ 1 \in 1..Len(value)
  BY <1>1, <1>2, SeqMonotonic
<1> DEFINE new == [value EXCEPT ![1] = line]
<1>4. /\ new \in Seq(S \cup {line}) /\ Len(new) = Len(value)
      /\ \A j \in 1..Len(value) : new[j] = IF j = 1 THEN line ELSE value[j]
  BY <1>3, ExceptSeq
<1> HIDE DEF new
<1>5. new # <<>>
  BY <1>2, <1>4, EmptySeq
<1>6. \A j \in 1..Len(new) : IsLine(new[j])
  BY <1>4 DEF IsText
<1>7. IsText(new)
  BY <1>4, <1>5, <1>6 DEF IsText, IsSequence
<1> QED
  BY <1>7 DEF new

\* A labelled text is one.
LEMMA LabelledIsText ==
    ASSUME NEW label, NEW value, IsText(value)
    PROVE  IsText(Labelled(label, value))
<1> DEFINE line == value[1]
           part == label \o line[1]
           new == [line EXCEPT ![1] = part]
<1>1. IsLine(line)
  BY TextLengths DEF IsText
<1>2. PICK S : line \in Seq(S)
  BY <1>1 DEF IsLine, IsSequence
<1> HIDE DEF line, part
<1>3. Len(line) \in Nat \ {0}
  BY <1>1, <1>2, EmptySeq DEF IsLine
<1>4. line \in Seq(S \cup {part}) /\ part \in S \cup {part} /\ 1 \in 1..Len(line)
  BY <1>2, <1>3, SeqMonotonic
<1>5. new \in Seq(S \cup {part}) /\ Len(new) = Len(line)
  BY <1>4, ExceptSeq
<1>6. IsLine(new)
  BY <1>3, <1>5, EmptySeq DEF IsLine, IsSequence
<1>7. Labelled(label, value) = [value EXCEPT ![1] = new]
  BY DEF Labelled, line, part
<1> HIDE DEF new
<1>8. IsText([value EXCEPT ![1] = new])
  BY <1>6, FirstLineReplaced, Zenon
<1> QED
  BY <1>7, <1>8, Zenon

\* One text after another is a text.
LEMMA TextAfterText ==
    ASSUME NEW v, IsText(v), NEW w, IsText(w)
    PROVE  IsText(v \o w)
<1> DEFINE both == v \o w
<1>1. IsSequence(v) /\ IsSequence(w)
  BY DEF IsText
<1>2. /\ IsSequence(both)
      /\ Len(both) = Len(v) + Len(w)
      /\ \A i \in 1..Len(v) : both[i] = v[i]
      /\ \A i \in 1..Len(w) : both[Len(v) + i] = w[i]
  BY <1>1, Concatenation
<1>3. Len(v) \in Nat \ {0} /\ Len(w) \in Nat \ {0}
  BY TextLengths
<1> HIDE DEF both
<1>4. both # <<>>
  BY <1>2, <1>3, EmptySeq
<1>5. ASSUME NEW i \in 1..Len(both) PROVE IsLine(both[i])
  <2>1. CASE i \in 1..Len(v)
    BY <2>1, <1>2 DEF IsText
  <2>2. CASE i \notin 1..Len(v)
    <3>1. i - Len(v) \in 1..Len(w) /\ Len(v) + (i - Len(v)) = i
      BY <2>2, <1>2, <1>3
    <3> QED
      BY <3>1, <1>2 DEF IsText
  <2> QED
    BY <2>1, <2>2
<1>6. IsText(both)
  BY <1>2, <1>4, <1>5 DEF IsText
<1> QED
  BY <1>6 DEF both

HasTexts(data) == \A k \in DOMAIN data : IsText(data[k])

\* Data copied over data.
LEMMA CopyHasTexts ==
    ASSUME NEW a, HasTexts(a), NEW b, HasTexts(b)
    PROVE  HasTexts(Copy(a, b))
  BY DEF HasTexts, Copy

\* The fields of the OIDC data but for the redirect URIs.
LEMMA OIDCDataHasTexts ==
    ASSUME NEW slug, NEW p \in Providers
    PROVE  /\ IsText(BuildOIDCData(slug, p).ClientID)
           /\ IsText(BuildOIDCData(slug, p).ClientSecret)
           /\ IsText(BuildOIDCData(slug, p).AuthorizeURL)
           /\ IsText(BuildOIDCData(slug, p).TokenURL)
           /\ IsText(BuildOIDCData(slug, p).UserinfoURL)
           /\ IsText(BuildOIDCData(slug, p).IssuerURL)
           /\ IsText(BuildOIDCData(slug, p).LogoutURL)
           /\ IsText(BuildOIDCData(slug, p).Scopes)
           /\ \A field \in DOMAIN BuildOIDCData(slug, p) \ {"RedirectURIs"} :
                 IsText(BuildOIDCData(slug, p)[field])
<1>1. IsText(p.clientID) /\ IsText(p.clientSecret)
  BY InputsAssumption, TextsAreTexts
<1>2. \A string : IsText(Line(string))
  BY LineIsText
<1> DEFINE d == BuildOIDCData(slug, p)
<1>3. /\ IsText(d.ClientID) /\ IsText(d.ClientSecret) /\ IsText(d.AuthorizeURL)
      /\ IsText(d.TokenURL) /\ IsText(d.UserinfoURL) /\ IsText(d.IssuerURL)
      /\ IsText(d.LogoutURL) /\ IsText(d.Scopes)
  BY <1>1, <1>2 DEF BuildOIDCData
<1>4. DOMAIN d = {"ClientID", "ClientSecret", "AuthorizeURL", "TokenURL", "UserinfoURL",
                  "IssuerURL", "LogoutURL", "Scopes", "RedirectURIs"}
  BY DEF BuildOIDCData
<1> HIDE DEF d
<1>5. \A field \in DOMAIN d \ {"RedirectURIs"} : IsText(d[field])
  BY <1>3, <1>4
<1> QED
  BY <1>3, <1>5, Zenon DEF d

\* What every profile makes.
LEMMA ProfileHasTexts ==
    ASSUME NEW s \in Specs, NEW p \in Providers
    PROVE  HasTexts(FromProfile(s.profile, BuildOIDCData(s.slug, p), s.overrides))
<1> DEFINE d == BuildOIDCData(s.slug, p)
<1>1. /\ IsText(d.ClientID) /\ IsText(d.ClientSecret) /\ IsText(d.AuthorizeURL)
      /\ IsText(d.TokenURL) /\ IsText(d.UserinfoURL) /\ IsText(d.IssuerURL)
      /\ IsText(d.LogoutURL) /\ IsText(d.Scopes)
  BY OIDCDataHasTexts
<1>2. \A string : IsText(Line(string))
  BY LineIsText
<1> HIDE DEF d
<1>3. HasTexts(Grafana(d))
  <2> DEFINE root == IF HasAppRootURL(d) THEN [GF_SERVER_ROOT_URL |-> AppRootURL(d)]
                     ELSE <<>>
  <2>1. HasTexts(root)
    <3>1. CASE HasAppRootURL(d)
      BY <3>1, <1>2 DEF HasTexts, AppRootURL
    <3>2. CASE ~ HasAppRootURL(d)
      BY <3>2 DEF HasTexts
    <3> QED
      BY <3>1, <3>2
  <2> HIDE DEF root
  <2> QED
    BY <1>1, <1>2, <2>1, CopyHasTexts DEF HasTexts, Grafana, root
<1>4. HasTexts(OpenWebUI(d))
  BY <1>1, <1>2 DEF HasTexts, OpenWebUI
<1>5. HasTexts(ArgoCD(d))
  BY <1>1, <1>2 DEF HasTexts, ArgoCD, Copy
<1>6. HasTexts(RAGFlow(d, s.overrides))
  <2> DEFINE uri == IF "redirect_uri" \in DOMAIN s.overrides
                    THEN s.overrides["redirect_uri"].raw ELSE Line("")
  <2>1. IsText(uri)
    BY <1>2, InputsAssumption, TextsAreTexts
  <2> HIDE DEF uri
  <2>2. IsText(ServiceConfYAML(d, uri))
    <3> DEFINE title == Line("oauth:")
               id == Labelled("client_id: ", d.ClientID)
               key == Labelled("client_secret: ", d.ClientSecret)
               issuer == Labelled("issuer: ", d.IssuerURL)
               scope == Labelled("scope: ", d.Scopes)
               redirect == Labelled("redirect_uri: ", uri)
    <3>1. /\ IsText(title) /\ IsText(id) /\ IsText(key) /\ IsText(issuer)
          /\ IsText(scope) /\ IsText(redirect)
      BY <1>1, <1>2, <2>1, LabelledIsText
    <3>2. ServiceConfYAML(d, uri) = title \o id \o key \o issuer \o scope \o redirect
      BY DEF ServiceConfYAML
    <3> HIDE DEF title, id, key, issuer, scope, redirect
    <3>3. IsText(title \o id \o key)
      BY <3>1, TextAfterText, Zenon
    <3>4. IsText(title \o id \o key \o issuer \o scope \o redirect)
      BY <3>1, <3>3, TextAfterText, Zenon
    <3> QED
      BY <3>2, <3>4
  <2> DEFINE yaml == ServiceConfYAML(d, uri)
  <2>3. RAGFlow(d, s.overrides) =
           [client_id |-> d.ClientID, client_secret |-> d.ClientSecret,
            issuer |-> d.IssuerURL, scope |-> d.Scopes, service_conf_yaml |-> yaml]
    BY DEF RAGFlow, uri
  <2>4. IsText(yaml)
    BY <2>2
  <2> HIDE DEF yaml
  <2> QED
    BY <1>1, <2>3, <2>4 DEF HasTexts
<1>7. HasTexts(Harbor(d))
  BY <1>1 DEF HasTexts, Harbor
<1>8. HasTexts(Generic(d))
  BY <1>1 DEF HasTexts, Generic
<1>9. s.profile \in {"grafana", "openwebui", "argocd", "ragflow", "harbor", "generic"}
  BY InputsAssumption
<1>10. HasTexts(FromProfile(s.profile, d, s.overrides))
  BY <1>3, <1>4, <1>5, <1>6, <1>7, <1>8, <1>9 DEF FromProfile
<1> QED
  BY <1>10 DEF d

\* The certificate's keys.
LEMMA CertificateHasTexts ==
    ASSUME NEW profile, NEW p \in Providers, NEW cert \in {None, p.cert}
    PROVE  HasTexts(CertificateData(profile, cert))
<1>1. CASE cert = None
  BY <1>1 DEF CertificateData, HasTexts
<1>2. CASE cert # None
  <2>1. IsText(cert.pem) /\ IsText(cert.fingerprint)
    BY <1>2, InputsAssumption, TextsAreTexts
  <2>2. IsText(Base64(cert.pem))
    BY LineIsText DEF Base64
  <2> QED
    BY <1>2, <2>1, <2>2 DEF CertificateData, HasTexts
<1> QED
  BY <1>1, <1>2

\* Everything that may be built is Secret data.
LEMMA BuiltIsData ==
    ASSUME NEW s \in Specs, NEW p \in Providers, NEW cert \in {None, p.cert}
    PROVE  IsData(BuiltOf(s, p, cert))
<1> DEFINE d == BuildOIDCData(s.slug, p)
           made == FromProfile(s.profile, d, s.overrides)
           resolved == ResolveOverrides(s.overrides, d)
<1>1. HasTexts(made)
  BY ProfileHasTexts
<1>2. HasTexts(resolved)
  <2>1. \A field \in DOMAIN d \ {"RedirectURIs"} : IsText(d[field])
    BY OIDCDataHasTexts
  <2> HIDE DEF d
  <2>2. ASSUME NEW k \in DOMAIN s.overrides PROVE IsText(Rendered(s.overrides[k], d))
    <3>1. IsText(s.overrides[k].raw)
      BY InputsAssumption, TextsAreTexts
    <3> QED
      BY <2>1, <3>1 DEF Rendered
  <2> QED
    BY <2>2 DEF HasTexts, ResolveOverrides
<1>3. HasTexts(CertificateData(s.profile, cert))
  BY CertificateHasTexts
<1> HIDE DEF d, made, resolved
<1>4. HasTexts(Apply(s.profile, d, s.overrides))
  <2>1. HasTexts(Copy(made, resolved))
    BY <1>1, <1>2, CopyHasTexts
  <2> DEFINE both == Copy(made, resolved)
  <2>2. Apply(s.profile, d, s.overrides) = Restrict(both, DOMAIN both \ {"redirect_uri"})
    BY DEF Apply, made, resolved
  <2> HIDE DEF both
  <2> QED
    BY <2>1, <2>2 DEF HasTexts, Restrict, both
<1>5. BuiltOf(s, p, cert) =
         Copy(Apply(s.profile, d, s.overrides), CertificateData(s.profile, cert))
  BY DEF BuiltOf, ApplyWithCert, d
<1>6. HasTexts(BuiltOf(s, p, cert))
  BY <1>3, <1>4, <1>5, CopyHasTexts
<1>7. DOMAIN BuiltOf(s, p, cert) \subseteq Keys
  BY InputsAssumption
<1> QED
  BY <1>6, <1>7 DEF IsData, HasTexts

-----------------------------------------------------------------------------
(* Keys of other managers *)

\* Every entry of the Secret is a value with its owners.
Entries ==
    /\ interventions \in Nat
    /\ \A k \in DOMAIN secret :
          secret[k] = [value |-> secret[k].value, owners |-> secret[k].owners]

\* What server-side apply makes of a Secret with proper entries has proper entries.
LEMMA ApplyKeepsEntries ==
    ASSUME Entries, NEW data
    PROVE  \A k \in DOMAIN ServerSideApply(data) :
              ServerSideApply(data)[k] = [value |-> ServerSideApply(data)[k].value,
                                          owners |-> ServerSideApply(data)[k].owners]
  BY DEF Entries, ServerSideApply

\* Every step keeps the entries proper.
LEMMA EntriesStep == Entries /\ [Next]_vars => Entries'
<1> SUFFICES ASSUME Entries, [Next]_vars PROVE Entries'
  OBVIOUS
<1>1. ASSUME NEW cert, ApplySecret(cert) PROVE Entries'
  BY <1>1, ApplyKeepsEntries DEF ApplySecret, Entries
<1>2. ASSUME NEW s \in Specs, Edit(s) PROVE Entries'
  BY <1>2 DEF Edit, Entries
<1>3. ASSUME NEW p \in Providers, Rotate(p) PROVE Entries'
  BY <1>3 DEF Rotate, Entries
<1>4. ASSUME NEW k \in OthersKeys, Update(k) PROVE Entries'
  <2>1. /\ interventions' \in Nat
        /\ secret' = Copy(secret, [l \in {k} |-> [value |-> OthersValue,
                                                 owners |-> {Others}]])
    BY <1>4 DEF Update, Entries
  <2>2. ASSUME NEW l \in DOMAIN secret'
        PROVE  secret'[l] = [value |-> secret'[l].value, owners |-> secret'[l].owners]
    BY <2>1, <2>2 DEF Entries, Copy
  <2> QED
    BY <2>1, <2>2 DEF Entries
<1>5. CASE RecordStatus \/ RecordFails
  BY <1>5 DEF RecordStatus, RecordFails, Entries
<1>6. CASE UNCHANGED vars
  BY <1>6 DEF vars, Entries
<1> QED
  BY <1>1, <1>2, <1>3, <1>4, <1>5, <1>6 DEF Next

\* Without the certificate an apply writes no key it would not write with it.
LEMMA LessWithoutCertificate ==
    ASSUME NEW cert, cert = None \/ cert = provider.cert
    PROVE  DOMAIN Built(cert) \subseteq DOMAIN Wanted
<1>1. DOMAIN CertificateData(spec.profile, None) = {}
  BY DEF CertificateData
<1> QED
  BY <1>1 DEF Built, BuiltOf, Wanted, ApplyWithCert, Copy

\* An apply leaves alone what the operator neither owns nor applies.
LEMMA ApplyLeavesAlone ==
    ASSUME Entries, NEW data, NEW k \in DOMAIN secret,
           ~Owns(Operator, k), k \notin DOMAIN data
    PROVE  /\ k \in DOMAIN ServerSideApply(data)
           /\ ServerSideApply(data)[k] = secret[k]
<1>1. Operator \notin secret[k].owners
  BY DEF Owns
<1>2. secret[k].owners # {Operator} /\ secret[k].owners \ {Operator} = secret[k].owners
  BY <1>1
<1>3. secret[k] = [value |-> secret[k].value, owners |-> secret[k].owners]
  BY DEF Entries
<1> QED
  BY <1>2, <1>3 DEF ServerSideApply

\* In a Secret shared with other managers no reconciliation touches a key that the
\* operator neither owns nor asks for, whatever the profile and the overrides.
THEOREM OthersAreUndisturbed == Spec => OthersUndisturbed
<1>1. Init => Entries
  BY DEF Init, Entries
<1>2. ASSUME Entries, [Next]_vars, interventions' = interventions,
             NEW k \in DOMAIN secret, ~Owns(Operator, k), k \notin DOMAIN Wanted
      PROVE  k \in DOMAIN secret' /\ secret'[k] = secret[k]
  <2>1. ASSUME NEW cert, cert = None \/ cert = provider.cert, ApplySecret(cert)
        PROVE  k \in DOMAIN secret' /\ secret'[k] = secret[k]
    <3>1. k \notin DOMAIN Built(cert)
      BY <1>2, <2>1, LessWithoutCertificate
    <3> QED
      BY <1>2, <2>1, <3>1, ApplyLeavesAlone DEF ApplySecret
  <2>2. ASSUME NEW l \in OthersKeys PROVE ~Update(l)
    BY <1>2 DEF Update, Entries
  <2> QED
    BY <1>2, <2>1, <2>2 DEF Next, RecordStatus, RecordFails, Edit, Rotate, vars
<1>3. Entries /\ [Next]_vars =>
         [interventions' = interventions =>
             \A k \in DOMAIN secret :
                 ~Owns(Operator, k) /\ k \notin DOMAIN Wanted
                     => k \in DOMAIN secret' /\ secret'[k] = secret[k]]_vars
  BY <1>2
<1> QED
  BY <1>1, <1>3, EntriesStep, PTL DEF Spec, OthersUndisturbed

\* Whatever the profile makes of a key, an override of it is what is written, rendered,
\* unless it is redirect_uri, which is never written, or a key of the certificate.
THEOREM OverridesReachTheData ==
    ASSUME NEW cert
    PROVE  /\ "redirect_uri" \notin DOMAIN Built(cert)
           /\ \A k \in DOMAIN spec.overrides :
                 /\ k # "redirect_uri"
                 /\ k \notin DOMAIN CertificateData(spec.profile, cert)
                 => /\ k \in DOMAIN Built(cert)
                    /\ Built(cert)[k] = Rendered(spec.overrides[k],
                                                 BuildOIDCData(spec.slug, provider))
<1>1. "redirect_uri" \notin DOMAIN CertificateData(spec.profile, cert)
  BY DEF CertificateData
<1> QED
  BY <1>1 DEF Built, BuiltOf, ApplyWithCert, Apply, ResolveOverrides, Restrict, Copy

-----------------------------------------------------------------------------
(* The hash of what was applied *)

\* What the operator owns in the Secret is what it has of some data, and none of them
\* are missing.
Holds(data) ==
    /\ \A k \in DOMAIN secret :
          Owns(Operator, k) => k \in DOMAIN data /\ secret[k].value = data[k]
    /\ DOMAIN data \subseteq DOMAIN secret

\* The hash of the last apply is that of data once built, and the Secret still holds
\* them, whether or not the status has recorded it.
HashIsOfTheSecret ==
    /\ spec \in Specs
    /\ provider \in Providers
    /\ applied = <<>> => \A k \in DOMAIN secret : ~Owns(Operator, k)
    /\ applied # <<>> => \E s \in Specs, p \in Providers : \E cert \in {None, p.cert} :
          /\ applied = ComputeSecretHash(BuiltOf(s, p, cert))
          /\ Holds(BuiltOf(s, p, cert))

\* An apply gives up the keys it leaves out and writes all others.
LEMMA ApplyHolds ==
    ASSUME NEW data, secret' = ServerSideApply(data)
    PROVE  Holds(data)'
<1>1. ASSUME NEW k \in DOMAIN secret', Owns(Operator, k)'
      PROVE  k \in DOMAIN data /\ secret'[k].value = data[k]
  <2>1. secret'[k] = ServerSideApply(data)[k] /\ Operator \in secret'[k].owners
    BY <1>1 DEF Owns
  <2>2. k \in DOMAIN data
    BY <2>1 DEF ServerSideApply
  <2> QED
    BY <2>1, <2>2 DEF ServerSideApply
<1>2. DOMAIN data \subseteq DOMAIN secret'
  BY DEF ServerSideApply
<1> QED
  BY <1>1, <1>2 DEF Holds

\* The operator owns nothing more, and nothing goes, when another manager writes.
LEMMA UpdateHolds ==
    ASSUME NEW k, Update(k)
    PROVE  /\ \A l \in DOMAIN secret' : Owns(Operator, l)' =>
                 l \in DOMAIN secret /\ Owns(Operator, l) /\ secret'[l] = secret[l]
           /\ DOMAIN secret \subseteq DOMAIN secret'
<1>1. Operator # Others
  BY DEF Operator, Others
<1> QED
  BY <1>1 DEF Update, Copy, Owns

\* A step keeps the hash of the last apply that of the Secret.
LEMMA HashStep == HashIsOfTheSecret /\ [Next]_vars => HashIsOfTheSecret'
<1> SUFFICES ASSUME HashIsOfTheSecret, [Next]_vars PROVE HashIsOfTheSecret'
  OBVIOUS
<1>1. ASSUME NEW cert \in {None, provider.cert}, ApplySecret(cert) PROVE HashIsOfTheSecret'
  <2> DEFINE data == BuiltOf(spec, provider, cert)
  <2>1. /\ spec \in Specs /\ provider \in Providers
        /\ spec' = spec /\ provider' = provider
        /\ secret' = ServerSideApply(data)
        /\ applied' = ComputeSecretHash(data)
    BY <1>1 DEF HashIsOfTheSecret, ApplySecret, Built
  <2>2. applied' # <<>>
    BY <2>1 DEF ComputeSecretHash
  <2>3. Holds(data)'
    BY <2>1, ApplyHolds
  <2> QED
    BY <2>1, <2>2, <2>3 DEF HashIsOfTheSecret
<1>2. ASSUME NEW s \in Specs, Edit(s) PROVE HashIsOfTheSecret'
  BY <1>2 DEF Edit, HashIsOfTheSecret, Holds, Owns
<1>3. ASSUME NEW p \in Providers, Rotate(p) PROVE HashIsOfTheSecret'
  BY <1>3 DEF Rotate, HashIsOfTheSecret, Holds, Owns
<1>4. ASSUME NEW k \in OthersKeys, Update(k) PROVE HashIsOfTheSecret'
  <2>1. /\ \A l \in DOMAIN secret' : Owns(Operator, l)' =>
              l \in DOMAIN secret /\ Owns(Operator, l) /\ secret'[l] = secret[l]
        /\ DOMAIN secret \subseteq DOMAIN secret'
    BY <1>4, UpdateHolds
  <2>2. spec' = spec /\ provider' = provider /\ applied' = applied
    BY <1>4 DEF Update
  <2>3. ASSUME NEW data, Holds(data)
        PROVE  /\ \A l \in DOMAIN secret' :
                     Owns(Operator, l)' => l \in DOMAIN data /\ secret'[l].value = data[l]
               /\ DOMAIN data \subseteq DOMAIN secret'
    BY <2>1, <2>3 DEF Holds
  <2>4. applied' = <<>> => \A l \in DOMAIN secret' : ~Owns(Operator, l)'
    BY <2>1, <2>2 DEF HashIsOfTheSecret
  <2>5. ASSUME applied' # <<>>
        PROVE  \E s \in Specs, p \in Providers : \E cert \in {None, p.cert} :
                  /\ applied' = ComputeSecretHash(BuiltOf(s, p, cert))
                  /\ Holds(BuiltOf(s, p, cert))'
    <3>1. PICK s \in Specs, p \in Providers : \E cert \in {None, p.cert} :
             applied = ComputeSecretHash(BuiltOf(s, p, cert)) /\ Holds(BuiltOf(s, p, cert))
      BY <2>2, <2>5 DEF HashIsOfTheSecret
    <3>2. PICK cert \in {None, p.cert} :
             applied = ComputeSecretHash(BuiltOf(s, p, cert)) /\ Holds(BuiltOf(s, p, cert))
      BY <3>1
    <3>3. Holds(BuiltOf(s, p, cert))'
      BY <2>3, <3>2 DEF Holds
    <3> QED
      BY <2>2, <3>2, <3>3
  <2> QED
    BY <2>2, <2>4, <2>5 DEF HashIsOfTheSecret
<1>5. CASE RecordStatus \/ RecordFails
  BY <1>5 DEF RecordStatus, RecordFails, HashIsOfTheSecret, Holds, Owns
<1>6. CASE UNCHANGED vars
  BY <1>6 DEF vars, HashIsOfTheSecret, Holds, Owns
<1> QED
  BY <1>1, <1>2, <1>3, <1>4, <1>5, <1>6 DEF Next

\* When the hash of what is wanted is that of the last apply, the Secret holds it.
LEMMA SettledHoldsWanted ==
    ASSUME Legible, HashIsOfTheSecret, Settled
    PROVE  Holds(Wanted)
<1>1. applied # <<>>
  BY DEF Settled, ComputeSecretHash
<1>2. PICK s \in Specs, p \in Providers : \E cert \in {None, p.cert} :
         applied = ComputeSecretHash(BuiltOf(s, p, cert)) /\ Holds(BuiltOf(s, p, cert))
  BY <1>1 DEF HashIsOfTheSecret
<1>3. PICK cert \in {None, p.cert} :
         applied = ComputeSecretHash(BuiltOf(s, p, cert)) /\ Holds(BuiltOf(s, p, cert))
  BY <1>2
<1>4. spec \in Specs /\ provider \in Providers /\ provider.cert \in {None, provider.cert}
  BY DEF HashIsOfTheSecret
<1>5. IsData(BuiltOf(s, p, cert)) /\ IsLegible(BuiltOf(s, p, cert))
  BY BuiltIsData DEF Legible, IsLegible
<1>6. Wanted = BuiltOf(spec, provider, provider.cert)
  BY DEF Wanted, Built
<1>7. IsData(Wanted) /\ IsLegible(Wanted)
  BY <1>4, <1>6, BuiltIsData DEF Legible, IsLegible
<1>8. HashedText(BuiltOf(s, p, cert)) = HashedText(Wanted)
  BY <1>3 DEF Settled, ComputeSecretHash
<1> DEFINE held == BuiltOf(s, p, cert)
<1>9. DOMAIN held = DOMAIN Wanted /\ \A k \in DOMAIN held : held[k] = Wanted[k]
  BY <1>5, <1>7, <1>8, HashTellsApart
<1> QED
  BY <1>3, <1>9 DEF Holds

\* The hash of the last apply is that of the Secret in every state.
LEMMA HashAlways == Spec => []HashIsOfTheSecret
<1>1. Init => HashIsOfTheSecret
  BY DEF Init, HashIsOfTheSecret
<1> QED
  BY <1>1, HashStep, PTL DEF Spec

\* When the hash of what is wanted is the recorded one, and that of the last apply, the
\* operator's keys are what it would write now: the shortcut of Reconcile (157-159)
\* then skips nothing, for any key table, overrides and provider contents whose values
\* the hash can tell apart, whatever status updates were lost before that apply.
THEOREM SkippedIsWanted == ASSUME Legible PROVE Spec => []SettledIsWanted
<1>1. HashIsOfTheSecret => SettledIsWanted
  BY SettledHoldsWanted DEF SettledIsWanted, Holds
<1> QED
  BY <1>1, HashAlways, PTL

\* What the operator holds of an overridden key is the override, rendered.
THEOREM OverridesAlwaysPrevail == ASSUME Legible PROVE Spec => []OverridesPrevail
<1>1. ASSUME HashIsOfTheSecret, Settled
      PROVE  /\ ~Owns(Operator, "redirect_uri")
             /\ \A k \in DOMAIN spec.overrides
                         \ ({"redirect_uri"} \cup
                            DOMAIN CertificateData(spec.profile, provider.cert)) :
                   Owns(Operator, k) =>
                      secret[k].value = Rendered(spec.overrides[k],
                                                 BuildOIDCData(spec.slug, provider))
  <2>1. \A k : Owns(Operator, k) => k \in DOMAIN Wanted /\ secret[k].value = Wanted[k]
    BY <1>1, SettledHoldsWanted DEF Holds, Owns
  <2>2. /\ "redirect_uri" \notin DOMAIN Wanted
        /\ \A k \in DOMAIN spec.overrides :
              /\ k # "redirect_uri"
              /\ k \notin DOMAIN CertificateData(spec.profile, provider.cert)
              => Wanted[k] = Rendered(spec.overrides[k], BuildOIDCData(spec.slug, provider))
    BY OverridesReachTheData DEF Wanted
  <2> QED
    BY <2>1, <2>2
<1>2. HashIsOfTheSecret => OverridesPrevail
  BY <1>1 DEF OverridesPrevail
<1> QED
  BY <1>2, HashAlways, PTL

\* No superseded client secret stays in a key of the operator, as nothing but what it
\* would write now does.
THEOREM RotationsReachTheSecret ==
    ASSUME Legible, SecretsApart PROVE Spec => []RotatedOut
<1>1. ASSUME HashIsOfTheSecret, Settled, NEW p \in Providers,
             p.clientSecret # provider.clientSecret,
             NEW k \in DOMAIN secret, Owns(Operator, k)
      PROVE  ToSet(secret[k].value) \cap Shows(p.clientSecret) = {}
  <2>1. k \in DOMAIN Wanted /\ secret[k].value = Wanted[k]
    BY <1>1, SettledHoldsWanted DEF Holds
  <2>2. ToSet(Wanted[k]) \cap Shows(p.clientSecret) = {}
    BY <1>1, <2>1 DEF SecretsApart, HashIsOfTheSecret, Wanted, Built
  <2> QED
    BY <2>1, <2>2
<1>2. HashIsOfTheSecret => RotatedOut
  BY <1>1 DEF RotatedOut
<1> QED
  BY <1>2, HashAlways, PTL
=============================================================================
