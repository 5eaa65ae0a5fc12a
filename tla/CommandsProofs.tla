---------------------------- MODULE CommandsProofs ----------------------------
(***************************************************************************)
(* What a query over a project answers and what a rename leaves on disk, for *)
(* every project, every name and every answer of the resolution cascade.     *)
(*                                                                          *)
(* The inductions, over the words of a line, the edits of a file, the calls  *)
(* of a name and those a chain follows, are over sets of numbers, from the   *)
(* well-foundedness of < (Induction).                                        *)
(***************************************************************************)
EXTENDS CallChain, FiniteSetTheorems, WellFoundedInduction, TLAPS

-----------------------------------------------------------------------------
(* Induction *)

\* Induction over the natural numbers, of a set of them.
LEMMA Induction ==
    ASSUME NEW S, 0 \in S, \A n \in Nat : n \in S => n + 1 \in S
    PROVE  \A n \in Nat : n \in S
<1> DEFINE T == Nat \ S
<1> SUFFICES ASSUME T # {} PROVE FALSE
    OBVIOUS
<1>1. PICK n \in T : \A m \in T : ~ (<<m, n>> \in OpToRel(<, Nat))
      BY NatLessThanWellFounded, WFMin
<1>2. n \in Nat /\ n # 0 /\ n - 1 \in Nat
      OBVIOUS
<1>3. n - 1 \in T
      BY <1>2
<1>4. <<n - 1, n>> \in OpToRel(<, Nat)
      BY <1>2 DEF OpToRel
<1> QED
    BY <1>1, <1>3, <1>4

\* Of a set of numbers one is the least.
LEMMA Least ==
    ASSUME NEW S, S \subseteq Nat, S # {}
    PROVE  \E m \in S : \A n \in S : m <= n
<1>1. PICK m \in S : \A n \in S : ~ (<<n, m>> \in OpToRel(<, Nat))
      BY NatLessThanWellFounded, WFMin
<1>2. ASSUME NEW n \in S, n < m PROVE <<n, m>> \in OpToRel(<, Nat)
      BY <1>2 DEF OpToRel
<1>3. m \in Nat /\ \A n \in S : n \in Nat /\ ~ (n < m)
      BY <1>1, <1>2
<1> QED
    BY <1>3

-----------------------------------------------------------------------------
(* The text of a line *)

Text == Seq(Letters \cup {Space})

\* Texts put together are texts.
LEMMA TextFacts ==
    /\ <<>> \in Text
    /\ \A i : Gap(i) \in Text
    /\ \A p, q \in Text : /\ p \o q \in Text /\ Len(p) \in Nat
                          /\ Len(p \o q) = Len(p) + Len(q) /\ p \o <<>> = p
<1>1. <<>> \in Text /\ <<Space>> \in Text
      BY DEF Text
<1>2. ASSUME NEW i PROVE Gap(i) \in Text
  <2>1. CASE i = 1
        BY <1>1, <2>1 DEF Gap
  <2>2. CASE i # 1
        BY <1>1, <2>2 DEF Gap
  <2> QED
      BY <2>1, <2>2
<1>3. \A p, q \in Text : /\ p \o q \in Text /\ Len(p) \in Nat
                        /\ Len(p \o q) = Len(p) + Len(q) /\ p \o <<>> = p
      BY DEF Text
<1> QED
    BY <1>1, <1>2, <1>3

\* How they are grouped makes no difference.
LEMMA Associative ==
    ASSUME NEW p, NEW q, NEW r, p \in Text, q \in Text, r \in Text
    PROVE  (p \o q) \o r = p \o (q \o r)
BY DEF Text

AreTexts(p, q, r, s, t) ==
    p \in Text /\ q \in Text /\ r \in Text /\ s \in Text /\ t \in Text

Regroups(p, q, r, s, t) == ((p \o q \o r) \o s) \o t = p \o q \o (r \o (s \o t))

LEMMA Regroup ==
    ASSUME NEW p, NEW q, NEW r, NEW s, NEW t, AreTexts(p, q, r, s, t)
    PROVE  Regroups(p, q, r, s, t)
<1>1. p \in Text /\ q \in Text /\ r \in Text /\ s \in Text /\ t \in Text
      BY DEF AreTexts
<1>2. PICK u : u = p \o q
      OBVIOUS
<1>3. u \in Text /\ r \in Text
      BY <1>1, <1>2, TextFacts
<1>4. PICK v : v = u \o r
      OBVIOUS
<1>5. v \in Text /\ s \in Text /\ t \in Text
      BY <1>1, <1>3, <1>4, TextFacts
<1>6. PICK w : w = s \o t
      OBVIOUS
<1>7. w \in Text
      BY <1>5, <1>6, TextFacts
<1>8. (v \o s) \o t = v \o (s \o t)
      BY <1>5, Associative
<1>9. (u \o r) \o w = u \o (r \o w)
      BY <1>3, <1>7, Associative
<1> QED
    BY <1>2, <1>4, <1>6, <1>8, <1>9 DEF Regroups

\* A line of words that have a text, renamed or not.
IsLine(line) ==
    /\ Len(line) \in Nat
    /\ \A i \in 1..Len(line) : line[i].text \in Text

\* A line's text begins with its first words.
LEMMA BeginningStep ==
    ASSUME NEW line, Len(line) \in Nat
    PROVE  /\ Beginning(line, 0) = <<>>
           /\ \A k \in Nat : k + 1 <= Len(line) =>
                Beginning(line, k + 1) = Beginning(line, k) \o Gap(k + 1) \o line[k + 1].text
<1> DEFINE n == Len(line)
           With(g, i) == IF i = 0 THEN <<>> ELSE g[i - 1] \o Gap(i) \o line[i].text
           Until(k) == \E g : \A i \in 0..n : i <= k => g[i] = With(g, i)
           S == {k \in Nat : Until(k)}
<1>1. Until(0)
  <2> DEFINE g == [i \in 0..n |-> <<>>]
  <2>1. ASSUME NEW i \in 0..n, i <= 0 PROVE g[i] = With(g, i)
    <3>1. i = 0
          BY <2>1
    <3> QED
        BY <3>1
  <2> QED
      BY <2>1
<1>2. ASSUME NEW k \in Nat, Until(k) PROVE Until(k + 1)
  <2>1. PICK g : \A i \in 0..n : i <= k => g[i] = With(g, i)
        BY <1>2
  <2> DEFINE h == [i \in 0..n |-> IF i = k + 1 THEN With(g, k + 1) ELSE g[i]]
  <2>2. ASSUME NEW i \in 0..n, i <= k + 1 PROVE h[i] = With(h, i)
    <3>1. i # 0 => h[i - 1] = g[i - 1]
          BY <2>2
    <3>2. With(h, i) = With(g, i)
          BY <3>1
    <3>3. h[i] = With(g, i)
          BY <2>1, <2>2
    <3> QED
        BY <3>2, <3>3
  <2> QED
      BY <2>2
<1>3. Until(n)
  <2> HIDE DEF Until
  <2>1. 0 \in S /\ \A k \in Nat : k \in S => k + 1 \in S
        BY <1>1, <1>2
  <2>2. \A k \in Nat : k \in S
    <3> HIDE DEF S
    <3> QED
        BY <2>1, Induction
  <2> QED
      BY <2>2
<1>4. \E g : g = [i \in 0..n |-> With(g, i)]
  <2>1. PICK g : \A i \in 0..n : g[i] = With(g, i)
        BY <1>3
  <2> DEFINE h == [i \in 0..n |-> g[i]]
  <2>2. \A i \in 0..n : With(h, i) = With(g, i)
        OBVIOUS
  <2>3. h = [i \in 0..n |-> With(h, i)]
        BY <2>1, <2>2
  <2> QED
      BY <2>3
<1> DEFINE text == CHOOSE g : g = [i \in 0..n |-> With(g, i)]
<1>5. text = [i \in 0..n |-> With(text, i)]
      BY <1>4
<1>6. \A m : Beginning(line, m) = text[m]
      BY DEF Beginning
<1> HIDE DEF text
<1>7. Beginning(line, 0) = <<>>
  <2>1. text[0] = With(text, 0)
        BY <1>5
  <2>2. With(text, 0) = <<>>
        OBVIOUS
  <2> QED
      BY <1>6, <2>1, <2>2
<1>8. ASSUME NEW k \in Nat, k + 1 <= n
      PROVE Beginning(line, k + 1) = Beginning(line, k) \o Gap(k + 1) \o line[k + 1].text
  <2>1. text[k + 1] = With(text, k + 1)
        BY <1>5, <1>8
  <2>2. k + 1 # 0 /\ (k + 1) - 1 = k
        OBVIOUS
  <2>3. With(text, k + 1) = text[k] \o Gap(k + 1) \o line[k + 1].text
        BY <2>2
  <2> QED
      BY <1>6, <2>1, <2>3
<1> QED
    BY <1>7, <1>8

\* The words of a line make a text.
LEMMA BeginningType ==
    ASSUME NEW line, IsLine(line)
    PROVE  \A i \in 0..Len(line) : Beginning(line, i) \in Text
<1> DEFINE S == {k \in Nat : k <= Len(line) => Beginning(line, k) \in Text}
<1>2. 0 \in S
      BY BeginningStep, TextFacts DEF IsLine
<1>3. ASSUME NEW k \in Nat, k \in S PROVE k + 1 \in S
  <2> SUFFICES ASSUME k + 1 <= Len(line) PROVE Beginning(line, k + 1) \in Text
      OBVIOUS
  <2>1. Beginning(line, k + 1) = Beginning(line, k) \o Gap(k + 1) \o line[k + 1].text
        BY BeginningStep DEF IsLine
  <2>2. Beginning(line, k) \in Text /\ line[k + 1].text \in Text
        BY <1>3 DEF IsLine
  <2>3. Beginning(line, k) \o Gap(k + 1) \in Text
        BY <2>2, TextFacts
  <2> QED
      BY <2>1, <2>2, <2>3, TextFacts
<1>4. \A k \in Nat : k \in S
  <2> HIDE DEF S
  <2> QED
      BY <1>2, <1>3, Induction
<1> QED
    BY <1>4 DEF IsLine

\* Two lines with the same first words begin with the same letters.
LEMMA SameBeginning ==
    ASSUME NEW line, NEW other, IsLine(line), IsLine(other),
           NEW n \in 0..Len(line), n <= Len(other),
           \A i \in 1..n : line[i].text = other[i].text
    PROVE  Beginning(line, n) = Beginning(other, n)
<1> DEFINE S == {k \in Nat : k <= n => Beginning(line, k) = Beginning(other, k)}
<1>1. 0 \in S
      BY BeginningStep DEF IsLine
<1>2. ASSUME NEW k \in Nat, k \in S PROVE k + 1 \in S
  <2> SUFFICES ASSUME k + 1 <= n PROVE Beginning(line, k + 1) = Beginning(other, k + 1)
      OBVIOUS
  <2>1. /\ k + 1 <= Len(line) /\ k + 1 <= Len(other) /\ k + 1 \in 1..n /\ k <= n
        BY DEF IsLine
  <2>2. Beginning(line, k + 1) = Beginning(line, k) \o Gap(k + 1) \o line[k + 1].text
        BY <2>1, BeginningStep DEF IsLine
  <2>3. Beginning(other, k + 1) = Beginning(other, k) \o Gap(k + 1) \o other[k + 1].text
        BY <2>1, BeginningStep DEF IsLine
  <2> QED
      BY <1>2, <2>1, <2>2, <2>3
<1>3. \A k \in Nat : k \in S
  <2> HIDE DEF S
  <2> QED
      BY <1>1, <1>2, Induction
<1> QED
    BY <1>3 DEF IsLine

\* A word stands between what is before it and what is behind, which are the
\* same in a line that differs in that word only; its column is the first's length.
DifferAt(line, other, k) ==
    /\ IsLine(line) /\ IsLine(other) /\ Len(line) = Len(other)
    /\ k \in 1..Len(line)
    /\ \A i \in 1..Len(line) : i # k => line[i].text = other[i].text

Surrounds(a, b, line, other, k) ==
    /\ a \in Text /\ b \in Text
    /\ Len(a) = ColumnOf(line, k)
    /\ TextOf(line) = a \o line[k].text \o b
    /\ TextOf(other) = a \o other[k].text \o b

LEMMA AroundWord ==
    ASSUME NEW line, NEW other, NEW k, DifferAt(line, other, k)
    PROVE  \E a, b : Surrounds(a, b, line, other, k)
<1>1. /\ IsLine(line) /\ IsLine(other) /\ Len(line) = Len(other)
      /\ k \in 1..Len(line)
      /\ \A i \in 1..Len(line) : i # k => line[i].text = other[i].text
      BY DEF DifferAt
<1> USE <1>1
<1> DEFINE a == Beginning(line, k - 1) \o Gap(k)
           Around(n) == \E b \in Text : /\ Beginning(line, n) = a \o line[k].text \o b
                                        /\ Beginning(other, n) = a \o other[k].text \o b
           S == {j \in Nat : k + j <= Len(line) => Around(k + j)}
<1>2. a \in Text /\ line[k].text \in Text /\ other[k].text \in Text
      BY BeginningType, TextFacts DEF IsLine
<1>3. Around(k)
  <2>1. PICK m \in Nat : k = m + 1 /\ m = k - 1 /\ m \in 0..Len(line)
    <3>1. k - 1 \in Nat /\ k = (k - 1) + 1 /\ k - 1 \in 0..Len(line)
          BY DEF IsLine
    <3> QED
        BY <3>1
  <2>2. Beginning(line, m) = Beginning(other, m)
    <3>1. m <= Len(other) /\ \A i \in 1..m : line[i].text = other[i].text
          BY <2>1 DEF IsLine
    <3> QED
        BY <2>1, <3>1, SameBeginning
  <2>3. /\ Beginning(line, k) = a \o line[k].text
        /\ Beginning(other, k) = a \o other[k].text
    <3>1. m + 1 <= Len(line) /\ m + 1 <= Len(other) /\ Len(line) \in Nat /\ Len(other) \in Nat
          BY <2>1 DEF IsLine
    <3>2. /\ Beginning(line, m + 1) = Beginning(line, m) \o Gap(m + 1) \o line[m + 1].text
          /\ Beginning(other, m + 1) = Beginning(other, m) \o Gap(m + 1) \o other[m + 1].text
          BY <3>1, BeginningStep
    <3> QED
        BY <2>1, <2>2, <3>2
  <2> HIDE DEF a
  <2> QED
      BY <1>2, <2>3, TextFacts
<1> HIDE DEF a
<1>4. ASSUME NEW j \in Nat, j \in S PROVE j + 1 \in S
  <2> SUFFICES ASSUME k + (j + 1) <= Len(line) PROVE Around(k + (j + 1))
    <3> HIDE DEF Around
    <3> QED
        OBVIOUS
  <2> DEFINE n == k + j
  <2>1. n + 1 \in 1..Len(line) /\ n + 1 # k /\ k + (j + 1) = n + 1 /\ n \in Nat
        BY DEF IsLine
  <2>2. PICK b : /\ b \in Text
                 /\ Beginning(line, n) = a \o line[k].text \o b
                 /\ Beginning(other, n) = a \o other[k].text \o b
    <3>1. Around(n)
      <4> HIDE DEF Around
      <4> QED
          BY <1>4 DEF IsLine
    <3> QED
        BY <3>1
  <2> HIDE DEF n
  <2>3. /\ Beginning(line, n + 1) = Beginning(line, n) \o Gap(n + 1) \o line[n + 1].text
        /\ Beginning(other, n + 1) = Beginning(other, n) \o Gap(n + 1) \o line[n + 1].text
        BY <2>1, BeginningStep DEF IsLine
  <2>4. line[n + 1].text \in Text /\ line[n + 1].text = other[n + 1].text
        BY <2>1 DEF IsLine
  <2>5. /\ ((a \o line[k].text \o b) \o Gap(n + 1)) \o line[n + 1].text
           = a \o line[k].text \o (b \o (Gap(n + 1) \o line[n + 1].text))
        /\ ((a \o other[k].text \o b) \o Gap(n + 1)) \o line[n + 1].text
           = a \o other[k].text \o (b \o (Gap(n + 1) \o line[n + 1].text))
    <3>1. /\ AreTexts(a, line[k].text, b, Gap(n + 1), line[n + 1].text)
          /\ AreTexts(a, other[k].text, b, Gap(n + 1), line[n + 1].text)
          BY <1>2, <2>2, <2>4, TextFacts DEF AreTexts
    <3>2. /\ Regroups(a, line[k].text, b, Gap(n + 1), line[n + 1].text)
          /\ Regroups(a, other[k].text, b, Gap(n + 1), line[n + 1].text)
          BY <3>1, Regroup
    <3> QED
        BY <3>2 DEF Regroups
  <2>6. PICK more : more = b \o (Gap(n + 1) \o line[n + 1].text)
        OBVIOUS
  <2>7. /\ Beginning(line, n + 1) = a \o line[k].text \o more
        /\ Beginning(other, n + 1) = a \o other[k].text \o more
        BY <2>2, <2>3, <2>4, <2>5, <2>6
  <2>8. more \in Text
        BY <2>2, <2>4, <2>6, TextFacts
  <2> QED
      BY <2>1, <2>7, <2>8
<1>5. \A j \in Nat : j \in S
  <2> HIDE DEF Around
  <2>1. 0 \in S
        BY <1>3
  <2> HIDE DEF S
  <2> QED
      BY <1>4, <2>1, Induction
<1>6. Around(Len(line))
  <2> HIDE DEF Around
  <2>1. Len(line) - k \in Nat /\ k + (Len(line) - k) = Len(line)
        BY DEF IsLine
  <2> QED
      BY <1>5, <2>1
<1>7. Len(a) = ColumnOf(line, k)
      BY DEF a, ColumnOf
<1> QED
    BY <1>2, <1>6, <1>7 DEF TextOf, Surrounds

\* Columns grow along a line.
LEMMA ColumnsGrow ==
    ASSUME NEW line, IsLine(line), NEW j \in 1..Len(line), NEW k \in 1..Len(line), j < k
    PROVE  ColumnOf(line, j) < ColumnOf(line, k)
<1> DEFINE Size(n) == Len(Beginning(line, n))
           Next1(n) == Len(Beginning(line, n) \o Gap(n + 1))
           S == {i \in Nat : j + i <= Len(line) => Size(j) <= Size(j + i)}
<1>1. Len(line) \in Nat /\ j \in Nat /\ k \in Nat
      BY DEF IsLine
<1>2. \A n \in 0..Len(line) : Size(n) \in Nat
      BY BeginningType, TextFacts
<1>3. ASSUME NEW n \in Nat, n + 1 <= Len(line)
      PROVE  /\ Next1(n) \in Nat /\ Next1(n) <= Size(n + 1)
             /\ Len(Gap(n + 1)) \in Nat /\ Next1(n) = Size(n) + Len(Gap(n + 1))
             /\ ColumnOf(line, n + 1) = Next1(n)
  <2>1. n \in 0..Len(line) /\ n + 1 \in 1..Len(line) /\ (n + 1) - 1 = n
        BY <1>1, <1>3
  <2>2. Beginning(line, n) \in Text /\ line[n + 1].text \in Text /\ Gap(n + 1) \in Text
        BY <2>1, BeginningType, TextFacts DEF IsLine
  <2>3. Beginning(line, n) \o Gap(n + 1) \in Text
        BY <2>2, TextFacts
  <2>4. Beginning(line, n + 1) = Beginning(line, n) \o Gap(n + 1) \o line[n + 1].text
        BY <1>1, <1>3, BeginningStep
  <2>5. ColumnOf(line, n + 1) = Next1(n)
        BY <2>1 DEF ColumnOf
  <2>6. PICK p, g, w : p = Beginning(line, n) /\ g = Gap(n + 1) /\ w = line[n + 1].text
        OBVIOUS
  <2>7. p \in Text /\ g \in Text /\ w \in Text /\ p \o g \in Text
        BY <2>2, <2>3, <2>6
  <2>8. /\ Len(p) \in Nat /\ Len(g) \in Nat /\ Len(w) \in Nat
        /\ Len(p \o g) = Len(p) + Len(g)
        /\ Len((p \o g) \o w) = Len(p \o g) + Len(w)
        BY <2>7, TextFacts
  <2>9. Next1(n) = Len(p \o g) /\ Size(n + 1) = Len((p \o g) \o w) /\ Size(n) = Len(p)
        BY <2>4, <2>6
  <2> HIDE DEF Next1, Size
  <2>10. PICK c, d, e, h : c = Len(p) /\ d = Len(g) /\ e = Len(w) /\ h = Len(p \o g)
        OBVIOUS
  <2>11. /\ c \in Nat /\ d \in Nat /\ e \in Nat /\ h = c + d
         /\ Next1(n) = h /\ Size(n) = c /\ Size(n + 1) = h + e /\ Len(Gap(n + 1)) = d
        BY <2>6, <2>8, <2>9, <2>10
  <2> QED
      BY <2>5, <2>11
<1> HIDE DEF Size, Next1
<1>4. 0 \in S
      BY <1>1, <1>2
<1>5. ASSUME NEW i \in Nat, i \in S PROVE i + 1 \in S
  <2> SUFFICES ASSUME j + (i + 1) <= Len(line) PROVE Size(j) <= Size(j + (i + 1))
      OBVIOUS
  <2>1. PICK n \in Nat : n = j + i /\ n + 1 = j + (i + 1) /\ n + 1 <= Len(line)
        BY <1>1
  <2>2. /\ Size(j) <= Size(n) /\ Size(j) \in Nat /\ Size(n) \in Nat /\ Size(n + 1) \in Nat
        BY <1>1, <1>2, <1>5, <2>1
  <2>3. /\ Next1(n) \in Nat /\ Next1(n) <= Size(n + 1)
        /\ Len(Gap(n + 1)) \in Nat /\ Next1(n) = Size(n) + Len(Gap(n + 1))
        BY <1>3, <2>1
  <2>4. Size(j) <= Size(n + 1)
        BY <2>2, <2>3
  <2> QED
      BY <2>1, <2>4
<1>6. \A i \in Nat : i \in S
  <2> HIDE DEF S
  <2> QED
      BY <1>4, <1>5, Induction
<1>7. PICK m \in Nat : /\ k = m + 1 /\ m - j \in Nat /\ m = j + (m - j)
                       /\ m <= Len(line) /\ m + 1 <= Len(line)
  <2>1. /\ k - 1 \in Nat /\ k = (k - 1) + 1 /\ (k - 1) - j \in Nat
        /\ k - 1 = j + ((k - 1) - j) /\ k - 1 <= Len(line)
        BY <1>1
  <2> QED
      BY <1>1, <2>1
<1>8. Size(j) <= Size(m) /\ Size(j) \in Nat /\ Size(m) \in Nat
      BY <1>1, <1>2, <1>6, <1>7
<1>9. ColumnOf(line, k) = Size(m) + 1
  <2>1. Gap(m + 1) = <<Space>>
        BY <1>1, <1>7 DEF Gap
  <2>2. Len(Gap(m + 1)) = 1
        BY <2>1
  <2> QED
      BY <1>3, <1>7, <2>2
<1>10. ColumnOf(line, j) \in Nat /\ ColumnOf(line, j) <= Size(j)
  <2>1. PICK i \in Nat : j = i + 1 /\ i + 1 <= Len(line)
    <3>1. j - 1 \in Nat /\ j = (j - 1) + 1 /\ (j - 1) + 1 <= Len(line)
          BY <1>1
    <3> QED
        BY <3>1
  <2>2. ColumnOf(line, i + 1) = Next1(i) /\ Next1(i) \in Nat /\ Next1(i) <= Size(i + 1)
        BY <1>3, <2>1
  <2> QED
      BY <2>1, <2>2
<1> QED
    BY <1>8, <1>9, <1>10

\* A word's column depends on the words before it.
LEMMA ColumnOfFront ==
    ASSUME NEW line, NEW other, IsLine(line), IsLine(other), Len(line) = Len(other),
           NEW k \in 1..Len(line), \A i \in 1..Len(line) : i < k => line[i].text = other[i].text
    PROVE  ColumnOf(line, k) = ColumnOf(other, k)
<1>1. k - 1 \in 0..Len(line) /\ k - 1 <= Len(other)
      BY DEF IsLine
<1>2. \A i \in 1..(k - 1) : line[i].text = other[i].text
      BY DEF IsLine
<1>3. Beginning(line, k - 1) = Beginning(other, k - 1)
      BY <1>1, <1>2, SameBeginning
<1> QED
    BY <1>3 DEF ColumnOf

\* Replacing the letters at a word's place by some text is replacing the word.
Replaced(line, other, k) ==
    LET t == TextOf(line)
        start == ColumnOf(line, k)
        end == start + Len(line[k].text)
    IN  /\ t \in Text /\ start \in Nat /\ end \in Nat /\ end <= Len(t)
        /\ SubSeq(t, start + 1, end) = line[k].text
        /\ SubSeq(t, 1, start) \o other[k].text \o SubSeq(t, end + 1, Len(t)) = TextOf(other)

LEMMA ReplaceWord ==
    ASSUME NEW line, NEW other, NEW k, DifferAt(line, other, k)
    PROVE  Replaced(line, other, k)
<1>1. PICK a, b : Surrounds(a, b, line, other, k)
      BY AroundWord
<1>2. /\ a \in Text /\ b \in Text
      /\ Len(a) = ColumnOf(line, k)
      /\ TextOf(line) = a \o line[k].text \o b
      /\ TextOf(other) = a \o other[k].text \o b
      BY <1>1 DEF Surrounds
<1>3. line[k].text \in Text
      BY DEF IsLine, DifferAt
<1>4. PICK w : w = line[k].text
      OBVIOUS
<1>5. a \in Text /\ w \in Text /\ b \in Text
      BY <1>2, <1>3, <1>4
<1>6. /\ a \o w \o b \in Text
      /\ Len(a) + Len(w) \in Nat
      /\ Len(a) + Len(w) <= Len(a \o w \o b)
      BY <1>5 DEF Text
<1>7. SubSeq(a \o w \o b, Len(a) + 1, Len(a) + Len(w)) = w
      BY <1>5 DEF Text
<1>8. SubSeq(a \o w \o b, 1, Len(a)) = a
      BY <1>5 DEF Text
<1>9. SubSeq(a \o w \o b, Len(a) + Len(w) + 1, Len(a \o w \o b)) = b
      BY <1>5 DEF Text
<1>10. Len(a) \in Nat
      BY <1>5, TextFacts
<1> QED
    BY <1>2, <1>4, <1>6, <1>7, <1>8, <1>9, <1>10 DEF Replaced

-----------------------------------------------------------------------------
(* The edits of a file, from the last to the first *)

\* Edits at different places.
Apart(s) ==
    /\ \A e \in s : e.line \in Nat /\ e.start \in Nat
    /\ \A d, e \in s : d.line = e.line /\ d.start = e.start => d = e

\* One of them is before all others.
LEMMA LastOfEdits ==
    ASSUME NEW s, Apart(s), s # {}
    PROVE  /\ LastOf(s) \in s
           /\ \A d \in s \ {LastOf(s)} : LastEditFirst(d, LastOf(s))
<1> DEFINE lines == {e.line : e \in s}
<1>1. PICK l \in lines : \A m \in lines : l <= m
  <2>1. lines \subseteq Nat /\ lines # {}
        BY DEF Apart
  <2> HIDE DEF lines
  <2> QED
      BY <2>1, Least
<1> DEFINE starts == {e.start : e \in {e \in s : e.line = l}}
<1>2. PICK c \in starts : \A m \in starts : c <= m
  <2>1. starts \subseteq Nat /\ starts # {}
        BY <1>1 DEF Apart
  <2> HIDE DEF starts
  <2> QED
      BY <2>1, Least
<1>3. PICK e \in s : e.line = l /\ e.start = c
      BY <1>2
<1>4. ASSUME NEW d \in s \ {e} PROVE LastEditFirst(d, e)
  <2>1. d.line \in Nat /\ e.line \in Nat /\ d.start \in Nat /\ e.start \in Nat
        BY DEF Apart
  <2>2. e.line <= d.line
        BY <1>1, <1>3
  <2>3. d.line = e.line => e.start <= d.start
        BY <1>2, <1>3
  <2>4. d.line = e.line => d.start # e.start
        BY DEF Apart
  <2> QED
      BY <2>1, <2>2, <2>3, <2>4 DEF LastEditFirst
<1>5. \E x \in s : \A d \in s \ {x} : LastEditFirst(d, x)
      BY <1>4
<1> QED
    BY <1>5 DEF LastOf

\* What holds of the lines, and stays true when the edit before all those that
\* have been applied is, holds when all have been.
Kept(H, E) ==
    \A s \in SUBSET E : s # {} =>
        \A x \in H[s \ {LastOf(s)}] : Replace(x, LastOf(s)) \in H[s]

\* ApplyEdits: what the edits of a file make of its lines, from the last edit to
\* the first.
LEMMA AppliedIn ==
    ASSUME NEW E, IsFiniteSet(E), Apart(E), NEW lines, NEW H, lines \in H[{}], Kept(H, E)
    PROVE  Applied(lines, E) \in H[E]
<1> DEFINE With(g, s) == IF s = {} THEN lines ELSE Replace(g[s \ {LastOf(s)}], LastOf(s))
           Until(k) == \E g : \A s \in SUBSET E : Cardinality(s) <= k => g[s] = With(g, s)
           S == {k \in Nat : Until(k)}
<1>1. ASSUME NEW s \in SUBSET E, s # {}
      PROVE  /\ s \ {LastOf(s)} \in SUBSET E
             /\ Cardinality(s) \in Nat /\ Cardinality(s) # 0
             /\ Cardinality(s \ {LastOf(s)}) = Cardinality(s) - 1
  <2>1. LastOf(s) \in s
        BY <1>1, LastOfEdits DEF Apart
  <2> QED
      BY <1>1, <2>1, FS_Subset, FS_RemoveElement, FS_CardinalityType, FS_EmptySet
<1>2. \A s \in SUBSET E : Cardinality(s) \in Nat /\ (Cardinality(s) <= 0 => s = {})
  <2> TAKE s \in SUBSET E
  <2>1. IsFiniteSet(s)
        BY FS_Subset
  <2>2. Cardinality(s) \in Nat /\ (Cardinality(s) = 0 <=> s = {})
        BY <2>1, FS_CardinalityType, FS_EmptySet
  <2> QED
      BY <2>2
<1>3. Until(0)
  <2> DEFINE g == [s \in SUBSET E |-> lines]
  <2>1. ASSUME NEW s \in SUBSET E, Cardinality(s) <= 0 PROVE g[s] = With(g, s)
    <3>1. s = {}
          BY <1>2, <2>1
    <3> QED
        BY <3>1
  <2> QED
      BY <2>1
<1>4. ASSUME NEW k \in Nat, Until(k) PROVE Until(k + 1)
  <2>1. PICK g : \A s \in SUBSET E : Cardinality(s) <= k => g[s] = With(g, s)
        BY <1>4
  <2> DEFINE h == [s \in SUBSET E |-> With(g, s)]
  <2>2. ASSUME NEW s \in SUBSET E, Cardinality(s) <= k + 1 PROVE h[s] = With(h, s)
    <3>1. CASE s = {}
          BY <3>1
    <3>2. CASE s # {}
      <4>1. /\ s \ {LastOf(s)} \in SUBSET E
            /\ Cardinality(s \ {LastOf(s)}) <= k
        <5>1. /\ s \ {LastOf(s)} \in SUBSET E
              /\ Cardinality(s) \in Nat
              /\ Cardinality(s \ {LastOf(s)}) = Cardinality(s) - 1
              BY <1>1, <3>2
        <5> HIDE DEF h
        <5> QED
            BY <2>2, <5>1
      <4>2. h[s \ {LastOf(s)}] = g[s \ {LastOf(s)}]
        <5> HIDE DEF With
        <5> QED
            BY <2>1, <4>1
      <4>3. With(h, s) = With(g, s)
            BY <3>2, <4>2
      <4> HIDE DEF With
      <4> QED
          BY <4>3
    <3> QED
        BY <3>1, <3>2
  <2> QED
      BY <2>2
<1>5. PICK g : \A s \in SUBSET E : g[s] = With(g, s)
  <2>1. 0 \in S /\ \A k \in Nat : k \in S => k + 1 \in S
    <3> HIDE DEF Until
    <3> QED
        BY <1>3, <1>4
  <2>2. \A k \in Nat : k \in S
    <3> HIDE DEF S
    <3> QED
        BY <2>1, Induction
  <2>3. Cardinality(E) \in Nat /\ \A s \in SUBSET E : Cardinality(s) <= Cardinality(E)
        BY FS_Subset, FS_CardinalityType
  <2>4. Until(Cardinality(E))
    <3> HIDE DEF Until
    <3> QED
        BY <2>2, <2>3
  <2> HIDE DEF With
  <2> QED
      BY <2>3, <2>4
<1> DEFINE iter == CHOOSE it : it = [s \in SUBSET E |-> With(it, s)]
<1>6. iter = [s \in SUBSET E |-> With(iter, s)]
  <2> DEFINE h == [s \in SUBSET E |-> g[s]]
  <2>1. ASSUME NEW s \in SUBSET E PROVE With(h, s) = With(g, s)
        BY <1>1
  <2>2. h = [s \in SUBSET E |-> With(h, s)]
    <3> HIDE DEF With
    <3> QED
        BY <1>5, <2>1
  <2> QED
      BY <2>2
<1>7. Applied(lines, E) = iter[E]
      BY DEF Applied, MapThenFoldSet
<1> HIDE DEF iter
<1> DEFINE T == {k \in Nat : \A s \in SUBSET E : Cardinality(s) <= k => iter[s] \in H[s]}
<1>8. 0 \in T
  <2> SUFFICES ASSUME NEW s \in SUBSET E, Cardinality(s) <= 0 PROVE iter[s] \in H[s]
      OBVIOUS
  <2>1. s = {}
        BY <1>2
  <2>2. iter[s] = lines
        BY <1>6, <2>1
  <2> QED
      BY <2>1, <2>2
<1>9. ASSUME NEW k \in Nat, k \in T PROVE k + 1 \in T
  <2> SUFFICES ASSUME NEW s \in SUBSET E, Cardinality(s) <= k + 1, s # {}
               PROVE  iter[s] \in H[s]
    <3>1. \A s \in SUBSET E : s = {} => iter[s] \in H[s]
          BY <1>6
    <3> QED
        BY <3>1
  <2>1. s \ {LastOf(s)} \in SUBSET E /\ Cardinality(s \ {LastOf(s)}) <= k
        BY <1>1
  <2>2. iter[s \ {LastOf(s)}] \in H[s \ {LastOf(s)}]
        BY <1>9, <2>1
  <2>3. iter[s] = Replace(iter[s \ {LastOf(s)}], LastOf(s))
        BY <1>6
  <2> QED
      BY <2>2, <2>3 DEF Kept
<1>10. \A k \in Nat : k \in T
  <2> HIDE DEF T
  <2> QED
      BY <1>8, <1>9, Induction
<1> QED
    BY <1>2, <1>7, <1>10, FS_CardinalityType

-----------------------------------------------------------------------------
(* The lines of a project *)

\* The files and lines of a project are sequences.
LEMMA ProjectLines ==
    ASSUME project \in Projects
    PROVE  /\ Len(project) \in Nat
           /\ \A f \in Range1(project) :
                /\ project[f] \in Seq(Seq(Words)) /\ Len(project[f]) \in Nat
                /\ \A l \in Range1(project[f]) :
                     /\ project[f][l] \in Seq(Words)
                     /\ IsLine(project[f][l])
<1>1. project \in Seq(Seq(Seq(Words)))
      BY CommandsAssumption
<1>2. /\ Len(project) \in Nat
      /\ \A f \in Range1(project) : project[f] \in Seq(Seq(Words)) /\ Len(project[f]) \in Nat
      BY <1>1 DEF Range1
<1>3. \A f \in Range1(project) : \A l \in Range1(project[f]) : project[f][l] \in Seq(Words)
      BY <1>2 DEF Range1
<1>4. ASSUME NEW line \in Seq(Words) PROVE IsLine(line)
  <2>1. Seq(Letters) \subseteq Text
        BY DEF Text
  <2>2. \A i \in 1..Len(line) : line[i] \in Words
        OBVIOUS
  <2> QED
      BY <2>1, <2>2 DEF IsLine, Words
<1> QED
    BY <1>2, <1>3, <1>4

\* A place is a file, a line of it and a word of that.
LEMMA PlacesAre ==
    \A p : p \in Places <=>
        /\ p = [file |-> p.file, line |-> p.line, word |-> p.word]
        /\ p.file \in Range1(project) /\ p.line \in Range1(project[p.file])
        /\ p.word \in Range1(project[p.file][p.line])
<1>1. ASSUME NEW p \in Places
      PROVE  /\ p = [file |-> p.file, line |-> p.line, word |-> p.word]
             /\ p.file \in Range1(project) /\ p.line \in Range1(project[p.file])
             /\ p.word \in Range1(project[p.file][p.line])
  <2>1. PICK f \in Range1(project) : p \in PlacesOf(f)
        BY DEF Places
  <2>2. PICK l \in Range1(project[f]) :
           p \in {[file |-> f, line |-> l, word |-> i] : i \in Range1(project[f][l])}
        BY <2>1 DEF PlacesOf
  <2>3. PICK i \in Range1(project[f][l]) : p = [file |-> f, line |-> l, word |-> i]
        BY <2>2
  <2> QED
      BY <2>3
<1>2. ASSUME NEW p, p = [file |-> p.file, line |-> p.line, word |-> p.word],
             p.file \in Range1(project), p.line \in Range1(project[p.file]),
             p.word \in Range1(project[p.file][p.line])
      PROVE  p \in Places
  <2>1. p \in PlacesOf(p.file)
        BY <1>2 DEF PlacesOf
  <2> QED
      BY <1>2, <2>1 DEF Places
<1> QED
    BY <1>1, <1>2

\* The images of the members of a finite set are finitely many.
LEMMA FiniteImage ==
    ASSUME NEW S, IsFiniteSet(S), NEW g
    PROVE  IsFiniteSet({g[x] : x \in S})
<1> DEFINE T == {g[x] : x \in S}
           h == [x \in S |-> g[x]]
<1>1. h \in Surjection(S, T)
      BY DEF Surjection
<1> QED
    BY <1>1, FS_Surjection

\* A sequence has finitely many indices,
LEMMA FiniteRange ==
    ASSUME NEW s, Len(s) \in Nat
    PROVE  IsFiniteSet(Range1(s))
<1>1. 1 \in Int /\ Len(s) \in Int
      OBVIOUS
<1> QED
    BY <1>1, FS_Interval DEF Range1

\* and a project finitely many words.
LEMMA FinitePlaces ==
    ASSUME project \in Projects
    PROVE  IsFiniteSet(Places)
<1>1. ASSUME NEW f \in Range1(project) PROVE IsFiniteSet(PlacesOf(f))
  <2> DEFINE On(l) == {[file |-> f, line |-> l, word |-> i] : i \in Range1(project[f][l])}
  <2>1. ASSUME NEW l \in Range1(project[f]) PROVE IsFiniteSet(On(l))
    <3>1. IsFiniteSet(Range1(project[f][l]))
      <4>1. Len(project[f][l]) \in Nat
            BY ProjectLines DEF IsLine
      <4> QED
          BY <4>1, FiniteRange
    <3> DEFINE g == [i \in Range1(project[f][l]) |-> [file |-> f, line |-> l, word |-> i]]
    <3>2. On(l) = {g[i] : i \in Range1(project[f][l])}
          OBVIOUS
    <3> HIDE DEF g, On
    <3>3. IsFiniteSet({g[i] : i \in Range1(project[f][l])})
          BY <3>1, FiniteImage
    <3> QED
        BY <3>2, <3>3
  <2>2. IsFiniteSet(Range1(project[f]))
        BY ProjectLines, FiniteRange
  <2> DEFINE h == [l \in Range1(project[f]) |-> On(l)]
  <2>3. IsFiniteSet({h[l] : l \in Range1(project[f])})
    <3> HIDE DEF h, On
    <3> QED
        BY <2>2, FiniteImage
  <2>4. {h[l] : l \in Range1(project[f])} = {On(l) : l \in Range1(project[f])}
        OBVIOUS
  <2>5. PlacesOf(f) = UNION {On(l) : l \in Range1(project[f])}
        BY DEF PlacesOf
  <2> HIDE DEF On, h
  <2> QED
      BY <2>1, <2>3, <2>4, <2>5, FS_UNION
<1>2. IsFiniteSet(Range1(project))
      BY ProjectLines, FiniteRange
<1> DEFINE h == [f \in Range1(project) |-> PlacesOf(f)]
<1>3. IsFiniteSet({h[f] : f \in Range1(project)})
  <2> HIDE DEF h
  <2> QED
      BY <1>2, FiniteImage
<1>4. {h[f] : f \in Range1(project)} = {PlacesOf(f) : f \in Range1(project)}
      OBVIOUS
<1> HIDE DEF h
<1> QED
    BY <1>1, <1>3, <1>4, FS_UNION DEF Places

-----------------------------------------------------------------------------
(* The edits of a rename *)

EditsOf(f, name) == {e \in Plan(name) : e.file = f}

\* The edit of a word.
EditAt(f, l, i, name) == Edit(f, l, ColumnOf(project[f][l], i), name)

\* A sequence that is not empty has a length above zero.
LEMMA NotEmpty ==
    ASSUME NEW S, NEW s \in Seq(S), s # <<>>
    PROVE  Len(s) \in Nat /\ Len(s) > 0
OBVIOUS

\* A word of some name is a place where the line has its letters.
LEMMA WordOccurs ==
    ASSUME project \in Projects, NEW p \in Places
    PROVE  LET line == project[p.file][p.line]
               name == WordAt(p).text
           IN  /\ ColumnOf(line, p.word) \in Nat /\ Len(name) \in Nat /\ Len(name) > 0
               /\ Occurs(name, TextOf(line), ColumnOf(line, p.word))
               /\ TextOf(line) \in Text
<1> DEFINE line == project[p.file][p.line]
           name == WordAt(p).text
<1>1. /\ p.file \in Range1(project) /\ p.line \in Range1(project[p.file])
      /\ p.word \in Range1(line)
      BY PlacesAre
<1>2. IsLine(line) /\ line \in Seq(Words)
      BY <1>1, ProjectLines
<1>3. name = line[p.word].text /\ name \in Seq(Letters) \ {<<>>}
  <2>1. name = line[p.word].text
        BY DEF WordAt
  <2> HIDE DEF line, name
  <2>2. line[p.word] \in Words
        BY <1>1, <1>2 DEF Range1
  <2>3. \A w \in Words : w.text \in Seq(Letters) \ {<<>>}
        BY DEF Words
  <2> QED
      BY <2>1, <2>2, <2>3
<1>4. Len(name) \in Nat /\ Len(name) > 0
  <2>1. name \in Seq(Letters) /\ name # <<>>
        BY <1>3
  <2> HIDE DEF name
  <2> QED
      BY <2>1, NotEmpty
<1>5. Replaced(line, line, p.word)
  <2>1. DifferAt(line, line, p.word)
        BY <1>1, <1>2 DEF DifferAt, Range1
  <2> HIDE DEF line
  <2> QED
      BY <2>1, ReplaceWord
<1> HIDE DEF line, name
<1>6. /\ TextOf(line) \in Text /\ ColumnOf(line, p.word) \in Nat
      /\ ColumnOf(line, p.word) + Len(line[p.word].text) <= Len(TextOf(line))
      /\ SubSeq(TextOf(line), ColumnOf(line, p.word) + 1,
                ColumnOf(line, p.word) + Len(line[p.word].text)) = line[p.word].text
      BY <1>5 DEF Replaced
<1>7. Occurs(name, TextOf(line), ColumnOf(line, p.word))
      BY <1>3, <1>6 DEF Occurs
<1> QED
    BY <1>4, <1>6, <1>7 DEF line, name

\* Where a name is found, it occurs.
LEMMA Finds ==
    ASSUME NEW name, NEW t \in Text, NEW c \in Nat, Occurs(name, t, c), Len(name) \in Nat
    PROVE  Find(name, t) \in Nat /\ Occurs(name, t, Find(name, t))
<1> DEFINE S == {i \in 0..Len(t) : Occurs(name, t, i)}
<1>1. Len(t) \in Nat /\ c + Len(name) <= Len(t)
      BY TextFacts DEF Occurs
<1>2. c \in S
      BY <1>1
<1>3. S \subseteq Nat
      OBVIOUS
<1> HIDE DEF S
<1>4. \E m \in S : \A n \in S : m <= n
      BY <1>2, <1>3, Least
<1>5. Min(S) \in S
      BY <1>4 DEF Min
<1> QED
    BY <1>5 DEF Find, S

\* Every edit replaces letters of a line where they are the name's.
LEMMA EditsAre ==
    ASSUME project \in Projects, NEW name, NEW e \in Plan(name)
    PROVE  \E p \in Places :
             LET t == TextOf(project[p.file][p.line])
             IN  /\ WordAt(p).text = name
                 /\ e = Edit(p.file, p.line, e.start, name)
                 /\ e.file = p.file /\ e.line = p.line /\ e.end = e.start + Len(name)
                 /\ e.start \in Nat /\ Len(name) \in Nat /\ Len(name) > 0
                 /\ t \in Text /\ Occurs(name, t, e.start)
<1>1. CASE \E p \in Named(name) :
              e = Edit(p.file, p.line, ColumnOf(project[p.file][p.line], p.word), name)
  <2>1. PICK p \in Named(name) :
              e = Edit(p.file, p.line, ColumnOf(project[p.file][p.line], p.word), name)
        BY <1>1
  <2>2. p \in Places /\ WordAt(p).text = name
        BY DEF Named, References
  <2>3. /\ e.file = p.file /\ e.line = p.line
        /\ e.start = ColumnOf(project[p.file][p.line], p.word)
        /\ e.end = e.start + Len(name)
        BY <2>1 DEF Edit
  <2> QED
      BY <2>1, <2>2, <2>3, WordOccurs
<1>2. CASE \E p \in FindByName(name) :
              e = Edit(p.file, p.line, Find(name, TextOf(project[p.file][p.line])), name)
  <2>1. PICK p \in FindByName(name) :
              e = Edit(p.file, p.line, Find(name, TextOf(project[p.file][p.line])), name)
        BY <1>2
  <2>2. p \in Places /\ WordAt(p).text = name
        BY DEF FindByName, Symbols
  <2>3. /\ e.file = p.file /\ e.line = p.line
        /\ e.start = Find(name, TextOf(project[p.file][p.line]))
        /\ e.end = e.start + Len(name)
        BY <2>1 DEF Edit
  <2>4. PICK t, c : t = TextOf(project[p.file][p.line])
                    /\ c = ColumnOf(project[p.file][p.line], p.word)
        OBVIOUS
  <2>5. /\ t \in Text /\ c \in Nat /\ Occurs(name, t, c) /\ Len(name) \in Nat /\ Len(name) > 0
        BY <2>2, <2>4, WordOccurs
  <2>6. Find(name, t) \in Nat /\ Occurs(name, t, Find(name, t))
        BY <2>5, Finds
  <2> QED
      BY <2>1, <2>2, <2>3, <2>4, <2>5, <2>6
<1> QED
    BY <1>1, <1>2 DEF Plan

\* Two edits of one file are at different places.
LEMMA EditsApart ==
    ASSUME project \in Projects, NEW name, NEW f
    PROVE  Apart(EditsOf(f, name))
<1>1. \A e \in EditsOf(f, name) :
         /\ e = Edit(f, e.line, e.start, name)
         /\ e.line \in Nat /\ e.start \in Nat
  <2> SUFFICES ASSUME NEW e \in EditsOf(f, name)
               PROVE  /\ e = Edit(f, e.line, e.start, name)
                      /\ e.line \in Nat /\ e.start \in Nat
      OBVIOUS
  <2>1. e \in Plan(name) /\ e.file = f
        BY DEF EditsOf
  <2>2. PICK p \in Places : /\ e = Edit(p.file, p.line, e.start, name)
                            /\ e.file = p.file /\ e.line = p.line /\ e.start \in Nat
        BY <2>1, EditsAre
  <2>3. p.line \in Nat
        BY PlacesAre, ProjectLines DEF Range1
  <2> QED
      BY <2>1, <2>2, <2>3
<1> QED
    BY <1>1 DEF Apart

\* A plan has finitely many edits.
LEMMA FiniteEdits ==
    ASSUME project \in Projects, NEW name, NEW f
    PROVE  IsFiniteSet(EditsOf(f, name))
<1> DEFINE g == [p \in Places |->
                   Edit(p.file, p.line, ColumnOf(project[p.file][p.line], p.word), name)]
           h == [p \in Places |->
                   Edit(p.file, p.line, Find(name, TextOf(project[p.file][p.line])), name)]
           S == {g[p] : p \in Places}
           T == {h[p] : p \in Places}
<1>1. Plan(name) \subseteq S \cup T
      BY DEF Plan, Named, References, FindByName, Symbols
<1> HIDE DEF g, h
<1>2. IsFiniteSet(S) /\ IsFiniteSet(T)
      BY FinitePlaces, FiniteImage
<1> HIDE DEF S, T
<1>3. EditsOf(f, name) \subseteq S \cup T
      BY <1>1 DEF EditsOf
<1> QED
    BY <1>2, <1>3, FS_Union, FS_Subset

-----------------------------------------------------------------------------
(* Applying edits is renaming words *)

\* A line with some of its words renamed: those with an edit in s.
NewLine(f, l, name, s) ==
    [i \in Range1(project[f][l]) |->
        IF IsRenamed(project[f][l][i], name) /\ EditAt(f, l, i, name) \in s
          THEN [project[f][l][i] EXCEPT !.text = NewName]
          ELSE project[f][l][i]]
NewFile(f, name, s) ==
    [l \in Range1(project[f]) |-> TextOf(NewLine(f, l, name, s))]

\* Such a line has the words of the old one but for those renamed.
LEMMA NewLineIs ==
    ASSUME project \in Projects, NEW f \in Range1(project), NEW l \in Range1(project[f]),
           NEW name, NEW s
    PROVE  LET line == project[f][l]
               new == NewLine(f, l, name, s)
           IN  /\ IsLine(new) /\ Len(new) = Len(line)
               /\ \A i \in 1..Len(line) :
                    new[i].text = IF IsRenamed(line[i], name) /\ EditAt(f, l, i, name) \in s
                                    THEN NewName ELSE line[i].text
<1> DEFINE line == project[f][l]
           new == NewLine(f, l, name, s)
<1>1. line \in Seq(Words) /\ IsLine(line)
      BY ProjectLines
<1>2. new = [i \in 1..Len(line) |->
               IF IsRenamed(line[i], name) /\ EditAt(f, l, i, name) \in s
                 THEN [line[i] EXCEPT !.text = NewName] ELSE line[i]]
      BY DEF NewLine, Range1
<1>3. NewName \in Text
      BY CommandsAssumption DEF Text
<1> HIDE DEF line, new
<1>4. \A i \in 1..Len(line) : line[i] \in Words
      BY <1>1
<1>5. \A i \in 1..Len(line) : [line[i] EXCEPT !.text = NewName].text = NewName
      BY <1>4 DEF Words
<1>6. \A i \in 1..Len(line) :
        new[i].text = IF IsRenamed(line[i], name) /\ EditAt(f, l, i, name) \in s
                        THEN NewName ELSE line[i].text
      BY <1>2, <1>5
<1>7. Len(new) = Len(line)
      BY <1>1, <1>2 DEF IsLine
<1>8. IsLine(new)
  <2>1. \A i \in 1..Len(line) : line[i].text \in Text
        BY <1>1 DEF IsLine
  <2> QED
      BY <1>1, <1>3, <1>6, <1>7, <2>1 DEF IsLine
<1> QED
    BY <1>6, <1>7, <1>8 DEF line, new

\* Where the name's letters are first found at a definition's own word, the
\* edits are those of the words a scan knows.
LEMMA EditsOfWords ==
    ASSUME project \in Projects, NEW name, FindsItself(name), NEW f \in Range1(project), NEW e
    PROVE  e \in EditsOf(f, name) <=>
             \E p \in PlacesOf(f) : /\ IsRenamed(WordAt(p), name)
                                    /\ e = EditAt(f, p.line, p.word, name)
<1>1. \A p : p \in PlacesOf(f) <=> p \in Places /\ p.file = f
      BY DEF Places, PlacesOf
<1>2. ASSUME e \in EditsOf(f, name)
      PROVE  \E p \in PlacesOf(f) : /\ IsRenamed(WordAt(p), name)
                                    /\ e = EditAt(f, p.line, p.word, name)
  <2>1. CASE \E p \in Named(name) :
                e = Edit(p.file, p.line, ColumnOf(project[p.file][p.line], p.word), name)
    <3>1. PICK p \in Named(name) :
                e = Edit(p.file, p.line, ColumnOf(project[p.file][p.line], p.word), name)
          BY <2>1
    <3>2. p \in PlacesOf(f)
          BY <1>1, <1>2, <3>1 DEF EditsOf, Edit, Named, References
    <3>3. IsRenamed(WordAt(p), name)
          BY DEF Named, References, IsRenamed
    <3>4. p.file = f
          BY <1>1, <3>2
    <3> QED
        BY <3>1, <3>2, <3>3, <3>4 DEF EditAt
  <2>2. CASE \E p \in FindByName(name) :
                /\ WordAt(p).role # "impl"
                /\ e = Edit(p.file, p.line, Find(name, TextOf(project[p.file][p.line])), name)
    <3>1. PICK p \in FindByName(name) :
                /\ WordAt(p).role # "impl"
                /\ e = Edit(p.file, p.line, Find(name, TextOf(project[p.file][p.line])), name)
          BY <2>2
    <3>2. p \in PlacesOf(f)
          BY <1>1, <1>2, <3>1 DEF EditsOf, Edit, FindByName, Symbols
    <3>3. IsRenamed(WordAt(p), name)
          BY <3>1 DEF FindByName, Symbols, IsRenamed
    <3>4. p.file = f
          BY <1>1, <3>2
    <3>5. Find(name, TextOf(project[p.file][p.line])) = ColumnOf(project[p.file][p.line], p.word)
          BY <3>1 DEF FindsItself
    <3> QED
        BY <3>1, <3>2, <3>3, <3>4, <3>5 DEF EditAt
  <2> QED
      BY <1>2, <2>1, <2>2 DEF EditsOf, Plan
<1>3. ASSUME NEW p \in PlacesOf(f), IsRenamed(WordAt(p), name),
             e = EditAt(f, p.line, p.word, name)
      PROVE  e \in EditsOf(f, name)
  <2>1. p \in Places /\ p.file = f
        BY <1>1
  <2>2. e.file = f
        BY <1>3 DEF EditAt, Edit
  <2>3. CASE KindOf(WordAt(p).role) # "None"
    <3>1. p \in Named(name)
          BY <1>3, <2>1, <2>3 DEF Named, References, IsRenamed
    <3> QED
        BY <1>3, <2>1, <2>2, <3>1 DEF EditsOf, Plan, EditAt
  <2>4. CASE WordAt(p).role \in Definitions
    <3>1. p \in FindByName(name) /\ WordAt(p).role # "impl"
          BY <1>3, <2>1, <2>4 DEF FindByName, Symbols, IsRenamed, Definitions
    <3>2. Find(name, TextOf(project[p.file][p.line])) = ColumnOf(project[p.file][p.line], p.word)
          BY <3>1 DEF FindsItself
    <3> QED
        BY <1>3, <2>1, <2>2, <3>1, <3>2 DEF EditsOf, Plan, EditAt
  <2> QED
      BY <1>3, <2>3, <2>4 DEF IsRenamed
<1> QED
    BY <1>2, <1>3

\* Each edit, applied behind those after it, renames its word.
LEMMA RenamesWord ==
    ASSUME project \in Projects, NEW name, FindsItself(name), NEW f \in Range1(project),
           NEW s \in SUBSET EditsOf(f, name), s # {}
    PROVE  Replace(NewFile(f, name, s \ {LastOf(s)}), LastOf(s)) = NewFile(f, name, s)
<1> DEFINE e == LastOf(s)
           r == s \ {e}
<1>1. e \in s /\ \A d \in r : LastEditFirst(d, e)
  <2>1. Apart(s)
        BY EditsApart DEF Apart
  <2> QED
      BY <2>1, LastOfEdits
<1> HIDE DEF e
<1>2. PICK p \in PlacesOf(f) : IsRenamed(WordAt(p), name) /\ e = EditAt(f, p.line, p.word, name)
      BY <1>1, EditsOfWords
<1>3. PICK l, k : l = p.line /\ k = p.word
      OBVIOUS
<1>4. PICK line : line = project[f][l]
      OBVIOUS
<1>5. p \in Places /\ p.file = f
      BY DEF Places, PlacesOf
<1>6. l \in Range1(project[f]) /\ k \in Range1(line)
      BY <1>3, <1>4, <1>5, PlacesAre
<1>7. IsRenamed(line[k], name) /\ line[k].text = name
      BY <1>2, <1>3, <1>4, <1>5 DEF WordAt, IsRenamed
<1>8. /\ e.line = l /\ e.start = ColumnOf(line, k) /\ e.end = e.start + Len(name)
      BY <1>2, <1>3, <1>4 DEF EditAt, Edit
<1>9. \A m, i : /\ EditAt(f, m, i, name).line = m
                /\ EditAt(f, m, i, name).start = ColumnOf(project[f][m], i)
      BY DEF EditAt, Edit
<1>10. IsLine(line) /\ Len(line) \in Nat /\ Len(project[f]) \in Nat
      BY <1>4, <1>6, ProjectLines DEF IsLine
<1>11. \A i \in 1..Len(line) : /\ ColumnOf(line, i) \in Nat
                               /\ i < k => ColumnOf(line, i) < ColumnOf(line, k)
                               /\ i > k => ColumnOf(line, k) < ColumnOf(line, i)
  <2> SUFFICES ASSUME NEW i \in 1..Len(line)
               PROVE  /\ ColumnOf(line, i) \in Nat
                      /\ i < k => ColumnOf(line, i) < ColumnOf(line, k)
                      /\ i > k => ColumnOf(line, k) < ColumnOf(line, i)
      OBVIOUS
  <2>1. k \in 1..Len(line)
        BY <1>6 DEF Range1
  <2>2. DifferAt(line, line, i)
        BY <1>10 DEF DifferAt
  <2>3. ColumnOf(line, i) \in Nat
        BY <2>2, ReplaceWord DEF Replaced
  <2> QED
      BY <1>10, <2>1, <2>3, ColumnsGrow
\* The words that have an edit in r are those that have one in s, but for this one.
<1>12. \A i \in 1..Len(line) : i # k =>
          (EditAt(f, l, i, name) \in r <=> EditAt(f, l, i, name) \in s)
  <2> SUFFICES ASSUME NEW i \in 1..Len(line), i # k PROVE EditAt(f, l, i, name) # e
      OBVIOUS
  <2>1. i \in Nat /\ k \in Nat /\ k \in 1..Len(line)
        BY <1>6, <1>10 DEF Range1
  <2>2. ColumnOf(line, i) # ColumnOf(line, k)
        BY <1>11, <2>1
  <2> QED
      BY <1>4, <1>8, <1>9, <2>2
<1>13. \A i \in 1..Len(line) : i < k => EditAt(f, l, i, name) \notin r
  <2> SUFFICES ASSUME NEW i \in 1..Len(line), i < k, EditAt(f, l, i, name) \in r PROVE FALSE
      OBVIOUS
  <2>1. LastEditFirst(EditAt(f, l, i, name), e)
        BY <1>1
  <2>2. ColumnOf(line, i) > ColumnOf(line, k)
        BY <1>4, <1>6, <1>8, <1>9, <1>10, <2>1 DEF LastEditFirst, Range1
  <2>3. ColumnOf(line, k) \in Nat
        BY <1>6, <1>11 DEF Range1
  <2> QED
      BY <1>11, <2>2, <2>3
<1>14. EditAt(f, l, k, name) \in s /\ EditAt(f, l, k, name) \notin r
      BY <1>1, <1>2, <1>3
<1>15. \A m \in Range1(project[f]) : m # l => NewLine(f, m, name, r) = NewLine(f, m, name, s)
  <2> SUFFICES ASSUME NEW m \in Range1(project[f]), m # l
               PROVE  NewLine(f, m, name, r) = NewLine(f, m, name, s)
      OBVIOUS
  <2>1. \A i : EditAt(f, m, i, name) \in r <=> EditAt(f, m, i, name) \in s
        BY <1>8, <1>9
  <2> QED
      BY <2>1 DEF NewLine
<1>16. PICK old, new : old = NewLine(f, l, name, r) /\ new = NewLine(f, l, name, s)
      OBVIOUS
<1>17. /\ IsLine(old) /\ IsLine(new) /\ Len(old) = Len(line) /\ Len(new) = Len(line)
       /\ \A i \in 1..Len(line) :
            old[i].text = IF IsRenamed(line[i], name) /\ EditAt(f, l, i, name) \in r
                            THEN NewName ELSE line[i].text
       /\ \A i \in 1..Len(line) :
            new[i].text = IF IsRenamed(line[i], name) /\ EditAt(f, l, i, name) \in s
                            THEN NewName ELSE line[i].text
  <2> HIDE DEF r
  <2> QED
      BY <1>4, <1>6, <1>16, NewLineIs
<1> HIDE DEF r
<1>18. k \in 1..Len(line)
      BY <1>6 DEF Range1
<1>19. DifferAt(old, new, k)
      BY <1>12, <1>17, <1>18 DEF DifferAt
<1>20. old[k].text = name /\ new[k].text = NewName
      BY <1>7, <1>14, <1>17, <1>18
<1>21. ColumnOf(old, k) = e.start
  <2>1. \A i \in 1..Len(old) : i < k => old[i].text = line[i].text
        BY <1>13, <1>17
  <2>2. ColumnOf(old, k) = ColumnOf(line, k)
        BY <1>10, <1>17, <1>18, <2>1, ColumnOfFront
  <2> QED
      BY <1>8, <2>2
<1>22. Replaced(old, new, k)
      BY <1>19, ReplaceWord
<1>23. PICK t : t = TextOf(old)
      OBVIOUS
<1>24. /\ e.start + Len(name) = e.end /\ e.end <= Len(t)
       /\ SubSeq(t, 1, e.start) \o NewName \o SubSeq(t, e.end + 1, Len(t)) = TextOf(new)
      BY <1>8, <1>20, <1>21, <1>22, <1>23 DEF Replaced
<1> DEFINE before == NewFile(f, name, r)
           after == NewFile(f, name, s)
<1>25. /\ before = [m \in 1..Len(project[f]) |-> TextOf(NewLine(f, m, name, r))]
       /\ after = [m \in 1..Len(project[f]) |-> TextOf(NewLine(f, m, name, s))]
      BY DEF NewFile, Range1
<1>26. /\ Len(before) = Len(project[f]) /\ before[l] = t
      BY <1>6, <1>10, <1>16, <1>23, <1>25 DEF Range1
<1>27. after = [before EXCEPT ![l] = TextOf(new)]
  <2>1. \A m \in 1..Len(project[f]) : m # l => before[m] = after[m]
        BY <1>15, <1>25 DEF Range1
  <2>2. after[l] = TextOf(new)
        BY <1>6, <1>16, <1>25 DEF Range1
  <2> HIDE DEF before, after
  <2> QED
      BY <1>25, <2>1, <2>2
<1> HIDE DEF before, after
<1>28. e.line <= Len(before) /\ e.end <= Len(before[e.line])
      BY <1>6, <1>8, <1>10, <1>24, <1>26 DEF Range1
<1>29. Replace(before, e) = [before EXCEPT ![e.line] =
              SubSeq(@, 1, e.start) \o NewName \o SubSeq(@, e.end + 1, Len(@))]
      BY <1>28 DEF Replace
<1>30. Replace(before, e) = after
      BY <1>8, <1>24, <1>26, <1>27, <1>29
<1> QED
    BY <1>30 DEF before, after, r, e

\* With the edits of all its words applied, a file has its words renamed.
LEMMA AppliedRenames ==
    ASSUME project \in Projects, NEW name, FindsItself(name), NEW f \in Range1(project)
    PROVE  Applied(Original(f).lines, EditsOf(f, name)) = NewFile(f, name, EditsOf(f, name))
<1> DEFINE E == EditsOf(f, name)
           H == [s \in SUBSET E |-> {NewFile(f, name, s)}]
           lines == Original(f).lines
<1>1. lines \in H[{}]
  <2>1. \A l \in Range1(project[f]) : NewLine(f, l, name, {}) = project[f][l]
    <3> SUFFICES ASSUME NEW l \in Range1(project[f])
                 PROVE  NewLine(f, l, name, {}) = project[f][l]
        OBVIOUS
    <3>1. NewLine(f, l, name, {}) = [i \in 1..Len(project[f][l]) |-> project[f][l][i]]
          BY DEF NewLine, Range1
    <3>2. project[f][l] \in Seq(Words)
          BY ProjectLines
    <3> QED
        BY <3>1, <3>2
  <2>2. NewFile(f, name, {}) = lines
        BY <2>1 DEF NewFile, Original, Content
  <2> QED
      BY <2>2
<1>2. Kept(H, E)
  <2> SUFFICES ASSUME NEW s \in SUBSET E, s # {}
               PROVE  \A x \in H[s \ {LastOf(s)}] : Replace(x, LastOf(s)) \in H[s]
      BY DEF Kept
  <2>1. Replace(NewFile(f, name, s \ {LastOf(s)}), LastOf(s)) = NewFile(f, name, s)
        BY RenamesWord
  <2> QED
      BY <2>1
<1>3. IsFiniteSet(E) /\ Apart(E)
      BY FiniteEdits, EditsApart
<1>4. Applied(lines, E) \in H[E]
  <2> HIDE DEF E, H, lines
  <2> QED
      BY <1>1, <1>2, <1>3, AppliedIn
<1> QED
    BY <1>4

\* Edits leave a file as many lines as it had.
LEMMA AppliedLength ==
    ASSUME project \in Projects, NEW name, NEW f \in Range1(project)
    PROVE  Len(Applied(Original(f).lines, EditsOf(f, name))) = Len(project[f])
<1> DEFINE E == EditsOf(f, name)
           lines == Original(f).lines
           n == Len(project[f])
           H == [s \in SUBSET E |-> [1..n -> Text]]
<1>1. n \in Nat
      BY ProjectLines
<1>2. lines \in H[{}]
  <2>1. lines = [l \in 1..n |-> TextOf(project[f][l])]
        BY DEF Original, Content, Range1
  <2>2. \A l \in 1..n : TextOf(project[f][l]) \in Text
    <3> TAKE l \in 1..n
    <3>1. IsLine(project[f][l])
          BY ProjectLines DEF Range1
    <3>2. Len(project[f][l]) \in 0..Len(project[f][l])
          BY <3>1 DEF IsLine
    <3> QED
        BY <3>1, <3>2, BeginningType DEF TextOf
  <2> QED
      BY <2>1, <2>2
<1>3. NewName \in Text
      BY CommandsAssumption DEF Text
<1>4. ASSUME NEW x \in [1..n -> Text], NEW e \in E
      PROVE  Replace(x, e) \in [1..n -> Text]
  <2>1. e.start \in Nat /\ e.end \in Nat /\ e.start <= e.end
    <3>1. PICK p \in Places : /\ e.end = e.start + Len(name)
                              /\ e.start \in Nat /\ Len(name) \in Nat
          BY EditsAre DEF EditsOf
    <3> QED
        BY <3>1
  <2>2. ASSUME NEW t \in Text, e.end <= Len(t)
        PROVE  SubSeq(t, 1, e.start) \o NewName \o SubSeq(t, e.end + 1, Len(t)) \in Text
    <3>1. e.end + 1 \in Nat /\ e.end + 1 >= 1
          BY <2>1
    <3>2. SubSeq(t, e.end + 1, Len(t)) \in Text
          BY <2>1, <3>1 DEF Text
    <3>3. SubSeq(t, 1, e.start) \in Text
      <4>1. Len(t) \in Nat /\ e.start <= Len(t)
            BY <2>1, <2>2, TextFacts
      <4> QED
          BY <2>1, <4>1 DEF Text
    <3> QED
        BY <1>3, <3>2, <3>3, TextFacts
  <2> HIDE DEF E
  <2>3. CASE e.line \in 1..n /\ e.end <= Len(x[e.line])
    <3>1. x[e.line] \in Text
          BY <2>3
    <3> DEFINE t == SubSeq(x[e.line], 1, e.start) \o NewName
                    \o SubSeq(x[e.line], e.end + 1, Len(x[e.line]))
    <3>2. t \in Text
          BY <2>2, <2>3, <3>1
    <3>3. Replace(x, e) = x \/ Replace(x, e) = [x EXCEPT ![e.line] = t]
          BY DEF Replace
    <3> HIDE DEF t
    <3> QED
        BY <3>2, <3>3
  <2>4. CASE ~ (e.line \in 1..n /\ e.end <= Len(x[e.line]))
    <3>1. CASE e.line \notin 1..n
      <4>1. \A y : [x EXCEPT ![e.line] = y] = x
            BY <3>1
      <4>2. PICK y : Replace(x, e) = x \/ Replace(x, e) = [x EXCEPT ![e.line] = y]
            BY DEF Replace
      <4> QED
          BY <4>1, <4>2
    <3>2. CASE ~ (e.end <= Len(x[e.line]))
          BY <3>2 DEF Replace
    <3> QED
        BY <2>4, <3>1, <3>2
  <2> QED
      BY <2>3, <2>4
<1>5. Kept(H, E)
  <2> SUFFICES ASSUME NEW s \in SUBSET E, s # {}, NEW x \in [1..n -> Text]
               PROVE  Replace(x, LastOf(s)) \in [1..n -> Text]
    <3> HIDE DEF E, n
    <3> QED
        BY DEF Kept
  <2>1. LastOf(s) \in E
    <3>1. Apart(s)
          BY EditsApart DEF Apart
    <3> QED
        BY <3>1, LastOfEdits
  <2> HIDE DEF E, n
  <2> QED
      BY <1>4, <2>1
<1>6. IsFiniteSet(E) /\ Apart(E)
      BY FiniteEdits, EditsApart
<1>7. Applied(lines, E) \in H[E]
  <2> HIDE DEF E, H, lines
  <2> QED
      BY <1>2, <1>5, <1>6, AppliedIn
<1> HIDE DEF lines, E, n
<1>8. Applied(lines, E) \in [1..n -> Text]
      BY <1>7
<1> QED
    BY <1>1, <1>8 DEF lines, E, n

-----------------------------------------------------------------------------
(* What a rename has written *)

\* A file with its edits applied.
Rewritten(f, name) == Join(Applied(Original(f).lines, EditsOf(f, name)), ends[f])

\* It is the file with its words renamed, if it has any.
LEMMA RewrittenIsRenamed ==
    ASSUME project \in Projects, NEW name, FindsItself(name), NEW f \in Range1(project)
    PROVE  RenamedFile(f, name) = IF f \in {e.file : e \in Plan(name)} THEN Rewritten(f, name)
                                                                     ELSE Original(f)
<1> DEFINE new(w) == IF IsRenamed(w, name) THEN [w EXCEPT !.text = NewName] ELSE w
           lines == [l \in Range1(project[f]) |->
                       TextOf([i \in Range1(project[f][l]) |-> new(project[f][l][i])])]
           E == EditsOf(f, name)
<1>1. \A p : p \in PlacesOf(f) <=> p \in Places /\ p.file = f
      BY DEF Places, PlacesOf
<1>2. (\E p \in Places : p.file = f /\ IsRenamed(WordAt(p), name))
        <=> f \in {e.file : e \in Plan(name)}
  <2>1. ASSUME NEW p \in Places, p.file = f, IsRenamed(WordAt(p), name)
        PROVE  f \in {e.file : e \in Plan(name)}
    <3>1. EditAt(f, p.line, p.word, name) \in E
          BY <1>1, <2>1, EditsOfWords
    <3> QED
        BY <3>1 DEF EditsOf
  <2>2. ASSUME NEW e \in Plan(name), e.file = f
        PROVE  \E p \in Places : p.file = f /\ IsRenamed(WordAt(p), name)
    <3>1. e \in EditsOf(f, name)
          BY <2>2 DEF EditsOf
    <3> QED
        BY <1>1, <3>1, EditsOfWords
  <2> QED
      BY <2>1, <2>2
<1>3. lines = NewFile(f, name, E)
  <2>1. ASSUME NEW l \in Range1(project[f])
        PROVE  [i \in Range1(project[f][l]) |-> new(project[f][l][i])] = NewLine(f, l, name, E)
    <3>1. ASSUME NEW i \in Range1(project[f][l]), IsRenamed(project[f][l][i], name)
          PROVE  EditAt(f, l, i, name) \in E
      <4> DEFINE p == [file |-> f, line |-> l, word |-> i]
      <4>1. p \in Places /\ p.file = f /\ p.line = l /\ p.word = i
            BY PlacesAre
      <4>2. IsRenamed(WordAt(p), name)
            BY <3>1 DEF WordAt
      <4> HIDE DEF p
      <4>3. p \in PlacesOf(f)
            BY <1>1, <4>1
      <4> QED
          BY <4>1, <4>2, <4>3, EditsOfWords
    <3> HIDE DEF E
    <3> QED
        BY <3>1 DEF NewLine
  <2> HIDE DEF E, new
  <2> QED
      BY <2>1 DEF NewFile
<1>4. Applied(Original(f).lines, E) = NewFile(f, name, E)
      BY AppliedRenames
<1>5. RenamedFile(f, name) =
        IF \E p \in Places : p.file = f /\ IsRenamed(WordAt(p), name)
          THEN Join(lines, ends[f]) ELSE Original(f)
      BY DEF RenamedFile
<1>6. Rewritten(f, name) = Join(lines, ends[f])
      BY <1>3, <1>4 DEF Rewritten
<1> HIDE DEF lines
<1> QED
    BY <1>2, <1>5, <1>6

\* A file with edits has lines, and is not left torn by them.
LEMMA RewrittenIsWhole ==
    ASSUME project \in Projects, NEW name, NEW f \in {e.file : e \in Plan(name)}
    PROVE  Rewritten(f, name) # Torn
<1>1. PICK e \in Plan(name) : e.file = f
      OBVIOUS
<1>2. f \in Range1(project) /\ Len(project[f]) \in Nat /\ Len(project[f]) > 0
  <2>1. PICK p \in Places : e.file = p.file
        BY EditsAre
  <2>2. f \in Range1(project) /\ p.line \in Range1(project[f])
        BY <1>1, <2>1, PlacesAre
  <2>3. Len(project[f]) \in Nat
        BY <2>2, ProjectLines
  <2> QED
      BY <2>2, <2>3 DEF Range1
<1>3. PICK lines : lines = Applied(Original(f).lines, EditsOf(f, name))
      OBVIOUS
<1>4. Len(lines) > 0
      BY <1>2, <1>3, AppliedLength
<1>5. lines # <<>>
      BY <1>4
<1>6. Rewritten(f, name) = Join(lines, ends[f])
      BY <1>3 DEF Rewritten
<1> QED
    BY <1>5, <1>6 DEF Join, Content, Torn

-----------------------------------------------------------------------------
(* The invariant of a rename *)

\* What the control flow lets each variable hold.
Shape ==
    /\ project \in Projects
    /\ disk = [f \in Range1(project) |-> disk[f]]
    /\ pc \in {"idle", "apply", "done", "failed"}
    /\ cmd = None <=> pc = "idle"
    /\ pc = "idle" => edits = {} /\ todo = {}
    /\ pc = "apply" => cmd.apply
    /\ todo \subseteq {e.file : e \in edits}
    /\ \A e \in answer : e.place.file \in Range1(project)

\* Only a rename has edits: those of its plan.
Planned(name) ==
    /\ pc # "idle" => cmd.name = name
    /\ edits = {} \/ (cmd.op = "rename" /\ edits = Plan(name))

\* The files that have been written are rewritten and the others as they were,
\* but for one a failure left torn.
Written(f) == pc # "idle" /\ cmd.apply /\ f \in {e.file : e \in edits} /\ f \notin todo
Due(f, name) == IF Written(f) THEN Rewritten(f, name) ELSE Original(f)
DiskIs(name) ==
    \/ \A f \in Range1(project) : disk[f] = Due(f, name)
    \/ /\ pc = "failed"
       /\ \E f \in todo : /\ disk[f] = Torn
                          /\ \A g \in Range1(project) \ {f} : disk[g] = Due(g, name)

RenameInv == Shape /\ \E name : Planned(name) /\ DiskIs(name)

\* The entries of an answer are in files of the project.
InProject(entries) == \A e \in entries : e.place.file \in Range1(project)

\* Whatever the cascade finds, an answer names files of the project.
LEMMA AnswersInProject ==
    ASSUME NEW name, NEW found \in CascadeAnswers(name)
    PROVE  InProject(RefsAnswer(name, found)) /\ InProject(CallersAnswer(name, found))
<1>1. ASSUME NEW r \in found PROVE r.place \in Places
  <2>1. ASSUME NEW p, NEW t, NEW d PROVE Found(p, t, d).place = p
        BY DEF Found
  <2>2. Uses(name) \subseteq Places /\ Named(name) \subseteq Places
        BY DEF Uses, Named, References
  <2>3. ASSUME NEW t, NEW D, NEW S \in SUBSET Uses(name),
               found = {Found(p, t, d) : p \in S, d \in D}
        PROVE  r.place \in Places
        BY <2>1, <2>2, <2>3
  <2>4. CASE found = {Found(p, "syntactic", 0) : p \in Named(name)}
        BY <2>1, <2>2, <2>4
  <2>5. \/ found \in {{Found(p, "syntactic", 0) : p \in Named(name)}}
        \/ \E t, D : found \in SomeUses(name, t, D)
        BY DEF CascadeAnswers
  <2>6. ASSUME NEW t, NEW D, found \in SomeUses(name, t, D) PROVE r.place \in Places
        BY <2>3, <2>6 DEF SomeUses
  <2> QED
      BY <2>4, <2>5, <2>6
<1>2. \A p \in Places : p.file \in Range1(project)
      BY PlacesAre
<1>3. \A r, syntactic : Entry(r, syntactic).place = r.place
      BY DEF Entry
<1>4. ASSUME NEW some, \A r \in some : r.place \in Places,
             NEW syntactic \in SUBSET Places
      PROVE  InProject(Merge(some, syntactic))
  <2> SUFFICES ASSUME NEW e \in Merge(some, syntactic) PROVE e.place \in Places
      BY <1>2 DEF InProject
  <2>1. CASE \E r \in some : e = Entry(r, syntactic)
        BY <1>3, <1>4, <2>1
  <2>2. CASE \E p \in syntactic : e = AddedReference(p)
        BY <2>2 DEF AddedReference, Added
  <2> QED
      BY <2>1, <2>2 DEF Merge
<1>5. Named(name) \subseteq Places /\ Calls(name) \subseteq Places
      BY DEF Calls, Named, References
<1>6. InProject(CallersAnswer(name, found))
  <2>1. \A r \in {r \in found : r.tier # "syntactic"} : r.place \in Places
        BY <1>1
  <2> QED
      BY <1>4, <1>5, <2>1 DEF CallersAnswer
<1>7. InProject(Merge(Relevant(name, found), Named(name)))
  <2>1. Relevant(name, found) \subseteq found
        BY DEF Relevant
  <2> QED
      BY <1>1, <1>4, <1>5, <2>1
<1>8. ASSUME NEW entries PROVE InProject(DefinitionEntries(name, entries))
  <2> SUFFICES ASSUME NEW e \in DefinitionEntries(name, entries)
               PROVE  e.place.file \in Range1(project)
      BY DEF InProject
  <2>1. PICK p \in FindByName(name) : e.place = [p EXCEPT !.word = 1]
        BY DEF DefinitionEntries, Added
  <2>2. p \in Places
        BY DEF FindByName, Symbols
  <2>3. e.place.file = p.file
        BY <2>1, <2>2, PlacesAre
  <2> QED
      BY <1>2, <2>2, <2>3
<1> QED
    BY <1>6, <1>7, <1>8 DEF RefsAnswer, InProject

\* Before anything is asked the files are as they were.
LEMMA InitInv == Init => RenameInv
<1> SUFFICES ASSUME Init PROVE RenameInv
    OBVIOUS
<1>1. Shape
      BY DEF Init, Shape
<1>2. \A name : Planned(name)
      BY DEF Init, Planned
<1>3. \A f : ~ Written(f)
      BY DEF Init, Written
<1>4. \A name : DiskIs(name)
      BY <1>3 DEF Init, DiskIs, Due
<1> QED
    BY <1>1, <1>2, <1>4 DEF RenameInv

\* A step that leaves the sources leaves what a rename makes of them.
LEMMA SameFiles ==
    ASSUME project' = project, ends' = ends
    PROVE  /\ \A f, name : Rewritten(f, name)' = Rewritten(f, name)
           /\ \A f : Original(f)' = Original(f)
           /\ \A name : Plan(name)' = Plan(name)
<1>1. ASSUME NEW name PROVE Plan(name)' = Plan(name)
  <2>1. /\ Named(name)' = Named(name) /\ FindByName(name)' = FindByName(name)
        /\ \A p : WordAt(p)' = WordAt(p)
        BY DEF Named, FindByName, WordAt, References, Symbols, Places, PlacesOf
  <2> QED
      BY <2>1 DEF Plan
<1>2. ASSUME NEW f PROVE Original(f)' = Original(f)
      BY DEF Original, Content
<1>3. ASSUME NEW f, NEW name PROVE Rewritten(f, name)' = Rewritten(f, name)
  <2>1. EditsOf(f, name)' = EditsOf(f, name)
        BY <1>1 DEF EditsOf
  <2> QED
      BY <1>2, <2>1 DEF Rewritten, Join
<1> QED
    BY <1>1, <1>2, <1>3

\* A question that is no rename writes nothing.
LEMMA AskedInv ==
    ASSUME RenameInv, NEW name \in Names, Refs(name) \/ Callers(name)
    PROVE  RenameInv'
<1>1. PICK op, found : /\ Ask(op, name, FALSE) /\ op \in {"refs", "callers"}
                       /\ found \in CascadeAnswers(name)
                       /\ answer' \in {RefsAnswer(name, found), CallersAnswer(name, found)}
  <2>1. CASE Refs(name)
        BY <2>1 DEF Refs
  <2>2. CASE Callers(name)
        BY <2>2 DEF Callers
  <2> QED
      BY <2>1, <2>2
<1>2. /\ pc' = "done" /\ pc = "idle" /\ UNCHANGED <<project, disk, ends, edits, todo>>
      /\ cmd' = [op |-> op, name |-> name, apply |-> FALSE]
      BY <1>1 DEF Refs, Callers, Ask
<1>3. Shape'
  <2>1. InProject(RefsAnswer(name, found)) /\ InProject(CallersAnswer(name, found))
        BY <1>1, AnswersInProject
  <2>2. PICK a : a = answer' /\ InProject(a)
        BY <1>1, <2>1
  <2>3. \A e \in answer' : e.place.file \in Range1(project')
        BY <1>2, <2>2 DEF InProject
  <2>4. cmd' \in Questions
        BY <1>1, <1>2 DEF Questions
  <2> QED
      BY <1>2, <2>3, <2>4, CommandsAssumption DEF Shape, RenameInv
<1>4. Planned(name)'
      BY <1>2 DEF Planned, RenameInv, Shape
<1>5. DiskIs(name)'
  <2>1. PICK n : DiskIs(n)
        BY DEF RenameInv
  <2>2. \A f : ~ Written(f) /\ ~ Written(f)'
        BY <1>2 DEF Written
  <2>3. \A f \in Range1(project) : disk[f] = Original(f)
        BY <1>2, <2>1, <2>2 DEF DiskIs, Due
  <2> QED
      BY <1>2, <2>2, <2>3, SameFiles DEF DiskIs, Due
<1> QED
    BY <1>3, <1>4, <1>5 DEF RenameInv

\* A rename that plans its edits writes nothing yet.
LEMMA RenameStepInv ==
    ASSUME RenameInv, NEW name \in Names, NEW apply \in BOOLEAN, Rename(name, apply)
    PROVE  RenameInv'
<1>1. /\ pc = "idle" /\ pc' \in {"apply", "done", "failed"}
      /\ UNCHANGED <<project, disk, ends, answer>>
      /\ cmd' = [op |-> "rename", name |-> name, apply |-> apply]
      /\ pc' = "apply" => apply
      BY DEF Rename, Ask
<1>2. edits = {} /\ todo = {}
      BY <1>1 DEF RenameInv, Shape
<1>3. PICK plan : plan = Plan(name)
      OBVIOUS
<1>4. /\ edits' = {} \/ edits' = plan
      /\ todo' \subseteq {e.file : e \in edits'}
      /\ apply => todo' = {e.file : e \in edits'}
      BY <1>2, <1>3 DEF Rename
<1>5. Shape'
  <2>1. cmd' \in Questions
        BY <1>1 DEF Questions
  <2>2. project' \in Projects /\ disk' = [f \in Range1(project') |-> disk'[f]]
        /\ \A e \in answer' : e.place.file \in Range1(project')
        BY <1>1 DEF RenameInv, Shape
  <2> QED
      BY <1>1, <1>4, <2>1, <2>2, CommandsAssumption DEF Shape
<1>6. Planned(name)'
  <2>1. Plan(name)' = plan
        BY <1>1, <1>3, SameFiles
  <2> QED
      BY <1>1, <1>4, <2>1 DEF Planned
<1>7. DiskIs(name)'
  <2>1. PICK n : DiskIs(n)
        BY DEF RenameInv
  <2>2. \A f : ~ Written(f) /\ ~ Written(f)'
        BY <1>1, <1>2, <1>4 DEF Written
  <2>3. \A f \in Range1(project) : disk[f] = Original(f)
        BY <1>1, <2>1, <2>2 DEF DiskIs, Due
  <2> QED
      BY <1>1, <2>2, <2>3, SameFiles DEF DiskIs, Due
<1> QED
    BY <1>5, <1>6, <1>7 DEF RenameInv

\* A file whose turn it is becomes its rewritten form, and no other changes.
LEMMA ApplyEditsInv ==
    ASSUME RenameInv, NEW f \in Range1(project), ApplyEdits(f)
    PROVE  RenameInv'
<1>1. PICK name : Planned(name) /\ DiskIs(name)
      BY DEF RenameInv
<1>2. /\ pc = "apply" /\ f \in todo /\ todo' = todo \ {f} /\ pc' \in {"apply", "done"}
      /\ UNCHANGED <<project, ends, cmd, edits, answer>>
      BY DEF ApplyEdits
<1>3. /\ edits = Plan(name) /\ cmd.apply /\ f \in {e.file : e \in edits} /\ cmd # None
      BY <1>1, <1>2 DEF Planned, RenameInv, Shape
<1>4. Shape'
  <2>1. disk' = [g \in Range1(project') |-> disk'[g]]
        BY <1>2 DEF ApplyEdits, RenameInv, Shape
  <2> QED
      BY <1>2, <1>3, <2>1 DEF RenameInv, Shape
<1>5. Planned(name)'
      BY <1>1, <1>2, SameFiles DEF Planned
<1>6. \A g \in Range1(project) : disk[g] = Due(g, name)
      BY <1>1, <1>2 DEF DiskIs
<1>7. disk[f] = Original(f)
      BY <1>2, <1>6 DEF Due, Written
<1>8. disk' = [disk EXCEPT ![f] = Rewritten(f, name)]
  <2>1. {e \in edits : e.file = f} = EditsOf(f, name)
        BY <1>3 DEF EditsOf
  <2>2. Original(f).ended = ends[f]
        BY DEF Original, Content
  <2>3. disk' = [disk EXCEPT ![f] =
                   Join(Applied(disk[f].lines, {e \in edits : e.file = f}), disk[f].ended)]
        BY DEF ApplyEdits
  <2> QED
      BY <1>7, <2>1, <2>2, <2>3 DEF Rewritten
<1>9. /\ \A g : g # f => (Written(g)' <=> Written(g))
      /\ Written(f)'
      BY <1>2, <1>3 DEF Written
<1>10. ASSUME NEW g \in Range1(project) PROVE disk'[g] = Due(g, name)'
  <2>1. Rewritten(g, name)' = Rewritten(g, name) /\ Original(g)' = Original(g)
        BY <1>2, SameFiles
  <2>2. CASE g = f
    <3>1. disk'[g] = Rewritten(g, name)
          BY <1>8, <2>2 DEF RenameInv, Shape
    <3> QED
        BY <1>9, <2>1, <2>2, <3>1 DEF Due
  <2>3. CASE g # f
    <3>1. disk'[g] = disk[g]
          BY <1>8, <2>3 DEF RenameInv, Shape
    <3> QED
        BY <1>6, <1>9, <2>1, <2>3, <3>1 DEF Due
  <2> QED
      BY <2>2, <2>3
<1>11. DiskIs(name)'
      BY <1>2, <1>10 DEF DiskIs
<1> QED
    BY <1>4, <1>5, <1>11 DEF RenameInv

\* A file that cannot be written is as it was or torn, and the rename ends.
LEMMA FileFailsInv ==
    ASSUME RenameInv, NEW f \in Range1(project), FileFails(f)
    PROVE  RenameInv'
<1>1. PICK name : Planned(name) /\ DiskIs(name)
      BY DEF RenameInv
<1>2. /\ pc = "apply" /\ f \in todo /\ pc' = "failed"
      /\ UNCHANGED <<project, ends, cmd, edits, todo, answer>>
      /\ disk' = disk \/ disk' = [disk EXCEPT ![f] = Torn]
      BY DEF FileFails
<1>3. cmd # None
      BY <1>2 DEF RenameInv, Shape
<1>4. Shape'
  <2>1. disk' = [g \in Range1(project') |-> disk'[g]]
        BY <1>2 DEF RenameInv, Shape
  <2> QED
      BY <1>2, <1>3, <2>1 DEF RenameInv, Shape
<1>5. Planned(name)'
      BY <1>1, <1>2, SameFiles DEF Planned
<1>6. \A g \in Range1(project) : disk[g] = Due(g, name)
      BY <1>1, <1>2 DEF DiskIs
<1>7. \A g : Written(g)' <=> Written(g)
      BY <1>2 DEF Written
<1>8. ASSUME NEW g \in Range1(project) PROVE Due(g, name)' = Due(g, name)
  <2>1. Rewritten(g, name)' = Rewritten(g, name) /\ Original(g)' = Original(g)
        BY <1>2, SameFiles
  <2> QED
      BY <1>7, <2>1 DEF Due
<1>9. DiskIs(name)'
  <2>1. CASE disk' = disk
        BY <1>2, <1>6, <1>8, <2>1 DEF DiskIs
  <2>2. CASE disk' = [disk EXCEPT ![f] = Torn]
    <3>1. disk'[f] = Torn /\ \A g \in Range1(project) \ {f} : disk'[g] = disk[g]
          BY <2>2 DEF RenameInv, Shape
    <3> QED
        BY <1>2, <1>6, <1>8, <3>1 DEF DiskIs
  <2> QED
      BY <1>2, <2>1, <2>2
<1> QED
    BY <1>4, <1>5, <1>9 DEF RenameInv

\* A step of nothing keeps it.
LEMMA StutterInv ==
    ASSUME RenameInv, UNCHANGED vars
    PROVE  RenameInv'
<1>1. PICK name : Planned(name) /\ DiskIs(name)
      BY DEF RenameInv
<1>2. UNCHANGED <<project, disk, ends, cmd, pc, edits, todo, answer>>
      BY DEF vars
<1>3. \A g : Written(g)' <=> Written(g)
      BY <1>2 DEF Written
<1>4. ASSUME NEW g \in Range1(project) PROVE Due(g, name)' = Due(g, name)
  <2>1. Rewritten(g, name)' = Rewritten(g, name) /\ Original(g)' = Original(g)
        BY <1>2, SameFiles
  <2> QED
      BY <1>3, <2>1 DEF Due
<1>5. Shape'
      BY <1>2 DEF RenameInv, Shape
<1>6. Planned(name)'
      BY <1>1, <1>2, SameFiles DEF Planned
<1>7. DiskIs(name)'
      BY <1>1, <1>2, <1>4 DEF DiskIs
<1> QED
    BY <1>5, <1>6, <1>7 DEF RenameInv

\* The invariant holds of every command over every project.
LEMMA RenameSafe == Spec => []RenameInv
<1>1. RenameInv /\ [Next]_vars => RenameInv'
  <2> SUFFICES ASSUME RenameInv, [Next]_vars PROVE RenameInv'
      OBVIOUS
  <2>1. ASSUME NEW name \in Names, Refs(name) \/ Callers(name) PROVE RenameInv'
        BY <2>1, AskedInv
  <2>2. ASSUME NEW name \in Names, NEW apply \in BOOLEAN, Rename(name, apply) PROVE RenameInv'
        BY <2>2, RenameStepInv
  <2>3. ASSUME NEW f \in Range1(project), ApplyEdits(f) PROVE RenameInv'
        BY <2>3, ApplyEditsInv
  <2>4. ASSUME NEW f \in Range1(project), FileFails(f) PROVE RenameInv'
        BY <2>4, FileFailsInv
  <2>5. CASE UNCHANGED vars
        BY <2>5, StutterInv
  <2> QED
      BY <2>1, <2>2, <2>3, <2>4, <2>5 DEF Next
<1> QED
    BY <1>1, InitInv, PTL DEF Spec

-----------------------------------------------------------------------------
(* What a rename has written is what it promises *)

\* rename.rs:40-120 and 206: every edit replaces letters that are in the line,
\* and no file is left torn but by a write that failed.
THEOREM RenameIsTyped == Spec => []CommandsTypeOK
<1>1. RenameInv => CommandsTypeOK
  <2> SUFFICES ASSUME RenameInv PROVE CommandsTypeOK
      OBVIOUS
  <2>1. PICK name : Planned(name) /\ DiskIs(name)
        BY DEF RenameInv
  <2>2. ASSUME NEW e \in edits
        PROVE  /\ e.file \in Range1(project) /\ e.line \in Range1(project[e.file])
               /\ e.start < e.end /\ e.end <= Len(Original(e.file).lines[e.line])
    <3>1. e \in Plan(name)
          BY <2>1 DEF Planned
    <3>2. project \in Projects
          BY DEF RenameInv, Shape
    <3>3. PICK p \in Places :
             LET t == TextOf(project[p.file][p.line])
             IN  /\ e.file = p.file /\ e.line = p.line /\ e.end = e.start + Len(name)
                 /\ e.start \in Nat /\ Len(name) \in Nat /\ Len(name) > 0
                 /\ Occurs(name, t, e.start)
          BY <3>1, <3>2, EditsAre
    <3>4. e.file \in Range1(project) /\ e.line \in Range1(project[e.file])
          BY <3>3, PlacesAre
    <3>5. Original(e.file).lines[e.line] = TextOf(project[e.file][e.line])
          BY <3>4 DEF Original, Content
    <3> QED
        BY <3>3, <3>4, <3>5 DEF Occurs
  <2>3. ASSUME NEW f \in Range1(project), disk[f] = Torn
        PROVE  pc = "failed" \/ Original(f) = Torn
    <3> SUFFICES ASSUME pc # "failed" PROVE Original(f) = Torn
        OBVIOUS
    <3>1. Due(f, name) = Torn
          BY <2>1, <2>3 DEF DiskIs
    <3>2. CASE Written(f)
      <4>1. f \in {e.file : e \in Plan(name)} /\ project \in Projects
            BY <2>1, <3>2 DEF Written, Planned, RenameInv, Shape
      <4>2. Rewritten(f, name) # Torn
            BY <4>1, RewrittenIsWhole
      <4> QED
          BY <3>1, <3>2, <4>2 DEF Due
    <3>3. CASE ~ Written(f)
          BY <3>1, <3>3 DEF Due
    <3> QED
        BY <3>2, <3>3
  <2> QED
      BY <2>2, <2>3 DEF CommandsTypeOK, RenameInv, Shape
<1> QED
    BY <1>1, RenameSafe, PTL

\* rename.rs:182, 195: edits do not shift each other's positions.  However many are
\* on a line and however long the names are, each file is as it was or has just its
\* words renamed, but for one a failed write left torn.
THEOREM RenamesOrNot == Spec => []RenamedOrNot
<1>1. RenameInv => RenamedOrNot
  <2> SUFFICES ASSUME RenameInv, pc # "idle", cmd.op = "rename", FindsItself(cmd.name)
               PROVE  RenamedOrNot
      BY DEF RenamedOrNot
  <2>1. PICK name : Planned(name) /\ DiskIs(name)
        BY DEF RenameInv
  <2>2. cmd.name = name /\ FindsItself(name) /\ project \in Projects
        BY <2>1 DEF Planned, RenameInv, Shape
  <2> DEFINE written(f) == cmd.apply /\ edits # {} /\ f \notin todo
             due(f) == IF written(f) THEN RenamedFile(f, cmd.name) ELSE Original(f)
             wrong == {f \in Range1(project) : disk[f] # due(f)}
  <2>3. ASSUME NEW f \in Range1(project) PROVE Due(f, name) = due(f)
    <3>1. RenamedFile(f, name) = IF f \in {e.file : e \in Plan(name)} THEN Rewritten(f, name)
                                                                      ELSE Original(f)
          BY <2>2, RewrittenIsRenamed
    <3>2. CASE edits = {}
          BY <3>2 DEF Due, Written
    <3>3. CASE edits = Plan(name) /\ edits # {}
          BY <2>2, <3>1, <3>3 DEF Due, Written
    <3> QED
        BY <2>1, <3>2, <3>3 DEF Planned
  <2>4. CASE \A f \in Range1(project) : disk[f] = Due(f, name)
    <3>1. wrong = {}
          BY <2>3, <2>4
    <3> QED
        BY <3>1 DEF RenamedOrNot
  <2>5. CASE /\ pc = "failed"
             /\ \E f \in todo : /\ disk[f] = Torn
                                /\ \A g \in Range1(project) \ {f} : disk[g] = Due(g, name)
    <3>1. PICK f \in todo : /\ disk[f] = Torn
                            /\ \A g \in Range1(project) \ {f} : disk[g] = Due(g, name)
          BY <2>5
    <3>2. wrong = {} \/ wrong = {f}
          BY <2>3, <3>1
    <3> QED
        BY <2>5, <3>1, <3>2 DEF RenamedOrNot
  <2> QED
      BY <2>1, <2>4, <2>5 DEF DiskIs
<1> QED
    BY <1>1, RenameSafe, PTL

-----------------------------------------------------------------------------
(* The answers of refs and callers *)

\* Merge adds what is missing, and nothing that is there.
LEMMA MergeCovers ==
    ASSUME NEW found, NEW syntactic
    PROVE  LET entries == Merge(found, syntactic)
           IN  /\ \A p \in syntactic : \E e \in entries :
                     e.place = p /\ ~ e.absolute /\ e.kind = KindOf(WordAt(p).role)
               /\ \A d, e \in entries :
                     d.added /\ d.place = e.place /\ d.absolute = e.absolute => d = e
<1> DEFINE entries == {Entry(r, syntactic) : r \in found}
           covered == {e.place : e \in {e \in entries : ~ e.absolute}}
           added == {AddedReference(p) : p \in syntactic \ covered}
<1>1. Merge(found, syntactic) = entries \cup added
      BY DEF Merge
<1>2. \A r : /\ Entry(r, syntactic).place = r.place
             /\ Entry(r, syntactic).absolute = r.absolute
             /\ Entry(r, syntactic).added = FALSE
             /\ r.place \in syntactic /\ ~ r.absolute =>
                  Entry(r, syntactic).kind = KindOf(WordAt(r.place).role)
      BY DEF Entry
<1>3. \A p : /\ AddedReference(p).place = p
             /\ AddedReference(p).absolute = FALSE
             /\ AddedReference(p).kind = KindOf(WordAt(p).role)
      BY DEF AddedReference, Added
<1> HIDE DEF entries, covered, added
<1>4. ASSUME NEW p \in syntactic
      PROVE  \E e \in entries \cup added :
                e.place = p /\ ~ e.absolute /\ e.kind = KindOf(WordAt(p).role)
  <2>1. CASE p \in covered
    <3>1. PICK r \in found : Entry(r, syntactic).place = p /\ ~ Entry(r, syntactic).absolute
          BY <2>1 DEF covered, entries
    <3> QED
        BY <3>1, <1>2 DEF entries
  <2>2. CASE p \notin covered
        BY <2>2, <1>3 DEF added
  <2> QED
      BY <2>1, <2>2
<1>5. ASSUME NEW d \in entries \cup added, NEW e \in entries \cup added,
             d.added, d.place = e.place, d.absolute = e.absolute
      PROVE  d = e
  <2>1. \A c \in entries : ~ c.added
        BY <1>2 DEF entries
  <2>2. PICK p \in syntactic \ covered : d = AddedReference(p)
        BY <1>5, <2>1 DEF added
  <2>3. e \notin entries
        BY <1>3, <1>5, <2>2 DEF covered
  <2>4. PICK q : e = AddedReference(q)
        BY <2>3 DEF added
  <2> QED
      BY <1>3, <1>5, <2>2, <2>4
<1> QED
    BY <1>1, <1>4, <1>5

\* What RefsLoseNothing says of an answer.
NothingLost(entries, due, name, op) ==
    LET listed == {e.place : e \in {e \in entries : ~ e.absolute}}
    IN  /\ due \subseteq listed
        /\ \A p \in due : \E e \in entries : e.place = p /\ e.kind = KindOf(WordAt(p).role)
        /\ \A d, e \in entries : d.added /\ d.place = e.place /\ d.absolute = e.absolute => d = e
        /\ op = "refs" => \A p \in FindByName(name) :
              \E q \in listed : q.file = p.file /\ q.line = p.line
        /\ due # {} => \A p \in Dead : WordAt(p).text # name

\* `cq dead` names no item that has a reference.
LEMMA NotDead ==
    ASSUME NEW name, Named(name) # {}
    PROVE  \A p \in Dead : WordAt(p).text # name
BY DEF Dead, Named

\* Steps 5b to 7b of refs lose nothing, whatever was found.
LEMMA RefsAnswerLosesNothing ==
    ASSUME NEW name, NEW found
    PROVE  NothingLost(RefsAnswer(name, found), Named(name), name, "refs")
<1> DEFINE merged == Merge(Relevant(name, found), Named(name))
           heads == DefinitionEntries(name, merged)
<1>1. RefsAnswer(name, found) = merged \cup heads
      BY DEF RefsAnswer
<1>2. /\ \A p \in Named(name) : \E e \in merged :
            e.place = p /\ ~ e.absolute /\ e.kind = KindOf(WordAt(p).role)
      /\ \A d, e \in merged : d.added /\ d.place = e.place /\ d.absolute = e.absolute => d = e
      BY MergeCovers
<1>3. /\ \A p \in FindByName(name) :
            \/ \E e \in merged : ~ e.absolute /\ e.place.file = p.file /\ e.place.line = p.line
            \/ \E h \in heads : ~ h.absolute /\ h.place.file = p.file /\ h.place.line = p.line
      /\ \A h \in heads :
            /\ h = Added(h.place, "Definition", <<>>) /\ h.absolute = FALSE
            /\ \A e \in merged : ~ e.absolute => e.place # h.place
  <2> HIDE DEF merged
  <2> DEFINE HeadOf(p) == Added([p EXCEPT !.word = 1], "Definition", <<>>)
             bare == {p \in FindByName(name) :
                        ~ \E e \in merged :
                            ~ e.absolute /\ e.place.file = p.file /\ e.place.line = p.line}
  <2>1. heads = {HeadOf(p) : p \in bare}
        BY DEF DefinitionEntries
  <2>2. \A p \in FindByName(name) :
           /\ [p EXCEPT !.word = 1].file = p.file
           /\ [p EXCEPT !.word = 1].line = p.line
        BY PlacesAre DEF FindByName, Symbols
  <2>3. \A p : /\ HeadOf(p).place = [p EXCEPT !.word = 1]
               /\ HeadOf(p).absolute = FALSE
               /\ HeadOf(p) = Added(HeadOf(p).place, "Definition", <<>>)
        BY DEF Added
  <2> HIDE DEF HeadOf, heads
  <2>4. ASSUME NEW p \in FindByName(name)
        PROVE  \/ \E e \in merged : ~ e.absolute /\ e.place.file = p.file /\ e.place.line = p.line
               \/ \E h \in heads : ~ h.absolute /\ h.place.file = p.file /\ h.place.line = p.line
    <3>1. p \in bare => HeadOf(p) \in heads
          BY <2>1
    <3> QED
        BY <3>1, <2>2, <2>3
  <2>5. ASSUME NEW h \in heads
        PROVE  /\ h = Added(h.place, "Definition", <<>>) /\ h.absolute = FALSE
               /\ \A e \in merged : ~ e.absolute => e.place # h.place
    <3>1. PICK p \in bare : h = HeadOf(p)
          BY <2>1
    <3>2. h.place.file = p.file /\ h.place.line = p.line
          BY <3>1, <2>2, <2>3
    <3> QED
        BY <3>1, <3>2, <2>3
  <2> QED
      BY <2>4, <2>5
<1> HIDE DEF merged, heads
<1>4. \A p \in FindByName(name) : \E e \in merged \cup heads :
         ~ e.absolute /\ e.place.file = p.file /\ e.place.line = p.line
      BY <1>3
<1>5. \A d, e \in merged \cup heads :
         d.added /\ d.place = e.place /\ d.absolute = e.absolute => d = e
  <2>1. \A h \in heads : h.absolute = FALSE
        BY <1>3
  <2>2. \A g, h \in heads : g.place = h.place => g = h
        BY <1>3
  <2> QED
      BY <1>2, <1>3, <2>1, <2>2
<1>6. Named(name) # {} => \A p \in Dead : WordAt(p).text # name
      BY NotDead
<1> DEFINE listed == {e.place : e \in {e \in merged \cup heads : ~ e.absolute}}
<1>7. Named(name) \subseteq listed
      BY <1>2
<1>8. \A p \in FindByName(name) : \E q \in listed : q.file = p.file /\ q.line = p.line
      BY <1>4
<1> QED
    BY <1>1, <1>2, <1>5, <1>6, <1>7, <1>8 DEF NothingLost

\* Nor does callers, of the calls.
LEMMA CallersAnswerLosesNothing ==
    ASSUME NEW name, NEW found
    PROVE  NothingLost(CallersAnswer(name, found), Calls(name), name, "callers")
<1> DEFINE merged == CallersAnswer(name, found)
           listed == {e.place : e \in {e \in merged : ~ e.absolute}}
<1>1. /\ \A p \in Calls(name) : \E e \in merged :
            e.place = p /\ ~ e.absolute /\ e.kind = KindOf(WordAt(p).role)
      /\ \A d, e \in merged : d.added /\ d.place = e.place /\ d.absolute = e.absolute => d = e
      BY MergeCovers DEF CallersAnswer
<1>2. Calls(name) # {} => \A p \in Dead : WordAt(p).text # name
      BY NotDead DEF Calls
<1>3. Calls(name) \subseteq listed
      BY <1>1
<1> QED
    BY <1>1, <1>2, <1>3 DEF NothingLost

\* A step that leaves the project leaves what a scan finds in it.
LEMMA SameScan ==
    ASSUME project' = project, NEW name
    PROVE  /\ Named(name)' = Named(name) /\ Calls(name)' = Calls(name)
           /\ FindByName(name)' = FindByName(name) /\ Dead' = Dead
           /\ \A p : WordAt(p)' = WordAt(p)
BY DEF Named, Calls, FindByName, Dead, WordAt, References, Symbols, Places, PlacesOf

LEMMA SameLoss ==
    ASSUME project' = project, NEW entries, NEW due, NEW name, NEW op,
           NothingLost(entries, due, name, op)
    PROVE  NothingLost(entries, due, name, op)'
BY SameScan DEF NothingLost

\* The invariant: only a rename has edits to apply, and nothing is lost.
RefsInv ==
    /\ pc = "apply" => cmd.op = "rename"
    /\ pc = "done" /\ cmd.op = "refs" =>
         NothingLost(answer, Named(cmd.name), cmd.name, "refs")
    /\ pc = "done" /\ cmd.op = "callers" =>
         NothingLost(answer, Calls(cmd.name), cmd.name, "callers")

LEMMA RefsInvSuffices == RefsInv => RefsLoseNothing
<1> SUFFICES ASSUME RefsInv, pc = "done", cmd.op \in {"refs", "callers"}
             PROVE  RefsLoseNothing
    BY DEF RefsLoseNothing
<1>1. CASE cmd.op = "refs"
      BY <1>1 DEF RefsInv, RefsLoseNothing, NothingLost
<1>2. CASE cmd.op = "callers"
      BY <1>2 DEF RefsInv, RefsLoseNothing, NothingLost
<1> QED
    BY <1>1, <1>2

\* refs.rs:172: what refs and callers answer contains every use a scan knows,
\* for any project and whatever part of the uses a tier finds.
THEOREM NoUseIsLost == Spec => []RefsLoseNothing
<1>1. Init => RefsInv
      BY DEF Init, RefsInv
<1>2. RefsInv /\ [Next]_vars => RefsInv'
  <2> SUFFICES ASSUME RefsInv, [Next]_vars PROVE RefsInv'
      OBVIOUS
  <2>1. ASSUME NEW name \in Names, Refs(name) PROVE RefsInv'
    <3>1. PICK found : answer' = RefsAnswer(name, found)
          BY <2>1 DEF Refs
    <3>2. /\ pc' = "done" /\ project' = project
          /\ cmd'.op = "refs" /\ cmd'.name = name
          BY <2>1 DEF Refs, Ask
    <3>3. PICK a, d : a = answer' /\ d = Named(name)
          OBVIOUS
    <3>4. NothingLost(a, d, name, "refs")
          BY <3>1, <3>3, RefsAnswerLosesNothing
    <3>5. NothingLost(a, d, name, "refs")'
          BY <3>2, <3>4, SameLoss
    <3>6. Named(name)' = d
          BY <3>2, <3>3, SameScan
    <3> QED
        BY <3>2, <3>3, <3>5, <3>6 DEF RefsInv
  <2>2. ASSUME NEW name \in Names, Callers(name) PROVE RefsInv'
    <3>1. PICK found : answer' = CallersAnswer(name, found)
          BY <2>2 DEF Callers
    <3>2. /\ pc' = "done" /\ project' = project
          /\ cmd'.op = "callers" /\ cmd'.name = name
          BY <2>2 DEF Callers, Ask
    <3>3. PICK a, d : a = answer' /\ d = Calls(name)
          OBVIOUS
    <3>4. NothingLost(a, d, name, "callers")
          BY <3>1, <3>3, CallersAnswerLosesNothing
    <3>5. NothingLost(a, d, name, "callers")'
          BY <3>2, <3>4, SameLoss
    <3>6. Calls(name)' = d
          BY <3>2, <3>3, SameScan
    <3> QED
        BY <3>2, <3>3, <3>5, <3>6 DEF RefsInv
  <2>3. ASSUME NEW name \in Names, NEW apply \in BOOLEAN, Rename(name, apply) PROVE RefsInv'
        BY <2>3 DEF Rename, Ask, RefsInv
  <2>4. ASSUME NEW f \in Range1(project), ApplyEdits(f) \/ FileFails(f) PROVE RefsInv'
        BY <2>4 DEF ApplyEdits, FileFails, RefsInv
  <2>5. CASE UNCHANGED vars
    <3>1. project' = project /\ cmd' = cmd /\ pc' = pc /\ answer' = answer
          BY <2>5 DEF vars
    <3>2. PICK a, n : a = answer /\ n = cmd.name
          OBVIOUS
    <3>3. PICK d, c : d = Named(n) /\ c = Calls(n)
          OBVIOUS
    <3>4. d = Named(n)' /\ c = Calls(n)'
          BY <3>1, <3>3, SameScan
    <3>5. /\ NothingLost(a, d, n, "refs") => NothingLost(a, d, n, "refs")'
          /\ NothingLost(a, c, n, "callers") => NothingLost(a, c, n, "callers")'
          BY <3>1, SameLoss
    <3> QED
        BY <3>1, <3>2, <3>3, <3>4, <3>5 DEF RefsInv
  <2> QED
      BY <2>1, <2>2, <2>3, <2>4, <2>5 DEF Next
<1> QED
    BY <1>1, <1>2, RefsInvSuffices, PTL DEF Spec

-----------------------------------------------------------------------------
(* Ways back along the calls *)

\* A way back along the calls from a name, of k names: it ends behind d calls, or
\* at a name that is on it or among those visited, or that nobody calls.
IsWay(w, k, name, d, visited) ==
    /\ w[1] = name
    /\ \A i \in 1..(k - 1) : w[i + 1] \in CallingNames(w[i]) /\ w[i] \notin visited
    /\ \A i, j \in 1..(k - 1) : w[i] = w[j] => i = j
    /\ \/ k = d + 1 \/ w[k] \in visited \/ CallingNames(w[k]) = {}
       \/ \E i \in 1..(k - 1) : w[i] = w[k]

IsWayIn(names, w, name, d, visited) ==
    \E k \in 1..(d + 1) : w \in [1..k -> names] /\ IsWay(w, k, name, d, visited)

WaysFrom(names, name, d, visited) ==
    {w \in UNION {[1..k -> names] : k \in 1..(d + 1)} : IsWayIn(names, w, name, d, visited)}

\* Such a set is bounded, so it holds all of them.
LEMMA WaysAre ==
    ASSUME NEW names, NEW name, NEW d, NEW visited, NEW w
    PROVE  w \in WaysFrom(names, name, d, visited) <=> IsWayIn(names, w, name, d, visited)
<1>1. ASSUME IsWayIn(names, w, name, d, visited)
      PROVE  w \in UNION {[1..k -> names] : k \in 1..(d + 1)}
  <2>1. PICK k \in 1..(d + 1) : w \in [1..k -> names]
        BY <1>1 DEF IsWayIn
  <2> QED
      BY <2>1
<1> QED
    BY <1>1 DEF WaysFrom

\* One name put before a way.
Longer(u, name, w, k, names) ==
    /\ u \in [1..(k + 1) -> names] /\ u[1] = name
    /\ \A i \in 1..k : u[i + 1] = w[i]

\* A name and a way make a longer one,
LEMMA Prepend ==
    ASSUME NEW names, NEW name \in names, NEW k \in Nat, NEW w \in [1..k -> names]
    PROVE  Longer(<<name>> \o w, name, w, k, names)
<1>1. w \in Seq(names) /\ Len(w) = k
      BY DEF Seq
<1>2. PICK u : u = <<name>> \o w
      OBVIOUS
<1>3. u \in Seq(names) /\ Len(u) = k + 1 /\ u[1] = name /\ \A i \in 1..k : u[i + 1] = w[i]
      BY <1>1, <1>2
<1>4. u \in [1..(k + 1) -> names]
      BY <1>3
<1> QED
    BY <1>2, <1>3, <1>4 DEF Longer

\* and a longer one is made of a name and a way.
LEMMA Behead ==
    ASSUME NEW names, NEW k \in Nat, NEW u \in [1..(k + 1) -> names]
    PROVE  \E w \in [1..k -> names] : u = <<u[1]>> \o w /\ Longer(u, u[1], w, k, names)
<1> DEFINE w == [i \in 1..k |-> u[i + 1]]
<1>1. w \in [1..k -> names] /\ u[1] \in names
      OBVIOUS
<1>2. Longer(<<u[1]>> \o w, u[1], w, k, names)
  <2> HIDE DEF w
  <2> QED
      BY <1>1, Prepend
<1>3. Longer(u, u[1], w, k, names)
      BY <1>1 DEF Longer
<1> HIDE DEF w
<1>4. \A i \in 1..(k + 1) : i = 1 \/ (i - 1 \in 1..k /\ i = (i - 1) + 1)
      OBVIOUS
<1>5. \A i \in 1..(k + 1) : (<<u[1]>> \o w)[i] = u[i]
      BY <1>2, <1>3, <1>4 DEF Longer
<1>6. u = <<u[1]>> \o w
      BY <1>2, <1>3, <1>5 DEF Longer
<1> QED
    BY <1>1, <1>3, <1>6

\* Looking at a name is taking a way one call further.
LEMMA ShiftWay ==
    ASSUME NEW names, NEW name, NEW k \in Nat, k # 0, NEW d \in Nat,
           NEW visited, name \notin visited,
           NEW w, NEW u, Longer(u, name, w, k, names)
    PROVE  IsWay(u, k + 1, name, d + 1, visited) <=>
             /\ w[1] \in CallingNames(name)
             /\ IsWay(w, k, w[1], d, visited \cup {name})
<1>1. /\ u[1] = name /\ u[2] = w[1] /\ u[k + 1] = w[k]
      /\ \A i \in 1..k : u[i + 1] = w[i]
  <2>1. 1 \in 1..k /\ k \in 1..k
        OBVIOUS
  <2> QED
      BY <2>1 DEF Longer
<1>2. /\ (k + 1) - 1 = k /\ 1 \in 1..k
      /\ \A i \in 1..k : i = 1 \/ (i - 1 \in 1..(k - 1) /\ (i - 1) + 1 = i)
      /\ \A i \in 1..(k - 1) : i \in 1..k /\ i + 1 \in 1..k /\ i + 1 # 1
      /\ \A i, j \in Nat : i + 1 = j + 1 => i = j
      OBVIOUS
<1>3. ASSUME IsWay(u, k + 1, name, d + 1, visited)
      PROVE  /\ w[1] \in CallingNames(name)
             /\ IsWay(w, k, w[1], d, visited \cup {name})
  <2>1. /\ \A i \in 1..k : u[i + 1] \in CallingNames(u[i]) /\ u[i] \notin visited
        /\ \A i, j \in 1..k : u[i] = u[j] => i = j
        BY <1>2, <1>3 DEF IsWay
  <2>2. w[1] \in CallingNames(name)
        BY <1>1, <1>2, <2>1
  <2>3. ASSUME NEW i \in 1..(k - 1)
        PROVE  w[i + 1] \in CallingNames(w[i]) /\ w[i] \notin visited \cup {name}
    <3>1. i + 1 \in 1..k /\ u[(i + 1) + 1] = w[i + 1] /\ u[i + 1] = w[i]
          BY <1>1, <1>2
    <3>2. u[i + 1] # u[1]
          BY <1>2, <2>1, <3>1
    <3> QED
        BY <1>1, <2>1, <3>1, <3>2
  <2>4. ASSUME NEW i \in 1..(k - 1), NEW j \in 1..(k - 1), w[i] = w[j] PROVE i = j
    <3>1. i + 1 \in 1..k /\ j + 1 \in 1..k /\ u[i + 1] = u[j + 1]
          BY <1>1, <1>2, <2>4
    <3>2. i + 1 = j + 1
          BY <2>1, <3>1
    <3> QED
        BY <3>2
  <2>5. \/ k = d + 1 \/ w[k] \in visited \cup {name} \/ CallingNames(w[k]) = {}
        \/ \E i \in 1..(k - 1) : w[i] = w[k]
    <3>1. \/ k + 1 = (d + 1) + 1 \/ u[k + 1] \in visited \/ CallingNames(u[k + 1]) = {}
          \/ \E i \in 1..k : u[i] = u[k + 1]
          BY <1>2, <1>3 DEF IsWay
    <3>2. ASSUME NEW i \in 1..k, u[i] = u[k + 1]
          PROVE  w[k] = name \/ \E j \in 1..(k - 1) : w[j] = w[k]
      <4>1. CASE i = 1
            BY <1>1, <3>2, <4>1
      <4>2. CASE i # 1
        <5>1. i - 1 \in 1..(k - 1) /\ (i - 1) + 1 = i /\ i - 1 \in 1..k
              BY <1>2, <4>2
        <5>2. w[i - 1] = w[k]
              BY <1>1, <3>2, <5>1
        <5> QED
            BY <5>1, <5>2
      <4> QED
          BY <4>1, <4>2
    <3> QED
        BY <1>1, <3>1, <3>2
  <2> QED
      BY <2>2, <2>3, <2>4, <2>5 DEF IsWay
<1>4. ASSUME w[1] \in CallingNames(name), IsWay(w, k, w[1], d, visited \cup {name})
      PROVE  IsWay(u, k + 1, name, d + 1, visited)
  <2>1. /\ \A i \in 1..(k - 1) : /\ w[i + 1] \in CallingNames(w[i])
                                 /\ w[i] \notin visited /\ w[i] # name
        /\ \A i, j \in 1..(k - 1) : w[i] = w[j] => i = j
        BY <1>4 DEF IsWay
  <2>2. ASSUME NEW i \in 1..k
        PROVE  u[i + 1] \in CallingNames(u[i]) /\ u[i] \notin visited
    <3>1. CASE i = 1
          BY <1>1, <1>4, <3>1
    <3>2. CASE i # 1
      <4>1. PICK j \in 1..(k - 1) : i = j + 1 /\ j \in 1..k
            BY <1>2, <3>2
      <4>2. u[i] = w[j] /\ u[i + 1] = w[j + 1]
            BY <1>1, <4>1
      <4> QED
          BY <2>1, <4>2
    <3> QED
        BY <3>1, <3>2
  <2>3. \A i \in 1..k : i # 1 =>
           \E j \in 1..(k - 1) : i = j + 1 /\ u[i] = w[j] /\ u[i] # u[1]
    <3> TAKE i \in 1..k
    <3> HAVE i # 1
    <3>1. PICK j \in 1..(k - 1) : i = j + 1 /\ j \in 1..k
          BY <1>2
    <3>2. u[i] = w[j]
          BY <1>1, <3>1
    <3> QED
        BY <1>1, <2>1, <3>1, <3>2
  <2>4. ASSUME NEW i \in 1..k, NEW j \in 1..k, u[i] = u[j] PROVE i = j
        BY <2>1, <2>3, <2>4
  <2>5. \/ k + 1 = (d + 1) + 1 \/ u[k + 1] \in visited \/ CallingNames(u[k + 1]) = {}
        \/ \E i \in 1..k : u[i] = u[k + 1]
    <3>1. \/ k = d + 1 \/ w[k] \in visited \/ w[k] = name \/ CallingNames(w[k]) = {}
          \/ \E i \in 1..(k - 1) : w[i] = w[k]
          BY <1>4 DEF IsWay
    <3>2. \A i \in 1..(k - 1) : i + 1 \in 1..k /\ u[i + 1] = w[i]
          BY <1>1, <1>2
    <3> QED
        BY <1>1, <1>2, <3>1, <3>2
  <2> QED
      BY <1>1, <1>2, <2>2, <2>4, <2>5 DEF IsWay
<1> QED
    BY <1>3, <1>4

\* The ways that go on with a certain name.
Under(names, name, c, d, visited) ==
    {<<name>> \o w : w \in WaysFrom(names, c, d, visited \cup {name})}

\* A name that is not looked at is a way of its own.
LEMMA WayEnds ==
    ASSUME NEW names, NEW name \in names, NEW d \in Nat, NEW visited, d = 0 \/ name \in visited
    PROVE  WaysFrom(names, name, d, visited) = {<<name>>}
<1>1. ASSUME NEW w, IsWayIn(names, w, name, d, visited) PROVE w = <<name>>
  <2>1. PICK k \in 1..(d + 1) : w \in [1..k -> names] /\ IsWay(w, k, name, d, visited)
        BY <1>1 DEF IsWayIn
  <2>2. k = 1
    <3>1. CASE d = 0
          BY <3>1
    <3>2. CASE name \in visited /\ k # 1
      <4>1. 1 \in 1..(k - 1)
            BY <3>2
      <4> QED
          BY <2>1, <3>2, <4>1 DEF IsWay
    <3> QED
        BY <3>1, <3>2
  <2>3. w \in [1..1 -> names] /\ w[1] = name
        BY <2>1, <2>2 DEF IsWay
  <2> QED
      BY <2>3
<1>2. IsWayIn(names, <<name>>, name, d, visited)
  <2>1. IsWay(<<name>>, 1, name, d, visited)
        BY DEF IsWay
  <2>2. <<name>> \in [1..1 -> names] /\ 1 \in 1..(d + 1)
        OBVIOUS
  <2> QED
      BY <2>1, <2>2 DEF IsWayIn
<1>3. \A w : w \in WaysFrom(names, name, d, visited) <=> w = <<name>>
      BY <1>1, <1>2, WaysAre
<1> QED
    BY <1>3

\* Nor is there another way from a name nobody calls.
LEMMA WayAlone ==
    ASSUME NEW names, NEW name \in names, NEW d \in Nat, NEW visited, CallingNames(name) = {}
    PROVE  WaysFrom(names, name, d, visited) = {<<name>>}
<1>1. ASSUME NEW w, IsWayIn(names, w, name, d, visited) PROVE w = <<name>>
  <2>1. PICK k \in 1..(d + 1) : w \in [1..k -> names] /\ IsWay(w, k, name, d, visited)
        BY <1>1 DEF IsWayIn
  <2>2. k = 1
    <3> SUFFICES ASSUME k # 1 PROVE FALSE
        OBVIOUS
    <3>1. 1 \in 1..(k - 1)
          OBVIOUS
    <3>2. w[1 + 1] \in CallingNames(w[1]) /\ w[1] = name
          BY <2>1, <3>1 DEF IsWay
    <3> QED
        BY <3>2
  <2>3. w \in [1..1 -> names] /\ w[1] = name
        BY <2>1, <2>2 DEF IsWay
  <2> QED
      BY <2>3
<1>2. IsWayIn(names, <<name>>, name, d, visited)
  <2>1. IsWay(<<name>>, 1, name, d, visited)
        BY DEF IsWay
  <2>2. <<name>> \in [1..1 -> names] /\ 1 \in 1..(d + 1)
        OBVIOUS
  <2> QED
      BY <2>1, <2>2 DEF IsWayIn
<1>3. \A w : w \in WaysFrom(names, name, d, visited) <=> w = <<name>>
      BY <1>1, <1>2, WaysAre
<1> QED
    BY <1>3

\* The ways from a name that is looked at are those from its callers with one call less.
LEMMA WaysGoOn ==
    ASSUME NEW names, NEW name \in names, NEW d \in Nat, NEW visited, name \notin visited,
           CallingNames(name) # {}
    PROVE  WaysFrom(names, name, d + 1, visited)
             = UNION {Under(names, name, c, d, visited) : c \in CallingNames(name)}
<1>1. ASSUME NEW u \in WaysFrom(names, name, d + 1, visited)
      PROVE  \E c \in CallingNames(name) : u \in Under(names, name, c, d, visited)
  <2>1. PICK k \in 1..(d + 2) : u \in [1..k -> names] /\ IsWay(u, k, name, d + 1, visited)
    <3>1. (d + 1) + 1 = d + 2
          OBVIOUS
    <3> QED
        BY <3>1, WaysAre DEF IsWayIn
  <2>2. k # 1
    <3> SUFFICES ASSUME k = 1 PROVE FALSE
        OBVIOUS
    <3>1. 1..(k - 1) = {} /\ k # (d + 1) + 1
          OBVIOUS
    <3>2. u[1] = name /\ (u[1] \in visited \/ CallingNames(u[1]) = {})
          BY <2>1, <3>1 DEF IsWay
    <3> QED
        BY <3>2
  <2>3. PICK m \in 1..(d + 1) : k = m + 1
    <3>1. k - 1 \in 1..(d + 1) /\ k = (k - 1) + 1
          BY <2>2
    <3> QED
        BY <3>1
  <2>4. m \in Nat /\ m # 0 /\ u \in [1..(m + 1) -> names] /\ u[1] = name
        BY <2>1, <2>3 DEF IsWay
  <2>5. PICK w \in [1..m -> names] : u = <<name>> \o w /\ Longer(u, name, w, m, names)
        BY <2>4, Behead
  <2>6. w[1] \in CallingNames(name) /\ IsWay(w, m, w[1], d, visited \cup {name})
        BY <2>1, <2>3, <2>4, <2>5, ShiftWay
  <2>7. w \in WaysFrom(names, w[1], d, visited \cup {name})
        BY <2>3, <2>5, <2>6, WaysAre DEF IsWayIn
  <2> QED
      BY <2>5, <2>6, <2>7 DEF Under
<1>2. ASSUME NEW c \in CallingNames(name), NEW u \in Under(names, name, c, d, visited)
      PROVE  u \in WaysFrom(names, name, d + 1, visited)
  <2>1. PICK w \in WaysFrom(names, c, d, visited \cup {name}) : u = <<name>> \o w
        BY DEF Under
  <2>2. PICK m \in 1..(d + 1) : w \in [1..m -> names] /\ IsWay(w, m, c, d, visited \cup {name})
        BY WaysAre DEF IsWayIn
  <2>3. m \in Nat /\ m # 0 /\ m + 1 \in 1..((d + 1) + 1) /\ w[1] = c
        BY <2>2 DEF IsWay
  <2>4. Longer(u, name, w, m, names)
        BY <2>1, <2>2, <2>3, Prepend
  <2>5. IsWay(u, m + 1, name, d + 1, visited)
        BY <2>2, <2>3, <2>4, ShiftWay
  <2>6. u \in [1..(m + 1) -> names]
        BY <2>4 DEF Longer
  <2> QED
      BY <2>3, <2>5, <2>6, WaysAre DEF IsWayIn
<1> QED
    BY <1>1, <1>2

\* Of a bounded set of numbers one is the greatest.
LEMMA Greatest ==
    ASSUME NEW S, NEW b \in Nat, S \subseteq 0..b, S # {}
    PROVE  \E m \in S : \A n \in S : n <= m
<1> DEFINE T == {b - n : n \in S}
<1>1. T \subseteq Nat /\ T # {}
  <2>1. \A n \in S : b - n \in Nat
        OBVIOUS
  <2> QED
      BY <2>1
<1>2. PICK t \in T : \A u \in T : t <= u
  <2> HIDE DEF T
  <2> QED
      BY <1>1, Least
<1>3. PICK m \in S : t = b - m
      OBVIOUS
<1>4. ASSUME NEW n \in S PROVE n <= m
  <2>1. b - m <= b - n
        BY <1>2, <1>3
  <2>2. m \in Nat /\ n \in Nat
        OBVIOUS
  <2> QED
      BY <2>1, <2>2
<1> QED
    BY <1>4

\* Of the calls of a project one comes last in a scan.
LEMMA LastOfCalls ==
    ASSUME project \in Projects, NEW s \in SUBSET Places, s # {}
    PROVE  LastCall(s) \in s
<1>1. \A p \in s : /\ p = [file |-> p.file, line |-> p.line, word |-> p.word]
                   /\ p.file \in Range1(project) /\ p.line \in Range1(project[p.file])
                   /\ p.word \in Range1(project[p.file][p.line])
      BY PlacesAre
<1>2. \A f \in Range1(project) :
         /\ f \in Nat /\ f \in 0..Len(project) /\ Len(project[f]) \in Nat
         /\ \A l \in Range1(project[f]) :
              /\ l \in Nat /\ l \in 0..Len(project[f]) /\ Len(project[f][l]) \in Nat
              /\ \A i \in Range1(project[f][l]) : i \in Nat /\ i \in 0..Len(project[f][l])
      BY ProjectLines DEF Range1, IsLine
<1> DEFINE files == {p.file : p \in s}
<1>3. PICK f \in files : \A g \in files : g <= f
  <2>1. files \subseteq 0..Len(project) /\ files # {} /\ Len(project) \in Nat
        BY <1>1, <1>2, ProjectLines
  <2> HIDE DEF files
  <2> QED
      BY <2>1, Greatest
<1> DEFINE lines == {p.line : p \in {p \in s : p.file = f}}
<1>4. PICK l \in lines : \A m \in lines : m <= l
  <2>1. lines \subseteq 0..Len(project[f]) /\ lines # {} /\ Len(project[f]) \in Nat
        BY <1>1, <1>2, <1>3
  <2> HIDE DEF lines
  <2> QED
      BY <2>1, Greatest
<1> DEFINE words == {p.word : p \in {p \in s : p.file = f /\ p.line = l}}
<1>5. PICK i \in words : \A m \in words : m <= i
  <2>1. words \subseteq 0..Len(project[f][l]) /\ words # {} /\ Len(project[f][l]) \in Nat
        BY <1>1, <1>2, <1>4
  <2> HIDE DEF words
  <2> QED
      BY <2>1, Greatest
<1>6. PICK p \in s : p.file = f /\ p.line = l /\ p.word = i
      BY <1>5
<1>7. ASSUME NEW q \in s \ {p} PROVE Before(q, p)
  <2>1. /\ p.file \in Nat /\ q.file \in Nat /\ p.line \in Nat /\ q.line \in Nat
        /\ p.word \in Nat /\ q.word \in Nat
        BY <1>1, <1>2
  <2>2. q.file <= p.file
        BY <1>3, <1>6
  <2>3. q.file = p.file => q.line <= p.line
        BY <1>4, <1>6
  <2>4. q.file = p.file /\ q.line = p.line => q.word <= p.word
        BY <1>5, <1>6
  <2>5. q.file # p.file \/ q.line # p.line \/ q.word # p.word
        BY <1>1
  <2> QED
      BY <2>1, <2>2, <2>3, <2>4, <2>5 DEF Before
<1>8. \E x \in s : \A q \in s \ {x} : Before(q, x)
      BY <1>7
<1> QED
    BY <1>8 DEF LastCall

\* Two ways of putting a set together, from its last member back, are one where
\* they take the same steps.
Alike(E, last, g, h) ==
    /\ \A s \in SUBSET E : s # {} => last[s] \in s
    /\ g[{}] = h[{}]
    /\ \A s \in SUBSET E : s # {} /\ g[s \ {last[s]}] = h[s \ {last[s]}] => g[s] = h[s]

LEMMA FoldIs ==
    ASSUME NEW E, IsFiniteSet(E), NEW last, NEW g, NEW h, Alike(E, last, g, h)
    PROVE  g[E] = h[E]
<1> DEFINE T == {k \in Nat : \A s \in SUBSET E : Cardinality(s) <= k => g[s] = h[s]}
<1>1. ASSUME NEW s \in SUBSET E
      PROVE  /\ Cardinality(s) \in Nat /\ (Cardinality(s) <= 0 => s = {})
             /\ s # {} => Cardinality(s \ {last[s]}) = Cardinality(s) - 1
  <2>1. IsFiniteSet(s)
        BY FS_Subset
  <2>2. Cardinality(s) \in Nat /\ (Cardinality(s) = 0 <=> s = {})
        BY <2>1, FS_CardinalityType, FS_EmptySet
  <2>3. s # {} => Cardinality(s \ {last[s]}) = Cardinality(s) - 1
        BY <2>1, FS_RemoveElement DEF Alike
  <2> QED
      BY <2>2, <2>3
<1>2. 0 \in T
      BY <1>1 DEF Alike
<1>3. ASSUME NEW k \in Nat, k \in T PROVE k + 1 \in T
  <2> SUFFICES ASSUME NEW s \in SUBSET E, Cardinality(s) <= k + 1, s # {} PROVE g[s] = h[s]
    <3>1. \A s \in SUBSET E : s = {} => g[s] = h[s]
          BY DEF Alike
    <3> QED
        BY <3>1
  <2>1. s \ {last[s]} \in SUBSET E /\ Cardinality(s \ {last[s]}) <= k
        BY <1>1
  <2>2. g[s \ {last[s]}] = h[s \ {last[s]}]
        BY <1>3, <2>1
  <2> QED
      BY <2>2 DEF Alike
<1>4. \A k \in Nat : k \in T
  <2> HIDE DEF T
  <2> QED
      BY <1>2, <1>3, Induction
<1>5. E \in SUBSET E /\ Cardinality(E) \in Nat
      BY FS_CardinalityType
<1>6. Cardinality(E) \in T
      BY <1>4, <1>5
<1> QED
    BY <1>5, <1>6

\* The calls of a name are finitely many, and their functions call it.
LEMMA CallerFacts ==
    ASSUME project \in Projects, NEW name
    PROVE  /\ IsFiniteSet(CallerMap(name)) /\ CallerMap(name) \subseteq Places
           /\ CallingNames(name) = {Caller(p) : p \in CallerMap(name)}
           /\ CallingNames(name) \subseteq FunctionNames
<1>1. CallerMap(name) \subseteq Places /\ Calls(name) \subseteq Places
      BY DEF CallerMap, Calls, Named, References
<1>2. IsFiniteSet(CallerMap(name))
      BY <1>1, FinitePlaces, FS_Subset
<1>3. CallingNames(name) = {Caller(p) : p \in CallerMap(name)}
      BY DEF CallingNames, CallerMap
<1>4. CallingNames(name) \subseteq FunctionNames
      BY <1>1 DEF CallingNames, FunctionNames
<1> QED
    BY <1>1, <1>2, <1>3, <1>4

\* What is known of the nodes of one call less.
Below(below, names, d) ==
    \A c \in names, visited \in SUBSET names :
        below[c][visited] = [paths |-> WaysFrom(names, c, d, visited), visited |-> visited]

\* A node has the ways from its name, and leaves visited as it was.
LEMMA NodeIs ==
    ASSUME project \in Projects, NEW names, FunctionNames \subseteq names,
           NEW name \in names, NEW v \in SUBSET names, name \notin v,
           NEW d \in Nat, NEW below, Below(below, names, d)
    PROVE  Node(below, name, v) = [paths |-> WaysFrom(names, name, d + 1, v), visited |-> v]
<1> DEFINE E == CallerMap(name)
           Child(p, node) ==
             IF Caller(p) \in node.seen THEN node
             ELSE LET child == below[Caller(p)][node.visited]
                  IN  [paths |-> node.paths \cup {<<name>> \o w : w \in child.paths},
                       visited |-> child.visited,
                       seen |-> node.seen \cup {Caller(p)}]
           none == [paths |-> {}, visited |-> v \cup {name}, seen |-> {}]
           With(g, s) == IF s = {} THEN none ELSE Child(LastCall(s), g[s \ {LastCall(s)}])
           Paths(s) == UNION {Under(names, name, Caller(p), d, v) : p \in s}
           sum == [s \in SUBSET E |-> [paths |-> Paths(s), visited |-> v \cup {name},
                                       seen |-> {Caller(p) : p \in s}]]
<1>1. /\ IsFiniteSet(E) /\ E \subseteq Places
      /\ \A p \in E : Caller(p) \in names
      BY CallerFacts
<1>2. ASSUME NEW s \in SUBSET E, s # {} PROVE LastCall(s) \in s /\ s \ {LastCall(s)} \in SUBSET E
  <2>1. s \in SUBSET Places
        BY <1>1
  <2> QED
      BY <2>1, <1>2, LastOfCalls
<1>3. ASSUME NEW s \in SUBSET E, s # {}
      PROVE  Child(LastCall(s), sum[s \ {LastCall(s)}]) = sum[s]
  <2>1. PICK p \in s : p = LastCall(s)
        BY <1>2, <1>3
  <2>2. PICK r : r = s \ {p} /\ r \in SUBSET E
        BY <2>1
  <2>3. /\ sum[r] = [paths |-> Paths(r), visited |-> v \cup {name}, seen |-> {Caller(q) : q \in r}]
        /\ sum[s] = [paths |-> Paths(s), visited |-> v \cup {name}, seen |-> {Caller(q) : q \in s}]
        BY <2>2
  <2>4. {Caller(q) : q \in s} = {Caller(q) : q \in r} \cup {Caller(p)}
        BY <2>1, <2>2
  <2>5. Paths(s) = Paths(r) \cup Under(names, name, Caller(p), d, v)
        BY <2>1, <2>2
  <2>6. CASE Caller(p) \in {Caller(q) : q \in r}
    <3>1. Under(names, name, Caller(p), d, v) \subseteq Paths(r)
          BY <2>6
    <3>2. Paths(s) = Paths(r) /\ {Caller(q) : q \in s} = {Caller(q) : q \in r}
          BY <2>4, <2>5, <2>6, <3>1
    <3>3. sum[s] = sum[r]
          BY <2>3, <3>2
    <3>4. Child(p, sum[r]) = sum[r]
          BY <2>3, <2>6
    <3> HIDE DEF sum, Child
    <3> QED
        BY <2>1, <2>2, <3>3, <3>4
  <2>7. CASE Caller(p) \notin {Caller(q) : q \in r}
    <3>1. below[Caller(p)][v \cup {name}]
            = [paths |-> WaysFrom(names, Caller(p), d, v \cup {name}), visited |-> v \cup {name}]
      <4>1. Caller(p) \in names /\ v \cup {name} \in SUBSET names
            BY <1>1, <2>1
      <4> QED
          BY <4>1 DEF Below
    <3>2. Child(p, sum[r]) =
            [paths |-> Paths(r) \cup {<<name>> \o w :
                                        w \in WaysFrom(names, Caller(p), d, v \cup {name})},
             visited |-> v \cup {name},
             seen |-> {Caller(q) : q \in r} \cup {Caller(p)}]
      <4>1. PICK node : node = sum[r]
            OBVIOUS
      <4> HIDE DEF Paths, Child, sum
      <4>2. /\ node.paths = Paths(r) /\ node.visited = v \cup {name}
            /\ node.seen = {Caller(q) : q \in r}
            BY <2>3, <4>1
      <4>3. PICK child : child = below[Caller(p)][node.visited]
            OBVIOUS
      <4>4. /\ child.paths = WaysFrom(names, Caller(p), d, v \cup {name})
            /\ child.visited = v \cup {name}
            BY <3>1, <4>2, <4>3
      <4>5. Caller(p) \notin node.seen
            BY <2>7, <4>2
      <4>6. Child(p, node) = [paths |-> node.paths \cup {<<name>> \o w : w \in child.paths},
                              visited |-> child.visited,
                              seen |-> node.seen \cup {Caller(p)}]
            BY <4>3, <4>5 DEF Child
      <4> QED
          BY <4>1, <4>2, <4>4, <4>6
    <3>3. Child(p, sum[r]) = sum[s]
      <4> HIDE DEF Paths, Child, sum
      <4> QED
          BY <2>3, <2>4, <2>5, <3>2 DEF Under
    <3> HIDE DEF sum, Child
    <3> QED
        BY <2>1, <2>2, <3>3
  <2> QED
      BY <2>6, <2>7
<1> DEFINE iter == CHOOSE it : it = [s \in SUBSET E |-> With(it, s)]
<1>4. sum = [s \in SUBSET E |-> With(sum, s)]
  <2>1. sum[{}] = none
        OBVIOUS
  <2>2. \A s \in SUBSET E : sum[s] = With(sum, s)
    <3> HIDE DEF sum, Child, none
    <3> QED
        BY <1>3, <2>1
  <2>3. sum = [s \in SUBSET E |-> sum[s]]
        OBVIOUS
  <2> HIDE DEF sum, With
  <2> QED
      BY <2>2, <2>3
<1>5. iter = [s \in SUBSET E |-> With(iter, s)]
  <2> HIDE DEF With, sum
  <2> QED
      BY <1>4
<1>6. iter[E] = sum[E]
  <2> DEFINE last == [s \in SUBSET E |-> LastCall(s)]
  <2>1. \A s \in SUBSET E : s # {} => last[s] \in s
        BY <1>2
  <2>2. \A s \in SUBSET E : iter[s] = With(iter, s) /\ sum[s] = With(sum, s)
    <3> HIDE DEF With, iter, sum
    <3> QED
        BY <1>4, <1>5
  <2>3. iter[{}] = sum[{}]
    <3> HIDE DEF iter, sum
    <3> QED
        BY <2>2
  <2>4. \A s \in SUBSET E : s # {} /\ iter[s \ {last[s]}] = sum[s \ {last[s]}] => iter[s] = sum[s]
    <3> SUFFICES ASSUME NEW s \in SUBSET E, s # {}, iter[s \ {last[s]}] = sum[s \ {last[s]}]
                 PROVE  iter[s] = sum[s]
        OBVIOUS
    <3>1. last[s] = LastCall(s)
          OBVIOUS
    <3> HIDE DEF iter, sum, Child, last
    <3>2. With(iter, s) = With(sum, s)
          BY <3>1
    <3> HIDE DEF With
    <3> QED
        BY <2>2, <3>2
  <2> HIDE DEF iter, sum, last, E
  <2>5. Alike(E, last, iter, sum)
        BY <2>1, <2>3, <2>4 DEF Alike
  <2> QED
      BY <1>1, <2>5, FoldIs
<1>7. Node(below, name, v) =
        [paths |-> IF E = {} THEN {<<name>>} ELSE iter[E].paths,
         visited |-> iter[E].visited \ {name}]
      BY DEF Node, MapThenFoldSet, Unvisit
<1>8. iter[E].paths = Paths(E) /\ iter[E].visited \ {name} = v
  <2>1. sum[E] = [paths |-> Paths(E), visited |-> v \cup {name}, seen |-> {Caller(p) : p \in E}]
        OBVIOUS
  <2> HIDE DEF iter, sum, Paths, E
  <2> QED
      BY <1>6, <2>1
<1>9. Paths(E) = UNION {Under(names, name, c, d, v) : c \in CallingNames(name)}
      BY CallerFacts
<1>10. CASE E = {}
  <2>1. CallingNames(name) = {}
        BY <1>10, CallerFacts
  <2>2. WaysFrom(names, name, d + 1, v) = {<<name>>}
        BY <2>1, WayAlone
  <2> HIDE DEF iter, E, Paths
  <2> QED
      BY <1>7, <1>8, <1>10, <2>2
<1>11. CASE E # {}
  <2>1. CallingNames(name) # {}
        BY <1>11, CallerFacts
  <2>2. WaysFrom(names, name, d + 1, v) = Paths(E)
        BY <1>9, <2>1, WaysGoOn
  <2> HIDE DEF iter, E, Paths
  <2> QED
      BY <1>7, <1>8, <1>11, <2>2
<1> QED
    BY <1>10, <1>11

\* The tree has the ways back, however many calls are left and whatever names have
\* been visited.
LEMMA TreeIs ==
    ASSUME project \in Projects, NEW names, FunctionNames \subseteq names, NEW depth \in Nat
    PROVE  Below(BuildChainNode(names, depth), names, depth)
<1> DEFINE At(below, left) ==
             [name \in names |-> [visited \in SUBSET names |->
                IF left = 0 \/ name \in visited THEN [paths |-> {<<name>>}, visited |-> visited]
                ELSE Node(below, name, visited)]]
           With(g, left) == At(g[left - 1], left)
           tree == [left \in 0..depth |->
                      [name \in names |-> [visited \in SUBSET names |->
                         [paths |-> WaysFrom(names, name, left, visited), visited |-> visited]]]]
           nodes == CHOOSE g : g = [left \in 0..depth |-> With(g, left)]
\* What stands at each number of calls, from what stands at one less.
<1>1. ASSUME NEW left \in 0..depth, NEW below, left # 0 => Below(below, names, left - 1)
      PROVE  At(below, left) = tree[left]
  <2>1. ASSUME NEW name \in names, NEW visited \in SUBSET names
        PROVE  (IF left = 0 \/ name \in visited THEN [paths |-> {<<name>>}, visited |-> visited]
                  ELSE Node(below, name, visited))
                 = [paths |-> WaysFrom(names, name, left, visited), visited |-> visited]
    <3>1. CASE left = 0 \/ name \in visited
      <4>1. WaysFrom(names, name, left, visited) = {<<name>>}
            BY <3>1, WayEnds
      <4> QED
          BY <3>1, <4>1
    <3>2. CASE left # 0 /\ name \notin visited
      <4>1. PICK d \in Nat : d = left - 1 /\ left = d + 1
        <5>1. left - 1 \in Nat /\ left = (left - 1) + 1
              BY <3>2
        <5> QED
            BY <5>1
      <4>2. Below(below, names, d)
            BY <1>1, <3>2, <4>1
      <4>3. Node(below, name, visited)
              = [paths |-> WaysFrom(names, name, d + 1, visited), visited |-> visited]
            BY <3>2, <4>2, NodeIs
      <4> QED
          BY <3>2, <4>1, <4>3
    <3> QED
        BY <3>1, <3>2
  <2> QED
      BY <2>1
<1>2. ASSUME NEW left \in 0..depth PROVE Below(tree[left], names, left)
      BY <1>2 DEF Below
<1> HIDE DEF At
<1>3. ASSUME NEW left \in 0..depth PROVE With(tree, left) = tree[left]
  <2>1. left # 0 => left - 1 \in 0..depth
        OBVIOUS
  <2>2. left # 0 => Below(tree[left - 1], names, left - 1)
        BY <1>2, <2>1
  <2> HIDE DEF tree
  <2> QED
      BY <1>1, <2>2
<1>4. nodes = [left \in 0..depth |-> With(nodes, left)]
  <2>1. tree = [left \in 0..depth |-> tree[left]]
        OBVIOUS
  <2> HIDE DEF With, tree
  <2>2. tree = [left \in 0..depth |-> With(tree, left)]
        BY <1>3, <2>1
  <2> QED
      BY <2>2
<1> HIDE DEF nodes, tree
<1> DEFINE S == {k \in Nat : k <= depth => nodes[k] = tree[k]}
<1>5. 0 \in S
  <2>1. nodes[0] = At(nodes[0 - 1], 0)
        BY <1>4
  <2>2. At(nodes[0 - 1], 0) = tree[0]
        BY <1>1
  <2> QED
      BY <2>1, <2>2
<1>6. ASSUME NEW k \in Nat, k \in S PROVE k + 1 \in S
  <2> SUFFICES ASSUME k + 1 <= depth PROVE nodes[k + 1] = tree[k + 1]
      OBVIOUS
  <2>1. k \in 0..depth /\ k + 1 \in 0..depth /\ (k + 1) - 1 = k /\ k + 1 # 0
        OBVIOUS
  <2>2. nodes[k + 1] = At(nodes[k], k + 1)
        BY <1>4, <2>1
  <2>3. Below(nodes[k], names, k)
        BY <1>2, <1>6, <2>1
  <2>4. At(nodes[k], k + 1) = tree[k + 1]
        BY <1>1, <2>1, <2>3
  <2> QED
      BY <2>2, <2>4
<1>7. \A k \in Nat : k \in S
  <2> HIDE DEF S
  <2> QED
      BY <1>5, <1>6, Induction
<1>8. nodes[depth] = tree[depth]
      BY <1>7
<1>9. BuildChainNode(names, depth) = nodes[depth]
      BY DEF BuildChainNode, nodes, With, At
<1> QED
    BY <1>2, <1>8, <1>9

\* The tree of a name is the ways back from it.
LEMMA ChainIs ==
    ASSUME project \in Projects, NEW name, NEW depth \in Nat
    PROVE  Chain(name, depth) = Ways(name, depth)
<1> DEFINE names == {name} \cup FunctionNames
<1>1. Below(BuildChainNode(names, depth), names, depth)
      BY TreeIs
<1>2. Chain(name, depth) = WaysFrom(names, name, depth, {})
  <2>1. name \in names /\ {} \in SUBSET names
        OBVIOUS
  <2>2. Chain(name, depth) = BuildChainNode(names, depth)[name][{}].paths
        BY DEF Chain
  <2> HIDE DEF names
  <2>3. PICK tree : tree = BuildChainNode(names, depth)
        OBVIOUS
  <2>4. tree[name][{}] = [paths |-> WaysFrom(names, name, depth, {}), visited |-> {}]
        BY <1>1, <2>1, <2>3 DEF Below
  <2> QED
      BY <2>2, <2>3, <2>4
<1>3. ASSUME NEW w PROVE w \in WaysFrom(names, name, depth, {}) <=> w \in Ways(name, depth)
  <2>1. ASSUME NEW k \in 1..(depth + 1), w \in [1..k -> names]
        PROVE  Len(w) = k
        BY <2>1
  <2>2. ASSUME NEW k \in 1..(depth + 1), w \in [1..k -> names]
        PROVE  IsWay(w, k, name, depth, {}) <=> w \in Ways(name, depth)
    <3>1. Len(w) = k /\ w \in UNION {[1..n -> names] : n \in 1..(depth + 1)}
          BY <2>1, <2>2
    <3> QED
        BY <3>1 DEF IsWay, Ways
  <2>3. w \in Ways(name, depth) => \E k \in 1..(depth + 1) : w \in [1..k -> names]
        BY DEF Ways
  <2> HIDE DEF names
  <2> QED
      BY <2>2, <2>3, WaysAre DEF IsWayIn
<1> QED
    BY <1>2, <1>3 DEF Ways, WaysFrom

\* callchain.rs:145-203: whatever calls what in a project and however many calls
\* are followed, the tree of callers has every way back along the calls to its
\* end, and no other: a function that is on another way is not missing from this.
THEOREM ChainsShowTheWays == Spec => []ChainsAreTheWays
<1>1. RenameInv => ChainsAreTheWays
      BY ChainIs, DepthAssumption DEF RenameInv, Shape, ChainsAreTheWays
<1> QED
    BY <1>1, RenameSafe, PTL
===============================================================================
