----------------------------- MODULE TextProofs -----------------------------
(***************************************************************************)
(* Proofs about Texts: what the change detection, the refusal of replies    *)
(* and the evaluation of rules do with every text, of any lines and of any  *)
(* length, and with any rules.                                              *)
(***************************************************************************)
EXTENDS Texts, ListProofs

-----------------------------------------------------------------------------
(* Texts.                                                                   *)

\* The lines that texts and their variants are made of.
AllTexts == {line.text : line \in Lines} \cup VolatileTexts \cup Rejections \cup {""}
AllLines == [text : AllTexts, spaces : BOOLEAN]

\* A text is a list of lines, however long.
TypeOK == config \in Seq(Lines)

\* It is one when it is empty.
LEMMA InitText == Init => TypeOK
BY EmptySeq DEF Init, TypeOK

\* A step adds one line to it.
LEMMA NextText == TypeOK /\ [Next]_config => TypeOK'
BY AppendProperties DEF Next, Grow, Done, TypeOK

\* The text is a list of the lines of Lines in every state.
THEOREM TypeCorrectness == Spec => []TypeOK
BY InitText, NextText, PTL DEF Spec

\* Such a text is one of lines.
LEMMA LinesAreLines == Lines \subseteq AllLines /\ Seq(Lines) \subseteq Seq(AllLines)
<1>1. ASSUME NEW line \in Lines  PROVE line \in AllLines
  <2>1. line.text \in AllTexts
    BY Zenon DEF AllTexts
  <2>2. line = [text |-> line.text, spaces |-> line.spaces] /\ line.spaces \in BOOLEAN
    BY TextsAssumption, Zenon DEF Line
  <2> DEFINE text == line.text
             spaces == line.spaces
  <2> HIDE DEF text, spaces
  <2>3. [text |-> text, spaces |-> spaces] \in AllLines
    BY <2>1, <2>2, Zenon DEF AllLines, text, spaces
  <2> QED
    BY <2>2, <2>3, Zenon DEF text, spaces
<1> QED
  BY <1>1, SeqMonotonic

\* A line with another value for its spaces.
LEMMA SpacesSet ==
    ASSUME NEW text, NEW spaces, NEW other
    PROVE  [[text |-> text, spaces |-> spaces] EXCEPT !.spaces = other]
              = [text |-> text, spaces |-> other]
OBVIOUS

\* What the tests of a line say of its text.
LEMMA LineTests ==
    ASSUME NEW line \in AllLines
    PROVE  /\ is_volatile(line) <=> line.text \in VolatileTexts
           /\ Blank(rstrip(line)) <=> line.text = ""
           /\ rstrip(line) = Plain(line.text)
           /\ rstrip(line) \in AllLines
           /\ Matters(line) <=> ~is_volatile(line) /\ ~Blank(rstrip(line))
<1>1. rstrip(line) = Plain(line.text) /\ rstrip(line) \in AllLines
  <2>1. PICK text \in AllTexts, spaces \in BOOLEAN :
           line = [text |-> text, spaces |-> spaces]
    BY DEF AllLines
  <2>2. rstrip(line) = [text |-> text, spaces |-> FALSE] /\ line.text = text
    BY <2>1, SpacesSet, Zenon DEF rstrip
  <2> QED
    BY <2>2 DEF AllLines, Plain, Line
<1>2. Blank(rstrip(line)) <=> line.text = ""
  BY <1>1 DEF Blank, Plain, Line
<1> QED
  BY <1>1, <1>2 DEF is_volatile, Matters

\* The fields of a line.
LEMMA LineFields ==
    ASSUME NEW text
    PROVE  /\ Plain(text).text = text /\ ~Plain(text).spaces
           /\ text \in AllTexts => Plain(text) \in AllLines
BY DEF Plain, Line, AllLines

-----------------------------------------------------------------------------
(* The normal form.                                                         *)

\* The places normalize works with: of the lines that are no header, of those that
\* matter, and of the lines from the first to the last of these.
KeptPlaces(s)   == {n \in DOMAIN s : ~is_volatile(s[n])}
FilledPlaces(s) == {n \in KeptPlaces(s) : ~Blank(rstrip(s[n]))}
Body(s) == {n \in KeptPlaces(s) : \E i, j \in FilledPlaces(s) : i <= n /\ n <= j}
Stripped(s) == [n \in DOMAIN s |-> rstrip(s[n])]

\* The normal form is the part of the stripped text at these places.
LEMMA NormalForm == ASSUME NEW s  PROVE normalize(s) = Sublist(Stripped(s), Body(s))
BY DEF normalize, Stripped, Body, FilledPlaces, KeptPlaces

\* The places of a text, of what is kept of it and of what matters in it.
LEMMA TextPlaces ==
    ASSUME NEW s \in Seq(AllLines)
    PROVE  /\ Len(s) \in Nat /\ DOMAIN s = 1..Len(s)
           /\ \A n \in 1..Len(s) : s[n] \in AllLines
           /\ KeptPlaces(s) \in SUBSET (1..Len(s)) /\ Body(s) \in SUBSET (1..Len(s))
           /\ Body(s) \in SUBSET KeptPlaces(s) /\ FilledPlaces(s) \in SUBSET Body(s)
           /\ IsPlaces(KeptPlaces(s)) /\ IsPlaces(Body(s))
           /\ FilledPlaces(s) = {n \in 1..Len(s) : Matters(s[n])}
           /\ \A n \in 1..Len(s) : Stripped(s)[n] = Plain(s[n].text)
<1>1. Len(s) \in Nat /\ DOMAIN s = 1..Len(s) /\ \A n \in 1..Len(s) : s[n] \in AllLines
  BY LenProperties
<1>2. KeptPlaces(s) \in SUBSET (1..Len(s)) /\ Body(s) \in SUBSET KeptPlaces(s)
  BY <1>1 DEF KeptPlaces, Body
<1>3. FilledPlaces(s) \in SUBSET KeptPlaces(s)
  BY DEF FilledPlaces
<1>4. \A n \in FilledPlaces(s) : n \in Nat /\ n <= n
  BY <1>1, <1>2, <1>3
<1>5. FilledPlaces(s) \in SUBSET Body(s)
  BY <1>3, <1>4 DEF Body
<1>6. FilledPlaces(s) = {n \in 1..Len(s) : Matters(s[n])}
  <2>1. \A n \in 1..Len(s) : Matters(s[n]) <=> ~is_volatile(s[n]) /\ ~Blank(rstrip(s[n]))
    BY <1>1, LineTests
  <2> QED
    BY <1>1, <2>1 DEF FilledPlaces, KeptPlaces
<1>7. \A n \in 1..Len(s) : Stripped(s)[n] = Plain(s[n].text)
  BY <1>1, LineTests DEF Stripped
<1>8. IsPlaces(KeptPlaces(s)) /\ IsPlaces(Body(s))
  BY <1>1, <1>2 DEF IsPlaces
<1> QED
  BY <1>1, <1>2, <1>5, <1>6, <1>7, <1>8

\* The lines kept of two texts correspond, in their order, but for spaces at their ends
\* and blank ones after all others.
KeptMoved(s, t, h) ==
    /\ h \in [KeptPlaces(s) -> KeptPlaces(t)]
    /\ \A m, n \in KeptPlaces(s) : m < n => h[m] < h[n]
    /\ \A n \in KeptPlaces(s) : t[h[n]].text = s[n].text
    /\ \A q \in KeptPlaces(t) : \/ \E n \in KeptPlaces(s) : h[n] = q
                                \/ /\ ~Matters(t[q])
                                   /\ \A n \in KeptPlaces(s) : h[n] < q

\* Such texts have the same normal form.
LEMMA NormalFormMoved ==
    ASSUME NEW s \in Seq(AllLines), NEW t \in Seq(AllLines), NEW h, KeptMoved(s, t, h)
    PROVE  normalize(t) = normalize(s)
<1> DEFINE K == KeptPlaces(s)
           J == KeptPlaces(t)
<1> SUFFICES ASSUME h \in [K -> J],
                    \A m, n \in K : m < n => h[m] < h[n],
                    \A n \in K : t[h[n]].text = s[n].text,
                    \A q \in J : \/ \E n \in K : h[n] = q
                                 \/ ~Matters(t[q]) /\ \A n \in K : h[n] < q
             PROVE  normalize(t) = normalize(s)
  BY DEF KeptMoved
<1>names. K = KeptPlaces(s) /\ J = KeptPlaces(t)
  OBVIOUS
<1> HIDE DEF K, J
<1> DEFINE P == Body(s)
           Q == Body(t)
           g == [n \in P |-> h[n]]
<1>1. /\ Len(s) \in Nat /\ P \in SUBSET (1..Len(s)) /\ P \in SUBSET K
      /\ K \in SUBSET (1..Len(s))
      /\ FilledPlaces(s) = {n \in 1..Len(s) : Matters(s[n])}
      /\ \A n \in 1..Len(s) : Stripped(s)[n] = Plain(s[n].text)
  BY <1>names, TextPlaces
<1>2. /\ Len(t) \in Nat /\ Q \in SUBSET (1..Len(t)) /\ Q \in SUBSET J
      /\ J \in SUBSET (1..Len(t))
      /\ FilledPlaces(t) = {n \in 1..Len(t) : Matters(t[n])}
      /\ \A n \in 1..Len(t) : Stripped(t)[n] = Plain(t[n].text)
  BY <1>names, TextPlaces
<1>0. /\ Len(s) \in Nat /\ P \in SUBSET (1..Len(s)) /\ K \in SUBSET (1..Len(s))
      /\ Len(t) \in Nat /\ Q \in SUBSET (1..Len(t)) /\ J \in SUBSET (1..Len(t))
  BY <1>1, <1>2, Zenon
<1>3. /\ K \in SUBSET Nat /\ J \in SUBSET Nat
      /\ \A n \in K : n \in Nat /\ h[n] \in Nat /\ h[n] \in J
  <2>1. K \in SUBSET Nat
    BY <1>0
  <2>2. J \in SUBSET Nat
    BY <1>0
  <2>3. \A n \in K : h[n] \in J
    OBVIOUS
  <2> QED
    BY <2>1, <2>2, <2>3
<1>4. \A m, n \in K : m <= n <=> h[m] <= h[n]
  BY <1>3, OrderKept
<1>5. \A n \in K : n \in FilledPlaces(s) <=> h[n] \in FilledPlaces(t)
  BY <1>1, <1>2 DEF Matters
<1>6. \A q \in FilledPlaces(t) : \E n \in FilledPlaces(s) : h[n] = q
  <2>1. TAKE q \in FilledPlaces(t)
  <2>2. q \in J /\ Matters(t[q])
    BY <1>names, <1>2 DEF FilledPlaces
  <2> QED
    BY <1>5, <2>2
<1>7. \A n \in K : n \in P <=> h[n] \in Q
  <2>1. TAKE n \in K
  <2>2. FilledPlaces(s) \in SUBSET K
    BY <1>names DEF FilledPlaces
  <2>3. (\E i, j \in FilledPlaces(s) : i <= n /\ n <= j)
           <=> \E i, j \in FilledPlaces(t) : i <= h[n] /\ h[n] <= j
    <3>1. ASSUME NEW i \in FilledPlaces(s), NEW j \in FilledPlaces(s), i <= n, n <= j
          PROVE  \E k, l \in FilledPlaces(t) : k <= h[n] /\ h[n] <= l
      <4>1. i \in K /\ j \in K /\ h[i] <= h[n] /\ h[n] <= h[j]
        BY <1>4, <2>2, <3>1
      <4> QED
        BY <1>5, <3>1, <4>1, Zenon
    <3>2. ASSUME NEW k \in FilledPlaces(t), NEW l \in FilledPlaces(t), k <= h[n], h[n] <= l
          PROVE  \E i, j \in FilledPlaces(s) : i <= n /\ n <= j
      <4>1. PICK i \in FilledPlaces(s) : h[i] = k
        BY <1>6
      <4>2. PICK j \in FilledPlaces(s) : h[j] = l
        BY <1>6
      <4> QED
        BY <1>4, <2>2, <3>2, <4>1, <4>2
    <3> QED
      BY <3>1, <3>2
  <2> QED
    BY <1>names, <1>3, <2>3 DEF Body
<1>8. \A q \in Q : \E n \in P : h[n] = q
  <2>1. TAKE q \in Q
  <2>2. PICK l \in FilledPlaces(t) : q <= l
    BY DEF Body
  <2>3. PICK m \in FilledPlaces(s) : h[m] = l
    BY <1>6
  <2>4. m \in K /\ q \in J
    BY <1>names DEF FilledPlaces, Body
  <2>5. ~(h[m] < q)
    <3>1. h[m] = l /\ q \in Nat /\ l \in Nat
      BY <1>3, <2>3, <2>4
    <3> QED
      BY <2>2, <3>1
  <2>6. PICK n \in K : h[n] = q
    BY <2>4, <2>5
  <2> QED
    BY <1>7, <2>6
<1>9. Corresponds(Stripped(s), P, Stripped(t), Q, g)
  <2>1. g \in [P -> Q]
    BY <1>1, <1>7
  <2>2. \A m, n \in P : m < n => g[m] < g[n]
    BY <1>1
  <2>3. \A q \in Q : \E n \in P : g[n] = q
    BY <1>8
  <2>4. \A n \in P : Stripped(s)[n] = Stripped(t)[g[n]]
    BY <1>1, <1>2, <1>3
  <2> QED
    BY <2>1, <2>2, <2>3, <2>4 DEF Corresponds
<1>10. IsPlaces(P) /\ IsPlaces(Q)
  BY TextPlaces
<1> HIDE DEF P, Q, g
<1>11. Sublist(Stripped(s), P) = Sublist(Stripped(t), Q)
  BY <1>9, <1>10, SublistMoved
<1> QED
  BY <1>11, NormalForm DEF P, Q

-----------------------------------------------------------------------------
(* Texts that differ in one line.                                           *)

\* One text has a line more than the other, at a place.
Shifted(i, n) == IF n < i THEN n ELSE n + 1
Inserted(s, t, i) == /\ Len(t) = Len(s) + 1 /\ i \in 1..Len(t)
                     /\ \A n \in 1..Len(s) : t[Shifted(i, n)] = s[n]

\* The places of the shorter text are the others of the longer one.
LEMMA ShiftedPlaces ==
    ASSUME NEW L \in Nat, NEW i \in 1..(L + 1)
    PROVE  /\ \A n \in 1..L : Shifted(i, n) \in 1..(L + 1) /\ Shifted(i, n) # i
           /\ \A m, n \in 1..L : m < n => Shifted(i, m) < Shifted(i, n)
           /\ \A q \in 1..(L + 1) : q # i => \E n \in 1..L : Shifted(i, n) = q
<1>1. ASSUME NEW q \in 1..(L + 1), q # i  PROVE \E n \in 1..L : Shifted(i, n) = q
  <2>1. CASE q < i
    <3>1. q \in 1..L /\ Shifted(i, q) = q
      BY <2>1 DEF Shifted
    <3> QED
      BY <3>1
  <2>2. CASE ~(q < i)
    <3>1. q - 1 \in 1..L /\ Shifted(i, q - 1) = q
      BY <1>1, <2>2 DEF Shifted
    <3> QED
      BY <3>1
  <2> QED
    BY <2>1, <2>2
<1> QED
  BY <1>1 DEF Shifted

\* Inserting an element into a list.
LEMMA InsertAtIs ==
    ASSUME NEW S, NEW s \in Seq(S), NEW e \in S, NEW i \in 1..(Len(s) + 1)
    PROVE  /\ InsertAt(s, i, e) \in Seq(S)
           /\ Inserted(s, InsertAt(s, i, e), i)
           /\ InsertAt(s, i, e)[i] = e
<1> DEFINE L == Len(s)
           before == SubSeq(s, 1, i - 1)
           after  == SubSeq(s, i, L)
           one    == <<e>>
           t      == before \o one \o after
<1>1. L \in Nat /\ i \in Nat \ {0} /\ i <= L + 1 /\ \A n \in 1..L : s[n] \in S
  BY LenProperties
<1>2. /\ before \in Seq(S) /\ Len(before) = i - 1
      /\ \A n \in 1..(i - 1) : before[n] = s[n]
  <2>1. \A n \in 1..(i - 1) : s[n] \in S
    BY <1>1
  <2> QED
    BY <1>1, <2>1, SubSeqProperties
<1>3. /\ after \in Seq(S) /\ Len(after) = L - i + 1
      /\ \A n \in 1..(L - i + 1) : after[n] = s[i + n - 1]
  <2>1. \A n \in i..L : s[n] \in S
    BY <1>1
  <2> QED
    BY <1>1, <2>1, SubSeqProperties
<1>4. one \in Seq(S) /\ Len(one) = 1 /\ one[1] = e
  OBVIOUS
<1> HIDE DEF before, after, one, L
<1>5. /\ before \o one \in Seq(S) /\ Len(before \o one) = i
      /\ \A n \in 1..(i - 1) : (before \o one)[n] = s[n]
      /\ (before \o one)[i] = e
  <2>1. /\ before \o one \in Seq(S) /\ Len(before \o one) = Len(before) + Len(one)
        /\ \A n \in 1..Len(before) : (before \o one)[n] = before[n]
        /\ \A n \in 1..Len(one) : (before \o one)[Len(before) + n] = one[n]
    <3>1. before \in Seq(S) /\ one \in Seq(S)
      BY <1>2, <1>4
    <3> QED
      BY <3>1, ConcatIs
  <2>2. Len(before) + 1 = i /\ 1 \in 1..Len(one)
    BY <1>1, <1>2, <1>4
  <2> QED
    BY <1>1, <1>2, <1>4, <2>1, <2>2
<1>6. /\ t \in Seq(S) /\ Len(t) = L + 1
      /\ \A n \in 1..i : t[n] = (before \o one)[n]
      /\ \A n \in 1..(L - i + 1) : t[i + n] = after[n]
  <2>1. /\ t \in Seq(S) /\ Len(t) = Len(before \o one) + Len(after)
        /\ \A n \in 1..Len(before \o one) : t[n] = (before \o one)[n]
        /\ \A n \in 1..Len(after) : t[Len(before \o one) + n] = after[n]
    <3>1. before \o one \in Seq(S) /\ after \in Seq(S)
      BY <1>3, <1>5
    <3> QED
      BY <3>1, ConcatIs
  <2> HIDE DEF t
  <2> QED
    BY <1>1, <1>3, <1>5, <2>1
<1> HIDE DEF t
<1>7. t[i] = e
  BY <1>1, <1>5, <1>6
<1>8. ASSUME NEW n \in 1..L  PROVE t[Shifted(i, n)] = s[n]
  <2>1. CASE n < i
    <3>1. Shifted(i, n) = n /\ n \in 1..i /\ n \in 1..(i - 1)
      BY <1>1, <2>1 DEF Shifted
    <3> QED
      BY <1>5, <1>6, <3>1
  <2>2. CASE ~(n < i)
    <3> DEFINE k == n + 1 - i
    <3>1. Shifted(i, n) = i + k /\ k \in 1..(L - i + 1) /\ i + k - 1 = n
      BY <1>1, <2>2 DEF Shifted
    <3> HIDE DEF k
    <3> QED
      BY <1>3, <1>6, <3>1
  <2> QED
    BY <2>1, <2>2
<1>9. InsertAt(s, i, e) = t
  BY DEF InsertAt, before, one, after, t, L
<1> QED
  BY <1>1, <1>6, <1>7, <1>8, <1>9 DEF Inserted, L

\* Taking one out of it.
LEMMA RemoveAtIs ==
    ASSUME NEW S, NEW s \in Seq(S), NEW i \in 1..Len(s)
    PROVE  /\ RemoveAt(s, i) \in Seq(S)
           /\ Inserted(RemoveAt(s, i), s, i)
<1> DEFINE L == Len(s)
           before == SubSeq(s, 1, i - 1)
           after  == SubSeq(s, i + 1, L)
           t      == before \o after
<1>1. L \in Nat /\ i \in Nat \ {0} /\ i <= L /\ \A n \in 1..L : s[n] \in S
  BY LenProperties
<1>2. /\ before \in Seq(S) /\ Len(before) = i - 1
      /\ \A n \in 1..(i - 1) : before[n] = s[n]
  <2>1. \A n \in 1..(i - 1) : s[n] \in S
    BY <1>1
  <2> QED
    BY <1>1, <2>1, SubSeqProperties
<1>3. /\ after \in Seq(S) /\ Len(after) = L - i
      /\ \A n \in 1..(L - i) : after[n] = s[i + n]
  <2>1. \A n \in (i + 1)..L : s[n] \in S
    BY <1>1
  <2>2. /\ after \in Seq(S) /\ Len(after) = IF i + 1 <= L THEN L - (i + 1) + 1 ELSE 0
        /\ \A n \in 1..(L - (i + 1) + 1) : after[n] = s[(i + 1) + n - 1]
    BY <1>1, <2>1, SubSeqProperties
  <2> QED
    BY <1>1, <2>2
<1> HIDE DEF before, after, L
<1>4. /\ t \in Seq(S) /\ Len(t) = L - 1
      /\ \A n \in 1..(i - 1) : t[n] = before[n]
      /\ \A n \in 1..(L - i) : t[(i - 1) + n] = after[n]
  <2>1. /\ t \in Seq(S) /\ Len(t) = Len(before) + Len(after)
        /\ \A n \in 1..Len(before) : t[n] = before[n]
        /\ \A n \in 1..Len(after) : t[Len(before) + n] = after[n]
    <3>1. before \in Seq(S) /\ after \in Seq(S)
      BY <1>2, <1>3
    <3> QED
      BY <3>1, ConcatIs
  <2> HIDE DEF t
  <2> QED
    BY <1>1, <1>2, <1>3, <2>1
<1> HIDE DEF t
<1>5. ASSUME NEW n \in 1..(L - 1)  PROVE s[Shifted(i, n)] = t[n]
  <2>1. CASE n < i
    <3>1. Shifted(i, n) = n /\ n \in 1..(i - 1)
      BY <1>1, <2>1 DEF Shifted
    <3> QED
      BY <1>2, <1>4, <3>1
  <2>2. CASE ~(n < i)
    <3> DEFINE k == n - i + 1
    <3>1. Shifted(i, n) = i + k /\ k \in 1..(L - i) /\ (i - 1) + k = n
      BY <1>1, <2>2 DEF Shifted
    <3> HIDE DEF k
    <3> QED
      BY <1>3, <1>4, <3>1
  <2> QED
    BY <2>1, <2>2
<1>6. RemoveAt(s, i) = t
  BY DEF RemoveAt, before, after, t, L
<1>7. (L - 1) + 1 = L
  BY <1>1
<1> QED
  BY <1>1, <1>4, <1>5, <1>6, <1>7 DEF Inserted, L

-----------------------------------------------------------------------------
(* What changes the normal form, and what does not.                         *)

\* A test of a line is a test of its text.
LEMMA SameText ==
    ASSUME NEW line, NEW other, line.text = other.text
    PROVE  /\ Matters(line) <=> Matters(other)
           /\ is_volatile(line) <=> is_volatile(other)
BY Zenon DEF Matters, is_volatile

\* The lines of a text with one text.
Having(s, x) == {n \in 1..Len(s) : s[n].text = x}

\* They are finitely many.
LEMMA HavingIsFinite ==
    ASSUME NEW s \in Seq(AllLines), NEW x
    PROVE  IsFiniteSet(Having(s, x)) /\ Cardinality(Having(s, x)) \in Nat
<1>1. Len(s) \in Nat
  BY LenProperties
<1>2. IsFiniteSet(1..Len(s)) /\ Having(s, x) \in SUBSET (1..Len(s))
  BY <1>1, FS_Interval DEF Having
<1> QED
  BY <1>2, FS_Subset, FS_CardinalityType

\* A normal form has as many lines with a text that matters as the text it is of.
LEMMA NormalFormCounts ==
    ASSUME NEW s \in Seq(AllLines), NEW line \in AllLines, Matters(line)
    PROVE  Tally(normalize(s), DOMAIN normalize(s), {Plain(line.text)})
              = Cardinality(Having(s, line.text))
<1> DEFINE x    == line.text
           P    == Body(s)
           list == Stripped(s)
           sort == {Plain(x)}
<1>1. /\ IsPlaces(P) /\ P \in SUBSET (1..Len(s)) /\ FilledPlaces(s) \in SUBSET P
      /\ FilledPlaces(s) = {n \in 1..Len(s) : Matters(s[n])}
      /\ \A n \in 1..Len(s) : list[n] = Plain(s[n].text)
  BY TextPlaces
<1>2. {n \in P : list[n] \in sort} = Having(s, x)
  <2>1. ASSUME NEW n \in P, list[n] = Plain(x)  PROVE s[n].text = x
    <3>1. Plain(s[n].text) = Plain(x)
      BY <1>1, <2>1
    <3> QED
      BY <3>1, LineFields
  <2>2. ASSUME NEW n \in 1..Len(s), s[n].text = x  PROVE n \in P /\ list[n] = Plain(x)
    <3>1. Matters(s[n])
      BY <2>2, SameText
    <3> QED
      BY <1>1, <2>2, <3>1
  <2> HIDE DEF list
  <2> QED
    BY <1>1, <2>1, <2>2 DEF Having
<1> HIDE DEF P, list, sort
<1>3. Tally(Sublist(list, P), DOMAIN Sublist(list, P), sort) = Tally(list, P, sort)
  BY <1>1, SublistCount
<1>4. normalize(s) = Sublist(list, P)
  BY NormalForm DEF list, P
<1> QED
  BY <1>2, <1>3, <1>4 DEF sort, Tally

\* So do two texts with the same normal form.
LEMMA SameCounts ==
    ASSUME NEW s \in Seq(AllLines), NEW t \in Seq(AllLines), normalize(s) = normalize(t),
           NEW line \in AllLines, Matters(line)
    PROVE  Cardinality(Having(s, line.text)) = Cardinality(Having(t, line.text))
<1>1. Tally(normalize(s), DOMAIN normalize(s), {Plain(line.text)})
         = Cardinality(Having(s, line.text))
  BY NormalFormCounts
<1>2. Tally(normalize(t), DOMAIN normalize(t), {Plain(line.text)})
         = Cardinality(Having(t, line.text))
  BY NormalFormCounts
<1> QED
  BY <1>1, <1>2

\* Two texts that differ in one line, which matters in one of them, have different
\* normal forms.
LEMMA LineExchanged ==
    ASSUME NEW s \in Seq(AllLines), NEW t \in Seq(AllLines), Len(t) = Len(s),
           NEW i \in 1..Len(s), \A n \in 1..Len(s) : n # i => t[n] = s[n],
           t[i].text # s[i].text, Matters(t[i])
    PROVE  normalize(t) # normalize(s)
<1> DEFINE x == t[i].text
<1>1. Having(t, x) = Having(s, x) \cup {i} /\ i \notin Having(s, x)
  BY DEF Having
<1>2. t[i] \in AllLines
  BY LenProperties
<1>3. /\ IsFiniteSet(Having(s, x)) /\ Cardinality(Having(s, x)) \in Nat
      /\ Cardinality(Having(t, x)) = Cardinality(Having(s, x)) + 1
  BY <1>1, HavingIsFinite, FS_AddElement
<1>4. normalize(s) = normalize(t) => Cardinality(Having(s, x)) = Cardinality(Having(t, x))
  BY <1>2, SameCounts
<1> HIDE DEF x
<1> QED
  BY <1>3, <1>4

\* A text with one more line that matters has another normal form.
LEMMA LineAdded ==
    ASSUME NEW s \in Seq(AllLines), NEW t \in Seq(AllLines), NEW i, Inserted(s, t, i),
           Matters(t[i])
    PROVE  normalize(t) # normalize(s)
<1> DEFINE x == t[i].text
           A == Having(s, x)
           B == Having(t, x) \ {i}
           f == [n \in A |-> Shifted(i, n)]
<1>1. /\ Len(s) \in Nat /\ Len(t) = Len(s) + 1 /\ i \in 1..(Len(s) + 1)
      /\ \A n \in 1..Len(s) : t[Shifted(i, n)] = s[n]
  BY LenProperties DEF Inserted
<1>2. /\ \A n \in 1..Len(s) : Shifted(i, n) \in 1..(Len(s) + 1) /\ Shifted(i, n) # i
      /\ \A m, n \in 1..Len(s) : m < n => Shifted(i, m) < Shifted(i, n)
      /\ \A q \in 1..(Len(s) + 1) : q # i => \E n \in 1..Len(s) : Shifted(i, n) = q
  BY <1>1, ShiftedPlaces
<1>3. f \in [A -> B]
  BY <1>1, <1>2 DEF Having
<1>4. ASSUME NEW m \in A, NEW n \in A, f[m] = f[n]  PROVE m = n
  <2>1. m \in 1..Len(s) /\ n \in 1..Len(s) /\ Shifted(i, m) = Shifted(i, n)
    BY <1>4 DEF Having
  <2> QED
    BY <1>1, <2>1 DEF Shifted
<1>5. ASSUME NEW q \in B  PROVE \E n \in A : f[n] = q
  <2>1. q \in 1..(Len(s) + 1) /\ q # i /\ t[q].text = x
    BY <1>1 DEF Having
  <2>2. PICK n \in 1..Len(s) : Shifted(i, n) = q
    BY <1>2, <2>1
  <2>3. n \in A
    BY <1>1, <2>1, <2>2 DEF Having
  <2> QED
    BY <2>2, <2>3
<1>6. /\ IsFiniteSet(A) /\ Cardinality(A) \in Nat
      /\ IsFiniteSet(Having(t, x)) /\ Cardinality(Having(t, x)) \in Nat
  BY HavingIsFinite
<1>7. Cardinality(B) = Cardinality(A)
  <2> HIDE DEF A, B, f
  <2> QED
    BY <1>3, <1>4, <1>5, <1>6, OneToOne
<1>8. i \in Having(t, x)
  BY <1>1 DEF Having
<1>9. Cardinality(B) = Cardinality(Having(t, x)) - 1
  BY <1>6, <1>8, FS_RemoveElement
<1>10. t[i] \in AllLines
  BY <1>1, LenProperties
<1>11. normalize(s) = normalize(t) => Cardinality(A) = Cardinality(Having(t, x))
  BY <1>10, SameCounts
<1> HIDE DEF A, B, f, x
<1> QED
  BY <1>6, <1>7, <1>9, <1>11

\* One with one more header has the same.
LEMMA HeaderAdded ==
    ASSUME NEW s \in Seq(AllLines), NEW t \in Seq(AllLines), NEW i, Inserted(s, t, i),
           is_volatile(t[i])
    PROVE  normalize(t) = normalize(s)
<1> DEFINE K == KeptPlaces(s)
           J == KeptPlaces(t)
           h == [n \in K |-> Shifted(i, n)]
<1>1. /\ Len(s) \in Nat /\ Len(t) = Len(s) + 1 /\ i \in 1..(Len(s) + 1)
      /\ \A n \in 1..Len(s) : t[Shifted(i, n)] = s[n]
  BY LenProperties DEF Inserted
<1>2. /\ \A n \in 1..Len(s) : Shifted(i, n) \in 1..(Len(s) + 1) /\ Shifted(i, n) # i
      /\ \A m, n \in 1..Len(s) : m < n => Shifted(i, m) < Shifted(i, n)
      /\ \A q \in 1..(Len(s) + 1) : q # i => \E n \in 1..Len(s) : Shifted(i, n) = q
  BY <1>1, ShiftedPlaces
<1>3. /\ K = {n \in 1..Len(s) : ~is_volatile(s[n])}
      /\ J = {n \in 1..(Len(s) + 1) : ~is_volatile(t[n])}
  BY <1>1, LenProperties DEF KeptPlaces
<1> HIDE DEF K, J
<1>4. h \in [K -> J]
  BY <1>1, <1>2, <1>3
<1>5. \A m, n \in K : m < n => h[m] < h[n]
  BY <1>2, <1>3
<1>6. \A n \in K : t[h[n]].text = s[n].text
  BY <1>1, <1>3
<1>7. ASSUME NEW q \in J  PROVE \E n \in K : h[n] = q
  <2>1. q \in 1..(Len(s) + 1) /\ q # i /\ ~is_volatile(t[q])
    BY <1>3
  <2>2. PICK n \in 1..Len(s) : Shifted(i, n) = q
    BY <1>2, <2>1
  <2>3. n \in K
    BY <1>1, <1>3, <2>1, <2>2
  <2> QED
    BY <2>2, <2>3
<1> HIDE DEF h
<1>8. KeptMoved(s, t, h)
  BY <1>4, <1>5, <1>6, <1>7 DEF KeptMoved, K, J
<1> QED
  BY <1>8, NormalFormMoved

\* So has one with the same texts, and then blank lines.
LEMMA BlanksAdded ==
    ASSUME NEW s \in Seq(AllLines), NEW t \in Seq(AllLines), Len(s) <= Len(t),
           \A n \in 1..Len(s) : t[n].text = s[n].text,
           \A n \in 1..Len(t) : n > Len(s) => ~Matters(t[n])
    PROVE  normalize(t) = normalize(s)
<1> DEFINE K == KeptPlaces(s)
           J == KeptPlaces(t)
           h == [n \in K |-> n]
<1>1. Len(s) \in Nat /\ Len(t) \in Nat
  BY LenProperties
<1>2. /\ K = {n \in 1..Len(s) : ~is_volatile(s[n])}
      /\ J = {n \in 1..Len(t) : ~is_volatile(t[n])}
  BY LenProperties DEF KeptPlaces
<1> HIDE DEF K, J
<1>3. \A n \in 1..Len(s) : is_volatile(t[n]) <=> is_volatile(s[n])
  BY SameText
<1>4. h \in [K -> J]
  BY <1>1, <1>2, <1>3
<1>5. \A m, n \in K : m < n => h[m] < h[n]
  OBVIOUS
<1>6. \A n \in K : t[h[n]].text = s[n].text
  BY <1>2
<1>7. ASSUME NEW q \in J
      PROVE  \/ \E n \in K : h[n] = q
             \/ ~Matters(t[q]) /\ \A n \in K : h[n] < q
  <2>1. CASE q <= Len(s)
    BY <1>1, <1>2, <1>3, <2>1
  <2>2. CASE ~(q <= Len(s))
    <3>1. ~Matters(t[q])
      BY <1>1, <1>2, <2>2
    <3>2. \A n \in K : h[n] < q
      BY <1>1, <1>2, <2>2
    <3> QED
      BY <3>1, <3>2
  <2> QED
    BY <2>1, <2>2
<1> HIDE DEF h
<1>8. KeptMoved(s, t, h)
  BY <1>4, <1>5, <1>6, <1>7 DEF KeptMoved, K, J
<1> QED
  BY <1>8, NormalFormMoved

\* A text of which the spaces at the end of a line are others.
LEMMA SpacesChanged ==
    ASSUME NEW s \in Seq(AllLines), NEW i \in 1..Len(s)
    PROVE  /\ [s EXCEPT ![i].spaces = ~@] \in Seq(AllLines)
           /\ Len([s EXCEPT ![i].spaces = ~@]) = Len(s)
           /\ \A n \in 1..Len(s) : [s EXCEPT ![i].spaces = ~@][n].text = s[n].text
<1> DEFINE line == [s[i] EXCEPT !.spaces = ~@]
           t == [s EXCEPT ![i].spaces = ~@]
<1>1. /\ Len(s) \in Nat /\ DOMAIN s = 1..Len(s) /\ \A n \in 1..Len(s) : s[n] \in AllLines
  BY LenProperties
<1>2. line \in AllLines /\ line.text = s[i].text
  <2>1. PICK text \in AllTexts, spaces \in BOOLEAN :
           s[i] = [text |-> text, spaces |-> spaces]
    BY <1>1 DEF AllLines
  <2> DEFINE other == ~s[i].spaces
  <2>2. line = [s[i] EXCEPT !.spaces = other] /\ other \in BOOLEAN
    OBVIOUS
  <2> DEFINE old == s[i]
  <2> HIDE DEF other, line, old
  <2>3. line = [text |-> text, spaces |-> other]
    <3>1. old = [text |-> text, spaces |-> spaces] /\ line = [old EXCEPT !.spaces = other]
      BY <2>1, <2>2 DEF old
    <3> QED
      BY <3>1, SpacesSet, Zenon
  <2>4. s[i].text = text /\ line.text = text
    BY <2>1, <2>3
  <2> QED
    BY <2>2, <2>3, <2>4 DEF AllLines
<1>3. t = [s EXCEPT ![i] = line]
  OBVIOUS
<1> HIDE DEF t, line
<1>4. /\ t \in Seq(AllLines) /\ Len(t) = Len(s)
      /\ \A n \in 1..Len(s) : t[n] = IF n = i THEN line ELSE s[n]
  BY <1>2, <1>3, ExceptSeq
<1>5. \A n \in 1..Len(s) : t[n].text = s[n].text
  BY <1>2, <1>4
<1> QED
  BY <1>4, <1>5 DEF t

\* An empty line does not matter, and a header is volatile.
LEMMA EmptyAndHeaders ==
    /\ \A spaces \in BOOLEAN : /\ Line("", spaces) \in AllLines
                               /\ ~Matters(Line("", spaces))
    /\ \A text \in VolatileTexts : /\ Plain(text) \in AllLines
                                   /\ is_volatile(Plain(text)) /\ ~Matters(Plain(text))
<1>0. \A text \in AllTexts, spaces \in BOOLEAN : Line(text, spaces) \in AllLines
  BY DEF AllLines, Line
<1>1. "" \in AllTexts /\ \A text \in VolatileTexts : text \in AllTexts
  BY Zenon DEF AllTexts
<1>2. \A spaces : Line("", spaces).text = ""
  BY DEF Line
<1>3. \A spaces : ~Matters(Line("", spaces))
  BY <1>2, Zenon DEF Matters
<1>4. \A text \in VolatileTexts : Plain(text) \in AllLines
  BY <1>1, LineFields, Zenon
<1>5. \A text \in VolatileTexts : is_volatile(Plain(text)) /\ ~Matters(Plain(text))
  BY LineFields, Zenon DEF is_volatile, Matters
<1> QED
  BY <1>0, <1>1, <1>3, <1>4, <1>5, Zenon

\* Spaces, blank lines at the end and headers anywhere change no normal form.
LEMMA CosmeticsChangeNothing ==
    ASSUME NEW s \in Seq(AllLines)
    PROVE  /\ \A i \in 1..(Len(s) + 1), text \in VolatileTexts :
                 /\ InsertAt(s, i, Plain(text)) \in Seq(AllLines)
                 /\ normalize(InsertAt(s, i, Plain(text))) = normalize(s)
           /\ \A i \in 1..Len(s) :
                 /\ [s EXCEPT ![i].spaces = ~@] \in Seq(AllLines)
                 /\ normalize([s EXCEPT ![i].spaces = ~@]) = normalize(s)
           /\ \A blanks \in Seq(AllLines) :
                 (\A k \in 1..Len(blanks) : ~Matters(blanks[k])) =>
                    /\ s \o blanks \in Seq(AllLines)
                    /\ normalize(s \o blanks) = normalize(s)
<1>0. Len(s) \in Nat
  BY LenProperties
<1>1. ASSUME NEW i \in 1..(Len(s) + 1), NEW text \in VolatileTexts
      PROVE  /\ InsertAt(s, i, Plain(text)) \in Seq(AllLines)
             /\ normalize(InsertAt(s, i, Plain(text))) = normalize(s)
  <2> DEFINE line == Plain(text)
             t == InsertAt(s, i, line)
  <2>1. line \in AllLines /\ is_volatile(line)
    BY EmptyAndHeaders
  <2> HIDE DEF line
  <2>2. t \in Seq(AllLines) /\ Inserted(s, t, i) /\ t[i] = line
    BY <2>1, InsertAtIs
  <2> HIDE DEF t
  <2>3. normalize(t) = normalize(s)
    BY <2>1, <2>2, HeaderAdded
  <2> QED
    BY <2>2, <2>3 DEF t, line
<1>2. ASSUME NEW i \in 1..Len(s)
      PROVE  /\ [s EXCEPT ![i].spaces = ~@] \in Seq(AllLines)
             /\ normalize([s EXCEPT ![i].spaces = ~@]) = normalize(s)
  <2> DEFINE t == [s EXCEPT ![i].spaces = ~@]
  <2>1. t \in Seq(AllLines) /\ Len(t) = Len(s) /\ \A n \in 1..Len(s) : t[n].text = s[n].text
    BY SpacesChanged
  <2> HIDE DEF t
  <2>2. Len(s) <= Len(t) /\ \A n \in 1..Len(t) : n > Len(s) => ~Matters(t[n])
    BY <1>0, <2>1
  <2>3. normalize(t) = normalize(s)
    BY <2>1, <2>2, BlanksAdded
  <2> QED
    BY <2>1, <2>3 DEF t
<1>3. ASSUME NEW blanks \in Seq(AllLines), \A k \in 1..Len(blanks) : ~Matters(blanks[k])
      PROVE  /\ s \o blanks \in Seq(AllLines)
             /\ normalize(s \o blanks) = normalize(s)
  <2> DEFINE t == s \o blanks
  <2>1. /\ t \in Seq(AllLines) /\ Len(t) = Len(s) + Len(blanks) /\ Len(blanks) \in Nat
        /\ \A k \in 1..Len(s) : t[k] = s[k]
        /\ \A k \in 1..Len(blanks) : t[Len(s) + k] = blanks[k]
    BY ConcatIs
  <2> HIDE DEF t
  <2>2. Len(s) <= Len(t) /\ \A n \in 1..Len(s) : t[n].text = s[n].text
    BY <1>0, <2>1
  <2>3. ASSUME NEW n \in 1..Len(t), n > Len(s)  PROVE ~Matters(t[n])
    <3> DEFINE k == n - Len(s)
    <3>1. k \in 1..Len(blanks) /\ Len(s) + k = n
      BY <1>0, <2>1, <2>3
    <3> HIDE DEF k
    <3> QED
      BY <1>3, <2>1, <3>1
  <2>4. normalize(t) = normalize(s)
    BY <2>1, <2>2, <2>3, BlanksAdded
  <2> QED
    BY <2>1, <2>4 DEF t
<1> QED
  BY <1>1, <1>2, <1>3

\* So the other captures of the same configuration are texts of some lines with the
\* same normal form.
Recaptured(variant) == variant \in Seq(AllLines) /\ normalize(variant) = normalize(config)

\* Spaces, blank lines and headers make such texts.
LEMMA RecapturesAre == TypeOK => EveryRecapture(Recaptured)
<1> SUFFICES ASSUME TypeOK  PROVE EveryRecapture(Recaptured)
  OBVIOUS
<1>1. config \in Seq(AllLines) /\ DOMAIN config = 1..Len(config)
  BY LinesAreLines, LenProperties DEF TypeOK
<1> DEFINE a == Line("", TRUE)
           b == Plain("")
           blanks == <<a, b>>
<1>2. a \in AllLines /\ b \in AllLines /\ ~Matters(a) /\ ~Matters(b)
  BY EmptyAndHeaders, Zenon DEF Plain
<1> HIDE DEF a, b
<1>3. blanks \in Seq(AllLines) /\ \A k \in 1..Len(blanks) : ~Matters(blanks[k])
  BY <1>2
<1> HIDE DEF blanks
<1>4. ASSUME NEW i \in 1..(Len(config) + 1), NEW text \in VolatileTexts
      PROVE  Recaptured(InsertAt(config, i, Plain(text)))
  BY <1>1, CosmeticsChangeNothing DEF Recaptured
<1>5. \A i \in DOMAIN config : Recaptured([config EXCEPT ![i].spaces = ~@])
  BY <1>1, CosmeticsChangeNothing, Zenon DEF Recaptured
<1>6. Recaptured(config \o blanks)
  BY <1>1, <1>3, CosmeticsChangeNothing, Zenon DEF Recaptured
<1> QED
  BY <1>4, <1>5, <1>6, Zenon DEF EveryRecapture, blanks, a, b

\* What differs in every capture of one configuration is no change.
LEMMA NoChangeSeen == TypeOK => CosmeticsAreNoChange
<1> DEFINE Same(variant) == /\ normalize(variant) = normalize(config)
                            /\ config_problem(variant) <=> config_problem(config)
<1>1. \A variant : Recaptured(variant) => Same(variant)
  BY Zenon DEF config_problem, Recaptured
<1> HIDE DEF Same
<1>2. TypeOK => EveryRecapture(Same)
  BY <1>1, RecapturesAre, Zenon DEF EveryRecapture
<1> QED
  BY <1>2, Zenon DEF CosmeticsAreNoChange, Same

\* Two texts of as many lines, of which one is another that matters.
Exchanged(s, t, i) == /\ s \in Seq(AllLines) /\ t \in Seq(AllLines) /\ Len(t) = Len(s)
                      /\ i \in 1..Len(s) /\ \A n \in 1..Len(s) : n # i => t[n] = s[n]
                      /\ t[i].text # s[i].text /\ Matters(t[i])

\* A line that matters, changed, added or taken away, is seen.
LEMMA ChangeSeen == TypeOK => ChangesAreSeen
<1> SUFFICES ASSUME TypeOK  PROVE ChangesAreSeen
  OBVIOUS
<1>1. config \in Seq(AllLines) /\ DOMAIN config = 1..Len(config) /\ Len(config) \in Nat
  BY LinesAreLines, LenProperties DEF TypeOK
<1>2. \A line \in Lines : line \in AllLines
  BY LinesAreLines
<1>e. \A s, t, i : Exchanged(s, t, i) => normalize(t) # normalize(s)
  <2> SUFFICES ASSUME NEW s, NEW t, NEW i, Exchanged(s, t, i)
               PROVE  normalize(t) # normalize(s)
    OBVIOUS
  <2> QED
    BY LineExchanged DEF Exchanged
<1>3. ASSUME NEW i \in 1..Len(config), NEW line \in Lines,
             Matters(config[i]) \/ Matters(line), config[i].text # line.text
      PROVE  normalize([config EXCEPT ![i] = line]) # normalize(config)
  <2> DEFINE t == [config EXCEPT ![i] = line]
  <2>1. /\ t \in Seq(AllLines) /\ Len(t) = Len(config)
        /\ \A n \in 1..Len(config) : t[n] = IF n = i THEN line ELSE config[n]
    BY <1>1, <1>2, ExceptSeq
  <2> HIDE DEF t
  <2>2. t[i] = line /\ \A n \in 1..Len(t) : n # i => t[n] = config[n]
    BY <1>1, <2>1
  <2>3. Exchanged(config, t, i) \/ Exchanged(t, config, i)
    BY <1>1, <1>3, <2>1, <2>2 DEF Exchanged
  <2>4. normalize(t) # normalize(config)
    BY <1>e, <2>3, Zenon
  <2> QED
    BY <2>4 DEF t
<1>4. ASSUME NEW i \in 1..Len(config), Matters(config[i])
      PROVE  normalize(RemoveAt(config, i)) # normalize(config)
  <2>1. RemoveAt(config, i) \in Seq(AllLines) /\ Inserted(RemoveAt(config, i), config, i)
    BY <1>1, RemoveAtIs
  <2> QED
    BY <1>1, <1>4, <2>1, LineAdded
<1>5. ASSUME NEW i \in 1..(Len(config) + 1), NEW line \in Lines, Matters(line)
      PROVE  normalize(InsertAt(config, i, line)) # normalize(config)
  <2>1. /\ InsertAt(config, i, line) \in Seq(AllLines)
        /\ Inserted(config, InsertAt(config, i, line), i)
        /\ InsertAt(config, i, line)[i] = line
    BY <1>1, <1>2, InsertAtIs
  <2> QED
    BY <1>1, <1>5, <2>1, LineAdded
<1> QED
  BY <1>1, <1>3, <1>4, <1>5, Zenon DEF ChangesAreSeen

\* The comparison of captures takes one for a new configuration when it is one, and
\* only then, whatever the lines: a header, spaces and blank lines at the end do not
\* count, any other line does.
THEOREM ChangesTheorem == Spec => []ChangesAreTold
<1>1. TypeOK => ChangesAreTold
  BY NoChangeSeen, ChangeSeen DEF ChangesAreTold
<1> QED
  BY <1>1, TypeCorrectness, PTL

-----------------------------------------------------------------------------
(* What is kept of a text.                                                  *)

\* The parts of the places of a text that its normal form and its kept lines are of.
LEMMA KeptBetween ==
    ASSUME NEW s \in Seq(AllLines)
    PROVE  \E b \in Nat :
              /\ b + Cardinality(Body(s)) <= Cardinality(KeptPlaces(s))
              /\ \A k \in 1..Cardinality(Body(s)) :
                    Place(Body(s), k) = Place(KeptPlaces(s), b + k)
              /\ \A k \in 1..Cardinality(KeptPlaces(s)) :
                    Place(KeptPlaces(s), k) \in Body(s)
                       => b + 1 <= k /\ k <= b + Cardinality(Body(s))
<1> DEFINE P == KeptPlaces(s)
           Q == Body(s)
<1>1. /\ Q \in SUBSET P /\ IsPlaces(P) /\ IsPlaces(Q)
      /\ Q = {n \in P : \E i, j \in FilledPlaces(s) : i <= n /\ n <= j}
      /\ FilledPlaces(s) \in SUBSET Q
  BY TextPlaces DEF Body
<1>2. P \subseteq Nat \ {0} /\ Cardinality(P) \in Nat
  BY <1>1, PlacesType
<1>3. ASSUME NEW n \in P, \E i, j \in Q : i <= n /\ n <= j  PROVE n \in Q
  <2>1. PICK i \in Q, j \in Q : i <= n /\ n <= j
    BY <1>3
  <2>2. PICK k \in FilledPlaces(s) : k <= i
    BY <1>1, <2>1
  <2>3. PICK l \in FilledPlaces(s) : j <= l
    BY <1>1, <2>1
  <2>4. n \in Nat /\ i \in Nat /\ j \in Nat /\ k \in Nat /\ l \in Nat
    BY <1>1, <1>2
  <2>5. k <= n /\ n <= l
    BY <2>1, <2>2, <2>3, <2>4
  <2> QED
    BY <1>1, <2>5
<1> HIDE DEF P, Q
<1>4. CASE Q # {}
  BY <1>1, <1>3, <1>4, PlacesBetween DEF P, Q
<1>5. CASE Q = {}
  <2>1. Cardinality(Q) = 0
    BY <1>5, FS_EmptySet
  <2>2. /\ 0 \in Nat /\ 0 + Cardinality(Q) <= Cardinality(P)
        /\ \A k \in 1..Cardinality(Q) : Place(Q, k) = Place(P, 0 + k)
        /\ \A k \in 1..Cardinality(P) :
              Place(P, k) \in Q => 0 + 1 <= k /\ k <= 0 + Cardinality(Q)
    BY <1>2, <1>5, <2>1
  <2> QED
    BY <2>2 DEF P, Q
<1> QED
  BY <1>4, <1>5

\* A line kept that is not in the normal form is empty.
LEMMA NotInBody ==
    ASSUME NEW s \in Seq(AllLines), NEW n \in KeptPlaces(s), n \notin Body(s)
    PROVE  s[n].text = ""
<1>1. n \in 1..Len(s) /\ s[n] \in AllLines /\ DOMAIN s = 1..Len(s) /\ n \notin FilledPlaces(s)
  BY TextPlaces
<1>2. Blank(rstrip(s[n]))
  BY <1>1 DEF FilledPlaces
<1> QED
  BY <1>1, <1>2, LineTests

\* The normal form begins and ends with a line that matters.
LEMMA BodyEnds ==
    ASSUME NEW s \in Seq(AllLines), Body(s) # {}
    PROVE  /\ Place(Body(s), 1) \in FilledPlaces(s)
           /\ Place(Body(s), Cardinality(Body(s))) \in FilledPlaces(s)
<1> DEFINE Q == Body(s)
           c == Cardinality(Q)
<1>1. /\ IsPlaces(Q) /\ FilledPlaces(s) \in SUBSET Q
      /\ \A n \in Q : \E i, j \in FilledPlaces(s) : i <= n /\ n <= j
      /\ Q # {}
  BY TextPlaces DEF Body
<1> HIDE DEF Q
<1>2. /\ Place(Q, 1) \in Q /\ \A n \in Q : Place(Q, 1) <= n
      /\ Place(Q, c) \in Q /\ \A n \in Q : n <= Place(Q, c)
      /\ \A n \in Q : n \in Nat
  BY <1>1, PlacesEnds, PlacesType
<1>3. Place(Q, 1) \in FilledPlaces(s)
  <2>1. PICK i \in FilledPlaces(s) : i <= Place(Q, 1)
    BY <1>1, <1>2
  <2>2. i \in Nat /\ Place(Q, 1) \in Nat /\ Place(Q, 1) <= i
    BY <1>1, <1>2
  <2>3. i = Place(Q, 1)
    BY <2>1, <2>2
  <2> QED
    BY <2>3
<1>4. Place(Q, c) \in FilledPlaces(s)
  <2>1. PICK i \in FilledPlaces(s) : Place(Q, c) <= i
    BY <1>1, <1>2
  <2>2. i \in Nat /\ Place(Q, c) \in Nat /\ i <= Place(Q, c)
    BY <1>1, <1>2
  <2>3. i = Place(Q, c)
    BY <2>1, <2>2
  <2> QED
    BY <2>3
<1> QED
  BY <1>3, <1>4 DEF Q

\* As many empty texts as there are to be.
LEMMA EmptyIs ==
    ASSUME NEW many \in Nat
    PROVE  /\ Empty(many) \in Seq(AllTexts) /\ Len(Empty(many)) = many
           /\ \A k \in 1..many : Empty(many)[k] = ""
<1> DEFINE none == ""
<1>1. none \in AllTexts
  BY Zenon DEF AllTexts
<1>2. Empty(many) = [n \in 1..many |-> none]
  BY Zenon DEF Empty
<1> HIDE DEF none
<1>3. /\ Empty(many) \in Seq(AllTexts) /\ Len(Empty(many)) = many
      /\ \A k \in 1..many : Empty(many)[k] = none
  <2>1. Empty(many) \in [1..many -> AllTexts]
    BY <1>1, <1>2
  <2> QED
    BY <1>2, <2>1, SeqDef
<1> QED
  BY <1>3, Zenon DEF none

\* normalize drops headers, the spaces lines end in and empty lines at both ends, and
\* nothing else.
LEMMA NormalFormAsDescribed == TypeOK => NormalizedAsDescribed
<1> SUFFICES ASSUME TypeOK  PROVE NormalizedAsDescribed
  OBVIOUS
<1> DEFINE P == KeptPlaces(config)
           Q == Body(config)
           c == Cardinality(P)
           d == Cardinality(Q)
           kept == Sublist(TextsOf(config), P)
           r == normalize(config)
           texts == TextsOf(r)
<1>1. config \in Seq(AllLines)
  BY LinesAreLines DEF TypeOK
<1>2. /\ Len(config) \in Nat /\ DOMAIN config = 1..Len(config)
      /\ \A n \in 1..Len(config) : config[n] \in AllLines
      /\ P \in SUBSET (1..Len(config)) /\ Q \in SUBSET P
      /\ IsPlaces(P) /\ IsPlaces(Q)
      /\ FilledPlaces(config) = {n \in 1..Len(config) : Matters(config[n])}
      /\ \A n \in 1..Len(config) : Stripped(config)[n] = Plain(config[n].text)
  BY <1>1, TextPlaces
<1>3. P = {n \in DOMAIN config : config[n].text \notin VolatileTexts}
  BY Zenon DEF KeptPlaces, is_volatile
<1>4. /\ c \in Nat /\ d \in Nat
      /\ \A k \in 1..c : Place(P, k) \in P
      /\ \A k \in 1..d : Place(Q, k) \in Q
  BY <1>2, PlacesType, PlaceOfNumber
<1>5. /\ Len(kept) = c /\ \A k \in 1..c : kept[k] = config[Place(P, k)].text
      /\ kept \in Seq(AllTexts)
  <2>1. \A n \in P : TextsOf(config)[n] = config[n].text /\ config[n].text \in AllTexts
    BY <1>2 DEF TextsOf, AllLines
  <2>2. DOMAIN kept = 1..c /\ \A k \in 1..c : kept[k] = TextsOf(config)[Place(P, k)]
    BY SublistTakes
  <2>3. kept \in Seq(AllTexts) /\ Len(kept) = c
    BY <1>2, <2>1, SublistElements
  <2> HIDE DEF kept, P, c
  <2> QED
    BY <1>4, <2>1, <2>2, <2>3
<1>6. DOMAIN r = 1..d /\ \A k \in 1..d : r[k] = Plain(config[Place(Q, k)].text)
  <2>1. r = Sublist(Stripped(config), Q)
    BY NormalForm
  <2>2. \A k \in 1..d : Place(Q, k) \in 1..Len(config)
    BY <1>2, <1>4
  <2> HIDE DEF r, Q, d
  <2> QED
    BY <1>2, <2>1, <2>2, SublistTakes DEF d
<1>7. /\ texts \in Seq(AllTexts) /\ Len(texts) = d
      /\ \A k \in 1..d : texts[k] = config[Place(Q, k)].text
  <2>1. \A k \in 1..d : r[k].text = config[Place(Q, k)].text /\ r[k].text \in AllTexts
    <3>1. \A k \in 1..d : Place(Q, k) \in 1..Len(config)
      BY <1>2, <1>4
    <3>2. \A k \in 1..d : config[Place(Q, k)].text \in AllTexts
      BY <1>2, <3>1 DEF AllLines
    <3> HIDE DEF r, Q, d
    <3> QED
      BY <1>6, <3>2, LineFields
  <2>2. texts = [k \in 1..d |-> r[k].text]
    BY <1>6 DEF TextsOf
  <2> HIDE DEF texts, r, d, Q
  <2>3. texts \in [1..d -> AllTexts]
    BY <2>1, <2>2
  <2> QED
    BY <1>4, <2>1, <2>2, <2>3, SeqDef
<1>8. PICK b \in Nat : /\ b + d <= c
                       /\ \A k \in 1..d : Place(Q, k) = Place(P, b + k)
                       /\ \A k \in 1..c : Place(P, k) \in Q => b + 1 <= k /\ k <= b + d
  BY <1>1, KeptBetween
<1>9. ASSUME NEW k \in 1..c, Place(P, k) \notin Q  PROVE kept[k] = ""
  BY <1>1, <1>4, <1>5, <1>9, NotInBody, Zenon
<1> HIDE DEF P, Q, c, d, kept, r, texts
<1>10. kept = Empty(b) \o texts \o Empty(c - b - d) /\ b \in 0..c /\ c - b - d \in 0..c
  <2> DEFINE a == c - b - d
  <2>1. b \in 0..c /\ a \in 0..c /\ a \in Nat /\ c = b + d + a
    BY <1>4, <1>8
  <2> HIDE DEF a
  <2> DEFINE u == Empty(b)
             w == Empty(a)
  <2>2. /\ u \in Seq(AllTexts) /\ Len(u) = b /\ \A k \in 1..b : u[k] = ""
        /\ w \in Seq(AllTexts) /\ Len(w) = a /\ \A k \in 1..a : w[k] = ""
    BY <2>1, EmptyIs, Zenon
  <2>l. Len(u) = b /\ Len(w) = a
    BY <2>2, Zenon
  <2> HIDE DEF u, w
  <2>3. ASSUME NEW k \in 1..Len(u)  PROVE kept[k] = u[k]
    <3>1. k \in 1..c /\ k \in 1..b /\ ~(b + 1 <= k)
      BY <1>4, <2>1, <2>l
    <3> QED
      BY <1>8, <1>9, <2>2, <3>1, Zenon
  <2>4. ASSUME NEW k \in 1..Len(texts)  PROVE kept[Len(u) + k] = texts[k]
    <3>1. k \in 1..d /\ b + k \in 1..c /\ Len(u) + k = b + k
      BY <1>4, <1>7, <2>1, <2>l
    <3> QED
      BY <1>5, <1>7, <1>8, <3>1
  <2>5. ASSUME NEW k \in 1..Len(w)  PROVE kept[Len(u) + Len(texts) + k] = w[k]
    <3> DEFINE j == Len(u) + Len(texts) + k
    <3>1. k \in 1..a /\ j = b + d + k
      BY <1>7, <2>l
    <3>2. j \in 1..c /\ ~(j <= b + d)
      BY <1>4, <2>1, <3>1
    <3> HIDE DEF j
    <3> QED
      BY <1>8, <1>9, <2>2, <3>1, <3>2, Zenon DEF j
  <2>6. Len(kept) = Len(u) + Len(texts) + Len(w)
    BY <1>5, <1>7, <2>1, <2>l
  <2>7. kept = u \o texts \o w
    <3>1. /\ kept \in Seq(AllTexts) /\ u \in Seq(AllTexts)
          /\ texts \in Seq(AllTexts) /\ w \in Seq(AllTexts)
      BY <1>5, <1>7, <2>2
    <3> QED
      BY <2>3, <2>4, <2>5, <2>6, <3>1, ThreePieces, Zenon
  <2> QED
    BY <2>1, <2>7 DEF u, w, a
<1>11. r # << >> => r[1].text # "" /\ r[Len(r)].text # ""
  <2> SUFFICES ASSUME r # << >>  PROVE r[1].text # "" /\ r[Len(r)].text # ""
    OBVIOUS
  <2>1. Len(r) = d /\ d # 0
    BY <1>4, <1>6
  <2>2. Q # {} /\ 1 \in 1..d /\ d \in 1..d
    BY <1>4, <2>1, FS_EmptySet DEF d
  <2>3. Matters(config[Place(Q, 1)]) /\ Matters(config[Place(Q, d)])
    BY <1>1, <1>2, <2>2, BodyEnds DEF Q, d
  <2>4. r[1].text = config[Place(Q, 1)].text /\ r[d].text = config[Place(Q, d)].text
    BY <1>6, <2>2, LineFields
  <2> QED
    BY <2>1, <2>3, <2>4, Zenon DEF Matters
<1>12. \A i \in DOMAIN r : ~r[i].spaces
  BY <1>6, LineFields
<1> QED
  BY <1>3, <1>5, <1>10, <1>11, <1>12, Zenon DEF NormalizedAsDescribed, texts, kept, r, P

\* The normal form is what normalize's description says, of every text.
THEOREM NormalizedTheorem == Spec => []NormalizedAsDescribed
BY NormalFormAsDescribed, TypeCorrectness, PTL

-----------------------------------------------------------------------------
(* What is refused.                                                         *)

\* A configuration is refused when fewer than so many of its lines matter.
LEMMA ProblemIs ==
    ASSUME NEW s \in Seq(AllLines)
    PROVE  /\ config_problem(s) <=> Cardinality(FilledPlaces(s)) < MIN_CONFIG_LINES
           /\ IsFiniteSet(FilledPlaces(s)) /\ Cardinality(FilledPlaces(s)) \in Nat
<1> DEFINE P    == Body(s)
           list == Stripped(s)
           sort == {line \in AllLines : ~Blank(rstrip(line))}
           lines == normalize(s)
<1>1. /\ IsPlaces(P) /\ P \in SUBSET (1..Len(s)) /\ FilledPlaces(s) \in SUBSET P
      /\ P \in SUBSET KeptPlaces(s)
      /\ \A n \in 1..Len(s) : s[n] \in AllLines /\ list[n] = Plain(s[n].text)
      /\ DOMAIN s = 1..Len(s)
  BY TextPlaces
<1>2. ASSUME NEW n \in P
      PROVE  /\ list[n] \in AllLines
             /\ list[n] \in sort <=> n \in FilledPlaces(s)
  <2>1. n \in 1..Len(s) /\ s[n] \in AllLines /\ list[n] = Plain(s[n].text)
    BY <1>1
  <2>2. list[n] \in AllLines /\ list[n].text = s[n].text
    <3>1. s[n].text \in AllTexts
      BY <2>1 DEF AllLines
    <3> QED
      BY <2>1, <3>1, LineFields
  <2>3. Blank(rstrip(list[n])) <=> Blank(rstrip(s[n]))
    <3> HIDE DEF list
    <3> QED
      BY <2>1, <2>2, LineTests, Zenon
  <2>4. n \in FilledPlaces(s) <=> ~Blank(rstrip(s[n]))
    BY <1>1 DEF FilledPlaces
  <2> HIDE DEF list
  <2> QED
    BY <2>2, <2>3, <2>4
<1>3. lines = Sublist(list, P)
  BY NormalForm
<1>4. \A n \in DOMAIN lines : lines[n] \in AllLines
  <2>1. \A n \in P : list[n] \in AllLines
    BY <1>2
  <2> HIDE DEF list, P, lines
  <2>2. lines \in Seq(AllLines)
    BY <1>1, <1>3, <2>1, SublistElements
  <2> QED
    BY <2>2, LenProperties
<1>5. {n \in DOMAIN lines : lines[n] \in sort} = {n \in DOMAIN lines : ~Blank(rstrip(lines[n]))}
  BY <1>4
<1>6. {n \in P : list[n] \in sort} = FilledPlaces(s)
  BY <1>1, <1>2
<1> HIDE DEF P, list, sort, lines
<1>7. /\ Tally(Sublist(list, P), DOMAIN Sublist(list, P), sort) = Tally(list, P, sort)
      /\ Tally(list, P, sort) \in Nat
  BY <1>1, SublistCount
<1>8. /\ Cardinality({n \in DOMAIN lines : ~Blank(rstrip(lines[n]))})
            = Cardinality(FilledPlaces(s))
      /\ Cardinality(FilledPlaces(s)) \in Nat
  BY <1>3, <1>5, <1>6, <1>7 DEF Tally
<1>9. IsFiniteSet(FilledPlaces(s))
  <2>1. IsFiniteSet(P)
    BY <1>1, PlacesType
  <2> QED
    BY <1>1, <2>1, FS_Subset
<1> QED
  BY <1>8, <1>9 DEF config_problem, lines

\* A rejection is a text that matters.
LEMMA RejectionMatters ==
    ASSUME NEW text \in Rejections
    PROVE  /\ Plain(text) \in AllLines /\ Plain(text).text = text
           /\ Matters(Plain(text)) /\ ~Blank(rstrip(Plain(text)))
<1>1. text \in AllTexts
  BY Zenon DEF AllTexts
<1>2. text # ""
  BY DEF Rejections
<1>3. text \notin VolatileTexts
  BY DEF Rejections, VolatileTexts
<1>4. Plain(text) \in AllLines /\ Plain(text).text = text
  BY <1>1, LineFields
<1>5. Matters(Plain(text))
  BY <1>2, <1>3, <1>4, Zenon DEF Matters
<1> QED
  BY <1>4, <1>5, LineTests, Zenon

\* A rejection is refused where it stands for the whole reply, or nearly, and a text
\* with more lines than that is not.
LEMMA RejectionRefused == TypeOK => RejectionsAreRefused
<1> SUFFICES ASSUME TypeOK, NEW i \in 1..(Len(config) + 1), NEW text \in Rejections
             PROVE  LET reply  == InsertAt(config, i, Plain(text))
                        kept   == Cardinality({n \in DOMAIN reply : Matters(reply[n])})
                        stored == ~output_problem(reply) /\ ~config_problem(reply)
                    IN  /\ kept < MIN_CONFIG_LINES => ~stored
                        /\ (\A n \in 1..(i - 1) : config[n].text = "")
                           /\ Len(config) < MAX_ERROR_REPLY_LINES => output_problem(reply)
                        /\ kept > MAX_ERROR_REPLY_LINES => stored
  BY DEF RejectionsAreRefused
<1> DEFINE reply == InsertAt(config, i, Plain(text))
           line  == Plain(text)
           F     == FilledPlaces(reply)
           kept  == Cardinality(F)
<1>0. config \in Seq(AllLines) /\ Len(config) \in Nat
  BY LinesAreLines, LenProperties DEF TypeOK
<1>1. line \in AllLines /\ line.text = text /\ Matters(line) /\ ~Blank(rstrip(line))
  BY RejectionMatters
<1>2. reply \in Seq(AllLines) /\ Inserted(config, reply, i) /\ reply[i] = line
  <2> HIDE DEF line
  <2> QED
    BY <1>0, <1>1, InsertAtIs DEF line
<1>i. Len(reply) = Len(config) + 1 /\ i \in 1..Len(reply)
  BY <1>2 DEF Inserted
<1> HIDE DEF reply, line, F
<1>3. /\ DOMAIN reply = 1..Len(reply) /\ \A n \in 1..Len(reply) : reply[n] \in AllLines
      /\ F = {n \in DOMAIN reply : Matters(reply[n])}
  BY <1>2, TextPlaces DEF F
<1>4. /\ config_problem(reply) <=> kept < MIN_CONFIG_LINES
      /\ IsFiniteSet(F) /\ kept \in Nat
  BY <1>2, ProblemIs DEF F
<1>5. F \in SUBSET Filled(reply)
  BY <1>3, LineTests DEF Filled
<1>6. kept < MIN_CONFIG_LINES => config_problem(reply)
  BY <1>4
<1>7. ASSUME \A n \in 1..(i - 1) : config[n].text = "", Len(config) < MAX_ERROR_REPLY_LINES
      PROVE  output_problem(reply)
  <2>1. i \in Filled(reply)
    BY <1>1, <1>2, <1>3, <1>i DEF Filled
  <2>2. reply[i].text \in Rejections
    BY <1>1, <1>2
  <2>3. ASSUME NEW n \in 1..(i - 1)  PROVE Blank(rstrip(reply[n]))
    <3>1. n \in 1..Len(config) /\ Shifted(i, n) = n /\ n \in 1..Len(reply)
      BY <1>0, <1>i DEF Shifted
    <3>2. reply[n] = config[n]
      BY <1>2, <3>1 DEF Inserted
    <3>3. reply[n].text = "" /\ reply[n] \in AllLines
      BY <1>3, <1>7, <3>1, <3>2, Zenon
    <3> QED
      BY <3>3, LineTests, Zenon
  <2>4. ASSUME NEW n \in Filled(reply)  PROVE i <= n /\ n - i < MAX_ERROR_REPLY_LINES
    <3>1. n \in 1..Len(reply) /\ ~Blank(rstrip(reply[n]))
      BY <1>3 DEF Filled
    <3>2. n \notin 1..(i - 1)
      BY <2>3, <3>1, Zenon
    <3>3. Len(config) < 5
      BY <1>7, Zenon DEF MAX_ERROR_REPLY_LINES
    <3> QED
      BY <1>0, <1>i, <3>1, <3>2, <3>3 DEF MAX_ERROR_REPLY_LINES
  <2> QED
    BY <2>1, <2>2, <2>4, Zenon DEF output_problem
<1>8. ASSUME kept > MAX_ERROR_REPLY_LINES
      PROVE  ~output_problem(reply) /\ ~config_problem(reply)
  <2>1. ~config_problem(reply)
    BY <1>4, <1>8 DEF MIN_CONFIG_LINES, MAX_ERROR_REPLY_LINES
  <2>2. Filled(reply) # {}
    <3>1. F # {}
      BY <1>4, <1>8, FS_EmptySet DEF MAX_ERROR_REPLY_LINES
    <3> QED
      BY <1>5, <3>1
  <2>3. ASSUME NEW first \in Filled(reply),
               \A n \in Filled(reply) : first <= n /\ n - first < MAX_ERROR_REPLY_LINES
        PROVE  FALSE
    <3>1. first \in Nat /\ \A n \in F : n \in Nat
      BY <1>3 DEF Filled
    <3> DEFINE last == first + 4
               I == first..last
    <3>2. F \in SUBSET I
      BY <1>5, <2>3, <3>1 DEF MAX_ERROR_REPLY_LINES
    <3>3. first \in Int /\ last \in Int /\ ~(first > last) /\ last - first + 1 = 5
      BY <3>1
    <3> HIDE DEF last
    <3>4. IsFiniteSet(I) /\ Cardinality(I) = 5
      BY <3>3, FS_Interval
    <3> HIDE DEF I
    <3>5. kept <= 5
      BY <3>2, <3>4, FS_Subset
    <3> QED
      BY <1>4, <1>8, <3>5 DEF MAX_ERROR_REPLY_LINES
  <2> QED
    BY <2>1, <2>2, <2>3, Zenon DEF output_problem
<1>9. kept = Cardinality({n \in DOMAIN reply : Matters(reply[n])})
  BY <1>3
<1> HIDE DEF kept
<1> QED
  BY <1>6, <1>7, <1>8, <1>9, Zenon DEF reply

\* Whatever the text and wherever a rejection is in it, it is refused as described.
THEOREM RejectionsTheorem == Spec => []RejectionsAreRefused
BY RejectionRefused, TypeCorrectness, PTL

-----------------------------------------------------------------------------
(* Rules.                                                                   *)

\* A line of a text is what an entry finds.
Found(rule, entry, line) == /\ normalize_line(line) \notin {"", "!"}
                            /\ normalize_line(line) \in Matches(rule, entry)
FoundAt(rule, entry, s) == {n \in DOMAIN s : Found(rule, entry, s[n])}

\* The numbers of the meaningful lines an entry matches are the places in the text of
\* what it finds.
LEMMA HitsAreFound ==
    ASSUME NEW s, NEW L \in Nat, DOMAIN s = 1..L, NEW rule, NEW entry
    PROVE  LET lines == config_lines(s)
               hits  == {k \in DOMAIN lines : lines[k].text \in Matches(rule, entry)}
           IN  /\ \A k \in hits : lines[k].number \in FoundAt(rule, entry, s)
               /\ \A n \in FoundAt(rule, entry, s) : \E k \in hits : lines[k].number = n
<1> DEFINE Kept(text) == text \notin {"", "!"}
           numbered == [n \in DOMAIN s |-> [number |-> n, text |-> normalize_line(s[n])]]
           P == {n \in DOMAIN s : Kept(numbered[n].text)}
           lines == config_lines(s)
           M == Matches(rule, entry)
           hits == {k \in DOMAIN lines : lines[k].text \in M}
<1>1. lines = Sublist(numbered, P)
  BY DEF config_lines
<1>2. FoundAt(rule, entry, s)
         = {n \in DOMAIN s : Kept(normalize_line(s[n])) /\ normalize_line(s[n]) \in M}
  BY Zenon DEF FoundAt, Found
<1> HIDE DEF Kept, M, lines
<1>3. IsPlaces(P)
  BY DEF IsPlaces
<1>4. \A n \in DOMAIN s : numbered[n].number = n /\ numbered[n].text = normalize_line(s[n])
  OBVIOUS
<1>5. /\ \A k \in DOMAIN lines : \E n \in P : lines[k] = numbered[n]
      /\ \A n \in P : \E k \in DOMAIN lines : lines[k] = numbered[n]
  <2> HIDE DEF P, numbered
  <2> QED
    BY <1>1, <1>3, SublistHas
<1>6. P = {n \in DOMAIN s : Kept(normalize_line(s[n]))}
  BY <1>4
<1> HIDE DEF numbered, P
<1>7. ASSUME NEW k \in hits  PROVE lines[k].number \in FoundAt(rule, entry, s)
  <2>1. PICK n \in P : lines[k] = numbered[n]
    BY <1>5
  <2> QED
    BY <1>2, <1>4, <1>6, <2>1
<1>8. ASSUME NEW n \in FoundAt(rule, entry, s)  PROVE \E k \in hits : lines[k].number = n
  <2>1. n \in P /\ n \in DOMAIN s /\ normalize_line(s[n]) \in M
    BY <1>2, <1>6
  <2>2. PICK k \in DOMAIN lines : lines[k] = numbered[n]
    BY <1>5, <2>1
  <2>3. lines[k].number = n /\ lines[k].text = normalize_line(s[n])
    BY <1>4, <2>1, <2>2
  <2> QED
    BY <2>1, <2>3
<1> QED
  BY <1>7, <1>8 DEF lines, M

\* An entry is a key and a place in the rule's list.
LEMMA EntryIs ==
    ASSUME NEW rule, NEW keys
    PROVE  \A e : e \in Entries(rule, keys)
                     <=> \E key \in keys : \E n \in DOMAIN rule[key] : e = <<key, n>>
BY DEF Entries

\* What violates a rule, told of the original text.
LEMMA ViolationsAre ==
    ASSUME NEW s, NEW L \in Nat, DOMAIN s = 1..L, NEW rule
    PROVE  \A v : v \in Violations(rule, config_lines(s)) <=>
              \/ \E e \in Entries(rule, RequiredKeys) :
                    FoundAt(rule, e, s) = {} /\ v = Violation("missing", e, 0)
              \/ \E e \in Entries(rule, ForbiddenKeys) : \E n \in FoundAt(rule, e, s) :
                    v = Violation("forbidden", e, n)
<1> DEFINE lines == config_lines(s)
           Hits(e) == {k \in DOMAIN lines : lines[k].text \in Matches(rule, e)}
           missing == {Violation("missing", e, 0) :
                          e \in {x \in Entries(rule, RequiredKeys) : Hits(x) = {}}}
           Forbids(e) == {Violation("forbidden", e, lines[k].number) : k \in Hits(e)}
           forbidden == UNION {Forbids(e) : e \in Entries(rule, ForbiddenKeys)}
<1>1. Violations(rule, lines) = missing \cup forbidden
  BY Zenon DEF Violations
<1>2. ASSUME NEW e
      PROVE  /\ \A k \in Hits(e) : lines[k].number \in FoundAt(rule, e, s)
             /\ \A n \in FoundAt(rule, e, s) : \E k \in Hits(e) : lines[k].number = n
  BY HitsAreFound
<1> HIDE DEF lines, Hits
<1>3. \A v : v \in missing <=> \E e \in Entries(rule, RequiredKeys) :
                    FoundAt(rule, e, s) = {} /\ v = Violation("missing", e, 0)
  <2>1. \A e : Hits(e) = {} <=> FoundAt(rule, e, s) = {}
    BY <1>2
  <2> QED
    BY <2>1
<1>4. \A v, e : v \in Forbids(e) <=> \E n \in FoundAt(rule, e, s) :
                                        v = Violation("forbidden", e, n)
  BY <1>2
<1> HIDE DEF missing, Forbids
<1>5. \A v : v \in forbidden <=> \E e \in Entries(rule, ForbiddenKeys) : v \in Forbids(e)
  OBVIOUS
<1> HIDE DEF forbidden
<1> QED
  BY <1>1, <1>3, <1>4, <1>5 DEF lines

\* A rule passes when what it requires is found and what it forbids is not.
LEMMA VerdictIs ==
    ASSUME NEW s, NEW L \in Nat, DOMAIN s = 1..L, NEW rule
    PROVE  LET r == evaluate_rule(rule, config_lines(s))
           IN  /\ r.violations = Violations(rule, config_lines(s))
               /\ r.status = "pass" <=>
                     /\ \A e \in Entries(rule, RequiredKeys) : FoundAt(rule, e, s) # {}
                     /\ \A e \in Entries(rule, ForbiddenKeys) : FoundAt(rule, e, s) = {}
               /\ r.status # "pass" => r.status = "fail"
<1> DEFINE found == Violations(rule, config_lines(s))
           r == evaluate_rule(rule, config_lines(s))
<1>1. \A v : v \in found <=>
              \/ \E e \in Entries(rule, RequiredKeys) :
                    FoundAt(rule, e, s) = {} /\ v = Violation("missing", e, 0)
              \/ \E e \in Entries(rule, ForbiddenKeys) : \E n \in FoundAt(rule, e, s) :
                    v = Violation("forbidden", e, n)
  BY ViolationsAre
<1>2. /\ r.violations = found
      /\ r.status = IF found # {} THEN "fail" ELSE "pass"
  BY DEF evaluate_rule
<1> HIDE DEF found, r
<1>3. found = {} <=> /\ \A e \in Entries(rule, RequiredKeys) : FoundAt(rule, e, s) # {}
                     /\ \A e \in Entries(rule, ForbiddenKeys) : FoundAt(rule, e, s) = {}
  BY <1>1
<1> QED
  BY <1>2, <1>3 DEF found, r

\* White space is collapsed as described; a text is blank, or "!", if and only if it
\* was before, and a header is as it is.
LEMMA CollapseIs ==
    /\ \A t : collapse(t) = IF t \in {"   ip http server", "ip  http server"}
                            THEN "ip http server" ELSE t
    /\ \A t : collapse(t) \in {"", "!"} <=> t \in {"", "!"}
    /\ \A t \in VolatileTexts : collapse(t) = t
<1> DEFINE Spacy == {"   ip http server", "ip  http server"}
           Void == {"", "!"}
<1>1. \A t : collapse(t) = IF t \in Spacy THEN "ip http server" ELSE t
  BY DEF collapse, Spaced
<1>2. "ip http server" # "" /\ "ip http server" # "!"
  OBVIOUS
<1>3. /\ "   ip http server" # "" /\ "   ip http server" # "!"
      /\ "ip  http server" # "" /\ "ip  http server" # "!"
  OBVIOUS
<1>4. "ip http server" \notin Void /\ \A t \in Spacy : t \notin Void
  BY <1>2, <1>3, Zenon
<1>5. \A t \in VolatileTexts : t \notin Spacy
  BY DEF VolatileTexts
<1> HIDE DEF Spacy, Void
<1>6. \A t : collapse(t) \in Void <=> t \in Void
  BY <1>1, <1>4, Zenon
<1>7. \A t \in VolatileTexts : collapse(t) = t
  BY <1>1, <1>5, Zenon
<1> QED
  BY <1>1, <1>6, <1>7, Zenon DEF Spacy, Void

\* What a rule says of a text, and where it points in it, is as described.
LEMMA RuleAsDescribed == TypeOK => MatchesAsDescribed
<1> SUFFICES ASSUME TypeOK  PROVE MatchesAsDescribed
  OBVIOUS
<1> DEFINE Compact(t) == IF t \in {"   ip http server", "ip  http server"}
                         THEN "ip http server" ELSE t
           Is(rule, n, key, e) ==
              /\ config[n].text \notin {"", "!"}
              /\ IF key \in {"required", "forbidden"}
                 THEN Compact(config[n].text) = Compact(rule[key][e])
                 ELSE Compact(config[n].text) \in rule[key][e]
           R(rule) == evaluate_rule(rule, config_lines(config))
<1>0. Len(config) \in Nat /\ DOMAIN config = 1..Len(config)
  BY LenProperties DEF TypeOK
<1>v. ASSUME NEW rule
      PROVE  \A v : v \in Violations(rule, config_lines(config)) <=>
                \/ \E e \in Entries(rule, RequiredKeys) :
                      FoundAt(rule, e, config) = {} /\ v = Violation("missing", e, 0)
                \/ \E e \in Entries(rule, ForbiddenKeys) :
                      \E n \in FoundAt(rule, e, config) : v = Violation("forbidden", e, n)
  BY <1>0, ViolationsAre
<1>1. ASSUME NEW rule, NEW key, NEW e, NEW n \in DOMAIN config
      PROVE  Is(rule, n, key, e) <=> n \in FoundAt(rule, <<key, e>>, config)
  <2> DEFINE text == config[n].text
             value == rule[key][e]
             Own == key \in {"required", "forbidden"}
  <2>1. Is(rule, n, key, e) <=> /\ collapse(text) \notin {"", "!"}
                                /\ IF Own THEN collapse(text) = collapse(value)
                                          ELSE collapse(text) \in value
    BY CollapseIs, Zenon
  <2>2. <<key, e>>[1] = key /\ <<key, e>>[2] = e
    OBVIOUS
  <2>3. Matches(rule, <<key, e>>) = IF Own THEN {collapse(value)} ELSE value
    BY <2>2, Zenon DEF Matches
  <2>4. n \in FoundAt(rule, <<key, e>>, config)
           <=> /\ collapse(text) \notin {"", "!"}
               /\ collapse(text) \in Matches(rule, <<key, e>>)
    BY Zenon DEF FoundAt, Found, normalize_line
  <2> HIDE DEF Own, Is, text, value
  <2> QED
    BY <2>1, <2>3, <2>4, Zenon
<1>2. ASSUME NEW rule \in Rules
      PROVE  /\ R(rule).status = "pass" <=>
                   /\ \A key \in RequiredKeys : \A e \in DOMAIN rule[key] :
                         \E n \in DOMAIN config : Is(rule, n, key, e)
                   /\ \A key \in ForbiddenKeys : \A e \in DOMAIN rule[key] :
                         \A n \in DOMAIN config : ~Is(rule, n, key, e)
             /\ \A key \in ForbiddenKeys : \A e \in DOMAIN rule[key] :
                   {v.line_number : v \in {w \in R(rule).violations : w.entry = <<key, e>>}}
                      = {n \in DOMAIN config : Is(rule, n, key, e)}
  <2>0. \A x : FoundAt(rule, x, config) \subseteq DOMAIN config
    BY DEF FoundAt
  <2>1. \A key, e : FoundAt(rule, <<key, e>>, config)
                       = {n \in DOMAIN config : Is(rule, n, key, e)}
    <3> HIDE DEF Is
    <3> QED
      BY <1>1, <2>0
  <2> HIDE DEF Is
  <2>2. /\ R(rule).violations = Violations(rule, config_lines(config))
        /\ R(rule).status = "pass" <=>
              /\ \A e \in Entries(rule, RequiredKeys) : FoundAt(rule, e, config) # {}
              /\ \A e \in Entries(rule, ForbiddenKeys) : FoundAt(rule, e, config) = {}
    BY <1>0, VerdictIs
  <2>3. ASSUME NEW keys
        PROVE  \A e : e \in Entries(rule, keys)
                         <=> \E key \in keys : \E m \in DOMAIN rule[key] : e = <<key, m>>
    BY EntryIs
  <2> HIDE DEF R
  <2>4. R(rule).status = "pass" <=>
              /\ \A key \in RequiredKeys : \A e \in DOMAIN rule[key] :
                    \E n \in DOMAIN config : Is(rule, n, key, e)
              /\ \A key \in ForbiddenKeys : \A e \in DOMAIN rule[key] :
                    \A n \in DOMAIN config : ~Is(rule, n, key, e)
    <3> DEFINE Seen(e) == FoundAt(rule, e, config) # {}
    <3> HIDE DEF Seen
    <3>1. (\A e \in Entries(rule, RequiredKeys) : Seen(e))
             <=> \A key \in RequiredKeys : \A m \in DOMAIN rule[key] : Seen(<<key, m>>)
      BY <2>3
    <3>2. (\A e \in Entries(rule, ForbiddenKeys) : ~Seen(e))
             <=> \A key \in ForbiddenKeys : \A m \in DOMAIN rule[key] : ~Seen(<<key, m>>)
      BY <2>3
    <3>3. \A key, e : FoundAt(rule, <<key, e>>, config) # {}
                         <=> \E n \in DOMAIN config : Is(rule, n, key, e)
      BY <2>1
    <3> QED
      BY <2>2, <3>1, <3>2, <3>3, Zenon DEF Seen
  <2>5. ASSUME NEW key \in ForbiddenKeys, NEW e \in DOMAIN rule[key]
        PROVE  {v.line_number : v \in {w \in R(rule).violations : w.entry = <<key, e>>}}
                  = FoundAt(rule, <<key, e>>, config)
    <3> DEFINE entry == <<key, e>>
               V == Violations(rule, config_lines(config))
    <3>1. \A v : v \in V <=>
              \/ \E x \in Entries(rule, RequiredKeys) :
                    FoundAt(rule, x, config) = {} /\ v = Violation("missing", x, 0)
              \/ \E x \in Entries(rule, ForbiddenKeys) : \E n \in FoundAt(rule, x, config) :
                    v = Violation("forbidden", x, n)
      BY <1>v
    <3>2. \A kind, x, n : /\ Violation(kind, x, n).entry = x
                          /\ Violation(kind, x, n).line_number = n
      BY DEF Violation
    <3>3. entry \in Entries(rule, ForbiddenKeys)
      BY <2>3
    <3>4. entry \notin Entries(rule, RequiredKeys)
      <4>1. key \notin RequiredKeys
        BY DEF RequiredKeys, ForbiddenKeys
      <4> QED
        BY <2>3, <4>1
    <3> HIDE DEF entry, V
    <3>5. ASSUME NEW v \in V, v.entry = entry
          PROVE  v.line_number \in FoundAt(rule, entry, config)
      BY <3>1, <3>2, <3>4, <3>5
    <3>6. ASSUME NEW n \in FoundAt(rule, entry, config)
          PROVE  \E v \in V : v.entry = entry /\ v.line_number = n
      <4>1. Violation("forbidden", entry, n) \in V
        BY <3>1, <3>3
      <4> QED
        BY <3>2, <4>1
    <3>7. {v.line_number : v \in {w \in V : w.entry = entry}}
             = FoundAt(rule, entry, config)
      BY <3>5, <3>6
    <3> QED
      BY <2>2, <3>7 DEF entry, V
  <2> QED
    BY <2>1, <2>4, <2>5
<1> HIDE DEF R, Is
<1> QED
  BY <1>2, Zenon DEF MatchesAsDescribed, Is, R

\* On every text, every rule says what is described, and points at the very lines.
THEOREM MatchesTheorem == Spec => []MatchesAsDescribed
BY RuleAsDescribed, TypeCorrectness, PTL

\* Of two texts with the same normal form, a line of one that matters is one of the
\* other.
LEMMA SameLinesMatter ==
    ASSUME NEW s \in Seq(AllLines), NEW t \in Seq(AllLines), normalize(s) = normalize(t),
           NEW n \in DOMAIN s, Matters(s[n])
    PROVE  \E m \in DOMAIN t : t[m].text = s[n].text
<1> DEFINE x == s[n].text
<1>1. DOMAIN s = 1..Len(s) /\ DOMAIN t = 1..Len(t) /\ s[n] \in AllLines
  BY LenProperties
<1>2. Cardinality(Having(s, x)) = Cardinality(Having(t, x))
  BY <1>1, SameCounts
<1>3. n \in Having(s, x)
  BY <1>1 DEF Having
<1>4. IsFiniteSet(Having(s, x)) /\ IsFiniteSet(Having(t, x))
  BY HavingIsFinite
<1> HIDE DEF x
<1>5. Having(t, x) # {}
  BY <1>2, <1>3, <1>4, FS_EmptySet
<1>6. \E m \in 1..Len(t) : t[m].text = x
  BY <1>5 DEF Having
<1> QED
  BY <1>1, <1>6 DEF x

\* What an entry that is about no header finds in one, it finds in the other.
LEMMA SameFound ==
    ASSUME NEW s \in Seq(AllLines), NEW t \in Seq(AllLines), normalize(s) = normalize(t),
           NEW rule, NEW entry, Matches(rule, entry) \cap VolatileTexts = {},
           FoundAt(rule, entry, s) # {}
    PROVE  FoundAt(rule, entry, t) # {}
<1>1. PICK n \in DOMAIN s : Found(rule, entry, s[n])
  BY DEF FoundAt
<1>2. /\ collapse(s[n].text) \notin {"", "!"}
      /\ collapse(s[n].text) \in Matches(rule, entry)
  BY <1>1, Zenon DEF Found, normalize_line
<1>3. s[n].text \notin VolatileTexts
  BY <1>2, CollapseIs, Zenon
<1>4. s[n].text # ""
  BY <1>2, CollapseIs, Zenon
<1>5. Matters(s[n])
  BY <1>3, <1>4, Zenon DEF Matters
<1>6. PICK m \in DOMAIN t : t[m].text = s[n].text
  BY <1>5, SameLinesMatter
<1>7. Found(rule, entry, t[m])
  BY <1>2, <1>6, Zenon DEF Found, normalize_line
<1> QED
  BY <1>7 DEF FoundAt

\* The rules about no header say the same of texts with the same normal form.
LEMMA SameVerdicts ==
    ASSUME NEW s \in Seq(AllLines), NEW t \in Seq(AllLines), normalize(s) = normalize(t)
    PROVE  Verdicts(s) = Verdicts(t)
<1>1. ASSUME NEW rule \in SteadyRules
      PROVE  evaluate_rule(rule, config_lines(s)).status
                = evaluate_rule(rule, config_lines(t)).status
  <2>1. \A e : e \in Entries(rule, RequiredKeys) \/ e \in Entries(rule, ForbiddenKeys)
                 => e \in Entries(rule, MATCH_KEYS)
    BY EntryIs DEF MATCH_KEYS
  <2>2. \A e \in Entries(rule, MATCH_KEYS) : Matches(rule, e) \cap VolatileTexts = {}
    BY DEF SteadyRules
  <2>3. \A e \in Entries(rule, MATCH_KEYS) :
           FoundAt(rule, e, s) = {} <=> FoundAt(rule, e, t) = {}
    BY <2>2, SameFound
  <2> DEFINE Passes(u) == /\ \A e \in Entries(rule, RequiredKeys) : FoundAt(rule, e, u) # {}
                          /\ \A e \in Entries(rule, ForbiddenKeys) : FoundAt(rule, e, u) = {}
  <2>4. Passes(s) <=> Passes(t)
    BY <2>1, <2>3
  <2>5. /\ evaluate_rule(rule, config_lines(s)).status = "pass" <=> Passes(s)
        /\ evaluate_rule(rule, config_lines(s)).status # "pass"
              => evaluate_rule(rule, config_lines(s)).status = "fail"
    <3>1. Len(s) \in Nat /\ DOMAIN s = 1..Len(s)
      BY LenProperties
    <3> QED
      BY <3>1, VerdictIs
  <2>6. /\ evaluate_rule(rule, config_lines(t)).status = "pass" <=> Passes(t)
        /\ evaluate_rule(rule, config_lines(t)).status # "pass"
              => evaluate_rule(rule, config_lines(t)).status = "fail"
    <3>1. Len(t) \in Nat /\ DOMAIN t = 1..Len(t)
      BY LenProperties
    <3> QED
      BY <3>1, VerdictIs
  <2> HIDE DEF Passes
  <2> QED
    BY <2>4, <2>5, <2>6
<1> QED
  BY <1>1 DEF Verdicts

\* So what a rule says of the stored file is what it would say of the capture.
LEMMA StoredIsCurrent == TypeOK => StoredAuditIsCurrent
<1> SUFFICES ASSUME TypeOK  PROVE StoredAuditIsCurrent
  OBVIOUS
<1> DEFINE Current(capture) == normalize(capture) = normalize(config)
                                  => Verdicts(capture) = Verdicts(config)
<1>1. config \in Seq(AllLines)
  BY LinesAreLines DEF TypeOK
<1>2. \A variant : Recaptured(variant) => Current(variant)
  BY <1>1, SameVerdicts DEF Recaptured
<1> HIDE DEF Current
<1>3. EveryRecapture(Current)
  BY <1>2, RecapturesAre, Zenon DEF EveryRecapture
<1> QED
  BY <1>3, Zenon DEF StoredAuditIsCurrent, Current

\* Whatever the text and the rules, those about no header say the same of every other
\* capture of the same configuration.
THEOREM StoredAuditTheorem == Spec => []StoredAuditIsCurrent
BY StoredIsCurrent, TypeCorrectness, PTL

\* A rule that is accepted fails on no text at all, or on every text with one more line
\* that it forbids.
LEMMA AcceptedRuleFails == TypeOK => RulesCanFail
<1> SUFFICES ASSUME TypeOK, NEW rule \in Rules, DefinesChecks(rule)
             PROVE  \/ Verdict(rule, << >>) = "fail"
                    \/ /\ Entries(rule, ForbiddenKeys) # {}
                       /\ \A entry \in Entries(rule, ForbiddenKeys) :
                             \A t \in Findable(rule, entry) :
                                Verdict(rule, Append(config, Plain(t))) = "fail"
  BY Zenon DEF RulesCanFail
<1>1. PICK key \in MATCH_KEYS : rule[key] # << >>
  BY DEF DefinesChecks
<1>2. \E n \in DOMAIN rule[key] : TRUE
  <2>1. IsList(rule[key])
    BY TextsAssumption
  <2>2. Len(rule[key]) # 0 /\ Len(rule[key]) \in Nat
    BY <1>1, <2>1, EmptySeq, LenProperties DEF IsList
  <2>3. 1 \in DOMAIN rule[key]
    BY <2>1, <2>2, ListPlaces
  <2> QED
    BY <2>3
<1>3. key \in RequiredKeys \/ key \in ForbiddenKeys
  BY DEF MATCH_KEYS
<1>4. CASE key \in RequiredKeys
  <2> DEFINE none == << >>
  <2>1. \E e : e \in Entries(rule, RequiredKeys)
    <3>1. PICK n \in DOMAIN rule[key] : TRUE
      BY <1>2
    <3>2. <<key, n>> \in Entries(rule, RequiredKeys)
      BY <1>4, <3>1, EntryIs
    <3> QED
      BY <3>2
  <2>2. DOMAIN none = 1..0 /\ \A e : FoundAt(rule, e, none) = {}
    BY DEF FoundAt
  <2> HIDE DEF none
  <2>3. /\ evaluate_rule(rule, config_lines(none)).status # "pass"
        /\ evaluate_rule(rule, config_lines(none)).status # "pass"
              => evaluate_rule(rule, config_lines(none)).status = "fail"
    <3>1. 0 \in Nat
      OBVIOUS
    <3> QED
      BY <2>1, <2>2, <3>1, VerdictIs
  <2>4. Verdict(rule, none) = "fail"
    BY <2>3 DEF Verdict
  <2> QED
    BY <2>4 DEF none
<1>5. CASE key \in ForbiddenKeys
  <2>1. Entries(rule, ForbiddenKeys) # {}
    <3>1. PICK n \in DOMAIN rule[key] : TRUE
      BY <1>2
    <3>2. <<key, n>> \in Entries(rule, ForbiddenKeys)
      BY <1>5, <3>1, EntryIs
    <3> QED
      BY <3>2
  <2>2. ASSUME NEW entry \in Entries(rule, ForbiddenKeys), NEW t \in Findable(rule, entry)
        PROVE  Verdict(rule, Append(config, Plain(t))) = "fail"
    <3> DEFINE s == Append(config, Plain(t))
               L == Len(config) + 1
    <3>1. t \in Matches(rule, entry) /\ t \notin {"", "!"} /\ collapse(t) = t
      BY Zenon DEF Findable
    <3>2. L \in Nat /\ DOMAIN s = 1..L /\ s[L] = Plain(t)
      <4> DEFINE S == Lines \cup {Plain(t)}
      <4>1. config \in Seq(S) /\ Plain(t) \in S
        BY SeqMonotonic DEF TypeOK
      <4> HIDE DEF S
      <4>2. /\ s \in Seq(S) /\ Len(s) = L /\ s[L] = Plain(t) /\ Len(config) \in Nat
        BY <4>1, AppendProperties, LenProperties
      <4> HIDE DEF s
      <4> QED
        BY <4>2, LenProperties
    <3> HIDE DEF s, L
    <3>3. Found(rule, entry, s[L])
      BY <3>1, <3>2, LineFields, Zenon DEF Found, normalize_line
    <3>4. FoundAt(rule, entry, s) # {}
      <4>1. L \in DOMAIN s
        BY <3>2 DEF L
      <4> QED
        BY <3>3, <4>1 DEF FoundAt
    <3>5. evaluate_rule(rule, config_lines(s)).status = "fail"
      BY <3>2, <3>4, VerdictIs
    <3> QED
      BY <3>5 DEF Verdict, s
  <2> QED
    BY <2>1, <2>2
<1> QED
  BY <1>3, <1>4, <1>5

\* Whatever the text and the rules, a rule that load_golden accepts can fail.
THEOREM RulesTheorem == Spec => []RulesCanFail
BY AcceptedRuleFails, TypeCorrectness, PTL
=============================================================================
