----------------------------- MODULE ListProofs -----------------------------
(***************************************************************************)
(* What the lists and the sums of Lists are, for any lists and places, and  *)
(* any function: the lemmas that the proofs about texts, about audits and   *)
(* about the command line rest on.                                          *)
(***************************************************************************)
EXTENDS Lists, FiniteSetTheorems, SequenceTheorems, TLAPS

-----------------------------------------------------------------------------
(* The places of a part of a list.                                           *)

\* How many of the places come before one, and the k-th of them.
Before(places, n) == Cardinality({m \in places : m < n})
Place(places, k)  == CHOOSE n \in places : Before(places, n) = k - 1

\* Every number below that of the places is the number of those before one of them,
\* and a place has more of them before it than an earlier one.
LEMMA PlacesAreNumbered ==
    ASSUME NEW L \in Nat, NEW places \in SUBSET (1..L)
    PROVE  /\ IsFiniteSet(places) /\ Cardinality(places) \in Nat
           /\ \A n \in places : Before(places, n) \in 0..(Cardinality(places) - 1)
           /\ \A m, n \in places : m < n => Before(places, m) < Before(places, n)
           /\ \A k \in 1..Cardinality(places) :
                 \E n \in places : Before(places, n) = k - 1
<1> DEFINE c == Cardinality(places)
           Under(n) == {m \in places : m < n}
           f == [n \in places |-> Before(places, n)]
<1>0. \A n \in places : n \in Nat
  OBVIOUS
<1>1. IsFiniteSet(places) /\ c \in Nat
  <2>1. IsFiniteSet(1..L)
    BY FS_Interval
  <2> QED
    BY <2>1, FS_Subset, FS_CardinalityType
<1>2. \A n \in places : IsFiniteSet(Under(n)) /\ Cardinality(Under(n)) \in Nat
  <2>1. \A n \in places : Under(n) \in SUBSET places
    OBVIOUS
  <2> QED
    BY <1>1, <2>1, FS_Subset, FS_CardinalityType
<1>3. \A n \in places : Before(places, n) \in 0..(c - 1)
  <2>1. TAKE n \in places
  <2>2. Under(n) \in SUBSET (places \ {n})
    OBVIOUS
  <2>3. IsFiniteSet(places \ {n}) /\ Cardinality(places \ {n}) = c - 1
    BY <1>1, FS_RemoveElement
  <2>4. Cardinality(Under(n)) <= c - 1
    BY <2>2, <2>3, FS_Subset
  <2> QED
    BY <1>1, <1>2, <2>4 DEF Before
<1>4. \A m, n \in places : m < n => Before(places, m) < Before(places, n)
  <2>1. SUFFICES ASSUME NEW m \in places, NEW n \in places, m < n
                 PROVE  Cardinality(Under(m)) < Cardinality(Under(n))
    BY DEF Before
  <2>2. Under(m) \cup {m} \in SUBSET Under(n)
    <3>1. m \in Nat /\ n \in Nat
      BY <1>0
    <3>2. \A x \in places : x < m => x < n
      BY <1>0, <2>1, <3>1
    <3> QED
      BY <2>1, <3>2
  <2>3. Cardinality(Under(m) \cup {m}) = Cardinality(Under(m)) + 1
    BY <1>2, FS_AddElement
  <2>4. Cardinality(Under(m) \cup {m}) <= Cardinality(Under(n))
    BY <1>2, <2>2, FS_Subset
  <2> QED
    BY <1>2, <2>3, <2>4
<1>5. f \in Injection(places, 0..(c - 1))
  <2>1. f \in [places -> 0..(c - 1)]
    BY <1>3
  <2>2. \A m, n \in places : f[m] = f[n] => m = n
    BY <1>3, <1>4
  <2> QED
    BY <2>1, <2>2 DEF Injection, IsInjective
<1>6. f \in Surjection(places, 0..(c - 1))
  <2>1. IsFiniteSet(0..(c - 1)) /\ Cardinality(0..(c - 1)) = c
    BY <1>1, FS_Interval
  <2> HIDE DEF f
  <2> QED
    BY <1>5, <2>1, FS_Injection
<1>7. ASSUME NEW k \in 1..c PROVE \E n \in places : Before(places, n) = k - 1
  <2>1. k - 1 \in 0..(c - 1)
    BY <1>1
  <2>2. \E n \in places : f[n] = k - 1
    BY <1>6, <2>1 DEF Surjection
  <2> QED
    BY <2>2
<1> QED
  BY <1>1, <1>3, <1>4, <1>7

\* The k-th place is one of them, each is the k-th for one k, and they are in order.
LEMMA PlacesInOrder ==
    ASSUME NEW L \in Nat, NEW places \in SUBSET (1..L)
    PROVE  /\ Cardinality(places) \in Nat
           /\ \A k \in 1..Cardinality(places) : Place(places, k) \in places
           /\ \A n \in places : \E k \in 1..Cardinality(places) : Place(places, k) = n
           /\ \A j, k \in 1..Cardinality(places) : j < k => Place(places, j) < Place(places, k)
<1> DEFINE c == Cardinality(places)
<1>0. \A n \in places : n \in Nat
  OBVIOUS
<1>1. /\ c \in Nat
      /\ \A n \in places : Before(places, n) \in 0..(c - 1)
      /\ \A m, n \in places : m < n => Before(places, m) < Before(places, n)
  BY PlacesAreNumbered
<1>2. \A k \in 1..c : Place(places, k) \in places /\ Before(places, Place(places, k)) = k - 1
  BY PlacesAreNumbered DEF Place
<1>3. \A n \in places : \E k \in 1..c : Place(places, k) = n
  <2>1. TAKE n \in places
  <2>2. Before(places, n) + 1 \in 1..c
    BY <1>1
  <2>3. /\ Place(places, Before(places, n) + 1) \in places
        /\ Before(places, Place(places, Before(places, n) + 1)) = Before(places, n)
    BY <1>1, <1>2, <2>2
  <2>4. ASSUME NEW m \in places, Before(places, m) = Before(places, n)  PROVE m = n
    <3>1. m \in Nat /\ n \in Nat /\ ~(m < n) /\ ~(n < m)
      BY <1>0, <1>1, <2>4
    <3> QED
      BY <3>1
  <2> QED
    BY <2>2, <2>3, <2>4
<1>4. ASSUME NEW j \in 1..c, NEW k \in 1..c, j < k
      PROVE  Place(places, j) < Place(places, k)
  <2>1. Place(places, j) \in places /\ Place(places, k) \in places
    BY <1>2
  <2>2. Before(places, Place(places, j)) < Before(places, Place(places, k))
    BY <1>1, <1>2, <1>4
  <2>3. Place(places, j) \in Nat /\ Place(places, k) \in Nat
    BY <1>0, <2>1
  <2>4. CASE Place(places, k) < Place(places, j)
    BY <1>1, <2>1, <2>2, <2>3, <2>4
  <2>5. CASE Place(places, k) = Place(places, j)
    BY <1>1, <2>1, <2>2, <2>3, <2>5
  <2> QED
    BY <2>3, <2>4, <2>5
<1> QED
  BY <1>1, <1>2, <1>3, <1>4

\* A part of a list is a list of as many elements as it takes places, the k-th being
\* the one at the k-th of these places.
LEMMA SublistTakes ==
    ASSUME NEW list, NEW places
    PROVE  /\ DOMAIN Sublist(list, places) = 1..Cardinality(places)
           /\ \A k \in 1..Cardinality(places) :
                 Sublist(list, places)[k] = list[Place(places, k)]
BY DEF Sublist, Place, Before

\* A list has the places from 1 on, as many as its length.
LEMMA ListPlaces ==
    ASSUME NEW list, IsList(list)
    PROVE  Len(list) \in Nat /\ DOMAIN list = 1..Len(list)
BY LenProperties DEF IsList

\* As many values as there are arguments that they are of.
LEMMA OneToOne ==
    ASSUME NEW S, NEW T, IsFiniteSet(S), NEW f \in [S -> T],
           \A x, y \in S : f[x] = f[y] => x = y,
           \A y \in T : \E x \in S : f[x] = y
    PROVE  IsFiniteSet(T) /\ Cardinality(T) = Cardinality(S)
<1>1. f \in Injection(S, T)
  BY DEF Injection, IsInjective
<1>2. f \in Surjection(S, T)
  BY DEF Surjection
<1>3. ExistsBijection(S, T)
  BY <1>1, <1>2 DEF ExistsBijection, Bijection
<1> QED
  BY <1>3, FS_Bijection

\* A function of finitely many arguments has finitely many values.
LEMMA ImageIsFinite ==
    ASSUME NEW S, IsFiniteSet(S), NEW f, DOMAIN f = S
    PROVE  IsFiniteSet({f[x] : x \in S})
<1> DEFINE T == {f[x] : x \in S}
           g == [x \in S |-> f[x]]
<1>1. g \in Surjection(S, T)
  BY DEF Surjection
<1> HIDE DEF g, T
<1>2. IsFiniteSet(T)
  BY <1>1, FS_Surjection
<1> QED
  BY <1>2 DEF T

\* Places of some list, however long.
IsPlaces(places) == \E L \in Nat : places \in SUBSET (1..L)

\* They are finitely many numbers, and so are a part of them.
LEMMA PlacesType ==
    ASSUME NEW P, IsPlaces(P)
    PROVE  /\ P \subseteq Nat \ {0} /\ IsFiniteSet(P) /\ Cardinality(P) \in Nat
           /\ \A Q \in SUBSET P : IsPlaces(Q)
<1>1. PICK L \in Nat : P \in SUBSET (1..L)
  BY DEF IsPlaces
<1>2. IsFiniteSet(P) /\ Cardinality(P) \in Nat
  BY <1>1, PlacesAreNumbered
<1>3. ASSUME NEW Q \in SUBSET P  PROVE IsPlaces(Q)
  <2>1. Q \in SUBSET (1..L)
    BY <1>1
  <2> QED
    BY <2>1 DEF IsPlaces
<1> QED
  BY <1>1, <1>2, <1>3

\* A place is the one with its number, and its number is how many come before it.
LEMMA PlaceOfNumber ==
    ASSUME NEW places, IsPlaces(places)
    PROVE  /\ \A k \in 1..Cardinality(places) :
                 Place(places, k) \in places /\ Before(places, Place(places, k)) = k - 1
           /\ \A n \in places : /\ Before(places, n) + 1 \in 1..Cardinality(places)
                                /\ Place(places, Before(places, n) + 1) = n
<1> PICK L \in Nat : places \in SUBSET (1..L)
  BY DEF IsPlaces
<1>1. \A k \in 1..Cardinality(places) :
         Place(places, k) \in places /\ Before(places, Place(places, k)) = k - 1
  BY PlacesAreNumbered DEF Place
<1>2. ASSUME NEW n \in places
      PROVE  /\ Before(places, n) + 1 \in 1..Cardinality(places)
             /\ Place(places, Before(places, n) + 1) = n
  <2>1. Cardinality(places) \in Nat /\ Before(places, n) \in 0..(Cardinality(places) - 1)
    BY PlacesAreNumbered
  <2>2. PICK k \in 1..Cardinality(places) : Place(places, k) = n
    BY PlacesInOrder
  <2>3. Before(places, n) + 1 = k
    BY <1>1, <2>1, <2>2
  <2> QED
    BY <2>2, <2>3
<1> QED
  BY <1>1, <1>2

\* A map that keeps the order strictly keeps it both ways.
LEMMA OrderKept ==
    ASSUME NEW P \in SUBSET Nat, NEW Q \in SUBSET Nat, NEW h \in [P -> Q],
           \A m, n \in P : m < n => h[m] < h[n]
    PROVE  /\ \A m, n \in P : m <= n <=> h[m] <= h[n]
           /\ \A m, n \in P : h[m] < h[n] => m < n
           /\ \A m, n \in P : h[m] = h[n] => m = n
<1>1. SUFFICES ASSUME NEW m \in P, NEW n \in P
               PROVE  /\ m <= n <=> h[m] <= h[n]
                      /\ h[m] < h[n] => m < n
                      /\ h[m] = h[n] => m = n
  OBVIOUS
<1>2. m \in Nat /\ n \in Nat /\ h[m] \in Nat /\ h[n] \in Nat
  OBVIOUS
<1>3. CASE m < n
  BY <1>2, <1>3
<1>4. CASE m = n
  BY <1>2, <1>4
<1>5. CASE n < m
  BY <1>2, <1>5
<1> QED
  BY <1>2, <1>3, <1>4, <1>5

\* Places that correspond in their order are as many, the k-th to the k-th.
LEMMA PlacesMoved ==
    ASSUME NEW P, IsPlaces(P), NEW Q, IsPlaces(Q), NEW h \in [P -> Q],
           \A m, n \in P : m < n => h[m] < h[n],
           \A q \in Q : \E n \in P : h[n] = q
    PROVE  /\ Cardinality(P) = Cardinality(Q)
           /\ \A k \in 1..Cardinality(P) : h[Place(P, k)] = Place(Q, k)
<1>0. /\ \A n \in P : n \in Nat /\ h[n] \in Q
      /\ \A q \in Q : q \in Nat
  BY PlacesType
<1>1. /\ \A m, n \in P : h[m] < h[n] => m < n
      /\ \A m, n \in P : h[m] = h[n] => m = n
  <2>1. P \in SUBSET Nat /\ Q \in SUBSET Nat
    BY <1>0
  <2> QED
    BY <2>1, OrderKept
<1>3. IsFiniteSet(P) /\ Cardinality(P) \in Nat
  BY PlacesType
<1>4. Cardinality(P) = Cardinality(Q)
  BY <1>1, <1>3, OneToOne
<1>5. ASSUME NEW n \in P  PROVE Before(Q, h[n]) = Before(P, n)
  <2> DEFINE S == {m \in P : m < n}
             T == {q \in Q : q < h[n]}
             f == [m \in S |-> h[m]]
  <2>1. IsFiniteSet(S)
    <3>1. S \in SUBSET P
      OBVIOUS
    <3> QED
      BY <1>3, <3>1, FS_Subset
  <2>2. f \in [S -> T]
    BY <1>0
  <2>3. \A x, y \in S : f[x] = f[y] => x = y
    BY <1>1
  <2>4. ASSUME NEW y \in T  PROVE \E x \in S : f[x] = y
    <3>1. PICK x \in P : h[x] = y
      OBVIOUS
    <3>2. x \in S
      BY <1>1, <3>1
    <3> QED
      BY <3>1, <3>2
  <2> HIDE DEF S, T, f
  <2>5. Cardinality(T) = Cardinality(S)
    BY <2>1, <2>2, <2>3, <2>4, OneToOne
  <2> QED
    BY <2>5 DEF Before, S, T
<1>6. ASSUME NEW k \in 1..Cardinality(P)  PROVE h[Place(P, k)] = Place(Q, k)
  <2>1. Place(P, k) \in P /\ Before(P, Place(P, k)) = k - 1
    BY PlaceOfNumber
  <2>2. h[Place(P, k)] \in Q /\ Before(Q, h[Place(P, k)]) = k - 1
    BY <1>0, <1>5, <2>1
  <2>3. Place(Q, Before(Q, h[Place(P, k)]) + 1) = h[Place(P, k)]
    BY <2>2, PlaceOfNumber
  <2>4. (k - 1) + 1 = k
    OBVIOUS
  <2> QED
    BY <2>2, <2>3, <2>4
<1> QED
  BY <1>4, <1>6

\* The parts of two lists at some places correspond by a map of the places.
Corresponds(a, P, b, Q, h) ==
    /\ h \in [P -> Q]
    /\ \A m, n \in P : m < n => h[m] < h[n]
    /\ \A q \in Q : \E n \in P : h[n] = q
    /\ \A n \in P : a[n] = b[h[n]]

\* Such parts of two lists are equal.
LEMMA SublistMoved ==
    ASSUME NEW P, IsPlaces(P), NEW a, NEW Q, IsPlaces(Q), NEW b, NEW h,
           Corresponds(a, P, b, Q, h)
    PROVE  Sublist(a, P) = Sublist(b, Q)
<1>0. /\ h \in [P -> Q]
      /\ \A m, n \in P : m < n => h[m] < h[n]
      /\ \A q \in Q : \E n \in P : h[n] = q
      /\ \A n \in P : a[n] = b[h[n]]
  BY DEF Corresponds
<1>1. /\ Cardinality(P) = Cardinality(Q)
      /\ \A k \in 1..Cardinality(P) : h[Place(P, k)] = Place(Q, k)
  BY <1>0, PlacesMoved
<1>2. ASSUME NEW k \in 1..Cardinality(P)  PROVE a[Place(P, k)] = b[Place(Q, k)]
  <2>1. Place(P, k) \in P
    BY PlaceOfNumber
  <2>2. h[Place(P, k)] = Place(Q, k)
    BY <1>1
  <2> QED
    BY <1>0, <2>1, <2>2
<1>3. /\ Sublist(a, P) = [k \in 1..Cardinality(P) |-> a[Place(P, k)]]
      /\ Sublist(b, Q) = [k \in 1..Cardinality(Q) |-> b[Place(Q, k)]]
  BY DEF Sublist, Place, Before
<1> QED
  BY <1>1, <1>2, <1>3

\* The part of a list at some places is that of another list that is equal there.
LEMMA SublistSame ==
    ASSUME NEW P, IsPlaces(P), NEW a, NEW b,
           \A n \in P : a[n] = b[n]
    PROVE  Sublist(a, P) = Sublist(b, P)
<1>1. \A k \in 1..Cardinality(P) : a[Place(P, k)] = b[Place(P, k)]
  BY PlaceOfNumber
<1>2. /\ Sublist(a, P) = [k \in 1..Cardinality(P) |-> a[Place(P, k)]]
      /\ Sublist(b, P) = [k \in 1..Cardinality(P) |-> b[Place(P, k)]]
  BY DEF Sublist, Place, Before
<1> QED
  BY <1>1, <1>2

\* A part of a list is a list of the elements it takes, and has them all.
LEMMA SublistElements ==
    ASSUME NEW P, IsPlaces(P), NEW list
    PROVE  /\ {Sublist(list, P)[k] : k \in DOMAIN Sublist(list, P)} = {list[n] : n \in P}
           /\ \A S : (\A n \in P : list[n] \in S) => Sublist(list, P) \in Seq(S)
           /\ Len(Sublist(list, P)) = Cardinality(P)
           /\ Cardinality(P) \in Nat
<1> PICK L \in Nat : P \in SUBSET (1..L)
  BY DEF IsPlaces
<1> DEFINE c == Cardinality(P)
<1>1. Sublist(list, P) = [k \in 1..c |-> list[Place(P, k)]]
  BY DEF Sublist, Place, Before
<1>2. /\ c \in Nat
      /\ \A k \in 1..c : Place(P, k) \in P
      /\ \A n \in P : \E k \in 1..c : Place(P, k) = n
  BY PlacesInOrder
<1>3. {Sublist(list, P)[k] : k \in DOMAIN Sublist(list, P)} = {list[n] : n \in P}
  <2>1. /\ DOMAIN Sublist(list, P) = 1..c
        /\ \A k \in 1..c : Sublist(list, P)[k] = list[Place(P, k)]
    BY <1>1
  <2>2. ASSUME NEW n \in P
        PROVE  \E k \in DOMAIN Sublist(list, P) : Sublist(list, P)[k] = list[n]
    BY <1>2, <2>1
  <2>3. ASSUME NEW k \in DOMAIN Sublist(list, P)
        PROVE  \E n \in P : Sublist(list, P)[k] = list[n]
    BY <1>2, <2>1
  <2> QED
    BY <2>2, <2>3
<1>4. ASSUME NEW S, \A n \in P : list[n] \in S  PROVE Sublist(list, P) \in Seq(S)
  <2>1. Sublist(list, P) \in [1..c -> S]
    BY <1>1, <1>2, <1>4
  <2> QED
    BY <1>2, <2>1, SeqDef
<1>5. Len(Sublist(list, P)) = c
  BY <1>1, <1>2
<1> QED
  BY <1>2, <1>3, <1>4, <1>5

\* So each element of the part is one of the list, and it has each it takes.
LEMMA SublistHas ==
    ASSUME NEW P, IsPlaces(P), NEW list
    PROVE  /\ \A k \in DOMAIN Sublist(list, P) : \E n \in P : Sublist(list, P)[k] = list[n]
           /\ \A n \in P : \E k \in DOMAIN Sublist(list, P) : Sublist(list, P)[k] = list[n]
<1> PICK L \in Nat : P \in SUBSET (1..L)
  BY DEF IsPlaces
<1>1. /\ \A k \in 1..Cardinality(P) : Place(P, k) \in P
      /\ \A n \in P : \E k \in 1..Cardinality(P) : Place(P, k) = n
  BY PlacesInOrder
<1>2. /\ DOMAIN Sublist(list, P) = 1..Cardinality(P)
      /\ \A k \in 1..Cardinality(P) : Sublist(list, P)[k] = list[Place(P, k)]
  BY SublistTakes
<1> QED
  BY <1>1, <1>2

\* How many elements of a list are of one sort, at some places.
Tally(list, places, sort) == Cardinality({n \in places : list[n] \in sort})

\* A part of a list has as many of one sort as the list at its places.
LEMMA SublistCount ==
    ASSUME NEW P, IsPlaces(P), NEW list, NEW sort
    PROVE  /\ Tally(Sublist(list, P), DOMAIN Sublist(list, P), sort) = Tally(list, P, sort)
           /\ Tally(list, P, sort) \in Nat
<1> PICK L \in Nat : P \in SUBSET (1..L)
  BY DEF IsPlaces
<1> DEFINE c == Cardinality(P)
           S == {k \in 1..c : list[Place(P, k)] \in sort}
           T == {n \in P : list[n] \in sort}
           f == [k \in S |-> Place(P, k)]
<1>1. /\ DOMAIN Sublist(list, P) = 1..c
      /\ \A k \in 1..c : Sublist(list, P)[k] = list[Place(P, k)]
  BY SublistTakes
<1>2. {k \in DOMAIN Sublist(list, P) : Sublist(list, P)[k] \in sort} = S
  BY <1>1
<1>3. /\ c \in Nat
      /\ \A k \in 1..c : Place(P, k) \in P
      /\ \A n \in P : \E k \in 1..c : Place(P, k) = n
      /\ \A j, k \in 1..c : j < k => Place(P, j) < Place(P, k)
  BY PlacesInOrder
<1>4. IsFiniteSet(S) /\ Cardinality(S) \in Nat
  <2>1. IsFiniteSet(1..c) /\ S \in SUBSET (1..c)
    BY <1>3, FS_Interval
  <2> QED
    BY <2>1, FS_Subset, FS_CardinalityType
<1>5. f \in [S -> T]
  BY <1>3
<1>6. ASSUME NEW x \in S, NEW y \in S, f[x] = f[y]  PROVE x = y
  <2>1. x \in 1..c /\ y \in 1..c /\ Place(P, x) = Place(P, y)
    BY <1>6
  <2>2. Place(P, x) \in Nat /\ ~(Place(P, x) < Place(P, x))
    <3>1. Place(P, x) \in 1..L
      BY <1>3, <2>1
    <3> QED
      BY <3>1
  <2>3. ~(x < y) /\ ~(y < x)
    BY <1>3, <2>1, <2>2
  <2> QED
    BY <2>1, <2>3
<1>7. \A n \in T : \E k \in S : f[k] = n
  BY <1>3
<1> HIDE DEF S, T, f, c
<1>8. Cardinality(T) = Cardinality(S)
  BY <1>4, <1>5, <1>6, <1>7, OneToOne
<1> QED
  BY <1>2, <1>4, <1>8 DEF T, Tally

\* Places that are all those of a set between the first and the last of them are next
\* to each other in it.
LEMMA PlacesBetween ==
    ASSUME NEW P, IsPlaces(P), NEW Q \in SUBSET P, Q # {},
           \A n \in P : (\E i, j \in Q : i <= n /\ n <= j) => n \in Q
    PROVE  \E b \in Nat :
              /\ b + Cardinality(Q) <= Cardinality(P)
              /\ \A k \in 1..Cardinality(Q) : Place(Q, k) = Place(P, b + k)
              /\ \A k \in 1..Cardinality(P) :
                    Place(P, k) \in Q => b + 1 <= k /\ k <= b + Cardinality(Q)
<1>0. IsPlaces(Q) /\ \A n \in P : n \in Nat
  BY PlacesType
<1>1. /\ IsFiniteSet(P) /\ Cardinality(P) \in Nat
      /\ IsFiniteSet(Q) /\ Cardinality(Q) \in Nat
      /\ \A n \in P : Before(P, n) \in 0..(Cardinality(P) - 1)
      /\ \A n \in Q : Before(Q, n) \in 0..(Cardinality(Q) - 1)
      /\ \A m, n \in Q : m < n => Before(Q, m) < Before(Q, n)
  <2>1. PICK L \in Nat : P \in SUBSET (1..L)
    BY DEF IsPlaces
  <2>2. Q \in SUBSET (1..L)
    BY <2>1
  <2> QED
    BY <2>1, <2>2, PlacesAreNumbered
<1>2. 1 \in 1..Cardinality(Q)
  <2>1. Cardinality(Q) # 0
    BY <1>1, FS_EmptySet
  <2> QED
    BY <1>1, <2>1
<1> DEFINE first == Place(Q, 1)
           b == Before(P, first)
<1>3. first \in Q /\ Before(Q, first) = 0
  BY <1>0, <1>2, PlaceOfNumber
<1>4. ASSUME NEW n \in Q  PROVE first <= n
  <2> HIDE DEF first
  <2>0. n \in Nat /\ first \in Nat
    BY <1>0, <1>3
  <2>1. SUFFICES ASSUME n < first  PROVE FALSE
    BY <2>0
  <2>2. Before(Q, n) < Before(Q, first)
    BY <1>1, <1>3, <2>1
  <2> QED
    BY <1>1, <1>3, <2>2
<1> HIDE DEF first
<1>5. ASSUME NEW n \in Q  PROVE Before(P, n) = b + Before(Q, n)
  <2> DEFINE S == {m \in P : m < first}
             T == {m \in Q : m < n}
  <2>1. {m \in P : m < n} = S \cup T
    <3>1. first <= n /\ n \in Nat /\ first \in Nat
      BY <1>0, <1>3, <1>4
    <3>2. ASSUME NEW m \in P, m < n, ~(m < first)  PROVE m \in Q
      <4>1. m \in Nat /\ first <= m /\ m <= n
        BY <1>0, <3>1, <3>2
      <4> QED
        BY <1>3, <4>1
    <3>3. \A m \in P : m < first => m < n
      BY <1>0, <3>1
    <3> QED
      BY <3>2, <3>3
  <2>2. S \cap T = {}
    <3>1. \A m \in Q : m \in Nat /\ first <= m /\ first \in Nat
      BY <1>0, <1>3, <1>4
    <3>2. \A m \in Q : ~(m < first)
      BY <3>1
    <3> QED
      BY <3>2
  <2>3. IsFiniteSet(S) /\ IsFiniteSet(T)
    <3>1. S \in SUBSET P /\ T \in SUBSET Q
      OBVIOUS
    <3> QED
      BY <1>1, <3>1, FS_Subset
  <2>4. Cardinality(S) \in Nat /\ Cardinality(T) \in Nat
    BY <2>3, FS_CardinalityType
  <2>5. Cardinality(S \cup T) = Cardinality(S) + Cardinality(T) - Cardinality(S \cap T)
    BY <2>3, FS_Union
  <2>6. b = Cardinality(S) /\ Before(Q, n) = Cardinality(T)
    BY DEF Before
  <2>7. Before(P, n) = Cardinality(S \cup T)
    BY <2>1 DEF Before
  <2> HIDE DEF S, T, b
  <2> QED
    BY <2>2, <2>4, <2>5, <2>6, <2>7, FS_EmptySet
<1>6. b \in Nat
  BY <1>1, <1>3
<1> HIDE DEF b
<1>7. ASSUME NEW k \in 1..Cardinality(Q)
      PROVE  /\ Place(Q, k) = Place(P, b + k)
             /\ b + k <= Cardinality(P)
  <2>1. Place(Q, k) \in Q /\ Before(Q, Place(Q, k)) = k - 1
    BY <1>0, PlaceOfNumber
  <2>2. Before(P, Place(Q, k)) = b + (k - 1)
    BY <1>5, <2>1
  <2>3. /\ Before(P, Place(Q, k)) + 1 \in 1..Cardinality(P)
        /\ Place(P, Before(P, Place(Q, k)) + 1) = Place(Q, k)
    BY <2>1, PlaceOfNumber
  <2>4. Before(P, Place(Q, k)) + 1 = b + k
    BY <1>6, <2>2
  <2> QED
    BY <1>1, <1>6, <2>3, <2>4
<1>8. b + Cardinality(Q) <= Cardinality(P)
  BY <1>1, <1>2, <1>7
<1>9. ASSUME NEW k \in 1..Cardinality(P), Place(P, k) \in Q
      PROVE  b + 1 <= k /\ k <= b + Cardinality(Q)
  <2>1. Before(P, Place(P, k)) = k - 1
    BY PlaceOfNumber
  <2>2. k - 1 = b + Before(Q, Place(P, k))
    BY <1>5, <1>9, <2>1
  <2>3. Before(Q, Place(P, k)) \in 0..(Cardinality(Q) - 1)
    BY <1>1, <1>9
  <2> QED
    BY <1>1, <1>6, <2>2, <2>3
<1> QED
  BY <1>6, <1>7, <1>8, <1>9

\* One list after another.
LEMMA ConcatIs ==
    ASSUME NEW S, NEW s \in Seq(S), NEW t \in Seq(S)
    PROVE  /\ s \o t \in Seq(S) /\ Len(s \o t) = Len(s) + Len(t)
           /\ Len(s) \in Nat /\ Len(t) \in Nat
           /\ \A k \in 1..Len(s) : (s \o t)[k] = s[k]
           /\ \A k \in 1..Len(t) : (s \o t)[Len(s) + k] = t[k]
<1>1. Len(s) \in Nat /\ Len(t) \in Nat
  BY LenProperties
<1>2. /\ s \o t \in Seq(S) /\ Len(s \o t) = Len(s) + Len(t)
      /\ \A k \in 1..(Len(s) + Len(t)) :
            (s \o t)[k] = IF k <= Len(s) THEN s[k] ELSE t[k - Len(s)]
  BY ConcatProperties
<1>3. \A k \in 1..Len(t) : Len(s) + k \in 1..(Len(s) + Len(t)) /\ ~(Len(s) + k <= Len(s))
                           /\ (Len(s) + k) - Len(s) = k
  BY <1>1
<1> QED
  BY <1>1, <1>2, <1>3

\* A list put together from three.
LEMMA ThreePieces ==
    ASSUME NEW S, NEW list \in Seq(S), NEW u \in Seq(S), NEW v \in Seq(S), NEW w \in Seq(S),
           Len(list) = Len(u) + Len(v) + Len(w),
           \A k \in 1..Len(u) : list[k] = u[k],
           \A k \in 1..Len(v) : list[Len(u) + k] = v[k],
           \A k \in 1..Len(w) : list[Len(u) + Len(v) + k] = w[k]
    PROVE  list = u \o v \o w
<1> DEFINE uv == u \o v
           t  == uv \o w
<1>1. /\ uv \in Seq(S) /\ Len(uv) = Len(u) + Len(v)
      /\ Len(u) \in Nat /\ Len(v) \in Nat /\ Len(w) \in Nat
      /\ \A k \in 1..Len(u) : uv[k] = u[k]
      /\ \A k \in 1..Len(v) : uv[Len(u) + k] = v[k]
  BY ConcatIs, LenProperties
<1> HIDE DEF uv
<1>2. /\ t \in Seq(S) /\ Len(t) = Len(uv) + Len(w)
      /\ \A k \in 1..Len(uv) : t[k] = uv[k]
      /\ \A k \in 1..Len(w) : t[Len(uv) + k] = w[k]
  <2>1. uv \in Seq(S)
    BY <1>1
  <2> QED
    BY <2>1, ConcatIs
<1> HIDE DEF t
<1>3. ASSUME NEW k \in 1..Len(list)  PROVE list[k] = t[k]
  <2>1. CASE k <= Len(u)
    BY <1>1, <1>2, <2>1
  <2>2. CASE ~(k <= Len(u)) /\ k <= Len(u) + Len(v)
    <3> DEFINE j == k - Len(u)
    <3>1. j \in 1..Len(v) /\ Len(u) + j = k /\ k \in 1..Len(uv)
      BY <1>1, <2>2
    <3> HIDE DEF j
    <3>2. t[k] = uv[k] /\ uv[k] = v[j] /\ list[k] = v[j]
      BY <1>1, <1>2, <3>1
    <3> QED
      BY <3>2
  <2>3. CASE ~(k <= Len(u) + Len(v))
    <3> DEFINE j == k - Len(uv)
    <3>1. j \in 1..Len(w) /\ Len(u) + Len(v) + j = k /\ Len(uv) + j = k
      BY <1>1, <2>3
    <3> HIDE DEF j
    <3>2. t[k] = w[j] /\ list[k] = w[j]
      BY <1>2, <3>1
    <3> QED
      BY <3>2
  <2> QED
    BY <1>1, <2>1, <2>2, <2>3
<1>4. Len(list) = Len(t)
  BY <1>1, <1>2
<1>5. list = t
  BY <1>2, <1>3, <1>4, SeqEqual
<1> QED
  BY <1>5 DEF t, uv

\* What is at which place of such a list.
LEMMA ThreeLists ==
    ASSUME NEW S, NEW u \in Seq(S), NEW v \in Seq(S), NEW w \in Seq(S)
    PROVE  /\ u \o v \o w \in Seq(S) /\ Len(u \o v \o w) = Len(u) + Len(v) + Len(w)
           /\ Len(u) \in Nat /\ Len(v) \in Nat /\ Len(w) \in Nat
           /\ \A k \in 1..Len(u) : (u \o v \o w)[k] = u[k]
           /\ \A k \in 1..Len(v) : (u \o v \o w)[Len(u) + k] = v[k]
           /\ \A k \in 1..Len(w) : (u \o v \o w)[Len(u) + Len(v) + k] = w[k]
<1> DEFINE uv == u \o v
           t  == uv \o w
<1>1. /\ uv \in Seq(S) /\ Len(uv) = Len(u) + Len(v)
      /\ Len(u) \in Nat /\ Len(v) \in Nat /\ Len(w) \in Nat
      /\ \A k \in 1..Len(u) : uv[k] = u[k]
      /\ \A k \in 1..Len(v) : uv[Len(u) + k] = v[k]
  BY ConcatIs, LenProperties
<1> HIDE DEF uv
<1>2. /\ t \in Seq(S) /\ Len(t) = Len(uv) + Len(w)
      /\ \A k \in 1..Len(uv) : t[k] = uv[k]
      /\ \A k \in 1..Len(w) : t[Len(uv) + k] = w[k]
  <2>1. uv \in Seq(S)
    BY <1>1
  <2> QED
    BY <2>1, ConcatIs
<1> HIDE DEF t
<1>3. \A k \in 1..Len(u) : k \in 1..Len(uv)
  BY <1>1
<1>4. \A k \in 1..Len(v) : Len(u) + k \in 1..Len(uv)
  BY <1>1
<1> QED
  BY <1>1, <1>2, <1>3, <1>4 DEF t, uv

\* The first and the last of some places.
LEMMA PlacesEnds ==
    ASSUME NEW P, IsPlaces(P), P # {}
    PROVE  /\ Cardinality(P) \in Nat \ {0}
           /\ Place(P, 1) \in P /\ \A n \in P : Place(P, 1) <= n
           /\ Place(P, Cardinality(P)) \in P /\ \A n \in P : n <= Place(P, Cardinality(P))
<1> PICK L \in Nat : P \in SUBSET (1..L)
  BY DEF IsPlaces
<1> DEFINE c == Cardinality(P)
<1>1. /\ c \in Nat
      /\ \A k \in 1..c : Place(P, k) \in P
      /\ \A n \in P : \E k \in 1..c : Place(P, k) = n
      /\ \A j, k \in 1..c : j < k => Place(P, j) < Place(P, k)
  BY PlacesInOrder
<1>2. 1 \in 1..c /\ c \in 1..c
  <2>1. PICK n \in P : TRUE
    OBVIOUS
  <2>2. PICK k \in 1..c : Place(P, k) = n
    BY <1>1
  <2> HIDE DEF c
  <2> QED
    BY <1>1, <2>2
<1> HIDE DEF c
<1>3. ASSUME NEW n \in P  PROVE Place(P, 1) <= n /\ n <= Place(P, c)
  <2>1. PICK k \in 1..c : Place(P, k) = n
    BY <1>1
  <2>2. (1 < k \/ k = 1) /\ (k < c \/ k = c)
    BY <1>1
  <2>3. Place(P, 1) \in 1..L /\ n \in 1..L /\ Place(P, c) \in 1..L
    BY <1>1, <1>2
  <2>4. Place(P, 1) < n \/ Place(P, 1) = n
    BY <1>1, <1>2, <2>1, <2>2
  <2>5. n < Place(P, c) \/ n = Place(P, c)
    BY <1>1, <1>2, <2>1, <2>2
  <2> QED
    BY <2>3, <2>4, <2>5
<1> QED
  BY <1>1, <1>2, <1>3 DEF c

-----------------------------------------------------------------------------
(* Sums.                                                                    *)

\* What a sum counts.
Things(f) == UNION {{n} \X (1..f[n]) : n \in DOMAIN f}

\* The n-th of them are the pairs of n and a number up to f[n].
LEMMA ThingsOf ==
    ASSUME NEW f
    PROVE  \A x : x \in Things(f) <=> \E n \in DOMAIN f : \E k \in 1..f[n] : x = <<n, k>>
BY DEF Things

\* The sum of numbers is a number.
LEMMA TotalType ==
    ASSUME NEW S, IsFiniteSet(S), NEW f \in [S -> Nat]
    PROVE  IsFiniteSet(Things(f)) /\ Total(f) \in Nat
<1> DEFINE g == [n \in S |-> {n} \X (1..f[n])]
           T == {g[n] : n \in S}
<1>1. g \in Surjection(S, T)
  BY DEF Surjection
<1>2. IsFiniteSet(T)
  <2> HIDE DEF g, T
  <2> QED
    BY <1>1, FS_Surjection
<1>3. ASSUME NEW n \in S  PROVE IsFiniteSet(g[n])
  <2>1. 1 \in Int /\ f[n] \in Int
    OBVIOUS
  <2>2. IsFiniteSet({n}) /\ IsFiniteSet(1..f[n])
    BY <2>1, FS_Singleton, FS_Interval
  <2> QED
    BY <2>2, FS_Product
<1>4. Things(f) = UNION T
  BY DEF Things
<1>5. IsFiniteSet(UNION T)
  <2> HIDE DEF g
  <2> QED
    BY <1>2, <1>3, FS_UNION
<1>6. Total(f) = Cardinality(Things(f))
  BY DEF Total, Things
<1> QED
  BY <1>4, <1>5, <1>6, FS_CardinalityType

\* Zeros add nothing.
LEMMA TotalExtended ==
    ASSUME NEW f, NEW g, DOMAIN f \subseteq DOMAIN g,
           \A n \in DOMAIN f : f[n] = g[n],
           \A n \in DOMAIN g \ DOMAIN f : g[n] = 0
    PROVE  Total(f) = Total(g)
<1>1. ASSUME NEW x \in Things(f)  PROVE x \in Things(g)
  BY <1>1 DEF Things
<1>2. ASSUME NEW x \in Things(g)  PROVE x \in Things(f)
  <2>1. PICK n \in DOMAIN g : x \in {n} \X (1..g[n])
    BY <1>2 DEF Things
  <2>2. n \in DOMAIN f
    <3>1. CASE g[n] = 0
      BY <2>1, <3>1
    <3> QED
      BY <3>1
  <2> QED
    BY <2>1, <2>2 DEF Things
<1>3. Things(f) = Things(g)
  BY <1>1, <1>2
<1> QED
  BY <1>3 DEF Total, Things

\* Two functions that add up to a third.
Sums(S, f, g, h) == /\ IsFiniteSet(S)
                    /\ f \in [S -> Nat] /\ g \in [S -> Nat] /\ h \in [S -> Nat]
                    /\ \A n \in S : h[n] = f[n] + g[n]

\* The sum of the sums is the sum of both.
LEMMA TotalOfSums ==
    ASSUME NEW S, NEW f, NEW g, NEW h, Sums(S, f, g, h)
    PROVE  Total(h) = Total(f) + Total(g)
<1> SUFFICES ASSUME IsFiniteSet(S), f \in [S -> Nat], g \in [S -> Nat], h \in [S -> Nat],
                    \A n \in S : h[n] = f[n] + g[n]
             PROVE  Total(h) = Total(f) + Total(g)
  BY DEF Sums
<1> DEFINE A == Things(f)
           B == Things(g)
           C == {<<x[1], f[x[1]] + x[2]>> : x \in B}
           m == [x \in B |-> <<x[1], f[x[1]] + x[2]>>]
<1>0. \A n \in S : f[n] \in Nat /\ g[n] \in Nat /\ h[n] \in Nat
  OBVIOUS
<1>1. ASSUME NEW x \in B  PROVE x[1] \in S /\ x[2] \in 1..g[x[1]] /\ x = <<x[1], x[2]>>
  BY <1>1 DEF Things
<1>2. m \in [B -> C]
  OBVIOUS
<1>3. ASSUME NEW x \in B, NEW y \in B, m[x] = m[y]  PROVE x = y
  <2>1. x[1] = y[1] /\ f[x[1]] + x[2] = f[y[1]] + y[2]
    BY <1>3
  <2>2. f[x[1]] \in Nat /\ x[2] \in Nat /\ y[2] \in Nat
    BY <1>0, <1>1
  <2>3. x[2] = y[2]
    <3>1. f[x[1]] + x[2] = f[x[1]] + y[2]
      BY <2>1
    <3>2. \A a, b, c \in Nat : a + b = a + c => b = c
      OBVIOUS
    <3> QED
      BY <2>2, <3>1, <3>2, Zenon
  <2> QED
    BY <1>1, <2>1, <2>3
<1>4. \A y \in C : \E x \in B : m[x] = y
  OBVIOUS
<1>5. /\ IsFiniteSet(A) /\ IsFiniteSet(B)
      /\ Cardinality(A) = Total(f) /\ Cardinality(B) = Total(g)
      /\ Cardinality(A) \in Nat /\ Cardinality(B) \in Nat
  BY TotalType DEF Total, Things
<1>6. IsFiniteSet(C) /\ Cardinality(C) = Cardinality(B)
  <2> HIDE DEF B, C, m
  <2> QED
    BY <1>2, <1>3, <1>4, <1>5, OneToOne
<1>7. A \cap C = {}
  <2>1. SUFFICES ASSUME NEW y \in A, y \in C  PROVE FALSE
    OBVIOUS
  <2>2. PICK x \in B : y = <<x[1], f[x[1]] + x[2]>>
    BY <2>1
  <2>3. y[1] \in S /\ y[2] \in 1..f[y[1]]
    BY <2>1 DEF Things
  <2>4. y[1] = x[1] /\ y[2] = f[x[1]] + x[2]
    BY <2>2
  <2>5. x[2] \in Nat \ {0} /\ f[x[1]] \in Nat /\ y[2] <= f[x[1]]
    BY <1>0, <1>1, <2>3, <2>4
  <2> QED
    BY <2>4, <2>5
<1>8. Things(h) = A \cup C
  <2>1. ASSUME NEW y \in Things(h)  PROVE y \in A \cup C
    <3>1. PICK n \in S : \E k \in 1..h[n] : y = <<n, k>>
      BY <2>1 DEF Things
    <3> PICK k \in 1..h[n] : y = <<n, k>>
      BY <3>1
    <3>2. CASE k <= f[n]
      <4>1. k \in 1..f[n]
        BY <1>0, <3>2
      <4> QED
        BY <3>1, <4>1 DEF Things
    <3>3. CASE ~(k <= f[n])
      <4>1. k - f[n] \in 1..g[n] /\ f[n] + (k - f[n]) = k
        BY <1>0, <3>3
      <4>2. <<n, k - f[n]>> \in B
        BY <4>1 DEF Things
      <4>3. y = <<<<n, k - f[n]>>[1], f[<<n, k - f[n]>>[1]] + <<n, k - f[n]>>[2]>>
        BY <3>1, <4>1
      <4> QED
        BY <4>2, <4>3
    <3> QED
      BY <3>2, <3>3
  <2>2. ASSUME NEW y \in A  PROVE y \in Things(h)
    <3>1. PICK n \in S : \E k \in 1..f[n] : y = <<n, k>>
      BY <2>2 DEF Things
    <3> PICK k \in 1..f[n] : y = <<n, k>>
      BY <3>1
    <3>2. k \in 1..h[n]
      BY <1>0
    <3> QED
      BY <3>1, <3>2 DEF Things
  <2>3. ASSUME NEW y \in C  PROVE y \in Things(h)
    <3>1. PICK x \in B : y = <<x[1], f[x[1]] + x[2]>>
      BY <2>3
    <3>2. x[1] \in S /\ f[x[1]] + x[2] \in 1..h[x[1]]
      BY <1>0, <1>1
    <3> QED
      BY <3>1, <3>2 DEF Things
  <2> QED
    BY <2>1, <2>2, <2>3
<1>9. Cardinality(A \cup C) = Cardinality(A) + Cardinality(C) - Cardinality(A \cap C)
  <2> HIDE DEF A, C
  <2> QED
    BY <1>5, <1>6, FS_Union
<1>10. Total(h) = Cardinality(Things(h))
  BY DEF Total, Things
<1>11. Cardinality(A \cap C) = 0
  BY <1>7, FS_EmptySet
<1>12. Total(h) = Cardinality(A \cup C)
  BY <1>8, <1>10
<1> HIDE DEF A, B, C, m
<1> QED
  BY <1>5, <1>6, <1>9, <1>11, <1>12

\* The sum of one number is that number.
LEMMA TotalOfOne ==
    ASSUME NEW x, NEW f, DOMAIN f = {x}, f[x] \in Nat
    PROVE  Total(f) = f[x]
<1>1. Things(f) = {x} \X (1..f[x])
  BY DEF Things
<1>2. IsFiniteSet({x}) /\ Cardinality({x}) = 1
  BY FS_Singleton
<1>3. IsFiniteSet(1..f[x]) /\ Cardinality(1..f[x]) = f[x]
  <2>1. 1 \in Int /\ f[x] \in Int /\ (1 > f[x] => f[x] = 0) /\ f[x] - 1 + 1 = f[x]
    OBVIOUS
  <2> QED
    BY <2>1, FS_Interval
<1>4. Cardinality({x} \X (1..f[x])) = 1 * f[x]
  BY <1>2, <1>3, FS_Product
<1>5. 1 * f[x] = f[x]
  OBVIOUS
<1>6. Total(f) = Cardinality(Things(f))
  BY DEF Total, Things
<1> QED
  BY <1>1, <1>4, <1>5, <1>6

\* Three that do.
ThreeSums(S, f, g, h, k) == /\ IsFiniteSet(S)
                            /\ f \in [S -> Nat] /\ g \in [S -> Nat] /\ h \in [S -> Nat]
                            /\ k \in [S -> Nat]
                            /\ \A n \in S : k[n] = f[n] + g[n] + h[n]

\* So is that of three.
LEMMA TotalOfThreeSums ==
    ASSUME NEW S, NEW f, NEW g, NEW h, NEW k, ThreeSums(S, f, g, h, k)
    PROVE  Total(k) = Total(f) + Total(g) + Total(h)
<1> SUFFICES ASSUME IsFiniteSet(S), f \in [S -> Nat], g \in [S -> Nat], h \in [S -> Nat],
                    k \in [S -> Nat], \A n \in S : k[n] = f[n] + g[n] + h[n]
             PROVE  Total(k) = Total(f) + Total(g) + Total(h)
  BY DEF ThreeSums
<1> DEFINE m == [n \in S |-> f[n] + g[n]]
<1>1. m \in [S -> Nat]
  OBVIOUS
<1>2. \A n \in S : m[n] = f[n] + g[n]
  OBVIOUS
<1>3. \A n \in S : k[n] = m[n] + h[n]
  OBVIOUS
<1> HIDE DEF m
<1>4. Sums(S, f, g, m) /\ Sums(S, m, h, k)
  BY <1>1, <1>2, <1>3 DEF Sums
<1>5. Total(m) = Total(f) + Total(g) /\ Total(k) = Total(m) + Total(h)
  BY <1>4, TotalOfSums
<1>6. Total(f) \in Nat /\ Total(g) \in Nat /\ Total(h) \in Nat
  BY TotalType
<1> QED
  BY <1>5, <1>6

\* A function that gives the numbers of three things.
IsOfThree(f, x, y, z) == x # y /\ x # z /\ y # z /\ f \in [{x, y, z} -> Nat]

\* The sum of three numbers.
LEMMA TotalOfThree ==
    ASSUME NEW f, NEW x, NEW y, NEW z, IsOfThree(f, x, y, z)
    PROVE  Total(f) = f[x] + f[y] + f[z]
<1> SUFFICES ASSUME x # y, x # z, y # z, f \in [{x, y, z} -> Nat]
             PROVE  Total(f) = f[x] + f[y] + f[z]
  BY DEF IsOfThree
<1> DEFINE S == {x, y, z}
           one(p)  == [n \in {p} |-> f[p]]
           only(p) == [n \in S |-> IF n = p THEN f[p] ELSE 0]
<1>1. ASSUME NEW p \in S  PROVE Total(only(p)) = f[p]
  <2>1. f[p] \in Nat
    OBVIOUS
  <2>2. Total(one(p)) = one(p)[p]
    <3>1. DOMAIN one(p) = {p} /\ one(p)[p] \in Nat
      BY <2>1
    <3> HIDE DEF one
    <3> QED
      BY <3>1, TotalOfOne
  <2>3. Total(one(p)) = Total(only(p))
    <3>1. /\ DOMAIN one(p) \subseteq DOMAIN only(p)
          /\ \A n \in DOMAIN one(p) : one(p)[n] = only(p)[n]
          /\ \A n \in DOMAIN only(p) \ DOMAIN one(p) : only(p)[n] = 0
      OBVIOUS
    <3> HIDE DEF one, only
    <3> QED
      BY <3>1, TotalExtended
  <2> QED
    BY <2>2, <2>3
<1>2. IsFiniteSet(S)
  <2>1. IsFiniteSet({x}) /\ IsFiniteSet({x} \cup {y})
    BY FS_Singleton, FS_AddElement
  <2>2. IsFiniteSet(({x} \cup {y}) \cup {z})
    BY <2>1, FS_AddElement
  <2>3. ({x} \cup {y}) \cup {z} = S
    OBVIOUS
  <2> QED
    BY <2>2, <2>3
<1>3. /\ only(x) \in [S -> Nat] /\ only(y) \in [S -> Nat] /\ only(z) \in [S -> Nat]
      /\ f \in [S -> Nat]
  OBVIOUS
<1>4. \A n \in S : f[n] = only(x)[n] + only(y)[n] + only(z)[n]
  OBVIOUS
<1>5. x \in S /\ y \in S /\ z \in S
  OBVIOUS
<1> HIDE DEF S, only
<1>6. Total(f) = Total(only(x)) + Total(only(y)) + Total(only(z))
  BY <1>2, <1>3, <1>4, TotalOfThreeSums DEF ThreeSums
<1> QED
  BY <1>1, <1>5, <1>6
=============================================================================
