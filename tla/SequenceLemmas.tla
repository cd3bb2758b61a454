----------------------------- MODULE SequenceLemmas -----------------------------
(***************************************************************************)
(* Facts about sequences and sets of places that the proofs of several     *)
(* components cite: the least place, the removal of an element, queues in  *)
(* which nothing stands twice, and sequences added up to one.              *)
(***************************************************************************)
EXTENDS Naturals, SequencesExt, FiniteSetTheorems, SequenceTheorems, WellFoundedInduction, TLAPS

Listed(x, q) == \E i \in DOMAIN q : q[i] = x

--------------------------------------------------------------------------------
\* A nonempty set of naturals has a least element.
LEMMA LeastPlace ==
  ASSUME NEW T \in SUBSET Nat, T # {}
  PROVE  Min(T) \in T /\ \A y \in T : Min(T) <= y
<1>1. PICK x \in T : \A y \in T : ~(<<y, x>> \in OpToRel(<, Nat))
  BY NatLessThanWellFounded, WFMin
<1>2. \A y \in T : ~(y < x)
  BY <1>1 DEF OpToRel
<1>3. \A y \in T : x <= y
  BY <1>2
<1> QED
  BY <1>3 DEF Min

\* There are n places up to n.
LEMMA PlacesUpTo ==
  ASSUME NEW n \in Nat
  PROVE  IsFiniteSet(1 .. n) /\ Cardinality(1 .. n) = n
<1>1. /\ IsFiniteSet(1 .. n)
      /\ Cardinality(1 .. n) = IF 1 > n THEN 0 ELSE n - 1 + 1
  BY FS_Interval
<1> QED
  BY <1>1

\* RemoveFirst closes the gap at the first place of x.
LEMMA RemoveFirstPlaces ==
  ASSUME NEW S, NEW q \in Seq(S), NEW x, Listed(x, q)
  PROVE  LET r == RemoveFirst(q, x)
         IN  /\ r \in Seq(S)
             /\ \E p \in 1 .. Len(q) :
                  /\ q[p] = x
                  /\ Len(r) = Len(q) - 1
                  /\ \A i \in 1 .. Len(r) : r[i] = IF i < p THEN q[i] ELSE q[i + 1]
<1> DEFINE places == {i \in 1 .. Len(q) : q[i] = x}
           p == Min(places)
           r == RemoveFirst(q, x)
<1>1. places \in SUBSET Nat /\ places # {}
  BY DEF Listed
<1>2. p \in 1 .. Len(q) /\ q[p] = x
  <2>1. p \in places
    BY <1>1, LeastPlace
  <2> QED
    BY <2>1
<1>3. r = SubSeq(q, 1, p - 1) \o SubSeq(q, p + 1, Len(q))
  BY <1>1 DEF RemoveFirst, SelectInSeq, RemoveAt
<1> HIDE DEF p, r
<1> DEFINE a == SubSeq(q, 1, p - 1)
           b == SubSeq(q, p + 1, Len(q))
<1>4. /\ a \in Seq(S) /\ Len(a) = p - 1
      /\ \A i \in 1 .. p - 1 : a[i] = q[i]
  BY <1>2
<1>5. /\ b \in Seq(S) /\ Len(b) = Len(q) - p
      /\ \A i \in 1 .. Len(q) - p : b[i] = q[p + i]
  BY <1>2
<1> HIDE DEF a, b
<1>6. /\ r \in Seq(S) /\ Len(r) = Len(q) - 1
      /\ \A i \in 1 .. Len(r) : r[i] = IF i < p THEN a[i] ELSE b[i - (p - 1)]
  <2>1. r = a \o b
    BY <1>3 DEF a, b
  <2>2. r \in Seq(S) /\ Len(r) = Len(a) + Len(b)
    BY <1>4, <1>5, <2>1, ConcatProperties
  <2>3. \A i \in 1 .. Len(a) + Len(b) : r[i] = IF i <= Len(a) THEN a[i] ELSE b[i - Len(a)]
    BY <1>4, <1>5, <2>1, ConcatProperties
  <2> QED
    BY <1>2, <1>4, <1>5, <2>2, <2>3
<1>7. ASSUME NEW i \in 1 .. Len(r) PROVE r[i] = IF i < p THEN q[i] ELSE q[i + 1]
  <2>1. CASE i < p
    BY <1>2, <1>4, <1>6, <2>1
  <2>2. CASE ~(i < p)
    <3>1. i - (p - 1) \in 1 .. Len(q) - p /\ p + (i - (p - 1)) = i + 1
      BY <1>2, <1>6, <2>2
    <3> QED
      BY <1>5, <1>6, <2>2, <3>1
  <2> QED
    BY <2>1, <2>2
<1> QED
  BY <1>2, <1>6, <1>7 DEF r

\* It keeps the others, in their order, and its head unless that is x.
LEMMA RemoveFirstKeeps ==
  ASSUME NEW S, NEW q \in Seq(S), NEW x
  PROVE  /\ RemoveFirst(q, x) \in Seq(S)
         /\ \A y : y # x /\ Listed(y, q) => Listed(y, RemoveFirst(q, x))
         /\ \A y : y # x /\ q # <<>> /\ Head(q) = y
                 => RemoveFirst(q, x) # <<>> /\ Head(RemoveFirst(q, x)) = y
<1> DEFINE r == RemoveFirst(q, x)
<1>1. CASE ~Listed(x, q)
  <2>1. ~\E i \in 1 .. Len(q) : q[i] = x
    BY <1>1 DEF Listed
  <2>2. r = q
    BY <2>1 DEF RemoveFirst
  <2> QED
    BY <2>2
<1>2. CASE Listed(x, q)
  <2>1. r \in Seq(S)
    BY <1>2, RemoveFirstPlaces
  <2>2. PICK p \in 1 .. Len(q) : /\ q[p] = x /\ Len(r) = Len(q) - 1
                               /\ \A i \in 1 .. Len(r) : r[i] = IF i < p THEN q[i] ELSE q[i + 1]
    BY <1>2, RemoveFirstPlaces
  <2> HIDE DEF r
  <2>3. ASSUME NEW y, y # x, NEW i \in 1 .. Len(q), q[i] = y PROVE Listed(y, r)
    <3>1. CASE i < p
      <4>1. i \in 1 .. Len(r) /\ r[i] = y
        BY <2>1, <2>2, <2>3, <3>1
      <4> QED
        BY <2>1, <4>1 DEF Listed
    <3>2. CASE i > p
      <4>1. i - 1 \in 1 .. Len(r) /\ r[i - 1] = y
        BY <2>1, <2>2, <2>3, <3>2
      <4> QED
        BY <2>1, <4>1 DEF Listed
    <3> QED
      BY <2>2, <2>3, <3>1, <3>2
  <2>4. ASSUME NEW y, y # x, q # <<>>, Head(q) = y PROVE r # <<>> /\ Head(r) = y
    <3>1. q[1] = y /\ p > 1
      BY <2>2, <2>4
    <3>2. Len(r) >= 1 /\ r[1] = y
      BY <2>1, <2>2, <3>1
    <3> QED
      BY <2>1, <3>2
  <2> QED
    BY <2>1, <2>3, <2>4 DEF Listed, r
<1> QED
  BY <1>1, <1>2

\* From a queue in which nothing stands twice it takes x, wherever x stands.
LEMMA RemoveFirstOfOnce ==
  ASSUME NEW S, NEW q \in Seq(S), IsInjective(q), NEW x
  PROVE  /\ RemoveFirst(q, x) \in Seq(S)
         /\ IsInjective(RemoveFirst(q, x))
         /\ ToSet(RemoveFirst(q, x)) = ToSet(q) \ {x}
<1> DEFINE r == RemoveFirst(q, x)
<1>0. \A i, k \in 1 .. Len(q) : q[i] = q[k] => i = k
  BY DEF IsInjective
<1>1. CASE ~Listed(x, q)
  <2>1. ~\E i \in 1 .. Len(q) : q[i] = x
    BY <1>1 DEF Listed
  <2>2. r = q
    BY <2>1 DEF RemoveFirst
  <2>3. x \notin ToSet(q)
    BY <2>1 DEF ToSet
  <2> QED
    BY <2>2, <2>3
<1>2. CASE Listed(x, q)
  <2>1. r \in Seq(S)
    BY <1>2, RemoveFirstPlaces
  <2>2. PICK p \in 1 .. Len(q) : /\ q[p] = x /\ Len(r) = Len(q) - 1
                               /\ \A i \in 1 .. Len(r) : r[i] = IF i < p THEN q[i] ELSE q[i + 1]
    BY <1>2, RemoveFirstPlaces
  <2> HIDE DEF r
  <2> DEFINE from(i) == IF i < p THEN i ELSE i + 1
  <2>3. \A i \in 1 .. Len(r) : from(i) \in 1 .. Len(q) /\ from(i) # p /\ r[i] = q[from(i)]
    BY <2>1, <2>2
  <2>4. \A i, k \in 1 .. Len(r) : from(i) = from(k) => i = k
    BY <2>1, <2>2
  <2>5. \A k \in 1 .. Len(q) : k # p => \E i \in 1 .. Len(r) : from(i) = k
    <3> SUFFICES ASSUME NEW k \in 1 .. Len(q), k # p PROVE \E i \in 1 .. Len(r) : from(i) = k
      OBVIOUS
    <3>1. CASE k < p
      <4>1. k \in 1 .. Len(r) /\ from(k) = k
        BY <2>1, <2>2, <3>1
      <4> QED
        BY <4>1
    <3>2. CASE k > p
      <4>1. k - 1 \in 1 .. Len(r) /\ from(k - 1) = k
        BY <2>1, <2>2, <3>2
      <4> QED
        BY <4>1
    <3> QED
      BY <2>2, <3>1, <3>2
  <2> HIDE DEF from
  <2>6. DOMAIN r = 1 .. Len(r) /\ DOMAIN q = 1 .. Len(q)
    BY <2>1
  <2>7. IsInjective(r)
    BY <1>0, <2>3, <2>4, <2>6 DEF IsInjective
  <2>8. ToSet(r) = ToSet(q) \ {x}
    <3>1. \A y \in ToSet(r) : y \in ToSet(q) /\ y # x
      BY <1>0, <2>2, <2>3, <2>6 DEF ToSet
    <3>2. \A y \in ToSet(q) : y # x => y \in ToSet(r)
      <4> SUFFICES ASSUME NEW k \in 1 .. Len(q), q[k] # x PROVE q[k] \in ToSet(r)
        BY <2>6 DEF ToSet
      <4>1. PICK i \in 1 .. Len(r) : from(i) = k
        BY <2>2, <2>5
      <4> QED
        BY <2>3, <2>6, <4>1 DEF ToSet
    <3> QED
      BY <3>1, <3>2
  <2> QED
    BY <2>1, <2>7, <2>8 DEF r
<1> QED
  BY <1>1, <1>2

\* A newcomer at the end of a queue.
LEMMA AppendNew ==
  ASSUME NEW S, NEW q \in Seq(S), NEW x \in S
  PROVE  /\ Append(q, x) \in Seq(S)
         /\ ToSet(Append(q, x)) = ToSet(q) \cup {x}
         /\ IsInjective(q) /\ x \notin ToSet(q) => IsInjective(Append(q, x))
<1> DEFINE r == Append(q, x)
<1>1. /\ r \in Seq(S) /\ Len(r) = Len(q) + 1 /\ r[Len(q) + 1] = x
      /\ \A i \in 1 .. Len(q) : r[i] = q[i]
  OBVIOUS
<1>2. DOMAIN r = 1 .. Len(q) + 1 /\ DOMAIN q = 1 .. Len(q) /\ Len(q) \in Nat
  BY <1>1
<1> HIDE DEF r
<1>3. ToSet(r) = ToSet(q) \cup {x}
  <2>1. \A i \in 1 .. Len(q) + 1 : i \in 1 .. Len(q) \/ i = Len(q) + 1
    BY <1>2
  <2>2. Len(q) + 1 \in 1 .. Len(q) + 1 /\ 1 .. Len(q) \subseteq 1 .. Len(q) + 1
    BY <1>2
  <2> QED
    BY <1>1, <1>2, <2>1, <2>2 DEF ToSet
<1>4. ASSUME IsInjective(q), x \notin ToSet(q) PROVE IsInjective(r)
  <2>1. \A i, k \in 1 .. Len(q) : q[i] = q[k] => i = k
    BY <1>2, <1>4 DEF IsInjective
  <2>2. \A i \in 1 .. Len(q) : q[i] # x
    BY <1>2, <1>4 DEF ToSet
  <2>3. \A i, k \in 1 .. Len(q) + 1 : r[i] = r[k] => i = k
    BY <1>1, <1>2, <2>1, <2>2
  <2> QED
    BY <1>2, <2>3 DEF IsInjective
<1> QED
  BY <1>1, <1>3, <1>4 DEF r

--------------------------------------------------------------------------------
(* Sequences added up.  FlattenSeq is a recursive function: what it returns is  *)
(* found by looking at the least place where it could fail.                     *)

\* Concatenation, kept folded in the lemmas below.
Cat(a, b) == a \o b

\* What the lemmas need of it: T is a set of sequences closed under it.
Monoid(T) ==
  /\ <<>> \in T
  /\ \A a, b \in T : Cat(a, b) \in T
  /\ \A a \in T : Cat(<<>>, a) = a /\ Cat(a, <<>>) = a
  /\ \A a, b, c \in T : Cat(Cat(a, b), c) = Cat(a, Cat(b, c))

Assoc(a, b, c) == Cat(Cat(a, b), c) = Cat(a, Cat(b, c))

LEMMA SequencesAreMonoid == ASSUME NEW S PROVE Monoid(Seq(S))
<1>1. \A a, b \in Seq(S) : a \o b \in Seq(S)
  BY ConcatProperties
<1>2. \A a \in Seq(S) : <<>> \o a = a /\ a \o <<>> = a
  BY ConcatEmptySeq
<1>3. \A a, b, c \in Seq(S) : (a \o b) \o c = a \o (b \o c)
  BY ConcatAssociative
<1> QED
  BY <1>1, <1>2, <1>3 DEF Monoid, Cat

LEMMA Associates ==
  ASSUME NEW T, Monoid(T), NEW a \in T, NEW b \in T, NEW c \in T
  PROVE  Assoc(a, b, c)
BY Zenon DEF Monoid, Assoc

LEMMA Closed ==
  ASSUME NEW T, Monoid(T), NEW a \in T, NEW b \in T
  PROVE  Cat(a, b) \in T
BY Zenon DEF Monoid

LEMMA FunctionIsSeq ==
  ASSUME NEW T, NEW n \in Nat, NEW f \in [1 .. n -> T]
  PROVE  f \in Seq(T) /\ Len(f) = n
BY IsASeq, LenProperties

\* f adds the sequences of s up one by one, as FlattenSeq does.
Flattens(f, s, n) == f = [i \in 1 .. n |-> IF i = 1 THEN s[i] ELSE f[i - 1] \o s[i]]

Grows(f, s, n) ==
  \A i \in 1 .. n : (i = 1 => f[i] = s[i]) /\ (i # 1 => f[i] = Cat(f[i - 1], s[i]))

LEMMA FlattensGrows ==
  ASSUME NEW f, NEW s, NEW n, Flattens(f, s, n)
  PROVE  Grows(f, s, n)
BY Zenon DEF Flattens, Grows, Cat

\* There is such a function: the recursion in FlattenSeq defines one.
LEMMA FlattenDefined ==
  ASSUME NEW T, Monoid(T), NEW s \in Seq(T), NEW n \in 1 .. Len(s)
  PROVE  \E f \in [1 .. n -> T] : Flattens(f, s, n)
<1> DEFINE Some(m) == \E f \in [1 .. m -> T] : Flattens(f, s, m)
           Bad == {m \in 1 .. Len(s) : ~Some(m)}
<1>1. Bad \in SUBSET Nat /\ Len(s) \in Nat
  OBVIOUS
<1>2. \A m \in 1 .. Len(s) : m \in Bad <=> ~Some(m)
  OBVIOUS
<1> HIDE DEF Bad
<1>3. Some(1)
  <2> DEFINE f == [i \in 1 .. 1 |-> s[i]]
  <2>1. f \in [1 .. 1 -> T]
    OBVIOUS
  <2>2. f = [i \in 1 .. 1 |-> IF i = 1 THEN s[i] ELSE f[i - 1] \o s[i]]
    OBVIOUS
  <2> QED
    BY <2>1, <2>2 DEF Flattens
<1>4. ASSUME NEW k \in 1 .. Len(s), k + 1 \in 1 .. Len(s), Some(k) PROVE Some(k + 1)
  <2>1. PICK f \in [1 .. k -> T] : Flattens(f, s, k)
    BY <1>4
  <2> HIDE DEF Some
  <2> DEFINE g == [i \in 1 .. k + 1 |-> IF i <= k THEN f[i] ELSE Cat(f[k], s[k + 1])]
  <2>2. f[k] \in T /\ s[k + 1] \in T
    BY <1>4
  <2>2a. Cat(f[k], s[k + 1]) \in T
    BY <2>2, Closed
  <2>3. g \in [1 .. k + 1 -> T]
    BY <2>2a
  <2>4. (\A i \in 1 .. k : g[i] = f[i]) /\ g[k + 1] = Cat(f[k], s[k + 1])
    OBVIOUS
  <2> HIDE DEF g
  <2>5. ASSUME NEW i \in 1 .. k + 1 PROVE g[i] = IF i = 1 THEN s[i] ELSE Cat(g[i - 1], s[i])
    <3>1. CASE i = k + 1
      <4>1. i # 1 /\ i - 1 = k /\ k \in 1 .. k
        BY <3>1
      <4>2. g[k] = f[k]
        BY Zenon, <2>4, <4>1
      <4> QED
        BY Zenon, <2>4, <3>1, <4>1, <4>2
    <3>2. CASE i # k + 1
      <4>1. i \in 1 .. k /\ (i # 1 => i - 1 \in 1 .. k)
        BY <3>2
      <4>2. Grows(f, s, k)
        BY <2>1, FlattensGrows
      <4> QED
        BY <2>4, <4>1, <4>2 DEF Grows
    <3> QED
      BY <3>1, <3>2
  <2>6. g = [i \in 1 .. k + 1 |-> g[i]]
    BY <2>3
  <2>7. Flattens(g, s, k + 1)
    BY Zenon, <2>5, <2>6 DEF Flattens, Cat
  <2> QED
    BY <2>3, <2>7 DEF Some
<1> HIDE DEF Some
<1>5. Bad = {}
  <2> SUFFICES ASSUME Bad # {} PROVE FALSE
    OBVIOUS
  <2>1. PICK m \in Bad : \A k \in Bad : m <= k
    BY <1>1, LeastPlace
  <2>2. m \in 1 .. Len(s) /\ ~Some(m)
    BY <1>2 DEF Bad
  <2>3. m # 1
    BY <1>3, <2>2
  <2>4. m - 1 \in 1 .. Len(s) /\ m - 1 < m /\ (m - 1) + 1 = m
    BY <2>2, <2>3
  <2>5. Some(m - 1)
    BY <1>2, <2>1, <2>4
  <2> QED
    BY <1>4, <2>2, <2>4, <2>5
<1> QED
  BY <1>2, <1>5 DEF Some

\* And only one: two of them agree on what both are defined on.
LEMMA GrowsUnique ==
  ASSUME NEW s, NEW t, NEW m \in Nat, NEW n \in Nat, m <= n, NEW f, NEW g,
         Grows(f, s, m), Grows(g, t, n), \A i \in 1 .. m : s[i] = t[i]
  PROVE  \A i \in 1 .. m : f[i] = g[i]
<1> DEFINE Bad == {i \in 1 .. m : f[i] # g[i]}
<1> SUFFICES ASSUME Bad # {} PROVE FALSE
  OBVIOUS
<1>0. Bad \in SUBSET Nat
  OBVIOUS
<1>1. PICK i \in Bad : \A k \in Bad : i <= k
  <2> HIDE DEF Bad
  <2> QED
    BY <1>0, LeastPlace
<1>2. i \in 1 .. m /\ i \in 1 .. n /\ f[i] # g[i]
  OBVIOUS
<1>4. i # 1 => f[i - 1] = g[i - 1]
  BY <1>1, <1>2
<1> QED
  BY <1>2, <1>4 DEF Grows

\* FlattenSeq is the last value of the function.
LEMMA FlattenOf ==
  ASSUME NEW T, Monoid(T), NEW s \in Seq(T), s # <<>>
  PROVE  \E f \in [1 .. Len(s) -> T] : Grows(f, s, Len(s)) /\ FlattenSeq(s) = f[Len(s)]
<1>1. Len(s) # 0 /\ Len(s) \in 1 .. Len(s)
  OBVIOUS
<1> DEFINE h == CHOOSE f : f = [i \in 1 .. Len(s) |-> IF i = 1 THEN s[i] ELSE f[i - 1] \o s[i]]
<1>2. FlattenSeq(s) = h[Len(s)]
  BY <1>1 DEF FlattenSeq
<1>3. PICK g \in [1 .. Len(s) -> T] : Flattens(g, s, Len(s))
  BY <1>1, FlattenDefined
<1>4. Flattens(h, s, Len(s))
  BY <1>3 DEF Flattens
<1> HIDE DEF h
<1>5. Grows(h, s, Len(s)) /\ Grows(g, s, Len(s))
  BY <1>3, <1>4, FlattensGrows
<1>6. \A i \in 1 .. Len(s) : h[i] = g[i]
  BY <1>1, <1>5, GrowsUnique
<1>7. h = [i \in 1 .. Len(s) |-> h[i]]
  BY <1>4 DEF Flattens
<1>8. h \in [1 .. Len(s) -> T]
  BY <1>6, <1>7
<1> QED
  BY <1>2, <1>5, <1>8

LEMMA FlattenEmpty == FlattenSeq(<<>>) = <<>>
BY DEF FlattenSeq

LEMMA FlattenTyped ==
  ASSUME NEW T, Monoid(T), NEW s \in Seq(T)
  PROVE  FlattenSeq(s) \in T
<1>1. CASE s = <<>>
  BY <1>1, FlattenEmpty DEF Monoid
<1>2. CASE s # <<>>
  <2>1. PICK f \in [1 .. Len(s) -> T] : Grows(f, s, Len(s)) /\ FlattenSeq(s) = f[Len(s)]
    BY <1>2, FlattenOf
  <2>2. Len(s) \in 1 .. Len(s)
    BY <1>2
  <2> QED
    BY <2>1, <2>2
<1> QED
  BY <1>1, <1>2

\* One sequence more at the end.
LEMMA FlattenLast ==
  ASSUME NEW T, Monoid(T), NEW s \in Seq(T), NEW x \in T
  PROVE  FlattenSeq(Append(s, x)) = Cat(FlattenSeq(s), x)
<1> DEFINE t == Append(s, x)
<1>1. /\ t \in Seq(T) /\ Len(t) = Len(s) + 1 /\ t # <<>> /\ t[Len(s) + 1] = x
      /\ \A i \in 1 .. Len(s) : t[i] = s[i]
  BY AppendProperties
<1> HIDE DEF t
<1>2. PICK g \in [1 .. Len(t) -> T] : Grows(g, t, Len(t)) /\ FlattenSeq(t) = g[Len(t)]
  BY <1>1, FlattenOf
<1>3. CASE s = <<>>
  <2>1. Len(t) = 1 /\ 1 \in 1 .. Len(t)
    BY <1>1, <1>3
  <2>2. g[1] = t[1]
    BY <1>2, <2>1 DEF Grows
  <2>3. t[1] = x
    BY <1>1, <1>3
  <2>4. FlattenSeq(t) = x
    BY Zenon, <1>2, <2>1, <2>2, <2>3
  <2>5. Cat(FlattenSeq(s), x) = x
    BY Zenon, <1>3, FlattenEmpty DEF Monoid
  <2> QED
    BY <2>4, <2>5 DEF t
<1>4. CASE s # <<>>
  <2>1. PICK f \in [1 .. Len(s) -> T] : Grows(f, s, Len(s)) /\ FlattenSeq(s) = f[Len(s)]
    BY <1>4, FlattenOf
  <2>2. Len(s) \in Nat /\ Len(t) \in Nat /\ Len(s) <= Len(t)
    BY <1>1
  <2>3. Grows(f, s, Len(s)) /\ Grows(g, t, Len(t)) /\ \A i \in 1 .. Len(s) : s[i] = t[i]
    BY <1>1, <1>2, <2>1
  <2>4. \A i \in 1 .. Len(s) : f[i] = g[i]
    BY <2>2, <2>3, GrowsUnique
  <2>5. Len(s) \in 1 .. Len(s) /\ Len(t) \in 1 .. Len(t) /\ Len(t) # 1 /\ Len(t) - 1 = Len(s)
    BY <1>1, <1>4
  <2>6. g[Len(t)] = Cat(g[Len(t) - 1], t[Len(t)])
    BY <1>2, <2>5 DEF Grows
  <2>7. g[Len(t) - 1] = f[Len(s)] /\ t[Len(t)] = x
    BY <1>1, <2>4, <2>5
  <2> QED
    BY Zenon, <1>2, <2>1, <2>6, <2>7 DEF t
<1> QED
  BY <1>3, <1>4
\* One sequence more at the front.
LEMMA FlattenFirst ==
  ASSUME NEW T, Monoid(T), NEW s \in Seq(T), s # <<>>
  PROVE  FlattenSeq(s) = Cat(s[1], FlattenSeq(Tail(s)))
<1> DEFINE t == Tail(s)
<1>1. /\ t \in Seq(T) /\ Len(s) \in Nat /\ Len(s) > 0 /\ Len(t) = Len(s) - 1
      /\ \A i \in 1 .. Len(t) : t[i] = s[i + 1]
  OBVIOUS
<1>2. s[1] \in T /\ \A i \in 1 .. Len(s) : s[i] \in T
  OBVIOUS
<1> HIDE DEF t
<1>3. PICK f \in [1 .. Len(s) -> T] : Grows(f, s, Len(s)) /\ FlattenSeq(s) = f[Len(s)]
  BY FlattenOf
<1>4. CASE t = <<>>
  <2>1. Len(s) = 1
    BY <1>1, <1>4
  <2>2. FlattenSeq(s) = s[1]
    BY <1>3, <2>1 DEF Grows
  <2>3. FlattenSeq(t) = <<>>
    BY <1>4, FlattenEmpty
  <2>4. Cat(s[1], <<>>) = s[1]
    BY Zenon, <1>2 DEF Monoid
  <2> QED
    BY <2>2, <2>3, <2>4 DEF t
<1>5. CASE t # <<>>
  <2>1. PICK g \in [1 .. Len(t) -> T] : Grows(g, t, Len(t)) /\ FlattenSeq(t) = g[Len(t)]
    BY <1>1, <1>5, FlattenOf
  <2> DEFINE Bad == {i \in 1 .. Len(t) : f[i + 1] # Cat(s[1], g[i])}
  <2>2. Bad \in SUBSET Nat /\ \A i \in 1 .. Len(t) : i \notin Bad => f[i + 1] = Cat(s[1], g[i])
    BY <1>1
  <2>3. \A i \in Bad : i \in 1 .. Len(t) /\ f[i + 1] # Cat(s[1], g[i])
    OBVIOUS
  <2> HIDE DEF Bad
  <2>4. Bad = {}
    <3> SUFFICES ASSUME Bad # {} PROVE FALSE
      OBVIOUS
    <3>1. PICK i \in Bad : \A k \in Bad : i <= k
      BY <2>2, LeastPlace
    <3>2. i \in 1 .. Len(t) /\ f[i + 1] # Cat(s[1], g[i])
      BY <2>3
    <3>3. /\ i + 1 \in 1 .. Len(s) /\ i + 1 # 1 /\ (i + 1) - 1 = i /\ i \in 1 .. Len(s)
          /\ t[i] = s[i + 1] /\ t[i] \in T
      BY <1>1, <1>2, <3>2
    <3>4. f[i + 1] = Cat(f[i], t[i])
      <4>1. f[i + 1] = Cat(f[(i + 1) - 1], s[i + 1])
        BY <1>3, <3>3 DEF Grows
      <4> QED
        BY Zenon, <3>3, <4>1
    <3>5. CASE i = 1
      <4>1. f[i] = s[1] /\ g[i] = t[i]
        BY <1>3, <2>1, <3>2, <3>3, <3>5 DEF Grows
      <4> QED
        BY Zenon, <3>2, <3>4, <4>1
    <3>6. CASE i # 1
      <4>1. i - 1 \in 1 .. Len(t) /\ i - 1 < i /\ (i - 1) + 1 = i
        BY <1>1, <3>2, <3>6
      <4>2. i - 1 \notin Bad
        BY <1>1, <3>1, <3>2, <4>1
      <4>3. f[(i - 1) + 1] = Cat(s[1], g[i - 1])
        BY Zenon, <2>2, <4>1, <4>2
      <4>4. f[i] = Cat(s[1], g[i - 1])
        BY Zenon, <4>1, <4>3
      <4>5. g[i] = Cat(g[i - 1], t[i]) /\ g[i - 1] \in T
        BY <2>1, <3>2, <3>6, <4>1 DEF Grows
      <4>6. Assoc(s[1], g[i - 1], t[i])
        BY Zenon, <1>2, <3>3, <4>5, Associates
      <4> QED
        BY Zenon, <3>2, <3>4, <4>4, <4>5, <4>6 DEF Assoc
    <3> QED
      BY <3>5, <3>6
  <2>5. Len(t) \in 1 .. Len(t) /\ Len(t) + 1 = Len(s)
    BY <1>1, <1>5
  <2>6. f[Len(t) + 1] = Cat(s[1], g[Len(t)])
    BY <2>2, <2>4, <2>5
  <2> QED
    BY Zenon, <1>3, <2>1, <2>5, <2>6 DEF t
<1> QED
  BY <1>4, <1>5

Rounds(s, t, N, R, n) ==
  \A i \in 1 .. n : s[i] = Cat(N[i], R[i]) /\ t[i] = Cat(R[i], N[i + 1])

\* A first piece of each round that moves to the end of the round before it.
LEMMA Telescope ==
  ASSUME NEW T, Monoid(T), NEW n \in Nat,
         NEW N \in [1 .. n + 1 -> T], NEW R \in [1 .. n -> T],
         NEW s \in Seq(T), NEW t \in Seq(T), Len(s) = n, Len(t) = n,
         Rounds(s, t, N, R, n)
  PROVE  Cat(N[1], FlattenSeq(t)) = Cat(FlattenSeq(s), N[n + 1])
<1>0. \A i \in 1 .. n + 1 : N[i] \in T
  OBVIOUS
<1>1. CASE n = 0
  <2>1. s = <<>> /\ t = <<>> /\ n + 1 = 1
    BY <1>1
  <2>2. N[1] \in T
    BY <1>0, <1>1
  <2>3. Cat(N[1], <<>>) = N[1] /\ Cat(<<>>, N[1]) = N[1]
    BY Zenon, <2>2 DEF Monoid
  <2> QED
    BY Zenon, <2>1, <2>3, FlattenEmpty
<1>2. CASE n # 0
  <2>0. s # <<>> /\ t # <<>>
    BY <1>2
  <2>1. PICK f \in [1 .. n -> T] : Grows(f, s, n) /\ FlattenSeq(s) = f[n]
    BY <2>0, FlattenOf
  <2>2. PICK g \in [1 .. n -> T] : Grows(g, t, n) /\ FlattenSeq(t) = g[n]
    BY <2>0, FlattenOf
  <2> DEFINE Bad == {i \in 1 .. n : Cat(N[1], g[i]) # Cat(f[i], N[i + 1])}
  <2>3. Bad \in SUBSET Nat /\ \A i \in 1 .. n : i \notin Bad => Cat(N[1], g[i]) = Cat(f[i], N[i + 1])
    OBVIOUS
  <2>4. \A i \in Bad : i \in 1 .. n /\ Cat(N[1], g[i]) # Cat(f[i], N[i + 1])
    OBVIOUS
  <2> HIDE DEF Bad
  <2>5. Bad = {}
    <3> SUFFICES ASSUME Bad # {} PROVE FALSE
      OBVIOUS
    <3>1. PICK i \in Bad : \A k \in Bad : i <= k
      BY <2>3, LeastPlace
    <3>2. i \in 1 .. n /\ Cat(N[1], g[i]) # Cat(f[i], N[i + 1])
      BY <2>4
    <3>3. i \in 1 .. n + 1 /\ i + 1 \in 1 .. n + 1 /\ 1 \in 1 .. n + 1
      BY <3>2
    <3>4. N[i] \in T /\ N[i + 1] \in T /\ R[i] \in T /\ N[1] \in T /\ f[i] \in T /\ g[i] \in T
      BY <1>0, <2>1, <2>2, <3>2, <3>3
    <3>5. s[i] = Cat(N[i], R[i]) /\ t[i] = Cat(R[i], N[i + 1])
      BY Zenon, <3>2 DEF Rounds
    <3>6. Cat(N[i], R[i]) \in T /\ Cat(R[i], N[i + 1]) \in T
      BY Zenon, <3>4, Closed
    <3>7. CASE i = 1
      <4>1. f[i] = s[i] /\ g[i] = t[i]
        BY <2>1, <2>2, <3>2, <3>7 DEF Grows
      <4>2. Assoc(N[i], R[i], N[i + 1])
        BY Zenon, <3>4, Associates
      <4> QED
        BY Zenon, <3>2, <3>5, <3>7, <4>1, <4>2 DEF Assoc
    <3>8. CASE i # 1
      <4>1. i - 1 \in 1 .. n /\ i - 1 < i /\ (i - 1) + 1 = i
        BY <3>2, <3>8
      <4>2. i - 1 \notin Bad
        BY <3>1, <3>2, <4>1
      <4>3. Cat(N[1], g[i - 1]) = Cat(f[i - 1], N[(i - 1) + 1])
        BY Zenon, <2>3, <4>1, <4>2
      <4>4. Cat(N[1], g[i - 1]) = Cat(f[i - 1], N[i])
        BY Zenon, <4>1, <4>3
      <4>5. f[i] = Cat(f[i - 1], s[i]) /\ g[i] = Cat(g[i - 1], t[i]) /\ f[i - 1] \in T /\ g[i - 1] \in T
        BY <2>1, <2>2, <3>2, <3>8, <4>1 DEF Grows
      <4>6. Assoc(N[1], g[i - 1], Cat(R[i], N[i + 1]))
        BY Zenon, <3>4, <3>6, <4>5, Associates
      <4>7. Cat(f[i - 1], N[i]) \in T
        BY Zenon, <3>4, <4>5, Closed
      <4>8. Assoc(Cat(f[i - 1], N[i]), R[i], N[i + 1])
        BY Zenon, <3>4, <4>7, Associates
      <4>9. Assoc(f[i - 1], N[i], R[i])
        BY Zenon, <3>4, <4>5, Associates
      <4> QED
        BY Zenon, <3>2, <3>5, <4>4, <4>5, <4>6, <4>8, <4>9 DEF Assoc
    <3> QED
      BY <3>7, <3>8
  <2>6. n \in 1 .. n
    BY <1>2
  <2>7. Cat(N[1], g[n]) = Cat(f[n], N[n + 1])
    BY Zenon, <2>3, <2>5, <2>6
  <2> QED
    BY Zenon, <2>1, <2>2, <2>7
<1> QED
  BY <1>1, <1>2

\* Nothing added up is nothing.
LEMMA FlattenNothing ==
  ASSUME NEW T, Monoid(T), NEW s \in Seq(T), \A i \in 1 .. Len(s) : s[i] = <<>>
  PROVE  FlattenSeq(s) = <<>>
<1>1. CASE s = <<>>
  BY <1>1, FlattenEmpty
<1>2. CASE s # <<>>
  <2>1. PICK f \in [1 .. Len(s) -> T] : Grows(f, s, Len(s)) /\ FlattenSeq(s) = f[Len(s)]
    BY <1>2, FlattenOf
  <2> DEFINE Bad == {i \in 1 .. Len(s) : f[i] # <<>>}
  <2>2. Bad \in SUBSET Nat /\ \A i \in 1 .. Len(s) : i \notin Bad => f[i] = <<>>
    OBVIOUS
  <2>3. \A i \in Bad : i \in 1 .. Len(s) /\ f[i] # <<>>
    OBVIOUS
  <2> HIDE DEF Bad
  <2>4. Cat(<<>>, <<>>) = <<>>
    BY Zenon DEF Monoid
  <2>5. Bad = {}
    <3> SUFFICES ASSUME Bad # {} PROVE FALSE
      OBVIOUS
    <3>1. PICK i \in Bad : \A k \in Bad : i <= k
      BY <2>2, LeastPlace
    <3>2. i \in 1 .. Len(s) /\ f[i] # <<>> /\ s[i] = <<>>
      BY <2>3
    <3>3. i # 1
      BY <2>1, <3>2 DEF Grows
    <3>4. i - 1 \in 1 .. Len(s) /\ i - 1 < i
      BY <3>2, <3>3
    <3>5. f[i - 1] = <<>>
      BY <2>2, <3>1, <3>2, <3>4
    <3>6. f[i] = Cat(f[i - 1], s[i])
      BY <2>1, <3>2, <3>3 DEF Grows
    <3> QED
      BY Zenon, <2>4, <3>2, <3>5, <3>6
  <2>6. Len(s) \in 1 .. Len(s)
    BY <1>2
  <2> QED
    BY <2>1, <2>2, <2>5, <2>6
<1> QED
  BY <1>1, <1>2
================================================================================
