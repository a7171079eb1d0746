--------------------------- MODULE SequenceLemmas ---------------------------
(***************************************************************************)
(* Lemmas about the operators the models build sequences with.  The        *)
(* library's induction theorems take an operator as a parameter, which the *)
(* provers here cannot instantiate; SetInduction is the same principle     *)
(* with a set for the predicate, and the rest rests on it.                 *)
(***************************************************************************)
EXTENDS TimeOrdered, SequenceTheorems, FiniteSetTheorems, WellFoundedInduction, TLAPS

\* The order of naturals, as the relation of the induction theorem.
LEMMA Below ==
  ASSUME NEW x \in Nat, NEW y \in Nat
  PROVE  <<y, x>> \in OpToRel(<, Nat) <=> y < x
BY DEF OpToRel

(* A set of naturals that is not empty has a least element. *)
LEMMA SetMin ==
  ASSUME NEW T, T \subseteq Nat, T # {}
  PROVE  \E m \in T : \A n \in T : m <= n
<1>1. IsWellFoundedOn(OpToRel(<, Nat), Nat)
  BY NatLessThanWellFounded
<1>2. PICK x \in T : \A y \in T : ~ (<<y, x>> \in OpToRel(<, Nat))
  BY <1>1, WFMin
<1>3. \A y \in T : ~(y < x)
  BY <1>2, Below
<1> QED
  BY <1>3

(* Induction over the naturals, the predicate given by a set. *)
LEMMA SetInduction ==
  ASSUME NEW T, 0 \in T, \A n \in Nat : n \in T => n + 1 \in T
  PROVE  Nat \subseteq T
<1> SUFFICES ASSUME Nat \ T # {} PROVE FALSE
  OBVIOUS
<1>1. PICK m \in Nat \ T : \A n \in Nat \ T : m <= n
  BY SetMin
<1>2. m # 0 /\ m - 1 \in Nat
  BY <1>1
<1>3. m - 1 \in T
  BY <1>1, <1>2
<1> QED
  BY <1>1, <1>2, <1>3
-----------------------------------------------------------------------------
(* FlattenSeq.  f is the function of the partial concatenations.           *)

(* Concatenation under a name of its own: the SMT backend expands \o, and  *)
(* then loses its way in the recurrence. *)
Cat(s, t) == s \o t

\* Cat is associative.
LEMMA CatAssociative ==
  ASSUME NEW S, NEW s \in Seq(S), NEW t \in Seq(S), NEW u \in Seq(S)
  PROVE  Cat(Cat(s, t), u) = Cat(s, Cat(t, u))
BY ConcatAssociative, SMTT(30) DEF Cat

(* f[i] is the concatenation of the first i sequences, up to n. *)
Concatenates(f, ss, n) == f[0] = <<>> /\ \A i \in 1..n : f[i] = Cat(f[i-1], ss[i])

IsFlattening(f, ss, S) == f \in [0..Len(ss) -> Seq(S)] /\ Concatenates(f, ss, Len(ss))

(* Two of them agree as far as their arguments do. *)
LEMMA FlatteningUnique ==
  ASSUME NEW n \in Nat, NEW f, NEW g, NEW ss, NEW tt,
         Concatenates(f, ss, n), Concatenates(g, tt, n), \A i \in 1..n : ss[i] = tt[i]
  PROVE  \A i \in 0..n : f[i] = g[i]
<1> DEFINE T == {i \in Nat : i \in 0..n => f[i] = g[i]}
<1>1. 0 \in T
  BY DEF Concatenates
<1>2. ASSUME NEW i \in Nat, i \in T PROVE i + 1 \in T
  <2> SUFFICES ASSUME i + 1 \in 0..n PROVE f[i+1] = g[i+1]
    OBVIOUS
  <2>1. f[i] = g[i] /\ i + 1 \in 1..n /\ (i + 1) - 1 = i
    BY <1>2
  <2>2. f[i+1] = Cat(f[i], ss[i+1]) /\ g[i+1] = Cat(g[i], tt[i+1]) /\ ss[i+1] = tt[i+1]
    BY <2>1 DEF Concatenates
  <2> QED
    BY <2>1, <2>2
<1> HIDE DEF T
<1>3. Nat \subseteq T
  BY <1>1, <1>2, SetInduction
<1> QED
  BY <1>3 DEF T

\* Every sequence of sequences has a flattening, as FlattenSeq defines it.
LEMMA FlatteningExists ==
  ASSUME NEW S, NEW ss \in Seq(Seq(S))
  PROVE  \E f : IsFlattening(f, ss, S)
<1> DEFINE F(n, f) == /\ f \in [0..n -> Seq(S)] /\ f[0] = <<>>
                      /\ \A i \in 1..n : f[i] = Cat(f[i-1], ss[i])
           T == {n \in Nat : n <= Len(ss) => \E f : F(n, f)}
<1>1. F(0, [i \in 0..0 |-> <<>>])
  OBVIOUS
<1>2. ASSUME NEW n \in Nat, n + 1 <= Len(ss), NEW f, F(n, f) PROVE \E g : F(n + 1, g)
  <2> DEFINE g == [i \in 0..(n+1) |-> IF i = n + 1 THEN Cat(f[n], ss[n+1]) ELSE f[i]]
  <2>1. Len(ss) \in Nat
    BY LenProperties
  <2>2. ss[n+1] \in Seq(S)
    BY <1>2, <2>1, ElementOfSeq
  <2>3. Cat(f[n], ss[n+1]) \in Seq(S)
    BY <1>2, <2>2, ConcatProperties DEF Cat
  <2>4. g \in [0..(n+1) -> Seq(S)] /\ g[0] = <<>>
    BY <1>2, <2>3
  <2>5. ASSUME NEW i \in 1..(n+1) PROVE g[i] = Cat(g[i-1], ss[i])
    <3>1. CASE i = n + 1
      BY <3>1
    <3>2. CASE i # n + 1
      <4>1. i \in 1..n /\ g[i] = f[i] /\ g[i-1] = f[i-1]
        BY <3>2
      <4>2. f[i] = Cat(f[i-1], ss[i])
        BY <1>2, <4>1
      <4> QED
        BY <4>1, <4>2
    <3> QED
      BY <3>1, <3>2
  <2> HIDE DEF g
  <2>6. F(n + 1, g)
    BY <2>4, <2>5
  <2> HIDE DEF F
  <2> QED
    BY <2>6
<1> HIDE DEF F
<1>3. 0 \in T
  BY <1>1
<1>4. ASSUME NEW n \in Nat, n \in T PROVE n + 1 \in T
  <2>1. Len(ss) \in Nat
    BY LenProperties
  <2>2. n + 1 <= Len(ss) => \E f : F(n, f)
    BY <1>4, <2>1
  <2>3. n + 1 <= Len(ss) => \E g : F(n + 1, g)
    BY <1>2, <2>2
  <2> QED
    BY <2>3
<1> HIDE DEF T
<1>5. Nat \subseteq T
  BY <1>3, <1>4, SetInduction
<1>6. Len(ss) \in Nat /\ Len(ss) \in T
  BY <1>5, LenProperties
<1>7. PICK f : F(Len(ss), f)
  BY <1>6 DEF T
<1> QED
  BY <1>7 DEF IsFlattening, Concatenates, F

(* FlattenSeq is the last of the partial concatenations. *)
LEMMA FlattenIs ==
  ASSUME NEW S, NEW ss \in Seq(Seq(S)), NEW f, IsFlattening(f, ss, S)
  PROVE  FlattenSeq(ss) = f[Len(ss)] /\ FlattenSeq(ss) \in Seq(S)
<1> DEFINE n == Len(ss)
           Body(h, i) == IF i = 1 THEN ss[i] ELSE Cat(h[i-1], ss[i])
           R(h) == h = [i \in 1..n |-> Body(h, i)]
           h0 == CHOOSE h : R(h)
<1>1. n \in Nat /\ \A i \in 1..n : ss[i] \in Seq(S)
  BY LenProperties, ElementOfSeq
<1>2. f[n] \in Seq(S)
  BY <1>1 DEF IsFlattening
<1>3. \A i \in 1..n : Cat(<<>>, ss[i]) = ss[i]
  BY <1>1, ConcatEmptySeq DEF Cat
<1>4. f[0] = <<>> /\ \A i \in 1..n : f[i] = Cat(f[i-1], ss[i])
  BY DEF IsFlattening, Concatenates
<1>5. CASE n = 0
  <2>1. ss = <<>>
    BY <1>5, EmptySeq
  <2>2. FlattenSeq(ss) = ss
    BY <1>5 DEF FlattenSeq
  <2> QED
    BY <1>2, <1>4, <1>5, <2>1, <2>2
<1>6. CASE n # 0
  <2>1. FlattenSeq(ss) = h0[n]
    BY <1>6 DEF FlattenSeq, Cat
  <2> DEFINE g == [i \in 1..n |-> f[i]]
  <2> HIDE DEF n
  <2>2. ASSUME NEW i \in 1..n PROVE g[i] = Body(g, i)
    <3>1. CASE i = 1
      <4>1. f[1] = Cat(<<>>, ss[1])
        BY <1>1, <1>4, <3>1
      <4> QED
        BY <1>3, <3>1, <4>1
    <3>2. CASE i # 1
      <4>1. f[i] = Cat(f[i-1], ss[i]) /\ i - 1 \in 1..n
        BY <1>1, <1>4, <3>2
      <4> QED
        BY <3>2, <4>1
    <3> QED
      BY <3>1, <3>2
  <2>3. R(g)
    <3> HIDE DEF Body
    <3> QED
      BY <2>2
  <2>4. R(h0)
    <3> HIDE DEF R
    <3> QED
      BY <2>3
  <2>5. \A i \in 1..n : h0[i] = Body(h0, i)
    <3> HIDE DEF Body, h0
    <3> QED
      BY <2>4
  <2> HIDE DEF h0
  <2> DEFINE k == [i \in 0..n |-> IF i = 0 THEN <<>> ELSE h0[i]]
  <2>6. ASSUME NEW i \in 1..n PROVE k[i] = Cat(k[i-1], ss[i])
    <3>1. CASE i = 1
      <4>1. k[1] = ss[1] /\ k[0] = <<>>
        BY <1>1, <2>5, <3>1
      <4> QED
        BY <1>3, <3>1, <4>1
    <3>2. CASE i # 1
      <4>1. i - 1 \in 1..n /\ i - 1 \in 0..n /\ i - 1 # 0 /\ i \in 0..n /\ i # 0
        BY <1>1, <3>2
      <4>2. k[i] = h0[i] /\ k[i-1] = h0[i-1] /\ h0[i] = Cat(h0[i-1], ss[i])
        BY <2>5, <3>2, <4>1
      <4> QED
        BY <4>2
    <3> QED
      BY <3>1, <3>2
  <2>7. k[0] = <<>> /\ k[n] = h0[n]
    BY <1>1, <1>6
  <2> HIDE DEF k
  <2>8. Concatenates(k, ss, n) /\ Concatenates(f, ss, n)
    BY <1>4, <2>6, <2>7 DEF Concatenates
  <2>9. \A i \in 0..n : k[i] = f[i]
    BY <1>1, <2>8, FlatteningUnique
  <2> QED
    BY <1>1, <1>2, <2>1, <2>7, <2>9 DEF n
<1> QED
  BY <1>5, <1>6

(* The empty sequence of sequences flattens to the empty sequence, and so  *)
(* on from the right and from the left. *)
LEMMA FlattenEmpty == FlattenSeq(<<>>) = <<>>
BY DEF FlattenSeq

\* Flattening with one sequence more.
LEMMA FlattenAppend ==
  ASSUME NEW S, NEW ss \in Seq(Seq(S)), NEW s \in Seq(S)
  PROVE  /\ FlattenSeq(Append(ss, s)) = FlattenSeq(ss) \o s
         /\ FlattenSeq(ss) \in Seq(S)
<1> DEFINE tt == Append(ss, s)
           n == Len(ss)
<1>1. /\ tt \in Seq(Seq(S)) /\ Len(tt) = n + 1 /\ n \in Nat
      /\ tt[n + 1] = s /\ \A i \in 1..n : ss[i] = tt[i]
  BY AppendProperties, LenProperties
<1>2. PICK f : IsFlattening(f, ss, S)
  BY FlatteningExists
<1>3. PICK g : IsFlattening(g, tt, S)
  BY <1>1, FlatteningExists
<1>4. FlattenSeq(ss) = f[n] /\ FlattenSeq(ss) \in Seq(S)
  BY <1>2, FlattenIs
<1>5. FlattenSeq(tt) = g[n + 1]
  BY <1>1, <1>3, FlattenIs
<1> HIDE DEF tt, n
<1>6. Concatenates(f, ss, n) /\ Concatenates(g, tt, n)
  BY <1>1, <1>2, <1>3 DEF IsFlattening, Concatenates, n
<1>7. f[n] = g[n]
  BY <1>1, <1>6, FlatteningUnique
<1>8. n + 1 \in 1..(n + 1) /\ (n + 1) - 1 = n
  BY <1>1
<1>9. g[n + 1] = Cat(g[n], s)
  BY <1>1, <1>3, <1>8 DEF IsFlattening, Concatenates
<1> QED
  BY <1>4, <1>5, <1>7, <1>9 DEF Cat, tt

\* Flattening the head and the tail.
LEMMA FlattenHeadTail ==
  ASSUME NEW S, NEW ss \in Seq(Seq(S)), ss # <<>>
  PROVE  /\ FlattenSeq(ss) = Head(ss) \o FlattenSeq(Tail(ss))
         /\ FlattenSeq(Tail(ss)) \in Seq(S)
<1> DEFINE tt == Tail(ss)
           n == Len(tt)
<1>1. /\ tt \in Seq(Seq(S)) /\ n = Len(ss) - 1 /\ n \in Nat /\ Head(ss) = ss[1]
      /\ Head(ss) \in Seq(S) /\ Len(ss) \in Nat
      /\ \A i \in 1..n : tt[i] = ss[i+1]
  BY HeadTailProperties, LenProperties, EmptySeq
<1>2. PICK f : IsFlattening(f, ss, S)
  BY FlatteningExists
<1>3. PICK g : IsFlattening(g, tt, S)
  BY <1>1, FlatteningExists
<1>4. FlattenSeq(ss) = f[n + 1]
  BY <1>1, <1>2, FlattenIs
<1>5. FlattenSeq(tt) = g[n] /\ FlattenSeq(tt) \in Seq(S)
  BY <1>1, <1>3, FlattenIs
<1>6. /\ g[0] = <<>> /\ \A i \in 1..n : g[i] = Cat(g[i-1], tt[i])
      /\ f[0] = <<>> /\ \A i \in 1..(n+1) : f[i] = Cat(f[i-1], ss[i])
  BY <1>1, <1>2, <1>3 DEF IsFlattening, Concatenates
<1>7. \A i \in 0..n : g[i] \in Seq(S)
  BY <1>3 DEF IsFlattening
<1>8. \A i \in 1..n : tt[i] \in Seq(S)
  BY <1>1, ElementOfSeq
<1> HIDE DEF tt, n
<1> DEFINE T == {i \in Nat : i \in 0..n => f[i+1] = Cat(Head(ss), g[i])}
<1>9. 0 \in T
  <2>1. f[1] = Cat(f[0], ss[1])
    BY <1>1, <1>6
  <2>2. Cat(<<>>, Head(ss)) = Head(ss) /\ Cat(Head(ss), <<>>) = Head(ss)
    BY <1>1, ConcatEmptySeq DEF Cat
  <2> QED
    BY <1>1, <1>6, <2>1, <2>2
<1>10. ASSUME NEW i \in Nat, i \in T PROVE i + 1 \in T
  <2> SUFFICES ASSUME i + 1 \in 0..n PROVE f[(i+1)+1] = Cat(Head(ss), g[i+1])
    OBVIOUS
  <2>1. /\ i \in 0..n /\ i + 1 \in 1..n /\ (i + 1) - 1 = i
        /\ (i + 1) + 1 \in 1..(n+1) /\ ((i + 1) + 1) - 1 = i + 1
    BY <1>1
  <2>2. f[i+1] = Cat(Head(ss), g[i])
    BY <1>10, <2>1
  <2>3. f[(i+1)+1] = Cat(f[i+1], tt[i+1])
    BY <1>1, <1>6, <2>1
  <2>4. g[i+1] = Cat(g[i], tt[i+1])
    BY <1>6, <2>1
  <2>5. Cat(Cat(Head(ss), g[i]), tt[i+1]) = Cat(Head(ss), Cat(g[i], tt[i+1]))
    <3>1. Head(ss) \in Seq(S) /\ g[i] \in Seq(S) /\ tt[i+1] \in Seq(S)
      BY <1>1, <1>7, <1>8, <2>1
    <3> QED
      BY <3>1, CatAssociative
  <2> QED
    BY <2>2, <2>3, <2>4, <2>5
<1> HIDE DEF T
<1>11. n \in T
  BY <1>1, <1>9, <1>10, SetInduction
<1>12. f[n + 1] = Cat(Head(ss), g[n])
  BY <1>1, <1>11 DEF T
<1> QED
  BY <1>4, <1>5, <1>12 DEF Cat, tt
-----------------------------------------------------------------------------
(* The concatenation of what a function makes of each element.             *)

FlatMap(f, s) == FlattenSeq([i \in 1..Len(s) |-> f[s[i]]])

\* The image of a sequence is a sequence of sequences.
LEMMA FlatMapParts ==
  ASSUME NEW S, NEW E, NEW f \in [E -> Seq(S)], NEW s \in Seq(E)
  PROVE  /\ [i \in 1..Len(s) |-> f[s[i]]] \in Seq(Seq(S))
         /\ Len([i \in 1..Len(s) |-> f[s[i]]]) = Len(s)
<1>1. Len(s) \in Nat /\ \A i \in 1..Len(s) : s[i] \in E
  BY LenProperties, ElementOfSeq
<1>2. \A i \in 1..Len(s) : f[s[i]] \in Seq(S)
  BY <1>1
<1> QED
  BY <1>1, <1>2

\* A FlatMap is a sequence.
LEMMA FlatMapType ==
  ASSUME NEW S, NEW E, NEW f \in [E -> Seq(S)], NEW s \in Seq(E)
  PROVE  FlatMap(f, s) \in Seq(S)
<1> DEFINE ss == [i \in 1..Len(s) |-> f[s[i]]]
<1>1. ss \in Seq(Seq(S))
  BY FlatMapParts
<1> HIDE DEF ss
<1>2. FlattenSeq(ss) \in Seq(S)
  BY <1>1, FlattenAppend, EmptySeq
<1> QED
  BY <1>2 DEF FlatMap, ss

\* FlatMap of nothing.
LEMMA FlatMapEmpty == \A f : FlatMap(f, <<>>) = <<>>
<1> SUFFICES ASSUME NEW f PROVE FlatMap(f, <<>>) = <<>>
  OBVIOUS
<1> DEFINE ss == [i \in 1..Len(<<>>) |-> f[<<>>[i]]]
<1>1. ss \in Seq({}) /\ Len(ss) = 0
  BY EmptySeq
<1>2. ss = <<>>
  BY <1>1, EmptySeq
<1> QED
  BY <1>2, FlattenEmpty DEF FlatMap

\* FlatMap of one element more.
LEMMA FlatMapAppend ==
  ASSUME NEW S, NEW E, NEW f \in [E -> Seq(S)], NEW s \in Seq(E), NEW e \in E
  PROVE  FlatMap(f, Append(s, e)) = FlatMap(f, s) \o f[e]
<1> DEFINE t == Append(s, e)
           ss == [i \in 1..Len(s) |-> f[s[i]]]
           tt == [i \in 1..Len(t) |-> f[t[i]]]
<1>1. /\ t \in Seq(E) /\ Len(t) = Len(s) + 1 /\ Len(s) \in Nat
      /\ t[Len(s) + 1] = e /\ \A i \in 1..Len(s) : t[i] = s[i]
  BY AppendProperties, LenProperties
<1>2. ss \in Seq(Seq(S)) /\ Len(ss) = Len(s)
  BY FlatMapParts
<1>3. tt \in Seq(Seq(S)) /\ Len(tt) = Len(t)
  BY <1>1, FlatMapParts
<1>4. f[e] \in Seq(S)
  OBVIOUS
<1>5. Append(ss, f[e]) = tt
  <2>1. /\ Append(ss, f[e]) \in Seq(Seq(S)) /\ Len(Append(ss, f[e])) = Len(s) + 1
        /\ Append(ss, f[e])[Len(s) + 1] = f[e]
        /\ \A i \in 1..Len(s) : Append(ss, f[e])[i] = ss[i]
    BY <1>2, <1>4, AppendProperties
  <2>2. \A i \in 1..Len(s) : ss[i] = f[s[i]]
    OBVIOUS
  <2>3. \A i \in 1..(Len(s) + 1) : tt[i] = f[t[i]]
    BY <1>1
  <2> HIDE DEF ss, tt, t
  <2>4. \A i \in 1..(Len(s) + 1) : Append(ss, f[e])[i] = tt[i]
    <3> SUFFICES ASSUME NEW i \in 1..(Len(s) + 1) PROVE Append(ss, f[e])[i] = tt[i]
      OBVIOUS
    <3>1. CASE i \in 1..Len(s)
      BY <1>1, <2>1, <2>2, <2>3, <3>1, SMTT(30)
    <3>2. CASE i \notin 1..Len(s)
      <4>1. i = Len(s) + 1
        BY <1>1, <3>2
      <4> QED
        BY <1>1, <2>1, <2>3, <4>1
    <3> QED
      BY <3>1, <3>2
  <2> QED
    BY <1>1, <1>3, <2>1, <2>4, SeqEqual
<1> HIDE DEF ss, tt, t
<1>6. FlattenSeq(tt) = FlattenSeq(ss) \o f[e]
  BY <1>2, <1>4, <1>5, FlattenAppend
<1> QED
  BY <1>6 DEF FlatMap, ss, tt, t

(* A sequence that is not empty has a last element. *)
LEMMA FrontLast ==
  ASSUME NEW S, NEW n \in Nat, NEW s \in Seq(S), Len(s) = n + 1
  PROVE  \E t \in Seq(S), x \in S : s = Append(t, x) /\ Len(t) = n
<1> DEFINE t == SubSeq(s, 1, n)
           x == s[n + 1]
<1>1. x \in S /\ \A i \in 1..n : s[i] \in S
  BY ElementOfSeq
<1>2. t \in Seq(S) /\ Len(t) = n /\ \A i \in 1..n : t[i] = s[i]
  <2>1. /\ t \in Seq(S) /\ Len(t) = (IF 1 <= n THEN n - 1 + 1 ELSE 0)
        /\ \A i \in 1..(n - 1 + 1) : t[i] = s[1 + i - 1]
    <3> HIDE DEF t
    <3> QED
      BY <1>1, SubSeqProperties DEF t
  <2> HIDE DEF t
  <2> QED
    BY <2>1
<1> HIDE DEF t, x
<1>3. /\ Append(t, x) \in Seq(S) /\ Len(Append(t, x)) = n + 1 /\ Append(t, x)[n + 1] = x
      /\ \A i \in 1..n : Append(t, x)[i] = t[i]
  BY <1>1, <1>2, AppendProperties
<1>4. \A i \in 1..(n + 1) : s[i] = Append(t, x)[i]
  <2> SUFFICES ASSUME NEW i \in 1..(n + 1) PROVE s[i] = Append(t, x)[i]
    OBVIOUS
  <2>1. CASE i \in 1..n
    BY <1>2, <1>3, <2>1
  <2>2. CASE i \notin 1..n
    <3>1. i = n + 1
      BY <2>2
    <3> QED
      BY <1>3, <3>1 DEF x
  <2> QED
    BY <2>1, <2>2
<1>5. s = Append(t, x)
  BY <1>3, <1>4, SeqEqual
<1> QED
  BY <1>1, <1>2, <1>5

(* The same under names that the SMT backend leaves alone. *)
Maps(f, E, S) == f \in [E -> Seq(S)]

\* FlatMap of two sequences in a row.
LEMMA FlatMapCat ==
  ASSUME NEW S, NEW E, NEW f, Maps(f, E, S)
  PROVE  \A s \in Seq(E), e \in E : FlatMap(f, Append(s, e)) = Cat(FlatMap(f, s), f[e])
<1> SUFFICES ASSUME NEW s \in Seq(E), NEW e \in E
             PROVE  FlatMap(f, Append(s, e)) = Cat(FlatMap(f, s), f[e])
  OBVIOUS
<1>1. f \in [E -> Seq(S)]
  BY DEF Maps
<1> QED
  BY <1>1, FlatMapAppend, SMTT(30) DEF Cat

\* Append at the end of the second.
LEMMA CatAppend ==
  ASSUME NEW S, NEW s \in Seq(S), NEW t \in Seq(S), NEW x \in S
  PROVE  Cat(s, t) \in Seq(S) /\ Cat(s, Append(t, x)) = Append(Cat(s, t), x)
<1>1. s \o t \in Seq(S) /\ <<x>> \in Seq(S)
  BY ConcatProperties
<1>2. Append(t, x) = t \o <<x>> /\ Append(s \o t, x) = (s \o t) \o <<x>>
  BY <1>1, AppendIsConcat
<1> DEFINE v == <<x>>
<1>3. v \in Seq(S)
  BY <1>1
<1> HIDE DEF v
<1>4. Cat(Cat(s, t), v) = Cat(s, Cat(t, v))
  BY <1>3, CatAssociative
<1> QED
  BY <1>1, <1>2, <1>4 DEF Cat, v

\* c is a sequence over S that joins s and t.
Joins(c, s, t, S) ==
  /\ c \in Seq(S)
  /\ Len(s) \in Nat /\ Len(t) \in Nat /\ Len(c) = Len(s) + Len(t)
  /\ \A i \in 1..Len(s) : c[i] = s[i] /\ s[i] \in S
  /\ \A i \in 1..Len(t) : c[Len(s) + i] = t[i] /\ t[i] \in S

\* Cat joins two sequences.
LEMMA CatJoins ==
  ASSUME NEW S, NEW s \in Seq(S), NEW t \in Seq(S)
  PROVE  Joins(Cat(s, t), s, t, S)
<1> DEFINE u == s \o t
<1>1. /\ u \in Seq(S) /\ Len(u) = Len(s) + Len(t)
      /\ \A i \in 1..(Len(s) + Len(t)) : u[i] = IF i <= Len(s) THEN s[i] ELSE t[i - Len(s)]
  BY ConcatProperties
<1>2. /\ Len(s) \in Nat /\ Len(t) \in Nat
      /\ (\A i \in 1..Len(s) : s[i] \in S) /\ (\A i \in 1..Len(t) : t[i] \in S)
  BY LenProperties, ElementOfSeq
<1>3. Cat(s, t) = u
  BY DEF Cat
<1> HIDE DEF u
<1>4. \A i \in 1..Len(s) : u[i] = s[i]
  BY <1>1, <1>2
<1>5. \A i \in 1..Len(t) : u[Len(s) + i] = t[i]
  <2> SUFFICES ASSUME NEW i \in 1..Len(t) PROVE u[Len(s) + i] = t[i]
    OBVIOUS
  <2>1. Len(s) + i \in 1..(Len(s) + Len(t)) /\ ~(Len(s) + i <= Len(s)) /\ (Len(s) + i) - Len(s) = i
    BY <1>2
  <2> QED
    BY <1>1, <2>1
<1>6. Joins(u, s, t, S)
  BY <1>1, <1>2, <1>4, <1>5 DEF Joins
<1> QED
  BY <1>3, <1>6

\* The elements of a Cat.
LEMMA CatElements ==
  ASSUME NEW S, NEW s \in Seq(S), NEW t \in Seq(S)
  PROVE  /\ Cat(s, t) \in Seq(S)
         /\ Len(s) \in Nat /\ Len(t) \in Nat /\ Len(Cat(s, t)) = Len(s) + Len(t)
         /\ \A i \in 1..Len(s) : Cat(s, t)[i] = s[i] /\ s[i] \in S
         /\ \A i \in 1..Len(t) : Cat(s, t)[Len(s) + i] = t[i] /\ t[i] \in S
<1>1. Joins(Cat(s, t), s, t, S)
  BY CatJoins
<1> QED
  BY <1>1 DEF Joins

(* What is cut in two comes together again. *)
LEMMA CatSplit ==
  ASSUME NEW S, NEW s \in Seq(S), NEW n \in 0..Len(s)
  PROVE  /\ SubSeq(s, 1, n) \in Seq(S) /\ SubSeq(s, n + 1, Len(s)) \in Seq(S)
         /\ Len(SubSeq(s, 1, n)) = n
         /\ Cat(SubSeq(s, 1, n), SubSeq(s, n + 1, Len(s))) = s
<1> DEFINE a == SubSeq(s, 1, n)
           b == SubSeq(s, n + 1, Len(s))
<1>1. Len(s) \in Nat /\ n \in Nat /\ n <= Len(s) /\ \A i \in 1..Len(s) : s[i] \in S
  BY LenProperties, ElementOfSeq
<1>2. /\ a \in Seq(S) /\ Len(a) = (IF 1 <= n THEN n - 1 + 1 ELSE 0)
      /\ \A i \in 1..(n - 1 + 1) : a[i] = s[1 + i - 1]
  <2>1. \A i \in 1..n : s[i] \in S
    BY <1>1
  <2> HIDE DEF a
  <2> QED
    BY <1>1, <2>1, SubSeqProperties DEF a
<1>3. /\ b \in Seq(S)
      /\ Len(b) = (IF n + 1 <= Len(s) THEN Len(s) - (n + 1) + 1 ELSE 0)
      /\ \A i \in 1..(Len(s) - (n + 1) + 1) : b[i] = s[(n + 1) + i - 1]
  <2>1. \A i \in (n + 1)..Len(s) : s[i] \in S
    BY <1>1
  <2>2. n + 1 \in Int /\ Len(s) \in Int
    BY <1>1
  <2> HIDE DEF b
  <2> QED
    BY <2>1, <2>2, SubSeqProperties DEF b
<1> HIDE DEF a, b
<1>4. Len(a) = n /\ \A i \in 1..n : a[i] = s[i]
  BY <1>1, <1>2
<1>5. Len(b) = Len(s) - n /\ \A i \in 1..(Len(s) - n) : b[i] = s[n + i]
  BY <1>1, <1>3
<1> DEFINE c == Cat(a, b)
<1>6. /\ c \in Seq(S) /\ Len(c) = Len(a) + Len(b)
      /\ \A i \in 1..Len(a) : c[i] = a[i]
      /\ \A i \in 1..Len(b) : c[Len(a) + i] = b[i]
  <2>1. a \in Seq(S) /\ b \in Seq(S)
    BY <1>2, <1>3
  <2> HIDE DEF c
  <2>2. c = Cat(a, b)
    BY DEF c
  <2>3. Joins(c, a, b, S)
    BY <2>1, <2>2, CatJoins
  <2> QED
    BY <2>3 DEF Joins
<1> HIDE DEF c
<1>7. Len(c) = Len(s)
  BY <1>1, <1>4, <1>5, <1>6
<1>8. ASSUME NEW i \in 1..Len(s) PROVE c[i] = s[i]
  <2>1. CASE i <= n
    BY <1>1, <1>4, <1>6, <2>1
  <2>2. CASE n < i
    <3> DEFINE j == i - n
    <3>1. j \in 1..Len(b) /\ j \in 1..(Len(s) - n) /\ n + j = i
      BY <1>1, <1>5, <2>2
    <3> HIDE DEF j
    <3>2. c[n + j] = b[j]
      BY <1>4, <1>6, <3>1
    <3> QED
      BY <1>5, <3>1, <3>2
  <2> QED
    BY <1>1, <2>1, <2>2
<1>9. c = s
  BY <1>6, <1>7, <1>8, SeqEqual
<1> QED
  BY <1>2, <1>3, <1>4, <1>9 DEF a, b, c

\* A subsequence as a sequence of elements.
LEMMA Slice ==
  ASSUME NEW S, NEW s \in Seq(S), NEW a \in 1..(Len(s) + 1), NEW b \in 0..Len(s), a <= b + 1
  PROVE  /\ SubSeq(s, a, b) \in Seq(S) /\ Len(SubSeq(s, a, b)) = b - a + 1
         /\ \A i \in 1..(b - a + 1) : SubSeq(s, a, b)[i] = s[a + i - 1]
<1>1. Len(s) \in Nat /\ \A i \in 1..Len(s) : s[i] \in S
  BY LenProperties, ElementOfSeq
<1>2. /\ a \in Int /\ b \in Int /\ (\A i \in a..b : s[i] \in S)
      /\ (IF a <= b THEN b - a + 1 ELSE 0) = b - a + 1
  BY <1>1
<1> QED
  BY <1>2, SubSeqProperties

\* The empty sequence is neutral.
LEMMA CatEmpty ==
  ASSUME NEW S, NEW s \in Seq(S)
  PROVE  Cat(s, <<>>) = s /\ Cat(<<>>, s) = s
BY ConcatEmptySeq DEF Cat

\* FlatMapCat with \o.
LEMMA FlatMapConcat ==
  ASSUME NEW S, NEW E, NEW f, Maps(f, E, S)
  PROVE  \A s, t \in Seq(E) : FlatMap(f, Cat(s, t)) = Cat(FlatMap(f, s), FlatMap(f, t))
<1> SUFFICES ASSUME NEW s \in Seq(E), NEW t \in Seq(E)
             PROVE  FlatMap(f, Cat(s, t)) = Cat(FlatMap(f, s), FlatMap(f, t))
  OBVIOUS
<1>f. f \in [E -> Seq(S)]
  BY DEF Maps
<1> DEFINE Goal(u) == FlatMap(f, Cat(s, u)) = Cat(FlatMap(f, s), FlatMap(f, u))
           T == {n \in Nat : \A u \in Seq(E) : Len(u) = n => Goal(u)}
<1>0. \A w \in Seq(E), y \in E : FlatMap(f, Append(w, y)) = Cat(FlatMap(f, w), f[y])
  BY FlatMapCat
<1>1. 0 \in T
  <2> SUFFICES ASSUME NEW u \in Seq(E), Len(u) = 0 PROVE Goal(u)
    OBVIOUS
  <2>1. u = <<>> /\ Cat(s, u) = s
    BY EmptySeq, CatEmpty
  <2>2. FlatMap(f, u) = <<>> /\ FlatMap(f, s) \in Seq(S)
    BY <1>f, <2>1, FlatMapEmpty, FlatMapType
  <2>3. Cat(FlatMap(f, s), FlatMap(f, u)) = FlatMap(f, s)
    BY <2>2, CatEmpty
  <2> QED
    BY <2>1, <2>3
<1>2. ASSUME NEW n \in Nat, n \in T PROVE n + 1 \in T
  <2> SUFFICES ASSUME NEW u \in Seq(E), Len(u) = n + 1 PROVE Goal(u)
    OBVIOUS
  <2>1. PICK v \in Seq(E), x \in E : u = Append(v, x) /\ Len(v) = n
    BY FrontLast
  <2>2. Cat(s, v) \in Seq(E) /\ Cat(s, u) = Append(Cat(s, v), x)
    BY <2>1, CatAppend
  <2>3. FlatMap(f, Append(Cat(s, v), x)) = Cat(FlatMap(f, Cat(s, v)), f[x])
    BY <2>2, <1>0
  <2>4. FlatMap(f, Append(v, x)) = Cat(FlatMap(f, v), f[x])
    BY <1>0
  <2>5. FlatMap(f, Cat(s, v)) = Cat(FlatMap(f, s), FlatMap(f, v))
    BY <1>2, <2>1
  <2>6. Cat(Cat(FlatMap(f, s), FlatMap(f, v)), f[x]) = Cat(FlatMap(f, s), Cat(FlatMap(f, v), f[x]))
    <3>1. FlatMap(f, s) \in Seq(S) /\ FlatMap(f, v) \in Seq(S) /\ f[x] \in Seq(S)
      BY <1>f, FlatMapType
    <3> QED
      BY <3>1, CatAssociative
  <2> QED
    BY <2>1, <2>2, <2>3, <2>4, <2>5, <2>6
<1>3. Goal(t)
  <2>1. Len(t) \in Nat
    BY LenProperties
  <2>2. Len(t) \in T
    <3> HIDE DEF T
    <3> QED
      BY <1>1, <1>2, <2>1, SetInduction
  <2> QED
    BY <2>2
<1> QED
  BY <1>3
-----------------------------------------------------------------------------
(* A line: a sequence nobody is in twice.                                  *)

\* A line with one more at its end.
LEMMA JoinLine ==
  ASSUME NEW S, NEW s \in Seq(S), IsInjective(s), NEW c \in S, c \notin ToSet(s)
  PROVE  /\ Append(s, c) \in Seq(S) /\ IsInjective(Append(s, c))
         /\ ToSet(Append(s, c)) = ToSet(s) \cup {c}
<1> DEFINE t == Append(s, c)
           n == Len(s)
<1>1. /\ n \in Nat /\ t \in Seq(S) /\ Len(t) = n + 1 /\ DOMAIN t = 1..(n + 1)
      /\ DOMAIN s = 1..n /\ t[n + 1] = c /\ \A i \in 1..n : t[i] = s[i]
  OBVIOUS
<1> HIDE DEF t, n
<1>2. \A i \in 1..n : s[i] # c
  BY <1>1 DEF ToSet
<1>3. IsInjective(t)
  <2> SUFFICES ASSUME NEW i \in 1..(n + 1), NEW j \in 1..(n + 1), t[i] = t[j] PROVE i = j
    BY <1>1 DEF IsInjective
  <2>1. CASE i \in 1..n /\ j \in 1..n
    BY <1>1, <2>1 DEF IsInjective
  <2>2. CASE i = n + 1 \/ j = n + 1
    BY <1>1, <1>2, <2>2
  <2> QED
    BY <1>1, <2>1, <2>2
<1>4. ToSet(t) = ToSet(s) \cup {c}
  BY <1>1 DEF ToSet
<1> QED
  BY <1>1, <1>3, <1>4 DEF t

\* A line whose first is served.
LEMMA ServeLine ==
  ASSUME NEW S, NEW s \in Seq(S), IsInjective(s), s # <<>>
  PROVE  /\ Head(s) \in S /\ Head(s) \in ToSet(s)
         /\ Tail(s) \in Seq(S) /\ IsInjective(Tail(s))
         /\ ToSet(Tail(s)) = ToSet(s) \ {Head(s)}
<1> DEFINE t == Tail(s)
           n == Len(s)
<1>1. /\ n \in Nat \ {0} /\ DOMAIN s = 1..n /\ Head(s) = s[1] /\ s[1] \in S
      /\ t \in Seq(S) /\ DOMAIN t = 1..(n - 1) /\ \A i \in 1..(n - 1) : t[i] = s[i + 1]
  OBVIOUS
<1> HIDE DEF t, n
<1>2. \A i, j \in 1..n : s[i] = s[j] => i = j
  BY <1>1 DEF IsInjective
<1>3. IsInjective(t)
  <2> SUFFICES ASSUME NEW i \in 1..(n - 1), NEW j \in 1..(n - 1), t[i] = t[j] PROVE i = j
    BY <1>1 DEF IsInjective
  <2>1. i + 1 \in 1..n /\ j + 1 \in 1..n /\ s[i + 1] = s[j + 1]
    BY <1>1
  <2> QED
    BY <1>2, <2>1
<1>4. ASSUME NEW x PROVE x \in ToSet(t) <=> x \in ToSet(s) /\ x # s[1]
  <2>1. ASSUME x \in ToSet(t) PROVE x \in ToSet(s) /\ x # s[1]
    <3>1. PICK i \in 1..(n - 1) : x = t[i]
      BY <1>1, <2>1 DEF ToSet
    <3>2. x = s[i + 1] /\ i + 1 \in 1..n /\ i + 1 # 1
      BY <1>1, <3>1
    <3> QED
      BY <1>1, <1>2, <3>2, SMTT(30) DEF ToSet
  <2>2. ASSUME x \in ToSet(s), x # s[1] PROVE x \in ToSet(t)
    <3>1. PICK i \in 1..n : x = s[i]
      BY <1>1, <2>2 DEF ToSet
    <3>2. i - 1 \in 1..(n - 1) /\ x = t[i - 1]
      BY <1>1, <2>2, <3>1
    <3> QED
      BY <1>1, <3>2 DEF ToSet
  <2> QED
    BY <2>1, <2>2
<1>5. s[1] \in ToSet(s)
  BY <1>1 DEF ToSet
<1>6. ToSet(t) = ToSet(s) \ {s[1]}
  BY <1>4
<1> QED
  BY <1>1, <1>3, <1>5, <1>6 DEF t

\* A line that somebody leaves.
LEMMA LeaveLine ==
  ASSUME NEW S, NEW s \in Seq(S), IsInjective(s), NEW c
  PROVE  /\ RemoveFirst(s, c) \in Seq(S) /\ IsInjective(RemoveFirst(s, c))
         /\ ToSet(RemoveFirst(s, c)) = ToSet(s) \ {c}
<1> DEFINE n == Len(s)
           I == {i \in 1..n : s[i] = c}
<1>1. n \in Nat /\ DOMAIN s = 1..n /\ \A i \in 1..n : s[i] \in S
  OBVIOUS
<1>2. CASE I = {}
  <2>1. RemoveFirst(s, c) = s
    BY <1>2 DEF RemoveFirst
  <2>2. c \notin ToSet(s)
    BY <1>1, <1>2 DEF ToSet
  <2> QED
    BY <2>1, <2>2
<1>3. CASE I # {}
  <2> DEFINE k == Min(I)
             t == RemoveFirst(s, c)
  <2>1. RemoveFirst(s, c) = SubSeq(s, 1, k - 1) \o SubSeq(s, k + 1, Len(s))
    BY <1>3 DEF RemoveFirst, RemoveAt, SelectInSeq
  <2>2. k \in I
    <3>1. I \subseteq Nat
      BY <1>1
    <3>2. \E x \in I : \A y \in I : x <= y
      BY <1>3, <3>1, SetMin
    <3> HIDE DEF I
    <3> QED
      BY <3>2 DEF Min
  <2>3. k \in 1..n /\ s[k] = c
    BY <2>2
  <2> HIDE DEF k, n, I
  <2> DEFINE a == SubSeq(s, 1, k - 1)
             b == SubSeq(s, k + 1, n)
  <2>4. /\ a \in Seq(S) /\ Len(a) = k - 1 /\ \A i \in 1..(k - 1) : a[i] = s[i]
        /\ b \in Seq(S) /\ Len(b) = n - k /\ \A i \in 1..(n - k) : b[i] = s[i + k]
    <3>1. k \in Int /\ n \in Int /\ k \in 1..n
      BY <1>1, <2>3
    <3>2. /\ a \in Seq(S) /\ Len(a) = (IF 1 <= k - 1 THEN (k - 1) - 1 + 1 ELSE 0)
          /\ \A i \in 1..((k - 1) - 1 + 1) : a[i] = s[1 + i - 1]
      <4>1. \A i \in 1..(k - 1) : s[i] \in S
        BY <1>1, <3>1
      <4> HIDE DEF a
      <4> QED
        BY <3>1, <4>1, SubSeqProperties DEF a
    <3>3. /\ b \in Seq(S) /\ Len(b) = (IF k + 1 <= n THEN n - (k + 1) + 1 ELSE 0)
          /\ \A i \in 1..(n - (k + 1) + 1) : b[i] = s[(k + 1) + i - 1]
      <4>1. \A i \in (k + 1)..n : s[i] \in S
        BY <1>1, <3>1
      <4> HIDE DEF b
      <4> QED
        BY <3>1, <4>1, SubSeqProperties DEF b
    <3> HIDE DEF a, b
    <3> QED
      BY <3>1, <3>2, <3>3
  <2> HIDE DEF a, b
  <2>5. /\ t \in Seq(S) /\ Len(t) = n - 1
        /\ \A i \in 1..(k - 1) : t[i] = s[i]
        /\ \A i \in k..(n - 1) : t[i] = s[i + 1]
    <3>1. t = a \o b
      BY <2>1 DEF a, b, n
    <3> HIDE DEF t
    <3>2. /\ t \in Seq(S) /\ Len(t) = Len(a) + Len(b)
          /\ \A i \in 1..Len(t) : t[i] = IF i <= Len(a) THEN a[i] ELSE b[i - Len(a)]
      <4>1. a \in Seq(S) /\ b \in Seq(S)
        BY <2>4
      <4>2. /\ a \o b \in Seq(S) /\ Len(a \o b) = Len(a) + Len(b)
            /\ \A i \in 1..Len(a) + Len(b) :
                 (a \o b)[i] = IF i <= Len(a) THEN a[i] ELSE b[i - Len(a)]
        BY <4>1, ConcatProperties
      <4> QED
        BY <3>1, <4>2, Zenon
    <3>3. Len(t) = n - 1
      BY <1>1, <2>3, <2>4, <3>2
    <3>4. ASSUME NEW i \in 1..(k - 1) PROVE t[i] = s[i]
      BY <1>1, <2>3, <2>4, <3>2, <3>3
    <3>5. ASSUME NEW i \in k..(n - 1) PROVE t[i] = s[i + 1]
      <4>1. i \in 1..Len(t) /\ ~(i <= Len(a)) /\ i - Len(a) = i - k + 1
        BY <1>1, <2>3, <2>4, <3>3
      <4>2. t[i] = b[i - k + 1] /\ i - k + 1 \in 1..(n - k)
        BY <1>1, <2>3, <3>2, <4>1
      <4>3. (i - k + 1) + k = i + 1
        BY <1>1, <2>3
      <4> QED
        BY <2>4, <4>2, <4>3
    <3> QED
      BY <3>2, <3>3, <3>4, <3>5
  <2> HIDE DEF t
  <2> DEFINE At(i) == IF i < k THEN i ELSE i + 1
  <2>6. DOMAIN t = 1..(n - 1)
    BY <1>1, <2>3, <2>5
  <2>7. \A i \in 1..(n - 1) : At(i) \in 1..n /\ At(i) # k /\ t[i] = s[At(i)]
    BY <1>1, <2>3, <2>5
  <2>8. \A i, j \in 1..n : s[i] = s[j] => i = j
    BY <1>1 DEF IsInjective
  <2>9. IsInjective(t)
    <3> SUFFICES ASSUME NEW i \in 1..(n - 1), NEW j \in 1..(n - 1), t[i] = t[j] PROVE i = j
      BY <2>6 DEF IsInjective
    <3>1. At(i) = At(j)
      BY <2>7, <2>8
    <3> QED
      BY <1>1, <2>3, <3>1
  <2>10. ASSUME NEW x PROVE x \in ToSet(t) <=> x \in ToSet(s) /\ x # c
    <3>1. ASSUME x \in ToSet(t) PROVE x \in ToSet(s) /\ x # c
      <4>1. PICK i \in 1..(n - 1) : x = t[i]
        BY <2>6, <3>1 DEF ToSet
      <4>2. x = s[At(i)] /\ At(i) \in 1..n /\ At(i) # k
        BY <2>7, <4>1
      <4> QED
        BY <1>1, <2>3, <2>8, <4>2 DEF ToSet
    <3>2. ASSUME x \in ToSet(s), x # c PROVE x \in ToSet(t)
      <4>1. PICK i \in 1..n : x = s[i]
        BY <1>1, <3>2 DEF ToSet
      <4>2. i # k
        BY <2>3, <3>2, <4>1
      <4>3. \E j \in 1..(n - 1) : x = t[j]
        <5>1. CASE i < k
          BY <1>1, <2>3, <2>5, <4>1, <5>1
        <5>2. CASE i > k
          <6>1. i - 1 \in k..(n - 1) /\ (i - 1) + 1 = i
            BY <1>1, <2>3, <5>2
          <6> QED
            BY <2>3, <2>5, <4>1, <6>1
        <5> QED
          BY <1>1, <2>3, <4>2, <5>1, <5>2
      <4> QED
        BY <2>6, <4>3 DEF ToSet
    <3> QED
      BY <3>1, <3>2
  <2>11. ToSet(t) = ToSet(s) \ {c}
    BY <2>10
  <2> QED
    BY <2>5, <2>9, <2>11 DEF t
<1> QED
  BY <1>2, <1>3
-----------------------------------------------------------------------------
(* Finite sets of numbers: the largest, and how many are up to x.          *)

\* Max is the greatest member.
LEMMA MaxIs ==
  ASSUME NEW M \in Nat, NEW S \in SUBSET (0..M), S # {}
  PROVE  Max(S) \in S /\ \A y \in S : y <= Max(S)
<1> DEFINE T == {n \in Nat : \A y \in S : y <= n}
<1>1. M \in T
  OBVIOUS
<1>2. T \subseteq Nat /\ T # {}
  BY <1>1
<1>3. PICK m \in T : \A n \in T : m <= n
  BY <1>2, SetMin
<1>4. m \in S
  <2> SUFFICES ASSUME m \notin S PROVE FALSE
    OBVIOUS
  <2>1. PICK y \in S : TRUE
    OBVIOUS
  <2>2. m # 0 /\ m \in Nat
    BY <1>3, <2>1
  <2>3. m - 1 \in T
    BY <2>2, <1>3
  <2> QED
    BY <1>3, <2>2, <2>3
<1>5. \A y \in S : m >= y
  BY <1>3
<1>6. Max(S) \in S /\ \A y \in S : Max(S) >= y
  BY <1>4, <1>5 DEF Max
<1> QED
  BY <1>6

UpTo(S, x) == {k \in S : k <= x}

\* One number more.
LEMMA UpToStep ==
  ASSUME NEW M \in Nat, NEW S \in SUBSET (1..M), NEW x \in Nat
  PROVE  /\ IsFiniteSet(S) /\ IsFiniteSet(UpTo(S, x)) /\ Cardinality(UpTo(S, x)) \in Nat
         /\ x + 1 \in S => Cardinality(UpTo(S, x + 1)) = Cardinality(UpTo(S, x)) + 1
         /\ x + 1 \notin S => Cardinality(UpTo(S, x + 1)) = Cardinality(UpTo(S, x))
         /\ Cardinality(UpTo(S, 0)) = 0
         /\ M <= x => Cardinality(UpTo(S, x)) = Cardinality(S)
<1>0. \A k \in S : k \in Nat /\ 1 <= k /\ k <= M
  OBVIOUS
<1>a. \A k \in S : /\ k <= x + 1 <=> k <= x \/ k = x + 1
                   /\ ~(k <= 0) /\ (M <= x => k <= x)
  <2> SUFFICES ASSUME NEW k \in S
               PROVE  /\ k <= x + 1 <=> k <= x \/ k = x + 1
                      /\ ~(k <= 0) /\ (M <= x => k <= x)
    OBVIOUS
  <2>1. k \in Nat /\ 1 <= k /\ k <= M
    BY <1>0
  <2> QED
    BY <2>1
<1>1. IsFiniteSet(S)
  <2>1. 1 \in Int /\ M \in Int
    OBVIOUS
  <2>2. IsFiniteSet(1..M)
    BY <2>1, FS_Interval
  <2> QED
    BY <2>2, FS_Subset
<1>2. UpTo(S, x) \in SUBSET S
  BY DEF UpTo
<1>3. IsFiniteSet(UpTo(S, x)) /\ Cardinality(UpTo(S, x)) \in Nat
  BY <1>1, <1>2, FS_Subset, FS_CardinalityType
<1>4. x + 1 \in S => UpTo(S, x + 1) = UpTo(S, x) \cup {x + 1} /\ x + 1 \notin UpTo(S, x)
  <2> SUFFICES ASSUME x + 1 \in S
               PROVE  UpTo(S, x + 1) = UpTo(S, x) \cup {x + 1} /\ x + 1 \notin UpTo(S, x)
    OBVIOUS
  <2>1. \A k : k \in UpTo(S, x + 1) <=> k \in UpTo(S, x) \/ k = x + 1
    BY <1>a DEF UpTo
  <2>2. x + 1 \notin UpTo(S, x)
    BY DEF UpTo
  <2> QED
    BY <2>1, <2>2
<1>5. x + 1 \notin S => UpTo(S, x + 1) = UpTo(S, x)
  <2>1. x + 1 \notin S => \A k : k \in UpTo(S, x + 1) <=> k \in UpTo(S, x)
    BY <1>a DEF UpTo
  <2> QED
    BY <2>1
<1>6. UpTo(S, 0) = {}
  <2>1. \A k : k \notin UpTo(S, 0)
    BY <1>a DEF UpTo
  <2> QED
    BY <2>1
<1>7. M <= x => UpTo(S, x) = S
  <2>1. M <= x => \A k : k \in UpTo(S, x) <=> k \in S
    BY <1>a DEF UpTo
  <2> QED
    BY <2>1
<1>8. x + 1 \in S => Cardinality(UpTo(S, x + 1)) = Cardinality(UpTo(S, x)) + 1
  BY <1>3, <1>4, FS_AddElement
<1> QED
  BY <1>1, <1>3, <1>5, <1>6, <1>7, <1>8, FS_EmptySet

\* The same of all the numbers there are.
Steps(M, S) ==
  /\ Cardinality(UpTo(S, 0)) = 0
  /\ \A x \in Nat :
       /\ Cardinality(UpTo(S, x)) \in Nat
       /\ x + 1 \in S => Cardinality(UpTo(S, x + 1)) = Cardinality(UpTo(S, x)) + 1
       /\ x + 1 \notin S => Cardinality(UpTo(S, x + 1)) = Cardinality(UpTo(S, x))
       /\ M <= x => Cardinality(UpTo(S, x)) = Cardinality(S)

\* It holds of every set of them that has a bound.
LEMMA UpToSteps ==
  ASSUME NEW M \in Nat, NEW S \in SUBSET (1..M)
  PROVE  Steps(M, S)
<1>1. Cardinality(UpTo(S, 0)) = 0
  BY UpToStep
<1>2. ASSUME NEW x \in Nat
      PROVE  /\ Cardinality(UpTo(S, x)) \in Nat
             /\ x + 1 \in S => Cardinality(UpTo(S, x + 1)) = Cardinality(UpTo(S, x)) + 1
             /\ x + 1 \notin S => Cardinality(UpTo(S, x + 1)) = Cardinality(UpTo(S, x))
             /\ M <= x => Cardinality(UpTo(S, x)) = Cardinality(S)
  BY UpToStep
<1> QED
  BY <1>1, <1>2 DEF Steps

(* The elements of S have different places, in their order. *)
LEMMA UpToOrder ==
  ASSUME NEW M \in Nat, NEW S \in SUBSET (1..M), NEW i \in S, NEW j \in S, i < j
  PROVE  Cardinality(UpTo(S, i)) < Cardinality(UpTo(S, j))
<1>0. \A k \in S : k \in Nat
  OBVIOUS
<1>1. i \in Nat /\ j \in Nat
  OBVIOUS
<1>2. /\ IsFiniteSet(UpTo(S, i)) /\ Cardinality(UpTo(S, i)) \in Nat
      /\ IsFiniteSet(UpTo(S, j)) /\ Cardinality(UpTo(S, j)) \in Nat
  BY <1>1, UpToStep
<1>3. j \notin UpTo(S, i) /\ UpTo(S, i) \cup {j} \in SUBSET UpTo(S, j)
  <2>1. \A k \in UpTo(S, i) : k \in UpTo(S, j)
    BY <1>1, <1>0 DEF UpTo
  <2>2. j \in UpTo(S, j) /\ j \notin UpTo(S, i)
    BY <1>1 DEF UpTo
  <2> QED
    BY <2>1, <2>2
<1>4. Cardinality(UpTo(S, i) \cup {j}) = Cardinality(UpTo(S, i)) + 1
  BY <1>2, <1>3, FS_AddElement
<1>5. Cardinality(UpTo(S, i) \cup {j}) <= Cardinality(UpTo(S, j))
  BY <1>2, <1>3, FS_Subset
<1> QED
  BY <1>2, <1>4, <1>5

(* and every place is taken. *)
LEMMA UpToExists ==
  ASSUME NEW M \in Nat, NEW S \in SUBSET (1..M), NEW n \in 1..Cardinality(S)
  PROVE  \E j \in S : Cardinality(UpTo(S, j)) = n
<1> DEFINE R(x) == Cardinality(UpTo(S, x))
           T == {x \in Nat : n <= R(x)}
<1>1. Cardinality(S) \in Nat /\ R(M) = Cardinality(S) /\ R(0) = 0
  BY UpToStep
<1>2. M \in T /\ T \subseteq Nat
  BY <1>1
<1>3. PICK x \in T : \A y \in T : x <= y
  <2> HIDE DEF T
  <2> QED
    BY <1>2, SetMin
<1>4. x # 0 /\ x \in Nat /\ n <= R(x)
  BY <1>1, <1>3
<1> DEFINE w == x - 1
<1>5. w \in Nat /\ w + 1 = x
  BY <1>4
<1> HIDE DEF w
<1>6. ~(n <= R(w))
  BY <1>3, <1>5
<1>7. /\ R(w) \in Nat /\ (x \in S => R(x) = R(w) + 1) /\ (x \notin S => R(x) = R(w))
  <2>1. Steps(M, S)
    BY UpToSteps
  <2>2. /\ Cardinality(UpTo(S, w)) \in Nat
        /\ w + 1 \in S => Cardinality(UpTo(S, w + 1)) = Cardinality(UpTo(S, w)) + 1
        /\ w + 1 \notin S => Cardinality(UpTo(S, w + 1)) = Cardinality(UpTo(S, w))
    BY <1>5, <2>1 DEF Steps
  <2> QED
    BY <1>5, <2>2
<1> HIDE DEF R
<1> QED
  BY <1>4, <1>6, <1>7 DEF R
-----------------------------------------------------------------------------
(* Sums over finite sets.                                                  *)

\* What SumFunction adds up to, for a set of indices.
SumBody(w, h, s) == IF s = {} THEN 0
                    ELSE w[CHOOSE x \in s : TRUE] + h[s \ {CHOOSE x \in s : TRUE}]

IsSum(w, h, S) == h = [s \in SUBSET S |-> SumBody(w, h, s)]

\* A set that is not empty has one element less without the one chosen.
LEMMA OneLess ==
  ASSUME NEW S, IsFiniteSet(S), NEW s \in SUBSET S, s # {}
  PROVE  LET x == CHOOSE x \in s : TRUE
         IN  /\ x \in S /\ s \ {x} \in SUBSET S
             /\ Cardinality(s) \in Nat /\ Cardinality(s \ {x}) = Cardinality(s) - 1
<1> DEFINE x == CHOOSE x \in s : TRUE
<1>1. x \in s
  OBVIOUS
<1> HIDE DEF x
<1>2. IsFiniteSet(s) /\ Cardinality(s) \in Nat
  BY FS_Subset, FS_CardinalityType
<1>3. Cardinality(s \ {x}) = Cardinality(s) - 1
  BY <1>1, <1>2, FS_RemoveElement
<1> QED
  BY <1>1, <1>2, <1>3 DEF x

\* There is a function that is the sum for every set of indices.
LEMMA SumExists ==
  ASSUME NEW S, IsFiniteSet(S), NEW w \in [S -> Nat]
  PROVE  \E h : IsSum(w, h, S)
<1> DEFINE G(h, n) == /\ h \in [SUBSET S -> Nat]
                      /\ \A s \in SUBSET S : Cardinality(s) <= n => h[s] = SumBody(w, h, s)
           T == {n \in Nat : \E h : G(h, n)}
<1>0. \A s \in SUBSET S : Cardinality(s) \in Nat /\ (Cardinality(s) = 0 => s = {})
  BY FS_Subset, FS_CardinalityType, FS_EmptySet
<1>1. 0 \in T
  <2> DEFINE h == [s \in SUBSET S |-> 0]
  <2>1. \A s \in SUBSET S : Cardinality(s) <= 0 => h[s] = SumBody(w, h, s)
    BY <1>0 DEF SumBody
  <2>2. h \in [SUBSET S -> Nat]
    OBVIOUS
  <2> HIDE DEF h
  <2> QED
    BY <2>1, <2>2
<1>2. ASSUME NEW n \in Nat, NEW h, G(h, n) PROVE \E k : G(k, n + 1)
  <2> DEFINE k == [s \in SUBSET S |-> IF Cardinality(s) = n + 1 THEN SumBody(w, h, s) ELSE h[s]]
  <2>1. ASSUME NEW s \in SUBSET S PROVE SumBody(w, h, s) \in Nat
    <3>1. CASE s = {}
      BY <3>1 DEF SumBody
    <3>2. CASE s # {}
      <4> DEFINE x == CHOOSE x \in s : TRUE
      <4>1. x \in S /\ s \ {x} \in SUBSET S
        BY <3>2, OneLess
      <4>2. SumBody(w, h, s) = w[x] + h[s \ {x}]
        BY <3>2 DEF SumBody
      <4> HIDE DEF x
      <4>3. w[x] \in Nat /\ h[s \ {x}] \in Nat
        BY <1>2, <4>1
      <4> QED
        BY <4>2, <4>3
    <3> QED
      BY <3>1, <3>2
  <2>2. k \in [SUBSET S -> Nat]
    <3>1. \A s \in SUBSET S : h[s] \in Nat
      BY <1>2
    <3> HIDE DEF G
    <3> QED
      BY <2>1, <3>1
  <2>3. ASSUME NEW s \in SUBSET S, Cardinality(s) <= n + 1 PROVE k[s] = SumBody(w, k, s)
    <3>1. k[s] = SumBody(w, h, s)
      BY <1>0, <1>2, <2>3
    <3>2. SumBody(w, k, s) = SumBody(w, h, s)
      <4>1. CASE s = {}
        BY <4>1 DEF SumBody
      <4>2. CASE s # {}
        <5> DEFINE x == CHOOSE x \in s : TRUE
        <5>1. /\ s \ {x} \in SUBSET S
              /\ Cardinality(s) \in Nat /\ Cardinality(s \ {x}) = Cardinality(s) - 1
          BY <4>2, OneLess
        <5>2. SumBody(w, k, s) = w[x] + k[s \ {x}] /\ SumBody(w, h, s) = w[x] + h[s \ {x}]
          BY <4>2 DEF SumBody
        <5> HIDE DEF x
        <5>3. Cardinality(s \ {x}) # n + 1
          BY <1>2, <2>3, <5>1
        <5>4. k[s \ {x}] = h[s \ {x}]
          BY <5>1, <5>3
        <5> QED
          BY <5>2, <5>4
      <4> QED
        BY <4>1, <4>2
    <3> QED
      BY <3>1, <3>2
  <2> HIDE DEF k
  <2>4. G(k, n + 1)
    BY <2>2, <2>3
  <2> HIDE DEF G
  <2> QED
    BY <2>4
<1> HIDE DEF G
<1>3. ASSUME NEW n \in Nat, n \in T PROVE n + 1 \in T
  BY <1>2, <1>3
<1> HIDE DEF T
<1>4. Nat \subseteq T
  BY <1>1, <1>3, SetInduction
<1>5. Cardinality(S) \in Nat
  BY FS_CardinalityType
<1>6. PICK h : G(h, Cardinality(S))
  BY <1>4, <1>5 DEF T
<1>7. \A s \in SUBSET S : Cardinality(s) <= Cardinality(S)
  BY FS_Subset
<1>8. h \in [SUBSET S -> Nat] /\ \A s \in SUBSET S : h[s] = SumBody(w, h, s)
  BY <1>6, <1>7 DEF G
<1>9. IsSum(w, h, S)
  <2>1. h = [s \in SUBSET S |-> h[s]]
    BY <1>8
  <2> QED
    BY <1>8, <2>1 DEF IsSum
<1> QED
  BY <1>9

\* A sum of naturals is a natural, and 0 if there are none.
LEMMA SumIsNat ==
  ASSUME NEW S, IsFiniteSet(S), NEW w \in [S -> Nat]
  PROVE  SumFunction(w) \in Nat /\ (S = {} => SumFunction(w) = 0)
<1> DEFINE h0 == CHOOSE h : IsSum(w, h, S)
<1>1. DOMAIN w = S
  OBVIOUS
<1>2. SumFunction(w) = h0[S]
  BY <1>1 DEF SumFunction, SumFunctionOnSet, FoldFunctionOnSet, MapThenFoldSet, SumBody, IsSum
<1>3. \E h : IsSum(w, h, S)
  BY SumExists
<1>4. IsSum(w, h0, S)
  BY <1>3
<1>5. \A s \in SUBSET S : h0[s] = SumBody(w, h0, s)
  <2> HIDE DEF h0
  <2> QED
    BY <1>4 DEF IsSum
<1> HIDE DEF h0
<1> DEFINE T == {n \in Nat : \A s \in SUBSET S : Cardinality(s) = n => h0[s] \in Nat}
<1>6. \A s \in SUBSET S : Cardinality(s) \in Nat /\ (Cardinality(s) = 0 => s = {})
  BY FS_Subset, FS_CardinalityType, FS_EmptySet
<1>7. h0[{}] = 0
  BY <1>5 DEF SumBody
<1>8. 0 \in T
  BY <1>6, <1>7
<1>9. ASSUME NEW n \in Nat, n \in T PROVE n + 1 \in T
  <2> SUFFICES ASSUME NEW s \in SUBSET S, Cardinality(s) = n + 1 PROVE h0[s] \in Nat
    OBVIOUS
  <2> DEFINE x == CHOOSE x \in s : TRUE
  <2>1. s # {}
    BY FS_EmptySet
  <2>2. x \in S /\ s \ {x} \in SUBSET S /\ Cardinality(s \ {x}) = Cardinality(s) - 1
    BY <2>1, OneLess
  <2>3. h0[s] = w[x] + h0[s \ {x}]
    BY <1>5, <2>1 DEF SumBody
  <2> HIDE DEF x
  <2>4. h0[s \ {x}] \in Nat
    BY <1>9, <2>2
  <2> QED
    BY <2>2, <2>3, <2>4
<1> HIDE DEF T
<1>10. Nat \subseteq T
  BY <1>8, <1>9, SetInduction
<1>11. Cardinality(S) \in Nat
  BY FS_CardinalityType
<1>12. h0[S] \in Nat
  BY <1>10, <1>11 DEF T
<1> QED
  BY <1>2, <1>7, <1>12
\* Sums of the same weights are the same, in whichever function they occur.
LEMMA SumAgrees ==
  ASSUME NEW U, IsFiniteSet(U), NEW S, NEW T, U \subseteq S, U \subseteq T,
         NEW w, NEW v, \A x \in U : w[x] = v[x], NEW h, NEW g, IsSum(w, h, S), IsSum(v, g, T)
  PROVE  h[U] = g[U]
<1> DEFINE N == {n \in Nat : \A s \in SUBSET U : Cardinality(s) = n => h[s] = g[s]}
<1>1. \A s \in SUBSET U : h[s] = SumBody(w, h, s) /\ g[s] = SumBody(v, g, s)
  BY DEF IsSum
<1>2. \A s \in SUBSET U : Cardinality(s) \in Nat /\ (Cardinality(s) = 0 => s = {})
  BY FS_Subset, FS_CardinalityType, FS_EmptySet
<1>3. h[{}] = 0 /\ g[{}] = 0
  BY <1>1 DEF SumBody
<1>4. 0 \in N
  BY <1>2, <1>3
<1>5. ASSUME NEW n \in Nat, n \in N PROVE n + 1 \in N
  <2> SUFFICES ASSUME NEW s \in SUBSET U, Cardinality(s) = n + 1 PROVE h[s] = g[s]
    OBVIOUS
  <2> DEFINE x == CHOOSE x \in s : TRUE
  <2>1. s # {}
    BY FS_EmptySet
  <2>2. x \in U /\ s \ {x} \in SUBSET U /\ Cardinality(s \ {x}) = Cardinality(s) - 1
    BY <2>1, OneLess
  <2>3. h[s] = w[x] + h[s \ {x}] /\ g[s] = v[x] + g[s \ {x}]
    BY <1>1, <2>1 DEF SumBody
  <2> HIDE DEF x
  <2>4. h[s \ {x}] = g[s \ {x}]
    BY <1>5, <2>2
  <2> QED
    BY <2>2, <2>3, <2>4
<1> HIDE DEF N
<1>6. Nat \subseteq N
  BY <1>4, <1>5, SetInduction
<1>7. Cardinality(U) \in Nat
  BY FS_CardinalityType
<1> QED
  BY <1>6, <1>7 DEF N

\* The sum of w over S.
SumOf(w, S) == SumFunctionOnSet(w, S)

\* w gives every member of S a natural number.
Weighs(w, S) == \A x \in S : w[x] \in Nat

\* A sum is that of any function of sums.
LEMMA SumIs ==
  ASSUME NEW S, IsFiniteSet(S), NEW w, Weighs(w, S)
  PROVE  /\ \E h : IsSum(w, h, S)
         /\ \A U \in SUBSET S : \A T, h : U \subseteq T /\ IsSum(w, h, T) => SumOf(w, U) = h[U]
<1> DEFINE v == [x \in S |-> w[x]]
<1>1. v \in [S -> Nat]
  BY DEF Weighs
<1>2. PICK h : IsSum(v, h, S)
  BY <1>1, SumExists
<1>3. ASSUME NEW T \in SUBSET S PROVE \E g : IsSum(w, g, T)
  <2> DEFINE g == [s \in SUBSET T |-> h[s]]
  <2>1. ASSUME NEW s \in SUBSET T PROVE g[s] = SumBody(w, g, s)
    <3>1. h[s] = SumBody(v, h, s)
      BY <1>2 DEF IsSum
    <3>2. CASE s = {}
      BY <3>1, <3>2 DEF SumBody
    <3>3. CASE s # {}
      <4> DEFINE x == CHOOSE x \in s : TRUE
      <4>1. x \in S /\ s \ {x} \in SUBSET T
        BY <3>3
      <4>2. h[s] = v[x] + h[s \ {x}] /\ SumBody(w, g, s) = w[x] + g[s \ {x}]
        BY <3>1, <3>3 DEF SumBody
      <4> HIDE DEF x
      <4> QED
        BY <4>1, <4>2
    <3> QED
      BY <3>2, <3>3
  <2> QED
    BY <2>1 DEF IsSum
<1>4. ASSUME NEW U \in SUBSET S, NEW T, NEW g, U \subseteq T, IsSum(w, g, T) PROVE SumOf(w, U) = g[U]
  <2> DEFINE g0 == CHOOSE k : IsSum(w, k, U)
  <2>1. SumOf(w, U) = g0[U]
    BY DEF SumOf, SumFunctionOnSet, FoldFunctionOnSet, MapThenFoldSet, SumBody, IsSum
  <2>2. IsSum(w, g0, U)
    BY <1>3
  <2> HIDE DEF g0
  <2>3. IsFiniteSet(U)
    BY FS_Subset
  <2> QED
    BY <1>4, <2>1, <2>2, <2>3, SumAgrees
<1> QED
  BY <1>3, <1>4

\* A sum over a set is a natural number.
LEMMA SumType ==
  ASSUME NEW S, IsFiniteSet(S), NEW w, Weighs(w, S)
  PROVE  SumOf(w, S) \in Nat /\ SumOf(w, {}) = 0
<1> DEFINE v == [x \in S |-> w[x]]
<1>1. v \in [S -> Nat]
  BY DEF Weighs
<1>2. SumFunction(v) \in Nat
  BY <1>1, SumIsNat
<1>3. SumFunction(v) = SumOf(v, S)
  BY DEF SumFunction, SumOf
<1>4. Weighs(v, S) /\ \A x \in S : w[x] = v[x]
  BY DEF Weighs
<1> HIDE DEF v
<1>5. PICK h, g : IsSum(w, h, S) /\ IsSum(v, g, S)
  BY <1>4, SumIs
<1>6. SumOf(w, S) = h[S] /\ SumOf(v, S) = g[S] /\ SumOf(w, {}) = h[{}]
  BY <1>4, <1>5, SumIs
<1>7. h[S] = g[S]
  BY <1>4, <1>5, SumAgrees
<1>8. h[{}] = 0
  BY <1>5 DEF IsSum, SumBody
<1> QED
  BY <1>2, <1>3, <1>6, <1>7, <1>8

\* Equal weights have equal sums.
LEMMA SumEqual ==
  ASSUME NEW S, IsFiniteSet(S), NEW w, NEW v, Weighs(w, S), \A x \in S : w[x] = v[x]
  PROVE  SumOf(w, S) = SumOf(v, S)
<1>1. Weighs(v, S)
  BY DEF Weighs
<1>2. PICK h, g : IsSum(w, h, S) /\ IsSum(v, g, S)
  BY <1>1, SumIs
<1>3. SumOf(w, S) = h[S] /\ SumOf(v, S) = g[S]
  BY <1>1, <1>2, SumIs
<1> QED
  BY <1>2, <1>3, SumAgrees

\* Any element can be taken from a sum, not only the one the fold begins with.
LEMMA SumTakes ==
  ASSUME NEW S, IsFiniteSet(S), NEW w, Weighs(w, S), NEW x \in S
  PROVE  SumOf(w, S) = w[x] + SumOf(w, S \ {x})
<1>1. PICK h : IsSum(w, h, S)
  BY SumIs
<1>2. \A U \in SUBSET S : SumOf(w, U) = h[U]
  BY <1>1, SumIs
<1>3. ASSUME NEW U \in SUBSET S PROVE h[U] \in Nat /\ IsFiniteSet(U) /\ Cardinality(U) \in Nat
  <2>1. IsFiniteSet(U) /\ Weighs(w, U)
    BY FS_Subset DEF Weighs
  <2> QED
    BY <1>2, <2>1, SumType, FS_CardinalityType
<1> DEFINE N == {n \in Nat : \A s \in SUBSET S : Cardinality(s) = n => \A y \in s : h[s] = w[y] + h[s \ {y}]}
<1>4. \A s \in SUBSET S : h[s] = SumBody(w, h, s)
  BY <1>1 DEF IsSum
<1>5. 0 \in N
  <2>1. \A s \in SUBSET S : Cardinality(s) = 0 => s = {}
    BY <1>3, FS_EmptySet
  <2> QED
    BY <2>1
<1>6. ASSUME NEW n \in Nat, n \in N PROVE n + 1 \in N
  <2> SUFFICES ASSUME NEW s \in SUBSET S, Cardinality(s) = n + 1, NEW y \in s
               PROVE  h[s] = w[y] + h[s \ {y}]
    OBVIOUS
  <2> DEFINE c == CHOOSE c \in s : TRUE
  <2>1. c \in s
    OBVIOUS
  <2>2. h[s] = w[c] + h[s \ {c}]
    BY <1>4 DEF SumBody
  <2> HIDE DEF c
  <2>3. CASE c = y
    BY <2>2, <2>3
  <2>4. CASE c # y
    <3> DEFINE a == s \ {c}
               b == s \ {y}
               r == s \ {c, y}
    <3>1. a \in SUBSET S /\ b \in SUBSET S /\ r \in SUBSET S /\ y \in a /\ c \in b
      BY <2>1, <2>4
    <3>2. Cardinality(a) = n /\ Cardinality(b) = n
      <4>1. IsFiniteSet(s)
        BY <1>3
      <4>2. Cardinality(a) = Cardinality(s) - 1 /\ Cardinality(b) = Cardinality(s) - 1
        BY <2>1, <4>1, FS_RemoveElement
      <4> QED
        BY <4>2
    <3>3. a \ {y} = r /\ b \ {c} = r
      OBVIOUS
    <3> HIDE DEF a, b, r
    <3>4. h[a] = w[y] + h[r] /\ h[b] = w[c] + h[r]
      BY <1>6, <3>1, <3>2, <3>3
    <3>5. w[c] \in Nat /\ w[y] \in Nat /\ h[r] \in Nat
      BY <1>3, <2>1, <3>1 DEF Weighs
    <3> QED
      BY <2>2, <3>4, <3>5 DEF a, b
  <2> QED
    BY <2>3, <2>4
<1> HIDE DEF N
<1>7. Nat \subseteq N
  BY <1>5, <1>6, SetInduction
<1>8. h[S] = w[x] + h[S \ {x}]
  BY <1>3, <1>7 DEF N
<1> QED
  BY <1>2, <1>8

\* What weighs nothing can be left out of a sum.
LEMMA SumLeavesOut ==
  ASSUME NEW S, IsFiniteSet(S), NEW w, Weighs(w, S), NEW U \in SUBSET S, \A x \in S \ U : w[x] = 0
  PROVE  SumOf(w, S) = SumOf(w, U)
<1> DEFINE N == {n \in Nat : \A s \in SUBSET S : U \subseteq s /\ Cardinality(s \ U) = n => SumOf(w, s) = SumOf(w, U)}
<1>1. ASSUME NEW s \in SUBSET S
      PROVE  /\ IsFiniteSet(s) /\ Weighs(w, s) /\ SumOf(w, s) \in Nat
             /\ IsFiniteSet(s \ U) /\ Cardinality(s \ U) \in Nat /\ (Cardinality(s \ U) = 0 => s \ U = {})
  <2>1. IsFiniteSet(s) /\ Weighs(w, s)
    BY FS_Subset DEF Weighs
  <2>2. IsFiniteSet(s \ U)
    BY <2>1, FS_Subset
  <2>3. Cardinality(s \ U) \in Nat /\ (Cardinality(s \ U) = 0 => s \ U = {})
    BY <2>2, FS_CardinalityType, FS_EmptySet
  <2> QED
    BY <2>1, <2>2, <2>3, SumType
<1>2. 0 \in N
  <2>1. \A s \in SUBSET S : U \subseteq s /\ Cardinality(s \ U) = 0 => s = U
    BY <1>1
  <2> QED
    BY <2>1
<1>3. ASSUME NEW n \in Nat, n \in N PROVE n + 1 \in N
  <2> SUFFICES ASSUME NEW s \in SUBSET S, U \subseteq s, Cardinality(s \ U) = n + 1
               PROVE  SumOf(w, s) = SumOf(w, U)
    OBVIOUS
  <2>1. s \ U # {}
    BY FS_EmptySet
  <2>2. PICK x \in s : x \notin U
    BY <2>1
  <2> DEFINE r == s \ {x}
  <2>3. r \in SUBSET S /\ U \subseteq r /\ r \ U = (s \ U) \ {x} /\ x \in s \ U
    BY <2>2
  <2>4. Cardinality(r \ U) = n
    <3>1. IsFiniteSet(s \ U)
      BY <1>1
    <3>2. Cardinality((s \ U) \ {x}) = Cardinality(s \ U) - 1
      BY <2>3, <3>1, FS_RemoveElement
    <3> QED
      BY <2>3, <3>2
  <2>5. SumOf(w, r) = SumOf(w, U)
    BY <1>3, <2>3, <2>4
  <2>6. SumOf(w, s) = w[x] + SumOf(w, r)
    BY <1>1, SumTakes
  <2>7. w[x] = 0
    BY <2>2
  <2>8. SumOf(w, r) \in Nat
    BY <1>1, <2>3
  <2> HIDE DEF r
  <2> QED
    BY <2>5, <2>6, <2>7, <2>8
<1> HIDE DEF N
<1>4. Nat \subseteq N
  BY <1>2, <1>3, SetInduction
<1> QED
  BY <1>1, <1>4 DEF N

\* off[j] is the sum of the first j weights of the members of a row, each there once.
AddsUp(m, f, w, off) ==
  /\ off[0] = 0
  /\ \A i, j \in 1..m : f[i] = f[j] => i = j
  /\ \A j \in 1..m : w[f[j]] \in Nat /\ off[j] = off[j - 1] + w[f[j]]

\* The sum over a row of different elements is the last of the partial sums.
LEMMA SumRow ==
  ASSUME NEW m \in Nat, NEW f, NEW w, NEW off \in [0..m -> Nat], AddsUp(m, f, w, off)
  PROVE  SumOf(w, {f[j] : j \in 1..m}) = off[m]
<1>0. /\ off[0] = 0 /\ \A i, j \in 1..m : f[i] = f[j] => i = j
      /\ \A j \in 1..m : w[f[j]] \in Nat /\ off[j] = off[j - 1] + w[f[j]]
  BY DEF AddsUp
<1> DEFINE R(n) == {f[j] : j \in 1..n}
           N == {n \in Nat : n <= m => IsFiniteSet(R(n)) /\ SumOf(w, R(n)) = off[n]}
<1>1. 0 \in N
  <2>1. R(0) = {}
    OBVIOUS
  <2>2. IsFiniteSet({}) /\ Weighs(w, {})
    BY FS_EmptySet DEF Weighs
  <2> HIDE DEF R
  <2> QED
    BY <1>0, <2>1, <2>2, SumType
<1>2. ASSUME NEW n \in Nat, n \in N PROVE n + 1 \in N
  <2> SUFFICES ASSUME n + 1 <= m PROVE IsFiniteSet(R(n + 1)) /\ SumOf(w, R(n + 1)) = off[n + 1]
    OBVIOUS
  <2> DEFINE x == f[n + 1]
  <2>1. n + 1 \in 1..m /\ \A j \in 1..n : j \in 1..m /\ j # n + 1
    OBVIOUS
  <2>2. R(n + 1) = R(n) \cup {x}
    <3>1. \A j : j \in 1..n + 1 <=> j \in 1..n \/ j = n + 1
      OBVIOUS
    <3> QED
      BY <3>1
  <2>3. x \notin R(n)
    BY <1>0, <2>1
  <2>4. IsFiniteSet(R(n)) /\ SumOf(w, R(n)) = off[n]
    BY <1>2
  <2>5. Weighs(w, R(n + 1))
    <3>1. \A j \in 1..n + 1 : j \in 1..m
      OBVIOUS
    <3> QED
      BY <1>0, <3>1 DEF Weighs
  <2>6. off[n + 1] = off[n] + w[x] /\ off[n] \in Nat /\ w[x] \in Nat
    <3>1. (n + 1) - 1 = n /\ n \in 0..m
      OBVIOUS
    <3> QED
      BY <1>0, <2>1, <3>1
  <2> HIDE DEF R, x
  <2>7. IsFiniteSet(R(n + 1))
    <3>1. IsFiniteSet(R(n))
      BY <2>4
    <3>2. IsFiniteSet(R(n) \cup {x})
      BY <3>1, FS_AddElement
    <3> QED
      BY <2>2, <3>2
  <2>8. x \in R(n + 1) /\ R(n + 1) \ {x} = R(n)
    BY <2>2, <2>3
  <2>9. SumOf(w, R(n + 1)) = w[x] + SumOf(w, R(n + 1) \ {x})
    BY <2>5, <2>7, <2>8, SumTakes
  <2>10. SumOf(w, R(n + 1)) = w[x] + off[n]
    BY <2>4, <2>8, <2>9
  <2>11. w[x] + off[n] = off[n + 1]
    BY <2>6
  <2> QED
    BY <2>7, <2>10, <2>11
<1> HIDE DEF N
<1>3. Nat \subseteq N
  BY <1>1, <1>2, SetInduction
<1>4. m <= m => SumOf(w, R(m)) = off[m]
  <2> HIDE DEF R
  <2> QED
    BY <1>3 DEF N
<1> QED
  BY <1>4

\* Each of the sequences is empty or fills its place in q, from off[j - 1] to off[j].
FillPlaces(ps, off, q) ==
  /\ off[0] = 0
  /\ \A j \in 1..Len(ps) :
       /\ off[j - 1] < off[j] /\ Len(ps[j]) \in {0, off[j] - off[j - 1]}
       /\ \A i \in 1..Len(ps[j]) : ps[j][i] = q[off[j - 1] + i]

\* Such sequences fill all of q, if they are long enough together.
LEMMA FlattenFits ==
  ASSUME NEW V, NEW ps \in Seq(Seq(V)), NEW off \in [0..Len(ps) -> Nat], NEW q, FillPlaces(ps, off, q),
         Len(FlattenSeq(ps)) = off[Len(ps)]
  PROVE  \A i \in 1..off[Len(ps)] : FlattenSeq(ps)[i] = q[i]
<1>0. /\ off[0] = 0
      /\ \A j \in 1..Len(ps) :
           /\ off[j - 1] < off[j] /\ Len(ps[j]) \in {0, off[j] - off[j - 1]}
           /\ \A i \in 1..Len(ps[j]) : ps[j][i] = q[off[j - 1] + i]
  BY DEF FillPlaces
<1> DEFINE n == Len(ps)
<1>1. PICK f : IsFlattening(f, ps, V)
  BY FlatteningExists
<1>2. FlattenSeq(ps) = f[n]
  BY <1>1, FlattenIs
<1>3. n \in Nat /\ \A j \in 1..n : ps[j] \in Seq(V)
  BY LenProperties, ElementOfSeq
<1>4. /\ f[0] = <<>> /\ \A j \in 1..n : f[j] = Cat(f[j - 1], ps[j])
      /\ \A j \in 0..n : f[j] \in Seq(V)
  BY <1>1 DEF IsFlattening, Concatenates
<1> DEFINE N == {m \in Nat : m <= n => /\ Len(f[m]) <= off[m]
                                       /\ Len(f[m]) = off[m] => \A i \in 1..off[m] : f[m][i] = q[i]}
<1>5. 0 \in N
  <2>1. Len(f[0]) = 0
    BY <1>4
  <2> QED
    BY <1>0, <2>1
<1>6. ASSUME NEW m \in Nat, m \in N PROVE m + 1 \in N
  <2> SUFFICES ASSUME m + 1 <= n
               PROVE  /\ Len(f[m + 1]) <= off[m + 1]
                      /\ Len(f[m + 1]) = off[m + 1] => \A i \in 1..off[m + 1] : f[m + 1][i] = q[i]
    OBVIOUS
  <2> DEFINE s == f[m]
             t == ps[m + 1]
             u == f[m + 1]
             a == off[m]
             b == off[m + 1]
  <2>1. m + 1 \in 1..n /\ (m + 1) - 1 = m /\ m \in 0..n /\ m + 1 \in 0..n
    BY <1>3
  <2>2. u = Cat(s, t) /\ s \in Seq(V) /\ t \in Seq(V)
    BY <1>3, <1>4, <2>1
  <2>3. /\ a < b /\ Len(t) \in {0, b - a} /\ a \in Nat /\ b \in Nat
        /\ \A i \in 1..Len(t) : t[i] = q[a + i]
    BY <1>0, <2>1
  <2>4. Len(s) <= a /\ (Len(s) = a => \A i \in 1..a : s[i] = q[i])
    BY <1>3, <1>6
  <2> HIDE DEF s, t, u, a, b
  <2>5. /\ Len(s) \in Nat /\ Len(t) \in Nat /\ Len(u) = Len(s) + Len(t)
        /\ \A i \in 1..Len(s) : u[i] = s[i]
        /\ \A i \in 1..Len(t) : u[Len(s) + i] = t[i]
    <3>1. Joins(Cat(s, t), s, t, V)
      BY <2>2, CatJoins
    <3> QED
      BY <2>2, <3>1 DEF Joins
  <2>6. Len(u) <= b
    BY <2>3, <2>4, <2>5
  <2>7. ASSUME Len(u) = b, NEW i \in 1..b PROVE u[i] = q[i]
    <3>1. Len(s) = a /\ Len(t) = b - a
      BY <2>3, <2>4, <2>5, <2>7
    <3>2. CASE i <= a
      <4>1. i \in 1..a
        BY <2>3, <3>2
      <4> QED
        BY <2>4, <2>5, <3>1, <4>1
    <3>3. CASE ~ (i <= a)
      <4>1. PICK j \in 1..b - a : i = a + j
        <5>1. i - a \in 1..b - a /\ i = a + (i - a)
          BY <2>3, <3>3
        <5> QED
          BY <5>1
      <4>2. u[a + j] = t[j] /\ t[j] = q[a + j]
        BY <2>3, <2>5, <3>1
      <4> QED
        BY <4>1, <4>2
    <3> QED
      BY <3>2, <3>3
  <2> QED
    BY <2>6, <2>7 DEF u, b
<1> HIDE DEF N
<1>7. Nat \subseteq N
  BY <1>5, <1>6, SetInduction
<1>8. n \in N /\ Len(f[n]) = off[n]
  BY <1>2, <1>3, <1>7
<1> HIDE DEF n
<1>9. \A i \in 1..off[n] : f[n][i] = q[i]
  BY <1>3, <1>8 DEF N
<1> QED
  BY <1>2, <1>9 DEF n
-----------------------------------------------------------------------------
(* Folds over sequences.                                                   *)

\* What FoldLeft makes of a set of positions, the last one at the end.
FoldBody(g, base, s, h, t) == IF t = {} THEN base ELSE g[<<h[t \ {Max(t)}], s[Max(t)]>>]

\* h folds every set of positions, with values in V.
Folding(h, g, base, s, V) ==
  /\ h \in [SUBSET (1..Len(s)) -> V]
  /\ \A t \in SUBSET (1..Len(s)) : h[t] = FoldBody(g, base, s, h, t)

\* A set of positions has a last one.
LEMMA LastPosition ==
  ASSUME NEW n \in Nat, NEW t \in SUBSET (1..n)
  PROVE  /\ IsFiniteSet(t) /\ Cardinality(t) \in Nat /\ (Cardinality(t) = 0 => t = {})
         /\ Cardinality(t) <= n
         /\ t # {} => /\ Max(t) \in t /\ Max(t) \in 1..n /\ \A i \in t : i <= Max(t)
                      /\ t \ {Max(t)} \in SUBSET (1..n) /\ Cardinality(t \ {Max(t)}) = Cardinality(t) - 1
<1>1. IsFiniteSet(1..n) /\ Cardinality(1..n) = n
  BY FS_Interval
<1>2. IsFiniteSet(t) /\ Cardinality(t) \in Nat /\ Cardinality(t) <= n /\ (Cardinality(t) = 0 => t = {})
  <2>1. t \subseteq 1..n
    OBVIOUS
  <2>2. IsFiniteSet(t) /\ Cardinality(t) <= n
    BY <1>1, <2>1, FS_Subset
  <2> QED
    BY <2>2, FS_CardinalityType, FS_EmptySet
<1>3. ASSUME t # {} PROVE Max(t) \in t /\ \A i \in t : i <= Max(t)
  <2>1. t \in SUBSET (0..n)
    OBVIOUS
  <2> QED
    BY <1>3, <2>1, MaxIs
<1>4. ASSUME t # {} PROVE Cardinality(t \ {Max(t)}) = Cardinality(t) - 1
  BY <1>2, <1>3, <1>4, FS_RemoveElement
<1> QED
  BY <1>2, <1>3, <1>4

\* There is a function that folds every set of positions.
LEMMA FoldExists ==
  ASSUME NEW V, NEW E, NEW g \in [V \X E -> V], NEW base \in V, NEW s \in Seq(E)
  PROVE  \E h : Folding(h, g, base, s, V)
<1> DEFINE U == SUBSET (1..Len(s))
           G(h, n) == h \in [U -> V] /\ \A t \in U : Cardinality(t) <= n => h[t] = FoldBody(g, base, s, h, t)
           T == {n \in Nat : \E h : G(h, n)}
<1>0. /\ Len(s) \in Nat /\ \A i \in 1..Len(s) : s[i] \in E
      /\ \A t \in U : Cardinality(t) \in Nat /\ (Cardinality(t) = 0 => t = {}) /\ Cardinality(t) <= Len(s)
  BY LenProperties, ElementOfSeq, LastPosition
<1>1. 0 \in T
  <2> DEFINE h == [t \in U |-> base]
  <2>1. \A t \in U : Cardinality(t) <= 0 => h[t] = FoldBody(g, base, s, h, t)
    BY <1>0 DEF FoldBody
  <2>2. h \in [U -> V]
    OBVIOUS
  <2> HIDE DEF h
  <2> QED
    BY <2>1, <2>2
<1>2. ASSUME NEW n \in Nat, NEW h, G(h, n) PROVE \E k : G(k, n + 1)
  <2> DEFINE k == [t \in U |-> IF Cardinality(t) = n + 1 THEN FoldBody(g, base, s, h, t) ELSE h[t]]
  <2>1. ASSUME NEW t \in U PROVE FoldBody(g, base, s, h, t) \in V
    <3>1. CASE t = {}
      BY <3>1 DEF FoldBody
    <3>2. CASE t # {}
      <4>1. t \ {Max(t)} \in U /\ s[Max(t)] \in E
        BY <1>0, <3>2, LastPosition
      <4>2. h[t \ {Max(t)}] \in V
        BY <1>2, <4>1
      <4> QED
        BY <3>2, <4>1, <4>2 DEF FoldBody
    <3> QED
      BY <3>1, <3>2
  <2>2. k \in [U -> V]
    <3>1. \A t \in U : h[t] \in V
      BY <1>2
    <3> HIDE DEF G
    <3> QED
      BY <2>1, <3>1
  <2>3. ASSUME NEW t \in U, Cardinality(t) <= n + 1 PROVE k[t] = FoldBody(g, base, s, k, t)
    <3>1. k[t] = FoldBody(g, base, s, h, t)
      BY <1>0, <1>2, <2>3
    <3>2. FoldBody(g, base, s, k, t) = FoldBody(g, base, s, h, t)
      <4>1. CASE t = {}
        BY <4>1 DEF FoldBody
      <4>2. CASE t # {}
        <5> DEFINE r == t \ {Max(t)}
        <5>1. r \in U /\ Cardinality(t) \in Nat /\ Cardinality(r) = Cardinality(t) - 1
          BY <1>0, <4>2, LastPosition
        <5> HIDE DEF r
        <5>2. Cardinality(r) # n + 1
          BY <1>2, <2>3, <5>1
        <5>3. k[r] = h[r]
          BY <5>1, <5>2
        <5> QED
          BY <4>2, <5>3 DEF FoldBody, r
      <4> QED
        BY <4>1, <4>2
    <3> QED
      BY <3>1, <3>2
  <2> HIDE DEF k
  <2>4. G(k, n + 1)
    BY <2>2, <2>3
  <2> HIDE DEF G
  <2> QED
    BY <2>4
<1> HIDE DEF G
<1>3. ASSUME NEW n \in Nat, n \in T PROVE n + 1 \in T
  BY <1>2, <1>3
<1> HIDE DEF T
<1>4. Nat \subseteq T
  BY <1>1, <1>3, SetInduction
<1>5. PICK h : G(h, Len(s))
  BY <1>0, <1>4 DEF T
<1> QED
  BY <1>0, <1>5 DEF G, Folding

\* The positions up to one without the last.
LEMMA UpToPosition ==
  ASSUME NEW n \in Nat, NEW i \in 1..n
  PROVE  /\ 1..i \in SUBSET (1..n) /\ 1..(i-1) \in SUBSET (1..n) /\ 1..i # {}
         /\ Max(1..i) = i /\ (1..i) \ {Max(1..i)} = 1..(i - 1)
<1>1. 1..i \in SUBSET (1..n) /\ i \in 1..i
  OBVIOUS
<1>2. Max(1..i) \in 1..i /\ i <= Max(1..i)
  BY <1>1, LastPosition
<1>3. Max(1..i) = i
  BY <1>2
<1> QED
  BY <1>1, <1>3
-----------------------------------------------------------------------------
(* Events in the order of their time.                                      *)

Chronological(s) == \A i, j \in 1..Len(s) : i <= j => s[i].ts <= s[j].ts

IsPoint(s, ts, n) == /\ \A i \in 1..n : s[i].ts <= ts
                     /\ \A i \in (n + 1)..Len(s) : s[i].ts > ts

\* There is a partition point.
LEMMA PointExists ==
  ASSUME NEW S, \A r \in S : r.ts \in Int,
         NEW s \in Seq(S), Chronological(s), NEW ts \in Int
  PROVE  Point(s, ts) \in 0..Len(s) /\ IsPoint(s, ts, Point(s, ts))
<1> DEFINE later == {i \in 1..Len(s) : s[i].ts > ts}
<1>1. Len(s) \in Nat /\ \A i \in 1..Len(s) : s[i] \in S /\ s[i].ts \in Int
  BY ElementOfSeq, LenProperties
<1>2. \E n \in 0..Len(s) : IsPoint(s, ts, n)
  <2>1. CASE later = {}
    BY <1>1, <2>1 DEF IsPoint
  <2>2. CASE later # {}
    <3>0. later \in SUBSET Nat
      BY <1>1
    <3>1. PICK x \in later : \A y \in later : x <= y
      <4> HIDE DEF later
      <4> QED BY <3>0, <2>2, SetMin
    <3>2. \A i \in 1..(x - 1) : s[i].ts <= ts
      BY <1>1, <3>1
    <3>3. \A i \in x..Len(s) : s[i].ts > ts
      BY <1>1, <3>1 DEF Chronological
    <3>4. x - 1 \in 0..Len(s) /\ (x - 1) + 1 = x
      BY <1>1
    <3>5. IsPoint(s, ts, x - 1)
      BY <3>2, <3>3, <3>4 DEF IsPoint
    <3> QED BY <3>4, <3>5
  <2> QED BY <2>1, <2>2
<1> QED BY <1>2 DEF IsPoint, Point

(* Whatever arrives, the collected events stay sorted, none is lost, moved  *)
(* relative to the others or changed, and the new one comes after every     *)
(* event that is not later than it, so that events of the same time keep    *)
(* the order they arrived in (crates/time/src/lib.rs).                      *)
THEOREM CollectKeepsOrder ==
  ASSUME NEW S, \A r \in S : r.ts \in Int,
         NEW s \in Seq(S), Chronological(s), NEW e \in S
  PROVE  /\ Collect(s, e) \in Seq(S) /\ Chronological(Collect(s, e))
         /\ Len(Collect(s, e)) = Len(s) + 1
         /\ \E n \in 0..Len(s) :
              /\ IsPoint(s, e.ts, n)
              /\ Collect(s, e) = [i \in 1..(Len(s) + 1) |->
                                    IF i <= n THEN s[i] ELSE IF i = n + 1 THEN e ELSE s[i - 1]]
<1> DEFINE r == Collect(s, e)
<1>1. Len(s) \in Nat /\ \A i \in 1..Len(s) : s[i] \in S /\ s[i].ts \in Int
  BY ElementOfSeq, LenProperties
<1>2. PICK n \in 0..Len(s) : IsPoint(s, e.ts, n) /\ r = Inserted(s, n, e)
  <2>1. CASE s # <<>> /\ s[Len(s)].ts <= e.ts
    <3>1. Len(s) \in 1..Len(s)
      BY <1>1, <2>1, EmptySeq
    <3>2. IsPoint(s, e.ts, Len(s))
      BY <1>1, <2>1, <3>1 DEF IsPoint, Chronological
    <3>3. Append(s, e) = Inserted(s, Len(s), e)
      <4>1. Append(s, e) \in Seq(S) /\ Len(Append(s, e)) = Len(s) + 1
        BY AppendProperties
      <4>2. DOMAIN Append(s, e) = 1..(Len(s) + 1) /\ Append(s, e) = [i \in 1..(Len(s) + 1) |-> Append(s, e)[i]]
        BY <4>1, LenProperties
      <4>3. \A i \in 1..(Len(s) + 1) : Append(s, e)[i] = IF i <= Len(s) THEN s[i] ELSE e
        BY <1>1, AppendProperties
      <4>4. \A i \in 1..(Len(s) + 1) : Append(s, e)[i] = Inserted(s, Len(s), e)[i]
        BY <1>1, <4>3 DEF Inserted
      <4> QED BY <4>2, <4>4 DEF Inserted
    <3> QED BY <1>1, <2>1, <3>2, <3>3 DEF Collect
  <2>2. CASE ~(s # <<>> /\ s[Len(s)].ts <= e.ts)
    BY <2>2, PointExists DEF Collect
  <2> QED BY <2>1, <2>2
<1>3. r = [i \in 1..(Len(s) + 1) |-> IF i <= n THEN s[i] ELSE IF i = n + 1 THEN e ELSE s[i - 1]]
  BY <1>2 DEF Inserted
<1>4. \A i \in 1..(Len(s) + 1) : r[i] \in S
  BY <1>1, <1>3
<1>5. r \in Seq(S) /\ Len(r) = Len(s) + 1
  BY <1>1, <1>3, <1>4, IsASeq
<1>6. Chronological(r)
  <2> SUFFICES ASSUME NEW i \in 1..Len(r), NEW j \in 1..Len(r), i <= j
               PROVE  r[i].ts <= r[j].ts
    BY DEF Chronological
  <2>1. e.ts \in Int
    OBVIOUS
  <2>2. \A k \in 1..n : s[k].ts <= e.ts
    BY <1>2 DEF IsPoint
  <2>3. \A k \in (n + 1)..Len(s) : s[k].ts > e.ts
    BY <1>2 DEF IsPoint
  <2>7. \A k \in 1..n : r[k] = s[k] /\ k \in 1..Len(s)
    BY <1>1, <1>3
  <2>8. \A k, m \in 1..Len(s) : k <= m => s[k].ts <= s[m].ts
    BY DEF Chronological
  <2>9. r[n + 1] = e
    BY <1>1, <1>3
  <2>10. \A k \in (n + 2)..(Len(s) + 1) : r[k] = s[k - 1] /\ k - 1 \in 1..Len(s)
    BY <1>1, <1>3
  <2>11. n \in Nat /\ i \in Nat /\ j \in Nat /\ i <= Len(s) + 1 /\ j <= Len(s) + 1 /\ 1 <= i
    BY <1>1, <1>5
  <2> HIDE DEF r
  <2>4. CASE j <= n
    <3>1. i \in 1..n /\ j \in 1..n
      BY <2>11, <2>4
    <3> QED BY <2>7, <2>8, <3>1
  <2>5. CASE j = n + 1
    <3>1. CASE i <= n
      <4>1. i \in 1..n
        BY <2>11, <3>1
      <4> QED BY <2>2, <2>5, <2>7, <2>9, <4>1
    <3>2. CASE i = n + 1
      BY <2>1, <2>5, <2>9, <3>2
    <3> QED BY <2>5, <2>11, <3>1, <3>2
  <2>6. CASE j > n + 1
    <3>1. r[j] = s[j - 1] /\ j - 1 \in (n + 1)..Len(s) /\ j - 1 \in 1..Len(s)
      <4>1. j \in (n + 2)..(Len(s) + 1)
        BY <1>1, <2>6, <2>11
      <4> QED BY <1>1, <2>10, <2>11, <4>1
    <3>2. CASE i <= n
      <4>1. i \in 1..n /\ i <= j - 1
        BY <2>6, <2>11, <3>2
      <4> QED BY <2>7, <2>8, <3>1, <4>1
    <3>3. CASE i = n + 1
      <4>1. s[j - 1].ts > e.ts
        BY <2>3, <3>1
      <4>2. s[j - 1].ts \in Int
        BY <1>1, <3>1
      <4> QED BY <2>1, <2>9, <3>1, <3>3, <4>1, <4>2
    <3>4. CASE i > n + 1
      <4>1. i \in (n + 2)..(Len(s) + 1) /\ i - 1 <= j - 1
        BY <1>1, <1>5, <2>11, <3>4
      <4>2. r[i] = s[i - 1] /\ i - 1 \in 1..Len(s)
        BY <2>10, <4>1
      <4> QED BY <2>8, <3>1, <4>1, <4>2
    <3> QED BY <2>11, <3>2, <3>3, <3>4
  <2> QED BY <2>11, <2>4, <2>5, <2>6
<1> QED BY <1>2, <1>3, <1>5, <1>6

\* What Ordered makes of a set of positions.
CollectBody(s, h, t) == IF t = {} THEN <<>> ELSE Collect(h[t \ {Max(t)}], s[Max(t)])

IsCollecting(s, h) == h = [t \in SUBSET DOMAIN s |-> CollectBody(s, h, t)]

\* f collects the events of s one by one.
Collecting(f, s, S) ==
  /\ f \in [0..Len(s) -> {q \in Seq(S) : Chronological(q)}] /\ f[0] = <<>>
  /\ \A i \in 1..Len(s) : f[i] = Collect(f[i-1], s[i])

(* Ordered collects the events one by one. *)
LEMMA OrderedSteps ==
  ASSUME NEW S, \A r \in S : r.ts \in Int, NEW s \in Seq(S)
  PROVE  \E f : Collecting(f, s, S) /\ Ordered(s) = f[Len(s)]
<1> DEFINE V == {q \in Seq(S) : Chronological(q)}
           g == [p \in V \X S |-> Collect(p[1], p[2])]
           n == Len(s)
           U == SUBSET (1..n)
           h0 == CHOOSE h : IsCollecting(s, h)
<1>1. n \in Nat /\ DOMAIN s = 1..n /\ \A i \in 1..n : s[i] \in S
  BY LenProperties, ElementOfSeq
<1>2. ASSUME NEW q \in V, NEW e \in S PROVE Collect(q, e) \in V
  BY CollectKeepsOrder
<1>3. g \in [V \X S -> V] /\ \A q \in V, e \in S : g[<<q, e>>] = Collect(q, e)
  BY <1>2
<1>4. <<>> \in V
  BY DEF Chronological
<1> HIDE DEF V, g
<1>h. PICK h : Folding(h, g, <<>>, s, V)
  BY <1>3, <1>4, FoldExists
<1>5. h \in [U -> V] /\ \A t \in U : h[t] = FoldBody(g, <<>>, s, h, t)
  BY <1>h DEF Folding
<1>6. ASSUME NEW k \in [U -> V], NEW t \in U
      PROVE  FoldBody(g, <<>>, s, k, t) = CollectBody(s, k, t)
  <2>1. CASE t = {}
    BY <2>1 DEF FoldBody, CollectBody
  <2>2. CASE t # {}
    <3>1. t \ {Max(t)} \in U /\ s[Max(t)] \in S
      BY <1>1, <2>2, LastPosition
    <3>2. k[t \ {Max(t)}] \in V
      BY <3>1
    <3> QED
      BY <1>3, <2>2, <3>1, <3>2 DEF FoldBody, CollectBody
  <2> QED
    BY <2>1, <2>2
<1>7. IsCollecting(s, h)
  <2>1. h = [t \in U |-> h[t]]
    BY <1>5
  <2>2. \A t \in U : h[t] = CollectBody(s, h, t)
    BY <1>5, <1>6
  <2> QED
    BY <1>1, <2>1, <2>2 DEF IsCollecting
<1>8. IsCollecting(s, h0)
  BY <1>7
<1>9. Ordered(s) = h0[1..n]
  BY <1>1 DEF Ordered, FoldLeft, MapThenFoldSet, CollectBody, IsCollecting
<1> HIDE DEF h0
<1>10. \A t \in U : h0[t] = CollectBody(s, h0, t)
  BY <1>1, <1>8 DEF IsCollecting
<1> DEFINE f == [i \in 0..n |-> h0[1..i]]
           T == {i \in Nat : i <= n => f[i] \in V}
<1>11. f[0] = <<>>
  <2>1. 1..0 = {} /\ 0 \in 0..n /\ {} \in U
    BY <1>1
  <2> QED
    BY <1>10, <2>1 DEF CollectBody
<1>12. ASSUME NEW i \in 1..n PROVE f[i] = Collect(f[i-1], s[i])
  <2>1. /\ 1..i \in U /\ 1..i # {}
        /\ Max(1..i) = i /\ (1..i) \ {Max(1..i)} = 1..(i - 1)
    BY <1>1, UpToPosition
  <2>2. h0[1..i] = Collect(h0[1..(i-1)], s[i])
    BY <1>10, <2>1 DEF CollectBody
  <2>3. i \in 0..n /\ i - 1 \in 0..n
    BY <1>1
  <2> QED
    BY <2>2, <2>3
<1>13. f[n] = h0[1..n] /\ DOMAIN f = 0..n
  BY <1>1
<1>14. f = [i \in 0..n |-> f[i]]
  OBVIOUS
<1> HIDE DEF f
<1>15. 0 \in T
  BY <1>4, <1>11
<1>16. ASSUME NEW i \in Nat, i \in T PROVE i + 1 \in T
  <2> SUFFICES ASSUME i + 1 <= n PROVE f[i+1] \in V
    OBVIOUS
  <2>1. i + 1 \in 1..n /\ (i + 1) - 1 = i
    BY <1>1
  <2>2. f[i] \in V /\ s[i+1] \in S
    BY <1>1, <1>16, <2>1
  <2>3. f[i+1] = Collect(f[i], s[i+1])
    BY <1>12, <2>1
  <2> QED
    BY <1>2, <2>2, <2>3
<1> HIDE DEF T
<1>17. Nat \subseteq T
  BY <1>15, <1>16, SetInduction
<1>18. \A i \in 0..n : f[i] \in V
  BY <1>1, <1>17 DEF T
<1>19. f \in [0..n -> V]
  BY <1>14, <1>18
<1>20. Collecting(f, s, S)
  BY <1>11, <1>12, <1>19 DEF Collecting, V
<1> QED
  BY <1>9, <1>13, <1>20

\* An event that is not earlier than the others comes last.
LEMMA CollectLast ==
  ASSUME NEW S, \A r \in S : r.ts \in Int,
         NEW s \in Seq(S), NEW e \in S, \A i \in 1..Len(s) : s[i].ts <= e.ts
  PROVE  Collect(s, e) = Append(s, e)
<1>1. Len(s) \in Nat
  BY LenProperties
<1>2. CASE s = <<>>
  <2>1. Len(s) = 0 /\ Chronological(s)
    BY <1>2 DEF Chronological
  <2>2. Point(s, e.ts) = 0
    <3>1. Point(s, e.ts) \in 0..Len(s)
      BY <2>1, PointExists
    <3> QED
      BY <2>1, <3>1
  <2>3. Collect(s, e) = [i \in 1..1 |-> e]
    BY <1>2, <2>1, <2>2 DEF Collect, Inserted
  <2>4. [i \in 1..1 |-> e] \in Seq(S) /\ Len([i \in 1..1 |-> e]) = 1
    BY IsASeq
  <2>5. Append(s, e) \in Seq(S) /\ Len(Append(s, e)) = 1 /\ Append(s, e)[1] = e
    BY <2>1, AppendProperties
  <2>6. \A i \in 1..1 : Collect(s, e)[i] = Append(s, e)[i]
    BY <2>3, <2>5
  <2> QED
    BY <2>3, <2>4, <2>5, <2>6, SeqEqual
<1>3. CASE s # <<>>
  <2>1. Len(s) \in 1..Len(s)
    BY <1>1, <1>3, EmptySeq
  <2> QED
    BY <1>3, <2>1 DEF Collect
<1> QED
  BY <1>2, <1>3

(* Events that arrive in the order of their time stay as they came. *)
LEMMA OrderedIsSame ==
  ASSUME NEW S, \A r \in S : r.ts \in Int, NEW s \in Seq(S), Chronological(s)
  PROVE  Ordered(s) = s
<1>1. PICK f : Collecting(f, s, S) /\ Ordered(s) = f[Len(s)]
  BY OrderedSteps
<1> DEFINE n == Len(s)
           T == {i \in Nat : i <= n => Len(f[i]) = i /\ \A j \in 1..i : f[i][j] = s[j]}
<1>2. n \in Nat /\ \A i \in 1..n : s[i] \in S
  BY LenProperties, ElementOfSeq
<1>3. \A i \in 0..n : f[i] \in Seq(S) /\ Chronological(f[i])
  BY <1>1 DEF Collecting
<1>4. 0 \in T
  <2>1. f[0] = <<>>
    BY <1>1 DEF Collecting
  <2> QED
    BY <2>1
<1>5. ASSUME NEW i \in Nat, i \in T PROVE i + 1 \in T
  <2> SUFFICES ASSUME i + 1 <= n
               PROVE  Len(f[i+1]) = i + 1 /\ \A j \in 1..(i+1) : f[i+1][j] = s[j]
    OBVIOUS
  <2> DEFINE q == f[i]
             e == s[i+1]
  <2>1. i \in 0..n /\ i + 1 \in 1..n /\ (i + 1) - 1 = i
    BY <1>2
  <2>2. q \in Seq(S) /\ e \in S /\ Len(q) = i /\ \A j \in 1..i : q[j] = s[j]
    BY <1>2, <1>3, <1>5, <2>1
  <2>3. f[i+1] = Collect(q, e)
    BY <1>1, <2>1 DEF Collecting
  <2>4. ASSUME NEW j \in 1..Len(q) PROVE q[j].ts <= e.ts
    <3>1. j \in 1..n /\ i + 1 \in 1..n /\ j <= i + 1
      BY <1>2, <2>1, <2>2
    <3>2. s[j].ts <= s[i+1].ts
      BY <3>1 DEF Chronological
    <3> QED
      BY <2>2, <3>2
  <2> HIDE DEF q, e
  <2>5. f[i+1] = Append(q, e)
    BY <2>2, <2>3, <2>4, CollectLast
  <2>6. Len(Append(q, e)) = i + 1 /\ Append(q, e)[i+1] = e /\ \A j \in 1..i : Append(q, e)[j] = q[j]
    BY <2>2, AppendProperties
  <2>7. \A j \in 1..(i+1) : j = i + 1 \/ j \in 1..i
    OBVIOUS
  <2> QED
    BY <2>2, <2>5, <2>6, <2>7 DEF e
<1> HIDE DEF T
<1>6. Nat \subseteq T
  BY <1>4, <1>5, SetInduction
<1>7. Len(f[n]) = n /\ \A j \in 1..n : f[n][j] = s[j]
  BY <1>2, <1>6 DEF T
<1>8. f[n] \in Seq(S)
  BY <1>2, <1>3
<1> QED
  BY <1>1, <1>7, <1>8, SeqEqual
=============================================================================
