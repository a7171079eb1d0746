-------------------------- MODULE ContextFilesProofs -------------------------
(***************************************************************************)
(* Theorems about ContextFiles for every list of entities, batch size and  *)
(* buffer capacity, and any number of events.  The argument: what an       *)
(* entity emitted is, serialized, in its file, in a blocking thread's      *)
(* hands, in the buffer, in write_all's, or in the channel, in this order  *)
(* (Stream); a step moves parts one place on, and only a write that fails  *)
(* takes some out.  What is left of them is in order (StreamInv), which is *)
(* all the importers need; when an observer's drop has returned all places *)
(* but the file are empty (LifeInv).                                       *)
(***************************************************************************)
EXTENDS ContextFiles, SequenceLemmas, FiniteSetTheorems

Events == (Nat \ {0}) \X BOOLEAN
Parts  == (Nat \ {0}) \X (1..3)

TypeInv ==
  /\ ctx \in {"building", "live", "failed", "dropping", "gone"}
  /\ obs \in [Entities -> {"unbuilt", "alive", "joining", "dropped"}]
  /\ owners \in [Entities -> SUBSET {"ctx", "handle"}]
  /\ fw \in [Entities -> {"none", "run", "close", "done"}]
  /\ emitted \in [Entities -> Seq(Events)]
  /\ queue \in [Entities -> Seq(Events)]
  /\ pend \in [Entities -> Seq(Parts)] /\ buf \in [Entities -> Seq(Parts)]
  /\ inflight \in [Entities -> Seq(Parts)] /\ disk \in [Entities -> Seq(Parts)]
  /\ err \in [Entities -> BOOLEAN] /\ failed \in [Entities -> BOOLEAN]

(* The observers are built in order, and kept until the context goes. *)
BuildInv ==
  /\ ctx = "building" => \E k \in 0..(Len(Order) - 1) :
       \A i \in 1..Len(Order) : obs[Order[i]] # "unbuilt" <=> i <= k
  /\ ctx = "live" => \A e \in Entities : obs[e] # "unbuilt"
  /\ ctx \in {"building", "live"} =>
       \A e \in Entities : obs[e] = "unbuilt" \/ (obs[e] = "alive" /\ "ctx" \in owners[e])

LifeInv ==
  \A e \in Entities :
    /\ obs[e] = "unbuilt" <=> fw[e] = "none"
    /\ obs[e] = "alive" => fw[e] = "run"
    /\ obs[e] # "alive" => owners[e] = {}
    /\ obs[e] = "dropped" => fw[e] = "done"
    /\ fw[e] \in {"close", "done"} => obs[e] \in {"joining", "dropped"} /\ queue[e] = <<>>
    /\ fw[e] # "run" => pend[e] = <<>>
    /\ fw[e] = "done" => inflight[e] = <<>> /\ (buf[e] = <<>> \/ failed[e])
    /\ err[e] => failed[e]

RuntimeInv ==
  /\ runtime \in {"up", "down"}
  /\ runtime = "down" => /\ kind = "owned" /\ ctx = "gone"
                         /\ \A e \in Entities : obs[e] \in {"unbuilt", "dropped"}

(* All that is on its way to the file, and what is there. *)
Stream(e) == Cat(Cat(Cat(Cat(disk[e], inflight[e]), buf[e]), pend[e]), Serialized(queue[e]))

Precedes(p, q) == p[1] < q[1] \/ (p[1] = q[1] /\ p[2] < q[2])

Increasing(d) == \A i, j \in 1..Len(d) : i < j => Precedes(d[i], d[j])

(* Events are numbered as they come, and p is a part of one that serializes. *)
Counted(es) == \A i \in 1..Len(es) : es[i][1] = i
PartOf(es, p) == p[1] \in 1..Len(es) /\ es[p[1]][2]

Sorted(es, d) == Increasing(d) /\ \A k \in 1..Len(d) : PartOf(es, d[k])

StreamInv ==
  \A e \in Entities :
    /\ Counted(emitted[e])
    /\ ~failed[e] => Stream(e) = Serialized(emitted[e])
    /\ Sorted(emitted[e], Stream(e))

IInv == TypeInv /\ BuildInv /\ LifeInv /\ RuntimeInv /\ StreamInv
-----------------------------------------------------------------------------
(* What is serialized. *)

Framed == [v \in Events |-> FrameIf(v)]
Numbered == [v \in Events |-> NumberIf(v)]

\* An event is three parts of a file, or none.
LEMMA FrameType ==
  ASSUME NEW v \in Events
  PROVE  /\ Frame(v) \in Seq(Parts) /\ Len(Frame(v)) = 3
         /\ \A i \in 1..3 : Frame(v)[i] = <<v[1], i>>
         /\ FrameIf(v) \in Seq(Parts)
<1>1. v[1] \in Nat \ {0}
  BY DEF Events
<1>2. \A i \in 1..3 : <<v[1], i>> \in Parts
  BY <1>1 DEF Parts
<1>3. Frame(v) \in [1..3 -> Parts]
  BY <1>2 DEF Frame
<1>4. Frame(v) \in Seq(Parts) /\ Len(Frame(v)) = 3
  <2> DEFINE f == Frame(v)
  <2>1. f \in [1..3 -> Parts]
    BY <1>3
  <2> HIDE DEF f
  <2>2. f \in Seq(Parts) /\ Len(f) = 3
    <3>1. 3 \in Nat /\ DOMAIN f = 1..3
      BY <2>1
    <3>2. f \in Seq(Parts)
      BY <2>1, <3>1, SeqDef
    <3> QED
      BY <3>1, <3>2, LenProperties
  <2> QED
    BY <2>2 DEF f
<1>5. FrameIf(v) \in Seq(Parts)
  <2> HIDE DEF Frame
  <2> QED
    BY <1>4, EmptySeq DEF FrameIf
<1> QED
  BY <1>4, <1>5 DEF Frame

\* The same as functions.
LEMMA MapTypes == Framed \in [Events -> Seq(Parts)] /\ Numbered \in [Events -> Seq(Nat \ {0})]
<1>1. \A v \in Events : FrameIf(v) \in Seq(Parts)
  BY FrameType
<1>2. \A v \in Events : NumberIf(v) \in Seq(Nat \ {0})
  <2> SUFFICES ASSUME NEW v \in Events PROVE NumberIf(v) \in Seq(Nat \ {0})
    OBVIOUS
  <2>1. <<v[1]>> \in Seq(Nat \ {0})
    BY DEF Events
  <2> QED
    BY <2>1, EmptySeq DEF NumberIf
<1> QED
  BY <1>1, <1>2 DEF Framed, Numbered

\* Serialized and Numbers flatten the images of their events.
LEMMA SerializedIs ==
  ASSUME NEW s \in Seq(Events)
  PROVE  /\ Serialized(s) = FlatMap(Framed, s) /\ Serialized(s) \in Seq(Parts)
         /\ Numbers(s) = FlatMap(Numbered, s) /\ Numbers(s) \in Seq(Nat \ {0})
<1>1. DOMAIN s = 1..Len(s) /\ \A i \in 1..Len(s) : s[i] \in Events
  BY LenProperties, ElementOfSeq
<1>2. [i \in DOMAIN s |-> FrameIf(s[i])] = [i \in 1..Len(s) |-> Framed[s[i]]]
  BY <1>1 DEF Framed
<1>3. [i \in DOMAIN s |-> NumberIf(s[i])] = [i \in 1..Len(s) |-> Numbered[s[i]]]
  BY <1>1 DEF Numbered
<1>4. Serialized(s) = FlatMap(Framed, s) /\ Numbers(s) = FlatMap(Numbered, s)
  BY <1>2, <1>3 DEF Serialized, Numbers, FlatMap
<1>5. FlatMap(Framed, s) \in Seq(Parts)
  BY MapTypes, FlatMapType
<1>6. FlatMap(Numbered, s) \in Seq(Nat \ {0})
  BY MapTypes, FlatMapType
<1> QED
  BY <1>4, <1>5, <1>6

\* Nothing serializes to nothing.
LEMMA SerializedEmpty == Serialized(<<>>) = <<>> /\ Numbers(<<>>) = <<>>
BY SerializedIs, FlatMapEmpty, EmptySeq

\* One event more serializes to its frame more.
LEMMA SerializedAppend ==
  ASSUME NEW s \in Seq(Events), NEW v \in Events
  PROVE  /\ Serialized(Append(s, v)) = Cat(Serialized(s), FrameIf(v))
         /\ Numbers(Append(s, v)) = Cat(Numbers(s), NumberIf(v))
<1>2. Maps(Framed, Events, Parts) /\ Maps(Numbered, Events, Nat \ {0})
  BY MapTypes DEF Maps
<1>3. FlatMap(Framed, Append(s, v)) = Cat(FlatMap(Framed, s), Framed[v])
  BY <1>2, FlatMapCat
<1>4. FlatMap(Numbered, Append(s, v)) = Cat(FlatMap(Numbered, s), Numbered[v])
  BY <1>2, FlatMapCat
<1>5. Append(s, v) \in Seq(Events)
  BY AppendProperties
<1>6. Framed[v] = FrameIf(v) /\ Numbered[v] = NumberIf(v)
  BY DEF Framed, Numbered
<1> QED
  BY <1>3, <1>4, <1>5, <1>6, SerializedIs

\* Two batches serialize to one after the other.
LEMMA SerializedConcat ==
  ASSUME NEW s \in Seq(Events), NEW t \in Seq(Events)
  PROVE  Serialized(Cat(s, t)) = Cat(Serialized(s), Serialized(t))
<1>1. Maps(Framed, Events, Parts)
  BY MapTypes DEF Maps
<1>2. FlatMap(Framed, Cat(s, t)) = Cat(FlatMap(Framed, s), FlatMap(Framed, t))
  BY <1>1, FlatMapConcat
<1>3. Cat(s, t) \in Seq(Events)
  BY CatElements
<1> QED
  BY <1>2, <1>3, SerializedIs
-----------------------------------------------------------------------------
(* Parts on their way.  S is the set of parts.                             *)

(* What moves from one place to the next stays in line. *)
LEMMA MoveOn ==
  ASSUME NEW S, NEW x \in Seq(S), NEW a \in Seq(S), NEW b \in Seq(S), NEW y \in Seq(S)
  PROVE  /\ Cat(x, a) \in Seq(S)
         /\ Cat(Cat(x, <<>>), Cat(a, b)) = Cat(Cat(x, a), b)
         /\ Cat(Cat(x, a), b) = Cat(Cat(x, Cat(a, b)), <<>>)
         /\ Cat(Cat(x, <<>>), a) = Cat(Cat(x, a), <<>>)
<1>1. Cat(x, a) \in Seq(S) /\ Cat(a, b) \in Seq(S)
  BY CatElements
<1>2. Cat(Cat(x, a), b) = Cat(x, Cat(a, b))
  BY CatAssociative
<1>3. /\ Cat(x, <<>>) = x /\ Cat(Cat(x, Cat(a, b)), <<>>) = Cat(x, Cat(a, b))
      /\ Cat(Cat(x, a), <<>>) = Cat(x, a)
  <2>1. Cat(x, Cat(a, b)) \in Seq(S)
    BY <1>1, CatElements
  <2> QED
    BY <1>1, <2>1, CatEmpty
<1> QED
  BY <1>1, <1>2, <1>3

(* Parts taken out of the middle leave the rest in order. *)
LEMMA LoseMiddle ==
  ASSUME NEW a \in Seq(Parts), NEW b \in Seq(Parts), NEW c \in Seq(Parts), NEW es,
         Sorted(es, Cat(Cat(a, b), c))
  PROVE  Sorted(es, Cat(a, c))
<1> DEFINE ab == Cat(a, b)
           w == Cat(ab, c)
           u == Cat(a, c)
           h(i) == IF i <= Len(a) THEN i ELSE i + Len(b)
<1>a. Joins(ab, a, b, Parts) /\ Joins(u, a, c, Parts)
  BY CatJoins
<1> HIDE DEF ab, u
<1>1. /\ ab \in Seq(Parts) /\ Len(a) \in Nat /\ Len(b) \in Nat /\ Len(ab) = Len(a) + Len(b)
      /\ \A i \in 1..Len(a) : ab[i] = a[i]
  BY <1>a DEF Joins
<1>b. Joins(w, ab, c, Parts)
  BY <1>1, CatJoins
<1> HIDE DEF w
<1>2. /\ Len(c) \in Nat /\ Len(w) = Len(ab) + Len(c)
      /\ \A i \in 1..Len(ab) : w[i] = ab[i]
  BY <1>b DEF Joins
<1>3. \A i \in 1..Len(c) : w[Len(ab) + i] = c[i]
  BY <1>b DEF Joins
<1>4. Len(u) = Len(a) + Len(c) /\ \A i \in 1..Len(a) : u[i] = a[i]
  BY <1>a DEF Joins
<1>5. \A i \in 1..Len(c) : u[Len(a) + i] = c[i]
  BY <1>a DEF Joins
<1>6. ASSUME NEW i \in 1..Len(u) PROVE h(i) \in 1..Len(w) /\ u[i] = w[h(i)]
  <2>1. CASE i <= Len(a)
    BY <1>1, <1>2, <1>4, <2>1
  <2>2. CASE Len(a) < i
    <3> DEFINE j == i - Len(a)
    <3>1. /\ j \in 1..Len(c) /\ Len(a) + j = i /\ h(i) = Len(ab) + j
          /\ Len(ab) + j \in 1..Len(w)
      BY <1>1, <1>2, <1>4, <2>2
    <3> HIDE DEF j, h
    <3>2. u[Len(a) + j] = c[j] /\ w[Len(ab) + j] = c[j]
      BY <1>3, <1>5, <3>1
    <3> QED
      BY <3>1, <3>2
  <2> QED
    BY <1>1, <1>4, <2>1, <2>2
<1>7. \A i, j \in 1..Len(u) : i < j => h(i) < h(j)
  BY <1>1, <1>2, <1>4
<1>8. Sorted(es, w)
  BY DEF w, ab
<1> HIDE DEF h
<1>9. Increasing(u)
  BY <1>6, <1>7, <1>8 DEF Increasing, Sorted
<1>10. \A k \in 1..Len(u) : PartOf(es, u[k])
  BY <1>6, <1>8 DEF Sorted
<1> QED
  BY <1>9, <1>10 DEF Sorted, u

(* One more event: its parts come after all others. *)
LEMMA OneMore ==
  ASSUME NEW es \in Seq(Events), NEW d \in Seq(Parts), Counted(es), Sorted(es, d),
         NEW v \in Events, v[1] = Len(es) + 1
  PROVE  Counted(Append(es, v)) /\ Sorted(Append(es, v), Cat(d, FrameIf(v)))
<1> DEFINE n == Len(es)
           t == Append(es, v)
           f == FrameIf(v)
           u == Cat(d, f)
<1>1. /\ n \in Nat /\ t \in Seq(Events) /\ Len(t) = n + 1 /\ t[n + 1] = v
      /\ \A i \in 1..n : t[i] = es[i]
  BY AppendProperties, LenProperties
<1>2. f \in Seq(Parts)
  BY FrameType
<1>3. \A i \in 1..Len(f) : i \in 1..3 /\ f[i] = <<v[1], i>> /\ v[2]
  <2>1. CASE v[2]
    <3>1. f = Frame(v)
      BY <2>1 DEF FrameIf
    <3>2. /\ Len(Frame(v)) = 3 /\ \A i \in 1..3 : Frame(v)[i] = <<v[1], i>>
      BY FrameType
    <3> HIDE DEF f
    <3> QED
      BY <2>1, <3>1, <3>2
  <2>2. CASE ~v[2]
    BY <2>2, EmptySeq DEF FrameIf
  <2> QED
    BY <2>1, <2>2
<1> HIDE DEF f
<1>4. /\ Len(d) \in Nat /\ Len(f) \in Nat /\ Len(u) = Len(d) + Len(f)
      /\ \A i \in 1..Len(d) : u[i] = d[i]
  BY <1>2, CatElements
<1>5. ASSUME NEW i \in 1..Len(f) PROVE u[Len(d) + i] = f[i]
  BY <1>2, CatElements
<1> HIDE DEF t, u
<1>6. Counted(t)
  <2> SUFFICES ASSUME NEW i \in 1..(n + 1) PROVE t[i][1] = i
    BY <1>1 DEF Counted
  <2>1. CASE i \in 1..n
    BY <1>1, <2>1 DEF Counted
  <2>2. CASE i = n + 1
    BY <1>1, <2>2
  <2> QED
    BY <1>1, <2>1, <2>2
<1>7. \A i \in 1..Len(d) : PartOf(es, u[i])
  BY <1>4 DEF Sorted
<1>8. ASSUME NEW i \in 1..Len(u), Len(d) < i
      PROVE  u[i] = <<n + 1, i - Len(d)>> /\ v[2]
  <2> DEFINE j == i - Len(d)
  <2>1. j \in 1..Len(f) /\ Len(d) + j = i
    BY <1>4, <1>8
  <2> HIDE DEF j
  <2>2. f[j] = <<v[1], j>> /\ v[2]
    BY <1>3, <2>1
  <2>3. u[Len(d) + j] = f[j]
    BY <1>5, <2>1
  <2> QED
    BY <2>1, <2>2, <2>3 DEF j
<1>9. ASSUME NEW i \in 1..Len(u) PROVE PartOf(t, u[i])
  <2>1. CASE i \in 1..Len(d)
    <3>1. PartOf(es, u[i])
      BY <1>7, <2>1
    <3> QED
      BY <1>1, <3>1 DEF PartOf
  <2>2. CASE Len(d) < i
    <3>1. u[i] = <<n + 1, i - Len(d)>> /\ v[2]
      BY <1>8, <2>2
    <3> QED
      BY <1>1, <3>1 DEF PartOf
  <2> QED
    BY <1>4, <2>1, <2>2
<1>10. ASSUME NEW i \in 1..Len(u), NEW j \in 1..Len(u), i < j PROVE Precedes(u[i], u[j])
  <2>1. CASE j \in 1..Len(d)
    <3>1. i \in 1..Len(d) /\ u[i] = d[i] /\ u[j] = d[j]
      BY <1>4, <1>10, <2>1
    <3> QED
      BY <1>10, <2>1, <3>1 DEF Sorted, Increasing
  <2>2. CASE Len(d) < j /\ i \in 1..Len(d)
    <3>1. u[j] = <<n + 1, j - Len(d)>> /\ u[i][1] \in 1..n
      BY <1>7, <1>8, <2>2 DEF PartOf
    <3> QED
      BY <1>1, <3>1 DEF Precedes
  <2>3. CASE Len(d) < i /\ Len(d) < j
    <3>1. u[j] = <<n + 1, j - Len(d)>> /\ u[i] = <<n + 1, i - Len(d)>>
      BY <1>8, <2>3
    <3> QED
      BY <1>4, <1>10, <3>1 DEF Precedes
  <2> QED
    BY <1>4, <2>1, <2>2, <2>3
<1> QED
  BY <1>6, <1>9, <1>10 DEF Sorted, Increasing, t, u, f
-----------------------------------------------------------------------------
(* The state. *)

\* The order names every entity, and each once.
LEMMA OrderFacts ==
  /\ Len(Order) \in Nat \ {0}
  /\ \A i \in 1..Len(Order) : Order[i] \in Entities
  /\ \A e \in Entities : \E i \in 1..Len(Order) : e = Order[i]
  /\ \A i, j \in 1..Len(Order) : Order[i] = Order[j] => i = j
<1>1. /\ Order \in Seq(Entities) /\ Order # <<>> /\ DOMAIN Order = 1..Len(Order)
      /\ Len(Order) \in Nat
  BY OrderAssumption, LenProperties DEF Entities
<1>2. Len(Order) # 0
  BY <1>1, EmptySeq
<1>3. \A i, j \in 1..Len(Order) : Order[i] = Order[j] => i = j
  BY <1>1, OrderAssumption DEF IsInjective
<1> QED
  BY <1>1, <1>2, <1>3 DEF Entities, ToSet

\* The invariant holds at first.
LEMMA InitIInv == Init => IInv
<1> SUFFICES ASSUME Init PROVE IInv
  OBVIOUS
<1>1. \A e \in Entities : /\ emitted[e] = <<>> /\ queue[e] = <<>> /\ pend[e] = <<>>
                          /\ buf[e] = <<>> /\ inflight[e] = <<>> /\ disk[e] = <<>>
  BY DEF Init, Empty
<1>2. TypeInv
  <2>1. <<>> \in Seq(Events) /\ <<>> \in Seq(Parts)
    BY EmptySeq
  <2>2. Empty \in [Entities -> Seq(Events)] /\ Empty \in [Entities -> Seq(Parts)]
    BY <2>1 DEF Empty
  <2>3. /\ emitted = Empty /\ queue = Empty /\ pend = Empty /\ buf = Empty
        /\ inflight = Empty /\ disk = Empty
    BY DEF Init
  <2>4. /\ emitted \in [Entities -> Seq(Events)] /\ queue \in [Entities -> Seq(Events)]
        /\ pend \in [Entities -> Seq(Parts)] /\ buf \in [Entities -> Seq(Parts)]
        /\ inflight \in [Entities -> Seq(Parts)] /\ disk \in [Entities -> Seq(Parts)]
    BY <2>2, <2>3
  <2> QED
    BY <2>4 DEF Init, TypeInv
<1>3. BuildInv
  <2>1. \A i \in 1..Len(Order) : obs[Order[i]] # "unbuilt" <=> i <= 0
    BY OrderFacts DEF Init
  <2>2. 0 \in 0..(Len(Order) - 1)
    BY OrderFacts
  <2> QED
    BY <2>1, <2>2 DEF Init, BuildInv
<1>4. LifeInv
  BY <1>1 DEF Init, LifeInv
<1>5. RuntimeInv
  BY DEF Init, RuntimeInv
<1>6. StreamInv
  <2> SUFFICES ASSUME NEW e \in Entities
               PROVE  /\ Counted(emitted[e]) /\ Stream(e) = Serialized(emitted[e])
                      /\ Sorted(emitted[e], Stream(e))
    BY DEF StreamInv
  <2>1. Cat(<<>>, <<>>) = <<>>
    BY EmptySeq, CatEmpty
  <2>2. Stream(e) = <<>> /\ emitted[e] = <<>>
    BY <1>1, <2>1, SerializedEmpty DEF Stream
  <2> QED
    BY <2>2, SerializedEmpty DEF Counted, Sorted, Increasing
<1> QED
  BY <1>2, <1>3, <1>4, <1>5, <1>6 DEF IInv

\* Where the first k of the order are built, k are.
LEMMA BuiltCount ==
  ASSUME NEW k \in 0..(Len(Order) - 1), obs \in [Entities -> {"unbuilt", "alive", "joining", "dropped"}],
         \A i \in 1..Len(Order) : obs[Order[i]] # "unbuilt" <=> i <= k
  PROVE  Cardinality({e \in Entities : obs[e] # "unbuilt"}) = k
<1> DEFINE B == {e \in Entities : obs[e] # "unbuilt"}
           f == [i \in 1..k |-> Order[i]]
<1>1. k \in Nat /\ \A i \in 1..k : i \in 1..Len(Order)
  BY OrderFacts
<1>2. f \in [1..k -> B]
  BY <1>1, OrderFacts
<1>3. \A i, j \in 1..k : f[i] = f[j] => i = j
  BY <1>1, OrderFacts
<1>4. \A e \in B : \E i \in 1..k : f[i] = e
  <2> SUFFICES ASSUME NEW e \in B PROVE \E i \in 1..k : f[i] = e
    OBVIOUS
  <2>1. PICK i \in 1..Len(Order) : e = Order[i]
    BY OrderFacts
  <2>2. i \in 1..k
    BY <1>1, <2>1
  <2> QED
    BY <2>1, <2>2
<1> HIDE DEF f, B
<1>5. ExistsBijection(1..k, B)
  BY <1>2, <1>3, <1>4 DEF ExistsBijection, Bijection, Injection, Surjection, IsInjective
<1>6. Cardinality(B) = k
  BY <1>1, <1>5, FS_CountingElements
<1> QED
  BY <1>6 DEF B

(* The next of the entities is built, or the building ends. *)
LEMMA BuildIs ==
  ASSUME TypeInv, BuildInv, Build
  PROVE  /\ ctx = "building" /\ UNCHANGED <<kind, joiner, runtime, emitted, queue, file>>
         /\ \/ \E k \in 0..(Len(Order) - 1), e \in Entities :
                 /\ \A i \in 1..Len(Order) : obs[Order[i]] # "unbuilt" <=> i <= k
                 /\ e = Order[k + 1] /\ obs[e] = "unbuilt"
                 /\ obs' = [obs EXCEPT ![e] = "alive"]
                 /\ owners' = [owners EXCEPT ![e] = {"ctx"}]
                 /\ fw' = [fw EXCEPT ![e] = "run"]
                 /\ ctx' = IF k + 1 = Len(Order) THEN "live" ELSE "building"
            \/ ctx' = "failed" /\ UNCHANGED <<obs, owners, fw>>
<1>1. ctx = "building" /\ UNCHANGED <<kind, joiner, runtime, emitted, queue, file>>
  BY DEF Build
<1>2. PICK k \in 0..(Len(Order) - 1) : \A i \in 1..Len(Order) : obs[Order[i]] # "unbuilt" <=> i <= k
  BY <1>1 DEF BuildInv
<1>3. Cardinality({e \in Entities : obs[e] # "unbuilt"}) = k
  BY <1>2, BuiltCount DEF TypeInv
<1>4. k + 1 \in 1..Len(Order) /\ ~(k + 1 <= k)
  BY OrderFacts
<1>5. Order[k + 1] \in Entities /\ obs[Order[k + 1]] = "unbuilt"
  BY <1>2, <1>4, OrderFacts
<1> QED
  BY <1>1, <1>2, <1>3, <1>5 DEF Build

\* Every step keeps TypeInv.
LEMMA TypeStep == ASSUME TypeInv, BuildInv, RuntimeInv, Next PROVE TypeInv' /\ kind' = kind
<1>1. CASE Crash
  BY <1>1 DEF Crash, TypeInv, context, file
<1>2. CASE Build
  <2>1. /\ UNCHANGED <<kind, emitted, queue, pend, buf, inflight, disk, err, failed>>
        /\ obs' \in [Entities -> {"unbuilt", "alive", "joining", "dropped"}]
        /\ owners' \in [Entities -> SUBSET {"ctx", "handle"}]
        /\ fw' \in [Entities -> {"none", "run", "close", "done"}]
        /\ ctx' \in {"building", "live", "failed", "dropping", "gone"}
    <3>1. UNCHANGED <<kind, emitted, queue, pend, buf, inflight, disk, err, failed>>
      BY <1>2, BuildIs DEF file
    <3>2. CASE ctx' = "failed" /\ UNCHANGED <<obs, owners, fw>>
      BY <3>1, <3>2 DEF TypeInv
    <3>3. CASE ~(ctx' = "failed" /\ UNCHANGED <<obs, owners, fw>>)
      <4>1. PICK k \in 0..(Len(Order) - 1), e \in Entities :
                 /\ obs' = [obs EXCEPT ![e] = "alive"]
                 /\ owners' = [owners EXCEPT ![e] = {"ctx"}]
                 /\ fw' = [fw EXCEPT ![e] = "run"]
                 /\ ctx' = IF k + 1 = Len(Order) THEN "live" ELSE "building"
        BY <1>2, <3>3, BuildIs
      <4> QED
        BY <3>1, <4>1 DEF TypeInv
    <3> QED
      BY <3>2, <3>3
  <2> QED
    BY <2>1 DEF TypeInv
<1>3. CASE DropContext
  BY <1>3 DEF DropContext, TypeInv, file
<1>4. CASE InnerDrops
  BY <1>4 DEF InnerDrops, TypeInv, file
<1>5. ASSUME NEW e \in Entities, TakeHandle(e) PROVE TypeInv' /\ kind' = kind
  BY <1>5 DEF TakeHandle, TypeInv, file
<1>6. ASSUME NEW e \in Entities, Emit(e) PROVE TypeInv' /\ kind' = kind
  <2>1. PICK serializes \in BOOLEAN :
          /\ emitted' = [emitted EXCEPT ![e] = Append(@, <<Len(emitted[e]) + 1, serializes>>)]
          /\ queue' = [queue EXCEPT ![e] = Append(@, <<Len(emitted[e]) + 1, serializes>>)]
    BY <1>6 DEF Emit
  <2> DEFINE v == <<Len(emitted[e]) + 1, serializes>>
  <2>2. Len(emitted[e]) \in Nat /\ emitted[e] \in Seq(Events) /\ queue[e] \in Seq(Events)
    BY LenProperties DEF TypeInv
  <2>3. v \in Events
    BY <2>2 DEF Events
  <2> HIDE DEF v
  <2>4. Append(emitted[e], v) \in Seq(Events) /\ Append(queue[e], v) \in Seq(Events)
    BY <2>2, <2>3, AppendProperties
  <2>5. /\ emitted' = [emitted EXCEPT ![e] = Append(emitted[e], v)]
        /\ queue' = [queue EXCEPT ![e] = Append(queue[e], v)]
    BY <2>1 DEF v, TypeInv
  <2>6. emitted' \in [Entities -> Seq(Events)] /\ queue' \in [Entities -> Seq(Events)]
    BY <2>4, <2>5 DEF TypeInv
  <2> QED
    BY <1>6, <2>6 DEF Emit, TypeInv, context, file
<1>7. ASSUME NEW e \in Entities, DropHandle(e) PROVE TypeInv' /\ kind' = kind
  BY <1>7 DEF DropHandle, Disown, TypeInv, file
<1>8. ASSUME NEW e \in Entities, ContextDisowns(e) PROVE TypeInv' /\ kind' = kind
  BY <1>8 DEF ContextDisowns, Disown, TypeInv, file
<1>9. ASSUME NEW e \in Entities, JoinReturns(e) PROVE TypeInv' /\ kind' = kind
  BY <1>9 DEF JoinReturns, TypeInv, file
<1>10. ASSUME NEW e \in Entities, Drain(e) PROVE TypeInv' /\ kind' = kind
  <2> DEFINE n == IF Len(queue[e]) < Batch THEN Len(queue[e]) ELSE Batch
             q == queue[e]
  <2>1. q \in Seq(Events) /\ n \in 0..Len(q)
    BY SizesAssumption, LenProperties DEF TypeInv
  <2>2. /\ pend' = [pend EXCEPT ![e] = Serialized(SubSeq(q, 1, n))]
        /\ queue' = [queue EXCEPT ![e] = SubSeq(q, n + 1, Len(q))]
        /\ UNCHANGED <<context, alive, emitted, fw, buf, inflight, err, disk, failed>>
    BY <1>10 DEF Drain, TypeInv
  <2> HIDE DEF n, q
  <2>3. SubSeq(q, 1, n) \in Seq(Events) /\ SubSeq(q, n + 1, Len(q)) \in Seq(Events)
    BY <2>1, CatSplit
  <2>4. Serialized(SubSeq(q, 1, n)) \in Seq(Parts)
    BY <2>3, SerializedIs
  <2> QED
    BY <2>2, <2>3, <2>4 DEF TypeInv, context
<1>11. ASSUME NEW e \in Entities, Copy(e) PROVE TypeInv' /\ kind' = kind
  <2>1. pend[e] \in Seq(Parts) /\ buf[e] \in Seq(Parts) /\ <<>> \in Seq(Parts)
    BY EmptySeq DEF TypeInv
  <2>2. Cat(buf[e], pend[e]) \in Seq(Parts)
    BY <2>1, CatElements
  <2>3. /\ buf' = [buf EXCEPT ![e] = Cat(buf[e], pend[e])]
        /\ pend' = [pend EXCEPT ![e] = <<>>]
        /\ UNCHANGED <<context, alive, emitted, queue, fw, inflight, err, disk, failed>>
    BY <1>11 DEF Copy, Cat, TypeInv
  <2> QED
    BY <2>1, <2>2, <2>3 DEF TypeInv, context
<1>12. ASSUME NEW e \in Entities, WriteThrough(e) PROVE TypeInv' /\ kind' = kind
  <2>1. pend[e] \in Seq(Parts) /\ buf[e] \in Seq(Parts) /\ <<>> \in Seq(Parts)
    BY EmptySeq DEF TypeInv
  <2>2. /\ pend' \in [Entities -> Seq(Parts)] /\ buf' \in [Entities -> Seq(Parts)]
        /\ inflight' \in [Entities -> Seq(Parts)] /\ err' \in [Entities -> BOOLEAN]
    BY <1>12, <2>1 DEF WriteThrough, TypeInv
  <2> QED
    BY <1>12, <2>2 DEF WriteThrough, TypeInv, context
<1>16. ASSUME NEW e \in Entities, WriteSome(e) PROVE TypeInv' /\ kind' = kind
  <2>1. PICK n \in 1..(Len(inflight[e]) - 1) :
           /\ disk' = [disk EXCEPT ![e] = @ \o SubSeq(inflight[e], 1, n)]
           /\ inflight' = [inflight EXCEPT ![e] = SubSeq(@, n + 1, Len(@))]
    BY <1>16 DEF WriteSome
  <2> DEFINE s == SubSeq(inflight[e], 1, n)
             t == SubSeq(inflight[e], n + 1, Len(inflight[e]))
  <2>2. inflight[e] \in Seq(Parts) /\ n \in 0..Len(inflight[e]) /\ disk[e] \in Seq(Parts)
    BY LenProperties DEF TypeInv
  <2>3. s \in Seq(Parts) /\ t \in Seq(Parts)
    BY <2>2, CatSplit
  <2> HIDE DEF s, t
  <2>4. Cat(disk[e], s) \in Seq(Parts)
    BY <2>2, <2>3, CatElements
  <2>5. disk' = [disk EXCEPT ![e] = Cat(disk[e], s)] /\ inflight' = [inflight EXCEPT ![e] = t]
    BY <2>1 DEF s, t, Cat, TypeInv
  <2>6. disk' \in [Entities -> Seq(Parts)] /\ inflight' \in [Entities -> Seq(Parts)]
    BY <2>3, <2>4, <2>5 DEF TypeInv
  <2> QED
    BY <1>16, <2>6 DEF WriteSome, TypeInv, context
<1>13. ASSUME NEW e \in Entities, WriteEnds(e) PROVE TypeInv' /\ kind' = kind
  <2>1. PICK n \in 0..Len(inflight[e]) :
           /\ disk' = [disk EXCEPT ![e] = @ \o SubSeq(inflight[e], 1, n)]
           /\ err' = [err EXCEPT ![e] = n < Len(inflight[e])]
           /\ failed' = [failed EXCEPT ![e] = @ \/ n < Len(inflight[e])]
    BY <1>13 DEF WriteEnds
  <2> DEFINE s == SubSeq(inflight[e], 1, n)
  <2>2. s \in Seq(Parts) /\ disk[e] \in Seq(Parts) /\ <<>> \in Seq(Parts)
    BY EmptySeq, CatSplit DEF TypeInv
  <2> HIDE DEF s
  <2>3. Cat(disk[e], s) \in Seq(Parts)
    BY <2>2, CatElements
  <2>4. disk' = [disk EXCEPT ![e] = Cat(disk[e], s)]
    BY <2>1 DEF s, Cat, TypeInv
  <2>5. /\ disk' \in [Entities -> Seq(Parts)] /\ err' \in [Entities -> BOOLEAN]
        /\ failed' \in [Entities -> BOOLEAN]
    BY <2>1, <2>3, <2>4 DEF TypeInv
  <2>6. inflight' \in [Entities -> Seq(Parts)]
    BY <1>13, <2>2 DEF WriteEnds, TypeInv
  <2> QED
    BY <1>13, <2>5, <2>6 DEF WriteEnds, TypeInv, context
<1>14. ASSUME NEW e \in Entities, Close(e) PROVE TypeInv' /\ kind' = kind
  BY <1>14 DEF Close, TypeInv, context, file
<1>15. ASSUME NEW e \in Entities, Shutdown(e) PROVE TypeInv' /\ kind' = kind
  <2>1. <<>> \in Seq(Parts)
    BY EmptySeq
  <2>2. /\ UNCHANGED <<context, alive, emitted, queue, pend, err, disk, failed>>
        /\ \/ /\ inflight' = [inflight EXCEPT ![e] = buf[e]] /\ buf' = [buf EXCEPT ![e] = <<>>]
              /\ fw' = fw
           \/ fw' = [fw EXCEPT ![e] = "done"] /\ inflight' = inflight /\ buf' = buf
    BY <1>15 DEF Shutdown
  <2>3. /\ inflight \in [Entities -> Seq(Parts)] /\ buf \in [Entities -> Seq(Parts)]
        /\ fw \in [Entities -> {"none", "run", "close", "done"}]
    BY DEF TypeInv
  <2>4. /\ inflight' \in [Entities -> Seq(Parts)] /\ buf' \in [Entities -> Seq(Parts)]
        /\ fw' \in [Entities -> {"none", "run", "close", "done"}]
    BY <2>1, <2>2, <2>3
  <2> QED
    BY <2>2, <2>4 DEF TypeInv, context
<1> QED
  BY <1>1, <1>2, <1>3, <1>4, <1>5, <1>6, <1>7, <1>8, <1>9, <1>10, <1>11, <1>12, <1>13, <1>14,
     <1>15, <1>16, ZenonT(60) DEF Next, Teardown, Forwarder

\* Every step keeps BuildInv.
LEMMA BuildStep == ASSUME TypeInv, BuildInv, LifeInv, Next PROVE BuildInv'
<1>1. CASE UNCHANGED <<ctx, obs, owners>>
  BY <1>1 DEF BuildInv
<1>2. CASE Build
  <2>1. CASE ctx' = "failed"
    BY <2>1 DEF BuildInv
  <2>2. CASE ctx' # "failed"
    <3>1. PICK k \in 0..(Len(Order) - 1), e \in Entities :
             /\ \A i \in 1..Len(Order) : obs[Order[i]] # "unbuilt" <=> i <= k
             /\ e = Order[k + 1]
             /\ obs' = [obs EXCEPT ![e] = "alive"]
             /\ owners' = [owners EXCEPT ![e] = {"ctx"}]
             /\ ctx' = IF k + 1 = Len(Order) THEN "live" ELSE "building"
      BY <1>2, <2>2, BuildIs
    <3>2. ctx = "building"
      BY <1>2 DEF Build
    <3>3. k + 1 \in 1..Len(Order) /\ k \in Nat /\ Len(Order) \in Nat
      BY OrderFacts
    <3>4. ASSUME NEW i \in 1..Len(Order) PROVE obs'[Order[i]] # "unbuilt" <=> i <= k + 1
      <4>1. CASE i = k + 1
        BY <3>1, <4>1 DEF TypeInv
      <4>2. CASE i # k + 1
        <5>1. Order[i] # e /\ Order[i] \in Entities
          BY <3>1, <3>3, <4>2, OrderFacts
        <5>2. obs'[Order[i]] = obs[Order[i]]
          BY <3>1, <5>1 DEF TypeInv
        <5> QED
          BY <3>1, <3>3, <4>2, <5>2
      <4> QED
        BY <4>1, <4>2
    <3>5. \A d \in Entities : obs'[d] = "unbuilt" \/ (obs'[d] = "alive" /\ "ctx" \in owners'[d])
      <4>1. \A d \in Entities : obs[d] = "unbuilt" \/ (obs[d] = "alive" /\ "ctx" \in owners[d])
        BY <3>2 DEF BuildInv
      <4> QED
        BY <3>1, <4>1 DEF TypeInv
    <3>6. CASE k + 1 = Len(Order)
      <4>1. \A d \in Entities : obs'[d] # "unbuilt"
        <5> SUFFICES ASSUME NEW d \in Entities PROVE obs'[d] # "unbuilt"
          OBVIOUS
        <5>1. PICK i \in 1..Len(Order) : d = Order[i]
          BY OrderFacts
        <5> QED
          BY <3>4, <3>6, <5>1
      <4> QED
        BY <3>1, <3>5, <3>6, <4>1 DEF BuildInv
    <3>7. CASE k + 1 # Len(Order)
      <4>1. k + 1 \in 0..(Len(Order) - 1)
        BY <3>3, <3>7
      <4> QED
        BY <3>1, <3>4, <3>5, <3>7, <4>1 DEF BuildInv
    <3> QED
      BY <3>6, <3>7
  <2> QED
    BY <2>1, <2>2
<1>3. CASE DropContext \/ InnerDrops
  BY <1>3 DEF DropContext, InnerDrops, BuildInv
<1>4. ASSUME NEW e \in Entities, TakeHandle(e) PROVE BuildInv'
  BY <1>4 DEF TakeHandle, BuildInv, TypeInv
<1>5. ASSUME NEW e \in Entities, DropHandle(e) PROVE BuildInv'
  <2>1. CASE ctx \in {"building", "live"}
    <3>1. "handle" \in owners[e] /\ "ctx" \in owners[e] /\ obs[e] = "alive"
      BY <1>5, <2>1 DEF DropHandle, Disown, BuildInv, LifeInv
    <3>2. owners' = [owners EXCEPT ![e] = owners[e] \ {"handle"}] /\ owners'[e] # {}
      BY <1>5, <3>1 DEF DropHandle, Disown, TypeInv
    <3>3. obs' = obs /\ ctx' = ctx
      BY <1>5, <3>2 DEF DropHandle, Disown
    <3> QED
      BY <3>2, <3>3 DEF BuildInv, TypeInv
  <2>2. CASE ctx \notin {"building", "live"}
    BY <1>5, <2>2 DEF DropHandle, BuildInv
  <2> QED
    BY <2>1, <2>2
<1>6. ASSUME NEW e \in Entities, ContextDisowns(e) PROVE BuildInv'
  BY <1>6 DEF ContextDisowns, GoesDown, BuildInv
<1>7. ASSUME NEW e \in Entities, JoinReturns(e) PROVE BuildInv'
  <2>1. ctx \notin {"building", "live"} /\ ctx' = ctx
    BY <1>7 DEF JoinReturns, BuildInv
  <2> QED
    BY <2>1 DEF BuildInv
<1>8. ASSUME NEW e \in Entities, Emit(e) \/ Forwarder(e) PROVE UNCHANGED <<ctx, obs, owners>>
  BY <1>8 DEF Emit, Forwarder, Drain, Copy, WriteThrough, WriteSome, WriteEnds, Close, Shutdown, context
<1>9. CASE Crash
  BY <1>1, <1>9 DEF Crash, context
<1> QED
  BY <1>1, <1>2, <1>3, <1>4, <1>5, <1>6, <1>7, <1>8, <1>9 DEF Next, Teardown

\* Every step keeps LifeInv.
LEMMA LifeStep == ASSUME TypeInv, BuildInv, LifeInv, Next PROVE LifeInv'
<1> DEFINE L(d) ==
      /\ obs[d] = "unbuilt" <=> fw[d] = "none"
      /\ obs[d] = "alive" => fw[d] = "run"
      /\ obs[d] # "alive" => owners[d] = {}
      /\ obs[d] = "dropped" => fw[d] = "done"
      /\ fw[d] \in {"close", "done"} => obs[d] \in {"joining", "dropped"} /\ queue[d] = <<>>
      /\ fw[d] # "run" => pend[d] = <<>>
      /\ fw[d] = "done" => inflight[d] = <<>> /\ (buf[d] = <<>> \/ failed[d])
      /\ err[d] => failed[d]
<1>0. (\A d \in Entities : L(d)) /\ ((\A d \in Entities : L(d)') => LifeInv')
  BY DEF LifeInv
<1>1. CASE UNCHANGED <<obs, owners, fw, queue, file>>
  BY <1>1 DEF LifeInv, file
<1>2. CASE Build
  <2>1. CASE UNCHANGED <<obs, owners, fw>>
    BY <1>1, <1>2, <2>1, BuildIs
  <2>2. CASE ~UNCHANGED <<obs, owners, fw>>
    <3>1. PICK k \in 0..(Len(Order) - 1), e \in Entities :
             /\ obs[e] = "unbuilt"
             /\ obs' = [obs EXCEPT ![e] = "alive"]
             /\ owners' = [owners EXCEPT ![e] = {"ctx"}]
             /\ fw' = [fw EXCEPT ![e] = "run"]
      BY <1>2, <2>2, BuildIs
    <3>2. UNCHANGED <<queue, file>>
      BY <1>2, BuildIs
    <3>3. \A d \in Entities : L(d)'
      BY <1>0, <3>1, <3>2 DEF TypeInv, file
    <3> QED
      BY <1>0, <3>3
  <2> QED
    BY <2>1, <2>2
<1>3. CASE Crash \/ DropContext \/ InnerDrops
  BY <1>1, <1>3 DEF Crash, DropContext, InnerDrops, context
<1>4. ASSUME NEW e \in Entities, TakeHandle(e) PROVE LifeInv'
  <2>1. obs[e] = "alive"
    BY <1>4 DEF TakeHandle, BuildInv
  <2>2. owners' = [owners EXCEPT ![e] = @ \cup {"handle"}] /\ UNCHANGED <<obs, fw, queue, file>>
    BY <1>4 DEF TakeHandle
  <2>3. \A d \in Entities : L(d)'
    BY <1>0, <2>1, <2>2 DEF TypeInv, file
  <2> QED
    BY <1>0, <2>3
<1>5. ASSUME NEW e \in Entities, Emit(e) PROVE LifeInv'
  <2>1. obs[e] = "alive" /\ fw[e] = "run"
    BY <1>5 DEF Emit, LifeInv
  <2>2. /\ \A d \in Entities \ {e} : queue'[d] = queue[d]
        /\ UNCHANGED <<obs, owners, fw, file>>
    BY <1>5 DEF Emit, TypeInv, context
  <2>3. \A d \in Entities : L(d)'
    BY <1>0, <2>1, <2>2 DEF TypeInv, file
  <2> QED
    BY <1>0, <2>3
<1>6. ASSUME NEW e \in Entities, NEW who, Disown(e, who), UNCHANGED <<fw, queue, file>>
      PROVE LifeInv'
  <2>1. obs[e] = "alive"
    BY <1>6 DEF Disown, LifeInv
  <2>2. owners' = [owners EXCEPT ![e] = @ \ {who}]
    BY <1>6 DEF Disown
  <2>3. CASE owners'[e] = {}
    <3>1. obs' = [obs EXCEPT ![e] = "joining"]
      BY <1>6, <2>3 DEF Disown
    <3>2. \A d \in Entities : L(d)'
      BY <1>0, <1>6, <2>1, <2>2, <2>3, <3>1 DEF TypeInv, file
    <3> QED
      BY <1>0, <3>2
  <2>4. CASE owners'[e] # {}
    <3>1. obs' = obs
      BY <1>6, <2>4 DEF Disown
    <3>2. \A d \in Entities : L(d)'
      BY <1>0, <1>6, <2>1, <2>2, <3>1 DEF TypeInv, file
    <3> QED
      BY <1>0, <3>2
  <2> QED
    BY <2>3, <2>4
<1>7. ASSUME NEW e \in Entities, DropHandle(e) \/ ContextDisowns(e) PROVE LifeInv'
  <2>1. UNCHANGED <<fw, queue, file>>
    BY <1>7 DEF DropHandle, ContextDisowns
  <2>2. Disown(e, "handle") \/ Disown(e, "ctx")
    BY <1>7 DEF DropHandle, ContextDisowns
  <2> QED
    BY <1>6, <2>1, <2>2
<1>8. ASSUME NEW e \in Entities, JoinReturns(e) PROVE LifeInv'
  <2>1. /\ obs[e] = "joining" /\ fw[e] = "done" /\ obs' = [obs EXCEPT ![e] = "dropped"]
        /\ UNCHANGED <<owners, fw, queue, file>>
    BY <1>8 DEF JoinReturns
  <2>2. \A d \in Entities : L(d)'
    BY <1>0, <2>1 DEF TypeInv, file
  <2> QED
    BY <1>0, <2>2
<1>9. ASSUME NEW e \in Entities, Drain(e) PROVE LifeInv'
  <2>1. /\ fw[e] = "run" /\ UNCHANGED <<obs, owners, fw, buf, inflight, err, failed>>
        /\ \A d \in Entities \ {e} : queue'[d] = queue[d] /\ pend'[d] = pend[d]
    BY <1>9 DEF Drain, Idle, context, TypeInv
  <2>2. \A d \in Entities : L(d)'
    BY <1>0, <2>1 DEF TypeInv
  <2> QED
    BY <1>0, <2>2
<1>10. ASSUME NEW e \in Entities, Copy(e) \/ WriteThrough(e) PROVE LifeInv'
  <2>1. fw[e] = "run"
    BY <1>0, <1>10 DEF Copy, WriteThrough
  <2>2. /\ UNCHANGED <<obs, owners, fw, queue, failed>> /\ (err'[e] => err[e])
        /\ \A d \in Entities \ {e} : /\ pend'[d] = pend[d] /\ buf'[d] = buf[d]
                                     /\ inflight'[d] = inflight[d] /\ err'[d] = err[d]
    <3>1. CASE Copy(e)
      BY <3>1 DEF Copy, context, TypeInv
    <3>2. CASE WriteThrough(e)
      <4>1. UNCHANGED <<obs, owners, fw, queue, failed>> /\ err' = [err EXCEPT ![e] = FALSE]
        BY <3>2 DEF WriteThrough, context
      <4>2. CASE err[e]
        BY <3>2, <4>1, <4>2 DEF WriteThrough, TypeInv
      <4>3. CASE ~err[e] /\ buf[e] # <<>> /\ ~Fits(e)
        BY <3>2, <4>1, <4>3 DEF WriteThrough, TypeInv
      <4>4. CASE ~err[e] /\ ~(buf[e] # <<>> /\ ~Fits(e))
        BY <3>2, <4>1, <4>4 DEF WriteThrough, TypeInv
      <4> QED
        BY <4>2, <4>3, <4>4
    <3> QED
      BY <1>10, <3>1, <3>2
  <2>3. ASSUME NEW d \in Entities PROVE L(d)'
    <3>1. L(d)
      BY <1>0
    <3>2. CASE d = e
      BY <2>1, <2>2, <3>1, <3>2
    <3>3. CASE d # e
      BY <2>2, <3>1, <3>3
    <3> QED
      BY <3>2, <3>3
  <2> QED
    BY <1>0, <2>3
<1>14. ASSUME NEW e \in Entities, WriteSome(e) PROVE LifeInv'
  <2>1. UNCHANGED <<obs, owners, fw, queue, pend, buf, err, failed>>
    BY <1>14 DEF WriteSome, context
  <2>2. fw[e] # "done"
    <3>1. Len(inflight[e]) # 0
      BY <1>14, LenProperties DEF WriteSome, TypeInv
    <3>2. inflight[e] # <<>>
      BY <3>1, EmptySeq
    <3> QED
      BY <1>0, <3>2
  <2>3. \A d \in Entities : d # e => inflight'[d] = inflight[d]
    BY <1>14 DEF WriteSome, TypeInv
  <2>4. \A d \in Entities : L(d)'
    BY <1>0, <2>1, <2>2, <2>3
  <2> QED
    BY <1>0, <2>4
<1>11. ASSUME NEW e \in Entities, WriteEnds(e) PROVE LifeInv'
  <2>1. fw[e] # "done" /\ UNCHANGED <<obs, owners, fw, queue, pend, buf>>
    BY <1>11, <1>0 DEF WriteEnds, context
  <2>2. PICK n \in 0..Len(inflight[e]) :
           /\ err' = [err EXCEPT ![e] = n < Len(inflight[e])]
           /\ failed' = [failed EXCEPT ![e] = @ \/ n < Len(inflight[e])]
    BY <1>11 DEF WriteEnds
  <2>3. inflight' = [inflight EXCEPT ![e] = <<>>]
    BY <1>11 DEF WriteEnds
  <2>4. \A d \in Entities : L(d)'
    BY <1>0, <2>1, <2>2, <2>3 DEF TypeInv
  <2> QED
    BY <1>0, <2>4
<1>12. ASSUME NEW e \in Entities, Close(e) PROVE LifeInv'
  <2>1. /\ obs[e] = "joining" /\ fw[e] = "run" /\ queue[e] = <<>> /\ pend[e] = <<>>
        /\ fw' = [fw EXCEPT ![e] = "close"] /\ UNCHANGED <<obs, owners, queue, file>>
    BY <1>12 DEF Close, Idle, context
  <2>2. \A d \in Entities : L(d)'
    BY <1>0, <2>1 DEF TypeInv, file
  <2> QED
    BY <1>0, <2>2
<1>13. ASSUME NEW e \in Entities, Shutdown(e) PROVE LifeInv'
  <2>1. /\ fw[e] = "close" /\ inflight[e] = <<>>
        /\ UNCHANGED <<obs, owners, queue, pend, err, failed>>
    BY <1>13 DEF Shutdown, context
  <2>2. CASE ToFlush(e) /\ ~err[e]
    <3>1. /\ inflight' = [inflight EXCEPT ![e] = buf[e]] /\ buf' = [buf EXCEPT ![e] = <<>>]
          /\ fw' = fw
      BY <1>13, <2>2 DEF Shutdown
    <3>2. \A d \in Entities : L(d)'
      BY <1>0, <2>1, <3>1 DEF TypeInv
    <3> QED
      BY <1>0, <3>2
  <2>3. CASE ~(ToFlush(e) /\ ~err[e])
    <3>1. fw' = [fw EXCEPT ![e] = "done"] /\ UNCHANGED <<inflight, buf>>
      BY <1>13, <2>3 DEF Shutdown
    <3>2. \A d \in Entities : L(d)'
      BY <1>0, <2>1, <2>3, <3>1 DEF TypeInv, ToFlush
    <3> QED
      BY <1>0, <3>2
  <2> QED
    BY <2>2, <2>3
<1> QED
  BY <1>2, <1>3, <1>4, <1>5, <1>7, <1>8, <1>9, <1>10, <1>11, <1>12, <1>13, <1>14
     DEF Next, Teardown, Forwarder

\* Every step keeps RuntimeInv.
LEMMA RuntimeStep == ASSUME TypeInv, LifeInv, RuntimeInv, Next PROVE RuntimeInv'
<1>0. kind' = kind /\ (runtime = "down" => \A e \in Entities : owners[e] = {} /\ obs[e] # "joining")
  <2>1. kind' = kind
    BY DEF Next, Crash, Build, DropContext, InnerDrops, TakeHandle, Emit, DropHandle, Teardown,
           ContextDisowns, JoinReturns, Forwarder, Drain, Copy, WriteThrough, WriteSome, WriteEnds, Close,
           Shutdown, context
  <2>2. runtime = "down" => \A e \in Entities : obs[e] \in {"unbuilt", "dropped"}
    BY DEF RuntimeInv
  <2> QED
    BY <2>1, <2>2 DEF LifeInv
<1>1. CASE UNCHANGED <<ctx, obs, runtime>>
  BY <1>0, <1>1 DEF RuntimeInv
<1>2. CASE Build \/ DropContext
  BY <1>0, <1>2 DEF Build, DropContext, RuntimeInv
<1>3. ASSUME NEW e \in Entities, DropHandle(e) \/ ContextDisowns(e) PROVE RuntimeInv'
  <2>1. runtime' = runtime /\ owners[e] # {}
    BY <1>3 DEF DropHandle, ContextDisowns, Disown
  <2> QED
    BY <1>0, <2>1 DEF RuntimeInv
<1>4. ASSUME NEW c, runtime' = RuntimeAfter(c, obs'), ctx' = c,
             runtime = "up",
             \A d \in Entities : obs'[d] \in {"unbuilt", "alive", "joining", "dropped"}
      PROVE  RuntimeInv'
  <2>1. CASE kind = "owned" /\ ~Held(c, obs')
    <3>1. c = "gone" /\ \A d \in Entities : obs'[d] \notin {"alive", "joining"}
      BY <2>1 DEF Held
    <3> QED
      BY <1>0, <1>4, <2>1, <3>1 DEF RuntimeInv, RuntimeAfter
  <2>2. CASE ~(kind = "owned" /\ ~Held(c, obs'))
    BY <1>4, <2>2 DEF RuntimeInv, RuntimeAfter
  <2> QED
    BY <2>1, <2>2
<1>5. ASSUME NEW e \in Entities, JoinReturns(e) PROVE RuntimeInv'
  <2>1. obs[e] = "joining" /\ obs' = [obs EXCEPT ![e] = "dropped"] /\ runtime' = RuntimeAfter(ctx, obs')
        /\ ctx' = ctx
    BY <1>5 DEF JoinReturns
  <2>2. runtime = "up"
    BY <1>0, <2>1 DEF RuntimeInv
  <2>3. \A d \in Entities : obs'[d] \in {"unbuilt", "alive", "joining", "dropped"}
    BY <2>1 DEF TypeInv
  <2> QED
    BY <1>4, <2>1, <2>2, <2>3
<1>6. CASE InnerDrops
  <2>1. ctx # "gone" /\ ctx' = "gone" /\ runtime' = RuntimeAfter(ctx', obs) /\ obs' = obs
    BY <1>6 DEF InnerDrops, GoesDown
  <2>2. runtime = "up"
    BY <2>1 DEF RuntimeInv
  <2>3. /\ runtime' = RuntimeAfter("gone", obs')
        /\ \A d \in Entities : obs'[d] \in {"unbuilt", "alive", "joining", "dropped"}
    BY <2>1 DEF TypeInv
  <2> QED
    BY <1>4, <2>1, <2>2, <2>3
<1>7. ASSUME NEW e \in Entities, TakeHandle(e) \/ Emit(e) \/ Forwarder(e)
      PROVE  UNCHANGED <<ctx, obs, runtime>>
  BY <1>7 DEF TakeHandle, Emit, Forwarder, Drain, Copy, WriteThrough, WriteSome, WriteEnds, Close, Shutdown,
              context
<1>8. CASE Crash
  BY <1>1, <1>8 DEF Crash, context
<1> QED
  BY <1>1, <1>2, <1>3, <1>5, <1>6, <1>7, <1>8 DEF Next, Teardown
-----------------------------------------------------------------------------
(* What a step does to what is on its way.                                 *)

(* Nothing, but to take what a failed write takes, or to add an event.     *)
Keeps(e) == Stream(e)' = Stream(e) /\ emitted'[e] = emitted[e] /\ failed'[e] = failed[e]

Loses(e) == /\ failed'[e] /\ emitted'[e] = emitted[e]
            /\ \E a, b, c \in Seq(Parts) : /\ Stream(e) = Cat(Cat(a, b), c)
                                           /\ Stream(e)' = Cat(a, c)

Adds(e) == \E v \in Events : /\ v[1] = Len(emitted[e]) + 1
                             /\ emitted'[e] = Append(emitted[e], v)
                             /\ Stream(e)' = Cat(Stream(e), FrameIf(v))
                             /\ failed'[e] = failed[e]

\* What is on its way is parts of a file, from the disk to the channel.
LEMMA PlacesType ==
  ASSUME TypeInv, NEW e \in Entities
  PROVE  /\ disk[e] \in Seq(Parts) /\ inflight[e] \in Seq(Parts) /\ buf[e] \in Seq(Parts)
         /\ pend[e] \in Seq(Parts) /\ queue[e] \in Seq(Events) /\ emitted[e] \in Seq(Events)
         /\ Serialized(queue[e]) \in Seq(Parts) /\ <<>> \in Seq(Parts)
         /\ Cat(disk[e], inflight[e]) \in Seq(Parts)
         /\ Cat(Cat(disk[e], inflight[e]), buf[e]) \in Seq(Parts)
         /\ Cat(Cat(Cat(disk[e], inflight[e]), buf[e]), pend[e]) \in Seq(Parts)
         /\ Stream(e) \in Seq(Parts)
<1>1. /\ disk[e] \in Seq(Parts) /\ inflight[e] \in Seq(Parts) /\ buf[e] \in Seq(Parts)
      /\ pend[e] \in Seq(Parts) /\ queue[e] \in Seq(Events) /\ emitted[e] \in Seq(Events)
  BY DEF TypeInv
<1>2. Serialized(queue[e]) \in Seq(Parts) /\ <<>> \in Seq(Parts)
  BY <1>1, SerializedIs, EmptySeq
<1>3. Cat(disk[e], inflight[e]) \in Seq(Parts)
  BY <1>1, CatElements
<1>4. Cat(Cat(disk[e], inflight[e]), buf[e]) \in Seq(Parts)
  BY <1>1, <1>3, CatElements
<1>5. Cat(Cat(Cat(disk[e], inflight[e]), buf[e]), pend[e]) \in Seq(Parts)
  BY <1>1, <1>4, CatElements
<1>6. Stream(e) \in Seq(Parts)
  BY <1>2, <1>5, CatElements DEF Stream
<1> QED
  BY <1>1, <1>2, <1>3, <1>4, <1>5, <1>6

\* Emitting adds to the end of the stream.
LEMMA EmitFlow == ASSUME TypeInv, NEW e \in Entities, Emit(e) PROVE Adds(e)
<1>1. PICK serializes \in BOOLEAN :
        /\ emitted' = [emitted EXCEPT ![e] = Append(@, <<Len(emitted[e]) + 1, serializes>>)]
        /\ queue' = [queue EXCEPT ![e] = Append(@, <<Len(emitted[e]) + 1, serializes>>)]
  BY DEF Emit
<1> DEFINE v == <<Len(emitted[e]) + 1, serializes>>
           x == Cat(Cat(Cat(disk[e], inflight[e]), buf[e]), pend[e])
           q == Serialized(queue[e])
<1>2. v \in Events /\ v[1] = Len(emitted[e]) + 1
  BY LenProperties DEF Events, TypeInv
<1>3. emitted'[e] = Append(emitted[e], v) /\ queue'[e] = Append(queue[e], v)
  BY <1>1 DEF TypeInv
<1> HIDE DEF v
<1>4. UNCHANGED <<disk, inflight, buf, pend, failed>>
  BY DEF Emit, file
<1>5. Serialized(queue'[e]) = Cat(q, FrameIf(v))
  BY <1>2, <1>3, SerializedAppend, PlacesType
<1>6. Stream(e)' = Cat(x, Cat(q, FrameIf(v))) /\ Stream(e) = Cat(x, q)
  BY <1>4, <1>5 DEF Stream
<1>7. x \in Seq(Parts) /\ q \in Seq(Parts) /\ FrameIf(v) \in Seq(Parts)
  BY <1>2, PlacesType, FrameType
<1> HIDE DEF x, q
<1>8. Cat(Cat(x, q), FrameIf(v)) = Cat(x, Cat(q, FrameIf(v)))
  BY <1>7, CatAssociative
<1> QED
  BY <1>2, <1>3, <1>4, <1>6, <1>8 DEF Adds

\* Taking a batch moves its events along the stream.
LEMMA DrainFlow == ASSUME TypeInv, NEW e \in Entities, Drain(e) PROVE Keeps(e)
<1> DEFINE n == IF Len(queue[e]) < Batch THEN Len(queue[e]) ELSE Batch
           q == queue[e]
           s == SubSeq(q, 1, n)
           t == SubSeq(q, n + 1, Len(q))
           x == Cat(Cat(disk[e], inflight[e]), buf[e])
<1>1. q \in Seq(Events) /\ n \in 0..Len(q)
  BY SizesAssumption, LenProperties DEF TypeInv
<1>2. /\ pend[e] = <<>> /\ pend'[e] = Serialized(s) /\ queue'[e] = t
      /\ UNCHANGED <<emitted, disk, inflight, buf, failed>>
  BY DEF Drain, Idle, TypeInv
<1> HIDE DEF n
<1>3. s \in Seq(Events) /\ t \in Seq(Events) /\ Cat(s, t) = q
  BY <1>1, CatSplit
<1> HIDE DEF q, s, t
<1>4. /\ Serialized(q) = Cat(Serialized(s), Serialized(t))
      /\ Serialized(s) \in Seq(Parts) /\ Serialized(t) \in Seq(Parts)
  BY <1>3, SerializedConcat, SerializedIs
<1>5. x \in Seq(Parts)
  BY PlacesType
<1>6. Stream(e) = Cat(Cat(x, <<>>), Serialized(q))
  BY <1>2 DEF Stream, q
<1>7. Stream(e)' = Cat(Cat(x, Serialized(s)), Serialized(t))
  BY <1>2 DEF Stream
<1> HIDE DEF x
<1>8. Cat(Cat(x, <<>>), Cat(Serialized(s), Serialized(t))) = Cat(Cat(x, Serialized(s)), Serialized(t))
  BY <1>4, <1>5, MoveOn
<1> QED
  BY <1>2, <1>4, <1>6, <1>7, <1>8 DEF Keeps

\* Copying to the buffer moves parts along the stream.
LEMMA CopyFlow == ASSUME TypeInv, NEW e \in Entities, Copy(e) PROVE Keeps(e)
<1> DEFINE x == Cat(disk[e], inflight[e])
           q == Serialized(queue[e])
<1>1. /\ buf'[e] = Cat(buf[e], pend[e]) /\ pend'[e] = <<>>
      /\ UNCHANGED <<emitted, queue, disk, inflight, failed>>
  BY DEF Copy, Cat, TypeInv
<1>2. Stream(e) = Cat(Cat(Cat(x, buf[e]), pend[e]), q)
  BY DEF Stream
<1>3. Stream(e)' = Cat(Cat(Cat(x, Cat(buf[e], pend[e])), <<>>), q)
  BY <1>1 DEF Stream
<1>4. x \in Seq(Parts) /\ buf[e] \in Seq(Parts) /\ pend[e] \in Seq(Parts)
  BY PlacesType
<1> HIDE DEF x
<1>5. Cat(Cat(x, buf[e]), pend[e]) = Cat(Cat(x, Cat(buf[e], pend[e])), <<>>)
  BY <1>4, MoveOn
<1> QED
  BY <1>1, <1>2, <1>3, <1>5 DEF Keeps

\* Writing the buffer, or past it, moves parts along the stream, or drops what an error ends.
LEMMA ThroughFlow ==
  ASSUME TypeInv, LifeInv, NEW e \in Entities, WriteThrough(e)
  PROVE  Keeps(e) \/ Loses(e)
<1> DEFINE d == disk[e]
           b == buf[e]
           p == pend[e]
           q == Serialized(queue[e])
<1>1. inflight[e] = <<>> /\ UNCHANGED <<emitted, queue, disk, failed>>
  BY DEF WriteThrough
<1>2. /\ d \in Seq(Parts) /\ b \in Seq(Parts) /\ p \in Seq(Parts) /\ q \in Seq(Parts)
      /\ <<>> \in Seq(Parts)
  BY PlacesType
<1>3. Stream(e) = Cat(Cat(Cat(Cat(d, <<>>), b), p), q)
  BY <1>1 DEF Stream
<1>4. Cat(d, <<>>) = d
  BY <1>2, CatEmpty
<1>5. CASE err[e]
  <2>1. inflight'[e] = <<>> /\ buf'[e] = b /\ pend'[e] = <<>> /\ failed[e]
    BY <1>1, <1>5 DEF WriteThrough, TypeInv, LifeInv
  <2> DEFINE x == Cat(Cat(d, <<>>), b)
  <2>2. Stream(e)' = Cat(Cat(x, <<>>), q)
    BY <1>1, <2>1 DEF Stream
  <2>3. x \in Seq(Parts)
    BY <1>1, PlacesType
  <2>4. Stream(e) = Cat(Cat(x, p), q)
    BY <1>3
  <2> HIDE DEF x, d, b, p, q
  <2>5. Cat(x, <<>>) = x
    BY <2>3, CatEmpty
  <2> QED
    BY <1>1, <1>2, <2>1, <2>2, <2>3, <2>4, <2>5 DEF Loses
<1>6. CASE ~err[e] /\ b # <<>> /\ ~Fits(e)
  <2>1. inflight'[e] = b /\ buf'[e] = <<>> /\ pend'[e] = p
    BY <1>6 DEF WriteThrough, TypeInv
  <2>2. Stream(e)' = Cat(Cat(Cat(Cat(d, b), <<>>), p), q)
    BY <1>1, <2>1 DEF Stream
  <2> HIDE DEF d, b, p, q
  <2>3. Cat(Cat(d, <<>>), b) = Cat(Cat(d, b), <<>>)
    BY <1>2, MoveOn
  <2> QED
    BY <1>1, <1>3, <2>2, <2>3 DEF Keeps
<1>7. CASE ~err[e] /\ ~(b # <<>> /\ ~Fits(e))
  <2>1. inflight'[e] = p /\ buf'[e] = b /\ pend'[e] = <<>>
    BY <1>7 DEF WriteThrough, TypeInv
  <2>2. b = <<>>
    <3>1. CASE Fits(e)
      <4>1. Len(b) + Len(p) <= Capacity /\ Len(p) >= Capacity
        BY <3>1 DEF WriteThrough, Fits
      <4>2. Len(b) \in Nat /\ Len(p) \in Nat /\ Capacity \in Nat
        BY <1>2, LenProperties, SizesAssumption
      <4> HIDE DEF b, p
      <4>3. Len(b) = 0
        BY <4>1, <4>2
      <4> QED
        BY <1>2, <4>3, EmptySeq
    <3> QED
      BY <1>7, <3>1
  <2>3. Stream(e)' = Cat(Cat(Cat(Cat(d, p), <<>>), <<>>), q)
    BY <1>1, <2>1, <2>2 DEF Stream
  <2>4. Stream(e) = Cat(Cat(Cat(Cat(d, <<>>), <<>>), p), q)
    BY <1>3, <2>2
  <2> HIDE DEF d, b, p, q
  <2>5. Cat(d, p) \in Seq(Parts)
    BY <1>2, CatElements
  <2>6. Cat(Cat(d, p), <<>>) = Cat(d, p)
    BY <2>5, CatEmpty
  <2> QED
    BY <1>1, <1>4, <2>3, <2>4, <2>6 DEF Keeps
<1> QED
  BY <1>5, <1>6, <1>7

\* A piece of a write that reaches the file is where it was in line.
LEMMA SomeFlow == ASSUME TypeInv, NEW e \in Entities, WriteSome(e) PROVE Keeps(e)
<1> DEFINE d == disk[e]
           i == inflight[e]
           q == Serialized(queue[e])
<1>1. PICK n \in 1..(Len(i) - 1) :
         /\ disk' = [disk EXCEPT ![e] = @ \o SubSeq(i, 1, n)]
         /\ inflight' = [inflight EXCEPT ![e] = SubSeq(@, n + 1, Len(@))]
  BY DEF WriteSome
<1> DEFINE s == SubSeq(i, 1, n)
           t == SubSeq(i, n + 1, Len(i))
<1>2. disk'[e] = Cat(d, s) /\ inflight'[e] = t /\ UNCHANGED <<emitted, queue, pend, buf, failed>>
  BY <1>1 DEF WriteSome, TypeInv, Cat
<1>3. d \in Seq(Parts) /\ i \in Seq(Parts)
  BY PlacesType
<1>4. n \in 0..Len(i)
  BY <1>3, LenProperties
<1>5. s \in Seq(Parts) /\ t \in Seq(Parts) /\ Cat(s, t) = i
  BY <1>3, <1>4, CatSplit
<1>6. Stream(e) = Cat(Cat(Cat(Cat(d, i), buf[e]), pend[e]), q)
  BY DEF Stream
<1>7. Stream(e)' = Cat(Cat(Cat(Cat(Cat(d, s), t), buf[e]), pend[e]), q)
  BY <1>2 DEF Stream
<1> HIDE DEF d, i, s, t
<1>8. Cat(Cat(d, s), t) = Cat(d, i)
  BY <1>3, <1>5, CatAssociative
<1> QED
  BY <1>2, <1>6, <1>7, <1>8 DEF Keeps

\* A write that ends well moves parts to disk; one that fails loses some.
LEMMA EndsFlow ==
  ASSUME TypeInv, NEW e \in Entities, WriteEnds(e)
  PROVE  Keeps(e) \/ Loses(e)
<1> DEFINE i == inflight[e]
<1>1. PICK n \in 0..Len(i) :
         /\ disk' = [disk EXCEPT ![e] = @ \o SubSeq(i, 1, n)]
         /\ failed' = [failed EXCEPT ![e] = @ \/ n < Len(i)]
  BY DEF WriteEnds
<1> DEFINE d == disk[e]
           b == buf[e]
           p == pend[e]
           q == Serialized(queue[e])
           s == SubSeq(i, 1, n)
           t == SubSeq(i, n + 1, Len(i))
<1>2. /\ disk'[e] = Cat(d, s) /\ inflight'[e] = <<>> /\ failed'[e] = (failed[e] \/ n < Len(i))
      /\ UNCHANGED <<emitted, queue, pend, buf>>
  BY <1>1 DEF WriteEnds, TypeInv, Cat
<1>3. /\ d \in Seq(Parts) /\ i \in Seq(Parts) /\ b \in Seq(Parts) /\ p \in Seq(Parts)
      /\ q \in Seq(Parts) /\ <<>> \in Seq(Parts)
  BY PlacesType
<1>4. Stream(e) = Cat(Cat(Cat(Cat(d, i), b), p), q)
  BY DEF Stream
<1>5. Stream(e)' = Cat(Cat(Cat(Cat(Cat(d, s), <<>>), b), p), q)
  BY <1>2 DEF Stream
<1>6. s \in Seq(Parts) /\ t \in Seq(Parts) /\ Len(s) = n /\ Cat(s, t) = i
  BY <1>3, CatSplit
<1>7. failed[e] \in BOOLEAN
  BY DEF TypeInv
<1> HIDE DEF d, i, b, p, q, s
<1> DEFINE x == Cat(d, s)
<1>8. x \in Seq(Parts)
  BY <1>3, <1>6, CatElements
<1>9. Cat(x, <<>>) = x
  BY <1>8, CatEmpty
<1>10. CASE n = Len(i)
  <2>1. t = <<>>
    BY <1>3, <1>10, LenProperties, SubSeqEmpty
  <2>2. s = i
    BY <1>6, <2>1, CatEmpty
  <2> QED
    BY <1>2, <1>4, <1>5, <1>7, <1>9, <1>10, <2>2, <1>3, LenProperties DEF Keeps
<1>11. CASE n < Len(i)
  <2> DEFINE y == Cat(Cat(b, p), q)
  <2> HIDE DEF t
  <2>1. ASSUME NEW z \in Seq(Parts)
        PROVE  Cat(Cat(Cat(z, b), p), q) = Cat(z, y)
    <3>1. Cat(z, b) \in Seq(Parts) /\ Cat(b, p) \in Seq(Parts)
      BY <1>3, <2>1, CatElements
    <3>2. Cat(Cat(z, b), p) = Cat(z, Cat(b, p))
      BY <1>3, <2>1, CatAssociative
    <3> QED
      BY <1>3, <2>1, <3>1, <3>2, CatAssociative
  <2>2. y \in Seq(Parts)
    <3>1. Cat(b, p) \in Seq(Parts)
      BY <1>3, CatElements
    <3> QED
      BY <1>3, <3>1, CatElements
  <2>3. Cat(d, i) = Cat(x, t) /\ Cat(x, t) \in Seq(Parts)
    <3>1. Cat(Cat(d, s), t) = Cat(d, Cat(s, t))
      BY <1>3, <1>6, CatAssociative
    <3> QED
      BY <1>6, <1>8, <3>1, CatElements
  <2> HIDE DEF x
  <2>4. Stream(e) = Cat(Cat(x, t), y)
    BY <1>4, <2>1, <2>3
  <2>5. Stream(e)' = Cat(x, y)
    BY <1>5, <1>8, <1>9, <2>1 DEF x
  <2> HIDE DEF y
  <2> QED
    BY <1>2, <1>6, <1>8, <1>11, <2>2, <2>4, <2>5 DEF Loses
<1> QED
  BY <1>1, <1>3, <1>10, <1>11, LenProperties

\* The last flush moves the buffer along, or drops it after an error.
LEMMA ShutdownFlow == ASSUME TypeInv, NEW e \in Entities, Shutdown(e) PROVE Keeps(e)
<1> DEFINE d == disk[e]
           b == buf[e]
           p == pend[e]
           q == Serialized(queue[e])
<1>1. inflight[e] = <<>> /\ UNCHANGED <<emitted, queue, pend, disk, failed>>
  BY DEF Shutdown
<1>2. CASE ToFlush(e) /\ ~err[e]
  <2>1. inflight'[e] = b /\ buf'[e] = <<>>
    BY <1>2 DEF Shutdown, TypeInv
  <2>2. Stream(e)' = Cat(Cat(Cat(Cat(d, b), <<>>), p), q)
    BY <1>1, <2>1 DEF Stream
  <2>3. Stream(e) = Cat(Cat(Cat(Cat(d, <<>>), b), p), q)
    BY <1>1 DEF Stream
  <2>4. d \in Seq(Parts) /\ b \in Seq(Parts)
    BY PlacesType
  <2> HIDE DEF d, b, p, q
  <2>5. Cat(Cat(d, <<>>), b) = Cat(Cat(d, b), <<>>)
    BY <2>4, MoveOn
  <2> QED
    BY <1>1, <2>2, <2>3, <2>5 DEF Keeps
<1>3. CASE ~(ToFlush(e) /\ ~err[e])
  <2>1. UNCHANGED <<inflight, buf>>
    BY <1>3 DEF Shutdown
  <2> QED
    BY <1>1, <2>1 DEF Keeps, Stream
<1> QED
  BY <1>2, <1>3

\* What one step does to the stream of an entity.
LEMMA Flow ==
  ASSUME TypeInv, LifeInv, Next, NEW e \in Entities
  PROVE  Keeps(e) \/ Loses(e) \/ Adds(e)
<1>1. ASSUME /\ emitted'[e] = emitted[e] /\ queue'[e] = queue[e] /\ pend'[e] = pend[e]
             /\ buf'[e] = buf[e] /\ inflight'[e] = inflight[e] /\ disk'[e] = disk[e]
             /\ failed'[e] = failed[e]
      PROVE  Keeps(e)
  BY <1>1 DEF Keeps, Stream
<1>2. CASE UNCHANGED <<emitted, queue, file>>
  BY <1>1, <1>2 DEF file
<1>3. CASE Crash \/ Build \/ DropContext \/ InnerDrops
  BY <1>2, <1>3 DEF Crash, Build, DropContext, InnerDrops
<1>4. ASSUME NEW d \in Entities, TakeHandle(d) \/ DropHandle(d) \/ Teardown(d) \/ Close(d)
      PROVE  UNCHANGED <<emitted, queue, file>>
  BY <1>4 DEF TakeHandle, DropHandle, Teardown, ContextDisowns, JoinReturns, Close
<1>5. ASSUME NEW d \in Entities, d # e, Emit(d) \/ Forwarder(d) PROVE Keeps(e)
  <2>1. CASE Emit(d)
    BY <1>1, <1>5, <2>1 DEF Emit, file, TypeInv
  <2>2. CASE Drain(d)
    BY <1>1, <1>5, <2>2 DEF Drain, TypeInv
  <2>3. CASE Copy(d)
    BY <1>1, <1>5, <2>3 DEF Copy, TypeInv
  <2>4. CASE WriteThrough(d)
    <3>1. pend'[e] = pend[e] /\ buf'[e] = buf[e] /\ inflight'[e] = inflight[e]
      BY <1>5, <2>4 DEF WriteThrough, TypeInv
    <3> QED
      BY <1>1, <2>4, <3>1 DEF WriteThrough
  <2>5. CASE WriteEnds(d)
    <3>1. PICK n \in 0..Len(inflight[d]) :
             /\ disk' = [disk EXCEPT ![d] = @ \o SubSeq(inflight[d], 1, n)]
             /\ failed' = [failed EXCEPT ![d] = @ \/ n < Len(inflight[d])]
      BY <2>5 DEF WriteEnds
    <3>2. disk'[e] = disk[e] /\ failed'[e] = failed[e]
      BY <1>5, <3>1 DEF TypeInv
    <3>3. inflight' = [inflight EXCEPT ![d] = <<>>] /\ UNCHANGED <<emitted, queue, pend, buf>>
      BY <2>5 DEF WriteEnds
    <3>4. inflight'[e] = inflight[e]
      BY <1>5, <3>3 DEF TypeInv
    <3> QED
      BY <1>1, <3>2, <3>3, <3>4
  <2>8. CASE WriteSome(d)
    <3>1. disk'[e] = disk[e] /\ inflight'[e] = inflight[e]
      BY <1>5, <2>8 DEF WriteSome, TypeInv
    <3> QED
      BY <1>1, <2>8, <3>1 DEF WriteSome
  <2>6. CASE Close(d)
    BY <1>1, <1>4, <2>6 DEF file
  <2>7. CASE Shutdown(d)
    BY <1>1, <1>5, <2>7 DEF Shutdown, TypeInv
  <2> QED
    BY <1>5, <2>1, <2>2, <2>3, <2>4, <2>5, <2>6, <2>7, <2>8 DEF Forwarder
<1>6. CASE Emit(e)
  BY <1>6, EmitFlow
<1>7. CASE Forwarder(e)
  BY <1>2, <1>4, <1>7, DrainFlow, CopyFlow, ThroughFlow, SomeFlow, EndsFlow, ShutdownFlow DEF Forwarder
<1> QED
  BY <1>2, <1>3, <1>4, <1>5, <1>6, <1>7 DEF Next

\* Every step keeps StreamInv.
LEMMA StreamStep == ASSUME TypeInv, LifeInv, StreamInv, Next PROVE StreamInv'
<1> DEFINE P(e) == /\ Counted(emitted[e]) /\ (~failed[e] => Stream(e) = Serialized(emitted[e]))
                   /\ Sorted(emitted[e], Stream(e))
<1>1. ASSUME NEW e \in Entities PROVE P(e)'
  <2>1. P(e)
    BY DEF StreamInv
  <2>2. CASE Keeps(e)
    BY <2>1, <2>2 DEF Keeps
  <2>3. CASE Loses(e)
    <3>1. PICK a, b, c \in Seq(Parts) : Stream(e) = Cat(Cat(a, b), c) /\ Stream(e)' = Cat(a, c)
      BY <2>3 DEF Loses
    <3>2. Sorted(emitted[e], Cat(a, c))
      BY <2>1, <3>1, LoseMiddle
    <3> QED
      BY <2>1, <2>3, <3>1, <3>2 DEF Loses
  <2>4. CASE Adds(e)
    <3>1. PICK v \in Events : /\ v[1] = Len(emitted[e]) + 1
                              /\ emitted'[e] = Append(emitted[e], v)
                              /\ Stream(e)' = Cat(Stream(e), FrameIf(v))
                              /\ failed'[e] = failed[e]
      BY <2>4 DEF Adds
    <3>2. emitted[e] \in Seq(Events) /\ Stream(e) \in Seq(Parts)
      BY PlacesType
    <3>3. /\ Counted(Append(emitted[e], v))
          /\ Sorted(Append(emitted[e], v), Cat(Stream(e), FrameIf(v)))
      BY <2>1, <3>1, <3>2, OneMore
    <3>4. Serialized(Append(emitted[e], v)) = Cat(Serialized(emitted[e]), FrameIf(v))
      BY <3>2, SerializedAppend
    <3> QED
      BY <2>1, <3>1, <3>3, <3>4
  <2> QED
    BY <2>2, <2>3, <2>4, Flow
<1> QED
  BY <1>1 DEF StreamInv

\* Every step keeps the invariant.
LEMMA NextIInv == IInv /\ [Next]_vars => IInv'
<1> SUFFICES ASSUME IInv, [Next]_vars PROVE IInv'
  OBVIOUS
<1>1. CASE Next
  BY <1>1, TypeStep, BuildStep, LifeStep, RuntimeStep, StreamStep DEF IInv
<1>2. CASE UNCHANGED vars
  BY <1>2 DEF IInv, TypeInv, BuildInv, LifeInv, RuntimeInv, StreamInv, Stream, vars, context, file
<1> QED
  BY <1>1, <1>2
-----------------------------------------------------------------------------
(* The importers. *)

(* What is imported is the items before the first that does not parse.     *)
LEMMA ImportedIs ==
  ASSUME NEW d, Len(Items(d)) \in Nat
  PROVE  \E g \in 0..Len(Items(d)) :
           /\ Imported(d) = [i \in 1..g |-> Items(d)[i][1][1]]
           /\ \A i \in 1..g : Parses(Items(d)[i])
           /\ g < Len(Items(d)) => ~Parses(Items(d)[g + 1])
<1> DEFINE items == Items(d)
           K == Len(items)
           G(n) == /\ \A i \in 1..n : Parses(items[i])
                   /\ n < Len(items) => ~Parses(items[n + 1])
           good == CHOOSE n \in 0..Len(items) : G(n)
           T == {n \in Nat : n < K /\ ~Parses(items[n + 1])}
<1>1. Imported(d) = [i \in 1..good |-> items[i][1][1]]
  BY DEF Imported
<1>2. K \in Nat
  OBVIOUS
<1> HIDE DEF items
<1>3. \E n \in 0..K : G(n)
  <2>1. CASE T = {}
    <3>1. \A i \in 1..K : Parses(items[i])
      <4> SUFFICES ASSUME NEW i \in 1..K PROVE Parses(items[i])
        OBVIOUS
      <4>1. i - 1 \in Nat /\ i - 1 < K /\ (i - 1) + 1 = i
        BY <1>2
      <4>2. i - 1 \notin T
        BY <2>1
      <4> QED
        BY <4>1, <4>2
    <3> QED
      BY <1>2, <3>1
  <2>2. CASE T # {}
    <3>1. PICK n \in T : \A y \in T : n <= y
      <4>1. T \subseteq Nat
        OBVIOUS
      <4> HIDE DEF T
      <4> QED
        BY <2>2, <4>1, SetMin
    <3>2. \A i \in 1..n : Parses(items[i])
      <4> SUFFICES ASSUME NEW i \in 1..n PROVE Parses(items[i])
        OBVIOUS
      <4>1. i - 1 \in Nat /\ i - 1 < K /\ (i - 1) + 1 = i /\ ~(n <= i - 1)
        BY <1>2, <3>1
      <4>2. i - 1 \notin T
        BY <3>1, <4>1
      <4> QED
        BY <4>1, <4>2
    <3>3. n \in 0..K /\ ~Parses(items[n + 1])
      BY <1>2, <3>1
    <3> QED
      BY <3>2, <3>3
  <2> QED
    BY <2>1, <2>2
<1>4. good \in 0..K /\ G(good)
  <2> HIDE DEF G
  <2> QED
    BY <1>3
<1> HIDE DEF good
<1> QED
  BY <1>1, <1>4 DEF items

(* w is the frames of the events with the numbers ns; d is a beginning of  *)
(* such. *)
Mirrors(w, ns) == /\ Len(w) = 3 * Len(ns)
                  /\ \A k \in 1..Len(ns), j \in 1..3 : w[3 * (k - 1) + j] = <<ns[k], j>>

CutOf(d, ns) == /\ Len(d) <= 3 * Len(ns)
                /\ \A k \in 1..Len(ns), j \in 1..3 :
                     3 * (k - 1) + j <= Len(d) => d[3 * (k - 1) + j] = <<ns[k], j>>

\* One event more at the end of a file, and of what it mirrors.
LEMMA MirrorsOneMore ==
  ASSUME NEW w \in Seq(Parts), NEW ns \in Seq(Nat \ {0}), Mirrors(w, ns), NEW v \in Events
  PROVE  Mirrors(Cat(w, FrameIf(v)), Cat(ns, NumberIf(v)))
<1>1. CASE ~v[2]
  <2>1. FrameIf(v) = <<>> /\ NumberIf(v) = <<>>
    BY <1>1 DEF FrameIf, NumberIf
  <2> QED
    BY <2>1, CatEmpty
<1>2. CASE v[2]
  <2> DEFINE f == Frame(v)
             x == <<v[1]>>
             u == Cat(w, f)
             ms == Cat(ns, x)
             n == Len(ns)
  <2>1. FrameIf(v) = f /\ NumberIf(v) = x
    BY <1>2 DEF FrameIf, NumberIf
  <2>2. f \in Seq(Parts) /\ Len(f) = 3 /\ \A j \in 1..3 : f[j] = <<v[1], j>>
    BY FrameType
  <2>3. x \in Seq(Nat \ {0}) /\ Len(x) = 1 /\ x[1] = v[1]
    BY DEF Events
  <2> HIDE DEF f, x
  <2>f. f \in Seq(Parts)
    BY <2>2
  <2>x. x \in Seq(Nat \ {0})
    BY <2>3
  <2>4. Len(u) = Len(w) + 3 /\ Len(w) \in Nat /\ \A i \in 1..Len(w) : u[i] = w[i]
    <3>1. Len(u) = Len(w) + Len(f) /\ Len(w) \in Nat
      BY <2>f, CatElements
    <3>2. \A i \in 1..Len(w) : u[i] = w[i]
      BY <2>f, CatElements
    <3> QED
      BY <2>2, <3>1, <3>2
  <2>5. ASSUME NEW j \in 1..3 PROVE u[Len(w) + j] = <<v[1], j>>
    <3>1. j \in 1..Len(f)
      BY <2>2
    <3>2. u[Len(w) + j] = f[j]
      BY <2>f, <3>1, CatElements
    <3> QED
      BY <2>2, <3>2
  <2>6. n \in Nat /\ Len(ms) = n + 1 /\ (\A i \in 1..n : ms[i] = ns[i])
    <3>1. n \in Nat /\ Len(ms) = n + Len(x)
      BY <2>x, CatElements
    <3>2. \A i \in 1..n : ms[i] = ns[i]
      BY <2>x, CatElements
    <3> QED
      BY <2>3, <3>1, <3>2
  <2>7. ms[n + 1] = v[1]
    <3>1. 1 \in 1..Len(x)
      BY <2>3
    <3>2. ms[n + 1] = x[1]
      BY <2>x, <3>1, CatElements
    <3> QED
      BY <2>3, <3>2
  <2> HIDE DEF u, ms, n
  <2>8. Len(w) = 3 * n /\ \A k \in 1..n, j \in 1..3 : w[3 * (k - 1) + j] = <<ns[k], j>>
    BY DEF Mirrors, n
  <2>9. ASSUME NEW k \in 1..(n + 1), NEW j \in 1..3 PROVE u[3 * (k - 1) + j] = <<ms[k], j>>
    <3>1. CASE k = n + 1
      <4>1. 3 * (k - 1) + j = Len(w) + j
        BY <2>6, <2>8, <3>1
      <4> QED
        BY <2>5, <2>7, <3>1, <4>1
    <3>2. CASE k # n + 1
      <4>1. k \in 1..n /\ 3 * (k - 1) + j \in 1..Len(w)
        BY <2>6, <2>8, <3>2
      <4> QED
        BY <2>4, <2>6, <2>8, <4>1
    <3> QED
      BY <3>1, <3>2
  <2>10. Len(u) = 3 * (n + 1)
    BY <2>4, <2>6, <2>8
  <2>11. Mirrors(u, ms)
    BY <2>6, <2>9, <2>10 DEF Mirrors
  <2> QED
    BY <2>1, <2>11 DEF u, ms
<1> QED
  BY <1>1, <1>2

\* What events serialize to mirrors those that serialize.
LEMMA SerializedMirrors ==
  ASSUME NEW es \in Seq(Events)
  PROVE  Mirrors(Serialized(es), Numbers(es))
<1> DEFINE Goal(t) == Mirrors(Serialized(t), Numbers(t))
           T == {n \in Nat : \A t \in Seq(Events) : Len(t) = n => Goal(t)}
<1>1. 0 \in T
  <2> SUFFICES ASSUME NEW t \in Seq(Events), Len(t) = 0 PROVE Goal(t)
    OBVIOUS
  <2>1. Serialized(t) = <<>> /\ Numbers(t) = <<>>
    BY EmptySeq, SerializedEmpty
  <2> QED
    BY <2>1 DEF Mirrors
<1>2. ASSUME NEW n \in Nat, n \in T PROVE n + 1 \in T
  <2> SUFFICES ASSUME NEW t \in Seq(Events), Len(t) = n + 1 PROVE Goal(t)
    OBVIOUS
  <2>1. PICK u \in Seq(Events), v \in Events : t = Append(u, v) /\ Len(u) = n
    BY FrontLast
  <2>2. Goal(u)
    BY <1>2, <2>1
  <2>3. Serialized(u) \in Seq(Parts) /\ Numbers(u) \in Seq(Nat \ {0})
    BY SerializedIs
  <2>4. Mirrors(Cat(Serialized(u), FrameIf(v)), Cat(Numbers(u), NumberIf(v)))
    BY <2>2, <2>3, MirrorsOneMore
  <2> QED
    BY <2>1, <2>4, SerializedAppend
<1>3. Len(es) \in Nat
  BY LenProperties
<1>4. Len(es) \in T
  <2> HIDE DEF T
  <2> QED
    BY <1>1, <1>2, <1>3, SetInduction
<1> QED
  BY <1>4

(* The numbers are those of the events that serialize. *)
LEMMA NumbersHold ==
  ASSUME NEW es \in Seq(Events), Counted(es), NEW p, PartOf(es, p)
  PROVE  p[1] \in ToSet(Numbers(es))
<1> DEFINE Goal(t) == \A i \in 1..Len(t) : t[i][2] => t[i][1] \in ToSet(Numbers(t))
           T == {n \in Nat : \A t \in Seq(Events) : Len(t) = n => Goal(t)}
<1>1. 0 \in T
  OBVIOUS
<1>2. ASSUME NEW n \in Nat, n \in T PROVE n + 1 \in T
  <2> SUFFICES ASSUME NEW t \in Seq(Events), Len(t) = n + 1, NEW i \in 1..(n + 1), t[i][2]
               PROVE  t[i][1] \in ToSet(Numbers(t))
    OBVIOUS
  <2>1. PICK u \in Seq(Events), v \in Events : t = Append(u, v) /\ Len(u) = n
    BY FrontLast
  <2> DEFINE a == Numbers(u)
             x == NumberIf(v)
  <2>2. a \in Seq(Nat \ {0}) /\ x \in Seq(Nat \ {0}) /\ Numbers(t) = Cat(a, x)
    <3>1. NumberIf(v) = Numbered[v]
      BY DEF Numbered
    <3> QED
      BY <2>1, <3>1, SerializedIs, SerializedAppend, MapTypes
  <2>3. CASE i = n + 1
    <3>1. t[i] = v
      BY <2>1, <2>3
    <3>2. Len(x) = 1 /\ x[1] = v[1]
      BY <2>3, <3>1 DEF NumberIf
    <3> HIDE DEF a, x
    <3>3. Cat(a, x)[Len(a) + 1] = v[1] /\ Len(a) + 1 \in 1..Len(Cat(a, x))
      <4>1. 1 \in 1..Len(x)
        BY <3>2
      <4>2. a \in Seq(Nat \ {0}) /\ x \in Seq(Nat \ {0})
        BY <2>2
      <4>3. Cat(a, x)[Len(a) + 1] = x[1]
        BY <4>1, <4>2, CatElements
      <4>4. Len(Cat(a, x)) = Len(a) + Len(x) /\ Len(a) \in Nat
        BY <4>2, CatElements
      <4> QED
        BY <3>2, <4>3, <4>4
    <3>4. DOMAIN Cat(a, x) = 1..Len(Cat(a, x))
      BY <2>2, CatElements, LenProperties
    <3> QED
      BY <2>2, <3>1, <3>3, <3>4 DEF ToSet
  <2>4. CASE i # n + 1
    <3>1. i \in 1..Len(u) /\ t[i] = u[i]
      BY <2>1, <2>4
    <3>2. u[i][1] \in ToSet(a)
      BY <1>2, <2>1, <3>1
    <3> HIDE DEF a, x
    <3>3. PICK j \in 1..Len(a) : u[i][1] = a[j]
      BY <2>2, <3>2, LenProperties DEF ToSet
    <3>4. Cat(a, x)[j] = a[j] /\ j \in 1..Len(Cat(a, x))
      BY <2>2, CatElements
    <3>5. DOMAIN Cat(a, x) = 1..Len(Cat(a, x))
      BY <2>2, CatElements, LenProperties
    <3> QED
      BY <2>2, <3>1, <3>3, <3>4, <3>5 DEF ToSet
  <2> QED
    BY <2>3, <2>4
<1>3. Len(es) \in Nat
  BY LenProperties
<1>4. Len(es) \in T
  <2> HIDE DEF T
  <2> QED
    BY <1>1, <1>2, <1>3, SetInduction
<1>5. Goal(es)
  BY <1>4
<1> QED
  BY <1>5 DEF Counted, PartOf

(* What is in the file of an entity none of whose writes failed. *)
LEMMA MirrorsCut ==
  ASSUME NEW d \in Seq(Parts), NEW r \in Seq(Parts), NEW ns \in Seq(Nat \ {0}),
         Mirrors(Cat(d, r), ns)
  PROVE  CutOf(d, ns)
<1>1. /\ Len(d) \in Nat /\ Len(r) \in Nat /\ Len(Cat(d, r)) = Len(d) + Len(r)
      /\ \A i \in 1..Len(d) : Cat(d, r)[i] = d[i]
  BY CatElements
<1>2. Len(ns) \in Nat /\ Len(d) + Len(r) = 3 * Len(ns)
  BY <1>1, LenProperties DEF Mirrors
<1>3. ASSUME NEW k \in 1..Len(ns), NEW j \in 1..3, 3 * (k - 1) + j <= Len(d)
      PROVE  d[3 * (k - 1) + j] = <<ns[k], j>>
  <2>1. 3 * (k - 1) + j \in 1..Len(d)
    BY <1>1, <1>2, <1>3
  <2> QED
    BY <1>1, <2>1 DEF Mirrors
<1> QED
  BY <1>1, <1>2, <1>3, SMTT(40) DEF CutOf

\* The first m items of a file of frames are whole, and r parts of one more are there.
FramesAre(d, ns, m, r) ==
  /\ Len(Frames(d)) = IF r = 0 THEN m ELSE m + 1
  /\ \A n \in 1..m : ParsedFrame(Frames(d)[n]) /\ Frames(d)[n][1][1] = ns[n]
  /\ r # 0 => ~ParsedFrame(Frames(d)[m + 1])

\* A file of frames, cut anywhere, is its first frames and at most one that is torn.
LEMMA FramesOfCut ==
  ASSUME NEW d \in Seq(Parts), NEW ns \in Seq(Nat \ {0}), CutOf(d, ns),
         NEW m \in Nat, NEW r \in 0..2, Len(d) = 3 * m + r
  PROVE  FramesAre(d, ns, m, r)
<1> DEFINE K == (Len(d) + 2) \div 3
           F(n) == SubSeq(d, 3 * n - 2, IF 3 * n <= Len(d) THEN 3 * n ELSE Len(d))
<1>1. Frames(d) = [n \in 1..K |-> F(n)]
  BY DEF Frames
<1>2. K = (IF r = 0 THEN m ELSE m + 1) /\ K \in Nat
  OBVIOUS
<1> HIDE DEF K
<1>3. Len(Frames(d)) = K
  <2> HIDE DEF F
  <2> QED
    BY <1>1, <1>2
<1>4. Len(ns) \in Nat /\ m <= Len(ns) /\ \A k \in 1..Len(ns) : ns[k] \in Nat \ {0}
  BY LenProperties, ElementOfSeq DEF CutOf
<1>5. ASSUME NEW n \in 1..m PROVE ParsedFrame(F(n)) /\ F(n)[1][1] = ns[n]
  <2> DEFINE f == SubSeq(d, 3 * n - 2, 3 * n)
             v == <<ns[n], TRUE>>
  <2>1. F(n) = f
    BY <1>5
  <2>2. f \in Seq(Parts) /\ Len(f) = 3 /\ \A i \in 1..3 : f[i] = d[3 * n - 2 + i - 1]
    <3>1. /\ 3 * n - 2 \in 1..(Len(d) + 1) /\ 3 * n \in 0..Len(d) /\ 3 * n - 2 <= 3 * n + 1
          /\ 3 * n - (3 * n - 2) + 1 = 3
      OBVIOUS
    <3> QED
      BY <3>1, Slice
  <2>3. v \in Events /\ v[1] = ns[n]
    <3>1. n \in 1..Len(ns)
      BY <1>4
    <3>2. ns[n] \in Nat \ {0}
      BY <1>4, <3>1
    <3> QED
      BY <3>2 DEF Events
  <2> HIDE DEF f, F, v
  <2>4. ASSUME NEW i \in 1..3 PROVE f[i] = <<ns[n], i>>
    <3>1. /\ 3 * n - 2 + i - 1 = 3 * (n - 1) + i /\ 3 * (n - 1) + i <= Len(d)
          /\ n \in 1..Len(ns)
      BY <1>4
    <3> QED
      BY <2>2, <3>1 DEF CutOf
  <2>5. Frame(v) \in Seq(Parts) /\ Len(Frame(v)) = 3 /\ \A i \in 1..3 : Frame(v)[i] = <<ns[n], i>>
    BY <2>3, FrameType
  <2>6. f = Frame(v)
    <3>1. Len(f) = Len(Frame(v)) /\ \A i \in 1..Len(f) : f[i] = Frame(v)[i]
      BY <2>2, <2>4, <2>5
    <3>2. f \in Seq(Parts) /\ Frame(v) \in Seq(Parts)
      BY <2>2, <2>5
    <3> QED
      BY <3>1, <3>2, SeqEqual
  <2>7. f[1][1] = ns[n]
    BY <2>4
  <2> QED
    BY <2>1, <2>2, <2>6, <2>7 DEF ParsedFrame, v
<1>6. ASSUME r # 0 PROVE ~ParsedFrame(F(m + 1))
  <2>1. F(m + 1) = SubSeq(d, 3 * (m + 1) - 2, Len(d))
    BY <1>6
  <2>2. /\ 3 * (m + 1) - 2 \in 1..(Len(d) + 1) /\ Len(d) \in 0..Len(d)
        /\ 3 * (m + 1) - 2 <= Len(d) + 1 /\ Len(d) - (3 * (m + 1) - 2) + 1 = r
    BY <1>6
  <2>3. Len(F(m + 1)) = r
    BY <2>1, <2>2, Slice
  <2> HIDE DEF F
  <2>4. ParsedFrame(F(m + 1)) => Len(F(m + 1)) = 3
    BY Zenon DEF ParsedFrame
  <2>5. r # 3
    OBVIOUS
  <2> QED
    BY <2>3, <2>4, <2>5, Zenon
<1> HIDE DEF F
<1> QED
  BY <1>1, <1>2, <1>3, <1>5, <1>6 DEF FramesAre

(* Where lines begin and end. *)
LEMMA LineFacts ==
  ASSUME NEW d \in Seq(Parts)
  PROVE  /\ Len(d) \in Nat /\ Len(d) + 1 \in Nat
         /\ Newlines(d) \in SUBSET (1..Len(d)) /\ LineEnds(d) \in SUBSET (1..(Len(d) + 1))
         /\ Cardinality(LineEnds(d)) \in Nat /\ Len(Lines(d)) = Cardinality(LineEnds(d))
         /\ \A n \in 1..Len(Lines(d)) : \E j \in LineEnds(d) :
              /\ Cardinality(UpTo(LineEnds(d), j)) = n
              /\ Lines(d)[n] = SubSeq(d, LineStart(d, j), j - 1)
<1> DEFINE S == LineEnds(d)
           K == Cardinality(S)
           At(n) == CHOOSE j \in S : Cardinality({k \in S : k <= j}) = n
           Line(n) == SubSeq(d, LineStart(d, At(n)), At(n) - 1)
<1>1. Len(d) \in Nat /\ Len(d) + 1 \in Nat /\ DOMAIN d = 1..Len(d)
  BY LenProperties
<1>2. Newlines(d) \in SUBSET (1..Len(d)) /\ S \in SUBSET (1..(Len(d) + 1))
  BY <1>1 DEF Newlines, LineEnds
<1>3. Lines(d) = [n \in 1..K |-> Line(n)]
  BY DEF Lines
<1> HIDE DEF S
<1>4. K \in Nat
  <2>1. IsFiniteSet(S)
    BY <1>1, <1>2, UpToStep
  <2> QED
    BY <2>1, FS_CardinalityType
<1>5. ASSUME NEW n \in 1..K PROVE At(n) \in S /\ Cardinality(UpTo(S, At(n))) = n
  <2>1. \E j \in S : Cardinality(UpTo(S, j)) = n
    BY <1>1, <1>2, UpToExists
  <2>2. \A j : UpTo(S, j) = {k \in S : k <= j}
    BY DEF UpTo
  <2>3. At(n) = CHOOSE j \in S : Cardinality(UpTo(S, j)) = n
    BY <2>2
  <2> HIDE DEF At, K
  <2> QED
    BY <2>1, <2>3
<1> HIDE DEF K, At
<1>6. Len(Lines(d)) = K
  <2> HIDE DEF Line
  <2> QED
    BY <1>3, <1>4
<1>7. \A n \in 1..K : \E j \in S : /\ Cardinality(UpTo(S, j)) = n
                                   /\ Lines(d)[n] = SubSeq(d, LineStart(d, j), j - 1)
  BY <1>3, <1>5
<1> QED
  BY <1>1, <1>2, <1>4, <1>6, <1>7 DEF S, K

\* A line begins after the newline before its end.
LEMMA LineStartIs ==
  ASSUME NEW d \in Seq(Parts), NEW i \in 1..(Len(d) + 1)
  PROVE  /\ LineStart(d, i) \in 1..i
         /\ LineStart(d, i) = 1 \/ LineStart(d, i) - 1 \in Newlines(d)
         /\ \A j \in Newlines(d) : j < i => j < LineStart(d, i)
<1> DEFINE B == {0} \cup {j \in Newlines(d) : j < i}
           x == Max(B)
<1>1. i \in Nat /\ i - 1 \in Nat /\ \A j \in Newlines(d) : j \in Nat
  BY LineFacts
<1>2. B \in SUBSET (0..(i - 1)) /\ B # {}
  BY <1>1
<1>3. LineStart(d, i) = 1 + x
  BY DEF LineStart
<1> HIDE DEF B
<1>4. x \in B /\ \A y \in B : y <= x
  BY <1>1, <1>2, MaxIs
<1> HIDE DEF x
<1>5. x \in 0..(i - 1) /\ (x = 0 \/ x \in Newlines(d))
  BY <1>2, <1>4 DEF B
<1>6. \A j \in Newlines(d) : j < i => j <= x
  BY <1>4 DEF B
<1> QED
  BY <1>1, <1>3, <1>5, <1>6

(* In such a file every third part is a newline, and what is left at the   *)
(* end, if anything, is a line. *)
LEMMA CutLineEnds ==
  ASSUME NEW d \in Seq(Parts), NEW ns \in Seq(Nat \ {0}), CutOf(d, ns),
         NEW m \in Nat, NEW r \in 0..2, Len(d) = 3 * m + r
  PROVE  /\ \A i \in 1..Len(d) : i \in Newlines(d) <=> \E k \in 1..m : i = 3 * k
         /\ \A k \in 1..m : 3 * k \in LineEnds(d) /\ 3 * k - 2 \notin LineEnds(d)
                            /\ 3 * k - 1 \notin LineEnds(d)
         /\ 3 * m + 1 \notin LineEnds(d)
         /\ 3 * m + 2 \in LineEnds(d) <=> r = 1
         /\ 3 * m + 3 \in LineEnds(d) <=> r = 2
<1> DEFINE N == Newlines(d)
           S == LineEnds(d)
<1>1. /\ N \in SUBSET (1..Len(d)) /\ S \in SUBSET (1..(Len(d) + 1)) /\ DOMAIN d = 1..Len(d)
      /\ Len(d) \in Nat
  BY LineFacts, LenProperties
<1>2. Len(ns) \in Nat /\ Len(d) <= 3 * Len(ns)
  BY LenProperties DEF CutOf
<1>3. ASSUME NEW k \in 1..Len(ns), NEW j \in 1..3, 3 * (k - 1) + j <= Len(d)
      PROVE  3 * (k - 1) + j \in N <=> j = 3
  <2> DEFINE i == 3 * (k - 1) + j
  <2>1. d[i] = <<ns[k], j>>
    BY <1>3 DEF CutOf
  <2>2. i \in DOMAIN d
    BY <1>1, <1>2, <1>3
  <2> HIDE DEF i
  <2>3. i \in N <=> d[i][2] = 3
    BY <2>2 DEF Newlines
  <2>4. i \in N <=> j = 3
    BY <2>1, <2>3
  <2> QED
    BY <2>4 DEF i
<1>4. ASSUME NEW i \in 1..Len(d) PROVE i \in N <=> \E k \in 1..m : i = 3 * k
  <2>1. PICK k \in 1..Len(ns), j \in 1..3 : i = 3 * (k - 1) + j
    <3>1. (i + 2) \div 3 \in 1..Len(ns)
      BY <1>1, <1>2
    <3>2. i - 3 * ((i + 2) \div 3 - 1) \in 1..3
      BY <1>1
    <3>3. i = 3 * ((i + 2) \div 3 - 1) + (i - 3 * ((i + 2) \div 3 - 1))
      BY <1>1, <3>2
    <3> QED
      BY <3>1, <3>2, <3>3
  <2>2. i \in N <=> j = 3
    <3>1. 3 * (k - 1) + j <= Len(d)
      BY <2>1
    <3> HIDE DEF N
    <3> QED
      BY <1>3, <2>1, <3>1
  <2>3. j = 3 => k \in 1..m /\ i = 3 * k
    BY <1>1, <1>2, <2>1
  <2>4. \A l \in 1..m : i = 3 * l => j = 3
    BY <1>1, <1>2, <2>1
  <2> QED
    BY <2>2, <2>3, <2>4
<1>5. \A i \in 1..Len(d) : i \in S <=> i \in N
  BY <1>1 DEF LineEnds
<1>6. Len(d) + 1 \in S <=> r # 0
  <2>1. Len(d) + 1 \in S <=> d # <<>> /\ Len(d) \notin N
    BY <1>1 DEF LineEnds
  <2>2. CASE Len(d) = 0
    <3>1. d = <<>> /\ r = 0
      BY <2>2, EmptySeq
    <3> QED
      BY <2>1, <3>1
  <2>3. CASE Len(d) # 0
    <3>1. d # <<>> /\ Len(d) \in 1..Len(d)
      BY <1>1, <2>3, EmptySeq
    <3>2. Len(d) \in N <=> \E k \in 1..m : Len(d) = 3 * k
      BY <1>4, <3>1
    <3>3. r = 0 => m \in 1..m /\ Len(d) = 3 * m
      BY <2>3
    <3>4. \A k \in 1..m : Len(d) = 3 * k => r = 0
      OBVIOUS
    <3> QED
      BY <2>1, <3>1, <3>2, <3>3, <3>4
  <2> QED
    BY <2>2, <2>3
<1> HIDE DEF N, S
<1>7. ASSUME NEW k \in 1..m PROVE 3 * k \in S /\ 3 * k - 2 \notin S /\ 3 * k - 1 \notin S
  <2>1. 3 * k \in 1..Len(d) /\ 3 * k - 2 \in 1..Len(d) /\ 3 * k - 1 \in 1..Len(d)
    OBVIOUS
  <2>2. \A l \in 1..m : 3 * k - 2 # 3 * l /\ 3 * k - 1 # 3 * l
    OBVIOUS
  <2> QED
    BY <1>4, <1>5, <2>1, <2>2
<1>8. 3 * m + 1 \notin S
  <2>1. \A l \in 1..m : 3 * m + 1 # 3 * l
    OBVIOUS
  <2>2. CASE r = 0
    BY <1>6, <2>2
  <2>3. CASE r # 0
    <3>1. 3 * m + 1 \in 1..Len(d)
      BY <2>3
    <3> QED
      BY <1>4, <1>5, <2>1, <3>1
  <2> QED
    BY <2>2, <2>3
<1>9. 3 * m + 2 \in S <=> r = 1
  <2>1. \A l \in 1..m : 3 * m + 2 # 3 * l
    OBVIOUS
  <2>2. CASE r = 0
    <3>1. 3 * m + 2 \notin 1..(Len(d) + 1)
      BY <2>2
    <3> QED
      BY <1>1, <2>2, <3>1
  <2>3. CASE r = 1
    <3>1. 3 * m + 2 = Len(d) + 1
      BY <2>3
    <3> QED
      BY <1>6, <2>3, <3>1
  <2>4. CASE r = 2
    <3>1. 3 * m + 2 \in 1..Len(d)
      BY <2>4
    <3> QED
      BY <1>4, <1>5, <2>1, <2>4, <3>1
  <2> QED
    BY <2>2, <2>3, <2>4
<1>10. 3 * m + 3 \in S <=> r = 2
  <2>1. CASE r = 2
    <3>1. 3 * m + 3 = Len(d) + 1
      BY <2>1
    <3> QED
      BY <1>6, <2>1, <3>1
  <2>2. CASE r # 2
    <3>1. 3 * m + 3 \notin 1..(Len(d) + 1)
      BY <2>2
    <3> QED
      BY <1>1, <2>2, <3>1
  <2> QED
    BY <2>1, <2>2
<1> QED
  BY <1>4, <1>7, <1>8, <1>9, <1>10 DEF N, S

(* The n-th line ends at the part 3n; the rest comes after them. *)
LEMMA CutPlaces ==
  ASSUME NEW d \in Seq(Parts), NEW ns \in Seq(Nat \ {0}), CutOf(d, ns),
         NEW m \in Nat, NEW r \in 0..2, Len(d) = 3 * m + r
  PROVE  /\ \A n \in 0..m : Cardinality(UpTo(LineEnds(d), 3 * n)) = n
         /\ r # 0 => /\ Len(d) + 1 \in LineEnds(d)
                     /\ Cardinality(UpTo(LineEnds(d), Len(d) + 1)) = m + 1
         /\ Cardinality(LineEnds(d)) = IF r = 0 THEN m ELSE m + 1
<1> DEFINE S == LineEnds(d)
           R(x) == Cardinality(UpTo(S, x))
           M == Len(d) + 1
           T == {n \in Nat : n \in 0..m => R(3 * n) = n}
<1>1. M \in Nat /\ S \in SUBSET (1..M)
  BY LineFacts
<1>2. /\ \A k \in 1..m : 3 * k \in S /\ 3 * k - 2 \notin S /\ 3 * k - 1 \notin S
      /\ 3 * m + 1 \notin S /\ (3 * m + 2 \in S <=> r = 1) /\ (3 * m + 3 \in S <=> r = 2)
  BY CutLineEnds
<1> HIDE DEF S
<1>3. ASSUME NEW x \in Nat
      PROVE  /\ R(x) \in Nat /\ R(0) = 0 /\ (M <= x => R(x) = Cardinality(S))
             /\ x + 1 \in S => R(x + 1) = R(x) + 1
             /\ x + 1 \notin S => R(x + 1) = R(x)
  <2>1. Steps(M, S)
    BY <1>1, UpToSteps
  <2> QED
    BY <1>3, <2>1 DEF Steps
<1> HIDE DEF R
<1>4. 0 \in T
  BY <1>3
<1>5. ASSUME NEW n \in Nat, n \in T PROVE n + 1 \in T
  <2> SUFFICES ASSUME n + 1 \in 0..m PROVE R(3 * (n + 1)) = n + 1
    OBVIOUS
  <2>1. R(3 * n) = n
    BY <1>5
  <2>2. /\ n + 1 \in 1..m /\ 3 * (n + 1) - 2 = 3 * n + 1 /\ 3 * (n + 1) - 1 = (3 * n + 1) + 1
        /\ 3 * (n + 1) = ((3 * n + 1) + 1) + 1
        /\ 3 * n \in Nat /\ 3 * n + 1 \in Nat /\ (3 * n + 1) + 1 \in Nat
    OBVIOUS
  <2>3. /\ 3 * n + 1 \notin S /\ (3 * n + 1) + 1 \notin S /\ ((3 * n + 1) + 1) + 1 \in S
    BY <1>2, <2>2
  <2>4. R(3 * n + 1) = n
    BY <1>3, <2>1, <2>2, <2>3
  <2>5. R((3 * n + 1) + 1) = n
    BY <1>3, <2>2, <2>3, <2>4
  <2>6. R(((3 * n + 1) + 1) + 1) = n + 1
    BY <1>3, <2>2, <2>3, <2>5
  <2> QED
    BY <2>2, <2>6
<1>6. \A n \in 0..m : R(3 * n) = n
  <2>1. Nat \subseteq T
    <3> HIDE DEF T
    <3> QED
      BY <1>4, <1>5, SetInduction
  <2> QED
    BY <2>1
<1>7. R(3 * m) = m /\ R(3 * m + 1) = m
  <2>1. R(3 * m) = m /\ 3 * m \in Nat
    BY <1>6
  <2> QED
    BY <1>2, <1>3, <2>1
<1>8. CASE r = 0
  <2>1. M = 3 * m + 1
    BY <1>8
  <2>2. R(M) = Cardinality(S)
    BY <1>1, <1>3
  <2> QED
    BY <1>6, <1>7, <1>8, <2>1, <2>2 DEF R, S
<1>9. CASE r = 1
  <2>1. M = (3 * m + 1) + 1 /\ 3 * m + 2 = M /\ 3 * m + 1 \in Nat
    BY <1>9
  <2>2. M \in S
    BY <1>2, <1>9, <2>1
  <2>3. R(M) = m + 1
    BY <1>3, <1>7, <2>1, <2>2
  <2>4. R(M) = Cardinality(S)
    BY <1>1, <1>3
  <2> QED
    BY <1>6, <1>9, <2>2, <2>3, <2>4 DEF R, S
<1>10. CASE r = 2
  <2>1. /\ M = ((3 * m + 1) + 1) + 1 /\ 3 * m + 3 = M /\ 3 * m + 2 = (3 * m + 1) + 1
        /\ 3 * m + 1 \in Nat /\ (3 * m + 1) + 1 \in Nat
    BY <1>10
  <2>2. M \in S /\ (3 * m + 1) + 1 \notin S
    BY <1>2, <1>10, <2>1
  <2>3. R((3 * m + 1) + 1) = m
    BY <1>3, <1>7, <2>1, <2>2
  <2>4. R(M) = m + 1
    BY <1>3, <2>1, <2>2, <2>3
  <2>5. R(M) = Cardinality(S)
    BY <1>1, <1>3
  <2> QED
    BY <1>6, <1>10, <2>2, <2>4, <2>5 DEF R, S
<1> QED
  BY <1>8, <1>9, <1>10

\* The first m items of a file of lines are whole, and r parts of one more are there.
LinesAre(d, ns, m, r) ==
  /\ Len(Lines(d)) = IF r = 0 THEN m ELSE m + 1
  /\ \A n \in 1..m : ParsedLine(Lines(d)[n]) /\ Lines(d)[n][1][1] = ns[n]
  /\ r # 0 /\ ParsedLine(Lines(d)[m + 1]) => r = 2 /\ Lines(d)[m + 1][1][1] = ns[m + 1]

\* A file of lines, cut anywhere, is its first lines and at most one that is torn.
LEMMA LinesOfCut ==
  ASSUME NEW d \in Seq(Parts), NEW ns \in Seq(Nat \ {0}), CutOf(d, ns),
         NEW m \in Nat, NEW r \in 0..2, Len(d) = 3 * m + r
  PROVE  LinesAre(d, ns, m, r)
<1> DEFINE S == LineEnds(d)
           M == Len(d) + 1
           R(x) == Cardinality(UpTo(S, x))
<1>0. Cardinality(S) = IF r = 0 THEN m ELSE m + 1
  BY CutPlaces
<1>1. /\ M \in Nat /\ Len(d) \in Nat /\ S \in SUBSET (1..M)
      /\ Len(Lines(d)) = IF r = 0 THEN m ELSE m + 1
      /\ Newlines(d) \in SUBSET (1..Len(d))
  <2>1. Len(Lines(d)) = Cardinality(S)
    BY LineFacts
  <2> QED
    BY <1>0, <2>1, LineFacts
<1>2. ASSUME NEW n \in 1..Len(Lines(d)), NEW i \in S, R(i) = n
      PROVE  Lines(d)[n] = SubSeq(d, LineStart(d, i), i - 1)
  <2>1. PICK j \in S : R(j) = n /\ Lines(d)[n] = SubSeq(d, LineStart(d, j), j - 1)
    BY LineFacts
  <2>2. ~(i < j) /\ ~(j < i)
    <3>1. R(i) = R(j) /\ R(i) \in Nat
      BY <1>2, <2>1
    <3> HIDE DEF S, M
    <3>2. i < j => R(i) < R(j)
      BY <1>1, UpToOrder
    <3>3. j < i => R(j) < R(i)
      BY <1>1, UpToOrder
    <3> HIDE DEF R
    <3> QED
      BY <3>1, <3>2, <3>3
  <2>3. i = j
    BY <1>1, <2>2
  <2> QED
    BY <2>1, <2>3
<1>3. ASSUME NEW i \in 1..M, NEW k \in 0..m, 3 * k < i, i <= 3 * (k + 1), k = m \/ i = 3 * (k + 1)
      PROVE  LineStart(d, i) = 3 * k + 1
  <2> DEFINE s == LineStart(d, i)
  <2>1. /\ s \in 1..i /\ (s = 1 \/ s - 1 \in Newlines(d))
        /\ \A j \in Newlines(d) : j < i => j < s
    BY LineStartIs
  <2> HIDE DEF s
  <2>2. k # 0 => 3 * k < s
    <3>1. k # 0 => k \in 1..m /\ 3 * k \in 1..Len(d)
      OBVIOUS
    <3>2. k # 0 => 3 * k \in Newlines(d)
      BY <3>1, CutLineEnds
    <3> QED
      BY <1>3, <2>1, <3>2
  <2>3. CASE s = 1
    BY <2>2, <2>3 DEF s
  <2>4. CASE s # 1
    <3>1. s - 1 \in Newlines(d) /\ s - 1 \in 1..Len(d)
      BY <1>1, <2>1, <2>4
    <3>2. PICK l \in 1..m : s - 1 = 3 * l
      BY <3>1, CutLineEnds
    <3>3. 3 * k < s /\ s - 1 < 3 * (k + 1)
      BY <1>3, <2>1, <2>2, <3>2
    <3>4. l = k /\ s = 3 * k + 1
      <4>1. s \in Nat /\ l \in Nat /\ k \in Nat
        BY <2>1
      <4> QED
        BY <3>2, <3>3, <4>1
    <3> QED
      BY <3>4 DEF s
  <2> QED
    BY <2>3, <2>4
<1>4. Len(ns) \in Nat /\ Len(d) <= 3 * Len(ns)
  BY LenProperties DEF CutOf
<1>5. ASSUME NEW n \in 1..m PROVE ParsedLine(Lines(d)[n]) /\ Lines(d)[n][1][1] = ns[n]
  <2> DEFINE f == SubSeq(d, 3 * n - 2, 3 * n - 1)
  <2>1. 3 * n \in S /\ R(3 * n) = n /\ n \in 1..Len(Lines(d))
    <3>1. 3 * n \in S
      BY CutLineEnds
    <3>2. n \in 0..m
      OBVIOUS
    <3>3. R(3 * n) = n
      BY <3>2, CutPlaces
    <3>4. n \in 1..Len(Lines(d))
      BY <1>1
    <3> QED
      BY <3>1, <3>3, <3>4
  <2>2. LineStart(d, 3 * n) = 3 * n - 2
    <3>1. /\ 3 * n \in 1..M /\ n - 1 \in 0..m /\ 3 * (n - 1) < 3 * n
          /\ 3 * n = 3 * ((n - 1) + 1) /\ 3 * (n - 1) + 1 = 3 * n - 2
      OBVIOUS
    <3> QED
      BY <1>3, <3>1
  <2>3. Lines(d)[n] = f
    BY <1>2, <2>1, <2>2
  <2>4. Len(f) = 2 /\ \A i \in 1..2 : f[i] = d[3 * n - 2 + i - 1]
    <3>1. /\ 3 * n - 2 \in 1..(Len(d) + 1) /\ 3 * n - 1 \in 0..Len(d)
          /\ 3 * n - 2 <= (3 * n - 1) + 1 /\ (3 * n - 1) - (3 * n - 2) + 1 = 2
      OBVIOUS
    <3> QED
      BY <3>1, Slice
  <2> HIDE DEF f
  <2>5. ASSUME NEW i \in 1..2 PROVE f[i] = <<ns[n], i>>
    <3>1. /\ 3 * n - 2 + i - 1 = 3 * (n - 1) + i /\ 3 * (n - 1) + i <= Len(d)
          /\ n \in 1..Len(ns) /\ i \in 1..3
      BY <1>4
    <3> QED
      BY <2>4, <3>1 DEF CutOf
  <2>6. f[1] = <<ns[n], 1>> /\ f[2] = <<ns[n], 2>>
    BY <2>5
  <2> QED
    BY <2>3, <2>4, <2>6 DEF ParsedLine
<1>6. ASSUME r # 0, ParsedLine(Lines(d)[m + 1]) PROVE r = 2 /\ Lines(d)[m + 1][1][1] = ns[m + 1]
  <2> DEFINE f == SubSeq(d, 3 * m + 1, Len(d))
  <2>1. M \in S /\ R(M) = m + 1 /\ m + 1 \in 1..Len(Lines(d))
    <3>1. M \in S /\ R(M) = m + 1
      BY <1>6, CutPlaces
    <3>2. m + 1 \in 1..Len(Lines(d))
      BY <1>1, <1>6
    <3> QED
      BY <3>1, <3>2
  <2>2. LineStart(d, M) = 3 * m + 1
    <3>1. M \in 1..M /\ m \in 0..m /\ 3 * m < M /\ M <= 3 * (m + 1)
      OBVIOUS
    <3> QED
      BY <1>3, <3>1
  <2>3. M - 1 = Len(d)
    BY <1>1
  <2>4. Lines(d)[m + 1] = f
    BY <1>2, <2>1, <2>2, <2>3
  <2>5. Len(f) = r /\ \A i \in 1..r : f[i] = d[3 * m + 1 + i - 1]
    <3>1. /\ 3 * m + 1 \in 1..(Len(d) + 1) /\ Len(d) \in 0..Len(d)
          /\ 3 * m + 1 <= Len(d) + 1 /\ Len(d) - (3 * m + 1) + 1 = r
      OBVIOUS
    <3> QED
      BY <3>1, Slice
  <2> HIDE DEF f
  <2>6. r = 2
    BY <1>6, <2>4, <2>5 DEF ParsedLine
  <2>7. f[1] = d[3 * m + 1]
    BY <2>5, <2>6
  <2>8. 3 * ((m + 1) - 1) + 1 = 3 * m + 1 /\ 3 * m + 1 <= Len(d) /\ m + 1 \in 1..Len(ns)
    BY <1>4, <2>6
  <2>9. d[3 * m + 1] = <<ns[m + 1], 1>>
    <3>1. \A k \in 1..Len(ns), j \in 1..3 :
            3 * (k - 1) + j <= Len(d) => d[3 * (k - 1) + j] = <<ns[k], j>>
      BY DEF CutOf
    <3>2. 1 \in 1..3 /\ m + 1 \in 1..Len(ns) /\ 3 * ((m + 1) - 1) + 1 <= Len(d)
      BY <2>8
    <3>3. d[3 * ((m + 1) - 1) + 1] = <<ns[m + 1], 1>>
      BY <3>1, <3>2
    <3> QED
      BY <2>8, <3>3
  <2> QED
    BY <2>4, <2>6, <2>7, <2>9
<1> QED
  BY <1>1, <1>5, <1>6 DEF LinesAre

(* Either importer, on such a file. *)
LEMMA ImportOfCut ==
  ASSUME NEW d \in Seq(Parts), NEW ns \in Seq(Nat \ {0}), CutOf(d, ns)
  PROVE  /\ IsPrefix(Imported(d), ns) /\ Len(Items(d)) <= Len(Imported(d)) + 1
         /\ Len(d) = 3 * Len(ns) => Imported(d) = ns /\ Len(Items(d)) = Len(ns)
<1>1. /\ Len(d) \in Nat /\ Len(ns) \in Nat /\ Len(d) <= 3 * Len(ns)
      /\ \A i \in 1..Len(ns) : ns[i] \in Nat \ {0}
  BY LenProperties, ElementOfSeq DEF CutOf
<1>2. PICK m \in Nat, r \in 0..2 : Len(d) = 3 * m + r
  <2>1. ASSUME NEW x \in Nat PROVE \E m \in Nat, r \in 0..2 : x = 3 * m + r
    <3>1. x \div 3 \in Nat /\ x - 3 * (x \div 3) \in 0..2
      OBVIOUS
    <3>2. x = 3 * (x \div 3) + (x - 3 * (x \div 3))
      BY <3>1
    <3> QED
      BY <3>1, <3>2
  <2> QED
    BY <1>1, <2>1
<1>t. m \in Nat /\ r \in 0..2 /\ Len(d) = 3 * m + r /\ CutOf(d, ns)
  BY <1>2
<1> DEFINE items == Items(d)
<1>3. /\ m <= Len(ns) /\ (r # 0 => m + 1 <= Len(ns))
      /\ Len(d) = 3 * Len(ns) => r = 0 /\ m = Len(ns)
  BY <1>1, <1>2
<1>4. /\ Len(items) = IF r = 0 THEN m ELSE m + 1
      /\ \A n \in 1..m : Parses(items[n]) /\ items[n][1][1] = ns[n]
      /\ r # 0 /\ Parses(items[m + 1]) => items[m + 1][1][1] = ns[m + 1]
  <2>1. CASE format = "ndjson"
    <3>1. items = Lines(d) /\ \A x : Parses(x) <=> ParsedLine(x)
      BY <2>1 DEF Items, Parses
    <3> HIDE DEF items
    <3>2. /\ Len(Lines(d)) = IF r = 0 THEN m ELSE m + 1
          /\ \A n \in 1..m : ParsedLine(Lines(d)[n]) /\ Lines(d)[n][1][1] = ns[n]
          /\ r # 0 /\ ParsedLine(Lines(d)[m + 1]) => r = 2 /\ Lines(d)[m + 1][1][1] = ns[m + 1]
      <4>1. LinesAre(d, ns, m, r)
        BY <1>t, LinesOfCut
      <4> QED
        BY <4>1 DEF LinesAre
    <3> QED
      BY <3>1, <3>2
  <2>2. CASE format # "ndjson"
    <3>1. items = Frames(d) /\ \A x : Parses(x) <=> ParsedFrame(x)
      BY <2>2 DEF Items, Parses
    <3> HIDE DEF items
    <3>2. /\ Len(Frames(d)) = IF r = 0 THEN m ELSE m + 1
          /\ \A n \in 1..m : ParsedFrame(Frames(d)[n]) /\ Frames(d)[n][1][1] = ns[n]
          /\ r # 0 => ~ParsedFrame(Frames(d)[m + 1])
      <4>1. FramesAre(d, ns, m, r)
        BY <1>t, FramesOfCut
      <4> QED
        BY <4>1 DEF FramesAre
    <3> QED
      BY <3>1, <3>2
  <2> QED
    BY <2>1, <2>2
<1>5. Len(items) \in Nat
  BY <1>2, <1>4
<1>6. PICK g \in 0..Len(items) :
           /\ Imported(d) = [i \in 1..g |-> items[i][1][1]]
           /\ \A i \in 1..g : Parses(items[i])
           /\ g < Len(items) => ~Parses(items[g + 1])
  BY <1>5, ImportedIs
<1> HIDE DEF items
<1>7. g >= m /\ g <= Len(ns) /\ Len(items) <= g + 1 /\ g \in Nat
  <2>1. ~(g < m)
    <3> SUFFICES ASSUME g < m PROVE FALSE
      OBVIOUS
    <3>1. g + 1 \in 1..m /\ g < Len(items)
      BY <1>2, <1>4
    <3> QED
      BY <1>4, <1>6, <3>1
  <2> QED
    BY <1>2, <1>3, <1>4, <2>1
<1>8. ASSUME NEW i \in 1..g PROVE items[i][1][1] = ns[i] /\ ns[i] \in Nat \ {0}
  <2>1. CASE i \in 1..m
    BY <1>1, <1>4, <1>7, <2>1
  <2>2. CASE i \notin 1..m
    <3>1. i = m + 1 /\ r # 0
      BY <1>2, <1>4, <1>5, <2>2
    <3> QED
      BY <1>1, <1>4, <1>6, <1>7, <3>1
  <2> QED
    BY <2>1, <2>2
<1> DEFINE got == Imported(d)
<1>9. got = [i \in 1..g |-> ns[i]]
  BY <1>6, <1>8
<1> HIDE DEF got
<1>10. /\ got \in Seq(Nat \ {0}) /\ Len(got) = g /\ \A i \in 1..g : got[i] = ns[i]
  <2>1. got \in [1..g -> Nat \ {0}]
    BY <1>8, <1>9
  <2>2. got \in Seq(Nat \ {0})
    BY <1>7, <2>1, SeqDef
  <2>3. Len(got) = g
    BY <1>7, <2>1, <2>2, LenProperties
  <2> QED
    BY <1>9, <2>2, <2>3
<1>11. IsPrefix(got, ns)
  <2> DEFINE a == SubSeq(got, 1, g)
             b == SubSeq(ns, 1, g)
  <2>1. /\ a \in Seq(Nat \ {0}) /\ Len(a) = g - 1 + 1
        /\ \A i \in 1..(g - 1 + 1) : a[i] = got[1 + i - 1]
    <3>1. 1 \in 1..(Len(got) + 1) /\ g \in 0..Len(got) /\ 1 <= g + 1
      BY <1>7, <1>10
    <3> QED
      BY <1>10, <3>1, Slice
  <2>2. /\ b \in Seq(Nat \ {0}) /\ Len(b) = g - 1 + 1
        /\ \A i \in 1..(g - 1 + 1) : b[i] = ns[1 + i - 1]
    <3>1. 1 \in 1..(Len(ns) + 1) /\ g \in 0..Len(ns) /\ 1 <= g + 1
      BY <1>1, <1>7
    <3> QED
      BY <3>1, Slice
  <2> HIDE DEF a, b
  <2>3. \A i \in 1..Len(a) : a[i] = b[i]
    <3> SUFFICES ASSUME NEW i \in 1..Len(a) PROVE a[i] = b[i]
      OBVIOUS
    <3>1. i \in 1..(g - 1 + 1) /\ i \in 1..g /\ 1 + i - 1 = i
      BY <1>7, <2>1
    <3> QED
      BY <1>10, <2>1, <2>2, <3>1
  <2>4. a = b
    BY <2>1, <2>2, <2>3, SeqEqual
  <2> QED
    BY <1>7, <1>10, <2>4 DEF IsPrefix, a, b
<1>12. Len(d) = 3 * Len(ns) => got = ns /\ Len(items) = Len(ns)
  <2> SUFFICES ASSUME Len(d) = 3 * Len(ns) PROVE got = ns /\ Len(items) = Len(ns)
    OBVIOUS
  <2>1. r = 0 /\ m = Len(ns) /\ g = Len(ns) /\ Len(items) = Len(ns)
    BY <1>3, <1>4, <1>7
  <2>2. got = ns
    BY <1>10, <2>1, SeqEqual
  <2> QED
    BY <2>1, <2>2
<1> QED
  BY <1>7, <1>10, <1>11, <1>12 DEF got, items

(* Lines, however torn the file is as long as its parts are in order.      *)
LEMMA LinesInOrder ==
  ASSUME NEW es, NEW d \in Seq(Parts), Sorted(es, d)
  PROVE  /\ \A n \in 1..Len(Lines(d)) :
              ParsedLine(Lines(d)[n]) => PartOf(es, Lines(d)[n][1])
         /\ \A n1, n2 \in 1..Len(Lines(d)) :
              n1 < n2 /\ ParsedLine(Lines(d)[n1]) /\ ParsedLine(Lines(d)[n2])
                => Lines(d)[n1][1][1] < Lines(d)[n2][1][1]
<1> DEFINE S == LineEnds(d)
           N == Newlines(d)
           M == Len(d) + 1
           R(x) == Cardinality(UpTo(S, x))
           (* The line before j is two parts, and parses. *)
           Two(n, j) == /\ j \in S /\ R(j) = n /\ j \in 1..M /\ j - 2 \in 1..Len(d)
                        /\ j - 1 \in 1..Len(d) /\ LineStart(d, j) = j - 2
                        /\ Lines(d)[n][1] = d[j - 2]
                        /\ d[j - 2][2] = 1
<1>1. /\ Len(d) \in Nat /\ M \in Nat /\ N \in SUBSET (1..Len(d)) /\ S \in SUBSET (1..M)
  BY LineFacts
<1>2. ASSUME NEW n \in 1..Len(Lines(d)), ParsedLine(Lines(d)[n]) PROVE \E j : Two(n, j)
  <2>1. PICK j \in S : R(j) = n /\ Lines(d)[n] = SubSeq(d, LineStart(d, j), j - 1)
    BY LineFacts
  <2> DEFINE s == LineStart(d, j)
             f == SubSeq(d, s, j - 1)
  <2>2. j \in 1..M /\ s \in 1..j
    BY <1>1, <2>1, LineStartIs
  <2>3. /\ s \in 1..(Len(d) + 1) /\ j - 1 \in 0..Len(d) /\ s <= (j - 1) + 1
    BY <1>1, <2>2
  <2>4. Len(f) = (j - 1) - s + 1 /\ \A i \in 1..((j - 1) - s + 1) : f[i] = d[s + i - 1]
    BY <2>3, Slice
  <2>5. Len(f) = 2 /\ f[1][2] = 1
    BY <1>2, <2>1 DEF ParsedLine
  <2> HIDE DEF f, s
  <2>6. s = j - 2 /\ j - 2 \in 1..Len(d) /\ j - 1 \in 1..Len(d)
    <3>1. (j - 1) - s + 1 = 2
      BY <2>4, <2>5
    <3>2. s \in Nat /\ j \in Nat /\ 1 <= s /\ j <= M
      BY <1>1, <2>2
    <3> QED
      BY <1>1, <3>1, <3>2
  <2>7. f[1] = d[j - 2]
    <3>1. 1 \in 1..((j - 1) - s + 1) /\ s + 1 - 1 = j - 2
      BY <2>2, <2>6
    <3> QED
      BY <2>4, <3>1
  <2>8. Two(n, j)
    BY <2>1, <2>2, <2>5, <2>6, <2>7 DEF f, s
  <2> QED
    BY <2>8
<1>3. ASSUME NEW n \in 1..Len(Lines(d)), ParsedLine(Lines(d)[n])
      PROVE  PartOf(es, Lines(d)[n][1])
  <2>1. PICK j : Two(n, j)
    BY <1>2, <1>3
  <2> QED
    BY <2>1 DEF Sorted
<1>4. ASSUME NEW n1 \in 1..Len(Lines(d)), NEW n2 \in 1..Len(Lines(d)), n1 < n2,
             ParsedLine(Lines(d)[n1]), ParsedLine(Lines(d)[n2])
      PROVE  Lines(d)[n1][1][1] < Lines(d)[n2][1][1]
  <2>1. PICK i : Two(n1, i)
    BY <1>2, <1>4
  <2>2. PICK j : Two(n2, j)
    BY <1>2, <1>4
  <2>3. i < j
    <3>1. R(i) < R(j) /\ i \in S /\ j \in S
      BY <1>4, <2>1, <2>2
    <3>2. R(i) \in Nat /\ R(j) \in Nat
      BY <2>1, <2>2, <1>1, UpToStep
    <3> HIDE DEF S, M, Two
    <3>3. j < i => R(j) < R(i)
      BY <1>1, <3>1, UpToOrder
    <3>4. ~(j < i) /\ i # j
      <4> HIDE DEF R
      <4> QED
        BY <3>1, <3>2, <3>3
    <3> QED
      BY <1>1, <3>1, <3>4
  <2>4. i \in N
    <3>1. i \in S /\ j \in 1..M /\ i \in Nat
      BY <1>1, <2>1, <2>2
    <3>2. i \in N \/ i = Len(d) + 1
      BY <3>1 DEF LineEnds
    <3> QED
      BY <1>1, <2>3, <3>1, <3>2
  <2>5. i < j - 2
    <3>1. i < LineStart(d, j)
      BY <2>2, <2>3, <2>4, LineStartIs
    <3> QED
      BY <2>2, <3>1
  <2>6. i - 2 \in 1..Len(d) /\ j - 2 \in 1..Len(d) /\ i - 2 < j - 2
    BY <2>1, <2>2, <2>5
  <2> DEFINE p == d[i - 2]
             q == d[j - 2]
  <2>7. Precedes(p, q) /\ p[2] = 1 /\ q[2] = 1
    BY <2>1, <2>2, <2>6 DEF Sorted, Increasing
  <2>8. Lines(d)[n1][1] = p /\ Lines(d)[n2][1] = q
    BY <2>1, <2>2
  <2> HIDE DEF p, q
  <2> QED
    BY <2>7, <2>8 DEF Precedes
<1> QED
  BY <1>3, <1>4
-----------------------------------------------------------------------------
\* While no write has failed, a file is the start of what its events serialize to.
LEMMA DiskCut ==
  ASSUME IInv, NEW e \in Entities
  PROVE  /\ Sorted(emitted[e], disk[e]) /\ Good(e) \in Seq(Nat \ {0})
         /\ ~failed[e] => CutOf(disk[e], Good(e))
         /\ ~failed[e] /\ obs[e] = "dropped" => Len(disk[e]) = 3 * Len(Good(e))
<1> DEFINE q == Serialized(queue[e])
           es == emitted[e]
           bp == Cat(Cat(buf[e], pend[e]), q)
           rest == Cat(inflight[e], bp)
           d == disk[e]
<1>1. TypeInv /\ StreamInv /\ LifeInv
  BY DEF IInv
<1>2. /\ d \in Seq(Parts) /\ inflight[e] \in Seq(Parts) /\ buf[e] \in Seq(Parts)
      /\ pend[e] \in Seq(Parts) /\ q \in Seq(Parts) /\ es \in Seq(Events)
      /\ <<>> \in Seq(Parts)
  BY <1>1, PlacesType
<1>3. Stream(e) = Cat(Cat(Cat(Cat(d, inflight[e]), buf[e]), pend[e]), q)
  BY DEF Stream
<1> HIDE DEF q, d
<1>4. Stream(e) = Cat(d, rest) /\ rest \in Seq(Parts)
  <2>1. Cat(d, inflight[e]) \in Seq(Parts) /\ Cat(buf[e], pend[e]) \in Seq(Parts)
    BY <1>2, CatElements
  <2>2. Cat(Cat(Cat(d, inflight[e]), buf[e]), pend[e]) = Cat(Cat(d, inflight[e]), Cat(buf[e], pend[e]))
    BY <1>2, <2>1, CatAssociative
  <2>3. Cat(Cat(Cat(d, inflight[e]), Cat(buf[e], pend[e])), q) = Cat(Cat(d, inflight[e]), bp)
    BY <1>2, <2>1, CatAssociative
  <2>4. bp \in Seq(Parts)
    BY <1>2, <2>1, CatElements
  <2> HIDE DEF bp
  <2>5. Cat(Cat(d, inflight[e]), bp) = Cat(d, Cat(inflight[e], bp))
    BY <1>2, <2>4, CatAssociative
  <2>6. Cat(inflight[e], bp) \in Seq(Parts)
    BY <1>2, <2>4, CatElements
  <2> QED
    BY <1>3, <2>2, <2>3, <2>5, <2>6
<1>5. /\ Counted(es) /\ Sorted(es, Stream(e)) /\ (~failed[e] => Stream(e) = Serialized(es))
  BY <1>1 DEF StreamInv
<1>6. /\ Numbers(es) \in Seq(Nat \ {0}) /\ Mirrors(Serialized(es), Numbers(es)) /\ Good(e) = Numbers(es)
  BY <1>2, SerializedIs, SerializedMirrors DEF Good
<1> HIDE DEF es, rest
<1>7. Sorted(es, d)
  <2>1. Cat(d, rest) \in Seq(Parts)
    BY <1>2, <1>4, CatElements
  <2>2. Cat(Cat(d, rest), <<>>) = Cat(d, rest) /\ Cat(d, <<>>) = d
    BY <1>2, <2>1, CatEmpty
  <2>3. Sorted(es, Cat(Cat(d, rest), <<>>))
    BY <1>4, <1>5, <2>2
  <2>4. Sorted(es, Cat(d, <<>>))
    BY <1>2, <1>4, <2>3, LoseMiddle
  <2> QED
    BY <2>2, <2>4
<1>8. ~failed[e] => CutOf(d, Numbers(es))
  BY <1>2, <1>4, <1>5, <1>6, MirrorsCut
<1>9. ASSUME ~failed[e], obs[e] = "dropped" PROVE Len(d) = 3 * Len(Numbers(es))
  <2>1. queue[e] = <<>> /\ pend[e] = <<>> /\ inflight[e] = <<>> /\ buf[e] = <<>>
    BY <1>1, <1>9 DEF LifeInv
  <2>2. q = <<>>
    BY <2>1, SerializedEmpty DEF q
  <2>3. Cat(d, <<>>) = d
    BY <1>2, CatEmpty
  <2>4. Stream(e) = d
    BY <1>3, <2>1, <2>2, <2>3
  <2> QED
    BY <1>5, <1>6, <1>9, <2>4 DEF Mirrors
<1> QED
  BY <1>6, <1>7, <1>8, <1>9 DEF d, es

\* An importer meets finitely many items.
LEMMA ItemsCounted == ASSUME NEW d \in Seq(Parts) PROVE Len(Items(d)) \in Nat
<1>1. Len(d) \in Nat
  BY LenProperties
<1>2. CASE format = "ndjson"
  BY <1>2, LineFacts DEF Items
<1>3. CASE format # "ndjson"
  <2> DEFINE K == (Len(d) + 2) \div 3
             F(k) == SubSeq(d, 3 * k - 2, IF 3 * k <= Len(d) THEN 3 * k ELSE Len(d))
  <2>1. Items(d) = [k \in 1..K |-> F(k)]
    BY <1>3 DEF Items, Frames
  <2>2. K \in Nat
    BY <1>1
  <2> HIDE DEF K, F
  <2> QED
    BY <2>1, <2>2
<1> QED
  BY <1>2, <1>3

\* An event is imported only if the parts it is read from are in the file.
LEMMA ItemInFile ==
  ASSUME NEW d \in Seq(Parts), NEW n \in 1..Len(Items(d)), Parses(Items(d)[n])
  PROVE  \A i \in Needed : <<Items(d)[n][1][1], i>> \in ToSet(d)
<1> DEFINE f == Items(d)[n]
<1>1. Len(d) \in Nat /\ \A i \in 1..Len(d) : d[i] \in Parts /\ d[i] \in ToSet(d)
  BY LenProperties, ElementOfSeq DEF ToSet
<1>2. ASSUME NEW a \in 1..(Len(d) + 1), NEW b \in 0..Len(d), a <= b + 1, f = SubSeq(d, a, b)
      PROVE  Len(f) = b - a + 1 /\ \A i \in 1..(b - a + 1) : f[i] \in Parts /\ f[i] \in ToSet(d)
  <2>1. Len(f) = b - a + 1 /\ \A i \in 1..(b - a + 1) : f[i] = d[a + i - 1]
    BY <1>2, Slice
  <2>2. \A i \in 1..(b - a + 1) : a + i - 1 \in 1..Len(d)
    BY <1>1, <1>2
  <2> HIDE DEF f
  <2> QED
    BY <1>1, <2>1, <2>2
<1>3. CASE format = "ndjson"
  <2>1. Items(d) = Lines(d) /\ ParsedLine(f) /\ Needed = 1..2
    BY <1>3 DEF Items, Parses, Needed
  <2>2. PICK j \in LineEnds(d) : f = SubSeq(d, LineStart(d, j), j - 1)
    BY <2>1, LineFacts
  <2>3. j \in 1..(Len(d) + 1) /\ LineStart(d, j) \in 1..j
    BY LineFacts, LineStartIs
  <2> DEFINE a == LineStart(d, j)
  <2>4. a \in 1..(Len(d) + 1) /\ j - 1 \in 0..Len(d) /\ a <= (j - 1) + 1
    BY <1>1, <2>3
  <2>5. Len(f) = (j - 1) - a + 1
        /\ \A i \in 1..((j - 1) - a + 1) : f[i] \in Parts /\ f[i] \in ToSet(d)
    BY <1>2, <2>2, <2>4
  <2> HIDE DEF a, f
  <2>6. Len(f) = 2 /\ f[1][1] = f[2][1] /\ f[1][2] = 1 /\ f[2][2] = 2
    BY <2>1 DEF ParsedLine
  <2>7. f[1] \in Parts /\ f[2] \in Parts /\ f[1] \in ToSet(d) /\ f[2] \in ToSet(d)
    <3>1. (j - 1) - a + 1 = 2
      BY <2>5, <2>6
    <3>2. \A i \in 1..2 : f[i] \in Parts /\ f[i] \in ToSet(d)
      BY <2>5, <3>1
    <3>3. 1 \in 1..2 /\ 2 \in 1..2
      OBVIOUS
    <3> QED
      BY <3>2, <3>3
  <2>8. f[1] = <<f[1][1], 1>> /\ f[2] = <<f[1][1], 2>>
    BY <2>6, <2>7 DEF Parts
  <2>9. \A i \in Needed : i = 1 \/ i = 2
    BY <2>1
  <2> QED
    BY <2>7, <2>8, <2>9 DEF f
<1>4. CASE format # "ndjson"
  <2>1. Items(d) = Frames(d) /\ ParsedFrame(f) /\ Needed = 1..3
    BY <1>4 DEF Items, Parses, Needed
  <2> DEFINE b == IF 3 * n <= Len(d) THEN 3 * n ELSE Len(d)
             K == (Len(d) + 2) \div 3
             F(k) == SubSeq(d, 3 * k - 2, IF 3 * k <= Len(d) THEN 3 * k ELSE Len(d))
  <2>2. n \in 1..K /\ f = SubSeq(d, 3 * n - 2, b)
    <3>1. Frames(d) = [k \in 1..K |-> F(k)]
      BY DEF Frames
    <3>2. K \in Nat
      BY <1>1
    <3> HIDE DEF K, F
    <3>3. n \in 1..K /\ Frames(d)[n] = F(n)
      BY <2>1, <3>1, <3>2
    <3> QED
      BY <2>1, <3>3 DEF F
  <2>3. 3 * n - 2 \in 1..(Len(d) + 1) /\ b \in 0..Len(d) /\ 3 * n - 2 <= b + 1
    BY <1>1, <2>2
  <2>4. Len(f) = b - (3 * n - 2) + 1 /\ \A i \in 1..(b - (3 * n - 2) + 1) : f[i] \in ToSet(d)
    BY <1>2, <2>2, <2>3
  <2> DEFINE m == f[1][1]
  <2> HIDE DEF f, b
  <2>5. Len(f) = 3 /\ f = [i \in 1..3 |-> <<m, i>>]
    BY <2>1 DEF ParsedFrame, Frame
  <2>6. \A i \in 1..3 : f[i] = <<m, i>> /\ f[i] \in ToSet(d)
    <3> HIDE DEF m
    <3> QED
      BY <2>4, <2>5
  <2> QED
    BY <2>1, <2>6 DEF f, m
<1> QED
  BY <1>3, <1>4

\* The invariant gives the order of what is imported.
LEMMA InOrder == IInv => ImportedInOrder
<1> SUFFICES ASSUME IInv, NEW e \in Entities
             PROVE  LET got == Imported(disk[e])
                    IN /\ ~failed[e] => /\ IsPrefix(got, Good(e))
                                        /\ Len(Items(disk[e])) <= Len(got) + 1
                       /\ \A n \in ToSet(got), i \in Needed : <<n, i>> \in ToSet(disk[e])
                       /\ format = "ndjson" =>
                            /\ ToSet(got) \subseteq ToSet(Good(e))
                            /\ \A i, j \in DOMAIN got : i < j => got[i] < got[j]
  BY DEF ImportedInOrder
<1> DEFINE d == disk[e]
           got == Imported(d)
<1>1. /\ d \in Seq(Parts) /\ Good(e) \in Seq(Nat \ {0}) /\ Sorted(emitted[e], d)
      /\ (~failed[e] => CutOf(d, Good(e))) /\ emitted[e] \in Seq(Events)
      /\ Counted(emitted[e])
  BY DiskCut, PlacesType DEF IInv, StreamInv
<1> HIDE DEF d
<1>2. ~failed[e] => IsPrefix(got, Good(e)) /\ Len(Items(d)) <= Len(got) + 1
  BY <1>1, ImportOfCut
<1>3. ASSUME format = "ndjson"
      PROVE  /\ ToSet(got) \subseteq ToSet(Good(e))
             /\ \A i, j \in DOMAIN got : i < j => got[i] < got[j]
  <2>1. Items(d) = Lines(d) /\ \A x : Parses(x) <=> ParsedLine(x)
    BY <1>3 DEF Items, Parses
  <2>2. Len(Lines(d)) \in Nat
    BY <1>1, LineFacts
  <2>3. PICK g \in 0..Len(Lines(d)) : /\ got = [i \in 1..g |-> Lines(d)[i][1][1]]
                                      /\ \A i \in 1..g : ParsedLine(Lines(d)[i])
    BY <2>1, <2>2, ImportedIs
  <2> HIDE DEF got
  <2>4. \A i \in 1..g : i \in 1..Len(Lines(d))
    BY <2>2
  <2>5. ASSUME NEW i \in 1..g PROVE got[i] \in ToSet(Good(e))
    <3>1. PartOf(emitted[e], Lines(d)[i][1])
      BY <1>1, <2>3, <2>4, LinesInOrder
    <3>2. Lines(d)[i][1][1] \in ToSet(Numbers(emitted[e]))
      BY <1>1, <3>1, NumbersHold
    <3> QED
      BY <2>3, <3>2 DEF Good
  <2>6. ASSUME NEW i \in 1..g, NEW j \in 1..g, i < j PROVE got[i] < got[j]
    <3>1. Lines(d)[i][1][1] < Lines(d)[j][1][1]
      BY <1>1, <2>3, <2>4, <2>6, LinesInOrder
    <3> QED
      BY <2>3, <3>1
  <2>7. DOMAIN got = 1..g
    BY <2>3
  <2> QED
    BY <2>5, <2>6, <2>7 DEF ToSet
<1>4. ASSUME NEW n \in ToSet(got), NEW i \in Needed PROVE <<n, i>> \in ToSet(d)
  <2>1. Len(Items(d)) \in Nat
    BY <1>1, ItemsCounted
  <2>2. PICK g \in 0..Len(Items(d)) : /\ got = [k \in 1..g |-> Items(d)[k][1][1]]
                                      /\ \A k \in 1..g : Parses(Items(d)[k])
    BY <2>1, ImportedIs
  <2> HIDE DEF got
  <2>3. PICK k \in 1..g : n = Items(d)[k][1][1]
    BY <1>4, <2>2 DEF ToSet
  <2>4. k \in 1..Len(Items(d)) /\ Parses(Items(d)[k])
    BY <2>1, <2>2
  <2> QED
    BY <1>1, <2>3, <2>4, ItemInFile
<1> QED
  BY <1>2, <1>3, <1>4 DEF d, got

\* The invariant gives that a drop flushes.
LEMMA Flushed == IInv => DropsFlush
<1> SUFFICES ASSUME IInv PROVE DropsFlush
  OBVIOUS
<1>1. ASSUME NEW e \in Entities, obs[e] = "dropped", ~failed[e]
      PROVE  Imported(disk[e]) = Good(e) /\ Len(Items(disk[e])) = Len(Good(e))
  <2> DEFINE d == disk[e]
  <2>1. /\ d \in Seq(Parts) /\ Good(e) \in Seq(Nat \ {0}) /\ CutOf(d, Good(e))
        /\ Len(d) = 3 * Len(Good(e))
    BY <1>1, DiskCut, PlacesType DEF IInv
  <2> HIDE DEF d
  <2>2. Imported(d) = Good(e) /\ Len(Items(d)) = Len(Good(e))
    BY <2>1, ImportOfCut
  <2> QED
    BY <2>2 DEF d
<1>2. ASSUME runtime = "down"
      PROVE  kind = "owned" /\ \A e \in Entities : fw[e] \in {"none", "done"}
  BY <1>2 DEF IInv, RuntimeInv, LifeInv
<1> QED
  BY <1>1, <1>2 DEF DropsFlush
-----------------------------------------------------------------------------
(* The inductive invariant. *)
THEOREM Invariance == Spec => []IInv
BY InitIInv, NextIInv, PTL DEF Spec

(* Whenever a file is read, while it is written, after a crash in the      *)
(* middle of an event, or complete, its importer returns what was emitted, *)
(* in order, from the first event and without a gap but for those that do  *)
(* not serialize, and nothing of an event of which the file has a part     *)
(* only; after a failed write, lines still come in order.                  *)
THEOREM ImportsInOrder == Spec => []ImportedInOrder
BY Invariance, InOrder, PTL

(* An observer's drop returns when everything emitted is in the file, and  *)
(* a runtime goes down only when no forwarder needs it, in whatever order  *)
(* the context and the handles are dropped. *)
THEOREM ContextFlushes == Spec => []DropsFlush
BY Invariance, Flushed, PTL
=============================================================================
