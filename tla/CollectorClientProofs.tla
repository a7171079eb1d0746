------------------------ MODULE CollectorClientProofs ------------------------
(***************************************************************************)
(* Theorems about CollectorClient for every number of events, of whatever  *)
(* sizes and whichever of them cannot be encoded, and every capacity,      *)
(* budget and limit.  The argument: where the sender task is tells where   *)
(* events can still be (SenderInv), how the RPC ended tells what the       *)
(* server has seen of them (RpcInv), and the exporter is past its pushes   *)
(* only when the token is cancelled (ExporterInv).  Then each step moves   *)
(* events one place further on their way (OnTheWay); once the way is       *)
(* broken the server still has the first of them, in order.                *)
(***************************************************************************)
EXTENDS CollectorClient, SequenceLemmas

(* A batch waits in the buffer only in "select" and "drain", a request in  *)
(* hand only where its send is awaited, and events in the channel only     *)
(* where they are still received. *)
SenderInv ==
  /\ sender \in {"select", "flush"} => open
  /\ sender \in {"drain", "lastFlush", "done"} => ~open
  /\ sender \notin {"flush", "lastFlush"} => held = <<>>
  /\ sender \notin {"select", "drain"} => buffer = <<>>
  /\ sender \in {"lastFlush", "done"} => queue = <<>>
  /\ sender = "none" => open /\ queue = <<>> /\ requests = <<>> /\ rpc = "none"

RpcInv ==
  /\ rpc = "none" => exporter \in {"connecting", "failed"}
  /\ rpc = "open" => serving
  /\ serving => rpc \in {"open", "broken"}
  /\ ~serving => ingesting = <<>>
  /\ rpc = "finished" => sender = "done" /\ requests = <<>>
  /\ ~receiving => rpc \in {"finished", "broken"} \/ exporter = "failed"

(* What a client that could not be built leaves behind has nothing to do.  *)
LeftBehind ==
  /\ rpc = "none" /\ ~cancelled /\ open
  /\ sender \in {"none", "select"} /\ queue = <<>> /\ buffer = <<>> /\ requests = <<>>

ExporterInv ==
  /\ exporter = "connecting" => sender = "none" /\ receiving
  /\ sender = "none" => exporter \in {"connecting", "failed"}
  /\ exporter = "failed" => LeftBehind
  /\ exporter \in {"connecting", "idle", "pushing"} => ~cancelled
  /\ ~open => cancelled \/ rpc = "broken"
  /\ exporter \in {"joinCollector", "done"} => sender = "done"
  /\ exporter = "done" => rpc \in {"finished", "broken"}
  /\ exporter = "pushing" => pushed > 0
  /\ exporter = "connecting" => tries < MaxRetries

(* The budget bounds a batch until the drain, in which batch and channel   *)
(* together stay within it but for a channelful. *)
DrainWithin(batch, q) == \E n \in 0..Len(batch) :
  Len(batch) - n + Len(q) <= EventCap /\ NumBytes(SubSeq(batch, 1, n)) < MaxBuffer

SizeInv ==
  /\ sender = "select" => NumBytes(buffer) < MaxBuffer
  /\ sender = "drain" => DrainWithin(buffer, queue)
  /\ sender = "flush" => Within(held, 1)
  /\ Within(held, EventCap)
  /\ \A i \in 1..Len(requests) : Within(requests[i], EventCap)

(* The acceptance history, cut at the batch. *)
Ahead == delivered \o ingesting \o FlattenSeq(requests) \o held

(* What the server has or may still get. *)
Got == IF serving THEN delivered \o ingesting \o FlattenSeq(requests) ELSE delivered

Begins(s, t) == \E rest \in Seq(Events) : t = Cat(s, rest)

OnTheWay == /\ Whole => accepted = Ahead \o buffer \o Encodable(queue)
            /\ Begins(Got, accepted)

IInv == TypeOK /\ SenderInv /\ RpcInv /\ ExporterInv /\ SizeInv /\ OnTheWay
-----------------------------------------------------------------------------
(* Sequences. *)

\* No event, nothing encodable.
LEMMA EncodableEmpty == Encodable(<<>>) = <<>>
<1> DEFINE f == [i \in 1..Len(<<>>) |-> IfEncodable(<<>>[i])]
<1>1. f \in Seq({}) /\ Len(f) = 0
  BY EmptySeq
<1>2. f = <<>>
  BY <1>1, EmptySeq
<1> QED
  BY <1>2, FlattenEmpty DEF Encodable

\* What is encodable of two sequences in a row, is that of each in a row.
LEMMA EncodableParts ==
  ASSUME NEW s \in Seq(Events)
  PROVE  /\ [i \in 1..Len(s) |-> IfEncodable(s[i])] \in Seq(Seq(Events))
         /\ Len([i \in 1..Len(s) |-> IfEncodable(s[i])]) = Len(s)
<1>1. Len(s) \in Nat /\ \A i \in 1..Len(s) : s[i] \in Events
  BY LenProperties, ElementOfSeq
<1>2. \A i \in 1..Len(s) : IfEncodable(s[i]) \in Seq(Events)
  BY <1>1, EmptySeq DEF IfEncodable
<1> QED
  BY <1>1, <1>2

\* What is encodable of events are events.
LEMMA EncodableType == ASSUME NEW s \in Seq(Events) PROVE Encodable(s) \in Seq(Events)
<1> DEFINE ss == [i \in 1..Len(s) |-> IfEncodable(s[i])]
<1>1. ss \in Seq(Seq(Events))
  BY EncodableParts
<1> HIDE DEF ss
<1>2. FlattenSeq(ss) \in Seq(Events)
  BY <1>1, FlattenAppend, EmptySeq
<1> QED
  BY <1>2 DEF Encodable, ss

(* An event that joins the queue is on its way if it can be encoded. *)
LEMMA EncodableAppend ==
  ASSUME NEW s \in Seq(Events), NEW e \in Events
  PROVE  Encodable(Append(s, e)) = Encodable(s) \o IfEncodable(e)
<1> DEFINE t == Append(s, e)
           ss == [i \in 1..Len(s) |-> IfEncodable(s[i])]
           tt == [i \in 1..Len(t) |-> IfEncodable(t[i])]
<1>1. /\ t \in Seq(Events) /\ Len(t) = Len(s) + 1 /\ Len(s) \in Nat
      /\ t[Len(s) + 1] = e /\ \A i \in 1..Len(s) : t[i] = s[i]
  BY AppendProperties, LenProperties
<1>2. ss \in Seq(Seq(Events)) /\ Len(ss) = Len(s)
  BY EncodableParts
<1>3. tt \in Seq(Seq(Events)) /\ Len(tt) = Len(t)
  BY <1>1, EncodableParts
<1>4. IfEncodable(e) \in Seq(Events)
  BY EmptySeq DEF IfEncodable
<1>5. Append(ss, IfEncodable(e)) = tt
  <2>1. /\ Append(ss, IfEncodable(e)) \in Seq(Seq(Events))
        /\ Len(Append(ss, IfEncodable(e))) = Len(s) + 1
        /\ Append(ss, IfEncodable(e))[Len(s) + 1] = IfEncodable(e)
        /\ \A i \in 1..Len(s) : Append(ss, IfEncodable(e))[i] = ss[i]
    BY <1>2, <1>4, AppendProperties
  <2>2. \A i \in 1..Len(s) : ss[i] = IfEncodable(s[i])
    OBVIOUS
  <2>3. \A i \in 1..(Len(s) + 1) : tt[i] = IfEncodable(t[i])
    BY <1>1
  <2> HIDE DEF ss, tt, t
  <2>4. \A i \in 1..(Len(s) + 1) : Append(ss, IfEncodable(e))[i] = tt[i]
    <3> SUFFICES ASSUME NEW i \in 1..(Len(s) + 1) PROVE Append(ss, IfEncodable(e))[i] = tt[i]
      OBVIOUS
    <3>1. CASE i \in 1..Len(s)
      BY <1>1, <2>1, <2>2, <2>3, <3>1
    <3>2. CASE i \notin 1..Len(s)
      <4>1. i = Len(s) + 1
        BY <1>1, <3>2
      <4> QED
        BY <1>1, <2>1, <2>3, <4>1
    <3> QED
      BY <3>1, <3>2
  <2> QED
    BY <1>1, <1>3, <2>1, <2>4, SeqEqual
<1> HIDE DEF ss, tt, t
<1>6. FlattenSeq(tt) = FlattenSeq(ss) \o IfEncodable(e)
  BY <1>2, <1>4, <1>5, FlattenAppend
<1> QED
  BY <1>6 DEF Encodable, ss, tt, t

(* The first event of the queue is the first on its way. *)
LEMMA EncodableHeadTail ==
  ASSUME NEW s \in Seq(Events), s # <<>>
  PROVE  /\ Encodable(s) = IfEncodable(Head(s)) \o Encodable(Tail(s))
         /\ Encodable(Tail(s)) \in Seq(Events)
<1> DEFINE t == Tail(s)
           ss == [i \in 1..Len(s) |-> IfEncodable(s[i])]
           tt == [i \in 1..Len(t) |-> IfEncodable(t[i])]
<1>1. /\ t \in Seq(Events) /\ Len(t) = Len(s) - 1 /\ Len(s) \in Nat \ {0} /\ Len(t) \in Nat
      /\ s[1] = Head(s) /\ \A i \in 1..Len(t) : t[i] = s[i+1]
  BY HeadTailProperties, LenProperties, EmptySeq
<1>2. ss \in Seq(Seq(Events)) /\ Len(ss) = Len(s)
  BY EncodableParts
<1>3. tt \in Seq(Seq(Events)) /\ Len(tt) = Len(t)
  BY <1>1, EncodableParts
<1>4. ss # <<>>
  BY <1>1, <1>2, EmptySeq
<1>5. Head(ss) = IfEncodable(Head(s))
  <2>1. Head(ss) = ss[1]
    BY <1>2, <1>4, HeadTailProperties
  <2>2. ss[1] = IfEncodable(s[1])
    BY <1>1
  <2> QED
    BY <1>1, <2>1, <2>2
<1>6. Tail(ss) = tt
  <2>1. /\ Tail(ss) \in Seq(Seq(Events)) /\ Len(Tail(ss)) = Len(t)
        /\ \A i \in 1..Len(t) : Tail(ss)[i] = ss[i+1]
    BY <1>1, <1>2, <1>4, HeadTailProperties
  <2>2. \A i \in 1..Len(t) : ss[i+1] = IfEncodable(s[i+1]) /\ tt[i] = IfEncodable(t[i])
    BY <1>1
  <2> HIDE DEF ss, tt, t
  <2>3. \A i \in 1..Len(t) : Tail(ss)[i] = tt[i]
    BY <1>1, <2>1, <2>2
  <2> QED
    BY <1>3, <2>1, <2>3, SeqEqual
<1> HIDE DEF ss, tt, t
<1>7. FlattenSeq(ss) = IfEncodable(Head(s)) \o FlattenSeq(tt)
  BY <1>2, <1>4, <1>5, <1>6, FlattenHeadTail
<1>8. Encodable(t) \in Seq(Events)
  BY <1>1, EncodableType
<1> QED
  BY <1>7, <1>8 DEF Encodable, ss, tt, t

(* The ways in which a step moves events on. *)

\* An event moved from the channel to the end of the batch stays at its place.
LEMMA MoveOne ==
  ASSUME NEW S, NEW a \in Seq(S), NEW b \in Seq(S), NEW e \in S, NEW q \in Seq(S)
  PROVE  Cat(Cat(a, b), Cat(<<e>>, q)) = Cat(Cat(a, Append(b, e)), q)
<1> DEFINE u == Cat(a, b)
           x == <<e>>
<1>1. x \in Seq(S) /\ Append(b, e) = Cat(b, x)
  BY ConcatProperties, AppendIsConcat DEF Cat
<1>2. u \in Seq(S)
  BY CatElements
<1> HIDE DEF x
<1>3. Cat(u, x) = Cat(a, Cat(b, x))
  BY <1>1, CatAssociative
<1> HIDE DEF u
<1>4. Cat(u, Cat(x, q)) = Cat(Cat(u, x), q)
  BY <1>1, <1>2, CatAssociative
<1> QED
  BY <1>1, <1>3, <1>4 DEF u, x

\* The same of the first event of a channel.
LEMMA MoveHead ==
  ASSUME NEW S, NEW a \in Seq(S), NEW b \in Seq(S), b # <<>>
  PROVE  Append(a, Head(b)) \o Tail(b) = a \o b
<1>1. Head(b) \in S /\ Tail(b) \in Seq(S) /\ <<Head(b)>> \in Seq(S)
  BY HeadTailProperties
<1>2. Append(a, Head(b)) = a \o <<Head(b)>>
  BY <1>1, AppendIsConcat
<1>3. (a \o <<Head(b)>>) \o Tail(b) = a \o (<<Head(b)>> \o Tail(b))
  BY <1>1, ConcatAssociative
<1>4. <<Head(b)>> \o Tail(b) = b
  BY <1>1, HeadTailProperties, ConcatProperties, SeqEqual
<1> QED
  BY <1>2, <1>3, <1>4

\* What begins a sequence begins every longer one, and has beginnings itself.
LEMMA BeginsParts ==
  ASSUME NEW s \in Seq(Events), NEW t \in Seq(Events), NEW u \in Seq(Events)
  PROVE  /\ Begins(s, Cat(s, u))
         /\ Begins(s, t) => Begins(s, Cat(t, u))
         /\ Begins(Cat(s, u), t) => Begins(s, t)
<1>1. Begins(s, Cat(s, u))
  BY DEF Begins
<1>2. ASSUME Begins(s, t) PROVE Begins(s, Cat(t, u))
  <2>1. PICK rest \in Seq(Events) : t = Cat(s, rest)
    BY <1>2 DEF Begins
  <2>2. Cat(t, u) = Cat(s, Cat(rest, u)) /\ Cat(rest, u) \in Seq(Events)
    BY <2>1, CatAssociative, CatElements
  <2> QED
    BY <2>2 DEF Begins
<1>3. ASSUME Begins(Cat(s, u), t) PROVE Begins(s, t)
  <2>1. PICK rest \in Seq(Events) : t = Cat(Cat(s, u), rest)
    BY <1>3 DEF Begins
  <2>2. t = Cat(s, Cat(u, rest)) /\ Cat(u, rest) \in Seq(Events)
    BY <2>1, CatAssociative, CatElements
  <2> QED
    BY <2>2 DEF Begins
<1> QED
  BY <1>1, <1>2, <1>3

\* A beginning is a prefix.
LEMMA BeginsPrefix ==
  ASSUME NEW s \in Seq(Events), NEW t \in Seq(Events), Begins(s, t)
  PROVE  IsPrefix(s, t) /\ \A i \in 1..Len(s) : i \in 1..Len(t) /\ t[i] = s[i]
<1>1. PICK rest \in Seq(Events) : t = Cat(s, rest)
  BY DEF Begins
<1>2. /\ Len(s) \in Nat /\ Len(t) \in Nat /\ Len(s) <= Len(t)
      /\ \A i \in 1..Len(s) : t[i] = s[i]
  <2>1. /\ Len(s) \in Nat /\ Len(rest) \in Nat /\ Len(t) = Len(s) + Len(rest)
        /\ \A i \in 1..Len(s) : t[i] = s[i]
    <3>1. Joins(Cat(s, rest), s, rest, Events)
      BY CatJoins
    <3>2. Joins(t, s, rest, Events)
      BY <1>1, <3>1
    <3> QED
      BY <3>2 DEF Joins
  <2> QED
    BY <2>1
<1> DEFINE a == SubSeq(s, 1, Len(s))
           b == SubSeq(t, 1, Len(s))
<1>3. /\ a \in Seq(Events) /\ Len(a) = Len(s) - 1 + 1
      /\ \A i \in 1..(Len(s) - 1 + 1) : a[i] = s[1 + i - 1]
  BY <1>2, Slice
<1>4. /\ b \in Seq(Events) /\ Len(b) = Len(s) - 1 + 1
      /\ \A i \in 1..(Len(s) - 1 + 1) : b[i] = t[1 + i - 1]
  BY <1>2, Slice
<1> HIDE DEF a, b
<1>5. \A i \in 1..Len(a) : a[i] = b[i]
  BY <1>2, <1>3, <1>4
<1>6. a = b
  BY <1>2, <1>3, <1>4, <1>5, SeqEqual
<1> QED
  BY <1>2, <1>6 DEF IsPrefix, a, b

\* Flattening two sequences in a row.
LEMMA FlattenCat ==
  ASSUME NEW S, NEW ss \in Seq(Seq(S)), NEW tt \in Seq(Seq(S))
  PROVE  FlattenSeq(Cat(ss, tt)) = Cat(FlattenSeq(ss), FlattenSeq(tt))
<1> DEFINE f == [x \in Seq(S) |-> x]
<1>1. Maps(f, Seq(S), S) /\ f \in [Seq(S) -> Seq(S)]
  BY DEF Maps
<1>2. ASSUME NEW uu \in Seq(Seq(S)) PROVE FlatMap(f, uu) = FlattenSeq(uu)
  <2> DEFINE vv == [i \in 1..Len(uu) |-> f[uu[i]]]
  <2>1. vv \in Seq(Seq(S)) /\ Len(vv) = Len(uu)
    BY <1>1, FlatMapParts
  <2>2. \A i \in 1..Len(uu) : vv[i] = uu[i]
    BY ElementOfSeq
  <2> HIDE DEF vv
  <2>3. vv = uu
    BY <2>1, <2>2, SeqEqual
  <2> QED
    BY <2>3 DEF FlatMap, vv
<1> HIDE DEF f
<1>3. FlatMap(f, Cat(ss, tt)) = Cat(FlatMap(f, ss), FlatMap(f, tt))
  BY <1>1, FlatMapConcat
<1>4. Cat(ss, tt) \in Seq(Seq(S))
  BY CatElements
<1> QED
  BY <1>2, <1>3, <1>4
-----------------------------------------------------------------------------
(* Bytes. *)

\* The bytes of a batch are a natural number; of no event there are none.
LEMMA BytesType ==
  ASSUME NEW b \in Seq(Events)
  PROVE  NumBytes(b) \in Nat /\ NumBytes(<<>>) = 0
<1> DEFINE w(c) == [i \in DOMAIN c |-> Size[c[i]]]
<1>1. ASSUME NEW c \in Seq(Events)
      PROVE  NumBytes(c) = SumOf(w(c), 1..Len(c)) /\ IsFiniteSet(1..Len(c)) /\ Weighs(w(c), 1..Len(c))
  <2>1. DOMAIN c = 1..Len(c) /\ Len(c) \in Nat /\ \A i \in 1..Len(c) : c[i] \in Events
    BY LenProperties, ElementOfSeq
  <2>2. Weighs(w(c), 1..Len(c))
    BY <2>1, ClientAssumption DEF Weighs, Events
  <2>3. IsFiniteSet(1..Len(c))
    BY <2>1, FS_Interval
  <2> QED
    BY <2>1, <2>2, <2>3 DEF NumBytes, SumFunction, SumOf
<1>2. <<>> \in Seq(Events) /\ 1..Len(<<>>) = {}
  BY EmptySeq
<1> HIDE DEF w
<1>3. NumBytes(b) \in Nat
  BY <1>1, SumType
<1>4. NumBytes(<<>>) = SumOf(w(<<>>), {})
  BY <1>1, <1>2
<1>5. SumOf(w(<<>>), {}) = 0
  BY <1>1, <1>2, SumType
<1> QED
  BY <1>3, <1>4, <1>5

\* All of a batch is its longest beginning; one more event changes no beginning.
LEMMA Fronts ==
  ASSUME NEW b \in Seq(Events)
  PROVE  /\ SubSeq(b, 1, Len(b)) = b
         /\ \A e \in Events, n \in 0..Len(b) : SubSeq(Append(b, e), 1, n) = SubSeq(b, 1, n)
<1>1. Len(b) \in Nat
  BY LenProperties
<1>2. ASSUME NEW c \in Seq(Events), NEW n \in 0..Len(b), n <= Len(c), Len(c) \in Nat
      PROVE  /\ SubSeq(c, 1, n) \in Seq(Events) /\ Len(SubSeq(c, 1, n)) = n
             /\ \A i \in 1..n : SubSeq(c, 1, n)[i] = c[i]
  <2>1. 1 \in 1..(Len(c) + 1) /\ n \in 0..Len(c) /\ 1 <= n + 1 /\ n - 1 + 1 = n
    BY <1>1, <1>2
  <2>2. /\ SubSeq(c, 1, n) \in Seq(Events) /\ Len(SubSeq(c, 1, n)) = n - 1 + 1
        /\ \A i \in 1..(n - 1 + 1) : SubSeq(c, 1, n)[i] = c[1 + i - 1]
    BY <2>1, Slice
  <2>3. \A i \in 1..n : 1 + i - 1 = i
    BY <2>1
  <2> QED
    BY <2>1, <2>2, <2>3
<1>3. SubSeq(b, 1, Len(b)) = b
  <2> DEFINE c == SubSeq(b, 1, Len(b))
  <2>1. c \in Seq(Events) /\ Len(c) = Len(b) /\ \A i \in 1..Len(b) : c[i] = b[i]
    BY <1>1, <1>2
  <2> HIDE DEF c
  <2>2. c = b
    BY <2>1, SeqEqual
  <2> QED
    BY <2>2 DEF c
<1>4. ASSUME NEW e \in Events, NEW n \in 0..Len(b)
      PROVE  SubSeq(Append(b, e), 1, n) = SubSeq(b, 1, n)
  <2>0. /\ Append(b, e) \in Seq(Events) /\ Len(Append(b, e)) = Len(b) + 1
        /\ \A i \in 1..Len(b) : Append(b, e)[i] = b[i]
    BY AppendProperties
  <2> DEFINE c == SubSeq(b, 1, n)
             d == SubSeq(Append(b, e), 1, n)
  <2>1. c \in Seq(Events) /\ Len(c) = n /\ \A i \in 1..n : c[i] = b[i]
    BY <1>1, <1>2
  <2>2. d \in Seq(Events) /\ Len(d) = n /\ \A i \in 1..n : d[i] = Append(b, e)[i]
    BY <1>1, <1>2, <2>0
  <2> HIDE DEF c, d
  <2>3. \A i \in 1..n : c[i] = d[i]
    BY <1>1, <2>0, <2>1, <2>2
  <2>4. c = d
    BY <2>1, <2>2, <2>3, SeqEqual
  <2> QED
    BY <2>4 DEF c, d
<1> QED
  BY <1>3, <1>4

\* A batch below the budget, alone, with one event more, and when the drain begins.
LEMMA BelowBudget ==
  ASSUME NEW b \in Seq(Events), NumBytes(b) < MaxBuffer
  PROVE  /\ \A k \in Nat : Within(b, k)
         /\ \A e \in Events : Within(Append(b, e), 1)
         /\ \A q \in Seq(Events) : Len(q) <= EventCap => DrainWithin(b, q)
<1>1. Len(b) \in Nat /\ Len(b) \in 0..Len(b) /\ Len(b) - Len(b) = 0
  BY LenProperties
<1>2. NumBytes(SubSeq(b, 1, Len(b))) < MaxBuffer
  BY Fronts
<1>3. ASSUME NEW k \in Nat PROVE Within(b, k)
  BY <1>1, <1>2 DEF Within
<1>4. ASSUME NEW e \in Events PROVE Within(Append(b, e), 1)
  <2>1. Len(Append(b, e)) = Len(b) + 1
    BY AppendProperties
  <2>2. Len(b) \in 0..Len(Append(b, e)) /\ Len(Append(b, e)) - Len(b) <= 1
    BY <1>1, <2>1
  <2>3. SubSeq(Append(b, e), 1, Len(b)) = b
    BY <1>1, Fronts
  <2> QED
    BY <2>2, <2>3 DEF Within
<1>5. ASSUME NEW q \in Seq(Events), Len(q) <= EventCap PROVE DrainWithin(b, q)
  <2>1. Len(q) \in Nat /\ Len(b) - Len(b) + Len(q) <= EventCap
    BY <1>1, <1>5, LenProperties
  <2> QED
    BY <1>1, <1>2, <2>1 DEF DrainWithin
<1> QED
  BY <1>3, <1>4, <1>5

\* What the drain takes from the channel, it may add to the batch.
LEMMA DrainBudget ==
  ASSUME NEW b \in Seq(Events), NEW q \in Seq(Events), DrainWithin(b, q)
  PROVE  /\ Within(b, EventCap)
         /\ q # <<>> => /\ DrainWithin(b, Tail(q))
                        /\ \A e \in Events : DrainWithin(Append(b, e), Tail(q))
<1>1. PICK n \in 0..Len(b) : Len(b) - n + Len(q) <= EventCap /\ NumBytes(SubSeq(b, 1, n)) < MaxBuffer
  BY DEF DrainWithin
<1>2. Len(b) \in Nat /\ Len(q) \in Nat /\ n \in Nat /\ EventCap \in Nat
  BY LenProperties, ClientAssumption
<1>3. Within(b, EventCap)
  <2>1. Len(b) - n <= EventCap
    BY <1>1, <1>2
  <2> QED
    BY <1>1, <2>1 DEF Within
<1>4. ASSUME q # <<>>
      PROVE  /\ DrainWithin(b, Tail(q))
             /\ \A e \in Events : DrainWithin(Append(b, e), Tail(q))
  <2>1. Len(Tail(q)) = Len(q) - 1
    BY <1>4, HeadTailProperties
  <2>2. DrainWithin(b, Tail(q))
    <3>1. Len(b) - n + Len(Tail(q)) <= EventCap
      BY <1>1, <1>2, <2>1
    <3> QED
      BY <1>1, <3>1 DEF DrainWithin
  <2>3. ASSUME NEW e \in Events PROVE DrainWithin(Append(b, e), Tail(q))
    <3>1. Len(Append(b, e)) = Len(b) + 1
      BY AppendProperties
    <3>2. /\ n \in 0..Len(Append(b, e))
          /\ Len(Append(b, e)) - n + Len(Tail(q)) <= EventCap
      <4> DEFINE x == Len(Append(b, e))
                 y == Len(Tail(q))
                 l == Len(b)
                 k == Len(q)
      <4>1. x = l + 1 /\ y = k - 1 /\ l \in Nat /\ k \in Nat /\ n \in 0..l /\ l - n + k <= EventCap
        BY <1>1, <1>2, <2>1, <3>1
      <4> HIDE DEF x, y, l, k
      <4>2. n \in 0..x /\ x - n + y <= EventCap
        BY <1>2, <4>1
      <4> QED
        BY <4>2 DEF x, y
    <3>3. SubSeq(Append(b, e), 1, n) = SubSeq(b, 1, n)
      BY Fronts
    <3> QED
      BY <1>1, <3>2, <3>3 DEF DrainWithin
  <2> QED
    BY <2>2, <2>3
<1> QED
  BY <1>3, <1>4
-----------------------------------------------------------------------------
(* The invariant. *)

\* The capacities are positive.
LEMMA Caps ==
  /\ MaxRetries \in Nat /\ EventCap \in Nat /\ GrpcCap \in Nat /\ MaxBuffer \in Nat
  /\ MaxRetries > 0 /\ EventCap > 0 /\ GrpcCap > 0 /\ MaxBuffer > 0 /\ MaxEvents \in Nat
BY ClientAssumption

\* The invariant holds at first.
LEMMA InitIInv == Init => IInv
<1> SUFFICES ASSUME Init PROVE IInv
  OBVIOUS
<1> USE DEF Init
<1>1. Len(<<>>) = 0 /\ <<>> \in Seq(Events) /\ <<>> \in Seq(Seq(Events))
  BY EmptySeq
<1>2. TypeOK
  <2>1. /\ Len(queue) = 0 /\ Len(buffer) = 0 /\ Len(requests) = 0
        /\ queue \in Seq(Events) /\ buffer \in Seq(Events) /\ requests \in Seq(Seq(Events))
        /\ accepted \in Seq(Events) /\ held \in Seq(Events)
        /\ ingesting \in Seq(Events) /\ delivered \in Seq(Events)
    BY <1>1
  <2>2. 0 <= EventCap /\ 0 <= GrpcCap
        /\ 0 \in 0..MaxRetries /\ 0 \in 0..MaxEvents
    BY Caps
  <2> QED
    BY <2>1, <2>2 DEF TypeOK, ExporterPcs, SenderPcs, RpcStates
<1>3. SenderInv /\ RpcInv
  BY DEF SenderInv, RpcInv
<1>4. ExporterInv
  BY Caps DEF ExporterInv
<1>5. SizeInv
  <2>1. NumBytes(<<>>) < MaxBuffer
    BY <1>1, BytesType, Caps
  <2>2. Within(<<>>, EventCap)
    BY <1>1, <2>1, BelowBudget, Caps
  <2> QED
    BY <1>1, <2>2 DEF SizeInv
<1>6. OnTheWay
  <2>1. accepted = Ahead \o buffer \o Encodable(queue)
    BY <1>1, FlattenEmpty, EncodableEmpty, ConcatEmptySeq DEF Ahead
  <2>2. Cat(<<>>, <<>>) = <<>>
    BY <1>1, CatEmpty
  <2> QED
    BY <1>1, <2>1, <2>2 DEF OnTheWay, Got, Begins
<1> QED
  BY <1>2, <1>3, <1>4, <1>5, <1>6 DEF IInv

(* What a step reads off a channel, and what it puts there, keeps its type. *)
LEMMA HeadTail ==
  ASSUME NEW S, NEW s \in Seq(S), s # <<>>
  PROVE  /\ Head(s) \in S /\ Tail(s) \in Seq(S) /\ Len(Tail(s)) = Len(s) - 1
         /\ Len(s) \in Nat \ {0} /\ Head(s) = s[1]
         /\ \A i \in 1..Len(Tail(s)) : i + 1 \in 1..Len(s) /\ Tail(s)[i] = s[i+1]
<1>1. Head(s) \in S /\ Tail(s) \in Seq(S) /\ Len(Tail(s)) = Len(s) - 1 /\ Head(s) = s[1]
      /\ \A i \in 1..Len(Tail(s)) : Tail(s)[i] = s[i+1]
  BY HeadTailProperties
<1>2. Len(s) \in Nat \ {0}
  BY EmptySeq
<1> QED
  BY <1>1, <1>2

\* Every step keeps TypeOK.
LEMMA TypeStep == IInv /\ [Next]_vars => TypeOK'
<1> SUFFICES ASSUME IInv, [Next]_vars PROVE TypeOK'
  OBVIOUS
<1> USE Caps DEF TypeOK, exporterVars, eventVars, senderVars, rpcVars, serverVars
<1>1. TypeOK /\ SenderInv /\ RpcInv /\ ExporterInv /\ SizeInv
  BY DEF IInv
<1>2. /\ Len(queue) \in Nat /\ Len(buffer) \in Nat /\ Len(requests) \in Nat
      /\ <<>> \in Seq(Events) /\ Len(<<>>) = 0 /\ <<>> \in Seq(Seq(Events))
  BY <1>1, LenProperties, EmptySeq
<1>3. CASE Connect
  <2>1. tries < MaxRetries
    BY <1>1, <1>3 DEF Connect, ExporterInv
  <2>2. tries' = tries + 1 /\ tries' \in 0..MaxRetries
    BY <1>1, <1>3, <2>1 DEF Connect
  <2>3. exporter' \in ExporterPcs /\ sender' \in SenderPcs /\ rpc' \in RpcStates
        /\ receiving' \in BOOLEAN /\ serving' \in BOOLEAN
    BY <1>1, <1>3 DEF Connect, ExporterPcs, SenderPcs, RpcStates
  <2> QED
    BY <1>1, <1>3, <2>2, <2>3 DEF Connect
<1>4. CASE StartPush
  BY <1>1, <1>4 DEF StartPush, ExporterPcs
<1>5. CASE EndPush
  <2>1. exporter' \in ExporterPcs
    BY <1>5 DEF EndPush, ExporterPcs
  <2>2. pushed \in Events
    BY <1>1, <1>5 DEF EndPush, ExporterInv, Events
  <2>3. CASE open
    <3>1. /\ Append(queue, pushed) \in Seq(Events) /\ Len(Append(queue, pushed)) = Len(queue) + 1
          /\ Append(accepted, pushed) \in Seq(Events)
      BY <1>1, <2>2, AppendProperties
    <3>2. /\ Len(queue) < EventCap /\ queue' = Append(queue, pushed)
          /\ accepted' = accepted \/ accepted' = Append(accepted, pushed)
      BY <1>5, <2>3 DEF EndPush
    <3>3. queue' \in Seq(Events) /\ Len(queue') <= EventCap
      <4>1. Len(queue) + 1 <= EventCap
        BY <1>2, <3>2
      <4> QED
        BY <3>1, <3>2, <4>1
    <3>4. accepted' \in Seq(Events)
      BY <1>1, <3>1, <3>2
    <3> QED
      BY <1>1, <1>5, <2>1, <3>3, <3>4 DEF EndPush
  <2>4. CASE ~open
    BY <1>1, <1>5, <2>1, <2>4 DEF EndPush
  <2> QED
    BY <2>3, <2>4
<1>6. CASE StartShutdown \/ JoinSender \/ JoinCollector \/ DropClient
  BY <1>1, <1>6 DEF StartShutdown, JoinSender, JoinCollector, DropClient, ExporterPcs
<1>7. ASSUME queue # <<>> PROVE Head(queue) \in Events /\ Tail(queue) \in Seq(Events)
                                /\ Len(Tail(queue)) = Len(queue) - 1
  BY <1>1, <1>7, HeadTail
<1>8. ASSUME queue # <<>>
      PROVE  Append(buffer, Head(queue)) \in Seq(Events)
             /\ Len(Append(buffer, Head(queue))) = Len(buffer) + 1
  BY <1>1, <1>7, <1>8, AppendProperties
<1>9. CASE RecvEvent
  <2>1. queue' = Tail(queue) /\ queue' \in Seq(Events) /\ Len(queue') <= EventCap
    BY <1>1, <1>2, <1>7, <1>9 DEF RecvEvent
  <2>3. sender' \in SenderPcs /\ held' \in Seq(Events) /\ buffer' \in Seq(Events)
    <3>1. CASE Head(queue) \in Unencodable
      BY <1>1, <1>9, <3>1 DEF RecvEvent
    <3>2. CASE Head(queue) \notin Unencodable
      <4> DEFINE batch == Append(buffer, Head(queue))
      <4>1. batch \in Seq(Events) /\ AddToBatch(Head(queue))
        BY <1>8, <1>9, <3>2 DEF RecvEvent
      <4>2. \/ held' = batch /\ buffer' = <<>> /\ sender' = "flush"
            \/ buffer' = batch /\ held' = held /\ sender' = sender
        BY <4>1 DEF AddToBatch, Flush
      <4> HIDE DEF batch
      <4> QED
        BY <1>1, <1>2, <4>1, <4>2 DEF SenderPcs
    <3> QED
      BY <3>1, <3>2
  <2> QED
    BY <1>1, <1>9, <2>1, <2>3 DEF RecvEvent
<1>10. CASE Tick
  BY <1>1, <1>2, <1>10 DEF Tick, Flush, SenderPcs
<1>11. CASE ObserveCancel
  BY <1>1, <1>11 DEF ObserveCancel, SenderPcs
<1>12. CASE DrainEvent
  <2>1. queue' \in Seq(Events) /\ Len(queue') <= EventCap
    BY <1>1, <1>2, <1>7, <1>12 DEF DrainEvent
  <2>4. buffer' \in Seq(Events)
    BY <1>1, <1>8, <1>12 DEF DrainEvent
  <2> QED
    BY <1>1, <1>12, <2>1, <2>4 DEF DrainEvent
<1>13. CASE DrainEnds
  <2>1. CASE buffer = <<>>
    BY <1>1, <1>13, <2>1 DEF DrainEnds, SenderPcs
  <2>2. CASE buffer # <<>>
    BY <1>1, <1>2, <1>13, <2>2 DEF DrainEnds, Flush, SenderPcs
  <2> QED
    BY <2>1, <2>2
<1>14. CASE SendRequest
  <2>1. Append(requests, held) \in Seq(Seq(Events)) /\ Len(Append(requests, held)) = Len(requests) + 1
    BY <1>1, AppendProperties
  <2>2. requests' \in Seq(Seq(Events)) /\ Len(requests') <= GrpcCap
    BY <1>2, <1>14, <2>1 DEF SendRequest
  <2> QED
    BY <1>1, <1>2, <1>14, <2>2 DEF SendRequest, AfterFlush, SenderPcs
<1>15. CASE SendFails
  <2>1. held' \in Seq(Events) /\ queue' \in Seq(Events) /\ Len(queue') = 0
    BY <1>2, <1>15 DEF SendFails
  <2> QED
    <3>1. /\ UNCHANGED <<exporterVars, accepted, cancelled, buffer, requests, rpcVars, serverVars>>
          /\ open' \in BOOLEAN /\ sender' \in SenderPcs
      BY <1>15 DEF SendFails, SenderPcs
    <3>2. Len(queue') <= EventCap
      BY <2>1
    <3> QED
      BY <1>1, <2>1, <3>1, <3>2
<1>16. CASE ServerReads
  <2>1. Head(requests) \in Seq(Events) /\ Tail(requests) \in Seq(Seq(Events))
        /\ Len(Tail(requests)) = Len(requests) - 1
    BY <1>1, <1>16, HeadTail DEF ServerReads
  <2> QED
    BY <1>1, <1>2, <1>16, <2>1 DEF ServerReads
<1>17. CASE ServerIngests
  <2>1. Head(ingesting) \in Events /\ Tail(ingesting) \in Seq(Events)
    BY <1>1, <1>17, HeadTail DEF ServerIngests
  <2>2. Append(delivered, Head(ingesting)) \in Seq(Events)
    BY <1>1, <2>1, AppendProperties
  <2> QED
    BY <1>1, <1>17, <2>1, <2>2 DEF ServerIngests
<1>18. CASE ServerRejects \/ ServerGivesUp \/ ServerFinishes
  BY <1>1, <1>2, <1>18 DEF ServerRejects, ServerGivesUp, ServerFinishes, ServerEnds, RpcStates
<1>19. CASE StreamDropped
  <2>1. PICK n \in 0..Len(requests) : requests' = SubSeq(requests, 1, n)
    BY <1>19 DEF StreamDropped
  <2>2. requests' \in Seq(Seq(Events)) /\ Len(requests') <= Len(requests) /\ Len(requests') \in Nat
    BY <1>1, <1>2, <2>1, CatSplit
  <2> QED
    <3>1. /\ UNCHANGED <<exporterVars, eventVars, cancelled, senderVars, rpc, serverVars>>
          /\ receiving' \in BOOLEAN
      BY <1>19 DEF StreamDropped
    <3>2. Len(requests') <= GrpcCap
      BY <1>1, <1>2, <2>2
    <3> QED
      BY <1>1, <2>2, <3>1, <3>2
<1>21. CASE ConnectionLost
  BY <1>1, <1>21 DEF ConnectionLost, RpcStates
<1>20. CASE UNCHANGED vars
  BY <1>1, <1>20 DEF vars
<1> HIDE DEF TypeOK
<1> QED
  BY <1>3, <1>4, <1>5, <1>6, <1>9, <1>10, <1>11, <1>12, <1>13, <1>14, <1>15, <1>16,
     <1>17, <1>18, <1>19, <1>20, <1>21 DEF Next, ExporterTask, SenderTask, Server

(* The steps of the exporter and of the server leave the sender alone. *)
LEMMA SenderStep == IInv /\ [Next]_vars => SenderInv'
<1> SUFFICES ASSUME IInv, [Next]_vars PROVE SenderInv'
  OBVIOUS
<1> USE DEF SenderInv, exporterVars, eventVars, senderVars, rpcVars, serverVars
<1>1. SenderInv /\ RpcInv /\ ExporterInv /\ sender \in SenderPcs
  BY DEF IInv, TypeOK
<1>2. CASE Connect
  <2>1. sender = "none"
    BY <1>1, <1>2 DEF Connect, ExporterInv
  <2> QED
    BY <1>1, <1>2, <2>1 DEF Connect
<1>3. CASE StartPush \/ StartShutdown \/ JoinSender \/ JoinCollector \/ DropClient
  BY <1>1, <1>3 DEF StartPush, StartShutdown, JoinSender, JoinCollector, DropClient
<1>4. CASE EndPush
  <2>1. sender # "none"
    BY <1>1, <1>4 DEF EndPush, ExporterInv
  <2> QED
    BY <1>1, <1>4, <2>1 DEF EndPush
<1>5. CASE RecvEvent
  BY <1>1, <1>5 DEF RecvEvent, AddToBatch, Flush
<1>6. CASE Tick
  BY <1>1, <1>6 DEF Tick, Flush
<1>7. CASE ObserveCancel
  BY <1>1, <1>7 DEF ObserveCancel
<1>8. CASE DrainEvent
  BY <1>1, <1>8 DEF DrainEvent
<1>9. CASE DrainEnds
  BY <1>1, <1>9 DEF DrainEnds, Flush
<1>10. CASE SendRequest
  BY <1>1, <1>10 DEF SendRequest, AfterFlush
<1>11. CASE SendFails
  BY <1>1, <1>11 DEF SendFails
<1>12. CASE ServerReads
  BY <1>1, <1>12 DEF ServerReads
<1>13. CASE ServerIngests
  BY <1>1, <1>13 DEF ServerIngests
<1>14. CASE ServerRejects \/ ServerGivesUp \/ ServerFinishes
  BY <1>1, <1>14 DEF ServerRejects, ServerGivesUp, ServerFinishes, ServerEnds, RpcInv
<1>15. CASE StreamDropped \/ ConnectionLost
  BY <1>1, <1>15 DEF StreamDropped, ConnectionLost
<1>16. CASE UNCHANGED vars
  BY <1>1, <1>16 DEF vars
<1> HIDE DEF SenderInv
<1> QED
  BY <1>2, <1>3, <1>4, <1>5, <1>6, <1>7, <1>8, <1>9, <1>10, <1>11, <1>12, <1>13, <1>14,
     <1>15, <1>16 DEF Next, ExporterTask, SenderTask, Server

\* Every step keeps RpcInv.
LEMMA RpcStep == IInv /\ [Next]_vars => RpcInv'
<1> SUFFICES ASSUME IInv, [Next]_vars PROVE RpcInv'
  OBVIOUS
<1> USE DEF RpcInv, exporterVars, eventVars, senderVars, rpcVars, serverVars
<1>1. SenderInv /\ RpcInv /\ ExporterInv
  BY DEF IInv
<1>2. CASE Connect
  <2>1. sender = "none" /\ rpc = "none" /\ receiving /\ ingesting = <<>> /\ ~serving
    BY <1>1, <1>2 DEF Connect, ExporterInv, SenderInv
  <2> QED
    <3>1. UNCHANGED <<ingesting, requests>> /\ exporter = "connecting"
      BY <1>2 DEF Connect
    <3>2. CASE rpc' = "open" /\ serving' = TRUE /\ receiving' = receiving
      <4>1. ingesting' = <<>> /\ receiving'
        BY <2>1, <3>1, <3>2
      <4> QED
        BY <3>2, <4>1
    <3>3. CASE rpc' = rpc /\ serving' = serving /\ exporter' = "failed"
      <4>1. ingesting' = <<>> /\ ~serving' /\ rpc' = "none"
        BY <2>1, <3>1, <3>3
      <4> QED
        BY <3>3, <4>1
    <3>4. CASE /\ rpc' = rpc /\ serving' = serving /\ receiving' = receiving
               /\ exporter' \in {"connecting", "failed"}
      <4>1. ingesting' = <<>> /\ ~serving' /\ rpc' = "none" /\ receiving'
        BY <2>1, <3>1, <3>4
      <4> QED
        BY <3>4, <4>1
    <3> QED
      BY <1>2, <3>1, <3>2, <3>3, <3>4 DEF Connect
<1>3. CASE StartPush \/ EndPush \/ StartShutdown \/ JoinSender \/ JoinCollector \/ DropClient
  BY <1>1, <1>3 DEF StartPush, EndPush, StartShutdown, JoinSender, JoinCollector, DropClient
<1>4. CASE RecvEvent
  BY <1>1, <1>4 DEF RecvEvent
<1>5. CASE Tick \/ ObserveCancel \/ DrainEvent
  BY <1>1, <1>5 DEF Tick, ObserveCancel, DrainEvent
<1>6. CASE DrainEnds
  BY <1>1, <1>6 DEF DrainEnds
<1>7. CASE SendRequest
  BY <1>1, <1>7 DEF SendRequest
<1>8. CASE SendFails
  BY <1>1, <1>8 DEF SendFails
<1>9. CASE ServerReads
  BY <1>1, <1>9 DEF ServerReads
<1>10. CASE ServerIngests
  BY <1>1, <1>10 DEF ServerIngests
<1>11. CASE ServerRejects \/ ServerGivesUp \/ ServerFinishes
  BY <1>1, <1>11 DEF ServerRejects, ServerGivesUp, ServerFinishes, ServerEnds
<1>12. CASE StreamDropped
  <2>1. requests = <<>> => requests' = <<>>
    <3>1. PICK n \in 0..Len(requests) : requests' = SubSeq(requests, 1, n)
      BY <1>12 DEF StreamDropped
    <3>2. requests \in Seq(Seq(Events)) /\ Len(requests') = n
      BY <3>1, CatSplit DEF IInv, TypeOK
    <3>3. requests' \in Seq(Seq(Events))
      BY <3>1, <3>2, CatSplit
    <3> QED
      BY <3>1, <3>2, <3>3, EmptySeq
  <2> QED
    BY <1>1, <1>12, <2>1 DEF StreamDropped
<1>14. CASE ConnectionLost
  BY <1>1, <1>14 DEF ConnectionLost
<1>13. CASE UNCHANGED vars
  BY <1>1, <1>13 DEF vars
<1> HIDE DEF RpcInv
<1> QED
  BY <1>2, <1>3, <1>4, <1>5, <1>6, <1>7, <1>8, <1>9, <1>10, <1>11, <1>12, <1>13, <1>14
     DEF Next, ExporterTask, SenderTask, Server

\* Every step keeps ExporterInv.
LEMMA ExporterStep == IInv /\ [Next]_vars => ExporterInv'
<1> SUFFICES ASSUME IInv, [Next]_vars PROVE ExporterInv'
  OBVIOUS
<1> USE Caps DEF ExporterInv, LeftBehind, exporterVars, eventVars, senderVars, rpcVars, serverVars
<1>1. SenderInv /\ RpcInv /\ ExporterInv /\ sender \in SenderPcs
  BY DEF IInv, TypeOK
<1>2. pushed \in Nat /\ tries \in 0..MaxRetries
  BY DEF IInv, TypeOK
<1>3. CASE Connect
  <2>1. /\ sender = "none" /\ open' /\ ~cancelled' /\ tries' = tries + 1 /\ tries < MaxRetries
        /\ receiving /\ rpc = "none" /\ queue' = <<>> /\ buffer' = <<>> /\ requests' = <<>>
    BY <1>1, <1>3 DEF Connect, SenderInv
  <2>2. tries' # MaxRetries => tries' < MaxRetries
    BY <1>2, <2>1
  <2> QED
    BY <1>1, <1>3, <2>1, <2>2 DEF Connect
<1>4. CASE StartPush
  BY <1>1, <1>2, <1>4 DEF StartPush
<1>5. CASE EndPush
  BY <1>1, <1>5 DEF EndPush
<1>6. CASE StartShutdown
  BY <1>1, <1>6 DEF StartShutdown
<1>7. CASE JoinSender \/ JoinCollector \/ DropClient
  BY <1>1, <1>7 DEF JoinSender, JoinCollector, DropClient
<1>8. CASE RecvEvent
  BY <1>1, <1>8 DEF RecvEvent, AddToBatch, Flush
<1>9. CASE Tick \/ ObserveCancel \/ DrainEvent
  BY <1>1, <1>9 DEF Tick, Flush, ObserveCancel, DrainEvent
<1>10. CASE DrainEnds
  BY <1>1, <1>10 DEF DrainEnds, Flush
<1>11. CASE SendRequest
  BY <1>1, <1>11 DEF SendRequest, AfterFlush
<1>12. CASE SendFails
  <2>1. rpc = "broken"
    BY <1>1, <1>12 DEF SendFails, RpcInv
  <2> QED
    BY <1>1, <1>12, <2>1 DEF SendFails
<1>13. CASE ServerReads \/ ServerIngests
  BY <1>1, <1>13 DEF ServerReads, ServerIngests, RpcInv
<1>14. CASE ServerRejects \/ ServerGivesUp \/ ServerFinishes
  <2>1. /\ serving /\ rpc \in {"open", "broken"} /\ (rpc = "broken" => rpc' = "broken")
        /\ rpc' \in {"finished", "broken"}
        /\ UNCHANGED <<exporter, tries, pushed, open, cancelled, sender, receiving>>
    BY <1>1, <1>14 DEF ServerRejects, ServerGivesUp, ServerFinishes, ServerEnds, RpcInv
  <2>2. exporter # "failed" /\ exporter # "connecting"
    BY <1>1, <2>1 DEF SenderInv
  <2> QED
    BY <1>1, <2>1, <2>2
<1>15. CASE StreamDropped \/ ConnectionLost
  <2>1. /\ rpc # "none" /\ rpc' \in {rpc, "broken"} /\ (rpc' # rpc => rpc = "open")
        /\ UNCHANGED <<exporter, tries, pushed, open, cancelled, sender>>
    BY <1>15 DEF StreamDropped, ConnectionLost
  <2>2. exporter # "failed" /\ exporter # "connecting"
    BY <1>1, <2>1 DEF SenderInv
  <2> QED
    BY <1>1, <2>1, <2>2
<1>16. CASE UNCHANGED vars
  BY <1>1, <1>16 DEF vars
<1> HIDE DEF ExporterInv, LeftBehind
<1> QED
  BY <1>3, <1>4, <1>5, <1>6, <1>7, <1>8, <1>9, <1>10, <1>11, <1>12, <1>13, <1>14,
     <1>15, <1>16 DEF Next, ExporterTask, SenderTask, Server

\* Every step keeps SizeInv.
LEMMA SizeStep == IInv /\ [Next]_vars => SizeInv'
<1> SUFFICES ASSUME IInv, [Next]_vars PROVE SizeInv'
  OBVIOUS
<1> USE DEF exporterVars, eventVars, senderVars, rpcVars, serverVars
<1>1. TypeOK /\ SenderInv /\ SizeInv
  BY DEF IInv
<1>2. /\ queue \in Seq(Events) /\ buffer \in Seq(Events) /\ requests \in Seq(Seq(Events))
      /\ held \in Seq(Events) /\ Len(queue) <= EventCap
  BY <1>1 DEF TypeOK
<1>3. /\ Len(requests) \in Nat /\ MaxBuffer \in Nat /\ EventCap \in Nat /\ EventCap > 0
      /\ NumBytes(<<>>) < MaxBuffer /\ Within(<<>>, EventCap)
  <2>1. <<>> \in Seq(Events) /\ NumBytes(<<>>) < MaxBuffer
    BY EmptySeq, BytesType, Caps
  <2>2. Within(<<>>, EventCap)
    BY <2>1, BelowBudget, Caps
  <2> QED
    BY <1>2, <2>1, <2>2, Caps, LenProperties
(* What a few events exceed the budget by, so do as many as the channel holds. *)
<1>0. ASSUME NEW b \in Seq(Events), Within(b, 1) PROVE Within(b, EventCap)
  <2>1. PICK n \in 0..Len(b) : Len(b) - n <= 1 /\ NumBytes(SubSeq(b, 1, n)) < MaxBuffer
    BY <1>0 DEF Within
  <2>2. Len(b) - n <= EventCap
    BY <1>3, <2>1, LenProperties
  <2> QED
    BY <2>1, <2>2 DEF Within
(* The steps that touch neither the batch nor a request. *)
<1>4. ASSUME UNCHANGED <<buffer, held, requests>>,
             sender' = "select" => sender = "select" \/ buffer = <<>>,
             sender' = "drain" => sender = "drain" /\ queue' = queue,
             sender' = "flush" => sender = "flush"
      PROVE  SizeInv'
  BY <1>1, <1>3, <1>4 DEF SizeInv, Within, DrainWithin
<1>5. CASE Connect
  <2>1. sender = "none" /\ buffer = <<>>
    BY <1>1, <1>5 DEF Connect, IInv, ExporterInv, SenderInv
  <2> QED
    BY <1>4, <1>5, <2>1 DEF Connect
<1>6. CASE StartPush \/ StartShutdown \/ JoinSender \/ JoinCollector \/ DropClient
  BY <1>4, <1>6 DEF StartPush, StartShutdown, JoinSender, JoinCollector, DropClient
<1>7. CASE EndPush
  <2>1. sender = "drain" => queue' = queue
    BY <1>1, <1>7 DEF EndPush, SenderInv
  <2> QED
    BY <1>4, <1>7, <2>1 DEF EndPush
<1>8. ASSUME queue # <<>> PROVE Head(queue) \in Events
  BY <1>2, <1>8, HeadTail
(* A batch becomes a request. *)
<1>9. ASSUME NEW batch \in Seq(Events), NEW next \in {"flush", "lastFlush"}, Flush(batch, next),
             next = "flush" => Within(batch, 1), Within(batch, EventCap), requests' = requests
      PROVE  SizeInv'
  BY <1>1, <1>9 DEF SizeInv, Flush, Within
<1>10. CASE RecvEvent
  <2>1. sender = "select" /\ queue # <<>> /\ requests' = requests /\ NumBytes(buffer) < MaxBuffer
    BY <1>1, <1>10 DEF RecvEvent, SizeInv
  <2>2. CASE Head(queue) \in Unencodable
    BY <1>4, <1>10, <2>1, <2>2 DEF RecvEvent
  <2>3. CASE Head(queue) \notin Unencodable
    <3> DEFINE batch == Append(buffer, Head(queue))
    <3>1. AddToBatch(Head(queue)) /\ batch \in Seq(Events)
      BY <1>2, <1>8, <1>10, <2>1, <2>3, AppendProperties DEF RecvEvent
    <3>2. Within(batch, 1)
      BY <1>2, <1>8, <2>1, BelowBudget
    <3>3. NumBytes(batch) \in Nat
      BY <3>1, BytesType
    <3>4. CASE NumBytes(batch) >= MaxBuffer
      <4>1. Flush(batch, "flush")
        BY <3>1, <3>4 DEF AddToBatch
      <4>2. Within(batch, EventCap)
        BY <1>0, <3>1, <3>2
      <4> HIDE DEF batch
      <4> QED
        BY <1>9, <2>1, <3>1, <3>2, <4>1, <4>2
    <3>5. CASE ~(NumBytes(batch) >= MaxBuffer)
      <4>1. buffer' = batch /\ held' = held /\ sender' = "select"
        BY <2>1, <3>1, <3>5 DEF AddToBatch
      <4>2. NumBytes(batch) < MaxBuffer
        BY <1>3, <3>3, <3>5
      <4> HIDE DEF batch
      <4>3. NumBytes(buffer') < MaxBuffer
        BY <4>1, <4>2
      <4> QED
        BY <1>1, <2>1, <4>1, <4>3 DEF SizeInv, Within
    <3> QED
      BY <3>4, <3>5
  <2> QED
    BY <2>2, <2>3
<1>11. CASE Tick
  <2>1. NumBytes(buffer) < MaxBuffer /\ Flush(buffer, "flush") /\ requests' = requests
    BY <1>1, <1>11 DEF Tick, SizeInv
  <2>2. Within(buffer, 1) /\ Within(buffer, EventCap)
    BY <1>2, <1>3, <2>1, BelowBudget
  <2> QED
    BY <1>2, <1>9, <2>1, <2>2
<1>12. CASE ObserveCancel
  <2>1. NumBytes(buffer) < MaxBuffer
    BY <1>1, <1>12 DEF ObserveCancel, SizeInv
  <2>2. DrainWithin(buffer, queue)
    BY <1>2, <2>1, BelowBudget
  <2> QED
    BY <1>1, <1>12, <2>2 DEF ObserveCancel, SizeInv, DrainWithin, Within
<1>13. CASE DrainEvent
  <2>1. queue # <<>> /\ sender' = "drain" /\ UNCHANGED <<held, requests>>
        /\ DrainWithin(buffer, queue) /\ queue' = Tail(queue)
        /\ (buffer' = buffer \/ buffer' = Append(buffer, Head(queue)))
    BY <1>1, <1>13 DEF DrainEvent, SizeInv
  <2>2. /\ DrainWithin(buffer, Tail(queue))
        /\ DrainWithin(Append(buffer, Head(queue)), Tail(queue))
    BY <1>2, <1>8, <2>1, DrainBudget
  <2>3. DrainWithin(buffer, queue)'
    BY <2>1, <2>2 DEF DrainWithin
  <2> QED
    BY <1>1, <2>1, <2>3 DEF SizeInv, Within
<1>14. CASE DrainEnds
  <2>1. CASE buffer = <<>>
    BY <1>4, <1>14, <2>1 DEF DrainEnds
  <2>2. CASE buffer # <<>>
    <3>1. Flush(buffer, "lastFlush") /\ requests' = requests /\ DrainWithin(buffer, queue)
      BY <1>1, <1>14, <2>2 DEF DrainEnds, SizeInv
    <3>2. Within(buffer, EventCap)
      BY <1>2, <3>1, DrainBudget
    <3> QED
      BY <1>2, <1>9, <3>1, <3>2
  <2> QED
    BY <2>1, <2>2
<1>15. CASE SendRequest
  <2>1. /\ Len(Append(requests, held)) = Len(requests) + 1
        /\ Append(requests, held)[Len(requests) + 1] = held
        /\ \A i \in 1..Len(requests) : Append(requests, held)[i] = requests[i]
    BY <1>2, AppendProperties
  <2>2. \A i \in 1..Len(requests') : Within(requests'[i], EventCap)
    <3> SUFFICES ASSUME NEW i \in 1..Len(requests) + 1
                 PROVE  Within(Append(requests, held)[i], EventCap)
      BY <1>15, <2>1 DEF SendRequest
    <3>1. CASE i \in 1..Len(requests)
      BY <1>1, <2>1, <3>1 DEF SizeInv
    <3>2. CASE i \notin 1..Len(requests)
      <4>1. i = Len(requests) + 1
        BY <1>3, <3>2
      <4> QED
        BY <1>1, <2>1, <4>1 DEF SizeInv
    <3> QED
      BY <3>1, <3>2
  <2>3. buffer' = <<>> /\ held' = <<>> /\ sender' \in {"select", "done"}
    BY <1>1, <1>15 DEF SendRequest, AfterFlush, SenderInv
  <2> QED
    BY <1>3, <2>2, <2>3 DEF SizeInv, Within
<1>16. CASE SendFails
  BY <1>1, <1>3, <1>16 DEF SendFails, SizeInv, Within
(* The steps that only take requests away. *)
<1>17. ASSUME UNCHANGED <<sender, buffer, held, queue>>,
              \A i \in 1..Len(requests') : \E j \in 1..Len(requests) : requests'[i] = requests[j]
       PROVE  SizeInv'
  <2>1. \A i \in 1..Len(requests') : Within(requests'[i], EventCap)
    BY <1>1, <1>17 DEF SizeInv
  <2> QED
    BY <1>1, <1>17, <2>1 DEF SizeInv, Within, DrainWithin
<1>18. CASE ServerReads
  <2>1. /\ requests # <<>> /\ requests' = Tail(requests)
        /\ UNCHANGED <<sender, buffer, held, queue>>
    BY <1>18 DEF ServerReads
  <2>2. \A i \in 1..Len(Tail(requests)) :
          i + 1 \in 1..Len(requests) /\ Tail(requests)[i] = requests[i+1]
    BY <1>2, <2>1, HeadTail
  <2> QED
    BY <1>17, <2>1, <2>2
<1>19. CASE ServerIngests \/ ConnectionLost
  BY <1>4, <1>19 DEF ServerIngests, ConnectionLost
<1>20. CASE ServerRejects \/ ServerGivesUp \/ ServerFinishes
  BY <1>4, <1>20 DEF ServerRejects, ServerGivesUp, ServerFinishes, ServerEnds
<1>21. CASE StreamDropped
  <2>1. PICK n \in 0..Len(requests) : requests' = SubSeq(requests, 1, n)
    BY <1>21 DEF StreamDropped
  <2>2. 1 \in 1..(Len(requests) + 1) /\ 1 <= n + 1 /\ n - 1 + 1 = n
    BY <1>3
  <2>3. Len(requests') = n /\ \A i \in 1..n : requests'[i] = requests[1 + i - 1]
    BY <1>2, <2>1, <2>2, Slice
  <2>4. \A i \in 1..Len(requests') : 1 + i - 1 \in 1..Len(requests)
    BY <1>3, <2>3
  <2>5. \A i \in 1..Len(requests') : \E j \in 1..Len(requests) : requests'[i] = requests[j]
    BY <2>3, <2>4
  <2> QED
    BY <1>17, <1>21, <2>5 DEF StreamDropped
<1>22. CASE UNCHANGED vars
  BY <1>4, <1>22 DEF vars
<1> HIDE DEF SizeInv
<1> QED
  BY <1>5, <1>6, <1>7, <1>10, <1>11, <1>12, <1>13, <1>14, <1>15, <1>16, <1>18,
     <1>19, <1>20, <1>21, <1>22 DEF Next, ExporterTask, SenderTask, Server

(* The pieces of the way are sequences of events. *)
LEMMA WayTypes ==
  ASSUME TypeOK
  PROVE  /\ FlattenSeq(requests) \in Seq(Events)
         /\ delivered \o ingesting \in Seq(Events)
         /\ delivered \o ingesting \o FlattenSeq(requests) \in Seq(Events)
         /\ Ahead \in Seq(Events) /\ Ahead \o buffer \in Seq(Events)
         /\ Encodable(queue) \in Seq(Events)
<1>1. /\ delivered \in Seq(Events) /\ ingesting \in Seq(Events) /\ held \in Seq(Events)
      /\ requests \in Seq(Seq(Events)) /\ buffer \in Seq(Events) /\ queue \in Seq(Events)
  BY DEF TypeOK
<1>2. FlattenSeq(requests) \in Seq(Events)
  BY <1>1, FlattenAppend
<1>3. delivered \o ingesting \in Seq(Events)
  BY <1>1, ConcatProperties
<1>4. delivered \o ingesting \o FlattenSeq(requests) \in Seq(Events)
  BY <1>2, <1>3, ConcatProperties
<1>5. Ahead \in Seq(Events)
  BY <1>1, <1>4, ConcatProperties DEF Ahead
<1>6. Ahead \o buffer \in Seq(Events)
  BY <1>1, <1>5, ConcatProperties
<1>7. Encodable(queue) \in Seq(Events)
  BY <1>1, EncodableType
<1> QED
  BY <1>2, <1>3, <1>4, <1>5, <1>6, <1>7

(* Nothing is ingested on this way but what is taken from its front. *)
LEMMA WholeStep ==
  ASSUME IInv, [Next]_vars, Whole'
  PROVE  accepted' = Ahead' \o buffer' \o Encodable(queue')
<1>0. ASSUME UNCHANGED <<rpc, serving, receiving>> PROVE Whole
  BY <1>0 DEF Whole
<1> DEFINE Goal == accepted' = Ahead' \o buffer' \o Encodable(queue')
<1> USE DEF exporterVars, eventVars, senderVars, rpcVars, serverVars
<1>1. TypeOK /\ SenderInv /\ RpcInv /\ ExporterInv
  BY DEF IInv
<1>2. /\ delivered \in Seq(Events) /\ ingesting \in Seq(Events) /\ held \in Seq(Events)
      /\ requests \in Seq(Seq(Events)) /\ buffer \in Seq(Events) /\ queue \in Seq(Events)
      /\ accepted \in Seq(Events) /\ <<>> \in Seq(Events)
  BY <1>1, EmptySeq DEF TypeOK
<1>3. /\ FlattenSeq(requests) \in Seq(Events)
      /\ delivered \o ingesting \in Seq(Events)
      /\ delivered \o ingesting \o FlattenSeq(requests) \in Seq(Events)
      /\ Ahead \in Seq(Events) /\ Ahead \o buffer \in Seq(Events)
      /\ Encodable(queue) \in Seq(Events)
  BY <1>1, WayTypes
<1>4. ASSUME Whole PROVE accepted = Ahead \o buffer \o Encodable(queue)
  BY <1>4 DEF IInv, OnTheWay
<1>5. ASSUME UNCHANGED <<accepted, delivered, ingesting, requests, held, buffer, queue>>,
             Whole
      PROVE  Goal
  BY <1>4, <1>5 DEF Ahead
<1>6. ASSUME UNCHANGED <<delivered, ingesting, requests, held>> PROVE Ahead' = Ahead
  BY <1>6 DEF Ahead
<1>7. CASE Connect
  <2>1. rpc = "none"
    BY <1>1, <1>7 DEF Connect, ExporterInv, SenderInv
  <2> QED
    BY <1>5, <1>7, <2>1 DEF Connect, Whole
<1>8. CASE StartPush \/ StartShutdown \/ JoinSender \/ JoinCollector \/ DropClient
  BY <1>0, <1>5, <1>8 DEF StartPush, StartShutdown, JoinSender, JoinCollector, DropClient
<1>9. CASE EndPush
  <2>1. UNCHANGED <<delivered, ingesting, requests, held, buffer>> /\ Whole
    BY <1>0, <1>9 DEF EndPush
  <2>2. CASE ~open
    BY <1>5, <1>9, <2>1, <2>2 DEF EndPush
  <2>3. CASE open
    <3>1. pushed \in Events
      BY <1>1, <1>9 DEF EndPush, ExporterInv, TypeOK, Events
    <3>2. /\ queue' = Append(queue, pushed)
          /\ accepted' = IF pushed \in Unencodable THEN accepted ELSE Append(accepted, pushed)
      BY <1>9, <2>3 DEF EndPush
    <3>3. Encodable(queue') = Encodable(queue) \o IfEncodable(pushed)
      BY <1>2, <3>1, <3>2, EncodableAppend
    <3>4. IfEncodable(pushed) \in Seq(Events)
      BY <1>2, <3>1 DEF IfEncodable
    <3>5. accepted' = accepted \o IfEncodable(pushed)
      <4>1. CASE pushed \in Unencodable
        BY <1>2, <3>2, <4>1, ConcatEmptySeq DEF IfEncodable
      <4>2. CASE pushed \notin Unencodable
        BY <1>2, <3>1, <3>2, <4>2, AppendIsConcat DEF IfEncodable
      <4> QED
        BY <4>1, <4>2
    <3>6. (Ahead \o buffer \o Encodable(queue)) \o IfEncodable(pushed)
            = Ahead \o buffer \o (Encodable(queue) \o IfEncodable(pushed))
      <4> DEFINE a == Ahead \o buffer
                 b == Encodable(queue)
                 c == IfEncodable(pushed)
      <4>1. a \in Seq(Events) /\ b \in Seq(Events) /\ c \in Seq(Events)
        BY <1>3, <3>4
      <4> HIDE DEF a, b, c
      <4>2. (a \o b) \o c = a \o (b \o c)
        BY <4>1, ConcatAssociative
      <4> QED
        BY <4>2 DEF a, b, c
    <3>7. accepted = Ahead \o buffer \o Encodable(queue)
      BY <1>4, <2>1
    <3>8. Ahead' = Ahead /\ buffer' = buffer
      BY <1>6, <2>1
    <3> QED
      BY <3>3, <3>5, <3>6, <3>7, <3>8
  <2> QED
    BY <2>2, <2>3
(* The event at the head of the queue joins the batch, or was not on the   *)
(* way at all. *)
<1>10. ASSUME queue # <<>>, Whole,
              NEW batch, batch = IF Head(queue) \in Unencodable THEN buffer
                                 ELSE Append(buffer, Head(queue))
       PROVE  accepted = Ahead \o batch \o Encodable(Tail(queue)) /\ batch \in Seq(Events)
  <2>1. Head(queue) \in Events
    BY <1>2, <1>10, HeadTail
  <2>2. /\ Encodable(queue) = IfEncodable(Head(queue)) \o Encodable(Tail(queue))
        /\ Encodable(Tail(queue)) \in Seq(Events)
    BY <1>2, <1>10, EncodableHeadTail
  <2>3. CASE Head(queue) \in Unencodable
    <3>1. Encodable(queue) = Encodable(Tail(queue))
      BY <2>2, <2>3, ConcatEmptySeq DEF IfEncodable
    <3> QED
      BY <1>2, <1>4, <1>10, <2>3, <3>1
  <2>4. CASE Head(queue) \notin Unencodable
    <3>1. batch = Append(buffer, Head(queue)) /\ batch \in Seq(Events)
      BY <1>2, <1>10, <2>1, <2>4, AppendProperties
    <3>2. Encodable(queue) = <<Head(queue)>> \o Encodable(Tail(queue))
      BY <2>2, <2>4 DEF IfEncodable
    <3>3. (Ahead \o buffer) \o (<<Head(queue)>> \o Encodable(Tail(queue)))
            = (Ahead \o Append(buffer, Head(queue))) \o Encodable(Tail(queue))
      <4> DEFINE q == Encodable(Tail(queue))
                 e == Head(queue)
                 a == Ahead
      <4>1. a \in Seq(Events) /\ buffer \in Seq(Events) /\ e \in Events /\ q \in Seq(Events)
        BY <1>2, <1>3, <2>1, <2>2
      <4> HIDE DEF q, e, a
      <4>2. Cat(Cat(a, buffer), Cat(<<e>>, q)) = Cat(Cat(a, Append(buffer, e)), q)
        BY <4>1, MoveOne
      <4> QED
        BY <4>2 DEF Cat, q, e, a
    <3> QED
      BY <1>4, <1>10, <3>1, <3>2, <3>3
  <2> QED
    BY <2>3, <2>4
(* A batch becomes the request in hand. *)
<1>11. ASSUME NEW batch \in Seq(Events), NEW next, Flush(batch, next), held = <<>>,
              UNCHANGED <<delivered, ingesting, requests>>
       PROVE  Ahead' \o buffer' = Ahead \o batch
  <2> DEFINE X == delivered \o ingesting \o FlattenSeq(requests)
  <2>1. Ahead = X \o <<>> /\ Ahead' = X \o batch /\ buffer' = <<>>
    BY <1>11 DEF Ahead, Flush
  <2>2. X \in Seq(Events)
    BY <1>3
  <2> HIDE DEF X
  <2>3. X \o <<>> = X /\ X \o batch \in Seq(Events)
    BY <1>11, <2>2, ConcatEmptySeq, ConcatProperties
  <2>4. (X \o batch) \o <<>> = X \o batch
    BY <2>3, ConcatEmptySeq
  <2> QED
    BY <2>1, <2>3, <2>4
<1>12. CASE RecvEvent
  <2>1. /\ sender = "select" /\ queue # <<>> /\ queue' = Tail(queue) /\ held = <<>>
        /\ Whole /\ UNCHANGED <<accepted, delivered, ingesting, requests>>
    BY <1>0, <1>1, <1>12 DEF RecvEvent, SenderInv
  <2>2. CASE Head(queue) \in Unencodable
    <3>1. UNCHANGED <<held, buffer>>
      BY <1>12, <2>2 DEF RecvEvent
    <3>2. accepted = Ahead \o buffer \o Encodable(Tail(queue))
      BY <1>10, <2>1, <2>2
    <3> QED
      BY <1>6, <2>1, <3>1, <3>2
  <2>3. CASE Head(queue) \notin Unencodable
    <3> DEFINE batch == Append(buffer, Head(queue))
    <3>1. accepted = Ahead \o batch \o Encodable(Tail(queue)) /\ batch \in Seq(Events)
      BY <1>10, <2>1, <2>3
    <3>2. AddToBatch(Head(queue))
      BY <1>12, <2>3 DEF RecvEvent
    <3>3. Flush(batch, "flush") \/ (buffer' = batch /\ held' = held)
      BY <3>2 DEF AddToBatch
    <3> HIDE DEF batch
    <3>4. CASE Flush(batch, "flush")
      BY <1>11, <2>1, <3>1, <3>4
    <3>5. CASE buffer' = batch /\ held' = held
      BY <1>6, <2>1, <3>1, <3>5
    <3> QED
      BY <3>3, <3>4, <3>5
  <2> QED
    BY <2>2, <2>3
<1>13. CASE Tick
  <2>1. /\ Flush(buffer, "flush") /\ held = <<>> /\ Whole
        /\ UNCHANGED <<accepted, delivered, ingesting, requests, queue>>
    BY <1>0, <1>1, <1>13 DEF Tick, SenderInv
  <2>2. Ahead' \o buffer' = Ahead \o buffer
    BY <1>2, <1>11, <2>1
  <2> QED
    BY <1>4, <2>1, <2>2
<1>14. CASE ObserveCancel
  BY <1>0, <1>5, <1>14 DEF ObserveCancel
<1>15. CASE DrainEvent
  <2>1. /\ queue # <<>> /\ queue' = Tail(queue) /\ Whole
        /\ UNCHANGED <<accepted, delivered, ingesting, requests, held>>
        /\ buffer' = IF Head(queue) \in Unencodable THEN buffer
                     ELSE Append(buffer, Head(queue))
    BY <1>0, <1>15 DEF DrainEvent
  <2>2. accepted = Ahead \o buffer' \o Encodable(Tail(queue))
    BY <1>10, <2>1
  <2> QED
    BY <1>6, <2>1, <2>2
<1>16. CASE DrainEnds
  <2>1. held = <<>> /\ Whole
        /\ UNCHANGED <<accepted, delivered, ingesting, requests, queue>>
    BY <1>0, <1>1, <1>16 DEF DrainEnds, SenderInv
  <2>2. CASE buffer = <<>>
    BY <1>5, <1>16, <2>1, <2>2 DEF DrainEnds
  <2>3. CASE buffer # <<>>
    <3>1. Flush(buffer, "lastFlush")
      BY <1>16, <2>3 DEF DrainEnds
    <3>2. Ahead' \o buffer' = Ahead \o buffer
      BY <1>2, <1>11, <2>1, <3>1
    <3> QED
      BY <1>4, <2>1, <3>2
  <2> QED
    BY <2>2, <2>3
<1>17. CASE SendRequest
  <2>1. /\ requests' = Append(requests, held) /\ held' = <<>> /\ Whole
        /\ UNCHANGED <<accepted, delivered, ingesting, buffer, queue>>
    BY <1>0, <1>17 DEF SendRequest
  <2>2. FlattenSeq(requests') = FlattenSeq(requests) \o held
    BY <1>2, <2>1, FlattenAppend
  <2>3. Ahead' = (delivered \o ingesting) \o (FlattenSeq(requests) \o held) \o <<>>
    BY <2>1, <2>2 DEF Ahead
  <2>4. (delivered \o ingesting) \o (FlattenSeq(requests) \o held) = Ahead
    <3> DEFINE a == delivered \o ingesting
               b == FlattenSeq(requests)
    <3>1. a \in Seq(Events) /\ b \in Seq(Events) /\ held \in Seq(Events)
      BY <1>2, <1>3
    <3> HIDE DEF a, b
    <3>2. Cat(Cat(a, b), held) = Cat(a, Cat(b, held))
      BY <3>1, CatAssociative
    <3> QED
      BY <3>2 DEF Cat, a, b, Ahead
  <2>5. Ahead \o <<>> = Ahead
    BY <1>3, ConcatEmptySeq
  <2> QED
    BY <1>4, <2>1, <2>3, <2>4, <2>5
<1>18. CASE SendFails
  <2>1. rpc = "broken" /\ ~receiving'
    BY <1>1, <1>18 DEF SendFails, SenderInv, RpcInv, ExporterInv, LeftBehind
  <2> QED
    BY <1>18, <2>1 DEF SendFails, Whole
<1>19. CASE ServerReads
  <2>1. /\ requests # <<>> /\ ingesting = <<>> /\ ingesting' = Head(requests)
        /\ requests' = Tail(requests) /\ Whole
        /\ UNCHANGED <<accepted, delivered, held, buffer, queue>>
    BY <1>0, <1>19 DEF ServerReads
  <2>2. /\ FlattenSeq(requests) = Head(requests) \o FlattenSeq(Tail(requests))
        /\ FlattenSeq(Tail(requests)) \in Seq(Events)
    BY <1>2, <2>1, FlattenHeadTail
  <2>3. Head(requests) \in Seq(Events)
    BY <1>2, <2>1, HeadTail
  <2>4. delivered \o <<>> = delivered
    BY <1>2, ConcatEmptySeq
  <2>5. (delivered \o Head(requests)) \o FlattenSeq(Tail(requests))
          = delivered \o (Head(requests) \o FlattenSeq(Tail(requests)))
    <3> DEFINE b == Head(requests)
               c == FlattenSeq(Tail(requests))
    <3>1. delivered \in Seq(Events) /\ b \in Seq(Events) /\ c \in Seq(Events)
      BY <1>2, <2>2, <2>3
    <3> HIDE DEF b, c
    <3>2. (delivered \o b) \o c = delivered \o (b \o c)
      BY <3>1, ConcatAssociative
    <3> QED
      BY <3>2 DEF b, c
  <2>6. Ahead' = Ahead
    BY <2>1, <2>2, <2>4, <2>5 DEF Ahead
  <2> QED
    BY <1>4, <2>1, <2>6
<1>20. CASE ServerIngests
  <2>1. /\ ingesting # <<>> /\ delivered' = Append(delivered, Head(ingesting))
        /\ ingesting' = Tail(ingesting) /\ Whole
        /\ UNCHANGED <<accepted, requests, held, buffer, queue>>
    BY <1>0, <1>20 DEF ServerIngests
  <2>2. delivered' \o ingesting' = delivered \o ingesting
    BY <1>2, <2>1, MoveHead
  <2>3. Ahead' = Ahead
    BY <2>1, <2>2 DEF Ahead
  <2> QED
    BY <1>4, <2>1, <2>3
<1>21. CASE ServerRejects \/ ServerGivesUp
  <2>1. rpc' = "broken" /\ ~serving'
    BY <1>21 DEF ServerRejects, ServerGivesUp, ServerEnds
  <2> QED
    BY <2>1 DEF Whole
<1>22. CASE ServerFinishes
  <2>1. rpc = "open" /\ ingesting = <<>>
        /\ UNCHANGED <<accepted, delivered, ingesting, requests, held, buffer, queue>>
    BY <1>22 DEF ServerFinishes, ServerEnds
  <2> QED
    BY <1>5, <2>1 DEF Whole
<1>24. CASE ConnectionLost
  <2>1. rpc = "open"
        /\ UNCHANGED <<accepted, delivered, ingesting, requests, held, buffer, queue>>
    BY <1>24 DEF ConnectionLost
  <2> QED
    BY <1>5, <2>1 DEF Whole
<1>25. CASE StreamDropped
  <2>1. rpc = "finished" /\ requests = <<>>
    BY <1>1, <1>25 DEF StreamDropped, RpcInv, Whole
  <2>2. PICK n \in 0..Len(requests) : requests' = SubSeq(requests, 1, n)
    BY <1>25 DEF StreamDropped
  <2>3. requests' \in Seq(Seq(Events)) /\ Len(requests') = 0
    BY <1>2, <2>1, <2>2, CatSplit
  <2>4. requests' = requests
    BY <2>1, <2>3, EmptySeq
  <2> QED
    BY <1>5, <1>25, <2>1, <2>4 DEF StreamDropped, Whole
<1>23. CASE UNCHANGED vars
  BY <1>0, <1>5, <1>23 DEF vars
<1> HIDE DEF exporterVars, eventVars, senderVars, rpcVars, serverVars
<1>26. Goal
  BY <1>7, <1>8, <1>9, <1>12, <1>13, <1>14, <1>15, <1>16, <1>17, <1>18, <1>19, <1>20,
     <1>21, <1>22, <1>23, <1>24, <1>25 DEF Next, ExporterTask, SenderTask, Server
<1> QED
  BY <1>26 DEF Goal

(* Whatever breaks, what the server has got is where the acceptance began. *)
LEMMA GotStep ==
  ASSUME IInv, [Next]_vars, TypeOK'
  PROVE  Begins(Got, accepted)'
<1> DEFINE Goal == Begins(Got', accepted')
<1> USE DEF exporterVars, eventVars, senderVars, rpcVars, serverVars
<1>1. TypeOK /\ SenderInv /\ RpcInv /\ ExporterInv /\ Begins(Got, accepted)
  BY DEF IInv, OnTheWay
<1>2. /\ delivered \in Seq(Events) /\ ingesting \in Seq(Events)
      /\ requests \in Seq(Seq(Events)) /\ accepted \in Seq(Events) /\ pushed \in 0..MaxEvents
  BY <1>1 DEF TypeOK
<1> DEFINE flat == FlattenSeq(requests)
<1>3. /\ flat \in Seq(Events) /\ Cat(delivered, ingesting) \in Seq(Events)
      /\ Cat(Cat(delivered, ingesting), flat) \in Seq(Events) /\ Got \in Seq(Events)
      /\ Got = IF serving THEN Cat(Cat(delivered, ingesting), flat) ELSE delivered
  BY <1>1, <1>2, WayTypes DEF Cat, Got
<1> HIDE DEF flat
<1>4. ASSUME UNCHANGED <<serving, delivered, ingesting, requests, accepted>> PROVE Goal
  BY <1>1, <1>4 DEF Got
<1>5. CASE Connect
  <2>1. ~serving /\ ingesting = <<>> /\ requests = <<>>
        /\ UNCHANGED <<delivered, ingesting, requests, accepted>>
    BY <1>1, <1>5 DEF Connect, ExporterInv, SenderInv, RpcInv
  <2>2. Got' = delivered
    <3>1. delivered \o <<>> \o <<>> = delivered
      BY <1>2, ConcatEmptySeq
    <3> QED
      BY <2>1, <3>1, FlattenEmpty DEF Got
  <2> QED
    BY <1>1, <1>3, <2>1, <2>2
<1>6. CASE StartPush \/ StartShutdown \/ JoinSender \/ JoinCollector \/ DropClient
  BY <1>4, <1>6 DEF StartPush, StartShutdown, JoinSender, JoinCollector, DropClient
<1>7. CASE EndPush
  <2>1. Got' = Got
    BY <1>7 DEF EndPush, Got
  <2>2. CASE accepted' = accepted
    BY <1>1, <2>1, <2>2
  <2>3. CASE accepted' # accepted
    <3>1. accepted' = Append(accepted, pushed) /\ pushed \in Events
      BY <1>1, <1>2, <1>7, <2>3 DEF EndPush, ExporterInv, Events
    <3>2. accepted' = Cat(accepted, <<pushed>>) /\ <<pushed>> \in Seq(Events)
      BY <1>2, <3>1, AppendIsConcat DEF Cat
    <3>3. Begins(Got, Cat(accepted, <<pushed>>))
      BY <1>1, <1>2, <1>3, <3>2, BeginsParts
    <3> QED
      BY <2>1, <3>2, <3>3
  <2> QED
    BY <2>2, <2>3
<1>8. CASE RecvEvent
  BY <1>4, <1>8 DEF RecvEvent
<1>9. CASE Tick \/ ObserveCancel \/ DrainEvent \/ DrainEnds \/ SendFails
  BY <1>4, <1>9 DEF Tick, ObserveCancel, DrainEvent, DrainEnds, SendFails
<1>10. CASE SendRequest
  <2>1. UNCHANGED <<accepted, serving, delivered, ingesting, rpc, receiving>>
    BY <1>10 DEF SendRequest
  <2>2. CASE Whole'
    <3>1. accepted' = Ahead' \o buffer' \o Encodable(queue')
      BY <2>2, WholeStep
    <3>2. /\ (Got' = delivered' \o ingesting' \o FlattenSeq(requests') \/ Got' = delivered')
          /\ held' = <<>>
      BY <1>10 DEF Got, SendRequest
    <3> DEFINE d == delivered'
               i == ingesting'
               f == FlattenSeq(requests')
               h == held'
               b == buffer'
               q == Encodable(queue')
    <3>3. /\ d \in Seq(Events) /\ i \in Seq(Events) /\ f \in Seq(Events) /\ h \in Seq(Events)
          /\ b \in Seq(Events) /\ q \in Seq(Events)
      BY FlattenAppend, EncodableType DEF TypeOK
    <3>4. accepted' = Cat(Cat(Cat(Cat(Cat(d, i), f), h), b), q)
      BY <3>1 DEF Ahead, Cat
    <3>5. Got' = Cat(Cat(d, i), f) \/ Got' = d
      BY <3>2 DEF Cat
    <3> HIDE DEF d, i, f, h, b, q
    <3>6. /\ Cat(d, i) \in Seq(Events) /\ Cat(Cat(d, i), f) \in Seq(Events)
          /\ Cat(Cat(Cat(d, i), f), h) \in Seq(Events)
          /\ Cat(Cat(Cat(Cat(d, i), f), h), b) \in Seq(Events)
          /\ Cat(Cat(Cat(Cat(Cat(d, i), f), h), b), q) \in Seq(Events)
      BY <3>3, CatElements
    <3>7. Begins(Cat(Cat(Cat(Cat(d, i), f), h), b), accepted')
      BY <3>3, <3>4, <3>6, BeginsParts
    <3>8. Begins(Cat(Cat(Cat(d, i), f), h), accepted')
      BY <3>3, <3>4, <3>6, <3>7, BeginsParts
    <3>9. Begins(Cat(Cat(d, i), f), accepted')
      BY <3>3, <3>4, <3>6, <3>8, BeginsParts
    <3>10. Begins(d, accepted')
      <4>1. Begins(Cat(d, i), accepted')
        BY <3>3, <3>4, <3>6, <3>9, BeginsParts
      <4> QED
        BY <3>3, <3>4, <3>6, <4>1, BeginsParts
    <3> QED
      BY <3>5, <3>9, <3>10
  <2>3. CASE ~Whole'
    <3>1. ~serving
      BY <1>10, <2>1, <2>3 DEF Whole, SendRequest
    <3> QED
      BY <1>1, <2>1, <3>1 DEF Got
  <2> QED
    BY <2>2, <2>3
<1>11. CASE ServerReads
  <2>1. /\ requests # <<>> /\ ingesting = <<>> /\ ingesting' = Head(requests)
        /\ requests' = Tail(requests) /\ serving
        /\ UNCHANGED <<accepted, delivered, serving>>
    BY <1>11 DEF ServerReads
  <2> DEFINE h == Head(requests)
             t == FlattenSeq(Tail(requests))
  <2>2. flat = Cat(h, t) /\ t \in Seq(Events) /\ h \in Seq(Events)
    BY <1>2, <2>1, FlattenHeadTail, HeadTail DEF Cat, flat
  <2>3. Got' = Cat(Cat(delivered, h), t) /\ Got = Cat(Cat(delivered, <<>>), flat)
    BY <1>3, <2>1 DEF Got, Cat
  <2> HIDE DEF h, t
  <2>4. Got' = Got
    BY <1>2, <2>2, <2>3, CatAssociative, CatEmpty
  <2> QED
    BY <1>1, <2>1, <2>4
<1>12. CASE ServerIngests
  <2>1. /\ ingesting # <<>> /\ delivered' = Append(delivered, Head(ingesting))
        /\ ingesting' = Tail(ingesting) /\ UNCHANGED <<accepted, requests, serving>>
    BY <1>12 DEF ServerIngests
  <2>2. delivered' \o ingesting' = delivered \o ingesting
    BY <1>2, <2>1, MoveHead
  <2>3. serving
    BY <1>1, <2>1 DEF RpcInv
  <2> QED
    BY <1>1, <2>1, <2>2, <2>3 DEF Got
(* Less of it is on its way than was. *)
<1>13. Begins(delivered, accepted)
  <2>1. CASE ~serving
    BY <1>1, <1>3, <2>1
  <2>2. CASE serving
    <3>1. Begins(Cat(Cat(delivered, ingesting), flat), accepted)
      BY <1>1, <1>3, <2>2
    <3>2. Begins(Cat(delivered, ingesting), accepted)
      BY <1>2, <1>3, <3>1, BeginsParts
    <3> QED
      BY <1>2, <1>3, <3>2, BeginsParts
  <2> QED
    BY <2>1, <2>2
<1>14. CASE ServerRejects \/ ServerGivesUp \/ ServerFinishes
  <2>1. ~serving' /\ UNCHANGED <<accepted, delivered>>
    BY <1>14 DEF ServerRejects, ServerGivesUp, ServerFinishes, ServerEnds
  <2> QED
    BY <1>13, <2>1 DEF Got
<1>15. CASE ConnectionLost
  BY <1>4, <1>15 DEF ConnectionLost
<1>16. CASE StreamDropped
  <2>1. PICK n \in 0..Len(requests) : requests' = SubSeq(requests, 1, n)
    BY <1>16 DEF StreamDropped
  <2>2. UNCHANGED <<accepted, delivered, ingesting, serving>>
    BY <1>16 DEF StreamDropped
  <2> DEFINE x == SubSeq(requests, 1, n)
             y == SubSeq(requests, n + 1, Len(requests))
             z == Cat(delivered, ingesting)
             fx == FlattenSeq(x)
             fy == FlattenSeq(y)
  <2>3. x \in Seq(Seq(Events)) /\ y \in Seq(Seq(Events)) /\ Cat(x, y) = requests
    BY <1>2, CatSplit
  <2>4. Got' = IF serving THEN Cat(z, fx) ELSE delivered
    BY <2>1, <2>2 DEF Got, Cat
  <2> HIDE DEF x, y
  <2>5. flat = Cat(fx, fy) /\ fx \in Seq(Events) /\ fy \in Seq(Events)
    BY <2>3, FlattenCat, FlattenAppend DEF flat
  <2>6. z \in Seq(Events) /\ Got = IF serving THEN Cat(z, flat) ELSE delivered
    BY <1>3
  <2> HIDE DEF z, fx, fy
  <2>7. CASE serving
    <3>1. Begins(Cat(Cat(z, fx), fy), accepted) /\ Cat(z, fx) \in Seq(Events)
      BY <1>1, <2>5, <2>6, <2>7, CatAssociative, CatElements
    <3>2. Begins(Cat(z, fx), accepted)
      BY <1>2, <2>5, <3>1, BeginsParts
    <3> QED
      BY <2>2, <2>4, <2>7, <3>2
  <2>8. CASE ~serving
    BY <1>13, <2>2, <2>4, <2>8
  <2> QED
    BY <2>7, <2>8
<1>17. CASE UNCHANGED vars
  BY <1>4, <1>17 DEF vars
<1> HIDE DEF exporterVars, eventVars, senderVars, rpcVars, serverVars
<1>18. Goal
  BY <1>5, <1>6, <1>7, <1>8, <1>9, <1>10, <1>11, <1>12, <1>14, <1>15, <1>16, <1>17
     DEF Next, ExporterTask, SenderTask, Server
<1> QED
  BY <1>18

\* Every step keeps OnTheWay.
LEMMA WayStep == IInv /\ [Next]_vars => OnTheWay'
<1>1. ASSUME IInv, [Next]_vars, Whole' PROVE accepted' = Ahead' \o buffer' \o Encodable(queue')
  BY <1>1, WholeStep
<1>2. ASSUME IInv, [Next]_vars PROVE Begins(Got, accepted)'
  <2>1. TypeOK'
    BY <1>2, TypeStep
  <2> QED
    BY <1>2, <2>1, GotStep
<1> QED
  BY <1>1, <1>2 DEF OnTheWay
-----------------------------------------------------------------------------
\* Every step keeps the invariant.
LEMMA NextIInv == IInv /\ [Next]_vars => IInv'
BY TypeStep, SenderStep, RpcStep, ExporterStep, SizeStep, WayStep DEF IInv

(* The inductive invariant holds in every reachable state. *)
THEOREM Invariance == Spec => []IInv
BY InitIInv, NextIInv, PTL DEF Spec

(* Every variable keeps its type, and the channels their bounds.           *)
THEOREM TypeCorrect == Spec => []TypeOK
<1>1. IInv => TypeOK
  BY DEF IInv
<1> QED
  BY Invariance, <1>1, PTL

(* As long as the way is whole, every encodable event that send accepted is *)
(* at exactly one place on it, in order; and whatever breaks it, the server *)
(* has the first of them without a gap. *)
THEOREM NothingLost == Spec => []InTransit
<1>1. IInv => InTransit
  <2> SUFFICES ASSUME IInv PROVE InTransit
    OBVIOUS
  <2>1. Whole => accepted = delivered \o ingesting \o FlattenSeq(requests) \o held
                              \o buffer \o Encodable(queue)
    BY DEF IInv, OnTheWay, Ahead
  <2>2. /\ delivered \in Seq(Events) /\ ingesting \in Seq(Events) /\ accepted \in Seq(Events)
        /\ FlattenSeq(requests) \in Seq(Events) /\ Cat(delivered, ingesting) \in Seq(Events)
    BY WayTypes DEF IInv, TypeOK, Cat
  <2>3. Begins(Cat(delivered, ingesting), accepted)
    <3>1. CASE serving
      <4>1. Begins(Cat(Cat(delivered, ingesting), FlattenSeq(requests)), accepted)
        BY <3>1 DEF IInv, OnTheWay, Got, Cat
      <4> QED
        BY <2>2, <4>1, BeginsParts
    <3>2. CASE ~serving
      <4>1. ingesting = <<>> /\ Begins(delivered, accepted)
        BY <3>2 DEF IInv, RpcInv, OnTheWay, Got
      <4> QED
        BY <2>2, <4>1, CatEmpty
    <3> QED
      BY <3>1, <3>2
  <2>4. IsPrefix(Cat(delivered, ingesting), accepted)
    BY <2>2, <2>3, BeginsPrefix
  <2> QED
    BY <2>1, <2>4 DEF InTransit, Cat
<1> QED
  BY Invariance, <1>1, PTL

(* When all places before the server are empty, all of it was delivered.   *)
LEMMA AllDelivered ==
  ASSUME IInv, rpc # "broken", sender = "done", requests = <<>>, ingesting = <<>>
  PROVE  delivered = accepted /\ ~open
<1>1. held = <<>> /\ buffer = <<>> /\ queue = <<>> /\ ~open
  BY DEF IInv, SenderInv
<1>2. delivered \in Seq(Events) /\ accepted = Ahead \o buffer \o Encodable(queue)
  BY DEF IInv, TypeOK, OnTheWay, Whole
<1>3. accepted = delivered \o <<>> \o <<>> \o <<>> \o <<>> \o <<>>
  BY <1>1, <1>2, FlattenEmpty, EncodableEmpty DEF Ahead
<1> QED
  BY <1>1, <1>2, <1>3, ConcatEmptySeq

(* A shutdown of a stream that no one broke returns with every accepted    *)
(* event ingested by the server. *)
THEOREM ShutdownDeliversAll == Spec => []ShutdownDelivers
<1>1. IInv => ShutdownDelivers
  <2> SUFFICES ASSUME IInv, exporter = "done", rpc # "broken" PROVE delivered = accepted
    BY DEF ShutdownDelivers
  <2>1. rpc = "finished" /\ sender = "done" /\ requests = <<>> /\ ingesting = <<>>
    BY DEF IInv, ExporterInv, RpcInv
  <2> QED
    BY <2>1, AllDelivered
<1> QED
  BY Invariance, <1>1, PTL

(* send refuses an event only after the server has ended the stream.       *)
THEOREM RefusedBroken == Spec => []RefusedOnlyIfBroken
<1>1. IInv => RefusedOnlyIfBroken
  BY DEF IInv, ExporterInv, RefusedOnlyIfBroken
<1> QED
  BY Invariance, <1>1, PTL

(* Whatever the sizes of events, a batch exceeds the budget by at most one  *)
(* event where its size makes the task flush it, and by at most a channel   *)
(* full of them where the drain makes it a request.                         *)
THEOREM BudgetKept == Spec => []BudgetHolds
<1>1. IInv => BudgetHolds
  <2> SUFFICES ASSUME IInv PROVE BudgetHolds
    OBVIOUS
  <2>1. /\ buffer \in Seq(Events) /\ queue \in Seq(Events) /\ requests \in Seq(Seq(Events))
        /\ EventCap \in Nat /\ SenderInv /\ SizeInv
    BY Caps DEF IInv, TypeOK
  <2>2. Within(buffer, EventCap)
    <3>1. CASE sender = "drain"
      BY <2>1, <3>1, DrainBudget DEF SizeInv
    <3>2. CASE sender # "drain"
      <4>1. NumBytes(buffer) < MaxBuffer
        BY <2>1, <3>2, BytesType, Caps DEF SenderInv, SizeInv
      <4> QED
        BY <2>1, <4>1, BelowBudget
    <3> QED
      BY <3>1, <3>2
  <2>3. ASSUME NEW batch \in ToSet(requests) PROVE Within(batch, EventCap)
    <3>1. \E i \in 1..Len(requests) : batch = requests[i]
      BY <2>1, LenProperties DEF ToSet
    <3> QED
      BY <2>1, <3>1 DEF SizeInv
  <2> QED
    BY <2>1, <2>2, <2>3 DEF BudgetHolds, SizeInv
<1> QED
  BY Invariance, <1>1, PTL
-----------------------------------------------------------------------------
(* The promise, step by step. *)

(* What the server ingests next is the first accepted event it has not.    *)
LEMMA NextDelivered ==
  ASSUME IInv, ingesting # <<>>
  PROVE  /\ serving /\ Len(delivered) < Len(accepted)
         /\ Head(ingesting) = accepted[Len(delivered) + 1]
<1>1. serving /\ Begins(Got, accepted)
  BY DEF IInv, RpcInv, OnTheWay
<1> DEFINE f == FlattenSeq(requests)
           w == Cat(delivered, ingesting)
<1>2. /\ delivered \in Seq(Events) /\ ingesting \in Seq(Events) /\ accepted \in Seq(Events)
      /\ f \in Seq(Events) /\ w \in Seq(Events)
  BY WayTypes DEF IInv, TypeOK, Cat
<1>3. Begins(Cat(w, f), accepted)
  BY <1>1 DEF Got, Cat
<1>4. /\ Len(w) = Len(delivered) + Len(ingesting)
      /\ Len(delivered) \in Nat /\ Len(ingesting) \in Nat \ {0}
      /\ w[Len(delivered) + 1] = ingesting[1] /\ Head(ingesting) = ingesting[1]
  <2>1. Len(delivered) \in Nat /\ Len(ingesting) \in Nat \ {0} /\ Head(ingesting) = ingesting[1]
    BY <1>2, LenProperties, HeadTail
  <2>2. /\ Len(w) = Len(delivered) + Len(ingesting)
        /\ \A i \in 1..Len(ingesting) : w[Len(delivered) + i] = ingesting[i]
    <3>1. Joins(w, delivered, ingesting, Events)
      BY <1>2, CatJoins
    <3> HIDE DEF w
    <3> QED
      BY <3>1 DEF Joins
  <2> HIDE DEF w
  <2> QED
    BY <2>1, <2>2
<1> HIDE DEF w, f
<1>5. Begins(w, accepted)
  BY <1>2, <1>3, BeginsParts
<1>6. \A i \in 1..Len(w) : i \in 1..Len(accepted) /\ accepted[i] = w[i]
  BY <1>2, <1>5, BeginsPrefix
<1>7. Len(delivered) + 1 \in 1..Len(w)
  BY <1>4
<1>8. Len(accepted) \in Nat
  BY <1>2, LenProperties
<1> QED
  BY <1>1, <1>4, <1>6, <1>7, <1>8

(* Every step of the client is a step of EventDelivery, or none of its.    *)
LEMMA DeliveryStep == IInv /\ IInv' /\ [Next]_vars => [Delivery!Next]_(Delivery!vars)
<1> SUFFICES ASSUME IInv, IInv', [Next]_vars PROVE [Delivery!Next]_(Delivery!vars)
  OBVIOUS
<1> USE DEF exporterVars, eventVars, senderVars, rpcVars, serverVars
<1>1. TypeOK /\ SenderInv /\ RpcInv /\ ExporterInv
  BY DEF IInv
<1>2. ASSUME UNCHANGED <<accepted, delivered, open, exporter>>,
             UNCHANGED <<rpc, serving>> \/ open
      PROVE  [Delivery!Next]_(Delivery!vars)
  BY <1>2 DEF Delivery!vars
<1>3. ASSUME UNCHANGED <<accepted, delivered, open, rpc, serving>>,
             exporter' # "done", exporter # "done"
      PROVE  [Delivery!Next]_(Delivery!vars)
  BY <1>3 DEF Delivery!vars
<1>4. CASE Connect
  <2>1. open /\ open'
    BY <1>1, <1>4 DEF Connect, ExporterInv, SenderInv
  <2>2. exporter # "done" /\ exporter' # "done" /\ UNCHANGED <<accepted, delivered>>
    BY <1>4 DEF Connect
  <2> QED
    BY <2>1, <2>2 DEF Delivery!vars
<1>5. CASE StartPush \/ StartShutdown \/ JoinSender \/ DropClient
  BY <1>3, <1>5 DEF StartPush, StartShutdown, JoinSender, DropClient
<1>6. CASE EndPush
  <2>1. /\ exporter = "pushing" /\ exporter' = "idle" /\ UNCHANGED <<delivered, open, rpc, serving>>
    BY <1>6 DEF EndPush
  <2>2. CASE accepted' = accepted
    BY <1>3, <2>1, <2>2
  <2>3. CASE accepted' # accepted
    <3>1. open /\ pushed \notin Unencodable /\ accepted' = Append(accepted, pushed)
      BY <1>6, <2>3 DEF EndPush
    <3>2. pushed \in Events \ Unencodable
      BY <1>1, <2>1, <3>1 DEF ExporterInv, TypeOK, Events
    <3>3. Delivery!Accept(pushed)
      BY <2>1, <3>1 DEF Delivery!Accept
    <3> QED
      BY <3>2, <3>3 DEF Delivery!Next
  <2> QED
    BY <2>2, <2>3
<1>7. CASE JoinCollector
  <2>1. /\ rpc \in {"finished", "broken"} /\ exporter' = "done" /\ exporter = "joinCollector"
        /\ UNCHANGED <<accepted, delivered, open, rpc, serving>>
    BY <1>7 DEF JoinCollector
  <2>2. ~open
    BY <1>1, <2>1 DEF ExporterInv, SenderInv
  <2>3. Delivery!Return
    BY <2>1, <2>2 DEF Delivery!Return
  <2> QED
    BY <2>3 DEF Delivery!Next
<1>8. CASE RecvEvent \/ Tick \/ DrainEvent \/ DrainEnds \/ SendRequest
  BY <1>2, <1>8 DEF RecvEvent, Tick, DrainEvent, DrainEnds, SendRequest
(* The channel closes: for the shutdown, or because the stream is broken.  *)
<1>9. ASSUME UNCHANGED <<accepted, delivered, exporter, rpc, serving>>, open, ~open',
             rpc \in {"open", "broken"}
      PROVE  [Delivery!Next]_(Delivery!vars)
  <2>1. CASE rpc = "open"
    <3>1. Delivery!Close
      BY <1>9, <2>1 DEF Delivery!Close
    <3> QED
      BY <3>1 DEF Delivery!Next
  <2>2. CASE rpc = "broken"
    <3>1. Delivery!Fail
      BY <1>9, <2>2 DEF Delivery!Fail
    <3> QED
      BY <3>1 DEF Delivery!Next
  <2> QED
    BY <1>9, <2>1, <2>2
<1>10. CASE ObserveCancel
  <2>1. rpc \in {"open", "broken"} /\ open
    BY <1>1, <1>10 DEF ObserveCancel, RpcInv, SenderInv, ExporterInv, LeftBehind, TypeOK, RpcStates
  <2> QED
    BY <1>9, <1>10, <2>1 DEF ObserveCancel
<1>11. CASE SendFails
  <2>1. rpc = "broken" /\ ~open' /\ UNCHANGED <<accepted, delivered, exporter, rpc, serving>>
    BY <1>1, <1>11 DEF SendFails, SenderInv, RpcInv, ExporterInv, LeftBehind
  <2>2. CASE open
    BY <1>9, <2>1, <2>2
  <2>3. CASE ~open
    BY <1>1, <2>1, <2>3 DEF Delivery!vars, TypeOK
  <2> QED
    BY <2>2, <2>3
<1>12. CASE ServerReads
  BY <1>2, <1>12 DEF ServerReads
<1>13. CASE ServerIngests
  <2>1. /\ ingesting # <<>> /\ delivered' = Append(delivered, Head(ingesting))
        /\ UNCHANGED <<accepted, open, exporter, rpc, serving>>
    BY <1>13 DEF ServerIngests
  <2>2. /\ serving /\ rpc \in {"open", "broken"} /\ Len(delivered) < Len(accepted)
        /\ Head(ingesting) = accepted[Len(delivered) + 1]
    BY <1>1, <2>1, NextDelivered DEF RpcInv
  <2>3. Delivery!Deliver
    BY <2>1, <2>2 DEF Delivery!Deliver
  <2> QED
    BY <2>3 DEF Delivery!Next
<1>14. CASE ServerRejects \/ ServerGivesUp
  <2>1. /\ serving /\ rpc \in {"open", "broken"} /\ rpc' = "broken" /\ ~serving'
        /\ UNCHANGED <<accepted, delivered, open, exporter>>
    BY <1>1, <1>14 DEF ServerRejects, ServerGivesUp, ServerEnds, RpcInv
  <2>2. CASE open
    BY <1>2, <2>1, <2>2
  <2>3. CASE ~open
    <3>1. Delivery!Fail
      BY <2>1, <2>3 DEF Delivery!Fail
    <3> QED
      BY <3>1 DEF Delivery!Next
  <2> QED
    BY <2>2, <2>3
<1>15. CASE ServerFinishes
  <2>1. /\ rpc = "open" /\ rpc' = "finished" /\ sender = "done"
        /\ UNCHANGED <<accepted, delivered, open, exporter>>
    BY <1>15 DEF ServerFinishes, ServerEnds
  <2>2. ~open
    BY <1>1, <2>1 DEF SenderInv
  <2>3. delivered = accepted
    <3>1. requests = <<>> /\ ingesting = <<>>
      BY <1>15 DEF ServerFinishes, ServerEnds
    <3> QED
      BY <2>1, <3>1, AllDelivered
  <2>4. Delivery!Flush
    BY <2>1, <2>2, <2>3 DEF Delivery!Flush
  <2> QED
    BY <2>4 DEF Delivery!Next
<1>16. CASE StreamDropped
  BY <1>2, <1>16 DEF StreamDropped
<1>18. CASE ConnectionLost
  <2>1. /\ rpc = "open" /\ rpc' = "broken" /\ serving /\ serving'
        /\ UNCHANGED <<accepted, delivered, open, exporter>>
    BY <1>1, <1>18 DEF ConnectionLost, RpcInv
  <2>2. CASE open
    BY <1>2, <2>1, <2>2
  <2>3. CASE ~open
    <3>1. Delivery!Fail
      BY <2>1, <2>3 DEF Delivery!Fail
    <3> QED
      BY <3>1 DEF Delivery!Next
  <2> QED
    BY <2>2, <2>3
<1>17. CASE UNCHANGED vars
  BY <1>2, <1>17 DEF vars
<1> HIDE DEF exporterVars, eventVars, senderVars, rpcVars, serverVars
<1> QED
  BY <1>4, <1>5, <1>6, <1>7, <1>8, <1>10, <1>11, <1>12, <1>13, <1>14, <1>15, <1>16, <1>17, <1>18
     DEF Next, ExporterTask, SenderTask, Server

(* The client implements the promise of EventDelivery. *)
THEOREM ImplementsDelivery == Spec => DeliverySpec
<1>1. Init => Delivery!Init
  BY DEF Init, Delivery!Init
<1> QED
  BY <1>1, Invariance, DeliveryStep, PTL DEF Spec, DeliverySpec, Delivery!Spec
=============================================================================
