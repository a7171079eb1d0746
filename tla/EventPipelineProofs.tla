------------------------ MODULE EventPipelineProofs ------------------------
(***************************************************************************)
(* Theorems about EventPipeline for every set of owners and senders, every *)
(* batch size and every number of sends.  The argument: the program        *)
(* counter of the forwarder, the channel and the drop are tied together by *)
(* PcInv and DropInv; they give that the channel is open whenever an owner *)
(* can send, hence (SendInv) that everything an owner sent was accepted;   *)
(* LogInv says that the accepted events are what was handled, then the     *)
(* batch, then the queue.                                                  *)
(***************************************************************************)
EXTENDS EventPipeline, TLAPS, SequenceTheorems

(* Where the forwarder is tells whether the channel is open, the drop has  *)
(* begun, and where events can still be.                                   *)
PcInv ==
  /\ fpc \in {"select", "export"} => open
  /\ fpc \in {"drain", "drainExport", "shutdown", "done"} => ~open /\ cancelled
  /\ fpc = "dead" => ~open
  /\ fpc \in {"export", "drainExport"} <=> buffer # <<>>
  /\ fpc \in {"shutdown", "done", "dead"} => queue = <<>>

(* The drop begins when the last owner goes, and no owner comes after it. *)
DropInv ==
  /\ cancelled <=> drop # "none"
  /\ cancelled => live \cap Owners = {}
  /\ drop = "returned" => fpc \in Ended

(* What is accepted is what was sent, without gaps, and all of it while    *)
(* the channel is open; an owner's sends are all accepted.                 *)
SendInv ==
  /\ \A i \in 1..Len(accepted) : accepted[i].n <= emitted[accepted[i].from]
  /\ \A p \in Producers : (open \/ (p \in Owners /\ fpc # "dead")) =>
       \A k \in 1..emitted[p] :
         \E i \in 1..Len(accepted) : accepted[i] = [from |-> p, n |-> k]
  /\ InSendOrder(accepted)

IsPrefixOf(s, t) == /\ Len(s) <= Len(t)
                    /\ \A i \in 1..Len(s) : s[i] = t[i]

LogInv == Conservation /\ IsPrefixOf(handled, accepted)

IInv == TypeOK /\ PcInv /\ DropInv /\ SendInv /\ LogInv
-----------------------------------------------------------------------------
(* Sequences. *)

\* A batch taken from the front of a queue stays in front of it.
LEMMA TakeConcat ==
  ASSUME NEW S, NEW s \in Seq(S), NEW q \in Seq(S), NEW n \in 1..Len(q)
  PROVE  /\ SubSeq(q, 1, n) \in Seq(S)
         /\ SubSeq(q, n + 1, Len(q)) \in Seq(S)
         /\ SubSeq(q, 1, n) # <<>> /\ Len(SubSeq(q, 1, n)) = n
         /\ s \o SubSeq(q, 1, n) \o SubSeq(q, n + 1, Len(q)) = s \o <<>> \o q
<1> DEFINE x == SubSeq(q, 1, n)
           y == SubSeq(q, n + 1, Len(q))
<1>1. \A i \in 1..Len(q) : q[i] \in S
  BY ElementOfSeq
<1>2. Len(q) \in Nat
  BY LenProperties
<1>3. x \in Seq(S) /\ Len(x) = n
  BY <1>1, <1>2, SubSeqProperties
<1>4. y \in Seq(S)
  BY <1>1, <1>2, SubSeqProperties
<1>5. x # <<>>
  BY <1>3
<1>6. x \o y = SubSeq(q, 1, Len(q))
  BY <1>2, ConcatAdjacentSubSeq
<1>7. SubSeq(q, 1, Len(q)) = q
  BY SubSeqFull
<1>8. s \o <<>> = s
  BY ConcatEmptySeq
<1>9. s \o x \o y = s \o (x \o y)
  <2>1. x \in Seq(S) /\ y \in Seq(S)
    BY <1>3, <1>4
  <2> HIDE DEF x, y
  <2> QED
    BY <2>1
<1> QED
  BY <1>3, <1>4, <1>5, <1>6, <1>7, <1>8, <1>9

\* An element handed on stays between what was and what is to come.
LEMMA PushConcat ==
  ASSUME NEW S, NEW s \in Seq(S), NEW b \in Seq(S), NEW q \in Seq(S), b # <<>>
  PROVE  Append(s, Head(b)) \o Tail(b) \o q = s \o b \o q
<1>1. Head(b) \in S /\ Tail(b) \in Seq(S) /\ Append(s, Head(b)) \in Seq(S)
  BY HeadTailProperties, AppendProperties
<1>2. Append(s, Head(b)) = s \o <<Head(b)>> /\ <<Head(b)>> \in Seq(S)
  BY <1>1, AppendIsConcat
<1>3. b = <<Head(b)>> \o Tail(b)
  BY HeadTailAppend, <1>1
<1>4. (s \o <<Head(b)>>) \o Tail(b) = s \o (<<Head(b)>> \o Tail(b))
  BY <1>1, <1>2
<1> QED
  BY <1>2, <1>3, <1>4

\* The first of two sequences in a row is a prefix.
LEMMA ConcatPrefix ==
  ASSUME NEW S, NEW s \in Seq(S), NEW b \in Seq(S), NEW q \in Seq(S)
  PROVE  IsPrefixOf(s, s \o b \o q)
<1>1. s \o b \o q = s \o (b \o q) /\ b \o q \in Seq(S)
  BY ConcatProperties, SMTT(40)
<1>2. Len(s) \in Nat /\ Len(b \o q) \in Nat
  BY <1>1, LenProperties
<1> DEFINE r == b \o q
<1>3. r \in Seq(S) /\ Len(r) \in Nat
  BY <1>1, <1>2
<1>4. Len(s \o r) = Len(s) + Len(r) /\ \A i \in 1..Len(s) : (s \o r)[i] = s[i]
  <2> HIDE DEF r
  <2> QED
    BY <1>2, <1>3, ConcatProperties
<1> QED
  BY <1>1, <1>2, <1>3, <1>4 DEF IsPrefixOf
-----------------------------------------------------------------------------
(* The invariant. *)

\* The invariant holds at first.
LEMMA InitIInv == Init => IInv
<1> SUFFICES ASSUME Init PROVE IInv
  OBVIOUS
<1>1. TypeOK
  <2>1. <<>> \in Seq(Events) /\ Len(<<>>) <= BatchHint
    BY EmptySeq, BatchAssumption
  <2>2. emitted \in [Producers -> 0..MaxEmits]
    BY MaxEmitsAssumption DEF Init
  <2>3. live \in SUBSET Producers /\ born \in SUBSET Producers
    BY OwnersAssumption DEF Init, Producers
  <2> QED
    BY <2>1, <2>2, <2>3 DEF Init, TypeOK, ForwarderPcs
<1>2. PcInv /\ DropInv
  BY DEF Init, PcInv, DropInv, Ended
<1>3. SendInv
  BY DEF Init, SendInv, InSendOrder
<1>4. LogInv
  <2>1. handled = <<>> /\ buffer = <<>> /\ queue = <<>> /\ accepted = <<>>
    BY DEF Init
  <2>2. <<>> \o <<>> \o <<>> = <<>>
    OBVIOUS
  <2> QED
    BY <2>1, <2>2 DEF LogInv, Conservation, IsPrefixOf
<1> QED
  BY <1>1, <1>2, <1>3, <1>4 DEF IInv

\* Every step keeps TypeOK.
LEMMA TypeStep == TypeOK /\ PcInv /\ [Next]_vars => TypeOK'
<1> SUFFICES ASSUME TypeOK, PcInv, [Next]_vars PROVE TypeOK'
  OBVIOUS
<1> USE DEF TypeOK, appVars, chanVars, taskVars, dropVars
<1>1. ASSUME NEW p \in Producers, NewProducer(p) PROVE TypeOK'
  BY <1>1 DEF NewProducer
<1>2. ASSUME NEW p \in Producers, Emit(p) PROVE TypeOK'
  <2> DEFINE e == [from |-> p, n |-> emitted[p] + 1]
  <2>1. emitted[p] + 1 \in 1..MaxEmits
    <3>1. emitted[p] \in 0..MaxEmits /\ emitted[p] < MaxEmits
      BY <1>2 DEF Emit
    <3> QED
      BY <3>1, MaxEmitsAssumption
  <2>2. emitted' \in [Producers -> 0..MaxEmits]
    BY <1>2, <2>1, MaxEmitsAssumption DEF Emit
  <2>3. e \in Events
    BY <2>1 DEF Events
  <2>4. Append(queue, e) \in Seq(Events) /\ Append(accepted, e) \in Seq(Events)
    <3> HIDE DEF e
    <3> QED
      BY <2>3, AppendProperties
  <2>5. \/ queue' = Append(queue, e) /\ accepted' = Append(accepted, e)
        \/ queue' = queue /\ accepted' = accepted
    BY <1>2 DEF Emit
  <2> QED
    BY <1>2, <2>2, <2>4, <2>5 DEF Emit
<1>3. ASSUME NEW o \in Owners, DropOwner(o) PROVE TypeOK'
  BY <1>3 DEF DropOwner, LastOwner
<1>4. CASE DropReturns
  BY <1>4 DEF DropReturns
<1>5. CASE RecvMany
  <2>1. Len(queue) \in Nat \ {0}
    BY <1>5, EmptySeq DEF RecvMany, Receive
  <2>2. BatchSize(queue) \in 1..Len(queue)
    BY <2>1, BatchAssumption DEF BatchSize
  <2>3. buffer' \in Seq(Events) /\ queue' \in Seq(Events)
        /\ Len(buffer') = BatchSize(queue)
    BY <1>5, <2>2, TakeConcat, EmptySeq DEF RecvMany, Receive
  <2>4. BatchSize(queue) <= BatchHint
    BY <2>1, BatchAssumption DEF BatchSize
  <2> QED
    BY <1>5, <2>3, <2>4 DEF RecvMany, Receive, ForwarderPcs
<1>6. ASSUME NEW ok \in BOOLEAN, PushEvent(ok) PROVE TypeOK'
  <2>1. buffer # <<>>
    BY <1>6 DEF PushEvent, PcInv
  <2>2. Head(buffer) \in Events /\ Tail(buffer) \in Seq(Events)
        /\ Len(Tail(buffer)) <= BatchHint
    BY <2>1, HeadTailProperties, LenProperties, BatchAssumption
  <2>3. handled' \in Seq(Events)
    BY <1>6, <2>2, AppendProperties DEF PushEvent
  <2> QED
    BY <1>6, <2>2, <2>3 DEF PushEvent, AfterPush, ForwarderPcs
<1>7. CASE ObserveCancel
  BY <1>7 DEF ObserveCancel, ForwarderPcs
<1>8. CASE DrainEnds
  BY <1>8 DEF DrainEnds, ForwarderPcs
<1>9. CASE ShutdownExporter
  BY <1>9 DEF ShutdownExporter, ForwarderPcs
<1>10. CASE ForwarderDies
  <2>1. <<>> \in Seq(Events) /\ Len(<<>>) <= BatchHint
    BY EmptySeq, BatchAssumption
  <2> QED
    BY <1>10, <2>1 DEF ForwarderDies, ForwarderPcs
<1>11. CASE UNCHANGED vars
  BY <1>11 DEF vars
<1> QED
  BY <1>1, <1>2, <1>3, <1>4, <1>5, <1>6, <1>7, <1>8, <1>9, <1>10, <1>11
     DEF Next, Forwarder

\* Every step keeps PcInv.
LEMMA PcStep == TypeOK /\ PcInv /\ DropInv /\ [Next]_vars => PcInv'
<1> SUFFICES ASSUME TypeOK, PcInv, DropInv, [Next]_vars PROVE PcInv'
  OBVIOUS
<1> USE DEF PcInv, appVars, chanVars, taskVars, dropVars
<1>1. ASSUME NEW p \in Producers, NewProducer(p) PROVE PcInv'
  BY <1>1 DEF NewProducer
<1>2. ASSUME NEW p \in Producers, Emit(p) PROVE PcInv'
  BY <1>2 DEF Emit, TypeOK, ForwarderPcs
<1>3. ASSUME NEW o \in Owners, DropOwner(o) PROVE PcInv'
  BY <1>3 DEF DropOwner, LastOwner
<1>4. CASE DropReturns
  BY <1>4 DEF DropReturns
<1>5. CASE RecvMany
  <2>1. Len(queue) \in Nat \ {0}
    BY <1>5, EmptySeq DEF RecvMany, Receive, TypeOK
  <2>2. BatchSize(queue) \in 1..Len(queue)
    BY <2>1, BatchAssumption DEF BatchSize
  <2>3. buffer' # <<>>
    BY <1>5, <2>2, TakeConcat, EmptySeq DEF RecvMany, Receive, TypeOK
  <2> QED
    BY <1>5, <2>3 DEF RecvMany, Receive
<1>6. ASSUME NEW ok \in BOOLEAN, PushEvent(ok) PROVE PcInv'
  <2>1. buffer # <<>> /\ buffer' = Tail(buffer)
    BY <1>6 DEF PushEvent
  <2>2. Tail(buffer) \in Seq(Events) /\ Len(Tail(buffer)) = Len(buffer) - 1
    BY <2>1, HeadTailProperties DEF TypeOK
  <2>3. Len(buffer) \in Nat \ {0}
    BY <2>1, EmptySeq DEF TypeOK
  <2>4. Tail(buffer) = <<>> <=> Len(Tail(buffer)) = 0
    BY <2>2, EmptySeq
  <2>5. Tail(buffer) = <<>> <=> ~(Len(buffer) > 1)
    <3> DEFINE t == Tail(buffer)
               n == Len(buffer)
    <3>1. Len(t) = n - 1 /\ n \in Nat \ {0} /\ (t = <<>> <=> Len(t) = 0)
      BY <2>2, <2>3, <2>4
    <3> HIDE DEF t, n
    <3>2. t = <<>> <=> ~(n > 1)
      BY <3>1
    <3> QED
      BY <3>2 DEF t, n
  <2> QED
    BY <1>6, <2>1, <2>5 DEF PushEvent, AfterPush
<1>7. CASE ObserveCancel
  BY <1>7 DEF ObserveCancel
<1>8. CASE DrainEnds
  BY <1>8 DEF DrainEnds
<1>9. CASE ShutdownExporter
  BY <1>9 DEF ShutdownExporter
<1>10. CASE ForwarderDies
  BY <1>10 DEF ForwarderDies
<1>11. CASE UNCHANGED vars
  BY <1>11 DEF vars
<1> QED
  BY <1>1, <1>2, <1>3, <1>4, <1>5, <1>6, <1>7, <1>8, <1>9, <1>10, <1>11
     DEF Next, Forwarder

\* Every step keeps DropInv.
LEMMA DropStep == TypeOK /\ DropInv /\ [Next]_vars => DropInv'
<1> SUFFICES ASSUME TypeOK, DropInv, [Next]_vars PROVE DropInv'
  OBVIOUS
<1> USE DEF DropInv, Ended, appVars, chanVars, taskVars, dropVars
<1>1. ASSUME NEW p \in Producers, NewProducer(p) PROVE DropInv'
  <2>1. CASE live \cap Observers # {}
    <3>1. ~cancelled
      BY <2>1, OwnersAssumption
    <3> QED
      BY <1>1, <3>1 DEF NewProducer
  <2>2. CASE p \in Senders
    <3>1. live' \cap Owners = live \cap Owners
      BY <1>1, <2>2, SendersAssumption DEF NewProducer
    <3> QED
      BY <1>1, <3>1 DEF NewProducer
  <2> QED
    BY <1>1, <2>1, <2>2 DEF NewProducer
<1>2. ASSUME NEW p \in Producers, Emit(p) PROVE DropInv'
  BY <1>2 DEF Emit
<1>3. ASSUME NEW o \in Owners, DropOwner(o) PROVE DropInv'
  <2>1. ~cancelled
    BY <1>3 DEF DropOwner, LastOwner
  <2>2. CASE live \cap Owners = {o}
    <3>1. live' \cap Owners = {}
      BY <1>3, <2>2 DEF DropOwner, LastOwner
    <3> QED
      BY <1>3, <2>1, <2>2, <3>1 DEF DropOwner, LastOwner
  <2>3. CASE live \cap Owners # {o}
    BY <1>3, <2>1, <2>3 DEF DropOwner, LastOwner
  <2> QED
    BY <2>2, <2>3
<1>4. CASE DropReturns
  BY <1>4 DEF DropReturns
<1>5. CASE Forwarder
  BY <1>5 DEF Forwarder, RecvMany, Receive, PushEvent, ObserveCancel, DrainEnds, ShutdownExporter
<1>6. CASE ForwarderDies
  BY <1>6 DEF ForwarderDies
<1>7. CASE UNCHANGED vars
  BY <1>7 DEF vars
<1> QED
  BY <1>1, <1>2, <1>3, <1>4, <1>5, <1>6, <1>7 DEF Next

\* Every step keeps LogInv.
LEMMA LogStep ==
  TypeOK /\ TypeOK' /\ PcInv /\ PcInv' /\ LogInv /\ [Next]_vars => LogInv'
<1> SUFFICES ASSUME TypeOK, TypeOK', PcInv, PcInv', LogInv, [Next]_vars
             PROVE  LogInv'
  OBVIOUS
<1> USE DEF appVars, chanVars, taskVars, dropVars
(* While the forwarder lives, Conservation alone gives the prefix. *)
<1>1. Conservation' /\ fpc' # "dead" => LogInv'
  BY ConcatPrefix DEF TypeOK, LogInv, Conservation
<1>2. CASE fpc' = "dead"
  <2>1. handled' = handled
    BY <1>2 DEF Next, NewProducer, Emit, DropOwner, LastOwner, DropReturns, Forwarder, RecvMany, Receive,
      PushEvent, AfterPush, ObserveCancel, DrainEnds, ShutdownExporter, ForwarderDies, vars
  <2>2. accepted' = accepted
    <3>1. CASE fpc = "dead"
      BY <3>1 DEF PcInv, Next, NewProducer, Emit, DropOwner, LastOwner, DropReturns, Forwarder,
        RecvMany, Receive, PushEvent, ObserveCancel, DrainEnds, ShutdownExporter,
        ForwarderDies, vars
    <3>2. CASE fpc # "dead"
      BY <1>2, <3>2 DEF Next, NewProducer, Emit, DropOwner, LastOwner, DropReturns, Forwarder,
        RecvMany, Receive, PushEvent, AfterPush, ObserveCancel, DrainEnds, ShutdownExporter,
        ForwarderDies, vars
    <3> QED
      BY <3>1, <3>2
  <2> QED
    BY <1>2, <2>1, <2>2 DEF LogInv, Conservation
<1>3. CASE fpc' # "dead"
  <2>0. fpc # "dead" /\ accepted = handled \o buffer \o queue
    BY <1>3 DEF LogInv, Conservation, Next, NewProducer, Emit, DropOwner, LastOwner, DropReturns,
      Forwarder, RecvMany, Receive, PushEvent, ObserveCancel, DrainEnds, ShutdownExporter,
      ForwarderDies, vars
  <2> DEFINE h == handled
             b == buffer
             q == queue
  <2>9. h \in Seq(Events) /\ b \in Seq(Events) /\ q \in Seq(Events)
    BY DEF TypeOK
  <2>1. ASSUME NEW p \in Producers, Emit(p) PROVE Conservation'
    <3> DEFINE e == [from |-> p, n |-> emitted[p] + 1]
    <3>1. CASE open
      <4>1. e \in Events
        BY <2>1, MaxEmitsAssumption DEF Emit, Events, TypeOK
      <4>2. accepted' = Append(accepted, e) /\ queue' = Append(queue, e)
        BY <2>1, <3>1 DEF Emit
      <4>3. Append(h \o b \o q, e) = h \o b \o Append(q, e)
        <5>1. h \in Seq(Events) /\ b \in Seq(Events) /\ q \in Seq(Events) /\ e \in Events
          BY <2>9, <4>1
        <5> HIDE DEF e, h, b, q
        <5>2. h \o b \in Seq(Events) /\ h \o b \o q \in Seq(Events) /\ <<e>> \in Seq(Events)
          BY <5>1, ConcatProperties
        <5>3. Append(h \o b \o q, e) = (h \o b \o q) \o <<e>>
          BY <5>1, <5>2, AppendIsConcat
        <5>4. Append(q, e) = q \o <<e>>
          BY <5>1, <5>2, AppendIsConcat
        <5>5. ((h \o b) \o q) \o <<e>> = (h \o b) \o (q \o <<e>>)
          BY <5>1, <5>2
        <5> QED
          BY <5>3, <5>4, <5>5
      <4> QED
        BY <2>0, <2>1, <4>2, <4>3 DEF Conservation, Emit
    <3>2. CASE ~open
      BY <2>0, <2>1, <3>2 DEF Conservation, Emit
    <3> QED
      BY <3>1, <3>2
  <2>2. ASSUME RecvMany PROVE Conservation'
    <3>1. Len(queue) \in Nat \ {0}
      BY <2>2, EmptySeq DEF RecvMany, Receive, TypeOK
    <3>2. BatchSize(queue) \in 1..Len(queue)
      BY <3>1, BatchAssumption DEF BatchSize
    <3>3. buffer = <<>>
      BY <2>2 DEF RecvMany, Receive, PcInv
    <3> DEFINE n == BatchSize(q)
    <3>4. h \o SubSeq(q, 1, n) \o SubSeq(q, n + 1, Len(q)) = h \o <<>> \o q
      <4>1. n \in 1..Len(q)
        BY <3>2
      <4> HIDE DEF h, q, n
      <4> QED
        BY <2>9, <4>1, TakeConcat, ZenonT(40)
    <3>5. /\ accepted' = accepted /\ handled' = h
          /\ buffer' = SubSeq(q, 1, n) /\ queue' = SubSeq(q, n + 1, Len(q))
      BY <2>2 DEF RecvMany, Receive
    <3>6. accepted = h \o <<>> \o q
      BY <2>0, <3>3
    <3> HIDE DEF h, q, n
    <3> QED
      BY <3>4, <3>5, <3>6 DEF Conservation
  <2>3. ASSUME NEW ok \in BOOLEAN, PushEvent(ok) PROVE Conservation'
    <3>1. buffer # <<>>
      BY <2>3 DEF PushEvent, PcInv
    <3>2. Append(h, Head(b)) \o Tail(b) \o q = h \o b \o q
      <4>1. b # <<>>
        BY <3>1
      <4> HIDE DEF h, b, q
      <4> QED
        BY <2>9, <4>1, PushConcat
    <3>3. /\ accepted' = accepted /\ queue' = q
          /\ handled' = Append(h, Head(b)) /\ buffer' = Tail(b)
      BY <2>3 DEF PushEvent
    <3>4. accepted = h \o b \o q
      BY <2>0
    <3> HIDE DEF h, b, q
    <3> QED
      BY <3>2, <3>3, <3>4 DEF Conservation
  <2>4. ASSUME UNCHANGED <<accepted, handled, buffer, queue>> PROVE Conservation'
    BY <2>0, <2>4 DEF Conservation
  <2> QED
    BY <1>1, <1>3, <2>1, <2>2, <2>3, <2>4 DEF Next, NewProducer, DropOwner, LastOwner, DropReturns,
      Forwarder, ObserveCancel, DrainEnds, ShutdownExporter, ForwarderDies, vars
<1> QED
  BY <1>2, <1>3

(* One accepted send more: the parts of SendInv that speak of the sequence. *)
LEMMA SendAppend ==
  ASSUME NEW s \in Seq(Events), NEW p \in Producers, NEW m \in Nat,
         [from |-> p, n |-> m + 1] \in Events,
         InSendOrder(s),
         \A i \in 1..Len(s) : s[i].from = p => s[i].n <= m,
         \A k \in 1..m : \E i \in 1..Len(s) : s[i] = [from |-> p, n |-> k]
  PROVE  InSendOrder(Append(s, [from |-> p, n |-> m + 1]))
<1> DEFINE e == [from |-> p, n |-> m + 1]
           t == Append(s, e)
<1>1. /\ Len(s) \in Nat
      /\ Len(t) = Len(s) + 1
      /\ \A i \in 1..Len(s) : t[i] = s[i]
      /\ t[Len(s) + 1] = e
  BY AppendProperties, LenProperties
<1>2. \A i \in 1..Len(s) : s[i] # e
  OBVIOUS
<1>3. e.n = m + 1 /\ e.from = p
  OBVIOUS
<1> HIDE DEF t, e
<1>4. \A i, j \in 1..Len(t) : i # j => t[i] # t[j]
  <2> SUFFICES ASSUME NEW i \in 1..Len(t), NEW j \in 1..Len(t), i # j
               PROVE  t[i] # t[j]
    OBVIOUS
  <2>1. CASE i \in 1..Len(s) /\ j \in 1..Len(s)
    BY <1>1, <2>1 DEF InSendOrder
  <2>2. CASE i = Len(s) + 1 \/ j = Len(s) + 1
    BY <1>1, <1>2, <2>2
  <2> QED
    BY <1>1, <2>1, <2>2
<1>5. \A i \in 1..Len(t) : \A k \in 1..(t[i].n - 1) :
        \E j \in 1..(i - 1) : t[j] = [from |-> t[i].from, n |-> k]
  <2> SUFFICES ASSUME NEW i \in 1..Len(t), NEW k \in 1..(t[i].n - 1)
               PROVE  \E j \in 1..(i - 1) : t[j] = [from |-> t[i].from, n |-> k]
    OBVIOUS
  <2>1. CASE i \in 1..Len(s)
    <3>1. PICK j \in 1..(i - 1) : s[j] = [from |-> s[i].from, n |-> k]
      BY <1>1, <2>1 DEF InSendOrder
    <3>2. j \in 1..Len(s)
      BY <1>1, <2>1
    <3> QED
      BY <1>1, <2>1, <3>1, <3>2
  <2>2. CASE i = Len(s) + 1
    <3>1. k \in 1..m
      BY <1>1, <1>3, <2>2
    <3>2. PICK j \in 1..Len(s) : s[j] = [from |-> p, n |-> k]
      BY <3>1
    <3> QED
      BY <1>1, <1>3, <2>2, <3>2
  <2> QED
    BY <1>1, <2>1, <2>2
<1> QED
  BY <1>4, <1>5 DEF InSendOrder, t, e

\* Every step keeps SendInv.
LEMMA SendStep ==
  TypeOK /\ TypeOK' /\ PcInv /\ DropInv /\ SendInv /\ [Next]_vars => SendInv'
<1> SUFFICES ASSUME TypeOK, TypeOK', PcInv, DropInv, SendInv, [Next]_vars
             PROVE  SendInv'
  OBVIOUS
<1> USE DEF appVars, chanVars, taskVars, dropVars
<1>1. ASSUME NEW p \in Producers, Emit(p), open PROVE SendInv'
  <2> DEFINE e == [from |-> p, n |-> emitted[p] + 1]
  <2>1. e \in Events /\ accepted \in Seq(Events) /\ emitted[p] \in Nat
    BY <1>1, MaxEmitsAssumption DEF Emit, Events, TypeOK
  <2>2. accepted' = Append(accepted, e)
    BY <1>1 DEF Emit
  <2>3. emitted' = [emitted EXCEPT ![p] = @ + 1]
    BY <1>1 DEF Emit
  <2>4. /\ Len(accepted) \in Nat
        /\ Len(accepted') = Len(accepted) + 1
        /\ \A i \in 1..Len(accepted) : accepted'[i] = accepted[i]
        /\ accepted'[Len(accepted) + 1] = e
    <3> HIDE DEF e
    <3> QED
      BY <2>1, <2>2, AppendProperties, LenProperties
  <2>5. \A i \in 1..Len(accepted) : accepted[i] \in Events
    BY <2>1, ElementOfSeq
  <2>6. \A i \in 1..Len(accepted') : accepted'[i].n <= emitted'[accepted'[i].from]
    <3> SUFFICES ASSUME NEW i \in 1..Len(accepted')
                 PROVE  accepted'[i].n <= emitted'[accepted'[i].from]
      OBVIOUS
    <3>1. CASE i \in 1..Len(accepted)
      <4>1. accepted[i].n <= emitted[accepted[i].from] /\ accepted[i] \in Events
        BY <2>5, <3>1 DEF SendInv
      <4>2. accepted[i].from \in Producers /\ accepted[i].n \in Nat
        BY <4>1 DEF Events
      <4>3. emitted[accepted[i].from] \in Nat
        BY <4>2 DEF TypeOK
      <4>4. emitted[accepted[i].from] <= emitted'[accepted[i].from]
        BY <2>3, <4>2, <4>3 DEF TypeOK
      <4>5. emitted'[accepted[i].from] \in Nat
        BY <4>2, MaxEmitsAssumption DEF TypeOK
      <4>6. accepted'[i] = accepted[i]
        BY <2>4, <3>1
      <4> QED
        BY <4>1, <4>2, <4>3, <4>4, <4>5, <4>6
    <3>2. CASE i = Len(accepted) + 1
      BY <2>1, <2>3, <2>4, <3>2 DEF TypeOK
    <3> QED
      BY <2>4, <3>1, <3>2
  <2>7. ASSUME NEW q \in Producers, NEW k \in 1..emitted'[q]
        PROVE  \E i \in 1..Len(accepted') : accepted'[i] = [from |-> q, n |-> k]
    <3>1. CASE q = p /\ k = emitted[p] + 1
      BY <2>4, <3>1
    <3>2. CASE ~(q = p /\ k = emitted[p] + 1)
      <4>1. k \in 1..emitted[q]
        BY <2>1, <2>3, <3>2 DEF TypeOK
      <4>2. PICK i \in 1..Len(accepted) : accepted[i] = [from |-> q, n |-> k]
        BY <1>1, <4>1 DEF SendInv
      <4> QED
        BY <2>4, <4>2
    <3> QED
      BY <3>1, <3>2
  <2>8. InSendOrder(accepted')
    <3>1. \A i \in 1..Len(accepted) : accepted[i].from = p => accepted[i].n <= emitted[p]
      BY DEF SendInv
    <3>2. \A k \in 1..emitted[p] :
            \E i \in 1..Len(accepted) : accepted[i] = [from |-> p, n |-> k]
      BY <1>1 DEF SendInv
    <3>3. InSendOrder(accepted)
      BY DEF SendInv
    <3> QED
      BY <2>1, <2>2, <3>1, <3>2, <3>3, SendAppend
  <2> QED
    BY <2>6, <2>7, <2>8 DEF SendInv
<1>2. ASSUME NEW p \in Producers, Emit(p), ~open PROVE SendInv'
  <2>1. accepted' = accepted /\ open' = open /\ fpc' = fpc
    BY <1>2 DEF Emit
  <2>2. p \notin Owners \/ fpc = "dead"
    BY <1>2 DEF Emit, DropInv, PcInv, TypeOK, ForwarderPcs
  <2>3. emitted' = [emitted EXCEPT ![p] = @ + 1]
    BY <1>2 DEF Emit
  <2>4. \A i \in 1..Len(accepted) : accepted[i].n <= emitted'[accepted[i].from]
    <3> SUFFICES ASSUME NEW i \in 1..Len(accepted)
                 PROVE  accepted[i].n <= emitted'[accepted[i].from]
      OBVIOUS
    <3>1. accepted[i] \in Events
      BY ElementOfSeq DEF TypeOK
    <3>2. accepted[i].from \in Producers /\ accepted[i].n \in Nat
      BY <3>1 DEF Events
    <3>3. emitted[accepted[i].from] \in Nat /\ emitted'[accepted[i].from] \in Nat
      BY <3>2, MaxEmitsAssumption DEF TypeOK
    <3>4. emitted[accepted[i].from] <= emitted'[accepted[i].from]
      BY <2>3, <3>2, <3>3 DEF TypeOK
    <3> QED
      BY <3>2, <3>3, <3>4 DEF SendInv
  <2>5. ASSUME NEW q \in Owners, fpc # "dead", NEW k \in 1..emitted'[q]
        PROVE  \E i \in 1..Len(accepted) : accepted[i] = [from |-> q, n |-> k]
    <3>1. q # p /\ q \in Producers
      BY <2>2, <2>5 DEF Producers
    <3>2. emitted'[q] = emitted[q]
      BY <2>3, <3>1 DEF TypeOK
    <3> QED
      BY <2>5, <3>1, <3>2 DEF SendInv
  <2> QED
    BY <1>2, <2>1, <2>4, <2>5 DEF SendInv
<1>3. CASE UNCHANGED <<accepted, emitted>>
            /\ (open' => open) /\ (fpc' # "dead" => fpc # "dead")
  BY <1>3 DEF SendInv
<1> QED
  BY <1>1, <1>2, <1>3 DEF Next, NewProducer, DropOwner, LastOwner, DropReturns, Forwarder, RecvMany, Receive,
    PushEvent, ObserveCancel, DrainEnds, ShutdownExporter, ForwarderDies, Ended, vars
-----------------------------------------------------------------------------
(* The theorems. *)

\* Every step keeps the invariant.
LEMMA NextIInv == IInv /\ [Next]_vars => IInv'
BY TypeStep, PcStep, DropStep, SendStep, LogStep DEF IInv

(* The inductive invariant holds in every reachable state. *)
THEOREM Invariance == SafetySpec => []IInv
BY InitIInv, NextIInv, PTL DEF SafetySpec

(* Every variable keeps its type. *)
THEOREM TypeCorrect == SafetySpec => []TypeOK
<1>1. IInv => TypeOK
  BY DEF IInv
<1> QED
  BY <1>1, Invariance, PTL

(* Nothing the channel took is lost, doubled or reordered on its way to    *)
(* the exporter, for any number of producers and any batch size.           *)
THEOREM NothingLost == SafetySpec => []Conservation
<1>1. IInv => Conservation
  BY DEF IInv, LogInv
<1> QED
  BY <1>1, Invariance, PTL

(* A handle or observer never emits into a closed channel. *)
THEOREM OwnersAccepted == SafetySpec => []OwnersNeverRefused
<1>1. IInv => OwnersNeverRefused
  BY DEF IInv, OwnersNeverRefused, TypeOK, PcInv, DropInv, ForwarderPcs
<1> QED
  BY <1>1, Invariance, PTL

(* The exporter sees every producer's events in order and without gaps. *)
THEOREM HandledOrdered == SafetySpec => []HandledInSendOrder
<1>1. ASSUME IInv PROVE HandledInSendOrder
  <2>1. IsPrefixOf(handled, accepted) /\ InSendOrder(accepted)
    BY <1>1 DEF IInv, LogInv, SendInv
  <2>2. Len(handled) \in Nat /\ Len(accepted) \in Nat
    BY <1>1, LenProperties DEF IInv, TypeOK
  <2>3. \A i \in 1..Len(handled) : handled[i] = accepted[i] /\ i \in 1..Len(accepted)
    BY <2>1, <2>2 DEF IsPrefixOf
  <2>4. \A i \in 1..Len(handled) : \A j \in 1..(i - 1) : j \in 1..Len(handled)
    BY <2>2
  <2>5. \A i, j \in 1..Len(handled) : i # j => handled[i] # handled[j]
    BY <2>1, <2>3 DEF InSendOrder
  <2>6. ASSUME NEW i \in 1..Len(handled), NEW k \in 1..(handled[i].n - 1)
        PROVE  \E j \in 1..(i - 1) : handled[j] = [from |-> handled[i].from, n |-> k]
    <3>1. PICK j \in 1..(i - 1) : accepted[j] = [from |-> accepted[i].from, n |-> k]
      BY <2>1, <2>3 DEF InSendOrder
    <3> QED
      BY <2>3, <2>4, <3>1
  <2> QED
    BY <2>5, <2>6 DEF HandledInSendOrder, InSendOrder
<1> QED
  BY <1>1, Invariance, PTL

(* When the drop of the last owner returns, every event an owner emitted   *)
(* has reached the exporter.                                               *)
THEOREM DropFlushesAll == SafetySpec => []DropFlushes
<1>1. ASSUME IInv, drop = "returned", fpc # "dead"
      PROVE  /\ fpc = "done"
             /\ handled = accepted
             /\ \A o \in Owners : \A k \in 1..emitted[o] :
                  \E i \in 1..Len(handled) : handled[i] = [from |-> o, n |-> k]
  <2>1. fpc = "done"
    BY <1>1 DEF IInv, DropInv, Ended
  <2>2. queue = <<>> /\ buffer = <<>>
    BY <1>1, <2>1 DEF IInv, PcInv
  <2>3. accepted = handled \o <<>> \o <<>> /\ handled \in Seq(Events)
    BY <1>1, <2>2 DEF IInv, LogInv, Conservation, TypeOK
  <2>4. handled = accepted
    BY <2>3, ConcatEmptySeq
  <2> QED
    BY <1>1, <2>1, <2>4 DEF IInv, SendInv, Producers
<1>2. IInv => DropFlushes
  BY <1>1 DEF DropFlushes
<1> QED
  BY <1>2, Invariance, PTL

(* Every step of the pipeline is a step of EventDelivery, or none of its. *)
LEMMA DeliveryStep ==
  IInv /\ IInv' /\ [Next]_vars => [Delivery!Next]_(Delivery!vars)
<1> SUFFICES ASSUME IInv, IInv', [Next]_vars
             PROVE  [Delivery!Next]_(Delivery!vars)
  OBVIOUS
<1> DEFINE phase == IF fpc = "dead" THEN "failed"
                    ELSE IF fpc = "done" THEN "flushed"
                    ELSE IF open THEN "open" ELSE "closed"
           returned == drop = "returned"
<1> USE DEF appVars, chanVars, taskVars, dropVars
<1>1. TypeOK /\ PcInv /\ DropInv
  BY DEF IInv
(* A step that leaves the four mapped variables alone is a stutter. *)
<1>2. UNCHANGED <<accepted, handled, phase, returned>>
        => [Delivery!Next]_(Delivery!vars)
  BY DEF Delivery!vars
<1>3. ASSUME NEW p \in Producers, NewProducer(p) PROVE [Delivery!Next]_(Delivery!vars)
  BY <1>2, <1>3 DEF NewProducer
<1>4. ASSUME NEW p \in Producers, Emit(p) PROVE [Delivery!Next]_(Delivery!vars)
  <2> DEFINE e == [from |-> p, n |-> emitted[p] + 1]
  <2>1. CASE open
    <3>1. e \in Events
      BY <1>4, <1>1, MaxEmitsAssumption DEF Emit, Events, TypeOK
    <3>2. Delivery!Accept(e)
      BY <1>1, <1>4, <2>1 DEF Emit, PcInv, Delivery!Accept
    <3> QED
      BY <3>1, <3>2 DEF Delivery!Next
  <2>2. CASE ~open
    BY <1>2, <1>4, <2>2 DEF Emit
  <2> QED
    BY <2>1, <2>2
<1>5. ASSUME NEW o \in Owners, DropOwner(o) PROVE [Delivery!Next]_(Delivery!vars)
  <2>1. drop = "none"
    BY <1>1, <1>5 DEF DropOwner, LastOwner, DropInv
  <2> QED
    BY <1>2, <1>5, <2>1 DEF DropOwner, LastOwner
<1>6. CASE DropReturns
  <2>1. Delivery!Return
    BY <1>6 DEF DropReturns, Ended, Delivery!Return
  <2> QED
    BY <2>1 DEF Delivery!Next
<1>7. CASE RecvMany
  BY <1>2, <1>7 DEF RecvMany, Receive
<1>8. ASSUME NEW ok \in BOOLEAN, PushEvent(ok) PROVE [Delivery!Next]_(Delivery!vars)
  <2>1. fpc' \in {"export", "drainExport", "select", "drain"} /\ accepted' = accepted
        /\ open' = open /\ drop' = drop
    BY <1>8 DEF PushEvent, AfterPush
  <2>2. IsPrefixOf(handled', accepted)
    BY <2>1 DEF IInv, LogInv
  <2>3. Len(handled) \in Nat /\ Len(accepted) \in Nat /\ handled \in Seq(Events)
    BY <1>1, LenProperties DEF TypeOK
  <2>4. Head(buffer) \in Events
    BY <1>1, <1>8, HeadTailProperties DEF PushEvent, PcInv, TypeOK
  <2>5. /\ handled' = Append(handled, Head(buffer))
        /\ Len(handled') = Len(handled) + 1
        /\ handled'[Len(handled) + 1] = Head(buffer)
    BY <1>8, <2>3, <2>4, AppendProperties DEF PushEvent
  <2>6. Len(handled) < Len(accepted) /\ Head(buffer) = accepted[Len(handled) + 1]
    BY <2>2, <2>3, <2>5 DEF IsPrefixOf
  <2>7. fpc \in {"export", "drainExport"}
    BY <1>8 DEF PushEvent
  <2>8. Delivery!Deliver
    BY <2>1, <2>5, <2>6, <2>7 DEF Delivery!Deliver
  <2> QED
    BY <2>8 DEF Delivery!Next
<1>9. CASE ObserveCancel
  <2>1. Delivery!Close
    BY <1>1, <1>9 DEF ObserveCancel, PcInv, Delivery!Close
  <2> QED
    BY <2>1 DEF Delivery!Next
<1>10. CASE DrainEnds
  BY <1>2, <1>10 DEF DrainEnds
<1>11. CASE ShutdownExporter
  <2>1. queue = <<>> /\ buffer = <<>>
    BY <1>1, <1>11 DEF ShutdownExporter, PcInv
  <2>2. accepted = handled \o <<>> \o <<>> /\ handled \in Seq(Events)
    BY <1>11, <2>1 DEF ShutdownExporter, IInv, LogInv, Conservation, TypeOK
  <2>3. handled = accepted
    BY <2>2, ConcatEmptySeq
  <2>4. Delivery!Flush
    BY <1>1, <1>11, <2>3 DEF ShutdownExporter, PcInv, Delivery!Flush
  <2> QED
    BY <2>4 DEF Delivery!Next
<1>12. CASE ForwarderDies
  <2>1. Delivery!Fail
    BY <1>12 DEF ForwarderDies, Ended, Delivery!Fail
  <2> QED
    BY <2>1 DEF Delivery!Next
<1>13. CASE UNCHANGED vars
  BY <1>2, <1>13 DEF vars
<1> QED
  BY <1>3, <1>4, <1>5, <1>6, <1>7, <1>8, <1>9, <1>10, <1>11, <1>12, <1>13
     DEF Next, Forwarder

(* The pipeline implements its promise. *)
THEOREM ImplementsDelivery == SafetySpec => DeliverySpec
<1>1. Init => Delivery!Init
  BY DEF Init, Delivery!Init
<1> QED
  BY <1>1, Invariance, DeliveryStep, PTL DEF SafetySpec, DeliverySpec, Delivery!Spec
=============================================================================
