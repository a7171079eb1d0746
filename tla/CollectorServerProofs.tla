------------------------ MODULE CollectorServerProofs ------------------------
(***************************************************************************)
(* Theorems about CollectorServer for every set of sources and streams,    *)
(* every number of batches and of failures.  The argument: the entry of a  *)
(* source counts its open streams (EntryCountsStreams), so an entry is     *)
(* there for as long as a handler can look it up; the clone a handler      *)
(* holds is always that of its source's entry (HoldInv), and the cells in  *)
(* use are those of the entries (CellInv).  So a cell whose entry goes has *)
(* no holder left, and a stream meets the same cell from its registration  *)
(* to its end, which is why its batches stay together (MirrorInv).         *)
(***************************************************************************)
EXTENDS CollectorServer, TLAPS, FiniteSetTheorems, SequenceTheorems

Pcs == {"unborn", "read", "get", "make", "ingest", "leave", "closed"}
InUse == {"empty", "making", "built"}
Holding == {"get", "make", "ingest"}

TypeOK ==
  /\ pc \in [Streams -> Pcs]
  /\ got \in [Streams -> Nat]
  /\ hold \in [Streams -> Cells \cup {None}]
  /\ entry \in [Sources -> Cells \cup {None}]
  /\ openStreams \in [Sources -> Nat]
  /\ cell \in [Cells -> InUse \cup {"unused", "dropping", "flushed", "discarded"}]
  /\ mirror \in [Cells -> Seq([stream : Streams, n : Nat])]

(* A clone is held from the look-up to the end of the ingest, and it is    *)
(* that of the entry. *)
HoldInv ==
  \A t \in Streams :
    /\ hold[t] # None <=> pc[t] \in Holding
    /\ hold[t] # None => hold[t] = entry[SourceOf[t]]
    /\ pc[t] = "make" => cell[hold[t]] = "making"
    /\ pc[t] = "ingest" => cell[hold[t]] = "built"

(* One handler builds at a time. *)
MakeInv ==
  \A t, u \in Streams : pc[t] = "make" /\ pc[u] = "make" /\ hold[t] = hold[u] => t = u

(* A cell in use is the one in the entry of its source, and no cell is     *)
(* used a second time. *)
CellInv ==
  /\ \A c \in Cells : pc[c] = "unborn" => cell[c] = "unused"
  /\ \A c \in Cells : cell[c] \in InUse => entry[SourceOf[c]] = c
  /\ \A s \in Sources : entry[s] # None => SourceOf[entry[s]] = s /\ cell[entry[s]] \in InUse

(* How many of a stream's batches have been ingested, while it may go on.  *)
Ingested(t) == IF pc[t] \in Holding THEN got[t] - 1 ELSE got[t]

(* What is known of the n-th batch of a stream when it is in a context. *)
Placed(t, n, c) ==
  /\ pc[t] # "unborn"
  /\ Open(t) => entry[SourceOf[t]] = c
  /\ n <= got[t]
  /\ pc[t] \in Holding => n < got[t]

(* What a context has of a stream came by its source's entry. *)
PlacedInv == \A c \in Cells : \A i \in 1..Len(mirror[c]) :
               Placed(mirror[c][i].stream, mirror[c][i].n, c)

Has(c, t, k) == \E i \in 1..Len(mirror[c]) : mirror[c][i] = [stream |-> t, n |-> k]

(* As far as a stream that may go on has got, its context is complete. *)
CompleteInv == \A t \in Streams : pc[t] \in Holding \cup {"read"} =>
                 \A k \in 1..Ingested(t) : Has(entry[SourceOf[t]], t, k)

GotInv == \A t \in Streams : /\ pc[t] = "unborn" => got[t] = 0
                             /\ pc[t] \in Holding => got[t] > 0

MirrorInv == PlacedInv /\ CompleteInv /\ GotInv

IInv == /\ TypeOK /\ EntryCountsStreams /\ HoldInv /\ MakeInv /\ CellInv
        /\ MirrorInv /\ StreamUnsplit

(* Of the contexts of a source at most one is not on its way out. *)
OneLive ==
  \A c, d \in Cells :
    SourceOf[c] = SourceOf[d] /\ cell[c] \in InUse /\ cell[d] \in InUse => c = d
-----------------------------------------------------------------------------
(* What an open stream finds. *)

(* A source with an open stream has an entry, and its count is positive.   *)
LEMMA EntryHasOpen ==
  ASSUME TypeOK, EntryCountsStreams, NEW t \in Streams, Open(t)
  PROVE  openStreams[SourceOf[t]] > 0 /\ entry[SourceOf[t]] \in Cells
<1> DEFINE s == SourceOf[t]
           S == {u \in Streams : Open(u) /\ SourceOf[u] = s}
<1>1. s \in Sources
  BY ServerAssumption
<1>2. IsFiniteSet(S)
  BY ServerAssumption, FS_Subset
<1>3. Cardinality(S) # 0
  BY <1>2, FS_EmptySet
<1>4. openStreams[s] = Cardinality(S) /\ (entry[s] = None <=> openStreams[s] = 0)
  BY <1>1 DEF EntryCountsStreams
<1>5. openStreams[s] \in Nat /\ entry[s] \in Cells \cup {None}
  BY <1>1 DEF TypeOK
<1> QED
  BY <1>3, <1>4, <1>5

(* A stream that closes as the last one is the only one open.              *)
LEMMA LastIsAlone ==
  ASSUME TypeOK, EntryCountsStreams, NEW t \in Streams, Open(t),
         ~(openStreams[SourceOf[t]] > 1),
         NEW u \in Streams, Open(u), SourceOf[u] = SourceOf[t]
  PROVE  u = t
<1> DEFINE s == SourceOf[t]
           S == {v \in Streams : Open(v) /\ SourceOf[v] = s}
<1>1. s \in Sources
  BY ServerAssumption
<1>2. IsFiniteSet(S)
  BY ServerAssumption, FS_Subset
<1>3. openStreams[s] = Cardinality(S)
  BY <1>1 DEF EntryCountsStreams
<1>4. openStreams[s] = 1
  <2>1. openStreams[s] > 0
    BY EntryHasOpen
  <2> QED
    BY <1>1, <2>1 DEF TypeOK
<1>5. PICK x : S = {x}
  BY <1>2, <1>3, <1>4, FS_Singleton
<1>6. t \in S /\ u \in S
  OBVIOUS
<1> QED
  BY <1>5, <1>6

(* The two branches of each of the handlers of the map. *)
LEMMA RegisterBranches ==
  ASSUME NEW t \in Streams, Register(t)
  PROVE  /\ pc[t] = "unborn" /\ pc' = [pc EXCEPT ![t] = "read"]
         /\ openStreams' = [openStreams EXCEPT ![SourceOf[t]] = @ + 1]
         /\ got' = got /\ hold' = hold /\ mirror' = mirror
         /\ \/ /\ entry[SourceOf[t]] = None
               /\ entry' = [entry EXCEPT ![SourceOf[t]] = t]
               /\ cell' = [cell EXCEPT ![t] = "empty"]
            \/ entry[SourceOf[t]] # None /\ entry' = entry /\ cell' = cell
BY DEF Register

\* GuardDrop for a stream that is not the last of its source, and for the last.
LEMMA GuardDropBranches ==
  ASSUME NEW t \in Streams, GuardDrop(t)
  PROVE  /\ pc[t] = "leave" /\ pc' = [pc EXCEPT ![t] = "closed"]
         /\ openStreams' = [openStreams EXCEPT ![SourceOf[t]] = @ - 1]
         /\ got' = got /\ hold' = hold /\ mirror' = mirror
         /\ \/ openStreams[SourceOf[t]] > 1 /\ entry' = entry /\ cell' = cell
            \/ /\ ~(openStreams[SourceOf[t]] > 1)
               /\ entry' = [entry EXCEPT ![SourceOf[t]] = None]
               /\ cell' = [cell EXCEPT ![entry[SourceOf[t]]] = Dropped(entry[SourceOf[t]])]
BY DEF GuardDrop

\* What a registration does to a source.
LEMMA RegisterAt ==
  ASSUME TypeOK, NEW t \in Streams, Register(t), NEW s \in Sources
  PROVE  /\ ~Open(t) /\ \A u \in Streams : Open(u)' <=> Open(u) \/ u = t
         /\ SourceOf[t] = s => openStreams'[s] = openStreams[s] + 1 /\ entry'[s] # None
         /\ SourceOf[t] # s => openStreams'[s] = openStreams[s] /\ entry'[s] = entry[s]
<1>1. /\ pc[t] = "unborn" /\ pc' = [pc EXCEPT ![t] = "read"]
      /\ openStreams' = [openStreams EXCEPT ![SourceOf[t]] = openStreams[SourceOf[t]] + 1]
      /\ \/ entry[SourceOf[t]] = None /\ entry' = [entry EXCEPT ![SourceOf[t]] = t]
         \/ entry[SourceOf[t]] # None /\ entry' = entry
  BY RegisterBranches
<1>2. /\ DOMAIN pc = Streams /\ DOMAIN openStreams = Sources /\ DOMAIN entry = Sources
      /\ SourceOf[t] \in Sources /\ t # None
  BY ServerAssumption DEF TypeOK
<1>3. /\ ~Open(t) /\ \A u \in Streams : Open(u)' <=> Open(u) \/ u = t
  BY <1>1, <1>2 DEF Open
<1>4. /\ SourceOf[t] = s => openStreams'[s] = openStreams[s] + 1
      /\ SourceOf[t] # s => openStreams'[s] = openStreams[s]
  BY <1>1, <1>2
<1>5. /\ SourceOf[t] = s => entry'[s] # None
      /\ SourceOf[t] # s => entry'[s] = entry[s]
  BY <1>1, <1>2
<1> QED
  BY <1>3, <1>4, <1>5

\* What the end of a stream does to a source.
LEMMA GuardDropAt ==
  ASSUME TypeOK, NEW t \in Streams, GuardDrop(t), NEW s \in Sources
  PROVE  /\ \A u \in Streams : Open(u)' <=> Open(u) /\ u # t
         /\ SourceOf[t] = s => /\ openStreams'[s] = openStreams[s] - 1
                               /\ openStreams[s] > 1 => entry'[s] = entry[s]
                               /\ ~(openStreams[s] > 1) => entry'[s] = None
         /\ SourceOf[t] # s => openStreams'[s] = openStreams[s] /\ entry'[s] = entry[s]
<1>1. /\ pc[t] = "leave" /\ pc' = [pc EXCEPT ![t] = "closed"]
      /\ openStreams' = [openStreams EXCEPT ![SourceOf[t]] = openStreams[SourceOf[t]] - 1]
      /\ \/ openStreams[SourceOf[t]] > 1 /\ entry' = entry
         \/ /\ ~(openStreams[SourceOf[t]] > 1)
            /\ entry' = [entry EXCEPT ![SourceOf[t]] = None]
  BY GuardDropBranches
<1>2. /\ DOMAIN pc = Streams /\ DOMAIN openStreams = Sources /\ DOMAIN entry = Sources
      /\ SourceOf[t] \in Sources
  BY ServerAssumption DEF TypeOK
<1>3. \A u \in Streams : Open(u)' <=> Open(u) /\ u # t
  BY <1>1, <1>2 DEF Open
<1>4. /\ SourceOf[t] = s => openStreams'[s] = openStreams[s] - 1
      /\ SourceOf[t] # s => openStreams'[s] = openStreams[s]
  BY <1>1, <1>2
<1>5. /\ SourceOf[t] = s => /\ openStreams[s] > 1 => entry'[s] = entry[s]
                            /\ ~(openStreams[s] > 1) => entry'[s] = None
      /\ SourceOf[t] # s => entry'[s] = entry[s]
  BY <1>1, <1>2
<1> QED
  BY <1>3, <1>4, <1>5

(* The steps, by what they touch. *)
LEMMA NextSplits ==
  ASSUME [Next]_vars
  PROVE  \/ \E t \in Streams : Register(t) \/ GuardDrop(t)
         \/ \E t \in Streams, ok \in BOOLEAN :
              ReadBatch(t) \/ GetContext(t) \/ Make(t, ok) \/ Ingest(t) \/ Leave(t)
         \/ (\E c \in Cells : ContextFlushed(c)) \/ UNCHANGED vars
BY DEF Next, Handler
-----------------------------------------------------------------------------
(* The invariant. *)

\* The invariant holds at first.
LEMMA InitIInv == Init => IInv
<1> SUFFICES ASSUME Init PROVE IInv
  OBVIOUS
<1> USE ServerAssumption
<1>1. TypeOK
  BY DEF Init, TypeOK, Pcs, Cells
<1>2. EntryCountsStreams
  <2>1. \A s \in Sources : {t \in Streams : Open(t) /\ SourceOf[t] = s} = {}
    BY DEF Init, Open
  <2> QED
    BY <2>1, FS_EmptySet DEF Init, EntryCountsStreams
<1>3. HoldInv /\ MakeInv /\ CellInv
  BY DEF Init, HoldInv, MakeInv, CellInv, Holding, InUse, Cells
<1>4. MirrorInv /\ StreamUnsplit
  BY DEF Init, MirrorInv, PlacedInv, CompleteInv, GotInv, StreamUnsplit, Holding, Cells
<1> QED
  BY <1>1, <1>2, <1>3, <1>4 DEF IInv

\* Every step keeps TypeOK.
LEMMA TypeStep == IInv /\ [Next]_vars => TypeOK'
<1> SUFFICES ASSUME IInv, [Next]_vars PROVE TypeOK'
  OBVIOUS
<1> USE ServerAssumption DEF IInv, TypeOK, Pcs, Cells, InUse
<1>1. ASSUME NEW t \in Streams, Register(t) PROVE TypeOK'
  <2>1. SourceOf[t] \in Sources /\ openStreams[SourceOf[t]] + 1 \in Nat
    OBVIOUS
  <2>2. CASE entry[SourceOf[t]] = None
    <3>1. entry' = [entry EXCEPT ![SourceOf[t]] = t] /\ cell' = [cell EXCEPT ![t] = "empty"]
      BY <1>1, <2>2 DEF Register
    <3> QED
      BY <1>1, <2>1, <3>1 DEF Register
  <2>3. CASE entry[SourceOf[t]] # None
    <3>1. entry' = entry /\ cell' = cell
      BY <1>1, <2>3 DEF Register
    <3> QED
      BY <1>1, <2>1, <3>1 DEF Register
  <2> QED
    BY <2>2, <2>3
<1>2. ASSUME NEW t \in Streams, ReadBatch(t) PROVE TypeOK'
  BY <1>2 DEF ReadBatch, mapVars, cellVars
<1>3. ASSUME NEW t \in Streams, GetContext(t) PROVE TypeOK'
  BY <1>3 DEF GetContext, mapVars
<1>4. ASSUME NEW t \in Streams, NEW ok \in BOOLEAN, Make(t, ok) PROVE TypeOK'
  BY <1>4 DEF Make, mapVars
<1>5. ASSUME NEW t \in Streams, Ingest(t) PROVE TypeOK'
  <2>1. hold[t] \in Cells
    BY <1>5 DEF Ingest, HoldInv, Holding
  <2>2. mirror' \in [Cells -> Seq([stream : Streams, n : Nat])]
    <3> DEFINE b == [stream |-> t, n |-> got[t]]
    <3>1. b \in [stream : Streams, n : Nat]
      OBVIOUS
    <3>2. Append(mirror[hold[t]], b) \in Seq([stream : Streams, n : Nat])
      BY <2>1, <3>1, AppendProperties
    <3> QED
      BY <1>5, <2>1, <3>2 DEF Ingest
  <2> QED
    BY <1>5, <2>2 DEF Ingest, mapVars
<1>6. ASSUME NEW t \in Streams, Leave(t) PROVE TypeOK'
  BY <1>6 DEF Leave, mapVars, cellVars
<1>7. ASSUME NEW t \in Streams, GuardDrop(t) PROVE TypeOK'
  <2>1. openStreams[SourceOf[t]] > 0
    BY <1>7, EntryHasOpen DEF GuardDrop, Open
  <2>2. openStreams[SourceOf[t]] - 1 \in Nat /\ SourceOf[t] \in Sources
    BY <2>1
  <2>3. CASE openStreams[SourceOf[t]] > 1
    <3>1. entry' = entry /\ cell' = cell
      BY <1>7, <2>3 DEF GuardDrop
    <3> QED
      BY <1>7, <2>2, <3>1 DEF GuardDrop
  <2>4. CASE ~(openStreams[SourceOf[t]] > 1)
    <3>1. entry' = [entry EXCEPT ![SourceOf[t]] = None]
      BY <1>7, <2>4 DEF GuardDrop
    <3>2. cell' = [cell EXCEPT ![entry[SourceOf[t]]] = Dropped(entry[SourceOf[t]])]
      BY <1>7, <2>4 DEF GuardDrop
    <3> QED
      BY <1>7, <2>2, <3>1, <3>2 DEF GuardDrop, Dropped
  <2> QED
    BY <2>3, <2>4
<1>8. ASSUME NEW c \in Cells, ContextFlushed(c) PROVE TypeOK'
  BY <1>8 DEF ContextFlushed, handlerVars, mapVars
<1>9. ASSUME UNCHANGED vars PROVE TypeOK'
  BY <1>9 DEF vars, handlerVars, mapVars, cellVars
<1> QED
  BY <1>1, <1>2, <1>3, <1>4, <1>5, <1>6, <1>7, <1>8, <1>9, ZenonT(60) DEF Next, Handler

\* Every step keeps EntryCountsStreams.
LEMMA CountStep == IInv /\ [Next]_vars => EntryCountsStreams'
<1> SUFFICES ASSUME IInv, [Next]_vars, NEW s \in Sources
             PROVE  /\ openStreams'[s] = Cardinality({t \in Streams : Open(t)' /\ SourceOf[t] = s})
                    /\ entry'[s] = None <=> openStreams'[s] = 0
  BY DEF EntryCountsStreams
<1> DEFINE S == {t \in Streams : Open(t) /\ SourceOf[t] = s}
           T == {t \in Streams : Open(t)' /\ SourceOf[t] = s}
<1> USE ServerAssumption DEF IInv, TypeOK, Cells
<1>1. /\ openStreams[s] = Cardinality(S) /\ (entry[s] = None <=> openStreams[s] = 0)
      /\ openStreams[s] \in Nat /\ IsFiniteSet(S)
  BY FS_Subset DEF EntryCountsStreams
<1>0. TypeOK /\ EntryCountsStreams
  BY DEF IInv
<1> SUFFICES openStreams'[s] = Cardinality(T) /\ (entry'[s] = None <=> openStreams'[s] = 0)
  OBVIOUS
<1>2. ASSUME T = S, openStreams'[s] = openStreams[s], entry'[s] = entry[s]
      PROVE  openStreams'[s] = Cardinality(T) /\ (entry'[s] = None <=> openStreams'[s] = 0)
  BY <1>1, <1>2
<1>3. ASSUME NEW t \in Streams, Register(t)
      PROVE  openStreams'[s] = Cardinality(T) /\ (entry'[s] = None <=> openStreams'[s] = 0)
  <2> HIDE DEF IInv, TypeOK, Cells
  <2>1. CASE SourceOf[t] = s
    <3>1. /\ \A u \in Streams : Open(u)' <=> Open(u) \/ u = t
          /\ ~Open(t) /\ openStreams'[s] = openStreams[s] + 1 /\ entry'[s] # None
      BY <1>0, <1>3, <2>1, RegisterAt
    <3>2. T = S \cup {t} /\ t \notin S
      BY <2>1, <3>1
    <3> HIDE DEF S, T
    <3>3. Cardinality(T) = Cardinality(S) + 1
      BY <1>1, <3>2, FS_AddElement
    <3> QED
      BY <1>1, <3>1, <3>3
  <2>2. CASE SourceOf[t] # s
    <3>1. /\ \A u \in Streams : Open(u)' <=> Open(u) \/ u = t
          /\ openStreams'[s] = openStreams[s] /\ entry'[s] = entry[s]
      BY <1>0, <1>3, <2>2, RegisterAt
    <3>2. T = S
      BY <2>2, <3>1
    <3> HIDE DEF S, T
    <3> QED
      BY <1>2, <3>1, <3>2
  <2> QED
    BY <2>1, <2>2
<1>4. ASSUME NEW t \in Streams, GuardDrop(t)
      PROVE  openStreams'[s] = Cardinality(T) /\ (entry'[s] = None <=> openStreams'[s] = 0)
  <2> HIDE DEF IInv, TypeOK, Cells
  <2>0. Open(t)
    BY <1>4 DEF GuardDrop, Open
  <2>1. CASE SourceOf[t] = s
    <3>1. /\ \A u \in Streams : Open(u)' <=> Open(u) /\ u # t
          /\ openStreams'[s] = openStreams[s] - 1
          /\ openStreams[s] > 1 => entry'[s] = entry[s]
          /\ ~(openStreams[s] > 1) => entry'[s] = None
      BY <1>0, <1>4, <2>1, GuardDropAt
    <3>2. T = S \ {t} /\ t \in S
      BY <2>0, <2>1, <3>1
    <3>4. openStreams[s] > 0 /\ entry[s] # None
      BY <1>0, <1>1, <2>0, <2>1, EntryHasOpen
    <3> HIDE DEF S, T
    <3>3. Cardinality(T) = Cardinality(S) - 1
      BY <1>1, <3>2, FS_RemoveElement
    <3> QED
      BY <1>1, <3>1, <3>3, <3>4
  <2>2. CASE SourceOf[t] # s
    <3>1. /\ \A u \in Streams : Open(u)' <=> Open(u) /\ u # t
          /\ openStreams'[s] = openStreams[s] /\ entry'[s] = entry[s]
      BY <1>0, <1>4, <2>2, GuardDropAt
    <3>2. T = S
      BY <2>2, <3>1
    <3> HIDE DEF S, T
    <3> QED
      BY <1>2, <3>1, <3>2
  <2> QED
    BY <2>1, <2>2
<1>5. ASSUME UNCHANGED mapVars, \A t \in Streams : Open(t)' <=> Open(t)
      PROVE  openStreams'[s] = Cardinality(T) /\ (entry'[s] = None <=> openStreams'[s] = 0)
  BY <1>2, <1>5 DEF mapVars
<1>6. ASSUME NEW t \in Streams, NEW ok \in BOOLEAN,
             ReadBatch(t) \/ GetContext(t) \/ Make(t, ok) \/ Ingest(t) \/ Leave(t)
      PROVE  UNCHANGED mapVars /\ \A u \in Streams : Open(u)' <=> Open(u)
  BY <1>6 DEF ReadBatch, GetContext, Make, Ingest, Leave, Open
<1>7. ASSUME (\E c \in Cells : ContextFlushed(c)) \/ UNCHANGED vars
      PROVE  UNCHANGED mapVars /\ \A u \in Streams : Open(u)' <=> Open(u)
  BY <1>7 DEF ContextFlushed, vars, handlerVars, Open
<1> HIDE DEF T
<1> QED
  BY <1>3, <1>4, <1>5, <1>6, <1>7, NextSplits

\* Every step keeps HoldInv.
LEMMA HoldStep == IInv /\ [Next]_vars => HoldInv'
<1> SUFFICES ASSUME IInv, [Next]_vars PROVE HoldInv'
  OBVIOUS
<1> USE ServerAssumption DEF IInv, TypeOK, HoldInv, Cells, Holding
<1>1. ASSUME NEW t \in Streams, Register(t) PROVE HoldInv'
  <2>1. CASE entry[SourceOf[t]] = None
    <3>1. entry' = [entry EXCEPT ![SourceOf[t]] = t] /\ cell' = [cell EXCEPT ![t] = "empty"]
      BY <1>1, <2>1 DEF Register
    <3>2. \A u \in Streams : hold[u] # None => SourceOf[u] # SourceOf[t] /\ hold[u] # t
      BY <2>1 DEF CellInv
    <3> QED
      BY <1>1, <3>1, <3>2 DEF Register
  <2>2. CASE entry[SourceOf[t]] # None
    <3>1. entry' = entry /\ cell' = cell
      BY <1>1, <2>2 DEF Register
    <3> QED
      BY <1>1, <3>1 DEF Register
  <2> QED
    BY <2>1, <2>2
<1>2. ASSUME NEW t \in Streams, ReadBatch(t) PROVE HoldInv'
  <2>1. entry[SourceOf[t]] \in Cells
    BY <1>2, EntryHasOpen DEF ReadBatch, Open
  <2> QED
    BY <1>2, <2>1, SMTT(30) DEF ReadBatch, mapVars, cellVars
<1>3. ASSUME NEW t \in Streams, GetContext(t) PROVE HoldInv'
  BY <1>3, SMTT(30) DEF GetContext, mapVars
<1>4. ASSUME NEW t \in Streams, NEW ok \in BOOLEAN, Make(t, ok) PROVE HoldInv'
  <2>1. CASE ok
    BY <1>4, <2>1 DEF Make, mapVars, MakeInv
  <2>2. CASE ~ok
    <3>1. /\ pc[t] = "make" /\ pc' = [pc EXCEPT ![t] = "leave"] /\ hold' = [hold EXCEPT ![t] = None]
          /\ cell' = [cell EXCEPT ![hold[t]] = "empty"] /\ entry' = entry
      BY <1>4, <2>2 DEF Make, mapVars
    <3>2. \A u \in Streams : u # t /\ pc[u] \in {"make", "ingest"} => hold[u] # hold[t]
      BY <3>1 DEF MakeInv
    <3> QED
      BY <3>1, <3>2
  <2> QED
    BY <2>1, <2>2
<1>5. ASSUME NEW t \in Streams, Ingest(t) PROVE HoldInv'
  BY <1>5 DEF Ingest, mapVars
<1>6. ASSUME NEW t \in Streams, Leave(t) PROVE HoldInv'
  BY <1>6 DEF Leave, mapVars, cellVars
<1>7. ASSUME NEW t \in Streams, GuardDrop(t) PROVE HoldInv'
  <2>1. CASE openStreams[SourceOf[t]] > 1
    <3>1. entry' = entry /\ cell' = cell
      BY <1>7, <2>1 DEF GuardDrop
    <3> QED
      BY <1>7, <3>1 DEF GuardDrop
  <2>2. CASE ~(openStreams[SourceOf[t]] > 1)
    <3>1. entry' = [entry EXCEPT ![SourceOf[t]] = None]
      BY <1>7, <2>2 DEF GuardDrop
    <3>2. cell' = [cell EXCEPT ![entry[SourceOf[t]]] = Dropped(entry[SourceOf[t]])]
      BY <1>7, <2>2 DEF GuardDrop
    <3>3. Open(t) /\ hold[t] = None
      BY <1>7 DEF GuardDrop, Open
    <3>4. \A u \in Streams : hold[u] # None => Open(u)
      BY DEF Open
    <3>5. \A u \in Streams : hold[u] # None => SourceOf[u] # SourceOf[t]
      BY <2>2, <3>3, <3>4, LastIsAlone
    <3>6. \A u \in Streams : hold[u] # None => hold[u] # entry[SourceOf[t]]
      BY <3>5 DEF CellInv
    <3> QED
      BY <1>7, <3>1, <3>2, <3>5, <3>6 DEF GuardDrop
  <2> QED
    BY <2>1, <2>2
<1>8. ASSUME NEW c \in Cells, ContextFlushed(c) PROVE HoldInv'
  BY <1>8 DEF ContextFlushed, handlerVars, mapVars
<1>9. ASSUME UNCHANGED vars PROVE HoldInv'
  BY <1>9 DEF vars, handlerVars, mapVars, cellVars
<1> HIDE DEF HoldInv
<1> QED
  BY <1>1, <1>2, <1>3, <1>4, <1>5, <1>6, <1>7, <1>8, <1>9 DEF Next, Handler

\* Every step keeps MakeInv.
LEMMA MakeStep == IInv /\ [Next]_vars => MakeInv'
<1> SUFFICES ASSUME IInv, [Next]_vars PROVE MakeInv'
  OBVIOUS
<1> USE DEF IInv, TypeOK, MakeInv, Cells
<1>1. ASSUME \A u \in Streams : pc'[u] = "make" => pc[u] = "make" /\ hold'[u] = hold[u]
      PROVE  MakeInv'
  BY <1>1
<1>2. ASSUME NEW t \in Streams, Register(t) PROVE MakeInv'
  BY <1>1, <1>2 DEF Register
<1>3. ASSUME NEW t \in Streams, GuardDrop(t) PROVE MakeInv'
  BY <1>1, <1>3 DEF GuardDrop
<1>4. ASSUME NEW t \in Streams, ReadBatch(t) PROVE MakeInv'
  BY <1>1, <1>4 DEF ReadBatch
<1>5. ASSUME NEW t \in Streams, Ingest(t) PROVE MakeInv'
  BY <1>1, <1>5 DEF Ingest
<1>6. ASSUME NEW t \in Streams, Leave(t) PROVE MakeInv'
  BY <1>1, <1>6 DEF Leave
<1>7. ASSUME NEW t \in Streams, GetContext(t) PROVE MakeInv'
  <2>1. \A u \in Streams : pc[u] = "make" => cell[hold[u]] = "making"
    BY DEF HoldInv
  <2>2. CASE pc' = [pc EXCEPT ![t] = "ingest"]
    BY <1>1, <1>7, <2>2 DEF GetContext
  <2>3. CASE cell[hold[t]] = "empty" /\ pc' = [pc EXCEPT ![t] = "make"]
    BY <1>7, <2>1, <2>3 DEF GetContext
  <2> QED
    BY <1>7, <2>2, <2>3 DEF GetContext
<1>8. ASSUME NEW t \in Streams, NEW ok \in BOOLEAN, Make(t, ok) PROVE MakeInv'
  <2>1. \A u \in Streams : pc'[u] = "make" => u # t
    BY <1>8 DEF Make
  <2>2. \A u \in Streams : u # t => pc'[u] = pc[u] /\ hold'[u] = hold[u]
    BY <1>8 DEF Make
  <2> QED
    BY <1>1, <2>1, <2>2
<1>9. ASSUME (\E c \in Cells : ContextFlushed(c)) \/ UNCHANGED vars PROVE MakeInv'
  BY <1>9 DEF ContextFlushed, vars, handlerVars
<1> HIDE DEF MakeInv
<1> QED
  BY <1>2, <1>3, <1>4, <1>5, <1>6, <1>7, <1>8, <1>9 DEF Next, Handler

\* Every step keeps CellInv.
LEMMA CellStep == IInv /\ [Next]_vars => CellInv'
<1> SUFFICES ASSUME IInv, [Next]_vars PROVE CellInv'
  OBVIOUS
<1> USE ServerAssumption DEF IInv, TypeOK, CellInv, Cells, InUse
<1>1. ASSUME NEW t \in Streams, Register(t) PROVE CellInv'
  <2>1. CASE entry[SourceOf[t]] = None
    <3>1. entry' = [entry EXCEPT ![SourceOf[t]] = t] /\ cell' = [cell EXCEPT ![t] = "empty"]
      BY <1>1, <2>1 DEF Register
    <3> QED
      BY <1>1, <2>1, <3>1 DEF Register
  <2>2. CASE entry[SourceOf[t]] # None
    <3>1. entry' = entry /\ cell' = cell
      BY <1>1, <2>2 DEF Register
    <3> QED
      BY <1>1, <3>1 DEF Register
  <2> QED
    BY <2>1, <2>2
<1>2. ASSUME NEW t \in Streams, ReadBatch(t) \/ Ingest(t) \/ Leave(t) PROVE CellInv'
  BY <1>2 DEF ReadBatch, Ingest, Leave, mapVars, cellVars
<1>8. ASSUME NEW t \in Streams, hold[t] \in Cells, cell[hold[t]] \in InUse,
             NEW x \in InUse, cell' = [cell EXCEPT ![hold[t]] = x] \/ cell' = cell,
             entry' = entry, \A u \in Streams : pc'[u] = "unborn" => pc[u] = "unborn"
      PROVE  CellInv'
  <2>1. \A c \in Cells : cell[c] \in InUse <=> cell'[c] \in InUse
    BY <1>8
  <2>2. \A c \in Cells : pc'[c] = "unborn" => cell'[c] = "unused"
    <3> SUFFICES ASSUME NEW c \in Cells, pc'[c] = "unborn" PROVE cell'[c] = "unused"
      OBVIOUS
    <3>1. cell[c] = "unused" /\ c # hold[t]
      BY <1>8
    <3> QED
      BY <1>8, <3>1
  <2> QED
    BY <1>8, <2>1, <2>2
<1>3. ASSUME NEW t \in Streams, GetContext(t) PROVE CellInv'
  <2>1. hold[t] \in Cells /\ cell[hold[t]] \in InUse
    BY <1>3 DEF GetContext, HoldInv, Holding
  <2>2. cell' = [cell EXCEPT ![hold[t]] = "making"] \/ cell' = cell
    BY <1>3 DEF GetContext
  <2>3. entry' = entry /\ \A u \in Streams : pc'[u] = "unborn" => pc[u] = "unborn"
    BY <1>3 DEF GetContext, mapVars
  <2>4. "making" \in InUse
    OBVIOUS
  <2> HIDE DEF CellInv, InUse
  <2> QED
    BY <1>8, <2>1, <2>2, <2>3, <2>4
<1>4. ASSUME NEW t \in Streams, NEW ok \in BOOLEAN, Make(t, ok) PROVE CellInv'
  <2>1. hold[t] \in Cells /\ cell[hold[t]] \in InUse
    BY <1>4 DEF Make, HoldInv, Holding
  <2>2. cell' = [cell EXCEPT ![hold[t]] = IF ok THEN "built" ELSE "empty"]
    BY <1>4 DEF Make
  <2>3. entry' = entry /\ \A u \in Streams : pc'[u] = "unborn" => pc[u] = "unborn"
    BY <1>4 DEF Make, mapVars
  <2>4. (IF ok THEN "built" ELSE "empty") \in InUse
    OBVIOUS
  <2> HIDE DEF CellInv, InUse
  <2> QED
    BY <1>8, <2>1, <2>2, <2>3, <2>4
<1>5. ASSUME NEW t \in Streams, GuardDrop(t) PROVE CellInv'
  <2>1. CASE openStreams[SourceOf[t]] > 1
    <3>1. entry' = entry /\ cell' = cell
      BY <1>5, <2>1 DEF GuardDrop
    <3> QED
      BY <1>5, <3>1 DEF GuardDrop
  <2>2. CASE ~(openStreams[SourceOf[t]] > 1)
    <3>1. entry' = [entry EXCEPT ![SourceOf[t]] = None]
      BY <1>5, <2>2 DEF GuardDrop
    <3>2. cell' = [cell EXCEPT ![entry[SourceOf[t]]] = Dropped(entry[SourceOf[t]])]
      BY <1>5, <2>2 DEF GuardDrop
    <3>3. entry[SourceOf[t]] \in Cells
      BY <1>5, EntryHasOpen DEF GuardDrop, Open
    <3> QED
      BY <1>5, <3>1, <3>2, <3>3 DEF GuardDrop, Dropped
  <2> QED
    BY <2>1, <2>2
<1>6. ASSUME NEW c \in Cells, ContextFlushed(c) PROVE CellInv'
  BY <1>6 DEF ContextFlushed, handlerVars, mapVars
<1>7. ASSUME UNCHANGED vars PROVE CellInv'
  BY <1>7 DEF vars, handlerVars, mapVars, cellVars
<1> HIDE DEF CellInv
<1> QED
  BY <1>1, <1>2, <1>3, <1>4, <1>5, <1>6, <1>7 DEF Next, Handler
(* Each batch in a context is a batch of some stream.                      *)
LEMMA MirrorType ==
  ASSUME TypeOK, NEW c \in Cells
  PROVE  /\ Len(mirror[c]) \in Nat
         /\ \A i \in 1..Len(mirror[c]) :
              /\ mirror[c][i].stream \in Streams /\ mirror[c][i].n \in Nat
              /\ mirror[c][i] = [stream |-> mirror[c][i].stream, n |-> mirror[c][i].n]
<1>1. mirror[c] \in Seq([stream : Streams, n : Nat])
  BY DEF TypeOK
<1>2. Len(mirror[c]) \in Nat
  BY <1>1, LenProperties
<1>3. ASSUME NEW i \in 1..Len(mirror[c])
      PROVE  mirror[c][i] \in [stream : Streams, n : Nat]
  BY <1>1, ElementOfSeq
<1> QED
  BY <1>2, <1>3

(* What an ingest does to the mirror. *)
LEMMA IngestAppends ==
  ASSUME IInv, NEW t \in Streams, Ingest(t)
  PROVE  /\ hold[t] \in Cells /\ hold[t] = entry[SourceOf[t]] /\ pc[t] = "ingest" /\ got[t] > 0
         /\ Len(mirror'[hold[t]]) = Len(mirror[hold[t]]) + 1
         /\ \A i \in 1..Len(mirror[hold[t]]) : mirror'[hold[t]][i] = mirror[hold[t]][i]
         /\ mirror'[hold[t]][Len(mirror[hold[t]]) + 1] = [stream |-> t, n |-> got[t]]
         /\ \A c \in Cells \ {hold[t]} : mirror'[c] = mirror[c]
<1> USE DEF IInv, TypeOK, Cells
<1> DEFINE h == hold[t]
           b == [stream |-> t, n |-> got[t]]
<1>1. h \in Cells /\ h = entry[SourceOf[t]] /\ pc[t] = "ingest"
  BY DEF Ingest, HoldInv, Holding
<1>2. got[t] > 0
  BY <1>1 DEF MirrorInv, GotInv, Holding
<1>3. b \in [stream : Streams, n : Nat] /\ mirror[h] \in Seq([stream : Streams, n : Nat])
  BY <1>1
<1>4. mirror'[h] = Append(mirror[h], b) /\ \A c \in Cells \ {h} : mirror'[c] = mirror[c]
  BY <1>1 DEF Ingest
<1>5. Len(mirror[h]) \in Nat
  BY <1>3, LenProperties
<1> QED
  BY <1>1, <1>2, <1>3, <1>4, <1>5, AppendProperties

\* An ingest leaves all that is in the mirror where it is.
LEMMA IngestKeeps ==
  ASSUME IInv, NEW t \in Streams, Ingest(t)
  PROVE  /\ \A c \in Cells : \A i \in 1..Len(mirror[c]) :
              i \in 1..Len(mirror'[c]) /\ mirror'[c][i] = mirror[c][i]
         /\ \A c \in Cells : \A i \in 1..Len(mirror'[c]) :
              i \in 1..Len(mirror[c]) \/ (c = hold[t] /\ i = Len(mirror[hold[t]]) + 1)
<1> DEFINE h == hold[t]
<1>1. /\ h \in Cells /\ Len(mirror'[h]) = Len(mirror[h]) + 1
      /\ \A i \in 1..Len(mirror[h]) : mirror'[h][i] = mirror[h][i]
      /\ \A c \in Cells \ {h} : mirror'[c] = mirror[c]
  BY IngestAppends
<1>2. Len(mirror[h]) \in Nat
  BY <1>1, MirrorType DEF IInv
<1> HIDE DEF h
<1>3. ASSUME NEW c \in Cells, NEW i \in 1..Len(mirror[c])
      PROVE  i \in 1..Len(mirror'[c]) /\ mirror'[c][i] = mirror[c][i]
  <2>1. CASE c = h
    BY <1>1, <1>2, <2>1
  <2>2. CASE c # h
    BY <1>1, <2>2
  <2> QED
    BY <2>1, <2>2
<1>4. ASSUME NEW c \in Cells, NEW i \in 1..Len(mirror'[c])
      PROVE  i \in 1..Len(mirror[c]) \/ (c = h /\ i = Len(mirror[h]) + 1)
  <2>1. CASE c = h
    BY <1>1, <1>2, <2>1
  <2>2. CASE c # h
    BY <1>1, <2>2
  <2> QED
    BY <2>1, <2>2
<1> QED
  BY <1>3, <1>4 DEF h

(* The steps that leave the mirror alone, by what they do to a stream: it  *)
(* registers, reads a batch, ends, or goes on with what it has.            *)
StreamGoesOn(u) ==
  /\ \/ pc[u] = "unborn" /\ pc'[u] = "read" /\ got'[u] = got[u]
     \/ pc[u] = "read" /\ pc'[u] = "get" /\ got'[u] = got[u] + 1
     \/ pc[u] \in Holding /\ pc'[u] \in Holding /\ got'[u] = got[u]
     \/ Open(u) /\ pc'[u] \in {"leave", "closed"} /\ got'[u] = got[u]
     \/ pc'[u] = pc[u] /\ got'[u] = got[u]
  /\ Open(u) /\ pc'[u] # "closed" => entry'[SourceOf[u]] = entry[SourceOf[u]]

(* They keep what is known of the mirror. *)
LEMMA MirrorFrame ==
  ASSUME IInv, mirror' = mirror, \A u \in Streams : StreamGoesOn(u)
  PROVE  MirrorInv'
<1>1. \A t \in Streams : got[t] \in Nat /\ SourceOf[t] \in Sources
  BY ServerAssumption DEF IInv, TypeOK
<1>2. ASSUME NEW t \in Streams, NEW n \in Nat, NEW c \in Cells, Placed(t, n, c)
      PROVE  Placed(t, n, c)'
  <2>1. pc'[t] # "unborn" /\ (Open(t)' => Open(t))
    BY <1>2 DEF StreamGoesOn, Placed, Open, Holding
  <2>2. Open(t)' => entry'[SourceOf[t]] = c
    BY <1>2, <2>1 DEF StreamGoesOn, Placed, Open
  <2>3. got'[t] \in Nat /\ n <= got'[t]
    BY <1>1, <1>2 DEF StreamGoesOn, Placed
  <2>4. pc'[t] \in Holding => n < got'[t]
    BY <1>1, <1>2 DEF StreamGoesOn, Placed, Open, Holding
  <2> QED
    BY <2>1, <2>2, <2>3, <2>4 DEF Placed
<1>3. PlacedInv'
  <2> SUFFICES ASSUME NEW c \in Cells, NEW i \in 1..Len(mirror[c])
               PROVE  Placed(mirror[c][i].stream, mirror[c][i].n, c)'
    BY DEF PlacedInv
  <2>1. PICK t \in Streams, n \in Nat : mirror[c][i] = [stream |-> t, n |-> n]
    BY MirrorType DEF IInv
  <2>2. Placed(t, n, c)
    BY <2>1 DEF IInv, MirrorInv, PlacedInv
  <2>3. Placed(t, n, c)'
    BY <1>2, <2>2
  <2> QED
    BY <2>1, <2>3 DEF Placed
<1>4. CompleteInv'
  <2> SUFFICES ASSUME NEW t \in Streams, pc'[t] \in Holding \cup {"read"},
                      NEW k \in 1..Ingested(t)'
               PROVE  Has(entry[SourceOf[t]], t, k)' 
    BY DEF CompleteInv
  <2>1. got[t] \in Nat /\ StreamGoesOn(t) /\ (pc[t] = "unborn" => got[t] = 0)
    BY <1>1 DEF IInv, MirrorInv, GotInv
  <2>2. k \in 1..Ingested(t) /\ pc[t] \in Holding \cup {"read"}
    BY <2>1 DEF StreamGoesOn, Ingested, Holding, Open
  <2>3. entry'[SourceOf[t]] = entry[SourceOf[t]]
    BY <2>1, <2>2 DEF StreamGoesOn, Holding, Open
  <2>4. Has(entry[SourceOf[t]], t, k)
    BY <2>2 DEF IInv, MirrorInv, CompleteInv
  <2> QED
    BY <2>3, <2>4 DEF Has
<1>5. GotInv'
  <2> SUFFICES ASSUME NEW t \in Streams
               PROVE  (pc'[t] = "unborn" => got'[t] = 0) /\ (pc'[t] \in Holding => got'[t] > 0)
    BY DEF GotInv
  <2>1. /\ got[t] \in Nat /\ StreamGoesOn(t)
        /\ (pc[t] = "unborn" => got[t] = 0) /\ (pc[t] \in Holding => got[t] > 0)
    BY <1>1 DEF IInv, MirrorInv, GotInv
  <2> QED
    BY <2>1 DEF StreamGoesOn, Holding, Open
<1> QED
  BY <1>3, <1>4, <1>5 DEF MirrorInv

\* Ingesting a batch keeps MirrorInv.
LEMMA MirrorIngest ==
  ASSUME IInv, NEW t \in Streams, Ingest(t)
  PROVE  MirrorInv'
<1> DEFINE h == hold[t]
           l == Len(mirror[h]) + 1
<1>1. /\ pc[t] = "ingest" /\ pc' = [pc EXCEPT ![t] = "read"] /\ got' = got /\ entry' = entry
      /\ pc \in [Streams -> Pcs] /\ got \in [Streams -> Nat]
  BY DEF Ingest, mapVars, IInv, TypeOK
<1>2. /\ h \in Cells /\ h = entry[SourceOf[t]] /\ got[t] > 0 /\ Len(mirror'[h]) = l
      /\ \A i \in 1..Len(mirror[h]) : mirror'[h][i] = mirror[h][i]
      /\ mirror'[h][l] = [stream |-> t, n |-> got[t]]
      /\ \A c \in Cells \ {h} : mirror'[c] = mirror[c]
  BY IngestAppends
<1>3. \A c \in Cells : Len(mirror[c]) \in Nat
  BY MirrorType DEF IInv
<1>4. \A c \in Cells : \A i \in 1..Len(mirror[c]) : i \in 1..Len(mirror'[c]) /\ mirror'[c][i] = mirror[c][i]
  BY IngestKeeps
<1>5. \A c \in Cells : \A i \in 1..Len(mirror'[c]) : i \in 1..Len(mirror[c]) \/ (c = h /\ i = l)
  BY IngestKeeps
<1>6. l \in Nat /\ l \in 1..Len(mirror'[h])
  BY <1>2, <1>3
<1> HIDE DEF h, l
<1>7. PlacedInv'
  <2> SUFFICES ASSUME NEW c \in Cells, NEW i \in 1..Len(mirror'[c])
               PROVE  Placed(mirror[c][i].stream, mirror[c][i].n, c)'
    BY DEF PlacedInv
  <2>1. CASE i \in 1..Len(mirror[c])
    <3>1. PICK u \in Streams, n \in Nat : mirror[c][i] = [stream |-> u, n |-> n]
      BY <2>1, MirrorType DEF IInv
    <3>2. Placed(u, n, c)
      BY <2>1, <3>1 DEF IInv, MirrorInv, PlacedInv
    <3>3. mirror'[c][i] = [stream |-> u, n |-> n]
      BY <1>4, <2>1, <3>1
    <3>4. got[u] \in Nat /\ got'[u] = got[u] /\ entry' = entry
      BY <1>1
    <3>5. pc'[u] # "unborn" /\ (Open(u)' => Open(u)) /\ (pc'[u] \in Holding => pc[u] \in Holding)
      BY <1>1, <3>2 DEF Placed, Open, Holding
    <3> QED
      BY <3>2, <3>3, <3>4, <3>5 DEF Placed
  <2>2. CASE c = h /\ i = l
    <3>1. mirror'[c][i] = [stream |-> t, n |-> got[t]]
      BY <1>2, <2>2
    <3>2. pc'[t] = "read" /\ got'[t] = got[t] /\ got[t] \in Nat /\ entry'[SourceOf[t]] = c
      BY <1>1, <1>2, <2>2
    <3> QED
      BY <3>1, <3>2 DEF Placed, Holding
  <2> QED
    BY <1>5, <2>1, <2>2
<1>8. CompleteInv'
  <2> SUFFICES ASSUME NEW u \in Streams, pc'[u] \in Holding \cup {"read"},
                      NEW k \in 1..Ingested(u)'
               PROVE  Has(entry[SourceOf[u]], u, k)'
    BY DEF CompleteInv
  <2>1. pc[u] \in Holding \cup {"read"} /\ Open(u)
    BY <1>1 DEF Holding, Open
  <2>2. entry[SourceOf[u]] \in Cells /\ entry' = entry
    BY <1>1, <2>1, EntryHasOpen DEF IInv
  <2>3. CASE k \in 1..Ingested(u)
    <3>1. Has(entry[SourceOf[u]], u, k)
      BY <2>1, <2>3 DEF IInv, MirrorInv, CompleteInv
    <3> QED
      BY <1>4, <2>2, <3>1 DEF Has
  <2>4. CASE k \notin 1..Ingested(u)
    <3>1. u = t /\ k = got[t]
      BY <1>1, <2>4 DEF Ingested, Holding
    <3>2. entry'[SourceOf[u]] = h /\ mirror'[h][l] = [stream |-> u, n |-> k]
      BY <1>1, <1>2, <3>1
    <3> QED
      BY <1>6, <3>2 DEF Has
  <2> QED
    BY <2>3, <2>4
<1>9. GotInv'
  BY <1>1 DEF IInv, MirrorInv, GotInv, Holding
<1> QED
  BY <1>7, <1>8, <1>9 DEF MirrorInv

\* Every step keeps MirrorInv.
LEMMA MirrorStep == IInv /\ [Next]_vars => MirrorInv'
<1> SUFFICES ASSUME IInv, [Next]_vars PROVE MirrorInv'
  OBVIOUS
<1>0. pc \in [Streams -> Pcs] /\ got \in [Streams -> Nat]
  BY DEF IInv, TypeOK
<1>1. ASSUME NEW t \in Streams, Register(t) PROVE MirrorInv'
  <2>1. pc[t] = "unborn" /\ pc' = [pc EXCEPT ![t] = "read"] /\ got' = got /\ mirror' = mirror
    BY <1>1 DEF Register
  <2>2. ASSUME NEW u \in Streams, Open(u) PROVE entry'[SourceOf[u]] = entry[SourceOf[u]]
    <3>1. entry[SourceOf[u]] # None
      BY <2>2, EntryHasOpen, ServerAssumption DEF Cells, IInv
    <3>2. entry \in [Sources -> Cells \cup {None}] /\ SourceOf[u] \in Sources
      BY ServerAssumption DEF IInv, TypeOK
    <3>3. entry' = entry \/ (SourceOf[u] # SourceOf[t] /\ entry' = [entry EXCEPT ![SourceOf[t]] = t])
      BY <1>1, <3>1, RegisterBranches
    <3> QED
      BY <3>2, <3>3
  <2>3. \A u \in Streams : StreamGoesOn(u)
    BY <1>0, <2>1, <2>2 DEF StreamGoesOn, Open
  <2> QED
    BY <2>1, <2>3, MirrorFrame
<1>2. ASSUME NEW t \in Streams, ReadBatch(t) PROVE MirrorInv'
  <2>1. /\ pc[t] = "read" /\ pc' = [pc EXCEPT ![t] = "get"] /\ got' = [got EXCEPT ![t] = @ + 1]
        /\ mirror' = mirror /\ entry' = entry
    BY <1>2 DEF ReadBatch, mapVars, cellVars
  <2>2. \A u \in Streams : StreamGoesOn(u)
    BY <1>0, <2>1 DEF StreamGoesOn
  <2> QED
    BY <2>1, <2>2, MirrorFrame
<1>3. ASSUME NEW t \in Streams, GetContext(t) PROVE MirrorInv'
  <2>1. /\ pc[t] = "get" /\ (pc' = [pc EXCEPT ![t] = "ingest"] \/ pc' = [pc EXCEPT ![t] = "make"])
        /\ got' = got /\ mirror' = mirror /\ entry' = entry
    BY <1>3 DEF GetContext, mapVars
  <2>2. \A u \in Streams : StreamGoesOn(u)
    BY <1>0, <2>1 DEF StreamGoesOn, Holding
  <2> QED
    BY <2>1, <2>2, MirrorFrame
<1>4. ASSUME NEW t \in Streams, NEW ok \in BOOLEAN, Make(t, ok) PROVE MirrorInv'
  <2>1. /\ pc[t] = "make" /\ (pc' = [pc EXCEPT ![t] = "ingest"] \/ pc' = [pc EXCEPT ![t] = "leave"])
        /\ got' = got /\ mirror' = mirror /\ entry' = entry
    BY <1>4 DEF Make, mapVars
  <2>2. \A u \in Streams : StreamGoesOn(u)
    BY <1>0, <2>1 DEF StreamGoesOn, Holding, Open
  <2> QED
    BY <2>1, <2>2, MirrorFrame
<1>5. ASSUME NEW t \in Streams, Leave(t) PROVE MirrorInv'
  <2>1. /\ pc[t] \in {"read", "get"} /\ pc' = [pc EXCEPT ![t] = "leave"]
        /\ got' = got /\ mirror' = mirror /\ entry' = entry
    BY <1>5 DEF Leave, mapVars, cellVars
  <2>2. \A u \in Streams : StreamGoesOn(u)
    BY <1>0, <2>1 DEF StreamGoesOn, Open
  <2> QED
    BY <2>1, <2>2, MirrorFrame
<1>6. ASSUME NEW t \in Streams, GuardDrop(t) PROVE MirrorInv'
  <2>1. pc[t] = "leave" /\ pc' = [pc EXCEPT ![t] = "closed"] /\ got' = got /\ mirror' = mirror
    BY <1>6 DEF GuardDrop
  <2>2. ASSUME NEW u \in Streams, Open(u), u # t PROVE entry'[SourceOf[u]] = entry[SourceOf[u]]
    <3>1. openStreams[SourceOf[t]] > 1 \/ SourceOf[u] # SourceOf[t]
      BY <2>1, <2>2, LastIsAlone DEF Open, IInv
    <3>2. entry \in [Sources -> Cells \cup {None}] /\ SourceOf[u] \in Sources
      BY ServerAssumption DEF IInv, TypeOK
    <3>3. entry' = entry \/ (SourceOf[u] # SourceOf[t] /\ entry' = [entry EXCEPT ![SourceOf[t]] = None])
      BY <1>6, <3>1, GuardDropBranches
    <3> QED
      BY <3>2, <3>3
  <2>3. \A u \in Streams : StreamGoesOn(u)
    BY <1>0, <2>1, <2>2 DEF StreamGoesOn, Open
  <2> QED
    BY <2>1, <2>3, MirrorFrame
<1>7. ASSUME (\E c \in Cells : ContextFlushed(c)) \/ UNCHANGED vars PROVE MirrorInv'
  <2>1. pc' = pc /\ got' = got /\ mirror' = mirror /\ entry' = entry
    BY <1>7 DEF ContextFlushed, vars, handlerVars, mapVars, cellVars
  <2>2. \A u \in Streams : StreamGoesOn(u)
    BY <2>1 DEF StreamGoesOn
  <2> QED
    BY <2>1, <2>2, MirrorFrame
<1> QED
  BY <1>1, <1>2, <1>3, <1>4, <1>5, <1>6, <1>7, MirrorIngest DEF Next, Handler

(* Only an ingest can part a stream's batches, and it does not: those      *)
(* before are in the same cell, older than the new one, and all there.     *)
LEMMA UnsplitIngest ==
  ASSUME IInv, NEW t \in Streams, Ingest(t)
  PROVE  StreamUnsplit'
<1> DEFINE h == hold[t]
           b == [stream |-> t, n |-> got[t]]
           l == Len(mirror[h]) + 1
           Old(c, i) == i \in 1..Len(mirror[c]) /\ mirror'[c][i] = mirror[c][i]
           New(c, i) == c = h /\ i = l /\ mirror'[c][i] = b
<1>1. /\ pc[t] = "ingest" /\ h \in Cells /\ h = entry[SourceOf[t]] /\ got[t] > 0
      /\ Len(mirror'[h]) = l
      /\ \A i \in 1..Len(mirror[h]) : mirror'[h][i] = mirror[h][i]
      /\ mirror'[h][l] = b
      /\ \A c \in Cells \ {h} : mirror'[c] = mirror[c]
  BY IngestAppends
<1>2. got[t] \in Nat
  BY DEF IInv, TypeOK
<1>3. \A c \in Cells : Len(mirror[c]) \in Nat
  BY MirrorType DEF IInv
<1>5. \A c \in Cells : \A i \in 1..Len(mirror[c]) :
        i \in 1..Len(mirror'[c]) /\ mirror'[c][i] = mirror[c][i]
  BY IngestKeeps
<1>4. ASSUME NEW c \in Cells, NEW i \in 1..Len(mirror'[c]) PROVE Old(c, i) \/ New(c, i)
  <2>1. i \in 1..Len(mirror[c]) \/ (c = h /\ i = l)
    BY IngestKeeps
  <2>2. CASE i \in 1..Len(mirror[c])
    BY <1>5, <2>2
  <2>3. CASE c = h /\ i = l
    BY <1>1, <2>3
  <2> QED
    BY <2>1, <2>2, <2>3
<1>6. ASSUME NEW c \in Cells, NEW i \in 1..Len(mirror[c]), mirror[c][i].stream = t
      PROVE  c = h /\ i < l /\ mirror[c][i].n < got[t]
  <2>1. Placed(t, mirror[c][i].n, c)
    BY <1>6 DEF IInv, MirrorInv, PlacedInv
  <2>2. c = h /\ mirror[c][i].n < got[t]
    BY <1>1, <2>1 DEF Placed, Open, Holding
  <2> QED
    BY <1>3, <2>2
<1> HIDE DEF h, l
<1>7. ASSUME NEW c \in Cells, NEW i \in 1..Len(mirror'[c]),
             NEW d \in Cells, NEW j \in 1..Len(mirror'[d]),
             mirror'[d][j].stream = mirror'[c][i].stream
      PROVE  c = d /\ (i < j => mirror'[c][i].n < mirror'[d][j].n)
  <2>1. ASSUME Old(c, i), Old(d, j)
        PROVE  c = d /\ (i < j => mirror'[c][i].n < mirror'[d][j].n)
    <3>1. mirror[d][j].stream = mirror[c][i].stream
      BY <1>7, <2>1
    <3>2. c = d /\ (i < j => mirror[c][i].n < mirror[d][j].n)
      BY <2>1, <3>1 DEF IInv, StreamUnsplit
    <3> QED
      BY <2>1, <3>2
  <2>2. ASSUME Old(c, i), New(d, j)
        PROVE  c = d /\ (i < j => mirror'[c][i].n < mirror'[d][j].n)
    <3>1. mirror[c][i].stream = t
      BY <1>7, <2>2
    <3> QED
      BY <1>6, <2>2, <3>1
  <2>3. ASSUME New(c, i), Old(d, j)
        PROVE  c = d /\ (i < j => mirror'[c][i].n < mirror'[d][j].n)
    <3>1. mirror[d][j].stream = t
      BY <1>7, <2>3
    <3>2. d = h /\ j < l
      BY <1>6, <2>3, <3>1
    <3>3. l \in Nat /\ j \in Nat
      BY <1>1, <1>3, <2>3 DEF l
    <3> QED
      BY <2>3, <3>2, <3>3
  <2>4. ASSUME New(c, i), New(d, j)
        PROVE  c = d /\ (i < j => mirror'[c][i].n < mirror'[d][j].n)
    <3>1. l \in Nat
      BY <1>1, <1>3 DEF l
    <3> QED
      BY <2>4, <3>1
  <2> QED
    BY <1>4, <2>1, <2>2, <2>3, <2>4
<1>8. ASSUME NEW c \in Cells, NEW i \in 1..Len(mirror'[c]), NEW k \in 1..(mirror'[c][i].n - 1)
      PROVE  \E g \in 1..Len(mirror'[c]) :
               mirror'[c][g] = [stream |-> mirror'[c][i].stream, n |-> k]
  <2>1. ASSUME Old(c, i)
        PROVE  \E g \in 1..Len(mirror[c]) : mirror[c][g] = [stream |-> mirror'[c][i].stream, n |-> k]
    BY <1>8, <2>1 DEF IInv, StreamUnsplit
  <2>2. ASSUME New(c, i)
        PROVE  \E g \in 1..Len(mirror[c]) : mirror[c][g] = [stream |-> mirror'[c][i].stream, n |-> k]
    <3>1. k \in 1..Ingested(t)
      BY <1>1, <1>2, <1>8, <2>2 DEF Ingested, Holding
    <3>2. Has(h, t, k)
      BY <1>1, <3>1 DEF IInv, MirrorInv, CompleteInv, Holding
    <3> QED
      BY <2>2, <3>2 DEF Has
  <2> QED
    BY <1>4, <1>5, <2>1, <2>2
<1> QED
  BY <1>7, <1>8 DEF StreamUnsplit

\* Every step keeps StreamUnsplit.
LEMMA UnsplitStep == IInv /\ [Next]_vars => StreamUnsplit'
<1> SUFFICES ASSUME IInv, [Next]_vars PROVE StreamUnsplit'
  OBVIOUS
<1>1. (\E t \in Streams : Ingest(t)) \/ mirror' = mirror
  BY NextSplits DEF Register, GuardDrop, ReadBatch, GetContext, Make, Leave, ContextFlushed,
                    vars, cellVars
<1>2. ASSUME mirror' = mirror PROVE StreamUnsplit'
  <2>1. StreamUnsplit
    BY DEF IInv
  <2> QED
    BY <1>2, <2>1 DEF StreamUnsplit
<1> QED
  BY <1>1, <1>2, UnsplitIngest
-----------------------------------------------------------------------------
(* The inductive invariant holds: an entry counts its open streams, a      *)
(* clone is that of the entry, and a stream's batches are in one context.  *)
THEOREM Invariance == Spec => []IInv
<1>1. IInv /\ [Next]_vars => IInv'
  BY TypeStep, CountStep, HoldStep, MakeStep, CellStep, MirrorStep, UnsplitStep DEF IInv
<1> QED
  BY InitIInv, <1>1, PTL DEF Spec

(* The count in an entry is that of the source's open streams and there is *)
(* an entry for exactly as long, so no lookup that expects one panics.     *)
THEOREM CountsStreams == Spec => []EntryCountsStreams
<1>1. IInv => EntryCountsStreams
  BY DEF IInv
<1> QED
  BY Invariance, <1>1, PTL

(* A context on its way out is held by no handler: the flush of its files  *)
(* runs on the thread made for it. *)
THEOREM DroppedIsUnheld == Spec => []SoleHandle
<1>1. IInv => SoleHandle
  <2> SUFFICES ASSUME IInv, NEW c \in Cells, cell[c] \in {"dropping", "flushed", "discarded"}
               PROVE  /\ \A t \in Streams : hold[t] # c
                      /\ \A s \in Sources : entry[s] # c
    BY DEF SoleHandle
  <2>1. cell[c] \notin InUse
    BY DEF InUse
  <2>2. c # None
    BY ServerAssumption DEF Cells
  <2>3. \A s \in Sources : entry[s] # None => cell[entry[s]] \in InUse
    BY DEF IInv, CellInv
  <2>4. \A s \in Sources : entry[s] # c
    BY <2>1, <2>2, <2>3
  <2>5. \A t \in Streams : hold[t] # None => hold[t] = entry[SourceOf[t]]
    BY DEF IInv, HoldInv
  <2>6. \A t \in Streams : SourceOf[t] \in Sources
    BY ServerAssumption
  <2> QED
    BY <2>2, <2>4, <2>5, <2>6
<1> QED
  BY Invariance, <1>1, PTL

(* The batches of a stream end up in one context, in order, each once and  *)
(* without a gap, whatever other streams and failures of make do.          *)
THEOREM BatchesStayTogether == Spec => []StreamUnsplit
<1>1. IInv => StreamUnsplit
  BY DEF IInv
<1> QED
  BY Invariance, <1>1, PTL

(* A context that is not yet on its way out is that of its source's entry: *)
(* a source has at most one live context at any time, so the second file   *)
(* MCCollectorServerImport reads of can only come after the first is shut. *)
THEOREM OneLiveContext == Spec => []OneLive
<1>1. IInv => OneLive
  <2> SUFFICES ASSUME IInv, NEW c \in Cells, NEW d \in Cells, SourceOf[c] = SourceOf[d],
                      cell[c] \in InUse, cell[d] \in InUse
               PROVE  c = d
    BY DEF OneLive
  <2>1. entry[SourceOf[c]] = c /\ entry[SourceOf[d]] = d
    BY DEF IInv, CellInv
  <2> QED
    BY <2>1
<1> QED
  BY Invariance, <1>1, PTL
=============================================================================
