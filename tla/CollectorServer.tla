-------------------------- MODULE CollectorServer --------------------------
(***************************************************************************)
(* The collector service: crates/collector/server/src/server.rs.           *)
(*                                                                         *)
(* A source (a context in some process) opens one stream per entity type.  *)
(* The service keeps, per source with an open stream, an entry with the    *)
(* count of its streams and a cell in which the first batch builds the     *)
(* mirrored context; the last stream to close removes the entry and has    *)
(* the context dropped, and so flushed, on a thread of its own.  A         *)
(* mirrored context writes one file per entity type, which an importer     *)
(* finds by its directory (crates/io/types/src/lib.rs).                    *)
(***************************************************************************)
EXTENDS Integers, Sequences, FiniteSets

CONSTANTS Sources,         \* source context ids
          Streams,         \* the streams, one per source and entity type
          SourceOf,        \* the source-context-id of a stream
          MaxBatches,      \* bound: batches one stream brings
          MaxFailures,     \* bound: failures of make
          None

ASSUME ServerAssumption ==
  /\ IsFiniteSet(Streams)
  /\ SourceOf \in [Streams -> Sources]
  /\ MaxBatches \in Nat
  /\ MaxFailures \in Nat
  /\ None \notin Streams

(* The n-th batch of a stream. *)
Batches == [stream : Streams, n : 1..MaxBatches]

(* A cell, with the context in it, is named after the stream whose         *)
(* registration created it.                                                *)
Cells == Streams

VARIABLES pc,          \* where each stream's handler is
          got,         \* batches each stream has read
          hold,        \* the clone of the cell a handler holds, if any
          entry,       \* contexts: the cell of each source, if it has an entry
          openStreams, \* contexts: the count in the entry
          cell,        \* what has become of each cell
          mirror,      \* the batches each context ingested, in order
          failures     \* failures of make so far

handlerVars == <<pc, got, hold>>
mapVars     == <<entry, openStreams>>
cellVars    == <<cell, mirror, failures>>
vars == <<handlerVars, mapVars, cellVars>>

(* A handler is "unborn", in "read" it awaits the next batch, in "get" the *)
(* cell; "make" runs in the cell, "ingest" has the context, "leave" is out *)
(* of the loop with its guard still to drop, and then it is "closed".      *)
(* A cell is "unused", "empty", "making", "built"; a context is "dropping" *)
(* until its observers have "flushed", and a cell dropped before its       *)
(* context was built is "discarded".                                       *)
Init == /\ pc = [t \in Streams |-> "unborn"]
        /\ got = [t \in Streams |-> 0]
        /\ hold = [t \in Streams |-> None]
        /\ entry = [s \in Sources |-> None]
        /\ openStreams = [s \in Sources |-> 0]
        /\ cell = [c \in Cells |-> "unused"]
        /\ mirror = [c \in Cells |-> <<>>]
        /\ failures = 0
-----------------------------------------------------------------------------
(* Mutant: only the stream that creates the entry is counted. *)
RegisterFirst(t) ==
  LET s == SourceOf[t]
  IN /\ pc[t] = "unborn"
     /\ pc' = [pc EXCEPT ![t] = "read"]
     /\ IF entry[s] = None
          THEN /\ entry' = [entry EXCEPT ![s] = t]
               /\ cell' = [cell EXCEPT ![t] = "empty"]
               /\ openStreams' = [openStreams EXCEPT ![s] = 1]
          ELSE UNCHANGED <<entry, cell, openStreams>>
     /\ UNCHANGED <<got, hold, mirror, failures>>

(* Mutant: a new stream always brings a new cell. *)
RegisterReplaces(t) ==
  LET s == SourceOf[t]
  IN /\ pc[t] = "unborn"
     /\ pc' = [pc EXCEPT ![t] = "read"]
     /\ entry' = [entry EXCEPT ![s] = t]
     /\ cell' = [cell EXCEPT ![t] = "empty"]
     /\ openStreams' = [openStreams EXCEPT ![s] = @ + 1]
     /\ UNCHANGED <<got, hold, mirror, failures>>

(* A stream arrives and, under the write lock, registers with its source's *)
(* entry, which it creates when there is none.                             *)
Register(t) ==
  LET s == SourceOf[t]
  IN /\ pc[t] = "unborn"
     /\ pc' = [pc EXCEPT ![t] = "read"]
     /\ IF entry[s] = None
          THEN /\ entry' = [entry EXCEPT ![s] = t]
               /\ cell' = [cell EXCEPT ![t] = "empty"]
          ELSE UNCHANGED <<entry, cell>>
     /\ openStreams' = [openStreams EXCEPT ![s] = @ + 1]
     /\ UNCHANGED <<got, hold, mirror, failures>>

(* The next batch arrives; the handler clones the cell of its entry and    *)
(* goes for the context in it.                                             *)
ReadBatch(t) ==
  /\ pc[t] = "read"
  /\ got[t] < MaxBatches
  /\ pc' = [pc EXCEPT ![t] = "get"]
  /\ got' = [got EXCEPT ![t] = @ + 1]
  /\ hold' = [hold EXCEPT ![t] = entry[SourceOf[t]]]
  /\ UNCHANGED <<mapVars, cellVars>>

(* get_or_try_init: a built context is there for the taking, an empty cell *)
(* is filled by one handler, and the others wait while it does.            *)
GetContext(t) ==
  /\ pc[t] = "get"
  /\ \/ /\ cell[hold[t]] = "built"
        /\ pc' = [pc EXCEPT ![t] = "ingest"]
        /\ UNCHANGED cell
     \/ /\ cell[hold[t]] = "empty"
        /\ pc' = [pc EXCEPT ![t] = "make"]
        /\ cell' = [cell EXCEPT ![hold[t]] = "making"]
  /\ UNCHANGED <<got, hold, mapVars, mirror, failures>>

(* Mutant: a failure of make leaves the cell taken. *)
MakePoisons(t, ok) ==
  /\ pc[t] = "make"
  /\ IF ok
       THEN /\ cell' = [cell EXCEPT ![hold[t]] = "built"]
            /\ pc' = [pc EXCEPT ![t] = "ingest"]
            /\ UNCHANGED <<hold, failures>>
       ELSE /\ failures < MaxFailures
            /\ failures' = failures + 1
            /\ pc' = [pc EXCEPT ![t] = "leave"]
            /\ hold' = [hold EXCEPT ![t] = None]
            /\ UNCHANGED cell
  /\ UNCHANGED <<got, mapVars, mirror>>

(* make returns.  A failure leaves the cell empty for a later handler and  *)
(* ends the loop of this one.                                              *)
Make(t, ok) ==
  /\ pc[t] = "make"
  /\ IF ok
       THEN /\ cell' = [cell EXCEPT ![hold[t]] = "built"]
            /\ pc' = [pc EXCEPT ![t] = "ingest"]
            /\ UNCHANGED <<hold, failures>>
       ELSE /\ failures < MaxFailures
            /\ failures' = failures + 1
            /\ cell' = [cell EXCEPT ![hold[t]] = "empty"]
            /\ pc' = [pc EXCEPT ![t] = "leave"]
            /\ hold' = [hold EXCEPT ![t] = None]
  /\ UNCHANGED <<got, mapVars, mirror>>

(* The batch goes into the context's pipelines, and the clone of the cell  *)
(* goes out of scope.                                                      *)
Ingest(t) ==
  /\ pc[t] = "ingest"
  /\ mirror' = [mirror EXCEPT ![hold[t]] =
                  Append(@, [stream |-> t, n |-> got[t]])]
  /\ hold' = [hold EXCEPT ![t] = None]
  /\ pc' = [pc EXCEPT ![t] = "read"]
  /\ UNCHANGED <<got, mapVars, cell, failures>>

(* The loop ends: the source closed its stream, the stream broke, or the   *)
(* RPC's future was dropped at one of its two awaits, the batch in hand    *)
(* and the clone of the cell with it.                                      *)
Leave(t) ==
  /\ pc[t] \in {"read", "get"}
  /\ pc' = [pc EXCEPT ![t] = "leave"]
  /\ hold' = [hold EXCEPT ![t] = None]
  /\ UNCHANGED <<got, mapVars, cellVars>>

Dropped(c) == IF cell[c] = "built" THEN "dropping" ELSE "discarded"

(* Mutant: the entry outlives its last stream. *)
GuardKeepsEntry(t) ==
  LET s == SourceOf[t]
  IN /\ pc[t] = "leave"
     /\ pc' = [pc EXCEPT ![t] = "closed"]
     /\ openStreams' = [openStreams EXCEPT ![s] = @ - 1]
     /\ UNCHANGED <<got, hold, entry, cellVars>>

(* Mutant: any stream that closes takes the entry with it. *)
GuardDropsAlways(t) ==
  LET s == SourceOf[t]
  IN /\ pc[t] = "leave"
     /\ pc' = [pc EXCEPT ![t] = "closed"]
     /\ IF entry[s] = None
          THEN UNCHANGED <<openStreams, entry, cell>>
          ELSE /\ openStreams' = [openStreams EXCEPT ![s] = 0]
               /\ entry' = [entry EXCEPT ![s] = None]
               /\ cell' = [cell EXCEPT ![entry[s]] = Dropped(entry[s])]
     /\ UNCHANGED <<got, hold, mirror, failures>>

(* Drop for StreamGuard, under the write lock: the last stream removes the *)
(* entry and hands the cell to a thread that drops it.                     *)
GuardDrop(t) ==
  LET s == SourceOf[t]
  IN /\ pc[t] = "leave"
     /\ pc' = [pc EXCEPT ![t] = "closed"]
     /\ openStreams' = [openStreams EXCEPT ![s] = @ - 1]
     /\ IF openStreams[s] > 1
          THEN UNCHANGED <<entry, cell>>
          ELSE /\ entry' = [entry EXCEPT ![s] = None]
               /\ cell' = [cell EXCEPT ![entry[s]] = Dropped(entry[s])]
     /\ UNCHANGED <<got, hold, mirror, failures>>

(* The thread has dropped the context: every observer flushed its file     *)
(* (EventPipeline!DropFlushes).                                            *)
ContextFlushed(c) ==
  /\ cell[c] = "dropping"
  /\ cell' = [cell EXCEPT ![c] = "flushed"]
  /\ UNCHANGED <<handlerVars, mapVars, mirror, failures>>

Handler(t) == \/ GetContext(t)
              \/ \E ok \in BOOLEAN : Make(t, ok)
              \/ Ingest(t)
              \/ GuardDrop(t)

Next == \/ \E t \in Streams : Register(t) \/ ReadBatch(t) \/ Leave(t) \/ Handler(t)
        \/ \E c \in Cells : ContextFlushed(c)

(* The runtime polls every handler that has something to do and the thread *)
(* that drops a context ends; a source need not send or close anything.    *)
Fairness == /\ \A t \in Streams : WF_vars(Handler(t))
            /\ \A c \in Cells : WF_vars(ContextFlushed(c))

Spec == Init /\ [][Next]_vars /\ Fairness
-----------------------------------------------------------------------------
(* What must hold. *)

Open(t) == pc[t] \notin {"unborn", "closed"}

(* The count in an entry is that of the source's open streams and there is *)
(* an entry as long as there is one, so the lookups that expect an entry   *)
(* (server.rs:58, 158) never panic and none is left behind.                *)
EntryCountsStreams ==
  \A s \in Sources :
    /\ openStreams[s] = Cardinality({t \in Streams : Open(t) /\ SourceOf[t] = s})
    /\ entry[s] = None <=> openStreams[s] = 0

(* "entry.cell is the sole remaining handle here (no other stream is       *)
(* open), so this also drops the context itself" (server.rs:62-64): a cell *)
(* on its way out is held by no handler, so the flush runs on the thread   *)
(* made for it and not on a worker of the runtime.                         *)
SoleHandle ==
  \A c \in Cells : cell[c] \in {"dropping", "flushed", "discarded"} =>
    /\ \A t \in Streams : hold[t] # c
    /\ \A s \in Sources : entry[s] # c

(* The batches of a stream end up in one context, in order, each once and  *)
(* without a gap: no opening or closing of other streams, and no failure   *)
(* of make, changes the context under a stream (server.rs:152-184).        *)
StreamUnsplit ==
  \A c \in Cells : \A i \in 1..Len(mirror[c]) :
    LET batch == mirror[c][i]
    IN /\ \A d \in Cells : \A j \in 1..Len(mirror[d]) :
            mirror[d][j].stream = batch.stream => c = d /\ (i < j => batch.n < mirror[d][j].n)
       /\ \A k \in 1..(batch.n - 1) :
            \E h \in 1..Len(mirror[c]) : mirror[c][h] = [stream |-> batch.stream, n |-> k]

(* A handler that waits for the cell is not left waiting, not even when    *)
(* the handler it waits for fails to build the context.                    *)
GetReturns == \A t \in Streams : (pc[t] = "get") ~> (pc[t] # "get")

(* When the last stream of a source is gone, every context built for it    *)
(* gets flushed.                                                           *)
ContextsFlushed ==
  \A s \in Sources :
    (\A t \in Streams : SourceOf[t] = s => pc[t] = "closed")
      ~> (\A c \in Cells : SourceOf[c] = s => cell[c] \in {"unused", "discarded", "flushed"})

(* The contexts ever built for a source. *)
ContextsOf(s) ==
  {c \in Cells : SourceOf[c] = s /\ cell[c] \in {"built", "dropping", "flushed"}}

(* make "is invoked once per source on the first received batch"           *)
(* (server.rs:86-88), failures apart: a source has one mirrored context.   *)
BuiltOncePerSource == \A s \in Sources : Cardinality(ContextsOf(s)) <= 1

(* Each context makes a file for each entity type when it is built, in the *)
(* directory of that source and type.  What an importer reads of a source  *)
(* whose streams have all ended and whose contexts are flushed is          *)
(* everything that was ingested, whichever file read_dir lists first:      *)
(* resolve_import_path "returns the single file in it"                     *)
(* (crates/io/types/src/lib.rs:119-121).                                   *)
ImportedWhole ==
  \A t \in Streams :
    LET Content(c) == {b \in {mirror[c][i] : i \in 1..Len(mirror[c])} : b.stream = t}
        contexts   == ContextsOf(SourceOf[t])
        settled    == /\ \A u \in Streams : SourceOf[u] = SourceOf[t] => pc[u] = "closed"
                      /\ \A c \in contexts : cell[c] = "flushed"
    IN settled => \A file \in contexts :
                    Content(file) = UNION {Content(c) : c \in contexts}
=============================================================================
