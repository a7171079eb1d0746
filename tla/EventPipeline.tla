--------------------------- MODULE EventPipeline ---------------------------
(***************************************************************************)
(* The event pipeline behind one entity type of a generated context:       *)
(* crates/instrumentation/src/observer.rs with the handles and observers   *)
(* that share it (entity.rs, handle.rs) and the exporter it feeds          *)
(* (crates/io/types/src/lib.rs).                                           *)
(*                                                                         *)
(* An owner is an Observer or a Handle: a clone of the Arc<ObserverInner>. *)
(* A sender is a detached EventSender: it may outlive the pipeline.  The   *)
(* forwarder is the tokio task spawn_forwarder starts; the thread that     *)
(* drops the last owner runs Drop for ObserverInner, which cancels the     *)
(* forwarder and blocks until it has ended.                                *)
(***************************************************************************)
EXTENDS Integers, Sequences, FiniteSets

CONSTANTS Owners,                 \* the Arcs of one ObserverInner over its life
          Observers,              \* those of them that are Observers, not Handles
          Root,                   \* the Observer the context hands out first
          Senders,                \* detached EventSender clones
          BatchHint,              \* Exporter::batch_size_hint
          MaxEmits                \* bound: sends tried by one producer

ASSUME OwnersAssumption   == /\ Root \in Observers /\ Observers \subseteq Owners
                             /\ IsFiniteSet(Owners)
ASSUME SendersAssumption  == Senders \cap Owners = {}
ASSUME BatchAssumption    == BatchHint \in Nat \ {0}
ASSUME MaxEmitsAssumption == MaxEmits \in Nat

Producers == Owners \cup Senders

(* Every send is a distinct event: the n-th one of its producer. *)
Events == [from : Producers, n : 1..MaxEmits]

VARIABLES live,       \* the producers that exist now
          born,       \* the producers that ever existed (an Arc is not revived)
          emitted,    \* how many sends each producer has tried
          queue,      \* the unbounded channel's content
          open,       \* does the channel still take events
          cancelled,  \* the cancellation token
          fpc,        \* where the forwarder task is
          buffer,     \* the forwarder's local batch
          drop,       \* the Drop of ObserverInner: "none", "joining", "returned"
          accepted,   \* history: every event whose send returned Ok, in order
          handled,    \* history: every event given to the exporter, in order
          failed      \* history: those of them the exporter reported an error for

appVars  == <<live, born, emitted>>
chanVars == <<queue, open, accepted>>
taskVars == <<fpc, buffer, handled, failed>>
dropVars == <<cancelled, drop>>
vars == <<appVars, chanVars, taskVars, dropVars>>

(* "select" and "drain" wait for events, before and after cancellation;    *)
(* "export" and "drainExport" are inside drain_events; "dead" is a task    *)
(* that panicked in the exporter or was aborted with its runtime.          *)
ForwarderPcs == {"select", "export", "drain", "drainExport", "shutdown",
                 "done", "dead"}

(* Mutant: the join does not wait for the task. *)
NeverJoined == ForwarderPcs

Ended == {"done", "dead"}

TypeOK ==
  /\ live \in SUBSET Producers
  /\ born \in SUBSET Producers
  /\ emitted \in [Producers -> 0..MaxEmits]
  /\ queue \in Seq(Events)
  /\ open \in BOOLEAN
  /\ cancelled \in BOOLEAN
  /\ fpc \in ForwarderPcs
  /\ buffer \in Seq(Events) /\ Len(buffer) <= BatchHint
  /\ drop \in {"none", "joining", "returned"}
  /\ accepted \in Seq(Events)
  /\ handled \in Seq(Events)
  /\ failed \in SUBSET Events

Init == /\ live = {Root}
        /\ born = {Root}
        /\ emitted = [p \in Producers |-> 0]
        /\ queue = <<>>
        /\ open = TRUE
        /\ cancelled = FALSE
        /\ fpc = "select"
        /\ buffer = <<>>
        /\ drop = "none"
        /\ accepted = <<>>
        /\ handled = <<>>
        /\ failed = {}
-----------------------------------------------------------------------------
(* The application.                                                        *)

(* A new Handle, a clone of the Observer or a detached sender, made from a *)
(* live Observer; a sender can be cloned from a sender, too.               *)
NewProducer(p) ==
  /\ p \notin born
  /\ \/ live \cap Observers # {}
     \/ p \in Senders /\ live \cap Senders # {}
  /\ live' = live \cup {p}
  /\ born' = born \cup {p}
  /\ UNCHANGED <<emitted, chanVars, taskVars, dropVars>>

(* EventSender::send: the channel takes the event or, once its receiver is *)
(* closed or gone, hands it back and the event is discarded.               *)
Emit(p) ==
  /\ p \in live
  /\ emitted[p] < MaxEmits
  /\ emitted' = [emitted EXCEPT ![p] = @ + 1]
  /\ LET e == [from |-> p, n |-> emitted[p] + 1]
     IN IF open
          THEN /\ queue' = Append(queue, e)
               /\ accepted' = Append(accepted, e)
          ELSE UNCHANGED <<queue, accepted>>
  /\ UNCHANGED <<live, born, open, taskVars, dropVars>>

(* Mutant: any owner's drop counts as the last one's. *)
AnyOwner(o) == o \in Owners

LastOwner(o) == live \cap Owners = {o}

(* The Arc of an owner is dropped.  The last one runs Drop for             *)
(* ObserverInner: it cancels the token and goes on to join the forwarder.  *)
DropOwner(o) ==
  /\ o \in live
  /\ live' = live \ {o}
  /\ IF LastOwner(o)
       THEN cancelled' = TRUE /\ drop' = "joining"
       ELSE UNCHANGED dropVars
  /\ UNCHANGED <<born, emitted, chanVars, taskVars>>

(* drive(forwarder_handle): the join returns when the task has ended; a    *)
(* JoinError is logged and the drop returns all the same.                  *)
DropReturns ==
  /\ drop = "joining"
  /\ fpc \in Ended
  /\ drop' = "returned"
  /\ UNCHANGED <<appVars, chanVars, taskVars, cancelled>>
-----------------------------------------------------------------------------
(* The forwarder task.                                                     *)

(* Mutant: the exporter's hint is ignored. *)
WholeQueue(q) == Len(q)

BatchSize(q) == IF Len(q) < BatchHint THEN Len(q) ELSE BatchHint

(* Mutant: the newest events are taken, as from a stack. *)
RecvNewest ==
  /\ fpc \in {"select", "drain"}
  /\ queue # <<>>
  /\ buffer' = SubSeq(queue, Len(queue) - BatchSize(queue) + 1, Len(queue))
  /\ queue' = SubSeq(queue, 1, Len(queue) - BatchSize(queue))
  /\ fpc' = IF fpc = "select" THEN "export" ELSE "drainExport"
  /\ UNCHANGED <<appVars, open, accepted, handled, failed, dropVars>>

(* What is there, up to the exporter's hint, becomes the batch. *)
Receive ==
  /\ fpc \in {"select", "drain"}
  /\ buffer' = SubSeq(queue, 1, BatchSize(queue))
  /\ queue' = SubSeq(queue, BatchSize(queue) + 1, Len(queue))
  /\ fpc' = IF fpc = "select" THEN "export" ELSE "drainExport"
  /\ UNCHANGED <<appVars, open, accepted, handled, failed, dropVars>>

(* Mutant: the task waits for a full batch. *)
RecvFullBatch == Len(queue) >= BatchHint /\ Receive

(* recv_many(&mut buffer, limit), in the select! arm or in the drain loop. *)
(* It can answer 0 only in the drain loop: the channel reports its end to  *)
(* the select! arm only when every sender is gone, and the one             *)
(* ObserverInner holds lives until its drop has joined this task.          *)
RecvMany == queue # <<>> /\ Receive

AfterPush == IF Len(buffer) > 1 THEN fpc
             ELSE IF fpc = "export" THEN "select" ELSE "drain"

(* drain_events pushes the batch in order; an event the exporter refuses   *)
(* is logged and skipped, the others still go out.                         *)
PushEvent(ok) ==
  /\ fpc \in {"export", "drainExport"}
  /\ handled' = Append(handled, Head(buffer))
  /\ failed' = IF ok THEN failed ELSE failed \cup {Head(buffer)}
  /\ buffer' = Tail(buffer)
  /\ fpc' = AfterPush
  /\ UNCHANGED <<appVars, chanVars, dropVars>>

(* Mutant: the receiver is dropped instead of closed. *)
CancelDropsReceiver ==
  /\ fpc = "select"
  /\ cancelled
  /\ open' = FALSE
  /\ queue' = <<>>
  /\ fpc' = "drain"
  /\ UNCHANGED <<appVars, accepted, buffer, handled, failed, dropVars>>

(* The cancelled() arm: the receiver is closed, and the drain loop begins. *)
(* select! polls its arms in random order, so it may win over a queue that *)
(* is not empty.                                                           *)
ObserveCancel ==
  /\ fpc = "select"
  /\ cancelled
  /\ open' = FALSE
  /\ fpc' = "drain"
  /\ UNCHANGED <<appVars, queue, accepted, buffer, handled, failed, dropVars>>

(* Mutant: the drain loop ends when every sender is gone. *)
DrainEndsWithSenders ==
  /\ fpc = "drain"
  /\ queue = <<>>
  /\ live = {}
  /\ fpc' = "shutdown"
  /\ UNCHANGED <<appVars, chanVars, buffer, handled, failed, dropVars>>

(* recv_many answers 0: the channel is closed and empty. *)
DrainEnds ==
  /\ fpc = "drain"
  /\ queue = <<>>
  /\ fpc' = "shutdown"
  /\ UNCHANGED <<appVars, chanVars, buffer, handled, failed, dropVars>>

(* exporter.shutdown() consumes the exporter; its error is only logged. *)
ShutdownExporter ==
  /\ fpc = "shutdown"
  /\ fpc' = "done"
  /\ UNCHANGED <<appVars, chanVars, buffer, handled, failed, dropVars>>

(* The task panics inside the exporter, or the runtime it runs on goes     *)
(* away: the receiver and the batch are dropped with it.                   *)
ForwarderDies ==
  /\ fpc \notin Ended
  /\ fpc' = "dead"
  /\ open' = FALSE
  /\ queue' = <<>>
  /\ buffer' = <<>>
  /\ UNCHANGED <<appVars, accepted, handled, failed, dropVars>>

Forwarder == \/ RecvMany
             \/ \E ok \in BOOLEAN : PushEvent(ok)
             \/ ObserveCancel
             \/ DrainEnds
             \/ ShutdownExporter

Next == \/ \E p \in Producers : NewProducer(p) \/ Emit(p)
        \/ \E o \in Owners : DropOwner(o)
        \/ DropReturns
        \/ Forwarder
        \/ ForwarderDies

(* The runtime keeps polling the forwarder and the dropping thread is      *)
(* woken when it ends; nothing obliges an application to emit or to drop.  *)
Fairness == WF_vars(Forwarder) /\ WF_vars(DropReturns)

SafetySpec == Init /\ [][Next]_vars

Spec == SafetySpec /\ Fairness
-----------------------------------------------------------------------------
(* What must hold. *)

(* The events of a sequence are its producers' sends in order: none twice, *)
(* and none without the producer's earlier ones before it.                 *)
InSendOrder(s) ==
  /\ \A i, j \in 1..Len(s) : i # j => s[i] # s[j]
  /\ \A i \in 1..Len(s) : \A k \in 1..(s[i].n - 1) :
       \E j \in 1..(i - 1) : s[j] = [from |-> s[i].from, n |-> k]

(* Whatever the channel took is, in the same order and exactly once, with  *)
(* the exporter, in the forwarder's batch or still in the channel: close,  *)
(* recv_many and the drain loop (observer.rs:159-201) lose, duplicate and  *)
(* reorder nothing, however the sends and the drops interleave with them.  *)
Conservation == fpc # "dead" => accepted = handled \o buffer \o queue

(* A send through a handle or an observer is never discarded while the     *)
(* forwarder lives: the channel closes only after the last of them is gone *)
(* (observer.rs:128-146), so only detached senders can come too late.      *)
OwnersNeverRefused ==
  \A o \in Owners \cap live : open \/ fpc = "dead"

(* When the drop returns, its join has seen the forwarder out: every event *)
(* any owner emitted, and every event accepted from a detached sender, has *)
(* been given to the exporter, in the order of acceptance ("Dropping the   *)
(* final shared owner cancels the forwarder and flushes the exporter",     *)
(* observer.rs:76-78).                                                     *)
DropFlushes ==
  (drop = "returned" /\ fpc # "dead")
    => /\ fpc = "done"
       /\ handled = accepted
       /\ \A o \in Owners : \A k \in 1..emitted[o] :
            \E i \in 1..Len(handled) : handled[i] = [from |-> o, n |-> k]

(* The exporter sees each producer's events once, in the order they were   *)
(* sent and without a gap, even if the forwarder dies half way: once a     *)
(* send is discarded so is every later one of that producer.               *)
HandledInSendOrder == InSendOrder(handled)

(* Dropping the last owner always comes back to the caller, even when the  *)
(* forwarder dies and while detached senders keep sending.                 *)
DropCompletes == (drop = "joining") ~> (drop = "returned")

(* An accepted event does not wait for the drop: it reaches the exporter   *)
(* unless the forwarder dies.                                              *)
AcceptedIsHandled ==
  \A k \in 1..(MaxEmits * Cardinality(Producers)) :
    (Len(accepted) >= k) ~> (Len(handled) >= k \/ fpc = "dead")

(* The pipeline, channel and task and all, is an EventDelivery. *)
Delivery == INSTANCE EventDelivery
              WITH Event     <- Events,
                   delivered <- handled,
                   phase     <- IF fpc = "dead" THEN "failed"
                                ELSE IF fpc = "done" THEN "flushed"
                                ELSE IF open THEN "open" ELSE "closed",
                   returned  <- drop = "returned"

DeliverySpec == Delivery!Spec
=============================================================================
