---------------------------- MODULE ContextFiles ---------------------------
(***************************************************************************)
(* An instrumentation context that exports to files, from its building to  *)
(* the import of what it wrote: its entities' observers and the runtime    *)
(* they share (crates/instrumentation: context.rs, model.rs, observer.rs), *)
(* the buffered writers of the file exporters, and the importers           *)
(* (crates/io/ndjson, msgpack, postcard).                                  *)
(*                                                                         *)
(* A file is a sequence of parts, three to an event: a line's two halves   *)
(* and its newline, or a frame's length and its payload's halves.  The     *)
(* forwarder of EventPipeline is one queue here.  A write reaches the file *)
(* in pieces, so a reader, or the process's death, meets an event in parts *)
(* where no write has failed; a write that fails leaves one so for good.   *)
(***************************************************************************)
EXTENDS Integers, Sequences, FiniteSets, SequencesExt

CONSTANTS Order,    \* the model's entities, in the order they are built in
          Kinds,    \* "owned": the context spawns its runtime; "borrowed"
          Formats,  \* "ndjson", "framed": msgpack and postcard
          Batch,    \* batch_size_hint
          Capacity, \* of a BufWriter, in parts
          MaxEmits  \* bound: events of each entity

ASSUME SizesAssumption == Batch \in Nat \ {0} /\ Capacity \in Nat
ASSUME OrderAssumption == /\ Order \in Seq(ToSet(Order)) /\ Order # <<>>
                          /\ IsInjective(Order)

Entities == ToSet(Order)

VARIABLES kind, format,
          ctx,      \* "building", "live", "failed", "dropping", "gone"
          obs,      \* each observer: "unbuilt", "alive", "joining", "dropped"
          joiner,   \* the owner that joins, or joined, its forwarder
          owners,   \* who shares the observer: "ctx", "handle"
          runtime,  \* "up", "down"
          alive,    \* the process
          emitted,  \* history: an entity's events <<n, does it serialize>>
          queue,    \* the channel
          fw,       \* its forwarder: "none", "run", "close", "done"
          pend,     \* what write_all has yet to give to the buffer
          buf,      \* the BufWriter
          inflight, \* what a blocking thread is writing
          err,      \* the error of an earlier write, not yet reported
          disk,     \* the file
          failed    \* history: has a write failed

context == <<kind, format, ctx, obs, joiner, owners, runtime>>
file == <<pend, buf, inflight, err, disk, failed>>
vars == <<context, alive, emitted, queue, fw, file>>

Empty == [e \in Entities |-> <<>>]

Init == /\ kind \in Kinds /\ format \in Formats
        /\ ctx = "building" /\ runtime = "up" /\ alive = TRUE
        /\ obs = [e \in Entities |-> "unbuilt"]
        /\ owners = [e \in Entities |-> {}]
        /\ joiner = [e \in Entities |-> "none"]
        /\ fw = [e \in Entities |-> "none"]
        /\ emitted = Empty /\ queue = Empty
        /\ pend = Empty /\ buf = Empty /\ inflight = Empty /\ disk = Empty
        /\ err = [e \in Entities |-> FALSE] /\ failed = err
-----------------------------------------------------------------------------
(* The application.                                                        *)

(* build_observers: each exporter creates its file, one after another; the *)
(* first that cannot ends the building. *)
Build ==
  LET built == Cardinality({e \in Entities : obs[e] # "unbuilt"})
      e == Order[built + 1]
  IN /\ ctx = "building"
     /\ \/ /\ obs' = [obs EXCEPT ![e] = "alive"]
           /\ owners' = [owners EXCEPT ![e] = {"ctx"}]
           /\ fw' = [fw EXCEPT ![e] = "run"]
           /\ ctx' = IF built + 1 = Len(Order) THEN "live" ELSE ctx
        \/ ctx' = "failed" /\ UNCHANGED <<obs, owners, fw>>
     /\ UNCHANGED <<kind, format, joiner, runtime, alive, emitted, queue, file>>

(* Observer::handle *)
TakeHandle(e) ==
  /\ ctx = "live" /\ emitted[e] = <<>>
  /\ owners' = [owners EXCEPT ![e] = @ \cup {"handle"}]
  /\ owners' # owners
  /\ UNCHANGED <<kind, format, ctx, obs, joiner, runtime, alive, emitted, queue, fw, file>>

Emit(e) ==
  /\ "handle" \in owners[e] /\ Len(emitted[e]) < MaxEmits[e]
  /\ \E serializes \in BOOLEAN :
       LET event == <<Len(emitted[e]) + 1, serializes>>
       IN /\ emitted' = [emitted EXCEPT ![e] = Append(@, event)]
          /\ queue' = [queue EXCEPT ![e] = Append(@, event)]
  /\ UNCHANGED <<context, alive, fw, file>>

(* An owner goes; the last one cancels the forwarder and joins it. *)
Disown(e, who) ==
  /\ who \in owners[e]
  /\ owners' = [owners EXCEPT ![e] = @ \ {who}]
  /\ IF owners'[e] = {} THEN /\ obs' = [obs EXCEPT ![e] = "joining"]
                             /\ joiner' = [joiner EXCEPT ![e] = who]
                        ELSE UNCHANGED <<obs, joiner>>

DropHandle(e) == /\ Disown(e, "handle")
                 /\ UNCHANGED <<kind, format, ctx, runtime, alive, emitted, queue, fw, file>>

DropContext == /\ ctx = "live"
               /\ ctx' = "dropping"
               /\ UNCHANGED <<kind, format, obs, joiner, owners, runtime, alive, emitted, queue,
                              fw, file>>

(* The context's drop, and a building that failed: nothing else goes on    *)
(* in their thread while it joins a forwarder. *)
GoesDown == /\ ctx \in {"dropping", "failed"}
            /\ \A e \in Entities : joiner[e] = "ctx" => obs[e] = "dropped"

(* The observers go first. *)
ContextDisowns(e) ==
  /\ GoesDown
  /\ Disown(e, "ctx")
  /\ UNCHANGED <<kind, format, ctx, runtime, alive, emitted, queue, fw, file>>

(* Mutant: an observer does not keep the runtime. *)
ContextOnly(c, o) == c # "gone"

(* Who holds an owned runtime: the context and each observer. *)
Held(c, o) == c # "gone" \/ \E e \in Entities : o[e] \in {"alive", "joining"}

(* Runtime::drop *)
RuntimeAfter(c, o) == IF kind = "owned" /\ ~Held(c, o) THEN "down" ELSE runtime

(* ObserverInner::drop returns from the join and drops its runtime. *)
JoinReturns(e) ==
  /\ obs[e] = "joining" /\ fw[e] = "done"
  /\ obs' = [obs EXCEPT ![e] = "dropped"]
  /\ runtime' = RuntimeAfter(ctx, obs')
  /\ UNCHANGED <<kind, format, ctx, joiner, owners, alive, emitted, queue, fw, file>>

(* ContextInner is dropped after the observers.  Where a handle was the    *)
(* last owner, its join may still be going on. *)
InnerDrops ==
  /\ GoesDown /\ \A e \in Entities : "ctx" \notin owners[e]
  /\ ctx' = "gone"
  /\ runtime' = RuntimeAfter(ctx', obs)
  /\ UNCHANGED <<kind, format, obs, joiner, owners, alive, emitted, queue, fw, file>>

(* The process dies, with whatever of a write in flight is in the file. *)
Crash == /\ alive /\ alive' = FALSE
         /\ UNCHANGED <<context, emitted, queue, fw, file>>
-----------------------------------------------------------------------------
(* The forwarder and its exporter, while there is a runtime.               *)

Frame(event) == [i \in 1..3 |-> <<event[1], i>>]

Idle(e) == fw[e] = "run" /\ pend[e] = <<>> /\ runtime = "up"

(* Mutant: one event that does not serialize drops the batch. *)
AllOrNothing(events) ==
  IF \A i \in DOMAIN events : events[i][2] THEN FlattenSeq([i \in DOMAIN events |-> Frame(events[i])])
                                           ELSE <<>>

FrameIf(event) == IF event[2] THEN Frame(event) ELSE <<>>

(* drain_events: the batch is serialized, less what does not serialize. *)
Serialized(events) == FlattenSeq([i \in DOMAIN events |-> FrameIf(events[i])])

Drain(e) ==
  LET n == IF Len(queue[e]) < Batch THEN Len(queue[e]) ELSE Batch
  IN /\ Idle(e) /\ n > 0
     /\ pend' = [pend EXCEPT ![e] = Serialized(SubSeq(queue[e], 1, n))]
     /\ queue' = [queue EXCEPT ![e] = SubSeq(@, n + 1, Len(@))]
     /\ UNCHANGED <<context, alive, emitted, fw, buf, inflight, err, disk, failed>>

Fits(e) == Len(buf[e]) + Len(pend[e]) <= Capacity

(* BufWriter: what fits is copied. *)
Copy(e) ==
  /\ pend[e] # <<>> /\ runtime = "up"
  /\ Fits(e) /\ Len(pend[e]) < Capacity
  /\ buf' = [buf EXCEPT ![e] = @ \o pend[e]]
  /\ pend' = [pend EXCEPT ![e] = <<>>]
  /\ UNCHANGED <<context, alive, emitted, queue, fw, inflight, err, disk, failed>>

(* BufWriter: what does not fit sends the buffer ahead of it, and is       *)
(* written past the buffer if it is as large.  A file takes what it is     *)
(* given and writes it on a blocking thread, one thing at a time: the      *)
(* error of a write comes back to the next, and ends write_all, and with   *)
(* it the batch. *)
WriteThrough(e) ==
  /\ pend[e] # <<>> /\ inflight[e] = <<>> /\ runtime = "up"
  /\ ~Fits(e) \/ Len(pend[e]) >= Capacity
  /\ err' = [err EXCEPT ![e] = FALSE]
  /\ CASE err[e] -> /\ pend' = [pend EXCEPT ![e] = <<>>]
                    /\ UNCHANGED <<buf, inflight>>
       [] ~err[e] /\ buf[e] # <<>> /\ ~Fits(e) ->
                    /\ inflight' = [inflight EXCEPT ![e] = buf[e]]
                    /\ buf' = [buf EXCEPT ![e] = <<>>]
                    /\ UNCHANGED pend
       [] OTHER  -> /\ inflight' = [inflight EXCEPT ![e] = pend[e]]
                    /\ pend' = [pend EXCEPT ![e] = <<>>]
                    /\ UNCHANGED buf
  /\ UNCHANGED <<context, alive, emitted, queue, fw, disk, failed>>

(* The blocking thread: the file takes what it is given piece by piece.    *)
WriteSome(e) ==
  /\ \E n \in 1..(Len(inflight[e]) - 1) :
       /\ disk' = [disk EXCEPT ![e] = @ \o SubSeq(inflight[e], 1, n)]
       /\ inflight' = [inflight EXCEPT ![e] = SubSeq(@, n + 1, Len(@))]
  /\ UNCHANGED <<context, alive, emitted, queue, fw, pend, buf, err, failed>>

(* The write ends; one that fails has written any part of what was left.   *)
(* It is not stopped with the runtime. *)
WriteEnds(e) ==
  /\ inflight[e] # <<>>
  /\ \E n \in 0..Len(inflight[e]) :
       /\ disk' = [disk EXCEPT ![e] = @ \o SubSeq(inflight[e], 1, n)]
       /\ err' = [err EXCEPT ![e] = n < Len(inflight[e])]
       /\ failed' = [failed EXCEPT ![e] = @ \/ n < Len(inflight[e])]
  /\ inflight' = [inflight EXCEPT ![e] = <<>>]
  /\ UNCHANGED <<context, alive, emitted, queue, fw, pend, buf>>

(* Cancelled, and the closed channel is drained: Exporter::shutdown. *)
Close(e) ==
  /\ Idle(e) /\ obs[e] = "joining" /\ queue[e] = <<>>
  /\ fw' = [fw EXCEPT ![e] = "close"]
  /\ UNCHANGED <<context, alive, emitted, queue, file>>

ToFlush(e) == buf[e] # <<>>

(* flush: the buffer, then what is in flight; an error ends it. *)
Shutdown(e) ==
  /\ fw[e] = "close" /\ inflight[e] = <<>> /\ runtime = "up"
  /\ IF ToFlush(e) /\ ~err[e]
       THEN /\ inflight' = [inflight EXCEPT ![e] = buf[e]]
            /\ buf' = [buf EXCEPT ![e] = <<>>]
            /\ UNCHANGED fw
       ELSE /\ fw' = [fw EXCEPT ![e] = "done"]
            /\ UNCHANGED <<inflight, buf>>
  /\ UNCHANGED <<context, alive, emitted, queue, pend, err, disk, failed>>

Forwarder(e) == \/ Drain(e) \/ Copy(e) \/ WriteThrough(e) \/ WriteSome(e) \/ WriteEnds(e)
                \/ Close(e) \/ Shutdown(e)

Teardown(e) == ContextDisowns(e) \/ JoinReturns(e)

Next == \/ Crash
        \/ /\ alive
           /\ \/ Build \/ DropContext \/ InnerDrops
              \/ \E e \in Entities :
                   TakeHandle(e) \/ Emit(e) \/ DropHandle(e) \/ Teardown(e) \/ Forwarder(e)

(* Fairness: a drop that has begun goes on, tokio runs the forwarders and  *)
(* its blocking threads.  Nobody has to drop a context or a handle, and    *)
(* the process need not live. *)
Spec == /\ Init /\ [][Next]_vars
        /\ WF_vars(alive /\ InnerDrops)
        /\ \A e \in Entities : WF_vars(alive /\ Teardown(e)) /\ WF_vars(alive /\ Forwarder(e))
-----------------------------------------------------------------------------
(* The importers, up to the first error they return.                       *)

(* NdjsonImporter: a line is what ends in a newline, or in the file's end; *)
(* one that was written in part, or runs into the next, does not parse.    *)
Newlines(d) == {i \in DOMAIN d : d[i][2] = 3}

LineEnds(d) == Newlines(d) \cup {i \in {Len(d) + 1} : d # <<>> /\ Len(d) \notin Newlines(d)}

LineStart(d, i) == 1 + Max({0} \cup {j \in Newlines(d) : j < i})

Lines(d) ==
  LET ends == LineEnds(d)
  IN [n \in 1..Cardinality(ends) |->
        LET i == CHOOSE j \in ends : Cardinality({k \in ends : k <= j}) = n
        IN SubSeq(d, LineStart(d, i), i - 1)]

ParsedLine(line) == /\ Len(line) = 2 /\ line[1][1] = line[2][1]
                    /\ line[1][2] = 1 /\ line[2][2] = 2

(* MsgpackImporter, PostcardImporter: the length, then the payload.        *)
Frames(d) == [n \in 1..((Len(d) + 2) \div 3) |->
                SubSeq(d, 3 * n - 2, IF 3 * n <= Len(d) THEN 3 * n ELSE Len(d))]

(* Mutant: a payload that is cut short is taken for what there is of it.   *)
AnyLength(f) == f = SubSeq(Frame(<<f[1][1], TRUE>>), 1, Len(f))

ParsedFrame(f) == Len(f) = 3 /\ f = Frame(<<f[1][1], TRUE>>)

Items(d) == IF format = "ndjson" THEN Lines(d) ELSE Frames(d)
Parses(item) == IF format = "ndjson" THEN ParsedLine(item) ELSE ParsedFrame(item)

(* The numbers of the events imported. *)
Imported(d) ==
  LET items == Items(d)
      good  == CHOOSE n \in 0..Len(items) : /\ \A i \in 1..n : Parses(items[i])
                                            /\ n < Len(items) => ~Parses(items[n + 1])
  IN [i \in 1..good |-> items[i][1][1]]

NumberIf(event) == IF event[2] THEN <<event[1]>> ELSE <<>>

(* The numbers of the events that serialize. *)
Numbers(events) == FlattenSeq([i \in DOMAIN events |-> NumberIf(events[i])])

Good(e) == Numbers(emitted[e])

(* The parts of an event without which it is not read. *)
Needed == IF format = "ndjson" THEN 1..2 ELSE 1..3

(* Whenever a file is read, while it is written, after a crash or at the   *)
(* end, what is imported is what was emitted, from the start, without a    *)
(* gap, at most the last item is torn, and no event is imported of which   *)
(* the file has only a part.  After a write that failed, lines (not        *)
(* frames, whose boundaries are lost) still come in order, none made up    *)
(* and none twice. *)
ImportedInOrder ==
  \A e \in Entities :
    LET got == Imported(disk[e])
    IN /\ ~failed[e] => IsPrefix(got, Good(e)) /\ Len(Items(disk[e])) <= Len(got) + 1
       /\ \A n \in ToSet(got), i \in Needed : <<n, i>> \in ToSet(disk[e])
       /\ format = "ndjson" =>
            /\ ToSet(got) \subseteq ToSet(Good(e))
            /\ \A i, j \in DOMAIN got : i < j => got[i] < got[j]

(* When an observer's drop has returned, everything its handles emitted    *)
(* can be imported, unless the disk failed; and only an owned runtime is   *)
(* shut down, and only when no forwarder is left: "Safe to abandon tasks   *)
(* here: the observers' forwarders have already flushed by the time the    *)
(* last holder drops" (context.rs:43-44), in whatever order context and    *)
(* handles go.                                                             *)
DropsFlush ==
  /\ \A e \in Entities : obs[e] = "dropped" /\ ~failed[e] =>
       Imported(disk[e]) = Good(e) /\ Len(Items(disk[e])) = Len(Good(e))
  /\ runtime = "down" => kind = "owned" /\ \A e \in Entities : fw[e] \in {"none", "done"}

(* A context that was dropped, or could not be built, and has no handles   *)
(* left, comes down: its observers' drops return and an owned runtime      *)
(* stops. *)
ComesDown ==
  (ctx \in {"failed", "dropping"} /\ \A e \in Entities : "handle" \notin owners[e])
    ~> \/ ~alive
       \/ /\ ctx = "gone" /\ \A e \in Entities : obs[e] \in {"unbuilt", "dropped"}
          /\ kind = "owned" => runtime = "down"
=============================================================================
