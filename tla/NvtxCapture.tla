---------------------------- MODULE NvtxCapture ----------------------------
(***************************************************************************)
(* NVTX capture and reconstruction: the callbacks and the hook of          *)
(* integrations/nvtx/injection (callbacks.rs, init.rs) on the threads of   *)
(* an application, and the model the analyzer makes of what was captured   *)
(* (NvtxModel).                                                            *)
(*                                                                         *)
(* The hook may be installed late, so that some ranges close that were     *)
(* never seen to open.  It stamps an event and then sends it: between the  *)
(* two, other threads get in, and the log is not in the order of time.     *)
(***************************************************************************)
EXTENDS NvtxModel

CONSTANTS Threads,    \* the application's threads
          Domains,    \* NVTX domains
          Classes,    \* "range" (RangeStart/End), "resource" (Create/Destroy)
          MaxCalls,   \* bound: NVTX calls made
          MaxHandles, \* bound: handles given out
          MaxTime     \* bound: the clock

ASSUME BoundsAssumption == {MaxCalls, MaxHandles, MaxTime} \subseteq Nat
ASSUME ClassAssumption == Classes \subseteq {"range", "resource"}

VARIABLES hook,         \* HOOK: is it installed
          now,          \* the monotonic clock, when it was last read
          next_handle,  \* NEXT_HANDLE
          depth,        \* RANGE_DEPTH of each thread, by domain
          dispatching,  \* what a thread has stamped and not yet sent
          log,          \* the captured stream, in order of arrival
          calls,        \* how many NVTX calls were made; a call names its range
          stack,        \* history: the push ranges really open, innermost last
          running       \* history: the process-wide ranges and resources open

vars == <<hook, now, next_handle, depth, dispatching, log, calls, stack, running>>

(* An event.  The analyzer reads all up to the key, and the name where     *)
(* the event opens something.  The name where it closes, the parent and    *)
(* the level are history, for the properties.                              *)
Event(kind, class, t, d, key, name, parent, level) ==
  [ts |-> 0, kind |-> kind, class |-> class, thread |-> t, domain |-> d, key |-> key,
   name |-> name, cat |-> None, parent |-> parent, level |-> level]

Init == /\ hook = FALSE
        /\ now = 0
        /\ next_handle = 1
        /\ depth = [t \in Threads |-> [d \in Domains |-> 0]]
        /\ dispatching = [t \in Threads |-> None]
        /\ log = <<>>
        /\ calls = 0
        /\ stack = [t \in Threads |-> [d \in Domains |-> <<>>]]
        /\ running = {}
-----------------------------------------------------------------------------
(* The application's threads, inside the callbacks.                        *)

(* install_hook, once per process. *)
InstallHook ==
  /\ ~hook
  /\ hook' = TRUE
  /\ UNCHANGED <<now, next_handle, depth, dispatching, log, calls, stack, running>>

(* dispatch: without a hook the event is dropped; the hook reads the clock *)
(* and stamps it.                                                          *)
Dispatch(t, e) ==
  IF hook THEN \E ts \in now..MaxTime :
                 /\ now' = ts
                 /\ dispatching' = [dispatching EXCEPT ![t] = [e EXCEPT !.ts = ts]]
          ELSE UNCHANGED <<now, dispatching>>

Calls(t) == /\ dispatching[t] = None
            /\ calls < MaxCalls
            /\ calls' = calls + 1

Captured(s) == SelectSeq(s, LAMBDA r : r.captured)

(* on_domain_range_push_ex: the level is the depth before, and counts      *)
(* whether or not anyone listens.                                          *)
Push(t, d) ==
  LET up == Captured(stack[t][d])
  IN /\ Calls(t)
     /\ depth' = [depth EXCEPT ![t][d] = @ + 1]
     /\ Dispatch(t, Event("push", "stack", t, d, None, calls',
                          IF up = <<>> THEN None ELSE Last(up).name, depth[t][d]))
     /\ stack' = [stack EXCEPT ![t][d] = Append(@, [name |-> calls', captured |-> hook])]
     /\ UNCHANGED <<hook, next_handle, log, running>>

(* Mutant: the level is not held at zero. *)
LevelBelow(n) == n - 1

(* range_pop_level: an unbalanced pop stays at level 0. *)
LevelAfterPop(n) == IF n > 0 THEN n - 1 ELSE 0

(* on_domain_range_pop *)
Pop(t, d) ==
  LET s == stack[t][d]
  IN /\ Calls(t)
     /\ depth' = [depth EXCEPT ![t][d] = LevelAfterPop(@)]
     /\ Dispatch(t, Event("pop", "stack", t, d, None,
                          IF s = <<>> THEN None ELSE Last(s).name, None,
                          LevelAfterPop(depth[t][d])))
     /\ stack' = [stack EXCEPT ![t][d] = IF s = <<>> THEN s ELSE Front(s)]
     /\ UNCHANGED <<hook, next_handle, log, running>>

Handle(e) == [class |-> e.class, domain |-> e.domain, key |-> e.key, name |-> e.name]

(* on_domain_range_start_ex, on_domain_resource_create: the caller gets    *)
(* the handle when the call returns.                                       *)
Open(t, d, c) ==
  LET e == Event("open", c, t, d, next_handle, calls', None, None)
  IN /\ Calls(t)
     /\ next_handle <= MaxHandles
     /\ next_handle' = next_handle + 1
     /\ Dispatch(t, e)
     /\ running' = IF hook THEN running ELSE running \cup {Handle(e)}
     /\ UNCHANGED <<hook, depth, log, stack>>

(* on_domain_range_end, on_domain_resource_destroy, on any thread *)
Close(t, r) ==
  /\ Calls(t)
  /\ running' = running \ {r}
  /\ Dispatch(t, Event("close", r.class, t, r.domain, r.key, r.name, None, None))
  /\ UNCHANGED <<hook, next_handle, depth, log, stack>>

(* The hook has the event sent, and the callback returns. *)
Send(t) ==
  /\ dispatching[t] # None
  /\ log' = Append(log, dispatching[t])
  /\ dispatching' = [dispatching EXCEPT ![t] = None]
  /\ running' = IF dispatching[t].kind = "open"
                  THEN running \cup {Handle(dispatching[t])}
                  ELSE running
  /\ UNCHANGED <<hook, now, next_handle, depth, calls, stack>>

Next == \/ InstallHook
        \/ \E t \in Threads, d \in Domains :
             Push(t, d) \/ Pop(t, d) \/ \E c \in Classes : Open(t, d, c)
        \/ \E t \in Threads, r \in running : Close(t, r)
        \/ \E t \in Threads : Send(t)

Spec == Init /\ [][Next]_vars
-----------------------------------------------------------------------------
(* What must hold of a capture that stops at any moment. *)

Opens == {e \in ToSet(log) : e.kind \in {"push", "open"}}
Closes == ToSet(log) \ Opens

(* What really happened to a captured range, as far as the log tells. *)
True(o) ==
  LET ends == {e.ts : e \in {c \in Closes : c.name = o.name}}
  IN Span(o, IF ends = {} THEN None ELSE CHOOSE x \in ends : TRUE, o.parent)

(* The reconstruction is the truth: each captured open becomes one span,   *)
(* with the end, the domain and the enclosing range it really had,         *)
(* although threads are interleaved, arrive out of order and were entered  *)
(* half way (ranges.rs:6-14: a coarser key reconstructs wrong nesting).    *)
(* No slot is left empty, so that ids stay valid (model.rs:288-294).       *)
SpansAreTrue ==
  LET m == Build(log)
      Named(s) == IF s.parent = None THEN s ELSE [s EXCEPT !.parent = m.slots[@].name]
  IN /\ Len(m.slots) = Cardinality(Opens)
     /\ \A i \in 1..Len(m.slots) : m.slots[i] # None
     /\ {Named(s) : s \in ToSet(m.slots)} = {True(o) : o \in Opens}

(* The closes that found nothing are those of ranges opened before the     *)
(* hook was there, or of nothing; no key is met twice: "true says every    *)
(* close matched an open and no key was reused" (anomalies.rs).            *)
AnomaliesAreExact ==
  LET m == Build(log)
  IN /\ m.orphans = Cardinality({i \in 1..Len(log) :
                       log[i] \in Closes /\ log[i].name \notin {o.name : o \in Opens}})
     /\ m.reused = 0

(* The level an application reads is the nesting that is reconstructed,    *)
(* but for the ranges that were open before the hook: the two keep their   *)
(* stacks alike (ranges.rs:11-12).                                         *)
LevelsAreNesting ==
  \A t \in Threads, d \in Domains :
    /\ depth[t][d] = Len(stack[t][d])
    /\ dispatching[t] = None =>
         LET m    == FoldLeft(Replay, Empty, Ordered(log))
             mine == StackOf(m, [thread |-> t, domain |-> d])
         IN \A i \in 1..Len(mine) :
              mine[i].level = Len(mine) - i
                              + Cardinality({j \in 1..Len(stack[t][d]) :
                                               ~stack[t][d][j].captured})
=============================================================================
