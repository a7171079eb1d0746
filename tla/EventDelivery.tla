--------------------------- MODULE EventDelivery ---------------------------
(***************************************************************************)
(* What one entity's event pipeline promises to the application that       *)
(* instruments it, with no channel, buffer or task in sight                *)
(* (crates/instrumentation/src/observer.rs): events are delivered to the   *)
(* exporter in the order in which they were accepted, each one once; after *)
(* the pipeline closes nothing is accepted; and the drop that tears the    *)
(* pipeline down returns only when everything accepted was delivered,      *)
(* unless the way to the exporter broke.  It may break behind the pipeline *)
(* ("lost"): then what is already under way can still arrive, in order,    *)
(* or not at all.                                                          *)
(***************************************************************************)
EXTENDS Naturals, Sequences

CONSTANT Event                    \* every event an application may emit

VARIABLES accepted,               \* the events taken so far, in order
          delivered,              \* the events handed to the exporter, in order
          phase,                  \* what has become of the pipeline
          returned                \* has the teardown returned to its caller

vars == <<accepted, delivered, phase, returned>>

Phases == {"open", "closed", "flushed", "lost", "failed"}

Init == /\ accepted = <<>>
        /\ delivered = <<>>
        /\ phase = "open"
        /\ returned = FALSE

Accept(e) == /\ phase = "open"
             /\ accepted' = Append(accepted, e)
             /\ UNCHANGED <<delivered, phase, returned>>

(* The next event not yet delivered, and no other, is handed over. *)
Deliver == /\ phase \in {"open", "closed", "lost"}
           /\ Len(delivered) < Len(accepted)
           /\ delivered' = Append(delivered, accepted[Len(delivered) + 1])
           /\ UNCHANGED <<accepted, phase, returned>>

Close == /\ phase = "open"
         /\ phase' = "closed"
         /\ UNCHANGED <<accepted, delivered, returned>>

Flush == /\ phase = "closed"
         /\ delivered = accepted
         /\ phase' = "flushed"
         /\ UNCHANGED <<accepted, delivered, returned>>

Fail == /\ phase \in {"open", "closed", "lost"}
        /\ phase' \in {"lost", "failed"}
        /\ UNCHANGED <<accepted, delivered, returned>>

Return == /\ phase \in {"flushed", "lost", "failed"}
          /\ returned' = TRUE
          /\ UNCHANGED <<accepted, delivered, phase>>

Next == \/ \E e \in Event : Accept(e)
        \/ Deliver
        \/ Close
        \/ Flush
        \/ Fail
        \/ Return

Spec == Init /\ [][Next]_vars
=============================================================================
