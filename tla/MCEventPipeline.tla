--------------------------- MODULE MCEventPipeline --------------------------
(* EventPipeline on a small instance: the root observer, a clone of it and  *)
(* one detached sender, two sends each, a batch of at most two events.      *)
EXTENDS EventPipeline, TLC

CONSTANTS root, clone, sender

MCObservers == {root, clone}
MCSenders   == {sender}
=============================================================================
