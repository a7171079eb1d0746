-------------------------- MODULE CollectorClient --------------------------
(***************************************************************************)
(* The collector client of one entity's pipeline:                          *)
(* crates/collector/client/src/lib.rs, driven by the exporter of           *)
(* crates/io/collector/src/lib.rs.                                         *)
(*                                                                         *)
(* Two tasks stand between Client::send and the server.  The sender task   *)
(* takes events from a bounded channel, batches them by size and by a      *)
(* timer, and puts each batch as a request on a second bounded channel.    *)
(* The collector task owns the RPC, whose request stream is that second    *)
(* channel.  The server is modelled from what crates/collector/server does *)
(* with a stream: it reads and ingests requests until the stream ends, or  *)
(* ends it early.  When the connection is lost the two ends learn of it    *)
(* apart: the RPC is over for the client while the server still ingests.   *)
(***************************************************************************)
EXTENDS Integers, Sequences, SequencesExt

CONSTANTS MaxEvents,      \* bound: events the exporter pushes
          Unencodable,    \* those of them bitcode cannot serialize
          MaxRetries,     \* MAX_RETRIES
          EventCap,       \* capacity of the event channel
          GrpcCap,        \* capacity of the request channel
          Size,           \* bytes of each event once serialized
          MaxBuffer,      \* MAX_BUFFER_BYTES
          MessageLimit    \* the largest request the server decodes

ASSUME ClientAssumption ==
  /\ MaxEvents \in Nat
  /\ Unencodable \subseteq 1..MaxEvents
  /\ Size \in [1..MaxEvents -> Nat \ {0}]
  /\ {MaxRetries, EventCap, GrpcCap, MaxBuffer, MessageLimit} \subseteq Nat \ {0}

Events == 1..MaxEvents

VARIABLES exporter,    \* what the exporter is doing with the client
          tries,       \* attempts to connect so far
          pushed,      \* events handed to Client::send so far
          queue,       \* the event channel
          open,        \* does the event channel still take events
          accepted,    \* history: encodable events whose send returned Ok
          cancelled,   \* the cancellation token
          sender,      \* where the sender task is
          buffer,      \* its batch
          held,        \* the request whose grpc_sender.send it awaits
          requests,    \* the request channel, with what is on the wire
          receiving,   \* is the receiver of the request channel alive
          rpc,         \* the RPC as the collector task sees it
          serving,     \* does the server's handler still read the stream
          ingesting,   \* the rest of the request the server is ingesting
          delivered    \* history: every event the server ingested

exporterVars == <<exporter, tries, pushed>>
eventVars    == <<queue, open, accepted>>
senderVars   == <<sender, buffer, held>>
rpcVars      == <<receiving, rpc>>
serverVars   == <<serving, ingesting, delivered>>
vars == <<exporterVars, eventVars, cancelled, senderVars, requests, rpcVars,
          serverVars>>

(* "idle" and "pushing" are before the shutdown; "dropped" is a client     *)
(* dropped without one, "failed" a client that could not be built.         *)
ExporterPcs == {"connecting", "failed", "idle", "pushing", "joinSender",
                "joinCollector", "done", "dropped"}

(* "flush" and "lastFlush" await room in the request channel. *)
SenderPcs == {"none", "select", "flush", "drain", "lastFlush", "done"}

(* An RPC is "finished" when the server saw the end of the request stream, *)
(* "broken" when it ended for any other reason.                            *)
RpcStates == {"none", "open", "finished", "broken"}

TypeOK ==
  /\ exporter \in ExporterPcs
  /\ tries \in 0..MaxRetries
  /\ pushed \in 0..MaxEvents
  /\ queue \in Seq(Events) /\ Len(queue) <= EventCap
  /\ open \in BOOLEAN
  /\ accepted \in Seq(Events)
  /\ cancelled \in BOOLEAN
  /\ sender \in SenderPcs
  /\ buffer \in Seq(Events)
  /\ held \in Seq(Events)
  /\ requests \in Seq(Seq(Events)) /\ Len(requests) <= GrpcCap
  /\ receiving \in BOOLEAN
  /\ rpc \in RpcStates
  /\ serving \in BOOLEAN
  /\ ingesting \in Seq(Events)
  /\ delivered \in Seq(Events)

Init ==
  /\ exporter = "connecting" /\ tries = 0 /\ pushed = 0
  /\ queue = <<>> /\ open = TRUE /\ accepted = <<>>
  /\ cancelled = FALSE
  /\ sender = "none" /\ buffer = <<>> /\ held = <<>>
  /\ requests = <<>>
  /\ receiving = TRUE /\ rpc = "none"
  /\ serving = FALSE /\ ingesting = <<>> /\ delivered = <<>>
-----------------------------------------------------------------------------
(* The exporter's thread of control: the forwarder of EventPipeline.       *)

(* One attempt of Client::new.  With a connection, the sender task is      *)
(* spawned, then the names of source and entity type become metadata, then *)
(* the RPC begins; where a name is no metadata, new returns the error and  *)
(* the sender task stays behind, with nobody left to cancel it.            *)
Connect ==
  /\ exporter = "connecting"
  /\ tries' = tries + 1
  /\ \/ /\ exporter' = "idle" /\ sender' = "select"
        /\ rpc' = "open" /\ serving' = TRUE
        /\ UNCHANGED receiving
     \/ /\ exporter' = "failed" /\ sender' = "select" /\ receiving' = FALSE
        /\ UNCHANGED <<rpc, serving>>
     \/ /\ exporter' = IF tries' = MaxRetries THEN "failed" ELSE exporter
        /\ UNCHANGED <<sender, rpcVars, serving>>
  /\ UNCHANGED <<pushed, eventVars, cancelled, buffer, held, requests,
                 ingesting, delivered>>

(* push calls Client::send, which waits for room in the event channel. *)
StartPush ==
  /\ exporter = "idle"
  /\ pushed < MaxEvents
  /\ exporter' = "pushing"
  /\ pushed' = pushed + 1
  /\ UNCHANGED <<tries, eventVars, cancelled, senderVars, requests, rpcVars,
                 serverVars>>

(* The send ends: the channel has room, or its receiver is gone and the    *)
(* event comes back as an error, which drain_events logs and skips.        *)
EndPush ==
  /\ exporter = "pushing"
  /\ \/ /\ open
        /\ Len(queue) < EventCap
        /\ queue' = Append(queue, pushed)
        /\ accepted' = IF pushed \in Unencodable THEN accepted
                       ELSE Append(accepted, pushed)
     \/ ~open /\ UNCHANGED <<queue, accepted>>
  /\ exporter' = "idle"
  /\ UNCHANGED <<tries, pushed, open, cancelled, senderVars, requests, rpcVars,
                 serverVars>>

(* Client::shutdown cancels the token and joins the sender task ... *)
StartShutdown ==
  /\ exporter = "idle"
  /\ exporter' = "joinSender"
  /\ cancelled' = TRUE
  /\ UNCHANGED <<tries, pushed, eventVars, senderVars, requests, rpcVars,
                 serverVars>>

(* Mutant: the shutdown does not join the collector task. *)
JoinOnlySender ==
  /\ exporter = "joinSender"
  /\ sender = "done"
  /\ exporter' = "done"
  /\ UNCHANGED <<tries, pushed, eventVars, cancelled, senderVars, requests,
                 rpcVars, serverVars>>

JoinSender ==
  /\ exporter = "joinSender"
  /\ sender = "done"
  /\ exporter' = "joinCollector"
  /\ UNCHANGED <<tries, pushed, eventVars, cancelled, senderVars, requests,
                 rpcVars, serverVars>>

(* Mutant: only a result of the RPC lets the shutdown go on. *)
JoinFinishedCollector ==
  /\ exporter = "joinCollector"
  /\ rpc = "finished"
  /\ exporter' = "done"
  /\ UNCHANGED <<tries, pushed, eventVars, cancelled, senderVars, requests,
                 rpcVars, serverVars>>

(* ... then the collector task, whatever the RPC's result was. *)
JoinCollector ==
  /\ exporter = "joinCollector"
  /\ rpc \in {"finished", "broken"}
  /\ exporter' = "done"
  /\ UNCHANGED <<tries, pushed, eventVars, cancelled, senderVars, requests,
                 rpcVars, serverVars>>

(* Drop without a shutdown, as when the forwarder is aborted: the tasks    *)
(* are cancelled and detached.                                             *)
DropClient ==
  /\ exporter \in {"idle", "pushing"}
  /\ exporter' = "dropped"
  /\ cancelled' = TRUE
  /\ UNCHANGED <<tries, pushed, eventVars, senderVars, requests, rpcVars,
                 serverVars>>
-----------------------------------------------------------------------------
(* The sender task.                                                        *)

(* Mutant: the buffer is cloned, not taken. *)
FlushClones(batch, next) ==
  /\ held' = batch
  /\ buffer' = batch
  /\ sender' = next

NumBytes(batch) == SumFunction([i \in DOMAIN batch |-> Size[batch[i]]])

(* flush_buffer, up to its await: the buffer becomes the request in hand.  *)
Flush(batch, next) ==
  /\ held' = batch
  /\ buffer' = <<>>
  /\ sender' = next

(* Mutant: the task looks at the budget only on a timer tick. *)
AddWithoutBudget(e) ==
  /\ buffer' = Append(buffer, e)
  /\ UNCHANGED <<sender, held>>

(* A batch that reaches the budget is flushed. *)
AddToBatch(e) ==
  LET batch == Append(buffer, e)
  IN IF NumBytes(batch) >= MaxBuffer
       THEN Flush(batch, "flush")
       ELSE buffer' = batch /\ UNCHANGED <<sender, held>>

(* Mutant: an event that cannot be encoded ends the task. *)
RecvStopsAtUnencodable ==
  /\ sender = "select"
  /\ queue # <<>>
  /\ IF Head(queue) \in Unencodable
       THEN /\ sender' = "done" /\ open' = FALSE /\ queue' = <<>>
            /\ UNCHANGED <<buffer, held>>
       ELSE /\ queue' = Tail(queue) /\ AddToBatch(Head(queue))
            /\ UNCHANGED open
  /\ UNCHANGED <<exporterVars, accepted, cancelled, requests, rpcVars,
                 serverVars>>

(* The recv arm: an event joins the batch, or is logged and skipped when   *)
(* it cannot be encoded.                                                   *)
RecvEvent ==
  /\ sender = "select"
  /\ queue # <<>>
  /\ queue' = Tail(queue)
  /\ IF Head(queue) \in Unencodable
       THEN UNCHANGED senderVars
       ELSE AddToBatch(Head(queue))
  /\ UNCHANGED <<exporterVars, open, accepted, cancelled, requests, rpcVars,
                 serverVars>>

(* The ticker's arm; with an empty buffer the tick does nothing. *)
Tick ==
  /\ sender = "select"
  /\ buffer # <<>>
  /\ Flush(buffer, "flush")
  /\ UNCHANGED <<exporterVars, eventVars, cancelled, requests, rpcVars,
                 serverVars>>

(* The cancelled() arm closes the event channel; select! may take it while *)
(* events are waiting.                                                     *)
ObserveCancel ==
  /\ sender = "select"
  /\ cancelled
  /\ open' = FALSE
  /\ sender' = "drain"
  /\ UNCHANGED <<exporterVars, queue, accepted, cancelled, buffer, held,
                 requests, rpcVars, serverVars>>

(* The drain loop adds to the batch without regard to the budget. *)
DrainEvent ==
  /\ sender = "drain"
  /\ queue # <<>>
  /\ queue' = Tail(queue)
  /\ buffer' = IF Head(queue) \in Unencodable THEN buffer
               ELSE Append(buffer, Head(queue))
  /\ UNCHANGED <<exporterVars, open, accepted, cancelled, sender, held,
                 requests, rpcVars, serverVars>>

(* Mutant: the last batch is not flushed. *)
DrainEndsUnflushed ==
  /\ sender = "drain"
  /\ queue = <<>>
  /\ buffer' = <<>>
  /\ sender' = "done"
  /\ UNCHANGED <<exporterVars, eventVars, cancelled, held, requests, rpcVars,
                 serverVars>>

(* The loop ends and the last batch is flushed; with nothing to flush the  *)
(* task ends there, dropping its end of the request channel.               *)
DrainEnds ==
  /\ sender = "drain"
  /\ queue = <<>>
  /\ IF buffer = <<>>
       THEN sender' = "done" /\ UNCHANGED <<buffer, held>>
       ELSE Flush(buffer, "lastFlush")
  /\ UNCHANGED <<exporterVars, eventVars, cancelled, requests, rpcVars,
                 serverVars>>

AfterFlush == IF sender = "flush" THEN "select" ELSE "done"

(* grpc_sender.send succeeds: there is room in the request channel. *)
SendRequest ==
  /\ sender \in {"flush", "lastFlush"}
  /\ receiving
  /\ Len(requests) < GrpcCap
  /\ requests' = Append(requests, held)
  /\ held' = <<>>
  /\ sender' = AfterFlush
  /\ UNCHANGED <<exporterVars, eventVars, cancelled, buffer, rpcVars, serverVars>>

(* Mutant: the send is tried again and again. *)
SendRetries ==
  /\ sender \in {"flush", "lastFlush"}
  /\ ~receiving
  /\ UNCHANGED vars

(* It fails: the request stream was dropped with the RPC.  The task ends   *)
(* and its event channel goes with it.                                     *)
SendFails ==
  /\ sender \in {"flush", "lastFlush"}
  /\ ~receiving
  /\ held' = <<>>
  /\ sender' = "done"
  /\ open' = FALSE
  /\ queue' = <<>>
  /\ UNCHANGED <<exporterVars, accepted, cancelled, buffer, requests, rpcVars,
                 serverVars>>

SenderTask == \/ RecvEvent \/ Tick \/ ObserveCancel \/ DrainEvent
              \/ DrainEnds \/ SendRequest \/ SendFails
-----------------------------------------------------------------------------
(* The server's end of the stream, and the transport between.              *)

(* The server takes the next request and starts to ingest its events: a    *)
(* loop without an await, so nothing short of the end of its process stops *)
(* it half way.                                                            *)
ServerReads ==
  /\ serving
  /\ ingesting = <<>>
  /\ requests # <<>>
  /\ NumBytes(Head(requests)) <= MessageLimit
  /\ ingesting' = Head(requests)
  /\ requests' = Tail(requests)
  /\ UNCHANGED <<exporterVars, eventVars, cancelled, senderVars, rpcVars,
                 serving, delivered>>

ServerIngests ==
  /\ ingesting # <<>>
  /\ delivered' = Append(delivered, Head(ingesting))
  /\ ingesting' = Tail(ingesting)
  /\ UNCHANGED <<exporterVars, eventVars, cancelled, senderVars, requests,
                 rpcVars, serving>>

(* The handler is gone, for the client with the outcome of its RPC. *)
ServerEnds(outcome) ==
  /\ serving
  /\ serving' = FALSE
  /\ rpc' = outcome
  /\ ingesting' = <<>>
  /\ UNCHANGED <<exporterVars, eventVars, cancelled, senderVars, requests,
                 receiving, delivered>>

(* A request over the decoder's limit is a stream error: the server's loop *)
(* breaks, and the RPC returns.                                            *)
ServerRejects ==
  /\ ingesting = <<>>
  /\ requests # <<>>
  /\ NumBytes(Head(requests)) > MessageLimit
  /\ ServerEnds("broken")

(* The server cannot build its context, notices that the client is gone    *)
(* and drops the handler, or dies, with what it was ingesting.             *)
ServerGivesUp == ServerEnds("broken")

(* The sender task is gone and the stream was read to its end. *)
ServerFinishes == /\ rpc = "open"
                  /\ sender = "done"
                  /\ requests = <<>>
                  /\ ingesting = <<>>
                  /\ ServerEnds("finished")

(* The connection goes away.  The RPC of the client fails; the server goes *)
(* on with the request in hand and with those that have reached it.        *)
ConnectionLost ==
  /\ rpc = "open"
  /\ rpc' = "broken"
  /\ UNCHANGED <<exporterVars, eventVars, cancelled, senderVars, requests,
                 receiving, serverVars>>

(* Some time after the RPC ended the transport drops the request stream,   *)
(* and the requests still in it; those on the wire are ahead of them.      *)
StreamDropped ==
  /\ rpc \in {"finished", "broken"}
  /\ receiving
  /\ receiving' = FALSE
  /\ \E onWire \in 0..Len(requests) : requests' = SubSeq(requests, 1, onWire)
  /\ UNCHANGED <<exporterVars, eventVars, cancelled, senderVars, rpc,
                 serverVars>>

Server == ServerReads \/ ServerIngests \/ ServerRejects \/ ServerFinishes

ExporterTask == EndPush \/ JoinSender \/ JoinCollector

Next == \/ Connect
        \/ StartPush \/ StartShutdown \/ DropClient
        \/ ExporterTask
        \/ SenderTask
        \/ Server \/ ServerGivesUp \/ ConnectionLost \/ StreamDropped

(* The runtime polls the tasks, and the server reads the stream while it   *)
(* keeps it open.  Nothing obliges the application to push or to shut down.*)
Fairness == /\ WF_vars(ExporterTask)
            /\ WF_vars(SenderTask)
            /\ WF_vars(Server)
            /\ WF_vars(StreamDropped)

Spec == Init /\ [][Next]_vars /\ Fairness
-----------------------------------------------------------------------------
(* What must hold. *)

IfEncodable(e) == IF e \in Unencodable THEN <<>> ELSE <<e>>

Encodable(s) == FlattenSeq([i \in 1..Len(s) |-> IfEncodable(s[i])])

(* Is the way from the channel to the server whole?  It is until the       *)
(* server stops reading, or the transport drops the stream, of an RPC that *)
(* did not come to its end. *)
Whole == rpc = "broken" => serving /\ receiving

(* As long as the way is whole, every encodable event that send accepted   *)
(* is at exactly one place on it, in order: batching by size and by timer, *)
(* the cancellation, the final drain and the loss of the connection lose,  *)
(* duplicate and reorder nothing by themselves (lib.rs:143-197).  And      *)
(* whatever broke, also between two events of a request, what the server   *)
(* has is where the accepted events begin, without a gap.                  *)
InTransit ==
  /\ Whole => accepted = delivered \o ingesting \o FlattenSeq(requests) \o held
                                   \o buffer \o Encodable(queue)
  /\ IsPrefix(delivered \o ingesting, accepted)

(* "Drain and deliver all buffered events, then wait for both background   *)
(* tasks to finish" (lib.rs:250-251): a shutdown whose stream no one broke *)
(* returns with every accepted event ingested by the server.               *)
ShutdownDelivers ==
  (exporter = "done" /\ rpc # "broken") => delivered = accepted

(* send refuses an event only after the server has ended the stream: the   *)
(* client closes its channel by itself only once it is shut down or        *)
(* dropped (lib.rs:165-191, 242-248).                                      *)
RefusedOnlyIfBroken ==
  (exporter \in {"idle", "pushing"} /\ ~open) => rpc = "broken"

(* Within the budget but for the last k events. *)
Within(batch, k) == \E n \in 0..Len(batch) :
  Len(batch) - n <= k /\ NumBytes(SubSeq(batch, 1, n)) < MaxBuffer

(* The byte budget (lib.rs:125, 156) is exceeded by no more than one event *)
(* where the size makes the task flush, and by no more than the event      *)
(* channel's capacity of them where the drain ignores the budget: channel, *)
(* batch and flush together bound every request, though the bytes of the   *)
(* drained events are not counted at all (lib.rs:174-180).                 *)
BudgetHolds ==
  /\ sender = "flush" => Within(held, 1)
  /\ \A batch \in {buffer, held} \cup ToSet(requests) : Within(batch, EventCap)

(* Every request stays below what the server decodes: the budget leaves a  *)
(* reserve under that limit ("Max bytes in the buffer. gRPC max default is *)
(* 4 MiB, reserve 256 KiB for overhead", lib.rs:123-125).                  *)
RequestsFit ==
  /\ NumBytes(held) <= MessageLimit
  /\ \A i \in 1..Len(requests) : NumBytes(requests[i]) <= MessageLimit

(* A push that waits for room in the event channel comes back, with both   *)
(* channels full and even when the server drops the stream meanwhile.      *)
PushReturns == (exporter = "pushing") ~> (exporter # "pushing")

(* A shutdown comes back, wherever the sender task was when it began. *)
ShutdownReturns == (exporter = "joinSender") ~> (exporter = "done")

(* The client is an EventDelivery from push to the server's ingest.  A     *)
(* stream that broke is a pipeline that failed once the server has stopped *)
(* reading it, and one that is lost as long as it has not.                 *)
Delivery == INSTANCE EventDelivery
              WITH Event    <- Events \ Unencodable,
                   phase    <- IF open THEN "open"
                               ELSE IF rpc = "broken"
                             THEN IF serving THEN "lost" ELSE "failed"
                               ELSE IF rpc = "finished" THEN "flushed"
                               ELSE "closed",
                   returned <- exporter = "done"

DeliverySpec == Delivery!Spec
=============================================================================
