--------------------------- MODULE NvtxServerProofs --------------------------
(***************************************************************************)
(* Theorems about NvtxServer for every number of clients, contexts and     *)
(* permits.  The argument: a client is in line for a permit, or has a task *)
(* on the pool, exactly where its request waits for one (LineInv); the one *)
(* that loads a context is waiting, and those that joined it have it       *)
(* (LoaderInv); and what a client has seen of a context is no more than    *)
(* any model or load of it holds since (GrowInv), which is what makes a    *)
(* selection of an earlier catalog good for a later model (ShownInv).      *)
(***************************************************************************)
EXTENDS NvtxServer, SequenceLemmas, FiniteSetTheorems

States == {"idle", "get", "joined", "loading", "ready", "answering", "gone"}

Request == [pc : States, ctx : Contexts \cup {None}, got : Sizes \cup {None, Failed},
            known : Sizes \cup {None}, shown : Sizes \cup {None}, left : Nat]

TypeInv ==
  /\ file \in [Contexts -> Sizes \cup {None}]
  /\ models \in [Contexts -> Sizes \cup {None}]
  /\ loader \in [Contexts -> Clients \cup {None}]
  /\ queue \in Seq(Clients)
  /\ running \in SUBSET Clients
  /\ req \in [Clients -> Request]
  /\ \A c \in Clients : req[c].pc # "idle" \/ req[c].known # None => req[c].ctx \in Contexts

(* A permit is free or is a task's. *)
PermitInv ==
  /\ IsFiniteSet(running)
  /\ permits \in 0..Permits
  /\ permits + Cardinality(running) = Permits

Waits(c) == req[c].pc \in {"loading", "answering"}

LineInv ==
  /\ IsInjective(queue)
  /\ ToSet(queue) \cap running = {}
  /\ \A c \in ToSet(queue) : Waits(c)
  /\ \A c \in running : Waits(c) \/ req[c].pc = "gone"
  /\ \A c \in Clients : Waits(c) => c \in ToSet(queue) \cup running

LoaderInv ==
  /\ \A x \in Contexts : loader[x] # None =>
       req[loader[x]].pc = "loading" /\ req[loader[x]].ctx = x /\ models[x] = None
  /\ \A c \in Clients :
       /\ req[c].pc = "loading" => loader[req[c].ctx] = c
       /\ req[c].pc = "joined" => loader[req[c].ctx] # None
       /\ req[c].pc \in {"get", "joined"} => req[c].got = None
       /\ req[c].pc \in {"ready", "answering"} => req[c].got \in Sizes

(* Nothing was read that is not in the file. *)
FileInv ==
  /\ \A x \in Contexts : models[x] # None => file[x] # None /\ models[x] <= file[x]
  /\ \A c \in Clients : req[c].pc = "loading" /\ req[c].got \in Sizes =>
       file[req[c].ctx] # None /\ req[c].got <= file[req[c].ctx]

(* What a client has seen: the model of its catalog, and of its request.   *)
Seen(c, v) == \/ v = req[c].known
              \/ v = req[c].got /\ req[c].pc \in {"ready", "answering"}

GrowInv ==
  \A c \in Clients, v \in Sizes : Seen(c, v) =>
    /\ file[req[c].ctx] # None /\ v <= file[req[c].ctx]
    /\ models[req[c].ctx] # None => v <= models[req[c].ctx]
    /\ \A l \in Clients : /\ req[l].pc = "loading" /\ req[l].ctx = req[c].ctx
                          /\ req[l].got \in Sizes
                          => v <= req[l].got

ShownInv ==
  \A c \in Clients :
    /\ req[c].shown # None => req[c].known # None /\ req[c].known <= req[c].shown
    /\ req[c].known # None /\ req[c].pc \in {"ready", "answering"} => req[c].known <= req[c].got

IInv == TypeInv /\ PermitInv /\ LineInv /\ LoaderInv /\ FileInv /\ GrowInv /\ ShownInv
-----------------------------------------------------------------------------
\* The invariant holds at first.
LEMMA InitIInv == Init => IInv
<1> SUFFICES ASSUME Init PROVE IInv
  OBVIOUS
<1>1. \A c \in Clients : /\ req[c].pc = "idle" /\ req[c].known = None /\ req[c].shown = None
  BY DEF Init, NoRequest
<1>2. TypeInv
  <2>1. NoRequest \in Request
    BY PermitsAssumption DEF NoRequest, Request, States
  <2> QED
    BY <1>1, <2>1 DEF Init, TypeInv
<1>3. PermitInv
  BY FS_EmptySet, PermitsAssumption DEF Init, PermitInv
<1>4. LineInv
  BY <1>1 DEF Init, LineInv, Waits, ToSet, IsInjective
<1>5. LoaderInv
  BY <1>1 DEF Init, LoaderInv
<1>6. FileInv
  BY <1>1 DEF Init, FileInv
<1>7. GrowInv
  BY <1>1, ValuesAssumption DEF GrowInv, Seen
<1>8. ShownInv
  BY <1>1 DEF ShownInv
<1> QED
  BY <1>2, <1>3, <1>4, <1>5, <1>6, <1>7, <1>8 DEF IInv
-----------------------------------------------------------------------------
(* What each action makes of the requests, field by field.                 *)

Same(b) == req'[b] = req[b]

(* Only the request of c changes, and of it only what is not UNCHANGED.    *)
OnlyOf(c) == \A b \in Clients \ {c} : Same(b)

\* A function updated at one argument.
LEMMA Update ==
  ASSUME TypeInv, NEW c \in Clients, NEW r \in Request, req' = [req EXCEPT ![c] = r]
  PROVE  req' \in [Clients -> Request] /\ OnlyOf(c) /\ req'[c] = r
BY DEF TypeInv, OnlyOf, Same

(* A request that goes on. *)
LEMMA Going ==
  ASSUME NEW r \in Request, NEW pc \in States, NEW got \in Sizes \cup {None, Failed}
  PROVE  /\ [r EXCEPT !.pc = pc] \in Request /\ [r EXCEPT !.got = got] \in Request
         /\ [r EXCEPT !.pc = pc, !.got = got] \in Request
BY DEF Request

\* What asking does to the requests.
LEMMA AskReq ==
  ASSUME TypeInv, NEW c \in Clients, Ask(c)
  PROVE  /\ req' \in [Clients -> Request] /\ OnlyOf(c)
         /\ req[c].pc = "idle" /\ req'[c].pc = "get" /\ req'[c].got = None
         /\ req'[c].ctx \in Contexts /\ (req[c].known # None => req'[c].ctx = req[c].ctx)
         /\ req'[c].known = req[c].known /\ req'[c].shown = req[c].shown
BY DEF TypeInv, Ask, Request, States, OnlyOf, Same

\* What a lookup of the cache does to the requests.
LEMMA GetReq ==
  ASSUME TypeInv, NEW c \in Clients, Get(c)
  PROVE  /\ req' \in [Clients -> Request] /\ OnlyOf(c)
         /\ req[c].pc = "get" /\ req'[c].ctx = req[c].ctx /\ req[c].ctx \in Contexts
         /\ req'[c].known = req[c].known /\ req'[c].shown = req[c].shown
         /\ \/ /\ models[req[c].ctx] # None
               /\ req'[c].pc = "ready" /\ req'[c].got = models[req[c].ctx]
               /\ UNCHANGED <<loader, queue>>
            \/ /\ models[req[c].ctx] = None /\ loader[req[c].ctx] # None
               /\ req'[c].pc = "joined" /\ req'[c].got = req[c].got
               /\ UNCHANGED <<loader, queue>>
            \/ /\ models[req[c].ctx] = None /\ loader[req[c].ctx] = None
               /\ req'[c].pc = "loading" /\ req'[c].got = req[c].got
               /\ loader' = [loader EXCEPT ![req[c].ctx] = c]
               /\ queue' = Append(queue, c)
<1>1. /\ req[c].ctx \in Contexts /\ models[req[c].ctx] \in Sizes \cup {None}
      /\ req \in [Clients -> Request] /\ req[c].pc = "get" /\ req[c] \in Request
  BY DEF TypeInv, Get
<1> DEFINE x == req[c].ctx
           hit == [req[c] EXCEPT !.pc = "ready", !.got = models[x]]
           To(pc) == [req[c] EXCEPT !.pc = pc]
<1>2. CASE models[x] # None
  <2>1. req' = [req EXCEPT ![c].pc = "ready", ![c].got = models[x]] /\ UNCHANGED <<loader, queue>>
    BY <1>2 DEF Get
  <2>2. req' = [req EXCEPT ![c] = hit]
    BY <1>1, <2>1
  <2>3. hit \in Request /\ hit.pc = "ready" /\ hit.got = models[x] /\ hit.ctx = req[c].ctx
        /\ hit.known = req[c].known /\ hit.shown = req[c].shown
    BY <1>1 DEF Request, States
  <2> HIDE DEF hit
  <2> QED
    BY <1>1, <1>2, <2>1, <2>2, <2>3, Update
<1>3. ASSUME NEW pc \in States, req' = [req EXCEPT ![c].pc = pc]
      PROVE  /\ req' \in [Clients -> Request] /\ OnlyOf(c)
             /\ req'[c].ctx = req[c].ctx /\ req'[c].got = req[c].got /\ req'[c].pc = pc
             /\ req'[c].known = req[c].known /\ req'[c].shown = req[c].shown
  <2>1. req' = [req EXCEPT ![c] = To(pc)]
    BY <1>1, <1>3
  <2>2. To(pc) \in Request /\ To(pc).pc = pc /\ To(pc).got = req[c].got /\ To(pc).ctx = req[c].ctx
        /\ To(pc).known = req[c].known /\ To(pc).shown = req[c].shown
    BY <1>1 DEF Request
  <2> HIDE DEF To
  <2> QED
    BY <1>1, <2>1, <2>2, Update
<1>4. CASE models[x] = None /\ loader[x] # None
  <2>1. req' = [req EXCEPT ![c].pc = "joined"] /\ UNCHANGED <<loader, queue>>
    BY <1>4 DEF Get
  <2> QED
    BY <1>1, <1>3, <1>4, <2>1 DEF States
<1>5. CASE models[x] = None /\ loader[x] = None
  <2>1. /\ req' = [req EXCEPT ![c].pc = "loading"]
        /\ loader' = [loader EXCEPT ![x] = c] /\ queue' = Append(queue, c)
    BY <1>5 DEF Get
  <2> QED
    BY <1>1, <1>3, <1>5, <2>1 DEF States
<1> QED
  BY <1>2, <1>4, <1>5

\* What the import of the files does to the requests.
LEMMA ImportReq ==
  ASSUME TypeInv, NEW c \in Clients, Import(c)
  PROVE  /\ req' \in [Clients -> Request] /\ OnlyOf(c)
         /\ req[c].pc = "loading" /\ req'[c].pc = "loading" /\ req'[c].ctx = req[c].ctx
         /\ req'[c].known = req[c].known /\ req'[c].shown = req[c].shown
         /\ req[c].ctx \in Contexts
         /\ \/ req'[c].got = Failed
            \/ file[req[c].ctx] # None /\ req'[c].got = file[req[c].ctx]
<1>1. /\ req[c].ctx \in Contexts /\ file[req[c].ctx] \in Sizes \cup {None}
      /\ req \in [Clients -> Request] /\ req[c] \in Request /\ req[c].pc = "loading"
  BY DEF TypeInv, Import
<1>2. PICK n \in {file[req[c].ctx], Failed} :
        req' = [req EXCEPT ![c].got = IF n = None THEN Failed ELSE n]
  BY DEF Import
<1> DEFINE got == IF n = None THEN Failed ELSE n
           r == [req[c] EXCEPT !.got = got]
<1>3. req' = [req EXCEPT ![c] = r]
  BY <1>1, <1>2
<1>4. got \in Sizes \cup {None, Failed} /\ (got = Failed \/ (got = file[req[c].ctx] /\ got # None))
  <2>1. CASE n = None
    <3>1. got = Failed
      BY <2>1
    <3> HIDE DEF got
    <3> QED
      BY <3>1
  <2>2. CASE n # None
    BY <1>1, <1>2, <2>2
  <2> QED
    BY <2>1, <2>2
<1>5. /\ r \in Request /\ r.pc = "loading" /\ r.got = got /\ r.ctx = req[c].ctx
      /\ r.known = req[c].known /\ r.shown = req[c].shown
  <2> HIDE DEF got
  <2> QED
    BY <1>1, <1>4 DEF Request
<1> HIDE DEF r, got
<1> QED
  BY <1>1, <1>3, <1>4, <1>5, Update

(* Those whose request goes on, or ends, when c's load does.               *)
Joined(c) == {c} \cup {b \in Clients : req[b].pc = "joined" /\ req[b].ctx = req[c].ctx}

\* What the end of a load does to the requests.
LEMMA LoadEndsReq ==
  ASSUME TypeInv, NEW c \in Clients, LoadEnds(c)
  PROVE  /\ req' \in [Clients -> Request]
         /\ req[c].pc = "loading" /\ req[c].ctx \in Contexts
         /\ \A b \in Clients \ Joined(c) : Same(b)
         /\ \A b \in Clients : /\ req'[b].ctx = req[b].ctx /\ req'[b].known = req[b].known
                               /\ req'[b].shown = req[b].shown
         /\ \/ /\ \A b \in Joined(c) : req'[b].pc = "idle"
               /\ models' = models
            \/ /\ \A b \in Joined(c) : req'[b].pc = "ready" /\ req'[b].got = req[c].got
               /\ req[c].got \in Sizes
               /\ models' = [models EXCEPT ![req[c].ctx] = req[c].got]
<1>1. /\ req[c].ctx \in Contexts /\ req[c].pc = "loading" /\ req[c].got # None
      /\ req[c].got \in Sizes \cup {None, Failed}
  BY DEF TypeInv, LoadEnds, Request
<1>2. CASE req[c].got = Failed
  <2>1. /\ req' = [b \in Clients |-> IF b \in Joined(c) THEN [req[b] EXCEPT !.pc = "idle"]
                                                        ELSE req[b]]
        /\ models' = models
    BY <1>2 DEF LoadEnds, Joined
  <2> QED
    BY <1>1, <2>1, ZenonT(90) DEF TypeInv, Request, States, Same, Joined
<1>3. CASE req[c].got # Failed
  <2>1. /\ req' = [b \in Clients |->
                     IF b \in Joined(c) THEN [req[b] EXCEPT !.pc = "ready", !.got = req[c].got]
                                        ELSE req[b]]
        /\ models' = [models EXCEPT ![req[c].ctx] = req[c].got]
    BY <1>3 DEF LoadEnds, Joined
  <2> DEFINE To(b) == [req[b] EXCEPT !.pc = "ready", !.got = req[c].got]
  <2>2. req[c].got \in Sizes
    BY <1>1, <1>3
  <2>3. \A b \in Clients : req[b] \in Request
    BY DEF TypeInv
  <2>4. ASSUME NEW b \in Clients
        PROVE  /\ To(b) \in Request /\ To(b).pc = "ready" /\ To(b).got = req[c].got
               /\ To(b).ctx = req[b].ctx /\ To(b).known = req[b].known
               /\ To(b).shown = req[b].shown
    BY <2>2, <2>3 DEF Request, States
  <2>5. req' = [b \in Clients |-> IF b \in Joined(c) THEN To(b) ELSE req[b]]
    BY <2>1
  <2>6. \A b \in Joined(c) : b \in Clients
    BY DEF Joined
  <2> HIDE DEF To
  <2>7. req' \in [Clients -> Request]
    BY <2>3, <2>4, <2>5
  <2>8. /\ \A b \in Clients \ Joined(c) : req'[b] = req[b]
        /\ \A b \in Joined(c) : req'[b] = To(b)
    BY <2>5, <2>6
  <2>9. ASSUME NEW b \in Clients
        PROVE  /\ req'[b].ctx = req[b].ctx /\ req'[b].known = req[b].known
               /\ req'[b].shown = req[b].shown
    <3>1. CASE b \in Joined(c)
      BY <2>4, <2>8, <3>1
    <3>2. CASE b \notin Joined(c)
      BY <2>8, <3>2
    <3> QED
      BY <3>1, <3>2
  <2>10. \A b \in Joined(c) : req'[b].pc = "ready" /\ req'[b].got = req[c].got
    BY <2>4, <2>6, <2>8
  <2> QED
    BY <1>1, <2>1, <2>2, <2>7, <2>8, <2>9, <2>10 DEF Same
<1> QED
  BY <1>2, <1>3

\* What standing in line does to the requests.
LEMMA QueueReq ==
  ASSUME TypeInv, NEW c \in Clients, Queue(c)
  PROVE  /\ req' \in [Clients -> Request] /\ OnlyOf(c)
         /\ req[c].pc = "ready" /\ req'[c].pc = "answering"
         /\ req'[c].ctx = req[c].ctx /\ req'[c].got = req[c].got
         /\ req'[c].known = req[c].known /\ req'[c].shown = req[c].shown
BY ZenonT(60) DEF TypeInv, Queue, Request, States, OnlyOf, Same

\* What an answer does to the requests.
LEMMA AnswerReq ==
  ASSUME TypeInv, LoaderInv, NEW c \in Clients, Answer(c)
  PROVE  /\ req' \in [Clients -> Request] /\ OnlyOf(c)
         /\ req[c].pc = "answering" /\ req'[c].pc = "idle"
         /\ req'[c].ctx = req[c].ctx /\ req[c].ctx \in Contexts /\ req'[c].got = req[c].got
         /\ \/ req[c].known = None /\ req'[c].known = req[c].got /\ req'[c].shown = req[c].shown
            \/ req[c].known # None /\ req'[c].known = req[c].known /\ req'[c].shown = req[c].got
<1>1. /\ req[c].got \in Sizes /\ req[c].pc = "answering" /\ req[c].ctx \in Contexts
      /\ req \in [Clients -> Request] /\ req[c] \in Request
  BY DEF TypeInv, LoaderInv, Answer
<1> DEFINE known == IF req[c].known = None THEN req[c].got ELSE req[c].known
           shown == IF req[c].known = None THEN req[c].shown ELSE req[c].got
           r == [req[c] EXCEPT !.pc = "idle", !.known = known, !.shown = shown]
<1>2. req' = [req EXCEPT ![c].pc = "idle",
                         ![c].known = IF @ = None THEN req[c].got ELSE @,
                         ![c].shown = IF req[c].known = None THEN @ ELSE req[c].got]
  BY DEF Answer
<1>3. req' = [req EXCEPT ![c] = r]
  BY <1>1, <1>2
<1>4. known \in Sizes \cup {None} /\ shown \in Sizes \cup {None}
  BY <1>1 DEF Request
<1>5. /\ r \in Request /\ r.pc = "idle" /\ r.known = known /\ r.shown = shown
      /\ r.ctx = req[c].ctx /\ r.got = req[c].got
  <2> HIDE DEF known, shown
  <2> QED
    BY <1>1, <1>4 DEF Request, States
<1>6. req' \in [Clients -> Request] /\ OnlyOf(c) /\ req'[c] = r
  <2> HIDE DEF r
  <2> QED
    BY <1>3, <1>5, Update
<1> HIDE DEF r
<1> QED
  BY <1>1, <1>5, <1>6

\* What going away does to the requests.
LEMMA CancelReq ==
  ASSUME TypeInv, NEW c \in Clients, Cancel(c)
  PROVE  /\ req' \in [Clients -> Request]
         /\ req[c].pc # "idle" /\ req'[c].pc = "gone"
         /\ \A b \in Clients : /\ req'[b].ctx = req[b].ctx /\ req'[b].known = req[b].known
                               /\ req'[b].shown = req[b].shown /\ req'[b].got = req[b].got
         /\ \A b \in Clients \ {c} :
              \/ /\ req[b].pc = "joined" /\ loader[req[b].ctx] = c /\ req'[b].pc = "get"
              \/ /\ ~(req[b].pc = "joined" /\ loader[req[b].ctx] = c) /\ Same(b)
<1> DEFINE To(b, pc) == [req[b] EXCEPT !.pc = pc]
           Loses(b) == req[b].pc = "joined" /\ loader[req[b].ctx] = c
<1>1. \A b \in Clients : req[b] \in Request
  BY DEF TypeInv
<1>2. req' = [b \in Clients |-> IF b = c THEN To(b, "gone")
                               ELSE IF Loses(b) THEN To(b, "get") ELSE req[b]]
  BY DEF Cancel, LosesLoader
<1>3. ASSUME NEW b \in Clients, NEW pc \in {"gone", "get"}
      PROVE  /\ To(b, pc) \in Request /\ To(b, pc).pc = pc /\ To(b, pc).got = req[b].got
             /\ To(b, pc).ctx = req[b].ctx /\ To(b, pc).known = req[b].known
             /\ To(b, pc).shown = req[b].shown
  BY <1>1 DEF Request, States
<1>4. req[c].pc # "idle"
  BY DEF Cancel
<1> HIDE DEF To, Loses
<1>5. req' \in [Clients -> Request]
  BY <1>1, <1>2, <1>3
<1>6. /\ req'[c] = To(c, "gone")
      /\ \A b \in Clients \ {c} :
           /\ Loses(b) => req'[b] = To(b, "get")
           /\ ~Loses(b) => req'[b] = req[b]
  BY <1>2
<1>7. ASSUME NEW b \in Clients
      PROVE  /\ req'[b].ctx = req[b].ctx /\ req'[b].known = req[b].known
             /\ req'[b].shown = req[b].shown /\ req'[b].got = req[b].got
  <2>1. CASE b = c
    BY <1>3, <1>6, <2>1
  <2>2. CASE b # c /\ Loses(b)
    <3>1. req'[b] = To(b, "get")
      BY <1>6, <2>2
    <3> QED
      BY <1>3, <3>1
  <2>3. CASE b # c /\ ~Loses(b)
    BY <1>6, <2>3
  <2> QED
    BY <2>1, <2>2, <2>3
<1>8. ASSUME NEW b \in Clients \ {c}
      PROVE  \/ Loses(b) /\ req'[b].pc = "get"
             \/ ~Loses(b) /\ Same(b)
  <2>1. Loses(b) => req'[b] = To(b, "get") /\ To(b, "get").pc = "get"
    BY <1>3, <1>6
  <2>2. ~Loses(b) => req'[b] = req[b]
    BY <1>6
  <2> QED
    BY <2>1, <2>2 DEF Same
<1>9. req'[c].pc = "gone"
  BY <1>3, <1>6
<1> QED
  BY <1>4, <1>5, <1>7, <1>8, <1>9 DEF Loses
-----------------------------------------------------------------------------
\* Every step keeps TypeInv.
LEMMA TypeStep == IInv /\ [Next]_vars => TypeInv'
<1> SUFFICES ASSUME IInv, [Next]_vars PROVE TypeInv'
  OBVIOUS
<1>0. TypeInv /\ LoaderInv /\ IsInjective(queue)
  BY DEF IInv, LineInv
<1>1. CASE Grant
  <2>1. queue' \in Seq(Clients) /\ running' \in SUBSET Clients
    BY <1>0, <1>1, ServeLine DEF Grant, TypeInv
  <2> QED
    BY <1>0, <1>1, <2>1 DEF Grant, TypeInv
<1>2. ASSUME NEW c \in Clients, Ask(c) PROVE TypeInv'
  <2>1. UNCHANGED <<file, models, loader, queue, running>>
    BY <1>2 DEF Ask
  <2> QED
    BY <1>0, <1>2, <2>1, AskReq DEF TypeInv, OnlyOf, Same
<1>3. ASSUME NEW c \in Clients, Get(c) PROVE TypeInv'
  <2>1. UNCHANGED <<file, models, running>>
    BY <1>3 DEF Get
  <2>2. loader' \in [Contexts -> Clients \cup {None}] /\ queue' \in Seq(Clients)
    <3>1. \/ UNCHANGED <<loader, queue>>
          \/ /\ loader' = [loader EXCEPT ![req[c].ctx] = c]
             /\ queue' = Append(queue, c)
      BY <1>3 DEF Get
    <3>2. CASE UNCHANGED <<loader, queue>>
      BY <1>0, <3>2 DEF TypeInv
    <3>3. CASE /\ loader' = [loader EXCEPT ![req[c].ctx] = c]
               /\ queue' = Append(queue, c)
      <4>1. queue' \in Seq(Clients)
        BY <1>0, <3>3 DEF TypeInv
      <4>2. loader' \in [Contexts -> Clients \cup {None}]
        BY <1>0, <3>3 DEF TypeInv
      <4> QED
        BY <4>1, <4>2
    <3> QED
      BY <3>1, <3>2, <3>3
  <2> QED
    BY <1>0, <1>3, <2>1, <2>2, GetReq DEF TypeInv, OnlyOf, Same
<1>4. ASSUME NEW c \in Clients, Import(c) PROVE TypeInv'
  <2>1. UNCHANGED <<file, models, loader, queue, running>>
    BY <1>4 DEF Import
  <2> QED
    BY <1>0, <1>4, <2>1, ImportReq DEF TypeInv, OnlyOf, Same
<1>5. ASSUME NEW c \in Clients, LoadEnds(c) PROVE TypeInv'
  <2>1. /\ UNCHANGED <<file, queue>> /\ running' = running \ {c}
        /\ loader' = [loader EXCEPT ![req[c].ctx] = None]
    BY <1>5 DEF LoadEnds, Release
  <2>2. models' \in [Contexts -> Sizes \cup {None}]
    BY <1>0, <1>5, LoadEndsReq DEF TypeInv
  <2>3. \A b \in Clients : req'[b].pc # "idle" \/ req'[b].known # None => req'[b].ctx \in Contexts
    <3> SUFFICES ASSUME NEW b \in Clients, req'[b].pc # "idle" \/ req'[b].known # None
                 PROVE  req[b].ctx \in Contexts
      BY <1>0, <1>5, LoadEndsReq
    <3>1. CASE b \in Joined(c)
      BY <1>0, <1>5, <3>1, LoadEndsReq DEF Joined
    <3>2. CASE b \notin Joined(c)
      BY <1>0, <1>5, <3>2, LoadEndsReq DEF Same, TypeInv
    <3> QED
      BY <3>1, <3>2
  <2> QED
    BY <1>0, <1>5, <2>1, <2>2, <2>3, LoadEndsReq DEF TypeInv
<1>6. ASSUME NEW c \in Clients, Queue(c) PROVE TypeInv'
  <2>1. UNCHANGED <<file, models, loader, running>> /\ queue' = Append(queue, c)
    BY <1>6 DEF Queue
  <2> QED
    BY <1>0, <1>6, <2>1, QueueReq DEF TypeInv, OnlyOf, Same
<1>7. ASSUME NEW c \in Clients, Answer(c) PROVE TypeInv'
  <2>1. UNCHANGED <<file, models, loader, queue>> /\ running' = running \ {c}
    BY <1>7 DEF Answer, Release
  <2> QED
    BY <1>0, <1>7, <2>1, AnswerReq DEF TypeInv, OnlyOf, Same
<1>8. ASSUME NEW c \in Clients, DetachedEnds(c) PROVE TypeInv'
  BY <1>0, <1>8 DEF DetachedEnds, Release, TypeInv
<1>9. ASSUME NEW c \in Clients, Cancel(c) PROVE TypeInv'
  <2>1. /\ UNCHANGED <<file, models, running>> /\ queue' = RemoveFirst(queue, c)
        /\ loader' = [x \in Contexts |-> IF loader[x] = c THEN None ELSE loader[x]]
    BY <1>9 DEF Cancel, TasksAfter
  <2>2. queue' \in Seq(Clients)
    BY <1>0, <2>1, LeaveLine DEF TypeInv
  <2>3. \A b \in Clients : req'[b].pc # "idle" \/ req'[b].known # None => req'[b].ctx \in Contexts
    BY <1>0, <1>9, CancelReq DEF TypeInv, Same
  <2>4. loader' \in [Contexts -> Clients \cup {None}]
    BY <1>0, <2>1 DEF TypeInv
  <2> QED
    BY <1>0, <1>9, <2>1, <2>2, <2>3, <2>4, CancelReq DEF TypeInv
<1>10. ASSUME NEW x \in Contexts, Evict(x) PROVE TypeInv'
  BY <1>0, <1>10 DEF Evict, TypeInv
<1>11. ASSUME NEW x \in Contexts, Flush(x) PROVE TypeInv'
  BY <1>0, <1>11 DEF Flush, TypeInv
<1>12. CASE UNCHANGED vars
  BY <1>0, <1>12 DEF vars, TypeInv
<1> QED
  BY <1>1, <1>2, <1>3, <1>4, <1>5, <1>6, <1>7, <1>8, <1>9, <1>10, <1>11, <1>12 DEF Next, Serve
-----------------------------------------------------------------------------
(* A permit is taken for one more task, or given back for one less.        *)
LEMMA TakePermit ==
  ASSUME PermitInv, NEW c, c \notin running, permits > 0,
         permits' = permits - 1, running' = running \cup {c}
  PROVE  PermitInv'
<1>1. IsFiniteSet(running') /\ Cardinality(running') = Cardinality(running) + 1
  BY FS_AddElement DEF PermitInv
<1>2. Cardinality(running) \in Nat
  BY FS_CardinalityType DEF PermitInv
<1> QED
  BY <1>1, <1>2, PermitsAssumption DEF PermitInv

\* A permit given goes to the first in line, or back.
LEMMA GivePermit ==
  ASSUME PermitInv, NEW c \in running, Release(c)
  PROVE  PermitInv'
<1>1. IsFiniteSet(running') /\ Cardinality(running') = Cardinality(running) - 1
  BY FS_RemoveElement DEF PermitInv, Release
<1>2. Cardinality(running) \in Nat /\ Cardinality(running') \in Nat
  BY <1>1, FS_CardinalityType DEF PermitInv
<1> QED
  BY <1>1, <1>2, PermitsAssumption DEF PermitInv, Release

\* Every step keeps PermitInv.
LEMMA PermitStep == IInv /\ [Next]_vars => PermitInv'
<1> SUFFICES ASSUME IInv, [Next]_vars PROVE PermitInv'
  OBVIOUS
<1>1. CASE Grant
  <2>1. Head(queue) \notin running
    BY <1>1, ServeLine DEF IInv, TypeInv, LineInv, Grant
  <2> QED
    BY <1>1, <2>1, TakePermit, SMTT(40) DEF IInv, Grant
<1>2. ASSUME NEW c \in Clients, LoadEnds(c) \/ Answer(c) \/ DetachedEnds(c) PROVE PermitInv'
  BY <1>2, GivePermit DEF IInv, LoadEnds, Answer, DetachedEnds
<1>3. ASSUME UNCHANGED <<running, permits>> PROVE PermitInv'
  BY <1>3 DEF IInv, PermitInv
<1>4. ASSUME NEW c \in Clients, Ask(c) \/ Get(c) \/ Import(c) \/ Queue(c) \/ Cancel(c)
      PROVE  PermitInv'
  BY <1>3, <1>4 DEF Ask, Get, Import, Queue, Cancel, TasksAfter
<1>5. ASSUME NEW x \in Contexts, Evict(x) \/ Flush(x) PROVE PermitInv'
  BY <1>3, <1>5 DEF Evict, Flush
<1>6. CASE UNCHANGED vars
  BY <1>3, <1>6 DEF vars
<1> QED
  BY <1>1, <1>2, <1>4, <1>5, <1>6 DEF Next, Serve
-----------------------------------------------------------------------------
\* Every step keeps LineInv.
LEMMA LineStep == IInv /\ [Next]_vars => LineInv'
<1> SUFFICES ASSUME IInv, [Next]_vars PROVE LineInv'
  OBVIOUS
<1>0. /\ TypeInv /\ LoaderInv /\ LineInv /\ IsInjective(queue) /\ queue \in Seq(Clients)
      /\ running \subseteq Clients /\ ToSet(queue) \subseteq Clients
  <2>1. queue \in Seq(Clients)
    BY DEF IInv, TypeInv
  <2>2. ToSet(queue) \subseteq Clients
    BY <2>1, ElementOfSeq, LenProperties DEF ToSet
  <2> QED
    BY <2>1, <2>2 DEF IInv, LineInv, TypeInv
<1>1. CASE Grant
  <2>1. /\ IsInjective(queue') /\ ToSet(queue') = ToSet(queue) \ {Head(queue)}
        /\ running' = running \cup {Head(queue)} /\ Head(queue) \in ToSet(queue) /\ req' = req
    BY <1>0, <1>1, ServeLine DEF Grant
  <2> QED
    BY <1>0, <2>1 DEF LineInv, Waits
(* The request of c changes, and whether it waits does not. *)
<1>2. ASSUME NEW c \in Clients, OnlyOf(c), UNCHANGED <<queue, running>>,
             Waits(c)' <=> Waits(c), req[c].pc # "gone"
      PROVE  LineInv'
  <2>1. \A b \in Clients : Waits(b)' <=> Waits(b)
    BY <1>2 DEF OnlyOf, Same, Waits
  <2>2. \A b \in Clients : req[b].pc = "gone" => req'[b].pc = "gone"
    BY <1>2 DEF OnlyOf, Same
  <2> QED
    BY <1>0, <1>2, <2>1, <2>2 DEF LineInv
(* c joins the line. *)
<1>3. ASSUME NEW c \in Clients, OnlyOf(c), queue' = Append(queue, c), running' = running,
             ~Waits(c), Waits(c)', req[c].pc # "gone"
      PROVE  LineInv'
  <2>1. c \notin ToSet(queue) /\ c \notin running
    BY <1>0, <1>3 DEF LineInv
  <2>2. IsInjective(queue') /\ ToSet(queue') = ToSet(queue) \cup {c}
    BY <1>0, <1>3, <2>1, JoinLine
  <2>3. \A b \in Clients \ {c} : /\ Waits(b)' <=> Waits(b)
                                 /\ req'[b].pc = req[b].pc
    BY <1>3 DEF OnlyOf, Same, Waits
  <2> QED
    BY <1>0, <1>3, <2>1, <2>2, <2>3 DEF LineInv
(* c's task ends, and its wait, or its request had gone before. *)
<1>4. ASSUME NEW c \in running, queue' = queue, running' = running \ {c}, ~Waits(c)',
             \A b \in Clients \ {c} : Waits(b)' <=> Waits(b),
             \A b \in Clients \ {c} : req[b].pc = "gone" => req'[b].pc = "gone"
      PROVE  LineInv'
  <2>1. c \notin ToSet(queue)
    BY <1>0, <1>4 DEF LineInv
  <2> QED
    BY <1>0, <1>4, <2>1 DEF LineInv
<1>5. ASSUME NEW c \in Clients, Ask(c) PROVE LineInv'
  <2>1. UNCHANGED <<queue, running>>
    BY <1>5 DEF Ask
  <2>2. OnlyOf(c) /\ ~Waits(c) /\ ~Waits(c)' /\ req[c].pc # "gone"
    BY <1>0, <1>5, AskReq DEF Waits
  <2> QED
    BY <1>2, <2>1, <2>2
<1>6. ASSUME NEW c \in Clients, Get(c) PROVE LineInv'
  <2>1. running' = running /\ OnlyOf(c) /\ ~Waits(c) /\ req[c].pc # "gone"
    BY <1>0, <1>6, GetReq DEF Get, Waits
  <2>2. CASE UNCHANGED queue /\ ~Waits(c)'
    BY <1>2, <2>1, <2>2
  <2>3. CASE queue' = Append(queue, c) /\ Waits(c)'
    BY <1>3, <2>1, <2>3
  <2> QED
    BY <1>0, <1>6, <2>2, <2>3, GetReq DEF Waits
<1>7. ASSUME NEW c \in Clients, Import(c) PROVE LineInv'
  <2>1. UNCHANGED <<queue, running>>
    BY <1>7 DEF Import
  <2>2. OnlyOf(c) /\ Waits(c) /\ Waits(c)' /\ req[c].pc # "gone"
    BY <1>0, <1>7, ImportReq DEF Waits
  <2> QED
    BY <1>2, <2>1, <2>2
<1>8. ASSUME NEW c \in Clients, LoadEnds(c) PROVE LineInv'
  <2>1. c \in running /\ queue' = queue /\ running' = running \ {c}
    BY <1>8 DEF LoadEnds, Release
  <2>2. c \in Joined(c) /\ \A b \in Joined(c) : ~Waits(b)'
    BY <1>0, <1>8, LoadEndsReq DEF Waits, Joined
  <2>3. \A b \in Joined(c) \ {c} : ~Waits(b) /\ req[b].pc # "gone"
    BY DEF Joined, Waits
  <2>4. \A b \in Clients \ Joined(c) : (Waits(b)' <=> Waits(b)) /\ req'[b].pc = req[b].pc
    BY <1>0, <1>8, LoadEndsReq DEF Waits, Same
  <2> QED
    BY <1>4, <2>1, <2>2, <2>3, <2>4
<1>9. ASSUME NEW c \in Clients, Queue(c) PROVE LineInv'
  <2>1. running' = running /\ queue' = Append(queue, c)
    BY <1>9 DEF Queue
  <2>2. OnlyOf(c) /\ ~Waits(c) /\ Waits(c)' /\ req[c].pc # "gone"
    BY <1>0, <1>9, QueueReq DEF Waits
  <2> QED
    BY <1>3, <2>1, <2>2
<1>10. ASSUME NEW c \in Clients, Answer(c) PROVE LineInv'
  <2>1. c \in running /\ queue' = queue /\ running' = running \ {c}
    BY <1>10 DEF Answer, Release
  <2>2. OnlyOf(c) /\ ~Waits(c)'
    BY <1>0, <1>10, AnswerReq DEF Waits
  <2> QED
    BY <1>4, <2>1, <2>2 DEF OnlyOf, Same, Waits
<1>11. ASSUME NEW c \in Clients, DetachedEnds(c) PROVE LineInv'
  <2>1. /\ c \in running /\ queue' = queue /\ running' = running \ {c}
        /\ req' = req /\ req[c].pc = "gone"
    BY <1>11 DEF DetachedEnds, Release
  <2> QED
    BY <1>4, <2>1 DEF Waits
<1>12. ASSUME NEW c \in Clients, Cancel(c) PROVE LineInv'
  <2>1. running' = running /\ queue' = RemoveFirst(queue, c)
    BY <1>12 DEF Cancel, TasksAfter
  <2>2. IsInjective(queue') /\ ToSet(queue') = ToSet(queue) \ {c}
    BY <1>0, <2>1, LeaveLine
  <2>3. req'[c].pc = "gone" /\ ~Waits(c)'
    BY <1>0, <1>12, CancelReq DEF Waits
  <2>4. \A b \in Clients \ {c} : /\ Waits(b)' <=> Waits(b)
                                 /\ req[b].pc = "gone" => req'[b].pc = "gone"
    BY <1>0, <1>12, CancelReq DEF Waits, Same
  <2> QED
    BY <1>0, <2>1, <2>2, <2>3, <2>4 DEF LineInv
<1>13. ASSUME UNCHANGED <<queue, running, req>> PROVE LineInv'
  BY <1>0, <1>13 DEF LineInv, Waits
<1>14. ASSUME NEW x \in Contexts, Evict(x) \/ Flush(x) PROVE LineInv'
  BY <1>13, <1>14 DEF Evict, Flush
<1>15. CASE UNCHANGED vars
  BY <1>13, <1>15 DEF vars
<1> QED
  BY <1>1, <1>5, <1>6, <1>7, <1>8, <1>9, <1>10, <1>11, <1>12, <1>14, <1>15 DEF Next, Serve
-----------------------------------------------------------------------------
\* Every step keeps LoaderInv.
LEMMA LoaderStep == IInv /\ [Next]_vars => LoaderInv'
<1> SUFFICES ASSUME IInv, [Next]_vars PROVE LoaderInv'
  OBVIOUS
<1>0. /\ TypeInv /\ LoaderInv
      /\ loader \in [Contexts -> Clients \cup {None}] /\ models \in [Contexts -> Sizes \cup {None}]
  BY DEF IInv, TypeInv
(* What is said of one context, and of one client. *)
<1> DEFINE OfContext(x) == loader[x] # None =>
             req[loader[x]].pc = "loading" /\ req[loader[x]].ctx = x /\ models[x] = None
           OfClient(c) ==
             /\ req[c].pc = "loading" => loader[req[c].ctx] = c
             /\ req[c].pc = "joined" => loader[req[c].ctx] # None
             /\ req[c].pc \in {"get", "joined"} => req[c].got = None
             /\ req[c].pc \in {"ready", "answering"} => req[c].got \in Sizes
<1>1. /\ \A x \in Contexts : OfContext(x)
      /\ \A c \in Clients : OfClient(c)
  BY <1>0 DEF LoaderInv
<1>2. ASSUME \A x \in Contexts : OfContext(x)', \A c \in Clients : OfClient(c)'
      PROVE  LoaderInv'
  BY <1>2 DEF LoaderInv
(* The request of c changes, which is no loader, nor becomes one. *)
<1>3. ASSUME NEW c \in Clients, OnlyOf(c), loader' = loader, models' = models,
             req[c].pc # "loading", OfClient(c)'
      PROVE  LoaderInv'
  <2>1. ASSUME NEW b \in Clients PROVE OfClient(b)'
    <3>1. CASE b = c
      BY <1>3, <3>1
    <3>2. CASE b # c
      <4>1. OfClient(b) /\ req'[b] = req[b]
        BY <1>1, <1>3, <3>2 DEF OnlyOf, Same
      <4> QED
        BY <1>3, <4>1
    <3> QED
      BY <3>1, <3>2
  <2>2. ASSUME NEW x \in Contexts PROVE OfContext(x)'
    <3>1. CASE loader[x] = None
      BY <1>3, <3>1
    <3>2. CASE loader[x] # None
      <4>1. loader[x] \in Clients \ {c}
        BY <1>0, <1>1, <1>3, <3>2
      <4>2. req'[loader[x]] = req[loader[x]]
        BY <1>3, <4>1 DEF OnlyOf, Same
      <4> QED
        BY <1>1, <1>3, <4>2
    <3> QED
      BY <3>1, <3>2
  <2> HIDE DEF OfContext, OfClient
  <2> QED
    BY <1>2, <2>1, <2>2
<1>4. ASSUME NEW c \in Clients, Ask(c) PROVE LoaderInv'
  <2>1. UNCHANGED <<loader, models>>
    BY <1>4 DEF Ask
  <2>2. OnlyOf(c) /\ req[c].pc # "loading" /\ OfClient(c)'
    BY <1>0, <1>4, AskReq
  <2> HIDE DEF OfClient
  <2> QED
    BY <1>3, <2>1, <2>2
<1>5. ASSUME NEW c \in Clients, Get(c) PROVE LoaderInv'
  <2> DEFINE x == req[c].ctx
  <2>1. /\ OnlyOf(c) /\ models' = models /\ x \in Contexts /\ req[c].pc = "get"
        /\ req[c].got = None /\ req'[c].ctx = x
    BY <1>0, <1>1, <1>5, GetReq DEF Get
  <2>2. CASE loader' = loader
    <3>1. OfClient(c)'
      <4>1. \/ models[x] # None /\ req'[c].pc = "ready" /\ req'[c].got = models[x]
            \/ loader[x] # None /\ req'[c].pc = "joined" /\ req'[c].got = req[c].got
        <5>1. ~(loader[x] = None /\ loader' = [loader EXCEPT ![x] = c])
          BY <1>0, <2>1, <2>2, ValuesAssumption
        <5> QED
          BY <1>0, <1>5, <5>1, GetReq
      <4>2. models[x] \in Sizes \cup {None}
        BY <1>0, <2>1
      <4> QED
        BY <2>1, <2>2, <4>1, <4>2
    <3> HIDE DEF OfClient
    <3> QED
      BY <1>3, <2>1, <2>2, <3>1
  <2>3. CASE /\ models[x] = None /\ loader[x] = None
             /\ req'[c].pc = "loading" /\ req'[c].got = req[c].got
             /\ loader' = [loader EXCEPT ![x] = c]
    <3>1. loader'[x] = c /\ \A y \in Contexts \ {x} : loader'[y] = loader[y]
      BY <1>0, <2>1, <2>3
    <3>2. ASSUME NEW y \in Contexts PROVE OfContext(y)'
      <4>1. CASE y = x
        BY <2>1, <2>3, <3>1, <4>1
      <4>2. CASE y # x /\ loader[y] # None
        <5>1. loader[y] \in Clients \ {c} /\ loader'[y] = loader[y]
          BY <1>0, <1>1, <2>1, <3>1, <4>2
        <5>2. req'[loader[y]] = req[loader[y]]
          BY <2>1, <5>1 DEF OnlyOf, Same
        <5> QED
          BY <1>1, <2>1, <5>1, <5>2
      <4>3. CASE y # x /\ loader[y] = None
        BY <3>1, <4>3
      <4> QED
        BY <4>1, <4>2, <4>3
    <3>3. ASSUME NEW b \in Clients PROVE OfClient(b)'
      <4>1. CASE b = c
        BY <2>1, <2>3, <3>1, <4>1
      <4>2. CASE b # c
        <5>1. OfClient(b) /\ req'[b] = req[b]
          BY <1>1, <2>1, <4>2 DEF OnlyOf, Same
        <5>2. req[b].pc \in {"loading", "joined"} => req[b].ctx \in Contexts
          BY <1>0 DEF TypeInv
        <5>3. req[b].pc = "loading" => loader'[req[b].ctx] = b
          BY <2>3, <3>1, <5>1, <5>2, ValuesAssumption
        <5>4. req[b].pc = "joined" => loader'[req[b].ctx] # None
          BY <2>3, <3>1, <5>1, <5>2, ValuesAssumption
        <5> QED
          BY <5>1, <5>3, <5>4
      <4> QED
        BY <4>1, <4>2
    <3> HIDE DEF OfContext, OfClient
    <3> QED
      BY <1>2, <3>2, <3>3
  <2> QED
    BY <1>0, <1>5, <2>2, <2>3, GetReq
(* c goes on loading. *)
<1>6. ASSUME NEW c \in Clients, Import(c) PROVE LoaderInv'
  <2>1. /\ OnlyOf(c) /\ UNCHANGED <<loader, models>>
        /\ req[c].pc = "loading" /\ req'[c].pc = "loading" /\ req'[c].ctx = req[c].ctx
    BY <1>0, <1>6, ImportReq DEF Import
  <2>2. ASSUME NEW x \in Contexts PROVE OfContext(x)'
    <3>1. \A b \in Clients : req'[b].pc = req[b].pc /\ req'[b].ctx = req[b].ctx
      BY <2>1 DEF OnlyOf, Same
    <3>2. loader[x] # None => loader[x] \in Clients
      BY <1>0
    <3> QED
      BY <1>1, <2>1, <3>1, <3>2
  <2>3. ASSUME NEW b \in Clients PROVE OfClient(b)'
    <3>1. CASE b = c
      BY <1>1, <2>1, <3>1
    <3>2. CASE b # c
      <4>1. OfClient(b) /\ req'[b] = req[b]
        BY <1>1, <2>1, <3>2, SMTT(40) DEF OnlyOf, Same
      <4> QED
        BY <2>1, <4>1
    <3> QED
      BY <3>1, <3>2
  <2> HIDE DEF OfContext, OfClient
  <2> QED
    BY <1>2, <2>2, <2>3
<1>7. ASSUME NEW c \in Clients, LoadEnds(c) PROVE LoaderInv'
  <2> DEFINE x == req[c].ctx
  <2>1. /\ loader' = [loader EXCEPT ![x] = None] /\ x \in Contexts /\ req[c].pc = "loading"
        /\ loader[x] = c
    BY <1>0, <1>1, <1>7, LoadEndsReq DEF LoadEnds
  <2>2. loader'[x] = None /\ \A y \in Contexts \ {x} : loader'[y] = loader[y]
    BY <1>0, <2>1
  <2>3. \A y \in Contexts \ {x} : models'[y] = models[y]
    BY <1>0, <1>7, LoadEndsReq
  <2>4. ASSUME NEW y \in Contexts PROVE OfContext(y)'
    <3>1. CASE y = x \/ loader[y] = None
      BY <2>2, <3>1
    <3>2. CASE y # x /\ loader[y] # None
      <4>1. loader[y] \in Clients /\ req[loader[y]].pc = "loading" /\ req[loader[y]].ctx = y
        BY <1>0, <1>1, <3>2
      <4>2. loader[y] \notin Joined(c)
        BY <3>2, <4>1 DEF Joined
      <4>3. req'[loader[y]] = req[loader[y]]
        BY <1>0, <1>7, <4>1, <4>2, LoadEndsReq DEF Same
      <4> QED
        BY <1>1, <2>2, <2>3, <3>2, <4>3
    <3> QED
      BY <3>1, <3>2
  <2>5. ASSUME NEW b \in Clients PROVE OfClient(b)'
    <3>1. CASE b \in Joined(c)
      BY <1>0, <1>7, <3>1, LoadEndsReq
    <3>2. CASE b \notin Joined(c)
      <4>1. OfClient(b) /\ req'[b] = req[b]
        BY <1>0, <1>1, <1>7, <3>2, LoadEndsReq DEF Same
      <4>2. req[b].pc \in {"loading", "joined"} => req[b].ctx \in Contexts \ {x}
        BY <1>0, <2>1, <3>2, <4>1 DEF TypeInv, Joined
      <4> QED
        BY <2>2, <4>1, <4>2
    <3> QED
      BY <3>1, <3>2
  <2> HIDE DEF OfContext, OfClient
  <2> QED
    BY <1>2, <2>4, <2>5
<1>8. ASSUME NEW c \in Clients, Queue(c) PROVE LoaderInv'
  <2>1. UNCHANGED <<loader, models>>
    BY <1>8 DEF Queue
  <2>2. OnlyOf(c) /\ req[c].pc # "loading" /\ OfClient(c)'
    BY <1>0, <1>1, <1>8, QueueReq
  <2> HIDE DEF OfClient
  <2> QED
    BY <1>3, <2>1, <2>2
<1>9. ASSUME NEW c \in Clients, Answer(c) PROVE LoaderInv'
  <2>1. UNCHANGED <<loader, models>>
    BY <1>9 DEF Answer
  <2>2. OnlyOf(c) /\ req[c].pc # "loading" /\ OfClient(c)'
    BY <1>0, <1>1, <1>9, AnswerReq
  <2> HIDE DEF OfClient
  <2> QED
    BY <1>3, <2>1, <2>2
<1>10. ASSUME NEW c \in Clients, Cancel(c) PROVE LoaderInv'
  <2>1. /\ loader' = [x \in Contexts |-> IF loader[x] = c THEN None ELSE loader[x]]
        /\ models' = models
    BY <1>10 DEF Cancel
  <2>2. ASSUME NEW x \in Contexts PROVE OfContext(x)'
    <3>1. CASE loader'[x] = None
      BY <3>1
    <3>2. CASE loader'[x] # None
      <4>1. loader'[x] = loader[x] /\ loader[x] \in Clients \ {c} /\ req[loader[x]].pc = "loading"
        BY <1>0, <1>1, <2>1, <3>2
      <4>2. req'[loader[x]] = req[loader[x]]
        BY <1>0, <1>10, <4>1, CancelReq DEF Same
      <4> QED
        BY <1>1, <2>1, <4>1, <4>2
    <3> QED
      BY <3>1, <3>2
  <2>3. ASSUME NEW b \in Clients PROVE OfClient(b)'
    <3>1. CASE b = c
      BY <1>0, <1>10, <3>1, CancelReq
    <3>2. CASE b # c /\ req[b].pc = "joined" /\ loader[req[b].ctx] = c
      <4>1. req'[b].pc = "get" /\ req'[b].got = None
        BY <1>0, <1>1, <1>10, <3>2, CancelReq DEF Same
      <4> QED
        BY <4>1
    <3>3. CASE b # c /\ ~(req[b].pc = "joined" /\ loader[req[b].ctx] = c)
      <4>1. OfClient(b) /\ req'[b] = req[b]
        BY <1>0, <1>1, <1>10, <3>3, CancelReq DEF Same
      <4>2. req[b].pc \in {"loading", "joined"} => req[b].ctx \in Contexts
        BY <1>0 DEF TypeInv
      <4>3. req[b].pc \in {"loading", "joined"} => loader'[req[b].ctx] = loader[req[b].ctx]
        BY <2>1, <3>3, <4>1, <4>2
      <4> QED
        BY <4>1, <4>3
    <3> QED
      BY <3>1, <3>2, <3>3
  <2> HIDE DEF OfContext, OfClient
  <2> QED
    BY <1>2, <2>2, <2>3
<1>11. ASSUME UNCHANGED <<loader, req>>, \A x \in Contexts : models[x] = None => models'[x] = None
       PROVE  LoaderInv'
  BY <1>0, <1>11 DEF LoaderInv
<1>12. ASSUME NEW x \in Contexts, Evict(x) PROVE LoaderInv'
  BY <1>0, <1>11, <1>12 DEF Evict
<1>13. CASE Grant \/ (\E x \in Contexts : Flush(x)) \/ UNCHANGED vars
  BY <1>11, <1>13 DEF Grant, Flush, vars
<1>14. ASSUME NEW c \in Clients, DetachedEnds(c) PROVE LoaderInv'
  BY <1>11, <1>14 DEF DetachedEnds
<1> HIDE DEF OfContext, OfClient
<1> QED
  BY <1>4, <1>5, <1>6, <1>7, <1>8, <1>9, <1>10, <1>12, <1>13, <1>14 DEF Next, Serve
-----------------------------------------------------------------------------
(* What is in a file stays in it. *)
LEMMA FileGrows ==
  ASSUME IInv, [Next]_vars, NEW x \in Contexts, file[x] # None
  PROVE  file'[x] # None /\ file[x] \in Sizes /\ file'[x] \in Sizes /\ file[x] <= file'[x]
<1>0. TypeInv
  BY DEF IInv
<1>1. file[x] \in Sizes /\ file[x] \in Nat /\ Sizes \subseteq Nat /\ None \notin Sizes
  BY <1>0, ValuesAssumption DEF TypeInv
<1>2. CASE file' = file
  BY <1>1, <1>2
<1>3. ASSUME NEW y \in Contexts, Flush(y)
      PROVE  file'[x] # None /\ file'[x] \in Sizes /\ file[x] <= file'[x]
  <2>1. PICK n \in Sizes : (file[y] # None => file[y] < n) /\ file' = [file EXCEPT ![y] = n]
    BY <1>3 DEF Flush
  <2>2. CASE x = y
    <3>1. file'[x] = n /\ file[x] < n /\ n \in Nat /\ n # None
      BY <1>0, <1>1, <2>1, <2>2 DEF TypeInv
    <3> QED
      BY <1>1, <3>1
  <2>3. CASE x # y
    <3>1. file'[x] = file[x]
      BY <1>0, <2>1, <2>3 DEF TypeInv
    <3> QED
      BY <1>1, <3>1
  <2> QED
    BY <2>2, <2>3
<1>4. CASE Grant \/ UNCHANGED vars
  BY <1>2, <1>4 DEF Grant, vars
<1>5. ASSUME NEW c \in Clients, Ask(c) \/ Serve(c) \/ Cancel(c) PROVE file' = file
  <2>1. Ask(c) \/ Cancel(c) => file' = file
    BY DEF Ask, Cancel
  <2>2. Get(c) \/ Import(c) => file' = file
    BY DEF Get, Import
  <2>3. LoadEnds(c) \/ Queue(c) => file' = file
    BY DEF LoadEnds, Queue
  <2>4. Answer(c) \/ DetachedEnds(c) => file' = file
    BY DEF Answer, DetachedEnds
  <2> QED
    BY <1>5, <2>1, <2>2, <2>3, <2>4 DEF Serve
<1>6. ASSUME NEW y \in Contexts, Evict(y) PROVE file' = file
  BY <1>6 DEF Evict
<1> QED
  BY <1>1, <1>2, <1>3, <1>4, <1>5, <1>6 DEF Next

\* Every step keeps FileInv.
LEMMA FileStep == IInv /\ [Next]_vars => FileInv'
<1> SUFFICES ASSUME IInv, [Next]_vars PROVE FileInv'
  OBVIOUS
<1>0. /\ TypeInv /\ LoaderInv /\ FileInv /\ Sizes \subseteq Nat /\ None \notin Sizes
      /\ models \in [Contexts -> Sizes \cup {None}]
  BY ValuesAssumption DEF IInv, TypeInv
<1> DEFINE Loaded(x) == models[x] # None => file[x] # None /\ models[x] <= file[x]
           Read(c) == req[c].pc = "loading" /\ req[c].got \in Sizes =>
                        file[req[c].ctx] # None /\ req[c].got <= file[req[c].ctx]
<1>1. (\A x \in Contexts : Loaded(x)) /\ (\A c \in Clients : Read(c))
  BY <1>0 DEF FileInv
<1>2. ASSUME \A x \in Contexts : Loaded(x)', \A c \in Clients : Read(c)' PROVE FileInv'
  BY <1>2 DEF FileInv
<1>3. ASSUME NEW x \in Contexts, models'[x] \in {None, models[x]} PROVE Loaded(x)'
  <2>1. CASE models'[x] = None
    BY <2>1
  <2>2. CASE models[x] # None /\ models'[x] = models[x]
    <3>1. models[x] \in Nat /\ file[x] # None /\ models[x] <= file[x]
      BY <1>0, <1>1, <2>2
    <3>2. file'[x] # None /\ file[x] \in Nat /\ file'[x] \in Nat /\ file[x] <= file'[x]
      BY <1>0, <3>1, FileGrows
    <3> QED
      BY <2>2, <3>1, <3>2
  <2> QED
    BY <1>3, <2>1, <2>2
<1>4. ASSUME NEW c \in Clients,
             \/ Same(c)
             \/ req'[c].pc # "loading"
             \/ req'[c].got \notin Sizes
      PROVE  Read(c)'
  <2>1. CASE req'[c].pc # "loading" \/ req'[c].got \notin Sizes
    BY <2>1
  <2>2. CASE Same(c) /\ req[c].pc = "loading" /\ req[c].got \in Sizes
    <3>1. /\ req[c].ctx \in Contexts /\ req[c].got \in Nat
          /\ file[req[c].ctx] # None /\ req[c].got <= file[req[c].ctx]
      BY <1>0, <1>1, <2>2 DEF TypeInv
    <3>2. /\ file'[req[c].ctx] # None /\ file[req[c].ctx] \in Nat /\ file'[req[c].ctx] \in Nat
          /\ file[req[c].ctx] <= file'[req[c].ctx]
      BY <1>0, <3>1, FileGrows
    <3> QED
      BY <2>2, <3>1, <3>2 DEF Same
  <2> QED
    BY <1>4, <2>1, <2>2 DEF Same
(* No model is made, and no load reads. *)
<1>5. ASSUME \A x \in Contexts : models'[x] \in {None, models[x]},
             \A c \in Clients : \/ Same(c)
                               \/ req'[c].pc # "loading"
                               \/ req'[c].got \notin Sizes
      PROVE  FileInv'
  <2> HIDE DEF Loaded, Read
  <2> QED
    BY <1>2, <1>3, <1>4, <1>5
<1>6. ASSUME NEW c \in Clients, OnlyOf(c), models' = models,
             req'[c].pc # "loading" \/ req'[c].got \notin Sizes
      PROVE  FileInv'
  BY <1>5, <1>6 DEF OnlyOf
<1>7. ASSUME NEW c \in Clients, Ask(c) PROVE FileInv'
  BY <1>0, <1>6, <1>7, AskReq DEF Ask
<1>8. ASSUME NEW c \in Clients, Get(c) PROVE FileInv'
  <2>1. OnlyOf(c) /\ models' = models /\ req[c].got = None
    BY <1>0, <1>8, GetReq DEF Get, LoaderInv
  <2>2. req'[c].pc # "loading" \/ req'[c].got \notin Sizes
    BY <1>0, <1>8, <2>1, GetReq
  <2> QED
    BY <1>6, <2>1, <2>2
<1>9. ASSUME NEW c \in Clients, Import(c) PROVE FileInv'
  <2>1. /\ OnlyOf(c) /\ models' = models /\ req[c].ctx \in Contexts /\ req'[c].ctx = req[c].ctx
        /\ \/ req'[c].got = Failed
           \/ file[req[c].ctx] # None /\ req'[c].got = file[req[c].ctx]
    BY <1>0, <1>9, ImportReq DEF Import
  <2>2. CASE req'[c].got = Failed
    BY <1>6, <2>1, <2>2, ValuesAssumption
  <2>3. CASE file[req[c].ctx] # None /\ req'[c].got = file[req[c].ctx]
    <3>1. file' = file /\ file[req[c].ctx] \in Nat
      BY <1>0, <1>9, <2>1, <2>3 DEF Import, TypeInv
    <3>2. Read(c)'
      BY <2>1, <2>3, <3>1
    <3>3. \A b \in Clients \ {c} : Read(b)'
      BY <1>4, <2>1 DEF OnlyOf
    <3>4. \A x \in Contexts : Loaded(x)'
      BY <1>3, <2>1
    <3> HIDE DEF Loaded, Read
    <3> QED
      BY <1>2, <3>2, <3>3, <3>4, SMTT(40)
  <2> QED
    BY <2>1, <2>2, <2>3
<1>10. ASSUME NEW c \in Clients, LoadEnds(c) PROVE FileInv'
  <2>1. \A b \in Clients : Same(b) \/ req'[b].pc # "loading"
    BY <1>0, <1>10, LoadEndsReq
  <2>2. CASE models' = models
    BY <1>5, <2>1, <2>2
  <2>3. CASE req[c].got \in Sizes /\ models' = [models EXCEPT ![req[c].ctx] = req[c].got]
    <3>1. /\ req[c].ctx \in Contexts /\ file[req[c].ctx] # None
          /\ req[c].got <= file[req[c].ctx] /\ file' = file
      BY <1>0, <1>1, <1>10, <2>3, LoadEndsReq DEF LoadEnds
    <3>2. ASSUME NEW x \in Contexts, x = req[c].ctx PROVE Loaded(x)'
      <4>1. models'[x] = req[c].got
        BY <1>0, <2>3, <3>2
      <4> QED
        BY <3>1, <3>2, <4>1
    <3>3. ASSUME NEW x \in Contexts \ {req[c].ctx} PROVE Loaded(x)'
      <4>1. models'[x] = models[x]
        BY <1>0, <2>3
      <4> QED
        BY <1>3, <4>1
    <3>4. \A b \in Clients : Read(b)'
      BY <1>4, <2>1
    <3> HIDE DEF Loaded, Read
    <3> QED
      BY <1>2, <3>2, <3>3, <3>4, SMTT(40)
  <2> QED
    BY <1>0, <1>10, <2>2, <2>3, LoadEndsReq
<1>11. ASSUME NEW c \in Clients, Queue(c) PROVE FileInv'
  BY <1>0, <1>6, <1>11, QueueReq DEF Queue
<1>12. ASSUME NEW c \in Clients, Answer(c) PROVE FileInv'
  BY <1>0, <1>6, <1>12, AnswerReq DEF Answer
<1>13. ASSUME NEW c \in Clients, Cancel(c) PROVE FileInv'
  <2>1. \A b \in Clients : Same(b) \/ req'[b].pc # "loading"
    BY <1>0, <1>13, CancelReq
  <2> QED
    BY <1>5, <1>13, <2>1 DEF Cancel
<1>14. ASSUME NEW x \in Contexts, Evict(x) PROVE FileInv'
  <2>1. \A y \in Contexts : models'[y] \in {None, models[y]}
    BY <1>0, <1>14 DEF Evict
  <2> QED
    BY <1>5, <1>14, <2>1 DEF Evict, Same
<1>15. CASE Grant \/ (\E x \in Contexts : Flush(x)) \/ UNCHANGED vars
  BY <1>5, <1>15 DEF Grant, Flush, vars, Same
<1>16. ASSUME NEW c \in Clients, DetachedEnds(c) PROVE FileInv'
  BY <1>5, <1>16 DEF DetachedEnds, Same
<1> QED
  BY <1>7, <1>8, <1>9, <1>10, <1>11, <1>12, <1>13, <1>14, <1>15, <1>16 DEF Next, Serve
-----------------------------------------------------------------------------
\* Every step keeps GrowInv.
LEMMA GrowStep == IInv /\ [Next]_vars => GrowInv'
<1> SUFFICES ASSUME IInv, [Next]_vars PROVE GrowInv'
  OBVIOUS
<1>0. /\ TypeInv /\ LoaderInv /\ FileInv /\ GrowInv /\ Sizes \subseteq Nat /\ None \notin Sizes
      /\ models \in [Contexts -> Sizes \cup {None}] /\ file \in [Contexts -> Sizes \cup {None}]
  BY ValuesAssumption DEF IInv, TypeInv
<1> DEFINE InFile(x, v) == file[x] # None /\ v <= file[x]
           InModel(x, v) == models[x] # None => v <= models[x]
           InLoad(x, l, v) == req[l].pc = "loading" /\ req[l].ctx = x /\ req[l].got \in Sizes
                                => v <= req[l].got
           Of(c) == req[c].ctx
<1>1. ASSUME NEW c \in Clients, NEW v \in Sizes, Seen(c, v)
      PROVE  /\ Of(c) \in Contexts /\ InFile(Of(c), v) /\ InModel(Of(c), v)
             /\ \A l \in Clients : InLoad(Of(c), l, v)
  <2>1. Of(c) \in Contexts
    BY <1>0, <1>1 DEF TypeInv, Seen
  <2> QED
    BY <1>0, <1>1, <2>1 DEF GrowInv
<1>2. ASSUME \A c \in Clients, v \in Sizes : Seen(c, v)' =>
               /\ InFile(Of(c), v)' /\ InModel(Of(c), v)'
               /\ \A l \in Clients : InLoad(Of(c), l, v)'
      PROVE  GrowInv'
  BY <1>2 DEF GrowInv
(* Three ways to have seen v of x, and they go on. *)
<1>3. ASSUME NEW x \in Contexts, NEW v \in Sizes, InFile(x, v) PROVE InFile(x, v)'
  <2>1. file'[x] # None /\ file[x] \in Nat /\ file'[x] \in Nat /\ file[x] <= file'[x] /\ v \in Nat
    BY <1>0, <1>3, FileGrows
  <2> QED
    BY <1>3, <2>1
(* What was seen is seen of the same context, and nothing new. *)
<1>4. ASSUME \A c \in Clients, v \in Sizes : Seen(c, v)' => Seen(c, v) /\ Of(c)' = Of(c),
             \A x \in Contexts : models'[x] \in {None, models[x]},
             \A l \in Clients : \/ Same(l)
                               \/ req'[l].pc # "loading"
                               \/ req'[l].got \notin Sizes
      PROVE  GrowInv'
  <2> SUFFICES ASSUME NEW c \in Clients, NEW v \in Sizes, Seen(c, v)'
               PROVE  /\ InFile(Of(c), v)' /\ InModel(Of(c), v)'
                      /\ \A l \in Clients : InLoad(Of(c), l, v)'
    <3> HIDE DEF InFile, InModel, InLoad, Of
    <3> QED
      BY <1>2
  <2>1. Seen(c, v) /\ Of(c)' = Of(c)
    BY <1>4
  <2>2. /\ Of(c) \in Contexts /\ InFile(Of(c), v) /\ InModel(Of(c), v)
        /\ \A l \in Clients : InLoad(Of(c), l, v)
    BY <1>1, <2>1
  <2>3. InFile(Of(c), v)'
    <3>1. \A x \in Contexts : InFile(x, v) => InFile(x, v)'
      BY <1>3
    <3> QED
      BY <2>1, <2>2, <3>1
  <2>4. InModel(Of(c), v)'
    BY <1>4, <2>1, <2>2
  <2>5. ASSUME NEW l \in Clients PROVE InLoad(Of(c), l, v)'
    BY <1>4, <2>1, <2>2 DEF Same
  <2> QED
    BY <2>3, <2>4, <2>5
(* The request of c changes, which loads nothing then. *)
<1>5. ASSUME NEW c \in Clients, OnlyOf(c), models' = models,
             req'[c].pc # "loading" \/ req'[c].got \notin Sizes,
             \A v \in Sizes : Seen(c, v)' => Seen(c, v) /\ Of(c)' = Of(c)
      PROVE  GrowInv'
  <2>1. \A b \in Clients, v \in Sizes : Seen(b, v)' => Seen(b, v) /\ Of(b)' = Of(b)
    BY <1>5 DEF OnlyOf, Same, Seen
  <2> HIDE DEF Of
  <2> QED
    BY <1>4, <1>5, <2>1 DEF OnlyOf
<1>6. ASSUME NEW c \in Clients, Ask(c) PROVE GrowInv'
  <2>1. /\ OnlyOf(c) /\ models' = models /\ req'[c].pc = "get"
        /\ req'[c].known = req[c].known /\ (req[c].known # None => req'[c].ctx = req[c].ctx)
    BY <1>0, <1>6, AskReq DEF Ask
  <2>2. \A v \in Sizes : Seen(c, v)' => Seen(c, v) /\ Of(c)' = Of(c)
    BY <1>0, <2>1 DEF Seen
  <2> HIDE DEF Of
  <2> QED
    BY <1>5, <2>1, <2>2
(* A hit, the model is seen; a load that starts has read nothing. *)
<1>7. ASSUME NEW c \in Clients, Get(c) PROVE GrowInv'
  <2>1. /\ OnlyOf(c) /\ models' = models /\ file' = file /\ req[c].pc = "get" /\ req[c].got = None
        /\ req'[c].known = req[c].known /\ req'[c].ctx = req[c].ctx /\ req[c].ctx \in Contexts
    BY <1>0, <1>7, GetReq DEF Get, LoaderInv
  <2>2. CASE req'[c].pc \in {"joined", "loading"} /\ req'[c].got = req[c].got
    <3>1. \A v \in Sizes : Seen(c, v)' => Seen(c, v) /\ Of(c)' = Of(c)
      BY <2>1, <2>2 DEF Seen
    <3>2. req'[c].got \notin Sizes
      BY <1>0, <2>1, <2>2
    <3> HIDE DEF Of
    <3> QED
      BY <1>5, <2>1, <3>1, <3>2
  <2>3. CASE /\ models[Of(c)] # None
             /\ req'[c].pc = "ready" /\ req'[c].got = models[Of(c)]
    <3> SUFFICES ASSUME NEW b \in Clients, NEW v \in Sizes, Seen(b, v)'
                 PROVE  /\ InFile(Of(b), v)' /\ InModel(Of(b), v)'
                        /\ \A l \in Clients : InLoad(Of(b), l, v)'
      <4> HIDE DEF InFile, InModel, InLoad, Of
      <4> QED
        BY <1>2
    <3>1. \A l \in Clients : req'[l].pc = "loading" => Same(l)
      BY <2>1, <2>3 DEF OnlyOf
    <3>2. CASE Seen(b, v)
      <4>1. Of(b)' = Of(b)
        BY <2>1 DEF OnlyOf, Same
      <4>2. /\ InFile(Of(b), v) /\ InModel(Of(b), v)
            /\ \A l \in Clients : InLoad(Of(b), l, v)
        BY <1>1, <3>2
      <4> QED
        BY <2>1, <3>1, <4>1, <4>2 DEF Same
    <3>3. CASE ~Seen(b, v)
      <4>1. b = c /\ v = models[Of(c)]
        BY <2>1, <2>3, <3>3 DEF OnlyOf, Same, Seen
      <4>2. file[Of(c)] # None /\ v <= file[Of(c)] /\ v \in Nat
        BY <1>0, <2>1, <2>3, <4>1 DEF FileInv
      <4>3. ASSUME NEW l \in Clients PROVE ~(req'[l].pc = "loading" /\ req'[l].ctx = Of(c))
        <5>1. ASSUME req[l].pc = "loading", req[l].ctx = Of(c) PROVE FALSE
          <6>1. loader[Of(c)] = l
            BY <1>0, <5>1 DEF LoaderInv
          <6> QED
            BY <1>0, <2>1, <2>3, <6>1, ValuesAssumption DEF LoaderInv
        <5> QED
          BY <3>1, <5>1 DEF Same
      <4> QED
        BY <2>1, <4>1, <4>2, <4>3
    <3> QED
      BY <3>2, <3>3
  <2> QED
    BY <1>0, <1>7, <2>2, <2>3, GetReq
(* A load reads the file, which is no less than anyone saw. *)
<1>8. ASSUME NEW c \in Clients, Import(c) PROVE GrowInv'
  <2>1. /\ OnlyOf(c) /\ models' = models /\ req[c].ctx \in Contexts /\ req'[c].ctx = req[c].ctx
        /\ req'[c].known = req[c].known /\ req'[c].pc = "loading"
        /\ \/ req'[c].got = Failed
           \/ file[req[c].ctx] # None /\ req'[c].got = file[req[c].ctx]
    BY <1>0, <1>8, ImportReq DEF Import
  <2> SUFFICES ASSUME NEW b \in Clients, NEW v \in Sizes, Seen(b, v)'
               PROVE  /\ InFile(Of(b), v)' /\ InModel(Of(b), v)'
                      /\ \A l \in Clients : InLoad(Of(b), l, v)'
    <3> HIDE DEF InFile, InModel, InLoad, Of
    <3> QED
      BY <1>2
  <2>2. Seen(b, v) /\ Of(b)' = Of(b)
    BY <2>1 DEF OnlyOf, Same, Seen
  <2>3. /\ Of(b) \in Contexts /\ InFile(Of(b), v) /\ InModel(Of(b), v)
        /\ \A l \in Clients : InLoad(Of(b), l, v)
    BY <1>1, <2>2
  <2>4. InFile(Of(b), v)' /\ InModel(Of(b), v)'
    <3>1. \A x \in Contexts : InFile(x, v) => InFile(x, v)'
      BY <1>3
    <3> QED
      BY <2>1, <2>2, <2>3, <3>1
  <2>5. ASSUME NEW l \in Clients PROVE InLoad(Of(b), l, v)'
    <3>1. CASE l = c
      BY <2>1, <2>2, <2>3, <3>1, ValuesAssumption
    <3>2. CASE l # c
      BY <2>1, <2>2, <2>3, <3>2 DEF OnlyOf, Same
    <3> QED
      BY <3>1, <3>2
  <2> QED
    BY <2>4, <2>5
(* The load is the model, no less than anyone saw, and all that joined it  *)
(* see it. *)
<1>9. ASSUME NEW c \in Clients, LoadEnds(c) PROVE GrowInv'
  <2> DEFINE x == Of(c)
  <2>1. /\ req[c].pc = "loading" /\ x \in Contexts /\ loader[x] = c /\ file' = file
        /\ \A b \in Clients : Of(b)' = Of(b) /\ req'[b].known = req[b].known
        /\ \A b \in Clients \ Joined(c) : Same(b)
    BY <1>0, <1>9, LoadEndsReq DEF LoadEnds, LoaderInv
  <2>2. CASE (\A b \in Joined(c) : req'[b].pc = "idle") /\ models' = models
    <3>1. \A b \in Clients, v \in Sizes : Seen(b, v)' => Seen(b, v) /\ Of(b)' = Of(b)
      <4> SUFFICES ASSUME NEW b \in Clients, NEW v \in Sizes, Seen(b, v)' PROVE Seen(b, v)
        BY <2>1
      <4>1. CASE b \in Joined(c)
        BY <2>1, <2>2, <4>1 DEF Seen
      <4>2. CASE b \notin Joined(c)
        BY <2>1, <4>2 DEF Seen, Same
      <4> QED
        BY <4>1, <4>2
    <3>2. \A b \in Clients : Same(b) \/ req'[b].pc # "loading"
      BY <2>1, <2>2
    <3> HIDE DEF Of
    <3> QED
      BY <1>4, <2>2, <3>1, <3>2
  <2>3. CASE /\ \A b \in Joined(c) : req'[b].pc = "ready" /\ req'[b].got = req[c].got
             /\ req[c].got \in Sizes /\ models' = [models EXCEPT ![x] = req[c].got]
    <3> SUFFICES ASSUME NEW b \in Clients, NEW v \in Sizes, Seen(b, v)'
                 PROVE  /\ InFile(Of(b), v)' /\ InModel(Of(b), v)'
                        /\ \A l \in Clients : InLoad(Of(b), l, v)'
      <4> HIDE DEF InFile, InModel, InLoad, Of
      <4> QED
        BY <1>2
    <3>1. \A l \in Clients : req'[l].pc = "loading" => Same(l)
      BY <2>1, <2>3
    <3>2. /\ models'[x] = req[c].got
          /\ \A y \in Contexts \ {x} : models'[y] = models[y]
      BY <1>0, <2>1, <2>3
    <3>3. CASE Seen(b, v)
      <4>1. /\ Of(b) \in Contexts /\ InFile(Of(b), v) /\ InModel(Of(b), v)
            /\ \A l \in Clients : InLoad(Of(b), l, v)
        BY <1>1, <3>3
      <4>2. InModel(Of(b), v)'
        <5>1. CASE Of(b) = x
          <6>1. v <= req[c].got
            BY <2>1, <2>3, <4>1, <5>1
          <6> QED
            BY <2>1, <3>2, <5>1, <6>1
        <5>2. CASE Of(b) # x
          BY <2>1, <3>2, <4>1, <5>2
        <5> QED
          BY <5>1, <5>2
      <4> QED
        BY <2>1, <3>1, <4>1, <4>2 DEF Same
    <3>4. CASE ~Seen(b, v)
      <4>1. b \in Joined(c) /\ v = req[c].got
        <5>1. b \in Joined(c)
          BY <2>1, <3>4 DEF Seen, Same
        <5> QED
          BY <2>1, <2>3, <3>4, <5>1 DEF Seen
      <4>2. Of(b) = x /\ Of(b)' = x
        BY <2>1, <4>1 DEF Joined
      <4>3. file[x] # None /\ v <= file[x] /\ v \in Nat
        BY <1>0, <2>1, <2>3, <4>1 DEF FileInv
      <4>4. ASSUME NEW l \in Clients PROVE ~(req'[l].pc = "loading" /\ req'[l].ctx = x)
        <5>1. ASSUME req[l].pc = "loading", req[l].ctx = x PROVE l \in Joined(c)
          BY <1>0, <2>1, <5>1 DEF LoaderInv, Joined
        <5> QED
          BY <2>1, <2>3, <3>1, <5>1 DEF Same
      <4> QED
        BY <2>1, <3>2, <4>1, <4>2, <4>3, <4>4
    <3> QED
      BY <3>3, <3>4
  <2> QED
    BY <1>0, <1>9, <2>2, <2>3, LoadEndsReq, SMTT(40)
<1>10. ASSUME NEW c \in Clients, Queue(c) PROVE GrowInv'
  <2>1. /\ OnlyOf(c) /\ models' = models /\ req'[c].pc = "answering" /\ req[c].pc = "ready"
        /\ req'[c].known = req[c].known /\ req'[c].ctx = req[c].ctx /\ req'[c].got = req[c].got
    BY <1>0, <1>10, QueueReq DEF Queue
  <2>2. \A v \in Sizes : Seen(c, v)' => Seen(c, v) /\ Of(c)' = Of(c)
    BY <2>1 DEF Seen
  <2> HIDE DEF Of
  <2> QED
    BY <1>5, <2>1, <2>2
<1>11. ASSUME NEW c \in Clients, Answer(c) PROVE GrowInv'
  <2>1. /\ OnlyOf(c) /\ models' = models /\ req'[c].pc = "idle" /\ req[c].pc = "answering"
        /\ req'[c].known \in {req[c].known, req[c].got} /\ req'[c].ctx = req[c].ctx
    BY <1>0, <1>11, AnswerReq DEF Answer
  <2>2. \A v \in Sizes : Seen(c, v)' => Seen(c, v) /\ Of(c)' = Of(c)
    BY <2>1 DEF Seen
  <2> HIDE DEF Of
  <2> QED
    BY <1>5, <2>1, <2>2
<1>12. ASSUME NEW c \in Clients, Cancel(c) PROVE GrowInv'
  <2>1. \A b \in Clients : Same(b) \/ req'[b].pc # "loading"
    BY <1>0, <1>12, CancelReq
  <2>2. \A b \in Clients, v \in Sizes : Seen(b, v)' => Seen(b, v) /\ Of(b)' = Of(b)
    <3> SUFFICES ASSUME NEW b \in Clients, NEW v \in Sizes, Seen(b, v)'
                 PROVE  Seen(b, v) /\ Of(b)' = Of(b)
      OBVIOUS
    <3>1. req'[b].known = req[b].known /\ req'[b].ctx = req[b].ctx
      BY <1>0, <1>12, CancelReq
    <3>2. Same(b) \/ req'[b].pc \in {"gone", "get"}
      BY <1>0, <1>12, CancelReq
    <3> QED
      BY <3>1, <3>2 DEF Seen, Same
  <2>3. models' = models
    BY <1>12 DEF Cancel
  <2> HIDE DEF Of
  <2> QED
    BY <1>4, <2>1, <2>2, <2>3
<1>13. ASSUME req' = req, \A x \in Contexts : models'[x] \in {None, models[x]} PROVE GrowInv'
  <2>1. \A b \in Clients, v \in Sizes : Seen(b, v)' => Seen(b, v) /\ Of(b)' = Of(b)
    BY <1>13 DEF Seen
  <2> HIDE DEF Of
  <2> QED
    BY <1>4, <1>13, <2>1 DEF Same
<1>14. ASSUME NEW x \in Contexts, Evict(x) PROVE GrowInv'
  BY <1>0, <1>13, <1>14 DEF Evict
<1>15. CASE Grant \/ (\E x \in Contexts : Flush(x)) \/ UNCHANGED vars
  BY <1>13, <1>15 DEF Grant, Flush, vars
<1>16. ASSUME NEW c \in Clients, DetachedEnds(c) PROVE GrowInv'
  BY <1>13, <1>16 DEF DetachedEnds
<1> HIDE DEF InFile, InModel, InLoad, Of
<1> QED
  BY <1>6, <1>7, <1>8, <1>9, <1>10, <1>11, <1>12, <1>14, <1>15, <1>16 DEF Next, Serve
-----------------------------------------------------------------------------
\* Every step keeps ShownInv.
LEMMA ShownStep == IInv /\ [Next]_vars => ShownInv'
<1> SUFFICES ASSUME IInv, [Next]_vars PROVE ShownInv'
  OBVIOUS
<1>0. TypeInv /\ LoaderInv /\ GrowInv /\ ShownInv /\ Sizes \subseteq Nat /\ None \notin Sizes
  BY ValuesAssumption DEF IInv
<1> DEFINE Holds(c) ==
             /\ req[c].shown # None => req[c].known # None /\ req[c].known <= req[c].shown
             /\ req[c].known # None /\ req[c].pc \in {"ready", "answering"} =>
                  req[c].known <= req[c].got
<1>1. \A c \in Clients : Holds(c) /\ req[c].known \in Sizes \cup {None}
  BY <1>0 DEF ShownInv, TypeInv, Request
<1>2. ASSUME \A c \in Clients : Holds(c)' PROVE ShownInv'
  BY <1>2 DEF ShownInv
<1>3. ASSUME NEW c \in Clients, Same(c) PROVE Holds(c)'
  BY <1>1, <1>3 DEF Same
<1>4. ASSUME NEW c \in Clients, OnlyOf(c), Holds(c)' PROVE ShownInv'
  <2>1. \A b \in Clients \ {c} : Holds(b)'
    BY <1>3, <1>4 DEF OnlyOf
  <2> HIDE DEF Holds
  <2> QED
    BY <1>2, <1>4, <2>1
<1>5. ASSUME NEW c \in Clients, req'[c].known = req[c].known, req'[c].shown = req[c].shown,
             req'[c].pc \notin {"ready", "answering"}
      PROVE  Holds(c)'
  BY <1>1, <1>5
<1>6. ASSUME NEW c \in Clients, Ask(c) PROVE ShownInv'
  <2>1. OnlyOf(c) /\ Holds(c)'
    BY <1>0, <1>5, <1>6, AskReq
  <2> HIDE DEF Holds
  <2> QED
    BY <1>4, <2>1
(* A model in the cache is no older than the client's catalog. *)
<1>7. ASSUME NEW c \in Clients, Get(c) PROVE ShownInv'
  <2>1. /\ OnlyOf(c) /\ req'[c].known = req[c].known /\ req'[c].shown = req[c].shown
        /\ \/ req'[c].pc \notin {"ready", "answering"}
           \/ models[req[c].ctx] # None /\ req'[c].got = models[req[c].ctx]
    BY <1>0, <1>7, GetReq
  <2>2. Holds(c)'
    <3>1. CASE req'[c].pc \notin {"ready", "answering"}
      BY <1>5, <2>1, <3>1
    <3>2. CASE models[req[c].ctx] # None /\ req'[c].got = models[req[c].ctx]
      <4>1. req[c].known # None => req[c].known <= models[req[c].ctx]
        BY <1>0, <1>1, <3>2 DEF GrowInv, Seen
      <4> QED
        BY <1>1, <2>1, <3>2, <4>1
    <3> QED
      BY <2>1, <3>1, <3>2
  <2> HIDE DEF Holds
  <2> QED
    BY <1>4, <2>1, <2>2
<1>8. ASSUME NEW c \in Clients, Import(c) PROVE ShownInv'
  <2>1. OnlyOf(c) /\ Holds(c)'
    BY <1>0, <1>5, <1>8, ImportReq
  <2> HIDE DEF Holds
  <2> QED
    BY <1>4, <2>1
(* Nor is one just loaded, for all who joined. *)
<1>9. ASSUME NEW c \in Clients, LoadEnds(c) PROVE ShownInv'
  <2>1. ASSUME NEW b \in Clients PROVE Holds(b)'
    <3>1. req'[b].known = req[b].known /\ req'[b].shown = req[b].shown
      BY <1>0, <1>9, LoadEndsReq
    <3>2. CASE Same(b)
      BY <1>3, <3>2
    <3>3. CASE req'[b].pc = "idle"
      BY <1>5, <3>1, <3>3
    <3>4. CASE b \in Joined(c) /\ req'[b].pc = "ready" /\ req'[b].got = req[c].got
               /\ req[c].got \in Sizes
      <4>1. req[c].pc = "loading" /\ req[c].ctx = req[b].ctx
        BY <1>0, <1>9, <3>4, LoadEndsReq DEF Joined
      <4>2. req[b].known # None => req[b].known <= req[c].got
        BY <1>0, <1>1, <3>4, <4>1 DEF GrowInv, Seen
      <4> QED
        BY <1>1, <3>1, <3>4, <4>2
    <3> QED
      BY <1>0, <1>9, <3>2, <3>3, <3>4, LoadEndsReq
  <2> HIDE DEF Holds
  <2> QED
    BY <1>2, <2>1
<1>10. ASSUME NEW c \in Clients, Queue(c) PROVE ShownInv'
  <2>1. OnlyOf(c) /\ Holds(c)'
    BY <1>0, <1>1, <1>10, QueueReq
  <2> HIDE DEF Holds
  <2> QED
    BY <1>4, <2>1
<1>11. ASSUME NEW c \in Clients, Answer(c) PROVE ShownInv'
  <2>1. /\ OnlyOf(c) /\ req[c].pc = "answering" /\ req'[c].pc = "idle" /\ req[c].got \in Sizes
        /\ \/ req[c].known = None /\ req'[c].known = req[c].got /\ req'[c].shown = req[c].shown
           \/ req[c].known # None /\ req'[c].known = req[c].known /\ req'[c].shown = req[c].got
    BY <1>0, <1>11, AnswerReq DEF LoaderInv
  <2>2. Holds(c)'
    <3>1. CASE req[c].known = None /\ req'[c].shown = req[c].shown
      BY <1>1, <2>1, <3>1
    <3>2. CASE /\ req[c].known # None /\ req'[c].known = req[c].known
               /\ req'[c].shown = req[c].got
      BY <1>1, <2>1, <3>2
    <3> QED
      BY <2>1, <3>1, <3>2
  <2> HIDE DEF Holds
  <2> QED
    BY <1>4, <2>1, <2>2
<1>12. ASSUME NEW c \in Clients, Cancel(c) PROVE ShownInv'
  <2>1. ASSUME NEW b \in Clients PROVE Holds(b)'
    <3>1. Same(b) \/ req'[b].pc \in {"gone", "get"}
      BY <1>0, <1>12, CancelReq
    <3>2. req'[b].known = req[b].known /\ req'[b].shown = req[b].shown
      BY <1>0, <1>12, CancelReq
    <3> QED
      BY <1>3, <1>5, <3>1, <3>2
  <2> HIDE DEF Holds
  <2> QED
    BY <1>2, <2>1
<1>13. ASSUME req' = req PROVE ShownInv'
  BY <1>0, <1>13 DEF ShownInv
<1>14. CASE Grant \/ (\E x \in Contexts : Evict(x) \/ Flush(x)) \/ UNCHANGED vars
  BY <1>13, <1>14 DEF Grant, Evict, Flush, vars
<1>15. ASSUME NEW c \in Clients, DetachedEnds(c) PROVE ShownInv'
  BY <1>13, <1>15 DEF DetachedEnds
<1> HIDE DEF Holds
<1> QED
  BY <1>6, <1>7, <1>8, <1>9, <1>10, <1>11, <1>12, <1>14, <1>15 DEF Next, Serve
-----------------------------------------------------------------------------
\* Every step keeps the invariant.
LEMMA NextIInv == IInv /\ [Next]_vars => IInv'
BY TypeStep, PermitStep, LineStep, LoaderStep, FileStep, GrowStep, ShownStep DEF IInv

(* The inductive invariant holds in every reachable state. *)
THEOREM Invariance == Spec => []IInv
BY InitIInv, NextIInv, PTL DEF Spec

(* NvtxTaskLimiter never has more tasks on the pool than permits, though   *)
(* requests go away while their tasks run; nobody is in line twice or      *)
(* while his task runs; a context is loaded by one request; and no model   *)
(* holds more than its file. *)
THEOREM TypeCorrect == Spec => []TypeOK
<1>1. IInv => TypeOK
  BY DEF IInv, PermitInv, LineInv, LoaderInv, FileInv, TypeOK
<1> QED
  BY Invariance, <1>1, PTL

(* Whom a request waits for: for a permit it is in line or at work, for a  *)
(* load it has a loader that is, and while anyone is in line a permit is   *)
(* free or a task will give one back.  With the fairness of the pool and   *)
(* of the semaphore this is why requests return.                           *)
NobodyForgotten ==
  /\ \A c \in Clients : Waits(c) => c \in ToSet(queue) \cup running
  /\ \A c \in Clients : req[c].pc = "joined" =>
       \E l \in Clients : /\ req[l].pc = "loading" /\ req[l].ctx = req[c].ctx
                         /\ l \in ToSet(queue) \cup running
  /\ permits = 0 => running # {}

(* It is so whoever goes away, and when. *)
THEOREM WaitersAreServed == Spec => []NobodyForgotten
<1>1. IInv => NobodyForgotten
  <2> SUFFICES ASSUME IInv PROVE NobodyForgotten
    OBVIOUS
  <2>1. \A c \in Clients : Waits(c) => c \in ToSet(queue) \cup running
    BY DEF IInv, LineInv
  <2>2. ASSUME NEW c \in Clients, req[c].pc = "joined"
        PROVE  \E l \in Clients : /\ req[l].pc = "loading" /\ req[l].ctx = req[c].ctx
                                 /\ l \in ToSet(queue) \cup running
    <3>1. req[c].ctx \in Contexts /\ loader[req[c].ctx] \in Clients
      BY <2>2 DEF IInv, TypeInv, LoaderInv
    <3>2. req[loader[req[c].ctx]].pc = "loading" /\ req[loader[req[c].ctx]].ctx = req[c].ctx
      BY <3>1, ValuesAssumption DEF IInv, LoaderInv
    <3> QED
      BY <2>1, <3>1, <3>2 DEF Waits
  <2>3. permits = 0 => running # {}
    BY FS_EmptySet, PermitsAssumption DEF IInv, PermitInv
  <2> QED
    BY <2>1, <2>2, <2>3 DEF NobodyForgotten
<1> QED
  BY Invariance, <1>1, PTL

(* A client's viewport comes from a model that holds all its catalog had,  *)
(* though in between the model may have been evicted and loaded again, by  *)
(* another client, from a file still being written.                        *)
CatalogsHold ==
  \A c \in Clients : req[c].shown # None => req[c].known # None /\ req[c].known <= req[c].shown

(* Models go away and come back, and never go back in time for a client.   *)
THEOREM ViewportsNeverOlder == Spec => []CatalogsHold
<1>1. IInv => CatalogsHold
  BY DEF IInv, ShownInv, CatalogsHold
<1> QED
  BY Invariance, <1>1, PTL
=============================================================================
