---------------------------- MODULE NvtxServer -----------------------------
(***************************************************************************)
(* The NVTX server (integrations/nvtx/server) and what it answers with     *)
(* (integrations/nvtx/ui): clients ask for the catalog of a context and    *)
(* then for a viewport with the catalog's selections.  A context's model   *)
(* is loaded once for all who ask, kept until it is evicted, and made, as  *)
(* the answers are, on the blocking pool, under a permit of a semaphore.   *)
(* A client may go away at any time; what it has on the pool goes on.      *)
(*                                                                         *)
(* The models and the catalogs are functions of what was imported, so the  *)
(* cache holds how much of a stream that was; origin, window and           *)
(* selections of a request steer nothing but its answer, and are           *)
(* quantified over in the properties.                                      *)
(***************************************************************************)
EXTENDS NvtxModel

CONSTANTS Clients, Contexts,
          Failed,       \* an import that failed
          Streams,      \* what a context may have captured
          Permits,      \* MAX_CONCURRENT_MODEL_TASKS
          MaxRequests,  \* bound: requests of a client
          MaxTime,      \* the greatest timestamp
          Sizes,        \* bound: the sizes at which a file is read
          Origins, Windows, Selections \* of the requests the properties look at

ASSUME PermitsAssumption == Permits \in Nat \ {0} /\ MaxRequests \in Nat
ASSUME ValuesAssumption == /\ None \notin Clients
                           /\ Sizes \subseteq Nat /\ {None, Failed} \cap Sizes = {}

VARIABLES stream,   \* what each context captures
          file,     \* how much of it is in its file; None without a directory
          models,   \* NvtxModelCache: how much was loaded of each context, or None
          loader,   \* the client that loads a context, for all that joined it
          queue,    \* clients in line for a permit
          running,  \* the clients that have a task on the blocking pool
          permits,  \* free permits
          req       \* the request of each client

vars == <<stream, file, models, loader, queue, running, permits, req>>

(* got is how much of the stream the request's model, or its load, has     *)
(* read (Failed when the importer failed); known is that of the last     *)
(* catalog, shown that of the last viewport. *)
NoRequest == [pc |-> "idle", ctx |-> None, got |-> None, known |-> None,
              shown |-> None, left |-> MaxRequests]

TypeOK ==
  /\ \A x \in Contexts : models[x] # None => file[x] # None /\ models[x] <= file[x]
  /\ \A x \in Contexts : loader[x] # None => /\ req[loader[x]].pc = "loading"
                                             /\ req[loader[x]].ctx = x
  /\ permits \in 0..Permits
  /\ permits + Cardinality(running) = Permits
  /\ IsInjective(queue) /\ ToSet(queue) \cap running = {}

Init == /\ stream \in [Contexts -> Streams]
        /\ file = [x \in Contexts |-> None]
        /\ models = [x \in Contexts |-> None]
        /\ loader = [x \in Contexts |-> None]
        /\ queue = <<>>
        /\ running = {}
        /\ permits = Permits
        /\ req = [c \in Clients |-> NoRequest]
-----------------------------------------------------------------------------
(* catalog, or viewport once the client has a catalog of the context. *)
Ask(c) ==
  /\ req[c].pc = "idle" /\ req[c].left > 0
  /\ \E x \in Contexts :
       /\ req[c].known # None => x = req[c].ctx
       /\ req' = [req EXCEPT ![c].pc = "get", ![c].ctx = x, ![c].got = None,
                             ![c].left = @ - 1]
  /\ UNCHANGED <<stream, file, models, loader, queue, running, permits>>

(* NvtxModelCache::get: or_try_insert_with finds a model, joins a load, or *)
(* starts one, which first waits for a permit. *)
Get(c) ==
  LET x == req[c].ctx
  IN /\ req[c].pc = "get"
     /\ \/ /\ models[x] # None
           /\ req' = [req EXCEPT ![c].pc = "ready", ![c].got = models[x]]
           /\ UNCHANGED <<loader, queue>>
        \/ /\ models[x] = None /\ loader[x] # None
           /\ req' = [req EXCEPT ![c].pc = "joined"]
           /\ UNCHANGED <<loader, queue>>
        \/ /\ models[x] = None /\ loader[x] = None
           /\ loader' = [loader EXCEPT ![x] = c]
           /\ queue' = Append(queue, c)
           /\ req' = [req EXCEPT ![c].pc = "loading"]
     /\ UNCHANGED <<stream, file, models, running, permits>>

(* NvtxTaskLimiter::run, the semaphore is fair: the task gets a permit and *)
(* is spawned. *)
Grant ==
  /\ queue # <<>> /\ permits > 0
  /\ permits' = permits - 1
  /\ running' = running \cup {Head(queue)}
  /\ queue' = Tail(queue)
  /\ UNCHANGED <<stream, file, models, loader, req>>

(* import_context_events, on the pool: no directory is an error as well.   *)
Import(c) ==
  /\ c \in running /\ req[c].pc = "loading" /\ req[c].got = None
  /\ \E n \in {file[req[c].ctx], Failed} :
       req' = [req EXCEPT ![c].got = IF n = None THEN Failed ELSE n]
  /\ UNCHANGED <<stream, file, models, loader, queue, running, permits>>

Release(c) == /\ running' = running \ {c}
              /\ permits' = permits + 1

(* The load's end is the end of the request of all that joined, or their   *)
(* model.  An error is not cached. *)
LoadEnds(c) ==
  LET x  == req[c].ctx
      n  == req[c].got
      us == {c} \cup {b \in Clients : req[b].pc = "joined" /\ req[b].ctx = x}
  IN /\ c \in running /\ req[c].pc = "loading" /\ n # None
     /\ Release(c)
     /\ loader' = [loader EXCEPT ![x] = None]
     /\ IF n = Failed
          THEN /\ req' = [b \in Clients |-> IF b \in us THEN [req[b] EXCEPT !.pc = "idle"]
                                                        ELSE req[b]]
               /\ UNCHANGED models
          ELSE /\ models' = [models EXCEPT ![x] = n]
               /\ req' = [b \in Clients |->
                            IF b \in us THEN [req[b] EXCEPT !.pc = "ready", !.got = n]
                                        ELSE req[b]]
     /\ UNCHANGED <<stream, file, queue>>

(* catalog and viewport: the answer needs a permit of its own. *)
Queue(c) ==
  /\ req[c].pc = "ready"
  /\ req' = [req EXCEPT ![c].pc = "answering"]
  /\ queue' = Append(queue, c)
  /\ UNCHANGED <<stream, file, models, loader, running, permits>>

Answer(c) ==
  /\ c \in running /\ req[c].pc = "answering"
  /\ Release(c)
  /\ req' = [req EXCEPT ![c].pc = "idle",
                        ![c].known = IF @ = None THEN req[c].got ELSE @,
                        ![c].shown = IF req[c].known = None THEN @ ELSE req[c].got]
  /\ UNCHANGED <<stream, file, models, loader, queue>>

(* Mutant: those that joined a load are not woken when it is dropped. *)
GoneUnnoticed(c, b) == FALSE

(* Does the load b joined go with c. *)
LosesLoader(c, b) == /\ req[b].pc = "joined"
                     /\ loader[req[b].ctx] = c

(* Mutant: the permit goes with the request. *)
StopsTask(c) == running \ {c}

(* The task keeps its permit until it exits. *)
TasksAfter(c) == running

(* The client goes away and its handler is dropped: it leaves the line,    *)
(* and if it was loading, those that joined it start over.  A task that    *)
(* runs is not stopped. *)
Cancel(c) ==
  /\ req[c].pc \notin {"idle", "gone"}
  /\ req' = [b \in Clients |-> IF b = c THEN [req[b] EXCEPT !.pc = "gone"]
                               ELSE IF LosesLoader(c, b) THEN [req[b] EXCEPT !.pc = "get"]
                               ELSE req[b]]
  /\ loader' = [x \in Contexts |-> IF loader[x] = c THEN None ELSE loader[x]]
  /\ queue' = RemoveFirst(queue, c)
  /\ running' = TasksAfter(c)
  /\ UNCHANGED <<stream, file, models, permits>>

DetachedEnds(c) == /\ c \in running /\ req[c].pc = "gone"
                   /\ Release(c)
                   /\ UNCHANGED <<stream, file, models, loader, queue, req>>

(* Idle for a day, or displaced: at most 128 models are kept. *)
Evict(x) == /\ models[x] # None
            /\ models' = [models EXCEPT ![x] = None]
            /\ UNCHANGED <<stream, file, loader, queue, running, permits, req>>

(* The exporter makes the directory and writes on while the server runs. *)
Flush(x) == /\ \E n \in Sizes :
                 /\ n <= Len(stream[x])
                 /\ file[x] # None => file[x] < n
                 /\ file' = [file EXCEPT ![x] = n]
            /\ UNCHANGED <<stream, models, loader, queue, running, permits, req>>

Serve(c) == Get(c) \/ Import(c) \/ LoadEnds(c) \/ Queue(c) \/ Answer(c) \/ DetachedEnds(c)

Next == \/ Grant
        \/ \E c \in Clients : Ask(c) \/ Serve(c) \/ Cancel(c)
        \/ \E x \in Contexts : Evict(x) \/ Flush(x)

(* Fairness: tokio polls what is ready, the pool runs what is spawned, and *)
(* permits are given in the order they were asked for. *)
Spec == Init /\ [][Next]_vars /\ WF_vars(Grant) /\ \A c \in Clients : WF_vars(Serve(c))
-----------------------------------------------------------------------------
(* The catalog (NvtxCatalog::from_model): what each domain has to select   *)
(* from, and the bounds of the trace relative to the origin.               *)

Model(x, n) == Build(SubSeq(stream[x], 1, n))

IsRange(s) == s.class # "resource"

(* Mutant: only ranges are looked at. *)
RangesOnly(m) == {s.domain : s \in {r \in ToSet(m.slots) : IsRange(r) /\ r.cat = None}}

(* The domains with ranges or marks of no category. *)
Uncategorized(m) ==
  {s.domain : s \in {r \in ToSet(m.slots) : IsRange(r) /\ r.cat = None}
                    \cup {k \in ToSet(m.marks) : k.cat = None}}

Catalog(m, origin) ==
  [origin |-> origin, start |-> m.start - origin, end |-> m.end - origin,
   domains |-> [d \in m.domains |->
                  [categories    |-> {p[2] : p \in {q \in m.categories : q[1] = d}},
                   uncategorized |-> d \in Uncategorized(m)]]]

(* A selection: sequence of a domain, categories, and whether to include   *)
(* what has none. *)
select_all(cat) ==
  LET some == {d \in DOMAIN cat.domains : \/ cat.domains[d].categories # {}
                                          \/ cat.domains[d].uncategorized}
  IN SetToSeq({[domain |-> d, categories |-> cat.domains[d].categories,
                none |-> cat.domains[d].uncategorized] : d \in some})

(* canonicalize_request, without the order it gives: what is wrong. *)
Refused(cat, selections, w) ==
  \/ w.start > w.end
  \/ \E i, j \in DOMAIN selections : i # j /\ selections[i].domain = selections[j].domain
  \/ \E s \in ToSet(selections) :
       \/ s.categories = {} /\ ~s.none
       \/ s.domain \notin DOMAIN cat.domains
       \/ ~(s.categories \subseteq cat.domains[s.domain].categories)
       \/ s.none /\ ~cat.domains[s.domain].uncategorized

(* absolute_viewport: None below zero and above what a timestamp holds. *)
absolute_viewport(w, epoch) ==
  IF {epoch + w.start, epoch + w.end} \subseteq 0..MaxTime
    THEN [start |-> epoch + w.start, end |-> epoch + w.end] ELSE None

selected(selections, item) ==
  \E s \in ToSet(selections) :
    s.domain = item.domain /\ IF item.cat = None THEN s.none ELSE item.cat \in s.categories

intersects(start, end, v) == start <= v.end /\ end >= v.start

Least(a, b) == IF a < b THEN a ELSE b
Greatest(a, b) == IF a < b THEN b ELSE a

EffectiveEnd(m, s) == IF s.end = None THEN m.end ELSE s.end

(* Mutant: a range is as deep as its thread's open ranges, of any domain. *)
DepthOfThread(m) ==
  [i \in DOMAIN m.slots |-> Cardinality({j \in 1..(i - 1) :
     /\ m.slots[j].class = "stack" /\ m.slots[j].thread = m.slots[i].thread
     /\ EffectiveEnd(m, m.slots[j]) > m.slots[i].start})]

(* span_depths_for: how many parents a span has.  A parent's slot is       *)
(* earlier than its children's, so no chain is a cycle. *)
span_depths(m) ==
  LET depth[i \in DOMAIN m.slots] ==
        IF m.slots[i].parent = None THEN 0 ELSE depth[m.slots[i].parent] + 1
  IN depth

(* A lane: of a thread and depth, of the process's ranges, or of marks. *)
Lane(kind, d, t, n) == [kind |-> kind, domain |-> d, thread |-> t, depth |-> n]

(* NvtxViewportResponse::from_model_with_catalog: the ranges in the window *)
(* by lane and clipped to it, the marks, and each group's statistics of    *)
(* what it shows (StatisticsAccumulator). *)
View(m, cat, selections, w) ==
  LET v     == absolute_viewport(w, cat.origin)
      depth == span_depths(m)
      shown == {i \in DOMAIN m.slots :
                  LET s == m.slots[i]
                  IN /\ IsRange(s) /\ selected(selections, s)
                     /\ intersects(s.start, EffectiveEnd(m, s), v)}
      LaneOf(i) == LET s == m.slots[i]
                   IN IF s.class = "stack" THEN Lane("thread", s.domain, s.thread, depth[i])
                                           ELSE Lane("process", s.domain, None, 0)
      Item(i) == LET s == m.slots[i]
                 IN [id |-> i, incomplete |-> s.end = None,
                     start |-> Greatest(s.start, v.start) - cat.origin,
                     end |-> Least(EffectiveEnd(m, s), v.end) - cat.origin]
      marks == {k \in ToSet(m.marks) : selected(selections, k) /\ k.ts \in v.start..v.end}
      GroupOf(i) == LET s == m.slots[i] IN <<s.domain, s.cat, s.name>>
      Stats(g) ==
        LET mine  == {i \in shown : GroupOf(i) = g}
            ended == {i \in mine : m.slots[i].end # None}
            Duration(i) == Greatest(0, Least(m.slots[i].end, v.end)
                                       - Greatest(m.slots[i].start, v.start))
        IN [count |-> Cardinality(mine), observed |-> Cardinality(ended),
            total |-> FoldSet(LAMBDA i, acc : acc + Duration(i), 0, ended)]
  IN IF Refused(cat, selections, w) \/ v = None THEN None
     ELSE [lanes |-> [l \in {LaneOf(i) : i \in shown} |->
                        {Item(i) : i \in {j \in shown : LaneOf(j) = l}}],
           marks |-> marks,
           statistics |-> [g \in {GroupOf(i) : i \in shown} |-> Stats(g)]]
-----------------------------------------------------------------------------
(* Every request is answered unless its client leaves: no permit is held   *)
(* while another is awaited, and nobody waits for a load that was dropped. *)
RequestsReturn ==
  \A c \in Clients : req[c].pc # "idle" ~> req[c].pc \in {"idle", "gone"}

Viewed == {c \in Clients : req[c].shown # None /\ req[c].pc = "idle"}

(* The explicit initial state of the front-end, "every catalog option      *)
(* selected": a selection made from an earlier catalog is not refused by   *)
(* the model of today, though it may have been loaded again; and if it is  *)
(* the same model, the whole window shows every range and mark once.       *)
SelectAllShowsAll ==
  \A c \in Viewed, o \in Origins :
    LET old == Catalog(Model(req[c].ctx, req[c].known), o)
        m   == Model(req[c].ctx, req[c].shown)
        now == Catalog(m, o)
        w   == [start |-> now.start, end |-> now.end]
        out == View(m, now, select_all(old), w)
        ids == UNION {{r.id : r \in out.lanes[l]} : l \in DOMAIN out.lanes}
    IN /\ out # None
       /\ req[c].known = req[c].shown =>
            /\ out.marks = ToSet(m.marks)
            /\ ids = {i \in DOMAIN m.slots : IsRange(m.slots[i])}

(* How many ranges of a push's stack are open when it comes, counted from  *)
(* the stream. *)
Height(events, e) ==
  LET before == SelectSeq(events, LAMBDA x : x.class = "stack" /\ SameStack(x, e))
      Up(h, x) == IF x.kind = "push" THEN h + 1 ELSE Greatest(h - 1, 0)
      k == CHOOSE i \in DOMAIN before : before[i] = e
  IN FoldLeft(Up, 0, SubSeq(before, 1, k - 1))

(* What a viewport shows can be drawn and is the stream's: the ranges of a *)
(* lane lie in the window and do not overlap, a push is in the lane of its *)
(* nesting, a name registered anywhere in the stream is the one of its own *)
(* domain, and the statistics are those of the ranges on screen. *)
LanesAreTrue ==
  \A c \in Viewed :
    LET x      == req[c].ctx
        m      == Model(x, req[c].shown)
        events == Ordered(SubSeq(stream[x], 1, req[c].shown))
        Source(s) == CHOOSE e \in ToSet(events) :
                       /\ e.kind \in {"push", "open"} /\ e.ts = s.start
                       /\ e.domain = s.domain /\ e.class = s.class /\ e.thread = s.thread
    IN \A o \in Origins, w \in Windows, sel \in Selections :
         LET cat == Catalog(m, o)
             out == View(m, cat, sel, w)
             Shown(r) == m.slots[r.id]
         IN out # None =>
              /\ \A l \in DOMAIN out.lanes : \A r \in out.lanes[l] :
                   /\ w.start <= r.start /\ r.start <= r.end /\ r.end <= w.end
                   /\ selected(sel, Shown(r))
                   /\ \A q \in ToSet(events) : q.kind = "register" =>
                        /\ Shown(r).name # q.key \/ Shown(r).domain # q.domain
                        /\ Shown(r).name = q.name => Shown(r).domain = q.domain
                   /\ l.kind = "thread" =>
                        /\ l.depth = Height(events, Source(Shown(r)))
                        /\ \A q \in out.lanes[l] \ {r} : q.end <= r.start \/ r.end <= q.start
              /\ \A g \in DOMAIN out.statistics :
                   LET rs == {r \in UNION {out.lanes[l] : l \in DOMAIN out.lanes} :
                                /\ <<Shown(r).domain, Shown(r).cat, Shown(r).name>> = g}
                   IN /\ out.statistics[g].count = Cardinality(rs)
                      /\ out.statistics[g].total =
                           FoldSet(LAMBDA r, acc : acc + (IF r.incomplete THEN 0
                                                          ELSE r.end - r.start), 0, rs)
=============================================================================
