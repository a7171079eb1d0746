------------------------------ MODULE Simulator ------------------------------
(***************************************************************************)
(* The example engine of the repository, from the events it emits to the   *)
(* model rebuilt from them.                                                *)
(*                                                                         *)
(* examples/simulator/application: the main thread starts the resources,   *)
(* runs queries one after the other and shuts the resources down; within a *)
(* query every worker is a scoped thread that runs its physical plan on    *)
(* scoped threads of its own, each of which emits one task FSM per task    *)
(* and operator and counts it in the operator's atomic counter.            *)
(* crates/analyzer and examples/simulator/analyzer: FsmEvents rebuilt from *)
(* the events, resources, operators, and the binned data-flow timeline.    *)
(*                                                                         *)
(* Time is in ticks of the clock that stamps the events, which does not go *)
(* back.  The file system and its two channels start, stop and are used    *)
(* the way the memory of a worker is and are left out.                     *)
(***************************************************************************)
EXTENDS TimeOrdered, FiniteSets, FiniteSetsExt

CONSTANTS Args,       \* runs: [workers, threads, tasks, queries] of the command line and plan,
                      \* the operators' kinds of a physical plan in topological order
          None,
          Bytes,      \* sizes of what a task allocates or sends
          MaxTime,    \* bound: the clock's last value
          Views,      \* what is asked of the chart: <<from, to, number of bins>>
          MaxNs       \* the last timestamp of the integer type

ASSUME ArgsAssumption ==
    \A a \in Args : /\ IsFiniteSet(a.workers) /\ a.workers # {} /\ a.threads \in Nat \ {0}
                    /\ a.tasks \in Nat /\ a.queries \in Nat /\ a.plan \in Seq(STRING) /\ a.plan # <<>>
ASSUME TimeAssumption == MaxTime \in Nat /\ MaxNs \in Nat /\ MaxTime <= MaxNs

VARIABLES args,
          now,        \* the clock
          main,       \* [pc, query, left]: the main thread; left: resources to start or stop
          pc,         \* worker -> where it is in execute_logical_plan
          at,         \* thread -> <<task index, position in the plan>>, None: joined
          task,       \* task -> its transitions in the order they were emitted
          resource,   \* resource -> its transitions
          query,      \* query -> its transitions
          processed,  \* operator -> tasks_processed
          statistics, \* operator -> the tasks_processed its statistics carry
          did         \* history: what each thread was doing, tick by tick
vars == <<args, now, main, pc, at, task, resource, query, processed, statistics, did>>

Threads == args.workers \X (1..args.threads)
Links == {l \in args.workers \X {"to"} \X args.workers : l[1] # l[3]}
Memory(w) == <<w>>
Resources == Links \union Threads \union {Memory(w) : w \in args.workers}
Queries == 1..args.queries
Operators == Queries \X args.workers \X (1..Len(args.plan))
\* A task is named by its operator, its thread and its index.
Tasks == Operators \X (1..args.threads) \X (1..args.tasks)
Event(name) == [ts |-> now, name |-> name, uses |-> {}, bytes |-> 0]

(***************************************************************************)
(* The application.                                                        *)
(***************************************************************************)
Init == /\ args \in Args /\ now = 0
        /\ main = [pc |-> "spawn", query |-> 0, left |-> Resources]
        /\ pc = [w \in args.workers |-> "joined"]
        /\ at = [x \in Threads |-> None]
        /\ task = [x \in Tasks |-> <<>>]
        /\ resource = [r \in Resources |-> <<>>]
        /\ query = [q \in Queries |-> <<>>]
        /\ processed = [o \in Operators |-> 0]
        /\ statistics = [o \in Operators |-> None]
        /\ did = <<>>

\* Workers' resources start before the network and stop after it.
Following(first) == LET f == main.left \intersect first
                    IN CHOOSE r \in main.left : f # {} => r \in f
Transition(r, name) == resource' = [resource EXCEPT ![r] = Append(@, Event(name))]

\* Engine::spawn: initializing and operating, one resource after the other.
Spawn ==
    /\ main.pc = "spawn" /\ main.left # {}
    /\ LET r == Following(Resources \ Links)
       IN IF resource[r] = <<>> THEN Transition(r, "initializing") /\ UNCHANGED main
          ELSE Transition(r, "operating") /\ main' = [main EXCEPT !.left = @ \ {r}]
    /\ UNCHANGED <<args, now, pc, at, task, query, processed, statistics, did>>

\* One query after the other, each through the states of its FSM.
NextQuery ==
    /\ main.pc = "spawn" /\ main.left = {} /\ main.query < args.queries
    /\ main' = [main EXCEPT !.pc = "query", !.query = @ + 1]
    /\ query' = [query EXCEPT ![main.query + 1] = <<Event("init")>>]
    /\ UNCHANGED <<args, now, pc, at, task, resource, processed, statistics, did>>

Stage == <<"init", "planning", "executing">>
AdvanceQuery ==
    LET n == Len(query[main.query])
    IN /\ main.pc = "query" /\ n < 3
       /\ query' = [query EXCEPT ![main.query] = Append(@, Event(Stage[n + 1]))]
       /\ pc' = IF n = 2 THEN [w \in args.workers |-> "lowering"] ELSE pc
       /\ UNCHANGED <<args, now, main, at, task, resource, processed, statistics, did>>

\* Worker::execute_logical_plan: the plan is lowered and the threads are spawned.
Share(k) == LET n == args.tasks \div args.threads IN ((k - 1) * n + 1)..(k * n)
StartPlan(w) ==
    /\ pc[w] = "lowering"
    /\ pc' = [pc EXCEPT ![w] = "running"]
    /\ at' = [x \in Threads |-> IF x[1] # w THEN at[x]
                                ELSE IF Share(x[2]) = {} THEN None ELSE <<Min(Share(x[2])), 1>>]
    /\ UNCHANGED <<args, now, main, task, resource, query, processed, statistics, did>>

Current(x) == <<<<main.query, x[1], at[x][2]>>, x[2], at[x][1]>>
Names(s) == {s[i].name : i \in DOMAIN s}
Sent(s) == Cardinality({i \in DOMAIN s : s[i].name = "sending"})

\* execute_physical_operator_task: what a task may enter after the states it went through.
After(s, kind, peers) ==
    IF s = <<>> THEN {"queueing"}
    ELSE LET last == s[Len(s)].name
         IN CASE last \in {"queueing", "spilling"} -> {"allocating"}
              [] last = "allocating" -> IF kind = "JoinLocal" /\ "spilling" \notin Names(s)
                                        THEN {"spilling"} ELSE {"loading", "computing"}
              [] last = "loading" -> {"computing"}
              [] OTHER -> IF kind = "JoinPartition" /\ Sent(s) < Cardinality(peers)
                          THEN {"sending"} ELSE {"exit"}

\* The resources a state of a task uses: its thread, the memory, the link to the next peer.
UsedIn(name, x, s) ==
    LET peers == SetToSeq(args.workers \ {x[1]})
    IN CASE name \in {"queueing", "exit"} -> {}
         [] name \in {"loading", "computing"} -> {x, Memory(x[1])}
         [] name = "sending" -> {x, <<x[1], "to", peers[Sent(s) + 1]>>}
         [] OTHER -> {x}

Emit(x) ==
    /\ at[x] # None
    /\ LET c == Current(x)
           s == task[c]
       IN /\ "exit" \notin Names(s)
          /\ \E name \in After(s, args.plan[at[x][2]], args.workers \ {x[1]}) :
             \E b \in IF UsedIn(name, x, s) \subseteq {x} THEN {0} ELSE Bytes :
                task' = [task EXCEPT ![c] = Append(@, [Event(name) EXCEPT !.uses = UsedIn(name, x, s),
                                                                          !.bytes = b])]
    /\ UNCHANGED <<args, now, main, pc, at, resource, query, processed, statistics, did>>

\* The task is counted, and the thread goes on to the next operator or the next task.
Count(x) ==
    /\ at[x] # None /\ "exit" \in Names(task[Current(x)])
    /\ processed' = [processed EXCEPT ![Current(x)[1]] = @ + 1]
    /\ at' = [at EXCEPT ![x] = IF @[2] < Len(args.plan) THEN <<@[1], @[2] + 1>>
                               ELSE IF @[1] + 1 \in Share(x[2]) THEN <<@[1] + 1, 1>> ELSE None]
    /\ UNCHANGED <<args, now, main, pc, task, resource, query, statistics, did>>

\* thread::scope returns when every thread spawned in it has ended.
SomeEnded(w) == \E k \in 1..args.threads : at[<<w, k>>] = None              \* mutant
ScopeEnds(w) == \A k \in 1..args.threads : at[<<w, k>>] = None

\* After its scope the worker logs the statistics of its operators, one after the other.
LogStatistics(w) ==
    /\ pc[w] = "running" /\ ScopeEnds(w)
    /\ LET left == {i \in 1..Len(args.plan) : statistics[<<main.query, w, i>>] = None}
           o == <<main.query, w, Min(left)>>
       IN IF left = {} THEN pc' = [pc EXCEPT ![w] = "joined"] /\ UNCHANGED statistics
          ELSE statistics' = [statistics EXCEPT ![o] = processed[o]] /\ UNCHANGED pc
    /\ UNCHANGED <<args, now, main, at, task, resource, query, processed, did>>

SomeJoined == \E w \in args.workers : pc[w] = "joined"                      \* mutant
AllJoined == \A w \in args.workers : pc[w] = "joined"

EndQuery ==
    /\ main.pc = "query" /\ Len(query[main.query]) = 3 /\ AllJoined
    /\ query' = [query EXCEPT ![main.query] = Append(@, Event("exit"))]
    /\ main' = IF main.query < args.queries THEN [main EXCEPT !.pc = "spawn"]
               ELSE [main EXCEPT !.pc = "shut_down", !.left = Resources]
    /\ UNCHANGED <<args, now, pc, at, task, resource, processed, statistics, did>>

\* Engine::shut_down: finalizing and exit, one resource after the other.
ShutDown ==
    /\ main.pc = "shut_down" /\ main.left # {}
    /\ LET r == Following(Links)
       IN IF Len(resource[r]) = 2 THEN Transition(r, "finalizing") /\ UNCHANGED main
          ELSE Transition(r, "exit") /\ main' = [main EXCEPT !.left = @ \ {r}]
    /\ UNCHANGED <<args, now, pc, at, task, query, processed, statistics, did>>

Ended == main.pc = "shut_down" /\ main.left = {}
\* Every query has ended; what shutting down adds is in no chart and no list.
Answerable == main.pc = "shut_down" /\ \A r \in Resources : Len(resource[r]) = 2

\* What a thread is doing: its task and the state the task is in.
Doing(x) == IF at[x] = None \/ task[Current(x)] = <<>> \/ "exit" \in Names(task[Current(x)]) THEN None
            ELSE [of |-> Current(x), in |-> Last(task[Current(x)])]
\* From when the first query starts to when the run has ended.
Tick == /\ now < MaxTime /\ main.query > 0 /\ ~Ended
        /\ now' = now + 1
        /\ did' = Append(did, [x \in Threads |-> Doing(x)])
        /\ UNCHANGED <<args, main, pc, at, task, resource, query, processed, statistics>>

Next == \/ Spawn \/ NextQuery \/ AdvanceQuery \/ EndQuery \/ ShutDown \/ Tick
        \/ \E w \in args.workers : StartPlan(w) \/ LogStatistics(w)
        \/ \E x \in Threads : Emit(x) \/ Count(x)
Spec == Init /\ [][Next]_vars

-----------------------------------------------------------------------------
(***************************************************************************)
(* The analyzer.                                                           *)
(***************************************************************************)
\* RtResourceBuilder::try_build
ResourceBuilds(s) == Len(s) >= 4 /\ s[1].name = "initializing" /\ s[Len(s)].name = "exit"
\* SimulatorModelBuilder::try_build: one resource that does not build fails the model.
Builds == /\ \A r \in Resources : resource[r] # <<>> => ResourceBuilds(Ordered(resource[r]))
          /\ \A x \in Tasks : \A i \in DOMAIN task[x] : \A r \in task[x][i].uses : resource[r] # <<>>

\* FsmEvents: a state lasts from its transition to the next one.
States(s) == LET f == Ordered(s)
             IN {[in |-> f[i], from |-> f[i].ts, to |-> f[i + 1].ts, nth |-> i] : i \in 1..(Len(f) - 1)}
Rebuilt(o) == {x \in Tasks : x[1] = o /\ task[x] # <<>>}

\* TaskExt::active_span, from the second transition on; Operator::extend_active_span
Drawn(o) == {f \in {Ordered(task[x]) : x \in Rebuilt(o)} : Len(f) >= 2}
Active(o) == [from |-> Min({f[2].ts : f \in Drawn(o)}), to |-> Max({Last(f).ts : f \in Drawn(o)})]

(* crates/time/src/bin.rs *)
Sat(n) == Min({n, MaxNs})
try_new(from, to, n) ==
    LET size == (to - from + n - 1) \div n
        end == Sat(from + Sat(n * size))
    IN [from |-> Max({end - Sat(n * size), 0}), to |-> end, size |-> size, n |-> n]
index_of(v, t) == IF t < v.from \/ (t - v.from) \div v.size >= v.n THEN None ELSE (t - v.from) \div v.size
iter_indices(v, s) ==
    LET a == index_of(v, s.from)
        b == IF s.to = 0 THEN None ELSE index_of(v, s.to - 1)
    IN IF a = None /\ b = None THEN IF v.from >= s.from /\ v.to <= s.to THEN 0..(v.n - 1) ELSE {}
       ELSE (IF a = None THEN 0 ELSE a)..(IF b = None THEN v.n - 1 ELSE b)
\* Only the first and the last bin may be covered in part.
LastIsFull(v, s, i) ==                                                      \* mutant
    LET is == iter_indices(v, s)
    IN IF i \notin is THEN 0 ELSE v.from + (i + 1) * v.size - Max({s.from, v.from + i * v.size})
Covered(v, s, i) ==
    LET is == iter_indices(v, s)
    IN IF i \notin is THEN 0
       ELSE IF i \in {Min(is), Max(is)}
            THEN Min({s.to, v.from + (i + 1) * v.size}) - Max({s.from, v.from + i * v.size})
            ELSE v.size

\* UnitAggregator::try_push: a bin adds the weight times the part of it the span covers
\* (in ticks here: times the size of the bin); a span that takes no time is skipped.
Binned(v, spans, weight) ==
    LET lasting == {s \in spans : s.to > s.from}
    IN [i \in 0..(v.n - 1) |-> MapThenSumSet(LAMBDA s : Covered(v, s, i) * weight[s], lasting)]

(* data_flow_timeline: the cells of an operator, by state and where its data is. *)
Dimension(e) == IF \E w \in args.workers : Memory(w) \in e.uses THEN "Memory" ELSE None
Resident(e) == IF Dimension(e) = None THEN 0 ELSE e.bytes
Samples(o) == UNION {{s @@ [of |-> x] : s \in States(task[x])} : x \in Rebuilt(o)}
Key(e) == <<e.name, Dimension(e)>>
data_flow_timeline(v, o) ==
    LET samples == Samples(o)
        Cell(k) == {s \in samples : Key(s.in) = k}
    IN [k \in {Key(s.in) : s \in samples} |->
           [tasks |-> Binned(v, Cell(k), [s \in Cell(k) |-> 1]),
            bytes |-> Binned(v, Cell(k), [s \in Cell(k) |-> Resident(s.in)])]]
-----------------------------------------------------------------------------
(***************************************************************************)
(* Correctness.                                                            *)
(***************************************************************************)
\* What the threads did in bin i of the view, by what they did it with.
DidIn(v, i, o, k) ==
    {e \in ((v.from + i * v.size + 1)..(v.from + (i + 1) * v.size) \intersect DOMAIN did) \X Threads :
        LET d == did[e[1]][e[2]] IN d # None /\ d.of[1] = o /\ Key(d.in) = k}

(* The data-flow chart of a finished run shows, in every bin, the time the  *)
(* threads really spent in every state of every operator and the bytes they *)
(* held for as long as they held them: no tick is lost, counted twice or    *)
(* put in a neighbouring bin or state (data_flow_timeline, FsmEvents,       *)
(* UnitAggregator, BinnedSpan).                                             *)
DataFlowIsTrue ==
    Answerable => \A r \in Views, o \in Operators :
        LET v == try_new(r[1], r[2], r[3])
            shown == data_flow_timeline(v, o)
            done == {Key(d.in) : d \in {c \in UNION {{did[n][x] : x \in Threads} : n \in DOMAIN did} :
                                          c # None /\ c.of[1] = o}}
        IN /\ done \subseteq DOMAIN shown
           /\ \A k \in DOMAIN shown, i \in 0..(v.n - 1) :
                LET truth == DidIn(v, i, o, k)
                IN /\ shown[k].tasks[i] = Cardinality(truth)
                   /\ shown[k].bytes[i] = MapThenSumSet(LAMBDA e : Resident(did[e[1]][e[2]].in), truth)

(* The tasks_processed an operator's statistics carry is the number of its  *)
(* tasks that ran to their exit, then and ever after: the counter is read   *)
(* after every thread that counts in it has ended, whatever the order the   *)
(* threads of all workers run in (Worker::execute_logical_plan).            *)
StatisticsCountTasks ==
    \A o \in Operators : statistics[o] # None =>
        statistics[o] = Cardinality({x \in Rebuilt(o) : "exit" \in Names(task[x])})

(* A log is all or nothing to the analyzer: it builds before a run has      *)
(* begun and when it has ended, and at no moment in between, since one      *)
(* resource that lacks a transition fails the whole (try_build; docs/faq.md *)
(* speaks of partial recovery).  In the model of a finished run every task  *)
(* ran while its query was executing, every resource was operating for as   *)
(* long as a task used it, and what is drawn of an operator lies in its     *)
(* query: threads, workers and the main thread stamp these events           *)
(* independently.                                                           *)
TasksInsideTheirOwners ==
    /\ Builds <=> Ended \/ \A r \in Resources : resource[r] = <<>>
    /\ Ended =>
        /\ \A x \in Tasks : \A s \in States(task[x]) :
              LET q == Ordered(query[x[1][1]])
              IN /\ q[3].ts <= s.from /\ s.to <= q[4].ts
                 /\ \A u \in s.in.uses : LET f == Ordered(resource[u])
                                         IN f[2].ts <= s.from /\ s.to <= f[3].ts
        /\ \A o \in Operators : Drawn(o) # {} =>
              LET q == Ordered(query[o[1]])
              IN q[3].ts <= Active(o).from /\ Active(o).to <= q[4].ts
=============================================================================
