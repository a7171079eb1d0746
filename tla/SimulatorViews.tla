--------------------------- MODULE SimulatorViews ---------------------------
(***************************************************************************)
(* What the analyzer of the example engine answers of a finished run: the  *)
(* tree of resource groups, the view of it that belongs to one query, the  *)
(* timelines of resources and groups (one at a time from the whole model,  *)
(* or in bulk from the view of a query), and the lists of tasks.           *)
(*                                                                         *)
(* The operators of logical plans and the ports of operators are groups    *)
(* that nothing is ever below, and are left out.                           *)
(***************************************************************************)
EXTENDS Simulator

CONSTANTS Threshold,  \* a usage that takes longer makes its task a long entity
          MinUsages,  \* least usages asked of a list
          PageSize    \* entries of a page of a list

\* A size divides by every duration, so that a rate is a whole number of bytes a tick.
ASSUME RatesAssumption == \A b \in Bytes, d \in 1..MaxTime : b % d = 0

-----------------------------------------------------------------------------
(* Groups and what they are declared under. *)
Engine == <<"engine">>
QueryGroup == <<"query_group">>
Network == <<"network">>
Query(q) == <<"query", q>>
Worker(w) == <<"worker", w>>
ThreadPool(w) == <<"thread_pool", w>>
Logical(q) == <<"plan", q>>
Physical(q, w) == <<"plan", q, w>>
Operator(o) == <<"operator", o>>

Plans == {Logical(q) : q \in Queries} \union {Physical(q, w) : q \in Queries, w \in args.workers}
PlanParent(p) == IF Len(p) = 2 THEN [query |-> p[2], plan |-> None]
                 ELSE [query |-> None, plan |-> Logical(p[2])]
PlanWorker(p) == IF Len(p) = 2 THEN None ELSE p[3]
PlanOf(o) == Physical(o[1], o[2])

\* The worker of a plan comes before the query or the plan it was derived from.
ParentGroup(g) ==
    CASE g = Engine -> None
      [] g[1] = "query" -> QueryGroup
      [] g[1] = "thread_pool" -> Worker(g[2])
      [] g[1] = "plan" -> IF PlanWorker(g) # None THEN Worker(PlanWorker(g))
                          ELSE Query(PlanParent(g).query)
      [] g[1] = "operator" -> PlanOf(g[2])
      [] OTHER -> Engine
GroupOf(r) == IF r \in Links THEN Network ELSE IF r \in Threads THEN ThreadPool(r[1]) ELSE Worker(r[1])
TypeName(r) == IF r \in Links THEN "channel" ELSE IF r \in Threads THEN "processor" ELSE "memory"

\* A collection is a set of groups and one of resources.
Model == [groups |-> {Engine, QueryGroup, Network} \union {Query(q) : q \in Queries} \union Plans
                       \union {Worker(w) : w \in args.workers} \union {ThreadPool(w) : w \in args.workers}
                       \union {Operator(o) : o \in Operators},
          resources |-> Resources]

(* The view of one query. *)
Children(p) == {c \in Plans : PlanParent(c).plan = p}
Roots(q) == {p \in Plans : PlanParent(p).query = q}
\* PlanTree::try_new: one root, and only plans of a worker are leaves.
plan_tree(q) ==
    LET root == CHOOSE p \in Roots(q) : TRUE
        tree == {root} \union Children(root) \union UNION {Children(c) : c \in Children(root)}
    IN IF Cardinality(Roots(q)) = 1 /\ \A p \in tree : Children(p) = {} => PlanWorker(p) # None
       THEN tree ELSE {}
query_operators(q) == {o \in Operators : PlanOf(o) \in plan_tree(q)}
query_view(q) ==
    LET engine == {Engine, QueryGroup, Query(q)} \union plan_tree(q)
                    \union {Worker(PlanWorker(p)) : p \in {c \in plan_tree(q) : PlanWorker(c) # None}}
                    \union {Operator(o) : o \in query_operators(q)}
        other == {g \in {Network} \union {ThreadPool(w) : w \in args.workers} : ParentGroup(g) \in engine}
    IN [groups |-> engine \union other,
        resources |-> {r \in Resources : GroupOf(r) \in engine \union other}]

\* ResourceTreeNode: the leaves below each group of a collection.
DirectLeaves(c) == [g \in c.groups |-> {r \in c.resources : GroupOf(r) = g}]            \* mutant
Leaves(c) == LET above[g \in c.groups] == {g} \union IF ParentGroup(g) \in c.groups
                                                      THEN above[ParentGroup(g)] ELSE {}
                 path == [r \in c.resources |-> above[GroupOf(r)]]
             IN [g \in c.groups |-> {r \in c.resources : g \in path[r]}]
OfType(rs, type) == {r \in rs : TypeName(r) = type}

(* Timelines. *)
AllTasks == {x \in Tasks : task[x] # <<>>}
operator_matches(ops, f) == ops = {} \/ f.of[1] \in ops
Using(s, x) == {s @@ [of |-> x, on |-> r] : r \in s.in.uses}
Usages(x) == UNION {Using(s, x) : s \in States(task[x])}
\* The tasks of the model: what they span and what they used.
Fsms == {LET f == Ordered(task[x]) IN [of |-> x, from |-> f[1].ts, to |-> Last(f).ts, usages |-> Usages(x)] :
            x \in AllTasks}
UsagesOn(fs, rs) == {u \in UNION {f.usages : f \in fs} : u.on \in rs}
Intersects(s, v) == s.from < v.to /\ s.to > v.from

\* A thread is used by one; memory is occupied by bytes; a channel carries bytes a tick.
convert_capacity(u) == IF u.on \in Threads THEN 1
                       ELSE IF u.on \in Links /\ u.to > u.from THEN u.in.bytes \div (u.to - u.from)
                       ELSE u.in.bytes
Timeline(v, us) ==
    LET Of(k) == {u \in us : u.in.name = k}
        weight == [u \in us |-> convert_capacity(u)]
    IN [values |-> Binned(v, us, weight),
        states |-> [k \in {u.in.name : u \in us} |-> Binned(v, Of(k), weight)],
        long |-> {u.of : u \in {w \in us : w.to - w.from > Threshold /\ Intersects(w, v)}}]

entities_filtered(fs, v, ops) == {f \in fs : operator_matches(ops, f) /\ Intersects(f, v)}
single_resource_timeline(fs, v, rs, ops) == Timeline(v, UsagesOn(entities_filtered(fs, v, ops), rs))
bulk_resource_timeline(fs, v, rs, ops) == Timeline(v, UsagesOn({f \in fs : operator_matches(ops, f)}, rs))

(* Lists of tasks; None as a scope is any resource. *)
Scoped(scope) == IF scope = None THEN Resources ELSE scope
\* usage_metric: the longest a task used a resource of the scope within the window, None: never.
UnclippedMetric(f, scope, window) ==                                                      \* mutant
    LET held == {u.to - u.from : u \in {c \in UsagesOn({f}, Scoped(scope)) : Intersects(c, window)}}
    IN IF held # {} THEN Max(held) ELSE IF scope = None THEN 0 ELSE None
usage_metric(f, scope, window) ==
    LET clip == {[from |-> Max({u.from, window.from}), to |-> Min({u.to, window.to})] :
                   u \in UsagesOn({f}, Scoped(scope))}
        held == {c.to - c.from : c \in {d \in clip : d.from < d.to}}
    IN IF held # {} THEN Max(held) ELSE IF scope = None THEN 0 ELSE None
scored(fs, q, scope, window) ==
    LET ops == query_operators(q)
    IN {e \in {[of |-> f.of, used |-> usage_metric(f, scope, window)] : f \in {g \in fs : g.of[1] \in ops}} :
          e.used # None}
\* Entities of equal usage are ordered by their ids.
Id(x) == <<x[1][1], x[1][2], x[1][3], x[2], x[3]>>
IdBefore(x, y) == \E i \in 1..5 : Id(x)[i] < Id(y)[i] /\ \A j \in 1..(i - 1) : Id(x)[j] = Id(y)[j]
ranked(entries, least, desc) ==
    SetToSortSeq({e \in entries : e.used >= least},
                 LAMBDA a, b : IF a.used = b.used THEN IdBefore(a.of, b.of) ELSE (a.used > b.used) = desc)
Page(all, p) == SubSeq(all, p * PageSize + 1, Min({(p + 1) * PageSize, Len(all)}))

-----------------------------------------------------------------------------
(***************************************************************************)
(* Correctness.                                                            *)
(***************************************************************************)
Ticks(v) == (v.from + 1)..v.to \intersect DOMAIN did
\* For how long x was in the state it is in at tick n.
Stretch(n, x, ms) == Cardinality({m \in ms : did[m][x] = did[n][x]})
\* Tick n of thread x counts for resource r and the operators ops.
Counts(n, x, rs, ops) == /\ did[n][x] # None /\ did[n][x].in.uses \intersect rs # {}
                         /\ ops = {} \/ did[n][x].of[1] \in ops
UsedAt(n, x, rs) ==
    MapThenSumSet(LAMBDA r : IF r \in Threads THEN 1
                             ELSE IF r \in Links THEN did[n][x].in.bytes \div Stretch(n, x, DOMAIN did)
                             ELSE did[n][x].in.bytes, did[n][x].in.uses \intersect rs)
Truth(v, rs, ops) ==
    LET seen == {e \in Ticks(v) \X Threads : Counts(e[1], e[2], rs, ops)}
        worth == [e \in seen |-> UsedAt(e[1], e[2], rs)]
        Bins(es) == [i \in 0..(v.n - 1) |-> SumFunctionOnSet(worth, {e \in es : (e[1] - 1 - v.from) \div v.size = i})]
    IN [values |-> Bins(seen),
        states |-> [k \in {did[e[1]][e[2]].in.name : e \in seen} |->
                      Bins({e \in seen : did[e[1]][e[2]].in.name = k})],
        long |-> {did[e[1]][e[2]].of : e \in {c \in seen : Stretch(c[1], c[2], DOMAIN did) > Threshold}}]
\* A chart may show states that take no time.
Shows(chart, truth) ==
    /\ chart.values = truth.values /\ chart.long = truth.long
    /\ DOMAIN truth.states \subseteq DOMAIN chart.states
    /\ \A k \in DOMAIN chart.states : IF k \in DOMAIN truth.states THEN chart.states[k] = truth.states[k]
                                      ELSE Range(chart.states[k]) = {0}

\* What is part of a worker, its pool, the network and the engine.
Belongs(g) == CASE g = Engine -> Resources
                [] g = Network -> Links
                [] g[1] = "worker" -> {r \in Threads : r[1] = g[2]} \union {Memory(g[2])}
                [] g[1] = "thread_pool" -> {r \in Threads : r[1] = g[2]}
                [] OTHER -> {}

\* What is asked for, a resource or the resources of one type in a group of a
\* collection: the resources the answer is taken from, and those it is about.
InGroups(c) == LET leaves == Leaves(c)
               IN {<<OfType(leaves[g], t), OfType(Belongs(g), t)>> :
                      g \in c.groups, t \in {"channel", "processor", "memory"}} \ {<<{}, {}>>}
Single == {<<{x}, {x}>> : x \in Resources}

(* The timeline of a resource, and of the resources of one type in a group, *)
(* shows in every bin how many used its threads, the bytes its memory held  *)
(* and the bytes its links carried, by the states the tasks were in, and    *)
(* the tasks that used it for long; asked for alone or in bulk, whichever   *)
(* query's view is asked: the two ways build different trees and filter     *)
(* tasks and usages in different orders (single_resource_timeline,          *)
(* bulk_resource_timeline, ResourceTreeNode, ResourceTimelineBuilder).      *)
TimelinesAreTrue ==
    Answerable =>
      LET fs == Fsms
          single == Single \union InGroups(Model)
          bulk == UNION {InGroups(query_view(q)) : q \in Queries}
      IN \A r \in Views, p \in single \union bulk, ops \in {{}} \union {{o} : o \in Operators} :
           LET v == try_new(r[1], r[2], r[3])
               truth == Truth(v, p[2], ops)
           IN /\ p \in single => Shows(single_resource_timeline(fs, v, p[1], ops), truth)
              /\ p \in bulk => Shows(bulk_resource_timeline(fs, v, p[1], ops), truth)

(* The list of the tasks that used a resource, a group's resources or any   *)
(* within a window for so long holds every such task of the query, no other,*)
(* ranked by the longest such use, and the pages put one after the other    *)
(* are the list (list_entities, usage_metric, finalize, query_view).        *)
EntityListIsExact ==
    Answerable =>
      LET fs == Fsms
      IN \A q \in Queries, r \in Views, p \in Single \union InGroups(Model) \union {<<None, Resources>>} :
        LET window == [from |-> r[1], to |-> r[2]]
            ns == Ticks(window)
            seen == {e \in ns \X Threads : Counts(e[1], e[2], p[2], {})}
            Longest(x) == Max({0} \union {Stretch(e[1], e[2], ns) : e \in {c \in seen : did[c[1]][c[2]].of = x}})
            entries == scored(fs, q, p[1], window)
        IN \A least \in MinUsages, desc \in BOOLEAN :
             LET all == ranked(entries, least, desc)
                 pages == (Len(all) + PageSize - 1) \div PageSize
             IN /\ {all[i].of : i \in DOMAIN all} = {x \in AllTasks : x[1][1] = q /\ Longest(x) >= least}
                /\ \A i \in DOMAIN all : all[i].used = Longest(all[i].of)
                /\ \A i \in 1..(Len(all) - 1) : IF desc THEN all[i].used >= all[i + 1].used
                                                ELSE all[i].used <= all[i + 1].used
                /\ FlattenSeq([n \in 1..pages |-> Page(all, n - 1)]) = all
=============================================================================
