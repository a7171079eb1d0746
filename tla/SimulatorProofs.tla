-------------------------- MODULE SimulatorProofs --------------------------
(***************************************************************************)
(* The example engine: the inductive invariant of a run, that statistics   *)
(* carry the number of the tasks that ended, and that what is rebuilt of a *)
(* finished run lies within its owners.                                    *)
(***************************************************************************)
EXTENDS Simulator, SequenceLemmas

\* The states of a task, of a query and of a resource.
OfTask == {"queueing", "allocating", "spilling", "loading", "computing", "sending", "exit"}
OfQuery == {"init", "planning", "executing", "exit"}
OfResource == {"initializing", "operating", "finalizing", "exit"}
EventNames == OfTask \union OfQuery \union OfResource

\* An event as it is stamped.
Stamps == [ts : 0..MaxTime, name : EventNames, uses : SUBSET Resources, bytes : Bytes \union {0}]

\* Types of the variables.
TypeInv ==
  /\ args \in Args /\ now \in 0..MaxTime
  /\ main \in [pc : {"spawn", "query", "shut_down"}, query : 0..args.queries, left : SUBSET Resources]
  /\ pc \in [args.workers -> {"joined", "lowering", "running"}]
  /\ at \in [Threads -> {None} \union ((1..args.tasks) \X (1..Len(args.plan)))]
  /\ \A x \in Threads : at[x] # None => at[x][1] \in Share(x[2])
  /\ task \in [Tasks -> Seq(Stamps)]
  /\ resource \in [Resources -> Seq(Stamps)]
  /\ query \in [Queries -> Seq(Stamps)]
  /\ processed \in [Operators -> Nat]
  /\ statistics \in [Operators -> Nat \union {None}]

\* A sequence of events was stamped in the order of the clock, and by t.
Stamped(s, t) == Chronological(s) /\ \A i \in 1..Len(s) : s[i].ts <= t

Lifecycle == <<"initializing", "operating", "finalizing", "exit">>

\* The main thread, the queries and the workers: queries run one after the other,
\* each is executed by workers that start and join within it, and threads have a
\* task only while their worker runs.
Executing == main.pc = "query" /\ Len(query[main.query]) = 3

PhaseInv ==
  /\ main.query = 0 => main.pc = "spawn"
  /\ main.pc = "shut_down" => main.query = args.queries
  /\ main.pc = "query" \/ (main.query > 0 /\ main.pc = "spawn") => main.left = {}
  /\ \A q \in Queries :
       /\ q > main.query => query[q] = <<>>
       /\ q < main.query \/ (q = main.query /\ main.pc # "query") => Len(query[q]) = 4
       /\ q = main.query /\ main.pc = "query" => Len(query[q]) \in 1..3
  /\ \A w \in args.workers : pc[w] # "joined" => Executing
  /\ \A x \in Threads : at[x] # None => pc[x[1]] = "running"

\* What a thread has yet to begin is empty.
Ahead(t) ==
  LET w == t[1][2]
      p == at[<<w, t[2]>>]
  IN  \/ t[1][1] > main.query
      \/ /\ t[1][1] = main.query /\ main.pc = "query"
         /\ Len(query[main.query]) < 3 \/ pc[w] = "lowering"
      \/ t[1][1] = main.query /\ p # None /\ (t[3] > p[1] \/ (t[3] = p[1] /\ t[1][3] > p[2]))

AheadInv == \A t \in Tasks : Ahead(t) => task[t] = <<>>

\* The resources.
ResourceInv ==
  \A r \in Resources :
    LET n == Len(resource[r]) IN
    /\ n <= 4 /\ \A i \in 1..n : resource[r][i].name = Lifecycle[i]
    /\ main.pc = "spawn" => IF r \in main.left THEN n < 2 ELSE n = 2
    /\ main.pc = "query" => n = 2
    /\ main.pc = "shut_down" => IF r \in main.left THEN n \in {2, 3} ELSE n = 4

\* An event was stamped between the nth event of an owner and the next one.
Within(e, s, n) == Len(s) >= n /\ s[n].ts <= e.ts /\ (Len(s) >= n + 1 => e.ts <= s[n + 1].ts)

\* Stamps go up; those of a task lie between the start of execution and the exit of its
\* query, and between the start of operation and the finalizing of every resource.
TimeInv ==
  /\ \A t \in Tasks : Stamped(task[t], now)
  /\ \A q \in Queries : Stamped(query[q], now)
  /\ \A r \in Resources : Stamped(resource[r], now)
  /\ \A t \in Tasks : \A i \in 1..Len(task[t]) :
       /\ Within(task[t][i], query[t[1][1]], 3)
       /\ \A r \in Resources : Within(task[t][i], resource[r], 2)

\* The tasks of an operator that were counted: they ran to their exit and their thread went on.
IsCounted(t) == /\ "exit" \in Names(task[t])
                /\ \A x \in Threads : at[x] # None => Current(x) # t
Counted(o) == {t \in Tasks : t[1] = o /\ IsCounted(t)}

\* An operator whose threads have ended.
Settled(o) ==
  \/ o[1] < main.query
  \/ o[1] = main.query /\ main.pc # "query"
  \/ o[1] = main.query /\ Executing /\ pc[o[2]] # "lowering" /\ ScopeEnds(o[2])

\* The counter of an operator is the number of its tasks that were counted, and what was
\* logged of it stays so, since its threads have ended.
CountInv ==
  /\ \A o \in Operators : processed[o] = Cardinality(Counted(o))
  /\ \A o \in Operators : statistics[o] # None => statistics[o] = processed[o] /\ Settled(o)

\* The inductive invariant.
IInv == TypeInv /\ PhaseInv /\ AheadInv /\ ResourceInv /\ TimeInv /\ CountInv
-----------------------------------------------------------------------------
(* Lemmas about the operators of the model.                                *)

\* A run of the command line.
LEMMA ArgsType ==
  ASSUME args \in Args
  PROVE  /\ IsFiniteSet(args.workers) /\ args.threads \in Nat \ {0} /\ args.tasks \in Nat
         /\ args.queries \in Nat /\ args.plan \in Seq(STRING) /\ args.plan # <<>>
         /\ Len(args.plan) \in Nat \ {0}
<1>1. /\ IsFiniteSet(args.workers) /\ args.threads \in Nat \ {0} /\ args.tasks \in Nat
      /\ args.queries \in Nat /\ args.plan \in Seq(STRING) /\ args.plan # <<>>
  BY ArgsAssumption
<1>2. Len(args.plan) \in Nat /\ Len(args.plan) # 0
  BY <1>1, EmptySeq, LenProperties
<1> QED
  BY <1>1, <1>2

\* What depends on the arguments alone does not change.
LEMMA Shapes ==
  ASSUME args' = args
  PROVE  /\ Threads' = Threads /\ Resources' = Resources /\ Queries' = Queries
         /\ Operators' = Operators /\ Tasks' = Tasks /\ Stamps' = Stamps
         /\ \A k : Share(k)' = Share(k)
<1>1. Threads' = Threads /\ Links' = Links /\ Queries' = Queries /\ \A k : Share(k)' = Share(k)
  BY DEF Threads, Links, Queries, Share
<1>2. Resources' = Resources /\ Operators' = Operators
  BY <1>1 DEF Resources, Operators, Memory
<1> QED
  BY <1>1, <1>2 DEF Tasks, Stamps

\* Every step leaves the arguments alone.
LEMMA ArgsStay ==
  ASSUME [Next]_vars
  PROVE  args' = args
BY DEF Next, vars, Spawn, NextQuery, AdvanceQuery, EndQuery, ShutDown, Tick, StartPlan,
       LogStatistics, Emit, Count

\* The share of a thread is among the tasks.
LEMMA ShareTasks ==
  ASSUME args \in Args, NEW k \in 1..args.threads
  PROVE  Share(k) \subseteq 1..args.tasks
<1> DEFINE n == args.tasks \div args.threads
           t == args.threads
           m == args.tasks
<1>1. m \in Nat /\ t \in Nat /\ t > 0 /\ k \in Nat /\ 1 <= k /\ k <= t
  BY ArgsType
<1>2. n \in Nat /\ m = t * n + (m % t) /\ m % t \in Nat
  BY <1>1
<1> HIDE DEF n, t, m
<1>3. t * n <= m
  <2>1. t * n \in Nat
    BY <1>1, <1>2
  <2> QED
    BY <1>1, <1>2, <2>1
<1>4. k * n <= t * n /\ (k - 1) * n >= 0 /\ k * n \in Nat /\ (k - 1) * n \in Nat
  BY <1>1, <1>2
<1>5. ((k - 1) * n + 1)..(k * n) \subseteq 1..m
  BY <1>1, <1>2, <1>3, <1>4
<1> QED
  BY <1>5 DEF Share, n, m, t

\* The members of a finite set, listed.
LEMMA Listed ==
  ASSUME NEW S, IsFiniteSet(S), NEW k \in 1..Cardinality(S)
  PROVE  SetToSeq(S)[k] \in S
<1>1. PICK f : f \in Bijection(1..Cardinality(S), S)
  BY FS_CardinalityType DEF ExistsBijection
<1>2. f \in [1..Cardinality(S) -> S] /\ IsInjective(f)
  BY <1>1 DEF Bijection, Injection, IsInjective
<1>3. SetToSeq(S) \in [1..Cardinality(S) -> S]
  BY <1>2 DEF SetToSeq
<1> QED
  BY <1>3

\* How often a task sent is a number.
LEMMA SentType ==
  ASSUME NEW S, NEW s \in Seq(S)
  PROVE  Sent(s) \in Nat
<1> DEFINE T == {i \in DOMAIN s : s[i].name = "sending"}
<1>1. DOMAIN s = 1..Len(s) /\ Len(s) \in Nat
  BY LenProperties
<1>2. IsFiniteSet(1..Len(s))
  BY <1>1, FS_Interval
<1>3. T \subseteq 1..Len(s)
  BY <1>1
<1> HIDE DEF T
<1>4. IsFiniteSet(T)
  BY <1>2, <1>3, FS_Subset
<1>5. Cardinality(T) \in Nat
  BY <1>4, FS_CardinalityType
<1> QED
  BY <1>5 DEF Sent, T

\* A task enters a state of that name and uses resources of the engine.
LEMMA EmitType ==
  ASSUME args \in Args, NEW x \in Threads, NEW S, NEW s \in Seq(S), NEW kind,
         NEW name \in After(s, kind, args.workers \ {x[1]})
  PROVE  name \in OfTask /\ UsedIn(name, x, s) \subseteq Resources
<1> DEFINE P == args.workers \ {x[1]}
<1>1. name \in OfTask
  BY Zenon DEF After, OfTask
<1>2. name = "sending" => Sent(s) < Cardinality(P)
  BY DEF After
<1>3. x \in Resources /\ x[1] \in args.workers /\ Memory(x[1]) \in Resources
  BY DEF Threads, Resources
<1>4. ASSUME name = "sending" PROVE <<x[1], "to", SetToSeq(P)[Sent(s) + 1]>> \in Resources
  <2>1. IsFiniteSet(P)
    BY ArgsType, FS_Difference
  <2>2. Cardinality(P) \in Nat /\ Sent(s) \in Nat /\ Sent(s) < Cardinality(P)
    BY <1>2, <1>4, <2>1, FS_CardinalityType, SentType
  <2>3. Sent(s) + 1 \in 1..Cardinality(P)
    BY <2>2
  <2>4. SetToSeq(P)[Sent(s) + 1] \in P
    BY <2>1, <2>3, Listed
  <2> QED
    BY <1>3, <2>4 DEF Links, Resources
<1>5. UsedIn(name, x, s) \subseteq Resources
  BY <1>3, <1>4 DEF UsedIn
<1> QED
  BY <1>1, <1>5

\* The resource that starts or stops next is one of those left.
LEMMA FollowingLeft ==
  ASSUME main.left # {}, NEW first
  PROVE  Following(first) \in main.left
<1> DEFINE f == main.left \intersect first
<1>1. \E r \in main.left : f # {} => r \in f
  OBVIOUS
<1> HIDE DEF f
<1>2. (CHOOSE r \in main.left : f # {} => r \in f) \in main.left
  BY <1>1
<1> QED
  BY <1>2 DEF Following, f

\* An event that carries nothing is one that is stamped.
LEMMA EventType ==
  ASSUME now \in 0..MaxTime, NEW name \in EventNames
  PROVE  Event(name) \in Stamps /\ Event(name).ts = now /\ Event(name).name = name
BY DEF Event, Stamps

\* Where a thread is: in its share, at an operator of the query that is executing.
LEMMA CurrentType ==
  ASSUME TypeInv, PhaseInv, NEW x \in Threads, at[x] # None
  PROVE  /\ x[1] \in args.workers /\ x[2] \in 1..args.threads /\ x = <<x[1], x[2]>>
         /\ at[x][1] \in 1..args.tasks /\ at[x][1] \in Share(x[2]) /\ at[x][2] \in 1..Len(args.plan)
         /\ at[x] = <<at[x][1], at[x][2]>>
         /\ pc[x[1]] = "running" /\ Executing /\ main.query \in Queries
         /\ Current(x) \in Tasks /\ Current(x)[1] \in Operators
<1>1. x[1] \in args.workers /\ x[2] \in 1..args.threads /\ x = <<x[1], x[2]>>
  BY DEF Threads
<1>2. at[x] \in (1..args.tasks) \X (1..Len(args.plan)) /\ at[x][1] \in Share(x[2])
  BY DEF TypeInv
<1>3. pc[x[1]] = "running" /\ Executing
  BY <1>1 DEF PhaseInv
<1>4. main.query \in Queries
  <2>1. main.pc = "query" /\ main.query \in 0..args.queries /\ main.query # 0
    BY <1>3 DEF TypeInv, PhaseInv, Executing
  <2> QED
    BY <2>1 DEF Queries
<1>5. Current(x)[1] \in Operators /\ Current(x) \in Tasks
  BY <1>1, <1>2, <1>4 DEF Current, Operators, Tasks
<1> QED
  BY <1>1, <1>2, <1>3, <1>4, <1>5

\* No two threads are at the same task.
LEMMA CurrentOwn ==
  ASSUME NEW x \in Threads, NEW y \in Threads, Current(x) = Current(y)
  PROVE  x = y
<1>1. x[1] = y[1] /\ x[2] = y[2]
  BY DEF Current
<1> QED
  BY <1>1 DEF Threads
-----------------------------------------------------------------------------
(* Types.                                                                  *)

\* One sequence of a table grows by an event.
LEMMA Grows ==
  ASSUME NEW D, NEW S, NEW f \in [D -> Seq(S)], NEW d \in D, NEW e \in S, NEW g,
         g = [f EXCEPT ![d] = Append(@, e)]
  PROVE  /\ g \in [D -> Seq(S)] /\ g[d] = Append(f[d], e) /\ \A c \in D \ {d} : g[c] = f[c]
         /\ f[d] \in Seq(S) /\ Len(f[d]) \in Nat /\ Len(g[d]) = Len(f[d]) + 1
         /\ g[d][Len(f[d]) + 1] = e /\ \A i \in 1..Len(f[d]) : g[d][i] = f[d][i]
<1>1. f[d] \in Seq(S) /\ Len(f[d]) \in Nat
  BY LenProperties
<1>2. Append(f[d], e) \in Seq(S) /\ Len(Append(f[d], e)) = Len(f[d]) + 1
      /\ Append(f[d], e)[Len(f[d]) + 1] = e /\ \A i \in 1..Len(f[d]) : Append(f[d], e)[i] = f[d][i]
  BY <1>1, AppendProperties
<1>3. g[d] = Append(f[d], e) /\ \A c \in D \ {d} : g[c] = f[c]
  OBVIOUS
<1>4. g \in [D -> Seq(S)]
  BY <1>2
<1> QED
  BY <1>1, <1>2, <1>3, <1>4

LEMMA TypeInit ==
  ASSUME Init
  PROVE  TypeInv
<1>1. args \in Args /\ 0 \in 0..MaxTime /\ 0 \in 0..args.queries
  BY ArgsType, TimeAssumption DEF Init
<1>2. /\ main \in [pc : {"spawn", "query", "shut_down"}, query : 0..args.queries, left : SUBSET Resources]
      /\ pc \in [args.workers -> {"joined", "lowering", "running"}]
      /\ at \in [Threads -> {None} \union ((1..args.tasks) \X (1..Len(args.plan)))]
      /\ \A x \in Threads : at[x] = None
  BY <1>1 DEF Init
<1>3. /\ task \in [Tasks -> Seq(Stamps)]
      /\ resource \in [Resources -> Seq(Stamps)]
      /\ query \in [Queries -> Seq(Stamps)]
  BY EmptySeq DEF Init
<1>4. processed \in [Operators -> Nat] /\ statistics \in [Operators -> Nat \union {None}]
  BY DEF Init
<1> QED
  BY <1>1, <1>2, <1>3, <1>4 DEF TypeInv, Init

\* Resources start and stop one at a time.
LEMMA TransitionType ==
  ASSUME TypeInv, main.left # {}, NEW r \in main.left, NEW name \in OfResource,
         Transition(r, name), main' = main \/ main' = [main EXCEPT !.left = @ \ {r}]
  PROVE  /\ r \in Resources /\ resource' \in [Resources -> Seq(Stamps)]
         /\ main' \in [pc : {"spawn", "query", "shut_down"}, query : 0..args.queries, left : SUBSET Resources]
         /\ main'.pc = main.pc /\ main'.query = main.query
         /\ resource'[r] = Append(resource[r], Event(name))
         /\ \A c \in Resources \ {r} : resource'[c] = resource[c]
         /\ Event(name) \in Stamps
<1>1. r \in Resources /\ Event(name) \in Stamps /\ resource \in [Resources -> Seq(Stamps)]
  BY EventType DEF TypeInv, EventNames
<1>2. resource' = [resource EXCEPT ![r] = Append(@, Event(name))]
  BY DEF Transition
<1>3. /\ resource' \in [Resources -> Seq(Stamps)] /\ resource'[r] = Append(resource[r], Event(name))
      /\ \A c \in Resources \ {r} : resource'[c] = resource[c]
  BY <1>1, <1>2, Grows
<1>4. /\ main' \in [pc : {"spawn", "query", "shut_down"}, query : 0..args.queries, left : SUBSET Resources]
      /\ main'.pc = main.pc /\ main'.query = main.query
  BY DEF TypeInv
<1> QED
  BY <1>1, <1>3, <1>4

\* The two steps that do so.
LEMMA SpawnDoes ==
  ASSUME Spawn
  PROVE  \E r \in main.left, name \in OfResource :
            /\ Transition(r, name)
            /\ \/ name = "initializing" /\ resource[r] = <<>> /\ main' = main
               \/ name = "operating" /\ resource[r] # <<>> /\ main' = [main EXCEPT !.left = @ \ {r}]
<1> DEFINE r == Following(Resources \ Links)
<1>1. r \in main.left
  BY FollowingLeft DEF Spawn
<1> HIDE DEF r
<1>2. IF resource[r] = <<>> THEN Transition(r, "initializing") /\ main' = main
      ELSE Transition(r, "operating") /\ main' = [main EXCEPT !.left = @ \ {r}]
  BY DEF Spawn, r
<1> QED
  BY <1>1, <1>2 DEF OfResource

LEMMA ShutDownDoes ==
  ASSUME ShutDown
  PROVE  \E r \in main.left, name \in OfResource :
            /\ Transition(r, name)
            /\ \/ name = "finalizing" /\ Len(resource[r]) = 2 /\ main' = main
               \/ name = "exit" /\ Len(resource[r]) # 2 /\ main' = [main EXCEPT !.left = @ \ {r}]
<1> DEFINE r == Following(Links)
<1>1. r \in main.left
  BY FollowingLeft DEF ShutDown
<1> HIDE DEF r
<1>2. IF Len(resource[r]) = 2 THEN Transition(r, "finalizing") /\ main' = main
      ELSE Transition(r, "exit") /\ main' = [main EXCEPT !.left = @ \ {r}]
  BY DEF ShutDown, r
<1> QED
  BY <1>1, <1>2 DEF OfResource

\* A query enters its next state.
LEMMA QueryDoes ==
  ASSUME TypeInv, PhaseInv, NextQuery \/ AdvanceQuery \/ EndQuery
  PROVE  /\ main'.query \in Queries /\ main'.query \in Nat
         /\ \E name \in OfQuery : query' = [query EXCEPT ![main'.query] = Append(@, Event(name))]
         /\ main' \in [pc : {"spawn", "query", "shut_down"}, query : 0..args.queries, left : SUBSET Resources]
<1>1. /\ main \in [pc : {"spawn", "query", "shut_down"}, query : 0..args.queries, left : SUBSET Resources]
      /\ args.queries \in Nat /\ query \in [Queries -> Seq(Stamps)]
  BY ArgsType DEF TypeInv
<1>2. CASE NextQuery
  <2>1. /\ main.query < args.queries /\ main' = [main EXCEPT !.pc = "query", !.query = @ + 1]
        /\ query' = [query EXCEPT ![main.query + 1] = <<Event("init")>>]
    BY <1>2 DEF NextQuery
  <2>2. /\ main'.query = main.query + 1 /\ main.query + 1 \in Queries /\ main.query + 1 \in Nat
        /\ main.query + 1 \in 0..args.queries
    BY <1>1, <2>1 DEF Queries
  <2>3. query[main.query + 1] = <<>>
    BY <1>1, <2>2 DEF PhaseInv
  <2>4. query' = [query EXCEPT ![main.query + 1] = Append(@, Event("init"))]
    BY <2>1, <2>3
  <2>5. main' \in [pc : {"spawn", "query", "shut_down"}, query : 0..args.queries, left : SUBSET Resources]
    BY <1>1, <2>1, <2>2
  <2> QED
    BY <2>2, <2>4, <2>5 DEF OfQuery
<1>3. CASE AdvanceQuery
  <2> DEFINE n == Len(query[main.query])
  <2>1. /\ main.pc = "query" /\ n < 3 /\ main' = main
        /\ query' = [query EXCEPT ![main.query] = Append(@, Event(Stage[n + 1]))]
    BY <1>3 DEF AdvanceQuery
  <2>2. main.query \in Queries
    BY <1>1, <2>1 DEF PhaseInv, Queries
  <2>3. n \in 1..3
    BY <1>1, <2>1, <2>2 DEF PhaseInv
  <2>4. Stage[n + 1] \in OfQuery
    BY <2>1, <2>3 DEF Stage, OfQuery
  <2> DEFINE name == Stage[n + 1]
  <2>5. name \in OfQuery /\ query' = [query EXCEPT ![main'.query] = Append(@, Event(name))]
    BY <2>1, <2>4
  <2> HIDE DEF name
  <2>6. main'.query \in Queries /\ main'.query \in Nat
    BY <1>1, <2>1, <2>2
  <2> QED
    BY <1>1, <2>1, <2>5, <2>6
<1>4. CASE EndQuery
  <2>1. /\ main.pc = "query"
        /\ query' = [query EXCEPT ![main.query] = Append(@, Event("exit"))]
        /\ main' = IF main.query < args.queries THEN [main EXCEPT !.pc = "spawn"]
                   ELSE [main EXCEPT !.pc = "shut_down", !.left = Resources]
    BY <1>4 DEF EndQuery
  <2>2. main.query \in Queries
    BY <1>1, <2>1 DEF PhaseInv, Queries
  <2>3. /\ main'.query = main.query
        /\ main' \in [pc : {"spawn", "query", "shut_down"}, query : 0..args.queries, left : SUBSET Resources]
    BY <1>1, <2>1
  <2> QED
    BY <1>1, <2>1, <2>2, <2>3 DEF OfQuery
<1> QED
  BY <1>2, <1>3, <1>4

\* A task enters its next state.
LEMMA EmitDoes ==
  ASSUME TypeInv, PhaseInv, NEW x \in Threads, Emit(x)
  PROVE  /\ at[x] # None /\ Current(x) \in Tasks /\ "exit" \notin Names(task[Current(x)])
         /\ \E e \in Stamps : e.ts = now /\ task' = [task EXCEPT ![Current(x)] = Append(@, e)]
<1> DEFINE c == Current(x)
           s == task[c]
           kind == args.plan[at[x][2]]
           peers == args.workers \ {x[1]}
<1>1. at[x] # None /\ "exit" \notin Names(s)
  BY DEF Emit
<1>2. c \in Tasks /\ s \in Seq(Stamps) /\ args \in Args /\ now \in 0..MaxTime
  BY <1>1, CurrentType DEF TypeInv
<1>3. PICK name \in After(s, kind, peers) :
         \E b \in IF UsedIn(name, x, s) \subseteq {x} THEN {0} ELSE Bytes :
         task' = [task EXCEPT ![c] = Append(@, [Event(name) EXCEPT !.uses = UsedIn(name, x, s), !.bytes = b])]
  BY DEF Emit
<1>4. PICK b \in IF UsedIn(name, x, s) \subseteq {x} THEN {0} ELSE Bytes :
         task' = [task EXCEPT ![c] = Append(@, [Event(name) EXCEPT !.uses = UsedIn(name, x, s), !.bytes = b])]
  BY <1>3
<1> DEFINE e == [Event(name) EXCEPT !.uses = UsedIn(name, x, s), !.bytes = b]
<1>5. name \in OfTask /\ UsedIn(name, x, s) \subseteq Resources
  BY <1>2, EmitType
<1>6. b \in Bytes \union {0}
  BY <1>4
<1> HIDE DEF c, s, kind, peers
<1>7. e \in Stamps /\ e.ts = now
  BY <1>2, <1>5, <1>6 DEF Stamps, Event, EventNames
<1> QED
  BY <1>1, <1>2, <1>4, <1>7 DEF c, s

\* The least of a set of naturals.
LEMMA MinIs ==
  ASSUME NEW S, S \subseteq Nat, S # {}
  PROVE  Min(S) \in S /\ \A y \in S : Min(S) <= y
BY SetMin DEF Min

\* Where a thread goes when its task is counted.
Onward(x) == IF at[x][2] < Len(args.plan) THEN <<at[x][1], at[x][2] + 1>>
             ELSE IF at[x][1] + 1 \in Share(x[2]) THEN <<at[x][1] + 1, 1>> ELSE None

LEMMA CountDoes ==
  ASSUME TypeInv, PhaseInv, NEW x \in Threads, Count(x)
  PROVE  /\ at[x] # None /\ "exit" \in Names(task[Current(x)])
         /\ at' = [at EXCEPT ![x] = Onward(x)]
         /\ processed' = [processed EXCEPT ![Current(x)[1]] = @ + 1]
         /\ Onward(x) # None => /\ Onward(x) \in (1..args.tasks) \X (1..Len(args.plan))
                                /\ Onward(x)[1] \in Share(x[2])
<1>1. /\ at[x] # None /\ "exit" \in Names(task[Current(x)])
      /\ at' = [at EXCEPT ![x] = Onward(x)]
      /\ processed' = [processed EXCEPT ![Current(x)[1]] = @ + 1]
  BY DEF Count, Onward
<1>2. /\ at[x][1] \in 1..args.tasks /\ at[x][2] \in 1..Len(args.plan) /\ at[x][1] \in Share(x[2])
      /\ x[2] \in 1..args.threads
  BY <1>1, CurrentType
<1>3. Share(x[2]) \subseteq 1..args.tasks /\ Len(args.plan) \in Nat \ {0} /\ args.tasks \in Nat
  BY <1>2, ShareTasks, ArgsType DEF TypeInv
<1>4. Onward(x) # None => /\ Onward(x) \in (1..args.tasks) \X (1..Len(args.plan))
                          /\ Onward(x)[1] \in Share(x[2])
  BY <1>2, <1>3 DEF Onward
<1> QED
  BY <1>1, <1>4

\* Where a thread begins.
First(x) == IF Share(x[2]) = {} THEN None ELSE <<Min(Share(x[2])), 1>>

LEMMA StartDoes ==
  ASSUME TypeInv, PhaseInv, NEW w \in args.workers, StartPlan(w)
  PROVE  /\ pc[w] = "lowering" /\ pc' = [pc EXCEPT ![w] = "running"]
         /\ at' = [x \in Threads |-> IF x[1] # w THEN at[x] ELSE First(x)]
         /\ \A x \in Threads : First(x) # None =>
               /\ First(x) \in (1..args.tasks) \X (1..Len(args.plan))
               /\ First(x)[1] \in Share(x[2]) /\ First(x)[2] = 1
               /\ \A i \in Share(x[2]) : First(x)[1] <= i
<1>1. /\ pc[w] = "lowering" /\ pc' = [pc EXCEPT ![w] = "running"]
      /\ at' = [x \in Threads |-> IF x[1] # w THEN at[x] ELSE First(x)]
  BY DEF StartPlan, First
<1>2. ASSUME NEW x \in Threads, First(x) # None
      PROVE  /\ First(x) \in (1..args.tasks) \X (1..Len(args.plan))
             /\ First(x)[1] \in Share(x[2]) /\ First(x)[2] = 1
             /\ \A i \in Share(x[2]) : First(x)[1] <= i
  <2>1. x[2] \in 1..args.threads /\ Len(args.plan) \in Nat \ {0} /\ args.tasks \in Nat
    BY ArgsType DEF Threads, TypeInv
  <2>2. Share(x[2]) \subseteq 1..args.tasks /\ Share(x[2]) \subseteq Nat /\ Share(x[2]) # {}
    BY <1>2, <2>1, ShareTasks DEF TypeInv, First
  <2>3. Min(Share(x[2])) \in Share(x[2]) /\ \A i \in Share(x[2]) : Min(Share(x[2])) <= i
    BY <2>2, MinIs
  <2> QED
    BY <2>1, <2>2, <2>3 DEF First
<1> QED
  BY <1>1, <1>2

\* An operator's statistics are logged, or the worker joins.
LEMMA LogDoes ==
  ASSUME TypeInv, PhaseInv, NEW w \in args.workers, LogStatistics(w)
  PROVE  /\ pc[w] = "running" /\ ScopeEnds(w) /\ Executing /\ main.query \in Queries
         /\ \/ pc' = [pc EXCEPT ![w] = "joined"] /\ statistics' = statistics
            \/ pc' = pc /\ \E o \in Operators :
                            /\ o[1] = main.query /\ o[2] = w /\ statistics[o] = None
                            /\ statistics' = [statistics EXCEPT ![o] = processed[o]]
<1> DEFINE left == {i \in 1..Len(args.plan) : statistics[<<main.query, w, i>>] = None}
           o == <<main.query, w, Min(left)>>
<1>1. /\ pc[w] = "running" /\ ScopeEnds(w)
      /\ IF left = {} THEN pc' = [pc EXCEPT ![w] = "joined"] /\ statistics' = statistics
         ELSE statistics' = [statistics EXCEPT ![o] = processed[o]] /\ pc' = pc
  BY DEF LogStatistics
<1>2. Executing /\ main.query \in Queries
  BY <1>1 DEF PhaseInv, Executing, Queries, TypeInv
<1>3. ASSUME left # {} PROVE o \in Operators /\ o[1] = main.query /\ o[2] = w /\ statistics[o] = None
  <2>1. left \subseteq Nat
    OBVIOUS
  <2> HIDE DEF left
  <2>2. Min(left) \in left
    BY <1>3, <2>1, MinIs
  <2> QED
    BY <1>2, <2>2 DEF Operators, left
<1> HIDE DEF left, o
<1> QED
  BY <1>1, <1>2, <1>3

LEMMA TypeNext ==
  ASSUME TypeInv, PhaseInv, [Next]_vars
  PROVE  TypeInv'
<1>1. /\ args' = args /\ Threads' = Threads /\ Resources' = Resources /\ Queries' = Queries
      /\ Operators' = Operators /\ Tasks' = Tasks /\ Stamps' = Stamps
      /\ \A k : Share(k)' = Share(k)
  BY ArgsStay, Shapes
<1> DEFINE Mains == [pc : {"spawn", "query", "shut_down"}, query : 0..args.queries, left : SUBSET Resources]
           Places == {None} \union ((1..args.tasks) \X (1..Len(args.plan)))
           Rest == /\ pc' \in [args.workers -> {"joined", "lowering", "running"}]
                   /\ at' \in [Threads -> Places]
                   /\ \A x \in Threads : at'[x] # None => at'[x][1] \in Share(x[2])
                   /\ processed' \in [Operators -> Nat]
                   /\ statistics' \in [Operators -> Nat \union {None}]
           Logs == /\ task' \in [Tasks -> Seq(Stamps)]
                   /\ resource' \in [Resources -> Seq(Stamps)]
                   /\ query' \in [Queries -> Seq(Stamps)]
<1> SUFFICES args \in Args /\ now' \in 0..MaxTime /\ main' \in Mains /\ Rest /\ Logs
  BY <1>1 DEF TypeInv
<1>2. args \in Args
  BY DEF TypeInv
<1>3. CASE Spawn
  <2>1. now' \in 0..MaxTime /\ Rest /\ task' \in [Tasks -> Seq(Stamps)] /\ query' \in [Queries -> Seq(Stamps)]
    BY <1>3 DEF Spawn, TypeInv
  <2>2. resource' \in [Resources -> Seq(Stamps)] /\ main' \in Mains
    BY <1>3, SpawnDoes, TransitionType
  <2> QED
    BY <1>2, <2>1, <2>2
<1>4. CASE ShutDown
  <2>1. now' \in 0..MaxTime /\ Rest /\ task' \in [Tasks -> Seq(Stamps)] /\ query' \in [Queries -> Seq(Stamps)]
    BY <1>4 DEF ShutDown, TypeInv
  <2>2. resource' \in [Resources -> Seq(Stamps)] /\ main' \in Mains
    BY <1>4, ShutDownDoes, TransitionType
  <2> QED
    BY <1>2, <2>1, <2>2
<1>5. CASE NextQuery \/ AdvanceQuery \/ EndQuery
  <2>1. PICK name \in OfQuery : query' = [query EXCEPT ![main'.query] = Append(@, Event(name))]
    BY <1>5, QueryDoes
  <2>2. main'.query \in Queries /\ main' \in Mains
    BY <1>5, QueryDoes
  <2>3. Event(name) \in Stamps /\ query \in [Queries -> Seq(Stamps)]
    BY EventType DEF TypeInv, EventNames
  <2>4. query' \in [Queries -> Seq(Stamps)]
    BY <2>1, <2>2, <2>3, Grows
  <2>5. pc' \in [args.workers -> {"joined", "lowering", "running"}]
    BY <1>5 DEF NextQuery, AdvanceQuery, EndQuery, TypeInv
  <2>6. /\ now' = now /\ at' = at /\ task' = task /\ resource' = resource
        /\ processed' = processed /\ statistics' = statistics
    BY <1>5 DEF NextQuery, AdvanceQuery, EndQuery
  <2> QED
    BY <1>2, <2>2, <2>4, <2>5, <2>6 DEF TypeInv
<1>6. CASE Tick
  <2>1. now' \in 0..MaxTime
    BY <1>6, TimeAssumption DEF Tick, TypeInv
  <2> QED
    BY <1>2, <1>6, <2>1 DEF Tick, TypeInv
<1>7. ASSUME NEW w \in args.workers, StartPlan(w)
      PROVE  args \in Args /\ now' \in 0..MaxTime /\ main' \in Mains /\ Rest /\ Logs
  <2>1. /\ pc[w] = "lowering" /\ pc' = [pc EXCEPT ![w] = "running"]
        /\ at' = [x \in Threads |-> IF x[1] # w THEN at[x] ELSE First(x)]
        /\ \A x \in Threads : First(x) # None =>
              /\ First(x) \in (1..args.tasks) \X (1..Len(args.plan))
              /\ First(x)[1] \in Share(x[2])
    BY <1>7, StartDoes
  <2>2. at \in [Threads -> Places] /\ \A x \in Threads : at[x] # None => at[x][1] \in Share(x[2])
    BY DEF TypeInv
  <2>3. at' \in [Threads -> Places] /\ \A x \in Threads : at'[x] # None => at'[x][1] \in Share(x[2])
    BY <2>1, <2>2
  <2>4. pc' \in [args.workers -> {"joined", "lowering", "running"}]
    BY <2>1 DEF TypeInv
  <2> QED
    BY <1>2, <1>7, <2>3, <2>4 DEF StartPlan, TypeInv
<1>8. ASSUME NEW w \in args.workers, LogStatistics(w)
      PROVE  args \in Args /\ now' \in 0..MaxTime /\ main' \in Mains /\ Rest /\ Logs
  <2>1. pc' \in [args.workers -> {"joined", "lowering", "running"}]
    BY <1>8 DEF LogStatistics, TypeInv
  <2>2. statistics' \in [Operators -> Nat \union {None}]
    <3>1. statistics' = statistics \/ \E o \in Operators : statistics' = [statistics EXCEPT ![o] = processed[o]]
      BY <1>8, LogDoes
    <3>2. statistics \in [Operators -> Nat \union {None}] /\ \A o \in Operators : processed[o] \in Nat
      BY DEF TypeInv
    <3> QED
      BY <3>1, <3>2
  <2> QED
    BY <1>2, <1>8, <2>1, <2>2 DEF LogStatistics, TypeInv
<1>9. ASSUME NEW x \in Threads, Emit(x)
      PROVE  args \in Args /\ now' \in 0..MaxTime /\ main' \in Mains /\ Rest /\ Logs
  <2>1. task \in [Tasks -> Seq(Stamps)]
    BY DEF TypeInv
  <2>2. task' \in [Tasks -> Seq(Stamps)]
    <3>1. /\ Current(x) \in Tasks
          /\ \E e \in Stamps : task' = [task EXCEPT ![Current(x)] = Append(@, e)]
      BY <1>9, EmitDoes
    <3> QED
      BY <2>1, <3>1, Grows
  <2> QED
    BY <1>2, <1>9, <2>2 DEF Emit, TypeInv
<1>10. ASSUME NEW x \in Threads, Count(x)
       PROVE  args \in Args /\ now' \in 0..MaxTime /\ main' \in Mains /\ Rest /\ Logs
  <2>1. /\ at[x] # None /\ at' = [at EXCEPT ![x] = Onward(x)]
        /\ processed' = [processed EXCEPT ![Current(x)[1]] = @ + 1]
        /\ Onward(x) # None => /\ Onward(x) \in (1..args.tasks) \X (1..Len(args.plan))
                               /\ Onward(x)[1] \in Share(x[2])
    BY <1>10, CountDoes
  <2>2. at \in [Threads -> Places] /\ \A y \in Threads : at[y] # None => at[y][1] \in Share(y[2])
    BY DEF TypeInv
  <2>3. at' \in [Threads -> Places] /\ \A y \in Threads : at'[y] # None => at'[y][1] \in Share(y[2])
    BY <2>1, <2>2
  <2>4. processed' \in [Operators -> Nat]
    BY <2>1, CurrentType DEF TypeInv
  <2> QED
    BY <1>2, <1>10, <2>3, <2>4 DEF Count, TypeInv
<1>11. CASE UNCHANGED vars
  BY <1>2, <1>11 DEF vars, TypeInv
<1> QED
  BY <1>3, <1>4, <1>5, <1>6, <1>7, <1>8, <1>9, <1>10, <1>11 DEF Next
-----------------------------------------------------------------------------
(* Phases.                                                                 *)

LEMMA PhaseInit ==
  ASSUME Init
  PROVE  PhaseInv
BY ArgsType DEF Init, PhaseInv, Queries

\* What the phases are about, all of it unchanged.
LEMMA PhaseStays ==
  ASSUME PhaseInv, args' = args, main' = main, query' = query, pc' = pc, at' = at
  PROVE  PhaseInv'
BY Shapes DEF PhaseInv, Executing

\* A query entered a state: what that says of the sequences of all queries.
LEMMA QueryGrows ==
  ASSUME TypeInv, PhaseInv, NextQuery \/ AdvanceQuery \/ EndQuery
  PROVE  /\ main'.query \in Queries /\ query[main'.query] \in Seq(Stamps)
         /\ Len(query'[main'.query]) = Len(query[main'.query]) + 1 /\ Len(query[main'.query]) \in Nat
         /\ query'[main'.query][Len(query[main'.query]) + 1].ts = now
         /\ \A i \in 1..Len(query[main'.query]) : query'[main'.query][i] = query[main'.query][i]
         /\ \A q \in Queries \ {main'.query} : query'[q] = query[q]
<1>1. PICK name \in OfQuery : query' = [query EXCEPT ![main'.query] = Append(@, Event(name))]
  BY QueryDoes
<1>2. main'.query \in Queries /\ query \in [Queries -> Seq(Stamps)]
  BY QueryDoes DEF TypeInv
<1>3. Event(name) \in Stamps /\ Event(name).ts = now
  BY EventType DEF TypeInv, EventNames
<1> HIDE DEF Event
<1> QED
  BY <1>1, <1>2, <1>3, Grows

LEMMA PhaseNext ==
  ASSUME TypeInv, PhaseInv, [Next]_vars
  PROVE  PhaseInv'
<1>1. args' = args /\ Threads' = Threads /\ Queries' = Queries
  BY ArgsStay, Shapes
<1>2. /\ main.query \in 0..args.queries /\ main.pc \in {"spawn", "query", "shut_down"} /\ args.queries \in Nat
      /\ main \in [pc : {"spawn", "query", "shut_down"}, query : 0..args.queries, left : SUBSET Resources]
      /\ Queries = 1..args.queries
  BY ArgsType DEF TypeInv, Queries
<1>3. ASSUME NEW r \in main.left, NEW name \in OfResource, Transition(r, name),
             main' = main \/ main' = [main EXCEPT !.left = @ \ {r}],
             query' = query, pc' = pc, at' = at
      PROVE  PhaseInv'
  <2>1. main'.pc = main.pc /\ main'.query = main.query /\ (main.left = {} => main'.left = {})
    BY <1>2, <1>3
  <2> QED
    BY <1>1, <1>3, <2>1 DEF PhaseInv, Executing
<1>4. CASE Spawn
  <2>1. query' = query /\ pc' = pc /\ at' = at
    BY <1>4 DEF Spawn
  <2> QED
    BY <1>3, <1>4, <2>1, SpawnDoes
<1>5. CASE ShutDown
  <2>1. query' = query /\ pc' = pc /\ at' = at
    BY <1>5 DEF ShutDown
  <2> QED
    BY <1>3, <1>5, <2>1, ShutDownDoes
<1>6. CASE NextQuery
  <2>1. /\ main.pc = "spawn" /\ main.left = {} /\ main.query < args.queries
        /\ main' = [main EXCEPT !.pc = "query", !.query = @ + 1] /\ pc' = pc /\ at' = at
    BY <1>6 DEF NextQuery
  <2>2. main'.pc = "query" /\ main'.query = main.query + 1 /\ main'.left = {}
    BY <1>2, <2>1
  <2>3. /\ query[main.query + 1] = <<>> /\ main.query + 1 \in Queries
        /\ \A q \in Queries : q < main.query + 1 => Len(query[q]) = 4
        /\ \A q \in Queries : q > main.query + 1 => query[q] = <<>>
    BY <1>2, <2>1 DEF PhaseInv
  <2>4. Len(query'[main.query + 1]) = 1 /\ \A q \in Queries \ {main.query + 1} : query'[q] = query[q]
    <3>1. Len(query[main.query + 1]) = 0
      BY <2>3, EmptySeq
    <3> QED
      BY <1>6, <2>2, <3>1, QueryGrows
  <2>5. /\ \A w \in args.workers : pc'[w] = "joined"
        /\ \A x \in Threads : at'[x] = None
    BY <2>1 DEF PhaseInv, Executing, Threads
  <2> QED
    BY <1>1, <1>2, <2>2, <2>3, <2>4, <2>5 DEF PhaseInv
<1>7. CASE AdvanceQuery
  <2> DEFINE n == Len(query[main.query])
  <2>1. /\ main.pc = "query" /\ n < 3 /\ main' = main /\ at' = at
        /\ pc' = IF n = 2 THEN [w \in args.workers |-> "lowering"] ELSE pc
    BY <1>7 DEF AdvanceQuery
  <2>2. /\ main.query \in Queries /\ Len(query'[main.query]) = n + 1 /\ n \in Nat
        /\ \A q \in Queries \ {main.query} : query'[q] = query[q]
    BY <1>7, <2>1, QueryGrows
  <2>3. /\ \A w \in args.workers : pc[w] = "joined"
        /\ \A x \in Threads : at[x] = None
    <3>1. ~Executing
      <4>1. n < 3 /\ n \in Nat
        BY <2>1, <2>2
      <4>2. ASSUME n = 3 PROVE FALSE
        BY <4>1, <4>2
      <4> QED
        BY <4>2 DEF Executing
    <3>2. \A w \in args.workers : pc[w] = "joined"
      BY <3>1 DEF PhaseInv
    <3>3. ASSUME NEW x \in Threads, at[x] # None PROVE FALSE
      BY <3>1, <3>3, CurrentType
    <3> QED
      BY <3>2, <3>3
  <2>4. n \in 1..3
    BY <2>1, <2>2 DEF PhaseInv
  <2>5. \A w \in args.workers : pc'[w] # "joined" => Executing'
    <3>1. n = 2 => main'.pc = "query" /\ Len(query'[main'.query]) = 3
      BY <2>1, <2>2
    <3>2. n = 2 => Executing'
      BY <3>1 DEF Executing
    <3>3. ASSUME NEW w \in args.workers, pc'[w] # "joined" PROVE n = 2
      BY <2>1, <2>3, <3>3
    <3> QED
      BY <3>2, <3>3
  <2> HIDE DEF n
  <2>6. n + 1 \in 1..3
    BY <2>1, <2>4
  <2>7. \A q \in Queries : /\ q > main.query => query'[q] = <<>>
                           /\ q < main.query => Len(query'[q]) = 4
                           /\ q = main.query => Len(query'[q]) \in 1..3
    <3>1. \A q \in Queries : q # main.query => query'[q] = query[q]
      BY <2>2
    <3>2. \A q \in Queries : /\ q > main.query => q # main.query /\ query[q] = <<>>
                             /\ q < main.query => q # main.query /\ Len(query[q]) = 4
      BY <1>2 DEF PhaseInv
    <3>3. Len(query'[main.query]) \in 1..3
      BY <2>2, <2>6
    <3> QED
      BY <3>1, <3>2, <3>3
  <2>8. main.left = {} /\ main.query # 0
    BY <2>1 DEF PhaseInv
  <2> QED
    BY <1>1, <2>1, <2>3, <2>5, <2>7, <2>8 DEF PhaseInv
<1>8. CASE EndQuery
  <2>1. /\ main.pc = "query" /\ Len(query[main.query]) = 3 /\ AllJoined /\ pc' = pc /\ at' = at
        /\ main' = IF main.query < args.queries THEN [main EXCEPT !.pc = "spawn"]
                   ELSE [main EXCEPT !.pc = "shut_down", !.left = Resources]
    BY <1>8 DEF EndQuery
  <2>2. /\ main'.query = main.query
        /\ \/ main'.pc = "spawn" /\ main'.left = main.left
           \/ main'.pc = "shut_down" /\ main.query = args.queries
    BY <1>2, <2>1
  <2>3. /\ main.query \in Queries /\ Len(query'[main.query]) = 4
        /\ \A q \in Queries \ {main.query} : query'[q] = query[q]
    <3>1. /\ main'.query \in Queries /\ Len(query'[main'.query]) = Len(query[main'.query]) + 1
          /\ \A q \in Queries \ {main'.query} : query'[q] = query[q]
      BY <1>8, QueryGrows
    <3>2. main'.query = main.query /\ Len(query[main.query]) = 3
      BY <2>1, <2>2
    <3> QED
      BY <3>1, <3>2
  <2>4. \A q \in Queries : /\ q > main.query => query'[q] = <<>>
                           /\ q < main.query => Len(query'[q]) = 4
                           /\ q = main.query => Len(query'[q]) = 4
    BY <1>2, <2>3 DEF PhaseInv
  <2>5. main.left = {} /\ main.query # 0
    BY <2>1 DEF PhaseInv
  <2>6. /\ \A w \in args.workers : pc'[w] = "joined"
        /\ \A x \in Threads : at'[x] # None => pc'[x[1]] = "running"
    BY <2>1 DEF AllJoined, PhaseInv
  <2> QED
    BY <1>1, <2>2, <2>4, <2>5, <2>6 DEF PhaseInv
<1>9. CASE Tick
  BY <1>1, <1>9, PhaseStays DEF Tick
<1>10. ASSUME NEW w \in args.workers, StartPlan(w) PROVE PhaseInv'
  <2>1. /\ pc[w] = "lowering" /\ pc' = [pc EXCEPT ![w] = "running"]
        /\ at' = [x \in Threads |-> IF x[1] # w THEN at[x] ELSE First(x)]
        /\ main' = main /\ query' = query
    BY <1>10, StartDoes DEF StartPlan
  <2>2. Executing /\ pc \in [args.workers -> {"joined", "lowering", "running"}]
    BY <2>1 DEF PhaseInv, TypeInv
  <2>3. \A x \in Threads : at'[x] # None => pc'[x[1]] = "running"
    BY <2>1, <2>2 DEF PhaseInv, Threads
  <2>4. \A v \in args.workers : pc'[v] # "joined" => Executing'
    BY <2>1, <2>2 DEF Executing
  <2> QED
    BY <1>1, <2>1, <2>3, <2>4 DEF PhaseInv
<1>11. ASSUME NEW w \in args.workers, LogStatistics(w) PROVE PhaseInv'
  <2>1. /\ pc[w] = "running" /\ ScopeEnds(w) /\ Executing
        /\ pc' = pc \/ pc' = [pc EXCEPT ![w] = "joined"]
        /\ main' = main /\ query' = query /\ at' = at
    BY <1>11, LogDoes DEF LogStatistics
  <2>2. ASSUME NEW x \in Threads, at[x] # None PROVE pc'[x[1]] = "running"
    <3>1. pc[x[1]] = "running" /\ x[1] \in args.workers /\ x = <<x[1], x[2]>> /\ x[2] \in 1..args.threads
      BY <2>2, CurrentType
    <3>2. x[1] # w
      BY <2>1, <2>2, <3>1 DEF ScopeEnds
    <3> QED
      BY <2>1, <3>1, <3>2 DEF TypeInv
  <2>3. \A v \in args.workers : pc'[v] # "joined" => Executing'
    BY <2>1 DEF Executing
  <2> QED
    BY <1>1, <2>1, <2>2, <2>3 DEF PhaseInv
<1>12. ASSUME NEW x \in Threads, Emit(x) PROVE PhaseInv'
  BY <1>1, <1>12, PhaseStays DEF Emit
<1>13. ASSUME NEW x \in Threads, Count(x) PROVE PhaseInv'
  <2>1. /\ at[x] # None /\ at' = [at EXCEPT ![x] = Onward(x)]
        /\ main' = main /\ query' = query /\ pc' = pc
    BY <1>13, CountDoes DEF Count
  <2>2. \A y \in Threads : at'[y] # None => pc[y[1]] = "running"
    BY <2>1 DEF PhaseInv, TypeInv
  <2> QED
    BY <1>1, <2>1, <2>2 DEF PhaseInv, Executing
<1>14. CASE UNCHANGED vars
  BY <1>14, PhaseStays DEF vars
<1> QED
  BY <1>4, <1>5, <1>6, <1>7, <1>8, <1>9, <1>10, <1>11, <1>12, <1>13, <1>14 DEF Next
-----------------------------------------------------------------------------
(* What is ahead.                                                          *)

LEMMA AheadInit ==
  ASSUME Init
  PROVE  AheadInv
BY DEF Init, AheadInv

\* A task is named by its query, its worker, its operator's position, its thread and its index.
LEMMA TaskParts ==
  ASSUME args \in Args, NEW t \in Tasks
  PROVE  /\ t[1] \in Operators /\ t[1][1] \in Queries /\ t[1][2] \in args.workers
         /\ t[1][3] \in 1..Len(args.plan) /\ t[2] \in 1..args.threads /\ t[3] \in 1..args.tasks
         /\ <<t[1][2], t[2]>> \in Threads
         /\ t[1] = <<t[1][1], t[1][2], t[1][3]>> /\ t = <<t[1], t[2], t[3]>>
         /\ t[1][1] \in Int /\ t[1][3] \in Int /\ t[2] \in Int /\ t[3] \in Int
<1>1. /\ t[1] \in Operators /\ t[2] \in 1..args.threads /\ t[3] \in 1..args.tasks /\ t = <<t[1], t[2], t[3]>>
  BY DEF Tasks
<1>2. /\ t[1][1] \in Queries /\ t[1][2] \in args.workers /\ t[1][3] \in 1..Len(args.plan)
      /\ t[1] = <<t[1][1], t[1][2], t[1][3]>>
  BY <1>1 DEF Operators
<1>3. <<t[1][2], t[2]>> \in Threads
  BY <1>1, <1>2 DEF Threads
<1>4. t[1][1] \in Int /\ t[1][3] \in Int /\ t[2] \in Int /\ t[3] \in Int
  BY <1>1, <1>2 DEF Queries
<1> QED
  BY <1>1, <1>2, <1>3, <1>4

\* A step after which no more is ahead than before and that emits nothing.
LEMMA AheadShrinks ==
  ASSUME AheadInv, args' = args, task' = task, \A t \in Tasks : Ahead(t)' => Ahead(t)
  PROVE  AheadInv'
BY Shapes DEF AheadInv

LEMMA AheadStays ==
  ASSUME AheadInv, args' = args, main'.pc = main.pc, main'.query = main.query,
         query' = query, pc' = pc, at' = at, task' = task
  PROVE  AheadInv'
<1>1. \A t \in Tasks : Ahead(t)' => Ahead(t)
  BY DEF Ahead
<1> QED
  BY <1>1, AheadShrinks

LEMMA AheadNext ==
  ASSUME TypeInv, PhaseInv, AheadInv, [Next]_vars
  PROVE  AheadInv'
<1>1. args \in Args /\ args' = args /\ main.query \in Int /\ Tasks' = Tasks
  BY ArgsStay, Shapes DEF TypeInv
<1>2. CASE Spawn
  <2>1. main'.pc = main.pc /\ main'.query = main.query
    BY <1>2, SpawnDoes, TransitionType
  <2> QED
    BY <1>1, <1>2, <2>1, AheadStays DEF Spawn
<1>3. CASE ShutDown
  <2>1. main'.pc = main.pc /\ main'.query = main.query
    BY <1>3, ShutDownDoes, TransitionType
  <2> QED
    BY <1>1, <1>3, <2>1, AheadStays DEF ShutDown
<1>4. CASE NextQuery
  <2>1. main'.query = main.query + 1 /\ task' = task
    BY <1>4 DEF NextQuery, TypeInv
  <2>2. \A t \in Tasks : Ahead(t)' => t[1][1] > main.query
    BY <1>1, <2>1, TaskParts DEF Ahead
  <2>3. \A t \in Tasks : Ahead(t)' => Ahead(t)
    BY <2>2 DEF Ahead
  <2> QED
    BY <1>1, <2>1, <2>3, AheadShrinks
<1>5. CASE AdvanceQuery
  <2>1. main.pc = "query" /\ Len(query[main.query]) < 3 /\ main' = main /\ task' = task
    BY <1>5 DEF AdvanceQuery
  <2>2. \A t \in Tasks : Ahead(t)' => t[1][1] > main.query \/ t[1][1] = main.query
    BY <2>1 DEF Ahead
  <2>3. \A t \in Tasks : Ahead(t)' => Ahead(t)
    BY <2>1, <2>2 DEF Ahead
  <2> QED
    BY <1>1, <2>1, <2>3, AheadShrinks
<1>6. CASE EndQuery
  <2>1. /\ main.pc = "query" /\ AllJoined /\ at' = at /\ task' = task
        /\ main' = IF main.query < args.queries THEN [main EXCEPT !.pc = "spawn"]
                   ELSE [main EXCEPT !.pc = "shut_down", !.left = Resources]
    BY <1>6 DEF EndQuery
  <2>2. main'.query = main.query /\ main'.pc # "query"
    BY <2>1 DEF TypeInv
  <2>3. \A x \in Threads : at'[x] = None
    BY <2>1, CurrentType DEF AllJoined
  <2>4. \A t \in Tasks : Ahead(t)' => t[1][1] > main.query
    BY <1>1, <2>2, <2>3, TaskParts DEF Ahead
  <2>5. \A t \in Tasks : Ahead(t)' => Ahead(t)
    BY <2>4 DEF Ahead
  <2> QED
    BY <1>1, <2>1, <2>5, AheadShrinks
<1>7. CASE Tick
  BY <1>1, <1>7, AheadStays DEF Tick
<1>8. ASSUME NEW w \in args.workers, StartPlan(w) PROVE AheadInv'
  <2>1. /\ pc[w] = "lowering" /\ pc' = [pc EXCEPT ![w] = "running"]
        /\ at' = [x \in Threads |-> IF x[1] # w THEN at[x] ELSE First(x)]
        /\ main' = main /\ query' = query /\ task' = task
    BY <1>8, StartDoes DEF StartPlan
  <2>2. main.pc = "query"
    BY <2>1 DEF PhaseInv, Executing
  <2>3. ASSUME NEW t \in Tasks, Ahead(t)' PROVE Ahead(t)
    <3>1. t[1][2] \in args.workers /\ <<t[1][2], t[2]>> \in Threads
      BY <1>1, TaskParts
    <3>2. CASE t[1][2] = w
      <4>1. t[1][1] > main.query \/ t[1][1] = main.query
        BY <2>1, <2>3 DEF Ahead
      <4> QED
        BY <2>1, <2>2, <3>2, <4>1 DEF Ahead
    <3>3. CASE t[1][2] # w
      <4>1. at'[<<t[1][2], t[2]>>] = at[<<t[1][2], t[2]>>] /\ pc'[t[1][2]] = pc[t[1][2]]
        BY <2>1, <3>1, <3>3 DEF TypeInv
      <4> QED
        BY <2>1, <2>3, <4>1 DEF Ahead
    <3> QED
      BY <3>2, <3>3
  <2> QED
    BY <1>1, <2>1, <2>3, AheadShrinks
<1>9. ASSUME NEW w \in args.workers, LogStatistics(w) PROVE AheadInv'
  <2>1. /\ pc' = pc \/ pc' = [pc EXCEPT ![w] = "joined"]
        /\ main' = main /\ query' = query /\ at' = at /\ task' = task
    BY <1>9, LogDoes DEF LogStatistics
  <2>2. \A v \in args.workers : pc'[v] = "lowering" => pc[v] = "lowering"
    BY <2>1 DEF TypeInv
  <2>3. ASSUME NEW t \in Tasks, Ahead(t)' PROVE Ahead(t)
    <3>1. t[1][2] \in args.workers
      BY <1>1, TaskParts
    <3> QED
      BY <2>1, <2>2, <2>3, <3>1 DEF Ahead
  <2> QED
    BY <1>1, <2>1, <2>3, AheadShrinks
<1>10. ASSUME NEW x \in Threads, Emit(x) PROVE AheadInv'
  <2>1. at[x] # None /\ main' = main /\ query' = query /\ at' = at /\ pc' = pc
    BY <1>10 DEF Emit
  <2>2. \A t \in Tasks \ {Current(x)} : task'[t] = task[t]
    BY <1>10, EmitDoes DEF TypeInv
  <2>3. ~Ahead(Current(x))
    <3>1. /\ pc[x[1]] = "running" /\ Executing /\ <<x[1], x[2]>> = x
          /\ at[x][1] \in Int /\ at[x][2] \in Int
      BY <2>1, CurrentType
    <3>2. /\ Current(x)[1][1] = main.query /\ Current(x)[1][2] = x[1] /\ Current(x)[1][3] = at[x][2]
          /\ Current(x)[2] = x[2] /\ Current(x)[3] = at[x][1]
      BY DEF Current
    <3> HIDE DEF Current
    <3> QED
      BY <1>1, <3>1, <3>2 DEF Ahead, Executing
  <2>4. \A t \in Tasks : Ahead(t)' <=> Ahead(t)
    BY <2>1 DEF Ahead
  <2> QED
    BY <1>1, <2>2, <2>3, <2>4 DEF AheadInv
<1>11. ASSUME NEW x \in Threads, Count(x) PROVE AheadInv'
  <2>1. /\ at[x] # None /\ at' = [at EXCEPT ![x] = Onward(x)]
        /\ main' = main /\ query' = query /\ pc' = pc /\ task' = task
    BY <1>11, CountDoes DEF Count
  <2>2. at[x][1] \in Int /\ at[x][2] \in Int /\ x = <<x[1], x[2]>>
    BY <2>1, CurrentType
  <2>3. ASSUME NEW t \in Tasks, Ahead(t)' PROVE Ahead(t)
    <3>1. /\ t[1][1] \in Int /\ t[1][3] \in Int /\ t[3] \in Int /\ <<t[1][2], t[2]>> \in Threads
      BY <1>1, TaskParts
    <3>2. CASE <<t[1][2], t[2]>> # x
      <4>1. at'[<<t[1][2], t[2]>>] = at[<<t[1][2], t[2]>>]
        BY <2>1, <3>1, <3>2 DEF TypeInv
      <4> QED
        BY <2>1, <2>3, <4>1 DEF Ahead
    <3>3. CASE <<t[1][2], t[2]>> = x
      <4>1. at'[x] = Onward(x)
        BY <2>1 DEF TypeInv
      <4>2. Onward(x) # None =>
               \/ Onward(x)[1] = at[x][1] /\ Onward(x)[2] = at[x][2] + 1
               \/ Onward(x)[1] = at[x][1] + 1
        BY DEF Onward
      <4> HIDE DEF Onward
      <4>3. ASSUME Onward(x) # None,
                   t[3] > Onward(x)[1] \/ (t[3] = Onward(x)[1] /\ t[1][3] > Onward(x)[2])
            PROVE  t[3] > at[x][1] \/ (t[3] = at[x][1] /\ t[1][3] > at[x][2])
        BY <2>2, <3>1, <4>2, <4>3
      <4>4. \/ t[1][1] > main.query
            \/ /\ t[1][1] = main.query /\ main.pc = "query"
               /\ Len(query[main.query]) < 3 \/ pc[t[1][2]] = "lowering"
            \/ /\ t[1][1] = main.query /\ Onward(x) # None
               /\ t[3] > Onward(x)[1] \/ (t[3] = Onward(x)[1] /\ t[1][3] > Onward(x)[2])
        BY <2>1, <2>3, <3>3, <4>1 DEF Ahead
      <4> QED
        BY <2>1, <3>3, <4>3, <4>4 DEF Ahead
    <3> QED
      BY <3>2, <3>3
  <2> QED
    BY <1>1, <2>1, <2>3, AheadShrinks
<1>12. CASE UNCHANGED vars
  BY <1>1, <1>12, AheadStays DEF vars
<1> QED
  BY <1>2, <1>3, <1>4, <1>5, <1>6, <1>7, <1>8, <1>9, <1>10, <1>11, <1>12 DEF Next
-----------------------------------------------------------------------------
(* Resources.                                                              *)

LEMMA ResourceInit ==
  ASSUME Init
  PROVE  ResourceInv
<1>1. main.pc = "spawn" /\ main.left = Resources /\ \A r \in Resources : Len(resource[r]) = 0
  BY EmptySeq DEF Init
<1> QED
  BY <1>1 DEF ResourceInv

\* A resource entered a state: what that says of the sequences of all resources.
LEMMA ResourceGrows ==
  ASSUME TypeInv, NEW r \in Resources, NEW name \in OfResource, Transition(r, name)
  PROVE  /\ resource[r] \in Seq(Stamps) /\ Len(resource[r]) \in Nat
         /\ Len(resource'[r]) = Len(resource[r]) + 1
         /\ resource'[r][Len(resource[r]) + 1].ts = now
         /\ resource'[r][Len(resource[r]) + 1].name = name
         /\ \A i \in 1..Len(resource[r]) : resource'[r][i] = resource[r][i]
         /\ \A c \in Resources \ {r} : resource'[c] = resource[c]
<1>1. resource' = [resource EXCEPT ![r] = Append(@, Event(name))] /\ resource \in [Resources -> Seq(Stamps)]
  BY DEF Transition, TypeInv
<1>2. Event(name) \in Stamps /\ Event(name).ts = now /\ Event(name).name = name
  BY EventType DEF TypeInv, EventNames
<1> HIDE DEF Event
<1> QED
  BY <1>1, <1>2, Grows

\* One resource.
Living(r) ==
  LET n == Len(resource[r]) IN
  /\ n <= 4 /\ \A i \in 1..n : resource[r][i].name = Lifecycle[i]
  /\ main.pc = "spawn" => IF r \in main.left THEN n < 2 ELSE n = 2
  /\ main.pc = "query" => n = 2
  /\ main.pc = "shut_down" => IF r \in main.left THEN n \in {2, 3} ELSE n = 4

LEMMA ResourceNext ==
  ASSUME TypeInv, PhaseInv, ResourceInv, [Next]_vars
  PROVE  ResourceInv'
<1>1. args' = args /\ Resources' = Resources
  BY ArgsStay, Shapes
<1>2. /\ main.pc \in {"spawn", "query", "shut_down"}
      /\ main \in [pc : {"spawn", "query", "shut_down"}, query : 0..args.queries, left : SUBSET Resources]
      /\ \A r \in Resources : Len(resource[r]) \in Nat
  BY LenProperties DEF TypeInv
<1>3. \A r \in Resources : Living(r)
  BY DEF ResourceInv, Living
<1>4. SUFFICES \A r \in Resources : Living(r)'
  BY <1>1 DEF ResourceInv, Living
<1>5. CASE Spawn
  <2>1. PICK r \in main.left, name \in OfResource :
            /\ Transition(r, name)
            /\ \/ name = "initializing" /\ resource[r] = <<>> /\ main' = main
               \/ name = "operating" /\ resource[r] # <<>> /\ main' = [main EXCEPT !.left = @ \ {r}]
    BY <1>5, SpawnDoes
  <2> DEFINE n == Len(resource[r])
  <2>2. r \in Resources /\ main.pc = "spawn" /\ n \in Nat /\ n < 2
    BY <1>2, <1>3, <1>5, <2>1 DEF Spawn, Living
  <2>3. /\ main'.pc = "spawn"
        /\ \/ name = Lifecycle[1] /\ n = 0 /\ main'.left = main.left
           \/ name = Lifecycle[2] /\ n = 1 /\ main'.left = main.left \ {r}
    <3>1. resource[r] = <<>> <=> n = 0
      BY <2>2, EmptySeq DEF TypeInv
    <3>2. main'.pc = "spawn" /\ (main' = main => main'.left = main.left)
          /\ (main' = [main EXCEPT !.left = @ \ {r}] => main'.left = main.left \ {r})
      BY <1>2, <2>1, <2>2
    <3>3. Lifecycle[1] = "initializing" /\ Lifecycle[2] = "operating"
      BY DEF Lifecycle
    <3> HIDE DEF n
    <3>4. n = 0 \/ n = 1
      BY <2>2
    <3> QED
      BY <2>1, <3>1, <3>2, <3>3, <3>4
  <2>4. /\ Len(resource'[r]) = n + 1 /\ resource'[r][n + 1].name = name
        /\ \A i \in 1..n : resource'[r][i] = resource[r][i]
        /\ \A c \in Resources \ {r} : resource'[c] = resource[c]
    BY <2>1, <2>2, ResourceGrows
  <2>5. \A i \in 1..n : resource[r][i].name = Lifecycle[i]
    BY <1>3, <2>2 DEF Living
  <2> HIDE DEF n
  <2>6. Living(r)'
    <3>1. \A i \in 1..(n + 1) : i = n + 1 \/ i \in 1..n
      BY <2>2
    <3>2. \A i \in 1..(n + 1) : resource'[r][i].name = Lifecycle[i]
      BY <2>2, <2>3, <2>4, <2>5, <3>1
    <3>3. /\ n + 1 <= 4 /\ main'.pc = "spawn"
          /\ IF r \in main'.left THEN n + 1 < 2 ELSE n + 1 = 2
      BY <2>1, <2>2, <2>3
    <3> QED
      BY <2>4, <3>2, <3>3 DEF Living
  <2>7. ASSUME NEW c \in Resources \ {r} PROVE Living(c)'
    <3>1. Living(c) /\ resource'[c] = resource[c] /\ (c \in main'.left <=> c \in main.left)
      BY <1>3, <2>3, <2>4, <2>7
    <3> QED
      BY <2>2, <2>3, <3>1 DEF Living
  <2> QED
    BY <2>6, <2>7
<1>6. CASE ShutDown
  <2>1. PICK r \in main.left, name \in OfResource :
            /\ Transition(r, name)
            /\ \/ name = "finalizing" /\ Len(resource[r]) = 2 /\ main' = main
               \/ name = "exit" /\ Len(resource[r]) # 2 /\ main' = [main EXCEPT !.left = @ \ {r}]
    BY <1>6, ShutDownDoes
  <2> DEFINE n == Len(resource[r])
  <2>2. r \in Resources /\ main.pc = "shut_down" /\ n \in {2, 3}
    BY <1>2, <1>3, <1>6, <2>1 DEF ShutDown, Living
  <2>3. /\ main'.pc = "shut_down"
        /\ \/ name = Lifecycle[3] /\ n = 2 /\ main'.left = main.left
           \/ name = Lifecycle[4] /\ n = 3 /\ main'.left = main.left \ {r}
    <3>1. main'.pc = "shut_down" /\ (main' = main => main'.left = main.left)
          /\ (main' = [main EXCEPT !.left = @ \ {r}] => main'.left = main.left \ {r})
      BY <1>2, <2>1, <2>2
    <3>2. Lifecycle[3] = "finalizing" /\ Lifecycle[4] = "exit"
      BY DEF Lifecycle
    <3> HIDE DEF n
    <3> QED
      BY <2>1, <2>2, <3>1, <3>2 DEF n
  <2>4. /\ Len(resource'[r]) = n + 1 /\ resource'[r][n + 1].name = name
        /\ \A i \in 1..n : resource'[r][i] = resource[r][i]
        /\ \A c \in Resources \ {r} : resource'[c] = resource[c]
    BY <2>1, <2>2, ResourceGrows
  <2>5. \A i \in 1..n : resource[r][i].name = Lifecycle[i]
    BY <1>3, <2>2 DEF Living
  <2> HIDE DEF n
  <2>6. Living(r)'
    <3>1. \A i \in 1..(n + 1) : i = n + 1 \/ i \in 1..n
      BY <2>2
    <3>2. \A i \in 1..(n + 1) : resource'[r][i].name = Lifecycle[i]
      BY <2>2, <2>3, <2>4, <2>5, <3>1
    <3>3. /\ n + 1 <= 4 /\ main'.pc = "shut_down"
          /\ IF r \in main'.left THEN n + 1 \in {2, 3} ELSE n + 1 = 4
      BY <2>1, <2>2, <2>3
    <3> QED
      BY <2>4, <3>2, <3>3 DEF Living
  <2>7. ASSUME NEW c \in Resources \ {r} PROVE Living(c)'
    <3>1. Living(c) /\ resource'[c] = resource[c] /\ (c \in main'.left <=> c \in main.left)
      BY <1>3, <2>3, <2>4, <2>7
    <3> QED
      BY <2>2, <2>3, <3>1 DEF Living
  <2> QED
    BY <2>6, <2>7
<1>7. CASE NextQuery
  <2>1. main.pc = "spawn" /\ main.left = {} /\ main'.pc = "query" /\ resource' = resource
    BY <1>2, <1>7 DEF NextQuery
  <2> QED
    BY <1>3, <2>1 DEF Living
<1>8. CASE EndQuery
  <2>1. main.pc = "query" /\ main.left = {} /\ resource' = resource
    BY <1>8 DEF EndQuery, PhaseInv
  <2>2. \/ main'.pc = "spawn" /\ main'.left = {}
        \/ main'.pc = "shut_down" /\ main'.left = Resources
    BY <1>2, <1>8, <2>1 DEF EndQuery
  <2> QED
    BY <1>3, <2>1, <2>2 DEF Living
<1>9. CASE main' = main /\ resource' = resource
  BY <1>3, <1>9 DEF Living
<1> QED
  BY <1>5, <1>6, <1>7, <1>8, <1>9
     DEF Next, vars, AdvanceQuery, Tick, StartPlan, LogStatistics, Emit, Count
-----------------------------------------------------------------------------
(* Times.                                                                  *)

LEMMA TimeInit ==
  ASSUME Init
  PROVE  TimeInv
<1>1. /\ \A t \in Tasks : task[t] = <<>>
      /\ \A q \in Queries : query[q] = <<>>
      /\ \A r \in Resources : resource[r] = <<>>
  BY DEF Init
<1>2. Stamped(<<>>, now) /\ Len(<<>>) = 0
  BY EmptySeq DEF Stamped, Chronological
<1> QED
  BY <1>1, <1>2 DEF TimeInv

\* u is s with one more event, stamped at t.
Grown(s, u, t) == /\ Len(u) = Len(s) + 1 /\ u[Len(s) + 1].ts = t
                  /\ \A i \in 1..Len(s) : u[i] = s[i]

LEMMA StampedGrows ==
  ASSUME NEW s \in Seq(Stamps), NEW u, NEW t \in Nat, Stamped(s, t), u = s \/ Grown(s, u, t)
  PROVE  Stamped(u, t)
<1> SUFFICES ASSUME Grown(s, u, t) PROVE Stamped(u, t)
  OBVIOUS
<1> DEFINE n == Len(s)
<1>1. n \in Nat /\ Len(u) = n + 1 /\ u[n + 1].ts = t /\ \A i \in 1..n : u[i] = s[i]
  BY LenProperties DEF Grown
<1>2. \A i \in 1..n : s[i].ts <= t
  BY DEF Stamped
<1>3. \A i, j \in 1..n : i <= j => s[i].ts <= s[j].ts
  BY DEF Stamped, Chronological
<1> HIDE DEF n
<1>4. \A i \in 1..(n + 1) : i = n + 1 \/ (i \in 1..n /\ u[i] = s[i])
  BY <1>1
<1>5. \A i \in 1..(n + 1) : u[i].ts <= t
  BY <1>1, <1>2, <1>4
<1>6. \A i, j \in 1..(n + 1) : i <= j => u[i].ts <= u[j].ts
  <2> SUFFICES ASSUME NEW i \in 1..(n + 1), NEW j \in 1..(n + 1), i <= j
               PROVE  u[i].ts <= u[j].ts
    OBVIOUS
  <2>1. CASE j = n + 1
    BY <1>1, <1>5, <2>1
  <2>2. CASE j # n + 1
    <3>1. i \in 1..n /\ j \in 1..n /\ u[i] = s[i] /\ u[j] = s[j]
      BY <1>1, <1>4, <2>2
    <3> QED
      BY <1>3, <3>1
  <2> QED
    BY <2>1, <2>2
<1> QED
  BY <1>1, <1>5, <1>6 DEF Stamped, Chronological

LEMMA WithinGrows ==
  ASSUME NEW s \in Seq(Stamps), NEW u, NEW t \in Nat, u = s \/ Grown(s, u, t),
         NEW e \in Stamps, e.ts <= t, NEW k \in {2, 3}, Within(e, s, k)
  PROVE  Within(e, u, k)
<1> SUFFICES ASSUME Grown(s, u, t) PROVE Within(e, u, k)
  OBVIOUS
<1> DEFINE n == Len(s)
<1>1. n \in Nat /\ Len(u) = n + 1 /\ u[n + 1].ts = t /\ \A i \in 1..n : u[i] = s[i]
  BY LenProperties DEF Grown
<1>2. n >= k /\ s[k].ts <= e.ts /\ (n >= k + 1 => e.ts <= s[k + 1].ts)
  BY DEF Within
<1> HIDE DEF n
<1>3. n + 1 >= k /\ k \in 1..n /\ u[k] = s[k]
  BY <1>1, <1>2
<1>4. CASE n = k
  BY <1>1, <1>2, <1>3, <1>4 DEF Within
<1>5. CASE n # k
  <2>1. k + 1 \in 1..n /\ n >= k + 1
    BY <1>1, <1>2, <1>5
  <2>2. u[k + 1] = s[k + 1]
    BY <1>1, <2>1
  <2> QED
    BY <1>1, <1>2, <1>3, <2>1, <2>2 DEF Within
<1> QED
  BY <1>4, <1>5

\* Queries and resources may enter a state; tasks do not.
LEMMA TimeLogs ==
  ASSUME TypeInv, TimeInv, args' = args, now' = now, task' = task,
         \A q \in Queries : query'[q] = query[q] \/ Grown(query[q], query'[q], now),
         \A r \in Resources : resource'[r] = resource[r] \/ Grown(resource[r], resource'[r], now)
  PROVE  TimeInv'
<1>1. args \in Args /\ now \in Nat /\ Tasks' = Tasks /\ Queries' = Queries /\ Resources' = Resources
  BY Shapes, TimeAssumption DEF TypeInv
<1>2. /\ \A t \in Tasks : task[t] \in Seq(Stamps)
      /\ \A q \in Queries : query[q] \in Seq(Stamps)
      /\ \A r \in Resources : resource[r] \in Seq(Stamps)
  BY DEF TypeInv
<1>3. \A t \in Tasks : Stamped(task'[t], now')
  BY DEF TimeInv
<1>4. \A q \in Queries : Stamped(query'[q], now')
  <2> SUFFICES ASSUME NEW q \in Queries PROVE Stamped(query'[q], now)
    OBVIOUS
  <2>1. Stamped(query[q], now)
    BY DEF TimeInv
  <2> QED
    BY <1>1, <1>2, <2>1, StampedGrows
<1>5. \A r \in Resources : Stamped(resource'[r], now')
  <2> SUFFICES ASSUME NEW r \in Resources PROVE Stamped(resource'[r], now)
    OBVIOUS
  <2>1. Stamped(resource[r], now)
    BY DEF TimeInv
  <2> QED
    BY <1>1, <1>2, <2>1, StampedGrows
<1>6. ASSUME NEW t \in Tasks, NEW i \in 1..Len(task[t])
      PROVE  /\ Within(task[t][i], query'[t[1][1]], 3)
             /\ \A r \in Resources : Within(task[t][i], resource'[r], 2)
  <2>1. task[t][i] \in Stamps
    BY <1>2, ElementOfSeq
  <2>2. task[t][i].ts <= now
    BY DEF TimeInv, Stamped
  <2>3. t[1][1] \in Queries
    BY <1>1, TaskParts
  <2>4. /\ Within(task[t][i], query[t[1][1]], 3)
        /\ \A r \in Resources : Within(task[t][i], resource[r], 2)
    BY DEF TimeInv
  <2> DEFINE e == task[t][i]
             q == t[1][1]
  <2> HIDE DEF e, q
  <2>5. e \in Stamps /\ e.ts <= now /\ q \in Queries
    BY <2>1, <2>2, <2>3 DEF e, q
  <2>6. Within(e, query[q], 3) /\ \A r \in Resources : Within(e, resource[r], 2)
    BY <2>4 DEF e, q
  <2>7. Within(e, query'[q], 3)
    BY <1>1, <1>2, <2>5, <2>6, WithinGrows
  <2>8. \A r \in Resources : Within(e, resource'[r], 2)
    BY <1>1, <1>2, <2>5, <2>6, WithinGrows
  <2> QED
    BY <2>7, <2>8 DEF e, q
<1> QED
  BY <1>1, <1>3, <1>4, <1>5, <1>6 DEF TimeInv

LEMMA TimeNext ==
  ASSUME TypeInv, PhaseInv, ResourceInv, TimeInv, [Next]_vars
  PROVE  TimeInv'
<1>1. /\ args \in Args /\ args' = args /\ now \in Nat /\ Tasks' = Tasks /\ Queries' = Queries
      /\ Resources' = Resources
  BY ArgsStay, Shapes, TimeAssumption DEF TypeInv
<1>2. ASSUME NEW r \in Resources, NEW name \in OfResource, Transition(r, name),
             now' = now, task' = task, query' = query
      PROVE  TimeInv'
  <2>1. Grown(resource[r], resource'[r], now) /\ \A c \in Resources \ {r} : resource'[c] = resource[c]
    BY <1>2, ResourceGrows DEF Grown
  <2> QED
    BY <1>1, <1>2, <2>1, TimeLogs
<1>3. CASE Spawn
  <2>1. PICK r \in main.left, name \in OfResource : Transition(r, name)
    BY <1>3, SpawnDoes
  <2> QED
    BY <1>2, <1>3, <2>1 DEF Spawn, TypeInv
<1>4. CASE ShutDown
  <2>1. PICK r \in main.left, name \in OfResource : Transition(r, name)
    BY <1>4, ShutDownDoes
  <2> QED
    BY <1>2, <1>4, <2>1 DEF ShutDown, TypeInv
<1>5. CASE NextQuery \/ AdvanceQuery \/ EndQuery
  <2>1. now' = now /\ task' = task /\ resource' = resource
    BY <1>5 DEF NextQuery, AdvanceQuery, EndQuery
  <2>2. \A q \in Queries : query'[q] = query[q] \/ Grown(query[q], query'[q], now)
    <3> DEFINE m == main'.query
    <3>1. Grown(query[m], query'[m], now) /\ \A q \in Queries \ {m} : query'[q] = query[q]
      BY <1>5, QueryGrows DEF Grown
    <3> HIDE DEF m
    <3> QED
      BY <3>1
  <2> QED
    BY <1>1, <2>1, <2>2, TimeLogs
<1>6. CASE Tick
  <2>1. now' = now + 1 /\ task' = task /\ query' = query /\ resource' = resource
    BY <1>6 DEF Tick
  <2>2. ASSUME NEW s \in Seq(Stamps), Stamped(s, now) PROVE Stamped(s, now + 1)
    <3>1. \A i \in 1..Len(s) : s[i].ts \in Nat /\ s[i].ts <= now
      <4>1. \A i \in 1..Len(s) : s[i] \in Stamps /\ s[i].ts <= now
        BY <2>2, ElementOfSeq DEF Stamped
      <4>2. \A e \in Stamps : e.ts \in Nat
        BY TimeAssumption DEF Stamps
      <4> QED
        BY <4>1, <4>2
    <3>2. \A i \in 1..Len(s) : s[i].ts <= now + 1
      BY <1>1, <3>1
    <3> QED
      BY <2>2, <3>2 DEF Stamped
  <2>3. /\ \A t \in Tasks : Stamped(task[t], now + 1)
        /\ \A q \in Queries : Stamped(query[q], now + 1)
        /\ \A r \in Resources : Stamped(resource[r], now + 1)
    BY <2>2 DEF TimeInv, TypeInv
  <2> QED
    BY <1>1, <2>1, <2>3 DEF TimeInv
<1>7. ASSUME NEW x \in Threads, Emit(x) PROVE TimeInv'
  <2> DEFINE c == Current(x)
             n == Len(task[c])
  <2>1. PICK e \in Stamps : e.ts = now /\ task' = [task EXCEPT ![c] = Append(@, e)]
    BY <1>7, EmitDoes
  <2>2. c \in Tasks /\ task \in [Tasks -> Seq(Stamps)] /\ at[x] # None
    BY <1>7, EmitDoes DEF TypeInv
  <2>3. now' = now /\ query' = query /\ resource' = resource
    BY <1>7 DEF Emit
  <2>4. c[1][1] = main.query /\ Executing /\ main.query \in Queries
    BY <2>2, CurrentType DEF Current
  <2>5. Within(e, query[c[1][1]], 3)
    <3>1. Len(query[main.query]) = 3 /\ query[main.query][3].ts <= now
      BY <2>4 DEF Executing, TimeInv, Stamped
    <3>2. ~(3 >= 3 + 1)
      OBVIOUS
    <3> QED
      BY <2>1, <2>4, <3>1, <3>2 DEF Within
  <2>6. ASSUME NEW r \in Resources PROVE Within(e, resource[r], 2)
    <3>1. Len(resource[r]) = 2
      BY <2>4 DEF Executing, ResourceInv
    <3>2. resource[r][2].ts <= now
      BY <3>1 DEF TimeInv, Stamped
    <3> QED
      BY <2>1, <3>1, <3>2 DEF Within
  <2> HIDE DEF c
  <2>7. /\ n \in Nat /\ Len(task'[c]) = n + 1 /\ task'[c][n + 1] = e
        /\ \A i \in 1..n : task'[c][i] = task[c][i]
        /\ \A t \in Tasks \ {c} : task'[t] = task[t]
    BY <2>1, <2>2, Grows
  <2>8. \A t \in Tasks : Stamped(task'[t], now)
    <3>1. Grown(task[c], task'[c], now) /\ task[c] \in Seq(Stamps) /\ Stamped(task[c], now)
      BY <2>1, <2>2, <2>7 DEF Grown, TimeInv
    <3>2. Stamped(task'[c], now)
      BY <1>1, <3>1, StampedGrows
    <3> QED
      BY <2>7, <3>2 DEF TimeInv
  <2>9. ASSUME NEW t \in Tasks, NEW i \in 1..Len(task'[t])
        PROVE  /\ Within(task'[t][i], query[t[1][1]], 3)
               /\ \A r \in Resources : Within(task'[t][i], resource[r], 2)
    <3>1. CASE t # c
      BY <2>7, <3>1 DEF TimeInv
    <3>2. CASE t = c /\ i = n + 1
      BY <2>5, <2>6, <2>7, <3>2
    <3>3. CASE t = c /\ i # n + 1
      <4> HIDE DEF n
      <4>1. i \in 1..n
        BY <2>7, <3>3
      <4>2. task'[t][i] = task[t][i] /\ i \in 1..Len(task[t])
        BY <2>7, <3>3, <4>1 DEF n
      <4> QED
        BY <4>2 DEF TimeInv
    <3> QED
      BY <3>1, <3>2, <3>3
  <2> QED
    BY <1>1, <2>3, <2>8, <2>9 DEF TimeInv
<1>8. CASE now' = now /\ task' = task /\ query' = query /\ resource' = resource
  BY <1>1, <1>8, TimeLogs
<1> QED
  BY <1>3, <1>4, <1>5, <1>6, <1>7, <1>8 DEF Next, vars, StartPlan, LogStatistics, Count
-----------------------------------------------------------------------------
(* Counts.                                                                 *)

\* A task that has not begun has no states.
LEMMA NotBegun ==
  ASSUME NEW t, task[t] = <<>>
  PROVE  Names(task[t]) = {}
<1>1. DOMAIN <<>> = {}
  BY EmptySeq
<1> QED
  BY <1>1 DEF Names

LEMMA CountInit ==
  ASSUME Init
  PROVE  CountInv
<1>1. \A t \in Tasks : ~IsCounted(t)
  BY NotBegun DEF Init, IsCounted
<1>2. \A o \in Operators : Counted(o) = {}
  BY <1>1 DEF Counted
<1>3. /\ \A o \in Operators : processed[o] = 0
      /\ \A o \in Operators : statistics[o] = None
  BY DEF Init
<1> QED
  BY <1>2, <1>3, FS_EmptySet DEF CountInv

LEMMA TasksFinite ==
  ASSUME args \in Args
  PROVE  IsFiniteSet(Tasks)
<1>1. \A n \in Nat : IsFiniteSet(1..n)
  BY FS_Interval
<1>2. /\ IsFiniteSet(args.workers) /\ IsFiniteSet(1..args.threads) /\ IsFiniteSet(1..args.tasks)
      /\ IsFiniteSet(Queries) /\ IsFiniteSet(1..Len(args.plan))
  BY <1>1, ArgsType DEF Queries
<1>3. \A A, B, C : IsFiniteSet(A) /\ IsFiniteSet(B) /\ IsFiniteSet(C) => IsFiniteSet(A \X B \X C)
  <2> SUFFICES ASSUME NEW A, NEW B, NEW C, IsFiniteSet(A), IsFiniteSet(B), IsFiniteSet(C)
               PROVE  IsFiniteSet(A \X B \X C)
    OBVIOUS
  <2> DEFINE P == (A \X B) \X C
             f == [p \in P |-> <<p[1][1], p[1][2], p[2]>>]
  <2>1. IsFiniteSet(P)
    <3>1. IsFiniteSet(A \X B)
      BY FS_Product
    <3> QED
      BY <3>1, FS_Product
  <2>2. f \in Surjection(P, A \X B \X C)
    <3>1. f \in [P -> A \X B \X C]
      OBVIOUS
    <3>2. ASSUME NEW t \in A \X B \X C PROVE \E p \in P : f[p] = t
      <4>1. <<<<t[1], t[2]>>, t[3]>> \in P /\ t = <<t[1], t[2], t[3]>>
        OBVIOUS
      <4>2. f[<<<<t[1], t[2]>>, t[3]>>] = t
        BY <4>1
      <4> QED
        BY <4>1, <4>2
    <3> QED
      BY <3>1, <3>2 DEF Surjection
  <2> HIDE DEF P, f
  <2> QED
    BY <2>1, <2>2, FS_Surjection
<1>4. IsFiniteSet(Operators)
  BY <1>2, <1>3 DEF Operators
<1> QED
  BY <1>2, <1>3, <1>4 DEF Tasks

\* A step that counts no task and after which no operator is less settled.
LEMMA CountStays ==
  ASSUME CountInv, args' = args, processed' = processed, statistics' = statistics,
         \A t \in Tasks : IsCounted(t)' <=> IsCounted(t),
         \A o \in Operators : Settled(o) => Settled(o)'
  PROVE  CountInv'
<1>1. Operators' = Operators /\ Tasks' = Tasks
  BY Shapes
<1>2. \A o \in Operators : Counted(o)' = Counted(o)
  BY <1>1 DEF Counted
<1> QED
  BY <1>1, <1>2 DEF CountInv

LEMMA CountNext ==
  ASSUME TypeInv, PhaseInv, AheadInv, CountInv, [Next]_vars
  PROVE  CountInv'
<1>1. /\ args \in Args /\ args' = args /\ main.query \in Int /\ Threads' = Threads
      /\ Operators' = Operators /\ Tasks' = Tasks
      /\ \A o \in Operators : o[1] \in Int /\ o[2] \in args.workers
  BY ArgsStay, Shapes DEF TypeInv, Operators, Queries
<1>2. ASSUME main'.pc = main.pc, main'.query = main.query, query' = query, pc' = pc, at' = at,
             task' = task, processed' = processed, statistics' = statistics
      PROVE  CountInv'
  <2>1. \A x : Current(x)' = Current(x)
    BY <1>2 DEF Current
  <2>2. \A t \in Tasks : IsCounted(t)' <=> IsCounted(t)
    BY <1>1, <1>2, <2>1 DEF IsCounted
  <2>3. \A o \in Operators : Settled(o)' <=> Settled(o)
    BY <1>1, <1>2 DEF Settled, Executing, ScopeEnds
  <2> QED
    BY <1>1, <1>2, <2>2, <2>3, CountStays
<1>3. CASE Spawn
  <2>1. main'.pc = main.pc /\ main'.query = main.query
    BY <1>3, SpawnDoes, TransitionType
  <2> QED
    BY <1>2, <1>3, <2>1 DEF Spawn
<1>4. CASE ShutDown
  <2>1. main'.pc = main.pc /\ main'.query = main.query
    BY <1>4, ShutDownDoes, TransitionType
  <2> QED
    BY <1>2, <1>4, <2>1 DEF ShutDown
<1>5. CASE NextQuery
  <2>1. /\ main.pc = "spawn" /\ main'.query = main.query + 1 /\ at' = at /\ task' = task
        /\ processed' = processed /\ statistics' = statistics
    BY <1>5 DEF NextQuery, TypeInv
  <2>2. \A x \in Threads : at[x] = None
    BY <2>1, CurrentType DEF Executing
  <2>3. \A t \in Tasks : IsCounted(t)' <=> IsCounted(t)
    BY <1>1, <2>1, <2>2 DEF IsCounted
  <2>4. ASSUME NEW o \in Operators, Settled(o) PROVE Settled(o)'
    <3>1. o[1] < main'.query
      BY <1>1, <2>1, <2>4 DEF Settled
    <3> QED
      BY <3>1 DEF Settled
  <2> QED
    BY <1>1, <2>1, <2>3, <2>4, CountStays
<1>6. CASE AdvanceQuery
  <2>1. /\ main.pc = "query" /\ Len(query[main.query]) < 3 /\ main' = main /\ at' = at /\ task' = task
        /\ processed' = processed /\ statistics' = statistics
    BY <1>6 DEF AdvanceQuery
  <2>2. \A x : Current(x)' = Current(x)
    BY <2>1 DEF Current
  <2>3. \A t \in Tasks : IsCounted(t)' <=> IsCounted(t)
    BY <1>1, <2>1, <2>2 DEF IsCounted
  <2>4. ~Executing
    <3> DEFINE n == Len(query[main.query])
    <3>1. n < 3
      BY <2>1
    <3> HIDE DEF n
    <3>2. n # 3
      BY <3>1
    <3> QED
      BY <3>2 DEF Executing, n
  <2>5. \A o \in Operators : Settled(o) => Settled(o)'
    BY <2>1, <2>4 DEF Settled
  <2> QED
    BY <1>1, <2>1, <2>3, <2>5, CountStays
<1>7. CASE EndQuery
  <2>1. /\ main.pc = "query" /\ at' = at /\ task' = task
        /\ processed' = processed /\ statistics' = statistics
        /\ main' = IF main.query < args.queries THEN [main EXCEPT !.pc = "spawn"]
                   ELSE [main EXCEPT !.pc = "shut_down", !.left = Resources]
    BY <1>7 DEF EndQuery
  <2>2. main'.query = main.query /\ main'.pc # "query"
    BY <2>1 DEF TypeInv
  <2>3. \A x : Current(x)' = Current(x)
    BY <2>1, <2>2 DEF Current
  <2>4. \A t \in Tasks : IsCounted(t)' <=> IsCounted(t)
    BY <1>1, <2>1, <2>3 DEF IsCounted
  <2>5. \A o \in Operators : Settled(o) => Settled(o)'
    BY <2>2 DEF Settled
  <2> QED
    BY <1>1, <2>1, <2>4, <2>5, CountStays
<1>8. CASE Tick
  BY <1>2, <1>8 DEF Tick
<1>9. ASSUME NEW w \in args.workers, StartPlan(w) PROVE CountInv'
  <2>1. /\ pc[w] = "lowering" /\ pc' = [pc EXCEPT ![w] = "running"]
        /\ at' = [x \in Threads |-> IF x[1] # w THEN at[x] ELSE First(x)]
        /\ main' = main /\ query' = query /\ task' = task
        /\ processed' = processed /\ statistics' = statistics
    BY <1>9, StartDoes DEF StartPlan
  <2>2. Executing /\ \A x \in Threads : x[1] = w => at[x] = None
    BY <2>1 DEF PhaseInv
  <2>3. ASSUME NEW t \in Tasks, "exit" \in Names(task[t]), NEW x \in Threads, x[1] = w
        PROVE  Current(x)' # t
    <3> SUFFICES ASSUME Current(x)' = t PROVE FALSE
      OBVIOUS
    <3>1. t[1][1] = main.query /\ t[1][2] = w
      BY <2>1, <2>3 DEF Current
    <3>2. Ahead(t)
      BY <2>1, <2>2, <3>1 DEF Ahead, Executing
    <3> QED
      BY <2>3, <3>2, NotBegun DEF AheadInv
  <2>4. \A x \in Threads : x[1] # w => at'[x] = at[x] /\ Current(x)' = Current(x)
    BY <2>1 DEF Current
  <2>5. \A t \in Tasks : IsCounted(t)' <=> IsCounted(t)
    BY <1>1, <2>1, <2>2, <2>3, <2>4 DEF IsCounted
  <2>6. ASSUME NEW o \in Operators, Settled(o) PROVE Settled(o)'
    <3>1. CASE o[2] = w
      BY <2>1, <2>2, <2>6, <3>1 DEF Settled, Executing
    <3>2. CASE o[2] # w
      <4>1. pc'[o[2]] = pc[o[2]] /\ \A k \in 1..args.threads : at'[<<o[2], k>>] = at[<<o[2], k>>]
        BY <1>1, <2>1, <2>4, <3>2 DEF TypeInv, Threads
      <4>2. ScopeEnds(o[2]) => ScopeEnds(o[2])'
        BY <1>1, <4>1 DEF ScopeEnds
      <4>3. Executing'
        BY <2>1, <2>2 DEF Executing
      <4> QED
        BY <2>1, <2>6, <4>1, <4>2, <4>3 DEF Settled
    <3> QED
      BY <3>1, <3>2
  <2> QED
    BY <1>1, <2>1, <2>5, <2>6, CountStays
<1>10. ASSUME NEW w \in args.workers, LogStatistics(w) PROVE CountInv'
  <2>1. /\ pc[w] = "running" /\ ScopeEnds(w) /\ Executing
        /\ \/ pc' = [pc EXCEPT ![w] = "joined"] /\ statistics' = statistics
           \/ pc' = pc /\ \E o \in Operators :
                            /\ o[1] = main.query /\ o[2] = w /\ statistics[o] = None
                            /\ statistics' = [statistics EXCEPT ![o] = processed[o]]
    BY <1>10, LogDoes
  <2>2. main' = main /\ query' = query /\ at' = at /\ task' = task /\ processed' = processed
    BY <1>10 DEF LogStatistics
  <2>3. \A x : Current(x)' = Current(x)
    BY <2>2 DEF Current
  <2>4. \A t \in Tasks : IsCounted(t)' <=> IsCounted(t)
    BY <1>1, <2>2, <2>3 DEF IsCounted
  <2>5. \A v \in args.workers : pc'[v] = "lowering" => pc[v] = "lowering"
    BY <2>1 DEF TypeInv
  <2>6. \A v : ScopeEnds(v)' <=> ScopeEnds(v)
    BY <1>1, <2>2 DEF ScopeEnds
  <2>7. Executing'
    BY <2>1, <2>2 DEF Executing
  <2>8. \A o \in Operators : Settled(o) => Settled(o)'
    BY <1>1, <2>2, <2>5, <2>6, <2>7 DEF Settled
  <2>9. CASE statistics' = statistics
    BY <1>1, <2>2, <2>4, <2>8, <2>9, CountStays
  <2>10. CASE pc' = pc /\ \E o \in Operators :
                            /\ o[1] = main.query /\ o[2] = w /\ statistics[o] = None
                            /\ statistics' = [statistics EXCEPT ![o] = processed[o]]
    <3>1. PICK o \in Operators : /\ o[1] = main.query /\ o[2] = w /\ statistics[o] = None
                                 /\ statistics' = [statistics EXCEPT ![o] = processed[o]]
      BY <2>10
    <3>2. Settled(o)'
      BY <2>1, <2>2, <2>6, <2>7, <2>10, <3>1 DEF Settled
    <3>3. \A p \in Operators : statistics'[p] # None => statistics'[p] = processed'[p] /\ Settled(p)'
      <4>1. statistics'[o] = processed[o] /\ \A p \in Operators \ {o} : statistics'[p] = statistics[p]
        BY <3>1 DEF TypeInv
      <4> QED
        BY <2>2, <2>8, <3>2, <4>1 DEF CountInv
    <3>4. \A p \in Operators : Counted(p)' = Counted(p)
      BY <1>1, <2>4 DEF Counted
    <3> QED
      BY <1>1, <2>2, <3>3, <3>4 DEF CountInv
  <2> QED
    BY <2>1, <2>9, <2>10
<1>11. ASSUME NEW x \in Threads, Emit(x) PROVE CountInv'
  <2>1. /\ at[x] # None /\ main' = main /\ query' = query /\ at' = at /\ pc' = pc
        /\ processed' = processed /\ statistics' = statistics
    BY <1>11 DEF Emit
  <2>2. \A t \in Tasks \ {Current(x)} : task'[t] = task[t]
    BY <1>11, EmitDoes DEF TypeInv
  <2>3. \A y : Current(y)' = Current(y)
    BY <2>1 DEF Current
  <2>4. ASSUME NEW t \in Tasks PROVE IsCounted(t)' <=> IsCounted(t)
    <3>1. CASE t = Current(x)
      <4>1. ~IsCounted(t)
        BY <2>1, <3>1 DEF IsCounted
      <4>2. ~IsCounted(t)'
        BY <1>1, <2>1, <2>3, <3>1 DEF IsCounted
      <4> QED
        BY <4>1, <4>2
    <3>2. CASE t # Current(x)
      <4>1. Names(task[t])' = Names(task[t])
        BY <2>2, <3>2 DEF Names
      <4> QED
        BY <1>1, <2>1, <2>3, <4>1 DEF IsCounted
    <3> QED
      BY <3>1, <3>2
  <2>5. \A o \in Operators : Settled(o)' <=> Settled(o)
    BY <1>1, <2>1 DEF Settled, Executing, ScopeEnds
  <2> QED
    BY <1>1, <2>1, <2>4, <2>5, CountStays
<1>12. ASSUME NEW x \in Threads, Count(x) PROVE CountInv'
  <2>0. PICK c : c = Current(x)
    OBVIOUS
  <2> DEFINE o == c[1]
  <2>1. /\ at[x] # None /\ "exit" \in Names(task[c])
        /\ at' = [at EXCEPT ![x] = Onward(x)] /\ processed' = [processed EXCEPT ![o] = @ + 1]
        /\ main' = main /\ query' = query /\ pc' = pc /\ task' = task /\ statistics' = statistics
    BY <1>12, <2>0, CountDoes DEF Count
  <2>2. /\ x[1] \in args.workers /\ x[2] \in 1..args.threads /\ x = <<x[1], x[2]>>
        /\ at[x][1] \in Int /\ at[x][2] \in Int /\ pc[x[1]] = "running" /\ Executing
        /\ c \in Tasks /\ o \in Operators
    BY <2>0, <2>1, CurrentType
  <2>3. o[1] = main.query /\ o[2] = x[1] /\ o[3] = at[x][2] /\ c[2] = x[2] /\ c[3] = at[x][1]
    BY <2>0 DEF Current
  <2>4. at'[x] = Onward(x) /\ \A y \in Threads \ {x} : at'[y] = at[y] /\ Current(y)' = Current(y)
    BY <2>1 DEF TypeInv, Current
  <2>5. ASSUME NEW t \in Tasks, "exit" \in Names(task[t]), at'[x] # None PROVE Current(x)' # t
    <3> SUFFICES ASSUME Current(x)' = t PROVE FALSE
      OBVIOUS
    <3>1. /\ t[1][1] = main.query /\ t[1][2] = x[1] /\ t[1][3] = Onward(x)[2]
          /\ t[2] = x[2] /\ t[3] = Onward(x)[1]
      BY <2>1, <2>4 DEF Current
    <3>2. \/ Onward(x)[1] = at[x][1] /\ Onward(x)[2] = at[x][2] + 1
          \/ Onward(x)[1] = at[x][1] + 1
      BY <2>4, <2>5 DEF Onward
    <3> HIDE DEF Onward
    <3>3. t[3] > at[x][1] \/ (t[3] = at[x][1] /\ t[1][3] > at[x][2])
      BY <2>2, <3>1, <3>2
    <3>4. Ahead(t)
      BY <2>1, <2>2, <3>1, <3>3 DEF Ahead
    <3> QED
      BY <2>5, <3>4, NotBegun DEF AheadInv
  <2>6. \A y \in Threads \ {x} : Current(y) # c
    BY <2>0, CurrentOwn
  <2>7. \A t \in Tasks : IsCounted(t)' <=> (IsCounted(t) \/ t = c)
    <3> SUFFICES ASSUME NEW t \in Tasks PROVE IsCounted(t)' <=> (IsCounted(t) \/ t = c)
      OBVIOUS
    <3>1. Names(task[t])' = Names(task[t])
      BY <2>1 DEF Names
    <3>2. IsCounted(t)' <=> /\ "exit" \in Names(task[t])
                            /\ \A y \in Threads \ {x} : at[y] # None => Current(y) # t
      BY <1>1, <2>4, <2>5, <3>1 DEF IsCounted
    <3>3. IsCounted(t) <=> /\ "exit" \in Names(task[t]) /\ t # c
                           /\ \A y \in Threads \ {x} : at[y] # None => Current(y) # t
      BY <2>0, <2>1 DEF IsCounted
    <3> QED
      BY <2>1, <2>6, <3>2, <3>3
  <2>8. c \notin Counted(o)
    BY <2>0, <2>1 DEF Counted, IsCounted
  <2>9. Counted(o)' = Counted(o) \union {c} /\ \A p \in Operators \ {o} : Counted(p)' = Counted(p)
    BY <1>1, <2>2, <2>7 DEF Counted
  <2>10. Cardinality(Counted(o) \union {c}) = Cardinality(Counted(o)) + 1
    <3>1. IsFiniteSet(Counted(o))
      BY <1>1, TasksFinite, FS_Subset DEF Counted
    <3> QED
      BY <2>8, <3>1, FS_AddElement
  <2>11. /\ processed'[o] = processed[o] + 1
         /\ \A p \in Operators \ {o} : processed'[p] = processed[p]
    BY <2>1, <2>2 DEF TypeInv
  <2>12. ~Settled(o)
    <3>1. ~ScopeEnds(x[1])
      BY <2>1, <2>2 DEF ScopeEnds
    <3> QED
      BY <1>1, <2>2, <2>3, <3>1 DEF Settled, Executing
  <2>13. ASSUME NEW p \in Operators \ {o}, Settled(p) PROVE Settled(p)'
    <3>1. CASE p[2] = x[1] /\ p[1] = main.query
      <4>1. ~ScopeEnds(x[1])
        BY <2>1, <2>2 DEF ScopeEnds
      <4> QED
        BY <1>1, <2>2, <2>13, <3>1, <4>1 DEF Settled, Executing
    <3>2. CASE p[1] # main.query
      BY <2>1, <2>13, <3>2 DEF Settled
    <3>3. CASE p[2] # x[1]
      <4>1. \A k \in 1..args.threads : at'[<<p[2], k>>] = at[<<p[2], k>>]
        BY <1>1, <2>4, <3>3 DEF Threads
      <4>2. ScopeEnds(p[2]) => ScopeEnds(p[2])'
        BY <1>1, <4>1 DEF ScopeEnds
      <4>3. Executing'
        BY <2>1, <2>2 DEF Executing
      <4> QED
        BY <2>1, <2>13, <4>2, <4>3 DEF Settled
    <3> QED
      BY <3>1, <3>2, <3>3
  <2> HIDE DEF o
  <2>14. \A p \in Operators : processed'[p] = Cardinality(Counted(p)')
    BY <2>9, <2>10, <2>11 DEF CountInv
  <2>15. \A p \in Operators : statistics'[p] # None => statistics'[p] = processed'[p] /\ Settled(p)'
    BY <2>1, <2>11, <2>12, <2>13 DEF CountInv
  <2> QED
    BY <1>1, <2>14, <2>15 DEF CountInv
<1>13. CASE UNCHANGED vars
  BY <1>2, <1>13 DEF vars
<1> QED
  BY <1>3, <1>4, <1>5, <1>6, <1>7, <1>8, <1>9, <1>10, <1>11, <1>12, <1>13 DEF Next
-----------------------------------------------------------------------------
(* The invariant, and what it says of a run.                               *)

\* IInv is an invariant: the phases of queries, workers and threads, what is ahead of
\* them, the life of the resources, the stamps and the counters hold together in every
\* state (Engine::spawn, Worker::execute_logical_plan, Engine::shut_down).
THEOREM Invariance == Spec => []IInv
<1>1. Init => IInv
  BY TypeInit, PhaseInit, AheadInit, ResourceInit, TimeInit, CountInit DEF IInv
<1>2. IInv /\ [Next]_vars => IInv'
  BY TypeNext, PhaseNext, AheadNext, ResourceNext, TimeNext, CountNext DEF IInv
<1> QED
  BY <1>1, <1>2, PTL DEF Spec

\* No thread is at a task of an operator that is settled.
LEMMA SettledCounts ==
  ASSUME IInv, NEW o \in Operators, Settled(o)
  PROVE  Counted(o) = {x \in Rebuilt(o) : "exit" \in Names(task[x])}
<1>1. TypeInv /\ PhaseInv /\ main.query \in Int /\ o[1] \in Int
  BY DEF IInv, TypeInv, Operators, Queries
<1>2. ASSUME NEW x \in Threads, at[x] # None PROVE Current(x)[1] # o
  <2> SUFFICES ASSUME Current(x)[1] = o PROVE FALSE
    OBVIOUS
  <2>1. o[1] = main.query /\ o[2] = x[1]
    BY DEF Current
  <2>2. Executing /\ x = <<x[1], x[2]>> /\ x[2] \in 1..args.threads
    BY <1>1, <1>2, CurrentType
  <2>3. ~ScopeEnds(x[1])
    BY <1>2, <2>2 DEF ScopeEnds
  <2> QED
    BY <1>1, <2>1, <2>2, <2>3 DEF Settled, Executing
<1>3. \A t \in Tasks : "exit" \in Names(task[t]) => task[t] # <<>>
  BY NotBegun
<1>4. \A t \in Tasks : t[1] = o => (IsCounted(t) <=> "exit" \in Names(task[t]))
  BY <1>2 DEF IsCounted
<1> QED
  BY <1>3, <1>4 DEF Counted, Rebuilt

\* Statistics, once logged, carry the number of the operator's tasks that ran to their
\* exit, then and ever after (Worker::execute_logical_plan).
THEOREM StatisticsAreCounts == Spec => []StatisticsCountTasks
<1>1. ASSUME IInv PROVE StatisticsCountTasks
  <2> SUFFICES ASSUME NEW o \in Operators, statistics[o] # None
               PROVE  statistics[o] = Cardinality({x \in Rebuilt(o) : "exit" \in Names(task[x])})
    BY DEF StatisticsCountTasks
  <2>1. statistics[o] = processed[o] /\ Settled(o) /\ processed[o] = Cardinality(Counted(o))
    BY <1>1 DEF IInv, CountInv
  <2> QED
    BY <1>1, <2>1, SettledCounts
<1> QED
  BY <1>1, Invariance, PTL

\* What was stamped is in the order of its time, so collecting it changes nothing.
LEMMA StampedInOrder ==
  ASSUME TypeInv, TimeInv
  PROVE  /\ \A t \in Tasks : Ordered(task[t]) = task[t]
         /\ \A q \in Queries : Ordered(query[q]) = query[q]
         /\ \A r \in Resources : Ordered(resource[r]) = resource[r]
<1>1. \A e \in Stamps : e.ts \in Int
  BY TimeAssumption DEF Stamps
<1>2. ASSUME NEW s \in Seq(Stamps), Stamped(s, now) PROVE Ordered(s) = s
  BY <1>1, <1>2, OrderedIsSame DEF Stamped
<1>3. /\ \A t \in Tasks : task[t] \in Seq(Stamps) /\ Stamped(task[t], now)
      /\ \A q \in Queries : query[q] \in Seq(Stamps) /\ Stamped(query[q], now)
      /\ \A r \in Resources : resource[r] \in Seq(Stamps) /\ Stamped(resource[r], now)
  BY DEF TypeInv, TimeInv
<1> QED
  BY <1>2, <1>3

\* The events of a task, when the run has ended.
LEMMA EndedEvents ==
  ASSUME IInv, Ended, NEW t \in Tasks, NEW i \in 1..Len(task[t])
  PROVE  /\ task[t][i] \in Stamps
         /\ query[t[1][1]][3].ts <= task[t][i].ts /\ task[t][i].ts <= query[t[1][1]][4].ts
         /\ \A r \in Resources : resource[r][2].ts <= task[t][i].ts /\ task[t][i].ts <= resource[r][3].ts
<1>1. task[t][i] \in Stamps
  BY ElementOfSeq DEF IInv, TypeInv
<1>2. /\ Within(task[t][i], query[t[1][1]], 3)
      /\ \A r \in Resources : Within(task[t][i], resource[r], 2)
  BY DEF IInv, TimeInv
<1>3. Len(query[t[1][1]]) = 4
  <2>1. /\ main.pc = "shut_down" /\ main.query = args.queries
        /\ t[1][1] \in Queries /\ args.queries \in Nat
    BY TaskParts, ArgsType DEF IInv, TypeInv, PhaseInv, Ended
  <2>2. t[1][1] < main.query \/ (t[1][1] = main.query /\ main.pc # "query")
    BY <2>1 DEF Queries
  <2> QED
    BY <2>1, <2>2 DEF IInv, PhaseInv
<1>4. \A r \in Resources : Len(resource[r]) = 4
  BY DEF IInv, ResourceInv, Ended
<1>5. \A r \in Resources : resource[r][2].ts <= task[t][i].ts /\ task[t][i].ts <= resource[r][3].ts
  <2>1. 4 >= 2 + 1 /\ 2 + 1 = 3
    OBVIOUS
  <2> QED
    BY <1>2, <1>4, <2>1 DEF Within
<1>6. query[t[1][1]][3].ts <= task[t][i].ts /\ task[t][i].ts <= query[t[1][1]][4].ts
  <2>1. 4 >= 3 + 1 /\ 3 + 1 = 4
    OBVIOUS
  <2> QED
    BY <1>2, <1>3, <2>1 DEF Within
<1> QED
  BY <1>1, <1>5, <1>6

\* When the run has ended, the model builds.
LEMMA EndedBuilds ==
  ASSUME IInv, Ended
  PROVE  Builds
<1>1. \A r \in Resources : /\ Len(resource[r]) = 4 /\ resource[r][1].name = "initializing"
                           /\ resource[r][4].name = "exit"
  <2>1. \A r \in Resources : Len(resource[r]) = 4 /\ \A i \in 1..4 : resource[r][i].name = Lifecycle[i]
    BY DEF IInv, ResourceInv, Ended
  <2>2. Lifecycle[1] = "initializing" /\ Lifecycle[4] = "exit"
    BY DEF Lifecycle
  <2> QED
    BY <2>1, <2>2
<1>2. \A r \in Resources : ResourceBuilds(Ordered(resource[r]))
  BY <1>1, StampedInOrder DEF IInv, ResourceBuilds
<1>3. \A r \in Resources : resource[r] # <<>>
  BY <1>1, EmptySeq
<1>4. \A t \in Tasks : \A i \in DOMAIN task[t] : task[t][i].uses \subseteq Resources
  <2>1. \A t \in Tasks : DOMAIN task[t] = 1..Len(task[t])
    BY LenProperties DEF IInv, TypeInv
  <2>2. \A t \in Tasks : \A i \in 1..Len(task[t]) : task[t][i] \in Stamps
    BY EndedEvents
  <2> QED
    BY <2>1, <2>2 DEF Stamps
<1> QED
  BY <1>2, <1>3, <1>4 DEF Builds

\* How far a resource is, by where the main thread is.
LEMMA HowFar ==
  ASSUME IInv, NEW r \in Resources
  PROVE  /\ main.pc \in {"spawn", "query", "shut_down"}
         /\ Len(resource[r]) \in Nat /\ (resource[r] = <<>> <=> Len(resource[r]) = 0)
         /\ main.pc = "spawn" => Len(resource[r]) < 3
         /\ main.pc = "spawn" /\ r \notin main.left => Len(resource[r]) = 2
         /\ main.pc = "query" => Len(resource[r]) = 2
         /\ main.pc = "shut_down" /\ r \in main.left => Len(resource[r]) \in {2, 3}
         /\ main.pc = "shut_down" => Len(resource[r]) \in {2, 3, 4}
<1>1. main.pc \in {"spawn", "query", "shut_down"}
  BY DEF IInv, TypeInv
<1>2. resource[r] \in Seq(Stamps)
  BY DEF IInv, TypeInv
<1>3. Len(resource[r]) \in Nat /\ (resource[r] = <<>> <=> Len(resource[r]) = 0)
  BY <1>2, LenProperties, EmptySeq
<1>4. ResourceInv
  BY DEF IInv
<1> QED
  BY <1>1, <1>3, <1>4 DEF ResourceInv

\* Before the run has begun, there is nothing to build.
LEMMA UnbegunBuilds ==
  ASSUME IInv, \A r \in Resources : resource[r] = <<>>
  PROVE  Builds
<1>1. PICK r : r \in Resources
  <2>1. args \in Args
    BY DEF IInv, TypeInv
  <2>2. args.workers # {}
    BY <2>1, ArgsAssumption
  <2>3. PICK w : w \in args.workers
    BY <2>2
  <2>4. Memory(w) \in Resources
    BY <2>3 DEF Resources
  <2> QED
    BY <2>4
<1>2. Len(resource[r]) = 0
  BY <1>1, HowFar
<1>3. main.pc = "spawn" /\ r \in main.left
  <2>1. /\ main.pc \in {"spawn", "query", "shut_down"}
        /\ main.pc = "spawn" /\ r \notin main.left => Len(resource[r]) = 2
        /\ main.pc = "query" => Len(resource[r]) = 2
        /\ main.pc = "shut_down" => Len(resource[r]) \in {2, 3, 4}
    BY <1>1, HowFar
  <2> QED
    BY <1>2, <2>1
<1>4. main.query = 0
  <2>1. main.query \in Nat /\ main.left # {}
    <3>1. args \in Args /\ main.query \in 0..args.queries
      BY DEF IInv, TypeInv
    <3>2. args.queries \in Nat
      BY <3>1, ArgsType
    <3> QED
      BY <1>3, <3>1, <3>2
  <2>2. ~(main.query > 0)
    BY <1>3, <2>1 DEF IInv, PhaseInv
  <2> QED
    BY <2>1, <2>2
<1>5. ASSUME NEW t \in Tasks PROVE task[t] = <<>>
  <2>1. t[1][1] \in 1..args.queries
    BY TaskParts DEF IInv, TypeInv, Queries
  <2>2. Ahead(t)
    BY <1>4, <2>1 DEF Ahead
  <2> QED
    BY <2>2 DEF IInv, AheadInv
<1>6. \A t \in Tasks : DOMAIN task[t] = {}
  BY <1>5
<1> QED
  BY <1>6 DEF Builds

\* In between, there is a resource that does not build.
LEMMA CutShort ==
  ASSUME IInv, ~Ended, NEW r \in Resources, resource[r] # <<>>
  PROVE  ~Builds
<1>1. PICK u \in Resources : resource[u] # <<>> /\ Len(resource[u]) < 4
  <2>1. CASE main.pc = "shut_down"
    <3>1. PICK u : u \in main.left
      BY <2>1 DEF Ended
    <3>2. u \in Resources
      BY <3>1 DEF IInv, TypeInv
    <3>3. /\ Len(resource[u]) \in {2, 3}
          /\ (resource[u] = <<>> <=> Len(resource[u]) = 0)
      BY <2>1, <3>1, <3>2, HowFar
    <3>4. Len(resource[u]) < 4
      <4> DEFINE n == Len(resource[u])
      <4>1. n \in {2, 3}
        BY <3>3
      <4> HIDE DEF n
      <4>2. n < 4
        BY <4>1
      <4> QED
        BY <4>2 DEF n
    <3>5. resource[u] # <<>>
      <4> DEFINE n == Len(resource[u])
      <4>1. n \in {2, 3} /\ (resource[u] = <<>> <=> n = 0)
        BY <3>3
      <4> HIDE DEF n
      <4> QED
        BY <4>1
    <3> QED
      BY <3>2, <3>4, <3>5, Zenon
  <2>2. CASE main.pc # "shut_down"
    <3>1. /\ main.pc = "spawn" \/ main.pc = "query"
          /\ Len(resource[r]) \in Nat
          /\ main.pc = "spawn" => Len(resource[r]) < 3
          /\ main.pc = "query" => Len(resource[r]) = 2
      BY <2>2, HowFar
    <3>2. Len(resource[r]) < 4
      <4> DEFINE n == Len(resource[r])
      <4>1. n \in Nat /\ (n < 3 \/ n = 2)
        BY <3>1
      <4> HIDE DEF n
      <4>2. n < 4
        BY <4>1
      <4> QED
        BY <4>2 DEF n
    <3> QED
      BY <3>2, Zenon
  <2> QED
    BY <2>1, <2>2
<1>2. Ordered(resource[u]) = resource[u] /\ Len(resource[u]) \in Nat
  BY <1>1, StampedInOrder, LenProperties DEF IInv, TypeInv
<1>3. ~ResourceBuilds(Ordered(resource[u]))
  BY <1>1, <1>2 DEF ResourceBuilds
<1> QED
  BY <1>1, <1>3 DEF Builds

\* A log builds before the run has begun and when it has ended, and not in between; in
\* the model of a finished run every state of a task lies in the execution of
\* its query and in the operation of the resources it uses, and what is drawn of an
\* operator lies in its query (RtResourceBuilder, FsmEvents, Operator::extend_active_span).
THEOREM OwnersEnclose == Spec => []TasksInsideTheirOwners
<1>1. ASSUME IInv, Ended PROVE TasksInsideTheirOwners
  <2>1. Builds <=> Ended \/ \A r \in Resources : resource[r] = <<>>
    BY <1>1, EndedBuilds
  <2>2. /\ \A t \in Tasks : Ordered(task[t]) = task[t] /\ t[1][1] \in Queries
        /\ \A t \in Tasks : Len(task[t]) \in Nat
        /\ \A q \in Queries : Ordered(query[q]) = query[q]
        /\ \A r \in Resources : Ordered(resource[r]) = resource[r]
        /\ \A o \in Operators : o[1] \in Queries
    BY <1>1, StampedInOrder, TaskParts, LenProperties DEF IInv, TypeInv, Operators
  <2>3. ASSUME NEW x \in Tasks, NEW s \in States(task[x])
        PROVE  LET q == Ordered(query[x[1][1]])
               IN /\ q[3].ts <= s.from /\ s.to <= q[4].ts
                  /\ \A u \in s.in.uses : LET f == Ordered(resource[u])
                                          IN f[2].ts <= s.from /\ s.to <= f[3].ts
    <3>1. PICK i \in 1..(Len(task[x]) - 1) :
             s = [in |-> task[x][i], from |-> task[x][i].ts, to |-> task[x][i + 1].ts, nth |-> i]
      BY <2>2, <2>3 DEF States
    <3>2. i \in 1..Len(task[x]) /\ i + 1 \in 1..Len(task[x])
      BY <2>2
    <3>3. s.in = task[x][i] /\ s.from = task[x][i].ts /\ s.to = task[x][i + 1].ts
      BY <3>1
    <3>4. s.in \in Stamps
      BY <1>1, <3>2, <3>3, EndedEvents
    <3>5. query[x[1][1]][3].ts <= s.from /\ s.to <= query[x[1][1]][4].ts
      BY <1>1, <3>2, <3>3, EndedEvents
    <3>6. \A r \in Resources : resource[r][2].ts <= s.from /\ s.to <= resource[r][3].ts
      BY <1>1, <3>2, <3>3, EndedEvents
    <3>7. s.in.uses \subseteq Resources
      BY <3>4 DEF Stamps
    <3> QED
      BY <2>2, <3>5, <3>6, <3>7
  <2>4. ASSUME NEW o \in Operators, Drawn(o) # {}
        PROVE  LET q == Ordered(query[o[1]])
               IN q[3].ts <= Active(o).from /\ Active(o).to <= q[4].ts
    <3> DEFINE A == {f[2].ts : f \in Drawn(o)}
               B == {Last(f).ts : f \in Drawn(o)}
    <3>1. ASSUME NEW f \in Drawn(o)
          PROVE  \E t \in Tasks : t[1] = o /\ f = task[t] /\ 2 \in 1..Len(task[t]) /\ Len(task[t]) \in 1..Len(task[t])
      BY <2>2, <3>1 DEF Drawn, Rebuilt
    <3>2. ASSUME NEW f \in Drawn(o)
          PROVE  /\ f[2].ts \in 0..MaxTime /\ Last(f).ts \in 0..MaxTime
                 /\ query[o[1]][3].ts <= f[2].ts /\ Last(f).ts <= query[o[1]][4].ts
      <4>1. PICK t \in Tasks : t[1] = o /\ f = task[t] /\ 2 \in 1..Len(task[t]) /\ Len(task[t]) \in 1..Len(task[t])
        BY <3>1
      <4>2. Last(f) = task[t][Len(task[t])]
        BY <4>1 DEF Last
      <4>3. /\ f[2] \in Stamps /\ query[o[1]][3].ts <= f[2].ts
        BY <1>1, <4>1, EndedEvents
      <4>4. Last(f) \in Stamps /\ Last(f).ts <= query[o[1]][4].ts
        BY <1>1, <4>1, <4>2, EndedEvents
      <4> QED
        BY <4>3, <4>4 DEF Stamps
    <3>3. A \subseteq Nat /\ A # {} /\ B \subseteq 0..MaxTime /\ B # {}
      BY <2>4, <3>2, TimeAssumption
    <3>4. \A a \in A : query[o[1]][3].ts <= a
      BY <3>2
    <3>5. \A b \in B : b <= query[o[1]][4].ts
      BY <3>2
    <3>6. Active(o).from = Min(A) /\ Active(o).to = Max(B)
      BY DEF Active
    <3> HIDE DEF A, B
    <3>7. Min(A) \in A
      BY <3>3, MinIs
    <3>8. Max(B) \in B
      BY <3>3, MaxIs, TimeAssumption
    <3> QED
      BY <2>2, <3>4, <3>5, <3>6, <3>7, <3>8
  <2> QED
    BY <2>1, <2>3, <2>4 DEF TasksInsideTheirOwners
<1>2. ASSUME IInv, ~Ended PROVE TasksInsideTheirOwners
  <2>1. Builds <=> \A r \in Resources : resource[r] = <<>>
    BY <1>2, UnbegunBuilds, CutShort
  <2> QED
    BY <1>2, <2>1 DEF TasksInsideTheirOwners
<1>3. IInv => TasksInsideTheirOwners
  BY <1>1, <1>2
<1> QED
  BY <1>3, Invariance, PTL
=============================================================================
