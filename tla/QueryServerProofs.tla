-------------------------- MODULE QueryServerProofs -------------------------
(***************************************************************************)
(* Theorems about QueryServer for every set of clients, contexts, logs and *)
(* requests.  The argument: a request that is cut into chunks has each of  *)
(* them somewhere on its way, or its entry has failed (PairsOf), and what  *)
(* it holds has the length and the bins of its key (HeldOf), because a      *)
(* geometry is always that of the engine's whole life (GeoOf); so it is    *)
(* with the cache (ChunkInv).  What it answers is all of the view, and     *)
(* shows the usages the analyzer knows, bin by bin, because the chunks a   *)
(* view meets are a row without a gap.  Analyzers never go back, because   *)
(* there is one load at a time and no analyzer in use knows more than what *)
(* it will read (LoadInv).                                                 *)
(***************************************************************************)
EXTENDS QueryServer, SequenceLemmas

-----------------------------------------------------------------------------
(* The inductive invariant.                                                *)

CutPcs == {"check", "fetch", "insert"}
AnalyzerPcs == {"serve", "direct", "check", "fetch", "insert"}

\* A request cut into chunks, given what is not bounded by a set.
CutShape(view, geo, todo, miss, new, have, errors) ==
  [pc : CutPcs, req : Requests, an : SUBSET AllFacts, view : {view}, geo : {geo}, todo : {todo},
   miss : {miss}, new : {new}, have : {have}, errors : {errors}]

IsCut(cl) == cl \in CutShape(cl.view, cl.geo, cl.todo, cl.miss, cl.new, cl.have, cl.errors)

\* A request is a record that grows as it is served.
ShapeOf(cl) ==
  /\ cl.pc \in {"idle", "get", "serve", "direct", "check", "fetch", "insert", "done"}
  /\ cl.pc = "idle" => cl \in [pc : {"idle"}]
  /\ cl.pc = "get" => cl \in [pc : {"get"}, req : Requests]
  /\ cl.pc \in {"serve", "direct"} =>
       cl \in [pc : {"serve", "direct"}, req : Requests, an : SUBSET AllFacts]
  /\ cl.pc \in CutPcs => IsCut(cl)
  /\ cl.pc = "done" =>
       cl \in [pc : {"done"}, status : {"ok", "err"}, entries : {cl.entries}, was : {cl.was}]

\* Its geometry is cut from the whole life of the engine.
GeoOf(cl) == /\ Life \in Nat \ {0}
             /\ \E e \in DOMAIN cl.req.views : cl.view = cl.req.views[e]
             /\ cl.view.from < cl.view.to
             /\ cl.geo = Geometry(Life, cl.view)

ChunkSet(req, geo) == {[entry |-> d, idx |-> k] : d \in DOMAIN req.views, k \in geo.first..geo.last}
Pairs(cl) == ChunkSet(cl.req, cl.geo)

\* Every chunk it needs is somewhere on its way, or its entry failed.
PairsOf(cl) ==
  /\ cl.todo \subseteq Pairs(cl) /\ cl.miss \subseteq Pairs(cl)
  /\ DOMAIN cl.new \subseteq Pairs(cl) /\ DOMAIN cl.have \subseteq Pairs(cl)
  /\ cl.errors \subseteq DOMAIN cl.req.views
  /\ \A p \in Pairs(cl) : \/ p \in cl.todo \/ p \in cl.miss \/ p \in DOMAIN cl.new
                          \/ p \in DOMAIN cl.have \/ p.entry \in cl.errors
  /\ cl.pc # "fetch" => cl.miss = {}
  /\ cl.pc # "insert" => DOMAIN cl.new = {}

\* A response that is the chunk of a key, as ChunksAreCanonical has it.
Canonical(k, r) ==
  LET len == Life \div k.zoom
      end == IF k.idx = k.zoom - 1 THEN Life ELSE (k.idx + 1) * len
  IN  /\ r.from = k.idx * len /\ r.bins = k.bins /\ r.dur \in Int
      /\ k.bins * r.dur - (end - k.idx * len) \in 0..k.bins - 1

HeldOf(cl) == /\ \A p \in DOMAIN cl.new : Canonical(KeyOf(cl, p), cl.new[p])
              /\ \A p \in DOMAIN cl.have : Canonical(KeyOf(cl, p), cl.have[p])

\* What a request that is done with chunks answers, as EveryEntryAnswered,
\* AnswersCoverTheView and BinsAreTrue have it.
Answered(entries, cl) ==
  LET whole == {e \in DOMAIN entries : entries[e] # {}}
  IN  /\ DOMAIN entries = InTime(cl.req.views) \cup cl.errors
      /\ whole = InTime(cl.req.views) \ cl.errors
      /\ \A e \in whole, k \in cl.geo.first..cl.geo.last : [entry |-> e, idx |-> k] \in DOMAIN cl.have

Covered(r, view) == r.from <= view.from /\ r.from + r.bins * r.dur >= Min({view.to, Life})

Covering(entries, cl) ==
  \A e \in DOMAIN entries : cl.req.views[e] = cl.view => \A r \in entries[e] : Covered(r, cl.view)

\* What a set of usages takes of the time from a to b.
Busy(a, b, U) == MapThenSumSet(LAMBDA u : Overlap(u, a, b), U)

\* The chunks of an engine's life are of one length and so are their bins.
EvenOf(cl) == Life % cl.geo.zoom = 0 /\ cl.geo.len % cl.geo.bins = 0

\* The chunks are what the analyzer of the request computes, for a single request or in bulk.
FreshOf(cl) ==
  \A p \in DOMAIN cl.have : \E bulk \in BOOLEAN : cl.have[p] = Compute(cl.an, cl.geo, p, bulk)

\* A timeline shows what the analyzer knows.
ShowsUsages(cl, e, r) ==
  \A u \in Usages(cl.an, e) : Overlap(u, r.from, r.from + r.bins * r.dur) > 0 =>
    /\ u.state \in DOMAIN r.series
    /\ Len(r.series[u.state]) = r.bins => \A i \in 1..r.bins :
         r.series[u.state][i] = Busy(r.from + (i - 1) * r.dur, r.from + i * r.dur,
                                     {w \in Usages(cl.an, e) : w.state = u.state})

Showing(entries, cl) ==
  EvenOf(cl) /\ FreshOf(cl) => \A e \in DOMAIN entries : \A r \in entries[e] : ShowsUsages(cl, e, r)

\* All of this is about one request alone.
Good(cl) ==
  /\ ShapeOf(cl)
  /\ cl.pc \in CutPcs => GeoOf(cl) /\ PairsOf(cl) /\ HeldOf(cl)
  /\ cl.pc = "done" => (cl.status = "ok" /\ cl.was.pc = "check" =>
                              Answered(cl.entries, cl.was) /\ Covering(cl.entries, cl.was)
                              /\ Showing(cl.entries, cl.was))

ClientInv == /\ client = [c \in Clients |-> client[c]]
             /\ \A c \in Clients : Good(client[c])

ChunkInv == \A k \in DOMAIN chunks : Canonical(k, chunks[k])

StoreInv == /\ store \in [Contexts -> Nat]
            /\ \A x \in Contexts : store[x] <= Len(Log[x])

\* What has been flushed to the files of a set of contexts, and of those that
\* belong to the engine.
Flushed(ctxs) == UNION {FactsIn(x) : x \in ctxs}
Known == Flushed(index_query_engines)

\* No analyzer in use knows more than the load under way will.
LoadInv ==
  /\ analyzer = {} \/ loading = {}
  /\ \A ctxs \in loading : ctxs \subseteq index_query_engines
  /\ \A x, y \in loading : x = y
  /\ \A an \in analyzer : an \subseteq Known
  /\ \A c \in Clients : client[c].pc \in AnalyzerPcs =>
       /\ client[c].an \subseteq Known
       /\ \A ctxs \in loading : client[c].an \subseteq Flushed(ctxs)

IInv == StoreInv /\ ClientInv /\ ChunkInv /\ LoadInv
-----------------------------------------------------------------------------
(* Arithmetic.                                                             *)

\* Division with remainder.
LEMMA Division ==
  ASSUME NEW a \in Int, NEW d \in Nat \ {0}
  PROVE  /\ a \div d \in Int
         /\ d * (a \div d) <= a /\ a < d * (a \div d) + d
OBVIOUS

\* The quotient of naturals is a natural.
LEMMA DivisionNat ==
  ASSUME NEW a \in Nat, NEW d \in Nat \ {0}
  PROVE  a \div d \in Nat
OBVIOUS

\* A larger number does not have a smaller quotient.
LEMMA DivisionMonotone ==
  ASSUME NEW a \in Nat, NEW b \in Nat, a <= b, NEW d \in Nat \ {0}
  PROVE  a \div d <= b \div d
<1> DEFINE q == a \div d
           r == b \div d
<1>1. q \in Nat /\ r \in Nat
  BY DivisionNat
<1>2. d * q <= a /\ b < d * r + d
  BY Division
<1> HIDE DEF q, r
<1>3. d * q < d * (r + 1)
  BY <1>1, <1>2
<1>4. q < r + 1
  BY <1>1, <1>3
<1> QED
  BY <1>1, <1>4 DEF q, r

\* Bins that are rounded up overshoot by less than one nanosecond each.
LEMMA RoundedUp ==
  ASSUME NEW a \in Int, NEW n \in Nat \ {0}
  PROVE  /\ CeilDiv(a, n) \in Int /\ n * CeilDiv(a, n) \in Int
         /\ n * CeilDiv(a, n) >= a /\ n * CeilDiv(a, n) - a \in 0..n - 1
<1> DEFINE q == CeilDiv(a, n)
<1>1. a + n - 1 \in Int
  OBVIOUS
<1>2. q \in Int /\ n * q <= a + n - 1 /\ a + n - 1 < n * q + n
  BY <1>1, Division DEF CeilDiv
<1> HIDE DEF q
<1>3. n * q \in Int
  BY <1>2
<1> QED
  BY <1>2, <1>3 DEF q

\* The greater of two numbers.
LEMMA MaxOfTwo ==
  ASSUME NEW a \in Int, NEW b \in Int
  PROVE  Max({a, b}) = IF a >= b THEN a ELSE b
BY DEF Max

\* The smaller of two numbers.
LEMMA MinOfTwo ==
  ASSUME NEW a \in Int, NEW b \in Int
  PROVE  Min({a, b}) = IF a <= b THEN a ELSE b
BY DEF Min
-----------------------------------------------------------------------------
(* The engine's life and what is cut from it.                              *)

\* An analyzer whose engine has a duration has all of its life.
LEMMA OneLife ==
  ASSUME NEW an \in SUBSET AllFacts, EngineTimes(an) # {}, EngineDuration(an) # 0
  PROVE  EngineDuration(an) = Life /\ Life \in Nat \ {0}
<1>1. PICK end \in Nat : EngineTimes(AllFacts) \subseteq {0, end}
  BY EngineAssumption
<1>2. EngineTimes(an) \subseteq EngineTimes(AllFacts)
  BY DEF EngineTimes
<1> HIDE DEF AllFacts
<1>3. ASSUME NEW t, EngineTimes(an) = {t}, t \in Nat PROVE FALSE
  <2>1. Max({t}) = t /\ Min({t}) = t
    BY DEF Max, Min
  <2> QED
    BY <1>3, <2>1 DEF EngineDuration
<1>4. EngineTimes(an) = {0, end}
  BY <1>1, <1>2, <1>3
<1>5. EngineTimes(AllFacts) = EngineTimes(an)
  BY <1>1, <1>2, <1>4
<1>6. Max({0, end}) = end /\ Min({0, end}) = 0
  BY <1>1, MaxOfTwo, MinOfTwo
<1>7. EngineDuration(an) = end /\ Life = end
  BY <1>1, <1>4, <1>5, <1>6 DEF EngineDuration, Life
<1> QED
  BY <1>1, <1>7

\* The zoom level is a number of chunks, none of which is empty.
LEMMA ZoomLevel ==
  ASSUME NEW view \in Nat \ {0}, NEW total \in Nat \ {0}
  PROVE  /\ determine_zoom_level(view, total) \in 1..total
         /\ total \div determine_zoom_level(view, total) \in Nat \ {0}
<1> DEFINE q == (total * 2) \div view
           z == determine_zoom_level(view, total)
<1>1. q \in Nat
  BY DivisionNat
<1> HIDE DEF q
<1>2. Max({total, 1}) = total
  BY MaxOfTwo
<1>3. Min({q, total}) \in 0..total
  BY <1>1, MinOfTwo
<1>4. z \in 1..total
  <2>1. z = Max({1, Min({q, total})})
    BY <1>2 DEF determine_zoom_level, q
  <2>2. Max({1, Min({q, total})}) = IF 1 >= Min({q, total}) THEN 1 ELSE Min({q, total})
    BY <1>3, MaxOfTwo
  <2> HIDE DEF z
  <2> QED
    BY <1>3, <2>1, <2>2
<1> HIDE DEF z
<1>5. total \div z \in Nat
  BY <1>4, DivisionNat
<1>6. total < z * (total \div z) + z
  BY <1>4, Division
<1>7. total \div z # 0
  BY <1>4, <1>6
<1> QED
  BY <1>4, <1>5, <1>7 DEF z

\* A view that is not empty needs at least one chunk.
LEMMA FirstLast ==
  ASSUME NEW cl, GeoOf(cl), cl.req \in Requests
  PROVE  /\ cl.geo.zoom \in Nat \ {0} /\ cl.geo.bins \in Nat \ {0}
         /\ cl.geo.len = Life \div cl.geo.zoom /\ cl.geo.len \in Nat \ {0}
         /\ cl.geo.end = Life /\ Life \in Nat \ {0}
         /\ cl.geo.first \in Nat /\ cl.geo.last \in Nat /\ cl.geo.first <= cl.geo.last
<1> DEFINE v == cl.view
           z == determine_zoom_level(v.to - v.from, Life)
           l == Life \div z
<1>1. v.from \in Nat /\ v.to \in Nat /\ v.bins \in Nat \ {0} /\ v.from < v.to
  BY RequestsAssumption DEF GeoOf
<1>2. Life \in Nat \ {0}
  BY DEF GeoOf
<1>3. z \in Nat \ {0} /\ l \in Nat \ {0}
  BY <1>1, <1>2, ZoomLevel, SMTT(30)
<1>4. cl.geo = [zoom |-> z, len |-> l, end |-> Life, bins |-> v.bins,
                first |-> Min({v.from \div l, z - 1}), last |-> Min({(v.to - 1) \div l, z - 1})]
  BY DEF GeoOf, Geometry
<1> HIDE DEF z, l
<1>5. /\ v.from \div l \in Nat /\ (v.to - 1) \div l \in Nat
      /\ v.from \div l <= (v.to - 1) \div l
  BY <1>1, <1>3, DivisionNat, DivisionMonotone
<1>6. /\ Min({v.from \div l, z - 1}) \in Nat /\ Min({(v.to - 1) \div l, z - 1}) \in Nat
      /\ Min({v.from \div l, z - 1}) <= Min({(v.to - 1) \div l, z - 1})
  BY <1>3, <1>5, MinOfTwo
<1> HIDE DEF v
<1> QED
  BY <1>1, <1>2, <1>3, <1>4, <1>6 DEF l

\* What the analyzer computes for a chunk is the chunk of its key, whatever the
\* analyzer holds.
LEMMA ComputesCanonical ==
  ASSUME NEW cl, GeoOf(cl), cl.req \in Requests, NEW p \in Pairs(cl), NEW bulk
  PROVE  Canonical(KeyOf(cl, p), Compute(cl.an, cl.geo, p, bulk))
<1> DEFINE g == cl.geo
           r == Compute(cl.an, g, p, bulk)
           a == p.idx * g.len
           b == ChunkEnd(g, p.idx)
<1>1. /\ g.zoom \in Nat \ {0} /\ g.bins \in Nat \ {0} /\ g.len = Life \div g.zoom
      /\ g.len \in Nat /\ g.end = Life /\ Life \in Nat
      /\ g.first \in Nat /\ g.last \in Nat
  BY FirstLast
<1>2. p.idx \in Nat
  BY <1>1 DEF Pairs, ChunkSet
<1>3. a \in Int /\ b \in Int
  BY <1>1, <1>2 DEF ChunkEnd
<1>4. r.from = a /\ r.bins = g.bins /\ r.dur = CeilDiv(b - a, g.bins)
  BY DEF Compute, Timeline
<1>5. /\ g.bins * CeilDiv(b - a, g.bins) - (b - a) \in 0..g.bins - 1
      /\ CeilDiv(b - a, g.bins) \in Int
  <2>1. b - a \in Int
    BY <1>3
  <2> HIDE DEF a, b
  <2> QED
    BY <1>1, <2>1, RoundedUp
<1>6. b = IF p.idx = g.zoom - 1 THEN Life ELSE (p.idx + 1) * (Life \div g.zoom)
  BY <1>1 DEF ChunkEnd
<1>7. /\ KeyOf(cl, p).zoom = g.zoom /\ KeyOf(cl, p).idx = p.idx /\ KeyOf(cl, p).bins = g.bins
  BY DEF KeyOf, Key
<1>8. a = p.idx * (Life \div g.zoom)
  BY <1>1
<1> HIDE DEF g, r, a, b
<1> QED
  BY <1>4, <1>5, <1>6, <1>7, <1>8 DEF Canonical, r, g
-----------------------------------------------------------------------------
(* What becomes of one request.                                            *)

\* Over has what either has.
LEMMA OverDomain ==
  ASSUME NEW f, NEW g
  PROVE  /\ DOMAIN Over(f, g) = DOMAIN f \cup DOMAIN g
         /\ \A x \in DOMAIN f : Over(f, g)[x] = f[x]
         /\ \A x \in DOMAIN g \ DOMAIN f : Over(f, g)[x] = g[x]
BY DEF Over

\* A request that is answered, in one way or another, is good if the answer is.
LEMMA GoodReply ==
  ASSUME NEW st \in {"ok", "err"}, NEW entries, NEW cl,
         st = "ok" /\ cl.pc = "check" => Answered(entries, cl) /\ Covering(entries, cl) /\ Showing(entries, cl)
  PROVE  Good(Reply(st, entries, cl))
<1> DEFINE r == Reply(st, entries, cl)
<1>1. r.pc = "done" /\ r.status = st /\ r.entries = entries /\ r.was = cl
  BY DEF Reply
<1>2. r \in [pc : {"done"}, status : {"ok", "err"}, entries : {r.entries}, was : {r.was}]
  BY DEF Reply
<1> HIDE DEF r
<1>3. ShapeOf(r)
  BY <1>1, <1>2 DEF ShapeOf, CutPcs
<1> QED
  BY <1>1, <1>3 DEF Good, CutPcs, r

\* A failure is.
LEMMA GoodFail ==
  ASSUME NEW cl
  PROVE  Good(Fail(cl))
BY GoodReply DEF Fail

\* So is a request that got its analyzer.
LEMMA GoodServe ==
  ASSUME NEW cl, cl.req \in Requests, NEW an \in SUBSET AllFacts
  PROVE  Good(Serve(cl, an))
<1> DEFINE r == Serve(cl, an)
<1>1. r.pc = "serve"
  BY DEF Serve
<1>2. r \in [pc : {"serve", "direct"}, req : Requests, an : SUBSET AllFacts]
  BY DEF Serve
<1> HIDE DEF r
<1>3. ShapeOf(r)
  BY <1>1, <1>2 DEF ShapeOf, CutPcs
<1> QED
  BY <1>1, <1>3 DEF Good, CutPcs, r

\* What a request that is cut into chunks is made of.
LEMMA CutFields ==
  ASSUME NEW cl, Good(cl), cl.pc \in CutPcs
  PROVE  /\ IsCut(cl) /\ cl.req \in Requests /\ cl.an \in SUBSET AllFacts
         /\ GeoOf(cl) /\ PairsOf(cl) /\ HeldOf(cl)
<1>1. IsCut(cl)
  BY DEF Good, ShapeOf
<1> QED
  BY <1>1 DEF Good, IsCut, CutShape

\* It is good if its chunks are all there.
LEMMA GoodCut ==
  ASSUME NEW cl, IsCut(cl), GeoOf(cl), PairsOf(cl), HeldOf(cl)
  PROVE  Good(cl)
<1>1. cl.pc \in CutPcs
  BY DEF IsCut, CutShape
<1>2. /\ cl.pc # "idle" /\ cl.pc # "get" /\ cl.pc # "done" /\ cl.pc \notin {"serve", "direct"}
      /\ cl.pc \in {"idle", "get", "serve", "direct", "check", "fetch", "insert", "done"}
  BY <1>1 DEF CutPcs
<1>3. ShapeOf(cl)
  BY <1>2 DEF ShapeOf
<1> QED
  BY <1>2, <1>3 DEF Good

\* What is cut stays cut.
LEMMA SameCut ==
  ASSUME NEW cl, GeoOf(cl), NEW r, r.req = cl.req, r.view = cl.view, r.geo = cl.geo
  PROVE  GeoOf(r) /\ Pairs(r) = Pairs(cl)
BY DEF GeoOf, Pairs

\* Cutting a view.
CutUp(cl, e) ==
  LET geo == Geometry(EngineDuration(cl.an), cl.req.views[e])
  IN  [pc |-> "check", req |-> cl.req, an |-> cl.an, view |-> cl.req.views[e], geo |-> geo,
       todo |-> {[entry |-> d, idx |-> k] : d \in DOMAIN cl.req.views, k \in geo.first..geo.last},
       miss |-> {}, new |-> << >>, have |-> << >>, errors |-> {}]

\* A view that is cut is good: every chunk is still to be looked up.
LEMMA GoodGeometry ==
  ASSUME NEW cl, cl.pc = "serve", Good(cl), NEW e \in DOMAIN cl.req.views,
         EngineTimes(cl.an) # {}, EngineDuration(cl.an) # 0,
         cl.req.views[e].from < cl.req.views[e].to
  PROVE  Good(CutUp(cl, e)) /\ CutUp(cl, e).an = cl.an /\ CutUp(cl, e).pc = "check"
<1> DEFINE r == CutUp(cl, e)
           geo == Geometry(EngineDuration(cl.an), cl.req.views[e])
<1>0. r = [pc |-> "check", req |-> cl.req, an |-> cl.an, view |-> cl.req.views[e], geo |-> geo,
           todo |-> {[entry |-> d, idx |-> k] : d \in DOMAIN cl.req.views, k \in geo.first..geo.last},
           miss |-> {}, new |-> << >>, have |-> << >>, errors |-> {}]
  BY DEF CutUp
<1>01. geo = Geometry(EngineDuration(cl.an), cl.req.views[e])
  OBVIOUS
<1> HIDE DEF r, geo
<1>1. cl.req \in Requests /\ cl.an \in SUBSET AllFacts
  BY DEF Good, ShapeOf, CutPcs
<1>2. EngineDuration(cl.an) = Life /\ Life \in Nat \ {0}
  BY <1>1, OneLife
<1>3. /\ r.pc = "check" /\ r.req = cl.req /\ r.an = cl.an /\ r.view = cl.req.views[e]
      /\ r.geo = geo /\ r.miss = {} /\ r.new = << >> /\ r.have = << >> /\ r.errors = {}
      /\ r.todo = {[entry |-> d, idx |-> k] : d \in DOMAIN cl.req.views, k \in geo.first..geo.last}
  BY <1>0
<1>4. IsCut(r)
  <2>1. r \in CutShape(r.view, geo, r.todo, {}, << >>, << >>, {})
    BY <1>0, <1>1 DEF CutShape, CutPcs
  <2> QED
    BY <1>3, <2>1 DEF IsCut
<1>5. GeoOf(r)
  BY <1>01, <1>2, <1>3 DEF GeoOf
<1>6. r.todo = Pairs(r)
  <2>1. r.todo = ChunkSet(cl.req, geo)
    BY <1>3 DEF ChunkSet
  <2> QED
    BY <1>3, <2>1 DEF Pairs
<1>7. DOMAIN r.new = {} /\ DOMAIN r.have = {}
  BY <1>3
<1>8. PairsOf(r)
  BY <1>3, <1>6, <1>7 DEF PairsOf
<1>9. HeldOf(r)
  BY <1>7 DEF HeldOf
<1> QED
  BY <1>3, <1>4, <1>5, <1>8, <1>9, GoodCut DEF r

\* Looking chunks up: some are there, the others are missed.
Checked(cl, batch, hits, h) ==
  [cl EXCEPT !.todo = @ \ batch, !.miss = batch \ hits, !.have = Over(h, @),
             !.pc = IF batch \ hits = {} THEN "check" ELSE "fetch"]

\* It is good afterwards: a chunk that was to be looked up is there or missed.
LEMMA GoodCheck ==
  ASSUME NEW cl, Good(cl), cl.pc = "check", NEW batch \in SUBSET cl.todo,
         NEW h, NEW hits \in SUBSET batch, DOMAIN h = hits,
         \A p \in hits : Canonical(KeyOf(cl, p), h[p])
  PROVE  Good(Checked(cl, batch, hits, h)) /\ Checked(cl, batch, hits, h).an = cl.an
<1> DEFINE miss == batch \ hits
           pc == IF miss = {} THEN "check" ELSE "fetch"
           todo == cl.todo \ batch
           old == cl.have
           have == Over(h, old)
<1>r. PICK r : r = Checked(cl, batch, hits, h)
  OBVIOUS
<1>0. cl.pc \in CutPcs
  BY DEF CutPcs
<1>1. PairsOf(cl) /\ GeoOf(cl) /\ IsCut(cl) /\ HeldOf(cl)
  BY <1>0, CutFields
<1>2. r = [cl EXCEPT !.todo = todo, !.miss = miss, !.have = have, !.pc = pc]
  BY <1>r DEF Checked
<1>3. /\ DOMAIN have = hits \cup DOMAIN cl.have
      /\ \A p \in hits : have[p] = h[p]
      /\ \A p \in DOMAIN cl.have \ hits : have[p] = cl.have[p]
  <2> HIDE DEF old
  <2>1. /\ DOMAIN have = DOMAIN h \cup DOMAIN old
        /\ \A p \in DOMAIN h : have[p] = h[p]
        /\ \A p \in DOMAIN old \ DOMAIN h : have[p] = old[p]
    BY OverDomain
  <2> HIDE DEF have
  <2> QED
    BY <2>1 DEF old
<1>4. pc \in CutPcs /\ pc # "insert" /\ (pc # "fetch" => miss = {})
  BY DEF CutPcs
<1>5. todo = cl.todo \ batch /\ miss = batch \ hits
  OBVIOUS
<1> HIDE DEF pc, todo, miss, have
<1>6. /\ IsCut(r) /\ r.an = cl.an
      /\ r.pc = pc /\ r.req = cl.req /\ r.view = cl.view /\ r.geo = cl.geo /\ r.todo = todo
      /\ r.miss = miss /\ r.new = cl.new /\ r.have = have /\ r.errors = cl.errors
  <2>1. cl \in CutShape(cl.view, cl.geo, cl.todo, cl.miss, cl.new, cl.have, cl.errors)
    BY <1>1 DEF IsCut
  <2>2. /\ r \in CutShape(cl.view, cl.geo, todo, miss, cl.new, have, cl.errors)
        /\ r.an = cl.an
        /\ r.pc = pc /\ r.req = cl.req /\ r.view = cl.view /\ r.geo = cl.geo
        /\ r.todo = todo /\ r.miss = miss /\ r.new = cl.new /\ r.have = have
        /\ r.errors = cl.errors
    BY <1>2, <1>4, <2>1 DEF CutShape
  <2> QED
    BY <2>2 DEF IsCut
<1>61. GeoOf(r) /\ Pairs(r) = Pairs(cl)
  BY <1>1, <1>6, SameCut
<1>7. DOMAIN cl.new = {}
  BY <1>1 DEF PairsOf
<1>8. PairsOf(r)
  BY <1>1, <1>3, <1>4, <1>5, <1>6, <1>61, <1>7 DEF PairsOf
<1>9. HeldOf(r)
  <2>1. \A p : KeyOf(r, p) = KeyOf(cl, p)
    BY <1>6 DEF KeyOf
  <2>2. \A p \in DOMAIN have : Canonical(KeyOf(cl, p), have[p])
    BY <1>1, <1>3 DEF HeldOf
  <2> QED
    BY <1>6, <1>7, <2>1, <2>2 DEF HeldOf
<1> QED
  BY <1>r, <1>6, <1>61, <1>8, <1>9, GoodCut

\* Computing what was missed: each chunk is computed, or its entry is an error.
Fetched(cl, bad, bulk) ==
  [cl EXCEPT !.pc = "insert", !.errors = @ \cup {p.entry : p \in bad}, !.miss = {},
             !.new = [p \in cl.miss \ bad |-> Compute(cl.an, cl.geo, p, bulk)]]

\* It is good afterwards: a chunk that was missed is new, or its entry failed.
LEMMA GoodFetch ==
  ASSUME NEW cl, Good(cl), cl.pc = "fetch", NEW bad \in SUBSET cl.miss, NEW bulk
  PROVE  Good(Fetched(cl, bad, bulk)) /\ Fetched(cl, bad, bulk).an = cl.an
<1> DEFINE errors == cl.errors \cup {p.entry : p \in bad}
           new == [p \in cl.miss \ bad |-> Compute(cl.an, cl.geo, p, bulk)]
<1>r. PICK r : r = Fetched(cl, bad, bulk)
  OBVIOUS
<1>0. cl.pc \in CutPcs
  BY DEF CutPcs
<1>1. PairsOf(cl) /\ GeoOf(cl) /\ cl.req \in Requests /\ IsCut(cl) /\ HeldOf(cl)
  BY <1>0, CutFields
<1>2. r = [cl EXCEPT !.pc = "insert", !.errors = errors, !.miss = {}, !.new = new]
  BY <1>r DEF Fetched
<1>21. "insert" \in CutPcs
  BY DEF CutPcs
<1>3. /\ DOMAIN new = cl.miss \ bad
      /\ \A p \in DOMAIN new : new[p] = Compute(cl.an, cl.geo, p, bulk)
  OBVIOUS
<1>4. /\ \A p \in bad : p.entry \in errors
      /\ cl.errors \subseteq errors
  OBVIOUS
<1>5. errors \subseteq DOMAIN cl.req.views
  <2>1. \A p \in Pairs(cl) : p.entry \in DOMAIN cl.req.views
    BY DEF Pairs, ChunkSet
  <2> QED
    BY <1>1, <2>1 DEF PairsOf
<1> HIDE DEF new, errors
<1>6. /\ IsCut(r) /\ r.an = cl.an
      /\ r.pc = "insert" /\ r.req = cl.req /\ r.view = cl.view /\ r.geo = cl.geo /\ r.todo = cl.todo
      /\ r.miss = {} /\ r.new = new /\ r.have = cl.have /\ r.errors = errors
  <2>1. cl \in CutShape(cl.view, cl.geo, cl.todo, cl.miss, cl.new, cl.have, cl.errors)
    BY <1>1 DEF IsCut
  <2>2. /\ r \in CutShape(cl.view, cl.geo, cl.todo, {}, new, cl.have, errors)
        /\ r.an = cl.an
        /\ r.pc = "insert" /\ r.req = cl.req /\ r.view = cl.view /\ r.geo = cl.geo
        /\ r.todo = cl.todo /\ r.miss = {} /\ r.new = new /\ r.have = cl.have
        /\ r.errors = errors
    BY <1>2, <1>21, <2>1 DEF CutShape
  <2> QED
    BY <2>2 DEF IsCut
<1>61. GeoOf(r) /\ Pairs(r) = Pairs(cl)
  BY <1>1, <1>6, SameCut
<1>7. PairsOf(r)
  BY <1>1, <1>3, <1>4, <1>5, <1>6, <1>61 DEF PairsOf
<1>8. HeldOf(r)
  <2>0. \A p : KeyOf(r, p) = KeyOf(cl, p)
    BY <1>6 DEF KeyOf
  <2> SUFFICES ASSUME NEW p \in DOMAIN new PROVE Canonical(KeyOf(r, p), new[p])
    BY <1>1, <1>6, <2>0 DEF HeldOf
  <2>1. p \in Pairs(cl)
    BY <1>1, <1>3 DEF PairsOf
  <2>2. Canonical(KeyOf(cl, p), Compute(cl.an, cl.geo, p, bulk))
    BY <1>1, <2>1, ComputesCanonical
  <2> QED
    BY <1>3, <2>0, <2>2
<1> QED
  BY <1>r, <1>6, <1>61, <1>7, <1>8, GoodCut

\* Inserting what was computed.
AfterInsert(cl) == [cl EXCEPT !.pc = "check", !.have = Over(cl.new, @), !.new = << >>]

\* It is good afterwards: what was new is there.
LEMMA GoodInsert ==
  ASSUME NEW cl, Good(cl), cl.pc = "insert"
  PROVE  Good(AfterInsert(cl)) /\ AfterInsert(cl).an = cl.an
<1> DEFINE have == Over(cl.new, cl.have)
<1>r. PICK r : r = AfterInsert(cl)
  OBVIOUS
<1>0. cl.pc \in CutPcs
  BY DEF CutPcs
<1>1. PairsOf(cl) /\ GeoOf(cl) /\ IsCut(cl) /\ HeldOf(cl)
  BY <1>0, CutFields
<1>2. r = [cl EXCEPT !.pc = "check", !.have = have, !.new = << >>]
  BY <1>r DEF AfterInsert
<1>21. "check" \in CutPcs
  BY DEF CutPcs
<1>3. /\ DOMAIN have = DOMAIN cl.new \cup DOMAIN cl.have
      /\ \A p \in DOMAIN cl.new : have[p] = cl.new[p]
      /\ \A p \in DOMAIN cl.have \ DOMAIN cl.new : have[p] = cl.have[p]
  BY OverDomain
<1> HIDE DEF have
<1>6. /\ IsCut(r) /\ r.an = cl.an
      /\ r.pc = "check" /\ r.req = cl.req /\ r.view = cl.view /\ r.geo = cl.geo /\ r.todo = cl.todo
      /\ r.miss = cl.miss /\ r.new = << >> /\ r.have = have /\ r.errors = cl.errors
  <2>1. cl \in CutShape(cl.view, cl.geo, cl.todo, cl.miss, cl.new, cl.have, cl.errors)
    BY <1>1 DEF IsCut
  <2>2. /\ r \in CutShape(cl.view, cl.geo, cl.todo, cl.miss, << >>, have, cl.errors)
        /\ r.an = cl.an
        /\ r.pc = "check" /\ r.req = cl.req /\ r.view = cl.view /\ r.geo = cl.geo
        /\ r.todo = cl.todo /\ r.miss = cl.miss /\ r.new = << >> /\ r.have = have
        /\ r.errors = cl.errors
    BY <1>2, <1>21, <2>1 DEF CutShape
  <2> QED
    BY <2>2 DEF IsCut
<1>61. GeoOf(r) /\ Pairs(r) = Pairs(cl)
  BY <1>1, <1>6, SameCut
<1>7. DOMAIN r.new = {}
  BY <1>6
<1>8. PairsOf(r)
  BY <1>1, <1>3, <1>6, <1>61, <1>7 DEF PairsOf
<1>9. HeldOf(r)
  <2>1. \A p : KeyOf(r, p) = KeyOf(cl, p)
    BY <1>6 DEF KeyOf
  <2>2. \A p \in DOMAIN have : Canonical(KeyOf(cl, p), have[p])
    BY <1>1, <1>3 DEF HeldOf
  <2> QED
    BY <1>6, <1>7, <2>1, <2>2 DEF HeldOf
<1> QED
  BY <1>r, <1>6, <1>61, <1>8, <1>9, GoodCut

-----------------------------------------------------------------------------
(* Putting chunks together.                                                *)

\* The first chunk by start starts no later than any, the last no earlier.
LEMMA StartOrder ==
  ASSUME NEW U, IsFiniteSet(U), U # {}, NEW M \in Nat, \A r \in U : r.from \in 0..M,
         \A q, r \in U : q.from = r.from => q = r
  PROVE  LET n == Cardinality(U) IN
         /\ n \in Nat \ {0} /\ DOMAIN ByStart(U) = 1..n /\ Len(ByStart(U)) = n
         /\ ByStart(U)[1] \in U /\ ByStart(U)[n] \in U
         /\ \A q \in U : ByStart(U)[1].from <= q.from /\ q.from <= ByStart(U)[n].from
<1> DEFINE n == Cardinality(U)
           Before(r) == {q \in U : q.from < r.from}
           At(i) == CHOOSE r \in U : Cardinality(Before(r)) = i - 1
<1>1. n \in Nat \ {0}
  BY FS_CardinalityType, FS_EmptySet
<1>2. ByStart(U) = [i \in 1..n |-> At(i)]
  BY DEF ByStart
<1>3. Len(ByStart(U)) = n
  <2> HIDE DEF At, n
  <2>1. [i \in 1..n |-> At(i)] \in Seq({At(i) : i \in 1..n}) /\ Len([i \in 1..n |-> At(i)]) = n
    BY <1>1
  <2> QED
    BY <1>2, <2>1
<1>4. \A r \in U : /\ IsFiniteSet(Before(r)) /\ Before(r) \subseteq U
                   /\ r \notin Before(r) /\ Cardinality(Before(r)) \in Nat
  <2> SUFFICES ASSUME NEW r \in U
               PROVE  /\ IsFiniteSet(Before(r)) /\ Before(r) \subseteq U
                      /\ r \notin Before(r) /\ Cardinality(Before(r)) \in Nat
    OBVIOUS
  <2>1. Before(r) \subseteq U /\ r \notin Before(r)
    OBVIOUS
  <2> HIDE DEF Before
  <2> QED
    BY <2>1, FS_Subset, FS_CardinalityType
<1>5. \A r \in U : IsFiniteSet(U \ {r}) /\ Cardinality(U \ {r}) = n - 1
  BY FS_RemoveElement
<1>6. PICK lo \in U : \A q \in U : lo.from <= q.from
  <2> DEFINE T == {r.from : r \in U}
  <2>1. T \subseteq Nat /\ T # {}
    OBVIOUS
  <2>2. PICK m \in T : \A t \in T : m <= t
    <3> HIDE DEF T
    <3> QED
      BY <2>1, SetMin
  <2> QED
    BY <2>2
<1>7. PICK hi \in U : \A q \in U : q.from <= hi.from
  <2> DEFINE T == {r.from : r \in U}
  <2>1. T \in SUBSET (0..M) /\ T # {}
    OBVIOUS
  <2>2. Max(T) \in T /\ \A t \in T : t <= Max(T)
    <3> HIDE DEF T
    <3> QED
      BY <2>1, MaxIs
  <2> QED
    BY <2>2
<1>8. Cardinality(Before(lo)) = 1 - 1
  <2>1. Before(lo) = {}
    BY <1>6
  <2> HIDE DEF Before
  <2> QED
    BY <2>1, FS_EmptySet
<1>9. Cardinality(Before(hi)) = n - 1
  <2>1. \A q \in U : q \in Before(hi) <=> q # hi
    BY <1>7
  <2>2. Before(hi) = U \ {hi}
    BY <2>1
  <2> HIDE DEF Before
  <2> QED
    BY <1>5, <2>2
<1> HIDE DEF Before
<1>10. At(1) \in U /\ Cardinality(Before(At(1))) = 0
  BY <1>8
<1>11. At(n) \in U /\ Cardinality(Before(At(n))) = n - 1
  BY <1>9
<1> DEFINE first == At(1)
           final == At(n)
<1>12. first \in U /\ Cardinality(Before(first)) = 0 /\ final \in U /\ Cardinality(Before(final)) = n - 1
  BY <1>10, <1>11
<1> HIDE DEF At, first, final
<1>13. \A q \in U : first.from <= q.from
  <2>1. Before(first) = {}
    BY <1>4, <1>12, FS_EmptySet
  <2>2. \A q \in U : ~ (q.from < first.from)
    BY <2>1 DEF Before
  <2> QED
    BY <1>12, <2>2
<1>14. \A q \in U : q.from <= final.from
  <2>1. Before(final) \subseteq U \ {final}
    BY <1>4, <1>12
  <2>2. Before(final) = U \ {final}
    BY <1>4, <1>5, <1>12, <2>1, FS_Subset
  <2>3. \A q \in U : q # final => q.from < final.from
    BY <2>2 DEF Before
  <2> QED
    BY <1>12, <2>3
<1>15. ByStart(U)[1] = first /\ ByStart(U)[n] = final
  BY <1>1, <1>2 DEF first, final
<1> QED
  BY <1>1, <1>2, <1>3, <1>12, <1>13, <1>14, <1>15

\* What the bins p..q - 1 of a chunk that begins at f and ends at end cover of a
\* view from vf to vt.
BinsCover(p, q, f, d, end, vf, vt) ==
  /\ p \in Nat /\ q \in Nat
  /\ p < q => /\ f <= vf => f + p * d <= vf
              /\ f + q * d >= vt \/ f + q * d >= end
  /\ vf < vt /\ f < vt /\ vf < end => p < q

\* So it is with the bins that a view meets.
LEMMA BinsMet ==
  ASSUME NEW r, NEW view, r.from \in Nat, r.bins \in Nat \ {0}, r.dur \in Nat \ {0},
         view.from \in Nat, view.to \in Nat
  PROVE  LET o   == overlap_indices(r, view)
             end == r.from + r.bins * r.dur
         IN  /\ o[1] \in Nat /\ o[2] \in Nat
             /\ o[1] < o[2] => /\ r.from <= view.from => r.from + o[1] * r.dur <= view.from
                               /\ r.from + o[2] * r.dur >= view.to \/ r.from + o[2] * r.dur >= end
             /\ view.from < view.to /\ r.from < view.to /\ view.from < end => o[1] < o[2]
<1> DEFINE d == r.dur
           f == r.from
           n == r.bins
           vf == view.from
           vt == view.to
           end == f + n * d
           x == Max({vf, f}) - f
           y == Min({vt, end}) - f
           i == x \div d
           j == CeilDiv(y, d)
           m == Min({j, n})
           o == overlap_indices(r, view)
           meets == f < vt /\ vf < end
           met(s, t) == BinsCover(s, t, f, d, end, vf, vt)
<1> SUFFICES met(o[1], o[2])
  BY DEF BinsCover
<1>1. /\ d \in Nat \ {0} /\ f \in Nat /\ n \in Nat \ {0} /\ vf \in Nat /\ vt \in Nat
      /\ end \in Nat /\ n * d \in Nat
  OBVIOUS
<1>2. o = IF meets THEN <<i, m>> ELSE <<0, 0>>
  BY DEF overlap_indices
<1> HIDE DEF d, f, n, vf, vt
<1>a. end = f + n * d
  OBVIOUS
<1> HIDE DEF end
<1>3. x = IF vf >= f THEN vf - f ELSE 0
  BY <1>1, MaxOfTwo
<1>4. y = IF vt <= end THEN vt - f ELSE end - f
  BY <1>1, MinOfTwo
<1>5. x \in Nat /\ y \in Int
  BY <1>1, <1>3, <1>4
<1> HIDE DEF x, y
<1>6. i \in Nat /\ d * i <= x /\ x < d * i + d
  BY <1>1, <1>5, Division, DivisionNat
<1>7. j \in Int /\ d * j >= y
  BY <1>1, <1>5, RoundedUp
<1> HIDE DEF i, j
<1>8. m = IF j <= n THEN j ELSE n
  BY <1>1, <1>7, MinOfTwo
<1> HIDE DEF m
<1>9. CASE ~ meets
  <2>1. met(0, 0)
    BY <1>9 DEF BinsCover
  <2>2. o[1] = 0 /\ o[2] = 0
    BY <1>2, <1>9
  <2> HIDE DEF o
  <2> QED
    BY <2>1, <2>2
<1>10. CASE meets
  <2>1. o[1] = i /\ o[2] = m
    BY <1>2, <1>10
  <2> HIDE DEF o
  <2>2. y \in Nat \ {0} /\ y <= n * d
    BY <1>1, <1>4, <1>10, <1>a
  <2>3. j \in Nat \ {0}
    BY <1>1, <1>7, <2>2
  <2>4. m \in Nat /\ d * m >= y
    <3>1. n * d = d * n
      BY <1>1
    <3> QED
      BY <1>1, <1>7, <1>8, <2>2, <2>3, <3>1
  <2>5. d * i = i * d /\ d * m = m * d /\ i * d \in Nat /\ m * d \in Nat
    BY <1>1, <1>6, <2>4
  <2>6. f <= vf => f + i * d <= vf
    BY <1>1, <1>3, <1>5, <1>6, <2>5
  <2>7. f + m * d >= vt \/ f + m * d >= end
    BY <1>1, <1>4, <2>4, <2>5
  <2>8. vf < vt => i < m
    <3> SUFFICES ASSUME vf < vt PROVE i < m
      OBVIOUS
    <3>1. f < vt /\ vf < end /\ f < end
      BY <1>1, <1>10, <2>2, <1>4
    <3>2. x < y
      BY <1>1, <1>3, <1>4, <3>1
    <3>3. d * i < d * m
      BY <1>5, <1>6, <2>2, <2>4, <2>5, <3>2
    <3> QED
      BY <1>1, <1>6, <2>4, <3>3
  <2>9. met(i, m)
    BY <1>6, <2>4, <2>6, <2>7, <2>8 DEF BinsCover
  <2> QED
    BY <2>1, <2>9
<1> QED
  BY <1>9, <1>10

\* The chunks of a geometry reach from its view's begin to its end, or to the
\* end of the engine's life.
LEMMA ViewEnds ==
  ASSUME NEW cl, GeoOf(cl), cl.req \in Requests
  PROVE  LET g == cl.geo IN
         /\ cl.view.from \in Nat /\ cl.view.to \in Nat
         /\ g.first * g.len <= cl.view.from /\ g.last * g.len < cl.view.to
         /\ g.first = g.zoom - 1 \/ cl.view.from < (g.first + 1) * g.len
         /\ g.last = g.zoom - 1 \/ cl.view.to <= (g.last + 1) * g.len
         /\ g.last <= g.zoom - 1
<1> DEFINE g == cl.geo
           v == cl.view
           z == determine_zoom_level(v.to - v.from, Life)
           l == g.len
           u == v.from
           w == v.to - 1
           p == u \div l
           q == w \div l
<1>1. v.from \in Nat /\ v.to \in Nat /\ v.from < v.to
  BY RequestsAssumption DEF GeoOf
<1>2. g.zoom \in Nat \ {0} /\ l \in Nat \ {0}
  BY FirstLast
<1>3. g.first = Min({p, g.zoom - 1}) /\ g.last = Min({q, g.zoom - 1})
  <2> DEFINE c    == Life \div z
             low  == Min({v.from \div c, z - 1})
             high == Min({(v.to - 1) \div c, z - 1})
  <2>1. cl.geo = [zoom |-> z, len |-> c, end |-> Life, bins |-> v.bins, first |-> low, last |-> high]
    BY SMTT(30) DEF GeoOf, Geometry
  <2> HIDE DEF low, high, c, z
  <2>2. cl.geo.len = c /\ cl.geo.zoom = z /\ cl.geo.first = low /\ cl.geo.last = high
    BY <2>1
  <2> QED
    BY <2>2 DEF low, high
<1>u. u \in Int /\ u \in Nat /\ u = v.from
  BY <1>1
<1> HIDE DEF g, v, l, u
<1>4. p \in Nat /\ l * p <= v.from /\ v.from < l * p + l
  <2>1. p \in Nat
    BY <1>2, <1>u, DivisionNat
  <2>2. l * p <= u /\ u < l * p + l
    BY <1>2, <1>u, Division
  <2> QED
    BY <1>u, <2>1, <2>2
<1>5. w \in Nat /\ w \in Int /\ w = v.to - 1
  BY <1>1
<1> HIDE DEF w
<1>6. q \in Nat /\ l * q <= w /\ w < l * q + l
  <2>1. q \in Nat
    BY <1>2, <1>5, DivisionNat
  <2>2. l * q <= w /\ w < l * q + l
    BY <1>2, <1>5, Division
  <2> QED
    BY <2>1, <2>2
<1> HIDE DEF p, q
<1>7. /\ g.first = IF p <= g.zoom - 1 THEN p ELSE g.zoom - 1
      /\ g.last = IF q <= g.zoom - 1 THEN q ELSE g.zoom - 1
  BY <1>2, <1>3, <1>4, <1>6, MinOfTwo
<1>8. ASSUME NEW n \in Nat, NEW k \in Nat, k <= n PROVE k * l <= l * n /\ (k + 1) * l = l * k + l
  BY <1>2, <1>8
<1>9. g.first \in Nat /\ g.last \in Nat /\ g.first <= p /\ g.last <= q
  BY <1>2, <1>4, <1>6, <1>7
<1>10. g.first * l <= l * p /\ g.last * l <= l * q
  BY <1>4, <1>6, <1>8, <1>9
<1>11. g.first * l \in Int /\ g.last * l \in Int /\ l * p \in Int /\ l * q \in Int
  BY <1>2, <1>4, <1>6, <1>9
<1>12. g.first * l <= v.from /\ g.last * l < v.to
  BY <1>1, <1>4, <1>5, <1>6, <1>10, <1>11
<1>13. g.first = g.zoom - 1 \/ v.from < (g.first + 1) * l
  BY <1>4, <1>7, <1>8, <1>9
<1>14. g.last = g.zoom - 1 \/ v.to <= (g.last + 1) * l
  <2>1. (q + 1) * l = l * q + l
    BY <1>6, <1>8
  <2>2. v.to <= l * q + l
    BY <1>1, <1>2, <1>5, <1>6, <1>11
  <2>3. g.last = g.zoom - 1 \/ g.last = q
    BY <1>7
  <2> QED
    BY <2>1, <2>2, <2>3
<1>15. g.last <= g.zoom - 1
  BY <1>2, <1>6, <1>7
<1> QED
  BY <1>1, <1>12, <1>13, <1>14, <1>15 DEF g, v, l, u

\* Where a chunk lies, and that it is not empty.
Lies(g, k, r) ==
  /\ r.from = k * g.len /\ r.from \in Nat /\ r.bins \in Nat \ {0} /\ r.dur \in Nat \ {0}
  /\ ChunkEnd(g, k) \in Nat /\ r.from < ChunkEnd(g, k)
  /\ ChunkEnd(g, k) <= r.from + r.bins * r.dur

\* So it is with every chunk of its key.
LEMMA ChunkLies ==
  ASSUME NEW cl, GeoOf(cl), cl.req \in Requests, NEW p \in Pairs(cl), NEW r,
         Canonical(KeyOf(cl, p), r)
  PROVE  Lies(cl.geo, p.idx, r)
<1> DEFINE g == cl.geo
           k == p.idx
           l == g.len
           end == ChunkEnd(g, k)
<1>1. /\ g.zoom \in Nat \ {0} /\ g.bins \in Nat \ {0} /\ l = Life \div g.zoom /\ l \in Nat \ {0}
      /\ g.end = Life /\ Life \in Nat \ {0} /\ g.first \in Nat /\ g.last \in Nat
  BY FirstLast
<1>2. g.last <= g.zoom - 1
  BY ViewEnds
<1>3. k \in Nat /\ k <= g.zoom - 1
  BY <1>1, <1>2 DEF Pairs, ChunkSet
<1>4. end = IF k = g.zoom - 1 THEN Life ELSE (k + 1) * l
  BY <1>1 DEF ChunkEnd
<1>5. /\ KeyOf(cl, p).zoom = g.zoom /\ KeyOf(cl, p).idx = k /\ KeyOf(cl, p).bins = g.bins
  BY DEF KeyOf, Key
<1>6. r.from = k * l /\ r.bins = g.bins /\ r.dur \in Int /\ g.bins * r.dur - (end - k * l) \in 0..g.bins - 1
  BY <1>1, <1>4, <1>5 DEF Canonical
<1> HIDE DEF g, k, l, end
<1>7. k * l \in Nat /\ (k + 1) * l = k * l + l
  BY <1>1, <1>3
<1>8. g.zoom * l <= Life
  <2> DEFINE z == g.zoom
  <2>1. z \in Nat \ {0} /\ l = Life \div z /\ Life \in Int
    BY <1>1
  <2> HIDE DEF z
  <2>2. z * (Life \div z) <= Life
    BY <2>1, Division
  <2> QED
    BY <2>1, <2>2 DEF z
<1>9. k * l + l <= end /\ end \in Nat
  <2>1. CASE k = g.zoom - 1
    <3>1. g.zoom = k + 1
      BY <1>1, <1>3, <2>1
    <3> QED
      BY <1>1, <1>4, <1>7, <1>8, <2>1, <3>1
  <2>2. CASE k # g.zoom - 1
    BY <1>1, <1>4, <1>7, <2>2
  <2> QED
    BY <2>1, <2>2
<1>10. g.bins * r.dur \in Int /\ g.bins * r.dur >= end - k * l /\ end - k * l > 0
  BY <1>1, <1>6, <1>7, <1>9
<1>11. r.dur \in Nat \ {0}
  BY <1>1, <1>6, <1>7, <1>9, <1>10
<1> QED
  BY <1>1, <1>6, <1>7, <1>9, <1>10, <1>11 DEF Lies, g, k, l, end

\* The responses at x to y.
IsRow(rs, at, x, y) == rs = {at[k] : k \in x..y}

\* An entry's chunks of the geometry.
HeldAt(cl, e) == [k \in cl.geo.first..cl.geo.last |-> cl.have[[entry |-> e, idx |-> k]]]

\* They are all its chunks, if it has all of them.
LEMMA ChunksAre ==
  ASSUME NEW cl, DOMAIN cl.have \subseteq Pairs(cl), NEW e,
         \A k \in cl.geo.first..cl.geo.last : [entry |-> e, idx |-> k] \in DOMAIN cl.have
  PROVE  IsRow(ChunksOf(cl, e), HeldAt(cl, e), cl.geo.first, cl.geo.last)
<1> DEFINE ks == cl.geo.first..cl.geo.last
           at == HeldAt(cl, e)
           rs == ChunksOf(cl, e)
<1>1. ASSUME NEW k \in ks PROVE at[k] \in rs
  BY DEF ChunksOf, HeldAt
<1>2. ASSUME NEW q \in rs PROVE \E k \in ks : q = at[k]
  <2>1. PICK p \in DOMAIN cl.have : p.entry = e /\ q = cl.have[p]
    BY <1>2 DEF ChunksOf
  <2>2. p = [entry |-> e, idx |-> p.idx] /\ p.idx \in ks
    BY <2>1 DEF Pairs, ChunkSet
  <2> QED
    BY <2>1, <2>2 DEF HeldAt
<1> HIDE DEF rs, at
<1> QED
  BY <1>1, <1>2 DEF IsRow, rs, at

\* A timeline that is put together from all chunks of a geometry covers its view.
LEMMA AnswerCovers ==
  ASSUME NEW cl, GeoOf(cl), cl.req \in Requests, HeldOf(cl), DOMAIN cl.have \subseteq Pairs(cl),
         NEW e, \A k \in cl.geo.first..cl.geo.last : [entry |-> e, idx |-> k] \in DOMAIN cl.have,
         NEW r \in combine_chunks(ChunksOf(cl, e), cl.view)
  PROVE  Covered(r, cl.view)
<1> DEFINE g == cl.geo
           v == cl.view
           ks == g.first..g.last
           at == HeldAt(cl, e)
           rs == ChunksOf(cl, e)
           met == Met(rs, v)
           used == ByStart(met)
           n == Cardinality(met)
           total == TotalBins(rs, v)
           o(q) == overlap_indices(q, v)
           lo == used[1]
           hi == used[n]
           a == lo.from + o(lo)[1] * lo.dur
           b == hi.from + o(hi)[2] * hi.dur
<1>1. /\ g.first \in Nat /\ g.last \in Nat /\ g.first <= g.last /\ g.len \in Nat \ {0}
      /\ g.zoom \in Nat \ {0} /\ g.end = Life /\ Life \in Nat
  BY FirstLast
<1>2. /\ v.from \in Nat /\ v.to \in Nat
      /\ g.first * g.len <= v.from /\ g.last * g.len < v.to
      /\ g.first = g.zoom - 1 \/ v.from < (g.first + 1) * g.len
      /\ g.last = g.zoom - 1 \/ v.to <= (g.last + 1) * g.len
      /\ g.last <= g.zoom - 1
  BY ViewEnds
<1>3. v.from < v.to
  BY DEF GeoOf
<1>4. ASSUME NEW k \in ks PROVE Lies(g, k, at[k])
  <2> DEFINE p == [entry |-> e, idx |-> k]
  <2>1. p \in DOMAIN cl.have /\ p \in Pairs(cl) /\ p.idx = k /\ at[k] = cl.have[p]
    BY DEF HeldAt
  <2> HIDE DEF p, at
  <2>2. Canonical(KeyOf(cl, p), cl.have[p])
    BY <2>1 DEF HeldOf
  <2> QED
    BY <2>1, <2>2, ChunkLies
<1>5. rs = {at[k] : k \in ks}
  BY ChunksAre DEF IsRow
<1>6. ASSUME NEW k \in ks
      PROVE  /\ k \in Nat /\ g.first <= k /\ k <= g.last
             /\ at[k].from = k * g.len /\ at[k].from \in 0..g.last * g.len
             /\ at[k].bins \in Nat \ {0} /\ at[k].dur \in Nat \ {0}
  <2>1. k \in Nat /\ g.first <= k /\ k <= g.last
    BY <1>1
  <2> HIDE DEF at, g
  <2>2. k * g.len <= g.last * g.len /\ k * g.len \in Nat /\ g.last * g.len \in Nat
    BY <1>1, <2>1
  <2> QED
    BY <1>4, <2>1, <2>2 DEF Lies
<1>7. IsFiniteSet(rs)
  <2>1. at \in Surjection(ks, rs)
    <3>1. \A k \in ks : at[k] \in rs
      BY <1>5
    <3>2. at \in [ks -> rs]
      BY <3>1 DEF HeldAt
    <3>3. \A q \in rs : \E k \in ks : at[k] = q
      BY <1>5
    <3> HIDE DEF at, ks, rs
    <3> QED
      BY <3>2, <3>3 DEF Surjection
  <2>2. IsFiniteSet(ks)
    <3>1. g.first \in Int /\ g.last \in Int
      BY <1>1
    <3> HIDE DEF g
    <3> QED
      BY <3>1, FS_Interval
  <2> HIDE DEF at, ks, rs
  <2> QED
    BY <2>1, <2>2, FS_Surjection
<1> HIDE DEF at, rs, g, v
<1>8. met \subseteq rs /\ \A q \in rs : q \in met <=> o(q)[1] < o(q)[2]
  BY DEF Met
<1>9. IsFiniteSet(met)
  BY <1>7, <1>8, FS_Subset
<1>10. ASSUME NEW q \in rs PROVE o(q)[1] \in Nat /\ o(q)[2] \in Nat
  <2>1. PICK k \in ks : q = at[k]
    BY <1>5
  <2>2. Lies(g, k, q)
    BY <1>4, <2>1
  <2> QED
    BY <1>2, <2>2, BinsMet DEF Lies
<1>11. total \in Nat /\ (met = {} => total = 0)
  <2> DEFINE w == [q \in met |-> o(q)[2] - o(q)[1]]
  <2>1. \A q \in met : o(q)[2] - o(q)[1] \in Nat
    BY <1>8, <1>10
  <2>2. w \in [met -> Nat] /\ total = SumFunction(w)
    BY <2>1 DEF TotalBins
  <2> HIDE DEF w, met, total
  <2> QED
    BY <1>9, <2>2, SumIsNat
<1>12. total # 0 /\ r.from = selected_bin_span(used[1], v)[1] /\ r.bins = total
       /\ r.dur = CeilDiv(selected_bin_span(used[Len(used)], v)[2] - selected_bin_span(used[1], v)[1], total)
  BY DEF combine_chunks, v, rs
<1> HIDE DEF total
<1>13. met # {}
  BY <1>11, <1>12
<1>14. ASSUME NEW q \in met PROVE q.from \in 0..g.last * g.len
  BY <1>5, <1>6, <1>8
<1>15. ASSUME NEW p \in met, NEW q \in met, p.from = q.from PROVE p = q
  <2>1. PICK k \in ks, l \in ks : p = at[k] /\ q = at[l]
    BY <1>5, <1>8
  <2>2. k * g.len = l * g.len /\ k \in Nat /\ l \in Nat
    BY <1>6, <1>15, <2>1
  <2>3. k = l
    BY <1>1, <2>2
  <2> QED
    BY <2>1, <2>3
<1>16. g.last * g.len \in Nat
  BY <1>1
<1> HIDE DEF met
<1>17. /\ n \in Nat \ {0} /\ Len(used) = n /\ lo \in met /\ hi \in met
       /\ \A q \in met : lo.from <= q.from /\ q.from <= hi.from
  BY <1>9, <1>13, <1>14, <1>15, <1>16, StartOrder
<1> HIDE DEF used, n
<1>18. r.from = a /\ r.dur = CeilDiv(b - a, total)
  BY <1>12, <1>17 DEF selected_bin_span
<1> HIDE DEF lo, hi
<1>19. g.first \in ks /\ g.last \in ks
  BY <1>1
<1> DEFINE one == at[g.first]
           end == at[g.last]
<1>20. Lies(g, g.first, one) /\ Lies(g, g.last, end) /\ one \in rs /\ end \in rs
  BY <1>4, <1>5, <1>19
<1> HIDE DEF one, end
<1>21. one.from = g.first * g.len /\ end.from = g.last * g.len
  BY <1>20 DEF Lies
<1>22. one \in met
  <2>1. one.from <= v.from
    BY <1>2, <1>21
  <2>2. CASE v.from < one.from + one.bins * one.dur
    <3>1. o(one)[1] < o(one)[2]
      BY <1>2, <1>3, <1>20, <2>1, <2>2, BinsMet DEF Lies
    <3> QED
      BY <1>8, <1>20, <3>1
  <2>3. CASE ~ (v.from < one.from + one.bins * one.dur)
    <3>1. g.first = g.zoom - 1
      <4> SUFFICES ASSUME g.first # g.zoom - 1 PROVE FALSE
        OBVIOUS
      <4>1. ChunkEnd(g, g.first) = (g.first + 1) * g.len
        BY DEF ChunkEnd
      <4>2. v.from < ChunkEnd(g, g.first)
        BY <1>2, <4>1
      <4> QED
        BY <1>2, <1>20, <2>3, <4>2 DEF Lies
    <3>2. g.last = g.first
      BY <1>1, <1>2, <3>1
    <3>3. \A k \in ks : k = g.first
      BY <1>1, <3>2
    <3>4. rs = {one}
      BY <1>5, <1>19, <3>3 DEF one
    <3> QED
      BY <1>8, <1>13, <3>4
  <2> QED
    BY <2>2, <2>3
<1>23. end \in met
  <2>1. CASE g.last = g.first
    BY <1>22, <2>1 DEF one, end
  <2>2. CASE g.last # g.first
    <3>1. v.from < (g.first + 1) * g.len
      BY <1>1, <1>2, <2>2
    <3>2. (g.first + 1) * g.len <= g.last * g.len
      BY <1>1, <2>2
    <3>3. v.from < end.from + end.bins * end.dur
      BY <1>1, <1>2, <1>20, <1>21, <3>1, <3>2 DEF Lies
    <3>4. end.from < v.to
      BY <1>2, <1>21
    <3>5. o(end)[1] < o(end)[2]
      BY <1>2, <1>3, <1>20, <3>3, <3>4, BinsMet DEF Lies
    <3> QED
      BY <1>8, <1>20, <3>5
  <2> QED
    BY <2>1, <2>2
<1>24. a \in Int /\ a <= v.from
  <2>1. PICK k \in ks : lo = at[k]
    BY <1>5, <1>8, <1>17
  <2>2. Lies(g, k, lo)
    BY <1>4, <2>1
  <2>3. lo.from <= v.from
    BY <1>2, <1>17, <1>20, <1>21, <1>22, <2>2 DEF Lies
  <2>4. o(lo)[1] < o(lo)[2] /\ o(lo)[1] \in Nat
    BY <1>8, <1>10, <1>17
  <2>5. lo.from + o(lo)[1] * lo.dur <= v.from
    BY <1>2, <2>2, <2>3, <2>4, BinsMet DEF Lies
  <2>6. lo.from + o(lo)[1] * lo.dur \in Int
    <3>1. lo.from \in Nat /\ lo.dur \in Nat
      BY <2>2 DEF Lies
    <3> HIDE DEF o
    <3> QED
      BY <2>4, <3>1
  <2> QED
    BY <2>5, <2>6
<1>25. hi = end
  <2>1. hi.from = end.from
    BY <1>6, <1>14, <1>16, <1>17, <1>21, <1>23
  <2> QED
    BY <1>15, <1>17, <1>23, <2>1
<1>26. b \in Int /\ b >= Min({v.to, Life})
  <2>1. o(end)[1] < o(end)[2] /\ o(end)[2] \in Nat
    BY <1>8, <1>10, <1>20, <1>23
  <2>2. end.from + o(end)[2] * end.dur >= v.to
        \/ end.from + o(end)[2] * end.dur >= end.from + end.bins * end.dur
    BY <1>2, <1>20, <2>1, BinsMet DEF Lies
  <2>3. end.from \in Nat /\ end.dur \in Nat /\ end.bins \in Nat
    BY <1>20 DEF Lies
  <2>4. b = end.from + o(end)[2] * end.dur /\ b \in Int
    <3>1. b = end.from + o(end)[2] * end.dur
      BY <1>25
    <3> HIDE DEF o, b
    <3> QED
      BY <2>1, <2>3, <3>1
  <2>5. end.from + end.bins * end.dur >= ChunkEnd(g, g.last) /\ ChunkEnd(g, g.last) \in Nat
        /\ end.from + end.bins * end.dur \in Int
    BY <1>20, <2>3 DEF Lies
  <2>6. ChunkEnd(g, g.last) = IF g.last = g.zoom - 1 THEN Life ELSE (g.last + 1) * g.len
    BY <1>1 DEF ChunkEnd
  <2>7. Min({v.to, Life}) = IF v.to <= Life THEN v.to ELSE Life
    BY <1>1, <1>2, MinOfTwo
  <2>8. b >= v.to \/ b >= ChunkEnd(g, g.last)
    <3> DEFINE x == end.from + end.bins * end.dur
    <3>1. b >= v.to \/ b >= x
      BY <2>2, <2>4
    <3>2. x >= ChunkEnd(g, g.last) /\ x \in Int
      BY <2>5
    <3> HIDE DEF x, b
    <3> QED
      BY <1>2, <2>4, <2>5, <3>1, <3>2
  <2>9. ChunkEnd(g, g.last) >= v.to \/ ChunkEnd(g, g.last) = Life
    BY <1>2, <2>6
  <2> HIDE DEF b
  <2> QED
    BY <1>1, <1>2, <2>4, <2>5, <2>7, <2>8, <2>9
<1> HIDE DEF a, b
<1>27. total \in Nat \ {0} /\ b - a \in Int
  BY <1>11, <1>12, <1>24, <1>26
<1>28. total * CeilDiv(b - a, total) - (b - a) >= 0 /\ CeilDiv(b - a, total) \in Int
  <2>1. total * CeilDiv(b - a, total) - (b - a) \in 0..total - 1 /\ CeilDiv(b - a, total) \in Int
    BY <1>27, RoundedUp
  <2> QED
    BY <1>27, <2>1
<1> DEFINE d == CeilDiv(b - a, total)
<1>29. a + total * d >= b
  <2>1. total * d \in Int
    BY <1>27, <1>28
  <2> HIDE DEF d
  <2>2. total * d - (b - a) >= 0
    BY <1>28 DEF d
  <2> QED
    BY <1>24, <1>26, <2>1, <2>2
<1>30. r.from <= v.from /\ r.from + r.bins * r.dur >= Min({v.to, Life})
  <2>1. r.from + r.bins * r.dur = a + total * d /\ a + total * d \in Int
    <3>1. total * d \in Int
      BY <1>27, <1>28
    <3> HIDE DEF d
    <3> QED
      BY <1>12, <1>18, <1>24, <3>1 DEF d
  <2>2. Min({v.to, Life}) \in Int
    BY <1>1, <1>2, MinOfTwo
  <2> HIDE DEF d
  <2> QED
    BY <1>18, <1>24, <1>26, <1>29, <2>1, <2>2
<1> QED
  BY <1>30 DEF Covered, v

-----------------------------------------------------------------------------
(* What the bins hold.                                                     *)

\* Usages with times, finitely many.
Timed(U) == IsFiniteSet(U) /\ \A u \in U : u.from \in Int /\ u.to \in Int

\* What a usage takes of a stretch of time is a natural number, it is nothing of a part of
\* a stretch that it does not meet, and what it takes it takes at some time.
LEMMA OverlapIs ==
  ASSUME NEW u, u.from \in Int, u.to \in Int, NEW a \in Int, NEW b \in Int
  PROVE  /\ Overlap(u, a, b) \in Nat
         /\ \A c, d \in Int : c <= a /\ b <= d /\ ~ Intersects(u, c, d) => Overlap(u, a, b) = 0
         /\ Overlap(u, a, b) > 0 => \E t \in Int : a <= t /\ t < b /\ u.from <= t /\ t < u.to
<1> DEFINE lo == Max({u.from, a})
           hi == Min({u.to, b})
<1>1. lo = IF u.from >= a THEN u.from ELSE a
  BY MaxOfTwo
<1>2. hi = IF u.to <= b THEN u.to ELSE b
  BY MinOfTwo
<1>3. hi - lo \in Int
  BY <1>1, <1>2
<1>4. Overlap(u, a, b) = Max({0, hi - lo})
  BY DEF Overlap
<1> HIDE DEF lo, hi
<1>5. Overlap(u, a, b) = IF 0 >= hi - lo THEN 0 ELSE hi - lo
  BY <1>3, <1>4, MaxOfTwo
<1>6. ASSUME NEW c \in Int, NEW d \in Int, c <= a, b <= d, ~ Intersects(u, c, d)
      PROVE  Overlap(u, a, b) = 0
  BY <1>1, <1>2, <1>5, <1>6 DEF Intersects
<1>7. ASSUME Overlap(u, a, b) > 0 PROVE lo \in Int /\ a <= lo /\ lo < b /\ u.from <= lo /\ lo < u.to
  BY <1>1, <1>2, <1>5, <1>7
<1>8. Overlap(u, a, b) \in Nat
  BY <1>3, <1>5
<1> QED
  BY <1>6, <1>7, <1>8

\* The fold that adds up what usages take is a sum.
LEMMA BusyIs ==
  ASSUME NEW U, Timed(U), NEW a \in Int, NEW b \in Int
  PROVE  LET w == [u \in U |-> Overlap(u, a, b)]
         IN  Weighs(w, U) /\ \A T \in SUBSET U : Busy(a, b, T) = SumOf(w, T)
<1> DEFINE w == [u \in U |-> Overlap(u, a, b)]
<1>1. Weighs(w, U)
  BY OverlapIs DEF Timed, Weighs
<1>2. ASSUME NEW T \in SUBSET U PROVE Busy(a, b, T) = SumOf(w, T)
  <2> DEFINE B(k, s) == IF s = {} THEN 0
                        ELSE Overlap(CHOOSE x \in s : TRUE, a, b) + k[s \ {CHOOSE x \in s : TRUE}]
             k0 == CHOOSE k : k = [s \in SUBSET T |-> B(k, s)]
  <2>1. Busy(a, b, T) = k0[T]
    BY DEF Busy, MapThenSumSet, MapThenFoldSet
  <2>2. IsFiniteSet(T) /\ Weighs(w, T)
    BY <1>1, FS_Subset DEF Timed, Weighs
  <2>3. ASSUME NEW s \in SUBSET T, NEW k PROVE B(k, s) = SumBody(w, k, s)
    <3>1. CASE s = {}
      BY <3>1 DEF SumBody
    <3>2. CASE s # {}
      <4>1. (CHOOSE x \in s : TRUE) \in U
        BY <3>2
      <4> QED
        BY <3>2, <4>1 DEF SumBody
    <3> QED
      BY <3>1, <3>2
  <2> HIDE DEF w
  <2>4. PICK h : IsSum(w, h, T)
    BY <2>2, SumIs
  <2>5. h = [s \in SUBSET T |-> B(h, s)]
    <3> HIDE DEF B
    <3> QED
      BY <2>3, <2>4 DEF IsSum
  <2>6. k0 = [s \in SUBSET T |-> B(k0, s)]
    <3> HIDE DEF B
    <3> QED
      BY <2>5
  <2> HIDE DEF k0
  <2>7. IsSum(w, k0, T)
    <3> HIDE DEF B
    <3> QED
      BY <2>3, <2>6 DEF IsSum
  <2> QED
    BY <2>1, <2>2, <2>7, SumIs
<1> QED
  BY <1>1, <1>2

\* Usages that do not meet a stretch can be left out of what is taken of it.
LEMMA BusyLeavesOut ==
  ASSUME NEW U, Timed(U), NEW a \in Int, NEW b \in Int, NEW T \in SUBSET U,
         \A u \in U \ T : Overlap(u, a, b) = 0
  PROVE  Busy(a, b, U) = Busy(a, b, T)
<1> DEFINE w == [u \in U |-> Overlap(u, a, b)]
<1>1. Weighs(w, U) /\ Busy(a, b, U) = SumOf(w, U) /\ Busy(a, b, T) = SumOf(w, T)
  BY BusyIs
<1>2. \A u \in U \ T : w[u] = 0
  OBVIOUS
<1>3. IsFiniteSet(U)
  BY DEF Timed
<1> HIDE DEF w
<1> QED
  BY <1>1, <1>2, <1>3, SumLeavesOut

\* The usages of an entry that its timeline is made of.
UsedOf(an, e, a, b, bulk) ==
  {u \in Usages(an, e) : bulk \/ \E v \in an : /\ v.kind = "usage" /\ v.task = u.task
                                               /\ Intersects(v, a, b)}

\* A timeline's series, each bin by its name.
LEMMA SeriesIs ==
  ASSUME NEW an, NEW e, NEW a, NEW dur, NEW n, NEW bulk
  PROVE  LET used == UsedOf(an, e, a, a + n * dur, bulk) IN
         Series(an, e, a, dur, n, bulk) =
           [s \in {u.state : u \in used} |->
              [i \in 1..n |-> Busy(a + (i - 1) * dur, a + i * dur, {u \in used : u.state = s})]]
BY DEF Series, UsedOf, Busy

\* A number that divides without remainder is a factor.
LEMMA Divides ==
  ASSUME NEW a \in Int, NEW n \in Nat \ {0}, a % n = 0
  PROVE  a \div n \in Int /\ n * (a \div n) = a
OBVIOUS

\* Nothing is rounded up then.
LEMMA RoundedExactly ==
  ASSUME NEW d \in Int, NEW n \in Nat \ {0}
  PROVE  CeilDiv(n * d, n) = d
<1> DEFINE x == n * d
           q == CeilDiv(x, n)
<1>1. x \in Int
  OBVIOUS
<1>2. q \in Int /\ n * q \in Int /\ n * q >= x /\ n * q - x \in 0..n - 1
  <2> HIDE DEF x
  <2> QED
    BY <1>1, RoundedUp
<1>3. n * q - x = n * (q - d)
  BY <1>2
<1> HIDE DEF q
<1>4. q - d \in Int /\ n * (q - d) \in 0..n - 1
  BY <1>2, <1>3
<1>5. q - d = 0
  <2> DEFINE y == q - d
  <2>1. y \in Int /\ n * y >= 0 /\ n * y < n
    BY <1>4
  <2> HIDE DEF y
  <2>2. y = 0
    <3>1. ~ (y >= 1)
      <4> SUFFICES ASSUME y >= 1 PROVE n * y >= n
        BY <2>1
      <4> QED
        BY <2>1
    <3>2. ~ (y <= -1)
      <4> SUFFICES ASSUME y <= -1 PROVE n * y < 0
        BY <2>1
      <4> QED
        BY <2>1
    <3> QED
      BY <2>1, <3>1, <3>2
  <2> QED
    BY <2>2 DEF y
<1> QED
  BY <1>2, <1>5 DEF q

\* The usage of an entry in a state over the jth stretch of length d.
Bin(an, e, s, d, j) == Busy((j - 1) * d, j * d, {u \in Usages(an, e) : u.state = s})

\* A response that is the kth of chunks of n bins of length d each, and shows what an
\* analyzer knows.
Exact(an, e, n, d, k, r) ==
  LET a == k * (n * d)
      b == (k + 1) * (n * d)
  IN  /\ r.from = a /\ r.bins = n /\ r.dur = d
      /\ \A s \in DOMAIN r.series : r.series[s] = [i \in 1..n |-> Bin(an, e, s, d, k * n + i)]
      /\ \A u \in Usages(an, e) : Intersects(u, a, b) => u.state \in DOMAIN r.series

\* An analyzer's usages have times, and are finitely many.
LEMMA UsagesTimed ==
  ASSUME NEW an \in SUBSET AllFacts, NEW e
  PROVE  Timed(Usages(an, e))
<1>1. Usages(an, e) \subseteq AllFacts /\ \A u \in Usages(an, e) : u.kind = "usage"
  BY DEF Usages
<1> HIDE DEF AllFacts
<1> QED
  BY <1>1, UsageAssumption, FS_Subset DEF Timed

\* Some of them too.
LEMMA SomeTimed ==
  ASSUME NEW U, Timed(U), NEW T \in SUBSET U
  PROVE  Timed(T)
BY FS_Subset DEF Timed

\* The length of equal chunks and of their bins.
LEMMA EvenLengths ==
  ASSUME NEW cl, GeoOf(cl), cl.req \in Requests, EvenOf(cl)
  PROVE  LET g == cl.geo
             d == g.len \div g.bins
         IN  /\ d \in Nat \ {0} /\ g.len = g.bins * d
             /\ \A k \in 0..g.zoom - 1 : ChunkEnd(g, k) = (k + 1) * g.len
<1> DEFINE g == cl.geo
           d == g.len \div g.bins
           z == g.zoom
           l == g.len
           n == g.bins
<1>1. /\ z \in Nat \ {0} /\ n \in Nat \ {0} /\ l = Life \div z /\ l \in Nat \ {0}
      /\ g.end = Life /\ Life \in Nat \ {0}
  BY FirstLast
<1>2. Life % z = 0 /\ l % n = 0
  BY DEF EvenOf
<1> HIDE DEF g, z, l, n
<1>3. z * l = Life
  BY <1>1, <1>2, Divides
<1>4. l \div n \in Int /\ n * (l \div n) = l
  <2>1. l \in Int /\ n \in Nat \ {0} /\ l % n = 0
    BY <1>1, <1>2
  <2> QED
    BY <2>1, Divides
<1>5. l \div n \in Nat
  BY <1>1, DivisionNat
<1>6. l \div n # 0
  BY <1>1, <1>4
<1>7. ASSUME NEW k \in 0..z - 1 PROVE ChunkEnd(g, k) = (k + 1) * l
  <2>1. ChunkEnd(g, k) = IF k = z - 1 THEN Life ELSE (k + 1) * l
    BY <1>1 DEF ChunkEnd, z, l
  <2>2. k = z - 1 => (k + 1) * l = z * l
    BY <1>1
  <2> QED
    BY <1>3, <2>1, <2>2
<1> QED
  BY <1>4, <1>5, <1>6, <1>7 DEF g, z, l, n

\* What an analyzer computes for such a chunk shows what it knows, for a single request
\* and for one in bulk.
LEMMA EvenExact ==
  ASSUME NEW cl, GeoOf(cl), cl.req \in Requests, cl.an \in SUBSET AllFacts, EvenOf(cl),
         NEW p \in Pairs(cl), NEW bulk
  PROVE  LET n == cl.geo.bins
             d == cl.geo.len \div n
         IN  Exact(cl.an, p.entry, n, d, p.idx, Compute(cl.an, cl.geo, p, bulk))
<1> DEFINE g == cl.geo
           r == Compute(cl.an, g, p, bulk)
           an == cl.an
           e == p.entry
           k == p.idx
           l == g.len
           n == g.bins
           d == l \div n
           a == k * l
           b == (k + 1) * l
           used == UsedOf(an, e, a, a + n * d, bulk)
           In(U, s) == {u \in U : u.state = s}
           all == Usages(an, e)
<1>1. /\ d \in Nat \ {0} /\ l = n * d
      /\ \A i \in 0..g.zoom - 1 : ChunkEnd(g, i) = (i + 1) * l
  BY EvenLengths
<1>2. /\ g.zoom \in Nat \ {0} /\ n \in Nat \ {0} /\ l \in Nat \ {0}
      /\ g.first \in Nat /\ g.last \in Nat /\ g.last <= g.zoom - 1
  BY FirstLast, ViewEnds
<1>3. k \in Nat /\ k \in 0..g.zoom - 1
  BY <1>2 DEF Pairs, ChunkSet
<1>4. r = [from |-> a, dur |-> CeilDiv(ChunkEnd(g, k) - a, n), bins |-> n,
           series |-> Series(an, e, a, CeilDiv(ChunkEnd(g, k) - a, n), n, bulk)]
  BY DEF Compute, Timeline
<1>5. ChunkEnd(g, k) - a = n * d
  <2>1. ChunkEnd(g, k) = (k + 1) * l
    BY <1>1, <1>3
  <2>2. l \in Int /\ k \in Int
    BY <1>2, <1>3
  <2> HIDE DEF l, k, d, n
  <2>3. (k + 1) * l - k * l = l
    BY <2>2
  <2> QED
    BY <1>1, <2>1, <2>3
<1>6. CeilDiv(ChunkEnd(g, k) - a, n) = d
  <2> HIDE DEF d, n, a
  <2> QED
    BY <1>1, <1>2, <1>5, RoundedExactly
<1>7. a \in Int /\ b \in Int /\ a + n * d = b
  <2> HIDE DEF l, k, d, n
  <2>1. l \in Int /\ k \in Int
    BY <1>2, <1>3
  <2>2. k * l \in Int /\ (k + 1) * l = k * l + l
    BY <2>1
  <2> QED
    BY <1>1, <2>1, <2>2
<1>8. r.from = a /\ r.bins = n /\ r.dur = d /\ r.series = Series(an, e, a, d, n, bulk)
  BY <1>4, <1>6
<1>9. Series(an, e, a, d, n, bulk) =
        [s \in {u.state : u \in used} |->
           [i \in 1..n |-> Busy(a + (i - 1) * d, a + i * d, In(used, s))]]
  BY SeriesIs
<1>10. Timed(all) /\ used \subseteq all
  BY UsagesTimed DEF UsedOf
<1>11. ASSUME NEW u \in all, Intersects(u, a, b) PROVE u \in used
  <2>1. u \in an /\ u.kind = "usage"
    BY DEF Usages
  <2> HIDE DEF all, a, b
  <2> QED
    BY <1>7, <1>11, <2>1 DEF UsedOf, all
<1>12. ASSUME NEW s, NEW i \in 1..n
       PROVE  Busy(a + (i - 1) * d, a + i * d, In(used, s)) = Bin(an, e, s, d, k * n + i)
  <2> DEFINE x == a + (i - 1) * d
             y == a + i * d
  <2>1. x \in Int /\ y \in Int /\ a <= x /\ y <= b
    <3> HIDE DEF a, b, n, d
    <3>1. (i - 1) * d \in Nat /\ i * d \in Nat /\ n * d \in Nat /\ i * d <= n * d
      BY <1>1, <1>2
    <3> QED
      BY <1>7, <3>1
  <2>2. x = ((k * n + i) - 1) * d /\ y = (k * n + i) * d
    <3> HIDE DEF l, n, d, k
    <3>1. k \in Int /\ n \in Int /\ d \in Int /\ i \in Int
      BY <1>1, <1>2, <1>3
    <3>2. k * l = (k * n) * d /\ k * n \in Int
      BY <1>1, <3>1
    <3> DEFINE m == k * n
    <3>3. m * d + (i - 1) * d = ((m + i) - 1) * d /\ m * d + i * d = (m + i) * d
      <4> m \in Int
        BY <3>2
      <4> HIDE DEF m
      <4> QED
        BY <3>1
    <3> QED
      BY <3>2, <3>3
  <2> HIDE DEF x, y, a, b, used, all
  <2>3. In(used, s) \subseteq In(all, s) /\ Timed(In(all, s))
    BY <1>10, SomeTimed
  <2>4. ASSUME NEW u \in In(all, s) \ In(used, s) PROVE Overlap(u, x, y) = 0
    <3>1. u \in all /\ u \notin used
      OBVIOUS
    <3>2. ~ Intersects(u, a, b) /\ u.from \in Int /\ u.to \in Int
      BY <1>10, <1>11, <3>1 DEF Timed
    <3> QED
      BY <1>7, <2>1, <3>2, OverlapIs
  <2>5. Busy(x, y, In(all, s)) = Busy(x, y, In(used, s))
    BY <2>1, <2>3, <2>4, BusyLeavesOut
  <2> DEFINE j == k * n + i
  <2>6. x = (j - 1) * d /\ y = j * d
    BY <2>2
  <2> HIDE DEF j
  <2>7. Bin(an, e, s, d, j) = Busy(x, y, In(all, s))
    BY <2>6 DEF Bin, all
  <2>8. Bin(an, e, s, d, j) = Busy(x, y, In(used, s))
    BY <2>5, <2>7
  <2> QED
    BY <2>8 DEF x, y, j
<1> DEFINE sr == r.series
<1>13. /\ DOMAIN sr = {u.state : u \in used}
       /\ \A s \in DOMAIN sr : sr[s] = [i \in 1..n |-> Busy(a + (i - 1) * d, a + i * d, In(used, s))]
  BY <1>8, <1>9
<1>14. \A s \in DOMAIN sr : sr[s] = [i \in 1..n |-> Bin(an, e, s, d, k * n + i)]
  <2> HIDE DEF sr, a, n, d, In, used
  <2> QED
    BY <1>12, <1>13
<1>15. \A u \in all : Intersects(u, a, b) => u.state \in DOMAIN sr
  <2> HIDE DEF sr, a, b, used, all
  <2> QED
    BY <1>11, <1>13
<1>16. Exact(an, e, n, d, k, r)
  <2>1. a = k * (n * d) /\ b = (k + 1) * (n * d)
    <3> HIDE DEF l, n, d
    <3> QED
      BY <1>1
  <2> HIDE DEF r, a, b, n, d, k
  <2> QED
    BY <1>8, <1>14, <1>15, <2>1 DEF Exact, sr
<1> QED
  BY <1>16

\* The bins a view meets of a chunk: all from its begin if the view began before, and all
\* to its end if the view goes on.
LEMMA MeetsAll ==
  ASSUME NEW r, NEW view, r.from \in Nat, r.bins \in Nat \ {0}, r.dur \in Nat \ {0},
         view.from \in Nat, view.to \in Nat
  PROVE  LET o   == overlap_indices(r, view)
             end == r.from + r.bins * r.dur
         IN  /\ o[1] \in Nat /\ o[2] \in Nat /\ o[2] <= r.bins
             /\ o[1] < o[2] => r.from < view.to /\ view.from < end
             /\ r.from < view.to /\ view.from <= r.from => o[1] = 0
             /\ end <= view.to /\ view.from < end => o[2] = r.bins
<1> DEFINE d == r.dur
           f == r.from
           n == r.bins
           vf == view.from
           vt == view.to
           end == f + n * d
           x == Max({vf, f}) - f
           y == Min({vt, end}) - f
           i == x \div d
           j == CeilDiv(y, d)
           m == Min({j, n})
           o == overlap_indices(r, view)
           meets == f < vt /\ vf < end
<1>1. /\ d \in Nat \ {0} /\ f \in Nat /\ n \in Nat \ {0} /\ vf \in Nat /\ vt \in Nat
      /\ end \in Nat /\ n * d \in Nat \ {0} /\ f < end
  OBVIOUS
<1>2. o = IF meets THEN <<i, m>> ELSE <<0, 0>>
  BY DEF overlap_indices
<1> HIDE DEF d, f, n, vf, vt
<1>a. end = f + n * d
  OBVIOUS
<1> HIDE DEF end
<1>3. x = IF vf >= f THEN vf - f ELSE 0
  BY <1>1, MaxOfTwo
<1>4. y = IF vt <= end THEN vt - f ELSE end - f
  BY <1>1, MinOfTwo
<1>5. x \in Nat /\ y \in Int
  BY <1>1, <1>3, <1>4
<1> HIDE DEF x, y
<1>6. i \in Nat /\ d * i <= x
  BY <1>1, <1>5, Division, DivisionNat
<1>7. j \in Int /\ d * j >= y
  BY <1>1, <1>5, RoundedUp
<1>8. y = n * d => j = n
  BY <1>1, RoundedExactly
<1> HIDE DEF i, j
<1>9. m = IF j <= n THEN j ELSE n
  BY <1>1, <1>7, MinOfTwo
<1> HIDE DEF m
<1>10. CASE ~ meets
  <2>1. o[1] = 0 /\ o[2] = 0
    BY <1>2, <1>10
  <2> HIDE DEF o
  <2> QED
    BY <1>1, <1>10, <2>1 DEF d, f, n, vf, vt, end, o
<1>11. CASE meets
  <2>1. o[1] = i /\ o[2] = m
    BY <1>2, <1>11
  <2> HIDE DEF o
  <2>2. y > 0
    BY <1>1, <1>4, <1>11
  <2>3. j \in Nat /\ m \in Nat /\ m <= n
    <3>1. d * j > 0
      BY <1>1, <1>5, <1>7, <2>2
    <3>2. j > 0
      BY <1>1, <1>7, <3>1
    <3> QED
      BY <1>1, <1>7, <1>9, <3>2
  <2>4. vf <= f => i = 0
    <3>1. ASSUME vf <= f PROVE i = 0
      <4>1. x = 0
        BY <1>1, <1>3, <3>1
      <4> QED
        BY <1>1, <1>6, <4>1
    <3> QED
      BY <3>1
  <2>5. end <= vt => m = n
    <3>1. ASSUME end <= vt PROVE m = n
      <4>1. y = n * d
        BY <1>1, <1>4, <1>a, <3>1
      <4> QED
        BY <1>1, <1>8, <1>9, <4>1
    <3> QED
      BY <3>1
  <2> QED
    BY <1>6, <1>11, <2>1, <2>3, <2>4, <2>5 DEF d, f, n, vf, vt, end, o
<1> QED
  BY <1>10, <1>11

\* Responses that start one after the other.
OneAfterOther(f, m) == /\ \A i \in 1..m : f[i].from \in Int
                       /\ \A i, j \in 1..m : i < j => f[i].from < f[j].from

PutInOrder(f, m) == LET U == {f[i] : i \in 1..m}
                    IN  IsFiniteSet(U) /\ ByStart(U) = [i \in 1..m |-> f[i]]

\* They are put in that order.
LEMMA RowOrder ==
  ASSUME NEW m \in Nat, NEW f, OneAfterOther(f, m)
  PROVE  PutInOrder(f, m)
<1>0. /\ \A i \in 1..m : f[i].from \in Int
      /\ \A i, j \in 1..m : i < j => f[i].from < f[j].from
  BY DEF OneAfterOther
<1> DEFINE R(n) == {f[i] : i \in 1..n}
           N == {n \in Nat : n <= m => IsFiniteSet(R(n)) /\ Cardinality(R(n)) = n}
<1>1. 0 \in N
  <2>1. R(0) = {}
    OBVIOUS
  <2> HIDE DEF R
  <2> QED
    BY <2>1, FS_EmptySet
<1>2. \A i, j \in 1..m : f[i] = f[j] => i = j
  <2> SUFFICES ASSUME NEW i \in 1..m, NEW j \in 1..m, f[i] = f[j], i # j PROVE FALSE
    OBVIOUS
  <2>1. i < j \/ j < i
    OBVIOUS
  <2> QED
    BY <1>0, <2>1
<1>3. ASSUME NEW n \in Nat, n \in N PROVE n + 1 \in N
  <2> SUFFICES ASSUME n + 1 <= m PROVE IsFiniteSet(R(n + 1)) /\ Cardinality(R(n + 1)) = n + 1
    OBVIOUS
  <2> DEFINE x == f[n + 1]
  <2>1. n + 1 \in 1..m /\ \A j \in 1..n : j \in 1..m /\ j # n + 1
    OBVIOUS
  <2>2. R(n + 1) = R(n) \cup {x}
    <3>1. \A j : j \in 1..n + 1 <=> j \in 1..n \/ j = n + 1
      OBVIOUS
    <3> QED
      BY <3>1
  <2>3. x \notin R(n)
    BY <1>2, <2>1
  <2>4. IsFiniteSet(R(n)) /\ Cardinality(R(n)) = n
    BY <1>3
  <2> HIDE DEF R, x
  <2>5. IsFiniteSet(R(n) \cup {x}) /\ Cardinality(R(n) \cup {x}) = Cardinality(R(n)) + 1
    BY <2>3, <2>4, FS_AddElement
  <2> QED
    BY <2>2, <2>4, <2>5
<1> HIDE DEF N
<1>4. Nat \subseteq N
  BY <1>1, <1>3, SetInduction
<1>5. ASSUME NEW n \in 0..m PROVE IsFiniteSet(R(n)) /\ Cardinality(R(n)) = n
  <2> HIDE DEF R
  <2>1. n \in Nat /\ n <= m
    OBVIOUS
  <2> QED
    BY <1>4, <2>1 DEF N
<1> DEFINE U == R(m)
           Before(r) == {q \in U : q.from < r.from}
<1>6. ASSUME NEW i \in 1..m PROVE f[i] \in U /\ Cardinality(Before(f[i])) = i - 1
  <2>1. ASSUME NEW j \in 1..m PROVE f[j].from < f[i].from <=> j < i
    <3>1. j < i \/ j = i \/ i < j
      OBVIOUS
    <3> QED
      BY <1>0, <3>1
  <2>2. Before(f[i]) = R(i - 1)
    <3>1. \A j : j \in 1..i - 1 <=> j \in 1..m /\ j < i
      OBVIOUS
    <3>2. ASSUME NEW q \in Before(f[i]) PROVE q \in R(i - 1)
      BY <2>1, <3>1
    <3>3. ASSUME NEW q \in R(i - 1) PROVE q \in Before(f[i])
      BY <2>1, <3>1
    <3> QED
      BY <3>2, <3>3
  <2>3. i - 1 \in 0..m
    OBVIOUS
  <2>4. f[i] \in U
    OBVIOUS
  <2> HIDE DEF R, Before, U
  <2> QED
    BY <1>5, <2>2, <2>3, <2>4
<1>7. \A q \in U : \E j \in 1..m : q = f[j]
  OBVIOUS
<1>8. Cardinality(U) = m /\ IsFiniteSet(U)
  <2>1. m \in 0..m
    OBVIOUS
  <2> HIDE DEF R
  <2> QED
    BY <1>5, <2>1
<1>9. U = {f[i] : i \in 1..m}
  OBVIOUS
<1>10. ByStart(U) = [i \in 1..Cardinality(U) |-> CHOOSE r \in U : Cardinality(Before(r)) = i - 1]
  BY DEF ByStart
<1> HIDE DEF U, Before, R
<1>11. ASSUME NEW i \in 1..m PROVE (CHOOSE r \in U : Cardinality(Before(r)) = i - 1) = f[i]
  <2> DEFINE c == CHOOSE r \in U : Cardinality(Before(r)) = i - 1
  <2>1. c \in U /\ Cardinality(Before(c)) = i - 1
    BY <1>6
  <2> HIDE DEF c
  <2>2. PICK j \in 1..m : c = f[j]
    BY <1>7, <2>1
  <2>3. j - 1 = i - 1
    BY <1>6, <2>1, <2>2
  <2>4. c = f[i]
    BY <2>2, <2>3
  <2> QED
    BY <2>4 DEF c
<1> QED
  BY <1>8, <1>9, <1>10, <1>11 DEF PutInOrder

\* Chunks of length n * d, each in n bins.
Equal(at, ks, n, d) ==
  \A k \in ks : at[k].from = k * (n * d) /\ at[k].bins = n /\ at[k].dur = d

\* The bins a view meets of the kth of them, counted from the begin of the engine.
FirstBin(at, n, v, k) == k * n + overlap_indices(at[k], v)[1]
EndBin(at, n, v, k) == k * n + overlap_indices(at[k], v)[2]

\* The chunks that a view meets are those from x to y, without a gap between their bins.
Row(at, n, v, x, y) ==
  /\ \A k \in x..y : LET o == overlap_indices(at[k], v)
                     IN  o[1] \in Nat /\ o[2] \in Nat /\ o[1] < o[2] /\ o[2] <= n
  /\ \A k \in x..y : k + 1 \in x..y => EndBin(at, n, v, k) = (k + 1) * n /\ FirstBin(at, n, v, k + 1) = (k + 1) * n

\* So it is with all views.
LEMMA RowMet ==
  ASSUME NEW p \in Nat, NEW q \in Nat, NEW n \in Nat \ {0}, NEW d \in Nat \ {0},
         NEW at, Equal(at, p..q, n, d), NEW rs, IsRow(rs, at, p, q),
         NEW v, v.from \in Nat, v.to \in Nat, Met(rs, v) # {}
  PROVE  \E x, y \in p..q : x <= y /\ IsRow(Met(rs, v), at, x, y) /\ Row(at, n, v, x, y)
<1> DEFINE l == n * d
           o(k) == overlap_indices(at[k], v)
           K == {k \in p..q : o(k)[1] < o(k)[2]}
<1>1. l \in Nat \ {0}
  OBVIOUS
<1>2. ASSUME NEW k \in p..q
      PROVE  /\ k \in Nat /\ k * l \in Nat /\ (k + 1) * l = k * l + l
             /\ at[k].from = k * l /\ at[k].bins = n /\ at[k].dur = d
  <2> HIDE DEF l
  <2> QED
    BY <1>1 DEF Equal, l
<1> HIDE DEF l
<1>3. ASSUME NEW k \in p..q
      PROVE  /\ o(k)[1] \in Nat /\ o(k)[2] \in Nat /\ o(k)[2] <= n
             /\ o(k)[1] < o(k)[2] => k * l < v.to /\ v.from < (k + 1) * l
             /\ k * l < v.to /\ v.from <= k * l => o(k)[1] = 0
             /\ (k + 1) * l <= v.to /\ v.from < (k + 1) * l => o(k)[2] = n
  <2> DEFINE r == at[k]
             w == overlap_indices(r, v)
  <2>1. r.from = k * l /\ r.bins = n /\ r.dur = d /\ r.from \in Nat
    BY <1>2
  <2>2. r.from + r.bins * r.dur = (k + 1) * l
    BY <1>2, <2>1 DEF l
  <2> HIDE DEF r
  <2>3. /\ w[1] \in Nat /\ w[2] \in Nat /\ w[2] <= r.bins
        /\ w[1] < w[2] => r.from < v.to /\ v.from < r.from + r.bins * r.dur
        /\ r.from < v.to /\ v.from <= r.from => w[1] = 0
        /\ r.from + r.bins * r.dur <= v.to /\ v.from < r.from + r.bins * r.dur => w[2] = r.bins
    BY <2>1, MeetsAll
  <2>4. w = o(k)
    BY DEF r
  <2> HIDE DEF w, o
  <2> QED
    BY <2>1, <2>2, <2>3, <2>4
<1>4. Met(rs, v) = {at[k] : k \in K}
  BY DEF Met, IsRow
<1> HIDE DEF o
<1>k. K \subseteq p..q
  OBVIOUS
<1> HIDE DEF K
<1>5. K \subseteq Nat /\ K # {} /\ K \in SUBSET (0..q) /\ K \subseteq p..q
  <2>1. K # {}
    BY <1>4
  <2>2. \A k \in p..q : k \in Nat /\ k \in 0..q
    OBVIOUS
  <2> QED
    BY <1>k, <2>1, <2>2
<1>6. PICK x \in K : \A k \in K : x <= k
  BY <1>5, SetMin
<1>7. PICK y \in K : \A k \in K : k <= y
  <2>1. Max(K) \in K /\ \A k \in K : k <= Max(K)
    BY <1>5, MaxIs
  <2> QED
    BY <2>1
<1>8. x \in p..q /\ y \in p..q /\ x <= y /\ x \in Nat /\ y \in Nat
  BY <1>5, <1>6, <1>7
<1>9. ASSUME NEW k \in x..y PROVE k \in p..q /\ k \in Nat
  BY <1>8
<1>10. ASSUME NEW k \in x..y, NEW j \in x..y, k < j PROVE (k + 1) * l <= j * l
  BY <1>1, <1>9, <1>10
<1>11. ASSUME NEW k \in x..y, x < k PROVE v.from < k * l
  <2>1. v.from < (x + 1) * l
    BY <1>3, <1>6, <1>8 DEF K
  <2>2. (x + 1) * l <= k * l
    BY <1>8, <1>10, <1>11
  <2>3. k * l \in Nat /\ (x + 1) * l \in Int
    BY <1>2, <1>8, <1>9, <1>1
  <2> QED
    BY <2>1, <2>2, <2>3
<1>12. ASSUME NEW k \in x..y, k < y PROVE (k + 1) * l < v.to
  <2>1. y * l < v.to
    BY <1>3, <1>7, <1>8 DEF K
  <2>2. (k + 1) * l <= y * l
    BY <1>8, <1>10, <1>12
  <2>3. y * l \in Nat /\ (k + 1) * l \in Int
    BY <1>2, <1>8, <1>9, <1>1
  <2> QED
    BY <2>1, <2>2, <2>3
<1>13. ASSUME NEW k \in x..y, x < k PROVE k * l < v.to
  <2>1. y * l < v.to
    BY <1>3, <1>7, <1>8 DEF K
  <2>2. k * l <= y * l
    <3>1. k < y => (k + 1) * l <= y * l
      BY <1>8, <1>10
    <3> QED
      BY <1>1, <1>2, <1>8, <1>9, <3>1
  <2>3. y * l \in Nat /\ k * l \in Nat
    BY <1>2, <1>8, <1>9
  <2> QED
    BY <2>1, <2>2, <2>3
<1>14. ASSUME NEW k \in x..y, x < k PROVE o(k)[1] = 0
  <2>1. k * l \in Nat /\ v.from <= k * l
    BY <1>2, <1>9, <1>11, <1>14
  <2> QED
    BY <1>3, <1>9, <1>13, <1>14, <2>1
<1>15. ASSUME NEW k \in x..y, k < y PROVE o(k)[2] = n
  <2>1. v.from < (k + 1) * l
    <3>1. CASE k = x
      BY <1>3, <1>6, <1>8, <3>1 DEF K
    <3>2. CASE x < k
      <4>1. v.from < k * l /\ k * l \in Nat /\ (k + 1) * l = k * l + l
        BY <1>2, <1>9, <1>11, <3>2
      <4> QED
        BY <1>1, <4>1
    <3> QED
      BY <1>8, <3>1, <3>2
  <2>2. (k + 1) * l <= v.to
    <3>1. (k + 1) * l \in Int
      BY <1>1, <1>9
    <3> QED
      BY <1>12, <1>15, <3>1
  <2> QED
    BY <1>3, <1>9, <2>1, <2>2
<1>16. K = x..y
  <2>1. ASSUME NEW k \in x..y PROVE k \in K
    <3>1. CASE k = x \/ k = y
      BY <1>6, <1>7, <3>1
    <3>2. CASE x < k /\ k < y
      <4>1. o(k)[1] = 0 /\ o(k)[2] = n
        BY <1>14, <1>15, <3>2
      <4> QED
        BY <1>9, <4>1 DEF K
    <3> QED
      BY <1>8, <3>1, <3>2
  <2>2. \A k \in K : k \in x..y
    BY <1>5, <1>6, <1>7
  <2> QED
    BY <2>1, <2>2
<1>17. ASSUME NEW k \in x..y
       PROVE  /\ o(k)[1] \in Nat /\ o(k)[2] \in Nat /\ o(k)[1] < o(k)[2] /\ o(k)[2] <= n
              /\ k + 1 \in x..y => o(k)[2] = n /\ o(k + 1)[1] = 0
  <2>1. o(k)[1] < o(k)[2]
    BY <1>16 DEF K
  <2>2. k + 1 \in x..y => k < y /\ x < k + 1
    BY <1>8
  <2> QED
    BY <1>3, <1>9, <1>14, <1>15, <2>1, <2>2
<1>18. Row(at, n, v, x, y)
  <2>1. \A k \in x..y : k + 1 \in x..y => EndBin(at, n, v, k) = (k + 1) * n
                                          /\ FirstBin(at, n, v, k + 1) = (k + 1) * n
    <3> SUFFICES ASSUME NEW k \in x..y, k + 1 \in x..y
                 PROVE  EndBin(at, n, v, k) = (k + 1) * n /\ FirstBin(at, n, v, k + 1) = (k + 1) * n
      OBVIOUS
    <3>1. EndBin(at, n, v, k) = k * n + n /\ FirstBin(at, n, v, k + 1) = (k + 1) * n + 0
      BY <1>17 DEF EndBin, FirstBin, o
    <3>2. k * n + n = (k + 1) * n /\ (k + 1) * n + 0 = (k + 1) * n
      BY <1>9
    <3> QED
      BY <3>1, <3>2
  <2> QED
    BY <1>17, <2>1 DEF Row, o
<1> QED
  BY <1>4, <1>8, <1>16, <1>18 DEF IsRow

\* The row of chunks from x to y, and how many bins a view meets up to each of them.
InRow(at, x, y) == [i \in 1..(y - x) + 1 |-> at[x + (i - 1)]]
Offsets(at, n, v, x, y) ==
  [j \in 0..(y - x) + 1 |-> IF j = 0 THEN 0
                            ELSE EndBin(at, n, v, x + (j - 1)) - FirstBin(at, n, v, x)]

\* The bins that a view meets of the responses rs are counted one chunk after the other.
Counted(rs, at, n, v, x, y) ==
  LET m   == (y - x) + 1
      f   == InRow(at, x, y)
      off == Offsets(at, n, v, x, y)
  IN  /\ m \in Nat \ {0} /\ ByStart(Met(rs, v)) = f
      /\ off \in [0..m -> Nat] /\ off[0] = 0
      /\ \A j \in 1..m : LET o == overlap_indices(f[j], v) IN
           /\ x + (j - 1) \in x..y /\ f[j] = at[x + (j - 1)]
           /\ o[1] < o[2] /\ off[j] - off[j - 1] = o[2] - o[1]
           /\ off[j - 1] + FirstBin(at, n, v, x) = (x + (j - 1)) * n + o[1]
      /\ TotalBins(rs, v) = off[m]

\* So it is with every row.
LEMMA RowTotals ==
  ASSUME NEW p \in Nat, NEW q \in Nat, NEW n \in Nat \ {0}, NEW d \in Nat \ {0},
         NEW at, Equal(at, p..q, n, d), NEW x \in p..q, NEW y \in p..q, x <= y,
         NEW v, Row(at, n, v, x, y), NEW rs, IsRow(Met(rs, v), at, x, y)
  PROVE  Counted(rs, at, n, v, x, y)
<1> DEFINE m == (y - x) + 1
           f == InRow(at, x, y)
           off == Offsets(at, n, v, x, y)
           o(k) == overlap_indices(at[k], v)
           A == FirstBin(at, n, v, x)
           Z(k) == EndBin(at, n, v, k)
           U == {f[i] : i \in 1..m}
           w == [r \in U |-> overlap_indices(r, v)[2] - overlap_indices(r, v)[1]]
<1>1. x \in Nat /\ y \in Nat /\ m \in Nat \ {0}
  OBVIOUS
<1>2. ASSUME NEW j \in 1..m PROVE x + (j - 1) \in x..y /\ f[j] = at[x + (j - 1)]
  <2>1. x + (j - 1) \in x..y
    BY <1>1
  <2> QED
    BY <2>1 DEF InRow
<1>3. ASSUME NEW k \in x..y
      PROVE  /\ k \in Nat /\ k \in p..q
             /\ o(k)[1] \in Nat /\ o(k)[2] \in Nat /\ o(k)[1] < o(k)[2] /\ o(k)[2] <= n
             /\ FirstBin(at, n, v, k) = k * n + o(k)[1] /\ Z(k) = k * n + o(k)[2]
             /\ k * n \in Nat /\ FirstBin(at, n, v, k) \in Nat /\ Z(k) \in Nat
  <2>1. k \in Nat /\ k \in p..q /\ k * n \in Nat
    BY <1>1
  <2>2. /\ o(k)[1] \in Nat /\ o(k)[2] \in Nat /\ o(k)[1] < o(k)[2] /\ o(k)[2] <= n
        /\ FirstBin(at, n, v, k) = k * n + o(k)[1] /\ Z(k) = k * n + o(k)[2]
    BY DEF Row, FirstBin, EndBin
  <2> DEFINE a == o(k)[1]
             b == o(k)[2]
             c == k * n
  <2>3. c + a \in Nat /\ c + b \in Nat
    <3>1. a \in Nat /\ b \in Nat /\ c \in Nat
      BY <2>1, <2>2
    <3> HIDE DEF a, b, c
    <3> QED
      BY <3>1
  <2> HIDE DEF o, Z
  <2> QED
    BY <2>1, <2>2, <2>3
<1>4. ASSUME NEW k \in x..y, k + 1 \in x..y
      PROVE  Z(k) = FirstBin(at, n, v, k + 1)
  BY <1>4 DEF Row
<1>5. off[0] = 0 /\ \A j \in 1..m : off[j] = Z(x + (j - 1)) - A
  <2> HIDE DEF Z, A, m
  <2> QED
    BY <1>1 DEF Offsets, m, Z, A
<1> HIDE DEF off, f
<1>6. A \in Nat /\ A = x * n + o(x)[1]
  <2>1. x \in x..y
    BY <1>1
  <2> HIDE DEF o
  <2> QED
    BY <1>3, <2>1
<1> HIDE DEF o, A, Z
<1>7. ASSUME NEW j \in 1..m PROVE off[j - 1] + A = (x + (j - 1)) * n + o(x + (j - 1))[1]
  <2> DEFINE k == x + (j - 1)
  <2>1. k \in x..y
    BY <1>2
  <2>2. CASE j = 1
    <3>1. k = x /\ j - 1 = 0
      BY <1>1, <2>2
    <3> HIDE DEF k
    <3> QED
      BY <1>5, <1>6, <3>1 DEF k
  <2>3. CASE j # 1
    <3> DEFINE h == x + ((j - 1) - 1)
    <3>1. j - 1 \in 1..m /\ h \in x..y /\ h + 1 = k
      BY <1>1, <2>3
    <3>2. off[j - 1] = Z(h) - A
      BY <1>5, <3>1
    <3>3. Z(h) = FirstBin(at, n, v, k)
      BY <1>4, <2>1, <3>1
    <3>4. FirstBin(at, n, v, k) = k * n + o(k)[1] /\ k * n \in Nat /\ o(k)[1] \in Nat
      BY <1>3, <2>1
    <3> HIDE DEF h, k
    <3>5. off[j - 1] + A = k * n + o(k)[1]
      BY <1>6, <3>2, <3>3, <3>4
    <3> QED
      BY <3>5 DEF k
  <2> QED
    BY <2>2, <2>3
<1>8. ASSUME NEW j \in 1..m PROVE off[j] + A = (x + (j - 1)) * n + o(x + (j - 1))[2]
  <2> DEFINE k == x + (j - 1)
  <2>1. k \in x..y /\ off[j] = Z(k) - A
    BY <1>2, <1>5
  <2>2. Z(k) = k * n + o(k)[2] /\ k * n \in Nat /\ o(k)[2] \in Nat
    BY <1>3, <2>1
  <2> HIDE DEF k
  <2>3. off[j] + A = k * n + o(k)[2]
    BY <1>6, <2>1, <2>2
  <2> QED
    BY <2>3 DEF k
<1>9. ASSUME NEW j \in 1..m
      PROVE  /\ off[j] \in Int /\ off[j - 1] \in Int
             /\ off[j] = off[j - 1] + (o(x + (j - 1))[2] - o(x + (j - 1))[1])
  <2> DEFINE k == x + (j - 1)
  <2>1. k \in x..y
    BY <1>2
  <2>2. k * n \in Nat /\ o(k)[1] \in Nat /\ o(k)[2] \in Nat
    BY <1>3, <2>1
  <2>3. off[j - 1] + A = k * n + o(k)[1] /\ off[j] + A = k * n + o(k)[2]
    BY <1>7, <1>8
  <2>4. off[j] = Z(k) - A /\ Z(k) \in Int
    BY <1>3, <1>5, <2>1
  <2>5. off[j - 1] \in Int
    <3>1. CASE j = 1
      BY <1>5, <3>1
    <3>2. CASE j # 1
      <4>1. j - 1 \in 1..m
        BY <1>1, <3>2
      <4>2. off[j - 1] = Z(x + ((j - 1) - 1)) - A /\ x + ((j - 1) - 1) \in x..y
        BY <1>2, <1>5, <4>1
      <4>3. Z(x + ((j - 1) - 1)) \in Int
        <5> DEFINE h == x + ((j - 1) - 1)
        <5>1. h \in x..y
          BY <4>2
        <5> HIDE DEF h
        <5>2. Z(h) \in Int
          BY <1>3, <5>1
        <5> QED
          BY <5>2 DEF h
      <4> QED
        BY <1>6, <4>2, <4>3
    <3> QED
      BY <3>1, <3>2
  <2> DEFINE c == k * n
             a == o(k)[1]
             b == o(k)[2]
             s == off[j - 1]
             t == off[j]
  <2> HIDE DEF k
  <2>6. t \in Int /\ t = s + (b - a)
    <3>1. /\ c \in Nat /\ a \in Nat /\ b \in Nat /\ s + A = c + a /\ t + A = c + b
          /\ t \in Int /\ s \in Int /\ A \in Nat
      BY <1>6, <2>2, <2>3, <2>4, <2>5
    <3> HIDE DEF a, b, c, s, t
    <3> QED
      BY <3>1
  <2> QED
    BY <2>5, <2>6 DEF k
<1>10. ASSUME NEW j \in 1..m PROVE o(x + (j - 1))[1] \in Nat /\ o(x + (j - 1))[2] \in Nat
                                   /\ o(x + (j - 1))[1] < o(x + (j - 1))[2]
  <2> DEFINE k == x + (j - 1)
  <2>1. k \in x..y
    BY <1>2
  <2> HIDE DEF k
  <2>2. o(k)[1] \in Nat /\ o(k)[2] \in Nat /\ o(k)[1] < o(k)[2]
    BY <1>3, <2>1
  <2> QED
    BY <2>2 DEF k
<1>11. \A j \in 0..m : off[j] \in Nat
  <2> DEFINE N == {j \in Nat : j <= m => off[j] \in Nat}
  <2>1. 0 \in N
    BY <1>5
  <2>2. ASSUME NEW j \in Nat, j \in N PROVE j + 1 \in N
    <3> SUFFICES ASSUME j + 1 <= m PROVE off[j + 1] \in Nat
      OBVIOUS
    <3>1. j + 1 \in 1..m /\ (j + 1) - 1 = j /\ off[j] \in Nat
      BY <1>1, <2>2
    <3> DEFINE a == o(x + ((j + 1) - 1))[1]
               b == o(x + ((j + 1) - 1))[2]
    <3>2. off[j + 1] = off[(j + 1) - 1] + (b - a) /\ a \in Nat /\ b \in Nat /\ a < b
      BY <1>9, <1>10, <3>1
    <3> HIDE DEF a, b
    <3> QED
      BY <3>1, <3>2
  <2> HIDE DEF N
  <2>3. Nat \subseteq N
    BY <2>1, <2>2, SetInduction
  <2> QED
    BY <1>1, <2>3 DEF N
<1>12. off \in [0..m -> Nat]
  <2>1. off = [j \in 0..m |-> off[j]]
    BY DEF off, Offsets
  <2> HIDE DEF m
  <2> QED
    BY <1>11, <2>1
<1>13. Met(rs, v) = U
  <2>1. ASSUME NEW k \in x..y PROVE at[k] \in U
    <3>1. (k - x) + 1 \in 1..m /\ x + (((k - x) + 1) - 1) = k
      BY <1>1
    <3>2. f[(k - x) + 1] = at[k]
      BY <1>2, <3>1
    <3> QED
      BY <3>1, <3>2
  <2>2. ASSUME NEW r \in U PROVE \E k \in x..y : r = at[k]
    BY <1>2
  <2> HIDE DEF U
  <2> QED
    BY <2>1, <2>2 DEF IsRow
<1>14. \A i \in 1..m : f[i].from = (x + (i - 1)) * (n * d)
  <2> SUFFICES ASSUME NEW i \in 1..m PROVE f[i].from = (x + (i - 1)) * (n * d)
    OBVIOUS
  <2> DEFINE k == x + (i - 1)
  <2>1. k \in x..y /\ f[i] = at[k]
    BY <1>2
  <2> HIDE DEF k
  <2>2. k \in p..q
    BY <1>3, <2>1
  <2>3. f[i].from = k * (n * d)
    BY <2>1, <2>2 DEF Equal
  <2> QED
    BY <2>3 DEF k
<1>15. /\ \A i \in 1..m : f[i].from \in Int
       /\ \A i, j \in 1..m : i < j => f[i].from < f[j].from
  <2> DEFINE l == n * d
  <2>1. l \in Nat \ {0}
    OBVIOUS
  <2>2. \A i \in 1..m : f[i].from = (x + (i - 1)) * l
    BY <1>14
  <2> HIDE DEF l
  <2>3. \A i \in 1..m : f[i].from \in Int
    BY <1>1, <2>1, <2>2
  <2>4. ASSUME NEW i \in 1..m, NEW j \in 1..m, i < j PROVE f[i].from < f[j].from
    <3>1. (x + (i - 1)) * l < (x + (j - 1)) * l
      BY <1>1, <2>1, <2>4
    <3> QED
      BY <2>2, <3>1
  <2> QED
    BY <2>3, <2>4
<1>16. IsFiniteSet(U) /\ ByStart(U) = [i \in 1..m |-> f[i]]
  <2> HIDE DEF m
  <2>1. OneAfterOther(f, m)
    BY <1>15 DEF OneAfterOther
  <2>2. PutInOrder(f, m)
    BY <1>1, <2>1, RowOrder
  <2> QED
    BY <2>2 DEF PutInOrder
<1>17. [i \in 1..m |-> f[i]] = f
  BY DEF f, InRow
<1>18. TotalBins(rs, v) = off[m]
  <2>1. \A j \in 1..m : /\ f[j] \in U /\ f[j] = at[x + (j - 1)]
                        /\ w[f[j]] = overlap_indices(f[j], v)[2] - overlap_indices(f[j], v)[1]
    BY <1>2
  <2>2. ASSUME NEW j \in 1..m PROVE w[f[j]] \in Nat /\ off[j] = off[j - 1] + w[f[j]]
    <3> DEFINE a == o(x + (j - 1))[1]
               b == o(x + (j - 1))[2]
    <3>1. w[f[j]] = b - a
      BY <2>1 DEF o
    <3>2. a \in Nat /\ b \in Nat /\ a < b /\ off[j] = off[j - 1] + (b - a)
      BY <1>9, <1>10
    <3> HIDE DEF a, b, w
    <3> QED
      BY <3>1, <3>2
  <2>3. \A i, j \in 1..m : f[i] = f[j] => i = j
    <3> SUFFICES ASSUME NEW i \in 1..m, NEW j \in 1..m, f[i] = f[j], i # j PROVE FALSE
      OBVIOUS
    <3>1. i < j \/ j < i
      OBVIOUS
    <3> QED
      BY <1>15, <3>1
  <2>4. TotalBins(rs, v) = SumOf(w, U)
    <3>1. TotalBins(rs, v) = SumFunction(w)
      BY <1>13 DEF TotalBins
    <3>2. DOMAIN w = U
      OBVIOUS
    <3> HIDE DEF w, U
    <3> QED
      BY <3>1, <3>2 DEF SumFunction, SumOf
  <2> HIDE DEF w, m
  <2>5. SumOf(w, {f[j] : j \in 1..m}) = off[m]
    <3>1. m \in Nat /\ off[0] = 0
      BY <1>1, <1>5
    <3>2. AddsUp(m, f, w, off)
      BY <2>2, <2>3, <3>1 DEF AddsUp
    <3> QED
      BY <1>12, <3>1, <3>2, SumRow
  <2> QED
    BY <2>4, <2>5
<1>19. ASSUME NEW j \in 1..m
       PROVE  LET s == overlap_indices(f[j], v) IN
              /\ x + (j - 1) \in x..y /\ f[j] = at[x + (j - 1)]
              /\ s[1] < s[2] /\ off[j] - off[j - 1] = s[2] - s[1]
              /\ off[j - 1] + A = (x + (j - 1)) * n + s[1]
  <2> DEFINE a == o(x + (j - 1))[1]
             b == o(x + (j - 1))[2]
  <2>1. overlap_indices(f[j], v)[1] = a /\ overlap_indices(f[j], v)[2] = b
    BY <1>2 DEF o
  <2>2. off[j] - off[j - 1] = b - a
    <3>1. /\ a \in Nat /\ b \in Nat /\ off[j] = off[j - 1] + (b - a)
          /\ off[j] \in Int /\ off[j - 1] \in Int
      BY <1>9, <1>10
    <3> HIDE DEF a, b
    <3> QED
      BY <3>1
  <2> QED
    BY <1>2, <1>7, <1>10, <2>1, <2>2
<1> HIDE DEF U, m
<1> QED
  BY <1>1, <1>5, <1>12, <1>13, <1>16, <1>17, <1>18, <1>19 DEF Counted, A, f, off, m

\* A state's bins of a chunk that a view meets, as combine_chunks takes them.
PartOf(r, v, s) ==
  IF s \in DOMAIN r.series
  THEN SubSeq(r.series[s], overlap_indices(r, v)[1] + 1, overlap_indices(r, v)[2])
  ELSE << >>

Flattened(f, D, v) == [s \in UNION {DOMAIN f[i].series : i \in D} |->
                         FlattenSeq([i \in D |-> PartOf(f[i], v, s)])]

\* A timeline that is put together from a row of chunks f: off[j] bins are of the first j
\* of them, and the first bin is the Ath of the engine's life, from 0.
PutTogether(r, f, off, A, x, n, d, v) ==
  LET m == Len(f) IN
  /\ m \in Nat \ {0} /\ off \in [0..m -> Nat] /\ off[0] = 0
  /\ \A j \in 1..m : LET o == overlap_indices(f[j], v) IN
       /\ o[1] \in Nat /\ o[2] \in Nat /\ o[1] < o[2] /\ o[2] <= n
       /\ off[j] - off[j - 1] = o[2] - o[1]
       /\ off[j - 1] + A = (x + (j - 1)) * n + o[1]
  /\ A \in Nat /\ r.from = A * d /\ r.dur = d /\ r.bins = off[m]
  /\ r.series = Flattened(f, 1..m, v)

\* Every timeline of equal chunks is.
LEMMA CombinedIs ==
  ASSUME NEW p \in Nat, NEW q \in Nat, NEW n \in Nat \ {0}, NEW d \in Nat \ {0},
         NEW at, Equal(at, p..q, n, d), NEW rs, IsRow(rs, at, p, q),
         NEW v, v.from \in Nat, v.to \in Nat, NEW r \in combine_chunks(rs, v)
  PROVE  \E x, y \in p..q :
           x <= y /\ PutTogether(r, InRow(at, x, y), Offsets(at, n, v, x, y), FirstBin(at, n, v, x), x, n, d, v)
<1> DEFINE total == TotalBins(rs, v)
           used == ByStart(Met(rs, v))
           a == selected_bin_span(used[1], v)[1]
           b == selected_bin_span(used[Len(used)], v)[2]
<1>1. /\ total # 0 /\ r.from = a /\ r.bins = total /\ r.dur = CeilDiv(b - a, total)
      /\ r.series = Flattened(used, DOMAIN used, v)
  <2> DEFINE one == [from |-> a, dur |-> CeilDiv(b - a, total), bins |-> total,
                     series |-> Flattened(used, DOMAIN used, v)]
  <2>1. combine_chunks(rs, v) = IF total = 0 THEN {} ELSE {one}
    BY DEF combine_chunks, Flattened, PartOf
  <2> HIDE DEF a, b, total, used
  <2>2. total # 0 /\ r = one
    BY <2>1
  <2> QED
    BY <2>2
<1>2. Met(rs, v) # {}
  <2> SUFFICES ASSUME Met(rs, v) = {} PROVE total = 0
    BY <1>1
  <2> DEFINE w == [c \in {} |-> overlap_indices(c, v)[2] - overlap_indices(c, v)[1]]
  <2>1. w \in [{} -> Nat] /\ total = SumFunction(w)
    BY DEF TotalBins
  <2>2. IsFiniteSet({})
    BY FS_EmptySet
  <2> HIDE DEF w, total
  <2> QED
    BY <2>1, <2>2, SumIsNat
<1>3. PICK x \in p..q, y \in p..q : x <= y /\ IsRow(Met(rs, v), at, x, y) /\ Row(at, n, v, x, y)
  BY <1>2, RowMet
<1> DEFINE m == (y - x) + 1
           f == InRow(at, x, y)
           off == Offsets(at, n, v, x, y)
           A == FirstBin(at, n, v, x)
           Z == EndBin(at, n, v, y)
           o(k) == overlap_indices(at[k], v)
<1>4. /\ m \in Nat \ {0} /\ used = f
      /\ off \in [0..m -> Nat] /\ off[0] = 0
      /\ \A j \in 1..m : LET w == overlap_indices(f[j], v) IN
           /\ x + (j - 1) \in x..y /\ f[j] = at[x + (j - 1)]
           /\ w[1] < w[2] /\ off[j] - off[j - 1] = w[2] - w[1]
           /\ off[j - 1] + A = (x + (j - 1)) * n + w[1]
      /\ total = off[m]
  <2>1. Counted(rs, at, n, v, x, y)
    BY <1>3, RowTotals
  <2> QED
    BY <2>1 DEF Counted
<1>5. Len(f) = m /\ DOMAIN f = 1..m
  BY <1>4 DEF InRow
<1>6. /\ x \in Nat /\ y \in Nat /\ x \in x..y /\ y \in x..y /\ x + (m - 1) = y
      /\ x + (1 - 1) = x /\ 1 \in 1..m /\ m \in 1..m
  BY <1>3
<1>7. f[1] = at[x] /\ f[m] = at[y]
  <2> HIDE DEF f, m
  <2>1. f[1] = at[x + (1 - 1)] /\ f[m] = at[x + (m - 1)]
    BY <1>4, <1>6
  <2> QED
    BY <1>6, <2>1
<1>8. \A k \in x..y : /\ o(k)[1] \in Nat /\ o(k)[2] \in Nat /\ o(k)[2] <= n
                      /\ at[k].from = k * (n * d) /\ at[k].dur = d
  <2>1. \A k \in x..y : k \in p..q
    BY <1>3
  <2> QED
    BY <1>3, <2>1 DEF Row, Equal
<1>9. /\ A = x * n + o(x)[1] /\ Z = y * n + o(y)[2]
      /\ A \in Nat /\ Z \in Nat
  <2>1. A = x * n + o(x)[1] /\ Z = y * n + o(y)[2]
    BY DEF FirstBin, EndBin
  <2>2. x * n \in Nat /\ y * n \in Nat /\ o(x)[1] \in Nat /\ o(y)[2] \in Nat
    BY <1>6, <1>8
  <2> DEFINE s == o(x)[1]
             t == o(y)[2]
             c == x * n
             e == y * n
  <2>3. s \in Nat /\ t \in Nat /\ c \in Nat /\ e \in Nat
    BY <2>2
  <2>4. A = c + s /\ Z = e + t
    BY <2>1
  <2> HIDE DEF s, t, c, e, A, Z, o
  <2>5. A \in Nat /\ Z \in Nat
    BY <2>3, <2>4
  <2> QED
    BY <2>1, <2>5
<1>10. a = A * d /\ b = Z * d
  <2> DEFINE s == o(x)[1]
             t == o(y)[2]
  <2>1. a = at[x].from + s * at[x].dur /\ b = at[y].from + t * at[y].dur
    BY <1>4, <1>5, <1>7 DEF selected_bin_span
  <2>2. a = x * (n * d) + s * d /\ b = y * (n * d) + t * d
    BY <1>6, <1>8, <2>1
  <2>3. s \in Nat /\ t \in Nat /\ A = x * n + s /\ Z = y * n + t
    BY <1>6, <1>8, <1>9
  <2> HIDE DEF s, t, A, Z, a, b
  <2>4. x * (n * d) + s * d = (x * n + s) * d /\ y * (n * d) + t * d = (y * n + t) * d
    <3> DEFINE c == x * n
               e == y * n
    <3>1. x * (n * d) = c * d /\ y * (n * d) = e * d /\ c \in Nat /\ e \in Nat
      BY <1>6
    <3> HIDE DEF c, e
    <3>2. c * d + s * d = (c + s) * d /\ e * d + t * d = (e + t) * d
      BY <2>3, <3>1
    <3> QED
      BY <3>1, <3>2 DEF c, e
  <2> QED
    BY <2>2, <2>3, <2>4
<1>11. off[m] = Z - A
  <2>1. off[m] = EndBin(at, n, v, x + (m - 1)) - A
    BY <1>4, <1>6 DEF Offsets
  <2> QED
    BY <1>6, <2>1
<1>12. r.dur = d
  <2>1. b - a = total * d /\ total \in Nat \ {0}
    <3>1. total = Z - A /\ total \in Nat
      BY <1>4, <1>6, <1>11
    <3> HIDE DEF total, Z, A, a, b
    <3>2. Z * d - A * d = (Z - A) * d
      BY <1>9
    <3> QED
      BY <1>1, <1>10, <3>1, <3>2
  <2> HIDE DEF total, a, b
  <2> QED
    BY <1>1, <2>1, RoundedExactly
<1>13. \A j \in 1..m : LET w == overlap_indices(f[j], v) IN
         /\ w[1] \in Nat /\ w[2] \in Nat /\ w[1] < w[2] /\ w[2] <= n
         /\ off[j] - off[j - 1] = w[2] - w[1]
         /\ off[j - 1] + A = (x + (j - 1)) * n + w[1]
  BY <1>4, <1>8
<1>14. r.series = Flattened(f, 1..m, v)
  <2> HIDE DEF used, f, m
  <2> QED
    BY <1>1, <1>4, <1>5
<1> HIDE DEF used, total, a, b, f, off, A, m
<1>15. r.from = A * d /\ r.bins = off[m]
  BY <1>1, <1>4, <1>10
<1>16. PutTogether(r, f, off, A, x, n, d, v)
  BY <1>4, <1>5, <1>9, <1>12, <1>13, <1>14, <1>15 DEF PutTogether
<1> QED
  BY <1>3, <1>16 DEF f, off, A

\* Where such a timeline ends, in bins of the engine's life.
LEMMA TogetherEnds ==
  ASSUME NEW n \in Nat \ {0}, NEW d \in Nat \ {0}, NEW x \in Nat, NEW f, NEW off, NEW A, NEW v, NEW r,
         PutTogether(r, f, off, A, x, n, d, v)
  PROVE  LET m == Len(f)
         IN  /\ m \in Nat \ {0} /\ off[m] \in Nat /\ A \in Nat
             /\ x * n <= A /\ A + off[m] <= (x + m) * n
             /\ r.from = A * d /\ r.from + r.bins * r.dur = (A + off[m]) * d
<1> DEFINE m == Len(f)
           o(j) == overlap_indices(f[j], v)
<1>1. /\ m \in Nat \ {0} /\ off \in [0..m -> Nat] /\ off[0] = 0
      /\ \A j \in 1..m :
           /\ o(j)[1] \in Nat /\ o(j)[2] \in Nat /\ o(j)[1] < o(j)[2] /\ o(j)[2] <= n
           /\ off[j] - off[j - 1] = o(j)[2] - o(j)[1]
           /\ off[j - 1] + A = (x + (j - 1)) * n + o(j)[1]
      /\ A \in Nat /\ r.from = A * d /\ r.dur = d /\ r.bins = off[m]
  BY DEF PutTogether
<1> HIDE DEF m, o
<1>2. /\ 1 \in 1..m /\ m \in 1..m /\ 1 - 1 = 0 /\ x + (1 - 1) = x /\ m \in 0..m /\ m - 1 \in 0..m
      /\ x + (m - 1) \in Nat /\ (x + (m - 1)) + 1 = x + m
  BY <1>1
<1>3. x * n <= A
  <2> DEFINE c == x * n
             s == o(1)[1]
  <2>1. 0 + A = c + s /\ s \in Nat /\ c \in Nat
    <3>1. off[1 - 1] + A = (x + (1 - 1)) * n + o(1)[1] /\ o(1)[1] \in Nat
      BY <1>1, <1>2
    <3> QED
      BY <1>1, <1>2, <3>1
  <2> HIDE DEF c, s
  <2> QED
    BY <1>1, <2>1 DEF c
<1>4. off[m] \in Nat /\ off[m - 1] \in Nat
  BY <1>1, <1>2
<1>5. A + off[m] <= (x + m) * n
  <2> DEFINE k == x + (m - 1)
             c == k * n
             s == o(m)[1]
             t == o(m)[2]
  <2>1. off[m - 1] + A = c + s /\ off[m] - off[m - 1] = t - s /\ s \in Nat /\ t \in Nat /\ t <= n
    BY <1>1, <1>2
  <2>2. c \in Nat /\ (x + m) * n = c + n
    <3>1. k \in Nat /\ x + m = k + 1
      BY <1>2
    <3> HIDE DEF k
    <3> QED
      BY <3>1
  <2> DEFINE g == off[m]
             h == off[m - 1]
             w == (x + m) * n
  <2>3. /\ h + A = c + s /\ g - h = t - s /\ s \in Nat /\ t \in Nat /\ t <= n
        /\ c \in Nat /\ w = c + n /\ g \in Nat /\ h \in Nat /\ A \in Nat
    BY <1>1, <1>4, <2>1, <2>2
  <2> HIDE DEF k, c, s, t, g, h, w
  <2>4. A + g <= w
    BY <2>3
  <2> QED
    BY <2>4 DEF g, w
<1>6. r.from + r.bins * r.dur = (A + off[m]) * d
  <2> DEFINE b == off[m]
  <2>1. r.from + r.bins * r.dur = A * d + b * d /\ b \in Nat
    BY <1>1, <1>4
  <2> HIDE DEF b
  <2>2. A * d + b * d = (A + b) * d
    BY <1>1, <2>1
  <2> QED
    BY <2>1, <2>2 DEF b
<1> QED
  BY <1>1, <1>3, <1>4, <1>5, <1>6 DEF m

\* A state in use during it is shown: the chunk in whose stretch it is used has it.
LEMMA StatesShown ==
  ASSUME NEW an, NEW e, NEW n \in Nat \ {0}, NEW d \in Nat \ {0},
         NEW x \in Nat, NEW f, NEW off, NEW A, NEW v, NEW r, PutTogether(r, f, off, A, x, n, d, v),
         \A j \in 1..Len(f) : Exact(an, e, n, d, x + (j - 1), f[j]),
         NEW u \in Usages(an, e), u.from \in Int, u.to \in Int,
         Overlap(u, r.from, r.from + r.bins * r.dur) > 0
  PROVE  u.state \in DOMAIN r.series
<1> DEFINE m == Len(f)
           l == n * d
           a == A * d
           b == (A + off[m]) * d
<1>1. /\ m \in Nat \ {0} /\ off[m] \in Nat /\ A \in Nat /\ x * n <= A /\ A + off[m] <= (x + m) * n
      /\ r.from = a /\ r.from + r.bins * r.dur = b
  BY TogetherEnds
<1> HIDE DEF m
<1>2. a \in Int /\ b \in Int /\ l \in Nat \ {0}
  <2> DEFINE c == A + off[m]
  <2>1. c \in Nat
    BY <1>1
  <2> HIDE DEF c
  <2>2. A * d \in Int /\ c * d \in Int /\ n * d \in Nat \ {0}
    BY <1>1, <2>1
  <2> QED
    BY <2>2 DEF c
<1>3. x * l <= a
  <2> DEFINE c == x * n
  <2>1. x * l = c * d /\ c \in Nat /\ c <= A
    BY <1>1
  <2> HIDE DEF c
  <2>2. c * d <= A * d
    BY <1>1, <2>1
  <2> QED
    BY <2>1, <2>2
<1>4. b <= (x + m) * l
  <2> DEFINE h == x + m
             c == h * n
             g == A + off[m]
  <2>1. h \in Nat /\ g \in Nat
    BY <1>1
  <2> HIDE DEF h
  <2>2. h * l = c * d /\ c \in Nat
    BY <2>1
  <2>3. g <= c
    BY <1>1 DEF h
  <2> HIDE DEF c, g, l
  <2>4. g * d <= c * d
    BY <2>1, <2>2, <2>3
  <2> QED
    BY <2>2, <2>4 DEF g, h
<1>5. PICK t \in Int : a <= t /\ t < b /\ u.from <= t /\ t < u.to
  <2> HIDE DEF a, b
  <2>1. Overlap(u, a, b) > 0
    BY <1>1
  <2> QED
    BY <1>2, <2>1, OverlapIs
<1> HIDE DEF a, b, l
<1> DEFINE k == t \div l
<1>6. k \in Int /\ k * l <= t /\ t < (k + 1) * l
  BY <1>2, Division
<1> HIDE DEF k
<1>7. x <= k
  <2> SUFFICES ASSUME k + 1 <= x PROVE FALSE
    BY <1>6
  <2>1. (k + 1) * l <= x * l
    BY <1>2, <1>6
  <2> DEFINE g == (k + 1) * l
             h == x * l
  <2>2. g \in Int /\ h \in Int /\ g <= h /\ h <= a /\ a <= t /\ t < g
    BY <1>2, <1>3, <1>5, <1>6, <2>1
  <2> HIDE DEF g, h
  <2> QED
    BY <1>2, <2>2
<1>8. k < x + m
  <2> DEFINE h == x + m
  <2>1. h \in Nat
    BY <1>1
  <2> HIDE DEF h
  <2> SUFFICES ASSUME h <= k PROVE FALSE
    BY <1>6, <2>1 DEF h
  <2>2. h * l <= k * l
    BY <1>2, <1>6, <2>1
  <2>3. h * l \in Int /\ k * l \in Int
    BY <1>2, <1>6, <2>1
  <2>4. b <= h * l
    BY <1>4 DEF h
  <2> QED
    BY <1>2, <1>5, <1>6, <2>2, <2>3, <2>4
<1> DEFINE j == (k - x) + 1
<1>9. j \in 1..m /\ x + (j - 1) = k
  BY <1>1, <1>6, <1>7, <1>8
<1> HIDE DEF j
<1>10. Exact(an, e, n, d, k, f[j])
  BY <1>9 DEF m
<1>11. Intersects(u, k * l, (k + 1) * l)
  <2>1. k * l \in Int /\ (k + 1) * l \in Int
    BY <1>2, <1>6
  <2> QED
    BY <1>5, <1>6, <2>1 DEF Intersects
<1>12. u.state \in DOMAIN f[j].series
  BY <1>10, <1>11 DEF Exact, l
<1>13. DOMAIN r.series = UNION {DOMAIN f[i].series : i \in 1..m}
  BY DEF PutTogether, Flattened, m
<1> QED
  BY <1>9, <1>12, <1>13

\* A series with a value for every bin has the usage of each: every chunk has a part of it,
\* and the jth is of the bins from off[j - 1] to off[j].
LEMMA BinsFilled ==
  ASSUME NEW an \in SUBSET AllFacts, NEW e, NEW n \in Nat \ {0}, NEW d \in Nat \ {0},
         NEW x \in Nat, NEW f, NEW off, NEW A, NEW v, NEW r, PutTogether(r, f, off, A, x, n, d, v),
         \A j \in 1..Len(f) : Exact(an, e, n, d, x + (j - 1), f[j]),
         NEW s \in DOMAIN r.series, Len(r.series[s]) = r.bins
  PROVE  \A i \in 1..r.bins : r.series[s][i] = Bin(an, e, s, d, A + i)
<1> DEFINE m == Len(f)
           o(j) == overlap_indices(f[j], v)
           ps == [i \in 1..m |-> PartOf(f[i], v, s)]
           q == [i \in Nat |-> Bin(an, e, s, d, A + i)]
<1>1. /\ m \in Nat \ {0} /\ off \in [0..m -> Nat] /\ off[0] = 0
      /\ \A j \in 1..m :
           /\ o(j)[1] \in Nat /\ o(j)[2] \in Nat /\ o(j)[1] < o(j)[2] /\ o(j)[2] <= n
           /\ off[j] - off[j - 1] = o(j)[2] - o(j)[1]
           /\ off[j - 1] + A = (x + (j - 1)) * n + o(j)[1]
      /\ A \in Nat /\ r.bins = off[m] /\ r.series = Flattened(f, 1..m, v)
  BY DEF PutTogether
<1>2. r.series[s] = FlattenSeq(ps)
  BY <1>1 DEF Flattened
<1>3. \A j \in Int : Bin(an, e, s, d, j) \in Nat
  <2> SUFFICES ASSUME NEW j \in Int PROVE Bin(an, e, s, d, j) \in Nat
    OBVIOUS
  <2> DEFINE U == {u \in Usages(an, e) : u.state = s}
             a == (j - 1) * d
             b == j * d
             w == [u \in U |-> Overlap(u, a, b)]
  <2>1. Timed(U) /\ a \in Int /\ b \in Int
    <3>1. Timed(Usages(an, e)) /\ U \subseteq Usages(an, e)
      BY UsagesTimed
    <3>2. a \in Int /\ b \in Int
      OBVIOUS
    <3> HIDE DEF U
    <3> QED
      BY <3>1, <3>2, SomeTimed
  <2> HIDE DEF U, a, b
  <2>2. Weighs(w, U) /\ Busy(a, b, U) = SumOf(w, U)
    BY <2>1, BusyIs
  <2> HIDE DEF w
  <2>3. SumOf(w, U) \in Nat
    BY <2>1, <2>2, SumType DEF Timed
  <2> QED
    BY <2>2, <2>3 DEF Bin, U, a, b
<1> HIDE DEF m, o
<1>4. ASSUME NEW j \in 1..m
      PROVE  /\ ps[j] \in Seq(Nat) /\ off[j - 1] < off[j] /\ Len(ps[j]) \in {0, off[j] - off[j - 1]}
             /\ off[j - 1] \in Nat /\ off[j] \in Nat
             /\ \A i \in 1..Len(ps[j]) : ps[j][i] = q[off[j - 1] + i]
  <2> DEFINE k == x + (j - 1)
             z == o(j)[1]
             y == o(j)[2]
             c == k * n
             h == off[j - 1]
             g == off[j]
  <2>1. /\ z \in Nat /\ y \in Nat /\ z < y /\ y <= n /\ g - h = y - z /\ h + A = c + z
        /\ k \in Nat /\ h \in Nat /\ g \in Nat
    <3>1. j - 1 \in 0..m /\ j \in 0..m /\ k \in Nat
      BY <1>1
    <3> QED
      BY <1>1, <3>1
  <2>2. Exact(an, e, n, d, k, f[j]) /\ ps[j] = PartOf(f[j], v, s)
    BY DEF m
  <2> HIDE DEF ps, q
  <2>3. CASE s \notin DOMAIN f[j].series
    <3>1. ps[j] = << >>
      BY <2>2, <2>3 DEF PartOf
    <3>2. h < g
      <4> HIDE DEF h, g, y, z, c, k
      <4> QED
        BY <2>1
    <3>3. << >> \in Seq(Nat) /\ Len(<< >>) = 0 /\ 1..0 = {}
      OBVIOUS
    <3> HIDE DEF h, g
    <3>4. /\ ps[j] \in Seq(Nat) /\ h < g /\ Len(ps[j]) \in {0, g - h} /\ h \in Nat /\ g \in Nat
          /\ \A i \in 1..Len(ps[j]) : ps[j][i] = q[h + i]
      BY <2>1, <3>1, <3>2, <3>3
    <3> QED
      BY <3>4 DEF h, g
  <2>4. CASE s \in DOMAIN f[j].series
    <3> DEFINE t == f[j].series[s]
               D == [i \in 1..n |-> Bin(an, e, s, d, c + i)]
    <3>1. t = D /\ c \in Nat
      <4>1. c \in Nat
        BY <2>1
      <4> HIDE DEF k
      <4>2. \A w \in DOMAIN f[j].series : f[j].series[w] = [i \in 1..n |-> Bin(an, e, w, d, k * n + i)]
        BY <2>2 DEF Exact
      <4> QED
        BY <2>4, <4>1, <4>2
    <3>2. ps[j] = SubSeq(t, z + 1, y)
      BY <2>2, <2>4 DEF PartOf, o
    <3> HIDE DEF k, z, y, c, h, g
    <3>3. D \in Seq(Nat) /\ Len(D) = n
      <4>1. \A i \in 1..n : c + i \in Int
        BY <3>1
      <4>2. \A i \in 1..n : Bin(an, e, s, d, c + i) \in Nat
        BY <1>3, <4>1
      <4> QED
        BY <4>2
    <3> HIDE DEF t
    <3>4. z + 1 \in 1..(n + 1) /\ y \in 0..n /\ z + 1 <= y + 1 /\ y - (z + 1) + 1 = g - h
      BY <2>1
    <3>5. /\ SubSeq(D, z + 1, y) \in Seq(Nat) /\ Len(SubSeq(D, z + 1, y)) = y - (z + 1) + 1
          /\ \A i \in 1..(y - (z + 1) + 1) : SubSeq(D, z + 1, y)[i] = D[(z + 1) + i - 1]
      <4> HIDE DEF D
      <4> DEFINE w == z + 1
      <4>1. w \in 1..(Len(D) + 1) /\ y \in 0..Len(D) /\ w <= y + 1
        BY <3>3, <3>4
      <4> HIDE DEF w
      <4>2. /\ SubSeq(D, w, y) \in Seq(Nat) /\ Len(SubSeq(D, w, y)) = y - w + 1
            /\ \A i \in 1..(y - w + 1) : SubSeq(D, w, y)[i] = D[w + i - 1]
        BY <3>3, <4>1, Slice
      <4> QED
        BY <4>2 DEF w
    <3>6. ASSUME NEW i \in 1..(g - h) PROVE D[(z + 1) + i - 1] = q[h + i]
      <4>1. (z + 1) + i - 1 = z + i /\ z + i \in 1..n /\ c + (z + i) = A + (h + i) /\ h + i \in Nat
        BY <1>1, <2>1, <3>1
      <4> QED
        BY <4>1 DEF q
    <3>7. ps[j] \in Seq(Nat) /\ Len(ps[j]) = g - h /\ \A i \in 1..(g - h) : ps[j][i] = q[h + i]
      <4> HIDE DEF D
      <4> QED
        BY <3>1, <3>2, <3>4, <3>5, <3>6
    <3> QED
      BY <2>1, <3>7 DEF h, g
  <2> QED
    BY <2>3, <2>4
<1>5. ps \in Seq(Seq(Nat)) /\ Len(ps) = m
  BY <1>1, <1>4
<1> HIDE DEF ps, q
<1>6. \A i \in 1..off[m] : FlattenSeq(ps)[i] = q[i]
  <2>1. off \in [0..Len(ps) -> Nat] /\ Len(FlattenSeq(ps)) = off[Len(ps)]
    BY <1>1, <1>2, <1>5
  <2>2. FillPlaces(ps, off, q)
    <3>1. \A j \in 1..m : /\ off[j - 1] < off[j] /\ Len(ps[j]) \in {0, off[j] - off[j - 1]}
                          /\ \A i \in 1..Len(ps[j]) : ps[j][i] = q[off[j - 1] + i]
      BY <1>4
    <3>2. off[0] = 0
      BY <1>1
    <3> QED
      BY <1>5, <3>1, <3>2 DEF FillPlaces
  <2>3. \A i \in 1..off[Len(ps)] : FlattenSeq(ps)[i] = q[i]
    BY <1>5, <2>1, <2>2, FlattenFits
  <2> QED
    BY <1>5, <2>3
<1>7. off[m] \in Nat
  BY <1>1
<1>8. \A i \in 1..off[m] : q[i] = Bin(an, e, s, d, A + i)
  BY <1>7 DEF q
<1> QED
  BY <1>1, <1>2, <1>6, <1>8

\* A timeline put together from fresh chunks of an even geometry shows what the analyzer knows.
LEMMA AnswerShows ==
  ASSUME NEW cl, GeoOf(cl), cl.req \in Requests, cl.an \in SUBSET AllFacts,
         DOMAIN cl.have \subseteq Pairs(cl), EvenOf(cl), FreshOf(cl), NEW e \in DOMAIN cl.req.views,
         \A k \in cl.geo.first..cl.geo.last : [entry |-> e, idx |-> k] \in DOMAIN cl.have,
         NEW r \in combine_chunks(ChunksOf(cl, e), cl.req.views[e])
  PROVE  ShowsUsages(cl, e, r)
<1> DEFINE an == cl.an
           v == cl.req.views[e]
           p == cl.geo.first
           z == cl.geo.last
           n == cl.geo.bins
           d == cl.geo.len \div n
           at == HeldAt(cl, e)
           rs == ChunksOf(cl, e)
<1>1. p \in Nat /\ z \in Nat /\ n \in Nat \ {0} /\ d \in Nat \ {0}
  BY FirstLast, EvenLengths
<1>2. v.from \in Nat /\ v.to \in Nat
  BY RequestsAssumption
<1>3. IsRow(rs, at, p, z)
  BY ChunksAre
<1>4. ASSUME NEW k \in p..z PROVE Exact(an, e, n, d, k, at[k])
  <2> DEFINE pair == [entry |-> e, idx |-> k]
  <2>1. pair \in DOMAIN cl.have /\ pair \in Pairs(cl) /\ pair.entry = e /\ pair.idx = k
    OBVIOUS
  <2>2. at[k] = cl.have[pair]
    BY DEF HeldAt
  <2> HIDE DEF pair, at
  <2>3. PICK bulk \in BOOLEAN : cl.have[pair] = Compute(cl.an, cl.geo, pair, bulk)
    BY <2>1 DEF FreshOf
  <2>4. Exact(an, pair.entry, n, d, pair.idx, Compute(cl.an, cl.geo, pair, bulk))
    BY <2>1, EvenExact
  <2> QED
    BY <2>1, <2>2, <2>3, <2>4
<1>5. Equal(at, p..z, n, d)
  <2> HIDE DEF at, an, n, d, p, z
  <2> QED
    BY <1>4 DEF Equal, Exact
<1>6. r \in combine_chunks(rs, v)
  OBVIOUS
<1> HIDE DEF at, rs, v, n, d, p, z
<1>7. PICK x \in p..z, y \in p..z :
        x <= y /\ PutTogether(r, InRow(at, x, y), Offsets(at, n, v, x, y), FirstBin(at, n, v, x), x, n, d, v)
  BY <1>1, <1>2, <1>3, <1>5, <1>6, CombinedIs
<1> DEFINE f == InRow(at, x, y)
           off == Offsets(at, n, v, x, y)
           A == FirstBin(at, n, v, x)
           m == Len(f)
<1>8. PutTogether(r, f, off, A, x, n, d, v)
  BY <1>7
<1>9. \A j \in 1..m : Exact(an, e, n, d, x + (j - 1), f[j])
  <2>1. m = (y - x) + 1 /\ x \in Nat /\ y \in Nat
    BY <1>1, <1>7 DEF InRow
  <2> SUFFICES ASSUME NEW j \in 1..m PROVE Exact(an, e, n, d, x + (j - 1), f[j])
    OBVIOUS
  <2> DEFINE k == x + (j - 1)
  <2>2. k \in p..z
    BY <1>1, <1>7, <2>1
  <2>3. f[j] = at[k]
    BY <2>1 DEF InRow
  <2> HIDE DEF k, f
  <2>4. Exact(an, e, n, d, k, at[k])
    BY <1>4, <2>2
  <2> QED
    BY <2>3, <2>4 DEF k
<1>10. x \in Nat
  BY <1>1
<1> HIDE DEF f, off, A
<1>11. /\ off[m] \in Nat /\ A \in Nat /\ r.from = A * d
       /\ r.from + r.bins * r.dur = (A + off[m]) * d /\ r.dur = d /\ r.bins = off[m]
  <2>1. /\ off[m] \in Nat /\ A \in Nat /\ r.from = A * d
        /\ r.from + r.bins * r.dur = (A + off[m]) * d
    BY <1>1, <1>8, <1>10, TogetherEnds
  <2> QED
    BY <1>8, <2>1 DEF PutTogether
<1> SUFFICES ASSUME NEW u \in Usages(an, e), Overlap(u, r.from, r.from + r.bins * r.dur) > 0
             PROVE  /\ u.state \in DOMAIN r.series
                    /\ Len(r.series[u.state]) = r.bins => \A i \in 1..r.bins :
                         r.series[u.state][i] = Busy(r.from + (i - 1) * r.dur, r.from + i * r.dur,
                                                     {w \in Usages(an, e) : w.state = u.state})
  BY DEF ShowsUsages
<1>12. an \in SUBSET AllFacts
  OBVIOUS
<1> HIDE DEF an
<1>13. u.from \in Int /\ u.to \in Int
  BY <1>12, UsagesTimed DEF Timed
<1>14. u.state \in DOMAIN r.series
  BY <1>1, <1>8, <1>9, <1>10, <1>13, StatesShown
<1>15. ASSUME Len(r.series[u.state]) = r.bins, NEW i \in 1..r.bins
       PROVE  r.series[u.state][i] = Busy(r.from + (i - 1) * r.dur, r.from + i * r.dur,
                                          {w \in Usages(an, e) : w.state = u.state})
  <2> DEFINE s == u.state
             j == A + i
  <2>1. r.series[s][i] = Bin(an, e, s, d, j)
    BY <1>1, <1>8, <1>9, <1>10, <1>12, <1>14, <1>15, BinsFilled
  <2>2. r.from + (i - 1) * r.dur = (j - 1) * d /\ r.from + i * r.dur = j * d
    <3>1. i \in Nat /\ A \in Nat /\ r.from = A * d /\ r.dur = d
      BY <1>11
    <3>2. A * d + (i - 1) * d = (j - 1) * d /\ A * d + i * d = j * d
      BY <1>1, <3>1
    <3> QED
      BY <3>1, <3>2
  <2> HIDE DEF j
  <2> QED
    BY <2>1, <2>2 DEF Bin
<1> QED
  BY <1>14, <1>15

\* Putting the answer together: every entry has a chunk or is an error.
LEMMA GoodAnswer ==
  ASSUME NEW cl, Good(cl), cl.pc = "check", cl.todo = {}
  PROVE  Good(assemble_bulk_response(cl))
<1> DEFINE found == {e \in InTime(cl.req.views) : ChunksOf(cl, e) # {}}
           whole == [e \in found |-> combine_chunks(ChunksOf(cl, e), cl.req.views[e])]
           wrong == [e \in cl.errors |-> {}]
           answer == Over(wrong, whole)
<1>0. cl.pc \in CutPcs
  BY DEF CutPcs
<1>1. PairsOf(cl) /\ GeoOf(cl) /\ HeldOf(cl) /\ cl.req \in Requests
  BY <1>0, CutFields
<1>2. cl.geo.first \in cl.geo.first..cl.geo.last
  BY <1>1, FirstLast
<1>3. CASE \E e \in found : whole[e] = {}
  <2>1. assemble_bulk_response(cl) = Fail(cl)
    BY <1>3 DEF assemble_bulk_response
  <2> QED
    BY <2>1, GoodFail
<1>4. CASE ~ \E e \in found : whole[e] = {}
  <2>1. assemble_bulk_response(cl) = Reply("ok", answer, cl)
    BY <1>4 DEF assemble_bulk_response
  <2>2. \A e \in DOMAIN cl.req.views : \A k \in cl.geo.first..cl.geo.last :
          [entry |-> e, idx |-> k] \in Pairs(cl)
    BY DEF Pairs, ChunkSet
  <2>3. \A e \in DOMAIN cl.req.views : e \notin cl.errors =>
          \A k \in cl.geo.first..cl.geo.last : [entry |-> e, idx |-> k] \in DOMAIN cl.have
    <3> SUFFICES ASSUME NEW e \in DOMAIN cl.req.views, e \notin cl.errors,
                        NEW k \in cl.geo.first..cl.geo.last
                 PROVE  [entry |-> e, idx |-> k] \in DOMAIN cl.have
      OBVIOUS
    <3>1. [entry |-> e, idx |-> k].entry = e
      OBVIOUS
    <3>2. cl.miss = {} /\ DOMAIN cl.new = {}
      BY <1>1 DEF PairsOf
    <3> QED
      BY <1>1, <2>2, <3>1, <3>2 DEF PairsOf
  <2>4. InTime(cl.req.views) \ cl.errors \subseteq found
    <3> SUFFICES ASSUME NEW e \in InTime(cl.req.views), e \notin cl.errors PROVE e \in found
      OBVIOUS
    <3>0. e \in DOMAIN cl.req.views
      BY DEF InTime
    <3>1. [entry |-> e, idx |-> cl.geo.first] \in DOMAIN cl.have
      BY <1>2, <2>3, <3>0
    <3>2. [entry |-> e, idx |-> cl.geo.first].entry = e
      OBVIOUS
    <3>3. cl.have[[entry |-> e, idx |-> cl.geo.first]] \in ChunksOf(cl, e)
      BY <3>1, <3>2 DEF ChunksOf
    <3> QED
      BY <3>3
  <2>5. /\ DOMAIN whole = found /\ DOMAIN wrong = cl.errors /\ \A e \in cl.errors : wrong[e] = {}
        /\ \A e \in found : whole[e] = combine_chunks(ChunksOf(cl, e), cl.req.views[e])
    OBVIOUS
  <2>6. InTime(cl.req.views) \subseteq DOMAIN cl.req.views
    BY DEF InTime
  <2>7. found \subseteq InTime(cl.req.views)
    OBVIOUS
  <2>8. \A e \in found : whole[e] # {}
    BY <1>4
  <2> HIDE DEF found, whole, wrong
  <2>9. /\ DOMAIN answer = DOMAIN wrong \cup DOMAIN whole
        /\ \A e \in DOMAIN wrong : answer[e] = wrong[e]
        /\ \A e \in DOMAIN whole \ DOMAIN wrong : answer[e] = whole[e]
    BY OverDomain
  <2> HIDE DEF answer
  <2>10. DOMAIN answer = InTime(cl.req.views) \cup cl.errors
    BY <2>4, <2>5, <2>7, <2>9
  <2>11. \A e \in DOMAIN answer : answer[e] # {} <=> e \notin cl.errors
    BY <2>4, <2>5, <2>8, <2>9, <2>10
  <2>12. {e \in DOMAIN answer : answer[e] # {}} = InTime(cl.req.views) \ cl.errors
    BY <2>10, <2>11
  <2>13. Answered(answer, cl)
    BY <2>3, <2>6, <2>10, <2>12 DEF Answered
  <2>14. Covering(answer, cl)
    <3> SUFFICES ASSUME NEW e \in DOMAIN answer, cl.req.views[e] = cl.view, NEW r \in answer[e]
                 PROVE  Covered(r, cl.view)
      BY DEF Covering
    <3>1. e \notin cl.errors /\ e \in DOMAIN cl.req.views /\ e \in found
      BY <2>4, <2>6, <2>10, <2>11
    <3>2. r \in combine_chunks(ChunksOf(cl, e), cl.view)
      BY <2>5, <2>9, <3>1
    <3>3. \A k \in cl.geo.first..cl.geo.last : [entry |-> e, idx |-> k] \in DOMAIN cl.have
      BY <2>3, <3>1
    <3>4. DOMAIN cl.have \subseteq Pairs(cl)
      BY <1>1 DEF PairsOf
    <3> QED
      BY <1>1, <3>2, <3>3, <3>4, AnswerCovers
  <2>15. Showing(answer, cl)
    <3> SUFFICES ASSUME EvenOf(cl), FreshOf(cl), NEW e \in DOMAIN answer, NEW r \in answer[e]
                 PROVE  ShowsUsages(cl, e, r)
      BY DEF Showing
    <3>1. e \notin cl.errors /\ e \in DOMAIN cl.req.views /\ e \in found
      BY <2>4, <2>6, <2>10, <2>11
    <3>2. r \in combine_chunks(ChunksOf(cl, e), cl.req.views[e])
      BY <2>5, <2>9, <3>1
    <3>3. \A k \in cl.geo.first..cl.geo.last : [entry |-> e, idx |-> k] \in DOMAIN cl.have
      BY <2>3, <3>1
    <3>4. DOMAIN cl.have \subseteq Pairs(cl) /\ cl.an \in SUBSET AllFacts
      BY <1>0, <1>1, CutFields DEF PairsOf
    <3> QED
      BY <1>1, <3>1, <3>2, <3>3, <3>4, AnswerShows
  <2> QED
    BY <2>1, <2>13, <2>14, <2>15, GoodReply
<1> QED
  BY <1>3, <1>4
-----------------------------------------------------------------------------
(* What one action does to the request it serves.                          *)

\* The request that results is good, and its analyzer is the one it had.
StepOf(cl, r) == /\ Good(r)
                 /\ r.pc \in AnalyzerPcs => cl.pc \in AnalyzerPcs /\ r.an = cl.an

\* It is so of replies.
LEMMA StepReply ==
  ASSUME NEW st \in {"ok", "err"}, NEW entries, NEW cl,
         st = "ok" /\ cl.pc = "check" => Answered(entries, cl) /\ Covering(entries, cl) /\ Showing(entries, cl)
  PROVE  StepOf(cl, Reply(st, entries, cl))
<1>1. Reply(st, entries, cl).pc = "done"
  BY DEF Reply
<1> QED
  BY <1>1, GoodReply DEF StepOf, AnalyzerPcs

\* It is so of failures.
LEMMA StepFail ==
  ASSUME NEW cl
  PROVE  StepOf(cl, Fail(cl))
BY StepReply DEF Fail

\* Only c's request changes.
OnlyServes(c) == /\ \A d \in Clients : d # c => client'[d] = client[d]
                 /\ StepOf(client[c], client'[c])
                 /\ client' = [d \in Clients |-> client'[d]]

\* An update of c's request that is a step of it serves only c.
LEMMA ServesOne ==
  ASSUME ClientInv, NEW c \in Clients, NEW r, StepOf(client[c], r),
         client' = [client EXCEPT ![c] = r]
  PROVE  OnlyServes(c)
<1>1. client = [d \in Clients |-> client[d]]
  BY DEF ClientInv
<1>2. DOMAIN client = Clients
  BY <1>1
<1>3. client' = [d \in Clients |-> IF d = c THEN r ELSE client[d]]
  BY <1>2
<1>4. client'[c] = r /\ \A d \in Clients : d # c => client'[d] = client[d]
  BY <1>3
<1>5. client' = [d \in Clients |-> client'[d]]
  BY <1>3
<1> QED
  BY <1>4, <1>5 DEF OnlyServes

\* The actions that serve a request, one by one.
LEMMA RequestServes ==
  ASSUME ClientInv, NEW c \in Clients, NEW req \in Requests, Request(c, req)
  PROVE  OnlyServes(c)
<1> DEFINE r == [pc |-> "get", req |-> req]
<1>1. client' = [client EXCEPT ![c] = r]
  BY DEF Request
<1>2. r.pc = "get" /\ r \in [pc : {"get"}, req : Requests]
  OBVIOUS
<1> HIDE DEF r
<1>3. Good(r)
  BY <1>2 DEF Good, ShapeOf, CutPcs
<1>4. StepOf(client[c], r)
  BY <1>2, <1>3 DEF StepOf, AnalyzerPcs
<1> QED
  BY <1>1, <1>4, ServesOne

\* Taking the geometry from one of the views.
LEMMA GeometryServes ==
  ASSUME ClientInv, NEW c \in Clients, client[c].pc = "serve", NEW e \in DOMAIN client[c].req.views,
         compute_chunk_geometry(c, e)
  PROVE  OnlyServes(c)
<1> DEFINE cl == client[c]
           view == cl.req.views[e]
           cut == CutUp(cl, e)
           dir == [cl EXCEPT !.pc = "direct"]
           r == IF EngineTimes(cl.an) = {} THEN Fail(cl)
                ELSE IF EngineDuration(cl.an) = 0 \/ view.to <= view.from THEN dir ELSE cut
<1>1. client' = [client EXCEPT ![c] = r]
  BY DEF compute_chunk_geometry, CutUp
<1>2. Good(cl)
  BY DEF ClientInv
<1>3. cl.req \in Requests /\ view.from \in Nat /\ view.to \in Nat
  BY <1>2, RequestsAssumption DEF Good, ShapeOf, CutPcs
<1>4. cl \in [pc : {"serve", "direct"}, req : Requests, an : SUBSET AllFacts]
  BY <1>2 DEF Good, ShapeOf
<1>5. StepOf(cl, Fail(cl))
  BY StepFail
<1>6. StepOf(cl, dir)
  <2>1. dir.pc = "direct" /\ dir.an = cl.an
        /\ dir \in [pc : {"serve", "direct"}, req : Requests, an : SUBSET AllFacts]
    BY <1>4
  <2> HIDE DEF dir
  <2>2. Good(dir)
    BY <2>1 DEF Good, ShapeOf, CutPcs
  <2> QED
    BY <2>1, <2>2 DEF StepOf, AnalyzerPcs
<1>7. ASSUME EngineTimes(cl.an) # {}, EngineDuration(cl.an) # 0, ~ (view.to <= view.from)
      PROVE  StepOf(cl, cut)
  <2>1. view.from < view.to
    BY <1>3, <1>7
  <2>2. Good(cut) /\ cut.an = cl.an /\ cut.pc = "check"
    BY <1>2, <1>7, <2>1, GoodGeometry
  <2> QED
    BY <2>2 DEF StepOf, AnalyzerPcs
<1> HIDE DEF dir, cut
<1>8. StepOf(cl, r)
  BY <1>5, <1>6, <1>7
<1> HIDE DEF r
<1> QED
  BY <1>1, <1>8, ServesOne DEF cl

\* Answering from the analyzer.
LEMMA DirectServes ==
  ASSUME ClientInv, NEW c \in Clients, Direct(c)
  PROVE  OnlyServes(c)
<1> DEFINE cl == client[c]
           entries == [e \in DOMAIN cl.req.views |->
                         LET v == cl.req.views[e]
                         IN  {Timeline(cl.an, e, v.from, v.to, v.bins, cl.req.bulk)}]
           r == IF \E e \in DOMAIN cl.req.views : cl.req.views[e].from >= cl.req.views[e].to
                THEN Fail(cl) ELSE Reply("ok", entries, cl)
<1>1. cl.pc = "direct" /\ client' = [client EXCEPT ![c] = r]
  BY Zenon DEF Direct
<1> HIDE DEF entries
<1>2. StepOf(cl, Fail(cl)) /\ StepOf(cl, Reply("ok", entries, cl))
  BY <1>1, StepFail, StepReply
<1>3. StepOf(cl, r)
  BY <1>2
<1> HIDE DEF r
<1> QED
  BY <1>1, <1>3, ServesOne DEF cl

\* Looking chunks up.
LEMMA CheckServes ==
  ASSUME ClientInv, ChunkInv, NEW c \in Clients, check_cache(c)
  PROVE  OnlyServes(c)
<1> DEFINE cl == client[c]
           batch == Batch(cl)
           hits == {p \in batch : KeyOf(cl, p) \in DOMAIN chunks}
           h == [p \in hits |-> chunks[KeyOf(cl, p)]]
           r == Checked(cl, batch, hits, h)
<1>1. cl.pc = "check" /\ client' = [client EXCEPT ![c] = r]
  BY Zenon DEF check_cache, Checked
<1>2. Good(cl)
  BY DEF ClientInv
<1>3. batch \subseteq cl.todo
  BY DEF Batch
<1>4. DOMAIN h = hits /\ hits \subseteq batch
  OBVIOUS
<1>41. \A p \in hits : Canonical(KeyOf(cl, p), h[p])
  BY DEF ChunkInv
<1> HIDE DEF batch, hits, h
<1>5. Good(r) /\ r.an = cl.an
  BY <1>1, <1>2, <1>3, <1>4, <1>41, GoodCheck
<1> HIDE DEF r
<1>6. StepOf(cl, r)
  BY <1>1, <1>5 DEF StepOf, AnalyzerPcs
<1> QED
  BY <1>1, <1>6, ServesOne DEF cl

\* Computing what is missing.
LEMMA FetchServes ==
  ASSUME ClientInv, NEW c \in Clients, NEW bad \in SUBSET client[c].miss, fetch_missing_chunks(c, bad)
  PROVE  OnlyServes(c)
<1> DEFINE cl == client[c]
           r == Fetched(cl, bad, cl.req.bulk)
<1>1. cl.pc = "fetch" /\ client' = [client EXCEPT ![c] = r]
  BY Zenon DEF fetch_missing_chunks, Fetched
<1>2. Good(cl)
  BY DEF ClientInv
<1>3. Good(r) /\ r.an = cl.an
  BY <1>1, <1>2, GoodFetch
<1> HIDE DEF r
<1>4. StepOf(cl, r)
  BY <1>1, <1>3 DEF StepOf, AnalyzerPcs
<1> QED
  BY <1>1, <1>4, ServesOne DEF cl

\* Keeping what was computed.
LEMMA InsertServes ==
  ASSUME ClientInv, NEW c \in Clients, InsertChunks(c)
  PROVE  OnlyServes(c)
<1> DEFINE cl == client[c]
           r == AfterInsert(cl)
<1>1. cl.pc = "insert" /\ client' = [client EXCEPT ![c] = r]
  BY Zenon DEF InsertChunks, AfterInsert
<1>2. Good(cl)
  BY DEF ClientInv
<1>3. Good(r) /\ r.an = cl.an
  BY <1>1, <1>2, GoodInsert
<1> HIDE DEF r
<1>4. StepOf(cl, r)
  BY <1>1, <1>3 DEF StepOf, AnalyzerPcs
<1> QED
  BY <1>1, <1>4, ServesOne DEF cl

\* A failing call of the analyzer.
LEMMA FailServes ==
  ASSUME ClientInv, NEW c \in Clients, FetchFails(c)
  PROVE  OnlyServes(c)
<1>1. client' = [client EXCEPT ![c] = Fail(client[c])]
  BY DEF FetchFails
<1> QED
  BY <1>1, StepFail, ServesOne

\* Putting the answer together.
LEMMA AnswerServes ==
  ASSUME ClientInv, NEW c \in Clients, Answer(c)
  PROVE  OnlyServes(c)
<1> DEFINE cl == client[c]
           r == assemble_bulk_response(cl)
<1>1. cl.pc = "check" /\ cl.todo = {} /\ client' = [client EXCEPT ![c] = r]
  BY DEF Answer
<1>2. Good(cl)
  BY DEF ClientInv
<1>3. Good(r)
  BY <1>1, <1>2, GoodAnswer
<1>4. r.pc = "done"
  BY DEF assemble_bulk_response, Fail, Reply
<1> HIDE DEF r
<1>5. StepOf(cl, r)
  BY <1>3, <1>4 DEF StepOf, AnalyzerPcs
<1> QED
  BY <1>1, <1>5, ServesOne DEF cl
-----------------------------------------------------------------------------
(* What has been flushed only grows, and all of it is in the log.          *)

\* A flush adds to the files of one context.
LEMMA FactsGrow ==
  ASSUME StoreInv, NEW y \in Contexts, Flush(y)
  PROVE  /\ StoreInv'
         /\ \A x \in Contexts : FactsIn(x) \subseteq FactsIn(x)'
         /\ index_query_engines \subseteq index_query_engines'
         /\ \A ctxs \in SUBSET Contexts : Flushed(ctxs) \subseteq Flushed(ctxs)'
<1>1. \A x \in Contexts : Len(Log[x]) \in Nat
  BY LogAssumption
<1>2. /\ store' \in [Contexts -> Nat] /\ \A x \in Contexts : store[x] <= store'[x]
      /\ \A x \in Contexts : store'[x] <= Len(Log[x])
  BY <1>1 DEF StoreInv, Flush
<1>3. ASSUME NEW x \in Contexts PROVE FactsIn(x) \subseteq FactsIn(x)'
  <2>1. 1..store[x] \subseteq 1..store'[x]
    BY <1>2 DEF StoreInv
  <2> QED
    BY <2>1 DEF FactsIn
<1>4. index_query_engines \subseteq index_query_engines'
  BY <1>3 DEF index_query_engines
<1>5. ASSUME NEW ctxs \in SUBSET Contexts PROVE Flushed(ctxs) \subseteq Flushed(ctxs)'
  BY <1>3 DEF Flushed
<1> QED
  BY <1>2, <1>3, <1>4, <1>5 DEF StoreInv

\* No file holds what its context did not report.
LEMMA FactsKnown ==
  ASSUME StoreInv, NEW ctxs \in SUBSET Contexts
  PROVE  Flushed(ctxs) \subseteq AllFacts
<1>1. ASSUME NEW x \in ctxs PROVE FactsIn(x) \subseteq AllFacts
  <2>1. /\ Len(Log[x]) \in Nat /\ DOMAIN Log[x] = 1..Len(Log[x])
        /\ store[x] \in Nat /\ store[x] <= Len(Log[x])
    BY LogAssumption DEF StoreInv
  <2>2. \A i \in 1..store[x] : i \in DOMAIN Log[x]
    BY <2>1
  <2>3. \A i \in DOMAIN Log[x] : Log[x][i] \subseteq AllFacts
    BY DEF AllFacts, Range
  <2> QED
    BY <2>2, <2>3 DEF FactsIn
<1> QED
  BY <1>1 DEF Flushed

\* A smaller index has flushed less.
LEMMA FlushedMonotone ==
  ASSUME NEW a, NEW b, a \subseteq b
  PROVE  Flushed(a) \subseteq Flushed(b)
BY DEF Flushed
-----------------------------------------------------------------------------
(* The invariant holds, and every step keeps it.                           *)

\* It holds when the service starts.
LEMMA InitIInv == Init => IInv
<1> SUFFICES ASSUME Init PROVE IInv
  OBVIOUS
<1>1. StoreInv
  <2>1. \A x \in Contexts : Len(Log[x]) \in Nat
    BY LogAssumption
  <2> QED
    BY <2>1 DEF Init, StoreInv
<1>2. ClientInv /\ \A c \in Clients : client[c].pc = "idle"
  <2>1. client = [c \in Clients |-> [pc |-> "idle"]]
    BY DEF Init
  <2>2. \A c \in Clients : client[c] = [pc |-> "idle"]
    BY <2>1
  <2>3. client = [c \in Clients |-> client[c]]
    BY <2>1
  <2>4. \A c \in Clients : Good(client[c])
    BY <2>2 DEF Good, ShapeOf, CutPcs
  <2> QED
    BY <2>2, <2>3, <2>4 DEF ClientInv
<1>3. ChunkInv
  BY DEF Init, ChunkInv
<1>4. LoadInv
  BY <1>2 DEF Init, LoadInv, AnalyzerPcs
<1> QED
  BY <1>1, <1>2, <1>3, <1>4 DEF IInv

\* Serving one request keeps what is about requests and loads.
LEMMA ServesKeeps ==
  ASSUME StoreInv, ClientInv, LoadInv, NEW c \in Clients, OnlyServes(c),
         UNCHANGED <<store, analyzer, loading>>
  PROVE  StoreInv' /\ ClientInv' /\ LoadInv'
<1>1. StoreInv'
  BY DEF StoreInv
<1>2. /\ \A d \in Clients : d # c => client'[d] = client[d]
      /\ Good(client'[c]) /\ client' = [d \in Clients |-> client'[d]]
      /\ client'[c].pc \in AnalyzerPcs =>
           client[c].pc \in AnalyzerPcs /\ client'[c].an = client[c].an
  BY DEF OnlyServes, StepOf
<1>3. \A d \in Clients : Good(client'[d])
  BY <1>2 DEF ClientInv
<1>4. ClientInv'
  BY <1>2, <1>3 DEF ClientInv
<1>5. /\ index_query_engines' = index_query_engines /\ Known' = Known
      /\ \A ctxs : Flushed(ctxs)' = Flushed(ctxs)
  BY DEF index_query_engines, FactsIn, Flushed, Known
<1>6. LoadInv'
  BY <1>2, <1>5 DEF LoadInv
<1> QED
  BY <1>1, <1>4, <1>6

\* What a cached analyzer is given to.
LEMMA HitKeeps ==
  ASSUME StoreInv, ClientInv, LoadInv, NEW c \in Clients, Hit(c)
  PROVE  StoreInv' /\ ClientInv' /\ LoadInv'
<1>1. PICK an \in analyzer : client' = [client EXCEPT ![c] = Serve(client[c], an)]
  BY DEF Hit
<1>2. client[c].pc = "get" /\ UNCHANGED <<store, analyzer, loading, chunks>>
  BY DEF Hit
<1>3. /\ DOMAIN client = Clients
      /\ client' = [d \in Clients |-> IF d = c THEN Serve(client[c], an) ELSE client[d]]
  BY <1>1 DEF ClientInv
<1>4. client' = [d \in Clients |-> client'[d]]
  BY <1>3
<1>5. client'[c] = Serve(client[c], an) /\ \A d \in Clients : d # c => client'[d] = client[d]
  BY <1>3
<1>6. an \subseteq Known /\ loading = {} /\ Known \subseteq AllFacts
  BY FactsKnown DEF LoadInv, Known, index_query_engines
<1>7. client[c].req \in Requests
  BY <1>2 DEF ClientInv, Good, ShapeOf
<1>8. Good(client'[c])
  BY <1>5, <1>6, <1>7, GoodServe
<1>9. \A d \in Clients : Good(client'[d])
  BY <1>5, <1>8 DEF ClientInv
<1>10. StoreInv' /\ ClientInv'
  BY <1>2, <1>4, <1>9 DEF ClientInv, StoreInv
<1>11. /\ index_query_engines' = index_query_engines /\ Known' = Known
       /\ \A ctxs : Flushed(ctxs)' = Flushed(ctxs)
  BY <1>2 DEF index_query_engines, FactsIn, Flushed, Known
<1>12. client'[c].an = an
  BY <1>5 DEF Serve
<1>13. LoadInv'
  BY <1>2, <1>5, <1>6, <1>11, <1>12 DEF LoadInv
<1> QED
  BY <1>10, <1>13

\* What a load that ends does to those who wait for it.
LEMMA LoadedGet ==
  ASSUME StoreInv, ClientInv, LoadInv, LoadStreams
  PROVE  StoreInv' /\ ClientInv' /\ LoadInv'
<1>1. PICK ctxs \in loading :
        LET an == Flushed(ctxs)
        IN  /\ analyzer' = {an} /\ loading' = loading \ {ctxs}
            /\ client' = [c \in Clients |-> IF client[c].pc = "get" THEN Serve(client[c], an) ELSE client[c]]
            /\ UNCHANGED <<store, chunks, expired>>
  BY Zenon DEF LoadStreams, Flushed
<1> DEFINE an == Flushed(ctxs)
<1>2. analyzer' = {an} /\ loading' = {}
  BY <1>1 DEF LoadInv
<1>3. /\ client' = [c \in Clients |-> client'[c]]
      /\ \A c \in Clients : client'[c] = IF client[c].pc = "get" THEN Serve(client[c], an) ELSE client[c]
  BY <1>1
<1>4. ctxs \subseteq index_query_engines /\ index_query_engines \subseteq Contexts
  BY DEF LoadInv, index_query_engines
<1>5. an \subseteq Known /\ an \subseteq AllFacts
  BY <1>4, FlushedMonotone, FactsKnown DEF Known
<1> HIDE DEF an
<1>6. \A c \in Clients : Good(client'[c])
  <2> TAKE c \in Clients
  <2>1. CASE client[c].pc = "get"
    <3>1. client[c].req \in Requests
      BY <2>1 DEF ClientInv, Good, ShapeOf
    <3> QED
      BY <1>3, <1>5, <2>1, <3>1, GoodServe
  <2>2. CASE client[c].pc # "get"
    BY <1>3, <2>2 DEF ClientInv
  <2> QED
    BY <2>1, <2>2
<1>7. StoreInv' /\ ClientInv'
  BY <1>1, <1>3, <1>6 DEF StoreInv, ClientInv
<1>8. Known' = Known
  BY <1>1 DEF index_query_engines, FactsIn, Flushed, Known
<1>9. \A c \in Clients : client'[c].pc \in AnalyzerPcs => client'[c].an \subseteq Known
  <2> TAKE c \in Clients
  <2>1. CASE client[c].pc = "get"
    BY <1>3, <1>5, <2>1 DEF Serve
  <2>2. CASE client[c].pc # "get"
    BY <1>3, <2>2 DEF LoadInv
  <2> QED
    BY <2>1, <2>2
<1>10. LoadInv'
  BY <1>2, <1>5, <1>8, <1>9 DEF LoadInv
<1> QED
  BY <1>7, <1>10

\* What a load that fails does.
LEMMA FailedGet ==
  ASSUME StoreInv, ClientInv, LoadInv, LoadFails
  PROVE  StoreInv' /\ ClientInv' /\ LoadInv'
<1>1. PICK ctxs \in loading :
        /\ loading' = loading \ {ctxs}
        /\ client' = [c \in Clients |-> IF client[c].pc = "get" THEN Fail(client[c]) ELSE client[c]]
        /\ UNCHANGED <<store, analyzer, chunks, expired>>
  BY DEF LoadFails
<1>2. loading' = {}
  BY <1>1 DEF LoadInv
<1>3. /\ client' = [c \in Clients |-> client'[c]]
      /\ \A c \in Clients : client'[c] = IF client[c].pc = "get" THEN Fail(client[c]) ELSE client[c]
  BY <1>1
<1>4. \A c \in Clients : Good(client'[c])
  BY <1>3, GoodFail DEF ClientInv
<1>5. StoreInv' /\ ClientInv'
  BY <1>1, <1>3, <1>4 DEF StoreInv, ClientInv
<1>6. Known' = Known
  BY <1>1 DEF index_query_engines, FactsIn, Flushed, Known
<1>7. \A c \in Clients : client'[c].pc \in AnalyzerPcs => client'[c] = client[c]
  BY <1>3 DEF Fail, Reply, AnalyzerPcs
<1>8. LoadInv'
  BY <1>1, <1>2, <1>6, <1>7 DEF LoadInv
<1> QED
  BY <1>5, <1>8

\* Reading the index, dropping the analyzer, and what leaves all of it alone.
LEMMA OthersKeep ==
  ASSUME StoreInv, ClientInv, LoadInv, client' = client, store' = store,
         \/ analyzer' = {} /\ loading' = loading
         \/ analyzer' = analyzer /\ loading' = loading
         \/ analyzer = {} /\ loading = {} /\ analyzer' = {} /\ loading' = {index_query_engines}
  PROVE  StoreInv' /\ ClientInv' /\ LoadInv'
<1>1. StoreInv' /\ ClientInv'
  BY DEF StoreInv, ClientInv
<1>2. /\ index_query_engines' = index_query_engines /\ Known' = Known
      /\ \A ctxs : Flushed(ctxs)' = Flushed(ctxs)
  BY DEF index_query_engines, FactsIn, Flushed, Known
<1>3. LoadInv'
  BY <1>2 DEF LoadInv, Known
<1> QED
  BY <1>1, <1>3

\* A flush.
LEMMA FlushKeeps ==
  ASSUME StoreInv, ClientInv, LoadInv, NEW y \in Contexts, Flush(y)
  PROVE  StoreInv' /\ ClientInv' /\ LoadInv'
<1>1. UNCHANGED <<analyzer, loading, client>>
  BY DEF Flush
<1>2. StoreInv' /\ ClientInv'
  BY <1>1, FactsGrow DEF ClientInv
<1>3. /\ index_query_engines \subseteq index_query_engines'
      /\ \A ctxs \in SUBSET Contexts : Flushed(ctxs) \subseteq Flushed(ctxs)'
  BY FactsGrow
<1>4. index_query_engines \subseteq Contexts /\ index_query_engines' \subseteq Contexts
  BY DEF index_query_engines
<1>5. Known \subseteq Known'
  <2>1. Flushed(index_query_engines) \subseteq Flushed(index_query_engines')
    BY <1>3, FlushedMonotone
  <2>2. \A ctxs \in SUBSET Contexts : \A a \in Flushed(ctxs) : \E x \in ctxs : a \in FactsIn(x)
    BY DEF Flushed
  <2>3. \A x \in Contexts : FactsIn(x) \subseteq FactsIn(x)'
    BY FactsGrow
  <2>4. \A a \in Flushed(index_query_engines) : \E x \in index_query_engines' : a \in FactsIn(x)'
    BY <1>3, <1>4, <2>2, <2>3
  <2> QED
    BY <2>4 DEF Known, Flushed
<1>6. LoadInv'
  BY <1>1, <1>3, <1>4, <1>5 DEF LoadInv
<1> QED
  BY <1>2, <1>6
-----------------------------------------------------------------------------
(* The cache of chunks.                                                    *)

\* A request puts only chunks of their keys there.
LEMMA InsertKeepsChunks ==
  ASSUME ClientInv, ChunkInv, NEW c \in Clients, InsertChunks(c)
  PROVE  ChunkInv'
<1> DEFINE cl == client[c]
           keys == {KeyOf(cl, p) : p \in DOMAIN cl.new}
           f == [k \in keys |-> cl.new[CHOOSE p \in DOMAIN cl.new : KeyOf(cl, p) = k]]
<1>1. cl.pc = "insert" /\ chunks' = Over(f, chunks)
  BY Zenon DEF InsertChunks
<1>2. HeldOf(cl)
  <2>1. Good(cl) /\ cl.pc \in CutPcs
    BY <1>1 DEF ClientInv, CutPcs
  <2> QED
    BY <2>1, CutFields
<1>3. DOMAIN f = keys
  OBVIOUS
<1>4. ASSUME NEW k \in keys PROVE Canonical(k, f[k])
  <2>1. PICK p \in DOMAIN cl.new : KeyOf(cl, p) = k
    OBVIOUS
  <2> DEFINE q == CHOOSE p1 \in DOMAIN cl.new : KeyOf(cl, p1) = k
  <2>2. q \in DOMAIN cl.new /\ KeyOf(cl, q) = k
    BY <2>1
  <2>3. f[k] = cl.new[q]
    OBVIOUS
  <2> HIDE DEF q, f
  <2> QED
    BY <1>2, <2>2, <2>3 DEF HeldOf
<1> HIDE DEF f, keys
<1>5. /\ DOMAIN chunks' = DOMAIN f \cup DOMAIN chunks
      /\ \A k \in DOMAIN f : chunks'[k] = f[k]
      /\ \A k \in DOMAIN chunks \ DOMAIN f : chunks'[k] = chunks[k]
  <2>1. /\ DOMAIN Over(f, chunks) = DOMAIN f \cup DOMAIN chunks
        /\ \A k \in DOMAIN f : Over(f, chunks)[k] = f[k]
        /\ \A k \in DOMAIN chunks \ DOMAIN f : Over(f, chunks)[k] = chunks[k]
    BY OverDomain
  <2> QED
    BY <1>1, <2>1
<1>6. ASSUME NEW k \in DOMAIN chunks' PROVE Canonical(k, chunks'[k])
  <2>1. CASE k \in DOMAIN f
    BY <1>3, <1>4, <1>5, <2>1
  <2>2. CASE k \notin DOMAIN f
    BY <1>5, <2>2 DEF ChunkInv
  <2> QED
    BY <2>1, <2>2
<1>7. \A k, r : Canonical(k, r)' <=> Canonical(k, r)
  BY DEF Canonical
<1> QED
  BY <1>6 DEF ChunkInv

\* Chunks that are dropped leave the others as they are.
LEMMA ExpireKeepsChunks ==
  ASSUME ChunkInv, NEW k \in DOMAIN chunks, ExpireChunk(k)
  PROVE  ChunkInv'
<1>1. chunks' = [x \in DOMAIN chunks \ {k} |-> chunks[x]]
  BY DEF ExpireChunk, Restrict
<1>2. \A x \in DOMAIN chunks' : x \in DOMAIN chunks /\ chunks'[x] = chunks[x]
  BY <1>1
<1> QED
  BY <1>2 DEF ChunkInv

\* Serving one request, without touching the cache, keeps the invariant.
LEMMA ServesKeepsAll ==
  ASSUME IInv, NEW c \in Clients, OnlyServes(c), UNCHANGED <<store, analyzer, loading, chunks>>
  PROVE  IInv'
<1>1. StoreInv' /\ ClientInv' /\ LoadInv'
  BY ServesKeeps DEF IInv
<1>2. ChunkInv'
  BY DEF IInv, ChunkInv
<1> QED
  BY <1>1, <1>2 DEF IInv

\* Every action keeps the invariant.
LEMMA NextIInv == IInv /\ [Next]_vars => IInv'
<1> SUFFICES ASSUME IInv, [Next]_vars PROVE IInv'
  OBVIOUS
<1>0. StoreInv /\ ClientInv /\ ChunkInv /\ LoadInv
  BY DEF IInv
<1>a. ASSUME UNCHANGED chunks PROVE ChunkInv'
  BY <1>0, <1>a DEF ChunkInv
<1>1. ASSUME NEW x \in Contexts, Flush(x) PROVE IInv'
  BY <1>0, <1>1, <1>a, FlushKeeps DEF IInv, Flush
<1>2. ASSUME NEW c \in Clients, NEW req \in Requests, Request(c, req) PROVE IInv'
  <2>1. OnlyServes(c)
    BY <1>0, <1>2, RequestServes
  <2>2. UNCHANGED <<store, analyzer, loading, chunks>>
    BY <1>2 DEF Request
  <2> QED
    BY <2>1, <2>2, ServesKeepsAll
<1>3. ASSUME NEW c \in Clients, Hit(c) PROVE IInv'
  BY <1>0, <1>3, <1>a, HitKeeps DEF IInv, Hit
<1>4. ASSUME NEW c \in Clients, LoadIndex(c) PROVE IInv'
  <2>1. /\ client' = client /\ store' = store /\ chunks' = chunks
        /\ analyzer = {} /\ loading = {} /\ analyzer' = {} /\ loading' = {index_query_engines}
    BY <1>4 DEF LoadIndex
  <2> QED
    BY <1>0, <1>a, <2>1, OthersKeep DEF IInv
<1>5. ASSUME NEW c \in Clients, Direct(c) PROVE IInv'
  <2>1. OnlyServes(c)
    BY <1>0, <1>5, DirectServes
  <2>2. UNCHANGED <<store, analyzer, loading, chunks>>
    BY <1>5, Zenon DEF Direct
  <2> QED
    BY <2>1, <2>2, ServesKeepsAll
<1>6. ASSUME NEW c \in Clients, check_cache(c) PROVE IInv'
  <2>1. OnlyServes(c)
    BY <1>0, <1>6, CheckServes
  <2>2. UNCHANGED <<store, analyzer, loading, chunks>>
    BY <1>6, Zenon DEF check_cache
  <2> QED
    BY <2>1, <2>2, ServesKeepsAll
<1>7. ASSUME NEW c \in Clients,
             NEW e \in DOMAIN (IF client[c].pc = "serve" THEN client[c].req.views ELSE << >>),
             compute_chunk_geometry(c, e)
      PROVE  IInv'
  <2>1. client[c].pc = "serve" /\ UNCHANGED <<store, analyzer, loading, chunks>>
    BY <1>7, Zenon DEF compute_chunk_geometry
  <2>2. e \in DOMAIN client[c].req.views
    BY <2>1
  <2>3. OnlyServes(c)
    BY <1>0, <1>7, <2>1, <2>2, GeometryServes
  <2> QED
    BY <2>1, <2>3, ServesKeepsAll
<1>8. ASSUME NEW c \in Clients,
             NEW bad \in {{}} \cup {{p} : p \in IF client[c].pc = "fetch" THEN client[c].miss ELSE {}},
             fetch_missing_chunks(c, bad)
      PROVE  IInv'
  <2>1. client[c].pc = "fetch" /\ UNCHANGED <<store, analyzer, loading, chunks>>
    BY <1>8, Zenon DEF fetch_missing_chunks
  <2>2. bad \in SUBSET client[c].miss
    BY <2>1
  <2>3. OnlyServes(c)
    BY <1>0, <1>8, <2>2, FetchServes
  <2> QED
    BY <2>1, <2>3, ServesKeepsAll
<1>9. ASSUME NEW c \in Clients, FetchFails(c) PROVE IInv'
  <2>1. OnlyServes(c)
    BY <1>0, <1>9, FailServes
  <2>2. UNCHANGED <<store, analyzer, loading, chunks>>
    BY <1>9 DEF FetchFails
  <2> QED
    BY <2>1, <2>2, ServesKeepsAll
<1>10. ASSUME NEW c \in Clients, InsertChunks(c) PROVE IInv'
  <2>1. OnlyServes(c)
    BY <1>0, <1>10, InsertServes
  <2>2. UNCHANGED <<store, analyzer, loading>>
    BY <1>10, Zenon DEF InsertChunks
  <2>3. StoreInv' /\ ClientInv' /\ LoadInv'
    BY <1>0, <2>1, <2>2, ServesKeeps
  <2>4. ChunkInv'
    BY <1>0, <1>10, InsertKeepsChunks
  <2> QED
    BY <2>3, <2>4 DEF IInv
<1>11. ASSUME NEW c \in Clients, Answer(c) PROVE IInv'
  <2>1. OnlyServes(c)
    BY <1>0, <1>11, AnswerServes
  <2>2. UNCHANGED <<store, analyzer, loading, chunks>>
    BY <1>11 DEF Answer
  <2> QED
    BY <2>1, <2>2, ServesKeepsAll
<1>12. ASSUME LoadStreams PROVE IInv'
  <2>1. UNCHANGED chunks
    BY <1>12, Zenon DEF LoadStreams
  <2> QED
    BY <1>0, <1>12, <1>a, <2>1, LoadedGet DEF IInv
<1>13. ASSUME LoadFails PROVE IInv'
  <2>1. UNCHANGED chunks
    BY <1>13, Zenon DEF LoadFails
  <2> QED
    BY <1>0, <1>13, <1>a, <2>1, FailedGet DEF IInv
<1>14. ASSUME EvictAnalyzer PROVE IInv'
  BY <1>0, <1>14, <1>a, OthersKeep DEF IInv, EvictAnalyzer
<1>15. ASSUME NEW k \in DOMAIN chunks, ExpireChunk(k) PROVE IInv'
  <2>1. UNCHANGED <<store, analyzer, loading, client>>
    BY <1>15 DEF ExpireChunk
  <2>2. ChunkInv'
    BY <1>0, <1>15, ExpireKeepsChunks
  <2> QED
    BY <1>0, <2>1, <2>2, OthersKeep DEF IInv
<1>16. ASSUME UNCHANGED vars PROVE IInv'
  BY <1>0, <1>16, <1>a, OthersKeep DEF IInv, vars
<1> QED
  BY <1>1, <1>2, <1>3, <1>4, <1>5, <1>6, <1>7, <1>8, <1>9, <1>10, <1>11, <1>12, <1>13, <1>14,
     <1>15, <1>16 DEF Next
-----------------------------------------------------------------------------
(* What follows.                                                           *)

\* The inductive invariant holds in every state of the service.
THEOREM Invariance == Spec => []IInv
BY InitIInv, NextIInv, PTL DEF Spec

\* Whatever requests filled the cache, with whatever analyzers and views, each
\* chunk of it covers the stretch of the engine's life its key stands for
\* (fetch_missing_chunks, cached_single_timeline, ChunkCacheKey).
THEOREM ChunksOfTheirKeys == Spec => []ChunksAreCanonical
<1>1. IInv => ChunksAreCanonical
  BY DEF IInv, ChunkInv, Canonical, ChunksAreCanonical
<1> QED
  BY <1>1, Invariance, PTL

\* A request that succeeds answers each of its entries, but those whose view ends
\* before it begins, from every chunk of the geometry or with an error, whatever
\* was cached, missed, dropped or failed meanwhile (assemble_bulk_response,
\* error_entries).
THEOREM EntriesAnswered == Spec => []EveryEntryAnswered
<1>1. IInv => EveryEntryAnswered
  <2> SUFFICES ASSUME IInv, NEW c \in Clients, Cached(c)
               PROVE  LET cl == client[c].was
                      IN  /\ DOMAIN client[c].entries = InTime(cl.req.views) \cup cl.errors
                          /\ Whole(c) = InTime(cl.req.views) \ cl.errors
                          /\ \A e \in Whole(c), k \in cl.geo.first..cl.geo.last :
                               [entry |-> e, idx |-> k] \in DOMAIN cl.have
    BY DEF EveryEntryAnswered
  <2>1. Good(client[c])
    BY DEF IInv, ClientInv
  <2>2. Answered(client[c].entries, client[c].was)
    BY <2>1 DEF Good, Cached
  <2> QED
    BY <2>2 DEF Answered, Whole
<1> QED
  BY <1>1, Invariance, PTL

\* An answer covers the view it was asked for, as far as the engine lived in it,
\* whichever requests computed the chunks it is made of, at whatever zoom
\* (combine_chunks, overlap_indices, selected_bin_span).
THEOREM AnswersCover == Spec => []AnswersCoverTheView
<1>1. IInv => AnswersCoverTheView
  <2> SUFFICES ASSUME IInv, NEW c \in Clients, Cached(c), NEW e \in Whole(c),
                      client[c].was.req.views[e] = client[c].was.view, NEW r \in client[c].entries[e]
               PROVE  Covered(r, client[c].was.view)
    BY DEF AnswersCoverTheView, Covered
  <2>1. Good(client[c])
    BY DEF IInv, ClientInv
  <2>2. Covering(client[c].entries, client[c].was)
    BY <2>1 DEF Good, Cached
  <2> QED
    BY <2>2 DEF Covering, Whole
<1> QED
  BY <1>1, Invariance, PTL

\* A state in use during an answer's time has a series, and a series with a value for
\* every bin has the usage of each, whichever requests computed the chunks, with
\* whatever views and in bulk or not, if the chunks are as old as the analyzer and
\* their bins tile the engine's life evenly (combine_chunks, overlap_indices,
\* check_cache, InsertChunks).
THEOREM BinsShowUsages == Spec => []BinsAreTrue
<1>1. IInv => BinsAreTrue
  <2> SUFFICES ASSUME IInv, NEW c \in Clients, Cached(c), EvenOf(client[c].was), FreshOf(client[c].was),
                      NEW e \in Whole(c), NEW r \in client[c].entries[e]
               PROVE  ShowsUsages(client[c].was, e, r)
    BY DEF BinsAreTrue, EvenOf, FreshOf, ShowsUsages, Busy
  <2>1. Good(client[c])
    BY DEF IInv, ClientInv
  <2>2. Showing(client[c].entries, client[c].was)
    BY <2>1 DEF Good, Cached
  <2> QED
    BY <2>2 DEF Showing, Whole
<1> QED
  BY <1>1, Invariance, PTL

\* Only a load that succeeds puts an analyzer into the cache.
LEMMA OnlyLoadsAdd ==
  ASSUME [Next]_vars, ~ LoadStreams
  PROVE  analyzer' \subseteq analyzer
<1>1. ASSUME UNCHANGED analyzer PROVE analyzer' \subseteq analyzer
  BY <1>1
<1>2. ASSUME EvictAnalyzer PROVE analyzer' \subseteq analyzer
  BY <1>2 DEF EvictAnalyzer
<1>3. ASSUME NEW x, Flush(x) PROVE UNCHANGED analyzer
  BY <1>3 DEF Flush
<1>4. ASSUME NEW c, NEW req, Request(c, req) PROVE UNCHANGED analyzer
  BY <1>4 DEF Request
<1>5. ASSUME NEW c, Hit(c) \/ LoadIndex(c) PROVE UNCHANGED analyzer
  BY <1>5 DEF Hit, LoadIndex
<1>6. ASSUME NEW c, Direct(c) \/ check_cache(c) PROVE UNCHANGED analyzer
  BY <1>6, Zenon DEF Direct, check_cache
<1>7. ASSUME NEW c, NEW e, compute_chunk_geometry(c, e) PROVE UNCHANGED analyzer
  BY <1>7, Zenon DEF compute_chunk_geometry
<1>8. ASSUME NEW c, NEW bad, fetch_missing_chunks(c, bad) PROVE UNCHANGED analyzer
  BY <1>8, Zenon DEF fetch_missing_chunks
<1>9. ASSUME NEW c, FetchFails(c) \/ InsertChunks(c) \/ Answer(c) PROVE UNCHANGED analyzer
  BY <1>9, Zenon DEF FetchFails, InsertChunks, Answer
<1>10. ASSUME LoadFails PROVE UNCHANGED analyzer
  BY <1>10 DEF LoadFails
<1>11. ASSUME NEW k, ExpireChunk(k) PROVE UNCHANGED analyzer
  BY <1>11 DEF ExpireChunk
<1>12. ASSUME UNCHANGED vars PROVE UNCHANGED analyzer
  BY <1>12 DEF vars
<1> QED
  BY <1>1, <1>2, <1>3, <1>4, <1>5, <1>6, <1>7, <1>8, <1>9, <1>10, <1>11, <1>12 DEF Next

\* An analyzer that comes into the cache knows at least what every analyzer in
\* use knows: there is one load at a time, and what it reads was not read
\* before what the others know was written (AnalyzerCache::get).
THEOREM AnalyzersAdvance == Spec => AnalyzersOnlyAdvance
<1> DEFINE Advances == \A an \in analyzer' \ analyzer : \A c \in Clients :
                         "an" \in DOMAIN client[c] => client[c].an \subseteq an
<1>1. ASSUME IInv, [Next]_vars PROVE [Advances]_vars
  <2>1. ASSUME NEW an \in analyzer' \ analyzer, NEW c \in Clients, "an" \in DOMAIN client[c]
        PROVE  client[c].an \subseteq an
    <3>1. PICK ctxs \in loading : analyzer' = {Flushed(ctxs)}
      <4>1. CASE LoadStreams
        BY <4>1, Zenon DEF LoadStreams, Flushed
      <4>2. CASE ~ LoadStreams
        <5>1. analyzer' \subseteq analyzer
          BY <1>1, <4>2, OnlyLoadsAdd
        <5> QED
          BY <2>1, <5>1
      <4> QED
        BY <4>1, <4>2
    <3>2. client[c].pc \in AnalyzerPcs
      <4>1. ShapeOf(client[c])
        BY <1>1 DEF IInv, ClientInv, Good
      <4> QED
        BY <2>1, <4>1 DEF ShapeOf, AnalyzerPcs, CutPcs
    <3> QED
      BY <1>1, <2>1, <3>1, <3>2 DEF IInv, LoadInv
  <2> QED
    BY <2>1
<1> QED
  BY <1>1, Invariance, PTL DEF Spec, AnalyzersOnlyAdvance
=============================================================================
