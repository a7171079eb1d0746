---------------------------- MODULE QueryServer ----------------------------
(***************************************************************************)
(* The analyzer service of the query-engine domain: AnalyzerCache loads an *)
(* engine's telemetry from the files of its contexts into an immutable     *)
(* analyzer, shared by all requests until it is evicted; TimelineCache     *)
(* cuts the engine's life into chunks, keeps what the analyzer computed    *)
(* for each, and puts an answer together from the chunks a view overlaps.  *)
(*                                                                         *)
(* Times are nanoseconds since the epoch every request is relative to: the *)
(* f64 seconds of the protocol carry them exactly, so only the client's    *)
(* truncation to a nanosecond is left, and views are whole nanoseconds.    *)
(* A usage counts 1, and a bin holds the nanoseconds of usage it overlaps, *)
(* the numerator of the fraction the code stores.                          *)
(***************************************************************************)
EXTENDS Integers, Sequences, TLC, FiniteSetsExt, SequencesExt

CONSTANTS Clients,     \* HTTP requests, each with a task that serves it
          Contexts,    \* contexts whose files may hold events of the engine
          Log,         \* Log[x]: what each flush of context x adds, as sets of facts
          Requests,    \* [bulk: BOOLEAN, views: entry -> [from, to, bins]]
          MaxExpired   \* bound on the chunks that expire

\* A fact is an event of the engine, of a worker, or a task's usage of an entry
\* (a resource) in one of its states: [kind, task, entry, state, from, to].

\* Everything the contexts will ever report.
AllFacts == UNION {UNION Range(Log[x]) : x \in Contexts}

EngineTimes(an) == {f.from : f \in {g \in an : g.kind \in {"init", "exit"}}}

ASSUME LogAssumption == Log \in [Contexts -> Seq(SUBSET AllFacts)]

\* An engine begins, where time begins for its requests, and ends, both once.
ASSUME EngineAssumption ==
  \E end \in EngineTimes(AllFacts) \cup {0} : end \in Nat /\ EngineTimes(AllFacts) \subseteq {0, end}

\* Stretches of time that need not make sense, and at least one bin.
ASSUME RequestsAssumption ==
  \A req \in Requests : \A e \in DOMAIN req.views :
    LET view == req.views[e] IN view.from \in Nat /\ view.to \in Nat /\ view.bins \in Nat \ {0}

\* What is reported is finite, and usages have times, before the engine's begin or not.
ASSUME UsageAssumption ==
  /\ IsFiniteSet(AllFacts)
  /\ \A f \in AllFacts : f.kind = "usage" => f.from \in Int /\ f.to \in Int

VARIABLES store,     \* store[x]: flushes of context x that reached the files
          analyzer,  \* the cached analyzer: {} or {the set of facts it was built from}
          loading,   \* the load under way: {} or {the contexts of the index it read}
          chunks,    \* TimelineCache.chunks: key -> response
          expired,   \* how many chunks were dropped
          client     \* client[c]: the request being served

vars == <<store, analyzer, loading, chunks, expired, client>>

Key(e, z, k, n) == [entry |-> e, zoom |-> z, idx |-> k, bins |-> n]

Init == /\ store = [x \in Contexts |-> 0]
        /\ analyzer = {}
        /\ loading = {}
        /\ chunks = << >>
        /\ expired = 0
        /\ client = [c \in Clients |-> [pc |-> "idle"]]

-----------------------------------------------------------------------------
(* What the files hold, and which of them belong to the engine.            *)

FactsIn(x) == UNION {Log[x][i] : i \in 1..store[x]}

\* A context belongs to the engine if it has an event of the engine, or the
\* init of a worker whose parent is the engine.
index_query_engines == {x \in Contexts : \E f \in FactsIn(x) : f.kind \in {"init", "exit", "worker"}}

Flush(x) == /\ store[x] < Len(Log[x])
            /\ store' = [store EXCEPT ![x] = @ + 1]
            /\ UNCHANGED <<analyzer, loading, chunks, expired, client>>

-----------------------------------------------------------------------------
(* The analyzer (external to the service): binned usage of one entry.      *)

CeilDiv(a, b) == (a + b - 1) \div b

Overlap(u, a, b) == Max({0, Min({u.to, b}) - Max({u.from, a})})
Intersects(u, a, b) == u.from < b /\ u.to > a

Usages(an, e) == {f \in an : f.kind = "usage" /\ f.entry = e}

\* The single endpoint skips tasks that do not meet the window, the bulk one
\* pushes every task and so creates the series of every state.
Series(an, e, a, dur, n, bulk) ==
  LET used == {u \in Usages(an, e) : bulk \/ \E v \in an : /\ v.kind = "usage" /\ v.task = u.task
                                                          /\ Intersects(v, a, a + n * dur)}
  IN  [s \in {u.state : u \in used} |->
         [i \in 1..n |-> MapThenSumSet(LAMBDA u : Overlap(u, a + (i - 1) * dur, a + i * dur),
                                       {u \in used : u.state = s})]]

\* BinnedSpan::try_new rounds the bins up, so the span may grow at its end.
Timeline(an, e, a, b, n, bulk) ==
  LET dur == CeilDiv(b - a, n)
  IN  [from |-> a, dur |-> dur, bins |-> n, series |-> Series(an, e, a, dur, n, bulk)]

-----------------------------------------------------------------------------
(* Chunk geometry.                                                         *)

EngineDuration(an) == Max(EngineTimes(an)) - Min(EngineTimes(an))

determine_zoom_level(view, total) == Max({1, Min({(total * 2) \div view, Max({total, 1})})})

\* The chunks an analyzer with this engine duration cuts a view into; the last
\* chunk takes what the division left over.
Geometry(total, view) ==
  LET zoom == determine_zoom_level(view.to - view.from, total)
      len  == total \div zoom
  IN  [zoom |-> zoom, len |-> len, end |-> total, bins |-> view.bins,
       first |-> Min({view.from \div len, zoom - 1}),
       last  |-> Min({(view.to - 1) \div len, zoom - 1})]

EqualLengths(g, k) == (k + 1) * g.len

ChunkEnd(g, k) == IF k = g.zoom - 1 THEN g.end ELSE (k + 1) * g.len

Compute(an, g, p, bulk) ==
  Timeline(an, p.entry, p.idx * g.len, ChunkEnd(g, p.idx), g.bins, bulk)

-----------------------------------------------------------------------------
(* Putting chunks together: combine_chunks.                                *)

FloorsTheEnd(r, view) ==
  <<(Max({view.from, r.from}) - r.from) \div r.dur, (Min({view.to, r.from + r.bins * r.dur}) - r.from) \div r.dur>>

\* First (from 0) and one past the last bin of a chunk that a view needs.
overlap_indices(r, view) ==
  LET end == r.from + r.bins * r.dur
  IN  IF r.from < view.to /\ view.from < end
      THEN <<(Max({view.from, r.from}) - r.from) \div r.dur,
             Min({CeilDiv(Min({view.to, end}) - r.from, r.dur), r.bins})>>
      ELSE <<0, 0>>

SpanOfView(r, view) == <<Max({r.from, view.from}), r.from + overlap_indices(r, view)[2] * r.dur>>

selected_bin_span(r, view) == <<r.from + overlap_indices(r, view)[1] * r.dur,
                                r.from + overlap_indices(r, view)[2] * r.dur>>

\* Chunks in the order in which they start.
ByStart(rs) == [i \in 1..Cardinality(rs) |->
                  CHOOSE r \in rs : Cardinality({q \in rs : q.from < r.from}) = i - 1]

\* The chunks that have a bin for the view, and how many bins they have.
Met(rs, view) == {r \in rs : overlap_indices(r, view)[1] < overlap_indices(r, view)[2]}
TotalBins(rs, view) ==
  SumFunction([r \in Met(rs, view) |-> overlap_indices(r, view)[2] - overlap_indices(r, view)[1]])

\* A state's bins of the chunks that have that state, one after the other.
\* No bin at all is an error of the whole request.
combine_chunks(rs, view) ==
  LET used   == ByStart(Met(rs, view))
      total  == TotalBins(rs, view)
      states == UNION {DOMAIN used[i].series : i \in DOMAIN used}
      Part(r, s) == IF s \in DOMAIN r.series
                    THEN SubSeq(r.series[s], overlap_indices(r, view)[1] + 1, overlap_indices(r, view)[2])
                    ELSE << >>
  IN  IF total = 0 THEN {}
      ELSE LET a == selected_bin_span(used[1], view)[1]
               b == selected_bin_span(used[Len(used)], view)[2]
           IN  {[from |-> a, dur |-> CeilDiv(b - a, total), bins |-> total,
                 series |-> [s \in states |-> FlattenSeq([i \in DOMAIN used |-> Part(used[i], s)])]]}

-----------------------------------------------------------------------------
(* AnalyzerCache::get                                                      *)

Request(c, req) ==
  /\ client[c].pc = "idle"
  /\ client' = [client EXCEPT ![c] = [pc |-> "get", req |-> req]]
  /\ UNCHANGED <<store, analyzer, loading, chunks, expired>>

Reply(st, entries, cl) == [pc |-> "done", status |-> st, entries |-> entries, was |-> cl]
Fail(cl) == Reply("err", << >>, cl)

Serve(cl, an) == [pc |-> "serve", req |-> cl.req, an |-> an]

Hit(c) == /\ client[c].pc = "get"
          /\ \E an \in analyzer : client' = [client EXCEPT ![c] = Serve(@, an)]
          /\ UNCHANGED <<store, analyzer, loading, chunks, expired>>

LoadsAtOnce(c) ==
  /\ client[c].pc = "get" /\ analyzer = {}
  /\ loading' = loading \cup {index_query_engines}
  /\ UNCHANGED <<store, analyzer, chunks, expired, client>>

\* The first to miss loads, for everyone who misses meanwhile.
LoadIndex(c) ==
  /\ client[c].pc = "get" /\ analyzer = {} /\ loading = {}
  /\ loading' = {index_query_engines}
  /\ UNCHANGED <<store, analyzer, chunks, expired, client>>

\* The streams are read after the index: their contexts are those of the index,
\* their events those on disk by now. All waiters get the one analyzer.
LoadStreams ==
  \E ctxs \in loading :
    LET an == UNION {FactsIn(x) : x \in ctxs}
    IN  /\ analyzer' = {an}
        /\ loading' = loading \ {ctxs}
        /\ client' = [c \in Clients |-> IF client[c].pc = "get" THEN Serve(client[c], an) ELSE client[c]]
        /\ UNCHANGED <<store, chunks, expired>>

\* An error is handed to everyone who waits and is not cached.
LoadFails ==
  \E ctxs \in loading :
    /\ loading' = loading \ {ctxs}
    /\ client' = [c \in Clients |-> IF client[c].pc = "get" THEN Fail(client[c]) ELSE client[c]]
    /\ UNCHANGED <<store, analyzer, chunks, expired>>

\* Capacity or idle time.
EvictAnalyzer == /\ analyzer # {} /\ analyzer' = {}
                 /\ UNCHANGED <<store, loading, chunks, expired, client>>

-----------------------------------------------------------------------------
(* TimelineCache: cached_bulk_timeline and cached_single_timeline.         *)

\* The geometry of all entries is taken from one of them. An engine without an
\* event has no span: an error. Nothing to cut into chunks: the analyzer answers
\* the views as they are.
compute_chunk_geometry(c, e) ==
  LET cl   == client[c]
      view == cl.req.views[e]
      geo  == Geometry(EngineDuration(cl.an), view)
  IN  /\ cl.pc = "serve"
      /\ client' = [client EXCEPT ![c] =
           IF EngineTimes(cl.an) = {} THEN Fail(cl)
           ELSE IF EngineDuration(cl.an) = 0 \/ view.to <= view.from THEN [cl EXCEPT !.pc = "direct"]
           ELSE [pc |-> "check", req |-> cl.req, an |-> cl.an, view |-> view, geo |-> geo,
                 todo |-> {[entry |-> d, idx |-> k] : d \in DOMAIN cl.req.views, k \in geo.first..geo.last},
                 miss |-> {}, new |-> << >>, have |-> << >>, errors |-> {}]]
      /\ UNCHANGED <<store, analyzer, loading, chunks, expired>>

Direct(c) ==
  LET cl == client[c]
  IN  /\ cl.pc = "direct"
      /\ client' = [client EXCEPT ![c] =
           IF \E e \in DOMAIN cl.req.views : cl.req.views[e].from >= cl.req.views[e].to
           THEN Fail(cl)
           ELSE Reply("ok", [e \in DOMAIN cl.req.views |->
                   LET v == cl.req.views[e]
                   IN  {Timeline(cl.an, e, v.from, v.to, v.bins, cl.req.bulk)}], cl)]
      /\ UNCHANGED <<store, analyzer, loading, chunks, expired>>

\* What new has, and what old has where new has nothing.
Over(new, old) == [x \in DOMAIN new \cup DOMAIN old |-> IF x \in DOMAIN new THEN new[x] ELSE old[x]]

KeyOf(cl, p) == Key(p.entry, cl.geo.zoom, p.idx, cl.geo.bins)

\* Bulk looks up every chunk at once, single one chunk after the other.
Batch(cl) == IF cl.req.bulk THEN cl.todo
             ELSE {p \in cl.todo : \A q \in cl.todo : p.idx <= q.idx}

check_cache(c) ==
  LET cl   == client[c]
      hits == {p \in Batch(cl) : KeyOf(cl, p) \in DOMAIN chunks}
      miss == Batch(cl) \ hits
  IN  /\ cl.pc = "check" /\ cl.todo # {}
      /\ client' = [client EXCEPT ![c] =
           [cl EXCEPT !.todo = @ \ Batch(cl), !.miss = miss,
                      !.have = Over([p \in hits |-> chunks[KeyOf(cl, p)]], @),
                      !.pc = IF miss = {} THEN "check" ELSE "fetch"]]
      /\ UNCHANGED <<store, analyzer, loading, chunks, expired>>

\* One call of the analyzer for all missed chunks. A chunk may fail by itself
\* in bulk; a failing call, and any failure of a single request, is its answer.
fetch_missing_chunks(c, bad) ==
  LET cl == client[c]
  IN  /\ cl.pc = "fetch" /\ (cl.req.bulk \/ bad = {})
      /\ client' = [client EXCEPT ![c] =
           [cl EXCEPT !.pc = "insert", !.errors = @ \cup {p.entry : p \in bad}, !.miss = {},
                      !.new = [p \in cl.miss \ bad |-> Compute(cl.an, cl.geo, p, cl.req.bulk)]]]
      /\ UNCHANGED <<store, analyzer, loading, chunks, expired>>

FetchFails(c) == /\ client[c].pc = "fetch"
                 /\ client' = [client EXCEPT ![c] = Fail(@)]
                 /\ UNCHANGED <<store, analyzer, loading, chunks, expired>>

InsertChunks(c) ==
  LET cl == client[c]
  IN  /\ cl.pc = "insert"
      /\ chunks' = Over([k \in {KeyOf(cl, p) : p \in DOMAIN cl.new} |->
                           cl.new[CHOOSE p \in DOMAIN cl.new : KeyOf(cl, p) = k]], chunks)
      /\ client' = [client EXCEPT ![c] = [cl EXCEPT !.pc = "check", !.have = Over(cl.new, @),
                                                    !.new = << >>]]
      /\ UNCHANGED <<store, analyzer, loading, expired>>

\* Time to live or capacity.
ExpireChunk(k) == /\ expired < MaxExpired
                  /\ expired' = expired + 1
                  /\ chunks' = Restrict(chunks, DOMAIN chunks \ {k})
                  /\ UNCHANGED <<store, analyzer, loading, client>>

\* An entry's chunks become its answer, {} standing for an error entry: an
\* entry with a failed chunk is an error, whatever its other chunks are. A
\* view no bin of the chunks meets fails the request; one that ends before it
\* begins is passed over.
InTime(views) == {e \in DOMAIN views : views[e].from <= views[e].to}

ChunksOf(cl, e) == {cl.have[p] : p \in {q \in DOMAIN cl.have : q.entry = e}}

DropsErrors(cl) ==
  Reply("ok", [e \in {d \in DOMAIN cl.req.views : ChunksOf(cl, d) # {}} |->
                 combine_chunks(ChunksOf(cl, e), cl.req.views[e])], cl)

assemble_bulk_response(cl) ==
  LET found == {e \in InTime(cl.req.views) : ChunksOf(cl, e) # {}}
      whole == [e \in found |-> combine_chunks(ChunksOf(cl, e), cl.req.views[e])]
  IN  IF \E e \in found : whole[e] = {} THEN Fail(cl)
      ELSE Reply("ok", Over([e \in cl.errors |-> {}], whole), cl)

Answer(c) == /\ client[c].pc = "check" /\ client[c].todo = {}
             /\ client' = [client EXCEPT ![c] = assemble_bulk_response(@)]
             /\ UNCHANGED <<store, analyzer, loading, chunks, expired>>

Next == \/ \E x \in Contexts : Flush(x)
        \/ \E c \in Clients : \/ \E req \in Requests : Request(c, req)
                              \/ Hit(c) \/ LoadIndex(c) \/ Direct(c) \/ check_cache(c)
                              \/ \E e \in DOMAIN (IF client[c].pc = "serve" THEN client[c].req.views ELSE << >>) :
                                    compute_chunk_geometry(c, e)
                              \/ \E bad \in {{}} \cup {{p} : p \in IF client[c].pc = "fetch" THEN client[c].miss ELSE {}} :
                                    fetch_missing_chunks(c, bad)
                              \/ FetchFails(c) \/ InsertChunks(c) \/ Answer(c)
        \/ LoadStreams \/ LoadFails \/ EvictAnalyzer
        \/ \E k \in DOMAIN chunks : ExpireChunk(k)

Spec == Init /\ [][Next]_vars

-----------------------------------------------------------------------------
(* Properties                                                              *)

Cached(c) == /\ client[c].pc = "done" /\ client[c].status = "ok" /\ client[c].was.pc = "check"
Whole(c) == {e \in DOMAIN client[c].entries : client[c].entries[e] # {}}

\* The life of the engine.
Life == EngineDuration(AllFacts)

\* Every chunk in the cache covers the stretch of the engine's life its key
\* stands for, never the view of the request that computed it, but for the
\* nanoseconds, less than one a bin, that rounding adds (fetch_missing_chunks,
\* cached_single_timeline, ChunkCacheKey).
ChunksAreCanonical ==
  \A k \in DOMAIN chunks :
    LET len == Life \div k.zoom
        end == IF k.idx = k.zoom - 1 THEN Life ELSE (k.idx + 1) * len
    IN  /\ chunks[k].from = k.idx * len /\ chunks[k].bins = k.bins
        /\ k.bins * chunks[k].dur - (end - k.idx * len) \in 0..k.bins - 1

\* A request that succeeds answers each of its entries, but those whose view ends
\* before it begins; an entry answered with a timeline has every chunk of the
\* geometry behind it, and one of which a chunk failed is an error, whatever its
\* view (assemble_bulk_response, error_entries).
EveryEntryAnswered ==
  \A c \in Clients : Cached(c) =>
    LET cl == client[c].was
    IN  /\ DOMAIN client[c].entries = InTime(cl.req.views) \cup cl.errors
        /\ Whole(c) = InTime(cl.req.views) \ cl.errors
        /\ \A e \in Whole(c), k \in cl.geo.first..cl.geo.last : [entry |-> e, idx |-> k] \in DOMAIN cl.have

\* A timeline covers the view it was asked for, as far as the engine lived in
\* it, when that is the view the geometry was taken from (overlap_indices,
\* selected_bin_span).
AnswersCoverTheView ==
  \A c \in Clients : Cached(c) =>
    LET v == client[c].was.view
    IN  \A e \in Whole(c) : client[c].was.req.views[e] = v =>
          \A r \in client[c].entries[e] :
            r.from <= v.from /\ r.from + r.bins * r.dur >= Min({v.to, Life})

\* A state in use during an answer's time has a series, and each bin of a series
\* that has a value for every bin holds the usage in that state over the time
\* the bin is shown at, whichever requests computed the chunks, if the chunks are
\* as old as the analyzer of the request and their bins tile the engine's life
\* evenly (combine_chunks, check_cache, InsertChunks).
BinsAreTrue ==
  \A c \in Clients : Cached(c) =>
    LET cl    == client[c].was
        even  == Life % cl.geo.zoom = 0 /\ cl.geo.len % cl.geo.bins = 0
        fresh == \A p \in DOMAIN cl.have : \E bulk \in BOOLEAN : cl.have[p] = Compute(cl.an, cl.geo, p, bulk)
    IN  even /\ fresh =>
          \A e \in Whole(c) : \A r \in client[c].entries[e] :
            \A u \in Usages(cl.an, e) : Overlap(u, r.from, r.from + r.bins * r.dur) > 0 =>
              /\ u.state \in DOMAIN r.series
              /\ Len(r.series[u.state]) = r.bins => \A i \in 1..r.bins :
                   r.series[u.state][i] = MapThenSumSet(LAMBDA w : Overlap(w, r.from + (i - 1) * r.dur, r.from + i * r.dur),
                                                        {w \in Usages(cl.an, e) : w.state = u.state})

\* An analyzer is only ever replaced by one built from at least as many events:
\* no load that read less overwrites a later one (single flight of get).
AnalyzersOnlyAdvance ==
  [][\A an \in analyzer' \ analyzer : \A c \in Clients :
       "an" \in DOMAIN client[c] => client[c].an \subseteq an]_vars

\* Each series of an answer has one value per bin, as the protocol says:
\* "a vector where each element holds an aggregated value of a time bin".
SeriesFillTheBins ==
  \A c \in Clients : Cached(c) =>
    \A e \in Whole(c) : \A r \in client[c].entries[e] :
      \A s \in DOMAIN r.series : Len(r.series[s]) = r.bins
=============================================================================
