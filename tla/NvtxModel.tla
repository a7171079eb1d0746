----------------------------- MODULE NvtxModel -----------------------------
(***************************************************************************)
(* What integrations/nvtx/analyzer makes of a captured stream: the events  *)
(* sorted by time (crates/time/src/lib.rs), the names resolved by tables   *)
(* over the whole stream (tables.rs), and the spans rebuilt by a replay    *)
(* (model.rs, ranges.rs, resource.rs).                                     *)
(*                                                                         *)
(* An event is a record with ts, kind ("push", "pop", "open", "close",     *)
(* "mark", "register", "category"), class ("stack", "range", "resource"),  *)
(* thread, domain, key, name and cat.                                      *)
(***************************************************************************)
EXTENDS TimeOrdered, FiniteSets

CONSTANT None

-----------------------------------------------------------------------------
(* Pass 1: the tables.                                                     *)

SeenDomains(events) ==
  {e.domain : e \in {x \in ToSet(events) : ~(x.kind = "close" /\ x.class = "resource")}}

SeenCategories(events) ==
  {<<e.domain, e.cat>> : e \in {x \in ToSet(events) : x.cat # None}}

(* Mutant: a handle means the same string in every domain. *)
AnyDomain(r, e) == r.kind = "register" /\ r.key = e.name

(* Registered strings are named by their domain and handle. *)
Registers(r, e) == r.kind = "register" /\ r.domain = e.domain /\ r.key = e.name

(* resolve_message: the last registration in time, wherever it is. *)
NameOf(events, e) ==
  LET known == SelectSeq(events, LAMBDA r : Registers(r, e))
  IN IF known = <<>> THEN e.name ELSE Last(known).name

Resolved(events) ==
  [i \in 1..Len(events) |->
     IF events[i].kind \in {"push", "open", "mark"}
       THEN [events[i] EXCEPT !.name = NameOf(events, events[i])]
       ELSE events[i]]
-----------------------------------------------------------------------------
(* Pass 2: the replay keeps the slots of spans, what is open by key (a set *)
(* of ranges or resources) and by position (pushes, in order, with the     *)
(* slot each has reserved), and how many closes found nothing to close.    *)

Empty == [slots |-> <<>>, open |-> {}, pushes |-> <<>>, marks |-> <<>>,
          orphans |-> 0, reused |-> 0]

Span(o, end, parent) ==
  [class |-> o.class, name |-> o.name, domain |-> o.domain, thread |-> o.thread,
   cat |-> o.cat, start |-> o.ts, end |-> end, parent |-> parent]

(* Mutant: one stack for each domain. *)
OneStackPerDomain(e, p) == e.domain = p.domain

(* StackKey *)
SameStack(e, p) == e.thread = p.thread /\ e.domain = p.domain

(* PushPopRanges::push reserves a slot. *)
ReplayPush(m, e) ==
  [m EXCEPT !.slots = Append(@, None),
            !.pushes = Append(@, [id |-> Len(m.slots) + 1] @@ e)]

(* The pushes open on a stack, innermost first. *)
StackOf(m, e) == Reverse(SelectSeq(m.pushes, LAMBDA p : SameStack(e, p)))

(* Fill the slot of the innermost push; its parent is what it uncovers. *)
Fill(m, e, end) ==
  LET s == StackOf(m, e)
  IN [m EXCEPT !.slots[s[1].id] = Span(s[1], end, IF Len(s) > 1 THEN s[2].id ELSE None),
               !.pushes = SelectSeq(@, LAMBDA p : p.id # s[1].id)]

(* PushPopRanges::pop *)
ReplayPop(m, e) == IF StackOf(m, e) = <<>> THEN [m EXCEPT !.orphans = @ + 1]
                   ELSE Fill(m, e, e.ts)

SameKey(m, e) == {o \in m.open : o.class = e.class /\ o.key = e.key}

(* StartEndRanges and Resources: a key opened again displaces the earlier. *)
ReplayOpen(m, e) ==
  LET old == SameKey(m, e)
  IN [m EXCEPT !.open = (@ \ old) \cup {e},
               !.reused = @ + Cardinality(old),
               !.slots = @ \o SetToSeq({Span(o, None, None) : o \in old})]

ReplayClose(m, e) ==
  LET old == SameKey(m, e)
  IN IF old = {} THEN [m EXCEPT !.orphans = @ + 1]
     ELSE [m EXCEPT !.open = @ \ old,
                    !.slots = @ \o SetToSeq({Span(o, e.ts, None) : o \in old})]

Replay(m, e) == CASE e.kind = "push"  -> ReplayPush(m, e)
                  [] e.kind = "pop"   -> ReplayPop(m, e)
                  [] e.kind = "open"  -> ReplayOpen(m, e)
                  [] e.kind = "close" -> ReplayClose(m, e)
                  [] e.kind = "mark"  -> [m EXCEPT !.marks = Append(@, e)]
                  [] OTHER            -> m

(* The three drain_unclosed: what is still open ends None.  Open ranges    *)
(* come by start and key, ranges before resources.                         *)
Drain(m) ==
  LET Before(a, b) == \/ a.class = "range" /\ b.class = "resource"
                      \/ /\ a.class = b.class
                         /\ a.ts < b.ts \/ (a.ts = b.ts /\ a.key < b.key)
      left == SetToSortSeq(m.open, Before)
      m1   == [m EXCEPT !.slots = @ \o [i \in 1..Len(left) |-> Span(left[i], None, None)]]
  IN FoldLeft(LAMBDA acc, p : Fill(acc, p, None), m1, Reverse(m.pushes))

(* NvtxModelBuilder::build *)
Build(events) ==
  LET ordered == Ordered(events)
  IN Drain(FoldLeft(Replay, Empty, Resolved(ordered)))
     @@ [domains    |-> SeenDomains(ordered),
         categories |-> SeenCategories(ordered),
         start      |-> IF ordered = <<>> THEN 0 ELSE ordered[1].ts,
         end        |-> IF ordered = <<>> THEN 0 ELSE Last(ordered).ts]
=============================================================================
