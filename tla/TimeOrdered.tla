----------------------------- MODULE TimeOrdered -----------------------------
(***************************************************************************)
(* TimeOrderedCollector of crates/time: events, records with a timestamp   *)
(* ts, kept in the order of their timestamps as they arrive.               *)
(***************************************************************************)
EXTENDS Integers, Sequences, SequencesExt

\* Vec::insert
Inserted(s, n, e) == [i \in 1..(Len(s) + 1) |-> IF i <= n THEN s[i] ELSE IF i = n + 1 THEN e ELSE s[i - 1]]

(* Mutant: late arrivals go before events of the same time. *)
BeforeTies(s, e) == Inserted(s, CHOOSE n \in 0..Len(s) : /\ \A i \in 1..n : s[i].ts < e.ts
                                                         /\ \A i \in (n + 1)..Len(s) : s[i].ts >= e.ts, e)

\* The partition point: how many of the collected events are not later than ts.
Point(s, ts) == CHOOSE n \in 0..Len(s) : /\ \A i \in 1..n : s[i].ts <= ts
                                         /\ \A i \in (n + 1)..Len(s) : s[i].ts > ts

(* TimeOrderedCollector::push *)
Collect(s, e) == IF s # <<>> /\ s[Len(s)].ts <= e.ts THEN Append(s, e)
                 ELSE Inserted(s, Point(s, e.ts), e)

Ordered(events) == FoldLeft(Collect, <<>>, events)
=============================================================================
