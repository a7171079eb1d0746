--------------------------- MODULE MCQueryServer ---------------------------
(* Two clients, an engine of 8 ns, one worker whose context flushes late,  *)
(* two entries. Views: the whole engine, one that is neither aligned nor   *)
(* even, and one that ends before it begins. One chunk expires             *)
(* (MaxExpired).                                                           *)
EXTENDS QueryServer

CONSTANTS c1, c2

MCClients == {c1, c2}
MCContexts == {"engine", "worker"}

Use(t, e, s, a, b) == [kind |-> "usage", task |-> t, entry |-> e, state |-> s, from |-> a, to |-> b]
Ev(k, t) == [kind |-> k, task |-> 0, entry |-> "", state |-> "", from |-> t, to |-> t]

MCLog == [x \in MCContexts |->
  IF x = "engine" THEN << {Ev("init", 0), Use(1, "A", "wait", 0, 3)},
                          {Ev("exit", 8), Use(1, "A", "run", 3, 4)} >>
  ELSE << {Ev("worker", 1), Use(2, "A", "run", 5, 7), Use(3, "B", "wait", 2, 6)} >>]

View(a, b, n) == [from |-> a, to |-> b, bins |-> n]
One(e, v) == [x \in {e} |-> v]
MCRequests ==
  { [bulk |-> FALSE, views |-> One("A", View(0, 8, 2))],
    [bulk |-> TRUE,  views |-> One("A", View(0, 8, 2)) @@ One("B", View(1, 6, 1))],
    [bulk |-> TRUE,  views |-> One("A", View(0, 8, 2)) @@ One("B", View(6, 1, 1))] }
=============================================================================
