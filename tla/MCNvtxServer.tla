---------------------------- MODULE MCNvtxServer ---------------------------
(* NvtxServer with two clients, one context and one permit: streams with   *)
(* nesting over two threads and domains, orphans, late arrivals, forward   *)
(* references and ranges that never close.                                 *)
EXTENDS NvtxServer, TLC

CONSTANTS c1, c2, c3, x1

E(ts, kind, class, thread, domain, key, name, cat) ==
  [ts |-> ts, kind |-> kind, class |-> class, thread |-> thread, domain |-> domain,
   key |-> key, name |-> name, cat |-> cat]
Push(ts, t, d, name, cat) == E(ts, "push", "stack", t, d, None, name, cat)
Pop(ts, t, d) == E(ts, "pop", "stack", t, d, None, None, None)

MCStreams ==
  {<<Push(1, 1, 1, "a", 1), Push(2, 1, 2, "h", None), Push(3, 1, 1, "b", None),
     Pop(4, 1, 1), Pop(5, 1, 2), E(0, "register", "none", None, 2, "h", "s", None)>>,
   <<Pop(1, 1, 1), Push(4, 1, 1, "b", 1), Push(2, 2, 1, "a", 1), Pop(5, 1, 1),
     Push(3, 1, 1, "a", 1), Pop(3, 2, 1)>>,
   <<E(2, "open", "range", 1, 1, 7, "h", 1), E(3, "register", "none", None, 2, "h", "s", None),
     E(3, "mark", "none", 1, 1, None, "m", None), E(4, "close", "range", 2, 1, 7, None, None),
     E(4, "open", "resource", 1, 2, 8, "r", None), E(5, "category", "none", None, 2, None, "c", 2)>>}

MCWindows == {w \in [start : {-2, 1, 3}, end : {1, 2, 5}] : TRUE}
MCSelections ==
  {<<[domain |-> 1, categories |-> {1}, none |-> TRUE]>>,
   <<[domain |-> 1, categories |-> {1}, none |-> FALSE],
     [domain |-> 2, categories |-> {}, none |-> TRUE]>>,
   <<[domain |-> 2, categories |-> {}, none |-> TRUE]>>}

=============================================================================
