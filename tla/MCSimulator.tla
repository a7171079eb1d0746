---------------------------- MODULE MCSimulator ----------------------------
(* Two threads of one worker that share an operator's counter (three tasks  *)
(* for two threads leave one over), two workers of one thread each with a   *)
(* link in each direction, and one thread that runs two tasks, two          *)
(* operators, or one operator in each of two queries.  The views: bins that *)
(* reach past the end asked for, a start in the middle of the run, and bins *)
(* that would end after the last timestamp and so begin before the start.   *)
EXTENDS SimulatorViews

Run(workers, threads, tasks, queries, plan) ==
    [workers |-> workers, threads |-> threads, tasks |-> tasks, queries |-> queries, plan |-> plan]
MCArgs == {Run({1}, 2, 3, 1, <<"JoinLocal">>),
           Run({1, 2}, 1, 1, 1, <<"JoinPartition">>),
           Run({1}, 1, 2, 1, <<"Sort">>),
           Run({1}, 1, 1, 1, <<"JoinLocal", "Limit">>), Run({1}, 1, 1, 2, <<"Sort">>)}
MCViews == {<<0, 3, 2>>, <<1, 4, 3>>, <<2, 5, 4>>}
=============================================================================
