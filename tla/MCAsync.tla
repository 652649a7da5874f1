------------------------------- MODULE MCAsync -------------------------------
(* Instances of QzAsync for TLC: what the application asks, how many of its *)
(* requests are under way at a time, and what may go wrong meanwhile.       *)
EXTENDS QzAsync

C(k)    == [op |-> "comp", kinds |-> [i \in 1..k |-> "ok"], room |-> k]
D(kinds, room) == [op |-> "decomp", kinds |-> kinds, room |-> room]

\* Several requests under way, in both directions, cut into several units;
\* nothing fails but the attempts to get an instance.
Busy == [shapes |-> {C(1), D(<<"ok", "ok">>, 2)},
         faults |-> {"grab"}, reqs |-> 3, window |-> 3, sw_backup |-> TRUE,
         zlib |-> FALSE]

\* One request of one unit at a time, and faults of every kind that the code
\* survives.
Troubled == [shapes |-> {C(1), D(<<"ok">>, 1), D(<<"hdr">>, 1),
                         D(<<"big">>, 1), D(<<"ok">>, 0)},
             faults |-> {"retry", "submit", "event", "decomp_job"},
             reqs |-> 3, window |-> 1, sw_backup |-> TRUE, zlib |-> FALSE]
Unbacked == [Troubled EXCEPT !.sw_backup = FALSE,
                             !.faults = @ \ {"decomp_job"}]

\* Answers are dropped: failed jobs, short destinations, wrong checksums.
Dropping == [shapes |-> {C(2), [C(1) EXCEPT !.room = 0],
                         D(<<"sum", "ok">>, 2)},
             faults |-> {"comp_job", "sw"},
             reqs |-> 2, window |-> 2, sw_backup |-> TRUE, zlib |-> FALSE]

\* The poll fails.
Unpolled == [shapes |-> {C(1)}, faults |-> {"poll"}, reqs |-> 2, window |-> 1,
             sw_backup |-> TRUE, zlib |-> FALSE]

MCLoads == {Busy, Troubled, Unbacked, Dropping, Unpolled}
==============================================================================
