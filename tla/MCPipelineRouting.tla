------------------------ MODULE MCPipelineRouting ------------------------
(* Every valid pipeline of a trigger and three nodes out of a few types,   *)
(* and a few larger ones, for TLC.                                         *)
EXTENDS PipelineRouting

MCNode == 0 .. 5

\* 0 is the entry; nodes above the last one of a graph are other triggers,
\* which no run reaches.  Edges go from lower to higher numbers: up to the
\* names of nodes this is every acyclic graph.
Padded(types) == [n \in MCNode |-> IF n = 0 \/ n \notin DOMAIN types THEN "trigger" ELSE types[n]]

E(s, p, d) == [src |-> s, port |-> p, dst |-> d]

\* The edges that may lead to n.  "out" of an action is left to the larger
\* graphs: it opens together with "success".
Sources(type, n) ==
    UNION {{E(s, p, n) : p \in IF type[s] = "action" THEN {"success", "error"}
                               ELSE PossibleRoutingPorts[type[s]]} : s \in 0 .. n - 1}

Inputs(type, n) ==
    IF type[n] \in MergeTypes THEN SUBSET Sources(type, n) \ {{}}
    ELSE {{e} : e \in Sources(type, n)}

Small(types1, types2, types3) ==
    UNION {LET type == Padded(t) IN
           {[type |-> type, edges |-> a \union b \union c, abort |-> ab, entry |-> 0] :
                a \in Inputs(type, 1), b \in Inputs(type, 2), c \in Inputs(type, 3),
                ab \in {{}, {n \in MCNode : type[n] = "action"}}} :
           t \in {<<x, y, z>> : x \in types1, y \in types2, z \in types3}}

\* A fork whose branches have different lengths and meet in a merge, one of
\* them behind an approval whose other outcomes lead elsewhere.
Fork(join) ==
    [type  |-> Padded(<<"parallel", "approval", "wait", join, "action">>),
     edges |-> {E(0, "out", 1), E(1, "out", 2), E(1, "out", 3), E(2, "approved", 4),
                E(2, "timeout", 4), E(2, "rejected", 5), E(3, "done", 4)},
     abort |-> {5}, entry |-> 0]

\* A decision in front of one of two branches of unequal length.
Detour(join) ==
    [type  |-> Padded(<<"plugin", "condition", "input", join, "action">>),
     edges |-> {E(0, "out", 1), E(0, "out", 2), E(1, "out", 4), E(2, "true", 3),
                E(3, "received", 4), E(4, "out", 5)},
     abort |-> {}, entry |-> 0]

MCGraphs == Small({"condition", "action"}, {"approval", "action", "merge_all"}, {"action", "merge_all", "merge_any"})
              \union {Fork(j) : j \in MergeTypes} \union {Detour(j) : j \in MergeTypes}
==========================================================================
