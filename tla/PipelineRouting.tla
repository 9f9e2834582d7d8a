-------------------------- MODULE PipelineRouting --------------------------
(***************************************************************************)
(* One run of a Studio pipeline: the batch loop of                         *)
(* studio/pipeline_run_loop.py over the routing rules of                   *)
(* studio/pipeline_routing.py.  A pipeline is a graph of typed nodes; an   *)
(* edge leaves its source through a named port (sourceHandle).  The loop   *)
(* runs the ready nodes as one batch (asyncio.gather), stores every        *)
(* result, and only then routes: the ports a result opened make the        *)
(* targets of their edges ready.  A merge node is made ready by its        *)
(* arrivals: the first one (mode any), or the one after which every source *)
(* that may still reach it has arrived (mode all).                         *)
(*                                                                         *)
(* The nodes of a batch end in an unknown order, but nothing is routed     *)
(* before all of them have ended, so a batch ends in one step here.  The   *)
(* row of the run and the handlers that race with the loop are the subject *)
(* of PipelineControl; of them only the request to stop is kept here.      *)
(***************************************************************************)
EXTENDS Naturals, FiniteSets

CONSTANTS Node,     \* the identifiers of nodes
          Graphs    \* the pipelines that may be run, each with its entry

(***************************************************************************)
(* Node types, up to what routing tells apart: "action" is agent/*,        *)
(* output/* and ops/*, "plugin" every type the router has no rule for, and *)
(* logic/merge is split by its mode (anything but "any" counts as "all").  *)
(***************************************************************************)
MergeTypes == {"merge_all", "merge_any"}

\* possible_routing_ports: the ports a node that has no result may open.
PossibleRoutingPorts ==
    [trigger   |-> {"out"},
     condition |-> {"true", "false"},
     parallel  |-> {"out"},
     merge_all |-> {"out"},
     merge_any |-> {"out"},
     wait      |-> {"done", "out"},
     approval  |-> {"approved", "rejected", "timeout"},
     input     |-> {"received", "timeout"},
     action    |-> {"success", "error", "out"},
     plugin    |-> {"out"}]

NodeTypes == DOMAIN PossibleRoutingPorts
Ports     == UNION {PossibleRoutingPorts[t] : t \in NodeTypes}

\* result_routing_ports: the sets of ports a result may open.  A condition,
\* a parallel and a merge open their port whatever their status; the empty
\* set is a node that failed, or was stopped, without a branch for it.
ResultRoutingPorts ==
    [trigger   |-> {{"out"}},
     condition |-> {{"true"}, {"false"}},
     parallel  |-> {{"out"}},
     merge_all |-> {{"out"}},
     merge_any |-> {{"out"}},
     wait      |-> {{"done", "out"}, {}},
     approval  |-> {{"approved"}, {"rejected"}, {"timeout"}, {}},
     input     |-> {{"received"}, {"timeout"}, {}},
     action    |-> {{"success", "out"}, {"error"}},
     plugin    |-> {{"out"}, {}}]

\* The node types whose wait ends early, with status stopped, on a stop.
Interruptible == {"wait", "approval", "input"}

Edge  == [src : Node, port : Ports, dst : Node]
Graph == [type : [Node -> NodeTypes], edges : SUBSET Edge,
          abort : SUBSET Node, entry : Node]

Incoming(g, n) == {e \in g.edges : e.dst = n}

\* Nodes that contains n0 and every target of an edge of E leaving it.
Closed(S, n0, E) == n0 \in S /\ \A e \in E : e.src \in S => e.dst \in S
Reach(n0, E)     == {n \in Node : \A S \in SUBSET Node : Closed(S, n0, E) => n \in S}

\* validate_pipeline_definition and prepare_pipeline_run_start, as far as
\* they concern the shape of the graph.  on_failure=abort counts on agent/*
\* and output/* only, so abort names actions.
ValidGraph(g) ==
    /\ g \in Graph
    /\ g.type[g.entry] = "trigger"
    /\ \A e \in g.edges : e.port \in PossibleRoutingPorts[g.type[e.src]]
    /\ \A S \in SUBSET Node \ {{}} : \E n \in S : \A e \in Incoming(g, n) : e.src \notin S
    /\ \A n \in Node :
         /\ g.type[n] = "trigger" => Incoming(g, n) = {}
         /\ g.type[n] \in MergeTypes => Incoming(g, n) # {}
         /\ g.type[n] \notin MergeTypes => Cardinality(Incoming(g, n)) <= 1
    /\ Node \subseteq UNION {Reach(t, g.edges) : t \in {n \in Node : g.type[n] = "trigger"}}
    /\ \E n \in Reach(g.entry, g.edges) : g.type[n] # "trigger"
    /\ \A n \in g.abort : g.type[n] = "action"

ASSUME GraphsAssumption == \A g \in Graphs : ValidGraph(g)

VARIABLES
    graph,      \* nodes_snapshot, edges_snapshot and entry_node_id; constant
    pc,         \* where the executor is: "entry", "head", "batch", "ended"
    outcome,    \* status of the run row, "running" until the executor ends it
    ready,      \* ready_nodes (and ready_queue: its order has no effect)
    batch,      \* batch_node_ids: the nodes being executed
    completed,  \* completed_nodes
    ports,      \* node_states[n].routing_ports, {} when absent or empty
    arrived,    \* pending_merges[n].arrived_sources
    released,   \* the merges with pending_merges[n].released
    stopAsked,  \* the request to stop, in the row of the run
    stopSeen    \* _stop_requested of the executor

vars == <<graph, pc, outcome, ready, batch, completed, ports, arrived,
          released, stopAsked, stopSeen>>

\* Types; no node is queued or runs that has run before, and the executor
\* waits for a batch exactly when there is one.
TypeOK ==
    /\ graph \in Graph
    /\ pc \in {"entry", "head", "batch", "ended"}
    /\ outcome \in {"running", "completed", "failed", "stopped"}
    /\ ready \subseteq Node /\ batch \subseteq Node /\ completed \subseteq Node
    /\ (ready \union batch) \intersect completed = {}
    /\ batch # {} <=> pc = "batch"
    /\ ports \in [Node -> SUBSET Ports]
    /\ arrived \in [Node -> SUBSET Node]
    /\ released \subseteq Node
    /\ stopAsked \in BOOLEAN /\ stopSeen \in BOOLEAN

Init ==
    /\ graph \in Graphs
    /\ pc = "entry" /\ outcome = "running"
    /\ ready = {} /\ batch = {}
    /\ completed = {graph.entry}
    /\ ports = [n \in Node |-> {}]
    /\ arrived = [n \in Node |-> {}]
    /\ released = {}
    /\ stopAsked = FALSE /\ stopSeen = FALSE

-----------------------------------------------------------------------------
(* Routing *)

IsMerge(n) == graph.type[n] \in MergeTypes

\* routing_ports_for_state: an empty list of ports counts as no result.
RoutingPortsForState(n, p) ==
    IF p[n] # {} THEN p[n] ELSE PossibleRoutingPorts[graph.type[n]]

\* Wrong variant: a node without a result opens nothing.
LiveByResult(p) == {e \in graph.edges : e.port \in p[e.src]}

\* The edges that may still be taken, judged by the results stored in p.
LiveEdges(p) == {e \in graph.edges : e.port \in RoutingPortsForState(e.src, p)}

ReachableNodesFromEntry(p) == Reach(graph.entry, LiveEdges(p))

PossibleMergeSources(m, p) ==
    ReachableNodesFromEntry(p) \intersect {e.src : e \in {x \in LiveEdges(p) : x.dst = m}}

\* Wrong variant: every edge of a routed node is taken.
TakenAnyPort(srcs, p) == {e \in graph.edges : e.src \in srcs}

\* The edges taken when the nodes of srcs are routed with the ports in p.
Taken(srcs, p) == {e \in graph.edges : e.src \in srcs /\ e.port \in p[e.src]}

Arrivals(taken) ==
    [n \in Node |-> arrived[n] \union
                      {e.src : e \in {x \in taken : x.dst = n /\ IsMerge(n)}}]

\* Wrong variant: mode any waits for every edge drawn.
ReleaseOnAllEdges(m, arr, p) == {e.src : e \in Incoming(graph, m)} \subseteq arr[m]

\* Whether the arrivals in arr release merge m.
MayRelease(m, arr, p) ==
    \/ graph.type[m] = "merge_any" /\ arr[m] # {}
    \/ /\ graph.type[m] = "merge_all"
       /\ LET possible == PossibleMergeSources(m, p)
          IN  possible # {} /\ possible \subseteq arr[m]

\* Wrong variant: a merge is released at every arrival, also after it has run.
RouteAgain(srcs, p, done) ==
    LET taken == Taken(srcs, p)
        arr   == Arrivals(taken)
        open  == {m \in {e.dst : e \in taken} : IsMerge(m) /\ MayRelease(m, arr, p)}
    IN  /\ arrived' = arr
        /\ released' = released \union open
        /\ ready' = ready \union open \union {e.dst : e \in {x \in taken : ~IsMerge(x.dst)}}

\* route_from_node for every node of srcs, p and done being the stored ports
\* and the completed nodes.  Only merges that some edge arrives at are judged.
Route(srcs, p, done) ==
    LET taken == Taken(srcs, p)
        arr   == Arrivals(taken)
        free  == {e.dst : e \in taken} \ (done \union ready)
        open  == {m \in free \ released : IsMerge(m) /\ MayRelease(m, arr, p)}
    IN  /\ arrived' = arr
        /\ released' = released \union open
        /\ ready' = ready \union open \union {n \in free : ~IsMerge(n)}

End(result) == pc' = "ended" /\ outcome' = result

-----------------------------------------------------------------------------
(* The executor *)

\* execute: a stop that is already in the row ends the run at once.
StopBeforeStart ==
    /\ pc = "entry" /\ stopAsked
    /\ stopSeen' = TRUE
    /\ End("stopped")
    /\ UNCHANGED <<graph, ready, batch, completed, ports, arrived, released, stopAsked>>

\* prepare_pipeline_run_start gives up on the context or on a reference of a
\* node (a server or a skill the owner has lost).
PrepareFails ==
    /\ pc = "entry" /\ ~stopAsked
    /\ End("failed")
    /\ UNCHANGED <<graph, ready, batch, completed, ports, arrived, released, stopAsked, stopSeen>>

\* The entry trigger has no result of its own: it is routed through "out".
RouteEntry ==
    /\ pc = "entry" /\ ~stopAsked
    /\ pc' = "head"
    /\ Route({graph.entry}, [ports EXCEPT ![graph.entry] = {"out"}], completed)
    /\ UNCHANGED <<graph, outcome, batch, completed, ports, stopAsked, stopSeen>>

\* while ready_queue: read the stop from the row, then take every ready node.
StartBatch ==
    /\ pc = "head" /\ ready # {} /\ ~stopAsked /\ ~stopSeen
    /\ batch' = ready \ completed
    /\ ready' = {}
    /\ pc' = IF batch' = {} THEN "head" ELSE "batch"
    /\ UNCHANGED <<graph, outcome, completed, ports, arrived, released, stopAsked, stopSeen>>

\* Wrong variant: a stop is noticed without leaving the loop.
StopNoticed ==
    /\ pc = "head" /\ ready # {} /\ (stopAsked \/ stopSeen)
    /\ stopSeen' = TRUE
    /\ UNCHANGED <<graph, pc, outcome, ready, batch, completed, ports, arrived, released, stopAsked>>

StopAtHead ==
    /\ pc = "head" /\ ready # {} /\ (stopAsked \/ stopSeen)
    /\ stopSeen' = TRUE
    /\ End("stopped")
    /\ UNCHANGED <<graph, ready, batch, completed, ports, arrived, released, stopAsked>>

\* The results a batch may end with; halted are the nodes that were stopped.
BatchResults ==
    {r \in [batch -> UNION {ResultRoutingPorts[graph.type[n]] : n \in batch}] :
        \A n \in batch : r[n] \in ResultRoutingPorts[graph.type[n]]}

\* Wrong variant: only a batch that failed as a whole aborts.
AbortsIfAllFail(r) == batch \subseteq graph.abort /\ \A n \in batch : r[n] = {"error"}

\* on_failure=abort: a failed agent or output node fails the run.
Aborts(r) == \E n \in batch \intersect graph.abort : r[n] = {"error"}

\* gather returns: the results are stored, then routed unless the run is to
\* be aborted or stopped.
EndBatch ==
    /\ pc = "batch"
    /\ \E r \in BatchResults, halted \in SUBSET {n \in batch : graph.type[n] \in Interruptible} :
        /\ halted # {} => stopAsked \/ stopSeen
        /\ \A n \in halted : r[n] = {}
        /\ ports' = [n \in Node |-> IF n \in batch THEN r[n] ELSE ports[n]]
        /\ completed' = completed \union batch
        /\ batch' = {}
        /\ stopSeen' = (stopSeen \/ halted # {})
        /\ IF Aborts(r) \/ stopSeen'
           THEN /\ End(IF Aborts(r) THEN "failed" ELSE "stopped")
                /\ UNCHANGED <<arrived, released, ready>>
           ELSE /\ pc' = "head" /\ UNCHANGED outcome
                /\ Route(batch, ports', completed')
    /\ UNCHANGED <<graph, stopAsked>>

\* The queue is empty: the status depends only on what the executor has seen.
Finish ==
    /\ pc = "head" /\ ready = {}
    /\ End(IF stopSeen THEN "stopped" ELSE "completed")
    /\ UNCHANGED <<graph, ready, batch, completed, ports, arrived, released, stopAsked, stopSeen>>

\* The stop of an operator: into the row, and into the executor when it lives
\* in the process that serves the request.
AskStop ==
    /\ outcome = "running" /\ ~stopAsked
    /\ stopAsked' = TRUE
    /\ stopSeen' \in {stopSeen, TRUE}
    /\ UNCHANGED <<graph, pc, outcome, ready, batch, completed, ports, arrived, released>>

Executor == StopBeforeStart \/ PrepareFails \/ RouteEntry \/ StartBatch
              \/ StopAtHead \/ EndBatch \/ Finish

Next == Executor \/ AskStop \/ (pc = "ended" /\ UNCHANGED vars)

Spec     == Init /\ [][Next]_vars
FairSpec == Spec /\ WF_vars(Executor)
-----------------------------------------------------------------------------
(* Properties *)

\* No node runs off the path: every node that was made ready, is running or
\* has run hangs on an edge that was opened by the result of a node that ran.
OnlyOpenedBranches ==
    \A n \in ready \union batch \union completed :
        n = graph.entry \/ \E e \in Incoming(graph, n) :
            /\ e.src \in completed
            /\ e.port \in RoutingPortsForState(e.src, ports)

\* logic/merge in mode all waits for every branch that may reach it: once it
\* is released, no further source ever arrives (so none was overtaken).
AllMergeWaits ==
    [][\A m \in released : graph.type[m] = "merge_all" => arrived'[m] = arrived[m]]_vars

\* A run is completed only when everything its results opened has run; the
\* one thing that may be left behind is a merge in mode all, one of whose
\* edges nothing arrived by.
NothingElseSkipped ==
    outcome = "completed" =>
        \A e \in graph.edges :
            /\ e.src \in completed
            /\ e.src = graph.entry \/ e.port \in ports[e.src]
            => \/ e.dst \in completed
               \/ /\ graph.type[e.dst] = "merge_all"
                  /\ \E x \in Incoming(graph, e.dst) : x.src \notin arrived[e.dst]

\* on_failure=abort: no run is completed, or goes on routing, after an agent
\* or output node with that setting has failed.
AbortIsFinal ==
    (\E n \in graph.abort : ports[n] = {"error"}) => outcome = "failed"

\* The loop ends whatever the graph and the results: each turn runs a node
\* that has not run yet, or ends the run.
EveryRunEnds == <>(pc = "ended")

\* docs/PIPELINE_NODES_SPEC.md says of mode all that it waits only for the
\* possible active branches: a completed run leaves no merge behind when all
\* the sources that could still reach it have arrived.
NoStrandedMerge ==
    outcome = "completed" =>
        \A m \in Node : graph.type[m] = "merge_all" /\ arrived[m] # {}
                          => \/ m \in completed
                             \/ ~(PossibleMergeSources(m, ports) \subseteq arrived[m])
=============================================================================
