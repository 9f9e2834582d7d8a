----------------------- MODULE PipelineRoutingProofs -----------------------
(***************************************************************************)
(* Proofs about PipelineRouting for every set of valid pipelines: the      *)
(* router keeps to the branches that the results opened, a merge in mode   *)
(* all overtakes no branch, nothing but such a merge is left behind, and a *)
(* failed node with on_failure=abort fails the run.                        *)
(*                                                                         *)
(* The graph may be of any size; that it is acyclic is not used.           *)
(***************************************************************************)
EXTENDS PipelineRouting, TLAPS

-----------------------------------------------------------------------------
(* The tables of ports *)

\* Every node type has a set of ports.
LEMMA PossibleType == \A t \in NodeTypes : PossibleRoutingPorts[t] \subseteq Ports
  BY DEF Ports

\* Whatever the result of a node, it opens no other ports than those the
\* router took for possible before.
LEMMA ResultsArePossible ==
  \A t \in NodeTypes : \A R \in ResultRoutingPorts[t] : R \subseteq PossibleRoutingPorts[t]
<1> SUFFICES ASSUME NEW t \in NodeTypes
             PROVE  \A R \in ResultRoutingPorts[t] : R \subseteq PossibleRoutingPorts[t]
  OBVIOUS
<1>1. t \in {"trigger", "condition", "parallel", "merge_all", "merge_any", "wait",
             "approval", "input", "action", "plugin"}
  BY DEF NodeTypes, PossibleRoutingPorts
<1> QED
  BY <1>1 DEF PossibleRoutingPorts, ResultRoutingPorts

\* A trigger has the one port it is routed through.
LEMMA TriggerPort == PossibleRoutingPorts["trigger"] = {"out"}
  BY DEF PossibleRoutingPorts

\* What ValidGraph says of the parts of a graph.
LEMMA GraphParts ==
  ASSUME NEW g \in Graphs
  PROVE  /\ g \in Graph
         /\ g.entry \in Node
         /\ g.type \in [Node -> NodeTypes]
         /\ g.type[g.entry] = "trigger"
         /\ \A e \in g.edges : e \in Edge /\ e.src \in Node /\ e.dst \in Node /\ e.port \in Ports
         /\ \A n \in Node : g.type[n] \in MergeTypes => Incoming(g, n) # {}
         /\ \A n \in g.abort : n \in Node /\ g.type[n] = "action"
  BY GraphsAssumption DEF ValidGraph, Graph, Edge

-----------------------------------------------------------------------------
(* Reachability *)

\* More edges reach more nodes.
LEMMA ReachMonotone ==
  ASSUME NEW n0, NEW E, NEW F, E \subseteq F
  PROVE  Reach(n0, E) \subseteq Reach(n0, F)
  BY DEF Reach, Closed

\* The entry is reached, and so is the target of an edge whose source is.
LEMMA ReachClosed ==
  ASSUME NEW n0 \in Node, NEW E, \A e \in E : e.dst \in Node
  PROVE  Closed(Reach(n0, E), n0, E)
  BY DEF Reach, Closed

-----------------------------------------------------------------------------
(* The inductive invariant *)

\* The edges that led on from a completed node.
Fired(done, p) == {e \in graph.edges : e.src \in done /\ e.port \in RoutingPortsForState(e.src, p)}

\* Ports are stored for completed nodes only, and are among the possible ones.
PortsKnown ==
  /\ graph.entry \in completed
  /\ ports[graph.entry] = {}
  /\ \A n \in Node : ports[n] \subseteq PossibleRoutingPorts[graph.type[n]]
  /\ \A n \in Node : ports[n] # {} => n \in completed

\* Everything made ready is reached from the entry through fired edges.
OnPath(active, done, p) == active \union ready \subseteq Reach(graph.entry, Fired(done, p))

\* A released merge in mode all has an arrival of every source that may come.
Waited(p) ==
  \A m \in released : graph.type[m] = "merge_all" => PossibleMergeSources(m, p) \subseteq arrived[m]

\* The target of an edge that was opened is queued, or has run, or is a merge
\* in mode all that misses an arrival.
Served(S, done) ==
  \A e \in S :
    \/ e.dst \in done \union ready
    \/ /\ graph.type[e.dst] = "merge_all"
       /\ \E x \in Incoming(graph, e.dst) : x.src \notin arrived[e.dst]

\* Whether edge e was opened, with the ports in p.
Opened(e, p) == e.src = graph.entry \/ e.port \in p[e.src]

OpenedEdges(done, p) == {e \in graph.edges : e.src \in done /\ Opened(e, p)}

Phases ==
  /\ pc = "entry" => ready = {} /\ released = {} /\ completed = {graph.entry}
  /\ pc = "batch" => ready = {}
  /\ pc = "ended" <=> outcome # "running"
  /\ outcome = "completed" => ready = {} /\ batch = {}

RoutingInv ==
  /\ graph \in Graphs
  /\ TypeOK
  /\ Phases
  /\ PortsKnown
  /\ OnPath(completed \union batch, completed, ports)
  /\ Waited(ports)
  /\ released \subseteq completed \union batch \union ready
  /\ pc \in {"head", "batch"} \/ outcome = "completed"
       => Served(OpenedEdges(completed, ports), completed \union batch)
  /\ OnlyOpenedBranches
  /\ AbortIsFinal

-----------------------------------------------------------------------------
(* What routing does *)

\* The conditions under which the nodes of srcs are routed: the completed
\* nodes are done, their ports are in p, and what has been routed before is
\* in order.
RoutingReady(srcs, p, done) ==
  /\ graph \in Graphs
  /\ srcs \subseteq done /\ done \subseteq Node
  /\ p \in [Node -> SUBSET Ports]
  /\ ready \subseteq Node /\ ready \intersect done = {}
  /\ arrived \in [Node -> SUBSET Node]
  /\ released \subseteq Node
  /\ OnPath(done, done, p)
  /\ Waited(p)
  /\ released \subseteq done \union ready
  /\ Served({e \in OpenedEdges(done, p) : e.src \notin srcs}, done)

\* An edge that is taken is fired, and may still be taken.
LEMMA TakenIsFired ==
  ASSUME NEW srcs, NEW p, NEW done, RoutingReady(srcs, p, done),
         NEW e \in Taken(srcs, p)
  PROVE  /\ e \in graph.edges
         /\ e.src \in done /\ e.src \in srcs
         /\ e.src \in Node /\ e.dst \in Node
         /\ e \in Fired(done, p)
         /\ e \in LiveEdges(p)
         /\ e.src \in Reach(graph.entry, Fired(done, p))
         /\ e.src \in ReachableNodesFromEntry(p)
         /\ e.dst \in Reach(graph.entry, Fired(done, p))
         /\ e.src \in PossibleMergeSources(e.dst, p)
<1> USE DEF RoutingReady
<1>1. e \in graph.edges /\ e.src \in srcs /\ e.port \in p[e.src] /\ e.src \in done
  BY DEF Taken
<1>2. e.src \in Node /\ e.dst \in Node
  BY <1>1, GraphParts
<1>3. e.port \in RoutingPortsForState(e.src, p)
  BY <1>1 DEF RoutingPortsForState
<1>4. e \in Fired(done, p) /\ e \in LiveEdges(p)
  BY <1>1, <1>3 DEF Fired, LiveEdges
<1>5. e.src \in Reach(graph.entry, Fired(done, p))
  BY <1>1 DEF OnPath
<1>6. Fired(done, p) \subseteq LiveEdges(p)
  BY DEF Fired, LiveEdges
<1>7. e.src \in ReachableNodesFromEntry(p)
  BY <1>5, <1>6, ReachMonotone DEF ReachableNodesFromEntry
<1>8. graph.entry \in Node /\ \A f \in Fired(done, p) : f.dst \in Node
  BY GraphParts DEF Fired
<1>9. e.dst \in Reach(graph.entry, Fired(done, p))
  BY <1>4, <1>5, <1>8, ReachClosed DEF Closed
<1>10. e.src \in PossibleMergeSources(e.dst, p)
  BY <1>4, <1>7 DEF PossibleMergeSources
<1> QED
  BY <1>1, <1>2, <1>4, <1>5, <1>7, <1>9, <1>10

\* The variables after routing have their types, and what was ready stays so.
LEMMA RouteTypes ==
  ASSUME NEW srcs, NEW p, NEW done, RoutingReady(srcs, p, done), Route(srcs, p, done)
  PROVE  /\ arrived' \in [Node -> SUBSET Node]
         /\ released' \subseteq Node
         /\ ready' \subseteq Node
         /\ ready' \intersect done = {}
         /\ ready \subseteq ready'
         /\ released \subseteq released'
         /\ released' \subseteq done \union ready'
         /\ \A n \in Node : arrived[n] \subseteq arrived'[n]
<1>1. \A e \in Taken(srcs, p) : e.src \in Node /\ e.dst \in Node
  BY TakenIsFired
<1>2. Arrivals(Taken(srcs, p)) \in [Node -> SUBSET Node]
  BY <1>1 DEF Arrivals, RoutingReady
<1>3. \A n \in Node : arrived[n] \subseteq Arrivals(Taken(srcs, p))[n]
  BY DEF Arrivals
<1> QED
  BY <1>1, <1>2, <1>3 DEF Route, RoutingReady

\* What routing makes ready was opened by a node that is routed.
LEMMA RouteOpens ==
  ASSUME NEW srcs, NEW p, NEW done, RoutingReady(srcs, p, done), Route(srcs, p, done),
         NEW n \in ready' \ ready
  PROVE  /\ n \in Reach(graph.entry, Fired(done, p))
         /\ \E e \in Incoming(graph, n) : e.src \in done /\ e.port \in RoutingPortsForState(e.src, p)
<1>1. PICK e \in Taken(srcs, p) : e.dst = n
  BY DEF Route
<1>2. e \in Fired(done, p) /\ e \in Incoming(graph, n)
  BY <1>1, TakenIsFired DEF Incoming
<1> QED
  BY <1>1, <1>2, TakenIsFired DEF Fired

\* Every arrival at a released merge in mode all was there already.
LEMMA RouteWaits ==
  ASSUME NEW srcs, NEW p, NEW done, RoutingReady(srcs, p, done), Route(srcs, p, done),
         NEW m \in released, graph.type[m] = "merge_all"
  PROVE  arrived'[m] = arrived[m]
<1>1. m \in Node
  BY DEF RoutingReady
<1>2. arrived'[m] = arrived[m] \union {e.src : e \in {x \in Taken(srcs, p) : x.dst = m /\ IsMerge(m)}}
  BY <1>1 DEF Route, Arrivals
<1>3. \A e \in Taken(srcs, p) : e.dst = m => e.src \in arrived[m]
  BY TakenIsFired DEF RoutingReady, Waited
<1> QED
  BY <1>2, <1>3

\* A merge in mode all is released when all its possible sources have arrived.
LEMMA RouteReleases ==
  ASSUME NEW srcs, NEW p, NEW done, RoutingReady(srcs, p, done), Route(srcs, p, done),
         NEW m \in released', graph.type[m] = "merge_all"
  PROVE  PossibleMergeSources(m, p) \subseteq arrived'[m]
<1>1. CASE m \in released
  BY <1>1, RouteWaits DEF RoutingReady, Waited
<1>2. CASE m \notin released
  BY <1>2 DEF Route, MayRelease
<1> QED
  BY <1>1, <1>2

\* Every opened edge is served after routing.
LEMMA RouteServes ==
  ASSUME NEW srcs, NEW p, NEW done, RoutingReady(srcs, p, done), Route(srcs, p, done),
         NEW e \in OpenedEdges(done, p), e.src \in srcs => e.port \in p[e.src]
  PROVE  \/ e.dst \in done \union ready'
         \/ /\ graph.type[e.dst] = "merge_all"
            /\ \E x \in Incoming(graph, e.dst) : x.src \notin arrived'[e.dst]
<1> DEFINE m == e.dst
<1>1. e \in graph.edges /\ e.src \in done /\ m \in Node /\ graph.type[m] \in NodeTypes
  BY GraphParts DEF OpenedEdges, RoutingReady
<1> SUFFICES ASSUME m \notin done \union ready'
             PROVE  /\ graph.type[m] = "merge_all"
                    /\ \E x \in Incoming(graph, m) : x.src \notin arrived'[m]
  OBVIOUS
<1>2. m \notin done /\ m \notin ready /\ m \notin released
  BY RouteTypes DEF RoutingReady
<1>3. CASE \E t \in Taken(srcs, p) : t.dst = m
  <2>1. PICK t \in Taken(srcs, p) : t.dst = m
    BY <1>3
  <2>2. IsMerge(m)
    BY <1>2, <2>1 DEF Route
  <2>3. ~MayRelease(m, arrived', p)
    BY <1>2, <2>1, <2>2 DEF Route
  <2>4. t.src \in PossibleMergeSources(m, p) /\ t.src \in Node
    BY <2>1, TakenIsFired
  <2>5. t.src \in arrived'[m]
    BY <1>1, <2>1, <2>2, <2>4 DEF Route, Arrivals
  <2>6. graph.type[m] = "merge_all"
    BY <2>2, <2>3, <2>5 DEF IsMerge, MergeTypes, MayRelease
  <2>7. PICK s \in PossibleMergeSources(m, p) : s \notin arrived'[m]
    BY <2>3, <2>4, <2>6 DEF MayRelease
  <2>8. \E x \in Incoming(graph, m) : x.src = s
    BY <2>7 DEF PossibleMergeSources, LiveEdges, Incoming
  <2> QED
    BY <2>6, <2>7, <2>8
<1>4. CASE ~\E t \in Taken(srcs, p) : t.dst = m
  <2>1. arrived'[m] = arrived[m]
    BY <1>1, <1>4 DEF Route, Arrivals
  <2>2. e \notin Taken(srcs, p)
    BY <1>4
  <2>3. e.src \notin srcs
    BY <1>1, <2>2 DEF Taken
  <2>4. \/ m \in done \union ready
        \/ /\ graph.type[m] = "merge_all"
           /\ \E x \in Incoming(graph, m) : x.src \notin arrived[m]
    BY <2>3 DEF RoutingReady, Served
  <2> QED
    BY <1>2, <2>1, <2>4
<1> QED
  BY <1>3, <1>4

-----------------------------------------------------------------------------
(* The invariant holds initially and is kept by every step *)

LEMMA RoutingInit == Init => RoutingInv
<1> SUFFICES ASSUME Init PROVE RoutingInv
  OBVIOUS
<1>1. graph.entry \in Node /\ graph.type \in [Node -> NodeTypes]
  BY GraphParts DEF Init
<1>2. TypeOK
  <2>1. graph \in Graphs /\ completed = {graph.entry} /\ pc = "entry" /\ batch = {} /\ ready = {}
    BY DEF Init
  <2>2. ports \in [Node -> SUBSET Ports] /\ arrived \in [Node -> SUBSET Node]
    BY DEF Init
  <2> QED
    BY <1>1, <2>1, <2>2, GraphParts DEF Init, TypeOK
<1>21. Phases
  BY DEF Init, Phases
<1>3. PortsKnown
  BY <1>1, PossibleType DEF Init, PortsKnown
<1>4. \A e \in Fired(completed, ports) : e.dst \in Node
  BY GraphParts DEF Fired, Init
<1>5. OnPath(completed \union batch, completed, ports)
  BY <1>1, <1>4, ReachClosed DEF Init, OnPath, Closed
<1>6. AbortIsFinal
  BY GraphParts DEF Init, AbortIsFinal
<1> QED
  BY <1>2, <1>21, <1>3, <1>5, <1>6 DEF RoutingInv, Init, Waited, OnlyOpenedBranches

\* The entry is routed as if it had no result.
LEMMA EntryRouted == RoutingInv /\ RouteEntry => RoutingInv'
<1> SUFFICES ASSUME RoutingInv, RouteEntry PROVE RoutingInv'
  OBVIOUS
<1> DEFINE p == [ports EXCEPT ![graph.entry] = {"out"}]
           srcs == {graph.entry}
<1>1. /\ graph \in Graphs /\ completed = srcs /\ ready = {} /\ released = {} /\ batch = {}
      /\ pc = "entry" /\ pc' = "head" /\ outcome = "running"
      /\ graph.entry \in Node /\ graph.type[graph.entry] = "trigger"
      /\ ports[graph.entry] = {} /\ ports \in [Node -> SUBSET Ports]
      /\ graph' = graph /\ outcome' = outcome /\ batch' = batch /\ completed' = completed
      /\ ports' = ports /\ stopAsked' = stopAsked /\ stopSeen' = stopSeen
      /\ Route(srcs, p, completed)
  <2>1. graph \in Graphs /\ pc = "entry" /\ ports \in [Node -> SUBSET Ports]
    <3>1. TypeOK /\ graph \in Graphs
      BY DEF RoutingInv
    <3>2. pc = "entry"
      BY DEF RouteEntry
    <3> QED
      BY <3>1, <3>2 DEF TypeOK
  <2>2. batch = {}
    BY <2>1 DEF RoutingInv, TypeOK
  <2>3. /\ completed = srcs /\ ready = {} /\ released = {} /\ outcome = "running"
        /\ ports[graph.entry] = {}
    BY <2>1 DEF RoutingInv, Phases, PortsKnown
  <2>4. graph.entry \in Node /\ graph.type[graph.entry] = "trigger"
    BY <2>1, GraphParts
  <2>5. Route(srcs, p, completed)
    BY DEF RouteEntry
  <2> HIDE DEF p
  <2> QED
    BY <2>1, <2>2, <2>3, <2>4, <2>5 DEF RouteEntry
<1>2. "out" \in Ports /\ "trigger" \in NodeTypes
  BY <1>1, GraphParts, TriggerPort, PossibleType
<1>3. p \in [Node -> SUBSET Ports]
  BY <1>1, <1>2
<1>4. \A n \in Node : RoutingPortsForState(n, p) = RoutingPortsForState(n, ports)
  BY <1>1, TriggerPort DEF RoutingPortsForState
<1>5. /\ \A done : Fired(done, p) = Fired(done, ports)
      /\ LiveEdges(p) = LiveEdges(ports)
  BY <1>1, <1>4, GraphParts DEF Fired, LiveEdges
<1>6. \A m : PossibleMergeSources(m, p) = PossibleMergeSources(m, ports)
  BY <1>5 DEF PossibleMergeSources, ReachableNodesFromEntry
<1>7. RoutingReady(srcs, p, completed)
  <2>1. OnPath(completed, completed, p)
    BY <1>1, <1>5 DEF RoutingInv, OnPath
  <2>2. Served({e \in OpenedEdges(completed, p) : e.src \notin srcs}, completed)
    BY <1>1 DEF Served, OpenedEdges
  <2> QED
    BY <1>1, <1>3, <2>1, <2>2 DEF RoutingReady, RoutingInv, TypeOK, Waited
<1> HIDE DEF p
<1>8. TypeOK'
  BY <1>1, <1>7, RouteTypes DEF RoutingInv, TypeOK
<1>9. Phases' /\ PortsKnown' /\ AbortIsFinal'
  BY <1>1 DEF RoutingInv, Phases, PortsKnown, AbortIsFinal
<1>10. OnPath(completed \union batch, completed, ports)'
  <2>1. \A n \in ready' : n \in Reach(graph.entry, Fired(completed, p))
    BY <1>1, <1>7, RouteOpens
  <2>2. Fired(completed, ports)' = Fired(completed, ports)
    BY <1>1 DEF Fired, RoutingPortsForState
  <2>3. completed \union batch \subseteq Reach(graph.entry, Fired(completed, ports))
    BY DEF RoutingInv, OnPath
  <2> QED
    BY <1>1, <1>5, <2>1, <2>2, <2>3 DEF OnPath
<1>11. Waited(ports)'
  <2>1. \A m : PossibleMergeSources(m, ports)' = PossibleMergeSources(m, ports)
    BY <1>1 DEF PossibleMergeSources, ReachableNodesFromEntry, LiveEdges, RoutingPortsForState
  <2> QED
    BY <1>1, <1>6, <1>7, <2>1, RouteReleases DEF Waited
<1>12. (released \subseteq completed \union batch \union ready)'
  BY <1>1, <1>7, RouteTypes
<1>13. Served(OpenedEdges(completed, ports), completed \union batch)'
  <2>1. \A e \in OpenedEdges(completed, p) : e.src \in srcs => e.port \in p[e.src]
    <3> SUFFICES ASSUME NEW e \in OpenedEdges(completed, p)
                 PROVE  e.port \in p[e.src]
      OBVIOUS
    <3>1. e \in graph.edges /\ e.src = graph.entry
      BY <1>1 DEF OpenedEdges
    <3>2. e.port \in PossibleRoutingPorts[graph.type[e.src]]
      BY <1>1, <3>1, GraphsAssumption DEF ValidGraph
    <3> QED
      BY <1>1, <3>1, <3>2, TriggerPort DEF p
  <2>2. \A e \in OpenedEdges(completed, ports)' : e \in OpenedEdges(completed, p)
    BY <1>1 DEF OpenedEdges, Opened
  <2>3. \A e \in OpenedEdges(completed, ports)' :
            \/ e.dst \in completed \union ready'
            \/ /\ graph.type[e.dst] = "merge_all"
               /\ \E x \in Incoming(graph, e.dst) : x.src \notin arrived'[e.dst]
    BY <1>1, <1>7, <2>1, <2>2, RouteServes
  <2> QED
    BY <1>1, <2>3 DEF Served
<1>14. OnlyOpenedBranches'
  <2>1. \A n \in ready' : \E e \in Incoming(graph, n) :
            e.src \in completed /\ e.port \in RoutingPortsForState(e.src, p)
    BY <1>1, <1>7, RouteOpens
  <2>2. \A n \in ready' : \A e \in Incoming(graph, n) :
            RoutingPortsForState(e.src, p) = RoutingPortsForState(e.src, ports)'
    BY <1>1, <1>4, GraphParts DEF RoutingPortsForState, Incoming
  <2> QED
    BY <1>1, <2>1, <2>2 DEF OnlyOpenedBranches, Incoming
<1> QED
  BY <1>1, <1>8, <1>9, <1>10, <1>11, <1>12, <1>13, <1>14 DEF RoutingInv

\* What the end of a batch does apart from routing.
LEMMA BatchEnds ==
  ASSUME RoutingInv, EndBatch
  PROVE  /\ graph' = graph /\ graph \in Graphs
         /\ stopAsked' = stopAsked /\ stopSeen' \in BOOLEAN
         /\ ready = {} /\ outcome = "running" /\ batch' = {}
         /\ completed' = completed \union batch
         /\ batch \subseteq Node /\ completed' \subseteq Node /\ batch \intersect completed = {}
         /\ ports' \in [Node -> SUBSET Ports]
         /\ \A n \in Node \ batch : ports'[n] = ports[n]
         /\ \A n \in Node : ports'[n] \subseteq PossibleRoutingPorts[graph.type[n]]
         /\ (\E n \in batch \intersect graph.abort : ports'[n] = {"error"}) => outcome' = "failed"
         /\ \/ /\ pc' = "ended" /\ outcome' \in {"failed", "stopped"}
               /\ UNCHANGED <<arrived, released, ready>>
            \/ /\ pc' = "head" /\ outcome' = outcome
               /\ Route(batch, ports', completed')
<1>1. /\ graph \in Graphs /\ TypeOK /\ Phases /\ PortsKnown /\ pc = "batch"
  BY DEF RoutingInv, EndBatch
<1>2. /\ graph \in Graphs /\ ready = {} /\ outcome = "running"
      /\ batch \subseteq Node /\ completed \subseteq Node /\ batch \intersect completed = {}
      /\ ports \in [Node -> SUBSET Ports] /\ stopSeen \in BOOLEAN
  BY <1>1 DEF TypeOK, Phases
<1>3. PICK r \in BatchResults, halted \in SUBSET {n \in batch : graph.type[n] \in Interruptible} :
        /\ ports' = [n \in Node |-> IF n \in batch THEN r[n] ELSE ports[n]]
        /\ completed' = completed \union batch
        /\ batch' = {}
        /\ stopSeen' = (stopSeen \/ halted # {})
        /\ IF Aborts(r) \/ stopSeen'
           THEN /\ End(IF Aborts(r) THEN "failed" ELSE "stopped")
                /\ UNCHANGED <<arrived, released, ready>>
           ELSE /\ pc' = "head" /\ UNCHANGED outcome
                /\ Route(batch, ports', completed')
  BY DEF EndBatch
<1>4. graph' = graph /\ stopAsked' = stopAsked
  BY DEF EndBatch
<1>5. \A n \in batch : r[n] \subseteq PossibleRoutingPorts[graph.type[n]]
  BY <1>2, GraphParts, ResultsArePossible DEF BatchResults
<1>6. \A n \in Node : PossibleRoutingPorts[graph.type[n]] \subseteq Ports
  BY <1>2, GraphParts, PossibleType
<1>7. /\ ports' \in [Node -> SUBSET Ports]
      /\ \A n \in Node \ batch : ports'[n] = ports[n]
      /\ \A n \in Node : ports'[n] \subseteq PossibleRoutingPorts[graph.type[n]]
      /\ \A n \in batch : ports'[n] = r[n]
  BY <1>1, <1>2, <1>3, <1>5, <1>6 DEF PortsKnown
<1>8. (\E n \in batch \intersect graph.abort : ports'[n] = {"error"}) => outcome' = "failed"
  BY <1>3, <1>7 DEF Aborts, End
<1>9. \/ /\ pc' = "ended" /\ outcome' \in {"failed", "stopped"}
         /\ UNCHANGED <<arrived, released, ready>>
      \/ /\ pc' = "head" /\ outcome' = outcome
         /\ Route(batch, ports', completed')
  BY <1>3 DEF End
<1>10. stopSeen' \in BOOLEAN
  BY <1>3
<1> QED
  BY <1>2, <1>3, <1>4, <1>7, <1>8, <1>9, <1>10

\* A result closes edges and opens none: what may still be taken shrinks, and
\* what led to the nodes that have run stays.
LEMMA ResultsNarrow ==
  ASSUME RoutingInv, EndBatch
  PROVE  /\ \A n \in Node \ batch : RoutingPortsForState(n, ports') = RoutingPortsForState(n, ports)
         /\ Fired(completed, ports) \subseteq Fired(completed', ports')
         /\ \A m : PossibleMergeSources(m, ports') \subseteq PossibleMergeSources(m, ports)
<1>1. /\ graph \in Graphs /\ completed' = completed \union batch
      /\ batch \intersect completed = {}
      /\ \A n \in Node \ batch : ports'[n] = ports[n]
      /\ \A n \in Node : ports'[n] \subseteq PossibleRoutingPorts[graph.type[n]]
  BY BatchEnds
<1>2. \A n \in batch : ports[n] = {}
  BY <1>1, BatchEnds DEF RoutingInv, PortsKnown
<1>3. \A n \in Node \ batch : RoutingPortsForState(n, ports') = RoutingPortsForState(n, ports)
  BY <1>1 DEF RoutingPortsForState
<1>4. \A n \in batch : RoutingPortsForState(n, ports') \subseteq RoutingPortsForState(n, ports)
  BY <1>1, <1>2, BatchEnds DEF RoutingPortsForState
<1>5. \A e \in graph.edges : e.src \in Node
  BY <1>1, GraphParts
<1>6. Fired(completed, ports) \subseteq Fired(completed', ports')
  BY <1>1, <1>3, <1>5 DEF Fired
<1>7. LiveEdges(ports') \subseteq LiveEdges(ports)
  BY <1>3, <1>4, <1>5 DEF LiveEdges
<1>8. ReachableNodesFromEntry(ports') \subseteq ReachableNodesFromEntry(ports)
  BY <1>7, ReachMonotone DEF ReachableNodesFromEntry
<1>9. \A m : PossibleMergeSources(m, ports') \subseteq PossibleMergeSources(m, ports)
  BY <1>7, <1>8 DEF PossibleMergeSources
<1> QED
  BY <1>3, <1>6, <1>9

\* A batch that has ended may be routed.
LEMMA BatchReady ==
  ASSUME RoutingInv, EndBatch
  PROVE  RoutingReady(batch, ports', completed')
<1>1. OnPath(completed', completed', ports')
  BY BatchEnds, ResultsNarrow, ReachMonotone DEF RoutingInv, OnPath
<1>2. Waited(ports')
  BY ResultsNarrow DEF RoutingInv, Waited
<1>3. graph.entry \in completed /\ pc = "batch"
  BY DEF RoutingInv, PortsKnown, EndBatch
<1>4. Served(OpenedEdges(completed, ports), completed \union batch)
  BY <1>3 DEF RoutingInv
<1>5. {e \in OpenedEdges(completed', ports') : e.src \notin batch} \subseteq OpenedEdges(completed, ports)
  <2> SUFFICES ASSUME NEW e \in OpenedEdges(completed', ports'), e.src \notin batch
               PROVE  e \in OpenedEdges(completed, ports)
    OBVIOUS
  <2>1. e \in graph.edges /\ e.src \in completed /\ e.src \in Node
    BY BatchEnds, GraphParts DEF OpenedEdges
  <2>2. ports'[e.src] = ports[e.src]
    BY <2>1, BatchEnds
  <2> QED
    BY <2>1, <2>2 DEF OpenedEdges, Opened
<1>6. Served({e \in OpenedEdges(completed', ports') : e.src \notin batch}, completed')
  BY <1>4, <1>5, BatchEnds DEF Served
<1>7. /\ arrived \in [Node -> SUBSET Node] /\ released \subseteq Node
      /\ released \subseteq completed \union batch \union ready
  BY DEF RoutingInv, TypeOK
<1> QED
  BY <1>1, <1>2, <1>6, <1>7, BatchEnds DEF RoutingReady

\* The end of a batch keeps the invariant.
LEMMA BatchKept == RoutingInv /\ EndBatch => RoutingInv'
<1> SUFFICES ASSUME RoutingInv, EndBatch PROVE RoutingInv'
  OBVIOUS
<1> DEFINE Routed == pc' = "head" /\ outcome' = outcome /\ Route(batch, ports', completed')
           Ended == /\ pc' = "ended" /\ outcome' \in {"failed", "stopped"}
                    /\ UNCHANGED <<arrived, released, ready>>
<1>1. Routed \/ Ended
  BY BatchEnds
<1>2. RoutingReady(batch, ports', completed')
  BY BatchReady
<1>3. /\ graph' = graph /\ graph \in Graphs /\ batch' = {} /\ ready = {}
      /\ completed' = completed \union batch
      /\ outcome = "running" /\ graph.entry \in completed /\ ports[graph.entry] = {}
  BY BatchEnds DEF RoutingInv, PortsKnown
<1>4. TypeOK'
  <2>1. /\ arrived' \in [Node -> SUBSET Node] /\ released' \subseteq Node
        /\ ready' \subseteq Node /\ ready' \intersect completed' = {}
    BY <1>1, <1>2, <1>3, RouteTypes DEF RoutingReady
  <2>2. stopAsked' \in BOOLEAN /\ stopSeen' \in BOOLEAN
    BY BatchEnds DEF RoutingInv, TypeOK
  <2>3. /\ pc' \in {"head", "ended"} /\ outcome' \in {"running", "failed", "stopped"}
    BY <1>1, <1>3
  <2> QED
    BY <1>3, <2>1, <2>2, <2>3, BatchEnds, GraphParts DEF TypeOK
<1>5. Phases'
  BY <1>1, <1>3 DEF Phases
<1>6. PortsKnown'
  <2>1. graph.entry \in Node \ batch
    BY <1>3, BatchEnds, GraphParts
  <2>2. \A n \in Node : ports'[n] # {} => n \in completed'
    BY <1>3, BatchEnds DEF RoutingInv, PortsKnown
  <2> QED
    BY <1>3, <2>1, <2>2, BatchEnds DEF PortsKnown
<1>7. Fired(completed, ports)' = Fired(completed', ports')
  BY <1>3 DEF Fired, RoutingPortsForState
<1>8. OnPath(completed \union batch, completed, ports)'
  <2>1. \A n \in ready' : n \in Reach(graph.entry, Fired(completed', ports'))
    BY <1>1, <1>2, <1>3, RouteOpens
  <2>2. completed' \subseteq Reach(graph.entry, Fired(completed', ports'))
    BY <1>2 DEF RoutingReady, OnPath
  <2> QED
    BY <1>3, <1>7, <2>1, <2>2 DEF OnPath
<1>9. Waited(ports)'
  <2>1. \A m : PossibleMergeSources(m, ports)' = PossibleMergeSources(m, ports')
    BY <1>3 DEF PossibleMergeSources, ReachableNodesFromEntry, LiveEdges, RoutingPortsForState
  <2>2. \A m \in released' : graph.type[m] = "merge_all"
             => PossibleMergeSources(m, ports') \subseteq arrived'[m]
    BY <1>1, <1>2, RouteReleases DEF RoutingReady, Waited
  <2> QED
    BY <1>3, <2>1, <2>2 DEF Waited
<1>10. (released \subseteq completed \union batch \union ready)'
  <2>1. released' \subseteq completed' \union ready'
    BY <1>1, <1>2, RouteTypes DEF RoutingReady
  <2> QED
    BY <2>1
<1>11. ASSUME pc' \in {"head", "batch"} \/ outcome' = "completed"
       PROVE  Served(OpenedEdges(completed, ports), completed \union batch)'
  <2>1. Routed
    BY <1>1, <1>11
  <2>2. \A e \in OpenedEdges(completed', ports') : e.src \in batch => e.port \in ports'[e.src]
    BY <1>3, BatchEnds DEF OpenedEdges, Opened
  <2>3. \A e \in OpenedEdges(completed, ports)' : e \in OpenedEdges(completed', ports')
    BY <1>3 DEF OpenedEdges, Opened
  <2>4. \A e \in OpenedEdges(completed, ports)' :
            \/ e.dst \in completed' \union ready'
            \/ /\ graph.type[e.dst] = "merge_all"
               /\ \E x \in Incoming(graph, e.dst) : x.src \notin arrived'[e.dst]
    BY <1>2, <2>1, <2>2, <2>3, RouteServes
  <2> QED
    BY <1>3, <2>4 DEF Served
<1>12. OnlyOpenedBranches'
  <2>1. \A n \in ready' : \E e \in Incoming(graph, n) :
            e.src \in completed' /\ e.port \in RoutingPortsForState(e.src, ports')
    BY <1>1, <1>2, <1>3, RouteOpens
  <2>2. \A n \in completed' : n = graph.entry \/ \E e \in Incoming(graph, n) :
            e.src \in completed' /\ e.port \in RoutingPortsForState(e.src, ports')
    <3> SUFFICES ASSUME NEW n \in completed', n # graph.entry
                 PROVE  \E e \in Incoming(graph, n) :
                           e.src \in completed' /\ e.port \in RoutingPortsForState(e.src, ports')
      OBVIOUS
    <3>1. PICK e \in Incoming(graph, n) :
              e.src \in completed /\ e.port \in RoutingPortsForState(e.src, ports)
      BY <1>3 DEF RoutingInv, OnlyOpenedBranches
    <3>2. e.src \in Node \ batch
      BY <1>3, <3>1, BatchEnds, GraphParts DEF Incoming
    <3> QED
      BY <1>3, <3>1, <3>2, ResultsNarrow
  <2>3. \A n : RoutingPortsForState(n, ports)' = RoutingPortsForState(n, ports')
    BY <1>3 DEF RoutingPortsForState
  <2> QED
    BY <1>3, <2>1, <2>2, <2>3 DEF OnlyOpenedBranches, Incoming
<1>13. AbortIsFinal'
  <2> SUFFICES ASSUME NEW n \in graph.abort, ports'[n] = {"error"}
               PROVE  outcome' = "failed"
    BY <1>3 DEF AbortIsFinal
  <2>1. n \in Node
    BY <1>3, GraphParts
  <2>2. CASE n \in batch
    BY <2>2, BatchEnds
  <2>3. CASE n \notin batch
    BY <1>3, <2>1, <2>3, BatchEnds DEF RoutingInv, AbortIsFinal
  <2> QED
    BY <2>2, <2>3
<1> QED
  BY <1>3, <1>4, <1>5, <1>6, <1>8, <1>9, <1>10, <1>11, <1>12, <1>13 DEF RoutingInv

\* A step that leaves what has been routed alone.
LEMMA RoutingFrame ==
  ASSUME RoutingInv, TypeOK', Phases',
         UNCHANGED <<graph, completed, ports, arrived, released>>,
         ready' \union batch' = ready \union batch,
         pc' \in {"head", "batch"} \/ outcome' = "completed" 
           => pc \in {"head", "batch"} \/ outcome = "completed",
         outcome' = outcome \/ outcome = "running"
  PROVE  RoutingInv'
<1>1. \A n : RoutingPortsForState(n, ports)' = RoutingPortsForState(n, ports)
  BY DEF RoutingPortsForState
<1>2. /\ Fired(completed, ports)' = Fired(completed, ports)
      /\ OpenedEdges(completed, ports)' = OpenedEdges(completed, ports)
  BY <1>1 DEF Fired, OpenedEdges, Opened
<1>3. \A m : PossibleMergeSources(m, ports)' = PossibleMergeSources(m, ports)
  BY <1>1 DEF PossibleMergeSources, ReachableNodesFromEntry, LiveEdges
<1>4. PortsKnown' /\ Waited(ports)' /\ OnlyOpenedBranches'
  BY <1>1, <1>3 DEF RoutingInv, PortsKnown, Waited, OnlyOpenedBranches, Incoming
<1>5. OnPath(completed \union batch, completed, ports)'
  BY <1>2 DEF RoutingInv, OnPath
<1>6. (released \subseteq completed \union batch \union ready)'
  BY DEF RoutingInv
<1>7. ASSUME pc' \in {"head", "batch"} \/ outcome' = "completed"
      PROVE  Served(OpenedEdges(completed, ports), completed \union batch)'
  <2>1. Served(OpenedEdges(completed, ports), completed \union batch)
    BY <1>7 DEF RoutingInv
  <2> QED
    BY <1>2, <2>1 DEF Served, Incoming
<1>8. AbortIsFinal'
  BY DEF RoutingInv, AbortIsFinal
<1> QED
  BY <1>4, <1>5, <1>6, <1>7, <1>8 DEF RoutingInv

\* Every step keeps the invariant.
LEMMA RoutingStep == RoutingInv /\ [Next]_vars => RoutingInv'
<1> SUFFICES ASSUME RoutingInv, [Next]_vars PROVE RoutingInv'
  OBVIOUS
<1>1. TypeOK /\ Phases
  BY DEF RoutingInv
<1>2. CASE StopBeforeStart
  <2>1. TypeOK' /\ Phases'
    BY <1>1, <1>2 DEF StopBeforeStart, End, TypeOK, Phases
  <2> QED
    BY <1>1, <1>2, <2>1, RoutingFrame DEF StopBeforeStart, End, Phases
<1>3. CASE PrepareFails
  <2>1. TypeOK' /\ Phases'
    BY <1>1, <1>3 DEF PrepareFails, End, TypeOK, Phases
  <2> QED
    BY <1>1, <1>3, <2>1, RoutingFrame DEF PrepareFails, End, Phases
<1>4. CASE RouteEntry
  BY <1>4, EntryRouted
<1>5. CASE StartBatch
  <2>1. TypeOK' /\ Phases'
    BY <1>1, <1>5 DEF StartBatch, TypeOK, Phases
  <2>2. ready' \union batch' = ready \union batch
    BY <1>1, <1>5 DEF StartBatch, TypeOK
  <2> QED
    BY <1>1, <1>5, <2>1, <2>2, RoutingFrame DEF StartBatch
<1>6. CASE StopAtHead
  <2>1. TypeOK' /\ Phases'
    BY <1>1, <1>6 DEF StopAtHead, End, TypeOK, Phases
  <2> QED
    BY <1>1, <1>6, <2>1, RoutingFrame DEF StopAtHead, End, Phases
<1>7. CASE EndBatch
  BY <1>7, BatchKept
<1>8. CASE Finish
  <2>1. TypeOK' /\ Phases'
    BY <1>1, <1>8 DEF Finish, End, TypeOK, Phases
  <2> QED
    BY <1>1, <1>8, <2>1, RoutingFrame DEF Finish, End, Phases
<1>9. CASE AskStop
  <2>1. TypeOK' /\ Phases'
    BY <1>1, <1>9 DEF AskStop, TypeOK, Phases
  <2> QED
    BY <1>1, <1>9, <2>1, RoutingFrame DEF AskStop
<1>10. CASE UNCHANGED vars
  <2>1. TypeOK' /\ Phases'
    BY <1>1, <1>10 DEF vars, TypeOK, Phases
  <2>2. /\ UNCHANGED <<graph, completed, ports, arrived, released>>
        /\ ready' = ready /\ batch' = batch /\ pc' = pc /\ outcome' = outcome
    BY <1>10 DEF vars
  <2>3. RoutingInv
    OBVIOUS
  <2> QED
    BY <2>1, <2>2, <2>3, RoutingFrame
<1> QED
  BY <1>2, <1>3, <1>4, <1>5, <1>6, <1>7, <1>8, <1>9, <1>10 DEF Next, Executor

LEMMA RoutingCorrect == Spec => []RoutingInv
  BY RoutingInit, RoutingStep, PTL DEF Spec

-----------------------------------------------------------------------------
(* The theorems *)

\* Types: no node is queued or runs that has run, and the executor waits for
\* a batch exactly when there is one.
THEOREM RoutingTypeCorrect == Spec => []TypeOK
  BY RoutingCorrect, PTL DEF RoutingInv

\* Whatever the pipeline, only branches that a result opened are run.
THEOREM OnlyOpenedBranchesCorrect == Spec => []OnlyOpenedBranches
  BY RoutingCorrect, PTL DEF RoutingInv

\* No run is completed, or routes on, after the failure of a node with
\* on_failure=abort.
THEOREM AbortIsFinalCorrect == Spec => []AbortIsFinal
  BY RoutingCorrect, PTL DEF RoutingInv

\* A completed run left nothing behind but merges in mode all that miss an
\* arrival.
THEOREM NothingElseSkippedCorrect == Spec => []NothingElseSkipped
<1>1. RoutingInv => NothingElseSkipped
  <2> SUFFICES ASSUME RoutingInv, outcome = "completed", NEW e \in graph.edges,
                      e.src \in completed, e.src = graph.entry \/ e.port \in ports[e.src]
               PROVE  \/ e.dst \in completed
                      \/ /\ graph.type[e.dst] = "merge_all"
                         /\ \E x \in Incoming(graph, e.dst) : x.src \notin arrived[e.dst]
    BY DEF NothingElseSkipped
  <2>1. ready = {} /\ batch = {} /\ Served(OpenedEdges(completed, ports), completed \union batch)
    BY DEF RoutingInv, Phases
  <2>2. e \in OpenedEdges(completed, ports)
    BY DEF OpenedEdges, Opened
  <2> QED
    BY <2>1, <2>2 DEF Served
<1> QED
  BY <1>1, RoutingCorrect, PTL

\* Once a merge in mode all is released no further source arrives at it: the
\* sources it was released for were all that could still come.
THEOREM AllMergeWaitsCorrect == Spec => AllMergeWaits
<1>1. RoutingInv /\ [Next]_vars
        => [\A m \in released : graph.type[m] = "merge_all" => arrived'[m] = arrived[m]]_vars
  <2> SUFFICES ASSUME RoutingInv, Next, NEW m \in released, graph.type[m] = "merge_all"
               PROVE  arrived'[m] = arrived[m]
    OBVIOUS
  <2>1. CASE RouteEntry
    BY <2>1 DEF RouteEntry, RoutingInv, Phases
  <2>2. CASE EndBatch
    BY <2>2, BatchEnds, BatchReady, RouteWaits
  <2>3. CASE ~RouteEntry /\ ~EndBatch
    BY <2>3 DEF Next, Executor, StopBeforeStart, PrepareFails, StartBatch, StopAtHead,
                Finish, AskStop, vars
  <2> QED
    BY <2>1, <2>2, <2>3
<1> QED
  BY <1>1, RoutingCorrect, PTL DEF Spec, AllMergeWaits
============================================================================
