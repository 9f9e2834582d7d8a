------------------------ MODULE AgentDispatchProofs ------------------------
(***************************************************************************)
(* Proofs about AgentDispatch for any runs, workers and operators.  Types  *)
(* come first.  Without stalls a dispatch under a worker is claimed or     *)
(* over, so that no other worker may claim it (LeaseInv).  A run that was  *)
(* stopped early stays stopped or failed, and whoever is about to look at  *)
(* its row finds the stop (EarlyInv); a run whose outcome was saved keeps  *)
(* one until a late answer revives it (OutcomeInv).                        *)
(***************************************************************************)
EXTENDS AgentDispatch, TLAPS

-----------------------------------------------------------------------------
(* Types *)

\* An empty mailbox is one.
LEMMA EmptyType == Empty \in Mailbox
  BY DEF Empty, Mailbox

\* A launch keeps the types.
LEMMA LaunchTypes ==
  ASSUME NEW r \in Runs, TypeOK, Launch(r)
  PROVE  TypeOK'
<1> USE DEF TypeOK, Idle, Active, Terminal, Dispatches, rows, workers, requests, history, setting
<1>1. CASE CreateRun(r)
  BY <1>1 DEF CreateRun
<1>2. CASE Enqueue(r)
  BY <1>2 DEF Enqueue
<1> QED
  BY <1>1, <1>2 DEF Launch

\* So does what becomes of a dispatch and of a stale run.
LEMMA CleanTypes ==
  ASSUME NEW r \in Runs, TypeOK, Expire(r) \/ ListStale(r) \/ CleanUp(r)
  PROVE  TypeOK'
<1> USE DEF TypeOK, Idle, Active, Terminal, Dispatches, rows, workers, requests, history, setting
<1>1. CASE Expire(r)
  BY <1>1 DEF Expire
<1>2. CASE ListStale(r)
  BY <1>2 DEF ListStale
<1>3. CASE CleanDispatch(r)
  BY <1>3 DEF CleanDispatch, Cancel
<1>4. CASE CleanRun(r)
  BY <1>4 DEF CleanRun, MarkFailed
<1> QED
  BY <1>1, <1>2, <1>3, <1>4 DEF CleanUp

\* A worker that drops its job is idle.
LEMMA ReleaseTypes ==
  ASSUME NEW w \in Workers, TypeOK, Release(w)
  PROVE  /\ pc' \in [Workers -> {"idle", "load", "check", "start", "mini", "loop", "asking", "asked",
                                 "report", "saved", "complete", "raised"}]
         /\ job' \in [Workers -> Runs \union {NoRun}]
         /\ \A v \in Workers : job'[v] = NoRun <=> pc'[v] = "idle"
         /\ told' \in [Workers -> BOOLEAN]
         /\ result' \in [Workers -> {"none"} \union Terminal]
         /\ \A v \in Workers : pc'[v] = "report" => result'[v] \in Terminal
         /\ note' \in [Workers -> [at : {"none", "given", "copied"}, box : Mailbox]]
         /\ \A v \in Workers : pc'[v] = "idle" => note'[v] = NoNote
<1>1. NoNote \in [at : {"none", "given", "copied"}, box : Mailbox]
  BY EmptyType DEF NoNote
<1> QED
  BY <1>1 DEF TypeOK, Release, Goto, Idle

\* A worker that goes on with its job.
LEMMA OnlyTypes ==
  ASSUME NEW w \in Workers, TypeOK, ~Idle(w),
         NEW l \in {"load", "check", "start", "mini", "loop", "asking", "asked",
                    "saved", "complete", "raised"},
         Only(w, l)
  PROVE  /\ pc' \in [Workers -> {"idle", "load", "check", "start", "mini", "loop", "asking", "asked",
                                 "report", "saved", "complete", "raised"}]
         /\ \A v \in Workers : job'[v] = NoRun <=> pc'[v] = "idle"
         /\ \A v \in Workers : pc'[v] = "report" => result'[v] \in Terminal
         /\ \A v \in Workers : pc'[v] = "idle" => note'[v] = NoNote
  BY DEF TypeOK, Only, Goto, Idle

\* A worker keeps the types.
LEMMA WorkTypes ==
  ASSUME NEW w \in Workers, TypeOK, Work(w)
  PROVE  TypeOK'
<1> USE RunsAssumption, BoundsAssumption DEF rows, workers, requests, history, setting
<1>a. ~Idle(w) => job[w] \in Runs
  BY DEF TypeOK
<1>1. CASE Claim(w)
  BY <1>1 DEF Claim, Claimable, TypeOK, Idle, Dispatches
<1>2. CASE Heartbeat(w) \/ Stall(w)
  BY <1>2 DEF Heartbeat, Stall, TypeOK, Idle, Dispatches
<1>3. CASE Load(w) \/ Check(w) \/ AskTimesOut(w)
  <2>1. PICK l \in {"check", "start", "asked", "complete"} : Only(w, l)
    BY <1>3 DEF Load, Check, AskTimesOut, Entry
  <2>2. ~Idle(w) /\ UNCHANGED <<rows, dispatch, requests, clean, history, setting>>
    BY <1>3 DEF Load, Check, AskTimesOut, Idle
  <2> QED
    BY <2>1, <2>2, OnlyTypes DEF TypeOK, Only, Idle
<1>4. CASE Start(w) \/ AskUser(w) \/ GoOn(w) \/ NoServers(w) \/ ReportFails(w) \/ FinishMini(w)
  <2>1. PICK l \in {"mini", "loop", "asking", "complete"} : Only(w, l)
    BY <1>4 DEF Start, AskUser, GoOn, NoServers, ReportFails, FinishMini
  <2>2. ~Idle(w) /\ UNCHANGED <<dispatch, requests, clean, early, revived, setting>>
    BY <1>4 DEF Start, AskUser, GoOn, NoServers, ReportFails, FinishMini, Idle
  <2>3. status' \in [Runs -> {"none"} \union Active \union Terminal] /\ ended' \in [Runs -> BOOLEAN]
    <3>1. CASE Start(w) \/ AskUser(w) \/ GoOn(w)
      BY <3>1 DEF Start, AskUser, GoOn, TypeOK, Active
    <3>2. CASE NoServers(w) \/ ReportFails(w)
      BY <3>2, <1>a, <2>2 DEF NoServers, ReportFails, MarkFailed, TypeOK, Terminal
    <3>3. CASE FinishMini(w)
      BY <3>3, <1>a, <2>2 DEF FinishMini, TypeOK, Terminal
    <3> QED
      BY <1>4, <3>1, <3>2, <3>3
  <2>4. control' \in [Runs -> Mailbox] /\ reported' \subseteq Runs
    BY <1>4, <1>a, <2>2, EmptyType DEF Start, AskUser, GoOn, NoServers, ReportFails, FinishMini,
       MarkFailed, TypeOK
  <2> QED
    BY <2>1, <2>2, <2>3, <2>4, OnlyTypes DEF TypeOK, Only, Idle
<1>5. CASE Complete(w) \/ FailRun(w) \/ Crash(w)
  <2>1. ~Idle(w) /\ Release(w) /\ UNCHANGED <<control, requests, clean, history, mini, stalls, replies>>
    BY <1>5 DEF Complete, FailRun, Crash, Idle, MarkFailed
  <2>2. /\ status' \in [Runs -> {"none"} \union Active \union Terminal] /\ ended' \in [Runs -> BOOLEAN]
        /\ dispatch' \in [Runs -> Dispatches] /\ crashes' \in 0 .. MaxCrashes
    <3>1. CASE Complete(w)
      BY <3>1 DEF Complete, TypeOK, Dispatches
    <3>2. CASE FailRun(w)
      BY <3>2 DEF FailRun, MarkFailed, TypeOK, Terminal
    <3>3. CASE Crash(w)
      BY <3>3 DEF Crash, TypeOK
    <3> QED
      BY <1>5, <3>1, <3>2, <3>3
  <2> QED
    BY <2>1, <2>2, ReleaseTypes DEF TypeOK, Idle
<1>6. CASE Raise(w)
  <2>1. ~Idle(w) /\ Only(w, "raised") /\ UNCHANGED <<rows, requests, clean, history, setting>>
    BY <1>6 DEF Raise, Idle
  <2>2. dispatch' \in [Runs -> Dispatches]
    BY <1>6, <1>a, <2>1 DEF Raise, TypeOK, Dispatches
  <2> QED
    BY <2>1, <2>2, OnlyTypes DEF TypeOK, Only, Idle
<1>7. CASE WatchStop(w)
  BY <1>7 DEF WatchStop, Goto, TypeOK, Idle
<1>8. CASE WatchReply(w)
  <2>1. note'[w] \in [at : {"none", "given", "copied"}, box : Mailbox]
    BY <1>8, <1>a DEF WatchReply, TypeOK, Idle, Mailbox, Empty
  <2> QED
    BY <1>8, <2>1 DEF WatchReply, Goto, TypeOK, Idle
<1>9. CASE CopyMailbox(w) \/ Acknowledge(w)
  <2>1. ~Idle(w)
    BY <1>9 DEF CopyMailbox, Acknowledge, TypeOK, NoNote
  <2>2. note[w].box \in Mailbox /\ control[job[w]] \in Mailbox
    BY <1>a, <2>1 DEF TypeOK
  <2>3. note'[w] \in [at : {"none", "given", "copied"}, box : Mailbox]
    <3>1. CASE CopyMailbox(w)
      <4>1. [control[job[w]] EXCEPT !.ack = note[w].box.nonce] \in Mailbox
        BY <2>2 DEF Mailbox
      <4> QED
        BY <3>1, <4>1 DEF CopyMailbox, TypeOK
    <3>2. CASE Acknowledge(w)
      BY <3>2, EmptyType DEF Acknowledge, TypeOK, NoNote
    <3> QED
      BY <1>9, <3>1, <3>2
  <2>4. control' \in [Runs -> Mailbox]
    BY <1>9, <2>2 DEF CopyMailbox, Acknowledge, TypeOK
  <2>5. note' = [note EXCEPT ![w] = note'[w]]
    BY <1>9 DEF CopyMailbox, Acknowledge, TypeOK
  <2>6. UNCHANGED <<status, ended, dispatch, pc, job, told, result, requests, clean, history, setting>>
    BY <1>9 DEF CopyMailbox, Acknowledge
  <2> QED
    BY <2>1, <2>3, <2>4, <2>5, <2>6 DEF TypeOK, Idle
<1>10. CASE LeaveLoop(w)
  BY <1>10 DEF LeaveLoop, Goto, TypeOK, Idle, Terminal
<1>11. CASE SaveReport(w)
  <2>1. job[w] \in Runs /\ result[w] \in Terminal
    BY <1>11, <1>a DEF SaveReport, TypeOK, Idle
  <2>2. status' \in [Runs -> {"none"} \union Active \union Terminal] /\ ended' \in [Runs -> BOOLEAN]
        /\ control' \in [Runs -> Mailbox] /\ reported' \subseteq Runs
    BY <1>11, <2>1, EmptyType DEF SaveReport, TypeOK
  <2> QED
    BY <1>11, <2>1, <2>2 DEF SaveReport, Goto, TypeOK, Idle
<1> QED
  BY <1>1, <1>2, <1>3, <1>4, <1>5, <1>6, <1>7, <1>8, <1>9, <1>10, <1>11 DEF Work, Drive

\* Operators keep the types.
LEMMA OperateTypes ==
  ASSUME NEW o \in Operators, TypeOK, Operate(o)
  PROVE  TypeOK'
<1> USE RunsAssumption, BoundsAssumption DEF rows, workers, history, setting, Idle
<1>a. ask[o].kind # "none" => ask[o].run \in Runs
  BY DEF TypeOK
<1>1. CASE WriteControl(o)
  <2>1. ask[o].run \in Runs /\ copy[o] \in Mailbox
    BY <1>1, <1>a DEF WriteControl, TypeOK
  <2>2. control' \in [Runs -> Mailbox]
    <3>1. [copy[o] EXCEPT !.nonce = @ + 1] \in Mailbox
      <4>1. copy[o].nonce + 1 \in Nat
        BY <2>1 DEF Mailbox
      <4> QED
        BY <2>1, <4>1 DEF Mailbox
    <3>2. [copy[o] EXCEPT !.stop = TRUE] \in Mailbox
      BY <2>1 DEF Mailbox
    <3> QED
      BY <1>1, <2>1, <3>1, <3>2 DEF WriteControl, TypeOK
  <2>3. PICK k \in {"cancel", "mark", "resume"} : ask' = [ask EXCEPT ![o].kind = k]
    BY <1>1 DEF WriteControl
  <2>4. /\ ask' \in [Operators -> [kind : {"none", "stop", "live_stop", "reply", "cancel", "mark", "resume"},
                                   run : Runs \union {NoRun}]]
        /\ \A q \in Operators : ask'[q].run = NoRun <=> ask'[q].kind = "none"
    BY <2>1, <2>3 DEF TypeOK
  <2> QED
    BY <1>1, <2>2, <2>4, EmptyType DEF WriteControl, TypeOK
<1>2. CASE CancelDispatch(o)
  BY <1>2, <1>a DEF CancelDispatch, Cancel, TypeOK, Dispatches
<1>3. CASE MarkStopped(o) \/ Resume(o)
  <2>1. ask[o].run \in Runs
    BY <1>3, <1>a DEF MarkStopped, Resume
  <2>2. status' \in [Runs -> {"none"} \union Active \union Terminal] /\ ended' \in [Runs -> BOOLEAN]
        /\ early' \subseteq Runs /\ revived' \subseteq Runs
    <3>1. CASE MarkStopped(o)
      BY <3>1, <2>1 DEF MarkStopped, TypeOK, Terminal
    <3>2. CASE Resume(o)
      BY <3>2, <2>1 DEF Resume, TypeOK, Active
    <3> QED
      BY <1>3, <3>1, <3>2
  <2>3. ask' = [ask EXCEPT ![o] = NoAsk]
        /\ UNCHANGED <<control, dispatch, workers, copy, clean, reported, setting>>
    BY <1>3 DEF MarkStopped, Resume
  <2>4. /\ ask' \in [Operators -> [kind : {"none", "stop", "live_stop", "reply", "cancel", "mark", "resume"},
                                   run : Runs \union {NoRun}]]
        /\ \A q \in Operators : ask'[q].run = NoRun <=> ask'[q].kind = "none"
    BY <2>3 DEF TypeOK, NoAsk
  <2> QED
    BY <2>2, <2>3, <2>4 DEF TypeOK
<1>4. ASSUME NEW kind \in {"stop", "live_stop", "reply"}, NEW r \in Runs, BeginRequest(o, kind, r)
      PROVE  TypeOK'
  <2>1. replies' \in 0 .. MaxReplies
    BY <1>4 DEF BeginRequest, TypeOK
  <2> QED
    BY <1>4, <2>1 DEF BeginRequest, TypeOK
<1> QED
  BY <1>1, <1>2, <1>3, <1>4 DEF Operate

LEMMA TypesInit == Init => TypeOK
  BY EmptyType, BoundsAssumption DEF Init, TypeOK, NoNote, NoAsk, Idle, Dispatches, Active

\* The types are kept by every behaviour of the queue of agent runs.
THEOREM AgentTypeCorrect == Spec => []TypeOK
<1>1. TypeOK /\ [Next]_vars => TypeOK'
  <2>1. TypeOK /\ Next => TypeOK'
    BY LaunchTypes, CleanTypes, WorkTypes, OperateTypes DEF Next
  <2>2. TypeOK /\ UNCHANGED vars => TypeOK'
    BY DEF TypeOK, vars, rows, workers, requests, history, setting, Idle
  <2> QED
    BY <2>1, <2>2
<1> QED
  BY TypesInit, <1>1, PTL DEF Spec

-----------------------------------------------------------------------------
(* One worker *)

\* Without stalls the dispatch of a run that a worker has is not claimable.
LeaseInv ==
  stalls = 0 =>
    /\ \A w \in Workers : job[w] # NoRun => dispatch[job[w]] \in {"claimed", "over"}
    /\ \A v, w \in Workers : job[v] = job[w] /\ job[v] # NoRun => v = w

\* A step that takes no dispatch back and gives no job keeps that.
LEMMA LeaseKept ==
  ASSUME TypeOK, LeaseInv, stalls' = stalls,
         \A w \in Workers : job'[w] \in {job[w], NoRun},
         \A r \in Runs : dispatch[r] \in {"claimed", "over"} => dispatch'[r] \in {"claimed", "over"}
  PROVE  LeaseInv'
  BY DEF LeaseInv, TypeOK

LEMMA LeaseStep == TypeOK /\ LeaseInv /\ [Next]_vars => LeaseInv'
<1> SUFFICES ASSUME TypeOK, LeaseInv, [Next]_vars PROVE LeaseInv'
  OBVIOUS
<1> USE DEF rows, workers, requests, history, setting
<1>1. ASSUME NEW r \in Runs, Expire(r) PROVE LeaseInv'
  <2>1. \A w \in Workers : job[w] # NoRun => job[w] # r /\ dispatch'[job[w]] = dispatch[job[w]]
    BY <1>1 DEF Expire, TypeOK
  <2> QED
    BY <1>1, <2>1 DEF Expire, LeaseInv
<1>2. ASSUME NEW r \in Runs, Launch(r) \/ ListStale(r) \/ CleanUp(r) PROVE LeaseInv'
  <2>1. stalls' = stalls /\ job' = job
    BY <1>2 DEF Launch, CreateRun, Enqueue, ListStale, CleanUp, CleanDispatch, CleanRun
  <2>2. \A q \in Runs : dispatch[q] \in {"claimed", "over"} => dispatch'[q] \in {"claimed", "over"}
    BY <1>2 DEF Launch, CreateRun, Enqueue, ListStale, CleanUp, CleanDispatch, CleanRun, Cancel, TypeOK
  <2> QED
    BY <2>1, <2>2, LeaseKept
<1>3. ASSUME NEW o \in Operators, Operate(o) PROVE LeaseInv'
  <2>1. stalls' = stalls /\ job' = job
    BY <1>3 DEF Operate, WriteControl, CancelDispatch, MarkStopped, Resume, BeginRequest
  <2>2. \A q \in Runs : dispatch[q] \in {"claimed", "over"} => dispatch'[q] \in {"claimed", "over"}
    BY <1>3 DEF Operate, WriteControl, CancelDispatch, MarkStopped, Resume, BeginRequest, Cancel, TypeOK
  <2> QED
    BY <2>1, <2>2, LeaseKept
<1>4. ASSUME NEW w \in Workers, Claim(w) PROVE LeaseInv'
  <2>1. PICK r \in Runs : /\ Claimable(r) /\ dispatch' = [dispatch EXCEPT ![r] = "claimed"]
                          /\ job' = [job EXCEPT ![w] = r] /\ stalls' = stalls
    BY <1>4 DEF Claim
  <2>2. stalls = 0 => \A v \in Workers : job[v] # r
    BY <2>1, RunsAssumption DEF Claimable, LeaseInv
  <2>3. stalls = 0 => \A v \in Workers : job'[v] # NoRun => dispatch'[job'[v]] \in {"claimed", "over"}
    BY <2>1, <2>2 DEF LeaseInv, TypeOK
  <2>4. stalls = 0 => \A u, v \in Workers : job'[u] = job'[v] /\ job'[u] # NoRun => u = v
    BY <2>1, <2>2 DEF LeaseInv, TypeOK
  <2> QED
    BY <2>1, <2>3, <2>4 DEF LeaseInv
<1>5. ASSUME NEW w \in Workers, Stall(w) PROVE LeaseInv'
  BY <1>5 DEF Stall, LeaseInv, TypeOK
<1>6. ASSUME NEW w \in Workers, Work(w), ~Claim(w), ~Stall(w) PROVE LeaseInv'
  <2>1. stalls' = stalls
    BY <1>6 DEF Work, Drive, Heartbeat, Load, Check, Start, AskTimesOut, GoOn, SaveReport, FinishMini,
       Complete, FailRun, NoServers, AskUser, WatchStop, WatchReply, CopyMailbox, Acknowledge,
       LeaveLoop, ReportFails, Raise, Crash
  <2>2. \A v \in Workers : job'[v] \in {job[v], NoRun}
    BY <1>6 DEF Work, Drive, Heartbeat, Load, Check, Start, AskTimesOut, GoOn, SaveReport, FinishMini,
       Complete, FailRun, NoServers, AskUser, WatchStop, WatchReply, CopyMailbox, Acknowledge,
       LeaveLoop, ReportFails, Raise, Crash, Only, Release, TypeOK
  <2>3. \A r \in Runs : dispatch'[r] \in {dispatch[r], "claimed", "over"}
    BY <1>6 DEF Work, Drive, Heartbeat, Load, Check, Start, AskTimesOut, GoOn, SaveReport, FinishMini,
       Complete, FailRun, NoServers, AskUser, WatchStop, WatchReply, CopyMailbox, Acknowledge,
       LeaveLoop, ReportFails, Raise, Crash, TypeOK
  <2> QED
    BY <2>1, <2>2, <2>3, LeaseKept
<1>7. CASE UNCHANGED vars
  BY <1>7 DEF vars, LeaseInv
<1> QED
  BY <1>1, <1>2, <1>3, <1>4, <1>5, <1>6, <1>7 DEF Next

\* However many workers poll the queue and crash, a run is executed by one of
\* them at a time unless a lease runs out under a worker that is alive.
THEOREM OneWorkerCorrect == Spec => []OneWorkerUnlessStalled
<1>1. Init => LeaseInv
  BY DEF Init, LeaseInv
<1>2. TypeOK /\ LeaseInv => OneWorkerUnlessStalled
  BY DEF TypeOK, LeaseInv, OneWorkerUnlessStalled
<1> QED
  BY <1>1, <1>2, LeaseStep, AgentTypeCorrect, PTL DEF Spec

-----------------------------------------------------------------------------
(* A stop that comes early *)

EarlyRun(r) ==
  /\ status[r] \in {"stopped", "failed"}
  /\ \A o \in Operators : ask[o].run = r => ask[o].kind \notin {"reply", "resume"}
  /\ \A w \in Workers : job[w] = r => ~UnderWay(w) /\ (pc[w] \in {"load", "check"} => control[r].stop)

EarlyInv == \A r \in early : EarlyRun(r)

\* A step that leaves a run, its requests and its workers alone.
LEMMA EarlyKept ==
  ASSUME TypeOK, NEW r \in Runs, EarlyRun(r),
         status'[r] \in {status[r], "stopped", "failed"},
         control[r].stop => control'[r].stop,
         \A o \in Operators : ask'[o].run = r =>
           ask[o].run = r /\ (ask'[o].kind = ask[o].kind \/ ask'[o].kind \notin {"reply", "resume"}),
         \A w \in Workers : job'[w] = r =>
           /\ job[w] = r /\ note'[w] = note[w]
           /\ pc'[w] = pc[w] \/ pc'[w] \in {"complete", "raised"}
                             \/ (pc[w] = "load" /\ pc'[w] = "check")
  PROVE  EarlyRun(r)'
  BY DEF EarlyRun, UnderWay

LEMMA EarlyStep == TypeOK /\ EarlyInv /\ [Next]_vars => EarlyInv'
<1> SUFFICES ASSUME TypeOK, EarlyInv, [Next]_vars, NEW r \in early' PROVE EarlyRun(r)'
  BY DEF EarlyInv
<1> USE DEF rows, workers, requests, history, setting
<1>1. ASSUME NEW o \in Operators, MarkStopped(o) PROVE EarlyRun(r)'
  <2>1. ask[o].run \in Runs /\ r \in Runs
    BY <1>1 DEF MarkStopped, TypeOK
  <2>2. CASE r \in early
    <3>1. EarlyRun(r)
      BY <2>2 DEF EarlyInv
    <3>2. \A q \in Operators : ask'[q].run = r =>
            ask[q].run = r /\ (ask'[q].kind = ask[q].kind \/ ask'[q].kind \notin {"reply", "resume"})
      BY <1>1, <2>1, RunsAssumption DEF MarkStopped, NoAsk, TypeOK
    <3>3. status'[r] \in {status[r], "stopped"} /\ UNCHANGED <<control, pc, job, note>>
      BY <1>1, <2>1 DEF MarkStopped, TypeOK
    <3> QED
      BY <2>1, <3>1, <3>2, <3>3, EarlyKept
  <2>3. CASE r \notin early
    <3>1. r = ask[o].run /\ IsEarly(r)
      BY <1>1, <2>3 DEF MarkStopped
    <3>2. status'[r] = "stopped" /\ UNCHANGED <<control, pc, job, note>>
      BY <1>1, <2>1, <3>1 DEF MarkStopped, TypeOK
    <3>3. \A q \in Operators : ask'[q] = ask[q] \/ ask'[q].kind = "none"
      BY <1>1 DEF MarkStopped, NoAsk, TypeOK
    <3> QED
      BY <3>1, <3>2, <3>3 DEF EarlyRun, IsEarly, UnderWay
  <2> QED
    BY <2>2, <2>3
<1>2. ASSUME \A o \in Operators : ~MarkStopped(o) PROVE EarlyRun(r)'
  <2>1. early' = early
    <3>1. ASSUME NEW q \in Runs, Launch(q) \/ Expire(q) \/ ListStale(q) \/ CleanUp(q)
          PROVE  early' = early
      BY <3>1 DEF Launch, CreateRun, Enqueue, Expire, ListStale, CleanUp, CleanDispatch, CleanRun
    <3>2. ASSUME NEW w \in Workers, Work(w) PROVE early' = early
      BY <3>2 DEF Work, Drive, Claim, Stall, Heartbeat, Load, Check, Start, AskTimesOut, GoOn, SaveReport,
         FinishMini, Complete, FailRun, NoServers, AskUser, WatchStop, WatchReply,
         CopyMailbox, Acknowledge, LeaveLoop, ReportFails, Raise, Crash
    <3>3. ASSUME NEW o \in Operators, Operate(o) PROVE early' = early
      BY <1>2, <3>3 DEF Operate, WriteControl, CancelDispatch, Resume, BeginRequest
    <3> QED
      BY <3>1, <3>2, <3>3 DEF Next, vars
  <2>2. r \in Runs /\ EarlyRun(r)
    BY <2>1 DEF EarlyInv, TypeOK
  <2>3. CASE UNCHANGED vars
    BY <2>2, <2>3, EarlyKept DEF vars
  <2>4. ASSUME NEW q \in Runs, Launch(q) \/ Expire(q) \/ ListStale(q) \/ CleanUp(q)
        PROVE  EarlyRun(r)'
    <3>1. UNCHANGED <<control, requests, workers>>
      BY <2>4 DEF Launch, CreateRun, Enqueue, Expire, ListStale, CleanUp, CleanDispatch, CleanRun, MarkFailed
    <3>2. status'[r] \in {status[r], "failed"}
      BY <2>2, <2>4 DEF Launch, CreateRun, Enqueue, Expire, ListStale, CleanUp, CleanDispatch, CleanRun,
         MarkFailed, EarlyRun, TypeOK
    <3> QED
      BY <2>2, <3>1, <3>2, EarlyKept
  <2>5. ASSUME NEW o \in Operators, Operate(o) PROVE EarlyRun(r)'
    <3>1. UNCHANGED workers
      BY <1>2, <2>5 DEF Operate, WriteControl, CancelDispatch, Resume, BeginRequest
    <3>2. status'[r] = status[r]
      BY <1>2, <2>2, <2>5 DEF Operate, WriteControl, CancelDispatch, Resume, BeginRequest, EarlyRun, TypeOK
    <3>3. control[r].stop => control'[r].stop
      <4>1. CASE WriteControl(o)
        <5>1. CASE ask[o].run = r
          <6>1. ask[o].kind \in {"stop", "live_stop"}
            BY <2>2, <4>1, <5>1 DEF WriteControl, EarlyRun
          <6>2. control'[r] = [copy[o] EXCEPT !.stop = TRUE] /\ copy[o] \in Mailbox
            BY <2>2, <4>1, <5>1, <6>1 DEF WriteControl, TypeOK
          <6> QED
            BY <6>2 DEF Mailbox
        <5>2. CASE ask[o].run # r
          BY <4>1, <5>2 DEF WriteControl, TypeOK
        <5> QED
          BY <5>1, <5>2
      <4>2. CASE ~WriteControl(o)
        BY <1>2, <2>5, <4>2 DEF Operate, CancelDispatch, Resume, BeginRequest
      <4> QED
        BY <4>1, <4>2
    <3>4. \A q \in Operators : ask'[q].run = r =>
            \/ ask[q].run = r /\ (ask'[q].kind = ask[q].kind \/ ask'[q].kind \notin {"reply", "resume"})
            \/ ask'[q].kind \notin {"reply", "resume"}
      <4>1. CASE WriteControl(o)
        BY <2>2, <4>1 DEF WriteControl, EarlyRun, TypeOK
      <4>2. CASE CancelDispatch(o) \/ Resume(o)
        BY <4>2 DEF CancelDispatch, Resume, NoAsk, TypeOK
      <4>3. CASE \E kind \in {"stop", "live_stop", "reply"}, q \in Runs : BeginRequest(o, kind, q)
        <5>1. PICK kind \in {"stop", "live_stop", "reply"}, q \in Runs : BeginRequest(o, kind, q)
          BY <4>3
        <5>2. q = r => kind # "reply"
          BY <2>2, <5>1 DEF BeginRequest, EarlyRun
        <5>3. \A p \in Operators : ask'[p] = IF p = o THEN [kind |-> kind, run |-> q] ELSE ask[p]
          BY <5>1 DEF BeginRequest, TypeOK
        <5> QED
          BY <5>2, <5>3
      <4> QED
        BY <1>2, <2>5, <4>1, <4>2, <4>3 DEF Operate
    <3> QED
      BY <2>2, <3>1, <3>2, <3>3, <3>4 DEF EarlyRun, UnderWay
  <2>6. ASSUME NEW w \in Workers, Work(w) PROVE EarlyRun(r)'
    <3>1. CASE Claim(w)
      <4>1. PICK q \in Runs : Claimable(q) /\ job' = [job EXCEPT ![w] = q]
        BY <3>1 DEF Claim
      <4>2. q # r
        BY <2>2, <4>1 DEF Claimable, EarlyRun
      <4> QED
        BY <2>2, <3>1, <4>1, <4>2, EarlyKept DEF Claim, TypeOK
    <3>2. CASE job[w] # r /\ ~Claim(w)
      <4>1. status'[r] = status[r] /\ control'[r] = control[r] /\ UNCHANGED requests
        BY <2>2, <2>6, <3>2 DEF TypeOK, MarkFailed,
           Work, Drive, Stall, Heartbeat, Load, Check, Start, AskTimesOut, GoOn, SaveReport,
           FinishMini, Complete, FailRun, NoServers, AskUser, WatchStop, WatchReply, CopyMailbox,
           Acknowledge, LeaveLoop, ReportFails, Raise, Crash
      <4>2. \A v \in Workers : job'[v] = job[v] \/ job'[v] = NoRun
        BY <2>6, <3>2 DEF TypeOK, Release, Only,
           Work, Drive, Stall, Heartbeat, Load, Check, Start, AskTimesOut, GoOn, SaveReport,
           FinishMini, Complete, FailRun, NoServers, AskUser, WatchStop, WatchReply, CopyMailbox,
           Acknowledge, LeaveLoop, ReportFails, Raise, Crash
      <4>3. \A v \in Workers \ {w} : pc'[v] = pc[v] /\ note'[v] = note[v]
        BY <2>6, <3>2 DEF TypeOK, Release, Only, Goto,
           Work, Drive, Stall, Heartbeat, Load, Check, Start, AskTimesOut, GoOn, SaveReport,
           FinishMini, Complete, FailRun, NoServers, AskUser, WatchStop, WatchReply, CopyMailbox,
           Acknowledge, LeaveLoop, ReportFails, Raise, Crash
      <4> QED
        BY <2>2, <3>2, <4>1, <4>2, <4>3, EarlyKept, RunsAssumption
    <3>3. CASE job[w] = r /\ ~Claim(w)
      <4>1. ~UnderWay(w) /\ (pc[w] \in {"load", "check"} => control[r].stop)
        BY <2>2, <3>3 DEF EarlyRun
      <4>2. pc[w] \in {"load", "check", "complete", "raised"} /\ note[w] = NoNote
        BY <2>2, <3>3, <4>1, RunsAssumption DEF UnderWay, TypeOK, Idle
      <4>3. CASE Load(w) \/ Check(w)
        BY <2>2, <3>3, <4>1, <4>3, EarlyKept DEF Load, Check, Only, Goto, StopSeen, TypeOK
      <4>4. CASE NoServers(w) \/ Raise(w)
        BY <2>2, <4>4, EarlyKept DEF NoServers, Raise, Only, Goto, MarkFailed, TypeOK
      <4>5. CASE Complete(w) \/ FailRun(w) \/ Crash(w)
        <5>1. job' = [job EXCEPT ![w] = NoRun] /\ pc' = [pc EXCEPT ![w] = "idle"]
              /\ note' = [note EXCEPT ![w] = NoNote]
          BY <4>5 DEF Complete, FailRun, Crash, Release, Goto
        <5>2. UNCHANGED <<control, requests>> /\ status'[r] \in {status[r], "failed"}
          BY <4>5, <2>2 DEF Complete, FailRun, Crash, MarkFailed, TypeOK
        <5> QED
          BY <2>2, <5>1, <5>2, EarlyKept, RunsAssumption DEF TypeOK
      <4>6. CASE Heartbeat(w) \/ Stall(w)
        BY <2>2, <4>6, EarlyKept DEF Heartbeat, Stall
      <4> QED
        BY <2>6, <3>3, <4>2, <4>3, <4>4, <4>5, <4>6 DEF Work, Drive, Start, AskTimesOut, GoOn, SaveReport,
           FinishMini, AskUser, WatchStop, WatchReply, CopyMailbox, Acknowledge, LeaveLoop, ReportFails,
           NoNote
    <3> QED
      BY <3>1, <3>2, <3>3
  <2> QED
    BY <2>3, <2>4, <2>5, <2>6 DEF Next
<1> QED
  BY <1>1, <1>2

\* A run that an operator has stopped before a worker was past its last look
\* at the row is not executed, in whatever order the worker, the cleanup and
\* other operators go on.
THEOREM StoppedNotStartedCorrect == Spec => []StoppedNotStarted
<1>1. Init => EarlyInv
  BY DEF Init, EarlyInv
<1>2. EarlyInv => StoppedNotStarted
  BY DEF EarlyInv, EarlyRun, StoppedNotStarted
<1> QED
  BY <1>1, <1>2, EarlyStep, AgentTypeCorrect, PTL DEF Spec

-----------------------------------------------------------------------------
(* An outcome that is saved *)

SavedRun(r) ==
  /\ status[r] \in Terminal
  /\ \A w \in Workers : job[w] = r => pc[w] \in {"saved", "complete"}

OutcomeInv == stalls = 0 => \A r \in reported \ revived : SavedRun(r)

\* A step that ends the run again and gives it to nobody.
LEMMA SavedKept ==
  ASSUME NEW r, SavedRun(r), status'[r] \in {status[r]} \union Terminal,
         \A w \in Workers : job'[w] = r =>
           job[w] = r /\ (pc'[w] = pc[w] \/ pc'[w] \in {"saved", "complete"})
  PROVE  SavedRun(r)'
  BY DEF SavedRun

LEMMA OutcomeStep == TypeOK /\ LeaseInv /\ OutcomeInv /\ [Next]_vars => OutcomeInv'
<1> SUFFICES ASSUME TypeOK, LeaseInv, OutcomeInv, [Next]_vars,
                    stalls' = 0, NEW r \in reported' \ revived'
             PROVE  SavedRun(r)'
  BY DEF OutcomeInv
<1> USE DEF rows, workers, requests, history, setting
<1>0. stalls = 0 /\ revived \subseteq revived' /\ reported \subseteq reported'
  <2>1. ASSUME NEW q \in Runs, Launch(q) \/ Expire(q) \/ ListStale(q) \/ CleanUp(q)
        PROVE  UNCHANGED <<stalls, revived, reported>>
    BY <2>1 DEF Launch, CreateRun, Enqueue, Expire, ListStale, CleanUp, CleanDispatch, CleanRun
  <2>2. ASSUME NEW o \in Operators, Operate(o)
        PROVE  UNCHANGED <<stalls, reported>> /\ revived \subseteq revived'
    BY <2>2 DEF Operate, WriteControl, CancelDispatch, MarkStopped, Resume, BeginRequest
  <2>3. ASSUME NEW w \in Workers, Work(w)
        PROVE  stalls' \in {stalls, stalls + 1} /\ UNCHANGED revived /\ reported \subseteq reported'
    BY <2>3 DEF Work, Drive, Claim, Stall, Heartbeat, Load, Check, Start, AskTimesOut, GoOn, SaveReport,
       FinishMini, Complete, FailRun, NoServers, AskUser, WatchStop, WatchReply, CopyMailbox,
       Acknowledge, LeaveLoop, ReportFails, Raise, Crash
  <2>4. stalls' \in {stalls, stalls + 1} /\ revived \subseteq revived' /\ reported \subseteq reported'
    BY <2>1, <2>2, <2>3 DEF Next, vars
  <2> QED
    BY <2>4 DEF TypeOK
<1>1. ASSUME NEW w \in Workers, SaveReport(w) \/ FinishMini(w) PROVE SavedRun(r)'
  <2>1. job[w] \in Runs
    BY <1>1 DEF SaveReport, FinishMini, TypeOK, Idle
  <2>2. CASE r = job[w]
    <3>1. status'[r] \in Terminal /\ pc'[w] \in {"saved", "complete"} /\ job' = job
      BY <1>1, <2>1, <2>2 DEF SaveReport, FinishMini, Only, Goto, TypeOK, Terminal
    <3>2. \A v \in Workers : job[v] = r => v = w
      BY <1>0, <2>1, <2>2, RunsAssumption DEF LeaseInv
    <3> QED
      BY <3>1, <3>2 DEF SavedRun
  <2>3. CASE r # job[w]
    <3>1. SavedRun(r)
      BY <1>0, <1>1, <2>3 DEF OutcomeInv, SaveReport, FinishMini
    <3>2. status'[r] = status[r] /\ job' = job /\ \A v \in Workers : v # w => pc'[v] = pc[v]
      BY <1>1, <2>3 DEF SaveReport, FinishMini, Only, Goto, TypeOK
    <3> QED
      BY <2>3, <3>1, <3>2, SavedKept
  <2> QED
    BY <2>2, <2>3
<1>2. ASSUME \A w \in Workers : ~SaveReport(w) /\ ~FinishMini(w) PROVE SavedRun(r)'
  <2>1. reported' = reported
    <3>1. ASSUME NEW q \in Runs, Launch(q) \/ Expire(q) \/ ListStale(q) \/ CleanUp(q)
          PROVE  reported' = reported
      BY <3>1 DEF Launch, CreateRun, Enqueue, Expire, ListStale, CleanUp, CleanDispatch, CleanRun
    <3>2. ASSUME NEW w \in Workers, Work(w) PROVE reported' = reported
      BY <1>2, <3>2 DEF Work, Drive, Claim, Stall, Heartbeat, Load, Check, Start, AskTimesOut, GoOn, Complete,
         FailRun, NoServers, AskUser, WatchStop, WatchReply, CopyMailbox, Acknowledge,
         LeaveLoop, ReportFails, Raise, Crash
    <3>3. ASSUME NEW o \in Operators, Operate(o) PROVE reported' = reported
      BY <3>3 DEF Operate, WriteControl, CancelDispatch, MarkStopped, Resume, BeginRequest
    <3> QED
      BY <3>1, <3>2, <3>3 DEF Next, vars
  <2>2. r \in Runs /\ SavedRun(r)
    BY <1>0, <2>1 DEF OutcomeInv, TypeOK
  <2>3. CASE UNCHANGED vars
    BY <2>2, <2>3, SavedKept DEF vars
  <2>4. ASSUME NEW q \in Runs, Launch(q) \/ Expire(q) \/ ListStale(q) \/ CleanUp(q)
        PROVE  SavedRun(r)'
    <3>1. UNCHANGED workers
      BY <2>4 DEF Launch, CreateRun, Enqueue, Expire, ListStale, CleanUp, CleanDispatch, CleanRun
    <3>2. status'[r] \in {status[r]} \union Terminal
      BY <2>2, <2>4 DEF Launch, CreateRun, Enqueue, Expire, ListStale, CleanUp, CleanDispatch, CleanRun,
         MarkFailed, SavedRun, TypeOK, Terminal
    <3> QED
      BY <2>2, <3>1, <3>2, SavedKept
  <2>5. ASSUME NEW o \in Operators, Operate(o) PROVE SavedRun(r)'
    <3>1. UNCHANGED workers
      BY <2>5 DEF Operate, WriteControl, CancelDispatch, MarkStopped, Resume, BeginRequest
    <3>2. CASE Resume(o)
      BY <2>2, <3>1, <3>2, SavedKept DEF Resume, SavedRun, Terminal, TypeOK
    <3>3. CASE ~Resume(o)
      <4>1. status'[r] \in {status[r]} \union Terminal
        BY <2>2, <2>5, <3>3 DEF Operate, WriteControl, CancelDispatch, MarkStopped, BeginRequest, TypeOK, Terminal
      <4> QED
        BY <2>2, <3>1, <4>1, SavedKept
    <3> QED
      BY <3>2, <3>3
  <2>6. ASSUME NEW w \in Workers, Work(w) PROVE SavedRun(r)'
    <3>1. CASE Claim(w)
      <4>1. PICK q \in Runs : Claimable(q) /\ job' = [job EXCEPT ![w] = q]
        BY <3>1 DEF Claim
      <4>2. q # r
        BY <2>2, <4>1 DEF Claimable, SavedRun, Terminal
      <4> QED
        BY <2>2, <3>1, <4>1, <4>2, SavedKept DEF Claim, TypeOK
    <3>2. CASE job[w] # r /\ ~Claim(w)
      <4>1. status'[r] = status[r]
        BY <1>2, <2>2, <2>6, <3>2 DEF TypeOK, MarkFailed,
           Work, Drive, Stall, Heartbeat, Load, Check, Start, AskTimesOut, GoOn,
           Complete, FailRun, NoServers, AskUser, WatchStop, WatchReply, CopyMailbox,
           Acknowledge, LeaveLoop, ReportFails, Raise, Crash
      <4>2. \A v \in Workers : job'[v] = job[v] \/ job'[v] = NoRun
        BY <1>2, <2>6, <3>2 DEF TypeOK, Release, Only,
           Work, Drive, Stall, Heartbeat, Load, Check, Start, AskTimesOut, GoOn,
           Complete, FailRun, NoServers, AskUser, WatchStop, WatchReply, CopyMailbox,
           Acknowledge, LeaveLoop, ReportFails, Raise, Crash
      <4>3. \A v \in Workers \ {w} : pc'[v] = pc[v]
        BY <1>2, <2>6, <3>2 DEF TypeOK, Release, Only, Goto,
           Work, Drive, Stall, Heartbeat, Load, Check, Start, AskTimesOut, GoOn,
           Complete, FailRun, NoServers, AskUser, WatchStop, WatchReply, CopyMailbox,
           Acknowledge, LeaveLoop, ReportFails, Raise, Crash
      <4> QED
        BY <2>2, <3>2, <4>1, <4>2, <4>3, SavedKept, RunsAssumption
    <3>3. CASE job[w] = r /\ ~Claim(w)
      <4>1. pc[w] \in {"saved", "complete"}
        BY <2>2, <3>3 DEF SavedRun
      <4>2. CASE ReportFails(w)
        BY <2>2, <4>2, SavedKept DEF ReportFails, Only, Goto, TypeOK, Terminal
      <4>3. CASE Complete(w) \/ Crash(w)
        <5>1. job' = [job EXCEPT ![w] = NoRun] /\ pc' = [pc EXCEPT ![w] = "idle"] /\ status' = status
          BY <4>3 DEF Complete, Crash, Release, Goto
        <5> QED
          BY <2>2, <5>1, SavedKept, RunsAssumption DEF TypeOK
      <4>4. CASE Heartbeat(w) \/ Stall(w) \/ CopyMailbox(w) \/ Acknowledge(w)
        BY <2>2, <4>4, SavedKept DEF Heartbeat, Stall, CopyMailbox, Acknowledge
      <4> QED
        BY <1>2, <2>6, <3>3, <4>1, <4>2, <4>3, <4>4 DEF Work, Drive, Load, Check, Start, AskTimesOut, GoOn,
           NoServers, FailRun, AskUser, WatchStop, WatchReply, LeaveLoop, Raise
    <3> QED
      BY <3>1, <3>2, <3>3
  <2> QED
    BY <2>3, <2>4, <2>5, <2>6 DEF Next
<1> QED
  BY <1>1, <1>2

\* The work of a run whose outcome was saved is not begun again: the crash of
\* a worker that has yet to complete the dispatch leaves nothing to claim.
THEOREM NotRunAgainCorrect == Spec => NotRunAgain
<1>1. Init => LeaseInv /\ OutcomeInv
  BY DEF Init, LeaseInv, OutcomeInv
<1>2. TypeOK /\ OutcomeInv =>
        (stalls = 0 => \A w \in Workers : Start(w) => job[w] \notin reported \/ job[w] \in revived)
  BY DEF OutcomeInv, SavedRun, Start, TypeOK
<1> QED
  BY <1>1, <1>2, LeaseStep, OutcomeStep, AgentTypeCorrect, PTL DEF Spec, NotRunAgain
=============================================================================
