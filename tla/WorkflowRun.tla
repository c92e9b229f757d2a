---------------------------- MODULE WorkflowRun ----------------------------
(***************************************************************************)
(* A workflow job: a row of its own, a loop in the process that launched   *)
(* it, and a job per node whose row names it as its parent.                *)
(*                                                                         *)
(* The loop ticks: it reads the status of its row, then the abort flag,    *)
(* asks for an approval or looks for the answer to the one it waits on,    *)
(* and starts what may start. The nodes it started run next to it, each a  *)
(* promise of its own that goes on when the loop does not. A job is never  *)
(* handed to another loop: when this one is gone, a sweep gives the row up.*)
(*                                                                         *)
(* A node's job has a life of its own (JobLifecycle, RteDelivery): here it *)
(* is a job of AWX, which its follower ends, a user aborts, a sweep gives  *)
(* up and another process may follow again.                                *)
(***************************************************************************)
EXTENDS JobRow, WorkflowDefs, Sequences

CONSTANTS Home,         \* the process whose loop runs the workflow
          Worker,       \* the worker: it sweeps, and follows lost jobs again
          None,         \* no node of the workflow
          Graph,        \* the workflows of this run
          FaultKinds,   \* the faults of this run: a subset of AllFaults
          MaxFaults     \* how many of them happen

AllFaults == {"crash",      \* the process of the loop stops
              "lapse",      \* it writes no heartbeat for NODE_DEAD_SECONDS
              "day",        \* the workflow prints nothing for a day
              "statement",  \* a statement of the loop, or of a node's run, throws
              "slow"}       \* the graph is saved slowly: a node ends and is gone meanwhile

ASSUME WorkflowAssumption ==
  /\ Home \in Node /\ Worker \in Node /\ Home # Worker
  /\ Id \subseteq Nat /\ IsFiniteSet(Id) /\ None \notin Id
  /\ Graph \subseteq Graphs /\ \A g \in Graph : ~LoopIn(g)
  /\ MaxFaults \in Nat /\ FaultKinds \subseteq AllFaults

VARIABLES
  graph,     \* the workflow
  row,       \* the row of the workflow job
  state,     \* [Id -> State] the loop's state map
  run,       \* [Id -> Pc] where run(node) is for each node
  child,     \* [Id -> Row] the rows of the nodes' jobs
  follower,  \* [Id -> Node] the process whose loop follows the node's job, NoNode for none
  resumed,   \* [Id -> SUBSET Node] the processes that took the job over and have still to say so
             \* to the workflow
  loop,      \* the loop
  approvals, \* the approval nodes asked or queued, the first one is asked first
  aborting,  \* whether a Job.abort has flagged the workflow and not read its jobs yet
  up, fresh, \* whether Home runs, and whether its heartbeat is young
  faults,    \* how many faults happened
  hist       \* for the properties: whether a statement of the loop threw, whether a node ended behind
             \* a slow save, whether a taken-over job ended the workflow; the nodes whose end was
             \* amended, and those whose job an abort, or the writing of its end, failed for

vars == <<graph, row, state, run, child, follower, resumed, loop, approvals, aborting, up, fresh, faults, hist>>

\* of run(node): asked is an approval, done a node whose status is set and whose output is copied
RunPc == {"off", "launch", "pass", "wait", "asked", "done"}
LoopPc == {"off", "find", "read", "flag", "unhold", "cancel", "ask", "answer", "next", "begin", "end"}
\* seen: the status read last; waiting: the approval node waited on; todo: what starts after the save
Loop == [pc : LoopPc, seen : Status, waiting : Id \cup {None}, aborted : BOOLEAN, todo : SUBSET Id]
Off == [pc |-> "off", seen |-> "running", waiting |-> None, aborted |-> FALSE, todo |-> {}]

TypeOK ==
  /\ graph \in Graph
  /\ row \in Row /\ row.job_type = "workflow"
  /\ state \in [Id -> State] /\ run \in [Id -> RunPc]
  /\ child \in [Id -> Row] /\ follower \in [Id -> Node \cup {NoNode}] /\ resumed \in [Id -> SUBSET Node]
  /\ loop \in Loop /\ approvals \in Seq(Id)
  /\ aborting \in BOOLEAN /\ up \in BOOLEAN /\ fresh \in BOOLEAN
  /\ faults \in 0..MaxFaults
  /\ hist \in [threw : BOOLEAN, overtaken : BOOLEAN, overruled : BOOLEAN,
               amended : SUBSET Id, untold : SUBSET Id, unwatched : SUBSET Id]

Init ==
  /\ graph \in Graph
  /\ row = AbsentRow("workflow")
  /\ state = [n \in Id |-> [status |-> "pending", doNotRun |-> FALSE]]
  /\ run = [n \in Id |-> "off"]
  /\ child = [n \in Id |-> AbsentRow("awx")]
  /\ follower = [n \in Id |-> NoNode] /\ resumed = [n \in Id |-> {}]
  /\ loop = Off /\ approvals = <<>>
  /\ aborting = FALSE /\ up = TRUE /\ fresh = TRUE
  /\ faults = 0
  /\ hist = [threw |-> FALSE, overtaken |-> FALSE, overruled |-> FALSE,
             amended |-> {}, untold |-> {}, unwatched |-> {}]

Fault(kind) == kind \in FaultKinds /\ faults < MaxFaults /\ faults' = faults + 1

At(pc) == loop.pc = pc
Goes(pc) == loop' = [loop EXCEPT !.pc = pc]

\* the map of running nodes
Running == {n \in Id : run[n] # "off"}

Jobs == <<child, follower, resumed>>
Nodes == <<state, run, approvals>>
Around == UNCHANGED <<graph, aborting, up, fresh>>

-----------------------------------------------------------------------------
(* The loop of runWorkflow                                                 *)

\* Job.launch : the row is created, the loop starts in the background
Launch ==
  /\ up /\ row.status = "absent"
  /\ row' = CreateRow(row, Home)
  /\ loop' = [Off EXCEPT !.pc = "find"]
  /\ Around /\ UNCHANGED <<Nodes, Jobs, faults, hist>>

\* the workflow is found and can run, or not
Find ==
  /\ At("find")
  /\ \/ Goes("read") /\ UNCHANGED row
     \/ loop' = Off /\ row' = EndRow(row, "failed")
  /\ Around /\ UNCHANGED <<Nodes, Jobs, faults, hist>>

\* stillUnderWay : the loop's to drive
StillUnderWay(status, waiting) ==
  status \in {"running", "approve", "aborted"} \/ (status = "rejected" /\ waiting # None)

Read ==
  /\ At("read")
  /\ loop' = IF StillUnderWay(row.status, loop.waiting) THEN [loop EXCEPT !.seen = row.status, !.pc = "flag"] ELSE Off
  /\ Around /\ UNCHANGED <<row, Nodes, Jobs, faults, hist>>

\* what is left of a tick that was aborted before
Rest == IF Running = {} THEN "end" ELSE "read"

Flag ==
  /\ At("flag")
  /\ IF loop.aborted THEN Goes(Rest)
     ELSE IF loop.seen = "aborted" \/ row.abort_requested
     THEN loop' = [loop EXCEPT !.pc = "unhold", !.aborted = TRUE]
     ELSE Goes("ask")
  /\ Around /\ UNCHANGED <<row, Nodes, Jobs, faults, hist>>

\* an abort: a held or a rejected workflow runs again, to end as aborted ...
Unhold_HeldOnly ==
  /\ At("unhold")
  /\ row' = TransitionStatus(row, {"approve"}, "running", FALSE)
  /\ Goes("cancel")
  /\ Around /\ UNCHANGED <<Nodes, Jobs, faults, hist>>
Unhold ==
  /\ At("unhold")
  /\ row' = TransitionStatus(row, {"approve", "rejected"}, "running", FALSE)
  /\ Goes("cancel")
  /\ Around /\ UNCHANGED <<Nodes, Jobs, faults, hist>>

\* these jobs are told of the abort, each on its own: the ones whose statement fails are passed over
Tell(asked) ==
  \E missed \in SUBSET asked :
    /\ IF missed = {} THEN UNCHANGED faults ELSE Fault("statement")
    /\ child' = [n \in Id |-> IF n \in asked \ missed THEN RequestAbortRow(child[n]) ELSE child[n]]
    /\ hist' = [hist EXCEPT !.untold = (@ \ asked) \cup missed]

\* ... the jobs that run are aborted, the approvals canceled
Cancel ==
  /\ At("cancel")
  /\ LET asked == {n \in Id : run[n] = "asked"}
         run1 == [n \in Id |-> IF n \in asked THEN "off" ELSE run[n]]
     IN /\ state' = [n \in Id |-> IF n \in asked THEN [state[n] EXCEPT !.status = "canceled"] ELSE state[n]]
        /\ run' = run1
        /\ loop' = [loop EXCEPT !.waiting = None, !.pc = IF \A n \in Id : run1[n] = "off" THEN "end" ELSE "read"]
  /\ approvals' = <<>>
  /\ Tell({n \in Id : run[n] \in {"pass", "wait", "done"} /\ child[n].status = "running"})
  /\ Around /\ UNCHANGED <<row, follower, resumed>>

\* askApproval, one node at a time; only a running job waits
AskApproval ==
  /\ At("ask") /\ loop.waiting = None /\ approvals # <<>>
  /\ row' = TransitionStatus(row, {"running"}, "approve", row.end)
  /\ loop' = [loop EXCEPT !.pc = "next", !.waiting = IF row.status = "running" THEN Head(approvals) ELSE None]
  /\ Around /\ UNCHANGED <<Nodes, Jobs, faults, hist>>

NoApproval ==
  /\ At("ask") /\ loop.waiting = None /\ approvals = <<>>
  /\ Goes("next")
  /\ Around /\ UNCHANGED <<row, Nodes, Jobs, faults, hist>>

\* the status is read again for the answer
ReadAnswer ==
  /\ At("ask") /\ loop.waiting # None
  /\ loop' = [loop EXCEPT !.pc = "answer", !.seen = row.status]
  /\ Around /\ UNCHANGED <<row, Nodes, Jobs, faults, hist>>

\* the node waited on is answered
Answers(status) ==
  /\ state' = [state EXCEPT ![loop.waiting].status = status]
  /\ run' = [run EXCEPT ![loop.waiting] = "off"]
  /\ approvals' = Tail(approvals)
  /\ loop' = [loop EXCEPT !.pc = "next", !.waiting = None]
  /\ Around /\ UNCHANGED <<Jobs, faults, hist>>

\* approvalOutcome : approved, the job running again; rejected, only the node was; timed out, over
\* an answer that came since the status was read
Approved == At("answer") /\ loop.seen = "running" /\ Answers("successful") /\ UNCHANGED row

Rejected ==
  /\ At("answer") /\ loop.seen = "rejected"
  /\ Answers("failed")
  /\ row' = TransitionStatus(row, {"rejected"}, "running", FALSE)

TimedOut ==
  /\ At("answer") /\ loop.seen = "approve" /\ loop.waiting \in graph.timed
  /\ Answers("failed")
  /\ row' = TransitionStatus(row, {"approve"}, "running", FALSE)

NotAnswered ==
  /\ At("answer") /\ loop.seen \notin {"running", "rejected"}
  /\ Goes("next")
  /\ Around /\ UNCHANGED <<row, Nodes, Jobs, faults, hist>>

\* a set of nodes in the order of the workflow
InOrder(s) == [i \in 1..Cardinality(s) |-> CHOOSE n \in s : Cardinality({m \in s : m < n}) = i - 1]

\* these start; the loop ends when nothing runs
Busy_Jobs(run1) == \E n \in Id : run1[n] \notin {"off", "asked"}
Busy(run1) == \E n \in Id : run1[n] # "off"

Begins(todo, state1) ==
  LET asked == {n \in todo : graph.type[n] = "approval"}
      run1 == [n \in Id |-> IF n \notin todo THEN run[n] ELSE IF n \in asked THEN "asked" ELSE "launch"]
  IN /\ state' = [n \in Id |-> IF n \in todo THEN [state1[n] EXCEPT !.status = "running"] ELSE state1[n]]
     /\ run' = run1
     /\ approvals' = approvals \o InOrder(asked)
     /\ loop' = [loop EXCEPT !.todo = {}, !.pc = IF Busy(run1) THEN "read" ELSE "end"]

\* what will never run is marked, what may start starts; the graph is saved in between, which
\* no node overtakes ...
NextStep ==
  /\ At("next")
  /\ \E state1 \in {AfterSkips(graph, state)} : Begins(Starts(graph, state1), state1)
  /\ Around /\ UNCHANGED <<row, Jobs, faults, hist>>

\* ... but when it takes long
SlowSave ==
  /\ At("next") /\ Fault("slow")
  /\ state' = AfterSkips(graph, state)
  /\ loop' = [loop EXCEPT !.pc = "begin", !.todo = Starts(graph, state')]
  /\ Around /\ UNCHANGED <<row, run, approvals, Jobs, hist>>

Begin ==
  /\ At("begin")
  /\ Begins(loop.todo, state)
  /\ Around /\ UNCHANGED <<row, Jobs, faults, hist>>

\* the end, which a workflow a sweep gave up meanwhile takes as well
End ==
  /\ At("end")
  /\ row' = EndRow(row, IF loop.aborted THEN "aborted" ELSE IF WorkflowFailed(graph, state) THEN "failed" ELSE "success")
  /\ state' = IF loop.aborted
              THEN [n \in Id |-> [state[n] EXCEPT !.doNotRun = @ \/ state[n].status = "pending"]]
              ELSE state
  /\ loop' = Off
  /\ Around /\ UNCHANGED <<run, approvals, Jobs, faults, hist>>

\* a statement of the loop throws, or the catch of a node's run can not write either: failJobOnError
\* ends the job if it can, from running or abandoned; the nodes' runs go on
LoopThrows ==
  /\ ~At("off") /\ Fault("statement")
  /\ row' = EndRow(row, "failed") \/ UNCHANGED row
  /\ loop' = Off
  /\ hist' = [hist EXCEPT !.threw = TRUE]
  /\ Around /\ UNCHANGED <<Nodes, Jobs>>

-----------------------------------------------------------------------------
(* run(node), next to the loop                                             *)

\* finish : the status is set, the output copied after it
Finishes(n, status) ==
  /\ state' = [state EXCEPT ![n].status = status]
  /\ run' = [run EXCEPT ![n] = "done"]
  /\ hist' = [hist EXCEPT !.overtaken = @ \/ At("begin")]
  /\ Around /\ UNCHANGED <<row, Jobs, loop, approvals, faults>>

Met(n) == n \notin graph.unmet

SkipNode(n) == run[n] = "launch" /\ ~Met(n) /\ Finishes(n, "skipped")

\* no row: a runner that is gone, a launch that is refused
Refused(n) == run[n] = "launch" /\ Met(n) /\ graph.type[n] = "job" /\ Finishes(n, "failed")

\* Repository.pull
Pull(n) == run[n] = "launch" /\ Met(n) /\ graph.type[n] = "project" /\ \E s \in {"successful", "failed"} : Finishes(n, s)

LaunchNode(n) ==
  /\ run[n] = "launch" /\ Met(n) /\ graph.type[n] = "job"
  /\ child' = [child EXCEPT ![n] = StoreIdRow(CreateRow(@, Home))]
  /\ follower' = [follower EXCEPT ![n] = Home]
  /\ run' = [run EXCEPT ![n] = "pass"]
  /\ Around /\ UNCHANGED <<row, state, resumed, loop, approvals, faults, hist>>

\* an abort that came in while it was being created is passed on
PassAbort_Never(n) ==
  /\ run[n] = "pass"
  /\ run' = [run EXCEPT ![n] = "wait"]
  /\ Around /\ UNCHANGED <<row, state, Jobs, loop, approvals, faults, hist>>
PassAbort(n) ==
  /\ run[n] = "pass"
  /\ child' = IF row.abort_requested THEN [child EXCEPT ![n] = RequestAbortRow(@)] ELSE child
  /\ run' = [run EXCEPT ![n] = "wait"]
  /\ Around /\ UNCHANGED <<row, state, follower, resumed, loop, approvals, faults, hist>>

\* its job has ended, the end written or not, or is another process's now
Settled(n) == child[n].end \/ follower[n] = NoNode \/ FollowedElsewhere(child[n], Home)

StatusOfJob(r) ==
  IF r.status \in {"success", "warning"} THEN "successful" ELSE IF r.status = "aborted" THEN "canceled" ELSE "failed"

NodeEnds(n) == run[n] = "wait" /\ Settled(n) /\ Finishes(n, StatusOfJob(child[n]))

\* a statement of it throws, and its own catch ends the node as failed: the abort is not passed on to
\* a job that runs, the end of the job is not read, or the lines of an end that was set are not written
NodeThrows(n) ==
  /\ run[n] = "pass" \/ (run[n] = "wait" /\ Settled(n)) \/ (run[n] = "done" /\ state[n].status # "failed")
  /\ Fault("statement")
  /\ state' = [state EXCEPT ![n].status = "failed"]
  /\ run' = [run EXCEPT ![n] = "done"]
  /\ hist' = [hist EXCEPT !.overtaken = @ \/ At("begin"),
                          !.amended = IF run[n] = "done" THEN @ \cup {n} ELSE @,
                          !.untold = IF run[n] = "pass" /\ row.abort_requested THEN @ \cup {n} ELSE @]
  /\ Around /\ UNCHANGED <<row, Jobs, loop, approvals>>

NodeLeaves(n) ==
  /\ run[n] = "done"
  /\ run' = [run EXCEPT ![n] = "off"]
  /\ Around /\ UNCHANGED <<row, state, Jobs, loop, approvals, faults, hist>>

-----------------------------------------------------------------------------
(* The requests                                                            *)

\* Job.approve of a workflow job : its loop runs on
Approve ==
  /\ row.status = "approve"
  /\ row' = TransitionStatus(row, {"approve"}, "running", FALSE)
  /\ Around /\ UNCHANGED <<Nodes, Jobs, loop, faults, hist>>

Reject ==
  /\ row.status = "approve"
  /\ row' = RejectRow(row)
  /\ Around /\ UNCHANGED <<Nodes, Jobs, loop, faults, hist>>

\* Job.abort : the workflow is flagged ...
Abort ==
  /\ UnderWay(row) /\ ~row.abort_requested /\ ~aborting
  /\ row' = RequestAbortRow(row)
  /\ aborting' = TRUE
  /\ UNCHANGED <<graph, Nodes, Jobs, loop, up, fresh, faults, hist>>

\* ... and then the jobs it finds running
AbortJobs ==
  /\ aborting
  /\ Tell({n \in Id : child[n].status = "running"})
  /\ aborting' = FALSE
  /\ UNCHANGED <<graph, row, Nodes, follower, resumed, loop, up, fresh>>

\* Job.abort of one node's job
AbortNode(n) ==
  /\ child[n].status = "running" /\ ~child[n].abort_requested
  /\ child' = [child EXCEPT ![n] = RequestAbortRow(@)]
  /\ Around /\ UNCHANGED <<row, Nodes, follower, resumed, loop, faults, hist>>

-----------------------------------------------------------------------------
(* The jobs of the nodes (JobLifecycle has their whole life)               *)

ChildEnds(n) ==
  /\ follower[n] # NoNode
  /\ \E o \in {"success", "failed"} \cup (IF child[n].abort_requested THEN {"aborted"} ELSE {}) :
       child' = [child EXCEPT ![n] = EndRow(@, o)]
  /\ follower' = [follower EXCEPT ![n] = NoNode]
  /\ Around /\ UNCHANGED <<row, Nodes, resumed, loop, faults, hist>>

\* its follower sees the end and cannot write it, which is only logged: the job still reads running
EndLost(n) ==
  /\ follower[n] # NoNode /\ child[n].status \in ENDS_FROM /\ Fault("statement")
  /\ follower' = [follower EXCEPT ![n] = NoNode]
  /\ hist' = [hist EXCEPT !.unwatched = @ \cup {n}]
  /\ Around /\ UNCHANGED <<row, Nodes, child, resumed, loop>>

\* resumeAbandoned; a workflow job is never followed again
TakeOver(n, m) ==
  /\ Resumable(child[n], FALSE) /\ follower[n] # m
  /\ child' = [child EXCEPT ![n] = ClaimRow(@, @.tracker, m)]
  /\ follower' = [follower EXCEPT ![n] = m]
  /\ resumed' = [resumed EXCEPT ![n] = @ \cup {m}]
  /\ Around /\ UNCHANGED <<row, Nodes, loop, faults, hist>>

\* endParent : whoever took the job over and follows it no more ends the workflow as failed, as if it
\* were a multistep, one whose loop runs too; a failure is only logged
EndParent(n, m) ==
  /\ m \in resumed[n] /\ follower[n] # m
  /\ row' = EndRow(row, "failed")
  /\ resumed' = [resumed EXCEPT ![n] = @ \ {m}]
  /\ hist' = [hist EXCEPT !.overruled = @ \/ row.status \in ENDS_FROM]
  /\ Around /\ UNCHANGED <<Nodes, child, follower, loop, faults>>

-----------------------------------------------------------------------------
(* Processes and sweeps                                                    *)

Crash ==
  /\ up /\ Fault("crash")
  /\ up' = FALSE
  /\ loop' = Off /\ approvals' = <<>>
  /\ run' = [n \in Id |-> "off"]
  /\ follower' = [n \in Id |-> IF follower[n] = Home THEN NoNode ELSE follower[n]]
  /\ resumed' = [n \in Id |-> resumed[n] \ {Home}]
  /\ UNCHANGED <<graph, row, state, child, aborting, fresh, hist>>

\* a start gives up the jobs of this process's previous run, a held workflow too
Restart ==
  /\ ~up
  /\ up' = TRUE /\ fresh' = TRUE
  /\ row' = AbandonOwnRow(row, Home, FALSE)
  /\ child' = [n \in Id |-> AbandonOwnRow(child[n], Home, FALSE)]
  /\ UNCHANGED <<graph, Nodes, follower, resumed, loop, aborting, faults, hist>>

Lapse ==
  /\ fresh
  /\ fresh' = FALSE
  /\ IF up THEN Fault("lapse") ELSE UNCHANGED faults
  /\ UNCHANGED <<graph, row, Nodes, Jobs, loop, aborting, up, hist>>

Heartbeat ==
  /\ up /\ ~fresh
  /\ fresh' = TRUE
  /\ UNCHANGED <<graph, row, Nodes, Jobs, loop, aborting, up, faults, hist>>

\* the worker's sweep of dead nodes: the workflow and its jobs in one statement
Recent == {Worker} \cup (IF fresh THEN {Home} ELSE {})

SweepDead ==
  /\ row' = AbandonDeadRow(row, Worker, Recent, {})
  /\ child' = [n \in Id |-> AbandonDeadRow(child[n], Worker, Recent, {})]
  /\ Around /\ UNCHANGED <<Nodes, follower, resumed, loop, faults, hist>>

\* Job.abandon : nothing printed for a day, by a loop that is gone or one whose nodes take that long;
\* a held workflow is not swept
SweepQuiet ==
  /\ row.status = "running"
  /\ \/ At("off") /\ UNCHANGED faults
     \/ At("read") /\ Fault("day")
  /\ row' = AbandonQuietRow(row)
  /\ Around /\ UNCHANGED <<Nodes, Jobs, loop, hist>>

-----------------------------------------------------------------------------
LoopStep ==
  \/ Find \/ Read \/ Flag \/ Unhold \/ Cancel \/ AskApproval \/ NoApproval \/ ReadAnswer
  \/ Approved \/ Rejected \/ TimedOut \/ NotAnswered \/ NextStep \/ Begin \/ End

NodeStep(n) ==
  SkipNode(n) \/ Refused(n) \/ Pull(n) \/ LaunchNode(n) \/ PassAbort(n) \/ NodeEnds(n) \/ NodeLeaves(n)

Request == Launch \/ Approve \/ Reject \/ Abort \/ AbortJobs \/ \E n \in Id : AbortNode(n)

Process == Crash \/ Restart \/ Lapse \/ Heartbeat \/ SweepDead \/ SweepQuiet \/ LoopThrows \/ SlowSave

Next ==
  \/ LoopStep \/ Request \/ Process
  \/ \E n \in Id :
       \/ NodeStep(n) \/ NodeThrows(n) \/ ChildEnds(n) \/ EndLost(n)
       \/ TakeOver(n, Worker) \/ (up /\ TakeOver(n, Home)) \/ \E m \in Node : EndParent(n, m)

Spec == Init /\ [][Next]_vars

\* a loop ticks, a node's run goes on, a request does what it began, a job ends on its runner,
\* the heartbeat of a stopped process grows old, the worker sweeps every minute and every hour
Fairness ==
  /\ WF_vars(LoopStep) /\ WF_vars(AbortJobs)
  /\ \A n \in Id : WF_vars(NodeStep(n)) /\ WF_vars(ChildEnds(n))
  /\ WF_vars(SweepDead) /\ WF_vars(SweepQuiet) /\ WF_vars(~up /\ Lapse)

FairSpec == Spec /\ Fairness

-----------------------------------------------------------------------------
(* What the users see: WorkflowPromise, under this mapping                 *)

Promise == INSTANCE WorkflowPromise WITH
  drive <- IF loop.pc # "off" THEN "on" ELSE IF row.status = "absent" THEN "before" ELSE "over",
  node  <- state,
  jobs  <- {n \in Id : child[n].status # "absent"},
  well  <- row.status = "success",
  writing <- {n \in Id : run[n] = "done"},
  amended <- hist.amended

\* Every step of the loop, of a node's run, of a request or a sweep is one the promise allows: a node
\* starts after its links, once, with one job at most, and stays ended once its end is written
\* (nextStep, runChild, finish).
WorkflowKept == Promise!Spec

\* The jobs of the nodes, under JobPromise: a row that is there was launched once, as nothing launches it again.
NodeJobs == INSTANCE JobPromise WITH
  Job   <- Id,
  phase <- [n \in Id |-> PhaseOf(child[n].status)],
  runs  <- [n \in Id |-> IF child[n].status = "absent" THEN 0 ELSE 1],
  told  <- [n \in Id |-> IF child[n].status \in Outcome THEN 1 ELSE 0]

\* Every step of the workflow is, for the job of each node, a move the promise allows: it ends once, is given
\* up and followed again, and what has ended stays as it ended (runChild, Job.endJobStatus).
NodeJobsKept == NodeJobs!Spec

-----------------------------------------------------------------------------
(* Properties                                                              *)

\* A workflow that ends by itself forgot nothing: no node's run goes on, none waits to be approved, and
\* the ones that never ran could not have, in any future of the graph - unless a node ended while the
\* graph was being saved, or failed after it had been said to be well. It ends as success only when
\* each of its jobs did well, or what came of it was handled (the loop, nextStep, workflowFailed).
TruthfulWorkflow ==
  /\ At("end") /\ ~loop.aborted /\ ~hist.overtaken /\ hist.amended = {}
       => Running = {} /\ MayRun(graph, state) = {}
  /\ row.status = "success" =>
       \A n \in Id : Handled(graph, n) \/ child[n].status \in {"absent", "success", "aborted"}

\* An abort reaches every job of the workflow, one whose node its run took for failed too: once the
\* loop has acted on it, and for a node the loop has no more the request has, no job runs that was not
\* told, whichever of the loop, the node's run and the request came first - but one for which the
\* statement that tells it, or the one that ends it, failed, and one another process follows by now.
AbortReachesNodes ==
  loop.aborted /\ loop.pc \notin {"unhold", "cancel"} /\ UnderWay(row) =>
    \A n \in Id \ (hist.untold \cup hist.unwatched) :
      /\ run[n] \in {"wait", "done"} \/ (run[n] = "off" /\ ~aborting)
      /\ child[n].status = "running" /\ ~Settled(n)
      => child[n].abort_requested

\* A workflow comes to rest, or to an approval; one that is aborted comes to rest held or not, and as
\* aborted once its loop has acted on it, whatever answer the approval got meanwhile; and so does
\* one whose loop is gone, which a sweep gives up - unless a statement threw, while it was held, or a
\* job of it was taken over and ended it (runWorkflow, stillUnderWay, the sweeps, endParent).
ComesToRest ==
  /\ row.status = "running" ~> row.status # "running"
  /\ UnderWay(row) /\ row.abort_requested ~> ~UnderWay(row) \/ At("off")
  /\ loop.aborted /\ ~At("unhold") ~> \/ row.status \in {"aborted", "abandoned"} \/ hist.threw
                                      \/ row.status = "failed" /\ hist.overruled
  /\ UnderWay(row) /\ At("off") /\ (row.status = "running" \/ ~hist.threw) ~> ~UnderWay(row)
=============================================================================
