---------------------------- MODULE JobLifecycle ----------------------------
(***************************************************************************)
(* The life of the jobs that run on a remote runner (a form of type awx):  *)
(* launched by an app node, held for approval, run on AWX, followed by a   *)
(* polling loop in that node, aborted, swept when the node dies, taken     *)
(* over by another node, ended once.                                       *)
(*                                                                         *)
(* The processes share the jobs table (row), the heartbeats (fresh) and    *)
(* the worker lock (lock); what a process keeps in memory (mem, task) and  *)
(* the loops it runs (loop) go when it stops. Every statement on the       *)
(* database is a step of its own, so a crash, a sweep or another node's    *)
(* statement may come between any two of them.                             *)
(***************************************************************************)
EXTENDS JobRow, Naturals

CONSTANTS Job,          \* job ids
          Loop,         \* the polling loops that may run at the same time, all nodes together
          Gated,        \* the jobs whose form may ask for an approval
          Legacy,       \* the jobs that may run since before 7, which no node follows
          Ageing,       \* the jobs that may be there for more than a day
          FaultKinds,   \* the faults of this run: a subset of AllFaults
          MaxFaults     \* how many of them happen

AllFaults == {"crash",     \* a process stops
              "lapse",     \* a live node writes no heartbeat for NODE_DEAD_SECONDS
              "database"}  \* the first statement of a take-over fails

ASSUME JobAssumption ==
  /\ Gated \subseteq Job /\ Ageing \subseteq Job /\ Legacy \subseteq Job /\ Gated \cap Legacy = {}
  /\ FaultKinds \subseteq AllFaults /\ MaxFaults \in Nat

VARIABLES
  row,      \* [Job -> Row] the jobs table
  fresh,    \* the nodes whose heartbeat is within NODE_DEAD_SECONDS
  lock,     \* the holder of the worker lock in the database
  up,       \* the processes that run
  mem,      \* [Node -> Memory] lib/jobResume.js startDone and startChain, keepWorkerLock acquired
  task,     \* [Node -> [Thread -> Task]] the take-overs under way in each process
  loop,     \* [Loop -> the loop's state] the loops that follow a job
  remote,   \* [Job -> RemoteStatus] what the job is on the remote runner
  old,      \* the jobs started more than a day ago
  hist,     \* what happened to each job, for the properties only
  faults    \* how many faults happened

vars == <<row, fresh, lock, up, mem, task, loop, remote, old, hist, faults>>

RemoteStatus == {"none", "running", "successful", "failed", "canceled"}
Thread == {"start", "sweep"}

\* a loop: gate and dispatch (runners/orchestrator.js), posted (the launch was answered), resume
\* (Awx.resume), check and poll (one turn of Awx.trackJob), end (about to write `answer`)
LoopPc == {"free", "gate", "dispatch", "posted", "resume", "check", "poll", "end"}
FreeLoop == [pc |-> "free"]
ActiveLoop == [pc : LoopPc \ {"free"}, job : Job, node : Node, answer : Outcome]

NewMemory == [own |-> FALSE, untracked |-> FALSE, acquired |-> FALSE, asked |-> {}]
IdleTask == [pc |-> "idle", found |-> {}]

TypeOK ==
  /\ row \in [Job -> Row]
  /\ fresh \subseteq Node /\ up \subseteq Node /\ lock \in Node \cup {NoNode}
  /\ mem \in [Node -> [own : BOOLEAN, untracked : BOOLEAN, acquired : BOOLEAN, asked : SUBSET BOOLEAN]]
  /\ task \in [Node -> [Thread -> [pc : {"idle", "confirmed", "find", "claim"},
                                   found : SUBSET (Job \X (Node \cup {NoNode}))]]]
  /\ loop \in [Loop -> {FreeLoop} \cup ActiveLoop]
  /\ remote \in [Job -> RemoteStatus]
  /\ old \subseteq Job
  /\ hist \in [Job -> [ended : Nat, launched : Nat, gaveUp : BOOLEAN]]
  /\ faults \in 0..MaxFaults

LegacyRow == CreateRow(AbsentRow("awx"), NoNode)

Init ==
  /\ row \in [Job -> {AbsentRow("awx"), LegacyRow}]
  /\ \A j \in Job \ Legacy : row[j] = AbsentRow("awx")
  /\ fresh = {} /\ lock = NoNode /\ up = {}
  /\ mem = [n \in Node |-> NewMemory]
  /\ task = [n \in Node |-> [t \in Thread |-> IdleTask]]
  /\ loop = [l \in Loop |-> FreeLoop]
  /\ remote = [j \in Job |-> IF row[j] = LegacyRow THEN "running" ELSE "none"]
  /\ old = {}
  /\ hist = [j \in Job |-> [ended |-> 0, launched |-> IF row[j] = LegacyRow THEN 1 ELSE 0, gaveUp |-> FALSE]]
  /\ faults = 0

-----------------------------------------------------------------------------
(* Processes: start, stop, heartbeat, worker lock                          *)

Fault(kind) == kind \in FaultKinds /\ faults < MaxFaults /\ faults' = faults + 1

\* the memory, the loops and the database sessions of a process that stops
Forget(n) ==
  /\ up' = up \ {n}
  /\ lock' = IF lock = n THEN NoNode ELSE lock
  /\ mem' = [mem EXCEPT ![n] = NewMemory]
  /\ task' = [task EXCEPT ![n] = [t \in Thread |-> IdleTask]]
  /\ loop' = [l \in Loop |-> IF loop[l].pc # "free" /\ loop[l].node = n THEN FreeLoop ELSE loop[l]]

\* startCluster writes a heartbeat, then the start asks for its take-over
Start(n) ==
  /\ n \notin up
  /\ up' = up \cup {n} /\ fresh' = fresh \cup {n}
  /\ mem' = [mem EXCEPT ![n].asked = {FALSE}]
  /\ UNCHANGED <<row, lock, task, loop, remote, old, hist, faults>>

Crash(n) ==
  /\ n \in up /\ Fault("crash")
  /\ Forget(n)
  /\ UNCHANGED <<row, fresh, remote, old, hist>>

Heartbeat(n) ==
  /\ n \in up /\ n \notin fresh
  /\ fresh' = fresh \cup {n}
  /\ UNCHANGED <<row, lock, up, mem, task, loop, remote, old, hist, faults>>

\* the start's take-over is over (it takes far less than NODE_DEAD_SECONDS)
Started(n) == mem[n].asked = {} /\ task[n]["start"].pc = "idle"

\* the row of a node grows old : of one that stopped in any case, of a live one as a fault
Lapse(n) ==
  /\ n \in fresh
  /\ fresh' = fresh \ {n}
  /\ IF n \in up THEN Fault("lapse") /\ Started(n) ELSE UNCHANGED faults
  /\ UNCHANGED <<row, lock, up, mem, task, loop, remote, old, hist>>

\* keepWorkerLock : the first time it gets the lock the process bootstraps as the worker, which
\* asks for the take-over again, the untracked jobs included
TakeLock(n) ==
  /\ n \in up /\ lock = NoNode
  /\ lock' = n
  /\ mem' = [mem EXCEPT ![n] = [mem[n] EXCEPT
       !.acquired = TRUE,
       !.asked = IF mem[n].acquired THEN mem[n].asked ELSE mem[n].asked \cup {TRUE}]]
  /\ UNCHANGED <<row, fresh, up, task, loop, remote, old, hist, faults>>

\* the lock's connection breaks while its process runs on
LoseLock ==
  /\ lock # NoNode /\ Fault("database")
  /\ lock' = NoNode
  /\ UNCHANGED <<row, fresh, up, mem, task, loop, remote, old, hist>>

\* stopLostWorker : another process has the lock this one thought it held
StopLostWorker(n) ==
  /\ n \in up /\ mem[n].acquired /\ lock \notin {n, NoNode}
  /\ Forget(n)
  /\ UNCHANGED <<row, fresh, remote, old, hist, faults>>

-----------------------------------------------------------------------------
(* The loops: one that is free stands for one that is not started          *)

FreeLoops == {l \in Loop : loop[l].pc = "free"}

StartLoop(pc, j, n) ==
  /\ FreeLoops # {}
  /\ loop' = [loop EXCEPT ![CHOOSE l \in FreeLoops : TRUE] =
                [pc |-> pc, job |-> j, node |-> n, answer |-> "failed"]]

-----------------------------------------------------------------------------
(* Taking over abandoned jobs (lib/jobResume.js)                           *)

\* abandonAndResumeOnce, its statement : the first call ends the jobs of this node's previous run,
\* a later one that asks for the untracked jobs only those, any other does nothing. The calls run
\* one after the other, in the order they were asked.
StartTakeOver(n, untracked) ==
  /\ n \in up /\ task[n]["start"].pc = "idle"
  /\ untracked \in mem[n].asked /\ (untracked => FALSE \notin mem[n].asked)
  /\ LET first == ~mem[n].own
         later == mem[n].own /\ untracked /\ ~mem[n].untracked
     IN /\ row' = [j \in Job |->
                     IF first THEN AbandonOwnRow(row[j], n, untracked)
                     ELSE IF later THEN AbandonOwnRow(row[j], NoNode, TRUE) ELSE row[j]]
        /\ mem' = [mem EXCEPT ![n] = [mem[n] EXCEPT
             !.own = TRUE,
             !.untracked = mem[n].untracked \/ untracked,
             !.asked = mem[n].asked \ {untracked}]]
        /\ task' = [task EXCEPT ![n]["start"].pc = IF first \/ later THEN "find" ELSE "idle"]
  /\ UNCHANGED <<fresh, lock, up, loop, remote, old, hist, faults>>

\* the statement failed : the call ends, nothing is marked done
StartTakeOverFails(n, untracked) ==
  /\ n \in up /\ task[n]["start"].pc = "idle"
  /\ untracked \in mem[n].asked /\ (untracked => FALSE \notin mem[n].asked)
  /\ Fault("database")
  /\ mem' = [mem EXCEPT ![n].asked = @ \ {untracked}]
  /\ UNCHANGED <<row, fresh, lock, up, task, loop, remote, old, hist>>

\* the web server listens, and the background tasks start, once the start's take-over was sent
\* (app-start.js, init/index.js)
Serves(n) == n \in up /\ FALSE \notin mem[n].asked

\* whileWorker : the lock is confirmed before the tick runs, not while it runs
ConfirmSweep(n) ==
  /\ Serves(n) /\ lock = n /\ mem[n].acquired
  /\ task[n]["sweep"].pc = "idle"
  /\ task' = [task EXCEPT ![n]["sweep"].pc = "confirmed"]
  /\ UNCHANGED <<row, fresh, lock, up, mem, loop, remote, old, hist, faults>>

SweepDeadNodes_Only(n) ==   \* nothing is followed again
  /\ n \in up /\ task[n]["sweep"].pc = "confirmed"
  /\ row' = [j \in Job |-> AbandonDeadRow(row[j], n, fresh, {})]
  /\ task' = [task EXCEPT ![n]["sweep"].pc = "idle"]
  /\ UNCHANGED <<fresh, lock, up, mem, loop, remote, old, hist, faults>>

\* the every-minute sweep ; only when it changed a row are abandoned jobs followed again
SweepDeadNodes(n) ==
  /\ n \in up /\ task[n]["sweep"].pc = "confirmed"
  /\ row' = [j \in Job |-> AbandonDeadRow(row[j], n, fresh, {})]
  /\ task' = [task EXCEPT ![n]["sweep"].pc = IF row' # row THEN "find" ELSE "idle"]
  /\ UNCHANGED <<fresh, lock, up, mem, loop, remote, old, hist, faults>>

\* resumeAbandoned : the jobs that may be followed again are read once, with their tracker
FindResumable(n, t) ==
  /\ n \in up /\ task[n][t].pc = "find"
  /\ LET found == {<<j, row[j].tracker>> : j \in {i \in Job : Resumable(row[i], i \in old)}}
     IN task' = [task EXCEPT ![n][t] = IF found = {} THEN IdleTask
                                                    ELSE [pc |-> "claim", found |-> found]]
  /\ UNCHANGED <<row, fresh, lock, up, mem, loop, remote, old, hist, faults>>

\* claim : then a loop of this node follows the job
ClaimAbandoned(n, t, j, seen) ==
  /\ n \in up /\ task[n][t].pc = "claim" /\ <<j, seen>> \in task[n][t].found
  /\ LET rest == task[n][t].found \ {<<j, seen>>}
     IN task' = [task EXCEPT ![n][t] = IF rest = {} THEN IdleTask ELSE [task[n][t] EXCEPT !.found = rest]]
  /\ row' = [row EXCEPT ![j] = ClaimRow(@, seen, n)]
  /\ IF Claimable(row[j], seen) THEN StartLoop("resume", j, n) ELSE UNCHANGED loop
  /\ UNCHANGED <<fresh, lock, up, mem, remote, old, hist, faults>>

\* the hourly sweep, its own tick confirmed the same way : of the jobs a day old, those with no
\* output line for a day
SweepQuiet(n, quiet) ==
  /\ n \in up /\ task[n]["sweep"].pc = "confirmed" /\ quiet # {} /\ quiet \subseteq old
  /\ row' = [j \in Job |-> IF j \in quiet THEN AbandonQuietRow(row[j]) ELSE row[j]]
  /\ task' = [task EXCEPT ![n]["sweep"].pc = "idle"]
  /\ UNCHANGED <<fresh, lock, up, mem, loop, remote, old, hist, faults>>

-----------------------------------------------------------------------------
(* What users do                                                           *)

\* Job.launch : the row, and its run in the background of this node
Launch(n, j) ==
  /\ Serves(n) /\ row[j].status = "absent"
  /\ row' = [row EXCEPT ![j] = CreateRow(@, n)]
  /\ \E pc \in {"dispatch"} \cup (IF j \in Gated THEN {"gate"} ELSE {}) : StartLoop(pc, j, n)
  /\ UNCHANGED <<fresh, lock, up, mem, task, remote, old, hist, faults>>

Approve_Unclaimed(n, j) ==   \* a second approver, who read the job before the first one's claim
  /\ Serves(n) /\ row[j].status \in {"approve", "running"} /\ j \in Gated
  /\ row' = [row EXCEPT ![j] = [@ EXCEPT !.status = "running", !.tracker = n]]
  /\ StartLoop("dispatch", j, n)
  /\ UNCHANGED <<fresh, lock, up, mem, task, remote, old, hist, faults>>

\* Job.approve, Job.continue : of two approvers only the one whose claim matches runs it
Approve(n, j) ==
  /\ Serves(n) /\ row[j].status = "approve"
  /\ row' = [row EXCEPT ![j] = ContinueRow(@, n)]
  /\ StartLoop("dispatch", j, n)
  /\ UNCHANGED <<fresh, lock, up, mem, task, remote, old, hist, faults>>

Reject(j) ==
  /\ up # {} /\ row[j].status = "approve"
  /\ row' = [row EXCEPT ![j] = RejectRow(@)]
  /\ UNCHANGED <<fresh, lock, up, mem, task, loop, remote, old, hist, faults>>

\* Job.abort : the flag, then a direct cancel of the remote job that may not reach it
Abort(j) ==
  /\ up # {} /\ UnderWay(row[j]) /\ ~row[j].abort_requested
  /\ row' = [row EXCEPT ![j] = RequestAbortRow(@)]
  /\ remote' \in {remote, [remote EXCEPT ![j] = IF row[j].awx_id /\ @ = "running" THEN "canceled" ELSE @]}
  /\ UNCHANGED <<fresh, lock, up, mem, task, loop, old, hist, faults>>

\* Job.delete : whatever the job's status
Delete(j) ==
  /\ up # {} /\ Exists(row[j])
  /\ row' = [row EXCEPT ![j] = [AbsentRow("awx") EXCEPT !.status = "deleted"]]
  /\ UNCHANGED <<fresh, lock, up, mem, task, loop, remote, old, hist, faults>>

-----------------------------------------------------------------------------
(* The loop that runs and follows a job                                    *)

At(l, pc) == loop[l].pc = pc
JobOf(l) == loop[l].job
Goto(l, pc) == loop' = [loop EXCEPT ![l].pc = pc]
Stop(l) == loop' = [loop EXCEPT ![l] = FreeLoop]
Answer(l, outcome) == loop' = [loop EXCEPT ![l].pc = "end", ![l].answer = outcome]

SharedUnchanged == UNCHANGED <<fresh, lock, up, mem, task, old, faults>>

\* approvalGate : the loop ends here, the approver's node starts another
Gate(l) ==
  /\ At(l, "gate")
  /\ row' = [row EXCEPT ![JobOf(l)] = HoldRow(@)]
  /\ Stop(l)
  /\ SharedUnchanged /\ UNCHANGED <<remote, hist>>

\* no runner, or the runner refuses the launch
DispatchFails(l) ==
  /\ At(l, "dispatch")
  /\ Answer(l, "failed")
  /\ SharedUnchanged /\ UNCHANGED <<row, remote, hist>>

\* the POST that launches the remote job ; its answer may be lost, then the app ends the job
Post(l) ==
  /\ At(l, "dispatch")
  /\ remote' = [remote EXCEPT ![JobOf(l)] = "running"]
  /\ hist' = [hist EXCEPT ![JobOf(l)].launched = @ + 1]
  /\ \/ Goto(l, "posted")
     \/ Answer(l, "failed")
  /\ SharedUnchanged /\ UNCHANGED row

\* the remote id is stored ; a row deleted meanwhile makes the launch fail
StoreRemoteId(l) ==
  /\ At(l, "posted")
  /\ IF Exists(row[JobOf(l)])
     THEN row' = [row EXCEPT ![JobOf(l)] = StoreIdRow(@)] /\ Goto(l, "check")
     ELSE Answer(l, "failed") /\ UNCHANGED row
  /\ SharedUnchanged /\ UNCHANGED <<remote, hist>>

\* jobResume.js follow : the remote job is found again, or the job is given up
Resume(l) ==
  /\ At(l, "resume")
  /\ Goto(l, "check")
  /\ SharedUnchanged /\ UNCHANGED <<row, remote, hist>>

GiveUp(l) ==
  /\ At(l, "resume")
  /\ row' = [row EXCEPT ![JobOf(l)] = GiveUpRow(@)]
  /\ hist' = IF row[JobOf(l)].status = "running" THEN [hist EXCEPT ![JobOf(l)].gaveUp = TRUE] ELSE hist
  /\ Stop(l)
  /\ SharedUnchanged /\ UNCHANGED remote

\* takenOver : another node's name on the row stops this loop
Check(l) ==
  /\ At(l, "check")
  /\ IF FollowedElsewhere(row[JobOf(l)], loop[l].node) THEN Stop(l) ELSE Goto(l, "poll")
  /\ SharedUnchanged /\ UNCHANGED <<row, remote, hist>>

\* one turn with no abort : the end the remote job reached is answered, or the loop goes on
Outcomes_AllWell == [successful |-> "success", failed |-> "failed", canceled |-> "success"]
Outcomes == [successful |-> "success", failed |-> "failed", canceled |-> "aborted"]

Poll(l) ==
  /\ At(l, "poll") /\ Exists(row[JobOf(l)]) /\ ~row[JobOf(l)].abort_requested
  /\ IF remote[JobOf(l)] \in DOMAIN Outcomes THEN Answer(l, Outcomes[remote[JobOf(l)]])
                                             ELSE Goto(l, "check")
  /\ SharedUnchanged /\ UNCHANGED <<row, remote, hist>>

PollAborts_Unanswered(l) ==   \* the flag stays
  /\ At(l, "poll") /\ Exists(row[JobOf(l)]) /\ row[JobOf(l)].abort_requested
  /\ Goto(l, "check")
  /\ SharedUnchanged /\ UNCHANGED <<row, remote, hist>>

\* the flag was read : the remote job is cancelled (one that ended refuses with a 405, taken for a
\* cancel under way), the flag reset, the end still to be written ; or the abort is denied
PollAborts(l) ==
  /\ At(l, "poll") /\ Exists(row[JobOf(l)]) /\ row[JobOf(l)].abort_requested
  /\ row' = [row EXCEPT ![JobOf(l)] = ResetAbortRow(@)]
  /\ \/ /\ remote' = [remote EXCEPT ![JobOf(l)] = IF @ = "running" THEN "canceled" ELSE @]
        /\ Answer(l, "aborted")
     \/ /\ Goto(l, "check")
        /\ UNCHANGED remote
  /\ SharedUnchanged /\ UNCHANGED hist

\* lostContact : the runner stopped answering, or the row is gone
LoseContact(l) ==
  /\ At(l, "poll")
  /\ row' = [row EXCEPT ![JobOf(l)] = IF Exists(@) THEN ResetAbortRow(@) ELSE @]
  /\ Answer(l, "failed")
  /\ SharedUnchanged /\ UNCHANGED <<remote, hist>>

\* endJobStatus : the status, and the last line and the mail only when this call moved it
End(l) ==
  /\ At(l, "end")
  /\ row' = [row EXCEPT ![JobOf(l)] = EndRow(@, loop[l].answer)]
  /\ hist' = IF row[JobOf(l)].status \in ENDS_FROM THEN [hist EXCEPT ![JobOf(l)].ended = @ + 1] ELSE hist
  /\ Stop(l)
  /\ SharedUnchanged /\ UNCHANGED remote

-----------------------------------------------------------------------------
(* The world outside                                                       *)

RemoteEnds(j) ==
  /\ remote[j] = "running"
  /\ \E s \in {"successful", "failed"} : remote' = [remote EXCEPT ![j] = s]
  /\ UNCHANGED <<row, fresh, lock, up, mem, task, loop, old, hist, faults>>

\* a take-over under way read the job
Read(j) == \E n \in Node, t \in Thread, seen \in Node \cup {NoNode} : <<j, seen>> \in task[n][t].found

\* a take-over that read the job claims it within seconds, not a day later
ADayPasses(j) ==
  /\ j \in Ageing \ old /\ Exists(row[j])
  /\ ~Read(j)
  /\ old' = old \cup {j}
  /\ UNCHANGED <<row, fresh, lock, up, mem, task, loop, remote, hist, faults>>

-----------------------------------------------------------------------------
\* resumeAbandoned, in either thread
Resuming(n, t) ==
  \/ FindResumable(n, t)
  \/ \E j \in Job, seen \in Node \cup {NoNode} : ClaimAbandoned(n, t, j, seen)

StartThread(n) == Resuming(n, "start") \/ \E u \in BOOLEAN : StartTakeOver(n, u)
SweepThread(n) == ConfirmSweep(n) \/ SweepDeadNodes(n) \/ Resuming(n, "sweep")

NodeStep(n) ==
  \/ Start(n) \/ Crash(n) \/ Heartbeat(n) \/ Lapse(n) \/ TakeLock(n) \/ StopLostWorker(n)
  \/ StartThread(n) \/ SweepThread(n)
  \/ \E u \in BOOLEAN : StartTakeOverFails(n, u)
  \/ \E quiet \in SUBSET Job : SweepQuiet(n, quiet)

UserStep(j) ==
  \/ \E n \in Node : Launch(n, j) \/ Approve(n, j)
  \/ Reject(j) \/ Abort(j) \/ Delete(j)

LoopStep(l) ==
  \/ Gate(l) \/ DispatchFails(l) \/ Post(l) \/ StoreRemoteId(l) \/ Resume(l) \/ GiveUp(l)
  \/ Check(l) \/ Poll(l) \/ PollAborts(l) \/ LoseContact(l) \/ End(l)

Next ==
  \/ \E n \in Node : NodeStep(n)
  \/ LoseLock
  \/ \E j \in Job : UserStep(j) \/ RemoteEnds(j) \/ ADayPasses(j)
  \/ \E l \in Loop : LoopStep(l)

Spec == Init /\ [][Next]_vars

\* What goes on by itself: the timers of the processes that run, the loops, the restart of a
\* container when none is left. No fairness on users, on faults or on the remote job, which may run
\* for ever.
Fairness ==
  /\ \A n \in Node :
       /\ WF_vars(StartThread(n)) /\ WF_vars(SweepThread(n))
       /\ WF_vars(Heartbeat(n)) /\ WF_vars(TakeLock(n)) /\ WF_vars(StopLostWorker(n))
       /\ WF_vars(n \notin up /\ Lapse(n))
  /\ WF_vars(up = {} /\ \E n \in Node : Start(n))
  /\ \A l \in Loop : WF_vars(LoopStep(l))

FairSpec == Spec /\ Fairness

-----------------------------------------------------------------------------
(* Safety                                                                  *)

\* A job ends once: of the loops, the take-overs and the aborts that race to end it, only one
\* endJobStatus writes the end, the last line and the mail; a job no end was written for is in no
\* final status (Job.endJobStatus, ENDS_FROM).
EndedOnce ==
  \A j \in Job :
    /\ row[j].status \in Outcome => hist[j].ended = 1
    /\ row[j].status \notin Outcome \cup {"deleted"} => hist[j].ended = 0
    /\ hist[j].ended <= 1

\* A job is launched on its runner once, whoever approves it and however often it is taken over,
\* and one that waits for approval or was rejected never was (the claim of Job.continue).
LaunchedOnce ==
  \A j \in Job : /\ hist[j].launched <= 1
                 /\ row[j].status \in {"approve", "rejected"} => hist[j].launched = 0

\* The reason for it, which is inductive: the loop that is about to launch a job is the only one on
\* it, no loop works on a job that waits for its approval or was rejected, and what is taken over
\* (findResumable wants an awx_id) was launched.
Follows(l, j) == loop[l].pc # "free" /\ loop[l].job = j

Launches(l, j) == Follows(l, j) /\ loop[l].pc \in {"gate", "dispatch"}
Posted(l, j) == Follows(l, j) /\ loop[l].pc = "posted"

LaunchOK(j) ==
  /\ row[j].status \in {"absent", "approve", "rejected"} =>
       hist[j].launched = 0 /\ ~\E l \in Loop : Follows(l, j)
  /\ \A l \in Loop : Launches(l, j) => /\ hist[j].launched = 0 /\ row[j].status \notin Outcome
                                       /\ \A k \in Loop : Follows(k, j) => k = l
  /\ row[j].awx_id \/ Read(j) \/ (\E l \in Loop : Posted(l, j)) => hist[j].launched = 1
  /\ hist[j].launched <= 1

OneLauncher == \A j \in Job : LaunchOK(j)

\* The abort flag does not outlive the job (the comment in Job.transitionStatus): a flagged job is
\* running or waits for its approval; but for the ones giveUp left abandoned, whose UPDATE leaves the
\* flag as it is.
AbortAnswered ==
  \A j \in Job : row[j].abort_requested => row[j].status \in {"running", "approve"} \/ hist[j].gaveUp

\* A job is written by one follower only (the comment of Job.followedElsewhere, and "a job taken over
\* here is followed by one loop only", abandonAndResumeOnce), as long as no live node's heartbeat
\* lapses.
OneFollower ==
  \A j \in Job : \A k, l \in Loop : Follows(k, j) /\ Follows(l, j) => k = l

\* What the job says is what happened on the runner: a success is the remote job's own, however
\* often the job was given up and taken over (Awx.trackJob).
TruthfulEnd ==
  \A j \in Job : row[j].status = "success" => remote[j] = "successful"

\* A job that was launched on AWX, was given up with its node and has not ended is one that
\* findResumable returns ("not ended, started within RESUME_WITHIN_HOURS", lib/jobResume.js).
LostResumable(j) ==
  (/\ row[j].status = "abandoned" /\ row[j].awx_id /\ j \notin old
   /\ hist[j].ended = 0 /\ ~hist[j].gaveUp) => Resumable(row[j], j \in old)

LostJobsResumable == \A j \in Job : LostResumable(j)

-----------------------------------------------------------------------------
(* What a step may never do                                                *)

\* A job that ended stays as it ended, until it is deleted.
FinalStays ==
  [][\A j \in Job : row[j].status \in Outcome \cup {"rejected"} =>
        row'[j].status \in {row[j].status, "deleted"}]_vars

\* Only a job no loop follows is abandoned by a start or by the sweep of dead nodes ("the jobs this
\* node followed died with its previous run", Job.abandonOwn), the day-old quiet ones apart.
FollowedNotAbandoned ==
  [][\A j \in Job : (/\ row[j].status = "running" /\ row'[j].status = "abandoned"
                     /\ ~row'[j].end /\ j \notin old)
                    => ~\E l \in Loop : Follows(l, j)]_vars

-----------------------------------------------------------------------------
(* What the users see: JobPromise, under this mapping                      *)

Promise == INSTANCE JobPromise WITH
  phase <- [j \in Job |-> PhaseOf(row[j].status)],
  runs  <- [j \in Job |-> hist[j].launched],
  told  <- [j \in Job |-> hist[j].ended]

\* Every step of the cluster is, for every job, a move the promise allows.
PromiseKept == Promise!Spec

-----------------------------------------------------------------------------
(* Liveness, under FairSpec                                                *)

\* A job does not stay running on a node that stopped: its own restart or the worker's sweep sees it.
DeadFollowerLeaves ==
  \A j \in Job : (row[j].status = "running" /\ row[j].tracker \in Node \ up)
                    ~> (row[j].status # "running" \/ row[j].tracker \in up)

\* An abandoned job that nothing follows and that can be followed again is: "right after, the
\* abandoned jobs that a runner can follow again are taken over here" (lib/jobResume.js).
Left(j) == Resumable(row[j], j \in old) /\ ~\E l \in Loop : Follows(l, j)
ResumableTaken == \A j \in Job : Left(j) ~> ~Left(j)

\* A loop whose job another node follows now stops, though the remote job runs on (takenOver).
StaleLoopStops ==
  \A l \in Loop, j \in Job, n \in Node :
    (Follows(l, j) /\ loop[l].node = n /\ row[j].tracker \in Node \ {n})
      ~> (~(Follows(l, j) /\ loop[l].node = n) \/ row[j].tracker = n)

\* An abort is answered: by the loop that reads the flag, or by the sweep that gives the job up.
AbortHeard ==
  \A j \in Job : row[j].abort_requested ~> (~row[j].abort_requested \/ hist[j].gaveUp)
=============================================================================
