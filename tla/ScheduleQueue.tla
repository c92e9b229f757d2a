--------------------------- MODULE ScheduleQueue ---------------------------
(***************************************************************************)
(* The queue of the schedules: cron ticks and users ask for a run, the     *)
(* worker launches what was asked, one at a time and in order, a user who  *)
(* presses Run now launches it from an app node; what a stopped node left  *)
(* running is released.                                                    *)
(*                                                                         *)
(* The processes share the schedule table, the heartbeats and the worker   *)
(* lock. Every statement on the database is a step of its own; a tick      *)
(* confirms the worker lock before it runs, not while it runs.             *)
(***************************************************************************)
EXTENDS Naturals, FiniteSets

CONSTANTS Node,         \* the processes of the app
          NoNode,       \* the NULL of a claim
          Schedule,     \* the schedules
          OneTime,      \* those with one_time_run, deleted after their run
          ByHand,       \* those users run, queue and delete themselves
          MaxQueue,     \* the greatest queue_id : what bounds the asks of a run
          FaultKinds,   \* the faults of this run: a subset of AllFaults
          MaxFaults     \* how many of them happen

AllFaults == {"crash",     \* a process stops
              "lapse",     \* a live node writes no heartbeat for NODE_DEAD_SECONDS
              "slow",      \* a launch takes more than LAUNCH_MAX_MINUTES
              "connection",\* the connection of the worker lock breaks
              "statement"} \* a DELETE, or it and the UPDATE that follows, fails

ASSUME ScheduleAssumption ==
  /\ NoNode \notin Node
  /\ OneTime \subseteq Schedule /\ ByHand \subseteq Schedule
  /\ MaxQueue \in Nat /\ MaxFaults \in Nat /\ FaultKinds \subseteq AllFaults

VARIABLES
  sched,   \* [Schedule -> row] the schedule table
  fresh,   \* the nodes whose heartbeat is within NODE_DEAD_SECONDS
  lock,    \* the holder of the worker lock in the database
  phase,   \* [Node -> Phase] how far each process started
  cron,    \* [Node -> [Schedule -> pc]] the cron task of each schedule in each process
  task,    \* [Node -> [Thread -> Task]] what each process is doing: its queue, a request, a release
  hist,    \* what happened to each schedule, for the properties only
  faults   \* how many faults happened

vars == <<sched, fresh, lock, phase, cron, task, hist, faults>>

\* "worker": has held the lock and started the cron tasks, "queue": and the queue's timer
Phase == {"down", "app", "worker", "queue"}
IsWorker(n) == phase[n] \in {"worker", "queue"}
Up == {n \in Node : phase[n] # "down"}

Thread == {"queue", "request", "release"}
Idle == [pc |-> "idle"]
Busy == [pc : {"confirmed", "clear"}] \cup [pc : {"asked", "launched"}, s : Schedule]
          \cup [pc : {"picked"}, s : Schedule, id : 0..MaxQueue]

\* claim: when the row was claimed. "old": before its node last started, "late": more than
\* LAUNCH_MAX_MINUTES ago. claim_node and claim are read of a running row only.
ScheduleRow == [state : {"gone", "idle", "queued", "running"}, queue_id : 0..MaxQueue, enabled : BOOLEAN,
                claim_node : Node \cup {NoNode}, claim : {"none", "new", "old", "late"}]

TypeOK ==
  /\ sched \in [Schedule -> ScheduleRow]
  /\ fresh \subseteq Node /\ lock \in Node \cup {NoNode}
  /\ phase \in [Node -> Phase]
  /\ cron \in [Node -> [Schedule -> {"idle", "confirmed", "due"}]]
  /\ task \in [Node -> [Thread -> {Idle} \cup Busy]]
  /\ hist \in [Schedule -> [asked : Nat, extra : Nat, claims : Nat, released : Nat]]
  /\ faults \in 0..MaxFaults

IdleSchedule == [state |-> "idle", queue_id |-> 0, enabled |-> TRUE, claim_node |-> NoNode, claim |-> "none"]
GoneSchedule == [IdleSchedule EXCEPT !.state = "gone", !.enabled = FALSE]

\* a row may be left running since before 7, when no claim named its node
Init ==
  /\ sched \in [Schedule -> {IdleSchedule, [IdleSchedule EXCEPT !.state = "running"]}]
  /\ fresh = {} /\ lock = NoNode
  /\ phase = [n \in Node |-> "down"]
  /\ cron = [n \in Node |-> [s \in Schedule |-> "idle"]]
  /\ task = [n \in Node |-> [t \in Thread |-> Idle]]
  /\ hist = [s \in Schedule |-> [asked |-> 0, extra |-> 0, claims |-> 0, released |-> 0]]
  /\ faults = 0

-----------------------------------------------------------------------------
(* The statements on one row                                               *)

\* the next queue number, read and written in the same statement
NextId_Count(q) == q = Cardinality({s \in Schedule : sched[s].state = "queued"}) + 1
NextId(q) ==
  /\ \A s \in Schedule : sched[s].queue_id < q
  /\ q > 1 => \E s \in Schedule : sched[s].queue_id = q - 1

QueueRow(r, q) == [r EXCEPT !.state = "queued", !.queue_id = q, !.claim_node = NoNode, !.claim = "none"]

ClaimRow(r, n) == [r EXCEPT !.state = "running", !.claim_node = n, !.claim = "new"]

IdleRow(r) == [r EXCEPT !.state = "idle", !.claim_node = NoNode, !.claim = "none"]

\* releaseStale : the launches nobody will finish
Stale_InTime(r, atStart, n) ==
  /\ r.state = "running"
  /\ \/ r.claim_node \in Node \ fresh
     \/ atStart /\ ((r.claim_node = n /\ r.claim = "old") \/ r.claim_node = NoNode)
Stale_Named(r, atStart, n) ==
  /\ r.state = "running"
  /\ \/ r.claim_node \in Node \ fresh
     \/ r.claim = "late"
     \/ atStart /\ r.claim_node = n /\ r.claim = "old"
Stale(r, atStart, n) ==
  /\ r.state = "running"
  /\ \/ r.claim_node \in Node \ fresh
     \/ r.claim = "late"
     \/ atStart /\ ((r.claim_node = n /\ r.claim = "old") \/ r.claim_node = NoNode)

ReleaseStale(n, atStart) ==
  LET stale == {s \in Schedule : Stale(sched[s], atStart, n)}
  IN /\ sched' = [s \in Schedule |-> IF s \in stale THEN IdleRow(sched[s]) ELSE sched[s]]
     /\ hist' = [s \in Schedule |-> IF s \in stale THEN [hist[s] EXCEPT !.released = @ + 1] ELSE hist[s]]

\* what a cron task asks for: an occurrence of one that is turned off, queued or running is skipped
Due(s) == sched[s].enabled /\ sched[s].state = "idle"

Asked(h, extra) == [h EXCEPT !.asked = @ + 1, !.extra = @ + extra]

\* Schedule.queue : whatever the state of the row ; extra : 1 for an ask of a user, and of a tick
\* that would not ask any more
QueueStatement(s, extra) ==
  IF sched[s].state = "gone" THEN UNCHANGED <<sched, hist>>
  ELSE /\ \E q \in 1..MaxQueue : NextId(q) /\ sched' = [sched EXCEPT ![s] = QueueRow(@, q)]
       /\ hist' = [hist EXCEPT ![s] = Asked(@, extra)]

-----------------------------------------------------------------------------
(* Processes                                                               *)

Fault(kind) == kind \in FaultKinds /\ faults < MaxFaults /\ faults' = faults + 1

Forget(n) ==
  /\ phase' = [phase EXCEPT ![n] = "down"]
  /\ lock' = IF lock = n THEN NoNode ELSE lock
  /\ cron' = [cron EXCEPT ![n] = [s \in Schedule |-> "idle"]]
  /\ task' = [task EXCEPT ![n] = [t \in Thread |-> Idle]]

Start(n) ==
  /\ phase[n] = "down"
  /\ phase' = [phase EXCEPT ![n] = "app"] /\ fresh' = fresh \cup {n}
  /\ sched' = [s \in Schedule |-> IF sched[s].claim_node = n /\ sched[s].claim = "new"
                                  THEN [sched[s] EXCEPT !.claim = "old"] ELSE sched[s]]
  /\ UNCHANGED <<lock, cron, task, hist, faults>>

Crash(n) ==
  /\ n \in Up /\ Fault("crash")
  /\ Forget(n)
  /\ UNCHANGED <<sched, fresh, hist>>

Heartbeat(n) ==
  /\ n \in Up \ fresh
  /\ fresh' = fresh \cup {n}
  /\ UNCHANGED <<sched, lock, phase, cron, task, hist, faults>>

Lapse(n) ==
  /\ n \in fresh
  /\ fresh' = fresh \ {n}
  /\ IF n \in Up THEN Fault("lapse") ELSE UNCHANGED faults
  /\ UNCHANGED <<sched, lock, phase, cron, task, hist>>

\* a claim grows older than LAUNCH_MAX_MINUTES : a launch that is under way, as a fault only
UnderWay(s) == \E n \in Node, t \in Thread : task[n][t].pc = "launched" /\ task[n][t].s = s

GrowLate(s) ==
  /\ sched[s].state = "running" /\ sched[s].claim \in {"new", "old"}
  /\ sched' = [sched EXCEPT ![s].claim = "late"]
  /\ IF UnderWay(s) THEN Fault("slow") ELSE UNCHANGED faults
  /\ UNCHANGED <<fresh, lock, phase, cron, task, hist>>

\* keepWorkerLock : the first time, the process starts the cron tasks
TakeLock(n) ==
  /\ n \in Up /\ lock = NoNode
  /\ lock' = n
  /\ phase' = [phase EXCEPT ![n] = IF @ = "app" THEN "worker" ELSE @]
  /\ UNCHANGED <<sched, fresh, cron, task, hist, faults>>

LoseLock ==
  /\ lock # NoNode /\ Fault("connection")
  /\ lock' = NoNode
  /\ UNCHANGED <<sched, fresh, phase, cron, task, hist>>

\* another process has the lock this one thought it held
StopLostWorker(n) ==
  /\ IsWorker(n) /\ lock \notin {n, NoNode}
  /\ Forget(n)
  /\ UNCHANGED <<sched, fresh, hist, faults>>

\* what a crash left running is released, if the statement succeeds, then the queue's timer starts
StartQueue(n) ==
  /\ phase[n] = "worker"
  /\ \/ ReleaseStale(n, TRUE) /\ UNCHANGED faults
     \/ Fault("statement") /\ UNCHANGED <<sched, hist>>
  /\ phase' = [phase EXCEPT ![n] = "queue"]
  /\ UNCHANGED <<fresh, lock, cron, task>>

Becomes(n, t, k) == task' = [task EXCEPT ![n][t] = k]
Picked(s, q) == [pc |-> "picked", s |-> s, id |-> q]

\* the every-minute release : the lock is confirmed before the tick runs
ReleaseConfirm(n) ==
  /\ IsWorker(n) /\ lock = n /\ task[n]["release"] = Idle
  /\ Becomes(n, "release", [pc |-> "confirmed"])
  /\ UNCHANGED <<sched, fresh, lock, phase, cron, hist, faults>>

Release(n) ==
  /\ n \in Up /\ task[n]["release"].pc = "confirmed"
  /\ ReleaseStale(n, FALSE)
  /\ Becomes(n, "release", Idle)
  /\ UNCHANGED <<fresh, lock, phase, cron, faults>>

-----------------------------------------------------------------------------
(* A cron task: confirm the lock, read the row, ask for a run              *)

CronConfirm(n, s) ==
  /\ IsWorker(n) /\ lock = n /\ cron[n][s] = "idle" /\ sched[s].state # "gone"
  /\ cron' = [cron EXCEPT ![n][s] = "confirmed"]
  /\ UNCHANGED <<sched, fresh, lock, phase, task, hist, faults>>

CronRead(n, s) ==
  /\ n \in Up /\ cron[n][s] = "confirmed"
  /\ cron' = [cron EXCEPT ![n][s] = IF Due(s) THEN "due" ELSE "idle"]
  /\ UNCHANGED <<sched, fresh, lock, phase, task, hist, faults>>

CronQueue(n, s) ==
  /\ n \in Up /\ cron[n][s] = "due"
  /\ QueueStatement(s, IF Due(s) THEN 0 ELSE 1)
  /\ cron' = [cron EXCEPT ![n][s] = "idle"]
  /\ UNCHANGED <<fresh, lock, phase, task, faults>>

-----------------------------------------------------------------------------
(* The queue of the worker: checkSchedules                                 *)

CheckConfirm(n) ==
  /\ phase[n] = "queue" /\ lock = n /\ task[n]["queue"] = Idle
  /\ Becomes(n, "queue", [pc |-> "confirmed"])
  /\ UNCHANGED <<sched, fresh, lock, phase, cron, hist, faults>>

\* one schedule at a time : wait while one is still launching
CheckClear(n) ==
  /\ n \in Up /\ task[n]["queue"].pc = "confirmed"
  /\ Becomes(n, "queue", IF \E s \in Schedule : sched[s].state = "running" THEN Idle ELSE [pc |-> "clear"])
  /\ UNCHANGED <<sched, fresh, lock, phase, cron, hist, faults>>

\* ORDER BY queue_id LIMIT 1
CheckPick(n) ==
  /\ n \in Up /\ task[n]["queue"].pc = "clear"
  /\ LET queued == {s \in Schedule : sched[s].state = "queued"}
     IN IF queued = {} THEN Becomes(n, "queue", Idle)
        ELSE \E s \in queued :
               /\ \A r \in queued : sched[s].queue_id <= sched[r].queue_id
               /\ Becomes(n, "queue", Picked(s, sched[s].queue_id))
  /\ UNCHANGED <<sched, fresh, lock, phase, cron, hist, faults>>

-----------------------------------------------------------------------------
(* Users                                                                   *)

\* POST /schedule/:id/launch, its read : one that is queued or running is not queued again
RunNow(n, s) ==
  /\ n \in Up /\ s \in ByHand /\ task[n]["request"] = Idle /\ sched[s].state # "gone"
  /\ Becomes(n, "request", IF sched[s].state = "idle" THEN [pc |-> "asked", s |-> s] ELSE Picked(s, 0))
  /\ UNCHANGED <<sched, fresh, lock, phase, cron, hist, faults>>

RunNowQueue(n) ==
  /\ n \in Up /\ task[n]["request"].pc = "asked"
  /\ QueueStatement(task[n]["request"].s, 1)
  /\ Becomes(n, "request", Picked(task[n]["request"].s, 0))
  /\ UNCHANGED <<fresh, lock, phase, cron, faults>>

\* POST /schedule/:id/queue
Queue(s) ==
  /\ Up # {} /\ s \in ByHand /\ sched[s].state # "gone"
  /\ QueueStatement(s, 1)
  /\ UNCHANGED <<fresh, lock, phase, cron, task, faults>>

Delete(s) ==
  /\ Up # {} /\ s \in ByHand /\ sched[s].state # "gone"
  /\ sched' = [sched EXCEPT ![s] = GoneSchedule]
  /\ UNCHANGED <<fresh, lock, phase, cron, task, hist, faults>>

-----------------------------------------------------------------------------
(* Schedule.launch, by the queue or by a request                           *)

Claim_Any(n, t) ==   \* whatever the row says by now
  /\ n \in Up /\ task[n][t].pc = "picked"
  /\ LET s == task[n][t].s
     IN IF sched[s].state # "gone"
        THEN /\ sched' = [sched EXCEPT ![s] = ClaimRow(@, n)]
             /\ hist' = [hist EXCEPT ![s].claims = @ + 1]
             /\ Becomes(n, t, [pc |-> "launched", s |-> s])
        ELSE Becomes(n, t, Idle) /\ UNCHANGED <<sched, hist>>
  /\ UNCHANGED <<fresh, lock, phase, cron, faults>>

\* only one that is still queued is taken ; the job it launches is launched right after
Claim(n, t) ==
  /\ n \in Up /\ task[n][t].pc = "picked"
  /\ LET s == task[n][t].s
     IN IF sched[s].state = "queued"
        THEN /\ sched' = [sched EXCEPT ![s] = ClaimRow(@, n)]
             /\ hist' = [hist EXCEPT ![s].claims = @ + 1]
             /\ Becomes(n, t, [pc |-> "launched", s |-> s])
        ELSE Becomes(n, t, Idle) /\ UNCHANGED <<sched, hist>>
  /\ UNCHANGED <<fresh, lock, phase, cron, faults>>

\* the job was launched, or could not be : a recurring schedule waits for its next time
EndRecurring(n, t) ==
  /\ n \in Up /\ task[n][t].pc = "launched" /\ task[n][t].s \notin OneTime
  /\ sched' = [sched EXCEPT ![task[n][t].s] = IF @.state = "gone" THEN @ ELSE IdleRow(@)]
  /\ Becomes(n, t, Idle)
  /\ UNCHANGED <<fresh, lock, phase, cron, hist, faults>>

EndOneTime_StaysOn(n, t) ==   \* a delete that fails leaves it idle, and on
  /\ n \in Up /\ task[n][t].pc = "launched" /\ task[n][t].s \in OneTime
  /\ LET s == task[n][t].s
     IN \/ sched' = [sched EXCEPT ![s] = GoneSchedule] /\ UNCHANGED faults
        \/ /\ Fault("statement")
           /\ sched' = [sched EXCEPT ![s] = IF @.state = "gone" THEN @ ELSE IdleRow(@)]
  /\ Becomes(n, t, Idle)
  /\ UNCHANGED <<fresh, lock, phase, cron, hist>>

\* endOneTime : deleted, or turned off when the DELETE fails, or left as it is when both fail
EndOneTime(n, t) ==
  /\ n \in Up /\ task[n][t].pc = "launched" /\ task[n][t].s \in OneTime
  /\ LET s == task[n][t].s
     IN \/ sched' = [sched EXCEPT ![s] = GoneSchedule] /\ UNCHANGED faults
        \/ /\ Fault("statement")
           /\ \/ sched' = [sched EXCEPT ![s] = IF @.state = "gone" THEN @
                                                ELSE [IdleRow(@) EXCEPT !.enabled = FALSE]]
              \/ UNCHANGED sched
  /\ Becomes(n, t, Idle)
  /\ UNCHANGED <<fresh, lock, phase, cron, hist>>

-----------------------------------------------------------------------------
Launching(n) == \E t \in Thread : Claim(n, t) \/ EndRecurring(n, t) \/ EndOneTime(n, t)

ReleaseTick(n) == ReleaseConfirm(n) \/ Release(n)

CheckSchedules(n) == CheckConfirm(n) \/ CheckClear(n) \/ CheckPick(n)

CronTask(n, s) == CronConfirm(n, s) \/ CronRead(n, s) \/ CronQueue(n, s)

NodeStep(n) ==
  \/ Start(n) \/ Crash(n) \/ Heartbeat(n) \/ Lapse(n)
  \/ TakeLock(n) \/ StopLostWorker(n) \/ StartQueue(n) \/ ReleaseTick(n)
  \/ CheckSchedules(n) \/ Launching(n) \/ RunNowQueue(n)

Next ==
  \/ \E n \in Node : NodeStep(n) \/ \E s \in Schedule : CronTask(n, s) \/ RunNow(n, s)
  \/ \E s \in Schedule : GrowLate(s) \/ Queue(s) \/ Delete(s)
  \/ LoseLock

Spec == Init /\ [][Next]_vars

\* What goes on by itself: the timers of the processes that run, the launches under way, the age of
\* a claim, the restart of a container when none is left. Users and faults are free.
Fairness ==
  /\ \A n \in Node :
       /\ WF_vars(Heartbeat(n)) /\ WF_vars(n \notin Up /\ Lapse(n))
       /\ WF_vars(TakeLock(n)) /\ WF_vars(StopLostWorker(n))
       /\ WF_vars(StartQueue(n)) /\ WF_vars(ReleaseTick(n))
       /\ WF_vars(CheckSchedules(n))
       /\ \A t \in Thread : WF_vars(Claim(n, t) \/ EndRecurring(n, t) \/ EndOneTime(n, t))
       /\ \A s \in Schedule : WF_vars(CronTask(n, s))
  /\ WF_vars(Up = {} /\ \E n \in Node : Start(n))
  /\ \A s \in Schedule : WF_vars(GrowLate(s) /\ ~UnderWay(s))

FairSpec == Spec /\ Fairness

-----------------------------------------------------------------------------
(* Safety                                                                  *)

\* Every ask is launched at most once: however many processes read the same queued row, whoever
\* releases or queues it meanwhile, no more launches are claimed than were asked for, and one that
\* still waits is not launched yet (the conditional claim of Schedule.launch).
Waits(s) == IF sched[s].state = "queued" THEN 1 ELSE 0

ClaimedOnce == \A s \in Schedule : hist[s].claims + Waits(s) <= hist[s].asked

\* The queue is an order: two schedules that wait never share a number ("the ordering the processor
\* depends on", Schedule.queue), and every one that waits was asked after the one the worker is
\* about to launch, as long as that one is not deleted.
QueueOrder ==
  /\ \A r, s \in Schedule : (/\ sched[r].state = "queued" /\ sched[s].state = "queued"
                             /\ sched[r].queue_id = sched[s].queue_id) => r = s
  /\ \A n \in Node, s \in Schedule :
       (/\ task[n]["queue"].pc = "picked" /\ sched[task[n]["queue"].s].state # "gone"
        /\ sched[s].state = "queued")
         => (s = task[n]["queue"].s \/ task[n]["queue"].id < sched[s].queue_id)

\* A one-time schedule is launched once, and once more for each time a user asked, a launch that nobody
\* finished was released ("never idle and enabled, which would launch it again", Schedule.endOneTime)
\* or a tick came late: it read the row idle, its process lost the worker lock, and it asked when the
\* new worker had queued, launched or turned off the schedule.
OneTimeOnce ==
  \A s \in OneTime : hist[s].claims <= 1 + hist[s].released + hist[s].extra

-----------------------------------------------------------------------------
(* Liveness, under FairSpec                                                *)

\* A schedule that waits is launched, or deleted: a launch left running by a stopped node, by a slow
\* one or by the version before 7 does not stop the queue for ever (Schedule.releaseStale).
QueueMoves ==
  \A s \in Schedule : sched[s].state = "queued" ~> sched[s].state # "queued"

\* A one-time schedule whose time came runs, whatever its row was left at, while queue numbers last.
OneTimeRuns ==
  \A s \in OneTime \ ByHand : <>(hist[s].claims > 0 \/ \E r \in Schedule : sched[r].queue_id = MaxQueue)
=============================================================================
