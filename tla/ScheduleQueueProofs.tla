------------------------ MODULE ScheduleQueueProofs -------------------------
(***************************************************************************)
(* The queue of the schedules, for every set of nodes and schedules, every *)
(* bound on the queue numbers and any number of faults: the state is well  *)
(* typed, every ask is launched at most once, a one-time schedule once,    *)
(* the queue is an order.                                                  *)
(***************************************************************************)
EXTENDS ScheduleQueue, TLAPS

-----------------------------------------------------------------------------
(* What the statements on one row return                                   *)

LEMMA RowTyping ==
  ASSUME NEW r \in ScheduleRow
  PROVE  /\ \A q \in 1..MaxQueue : QueueRow(r, q) \in ScheduleRow
         /\ \A n \in Node : ClaimRow(r, n) \in ScheduleRow
         /\ IdleRow(r) \in ScheduleRow /\ [IdleRow(r) EXCEPT !.enabled = FALSE] \in ScheduleRow
         /\ [r EXCEPT !.claim = "old"] \in ScheduleRow /\ [r EXCEPT !.claim = "late"] \in ScheduleRow
<1>1. ASSUME NEW q \in 1..MaxQueue PROVE QueueRow(r, q) \in ScheduleRow
  <2>1. q \in 0..MaxQueue
    BY ScheduleAssumption
  <2>2. QED
    BY <2>1 DEF ScheduleRow, QueueRow
<1>2. \A n \in Node : ClaimRow(r, n) \in ScheduleRow
  BY DEF ScheduleRow, ClaimRow
<1>3. IdleRow(r) \in ScheduleRow
  BY DEF ScheduleRow, IdleRow
<1>4. [IdleRow(r) EXCEPT !.enabled = FALSE] \in ScheduleRow
  BY <1>3 DEF ScheduleRow
<1>5. [r EXCEPT !.claim = "old"] \in ScheduleRow /\ [r EXCEPT !.claim = "late"] \in ScheduleRow
  BY DEF ScheduleRow
<1>6. QED
  BY <1>1, <1>2, <1>3, <1>4, <1>5

LEMMA FreshTyping ==
  /\ IdleSchedule \in ScheduleRow /\ GoneSchedule \in ScheduleRow
  /\ [IdleSchedule EXCEPT !.state = "running"] \in ScheduleRow
<1>1. IdleSchedule \in ScheduleRow
  BY ScheduleAssumption DEF IdleSchedule, ScheduleRow
<1>2. [IdleSchedule EXCEPT !.state = "running"] \in ScheduleRow
  BY <1>1 DEF ScheduleRow
<1>3. GoneSchedule \in ScheduleRow
  BY <1>1 DEF GoneSchedule, ScheduleRow
<1>4. QED
  BY <1>1, <1>2, <1>3

HistType == [asked : Nat, extra : Nat, claims : Nat, released : Nat]

LEMMA HistTyping ==
  ASSUME NEW h \in HistType
  PROVE  /\ [h EXCEPT !.claims = @ + 1] \in HistType
         /\ [h EXCEPT !.released = @ + 1] \in HistType
  BY DEF HistType

LEMMA AskedTyping ==
  ASSUME NEW h \in HistType, NEW extra \in {0, 1}
  PROVE  /\ Asked(h, extra) \in HistType
         /\ Asked(h, extra).claims = h.claims /\ Asked(h, extra).asked = h.asked + 1
<1> DEFINE g == [h EXCEPT !.asked = @ + 1]
<1>1. g \in HistType /\ g.claims = h.claims /\ g.asked = h.asked + 1 /\ g.extra = h.extra
  BY DEF HistType
<1>2. Asked(h, extra) = [g EXCEPT !.extra = @ + extra]
  BY DEF Asked
<1>3. extra \in Nat
  OBVIOUS
<1> HIDE DEF g
<1>4. QED
  BY <1>1, <1>2, <1>3 DEF HistType

TaskType == {Idle} \cup Busy

LEMMA TaskTyping ==
  /\ Idle \in TaskType /\ [pc |-> "confirmed"] \in TaskType /\ [pc |-> "clear"] \in TaskType
  /\ \A s \in Schedule : /\ [pc |-> "asked", s |-> s] \in TaskType
                         /\ [pc |-> "launched", s |-> s] \in TaskType
                         /\ \A q \in 0..MaxQueue : Picked(s, q) \in TaskType
  BY DEF TaskType, Idle, Busy, Picked

\* A task that names a schedule names one of the table.
LEMMA TaskNames ==
  ASSUME TypeOK, NEW n \in Node, NEW t \in Thread, task[n][t].pc \in {"asked", "picked", "launched"}
  PROVE  task[n][t].s \in Schedule
<1>1. task[n][t] \in {Idle} \cup Busy
  BY DEF TypeOK
<1>2. QED
  BY <1>1 DEF Idle, Busy

-----------------------------------------------------------------------------
(* Type correctness                                                        *)

LEMMA BecomesTyping ==
  ASSUME TypeOK, NEW n \in Node, NEW t \in Thread, NEW k \in TaskType, Becomes(n, t, k)
  PROVE  task' \in [Node -> [Thread -> TaskType]]
  BY DEF TypeOK, Becomes, TaskType

LEMMA QueueTyping ==
  ASSUME TypeOK, NEW s \in Schedule, NEW extra \in {0, 1}, QueueStatement(s, extra)
  PROVE  sched' \in [Schedule -> ScheduleRow] /\ hist' \in [Schedule -> HistType]
<1>1. sched[s] \in ScheduleRow /\ hist[s] \in HistType
  BY DEF TypeOK, HistType
<1>2. sched' \in [Schedule -> ScheduleRow]
  <2>1. CASE sched[s].state = "gone"
    BY <2>1 DEF TypeOK, QueueStatement
  <2>2. CASE sched[s].state # "gone"
    <3>1. PICK q \in 1..MaxQueue : sched' = [sched EXCEPT ![s] = QueueRow(@, q)]
      BY <2>2 DEF QueueStatement
    <3>2. QueueRow(sched[s], q) \in ScheduleRow
      BY <1>1, RowTyping
    <3>3. QED
      BY <3>1, <3>2 DEF TypeOK
  <2>3. QED
    BY <2>1, <2>2
<1>3. Asked(hist[s], extra) \in HistType
  BY <1>1, AskedTyping
<1>4. hist' = hist \/ hist' = [hist EXCEPT ![s] = Asked(@, extra)]
  BY DEF QueueStatement, Asked
<1>6. hist' \in [Schedule -> HistType]
  BY <1>3, <1>4 DEF TypeOK, HistType
<1>5. QED
  BY <1>2, <1>6

LEMMA ReleaseTyping ==
  ASSUME TypeOK, NEW n \in Node, NEW b \in BOOLEAN, ReleaseStale(n, b)
  PROVE  sched' \in [Schedule -> ScheduleRow] /\ hist' \in [Schedule -> HistType]
<1>1. ASSUME NEW s \in Schedule PROVE sched[s] \in ScheduleRow /\ hist[s] \in HistType
  BY DEF TypeOK, HistType
<1>2. sched' \in [Schedule -> ScheduleRow]
  BY <1>1, RowTyping DEF ReleaseStale
<1>3. \A s \in Schedule : [hist[s] EXCEPT !.released = @ + 1] \in HistType
  BY <1>1, HistTyping
<1>4. hist' \in [Schedule -> HistType]
  BY <1>1, <1>3 DEF ReleaseStale
<1>5. QED
  BY <1>2, <1>4

LEMMA FaultTyping ==
  ASSUME TypeOK, NEW kind, Fault(kind)
  PROVE  faults' \in 0..MaxFaults
  BY ScheduleAssumption DEF TypeOK, Fault

LEMMA ForgetTyping ==
  ASSUME TypeOK, NEW n \in Node, Forget(n)
  PROVE  /\ phase' \in [Node -> Phase] /\ lock' \in Node \cup {NoNode}
         /\ cron' \in [Node -> [Schedule -> {"idle", "confirmed", "due"}]]
         /\ task' \in [Node -> [Thread -> TaskType]]
  BY TaskTyping DEF TypeOK, Forget, Phase, TaskType

LEMMA ProcessTyping ==
  ASSUME TypeOK, NEW n \in Node,
         \/ Start(n) \/ Crash(n) \/ Heartbeat(n) \/ Lapse(n) \/ TakeLock(n) \/ LoseLock
         \/ StopLostWorker(n) \/ StartQueue(n) \/ ReleaseTick(n)
  PROVE  TypeOK'
<1>1. CASE Start(n)
  BY <1>1, RowTyping DEF Start, TypeOK, Phase
<1>2. CASE Crash(n)
  BY <1>2, ForgetTyping, FaultTyping DEF Crash, TypeOK, TaskType
<1>3. CASE Heartbeat(n) \/ Lapse(n)
  BY <1>3, FaultTyping DEF Heartbeat, Lapse, TypeOK
<1>4. CASE TakeLock(n)
  BY <1>4 DEF TakeLock, TypeOK, Phase
<1>5. CASE LoseLock
  BY <1>5, FaultTyping DEF LoseLock, TypeOK
<1>6. CASE StopLostWorker(n)
  BY <1>6, ForgetTyping DEF StopLostWorker, TypeOK, TaskType
<1>7. CASE StartQueue(n)
  BY <1>7, ReleaseTyping, FaultTyping DEF StartQueue, TypeOK, Phase, HistType
<1>8. CASE ReleaseConfirm(n)
  BY <1>8, TaskTyping, BecomesTyping DEF ReleaseConfirm, TypeOK, Thread, TaskType
<1>9. CASE Release(n)
  BY <1>9, TaskTyping, BecomesTyping, ReleaseTyping DEF Release, TypeOK, Thread, TaskType, HistType
<1>10. QED
  BY <1>1, <1>2, <1>3, <1>4, <1>5, <1>6, <1>7, <1>8, <1>9 DEF ReleaseTick

LEMMA CronTyping ==
  ASSUME TypeOK, NEW n \in Node, NEW s \in Schedule, CronTask(n, s)
  PROVE  TypeOK'
<1>1. CASE CronConfirm(n, s) \/ CronRead(n, s)
  <2>1. PICK pc \in {"idle", "confirmed", "due"} : cron' = [cron EXCEPT ![n][s] = pc]
    BY <1>1 DEF CronConfirm, CronRead
  <2>2. cron' \in [Node -> [Schedule -> {"idle", "confirmed", "due"}]]
    BY <2>1 DEF TypeOK
  <2>3. QED
    BY <1>1, <2>2 DEF CronConfirm, CronRead, TypeOK
<1>2. CASE CronQueue(n, s)
  BY <1>2, QueueTyping DEF CronQueue, TypeOK, HistType
<1>3. QED
  BY <1>1, <1>2 DEF CronTask

LEMMA CheckTyping ==
  ASSUME TypeOK, NEW n \in Node, CheckSchedules(n)
  PROVE  TypeOK'
<1>1. \A s \in Schedule : sched[s].queue_id \in 0..MaxQueue
  BY DEF TypeOK, ScheduleRow
<1>2. \E k \in TaskType : Becomes(n, "queue", k)
  <2>1. CASE CheckConfirm(n) \/ CheckClear(n)
    BY <2>1, TaskTyping DEF CheckConfirm, CheckClear
  <2>2. CASE CheckPick(n)
    BY <1>1, <2>2, TaskTyping DEF CheckPick
  <2>3. QED
    BY <2>1, <2>2 DEF CheckSchedules
<1>3. UNCHANGED <<sched, fresh, lock, phase, cron, hist, faults>>
  BY DEF CheckSchedules, CheckConfirm, CheckClear, CheckPick
<1>4. QED
  BY <1>2, <1>3, BecomesTyping DEF TypeOK, Thread, TaskType

LEMMA UserTyping ==
  ASSUME TypeOK, NEW n \in Node, NEW s \in Schedule,
         RunNow(n, s) \/ RunNowQueue(n) \/ Queue(s) \/ Delete(s) \/ GrowLate(s)
  PROVE  TypeOK'
<1>1. 0 \in 0..MaxQueue
  BY ScheduleAssumption
<1>2. CASE RunNow(n, s)
  <2>1. (IF sched[s].state = "idle" THEN [pc |-> "asked", s |-> s] ELSE Picked(s, 0)) \in TaskType
    BY <1>1, TaskTyping
  <2>2. QED
    BY <1>2, <2>1, BecomesTyping DEF RunNow, TypeOK, Thread, TaskType
<1>3. CASE RunNowQueue(n)
  <2>1. task[n]["request"].s \in Schedule
    BY <1>3, TaskNames DEF RunNowQueue, Thread
  <2>2. Picked(task[n]["request"].s, 0) \in TaskType
    BY <1>1, <2>1, TaskTyping
  <2>3. QED
    BY <1>3, <2>1, <2>2, BecomesTyping, QueueTyping DEF RunNowQueue, TypeOK, Thread, TaskType, HistType
<1>4. CASE Queue(s)
  BY <1>4, QueueTyping DEF Queue, TypeOK, HistType
<1>5. CASE Delete(s)
  BY <1>5, FreshTyping DEF Delete, TypeOK
<1>6. CASE GrowLate(s)
  BY <1>6, RowTyping, FaultTyping DEF GrowLate, TypeOK
<1>7. QED
  BY <1>2, <1>3, <1>4, <1>5, <1>6

LEMMA LaunchTyping ==
  ASSUME TypeOK, NEW n \in Node, NEW t \in Thread, Claim(n, t) \/ EndRecurring(n, t) \/ EndOneTime(n, t)
  PROVE  TypeOK'
<1>1. task[n][t].s \in Schedule
  BY TaskNames DEF Claim, EndRecurring, EndOneTime
<1> DEFINE s == task[n][t].s
<1>2. sched[s] \in ScheduleRow /\ hist[s] \in HistType
  BY <1>1 DEF TypeOK, HistType
<1>3. CASE Claim(n, t)
  <2>1. \E k \in TaskType : Becomes(n, t, k)
    BY <1>1, <1>3, TaskTyping DEF Claim
  <2>2. sched' \in [Schedule -> ScheduleRow] /\ hist' \in [Schedule -> HistType]
    <3>1. ClaimRow(sched[s], n) \in ScheduleRow /\ [hist[s] EXCEPT !.claims = @ + 1] \in HistType
      BY <1>2, RowTyping, HistTyping
    <3>2. \/ UNCHANGED <<sched, hist>>
          \/ /\ sched' = [sched EXCEPT ![s] = ClaimRow(@, n)]
             /\ hist' = [hist EXCEPT ![s].claims = @ + 1]
      BY <1>3 DEF Claim
    <3>3. sched \in [Schedule -> ScheduleRow] /\ hist \in [Schedule -> HistType]
      BY DEF TypeOK, HistType
    <3>4. QED
      BY <1>1, <3>1, <3>2, <3>3
  <2>3. QED
    BY <1>3, <2>1, <2>2, BecomesTyping DEF Claim, TypeOK, TaskType, HistType
<1>4. CASE EndRecurring(n, t)
  BY <1>1, <1>2, <1>4, TaskTyping, RowTyping, BecomesTyping DEF EndRecurring, TypeOK, TaskType
<1>5. CASE EndOneTime(n, t)
  <2>1. sched' \in [Schedule -> ScheduleRow]
    BY <1>1, <1>2, <1>5, RowTyping, FreshTyping DEF EndOneTime, TypeOK
  <2>2. faults' \in 0..MaxFaults
    BY <1>5, FaultTyping DEF EndOneTime, TypeOK
  <2>3. QED
    BY <1>5, <2>1, <2>2, TaskTyping, BecomesTyping DEF EndOneTime, TypeOK, TaskType
<1>6. QED
  BY <1>3, <1>4, <1>5

LEMMA InitTypeOK == Init => TypeOK
<1> SUFFICES ASSUME Init PROVE TypeOK
  OBVIOUS
<1>1. sched \in [Schedule -> ScheduleRow]
  BY FreshTyping DEF Init
<1>2. hist \in [Schedule -> [asked : Nat, extra : Nat, claims : Nat, released : Nat]]
  BY DEF Init
<1>3. task \in [Node -> [Thread -> {Idle} \cup Busy]]
  BY DEF Init
<1>4. QED
  BY <1>1, <1>2, <1>3, ScheduleAssumption DEF Init, TypeOK, Phase

LEMMA NextTypeOK == TypeOK /\ [Next]_vars => TypeOK'
<1> SUFFICES ASSUME TypeOK, [Next]_vars PROVE TypeOK'
  OBVIOUS
<1>1. ASSUME NEW n \in Node, NodeStep(n) PROVE TypeOK'
  <2>1. CASE RunNowQueue(n)
    <3>1. task[n]["request"].s \in Schedule
      BY <2>1, TaskNames DEF RunNowQueue, Thread
    <3>2. QED
      BY <2>1, <3>1, UserTyping
  <2>2. QED
    BY <1>1, <2>1, ProcessTyping, CheckTyping, LaunchTyping DEF NodeStep, Launching
<1>2. ASSUME NEW n \in Node, NEW s \in Schedule, CronTask(n, s) \/ RunNow(n, s) PROVE TypeOK'
  BY <1>2, CronTyping, UserTyping
<1>3. ASSUME NEW s \in Schedule, GrowLate(s) \/ Queue(s) \/ Delete(s) PROVE TypeOK'
  <2>1. CASE GrowLate(s)
    BY <2>1, RowTyping, FaultTyping DEF GrowLate, TypeOK
  <2>2. CASE Queue(s) \/ Delete(s)
    BY <2>2, QueueTyping, FreshTyping DEF Queue, Delete, TypeOK, HistType
  <2>3. QED
    BY <1>3, <2>1, <2>2
<1>4. CASE LoseLock
  BY <1>4, FaultTyping DEF LoseLock, TypeOK
<1>5. CASE UNCHANGED vars
  BY <1>5 DEF vars, TypeOK
<1>6. QED
  BY <1>1, <1>2, <1>3, <1>4, <1>5 DEF Next

\* Every variable keeps its type, whatever the nodes, the cron tasks, the users and the faults do.
THEOREM QueueTypeCorrect == Spec => []TypeOK
  BY InitTypeOK, NextTypeOK, PTL DEF Spec

-----------------------------------------------------------------------------
(* Every ask is launched at most once                                      *)

\* A step of a process or a cron task asks, claims, releases or leaves the schedules alone ; these
\* are the steps of the table, one schedule at a time or all those a release matches.
Asks(s) == \E extra \in {0, 1} : QueueStatement(s, extra)
Claims(s) ==
  /\ sched[s].state = "queued" /\ \E n \in Node : sched' = [sched EXCEPT ![s] = ClaimRow(@, n)]
  /\ hist' = [hist EXCEPT ![s].claims = @ + 1]

\* what neither asks nor claims : no schedule comes to wait, no id grows, no deleted one comes back
Settles ==
  \A s \in Schedule :
    /\ sched'[s].state = "queued" => sched[s].state = "queued"
    /\ sched'[s].state # "gone" => sched[s].state # "gone" /\ sched'[s].queue_id = sched[s].queue_id
    /\ hist'[s].asked = hist[s].asked /\ hist'[s].claims = hist[s].claims

LEMMA RowSettles ==
  ASSUME NEW r \in ScheduleRow
  PROVE  /\ IdleRow(r).state = "idle" /\ IdleRow(r).queue_id = r.queue_id
         /\ \A q : QueueRow(r, q).state = "queued" /\ QueueRow(r, q).queue_id = q
         /\ \A n : ClaimRow(r, n).state = "running" /\ ClaimRow(r, n).queue_id = r.queue_id
         /\ GoneSchedule.state = "gone"
  BY DEF ScheduleRow, IdleRow, QueueRow, ClaimRow, GoneSchedule, IdleSchedule

LEMMA ReleaseSettles ==
  ASSUME TypeOK, NEW n \in Node, NEW b \in BOOLEAN, ReleaseStale(n, b)
  PROVE  Settles
<1> SUFFICES ASSUME NEW s \in Schedule
             PROVE  /\ sched'[s].state = "queued" => sched[s].state = "queued"
                    /\ sched'[s].state # "gone" => /\ sched[s].state # "gone"
                                                   /\ sched'[s].queue_id = sched[s].queue_id
                    /\ hist'[s].asked = hist[s].asked /\ hist'[s].claims = hist[s].claims
  BY DEF Settles
<1>1. sched[s] \in ScheduleRow /\ hist[s] \in HistType
  BY DEF TypeOK, HistType
<1>2. \/ sched'[s] = sched[s]
      \/ sched'[s] = IdleRow(sched[s]) /\ sched[s].state = "running"
  BY DEF ReleaseStale, Stale
<1>3. hist'[s] = hist[s] \/ hist'[s] = [hist[s] EXCEPT !.released = @ + 1]
  BY DEF ReleaseStale
<1>4. hist'[s].asked = hist[s].asked /\ hist'[s].claims = hist[s].claims
  BY <1>1, <1>3 DEF HistType
<1>5. QED
  BY <1>1, <1>2, <1>4, RowSettles

LEMMA EndSettles ==
  ASSUME TypeOK, NEW n \in Node, NEW t \in Thread, EndRecurring(n, t) \/ EndOneTime(n, t)
  PROVE  Settles
<1>1. task[n][t].s \in Schedule
  BY TaskNames DEF EndRecurring, EndOneTime
<1> DEFINE s == task[n][t].s
<1>2. sched[s] \in ScheduleRow
  BY <1>1 DEF TypeOK
<1>3. UNCHANGED hist
  BY DEF EndRecurring, EndOneTime
<1>4. [IdleRow(sched[s]) EXCEPT !.enabled = FALSE].state = "idle"
      /\ [IdleRow(sched[s]) EXCEPT !.enabled = FALSE].queue_id = sched[s].queue_id
  BY <1>2 DEF IdleRow, ScheduleRow
<1>5. PICK r : sched' = [sched EXCEPT ![s] = r] /\ r \in {sched[s], GoneSchedule} \cup
                 (IF sched[s].state = "gone" THEN {}
                  ELSE {IdleRow(sched[s]), [IdleRow(sched[s]) EXCEPT !.enabled = FALSE]})
  <2>1. CASE EndRecurring(n, t)
    BY <2>1 DEF EndRecurring
  <2>2. CASE EndOneTime(n, t)
    <3>1. sched' = [sched EXCEPT ![s] = sched[s]] \/ sched' # sched
      BY <1>1 DEF TypeOK
    <3>2. QED
      BY <2>2, <3>1 DEF EndOneTime
  <2>3. QED
    BY <2>1, <2>2
<1>6. r.state = "queued" => sched[s].state = "queued"
  BY <1>2, <1>4, <1>5, RowSettles
<1>7. r.state # "gone" => sched[s].state # "gone" /\ r.queue_id = sched[s].queue_id
  BY <1>2, <1>4, <1>5, RowSettles
<1>8. QED
  BY <1>1, <1>3, <1>5, <1>6, <1>7 DEF Settles, TypeOK

\* Every step asks for one schedule, claims one, or settles.
LEMMA Steps ==
  ASSUME TypeOK, [Next]_vars
  PROVE  (\E s \in Schedule : Asks(s) \/ Claims(s)) \/ Settles
<1>1. ASSUME UNCHANGED <<sched, hist>> PROVE Settles
  BY <1>1 DEF Settles
<1>2. ASSUME NEW n \in Node, NodeStep(n) PROVE (\E s \in Schedule : Asks(s) \/ Claims(s)) \/ Settles
  <2>1. CASE Start(n)
    <3>1. \A s \in Schedule : sched[s] \in ScheduleRow
      BY DEF TypeOK
    <3>2. UNCHANGED hist
      BY <2>1 DEF Start
    <3>3. ASSUME NEW s \in Schedule
          PROVE  sched'[s].state = sched[s].state /\ sched'[s].queue_id = sched[s].queue_id
      BY <2>1, <3>1 DEF Start, ScheduleRow
    <3>4. QED
      BY <3>2, <3>3 DEF Settles
  <2>2. CASE \/ Crash(n) \/ Heartbeat(n) \/ Lapse(n) \/ TakeLock(n) \/ StopLostWorker(n)
             \/ ReleaseConfirm(n) \/ CheckSchedules(n)
    BY <1>1, <2>2 DEF Crash, Heartbeat, Lapse, TakeLock, StopLostWorker, ReleaseConfirm, CheckSchedules,
                      CheckConfirm, CheckClear, CheckPick
  <2>3. CASE StartQueue(n) \/ Release(n)
    BY <1>1, <2>3, ReleaseSettles DEF StartQueue, Release
  <2>4. ASSUME NEW t \in Thread, Claim(n, t) PROVE (\E s \in Schedule : Claims(s)) \/ Settles
    <3>1. task[n][t].s \in Schedule
      BY <2>4, TaskNames DEF Claim
    <3>2. QED
      BY <1>1, <2>4, <3>1 DEF Claim, Claims
  <2>5. ASSUME NEW t \in Thread, EndRecurring(n, t) \/ EndOneTime(n, t) PROVE Settles
    BY <2>5, EndSettles
  <2>6. CASE RunNowQueue(n)
    <3>1. task[n]["request"].s \in Schedule
      BY <2>6, TaskNames DEF RunNowQueue, Thread
    <3>2. QED
      BY <2>6, <3>1 DEF RunNowQueue, Asks
  <2>7. QED
    BY <1>2, <2>1, <2>2, <2>3, <2>4, <2>5, <2>6 DEF NodeStep, Launching, ReleaseTick
<1>3. ASSUME NEW n \in Node, NEW s \in Schedule, CronTask(n, s) \/ RunNow(n, s)
      PROVE  Asks(s) \/ Settles
  BY <1>1, <1>3 DEF CronTask, CronConfirm, CronRead, CronQueue, RunNow, Asks
<1>4. ASSUME NEW s \in Schedule, GrowLate(s) \/ Queue(s) \/ Delete(s)
      PROVE  Asks(s) \/ Settles
  <2>1. CASE GrowLate(s)
    BY <2>1 DEF GrowLate, Settles, TypeOK, ScheduleRow
  <2>2. CASE Queue(s)
    BY <2>2 DEF Queue, Asks
  <2>3. CASE Delete(s)
    BY <2>3 DEF Delete, Settles, TypeOK, GoneSchedule, IdleSchedule
  <2>4. QED
    BY <1>4, <2>1, <2>2, <2>3
<1>5. CASE LoseLock
  BY <1>1, <1>5 DEF LoseLock
<1>6. CASE UNCHANGED vars
  BY <1>1, <1>6 DEF vars
<1>7. QED
  BY <1>2, <1>3, <1>4, <1>5, <1>6 DEF Next

LEMMA NextClaimedOnce == TypeOK /\ ClaimedOnce /\ [Next]_vars => ClaimedOnce'
<1> SUFFICES ASSUME TypeOK, ClaimedOnce, [Next]_vars, NEW r \in Schedule
             PROVE  hist'[r].claims + Waits(r)' <= hist'[r].asked
  BY DEF ClaimedOnce
<1>1. /\ sched[r] \in ScheduleRow /\ hist[r] \in HistType
      /\ hist[r].claims \in Nat /\ hist[r].asked \in Nat
      /\ hist[r].claims + Waits(r) <= hist[r].asked
  BY DEF TypeOK, ClaimedOnce, HistType
<1>2. Waits(r) \in {0, 1} /\ Waits(r)' \in {0, 1}
  BY DEF Waits
<1>3. CASE UNCHANGED <<sched[r], hist[r]>>
  BY <1>1, <1>3 DEF Waits
<1>4. ASSUME NEW s \in Schedule, Asks(s) PROVE hist'[r].claims + Waits(r)' <= hist'[r].asked
  <2>1. CASE sched[s].state = "gone" \/ r # s
    BY <1>3, <1>4, <2>1 DEF Asks, QueueStatement, TypeOK
  <2>2. CASE sched[s].state # "gone" /\ r = s
    <3>1. PICK extra \in {0, 1} : hist'[r] = Asked(hist[r], extra)
      BY <1>4, <2>2 DEF Asks, QueueStatement, TypeOK, Asked
    <3>2. hist'[r].claims = hist[r].claims /\ hist'[r].asked = hist[r].asked + 1
      BY <1>1, <3>1, AskedTyping
    <3>3. QED
      BY <1>1, <1>2, <3>2
  <2>3. QED
    BY <2>1, <2>2
<1>5. ASSUME NEW s \in Schedule, Claims(s) PROVE hist'[r].claims + Waits(r)' <= hist'[r].asked
  <2>1. CASE r # s
    BY <1>3, <1>5, <2>1 DEF Claims, TypeOK
  <2>2. CASE r = s
    <3>1. hist'[r] = [hist[r] EXCEPT !.claims = @ + 1] /\ Waits(r) = 1
      BY <1>5, <2>2 DEF Claims, TypeOK, Waits
    <3>2. sched'[r].state = "running"
      BY <1>1, <1>5, <2>2, RowSettles DEF Claims, TypeOK
    <3>3. Waits(r)' = 0
      BY <3>2 DEF Waits
    <3>4. hist'[r].claims = hist[r].claims + 1 /\ hist'[r].asked = hist[r].asked
      BY <1>1, <3>1 DEF HistType
    <3>5. QED
      BY <1>1, <3>1, <3>3, <3>4
  <2>3. QED
    BY <2>1, <2>2
<1>6. CASE Settles
  <2>1. /\ hist'[r].asked = hist[r].asked /\ hist'[r].claims = hist[r].claims
        /\ sched'[r].state = "queued" => sched[r].state = "queued"
    BY <1>6 DEF Settles
  <2>2. Waits(r)' <= Waits(r)
    BY <2>1 DEF Waits
  <2>3. QED
    BY <1>1, <1>2, <2>1, <2>2
<1>7. QED
  BY <1>4, <1>5, <1>6, Steps

LEMMA InitClaimedOnce == Init => ClaimedOnce
  BY DEF Init, ClaimedOnce, Waits, IdleSchedule

\* However many processes read the same queued row, no more launches are claimed than were asked for.
THEOREM ClaimedOnceHolds == Spec => []ClaimedOnce
  BY InitTypeOK, NextTypeOK, InitClaimedOnce, NextClaimedOnce, PTL DEF Spec

-----------------------------------------------------------------------------
(* The queue is an order                                                   *)

Picks(n) == task[n]["queue"].pc = "picked" /\ sched[task[n]["queue"].s].state # "gone"

\* QueueOrder, and why it stays: what the worker picked keeps a number no smaller than the one read.
OrderInv ==
  /\ QueueOrder
  /\ \A n \in Node : Picks(n) => task[n]["queue"].id <= sched[task[n]["queue"].s].queue_id

\* The worker's pick comes from the table as it is; any other step leaves it alone or drops it.
LEMMA PickSteps ==
  ASSUME TypeOK, [Next]_vars, NEW n \in Node, task'[n]["queue"].pc = "picked"
  PROVE  \/ task'[n]["queue"] = task[n]["queue"]
         \/ /\ sched' = sched
            /\ task'[n]["queue"].s \in Schedule
            /\ task'[n]["queue"].id = sched[task'[n]["queue"].s].queue_id
            /\ \A r \in Schedule : sched[r].state = "queued"
                  => sched[task'[n]["queue"].s].queue_id <= sched[r].queue_id
            /\ sched[task'[n]["queue"].s].state = "queued"
<1>1. task \in [Node -> [Thread -> TaskType]] /\ "queue" \in Thread
  BY DEF TypeOK, TaskType, Thread
<1>2. ASSUME NEW m \in Node, NEW t \in Thread, NEW k, Becomes(m, t, k), m # n \/ t # "queue"
      PROVE  task'[n]["queue"] = task[n]["queue"]
  BY <1>1, <1>2 DEF Becomes
<1>3. ASSUME NEW m \in Node, NEW t \in Thread, NEW k, Becomes(m, t, k), k.pc # "picked"
      PROVE  task'[n]["queue"] = task[n]["queue"]
  BY <1>1, <1>2, <1>3 DEF Becomes
<1>4. Idle.pc # "picked" /\ [pc |-> "confirmed"].pc # "picked" /\ [pc |-> "clear"].pc # "picked"
      /\ \A s : [pc |-> "launched", s |-> s].pc # "picked"
  BY DEF Idle
<1>5. ASSUME NEW m \in Node, Forget(m) PROVE task'[n]["queue"] = task[n]["queue"]
  BY <1>1, <1>4, <1>5 DEF Forget
<1>6. ASSUME NEW m \in Node, CheckPick(m), m = n
      PROVE  /\ sched' = sched
             /\ task'[n]["queue"].s \in Schedule
             /\ task'[n]["queue"].id = sched[task'[n]["queue"].s].queue_id
             /\ \A r \in Schedule : sched[r].state = "queued"
                   => sched[task'[n]["queue"].s].queue_id <= sched[r].queue_id
             /\ sched[task'[n]["queue"].s].state = "queued"
  <2>1. sched' = sched
    BY <1>6 DEF CheckPick
  <2>2. ~Becomes(n, "queue", Idle)
    BY <1>1, <1>4 DEF Becomes
  <2>3. PICK s \in {r \in Schedule : sched[r].state = "queued"} :
          /\ \A r \in Schedule : sched[r].state = "queued" => sched[s].queue_id <= sched[r].queue_id
          /\ Becomes(n, "queue", Picked(s, sched[s].queue_id))
    BY <1>6, <2>2 DEF CheckPick
  <2>4. task'[n]["queue"] = Picked(s, sched[s].queue_id)
    BY <1>1, <2>3 DEF Becomes
  <2>5. QED
    BY <2>1, <2>3, <2>4 DEF Picked
<1>7. ASSUME NEW m \in Node, CheckPick(m), m # n PROVE task'[n]["queue"] = task[n]["queue"]
  BY <1>1, <1>2, <1>7 DEF CheckPick
<1>8. ASSUME NEW m \in Node, NEW t \in Thread, Claim(m, t) \/ EndRecurring(m, t) \/ EndOneTime(m, t)
      PROVE  task'[n]["queue"] = task[n]["queue"]
  BY <1>3, <1>4, <1>8 DEF Claim, EndRecurring, EndOneTime
<1>9. ASSUME NEW m \in Node, RunNowQueue(m) \/ \E s \in Schedule : RunNow(m, s)
      PROVE  task'[n]["queue"] = task[n]["queue"]
  BY <1>2, <1>9 DEF RunNowQueue, RunNow, Thread
<1>10. ASSUME NEW m \in Node, CheckConfirm(m) \/ CheckClear(m) \/ ReleaseConfirm(m) \/ Release(m)
       PROVE  task'[n]["queue"] = task[n]["queue"]
  BY <1>3, <1>4, <1>10 DEF CheckConfirm, CheckClear, ReleaseConfirm, Release, Thread
<1>11. ASSUME NEW m \in Node, NodeStep(m), ~CheckPick(m) PROVE task'[n]["queue"] = task[n]["queue"]
  BY <1>5, <1>8, <1>9, <1>10, <1>11
     DEF NodeStep, Start, Crash, Heartbeat, Lapse, TakeLock, StopLostWorker, StartQueue, ReleaseTick,
         CheckSchedules, Launching
<1>12. ASSUME NEW m \in Node, NEW s \in Schedule, CronTask(m, s) \/ RunNow(m, s)
       PROVE  task'[n]["queue"] = task[n]["queue"]
  BY <1>9, <1>12 DEF CronTask, CronConfirm, CronRead, CronQueue
<1>13. ASSUME NEW s \in Schedule, GrowLate(s) \/ Queue(s) \/ Delete(s)
       PROVE  task'[n]["queue"] = task[n]["queue"]
  BY <1>13 DEF GrowLate, Queue, Delete
<1>14. CASE LoseLock \/ UNCHANGED vars
  BY <1>14 DEF LoseLock, vars
<1>15. QED
  BY <1>6, <1>7, <1>11, <1>12, <1>13, <1>14 DEF Next

\* What a step does to the numbers: the schedule that is asked for, if any, gets one above all
\* others; no other schedule comes to wait, changes its number or comes back.
Above(s) == \A r \in Schedule : sched[r].queue_id < sched'[s].queue_id
Quiet(r) ==
  /\ sched'[r].state = "queued" => sched[r].state = "queued"
  /\ sched'[r].state # "gone" => sched[r].state # "gone" /\ sched'[r].queue_id = sched[r].queue_id

LEMMA NumberSteps ==
  ASSUME TypeOK, [Next]_vars
  PROVE  \/ \A r \in Schedule : Quiet(r)
         \/ \E s \in Schedule : /\ Above(s) /\ sched[s].state # "gone"
                                /\ \A r \in Schedule \ {s} : Quiet(r)
<1>1. ASSUME NEW s \in Schedule, Asks(s), sched[s].state # "gone"
      PROVE  Above(s) /\ \A r \in Schedule \ {s} : Quiet(r)
  <2>1. PICK q \in 1..MaxQueue : NextId(q) /\ sched' = [sched EXCEPT ![s] = QueueRow(@, q)]
    BY <1>1 DEF Asks, QueueStatement
  <2>2. sched[s] \in ScheduleRow /\ sched \in [Schedule -> ScheduleRow]
    BY DEF TypeOK
  <2>3. sched'[s].queue_id = q
    BY <2>1, <2>2, RowSettles
  <2>4. \A r \in Schedule \ {s} : sched'[r] = sched[r]
    BY <2>1, <2>2
  <2>5. QED
    BY <2>1, <2>3, <2>4 DEF Above, Quiet, NextId
<1>2. ASSUME NEW s \in Schedule, Asks(s), sched[s].state = "gone" PROVE \A r \in Schedule : Quiet(r)
  BY <1>2 DEF Asks, QueueStatement, Quiet
<1>3. ASSUME NEW s \in Schedule, Claims(s) PROVE \A r \in Schedule : Quiet(r)
  <2>1. PICK n \in Node : sched' = [sched EXCEPT ![s] = ClaimRow(@, n)]
    BY <1>3 DEF Claims
  <2>2. sched[s] \in ScheduleRow /\ sched \in [Schedule -> ScheduleRow]
    BY DEF TypeOK
  <2>3. sched'[s].state = "running" /\ sched'[s].queue_id = sched[s].queue_id
    BY <2>1, <2>2, RowSettles
  <2>4. \A r \in Schedule \ {s} : sched'[r] = sched[r]
    BY <2>1, <2>2
  <2>5. QED
    BY <1>3, <2>3, <2>4 DEF Quiet, Claims
<1>4. CASE Settles
  BY <1>4 DEF Settles, Quiet
<1>5. QED
  BY <1>1, <1>2, <1>3, <1>4, Steps

LEMMA NextOrder == TypeOK /\ OrderInv /\ [Next]_vars => OrderInv'
<1> SUFFICES ASSUME TypeOK, OrderInv, [Next]_vars PROVE OrderInv'
  OBVIOUS
<1>1. TypeOK'
  BY NextTypeOK
<1>2. \A s \in Schedule : sched[s].queue_id \in Nat /\ sched'[s].queue_id \in Nat
  BY <1>1 DEF TypeOK, ScheduleRow
<1>3. ASSUME NEW r \in Schedule, NEW s \in Schedule, sched'[r].state = "queued", sched'[s].state = "queued",
             sched'[r].queue_id = sched'[s].queue_id
      PROVE  r = s
  <2>1. Quiet(r) /\ Quiet(s) => r = s
    BY <1>3 DEF OrderInv, QueueOrder, Quiet
  <2>2. ASSUME Above(r), Quiet(s) PROVE r = s
    <3>1. sched'[s].queue_id = sched[s].queue_id /\ sched[s].queue_id < sched'[r].queue_id
      BY <1>3, <2>2 DEF Above, Quiet
    <3>2. QED
      BY <1>2, <1>3, <3>1
  <2>3. ASSUME Above(s), Quiet(r) PROVE r = s
    <3>1. sched'[r].queue_id = sched[r].queue_id /\ sched[r].queue_id < sched'[s].queue_id
      BY <1>3, <2>3 DEF Above, Quiet
    <3>2. QED
      BY <1>2, <1>3, <3>1
  <2>4. QED
    BY <2>1, <2>2, <2>3, NumberSteps
<1>4. ASSUME NEW n \in Node, Picks(n)'
      PROVE  /\ task'[n]["queue"].id <= sched'[task'[n]["queue"].s].queue_id
             /\ \A s \in Schedule : sched'[s].state = "queued" =>
                  (s = task'[n]["queue"].s \/ task'[n]["queue"].id < sched'[s].queue_id)
  <2> DEFINE k == task[n]["queue"]
  <2>1. CASE task'[n]["queue"] = k
    <3>1. k.pc = "picked" /\ sched'[k.s].state # "gone" /\ k.s \in Schedule
      BY <1>4, <2>1, TaskNames DEF Picks, Thread
    <3>2. sched[k.s].state # "gone"
      BY <3>1, NumberSteps DEF Quiet
    <3>3. k.id \in Nat /\ k.id <= sched[k.s].queue_id
      <4>1. k \in TaskType
        BY DEF TypeOK, TaskType, Thread
      <4>2. k.id \in 0..MaxQueue
        BY <3>1, <4>1 DEF TaskType, Idle, Busy
      <4>3. QED
        BY <3>1, <3>2, <4>2, ScheduleAssumption DEF OrderInv, Picks
    <3>4. \A s \in Schedule : sched[s].state = "queued" => (s = k.s \/ k.id < sched[s].queue_id)
      BY <3>1, <3>2 DEF OrderInv, QueueOrder
    <3>5. ASSUME NEW s \in Schedule, Above(s) PROVE k.id < sched'[s].queue_id
      <4>1. sched[k.s].queue_id < sched'[s].queue_id
        BY <3>1, <3>5 DEF Above
      <4>2. QED
        BY <1>2, <3>1, <3>3, <4>1
    <3>6. k.id <= sched'[k.s].queue_id
      <4>1. CASE Quiet(k.s)
        BY <3>1, <3>3, <4>1 DEF Quiet
      <4>2. CASE Above(k.s)
        BY <1>2, <3>1, <3>3, <3>5, <4>2
      <4>3. QED
        BY <3>1, <4>1, <4>2, NumberSteps
    <3>7. ASSUME NEW s \in Schedule, sched'[s].state = "queued"
          PROVE  s = k.s \/ k.id < sched'[s].queue_id
      <4>1. CASE Quiet(s)
        <5>1. sched[s].state = "queued" /\ sched'[s].queue_id = sched[s].queue_id
          BY <3>7, <4>1 DEF Quiet
        <5>2. QED
          BY <3>4, <5>1
      <4>2. QED
        BY <3>5, <4>1, NumberSteps
    <3>8. QED
      BY <2>1, <3>6, <3>7
  <2>2. CASE /\ sched' = sched
             /\ task'[n]["queue"].s \in Schedule
             /\ task'[n]["queue"].id = sched[task'[n]["queue"].s].queue_id
             /\ \A r \in Schedule : sched[r].state = "queued"
                   => sched[task'[n]["queue"].s].queue_id <= sched[r].queue_id
             /\ sched[task'[n]["queue"].s].state = "queued"
    <3> DEFINE p == task'[n]["queue"].s
    <3>1. task'[n]["queue"].id <= sched'[p].queue_id
      BY <1>2, <2>2
    <3>2. ASSUME NEW s \in Schedule, sched[s].state = "queued", s # p
          PROVE  sched[p].queue_id < sched[s].queue_id
      <4>1. sched[p].queue_id <= sched[s].queue_id
        BY <2>2, <3>2
      <4>2. sched[p].queue_id # sched[s].queue_id
        BY <2>2, <3>2 DEF OrderInv, QueueOrder
      <4>3. QED
        BY <1>2, <2>2, <4>1, <4>2
    <3>3. QED
      BY <2>2, <3>1, <3>2
  <2>3. QED
    BY <1>4, <2>1, <2>2, PickSteps DEF Picks
<1>5. QED
  BY <1>3, <1>4 DEF OrderInv, QueueOrder, Picks

LEMMA InitOrder == Init => OrderInv
<1> SUFFICES ASSUME Init PROVE OrderInv
  OBVIOUS
<1>1. \A s \in Schedule : sched[s].state # "queued"
  BY DEF Init, IdleSchedule
<1>2. \A n \in Node : task[n]["queue"].pc = "idle"
  BY DEF Init, Idle, Thread
<1>3. QED
  BY <1>1, <1>2 DEF OrderInv, QueueOrder, Picks

\* No two schedules that wait share a number, and what the worker is about to launch was asked for
\* before all that wait.
THEOREM QueueOrderHolds == Spec => []QueueOrder
<1>1. OrderInv => QueueOrder
  BY DEF OrderInv
<1>2. QED
  BY <1>1, InitTypeOK, NextTypeOK, InitOrder, NextOrder, PTL DEF Spec

-----------------------------------------------------------------------------
(* A one-time schedule is launched once                                    *)

\* A run of it is still to come: it waits, or a tick would ask for it.
Coming(s) == sched[s].state = "queued" \/ Due(s)

\* What holds throughout: a run that is to come counts as one that was claimed.
OnceInv ==
  \A s \in OneTime :
    hist[s].claims + (IF Coming(s) THEN 1 ELSE 0) <= 1 + hist[s].released + hist[s].extra

\* What a step does to a one-time schedule: nothing that makes it run, a claim of the run to come,
\* or what is counted as a reason for one more.
Fares(s) ==
  \/ /\ hist'[s].claims = hist[s].claims /\ hist'[s].released = hist[s].released /\ hist'[s].extra = hist[s].extra
     /\ Coming(s)' => Coming(s)
  \/ /\ hist'[s].claims = hist[s].claims + 1
     /\ hist'[s].released = hist[s].released /\ hist'[s].extra = hist[s].extra
     /\ Coming(s) /\ ~Coming(s)'
  \/ /\ hist'[s].claims = hist[s].claims
     /\ \/ hist'[s].released = hist[s].released + 1 /\ hist'[s].extra = hist[s].extra
        \/ hist'[s].released = hist[s].released /\ hist'[s].extra = hist[s].extra + 1

LEMMA StaysFares == ASSUME NEW s, UNCHANGED <<sched[s], hist[s]>> PROVE Fares(s)
  BY DEF Fares, Coming, Due

\* An ask of a tick that would still ask is the run to come, any other one is counted.
LEMMA AskFares ==
  ASSUME TypeOK, NEW s \in OneTime, NEW r \in Schedule, NEW extra \in {0, 1}, QueueStatement(r, extra),
         extra = 0 => Due(r)
  PROVE  Fares(s)
<1>1. /\ s \in Schedule /\ sched[s] \in ScheduleRow /\ hist[s] \in HistType
      /\ sched \in [Schedule -> ScheduleRow] /\ hist \in [Schedule -> HistType]
  BY ScheduleAssumption DEF TypeOK, HistType
<1>2. CASE sched[r].state = "gone" \/ r # s
  BY <1>1, <1>2, StaysFares DEF QueueStatement
<1>3. CASE sched[r].state # "gone" /\ r = s
  <2>1. hist'[s] = Asked(hist[s], extra)
    BY <1>1, <1>3 DEF QueueStatement
  <2> DEFINE g == [hist[s] EXCEPT !.asked = @ + 1]
  <2>2. g \in HistType /\ g.claims = hist[s].claims /\ g.released = hist[s].released /\ g.extra = hist[s].extra
    BY <1>1 DEF HistType
  <2>3. hist'[s] = [g EXCEPT !.extra = @ + extra]
    BY <2>1 DEF Asked
  <2> HIDE DEF g
  <2>4. /\ hist'[s].claims = hist[s].claims /\ hist'[s].released = hist[s].released
        /\ hist'[s].extra = hist[s].extra + extra /\ hist[s].extra \in Nat
    BY <1>1, <2>2, <2>3 DEF HistType
  <2>5. CASE extra = 0
    BY <1>3, <2>4, <2>5 DEF Fares, Coming
  <2>6. CASE extra = 1
    BY <2>4, <2>6 DEF Fares
  <2>7. QED
    BY <2>5, <2>6
<1>4. QED
  BY <1>2, <1>3

LEMMA ClaimFares ==
  ASSUME TypeOK, NEW s \in OneTime, NEW n \in Node, NEW t \in Thread, Claim(n, t)
  PROVE  Fares(s)
<1> DEFINE r == task[n][t].s
<1>1. /\ s \in Schedule /\ sched[s] \in ScheduleRow /\ hist[s] \in HistType
      /\ sched \in [Schedule -> ScheduleRow] /\ hist \in [Schedule -> HistType] /\ r \in Schedule
  BY ScheduleAssumption, TaskNames DEF TypeOK, HistType, Claim
<1>2. CASE sched[r].state = "queued" /\ r = s
  <2>1. hist'[s] = [hist[s] EXCEPT !.claims = @ + 1] /\ sched'[s] = ClaimRow(sched[s], n)
    BY <1>1, <1>2 DEF Claim
  <2>2. /\ hist'[s].claims = hist[s].claims + 1
        /\ hist'[s].released = hist[s].released /\ hist'[s].extra = hist[s].extra
    BY <1>1, <2>1 DEF HistType
  <2>3. sched'[s].state = "running"
    BY <1>1, <2>1, RowSettles
  <2>4. Coming(s) /\ ~Coming(s)'
    BY <1>2, <2>3 DEF Coming, Due
  <2>5. QED
    BY <2>2, <2>4 DEF Fares
<1>3. CASE ~(sched[r].state = "queued" /\ r = s)
  BY <1>1, <1>3, StaysFares DEF Claim
<1>4. QED
  BY <1>2, <1>3

LEMMA ReleaseFares ==
  ASSUME TypeOK, NEW s \in OneTime, NEW n \in Node, NEW b \in BOOLEAN, ReleaseStale(n, b)
  PROVE  Fares(s)
<1>1. s \in Schedule /\ hist[s] \in HistType
  BY ScheduleAssumption DEF TypeOK, HistType
<1>2. CASE UNCHANGED <<sched[s], hist[s]>>
  BY <1>2, StaysFares
<1>3. CASE hist'[s] = [hist[s] EXCEPT !.released = @ + 1]
  <2>1. /\ hist'[s].claims = hist[s].claims /\ hist'[s].released = hist[s].released + 1
        /\ hist'[s].extra = hist[s].extra
    BY <1>1, <1>3 DEF HistType
  <2>2. QED
    BY <2>1 DEF Fares
<1>4. QED
  BY <1>1, <1>2, <1>3 DEF ReleaseStale

\* A launch that ends leaves no run to come: the schedule is deleted, turned off, or still running.
LEMMA EndFares ==
  ASSUME TypeOK, NEW s \in OneTime, NEW n \in Node, NEW t \in Thread, EndRecurring(n, t) \/ EndOneTime(n, t)
  PROVE  Fares(s)
<1> DEFINE r == task[n][t].s
<1>1. /\ s \in Schedule /\ sched[s] \in ScheduleRow /\ r \in Schedule
      /\ sched \in [Schedule -> ScheduleRow] /\ UNCHANGED hist
  BY ScheduleAssumption, TaskNames DEF TypeOK, EndRecurring, EndOneTime
<1>2. CASE r # s
  BY <1>1, <1>2, StaysFares DEF EndRecurring, EndOneTime
<1>3. CASE r = s
  <2>1. sched'[s] \in {sched[s], GoneSchedule, [IdleRow(sched[s]) EXCEPT !.enabled = FALSE]}
    BY <1>1, <1>3 DEF EndRecurring, EndOneTime
  <2>2. Coming(s)' => Coming(s)
    BY <1>1, <2>1 DEF Coming, Due, GoneSchedule, IdleSchedule, IdleRow, ScheduleRow
  <2>3. QED
    BY <1>1, <2>2 DEF Fares
<1>4. QED
  BY <1>2, <1>3

LEMMA OnceSteps ==
  ASSUME TypeOK, [Next]_vars, NEW s \in OneTime
  PROVE  Fares(s)
<1>1. s \in Schedule /\ sched[s] \in ScheduleRow /\ sched \in [Schedule -> ScheduleRow]
  BY ScheduleAssumption DEF TypeOK
<1>2. ASSUME UNCHANGED <<sched, hist>> PROVE Fares(s)
  BY <1>2, StaysFares
<1>3. ASSUME UNCHANGED hist, sched'[s].state = sched[s].state, sched'[s].enabled = sched[s].enabled
      PROVE  Fares(s)
  BY <1>3 DEF Fares, Coming, Due
<1>4. ASSUME NEW n \in Node, NodeStep(n) PROVE Fares(s)
  <2>1. CASE Start(n)
    <3>1. sched'[s] \in {sched[s], [sched[s] EXCEPT !.claim = "old"]} /\ UNCHANGED hist
      BY <1>1, <2>1 DEF Start
    <3>2. QED
      BY <1>1, <1>3, <3>1 DEF ScheduleRow
  <2>2. CASE \/ Crash(n) \/ Heartbeat(n) \/ Lapse(n) \/ TakeLock(n) \/ StopLostWorker(n)
             \/ ReleaseConfirm(n) \/ CheckSchedules(n)
    BY <1>2, <2>2 DEF Crash, Heartbeat, Lapse, TakeLock, StopLostWorker, ReleaseConfirm, CheckSchedules,
                      CheckConfirm, CheckClear, CheckPick
  <2>3. CASE StartQueue(n) \/ Release(n)
    BY <1>2, <2>3, ReleaseFares DEF StartQueue, Release
  <2>4. CASE RunNowQueue(n)
    <3>1. task[n]["request"].s \in Schedule
      BY <2>4, TaskNames DEF RunNowQueue, Thread
    <3>2. QED
      BY <2>4, <3>1, AskFares DEF RunNowQueue
  <2>5. CASE Launching(n)
    BY <2>5, ClaimFares, EndFares DEF Launching
  <2>6. QED
    BY <1>4, <2>1, <2>2, <2>3, <2>4, <2>5 DEF NodeStep, ReleaseTick
<1>5. ASSUME NEW n \in Node, NEW r \in Schedule, CronTask(n, r) \/ RunNow(n, r) PROVE Fares(s)
  <2>1. CASE CronQueue(n, r)
    BY <2>1, AskFares DEF CronQueue
  <2>2. CASE CronConfirm(n, r) \/ CronRead(n, r) \/ RunNow(n, r)
    BY <1>2, <2>2 DEF CronConfirm, CronRead, RunNow
  <2>3. QED
    BY <1>5, <2>1, <2>2 DEF CronTask
<1>6. ASSUME NEW r \in Schedule, GrowLate(r) \/ Queue(r) \/ Delete(r) PROVE Fares(s)
  <2>1. CASE GrowLate(r)
    <3>1. sched'[s] \in {sched[s], [sched[s] EXCEPT !.claim = "late"]} /\ UNCHANGED hist
      BY <1>1, <2>1 DEF GrowLate
    <3>2. QED
      BY <1>1, <1>3, <3>1 DEF ScheduleRow
  <2>2. CASE Queue(r)
    BY <2>2, AskFares DEF Queue
  <2>3. CASE Delete(r)
    <3>1. sched'[s] \in {sched[s], GoneSchedule} /\ UNCHANGED hist
      BY <1>1, <2>3 DEF Delete
    <3>2. QED
      BY <3>1 DEF Fares, Coming, Due, GoneSchedule, IdleSchedule
  <2>4. QED
    BY <1>6, <2>1, <2>2, <2>3
<1>7. CASE LoseLock \/ UNCHANGED vars
  BY <1>2, <1>7 DEF LoseLock, vars
<1>8. QED
  BY <1>4, <1>5, <1>6, <1>7 DEF Next

LEMMA NextOnce == TypeOK /\ OnceInv /\ [Next]_vars => OnceInv'
<1> SUFFICES ASSUME TypeOK, OnceInv, [Next]_vars, NEW s \in OneTime
             PROVE  hist'[s].claims + (IF Coming(s)' THEN 1 ELSE 0) <= 1 + hist'[s].released + hist'[s].extra
  BY DEF OnceInv
<1>1. hist[s].claims \in Nat /\ hist[s].released \in Nat /\ hist[s].extra \in Nat
  BY ScheduleAssumption DEF TypeOK
<1>2. hist[s].claims + (IF Coming(s) THEN 1 ELSE 0) <= 1 + hist[s].released + hist[s].extra
  BY DEF OnceInv
<1>3. Fares(s)
  BY OnceSteps
<1>4. QED
  BY <1>1, <1>2, <1>3 DEF Fares

LEMMA InitOnce == Init => OnceInv
  BY ScheduleAssumption DEF Init, OnceInv

\* A one-time schedule is launched no more often than once, and once for each release and each ask
\* that counts as one more, for any number of schedules, users and faults.
THEOREM OneTimeOnceHolds == Spec => []OneTimeOnce
<1>1. TypeOK /\ OnceInv => OneTimeOnce
  <2> SUFFICES ASSUME TypeOK, OnceInv, NEW s \in OneTime
               PROVE  hist[s].claims <= 1 + hist[s].released + hist[s].extra
    BY DEF OneTimeOnce
  <2>1. hist[s].claims \in Nat /\ hist[s].released \in Nat /\ hist[s].extra \in Nat
    BY ScheduleAssumption DEF TypeOK
  <2>2. hist[s].claims + (IF Coming(s) THEN 1 ELSE 0) <= 1 + hist[s].released + hist[s].extra
    BY DEF OnceInv
  <2>3. QED
    BY <2>1, <2>2
<1>2. QED
  BY <1>1, InitTypeOK, NextTypeOK, InitOnce, NextOnce, PTL DEF Spec

=============================================================================
