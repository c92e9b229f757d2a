----------------------------- MODULE Multistep -----------------------------
(***************************************************************************)
(* A multistep job: a row of its own, a loop in the process that launched  *)
(* or approved it, and a job per step whose row names it as its parent.    *)
(*                                                                         *)
(* The loop shares its row with the sweeps, with a user who aborts and     *)
(* with whoever approves; it reads the abort flag four times and the       *)
(* status of the row never: what keeps a given-up multistep from going on  *)
(* is the conditional claim of each step. A step's job has a life of its   *)
(* own (JobLifecycle, RteDelivery); here its runner ends it, somebody      *)
(* aborts it, a sweep gives it up and another node may take it over.       *)
(***************************************************************************)
EXTENDS JobRow, Naturals

CONSTANTS Last,         \* the number of steps of the form
          Form,         \* the forms of this run: whether they ask for approval, and their steps
          FaultKinds,   \* the faults of this run: a subset of AllFaults
          MaxFaults     \* how many of them happen

AllFaults == {"crash",      \* a process stops
              "lapse",      \* a live node writes no heartbeat for NODE_DEAD_SECONDS
              "day",        \* a step runs for a day, its parent prints nothing meanwhile
              "statement",  \* a statement of the loop fails, or the one that ends a step's job
              "aborter",    \* a request that aborts stops, or fails, before it told every step
              "slow"}       \* an approval read the row and claims it when the row is held again

Step == 1..Last

\* approval, always, continue of a step, and whether its ifExtraVar is met
StepForm == [approval : BOOLEAN, always : BOOLEAN, continue : BOOLEAN, met : BOOLEAN]

ASSUME MultistepAssumption ==
  /\ Last \in Nat \ {0}
  /\ Form \subseteq [global : BOOLEAN, steps : [Step -> StepForm]]
  /\ MaxFaults \in Nat /\ FaultKinds \subseteq AllFaults

VARIABLES
  form,      \* the form: whether it asks for an approval before anything runs, and its steps
  parent,    \* the row of the multistep
  at,        \* its column step: the step claimed last, 0 for NULL
  child,     \* [Step -> Row] the rows of the steps' jobs
  loop,      \* [Node -> Loop] where Multistep.launch is in each process
  follower,  \* [Step -> Node] the process whose loop follows the step's job, NoNode for none
  resumed,   \* [Step -> SUBSET Node] the processes that took the step's job over and have yet to
             \* end its parent
  reads,     \* the steps that approvals under way have read in the row, 0 for NULL
  aborting,  \* whether a Job.abort has flagged the multistep and not read its steps yet
  up, fresh, \* the processes that run, and those whose heartbeat is young
  faults,    \* how many faults happened
  hist       \* for the properties only: launches of each step, the steps a failure kept an abort
             \* from, and those the loop took for over while their row says they run

vars == <<form, parent, at, child, follower, resumed, loop, reads, aborting, up, fresh, faults, hist>>

\* step: the step of this turn, at the start the one to continue with (fromStep, 0 for null);
\* approved: that approval is not used up; passed: finalSuccessStatus; partial: partialstatus;
\* aborted: the flag the recap read
Pc == {"off", "start", "next", "gate", "title", "launch", "pass", "wait", "failed", "recap", "end"}
Loop == [pc : Pc, step : 0..(Last + 1), approved : BOOLEAN, passed : BOOLEAN, partial : BOOLEAN,
         aborted : BOOLEAN]

Off == [pc |-> "off", step |-> 0, approved |-> FALSE, passed |-> TRUE, partial |-> FALSE,
        aborted |-> FALSE]

TypeOK ==
  /\ form \in Form
  /\ parent \in Row /\ parent.job_type = "multistep"
  /\ at \in 0..Last
  /\ child \in [Step -> Row]
  /\ loop \in [Node -> Loop]
  /\ follower \in [Step -> Node \cup {NoNode}] /\ resumed \in [Step -> SUBSET Node]
  /\ reads \subseteq 0..Last
  /\ aborting \in BOOLEAN
  /\ up \subseteq Node /\ fresh \subseteq Node
  /\ faults \in 0..MaxFaults
  /\ hist \in [runs : [Step -> Nat], untold : SUBSET Step, unwatched : SUBSET Step]

Init ==
  /\ form \in Form
  /\ parent = AbsentRow("multistep") /\ at = 0
  /\ child = [s \in Step |-> AbsentRow("awx")]
  /\ loop = [n \in Node |-> Off]
  /\ follower = [s \in Step |-> NoNode] /\ resumed = [s \in Step |-> {}]
  /\ reads = {}
  /\ aborting = FALSE
  /\ up = Node /\ fresh = Node
  /\ faults = 0
  /\ hist = [runs |-> [s \in Step |-> 0], untold |-> {}, unwatched |-> {}]

Fault(kind) == kind \in FaultKinds /\ faults < MaxFaults /\ faults' = faults + 1

-----------------------------------------------------------------------------
(* The loop of Multistep.launch in process n                               *)

At(n, pc) == loop[n].pc = pc
Goes(n, pc) == loop' = [loop EXCEPT ![n].pc = pc]
Dies(n) == loop' = [loop EXCEPT ![n] = Off]
\* the loop comes to the step after this one
NextAfter(l) == [l EXCEPT !.pc = "next", !.step = @ + 1]
Waits(n) == loop' = [loop EXCEPT ![n] = Off] /\ parent' = HoldRow(parent)

\* what no step of a loop changes, and what its reading steps do not
Outside == UNCHANGED <<form, aborting, up, fresh, faults>>
Jobs == <<child, follower, resumed>>
Rows == <<parent, at, Jobs>>

\* the row waits for an approval: the approvals of before have come by then, but a slow one
Holds(n) ==
  /\ Waits(n)
  /\ \/ reads' = {} /\ UNCHANGED faults
     \/ reads # {} /\ Fault("slow") /\ UNCHANGED reads
  /\ UNCHANGED <<form, at, Jobs, aborting, up, fresh, hist>>

\* Job.launch : the row is created, the loop starts in the background
Launch(n) ==
  /\ n \in up /\ parent.status = "absent"
  /\ parent' = CreateRow(parent, n)
  /\ loop' = [loop EXCEPT ![n] = [Off EXCEPT !.pc = "start"]]
  /\ Outside /\ UNCHANGED <<at, Jobs, reads, hist>>

\* the approval of the form holds the row before anything ran
HoldForm(n) ==
  /\ At(n, "start")
  /\ form.global /\ loop[n].step = 0 /\ ~loop[n].approved
  /\ Holds(n)

\* fromStep skips the steps before it; the approval of the form is used up here
Start(n) ==
  /\ At(n, "start")
  /\ LET from == loop[n].step
     IN /\ ~(form.global /\ from = 0 /\ ~loop[n].approved)
        /\ loop' = [loop EXCEPT ![n].pc = "next", ![n].step = IF from = 0 THEN 1 ELSE from,
                                ![n].approved = @ /\ ~(form.global /\ from = 0)]
  /\ Outside /\ UNCHANGED <<Rows, reads, hist>>

SkipUnmet(n) ==
  /\ At(n, "next") /\ loop[n].step \in Step /\ ~form.steps[loop[n].step].met
  /\ loop' = [loop EXCEPT ![n] = NextAfter(@)]
  /\ Outside /\ UNCHANGED <<Rows, reads, hist>>

\* Job.claimNextStep
ClaimsNext(r, n) == r.status = "running" /\ r.tracker \in {NoNode, n}

ClaimNextStep(n) ==
  /\ At(n, "next") /\ loop[n].step \in Step /\ form.steps[loop[n].step].met
  /\ IF ClaimsNext(parent, n)
     THEN LET asks == form.steps[loop[n].step].approval
          IN /\ at' = loop[n].step
             /\ loop' = [loop EXCEPT ![n].pc = IF asks /\ ~loop[n].approved THEN "gate" ELSE "title",
                                     ![n].approved = @ /\ ~asks]
     ELSE Dies(n) /\ UNCHANGED at
  /\ Outside /\ UNCHANGED <<parent, Jobs, reads, hist>>

\* the approval of a step: the steps after it are passed over, no recap is written
HoldStep(n) == At(n, "gate") /\ Holds(n)

\* the line of a step's title is written and the flag read with it
Title_IgnoresFailure(n) ==
  /\ At(n, "title")
  /\ IF ~parent.abort_requested
     THEN Goes(n, "launch")
     ELSE loop' = [loop EXCEPT ![n] = [NextAfter(@) EXCEPT !.passed = FALSE]]
  /\ Outside /\ UNCHANGED <<Rows, reads, hist>>
Title(n) ==
  /\ At(n, "title")
  /\ IF ~parent.abort_requested /\ (loop[n].passed \/ form.steps[loop[n].step].always)
     THEN Goes(n, "launch")
     ELSE loop' = [loop EXCEPT ![n] = [NextAfter(@) EXCEPT !.passed = FALSE]]
  /\ Outside /\ UNCHANGED <<Rows, reads, hist>>

\* Job.launch of the step, its own approval dropped; the runner stores the id of the remote job
LaunchStep(n) ==
  /\ At(n, "launch")
  /\ LET s == loop[n].step
     IN /\ child' = [child EXCEPT ![s] = StoreIdRow(CreateRow(AbsentRow("awx"), n))]
        /\ follower' = [follower EXCEPT ![s] = n]
        /\ hist' = [hist EXCEPT !.runs[s] = @ + 1]
  /\ Goes(n, "pass")
  /\ Outside /\ UNCHANGED <<parent, at, resumed, reads>>

\* an abort that the loop could not pass on to its step
Missed(n) == hist.untold \cup (IF parent.abort_requested THEN {loop[n].step} ELSE {})

\* the line that says so cannot be written: the catch takes the step, which runs, for failed
LaunchLineFails(n) ==
  /\ At(n, "pass") /\ Fault("statement")
  /\ Goes(n, "failed")
  /\ hist' = [hist EXCEPT !.untold = Missed(n), !.unwatched = @ \cup {loop[n].step}]
  /\ UNCHANGED <<form, Rows, reads, aborting, up, fresh>>

\* no row: a runner or a credential the user may not use, a step without a name
LaunchRefused(n) ==
  /\ At(n, "launch")
  /\ Goes(n, "failed")
  /\ Outside /\ UNCHANGED <<Rows, reads, hist>>

\* an abort that came before the row of the step existed is passed on to it
PassAbort_Never(n) ==
  /\ At(n, "pass")
  /\ Goes(n, "wait")
  /\ Outside /\ UNCHANGED <<Rows, reads, hist>>
PassAbort(n) ==
  /\ At(n, "pass")
  /\ child' = IF parent.abort_requested THEN [child EXCEPT ![loop[n].step] = RequestAbortRow(@)]
              ELSE child
  /\ Goes(n, "wait")
  /\ Outside /\ UNCHANGED <<parent, at, follower, resumed, reads, hist>>

\* it fails, which is only logged: the loop waits for a step nobody told
PassAbortFails(n) ==
  /\ At(n, "pass") /\ Fault("statement")
  /\ Goes(n, "wait")
  /\ hist' = [hist EXCEPT !.untold = Missed(n)]
  /\ UNCHANGED <<form, Rows, reads, aborting, up, fresh>>

\* what the loop waits for: the loop that follows the step's job saw its end, written or not, or
\* that another node follows it
Settled(s, n) == child[s].end \/ follower[s] = NoNode \/ FollowedElsewhere(child[s], n)

StepPassed_NotFailed(r) == r.status \notin {"failed", "aborted"}
StepPassed(r) == r.status \in {"success", "warning"}

StepEnds(n) ==
  /\ At(n, "wait")
  /\ LET s == loop[n].step
     IN /\ Settled(s, n)
        /\ loop' = [loop EXCEPT ![n] = IF StepPassed(child[s]) THEN NextAfter(@) ELSE [@ EXCEPT !.pc = "failed"]]
  /\ Outside /\ UNCHANGED <<Rows, reads, hist>>

\* the catch of a step: `continue` is not for a run that was aborted, as far as that can be read
AfterFailure(n, aborted) ==
  LET l == loop[n]
      goesOn == form.steps[l.step].continue /\ ~aborted
  IN loop' = [loop EXCEPT ![n] = [NextAfter(l) EXCEPT !.partial = l.partial \/ goesOn,
                                                     !.passed = l.passed /\ goesOn]]

StepFailed(n) ==
  /\ At(n, "failed")
  /\ \/ AfterFailure(n, parent.abort_requested) /\ UNCHANGED faults
     \/ parent.abort_requested /\ AfterFailure(n, FALSE) /\ Fault("statement")
  /\ UNCHANGED <<form, Rows, reads, aborting, up, fresh, hist>>

\* the flag is read again after the last step
Recap(n) ==
  /\ At(n, "next") /\ loop[n].step \notin Step
  /\ loop' = [loop EXCEPT ![n].pc = "end", ![n].aborted = parent.abort_requested]
  /\ Outside /\ UNCHANGED <<Rows, reads, hist>>

EndsAs(l) ==
  IF l.passed THEN IF l.partial THEN "warning" ELSE "success"
  ELSE IF l.aborted THEN "aborted" ELSE "failed"

\* the flag answered, then the end, which matches a multistep a sweep gave up as well
End(n) ==
  /\ At(n, "end")
  /\ parent' = EndRow(IF loop[n].aborted THEN ResetAbortRow(parent) ELSE parent, EndsAs(loop[n]))
  /\ Dies(n)
  /\ Outside /\ UNCHANGED <<at, Jobs, reads, hist>>

\* the UPDATE of a gate or of the end fails and is only logged, or a line cannot be written in the
\* catch of a step: the loop is over, and only the hourly sweep sees the row again
LoopDies(n) ==
  /\ loop[n].pc \in {"gate", "failed", "end"}
  /\ Fault("statement")
  /\ Dies(n)
  /\ UNCHANGED <<form, Rows, reads, aborting, up, fresh, hist>>

\* a statement before the launch fails (the claim, the gate's line, the title), or one after the
\* wait (the status is read, the line of the end written): the step failed
StatementFails(n) ==
  /\ loop[n].step \in Step
  /\ loop[n].pc \in {"next", "gate", "title"} \/ (At(n, "wait") /\ Settled(loop[n].step, n))
  /\ Fault("statement")
  /\ Goes(n, "failed")
  /\ UNCHANGED <<form, Rows, reads, aborting, up, fresh, hist>>

-----------------------------------------------------------------------------
(* The requests                                                            *)

\* Job.approve, Job.continue : the row is read
ReadApproval ==
  /\ up # {} /\ parent.status = "approve"
  /\ reads' = reads \cup {at}
  /\ UNCHANGED <<form, Rows, loop, aborting, up, fresh, faults, hist>>

\* the claim, and the run from the step that was read; other approvals may have read it too
Continue_Blind(n) ==
  /\ n \in up /\ loop[n] = Off
  /\ \E s \in reads :
       /\ parent' = [parent EXCEPT !.status = "running", !.tracker = n]
       /\ loop' = [loop EXCEPT ![n] = [Off EXCEPT !.pc = "start", !.step = s, !.approved = TRUE]]
  /\ Outside /\ UNCHANGED <<at, Jobs, reads, hist>>
Continue(n) ==
  /\ n \in up /\ parent.status = "approve"
  /\ \E s \in reads :
       /\ parent' = ContinueRow(parent, n)
       /\ loop' = [loop EXCEPT ![n] = [Off EXCEPT !.pc = "start", !.step = s, !.approved = TRUE]]
  /\ Outside /\ UNCHANGED <<at, Jobs, reads, hist>>

Reject ==
  /\ up # {} /\ parent.status = "approve"
  /\ parent' = RejectRow(parent)
  /\ Outside /\ UNCHANGED <<at, Jobs, loop, reads, hist>>

\* Job.abort of the multistep : its row is flagged ...
Abort ==
  /\ up # {} /\ parent.status = "running" /\ ~parent.abort_requested /\ ~aborting
  /\ parent' = RequestAbortRow(parent)
  /\ aborting' = TRUE
  /\ UNCHANGED <<form, at, Jobs, loop, reads, up, fresh, faults, hist>>

\* ... and then the steps it finds running. Each is told on its own; a process that stops and a SELECT
\* that fails tell none, and nobody asks again, as the flag is set
AbortSteps_NotThem ==
  /\ aborting
  /\ aborting' = FALSE
  /\ UNCHANGED <<form, Rows, loop, reads, up, fresh, faults, hist>>
AbortSteps ==
  /\ aborting
  /\ \E untold \in SUBSET {s \in Step : child[s].status = "running"} :
       /\ IF untold = {} THEN UNCHANGED faults ELSE Fault("aborter")
       /\ child' = [s \in Step |-> IF child[s].status = "running" /\ s \notin untold
                                  THEN RequestAbortRow(child[s]) ELSE child[s]]
       /\ hist' = [hist EXCEPT !.untold = @ \cup untold]
  /\ aborting' = FALSE
  /\ UNCHANGED <<form, parent, at, follower, resumed, loop, reads, up, fresh>>

\* Job.abort of one step, by the user who sees it in the list
AbortStep(s) ==
  /\ up # {} /\ child[s].status = "running" /\ ~child[s].abort_requested
  /\ child' = [child EXCEPT ![s] = RequestAbortRow(@)]
  /\ Outside /\ UNCHANGED <<parent, at, follower, resumed, loop, reads, hist>>

-----------------------------------------------------------------------------
(* The jobs of the steps (JobLifecycle has their whole life)               *)

\* the loop that follows the job sees its end, or the flag
ChildEnds(s) ==
  /\ follower[s] # NoNode
  /\ \E o \in {"success", "failed"} \cup (IF child[s].abort_requested THEN {"aborted"} ELSE {}) :
       child' = [child EXCEPT ![s] = EndRow(@, o)]
  /\ follower' = [follower EXCEPT ![s] = NoNode]
  /\ Outside /\ UNCHANGED <<parent, at, resumed, loop, reads, hist>>

\* it sees the end and cannot write it, which is only logged: nobody follows a job that reads running
EndLost(s) ==
  /\ follower[s] # NoNode /\ child[s].status \in ENDS_FROM /\ Fault("statement")
  /\ follower' = [follower EXCEPT ![s] = NoNode]
  /\ hist' = [hist EXCEPT !.unwatched = @ \cup {s}]
  /\ UNCHANGED <<form, parent, at, child, resumed, loop, reads, aborting, up, fresh>>

\* resumeAbandoned : another process, or the same one after a restart, follows the job again;
\* a multistep is never followed again
TakeOver(m, s) ==
  /\ m \in up /\ Resumable(child[s], FALSE) /\ follower[s] # m
  /\ child' = [child EXCEPT ![s] = ClaimRow(@, @.tracker, m)]
  /\ follower' = [follower EXCEPT ![s] = m]
  /\ resumed' = [resumed EXCEPT ![s] = @ \cup {m}]
  /\ Outside /\ UNCHANGED <<parent, at, loop, reads, hist>>

\* endParent : whoever took the job over and follows it no more ends the multistep as failed, one
\* whose loop runs too; a failure is only logged
EndParent(m, s) ==
  /\ m \in resumed[s] /\ follower[s] # m
  /\ parent' = EndRow(parent, "failed")
  /\ resumed' = [resumed EXCEPT ![s] = @ \ {m}]
  /\ Outside /\ UNCHANGED <<at, child, follower, loop, reads, hist>>

-----------------------------------------------------------------------------
(* Processes and sweeps                                                    *)

Crash(n) ==
  /\ n \in up /\ Fault("crash")
  /\ up' = up \ {n}
  /\ loop' = [loop EXCEPT ![n] = Off]
  /\ follower' = [s \in Step |-> IF follower[s] = n THEN NoNode ELSE follower[s]]
  /\ resumed' = [s \in Step |-> resumed[s] \ {n}]
  /\ UNCHANGED <<form, parent, at, child, reads, aborting, fresh, hist>>

\* a start ends the jobs of this node's previous run
Restart(n) ==
  /\ n \notin up
  /\ up' = up \cup {n} /\ fresh' = fresh \cup {n}
  /\ parent' = AbandonOwnRow(parent, n, FALSE)
  /\ child' = [s \in Step |-> AbandonOwnRow(child[s], n, FALSE)]
  /\ UNCHANGED <<form, at, follower, resumed, loop, reads, aborting, faults, hist>>

Lapse(n) ==
  /\ n \in fresh
  /\ fresh' = fresh \ {n}
  /\ IF n \in up THEN Fault("lapse") ELSE UNCHANGED faults
  /\ UNCHANGED <<form, Rows, loop, reads, aborting, up, hist>>

Heartbeat(n) ==
  /\ n \in up \ fresh
  /\ fresh' = fresh \cup {n}
  /\ UNCHANGED <<form, Rows, loop, reads, aborting, up, faults, hist>>

\* the worker's sweep of dead nodes: one statement gives up a multistep and its step together
SweepDead_StepsOnly(w) ==
  /\ w \in up
  /\ child' = [s \in Step |-> AbandonDeadRow(child[s], w, fresh, {})]
  /\ Outside /\ UNCHANGED <<parent, at, follower, resumed, loop, reads, hist>>
SweepDead(w) ==
  /\ w \in up
  /\ parent' = AbandonDeadRow(parent, w, fresh, {})
  /\ child' = [s \in Step |-> AbandonDeadRow(child[s], w, fresh, {})]
  /\ Outside /\ UNCHANGED <<at, follower, resumed, loop, reads, hist>>

\* Job.abandon : the multistep printed nothing for a day, because its loop is gone, or because the
\* step it waits for takes that long
SweepQuiet ==
  /\ up # {} /\ parent.status = "running"
  /\ \/ \A n \in Node : loop[n] = Off
        /\ UNCHANGED faults
     \/ \E n \in Node : At(n, "wait")
        /\ Fault("day")
  /\ parent' = AbandonQuietRow(parent)
  /\ UNCHANGED <<form, at, Jobs, loop, reads, aborting, up, fresh, hist>>

-----------------------------------------------------------------------------
LoopStep(n) ==
  \/ HoldForm(n) \/ Start(n) \/ SkipUnmet(n) \/ ClaimNextStep(n) \/ HoldStep(n) \/ Title(n)
  \/ LaunchStep(n) \/ LaunchRefused(n) \/ PassAbort(n) \/ StepEnds(n) \/ StepFailed(n)
  \/ Recap(n) \/ End(n)

Request ==
  \/ ReadApproval \/ Reject \/ Abort \/ AbortSteps
  \/ \E n \in Node : Launch(n) \/ Continue(n)
  \/ \E s \in Step : AbortStep(s)

Process(n) ==
  \/ Crash(n) \/ Restart(n) \/ Lapse(n) \/ Heartbeat(n) \/ SweepDead(n)
  \/ LoopDies(n) \/ StatementFails(n) \/ LaunchLineFails(n) \/ PassAbortFails(n)
  \/ \E s \in Step : TakeOver(n, s) \/ EndParent(n, s)

Next ==
  \/ \E n \in Node : LoopStep(n) \/ Process(n)
  \/ Request
  \/ \E s \in Step : ChildEnds(s) \/ EndLost(s)
  \/ SweepQuiet

Spec == Init /\ [][Next]_vars

\* a loop goes on, a request does what it began, an aborted job ends on its runner, the heartbeat
\* of a stopped process grows old, the worker sweeps every minute and every hour
Fairness ==
  /\ \A n \in Node : /\ WF_vars(LoopStep(n))
                     /\ WF_vars(SweepDead(n))
                     /\ WF_vars(n \notin up /\ Lapse(n))
  /\ \A s \in Step : WF_vars(child[s].abort_requested /\ ChildEnds(s))
  /\ WF_vars(AbortSteps)
  /\ WF_vars(SweepQuiet)

FairSpec == Spec /\ Fairness

-----------------------------------------------------------------------------
(* What the users see: JobPromise of the multistep (0) and of its steps,   *)
(* under this mapping. The multistep itself is not on any runner.          *)

StatusOf(j) == IF j = 0 THEN parent.status ELSE child[j].status

Promise == INSTANCE JobPromise WITH
  Job   <- 0..Last,
  phase <- [j \in 0..Last |-> PhaseOf(StatusOf(j))],
  runs  <- [j \in 0..Last |-> IF j = 0 THEN 0 ELSE hist.runs[j]],
  told  <- [j \in 0..Last |-> IF StatusOf(j) \in Outcome THEN 1 ELSE 0]

\* Every step of a multistep, its loops, requests and sweeps is, for it and for each of its steps, a move
\* the promise allows: launched once, ended once, and what is rejected or has ended stays so
\* (Job.continue, Job.claimNextStep, Job.endJobStatus).
MultistepKept == Promise!Spec

-----------------------------------------------------------------------------
(* Properties                                                              *)

\* No step is launched twice, whoever approves, from whatever process, and whatever is given up
\* and claimed on the way (Job.continue, Job.claimNextStep).
StepOnce == \A s \in Step : hist.runs[s] <= 1

\* Two steps never run at the same time, but for a step the loop lost to a statement that failed: its
\* own end, or the line after its launch. A step whose node is given up is followed by another node
\* while the loop takes it for failed, and a failed step may let the next one start: what stops
\* the loop is that the sweep's one statement gave its own row up as well (Job.abandonDeadNodes).
OneStepAtATime ==
  \A s, t \in Step \ hist.unwatched : child[s].status = "running" /\ child[t].status = "running" => s = t

\* a step that ended badly
Bad(s) == child[s].status \in {"failed", "aborted"}

\* A step after a failed one runs only if the failed one has `continue`, the step itself `always`,
\* or somebody approved the run in between (Multistep.launch, finalSuccessStatus).
FailureStops ==
  [][\A s \in Step : hist'.runs[s] > hist.runs[s] =>
       \/ form.steps[s].always
       \/ \A f \in 1..(s - 1) :
            Bad(f) => form.steps[f].continue \/ \E a \in (f + 1)..s : form.steps[a].approval /\ form.steps[a].met]_vars

\* the last step an approval was asked for : the run that ended began there
LastGate == LET gates == {s \in Step : form.steps[s].approval /\ form.steps[s].met /\ s <= at}
            IN IF gates = {} THEN 1 ELSE CHOOSE s \in gates : \A t \in gates : t <= s

\* A multistep that ended as success ran every step that was to run since its last approval, and
\* each of them succeeded; one that ended with a warning went on only after steps that allow it.
TruthfulParent ==
  \A s \in LastGate..Last : form.steps[s].met =>
    /\ parent.status = "success" => child[s].status \in {"success", "warning"}
    /\ parent.status = "warning" => child[s].status \in {"success", "warning"} \/ form.steps[s].continue

\* An abort reaches the step that runs: once the request is done, no loop waits on a running step
\* that was not told, even if the step was launched after the request looked for it (Job.abort,
\* the pass of the abort after the launch) - unless the very statement that tells it failed.
AbortReachesStep ==
  \A n \in Node :
    At(n, "wait") /\ parent.status = "running" /\ parent.abort_requested /\ ~aborting =>
      LET r == child[loop[n].step]
      IN r.status = "running" => r.abort_requested \/ loop[n].step \in hist.untold \cup hist.unwatched

\* An aborted multistep comes to rest: it ends, is given up, or waits for an approval that was due -
\* if each of its steps could be told.
AbortStops ==
  parent.status = "running" /\ parent.abort_requested /\ hist.untold = {}
    ~> parent.status # "running" \/ ~parent.abort_requested \/ hist.untold # {}

-----------------------------------------------------------------------------
(* What the code does not keep: see the README                            *)

\* What the help says of a multistep (help.yaml: it is stopped by a failed step), approvals or not.
FailureStopsAlways ==
  [][\A s \in Step : hist'.runs[s] > hist.runs[s] =>
       \/ form.steps[s].always
       \/ \A f \in 1..(s - 1) : Bad(f) => form.steps[f].continue]_vars
=============================================================================
