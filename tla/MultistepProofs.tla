--------------------------- MODULE MultistepProofs ---------------------------
(***************************************************************************)
(* What a multistep keeps, for any number of nodes, steps and faults.      *)
(*                                                                         *)
(* One loop runs a multistep, its row names the loop's process and at most *)
(* one of its steps is under way: the steps a new loop launches are ones   *)
(* nothing was launched of since the approval it began with. From there on *)
(* it passed, or tolerates, every step it left behind: what a failed step  *)
(* stops, and what the end of the multistep says, follow from that.        *)
(***************************************************************************)
EXTENDS Multistep, FiniteSetTheorems, TLAPS

-----------------------------------------------------------------------------
(* What the statements of the jobs table return                            *)

\* Every statement maps a row to a row.
LEMMA MoveTyping ==
  ASSUME NEW r \in Row
  PROVE  /\ \A o \in Outcome : EndRow(r, o) \in Row
         /\ HoldRow(r) \in Row /\ RejectRow(r) \in Row /\ StoreIdRow(r) \in Row
         /\ \A n \in Node : CreateRow(r, n) \in Row /\ ContinueRow(r, n) \in Row
  <1>1. ASSUME NEW from, NEW to \in Status PROVE TransitionStatus(r, from, to, TRUE) \in Row
    <2>. DEFINE flag == r.abort_requested /\ (\/ to \notin TERMINAL_STATUS
                                              \/ to = "rejected" /\ r.job_type = "workflow")
    <2>1. flag \in BOOLEAN
      OBVIOUS
    <2>. HIDE DEF flag
    <2>2. [r EXCEPT !.status = to, !.end = TRUE, !.abort_requested = flag] \in Row
      BY <2>1 DEF Row
    <2>. QED
      BY <2>2 DEF TransitionStatus, flag
  <1>2. {"approve", "rejected", "running"} \cup Outcome \subseteq Status
    BY DEF Status, TERMINAL_STATUS, Outcome
  <1>3. \A o \in Outcome : EndRow(r, o) \in Row
    BY <1>1, <1>2 DEF EndRow
  <1>4. HoldRow(r) \in Row /\ RejectRow(r) \in Row
    BY <1>1, <1>2 DEF HoldRow, RejectRow
  <1>5. StoreIdRow(r) \in Row /\ \A n \in Node : CreateRow(r, n) \in Row /\ ContinueRow(r, n) \in Row
    BY <1>2 DEF StoreIdRow, CreateRow, ContinueRow, Row
  <1>. QED
    BY <1>3, <1>4, <1>5

LEMMA SweepTyping ==
  ASSUME NEW r \in Row
  PROVE  /\ RequestAbortRow(r) \in Row /\ ResetAbortRow(r) \in Row
         /\ AbandonQuietRow(r) \in Row
         /\ \A n, u : AbandonOwnRow(r, n, u) \in Row
         /\ \A n, recent, kept : AbandonDeadRow(r, n, recent, kept) \in Row
         /\ \A seen : \A n \in Node : ClaimRow(r, seen, n) \in Row
  <1>1. AbandonedRow(r) \in Row
    BY DEF AbandonedRow, Row, Status, TERMINAL_STATUS
  <1>2. RequestAbortRow(r) \in Row /\ ResetAbortRow(r) \in Row
    BY DEF RequestAbortRow, ResetAbortRow, Row
  <1>3. \A seen : \A n \in Node : ClaimRow(r, seen, n) \in Row
    BY DEF ClaimRow, Row, Status
  <1>. QED
    BY <1>1, <1>2, <1>3 DEF AbandonQuietRow, AbandonOwnRow, AbandonDeadRow

LEMMA AbsentTyping ==
  /\ AbsentRow("awx") \in Row /\ AbsentRow("multistep") \in Row
  /\ AbsentRow("awx").job_type = "awx" /\ AbsentRow("multistep").job_type = "multistep"
  BY DEF Row, AbsentRow, Status, JobType

\* What a sweep leaves of a row is the row, or the row given up.
LEMMA AbandonedFacts ==
  ASSUME NEW r \in Row
  PROVE  LET q == AbandonedRow(r)
         IN /\ q.status = "abandoned" /\ q.abort_requested = FALSE /\ q.end = r.end
            /\ q.tracker = r.tracker /\ q.host = r.host /\ q.job_type = r.job_type
  BY DEF AbandonedRow, Row

LEMMA OwnFacts ==
  ASSUME NEW r \in Row, r.job_type # "workflow", r.host = NoNode, NEW n \in Node
  PROVE  /\ r.status = "running" /\ r.tracker = n => AbandonOwnRow(r, n, FALSE) = AbandonedRow(r)
         /\ ~(r.status = "running" /\ r.tracker = n) => AbandonOwnRow(r, n, FALSE) = r
  BY NoNodeAssumption DEF AbandonOwnRow, UnderWay

\* Whose jobs the sweep of w gives up.
Dead(n, w, recent) == n \notin {NoNode, w} /\ n \notin recent

LEMMA DeadFacts ==
  ASSUME NEW r \in Row, r.job_type # "workflow", r.host = NoNode, NEW w, NEW recent
  PROVE  /\ r.status = "running" /\ Dead(r.tracker, w, recent) => AbandonDeadRow(r, w, recent, {}) = AbandonedRow(r)
         /\ ~(r.status = "running" /\ Dead(r.tracker, w, recent)) => AbandonDeadRow(r, w, recent, {}) = r
  BY DEF AbandonDeadRow, UnderWay, Owner, Dead

LEMMA EndFacts ==
  ASSUME NEW r \in Row, NEW o \in Outcome
  PROVE  LET q == EndRow(r, o)
         IN /\ r.status \notin {"running", "abandoned"} => q = r
            /\ r.status \in {"running", "abandoned"} =>
                 /\ q.status = o /\ q.end = TRUE /\ q.abort_requested = FALSE
                 /\ q.tracker = r.tracker /\ q.host = r.host /\ q.job_type = r.job_type
  <1>1. o \in TERMINAL_STATUS /\ o # "rejected"
    BY DEF Outcome, TERMINAL_STATUS
  <1>. QED
    BY <1>1 DEF EndRow, TransitionStatus, ENDS_FROM, Row

LEMMA HoldFacts ==
  ASSUME NEW r \in Row
  PROVE  LET q == HoldRow(r)
         IN /\ r.status # "running" => q = r
            /\ r.status = "running" => /\ q.status = "approve"
                                       /\ q.tracker = r.tracker /\ q.host = r.host /\ q.job_type = r.job_type
  BY DEF HoldRow, TransitionStatus, Row

LEMMA FlagFacts ==
  ASSUME NEW r \in Row
  PROVE  LET q == RequestAbortRow(r)
         IN /\ q.status = r.status /\ q.tracker = r.tracker /\ q.host = r.host /\ q.job_type = r.job_type
            /\ q.end = r.end
            /\ r.status = "running" => q.abort_requested = TRUE
            /\ r.abort_requested = TRUE => q.abort_requested = TRUE
            /\ r.job_type # "workflow" /\ r.status # "running" => q = r
  BY DEF RequestAbortRow, UnderWay, Row

-----------------------------------------------------------------------------
(* Types, and where a loop is                                              *)

\* The step a loop is at.
Where(l) ==
  /\ l.pc \in {"gate", "title", "launch", "pass", "wait", "failed"} => l.step \in Step
  /\ l.pc = "next" => l.step # 0
  /\ l.pc = "start" => l.step # Last + 1
  /\ l.pc = "end" => l.step = Last + 1

TypeInv == TypeOK /\ \A n \in Node : Where(loop[n])

OthersStay(n) == \A m \in Node \ {n} : loop'[m] = loop[m]

\* The loop of n, and only it, is in another state.
Changed(n) == loop' \in [Node -> Loop] /\ OthersStay(n)

LEMMA OffType == Off \in Loop
  BY MultistepAssumption DEF Off, Loop, Pc

LEMMA FaultType ==
  ASSUME TypeOK, NEW kind, Fault(kind)
  PROVE  faults' \in 0..MaxFaults
  BY MultistepAssumption DEF TypeOK, Fault

LEMMA LoopType ==
  ASSUME TypeInv, NEW n \in Node
  PROVE  loop[n] \in Loop /\ Where(loop[n])
  BY DEF TypeInv, TypeOK

LEMMA LoopSet ==
  ASSUME TypeInv, NEW n \in Node, NEW k \in Loop, loop' = [loop EXCEPT ![n] = k]
  PROVE  Changed(n) /\ loop'[n] = k
  BY DEF TypeInv, TypeOK, Changed, OthersStay

\* What the properties note of a run.
Notes == [runs : [Step -> Nat], untold : SUBSET Step, unwatched : SUBSET Step]

\* Nothing is launched, and what was noted stays so.
Noted ==
  /\ hist' \in Notes /\ hist'.runs = hist.runs
  /\ hist.untold \subseteq hist'.untold /\ hist.unwatched \subseteq hist'.unwatched

LEMMA NotedSame ==
  ASSUME TypeInv, UNCHANGED hist
  PROVE  Noted
  BY DEF TypeInv, TypeOK, Noted, Notes

\* A failure that is noted of some steps.
LEMMA NotedMore ==
  ASSUME TypeInv, NEW S \in SUBSET Step, NEW T \in SUBSET Step,
         hist' = [hist EXCEPT !.untold = hist.untold \cup S, !.unwatched = hist.unwatched \cup T]
  PROVE  /\ Noted /\ hist'.untold = hist.untold \cup S /\ hist'.unwatched = hist.unwatched \cup T
  BY DEF TypeInv, TypeOK, Noted, Notes

Same(l, k) == k.step = l.step /\ k.passed = l.passed /\ k.partial = l.partial

\* The loop of n leaves its step for the next one.
Leaves(n) ==
  LET l == loop[n]
      k == loop'[n]
      f == form.steps[l.step]
  IN /\ l.step \in Step /\ k.pc = "next" /\ k.step = l.step + 1
     /\ \/ l.pc = "next" /\ f.met = FALSE /\ k.passed = l.passed /\ k.partial = l.partial
        \/ l.pc = "title" /\ k.passed = FALSE
        \/ /\ l.pc = "wait" /\ Settled(l.step, n) /\ StepPassed(child[l.step])
           /\ k.passed = l.passed /\ k.partial = l.partial
        \/ l.pc = "failed" /\ k.passed = FALSE
        \/ l.pc = "failed" /\ f.continue = TRUE /\ k.passed = l.passed /\ k.partial = TRUE

\* The loop of n begins with the step it was started for, or with the first.
Begins(n) ==
  /\ loop[n].pc = "start" /\ loop'[n].pc = "next"
  /\ loop'[n].step = IF loop[n].step = 0 THEN 1 ELSE loop[n].step
  /\ loop'[n].passed = loop[n].passed /\ loop'[n].partial = loop[n].partial

\* The loop of n goes on with the same step.
GoesOn(n) ==
  LET l == loop[n]
      k == loop'[n]
  IN /\ Same(l, k)
     /\ \/ l.pc = "next" /\ k.pc = "end" /\ l.step = Last + 1
        \/ /\ l.pc = "title" /\ k.pc = "launch"
           /\ l.passed = TRUE \/ form.steps[l.step].always = TRUE
        \/ l.pc \in {"launch", "next", "gate", "title"} /\ l.step \in Step /\ k.pc = "failed"
        \/ l.pc = "wait" /\ Settled(l.step, n) /\ k.pc = "failed"
        \/ l.pc = "pass" /\ l.step \in hist'.unwatched /\ k.pc = "failed"

\* The steps of a loop that write no row, the claim that finds its row taken among them.
Quiet(n) ==
  \/ Start(n) \/ SkipUnmet(n) \/ Title(n) \/ LaunchRefused(n) \/ StepEnds(n) \/ StepFailed(n)
  \/ Recap(n) \/ LoopDies(n) \/ StatementFails(n) \/ LaunchLineFails(n) \/ (ClaimNextStep(n) /\ ~ClaimsNext(parent, n))

Unwritten == UNCHANGED <<form, parent, at, child, follower, resumed, reads, aborting, up, fresh>> /\ Noted

LEMMA QuietFacts ==
  ASSUME TypeInv, NEW n \in Node, Quiet(n)
  PROVE  /\ Unwritten /\ faults' \in 0..MaxFaults /\ Changed(n)
         /\ loop[n].pc # "off"
         /\ loop'[n] = Off \/ Begins(n) \/ GoesOn(n) \/ Leaves(n)
  <1>. DEFINE l == loop[n]
  <1>1. TypeOK /\ l \in Loop /\ Where(l) /\ faults \in 0..MaxFaults
    BY LoopType DEF TypeInv, TypeOK
  <1>f. l.pc \in {"next", "gate", "title", "launch", "pass", "wait", "failed"} /\ l.step \in Step =>
          /\ form.steps[l.step].always \in BOOLEAN /\ form.steps[l.step].continue \in BOOLEAN
          /\ form.steps[l.step].met \in BOOLEAN
    BY MultistepAssumption DEF TypeInv, TypeOK, StepForm
  <1>s. l.step \in 0..(Last + 1) /\ l.pc \in Pc /\ l.passed \in BOOLEAN /\ l.partial \in BOOLEAN
    BY <1>1 DEF Loop
  <1>2. ASSUME NEW k \in Loop, loop' = [loop EXCEPT ![n] = k] PROVE Changed(n) /\ loop'[n] = k
    BY <1>2, LoopSet
  <1>n. UNCHANGED hist => Noted
    BY NotedSame
  <1>3. CASE Start(n)
    <2>. DEFINE approved == l.approved /\ ~(form.global /\ l.step = 0)
                step == IF l.step = 0 THEN 1 ELSE l.step
                k == [l EXCEPT !.pc = "next", !.step = step, !.approved = approved]
    <2>1. approved \in BOOLEAN /\ step \in 0..(Last + 1)
      BY <1>s, MultistepAssumption DEF Step
    <2>2. l.pc = "start" /\ Unwritten /\ faults' = faults /\ loop' = [loop EXCEPT ![n] = k]
      BY <1>n, <1>1, <1>3 DEF Start, At, Outside, Rows, Unwritten, TypeInv, TypeOK, Jobs
    <2>. HIDE DEF approved, step
    <2>3. k \in Loop /\ k.pc = "next" /\ k.step = step /\ k.passed = l.passed /\ k.partial = l.partial
      BY <1>1, <2>1 DEF Loop, Pc
    <2>. HIDE DEF k
    <2>4. Changed(n) /\ loop'[n] = k
      BY <1>2, <2>2, <2>3
    <2>. QED
      BY <1>1, <2>2, <2>3, <2>4 DEF Begins, step
  <1>4. ASSUME NEW passed \in BOOLEAN, NEW partial \in BOOLEAN, l.step \in Step, l.pc # "off",
               Unwritten, faults' \in 0..MaxFaults,
               loop' = [loop EXCEPT ![n] = [NextAfter(l) EXCEPT !.passed = passed, !.partial = partial]]
        PROVE  /\ Unwritten /\ faults' \in 0..MaxFaults /\ Changed(n) /\ loop[n].pc # "off"
               /\ loop'[n].pc = "next" /\ loop'[n].step = l.step + 1
               /\ loop'[n].passed = passed /\ loop'[n].partial = partial
    <2>. DEFINE k == [NextAfter(l) EXCEPT !.passed = passed, !.partial = partial]
    <2>1. l.step + 1 \in 0..(Last + 1)
      BY <1>4, <1>s, MultistepAssumption DEF Step
    <2>2. k \in Loop /\ k.pc = "next" /\ k.step = l.step + 1 /\ k.passed = passed /\ k.partial = partial
      BY <1>1, <1>4, <2>1 DEF NextAfter, Loop, Pc
    <2>. HIDE DEF k
    <2>3. loop' = [loop EXCEPT ![n] = k]
      BY <1>4 DEF k
    <2>4. Changed(n) /\ loop'[n] = k
      BY <1>2, <2>2, <2>3
    <2>. QED
      BY <1>1, <1>4, <2>2, <2>4
  <1>5. [NextAfter(l) EXCEPT !.passed = l.passed, !.partial = l.partial] = NextAfter(l)
    BY <1>1 DEF NextAfter, Loop
  <1>6. [NextAfter(l) EXCEPT !.passed = FALSE, !.partial = l.partial] = [NextAfter(l) EXCEPT !.passed = FALSE]
    BY <1>1 DEF NextAfter, Loop
  <1>7. ASSUME NEW pc \in Pc, Goes(n, pc)
        PROVE  Changed(n) /\ loop'[n].pc = pc /\ Same(l, loop'[n])
    <2>1. [l EXCEPT !.pc = pc] \in Loop /\ [l EXCEPT !.pc = pc].pc = pc /\ Same(l, [l EXCEPT !.pc = pc])
      BY <1>1 DEF Loop, Same
    <2>2. loop' = [loop EXCEPT ![n] = [l EXCEPT !.pc = pc]]
      BY <1>7 DEF Goes, TypeInv, TypeOK
    <2>. QED
      BY <1>2, <2>1, <2>2
  <1>9. CASE SkipUnmet(n)
    <2>1. /\ l.pc = "next" /\ l.step \in Step /\ form.steps[l.step].met = FALSE
          /\ Unwritten /\ faults' = faults /\ loop' = [loop EXCEPT ![n] = NextAfter(l)]
      BY <1>n, <1>f, <1>9 DEF SkipUnmet, At, Outside, Rows, Unwritten, TypeInv, TypeOK, Jobs
    <2>. QED
      BY <1>1, <1>4, <1>5, <1>s, <2>1 DEF Leaves
  <1>10. CASE Title(n)
    <2>1. l.pc = "title" /\ l.step \in Step /\ Unwritten /\ faults' = faults
      BY <1>n, <1>1, <1>10 DEF Title, At, Outside, Rows, Unwritten, Where, Jobs
    <2>2. CASE ~parent.abort_requested /\ (l.passed \/ form.steps[l.step].always)
      <3>1. Goes(n, "launch") /\ (l.passed = TRUE \/ form.steps[l.step].always = TRUE)
        BY <1>10, <1>f, <1>s, <2>1, <2>2 DEF Title
      <3>. QED
        BY <1>1, <1>7, <2>1, <3>1 DEF Pc, GoesOn
    <2>3. CASE ~(~parent.abort_requested /\ (l.passed \/ form.steps[l.step].always))
      <3>1. loop' = [loop EXCEPT ![n] = [NextAfter(l) EXCEPT !.passed = FALSE]]
        BY <1>10, <2>3 DEF Title, TypeInv, TypeOK
      <3>. QED
        BY <1>1, <1>4, <1>6, <1>s, <2>1, <3>1 DEF Leaves
    <2>. QED
      BY <2>2, <2>3
  <1>11. CASE LaunchRefused(n)
    <2>1. l.pc = "launch" /\ l.step \in Step /\ Unwritten /\ faults' = faults /\ Goes(n, "failed")
      BY <1>n, <1>1, <1>11 DEF LaunchRefused, At, Outside, Rows, Unwritten, Where, Jobs
    <2>. QED
      BY <1>1, <1>7, <2>1 DEF Pc, GoesOn
  <1>12. CASE StepEnds(n)
    <2>1. l.pc = "wait" /\ l.step \in Step /\ Settled(l.step, n) /\ Unwritten /\ faults' = faults
      BY <1>n, <1>1, <1>12 DEF StepEnds, At, Outside, Rows, Unwritten, Where, Jobs
    <2>2. CASE StepPassed(child[l.step])
      <3>1. loop' = [loop EXCEPT ![n] = NextAfter(l)]
        BY <1>12, <2>2 DEF StepEnds, TypeInv, TypeOK
      <3>. QED
        BY <1>1, <1>4, <1>5, <1>s, <2>1, <2>2, <3>1 DEF Leaves
    <2>3. CASE ~StepPassed(child[l.step])
      <3>1. Goes(n, "failed")
        BY <1>12, <2>3 DEF StepEnds, Goes, TypeInv, TypeOK
      <3>. QED
        BY <1>1, <1>7, <2>1, <3>1 DEF Pc, GoesOn
    <2>. QED
      BY <2>2, <2>3
  <1>13. CASE StepFailed(n)
    <2>1. /\ l.pc = "failed" /\ l.step \in Step /\ Unwritten /\ faults' \in 0..MaxFaults
          /\ \E aborted : AfterFailure(n, aborted)
      BY <1>n, <1>1, <1>13, FaultType DEF StepFailed, At, Rows, Jobs, Unwritten, Where
    <2>2. PICK aborted : AfterFailure(n, aborted)
      BY <2>1
    <2>. DEFINE goesOn == form.steps[l.step].continue /\ ~aborted
                partial == l.partial \/ goesOn
                passed == l.passed /\ goesOn
    <2>3. passed \in BOOLEAN /\ partial \in BOOLEAN
      BY <1>s
    <2>4. loop' = [loop EXCEPT ![n] = [NextAfter(l) EXCEPT !.partial = partial, !.passed = passed]]
      BY <2>2 DEF AfterFailure
    <2>5. \/ passed = FALSE
          \/ form.steps[l.step].continue = TRUE /\ passed = l.passed /\ partial = TRUE
      BY <1>f, <1>s, <2>1
    <2>. HIDE DEF passed, partial
    <2>6. [NextAfter(l) EXCEPT !.partial = partial, !.passed = passed]
            = [NextAfter(l) EXCEPT !.passed = passed, !.partial = partial]
      BY <1>1 DEF NextAfter, Loop
    <2>. QED
      BY <1>4, <1>s, <2>1, <2>3, <2>4, <2>5, <2>6 DEF Leaves
  <1>14. CASE Recap(n)
    <2>. DEFINE k == [l EXCEPT !.pc = "end", !.aborted = parent.abort_requested]
    <2>1. l.pc = "next" /\ l.step = Last + 1 /\ Unwritten /\ faults' = faults
      BY <1>n, <1>1, <1>s, <1>14, MultistepAssumption DEF Recap, At, Outside, Rows, Unwritten, Where, Step, Jobs
    <2>2. k \in Loop /\ k.pc = "end" /\ Same(l, k)
      BY <1>1 DEF TypeInv, TypeOK, Row, Loop, Pc, Same
    <2>3. loop' = [loop EXCEPT ![n] = k]
      BY <1>14 DEF Recap, TypeInv, TypeOK
    <2>. HIDE DEF k
    <2>. QED
      BY <1>1, <1>2, <2>1, <2>2, <2>3 DEF GoesOn
  <1>15. ASSUME Dies(n), l.pc # "off", Unwritten, faults' \in 0..MaxFaults
         PROVE  /\ Unwritten /\ faults' \in 0..MaxFaults /\ Changed(n) /\ loop[n].pc # "off"
                /\ loop'[n] = Off
    BY <1>2, <1>15, OffType DEF Dies
  <1>16. CASE LoopDies(n)
    BY <1>n, <1>15, <1>16, FaultType DEF LoopDies, Unwritten, Rows, TypeInv, Jobs
  <1>17. CASE StatementFails(n)
    <2>1. /\ l.pc \in {"next", "gate", "title"} \/ (l.pc = "wait" /\ Settled(l.step, n))
          /\ l.step \in Step /\ Goes(n, "failed") /\ Unwritten /\ faults' \in 0..MaxFaults
      BY <1>n, <1>17, FaultType DEF StatementFails, At, Unwritten, Rows, Jobs, TypeInv
    <2>. QED
      BY <1>7, <2>1 DEF Pc, GoesOn
  <1>19. CASE LaunchLineFails(n)
    <2>1. /\ l.pc = "pass" /\ l.step \in Step /\ Goes(n, "failed") /\ faults' \in 0..MaxFaults
          /\ UNCHANGED <<form, parent, at, child, follower, resumed, reads, aborting, up, fresh>>
      BY <1>1, <1>19, FaultType DEF LaunchLineFails, At, Rows, Jobs, TypeInv, Where
    <2>2. PICK S \in SUBSET Step, T \in SUBSET Step :
            /\ T = {l.step}
            /\ hist' = [hist EXCEPT !.untold = hist.untold \cup S, !.unwatched = hist.unwatched \cup T]
      BY <1>19, <2>1 DEF LaunchLineFails, Missed
    <2>3. Noted /\ hist'.unwatched = hist.unwatched \cup T
      BY <2>1, <2>2, NotedMore
    <2>. QED
      BY <1>7, <2>1, <2>2, <2>3 DEF Pc, GoesOn, Unwritten
  <1>18. CASE ClaimNextStep(n) /\ ~ClaimsNext(parent, n)
    <2>1. l.pc = "next" /\ Dies(n) /\ Unwritten /\ faults' = faults
      BY <1>n, <1>18 DEF ClaimNextStep, At, Outside, Rows, Unwritten, Jobs
    <2>. QED
      BY <1>1, <1>15, <2>1
  <1>. QED
    BY <1>3, <1>9, <1>10, <1>11, <1>12, <1>13, <1>14, <1>16, <1>17, <1>18, <1>19 DEF Quiet

\* A loop that holds its row: at the gate of a step, or before anything ran.
Halts(n) == HoldForm(n) \/ HoldStep(n)

LEMMA HaltFacts ==
  ASSUME TypeInv, NEW n \in Node, Halts(n)
  PROVE  /\ UNCHANGED <<form, at, child, follower, resumed, aborting, up, fresh, hist>>
         /\ faults' \in 0..MaxFaults /\ Changed(n) /\ loop'[n] = Off
         /\ parent' = HoldRow(parent)
         /\ reads' \subseteq reads /\ ("slow" \notin FaultKinds => reads' = {})
         /\ \/ loop[n].pc = "gate"
            \/ loop[n].pc = "start" /\ loop[n].step = 0 /\ loop[n].approved = FALSE
  <1>1. Holds(n) /\ TypeOK /\ loop[n] \in Loop
    BY LoopType DEF Halts, HoldForm, HoldStep, TypeInv
  <1>2. /\ UNCHANGED <<form, at, child, follower, resumed, aborting, up, fresh, hist>>
        /\ parent' = HoldRow(parent) /\ loop' = [loop EXCEPT ![n] = Off]
    BY <1>1 DEF Holds, Waits, Jobs
  <1>3. faults' \in 0..MaxFaults /\ reads' \subseteq reads /\ ("slow" \notin FaultKinds => reads' = {})
    <2>1. CASE reads' = {} /\ UNCHANGED faults
      BY <1>1, <2>1 DEF TypeOK
    <2>2. CASE Fault("slow") /\ UNCHANGED reads
      BY <1>1, <2>2, FaultType DEF Fault
    <2>. QED
      BY <1>1, <2>1, <2>2 DEF Holds, Jobs
  <1>4. \/ loop[n].pc = "gate"
        \/ loop[n].pc = "start" /\ loop[n].step = 0 /\ loop[n].approved = FALSE
    BY <1>1 DEF Halts, HoldForm, HoldStep, At, Loop
  <1>. QED
    BY <1>2, <1>3, <1>4, LoopSet, OffType

\* The claim of the next step that finds the row as it should be.
Claims(n) == ClaimNextStep(n) /\ ClaimsNext(parent, n)

LEMMA ClaimFacts ==
  ASSUME TypeInv, NEW n \in Node, Claims(n)
  PROVE  /\ UNCHANGED <<form, parent, child, follower, resumed, reads, aborting, up, fresh, faults, hist>>
         /\ Changed(n) /\ Same(loop[n], loop'[n])
         /\ loop[n].pc = "next" /\ loop[n].step \in Step /\ at' = loop[n].step
         /\ form.steps[loop[n].step].met = TRUE /\ parent.status = "running"
         /\ \/ loop'[n].pc = "gate" /\ form.steps[loop[n].step].approval = TRUE
            \/ loop'[n].pc = "title"
  <1>. DEFINE l == loop[n]
              asks == form.steps[l.step].approval
              pc == IF asks /\ ~l.approved THEN "gate" ELSE "title"
              approved == l.approved /\ ~asks
              k == [l EXCEPT !.pc = pc, !.approved = approved]
  <1>1. l \in Loop /\ l.pc = "next" /\ l.step \in Step
    BY LoopType DEF Claims, ClaimNextStep, At
  <1>2. asks \in BOOLEAN /\ form.steps[l.step].met \in BOOLEAN
    BY <1>1, MultistepAssumption DEF TypeInv, TypeOK, StepForm
  <1>3. loop' = [loop EXCEPT ![n] = k] /\ at' = l.step /\ form.steps[l.step].met = TRUE
    BY <1>2 DEF Claims, ClaimNextStep, TypeInv, TypeOK
  <1>4. pc \in Pc /\ approved \in BOOLEAN /\ (pc = "title" \/ (pc = "gate" /\ asks = TRUE))
    BY <1>1, <1>2 DEF Pc, Loop
  <1>. HIDE DEF pc, approved, asks
  <1>5. k \in Loop /\ k.pc = pc /\ Same(l, k)
    BY <1>1, <1>4 DEF Loop, Same
  <1>. HIDE DEF k
  <1>6. Changed(n) /\ loop'[n] = k
    BY <1>3, <1>5, LoopSet
  <1>7. /\ UNCHANGED <<form, parent, child, follower, resumed, reads, aborting, up, fresh, faults, hist>>
        /\ parent.status = "running"
    BY DEF Claims, ClaimNextStep, ClaimsNext, Outside, Jobs
  <1>. QED
    BY <1>1, <1>3, <1>4, <1>5, <1>6, <1>7 DEF asks

LEMMA GoesFacts ==
  ASSUME TypeInv, NEW n \in Node, NEW pc \in Pc, Goes(n, pc)
  PROVE  Changed(n) /\ loop'[n].pc = pc /\ Same(loop[n], loop'[n])
  <1>. DEFINE k == [loop[n] EXCEPT !.pc = pc]
  <1>1. k \in Loop /\ k.pc = pc /\ Same(loop[n], k)
    BY LoopType DEF Loop, Same
  <1>2. loop' = [loop EXCEPT ![n] = k]
    BY DEF Goes, TypeInv, TypeOK
  <1>. HIDE DEF k
  <1>. QED
    BY <1>1, <1>2, LoopSet

LEMMA NewChild ==
  ASSUME NEW n \in Node
  PROVE  LET r == StoreIdRow(CreateRow(AbsentRow("awx"), n))
         IN /\ r \in Row /\ r.status = "running" /\ r.tracker = n /\ r.host = NoNode
            /\ r.end = FALSE /\ r.abort_requested = FALSE /\ r.job_type = "awx"
  <1>1. CreateRow(AbsentRow("awx"), n) \in Row
    BY AbsentTyping, MoveTyping
  <1>. QED
    BY <1>1, AbsentTyping, MoveTyping DEF StoreIdRow, CreateRow, AbsentRow, Row

\* The job of one step is another row, the others are as they were.
OneChild(s) == child' \in [Step -> Row] /\ \A t \in Step \ {s} : child'[t] = child[t]

LEMMA LaunchStepFacts ==
  ASSUME TypeInv, NEW n \in Node, LaunchStep(n)
  PROVE  /\ UNCHANGED <<form, parent, at, resumed, reads, aborting, up, fresh, faults>>
         /\ Changed(n) /\ Same(loop[n], loop'[n]) /\ loop[n].pc = "launch" /\ loop'[n].pc = "pass"
         /\ loop[n].step \in Step /\ OneChild(loop[n].step)
         /\ follower' \in [Step -> Node \cup {NoNode}] /\ follower'[loop[n].step] = n
         /\ LET r == child'[loop[n].step]
            IN /\ r.status = "running" /\ r.tracker = n /\ r.host = NoNode
               /\ r.end = FALSE /\ r.abort_requested = FALSE /\ r.job_type = "awx"
         /\ hist' \in Notes /\ hist'.untold = hist.untold /\ hist'.unwatched = hist.unwatched
         /\ \A t \in Step : hist'.runs[t] = IF t = loop[n].step THEN hist.runs[t] + 1 ELSE hist.runs[t]
  <1>. DEFINE s == loop[n].step
  <1>1. s \in Step /\ loop[n].pc = "launch"
    BY LoopType DEF LaunchStep, At, Where
  <1>2. PICK r \in Row : r = StoreIdRow(CreateRow(AbsentRow("awx"), n))
    BY NewChild
  <1>3. child' = [child EXCEPT ![s] = r] /\ follower' = [follower EXCEPT ![s] = n]
    BY <1>2 DEF LaunchStep
  <1>4. OneChild(s) /\ child'[s] = r /\ follower' \in [Step -> Node \cup {NoNode}] /\ follower'[s] = n
    BY <1>1, <1>3 DEF OneChild, TypeInv, TypeOK
  <1>5. hist' = [hist EXCEPT !.runs[s] = @ + 1]
    BY DEF LaunchStep
  <1>6. /\ hist' \in Notes /\ hist'.untold = hist.untold /\ hist'.unwatched = hist.unwatched
        /\ \A t \in Step : hist'.runs[t] = IF t = s THEN hist.runs[t] + 1 ELSE hist.runs[t]
    BY <1>1, <1>5 DEF TypeInv, TypeOK, Notes
  <1>7. Goes(n, "pass") /\ UNCHANGED <<form, parent, at, resumed, reads, aborting, up, fresh, faults>>
    BY DEF LaunchStep, Outside, Jobs
  <1>8. Changed(n) /\ Same(loop[n], loop'[n]) /\ loop'[n].pc = "pass"
    BY <1>7, GoesFacts DEF Pc
  <1>9. /\ r.status = "running" /\ r.tracker = n /\ r.host = NoNode
        /\ r.end = FALSE /\ r.abort_requested = FALSE /\ r.job_type = "awx"
    BY <1>2, NewChild
  <1>. QED
    BY <1>1, <1>4, <1>6, <1>7, <1>8, <1>9

\* The loop comes to wait: it passed the abort on, or could not.
Passes(n) == PassAbort(n) \/ PassAbortFails(n)

LEMMA PassAbortFacts ==
  ASSUME TypeInv, NEW n \in Node, Passes(n)
  PROVE  /\ UNCHANGED <<form, parent, at, follower, resumed, reads, aborting, up, fresh>>
         /\ faults' \in 0..MaxFaults /\ Noted
         /\ Changed(n) /\ Same(loop[n], loop'[n]) /\ loop[n].pc = "pass" /\ loop'[n].pc = "wait"
         /\ loop[n].step \in Step /\ OneChild(loop[n].step)
         /\ \/ child'[loop[n].step] = RequestAbortRow(child[loop[n].step])
            \/ /\ child'[loop[n].step] = child[loop[n].step]
               /\ parent.abort_requested = FALSE \/ loop[n].step \in hist'.untold
  <1>. DEFINE s == loop[n].step
  <1>1. s \in Step /\ loop[n].pc = "pass" /\ parent.abort_requested \in BOOLEAN
    BY LoopType DEF Passes, PassAbort, PassAbortFails, At, Where, TypeInv, TypeOK, Row
  <1>2. child[s] \in Row /\ child \in [Step -> Row]
    BY <1>1 DEF TypeInv, TypeOK
  <1>3. CASE PassAbort(n)
    <2>1. PICK r \in Row : r = RequestAbortRow(child[s])
      BY <1>2, SweepTyping
    <2>2. \/ child' = [child EXCEPT ![s] = r]
          \/ child' = child /\ parent.abort_requested = FALSE
      BY <1>1, <1>3, <2>1 DEF PassAbort, TypeInv, TypeOK
    <2>3. /\ OneChild(s)
          /\ \/ child'[s] = RequestAbortRow(child[s])
             \/ child'[s] = child[s] /\ parent.abort_requested = FALSE
      BY <1>1, <1>2, <2>1, <2>2 DEF OneChild
    <2>4. Goes(n, "wait") /\ UNCHANGED <<form, parent, at, follower, resumed, reads, aborting, up, fresh, faults, hist>>
      BY <1>3 DEF PassAbort, Outside
    <2>5. Changed(n) /\ Same(loop[n], loop'[n]) /\ loop'[n].pc = "wait"
      BY <2>4, GoesFacts DEF Pc
    <2>6. Noted /\ faults' \in 0..MaxFaults
      BY <2>4, NotedSame DEF TypeInv, TypeOK
    <2>. QED
      BY <1>1, <2>3, <2>4, <2>5, <2>6
  <1>4. CASE PassAbortFails(n)
    <2>1. /\ Goes(n, "wait") /\ faults' \in 0..MaxFaults
          /\ UNCHANGED <<form, parent, at, child, follower, resumed, reads, aborting, up, fresh>>
      BY <1>4, FaultType DEF PassAbortFails, Rows, Jobs, TypeInv
    <2>2. PICK S \in SUBSET Step : S = IF parent.abort_requested THEN {s} ELSE {}
      BY <1>1
    <2>3. hist' = [hist EXCEPT !.untold = hist.untold \cup S]
      BY <1>4, <2>2 DEF PassAbortFails, Missed
    <2>4. Noted /\ hist'.untold = hist.untold \cup S
      BY <2>3 DEF TypeInv, TypeOK, Noted, Notes
    <2>5. Changed(n) /\ Same(loop[n], loop'[n]) /\ loop'[n].pc = "wait"
      BY <2>1, GoesFacts DEF Pc
    <2>6. OneChild(s) /\ child'[s] = child[s] /\ (parent.abort_requested = FALSE \/ s \in hist'.untold)
      BY <1>1, <1>2, <2>1, <2>2, <2>4 DEF OneChild
    <2>. QED
      BY <1>1, <2>1, <2>4, <2>5, <2>6
  <1>. QED
    BY <1>3, <1>4 DEF Passes

LEMMA EndStepFacts ==
  ASSUME TypeInv, NEW n \in Node, End(n)
  PROVE  /\ UNCHANGED <<form, at, child, follower, resumed, reads, aborting, up, fresh, faults, hist>>
         /\ Changed(n) /\ loop'[n] = Off /\ loop[n].pc = "end"
         /\ parent' \in Row /\ parent'.host = parent.host /\ parent'.job_type = parent.job_type
         /\ parent'.tracker = parent.tracker
         /\ parent'.status = IF parent.status \in {"running", "abandoned"} THEN EndsAs(loop[n])
                             ELSE parent.status
  <1>1. loop[n] \in Loop /\ parent \in Row
    BY LoopType DEF TypeInv, TypeOK
  <1>2. PICK o \in Outcome : o = EndsAs(loop[n])
    BY DEF EndsAs, Outcome
  <1>3. PICK q \in Row : q = IF loop[n].aborted THEN ResetAbortRow(parent) ELSE parent
    BY <1>1, SweepTyping
  <1>4. /\ q.status = parent.status /\ q.host = parent.host
        /\ q.job_type = parent.job_type /\ q.tracker = parent.tracker
    BY <1>1, <1>3 DEF ResetAbortRow, Row
  <1>5. parent' = EndRow(q, o)
    BY <1>2, <1>3 DEF End
  <1>6. /\ parent' \in Row /\ parent'.host = q.host /\ parent'.job_type = q.job_type
        /\ parent'.tracker = q.tracker
        /\ parent'.status = IF q.status \in {"running", "abandoned"} THEN o ELSE q.status
    BY <1>5, EndFacts, MoveTyping
  <1>7. /\ UNCHANGED <<form, at, child, follower, resumed, reads, aborting, up, fresh, faults, hist>>
        /\ loop[n].pc = "end" /\ loop' = [loop EXCEPT ![n] = Off]
    BY DEF End, At, Dies, Outside, Jobs
  <1>. QED
    BY <1>2, <1>4, <1>6, <1>7, LoopSet, OffType

\* A loop that was started.
Started(l, s, approved) ==
  /\ l \in Loop /\ Where(l)
  /\ l.pc = "start" /\ l.step = s /\ l.approved = approved /\ l.passed = TRUE /\ l.partial = FALSE

LEMMA StartedFacts ==
  ASSUME NEW s \in 0..Last
  PROVE  /\ Started([Off EXCEPT !.pc = "start", !.step = s, !.approved = TRUE], s, TRUE)
         /\ Started([Off EXCEPT !.pc = "start"], 0, FALSE)
  <1>1. s \in 0..(Last + 1) /\ s # Last + 1 /\ 0 # Last + 1
    BY MultistepAssumption
  <1>2. Off.pc = "off" /\ Off.step = 0 /\ Off.approved = FALSE /\ Off.passed = TRUE /\ Off.partial = FALSE
    BY DEF Off
  <1>. QED
    BY <1>1, <1>2, OffType DEF Started, Where, Loop, Pc

\* The two ways a loop is started: by the launch, and by the approver.
LEMMA BeginFacts ==
  ASSUME TypeInv, NEW n \in Node, Launch(n) \/ Continue(n)
  PROVE  /\ UNCHANGED <<form, at, child, follower, resumed, reads, aborting, up, fresh, faults, hist>>
         /\ Changed(n) /\ n \in up
         /\ parent' \in Row /\ parent'.status = "running" /\ parent'.tracker = n
         /\ parent'.host = parent.host /\ parent'.job_type = parent.job_type
         /\ parent'.abort_requested = parent.abort_requested
         /\ \/ parent.status = "absent" /\ Started(loop'[n], 0, FALSE)
            \/ parent.status = "approve" /\ \E s \in reads : Started(loop'[n], s, TRUE)
  <1>1. parent \in Row
    BY DEF TypeInv, TypeOK
  <1>2. CASE Launch(n)
    <2>1. /\ UNCHANGED <<form, at, child, follower, resumed, reads, aborting, up, fresh, faults, hist>>
          /\ n \in up /\ parent.status = "absent" /\ parent' = CreateRow(parent, n)
          /\ loop' = [loop EXCEPT ![n] = [Off EXCEPT !.pc = "start"]]
      BY <1>2 DEF Launch, Outside, Jobs
    <2>2. 0 \in 0..Last
      BY MultistepAssumption
    <2>3. PICK k : k = [Off EXCEPT !.pc = "start"]
      OBVIOUS
    <2>4. Started(k, 0, FALSE)
      BY <2>2, <2>3, StartedFacts
    <2>5. Changed(n) /\ loop'[n] = k
      BY <2>1, <2>3, <2>4, LoopSet DEF Started
    <2>6. CreateRow(parent, n) \in Row
      BY <1>1, MoveTyping
    <2>. QED
      BY <1>1, <2>1, <2>4, <2>5, <2>6 DEF CreateRow, Row
  <1>3. CASE Continue(n)
    <2>1. /\ UNCHANGED <<form, at, child, follower, resumed, reads, aborting, up, fresh, faults, hist>>
          /\ n \in up /\ parent.status = "approve"
      BY <1>3 DEF Continue, Outside, Jobs
    <2>2. PICK s \in reads : /\ parent' = ContinueRow(parent, n)
                             /\ loop' = [loop EXCEPT ![n] =
                                            [Off EXCEPT !.pc = "start", !.step = s, !.approved = TRUE]]
      BY <1>3 DEF Continue, Jobs
    <2>3. PICK k : k = [Off EXCEPT !.pc = "start", !.step = s, !.approved = TRUE]
      OBVIOUS
    <2>4. s \in 0..Last
      BY DEF TypeInv, TypeOK
    <2>5. Started(k, s, TRUE)
      BY <2>3, <2>4, StartedFacts
    <2>6. Changed(n) /\ loop'[n] = k
      BY <2>2, <2>3, <2>5, LoopSet DEF Started
    <2>7. ContinueRow(parent, n) \in Row
      BY <1>1, MoveTyping
    <2>. QED
      BY <1>1, <2>1, <2>2, <2>5, <2>6, <2>7 DEF ContinueRow, Row
  <1>. QED
    BY <1>2, <1>3

\* An abort flags rows, and changes nothing else of them.
Flagged(s) ==
  LET r == child[s]
      q == child'[s]
  IN /\ q.status = r.status /\ q.tracker = r.tracker /\ q.host = r.host /\ q.job_type = r.job_type
     /\ q.end = r.end
     /\ r.abort_requested = TRUE => q.abort_requested = TRUE

Outer == UNCHANGED <<form, parent, at, loop, reads, up, fresh>>

LEMMA AbortStepsFacts ==
  ASSUME TypeInv, AbortSteps
  PROVE  /\ Outer /\ UNCHANGED <<follower, resumed>> /\ aborting = TRUE /\ aborting' = FALSE
         /\ faults' \in 0..MaxFaults /\ Noted
         /\ child' \in [Step -> Row]
         /\ \A s \in Step :
              /\ Flagged(s)
              /\ child[s].status = "running" => child'[s].abort_requested = TRUE \/ s \in hist'.untold
  <1>1. child \in [Step -> Row] /\ aborting \in BOOLEAN /\ faults \in 0..MaxFaults /\ TypeOK
    BY DEF TypeInv, TypeOK
  <1>2. PICK untold \in SUBSET {s \in Step : child[s].status = "running"} :
          /\ faults' = faults \/ Fault("aborter")
          /\ child' = [s \in Step |-> IF child[s].status = "running" /\ s \notin untold
                                      THEN RequestAbortRow(child[s]) ELSE child[s]]
          /\ hist' = [hist EXCEPT !.untold = hist.untold \cup untold]
    BY DEF AbortSteps
  <1>3. Noted /\ hist'.untold = hist.untold \cup untold
    BY <1>2 DEF TypeInv, TypeOK, Noted, Notes
  <1>4. \A s \in Step : child'[s] = IF child[s].status = "running" /\ s \notin untold
                                    THEN RequestAbortRow(child[s]) ELSE child[s]
    BY <1>2
  <1>5. ASSUME NEW s \in Step
        PROVE  /\ child'[s] \in Row /\ Flagged(s)
               /\ child[s].status = "running" => child'[s].abort_requested = TRUE \/ s \in untold
    <2>1. child[s] \in Row
      BY <1>1
    <2>2. CASE child[s].status = "running" /\ s \notin untold
      <3>1. child'[s] = RequestAbortRow(child[s])
        BY <1>4, <2>2
      <3>. QED
        BY <2>1, <2>2, <3>1, FlagFacts, SweepTyping, ZenonT(30) DEF Flagged
    <2>3. CASE ~(child[s].status = "running" /\ s \notin untold)
      <3>1. child'[s] = child[s]
        BY <1>4, <2>3
      <3>. QED
        BY <2>1, <2>3, <3>1 DEF Flagged
    <2>. QED
      BY <2>2, <2>3
  <1>6. child' \in [Step -> Row]
    BY <1>2, <1>5
  <1>7. faults' \in 0..MaxFaults
    BY <1>1, <1>2, FaultType
  <1>. QED
    BY <1>1, <1>3, <1>5, <1>6, <1>7 DEF AbortSteps, Outer

LEMMA AbortStepFacts ==
  ASSUME TypeInv, NEW s \in Step, AbortStep(s)
  PROVE  /\ Outer /\ UNCHANGED <<follower, resumed, faults, hist, aborting>>
         /\ child' \in [Step -> Row] /\ \A t \in Step : Flagged(t)
  <1>1. child \in [Step -> Row] /\ child[s] \in Row
    BY DEF TypeInv, TypeOK
  <1>2. PICK r \in Row : r = RequestAbortRow(child[s])
    BY <1>1, SweepTyping
  <1>3. child' = [child EXCEPT ![s] = r]
    BY <1>2 DEF AbortStep
  <1>4. \A t \in Step : Flagged(t)
    BY <1>1, <1>2, <1>3, FlagFacts, ZenonT(30) DEF Flagged
  <1>. QED
    BY <1>1, <1>3, <1>4 DEF AbortStep, Outside, Outer, Jobs

LEMMA ChildEndsFacts ==
  ASSUME TypeInv, NEW s \in Step, ChildEnds(s)
  PROVE  /\ Outer /\ UNCHANGED <<faults, hist, aborting, resumed>>
         /\ follower' \in [Step -> Node \cup {NoNode}] /\ OneChild(s)
         /\ \A t \in Step \ {s} : follower'[t] = follower[t]
         /\ child[s].status \notin {"running", "abandoned"} => child'[s] = child[s]
         /\ child[s].status \in {"running", "abandoned"} =>
              /\ child'[s].status \in {"success", "failed", "aborted"} /\ child'[s].end = TRUE
              /\ child'[s].tracker = child[s].tracker /\ child'[s].host = child[s].host
              /\ child'[s].job_type = child[s].job_type
  <1>1. child \in [Step -> Row] /\ child[s] \in Row
    BY DEF TypeInv, TypeOK
  <1>2. PICK o \in {"success", "failed", "aborted"} : child' = [child EXCEPT ![s] = EndRow(@, o)]
    BY DEF ChildEnds
  <1>3. o \in Outcome
    BY DEF Outcome
  <1>4. PICK r \in Row : r = EndRow(child[s], o)
    BY <1>1, <1>3, MoveTyping
  <1>5. OneChild(s) /\ child'[s] = r
    BY <1>1, <1>2, <1>4 DEF OneChild
  <1>6. /\ follower' \in [Step -> Node \cup {NoNode}] /\ \A t \in Step \ {s} : follower'[t] = follower[t]
        /\ Outer /\ UNCHANGED <<faults, hist, aborting, resumed>>
    BY DEF ChildEnds, TypeInv, TypeOK, Outside, Outer, Jobs
  <1>7. /\ child[s].status \notin {"running", "abandoned"} => r = child[s]
        /\ child[s].status \in {"running", "abandoned"} =>
             /\ r.status = o /\ r.end = TRUE
             /\ r.tracker = child[s].tracker /\ r.host = child[s].host /\ r.job_type = child[s].job_type
    BY <1>1, <1>3, <1>4, EndFacts
  <1>. QED
    BY <1>2, <1>5, <1>6, <1>7

LEMMA TakeOverFacts ==
  ASSUME TypeInv, NEW m \in Node, NEW s \in Step, TakeOver(m, s)
  PROVE  /\ Outer /\ UNCHANGED <<faults, hist, aborting>>
         /\ follower' \in [Step -> Node \cup {NoNode}] /\ OneChild(s)
         /\ resumed' \in [Step -> SUBSET Node] /\ \A t \in Step \ {s} : follower'[t] = follower[t]
         /\ child[s].status = "abandoned" /\ child[s].end = FALSE
         /\ child'[s].status = "running" /\ child'[s].end = FALSE
         /\ child'[s].tracker = m /\ child'[s].host = child[s].host /\ child'[s].job_type = child[s].job_type
  <1>1. child \in [Step -> Row] /\ child[s] \in Row
    BY DEF TypeInv, TypeOK
  <1>2. child[s].status = "abandoned" /\ child[s].end = FALSE
    BY <1>1 DEF TakeOver, Resumable, Row
  <1>3. PICK r : r = ClaimRow(child[s], child[s].tracker, m)
    OBVIOUS
  <1>4. r = [child[s] EXCEPT !.status = "running", !.tracker = m]
    BY <1>2, <1>3 DEF ClaimRow, Claimable
  <1>5. /\ r \in Row /\ r.status = "running" /\ r.end = FALSE /\ r.tracker = m /\ r.host = child[s].host
        /\ r.job_type = child[s].job_type
    BY <1>1, <1>2, <1>4 DEF Row, Status
  <1>6. /\ child' = [child EXCEPT ![s] = r] /\ follower' = [follower EXCEPT ![s] = m]
        /\ resumed' = [resumed EXCEPT ![s] = @ \cup {m}]
    BY <1>3 DEF TakeOver
  <1>7. /\ OneChild(s) /\ child'[s] = r /\ follower' \in [Step -> Node \cup {NoNode}]
        /\ resumed' \in [Step -> SUBSET Node] /\ \A t \in Step \ {s} : follower'[t] = follower[t]
    BY <1>1, <1>5, <1>6 DEF OneChild, TypeInv, TypeOK
  <1>. QED
    BY <1>2, <1>5, <1>7 DEF TakeOver, Outside, Outer, Jobs

LEMMA EndLostFacts ==
  ASSUME TypeInv, NEW s \in Step, EndLost(s)
  PROVE  /\ Outer /\ UNCHANGED <<child, resumed, aborting>> /\ faults' \in 0..MaxFaults
         /\ Noted /\ s \in hist'.unwatched
         /\ follower' \in [Step -> Node \cup {NoNode}]
         /\ \A t \in Step \ {s} : follower'[t] = follower[t]
  <1>1. /\ Outer /\ UNCHANGED <<child, resumed, aborting>> /\ faults' \in 0..MaxFaults
        /\ follower' = [follower EXCEPT ![s] = NoNode]
        /\ hist' = [hist EXCEPT !.unwatched = hist.unwatched \cup {s}]
    BY FaultType DEF EndLost, Outer, TypeInv
  <1>2. /\ follower' \in [Step -> Node \cup {NoNode}]
        /\ \A t \in Step \ {s} : follower'[t] = follower[t]
    BY <1>1 DEF TypeInv, TypeOK
  <1>3. Noted /\ s \in hist'.unwatched
    BY <1>1 DEF TypeInv, TypeOK, Noted, Notes
  <1>. QED
    BY <1>1, <1>2, <1>3

LEMMA EndParentFacts ==
  ASSUME TypeInv, NEW m \in Node, NEW s \in Step, EndParent(m, s)
  PROVE  /\ UNCHANGED <<form, at, child, follower, loop, reads, aborting, up, fresh, faults, hist>>
         /\ resumed' \in [Step -> SUBSET Node]
         /\ parent' \in Row /\ parent'.host = parent.host /\ parent'.job_type = parent.job_type
         /\ parent.status \in {"running", "abandoned"} => parent'.status = "failed"
         /\ parent.status \notin {"running", "abandoned"} => parent' = parent
  <1>1. parent \in Row /\ "failed" \in Outcome
    BY DEF TypeInv, TypeOK, Outcome
  <1>2. /\ UNCHANGED <<form, at, child, follower, loop, reads, aborting, up, fresh, faults, hist>>
        /\ parent' = EndRow(parent, "failed") /\ resumed' \in [Step -> SUBSET Node]
    BY DEF EndParent, Outside, TypeInv, TypeOK
  <1>. QED
    BY <1>1, <1>2, EndFacts, MoveTyping

\* What the type of a state needs to hear of a step.
Typed ==
  /\ UNCHANGED form
  /\ parent' \in Row /\ parent'.job_type = parent.job_type
  /\ at' \in 0..Last /\ child' \in [Step -> Row]
  /\ follower' \in [Step -> Node \cup {NoNode}] /\ resumed' \in [Step -> SUBSET Node]
  /\ reads' \subseteq 0..Last /\ aborting' \in BOOLEAN
  /\ up' \subseteq Node /\ fresh' \subseteq Node /\ faults' \in 0..MaxFaults
  /\ hist' \in Notes

LEMMA TypedStep ==
  ASSUME TypeInv, Typed,
         UNCHANGED loop \/ (loop' \in [Node -> Loop] /\ \E n \in Node : OthersStay(n) /\ Where(loop'[n]))
  PROVE  TypeInv'
  <1>1. TypeOK'
    BY DEF TypeInv, TypeOK, Typed, Notes
  <1>2. ASSUME NEW m \in Node PROVE Where(loop'[m])
    <2>1. CASE UNCHANGED loop
      BY <2>1 DEF TypeInv
    <2>2. CASE \E n \in Node : OthersStay(n) /\ Where(loop'[n])
      BY <2>2 DEF TypeInv, OthersStay
    <2>. QED
      BY <2>1, <2>2
  <1>. QED
    BY <1>1, <1>2 DEF TypeInv, Where

LEMMA WhereOff == Where(Off)
  BY DEF Where, Off

LEMMA LoopStepType ==
  ASSUME TypeInv, NEW n \in Node,
         Quiet(n) \/ Halts(n) \/ Claims(n) \/ LaunchStep(n) \/ Passes(n) \/ End(n) \/ Launch(n) \/ Continue(n)
  PROVE  TypeInv'
  <1>1. TypeOK /\ loop[n] \in Loop /\ Where(loop[n])
    BY LoopType DEF TypeInv
  <1>2. CASE Quiet(n)
    <2>1. Typed /\ Changed(n)
      BY <1>1, <1>2, QuietFacts DEF Typed, TypeOK, Unwritten, Noted
    <2>2. Where(loop'[n])
      <3>1. CASE loop'[n] = Off
        BY <3>1, WhereOff
      <3>2. CASE Begins(n)
        BY <1>1, <3>2, MultistepAssumption DEF Begins, Where, Step, Loop
      <3>3. CASE GoesOn(n)
        BY <1>1, <3>3 DEF GoesOn, Same, Where
      <3>4. CASE Leaves(n)
        BY <3>4 DEF Leaves, Where, Step
      <3>. QED
        BY <1>2, <3>1, <3>2, <3>3, <3>4, QuietFacts
    <2>. QED
      BY <2>1, <2>2, TypedStep DEF Changed
  <1>3. CASE Halts(n)
    <2>1. Typed /\ Changed(n) /\ Where(loop'[n])
      <3>1. parent' \in Row /\ parent'.job_type = parent.job_type
        <4>1. parent \in Row /\ parent' = HoldRow(parent)
          BY <1>1, <1>3, HaltFacts DEF TypeOK
        <4>2. HoldRow(parent).job_type = parent.job_type
          BY <4>1, HoldFacts
        <4>. QED
          BY <4>1, <4>2, MoveTyping
      <3>. QED
        BY <1>1, <1>3, <3>1, HaltFacts, WhereOff DEF Typed, TypeOK, Notes
    <2>. QED
      BY <2>1, TypedStep DEF Changed
  <1>4. CASE Claims(n)
    <2>1. Typed /\ Changed(n)
      <3>1. at' \in Step /\ Changed(n)
            /\ UNCHANGED <<form, parent, child, follower, resumed, reads, aborting, up, fresh, faults, hist>>
        BY <1>4, ClaimFacts
      <3>2. at' \in 0..Last
        BY <3>1, MultistepAssumption DEF Step
      <3>. QED
        BY <1>1, <3>1, <3>2 DEF Typed, TypeOK, Notes
    <2>2. Where(loop'[n])
      BY <1>4, ClaimFacts DEF Same, Where
    <2>. QED
      BY <2>1, <2>2, TypedStep DEF Changed
  <1>5. CASE LaunchStep(n)
    <2>1. /\ UNCHANGED <<form, parent, at, resumed, reads, aborting, up, fresh, faults>> /\ Changed(n)
          /\ OneChild(loop[n].step) /\ follower' \in [Step -> Node \cup {NoNode}]
          /\ hist' \in Notes
      BY <1>5, LaunchStepFacts
    <2>3. Typed
      BY <1>1, <2>1 DEF Typed, TypeOK, OneChild
    <2>2. Where(loop'[n])
      BY <1>5, LaunchStepFacts DEF Same, Where
    <2>. QED
      BY <2>1, <2>2, <2>3, TypedStep DEF Changed
  <1>6. CASE Passes(n)
    <2>1. Typed /\ Changed(n)
      BY <1>1, <1>6, PassAbortFacts DEF Typed, TypeOK, OneChild, Noted
    <2>2. Where(loop'[n])
      BY <1>6, PassAbortFacts DEF Same, Where
    <2>. QED
      BY <2>1, <2>2, TypedStep DEF Changed
  <1>7. CASE End(n)
    <2>1. Typed /\ Changed(n) /\ Where(loop'[n])
      BY <1>1, <1>7, EndStepFacts, WhereOff DEF Typed, TypeOK, Notes
    <2>. QED
      BY <2>1, TypedStep DEF Changed
  <1>8. CASE Launch(n) \/ Continue(n)
    <2>1. Typed /\ Changed(n)
      BY <1>1, <1>8, BeginFacts DEF Typed, TypeOK, Notes
    <2>2. Where(loop'[n])
      BY <1>8, BeginFacts DEF Started
    <2>. QED
      BY <2>1, <2>2, TypedStep DEF Changed
  <1>. QED
    BY <1>2, <1>3, <1>4, <1>5, <1>6, <1>7, <1>8

\* The steps that touch no loop, and the crash, which ends one.
Others ==
  \/ ReadApproval \/ Reject \/ Abort \/ AbortSteps \/ SweepQuiet
  \/ \E s \in Step : \/ AbortStep(s) \/ ChildEnds(s) \/ EndLost(s)
                    \/ \E m \in Node : TakeOver(m, s) \/ EndParent(m, s)
  \/ \E n \in Node : Crash(n) \/ Restart(n) \/ Lapse(n) \/ Heartbeat(n) \/ SweepDead(n)

LEMMA NextCases ==
  ASSUME Next
  PROVE  \/ \E n \in Node : \/ Quiet(n) \/ Halts(n) \/ Claims(n) \/ LaunchStep(n) \/ Passes(n)
                            \/ End(n) \/ Launch(n) \/ Continue(n)
         \/ Others
  BY DEF Next, LoopStep, Process, Request, Quiet, Halts, Claims, Passes, Others

LEMMA OthersType ==
  ASSUME TypeInv, Others
  PROVE  TypeInv'
  <1>1. TypeOK /\ parent \in Row /\ child \in [Step -> Row]
    BY DEF TypeInv, TypeOK
  <1>2. CASE ReadApproval
    <2>1. Typed /\ UNCHANGED loop
      BY <1>1, <1>2 DEF ReadApproval, Rows, Typed, TypeOK, Notes, Jobs
    <2>. QED
      BY <2>1, TypedStep
  <1>3. CASE Reject
    <2>1. RejectRow(parent) \in Row /\ RejectRow(parent).job_type = parent.job_type
      BY <1>1, MoveTyping DEF RejectRow, TransitionStatus, Row
    <2>2. Typed /\ UNCHANGED loop
      BY <1>1, <1>3, <2>1 DEF Reject, Outside, Typed, TypeOK, Notes, Jobs
    <2>. QED
      BY <2>2, TypedStep
  <1>4. CASE Abort
    <2>1. Typed /\ UNCHANGED loop
      BY <1>1, <1>4, SweepTyping, FlagFacts DEF Abort, Typed, TypeOK, Notes, Jobs
    <2>. QED
      BY <2>1, TypedStep
  <1>5. CASE AbortSteps
    <2>1. Typed /\ UNCHANGED loop
      BY <1>1, <1>5, AbortStepsFacts DEF Outer, Typed, TypeOK, Noted
    <2>. QED
      BY <2>1, TypedStep
  <1>7. CASE SweepQuiet
    <2>1. AbandonQuietRow(parent) \in Row /\ AbandonQuietRow(parent).job_type = parent.job_type
      BY <1>1, SweepTyping, AbandonedFacts DEF AbandonQuietRow
    <2>2. faults' \in 0..MaxFaults
      BY <1>1, <1>7, FaultType DEF SweepQuiet, TypeOK, Jobs
    <2>3. Typed /\ UNCHANGED loop
      BY <1>1, <1>7, <2>1, <2>2 DEF SweepQuiet, Typed, TypeOK, Notes, Jobs
    <2>. QED
      BY <2>3, TypedStep
  <1>6. ASSUME NEW s \in Step, EndLost(s) PROVE TypeInv'
    <2>1. Typed /\ UNCHANGED loop
      BY <1>1, <1>6, EndLostFacts DEF Outer, Typed, TypeOK, Noted
    <2>. QED
      BY <2>1, TypedStep
  <1>15. ASSUME NEW s \in Step, NEW m \in Node, EndParent(m, s) PROVE TypeInv'
    <2>1. Typed /\ UNCHANGED loop
      BY <1>1, <1>15, EndParentFacts DEF Typed, TypeOK, Notes
    <2>. QED
      BY <2>1, TypedStep
  <1>8. ASSUME NEW s \in Step, AbortStep(s) PROVE TypeInv'
    <2>1. Typed /\ UNCHANGED loop
      BY <1>1, <1>8, AbortStepFacts DEF Outer, Typed, TypeOK, Notes
    <2>. QED
      BY <2>1, TypedStep
  <1>9. ASSUME NEW s \in Step, ChildEnds(s) PROVE TypeInv'
    <2>1. /\ UNCHANGED <<form, parent, at, loop, reads, up, fresh, faults, hist, aborting, resumed>>
          /\ follower' \in [Step -> Node \cup {NoNode}] /\ child' \in [Step -> Row]
      BY <1>9, ChildEndsFacts DEF Outer, OneChild
    <2>. QED
      BY <1>1, <2>1, TypedStep DEF Typed, TypeOK, Notes
  <1>10. ASSUME NEW s \in Step, NEW m \in Node, TakeOver(m, s) PROVE TypeInv'
    <2>1. /\ UNCHANGED <<form, parent, at, loop, reads, up, fresh, faults, hist, aborting>>
          /\ follower' \in [Step -> Node \cup {NoNode}] /\ child' \in [Step -> Row]
          /\ resumed' \in [Step -> SUBSET Node]
      BY <1>10, TakeOverFacts DEF Outer, OneChild
    <2>. QED
      BY <1>1, <2>1, TypedStep DEF Typed, TypeOK, Notes
  <1>11. ASSUME NEW n \in Node, Crash(n) PROVE TypeInv'
    <2>1. follower' \in [Step -> Node \cup {NoNode}] /\ resumed' \in [Step -> SUBSET Node]
      BY <1>1, <1>11 DEF Crash, TypeOK
    <2>2. Changed(n) /\ loop'[n] = Off
      BY <1>11, LoopSet, OffType DEF Crash
    <2>3. Typed
      BY <1>1, <1>11, <2>1, FaultType DEF Crash, Typed, TypeOK, Notes
    <2>. QED
      BY <2>2, <2>3, TypedStep, WhereOff DEF Changed
  <1>12. ASSUME NEW n \in Node, Restart(n) PROVE TypeInv'
    <2>1. parent' \in Row /\ parent'.job_type = parent.job_type
      <3>1. AbandonOwnRow(parent, n, FALSE).job_type = parent.job_type
        BY <1>1, AbandonedFacts DEF AbandonOwnRow
      <3>. QED
        BY <1>1, <1>12, <3>1, SweepTyping DEF Restart
    <2>2. child' \in [Step -> Row]
      BY <1>1, <1>12, SweepTyping DEF Restart
    <2>3. Typed /\ UNCHANGED loop
      BY <1>1, <1>12, <2>1, <2>2 DEF Restart, Typed, TypeOK, Notes
    <2>. QED
      BY <2>3, TypedStep
  <1>13. ASSUME NEW n \in Node, Lapse(n) \/ Heartbeat(n) PROVE TypeInv'
    <2>1. faults' \in 0..MaxFaults
      BY <1>1, <1>13, FaultType DEF Lapse, Heartbeat, TypeOK
    <2>2. Typed /\ UNCHANGED loop
      BY <1>1, <1>13, <2>1 DEF Lapse, Heartbeat, Rows, Typed, TypeOK, Notes, Jobs
    <2>. QED
      BY <2>2, TypedStep
  <1>14. ASSUME NEW n \in Node, SweepDead(n) PROVE TypeInv'
    <2>1. parent' \in Row /\ parent'.job_type = parent.job_type
      <3>1. AbandonDeadRow(parent, n, fresh, {}).job_type = parent.job_type
        BY <1>1, AbandonedFacts DEF AbandonDeadRow
      <3>. QED
        BY <1>1, <1>14, <3>1, SweepTyping DEF SweepDead
    <2>2. child' \in [Step -> Row]
      BY <1>1, <1>14, SweepTyping DEF SweepDead
    <2>3. Typed /\ UNCHANGED loop
      BY <1>1, <1>14, <2>1, <2>2 DEF SweepDead, Outside, Typed, TypeOK, Notes, Jobs
    <2>. QED
      BY <2>3, TypedStep
  <1>. QED
    BY <1>2, <1>3, <1>4, <1>5, <1>6, <1>7, <1>8, <1>9, <1>10, <1>11, <1>12, <1>13, <1>14, <1>15 DEF Others

LEMMA TypeInit == Init => TypeInv
  <1>. SUFFICES ASSUME Init PROVE TypeInv
    OBVIOUS
  <1>1. TypeOK
    <2>1. 0 \in 0..Last /\ 0 \in 0..MaxFaults
      BY MultistepAssumption
    <2>2. parent \in Row /\ parent.job_type = "multistep" /\ child \in [Step -> Row]
      BY AbsentTyping DEF Init
    <2>3. loop \in [Node -> Loop]
      BY OffType DEF Init
    <2>4. hist \in Notes
      BY DEF Init, Notes
    <2>. QED
      BY <2>1, <2>2, <2>3, <2>4 DEF Init, TypeOK, Notes
  <1>2. \A n \in Node : Where(loop[n])
    BY WhereOff DEF Init
  <1>. QED
    BY <1>1, <1>2 DEF TypeInv

LEMMA TypeNext == TypeInv /\ [Next]_vars => TypeInv'
  <1>. SUFFICES ASSUME TypeInv, [Next]_vars PROVE TypeInv'
    OBVIOUS
  <1>1. CASE UNCHANGED vars
    BY <1>1 DEF vars, TypeInv, TypeOK, Where
  <1>2. CASE Next
    BY <1>2, NextCases, LoopStepType, OthersType
  <1>. QED
    BY <1>1, <1>2

\* The state is well-typed, for any number of nodes and steps and whatever the forms ask for.
THEOREM MultistepTypeCorrect == Spec => []TypeOK
  <1>1. TypeInv => TypeOK
    BY DEF TypeInv
  <1>. QED
    BY <1>1, TypeInit, TypeNext, PTL DEF Spec

-----------------------------------------------------------------------------
(* One loop, and the row that names it                                     *)

On(n) == loop[n].pc # "off"

\* A loop runs in a process that is up, alone, and its row names it, unless the row was given up or whoever
\* took a step over ended it; at a step the loop claimed, the row says so.
AloneInv ==
  /\ parent.host = NoNode
  /\ \A n \in Node : On(n) => /\ n \in up /\ parent.status \in {"running", "abandoned", "failed"}
                              /\ parent.status = "running" => parent.tracker = n
  /\ \A m, n \in Node : On(m) /\ On(n) => m = n
  /\ \A n \in Node : loop[n].pc \in {"gate", "title", "launch", "pass", "wait"} =>
                       at = loop[n].step /\ form.steps[loop[n].step].met = TRUE

\* The job of a step, which an unmet one never has.
ChildOK(s) ==
  LET r == child[s]
  IN /\ r.host = NoNode /\ r.job_type = "awx"
     /\ r.status \in {"absent", "running", "abandoned", "success", "failed", "aborted"}
     /\ r.end = TRUE <=> r.status \in {"success", "failed", "aborted"}
     /\ form.steps[s].met = FALSE => r.status = "absent"
Children == \A s \in Step : ChildOK(s)

\* What a sweep makes of a row: nothing, or it is given up.
GivenUp(r, q) ==
  \/ q = r
  \/ /\ r.status = "running" /\ q.status = "abandoned"
     /\ q.tracker = r.tracker /\ q.host = r.host /\ q.job_type = r.job_type /\ q.end = r.end

\* A start and the sweep of dead nodes give up a multistep together with a step of the same process.
LEMMA SweepFacts ==
  ASSUME TypeInv, AloneInv, Children, NEW n \in Node, Restart(n) \/ SweepDead(n)
  PROVE  /\ UNCHANGED <<form, at, loop, follower, resumed, reads, aborting, hist>> /\ up \subseteq up'
         /\ GivenUp(parent, parent')
         /\ \A s \in Step : /\ GivenUp(child[s], child'[s])
                            /\ parent.status = "running" /\ child[s].tracker = parent.tracker =>
                                 child'[s] = child[s] \/ parent'.status = "abandoned"
  <1>1. parent \in Row /\ parent.job_type # "workflow" /\ parent.host = NoNode
    BY DEF TypeInv, TypeOK, AloneInv
  <1>2. \A s \in Step : child[s] \in Row /\ child[s].job_type # "workflow" /\ child[s].host = NoNode
    BY DEF TypeInv, TypeOK, Children, ChildOK
  <1>3. \A r \in Row : GivenUp(r, r) /\ (r.status = "running" => GivenUp(r, AbandonedRow(r)))
    BY AbandonedFacts DEF GivenUp
  <1>4. CASE Restart(n)
    <2>1. parent' = AbandonOwnRow(parent, n, FALSE) /\ \A s \in Step : child'[s] = AbandonOwnRow(child[s], n, FALSE)
      BY <1>4 DEF Restart
    <2>2. /\ parent.status = "running" /\ parent.tracker = n => parent' = AbandonedRow(parent)
          /\ ~(parent.status = "running" /\ parent.tracker = n) => parent' = parent
      BY <1>1, <2>1, OwnFacts
    <2>3. \A s \in Step :
            /\ child[s].status = "running" /\ child[s].tracker = n => child'[s] = AbandonedRow(child[s])
            /\ ~(child[s].status = "running" /\ child[s].tracker = n) => child'[s] = child[s]
      BY <1>2, <2>1, OwnFacts
    <2>4. /\ GivenUp(parent, parent')
          /\ parent.status = "running" /\ parent.tracker = n => parent'.status = "abandoned"
      BY <1>1, <2>2, AbandonedFacts DEF GivenUp
    <2>5. \A s \in Step : GivenUp(child[s], child'[s])
      BY <1>2, <1>3, <2>3
    <2>6. UNCHANGED <<form, at, loop, follower, resumed, reads, aborting, hist>> /\ up \subseteq up'
      BY <1>4 DEF Restart
    <2>. QED
      BY <2>3, <2>4, <2>5, <2>6
  <1>5. CASE SweepDead(n)
    <2>1. /\ parent' = AbandonDeadRow(parent, n, fresh, {})
          /\ \A s \in Step : child'[s] = AbandonDeadRow(child[s], n, fresh, {})
      BY <1>5 DEF SweepDead
    <2>2. /\ parent.status = "running" /\ Dead(parent.tracker, n, fresh) => parent' = AbandonedRow(parent)
          /\ ~(parent.status = "running" /\ Dead(parent.tracker, n, fresh)) => parent' = parent
      BY <1>1, <2>1, DeadFacts
    <2>3. \A s \in Step :
            /\ child[s].status = "running" /\ Dead(child[s].tracker, n, fresh) => child'[s] = AbandonedRow(child[s])
            /\ ~(child[s].status = "running" /\ Dead(child[s].tracker, n, fresh)) => child'[s] = child[s]
      BY <1>2, <2>1, DeadFacts
    <2>4. /\ GivenUp(parent, parent')
          /\ parent.status = "running" /\ Dead(parent.tracker, n, fresh) => parent'.status = "abandoned"
      BY <1>1, <2>2, AbandonedFacts DEF GivenUp
    <2>5. \A s \in Step : GivenUp(child[s], child'[s])
      BY <1>2, <1>3, <2>3
    <2>6. UNCHANGED <<form, at, loop, follower, resumed, reads, aborting, hist>> /\ up \subseteq up'
      BY <1>5 DEF SweepDead, Outside, Jobs
    <2>. QED
      BY <2>3, <2>4, <2>5, <2>6
  <1>. QED
    BY <1>4, <1>5

\* A step of one loop keeps it alone when the loop was on or nobody's is, and its row goes on
\* naming it or it stops.
LEMMA AloneMove ==
  ASSUME TypeInv, AloneInv, NEW n \in Node, Changed(n), UNCHANGED <<form, up>>,
         parent'.host = parent.host,
         On(n) \/ \A m \in Node : ~On(m),
         loop'[n].pc # "off" => /\ n \in up /\ parent'.status \in {"running", "abandoned", "failed"}
                                /\ parent'.status = "running" => parent'.tracker = n,
         loop'[n].pc \in {"gate", "title", "launch", "pass", "wait"} =>
           at' = loop'[n].step /\ form.steps[loop'[n].step].met = TRUE
  PROVE  AloneInv'
  <1>1. \A m \in Node \ {n} : loop'[m] = loop[m] /\ ~On(m)
    BY DEF Changed, OthersStay, AloneInv
  <1>2. \A m \in Node : On(m)' => m = n
    BY <1>1 DEF On
  <1>3. parent'.host = NoNode
    BY DEF AloneInv
  <1>4. \A m \in Node : On(m)' => /\ m \in up' /\ parent'.status \in {"running", "abandoned", "failed"}
                                  /\ parent'.status = "running" => parent'.tracker = m
    BY <1>2 DEF On
  <1>5. \A m \in Node : loop'[m].pc \in {"gate", "title", "launch", "pass", "wait"} =>
                          at' = loop'[m].step /\ form'.steps[loop'[m].step].met = TRUE
    BY <1>2 DEF On
  <1>. QED
    BY <1>2, <1>3, <1>4, <1>5 DEF AloneInv

LEMMA AloneLoop ==
  ASSUME TypeInv, AloneInv, NEW n \in Node,
         Quiet(n) \/ Halts(n) \/ Claims(n) \/ LaunchStep(n) \/ Passes(n) \/ End(n) \/ Launch(n) \/ Continue(n)
  PROVE  AloneInv'
  <1>0. Off.pc = "off"
    BY DEF Off
  <1>1. CASE Quiet(n)
    <2>1. /\ Changed(n) /\ UNCHANGED <<form, up, parent, at>> /\ On(n)
          /\ loop'[n] = Off \/ Begins(n) \/ GoesOn(n) \/ Leaves(n)
      BY <1>1, QuietFacts DEF Unwritten, On
    <2>2. /\ n \in up /\ parent.status \in {"running", "abandoned", "failed"}
          /\ parent.status = "running" => parent.tracker = n
      BY <2>1 DEF AloneInv
    <2>3. loop'[n].pc \in {"gate", "title", "launch", "pass", "wait"} =>
            at' = loop'[n].step /\ form.steps[loop'[n].step].met = TRUE
      BY <1>0, <2>1 DEF Begins, GoesOn, Same, Leaves, AloneInv
    <2>. QED
      BY <2>1, <2>2, <2>3, AloneMove
  <1>2. CASE Halts(n)
    <2>1. Changed(n) /\ UNCHANGED <<form, up, at>> /\ On(n) /\ loop'[n] = Off /\ parent' = HoldRow(parent)
      BY <1>2, HaltFacts DEF On
    <2>2. parent \in Row
      BY DEF TypeInv, TypeOK
    <2>3. parent'.host = parent.host
      BY <2>1, <2>2, HoldFacts
    <2>. QED
      BY <1>0, <2>1, <2>3, AloneMove
  <1>3. CASE Claims(n)
    <2>1. /\ Changed(n) /\ UNCHANGED <<form, up, parent>> /\ On(n) /\ at' = loop[n].step
          /\ Same(loop[n], loop'[n]) /\ form.steps[loop[n].step].met = TRUE
      BY <1>3, ClaimFacts DEF On
    <2>2. /\ n \in up /\ parent.status \in {"running", "abandoned", "failed"}
          /\ parent.status = "running" => parent.tracker = n
      BY <2>1 DEF AloneInv
    <2>. QED
      BY <2>1, <2>2, AloneMove DEF Same
  <1>4. CASE LaunchStep(n)
    <2>1. /\ Changed(n) /\ UNCHANGED <<form, up, parent, at>> /\ On(n) /\ loop[n].pc = "launch"
          /\ Same(loop[n], loop'[n])
      BY <1>4, LaunchStepFacts DEF On
    <2>2. /\ n \in up /\ parent.status \in {"running", "abandoned", "failed"}
          /\ parent.status = "running" => parent.tracker = n
          /\ at = loop[n].step /\ form.steps[loop[n].step].met = TRUE
      BY <2>1 DEF AloneInv
    <2>. QED
      BY <2>1, <2>2, AloneMove DEF Same
  <1>5. CASE Passes(n)
    <2>1. /\ Changed(n) /\ UNCHANGED <<form, up, parent, at>> /\ On(n) /\ loop[n].pc = "pass"
          /\ Same(loop[n], loop'[n])
      BY <1>5, PassAbortFacts DEF On
    <2>2. /\ n \in up /\ parent.status \in {"running", "abandoned", "failed"}
          /\ parent.status = "running" => parent.tracker = n
          /\ at = loop[n].step /\ form.steps[loop[n].step].met = TRUE
      BY <2>1 DEF AloneInv
    <2>. QED
      BY <2>1, <2>2, AloneMove DEF Same
  <1>6. CASE End(n)
    <2>1. /\ Changed(n) /\ UNCHANGED <<form, up, at>> /\ On(n) /\ loop'[n] = Off
          /\ parent'.host = parent.host
      BY <1>6, EndStepFacts DEF On
    <2>. QED
      BY <1>0, <2>1, AloneMove
  <1>7. CASE Launch(n) \/ Continue(n)
    <2>1. /\ Changed(n) /\ UNCHANGED <<form, up, at>> /\ n \in up /\ parent'.host = parent.host
          /\ parent.status \in {"absent", "approve"} /\ parent'.status = "running" /\ parent'.tracker = n
          /\ loop'[n].pc = "start"
      BY <1>7, BeginFacts DEF Started
    <2>2. \A m \in Node : ~On(m)
      BY <2>1 DEF AloneInv
    <2>. QED
      BY <2>1, <2>2, AloneMove
  <1>. QED
    BY <1>1, <1>2, <1>3, <1>4, <1>5, <1>6, <1>7

\* A step that leaves the loops alone.
LEMMA AloneRow ==
  ASSUME AloneInv, UNCHANGED <<form, loop, at>>, up \subseteq up', parent'.host = parent.host,
         \/ parent'.status = parent.status /\ parent'.tracker = parent.tracker
         \/ parent.status = "running" /\ parent'.status = "abandoned"
         \/ parent'.status = "failed"
         \/ parent.status \notin {"running", "abandoned", "failed"}
  PROVE  AloneInv'
  BY DEF AloneInv, On

LEMMA AloneOthers ==
  ASSUME TypeInv, AloneInv, Children, Others
  PROVE  AloneInv'
  <1>1. TypeOK /\ parent \in Row
    BY DEF TypeInv, TypeOK
  <1>2. CASE ReadApproval \/ \E n \in Node : Lapse(n) \/ Heartbeat(n)
    <2>1. UNCHANGED <<form, loop, at, up, parent>>
      BY <1>2 DEF ReadApproval, Lapse, Heartbeat, Rows, Jobs
    <2>. QED
      BY <2>1, AloneRow
  <1>3. CASE Reject
    <2>1. UNCHANGED <<form, loop, at, up>> /\ parent.status = "approve" /\ parent'.host = parent.host
      BY <1>1, <1>3 DEF Reject, Outside, RejectRow, TransitionStatus, Row, Jobs
    <2>. QED
      BY <2>1, AloneRow
  <1>4. CASE Abort
    <2>1. /\ UNCHANGED <<form, loop, at, up>> /\ parent'.host = parent.host
          /\ parent'.status = parent.status /\ parent'.tracker = parent.tracker
      BY <1>1, <1>4, FlagFacts DEF Abort, Jobs
    <2>. QED
      BY <2>1, AloneRow
  <1>5. CASE SweepQuiet
    <2>1. /\ UNCHANGED <<form, loop, at, up>> /\ parent.status = "running"
          /\ parent' = parent \/ parent' = AbandonedRow(parent)
      BY <1>5 DEF SweepQuiet, AbandonQuietRow, Jobs
    <2>2. parent'.host = parent.host /\ (parent' = parent \/ parent'.status = "abandoned")
      BY <1>1, <2>1, AbandonedFacts
    <2>. QED
      BY <2>1, <2>2, AloneRow
  <1>9. ASSUME NEW s \in Step, NEW m \in Node, EndParent(m, s) PROVE AloneInv'
    <2>1. /\ UNCHANGED <<form, loop, at, up>> /\ parent'.host = parent.host
          /\ parent' = parent \/ parent'.status = "failed"
      BY <1>9, EndParentFacts
    <2>. QED
      BY <2>1, AloneRow
  <1>6. CASE AbortSteps \/ \E s \in Step : AbortStep(s) \/ ChildEnds(s) \/ EndLost(s) \/ \E m \in Node : TakeOver(m, s)
    <2>1. UNCHANGED <<form, loop, at, up, parent>>
      BY <1>6, AbortStepsFacts, AbortStepFacts, ChildEndsFacts, EndLostFacts, TakeOverFacts DEF Outer
    <2>. QED
      BY <2>1, AloneRow
  <1>7. ASSUME NEW n \in Node, Restart(n) \/ SweepDead(n) PROVE AloneInv'
    <2>1. UNCHANGED <<form, at, loop>> /\ up \subseteq up' /\ GivenUp(parent, parent')
      BY <1>7, SweepFacts
    <2>. QED
      BY <2>1, AloneRow DEF GivenUp
  <1>8. ASSUME NEW n \in Node, Crash(n) PROVE AloneInv'
    <2>1. /\ UNCHANGED <<form, at, parent>> /\ up' = up \ {n} /\ Changed(n) /\ loop'[n] = Off
      BY <1>8, LoopSet, OffType DEF Crash
    <2>2. Off.pc = "off"
      BY DEF Off
    <2>3. \A m \in Node : On(m)' => m # n /\ loop'[m] = loop[m] /\ On(m)
      BY <2>1, <2>2 DEF Changed, OthersStay, On
    <2>4. \A m \in Node : loop'[m].pc \in {"gate", "title", "launch", "pass", "wait"} => loop'[m] = loop[m]
      BY <2>1, <2>2 DEF Changed, OthersStay
    <2>. QED
      BY <2>1, <2>3, <2>4 DEF AloneInv
  <1>. QED
    BY <1>2, <1>3, <1>4, <1>5, <1>6, <1>7, <1>8, <1>9 DEF Others

\* Steps whose jobs a loop launched are ones that are met, and a job that runs has not ended.
LEMMA ChildrenNext ==
  ASSUME TypeInv, AloneInv, Children, Next
  PROVE  Children'
  <1>1. ASSUME UNCHANGED <<form, child>> PROVE Children'
    BY <1>1 DEF Children, ChildOK
  <1>2. ASSUME NEW n \in Node, Quiet(n) \/ Halts(n) \/ Claims(n) \/ End(n) \/ Launch(n) \/ Continue(n)
        PROVE  Children'
    BY <1>1, <1>2, QuietFacts, HaltFacts, ClaimFacts, EndStepFacts, BeginFacts DEF Unwritten
  <1>3. ASSUME NEW n \in Node, LaunchStep(n) PROVE Children'
    <2>1. PICK s \in Step : s = loop[n].step /\ form' = form /\ OneChild(s) /\ loop[n].pc = "launch"
      BY <1>3, LaunchStepFacts
    <2>2. form.steps[s].met = TRUE
      BY <2>1 DEF AloneInv
    <2>3. ChildOK(s)'
      BY <1>3, <2>1, <2>2, LaunchStepFacts DEF ChildOK
    <2>4. \A t \in Step \ {s} : ChildOK(t)'
      BY <2>1 DEF OneChild, Children, ChildOK
    <2>. QED
      BY <2>3, <2>4 DEF Children
  <1>4. ASSUME NEW n \in Node, Passes(n) PROVE Children'
    <2>1. PICK s \in Step : /\ s = loop[n].step /\ form' = form /\ OneChild(s)
                            /\ child'[s] = RequestAbortRow(child[s]) \/ child'[s] = child[s]
      BY <1>4, PassAbortFacts
    <2>2. child[s] \in Row
      BY DEF TypeInv, TypeOK
    <2>3. /\ child'[s].status = child[s].status /\ child'[s].host = child[s].host
          /\ child'[s].job_type = child[s].job_type /\ child'[s].end = child[s].end
      BY <2>1, <2>2, FlagFacts
    <2>4. ChildOK(s)'
      BY <2>1, <2>3 DEF Children, ChildOK
    <2>5. \A t \in Step \ {s} : ChildOK(t)'
      BY <2>1 DEF OneChild, Children, ChildOK
    <2>. QED
      BY <2>4, <2>5 DEF Children
  <1>5. ASSUME AbortSteps \/ \E s \in Step : AbortStep(s) PROVE Children'
    <2>1. UNCHANGED form /\ \A s \in Step : Flagged(s)
      BY <1>5, AbortStepsFacts, AbortStepFacts DEF Outer
    <2>. QED
      BY <2>1 DEF Flagged, Children, ChildOK
  <1>6. ASSUME NEW s \in Step, ChildEnds(s) PROVE Children'
    <2>1. UNCHANGED form /\ OneChild(s)
      BY <1>6, ChildEndsFacts DEF Outer
    <2>2. ChildOK(s)
      BY DEF Children
    <2>3. CASE child[s].status \notin {"running", "abandoned"}
      <3>1. child'[s] = child[s]
        BY <1>6, <2>3, ChildEndsFacts
      <3>. QED
        BY <2>1, <2>2, <3>1 DEF OneChild, Children, ChildOK
    <2>4. CASE child[s].status \in {"running", "abandoned"}
      <3>1. /\ child'[s].status \in {"success", "failed", "aborted"} /\ child'[s].end = TRUE
            /\ child'[s].host = child[s].host /\ child'[s].job_type = child[s].job_type
        BY <1>6, <2>4, ChildEndsFacts
      <3>2. form.steps[s].met # FALSE
        BY <2>2, <2>4 DEF ChildOK
      <3>3. ChildOK(s)'
        BY <2>1, <2>2, <3>1, <3>2 DEF ChildOK, Outer
      <3>. QED
        BY <2>1, <3>3 DEF OneChild, Children, ChildOK
    <2>. QED
      BY <2>3, <2>4
  <1>7. ASSUME NEW s \in Step, NEW m \in Node, TakeOver(m, s) PROVE Children'
    <2>1. UNCHANGED form /\ OneChild(s) /\ child[s].status = "abandoned"
          /\ child'[s].status = "running" /\ child'[s].end = FALSE
          /\ child'[s].host = child[s].host /\ child'[s].job_type = child[s].job_type
      BY <1>7, TakeOverFacts DEF Outer
    <2>2. ChildOK(s) /\ form.steps[s].met # FALSE
      BY <2>1 DEF Children, ChildOK
    <2>3. ChildOK(s)'
      BY <2>1, <2>2 DEF ChildOK
    <2>. QED
      BY <2>1, <2>3 DEF OneChild, Children, ChildOK
  <1>8. ASSUME NEW n \in Node, Restart(n) \/ SweepDead(n) PROVE Children'
    <2>1. UNCHANGED form /\ \A s \in Step : GivenUp(child[s], child'[s])
      BY <1>8, SweepFacts
    <2>. QED
      BY <2>1 DEF GivenUp, Children, ChildOK
  <1>11. ASSUME NEW s \in Step, EndLost(s) \/ \E m \in Node : EndParent(m, s) PROVE Children'
    BY <1>1, <1>11, EndLostFacts, EndParentFacts DEF Outer
  <1>9. CASE ReadApproval \/ Reject \/ Abort \/ SweepQuiet
             \/ \E n \in Node : Crash(n) \/ Lapse(n) \/ Heartbeat(n)
    BY <1>1, <1>9 DEF ReadApproval, Reject, Abort, SweepQuiet, Crash, Lapse, Heartbeat, Rows, Outside, Jobs
  <1>10. CASE Others
    BY <1>5, <1>6, <1>7, <1>8, <1>9, <1>10, <1>11 DEF Others
  <1>. QED
    BY <1>2, <1>3, <1>4, <1>10, NextCases

-----------------------------------------------------------------------------
(* One step at a time                                                      *)

\* A step that may still run, as far as the loop can know: one given up may be followed again.
Live(s) == child[s].status \in {"running", "abandoned"} /\ s \notin hist.unwatched
NoneLive == \A s \in Step : ~Live(s)

\* The process n runs the step, by its row and in fact.
Followed(s, n) == child[s].status = "running" /\ child[s].tracker = n /\ follower[s] = n

\* At most one step is live, and it is the one the loop waits for. As long as the multistep itself
\* was not given up, the step was not either: the loop's process follows it.
LiveInv ==
  /\ parent.status \in {"absent", "approve"} => NoneLive
  /\ \A s, t \in Step : Live(s) /\ Live(t) => s = t
  /\ \A n \in Node :
       /\ loop[n].pc \in {"gate", "title", "launch"} => NoneLive
       /\ loop[n].pc \in {"pass", "wait"} => \A s \in Step : Live(s) => s = loop[n].step
       /\ On(n) /\ parent.status = "running" =>
            \A s \in Step : Live(s) => loop[n].pc \in {"pass", "wait"} /\ Followed(s, n)

\* A step of one loop that leaves the steps' jobs alone.
LEMMA LiveMove ==
  ASSUME TypeInv, AloneInv, LiveInv, NEW n \in Node, Changed(n), UNCHANGED <<child, follower>>, Noted,
         On(n) \/ \A m \in Node : ~On(m),
         parent'.status \in {"absent", "approve"} => NoneLive,
         loop'[n].pc \in {"gate", "title", "launch"} => NoneLive,
         loop'[n].pc \in {"pass", "wait"} => \A s \in Step : Live(s) => s = loop'[n].step,
         loop'[n].pc # "off" /\ parent'.status = "running" =>
           \A s \in Step : Live(s)' => loop'[n].pc \in {"pass", "wait"} /\ Followed(s, n)
  PROVE  LiveInv'
  <1>1. \A m \in Node : On(m)' => m = n
    BY DEF Changed, OthersStay, AloneInv, On
  <1>2. \A s \in Step : /\ Live(s)' => Live(s)
                        /\ Followed(s, n)' <=> Followed(s, n)
    BY DEF Live, Noted, Followed
  <1>3. \A s, t \in Step : Live(s)' /\ Live(t)' => s = t
    BY <1>2 DEF LiveInv
  <1>4. NoneLive => NoneLive'
    BY <1>2 DEF NoneLive
  <1>5. \A m \in Node : m # n => loop'[m].pc = "off"
    BY <1>1 DEF On
  <1>. QED
    BY <1>1, <1>2, <1>3, <1>4, <1>5 DEF LiveInv, On

\* The loop that takes a step as over does so of one that is, or the multistep was given up.
LEMMA SettledOver ==
  ASSUME TypeInv, Children, LiveInv, NEW n \in Node, loop[n].pc = "wait", parent.status = "running",
         Settled(loop[n].step, n)
  PROVE  NoneLive
  <1>. SUFFICES ASSUME NEW s \in Step, Live(s) PROVE FALSE
    BY DEF NoneLive
  <1>1. s = loop[n].step /\ child[s].status = "running" /\ child[s].tracker = n /\ follower[s] = n
    BY DEF LiveInv, On, Followed
  <1>2. child[s] \in Row /\ child[s].end # TRUE
    BY <1>1 DEF TypeInv, TypeOK, Children, ChildOK
  <1>. QED
    BY <1>1, <1>2, NoNodeAssumption DEF Settled, FollowedElsewhere, Row

LEMMA LiveLoop ==
  ASSUME TypeInv, AloneInv, Children, LiveInv, NEW n \in Node,
         Quiet(n) \/ Halts(n) \/ Claims(n) \/ LaunchStep(n) \/ Passes(n) \/ End(n) \/ Launch(n) \/ Continue(n)
  PROVE  LiveInv'
  <1>0. Off.pc = "off"
    BY DEF Off
  <1>1. CASE Quiet(n)
    <2>1. /\ Changed(n) /\ UNCHANGED <<parent, child, follower>> /\ Noted /\ On(n)
          /\ loop'[n] = Off \/ Begins(n) \/ GoesOn(n) \/ Leaves(n)
      BY <1>1, QuietFacts DEF Unwritten, On
    <2>2. parent.status \in {"absent", "approve"} => NoneLive
      BY DEF LiveInv
    <2>3. loop'[n].pc \in {"gate", "title", "launch"} => NoneLive
      BY <1>0, <2>1 DEF Begins, GoesOn, Leaves, LiveInv
    <2>4. loop'[n].pc \notin {"pass", "wait"}
      BY <1>0, <2>1 DEF Begins, GoesOn, Leaves
    <2>6. \A s \in Step : Live(s)' => Live(s)
      BY <2>1 DEF Live, Noted
    <2>5. loop'[n].pc # "off" /\ parent.status = "running" => \A s \in Step : ~Live(s)'
      <3>. SUFFICES ASSUME loop'[n].pc # "off", parent.status = "running", NEW s \in Step, Live(s)' PROVE FALSE
        OBVIOUS
      <3>1. CASE loop[n].pc \notin {"pass", "wait"}
        BY <2>1, <2>6, <3>1 DEF LiveInv
      <3>2. CASE loop[n].pc = "wait"
        <4>1. Settled(loop[n].step, n)
          BY <1>0, <2>1, <3>2 DEF Begins, GoesOn, Leaves
        <4>. QED
          BY <2>6, <3>2, <4>1, SettledOver DEF NoneLive
      <3>3. CASE loop[n].pc = "pass"
        <4>1. loop[n].step \in hist'.unwatched
          BY <1>0, <2>1, <3>3 DEF Begins, GoesOn, Leaves
        <4>2. s = loop[n].step
          BY <2>6, <3>3 DEF LiveInv
        <4>. QED
          BY <4>1, <4>2 DEF Live
      <3>. QED
        BY <3>1, <3>2, <3>3
    <2>. QED
      BY <2>1, <2>2, <2>3, <2>4, <2>5, LiveMove
  <1>2. CASE Halts(n)
    <2>1. /\ Changed(n) /\ UNCHANGED <<child, follower>> /\ Noted /\ On(n) /\ loop'[n] = Off
          /\ parent' = HoldRow(parent) /\ loop[n].pc \in {"gate", "start"}
      BY <1>2, HaltFacts, NotedSame DEF On
    <2>2. parent'.status \in {"absent", "approve"} => NoneLive
      <3>1. parent \in Row
        BY DEF TypeInv, TypeOK
      <3>2. CASE parent.status = "running"
        BY <2>1, <3>2 DEF LiveInv, NoneLive
      <3>3. CASE parent.status # "running"
        BY <2>1, <3>1, <3>3, HoldFacts DEF LiveInv
      <3>. QED
        BY <3>2, <3>3
    <2>. QED
      BY <1>0, <2>1, <2>2, LiveMove
  <1>3. CASE Claims(n)
    <2>1. /\ Changed(n) /\ UNCHANGED <<parent, child, follower>> /\ Noted /\ On(n) /\ loop[n].pc = "next"
          /\ parent.status = "running" /\ loop'[n].pc \in {"gate", "title"}
      BY <1>3, ClaimFacts, NotedSame DEF On
    <2>2. NoneLive
      BY <2>1 DEF LiveInv, NoneLive
    <2>3. \A s \in Step : ~Live(s)'
      BY <2>1, <2>2 DEF NoneLive, Live, Noted
    <2>. QED
      BY <2>1, <2>2, <2>3, LiveMove
  <1>4. CASE LaunchStep(n)
    <2>0. PICK s \in Step : s = loop[n].step
      BY <1>4, LaunchStepFacts
    <2>1. /\ Changed(n) /\ UNCHANGED parent /\ On(n) /\ OneChild(s)
          /\ loop[n].pc = "launch" /\ loop'[n].pc = "pass" /\ loop'[n].step = s
          /\ Followed(s, n)' /\ hist'.unwatched = hist.unwatched
      BY <1>4, <2>0, LaunchStepFacts DEF On, Same, Followed
    <2>2. NoneLive /\ parent.status \notin {"absent", "approve"}
      BY <2>1 DEF LiveInv, AloneInv
    <2>3. \A t \in Step : Live(t)' => t = s
      BY <2>1, <2>2 DEF OneChild, NoneLive, Live
    <2>4. \A m \in Node : On(m)' => m = n
      BY <2>1 DEF Changed, OthersStay, AloneInv, On
    <2>5. \A m \in Node : m # n => loop'[m].pc = "off"
      BY <2>4 DEF On
    <2>. QED
      BY <2>1, <2>2, <2>3, <2>4, <2>5 DEF LiveInv, On
  <1>5. CASE Passes(n)
    <2>1. PICK s \in Step : /\ s = loop[n].step /\ Changed(n) /\ UNCHANGED parent /\ On(n) /\ OneChild(s)
                            /\ loop[n].pc = "pass" /\ loop'[n].pc = "wait" /\ loop'[n].step = s
                            /\ UNCHANGED follower /\ Noted
                            /\ child'[s] = RequestAbortRow(child[s]) \/ child'[s] = child[s]
      BY <1>5, PassAbortFacts DEF On, Same
    <2>2. child[s] \in Row
      BY DEF TypeInv, TypeOK
    <2>3. child'[s].status = child[s].status /\ child'[s].tracker = child[s].tracker
      BY <2>1, <2>2, FlagFacts
    <2>4. \A t \in Step : /\ child'[t].status = child[t].status /\ child'[t].tracker = child[t].tracker
                          /\ Followed(t, n)' <=> Followed(t, n)
      BY <2>1, <2>3 DEF OneChild, Followed
    <2>5. \A m \in Node : m # n => loop'[m].pc = "off"
      BY <2>1 DEF Changed, OthersStay, AloneInv, On
    <2>6. \A t \in Step : Live(t)' => Live(t)
      BY <2>1, <2>4 DEF Live, Noted
    <2>7. NoneLive => NoneLive'
      BY <2>6 DEF NoneLive
    <2>. QED
      BY <2>1, <2>4, <2>5, <2>6, <2>7 DEF LiveInv, On
  <1>6. CASE End(n)
    <2>1. /\ Changed(n) /\ UNCHANGED <<child, follower>> /\ Noted /\ On(n) /\ loop'[n] = Off
          /\ parent'.status = IF parent.status \in {"running", "abandoned"} THEN EndsAs(loop[n])
                              ELSE parent.status
      BY <1>6, EndStepFacts, NotedSame DEF On
    <2>2. EndsAs(loop[n]) \notin {"absent", "approve"}
      BY DEF EndsAs
    <2>3. parent'.status \in {"absent", "approve"} => NoneLive
      BY <2>1, <2>2 DEF LiveInv
    <2>. QED
      BY <1>0, <2>1, <2>3, LiveMove
  <1>7. CASE Launch(n) \/ Continue(n)
    <2>1. /\ Changed(n) /\ UNCHANGED <<child, follower>> /\ Noted /\ parent.status \in {"absent", "approve"}
          /\ parent'.status = "running" /\ loop'[n].pc = "start"
      BY <1>7, BeginFacts, NotedSame DEF Started
    <2>2. NoneLive /\ \A m \in Node : ~On(m)
      BY <2>1 DEF LiveInv, AloneInv
    <2>3. \A s \in Step : ~Live(s)'
      BY <2>1, <2>2 DEF NoneLive, Live, Noted
    <2>. QED
      BY <2>1, <2>2, <2>3, LiveMove
  <1>. QED
    BY <1>1, <1>2, <1>3, <1>4, <1>5, <1>6, <1>7

\* A step that leaves the loops alone, or stops one, and makes no step live.
LEMMA LiveRow ==
  ASSUME AloneInv, LiveInv, \A n \in Node : loop'[n] = loop[n] \/ loop'[n].pc = "off",
         parent'.status \in {"absent", "approve"} => parent.status \in {"absent", "approve"},
         \A s \in Step : Live(s)' => Live(s),
         \A s \in Step : Live(s) /\ parent'.status = "running" =>
           /\ parent.status = "running"
           /\ \A n \in Node : n = parent.tracker /\ Followed(s, n) /\ Live(s)' => Followed(s, n)'
  PROVE  LiveInv'
  <1>1. NoneLive => NoneLive'
    BY DEF NoneLive
  <1>2. \A s, t \in Step : Live(s)' /\ Live(t)' => s = t
    BY DEF LiveInv
  <1>3. ASSUME NEW n \in Node, On(n)' PROVE loop'[n] = loop[n] /\ On(n)
    BY <1>3 DEF On
  <1>4. ASSUME NEW n \in Node
        PROVE  /\ loop'[n].pc \in {"gate", "title", "launch"} => NoneLive'
               /\ loop'[n].pc \in {"pass", "wait"} => \A s \in Step : Live(s)' => s = loop'[n].step
               /\ On(n)' /\ parent'.status = "running" =>
                    \A s \in Step : Live(s)' => loop'[n].pc \in {"pass", "wait"} /\ Followed(s, n)'
    <2>1. On(n)' /\ parent'.status = "running" =>
            \A s \in Step : Live(s)' => loop'[n].pc \in {"pass", "wait"} /\ Followed(s, n)'
      <3>. SUFFICES ASSUME On(n)', parent'.status = "running", NEW s \in Step, Live(s)'
                    PROVE  loop'[n].pc \in {"pass", "wait"} /\ Followed(s, n)'
        OBVIOUS
      <3>1. Live(s) /\ parent.status = "running" /\ loop'[n] = loop[n] /\ On(n)
        BY <1>3
      <3>2. parent.tracker = n
        BY <3>1 DEF AloneInv
      <3>3. loop[n].pc \in {"pass", "wait"} /\ Followed(s, n)
        BY <3>1 DEF LiveInv
      <3>4. Followed(s, n)'
        BY <3>1, <3>2, <3>3
      <3>. QED
        BY <3>1, <3>3, <3>4
    <2>. QED
      BY <1>1, <1>3, <2>1 DEF LiveInv, On
  <1>. QED
    BY <1>1, <1>2, <1>4 DEF LiveInv

\* One that leaves the row of the multistep alone as well, and who runs which step.
LEMMA LiveTakes ==
  ASSUME AloneInv, LiveInv, UNCHANGED parent, \A n \in Node : loop'[n] = loop[n],
         \A s \in Step : /\ Live(s)' => Live(s)
                         /\ \A n \in Node : Followed(s, n) /\ Live(s)' => Followed(s, n)'
  PROVE  LiveInv'
  <1>1. ASSUME NEW n \in Node PROVE On(n)' => On(n)
    BY DEF On
  <1>2. NoneLive => NoneLive'
    BY DEF NoneLive
  <1>. QED
    BY <1>1, <1>2 DEF LiveInv

LEMMA LiveOthers ==
  ASSUME TypeInv, AloneInv, Children, LiveInv, Others
  PROVE  LiveInv'
  <1>1. TypeOK /\ parent \in Row
    BY DEF TypeInv, TypeOK
  <1>2. ASSUME UNCHANGED <<parent, child, follower, hist>>,
               \A n \in Node : loop'[n] = loop[n] \/ loop'[n].pc = "off"
        PROVE  LiveInv'
    BY <1>2, LiveRow DEF Live, Followed
  <1>3. CASE ReadApproval \/ \E n \in Node : Lapse(n) \/ Heartbeat(n)
    BY <1>2, <1>3 DEF ReadApproval, Lapse, Heartbeat, Rows, Jobs
  <1>4. ASSUME NEW n \in Node, Crash(n) PROVE LiveInv'
    <2>1. /\ UNCHANGED <<parent, child, hist>> /\ Changed(n) /\ loop'[n] = Off
          /\ \A s \in Step : follower'[s] = follower[s] \/ follower[s] = n
      BY <1>4, LoopSet, OffType DEF Crash
    <2>2. \A m \in Node : m # n => loop'[m] = loop[m]
      BY <2>1 DEF Changed, OthersStay
    <2>3. \A s \in Step : (Live(s)' <=> Live(s)) /\ \A m \in Node : m # n /\ Followed(s, m) => Followed(s, m)'
      BY <2>1 DEF Live, Followed
    <2>4. loop'[n].pc = "off"
      BY <2>1 DEF Off
    <2>. QED
      BY <2>1, <2>2, <2>3, <2>4 DEF LiveInv, On, NoneLive
  <1>5. ASSUME UNCHANGED <<loop, child, follower, hist>>,
               parent'.status = parent.status \/ parent'.status \notin {"absent", "approve", "running"}
        PROVE  LiveInv'
    BY <1>5, LiveRow DEF Live, Followed
  <1>6. CASE Reject
    <2>1. UNCHANGED <<loop, child, follower, hist>> /\ parent'.status = "rejected"
      BY <1>1, <1>6 DEF Reject, Outside, Jobs, RejectRow, TransitionStatus, Row
    <2>. QED
      BY <1>5, <2>1
  <1>7. CASE Abort
    <2>1. UNCHANGED <<loop, child, follower, hist>> /\ parent'.status = parent.status
      BY <1>1, <1>7, FlagFacts DEF Abort, Jobs
    <2>. QED
      BY <1>5, <2>1
  <1>8. CASE SweepQuiet
    <2>1. UNCHANGED <<loop, child, follower, hist>> /\ (parent' = parent \/ parent' = AbandonedRow(parent))
      BY <1>8 DEF SweepQuiet, AbandonQuietRow, Jobs
    <2>2. AbandonedRow(parent).status = "abandoned"
      BY <1>1, AbandonedFacts
    <2>. QED
      BY <1>5, <2>1, <2>2
  <1>9. CASE AbortSteps \/ \E s \in Step : AbortStep(s)
    <2>1. UNCHANGED <<loop, parent, follower>> /\ Noted /\ \A s \in Step : Flagged(s)
      BY <1>9, AbortStepsFacts, AbortStepFacts, NotedSame DEF Outer
    <2>2. \A s \in Step : /\ Live(s)' => Live(s)
                         /\ \A n \in Node : Followed(s, n) => Followed(s, n)'
      BY <2>1 DEF Flagged, Live, Noted, Followed
    <2>3. parent' = parent /\ \A n \in Node : loop'[n] = loop[n]
      BY <2>1
    <2>. QED
      BY <2>2, <2>3, LiveTakes
  <1>10. ASSUME NEW s \in Step, ChildEnds(s) \/ EndLost(s) PROVE LiveInv'
    <2>1. /\ UNCHANGED <<loop, parent>> /\ Noted /\ OneChild(s)
          /\ \A t \in Step \ {s} : follower'[t] = follower[t]
      BY <1>10, ChildEndsFacts, EndLostFacts, NotedSame DEF Outer, OneChild, TypeInv, TypeOK
    <2>2. Live(s)' => FALSE
      <3>1. CASE ChildEnds(s)
        BY <3>1, ChildEndsFacts DEF Live
      <3>2. CASE EndLost(s)
        BY <3>2, EndLostFacts DEF Live
      <3>. QED
        BY <1>10, <3>1, <3>2
    <2>3. \A t \in Step : /\ Live(t)' => Live(t)
                         /\ \A n \in Node : Followed(t, n) /\ Live(t)' => Followed(t, n)'
      BY <2>1, <2>2 DEF OneChild, Live, Noted, Followed
    <2>4. parent' = parent /\ \A n \in Node : loop'[n] = loop[n]
      BY <2>1
    <2>. QED
      BY <2>3, <2>4, LiveTakes
  <1>11. ASSUME NEW s \in Step, NEW m \in Node, TakeOver(m, s) PROVE LiveInv'
    <2>1. /\ UNCHANGED <<loop, parent, hist>> /\ OneChild(s)
          /\ child[s].status = "abandoned" /\ child'[s].status = "running"
          /\ \A t \in Step \ {s} : follower'[t] = follower[t]
      BY <1>11, TakeOverFacts DEF Outer
    <2>2. \A t \in Step : Live(t)' => Live(t)
      BY <2>1 DEF Live, OneChild
    <2>3. \A t \in Step : \A n \in Node : Followed(t, n) => Followed(t, n)'
      BY <2>1 DEF Followed, OneChild
    <2>4. parent' = parent /\ \A n \in Node : loop'[n] = loop[n]
      BY <2>1
    <2>. QED
      BY <2>2, <2>3, <2>4, LiveTakes
  <1>12. ASSUME NEW n \in Node, Restart(n) \/ SweepDead(n) PROVE LiveInv'
    <2>1. /\ UNCHANGED <<loop, follower, hist>> /\ GivenUp(parent, parent')
          /\ \A s \in Step : /\ GivenUp(child[s], child'[s])
                             /\ parent.status = "running" /\ child[s].tracker = parent.tracker =>
                                  child'[s] = child[s] \/ parent'.status = "abandoned"
      BY <1>12, SweepFacts
    <2>2. \A s \in Step : Live(s)' => Live(s)
      BY <2>1 DEF GivenUp, Live
    <2>3. /\ parent'.status \in {"absent", "approve"} => parent.status \in {"absent", "approve"}
          /\ parent'.status = "running" => parent.status = "running"
      BY <2>1 DEF GivenUp
    <2>4. \A s \in Step : \A m \in Node :
            parent.status = "running" /\ parent'.status = "running" /\ m = parent.tracker /\ Followed(s, m)
              => Followed(s, m)'
      BY <2>1 DEF Followed
    <2>. QED
      BY <2>1, <2>2, <2>3, <2>4, LiveRow
  <1>13. ASSUME NEW s \in Step, NEW m \in Node, EndParent(m, s) PROVE LiveInv'
    <2>1. /\ UNCHANGED <<loop, child, follower, hist>>
          /\ parent' = parent \/ parent'.status = "failed"
      BY <1>13, EndParentFacts
    <2>. QED
      BY <1>5, <2>1
  <1>. QED
    BY <1>3, <1>4, <1>6, <1>7, <1>8, <1>9, <1>10, <1>11, <1>12, <1>13 DEF Others

\* What holds of the loop, its row and the steps' jobs, under every fault.
StepsInv == TypeInv /\ AloneInv /\ Children /\ LiveInv

LEMMA StepsInit == Init => StepsInv
  <1>. SUFFICES ASSUME Init PROVE StepsInv
    OBVIOUS
  <1>1. /\ parent.host = NoNode /\ parent.status = "absent" /\ \A n \in Node : loop[n].pc = "off"
        /\ \A s \in Step : /\ child[s].host = NoNode /\ child[s].job_type = "awx"
                           /\ child[s].status = "absent" /\ child[s].end = FALSE
    BY DEF Init, AbsentRow, Off
  <1>2. AloneInv
    BY <1>1 DEF AloneInv, On
  <1>3. Children
    BY <1>1 DEF Children, ChildOK
  <1>4. LiveInv
    BY <1>1 DEF LiveInv, NoneLive, Live, On
  <1>. QED
    BY <1>2, <1>3, <1>4, TypeInit DEF StepsInv

LEMMA StepsNext == StepsInv /\ [Next]_vars => StepsInv'
  <1>. SUFFICES ASSUME StepsInv, [Next]_vars PROVE StepsInv'
    OBVIOUS
  <1>1. CASE UNCHANGED vars
    <2>1. TypeInv'
      BY TypeNext DEF StepsInv
    <2>2. AloneInv' /\ Children' /\ LiveInv'
      BY <1>1 DEF StepsInv, vars, AloneInv, On, Children, ChildOK, LiveInv, NoneLive, Live, Followed
    <2>. QED
      BY <2>1, <2>2 DEF StepsInv
  <1>2. CASE Next
    <2>1. TypeInv'
      BY TypeNext DEF StepsInv
    <2>2. AloneInv'
      BY <1>2, NextCases, AloneLoop, AloneOthers DEF StepsInv
    <2>3. Children'
      BY <1>2, ChildrenNext DEF StepsInv
    <2>4. LiveInv'
      BY <1>2, NextCases, LiveLoop, LiveOthers DEF StepsInv
    <2>. QED
      BY <2>1, <2>2, <2>3, <2>4 DEF StepsInv
  <1>. QED
    BY <1>1, <1>2

\* They hold in every reachable state.
THEOREM StepsInvHolds == Spec => []StepsInv
  BY StepsInit, StepsNext, PTL DEF Spec

\* Two steps never run at the same time, whoever gives up, takes over, approves or aborts, and whatever
\* fails: but for a step the loop lost to its own end that was not written, or to the line after
\* its launch that was not.
THEOREM OneStepAtATimeHolds == Spec => []OneStepAtATime
  <1>1. StepsInv => OneStepAtATime
    BY DEF StepsInv, LiveInv, Live, OneStepAtATime
  <1>. QED
    BY <1>1, StepsInvHolds, PTL

-----------------------------------------------------------------------------
(* An abort reaches the step that runs                                     *)

\* What the loop waits for was told, n being its process, or a failure kept it from that.
Told(n) ==
  At(n, "wait") /\ parent.status = "running" /\ parent.abort_requested /\ ~aborting =>
    LET r == child[loop[n].step]
    IN r.status = "running" => r.abort_requested \/ loop[n].step \in hist.untold \cup hist.unwatched

\* After a step of one loop that does not come to wait, nobody waits.
LEMMA NobodyWaits ==
  ASSUME AloneInv, NEW n \in Node, Changed(n), On(n) \/ \A m \in Node : ~On(m), loop'[n].pc # "wait"
  PROVE  \A m \in Node : Told(m)'
  <1>1. \A m \in Node \ {n} : loop'[m].pc = "off"
    BY DEF Changed, OthersStay, AloneInv, On
  <1>2. \A m \in Node : ~At(m, "wait")'
    BY <1>1 DEF At
  <1>. QED
    BY <1>2 DEF Told

LEMMA ToldLoop ==
  ASSUME StepsInv, NEW n \in Node,
         Quiet(n) \/ Halts(n) \/ Claims(n) \/ LaunchStep(n) \/ Passes(n) \/ End(n) \/ Launch(n) \/ Continue(n)
  PROVE  \A m \in Node : Told(m)'
  <1>0. Off.pc = "off" /\ TypeInv /\ AloneInv
    BY DEF Off, StepsInv
  <1>1. CASE Quiet(n)
    BY <1>0, <1>1, QuietFacts, NobodyWaits DEF On, Begins, GoesOn, Leaves
  <1>2. CASE Halts(n) \/ End(n)
    BY <1>0, <1>2, HaltFacts, EndStepFacts, NobodyWaits DEF On
  <1>3. CASE Claims(n)
    BY <1>0, <1>3, ClaimFacts, NobodyWaits DEF On
  <1>4. CASE LaunchStep(n)
    <2>1. Changed(n) /\ On(n) /\ loop'[n].pc = "pass"
      BY <1>0, <1>4, LaunchStepFacts DEF On
    <2>. QED
      BY <1>0, <2>1, NobodyWaits
  <1>5. CASE Launch(n) \/ Continue(n)
    <2>1. Changed(n) /\ parent.status \in {"absent", "approve"} /\ loop'[n].pc = "start"
      BY <1>0, <1>5, BeginFacts DEF Started
    <2>2. \A m \in Node : ~On(m)
      BY <1>0, <2>1 DEF AloneInv
    <2>. QED
      BY <1>0, <2>1, <2>2, NobodyWaits
  <1>6. CASE Passes(n)
    <2>1. PICK s \in Step : s = loop[n].step
      BY <1>0, <1>6, PassAbortFacts
    <2>2. /\ Changed(n) /\ UNCHANGED parent /\ On(n) /\ loop'[n].step = s
          /\ \/ child'[s] = RequestAbortRow(child[s])
             \/ parent.abort_requested = FALSE \/ s \in hist'.untold
      BY <1>0, <1>6, <2>1, PassAbortFacts DEF On, Same
    <2>3. child[s] \in Row
      BY <1>0 DEF TypeInv, TypeOK
    <2>4. /\ RequestAbortRow(child[s]).status = child[s].status
          /\ child[s].status = "running" => RequestAbortRow(child[s]).abort_requested = TRUE
      BY <2>3, FlagFacts
    <2>5. Told(n)'
      BY <2>2, <2>4 DEF Told
    <2>6. \A m \in Node \ {n} : loop'[m].pc = "off"
      BY <1>0, <2>2 DEF Changed, OthersStay, AloneInv, On
    <2>. QED
      BY <2>5, <2>6 DEF Told, At
  <1>. QED
    BY <1>1, <1>2, <1>3, <1>4, <1>5, <1>6

\* A step that leaves the loops alone, the flag and whoever asks for it, and flags or ends steps.
LEMMA ToldRow ==
  ASSUME StepsInv, \A n \in Node : Told(n),
         \A n \in Node : loop'[n] = loop[n] \/ loop'[n].pc = "off",
         parent'.status = "running" => /\ parent.status = "running"
                                       /\ parent'.abort_requested = parent.abort_requested,
         UNCHANGED aborting, Noted,
         \A s \in Step : child'[s].status = "running" /\ child[s].status = "running" =>
                           (child[s].abort_requested => child'[s].abort_requested),
         \A s \in Step : child'[s].status = "running" => child[s].status \in {"running", "abandoned"}
  PROVE  \A n \in Node : Told(n)'
  <1>. SUFFICES ASSUME NEW n \in Node,
                       At(n, "wait")', parent'.status = "running", parent'.abort_requested, ~aborting',
                       child'[loop'[n].step].status = "running",
                       loop'[n].step \notin hist'.untold \cup hist'.unwatched
                PROVE  child'[loop'[n].step].abort_requested
    BY DEF Told
  <1>1. loop'[n] = loop[n] /\ At(n, "wait") /\ On(n)
    BY DEF At, On
  <1>2. PICK s \in Step : s = loop[n].step
    BY <1>1, LoopType DEF StepsInv, Where, At
  <1>4. s \notin hist.untold \cup hist.unwatched
    BY <1>1, <1>2 DEF Noted
  <1>3. child[s].status = "running"
    BY <1>1, <1>2, <1>4 DEF StepsInv, LiveInv, Live, Followed
  <1>. QED
    BY <1>1, <1>2, <1>3, <1>4 DEF Told

LEMMA ToldOthers ==
  ASSUME StepsInv, \A n \in Node : Told(n), Others
  PROVE  \A n \in Node : Told(n)'
  <1>1. TypeInv /\ AloneInv /\ Children /\ parent \in Row
    BY DEF StepsInv, TypeInv, TypeOK
  <1>2. ASSUME UNCHANGED <<child, aborting>>, \A n \in Node : loop'[n] = loop[n] \/ loop'[n].pc = "off",
               UNCHANGED hist, parent' = parent \/ parent'.status # "running"
        PROVE  \A n \in Node : Told(n)'
    BY <1>1, <1>2, ToldRow, NotedSame
  <1>3. CASE ReadApproval \/ \E n \in Node : Lapse(n) \/ Heartbeat(n)
    BY <1>2, <1>3 DEF ReadApproval, Lapse, Heartbeat, Rows, Jobs
  <1>4. ASSUME NEW n \in Node, Crash(n) PROVE \A m \in Node : Told(m)'
    <2>1. UNCHANGED <<parent, child, aborting, hist>> /\ Changed(n) /\ loop'[n] = Off
      BY <1>1, <1>4, LoopSet, OffType DEF Crash
    <2>2. \A m \in Node : loop'[m] = loop[m] \/ loop'[m].pc = "off"
      BY <2>1 DEF Changed, OthersStay, Off
    <2>. QED
      BY <1>2, <2>1, <2>2
  <1>5. CASE Reject
    <2>1. UNCHANGED <<loop, child, aborting, hist>> /\ parent'.status = "rejected"
      BY <1>1, <1>5 DEF Reject, Outside, RejectRow, TransitionStatus, Row, Jobs
    <2>. QED
      BY <1>2, <2>1
  <1>6. CASE SweepQuiet
    <2>1. UNCHANGED <<loop, child, aborting, hist>> /\ (parent' = parent \/ parent' = AbandonedRow(parent))
      BY <1>6 DEF SweepQuiet, AbandonQuietRow, Jobs
    <2>2. AbandonedRow(parent).status = "abandoned"
      BY <1>1, AbandonedFacts
    <2>. QED
      BY <1>2, <2>1, <2>2
  <1>7. CASE Abort
    <2>1. aborting' = TRUE
      BY <1>7 DEF Abort, Jobs
    <2>. QED
      BY <2>1 DEF Told
  <1>9. CASE AbortSteps
    <2>1. /\ UNCHANGED loop
          /\ \A s \in Step : child'[s].status = "running" => child'[s].abort_requested \/ s \in hist'.untold
      BY <1>1, <1>9, AbortStepsFacts DEF Outer, Flagged
    <2>2. \A n \in Node : At(n, "wait")' => loop'[n].step \in Step
      BY <1>1, <2>1, LoopType DEF At, Where
    <2>. QED
      BY <2>1, <2>2 DEF Told
  <1>10. ASSUME NEW s \in Step, AbortStep(s) PROVE \A n \in Node : Told(n)'
    <2>1. UNCHANGED <<loop, parent, aborting, hist>> /\ \A t \in Step : Flagged(t)
      BY <1>1, <1>10, AbortStepFacts DEF Outer
    <2>2. \A t \in Step : child[t].abort_requested \in BOOLEAN
      BY <1>1 DEF TypeInv, TypeOK, Row
    <2>. QED
      BY <1>1, <2>1, <2>2, ToldRow, NotedSame DEF Flagged
  <1>8. ASSUME NEW s \in Step, EndLost(s) PROVE \A n \in Node : Told(n)'
    <2>1. UNCHANGED <<loop, parent, aborting, child>> /\ Noted
      BY <1>1, <1>8, EndLostFacts DEF Outer
    <2>. QED
      BY <2>1, ToldRow
  <1>14. ASSUME NEW s \in Step, NEW m \in Node, EndParent(m, s) PROVE \A n \in Node : Told(n)'
    <2>1. UNCHANGED <<loop, child, aborting, hist>> /\ (parent' = parent \/ parent'.status = "failed")
      BY <1>1, <1>14, EndParentFacts
    <2>. QED
      BY <1>2, <2>1
  <1>11. ASSUME NEW s \in Step, ChildEnds(s) PROVE \A n \in Node : Told(n)'
    <2>1. /\ UNCHANGED <<loop, parent, aborting, hist>> /\ OneChild(s)
          /\ child'[s] = child[s] \/ child'[s].status \in {"success", "failed", "aborted"}
      BY <1>1, <1>11, ChildEndsFacts DEF Outer
    <2>2. \A t \in Step : child'[t] = child[t] \/ child'[t].status # "running"
      BY <2>1 DEF OneChild
    <2>. QED
      BY <1>1, <2>1, <2>2, ToldRow, NotedSame
  <1>12. ASSUME NEW s \in Step, NEW m \in Node, TakeOver(m, s) PROVE \A n \in Node : Told(n)'
    <2>1. UNCHANGED <<loop, parent, aborting, hist>> /\ OneChild(s) /\ child[s].status = "abandoned"
      BY <1>1, <1>12, TakeOverFacts DEF Outer
    <2>2. \A t \in Step : child'[t] = child[t] \/ child[t].status = "abandoned"
      BY <2>1 DEF OneChild
    <2>. QED
      BY <1>1, <2>1, <2>2, ToldRow, NotedSame
  <1>13. ASSUME NEW n \in Node, Restart(n) \/ SweepDead(n) PROVE \A m \in Node : Told(m)'
    <2>1. /\ UNCHANGED <<loop, aborting, hist>> /\ GivenUp(parent, parent')
          /\ \A s \in Step : GivenUp(child[s], child'[s])
      BY <1>1, <1>13, SweepFacts
    <2>2. /\ parent' = parent \/ parent'.status = "abandoned"
          /\ \A s \in Step : child'[s] = child[s] \/ child'[s].status = "abandoned"
      BY <2>1 DEF GivenUp
    <2>. QED
      BY <1>1, <2>1, <2>2, ToldRow, NotedSame
  <1>. QED
    BY <1>3, <1>4, <1>5, <1>6, <1>7, <1>8, <1>9, <1>10, <1>11, <1>12, <1>13, <1>14 DEF Others

\* An abort reaches the step the loop waits for, even one launched after the request looked for it,
\* under every fault, but for the step whose own telling failed.
THEOREM AbortReachesStepHolds == Spec => []AbortReachesStep
  <1>1. AbortReachesStep <=> \A n \in Node : Told(n)
    BY DEF AbortReachesStep, Told
  <1>2. Init => AbortReachesStep
    BY DEF Init, AbsentRow, AbortReachesStep
  <1>3. StepsInv /\ AbortReachesStep /\ [Next]_vars => AbortReachesStep'
    <2>. SUFFICES ASSUME StepsInv, \A n \in Node : Told(n), [Next]_vars PROVE \A n \in Node : Told(n)'
      BY DEF AbortReachesStep, Told
    <2>1. CASE UNCHANGED vars
      BY <2>1 DEF vars, Told, At
    <2>2. CASE Next
      BY <2>2, NextCases, ToldLoop, ToldOthers
    <2>. QED
      BY <2>1, <2>2
  <1>. QED
    BY <1>2, <1>3, StepsInvHolds, PTL DEF Spec

-----------------------------------------------------------------------------
(* No step is launched twice                                               *)

\* Nothing was launched of the steps from k on.
FreshFrom(k) == \A s \in Step : s >= k => hist.runs[s] = 0

\* A loop launches steps nothing was launched of, whoever started it: the step an approval read is
\* the one the row is held at, and of that one and those after it there is no job yet.
RunInv ==
  /\ \A s \in Step : hist.runs[s] <= 1
  /\ parent.status = "absent" => at = 0 /\ FreshFrom(0)
  /\ parent.status = "approve" => reads \subseteq {at} /\ FreshFrom(at)
  /\ \A n \in Node :
       /\ loop[n].pc = "start" => loop[n].step = at
       /\ loop[n].pc \in {"start", "next", "gate", "title", "launch"} => FreshFrom(loop[n].step)
       /\ loop[n].pc \in {"pass", "wait", "failed"} => FreshFrom(loop[n].step + 1)

\* A step of one loop that launches nothing.
LEMMA RunMove ==
  ASSUME AloneInv, RunInv, NEW n \in Node, Changed(n), hist'.runs = hist.runs,
         On(n) \/ \A m \in Node : ~On(m),
         parent'.status # "absent",
         parent'.status = "approve" => reads' \subseteq {at'} /\ FreshFrom(at'),
         loop'[n].pc = "start" => loop'[n].step = at',
         loop'[n].pc \in {"start", "next", "gate", "title", "launch"} => FreshFrom(loop'[n].step),
         loop'[n].pc \in {"pass", "wait", "failed"} => FreshFrom(loop'[n].step + 1)
  PROVE  RunInv'
  <1>1. \A m \in Node \ {n} : loop'[m].pc = "off"
    BY DEF Changed, OthersStay, AloneInv, On
  <1>2. /\ parent'.status = "approve" => reads' \subseteq {at'} /\ FreshFrom(at)'
        /\ loop'[n].pc \in {"start", "next", "gate", "title", "launch"} => FreshFrom(loop[n].step)'
        /\ loop'[n].pc \in {"pass", "wait", "failed"} => FreshFrom(loop[n].step + 1)'
    BY DEF FreshFrom
  <1>3. \A s \in Step : hist'.runs[s] <= 1
    BY DEF RunInv
  <1>. QED
    BY <1>1, <1>2, <1>3 DEF RunInv

LEMMA FreshLater ==
  ASSUME NEW j \in Int, NEW k \in Int, j <= k, FreshFrom(j)
  PROVE  FreshFrom(k)
  BY DEF FreshFrom, Step

LEMMA RunLoop ==
  ASSUME "slow" \notin FaultKinds, StepsInv, RunInv, NEW n \in Node,
         Quiet(n) \/ Halts(n) \/ Claims(n) \/ LaunchStep(n) \/ Passes(n) \/ End(n) \/ Launch(n) \/ Continue(n)
  PROVE  RunInv'
  <1>0. Off.pc = "off" /\ TypeInv /\ AloneInv /\ loop[n] \in Loop
    BY LoopType DEF Off, StepsInv
  <1>s. loop[n].step \in Int /\ loop[n].step >= 0
    BY <1>0, MultistepAssumption DEF Loop
  <1>1. CASE Quiet(n)
    <2>1. /\ Changed(n) /\ UNCHANGED <<parent, at, reads>> /\ hist'.runs = hist.runs /\ On(n)
          /\ loop'[n] = Off \/ Begins(n) \/ GoesOn(n) \/ Leaves(n)
      BY <1>0, <1>1, QuietFacts DEF Unwritten, Noted, On
    <2>2. parent.status # "absent" /\ (parent.status = "approve" => reads \subseteq {at} /\ FreshFrom(at))
      BY <1>0, <2>1 DEF AloneInv, RunInv
    <2>3. CASE loop'[n] = Off
      BY <1>0, <2>1, <2>2, <2>3, RunMove
    <2>4. CASE Begins(n)
      <3>1. loop'[n].pc = "next" /\ FreshFrom(loop[n].step)
        BY <2>4 DEF Begins, RunInv
      <3>2. FreshFrom(loop'[n].step)
        BY <1>s, <2>4, <3>1, FreshLater DEF Begins
      <3>. QED
        BY <1>0, <2>1, <2>2, <3>1, <3>2, RunMove
    <2>5. CASE GoesOn(n)
      <3>1. /\ loop'[n].step = loop[n].step /\ loop'[n].pc \in {"end", "launch", "failed"}
            /\ loop'[n].pc = "launch" => loop[n].pc = "title"
            /\ loop[n].pc \in {"launch", "next", "gate", "title", "pass", "wait"}
        BY <2>5 DEF GoesOn, Same
      <3>2. FreshFrom(loop[n].step + 1) /\ (loop'[n].pc = "launch" => FreshFrom(loop[n].step))
        BY <1>s, <3>1, FreshLater DEF RunInv
      <3>. QED
        BY <1>0, <2>1, <2>2, <3>1, <3>2, RunMove
    <2>6. CASE Leaves(n)
      <3>1. /\ loop'[n].pc = "next" /\ loop'[n].step = loop[n].step + 1
            /\ loop[n].pc \in {"next", "title", "wait", "failed"}
        BY <2>6 DEF Leaves
      <3>2. FreshFrom(loop'[n].step)
        BY <1>s, <3>1, FreshLater DEF RunInv
      <3>. QED
        BY <1>0, <2>1, <2>2, <3>1, <3>2, RunMove
    <2>. QED
      BY <2>1, <2>3, <2>4, <2>5, <2>6
  <1>2. CASE Halts(n)
    <2>1. /\ Changed(n) /\ UNCHANGED <<at, hist>> /\ On(n) /\ loop'[n] = Off /\ parent' = HoldRow(parent)
          /\ reads' = {} /\ loop[n].pc \in {"gate", "start"}
      BY <1>0, <1>2, HaltFacts DEF On
    <2>2. loop[n].step = at /\ FreshFrom(at)
      BY <1>0, <2>1 DEF AloneInv, RunInv
    <2>3. parent'.status # "absent"
      <3>1. parent \in Row /\ parent.status # "absent"
        BY <1>0, <2>1 DEF TypeInv, TypeOK, AloneInv
      <3>. QED
        BY <2>1, <3>1, HoldFacts
    <2>. QED
      BY <1>0, <2>1, <2>2, <2>3, RunMove
  <1>3. CASE Claims(n)
    <2>1. /\ Changed(n) /\ UNCHANGED <<parent, reads, hist>> /\ On(n) /\ loop[n].pc = "next"
          /\ parent.status = "running" /\ loop'[n].pc \in {"gate", "title"} /\ loop'[n].step = loop[n].step
      BY <1>0, <1>3, ClaimFacts DEF On, Same
    <2>2. FreshFrom(loop[n].step)
      BY <2>1 DEF RunInv
    <2>. QED
      BY <1>0, <2>1, <2>2, RunMove
  <1>4. CASE LaunchStep(n)
    <2>1. PICK s \in Step : s = loop[n].step
      BY <1>0, <1>4, LaunchStepFacts
    <2>2. /\ Changed(n) /\ UNCHANGED parent /\ loop[n].pc = "launch" /\ loop'[n].pc = "pass"
          /\ loop'[n].step = s
      BY <1>0, <1>4, <2>1, LaunchStepFacts DEF Same
    <2>9. \A t \in Step : hist'.runs[t] = IF t = loop[n].step THEN hist.runs[t] + 1 ELSE hist.runs[t]
      BY <1>0, <1>4, LaunchStepFacts
    <2>3. \A m \in Node \ {n} : loop'[m].pc = "off"
      BY <1>0, <2>2 DEF Changed, OthersStay, AloneInv, On
    <2>4. FreshFrom(s) /\ \A t \in Step : hist.runs[t] <= 1
      BY <2>1, <2>2 DEF RunInv
    <2>5. hist'.runs[s] = 1 /\ \A t \in Step : t # s => hist'.runs[t] = hist.runs[t]
      BY <2>1, <2>9, <2>4 DEF FreshFrom, Step
    <2>6. \A t \in Step : hist'.runs[t] <= 1
      BY <2>4, <2>5
    <2>7. FreshFrom(loop[n].step + 1)'
      BY <2>2, <2>4, <2>5 DEF FreshFrom, Step
    <2>8. parent'.status \notin {"absent", "approve"}
      BY <1>0, <2>2 DEF AloneInv, On
    <2>. QED
      BY <2>2, <2>3, <2>6, <2>7, <2>8 DEF RunInv
  <1>5. CASE Passes(n)
    <2>1. /\ Changed(n) /\ UNCHANGED <<parent, at, reads>> /\ hist'.runs = hist.runs /\ On(n)
          /\ loop[n].pc = "pass" /\ loop'[n].pc = "wait" /\ loop'[n].step = loop[n].step
      BY <1>0, <1>5, PassAbortFacts DEF On, Same, Noted
    <2>2. /\ FreshFrom(loop[n].step + 1) /\ parent.status # "absent"
          /\ parent.status = "approve" => reads \subseteq {at} /\ FreshFrom(at)
      BY <1>0, <2>1 DEF AloneInv, RunInv
    <2>. QED
      BY <1>0, <2>1, <2>2, RunMove
  <1>6. CASE End(n)
    <2>1. /\ Changed(n) /\ UNCHANGED <<at, reads, hist>> /\ On(n) /\ loop'[n] = Off
          /\ parent'.status = IF parent.status \in {"running", "abandoned"} THEN EndsAs(loop[n])
                              ELSE parent.status
      BY <1>0, <1>6, EndStepFacts DEF On
    <2>2. parent'.status \notin {"absent", "approve"}
      BY <1>0, <2>1 DEF EndsAs, AloneInv
    <2>. QED
      BY <1>0, <2>1, <2>2, RunMove
  <1>7. CASE Launch(n) \/ Continue(n)
    <2>1. /\ Changed(n) /\ UNCHANGED <<at, hist>> /\ parent.status \in {"absent", "approve"}
          /\ parent'.status = "running"
          /\ \/ parent.status = "absent" /\ loop'[n].pc = "start" /\ loop'[n].step = 0
             \/ parent.status = "approve" /\ loop'[n].pc = "start" /\ loop'[n].step \in reads
      BY <1>0, <1>7, BeginFacts DEF Started
    <2>2. \A m \in Node : ~On(m)
      BY <1>0, <2>1 DEF AloneInv
    <2>3. loop'[n].step = at /\ FreshFrom(at)
      BY <2>1 DEF RunInv
    <2>. QED
      BY <1>0, <2>1, <2>2, <2>3, RunMove
  <1>. QED
    BY <1>1, <1>2, <1>3, <1>4, <1>5, <1>6, <1>7

\* A step that leaves the loops alone, or stops one, and brings no row to where a loop starts.
LEMMA RunRow ==
  ASSUME RunInv, UNCHANGED at, hist'.runs = hist.runs, \A n \in Node : loop'[n] = loop[n] \/ loop'[n].pc = "off",
         parent'.status = "absent" => parent.status = "absent",
         parent'.status = "approve" => parent.status = "approve" /\ reads' \subseteq reads \cup {at}
  PROVE  RunInv'
  <1>1. \A k : (\A s \in Step : s >= k => hist'.runs[s] = 0) <=> FreshFrom(k)
    BY DEF FreshFrom
  <1>. QED
    BY DEF RunInv, FreshFrom

LEMMA RunOthers ==
  ASSUME StepsInv, RunInv, Others
  PROVE  RunInv'
  <1>1. TypeInv /\ AloneInv /\ Children /\ parent \in Row
    BY DEF StepsInv, TypeInv, TypeOK
  <1>2. ASSUME UNCHANGED <<at, reads>>, hist'.runs = hist.runs,
               \A n \in Node : loop'[n] = loop[n] \/ loop'[n].pc = "off",
               parent'.status = parent.status \/ parent'.status \notin {"absent", "approve"}
        PROVE  RunInv'
    BY <1>2, RunRow
  <1>3. CASE ReadApproval
    BY <1>3, RunRow DEF ReadApproval, Rows, Jobs
  <1>4. CASE \E n \in Node : Lapse(n) \/ Heartbeat(n)
    BY <1>2, <1>4 DEF Lapse, Heartbeat, Rows, Jobs
  <1>5. ASSUME NEW s \in Step, NEW m \in Node, EndParent(m, s) PROVE RunInv'
    <2>1. UNCHANGED <<loop, at, reads, hist>> /\ (parent' = parent \/ parent'.status = "failed")
      BY <1>1, <1>5, EndParentFacts
    <2>. QED
      BY <1>2, <2>1
  <1>6. ASSUME NEW n \in Node, Crash(n) PROVE RunInv'
    <2>1. UNCHANGED <<parent, at, reads, hist>> /\ Changed(n) /\ loop'[n] = Off
      BY <1>1, <1>6, LoopSet, OffType DEF Crash
    <2>2. \A m \in Node : loop'[m] = loop[m] \/ loop'[m].pc = "off"
      BY <2>1 DEF Changed, OthersStay, Off
    <2>. QED
      BY <1>2, <2>1, <2>2
  <1>7. CASE Reject
    <2>1. UNCHANGED <<loop, at, reads, hist>> /\ parent'.status = "rejected"
      BY <1>1, <1>7 DEF Reject, Outside, RejectRow, TransitionStatus, Row, Jobs
    <2>. QED
      BY <1>2, <2>1
  <1>8. CASE Abort
    <2>1. UNCHANGED <<loop, at, reads, hist>> /\ parent'.status = parent.status
      BY <1>1, <1>8, FlagFacts DEF Abort, Jobs
    <2>. QED
      BY <1>2, <2>1
  <1>9. CASE SweepQuiet
    <2>1. UNCHANGED <<loop, at, reads, hist>> /\ (parent' = parent \/ parent' = AbandonedRow(parent))
      BY <1>9 DEF SweepQuiet, AbandonQuietRow, Jobs
    <2>2. AbandonedRow(parent).status = "abandoned"
      BY <1>1, AbandonedFacts
    <2>. QED
      BY <1>2, <2>1, <2>2
  <1>10. CASE AbortSteps \/ \E s \in Step : AbortStep(s) \/ ChildEnds(s) \/ EndLost(s) \/ \E m \in Node : TakeOver(m, s)
    <2>1. UNCHANGED <<loop, at, reads, parent>> /\ hist'.runs = hist.runs
      BY <1>1, <1>10, AbortStepsFacts, AbortStepFacts, ChildEndsFacts, EndLostFacts, TakeOverFacts DEF Outer, Noted
    <2>. QED
      BY <1>2, <2>1
  <1>11. ASSUME NEW n \in Node, Restart(n) \/ SweepDead(n) PROVE RunInv'
    <2>1. UNCHANGED <<loop, at, hist>> /\ GivenUp(parent, parent')
      BY <1>1, <1>11, SweepFacts
    <2>2. UNCHANGED reads
      BY <1>11 DEF Restart, SweepDead, Outside, Jobs
    <2>. QED
      BY <1>2, <2>1, <2>2 DEF GivenUp
  <1>. QED
    BY <1>3, <1>4, <1>5, <1>6, <1>7, <1>8, <1>9, <1>10, <1>11 DEF Others

\* They hold of every run in which no approval is slow.
THEOREM RunInvHolds ==
  ASSUME "slow" \notin FaultKinds
  PROVE  Spec => []RunInv
  <1>1. Init => RunInv
    <2>. SUFFICES ASSUME Init PROVE RunInv
      OBVIOUS
    <2>1. /\ parent.status = "absent" /\ at = 0 /\ \A n \in Node : loop[n].pc = "off"
          /\ \A s \in Step : hist.runs[s] = 0
      BY DEF Init, AbsentRow, Off
    <2>. QED
      BY <2>1 DEF RunInv, FreshFrom
  <1>2. StepsInv /\ RunInv /\ [Next]_vars => RunInv'
    <2>. SUFFICES ASSUME StepsInv, RunInv, [Next]_vars PROVE RunInv'
      OBVIOUS
    <2>1. CASE UNCHANGED vars
      BY <2>1 DEF vars, RunInv, FreshFrom
    <2>2. CASE Next
      BY <2>2, NextCases, RunLoop, RunOthers
    <2>. QED
      BY <2>1, <2>2
  <1>. QED
    BY <1>1, <1>2, StepsInvHolds, PTL DEF Spec

\* No step is launched twice, whoever approves, from whatever process, and whatever is given up and
\* claimed on the way, as long as no approval reads the row in one hold and claims it in another.
THEOREM StepOnceHolds ==
  ASSUME "slow" \notin FaultKinds
  PROVE  Spec => []StepOnce
  <1>1. RunInv => StepOnce
    BY DEF RunInv, StepOnce
  <1>. QED
    BY <1>1, RunInvHolds, PTL


-----------------------------------------------------------------------------
(* What a failed step stops, and what the end says                         *)

Met(s) == form.steps[s].met = TRUE
Tolerated(s) == form.steps[s].continue = TRUE
Passed(s) == child[s].status = "success"

\* Where a run begins: with the first step, or with one somebody approved.
Origin(b) == b = 0 \/ (b \in Step /\ form.steps[b].approval = TRUE /\ Met(b))

\* The row was claimed for that step, but by an approval that came late it may not be.
Reached(b) == "slow" \in FaultKinds \/ b <= at

\* From where it began to where it is, the loop of n passed every step that was to run.
Began(n) ==
  \E b \in 0..Last :
    /\ Origin(b) /\ Reached(b) /\ b <= loop[n].step
    /\ \A s \in Step : b <= s /\ s < loop[n].step /\ Met(s) =>
                         Passed(s) \/ (loop[n].partial = TRUE /\ Tolerated(s))

\* The run that ended passed every step that was to run.
Whole ==
  \E b \in 0..Last :
    /\ Origin(b) /\ Reached(b)
    /\ \A s \in Step : b <= s /\ Met(s) => Passed(s) \/ (parent.status = "warning" /\ Tolerated(s))

\* A loop that was started and is at the step it is to begin with.
Fresh(n) ==
  /\ Origin(loop[n].step) /\ Reached(loop[n].step)
  /\ loop[n].passed = TRUE /\ (loop[n].approved = FALSE => at = 0)

LoopTruth(n) ==
  /\ loop[n].pc = "start" => Fresh(n)
  /\ loop[n].pc = "gate" => form.steps[loop[n].step].approval = TRUE
  /\ loop[n].pc = "launch" => loop[n].passed = TRUE \/ form.steps[loop[n].step].always = TRUE
  /\ loop[n].pc \notin {"off", "start"} /\ loop[n].passed = TRUE => Began(n)

RowTruth ==
  /\ parent.status = "absent" => at = 0
  /\ parent.status = "approve" => Origin(at) /\ \A s \in reads : Reached(s)
  /\ \A s \in reads : Origin(s)
  /\ parent.status \in {"success", "warning"} => Whole

TruthInv == RowTruth /\ \A n \in Node : LoopTruth(n)

\* The steps before that of the loop stay passed, the loop tolerates no less, and the row is claimed,
\* if it is, for the step the loop is at.
LEMMA BeganMove ==
  ASSUME StepsInv, NEW n \in Node, Began(n), UNCHANGED form,
         \A s \in Step : s < loop[n].step /\ Passed(s) => Passed(s)',
         at' = at \/ at' = loop[n].step,
         loop'[n].step = loop[n].step, loop[n].partial = TRUE => loop'[n].partial = TRUE
  PROVE  Began(n)'
  <1>1. PICK b \in 0..Last :
          /\ Origin(b) /\ Reached(b) /\ b <= loop[n].step
          /\ \A s \in Step : b <= s /\ s < loop[n].step /\ Met(s) =>
                               Passed(s) \/ (loop[n].partial = TRUE /\ Tolerated(s))
    BY DEF Began
  <1>2. Origin(b)' /\ Reached(b)' /\ \A s \in Step : (Met(s)' <=> Met(s)) /\ (Tolerated(s)' <=> Tolerated(s))
    BY <1>1 DEF Origin, Reached, Met, Tolerated
  <1>. QED
    BY <1>1, <1>2 DEF Began

\* The loop leaves a step that was not to run, that passed, or that it tolerates.
LEMMA BeganNext ==
  ASSUME StepsInv, NEW n \in Node, Began(n), UNCHANGED <<form, child, at>>, loop[n].step \in Step,
         Met(loop[n].step) => Passed(loop[n].step) \/ (loop'[n].partial = TRUE /\ Tolerated(loop[n].step)),
         loop'[n].step = loop[n].step + 1, loop[n].partial = TRUE => loop'[n].partial = TRUE
  PROVE  Began(n)'
  <1>1. PICK b \in 0..Last :
          /\ Origin(b) /\ Reached(b) /\ b <= loop[n].step
          /\ \A s \in Step : b <= s /\ s < loop[n].step /\ Met(s) =>
                               Passed(s) \/ (loop[n].partial = TRUE /\ Tolerated(s))
    BY DEF Began
  <1>2. /\ Origin(b)' /\ Reached(b)'
        /\ \A s \in Step : /\ Met(s)' <=> Met(s)
                           /\ Tolerated(s)' <=> Tolerated(s)
                           /\ Passed(s)' <=> Passed(s)
    BY <1>1 DEF Origin, Reached, Met, Tolerated, Passed
  <1>3. PICK i \in Step : i = loop[n].step
    OBVIOUS
  <1>4. b <= i + 1 /\ \A s \in Step : s < i + 1 => s < i \/ s = i
    BY <1>1, <1>3, MultistepAssumption DEF Step
  <1>5. ASSUME NEW s \in Step, b <= s, s < i + 1, Met(s)
        PROVE  Passed(s) \/ (loop'[n].partial = TRUE /\ Tolerated(s))
    BY <1>1, <1>3, <1>4, <1>5
  <1>. QED
    BY <1>1, <1>2, <1>3, <1>4, <1>5 DEF Began

\* A step of one loop, the others being off.
LEMMA TruthMove ==
  ASSUME AloneInv, NEW n \in Node, Changed(n), On(n) \/ \A m \in Node : ~On(m),
         RowTruth', LoopTruth(n)'
  PROVE  TruthInv'
  <1>1. \A m \in Node \ {n} : loop'[m].pc = "off"
    BY DEF Changed, OthersStay, AloneInv, On
  <1>2. \A m \in Node \ {n} : LoopTruth(m)'
    BY <1>1 DEF LoopTruth
  <1>. QED
    BY <1>2 DEF TruthInv

\* A loop that is off says nothing.
LEMMA OffTruth ==
  ASSUME NEW n \in Node, loop'[n] = Off
  PROVE  LoopTruth(n)'
  BY DEF LoopTruth, Off

\* The row goes on saying what it said.
LEMMA RowStays ==
  ASSUME RowTruth, UNCHANGED <<form, at, reads>>,
         \A s \in Step : Passed(s) => Passed(s)',
         parent'.status = parent.status \/ parent'.status \notin {"absent", "approve", "success", "warning"}
  PROVE  RowTruth'
  <1>1. \A b : (Origin(b)' <=> Origin(b)) /\ (Reached(b)' <=> Reached(b))
    BY DEF Origin, Reached, Met
  <1>2. \A s \in Step : (Met(s)' <=> Met(s)) /\ (Tolerated(s)' <=> Tolerated(s))
    BY DEF Met, Tolerated
  <1>3. Whole /\ parent'.status = parent.status => Whole'
    BY <1>1, <1>2 DEF Whole
  <1>4. /\ parent'.status = "absent" => at' = 0
        /\ parent'.status = "approve" => Origin(at) /\ \A s \in reads' : Reached(s)'
        /\ \A s \in reads' : Origin(s)'
    BY <1>1 DEF RowTruth
  <1>5. Origin(at) => Origin(at)'
    BY DEF Origin, Met
  <1>. QED
    BY <1>3, <1>4, <1>5 DEF RowTruth

LEMMA TruthQuiet ==
  ASSUME StepsInv, TruthInv, NEW n \in Node, Quiet(n)
  PROVE  TruthInv'
  <1>0. TypeInv /\ AloneInv /\ Children /\ RowTruth /\ LoopTruth(n) /\ loop[n] \in Loop /\ Where(loop[n])
    BY LoopType DEF StepsInv, TruthInv
  <1>1. /\ Changed(n) /\ On(n) /\ UNCHANGED <<form, parent, at, child, reads>>
        /\ loop'[n] = Off \/ Begins(n) \/ GoesOn(n) \/ Leaves(n)
    BY <1>0, QuietFacts DEF Unwritten, On
  <1>2. \A s \in Step : Passed(s) => Passed(s)'
    BY <1>1 DEF Passed
  <1>3. RowTruth'
    BY <1>0, <1>1, <1>2, RowStays
  <1>4. CASE loop'[n] = Off
    BY <1>0, <1>1, <1>3, <1>4, OffTruth, TruthMove
  <1>5. CASE Begins(n)
    <2>1. PICK b \in 0..Last : b = loop[n].step
      BY <1>0, <1>5, MultistepAssumption DEF Begins, Where, Loop
    <2>2. loop'[n].pc = "next" /\ (loop'[n].step = b \/ (b = 0 /\ loop'[n].step = 1)) /\ Origin(b) /\ Reached(b)
      BY <1>0, <1>5, <2>1 DEF Begins, LoopTruth, Fresh
    <2>3. Origin(b)' /\ Reached(b)' /\ b <= loop'[n].step
      BY <1>1, <2>2 DEF Origin, Reached, Met
    <2>4. \A s \in Step : ~(b <= s /\ s < loop'[n].step)
      BY <2>2, MultistepAssumption DEF Step
    <2>5. Began(n)'
      BY <2>3, <2>4 DEF Began
    <2>6. LoopTruth(n)'
      BY <2>2, <2>5 DEF LoopTruth
    <2>. QED
      BY <1>0, <1>1, <1>3, <2>6, TruthMove
  <1>6. CASE GoesOn(n)
    <2>1. /\ Same(loop[n], loop'[n]) /\ loop[n].pc \notin {"off", "start"}
          /\ loop'[n].pc \in {"end", "launch", "failed"}
          /\ loop'[n].pc = "launch" => loop[n].passed = TRUE \/ form.steps[loop[n].step].always = TRUE
      BY <1>6 DEF GoesOn
    <2>2. ASSUME loop'[n].passed = TRUE PROVE Began(n)'
      <3>1. Began(n)
        BY <1>0, <2>1, <2>2 DEF LoopTruth, Same
      <3>. QED
        BY <1>1, <1>2, <2>1, <3>1, BeganMove DEF Same
    <2>3. LoopTruth(n)'
      BY <1>1, <2>1, <2>2 DEF LoopTruth, Same
    <2>. QED
      BY <1>0, <1>1, <1>3, <2>3, TruthMove
  <1>7. CASE Leaves(n)
    <2>1. PICK i \in Step : i = loop[n].step
      BY <1>7 DEF Leaves
    <2>2. /\ loop'[n].pc = "next" /\ loop'[n].step = i + 1 /\ loop[n].pc \notin {"off", "start"}
          /\ \/ form.steps[i].met = FALSE /\ loop'[n].passed = loop[n].passed /\ loop'[n].partial = loop[n].partial
             \/ loop'[n].passed = FALSE
             \/ StepPassed(child[i]) /\ loop'[n].passed = loop[n].passed /\ loop'[n].partial = loop[n].partial
             \/ form.steps[i].continue = TRUE /\ loop'[n].passed = loop[n].passed /\ loop'[n].partial = TRUE
      BY <1>7, <2>1 DEF Leaves
    <2>3. StepPassed(child[i]) => Passed(i)
      BY <1>0 DEF StepPassed, Passed, Children, ChildOK
    <2>4. ASSUME loop'[n].passed = TRUE PROVE Began(n)'
      <3>1. Began(n)
        BY <1>0, <2>2, <2>4 DEF LoopTruth
      <3>2. /\ Met(i) => Passed(i) \/ (loop'[n].partial = TRUE /\ Tolerated(i))
            /\ loop[n].partial = TRUE => loop'[n].partial = TRUE
        BY <2>2, <2>3, <2>4 DEF Met, Tolerated
      <3>. QED
        BY <1>1, <2>1, <2>2, <3>1, <3>2, BeganNext
    <2>5. LoopTruth(n)'
      BY <2>2, <2>4 DEF LoopTruth
    <2>. QED
      BY <1>0, <1>1, <1>3, <2>5, TruthMove
  <1>. QED
    BY <1>1, <1>4, <1>5, <1>6, <1>7

LEMMA TruthHalts ==
  ASSUME StepsInv, TruthInv, NEW n \in Node, Halts(n)
  PROVE  TruthInv'
  <1>0. TypeInv /\ AloneInv /\ RowTruth /\ LoopTruth(n) /\ Where(loop[n]) /\ parent \in Row
    BY LoopType DEF StepsInv, TruthInv, TypeInv, TypeOK
  <1>1. /\ UNCHANGED <<form, at, child>> /\ Changed(n) /\ loop'[n] = Off /\ parent' = HoldRow(parent)
        /\ reads' \subseteq reads /\ ("slow" \notin FaultKinds => reads' = {})
        /\ \/ loop[n].pc = "gate"
           \/ loop[n].pc = "start" /\ loop[n].approved = FALSE
    BY <1>0, HaltFacts
  <1>2. On(n) /\ parent.status \in {"running", "abandoned", "failed"}
    BY <1>0, <1>1 DEF On, AloneInv
  <1>3. parent'.status \in {"approve", "abandoned", "failed"}
    BY <1>0, <1>1, <1>2, HoldFacts
  <1>4. Origin(at)
    <2>1. CASE loop[n].pc = "gate"
      BY <1>0, <2>1 DEF AloneInv, LoopTruth, Where, Origin, Met
    <2>2. CASE loop[n].pc = "start" /\ loop[n].approved = FALSE
      BY <1>0, <2>2 DEF LoopTruth, Fresh, Origin
    <2>. QED
      BY <1>1, <2>1, <2>2
  <1>5. \A b : (Origin(b)' <=> Origin(b)) /\ (Reached(b)' <=> Reached(b))
    BY <1>1 DEF Origin, Reached, Met
  <1>6. Origin(at)' /\ \A s \in reads' : Origin(s)' /\ Reached(s)'
    <2>1. Origin(at)'
      BY <1>1, <1>4 DEF Origin, Met
    <2>2. \A s \in reads' : Origin(s)' /\ Reached(s)'
      BY <1>0, <1>1, <1>5 DEF RowTruth, Reached
    <2>. QED
      BY <2>1, <2>2
  <1>7. RowTruth'
    BY <1>3, <1>6 DEF RowTruth
  <1>. QED
    BY <1>0, <1>1, <1>2, <1>7, OffTruth, TruthMove

LEMMA TruthClaims ==
  ASSUME StepsInv, TruthInv, NEW n \in Node, Claims(n)
  PROVE  TruthInv'
  <1>0. TypeInv /\ AloneInv /\ RowTruth /\ LoopTruth(n)
    BY DEF StepsInv, TruthInv
  <1>1. /\ UNCHANGED <<form, parent, child, reads>> /\ Changed(n) /\ Same(loop[n], loop'[n])
        /\ loop[n].pc = "next" /\ at' = loop[n].step /\ parent.status = "running"
        /\ \/ loop'[n].pc = "gate" /\ form.steps[loop[n].step].approval = TRUE
           \/ loop'[n].pc = "title"
    BY <1>0, ClaimFacts
  <1>2. RowTruth'
    <2>1. \A s \in reads' : Origin(s)'
      BY <1>0, <1>1 DEF RowTruth, Origin, Met
    <2>. QED
      BY <1>1, <2>1 DEF RowTruth
  <1>3. ASSUME loop'[n].passed = TRUE PROVE Began(n)'
    <2>1. Began(n) /\ \A s \in Step : Passed(s) => Passed(s)'
      BY <1>0, <1>1, <1>3 DEF LoopTruth, Same, Passed
    <2>. QED
      BY <1>1, <2>1, BeganMove DEF Same
  <1>4. LoopTruth(n)'
    BY <1>1, <1>3 DEF LoopTruth, Same
  <1>. QED
    BY <1>0, <1>1, <1>2, <1>4, TruthMove DEF On

LEMMA TruthLaunch ==
  ASSUME StepsInv, TruthInv, NEW n \in Node, LaunchStep(n) \/ Passes(n)
  PROVE  TruthInv'
  <1>0. TypeInv /\ AloneInv /\ LiveInv /\ RowTruth /\ LoopTruth(n)
    BY DEF StepsInv, TruthInv
  <1>1. PICK i \in Step : i = loop[n].step
    BY <1>0, LaunchStepFacts, PassAbortFacts
  <1>2. /\ UNCHANGED <<form, parent, at, reads>> /\ Changed(n) /\ Same(loop[n], loop'[n])
        /\ loop[n].pc \in {"launch", "pass"} /\ loop'[n].pc \in {"pass", "wait"} /\ OneChild(i)
    BY <1>0, <1>1, LaunchStepFacts, PassAbortFacts
  <1>3. \A s \in Step : s < i /\ Passed(s) => Passed(s)'
    BY <1>2 DEF OneChild, Passed, Step
  <1>4. parent.status \in {"running", "abandoned", "failed"} /\ On(n)
    BY <1>0, <1>2 DEF AloneInv, On
  <1>5. RowTruth'
    <2>1. \A s \in reads' : Origin(s)'
      BY <1>0, <1>2 DEF RowTruth, Origin, Met
    <2>. QED
      BY <1>2, <1>4, <2>1 DEF RowTruth
  <1>6. ASSUME loop'[n].passed = TRUE PROVE Began(n)'
    <2>1. Began(n)
      BY <1>0, <1>2, <1>6 DEF LoopTruth, Same
    <2>. QED
      BY <1>1, <1>2, <1>3, <2>1, BeganMove DEF Same
  <1>7. LoopTruth(n)'
    BY <1>2, <1>6 DEF LoopTruth
  <1>. QED
    BY <1>0, <1>2, <1>4, <1>5, <1>7, TruthMove

LEMMA TruthEnd ==
  ASSUME StepsInv, TruthInv, NEW n \in Node, End(n)
  PROVE  TruthInv'
  <1>0. TypeInv /\ AloneInv /\ RowTruth /\ LoopTruth(n) /\ loop[n] \in Loop /\ Where(loop[n])
    BY LoopType DEF StepsInv, TruthInv
  <1>1. /\ UNCHANGED <<form, at, child, reads>> /\ Changed(n) /\ loop'[n] = Off /\ loop[n].pc = "end"
        /\ parent'.status = IF parent.status \in {"running", "abandoned"} THEN EndsAs(loop[n])
                            ELSE parent.status
    BY <1>0, EndStepFacts
  <1>2. On(n) /\ (parent'.status = EndsAs(loop[n]) \/ parent'.status = "failed")
    BY <1>0, <1>1 DEF AloneInv, On
  <1>3. /\ parent'.status \notin {"absent", "approve"}
        /\ parent'.status \in {"success", "warning"} =>
             loop[n].passed = TRUE /\ (loop[n].partial = TRUE => parent'.status = "warning")
    BY <1>0, <1>2 DEF EndsAs, Loop
  <1>4. ASSUME parent'.status \in {"success", "warning"} PROVE Whole'
    <2>1. Began(n) /\ loop[n].step = Last + 1
      BY <1>0, <1>1, <1>3, <1>4 DEF LoopTruth, Where
    <2>2. PICK b \in 0..Last :
            /\ Origin(b) /\ Reached(b)
            /\ \A s \in Step : b <= s /\ s < Last + 1 /\ Met(s) =>
                                 Passed(s) \/ (loop[n].partial = TRUE /\ Tolerated(s))
      BY <2>1 DEF Began
    <2>3. \A s \in Step : s < Last + 1
      BY MultistepAssumption DEF Step
    <2>4. \A s \in Step : b <= s /\ Met(s) => Passed(s) \/ (parent'.status = "warning" /\ Tolerated(s))
      BY <1>3, <1>4, <2>2, <2>3
    <2>5. /\ Origin(b)' /\ Reached(b)'
          /\ \A s \in Step : (Met(s)' <=> Met(s)) /\ (Tolerated(s)' <=> Tolerated(s)) /\ (Passed(s)' <=> Passed(s))
      BY <1>1, <2>2 DEF Origin, Reached, Met, Tolerated, Passed
    <2>. QED
      BY <2>4, <2>5 DEF Whole
  <1>5. \A s \in reads' : Origin(s)'
    BY <1>0, <1>1 DEF RowTruth, Origin, Met
  <1>6. RowTruth'
    BY <1>3, <1>4, <1>5 DEF RowTruth
  <1>. QED
    BY <1>0, <1>1, <1>2, <1>6, OffTruth, TruthMove

LEMMA TruthBegin ==
  ASSUME StepsInv, TruthInv, NEW n \in Node, Launch(n) \/ Continue(n)
  PROVE  TruthInv'
  <1>0. TypeInv /\ AloneInv /\ RowTruth /\ at \in 0..Last /\ reads \subseteq 0..Last
    BY DEF StepsInv, TruthInv, TypeInv, TypeOK
  <1>1. /\ UNCHANGED <<form, at, child, reads>> /\ Changed(n) /\ parent'.status = "running"
        /\ \/ parent.status = "absent" /\ Started(loop'[n], 0, FALSE)
           \/ parent.status = "approve" /\ \E s \in reads : Started(loop'[n], s, TRUE)
    BY <1>0, BeginFacts
  <1>2. \A m \in Node : ~On(m)
    BY <1>0, <1>1 DEF AloneInv
  <1>3. PICK b : /\ Origin(b) /\ Reached(b) /\ loop'[n].step = b /\ loop'[n].pc = "start"
                 /\ loop'[n].passed = TRUE /\ (loop'[n].approved = FALSE => at = 0)
    <2>1. CASE parent.status = "absent" /\ Started(loop'[n], 0, FALSE)
      <3>1. Origin(0) /\ Reached(0) /\ at = 0
        BY <1>0, <2>1 DEF Origin, Reached, RowTruth
      <3>. QED
        BY <2>1, <3>1 DEF Started
    <2>2. CASE parent.status = "approve" /\ \E s \in reads : Started(loop'[n], s, TRUE)
      BY <1>0, <2>2 DEF Started, RowTruth
    <2>. QED
      BY <1>1, <2>1, <2>2
  <1>4. Fresh(n)'
    BY <1>1, <1>3 DEF Fresh, Origin, Reached, Met
  <1>5. LoopTruth(n)'
    BY <1>3, <1>4 DEF LoopTruth
  <1>6. RowTruth'
    <2>1. \A s \in reads' : Origin(s)'
      BY <1>0, <1>1 DEF RowTruth, Origin, Met
    <2>. QED
      BY <1>1, <2>1 DEF RowTruth
  <1>. QED
    BY <1>0, <1>1, <1>2, <1>5, <1>6, TruthMove

\* A step that leaves the loops alone, or stops one, ends no row of the multistep and undoes no step.
LEMMA TruthRow ==
  ASSUME TruthInv, UNCHANGED <<form, at, reads>>,
         \A n \in Node : loop'[n] = loop[n] \/ loop'[n] = Off,
         \A s \in Step : Passed(s) => Passed(s)',
         parent'.status = parent.status \/ parent'.status \notin {"absent", "approve", "success", "warning"}
  PROVE  TruthInv'
  <1>1. RowTruth'
    BY RowStays DEF TruthInv
  <1>2. ASSUME NEW n \in Node, loop'[n] = loop[n] PROVE LoopTruth(n)'
    <2>1. \A b : (Origin(b)' <=> Origin(b)) /\ (Reached(b)' <=> Reached(b))
      BY DEF Origin, Reached, Met
    <2>2. \A s \in Step : (Met(s)' <=> Met(s)) /\ (Tolerated(s)' <=> Tolerated(s))
      BY DEF Met, Tolerated
    <2>3. Began(n) => Began(n)'
      BY <1>2, <2>1, <2>2 DEF Began
    <2>4. Fresh(n) => Fresh(n)'
      BY <1>2 DEF Fresh, Origin, Reached, Met
    <2>. QED
      BY <1>2, <2>3, <2>4 DEF TruthInv, LoopTruth
  <1>. QED
    BY <1>1, <1>2, OffTruth DEF TruthInv

LEMMA TruthOthers ==
  ASSUME StepsInv, TruthInv, Others
  PROVE  TruthInv'
  <1>1. TypeInv /\ AloneInv /\ Children /\ parent \in Row
    BY DEF StepsInv, TypeInv, TypeOK
  <1>2. ASSUME UNCHANGED <<form, at, reads, child>>, \A n \in Node : loop'[n] = loop[n] \/ loop'[n] = Off,
               parent'.status = parent.status \/ parent'.status \notin {"absent", "approve", "success", "warning"}
        PROVE  TruthInv'
    BY <1>2, TruthRow DEF Passed
  <1>3. CASE ReadApproval
    <2>1. UNCHANGED <<form, parent, at, child, loop>> /\ reads' = reads \cup {at} /\ parent.status = "approve"
      BY <1>3 DEF ReadApproval, Rows, Jobs
    <2>2. RowTruth /\ Origin(at) /\ Reached(at)
      <3>1. at \in 0..Last
        BY <1>1 DEF TypeInv, TypeOK
      <3>. QED
        BY <2>1, <3>1 DEF TruthInv, RowTruth, Reached
    <2>3. \A s \in reads' : Origin(s) /\ Reached(s)
      BY <2>1, <2>2 DEF RowTruth
    <2>4. \A b : (Origin(b)' <=> Origin(b)) /\ (Reached(b)' <=> Reached(b))
      BY <2>1 DEF Origin, Reached, Met
    <2>5. Origin(at)' /\ \A s \in reads' : Origin(s)' /\ Reached(s)'
      BY <2>1, <2>2, <2>3, <2>4 DEF Origin, Met
    <2>6. RowTruth'
      BY <2>1, <2>5 DEF RowTruth
    <2>7. \A n \in Node : LoopTruth(n)'
      BY <2>1 DEF TruthInv, LoopTruth, Fresh, Began, Origin, Reached, Met, Tolerated, Passed
    <2>. QED
      BY <2>6, <2>7 DEF TruthInv
  <1>13. ASSUME NEW s \in Step, NEW m \in Node, EndParent(m, s) PROVE TruthInv'
    <2>1. UNCHANGED <<form, loop, at, reads, child>> /\ (parent' = parent \/ parent'.status = "failed")
      BY <1>1, <1>13, EndParentFacts
    <2>. QED
      BY <1>2, <2>1
  <1>14. ASSUME NEW s \in Step, EndLost(s) PROVE TruthInv'
    BY <1>1, <1>2, <1>14, EndLostFacts DEF Outer
  <1>4. CASE \E n \in Node : Lapse(n) \/ Heartbeat(n)
    BY <1>2, <1>4 DEF Lapse, Heartbeat, Rows, Jobs
  <1>5. ASSUME NEW n \in Node, Crash(n) PROVE TruthInv'
    <2>1. UNCHANGED <<form, parent, at, reads, child>> /\ Changed(n) /\ loop'[n] = Off
      BY <1>1, <1>5, LoopSet, OffType DEF Crash
    <2>2. \A m \in Node : loop'[m] = loop[m] \/ loop'[m] = Off
      BY <2>1 DEF Changed, OthersStay
    <2>. QED
      BY <1>2, <2>1, <2>2
  <1>6. CASE Reject
    <2>1. UNCHANGED <<form, loop, at, reads, child>> /\ parent'.status = "rejected"
      BY <1>1, <1>6 DEF Reject, Outside, RejectRow, TransitionStatus, Row, Jobs
    <2>. QED
      BY <1>2, <2>1
  <1>7. CASE Abort
    <2>1. UNCHANGED <<form, loop, at, reads, child>> /\ parent'.status = parent.status
      BY <1>1, <1>7, FlagFacts DEF Abort, Jobs
    <2>. QED
      BY <1>2, <2>1
  <1>8. CASE SweepQuiet
    <2>1. UNCHANGED <<form, loop, at, reads, child>> /\ (parent' = parent \/ parent' = AbandonedRow(parent))
      BY <1>8 DEF SweepQuiet, AbandonQuietRow, Jobs
    <2>2. AbandonedRow(parent).status = "abandoned"
      BY <1>1, AbandonedFacts
    <2>. QED
      BY <1>2, <2>1, <2>2
  <1>9. CASE AbortSteps \/ \E s \in Step : AbortStep(s)
    <2>1. UNCHANGED <<form, parent, at, loop, reads>> /\ \A s \in Step : Flagged(s)
      BY <1>1, <1>9, AbortStepsFacts, AbortStepFacts DEF Outer
    <2>. QED
      BY <2>1, TruthRow DEF Flagged, Passed
  <1>10. ASSUME NEW s \in Step, ChildEnds(s) PROVE TruthInv'
    <2>1. /\ UNCHANGED <<form, parent, at, loop, reads>> /\ OneChild(s)
          /\ child[s].status \notin {"running", "abandoned"} => child'[s] = child[s]
      BY <1>1, <1>10, ChildEndsFacts DEF Outer
    <2>2. \A t \in Step : Passed(t) => Passed(t)'
      BY <2>1 DEF OneChild, Passed
    <2>. QED
      BY <2>1, <2>2, TruthRow
  <1>11. ASSUME NEW s \in Step, NEW m \in Node, TakeOver(m, s) PROVE TruthInv'
    <2>1. UNCHANGED <<form, parent, at, loop, reads>> /\ OneChild(s) /\ child[s].status = "abandoned"
      BY <1>1, <1>11, TakeOverFacts DEF Outer
    <2>2. \A t \in Step : Passed(t) => Passed(t)'
      BY <2>1 DEF OneChild, Passed
    <2>. QED
      BY <2>1, <2>2, TruthRow
  <1>12. ASSUME NEW n \in Node, Restart(n) \/ SweepDead(n) PROVE TruthInv'
    <2>1. /\ UNCHANGED <<form, at, loop, reads>> /\ GivenUp(parent, parent')
          /\ \A s \in Step : GivenUp(child[s], child'[s])
      BY <1>1, <1>12, SweepFacts
    <2>2. /\ parent'.status = parent.status \/ parent'.status = "abandoned"
          /\ \A t \in Step : Passed(t) => Passed(t)'
      BY <2>1 DEF GivenUp, Passed
    <2>. QED
      BY <2>1, <2>2, TruthRow
  <1>. QED
    BY <1>3, <1>4, <1>5, <1>6, <1>7, <1>8, <1>9, <1>10, <1>11, <1>12, <1>13, <1>14 DEF Others

\* They hold in every reachable state, under every fault.
THEOREM TruthInvHolds == Spec => []TruthInv
  <1>1. Init => TruthInv
    <2>. SUFFICES ASSUME Init PROVE TruthInv
      OBVIOUS
    <2>1. /\ parent.status = "absent" /\ at = 0 /\ reads = {} /\ \A n \in Node : loop[n].pc = "off"
      BY DEF Init, AbsentRow, Off
    <2>. QED
      BY <2>1 DEF TruthInv, RowTruth, LoopTruth
  <1>2. StepsInv /\ TruthInv /\ [Next]_vars => TruthInv'
    <2>. SUFFICES ASSUME StepsInv, TruthInv, [Next]_vars PROVE TruthInv'
      OBVIOUS
    <2>1. CASE UNCHANGED vars
      BY <2>1, TruthRow DEF vars, Passed
    <2>2. CASE Next
      BY <2>2, NextCases, TruthQuiet, TruthHalts, TruthClaims, TruthLaunch, TruthEnd, TruthBegin, TruthOthers
    <2>. QED
      BY <2>1, <2>2
  <1>. QED
    BY <1>1, <1>2, StepsInvHolds, PTL DEF Spec

\* Only a loop launches steps.
LEMMA OthersLaunchNothing ==
  ASSUME StepsInv, Others
  PROVE  hist'.runs = hist.runs
  <1>1. TypeInv /\ AloneInv /\ Children
    BY DEF StepsInv
  <1>3. CASE ReadApproval \/ Reject \/ Abort \/ SweepQuiet \/ \E n \in Node : Crash(n) \/ Lapse(n) \/ Heartbeat(n)
    BY <1>3 DEF ReadApproval, Reject, Abort, SweepQuiet, Crash, Lapse, Heartbeat, Outside, Jobs
  <1>4. CASE AbortSteps \/ \E s \in Step : \/ AbortStep(s) \/ ChildEnds(s) \/ EndLost(s)
                                         \/ \E m \in Node : TakeOver(m, s) \/ EndParent(m, s)
    BY <1>1, <1>4, AbortStepsFacts, AbortStepFacts, ChildEndsFacts, EndLostFacts, TakeOverFacts, EndParentFacts
       DEF Noted
  <1>5. CASE \E n \in Node : Restart(n) \/ SweepDead(n)
    BY <1>1, <1>5, SweepFacts
  <1>. QED
    BY <1>3, <1>4, <1>5 DEF Others

\* What may run after a failed step: f is the failed one, s the one that is launched.
MayRun(f, s) ==
  form.steps[f].continue \/ \E a \in (f + 1)..s : form.steps[a].approval /\ form.steps[a].met

\* A step that is launched although it is not to run always comes after failed ones that allow it.
LEMMA LaunchAllowed ==
  ASSUME StepsInv, TruthInv, NEW n \in Node, loop[n].pc = "launch",
         NEW s \in Step, s = loop[n].step, ~form.steps[s].always, NEW f \in 1..(s - 1), Bad(f)
  PROVE  MayRun(f, s)
  <1>1. Began(n)
    BY DEF TruthInv, LoopTruth
  <1>2. PICK b \in 0..Last :
          /\ Origin(b) /\ b <= s
          /\ \A t \in Step : b <= t /\ t < s /\ Met(t) => Passed(t) \/ (loop[n].partial = TRUE /\ Tolerated(t))
    BY <1>1 DEF Began
  <1>3. f \in Step /\ f < s
    BY MultistepAssumption DEF Step
  <1>4. CASE b <= f
    <2>1. Met(f)
      <3>1. form.steps[f].met \in BOOLEAN
        BY <1>3, MultistepAssumption DEF StepsInv, TypeInv, TypeOK, StepForm
      <3>. QED
        BY <1>3, <3>1 DEF Bad, Met, StepsInv, Children, ChildOK
    <2>2. ~Passed(f)
      BY DEF Bad, Passed
    <2>. QED
      BY <1>2, <1>3, <1>4, <2>1, <2>2 DEF Tolerated, MayRun
  <1>5. CASE ~(b <= f)
    <2>1. b # 0 /\ b \in (f + 1)..s
      BY <1>2, <1>5, MultistepAssumption DEF Step
    <2>. QED
      BY <1>2, <2>1 DEF Origin, Met, MayRun
  <1>. QED
    BY <1>4, <1>5

LEMMA LaunchesAllowed ==
  ASSUME StepsInv, TruthInv, Next, NEW s \in Step, hist'.runs[s] > hist.runs[s], ~form.steps[s].always
  PROVE  \A f \in 1..(s - 1) : Bad(f) => MayRun(f, s)
  <1>1. TypeInv /\ \A t \in Step : hist.runs[t] \in Nat
    BY DEF StepsInv, TypeInv, TypeOK
  <1>2. hist'.runs # hist.runs
    BY <1>1
  <1>3. CASE \E n \in Node : LaunchStep(n)
    <2>1. PICK n \in Node : LaunchStep(n)
      BY <1>3
    <2>2. PICK i \in Step : i = loop[n].step
      BY <1>1, <2>1, LaunchStepFacts
    <2>3. \A t \in Step : hist'.runs[t] = IF t = loop[n].step THEN hist.runs[t] + 1 ELSE hist.runs[t]
      BY <1>1, <2>1, LaunchStepFacts
    <2>4. s = i /\ loop[n].pc = "launch"
      BY <1>1, <2>1, <2>2, <2>3 DEF LaunchStep, At
    <2>. QED
      BY <2>2, <2>4, LaunchAllowed
  <1>4. CASE \E n \in Node : Quiet(n) \/ Halts(n) \/ Claims(n) \/ Passes(n) \/ End(n) \/ Launch(n) \/ Continue(n)
    BY <1>1, <1>2, <1>4, QuietFacts, HaltFacts, ClaimFacts, PassAbortFacts, EndStepFacts, BeginFacts DEF Unwritten, Noted
  <1>5. CASE Others
    BY <1>2, <1>5, OthersLaunchNothing
  <1>. QED
    BY <1>3, <1>4, <1>5, NextCases DEF StepsInv

\* A step after a failed one is launched only if that allows it, the step is always to run, or
\* somebody approved in between: whatever the faults, and whoever took which job over.
THEOREM FailureStopsHolds == Spec => FailureStops
  <1>1. ASSUME StepsInv, TruthInv, [Next]_vars
        PROVE  [\A s \in Step : hist'.runs[s] > hist.runs[s] =>
                  \/ form.steps[s].always
                  \/ \A f \in 1..(s - 1) :
                       Bad(f) => form.steps[f].continue
                                 \/ \E a \in (f + 1)..s : form.steps[a].approval /\ form.steps[a].met]_vars
    BY <1>1, LaunchesAllowed DEF MayRun
  <1>. QED
    BY <1>1, StepsInvHolds, TruthInvHolds, PTL DEF Spec, FailureStops

-----------------------------------------------------------------------------
(* The end says what happened                                              *)

\* A nonempty set of steps has a last one.
LEMMA Greatest ==
  ASSUME NEW T, T \subseteq Step, T # {}
  PROVE  \E s \in T : \A t \in T : t <= s
  <1>. DEFINE Above(s) == {t \in T : t > s}
              Aboves == {Above(s) : s \in T}
  <1>0. Last \in Nat /\ T \subseteq 1..Last
    BY MultistepAssumption DEF Step
  <1>1. Aboves \subseteq FiniteSubsetsOf(1..Last)
    <2>1. IsFiniteSet(1..Last)
      BY <1>0, FS_Interval
    <2>2. Aboves \subseteq SUBSET (1..Last)
      BY <1>0
    <2>. QED
      BY <2>1, <2>2, FS_FiniteSubsetsOfFinite
  <1>2. Aboves # {}
    OBVIOUS
  <1>3. PICK A \in Aboves : \A B \in Aboves : <<B, A>> \notin StrictSubsetOrdering(1..Last)
    <2>. HIDE DEF Aboves
    <2>. QED
      BY <1>1, <1>2, FS_StrictSubsetOrderingWellFounded, WFMin
  <1>4. PICK s \in T : A = Above(s)
    BY <1>3
  <1>5. ASSUME NEW t \in T, t > s PROVE FALSE
    <2>1. /\ Above(t) \subseteq Above(s) /\ t \in Above(s) /\ t \notin Above(t)
      <3>1. T \subseteq Nat
        BY <1>0
      <3>2. \A x \in T : x > t => x > s
        BY <1>5, <3>1
      <3>3. ~(t > t)
        BY <3>1
      <3>4. Above(t) \subseteq Above(s)
        BY <3>2
      <3>5. t \in Above(s) /\ t \notin Above(t)
        BY <1>5, <3>3
      <3>. QED
        BY <3>4, <3>5
    <2>2. Above(t) \in SUBSET (1..Last) /\ Above(s) \in SUBSET (1..Last)
      BY <1>0
    <2>. HIDE DEF Above
    <2>3. <<Above(t), Above(s)>> \in StrictSubsetOrdering(1..Last)
      BY <2>1, <2>2 DEF StrictSubsetOrdering
    <2>. QED
      BY <1>3, <1>4, <2>3
  <1>. QED
    BY <1>0, <1>5

\* The run that ended began no later than the last step the row was claimed for that asks for approval.
LEMMA LastGateAfter ==
  ASSUME StepsInv, NEW b \in 0..Last, Origin(b), b <= at
  PROVE  LastGate \in Nat /\ LastGate >= 1 /\ b <= LastGate
  <1>. DEFINE gates == {s \in Step : form.steps[s].approval /\ form.steps[s].met /\ s <= at}
  <1>1. b \in gates \/ b = 0
    BY DEF Origin, Met
  <1>2. CASE gates = {}
    BY <1>1, <1>2 DEF LastGate
  <1>3. CASE gates # {}
    <2>1. gates \subseteq Step
      OBVIOUS
    <2>2. \E s \in gates : \A t \in gates : t <= s
      BY <1>3, <2>1, Greatest
    <2>3. LastGate = CHOOSE s \in gates : \A t \in gates : t <= s
      BY <1>3 DEF LastGate
    <2>. HIDE DEF gates
    <2>4. LastGate \in gates /\ \A t \in gates : t <= LastGate
      BY <2>2, <2>3
    <2>. QED
      BY <1>1, <2>1, <2>4, MultistepAssumption DEF Step
  <1>. QED
    BY <1>2, <1>3

\* A multistep that ended as success passed every step that was to run since its last approval; one
\* that ended with a warning tolerated those that did not, as long as no approval reads the row in one
\* hold and claims it in another.
THEOREM TruthfulParentHolds ==
  ASSUME "slow" \notin FaultKinds
  PROVE  Spec => []TruthfulParent
  <1>1. StepsInv /\ TruthInv => TruthfulParent
    <2>. SUFFICES ASSUME StepsInv, TruthInv, parent.status \in {"success", "warning"},
                         NEW s \in LastGate..Last, form.steps[s].met
                  PROVE  /\ parent.status = "success" => child[s].status \in {"success", "warning"}
                         /\ parent.status = "warning" =>
                               child[s].status \in {"success", "warning"} \/ form.steps[s].continue
      BY DEF TruthfulParent
    <2>1. PICK b \in 0..Last :
            /\ Origin(b) /\ b <= at
            /\ \A t \in Step : b <= t /\ Met(t) => Passed(t) \/ (parent.status = "warning" /\ Tolerated(t))
      BY DEF TruthInv, RowTruth, Whole, Reached
    <2>2. LastGate \in Nat /\ LastGate >= 1 /\ b <= LastGate
      BY <2>1, LastGateAfter
    <2>3. s \in Step /\ b <= s
      BY <2>2, MultistepAssumption DEF Step
    <2>4. Met(s)
      BY <2>3, MultistepAssumption DEF StepsInv, TypeInv, TypeOK, StepForm, Met
    <2>. QED
      BY <2>1, <2>3, <2>4 DEF Passed, Tolerated
  <1>. QED
    BY <1>1, StepsInvHolds, TruthInvHolds, PTL

-----------------------------------------------------------------------------
(* The promise is kept: every step is, for every job, a move it allows     *)

\* A job was launched when its row is there.
Counted == \A s \in Step : child[s].status = "absent" <=> hist.runs[s] = 0

\* What the promise allows of a job, by its status and how often it was launched.
Allowed(from, to, r, q) ==
  \/ to = from /\ q = r
  \/ from = "absent" /\ to = "running" /\ (q = r \/ (r = 0 /\ q = 1))
  \/ from = "running" /\ to = "approve" /\ r = 0 /\ q = r
  \/ from = "approve" /\ to \in {"running", "rejected"} /\ q = r
  \/ from = "running" /\ to = "abandoned" /\ q = r
  \/ from = "abandoned" /\ to = "running" /\ r = 1 /\ q = r
  \/ from \in {"running", "abandoned"} /\ to \in Outcome /\ q = r

LEMMA AllowedMove ==
  ASSUME NEW j \in 0..Last,
         LET r == IF j = 0 THEN 0 ELSE hist.runs[j]
             q == IF j = 0 THEN 0 ELSE hist'.runs[j]
         IN Allowed(StatusOf(j), StatusOf(j)', r, q)
  PROVE  Promise!JobMove(j)
  <1>. DEFINE a == StatusOf(j)
              b == StatusOf(j)'
              r == IF j = 0 THEN 0 ELSE hist.runs[j]
              q == IF j = 0 THEN 0 ELSE hist'.runs[j]
              told(s) == IF s \in Outcome THEN 1 ELSE 0
  <1>1. Allowed(a, b, r, q)
    OBVIOUS
  <1>2. /\ Promise!Quiet(j) <=> q = r /\ told(b) = told(a)
        /\ \A F, to : Promise!Moves(j, F, to) <=> PhaseOf(a) \in F /\ PhaseOf(b) = to
    BY DEF Promise!Quiet, Promise!Moves
  <1>3. /\ Promise!Rest(j) <=> PhaseOf(b) = PhaseOf(a) /\ Promise!Quiet(j)
        /\ Promise!Hold(j) <=> Promise!Moves(j, {"underway"}, "waiting") /\ r = 0 /\ Promise!Quiet(j)
        /\ Promise!Recover(j) <=> Promise!Moves(j, {"adrift"}, "underway") /\ r = 1 /\ Promise!Quiet(j)
        /\ Promise!Start(j) <=> Promise!Moves(j, {"none"}, "underway") /\ r = 0 /\ q = 1 /\ told(b) = told(a)
        /\ Promise!Finish(j) <=> /\ Promise!Moves(j, {"underway", "adrift"}, "ended")
                                 /\ told(a) = 0 /\ told(b) = 1 /\ q = r
    BY DEF Promise!Rest, Promise!Hold, Promise!Recover, Promise!Start, Promise!Finish
  <1>4. /\ PhaseOf("absent") = "none" /\ PhaseOf("running") = "underway" /\ PhaseOf("approve") = "waiting"
        /\ PhaseOf("abandoned") = "adrift" /\ PhaseOf("rejected") = "rejected"
        /\ \A s \in Outcome : PhaseOf(s) = "ended"
        /\ \A s \in {"absent", "running", "approve", "abandoned", "rejected"} : told(s) = 0
        /\ \A s \in Outcome : told(s) = 1
    BY DEF PhaseOf, Outcome
  <1>. HIDE DEF a, b, r, q, told
  <1>5. CASE a = b /\ q = r
    BY <1>2, <1>3, <1>5 DEF Promise!JobMove
  <1>6. CASE a = "absent" /\ b = "running" /\ q = r
    BY <1>2, <1>4, <1>6 DEF Promise!JobMove, Promise!Submit
  <1>7. CASE a = "absent" /\ b = "running" /\ r = 0 /\ q = 1
    BY <1>2, <1>3, <1>4, <1>7 DEF Promise!JobMove
  <1>8. CASE a = "running" /\ b = "approve" /\ r = 0 /\ q = r
    BY <1>2, <1>3, <1>4, <1>8 DEF Promise!JobMove
  <1>9. CASE a = "approve" /\ b \in {"running", "rejected"} /\ q = r
    BY <1>2, <1>4, <1>9 DEF Promise!JobMove, Promise!Approve, Promise!Reject
  <1>10. CASE a = "running" /\ b = "abandoned" /\ q = r
    BY <1>2, <1>4, <1>10 DEF Promise!JobMove, Promise!GiveUp
  <1>11. CASE a = "abandoned" /\ b = "running" /\ r = 1 /\ q = r
    BY <1>2, <1>3, <1>4, <1>11 DEF Promise!JobMove
  <1>12. CASE a \in {"running", "abandoned"} /\ b \in Outcome /\ q = r
    BY <1>2, <1>3, <1>4, <1>12 DEF Promise!JobMove
  <1>. QED
    BY <1>1, <1>5, <1>6, <1>7, <1>8, <1>9, <1>10, <1>11, <1>12 DEF Allowed

\* The moves of the multistep and of its steps together.
ParentMoves == Allowed(parent.status, parent'.status, 0, 0)
StepMoves(s) == Allowed(child[s].status, child'[s].status, hist.runs[s], hist'.runs[s])

LEMMA MovesAllowed ==
  ASSUME ParentMoves, \A s \in Step : StepMoves(s)
  PROVE  Promise!Next
  <1>1. ASSUME NEW j \in 0..Last PROVE Promise!JobMove(j)
    <2>1. CASE j = 0
      BY <2>1, AllowedMove DEF ParentMoves, StatusOf
    <2>2. CASE j # 0
      <3>1. j \in Step
        BY <2>2 DEF Step
      <3>. QED
        BY <2>2, <3>1, AllowedMove DEF StepMoves, StatusOf
    <2>. QED
      BY <2>1, <2>2
  <1>. QED
    BY <1>1 DEF Promise!Next

\* What rests, and what a sweep gives up.
LEMMA RestsAllowed == \A a, r : Allowed(a, a, r, r)
  BY DEF Allowed

LEMMA GivenUpAllowed ==
  ASSUME NEW r, NEW q, GivenUp(r, q), NEW k
  PROVE  Allowed(r.status, q.status, k, k)
  BY DEF GivenUp, Allowed

\* A step of a loop.
LEMMA LoopAllowed ==
  ASSUME StepsInv, RunInv, Counted, NEW n \in Node,
         Quiet(n) \/ Halts(n) \/ Claims(n) \/ LaunchStep(n) \/ Passes(n) \/ End(n) \/ Launch(n) \/ Continue(n)
  PROVE  Promise!Next /\ Counted'
  <1>1. TypeInv /\ AloneInv /\ parent \in Row /\ child \in [Step -> Row]
    BY DEF StepsInv, TypeInv, TypeOK
  <1>2. UNCHANGED child /\ hist'.runs = hist.runs => (\A s \in Step : StepMoves(s)) /\ Counted'
    BY RestsAllowed DEF StepMoves, Counted
  <1>3. CASE Quiet(n) \/ Claims(n)
    <2>1. UNCHANGED <<parent, child>> /\ hist'.runs = hist.runs
      BY <1>1, <1>3, QuietFacts, ClaimFacts DEF Unwritten, Noted
    <2>. QED
      BY <1>2, <2>1, RestsAllowed, MovesAllowed DEF ParentMoves
  <1>4. CASE Halts(n)
    <2>1. UNCHANGED <<child, hist>> /\ parent' = HoldRow(parent)
      BY <1>1, <1>4, HaltFacts
    <2>2. parent'.status = parent.status \/ (parent.status = "running" /\ parent'.status = "approve")
      BY <1>1, <2>1, HoldFacts
    <2>. QED
      BY <1>2, <2>1, <2>2, MovesAllowed DEF ParentMoves, Allowed
  <1>5. CASE LaunchStep(n)
    <2>1. PICK s \in Step : s = loop[n].step
      BY <1>1, <1>5, LaunchStepFacts
    <2>0. \A t \in Step : hist'.runs[t] = IF t = loop[n].step THEN hist.runs[t] + 1 ELSE hist.runs[t]
      BY <1>1, <1>5, LaunchStepFacts
    <2>2. UNCHANGED parent /\ OneChild(s) /\ child'[s].status = "running" /\ loop[n].pc = "launch"
      BY <1>1, <1>5, <2>1, LaunchStepFacts
    <2>3. hist.runs[s] = 0 /\ child[s].status = "absent" /\ hist'.runs[s] = 1
      BY <2>0, <2>1, <2>2 DEF RunInv, FreshFrom, Counted, Step
    <2>4. \A t \in Step : t # s => child'[t] = child[t] /\ hist'.runs[t] = hist.runs[t]
      BY <2>0, <2>1, <2>2 DEF OneChild
    <2>5. \A t \in Step : StepMoves(t)
      BY <2>2, <2>3, <2>4 DEF StepMoves, Allowed
    <2>6. Counted'
      BY <2>2, <2>3, <2>4 DEF Counted
    <2>. QED
      BY <2>2, <2>5, <2>6, RestsAllowed, MovesAllowed DEF ParentMoves
  <1>6. CASE Passes(n)
    <2>1. PICK s \in Step : /\ UNCHANGED parent /\ hist'.runs = hist.runs /\ OneChild(s)
                            /\ child'[s] = RequestAbortRow(child[s]) \/ child'[s] = child[s]
      BY <1>1, <1>6, PassAbortFacts DEF Noted
    <2>2. \A t \in Step : child'[t].status = child[t].status
      <3>0. child[s] \in Row
        BY <1>1
      <3>1. RequestAbortRow(child[s]).status = child[s].status
        BY <3>0, FlagFacts
      <3>2. child'[s].status = child[s].status
        BY <2>1, <3>1
      <3>. QED
        BY <2>1, <3>2 DEF OneChild
    <2>. QED
      BY <2>1, <2>2, RestsAllowed, MovesAllowed DEF ParentMoves, StepMoves, Counted
  <1>7. CASE End(n)
    <2>1. /\ UNCHANGED <<child, hist>> /\ EndsAs(loop[n]) \in Outcome
          /\ parent'.status = IF parent.status \in {"running", "abandoned"} THEN EndsAs(loop[n])
                              ELSE parent.status
      BY <1>1, <1>7, EndStepFacts DEF EndsAs, Outcome
    <2>. QED
      BY <1>2, <2>1, MovesAllowed DEF ParentMoves, Allowed
  <1>8. CASE Launch(n) \/ Continue(n)
    <2>1. UNCHANGED <<child, hist>> /\ parent.status \in {"absent", "approve"} /\ parent'.status = "running"
      BY <1>1, <1>8, BeginFacts
    <2>. QED
      BY <1>2, <2>1, MovesAllowed DEF ParentMoves, Allowed
  <1>. QED
    BY <1>3, <1>4, <1>5, <1>6, <1>7, <1>8

\* A request, a sweep, a process, or what becomes of a step's job elsewhere.
LEMMA OthersAllowed ==
  ASSUME StepsInv, RunInv, Counted, Others
  PROVE  Promise!Next /\ Counted'
  <1>1. TypeInv /\ AloneInv /\ Children /\ parent \in Row /\ child \in [Step -> Row]
    BY DEF StepsInv, TypeInv, TypeOK
  <1>2. ASSUME hist'.runs = hist.runs, UNCHANGED child, ParentMoves
        PROVE  Promise!Next /\ Counted'
    <2>1. \A s \in Step : StepMoves(s)
      BY <1>2, RestsAllowed DEF StepMoves
    <2>. QED
      BY <1>2, <2>1, MovesAllowed DEF Counted
  <1>3. CASE ReadApproval \/ \E n \in Node : Crash(n) \/ Lapse(n) \/ Heartbeat(n)
    <2>1. UNCHANGED <<parent, child>>
      BY <1>3 DEF ReadApproval, Crash, Lapse, Heartbeat, Rows, Jobs
    <2>2. hist'.runs = hist.runs
      BY <1>1, <1>3 DEF ReadApproval, Crash, Lapse, Heartbeat, TypeInv, TypeOK
    <2>. QED
      BY <1>2, <2>1, <2>2, RestsAllowed DEF ParentMoves
  <1>4. CASE Reject
    <2>1. UNCHANGED <<child, hist>> /\ parent.status = "approve" /\ parent'.status = "rejected"
      BY <1>1, <1>4 DEF Reject, Outside, RejectRow, TransitionStatus, Row, Jobs
    <2>. QED
      BY <1>2, <2>1 DEF ParentMoves, Allowed
  <1>5. CASE Abort
    <2>1. UNCHANGED <<child, hist>> /\ parent'.status = parent.status
      BY <1>1, <1>5, FlagFacts DEF Abort, Jobs
    <2>. QED
      BY <1>2, <2>1, RestsAllowed DEF ParentMoves
  <1>6. CASE SweepQuiet
    <2>1. UNCHANGED <<child, hist>> /\ parent.status = "running" /\ (parent' = parent \/ parent' = AbandonedRow(parent))
      BY <1>6 DEF SweepQuiet, AbandonQuietRow, Jobs
    <2>2. AbandonedRow(parent).status = "abandoned"
      BY <1>1, AbandonedFacts
    <2>. QED
      BY <1>2, <2>1, <2>2 DEF ParentMoves, Allowed
  <1>7. CASE AbortSteps \/ \E s \in Step : AbortStep(s)
    <2>1. UNCHANGED parent /\ hist'.runs = hist.runs /\ \A s \in Step : Flagged(s)
      BY <1>1, <1>7, AbortStepsFacts, AbortStepFacts DEF Outer, Noted
    <2>2. \A s \in Step : child'[s].status = child[s].status
      BY <2>1 DEF Flagged
    <2>. QED
      BY <2>1, <2>2, RestsAllowed, MovesAllowed DEF ParentMoves, StepMoves, Counted
  <1>8. ASSUME NEW s \in Step, UNCHANGED <<parent, hist>>, OneChild(s),
               StepMoves(s), child[s].status # "absent", child'[s].status # "absent"
        PROVE  Promise!Next /\ Counted'
    <2>1. \A t \in Step : StepMoves(t)
      BY <1>8, RestsAllowed DEF StepMoves, OneChild
    <2>2. Counted'
      BY <1>8 DEF Counted, OneChild
    <2>. QED
      BY <1>8, <2>1, <2>2, RestsAllowed, MovesAllowed DEF ParentMoves
  <1>9. ASSUME NEW s \in Step, ChildEnds(s) PROVE Promise!Next /\ Counted'
    <2>1. UNCHANGED <<parent, hist>> /\ OneChild(s)
      BY <1>1, <1>9, ChildEndsFacts DEF Outer
    <2>2. CASE child[s].status \notin {"running", "abandoned"}
      <3>1. \A t \in Step : child'[t] = child[t]
        BY <1>1, <1>9, <2>1, <2>2, ChildEndsFacts DEF OneChild
      <3>. QED
        BY <2>1, <3>1, RestsAllowed, MovesAllowed DEF ParentMoves, StepMoves, Counted
    <2>3. CASE child[s].status \in {"running", "abandoned"}
      <3>1. child'[s].status \in Outcome /\ child'[s].status # "absent"
        BY <1>1, <1>9, <2>3, ChildEndsFacts DEF Outcome
      <3>2. StepMoves(s)
        BY <2>1, <2>3, <3>1 DEF StepMoves, Allowed
      <3>. QED
        BY <1>8, <2>1, <2>3, <3>1, <3>2
    <2>. QED
      BY <2>2, <2>3
  <1>10. ASSUME NEW s \in Step, NEW m \in Node, TakeOver(m, s) PROVE Promise!Next /\ Counted'
    <2>1. /\ UNCHANGED <<parent, hist>> /\ OneChild(s)
          /\ child[s].status = "abandoned" /\ child'[s].status = "running"
      BY <1>1, <1>10, TakeOverFacts DEF Outer
    <2>2. hist.runs[s] = 1
      <3>1. hist.runs[s] \in Nat /\ hist.runs[s] <= 1 /\ hist.runs[s] # 0
        BY <1>1, <2>1 DEF TypeInv, TypeOK, RunInv, Counted
      <3>. QED
        BY <3>1
    <2>3. StepMoves(s)
      BY <2>1, <2>2 DEF StepMoves, Allowed
    <2>. QED
      BY <1>8, <2>1, <2>3
  <1>12. ASSUME NEW s \in Step, EndLost(s) PROVE Promise!Next /\ Counted'
    <2>1. UNCHANGED <<parent, child>> /\ hist'.runs = hist.runs
      BY <1>1, <1>12, EndLostFacts DEF Outer, Noted
    <2>. QED
      BY <1>2, <2>1, RestsAllowed DEF ParentMoves
  <1>13. ASSUME NEW s \in Step, NEW m \in Node, EndParent(m, s) PROVE Promise!Next /\ Counted'
    <2>1. /\ UNCHANGED <<child, hist>>
          /\ \/ parent' = parent
             \/ parent.status \in {"running", "abandoned"} /\ parent'.status = "failed"
      BY <1>1, <1>13, EndParentFacts
    <2>2. ParentMoves
      BY <2>1 DEF ParentMoves, Allowed, Outcome
    <2>. QED
      BY <1>2, <2>1, <2>2
  <1>11. ASSUME NEW n \in Node, Restart(n) \/ SweepDead(n) PROVE Promise!Next /\ Counted'
    <2>1. UNCHANGED hist /\ GivenUp(parent, parent') /\ \A s \in Step : GivenUp(child[s], child'[s])
      BY <1>1, <1>11, SweepFacts
    <2>2. ParentMoves /\ \A s \in Step : StepMoves(s)
      BY <2>1, GivenUpAllowed DEF ParentMoves, StepMoves
    <2>3. Counted'
      BY <2>1 DEF GivenUp, Counted
    <2>. QED
      BY <2>2, <2>3, MovesAllowed
  <1>. QED
    BY <1>3, <1>4, <1>5, <1>6, <1>7, <1>9, <1>10, <1>11, <1>12, <1>13 DEF Others

\* A multistep and its steps do what a job promises: they are launched once and only from where that may
\* be, wait, are approved, given up and followed again, and end once; what ended or was rejected stays
\* so. For any form, any number of nodes and faults, as long as no approval is slow.
THEOREM MultistepKeptHolds ==
  ASSUME "slow" \notin FaultKinds
  PROVE  Spec => MultistepKept
  <1>1. Init => Promise!Init /\ Counted
    <2>. SUFFICES ASSUME Init PROVE Promise!Init /\ Counted
      OBVIOUS
    <2>1. /\ parent.status = "absent"
          /\ \A s \in Step : child[s].status = "absent" /\ hist.runs[s] = 0
      BY DEF Init, AbsentRow
    <2>2. \A j \in 0..Last : StatusOf(j) = "absent" /\ (j # 0 => hist.runs[j] = 0)
      BY <2>1 DEF StatusOf, Step
    <2>3. PhaseOf("absent") = "none" /\ "absent" \notin Outcome
      BY DEF PhaseOf, Outcome
    <2>4. Promise!Init
      BY <2>2, <2>3 DEF Promise!Init
    <2>. QED
      BY <2>1, <2>4 DEF Counted
  <1>2. StepsInv /\ RunInv /\ Counted /\ [Next]_vars => [Promise!Next]_(Promise!vars) /\ Counted'
    <2>. SUFFICES ASSUME StepsInv, RunInv, Counted, [Next]_vars
                  PROVE  [Promise!Next]_(Promise!vars) /\ Counted'
      OBVIOUS
    <2>1. CASE UNCHANGED vars
      BY <2>1 DEF vars, Promise!vars, StatusOf, Counted
    <2>2. CASE Next
      BY <2>2, NextCases, LoopAllowed, OthersAllowed
    <2>. QED
      BY <2>1, <2>2
  <1>. QED
    BY <1>1, <1>2, StepsInvHolds, RunInvHolds, PTL DEF Spec, MultistepKept, Promise!Spec
=============================================================================
