----------------------------- MODULE JobPromise -----------------------------
(***************************************************************************)
(* What AnsibleForms promises about a job, whatever its processes do: it   *)
(* runs once, only after its approval when it needs one; it may be given   *)
(* up and taken over any number of times; its end is told once and stays.  *)
(*                                                                         *)
(* One statement of a sweep moves many jobs, so a step moves every job by  *)
(* at most one of its own moves.                                           *)
(***************************************************************************)
EXTENDS Naturals

CONSTANT Job

VARIABLES phase,   \* [Job -> Phase] where the job is
          runs,    \* [Job -> Nat] how often it was launched on its runner
          told     \* [Job -> Nat] how often its end was told

vars == <<phase, runs, told>>

Phase == {"none", "waiting", "underway", "adrift", "rejected", "ended", "gone"}

TypeOK ==
  phase \in [Job -> Phase] /\ runs \in [Job -> Nat] /\ told \in [Job -> Nat]

\* a job of before 7 runs already
Init ==
  /\ phase \in [Job -> {"none", "underway"}]
  /\ runs = [j \in Job |-> IF phase[j] = "underway" THEN 1 ELSE 0]
  /\ told = [j \in Job |-> 0]

Moves(j, from, to) == phase[j] \in from /\ phase'[j] = to
Quiet(j) == runs'[j] = runs[j] /\ told'[j] = told[j]

Submit(j)  == Moves(j, {"none"}, "underway") /\ Quiet(j)
Hold(j)    == Moves(j, {"underway"}, "waiting") /\ runs[j] = 0 /\ Quiet(j)
Approve(j) == Moves(j, {"waiting"}, "underway") /\ Quiet(j)
Reject(j)  == Moves(j, {"waiting"}, "rejected") /\ Quiet(j)
GiveUp(j)  == Moves(j, {"underway"}, "adrift") /\ Quiet(j)
Recover(j) == Moves(j, {"adrift"}, "underway") /\ runs[j] = 1 /\ Quiet(j)
Remove(j)  == Moves(j, Phase \ {"none", "gone"}, "gone") /\ Quiet(j)

\* created and on its runner in one step, as far as who launches it can tell
Start(j) == Moves(j, {"none"}, "underway") /\ runs[j] = 0 /\ runs'[j] = 1 /\ told'[j] = told[j]

\* the runner gets the job: also when the app gave it up, or deleted it, a moment before
Run(j) ==
  /\ phase[j] \in {"underway", "adrift", "gone"} /\ phase'[j] = phase[j]
  /\ runs[j] = 0 /\ runs'[j] = 1 /\ told'[j] = told[j]

Finish(j) ==
  /\ Moves(j, {"underway", "adrift"}, "ended")
  /\ told[j] = 0 /\ told'[j] = 1 /\ runs'[j] = runs[j]

Rest(j) == phase'[j] = phase[j] /\ Quiet(j)

JobMove(j) ==
  \/ Rest(j)
  \/ Submit(j) \/ Hold(j) \/ Approve(j) \/ Reject(j) \/ GiveUp(j) \/ Recover(j) \/ Remove(j)
  \/ Start(j) \/ Run(j) \/ Finish(j)

Next == \A j \in Job : JobMove(j)

Spec == Init /\ [][Next]_vars

=============================================================================
