--------------------------- MODULE WorkflowPromise ---------------------------
(***************************************************************************)
(* What AnsibleForms promises about a workflow, whatever its processes do: *)
(* it is driven once; a node starts once, after the links that lead to it, *)
(* gets one job at most and keeps its end once that is written; one is     *)
(* ruled out for good only for links that can not fire any more, or by an  *)
(* abort; and a workflow that reads success left no node running and no    *)
(* failure unhandled.                                                      *)
(*                                                                         *)
(* One pass of the loop decides about many nodes, so a step moves every    *)
(* node by at most one of its own moves.                                   *)
(***************************************************************************)
EXTENDS WorkflowDefs

VARIABLES graph,  \* the workflow
          drive,  \* whether its loop is there: "before", "on" or "over"
          node,   \* [Id -> State]
          jobs,   \* the nodes that have a job
          well,   \* whether the workflow reads success
          writing, \* the nodes whose end is set, and being written
          amended \* those whose end could not be written, and became a failure

vars == <<graph, drive, node, jobs, well, writing, amended>>

Init ==
  /\ graph \in Graphs
  /\ drive = "before" /\ jobs = {} /\ well = FALSE /\ writing = {} /\ amended = {}
  /\ node = [n \in Id |-> [status |-> "pending", doNotRun |-> FALSE]]

\* the links into a node lead to it: all of them, or one when they need not converge
Reached(g, state, n) ==
  LET links == ParentsOf(g, n)
      fires(l) == Fires(l[2], state[l[1]])
  IN IF n \in g.converge THEN \A l \in links : fires(l) ELSE links = {} \/ \E l \in links : fires(l)

\* they never will: all of them fail for good, or one when they must converge
Blocked(g, state, n) ==
  LET links == ParentsOf(g, n)
      fails(l) == Fails(l[2], state[l[1]])
  IN links # {} /\ IF n \in g.converge THEN \E l \in links : fails(l) ELSE \A l \in links : fails(l)

\* they lead to it by what the nodes before it are, or were: one of them ended and became a failure
LedTo(n) == Reached(graph, node, n) \/ \E l \in ParentsOf(graph, n) : l[1] \in amended

Start(n) ==
  /\ drive = "on" /\ Undecided(node[n]) /\ LedTo(n)
  /\ node'[n] = [node[n] EXCEPT !.status = "running"]

\* decided with the nodes before it, in the same pass
RuleOut(n) ==
  /\ drive = "on" /\ Undecided(node[n]) /\ Blocked(graph, node', n)
  /\ node'[n] = [node[n] EXCEPT !.doNotRun = TRUE]

\* by its own run, which goes on when the loop does not
Finish(n) ==
  /\ node[n].status = "running"
  /\ \E status \in FINISHED : node'[n] = [node[n] EXCEPT !.status = status]

Rest(n) == node'[n] = node[n]

NodeMove(n) == Start(n) \/ RuleOut(n) \/ Finish(n) \/ Rest(n)

Drive ==
  /\ node' \in [Id -> State] /\ \A n \in Id : NodeMove(n)
  /\ writing' \subseteq writing \cup {n \in Id : node[n].status = "running" /\ node'[n].status \in FINISHED}
  /\ UNCHANGED <<graph, drive, jobs, well, amended>>

\* an end that can not be written is a failure, and not of a workflow that reads success
Amend(n) ==
  /\ n \in writing /\ node[n].status \in FINISHED /\ ~well
  /\ node' = [node EXCEPT ![n].status = "failed"]
  /\ amended' = amended \cup {n}
  /\ UNCHANGED <<graph, drive, jobs, well, writing>>

Run(n) ==
  /\ n \in Id \ jobs /\ graph.type[n] = "job" /\ n \notin graph.unmet
  /\ node[n].status = "running" /\ ~node[n].doNotRun
  /\ jobs' = jobs \cup {n}
  /\ UNCHANGED <<graph, drive, node, well, writing, amended>>

Launch == drive = "before" /\ drive' = "on" /\ UNCHANGED <<graph, node, jobs, well, writing, amended>>

\* every node that began is over, and what failed was handled
EndsWell == (\A n \in Id : node[n].status # "running") /\ ~WorkflowFailed(graph, node)

\* the loop ends or is gone
Leave ==
  /\ drive = "on" /\ drive' = "over"
  /\ well' = well \/ (well' = TRUE /\ EndsWell)
  /\ writing' \subseteq writing
  /\ UNCHANGED <<graph, node, jobs, amended>>

\* an abort rules out what never started
Abort ==
  /\ drive = "on" /\ drive' = "over"
  /\ node' = [n \in Id |-> [node[n] EXCEPT !.doNotRun = @ \/ node[n].status = "pending"]]
  /\ UNCHANGED <<graph, jobs, well, writing, amended>>

Next == Launch \/ Drive \/ (\E n \in Id : Amend(n) \/ Run(n)) \/ Leave \/ Abort

Spec == Init /\ [][Next]_vars

-----------------------------------------------------------------------------
(* What a user concludes from it                                           *)

\* A node that began was led to, and is so whatever came after - but an end it began after that became a
\* failure; a job is one of a node that began and is to have one; what was ruled out never began; success
\* is said of a workflow that is over and ended well.
Ordered ==
  /\ \A n \in Id : node[n].status # "pending" => ~node[n].doNotRun /\ LedTo(n)
  /\ \A n \in jobs : graph.type[n] = "job" /\ n \notin graph.unmet /\ node[n].status # "pending"
  /\ well => drive = "over" /\ EndsWell
=============================================================================
