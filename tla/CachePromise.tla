---------------------------- MODULE CachePromise ----------------------------
(***************************************************************************)
(* What a process may serve of a record its model caches: the state that   *)
(* says which copies it has heard are old, and the promise itself.         *)
(* RecordCache says how that state comes about.                            *)
(***************************************************************************)
EXTENDS Naturals

CONSTANTS Proc,          \* the processes on one database
          Nothing        \* no copy, no value, no counter read yet

VARIABLES
  version,   \* the version of the row
  counter,   \* its change counter in cache_epochs
  cache,     \* [Proc -> the version it has a copy of]
  writer,    \* [Proc -> "idle", or "wrote": its statement is done and not answered]
  bumps,     \* bumps under way
  restoring, \* a restore has replaced the row and not announced it
  seen,      \* [Proc -> the counter it saw last]
  late,      \* for the properties: the processes whose read in flight, or copy, is older than a drop
  blind,     \* for the properties: those whose read, or copy, is older than their first poll
  lost       \* for the properties: a bump was lost, or never asked for by a restore that stopped

\* the process has yet to hear of a change
ToHear(p) ==
  \/ \E q \in Proc : writer[q] = "wrote"
  \/ bumps > 0 \/ restoring
  \/ seen[p] # counter

\* A process that has heard of every change serves the row as it is, but for a read that was under
\* way when it dropped its copies, a copy older than its first poll, and a bump that was lost, that of
\* a restore that stopped part way included (CrudModel.flushLocal, bump and pollEpochs of lib/epochs.js,
\* Backup.restore).
ServesTheRow ==
  \A p \in Proc : cache[p] # Nothing /\ cache[p] # version => ToHear(p) \/ p \in late \cup blind \/ lost
=============================================================================
