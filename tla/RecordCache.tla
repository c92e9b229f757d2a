---------------------------- MODULE RecordCache ----------------------------
(***************************************************************************)
(* A record of a cached model (repositories, schedules, credentials, ...)  *)
(* in the database, the copies its processes keep, and the change counter  *)
(* that tells them to drop those copies.                                   *)
(*                                                                         *)
(* A write changes the row, drops the writer's own copy when its statement *)
(* is answered, and bumps the counter without waiting for it. Every process *)
(* reads the counters every few seconds. A read that misses the cache asks *)
(* the database and stores what it gets, whatever was dropped meanwhile.   *)
(***************************************************************************)
EXTENDS Naturals, CachePromise

CONSTANTS MaxChanges,    \* how often the row changes
          MaxRestores,   \* dumps of before 7 that are restored: they bring old counters back
          FaultKinds,    \* the faults of this run: a subset of AllFaults
          MaxFaults      \* how many of them happen

AllFaults == {"bump",       \* the statement of a bump fails
              "poll",       \* the counters cannot be read
              "restore",    \* a restore fails, or its process stops, between the rows and the bump
              "restart"}    \* a process starts again, its cache empty

ASSUME CacheAssumption ==
  /\ MaxChanges \in Nat /\ MaxRestores \in Nat /\ MaxFaults \in Nat
  /\ Nothing \notin Nat /\ FaultKinds \subseteq AllFaults

VARIABLES
  clock,     \* the milliseconds the counter was set to last, never set back
  reader,    \* [Proc -> what a read that missed the cache has fetched]
  polled,    \* [Proc -> the counter a poll has read and not compared yet]
  restores, faults

vars == <<version, counter, clock, cache, reader, writer, bumps, restoring, seen, polled, late, blind, lost, restores, faults>>

Version == 0..MaxChanges
Counter == 0..(MaxChanges + MaxRestores)

TypeOK ==
  /\ version \in Version /\ counter \in Counter /\ clock \in Counter
  /\ cache \in [Proc -> Version \cup {Nothing}] /\ reader \in [Proc -> Version \cup {Nothing}]
  /\ writer \in [Proc -> {"idle", "wrote"}] /\ bumps \in Counter /\ restoring \in BOOLEAN
  /\ seen \in [Proc -> Counter \cup {Nothing}] /\ polled \in [Proc -> Counter \cup {Nothing}]
  /\ late \subseteq Proc /\ blind \subseteq Proc /\ lost \in BOOLEAN
  /\ restores \in 0..MaxRestores /\ faults \in 0..MaxFaults

Everywhere(x) == [p \in Proc |-> x]

Init ==
  /\ version = 0 /\ counter = 0 /\ clock = 0
  /\ cache = Everywhere(Nothing) /\ reader = Everywhere(Nothing)
  /\ writer = Everywhere("idle") /\ bumps = 0 /\ restoring = FALSE
  /\ seen = Everywhere(Nothing) /\ polled = Everywhere(Nothing)
  /\ late = {} /\ blind = {} /\ lost = FALSE
  /\ restores = 0 /\ faults = 0

Fault(kind) == kind \in FaultKinds /\ faults < MaxFaults /\ faults' = faults + 1

Counters == UNCHANGED <<counter, clock, bumps, restoring, lost>>
Caches == UNCHANGED <<cache, reader, late, blind>>
Polls == UNCHANGED <<seen, polled>>
Bounds == UNCHANGED <<restores, faults>>

-----------------------------------------------------------------------------
(* findById, findByName                                                    *)

\* the cache has no copy: the database is asked
Fetch(p) ==
  /\ cache[p] = Nothing /\ reader[p] = Nothing
  /\ reader' = [reader EXCEPT ![p] = version]
  /\ late' = late \ {p}
  /\ blind' = IF seen[p] = Nothing THEN blind \cup {p} ELSE blind \ {p}
  /\ UNCHANGED <<version, cache, writer>> /\ Counters /\ Polls /\ Bounds

Fill(p) ==
  /\ reader[p] # Nothing
  /\ cache' = [cache EXCEPT ![p] = reader[p]]
  /\ reader' = [reader EXCEPT ![p] = Nothing]
  /\ UNCHANGED <<version, writer, late, blind>> /\ Counters /\ Polls /\ Bounds

\* the hour a copy lives (cacheTTL)
Expire(p) ==
  /\ cache[p] # Nothing
  /\ cache' = [cache EXCEPT ![p] = Nothing]
  /\ UNCHANGED <<version, reader, writer, late, blind>> /\ Counters /\ Polls /\ Bounds

-----------------------------------------------------------------------------
(* update, delete and the raw writes that evict (writeState)               *)

Write(p) ==
  /\ writer[p] = "idle" /\ version < MaxChanges
  /\ version' = version + 1
  /\ writer' = [writer EXCEPT ![p] = "wrote"]
  /\ Counters /\ Caches /\ Polls /\ Bounds

\* flushLocal : a read in flight is not stopped
Drop(p) ==
  /\ cache' = [cache EXCEPT ![p] = Nothing]
  /\ late' = IF reader[p] = Nothing THEN late ELSE late \cup {p}
  /\ UNCHANGED <<reader, blind>>

Answered(p) ==
  /\ writer[p] = "wrote"
  /\ writer' = [writer EXCEPT ![p] = "idle"]
  /\ bumps' = bumps + 1
  /\ Drop(p)
  /\ UNCHANGED <<version, counter, clock, restoring, lost>> /\ Polls /\ Bounds

\* bump : one more than before and never behind the clock, on whatever was restored
NextCounter_One(c, t) == c + 1
NextCounter(c, t) == IF c + 1 > t THEN c + 1 ELSE t

Bump ==
  /\ bumps > 0
  /\ bumps' = bumps - 1
  /\ \/ /\ clock' = clock + 1
        /\ counter' = NextCounter(counter, clock')
        /\ UNCHANGED lost /\ Bounds
     \/ /\ lost' = TRUE /\ Fault("bump")
        /\ UNCHANGED <<counter, clock, restores>>
  /\ UNCHANGED <<version, writer, restoring>> /\ Caches /\ Polls

\* a dump of before 7 brings its rows and its counter back
Restore ==
  /\ ~restoring /\ restores < MaxRestores /\ version < MaxChanges
  /\ restores' = restores + 1
  /\ version' = version + 1
  /\ \E c \in 0..counter : counter' = c
  /\ restoring' = TRUE
  /\ UNCHANGED <<clock, writer, bumps, lost, faults>> /\ Caches /\ Polls

\* the schema patched and the files back, it is announced as a change ; a failure on the way announces nothing
RestoreEnds ==
  /\ restoring
  /\ restoring' = FALSE
  /\ \/ bumps' = bumps + 1 /\ UNCHANGED lost /\ Bounds
     \/ lost' = TRUE /\ Fault("restore") /\ UNCHANGED <<bumps, restores>>
  /\ UNCHANGED <<version, counter, clock, writer>> /\ Caches /\ Polls

-----------------------------------------------------------------------------
(* pollEpochs                                                              *)

Poll(p) ==
  /\ polled[p] = Nothing /\ seen[p] # counter
  /\ \/ polled' = [polled EXCEPT ![p] = counter] /\ UNCHANGED faults
     \/ Fault("poll") /\ UNCHANGED polled
  /\ UNCHANGED <<version, writer, seen, restores>> /\ Counters /\ Caches

\* the first one only records where the counter stands
Changed(p) == seen[p] # Nothing /\ seen[p] # polled[p]

Compare(p) ==
  /\ polled[p] # Nothing
  /\ seen' = [seen EXCEPT ![p] = polled[p]]
  /\ polled' = [polled EXCEPT ![p] = Nothing]
  /\ IF Changed(p) THEN Drop(p) ELSE Caches
  /\ UNCHANGED <<version, writer>> /\ Counters /\ Bounds

\* a process stops, before its bump perhaps, and starts again
Restart(p) ==
  /\ Fault("restart")
  /\ writer' = [writer EXCEPT ![p] = "idle"] /\ lost' = (lost \/ writer[p] = "wrote")
  /\ cache' = [cache EXCEPT ![p] = Nothing] /\ reader' = [reader EXCEPT ![p] = Nothing]
  /\ late' = late \ {p} /\ blind' = blind \ {p}
  /\ seen' = [seen EXCEPT ![p] = Nothing] /\ polled' = [polled EXCEPT ![p] = Nothing]
  /\ UNCHANGED <<version, counter, clock, bumps, restoring, restores>>

-----------------------------------------------------------------------------
Next ==
  \/ \E p \in Proc : \/ Fetch(p) \/ Fill(p) \/ Expire(p)
                     \/ Write(p) \/ Answered(p)
                     \/ Poll(p) \/ Compare(p) \/ Restart(p)
  \/ Bump \/ Restore \/ RestoreEnds

Spec == Init /\ [][Next]_vars

=============================================================================
