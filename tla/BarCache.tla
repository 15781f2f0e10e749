------------------------------ MODULE BarCache ------------------------------
(***************************************************************************)
(* The local bar cache and the processes that fill it: class BarCache      *)
(* (data/cache.py), file_lock (filelock.py), the incremental syncs         *)
(* (data/sync.py) and the bucketing they derive with (data/resample.py).   *)
(*                                                                         *)
(* One symbol with a fetched pair and the pair derived from it.  Time is   *)
(* counted in source periods: the bar labelled `clock` is still forming,   *)
(* and a derived bucket is BucketSize source periods.  A source bar says   *)
(* only whether it was copied forming or final, and a derived bar says     *)
(* which source bars it was made of.                                       *)
(***************************************************************************)
EXTENDS Frames

CONSTANTS
  Procs,       \* the processes: scan loop, backfill, proving farm
  Horizon,     \* bound: the last source period
  FirstClock,  \* the period the first sync may run in
  Lookbacks,   \* how far back a caller's window may start
  BucketSize,  \* source periods in a derived bucket
  None         \* Python's None; also nobody holding a lock

ASSUME CacheAssumption ==
  /\ Horizon \in Nat /\ FirstClock \in 0..Horizon
  /\ Lookbacks \subseteq Nat
  /\ BucketSize \in Nat \ {0}
  /\ None \notin Procs

VARIABLES
  clock,      \* the period in progress
  delivered,  \* the periods the provider serves a bar for
  onTime,     \* those it served from their own period on
  disk,       \* the parquet of each pair
  lock,       \* who holds each pair's lock
  pc,         \* where each process is
  pair,       \* the pair it is working on
  window,     \* the range its fetch asks for
  batch,      \* the bars it is about to upsert
  file        \* what it has read, then the file it is about to replace with

providerVars == <<clock, delivered, onTime>>
procVars == <<pc, pair, window, batch, file>>
vars == <<providerVars, disk, lock, procVars>>

Pairs == {"source", "derived"}
Periods == 0..Horizon
Forming == 1
Final == 2
NoWindow == [from |-> 0, to |-> 0]

BucketOf(l) == (l \div BucketSize) * BucketSize

-----------------------------------------------------------------------------
(* The provider (external): what it serves, and when. *)

Tick ==
  /\ clock < Horizon
  /\ clock' = clock + 1
  /\ \/ delivered' = delivered \cup {clock + 1} /\ onTime' = onTime \cup {clock + 1}
     \/ UNCHANGED <<delivered, onTime>>
  /\ UNCHANGED <<disk, lock, procVars>>

LateArrival(l) ==
  /\ l < clock /\ l \notin delivered
  /\ delivered' = delivered \cup {l}
  /\ UNCHANGED <<clock, onTime, disk, lock, procVars>>

Served(from, to) ==
  [l \in {m \in delivered : from <= m /\ m <= to} |-> IF l = clock THEN Forming ELSE Final]

-----------------------------------------------------------------------------
(* Deciding what to write. *)

\* A caller asks for a window ending now; a full sync for all there is.
StartOf(lookback) == IF lookback < clock THEN clock - lookback ELSE 0

\* Mutants: the last bar is taken for closed; the requested start wins.
ResumeAfterLast(start, last) == {last + 1}
ResumeAtStart(start, last) == {start}

\* A warm pair resumes at its last bar; in a batch, at the earliest of the
\* batch's last bars.
ResumePoints(start, last) == 0..last

\* fetch_incremental, up to the request: what the cache covers is read unlocked.
PlanFetch(p) ==
  /\ pc[p] = "idle"
  /\ LET held == disk["source"]
         FetchStarts(start) ==
           IF held # NoBars /\ start >= FirstLabel(held)
             THEN ResumePoints(start, LastLabel(held)) ELSE {start}
     IN  \E from \in {0} \cup UNION {FetchStarts(StartOf(w)) : w \in Lookbacks} :
           window' = [window EXCEPT ![p] = [from |-> from, to |-> clock]]
  /\ pc' = [pc EXCEPT ![p] = "planned"]
  /\ pair' = [pair EXCEPT ![p] = "source"]
  /\ UNCHANGED <<providerVars, disk, lock, batch, file>>

\* The provider answers, whenever it does.
Fetch(p) ==
  /\ pc[p] = "planned"
  /\ batch' = [batch EXCEPT ![p] = Served(window[p].from, window[p].to)]
  /\ window' = [window EXCEPT ![p] = NoWindow]
  /\ pc' = [pc EXCEPT ![p] = "waiting"]
  /\ UNCHANGED <<providerVars, disk, lock, pair, file>>

\* The buckets whose final period the source has reached.
CoveredBuckets(src) ==
  {b \in {BucketOf(l) : l \in DOMAIN src} : b + BucketSize <= LastLabel(src) + 1}

Resample(src) ==
  [b \in CoveredBuckets(src) |-> [l \in {m \in DOMAIN src : BucketOf(m) = b} |-> src[l]]]

\* derive_incremental reads the source, then what is derived so far.
LoadSource(p) ==
  /\ pc[p] = "idle"
  /\ disk["source"] # NoBars
  /\ file' = [file EXCEPT ![p] = disk["source"]]
  /\ pc' = [pc EXCEPT ![p] = "loaded"]
  /\ pair' = [pair EXCEPT ![p] = "derived"]
  /\ UNCHANGED <<providerVars, disk, lock, window, batch>>

\* Mutant: the trailing window starts past the last derived bucket.
PastLastBucket(src, held) ==
  IF held # NoBars /\ FirstLabel(src) >= FirstLabel(held)
    THEN From(src, LastLabel(held) + BucketSize) ELSE src

TrailingWindow(src, held) ==
  IF held # NoBars /\ FirstLabel(src) >= FirstLabel(held)
    THEN From(src, LastLabel(held)) ELSE src

Derive(p) ==
  /\ pc[p] = "loaded"
  /\ \E full \in BOOLEAN :
       LET src == IF full THEN file[p] ELSE TrailingWindow(file[p], disk["derived"])
       IN  IF src = NoBars \/ Resample(src) = NoBars
             THEN /\ pc' = [pc EXCEPT ![p] = "idle"]
                  /\ UNCHANGED batch
             ELSE /\ pc' = [pc EXCEPT ![p] = "waiting"]
                  /\ batch' = [batch EXCEPT ![p] = Resample(src)]
  /\ file' = [file EXCEPT ![p] = NoBars]
  /\ UNCHANGED <<providerVars, disk, lock, pair, window>>

-----------------------------------------------------------------------------
(* upsert: lock, read, merge, replace, unlock. *)

\* Mutant: the lock excludes nobody.
AcquireAnyway(p) ==
  /\ pc[p] = "waiting"
  /\ lock' = [lock EXCEPT ![pair[p]] = p]
  /\ pc' = [pc EXCEPT ![p] = "holding"]
  /\ UNCHANGED <<providerVars, disk, pair, window, batch, file>>

Acquire(p) ==
  /\ pc[p] = "waiting"
  /\ lock[pair[p]] = None
  /\ lock' = [lock EXCEPT ![pair[p]] = p]
  /\ pc' = [pc EXCEPT ![p] = "holding"]
  /\ UNCHANGED <<providerVars, disk, pair, window, batch, file>>

\* Mutant: a waiter polls with no deadline.
WaitForever(p) == pc[p] = "waiting" /\ lock[pair[p]] # None /\ UNCHANGED vars

\* The lock is still taken at the deadline: raised, nothing written.
TimeOut(p) ==
  /\ pc[p] = "waiting"
  /\ lock[pair[p]] # None
  /\ pc' = [pc EXCEPT ![p] = "idle"]
  /\ batch' = [batch EXCEPT ![p] = NoBars]
  /\ UNCHANGED <<providerVars, disk, lock, pair, window, file>>

\* The temporary file, beside the target.
WriteTmp(p) ==
  /\ pc[p] = "holding"
  /\ file' = [file EXCEPT ![p] = MergeFrames(disk[pair[p]], batch[p])]
  /\ pc' = [pc EXCEPT ![p] = "merged"]
  /\ UNCHANGED <<providerVars, disk, lock, pair, window, batch>>

Replace(p) ==
  /\ pc[p] = "merged"
  /\ disk' = [disk EXCEPT ![pair[p]] = file[p]]
  /\ file' = [file EXCEPT ![p] = NoBars]
  /\ batch' = [batch EXCEPT ![p] = NoBars]
  /\ pc' = [pc EXCEPT ![p] = "written"]
  /\ UNCHANGED <<providerVars, lock, pair, window>>

\* Mutant: the lock is a file that outlives its writer.
LockFileStays(p) == lock

\* Closing the descriptor frees whatever lock the process holds.
Free(p) == [q \in Pairs |-> IF lock[q] = p THEN None ELSE lock[q]]

Release(p) ==
  /\ pc[p] = "written"
  /\ lock' = Free(p)
  /\ pc' = [pc EXCEPT ![p] = "idle"]
  /\ UNCHANGED <<providerVars, disk, pair, window, batch, file>>

\* The provider fails, the write fails, or the process dies: the kernel or the
\* finally clauses give the lock back, and the temporary file is nobody's.
Abandon(p) ==
  /\ pc[p] # "idle"
  /\ lock' = Free(p)
  /\ pc' = [pc EXCEPT ![p] = "idle"]
  /\ window' = [window EXCEPT ![p] = NoWindow]
  /\ batch' = [batch EXCEPT ![p] = NoBars]
  /\ file' = [file EXCEPT ![p] = NoBars]
  /\ UNCHANGED <<providerVars, disk, pair>>

-----------------------------------------------------------------------------

Init ==
  /\ clock = FirstClock
  /\ onTime \in SUBSET (0..FirstClock)
  /\ delivered = onTime
  /\ disk = [q \in Pairs |-> NoBars]
  /\ lock = [q \in Pairs |-> None]
  /\ pc = [p \in Procs |-> "idle"]
  /\ pair = [p \in Procs |-> "source"]
  /\ window = [p \in Procs |-> NoWindow]
  /\ batch = [p \in Procs |-> NoBars]
  /\ file = [p \in Procs |-> NoBars]

\* What a process does next, once it has started.
Advance(p) ==
  \/ Fetch(p) \/ Derive(p) \/ Acquire(p) \/ TimeOut(p)
  \/ WriteTmp(p) \/ Replace(p) \/ Release(p)

Next ==
  \/ Tick
  \/ \E l \in Periods : LateArrival(l)
  \/ \E p \in Procs : PlanFetch(p) \/ LoadSource(p) \/ Advance(p) \/ Abandon(p)

Spec == Init /\ [][Next]_vars

\* A process that has started a sync keeps running it.
FairSpec == Spec /\ \A p \in Procs : WF_vars(Advance(p))
=============================================================================
