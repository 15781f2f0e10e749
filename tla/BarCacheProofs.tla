--------------------------- MODULE BarCacheProofs ---------------------------
(***************************************************************************)
(* The cache's lock, merge and replace implement the atomic store, for any *)
(* number of processes, any periods and any interleaving, failures and     *)
(* crashes included.                                                       *)
(***************************************************************************)
EXTENDS BarCacheProperties, FiniteLemmas

Writing == {"holding", "merged", "written"}
Phases == {"idle", "planned", "loaded", "waiting", "holding", "merged", "written"}

\* Every variable the protocol reads is a function of its processes or pairs.
Shaped ==
  /\ pc \in [Procs -> Phases]
  /\ pair \in [Procs -> Pairs]
  /\ lock \in [Pairs -> Procs \cup {None}]
  /\ disk = [q \in Pairs |-> disk[q]]
  /\ batch = [p \in Procs |-> batch[p]]
  /\ file = [p \in Procs |-> file[p]]

\* A process writes a pair exactly while it holds the pair's lock, and the file
\* it is about to replace the pair with is the merge of what the pair holds now.
Exclusive ==
  /\ \A p \in Procs : pc[p] \in Writing => lock[pair[p]] = p
  /\ LockHasAWriter
  /\ \A p \in Procs : pc[p] = "merged" => file[p] = MergeFrames(disk[pair[p]], batch[p])

CInv == Shaped /\ Exclusive

\* A cache nobody has touched satisfies the invariant.
LEMMA CacheInit == Init => CInv
  BY CacheAssumption DEF Init, CInv, Shaped, Exclusive, LockHasAWriter, Writing, Phases, Pairs

\* The steps of the provider keep it.
LEMMA ProviderStep ==
  ASSUME CInv, Tick \/ (\E l \in Periods : LateArrival(l)) \/ UNCHANGED vars
  PROVE  CInv' /\ UNCHANGED <<disk, lock, pc, pair, batch, file>>
<1>1. UNCHANGED <<disk, lock, pc, pair, batch, file>>
  BY DEF Tick, LateArrival, vars, procVars
<1> QED BY <1>1 DEF CInv, Shaped, Exclusive, LockHasAWriter

\* The steps before the lock touch no pair and no lock.
LEMMA PrepareStep ==
  ASSUME CInv, NEW p \in Procs,
         PlanFetch(p) \/ LoadSource(p) \/ Fetch(p) \/ Derive(p) \/ TimeOut(p)
  PROVE  CInv'
<1>1. /\ UNCHANGED <<disk, lock>>
      /\ pc[p] \notin Writing /\ pc' = [pc EXCEPT ![p] = pc'[p]] /\ pc'[p] \in Phases \ Writing
      /\ pair' = [pair EXCEPT ![p] = pair'[p]] /\ pair'[p] \in Pairs
      /\ batch' = [batch EXCEPT ![p] = batch'[p]]
      /\ file' = [file EXCEPT ![p] = file'[p]]
  BY DEF CInv, Shaped, PlanFetch, LoadSource, Fetch, Derive, TimeOut, Writing, Phases, Pairs
<1>2. Shaped'
  BY <1>1 DEF CInv, Shaped
<1>3. \A q \in Procs \ {p} : pc'[q] = pc[q] /\ pair'[q] = pair[q] /\ batch'[q] = batch[q] /\ file'[q] = file[q]
  BY <1>1 DEF CInv, Shaped
<1>4. LockHasAWriter'
  BY <1>1, <1>3, CacheAssumption DEF CInv, Exclusive, LockHasAWriter, Writing, Shaped
<1>5. Exclusive'
  BY <1>1, <1>3, <1>4 DEF CInv, Exclusive, Writing
<1> QED BY <1>2, <1>5 DEF CInv

\* Taking the lock gives the pair one writer.
LEMMA AcquireStep == ASSUME CInv, NEW p \in Procs, Acquire(p) PROVE CInv'
<1>1. /\ pc[p] = "waiting" /\ pc' = [pc EXCEPT ![p] = "holding"]
      /\ lock[pair[p]] = None /\ lock' = [lock EXCEPT ![pair[p]] = p]
      /\ UNCHANGED <<disk, pair, batch, file>>
  BY DEF Acquire
<1>2. Shaped'
  BY <1>1 DEF CInv, Shaped, Phases
<1>3. \A q \in Procs : pc[q] \in Writing => pair[q] # pair[p]
  BY <1>1, CacheAssumption DEF CInv, Exclusive
<1>4. Exclusive'
  BY <1>1, <1>3, CacheAssumption, SMTT(30) DEF CInv, Shaped, Exclusive, LockHasAWriter, Writing
<1> QED BY <1>2, <1>4 DEF CInv

\* The merge is computed from what the pair holds under the lock.
LEMMA WriteTmpStep == ASSUME CInv, NEW p \in Procs, WriteTmp(p) PROVE CInv'
<1>1. /\ pc[p] = "holding" /\ pc' = [pc EXCEPT ![p] = "merged"]
      /\ file' = [file EXCEPT ![p] = MergeFrames(disk[pair[p]], batch[p])]
      /\ UNCHANGED <<disk, lock, pair, batch>>
  BY DEF WriteTmp
<1>2. Shaped'
  BY <1>1 DEF CInv, Shaped, Phases
<1>3. Exclusive'
  BY <1>1 DEF CInv, Shaped, Exclusive, LockHasAWriter, Writing
<1> QED BY <1>2, <1>3 DEF CInv

\* Replacing one pair leaves every other writer's merge current.
LEMMA ReplaceStep == ASSUME CInv, NEW p \in Procs, Replace(p) PROVE CInv'
<1>1. /\ pc[p] = "merged" /\ pc' = [pc EXCEPT ![p] = "written"]
      /\ disk' = [disk EXCEPT ![pair[p]] = file[p]]
      /\ file' = [file EXCEPT ![p] = NoBars] /\ batch' = [batch EXCEPT ![p] = NoBars]
      /\ UNCHANGED <<lock, pair>>
  BY DEF Replace
<1>2. Shaped'
  BY <1>1 DEF CInv, Shaped, Phases
<1>3. \A q \in Procs \ {p} : pc[q] \in Writing => pair[q] # pair[p]
  BY <1>1 DEF CInv, Exclusive, Writing
<1>4. \A q \in Procs \ {p} : pc[q] \in Writing => disk'[pair[q]] = disk[pair[q]]
  BY <1>1, <1>3 DEF CInv, Shaped
<1>5. LockHasAWriter' /\ \A q \in Procs : pc'[q] \in Writing => lock'[pair'[q]] = q
  BY <1>1 DEF CInv, Shaped, Exclusive, LockHasAWriter, Writing
<1>6. \A q \in Procs \ {p} : pc'[q] = pc[q] /\ pair'[q] = pair[q] /\ batch'[q] = batch[q] /\ file'[q] = file[q]
  BY <1>1 DEF CInv, Shaped
<1>7. pc'[p] # "merged"
  BY <1>1 DEF CInv, Shaped
<1>8. \A q \in Procs : pc'[q] = "merged" => file'[q] = MergeFrames(disk'[pair'[q]], batch'[q])
  BY <1>4, <1>6, <1>7 DEF CInv, Exclusive, Writing
<1> QED BY <1>2, <1>5, <1>8 DEF CInv, Exclusive

\* Giving the lock back, after a write or a failure, frees no other writer's.
LEMMA FreeStep == ASSUME CInv, NEW p \in Procs, Release(p) \/ Abandon(p) PROVE CInv'
<1>1. /\ pc' = [pc EXCEPT ![p] = "idle"] /\ lock' = Free(p)
      /\ UNCHANGED <<disk, pair>>
      /\ batch' = [batch EXCEPT ![p] = batch'[p]] /\ file' = [file EXCEPT ![p] = file'[p]]
  BY DEF Release, Abandon, CInv, Shaped
<1>2. Shaped'
  BY <1>1, CacheAssumption DEF CInv, Shaped, Phases, Free
<1>3. \A q \in Procs \ {p} : pc'[q] = pc[q] /\ batch'[q] = batch[q] /\ file'[q] = file[q]
  BY <1>1 DEF CInv, Shaped
<1>4. \A r \in Pairs : lock'[r] = IF lock[r] = p THEN None ELSE lock[r]
  BY <1>1 DEF Free
<1>5. pc'[p] \notin Writing
  BY <1>1 DEF CInv, Shaped, Writing
<1>6. LockHasAWriter'
  BY <1>1, <1>3, <1>4, CacheAssumption DEF CInv, Shaped, Exclusive, LockHasAWriter
<1>7. \A q \in Procs : pc'[q] \in Writing => lock'[pair'[q]] = q
  BY <1>1, <1>3, <1>4, <1>5 DEF CInv, Shaped, Exclusive
<1>8. \A q \in Procs : pc'[q] = "merged" => file'[q] = MergeFrames(disk'[pair'[q]], batch'[q])
  BY <1>1, <1>3, <1>5 DEF CInv, Exclusive, Writing
<1> QED BY <1>2, <1>6, <1>7, <1>8 DEF CInv, Exclusive

\* Every step keeps the invariant.
LEMMA CacheNext == CInv /\ [Next]_vars => CInv'
  BY ProviderStep, PrepareStep, AcquireStep, WriteTmpStep, ReplaceStep, FreeStep
     DEF Next, Advance

\* No lock is ever held by a process that is not writing its pair.
THEOREM LocksComeBack == Spec => []LockHasAWriter
<1>1. CInv => LockHasAWriter
  BY DEF CInv, Exclusive
<1> QED BY <1>1, CacheInit, CacheNext, PTL DEF Spec

-----------------------------------------------------------------------------

\* A step of one process that changes no pair: it asks, drops, or stutters.
LEMMA StoreQuiet ==
  ASSUME NEW p \in Procs, UNCHANGED disk,
         \A q \in Procs \ {p} : AskOf(q)' = AskOf(q),
         \/ AskOf(p)' = AskOf(p) \/ AskOf(p) = {} \/ AskOf(p)' = {}
  PROVE  [Store!Next]_(Store!vars)
<1>1. CASE AskOf(p)' = AskOf(p)
  <2>1. \A q \in Procs : AskOf(q)' = AskOf(q)  BY <1>1
  <2> QED BY <2>1 DEF Store!vars, AskOf
<1>2. CASE AskOf(p) = {}
  <2>1. Store!Ask(p)  BY <1>2 DEF Store!Ask, AskOf
  <2> QED BY <2>1 DEF Store!Next
<1>3. CASE AskOf(p)' = {}
  <2>1. Store!Drop(p)  BY <1>3 DEF Store!Drop, AskOf
  <2> QED BY <2>1 DEF Store!Next
<1> QED BY <1>1, <1>2, <1>3

\* Replacing the file is the instant at which the store merges the batch.
LEMMA StoreCommits == ASSUME CInv, NEW p \in Procs, Replace(p) PROVE Store!Commit(p)
<1>1. /\ pc[p] = "merged" /\ pc' = [pc EXCEPT ![p] = "written"]
      /\ disk' = [disk EXCEPT ![pair[p]] = file[p]]
      /\ batch' = [batch EXCEPT ![p] = NoBars] /\ pair' = pair
  BY DEF Replace
<1>2. file[p] = MergeFrames(disk[pair[p]], batch[p])
  BY <1>1 DEF CInv, Exclusive
<1>3. AskOf(p) = {[pair |-> pair[p], batch |-> batch[p]]} /\ AskOf(p)' = {}
  BY <1>1 DEF AskOf, CInv, Shaped
<1>4. \A q \in Procs \ {p} : AskOf(q)' = AskOf(q)
  BY <1>1 DEF AskOf, CInv, Shaped
<1>5. PICK r \in AskOf(p) : r.pair = pair[p] /\ r.batch = batch[p]
  BY <1>3
<1>6. disk' = [disk EXCEPT ![r.pair] = MergeFrames(@, r.batch)]
  BY <1>1, <1>2, <1>5
<1> QED BY <1>3, <1>4, <1>5, <1>6 DEF Store!Commit, AskOf, MergeFrames, Store!MergeFrames

\* Every step of a process is a step of the store, or none.
LEMMA StoreProcessStep ==
  ASSUME CInv, NEW p \in Procs,
         PlanFetch(p) \/ LoadSource(p) \/ Advance(p) \/ Abandon(p)
  PROVE  [Store!Next]_(Store!vars)
<1>1. CASE Replace(p)
  BY <1>1, StoreCommits DEF Store!Next
<1>2. CASE ~Replace(p)
  <2>1. UNCHANGED disk
    BY <1>2 DEF PlanFetch, LoadSource, Advance, Abandon, Fetch, Derive, Acquire, TimeOut, WriteTmp, Release
  <2>2. /\ pc' = [pc EXCEPT ![p] = pc'[p]]
        /\ pair' = [pair EXCEPT ![p] = pair'[p]]
        /\ batch' = [batch EXCEPT ![p] = batch'[p]]
    BY <1>2 DEF CInv, Shaped, PlanFetch, LoadSource, Advance, Abandon, Fetch, Derive, Acquire,
                TimeOut, WriteTmp, Release
  <2>3. \A q \in Procs \ {p} : AskOf(q)' = AskOf(q)
    BY <2>2 DEF AskOf, CInv, Shaped
  <2>4. AskOf(p)' = AskOf(p) \/ AskOf(p) = {} \/ AskOf(p)' = {}
    BY <1>2 DEF CInv, Shaped, AskOf, PlanFetch, LoadSource, Advance, Abandon, Fetch, Derive, Acquire,
                TimeOut, WriteTmp, Release
  <2> QED BY <2>1, <2>3, <2>4, StoreQuiet
<1> QED BY <1>1, <1>2

\* Locking, merging and replacing implement the atomic store.
THEOREM StoreImplemented == Spec => ImplementsStore
<1>1. Init => Store!Init
  BY DEF Init, Store!Init, NoBars, Store!NoBars, AskOf
<1>2. CInv /\ [Next]_vars => [Store!Next]_(Store!vars)
  <2>1. ASSUME CInv, Tick \/ (\E l \in Periods : LateArrival(l)) \/ UNCHANGED vars
        PROVE  [Store!Next]_(Store!vars)
    BY <2>1, ProviderStep DEF Store!vars, AskOf
  <2> QED BY <2>1, StoreProcessStep DEF Next
<1> QED BY <1>1, <1>2, CacheInit, CacheNext, PTL DEF Spec, ImplementsStore, Store!Spec

-----------------------------------------------------------------------------
(* One syncing process: the fetched pair has no hole, only its last bar is   *)
(* forming, and the derived pair follows it.                                 *)

\* The cache as one process at a time fills it.
OneWriter == \A p, q \in Procs : p = q

SourceLabels == DOMAIN disk["source"]
DerivedLabels == DOMAIN disk["derived"]
Asking == {"waiting", "holding", "merged"}

\* The derived bar of a bucket of the source src.
BarOver(src, b) == [l \in {m \in DOMAIN src : BucketOf(m) = b} |-> src[l]]

ProviderOK ==
  clock \in Nat /\ onTime \subseteq delivered /\ delivered \subseteq 0..clock

SourceOK ==
  /\ disk["source"] \in [SourceLabels -> {Forming, Final}]
  /\ SourceLabels \subseteq delivered
  /\ OnlyLastIsForming
  /\ NoHole

\* Every derived bucket still holds a source bar and is covered by the source.
DerivedOK ==
  /\ disk["derived"] = [b \in DerivedLabels |-> disk["derived"][b]]
  /\ DerivedLabels \subseteq CoveredBuckets(disk["source"])
  /\ \A b \in DerivedLabels : DOMAIN disk["derived"][b] \subseteq SourceLabels
  /\ InnerBucketsCurrent

\* A request reaches back to the last cached bar and forward past it.
Planned(p) ==
  pc[p] = "planned" =>
    /\ pair[p] = "source"
    /\ window[p].from \in Nat /\ window[p].to \in 0..clock
    /\ SourceLabels # {} =>
         window[p].from <= LastLabel(disk["source"]) /\ LastLabel(disk["source"]) <= window[p].to

\* The bars the provider answered a request for from..to with: no on-time bar
\* missing, none but the last forming, and the last cached bar once more.
Answers(bars, from, to) ==
  /\ bars \in [DOMAIN bars -> {Forming, Final}]
  /\ DOMAIN bars \subseteq delivered \cap (from..to)
  /\ onTime \cap (from..to) \subseteq DOMAIN bars
  /\ \A l \in DOMAIN bars : bars[l] = Forming => l = to
  /\ SourceLabels # {} => LastLabel(disk["source"]) \in DOMAIN bars

Fetched(p) ==
  pc[p] \in Asking /\ pair[p] = "source" =>
    \E from \in Nat, to \in 0..clock : Answers(batch[p], from, to)

Loaded(p) == pc[p] = "loaded" => pair[p] = "derived" /\ file[p] = disk["source"]

\* Buckets derived from what the source holds: the last derived one again, and
\* of the others all, or only what lies past those that are left as they are.
Derives(bars) ==
  /\ bars = [b \in DOMAIN bars |-> BarOver(disk["source"], b)]
  /\ DOMAIN bars \subseteq CoveredBuckets(disk["source"])
  /\ DerivedLabels # {} => LastLabel(disk["derived"]) \in DOMAIN bars
  /\ \A b \in DerivedLabels \ DOMAIN bars : \A c \in DOMAIN bars : b < c

Deriving(p) == pc[p] \in Asking /\ pair[p] = "derived" => Derives(batch[p])

WorkOK(p) == Planned(p) /\ Fetched(p) /\ Loaded(p) /\ Deriving(p)

SerialInv ==
  /\ ProviderOK /\ SourceOK /\ DerivedOK
  /\ window = [p \in Procs |-> window[p]]
  /\ \A p \in Procs : WorkOK(p)

\* A label lies in its bucket.
LEMMA BucketHolds ==
  ASSUME NEW l \in Nat
  PROVE  BucketOf(l) \in Nat /\ BucketOf(l) <= l /\ l < BucketOf(l) + BucketSize
<1>1. BucketSize \in Nat /\ BucketSize > 0
  BY CacheAssumption
<1> QED BY <1>1 DEF BucketOf

\* A label of an earlier bucket is before the later bucket's first.
LEMMA BucketsApart ==
  ASSUME NEW l \in Nat, NEW m \in Nat, BucketOf(l) < BucketOf(m)
  PROVE  l < BucketOf(m)
<1>1. BucketSize \in Nat /\ BucketSize > 0
  BY CacheAssumption
<1> DEFINE i == l \div BucketSize
           j == m \div BucketSize
<1>2. i \in Nat /\ j \in Nat /\ BucketOf(l) = i * BucketSize /\ BucketOf(m) = j * BucketSize
  BY <1>1 DEF BucketOf
<1>3. l < i * BucketSize + BucketSize
  BY <1>1, <1>2, BucketHolds
<1> HIDE DEF i, j
<1>4. i < j
  BY <1>1, <1>2
<1>5. PICK d \in Nat : j = (i + 1) + d
  <2>1. j - (i + 1) \in Nat /\ j = (i + 1) + (j - (i + 1))
    BY <1>2, <1>4
  <2> QED BY <2>1
<1>6. j * BucketSize = (i * BucketSize + BucketSize) + d * BucketSize /\ d * BucketSize \in Nat
  BY <1>1, <1>2, <1>5
<1>7. i * BucketSize \in Nat /\ j * BucketSize \in Nat
  BY <1>1, <1>2
<1> QED BY <1>1, <1>2, <1>3, <1>6, <1>7

\* A frame with a bar has a first and a last one.
LEMMA Ends ==
  ASSUME NEW f, NEW c \in Nat, DOMAIN f \subseteq 0..c, DOMAIN f # {}
  PROVE  /\ FirstLabel(f) \in DOMAIN f /\ \A l \in DOMAIN f : FirstLabel(f) <= l
         /\ LastLabel(f) \in DOMAIN f /\ \A l \in DOMAIN f : l <= LastLabel(f)
         /\ FirstLabel(f) \in Nat /\ LastLabel(f) \in Nat
<1>1. IsFiniteSet(DOMAIN f) /\ DOMAIN f \subseteq Nat
  <2>1. IsFiniteSet(0..c)
    BY FS_Interval, 0 \in Int, c \in Int
  <2> QED BY <2>1, FS_Subset
<1>2. FirstLabel(f) \in DOMAIN f /\ \A l \in DOMAIN f : FirstLabel(f) <= l
  BY <1>1, NatMin DEF FirstLabel
<1>3. LastLabel(f) \in DOMAIN f /\ \A l \in DOMAIN f : l <= LastLabel(f)
  BY <1>1, NatMax DEF LastLabel
<1> QED BY <1>1, <1>2, <1>3

\* The frame with no bars is the one with no labels.
LEMMA NoLabels ==
  ASSUME NEW f, f = [l \in DOMAIN f |-> f[l]]
  PROVE  f = NoBars <=> DOMAIN f = {}
  BY DEF NoBars

\* Where the last label of a frame is known, it is that one.
LEMMA LastIs ==
  ASSUME NEW f, NEW c \in Nat, DOMAIN f \subseteq 0..c, NEW l \in DOMAIN f, \A m \in DOMAIN f : m <= l
  PROVE  LastLabel(f) = l
<1>1. LastLabel(f) \in DOMAIN f /\ l <= LastLabel(f) /\ LastLabel(f) \in Nat
  BY Ends
<1> QED BY <1>1

\* A covered bucket is the bucket of a source bar and ends by the last one.
LEMMA CoveredIs ==
  ASSUME NEW src, NEW c \in Nat, DOMAIN src \subseteq 0..c, NEW b \in CoveredBuckets(src)
  PROVE  /\ b \in 0..c /\ b + BucketSize <= LastLabel(src) + 1
         /\ LastLabel(src) \in Nat /\ LastLabel(src) \in DOMAIN src
         /\ \E l \in DOMAIN src : BucketOf(l) = b /\ b <= l /\ l < b + BucketSize
<1>1. PICK l \in DOMAIN src : BucketOf(l) = b
  BY DEF CoveredBuckets
<1>2. b + BucketSize <= LastLabel(src) + 1
  BY DEF CoveredBuckets
<1>3. l \in Nat /\ b \in Nat /\ b <= l /\ l < b + BucketSize
  BY <1>1, BucketHolds
<1> QED BY <1>1, <1>2, <1>3, Ends

\* A cache nobody has touched satisfies the invariant.
LEMMA SerialInit == Init => SerialInv
<1> SUFFICES ASSUME Init PROVE SerialInv
  OBVIOUS
<1>1. /\ disk["source"] = NoBars /\ disk["derived"] = NoBars
      /\ DOMAIN NoBars = {} /\ NoBars = [l \in {} |-> NoBars[l]]
      /\ clock = FirstClock /\ onTime \subseteq 0..FirstClock /\ delivered = onTime
      /\ window = [p \in Procs |-> NoWindow] /\ \A p \in Procs : pc[p] = "idle"
  BY DEF Init, Pairs, NoBars
<1>2. ProviderOK
  BY <1>1, CacheAssumption DEF ProviderOK
<1>3. SourceOK
  BY <1>1 DEF SourceOK, SourceLabels, OnlyLastIsForming, NoHole
<1>4. DerivedOK
  BY <1>1 DEF DerivedOK, DerivedLabels, InnerBucketsCurrent
<1>5. \A p \in Procs : WorkOK(p)
  BY <1>1 DEF WorkOK, Planned, Fetched, Loaded, Deriving, Asking
<1> QED BY <1>1, <1>2, <1>3, <1>4, <1>5 DEF SerialInv

\* The source's labels lie between its first and its last, and up to the clock.
LEMMA SourceEnds ==
  ASSUME SerialInv
  PROVE  /\ clock \in Nat /\ SourceLabels \subseteq 0..clock /\ DOMAIN disk["source"] = SourceLabels
         /\ disk["source"] = [l \in SourceLabels |-> disk["source"][l]]
         /\ SourceLabels # {} =>
              /\ FirstLabel(disk["source"]) \in SourceLabels
              /\ \A l \in SourceLabels : FirstLabel(disk["source"]) <= l
              /\ LastLabel(disk["source"]) \in SourceLabels
              /\ \A l \in SourceLabels : l <= LastLabel(disk["source"])
              /\ FirstLabel(disk["source"]) \in Nat /\ LastLabel(disk["source"]) \in Nat
<1>1. clock \in Nat /\ SourceLabels \subseteq 0..clock
  BY DEF SerialInv, ProviderOK, SourceOK
<1> QED BY <1>1, Ends DEF SourceLabels, SerialInv, SourceOK

\* So do the derived ones.
LEMMA DerivedEnds ==
  ASSUME SerialInv
  PROVE  /\ DerivedLabels \subseteq 0..clock /\ DOMAIN disk["derived"] = DerivedLabels
         /\ DerivedLabels # {} =>
              /\ FirstLabel(disk["derived"]) \in DerivedLabels
              /\ \A l \in DerivedLabels : FirstLabel(disk["derived"]) <= l
              /\ LastLabel(disk["derived"]) \in DerivedLabels
              /\ \A l \in DerivedLabels : l <= LastLabel(disk["derived"])
              /\ FirstLabel(disk["derived"]) \in Nat /\ LastLabel(disk["derived"]) \in Nat
<1>1. clock \in Nat /\ DOMAIN disk["source"] \subseteq 0..clock
  BY SourceEnds
<1>2. DerivedLabels \subseteq 0..clock
  BY <1>1, CoveredIs DEF SerialInv, DerivedOK
<1> QED BY <1>1, <1>2, Ends DEF DerivedLabels

\* The provider's steps keep it: a late bar is not an on-time one, and the
\* clock's next period is past everything cached or asked for.
LEMMA SerialProvider ==
  ASSUME SerialInv, Tick \/ (\E l \in Periods : LateArrival(l))
  PROVE  SerialInv'
<1>1. /\ UNCHANGED <<disk, pc, pair, window, batch, file>>
      /\ clock' \in Nat /\ clock <= clock' /\ delivered \subseteq delivered'
      /\ onTime' = onTime \/ onTime' = onTime \cup {clock + 1}
      /\ onTime' \subseteq delivered' /\ delivered' \subseteq 0..clock'
  BY DEF Tick, LateArrival, procVars, SerialInv, ProviderOK, Periods
<1>2. \A l \in 0..clock : l \in onTime' <=> l \in onTime
  BY <1>1 DEF SerialInv, ProviderOK
<1>3. \A l \in onTime' : l \in onTime \/ l = clock + 1
  BY <1>1
<1>4. clock \in Nat /\ SourceLabels \subseteq 0..clock /\ SourceLabels' = SourceLabels /\ DerivedLabels' = DerivedLabels
  BY <1>1, SourceEnds DEF SourceLabels, DerivedLabels
<1>5. ProviderOK'
  BY <1>1 DEF ProviderOK
<1>6. SourceOK'
  <2>1. NoHole'
    <3> SUFFICES ASSUME NEW l \in onTime', disk["source"] # NoBars,
                        FirstLabel(disk["source"]) <= l, l <= LastLabel(disk["source"])
                 PROVE  l \in DOMAIN disk["source"]
      BY <1>1 DEF NoHole
    <3>1. SourceLabels # {}
      BY SourceEnds, NoLabels
    <3>2. l # clock + 1
      BY <1>4, <3>1, SourceEnds
    <3> QED BY <1>3, <3>2 DEF SerialInv, SourceOK, NoHole
  <2> QED BY <1>1, <1>4, <2>1 DEF SerialInv, SourceOK, OnlyLastIsForming
<1>7. DerivedOK'
  <2>1. InnerBucketsCurrent'
    <3> SUFFICES ASSUME NEW b \in DerivedLabels, b > FirstLabel(disk["derived"]), b < LastLabel(disk["derived"])
                 PROVE  DerivedOf(b)' = SourceNow(b)'
      BY <1>1 DEF InnerBucketsCurrent, DerivedLabels
    <3>1. DOMAIN disk["derived"][b] \subseteq 0..clock
      BY <1>4 DEF SerialInv, DerivedOK
    <3>2. DOMAIN disk["derived"][b] \cap onTime' = DOMAIN disk["derived"][b] \cap onTime
      BY <1>2, <3>1
    <3>3. {m \in DOMAIN disk["source"] \cap onTime' : BucketOf(m) = b}
            = {m \in DOMAIN disk["source"] \cap onTime : BucketOf(m) = b}
      BY <1>2, <1>4 DEF SourceLabels
    <3>4. DerivedOf(b)' = DerivedOf(b) /\ SourceNow(b)' = SourceNow(b)
      BY <1>1, <3>2, <3>3 DEF DerivedOf, SourceNow
    <3> QED BY <3>4 DEF SerialInv, DerivedOK, InnerBucketsCurrent, DerivedLabels
  <2> QED BY <1>1, <1>4, <2>1 DEF SerialInv, DerivedOK, CoveredBuckets
<1>8. ASSUME NEW p \in Procs PROVE WorkOK(p)'
  <2>1. WorkOK(p)
    BY DEF SerialInv
  <2>2. Planned(p)'
    BY <1>1, <1>4, <2>1 DEF WorkOK, Planned, SerialInv, ProviderOK
  <2>3. Loaded(p)' /\ Deriving(p)'
    BY <1>1, <1>4, <2>1 DEF WorkOK, Loaded, Deriving, Derives, BarOver, CoveredBuckets
  <2>4. Fetched(p)'
    <3> SUFFICES ASSUME pc[p] \in Asking, pair[p] = "source"
                 PROVE  \E from \in Nat, to \in 0..clock' : Answers(batch[p], from, to)'
      BY <1>1 DEF Fetched
    <3>1. PICK from \in Nat, to \in 0..clock : Answers(batch[p], from, to)
      BY <2>1 DEF WorkOK, Fetched
    <3>2. onTime' \cap (from..to) = onTime \cap (from..to)
      BY <1>2, <1>4
    <3>3. Answers(batch[p], from, to)'
      BY <1>1, <1>4, <3>1, <3>2 DEF Answers
    <3>4. to \in 0..clock'
      BY <1>1, <1>4
    <3> QED BY <3>3, <3>4
  <2> QED BY <2>2, <2>3, <2>4 DEF WorkOK
<1> QED BY <1>1, <1>5, <1>6, <1>7, <1>8 DEF SerialInv

\* A step of the one process that leaves the provider and the pairs alone.
LEMMA SerialQuiet ==
  ASSUME SerialInv, OneWriter, NEW p \in Procs, UNCHANGED <<providerVars, disk>>,
         window' = [q \in Procs |-> window'[q]], WorkOK(p)'
  PROVE  SerialInv'
<1>1. UNCHANGED <<clock, delivered, onTime, disk>>
  BY DEF providerVars
<1>2. ProviderOK' /\ SourceOK' /\ DerivedOK'
  BY <1>1 DEF SerialInv, ProviderOK, SourceOK, DerivedOK, SourceLabels, DerivedLabels, OnlyLastIsForming,
              NoHole, InnerBucketsCurrent, DerivedOf, SourceNow, CoveredBuckets
<1>3. \A q \in Procs : WorkOK(q)'
  BY DEF OneWriter
<1> QED BY <1>2, <1>3 DEF SerialInv

\* What the one process has under way is about the pairs as they are.
LEMMA WorkCarries ==
  ASSUME SerialInv, NEW p \in Procs, UNCHANGED <<providerVars, disk, pair, batch>>,
         pc[p] \in Asking, pc'[p] \in Asking
  PROVE  WorkOK(p)'
<1>1. UNCHANGED <<clock, delivered, onTime, disk>>
  BY DEF providerVars
<1>2. Planned(p)' /\ Loaded(p)'
  BY DEF Planned, Loaded, Asking
<1>3. Fetched(p)'
  BY <1>1 DEF SerialInv, WorkOK, Fetched, Answers, SourceLabels
<1>4. Deriving(p)'
  <2>1. pair[p] = "derived" => Derives(batch[p])
    BY DEF SerialInv, WorkOK, Deriving
  <2>2. Derives(batch[p])' <=> Derives(batch[p])
    BY <1>1 DEF Derives, DerivedLabels, BarOver, CoveredBuckets
  <2> QED BY <2>1, <2>2 DEF Deriving
<1> QED BY <1>2, <1>3, <1>4 DEF WorkOK

\* A process with nothing under way has nothing to keep.
LEMMA WorkIdle == ASSUME NEW p \in Procs, pc'[p] \in {"idle", "written"} PROVE WorkOK(p)'
  BY DEF WorkOK, Planned, Fetched, Loaded, Deriving, Asking

\* A warm request resumes no later than the last cached bar.
LEMMA PlanKeeps == ASSUME CInv, SerialInv, OneWriter, NEW p \in Procs, PlanFetch(p) PROVE SerialInv'
<1>1. PICK from \in {0} \cup UNION {IF disk["source"] # NoBars /\ StartOf(w) >= FirstLabel(disk["source"])
                                    THEN ResumePoints(StartOf(w), LastLabel(disk["source"]))
                                    ELSE {StartOf(w)} : w \in Lookbacks} :
           window' = [window EXCEPT ![p] = [from |-> from, to |-> clock]]
  BY DEF PlanFetch
<1>2. \A w \in Lookbacks : StartOf(w) \in Nat
  BY CacheAssumption DEF StartOf, SerialInv, ProviderOK
<1>3. from \in Nat /\ (SourceLabels # {} => from <= LastLabel(disk["source"]))
  <2>1. CASE from = 0
    BY <2>1, SourceEnds
  <2>2. ASSUME NEW w \in Lookbacks, disk["source"] # NoBars, StartOf(w) >= FirstLabel(disk["source"]),
               from \in 0..LastLabel(disk["source"])
        PROVE  from \in Nat /\ from <= LastLabel(disk["source"])
    <3>1. SourceLabels # {}
      BY <2>2, SourceEnds, NoLabels
    <3> QED BY <2>2, <3>1, SourceEnds
  <2>3. ASSUME NEW w \in Lookbacks, from = StartOf(w),
               ~ (disk["source"] # NoBars /\ StartOf(w) >= FirstLabel(disk["source"]))
        PROVE  from \in Nat /\ (SourceLabels # {} => from <= LastLabel(disk["source"]))
    <3>1. SourceLabels # {} => disk["source"] # NoBars
      BY SourceEnds, NoLabels
    <3> QED BY <1>2, <2>3, <3>1, SourceEnds
  <2> QED BY <1>1, <2>1, <2>2, <2>3 DEF ResumePoints
<1>4. window' = [q \in Procs |-> window'[q]] /\ window'[p] = [from |-> from, to |-> clock]
  BY <1>1 DEF SerialInv
<1>5. pc'[p] = "planned" /\ pair'[p] = "source" /\ UNCHANGED <<providerVars, disk>>
  BY DEF PlanFetch, CInv, Shaped
<1>6. Planned(p)'
  BY <1>3, <1>4, <1>5, SourceEnds DEF Planned, SourceLabels, providerVars
<1>7. WorkOK(p)'
  BY <1>5, <1>6 DEF WorkOK, Fetched, Loaded, Deriving, Asking
<1> QED BY <1>4, <1>5, <1>7, SerialQuiet

\* What the provider serves of a request that reaches the last bar answers it.
LEMMA ServedAnswers ==
  ASSUME SerialInv, NEW from \in Nat, NEW to \in 0..clock,
         SourceLabels # {} => from <= LastLabel(disk["source"]) /\ LastLabel(disk["source"]) <= to
  PROVE  Answers(Served(from, to), from, to)
<1> DEFINE bars == Served(from, to)
<1>1. delivered \subseteq 0..clock /\ onTime \subseteq delivered /\ SourceLabels \subseteq delivered /\ clock \in Nat
  BY DEF SerialInv, ProviderOK, SourceOK
<1>2. DOMAIN bars = {m \in delivered : from <= m /\ m <= to}
  BY DEF Served
<1>3. \A l \in DOMAIN bars : bars[l] = IF l = clock THEN Forming ELSE Final
  BY DEF Served
<1>4. bars \in [DOMAIN bars -> {Forming, Final}]
  BY DEF Served
<1> HIDE DEF bars
<1>5. \A l \in DOMAIN bars : bars[l] = Forming => l = to
  BY <1>1, <1>2, <1>3 DEF Forming, Final
<1>6. DOMAIN bars \subseteq delivered /\ DOMAIN bars \subseteq from..to
  <2> SUFFICES ASSUME NEW m \in DOMAIN bars PROVE m \in delivered /\ m \in from..to
    OBVIOUS
  <2>1. m \in delivered /\ from <= m /\ m <= to
    BY <1>2
  <2>2. m \in 0..clock
    BY <1>1, <2>1
  <2>3. m \in from..to
    BY <1>1, <2>1, <2>2
  <2> QED BY <2>1, <2>3
<1>7. onTime \cap (from..to) \subseteq DOMAIN bars
  <2> SUFFICES ASSUME NEW m \in onTime, m \in from..to PROVE m \in DOMAIN bars
    OBVIOUS
  <2> QED BY <1>1, <1>2
<1>8. SourceLabels # {} => LastLabel(disk["source"]) \in DOMAIN bars
  BY <1>1, <1>2, SourceEnds
<1>9. Answers(bars, from, to)
  BY <1>4, <1>5, <1>6, <1>7, <1>8 DEF Answers
<1> QED BY <1>9 DEF bars

\* A fetch answers what was planned, whenever the provider does.
LEMMA FetchKeeps == ASSUME CInv, SerialInv, OneWriter, NEW p \in Procs, Fetch(p) PROVE SerialInv'
<1>1. /\ pc[p] = "planned" /\ pc'[p] = "waiting" /\ UNCHANGED <<providerVars, disk, pair>>
      /\ batch'[p] = Served(window[p].from, window[p].to) /\ window' = [window EXCEPT ![p] = NoWindow]
  BY DEF Fetch, CInv, Shaped
<1>2. PICK from, to : from = window[p].from /\ to = window[p].to
  OBVIOUS
<1>3. /\ from \in Nat /\ to \in 0..clock
      /\ SourceLabels # {} => from <= LastLabel(disk["source"]) /\ LastLabel(disk["source"]) <= to
  BY <1>1, <1>2 DEF SerialInv, WorkOK, Planned
<1>4. Answers(batch'[p], from, to)
  BY <1>1, <1>2, <1>3, ServedAnswers
<1>5. Answers(batch[p], from, to)'
  BY <1>1, <1>4 DEF Answers, SourceLabels, providerVars
<1>6. to \in 0..clock'
  BY <1>1, <1>3 DEF providerVars
<1>7. Fetched(p)'
  BY <1>3, <1>5, <1>6 DEF Fetched
<1>8. pair[p] = "source"
  BY <1>1 DEF SerialInv, WorkOK, Planned
<1>9. window' = [q \in Procs |-> window'[q]]
  BY <1>1 DEF SerialInv
<1>10. WorkOK(p)'
  BY <1>1, <1>7, <1>8 DEF WorkOK, Planned, Loaded, Deriving
<1> QED BY <1>1, <1>9, <1>10, SerialQuiet

\* Loading the source before a derive.
LEMMA LoadKeeps == ASSUME CInv, SerialInv, OneWriter, NEW p \in Procs, LoadSource(p) PROVE SerialInv'
<1>1. /\ pc'[p] = "loaded" /\ pair'[p] = "derived" /\ file'[p] = disk["source"]
      /\ UNCHANGED <<providerVars, disk, window>>
  BY DEF LoadSource, CInv, Shaped
<1>2. WorkOK(p)'
  BY <1>1 DEF WorkOK, Planned, Fetched, Loaded, Deriving, Asking
<1> QED BY <1>1, <1>2, SerialQuiet DEF SerialInv

\* The whole source derives every bucket there is.
LEMMA DerivesWhole == ASSUME SerialInv PROVE Derives(Resample(disk["source"]))
<1> DEFINE bars == Resample(disk["source"])
<1>1. DOMAIN bars = CoveredBuckets(disk["source"])
  BY DEF Resample
<1>2. bars = [b \in DOMAIN bars |-> BarOver(disk["source"], b)]
  BY DEF Resample, BarOver
<1>3. DerivedLabels \subseteq DOMAIN bars
  BY <1>1 DEF SerialInv, DerivedOK
<1> HIDE DEF bars
<1>4. Derives(bars)
  BY <1>1, <1>2, <1>3, DerivedEnds DEF Derives
<1> QED BY <1>4 DEF bars

\* The source from the last derived bucket on derives that bucket whole, and
\* none before it.
LEMMA DerivesTail ==
  ASSUME SerialInv, DerivedLabels # {}
  PROVE  Derives(Resample(From(disk["source"], LastLabel(disk["derived"]))))
<1>1. PICK src, last : src = disk["source"] /\ last = LastLabel(disk["derived"])
  OBVIOUS
<1> DEFINE tail == From(src, last)
           bars == Resample(tail)
<1>2. last \in DerivedLabels /\ \A b \in DerivedLabels : b <= last
  BY <1>1, DerivedEnds
<1>3. clock \in Nat /\ DOMAIN src \subseteq 0..clock /\ last \in CoveredBuckets(src)
  BY <1>1, <1>2, SourceEnds DEF SerialInv, DerivedOK
<1>4. PICK l \in DOMAIN src : BucketOf(l) = last /\ last <= l /\ l < last + BucketSize
  BY <1>3, CoveredIs
<1>5. /\ last \in 0..clock /\ last + BucketSize <= LastLabel(src) + 1
      /\ LastLabel(src) \in Nat /\ LastLabel(src) \in DOMAIN src /\ \A m \in DOMAIN src : m <= LastLabel(src)
  BY <1>3, CoveredIs, Ends
<1>6. DOMAIN tail = {m \in DOMAIN src : m >= last} /\ \A m \in DOMAIN tail : tail[m] = src[m]
  BY DEF From
<1> HIDE DEF tail
<1>7. LastLabel(tail) = LastLabel(src)
  <2>1. DOMAIN tail \subseteq 0..clock
    BY <1>3, <1>6
  <2>2. LastLabel(src) >= last
    BY <1>3, <1>4, <1>5
  <2>3. LastLabel(src) \in DOMAIN tail /\ \A m \in DOMAIN tail : m <= LastLabel(src)
    BY <1>5, <1>6, <2>2
  <2> QED BY <1>3, <2>1, <2>3, LastIs
<1>8. \A m \in DOMAIN src : m \in Nat /\ BucketOf(m) \in Nat /\ BucketOf(m) <= m
  BY <1>3, BucketHolds
<1>9. \A m \in DOMAIN tail : last <= BucketOf(m)
  <2> SUFFICES ASSUME NEW m \in DOMAIN tail, BucketOf(m) < last PROVE FALSE
    BY <1>5, <1>6, <1>8
  <2>1. m \in Nat /\ l \in Nat /\ BucketOf(m) < BucketOf(l)
    BY <1>3, <1>4, <1>6
  <2>2. m < last
    BY <1>4, <2>1, BucketsApart
  <2> QED BY <1>5, <1>6, <2>1, <2>2
<1>10. CoveredBuckets(tail) \subseteq CoveredBuckets(src) /\ last \in CoveredBuckets(tail)
  <2>1. CoveredBuckets(tail) \subseteq CoveredBuckets(src)
    BY <1>6, <1>7 DEF CoveredBuckets
  <2>2. l \in DOMAIN tail
    BY <1>3, <1>4, <1>5, <1>6
  <2> QED BY <1>4, <1>5, <1>7, <2>1, <2>2 DEF CoveredBuckets
<1>11. \A b \in CoveredBuckets(tail) : last <= b
  BY <1>9 DEF CoveredBuckets
<1>12. DOMAIN bars = CoveredBuckets(tail)
  BY DEF Resample
<1>13. \A b \in DOMAIN bars : bars[b] = BarOver(src, b)
  <2> SUFFICES ASSUME NEW b \in CoveredBuckets(tail) PROVE bars[b] = BarOver(src, b)
    BY <1>12
  <2>1. bars[b] = [m \in {n \in DOMAIN tail : BucketOf(n) = b} |-> tail[m]]
    BY DEF Resample
  <2>2. last <= b
    BY <1>11
  <2>3. {n \in DOMAIN tail : BucketOf(n) = b} = {n \in DOMAIN src : BucketOf(n) = b}
    BY <1>5, <1>6, <1>8, <2>2
  <2> QED BY <1>6, <2>1, <2>3 DEF BarOver
<1>14. bars = [b \in DOMAIN bars |-> BarOver(src, b)]
  <2>1. bars = [b \in DOMAIN bars |-> bars[b]]
    BY DEF Resample
  <2> HIDE DEF bars
  <2> QED BY <1>13, <2>1
<1> HIDE DEF bars
<1>15. \A b \in DerivedLabels \ DOMAIN bars : \A c \in DOMAIN bars : b < c
  <2> SUFFICES ASSUME NEW b \in DerivedLabels \ DOMAIN bars, NEW c \in DOMAIN bars PROVE b < c
    OBVIOUS
  <2>1. b <= last /\ b # last /\ last <= c
    BY <1>2, <1>10, <1>11, <1>12
  <2>2. c \in CoveredBuckets(src) /\ b \in 0..clock
    BY <1>10, <1>12, DerivedEnds
  <2>3. c \in 0..clock
    BY <1>3, <2>2, CoveredIs
  <2> QED BY <1>3, <1>5, <2>1, <2>2, <2>3
<1>16. Derives(bars)
  BY <1>1, <1>10, <1>12, <1>14, <1>15 DEF Derives
<1> QED BY <1>1, <1>16 DEF bars, tail

\* A derive, in full or of the trailing window, derives what the source holds.
LEMMA DeriveKeeps == ASSUME CInv, SerialInv, OneWriter, NEW p \in Procs, Derive(p) PROVE SerialInv'
<1>1. pc[p] = "loaded" /\ UNCHANGED <<providerVars, disk, pair, window>>
  BY DEF Derive
<1>2. pair[p] = "derived" /\ file[p] = disk["source"]
  BY <1>1 DEF SerialInv, WorkOK, Loaded
<1>3. CASE pc'[p] = "idle"
  BY <1>1, <1>3, WorkIdle, SerialQuiet DEF SerialInv
<1>4. CASE pc'[p] # "idle"
  <2>1. PICK src :
          /\ src = file[p] \/ src = TrailingWindow(file[p], disk["derived"])
          /\ pc'[p] = "waiting" /\ batch'[p] = Resample(src)
    BY <1>4 DEF Derive, CInv, Shaped
  <2>2. src = disk["source"] \/ (DerivedLabels # {} /\ src = From(disk["source"], LastLabel(disk["derived"])))
    <3>1. disk["derived"] # NoBars => DerivedLabels # {}
      BY NoLabels DEF DerivedLabels, SerialInv, DerivedOK
    <3> QED BY <1>2, <2>1, <3>1 DEF TrailingWindow
  <2>3. Derives(batch'[p])
    BY <2>1, <2>2, DerivesWhole, DerivesTail
  <2>4. Derives(batch[p])'
    BY <1>1, <2>3 DEF Derives, DerivedLabels, BarOver, CoveredBuckets
  <2>5. WorkOK(p)'
    BY <1>1, <1>2, <2>1, <2>4 DEF WorkOK, Planned, Fetched, Loaded, Deriving
  <2> QED BY <1>1, <2>5, SerialQuiet DEF SerialInv
<1> QED BY <1>3, <1>4

\* Locking, writing the temporary file and letting go change no pair.
LEMMA LockKeeps ==
  ASSUME CInv, SerialInv, OneWriter, NEW p \in Procs,
         Acquire(p) \/ WriteTmp(p) \/ TimeOut(p) \/ Release(p) \/ Abandon(p)
  PROVE  SerialInv'
<1>1. UNCHANGED <<providerVars, disk>> /\ window' = [q \in Procs |-> window'[q]]
  BY DEF Acquire, WriteTmp, TimeOut, Release, Abandon, SerialInv
<1>2. CASE Acquire(p) \/ WriteTmp(p)
  <2>1. pc[p] \in Asking /\ pc'[p] \in Asking /\ UNCHANGED <<pair, batch>>
    BY <1>2 DEF Acquire, WriteTmp, Asking, CInv, Shaped
  <2>2. WorkOK(p)'
    BY <1>1, <2>1, WorkCarries
  <2> QED BY <1>1, <2>2, SerialQuiet
<1>3. CASE TimeOut(p) \/ Release(p) \/ Abandon(p)
  <2>1. pc'[p] = "idle"
    BY <1>3 DEF TimeOut, Release, Abandon, CInv, Shaped
  <2> QED BY <1>1, <2>1, WorkIdle, SerialQuiet
<1> QED BY <1>2, <1>3

\* What replacing a pair does to the two of them.
LEMMA ReplaceEffect ==
  ASSUME CInv, NEW p \in Procs, Replace(p)
  PROVE  /\ pc[p] = "merged" /\ pc'[p] = "written" /\ pair[p] \in Pairs
         /\ UNCHANGED <<clock, delivered, onTime, window>>
         /\ disk'[pair[p]] = MergeFrames(disk[pair[p]], batch[p])
         /\ \A q \in Pairs \ {pair[p]} : disk'[q] = disk[q]
  BY DEF Replace, CInv, Shaped, Exclusive, providerVars

\* Where the bars of two frames come from, once merged.
LEMMA Merged ==
  ASSUME NEW old, NEW new
  PROVE  /\ DOMAIN MergeFrames(old, new) = DOMAIN old \cup DOMAIN new
         /\ MergeFrames(old, new) = [l \in DOMAIN old \cup DOMAIN new |-> MergeFrames(old, new)[l]]
         /\ \A l \in DOMAIN new : MergeFrames(old, new)[l] = new[l]
         /\ \A l \in DOMAIN old \ DOMAIN new : MergeFrames(old, new)[l] = old[l]
  BY DEF MergeFrames

\* The source after an answer is merged into it: the last bar is the newest
\* the provider has, and every on-time bar in between is there.
LEMMA SourceMerged ==
  ASSUME SerialInv, NEW from \in Nat, NEW to \in 0..clock, NEW bars, Answers(bars, from, to),
         NEW new, new = MergeFrames(disk["source"], bars)
  PROVE  /\ new \in [DOMAIN new -> {Forming, Final}] /\ DOMAIN new \subseteq delivered
         /\ SourceLabels \subseteq DOMAIN new
         /\ SourceLabels # {} => LastLabel(disk["source"]) <= LastLabel(new)
         /\ \A l \in DOMAIN new : new[l] = Forming => l = LastLabel(new)
         /\ \A l \in onTime : new # NoBars /\ FirstLabel(new) <= l /\ l <= LastLabel(new) => l \in DOMAIN new
         /\ \A l \in SourceLabels : l < LastLabel(disk["source"]) => new[l] = disk["source"][l]
<1>1. PICK src : src = disk["source"]
  OBVIOUS
<1>2. /\ clock \in Nat /\ DOMAIN src = SourceLabels /\ SourceLabels \subseteq 0..clock
      /\ SourceLabels \subseteq delivered /\ delivered \subseteq 0..clock
      /\ \A l \in SourceLabels : src[l] \in {Forming, Final}
      /\ \A l \in SourceLabels : src[l] = Forming => l = LastLabel(src)
  BY <1>1, SourceEnds DEF SerialInv, SourceOK, ProviderOK, OnlyLastIsForming, SourceLabels
<1>3. /\ DOMAIN bars \subseteq delivered /\ \A l \in DOMAIN bars : from <= l /\ l <= to
      /\ \A l \in DOMAIN bars : bars[l] \in {Forming, Final}
      /\ \A l \in onTime : from <= l /\ l <= to => l \in DOMAIN bars
      /\ \A l \in DOMAIN bars : bars[l] = Forming => l = to
      /\ SourceLabels # {} => LastLabel(src) \in DOMAIN bars
  <2>1. \A l \in onTime : l \in 0..clock
    BY DEF SerialInv, ProviderOK
  <2>2. \A l \in onTime : from <= l /\ l <= to => l \in from..to
    BY <2>1
  <2> QED BY <1>1, <2>2 DEF Answers
<1>4. /\ DOMAIN new = SourceLabels \cup DOMAIN bars /\ new = [l \in DOMAIN new |-> new[l]]
      /\ \A l \in DOMAIN bars : new[l] = bars[l]
      /\ \A l \in SourceLabels \ DOMAIN bars : new[l] = src[l]
  <2>1. new = MergeFrames(src, bars)
    BY <1>1
  <2>2. DOMAIN new = DOMAIN src \cup DOMAIN bars /\ \A l \in DOMAIN bars : new[l] = bars[l]
    BY <2>1 DEF MergeFrames
  <2>3. \A l \in DOMAIN src \ DOMAIN bars : new[l] = src[l]
    BY <2>1 DEF MergeFrames
  <2>4. new = [l \in DOMAIN src \cup DOMAIN bars |-> new[l]]
    BY <2>1 DEF MergeFrames
  <2> QED BY <1>2, <2>2, <2>3, <2>4
<1>5. SourceLabels # {} =>
        /\ LastLabel(src) \in SourceLabels /\ \A l \in SourceLabels : l <= LastLabel(src)
        /\ FirstLabel(src) \in SourceLabels /\ \A l \in SourceLabels : FirstLabel(src) <= l
        /\ LastLabel(src) \in Nat /\ FirstLabel(src) \in Nat
        /\ LastLabel(src) <= to
  BY <1>1, <1>3, SourceEnds
<1>6. DOMAIN new \subseteq delivered /\ DOMAIN new \subseteq 0..clock
  BY <1>2, <1>3, <1>4
<1>7. DOMAIN new # {} =>
        /\ FirstLabel(new) \in DOMAIN new /\ \A l \in DOMAIN new : FirstLabel(new) <= l
        /\ LastLabel(new) \in DOMAIN new /\ \A l \in DOMAIN new : l <= LastLabel(new)
        /\ FirstLabel(new) \in Nat /\ LastLabel(new) \in Nat
  BY <1>2, <1>6, Ends
<1>8. \A l \in DOMAIN new : l \in Nat /\ l <= to
  BY <1>2, <1>3, <1>4, <1>5, <1>6
<1>9. new \in [DOMAIN new -> {Forming, Final}]
  <2>1. \A l \in DOMAIN new : new[l] \in {Forming, Final}
    BY <1>2, <1>3, <1>4
  <2> QED BY <1>4, <2>1
<1>10. SourceLabels # {} => LastLabel(src) <= LastLabel(new)
  BY <1>4, <1>5, <1>7
<1>11. ASSUME NEW l \in DOMAIN new, new[l] = Forming PROVE l = LastLabel(new)
  <2>1. l \in DOMAIN bars
    BY <1>2, <1>3, <1>4, <1>5, <1>11
  <2>2. l = to
    BY <1>3, <1>4, <1>11, <2>1
  <2>3. LastLabel(new) \in DOMAIN new /\ l <= LastLabel(new)
    BY <1>7, <1>11
  <2>4. LastLabel(new) \in Nat /\ LastLabel(new) <= to
    BY <1>8, <2>3
  <2> QED BY <2>2, <2>3, <2>4
<1>12. ASSUME NEW l \in onTime, new # NoBars, FirstLabel(new) <= l, l <= LastLabel(new)
       PROVE  l \in DOMAIN new
  <2>1. DOMAIN new # {} /\ l \in Nat
    BY <1>4, <1>12, NoLabels DEF SerialInv, ProviderOK
  <2>2. l <= to
    BY <1>7, <1>8, <1>12, <2>1
  <2>3. CASE from <= l
    BY <1>3, <1>4, <2>2, <2>3
  <2>4. CASE l < from
    <3>1. FirstLabel(new) \in SourceLabels
      BY <1>3, <1>4, <1>7, <1>12, <2>1, <2>4
    <3>2. FirstLabel(src) <= l /\ l <= LastLabel(src) /\ src # NoBars
      BY <1>2, <1>3, <1>5, <1>7, <1>12, <2>1, <2>4, <3>1, NoLabels DEF NoBars
    <3> QED BY <1>1, <1>4, <3>2 DEF SerialInv, SourceOK, NoHole, SourceLabels
  <2> QED BY <2>1, <2>3, <2>4
<1>13. ASSUME NEW l \in SourceLabels, l < LastLabel(src) PROVE new[l] = src[l]
  <2>1. src[l] = Final
    BY <1>2, <1>5, <1>13
  <2>2. l \in DOMAIN bars => bars[l] = Final
    BY <1>2, <1>3, <1>5, <1>13
  <2> QED BY <1>4, <2>1, <2>2
<1> QED BY <1>1, <1>4, <1>6, <1>9, <1>10, <1>11, <1>12, <1>13

\* Merging an answer into the source leaves no hole, only the last bar forming,
\* and the inner derived buckets current: none of their bars is new or forming.
LEMMA ReplaceSourceKeeps ==
  ASSUME CInv, SerialInv, OneWriter, NEW p \in Procs, Replace(p), pair[p] = "source"
  PROVE  SerialInv'
<1>1. /\ pc[p] = "merged" /\ pc'[p] = "written" /\ UNCHANGED <<clock, delivered, onTime, window>>
      /\ disk'["source"] = MergeFrames(disk["source"], batch[p]) /\ disk'["derived"] = disk["derived"]
  BY ReplaceEffect DEF Pairs
<1>2. PICK from \in Nat, to \in 0..clock : Answers(batch[p], from, to)
  BY <1>1 DEF SerialInv, WorkOK, Fetched, Asking
<1>3. PICK new : new = disk'["source"]
  OBVIOUS
<1>4. /\ new \in [DOMAIN new -> {Forming, Final}] /\ DOMAIN new \subseteq delivered
      /\ SourceLabels \subseteq DOMAIN new
      /\ SourceLabels # {} => LastLabel(disk["source"]) <= LastLabel(new)
      /\ \A l \in DOMAIN new : new[l] = Forming => l = LastLabel(new)
      /\ \A l \in onTime : new # NoBars /\ FirstLabel(new) <= l /\ l <= LastLabel(new) => l \in DOMAIN new
      /\ \A l \in SourceLabels : l < LastLabel(disk["source"]) => new[l] = disk["source"][l]
  <2>1. new = MergeFrames(disk["source"], batch[p])
    BY <1>1, <1>3
  <2> HIDE <1>3
  <2> QED BY <1>2, <2>1, SourceMerged
<1>5. SourceOK'
  BY <1>1, <1>3, <1>4 DEF SourceOK, SourceLabels, OnlyLastIsForming, NoHole
<1>6. ProviderOK'
  BY <1>1 DEF SerialInv, ProviderOK
<1>7. DerivedLabels' = DerivedLabels
  BY <1>1 DEF DerivedLabels
<1>8. DOMAIN new \subseteq 0..clock /\ clock \in Nat /\ SourceLabels \subseteq 0..clock
  BY <1>4, SourceEnds DEF SerialInv, ProviderOK
<1>9. CoveredBuckets(disk["source"]) \subseteq CoveredBuckets(new)
  <2> SUFFICES ASSUME NEW b \in CoveredBuckets(disk["source"]) PROVE b \in CoveredBuckets(new)
    OBVIOUS
  <2>1. /\ b \in 0..clock /\ b + BucketSize <= LastLabel(disk["source"]) + 1
        /\ LastLabel(disk["source"]) \in Nat /\ SourceLabels # {}
        /\ \E l \in SourceLabels : BucketOf(l) = b
    BY <1>8, CoveredIs DEF SourceLabels
  <2>2. LastLabel(new) \in Nat /\ LastLabel(disk["source"]) <= LastLabel(new)
    BY <1>4, <1>8, <2>1, Ends
  <2>3. b + BucketSize <= LastLabel(new) + 1
    BY <2>1, <2>2, CacheAssumption
  <2> QED BY <1>4, <2>1, <2>3 DEF CoveredBuckets
<1>10. InnerBucketsCurrent'
  <2> SUFFICES ASSUME NEW b \in DerivedLabels, b > FirstLabel(disk["derived"]), b < LastLabel(disk["derived"])
               PROVE  DerivedOf(b)' = SourceNow(b)'
    BY <1>1 DEF InnerBucketsCurrent, DerivedLabels
  <2>1. PICK first, last : first = FirstLabel(disk["derived"]) /\ last = LastLabel(disk["derived"])
    OBVIOUS
  <2>2. first \in DerivedLabels /\ last \in DerivedLabels
    BY <2>1, DerivedEnds
  <2>3. {first, b, last} \subseteq CoveredBuckets(disk["source"])
    BY <2>2 DEF SerialInv, DerivedOK
  <2>4. PICK l0 \in SourceLabels : BucketOf(l0) = first
    BY <1>8, <2>3, CoveredIs DEF SourceLabels
  <2>5. /\ last \in 0..clock /\ b \in 0..clock /\ last + BucketSize <= LastLabel(disk["source"]) + 1
        /\ LastLabel(disk["source"]) \in Nat
    BY <1>8, <2>3, CoveredIs DEF SourceLabels
  <2>6. BucketSize \in Nat /\ BucketSize >= 1
    BY CacheAssumption
  <2>7. PICK lastBar \in SourceLabels : BucketOf(lastBar) = last
    BY <1>8, <2>3, CoveredIs DEF SourceLabels
  <2>8. ASSUME NEW l \in DOMAIN new, l \in onTime, BucketOf(l) = b
        PROVE  l \in SourceLabels /\ l < LastLabel(disk["source"])
    <3>1. l \in Nat /\ l0 \in Nat /\ lastBar \in Nat
      BY <1>8, <2>4, <2>7, <2>8
    <3>2. l0 < b
      BY <2>1, <2>4, <2>8, <3>1, BucketsApart
    <3>3. l < last
      BY <2>1, <2>7, <2>8, <3>1, BucketsApart
    <3>4. b <= l
      BY <2>8, <3>1, BucketHolds
    <3>5. FirstLabel(disk["source"]) <= l0 /\ FirstLabel(disk["source"]) \in Nat /\ disk["source"] # NoBars
      BY <2>4, SourceEnds, NoLabels
    <3>6. last <= LastLabel(disk["source"])
      BY <2>5, <2>6
    <3>7. FirstLabel(disk["source"]) <= l /\ l < LastLabel(disk["source"])
      BY <2>5, <3>1, <3>2, <3>3, <3>4, <3>5, <3>6
    <3> QED BY <2>5, <2>8, <3>1, <3>5, <3>7 DEF SerialInv, SourceOK, NoHole, SourceLabels
  <2>9. {m \in DOMAIN new \cap onTime : BucketOf(m) = b} = {m \in SourceLabels \cap onTime : BucketOf(m) = b}
    BY <1>4, <2>8
  <2>10. \A m \in {n \in SourceLabels \cap onTime : BucketOf(n) = b} : new[m] = disk["source"][m]
    BY <1>4, <2>8
  <2>11. SourceNow(b)' = [m \in {n \in DOMAIN new \cap onTime : BucketOf(n) = b} |-> new[m]]
    BY <1>1, <1>3 DEF SourceNow
  <2>12. SourceNow(b) = [m \in {n \in SourceLabels \cap onTime : BucketOf(n) = b} |-> disk["source"][m]]
    BY DEF SourceNow, SourceLabels
  <2>13. SourceNow(b)' = SourceNow(b)
    BY <2>9, <2>10, <2>11, <2>12
  <2>14. DerivedOf(b)' = DerivedOf(b)
    BY <1>1 DEF DerivedOf
  <2> QED BY <2>13, <2>14 DEF SerialInv, DerivedOK, InnerBucketsCurrent, DerivedLabels
<1>11. DerivedOK'
  <2>1. CoveredBuckets(disk["source"])' = CoveredBuckets(new) /\ SourceLabels' = DOMAIN new
    BY <1>3 DEF CoveredBuckets, SourceLabels
  <2> QED BY <1>1, <1>4, <1>7, <1>9, <1>10, <2>1 DEF SerialInv, DerivedOK
<1>12. \A q \in Procs : WorkOK(q)'
  BY <1>1, WorkIdle DEF OneWriter
<1>13. window' = [q \in Procs |-> window'[q]]
  BY <1>1 DEF SerialInv
<1> QED BY <1>5, <1>6, <1>11, <1>12, <1>13 DEF SerialInv

\* Merging derived buckets: the ones just derived hold what the source does,
\* and the others were not the last one, so they were current already.
LEMMA ReplaceDerivedKeeps ==
  ASSUME CInv, SerialInv, OneWriter, NEW p \in Procs, Replace(p), pair[p] = "derived"
  PROVE  SerialInv'
<1>1. /\ pc[p] = "merged" /\ pc'[p] = "written" /\ UNCHANGED <<clock, delivered, onTime, window>>
      /\ disk'["derived"] = MergeFrames(disk["derived"], batch[p]) /\ disk'["source"] = disk["source"]
  BY ReplaceEffect DEF Pairs
<1>2. PICK bars, new : bars = batch[p] /\ new = disk'["derived"]
  OBVIOUS
<1>3. Derives(bars)
  BY <1>1, <1>2 DEF SerialInv, WorkOK, Deriving, Asking
<1>4. /\ DOMAIN new = DerivedLabels \cup DOMAIN bars /\ new = [b \in DOMAIN new |-> new[b]]
      /\ \A b \in DOMAIN bars : new[b] = bars[b]
      /\ \A b \in DerivedLabels \ DOMAIN bars : new[b] = disk["derived"][b]
  BY <1>1, <1>2 DEF MergeFrames, DerivedLabels
<1>5. \A b \in DOMAIN bars : bars[b] = BarOver(disk["source"], b)
  BY <1>3 DEF Derives
<1>6. DOMAIN new \subseteq CoveredBuckets(disk["source"])
  BY <1>3, <1>4 DEF Derives, SerialInv, DerivedOK
<1>7. \A b \in DOMAIN new : DOMAIN new[b] \subseteq SourceLabels
  <2>1. \A b \in DOMAIN bars : DOMAIN bars[b] \subseteq SourceLabels
    BY <1>5 DEF BarOver, SourceLabels
  <2> QED BY <1>4, <2>1 DEF SerialInv, DerivedOK
<1>8. clock \in Nat /\ DOMAIN new \subseteq 0..clock
  BY <1>6, SourceEnds, CoveredIs DEF SourceLabels
<1>9. ASSUME NEW b \in DOMAIN new, b > FirstLabel(new), b < LastLabel(new)
      PROVE  DerivedOf(b)' = SourceNow(b)'
  <2>1. SourceNow(b)' = SourceNow(b)
    BY <1>1 DEF SourceNow
  <2>2. DerivedOf(b)' = [l \in DOMAIN new[b] \cap onTime |-> new[b][l]]
    BY <1>1, <1>2 DEF DerivedOf
  <2>3. CASE b \in DOMAIN bars
    <3>1. new[b] = BarOver(disk["source"], b)
      BY <1>4, <1>5, <2>3
    <3>2. DOMAIN new[b] \cap onTime = {m \in DOMAIN disk["source"] \cap onTime : BucketOf(m) = b}
      BY <3>1 DEF BarOver
    <3>3. \A l \in DOMAIN new[b] : new[b][l] = disk["source"][l]
      BY <3>1 DEF BarOver
    <3> QED BY <2>1, <2>2, <3>2, <3>3 DEF SourceNow
  <2>4. CASE b \notin DOMAIN bars
    <3>1. b \in DerivedLabels \ DOMAIN bars /\ DerivedLabels # {}
      BY <1>4, <1>9, <2>4
    <3>2. /\ FirstLabel(disk["derived"]) \in DerivedLabels /\ FirstLabel(disk["derived"]) \in Nat
          /\ \A c \in DerivedLabels : FirstLabel(disk["derived"]) <= c
          /\ LastLabel(disk["derived"]) \in DerivedLabels /\ LastLabel(disk["derived"]) \in Nat
          /\ \A c \in DerivedLabels : c <= LastLabel(disk["derived"])
      BY <3>1, DerivedEnds
    <3>3. LastLabel(disk["derived"]) \in DOMAIN bars /\ \A c \in DOMAIN bars : b < c
      BY <1>3, <3>1 DEF Derives
    <3>4. FirstLabel(new) \in DOMAIN new /\ FirstLabel(new) \in Nat /\ b \in Nat
      BY <1>8, <1>9, Ends
    <3>5. FirstLabel(new) \in DerivedLabels
      <4> SUFFICES ASSUME FirstLabel(new) \in DOMAIN bars PROVE FALSE
        BY <1>4, <3>4
      <4>1. b < FirstLabel(new)
        BY <3>3
      <4> QED BY <1>9, <3>4, <4>1
    <3>6. b > FirstLabel(disk["derived"])
      BY <1>9, <3>2, <3>4, <3>5
    <3>7. b < LastLabel(disk["derived"])
      BY <3>3
    <3>8. DerivedOf(b) = SourceNow(b)
      BY <3>1, <3>6, <3>7 DEF SerialInv, DerivedOK, InnerBucketsCurrent, DerivedLabels
    <3>9. new[b] = disk["derived"][b]
      BY <1>4, <3>1
    <3>10. DerivedOf(b)' = DerivedOf(b)
      BY <2>2, <3>9 DEF DerivedOf
    <3> QED BY <2>1, <3>8, <3>10
  <2> QED BY <2>3, <2>4
<1>10. InnerBucketsCurrent'
  <2> SUFFICES ASSUME NEW b \in DOMAIN new, b > FirstLabel(new), b < LastLabel(new)
               PROVE  DerivedOf(b)' = SourceNow(b)'
    BY <1>2 DEF InnerBucketsCurrent
  <2> QED BY <1>9
<1>11. DerivedOK'
  <2>1. DerivedLabels' = DOMAIN new /\ SourceLabels' = SourceLabels
        /\ CoveredBuckets(disk["source"])' = CoveredBuckets(disk["source"])
    BY <1>1, <1>2 DEF DerivedLabels, SourceLabels, CoveredBuckets
  <2> QED BY <1>2, <1>4, <1>6, <1>7, <1>10, <2>1 DEF DerivedOK
<1>12. ProviderOK' /\ SourceOK'
  BY <1>1 DEF SerialInv, ProviderOK, SourceOK, SourceLabels, OnlyLastIsForming, NoHole
<1>13. \A q \in Procs : WorkOK(q)'
  BY <1>1, WorkIdle DEF OneWriter
<1>14. window' = [q \in Procs |-> window'[q]]
  BY <1>1 DEF SerialInv
<1> QED BY <1>11, <1>12, <1>13, <1>14 DEF SerialInv

\* Every step of a cache that one process at a time fills keeps the invariant.
LEMMA SerialNext == OneWriter /\ CInv /\ SerialInv /\ [Next]_vars => SerialInv'
<1> SUFFICES ASSUME OneWriter, CInv, SerialInv, [Next]_vars PROVE SerialInv'
  OBVIOUS
<1>1. CASE UNCHANGED vars
  <2>1. UNCHANGED <<clock, delivered, onTime, disk, pc, pair, window, batch, file>>
    BY <1>1 DEF vars, providerVars, procVars
  <2>2. ProviderOK' /\ SourceOK' /\ DerivedOK'
    BY <2>1 DEF SerialInv, ProviderOK, SourceOK, DerivedOK, SourceLabels, DerivedLabels, OnlyLastIsForming,
                NoHole, InnerBucketsCurrent, DerivedOf, SourceNow, CoveredBuckets
  <2>3. ASSUME NEW p \in Procs PROVE WorkOK(p)'
    <3>1. WorkOK(p)
      BY DEF SerialInv
    <3>2. Planned(p)' /\ Loaded(p)'
      BY <2>1, <3>1 DEF WorkOK, Planned, Loaded, SourceLabels
    <3>3. Fetched(p)'
      BY <2>1, <3>1 DEF WorkOK, Fetched, Answers, SourceLabels
    <3>4. Deriving(p)'
      BY <2>1, <3>1 DEF WorkOK, Deriving, Derives, BarOver, CoveredBuckets, DerivedLabels
    <3> QED BY <3>2, <3>3, <3>4 DEF WorkOK
  <2> QED BY <2>1, <2>2, <2>3 DEF SerialInv
<1>2. CASE Tick \/ \E l \in Periods : LateArrival(l)
  BY <1>2, SerialProvider
<1>3. ASSUME NEW p \in Procs, PlanFetch(p) \/ LoadSource(p) \/ Advance(p) \/ Abandon(p)
      PROVE  SerialInv'
  <2>1. CASE Replace(p)
    <3>1. pair[p] \in Pairs
      BY DEF CInv, Shaped
    <3> QED BY <2>1, <3>1, ReplaceSourceKeeps, ReplaceDerivedKeeps DEF Pairs
  <2> QED BY <1>3, <2>1, PlanKeeps, FetchKeeps, LoadKeeps, DeriveKeeps, LockKeeps DEF Advance
<1> QED BY <1>1, <1>2, <1>3 DEF Next

\* What a cache filled by one process at a time holds in every reachable state.
LEMMA SerialHolds == OneWriter => (Spec => []SerialInv)
<1>1. ASSUME OneWriter PROVE Spec => []SerialInv
  <2>1. CInv /\ SerialInv /\ [Next]_vars => SerialInv'
    BY <1>1, SerialNext
  <2> QED BY <2>1, SerialInit, CacheInit, CacheNext, PTL DEF Spec
<1> QED BY <1>1

\* With one process syncing, only the last cached bar may be a forming copy: the
\* next fetch starts by fetching it again, whatever the provider delays and
\* whatever step the process fails or dies at.
THEOREM OnlyLastForming == OneWriter => (Spec => []OnlyLastIsForming)
<1>1. SerialInv => OnlyLastIsForming
  BY DEF SerialInv, SourceOK
<1> QED BY <1>1, SerialHolds, PTL

\* With one process syncing, resuming at the last cached bar leaves no hole,
\* however far back the windows start and however long the cache was left alone.
THEOREM NoHoleLeft == OneWriter => (Spec => []NoHole)
<1>1. SerialInv => NoHole
  BY DEF SerialInv, SourceOK
<1> QED BY <1>1, SerialHolds, PTL

\* With one process syncing, re-deriving from the last derived bucket on is
\* enough: every inner derived bar is made of exactly the bars its bucket holds.
THEOREM InnerBucketsStayCurrent == OneWriter => (Spec => []InnerBucketsCurrent)
<1>1. SerialInv => InnerBucketsCurrent
  BY DEF SerialInv, DerivedOK
<1> QED BY <1>1, SerialHolds, PTL
=============================================================================
