----------------------------- MODULE CandleCache -----------------------------
(***************************************************************************)
(* The range cache of public candles of one dataset, on a volume that the  *)
(* backtest workers share (getOrFillPublicCandleCacheV2).  Segments are    *)
(* files named by their range and checksum, and the index, a file that is  *)
(* replaced by a rename, lists them.  A reader that is not served by the   *)
(* index takes a lock file, fetches what is missing, stores it and         *)
(* rewrites the index; a reader that finds the lock taken waits for the    *)
(* other, and in the end removes the lock, whoever holds it.               *)
(*                                                                         *)
(* A segment is the set of the times it has candles for.  Its range goes   *)
(* from the first to the last of them: exchanges leave gaps, and a gap     *)
(* inside of a segment counts as cached.                                   *)
(***************************************************************************)
EXTENDS Naturals, FiniteSets, FiniteSetsExt

CONSTANTS
    Readers,   \* bound: jobs that need candles of the dataset
    Times,     \* bound: candles there are
    MonthEnd   \* the last time of a month

ASSUME CandleCacheAssumption ==
    /\ Readers \in Nat \ {0}
    /\ Times \in Nat \ {0}
    /\ MonthEnd \in Nat

Reader == 1 .. Readers
Time   == 1 .. Times
Free   == 0

Ranges == {lo .. hi : lo, hi \in Time} \ {{}}

\* range_start and range_end, which is exclusive in the code.
First(segment) == Min(segment)
Final(segment) == Max(segment)
Span(segment)  == First(segment) .. Final(segment)

\* rangeCacheSegmentCovers.
Covers(outer, inner) == Span(inner) \subseteq Span(outer)

VARIABLES
    policy,     \* BACKTEST_WORKER_CACHE_SEGMENT_POLICY
    files,      \* the segment files: key and candles
    index,      \* the segments the index lists
    lock,       \* the reader whose lock file exists
    takenOver,  \* a lock was removed that a live reader held
    pc,         \* what each reader does next
    wanted,     \* the times each reader needs
    have,       \* the candles the index gave it
    missing,    \* the times it has to fetch
    fresh,      \* the segments it fetched
    plan,       \* the index it is about to write
    removed,    \* whether it removed a lock already
    served,     \* the candles it returned
    hit         \* whether they all came from the cache

store  == <<files, index>>
locks  == <<lock, takenOver>>
reader == <<pc, wanted, have, missing, fresh, plan, removed, served, hit>>
vars   == <<policy, store, locks, reader>>

Init ==
    /\ policy \in {"monthly", "legacy-merge"}
    /\ files = {} /\ index = {}
    /\ lock = Free /\ takenOver = FALSE
    /\ pc = [r \in Reader |-> "idle"]
    /\ wanted = [r \in Reader |-> {}]
    /\ have = [r \in Reader |-> {}]
    /\ missing = [r \in Reader |-> {}]
    /\ fresh = [r \in Reader |-> {}]
    /\ plan = [r \in Reader |-> {}]
    /\ removed = [r \in Reader |-> FALSE]
    /\ served = [r \in Reader |-> {}]
    /\ hit = [r \in Reader |-> FALSE]

Goto(r, label) == pc' = [pc EXCEPT ![r] = label]

----------------------------------------------------------------------------
\* Files and coverage.

\* rangeCacheSegmentStorageKey: the range and the checksum of the candles.
StorageKey(segment) == <<Span(segment), segment>>

File(segment) == [key |-> StorageKey(segment), candles |-> segment]

\* readRangeCacheSegment: the file is there and has the checksum of the index.
Readable(segment) == File(segment) \in files

Stored(segments) ==
    {f \in files : \A s \in segments : f.key # StorageKey(s)} \cup {File(s) : s \in segments}

\* selectRangeCacheSegments: at each time the segment that reaches farthest, or
\* the next to start.
Selected(range) ==
    LET candidates == {s \in index : Span(s) \cap range # {}}
        select[t \in 1 .. Times + 1] ==
            LET covering == {s \in candidates : t \in Span(s)}
                later    == {s \in candidates : First(s) > t}
                chosen   == IF covering # {}
                            THEN CHOOSE a \in covering : \A b \in covering :
                                    \/ Final(a) > Final(b)
                                    \/ Final(a) = Final(b) /\ First(a) <= First(b)
                            ELSE CHOOSE a \in later : \A b \in later :
                                    \/ First(a) < First(b)
                                    \/ First(a) = First(b) /\ Final(a) >= Final(b)
            IN IF t > Max(range) \/ covering \cup later = {} THEN {}
               ELSE {chosen} \cup select[Final(chosen) + 1]
    IN select[Min(range)]

Useful(range) == {s \in Selected(range) : Readable(s) /\ s \cap range # {}}

\* readRangeCacheCoverage
Cached(range) == (UNION Useful(range)) \cap range

\* The search for gaps stops at the last segment.
UncachedBeforeLast(range) ==
    LET covered == UNION {Span(s) : s \in Useful(range)}
    IN {t \in range : t \notin covered /\ (Useful(range) = {} \/ \E c \in covered : t < c)}

\* missingIntervalsForCoverage
Uncached(range) == range \ (UNION {Span(s) : s \in Useful(range)})

\* cacheFetchWindows: the intervals of consecutive missing times; monthly ones
\* end with the month.
Windows(times) ==
    {w \in Ranges :
        /\ w \subseteq times
        /\ ~(policy = "monthly" /\ {MonthEnd, MonthEnd + 1} \subseteq w)
        /\ \A t \in times \ w :
              /\ t + 1 = Min(w) => policy = "monthly" /\ t = MonthEnd
              /\ t = Max(w) + 1 => policy = "monthly" /\ Max(w) = MonthEnd}

\* pruneCoveredRangeCacheSegments
Pruned(segments, new) ==
    {s \in segments : \A n \in new : ~Covers(n, s)} \cup new

\* compactRangeCacheSegments: the legacy policy merges each group of segments
\* that start where the one before, in their order, ends.
Compacted(segments) ==
    LET Before(a, b) == First(a) < First(b) \/ (First(a) = First(b) /\ Final(a) < Final(b))
        Successive(a, b) == Before(a, b) /\ \A c \in segments : ~(Before(a, c) /\ Before(c, b))
        Starts == {b \in segments : \A a \in segments : Successive(a, b) => Final(a) + 1 # First(b)}
        Group(b) == {b} \cup {s \in segments :
                                Before(b, s) /\ \A c \in Starts : Before(b, c) => Before(s, c)}
    IN IF policy = "monthly" THEN segments ELSE {UNION Group(b) : b \in Starts}

----------------------------------------------------------------------------
\* The reader: getOrFillPublicCandleCacheV2.

\* Readers come in the order of their numbers.
Ask(r) ==
    /\ pc[r] = "idle" /\ \A q \in Reader : q < r => pc[q] # "idle"
    /\ \E range \in Ranges : wanted' = [wanted EXCEPT ![r] = range]
    /\ Goto(r, "read")
    /\ UNCHANGED <<policy, store, locks, have, missing, fresh, plan, removed, served, hit>>

\* The range is returned from the index.
Hit(r) ==
    /\ Uncached(wanted[r]) = {}
    /\ served' = [served EXCEPT ![r] = Cached(wanted[r])]
    /\ hit' = [hit EXCEPT ![r] = TRUE]

Read(r) ==
    /\ pc[r] = "read"
    /\ \/ Hit(r) /\ Goto(r, "done")
       \/ Uncached(wanted[r]) # {} /\ Goto(r, "try") /\ UNCHANGED <<served, hit>>
    /\ UNCHANGED <<policy, store, locks, wanted, have, missing, fresh, plan, removed>>

\* The lock file is opened without "x".
CanLockAlways == TRUE

CanLock == lock = Free

\* tryAcquireCacheLock: a lock is stale by its age alone, so a lock that is
\* held by a slow reader may be, too.
TryLock(r) ==
    /\ pc[r] = "try"
    /\ \/ CanLock /\ lock' = r /\ Goto(r, "winner")
       \/ ~CanLock /\ lock' = lock /\ Goto(r, "wait")
       \/ ~CanLock /\ ~removed[r] /\ lock' = lock /\ Goto(r, "remove")
    /\ UNCHANGED <<policy, store, takenOver, wanted, have, missing, fresh, plan, removed, served, hit>>

Holders == {r \in Reader : pc[r] \in {"winner", "fetch", "store", "compact", "publish", "release"}}

\* releaseCacheLock removes the file, whoever wrote it.
Unlock(r) ==
    /\ lock' = Free
    /\ takenOver' = (takenOver \/ (lock # r /\ lock \in Holders))

RemoveLock(r) ==
    /\ pc[r] = "remove"
    /\ Unlock(r)
    /\ removed' = [removed EXCEPT ![r] = TRUE]
    /\ Goto(r, "try")
    /\ UNCHANGED <<policy, store, wanted, have, missing, fresh, plan, served, hit>>

\* A waiter waits for as long as it takes.
AfterWaitAgain(r) == "wait"

\* After CACHE_LOCK_TIMEOUT_MS the lock is removed once; then the job fails.
AfterWait(r) == IF removed[r] THEN "done" ELSE "remove"

\* waitForRangeCachedPublicCandles
Wait(r) ==
    /\ pc[r] = "wait"
    /\ \/ Hit(r) /\ Goto(r, "done")
       \/ Goto(r, AfterWait(r)) /\ UNCHANGED <<served, hit>>
    /\ UNCHANGED <<policy, store, locks, wanted, have, missing, fresh, plan, removed>>

\* With the lock the index is read again: another may have filled the range.
ReadAgain(r) ==
    /\ pc[r] = "winner"
    /\ \/ Hit(r) /\ Goto(r, "release") /\ UNCHANGED <<have, missing>>
       \/ /\ Uncached(wanted[r]) # {}
          /\ have' = [have EXCEPT ![r] = Cached(wanted[r])]
          /\ missing' = [missing EXCEPT ![r] = Uncached(wanted[r])]
          /\ Goto(r, "fetch")
          /\ UNCHANGED <<served, hit>>
    /\ UNCHANGED <<policy, store, locks, wanted, fresh, plan, removed>>

\* sliceAndDedupeCandles
Slice(candles, window) == candles \cap window

\* fetchPublicCandles for every window: the exchange answers with any candles,
\* and, asked for a number of them, with some past the window.
Fetch(r) ==
    /\ pc[r] = "fetch"
    /\ \E candles \in SUBSET Time :
          fresh' = [fresh EXCEPT ![r] = {Slice(candles, w) : w \in Windows(missing[r])} \ {{}}]
    /\ missing' = [missing EXCEPT ![r] = {}]
    /\ Goto(r, "store")
    /\ UNCHANGED <<policy, store, locks, wanted, have, plan, removed, served, hit>>

\* writeRangeCacheSegment for each of them, before the index.
StoreSegments(r) ==
    /\ pc[r] = "store"
    /\ files' = Stored(fresh[r])
    /\ Goto(r, IF fresh[r] = {} THEN "return" ELSE "compact")
    /\ UNCHANGED <<policy, index, locks, wanted, have, missing, fresh, plan, removed, served, hit>>

\* upsertRangeCacheSegments reads the index, and stores what it merged ...
Compact(r) ==
    /\ pc[r] = "compact"
    /\ LET segments == Compacted(Pruned(index, fresh[r])) IN
          /\ plan' = [plan EXCEPT ![r] = segments]
          /\ files' = Stored(segments)
    /\ Goto(r, "publish")
    /\ UNCHANGED <<policy, index, locks, wanted, have, missing, fresh, removed, served, hit>>

\* ... and replaces the index by what it made of it.
Publish(r) ==
    /\ pc[r] = "publish"
    /\ index' = plan[r]
    /\ plan' = [plan EXCEPT ![r] = {}]
    /\ Goto(r, "return")
    /\ UNCHANGED <<policy, files, locks, wanted, have, missing, fresh, removed, served, hit>>

Return(r) ==
    /\ pc[r] = "return"
    /\ served' = [served EXCEPT ![r] = have[r] \cup (UNION fresh[r])]
    /\ have' = [have EXCEPT ![r] = {}]
    /\ fresh' = [fresh EXCEPT ![r] = {}]
    /\ Goto(r, "release")
    /\ UNCHANGED <<policy, store, locks, wanted, missing, plan, removed, hit>>

\* An error or the deadline: the finally clause still removes the lock.
Fail(r) ==
    /\ pc[r] \in {"read", "try", "wait", "winner", "fetch", "store", "compact", "publish"}
    /\ Goto(r, IF pc[r] \in {"read", "try", "wait"} THEN "done" ELSE "release")
    /\ have' = [have EXCEPT ![r] = {}]
    /\ missing' = [missing EXCEPT ![r] = {}]
    /\ fresh' = [fresh EXCEPT ![r] = {}]
    /\ plan' = [plan EXCEPT ![r] = {}]
    /\ UNCHANGED <<policy, store, locks, wanted, removed, served, hit>>

Release(r) ==
    /\ pc[r] = "release"
    /\ Unlock(r)
    /\ Goto(r, "done")
    /\ UNCHANGED <<policy, store, wanted, have, missing, fresh, plan, removed, served, hit>>

\* The worker process dies; its lock file stays.
Die(r) ==
    /\ pc[r] \notin {"idle", "done"}
    /\ Goto(r, "done")
    /\ have' = [have EXCEPT ![r] = {}]
    /\ missing' = [missing EXCEPT ![r] = {}]
    /\ fresh' = [fresh EXCEPT ![r] = {}]
    /\ plan' = [plan EXCEPT ![r] = {}]
    /\ UNCHANGED <<policy, store, locks, wanted, removed, served, hit>>

Step(r) ==
    \/ Read(r) \/ TryLock(r) \/ RemoveLock(r) \/ Wait(r) \/ ReadAgain(r) \/ Fetch(r)
    \/ StoreSegments(r) \/ Compact(r) \/ Publish(r) \/ Return(r) \/ Release(r)

Next == \E r \in Reader : Ask(r) \/ Step(r) \/ Fail(r) \/ Die(r)

\* A live process goes on; nothing is assumed of the deadline.
Fairness == \A r \in Reader : WF_vars(Step(r))

Spec == Init /\ [][Next]_vars /\ Fairness

----------------------------------------------------------------------------
\* Type invariant.
TypeOK ==
    /\ policy \in {"monthly", "legacy-merge"}
    /\ index \subseteq (SUBSET Time) \ {{}}
    /\ \A f \in files : f.candles \in (SUBSET Time) \ {{}}
    /\ lock \in Reader \cup {Free} /\ takenOver \in BOOLEAN
    /\ wanted \in [Reader -> SUBSET Time] /\ served \in [Reader -> SUBSET Time]
    /\ \A r \in Reader : fresh[r] \subseteq SUBSET wanted[r] /\ plan[r] \subseteq SUBSET Time
    /\ removed \in [Reader -> BOOLEAN] /\ hit \in [Reader -> BOOLEAN]

\* Every segment the index lists can be read with the checksum the index gives,
\* whatever readers overlapped, failed or died: segments are stored before they
\* are listed, and a file is never replaced by other candles.
IndexIsReadable == \A s \in index : Readable(s)

\* A cache hit leaves out a time only where the exchange left it out between
\* two candles that were fetched together or merged (missingIntervalsForCoverage).
HitsAreComplete ==
    \A r \in Reader : hit[r] =>
        \A t \in wanted[r] \ served[r] :
            \E f \in files : t \in Span(f.candles) \ f.candles

\* A range the index covers stays covered as long as no reader removed the lock
\* of a live one: two readers never rewrite the index from the same old one.
CoverageIsKept ==
    [][~takenOver' => UNION {Span(s) : s \in index} \subseteq UNION {Span(s) : s \in index'}]_vars

\* Every reader is served, fails or dies, though a lock may outlive its process
\* and other readers keep taking it.
EveryReaderEnds == \A r \in Reader : pc[r] # "idle" ~> pc[r] = "done"

\* What the index lists can be read, and what is served from it is complete.
CacheIsSound == TypeOK /\ IndexIsReadable /\ HitsAreComplete
=============================================================================
