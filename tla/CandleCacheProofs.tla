-------------------------- MODULE CandleCacheProofs --------------------------
(***************************************************************************)
(* What the candle cache promises for every number of readers and of       *)
(* candles, under both segment policies, with locks taken from live        *)
(* readers, failures and deaths at any step.                               *)
(*                                                                         *)
(* That the cache is sound does not depend on the lock: files are named by *)
(* what is in them, so storing never replaces one by another, and what a   *)
(* reader is about to list was stored before, whoever wrote the index      *)
(* meanwhile.  That it keeps what it covers does: a reader plans the index *)
(* from the one it replaces only while nobody takes its lock.              *)
(***************************************************************************)
EXTENDS CandleCache, WellFoundedInduction, TLAPS

Segment == (SUBSET Time) \ {{}}

Labels == {"idle", "read", "try", "wait", "remove", "winner", "fetch", "store", "compact", "publish",
           "return", "release", "done"}

\* A file is named by its candles.
StoreShape ==
    /\ index \subseteq Segment
    /\ \A f \in files : f.candles \in Segment /\ f = File(f.candles)

ReaderShape ==
    /\ pc \in [Reader -> Labels]
    /\ wanted \in [Reader -> SUBSET Time] /\ served \in [Reader -> SUBSET Time]
    /\ have \in [Reader -> SUBSET Time] /\ missing \in [Reader -> SUBSET Time]
    /\ fresh \in [Reader -> SUBSET Segment] /\ plan \in [Reader -> SUBSET Segment]
    /\ removed \in [Reader -> BOOLEAN] /\ hit \in [Reader -> BOOLEAN]

Shape ==
    /\ policy \in {"monthly", "legacy-merge"}
    /\ lock \in Reader \cup {Free} /\ takenOver \in BOOLEAN
    /\ StoreShape /\ ReaderShape

\* Whether a time that a reader was not served is one the exchange left out.
LeftOut(t) == \E f \in files : t \in Span(f.candles) \ f.candles

\* What each reader has is what it wanted; what it is about to list is stored; a hit
\* is its last answer.
Knows(r) ==
    /\ missing[r] \subseteq wanted[r] /\ \A s \in fresh[r] : s \subseteq wanted[r]
    /\ pc[r] = "idle" => missing[r] = {} /\ fresh[r] = {}
    /\ \A s \in plan[r] : Readable(s)
    /\ hit[r] => pc[r] \in {"release", "done"} /\ \A t \in wanted[r] \ served[r] : LeftOut(t)

CacheInv == Shape /\ IndexIsReadable /\ \A r \in Reader : Knows(r)

\* The invariant says what CacheIsSound says.
LEMMA InvIsSound == CacheInv => CacheIsSound
<1> SUFFICES ASSUME CacheInv PROVE CacheIsSound
  OBVIOUS
<1>1. TypeOK
  <2>1. \A r \in Reader : fresh[r] \subseteq SUBSET wanted[r] /\ plan[r] \subseteq SUBSET Time
    BY DEF CacheInv, Shape, ReaderShape, Knows, Segment
  <2>2. index \subseteq (SUBSET Time) \ {{}} /\ \A f \in files : f.candles \in (SUBSET Time) \ {{}}
    BY DEF CacheInv, Shape, StoreShape, Segment
  <2> QED
    BY <2>1, <2>2 DEF CacheInv, Shape, ReaderShape, TypeOK
<1>2. HitsAreComplete
  BY DEF CacheInv, Knows, LeftOut, HitsAreComplete
<1> QED
  BY <1>1, <1>2 DEF CacheInv, CacheIsSound

----------------------------------------------------------------------------
(* Files and segments.                                                     *)

\* Storing adds files and takes none away.
LEMMA StoringAdds ==
    ASSUME StoreShape, NEW segments \in SUBSET Segment
    PROVE  /\ files \subseteq Stored(segments)
           /\ \A s \in segments : File(s) \in Stored(segments)
           /\ \A f \in Stored(segments) : f.candles \in Segment /\ f = File(f.candles)
<1>1. ASSUME NEW f \in files PROVE f \in Stored(segments)
  <2>1. f = File(f.candles) /\ f.key = StorageKey(f.candles)
    BY DEF StoreShape, File
  <2>2. ASSUME NEW s \in segments, f.key = StorageKey(s) PROVE f = File(s)
    BY <2>1, <2>2 DEF StorageKey
  <2> QED
    BY <2>2 DEF Stored
<1>2. \A s \in segments : File(s).candles = s
  BY DEF File
<1> QED
  BY <1>1, <1>2 DEF Stored, StoreShape

\* What is listed and what was left out stay so.
LEMMA FilesStay ==
    ASSUME files \subseteq files'
    PROVE  /\ \A s : Readable(s) => Readable(s)'
           /\ \A t : LeftOut(t) => LeftOut(t)'
BY DEF Readable, LeftOut

\* Pruning lists nothing new but what was fetched.
LEMMA PrunedSegments ==
    ASSUME NEW old \in SUBSET Segment, NEW new \in SUBSET Segment
    PROVE  Pruned(old, new) \in SUBSET Segment
BY DEF Pruned

\* Merging segments gives segments.
LEMMA CompactedSegments ==
    ASSUME NEW segments \in SUBSET Segment
    PROVE  Compacted(segments) \in SUBSET Segment
<1> DEFINE Before(a, b) == First(a) < First(b) \/ (First(a) = First(b) /\ Final(a) < Final(b))
           Successive(a, b) == Before(a, b) /\ \A c \in segments : ~(Before(a, c) /\ Before(c, b))
           Starts == {b \in segments : \A a \in segments : Successive(a, b) => Final(a) + 1 # First(b)}
           Group(b) == {b} \cup {s \in segments :
                                   Before(b, s) /\ \A c \in Starts : Before(b, c) => Before(s, c)}
<1>1. Compacted(segments) = IF policy = "monthly" THEN segments ELSE {UNION Group(b) : b \in Starts}
  BY DEF Compacted
<1>2. ASSUME NEW b \in Starts PROVE UNION Group(b) \in Segment
  <2>1. b \in segments /\ Group(b) \subseteq segments /\ b \in Group(b)
    OBVIOUS
  <2>2. PICK g : g = Group(b)
    OBVIOUS
  <2> HIDE DEF Group
  <2>3. b \in Segment /\ g \subseteq Segment /\ b \in g
    BY <2>1, <2>2
  <2>4. UNION g \in SUBSET Time /\ b \subseteq UNION g
    BY <2>3 DEF Segment
  <2>5. UNION g \in Segment
    BY <2>3, <2>4 DEF Segment
  <2> QED
    BY <2>2, <2>5
<1> HIDE DEF Group, Starts
<1> QED
  BY <1>1, <1>2

\* A range that the index covers lacks only what was left out between two candles.
LEMMA CoveredIsComplete ==
    ASSUME NEW range \in SUBSET Time, Uncached(range) = {}
    PROVE  Cached(range) \in SUBSET Time /\ \A t \in range \ Cached(range) : LeftOut(t)
<1>1. Cached(range) \subseteq range
  BY DEF Cached
<1>2. ASSUME NEW t \in range \ Cached(range) PROVE LeftOut(t)
  <2>1. PICK s \in Useful(range) : t \in Span(s)
    BY DEF Uncached
  <2>2. t \notin s
    BY <1>2 DEF Cached
  <2>3. File(s) \in files /\ File(s).candles = s
    BY <2>1 DEF Useful, Readable, File
  <2> QED
    BY <2>1, <2>2, <2>3 DEF LeftOut
<1> QED
  BY <1>1, <1>2

----------------------------------------------------------------------------
(* Steps.                                                                  *)

\* A reader that does not act knows what it knew, as long as no file is taken away.
LEMMA OthersKnow ==
    ASSUME NEW r \in Reader, Knows(r), files \subseteq files', pc'[r] = pc[r], wanted'[r] = wanted[r],
           missing'[r] = missing[r], fresh'[r] = fresh[r], plan'[r] = plan[r], hit'[r] = hit[r],
           served'[r] = served[r]
    PROVE  Knows(r)'
BY FilesStay DEF Knows

\* A step of one reader that takes no file away.
LEMMA ReaderActs ==
    ASSUME CacheInv, NEW r \in Reader, Shape', files \subseteq files',
           \A s \in index' : s \in index \/ Readable(s)',
           \A q \in Reader \ {r} :
               /\ pc'[q] = pc[q] /\ wanted'[q] = wanted[q] /\ missing'[q] = missing[q]
               /\ fresh'[q] = fresh[q] /\ plan'[q] = plan[q] /\ hit'[q] = hit[q]
               /\ served'[q] = served[q],
           Knows(r)'
    PROVE  CacheInv'
<1>1. ASSUME NEW q \in Reader \ {r} PROVE Knows(q)'
  BY OthersKnow DEF CacheInv
<1>2. IndexIsReadable'
  BY FilesStay DEF CacheInv, IndexIsReadable
<1> QED
  BY <1>1, <1>2 DEF CacheInv

\* The answer of a hit.
LEMMA HitIsComplete ==
    ASSUME CacheInv, NEW r \in Reader, Hit(r)
    PROVE  /\ served' \in [Reader -> SUBSET Time] /\ hit' \in [Reader -> BOOLEAN]
           /\ \A t \in wanted[r] \ served'[r] : LeftOut(t)
           /\ \A q \in Reader \ {r} : served'[q] = served[q] /\ hit'[q] = hit[q]
<1>1. wanted[r] \in SUBSET Time
  BY DEF CacheInv, Shape, ReaderShape
<1>2. Cached(wanted[r]) \in SUBSET Time /\ \A t \in wanted[r] \ Cached(wanted[r]) : LeftOut(t)
  BY <1>1, CoveredIsComplete DEF Hit
<1>3. served' = [served EXCEPT ![r] = Cached(wanted[r])] /\ hit' = [hit EXCEPT ![r] = TRUE]
  BY DEF Hit
<1> QED
  BY <1>2, <1>3 DEF CacheInv, Shape, ReaderShape

\* A reader that goes on, while files and the index stay.
LEMMA GoesOn ==
    ASSUME CacheInv, NEW r \in Reader, NEW l \in Labels \ {"idle"}, Goto(r, l),
           UNCHANGED <<policy, store, wanted, have, missing, fresh, plan>>,
           removed' \in [Reader -> BOOLEAN],
           lock' \in Reader \cup {Free}, takenOver' \in BOOLEAN,
           \/ UNCHANGED <<served, hit>> /\ (pc[r] \in {"release", "done"} => l = "done")
           \/ Hit(r) /\ l \in {"release", "done"}
    PROVE  CacheInv'
<1>1. UNCHANGED <<policy, files, index, wanted, have, missing, fresh, plan>>
  BY DEF store
<1>2. /\ pc' \in [Reader -> Labels] /\ pc'[r] = l /\ \A q \in Reader \ {r} : pc'[q] = pc[q]
  BY DEF Goto, CacheInv, Shape, ReaderShape
<1>3. /\ served' \in [Reader -> SUBSET Time] /\ hit' \in [Reader -> BOOLEAN]
      /\ \A q \in Reader \ {r} : served'[q] = served[q] /\ hit'[q] = hit[q]
      /\ hit'[r] => l \in {"release", "done"} /\ \A t \in wanted[r] \ served'[r] : LeftOut(t)
  <2>1. CASE UNCHANGED <<served, hit>> /\ (pc[r] \in {"release", "done"} => l = "done")
    BY <2>1 DEF CacheInv, Shape, ReaderShape, Knows
  <2>2. CASE Hit(r) /\ l \in {"release", "done"}
    BY <2>2, HitIsComplete
  <2> QED
    BY <2>1, <2>2
<1>4. Shape'
  <2>1. StoreShape'
    BY <1>1 DEF CacheInv, Shape, StoreShape, File, StorageKey
  <2>2. ReaderShape'
    BY <1>1, <1>2, <1>3 DEF CacheInv, Shape, ReaderShape
  <2> QED
    BY <1>1, <2>1, <2>2 DEF CacheInv, Shape
<1>5. Knows(r)'
  BY <1>1, <1>2, <1>3, FilesStay DEF CacheInv, Knows
<1>6. \A s \in index' : s \in index
  BY <1>1
<1> QED
  BY <1>1, <1>2, <1>3, <1>4, <1>5, <1>6, ReaderActs

\* A reader that forgets what it had, while files and index stay.
LEMMA Forgets ==
    ASSUME CacheInv, NEW r \in Reader, Fail(r) \/ Die(r)
    PROVE  CacheInv'
<1>1. PICK l \in {"done", "release"} :
        /\ pc' = [pc EXCEPT ![r] = l] /\ (pc[r] \in {"release", "done"} => l = "done")
        /\ have' = [have EXCEPT ![r] = {}] /\ missing' = [missing EXCEPT ![r] = {}]
        /\ fresh' = [fresh EXCEPT ![r] = {}] /\ plan' = [plan EXCEPT ![r] = {}]
        /\ UNCHANGED <<policy, files, index, lock, takenOver, wanted, removed, served, hit>>
  BY DEF Fail, Die, Goto, store, locks
<1>2. /\ {} \in SUBSET Time /\ {} \in SUBSET Segment
      /\ l \in Labels
  BY DEF Labels
<1>3. ReaderShape'
  <2>1. pc' \in [Reader -> Labels] /\ have' \in [Reader -> SUBSET Time] /\ missing' \in [Reader -> SUBSET Time]
    BY <1>1, <1>2 DEF CacheInv, Shape, ReaderShape
  <2>2. fresh' \in [Reader -> SUBSET Segment] /\ plan' \in [Reader -> SUBSET Segment]
    BY <1>1, <1>2 DEF CacheInv, Shape, ReaderShape
  <2> QED
    BY <1>1, <2>1, <2>2 DEF CacheInv, Shape, ReaderShape
<1>4. Shape'
  BY <1>1, <1>3 DEF CacheInv, Shape, StoreShape, File, StorageKey
<1>5. /\ pc'[r] = l /\ missing'[r] = {} /\ fresh'[r] = {} /\ plan'[r] = {}
      /\ \A q \in Reader \ {r} : /\ pc'[q] = pc[q] /\ missing'[q] = missing[q]
                                 /\ fresh'[q] = fresh[q] /\ plan'[q] = plan[q]
  BY <1>1 DEF CacheInv, Shape, ReaderShape
<1>6. Knows(r)'
  BY <1>1, <1>5, FilesStay DEF CacheInv, Knows
<1> QED
  BY <1>1, <1>4, <1>5, <1>6, ReaderActs

\* A range is asked for by a reader that has nothing yet.
LEMMA Asks ==
    ASSUME CacheInv, NEW r \in Reader, Ask(r)
    PROVE  CacheInv'
<1>1. PICK range \in Ranges : wanted' = [wanted EXCEPT ![r] = range]
  BY DEF Ask
<1>2. range \in SUBSET Time
  <2>1. PICK lo \in Time, hi \in Time : range = lo .. hi
    BY DEF Ranges
  <2> QED
    BY <2>1, CandleCacheAssumption DEF Time
<1>3. /\ pc[r] = "idle" /\ pc' = [pc EXCEPT ![r] = "read"]
      /\ UNCHANGED <<policy, files, index, lock, takenOver, have, missing, fresh, plan, removed, served, hit>>
  BY DEF Ask, Goto, store, locks
<1>4. ReaderShape'
  BY <1>1, <1>2, <1>3 DEF CacheInv, Shape, ReaderShape, Labels
<1>5. Shape'
  BY <1>3, <1>4 DEF CacheInv, Shape, StoreShape, File, StorageKey
<1>6. /\ pc'[r] = "read" /\ \A q \in Reader \ {r} : pc'[q] = pc[q] /\ wanted'[q] = wanted[q]
  BY <1>1, <1>3 DEF CacheInv, Shape, ReaderShape
<1>7. Knows(r)'
  BY <1>3, <1>6, FilesStay DEF CacheInv, Knows
<1> QED
  BY <1>3, <1>5, <1>6, <1>7, ReaderActs

\* What is missing is part of what is wanted.
LEMMA ReadsAgain ==
    ASSUME CacheInv, NEW r \in Reader, ReadAgain(r), ~Hit(r)
    PROVE  CacheInv'
<1>1. /\ have' = [have EXCEPT ![r] = Cached(wanted[r])]
      /\ missing' = [missing EXCEPT ![r] = Uncached(wanted[r])]
      /\ pc' = [pc EXCEPT ![r] = "fetch"] /\ pc[r] = "winner"
      /\ UNCHANGED <<policy, files, index, lock, takenOver, wanted, fresh, plan, removed, served, hit>>
  BY DEF ReadAgain, Goto, store, locks
<1>2. /\ Cached(wanted[r]) \in SUBSET Time /\ Uncached(wanted[r]) \in SUBSET Time
      /\ Uncached(wanted[r]) \subseteq wanted[r]
  BY DEF CacheInv, Shape, ReaderShape, Cached, Uncached
<1>3. ReaderShape'
  BY <1>1, <1>2 DEF CacheInv, Shape, ReaderShape, Labels
<1>4. Shape'
  BY <1>1, <1>3 DEF CacheInv, Shape, StoreShape, File, StorageKey
<1>5. /\ pc'[r] = "fetch" /\ missing'[r] = Uncached(wanted[r])
      /\ \A q \in Reader \ {r} : pc'[q] = pc[q] /\ missing'[q] = missing[q]
  BY <1>1 DEF CacheInv, Shape, ReaderShape
<1>6. Knows(r)'
  BY <1>1, <1>2, <1>5, FilesStay DEF CacheInv, Knows
<1> QED
  BY <1>1, <1>4, <1>5, <1>6, ReaderActs

\* What is fetched lies in the windows that were missing.
LEMMA Fetches ==
    ASSUME CacheInv, NEW r \in Reader, Fetch(r)
    PROVE  CacheInv'
<1>1. PICK candles, new :
        /\ candles \in SUBSET Time
        /\ new = {Slice(candles, w) : w \in Windows(missing[r])} \ {{}}
        /\ fresh' = [fresh EXCEPT ![r] = new]
  BY DEF Fetch
<1>2. /\ missing' = [missing EXCEPT ![r] = {}] /\ pc' = [pc EXCEPT ![r] = "store"] /\ pc[r] = "fetch"
      /\ UNCHANGED <<policy, files, index, lock, takenOver, wanted, have, plan, removed, served, hit>>
  BY DEF Fetch, Goto, store, locks
<1>3. ASSUME NEW s \in new PROVE s \in Segment /\ s \subseteq wanted[r]
  <2>1. PICK w \in Windows(missing[r]) : s = candles \cap w /\ s # {}
    BY <1>1 DEF Slice
  <2>2. w \subseteq missing[r] /\ missing[r] \subseteq wanted[r]
    BY DEF Windows, CacheInv, Knows
  <2>3. s \in SUBSET Time
    BY <1>1, <2>1
  <2>4. s \subseteq wanted[r]
    BY <2>1, <2>2
  <2> QED
    BY <2>1, <2>3, <2>4 DEF Segment
<1>4. new \in SUBSET Segment
  BY <1>3
<1>5. ReaderShape'
  <2>1. fresh' \in [Reader -> SUBSET Segment]
    BY <1>1, <1>4 DEF CacheInv, Shape, ReaderShape
  <2>2. missing' \in [Reader -> SUBSET Time] /\ pc' \in [Reader -> Labels]
    BY <1>2, {} \in SUBSET Time DEF CacheInv, Shape, ReaderShape, Labels
  <2> QED
    BY <1>2, <2>1, <2>2 DEF CacheInv, Shape, ReaderShape
<1>6. Shape'
  BY <1>2, <1>5 DEF CacheInv, Shape, StoreShape, File, StorageKey
<1>7. /\ pc'[r] = "store" /\ missing'[r] = {} /\ fresh'[r] = new
      /\ \A q \in Reader \ {r} : pc'[q] = pc[q] /\ missing'[q] = missing[q] /\ fresh'[q] = fresh[q]
  BY <1>1, <1>2 DEF CacheInv, Shape, ReaderShape
<1>8. Knows(r)'
  BY <1>2, <1>3, <1>7, FilesStay DEF CacheInv, Knows
<1> QED
  BY <1>2, <1>6, <1>7, <1>8, ReaderActs

\* Segments are stored before they are listed, first what was fetched ...
LEMMA Stores ==
    ASSUME CacheInv, NEW r \in Reader, StoreSegments(r)
    PROVE  CacheInv'
<1>1. PICK l \in {"return", "compact"} : pc' = [pc EXCEPT ![r] = l]
  BY DEF StoreSegments, Goto
<1>2. /\ pc[r] = "store" /\ files' = Stored(fresh[r])
      /\ UNCHANGED <<policy, index, lock, takenOver, wanted, have, missing, fresh, plan, removed, served, hit>>
  BY DEF StoreSegments, locks
<1>3. fresh[r] \in SUBSET Segment
  BY DEF CacheInv, Shape, ReaderShape
<1>4. files \subseteq files' /\ \A f \in files' : f.candles \in Segment /\ f = File(f.candles)
  BY <1>2, <1>3, StoringAdds DEF CacheInv, Shape
<1>5. Shape'
  <2>1. StoreShape'
    BY <1>2, <1>4 DEF CacheInv, Shape, StoreShape, File, StorageKey
  <2>2. ReaderShape'
    BY <1>1, <1>2 DEF CacheInv, Shape, ReaderShape, Labels
  <2> QED
    BY <1>2, <2>1, <2>2 DEF CacheInv, Shape
<1>6. pc'[r] = l /\ \A q \in Reader \ {r} : pc'[q] = pc[q]
  BY <1>1 DEF CacheInv, Shape, ReaderShape
<1>7. Knows(r)'
  BY <1>2, <1>4, <1>6, FilesStay DEF CacheInv, Knows
<1> QED
  BY <1>2, <1>4, <1>5, <1>6, <1>7, ReaderActs

\* ... then what was merged from it and from the index.
LEMMA Compacts ==
    ASSUME CacheInv, NEW r \in Reader, Compact(r)
    PROVE  CacheInv'
<1>1. PICK segments : segments = Compacted(Pruned(index, fresh[r]))
  OBVIOUS
<1>2. /\ plan' = [plan EXCEPT ![r] = segments] /\ files' = Stored(segments)
      /\ pc[r] = "compact" /\ pc' = [pc EXCEPT ![r] = "publish"]
      /\ UNCHANGED <<policy, index, lock, takenOver, wanted, have, missing, fresh, removed, served, hit>>
  BY <1>1 DEF Compact, Goto, locks
<1>3. segments \in SUBSET Segment
  <2>1. Pruned(index, fresh[r]) \in SUBSET Segment
    BY PrunedSegments DEF CacheInv, Shape, StoreShape, ReaderShape
  <2> QED
    BY <1>1, <2>1, CompactedSegments
<1>4. /\ files \subseteq files' /\ \A f \in files' : f.candles \in Segment /\ f = File(f.candles)
      /\ \A s \in segments : File(s) \in files'
  BY <1>2, <1>3, StoringAdds DEF CacheInv, Shape
<1>5. Shape'
  <2>1. StoreShape'
    BY <1>2, <1>4 DEF CacheInv, Shape, StoreShape, File, StorageKey
  <2>2. ReaderShape'
    BY <1>2, <1>3 DEF CacheInv, Shape, ReaderShape, Labels
  <2> QED
    BY <1>2, <2>1, <2>2 DEF CacheInv, Shape
<1>6. /\ pc'[r] = "publish" /\ plan'[r] = segments
      /\ \A q \in Reader \ {r} : pc'[q] = pc[q] /\ plan'[q] = plan[q]
  BY <1>2 DEF CacheInv, Shape, ReaderShape
<1>7. \A s \in segments : Readable(s)'
  BY <1>4 DEF Readable, File, StorageKey
<1>8. Knows(r)'
  BY <1>2, <1>4, <1>6, <1>7, FilesStay DEF CacheInv, Knows
<1> QED
  BY <1>2, <1>4, <1>5, <1>6, <1>8, ReaderActs

\* The index is replaced by a plan all of which is stored.
LEMMA Publishes ==
    ASSUME CacheInv, NEW r \in Reader, Publish(r)
    PROVE  CacheInv'
<1>1. /\ index' = plan[r] /\ plan' = [plan EXCEPT ![r] = {}]
      /\ pc[r] = "publish" /\ pc' = [pc EXCEPT ![r] = "return"]
      /\ UNCHANGED <<policy, files, lock, takenOver, wanted, have, missing, fresh, removed, served, hit>>
  BY DEF Publish, Goto, locks
<1>2. plan[r] \in SUBSET Segment /\ \A s \in plan[r] : Readable(s)
  BY DEF CacheInv, Shape, ReaderShape, Knows
<1>3. Shape'
  <2>1. StoreShape'
    BY <1>1, <1>2 DEF CacheInv, Shape, StoreShape, File, StorageKey
  <2>2. ReaderShape'
    BY <1>1, {} \in SUBSET Segment DEF CacheInv, Shape, ReaderShape, Labels
  <2> QED
    BY <1>1, <2>1, <2>2 DEF CacheInv, Shape
<1>4. /\ pc'[r] = "return" /\ plan'[r] = {}
      /\ \A q \in Reader \ {r} : pc'[q] = pc[q] /\ plan'[q] = plan[q]
  BY <1>1 DEF CacheInv, Shape, ReaderShape
<1>5. Knows(r)'
  BY <1>1, <1>4, FilesStay DEF CacheInv, Knows
<1>6. \A s \in index' : Readable(s)'
  BY <1>1, <1>2, FilesStay
<1> QED
  BY <1>1, <1>3, <1>4, <1>5, <1>6, ReaderActs

\* What was cached and what was fetched is returned.
LEMMA Returns ==
    ASSUME CacheInv, NEW r \in Reader, Return(r)
    PROVE  CacheInv'
<1>1. PICK candles : candles = have[r] \cup (UNION fresh[r])
  OBVIOUS
<1>2. /\ served' = [served EXCEPT ![r] = candles]
      /\ have' = [have EXCEPT ![r] = {}] /\ fresh' = [fresh EXCEPT ![r] = {}]
      /\ pc[r] = "return" /\ pc' = [pc EXCEPT ![r] = "release"]
      /\ UNCHANGED <<policy, files, index, lock, takenOver, wanted, missing, plan, removed, hit>>
  BY <1>1 DEF Return, Goto, store, locks
<1>3. candles \in SUBSET Time
  BY <1>1 DEF CacheInv, Shape, ReaderShape, Segment
<1>4. Shape'
  <2>1. StoreShape'
    BY <1>2 DEF CacheInv, Shape, StoreShape, File, StorageKey
  <2>2. fresh' \in [Reader -> SUBSET Segment] /\ have' \in [Reader -> SUBSET Time]
    BY <1>2, {} \in SUBSET Segment, {} \in SUBSET Time DEF CacheInv, Shape, ReaderShape
  <2>3. served' \in [Reader -> SUBSET Time] /\ pc' \in [Reader -> Labels]
    BY <1>2, <1>3 DEF CacheInv, Shape, ReaderShape, Labels
  <2> QED
    BY <1>2, <2>1, <2>2, <2>3 DEF CacheInv, Shape, ReaderShape
<1>5. /\ pc'[r] = "release" /\ fresh'[r] = {} /\ hit[r] = FALSE
      /\ \A q \in Reader \ {r} : pc'[q] = pc[q] /\ fresh'[q] = fresh[q] /\ served'[q] = served[q]
  BY <1>2 DEF CacheInv, Shape, ReaderShape, Knows
<1>6. Knows(r)'
  BY <1>2, <1>5, FilesStay DEF CacheInv, Knows
<1> QED
  BY <1>2, <1>4, <1>5, <1>6, ReaderActs

\* The lock of a live reader may go, and nothing else goes with it.
LEMMA LockStays ==
    ASSUME CacheInv, NEW r \in Reader, Unlock(r)
    PROVE  lock' \in Reader \cup {Free} /\ takenOver' \in BOOLEAN
BY DEF Unlock, CacheInv, Shape

\* Every step of every reader.
LEMMA StepKeeps ==
    ASSUME CacheInv, [Next]_vars
    PROVE  CacheInv'
<1>1. CASE UNCHANGED vars
  <2>1. UNCHANGED <<policy, files, index, lock, takenOver, pc, wanted, have, missing, fresh, plan, removed,
                    served, hit>>
    BY <1>1 DEF vars, store, locks, reader
  <2>2. Shape'
    BY <2>1 DEF CacheInv, Shape, StoreShape, ReaderShape, File, StorageKey
  <2>3. \A r \in Reader : Knows(r)'
    BY <2>1, OthersKnow DEF CacheInv
  <2> QED
    BY <2>1, <2>2, <2>3, FilesStay DEF CacheInv, IndexIsReadable
<1>2. ASSUME NEW r \in Reader, Read(r) \/ TryLock(r) \/ Wait(r) \/ RemoveLock(r) \/ Release(r)
      PROVE  CacheInv'
  <2> USE DEF Labels
  <2>1. lock \in Reader \cup {Free} /\ takenOver \in BOOLEAN /\ removed \in [Reader -> BOOLEAN]
    BY DEF CacheInv, Shape, ReaderShape
  <2>2. CASE Read(r)
    BY <2>1, <2>2, GoesOn DEF Read, locks
  <2>3. CASE TryLock(r)
    <3>1. lock' \in Reader \cup {Free}
      BY <2>1, <2>3 DEF TryLock
    <3> QED
      BY <2>1, <2>3, <3>1, GoesOn DEF TryLock
  <2>4. CASE Wait(r)
    BY <2>1, <2>4, GoesOn DEF Wait, AfterWait, locks
  <2>5. CASE RemoveLock(r)
    <3>1. removed' \in [Reader -> BOOLEAN]
      BY <2>1, <2>5 DEF RemoveLock
    <3> QED
      BY <2>5, <3>1, LockStays, GoesOn DEF RemoveLock
  <2>6. CASE Release(r)
    BY <2>1, <2>6, LockStays, GoesOn DEF Release
  <2> QED
    BY <1>2, <2>2, <2>3, <2>4, <2>5, <2>6
<1>3. ASSUME NEW r \in Reader, ReadAgain(r) PROVE CacheInv'
  <2>1. CASE Hit(r) /\ Goto(r, "release") /\ UNCHANGED <<have, missing>>
    <3>1. lock \in Reader \cup {Free} /\ takenOver \in BOOLEAN /\ removed \in [Reader -> BOOLEAN]
      BY DEF CacheInv, Shape, ReaderShape
    <3> QED
      BY <1>3, <2>1, <3>1, GoesOn DEF ReadAgain, locks, Labels
  <2>2. CASE ~Hit(r)
    BY <1>3, <2>2, ReadsAgain
  <2> QED
    BY <1>3, <2>1, <2>2 DEF ReadAgain, Hit
<1> QED
  BY <1>1, <1>2, <1>3, Asks, Forgets, Fetches, Stores, Compacts, Publishes, Returns DEF Next, Step

\* Nobody has asked and nothing is stored.
LEMMA InitHolds == Init => CacheInv
<1> SUFFICES ASSUME Init PROVE CacheInv
  OBVIOUS
<1>1. ReaderShape
  <2>1. {} \in SUBSET Time /\ {} \in SUBSET Segment
    OBVIOUS
  <2> QED
    BY <2>1 DEF Init, ReaderShape, Labels
<1>2. Shape
  BY <1>1 DEF Init, Shape, StoreShape
<1>3. \A r \in Reader : Knows(r)
  BY DEF Init, Knows
<1> QED
  BY <1>2, <1>3 DEF Init, CacheInv, IndexIsReadable

\* Whatever readers overlap, fail, die or take each other's lock, what the index lists
\* can be read with its checksum, and a range served from the cache lacks only candles
\* that the exchange left out (getOrFillPublicCandleCacheV2).
THEOREM CacheStaysSound == Spec => []CacheIsSound
<1>1. CacheInv /\ [Next]_vars => CacheInv'
  BY StepKeeps
<1> QED
  BY <1>1, InitHolds, InvIsSound, PTL DEF Spec

----------------------------------------------------------------------------
(* The least and the greatest.                                             *)

\* A set of numbers has a least one.
LEMMA NumbersHaveLeast ==
    ASSUME NEW numbers, numbers \subseteq Nat, numbers # {}
    PROVE  \E x \in numbers : \A y \in numbers : x <= y
<1>1. PICK x \in numbers : \A y \in numbers : ~ (<<y, x>> \in OpToRel(<, Nat))
  BY NatLessThanWellFounded, WFMin
<1>2. ASSUME NEW y \in numbers PROVE x <= y
  <2>1. x \in Nat /\ y \in Nat
    OBVIOUS
  <2>2. ~ (y < x)
    BY <1>1, <2>1 DEF OpToRel
  <2> QED
    BY <2>1, <2>2
<1> QED
  BY <1>2

\* A set of times has a first and a last one.
LEMMA TimesHaveEnds ==
    ASSUME NEW times \in SUBSET Time, times # {}
    PROVE  /\ Min(times) \in times /\ \A t \in times : Min(times) <= t
           /\ Max(times) \in times /\ \A t \in times : t <= Max(times)
<1>1. \A t \in times : t \in Nat /\ t <= Times
  BY CandleCacheAssumption DEF Time
<1>2. \E x \in times : \A y \in times : x <= y
  BY <1>1, NumbersHaveLeast
<1>3. \E x \in times : \A y \in times : x >= y
  <2> DEFINE Rest == {Times - t : t \in times}
  <2>1. \A t \in times : Times - t \in Nat
    BY <1>1, CandleCacheAssumption
  <2>2. Rest \subseteq Nat /\ Rest # {}
    BY <2>1
  <2>3. PICK m \in Rest : \A n \in Rest : m <= n
    BY <2>2, NumbersHaveLeast
  <2>4. PICK x \in times : m = Times - x
    OBVIOUS
  <2>5. ASSUME NEW y \in times PROVE x >= y
    BY <1>1, <2>3, <2>4, CandleCacheAssumption
  <2> QED
    BY <2>5
<1> QED
  BY <1>2, <1>3 DEF Min, Max

\* A segment lies between its first and its last time, and so does what it covers.
LEMMA SegmentEnds ==
    ASSUME NEW s \in Segment
    PROVE  /\ First(s) \in Time /\ Final(s) \in Time
           /\ First(s) \in s /\ Final(s) \in s
           /\ \A t \in s : First(s) <= t /\ t <= Final(s)
BY TimesHaveEnds DEF Segment, First, Final

\* More candles span more.
LEMMA SpanGrows ==
    ASSUME NEW s \in Segment, NEW m \in Segment, s \subseteq m
    PROVE  Span(s) \subseteq Span(m)
<1>1. First(m) <= First(s) /\ Final(s) <= Final(m)
  BY SegmentEnds
<1>2. First(s) \in Nat /\ Final(s) \in Nat /\ First(m) \in Nat /\ Final(m) \in Nat
  BY SegmentEnds DEF Time
<1> QED
  BY <1>1, <1>2 DEF Span

\* The order in which segments are merged.
Earlier(a, b) == First(a) < First(b) \/ (First(a) = First(b) /\ Final(a) < Final(b))

\* In that order some segment is first, and some is last.
LEMMA SegmentsHaveEnds ==
    ASSUME NEW S \in SUBSET Segment, S # {}
    PROVE  /\ \E m \in S : \A x \in S : ~Earlier(x, m)
           /\ \E m \in S : \A x \in S : ~Earlier(m, x)
<1>1. \A s \in S : First(s) \in Time /\ Final(s) \in Time /\ First(s) \in Nat /\ Final(s) \in Nat
  BY SegmentEnds DEF Time
<1>2. \E m \in S : \A x \in S : ~Earlier(x, m)
  <2> DEFINE Firsts == {First(s) : s \in S}
             f == Min(Firsts)
             Finals == {Final(s) : s \in {z \in S : First(z) = f}}
  <2>1. Firsts \in SUBSET Time /\ Firsts # {}
    BY <1>1
  <2>2. f \in Firsts /\ \A t \in Firsts : f <= t
    BY <2>1, TimesHaveEnds
  <2> HIDE DEF f
  <2>3. Finals \in SUBSET Time /\ Finals # {}
    BY <1>1, <2>2
  <2>4. PICK g \in Finals : \A t \in Finals : g <= t
    BY <2>3, TimesHaveEnds
  <2>5. PICK m \in S : First(m) = f /\ Final(m) = g
    BY <2>4
  <2>6. ASSUME NEW x \in S, Earlier(x, m) PROVE FALSE
    <3>1. f <= First(x)
      BY <2>2
    <3>2. First(x) = f /\ Final(x) < g
      BY <1>1, <2>5, <2>6, <3>1 DEF Earlier
    <3>3. g <= Final(x)
      BY <2>4, <3>2
    <3> QED
      BY <1>1, <2>5, <3>2, <3>3
  <2> QED
    BY <2>6
<1>3. \E m \in S : \A x \in S : ~Earlier(m, x)
  <2> DEFINE Firsts == {First(s) : s \in S}
             f == Max(Firsts)
             Finals == {Final(s) : s \in {z \in S : First(z) = f}}
  <2>1. Firsts \in SUBSET Time /\ Firsts # {}
    BY <1>1
  <2>2. f \in Firsts /\ \A t \in Firsts : t <= f
    BY <2>1, TimesHaveEnds
  <2> HIDE DEF f
  <2>3. Finals \in SUBSET Time /\ Finals # {}
    BY <1>1, <2>2
  <2>4. PICK g \in Finals : \A t \in Finals : t <= g
    BY <2>3, TimesHaveEnds
  <2>5. PICK m \in S : First(m) = f /\ Final(m) = g
    BY <2>4
  <2>6. ASSUME NEW x \in S, Earlier(m, x) PROVE FALSE
    <3>1. First(x) <= f
      BY <2>2
    <3>2. First(x) = f /\ g < Final(x)
      BY <1>1, <2>5, <2>6, <3>1 DEF Earlier
    <3>3. Final(x) <= g
      BY <2>4, <3>2
    <3> QED
      BY <1>1, <2>5, <3>2, <3>3
  <2> QED
    BY <2>6
<1> QED
  BY <1>2, <1>3

----------------------------------------------------------------------------
(* What the index covers.                                                  *)

Covered(segments) == UNION {Span(s) : s \in segments}

\* Merging covers what was covered: every segment is in the group of the last start
\* that is not after it.
LEMMA CompactedCovers ==
    ASSUME NEW segments \in SUBSET Segment
    PROVE  Covered(segments) \subseteq Covered(Compacted(segments))
<1> DEFINE Before(a, b) == First(a) < First(b) \/ (First(a) = First(b) /\ Final(a) < Final(b))
           Successive(a, b) == Before(a, b) /\ \A c \in segments : ~(Before(a, c) /\ Before(c, b))
           Starts == {b \in segments : \A a \in segments : Successive(a, b) => Final(a) + 1 # First(b)}
           Group(b) == {b} \cup {s \in segments :
                                   Before(b, s) /\ \A c \in Starts : Before(b, c) => Before(s, c)}
<1>1. Compacted(segments) = IF policy = "monthly" THEN segments ELSE {UNION Group(b) : b \in Starts}
  BY DEF Compacted
<1>2. \A s \in segments : First(s) \in Nat /\ Final(s) \in Nat
  BY SegmentEnds DEF Time
<1>3. \A a, b \in segments : Before(a, b) <=> Earlier(a, b)
  BY DEF Earlier
<1>4. ASSUME NEW s \in segments PROVE \E b \in Starts : s \in Group(b)
  <2>1. CASE s \in Starts
    BY <2>1
  <2>2. CASE s \notin Starts
    <3> DEFINE L == {x \in segments : Before(x, s)}
               B == {b \in Starts : Before(b, s)}
    <3>1. L # {}
      BY <2>2
    <3>2. PICK m \in L : \A x \in L : ~Earlier(x, m)
      BY <3>1, SegmentsHaveEnds, L \in SUBSET Segment
    <3>3. ASSUME NEW a \in segments, Before(a, m) PROVE FALSE
      <4>1. Before(a, s)
        BY <1>2, <3>2, <3>3
      <4> QED
        BY <1>3, <3>2, <3>3, <4>1
    <3>4. m \in B
      BY <3>2, <3>3
    <3>5. PICK b \in B : \A x \in B : ~Earlier(b, x)
      BY <3>4, SegmentsHaveEnds, B \in SUBSET Segment
    <3>6. ASSUME NEW c \in Starts, Before(b, c) PROVE Before(s, c)
      <4>1. ~Before(c, s)
        BY <1>3, <3>5, <3>6
      <4>2. CASE First(c) = First(s) /\ Final(c) = Final(s)
        BY <2>2, <3>6, <4>2
      <4> QED
        BY <1>2, <4>1, <4>2
    <3>7. b \in Starts /\ s \in Group(b)
      BY <3>5, <3>6
    <3> QED
      BY <3>7
  <2> QED
    BY <2>1, <2>2
<1>5. ASSUME NEW b \in Starts, NEW s \in Group(b) PROVE Span(s) \subseteq Span(UNION Group(b))
  <2>1. b \in segments /\ Group(b) \subseteq segments
    OBVIOUS
  <2>2. PICK g : g = Group(b)
    OBVIOUS
  <2> HIDE DEF Group
  <2>3. g \subseteq Segment /\ s \in g /\ s \in Segment
    BY <1>5, <2>1, <2>2
  <2>4. UNION g \in Segment /\ s \subseteq UNION g
    BY <2>3 DEF Segment
  <2> QED
    BY <2>2, <2>3, <2>4, SpanGrows
<1> HIDE DEF Group, Starts, Before, Successive
<1>6. CASE policy = "monthly"
  BY <1>1, <1>6
<1>7. CASE policy # "monthly"
  <2>1. \A s \in segments : \E m \in Compacted(segments) : Span(s) \subseteq Span(m)
    <3> SUFFICES ASSUME NEW s \in segments PROVE \E m \in Compacted(segments) : Span(s) \subseteq Span(m)
      OBVIOUS
    <3>1. PICK b \in Starts : s \in Group(b)
      BY <1>4
    <3>2. UNION Group(b) \in Compacted(segments)
      BY <1>1, <1>7, <3>1
    <3> QED
      BY <1>5, <3>1, <3>2
  <2> QED
    BY <2>1 DEF Covered
<1> QED
  BY <1>6, <1>7

\* Pruning drops only what a fetched segment covers.
LEMMA PrunedCovers ==
    ASSUME NEW old \in SUBSET Segment, NEW new \in SUBSET Segment
    PROVE  Covered(old) \subseteq Covered(Pruned(old, new))
<1>1. \A s \in old : \E m \in Pruned(old, new) : Span(s) \subseteq Span(m)
  BY DEF Pruned, Covers
<1> QED
  BY <1>1 DEF Covered

----------------------------------------------------------------------------
(* One reader at a time rewrites the index.                                *)

Critical == {"winner", "fetch", "store", "compact", "publish"}

\* As long as no live reader lost its lock, whoever works on the index holds the
\* lock, and what it is about to list covers what is listed by now.
Alone ==
    ~takenOver =>
        \A r \in Reader :
           /\ pc[r] \in Critical => lock = r
           /\ pc[r] = "publish" => Covered(index) \subseteq Covered(plan[r])

\* A step of a reader that neither takes the lock nor plans an index.
LEMMA WorksOn ==
    ASSUME CacheInv, Alone, NEW r \in Reader, NEW label, pc' = [pc EXCEPT ![r] = label],
           label \in Critical => pc[r] \in Critical /\ label # "publish",
           \A q \in Reader \ {r} : plan'[q] = plan[q],
           UNCHANGED <<index, lock, takenOver>>
    PROVE  Alone'
<1>1. pc'[r] = label /\ \A q \in Reader \ {r} : pc'[q] = pc[q]
  BY DEF CacheInv, Shape, ReaderShape
<1> SUFFICES ASSUME ~takenOver', NEW q \in Reader
             PROVE  /\ pc'[q] \in Critical => lock' = q
                    /\ pc'[q] = "publish" => Covered(index') \subseteq Covered(plan'[q])
  BY DEF Alone, Covered
<1>2. CASE q = r
  BY <1>1, <1>2 DEF Alone, Critical
<1>3. CASE q # r
  BY <1>1, <1>3 DEF Alone
<1> QED
  BY <1>2, <1>3

\* A lock is removed under nobody's hands, or it is noted.
LEMMA Unlocks ==
    ASSUME CacheInv, Alone, NEW r \in Reader, Unlock(r), pc[r] \notin Critical,
           NEW label, label \notin Critical, pc' = [pc EXCEPT ![r] = label], UNCHANGED <<index, plan>>
    PROVE  Alone'
<1>1. pc'[r] = label /\ \A q \in Reader \ {r} : pc'[q] = pc[q]
  BY DEF CacheInv, Shape, ReaderShape
<1> SUFFICES ASSUME ~takenOver', NEW q \in Reader, pc'[q] \in Critical
             PROVE  FALSE
  BY DEF Alone, Critical
<1>2. q # r /\ pc[q] \in Critical
  BY <1>1
<1>3. ~takenOver
  BY DEF Unlock
<1>4. lock = q
  BY <1>2, <1>3 DEF Alone
<1>5. lock # r /\ lock \in Holders
  BY <1>2, <1>4 DEF Holders, Critical
<1> QED
  BY <1>5 DEF Unlock

\* The lock is free when it is taken, so nobody else works on the index.
LEMMA TakesLock ==
    ASSUME CacheInv, Alone, NEW r \in Reader, lock = Free, lock' = r,
           pc' = [pc EXCEPT ![r] = "winner"], UNCHANGED <<index, plan, takenOver>>
    PROVE  Alone'
<1>1. pc'[r] = "winner" /\ \A q \in Reader \ {r} : pc'[q] = pc[q]
  BY DEF CacheInv, Shape, ReaderShape, Labels
<1> SUFFICES ASSUME ~takenOver', NEW q \in Reader
             PROVE  /\ pc'[q] \in Critical => lock' = q
                    /\ pc'[q] = "publish" => Covered(index') \subseteq Covered(plan'[q])
  BY DEF Alone, Covered
<1>2. Free \notin Reader
  BY DEF Free, Reader
<1>3. CASE q # r
  BY <1>1, <1>2, <1>3 DEF Alone, Critical
<1>4. CASE q = r
  BY <1>1, <1>4
<1> QED
  BY <1>3, <1>4

\* The plan is made from the index it replaces.
LEMMA PlansToCover ==
    ASSUME CacheInv, Alone, NEW r \in Reader, Compact(r)
    PROVE  Alone'
<1>1. PICK segments : segments = Compacted(Pruned(index, fresh[r]))
  OBVIOUS
<1>2. /\ pc[r] = "compact" /\ pc' = [pc EXCEPT ![r] = "publish"]
      /\ plan' = [plan EXCEPT ![r] = segments] /\ UNCHANGED <<index, lock, takenOver>>
  BY <1>1 DEF Compact, Goto, locks
<1>3. /\ pc'[r] = "publish" /\ plan'[r] = segments
      /\ \A q \in Reader \ {r} : pc'[q] = pc[q] /\ plan'[q] = plan[q]
  BY <1>2 DEF CacheInv, Shape, ReaderShape, Labels
<1>4. Covered(index) \subseteq Covered(segments)
  <2>1. index \in SUBSET Segment /\ fresh[r] \in SUBSET Segment
    BY DEF CacheInv, Shape, StoreShape, ReaderShape
  <2>2. Pruned(index, fresh[r]) \in SUBSET Segment
    BY <2>1, PrunedSegments
  <2>3. Covered(index) \subseteq Covered(Pruned(index, fresh[r]))
    BY <2>1, PrunedCovers
  <2> QED
    BY <1>1, <2>2, <2>3, CompactedCovers
<1> SUFFICES ASSUME ~takenOver', NEW q \in Reader
             PROVE  /\ pc'[q] \in Critical => lock' = q
                    /\ pc'[q] = "publish" => Covered(index') \subseteq Covered(plan'[q])
  BY DEF Alone, Covered
<1>5. CASE q = r
  BY <1>2, <1>3, <1>4, <1>5 DEF Alone, Critical
<1>6. CASE q # r
  BY <1>2, <1>3, <1>6 DEF Alone
<1> QED
  BY <1>5, <1>6

\* A reader that replaces the index is the only one that works on it.
LEMMA PublishesAlone ==
    ASSUME CacheInv, Alone, NEW r \in Reader, Publish(r)
    PROVE  Alone' /\ (~takenOver' => Covered(index) \subseteq Covered(index'))
<1>1. /\ index' = plan[r] /\ pc[r] = "publish" /\ pc' = [pc EXCEPT ![r] = "return"]
      /\ UNCHANGED <<lock, takenOver>>
  BY DEF Publish, Goto, locks
<1>2. pc'[r] = "return" /\ \A q \in Reader \ {r} : pc'[q] = pc[q]
  BY <1>1 DEF CacheInv, Shape, ReaderShape, Labels
<1>3. ASSUME ~takenOver', NEW q \in Reader, pc'[q] \in Critical PROVE FALSE
  <2>1. q # r /\ pc[q] \in Critical
    BY <1>2, <1>3 DEF Critical
  <2>2. lock = q /\ lock = r
    BY <1>1, <1>3, <2>1 DEF Alone, Critical
  <2> QED
    BY <2>1, <2>2
<1>4. Alone'
  BY <1>3 DEF Alone, Critical
<1>5. ~takenOver' => Covered(index) \subseteq Covered(index')
  BY <1>1 DEF Alone
<1> QED
  BY <1>4, <1>5

\* Every step keeps the readers apart and, where it changes the index, what it covers.
LEMMA AloneStep ==
    ASSUME CacheInv, Alone, [Next]_vars
    PROVE  Alone' /\ (~takenOver' => Covered(index) \subseteq Covered(index'))
<1>0. Covered(index') = Covered(index)' /\ (index' = index => Covered(index) \subseteq Covered(index'))
  BY DEF Covered
<1>1. CASE UNCHANGED vars
  BY <1>1, <1>0 DEF vars, store, locks, reader, Alone, Covered
<1>2. ASSUME NEW r \in Reader, Ask(r) \/ Read(r) \/ Wait(r) PROVE Alone' /\ index' = index
  <2>1. PICK label \in {"read", "done", "try", "wait", "remove"} : pc' = [pc EXCEPT ![r] = label]
    BY <1>2 DEF Ask, Read, Wait, AfterWait, Goto
  <2>2. UNCHANGED <<index, lock, takenOver, plan>>
    BY <1>2 DEF Ask, Read, Wait, Hit, store, locks
  <2> QED
    BY <2>1, <2>2, WorksOn DEF Critical
<1>3. ASSUME NEW r \in Reader, TryLock(r) PROVE Alone' /\ index' = index
  <2>1. UNCHANGED <<index, takenOver, plan>>
    BY <1>3 DEF TryLock, store
  <2>2. CASE CanLock /\ lock' = r /\ Goto(r, "winner")
    BY <2>1, <2>2, TakesLock DEF CanLock, Goto
  <2>3. CASE lock' = lock /\ (Goto(r, "wait") \/ Goto(r, "remove"))
    BY <2>1, <2>3, WorksOn DEF Goto, Critical
  <2> QED
    BY <1>3, <2>1, <2>2, <2>3 DEF TryLock
<1>4. ASSUME NEW r \in Reader, RemoveLock(r) \/ Release(r) PROVE Alone' /\ index' = index
  <2>1. /\ pc[r] \in {"remove", "release"} /\ Unlock(r)
        /\ (pc' = [pc EXCEPT ![r] = "try"] \/ pc' = [pc EXCEPT ![r] = "done"])
        /\ UNCHANGED <<index, plan>>
    BY <1>4 DEF RemoveLock, Release, Goto, store
  <2> QED
    BY <2>1, Unlocks DEF Critical
<1>5. ASSUME NEW r \in Reader, ReadAgain(r) \/ Fetch(r) \/ StoreSegments(r) PROVE Alone' /\ index' = index
  <2>1. PICK label \in {"release", "fetch", "store", "return", "compact"} : pc' = [pc EXCEPT ![r] = label]
    BY <1>5 DEF ReadAgain, Fetch, StoreSegments, Goto
  <2>2. pc[r] \in Critical /\ UNCHANGED <<index, lock, takenOver, plan>>
    BY <1>5 DEF ReadAgain, Fetch, StoreSegments, Hit, store, locks, Critical
  <2> QED
    BY <2>1, <2>2, WorksOn DEF Critical
<1>6. ASSUME NEW r \in Reader, Return(r) \/ Fail(r) \/ Die(r) PROVE Alone' /\ index' = index
  <2>1. PICK label \in {"release", "done"} : pc' = [pc EXCEPT ![r] = label]
    BY <1>6 DEF Return, Fail, Die, Goto
  <2>2. UNCHANGED <<index, lock, takenOver>> /\ \A q \in Reader \ {r} : plan'[q] = plan[q]
    BY <1>6 DEF Return, Fail, Die, store, locks, CacheInv, Shape, ReaderShape
  <2> QED
    BY <2>1, <2>2, WorksOn DEF Critical
<1>7. ASSUME NEW r \in Reader, Compact(r) PROVE Alone' /\ index' = index
  BY <1>7, PlansToCover DEF Compact
<1> QED
  BY <1>0, <1>1, <1>2, <1>3, <1>4, <1>5, <1>6, <1>7, PublishesAlone DEF Next, Step

\* A range that the index covers stays covered for as long as no reader lost its lock
\* while it lived: then no two of them rewrite the index from the same old one, and
\* pruning and merging keep what was covered (upsertRangeCacheSegments).
THEOREM CoverageStaysKept == Spec => CoverageIsKept
<1>1. Init => Alone
  BY DEF Init, Alone, Critical
<1>2. CacheInv /\ Alone /\ [Next]_vars => Alone'
  BY AloneStep
<1>3. CacheInv /\ Alone /\ [Next]_vars =>
         [~takenOver' => UNION {Span(s) : s \in index} \subseteq UNION {Span(s) : s \in index'}]_vars
  BY AloneStep DEF Covered
<1>4. CacheInv /\ [Next]_vars => CacheInv'
  BY StepKeeps
<1> QED
  BY <1>1, <1>2, <1>3, <1>4, InitHolds, PTL DEF Spec, CoverageIsKept
=============================================================================
