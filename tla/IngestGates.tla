---------------------------- MODULE IngestGates ----------------------------
(***************************************************************************)
(* The shared state in front of the log, one mutex each:                   *)
(*   - the back-pressure gate, which samples the log's fill ratio at most  *)
(*     once per TTL and refuses requests while the sample is too high;     *)
(*   - the burst guard, a counter with a fixed window per visitor hash;    *)
(*   - the new-visitor filter, a set of visitor hashes in memory with a    *)
(*     copy in bloom.dat.                                                  *)
(* A visitor hash is <<site, visitor, date>>: VisitorHash keyed by the     *)
(* site's salt of that date, without collisions. The filter is exact here: *)
(* bloom's false positives are not modelled.                               *)
(***************************************************************************)
EXTENDS Integers, Sequences, FiniteSets

CONSTANTS Sites, Visitors,
          Cap,    \* burst guard: events per window (<= 0 switches it off)
          Window, \* burstWindow, in ticks
          Ttl,    \* CacheTTL of the back-pressure gate, in ticks
          DayLen, \* ticks per calendar day
          MaxTime \* bound: the last tick

ASSUME GatesAssumption ==
    /\ Cap \in Int /\ Window \in Nat \ {0} /\ Ttl \in Nat \ {0}
    /\ DayLen \in Nat \ {0} /\ MaxTime \in Nat

VARIABLES now,         \* the clock
          above,       \* the log's fill ratio is at or above the threshold
          lastBelow,   \* ghost: the last tick at which it was below
          cachedAbove, \* fillRatioGate.cachedAbove
          lastChecked, \* fillRatioGate.lastChecked
          walk,        \* the directory walk under way: it holds the gate's lock
          misread,     \* ghost: the cached sample comes from a failed walk
          took,        \* ghost: how long the walk behind the cached sample took
          burst,       \* BurstGuard: the entry of each visitor hash
          passed,      \* ghost: the ticks at which the guard let a hash pass
          seen,        \* NewVisitorFilter: the hashes marked in memory
          saved        \* the hashes in bloom.dat

fillVars == <<above, lastBelow, cachedAbove, lastChecked, walk, misread, took>>
burstVars == <<burst, passed>>
bloomVars == <<seen, saved>>

---------------------------------------------------------------------------
(* Dates. A site's time zone is an offset in ticks; the filter is asked    *)
(* about the hash of today and the hash of yesterday.                      *)

DateIn(tz) == (now + tz) \div DayLen

Dates == -1..((MaxTime + DayLen) \div DayLen)

Hashes == Sites \X Visitors \X Dates

CurrentHash(s, v, tz) == <<s, v, DateIn(tz)>>

PreviousHash(s, v, tz) == <<s, v, DateIn(tz) - 1>>

---------------------------------------------------------------------------
(* Back-pressure. The gate's lock is held from the start of a walk over    *)
(* the log's directory until its result is stored, so the lock is taken    *)
(* exactly while walk.busy: an answer from the cache takes and frees it in *)
(* one step.                                                               *)

NoWalk == [busy |-> FALSE, above |-> FALSE, at |-> 0]

FillInit ==
    /\ above = FALSE /\ lastBelow = 0 /\ walk = NoWalk
    /\ cachedAbove = FALSE /\ lastChecked = -Ttl /\ misread = FALSE /\ took = 0

(* Appends and truncations move the fill ratio across the threshold. *)
FillMoves ==
    /\ above' = ~above
    /\ lastBelow' = now
    /\ UNCHANGED <<cachedAbove, lastChecked, walk, misread, took>>

(* Mutation of SampleIsFresh: <= for <. *)
SampleIsFreshAtTtl == now - lastChecked <= Ttl

SampleIsFresh == now - lastChecked < Ttl

(* degraded() on the cached flag. *)
DegradedCached(answer) ==
    /\ ~walk.busy /\ SampleIsFresh
    /\ answer = cachedAbove
    /\ UNCHANGED fillVars

(* degraded() on a sample that is too old: FillRatio lists the directory.  *)
StartWalk ==
    /\ ~walk.busy /\ ~SampleIsFresh
    /\ walk' = [busy |-> TRUE, above |-> above, at |-> now]
    /\ UNCHANGED <<above, lastBelow, cachedAbove, lastChecked, misread, took>>

(* The walk is over: its result is stored, and stamped with the time of    *)
(* its end; the lock is free.                                              *)
StoreSample(answer, failed) ==
    /\ cachedAbove' = answer
    /\ lastChecked' = now
    /\ walk' = NoWalk
    /\ misread' = failed
    /\ took' = now - walk.at
    /\ UNCHANGED <<above, lastBelow>>

(* The sizes are read file by file between the two: the sum is on the side *)
(* of the threshold where the log was at the start or where it is now.     *)
DegradedSample(answer) ==
    /\ answer \in {walk.above, above}
    /\ StoreSample(answer, FALSE)

(* The walk meets a segment that a truncation has just removed: the error  *)
(* reads as ratio 0.                                                       *)
DegradedMisread(answer) ==
    /\ answer = FALSE
    /\ StoreSample(answer, TRUE)

---------------------------------------------------------------------------
(* Burst guard. An entry that was never written has a window that is over. *)

NoEntry == [count |-> 0, start |-> -Window]

BurstInit ==
    /\ burst = [h \in Hashes |-> NoEntry]
    /\ passed = [h \in Hashes |-> <<>>]

WindowOver(h) == now - burst[h].start >= Window

Allow(h) == Cap <= 0 \/ WindowOver(h) \/ burst[h].count < Cap

(* Mutation of CountPass: a new window resets the count and keeps the      *)
(* start of the old one.                                                   *)
CountPassOldStart(h) ==
    /\ burst' = IF Cap <= 0 THEN burst
                ELSE [burst EXCEPT ![h] =
                        IF WindowOver(h) THEN [@ EXCEPT !.count = 1]
                        ELSE [@ EXCEPT !.count = @ + 1]]
    /\ passed' = [passed EXCEPT ![h] = Append(@, now)]

(* What Allow writes when it returns true. *)
CountPass(h) ==
    /\ burst' = IF Cap <= 0 THEN burst
                ELSE [burst EXCEPT ![h] =
                        IF WindowOver(h) THEN [count |-> 1, start |-> now]
                        ELSE [count |-> @.count + 1, start |-> @.start]]
    /\ passed' = [passed EXCEPT ![h] = Append(@, now)]

(* The process ends: the counters are gone. *)
BurstReset ==
    /\ burst' = [h \in Hashes |-> NoEntry]
    /\ passed' = [h \in Hashes |-> <<>>]

---------------------------------------------------------------------------
(* New-visitor filter. *)

BloomInit == seen = {} /\ saved = {}

(* CheckAndMark's answer ... *)
IsNew(h, prev) == h \notin seen /\ prev \notin seen

(* Mutation of Mark: a new visitor is reported before the hash is added. *)
MarkReturningOnly(h, prev) ==
    /\ seen' = IF IsNew(h, prev) THEN seen ELSE seen \cup {h}
    /\ UNCHANGED saved

(* ... and its effect: today's hash is marked whichever probe hit. *)
Mark(h, prev) ==
    /\ seen' = seen \cup {h}
    /\ UNCHANGED saved

(* Mutation of BloomStop: the filter is not saved on shutdown. *)
BloomStopUnsaved == seen' = saved /\ UNCHANGED saved

(* An orderly stop saves the filter and the next start loads it. *)
BloomStop == saved' = seen /\ UNCHANGED seen

(* Any other end (kill -9, exit(1), a failed save): the next start loads   *)
(* what an earlier stop saved.                                             *)
BloomKill == seen' = saved /\ UNCHANGED saved

---------------------------------------------------------------------------
Tick ==
    /\ now < MaxTime
    /\ now' = now + 1
    /\ lastBelow' = IF above THEN lastBelow ELSE now'
    /\ UNCHANGED <<above, cachedAbove, lastChecked, walk, misread, took>>

GatesInit == now = 0 /\ FillInit /\ BurstInit /\ BloomInit
=============================================================================
