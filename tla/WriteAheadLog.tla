--------------------------- MODULE WriteAheadLog ---------------------------
(***************************************************************************)
(* The on-disk write-ahead log of internal/ingest/wal.go: a WALWriter      *)
(* around tidwall/wal (a library, modelled by how WALWriter uses it) and   *)
(* the kernel's page cache under it.                                       *)
(*                                                                         *)
(* Entry i of the log is hist[i]; the entries first..Last are still in the *)
(* log, the ones before first were truncated.  An entry is written to the  *)
(* page cache first.  A successful fsync moves every dirty entry to disk;  *)
(* a failed one marks the dirty pages clean without writing them (the      *)
(* "fsyncgate" behaviour that walgroup.go is written against), so a later  *)
(* fsync succeeds without them: those entries are forgotten.  They can     *)
(* still be read until the machine loses power, after which an entry that  *)
(* never reached the disk is gone or corrupt.                              *)
(*                                                                         *)
(* The operators below are the effects of WALWriter's methods on the log.  *)
(* The components that call them conjoin them with their own steps.        *)
(***************************************************************************)
EXTENDS Integers, Sequences

CONSTANTS Events,     \* the events trackers may send, each at most once
          CapEntries, \* maxBytes, in entries: above it the oldest are dropped
          CapChunk    \* how many entries one size-cap pass drops (1000)

ASSUME WalAssumption == CapEntries \in Nat /\ CapChunk \in Nat \ {0}

VARIABLES hist,      \* every entry written, by index
          first,     \* tidwall's firstIndex
          disk,      \* indices that survive a power loss
          forgotten, \* indices whose pages a failed fsync dropped
          corrupt,   \* indices that no longer decode (Replay skips them)
          capArmed,  \* enforceSizeCap measured a log above the cap
          evicted,   \* ghost: readable events the size cap dropped
          swallowed  \* ghost: events in a failed fsync nobody acted on

walVars == <<hist, first, disk, forgotten, corrupt, capArmed, evicted, swallowed>>

Last == Len(hist)
LiveIdx == first..Last
Live == {hist[i] : i \in LiveIdx \ corrupt}
Dirty == LiveIdx \ (disk \cup forgotten)

WalTypeOK ==
    /\ hist \in Seq(Events)
    /\ first \in Nat \ {0}
    /\ disk \subseteq 1..Last /\ forgotten \subseteq 1..Last
    /\ corrupt \subseteq 1..Last
    /\ capArmed \in BOOLEAN
    /\ evicted \subseteq Events /\ swallowed \subseteq Events

(* NewWALWriter on an empty directory. *)
WalInit ==
    /\ hist = <<>>
    /\ first = 1
    /\ disk = {}
    /\ forgotten = {}
    /\ corrupt = {}
    /\ capArmed = FALSE
    /\ evicted = {}
    /\ swallowed = {}

(* WALWriter.Append: the entry gets the next index; nothing is synced. *)
WalAppend(e) ==
    /\ hist' = Append(hist, e)
    /\ UNCHANGED <<first, disk, forgotten, corrupt, capArmed, evicted, swallowed>>

(* An fsync that succeeds. *)
FsyncOk ==
    /\ disk' = disk \cup Dirty
    /\ UNCHANGED <<hist, first, forgotten, corrupt, capArmed, evicted, swallowed>>

(* An fsync that fails and whose caller terminates the process. *)
FsyncFailFatal ==
    /\ forgotten' = forgotten \cup Dirty
    /\ UNCHANGED <<hist, first, disk, corrupt, capArmed, evicted, swallowed>>

(* An fsync that fails and whose caller logs or drops the error. *)
FsyncFailIgnored ==
    /\ forgotten' = forgotten \cup Dirty
    /\ swallowed' = swallowed \cup {hist[i] : i \in Dirty}
    /\ UNCHANGED <<hist, first, disk, corrupt, capArmed, evicted>>

(* tidwall's TruncateFront(index): the segment that holds index is written *)
(* anew, from memory, and synced, so entry index reaches the disk.  When   *)
(* that is also the tail segment every later entry does too; the last      *)
(* entry is always in the tail.                                            *)
TruncateFront(index) ==
    /\ first' = index
    /\ \E tail \in {b \in BOOLEAN : index = Last => b} :
          LET rewritten == IF tail THEN index..Last ELSE {index}
          IN  /\ disk' = disk \cup rewritten
              /\ forgotten' = forgotten \ rewritten

(* Mutation of AckThrough: one entry too many. *)
AckThroughOffByOne(t) == IF t >= Last THEN Last - 1 ELSE t + 1

(* The index WALWriter.Ack truncates up to: at least one entry is kept. *)
AckThrough(t) == IF t >= Last THEN Last - 1 ELSE t

AckIsNoop(t) ==
    \/ t = 0 \/ Last = 0
    \/ AckThrough(t) = 0
    \/ AckThrough(t) + 1 <= first  \* nothing to remove, or ErrOutOfRange

(* WALWriter.Ack(t).  Its callers log an error and go on, so a truncation  *)
(* that fails is a step that changes nothing.                              *)
WalAck(t) ==
    /\ \/ UNCHANGED <<first, disk, forgotten>>
       \/ ~AckIsNoop(t) /\ TruncateFront(AckThrough(t) + 1)
    /\ UNCHANGED <<hist, corrupt, capArmed, evicted, swallowed>>

(* The two halves of enforceSizeCap.  The directory is measured without    *)
(* the lock; the truncation happens under it, on whatever log it finds.    *)
SizeCapMeasure ==
    /\ ~capArmed
    /\ (Last + 1) - first > CapEntries
    /\ capArmed' = TRUE
    /\ UNCHANGED <<hist, first, disk, forgotten, corrupt, evicted, swallowed>>

CapTarget == IF first + CapChunk >= Last THEN Last - 1 ELSE first + CapChunk

SizeCapTruncate ==
    /\ capArmed
    /\ capArmed' = FALSE
    /\ \/ UNCHANGED <<first, disk, forgotten, evicted>>  \* nothing to drop, or an error
       \/ /\ CapTarget > first
          /\ TruncateFront(CapTarget)
          /\ evicted' = evicted \cup {hist[i] : i \in (first..(CapTarget - 1)) \ corrupt}
    /\ UNCHANGED <<hist, corrupt, swallowed>>

(* The process dies: the log files stay as they are. *)
WalProcessDeath ==
    /\ capArmed' = FALSE
    /\ UNCHANGED <<hist, first, disk, forgotten, corrupt, evicted, swallowed>>

(* The machine loses power.  What was on disk is still there; the log may  *)
(* be cut anywhere after it, and an entry before the cut that was not on   *)
(* disk comes back whole or not decodable.                                 *)
WalPowerLoss ==
    /\ \E p \in (first - 1)..Last :
          /\ \A i \in disk \cap LiveIdx : i <= p
          /\ hist' = SubSeq(hist, 1, p)
          /\ disk' = first..p
          /\ \E bad \in SUBSET ((first..p) \ disk) : corrupt' = (corrupt \cap (first..p)) \cup bad
    /\ forgotten' = {}
    /\ capArmed' = FALSE
    /\ UNCHANGED <<first, evicted, swallowed>>
=============================================================================
