-------------------------- MODULE IngestPathProofs --------------------------
(***************************************************************************)
(* Proofs about IngestPath, in three parts.                                *)
(*                                                                         *)
(* Lemmas: facts about sequences, and what the operations of the log do to *)
(* the parts of the invariant.                                             *)
(*                                                                         *)
(* Safety: IInv is an inductive invariant, and the safety properties       *)
(* follow from it.  There is one lemma per action, or per group of actions *)
(* that disturb the same variables.  In each, step <1>0 lists what the     *)
(* action leaves alone, the next steps are the conjuncts of IInv that only *)
(* mention such variables, and one step follows for every conjunct that    *)
(* the action can disturb.                                                 *)
(*                                                                         *)
(* The contract: every step is a Write, Promise, Store or Release of       *)
(* DurableIngest, or stutters; the loop of the group syncer never sleeps   *)
(* on a batch without a timer; and an event is inserted at most once per   *)
(* start of the process, plus once per insert that was committed and       *)
(* reported as failed.                                                     *)
(***************************************************************************)
EXTENDS IngestInvariants, TLAPS

(* Lemmas. *)

(* The empty sequence. *)
LEMMA EmptySeq == ASSUME NEW S PROVE <<>> \in Seq(S) /\ Len(<<>>) = 0 /\ Range(<<>>) = {}
  BY DEF Range

(* Membership in a..(f - 1), stated for constants so that it can be used   *)
(* for the primed first index.                                             *)
LEMMA IntervalFacts ==
  ASSUME NEW a \in Nat, NEW f \in Nat
  PROVE  /\ \A i \in Int : a <= i /\ i < f => i \in a..(f - 1)
         /\ \A i \in a..(f - 1) : i \in Int /\ a <= i /\ i < f
  OBVIOUS

(* What Append does. *)
LEMMA AppendFacts ==
  ASSUME NEW S, NEW q \in Seq(S), NEW x \in S
  PROVE  /\ Append(q, x) \in Seq(S)
         /\ Len(Append(q, x)) = Len(q) + 1
         /\ \A k \in 1..Len(q) : Append(q, x)[k] = q[k]
         /\ Append(q, x)[Len(q) + 1] = x
  OBVIOUS

(* What Head and Tail do. *)
LEMMA TailFacts ==
  ASSUME NEW S, NEW q \in Seq(S), q # <<>>
  PROVE  /\ Len(q) \in Nat /\ Len(q) >= 1
         /\ Head(q) = q[1] /\ Head(q) \in S
         /\ Tail(q) \in Seq(S) /\ Len(Tail(q)) = Len(q) - 1
         /\ \A k \in 1..(Len(q) - 1) : Tail(q)[k] = q[k + 1]
  OBVIOUS

(* What SubSeq(q, 1, p) is. *)
LEMMA PrefixFacts ==
  ASSUME NEW S, NEW q \in Seq(S), NEW p \in 0..Len(q)
  PROVE  /\ SubSeq(q, 1, p) \in Seq(S) /\ Len(SubSeq(q, 1, p)) = p
         /\ \A k \in 1..p : SubSeq(q, 1, p)[k] = q[k]
  OBVIOUS

(* Range after an Append. *)
LEMMA RangeAppend ==
  ASSUME NEW S, NEW q \in Seq(S), NEW x \in S
  PROVE  Range(Append(q, x)) = Range(q) \cup {x}
<1>1. ASSUME NEW y \in Range(Append(q, x)) PROVE y \in Range(q) \cup {x}
  BY AppendFacts DEF Range
<1>2. ASSUME NEW y \in Range(q) PROVE y \in Range(Append(q, x))
  BY AppendFacts DEF Range
<1>3. x \in Range(Append(q, x))
  BY AppendFacts, Len(q) + 1 \in 1..Len(Append(q, x)) DEF Range
<1> QED BY <1>1, <1>2, <1>3

(* Range of a sequence over S. *)
LEMMA RangeType == ASSUME NEW S, NEW q \in Seq(S) PROVE Range(q) \subseteq S
  BY DEF Range

(* InsertBatch: the rows of the batch are stored, nothing else changes. *)
LEMMA CommitEffect ==
  ASSUME ConsTypeOK, NEW q \in Seq(Events), Commit(q)
  PROVE  copies' \in [Events -> Nat] /\ Stored' = Stored \cup Range(q)
<1>1. \A e \in Events : copies'[e] = copies[e] + (IF e \in Range(q) THEN 1 ELSE 0)
  BY DEF Commit
<1>2. copies' \in [Events -> Nat]
  BY DEF Commit, ConsTypeOK
<1>3. \A e \in Events : copies'[e] > 0 <=> copies[e] > 0 \/ e \in Range(q)
  BY <1>1 DEF ConsTypeOK
<1> QED BY <1>2, <1>3, RangeType DEF Stored

(* TruncateFront(index) on an index of the log keeps the log well formed,  *)
(* and no page that was on disk is lost by it.                             *)
LEMMA TruncateEffect ==
  ASSUME WalTypeOK, NEW index \in 1..Last, first < index, TruncateFront(index),
         UNCHANGED <<hist, corrupt, swallowed>>,
         evicted' \subseteq Events, capArmed' \in BOOLEAN
  PROVE  /\ WalTypeOK' /\ LogShape'
         /\ disk \subseteq disk' /\ forgotten' \subseteq forgotten /\ first' = index
<1>1. \A i \in index..Last : i \in 1..Last BY DEF WalTypeOK, Last
<1>2. PICK tail \in BOOLEAN : LET rw == IF tail THEN index..Last ELSE {index} IN disk' = disk \cup rw /\ forgotten' = forgotten \ rw
  BY DEF TruncateFront
<1>3. Last \in Nat /\ Last' = Last BY DEF Last, WalTypeOK
<1>4. disk' \subseteq 1..Last /\ forgotten' \subseteq 1..Last BY <1>1, <1>2 DEF WalTypeOK
<1> QED BY <1>2, <1>3, <1>4 DEF TruncateFront, WalTypeOK, LogShape, Last

(* WALWriter.Ack(t) removes entries up to t at most, and never the last    *)
(* one.                                                                    *)
LEMMA WalAckEffect ==
  ASSUME WalTypeOK, LogShape, NEW t \in Nat, WalAck(t)
  PROVE  /\ WalTypeOK' /\ LogShape'
         /\ UNCHANGED <<hist, corrupt, capArmed, evicted, swallowed>>
         /\ disk \subseteq disk' /\ forgotten' \subseteq forgotten
         /\ first <= first' /\ \A i \in first..(first' - 1) : i <= t
<1>1. CASE UNCHANGED <<first, disk, forgotten>>
  BY <1>1 DEF WalAck, WalTypeOK, LogShape, Last
<1>2. CASE ~AckIsNoop(t) /\ TruncateFront(AckThrough(t) + 1)
  <2>1. Last \in Nat /\ first \in Nat BY DEF Last, WalTypeOK
  <2>2. /\ AckThrough(t) + 1 \in 1..Last /\ first < AckThrough(t) + 1
        /\ AckThrough(t) <= t /\ AckThrough(t) \in Nat
    BY <1>2, <2>1 DEF AckIsNoop, AckThrough
  <2>3. UNCHANGED <<hist, corrupt, capArmed, evicted, swallowed>> BY DEF WalAck
  <2>4. evicted' \subseteq Events /\ capArmed' \in BOOLEAN BY <2>3 DEF WalTypeOK
  <2> HIDE DEF AckThrough
  <2>5. /\ WalTypeOK' /\ LogShape'
        /\ disk \subseteq disk' /\ forgotten' \subseteq forgotten /\ first' = AckThrough(t) + 1
    BY <1>2, <2>2, <2>3, <2>4, TruncateEffect
  <2> QED BY <2>1, <2>2, <2>3, <2>5
<1> QED BY <1>1, <1>2 DEF WalAck

(* enforceSizeCap: every readable entry it removes is counted as evicted. *)
LEMMA CapEffect ==
  ASSUME WalTypeOK, LogShape, SizeCapMeasure \/ SizeCapTruncate
  PROVE  /\ WalTypeOK' /\ LogShape'
         /\ UNCHANGED <<hist, corrupt, swallowed>>
         /\ disk \subseteq disk' /\ forgotten' \subseteq forgotten
         /\ evicted \subseteq evicted'
         /\ first <= first' /\ \A i \in first..(first' - 1) : i \notin corrupt => hist[i] \in evicted'
<1>1. CASE SizeCapMeasure
  BY <1>1 DEF SizeCapMeasure, WalTypeOK, LogShape, Last
<1>2. CASE SizeCapTruncate
  <2>1. Last \in Nat /\ first \in Nat \ {0} BY DEF Last, WalTypeOK
  <2>2. CASE UNCHANGED <<first, disk, forgotten, evicted>>
    <3>1. UNCHANGED <<hist, corrupt, swallowed>> /\ capArmed' = FALSE
      BY <1>2 DEF SizeCapTruncate
    <3>2. WalTypeOK' /\ LogShape' BY <2>2, <3>1 DEF WalTypeOK, LogShape, Last
    <3> QED BY <2>1, <2>2, <3>1, <3>2
  <2>3. CASE /\ CapTarget > first
             /\ TruncateFront(CapTarget)
             /\ evicted' = evicted \cup {hist[i] : i \in (first..(CapTarget - 1)) \ corrupt}
    <3>1. CapTarget \in 1..Last
      BY <2>1, <2>3, WalAssumption DEF CapTarget
    <3> HIDE DEF CapTarget
    <3>2. \A i \in first..(CapTarget - 1) : hist[i] \in Events
      BY <2>1, <3>1 DEF WalTypeOK, Last
    <3>3. evicted' \subseteq Events BY <2>3, <3>2 DEF WalTypeOK
    <3>4. UNCHANGED <<hist, corrupt, swallowed>> /\ capArmed' \in BOOLEAN BY <1>2 DEF SizeCapTruncate
    <3>5. /\ WalTypeOK' /\ LogShape'
          /\ disk \subseteq disk' /\ forgotten' \subseteq forgotten /\ first' = CapTarget
      BY <2>3, <3>1, <3>3, <3>4, TruncateEffect
    <3> QED BY <2>1, <2>3, <3>1, <3>4, <3>5
  <2> QED BY <1>2, <2>2, <2>3 DEF SizeCapTruncate
<1> QED BY <1>1, <1>2

(* An fsync, successful or not, leaves the contents of the log alone. *)
LEMMA FsyncEffect ==
  ASSUME WalTypeOK, FsyncOk \/ FsyncFailFatal \/ FsyncFailIgnored
  PROVE  /\ WalTypeOK'
         /\ UNCHANGED <<hist, first, corrupt, capArmed, evicted>>
         /\ disk \subseteq disk' /\ swallowed \subseteq swallowed'
<1>1. Dirty \subseteq 1..Last BY DEF Dirty, LiveIdx, Last, WalTypeOK
<1>2. \A i \in Dirty : hist[i] \in Events BY <1>1 DEF Last, WalTypeOK
<1> QED BY <1>1, <1>2 DEF FsyncOk, FsyncFailFatal, FsyncFailIgnored, WalTypeOK, Last

(* What a step must not take away: ClickHouse only grows, excuses only     *)
(* grow, and an entry leaves the log for one of these two reasons.         *)
Kept ==
    /\ Stored \subseteq Stored' /\ Excused \subseteq Excused'
    /\ Live \subseteq Live' \cup Stored' \cup Excused'

(* Steps that leave the log alone leave everything derived from it alone. *)
LEMMA SameLog ==
  ASSUME UNCHANGED <<hist, first, corrupt>>
  PROVE  Live' = Live /\ LiveIdx' = LiveIdx /\ Last' = Last
  BY DEF Live, LiveIdx, Last

(* Truncation is harmless when every entry it removes is stored or         *)
(* excused.                                                                *)
LEMMA ShrunkLog ==
  ASSUME WalTypeOK, UNCHANGED <<hist, corrupt>>, first' \in Nat, first <= first',
         Stored \subseteq Stored', Excused \subseteq Excused',
         \A i \in first..(first' - 1) :
            i <= Last /\ i \notin corrupt => hist[i] \in Stored' \cup Excused'
  PROVE  Kept
<1>1. Last' = Last /\ Last \in Nat /\ first \in Nat BY DEF Last, WalTypeOK
<1>2. ASSUME NEW e \in Live PROVE e \in Live' \cup Stored' \cup Excused'
  <2>1. PICK i \in first..Last : i \notin corrupt /\ e = hist[i]
    BY DEF Live, LiveIdx
  <2>2. CASE i < first'
    <3>1. i <= Last /\ first <= i /\ i \in Int BY <1>1, <2>1
    <3>2. i \in first..(first' - 1) BY <1>1, <2>2, <3>1, IntervalFacts
    <3> QED BY <2>1, <3>1, <3>2
  <2>3. CASE i >= first'
    <3>1. i \in (LiveIdx \ corrupt)' BY <1>1, <2>1, <2>3 DEF LiveIdx
    <3> QED BY <2>1, <3>1 DEF Live
  <2> QED BY <1>1, <2>1, <2>2, <2>3
<1> QED BY <1>2 DEF Kept

(* The batch under way stays accounted for by a step that takes nothing    *)
(* away.                                                                   *)
LEMMA FlushKept ==
  ASSUME FlushShape, Kept, UNCHANGED <<gpc, pos, pending, failed, toDeliver>>
  PROVE  FlushShape'
<1>1. \A k \in 1..(pos - 1) :
         pending[k] \in failed \cup Live \cup Stored \cup Excused
         => pending[k] \in failed \cup Live' \cup Stored' \cup Excused'
  BY DEF Kept
<1> QED BY <1>1 DEF FlushShape

(* So does every promise. *)
LEMMA AccountedKept ==
  ASSUME AckedAccounted, Kept, Promised' \subseteq Promised
  PROVE  AckedAccounted'
  BY DEF AckedAccounted, Kept

(* Taking the first envelope of a queue that carries the log after b. *)
LEMMA FeedsTail ==
  ASSUME NEW q \in Seq(Envelope), q # <<>>, NEW h, NEW b \in Nat, Feeds(q, h, b)
  PROVE  /\ Head(q).idx = b + 1 /\ Head(q).ev = h[b + 1]
         /\ Feeds(Tail(q), h, b + 1)
<1>1. /\ Len(q) \in Nat /\ Len(q) >= 1 /\ Head(q) = q[1] /\ Len(Tail(q)) = Len(q) - 1
      /\ \A k \in 1..(Len(q) - 1) : Tail(q)[k] = q[k + 1]
  BY TailFacts
<1>2. ASSUME NEW k \in 1..Len(Tail(q))
      PROVE  Tail(q)[k].idx = (b + 1) + k /\ Tail(q)[k].ev = h[(b + 1) + k]
  <2>1. Tail(q)[k] = q[k + 1] /\ k + 1 \in 1..Len(q) BY <1>1
  <2>2. b + (k + 1) = (b + 1) + k BY <1>1
  <2>3. q[k + 1].idx = b + (k + 1) /\ q[k + 1].ev = h[b + (k + 1)] BY <2>1 DEF Feeds
  <2> QED BY <2>1, <2>2, <2>3
<1>3. q[1].idx = b + 1 /\ q[1].ev = h[b + 1] BY <1>1 DEF Feeds
<1> QED BY <1>1, <1>2, <1>3 DEF Feeds

(* Sending the next entry of the log on such a queue. *)
LEMMA FeedsAppend ==
  ASSUME NEW q \in Seq(Envelope), NEW x \in Envelope, NEW h, NEW b \in Nat, Feeds(q, h, b),
         x.idx = b + Len(q) + 1, x.ev = h[b + Len(q) + 1]
  PROVE  Feeds(Append(q, x), h, b)
<1>1. /\ Len(q) \in Nat /\ Len(Append(q, x)) = Len(q) + 1
      /\ \A k \in 1..Len(q) : Append(q, x)[k] = q[k]
      /\ Append(q, x)[Len(q) + 1] = x
  BY AppendFacts
<1>2. SUFFICES ASSUME NEW k \in 1..Len(Append(q, x))
               PROVE  Append(q, x)[k].idx = b + k /\ Append(q, x)[k].ev = h[b + k]
  BY DEF Feeds
<1>3. CASE k \in 1..Len(q) BY <1>1, <1>3 DEF Feeds
<1>4. CASE k = Len(q) + 1
  <2>1. b + Len(q) + 1 = b + k BY <1>1, <1>4
  <2> QED BY <1>1, <1>4, <2>1
<1> QED BY <1>1, <1>3, <1>4

(* Such a queue does not notice that the log has grown. *)
LEMMA FeedsGrownLog ==
  ASSUME NEW q \in Seq(Envelope), NEW h, NEW g, NEW b \in Nat, NEW n \in Nat, Feeds(q, h, b),
         b + Len(q) <= n, \A i \in 1..n : g[i] = h[i]
  PROVE  Feeds(q, g, b)
<1>1. ASSUME NEW k \in 1..Len(q) PROVE g[b + k] = h[b + k]
  <2>1. b + k \in 1..n OBVIOUS
  <2> QED BY <2>1
<1> QED BY <1>1 DEF Feeds

(* A request still in the channel is not in the batch of the loop. *)
LEMMA QueuesDisjoint ==
  ASSUME GroupTypeOK, QueuedOnce, NEW k \in 1..Len(incoming)
  PROVE  incoming[k] \in Events /\ incoming[k] \notin Range(pending)
<1>1. \A j \in 1..Len(pending) : incoming[k] # pending[j] BY DEF QueuedOnce
<1> QED BY <1>1 DEF GroupTypeOK, Range


(* No answer is given: nobody is promised anything and nobody starts to    *)
(* wait.                                                                   *)
Calm ==
    /\ \A e \in Events :
          /\ status'[e] = "ok" => status[e] = "ok"
          /\ status'[e] = "wait" => status[e] = "wait"
          /\ status[e] \in {"err", "gone"} => status'[e] \in {"err", "gone"}
    /\ gpc' = "ack" => gpc = "ack"

(* Truncation and a growing set of durable entries preserve durability. *)
LEMMA ShrunkDurable ==
  ASSUME WalTypeOK, DurableBeforeAck, ForgottenUnacked, Calm,
         UNCHANGED hist, first' \in Nat, first <= first',
         disk \subseteq disk', forgotten' \subseteq forgotten, swallowed \subseteq swallowed'
  PROVE  DurableBeforeAck' /\ ForgottenUnacked'
<1>1. Last' = Last /\ Last \in Nat /\ first \in Nat BY DEF Last, WalTypeOK
<1>2. ASSUME NEW i \in LiveIdx' PROVE i \in LiveIdx /\ hist[i] \in Events
  <2>1. i \in Int /\ first <= i /\ i <= Last /\ 1 <= i BY <1>1 DEF LiveIdx, WalTypeOK
  <2> QED BY <1>1, <2>1 DEF LiveIdx, Last, WalTypeOK
<1>3. DurableBeforeAck' BY <1>2 DEF DurableBeforeAck, Calm
<1>4. ForgottenUnacked' BY <1>2 DEF ForgottenUnacked, Calm
<1> QED BY <1>3, <1>4

(* So does an fsync that succeeds, and one that fails and is recorded as   *)
(* ignored.                                                                *)
LEMMA SyncedDurable ==
  ASSUME WalTypeOK, DurableBeforeAck, ForgottenUnacked, Calm, FsyncOk \/ FsyncFailIgnored
  PROVE  DurableBeforeAck' /\ ForgottenUnacked'
<1>1. LiveIdx' = LiveIdx /\ hist' = hist BY DEF FsyncOk, FsyncFailIgnored, LiveIdx, Last
<1>2. disk \subseteq disk' /\ swallowed \subseteq swallowed'
  BY DEF FsyncOk, FsyncFailIgnored
<1>3. \A i \in LiveIdx : hist[i] \in Events
  BY DEF LiveIdx, Last, WalTypeOK
<1>4. \A i \in LiveIdx : i \in forgotten' => i \in forgotten \/ hist[i] \in swallowed'
  BY DEF FsyncOk, FsyncFailIgnored
<1>5. DurableBeforeAck' BY <1>1, <1>2, <1>3 DEF DurableBeforeAck, Calm
<1>6. ForgottenUnacked' BY <1>1, <1>2, <1>3, <1>4 DEF ForgottenUnacked, Calm
<1> QED BY <1>5, <1>6

(* The end of the process, however it comes: what it leaves in memory is   *)
(* what a fresh process starts with.                                       *)
LEMMA DeadEffect ==
  ASSUME GroupTypeOK, ConsTypeOK, MainTypeOK, Dead, stops' \in Nat, faults' \in Nat
  PROVE  /\ GroupTypeOK' /\ ConsTypeOK' /\ MainTypeOK' /\ IdleBeforeUp' /\ FlushShape'
         /\ QueuedOnce' /\ PipeInOrder' /\ ReceivedSettled' /\ AckAfterInsert'
         /\ StopOrder' /\ ReplayProgress' /\ Calm
         /\ Promised' \subseteq Promised /\ Stored' = Stored /\ abandoned' = abandoned
         /\ \A e \in Events : status'[e] # "wait" /\ (status'[e] = "new" => status[e] = "new")
<1>1. \A e \in Events : status'[e] = IF status[e] = "wait" THEN "gone" ELSE status[e]
  BY DEF Dead, GroupReset
<1>2. GroupTypeOK'
  <2>1. <<>> \in Seq(Events) /\ <<>> \in Seq(Envelope) BY EmptySeq
  <2>2. status' \in [Events -> {"new", "wait", "ok", "err", "gone"}]
    BY DEF Dead, GroupReset, GroupTypeOK
  <2>3. /\ incoming' \in Seq(Events) /\ pending' \in Seq(Events)
        /\ toDeliver' \in Seq(Envelope) /\ out' \in Seq(Envelope)
    BY <2>1 DEF Dead, GroupReset
  <2>4. pos' \in Nat \ {0} /\ failed' \subseteq Events /\ gpc' \in GroupPCs
    BY DEF Dead, GroupReset, GroupPCs
  <2>5. timerActive' \in BOOLEAN /\ armed' \in BOOLEAN /\ stopped' \in BOOLEAN /\ leaving' \in BOOLEAN
    BY DEF Dead, GroupReset
  <2> QED BY <2>2, <2>3, <2>4, <2>5 DEF GroupTypeOK
<1>3. ConsTypeOK'
  BY EmptySeq DEF Dead, ConsReset, ConsTypeOK, ConsPCs
<1>4. MainTypeOK'
  <2>1. rbatch' \in Seq(Events) BY EmptySeq DEF Dead
  <2>2. /\ proc' \in {"down", "replay", "up", "halt"} /\ snap' \in Nat /\ rpos' \in Nat \ {0}
    BY DEF Dead
  <2>3. replayed' \in BOOLEAN /\ rtried' \in BOOLEAN BY DEF Dead
  <2>4. starts' \in Nat /\ unsure' \in Nat BY DEF Dead, MainTypeOK
  <2> QED BY <2>1, <2>2, <2>3, <2>4 DEF MainTypeOK
<1>5. IdleBeforeUp' /\ PipeInOrder' /\ ReceivedSettled' /\ ReplayProgress'
  BY DEF Dead, GroupReset, ConsReset, IdleBeforeUp, PipeInOrder, ReceivedSettled, ReplayProgress
<1>6. FlushShape' /\ AckAfterInsert' /\ StopOrder'
  BY DEF Dead, GroupReset, ConsReset, FlushShape, AckAfterInsert, StopOrder
<1>7. QueuedOnce'
  BY EmptySeq DEF Dead, GroupReset, QueuedOnce
<1>8. Calm
  BY <1>1 DEF Calm, Dead, GroupReset, GroupTypeOK
<1>9. Promised' \subseteq Promised /\ Stored' = Stored /\ abandoned' = abandoned
  BY <1>1 DEF Promised, Dead, ConsReset, Stored
<1> QED BY <1>1, <1>2, <1>3, <1>4, <1>5, <1>6, <1>7, <1>8, <1>9

(* When no caller waits any more, a prefix of the log satisfies            *)
(* LoggedStatus.                                                           *)
LEMMA LoggedStatusKept ==
  ASSUME LoggedStatus, WalTypeOK, NEW n \in Nat, n <= Last, Last' = n,
         \A i \in 1..n : hist'[i] = hist[i],
         \A e \in Events : status'[e] # "wait" /\ (status'[e] = "new" => status[e] = "new")
  PROVE  LoggedStatus'
<1>1. \A i \in 1..n : i \in 1..Last /\ hist[i] \in Events BY DEF Last, WalTypeOK
<1> QED BY <1>1 DEF LoggedStatus

-----------------------------------------------------------------------------
(* Safety. *)

(* A handler queues a request: its event was new, so it is queued once. *)
LEMMA SubmitStep ==
  ASSUME IInv, NEW e \in Events, proc = "up", Submit(e), UNCHANGED <<consVars,
         mainVars>>
  PROVE  IInv'
<1> USE DEF IInv, TypeOK
<1>0. UNCHANGED <<hist, first, disk, forgotten, corrupt, capArmed, evicted, swallowed,
                  pending, pos, failed, toDeliver, out, gpc, timerActive, armed,
                  stopped, leaving, cbatch, lastIdx, cpc, draining, final, tries,
                  ctxDone, copies, abandoned, proc, snap, rpos, rbatch, replayed,
                  rtried, stops, faults, starts, unsure>>
  BY DEF Submit, walVars, consVars, mainVars
<1>1. WalTypeOK' /\ ConsTypeOK' /\ MainTypeOK'
  BY <1>0 DEF WalTypeOK, Last, ConsTypeOK, MainTypeOK
<1>2. LogShape' /\ FlushShape' /\ PipeInOrder' /\ ReceivedSettled'
  BY <1>0 DEF LogShape, Last, FlushShape, Live, LiveIdx, Stored, Excused, PipeInOrder,
         Recv, ReceivedSettled, Handled
<1>3. AckAfterInsert' /\ StopOrder' /\ ReplayProgress'
  BY <1>0 DEF AckAfterInsert, Stored, StopOrder, ReplayProgress, Last
<1>4. GroupTypeOK' BY <1>0 DEF Submit, GroupTypeOK
<1>5. IdleBeforeUp' BY <1>0 DEF Submit, IdleBeforeUp
<1>6. QueuedOnce'
  <2>1. /\ Len(incoming') = Len(incoming) + 1 /\ incoming'[Len(incoming) + 1] = e
        /\ \A k \in 1..Len(incoming) : incoming'[k] = incoming[k]
    BY AppendFacts DEF Submit, GroupTypeOK
  <2>2. status[e] = "new" /\ status'[e] = "wait" /\ \A x \in Events : x # e => status'[x] = status[x]
    BY DEF Submit, GroupTypeOK
  <2>3. /\ \A k \in 1..Len(incoming) : incoming[k] \in Events /\ incoming[k] # e
        /\ \A k \in 1..Len(pending) : pending[k] \in Events /\ pending[k] # e
    BY <2>2 DEF QueuedOnce, GroupTypeOK
  <2>4. Len(incoming) \in Nat BY DEF GroupTypeOK
  <2>5. \A k \in 1..Len(incoming') : k \in 1..Len(incoming) \/ k = Len(incoming) + 1
    BY <2>1, <2>4
  <2>6. /\ \A k \in 1..Len(incoming') : status'[incoming'[k]] \in {"wait", "gone"}
        /\ \A k \in 1..Len(pending) :
              status'[pending[k]] = status[pending[k]]
    BY <2>1, <2>2, <2>3, <2>5 DEF QueuedOnce
  <2>7. \A j, k \in 1..Len(incoming') : incoming'[j] = incoming'[k] => j = k
    BY <2>1, <2>3, <2>5 DEF QueuedOnce
  <2>8. \A j \in 1..Len(incoming'), k \in 1..Len(pending) : incoming'[j] # pending[k]
    BY <2>1, <2>3, <2>5 DEF QueuedOnce
  <2> QED BY <1>0, <2>6, <2>7, <2>8 DEF QueuedOnce
<1>7. LoggedStatus' BY <1>0 DEF Submit, LoggedStatus, Last
<1>8. DurableBeforeAck'
  <2>1. \A i \in LiveIdx : hist[i] \in Events /\ hist[i] # e
    BY DEF Submit, LoggedStatus, LiveIdx, Last, WalTypeOK
  <2> QED BY <1>0, <2>1 DEF Submit, DurableBeforeAck, LiveIdx, Last, GroupTypeOK
<1>9. ForgottenUnacked' BY <1>0 DEF Submit, ForgottenUnacked, LiveIdx, Last
<1>10. AckedAccounted'
  BY <1>0 DEF Submit, AckedAccounted, Promised, Stored, Live, LiveIdx, Last, Excused
<1> QED BY <1>1, <1>2, <1>3, <1>4, <1>5, <1>6, <1>7, <1>8, <1>9, <1>10

(* A handler is refused, or gives up waiting: the loop and the log do not  *)
(* notice.                                                                 *)
LEMMA CallerAloneStep ==
  ASSUME IInv, NEW e \in Events, proc = "up", Reject(e) \/ Cancel(e), UNCHANGED
         <<consVars, mainVars>>
  PROVE  IInv'
<1> USE DEF IInv, TypeOK
<1>0. UNCHANGED <<hist, first, disk, forgotten, corrupt, capArmed, evicted, swallowed,
                  incoming, pending, pos, failed, toDeliver, out, gpc, timerActive,
                  armed, stopped, leaving, cbatch, lastIdx, cpc, draining, final, tries,
                  ctxDone, copies, abandoned, proc, snap, rpos, rbatch, replayed,
                  rtried, stops, faults, starts, unsure>>
  BY DEF Reject, Cancel, walVars, consVars, mainVars
<1>a. /\ \A x \in Events : x # e => status'[x] = status[x]
      /\ \/ status[e] = "new" /\ status'[e] = "err"
         \/ status[e] = "wait" /\ status'[e] = "gone"
  <2>1. CASE Reject(e) BY <2>1 DEF Reject, GroupTypeOK
  <2>2. CASE Cancel(e) BY <2>2 DEF Cancel, GroupTypeOK
  <2> QED BY <2>1, <2>2
<1>1. WalTypeOK' /\ ConsTypeOK' /\ MainTypeOK'
  BY <1>0 DEF WalTypeOK, Last, ConsTypeOK, MainTypeOK
<1>2. IdleBeforeUp' /\ LogShape' /\ FlushShape' /\ PipeInOrder'
  BY <1>0 DEF IdleBeforeUp, LogShape, Last, FlushShape, Live, LiveIdx, Stored, Excused,
         PipeInOrder, Recv
<1>3. ReceivedSettled' /\ AckAfterInsert' /\ StopOrder' /\ ReplayProgress'
  BY <1>0 DEF ReceivedSettled, Recv, Handled, Stored, AckAfterInsert, StopOrder,
         ReplayProgress, Last
<1>4. GroupTypeOK' BY <1>0 DEF Reject, Cancel, GroupTypeOK
<1>5. QueuedOnce'
  <2>1. /\ \A k \in 1..Len(incoming) : incoming[k] \in Events
        /\ \A k \in 1..Len(pending) : pending[k] \in Events
    BY DEF GroupTypeOK
  <2> QED BY <1>0, <1>a, <2>1 DEF QueuedOnce
<1>6. LoggedStatus'
  BY <1>0 DEF Reject, Cancel, LoggedStatus, Last, GroupTypeOK, WalTypeOK
<1>7. DurableBeforeAck'
  BY <1>0 DEF Reject, Cancel, DurableBeforeAck, LiveIdx, Last, GroupTypeOK, WalTypeOK
<1>8. ForgottenUnacked'
  <2>1. \A i \in LiveIdx : hist[i] \in Events BY DEF LiveIdx, Last, WalTypeOK
  <2> QED BY <1>0, <1>a, <2>1, SameLog DEF ForgottenUnacked
<1>9. AckedAccounted'
  <2>1. Kept BY <1>0, SameLog DEF Kept, Stored, Excused
  <2>2. Promised' \subseteq Promised BY <1>a DEF Promised
  <2> QED BY <2>1, <2>2, AccountedKept
<1> QED BY <1>1, <1>2, <1>3, <1>4, <1>5, <1>6, <1>7, <1>8, <1>9

(* The loop takes a request from the channel into its batch. *)
LEMMA LoopRecvStep ==
  ASSUME IInv, proc = "up", LoopRecv, UNCHANGED <<consVars, mainVars>>
  PROVE  IInv'
<1> USE DEF IInv, TypeOK
<1>0. UNCHANGED <<hist, first, disk, forgotten, corrupt, capArmed, evicted, swallowed,
                  status, pos, failed, toDeliver, out, stopped, leaving, cbatch,
                  lastIdx, cpc, draining, final, tries, ctxDone, copies, abandoned,
                  proc, snap, rpos, rbatch, replayed, rtried, stops, faults, starts,
                  unsure>>
  BY DEF LoopRecv, StartFlush, NoFlush, walVars, consVars, mainVars
<1>1. WalTypeOK' /\ ConsTypeOK' /\ MainTypeOK'
  BY <1>0 DEF WalTypeOK, Last, ConsTypeOK, MainTypeOK
<1>2. LogShape' /\ ForgottenUnacked' /\ PipeInOrder' /\ ReceivedSettled'
  BY <1>0 DEF LogShape, Last, ForgottenUnacked, LiveIdx, PipeInOrder, Recv,
         ReceivedSettled, Handled, Stored
<1>3. AckAfterInsert' /\ ReplayProgress' /\ AckedAccounted'
  BY <1>0 DEF AckAfterInsert, Stored, ReplayProgress, Last, AckedAccounted, Promised,
         Live, LiveIdx, Excused
<1>4. GroupTypeOK'
  <2>1. Head(incoming) \in Events /\ Tail(incoming) \in Seq(Events)
    BY TailFacts DEF LoopRecv, GroupTypeOK
  <2>2. pending' \in Seq(Events) BY <2>1, AppendFacts DEF LoopRecv, GroupTypeOK
  <2>3. gpc' \in GroupPCs /\ armed' \in BOOLEAN /\ timerActive' \in BOOLEAN
    BY DEF LoopRecv, StartFlush, NoFlush, GroupTypeOK, GroupPCs
  <2> QED BY <1>0, <2>1, <2>2, <2>3 DEF LoopRecv, GroupTypeOK
<1>5. IdleBeforeUp' BY <1>0 DEF LoopRecv, StartFlush, NoFlush, IdleBeforeUp
<1>6. FlushShape'
  BY <1>0 DEF LoopRecv, StartFlush, NoFlush, FlushShape, Live, LiveIdx, Last, Stored,
         Excused
<1>7. QueuedOnce'
  <2>1. /\ Len(incoming) \in Nat /\ Len(incoming) >= 1 /\ Len(incoming') = Len(incoming) - 1
        /\ Head(incoming) = incoming[1] /\ Head(incoming) \in Events
        /\ \A k \in 1..(Len(incoming) - 1) : incoming'[k] = incoming[k + 1]
    BY TailFacts DEF LoopRecv, GroupTypeOK
  <2>2. /\ Len(pending) \in Nat /\ Len(pending') = Len(pending) + 1
        /\ pending'[Len(pending) + 1] = incoming[1]
        /\ \A k \in 1..Len(pending) : pending'[k] = pending[k]
    BY <2>1, AppendFacts DEF LoopRecv, GroupTypeOK
  <2>3. gpc = "select" BY DEF LoopRecv
  <2>4. \A k \in 1..Len(incoming') : status'[incoming'[k]] \in {"wait", "gone"}
    BY <1>0, <2>1 DEF QueuedOnce
  <2>5. \A k \in 1..Len(pending') : status'[pending'[k]] \in {"wait", "gone"}
    BY <1>0, <2>1, <2>2, <2>3 DEF QueuedOnce
  <2>6. \A j, k \in 1..Len(incoming') : incoming'[j] = incoming'[k] => j = k
    BY <2>1 DEF QueuedOnce
  <2>7. \A j \in 1..Len(incoming'), k \in 1..Len(pending') : incoming'[j] # pending'[k]
    <3>1. \A j \in 1..Len(incoming') : j + 1 \in 1..Len(incoming) /\ j + 1 # 1 /\ incoming'[j] = incoming[j + 1]
      BY <2>1
    <3>2. \A j \in 1..Len(incoming') : incoming'[j] # incoming[1]
      BY <2>1, <3>1 DEF QueuedOnce
    <3>3. SUFFICES ASSUME NEW j \in 1..Len(incoming'), NEW k \in 1..Len(pending')
                  PROVE  incoming'[j] # pending'[k]
      OBVIOUS
    <3>4. CASE k \in 1..Len(pending) BY <2>2, <3>1, <3>4 DEF QueuedOnce
    <3>5. CASE k = Len(pending) + 1 BY <2>2, <3>2, <3>5
    <3> QED BY <2>2, <3>4, <3>5
  <2> QED BY <2>4, <2>5, <2>6, <2>7 DEF QueuedOnce
<1>8. LoggedStatus' BY <1>0 DEF LoopRecv, StartFlush, NoFlush, LoggedStatus, Last
<1>9. DurableBeforeAck'
  BY <1>0 DEF LoopRecv, StartFlush, NoFlush, DurableBeforeAck, LiveIdx, Last
<1>10. StopOrder' BY <1>0 DEF LoopRecv, StartFlush, NoFlush, StopOrder
<1> QED BY <1>1, <1>2, <1>3, <1>4, <1>5, <1>6, <1>7, <1>8, <1>9, <1>10

(* The flush timer fires, or the loop sees the closed stopCh. *)
LEMMA LoopWakeStep ==
  ASSUME IInv, proc = "up", LoopTimer \/ LoopStop, UNCHANGED <<consVars, mainVars>>
  PROVE  IInv'
<1> USE DEF IInv, TypeOK
<1>0. UNCHANGED <<hist, first, disk, forgotten, corrupt, capArmed, evicted, swallowed,
                  status, incoming, pending, pos, failed, toDeliver, out, stopped,
                  cbatch, lastIdx, cpc, draining, final, tries, ctxDone, copies,
                  abandoned, proc, snap, rpos, rbatch, replayed, rtried, stops, faults,
                  starts, unsure>>
  BY DEF LoopTimer, LoopStop, StartFlush, NoFlush, walVars, consVars, mainVars
<1>1. WalTypeOK' /\ ConsTypeOK' /\ MainTypeOK'
  BY <1>0 DEF WalTypeOK, Last, ConsTypeOK, MainTypeOK
<1>2. LogShape' /\ ForgottenUnacked' /\ PipeInOrder' /\ ReceivedSettled'
  BY <1>0 DEF LogShape, Last, ForgottenUnacked, LiveIdx, PipeInOrder, Recv,
         ReceivedSettled, Handled, Stored
<1>3. AckAfterInsert' /\ ReplayProgress' /\ AckedAccounted'
  BY <1>0 DEF AckAfterInsert, Stored, ReplayProgress, Last, AckedAccounted, Promised,
         Live, LiveIdx, Excused
<1>4. GroupTypeOK'
  BY <1>0 DEF LoopTimer, LoopStop, StartFlush, NoFlush, GroupTypeOK, GroupPCs
<1>5. IdleBeforeUp' BY <1>0 DEF LoopTimer, LoopStop, StartFlush, NoFlush, IdleBeforeUp
<1>6. FlushShape'
  BY <1>0 DEF LoopTimer, LoopStop, StartFlush, NoFlush, FlushShape, Live, LiveIdx, Last,
         Stored, Excused
<1>7. QueuedOnce' BY <1>0 DEF LoopTimer, LoopStop, StartFlush, NoFlush, QueuedOnce
<1>8. LoggedStatus'
  BY <1>0 DEF LoopTimer, LoopStop, StartFlush, NoFlush, LoggedStatus, Last
<1>9. DurableBeforeAck'
  BY <1>0 DEF LoopTimer, LoopStop, StartFlush, NoFlush, DurableBeforeAck, LiveIdx, Last
<1>10. StopOrder' BY <1>0 DEF LoopTimer, LoopStop, StartFlush, NoFlush, StopOrder
<1> QED BY <1>1, <1>2, <1>3, <1>4, <1>5, <1>6, <1>7, <1>8, <1>9, <1>10

(* flush appends one request: the log, and the queue to the consumer, grow *)
(* by the same entry.                                                      *)
LEMMA AppendOkStep ==
  ASSUME IInv, proc = "up", AppendOk, UNCHANGED <<consVars, mainVars>>
  PROVE  IInv'
<1> USE DEF IInv, TypeOK
<1>0. UNCHANGED <<first, disk, forgotten, corrupt, capArmed, evicted, swallowed, status,
                  incoming, pending, failed, out, timerActive, armed, stopped, leaving,
                  cbatch, lastIdx, cpc, draining, final, tries, ctxDone, copies,
                  abandoned, proc, snap, rpos, rbatch, replayed, rtried, stops, faults,
                  starts, unsure>>
  BY DEF AppendOk, WalAppend, NextToAppend, consVars, mainVars
<1>a. pos \in 1..Len(pending) /\ pending[pos] \in Events /\ gpc = "append"
  BY DEF AppendOk, FlushShape, GroupTypeOK
<1>b. /\ hist' \in Seq(Events) /\ Last \in Nat /\ Last' = Last + 1 /\ hist'[Last + 1] = pending[pos]
      /\ \A i \in 1..Last : hist'[i] = hist[i]
  BY <1>a, AppendFacts DEF AppendOk, WalAppend, Last, WalTypeOK
<1>c. LiveIdx' = LiveIdx \cup {Last + 1} /\ Last + 1 \notin corrupt /\ LiveIdx \subseteq 1..Last
  BY <1>0, <1>b DEF LiveIdx, LogShape, Last, WalTypeOK
<1>d. Live' = Live \cup {pending[pos]}
  BY <1>0, <1>b, <1>c DEF Live
<1>e. Stored' = Stored /\ Excused' = Excused
  BY <1>0 DEF Stored, Excused
<1>f. Kept BY <1>d, <1>e DEF Kept
<1>g. /\ toDeliver' \in Seq(Envelope) /\ Len(toDeliver) \in Nat /\ Len(toDeliver') = Len(toDeliver) + 1
      /\ \A k \in 1..Len(toDeliver) : toDeliver'[k] = toDeliver[k]
      /\ toDeliver'[Len(toDeliver) + 1] = [idx |-> Last + 1, ev |-> pending[pos]]
  <2>1. [idx |-> Last + 1, ev |-> pending[pos]] \in Envelope BY <1>a, <1>b DEF Envelope
  <2>2. toDeliver' = Append(toDeliver, [idx |-> Last + 1, ev |-> pending[pos]])
    BY <1>b DEF AppendOk
  <2> QED BY <2>1, <2>2, AppendFacts DEF GroupTypeOK
<1>1. ConsTypeOK' /\ MainTypeOK' /\ AckAfterInsert'
  BY <1>0 DEF ConsTypeOK, MainTypeOK, AckAfterInsert, Stored
<1>2. WalTypeOK' BY <1>0, <1>b DEF WalTypeOK
<1>3. GroupTypeOK' BY <1>0, <1>a, <1>g DEF AppendOk, NextToAppend, GroupTypeOK, GroupPCs
<1>4. IdleBeforeUp' BY <1>0 DEF AppendOk, WalAppend, NextToAppend, IdleBeforeUp
<1>5. LogShape' BY <1>0, <1>b DEF LogShape, WalTypeOK
<1>6. FlushShape'
  <2>1. pos' = pos + 1 /\ Len(pending) \in Nat /\ pos \in Nat
        /\ gpc' = IF pos = Len(pending) THEN "sync" ELSE "append"
    BY DEF AppendOk, NextToAppend, GroupTypeOK
  <2>2. \A k \in 1..pos : pending[k] \in failed \cup Live' \cup Stored' \cup Excused'
    BY <1>a, <1>d, <1>e, <2>1 DEF FlushShape
  <2> QED BY <1>0, <1>a, <2>1, <2>2 DEF FlushShape
<1>7. QueuedOnce' BY <1>0 DEF AppendOk, WalAppend, NextToAppend, QueuedOnce
<1>8. LoggedStatus'
  <2>1. pending[pos] \in Range(pending) BY <1>a DEF Range
  <2>2. status[pending[pos]] \in {"wait", "gone"} BY <1>a DEF QueuedOnce
  <2>3. gpc' \in {"append", "sync"} BY DEF AppendOk, NextToAppend
  <2> QED BY <1>0, <1>b, <2>1, <2>2, <2>3 DEF LoggedStatus
<1>9. DurableBeforeAck'
  <2>1. status[pending[pos]] # "ok" BY <1>a DEF QueuedOnce
  <2>2. gpc' # "ack" BY DEF AppendOk, NextToAppend
  <2> QED BY <1>0, <1>b, <1>c, <2>1, <2>2 DEF DurableBeforeAck
<1>10. ForgottenUnacked'
  <2>1. Last + 1 \notin forgotten BY <1>b DEF WalTypeOK
  <2> QED BY <1>0, <1>b, <1>c, <2>1 DEF ForgottenUnacked
<1>11. PipeInOrder'
  <2>1. SUFFICES ASSUME ~stopped PROVE PipeInOrder' BY <1>0 DEF PipeInOrder
  <2>2. Recv' = Recv /\ Recv \in Nat BY <1>0 DEF Recv, ConsTypeOK, MainTypeOK
  <2>3. Len(out) \in Nat BY DEF GroupTypeOK
  <2>4. /\ Feeds(out, hist, Recv) /\ Feeds(toDeliver, hist, Recv + Len(out))
        /\ Recv + Len(out) + Len(toDeliver) = Last
    BY <2>1 DEF PipeInOrder
  <2>5. Recv + Len(out) \in Nat /\ Recv + Len(out) <= Last BY <1>g, <2>2, <2>3, <2>4
  <2>6. Feeds(out, hist', Recv)
    BY <1>b, <2>2, <2>4, <2>5, FeedsGrownLog DEF GroupTypeOK
  <2>7. Feeds(toDeliver, hist', Recv + Len(out))
    BY <1>b, <2>4, <2>5, FeedsGrownLog DEF GroupTypeOK
  <2>8. Feeds(toDeliver', hist', Recv + Len(out))
    <3>1. [idx |-> Last + 1, ev |-> pending[pos]] \in Envelope BY <1>a, <1>b DEF Envelope
    <3>2. (Recv + Len(out)) + Len(toDeliver) + 1 = Last + 1 BY <1>g, <2>4, <2>5
    <3>3. toDeliver' = Append(toDeliver, [idx |-> Last + 1, ev |-> pending[pos]])
      BY <1>b DEF AppendOk
    <3> QED BY <1>b, <2>5, <2>7, <3>1, <3>2, <3>3, FeedsAppend DEF GroupTypeOK
  <2>9. Recv + Len(out) + Len(toDeliver') = Last' BY <1>b, <1>g, <2>2, <2>3, <2>4
  <2> QED BY <1>0, <2>2, <2>6, <2>8, <2>9 DEF PipeInOrder
<1>12. ReceivedSettled'
  <2>1. SUFFICES ASSUME ~stopped, ctxDone => cpc = "ack" PROVE ReceivedSettled'
    BY <1>0 DEF ReceivedSettled
  <2>2. Recv' = Recv /\ Recv \in Nat /\ Recv <= Last
    BY <1>0, <1>g, <2>1 DEF Recv, PipeInOrder, ConsTypeOK, MainTypeOK, GroupTypeOK
  <2>3. \A i \in 1..Recv : hist'[i] = hist[i] /\ (Handled(i)' <=> Handled(i))
    BY <1>0, <1>b, <2>2 DEF Handled
  <2> QED BY <1>0, <1>e, <2>1, <2>2, <2>3 DEF ReceivedSettled
<1>13. StopOrder' BY <1>0 DEF AppendOk, WalAppend, NextToAppend, StopOrder
<1>14. ReplayProgress' BY <1>0 DEF ReplayProgress
<1>15. AckedAccounted' BY <1>0, <1>f, AccountedKept DEF Promised
<1> QED BY <1>1, <1>2, <1>3, <1>4, <1>5, <1>6, <1>7, <1>8, <1>9, <1>10, <1>11, <1>12, <1>13, <1>14, <1>15

(* The fsync of the batch: from here on its entries are durable, except    *)
(* those an earlier ignored failure dropped.                               *)
LEMMA SyncOkStep ==
  ASSUME IInv, proc = "up", SyncOk, UNCHANGED <<consVars, mainVars>>
  PROVE  IInv'
<1> USE DEF IInv, TypeOK
<1>0. UNCHANGED <<hist, first, forgotten, corrupt, capArmed, evicted, swallowed, status,
                  incoming, pending, pos, failed, toDeliver, out, timerActive, armed,
                  stopped, leaving, cbatch, lastIdx, cpc, draining, final, tries,
                  ctxDone, copies, abandoned, proc, snap, rpos, rbatch, replayed,
                  rtried, stops, faults, starts, unsure>>
  BY DEF SyncOk, FsyncOk, Dirty, consVars, mainVars
<1>k. Kept BY <1>0, SameLog DEF Kept, Stored, Excused
<1>1. ConsTypeOK' /\ MainTypeOK' /\ LogShape'
  BY <1>0 DEF ConsTypeOK, MainTypeOK, LogShape, Last
<1>2. ForgottenUnacked' /\ PipeInOrder' /\ ReceivedSettled' /\ AckAfterInsert'
  BY <1>0 DEF ForgottenUnacked, LiveIdx, Last, PipeInOrder, Recv, ReceivedSettled,
         Handled, Stored, AckAfterInsert
<1>3. ReplayProgress' /\ AckedAccounted'
  BY <1>0 DEF ReplayProgress, Last, Stored, AckedAccounted, Promised, Live, LiveIdx,
         Excused
<1>4. WalTypeOK' BY FsyncEffect DEF SyncOk
<1>5. GroupTypeOK' BY <1>0 DEF SyncOk, FsyncOk, Dirty, GroupTypeOK, GroupPCs
<1>6. IdleBeforeUp' BY <1>0 DEF SyncOk, FsyncOk, Dirty, IdleBeforeUp
<1>7. FlushShape'
  <2>1. /\ gpc = "sync" /\ gpc' = "ack" BY DEF SyncOk
  <2> QED BY <1>0, <1>k, <2>1 DEF FlushShape, Kept
<1>8. QueuedOnce' BY <1>0 DEF SyncOk, FsyncOk, Dirty, QueuedOnce
<1>9. LoggedStatus' BY <1>0 DEF SyncOk, FsyncOk, Dirty, LoggedStatus, Last
<1>10. DurableBeforeAck'
  <2>1. SUFFICES ASSUME NEW i \in LiveIdx, status[hist[i]] \in {"ok", "wait"}
                PROVE  i \in disk' \/ hist[i] \in swallowed
    BY <1>0, SameLog DEF DurableBeforeAck
  <2>2. CASE i \in forgotten BY <2>1, <2>2 DEF ForgottenUnacked
  <2>3. CASE i \notin forgotten BY <2>1, <2>3 DEF SyncOk, FsyncOk, Dirty
  <2> QED BY <2>2, <2>3
<1>11. StopOrder' BY <1>0 DEF SyncOk, FsyncOk, Dirty, StopOrder
<1> QED BY <1>1, <1>2, <1>3, <1>4, <1>5, <1>6, <1>7, <1>8, <1>9, <1>10, <1>11

(* The callers are answered: each is in the log, or already stored,        *)
(* evicted or abandoned, or gets its error.                                *)
LEMMA AckBatchStep ==
  ASSUME IInv, proc = "up", AckBatch, UNCHANGED <<consVars, mainVars>>
  PROVE  IInv'
<1> USE DEF IInv, TypeOK
<1>0. UNCHANGED <<hist, first, disk, forgotten, corrupt, capArmed, evicted, swallowed,
                  incoming, pending, pos, failed, toDeliver, out, timerActive, armed,
                  stopped, leaving, cbatch, lastIdx, cpc, draining, final, tries,
                  ctxDone, copies, abandoned, proc, snap, rpos, rbatch, replayed,
                  rtried, stops, faults, starts, unsure>>
  BY DEF AckBatch, Answer, walVars, consVars, mainVars
<1>1. WalTypeOK' /\ ConsTypeOK' /\ MainTypeOK' /\ LogShape' /\ PipeInOrder' /\
      ReceivedSettled' /\ AckAfterInsert' /\ ReplayProgress'
  BY <1>0 DEF WalTypeOK, Last, ConsTypeOK, MainTypeOK, LogShape, PipeInOrder, Recv,
         ReceivedSettled, Handled, Stored, AckAfterInsert, ReplayProgress
<1>2. GroupTypeOK' BY <1>0 DEF AckBatch, Answer, GroupTypeOK, GroupPCs
<1>3. IdleBeforeUp' BY <1>0 DEF AckBatch, Answer, IdleBeforeUp
<1>4. FlushShape'
  BY <1>0 DEF AckBatch, Answer, FlushShape, Live, LiveIdx, Last, Stored, Excused
<1>5. QueuedOnce'
  <2>1. \A k \in 1..Len(incoming) : incoming[k] \in Events /\ incoming[k] \notin Range(pending)
    BY QueuesDisjoint
  <2>2. \A k \in 1..Len(pending) : pending[k] \in Events /\ pending[k] \in Range(pending)
    BY DEF GroupTypeOK, Range
  <2>3. \A x \in Events : status'[x] # "new" <=> status[x] # "new"
    BY DEF AckBatch, Answer, GroupTypeOK
  <2>4. \A x \in Events : x \notin Range(pending) => status'[x] = status[x]
    BY DEF AckBatch, Answer
  <2>5. gpc' = "deliver" BY DEF AckBatch
  <2> QED BY <1>0, <2>1, <2>2, <2>3, <2>4, <2>5 DEF QueuedOnce
<1>6. LoggedStatus'
  <2>1. \A i \in 1..Last : hist[i] \in Events BY DEF Last, WalTypeOK
  <2>2. \A x \in Range(pending) \cap Events : status'[x] # "wait"
    BY DEF AckBatch, Answer, GroupTypeOK
  <2>3. \A x \in Events : (status'[x] = "wait" => status[x] = "wait") /\ (status'[x] = "new" => status[x] = "new")
    BY DEF AckBatch, Answer, GroupTypeOK
  <2> QED BY <1>0, SameLog, <2>1, <2>2, <2>3 DEF LoggedStatus
<1>7. DurableBeforeAck'
  BY <1>0 DEF AckBatch, Answer, DurableBeforeAck, LiveIdx, Last, GroupTypeOK, WalTypeOK
<1>8. ForgottenUnacked'
  BY <1>0 DEF AckBatch, Answer, ForgottenUnacked, LiveIdx, Last, GroupTypeOK, WalTypeOK
<1>9. StopOrder' BY <1>0 DEF AckBatch, Answer, StopOrder
<1>10. AckedAccounted'
  <2>1. Live' = Live /\ Stored' = Stored /\ Excused' = Excused
    BY <1>0, SameLog DEF Stored, Excused
  <2>2. \A x \in Range(pending) : x \in failed \cup Live \cup Stored \cup Excused
    BY DEF AckBatch, FlushShape, Range, GroupTypeOK
  <2>3. \A x \in Promised' : x \in Promised \/ (x \in Range(pending) /\ x \notin failed)
    BY DEF Promised, AckBatch, Answer, GroupTypeOK
  <2> QED BY <2>1, <2>2, <2>3 DEF AckedAccounted
<1> QED BY <1>1, <1>2, <1>3, <1>4, <1>5, <1>6, <1>7, <1>8, <1>9, <1>10

(* An envelope moves from the loop to the out channel. *)
LEMMA DeliverStep ==
  ASSUME IInv, proc = "up", Deliver, UNCHANGED <<consVars, mainVars>>
  PROVE  IInv'
<1> USE DEF IInv, TypeOK
<1>0. UNCHANGED <<hist, first, disk, forgotten, corrupt, capArmed, evicted, swallowed,
                  status, incoming, pending, pos, failed, gpc, timerActive, armed,
                  stopped, leaving, cbatch, lastIdx, cpc, draining, final, tries,
                  ctxDone, copies, abandoned, proc, snap, rpos, rbatch, replayed,
                  rtried, stops, faults, starts, unsure>>
  BY DEF Deliver, walVars, consVars, mainVars
<1>1. WalTypeOK' /\ ConsTypeOK' /\ MainTypeOK'
  BY <1>0 DEF WalTypeOK, Last, ConsTypeOK, MainTypeOK
<1>2. LogShape' /\ QueuedOnce' /\ LoggedStatus' /\ DurableBeforeAck'
  BY <1>0 DEF LogShape, Last, QueuedOnce, LoggedStatus, DurableBeforeAck, LiveIdx
<1>3. ForgottenUnacked' /\ ReceivedSettled' /\ AckAfterInsert' /\ StopOrder' /\
      ReplayProgress' /\ AckedAccounted'
  BY <1>0 DEF ForgottenUnacked, LiveIdx, Last, ReceivedSettled, Recv, Handled, Stored,
         AckAfterInsert, StopOrder, ReplayProgress, AckedAccounted, Promised, Live,
         Excused
<1>4. GroupTypeOK'
  <2>1. Head(toDeliver) \in Envelope /\ Tail(toDeliver) \in Seq(Envelope)
    BY TailFacts DEF Deliver, GroupTypeOK
  <2>2. out' \in Seq(Envelope) BY <2>1, AppendFacts DEF Deliver, GroupTypeOK
  <2> QED BY <1>0, <2>1, <2>2 DEF Deliver, GroupTypeOK
<1>5. IdleBeforeUp' BY <1>0 DEF Deliver, IdleBeforeUp
<1>6. FlushShape' BY <1>0 DEF Deliver, FlushShape, Live, LiveIdx, Last, Stored, Excused
<1>7. PipeInOrder'
  <2>1. SUFFICES ASSUME ~stopped PROVE PipeInOrder' BY <1>0 DEF PipeInOrder
  <2>2. Recv' = Recv /\ Recv \in Nat /\ Last' = Last
    BY <1>0 DEF Recv, Last, ConsTypeOK, MainTypeOK
  <2>3. /\ Len(toDeliver) \in Nat /\ Len(toDeliver) >= 1 /\ Head(toDeliver) \in Envelope
        /\ Len(toDeliver') = Len(toDeliver) - 1
    BY TailFacts DEF Deliver, GroupTypeOK
  <2>4. Len(out) \in Nat /\ Len(out') = Len(out) + 1
    BY <2>3, AppendFacts DEF Deliver, GroupTypeOK
  <2>5. /\ Feeds(out, hist, Recv) /\ Feeds(toDeliver, hist, Recv + Len(out))
        /\ Recv + Len(out) + Len(toDeliver) = Last
    BY <2>1 DEF PipeInOrder
  <2>6. /\ Head(toDeliver).idx = Recv + Len(out) + 1
        /\ Head(toDeliver).ev = hist[Recv + Len(out) + 1]
        /\ Feeds(toDeliver', hist, Recv + Len(out) + 1)
    <3>1. Recv + Len(out) \in Nat BY <2>2, <2>4
    <3> QED BY <2>5, <3>1, FeedsTail DEF Deliver, GroupTypeOK
  <2>7. Feeds(out', hist, Recv)
    BY <2>2, <2>3, <2>5, <2>6, FeedsAppend DEF Deliver, GroupTypeOK
  <2>8. Recv + Len(out) + 1 = Recv + Len(out') /\ Recv + Len(out') + Len(toDeliver') = Last
    BY <2>2, <2>3, <2>4, <2>5
  <2> QED BY <1>0, <2>2, <2>6, <2>7, <2>8 DEF PipeInOrder
<1> QED BY <1>1, <1>2, <1>3, <1>4, <1>5, <1>6, <1>7

(* A send is skipped after Close; PipeInOrder is about the time before. *)
LEMMA DeliverSkipStep ==
  ASSUME IInv, proc = "up", DeliverSkip, UNCHANGED <<consVars, mainVars>>
  PROVE  IInv'
<1> USE DEF IInv, TypeOK
<1>0. UNCHANGED <<hist, first, disk, forgotten, corrupt, capArmed, evicted, swallowed,
                  status, incoming, pending, pos, failed, out, gpc, timerActive, armed,
                  stopped, leaving, cbatch, lastIdx, cpc, draining, final, tries,
                  ctxDone, copies, abandoned, proc, snap, rpos, rbatch, replayed,
                  rtried, stops, faults, starts, unsure>>
  BY DEF DeliverSkip, walVars, consVars, mainVars
<1>1. WalTypeOK' /\ ConsTypeOK' /\ MainTypeOK'
  BY <1>0 DEF WalTypeOK, Last, ConsTypeOK, MainTypeOK
<1>2. LogShape' /\ QueuedOnce' /\ LoggedStatus' /\ DurableBeforeAck'
  BY <1>0 DEF LogShape, Last, QueuedOnce, LoggedStatus, DurableBeforeAck, LiveIdx
<1>3. ForgottenUnacked' /\ ReceivedSettled' /\ AckAfterInsert' /\ StopOrder' /\
      ReplayProgress' /\ AckedAccounted'
  BY <1>0 DEF ForgottenUnacked, LiveIdx, Last, ReceivedSettled, Recv, Handled, Stored,
         AckAfterInsert, StopOrder, ReplayProgress, AckedAccounted, Promised, Live,
         Excused
<1>4. GroupTypeOK' BY <1>0 DEF DeliverSkip, GroupTypeOK
<1>5. IdleBeforeUp' BY <1>0 DEF DeliverSkip, IdleBeforeUp
<1>6. FlushShape'
  BY <1>0 DEF DeliverSkip, FlushShape, Live, LiveIdx, Last, Stored, Excused
<1>7. PipeInOrder' BY <1>0 DEF DeliverSkip, PipeInOrder, Recv, Last
<1> QED BY <1>1, <1>2, <1>3, <1>4, <1>5, <1>6, <1>7

(* flush returns. *)
LEMMA FlushDoneStep ==
  ASSUME IInv, proc = "up", FlushDone, UNCHANGED <<consVars, mainVars>>
  PROVE  IInv'
<1> USE DEF IInv, TypeOK
<1>0. UNCHANGED <<hist, first, disk, forgotten, corrupt, capArmed, evicted, swallowed,
                  status, incoming, toDeliver, out, timerActive, armed, stopped,
                  leaving, cbatch, lastIdx, cpc, draining, final, tries, ctxDone,
                  copies, abandoned, proc, snap, rpos, rbatch, replayed, rtried, stops,
                  faults, starts, unsure>>
  BY DEF FlushDone, walVars, consVars, mainVars
<1>1. WalTypeOK' /\ ConsTypeOK' /\ MainTypeOK'
  BY <1>0 DEF WalTypeOK, Last, ConsTypeOK, MainTypeOK
<1>2. LogShape' /\ ForgottenUnacked' /\ PipeInOrder' /\ ReceivedSettled'
  BY <1>0 DEF LogShape, Last, ForgottenUnacked, LiveIdx, PipeInOrder, Recv,
         ReceivedSettled, Handled, Stored
<1>3. AckAfterInsert' /\ ReplayProgress' /\ AckedAccounted'
  BY <1>0 DEF AckAfterInsert, Stored, ReplayProgress, Last, AckedAccounted, Promised,
         Live, LiveIdx, Excused
<1>4. GroupTypeOK' BY <1>0 DEF FlushDone, GroupTypeOK, GroupPCs
<1>5. IdleBeforeUp' BY <1>0 DEF FlushDone, IdleBeforeUp
<1>6. FlushShape'
  BY <1>0 DEF FlushDone, FlushShape, Live, LiveIdx, Last, Stored, Excused
<1>7. QueuedOnce' BY <1>0 DEF FlushDone, QueuedOnce
<1>8. LoggedStatus' BY <1>0 DEF FlushDone, LoggedStatus, Last
<1>9. DurableBeforeAck' BY <1>0 DEF FlushDone, DurableBeforeAck, LiveIdx, Last
<1>10. StopOrder' BY <1>0 DEF FlushDone, StopOrder
<1> QED BY <1>1, <1>2, <1>3, <1>4, <1>5, <1>6, <1>7, <1>8, <1>9, <1>10

(* An append fails: the request is remembered as failed. *)
LEMMA AppendErrStep ==
  ASSUME IInv, proc = "up", AppendErr, faults' \in Nat, UNCHANGED consVars, UNCHANGED
         unsure, UNCHANGED <<proc, snap, rpos, rbatch, replayed, rtried, stops, starts>>
  PROVE  IInv'
<1> USE DEF IInv, TypeOK
<1>0. UNCHANGED <<hist, first, disk, forgotten, corrupt, capArmed, evicted, swallowed,
                  status, incoming, pending, toDeliver, out, timerActive, armed,
                  stopped, leaving, cbatch, lastIdx, cpc, draining, final, tries,
                  ctxDone, copies, abandoned, proc, snap, rpos, rbatch, replayed,
                  rtried, stops, starts, unsure>>
  BY DEF AppendErr, NextToAppend, walVars, consVars
<1>a. pos \in 1..Len(pending) /\ pending[pos] \in Events /\ gpc = "append"
  BY DEF AppendErr, FlushShape, GroupTypeOK
<1>k. Live' = Live /\ Stored' = Stored /\ Excused' = Excused
  BY <1>0, SameLog DEF Stored, Excused
<1>1. WalTypeOK' /\ ConsTypeOK' /\ LogShape'
  BY <1>0 DEF WalTypeOK, Last, ConsTypeOK, LogShape
<1>2. ForgottenUnacked' /\ PipeInOrder' /\ ReceivedSettled' /\ AckAfterInsert'
  BY <1>0 DEF ForgottenUnacked, LiveIdx, Last, PipeInOrder, Recv, ReceivedSettled,
         Handled, Stored, AckAfterInsert
<1>3. ReplayProgress' /\ AckedAccounted'
  BY <1>0 DEF ReplayProgress, Last, Stored, AckedAccounted, Promised, Live, LiveIdx,
         Excused
<1>4. GroupTypeOK' BY <1>0, <1>a DEF AppendErr, NextToAppend, GroupTypeOK, GroupPCs
<1>5. MainTypeOK' BY <1>0 DEF AppendErr, NextToAppend, MainTypeOK
<1>6. IdleBeforeUp' BY <1>0 DEF AppendErr, NextToAppend, IdleBeforeUp
<1>7. FlushShape'
  <2>1. pos' = pos + 1 /\ Len(pending) \in Nat /\ pos \in Nat
        /\ gpc' = IF pos = Len(pending) THEN "sync" ELSE "append"
    BY DEF AppendErr, NextToAppend, GroupTypeOK
  <2>2. failed' = failed \cup {pending[pos]} BY DEF AppendErr
  <2>3. \A k \in 1..pos : pending[k] \in failed' \cup Live \cup Stored \cup Excused
    BY <1>a, <2>1, <2>2 DEF FlushShape
  <2> QED BY <1>0, <1>a, <1>k, <2>1, <2>3 DEF FlushShape
<1>8. QueuedOnce' BY <1>0 DEF AppendErr, NextToAppend, QueuedOnce
<1>9. LoggedStatus' BY <1>0 DEF AppendErr, NextToAppend, LoggedStatus, Last
<1>10. DurableBeforeAck'
  BY <1>0 DEF AppendErr, NextToAppend, DurableBeforeAck, LiveIdx, Last
<1>11. StopOrder' BY <1>0 DEF AppendErr, NextToAppend, StopOrder
<1> QED BY <1>1, <1>2, <1>3, <1>4, <1>5, <1>6, <1>7, <1>8, <1>9, <1>10, <1>11

(* The fsync of the batch fails: every caller in it gets the error, so no  *)
(* promise covers the dropped pages.                                       *)
LEMMA SyncErrStep ==
  ASSUME IInv, proc = "up", SyncErr, faults' \in Nat, UNCHANGED consVars, UNCHANGED
         unsure, UNCHANGED <<proc, snap, rpos, rbatch, replayed, rtried, stops, starts>>
  PROVE  IInv'
<1> USE DEF IInv, TypeOK
<1>0. UNCHANGED <<hist, first, disk, corrupt, capArmed, evicted, swallowed, incoming,
                  pending, pos, failed, toDeliver, out, timerActive, armed, stopped,
                  leaving, cbatch, lastIdx, cpc, draining, final, tries, ctxDone,
                  copies, abandoned, proc, snap, rpos, rbatch, replayed, rtried, stops,
                  starts, unsure>>
  BY DEF SyncErr, FsyncFailFatal, Dirty, Answer, consVars
<1>a. WalTypeOK' /\ disk' = disk /\ swallowed' = swallowed
  BY FsyncEffect DEF SyncErr, FsyncFailFatal
<1>b. \A x \in Events :
         status'[x] = IF status[x] = "wait" /\ x \in Range(pending) THEN "err" ELSE status[x]
  BY DEF SyncErr, Answer
<1>1. ConsTypeOK' /\ LogShape' /\ PipeInOrder' /\ ReceivedSettled' /\ AckAfterInsert' /\
      ReplayProgress'
  BY <1>0 DEF ConsTypeOK, LogShape, Last, PipeInOrder, Recv, ReceivedSettled, Handled,
         Stored, AckAfterInsert, ReplayProgress
<1>2. WalTypeOK' BY <1>a
<1>3. GroupTypeOK'
  BY <1>0 DEF SyncErr, FsyncFailFatal, Dirty, Answer, GroupTypeOK, GroupPCs
<1>4. MainTypeOK' BY <1>0 DEF SyncErr, FsyncFailFatal, Dirty, Answer, MainTypeOK
<1>5. IdleBeforeUp' BY <1>0 DEF SyncErr, FsyncFailFatal, Dirty, Answer, IdleBeforeUp
<1>6. FlushShape'
  BY <1>0 DEF SyncErr, FsyncFailFatal, Dirty, Answer, FlushShape, Live, LiveIdx, Last,
         Stored, Excused
<1>7. QueuedOnce'
  <2>1. \A k \in 1..Len(incoming) : incoming[k] \in Events /\ incoming[k] \notin Range(pending)
    BY QueuesDisjoint
  <2>2. \A k \in 1..Len(pending) : pending[k] \in Events BY DEF GroupTypeOK
  <2>3. gpc' = "fatal" BY DEF SyncErr
  <2>4. \A x \in Events : status'[x] = "new" => status[x] = "new" BY <1>b
  <2> QED BY <1>0, <1>b, <2>1, <2>2, <2>3, <2>4 DEF QueuedOnce
<1>8. LoggedStatus'
  <2>1. \A i \in 1..Last : hist[i] \in Events BY DEF Last, WalTypeOK
  <2> QED BY <1>0, <1>b, <2>1, SameLog DEF LoggedStatus
<1>9. DurableBeforeAck'
  BY <1>0 DEF SyncErr, FsyncFailFatal, Dirty, Answer, DurableBeforeAck, LiveIdx, Last,
         GroupTypeOK, WalTypeOK
<1>10. ForgottenUnacked'
  <2>1. SUFFICES ASSUME NEW i \in LiveIdx, i \in forgotten', hist[i] \notin swallowed
                PROVE  status'[hist[i]] \in {"err", "gone"}
    BY <1>0, <1>a, SameLog DEF ForgottenUnacked
  <2>2. i \in 1..Last /\ hist[i] \in Events /\ status[hist[i]] \in {"new", "wait", "ok", "err", "gone"}
    BY DEF LiveIdx, Last, WalTypeOK, GroupTypeOK
  <2>3. CASE i \in forgotten BY <1>b, <2>1, <2>2, <2>3 DEF ForgottenUnacked
  <2>4. CASE i \notin forgotten
    <3>1. i \notin disk BY <2>1, <2>4 DEF SyncErr, FsyncFailFatal, Dirty
    <3>2. status[hist[i]] # "ok" BY <2>1, <3>1 DEF DurableBeforeAck
    <3>3. status[hist[i]] # "new" /\ (status[hist[i]] = "wait" => hist[i] \in Range(pending))
      BY <2>2 DEF LoggedStatus
    <3> QED BY <1>b, <2>2, <3>2, <3>3
  <2> QED BY <2>3, <2>4
<1>11. StopOrder' BY <1>0 DEF SyncErr, FsyncFailFatal, Dirty, Answer, StopOrder
<1>12. AckedAccounted'
  BY <1>0 DEF SyncErr, FsyncFailFatal, Dirty, Answer, AckedAccounted, Promised, Stored,
         Live, LiveIdx, Last, Excused
<1> QED BY <1>1, <1>2, <1>3, <1>4, <1>5, <1>6, <1>7, <1>8, <1>9, <1>10, <1>11, <1>12

(* The consumer receives the entry that follows the last one it received. *)
LEMMA CRecvStep ==
  ASSUME IInv, proc = "up", CRecv, UNCHANGED mainVars
  PROVE  IInv'
<1> USE DEF IInv, TypeOK
<1>0. UNCHANGED <<hist, first, disk, forgotten, corrupt, capArmed, evicted, swallowed,
                  status, incoming, pending, pos, failed, toDeliver, gpc, timerActive,
                  armed, stopped, leaving, draining, final, tries, ctxDone, copies,
                  abandoned, proc, snap, rpos, rbatch, replayed, rtried, stops, faults,
                  starts, unsure>>
  BY DEF CRecv, walVars, mainVars
<1>a. /\ Len(out) \in Nat /\ Len(out) >= 1 /\ Head(out) = out[1] /\ Head(out) \in Envelope
      /\ out' \in Seq(Envelope) /\ Len(out') = Len(out) - 1
      /\ \A k \in 1..(Len(out) - 1) : out'[k] = out[k + 1]
  BY TailFacts DEF CRecv, GroupTypeOK
<1>b. cbatch' \in Seq(Events) /\ Range(cbatch') = Range(cbatch) \cup {Head(out).ev}
  BY <1>a, AppendFacts, RangeAppend DEF CRecv, ConsTypeOK, Envelope
<1>c. cpc = "select" /\ cpc' \in {"insert", "select"} /\ lastIdx' = Head(out).idx
  BY DEF CRecv
<1>d. ~stopped BY <1>c DEF StopOrder
<1>e. lastIdx' = Recv + 1 /\ Head(out).ev = hist[Recv + 1] /\ Recv' = Recv + 1 /\ Recv \in Nat
  <2>1. Recv \in Nat BY DEF Recv, ConsTypeOK, MainTypeOK
  <2>2. Feeds(out, hist, Recv) /\ out # <<>> BY <1>d DEF PipeInOrder, CRecv
  <2>3. Head(out).idx = Recv + 1 /\ Head(out).ev = hist[Recv + 1]
    BY <2>1, <2>2, FeedsTail DEF GroupTypeOK
  <2> QED BY <1>c, <2>1, <2>3 DEF Recv
<1>1. WalTypeOK' /\ MainTypeOK' /\ LogShape'
  BY <1>0 DEF WalTypeOK, Last, MainTypeOK, LogShape
<1>2. FlushShape' /\ QueuedOnce' /\ LoggedStatus' /\ DurableBeforeAck'
  BY <1>0 DEF FlushShape, Live, LiveIdx, Last, Stored, Excused, QueuedOnce,
         LoggedStatus, DurableBeforeAck
<1>3. ForgottenUnacked' /\ ReplayProgress' /\ AckedAccounted'
  BY <1>0 DEF ForgottenUnacked, LiveIdx, Last, ReplayProgress, Stored, AckedAccounted,
         Promised, Live, Excused
<1>4. GroupTypeOK' BY <1>0, <1>a DEF GroupTypeOK
<1>5. ConsTypeOK' BY <1>0, <1>b, <1>c, <1>e DEF ConsTypeOK, ConsPCs
<1>6. IdleBeforeUp' BY <1>0 DEF CRecv, IdleBeforeUp
<1>7. PipeInOrder'
  <2>1. /\ Len(toDeliver) \in Nat /\ Last' = Last BY <1>0 DEF GroupTypeOK, Last
  <2>2. /\ Feeds(out, hist, Recv) /\ Feeds(toDeliver, hist, Recv + Len(out))
        /\ Recv + Len(out) + Len(toDeliver) = Last
    BY <1>d DEF PipeInOrder
  <2>3. Feeds(out', hist, Recv + 1)
    BY <1>e, <2>2, FeedsTail DEF CRecv, GroupTypeOK
  <2>4. Recv' + Len(out') = Recv + Len(out) BY <1>a, <1>e
  <2> QED BY <1>0, <1>e, <2>1, <2>2, <2>3, <2>4 DEF PipeInOrder
<1>8. ReceivedSettled'
  <2>1. SUFFICES ASSUME ~ctxDone PROVE ReceivedSettled' BY <1>0, <1>c DEF ReceivedSettled
  <2>2. Stored' = Stored /\ \A i \in 1..Recv : Handled(i)' <=> Handled(i)
    BY <1>0 DEF Stored, Handled
  <2> QED BY <1>0, <1>b, <1>c, <1>d, <1>e, <2>1, <2>2 DEF ReceivedSettled
<1>9. AckAfterInsert' BY <1>0 DEF CRecv, AckAfterInsert, Stored
<1>10. StopOrder' BY <1>0 DEF CRecv, StopOrder
<1> QED BY <1>1, <1>2, <1>3, <1>4, <1>5, <1>6, <1>7, <1>8, <1>9, <1>10

(* The consumer decides to flush, to drain, to settle or to retry. *)
LEMMA ConsumerTurnStep ==
  ASSUME IInv, proc = "up", CTick \/ CDrain \/ CSettle \/ CRetry, UNCHANGED mainVars
  PROVE  IInv'
<1> USE DEF IInv, TypeOK
<1>0. UNCHANGED <<hist, first, disk, forgotten, corrupt, capArmed, evicted, swallowed,
                  status, incoming, pending, pos, failed, toDeliver, out, gpc,
                  timerActive, armed, stopped, leaving, cbatch, lastIdx, tries, ctxDone,
                  copies, abandoned, proc, snap, rpos, rbatch, replayed, rtried, stops,
                  faults, starts, unsure>>
  BY DEF CTick, CDrain, CSettle, CRetry, walVars, groupVars, mainVars
<1>1. WalTypeOK' /\ GroupTypeOK' /\ MainTypeOK'
  BY <1>0 DEF WalTypeOK, Last, GroupTypeOK, MainTypeOK
<1>2. LogShape' /\ FlushShape' /\ QueuedOnce' /\ LoggedStatus'
  BY <1>0 DEF LogShape, Last, FlushShape, Live, LiveIdx, Stored, Excused, QueuedOnce,
         LoggedStatus
<1>3. DurableBeforeAck' /\ ForgottenUnacked' /\ PipeInOrder' /\ ReplayProgress' /\
      AckedAccounted'
  BY <1>0 DEF DurableBeforeAck, LiveIdx, Last, ForgottenUnacked, PipeInOrder, Recv,
         ReplayProgress, Stored, AckedAccounted, Promised, Live, Excused
<1>4. ConsTypeOK' BY <1>0 DEF CTick, CDrain, CSettle, CRetry, ConsTypeOK, ConsPCs
<1>5. IdleBeforeUp' BY <1>0 DEF CTick, CDrain, CSettle, CRetry, IdleBeforeUp
<1>6. ReceivedSettled'
  BY <1>0 DEF CTick, CDrain, CSettle, CRetry, ReceivedSettled, Recv, Handled, Stored
<1>7. AckAfterInsert' BY <1>0 DEF CTick, CDrain, CSettle, CRetry, AckAfterInsert, Stored
<1>8. StopOrder' BY <1>0 DEF CTick, CDrain, CSettle, CRetry, StopOrder
<1> QED BY <1>1, <1>2, <1>3, <1>4, <1>5, <1>6, <1>7, <1>8

(* A batch reaches ClickHouse. *)
LEMMA CInsertOkStep ==
  ASSUME IInv, proc = "up", CInsertOk, UNCHANGED mainVars
  PROVE  IInv'
<1> USE DEF IInv, TypeOK
<1>0. UNCHANGED <<hist, first, disk, forgotten, corrupt, capArmed, evicted, swallowed,
                  status, incoming, pending, pos, failed, toDeliver, out, gpc,
                  timerActive, armed, stopped, leaving, cbatch, lastIdx, draining,
                  final, ctxDone, abandoned, proc, snap, rpos, rbatch, replayed, rtried,
                  stops, faults, starts, unsure>>
  BY DEF CInsertOk, walVars, groupVars, mainVars
<1>s. copies' \in [Events -> Nat] /\ Stored' = Stored \cup Range(cbatch)
  BY CommitEffect DEF CInsertOk, ConsTypeOK, MainTypeOK
<1>k. Kept
  BY <1>s, <1>0, SameLog DEF Kept, Excused
<1>1. WalTypeOK' /\ GroupTypeOK' /\ MainTypeOK'
  BY <1>0 DEF WalTypeOK, Last, GroupTypeOK, MainTypeOK
<1>2. LogShape' /\ QueuedOnce' /\ LoggedStatus' /\ DurableBeforeAck'
  BY <1>0 DEF LogShape, Last, QueuedOnce, LoggedStatus, DurableBeforeAck, LiveIdx
<1>3. ForgottenUnacked' /\ PipeInOrder'
  BY <1>0 DEF ForgottenUnacked, LiveIdx, Last, PipeInOrder, Recv
<1>4. ConsTypeOK' BY <1>0, <1>s DEF CInsertOk, ConsTypeOK, ConsPCs
<1>5. IdleBeforeUp' BY <1>0 DEF CInsertOk, IdleBeforeUp
<1>6. FlushShape' BY <1>0, <1>k, FlushKept
<1>7. ReceivedSettled'
  <2>1. \A i \in 1..Recv : Handled(i)' <=> Handled(i) BY <1>0 DEF Handled
  <2> QED BY <1>0, <1>s, <2>1 DEF CInsertOk, ReceivedSettled, Recv
<1>8. AckAfterInsert' BY <1>0, <1>s DEF AckAfterInsert
<1>9. StopOrder' BY <1>0 DEF CInsertOk, StopOrder
<1>10. ReplayProgress' BY <1>0 DEF ReplayProgress
<1>11. AckedAccounted' BY <1>0, <1>k, AccountedKept DEF Promised
<1> QED BY <1>1, <1>2, <1>3, <1>4, <1>5, <1>6, <1>7, <1>8, <1>9, <1>10, <1>11

(* An insert fails; after the last attempt the batch is abandoned. *)
LEMMA CInsertErrStep ==
  ASSUME IInv, NEW c \in BOOLEAN, proc = "up", CInsertErr(c), faults' \in Nat, unsure'
         \in Nat, UNCHANGED <<proc, snap, rpos, rbatch, replayed, rtried, stops,
         starts>>
  PROVE  IInv'
<1> USE DEF IInv, TypeOK
<1>0. UNCHANGED <<hist, first, disk, forgotten, corrupt, capArmed, evicted, swallowed,
                  status, incoming, pending, pos, failed, toDeliver, out, gpc,
                  timerActive, armed, stopped, leaving, lastIdx, draining, final,
                  ctxDone, proc, snap, rpos, rbatch, replayed, rtried, stops, starts>>
  BY DEF CInsertErr, GiveUp, AfterFlush, walVars, groupVars
<1>s. copies' \in [Events -> Nat] /\ Stored \subseteq Stored'
  <2>1. CASE c BY <2>1, CommitEffect DEF CInsertErr, ConsTypeOK
  <2>2. CASE ~c BY <2>2 DEF CInsertErr, ConsTypeOK, Stored
  <2> QED BY <2>1, <2>2
<1>b. /\ cbatch' \in {cbatch, <<>>}
      /\ abandoned \subseteq abandoned' /\ abandoned' \subseteq abandoned \cup Range(cbatch)
      /\ cpc = "insert" /\ cpc' \in ConsPCs \ {"ack", "done"} /\ (cpc' = "sync" => final)
      /\ ~ctxDone => Range(cbatch) \subseteq Range(cbatch') \cup abandoned'
  BY EmptySeq DEF CInsertErr, GiveUp, AfterFlush, ConsPCs
<1>k. Kept
  BY <1>s, <1>b, <1>0, SameLog DEF Kept, Excused
<1>1. WalTypeOK' /\ GroupTypeOK' /\ LogShape' /\ QueuedOnce' /\ LoggedStatus' /\
      DurableBeforeAck' /\ ForgottenUnacked' /\ PipeInOrder'
  BY <1>0 DEF WalTypeOK, Last, GroupTypeOK, LogShape, QueuedOnce, LoggedStatus,
         DurableBeforeAck, LiveIdx, ForgottenUnacked, PipeInOrder, Recv
<1>2. ConsTypeOK'
  <2>1. tries' \in Nat BY DEF CInsertErr, GiveUp, ConsTypeOK
  <2>2. abandoned' \subseteq Events BY <1>b, RangeType DEF ConsTypeOK
  <2> QED BY <1>0, <1>s, <1>b, <2>1, <2>2, EmptySeq DEF ConsTypeOK
<1>3. MainTypeOK' BY <1>0 DEF MainTypeOK
<1>4. IdleBeforeUp' BY <1>0 DEF IdleBeforeUp
<1>5. FlushShape' BY <1>0, <1>k, FlushKept
<1>6. ReceivedSettled'
  <2>1. SUFFICES ASSUME ~stopped, ~ctxDone PROVE ReceivedSettled'
    BY <1>0, <1>b DEF ReceivedSettled
  <2>2. Recv' = Recv /\ \A i \in 1..Recv : Handled(i)' <=> Handled(i) BY <1>0 DEF Handled, Recv
  <2>3. \A i \in 1..Recv : Handled(i) => hist[i] \in Stored \cup abandoned \cup Range(cbatch)
    BY <2>1 DEF ReceivedSettled
  <2> QED BY <1>0, <1>s, <1>b, <2>1, <2>2, <2>3 DEF ReceivedSettled
<1>7. AckAfterInsert' BY <1>b DEF AckAfterInsert
<1>8. StopOrder' BY <1>0, <1>b DEF StopOrder, ConsPCs
<1>9. ReplayProgress' BY <1>0 DEF ReplayProgress
<1>10. AckedAccounted' BY <1>0, <1>k, AccountedKept DEF Promised
<1> QED BY <1>1, <1>2, <1>3, <1>4, <1>5, <1>6, <1>7, <1>8, <1>9, <1>10

(* The context ends in a backoff: the batch is dropped, and the consumer   *)
(* will acknowledge nothing more.                                          *)
LEMMA CRetryCancelledStep ==
  ASSUME IInv, proc = "up", CRetryCancelled, UNCHANGED mainVars
  PROVE  IInv'
<1> USE DEF IInv, TypeOK
<1>0. UNCHANGED <<hist, first, disk, forgotten, corrupt, capArmed, evicted, swallowed,
                  status, incoming, pending, pos, failed, toDeliver, out, gpc,
                  timerActive, armed, stopped, leaving, lastIdx, draining, final,
                  ctxDone, copies, proc, snap, rpos, rbatch, replayed, rtried, stops,
                  faults, starts, unsure>>
  BY DEF CRetryCancelled, GiveUp, AfterFlush, walVars, groupVars, mainVars
<1>1. WalTypeOK' /\ GroupTypeOK' /\ MainTypeOK'
  BY <1>0 DEF WalTypeOK, Last, GroupTypeOK, MainTypeOK
<1>2. LogShape' /\ QueuedOnce' /\ LoggedStatus' /\ DurableBeforeAck'
  BY <1>0 DEF LogShape, Last, QueuedOnce, LoggedStatus, DurableBeforeAck, LiveIdx
<1>3. ForgottenUnacked' /\ PipeInOrder' /\ ReplayProgress'
  BY <1>0 DEF ForgottenUnacked, LiveIdx, Last, PipeInOrder, Recv, ReplayProgress, Stored
<1>4. ConsTypeOK' BY <1>0 DEF CRetryCancelled, GiveUp, AfterFlush, ConsTypeOK, ConsPCs
<1>5. IdleBeforeUp' BY <1>0 DEF CRetryCancelled, GiveUp, AfterFlush, IdleBeforeUp
<1>6. FlushShape'
  BY <1>0 DEF CRetryCancelled, GiveUp, AfterFlush, FlushShape, Live, LiveIdx, Last,
         Stored, Excused
<1>7. ReceivedSettled'
  BY <1>0 DEF CRetryCancelled, GiveUp, AfterFlush, ReceivedSettled, Recv, Handled,
         Stored
<1>8. AckAfterInsert'
  BY <1>0 DEF CRetryCancelled, GiveUp, AfterFlush, AckAfterInsert, Stored
<1>9. StopOrder' BY <1>0 DEF CRetryCancelled, GiveUp, AfterFlush, StopOrder
<1>10. AckedAccounted'
  BY <1>0 DEF CRetryCancelled, GiveUp, AfterFlush, AckedAccounted, Promised, Stored,
         Live, LiveIdx, Last, Excused
<1> QED BY <1>1, <1>2, <1>3, <1>4, <1>5, <1>6, <1>7, <1>8, <1>9, <1>10

(* The log is acknowledged through the last index received: every entry up *)
(* to it is stored or abandoned.                                           *)
LEMMA CAckStep ==
  ASSUME IInv, proc = "up", CAck, UNCHANGED mainVars
  PROVE  IInv'
<1> USE DEF IInv, TypeOK
<1>0. UNCHANGED <<hist, corrupt, capArmed, evicted, swallowed, status, incoming,
                  pending, pos, failed, toDeliver, out, gpc, timerActive, armed,
                  stopped, leaving, lastIdx, draining, final, tries, ctxDone, copies,
                  abandoned, proc, snap, rpos, rbatch, replayed, rtried, stops, faults,
                  starts, unsure>>
  BY DEF CAck, WalAck, TruncateFront, AckThrough, AckIsNoop, AfterFlush, groupVars,
         mainVars
<1>a. /\ WalTypeOK' /\ LogShape'
      /\ disk \subseteq disk' /\ forgotten' \subseteq forgotten
      /\ first <= first' /\ \A i \in first..(first' - 1) : i <= lastIdx
  BY WalAckEffect DEF CAck, ConsTypeOK
<1>b. /\ cpc = "ack" /\ cbatch' = <<>> /\ cpc' \in {"sync", "select"} /\ (cpc' = "sync" => final)
      /\ Range(cbatch) \subseteq Stored /\ ~stopped
  BY DEF CAck, AfterFlush, AckAfterInsert, StopOrder
<1>t. first \in Nat \ {0} /\ first' \in Nat \ {0} /\ lastIdx \in Nat /\ Stored' = Stored
  BY <1>0, <1>a DEF WalTypeOK, ConsTypeOK, Stored
<1>r. \A i \in 1..Recv : Handled(i) => hist[i] \in Stored \cup abandoned
  BY <1>b DEF ReceivedSettled
<1>k. Kept
  <2>1. ASSUME NEW i \in first..(first' - 1), i \notin corrupt
        PROVE  hist[i] \in Stored \cup Excused
    <3>0. i \in Int /\ first <= i BY <1>t, IntervalFacts
    <3>a. i <= lastIdx BY <1>a
    <3>1. i \in Nat /\ 1 <= i /\ first <= i /\ i <= lastIdx BY <1>t, <3>0, <3>a
    <3>2. i \in 1..Recv BY <1>t, <3>1 DEF Recv
    <3>3. Handled(i) BY <2>1, <3>1 DEF Handled
    <3> QED BY <1>r, <3>2, <3>3 DEF Excused
  <2> QED BY <1>0, <1>a, <1>t, <2>1, ShrunkLog DEF Excused
<1>c. Calm BY <1>0 DEF Calm
<1>1. GroupTypeOK' /\ MainTypeOK' /\ QueuedOnce' /\ LoggedStatus' /\ PipeInOrder'
  BY <1>0 DEF GroupTypeOK, MainTypeOK, QueuedOnce, LoggedStatus, Last, PipeInOrder, Recv
<1>2. WalTypeOK' BY <1>a
<1>3. ConsTypeOK' BY <1>0, <1>b, EmptySeq DEF ConsTypeOK, ConsPCs
<1>4. IdleBeforeUp' BY <1>0 DEF IdleBeforeUp
<1>5. LogShape' BY <1>a
<1>6. FlushShape' BY <1>0, <1>k, FlushKept
<1>7. DurableBeforeAck' BY <1>0, <1>a, <1>c, <1>t, ShrunkDurable
<1>8. ForgottenUnacked' BY <1>0, <1>a, <1>c, <1>t, ShrunkDurable
<1>9. ReceivedSettled'
  <2>1. Recv' = Recv /\ \A i \in 1..Recv : Handled(i)' => Handled(i)
    BY <1>0, <1>a, <1>t DEF Recv, Handled
  <2> QED BY <1>0, <1>r, <1>t, <2>1 DEF ReceivedSettled
<1>10. AckAfterInsert' BY <1>b DEF AckAfterInsert
<1>11. StopOrder' BY <1>0, <1>b DEF StopOrder
<1>12. ReplayProgress' BY <1>0 DEF ReplayProgress
<1>13. AckedAccounted' BY <1>0, <1>k, AccountedKept DEF Promised
<1> QED BY <1>1, <1>2, <1>3, <1>4, <1>5, <1>6, <1>7, <1>8, <1>9, <1>10, <1>11, <1>12, <1>13

(* The last Sync of drain. *)
LEMMA CFinalSyncStep ==
  ASSUME IInv, NEW s \in BOOLEAN, proc = "up", CFinalSync(s), faults' \in Nat, UNCHANGED
         unsure, UNCHANGED <<proc, snap, rpos, rbatch, replayed, rtried, stops, starts>>
  PROVE  IInv'
<1> USE DEF IInv, TypeOK
<1>0. UNCHANGED <<hist, first, corrupt, capArmed, evicted, status, incoming, pending,
                  pos, failed, toDeliver, out, gpc, timerActive, armed, stopped,
                  leaving, cbatch, lastIdx, draining, final, tries, ctxDone, copies,
                  abandoned, proc, snap, rpos, rbatch, replayed, rtried, stops, starts,
                  unsure>>
  BY DEF CFinalSync, FsyncOk, FsyncFailIgnored, Dirty, groupVars
<1>a. WalTypeOK' /\ swallowed \subseteq swallowed'
  BY FsyncEffect DEF CFinalSync
<1>k. Kept BY <1>0, <1>a, SameLog DEF Kept, Stored, Excused
<1>c. Calm BY <1>0 DEF Calm
<1>1. GroupTypeOK' /\ LogShape' /\ QueuedOnce' /\ LoggedStatus' /\ PipeInOrder' /\
      ReplayProgress'
  BY <1>0 DEF GroupTypeOK, LogShape, Last, QueuedOnce, LoggedStatus, PipeInOrder, Recv,
         ReplayProgress, Stored
<1>2. WalTypeOK' BY <1>a
<1>3. ConsTypeOK'
  BY <1>0 DEF CFinalSync, FsyncOk, FsyncFailIgnored, Dirty, ConsTypeOK, ConsPCs
<1>4. MainTypeOK' BY <1>0 DEF MainTypeOK
<1>5. IdleBeforeUp'
  BY <1>0 DEF CFinalSync, FsyncOk, FsyncFailIgnored, Dirty, IdleBeforeUp
<1>6. FlushShape' BY <1>0, <1>k, FlushKept
<1>7. DurableBeforeAck' BY <1>c, SyncedDurable DEF CFinalSync
<1>8. ForgottenUnacked' BY <1>c, SyncedDurable DEF CFinalSync
<1>9. ReceivedSettled'
  BY <1>0 DEF CFinalSync, FsyncOk, FsyncFailIgnored, Dirty, ReceivedSettled, Recv,
         Handled, Stored
<1>10. AckAfterInsert'
  BY <1>0 DEF CFinalSync, FsyncOk, FsyncFailIgnored, Dirty, AckAfterInsert, Stored
<1>11. StopOrder' BY <1>0 DEF CFinalSync, FsyncOk, FsyncFailIgnored, Dirty, StopOrder
<1>12. AckedAccounted' BY <1>0, <1>k, AccountedKept DEF Promised
<1> QED BY <1>1, <1>2, <1>3, <1>4, <1>5, <1>6, <1>7, <1>8, <1>9, <1>10, <1>11, <1>12

(* The log is opened and its extent recorded. *)
LEMMA BootStep ==
  ASSUME IInv, Boot
  PROVE  IInv'
<1> USE DEF IInv, TypeOK
<1>0. UNCHANGED <<hist, first, disk, forgotten, corrupt, capArmed, evicted, swallowed,
                  status, incoming, pending, pos, failed, toDeliver, out, gpc,
                  timerActive, armed, stopped, leaving, cbatch, lastIdx, cpc, draining,
                  final, tries, ctxDone, copies, abandoned, stops, faults, unsure>>
  BY DEF Boot, walVars, groupVars, consVars
<1>1. WalTypeOK' /\ GroupTypeOK' /\ ConsTypeOK'
  BY <1>0 DEF WalTypeOK, Last, GroupTypeOK, ConsTypeOK
<1>2. LogShape' /\ FlushShape' /\ QueuedOnce' /\ LoggedStatus'
  BY <1>0 DEF LogShape, Last, FlushShape, Live, LiveIdx, Stored, Excused, QueuedOnce,
         LoggedStatus
<1>3. DurableBeforeAck' /\ ForgottenUnacked' /\ AckAfterInsert' /\ StopOrder' /\
      AckedAccounted'
  BY <1>0 DEF DurableBeforeAck, LiveIdx, Last, ForgottenUnacked, AckAfterInsert, Stored,
         StopOrder, AckedAccounted, Promised, Live, Excused
<1>4. MainTypeOK'
  <2>1. snap' \in Nat /\ rpos' \in Nat \ {0} /\ starts' \in Nat
    BY DEF Boot, MainTypeOK, WalTypeOK, Last
  <2>2. rbatch' \in Seq(Events) BY EmptySeq DEF Boot
  <2> QED BY <1>0, <2>1, <2>2 DEF Boot, MainTypeOK
<1>5. IdleBeforeUp' BY <1>0 DEF Boot, IdleBeforeUp
<1>6. PipeInOrder' BY <1>0 DEF Boot, PipeInOrder, Recv, Last
<1>7. ReceivedSettled' BY <1>0 DEF Boot, ReceivedSettled, Recv, Handled, Stored
<1>8. ReplayProgress'
  <2>1. Last' = Last /\ Last \in Nat /\ first \in Nat BY <1>0 DEF Last, WalTypeOK
  <2>2. snap' = Last /\ rpos' = first /\ rpos' <= snap' + 1 BY DEF Boot, LogShape
  <2>3. first..(first - 1) = {} BY <2>1
  <2> QED BY <1>0, <2>1, <2>2, <2>3 DEF ReplayProgress
<1> QED BY <1>1, <1>2, <1>3, <1>4, <1>5, <1>6, <1>7, <1>8

(* The replay reads one entry. *)
LEMMA ReplayReadStep ==
  ASSUME IInv, ReplayRead
  PROVE  IInv'
<1> USE DEF IInv, TypeOK
<1>0. UNCHANGED <<hist, first, disk, forgotten, corrupt, capArmed, evicted, swallowed,
                  status, incoming, pending, pos, failed, toDeliver, out, gpc,
                  timerActive, armed, stopped, leaving, cbatch, lastIdx, cpc, draining,
                  final, tries, ctxDone, copies, abandoned, proc, snap, replayed,
                  rtried, stops, faults, starts, unsure>>
  BY DEF ReplayRead, walVars, groupVars, consVars
<1>a. /\ proc = "replay" /\ snap = Last /\ rpos <= Last /\ rpos \in 1..Last
      /\ rpos' = rpos + 1 /\ first \in Nat /\ Last \in Nat /\ Last' = Last
  BY <1>0 DEF ReplayRead, ReplayProgress, MainTypeOK, WalTypeOK, Last
<1>b. hist[rpos] \in Events BY <1>a DEF WalTypeOK, Last
<1>d. /\ rbatch' \in Seq(Events) /\ Range(rbatch) \subseteq Range(rbatch')
      /\ rpos < first \/ rpos \in corrupt \/ hist[rpos] \in Range(rbatch')
  BY <1>b, AppendFacts, RangeAppend DEF ReplayRead, MainTypeOK
<1>1. WalTypeOK' /\ GroupTypeOK' /\ ConsTypeOK'
  BY <1>0 DEF WalTypeOK, Last, GroupTypeOK, ConsTypeOK
<1>2. IdleBeforeUp' /\ LogShape' /\ FlushShape' /\ QueuedOnce'
  BY <1>0 DEF IdleBeforeUp, LogShape, Last, FlushShape, Live, LiveIdx, Stored, Excused,
         QueuedOnce
<1>3. LoggedStatus' /\ DurableBeforeAck' /\ ForgottenUnacked' /\ PipeInOrder' /\
      ReceivedSettled' /\ AckAfterInsert' /\ StopOrder' /\ AckedAccounted'
  BY <1>0 DEF LoggedStatus, Last, DurableBeforeAck, LiveIdx, ForgottenUnacked,
         PipeInOrder, Recv, ReceivedSettled, Handled, Stored, AckAfterInsert, StopOrder,
         AckedAccounted, Promised, Live, Excused
<1>4. MainTypeOK' BY <1>0, <1>a, <1>d DEF MainTypeOK
<1>5. ReplayProgress'
  <2>1. ASSUME NEW i \in first..rpos, i \notin corrupt PROVE hist[i] \in Stored \cup Range(rbatch')
    <3>1. CASE i = rpos BY <1>a, <1>d, <2>1, <3>1
    <3>2. CASE i # rpos
      <4>1. i \in first..(rpos - 1) BY <1>a, <3>2
      <4> QED BY <1>a, <1>d, <2>1, <4>1 DEF ReplayProgress
    <3> QED BY <3>1, <3>2
  <2>2. rpos' - 1 = rpos /\ rpos' <= snap + 1 /\ Stored' = Stored BY <1>0, <1>a DEF Stored
  <2> QED BY <1>0, <1>a, <2>1, <2>2 DEF ReplayProgress
<1> QED BY <1>1, <1>2, <1>3, <1>4, <1>5

(* A batch of the replay reaches ClickHouse. *)
LEMMA ReplayInsertOkStep ==
  ASSUME IInv, ReplayInsertOk
  PROVE  IInv'
<1> USE DEF IInv, TypeOK
<1>0. UNCHANGED <<hist, first, disk, forgotten, corrupt, capArmed, evicted, swallowed,
                  status, incoming, pending, pos, failed, toDeliver, out, gpc,
                  timerActive, armed, stopped, leaving, cbatch, lastIdx, cpc, draining,
                  final, tries, ctxDone, abandoned, proc, snap, rpos, stops, faults,
                  starts, unsure>>
  BY DEF ReplayInsertOk, walVars, groupVars
<1>s. copies' \in [Events -> Nat] /\ Stored' = Stored \cup Range(rbatch)
  BY CommitEffect DEF ReplayInsertOk, ConsTypeOK, MainTypeOK
<1>k. Kept
  BY <1>s, <1>0, SameLog DEF Kept, Excused
<1>b. proc = "replay" /\ rbatch' = <<>> BY DEF ReplayInsertOk
<1>1. WalTypeOK' /\ GroupTypeOK' /\ IdleBeforeUp'
  BY <1>0 DEF WalTypeOK, Last, GroupTypeOK, IdleBeforeUp
<1>2. LogShape' /\ QueuedOnce' /\ LoggedStatus' /\ DurableBeforeAck'
  BY <1>0 DEF LogShape, Last, QueuedOnce, LoggedStatus, DurableBeforeAck, LiveIdx
<1>3. ForgottenUnacked' /\ PipeInOrder' /\ StopOrder'
  BY <1>0 DEF ForgottenUnacked, LiveIdx, Last, PipeInOrder, Recv, StopOrder
<1>4. ConsTypeOK' BY <1>0, <1>s DEF ConsTypeOK
<1>5. MainTypeOK' BY <1>0, EmptySeq DEF ReplayInsertOk, MainTypeOK
<1>6. FlushShape' BY <1>0, <1>k, FlushKept
<1>7. ReceivedSettled' BY <1>0, <1>b DEF ReceivedSettled
<1>8. AckAfterInsert' BY <1>0, <1>s DEF AckAfterInsert
<1>9. ReplayProgress' BY <1>0, <1>b, <1>s DEF ReplayProgress, Last
<1>10. AckedAccounted' BY <1>0, <1>k, AccountedKept DEF Promised
<1> QED BY <1>1, <1>2, <1>3, <1>4, <1>5, <1>6, <1>7, <1>8, <1>9, <1>10

(* A batch of the replay fails. *)
LEMMA ReplayInsertErrStep ==
  ASSUME IInv, NEW c \in BOOLEAN, ReplayInsertErr(c)
  PROVE  IInv'
<1> USE DEF IInv, TypeOK
<1>0. UNCHANGED <<hist, first, disk, forgotten, corrupt, capArmed, evicted, swallowed,
                  status, incoming, pending, pos, failed, toDeliver, out, gpc,
                  timerActive, armed, stopped, leaving, cbatch, lastIdx, cpc, draining,
                  final, tries, ctxDone, abandoned, snap, rpos, rbatch, replayed, stops,
                  starts>>
  BY DEF ReplayInsertErr, NoFault, Fault, walVars, groupVars
<1>s. copies' \in [Events -> Nat] /\ Stored \subseteq Stored'
  <2>1. CASE c BY <2>1, CommitEffect DEF ReplayInsertErr, MainTypeOK
  <2>2. CASE ~c BY <2>2 DEF ReplayInsertErr, ConsTypeOK, Stored
  <2> QED BY <2>1, <2>2
<1>k. Kept
  BY <1>s, <1>0, SameLog DEF Kept, Excused
<1>b. proc = "replay" /\ proc' \in {"replay", "halt"} BY DEF ReplayInsertErr
<1>1. WalTypeOK' /\ GroupTypeOK' /\ LogShape' /\ QueuedOnce' /\ LoggedStatus' /\
      DurableBeforeAck' /\ ForgottenUnacked' /\ StopOrder'
  BY <1>0 DEF WalTypeOK, Last, GroupTypeOK, LogShape, QueuedOnce, LoggedStatus,
         DurableBeforeAck, LiveIdx, ForgottenUnacked, StopOrder
<1>2. ConsTypeOK' BY <1>0, <1>s DEF ConsTypeOK
<1>3. MainTypeOK' BY <1>0, <1>b DEF ReplayInsertErr, Fault, NoFault, MainTypeOK
<1>4. IdleBeforeUp' BY <1>0, <1>b DEF IdleBeforeUp
<1>5. FlushShape' BY <1>0, <1>k, FlushKept
<1>6. PipeInOrder' BY <1>b DEF PipeInOrder
<1>7. ReceivedSettled' BY <1>b DEF ReceivedSettled
<1>8. AckAfterInsert' BY <1>0, <1>s DEF AckAfterInsert
<1>9. ReplayProgress' BY <1>0, <1>b, <1>s DEF ReplayProgress, Last
<1>10. AckedAccounted' BY <1>0, <1>k, AccountedKept DEF Promised
<1> QED BY <1>1, <1>2, <1>3, <1>4, <1>5, <1>6, <1>7, <1>8, <1>9, <1>10

(* The replay has stored every entry it found: the log may be acknowledged *)
(* and the pipeline starts empty.                                          *)
LEMMA ReplayDoneStep ==
  ASSUME IInv, ReplayDone
  PROVE  IInv'
<1> USE DEF IInv, TypeOK
<1>0. UNCHANGED <<hist, corrupt, capArmed, evicted, swallowed, status, incoming,
                  pending, pos, failed, toDeliver, out, gpc, timerActive, armed,
                  stopped, leaving, cbatch, lastIdx, cpc, draining, final, tries,
                  ctxDone, copies, abandoned, snap, rpos, rbatch, rtried, stops, starts,
                  unsure>>
  BY DEF ReplayDone, WalAck, TruncateFront, AckThrough, AckIsNoop, walVars, groupVars,
         consVars
<1>a. /\ WalTypeOK' /\ LogShape'
      /\ disk \subseteq disk' /\ forgotten' \subseteq forgotten
      /\ first <= first' /\ \A i \in first..(first' - 1) : i <= snap
  <2>1. CASE replayed BY <2>1, WalAckEffect DEF ReplayDone, MainTypeOK
  <2>2. CASE ~replayed
    <3>1. UNCHANGED walVars BY <2>2 DEF ReplayDone
    <3> QED BY <3>1 DEF walVars, WalTypeOK, LogShape, Last
  <2> QED BY <2>1, <2>2
<1>b. /\ proc = "replay" /\ proc' \in {"up", "halt"} /\ rpos > snap /\ rbatch = <<>> /\ snap = Last
      /\ out = <<>> /\ toDeliver = <<>> /\ lastIdx = 0 /\ cbatch = <<>> /\ cpc = "select"
  BY DEF ReplayDone, ReplayProgress, IdleBeforeUp
<1>t. /\ first \in Nat \ {0} /\ first' \in Nat \ {0} /\ snap \in Nat /\ rpos \in Nat
      /\ Last' = Last /\ Stored' = Stored
  BY <1>0, <1>a DEF WalTypeOK, MainTypeOK, Last, Stored
<1>r. \A i \in first..snap : i \notin corrupt => hist[i] \in Stored
  <2>1. \A i \in first..snap : i \in first..(rpos - 1) BY <1>b, <1>t
  <2>2. Range(rbatch) = {} BY <1>b, EmptySeq
  <2> QED BY <1>b, <2>1, <2>2 DEF ReplayProgress
<1>k. Kept
  <2>1. ASSUME NEW i \in first..(first' - 1) PROVE i \in first..snap
    <3>1. i \in Int /\ first <= i BY <1>t, IntervalFacts
    <3>2. i <= snap BY <1>a
    <3> QED BY <1>t, <3>1, <3>2
  <2> QED BY <1>0, <1>a, <1>r, <1>t, <2>1, ShrunkLog DEF Excused
<1>c. Calm BY <1>0 DEF Calm
<1>1. GroupTypeOK' /\ ConsTypeOK' /\ QueuedOnce' /\ LoggedStatus' /\ AckAfterInsert' /\
      StopOrder'
  BY <1>0 DEF GroupTypeOK, ConsTypeOK, QueuedOnce, LoggedStatus, Last, AckAfterInsert,
         Stored, StopOrder
<1>2. WalTypeOK' BY <1>a
<1>3. MainTypeOK'
  <2>1. faults' \in Nat BY DEF ReplayDone, NoFault, Fault, MainTypeOK
  <2>2. replayed' \in BOOLEAN BY DEF ReplayDone
  <2> QED BY <1>0, <1>b, <2>1, <2>2 DEF MainTypeOK
<1>4. IdleBeforeUp' BY <1>b DEF IdleBeforeUp
<1>5. LogShape' BY <1>a
<1>6. FlushShape' BY <1>0, <1>k, FlushKept
<1>7. DurableBeforeAck' BY <1>0, <1>a, <1>c, <1>t, ShrunkDurable
<1>8. ForgottenUnacked' BY <1>0, <1>a, <1>c, <1>t, ShrunkDurable
<1>9. PipeInOrder'
  <2>1. Len(out) = 0 /\ Len(toDeliver) = 0 /\ Recv' = snap
    BY <1>0, <1>b, EmptySeq DEF Recv
  <2> QED BY <1>0, <1>b, <1>t, <2>1 DEF PipeInOrder, Feeds
<1>10. ReceivedSettled'
  <2>1. Recv' = snap BY <1>0, <1>b DEF Recv
  <2>2. \A i \in 1..snap : Handled(i)' => i \in first..snap /\ i \notin corrupt
    BY <1>0, <1>a, <1>t DEF Handled
  <2> QED BY <1>0, <1>r, <1>t, <2>1, <2>2 DEF ReceivedSettled
<1>11. ReplayProgress' BY <1>b DEF ReplayProgress
<1>12. AckedAccounted' BY <1>0, <1>k, AccountedKept DEF Promised
<1> QED BY <1>1, <1>2, <1>3, <1>4, <1>5, <1>6, <1>7, <1>8, <1>9, <1>10, <1>11, <1>12

(* The context is cancelled. *)
LEMMA SignalStep ==
  ASSUME IInv, Signal
  PROVE  IInv'
<1> USE DEF IInv, TypeOK
<1>0. UNCHANGED <<hist, first, disk, forgotten, corrupt, capArmed, evicted, swallowed,
                  status, incoming, pending, pos, failed, toDeliver, out, gpc,
                  timerActive, armed, stopped, leaving, cbatch, lastIdx, cpc, draining,
                  final, tries, copies, abandoned, proc, snap, rpos, rbatch, replayed,
                  rtried, faults, starts, unsure>>
  BY DEF Signal, CancelRun, walVars, groupVars
<1>1. WalTypeOK' /\ GroupTypeOK' /\ IdleBeforeUp'
  BY <1>0 DEF WalTypeOK, Last, GroupTypeOK, IdleBeforeUp
<1>2. LogShape' /\ FlushShape' /\ QueuedOnce' /\ LoggedStatus'
  BY <1>0 DEF LogShape, Last, FlushShape, Live, LiveIdx, Stored, Excused, QueuedOnce,
         LoggedStatus
<1>3. DurableBeforeAck' /\ ForgottenUnacked' /\ PipeInOrder' /\ AckAfterInsert' /\
      ReplayProgress' /\ AckedAccounted'
  BY <1>0 DEF DurableBeforeAck, LiveIdx, Last, ForgottenUnacked, PipeInOrder, Recv,
         AckAfterInsert, Stored, ReplayProgress, AckedAccounted, Promised, Live, Excused
<1>4. ConsTypeOK' BY <1>0 DEF Signal, CancelRun, ConsTypeOK
<1>5. MainTypeOK' BY <1>0 DEF Signal, CancelRun, MainTypeOK
<1>6. ReceivedSettled'
  BY <1>0 DEF Signal, CancelRun, ReceivedSettled, Recv, Handled, Stored
<1>7. StopOrder' BY <1>0 DEF Signal, CancelRun, StopOrder
<1> QED BY <1>1, <1>2, <1>3, <1>4, <1>5, <1>6, <1>7

(* The syncer is closed, after the consumer is done. *)
LEMMA MainCloseStep ==
  ASSUME IInv, MainClose
  PROVE  IInv'
<1> USE DEF IInv, TypeOK
<1>0. UNCHANGED <<hist, first, disk, forgotten, corrupt, capArmed, evicted, swallowed,
                  status, incoming, pending, pos, failed, toDeliver, out, gpc,
                  timerActive, armed, leaving, cbatch, lastIdx, cpc, draining, final,
                  tries, ctxDone, copies, abandoned, proc, snap, rpos, rbatch, replayed,
                  rtried, stops, faults, starts, unsure>>
  BY DEF MainClose, CloseSyncer, walVars, consVars, mainVars
<1>1. WalTypeOK' /\ ConsTypeOK' /\ MainTypeOK'
  BY <1>0 DEF WalTypeOK, Last, ConsTypeOK, MainTypeOK
<1>2. LogShape' /\ FlushShape' /\ QueuedOnce' /\ LoggedStatus'
  BY <1>0 DEF LogShape, Last, FlushShape, Live, LiveIdx, Stored, Excused, QueuedOnce,
         LoggedStatus
<1>3. DurableBeforeAck' /\ ForgottenUnacked' /\ AckAfterInsert' /\ ReplayProgress' /\
      AckedAccounted'
  BY <1>0 DEF DurableBeforeAck, LiveIdx, Last, ForgottenUnacked, AckAfterInsert, Stored,
         ReplayProgress, AckedAccounted, Promised, Live, Excused
<1>4. GroupTypeOK' BY <1>0 DEF MainClose, CloseSyncer, GroupTypeOK
<1>5. IdleBeforeUp' BY <1>0 DEF MainClose, CloseSyncer, IdleBeforeUp
<1>6. PipeInOrder' BY <1>0 DEF MainClose, CloseSyncer, PipeInOrder, Recv, Last
<1>7. ReceivedSettled'
  BY <1>0 DEF MainClose, CloseSyncer, ReceivedSettled, Recv, Handled, Stored
<1>8. StopOrder' BY <1>0 DEF MainClose, CloseSyncer, StopOrder
<1> QED BY <1>1, <1>2, <1>3, <1>4, <1>5, <1>6, <1>7, <1>8

(* run returns. *)
LEMMA MainReturnStep ==
  ASSUME IInv, MainReturn
  PROVE  IInv'
<1> USE DEF IInv, TypeOK
<1>0. UNCHANGED <<hist, first, disk, forgotten, corrupt, capArmed, evicted, swallowed,
                  status, incoming, pending, pos, failed, toDeliver, out, gpc,
                  timerActive, armed, stopped, leaving, cbatch, lastIdx, cpc, draining,
                  final, tries, ctxDone, copies, abandoned, snap, rpos, rbatch,
                  replayed, rtried, stops, faults, starts, unsure>>
  BY DEF MainReturn, walVars, groupVars, consVars
<1>1. WalTypeOK' /\ GroupTypeOK' /\ ConsTypeOK'
  BY <1>0 DEF WalTypeOK, Last, GroupTypeOK, ConsTypeOK
<1>2. LogShape' /\ FlushShape' /\ QueuedOnce' /\ LoggedStatus'
  BY <1>0 DEF LogShape, Last, FlushShape, Live, LiveIdx, Stored, Excused, QueuedOnce,
         LoggedStatus
<1>3. DurableBeforeAck' /\ ForgottenUnacked' /\ AckAfterInsert' /\ StopOrder' /\
      AckedAccounted'
  BY <1>0 DEF DurableBeforeAck, LiveIdx, Last, ForgottenUnacked, AckAfterInsert, Stored,
         StopOrder, AckedAccounted, Promised, Live, Excused
<1>4. MainTypeOK' BY <1>0 DEF MainReturn, MainTypeOK
<1>5. IdleBeforeUp' BY <1>0 DEF MainReturn, IdleBeforeUp
<1>6. PipeInOrder' BY <1>0 DEF MainReturn, PipeInOrder, Recv, Last
<1>7. ReceivedSettled' BY <1>0 DEF MainReturn, ReceivedSettled, Recv, Handled, Stored
<1>8. ReplayProgress' BY <1>0 DEF MainReturn, ReplayProgress, Last, Stored
<1> QED BY <1>1, <1>2, <1>3, <1>4, <1>5, <1>6, <1>7, <1>8

(* An orderly end: a last Sync, whose failure is recorded as ignored. *)
LEMMA HaltStep ==
  ASSUME IInv, Halt
  PROVE  IInv'
<1> USE DEF IInv, TypeOK
<1>0. /\ UNCHANGED <<hist, first, corrupt, evicted, capArmed>>
      /\ WalTypeOK' /\ swallowed \subseteq swallowed'
  BY FsyncEffect DEF Halt
<1>1. /\ GroupTypeOK' /\ ConsTypeOK' /\ MainTypeOK' /\ IdleBeforeUp' /\ FlushShape'
      /\ QueuedOnce' /\ PipeInOrder' /\ ReceivedSettled' /\ AckAfterInsert'
      /\ StopOrder' /\ ReplayProgress' /\ Calm
      /\ Promised' \subseteq Promised /\ Stored' = Stored /\ abandoned' = abandoned
      /\ \A e \in Events : status'[e] # "wait" /\ (status'[e] = "new" => status[e] = "new")
  <2>1. Dead /\ stops' \in Nat /\ faults' \in Nat BY DEF Halt, NoFault, Fault, MainTypeOK
  <2> QED BY <2>1, DeadEffect
<1>t. Last \in Nat /\ Last' = Last BY <1>0 DEF Last, WalTypeOK
<1>2. LogShape' BY <1>0 DEF LogShape, Last
<1>3. DurableBeforeAck' /\ ForgottenUnacked'
  BY <1>1, SyncedDurable DEF Halt
<1>4. Kept BY <1>0, <1>1, SameLog DEF Kept, Excused
<1>5. AckedAccounted' BY <1>1, <1>4, AccountedKept
<1>8. LoggedStatus'
  BY <1>0, <1>1, <1>t, LoggedStatusKept
<1> QED BY <1>0, <1>1, <1>2, <1>3, <1>5, <1>8

(* kill -9 or exit(1): the log files stay as they are. *)
LEMMA DeathStep ==
  ASSUME IInv, Kill \/ ExitOne
  PROVE  IInv'
<1> USE DEF IInv, TypeOK
<1>0. UNCHANGED <<hist, first, disk, forgotten, corrupt, evicted, swallowed>> /\ capArmed' = FALSE
  BY DEF Kill, ExitOne, WalProcessDeath
<1>1. /\ GroupTypeOK' /\ ConsTypeOK' /\ MainTypeOK' /\ IdleBeforeUp' /\ FlushShape'
      /\ QueuedOnce' /\ PipeInOrder' /\ ReceivedSettled' /\ AckAfterInsert'
      /\ StopOrder' /\ ReplayProgress' /\ Calm
      /\ Promised' \subseteq Promised /\ Stored' = Stored /\ abandoned' = abandoned
      /\ \A e \in Events : status'[e] # "wait" /\ (status'[e] = "new" => status[e] = "new")
  <2>1. Dead /\ stops' \in Nat /\ faults' \in Nat BY DEF Kill, ExitOne, NoFault, MainTypeOK
  <2> QED BY <2>1, DeadEffect
<1>t. Last \in Nat /\ Last' = Last /\ first' \in Nat /\ first <= first' BY <1>0 DEF Last, WalTypeOK
<1>2. WalTypeOK' /\ LogShape' BY <1>0 DEF WalTypeOK, LogShape, Last
<1>3. DurableBeforeAck' /\ ForgottenUnacked'
  BY <1>0, <1>1, <1>t, ShrunkDurable
<1>4. Kept BY <1>0, <1>1, SameLog DEF Kept, Excused
<1>5. AckedAccounted' BY <1>1, <1>4, AccountedKept
<1>8. LoggedStatus'
  BY <1>0, <1>1, <1>t, LoggedStatusKept
<1> QED BY <1>1, <1>2, <1>3, <1>5, <1>8

(* A power loss: an entry somebody was promised is durable, so the cut is  *)
(* after it, unless it is excused.                                         *)
LEMMA PowerLossStep ==
  ASSUME IInv, PowerLoss
  PROVE  IInv'
<1> USE DEF IInv, TypeOK
<1>0. UNCHANGED <<first, evicted, swallowed>> /\ forgotten' = {} /\ capArmed' = FALSE
  BY DEF PowerLoss, WalPowerLoss
<1>1. /\ GroupTypeOK' /\ ConsTypeOK' /\ MainTypeOK' /\ IdleBeforeUp' /\ FlushShape'
      /\ QueuedOnce' /\ PipeInOrder' /\ ReceivedSettled' /\ AckAfterInsert'
      /\ StopOrder' /\ ReplayProgress' /\ Calm
      /\ Promised' \subseteq Promised /\ Stored' = Stored /\ abandoned' = abandoned
      /\ \A e \in Events : status'[e] # "wait" /\ (status'[e] = "new" => status[e] = "new")
  <2>1. Dead /\ stops' \in Nat /\ faults' \in Nat BY DEF PowerLoss, Fault, MainTypeOK
  <2> QED BY <2>1, DeadEffect
<1>2. PICK p \in (first - 1)..Last :
         /\ \A i \in disk \cap LiveIdx : i <= p
         /\ hist' = SubSeq(hist, 1, p)
         /\ disk' = first..p
         /\ \E bad \in SUBSET ((first..p) \ disk) : corrupt' = (corrupt \cap (first..p)) \cup bad
  BY DEF PowerLoss, WalPowerLoss
<1>3. /\ first \in Nat \ {0} /\ Last \in Nat /\ p \in Nat /\ p <= Last /\ first <= p + 1
      /\ p \in 0..Len(hist)
  BY <1>2 DEF Last, WalTypeOK
<1>4. hist' \in Seq(Events) /\ Last' = p /\ \A i \in 1..p : hist'[i] = hist[i]
  BY <1>2, <1>3, PrefixFacts DEF WalTypeOK, Last
<1>5. WalTypeOK' /\ LogShape'
  <2>1. first..p \subseteq 1..p BY <1>3
  <2>2. disk' \subseteq 1..p /\ corrupt' \subseteq 1..p BY <1>2, <2>1
  <2> QED BY <1>0, <1>3, <1>4, <2>2 DEF WalTypeOK, LogShape
<1>6. DurableBeforeAck' /\ ForgottenUnacked'
  BY <1>0, <1>2, <1>4 DEF DurableBeforeAck, ForgottenUnacked, LiveIdx
<1>7. AckedAccounted'
  <2>1. SUFFICES ASSUME NEW e \in Promised', e \notin Stored, e \notin Excused
                 PROVE  e \in Live'
    BY <1>0, <1>1 DEF AckedAccounted, Excused
  <2>2. e \in Promised /\ e \in Live BY <1>1, <2>1 DEF AckedAccounted
  <2>3. PICK i \in LiveIdx : i \notin corrupt /\ e = hist[i] BY <2>2 DEF Live
  <2>4. i \in disk BY <2>1, <2>2, <2>3 DEF DurableBeforeAck, Promised, Excused
  <2>5. i <= p /\ i \in first..p /\ i \in 1..p BY <1>2, <1>3, <2>3, <2>4 DEF LiveIdx
  <2>6. i \notin corrupt' BY <1>2, <2>3, <2>4
  <2>7. i \in LiveIdx' /\ hist'[i] = e BY <1>0, <1>4, <2>3, <2>5 DEF LiveIdx
  <2> QED BY <2>6, <2>7 DEF Live
<1>8. LoggedStatus'
  BY <1>1, <1>3, <1>4, LoggedStatusKept
<1> QED BY <1>1, <1>5, <1>6, <1>7, <1>8

(* The fsync ticker. *)
LEMMA TickSyncStep ==
  ASSUME IInv, TickSync
  PROVE  IInv'
<1> USE DEF IInv, TypeOK
<1>0. UNCHANGED <<hist, first, corrupt, capArmed, evicted, status, incoming, pending,
                  pos, failed, toDeliver, out, gpc, timerActive, armed, stopped,
                  leaving, cbatch, lastIdx, cpc, draining, final, tries, ctxDone,
                  copies, abandoned, proc, snap, rpos, rbatch, replayed, rtried, stops,
                  starts, unsure>>
  BY DEF TickSync, FsyncOk, FsyncFailIgnored, Dirty, NoFault, Fault, groupVars, consVars
<1>a. WalTypeOK' /\ swallowed \subseteq swallowed'
  BY FsyncEffect DEF TickSync
<1>k. Kept BY <1>0, <1>a, SameLog DEF Kept, Stored, Excused
<1>c. Calm BY <1>0 DEF Calm
<1>1. GroupTypeOK' /\ ConsTypeOK' /\ IdleBeforeUp'
  BY <1>0 DEF GroupTypeOK, ConsTypeOK, IdleBeforeUp
<1>2. LogShape' /\ QueuedOnce' /\ LoggedStatus' /\ PipeInOrder'
  BY <1>0 DEF LogShape, Last, QueuedOnce, LoggedStatus, PipeInOrder, Recv
<1>3. ReceivedSettled' /\ AckAfterInsert' /\ StopOrder' /\ ReplayProgress'
  BY <1>0 DEF ReceivedSettled, Recv, Handled, Stored, AckAfterInsert, StopOrder,
         ReplayProgress, Last
<1>4. WalTypeOK' BY <1>a
<1>5. MainTypeOK'
  BY <1>0 DEF TickSync, FsyncOk, FsyncFailIgnored, Dirty, NoFault, Fault, MainTypeOK
<1>6. FlushShape' BY <1>0, <1>k, FlushKept
<1>7. DurableBeforeAck' BY <1>c, SyncedDurable DEF TickSync
<1>8. ForgottenUnacked' BY <1>c, SyncedDurable DEF TickSync
<1>9. AckedAccounted' BY <1>0, <1>k, AccountedKept DEF Promised
<1> QED BY <1>1, <1>2, <1>3, <1>4, <1>5, <1>6, <1>7, <1>8, <1>9

(* The size cap. *)
LEMMA SizeCapStep ==
  ASSUME IInv, SizeCap
  PROVE  IInv'
<1> USE DEF IInv, TypeOK
<1>0. UNCHANGED <<hist, corrupt, swallowed, status, incoming, pending, pos, failed,
                  toDeliver, out, gpc, timerActive, armed, stopped, leaving, cbatch,
                  lastIdx, cpc, draining, final, tries, ctxDone, copies, abandoned,
                  proc, snap, rpos, rbatch, replayed, rtried, stops, faults, starts,
                  unsure>>
  BY DEF SizeCap, SizeCapMeasure, SizeCapTruncate, TruncateFront, CapTarget, groupVars,
         consVars, mainVars
<1>a. /\ WalTypeOK' /\ LogShape'
      /\ disk \subseteq disk' /\ forgotten' \subseteq forgotten /\ evicted \subseteq evicted'
      /\ first <= first' /\ \A i \in first..(first' - 1) : i \notin corrupt => hist[i] \in evicted'
  BY CapEffect DEF SizeCap
<1>t. first \in Nat \ {0} /\ first' \in Nat \ {0} /\ Last' = Last /\ Last \in Nat /\ Stored' = Stored
  BY <1>0, <1>a DEF WalTypeOK, Last, Stored
<1>k. Kept
  BY <1>0, <1>a, <1>t, ShrunkLog DEF Excused
<1>c. Calm BY <1>0 DEF Calm
<1>1. GroupTypeOK' /\ ConsTypeOK' /\ MainTypeOK'
  BY <1>0 DEF GroupTypeOK, ConsTypeOK, MainTypeOK
<1>2. IdleBeforeUp' /\ QueuedOnce' /\ LoggedStatus' /\ PipeInOrder'
  BY <1>0 DEF IdleBeforeUp, QueuedOnce, LoggedStatus, Last, PipeInOrder, Recv
<1>3. AckAfterInsert' /\ StopOrder'
  BY <1>0 DEF AckAfterInsert, Stored, StopOrder
<1>4. WalTypeOK' BY <1>a
<1>5. LogShape' BY <1>a
<1>6. FlushShape' BY <1>0, <1>k, FlushKept
<1>7. DurableBeforeAck' BY <1>0, <1>a, <1>c, <1>t, ShrunkDurable
<1>8. ForgottenUnacked' BY <1>0, <1>a, <1>c, <1>t, ShrunkDurable
<1>9. ReceivedSettled'
  <2>1. Recv' = Recv /\ Recv \in Nat BY <1>0 DEF Recv, ConsTypeOK, MainTypeOK
  <2>2. \A i \in 1..Recv : Handled(i)' => Handled(i)
    BY <1>0, <1>a, <1>t, <2>1 DEF Handled, MainTypeOK
  <2> QED BY <1>0, <1>t, <2>1, <2>2 DEF ReceivedSettled
<1>10. ReplayProgress'
  <2>1. \A i \in first'..(rpos - 1) : i \in first..(rpos - 1)
    BY <1>a, <1>t DEF MainTypeOK
  <2> QED BY <1>0, <1>t, <2>1 DEF ReplayProgress
<1>11. AckedAccounted' BY <1>0, <1>k, AccountedKept DEF Promised
<1> QED BY <1>1, <1>2, <1>3, <1>4, <1>5, <1>6, <1>7, <1>8, <1>9, <1>10, <1>11

---------------------------------------------------------------------------
(* The invariant holds in the initial state. *)
LEMMA InitIInv == Init => IInv
<1> SUFFICES ASSUME Init PROVE IInv OBVIOUS
<1> USE DEF Init, WalInit, GroupInit, GroupFresh, ConsInit, ConsFresh
<1>1. Last = 0 /\ LiveIdx = {} /\ Live = {} BY EmptySeq DEF Last, LiveIdx, Live
<1>0. <<>> \in Seq(Events) /\ <<>> \in Seq(Envelope) BY EmptySeq
<1>2. WalTypeOK
  <2>1. hist \in Seq(Events) /\ first \in Nat \ {0} BY <1>0
  <2>2. capArmed \in BOOLEAN OBVIOUS
  <2> QED BY <2>1, <2>2 DEF WalTypeOK
<1>3. GroupTypeOK
  <2>1. /\ incoming \in Seq(Events) /\ pending \in Seq(Events)
        /\ toDeliver \in Seq(Envelope) /\ out \in Seq(Envelope)
    BY <1>0
  <2>2. pos \in Nat \ {0} /\ failed \subseteq Events /\ gpc \in GroupPCs BY DEF GroupPCs
  <2>3. timerActive \in BOOLEAN /\ armed \in BOOLEAN /\ stopped \in BOOLEAN /\ leaving \in BOOLEAN
    OBVIOUS
  <2>4. status \in [Events -> {"new", "wait", "ok", "err", "gone"}] OBVIOUS
  <2> QED BY <2>1, <2>2, <2>3, <2>4 DEF GroupTypeOK
<1>4. ConsTypeOK BY <1>0 DEF ConsTypeOK, ConsPCs
<1>5. MainTypeOK
  <2>1. /\ proc \in {"down", "replay", "up", "halt"} /\ snap \in Nat /\ rpos \in Nat \ {0}
        /\ stops \in Nat /\ faults \in Nat /\ starts \in Nat /\ unsure \in Nat
    OBVIOUS
  <2>2. replayed \in BOOLEAN /\ rtried \in BOOLEAN OBVIOUS
  <2> QED BY <1>0, <2>1, <2>2 DEF MainTypeOK
<1>6. IdleBeforeUp /\ FlushShape /\ PipeInOrder /\ ReceivedSettled /\ AckAfterInsert
      /\ StopOrder /\ ReplayProgress
  BY DEF IdleBeforeUp, FlushShape, PipeInOrder, ReceivedSettled, AckAfterInsert,
         StopOrder, ReplayProgress
<1>7. LogShape /\ LoggedStatus /\ DurableBeforeAck /\ ForgottenUnacked
  BY <1>1 DEF LogShape, LoggedStatus, DurableBeforeAck, ForgottenUnacked
<1>8. QueuedOnce BY EmptySeq DEF QueuedOnce
<1>9. AckedAccounted BY DEF AckedAccounted, Promised
<1> QED BY <1>2, <1>3, <1>4, <1>5, <1>6, <1>7, <1>8, <1>9 DEF IInv, TypeOK

(* It is preserved by a step that changes nothing. *)
LEMMA StutterIInv == ASSUME IInv, UNCHANGED vars PROVE IInv'
<1> USE DEF IInv, TypeOK, vars, walVars, groupVars, consVars, mainVars
<1>1. WalTypeOK' /\ GroupTypeOK' BY DEF WalTypeOK, GroupTypeOK, Last
<1>2. ConsTypeOK' /\ MainTypeOK' BY DEF ConsTypeOK, MainTypeOK
<1>3. IdleBeforeUp' /\ LogShape' /\ QueuedOnce' /\ StopOrder'
  BY DEF Last, IdleBeforeUp, LogShape, QueuedOnce, StopOrder
<1>4. LoggedStatus' /\ DurableBeforeAck' /\ ForgottenUnacked' /\ FlushShape' /\ AckedAccounted'
  BY DEF LoggedStatus, DurableBeforeAck, ForgottenUnacked, FlushShape, AckedAccounted,
         Promised, Stored, Live, LiveIdx, Last, Excused
<1>5. PipeInOrder' /\ ReceivedSettled' /\ AckAfterInsert' /\ ReplayProgress'
  BY DEF PipeInOrder, ReceivedSettled, AckAfterInsert, ReplayProgress, Recv, Handled,
         Stored, Last
<1> QED BY <1>1, <1>2, <1>3, <1>4, <1>5

(* The steps of the handlers. *)
LEMMA CallersStep == ASSUME IInv, Callers PROVE IInv'
<1>1. PICK e \in Events : Submit(e) \/ Reject(e) \/ Cancel(e) BY DEF Callers
<1>2. proc = "up" /\ UNCHANGED <<consVars, mainVars>> BY DEF Callers
<1> QED BY <1>1, <1>2, SubmitStep, CallerAloneStep

(* The steps of the group syncer. *)
LEMMA LoopSteps == ASSUME IInv, Loop PROVE IInv'
<1>1. proc = "up" /\ UNCHANGED <<consVars, mainVars>> BY DEF Loop
<1>2. \/ LoopRecv \/ LoopTimer \/ LoopStop \/ AppendOk \/ SyncOk \/ AckBatch
      \/ Deliver \/ DeliverSkip \/ FlushDone
  BY DEF Loop
<1> QED BY <1>1, <1>2, LoopRecvStep, LoopWakeStep, AppendOkStep, SyncOkStep, AckBatchStep,
           DeliverStep, DeliverSkipStep, FlushDoneStep

(* Its failures. *)
LEMMA LoopFaultStep == ASSUME IInv, LoopFault PROVE IInv'
<1>1. /\ proc = "up"
      /\ UNCHANGED <<consVars, proc, snap, rpos, rbatch, replayed, rtried, stops, starts, unsure>>
  BY DEF LoopFault
<1>2. faults' \in Nat BY DEF LoopFault, Fault, IInv, TypeOK, MainTypeOK
<1>3. AppendErr \/ SyncErr BY DEF LoopFault
<1> QED BY <1>1, <1>2, <1>3, AppendErrStep, SyncErrStep

(* The steps of the consumer. *)
LEMMA ConsumeStep == ASSUME IInv, Consume PROVE IInv'
<1>1. proc = "up" /\ UNCHANGED mainVars BY DEF Consume
<1>2. CASE CFinalSync(TRUE)
  <2>1. /\ faults' \in Nat /\ UNCHANGED unsure
        /\ UNCHANGED <<proc, snap, rpos, rbatch, replayed, rtried, stops, starts>>
    BY <1>1 DEF mainVars, IInv, TypeOK, MainTypeOK
  <2> QED BY <1>1, <1>2, <2>1, CFinalSyncStep
<1>3. CASE CRecv \/ CTick \/ CDrain \/ CSettle \/ CInsertOk \/ CRetry \/ CRetryCancelled \/ CAck
  BY <1>1, <1>3, CRecvStep, ConsumerTurnStep, CInsertOkStep, CRetryCancelledStep, CAckStep
<1> QED BY <1>2, <1>3 DEF Consume

(* Its failures. *)
LEMMA ConsumeFaultStep == ASSUME IInv, ConsumeFault PROVE IInv'
<1>1. /\ proc = "up"
      /\ UNCHANGED <<proc, snap, rpos, rbatch, replayed, rtried, stops, starts>>
  BY DEF ConsumeFault
<1>2. faults' \in Nat
  <2>1. NoFault \/ Fault("insert") \/ Fault("fsync") BY DEF ConsumeFault
  <2> QED BY <2>1 DEF NoFault, Fault, IInv, TypeOK, MainTypeOK
<1>3. unsure' \in Nat
  <2>1. unsure' = unsure \/ unsure' = unsure + 1 BY DEF ConsumeFault
  <2> QED BY <2>1 DEF IInv, TypeOK, MainTypeOK
<1>4. \/ \E c \in BOOLEAN : CInsertErr(c)
      \/ CFinalSync(FALSE) /\ UNCHANGED unsure
  BY DEF ConsumeFault
<1> QED BY <1>1, <1>2, <1>3, <1>4, CInsertErrStep, CFinalSyncStep

(* Every step preserves the invariant. *)
LEMMA NextIInv == ASSUME IInv, [Next]_vars PROVE IInv'
<1>1. CASE UNCHANGED vars BY <1>1, StutterIInv
<1>2. CASE Idle BY <1>2, StutterIInv DEF Idle
<1>3. CASE Boot \/ Replay
  BY <1>3, BootStep, ReplayReadStep, ReplayInsertOkStep, ReplayInsertErrStep, ReplayDoneStep
     DEF Replay
<1>4. CASE Callers \/ Loop \/ LoopFault \/ Consume \/ ConsumeFault
  BY <1>4, CallersStep, LoopSteps, LoopFaultStep, ConsumeStep, ConsumeFaultStep
<1>5. CASE TickSync \/ SizeCap BY <1>5, TickSyncStep, SizeCapStep
<1>6. CASE Signal \/ MainClose \/ MainReturn \/ Halt
  BY <1>6, SignalStep, MainCloseStep, MainReturnStep, HaltStep
<1>7. CASE Kill \/ ExitOne \/ PowerLoss BY <1>7, DeathStep, PowerLossStep
<1> QED BY <1>1, <1>2, <1>3, <1>4, <1>5, <1>6, <1>7 DEF Next

(* The invariant holds in every reachable state, for any number of events, *)
(* any capacities, any number of faults and restarts.                      *)
THEOREM Invariance == Spec => []IInv
  BY InitIInv, NextIInv, PTL DEF Spec

---------------------------------------------------------------------------
(* Type correctness: whatever happens to the process, the log's bookkeeping *)
(* stays within the entries written and every queue holds only events.      *)
THEOREM TypeCorrect == Spec => []TypeOK
<1>1. IInv => TypeOK BY DEF IInv
<1> QED BY <1>1, Invariance, PTL

(* No acknowledged event is lost: an event answered 202 is in ClickHouse or *)
(* in the log, or was given up on, evicted by the size cap or in a failed   *)
(* fsync that was ignored.                                                  *)
THEOREM NoAckedEventLost == Spec => []AckedAccounted
<1>1. IInv => AckedAccounted BY DEF IInv
<1> QED BY <1>1, Invariance, PTL

(* Group commit: a 202 is sent after the fsync that covers the entry. *)
THEOREM AckAfterFsync == Spec => []AckedDurable
<1>1. IInv => AckedDurable BY DEF IInv, DurableBeforeAck, AckedDurable, Promised
<1> QED BY <1>1, Invariance, PTL

(* What travels from the group syncer to the consumer is the end of the log, *)
(* in order and without a gap, until the syncer is closed.                   *)
THEOREM DeliveryInOrder == Spec => []PipeInOrder
<1>1. IInv => PipeInOrder BY DEF IInv
<1> QED BY <1>1, Invariance, PTL

(* No entry is left to the next restart while the process runs normally. *)
THEOREM NoEntryStranded == Spec => []NothingStranded
<1>1. ASSUME IInv PROVE NothingStranded
  <2> USE <1>1 DEF IInv, TypeOK
  <2>1. SUFFICES ASSUME proc = "up", ~ctxDone,
                        NEW i \in (LiveIdx \cup (snap + 1)..Last) \ corrupt
                 PROVE  hist[i] \in Stored \cup abandoned \cup InFlight
    BY DEF NothingStranded
  <2>2. ~stopped BY <2>1 DEF StopOrder
  <2>3. /\ Recv \in Nat /\ Last \in Nat /\ Len(out) \in Nat /\ Len(toDeliver) \in Nat
        /\ first \in Nat \ {0} /\ snap \in Nat
    BY DEF Recv, ConsTypeOK, MainTypeOK, GroupTypeOK, WalTypeOK, Last
  <2>4. i \in 1..Last /\ Handled(i)
    BY <2>1, <2>3 DEF LiveIdx, Handled
  <2>5. /\ Feeds(out, hist, Recv) /\ Feeds(toDeliver, hist, Recv + Len(out))
        /\ Recv + Len(out) + Len(toDeliver) = Last
    BY <2>1, <2>2 DEF PipeInOrder
  <2>6. CASE i <= Recv
    <3>1. i \in 1..Recv BY <2>3, <2>4, <2>6
    <3> QED BY <2>1, <2>2, <2>4, <3>1 DEF ReceivedSettled, InFlight
  <2>7. CASE i > Recv /\ i <= Recv + Len(out)
    <3>1. i - Recv \in 1..Len(out) /\ Recv + (i - Recv) = i BY <2>3, <2>4, <2>7
    <3>2. out[i - Recv].ev = hist[i] BY <2>5, <3>1 DEF Feeds
    <3> QED BY <3>1, <3>2 DEF InFlight
  <2>8. CASE i > Recv + Len(out)
    <3> DEFINE k == i - (Recv + Len(out))
    <3>1. k \in 1..Len(toDeliver) /\ (Recv + Len(out)) + k = i BY <2>3, <2>4, <2>5, <2>8
    <3> HIDE DEF k
    <3>2. toDeliver[k].ev = hist[i] BY <2>5, <3>1 DEF Feeds
    <3> QED BY <3>1, <3>2 DEF InFlight
  <2> QED BY <2>3, <2>4, <2>6, <2>7, <2>8
<1> QED BY <1>1, Invariance, PTL

(* Truncation by an acknowledgement, by the replay or by the size cap lets  *)
(* go of settled entries only.                                              *)
THEOREM TruncationSafe == Spec => TruncatesOnlySettled
<1> DEFINE Settled == \A i \in first..(first' - 1) :
              i \in corrupt \/ hist[i] \in Stored \cup abandoned \cup evicted'
<1>1. ASSUME IInv, [Next]_vars PROVE Settled
  <2> USE <1>1 DEF IInv, TypeOK
  <2>0. first \in Nat \ {0} BY DEF WalTypeOK
  <2>1. CASE first' = first
    <3>1. first..(first - 1) = {} BY <2>0
    <3> QED BY <2>1, <3>1
  <2>2. CASE proc = "up" /\ CAck
    <3>1. first <= first' /\ WalTypeOK' /\ \A i \in first..(first' - 1) : i <= lastIdx
      BY <2>2, WalAckEffect DEF CAck, ConsTypeOK
    <3>2. SUFFICES ASSUME NEW i \in first..(first' - 1), i \notin corrupt
                   PROVE  hist[i] \in Stored \cup abandoned
      OBVIOUS
    <3>3. i \in Int /\ first <= i BY <2>0, <3>1, IntervalFacts DEF WalTypeOK
    <3>4. i <= lastIdx /\ lastIdx \in Nat BY <3>1 DEF ConsTypeOK
    <3>5. i \in 1..Recv BY <2>0, <3>3, <3>4 DEF Recv
    <3>6. Handled(i) BY <3>2, <3>3 DEF Handled
    <3>7. ~stopped /\ Range(cbatch) \subseteq Stored BY <2>2 DEF CAck, StopOrder, AckAfterInsert
    <3> QED BY <2>2, <3>5, <3>6, <3>7 DEF CAck, ReceivedSettled
  <2>3. CASE ReplayDone /\ replayed
    <3>1. first <= first' /\ WalTypeOK' /\ \A i \in first..(first' - 1) : i <= snap
      BY <2>3, WalAckEffect DEF ReplayDone, MainTypeOK
    <3>2. SUFFICES ASSUME NEW i \in first..(first' - 1), i \notin corrupt
                   PROVE  hist[i] \in Stored
      OBVIOUS
    <3>3. i \in Int /\ first <= i BY <2>0, <3>1, IntervalFacts DEF WalTypeOK
    <3>4. i <= snap /\ snap \in Nat /\ rpos \in Nat /\ rpos > snap
      BY <2>3, <3>1 DEF ReplayDone, MainTypeOK
    <3>5. i \in first..(rpos - 1) BY <2>0, <3>3, <3>4
    <3>6. Range(rbatch) = {} /\ proc = "replay" BY <2>3, EmptySeq DEF ReplayDone
    <3> QED BY <3>2, <3>5, <3>6 DEF ReplayProgress
  <2>4. CASE SizeCap
    <3>1. \A i \in first..(first' - 1) : i \notin corrupt => hist[i] \in evicted'
      BY <2>4, CapEffect DEF SizeCap
    <3> QED BY <3>1
  <2>5. first' = first \/ (proc = "up" /\ CAck) \/ (ReplayDone /\ replayed) \/ SizeCap
    <3> USE DEF vars, walVars
    <3>1. CASE UNCHANGED vars \/ Idle \/ Boot \/ Replay
      BY <3>1 DEF Idle, Boot, Replay, ReplayRead, ReplayInsertOk, ReplayInsertErr, ReplayDone
    <3>2. CASE Callers \/ Loop \/ LoopFault
      BY <3>2 DEF Callers, Submit, Reject, Cancel, Loop, LoopRecv, LoopTimer, LoopStop,
         AppendOk, WalAppend, SyncOk, FsyncOk, AckBatch, Deliver, DeliverSkip, FlushDone,
         LoopFault, AppendErr, SyncErr, FsyncFailFatal
    <3>3. CASE Consume \/ ConsumeFault
      BY <3>3 DEF Consume, CRecv, CTick, CDrain, CSettle, CInsertOk, CRetry, CRetryCancelled,
         CFinalSync, ConsumeFault, CInsertErr, FsyncOk, FsyncFailIgnored
    <3>4. CASE TickSync \/ Signal \/ MainClose \/ MainReturn \/ Halt
      BY <3>4 DEF TickSync, Signal, CancelRun, MainClose, CloseSyncer, MainReturn, Halt,
         FsyncOk, FsyncFailIgnored
    <3>5. CASE Kill \/ ExitOne \/ PowerLoss
      BY <3>5 DEF Kill, ExitOne, PowerLoss, WalProcessDeath, WalPowerLoss
    <3> QED BY <3>1, <3>2, <3>3, <3>4, <3>5 DEF Next
  <2> QED BY <2>1, <2>2, <2>3, <2>4, <2>5
<1> QED BY <1>1, Invariance, PTL DEF Spec, TruncatesOnlySettled

-----------------------------------------------------------------------------
(* The contract. *)

(* What is on its way to ClickHouse after a step was on its way before, or *)
(* has just been read from the log.                                        *)
Carried ==
    InFlight' \cup Range(rbatch)' \subseteq InFlight \cup Range(rbatch) \cup Live'

(* No page leaves the disk, and no entry becomes unreadable or readable. *)
DiskKept == corrupt' = corrupt /\ disk \subseteq disk'

(* A step that takes nothing away keeps the sources of what is in flight.  *)
LEMMA SourceKept ==
  ASSUME SourceInv, Kept, Carried, DiskKept
  PROVE  SourceInv'
BY DEF SourceInv, Kept, Carried, DiskKept

(* A step of the contract under the refinement mapping of IngestPath. *)
ContractStep == [Contract!Next]_(Contract!dvars)

(* A step that leaves log, database, excuses and promises alone is a       *)
(* stuttering step of the contract.                                        *)
LEMMA StutterStep ==
  ASSUME UNCHANGED <<hist, first, corrupt, copies, abandoned, evicted, swallowed>>,
         Promised' = Promised
  PROVE  ContractStep /\ Kept
<1>1. Live' = Live /\ Stored' = Stored /\ Excused' = Excused
  BY SameLog DEF Stored, Excused
<1>2. UNCHANGED Contract!dvars
  BY <1>1 DEF Contract!dvars
<1>. QED  BY <1>1, <1>2 DEF ContractStep, Kept

(* A step that stores or excuses events of the log. *)
LEMMA StoreStep ==
  ASSUME WalTypeOK, ConsTypeOK, NEW S, NEW X,
         UNCHANGED <<hist, first, corrupt>>, Promised' = Promised,
         Stored' = Stored \cup S, Excused' = Excused \cup X,
         S \cup X \subseteq Live \cup Stored \cup Excused
  PROVE  ContractStep /\ Kept
<1>1. Live' = Live
  BY SameLog
<1>2. Live \subseteq Events /\ Stored \subseteq Events /\ Excused \subseteq Events
  BY DEF WalTypeOK, ConsTypeOK, Live, LiveIdx, Last, Stored, Excused
<1>3. S \in SUBSET Events /\ X \in SUBSET Events
  BY <1>2
<1>4. Contract!Store(S, X)
  BY <1>1 DEF Contract!Store
<1>5. Contract!Next
  BY <1>3, <1>4 DEF Contract!Next
<1>. QED  BY <1>1, <1>5 DEF ContractStep, Kept

(* A step in which the log lets go of events. *)
LEMMA ReleaseStep ==
  ASSUME WalTypeOK, NEW X, X \subseteq Live, Live' \subseteq Live,
         Promised' = Promised, Stored' = Stored, Excused' = Excused \cup X,
         (Live \ Live') \cap Promised \subseteq Stored \cup Excused \cup X
  PROVE  ContractStep
<1>. DEFINE S == Live \ Live'
<1>1. Live \subseteq Events
  BY DEF WalTypeOK, Live, LiveIdx, Last
<1>2. S \in SUBSET Events /\ X \in SUBSET Events
  BY <1>1
<1>3. Contract!Release(S, X)
  BY DEF Contract!Release
<1>4. Contract!Next
  BY <1>2, <1>3 DEF Contract!Next
<1>. QED  BY <1>4 DEF ContractStep

---------------------------------------------------------------------------
(* The queues. *)

(* The events of a queue of envelopes. *)
Evs(q) == {q[k].ev : k \in 1..Len(q)}

(* What is in flight: the consumer's batch and the two queues before it. *)
LEMMA InFlightEvs == InFlight = Range(cbatch) \cup Evs(out) \cup Evs(toDeliver)
  BY DEF InFlight, Evs

(* Taking the first envelope of a queue. *)
LEMMA EvsTail ==
  ASSUME NEW q \in Seq(Envelope), q # <<>>
  PROVE  Evs(q) = {Head(q).ev} \cup Evs(Tail(q))
<1>1. /\ Len(q) \in Nat /\ Len(q) >= 1 /\ Head(q) = q[1] /\ Len(Tail(q)) = Len(q) - 1
      /\ \A k \in 1..(Len(q) - 1) : Tail(q)[k] = q[k + 1]
  BY TailFacts
<1>2. ASSUME NEW k \in 1..Len(q) PROVE q[k].ev \in {Head(q).ev} \cup Evs(Tail(q))
  <2>1. CASE k = 1
    BY <1>1, <2>1
  <2>2. CASE k # 1
    <3>1. k - 1 \in 1..(Len(q) - 1) /\ (k - 1) + 1 = k
      BY <1>1, <2>2
    <3>2. Tail(q)[k - 1] = q[k]
      BY <1>1, <3>1
    <3>. QED  BY <1>1, <3>1, <3>2 DEF Evs
  <2>. QED  BY <2>1, <2>2
<1>3. ASSUME NEW k \in 1..Len(Tail(q)) PROVE Tail(q)[k].ev \in Evs(q)
  <2>1. k \in 1..(Len(q) - 1) /\ k + 1 \in 1..Len(q)
    BY <1>1
  <2>. QED  BY <1>1, <2>1 DEF Evs
<1>4. Head(q).ev \in Evs(q)
  BY <1>1 DEF Evs
<1>. QED  BY <1>2, <1>3, <1>4 DEF Evs

(* Sending an envelope. *)
LEMMA EvsAppend ==
  ASSUME NEW q \in Seq(Envelope), NEW x \in Envelope
  PROVE  Evs(Append(q, x)) = Evs(q) \cup {x.ev}
<1>1. /\ Len(q) \in Nat /\ Len(Append(q, x)) = Len(q) + 1
      /\ \A k \in 1..Len(q) : Append(q, x)[k] = q[k]
      /\ Append(q, x)[Len(q) + 1] = x
  BY AppendFacts
<1>2. ASSUME NEW k \in 1..(Len(q) + 1) PROVE Append(q, x)[k].ev \in Evs(q) \cup {x.ev}
  <2>1. k \in 1..Len(q) \/ k = Len(q) + 1
    BY <1>1
  <2>. QED  BY <1>1, <2>1 DEF Evs
<1>3. ASSUME NEW k \in 1..Len(q) PROVE q[k].ev \in Evs(Append(q, x))
  <2>1. k \in 1..(Len(q) + 1) /\ Append(q, x)[k] = q[k]
    BY <1>1
  <2>. QED  BY <1>1, <2>1 DEF Evs
<1>4. x.ev \in Evs(Append(q, x))
  <2>1. Len(q) + 1 \in 1..Len(Append(q, x))
    BY <1>1
  <2>. QED  BY <1>1, <2>1 DEF Evs
<1>. QED  BY <1>1, <1>2, <1>3, <1>4 DEF Evs

(* Nothing in flight. *)
LEMMA EvsEmpty == Evs(<<>>) = {} /\ Range(<<>>) = {}
  BY EmptySeq DEF Evs

---------------------------------------------------------------------------
(* One lemma per kind of step: the step of the contract it is, and what it *)
(* does to the events in flight.                                           *)

(* Handlers: nobody is promised anything when a request is queued, refused *)
(* or given up.                                                            *)
LEMMA CallersContract ==
  ASSUME IInv, SourceInv, Callers
  PROVE  ContractStep /\ SourceInv'
<1>1. PICK e \in Events : Submit(e) \/ Reject(e) \/ Cancel(e)
  BY DEF Callers
<1>2. UNCHANGED <<hist, first, disk, corrupt, evicted, swallowed, out, toDeliver>>
  BY <1>1 DEF Submit, Reject, Cancel, walVars
<1>3. UNCHANGED <<cbatch, copies, abandoned, rbatch>>
  BY DEF Callers, consVars, mainVars
<1>4. Promised' = Promised
  <2>1. status \in [Events -> {"new", "wait", "ok", "err", "gone"}]
    BY DEF IInv, TypeOK, GroupTypeOK
  <2>2. PICK x \in {"wait", "err", "gone"} : status[e] # "ok" /\ status' = [status EXCEPT ![e] = x]
    BY <1>1 DEF Submit, Reject, Cancel
  <2>. QED  BY <2>1, <2>2 DEF Promised
<1>5. Carried /\ DiskKept
  BY <1>2, <1>3 DEF Carried, DiskKept, InFlight, Range
<1>. QED  BY <1>2, <1>3, <1>4, <1>5, StutterStep, SourceKept

(* The loop appends an entry: a Write, of an event not promised yet. *)
LEMMA AppendContract ==
  ASSUME IInv, SourceInv, AppendOk, UNCHANGED <<consVars, mainVars>>
  PROVE  ContractStep /\ SourceInv'
<1>. DEFINE e == pending[pos]
            n == Last + 1
<1>1. /\ UNCHANGED <<first, disk, corrupt, evicted, swallowed, status, out>>
      /\ UNCHANGED <<cbatch, copies, abandoned, rbatch>>
      /\ gpc = "append" /\ hist' = Append(hist, e)
      /\ toDeliver' = Append(toDeliver, [idx |-> Last', ev |-> e])
  BY DEF AppendOk, WalAppend, consVars, mainVars
<1>2. /\ hist \in Seq(Events) /\ Last \in Nat /\ first \in Nat \ {0} /\ corrupt \subseteq 1..Last
      /\ pending \in Seq(Events) /\ toDeliver \in Seq(Envelope) /\ pos \in Nat \ {0}
      /\ first <= Last + 1
  BY DEF IInv, TypeOK, WalTypeOK, GroupTypeOK, LogShape, Last
<1>3. pos \in 1..Len(pending) /\ e \in Events
  BY <1>1, <1>2 DEF IInv, FlushShape
<1>4. e \notin Promised
  BY <1>1, <1>3 DEF IInv, QueuedOnce, Promised
<1>. HIDE DEF e
<1>5. /\ Last' = n /\ hist'[n] = e /\ \A i \in 1..Last : hist'[i] = hist[i]
  BY <1>1, <1>2, <1>3, AppendFacts DEF Last
<1>6. LiveIdx' = LiveIdx \cup {n} /\ n \notin corrupt /\ LiveIdx \subseteq 1..Last
  BY <1>1, <1>2, <1>5 DEF LiveIdx
<1>. HIDE DEF n
<1>7. Live' = Live \cup {e}
  BY <1>1, <1>5, <1>6 DEF Live
<1>8. Stored' = Stored /\ Excused' = Excused /\ Promised' = Promised
  BY <1>1 DEF Stored, Excused, Promised
<1>9. Contract!Write(e)
  BY <1>4, <1>7, <1>8 DEF Contract!Write
<1>10. ContractStep
  BY <1>3, <1>9 DEF ContractStep, Contract!Next
<1>11. Kept /\ DiskKept
  BY <1>1, <1>7, <1>8 DEF Kept, DiskKept
<1>12. Carried
  <2>1. [idx |-> n, ev |-> e] \in Envelope
    BY <1>2, <1>3 DEF Envelope, n
  <2>2. Evs(toDeliver') = Evs(toDeliver) \cup {e}
    BY <1>1, <1>2, <1>5, <2>1, EvsAppend
  <2>3. InFlight' = InFlight \cup {e}
    <3>1. InFlight' = Range(cbatch') \cup Evs(out') \cup Evs(toDeliver')
      BY DEF InFlight, Evs, Range
    <3>. QED  BY <1>1, <2>2, <3>1, InFlightEvs
  <2>4. Range(rbatch)' = Range(rbatch)
    BY <1>1 DEF Range
  <2>. QED  BY <1>7, <2>3, <2>4 DEF Carried
<1>. QED  BY <1>10, <1>11, <1>12, SourceKept

(* The batch is answered: a Promise about the events whose append did not  *)
(* fail.                                                                   *)
LEMMA AckContract ==
  ASSUME IInv, SourceInv, AckBatch, UNCHANGED <<consVars, mainVars>>
  PROVE  ContractStep /\ SourceInv'
<1>. DEFINE S == {e \in Events : e \in Range(pending) /\ status[e] = "wait" /\ e \notin failed}
<1>1. /\ UNCHANGED <<hist, first, disk, corrupt, evicted, swallowed, out, toDeliver>>
      /\ UNCHANGED <<cbatch, copies, abandoned, rbatch>>
      /\ gpc = "ack" /\ Answer(failed)
  BY DEF AckBatch, walVars, consVars, mainVars
<1>2. Live' = Live /\ Stored' = Stored /\ Excused' = Excused
  BY <1>1, SameLog DEF Stored, Excused
<1>3. Promised' = Promised \cup S
  BY <1>1 DEF Answer, Promised
<1>4. S \subseteq Live \cup Stored \cup Excused
  <2>1. SUFFICES ASSUME NEW e \in S PROVE e \in Live \cup Stored \cup Excused
    OBVIOUS
  <2>2. PICK k \in 1..Len(pending) : e = pending[k]
    BY DEF Range
  <2>3. pos > Len(pending) /\ pos \in Nat /\ Len(pending) \in Nat
    BY <1>1 DEF IInv, FlushShape, TypeOK, GroupTypeOK
  <2>4. k \in 1..(pos - 1) /\ k <= Len(pending)
    BY <2>2, <2>3
  <2>5. pending[k] \in failed \cup Live \cup Stored \cup Excused
    BY <1>1, <2>4 DEF IInv, FlushShape
  <2>. QED  BY <2>2, <2>5
<1>. HIDE DEF S
<1>5. Contract!Promise(S)
  BY <1>2, <1>3, <1>4 DEF Contract!Promise
<1>6. S \in SUBSET Events
  BY DEF S
<1>7. ContractStep
  BY <1>5, <1>6 DEF ContractStep, Contract!Next
<1>8. Kept /\ DiskKept /\ Carried
  BY <1>1, <1>2 DEF Kept, DiskKept, Carried, InFlight, Range
<1>. QED  BY <1>7, <1>8, SourceKept

(* The steps of the loop that only wake it, sync, fail or return. *)
LEMMA LoopQuietContract ==
  ASSUME IInv, SourceInv, UNCHANGED <<consVars, rbatch>>,
         \/ LoopRecv \/ LoopTimer \/ LoopStop \/ SyncOk \/ FlushDone
         \/ AppendErr \/ SyncErr
  PROVE  ContractStep /\ SourceInv'
<1>1. UNCHANGED <<cbatch, copies, abandoned, rbatch>>
  BY DEF consVars
<1>2. UNCHANGED <<hist, first, corrupt, evicted, swallowed, out, toDeliver>> /\ disk \subseteq disk'
  BY DEF LoopRecv, LoopTimer, LoopStop, SyncOk, FlushDone, AppendErr, SyncErr, walVars,
         FsyncOk, FsyncFailFatal
<1>3. Promised' = Promised
  <2>1. CASE SyncErr
    <3>1. \A e \in Events : status'[e] = IF e \in Range(pending) /\ status[e] = "wait"
                                         THEN "err" ELSE status[e]
      BY <2>1 DEF SyncErr, Answer
    <3>. QED  BY <3>1 DEF Promised
  <2>2. CASE ~SyncErr
    <3>1. status' = status
      BY <2>2 DEF LoopRecv, LoopTimer, LoopStop, SyncOk, FlushDone, AppendErr
    <3>. QED  BY <3>1 DEF Promised
  <2>. QED  BY <2>1, <2>2
<1>4. Carried /\ DiskKept
  BY <1>1, <1>2 DEF Carried, DiskKept, InFlight, Range
<1>. QED  BY <1>1, <1>2, <1>3, <1>4, StutterStep, SourceKept

(* The loop hands an envelope over, or leaves it to the replay. *)
LEMMA DeliverContract ==
  ASSUME IInv, SourceInv, Deliver \/ DeliverSkip, UNCHANGED <<consVars, mainVars>>
  PROVE  ContractStep /\ SourceInv'
<1>1. UNCHANGED <<cbatch, copies, abandoned, rbatch>>
  BY DEF consVars, mainVars
<1>2. /\ UNCHANGED <<hist, first, disk, corrupt, evicted, swallowed, status>>
      /\ toDeliver # <<>> /\ toDeliver' = Tail(toDeliver)
      /\ out' = out \/ out' = Append(out, Head(toDeliver))
  BY DEF Deliver, DeliverSkip, walVars
<1>3. Promised' = Promised
  BY <1>2 DEF Promised
<1>4. toDeliver \in Seq(Envelope) /\ out \in Seq(Envelope)
  BY DEF IInv, TypeOK, GroupTypeOK
<1>5. Head(toDeliver) \in Envelope
  BY <1>2, <1>4, TailFacts
<1>6. Evs(toDeliver) = {Head(toDeliver).ev} \cup Evs(toDeliver')
  BY <1>2, <1>4, EvsTail
<1>7. Evs(out') \subseteq Evs(out) \cup {Head(toDeliver).ev}
  <2>1. CASE out' = out
    BY <2>1
  <2>2. CASE out' = Append(out, Head(toDeliver))
    <3>1. Evs(Append(out, Head(toDeliver))) = Evs(out) \cup {Head(toDeliver).ev}
      BY <1>4, <1>5, EvsAppend
    <3>. QED  BY <2>2, <3>1
  <2>. QED  BY <1>2, <2>1, <2>2
<1>8. InFlight' = Range(cbatch') \cup Evs(out') \cup Evs(toDeliver')
  BY DEF InFlight, Evs, Range
<1>9. InFlight' \subseteq InFlight
  BY <1>1, <1>6, <1>7, <1>8, InFlightEvs
<1>10. Carried /\ DiskKept
  <2>1. Range(rbatch)' = Range(rbatch)
    BY <1>1 DEF Range
  <2>. QED  BY <1>2, <1>9, <2>1 DEF Carried, DiskKept
<1>. QED  BY <1>1, <1>2, <1>3, <1>10, StutterStep, SourceKept

(* The consumer receives an envelope. *)
LEMMA CRecvContract ==
  ASSUME IInv, SourceInv, CRecv, UNCHANGED mainVars
  PROVE  ContractStep /\ SourceInv'
<1>1. /\ UNCHANGED <<hist, first, disk, corrupt, evicted, swallowed, status, toDeliver>>
      /\ UNCHANGED <<copies, abandoned, rbatch>>
      /\ out # <<>> /\ out' = Tail(out) /\ cbatch' = Append(cbatch, Head(out).ev)
  BY DEF CRecv, walVars, mainVars
<1>2. out \in Seq(Envelope) /\ cbatch \in Seq(Events)
  BY DEF IInv, TypeOK, GroupTypeOK, ConsTypeOK
<1>3. Head(out).ev \in Events
  <2>1. Head(out) \in Envelope
    BY <1>1, <1>2, TailFacts
  <2>. QED  BY <2>1 DEF Envelope
<1>4. Promised' = Promised
  BY <1>1 DEF Promised
<1>5. Evs(out) = {Head(out).ev} \cup Evs(out')
  BY <1>1, <1>2, EvsTail
<1>6. Range(cbatch') = Range(cbatch) \cup {Head(out).ev}
  BY <1>1, <1>2, <1>3, RangeAppend
<1>7. InFlight' = Range(cbatch') \cup Evs(out') \cup Evs(toDeliver')
  BY DEF InFlight, Evs, Range
<1>8. Evs(toDeliver') = Evs(toDeliver)
  BY <1>1
<1>9. InFlight' \subseteq InFlight
  BY <1>5, <1>6, <1>7, <1>8, InFlightEvs
<1>10. Carried /\ DiskKept
  <2>1. Range(rbatch)' = Range(rbatch)
    BY <1>1 DEF Range
  <2>. QED  BY <1>1, <1>9, <2>1 DEF Carried, DiskKept
<1>. QED  BY <1>1, <1>4, <1>10, StutterStep, SourceKept

(* The consumer's steps that neither insert nor acknowledge. *)
LEMMA ConsumerQuietContract ==
  ASSUME IInv, SourceInv, UNCHANGED mainVars,
         \/ CTick \/ CDrain \/ CSettle \/ CRetry \/ CRetryCancelled \/ CFinalSync(TRUE)
  PROVE  ContractStep /\ SourceInv'
<1>1. /\ UNCHANGED <<hist, first, corrupt, evicted, swallowed, status, out, toDeliver>>
      /\ UNCHANGED <<copies, abandoned, rbatch>> /\ disk \subseteq disk'
      /\ cbatch' = cbatch \/ cbatch' = <<>>
  BY DEF CTick, CDrain, CSettle, CRetry, CRetryCancelled, GiveUp, CFinalSync, FsyncOk,
         walVars, groupVars, mainVars
<1>2. Promised' = Promised
  BY <1>1 DEF Promised
<1>3. Range(cbatch') \subseteq Range(cbatch)
  BY <1>1, EvsEmpty
<1>4. Range(cbatch)' = Range(cbatch')
  BY DEF Range
<1>5. Carried /\ DiskKept
  BY <1>1, <1>3, <1>4 DEF Carried, DiskKept, InFlight, Range
<1>. QED  BY <1>1, <1>2, <1>5, StutterStep, SourceKept

(* A doInsert: the batch is stored, given up on, or stays. *)
LEMMA CInsertContract ==
  ASSUME IInv, SourceInv, UNCHANGED rbatch,
         CInsertOk \/ CInsertErr(FALSE) \/ CInsertErr(TRUE)
  PROVE  ContractStep /\ SourceInv'
<1>1. /\ UNCHANGED <<hist, first, disk, corrupt, evicted, swallowed, status, out, toDeliver>>
      /\ UNCHANGED rbatch
      /\ cbatch' = cbatch \/ cbatch' = <<>>
      /\ Commit(cbatch) \/ copies' = copies
      /\ abandoned' = abandoned \/ abandoned' = abandoned \cup Range(cbatch)
  BY DEF CInsertOk, CInsertErr, GiveUp, walVars, groupVars
<1>2. Promised' = Promised /\ WalTypeOK /\ ConsTypeOK /\ cbatch \in Seq(Events)
  BY <1>1 DEF Promised, IInv, TypeOK, ConsTypeOK
<1>3. PICK S \in SUBSET Range(cbatch) : Stored' = Stored \cup S
  <2>1. CASE Commit(cbatch)
    <3>1. Stored' = Stored \cup Range(cbatch)
      BY <1>2, <2>1, CommitEffect
    <3>. QED  BY <3>1
  <2>2. CASE copies' = copies
    <3>1. Stored' = Stored \cup {}
      BY <2>2 DEF Stored
    <3>. QED  BY <3>1
  <2>. QED  BY <1>1, <2>1, <2>2
<1>4. PICK X \in SUBSET Range(cbatch) : Excused' = Excused \cup X
  BY <1>1 DEF Excused
<1>5. Range(cbatch) \subseteq Live \cup Stored \cup Excused
  BY DEF SourceInv, InFlight
<1>6. ContractStep /\ Kept
  BY <1>1, <1>2, <1>3, <1>4, <1>5, StoreStep
<1>7. Range(cbatch') \subseteq Range(cbatch) /\ Range(cbatch)' = Range(cbatch')
  BY <1>1, EvsEmpty DEF Range
<1>8. Carried /\ DiskKept
  BY <1>1, <1>7 DEF Carried, DiskKept, InFlight, Range
<1>. QED  BY <1>6, <1>8, SourceKept

(* The log lets go of entries that are settled; nothing else moves but the *)
(* queues, which may be emptied.                                           *)
LEMMA TruncateContract ==
  ASSUME IInv, SourceInv, UNCHANGED <<hist, corrupt>>, Promised' = Promised, Stored' = Stored,
         disk \subseteq disk', first' \in Nat, first <= first',
         NEW X, X \subseteq Live, Excused' = Excused \cup X,
         \A i \in first..(first' - 1) :
            i <= Last /\ i \notin corrupt => hist[i] \in Stored \cup Excused \cup X,
         InFlight' \cup Range(rbatch)' \subseteq InFlight \cup Range(rbatch)
  PROVE  ContractStep /\ SourceInv'
<1>1. WalTypeOK
  BY DEF IInv, TypeOK
<1>2. Kept
  BY <1>1, ShrunkLog
<1>3. Live' \subseteq Live
  <2>1. Last' = Last /\ Last \in Nat /\ first \in Nat
    BY <1>1 DEF Last, WalTypeOK
  <2>2. LiveIdx' \subseteq LiveIdx
    BY <2>1 DEF LiveIdx
  <2>. QED  BY <2>2 DEF Live
<1>4. (Live \ Live') \cap Promised \subseteq Stored \cup Excused \cup X
  BY <1>2 DEF Kept
<1>5. ContractStep
  BY <1>1, <1>3, <1>4, ReleaseStep
<1>6. Carried /\ DiskKept
  BY DEF Carried, DiskKept
<1>. QED  BY <1>2, <1>5, <1>6, SourceKept

(* The consumer acknowledges the log through the last index it received. *)
LEMMA CAckContract ==
  ASSUME IInv, SourceInv, proc = "up", CAck, UNCHANGED mainVars
  PROVE  ContractStep /\ SourceInv'
<1>. USE DEF IInv, TypeOK
<1>1. /\ UNCHANGED <<hist, corrupt, evicted, swallowed, status, toDeliver, out>>
      /\ UNCHANGED <<copies, abandoned, rbatch>>
      /\ cpc = "ack" /\ cbatch' = <<>> /\ WalAck(lastIdx)
  BY DEF CAck, WalAck, groupVars, mainVars
<1>2. /\ WalTypeOK' /\ disk \subseteq disk' /\ first <= first'
      /\ \A i \in first..(first' - 1) : i <= lastIdx
  BY <1>1, WalAckEffect DEF ConsTypeOK
<1>3. /\ first \in Nat \ {0} /\ first' \in Nat /\ lastIdx \in Nat
      /\ Stored' = Stored /\ Promised' = Promised /\ Excused' = Excused \cup {}
  BY <1>1, <1>2 DEF WalTypeOK, ConsTypeOK, Stored, Promised, Excused
<1>4. \A i \in 1..Recv : Handled(i) => hist[i] \in Stored \cup abandoned
  BY <1>1 DEF ReceivedSettled, AckAfterInsert, StopOrder
<1>5. ASSUME NEW i \in first..(first' - 1), i \notin corrupt
      PROVE  hist[i] \in Stored \cup Excused \cup {}
  <2>1. i \in Int /\ first <= i
    BY <1>3, IntervalFacts
  <2>2. i <= lastIdx
    BY <1>2
  <2>3. i \in 1..Recv /\ Handled(i)
    BY <1>3, <1>5, <2>1, <2>2 DEF Recv, Handled
  <2>. QED  BY <1>4, <2>3 DEF Excused
<1>6. InFlight' \cup Range(rbatch)' \subseteq InFlight \cup Range(rbatch)
  <2>1. Range(cbatch)' = {}
    BY <1>1, EvsEmpty DEF Range
  <2>. QED  BY <1>1, <2>1 DEF InFlight, Range
<1>7. PICK X \in SUBSET Live : X = {}
  OBVIOUS
<1>8. Excused' = Excused \cup X /\ \A i \in first..(first' - 1) :
         i <= Last /\ i \notin corrupt => hist[i] \in Stored \cup Excused \cup X
  BY <1>3, <1>5, <1>7
<1>. HIDE DEF IInv, TypeOK
<1>. QED  BY <1>1, <1>2, <1>3, <1>6, <1>7, <1>8, TruncateContract

(* The replay acknowledges what it has stored. *)
LEMMA ReplayDoneContract ==
  ASSUME IInv, SourceInv, ReplayDone
  PROVE  ContractStep /\ SourceInv'
<1>. USE DEF IInv, TypeOK
<1>1. /\ UNCHANGED <<hist, corrupt, evicted, swallowed, status, toDeliver, out>>
      /\ UNCHANGED <<cbatch, copies, abandoned, rbatch>>
  BY DEF ReplayDone, WalAck, walVars, groupVars, consVars
<1>2. /\ WalTypeOK' /\ disk \subseteq disk' /\ first <= first'
      /\ \A i \in first..(first' - 1) : i <= snap
  <2>1. CASE replayed
    BY <2>1, WalAckEffect DEF ReplayDone, MainTypeOK
  <2>2. CASE ~replayed
    <3>1. UNCHANGED walVars
      BY <2>2 DEF ReplayDone
    <3>. QED  BY <3>1 DEF walVars, WalTypeOK, Last
  <2>. QED  BY <2>1, <2>2
<1>3. /\ first \in Nat \ {0} /\ first' \in Nat /\ snap \in Nat /\ rpos \in Nat
      /\ Stored' = Stored /\ Promised' = Promised /\ Excused' = Excused \cup {}
  BY <1>1, <1>2 DEF WalTypeOK, MainTypeOK, Stored, Promised, Excused
<1>4. proc = "replay" /\ rpos > snap /\ rbatch = <<>>
  BY DEF ReplayDone
<1>5. ASSUME NEW i \in first..(first' - 1), i \notin corrupt
      PROVE  hist[i] \in Stored \cup Excused \cup {}
  <2>1. i \in Int /\ first <= i
    BY <1>3, IntervalFacts
  <2>2. i <= snap
    BY <1>2
  <2>3. i \in first..(rpos - 1)
    BY <1>3, <1>4, <2>1, <2>2
  <2>4. Range(rbatch) = {}
    BY <1>4, EvsEmpty
  <2>. QED  BY <1>4, <1>5, <2>3, <2>4 DEF ReplayProgress
<1>6. InFlight' \cup Range(rbatch)' \subseteq InFlight \cup Range(rbatch)
  BY <1>1 DEF InFlight, Range
<1>7. PICK X \in SUBSET Live : X = {}
  OBVIOUS
<1>8. Excused' = Excused \cup X /\ \A i \in first..(first' - 1) :
         i <= Last /\ i \notin corrupt => hist[i] \in Stored \cup Excused \cup X
  BY <1>3, <1>5, <1>7
<1>. HIDE DEF IInv, TypeOK
<1>. QED  BY <1>1, <1>2, <1>3, <1>6, <1>7, <1>8, TruncateContract

(* The size cap measures the log, or excuses what it drops. *)
LEMMA SizeCapContract ==
  ASSUME IInv, SourceInv, SizeCap
  PROVE  ContractStep /\ SourceInv'
<1>. USE DEF IInv, TypeOK
<1>1. UNCHANGED <<hist, corrupt, swallowed, status, toDeliver, out, cbatch, copies,
                  abandoned, rbatch>>
  BY DEF SizeCap, SizeCapMeasure, SizeCapTruncate, groupVars, consVars, mainVars
<1>2. /\ WalTypeOK' /\ disk \subseteq disk' /\ first <= first'
      /\ \A i \in first..(first' - 1) : i \notin corrupt => hist[i] \in evicted'
  BY CapEffect DEF SizeCap
<1>3. first \in Nat \ {0} /\ first' \in Nat /\ Stored' = Stored /\ Promised' = Promised
  BY <1>1, <1>2 DEF WalTypeOK, Stored, Promised
<1>4. PICK X \in SUBSET Live : evicted' = evicted \cup X
  <2>1. CASE evicted' = evicted
    <3>1. evicted' = evicted \cup {} /\ {} \in SUBSET Live
      BY <2>1
    <3>. QED  BY <3>1
  <2>2. CASE /\ CapTarget > first
             /\ evicted' = evicted \cup {hist[i] : i \in (first..(CapTarget - 1)) \ corrupt}
    <3>1. CapTarget <= Last /\ CapTarget \in Int /\ Last \in Nat
      BY <2>2, WalAssumption DEF CapTarget, WalTypeOK, Last
    <3>. HIDE DEF CapTarget
    <3>2. first..(CapTarget - 1) \subseteq LiveIdx
      BY <1>3, <3>1 DEF LiveIdx
    <3>3. {hist[i] : i \in (first..(CapTarget - 1)) \ corrupt} \in SUBSET Live
      BY <3>2 DEF Live
    <3>. QED  BY <2>2, <3>3
  <2>. QED  BY <2>1, <2>2 DEF SizeCap, SizeCapMeasure, SizeCapTruncate
<1>5. Excused' = Excused \cup X
  BY <1>1, <1>4 DEF Excused
<1>6. \A i \in first..(first' - 1) : i \notin corrupt => hist[i] \in Stored \cup Excused \cup X
  BY <1>2, <1>4 DEF Excused
<1>7. InFlight' \cup Range(rbatch)' \subseteq InFlight \cup Range(rbatch)
  BY <1>1 DEF InFlight, Range
<1>. QED  BY <1>1, <1>2, <1>3, <1>4, <1>5, <1>6, <1>7, TruncateContract

(* A failed fsync that is logged or dropped: the entries it may have lost  *)
(* are in the log, and are excused.                                        *)
LEMMA SwallowContract ==
  ASSUME IInv, SourceInv, FsyncOk \/ FsyncFailIgnored, Promised' = Promised,
         UNCHANGED <<copies, abandoned>>,
         InFlight' \cup Range(rbatch)' \subseteq InFlight \cup Range(rbatch)
  PROVE  ContractStep /\ SourceInv'
<1>1. UNCHANGED <<hist, first, corrupt, evicted>> /\ disk \subseteq disk'
  BY DEF FsyncOk, FsyncFailIgnored
<1>2. {hist[i] : i \in Dirty} \subseteq Live
  BY DEF SourceInv, Dirty, Live
<1>3. PICK X \in SUBSET Live : swallowed' = swallowed \cup X
  <2>1. CASE FsyncOk
    <3>1. swallowed' = swallowed \cup {} /\ {} \in SUBSET Live
      BY <2>1 DEF FsyncOk
    <3>. QED  BY <3>1
  <2>2. CASE FsyncFailIgnored
    <3>1. swallowed' = swallowed \cup {hist[i] : i \in Dirty}
      BY <2>2 DEF FsyncFailIgnored
    <3>. QED  BY <1>2, <3>1
  <2>. QED  BY <2>1, <2>2
<1>4. Stored' = Stored \cup {} /\ Excused' = Excused \cup X
  BY <1>1, <1>3 DEF Stored, Excused
<1>5. WalTypeOK /\ ConsTypeOK /\ {} \cup X \subseteq Live \cup Stored \cup Excused
  BY <1>3 DEF IInv, TypeOK
<1>6. ContractStep /\ Kept
  BY <1>1, <1>4, <1>5, StoreStep
<1>7. Carried /\ DiskKept
  BY <1>1 DEF Carried, DiskKept
<1>. QED  BY <1>6, <1>7, SourceKept

(* What the end of the process leaves in memory. *)
LEMMA DeadQueues ==
  ASSUME GroupTypeOK, Dead
  PROVE  /\ Promised' = Promised /\ UNCHANGED <<copies, abandoned>>
         /\ InFlight' = {} /\ Range(rbatch)' = {}
<1>1. \A e \in Events : status'[e] = IF status[e] = "wait" THEN "gone" ELSE status[e]
  BY DEF Dead, GroupReset
<1>2. /\ cbatch' = <<>> /\ out' = <<>> /\ toDeliver' = <<>> /\ rbatch' = <<>>
      /\ UNCHANGED <<copies, abandoned>>
  BY DEF Dead, GroupReset, ConsReset
<1>3. InFlight' = Range(cbatch') \cup Evs(out') \cup Evs(toDeliver')
  BY DEF InFlight, Evs, Range
<1>4. Range(rbatch)' = Range(rbatch')
  BY DEF Range
<1>5. Promised' = Promised
  BY <1>1 DEF Promised
<1>. QED  BY <1>2, <1>3, <1>4, <1>5, EvsEmpty

(* wal.Close, kill -9 and exit(1). *)
LEMMA DeathContract ==
  ASSUME IInv, SourceInv, Halt \/ Kill \/ ExitOne
  PROVE  ContractStep /\ SourceInv'
<1>1. /\ Promised' = Promised /\ UNCHANGED <<copies, abandoned>>
      /\ InFlight' = {} /\ Range(rbatch)' = {}
  BY DeadQueues DEF IInv, TypeOK, Halt, Kill, ExitOne
<1>2. CASE Halt
  BY <1>1, <1>2, SwallowContract DEF Halt
<1>3. CASE Kill \/ ExitOne
  <2>1. UNCHANGED <<hist, first, disk, corrupt, evicted, swallowed>>
    BY <1>3 DEF Kill, ExitOne, WalProcessDeath
  <2>2. Carried /\ DiskKept
    BY <1>1, <2>1 DEF Carried, DiskKept
  <2>. QED  BY <1>1, <2>1, <2>2, StutterStep, SourceKept
<1>. QED  BY <1>2, <1>3

(* A power loss: the log lets go of entries nobody was promised. *)
LEMMA PowerLossContract ==
  ASSUME IInv, SourceInv, PowerLoss
  PROVE  ContractStep /\ SourceInv'
<1>. USE DEF IInv, TypeOK
<1>0. UNCHANGED <<first, evicted, swallowed>>
  BY DEF PowerLoss, WalPowerLoss
<1>1. /\ Promised' = Promised /\ UNCHANGED <<copies, abandoned>>
      /\ InFlight' = {} /\ Range(rbatch)' = {}
  BY DeadQueues DEF PowerLoss
<1>2. PICK p \in (first - 1)..Last :
         /\ \A i \in disk \cap LiveIdx : i <= p
         /\ hist' = SubSeq(hist, 1, p)
         /\ disk' = first..p
         /\ \E bad \in SUBSET ((first..p) \ disk) : corrupt' = (corrupt \cap (first..p)) \cup bad
  BY DEF PowerLoss, WalPowerLoss
<1>3. /\ first \in Nat \ {0} /\ Last \in Nat /\ p \in Nat /\ p <= Last /\ p \in 0..Len(hist)
  BY <1>2 DEF Last, WalTypeOK
<1>4. Last' = p /\ \A i \in 1..p : hist'[i] = hist[i]
  BY <1>2, <1>3, PrefixFacts DEF WalTypeOK, Last
<1>5. Live' \subseteq Live
  <2>1. SUFFICES ASSUME NEW e \in Live' PROVE e \in Live
    OBVIOUS
  <2>2. PICK i \in first..p : i \notin corrupt' /\ e = hist'[i]
    BY <1>0, <1>4 DEF Live, LiveIdx
  <2>3. i \in 1..p /\ i \in LiveIdx /\ i \notin corrupt
    BY <1>2, <1>3, <2>2 DEF LiveIdx
  <2>. QED  BY <1>4, <2>2, <2>3 DEF Live
<1>6. ASSUME NEW e \in Live, e \in Promised, e \notin Live' PROVE e \in Excused
  <2>1. PICK i \in LiveIdx : i \notin corrupt /\ e = hist[i]
    BY DEF Live
  <2>2. i \in disk \/ e \in swallowed
    BY <1>6, <2>1 DEF DurableBeforeAck, Promised
  <2>3. CASE i \in disk
    <3>1. i <= p /\ i \in first..p /\ i \in 1..p
      BY <1>2, <1>3, <2>1, <2>3 DEF LiveIdx
    <3>2. i \notin corrupt'
      BY <1>2, <2>1, <2>3
    <3>3. i \in LiveIdx' /\ hist'[i] = e
      BY <1>0, <1>4, <2>1, <3>1 DEF LiveIdx
    <3>. QED  BY <1>6, <3>2, <3>3 DEF Live
  <2>. QED  BY <2>2, <2>3 DEF Excused
<1>7. Stored' = Stored /\ Excused' = Excused \cup {}
  BY <1>0, <1>1 DEF Stored, Excused
<1>8. ContractStep
  BY <1>1, <1>5, <1>6, <1>7, ReleaseStep
<1>9. corrupt' \subseteq disk'
  BY <1>2
<1>. QED  BY <1>1, <1>8, <1>9 DEF SourceInv

(* The start: the replay begins, and reads entries that are in the log. *)
LEMMA ReplayReadContract ==
  ASSUME IInv, SourceInv, Boot \/ ReplayRead
  PROVE  ContractStep /\ SourceInv'
<1>. USE DEF IInv, TypeOK
<1>1. UNCHANGED <<hist, first, disk, corrupt, evicted, swallowed, status, toDeliver, out,
                  cbatch, copies, abandoned>>
  BY DEF Boot, ReplayRead, walVars, groupVars, consVars
<1>2. Promised' = Promised
  BY <1>1 DEF Promised
<1>3. Range(rbatch') \subseteq Range(rbatch) \cup Live
  <2>1. CASE rbatch' = <<>>
    BY <2>1, EvsEmpty
  <2>2. CASE rbatch' = rbatch
    BY <2>2
  <2>3. CASE /\ proc = "replay" /\ rpos <= snap /\ ~(rpos < first) /\ rpos \notin corrupt
             /\ rbatch' = Append(rbatch, hist[rpos])
    <3>1. rpos \in LiveIdx /\ snap = Last /\ first \in Nat \ {0} /\ rpos \in Nat /\ Last \in Nat
      BY <2>3 DEF ReplayProgress, LiveIdx, MainTypeOK, WalTypeOK, Last
    <3>2. hist[rpos] \in Live
      BY <2>3, <3>1 DEF Live
    <3>3. rpos \in 1..Len(hist)
      BY <2>3, <3>1 DEF Last
    <3>4. hist[rpos] \in Events /\ rbatch \in Seq(Events)
      BY <3>3 DEF WalTypeOK, MainTypeOK
    <3>. QED  BY <2>3, <3>2, <3>4, RangeAppend
  <2>. QED  BY <2>1, <2>2, <2>3 DEF Boot, ReplayRead
<1>4. Range(rbatch)' = Range(rbatch') /\ Live' = Live
  BY <1>1, SameLog DEF Range
<1>5. Carried /\ DiskKept
  BY <1>1, <1>3, <1>4 DEF Carried, DiskKept, InFlight, Range
<1>. QED  BY <1>1, <1>2, <1>5, StutterStep, SourceKept

(* The replay inserts its batch. *)
LEMMA ReplayInsertContract ==
  ASSUME IInv, SourceInv, ReplayInsertOk \/ \E c \in BOOLEAN : ReplayInsertErr(c)
  PROVE  ContractStep /\ SourceInv'
<1>1. /\ UNCHANGED <<hist, first, disk, corrupt, evicted, swallowed, status, out, toDeliver>>
      /\ UNCHANGED <<cbatch, abandoned>>
      /\ rbatch' = rbatch \/ rbatch' = <<>>
      /\ Commit(rbatch) \/ copies' = copies
  BY DEF ReplayInsertOk, ReplayInsertErr, walVars, groupVars
<1>2. Promised' = Promised /\ WalTypeOK /\ ConsTypeOK /\ rbatch \in Seq(Events)
  BY <1>1 DEF Promised, IInv, TypeOK, MainTypeOK
<1>3. PICK S \in SUBSET Range(rbatch) : Stored' = Stored \cup S
  <2>1. CASE Commit(rbatch)
    <3>1. Stored' = Stored \cup Range(rbatch)
      BY <1>2, <2>1, CommitEffect
    <3>. QED  BY <3>1
  <2>2. CASE copies' = copies
    <3>1. Stored' = Stored \cup {}
      BY <2>2 DEF Stored
    <3>. QED  BY <3>1
  <2>. QED  BY <1>1, <2>1, <2>2
<1>4. Excused' = Excused \cup {}
  BY <1>1 DEF Excused
<1>5. S \cup {} \subseteq Live \cup Stored \cup Excused
  BY <1>3 DEF SourceInv
<1>6. ContractStep /\ Kept
  BY <1>1, <1>2, <1>3, <1>4, <1>5, StoreStep
<1>7. Range(rbatch') \subseteq Range(rbatch) /\ Range(rbatch)' = Range(rbatch')
  BY <1>1, EvsEmpty DEF Range
<1>8. Carried /\ DiskKept
  BY <1>1, <1>7 DEF Carried, DiskKept, InFlight, Range
<1>. QED  BY <1>6, <1>8, SourceKept

(* The fsync ticker, and drain's last Sync failing. *)
LEMMA TickContract ==
  ASSUME IInv, SourceInv, TickSync \/ CFinalSync(FALSE), UNCHANGED rbatch
  PROVE  ContractStep /\ SourceInv'
<1>1. /\ FsyncOk \/ FsyncFailIgnored
      /\ UNCHANGED <<status, out, toDeliver, cbatch, copies, abandoned, rbatch>>
  BY DEF TickSync, CFinalSync, groupVars, consVars
<1>2. Promised' = Promised
  BY <1>1 DEF Promised
<1>3. InFlight' \cup Range(rbatch)' \subseteq InFlight \cup Range(rbatch)
  BY <1>1 DEF InFlight, Range
<1>. QED  BY <1>1, <1>2, <1>3, SwallowContract

(* The signal, main's own steps and stuttering. *)
LEMMA MainQuietContract ==
  ASSUME IInv, SourceInv, Signal \/ MainClose \/ MainReturn \/ UNCHANGED vars
  PROVE  ContractStep /\ SourceInv'
<1>1. UNCHANGED <<hist, first, disk, corrupt, evicted, swallowed, status, toDeliver, out,
                  cbatch, copies, abandoned, rbatch>>
  BY DEF Signal, CancelRun, MainClose, CloseSyncer, MainReturn, vars, walVars, groupVars,
         consVars, mainVars
<1>2. Promised' = Promised
  BY <1>1 DEF Promised
<1>3. Carried /\ DiskKept
  BY <1>1 DEF Carried, DiskKept, InFlight, Range
<1>. QED  BY <1>1, <1>2, <1>3, StutterStep, SourceKept

(* Every step of the ingest path is a step of the contract, or stutters. *)
LEMMA NextContract ==
  ASSUME IInv, SourceInv, [Next]_vars
  PROVE  ContractStep /\ SourceInv'
<1>1. CASE Boot \/ Replay
  BY <1>1, ReplayReadContract, ReplayInsertContract, ReplayDoneContract DEF Replay
<1>2. CASE Callers
  BY <1>2, CallersContract
<1>3. CASE Loop
  <2>1. UNCHANGED <<consVars, mainVars>> /\ rbatch' = rbatch
    BY <1>3 DEF Loop, mainVars
  <2>. QED  BY <1>3, <2>1, AppendContract, AckContract, LoopQuietContract, DeliverContract DEF Loop
<1>4. CASE LoopFault
  <2>1. UNCHANGED <<consVars, rbatch>>
    BY <1>4 DEF LoopFault
  <2>. QED  BY <1>4, <2>1, LoopQuietContract DEF LoopFault
<1>5. CASE Consume
  <2>1. UNCHANGED mainVars /\ proc = "up" /\ rbatch' = rbatch
    BY <1>5 DEF Consume, mainVars
  <2>. QED  BY <1>5, <2>1, CRecvContract, ConsumerQuietContract, CInsertContract, CAckContract
            DEF Consume
<1>6. CASE ConsumeFault
  <2>1. rbatch' = rbatch
    BY <1>6 DEF ConsumeFault
  <2>. QED  BY <1>6, <2>1, CInsertContract, TickContract DEF ConsumeFault
<1>7. CASE TickSync
  <2>1. rbatch' = rbatch
    BY <1>7 DEF TickSync
  <2>. QED  BY <1>7, <2>1, TickContract
<1>8. CASE SizeCap
  BY <1>8, SizeCapContract
<1>9. CASE Halt \/ Kill \/ ExitOne
  BY <1>9, DeathContract
<1>10. CASE PowerLoss
  BY <1>10, PowerLossContract
<1>11. CASE Signal \/ MainClose \/ MainReturn \/ Idle \/ UNCHANGED vars
  BY <1>11, MainQuietContract DEF Idle
<1>. QED  BY <1>1, <1>2, <1>3, <1>4, <1>5, <1>6, <1>7, <1>8, <1>9, <1>10, <1>11 DEF Next

(* An empty log promises nothing. *)
LEMMA InitContract == Init => Contract!Init /\ SourceInv
<1>. SUFFICES ASSUME Init PROVE Contract!Init /\ SourceInv
  OBVIOUS
<1>1. /\ hist = <<>> /\ first = 1 /\ corrupt = {} /\ evicted = {} /\ swallowed = {}
      /\ status = [e \in Events |-> "new"] /\ copies = [e \in Events |-> 0] /\ abandoned = {}
      /\ cbatch = <<>> /\ out = <<>> /\ toDeliver = <<>> /\ rbatch = <<>>
  BY DEF Init, WalInit, GroupInit, GroupFresh, ConsInit, ConsFresh
<1>2. Live = {}
  <2>1. Len(hist) = 0
    BY <1>1
  <2>2. LiveIdx = {}
    BY <1>1, <2>1 DEF LiveIdx, Last
  <2>. QED  BY <2>2 DEF Live
<1>3. Promised = {} /\ Stored = {} /\ Excused = {}
  BY <1>1 DEF Promised, Stored, Excused
<1>4. InFlight = {} /\ Range(rbatch) = {}
  BY <1>1, InFlightEvs, EvsEmpty
<1>. QED  BY <1>1, <1>2, <1>3, <1>4 DEF Contract!Init, SourceInv

(* The sources of what is in flight, as an invariant. *)
LEMMA SourceInvariance == Spec => [](IInv /\ SourceInv)
<1>1. Init => SourceInv
  BY InitContract
<1>2. IInv /\ SourceInv /\ [Next]_vars => SourceInv'
  BY NextContract
<1>. QED  BY <1>1, <1>2, Invariance, PTL DEF Spec

(* The ingest path implements its contract with the trackers: a 202 is     *)
(* given only for an event the log holds or the database has, and the log  *)
(* lets go of such an event only when it is stored or excused.             *)
THEOREM ContractRefined == Spec => ImplementsContract
<1>1. Init => Contract!Init
  BY InitContract
<1>2. IInv /\ SourceInv /\ [Next]_vars => [Contract!Next]_(Contract!dvars)
  BY NextContract DEF ContractStep
<1>. QED  BY <1>1, <1>2, SourceInvariance, PTL DEF Spec, ImplementsContract, Contract!Spec

---------------------------------------------------------------------------
(* The loop's timer. *)

(* timerActive and the timer agree through every step. *)
LEMMA TimerStep ==
  ASSUME IInv, TimerInv, [Next]_vars
  PROVE  TimerInv'
<1>. USE DEF TimerInv, NoStrandedBatch
<1>1. CASE UNCHANGED <<gpc, pending, timerActive, armed>>
  BY <1>1
<1>2. CASE LoopRecv
  BY <1>2, Zenon DEF LoopRecv, StartFlush, NoFlush
<1>3. CASE LoopTimer
  BY <1>3 DEF LoopTimer, StartFlush, NoFlush
<1>4. CASE LoopStop \/ AppendOk \/ AppendErr \/ SyncOk \/ SyncErr \/ AckBatch \/ FlushDone
  BY <1>4 DEF LoopStop, AppendOk, AppendErr, NextToAppend, SyncOk, SyncErr, AckBatch,
         FlushDone, StartFlush
<1>5. CASE Dead
  BY <1>5 DEF Dead, GroupReset
<1>. QED
  BY <1>1, <1>2, <1>3, <1>4, <1>5
     DEF Next, Boot, Replay, ReplayRead, ReplayInsertOk, ReplayInsertErr, ReplayDone, Callers,
         Submit, Reject, Cancel, Loop, Deliver, DeliverSkip, LoopFault, Consume, ConsumeFault,
         CRecv, CTick, CDrain, CSettle, CInsertOk, CInsertErr, CRetry, CRetryCancelled, CAck,
         CFinalSync, TickSync, SizeCap, Signal, CancelRun, MainClose, CloseSyncer, MainReturn,
         Halt, Kill, ExitOne, PowerLoss, Idle, vars, groupVars

(* The loop never sleeps on a batch without a timer to wake it. *)
THEOREM NoBatchStranded == Spec => []NoStrandedBatch
<1>1. Init => TimerInv
  BY DEF Init, GroupInit, GroupFresh, TimerInv, NoStrandedBatch
<1>2. IInv /\ TimerInv /\ [Next]_vars => TimerInv'
  BY TimerStep
<1>3. TimerInv => NoStrandedBatch
  BY DEF TimerInv
<1>. QED  BY <1>1, <1>2, <1>3, Invariance, PTL DEF Spec

---------------------------------------------------------------------------
(* The number of copies of an event. *)

(* The entries among the first n + 1. *)
LEMMA WrittenNext ==
  ASSUME NEW n \in Nat
  PROVE  /\ Written(n + 1) = Written(n) \cup {hist[n + 1]}
         /\ WrittenOnce /\ n + 1 <= Last /\ Last \in Nat => hist[n + 1] \notin Written(n)
<1>1. 1..(n + 1) = 1..n \cup {n + 1}
  OBVIOUS
<1>2. Written(n + 1) = Written(n) \cup {hist[n + 1]}
  BY <1>1 DEF Written
<1>3. ASSUME WrittenOnce, n + 1 <= Last, Last \in Nat PROVE hist[n + 1] \notin Written(n)
  <2>1. \A i \in 1..n : i \in 1..Last /\ n + 1 \in 1..Last /\ i # n + 1
    BY <1>3
  <2>2. \A i \in 1..n : hist[i] # hist[n + 1]
    BY <1>3, <2>1 DEF WrittenOnce
  <2>. QED  BY <2>2 DEF Written
<1>. QED  BY <1>2, <1>3

(* Steps that leave the log and the requests alone. *)
LEMMA WrittenOnceSame ==
  ASSUME IInv, WrittenOnce, UNCHANGED <<hist, incoming, pending, pos>>,
         gpc' \in {"select", "append"} => gpc \in {"select", "append"}
  PROVE  WrittenOnce'
  BY DEF WrittenOnce, Last, Written

(* An event not sent yet is not in the log: the request is a new one. *)
LEMMA SubmitOnce ==
  ASSUME IInv, WrittenOnce, NEW e \in Events, Submit(e)
  PROVE  WrittenOnce'
<1>. USE DEF IInv, TypeOK, GroupTypeOK
<1>1. UNCHANGED <<hist, pending, pos, gpc>> /\ incoming' = Append(incoming, e) /\ status[e] = "new"
  BY DEF Submit, walVars
<1>2. e \notin Written(Last)
  BY <1>1 DEF LoggedStatus, Written
<1>3. /\ Len(incoming) \in Nat /\ Len(incoming') = Len(incoming) + 1
      /\ \A k \in 1..Len(incoming) : incoming'[k] = incoming[k]
      /\ incoming'[Len(incoming) + 1] = e
  BY <1>1, AppendFacts
<1>4. ASSUME NEW k \in 1..Len(incoming') PROVE incoming'[k] \notin Written(Last)
  <2>1. k \in 1..Len(incoming) \/ k = Len(incoming) + 1
    BY <1>3
  <2>. QED  BY <1>2, <1>3, <2>1 DEF WrittenOnce
<1>5. Written(Last)' = Written(Last) /\ Last' = Last
  BY <1>1 DEF Written, Last
<1>. QED  BY <1>1, <1>4, <1>5 DEF WrittenOnce

(* The loop takes a request over: it is not in the batch yet. *)
LEMMA LoopRecvOnce ==
  ASSUME IInv, WrittenOnce, LoopRecv
  PROVE  WrittenOnce'
<1>. USE DEF IInv, TypeOK, GroupTypeOK
<1>1. /\ UNCHANGED <<hist, pos>> /\ gpc = "select" /\ incoming # <<>>
      /\ pending' = Append(pending, Head(incoming)) /\ incoming' = Tail(incoming)
  BY DEF LoopRecv, walVars
<1>2. /\ Len(incoming) \in Nat /\ Len(incoming) >= 1 /\ Head(incoming) = incoming[1]
      /\ Head(incoming) \in Events /\ Len(incoming') = Len(incoming) - 1
      /\ \A k \in 1..(Len(incoming) - 1) : incoming'[k] = incoming[k + 1]
  BY <1>1, TailFacts
<1>3. /\ Len(pending) \in Nat /\ Len(pending') = Len(pending) + 1
      /\ \A k \in 1..Len(pending) : pending'[k] = pending[k]
      /\ pending'[Len(pending) + 1] = incoming[1]
  BY <1>1, <1>2, AppendFacts
<1>4. 1 \in 1..Len(incoming)
  BY <1>2
<1>5. incoming[1] \notin Written(Last) /\ \A k \in 1..Len(pending) : pending[k] # incoming[1]
  BY <1>4 DEF WrittenOnce, QueuedOnce
<1>6. ASSUME NEW k \in 1..Len(incoming') PROVE incoming'[k] \notin Written(Last)
  <2>1. k \in 1..(Len(incoming) - 1) /\ k + 1 \in 1..Len(incoming)
    BY <1>2
  <2>. QED  BY <1>2, <2>1 DEF WrittenOnce
<1>7. ASSUME NEW j \in 1..Len(pending'), NEW k \in 1..Len(pending'), pending'[j] = pending'[k]
      PROVE  j = k
  <2>1. (j \in 1..Len(pending) \/ j = Len(pending) + 1) /\ (k \in 1..Len(pending) \/ k = Len(pending) + 1)
    BY <1>3
  <2>. QED  BY <1>3, <1>5, <1>7, <2>1 DEF WrittenOnce
<1>8. ASSUME NEW k \in 1..Len(pending') PROVE pending'[k] \notin Written(Last)
  <2>1. k \in 1..Len(pending) \/ k = Len(pending) + 1
    BY <1>3
  <2>2. pos = 1
    BY <1>1 DEF FlushShape
  <2>. QED  BY <1>1, <1>3, <1>5, <2>1, <2>2 DEF WrittenOnce
<1>9. Written(Last)' = Written(Last) /\ Last' = Last
  BY <1>1 DEF Written, Last
<1>. QED  BY <1>1, <1>6, <1>7, <1>8, <1>9 DEF WrittenOnce

(* The loop appends the next request of its batch: no request that is      *)
(* still to come is the same event.                                        *)
LEMMA AppendOnce ==
  ASSUME IInv, WrittenOnce, AppendOk
  PROVE  WrittenOnce'
<1>. USE DEF IInv, TypeOK, GroupTypeOK
<1>1. /\ UNCHANGED <<incoming, pending>> /\ gpc = "append" /\ pos' = pos + 1
      /\ hist' = Append(hist, pending[pos])
  BY DEF AppendOk, WalAppend, NextToAppend
<1>2. pos \in 1..Len(pending) /\ pending[pos] \in Events /\ Len(pending) \in Nat
  BY <1>1 DEF FlushShape
<1>3. /\ Last \in Nat /\ Last' = Last + 1 /\ hist'[Last + 1] = pending[pos]
      /\ \A i \in 1..Last : hist'[i] = hist[i]
  BY <1>1, <1>2, AppendFacts DEF WalTypeOK, Last
<1>4. pending[pos] \notin Written(Last)
  BY <1>1, <1>2 DEF WrittenOnce
<1>5. Written(Last)' = Written(Last) \cup {pending[pos]}
  <2>1. 1..(Last + 1) = 1..Last \cup {Last + 1}
    BY <1>3
  <2>2. {hist'[i] : i \in 1..(Last + 1)} = {hist'[i] : i \in 1..Last} \cup {hist'[Last + 1]}
    BY <2>1, Zenon
  <2>3. {hist'[i] : i \in 1..Last} = {hist[i] : i \in 1..Last}
    BY <1>3, Zenon
  <2>4. Written(Last)' = {hist'[i] : i \in 1..(Last + 1)}
    BY <1>3, Zenon DEF Written
  <2>. QED  BY <1>3, <2>2, <2>3, <2>4, Zenon DEF Written
<1>6. ASSUME NEW i \in 1..(Last + 1), NEW j \in 1..(Last + 1), hist'[i] = hist'[j] PROVE i = j
  <2>1. (i \in 1..Last \/ i = Last + 1) /\ (j \in 1..Last \/ j = Last + 1)
    BY <1>3
  <2>2. \A k \in 1..Last : hist[k] # pending[pos]
    BY <1>4 DEF Written
  <2>. QED  BY <1>3, <1>6, <2>1, <2>2 DEF WrittenOnce
<1>7. \A k \in 1..Len(incoming) : incoming[k] \notin Written(Last)'
  BY <1>2, <1>5 DEF WrittenOnce, QueuedOnce
<1>8. ASSUME NEW k \in 1..Len(pending), k >= pos + 1 PROVE pending[k] \notin Written(Last)'
  <2>1. k # pos /\ k >= pos
    BY <1>2, <1>8
  <2>2. pending[k] # pending[pos]
    BY <1>2, <2>1 DEF WrittenOnce
  <2>. QED  BY <1>1, <1>5, <2>1, <2>2 DEF WrittenOnce
<1>. QED  BY <1>1, <1>3, <1>6, <1>7, <1>8 DEF WrittenOnce

(* The rest of the loop. *)
LEMMA LoopOnce ==
  ASSUME IInv, WrittenOnce, AppendErr \/ LoopTimer \/ LoopStop \/ FlushDone
  PROVE  WrittenOnce'
<1>. USE DEF IInv, TypeOK, GroupTypeOK
<1>1. UNCHANGED <<hist, incoming>>
  BY DEF AppendErr, LoopTimer, LoopStop, FlushDone, walVars
<1>2. Written(Last)' = Written(Last) /\ Last' = Last
  BY <1>1 DEF Written, Last
<1>3. CASE AppendErr
  <2>1. pending' = pending /\ pos' = pos + 1 /\ gpc = "append" /\ pos \in Nat
    BY <1>3 DEF AppendErr, NextToAppend
  <2>2. \A k \in 1..Len(pending) : k >= pos + 1 => k >= pos
    BY <2>1
  <2>3. \A k \in 1..Len(pending) : k >= pos + 1 => pending[k] \notin Written(Last)
    BY <2>1, <2>2 DEF WrittenOnce
  <2>4. (\A i, j \in 1..Last : hist[i] = hist[j] => i = j)'
    BY <1>1, <1>2 DEF WrittenOnce
  <2>5. (\A k \in 1..Len(incoming) : incoming[k] \notin Written(Last))'
    BY <1>1, <1>2 DEF WrittenOnce
  <2>6. (\A j, k \in 1..Len(pending) : pending[j] = pending[k] => j = k)'
    BY <2>1 DEF WrittenOnce
  <2>7. (\A k \in 1..Len(pending) : k >= pos => pending[k] \notin Written(Last))'
    BY <1>2, <2>1, <2>3
  <2>. QED  BY <2>4, <2>5, <2>6, <2>7, Zenon DEF WrittenOnce
<1>4. CASE LoopTimer \/ LoopStop
  <2>1. UNCHANGED <<pending, pos>> /\ gpc = "select"
    BY <1>4 DEF LoopTimer, LoopStop
  <2>. QED  BY <1>1, <2>1, WrittenOnceSame
<1>5. CASE FlushDone
  <2>1. pending' = <<>> /\ Len(pending') = 0
    BY <1>5, EmptySeq DEF FlushDone
  <2>2. 1..Len(pending') = {}
    BY <2>1
  <2>3. (\A i, j \in 1..Last : hist[i] = hist[j] => i = j)'
    BY <1>1, <1>2 DEF WrittenOnce
  <2>4. (\A k \in 1..Len(incoming) : incoming[k] \notin Written(Last))'
    BY <1>1, <1>2 DEF WrittenOnce
  <2>5. \A k \in 1..Len(pending') : FALSE
    BY <2>2
  <2>. QED  BY <2>3, <2>4, <2>5, Zenon DEF WrittenOnce
<1>. QED  BY <1>3, <1>4, <1>5

(* The end of the process. *)
LEMMA DeadOnce ==
  ASSUME IInv, WrittenOnce, Dead, NEW n \in Nat, n <= Last, Last' = n,
         \A i \in 1..n : hist'[i] = hist[i]
  PROVE  WrittenOnce'
<1>1. incoming' = <<>> /\ pending' = <<>> /\ Len(incoming') = 0 /\ Len(pending') = 0
  BY EmptySeq DEF Dead, GroupReset
<1>2. \A i \in 1..n : i \in 1..Last
  BY DEF IInv, TypeOK, WalTypeOK, Last
<1>. QED  BY <1>1, <1>2 DEF WrittenOnce

(* Every step keeps the log free of duplicates. *)
LEMMA WrittenOnceStep ==
  ASSUME IInv, WrittenOnce, [Next]_vars
  PROVE  WrittenOnce'
<1>1. CASE /\ UNCHANGED <<hist, incoming, pending, pos>>
           /\ gpc' \in {"select", "append"} => gpc \in {"select", "append"}
  BY <1>1, WrittenOnceSame
<1>2. CASE Boot \/ Replay \/ Consume \/ ConsumeFault \/ TickSync \/ SizeCap \/ Signal
           \/ MainClose \/ MainReturn \/ Idle \/ UNCHANGED vars
  <2>1. hist' = hist
    BY <1>2 DEF Boot, Replay, ReplayRead, ReplayInsertOk, ReplayInsertErr, ReplayDone, WalAck,
           Consume, ConsumeFault, CRecv, CTick, CDrain, CSettle, CInsertOk, CInsertErr, CRetry,
           CRetryCancelled, CAck, CFinalSync, FsyncOk, FsyncFailIgnored, TickSync, SizeCap,
           SizeCapMeasure, SizeCapTruncate, Signal, CancelRun, MainClose, CloseSyncer,
           MainReturn, Idle, vars, walVars
  <2>2. UNCHANGED <<incoming, pending, pos, gpc>>
    BY <1>2 DEF Boot, Replay, ReplayRead, ReplayInsertOk, ReplayInsertErr, ReplayDone,
           Consume, ConsumeFault, CRecv, CTick, CDrain, CSettle, CInsertOk, CInsertErr, CRetry,
           CRetryCancelled, CAck, CFinalSync, TickSync, SizeCap, Signal, CancelRun, MainClose,
           CloseSyncer, MainReturn, Idle, vars, groupVars
  <2>. QED  BY <1>1, <2>1, <2>2
<1>3. CASE Callers
  <2>1. PICK e \in Events : Submit(e) \/ Reject(e) \/ Cancel(e)
    BY <1>3 DEF Callers
  <2>. QED  BY <1>1, <2>1, SubmitOnce DEF Reject, Cancel, walVars
<1>4. CASE Loop \/ LoopFault
  <2>1. CASE SyncOk \/ SyncErr \/ AckBatch \/ Deliver \/ DeliverSkip
    <3>1. UNCHANGED <<hist, incoming, pending, pos>> /\ (gpc' = gpc \/ gpc' \in {"ack", "fatal", "deliver"})
      BY <2>1 DEF SyncOk, FsyncOk, SyncErr, FsyncFailFatal, AckBatch, Deliver, DeliverSkip, walVars
    <3>. QED  BY <1>1, <3>1
  <2>. QED  BY <1>4, <2>1, LoopRecvOnce, AppendOnce, LoopOnce DEF Loop, LoopFault
<1>5. CASE Halt \/ Kill \/ ExitOne
  <2>1. Dead /\ hist' = hist
    BY <1>5 DEF Halt, Kill, ExitOne, FsyncOk, FsyncFailIgnored, WalProcessDeath
  <2>2. Last \in Nat /\ Last' = Last
    BY <2>1 DEF IInv, TypeOK, WalTypeOK, Last
  <2>. QED  BY <2>1, <2>2, DeadOnce
<1>6. CASE PowerLoss
  <2>1. Dead
    BY <1>6 DEF PowerLoss
  <2>2. PICK p \in (first - 1)..Last : hist' = SubSeq(hist, 1, p)
    BY <1>6 DEF PowerLoss, WalPowerLoss
  <2>3. p \in Nat /\ p <= Last /\ p \in 0..Len(hist) /\ hist \in Seq(Events)
    BY <2>2 DEF IInv, TypeOK, WalTypeOK, Last
  <2>4. Last' = p /\ \A i \in 1..p : hist'[i] = hist[i]
    BY <2>2, <2>3, PrefixFacts DEF Last
  <2>. QED  BY <2>1, <2>3, <2>4, DeadOnce
<1>. QED  BY <1>2, <1>3, <1>4, <1>5, <1>6 DEF Next

(* The batches under way come from the entries read so far. *)
BatchesRead ==
    /\ proc = "replay" => Range(rbatch) \subseteq Written(rpos - 1)
    /\ proc = "up" /\ ~stopped => Range(cbatch) \subseteq Written(Recv)

(* A step that inserts nothing and makes nothing due. *)
LEMMA CopiesKept ==
  ASSUME IInv, CopiesInv, BatchesRead', UNCHANGED <<copies, starts, unsure>>,
         \A e \in Events : Due(e)' => Due(e)
  PROVE  CopiesInv'
  BY DEF CopiesInv, BatchesRead

(* A batch is inserted and reported as inserted: its events were due, and  *)
(* are not any more.                                                       *)
LEMMA CopiesCommitted ==
  ASSUME IInv, CopiesInv, BatchesRead', UNCHANGED <<starts, unsure>>, NEW q \in Seq(Events),
         Commit(q), \A e \in Range(q) : Due(e),
         \A e \in Events : Due(e)' => Due(e) /\ e \notin Range(q)
  PROVE  CopiesInv'
<1>1. /\ \A e \in Events : copies'[e] = copies[e] + (IF e \in Range(q) THEN 1 ELSE 0)
      /\ copies \in [Events -> Nat] /\ starts \in Nat /\ unsure \in Nat
  BY DEF Commit, IInv, TypeOK, ConsTypeOK, MainTypeOK
<1>2. ASSUME NEW e \in Events
      PROVE  copies'[e] <= starts' + unsure' /\ (Due(e)' => copies'[e] < starts' + unsure')
  <2>1. CASE e \in Range(q)
    <3>1. copies'[e] = copies[e] + 1 /\ copies[e] \in Nat /\ ~Due(e)'
      BY <1>1, <2>1
    <3>2. copies[e] < starts + unsure
      BY <2>1 DEF CopiesInv
    <3>. QED  BY <1>1, <3>1, <3>2
  <2>2. CASE e \notin Range(q)
    <3>1. copies'[e] = copies[e] /\ copies[e] \in Nat
      BY <1>1, <2>2
    <3>. QED  BY <1>1, <3>1 DEF CopiesInv
  <2>. QED  BY <2>1, <2>2
<1>. QED  BY <1>2 DEF CopiesInv, BatchesRead

(* A batch is inserted and reported as failed. *)
LEMMA CopiesUnsure ==
  ASSUME IInv, CopiesInv, BatchesRead', starts' = starts, unsure' = unsure + 1,
         NEW q \in Seq(Events), Commit(q), \A e \in Events : Due(e)' => Due(e)
  PROVE  CopiesInv'
<1>1. /\ \A e \in Events : copies'[e] = copies[e] + (IF e \in Range(q) THEN 1 ELSE 0)
      /\ copies \in [Events -> Nat] /\ starts \in Nat /\ unsure \in Nat
  BY DEF Commit, IInv, TypeOK, ConsTypeOK, MainTypeOK
<1>2. ASSUME NEW e \in Events
      PROVE  copies'[e] <= starts' + unsure' /\ (Due(e)' => copies'[e] < starts' + unsure')
  <2>1. copies'[e] \in {copies[e], copies[e] + 1} /\ copies[e] \in Nat
    BY <1>1
  <2>2. copies[e] <= starts + unsure /\ (Due(e)' => copies[e] < starts + unsure)
    BY DEF CopiesInv
  <2>. QED  BY <1>1, <2>1, <2>2
<1>. QED  BY <1>2 DEF CopiesInv, BatchesRead

(* What is due depends on the log read so far and on the batches. *)
LEMMA DueSame ==
  ASSUME UNCHANGED <<hist, proc, stopped, lastIdx, snap, rpos, rbatch>>,
         Range(cbatch') \subseteq Range(cbatch), cpc = "ack" => cpc' = "ack" \/ cbatch' = <<>>
  PROVE  \A e \in Events : Due(e)' => Due(e)
<1>1. Written(Recv)' = Written(Recv) /\ Written(rpos - 1)' = Written(rpos - 1)
  BY DEF Written, Recv
<1>2. Range(rbatch)' = Range(rbatch) /\ Range(cbatch)' = Range(cbatch')
  BY DEF Range
<1>3. cbatch' = <<>> => Range(cbatch)' = {}
  BY <1>2, EvsEmpty
<1>. QED  BY <1>1, <1>2, <1>3 DEF Due

(* ... and so do the batches. *)
LEMMA BatchesSame ==
  ASSUME BatchesRead, UNCHANGED <<hist, proc, stopped, lastIdx, snap, rpos>>,
         Range(cbatch') \subseteq Range(cbatch), Range(rbatch') \subseteq Range(rbatch)
  PROVE  BatchesRead'
<1>1. Written(Recv)' = Written(Recv) /\ Written(rpos - 1)' = Written(rpos - 1)
  BY DEF Written, Recv
<1>2. Range(rbatch)' = Range(rbatch') /\ Range(cbatch)' = Range(cbatch')
  BY DEF Range
<1>. QED  BY <1>1, <1>2 DEF BatchesRead

(* Steps that neither read the log nor insert. *)
LEMMA CopiesQuiet ==
  ASSUME IInv, CopiesInv,
         UNCHANGED <<hist, proc, stopped, lastIdx, snap, rpos, rbatch, copies, starts, unsure>>,
         cbatch' = cbatch \/ cbatch' = <<>>, cpc = "ack" => cpc' = "ack" \/ cbatch' = <<>>
  PROVE  CopiesInv'
<1>1. Range(cbatch') \subseteq Range(cbatch)
  BY EvsEmpty
<1>2. BatchesRead
  BY DEF CopiesInv, BatchesRead
<1>3. BatchesRead'
  BY <1>1, <1>2, BatchesSame
<1>4. \A e \in Events : Due(e)' => Due(e)
  BY <1>1, DueSame
<1>. QED  BY <1>3, <1>4, CopiesKept

(* Steps after which nothing is inserted any more. *)
LEMMA CopiesStopped ==
  ASSUME IInv, CopiesInv, UNCHANGED <<copies, starts, unsure>>,
         proc' # "replay", proc' = "up" => stopped'
  PROVE  CopiesInv'
<1>1. BatchesRead' /\ \A e \in Events : Due(e)' => Due(e)
  BY DEF BatchesRead, Due
<1>. QED  BY <1>1, CopiesKept

(* A new start may insert every event once more. *)
LEMMA BootCopies ==
  ASSUME IInv, CopiesInv, Boot
  PROVE  CopiesInv'
<1>1. /\ copies' = copies /\ starts' = starts + 1 /\ unsure' = unsure
      /\ proc' = "replay" /\ rbatch' = <<>>
  BY DEF Boot, consVars
<1>2. copies \in [Events -> Nat] /\ starts \in Nat /\ unsure \in Nat
  BY DEF IInv, TypeOK, ConsTypeOK, MainTypeOK
<1>3. BatchesRead'
  <2>1. Range(rbatch)' = {}
    BY <1>1, EvsEmpty DEF Range
  <2>. QED  BY <1>1, <2>1 DEF BatchesRead
<1>4. ASSUME NEW e \in Events PROVE copies'[e] < starts' + unsure'
  BY <1>1, <1>2 DEF CopiesInv
<1>5. \A e \in Events : copies'[e] <= starts' + unsure'
  BY <1>1, <1>2, <1>4
<1>. QED  BY <1>3, <1>4, <1>5 DEF CopiesInv, BatchesRead

(* The replay reads the next entry, an event it has not read before. *)
LEMMA ReplayReadCopies ==
  ASSUME IInv, WrittenOnce, CopiesInv, ReplayRead
  PROVE  CopiesInv'
<1>. USE DEF IInv, TypeOK
<1>1. /\ UNCHANGED <<hist, copies, starts, unsure, proc>>
      /\ proc = "replay" /\ rpos <= snap /\ rpos' = rpos + 1
      /\ rbatch' = rbatch \/ rbatch' = Append(rbatch, hist[rpos])
  BY DEF ReplayRead, walVars, consVars
<1>2. /\ rpos \in Nat \ {0} /\ snap = Last /\ Last \in Nat /\ hist \in Seq(Events)
      /\ rbatch \in Seq(Events)
  BY <1>1 DEF MainTypeOK, WalTypeOK, ReplayProgress, Last
<1>3. rpos - 1 \in Nat /\ (rpos - 1) + 1 = rpos /\ rpos \in 1..Len(hist) /\ rpos' - 1 = rpos
  BY <1>1, <1>2 DEF Last
<1>4. hist[rpos] \in Events
  BY <1>2, <1>3
<1>5. Written(rpos) = Written(rpos - 1) \cup {hist[rpos]}
  <2>1. PICK n \in Nat : n = rpos - 1
    BY <1>3
  <2>2. Written(n + 1) = Written(n) \cup {hist[n + 1]}
    BY WrittenNext
  <2>. QED  BY <1>3, <2>1, <2>2
<1>6. hist[rpos] \notin Written(rpos - 1)
  <2>1. PICK n \in Nat : n = rpos - 1
    BY <1>3
  <2>2. n + 1 <= Last
    BY <1>1, <1>2, <2>1
  <2>3. hist[n + 1] \notin Written(n)
    BY <1>2, <2>2, WrittenNext
  <2>. QED  BY <1>3, <2>1, <2>3
<1>7. Range(rbatch') \subseteq Range(rbatch) \cup {hist[rpos]}
  <2>1. Range(Append(rbatch, hist[rpos])) = Range(rbatch) \cup {hist[rpos]}
    BY <1>2, <1>4, RangeAppend
  <2>2. CASE rbatch' = rbatch
    BY <2>2, Zenon
  <2>3. CASE rbatch' = Append(rbatch, hist[rpos])
    BY <2>1, <2>3, Zenon
  <2>. QED  BY <1>1, <2>2, <2>3
<1>8. Written(rpos - 1)' = Written(rpos) /\ Range(rbatch)' = Range(rbatch')
  <2>1. hist' = hist /\ rpos' - 1 = rpos
    BY <1>1, <1>3
  <2>2. Written(rpos - 1)' = {hist'[i] : i \in 1..(rpos' - 1)}
    BY Zenon DEF Written
  <2>3. Range(rbatch)' = Range(rbatch')
    BY Zenon DEF Range
  <2>. QED  BY <2>1, <2>2, <2>3, Zenon DEF Written
<1>9. Range(rbatch) \subseteq Written(rpos - 1)
  BY <1>1 DEF CopiesInv
<1>10. BatchesRead'
  BY <1>1, <1>5, <1>7, <1>8, <1>9 DEF BatchesRead
<1>11. \A e \in Events : Due(e)' => Due(e)
  BY <1>1, <1>5, <1>6, <1>7, <1>8 DEF Due
<1>. QED  BY <1>1, <1>10, <1>11, CopiesKept

(* The replay inserts. *)
LEMMA ReplayInsertCopies ==
  ASSUME IInv, CopiesInv, ReplayInsertOk \/ \E c \in BOOLEAN : ReplayInsertErr(c)
  PROVE  CopiesInv'
<1>1. /\ UNCHANGED <<hist, stopped, lastIdx, snap, rpos, starts, cbatch, cpc>>
      /\ proc = "replay" /\ rbatch \in Seq(Events)
  BY DEF ReplayInsertOk, ReplayInsertErr, walVars, groupVars, IInv, TypeOK, MainTypeOK
<1>2. BatchesRead /\ Range(rbatch) \subseteq Written(rpos - 1)
  BY <1>1 DEF CopiesInv, BatchesRead
<1>3. \A e \in Range(rbatch) : Due(e)
  BY <1>1 DEF Due
<1>4. CASE ReplayInsertOk
  <2>1. Commit(rbatch) /\ rbatch' = <<>> /\ UNCHANGED <<proc, unsure>>
    BY <1>4 DEF ReplayInsertOk
  <2>2. Range(rbatch') = {} /\ Range(rbatch)' = {}
    BY <2>1, EvsEmpty DEF Range
  <2>3. BatchesRead'
    BY <1>1, <1>2, <2>1, <2>2, BatchesSame
  <2>4. Written(rpos - 1)' = Written(rpos - 1)
    BY <1>1 DEF Written
  <2>5. \A e \in Events : Due(e)' => Due(e) /\ e \notin Range(rbatch)
    BY <1>1, <1>2, <2>1, <2>2, <2>4 DEF Due
  <2>. QED  BY <1>1, <1>3, <2>1, <2>3, <2>5, CopiesCommitted
<1>5. ASSUME NEW c \in BOOLEAN, ReplayInsertErr(c) PROVE CopiesInv'
  <2>1. rbatch' = rbatch /\ proc' \in {"replay", "halt"}
    BY <1>5 DEF ReplayInsertErr
  <2>2. \/ Commit(rbatch) /\ unsure' = unsure + 1
        \/ UNCHANGED <<copies, unsure>>
    BY <1>5 DEF ReplayInsertErr
  <2>3. Written(rpos - 1)' = Written(rpos - 1) /\ Range(rbatch)' = Range(rbatch)
    BY <1>1, <2>1 DEF Written, Range
  <2>4. BatchesRead' /\ \A e \in Events : Due(e)' => Due(e)
    BY <1>1, <1>2, <2>1, <2>3 DEF BatchesRead, Due
  <2>. QED  BY <1>1, <2>2, <2>4, CopiesKept, CopiesUnsure
<1>. QED  BY <1>4, <1>5

(* The replay ends: the consumer starts after the last entry read. *)
LEMMA ReplayDoneCopies ==
  ASSUME IInv, CopiesInv, ReplayDone
  PROVE  CopiesInv'
<1>. USE DEF IInv, TypeOK
<1>1. /\ UNCHANGED <<hist, stopped, lastIdx, snap, rpos, starts, cbatch, cpc, copies, unsure>>
      /\ proc = "replay" /\ rpos > snap /\ proc' \in {"up", "halt"}
  BY DEF ReplayDone, WalAck, walVars, groupVars, consVars
<1>2. cbatch = <<>> /\ lastIdx = 0 /\ rpos <= snap + 1 /\ rpos \in Nat /\ snap \in Nat
  BY <1>1 DEF IdleBeforeUp, ReplayProgress, MainTypeOK
<1>3. rpos - 1 = snap
  BY <1>1, <1>2
<1>4. Written(Recv)' = Written(rpos - 1) /\ Range(cbatch)' = {}
  BY <1>1, <1>2, <1>3, EvsEmpty DEF Written, Recv, Range
<1>5. BatchesRead' /\ \A e \in Events : Due(e)' => Due(e)
  BY <1>1, <1>4 DEF BatchesRead, Due
<1>. QED  BY <1>1, <1>5, CopiesKept

(* The log grows: what the consumer has read of it stays what it was. *)
LEMMA AppendCopies ==
  ASSUME IInv, CopiesInv, proc = "up", AppendOk, UNCHANGED <<consVars, mainVars>>
  PROVE  CopiesInv'
<1>. USE DEF IInv, TypeOK, GroupTypeOK
<1>1. /\ UNCHANGED <<proc, stopped, lastIdx, snap, starts, cbatch, cpc, copies, unsure>>
      /\ hist' = Append(hist, pending[pos]) /\ gpc = "append"
  BY DEF AppendOk, WalAppend, consVars, mainVars
<1>2. pending[pos] \in Events
  BY <1>1 DEF FlushShape
<1>3. \A i \in 1..Last : hist'[i] = hist[i]
  BY <1>1, <1>2, AppendFacts DEF WalTypeOK, Last
<1>4. ASSUME ~stopped PROVE Written(Recv)' = Written(Recv)
  <2>1. Recv \in Nat /\ Last \in Nat /\ Len(out) \in Nat /\ Len(toDeliver) \in Nat
    BY DEF Recv, ConsTypeOK, MainTypeOK, Last, WalTypeOK
  <2>2. Recv + Len(out) + Len(toDeliver) = Last
    BY <1>4 DEF PipeInOrder
  <2>3. Recv <= Last
    BY <2>1, <2>2
  <2>4. \A i \in 1..Recv : hist'[i] = hist[i]
    BY <1>3, <2>1, <2>3
  <2>5. Recv' = Recv
    BY <1>1 DEF Recv
  <2>. QED  BY <2>4, <2>5 DEF Written
<1>5. Range(cbatch)' = Range(cbatch)
  BY <1>1 DEF Range
<1>6. BatchesRead' /\ \A e \in Events : Due(e)' => Due(e)
  BY <1>1, <1>4, <1>5 DEF BatchesRead, Due, CopiesInv
<1>. QED  BY <1>1, <1>6, CopiesKept

(* The consumer receives the next entry of the log, an event it has not    *)
(* received before.                                                        *)
LEMMA CRecvCopies ==
  ASSUME IInv, WrittenOnce, CopiesInv, proc = "up", CRecv, UNCHANGED mainVars
  PROVE  CopiesInv'
<1>. USE DEF IInv, TypeOK
<1>1. /\ UNCHANGED <<hist, proc, stopped, snap, starts, copies, unsure>>
      /\ cpc = "select" /\ cpc' # "ack" /\ out # <<>>
      /\ cbatch' = Append(cbatch, Head(out).ev) /\ lastIdx' = Head(out).idx
  BY DEF CRecv, walVars, mainVars
<1>2. /\ ~stopped /\ Recv \in Nat /\ Last \in Nat /\ out \in Seq(Envelope)
      /\ Len(toDeliver) \in Nat /\ cbatch \in Seq(Events)
  BY <1>1 DEF StopOrder, Recv, ConsTypeOK, MainTypeOK, Last, WalTypeOK, GroupTypeOK
<1>3. Feeds(out, hist, Recv) /\ Recv + Len(out) + Len(toDeliver) = Last
  BY <1>2 DEF PipeInOrder
<1>4. Head(out).idx = Recv + 1 /\ Head(out).ev = hist[Recv + 1]
  BY <1>1, <1>2, <1>3, FeedsTail
<1>5. Len(out) \in Nat /\ Len(out) >= 1 /\ Head(out) \in Envelope
  BY <1>1, <1>2, TailFacts
<1>6. Recv + 1 <= Last /\ Recv' = Recv + 1
  BY <1>1, <1>2, <1>3, <1>4, <1>5 DEF Recv
<1>7. Head(out).ev \in Events
  BY <1>5 DEF Envelope
<1>8. Range(cbatch)' = Range(cbatch) \cup {hist[Recv + 1]}
  <2>1. Range(cbatch)' = Range(Append(cbatch, Head(out).ev))
    BY <1>1 DEF Range
  <2>. QED  BY <1>2, <1>4, <1>7, <2>1, RangeAppend
<1>9. Written(Recv)' = Written(Recv) \cup {hist[Recv + 1]} /\ hist[Recv + 1] \notin Written(Recv)
  <2>1. PICK n \in Nat : n = Recv
    BY <1>2
  <2>2. Written(n + 1) = Written(n) \cup {hist[n + 1]} /\ hist[n + 1] \notin Written(n)
    BY <1>2, <1>6, <2>1, WrittenNext
  <2>3. Written(Recv)' = Written(Recv + 1)
    BY <1>1, <1>6 DEF Written
  <2>. QED  BY <2>1, <2>2, <2>3
<1>10. Range(cbatch) \subseteq Written(Recv)
  BY <1>2 DEF CopiesInv
<1>11. BatchesRead'
  BY <1>1, <1>8, <1>9, <1>10 DEF BatchesRead
<1>12. \A e \in Events : Due(e)' => Due(e)
  BY <1>1, <1>2, <1>8, <1>9 DEF Due
<1>. QED  BY <1>1, <1>11, <1>12, CopiesKept

(* The consumer inserts. *)
LEMMA CInsertCopies ==
  ASSUME IInv, CopiesInv, proc = "up",
         UNCHANGED <<proc, snap, rpos, rbatch, starts>>,
         \/ CInsertOk /\ UNCHANGED unsure
         \/ CInsertErr(FALSE) /\ UNCHANGED unsure
         \/ CInsertErr(TRUE) /\ unsure' = unsure + 1
  PROVE  CopiesInv'
<1>1. /\ UNCHANGED <<hist, stopped, lastIdx>> /\ cpc = "insert"
      /\ cbatch' = cbatch \/ cbatch' = <<>>
  BY DEF CInsertOk, CInsertErr, GiveUp, walVars, groupVars
<1>2. ~stopped /\ cbatch \in Seq(Events)
  BY <1>1 DEF IInv, StopOrder, TypeOK, ConsTypeOK
<1>3. Range(cbatch') \subseteq Range(cbatch)
  BY <1>1, EvsEmpty
<1>4. BatchesRead /\ Range(cbatch) \subseteq Written(Recv)
  BY <1>2 DEF CopiesInv, BatchesRead
<1>5. BatchesRead'
  BY <1>1, <1>3, <1>4, BatchesSame
<1>6. \A e \in Events : Due(e)' => Due(e)
  BY <1>1, <1>3, DueSame
<1>7. CASE CInsertOk /\ UNCHANGED unsure
  <2>1. Commit(cbatch) /\ cpc' = "ack"
    BY <1>7 DEF CInsertOk
  <2>2. \A e \in Range(cbatch) : Due(e)
    BY <1>1, <1>2 DEF Due
  <2>3. Written(Recv)' = Written(Recv)
    BY <1>1 DEF Written, Recv
  <2>4. \A e \in Events : Due(e)' => e \notin Range(cbatch)
    BY <1>1, <1>4, <2>1, <2>3 DEF Due
  <2>. QED  BY <1>2, <1>5, <1>6, <1>7, <2>1, <2>2, <2>4, CopiesCommitted
<1>8. CASE CInsertErr(FALSE) /\ UNCHANGED unsure
  <2>1. copies' = copies
    BY <1>8 DEF CInsertErr
  <2>. QED  BY <1>5, <1>6, <1>8, <2>1, CopiesKept
<1>9. CASE CInsertErr(TRUE) /\ unsure' = unsure + 1
  <2>1. Commit(cbatch)
    BY <1>9 DEF CInsertErr
  <2>. QED  BY <1>2, <1>5, <1>6, <1>9, <2>1, CopiesUnsure
<1>. QED  BY <1>7, <1>8, <1>9

(* Every step. *)
LEMMA CopiesStep ==
  ASSUME IInv, WrittenOnce, CopiesInv, [Next]_vars
  PROVE  CopiesInv'
<1>1. CASE Boot \/ Replay
  BY <1>1, BootCopies, ReplayReadCopies, ReplayInsertCopies, ReplayDoneCopies DEF Replay
<1>2. CASE Callers
  <2>1. UNCHANGED <<hist, stopped>>
    BY <1>2 DEF Callers, Submit, Reject, Cancel, walVars
  <2>. QED  BY <1>2, <2>1, CopiesQuiet DEF Callers, consVars, mainVars
<1>3. CASE Loop \/ LoopFault
  <2>1. CASE Loop /\ AppendOk
    BY <2>1, AppendCopies DEF Loop
  <2>2. CASE \/ LoopRecv \/ LoopTimer \/ LoopStop \/ SyncOk \/ AckBatch
             \/ Deliver \/ DeliverSkip \/ FlushDone \/ AppendErr \/ SyncErr
    <3>1. UNCHANGED <<hist, stopped>>
      BY <2>2 DEF LoopRecv, LoopTimer, LoopStop, SyncOk, AckBatch, Deliver, DeliverSkip,
             FlushDone, AppendErr, SyncErr, FsyncOk, FsyncFailFatal, walVars
    <3>2. /\ UNCHANGED consVars
          /\ UNCHANGED <<proc, snap, rpos, rbatch, starts, unsure>>
      BY <1>3 DEF Loop, LoopFault, mainVars
    <3>. QED  BY <3>1, <3>2, CopiesQuiet DEF consVars
  <2>. QED  BY <1>3, <2>1, <2>2 DEF Loop, LoopFault
<1>4. CASE Consume \/ ConsumeFault
  <2>0. proc = "up" /\ UNCHANGED <<proc, snap, rpos, rbatch, starts>>
    BY <1>4 DEF Consume, ConsumeFault, mainVars
  <2>1. CASE Consume /\ CRecv
    BY <2>0, <2>1, CRecvCopies DEF Consume
  <2>2. CASE \/ Consume /\ CInsertOk
             \/ ConsumeFault /\ CInsertErr(FALSE) /\ UNCHANGED unsure
             \/ ConsumeFault /\ CInsertErr(TRUE) /\ unsure' = unsure + 1
    <3>1. \/ CInsertOk /\ UNCHANGED unsure
          \/ CInsertErr(FALSE) /\ UNCHANGED unsure
          \/ CInsertErr(TRUE) /\ unsure' = unsure + 1
      BY <2>2 DEF Consume, mainVars
    <3>. QED  BY <2>0, <3>1, CInsertCopies
  <2>3. CASE \/ CTick \/ CDrain \/ CSettle \/ CRetry \/ CRetryCancelled \/ CAck
             \/ (\E b \in BOOLEAN : CFinalSync(b))
    <3>1. CASE unsure' = unsure
      <4>1. /\ UNCHANGED <<hist, stopped, lastIdx, copies>>
            /\ cbatch' = cbatch \/ cbatch' = <<>>
            /\ cpc = "ack" => cbatch' = <<>>
        BY <2>3 DEF CTick, CDrain, CSettle, CRetry, CRetryCancelled, GiveUp, CAck, WalAck,
               CFinalSync, FsyncOk, FsyncFailIgnored, walVars, groupVars
      <4>. QED  BY <2>0, <3>1, <4>1, CopiesQuiet
    <3>2. CASE unsure' # unsure
      <4>1. CInsertErr(TRUE) /\ unsure' = unsure + 1
        BY <1>4, <3>2 DEF Consume, ConsumeFault, mainVars
      <4>. QED  BY <2>0, <4>1, CInsertCopies
    <3>. QED  BY <3>1, <3>2
  <2>. QED  BY <1>4, <2>1, <2>2, <2>3 DEF Consume, ConsumeFault
<1>5. CASE TickSync \/ SizeCap \/ Signal \/ Idle \/ UNCHANGED vars
  <2>1. hist' = hist
    BY <1>5 DEF TickSync, FsyncOk, FsyncFailIgnored, SizeCap, SizeCapMeasure, SizeCapTruncate,
           Signal, CancelRun, Idle, vars, walVars
  <2>2. UNCHANGED <<proc, stopped, lastIdx, snap, rpos, rbatch, copies, starts, unsure, cbatch, cpc>>
    BY <1>5 DEF TickSync, SizeCap, Signal, CancelRun, Idle, vars, groupVars, consVars, mainVars
  <2>. QED  BY <2>1, <2>2, CopiesQuiet
<1>6. CASE MainClose \/ MainReturn
  <2>1. /\ UNCHANGED <<copies, starts, unsure>>
        /\ proc' # "replay" /\ (proc' = "up" => stopped')
    BY <1>6 DEF MainClose, CloseSyncer, MainReturn, consVars, mainVars
  <2>. QED  BY <2>1, CopiesStopped
<1>7. CASE Halt \/ Kill \/ ExitOne \/ PowerLoss
  <2>1. Dead
    BY <1>7 DEF Halt, Kill, ExitOne, PowerLoss
  <2>. QED  BY <2>1, CopiesStopped DEF Dead, ConsReset
<1>. QED  BY <1>1, <1>2, <1>3, <1>4, <1>5, <1>6, <1>7 DEF Next

(* An event is inserted once per process start at most, plus once for each *)
(* insert that was committed and reported as failed.                       *)
THEOREM OncePerStart == Spec => []AtMostOncePerStart
<1>1. Init => OnceInv
  <2>. SUFFICES ASSUME Init PROVE OnceInv
    OBVIOUS
  <2>1. /\ hist = <<>> /\ incoming = <<>> /\ pending = <<>> /\ proc = "down"
        /\ copies = [e \in Events |-> 0] /\ starts = 0 /\ unsure = 0
    BY DEF Init, WalInit, GroupInit, GroupFresh, ConsInit
  <2>2. WrittenOnce
    <3>1. Len(hist) = 0 /\ Len(incoming) = 0 /\ Len(pending) = 0
      BY <2>1
    <3>. QED  BY <3>1 DEF WrittenOnce, Last
  <2>3. CopiesInv
    BY <2>1 DEF CopiesInv, Due
  <2>. QED  BY <2>2, <2>3 DEF OnceInv
<1>2. IInv /\ OnceInv /\ [Next]_vars => OnceInv'
  BY WrittenOnceStep, CopiesStep DEF OnceInv
<1>3. OnceInv => AtMostOncePerStart
  BY DEF OnceInv, CopiesInv, AtMostOncePerStart
<1>. QED  BY <1>1, <1>2, <1>3, Invariance, PTL DEF Spec
=============================================================================
