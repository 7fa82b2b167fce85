-------------------------- MODULE IngestInvariants --------------------------
(***************************************************************************)
(* The inductive invariant behind the safety properties of IngestPath.     *)
(* Each part says what one piece of the code relies on another for.        *)
(***************************************************************************)
EXTENDS IngestPath

(* The last index the consumer has taken over: before its first envelope,  *)
(* everything the replay has read.                                         *)
Recv == IF lastIdx = 0 THEN snap ELSE lastIdx

(* Before the process is up nothing is queued anywhere. *)
IdleBeforeUp ==
    proc \in {"down", "replay"} =>
        /\ incoming = <<>> /\ pending = <<>> /\ toDeliver = <<>> /\ out = <<>>
        /\ gpc = "select" /\ ~stopped
        /\ cbatch = <<>> /\ lastIdx = 0 /\ cpc = "select" /\ ~draining

(* The log is a segment of the entries ever written. *)
LogShape == first <= Last + 1

(* Where flush stands in its batch. *)
FlushShape ==
    /\ gpc \in {"append", "sync", "ack"} =>
          \A k \in 1..(pos - 1) :
             k <= Len(pending) => pending[k] \in failed \cup Live \cup Stored \cup Excused
    /\ gpc = "append" => pos <= Len(pending)
    /\ gpc \in {"sync", "ack"} => pos > Len(pending)
    /\ gpc = "select" => toDeliver = <<>> /\ pos = 1

(* A queued request was sent and not answered, and is queued once. *)
QueuedOnce ==
    /\ \A k \in 1..Len(incoming) : status[incoming[k]] \in {"wait", "gone"}
    /\ \A k \in 1..Len(pending) :
          /\ status[pending[k]] # "new"
          /\ gpc \in {"select", "append", "sync", "ack"} =>
                status[pending[k]] \in {"wait", "gone"}
    /\ \A j, k \in 1..Len(incoming) : incoming[j] = incoming[k] => j = k
    /\ \A j \in 1..Len(incoming), k \in 1..Len(pending) : incoming[j] # pending[k]

(* An entry of the log whose caller still waits is in the batch under way. *)
LoggedStatus ==
    \A i \in 1..Last :
        /\ status[hist[i]] # "new"
        /\ status[hist[i]] = "wait" =>
              gpc \in {"append", "sync", "ack"} /\ hist[i] \in Range(pending)

(* An entry that is, or is about to be, acknowledged is on disk, unless a  *)
(* failed fsync was ignored.                                               *)
DurableBeforeAck ==
    \A i \in LiveIdx :
        \/ status[hist[i]] = "ok"
        \/ gpc = "ack" /\ status[hist[i]] = "wait"
        => i \in disk \/ hist[i] \in swallowed

(* The pages a failed fsync dropped belong to nobody who was told 202. *)
ForgottenUnacked ==
    \A i \in LiveIdx \cap forgotten :
        hist[i] \in swallowed \/ status[hist[i]] \in {"err", "gone"}

(* Queue q carries the entries of log h that follow index b, in order. *)
Feeds(q, h, b) ==
    \A k \in 1..Len(q) : q[k].idx = b + k /\ q[k].ev = h[b + k]

(* What travels from the loop to the consumer is the tail of the log, in   *)
(* order and without a gap.                                                *)
PipeInOrder ==
    proc = "up" /\ ~stopped =>
        /\ Feeds(out, hist, Recv)
        /\ Feeds(toDeliver, hist, Recv + Len(out))
        /\ Recv + Len(out) + Len(toDeliver) = Last

(* The entries the consumer has taken over are settled or in its batch, as *)
(* long as it can still acknowledge the log.                               *)
Handled(i) == (i >= first \/ i > snap) /\ i \notin corrupt

ReceivedSettled ==
    proc = "up" /\ ~stopped /\ (ctxDone => cpc = "ack") =>
        \A i \in 1..Recv :
            Handled(i) => hist[i] \in Stored \cup abandoned \cup Range(cbatch)

(* A batch is acknowledged after it was inserted, and an index after it    *)
(* was received.                                                           *)
AckAfterInsert == cpc = "ack" => Range(cbatch) \subseteq Stored

(* The consumer stops first, the syncer after it. *)
StopOrder ==
    /\ stopped => cpc = "done"
    /\ draining => ctxDone
    /\ final => draining
    /\ cpc \in {"sync", "done"} => draining
    /\ gpc = "exit" \/ leaving => stopped

(* The entries the replay has passed are in ClickHouse or in its batch. *)
ReplayProgress ==
    proc = "replay" =>
        /\ snap = Last /\ rpos <= snap + 1
        /\ \A i \in first..(rpos - 1) : i \notin corrupt => hist[i] \in Stored \cup Range(rbatch)

IInv ==
    /\ TypeOK /\ IdleBeforeUp /\ LogShape /\ FlushShape /\ QueuedOnce
    /\ LoggedStatus /\ DurableBeforeAck /\ ForgottenUnacked /\ PipeInOrder
    /\ ReceivedSettled /\ AckAfterInsert /\ StopOrder /\ ReplayProgress
    /\ AckedAccounted

---------------------------------------------------------------------------
(* Three further invariants, for the contract, the timer and the number of *)
(* copies of an event.                                                     *)

(* The events on their way to ClickHouse came from the log: each is still  *)
(* in it, stored or excused.  An entry that does not decode is one a power *)
(* loss left on the disk.                                                  *)
SourceInv ==
    /\ InFlight \cup Range(rbatch) \subseteq Live \cup Stored \cup Excused
    /\ corrupt \subseteq disk

TimerInv == (timerActive => armed) /\ NoStrandedBatch

(* The events written to the log so far, and those among the first n. *)
Written(n) == {hist[i] : i \in 1..n}

(* An event is written once: the requests still to be appended are not in  *)
(* the log, and no two of them are the same.                               *)
WrittenOnce ==
    /\ \A i, j \in 1..Last : hist[i] = hist[j] => i = j
    /\ \A k \in 1..Len(incoming) : incoming[k] \notin Written(Last)
    /\ \A j, k \in 1..Len(pending) : pending[j] = pending[k] => j = k
    /\ gpc \in {"select", "append"} =>
          \A k \in 1..Len(pending) : k >= pos => pending[k] \notin Written(Last)

(* This start may still insert e: it has not been read from the log, or it *)
(* is in a batch that is not inserted yet.                                 *)
Due(e) ==
    \/ proc = "replay" /\ (e \notin Written(rpos - 1) \/ e \in Range(rbatch))
    \/ proc = "up" /\ ~stopped
         /\ (e \notin Written(Recv) \/ (e \in Range(cbatch) /\ cpc # "ack"))

CopiesInv ==
    /\ proc = "replay" => Range(rbatch) \subseteq Written(rpos - 1)
    /\ proc = "up" /\ ~stopped => Range(cbatch) \subseteq Written(Recv)
    /\ \A e \in Events :
          /\ copies[e] <= starts + unsure
          /\ Due(e) => copies[e] < starts + unsure

OnceInv == WrittenOnce /\ CopiesInv
=============================================================================
