----------------------------- MODULE IngestPath -----------------------------
(***************************************************************************)
(* The ingest path of the binary: the log, the group syncer and the        *)
(* consumer composed as cmd/statnive-live/main.go composes them, with the  *)
(* start (open the log, replay it into ClickHouse, acknowledge it), the    *)
(* orderly stop (cancel, drain, close the syncer, close the log) and the   *)
(* ways the process ends otherwise: kill -9, exit(1) after a failed fsync, *)
(* a failed replay, a power loss.                                          *)
(***************************************************************************)
EXTENDS Consumer

CONSTANTS ReplayRows, \* replayBatchSize (1000)
          FaultKinds, \* which of "append", "fsync", "insert", "power", "start" occur
          MaxFaults,  \* bound: injected faults in one behaviour
          MaxStops    \* bound: kills and signals in one behaviour

ASSUME PathAssumption ==
    ReplayRows \in Nat \ {0} /\ MaxFaults \in Nat /\ MaxStops \in Nat

VARIABLES proc,     \* "down", "replay", "up" or "halt" (returning from run)
          snap,     \* replayWAL: snapshotIdx
          rpos,     \* Replay: the next index to read
          rbatch,   \* replayWAL: the batch being collected
          replayed, \* replayWAL: total > 0
          rtried,   \* InsertBatch of the replay: its first doInsert failed
          stops,    \* kills and signals so far
          faults,   \* injected faults so far
          starts,   \* ghost: process starts so far
          unsure    \* ghost: inserts that failed after they were committed

mainVars == <<proc, snap, rpos, rbatch, replayed, rtried, stops, faults, starts, unsure>>

vars == <<walVars, groupVars, consVars, mainVars>>

Init ==
    /\ WalInit /\ GroupInit /\ ConsInit
    /\ proc = "down"
    /\ snap = 0 /\ rpos = 1 /\ rbatch = <<>>
    /\ replayed = FALSE /\ rtried = FALSE
    /\ stops = 0 /\ faults = 0 /\ starts = 0 /\ unsure = 0

(* An injected fault of kind k. *)
Fault(k) ==
    /\ k \in FaultKinds
    /\ faults < MaxFaults
    /\ faults' = faults + 1

NoFault == UNCHANGED faults

---------------------------------------------------------------------------
(* Start: NewWALWriter and replayWAL. *)

(* Mutation of Boot: the snapshot leaves out the last entry. *)
BootShortSnapshot ==
    /\ proc = "down"
    /\ proc' = "replay"
    /\ snap' = Last - 1
    /\ rpos' = first
    /\ rbatch' = <<>>
    /\ replayed' = FALSE /\ rtried' = FALSE
    /\ starts' = starts + 1
    /\ UNCHANGED <<stops, faults, unsure>>
    /\ UNCHANGED <<walVars, groupVars, consVars>>

Boot ==
    /\ proc = "down"
    /\ proc' = "replay"
    /\ snap' = Last
    /\ rpos' = first
    /\ rbatch' = <<>>
    /\ replayed' = FALSE /\ rtried' = FALSE
    /\ starts' = starts + 1
    /\ UNCHANGED <<stops, faults, unsure>>
    /\ UNCHANGED <<walVars, groupVars, consVars>>

ReplayFull == Len(rbatch) >= ReplayRows \/ (rpos > snap /\ rbatch # <<>>)

(* One turn of Replay's loop.  An entry that the size cap removed meanwhile *)
(* or that does not decode is skipped.                                      *)
ReplayRead ==
    /\ proc = "replay"
    /\ rpos <= snap
    /\ ~ReplayFull
    /\ rbatch' = IF rpos < first \/ rpos \in corrupt
                 THEN rbatch ELSE Append(rbatch, hist[rpos])
    /\ rpos' = rpos + 1
    /\ UNCHANGED <<proc, snap, replayed, rtried, stops, faults, starts, unsure>>
    /\ UNCHANGED <<walVars, groupVars, consVars>>

ReplayInsertOk ==
    /\ proc = "replay"
    /\ ReplayFull
    /\ ~ctxDone
    /\ Commit(rbatch)
    /\ rbatch' = <<>>
    /\ replayed' = TRUE /\ rtried' = FALSE
    /\ UNCHANGED <<cbatch, lastIdx, cpc, draining, final, tries, ctxDone, abandoned>>
    /\ UNCHANGED <<proc, snap, rpos, stops, faults, starts, unsure>>
    /\ UNCHANGED <<walVars, groupVars>>

(* A doInsert of the replay fails: after the second, run returns the error. *)
ReplayInsertErr(committed) ==
    /\ proc = "replay"
    /\ ReplayFull
    /\ IF ctxDone THEN NoFault ELSE Fault("insert")
    /\ IF committed THEN Commit(rbatch) ELSE UNCHANGED copies
    /\ unsure' = IF committed THEN unsure + 1 ELSE unsure
    /\ rtried' = TRUE
    /\ proc' = IF rtried THEN "halt" ELSE "replay"
    /\ UNCHANGED <<cbatch, lastIdx, cpc, draining, final, tries, ctxDone, abandoned>>
    /\ UNCHANGED <<snap, rpos, rbatch, replayed, stops, starts>>
    /\ UNCHANGED <<walVars, groupVars>>

(* The replay ends; the log is acknowledged if anything was replayed.  The *)
(* rest of the start follows: it needs a live context (it reads the goals  *)
(* from ClickHouse) and may fail; then run returns before anything serves. *)
ReplayDone ==
    /\ proc = "replay"
    /\ rpos > snap
    /\ rbatch = <<>>
    /\ IF replayed THEN WalAck(snap) ELSE UNCHANGED walVars
    /\ \/ proc' = (IF ctxDone THEN "halt" ELSE "up") /\ NoFault
       \/ proc' = "halt" /\ Fault("start")
    /\ replayed' = FALSE
    /\ UNCHANGED <<snap, rpos, rbatch, rtried, stops, starts, unsure>>
    /\ UNCHANGED <<groupVars, consVars>>

---------------------------------------------------------------------------
(* Stop. *)

Dead ==
    /\ GroupReset
    /\ ConsReset
    /\ proc' = "down"
    /\ snap' = 0 /\ rpos' = 1 /\ rbatch' = <<>>
    /\ replayed' = FALSE /\ rtried' = FALSE
    /\ UNCHANGED <<starts, unsure>>

(* SIGTERM or SIGINT, or a listener that fails. *)
Signal ==
    /\ proc \in {"replay", "up"}
    /\ stops < MaxStops
    /\ CancelRun
    /\ stops' = stops + 1
    /\ UNCHANGED <<proc, snap, rpos, rbatch, replayed, rtried, faults, starts, unsure>>

(* g.Wait has returned, the deferred groupSyncer.Close runs. *)
MainClose ==
    /\ proc = "up"
    /\ cpc = "done"
    /\ CloseSyncer
    /\ UNCHANGED consVars
    /\ UNCHANGED mainVars

MainReturn ==
    /\ proc = "up"
    /\ gpc = "exit"
    /\ proc' = "halt"
    /\ UNCHANGED <<snap, rpos, rbatch, replayed, rtried, stops, faults, starts, unsure>>
    /\ UNCHANGED <<walVars, groupVars, consVars>>

(* The deferred wal.Close: the background loop has ended, a last Sync whose *)
(* error is dropped, and the process ends.                                  *)
Halt ==
    /\ proc = "halt"
    /\ ~capArmed
    /\ \/ FsyncOk /\ NoFault
       \/ FsyncFailIgnored /\ Fault("fsync")
    /\ Dead
    /\ UNCHANGED stops

(* kill -9, a panic, the OOM killer. *)
Kill ==
    /\ proc # "down"
    /\ stops < MaxStops
    /\ stops' = stops + 1
    /\ WalProcessDeath
    /\ Dead
    /\ NoFault

(* fatal() calls os.Exit(1). *)
ExitOne ==
    /\ gpc = "fatal"
    /\ WalProcessDeath
    /\ Dead
    /\ UNCHANGED <<stops, faults>>

PowerLoss ==
    /\ Fault("power")
    /\ WalPowerLoss
    /\ Dead
    /\ UNCHANGED stops

---------------------------------------------------------------------------
(* WALWriter's background loop: the fsync ticker, which logs an error and  *)
(* goes on, and the size cap.                                              *)

TickSync ==
    /\ proc # "down"
    /\ Dirty # {}
    /\ \/ FsyncOk /\ NoFault
       \/ FsyncFailIgnored /\ Fault("fsync")
    /\ UNCHANGED <<proc, snap, rpos, rbatch, replayed, rtried, stops, starts, unsure>>
    /\ UNCHANGED <<groupVars, consVars>>

SizeCap ==
    /\ \/ proc \in {"replay", "up"} /\ SizeCapMeasure
       \/ proc # "down" /\ SizeCapTruncate
    /\ UNCHANGED <<groupVars, consVars, mainVars>>

---------------------------------------------------------------------------
(* The handlers, the loop and the consumer run while the process is up. *)

Callers ==
    /\ proc = "up"
    /\ \E e \in Events : Submit(e) \/ Reject(e) \/ Cancel(e)
    /\ UNCHANGED <<consVars, mainVars>>

Loop ==
    /\ proc = "up"
    /\ \/ LoopRecv \/ LoopTimer \/ LoopStop
       \/ AppendOk \/ SyncOk \/ AckBatch
       \/ Deliver \/ DeliverSkip \/ FlushDone
    /\ UNCHANGED <<consVars, mainVars>>

LoopFault ==
    /\ proc = "up"
    /\ \/ AppendErr /\ Fault("append")
       \/ SyncErr /\ Fault("fsync")
    /\ UNCHANGED <<consVars, proc, snap, rpos, rbatch, replayed, rtried, stops, starts, unsure>>

Consume ==
    /\ proc = "up"
    /\ \/ CRecv \/ CTick \/ CDrain \/ CSettle
       \/ CInsertOk \/ CRetry \/ CRetryCancelled \/ CAck \/ CFinalSync(TRUE)
    /\ UNCHANGED mainVars

ConsumeFault ==
    /\ proc = "up"
    /\ \/ /\ IF ctxDone THEN NoFault ELSE Fault("insert")
          /\ \/ CInsertErr(FALSE) /\ UNCHANGED unsure
             \/ CInsertErr(TRUE) /\ unsure' = unsure + 1
       \/ CFinalSync(FALSE) /\ Fault("fsync") /\ UNCHANGED unsure
    /\ UNCHANGED <<proc, snap, rpos, rbatch, replayed, rtried, stops, starts>>

Replay ==
    \/ ReplayRead \/ ReplayInsertOk \/ ReplayDone
    \/ \E committed \in BOOLEAN : ReplayInsertErr(committed)

(* Nothing to do until the next request arrives. *)
Idle ==
    /\ proc = "up" /\ ~ctxDone
    /\ gpc = "select" /\ incoming = <<>> /\ pending = <<>>
    /\ cpc = "select" /\ out = <<>> /\ cbatch = <<>>
    /\ UNCHANGED vars

Next ==
    \/ Boot \/ Replay
    \/ Callers \/ Loop \/ LoopFault \/ Consume \/ ConsumeFault
    \/ TickSync \/ SizeCap
    \/ Signal \/ MainClose \/ MainReturn \/ Halt
    \/ Kill \/ ExitOne \/ PowerLoss
    \/ Idle

Spec == Init /\ [][Next]_vars

(* The goroutines of a live process keep being scheduled, the supervisor   *)
(* restarts a process that ended, and injected faults are bounded.         *)
Fairness ==
    /\ WF_vars(Boot) /\ WF_vars(Replay)
    /\ WF_vars(Loop) /\ WF_vars(Consume \/ ConsumeFault)
    /\ WF_vars(SizeCap /\ capArmed)
    /\ WF_vars(MainClose) /\ WF_vars(MainReturn) /\ WF_vars(Halt)
    /\ WF_vars(ExitOne)

FairSpec == Spec /\ Fairness
---------------------------------------------------------------------------
(* Properties. *)

MainTypeOK ==
    /\ proc \in {"down", "replay", "up", "halt"}
    /\ snap \in Nat /\ rpos \in Nat \ {0}
    /\ rbatch \in Seq(Events)
    /\ replayed \in BOOLEAN /\ rtried \in BOOLEAN
    /\ stops \in Nat /\ faults \in Nat /\ starts \in Nat /\ unsure \in Nat

(* Every variable has its type: in particular no index of the log is ever  *)
(* below 1, no batch holds anything but events, and the log's bookkeeping  *)
(* stays within the entries written.                                       *)
TypeOK == WalTypeOK /\ GroupTypeOK /\ ConsTypeOK /\ MainTypeOK

Promised == {e \in Events : status[e] = "ok"}

(* The three ways the code gives an acknowledged event away: the consumer  *)
(* ran out of attempts, the size cap dropped it, a failed fsync was logged *)
(* and ignored.                                                            *)
Excused == abandoned \cup evicted \cup swallowed

(* An event that was answered 202 is in ClickHouse or can be replayed from *)
(* the log, unless it was excused: through crashes, restarts, a replay     *)
(* that fails half way, drains, skipped deliveries and power losses.       *)
AckedAccounted == Promised \subseteq Stored \cup Live \cup Excused

(* Group commit: an entry of the log whose caller was told 202 survives a  *)
(* power loss; only a failed fsync that was ignored breaks this.           *)
AckedDurable ==
    \A i \in LiveIdx : hist[i] \in Promised => i \in disk \/ hist[i] \in swallowed

InFlight == Range(cbatch) \cup {out[k].ev : k \in 1..Len(out)}
                          \cup {toDeliver[k].ev : k \in 1..Len(toDeliver)}

(* While the process runs normally, every entry that it appended, and      *)
(* every entry that it found in the log, is in ClickHouse, was given up    *)
(* on, or is still in memory on its way to the consumer: no entry waits    *)
(* for the next restart, not even one the size cap has evicted since.      *)
NothingStranded ==
    proc = "up" /\ ~ctxDone =>
        \A i \in (LiveIdx \cup (snap + 1)..Last) \ corrupt :
            hist[i] \in Stored \cup abandoned \cup InFlight

(* The loop never sleeps on a batch without a timer to wake it: the flag   *)
(* timerActive and the runtime timer agree.                                *)
NoStrandedBatch == gpc = "select" /\ pending # <<>> => armed

(* An event is inserted once per process start at most, except for inserts *)
(* that were committed and reported as failed.                             *)
AtMostOncePerStart == \A e \in Events : copies[e] <= starts + unsure

(* Truncating the log removes only entries that are in ClickHouse, were    *)
(* given up on or are counted as evicted - also entries whose caller was   *)
(* not told 202.                                                           *)
TruncatesOnlySettled ==
    [][\A i \in first..(first' - 1) :
          i \in corrupt \/ hist[i] \in Stored \cup abandoned \cup evicted']_vars

(* What the ingest path promises to a tracker, as an abstract machine. *)
Contract == INSTANCE DurableIngest WITH
    held <- Live, promised <- Promised, stored <- Stored, excused <- Excused

ImplementsContract == Contract!Spec

(* An event answered 202 reaches ClickHouse, in this process or a later    *)
(* one, unless it was excused.                                             *)
AckedSettles ==
    \A e \in Events : status[e] = "ok" ~> e \in Stored \cup Excused

(* Every caller of AppendAndWait is answered, or disconnected by the end   *)
(* of the process.                                                         *)
CallersAnswered == \A e \in Events : status[e] = "wait" ~> status[e] # "wait"

(* A signal ends the process: drain, Close and wal.Close never wait for    *)
(* each other in a circle, however full the channels are.                  *)
ShutdownCompletes == ctxDone ~> proc = "down"
=============================================================================
