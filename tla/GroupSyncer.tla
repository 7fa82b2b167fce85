----------------------------- MODULE GroupSyncer -----------------------------
(***************************************************************************)
(* Group commit: internal/ingest/walgroup.go.  Handlers put requests on    *)
(* the incoming channel and wait; one goroutine, the loop, collects a      *)
(* batch, appends it to the log, fsyncs once, answers every waiter and     *)
(* only then hands the events to the consumer through the out channel.     *)
(*                                                                         *)
(* status[e] is the handler's side of event e: "new" (not sent), "wait"    *)
(* (blocked in AppendAndWait), "ok" (answered 202), "err" (answered 503),  *)
(* "gone" (the caller stopped waiting and knows nothing).                  *)
(*                                                                         *)
(* gpc is where the loop stands: at its select, or in one of the phases of *)
(* flush, or past it.                                                      *)
(***************************************************************************)
EXTENDS WriteAheadLog

CONSTANTS BatchMax, \* GroupConfig.BatchMax (256)
          InCap,    \* GroupConfig.IncomingBuffer (4096)
          OutCap    \* GroupConfig.OutBuffer (4096)

ASSUME GroupAssumption ==
    BatchMax \in Nat \ {0} /\ InCap \in Nat \ {0} /\ OutCap \in Nat \ {0}

VARIABLES status,      \* what the caller of AppendAndWait knows, per event
          incoming,    \* the request channel
          pending,     \* the loop's batch
          pos,         \* flush: the next request of the batch to append
          failed,      \* flush: events whose append failed (appendErrs)
          toDeliver,   \* flush: envelopes appended and not yet sent on out
          out,         \* the channel the consumer reads
          gpc,         \* control state of the loop
          timerActive, \* the loop's own flag
          armed,       \* the runtime timer is set, or has fired unread
          stopped,     \* stopCh is closed
          leaving      \* the flush in progress is the loop's last

groupVars == <<status, incoming, pending, pos, failed, toDeliver, out, gpc,
               timerActive, armed, stopped, leaving>>

Range(q) == {q[k] : k \in 1..Len(q)}

Envelope == [idx : Nat, ev : Events]

GroupPCs == {"select", "append", "sync", "ack", "deliver", "fatal", "exit"}

GroupTypeOK ==
    /\ status \in [Events -> {"new", "wait", "ok", "err", "gone"}]
    /\ incoming \in Seq(Events) /\ pending \in Seq(Events)
    /\ pos \in Nat \ {0}
    /\ failed \subseteq Events
    /\ toDeliver \in Seq(Envelope) /\ out \in Seq(Envelope)
    /\ gpc \in GroupPCs
    /\ timerActive \in BOOLEAN /\ armed \in BOOLEAN
    /\ stopped \in BOOLEAN /\ leaving \in BOOLEAN

(* NewGroupSyncer: empty channels, a stopped timer, the loop at its select. *)
GroupFresh ==
    /\ incoming = <<>> /\ pending = <<>> /\ toDeliver = <<>> /\ out = <<>>
    /\ pos = 1 /\ failed = {}
    /\ gpc = "select"
    /\ timerActive = FALSE /\ armed = FALSE
    /\ stopped = FALSE /\ leaving = FALSE

GroupInit == GroupFresh /\ status = [e \in Events |-> "new"]

(* The process dies: its channels and the loop are gone, every caller that *)
(* was waiting is disconnected.                                            *)
GroupReset ==
    /\ incoming' = <<>> /\ pending' = <<>> /\ toDeliver' = <<>> /\ out' = <<>>
    /\ pos' = 1 /\ failed' = {}
    /\ gpc' = "select"
    /\ timerActive' = FALSE /\ armed' = FALSE
    /\ stopped' = FALSE /\ leaving' = FALSE
    /\ status' = [e \in Events |-> IF status[e] = "wait" THEN "gone" ELSE status[e]]

---------------------------------------------------------------------------
(* AppendAndWait, the caller's side. *)

(* The first select sends the request.  stopCh is another case of the same *)
(* select, so a closed stopCh does not rule this one out.                  *)
Submit(e) ==
    /\ status[e] = "new"
    /\ Len(incoming) < InCap
    /\ incoming' = Append(incoming, e)
    /\ status' = [status EXCEPT ![e] = "wait"]
    /\ UNCHANGED <<pending, pos, failed, toDeliver, out, gpc, timerActive,
                   armed, stopped, leaving>>
    /\ UNCHANGED walVars

(* The first select returns ErrGroupSyncerStopped. *)
Reject(e) ==
    /\ status[e] = "new"
    /\ stopped
    /\ status' = [status EXCEPT ![e] = "err"]
    /\ UNCHANGED <<incoming, pending, pos, failed, toDeliver, out, gpc,
                   timerActive, armed, stopped, leaving>>
    /\ UNCHANGED walVars

(* The caller's context ends while it waits; its request stays queued. *)
Cancel(e) ==
    /\ status[e] = "wait"
    /\ status' = [status EXCEPT ![e] = "gone"]
    /\ UNCHANGED <<incoming, pending, pos, failed, toDeliver, out, gpc,
                   timerActive, armed, stopped, leaving>>
    /\ UNCHANGED walVars

(* Close: the channel that every select watches is closed. *)
CloseSyncer ==
    /\ ~stopped
    /\ stopped' = TRUE
    /\ UNCHANGED <<status, incoming, pending, pos, failed, toDeliver, out, gpc,
                   timerActive, armed, leaving>>
    /\ UNCHANGED walVars

---------------------------------------------------------------------------
(* loop: the cases of its select. *)

StartFlush == gpc' = "append"
NoFlush == UNCHANGED gpc

(* Mutations of LoopRecv: the first request does not set the timer; the    *)
(* full batch stops the timer and forgets the flag.                        *)
LoopRecvNoTimer ==
    /\ gpc = "select"
    /\ incoming # <<>>
    /\ pending' = Append(pending, Head(incoming))
    /\ incoming' = Tail(incoming)
    /\ IF Len(pending') >= BatchMax
       THEN armed' = (armed /\ ~timerActive) /\ timerActive' = FALSE /\ StartFlush
       ELSE UNCHANGED armed /\ timerActive' = TRUE /\ NoFlush
    /\ UNCHANGED <<status, pos, failed, toDeliver, out, stopped, leaving>>
    /\ UNCHANGED walVars

LoopRecvStaleFlag ==
    /\ gpc = "select"
    /\ incoming # <<>>
    /\ pending' = Append(pending, Head(incoming))
    /\ incoming' = Tail(incoming)
    /\ IF Len(pending') >= BatchMax
       THEN armed' = (armed /\ ~timerActive) /\ UNCHANGED timerActive /\ StartFlush
       ELSE armed' = (armed \/ ~timerActive) /\ timerActive' = TRUE /\ NoFlush
    /\ UNCHANGED <<status, pos, failed, toDeliver, out, stopped, leaving>>
    /\ UNCHANGED walVars

(* A request arrives: a full batch disarms the timer and is flushed, a     *)
(* first request arms the timer.                                           *)
LoopRecv ==
    /\ gpc = "select"
    /\ incoming # <<>>
    /\ pending' = Append(pending, Head(incoming))
    /\ incoming' = Tail(incoming)
    /\ IF Len(pending') >= BatchMax
       THEN /\ armed' = (armed /\ ~timerActive)
            /\ timerActive' = FALSE
            /\ StartFlush
       ELSE /\ armed' = (armed \/ ~timerActive)
            /\ timerActive' = TRUE
            /\ NoFlush
    /\ UNCHANGED <<status, pos, failed, toDeliver, out, stopped, leaving>>
    /\ UNCHANGED walVars

(* The flush timer fires. *)
LoopTimer ==
    /\ gpc = "select"
    /\ armed
    /\ armed' = FALSE
    /\ timerActive' = FALSE
    /\ IF pending # <<>> THEN StartFlush ELSE NoFlush
    /\ UNCHANGED <<status, incoming, pending, pos, failed, toDeliver, out, stopped,
                   leaving>>
    /\ UNCHANGED walVars

(* stopCh is closed: flush what is pending, then return. *)
LoopStop ==
    /\ gpc = "select"
    /\ stopped
    /\ IF pending = <<>>
       THEN gpc' = "exit" /\ UNCHANGED leaving
       ELSE StartFlush /\ leaving' = TRUE
    /\ UNCHANGED <<status, incoming, pending, pos, failed, toDeliver, out,
                   timerActive, armed, stopped>>
    /\ UNCHANGED walVars

---------------------------------------------------------------------------
(* flush. *)

NextToAppend == /\ pos' = pos + 1
                /\ gpc' = IF pos = Len(pending) THEN "sync" ELSE "append"

(* Mutation of AppendOk: the envelope carries the index before the append. *)
AppendOkStaleIndex ==
    /\ gpc = "append"
    /\ WalAppend(pending[pos])
    /\ toDeliver' = Append(toDeliver, [idx |-> Last, ev |-> pending[pos]])
    /\ NextToAppend
    /\ UNCHANGED <<status, incoming, pending, failed, out, timerActive, armed,
                   stopped, leaving>>

AppendOk ==
    /\ gpc = "append"
    /\ WalAppend(pending[pos])
    /\ toDeliver' = Append(toDeliver, [idx |-> Last', ev |-> pending[pos]])
    /\ NextToAppend
    /\ UNCHANGED <<status, incoming, pending, failed, out, timerActive, armed,
                   stopped, leaving>>

AppendErr ==
    /\ gpc = "append"
    /\ failed' = failed \cup {pending[pos]}
    /\ NextToAppend
    /\ UNCHANGED <<status, incoming, pending, toDeliver, out, timerActive,
                   armed, stopped, leaving>>
    /\ UNCHANGED walVars

(* Mutation of SyncOk: the callers are answered without an fsync. *)
SyncOkSkipped ==
    /\ gpc = "sync"
    /\ gpc' = "ack"
    /\ UNCHANGED <<status, incoming, pending, pos, failed, toDeliver, out,
                   timerActive, armed, stopped, leaving>>
    /\ UNCHANGED walVars

SyncOk ==
    /\ gpc = "sync"
    /\ FsyncOk
    /\ gpc' = "ack"
    /\ UNCHANGED <<status, incoming, pending, pos, failed, toDeliver, out,
                   timerActive, armed, stopped, leaving>>

(* The answer reaches the callers in the batch that still wait. *)
Answer(bad) ==
    status' = [e \in Events |->
                  IF e \in Range(pending) /\ status[e] = "wait"
                  THEN IF e \in bad THEN "err" ELSE "ok"
                  ELSE status[e]]

(* Sync failed: every waiter gets the error, then fatal() exits. *)
SyncErr ==
    /\ gpc = "sync"
    /\ FsyncFailFatal
    /\ Answer(Range(pending))
    /\ gpc' = "fatal"
    /\ UNCHANGED <<incoming, pending, pos, failed, toDeliver, out, timerActive,
                   armed, stopped, leaving>>

(* Mutation of AckBatch: append errors are not looked at. *)
AckBatchBlind ==
    /\ gpc = "ack"
    /\ Answer({})
    /\ gpc' = "deliver"
    /\ UNCHANGED <<incoming, pending, pos, failed, toDeliver, out, timerActive,
                   armed, stopped, leaving>>
    /\ UNCHANGED walVars

(* Every waiter gets its index or its append error. *)
AckBatch ==
    /\ gpc = "ack"
    /\ Answer(failed)
    /\ gpc' = "deliver"
    /\ UNCHANGED <<incoming, pending, pos, failed, toDeliver, out, timerActive,
                   armed, stopped, leaving>>
    /\ UNCHANGED walVars

(* One blocking send on out. *)
Deliver ==
    /\ gpc = "deliver"
    /\ toDeliver # <<>>
    /\ Len(out) < OutCap
    /\ out' = Append(out, Head(toDeliver))
    /\ toDeliver' = Tail(toDeliver)
    /\ UNCHANGED <<status, incoming, pending, pos, failed, gpc, timerActive,
                   armed, stopped, leaving>>
    /\ UNCHANGED walVars

(* Mutations of DeliverSkip: a full channel drops the event; a send that   *)
(* does not watch stopCh.                                                  *)
DeliverSkipWhenFull ==
    /\ gpc = "deliver"
    /\ toDeliver # <<>>
    /\ stopped \/ Len(out) >= OutCap
    /\ toDeliver' = Tail(toDeliver)
    /\ UNCHANGED <<status, incoming, pending, pos, failed, out, gpc,
                   timerActive, armed, stopped, leaving>>
    /\ UNCHANGED walVars

DeliverSkipNever == FALSE /\ UNCHANGED <<walVars, groupVars>>

(* The send loses to the closed stopCh: the event is left to the replay. *)
DeliverSkip ==
    /\ gpc = "deliver"
    /\ toDeliver # <<>>
    /\ stopped
    /\ toDeliver' = Tail(toDeliver)
    /\ UNCHANGED <<status, incoming, pending, pos, failed, out, gpc,
                   timerActive, armed, stopped, leaving>>
    /\ UNCHANGED walVars

(* flush returns. *)
FlushDone ==
    /\ gpc = "deliver"
    /\ toDeliver = <<>>
    /\ pending' = <<>> /\ pos' = 1 /\ failed' = {}
    /\ gpc' = IF leaving THEN "exit" ELSE "select"
    /\ UNCHANGED <<status, incoming, toDeliver, out, timerActive, armed,
                   stopped, leaving>>
    /\ UNCHANGED walVars
==============================================================================
