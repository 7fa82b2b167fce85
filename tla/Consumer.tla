------------------------------ MODULE Consumer ------------------------------
(***************************************************************************)
(* The ClickHouse writer: internal/ingest/consumer.go over InsertBatch of  *)
(* internal/storage/clickhouse.go.  One goroutine reads envelopes from the *)
(* group syncer's out channel, inserts them in batches with a bounded      *)
(* number of attempts and, after an insert that succeeds, acknowledges the *)
(* log through the last index it has received.  A batch whose attempts are *)
(* exhausted is dropped from memory: nothing inserts it again before the   *)
(* log is replayed at the next start.                                      *)
(*                                                                         *)
(* copies[e] counts the rows of e in ClickHouse, a service: an insert that *)
(* reports an error may still have been committed.  The client refuses an  *)
(* insert whose context is already cancelled, so no insert that starts     *)
(* after the shutdown signal succeeds; one that was under way when the     *)
(* signal came is ordered before the signal if it succeeds.                *)
(***************************************************************************)
EXTENDS GroupSyncer

CONSTANTS BatchRows, \* ConsumerConfig.BatchRows (1000)
          MaxTries   \* len(chInsertRetryDelays) + 1 (4)

ASSUME ConsumerAssumption == BatchRows \in Nat \ {0} /\ MaxTries \in Nat \ {0}

VARIABLES cbatch,    \* the batch being collected
          lastIdx,   \* lastWALIdx
          cpc,       \* control state of Run and drain
          draining,  \* Run has entered drain
          final,     \* the flush in progress is drain's last
          tries,     \* failed doInserts of the flush in progress
          ctxDone,   \* the context Run was given is cancelled
          copies,    \* ClickHouse: rows of each event
          abandoned  \* ghost: events of batches given up on in normal running

consVars == <<cbatch, lastIdx, cpc, draining, final, tries, ctxDone, copies,
              abandoned>>

ConsPCs == {"select", "insert", "backoff", "ack", "sync", "done"}

Stored == {e \in Events : copies[e] > 0}

ConsTypeOK ==
    /\ cbatch \in Seq(Events)
    /\ lastIdx \in Nat /\ tries \in Nat
    /\ cpc \in ConsPCs
    /\ draining \in BOOLEAN /\ final \in BOOLEAN /\ ctxDone \in BOOLEAN
    /\ copies \in [Events -> Nat]
    /\ abandoned \subseteq Events

ConsFresh ==
    /\ cbatch = <<>> /\ lastIdx = 0 /\ tries = 0
    /\ cpc = "select"
    /\ draining = FALSE /\ final = FALSE /\ ctxDone = FALSE

ConsInit ==
    /\ ConsFresh
    /\ copies = [e \in Events |-> 0]
    /\ abandoned = {}

(* The process dies. *)
ConsReset ==
    /\ cbatch' = <<>> /\ lastIdx' = 0 /\ tries' = 0
    /\ cpc' = "select"
    /\ draining' = FALSE /\ final' = FALSE /\ ctxDone' = FALSE
    /\ UNCHANGED <<copies, abandoned>>

(* InsertBatch writes every row of batch q. *)
Commit(q) == copies' = [e \in Events |-> copies[e] + (IF e \in Range(q) THEN 1 ELSE 0)]

(* The signal handler, or a failed listener, cancels the context. *)
CancelRun ==
    /\ ~ctxDone
    /\ ctxDone' = TRUE
    /\ UNCHANGED <<cbatch, lastIdx, cpc, draining, final, tries, copies, abandoned>>
    /\ UNCHANGED groupVars
    /\ UNCHANGED walVars

---------------------------------------------------------------------------
(* Run and drain: the cases of their selects. *)

(* Where a flush that has ended leaves the goroutine. *)
AfterFlush == cpc' = IF final THEN "sync" ELSE "select"

(* An envelope arrives.  big: batchBytes has reached BatchMaxBytes. *)
CRecv ==
    /\ cpc = "select"
    /\ out # <<>>
    /\ cbatch' = Append(cbatch, Head(out).ev)
    /\ lastIdx' = Head(out).idx
    /\ out' = Tail(out)
    /\ \E big \in BOOLEAN :
          cpc' = IF Len(cbatch') >= BatchRows \/ big THEN "insert" ELSE "select"
    /\ UNCHANGED <<draining, final, tries, ctxDone, copies, abandoned>>
    /\ UNCHANGED <<status, incoming, pending, pos, failed, toDeliver, gpc,
                   timerActive, armed, stopped, leaving>>
    /\ UNCHANGED walVars

(* Mutation of CTick: the ticker flushes full batches only. *)
CTickFullOnly ==
    /\ cpc = "select"
    /\ ~draining
    /\ Len(cbatch) >= BatchRows
    /\ cpc' = "insert"
    /\ UNCHANGED <<cbatch, lastIdx, draining, final, tries, ctxDone, copies, abandoned>>
    /\ UNCHANGED groupVars
    /\ UNCHANGED walVars

(* The batch interval has passed. *)
CTick ==
    /\ cpc = "select"
    /\ ~draining
    /\ cbatch # <<>>
    /\ cpc' = "insert"
    /\ UNCHANGED <<cbatch, lastIdx, draining, final, tries, ctxDone, copies, abandoned>>
    /\ UNCHANGED groupVars
    /\ UNCHANGED walVars

CDrain ==
    /\ cpc = "select"
    /\ ~draining
    /\ ctxDone
    /\ draining' = TRUE
    /\ UNCHANGED <<cbatch, lastIdx, cpc, final, tries, ctxDone, copies, abandoned>>
    /\ UNCHANGED groupVars
    /\ UNCHANGED walVars

(* drain: out was quiet for DrainSettle. *)
CSettle ==
    /\ cpc = "select"
    /\ draining
    /\ out = <<>>
    /\ final' = TRUE
    /\ cpc' = IF cbatch = <<>> THEN "sync" ELSE "insert"
    /\ UNCHANGED <<cbatch, lastIdx, draining, tries, ctxDone, copies, abandoned>>
    /\ UNCHANGED groupVars
    /\ UNCHANGED walVars

---------------------------------------------------------------------------
(* flush: insertWithRetry, then the acknowledgement. *)

CInsertOk ==
    /\ cpc = "insert"
    /\ ~ctxDone
    /\ Commit(cbatch)
    /\ tries' = 0
    /\ cpc' = "ack"
    /\ UNCHANGED <<cbatch, lastIdx, draining, final, ctxDone, abandoned>>
    /\ UNCHANGED groupVars
    /\ UNCHANGED walVars

(* insertWithRetry returns its last error: the batch is dropped, the log   *)
(* is not acknowledged.  Only a batch given up on while the consumer goes  *)
(* on running can be acknowledged past later.                              *)
GiveUp ==
    /\ abandoned' = IF ctxDone THEN abandoned ELSE abandoned \cup Range(cbatch)
    /\ cbatch' = <<>>
    /\ tries' = 0
    /\ AfterFlush

(* A doInsert fails, with or without its rows in ClickHouse.  InsertBatch  *)
(* makes two of them, then insertWithRetry backs off or is out of retries. *)
CInsertErr(committed) ==
    /\ cpc = "insert"
    /\ committed => ~draining
    /\ IF committed THEN Commit(cbatch) ELSE UNCHANGED copies
    /\ IF tries + 1 = 2 * MaxTries
       THEN GiveUp
       ELSE /\ tries' = tries + 1
            /\ cpc' = IF tries % 2 = 0 THEN "insert" ELSE "backoff"
            /\ UNCHANGED <<cbatch, abandoned>>
    /\ UNCHANGED <<lastIdx, draining, final, ctxDone>>
    /\ UNCHANGED groupVars
    /\ UNCHANGED walVars

(* The backoff ends before the context does: try again. *)
CRetry ==
    /\ cpc = "backoff"
    /\ cpc' = "insert"
    /\ UNCHANGED <<cbatch, lastIdx, draining, final, tries, ctxDone, copies, abandoned>>
    /\ UNCHANGED groupVars
    /\ UNCHANGED walVars

(* The context ends first. *)
CRetryCancelled ==
    /\ cpc = "backoff"
    /\ ctxDone
    /\ GiveUp
    /\ UNCHANGED <<lastIdx, draining, final, ctxDone, copies>>
    /\ UNCHANGED groupVars
    /\ UNCHANGED walVars

(* Mutations of CAck: it acknowledges the whole log; it keeps the batch. *)
CAckWholeLog ==
    /\ cpc = "ack"
    /\ WalAck(Last)
    /\ cbatch' = <<>>
    /\ AfterFlush
    /\ UNCHANGED <<lastIdx, draining, final, tries, ctxDone, copies, abandoned>>
    /\ UNCHANGED groupVars

CAckKeepsBatch ==
    /\ cpc = "ack"
    /\ WalAck(lastIdx)
    /\ AfterFlush
    /\ UNCHANGED <<cbatch, lastIdx, draining, final, tries, ctxDone, copies, abandoned>>
    /\ UNCHANGED groupVars

(* The insert succeeded: the log is acknowledged through lastIdx. *)
CAck ==
    /\ cpc = "ack"
    /\ WalAck(lastIdx)
    /\ cbatch' = <<>>
    /\ AfterFlush
    /\ UNCHANGED <<lastIdx, draining, final, tries, ctxDone, copies, abandoned>>
    /\ UNCHANGED groupVars

(* drain's last Sync; its error is dropped. *)
CFinalSync(synced) ==
    /\ cpc = "sync"
    /\ IF synced THEN FsyncOk ELSE FsyncFailIgnored
    /\ cpc' = "done"
    /\ UNCHANGED <<cbatch, lastIdx, draining, final, tries, ctxDone, copies, abandoned>>
    /\ UNCHANGED groupVars
=============================================================================
