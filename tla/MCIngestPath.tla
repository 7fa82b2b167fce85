---------------------------- MODULE MCIngestPath ----------------------------
(***************************************************************************)
(* Instances of IngestPath for TLC, and a sentence of the repository's     *)
(* comments that the code does not live up to.                             *)
(***************************************************************************)
EXTENDS IngestInvariants, TLC

(* Events are interchangeable: the safety runs are checked up to renaming. *)
Perms == Permutations(Events)

(* "no ack on failure means no data loss, just back-pressure": whatever    *)
(* ClickHouse does, an event answered 202 is in ClickHouse or in the log.  *)
OutageLosesNothing == Promised \subseteq Stored \cup Live
=============================================================================
