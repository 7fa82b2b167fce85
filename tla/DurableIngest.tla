--------------------------- MODULE DurableIngest ---------------------------
(***************************************************************************)
(* What the ingest path promises, without saying how: a promise (the 202)  *)
(* is made only about an event that is held in a log, and is kept - the    *)
(* log lets go of a promised event only once it is stored or excused, what *)
(* is stored stays stored, and nothing is stored that was never logged.    *)
(***************************************************************************)
CONSTANT Events

VARIABLES held,     \* events that a restart would recover
          promised, \* events whose sender was told they are safe
          stored,   \* events in the database
          excused   \* events the system has declared it may lose

dvars == <<held, promised, stored, excused>>

Init == held = {} /\ promised = {} /\ stored = {} /\ excused = {}

Write(e) ==
    /\ e \notin promised
    /\ held' = held \cup {e}
    /\ UNCHANGED <<promised, stored, excused>>

Promise(S) ==
    /\ S \subseteq held \cup stored \cup excused
    /\ promised' = promised \cup S
    /\ UNCHANGED <<held, stored, excused>>

(* A batch is stored, or found committed although it was given up on. *)
Store(S, X) ==
    /\ S \cup X \subseteq held \cup stored \cup excused
    /\ stored' = stored \cup S
    /\ excused' = excused \cup X
    /\ UNCHANGED <<held, promised>>

(* The log lets go of S. *)
Release(S, X) ==
    /\ S \cup X \subseteq held
    /\ S \cap promised \subseteq stored \cup excused \cup X
    /\ held' = held \ S
    /\ excused' = excused \cup X
    /\ UNCHANGED <<promised, stored>>

Next ==
    \/ \E e \in Events : Write(e)
    \/ \E S \in SUBSET Events : Promise(S)
    \/ \E S, X \in SUBSET Events : Store(S, X) \/ Release(S, X)

Spec == Init /\ [][Next]_dvars
=============================================================================
