--------------------------- MODULE MCAdminConsole ---------------------------
(***************************************************************************)
(* Instances of AdminConsole for TLC.                                      *)
(***************************************************************************)
EXTENDS AdminConsole

(* The other admin moves the site to Germany as the modal does, makes it   *)
(* permissive with more events than a German site may keep, or gives the   *)
(* other site an origin.                                                   *)
MCOtherPatches ==
    {[site |-> 1, patch |-> [jurisdiction |-> "DE", mode |-> "consent-free"]],
     [site |-> 1, patch |-> [mode |-> "permissive", allow |-> 4]],
     [site |-> 2, patch |-> [origins |-> <<"A">>]]}

(* Hybrid without events is for the server to refuse, six events for the   *)
(* modal.                                                                  *)
MCEdits ==
    {[field |-> "mode", value |-> "hybrid"], [field |-> "allow", value |-> 6],
     [field |-> "tz", value |-> "utc"]}

(* One new site, and one with the hostname of the second. *)
MCNewSites == {[host |-> 3, slug |-> 3], [host |-> 2, slug |-> 4]}

MCBootEntries == [s \in Sites |-> IF s = 1 THEN <<1, 2>> ELSE <<2>>]

MCSittings ==
    {[work |-> "settings", ops |-> 4, faults |-> 0],
     [work |-> "settings", ops |-> 3, faults |-> 1],
     [work |-> "sites", ops |-> 3, faults |-> 1],
     [work |-> "lists", ops |-> 4, faults |-> 1]}
=============================================================================
