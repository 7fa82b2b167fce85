----------------------------- MODULE MCReports -----------------------------
(***************************************************************************)
(* Instances of Reports for TLC.                                           *)
(***************************************************************************)
EXTENDS Reports

Row(path, channel, visitors, revenue) ==
    [path |-> path, channel |-> channel, views |-> 2 * visitors, visitors |-> visitors,
     revenue |-> revenue]

Entry(name, visitors, revenue) ==
    [name |-> name, views |-> 2 * visitors, visitors |-> visitors, revenue |-> revenue]

(* Two campaigns, with and without content, that share their sources; a    *)
(* row without a campaign whose source has a campaign's name, as the query *)
(* over raw events returns it.                                             *)
CampaignRows ==
    {<<Row(<<1, 1, 1, 0>>, 1, 2, 0), Row(<<1, 2, 1, 1>>, 7, 1, 3), Row(<<2, 1, 1, 0>>, 7, 3, 3)>>,
     <<Row(<<1, 1, 1, 0>>, 7, 1, 0), Row(<<2, 1, 1, 1>>, 8, 1, 0)>>,
     <<Row(<<2, 1, 1, 0>>, 1, 0, 0), Row(<<2, 1, 1, 1>>, 7, 2, 1)>>,
     <<Row(<<0, 1, 0, 0>>, 1, 1, 1), Row(<<1, 1, 1, 0>>, 7, 2, 1)>>,
     <<>>}

PlaceRows ==
    {<<Row(<<1, 1>>, 0, 2, 1), Row(<<2, 1>>, 0, 1, 1), Row(<<1, 2>>, 0, 1, 0)>>, <<Row(<<2, 2>>, 0, 1, 0)>>}

Tops ==
    {<<Entry(7, 1, 0), Entry(8, 3, 2), Entry(9, 2, 2), Entry(1, 1, 1)>>, <<Entry(1, 1, 0), Entry(2, 2, 0)>>}

MCAnswers(panel) ==
    IF panel = "campaigns" THEN {[rows |-> r, top |-> <<>>] : r \in CampaignRows}
    ELSE {[rows |-> r, top |-> t] : r \in PlaceRows, t \in Tops}
=============================================================================
