----------------------------- MODULE MCUrlState -----------------------------
(***************************************************************************)
(* Instances of UrlState for TLC: one day per number, the page opened on   *)
(* day 100, links with and without dates, with an unknown panel and with a *)
(* stray direction.                                                        *)
(***************************************************************************)
EXTENDS UrlState, TLC

MCLink(panel, f) == [panel |-> panel, params |-> filtersToQuery(f)]

(* "#", a shared report of days 95..99 and a link whose panel is gone,     *)
(* whose dates are text and whose property entries are malformed.          *)
MCPlain == MCLink("overview", EmptyFilters)

MCReport ==
    MCLink("sources", [EmptyFilters EXCEPT !["from"] = 95, !["to"] = 99,
                                           !["hitProps"] = <<[name |-> <<"plan">>, value |-> <<"pro">>]>>])

MCOldLink ==
    [panel |-> "funnels",
     params |-> [filtersToQuery(EmptyFilters) EXCEPT
                    !["from"] = BadDay, !["to"] = 99, !["dir"] = "asc",
                    !["metrics"] = <<"bounces">>,
                    !["hitProps"] = <<<<"plan">>, <<"", "x">>, <<"plan", "a">>, <<"plan", "b">>>>]]

MCLinks == {MCPlain, MCReport, MCOldLink}

MCPropNames == {<<"plan">>, <<"a", "b">>}
MCPropValues == {<<"pro">>, <<"x", "y">>}
=============================================================================
