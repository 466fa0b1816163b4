--------------------------- MODULE MCEngramMemory ---------------------------
(* Two sessions work in one project. One saves twice, to either topic or to   *)
(* another project, and then saves again or searches: for one topic or both,  *)
(* for one or two entries, with the key in capitals. The other saves to one   *)
(* of the topics in between.                                                  *)
EXTENDS EngramMemory, TLC

CONSTANTS demo, Demo, shop, pDemo, pShop, note, plan, sessionOne, sessionTwo

Sessions == {sessionOne, sessionTwo}
Keys == {demo, Demo, shop}
Names_ == (demo :> pDemo) @@ (Demo :> pDemo) @@ (shop :> pShop)
Queries == {{note}, {note, plan}}
Three == (sessionOne :> 3) @@ (sessionTwo :> 1)
Calls == {<<sessionOne, 1>>, <<sessionOne, 2>>, <<sessionOne, 3>>, <<sessionTwo, 1>>}

Saves == {SaveRequest(demo, note), SaveRequest(demo, plan), SaveRequest(shop, note)}
Searches == {SearchRequest(Demo, {note}, 2), SearchRequest(Demo, {note, plan}, 1),
             SearchRequest(Demo, {note, plan}, 2)}
AsksOf(c) == IF c[1] = sessionTwo THEN {SaveRequest(demo, note)}
             ELSE IF c[2] < 3 THEN Saves ELSE Saves \cup Searches

=============================================================================
