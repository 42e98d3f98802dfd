--------------------------- MODULE MCThresholdKem ---------------------------
(* Small deployments for TLC: two or three shareholders, named as in       *)
(* docker-compose.yml, a threshold of two.                                 *)
EXTENDS ServiceRefinement

MCHosts2 == {"sh1", "sh2"}
MCHosts3 == {"sh1", "sh2", "sh3"}
MCList2  == <<"sh1", "sh2">>
MCOrder3 == <<"sh3", "sh1", "sh2">>
MCNothing == {<< >>}
MCOldRows == {<<Foreign, Foreign>>}
MCList3  == <<"sh1", "sh2", "sh3">>
=============================================================================
