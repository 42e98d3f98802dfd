------------------------------- MODULE MCToy -------------------------------
(* The prototype in one process or in containers: three parties, threshold *)
(* two, vectors of two over the field of five elements.                    *)
EXTENDS ToyExperiment, ToyDeployment

MCHostList == <<"sh1", "sh2", "sh3">>
MCUseLists == {<<"sh3", "sh1", "sh2">>, <<"sh1", "sh4", "sh1">>}
MCOneList  == {<<"sh3", "sh1", "sh2">>}
MCSecrets == {<<1, 3>>, <<4, 0>>}
MCCoeffs  == {<<2, 4>>}
MCUs      == {<<3, 2>>}

MCInit ==
  \/ XInit /\ dpc = "off" /\ ToyIdle
  \/ ToyInit /\ xpc = "none" /\ XIdle

MCNext ==
  \/ XNext /\ UNCHANGED toyVars
  \/ xpc = "none" /\ ToyNext /\ UNCHANGED xVars

MCSpec == MCInit /\ [][MCNext]_<<xVars, toyVars>>
=============================================================================
