-------------------------- MODULE MCGB4XBeeStartup --------------------------
(* Start-up, on small instances. *)
EXTENDS GB4XBeeStartup

MCTimer == {"guard", "quiet"}
MCLimit == [t \in MCTimer |-> IF t = "guard" THEN 2 ELSE 1]

Silence == {<<>>}
StrayByte == {<<>>, <<"x">>}
=============================================================================
