------------------------------- MODULE MCExit -------------------------------
(* Instances of Exit for TLC.                                               *)
EXTENDS Exit, TLC

AllOps == {"initiate", "decide", "approve", "withdraw", "create", "act", "save", "verdict",
           "pay", "close", "sweep", "link"}
=============================================================================
