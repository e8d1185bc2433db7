------------------------------- MODULE MCJson -------------------------------
(* Instance of Json for TLC.                                               *)
EXTENDS Json

MCLengths == [json |-> 17, any |-> 6]
=============================================================================
