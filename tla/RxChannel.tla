------------------------------ MODULE RxChannel ------------------------------
(***************************************************************************)
(* What the daemon promises about its one tuner (cp/cp_session.h, "Access  *)
(* control"): the rx channel is an exclusive resource.  A session takes it *)
(* with open_stream and gives it up with close_stream or by disconnecting; *)
(* samples are read only while it is held, and it changes hands only when  *)
(* the reading has stopped.                                                *)
(***************************************************************************)
CONSTANTS
    Clients,   \* the sessions that may hold the channel
    Nobody     \* the channel is free

VARIABLES
    holder,    \* the session that holds the channel, or Nobody
    sampling   \* is the tuner being read?

vars == <<holder, sampling>>

Init ==
    /\ holder = Nobody
    /\ sampling = FALSE

Take(c) ==
    /\ holder = Nobody
    /\ holder' = c
    /\ UNCHANGED sampling

Give(c) ==
    /\ holder = c
    /\ ~sampling
    /\ holder' = Nobody
    /\ UNCHANGED sampling

StartSampling(c) ==
    /\ holder = c
    /\ ~sampling
    /\ sampling' = TRUE
    /\ UNCHANGED holder

StopSampling(c) ==
    /\ holder = c
    /\ sampling
    /\ sampling' = FALSE
    /\ UNCHANGED holder

Next == \E c \in Clients : Take(c) \/ Give(c) \/ StartSampling(c) \/ StopSampling(c)

Spec == Init /\ [][Next]_vars

=============================================================================
