------------------------------ MODULE MCDaemon ------------------------------
(* Instances of Daemon for TLC: a daemon that serves a client, and one     *)
(* whose key file is worked on while it starts and restarts.               *)
EXTENDS Daemon

Serving == [rx_auth |-> FALSE, mdns |-> TRUE, clients |-> TRUE, runs |-> 2]
Hidden == [Serving EXCEPT !.mdns = FALSE]
Locked == [rx_auth |-> TRUE, mdns |-> FALSE, clients |-> FALSE, runs |-> 1]

MCSetups == {Serving, Hidden, Locked}
=============================================================================
