------------------------------- MODULE MCMdns -------------------------------
(* Mdns for TLC: two sampling modes.                                       *)
EXTENDS MdnsService
=============================================================================
