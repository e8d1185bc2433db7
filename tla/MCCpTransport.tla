--------------------------- MODULE MCCpTransport ----------------------------
(* CpTransport for TLC: two slots and the USB thread, with two connections *)
(* that use both slots or one slot twice.                                  *)
EXTENDS CpTransport
=============================================================================
