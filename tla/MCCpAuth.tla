------------------------------ MODULE MCCpAuth ------------------------------
(* CpAuth for TLC: two keys with one identifier, of which one is in the    *)
(* ring, and one with another identifier.                                  *)
EXTENDS CpAuth

MCRing == {[id |-> "default", psk |-> 1], [id |-> "backup", psk |-> 2]}
MCClientKeys == MCRing \cup {[id |-> "default", psk |-> 3]}
=============================================================================
