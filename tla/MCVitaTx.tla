------------------------------ MODULE MCVitaTx ------------------------------
(* VitaTx for TLC.  A packet count modulo 2 wraps within a stream, bursts  *)
(* of one and of two packets meet every phase of it, and the rates divide  *)
(* the second exactly and inexactly.                                       *)
EXTENDS VitaTx

(* The gain steps of an R820T tuner give different Reference Level words,  *)
(* so a gain change always sets the change indicator.                      *)
ASSUME RefWordTellsGains ==
    \A g, h \in {0, 9, 14, 27, 197, 207, 229, 480, 496} : g # h => RefWord(g) # RefWord(h)
=============================================================================
