--------------------------- MODULE MCTunerConfig ---------------------------
(* Instances of TunerConfig for TLC: two sessions, frequencies inside each *)
(* range and in only one of the two, rates from one list, from the other   *)
(* and from both.                                                          *)
EXTENDS TunerConfig, TLC

(* Nothing tells one session from the other, and no liveness is checked.   *)
Symmetry == Permutations(Sessions)

OneAtATime == [overlap |-> FALSE, refuses |-> FALSE, freqs |-> {1, 3, 5},
               rates |-> {512, 1536, 2048}, ppms |-> {1}]
Interleaved == [overlap |-> TRUE, refuses |-> TRUE, freqs |-> {5},
                rates |-> {1536}, ppms |-> {}]
Refusing == [OneAtATime EXCEPT !.refuses = TRUE, !.freqs = {1}, !.rates = {512}]

MCRegimes == {OneAtATime, Refusing, Interleaved}

(* For the statements that hold of one request at a time only.             *)
InterleavedOnly == {[Interleaved EXCEPT !.refuses = FALSE, !.freqs = {1, 5},
                                        !.rates = {512, 1536}]}
=============================================================================
