----------------------------- MODULE MCRxStream -----------------------------
(* Model-checking instance of RxStream; the constants are given by each    *)
(* configuration file.                                                     *)
EXTENDS RxStream
=============================================================================
