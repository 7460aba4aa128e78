------------------------------ MODULE MCWorkers ------------------------------
(* A small instance of the goroutines around the queue, for TLC.              *)
EXTENDS Workers

CONSTANTS w1, w2, f1
=============================================================================
