------------------------------ MODULE MCOutbox ------------------------------
(* Outbox on a small instance: interchangeable payloads.                   *)
EXTENDS Outbox, TLC

PayloadSymmetry == Permutations(Payloads)
=============================================================================
