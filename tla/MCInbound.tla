------------------------------ MODULE MCInbound ------------------------------
(***************************************************************************)
(* Inbound for model checking: the handlers are interchangeable.           *)
(***************************************************************************)
EXTENDS Inbound, TLC

Interchangeable == Permutations(Handlers)
=============================================================================
