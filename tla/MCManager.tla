----------------------------- MODULE MCManager ------------------------------
(* One pipeline, started two times. *)
EXTENDS Manager, TLC

CONSTANTS p1, h1, h2

TwoHandles == (h1 :> p1) @@ (h2 :> p1)
=============================================================================
