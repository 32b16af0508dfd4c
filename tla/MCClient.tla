------------------------------ MODULE MCClient ------------------------------
(***************************************************************************)
(* Model checking Client.  Work items and senders are interchangeable, so  *)
(* the safety runs use symmetry; the liveness runs do not.                 *)
(***************************************************************************)
EXTENDS Client, TLC

Symmetry ==
    Permutations(Senders) \cup Permutations(SendPool) \cup Permutations(RecvPool)

=============================================================================
