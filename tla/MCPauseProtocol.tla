--------------------------- MODULE MCPauseProtocol ---------------------------
(* PauseProtocol for TLC.  Networks are only compared with each other, so   *)
(* they may be permuted; none is used by the runs with one network, and     *)
(* the runs that check liveness do without.                                 *)
EXTENDS PauseProtocol, TLC

NetworkSymmetry == Permutations(Networks)
=============================================================================
