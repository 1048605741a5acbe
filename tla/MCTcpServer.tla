----------------------------- MODULE MCTcpServer -----------------------------
(***************************************************************************)
(* TcpServer on small instances for TLC.                                   *)
(***************************************************************************)
EXTENDS TcpServer, TLC

\* Connections are interchangeable; the listener is not.
Symmetry == Permutations(Conns)

=============================================================================
