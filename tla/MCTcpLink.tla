------------------------------ MODULE MCTcpLink ------------------------------
(* Instances of TcpLink for TLC; a run gives all constants in its .cfg.    *)
EXTENDS TcpLink
=============================================================================
