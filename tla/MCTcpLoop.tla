----------------------------- MODULE MCTcpLoop -----------------------------
(***************************************************************************)
(* The sequence numbers that sessions of TcpLoop begin with: the tick      *)
(* count, which never is the same, and stays away from the server's.       *)
(***************************************************************************)
EXTENDS TcpLoop

McIsn(n) == 10 + 10 * n
=============================================================================
