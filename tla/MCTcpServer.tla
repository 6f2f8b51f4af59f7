---------------------------- MODULE MCTcpServer ----------------------------
(***************************************************************************)
(* TcpServer with a first message that fills the kernel's buffer and the   *)
(* queue, and two short ones whose writers then block.                     *)
(***************************************************************************)
EXTENDS TcpServer

ThreeMessages == <<5, 1, 2>>
=============================================================================
