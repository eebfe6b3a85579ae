---------------------------- MODULE MCTftpServer ----------------------------
(* Instances of TftpServer for TLC. *)
EXTENDS TftpServer

TwoFiles   == <<2, 2>>
TwoLengths == <<"short", "empty">>
=============================================================================
