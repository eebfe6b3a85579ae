---------------------------- MODULE MCTftpClient ----------------------------
(* Instances of TftpClient for TLC. *)
EXTENDS TftpRefinement

\* the first file does not fit the flash of 3 pages, the second one does
TooLargeThenFits == <<4, 3>>
Shrinking        == <<2, 1>>
=============================================================================
