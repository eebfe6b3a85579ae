---------------------------- MODULE MCDevicePages ----------------------------
(* DevicePages for TLC. *)
EXTENDS DevicePages, TLC

CONSTANTS c1, c2, a1, a2, n1, n2, bad

TwoConns    == {c1, c2}
TwoAccounts == {a1, a2}
TwoNets     == {n1, n2}
AllNets     == TwoNets \cup {bad}
\* connections, accounts and valid settings are only compared with one another
Alike == Permutations(TwoConns) \cup Permutations(TwoAccounts) \cup Permutations(TwoNets)
\* The central device has an E1 board and a board of a type the page does not
\* list, the remote one an E1 board in another slot.
Chassis ==
  [central |-> [b \in Boards |-> CASE b = 0 -> "GAN111_MAIN_CTRL" [] b = 1 -> "GAN111_8E1"
                                   [] OTHER -> "other"],
   remote  |-> [b \in Boards |-> CASE b = 0 -> "GAN111_MAIN_CTRL" [] b = 2 -> "GAN111_8E1"
                                   [] OTHER -> "none"]]
=============================================================================
