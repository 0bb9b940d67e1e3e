---------------------------- MODULE MCPokerServer ----------------------------
(***************************************************************************)
(* PokerServer on a small table.  libstdc++ visits small integer keys of   *)
(* an unordered_map in the reverse of their insertion.                     *)
(***************************************************************************)
EXTENDS PokerServer

ReverseOrder == [i \in 1 .. NumPlayers |-> NumPlayers - i]

=============================================================================
