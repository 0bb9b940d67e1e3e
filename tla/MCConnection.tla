---------------------------- MODULE MCConnection ----------------------------
(***************************************************************************)
(* Connection with few messages: two from the server, so that one is sent  *)
(* while the other is written, and one from the client.                    *)
(***************************************************************************)
EXTENDS Connection

FewSends == [server |-> 2, client |-> 1]

=============================================================================
