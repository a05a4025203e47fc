------------------------------- MODULE MCTurn --------------------------------
(* ChatTurn on small channels: an answer, its tool call and its prompt are   *)
(* more than the events channel holds.                                       *)
EXTENDS ChatTurn
=============================================================================
