-------------------------- MODULE MC_AgentProcess --------------------------
(* A small instance of AgentProcess: two bytes, four credentials of which  *)
(* one is too short to be redacted, one is a prefix of another and one     *)
(* overlaps another's end.                                                 *)
EXTENDS AgentProcess

CONSTANTS a, b
MCBytes == [stdout |-> {a, b}, stderr |-> {b}]
MCLeftover == {<<b>>}
MCCredentials == {<<b>>, <<a, b>>, <<a, b, b>>, <<b, b, a>>}
=============================================================================
