------------------------------- MODULE MCScli -------------------------------
(* The command line for TLC: one command, which can stop the USART. *)
EXTENDS Scli

CONSTANT a

MCCommands == {<<a>>}
=============================================================================
