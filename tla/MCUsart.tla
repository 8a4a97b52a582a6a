------------------------------ MODULE MCUsart ------------------------------
(* The USART module for TLC: rings that hold one byte, so that they are     *)
(* empty and full all the time; the proofs cover every size.                *)
EXTENDS Usart
=============================================================================
