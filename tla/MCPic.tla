------------------------------- MODULE MCPic -------------------------------
(* The lines of the UART and of the Ethernet chip.                         *)
EXTENDS Pic
MCIrqs == {2, 4}
=============================================================================
