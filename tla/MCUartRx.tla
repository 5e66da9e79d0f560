------------------------------ MODULE MCUartRx ------------------------------
(* A receive FIFO of two or four characters with a trigger level of two.   *)
EXTENDS UartRx
=============================================================================
