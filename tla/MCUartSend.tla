----------------------------- MODULE MCUartSend -----------------------------
(* A FIFO of two; two characters for uart_putc; bursts of two out of a     *)
(* buffer of three.                                                        *)
EXTENDS UartSend
MCChar == 0 .. 4
=============================================================================
