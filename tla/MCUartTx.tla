------------------------------ MODULE MCUartTx ------------------------------
(***************************************************************************)
(* Printers for UartTx.  GC (task_e) mixes uart_puts with uart_put_hex32,  *)
(* HIGH prints through the ring.  McRaceUses is an instance that breaks    *)
(* DrainKeepsOut: LOW (task_c) prints by uart_puts beside GC.              *)
(***************************************************************************)
EXTENDS UartTx, TLC

McUses == ("GC" :> {"puts", "hex"}) @@ ("HIGH" :> {"bounded"})
McRaceUses == ("GC" :> {"hex"}) @@ ("LOW" :> {"puts"})
=============================================================================
