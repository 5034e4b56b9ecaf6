------------------------------- MODULE MCTrap -------------------------------
(* A user program of three instructions, a timer and another interrupt, and *)
(* one fault.                                                               *)
EXTENDS Trap

MCIrqs == {"Timer", "External"}
MCFaults == {"StorePageFault"}

=============================================================================
