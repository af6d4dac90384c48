---------------------------- MODULE MCDiagProc ----------------------------
(***************************************************************************)
(* DiagProc with the firmware of the FIU board (address 3).                *)
(***************************************************************************)
EXTENDS DiagProc, Firmware

\* At 0x12: call the routine at 0x19, which returns; pause; done.
Pauses == << 18, 2, 24, 96, 92, 0, 0, 0, 25, 44 >>

\* At 0x12: loop until told not to, done.
Loops == << 18, 1, 94, 1, 18, 92 >>

MCPrograms == {Pauses, Loops}

\* the board, which the bus thread knows, and ALL, which only the firmware does
MCTargets == {3, 5}

\* RESET and UNLOOP of the board, UNPAUSE of all boards but the memories
MCTells == {387, 483, 459}

MCOctets == {0, 1, 127, 128, 200, 255}
=============================================================================
