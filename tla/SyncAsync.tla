----------------------------- MODULE SyncAsync -----------------------------
(***************************************************************************)
(* The flip-flop synchronizer of SyncAsync.vhd: a shift register of        *)
(* kStages flip-flops in the destination clock domain, all of them at      *)
(* kResetTo while the asynchronous reset is asserted.  Bits are 0 and 1.   *)
(*                                                                         *)
(* The operators work on the value of the register, a function from Stages *)
(* to bits; the module that owns the register declares the variable.       *)
(***************************************************************************)
EXTENDS Naturals

CONSTANTS kStages,   \* number of flip-flops in the chain
          kResetTo   \* value of every flip-flop under reset

Bit == {0, 1}
Stages == 1 .. kStages

Cleared == [i \in Stages |-> kResetTo]

\* One rising edge of OutClk: the chain moves by one and samples aIn.
Shift(stages, aIn) == [i \in Stages |-> IF i = 1 THEN aIn ELSE stages[i - 1]]

\* oOut is the last flip-flop.
Out(stages) == stages[kStages]
=============================================================================
