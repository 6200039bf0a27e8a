------------------------------- MODULE MCIrq -------------------------------
(* Keyboard (1), a master line below the cascade (5) and the mouse (12).    *)
EXTENDS Irq

MCBiosPics == [irr : SUBSET Lines, isr : {{}, {1}},
               imr : {{}, IrqNumbers, IrqNumbers \ Lines}]
=============================================================================
