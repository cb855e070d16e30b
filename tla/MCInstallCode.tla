----------------------------- MODULE MCInstallCode -----------------------------
(***************************************************************************)
(* Two codes and the modes, as a master may write them.                    *)
(***************************************************************************)
EXTENDS InstallCodeProps

MCFactoryAddress == <<244, 206, 54, 1, 2, 3, 4, 5>>

Modes == {[r \in {Reg_Zigbee_Set_Mode} |-> m] : m \in {0, 3}}
Codes == {[r \in 80..87 |-> IF r % 2 = 0 THEN 65535 ELSE 4660],
          [r \in {80, 87} |-> 32769]}
MCBlocks ==
    Modes \cup Codes
    \cup {[r \in 70..77 |-> r + 256]}
    \cup {[r \in {d} |-> DefaultOf(r)] : d \in {Reg_Zigbee_Set_Mode, 77, 80, 87}}
================================================================================
