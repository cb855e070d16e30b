------------------------------ MODULE MCModbusUsb ------------------------------
(***************************************************************************)
(* The constants of ModbusUsb for TLC: register 0 is the command register, *)
(* 1 a saved register with limits, 2 a saved one without, 3 is read-only.  *)
(***************************************************************************)
EXTENDS ModbusUsbProps, TLC

MCAllowed == [r \in Reg |-> IF r = 1 THEN {1, 2} ELSE Value]
MCDefault == [r \in Reg |-> IF r \in EESaved THEN 1 ELSE 0]

Zeros == [r \in Reg |-> 0]
WriteOne(bcast, r, v) ==
    [fn |-> "WriteOne", broadcast |-> bcast, start |-> r, count |-> 1,
     val |-> [Zeros EXCEPT ![r] = v]]
WriteTwo(r, v, w) ==
    [fn |-> "WriteMany", broadcast |-> FALSE, start |-> r, count |-> 2,
     val |-> [q \in Reg |-> CASE q = r -> v [] q = r + 1 -> w [] OTHER -> 0]]
NoWrite(fn, r, n) ==
    [fn |-> fn, broadcast |-> FALSE, start |-> r, count |-> n, val |-> Zeros]

\* Reset to defaults; a broadcast write of a saved register; blocks
\* that are good, whose second register is outside its limits or read-only, or
\* that run past the end; a good read, and a malformed request.
MCRequest ==
    { WriteOne(FALSE, 0, 1), WriteOne(TRUE, 1, 2),
      WriteTwo(1, 1, 2), WriteTwo(1, 2, 1),
      WriteTwo(0, 0, 0), WriteTwo(2, 2, 0), NoWrite("WriteMany", 3, 2),
      NoWrite("Read", 1, 2), NoWrite("BadLength", 0, 0) }

\* With one saved register: defaults, restart and another command, a save with
\* and without a reply.
SmallRequest ==
    { WriteOne(FALSE, 0, 1), WriteOne(FALSE, 0, 2), WriteOne(FALSE, 0, 3),
      WriteOne(FALSE, 1, 2), WriteOne(TRUE, 1, 1) }
================================================================================
