----------------------------- MODULE RegisterTable -----------------------------
(***************************************************************************)
(* The Modbus register table (src/modbus_x_macros.h) and the checks that   *)
(* the Modbus library makes against it (modbus_reg.c, user_mem.c, seen in  *)
(* the listing msd_zigbee_52840/zephyr/zephyr.lst).                        *)
(*                                                                         *)
(* A register is its number.  The permission bits of a table entry become  *)
(* three sets and a function: WRITE_R is membership in Writable, EESAVE_R  *)
(* is membership in EESaved, and the limit bits with their Min/Max columns *)
(* are the set Allowed[r] of the values that pass (every value when the    *)
(* entry has no limit bit).                                                *)
(***************************************************************************)
EXTENDS Integers

CONSTANTS
    RegLast,    \* reg_read_last = reg_write_last = NUM_BUF - 1
    Value,      \* the register values told apart, 0 among them
    Writable,   \* registers with WRITE_R
    EESaved,    \* registers with EESAVE_R
    Allowed,    \* Allowed[r]: the values inside the limits of r
    Default     \* Default[r]: the Default Value column

Reg == 0..RegLast
NUM_BUF == RegLast + 1

ASSUME RegLastAssumption == RegLast \in Nat
ASSUME ValueAssumption == 0 \in Value
ASSUME PermissionAssumption == Writable \subseteq Reg /\ EESaved \subseteq Reg
ASSUME AllowedAssumption == Allowed \in [Reg -> SUBSET Value]
\* Only a saved register has a default that is ever loaded; the table keeps
\* each of them inside its own limits.
ASSUME DefaultAssumption ==
    /\ Default \in [Reg -> Value]
    /\ \A r \in EESaved : Default[r] \in Allowed[r]
\* Register 119, Reg_End, is READ_R only.  Eeprom_Check_in_Request answers FREE
\* for any block that ends on the last register, so a block that could be
\* written up to there would leave its saved registers unsaved.
ASSUME LastRegisterAssumption == RegLast \notin EESaved \cup Writable

--------------------------------------------------------------------------------

EESave_Check(r) == r \in EESaved
Write_Check(r) == r \in Writable
Limit_Check(r, v) == v \in Allowed[r]

MBE_NONE == 0
MBE_ILLEGAL_FUNCTION == 1
MBE_ILLEGAL_DATA_ADDRESS == 2
MBE_ILLEGAL_DATA_VALUE == 3
Exception == MBE_NONE..MBE_ILLEGAL_DATA_VALUE

\* The exception for writing v to r, or MBE_NONE.
Limit_Check_in_Request(r, v) ==
    CASE ~Write_Check(r)                      -> MBE_ILLEGAL_DATA_ADDRESS
      [] Write_Check(r) /\ ~Limit_Check(r, v) -> MBE_ILLEGAL_DATA_VALUE
      [] OTHER                                -> MBE_NONE

\* Mutant: the loop leaves out the last register of the block.
Bug_SkipsLast(start, count) ==
    IF \E r \in start..(start + count - 2) : EESave_Check(r)
    THEN "EEP_SAVE" ELSE "EEP_FREE"

\* Whether a write of count registers from start has something to save.
Eeprom_Check_in_Request(start, count) ==
    IF start + count >= NUM_BUF
    THEN "EEP_FREE"
    ELSE IF \E r \in start..(start + count - 1) : EESave_Check(r)
         THEN "EEP_SAVE"
         ELSE "EEP_FREE"
================================================================================
