------------------------------ MODULE InstallCode ------------------------------
(***************************************************************************)
(* address_and_code_init of src/main.c: the main thread reads the address  *)
(* and the install code register by register and hands them to the Zigbee  *)
(* stack.  It is preemptible and the Modbus thread and com_task are not,   *)
(* so that between two registers the Modbus thread may write a block or    *)
(* mh_Factory restore a default.                                           *)
(***************************************************************************)
EXTENDS SensorTable, Sequences

CONSTANTS
    Blocks,         \* what may be written: functions from registers to words
    MaxWrites,      \* how often, while main is here
    FactoryAddress  \* of the chip, a sequence of eight bytes

ASSUME BlocksAssumption == \A b \in Blocks : b \in [DOMAIN b -> Word]
ASSUME MaxWritesAssumption == MaxWrites \in Nat
ASSUME FactoryAssumption == FactoryAddress \in [1..8 -> 0..255]

Reg_Zigbee_FICR_Addr_0 == 60
NoCode == <<>>

VARIABLES
    reg,        \* MBbuf_main, the part that matters here
    pc,         \* the part of the procedure
    ieee_addr, ic,
    long_address, install_code,     \* what the stack has taken
    writes      \* so many blocks were written
vars == <<reg, pc, ieee_addr, ic, long_address, install_code, writes>>

Registers == 40..88

Init ==
    /\ \E b \in Blocks : reg = [r \in Registers |-> IF r \in DOMAIN b THEN b[r]
                                                    ELSE DefaultOf(r)]
    /\ pc = "mode" /\ ieee_addr = <<>> /\ ic = <<>>
    /\ long_address = FactoryAddress /\ install_code = NoCode
    /\ writes = 0

Mode(bit) == (reg[Reg_Zigbee_Set_Mode] \div bit) % 2 = 1
ZI_SET_MODE_BIT_SET_FICR_ADDR == 1
ZI_SET_MODE_BIT_SET_CODE == 2
ZB_CCM_KEY_SIZE == 16

--------------------------------------------------------------------------------
\* Checksums

\* A word as the set of its bits, and back.
Bits(w) == {b \in 0..15 : (w \div 2^b) % 2 = 1}
Number(bits) ==
    LET High[n \in 0..16] ==
            IF n = 0 THEN 0 ELSE 2 * High[n - 1] + (IF 16 - n \in bits THEN 1 ELSE 0)
    IN  High[16]

Xor(s, t) == (s \ t) \cup (t \ s)
Polynomial == Bits(33800)

\* One bit leaves the register of the checksum.
Shifted(crc) ==
    LET rest == {b - 1 : b \in crc \ {0}}
    IN  IF 0 \in crc THEN Xor(rest, Polynomial) ELSE rest

\* The inner loop of crc16_x25, which the stack's own checksum has too: a byte
\* leaves the register.  And the outer: each byte of the data joins the register.
ByteOut[crc \in SUBSET (0..15)] ==
    LET Crc[n \in 0..8] == IF n = 0 THEN crc ELSE Shifted(Crc[n - 1])
    IN  Crc[8]
CrcOver(first, data) ==
    LET Crc[k \in 0..Len(data)] ==
            IF k = 0 THEN first ELSE ByteOut[Xor(Crc[k - 1], Bits(data[k]))]
    IN  Crc[Len(data)]

crc16_x25(data) == Number(Xor(CrcOver(Bits(65535), data), Bits(65535)))

\* The stack's own, which does not invert.
zb_crc16(crc, data) == Number(CrcOver(Bits(crc), data))

\* zb_secur_ic_check_crc: the two bytes behind the code, the low one first.
zb_secur_ic_check_crc(code) ==
    code[17] + 256 * code[18] = 65535 - zb_crc16(65535, SubSeq(code, 1, ZB_CCM_KEY_SIZE))

--------------------------------------------------------------------------------
\* The main thread

Stays == UNCHANGED <<reg, writes>>

\* The device keeps its own address or takes the one in the registers.
address_mode ==
    /\ pc = "mode"
    /\ pc' = IF Mode(ZI_SET_MODE_BIT_SET_FICR_ADDR) THEN "ficr" ELSE "addr"
    /\ Stays /\ UNCHANGED <<ieee_addr, ic, long_address, install_code>>

Incomplete(copy, size) == Len(copy) < size

address_byte ==
    /\ pc = "addr" /\ Incomplete(ieee_addr, 8)
    /\ ieee_addr' = Append(ieee_addr, reg[Reg_Zigbee_Addr_0_N_Panel + Len(ieee_addr)] % 256)
    /\ Stays /\ UNCHANGED <<pc, ic, long_address, install_code>>

\* zb_set_long_address.
address_set ==
    /\ pc = "addr" /\ ~Incomplete(ieee_addr, 8)
    /\ long_address' = ieee_addr
    /\ pc' = "ficr"
    /\ Stays /\ UNCHANGED <<ieee_addr, ic, install_code>>

\* The chip's address is shown to the master; then the second look at the mode.
address_shown ==
    /\ pc = "ficr"
    /\ ieee_addr' = FactoryAddress
    /\ reg' = [r \in Registers |-> IF r \in 60..67
                                   THEN ieee_addr'[r - Reg_Zigbee_FICR_Addr_0 + 1]
                                   ELSE reg[r]]
    /\ pc' = IF Mode(ZI_SET_MODE_BIT_SET_CODE) THEN "code" ELSE "done"
    /\ UNCHANGED <<ic, long_address, install_code, writes>>

\* Mutant: the registers are read as the processor stores them.
Bug_LittleEndian(word) == <<word % 256, word \div 256>>

\* A register is read once, its high byte comes first.
Bytes(word) == <<word \div 256, word % 256>>

code_word ==
    /\ pc = "code" /\ Incomplete(ic, ZB_CCM_KEY_SIZE)
    /\ ic' = ic \o Bytes(reg[Reg_Zigbee_Code_0 + Len(ic) \div 2])
    /\ Stays /\ UNCHANGED <<pc, ieee_addr, long_address, install_code>>

\* Mutant: the checksum is taken from the registers again.
Bug_ReadsAgain(code) ==
    crc16_x25([k \in 1..ZB_CCM_KEY_SIZE |->
                  Bytes(reg[Reg_Zigbee_Code_0 + (k - 1) \div 2])[((k - 1) % 2) + 1]])

\* Of the copy.
Checksum(code) == crc16_x25(code)

code_checksum ==
    /\ pc = "code" /\ ~Incomplete(ic, ZB_CCM_KEY_SIZE)
    /\ ic' = ic \o <<Checksum(ic) % 256, Checksum(ic) \div 256>>
    /\ pc' = "set"
    /\ Stays /\ UNCHANGED <<ieee_addr, long_address, install_code>>

\* zb_secur_ic_set, whose result is not looked at.
code_set ==
    /\ pc = "set"
    /\ install_code' = IF zb_secur_ic_check_crc(ic) THEN ic ELSE install_code
    /\ pc' = "done"
    /\ Stays /\ UNCHANGED <<ieee_addr, ic, long_address>>

--------------------------------------------------------------------------------
\* The other threads

\* A block of a master, or one register of mh_Factory, which waits for the flash
\* after each.
Written ==
    /\ pc # "done" /\ writes < MaxWrites
    /\ \E b \in Blocks :
          reg' = [r \in Registers |-> IF r \in DOMAIN b THEN b[r] ELSE reg[r]]
    /\ writes' = writes + 1
    /\ UNCHANGED <<pc, ieee_addr, ic, long_address, install_code>>

Next ==
    \/ address_mode \/ address_byte \/ address_set \/ address_shown
    \/ code_word \/ code_checksum \/ code_set
    \/ Written

Spec == Init /\ [][Next]_vars
================================================================================
