----------------------------- MODULE ModbusUsbProofs ---------------------------
(***************************************************************************)
(* Proofs for every register table, every set of requests and every set of *)
(* values: safety properties of ModbusUsb; then what its steps never do,   *)
(* that it implements SlaveTransaction, and that RAM and flash agree.      *)
(***************************************************************************)
EXTENDS ModbusUsbProps, TLAPS, WellFoundedInduction, NaturalsInduction

--------------------------------------------------------------------------------
(* The inductive invariant *)

\* Until mh_Buf_Init is over neither thread has started on the registers.
BootAlone == boot # "done" => mb_pc = "start" /\ com_pc = "sleep"

\* eep_state says SAVE exactly while mh_Write_Eeprom runs.
SaveState == eep_state = "EEP_SAVE" <=> mb_pc \in {"nvs_write", "sleep"}

\* The receiver is never ready with an empty ring buffer.
RxHasData == rx_ready => rx_ring # NoData

\* mh_Buf_Init has put an allowed value into every register up to the one whose
\* write it waits for.
BootProgress ==
    boot = "mh_Buf_Init" =>
        \A r \in EESaved : r =< job["MAIN"].reg => Limit_Check(r, ram[r])

Control ==
    /\ OneTransaction /\ TxOnlyWhileSending /\ SaveExclusive /\ NoLostWakeup
    /\ SaveState /\ BootAlone /\ RxHasData
Limits == LimitsHold /\ BootProgress

IInv == TypeOK /\ Control /\ Limits

--------------------------------------------------------------------------------
(* Operators *)

\* A set of registers that is not empty has a first one: the loops over
\* ascending register numbers stop at a register of theirs.
LEMMA FirstIsLeast ==
    ASSUME NEW S \in SUBSET Nat, S # {}
    PROVE  First(S) \in S /\ \A q \in S : First(S) =< q
<1> DEFINE Below == {p \in Nat \X Nat : p[1] < p[2]}
<1>1. OpToRel(<, Nat) = Below
    BY DEF OpToRel
<1>2. IsWellFoundedOn(Below, Nat)
    BY <1>1, NatLessThanWellFounded
<1>3. PICK r \in S : \A q \in S : ~(<<q, r>> \in Below)
    BY <1>2, WFMin
<1>4. ASSUME NEW q \in S PROVE r =< q
    <2>1. <<q, r>> \in Nat \X Nat /\ <<q, r>> \notin Below
        BY <1>3
    <2>2. ~(q < r)
        BY <2>1
    <2>3. QED
        BY <2>2
<1>5. QED
    BY <1>4 DEF First

\* Saved registers are register numbers.
LEMMA SavedAreNat == EESaved \subseteq Nat /\ EESaved \subseteq Reg
BY PermissionAssumption, RegLastAssumption DEF Reg

\* The first register that nvs_write has to write is one the loop visits.
LEMMA FirstDirty ==
    ASSUME NEW S \in SUBSET EESaved, NEW mem, NEW img, Dirty(S, mem, img) # {}
    PROVE  First(Dirty(S, mem, img)) \in S
<1>1. Dirty(S, mem, img) \in SUBSET Nat
    <2>1. EESaved \subseteq Nat
        BY SavedAreNat
    <2>2. QED
        BY <2>1 DEF Dirty
<1>2. First(Dirty(S, mem, img)) \in Dirty(S, mem, img)
    BY <1>1, FirstIsLeast
<1>3. QED
    BY <1>2 DEF Dirty

\* The loop of nvs_write calls keeps the types of the store.
LEMMA LoopType ==
    ASSUME NvsTypeOK, NEW t \in Thread, NEW S \in SUBSET EESaved,
           NEW mem, \A r \in S : mem[r] \in Value,
           NEW img, NEW lock \in Thread \cup {"none"},
           Loop(t, S, mem, img, lock)
    PROVE  /\ job' \in [Thread -> Jobs \cup {NoJob}]
           /\ nvs_lock' \in Thread \cup {"none"}
           /\ missed' \subseteq EESaved
<1> DEFINE D == Dirty(S, mem, img)
           new == IF D = {} THEN NoJob
                  ELSE [reg |-> First(D),
                        val |-> IF lock = "none" THEN mem[First(D)] ELSE Unread]
<1>1. new \in Jobs \cup {NoJob}
    <2>1. CASE D = {}
        BY <2>1
    <2>2. CASE D # {}
        <3>1. First(D) \in S
            BY <2>2, FirstDirty
        <3>2. QED
            BY <3>1, <2>2 DEF Jobs
    <2>3. QED
        BY <2>1, <2>2
<1>2. job' = [job EXCEPT ![t] = new]
    BY DEF Loop
<1>3. job' \in [Thread -> Jobs \cup {NoJob}]
    BY <1>1, <1>2 DEF NvsTypeOK
<1>4. nvs_lock' \in Thread \cup {"none"}
    BY DEF Loop
<1>5. Reached(S, mem, img) \subseteq EESaved
    BY DEF Reached
<1>6. missed' \subseteq EESaved
    BY <1>5 DEF Loop, NvsTypeOK
<1>7. QED
    BY <1>3, <1>4, <1>6

\* The loop assigns values to registers it visits.
LEMMA AssignedType ==
    ASSUME ram \in [Reg -> Value], NEW S \in SUBSET EESaved,
           NEW mem, \A r \in S : mem[r] \in Value, NEW img
    PROVE  Assigned(S, mem, img) \in [Reg -> Value]
<1>1. Reached(S, mem, img) \subseteq S
    BY DEF Reached
<1>2. QED
    BY <1>1 DEF Assigned

\* A write that can end holds a datum for a saved register.
LEMMA OutcomeType ==
    ASSUME NvsTypeOK, NEW t \in Thread, Writing(t), NEW img \in Outcome(t)
    PROVE  /\ img \in [EESaved -> Value \cup {NotFound}]
           /\ job[t].reg \in EESaved
<1>1. job[t] # NoJob
    BY SentinelAssumption DEF Writing, NoJob
<1>2. job[t] \in Jobs
    BY <1>1 DEF NvsTypeOK
<1>3. job[t].reg \in EESaved /\ job[t].val \in Value
    BY <1>2 DEF Jobs, Writing
<1>4. Commit(t) \in [EESaved -> Value \cup {NotFound}]
    BY <1>3 DEF Commit, NvsTypeOK
<1>5. QED
    BY <1>3, <1>4 DEF Outcome, NvsTypeOK

\* A released lock is free or has a new owner.
LEMMA ReleasedType ==
    ASSUME NEW t \in Thread
    PROVE  Released(t) \in Thread \cup {"none"}
<1> DEFINE waiting == {u \in Thread \ {t} : job[u] # NoJob}
<1>1. CASE waiting = {}
    BY <1>1 DEF Released
<1>2. CASE waiting # {}
    <2>1. (CHOOSE u \in waiting : TRUE) \in waiting
        BY <1>2
    <2>2. QED
        BY <2>1, <1>2 DEF Released
<1>3. QED
    BY <1>1, <1>2

\* mh_Buf_Init loads values that are inside the limits.
LEMMA LoadedLawful ==
    ASSUME NvsTypeOK
    PROVE  \A r \in EESaved : Loaded[r] \in Value /\ Limit_Check(r, Loaded[r])
BY DefaultAssumption, PermissionAssumption DEF Loaded, NvsTypeOK, Limit_Check

\* A write that is done without an exception had none of its registers refused.
LEMMA DoneMeansNoneRefused ==
    ASSUME NEW f \in Request, Writes(f), Done(f)
    PROVE  \A r \in Block(f) : Limit_Check_in_Request(r, f.val[r]) = MBE_NONE
<1>1. f \in Frame
    BY RequestAssumption
<1>2. Refused(f) \in SUBSET Nat
    BY <1>1 DEF Refused, Block, Frame
<1>3. Refused(f) = {}
    <2>1. SUFFICES ASSUME Refused(f) # {} PROVE FALSE
        OBVIOUS
    <2>2. First(Refused(f)) \in Refused(f)
        BY <1>2, <2>1, FirstIsLeast
    <2>3. Limit_Check_in_Request(First(Refused(f)), f.val[First(Refused(f))]) # MBE_NONE
        BY <2>2 DEF Refused
    <2>4. f.fn # "Other" /\ f.fn # "BadLength"
        BY DEF Writes
    <2>5. CASE OutOfRange(f)
        <3>1. ExceptionOf(f) = MBE_ILLEGAL_DATA_ADDRESS
            BY <2>4, <2>5 DEF ExceptionOf, Writes
        <3>2. QED
            BY <3>1 DEF Done, MBE_NONE, MBE_ILLEGAL_DATA_ADDRESS
    <2>6. CASE ~OutOfRange(f)
        <3>1. ExceptionOf(f) =
                Limit_Check_in_Request(First(Refused(f)), f.val[First(Refused(f))])
            BY <2>1, <2>4, <2>6 DEF ExceptionOf
        <3>2. QED
            BY <3>1, <2>3 DEF Done
    <2>7. QED
        BY <2>5, <2>6
<1>4. QED
    BY <1>3 DEF Refused

\* So it writes only allowed values.
LEMMA DoneMeansAllowed ==
    ASSUME NEW f \in Request, Writes(f), Done(f)
    PROVE  \A r \in Block(f) : Limit_Check(r, f.val[r])
BY DoneMeansNoneRefused DEF Limit_Check_in_Request, MBE_NONE,
   MBE_ILLEGAL_DATA_ADDRESS, MBE_ILLEGAL_DATA_VALUE

--------------------------------------------------------------------------------
(* Types *)

\* Every action of main keeps the types.
LEMMA MainType ==
    ASSUME TypeOK, Main
    PROVE  TypeOK'
<1>1. ASSUME NEW S \in SUBSET EESaved,
             NEW img \in [EESaved -> Value \cup {NotFound}],
             BufInitFrom(S, img)
      PROVE  TypeOK'
    <2>1. \A r \in S : Loaded[r] \in Value
        BY LoadedLawful DEF TypeOK
    <2>2. Loop("MAIN", S, Loaded, img, "none") /\ stored' = img
          /\ ram' = Assigned(S, Loaded, img)
        BY <1>1 DEF BufInitFrom
    <2>3. ram' \in [Reg -> Value]
        BY <2>1, <2>2, AssignedType DEF TypeOK, NvsTypeOK
    <2>4. /\ job' \in [Thread -> Jobs \cup {NoJob}]
          /\ nvs_lock' \in Thread \cup {"none"}
          /\ missed' \subseteq EESaved
        BY <2>1, <2>2, LoopType DEF TypeOK, Thread
    <2>5. NvsTypeOK'
        BY <2>2, <2>3, <2>4 DEF NvsTypeOK
    <2>6. boot' \in {"start", "mh_Buf_Init", "done"}
        BY <1>1 DEF BufInitFrom
    <2>7. QED
        BY <1>1, <2>5, <2>6
        DEF BufInitFrom, TypeOK, CdcTypeOK, cdcVars, mbVars, Reply
<1>2. CASE mh_Buf_Init
    BY <1>1, <1>2 DEF mh_Buf_Init, TypeOK, NvsTypeOK
<1>3. CASE mh_Buf_Init_Written
    <2>1. PICK img \in Outcome("MAIN") :
             BufInitFrom({r \in EESaved : r > job["MAIN"].reg}, img)
        BY <1>3 DEF mh_Buf_Init_Written
    <2>2. img \in [EESaved -> Value \cup {NotFound}]
        BY <1>3, OutcomeType DEF mh_Buf_Init_Written, Thread, TypeOK
    <2>3. QED
        BY <1>1, <2>1, <2>2
<1>4. QED
    BY <1>2, <1>3 DEF Main

\* The callback keeps the types; that the queue holds at most one node needs
\* OneTransaction.
LEMMA UsbWorkQueueType ==
    ASSUME TypeOK, OneTransaction, RxHasData, UsbWorkQueue
    PROVE  TypeOK'
<1>1. CASE uart_usb_interrupt_handler
    <2>1. NvsTypeOK'
        BY <1>1 DEF uart_usb_interrupt_handler, nvsVars, TypeOK, NvsTypeOK
    <2>2. CdcTypeOK'
        BY <1>1 DEF uart_usb_interrupt_handler, TypeOK, CdcTypeOK
    <2>3. Accepts => mh_queue = 0 /\ rx_ring \in Request \cup {Garbled}
        BY DEF Accepts, All_Idle_Check, OneTransaction, TypeOK, CdcTypeOK, Chunk,
               RxHasData
    <2>4. mh_queue' \in 0..1
        BY <1>1, <2>3 DEF uart_usb_interrupt_handler, TypeOK
    <2>5. p_mb_buff' \in Request \cup {Garbled, NoData} \cup Reply
        BY <1>1, <2>3 DEF uart_usb_interrupt_handler, TypeOK
    <2>6. mb_state' \in {"STATE_IDLE", "STATE_PARS", "STATE_SEND"}
        BY <1>1 DEF uart_usb_interrupt_handler, TypeOK
    <2>7. QED
        BY <1>1, <2>1, <2>2, <2>4, <2>5, <2>6
        DEF uart_usb_interrupt_handler, TypeOK, pcVars, Reply
<1>2. CASE uart_usb_interrupt_return
    BY <1>2 DEF uart_usb_interrupt_return, nvsVars, mbVars, pcVars,
                TypeOK, NvsTypeOK, CdcTypeOK, Reply
<1>3. QED
    BY <1>1, <1>2 DEF UsbWorkQueue

\* A request leaves a register file of values and builds a reply.
LEMMA RequestType ==
    ASSUME TypeOK, NEW f \in Request
    PROVE  /\ WrittenRam(f) \in [Reg -> Value]
           /\ ReplyTo(f) \in Reply
           /\ f.start \in Nat /\ f.count \in Nat
<1>1. f \in Frame
    BY RequestAssumption
<1>2. f.start \in Nat /\ f.count \in Nat /\ f.val \in [Reg -> Value]
    BY <1>1 DEF Frame
<1>3. ram \in [Reg -> Value]
    BY DEF TypeOK, NvsTypeOK
<1>4. WrittenRam(f) \in [Reg -> Value]
    BY <1>2, <1>3 DEF WrittenRam
<1>5. ExceptionOf(f) \in Exception
    BY DEF ExceptionOf, Exception, Limit_Check_in_Request, MBE_NONE,
           MBE_ILLEGAL_FUNCTION, MBE_ILLEGAL_DATA_ADDRESS, MBE_ILLEGAL_DATA_VALUE
<1>6. (IF f.fn = "Read" /\ Done(f) THEN Block(f) ELSE {}) \in SUBSET Reg
    <2>1. SUFFICES ASSUME f.fn = "Read", Done(f) PROVE Block(f) \subseteq Reg
        OBVIOUS
    <2>2. ~OutOfRange(f)
        BY <2>1 DEF Done, ExceptionOf, Writes, MBE_NONE, MBE_ILLEGAL_DATA_ADDRESS
    <2>3. QED
        BY <1>2, <2>2, RegLastAssumption DEF OutOfRange, Block, Reg
<1>7. ReplyTo(f) \in Reply
    <2> DEFINE S == IF f.fn = "Read" /\ Done(f) THEN Block(f) ELSE {}
    <2>1. [r \in S |-> ram[r]] \in [S -> Value]
        BY <1>3, <1>6
    <2>2. [r \in S |-> ram[r]] \in UNION {[T -> Value] : T \in SUBSET Reg}
        BY <2>1, <1>6
    <2>3. QED
        BY <1>5, <2>2 DEF ReplyTo, Reply
<1>8. QED
    BY <1>2, <1>4, <1>7

\* The loop of mh_Write_Eeprom keeps the types of the store and of the thread.
LEMMA WriteEepromType ==
    ASSUME NvsTypeOK, NEW S \in SUBSET EESaved,
           NEW mem \in [Reg -> Value], NEW img,
           NEW lock \in Thread \cup {"none"},
           WriteEepromFrom(S, mem, img, lock)
    PROVE  /\ job' \in [Thread -> Jobs \cup {NoJob}]
           /\ nvs_lock' \in Thread \cup {"none"}
           /\ missed' \subseteq EESaved
           /\ mb_pc' \in {"nvs_write", "sleep"}
<1>1. \A r \in S : mem[r] \in Value
    BY SavedAreNat
<1>2. Loop("MB", S, mem, img, lock)
    BY DEF WriteEepromFrom
<1>3. "MB" \in Thread
    BY DEF Thread
<1>4. QED
    BY <1>1, <1>2, <1>3, LoopType DEF WriteEepromFrom

\* Parsing a valid frame keeps the types.
LEMMA ParseType ==
    ASSUME TypeOK, NEW f \in Request, MBparsing(f)
    PROVE  TypeOK'
<1>1. /\ ram' \in [Reg -> Value]
      /\ p_mb_buff' \in Request \cup {Garbled, NoData} \cup Reply
      /\ eep_start_save' \in Nat /\ eep_indx' \in Nat
    BY RequestType DEF MBparsing, TypeOK
<1>2. /\ job' \in [Thread -> Jobs \cup {NoJob}]
      /\ nvs_lock' \in Thread \cup {"none"}
      /\ missed' \subseteq EESaved
      /\ mb_pc' \in {"start", "queue_get", "nvs_write", "sleep"}
    <2>1. CASE Saves(f)
        <3>1. WriteEepromFrom(Block(f) \cap EESaved, WrittenRam(f), stored, nvs_lock)
            BY <2>1 DEF MBparsing
        <3>2. WrittenRam(f) \in [Reg -> Value]
            BY RequestType
        <3>3. NvsTypeOK /\ nvs_lock \in Thread \cup {"none"}
            BY DEF TypeOK, NvsTypeOK
        <3>4. QED
            BY <3>1, <3>2, <3>3, WriteEepromType
    <2>2. CASE ~Saves(f)
        BY <2>2 DEF MBparsing, TypeOK, NvsTypeOK
    <2>3. QED
        BY <2>1, <2>2
<1>3. NvsTypeOK'
    BY <1>1, <1>2 DEF MBparsing, TypeOK, NvsTypeOK
<1>4. CdcTypeOK'
    BY DEF MBparsing, mh_USB_Transmit_Start, TypeOK, CdcTypeOK
<1>5. mh_queue' \in 0..1
    BY DEF MBparsing, TypeOK
<1>6. mb_state' \in {"STATE_IDLE", "STATE_PARS", "STATE_SEND"}
    BY DEF MBparsing
<1>7. eep_state' \in {"EEP_FREE", "EEP_SAVE"}
    BY DEF MBparsing
<1>8. com_pc' \in {"sleep", "mh_Factory"} /\ boot' \in {"start", "mh_Buf_Init", "done"}
    BY DEF MBparsing, TypeOK
<1>9. QED
    BY <1>1, <1>2, <1>3, <1>4, <1>5, <1>6, <1>7, <1>8 DEF TypeOK, Reply

\* Being handed nvs_lock keeps the types.
LEMMA LockGrantedType ==
    ASSUME TypeOK, NEW t \in Thread, Nvs_Lock_Granted(t)
    PROVE  TypeOK'
<1>1. Nvs_Locked(t)
    BY DEF Nvs_Lock_Granted
<1>2. job[t] \in Jobs
    <2>1. job[t] # NoJob
        BY <1>1, SentinelAssumption DEF Nvs_Locked, NoJob
    <2>2. QED
        BY <2>1 DEF TypeOK, NvsTypeOK
<1>3. ram[job[t].reg] \in Value
    BY <1>2, SavedAreNat DEF Jobs, TypeOK, NvsTypeOK
<1>4. [job[t] EXCEPT !.val = ram[job[t].reg]] \in Jobs
    BY <1>2, <1>3 DEF Jobs
<1>5. job' \in [Thread -> Jobs \cup {NoJob}]
    BY <1>1, <1>4 DEF Nvs_Locked, TypeOK, NvsTypeOK
<1>6. QED
    BY <1>1, <1>5 DEF Nvs_Lock_Granted, Nvs_Locked, cdcVars, mbVars, pcVars,
                      TypeOK, NvsTypeOK, CdcTypeOK, Reply

\* Every action of the Modbus thread keeps the types.
LEMMA ModbusThreadType ==
    ASSUME TypeOK, ModbusThread
    PROVE  TypeOK'
<1>1. CASE mh_task_Modbus_start
    BY <1>1 DEF mh_task_Modbus_start, nvsVars, mbVars,
                TypeOK, NvsTypeOK, CdcTypeOK, Reply
<1>2. CASE MBparsing_Invalid
    BY <1>2 DEF MBparsing_Invalid, nvsVars, cdcVars, pcVars,
                TypeOK, NvsTypeOK, CdcTypeOK, Reply
<1>3. CASE \E f \in Request : MBparsing(f)
    BY <1>3, ParseType
<1>4. CASE Nvs_Lock_Granted("MB")
    BY <1>4, LockGrantedType DEF Thread
<1>5. CASE mh_Write_Eeprom_Written
    <2>1. PICK img \in Outcome("MB") :
             /\ stored' = img
             /\ WriteEepromFrom({r \in Window \cap EESaved : r > job["MB"].reg},
                                ram, img, Released("MB"))
        BY <1>5 DEF mh_Write_Eeprom_Written
    <2>2. img \in [EESaved -> Value \cup {NotFound}]
        BY <1>5, OutcomeType DEF mh_Write_Eeprom_Written, Thread, TypeOK
    <2>3. Released("MB") \in Thread \cup {"none"}
        BY ReleasedType DEF Thread
    <2>4. ram \in [Reg -> Value] /\ NvsTypeOK
        BY DEF TypeOK, NvsTypeOK
    <2>5. /\ job' \in [Thread -> Jobs \cup {NoJob}]
          /\ nvs_lock' \in Thread \cup {"none"}
          /\ missed' \subseteq EESaved
          /\ mb_pc' \in {"nvs_write", "sleep"}
        BY <2>1, <2>3, <2>4, WriteEepromType
    <2>6. NvsTypeOK'
        BY <1>5, <2>1, <2>2, <2>5 DEF mh_Write_Eeprom_Written, TypeOK, NvsTypeOK
    <2>7. QED
        BY <1>5, <2>5, <2>6
        DEF mh_Write_Eeprom_Written, cdcVars, mbVars, TypeOK, CdcTypeOK, Reply
<1>6. CASE mh_Write_Eeprom_return
    BY <1>6 DEF mh_Write_Eeprom_return, nvsVars, cdcVars,
                TypeOK, NvsTypeOK, CdcTypeOK, Reply
<1>7. QED
    BY <1>1, <1>2, <1>3, <1>4, <1>5, <1>6 DEF ModbusThread

\* A reset establishes the types.
LEMMA ResetType ==
    ASSUME TypeOK, Reset
    PROVE  TypeOK'
<1>1. stored' \in [EESaved -> Value \cup {NotFound}]
    <2>1. \A t \in Thread : Writing(t) => Commit(t) \in [EESaved -> Value \cup {NotFound}]
        BY OutcomeType DEF Outcome, TypeOK
    <2>2. QED
        BY <2>1 DEF Reset, Nvs_Reset, TypeOK, NvsTypeOK
<1>2. job' \in [Thread -> Jobs \cup {NoJob}]
    BY DEF Reset, Nvs_Reset
<1>3. NvsTypeOK'
    BY <1>1, <1>2, ValueAssumption DEF Reset, MemoryCleared, Nvs_Reset, NvsTypeOK
<1>4. CdcTypeOK'
    BY DEF Reset, CdcReset, CdcTypeOK
<1>5. QED
    BY <1>3, <1>4 DEF Reset, MemoryCleared, TypeOK

\* Every action of com_task keeps the types.
LEMMA ComTaskType ==
    ASSUME TypeOK, ComTask
    PROVE  TypeOK'
<1>1. ASSUME NEW S \in SUBSET EESaved,
             NEW img \in [EESaved -> Value \cup {NotFound}],
             NEW lock \in Thread \cup {"none"},
             FactoryFrom(S, img, lock)
      PROVE  TypeOK'
    <2>1. \A r \in S : Default[r] \in Value
        BY DefaultAssumption, SavedAreNat
    <2>2. Loop("COM", S, Default, img, lock) /\ stored' = img
        BY <1>1 DEF FactoryFrom
    <2>3. Assigned(S, Default, img) \in [Reg -> Value]
        BY <2>1, AssignedType DEF TypeOK, NvsTypeOK
    <2>4. ram' \in [Reg -> Value]
        BY <1>1, <2>3, ValueAssumption DEF FactoryFrom
    <2>5. /\ job' \in [Thread -> Jobs \cup {NoJob}]
          /\ nvs_lock' \in Thread \cup {"none"}
          /\ missed' \subseteq EESaved
        BY <2>1, <2>2, LoopType DEF TypeOK, Thread
    <2>6. NvsTypeOK'
        BY <2>2, <2>4, <2>5 DEF NvsTypeOK
    <2>7. com_pc' \in {"sleep", "mh_Factory"}
        BY <1>1 DEF FactoryFrom
    <2>8. QED
        BY <1>1, <2>6, <2>7
        DEF FactoryFrom, cdcVars, mbVars, TypeOK, CdcTypeOK, Reply
<1>2. CASE mh_Factory
    BY <1>1, <1>2 DEF mh_Factory, TypeOK, NvsTypeOK
<1>3. CASE Nvs_Lock_Granted("COM")
    BY <1>3, LockGrantedType DEF Thread
<1>4. CASE mh_Factory_Written
    <2>1. PICK img \in Outcome("COM") :
             FactoryFrom({r \in EESaved : r > job["COM"].reg}, img, Released("COM"))
        BY <1>4 DEF mh_Factory_Written
    <2>2. img \in [EESaved -> Value \cup {NotFound}]
        BY <1>4, OutcomeType DEF mh_Factory_Written, Thread, TypeOK
    <2>3. Released("COM") \in Thread \cup {"none"}
        BY ReleasedType DEF Thread
    <2>4. QED
        BY <1>1, <2>1, <2>2, <2>3
<1>5. CASE command_control_restart
    BY <1>5, ResetType DEF command_control_restart
<1>6. CASE command_control_other
    <2>1. ram' \in [Reg -> Value]
        BY <1>6, ValueAssumption DEF command_control_other, TypeOK, NvsTypeOK
    <2>2. QED
        BY <1>6, <2>1 DEF command_control_other, nvsVars, cdcVars, mbVars, pcVars,
                          TypeOK, NvsTypeOK, CdcTypeOK, Reply
<1>7. QED
    BY <1>2, <1>3, <1>4, <1>5, <1>6 DEF ComTask

\* Every event of the bus keeps the types.
LEMMA UsbBusType ==
    ASSUME TypeOK, UsbBus
    PROVE  TypeOK'
<1>1. CdcTypeOK'
    BY DEF UsbBus, Bus, cdc_acm_read_cb, cdc_acm_write_cb, BusConfigured,
           cdc_acm_reset_port, BusSuspended, BusResumed, TypeOK, CdcTypeOK, Chunk
<1>2. QED
    BY <1>1 DEF UsbBus, nvsVars, mbVars, pcVars, TypeOK, NvsTypeOK, Reply


\* Every step keeps the types.
LEMMA NextType ==
    ASSUME TypeOK, OneTransaction, RxHasData, [Next]_vars
    PROVE  TypeOK'
<1>1. CASE Main
    BY <1>1, MainType
<1>2. CASE UsbWorkQueue
    BY <1>2, UsbWorkQueueType
<1>3. CASE ModbusThread
    BY <1>3, ModbusThreadType
<1>4. CASE ComTask
    BY <1>4, ComTaskType
<1>5. CASE UsbBus
    BY <1>5, UsbBusType
<1>6. CASE Reset
    BY <1>6, ResetType
<1>7. CASE UNCHANGED vars
    BY <1>7 DEF vars, nvsVars, cdcVars, mbVars, pcVars,
                TypeOK, NvsTypeOK, CdcTypeOK, Reply
<1>8. QED
    BY <1>1, <1>2, <1>3, <1>4, <1>5, <1>6, <1>7 DEF Next

--------------------------------------------------------------------------------
(* Control: who may touch the node, the buffer and the transmitter *)

\* A reset establishes the control invariant.
LEMMA ResetControl ==
    ASSUME Reset
    PROVE  Control'
BY DEF Reset, MemoryCleared, CdcReset, Control, OneTransaction,
       TxOnlyWhileSending, SaveExclusive, NoLostWakeup, IrqPending,
       SaveState, BootAlone, RxHasData

\* The callback accepts a frame only when the node and the buffer are free, and
\* stays on the work queue until nothing is pending.
LEMMA UsbWorkQueueControl ==
    ASSUME TypeOK, Control, UsbWorkQueue
    PROVE  Control'
<1>1. CASE uart_usb_interrupt_handler
    <2> USE <1>1 DEF uart_usb_interrupt_handler, Control
    <2>1. Accepts => /\ mh_queue = 0 /\ mb_state = "STATE_IDLE"
                     /\ eep_state = "EEP_FREE"
                     /\ rx_ring \in Request \cup {Garbled}
        BY DEF Accepts, All_Idle_Check, OneTransaction, TypeOK, CdcTypeOK, Chunk,
               RxHasData
    <2>2. Sends => mb_state = "STATE_SEND" /\ mh_queue # 1
        BY DEF Sends, OneTransaction
    <2>3. OneTransaction'
        BY <2>1, <2>2 DEF OneTransaction
    <2>4. TxOnlyWhileSending'
        BY <2>1 DEF TxOnlyWhileSending
    <2>5. SaveExclusive'
        BY <2>1 DEF SaveExclusive, pcVars
    <2>6. NoLostWakeup' /\ RxHasData'
        BY DEF NoLostWakeup, RxHasData
    <2>7. SaveState' /\ BootAlone'
        BY DEF SaveState, BootAlone, pcVars
    <2>8. QED
        BY <2>3, <2>4, <2>5, <2>6, <2>7
<1>2. CASE uart_usb_interrupt_return
    BY <1>2 DEF uart_usb_interrupt_return, mbVars, pcVars, Control, OneTransaction,
                TxOnlyWhileSending, SaveExclusive, NoLostWakeup, IrqPending,
                SaveState, BootAlone, RxHasData, Reply
<1>3. QED
    BY <1>1, <1>2 DEF UsbWorkQueue

\* A parsed frame leaves the queue for a reply or for nothing, and a save that
\* it starts closes the callback.
LEMMA ParseControl ==
    ASSUME TypeOK, Control, NEW f \in Request, MBparsing(f)
    PROVE  Control'
<1> USE DEF MBparsing, Control
<1>1. mh_queue = 1 /\ mb_state = "STATE_PARS" /\ mh_queue' = 0 /\ ~tx_irq_ena
    BY DEF OneTransaction, TxOnlyWhileSending, TypeOK
<1>2. boot = "done"
    BY DEF BootAlone
<1>3. ~f.broadcast => p_mb_buff' \in Reply
    BY RequestType
<1>4. OneTransaction'
    BY <1>1, <1>3 DEF OneTransaction, Reply
<1>5. TxOnlyWhileSending'
    BY <1>1 DEF TxOnlyWhileSending
<1>6. /\ Saves(f) => mb_pc' \in {"nvs_write", "sleep"} /\ eep_state' = "EEP_SAVE"
      /\ ~Saves(f) => mb_pc' = "queue_get" /\ eep_state' = "EEP_FREE"
    BY DEF WriteEepromFrom
<1>7. SaveExclusive' /\ SaveState'
    BY <1>1, <1>6 DEF SaveExclusive, SaveState
<1>8. NoLostWakeup'
    BY DEF NoLostWakeup, IrqPending, mh_USB_Transmit_Start
<1>9. BootAlone' /\ RxHasData'
    BY <1>2 DEF BootAlone, RxHasData
<1>10. QED
    BY <1>4, <1>5, <1>7, <1>8, <1>9

\* Every action of the Modbus thread keeps the control invariant.
LEMMA ModbusThreadControl ==
    ASSUME TypeOK, Control, ModbusThread
    PROVE  Control'
<1> USE DEF Control, OneTransaction, TxOnlyWhileSending, SaveExclusive, NoLostWakeup,
            IrqPending, SaveState, BootAlone, RxHasData
<1>1. CASE mh_task_Modbus_start
    BY <1>1 DEF mh_task_Modbus_start, mbVars, Reply
<1>2. CASE MBparsing_Invalid
    <2>1. mb_state = "STATE_PARS" /\ mh_queue' = 0
        BY <1>2 DEF MBparsing_Invalid, TypeOK
    <2>2. QED
        BY <1>2, <2>1 DEF MBparsing_Invalid, cdcVars, pcVars
<1>3. CASE \E f \in Request : MBparsing(f)
    BY <1>3, ParseControl
<1>4. CASE Nvs_Lock_Granted("MB")
    BY <1>4 DEF Nvs_Lock_Granted, cdcVars, mbVars, pcVars, Reply
<1>5. CASE mh_Write_Eeprom_Written
    <2>1. mb_pc = "nvs_write" /\ mb_pc' \in {"nvs_write", "sleep"}
        BY <1>5 DEF mh_Write_Eeprom_Written, WriteEepromFrom
    <2>2. QED
        BY <1>5, <2>1 DEF mh_Write_Eeprom_Written, cdcVars, mbVars, Reply
<1>6. CASE mh_Write_Eeprom_return
    BY <1>6 DEF mh_Write_Eeprom_return, cdcVars, Reply
<1>7. QED
    BY <1>1, <1>2, <1>3, <1>4, <1>5, <1>6 DEF ModbusThread

\* No event of the bus makes the receiver ready without data, or the callback's
\* work pending without queueing the callback.
LEMMA UsbBusControl ==
    ASSUME TypeOK, Control, UsbBus
    PROVE  Control'
<1> USE DEF Control, NoLostWakeup, IrqPending, RxHasData
<1>1. RxHasData'
    BY ChunkAssumption
    DEF UsbBus, Bus, cdc_acm_read_cb, cdc_acm_write_cb, BusConfigured,
        cdc_acm_reset_port, BusSuspended, BusResumed, Chunk
<1>2. NoLostWakeup'
    BY DEF UsbBus, Bus, cdc_acm_read_cb, cdc_acm_write_cb, BusConfigured,
           cdc_acm_reset_port, BusSuspended, BusResumed
<1>3. tx_irq_ena' = tx_irq_ena
    BY DEF UsbBus, Bus, cdc_acm_read_cb, cdc_acm_write_cb, BusConfigured,
           cdc_acm_reset_port, BusSuspended, BusResumed
<1>4. QED
    BY <1>1, <1>2, <1>3
    DEF UsbBus, mbVars, pcVars, OneTransaction, TxOnlyWhileSending, SaveExclusive,
        SaveState, BootAlone, Reply

\* Every step keeps the control invariant.
LEMMA NextControl ==
    ASSUME TypeOK, Control, [Next]_vars
    PROVE  Control'
<1> DEFINE Same == UNCHANGED <<cdcVars, mbVars, mb_pc>>
<1>1. ASSUME Same, BootAlone' PROVE Control'
    BY <1>1 DEF Control, OneTransaction, TxOnlyWhileSending, SaveExclusive,
                NoLostWakeup, IrqPending, SaveState, RxHasData, cdcVars, mbVars, Reply
<1>2. CASE Main
    BY <1>1, <1>2 DEF Main, mh_Buf_Init, mh_Buf_Init_Written, BufInitFrom,
                      Control, BootAlone
<1>3. CASE UsbWorkQueue
    BY <1>3, UsbWorkQueueControl
<1>4. CASE ModbusThread
    BY <1>4, ModbusThreadControl
<1>5. CASE ComTask
    <2>1. CASE mh_Factory \/ mh_Factory_Written
        BY <1>1, <2>1 DEF mh_Factory, mh_Factory_Written, FactoryFrom, CommandSeen,
                          Control, BootAlone
    <2>2. CASE Nvs_Lock_Granted("COM")
        BY <1>1, <2>2 DEF Nvs_Lock_Granted, pcVars, Control, BootAlone
    <2>3. CASE command_control_restart
        BY <2>3, ResetControl DEF command_control_restart
    <2>4. CASE command_control_other
        BY <1>1, <2>4 DEF command_control_other, pcVars, Control, BootAlone
    <2>5. QED
        BY <1>5, <2>1, <2>2, <2>3, <2>4 DEF ComTask
<1>6. CASE UsbBus
    BY <1>6, UsbBusControl
<1>7. CASE Reset
    BY <1>7, ResetControl
<1>8. CASE UNCHANGED vars
    BY <1>1, <1>8 DEF vars, pcVars, Control, BootAlone
<1>9. QED
    BY <1>2, <1>3, <1>4, <1>5, <1>6, <1>7, <1>8 DEF Next


--------------------------------------------------------------------------------
(* Limits *)

\* Where the loop of mh_Buf_Init or mh_Factory passes, RAM holds what it loads.
LEMMA AssignedValue ==
    ASSUME NEW S \in SUBSET EESaved, NEW mem, NEW img, NEW r \in EESaved,
           r \in S => /\ r \in Reached(S, mem, img)
                      /\ Limit_Check(r, mem[r]),
           r \notin S => Limit_Check(r, ram[r])
    PROVE  Limit_Check(r, Assigned(S, mem, img)[r])
<1>1. r \in Reg
    BY SavedAreNat
<1>2. Reached(S, mem, img) \subseteq S
    BY DEF Reached
<1>3. QED
    BY <1>1, <1>2 DEF Assigned

\* mh_Buf_Init has dealt with every register up to the one it waits for, and
\* with all of them when it is over.
LEMMA MainLimits ==
    ASSUME TypeOK, Limits, Main
    PROVE  Limits'
<1>1. ASSUME NEW S \in SUBSET EESaved, NEW img,
             \A r \in EESaved \ S : Limit_Check(r, ram[r]),
             BufInitFrom(S, img)
      PROVE  Limits'
    <2> DEFINE D == Dirty(S, Loaded, img)
    <2>1. \A r \in S : Limit_Check(r, Loaded[r])
        BY LoadedLawful DEF TypeOK
    <2>2. ram' = Assigned(S, Loaded, img)
        BY <1>1 DEF BufInitFrom
    <2>3. CASE D = {}
        <3>1. boot' = "done"
            BY <1>1, <2>3 DEF BufInitFrom
        <3>2. \A r \in EESaved : Limit_Check(r, ram'[r])
            BY <1>1, <2>1, <2>2, <2>3, AssignedValue DEF Reached
        <3>3. QED
            BY <3>1, <3>2 DEF Limits, LimitsHold, BootProgress, Limit_Check
    <2>4. CASE D # {}
        <3>1. boot' = "mh_Buf_Init"
            BY <1>1, <2>4 DEF BufInitFrom
        <3>2. job'["MAIN"].reg = First(D)
            BY <1>1, <2>4 DEF BufInitFrom, Loop, TypeOK, NvsTypeOK, Thread
        <3>3. \A r \in EESaved : r =< First(D) => Limit_Check(r, ram'[r])
            BY <1>1, <2>1, <2>2, <2>4, AssignedValue DEF Reached
        <3>4. QED
            BY <3>1, <3>2, <3>3 DEF Limits, LimitsHold, BootProgress, Limit_Check
    <2>5. QED
        BY <2>3, <2>4
<1>2. CASE mh_Buf_Init
    BY <1>1, <1>2 DEF mh_Buf_Init
<1>3. CASE mh_Buf_Init_Written
    <2>1. PICK img \in Outcome("MAIN") :
             BufInitFrom({r \in EESaved : r > job["MAIN"].reg}, img)
        BY <1>3 DEF mh_Buf_Init_Written
    <2>2. job["MAIN"].reg \in EESaved
        BY <1>3, OutcomeType, <2>1 DEF mh_Buf_Init_Written, Thread, TypeOK
    <2>3. \A r \in EESaved : ~(r > job["MAIN"].reg) => r =< job["MAIN"].reg
        <3>1. ASSUME NEW r \in EESaved, ~(r > job["MAIN"].reg) PROVE r =< job["MAIN"].reg
            <4>1. r \in Nat /\ job["MAIN"].reg \in Nat
                BY <2>2, SavedAreNat
            <4>2. QED
                BY <3>1, <4>1
        <3>2. QED
            BY <3>1
    <2>4. \A r \in EESaved \ {q \in EESaved : q > job["MAIN"].reg} :
             Limit_Check(r, ram[r])
        BY <1>3, <2>3 DEF mh_Buf_Init_Written, Limits, BootProgress
    <2>5. QED
        BY <1>1, <2>1, <2>4
<1>4. QED
    BY <1>2, <1>3 DEF Main

\* A request writes only values that Limit_Check_in_Request has passed.
LEMMA ParseLimits ==
    ASSUME TypeOK, Control, Limits, NEW f \in Request, MBparsing(f)
    PROVE  Limits'
<1>1. boot = "done" /\ boot' = "done" /\ ram' = WrittenRam(f)
    BY DEF MBparsing, Control, BootAlone
<1>2. \A r \in EESaved : Limit_Check(r, WrittenRam(f)[r])
    <2> SUFFICES ASSUME NEW r \in EESaved PROVE Limit_Check(r, WrittenRam(f)[r])
        OBVIOUS
    <2>1. r \in Reg
        BY SavedAreNat
    <2>2. CASE Writes(f) /\ Done(f) /\ r \in Block(f)
        <3>1. Limit_Check(r, f.val[r])
            BY <2>2, DoneMeansAllowed
        <3>2. WrittenRam(f)[r] = f.val[r]
            BY <2>1, <2>2 DEF WrittenRam
        <3>3. QED
            BY <3>1, <3>2
    <2>3. CASE ~(Writes(f) /\ Done(f) /\ r \in Block(f))
        <3>1. WrittenRam(f)[r] = ram[r]
            BY <2>1, <2>3 DEF WrittenRam
        <3>2. QED
            BY <1>1, <3>1 DEF Limits, LimitsHold
    <2>4. QED
        BY <2>2, <2>3
<1>3. QED
    BY <1>1, <1>2 DEF Limits, LimitsHold, BootProgress, Limit_Check

\* mh_Factory assigns defaults, which are inside the limits; the command
\* register, which it clears, is not a saved one.
LEMMA FactoryLimits ==
    ASSUME TypeOK, Limits, boot = "done",
           NEW S \in SUBSET EESaved, NEW img, NEW lock, FactoryFrom(S, img, lock)
    PROVE  Limits'
<1>1. boot' = "done"
    BY DEF FactoryFrom
<1>2. \A r \in EESaved : Limit_Check(r, Assigned(S, Default, img)[r])
    <2> SUFFICES ASSUME NEW r \in EESaved
                 PROVE  Limit_Check(r, Assigned(S, Default, img)[r])
        OBVIOUS
    <2>1. r \in Reg /\ Limit_Check(r, Default[r]) /\ Limit_Check(r, ram[r])
        BY SavedAreNat, DefaultAssumption DEF Limits, LimitsHold, Limit_Check
    <2>2. Reached(S, Default, img) \subseteq S
        BY DEF Reached
    <2>3. QED
        BY <2>1 DEF Assigned
<1>3. \A r \in EESaved : ram'[r] = Assigned(S, Default, img)[r]
    <2>1. Reg_Send_Command \notin EESaved
        BY CommandAssumption
    <2>2. QED
        BY <2>1, SavedAreNat DEF FactoryFrom, Assigned
<1>4. QED
    BY <1>1, <1>2, <1>3 DEF Limits, LimitsHold, BootProgress, Limit_Check

\* Every step keeps the limits.
LEMMA NextLimits ==
    ASSUME TypeOK, Control, Limits, [Next]_vars
    PROVE  Limits'
<1>1. ASSUME ram' = ram, boot' = boot, job'["MAIN"] = job["MAIN"]
      PROVE  Limits'
    BY <1>1 DEF Limits, LimitsHold, BootProgress, Limit_Check
<1>2. ASSUME NEW t \in Thread \ {"MAIN"}, Nvs_Lock_Granted(t)
      PROVE  Limits'
    BY <1>1, <1>2 DEF Nvs_Lock_Granted, Nvs_Locked, pcVars, TypeOK, NvsTypeOK, Thread
<1>3. ASSUME boot = "done", boot' = "done", ram' = ram
      PROVE  Limits'
    BY <1>3 DEF Limits, LimitsHold, BootProgress, Limit_Check
<1>4. CASE Reset
    BY <1>4 DEF Reset, MemoryCleared, Limits, LimitsHold, BootProgress
<1>5. CASE Main
    BY <1>5, MainLimits
<1>6. CASE UsbWorkQueue \/ UsbBus
    BY <1>1, <1>6 DEF UsbWorkQueue, uart_usb_interrupt_handler,
                      uart_usb_interrupt_return, UsbBus, nvsVars, pcVars
<1>7. CASE ModbusThread
    <2>1. CASE mh_task_Modbus_start \/ MBparsing_Invalid \/ mh_Write_Eeprom_return
        BY <1>1, <2>1 DEF mh_task_Modbus_start, MBparsing_Invalid,
                          mh_Write_Eeprom_return, nvsVars, pcVars
    <2>2. CASE \E f \in Request : MBparsing(f)
        BY <2>2, ParseLimits
    <2>3. CASE Nvs_Lock_Granted("MB")
        BY <1>2, <2>3 DEF Thread
    <2>4. CASE mh_Write_Eeprom_Written
        BY <1>3, <2>4 DEF mh_Write_Eeprom_Written, Control, BootAlone
    <2>5. QED
        BY <1>7, <2>1, <2>2, <2>3, <2>4 DEF ModbusThread
<1>8. CASE ComTask
    <2>1. CASE mh_Factory
        BY <2>1, FactoryLimits DEF mh_Factory, CommandSeen
    <2>2. CASE Nvs_Lock_Granted("COM")
        BY <1>2, <2>2 DEF Thread
    <2>3. CASE mh_Factory_Written
        <3>1. boot = "done"
            BY <2>3 DEF mh_Factory_Written, Control, BootAlone
        <3>2. QED
            BY <2>3, <3>1, FactoryLimits DEF mh_Factory_Written
    <2>4. CASE command_control_restart
        BY <1>4, <2>4 DEF command_control_restart
    <2>5. CASE command_control_other
        <3>1. /\ boot = "done" /\ boot' = "done"
              /\ ram' = [ram EXCEPT ![Reg_Send_Command] = 0]
            BY <2>5 DEF command_control_other, CommandSeen, pcVars
        <3>2. Reg_Send_Command \notin EESaved /\ EESaved \subseteq Reg
              /\ ram \in [Reg -> Value]
            BY CommandAssumption, SavedAreNat DEF TypeOK, NvsTypeOK
        <3>3. \A r \in EESaved : ram'[r] = ram[r]
            BY <3>1, <3>2
        <3>4. QED
            BY <3>1, <3>3 DEF Limits, LimitsHold, BootProgress, Limit_Check
    <2>6. QED
        BY <1>8, <2>1, <2>2, <2>3, <2>4, <2>5 DEF ComTask
<1>9. CASE UNCHANGED vars
    BY <1>1, <1>9 DEF vars, nvsVars, pcVars
<1>10. QED
    BY <1>4, <1>5, <1>6, <1>7, <1>8, <1>9 DEF Next


--------------------------------------------------------------------------------
(* Theorems *)

\* The state a reset leaves satisfies the invariant, whatever flash holds.
LEMMA InitIInv == Init => IInv
<1> SUFFICES ASSUME Init PROVE IInv
    OBVIOUS
<1>1. NvsTypeOK
    <2>1. ram \in [Reg -> Value]
        BY ValueAssumption DEF Init
    <2>2. QED
        BY <2>1 DEF Init, NvsInit, NvsTypeOK
<1>2. CdcTypeOK
    BY DEF Init, CdcInit, CdcTypeOK
<1>3. TypeOK
    BY <1>1, <1>2 DEF Init, TypeOK
<1>4. Control
    BY DEF Init, CdcInit, Control, OneTransaction, TxOnlyWhileSending,
           SaveExclusive, NoLostWakeup, IrqPending, SaveState, BootAlone, RxHasData
<1>5. Limits
    BY DEF Init, Limits, LimitsHold, BootProgress
<1>6. QED
    BY <1>3, <1>4, <1>5 DEF IInv

\* Every step keeps the invariant.
LEMMA NextIInv == IInv /\ [Next]_vars => IInv'
<1> SUFFICES ASSUME IInv, [Next]_vars PROVE IInv'
    OBVIOUS
<1>1. TypeOK /\ Control /\ Limits
    BY DEF IInv
<1>2. TypeOK'
    BY <1>1, NextType DEF Control
<1>3. Control'
    BY <1>1, NextControl
<1>4. Limits'
    BY <1>1, NextLimits
<1>5. QED
    BY <1>2, <1>3, <1>4 DEF IInv

\* The invariant holds in every run of the slave, through any number of resets.
THEOREM Invariance == Spec => []IInv
BY InitIInv, NextIInv, PTL DEF Spec

\* Every variable keeps its type; in particular the single node of mh_queue is
\* never appended twice.
THEOREM TypeCorrect == Spec => []TypeOK
<1>1. IInv => TypeOK
    BY DEF IInv
<1>2. QED
    BY <1>1, Invariance, PTL

\* The node is queued exactly while its buffer holds an unparsed frame, and a
\* reply stays whole in the same buffer until it is handed to the port.
THEOREM OneTransactionAlways == Spec => []OneTransaction
<1>1. IInv => OneTransaction
    BY DEF IInv, Control
<1>2. QED
    BY <1>1, Invariance, PTL

\* The loop of uart_usb_interrupt_handler never finds the transmitter enabled
\* with nothing to send.
THEOREM TxOnlyWhileSendingAlways == Spec => []TxOnlyWhileSending
<1>1. IInv => TxOnlyWhileSending
    BY DEF IInv, Control
<1>2. QED
    BY <1>1, Invariance, PTL

\* No frame is taken while mh_Write_Eeprom runs.
THEOREM SaveExclusiveAlways == Spec => []SaveExclusive
<1>1. IInv => SaveExclusive
    BY DEF IInv, Control
<1>2. QED
    BY <1>1, Invariance, PTL

\* Pending work of the port always has the callback queued.
THEOREM NoLostWakeupAlways == Spec => []NoLostWakeup
<1>1. IInv => NoLostWakeup
    BY DEF IInv, Control
<1>2. QED
    BY <1>1, Invariance, PTL

\* After boot every saved register is inside its limits, whatever was in flash,
\* whatever the master writes and wherever resets fall.
THEOREM LimitsAlwaysHold == Spec => []LimitsHold
<1>1. IInv => LimitsHold
    BY DEF IInv, Limits
<1>2. QED
    BY <1>1, Invariance, PTL

--------------------------------------------------------------------------------
(* The invariant of the store *)

\* A thread holds a datum for the flash only while it owns nvs_lock.
LockOwner == \A t \in Thread : job[t].val \in Value => nvs_lock = t

\* The threads start on the registers only after mh_Buf_Init, which is inside
\* nvs_write only when it waits there.
BootJobs ==
    /\ boot # "done" => job["MB"] = NoJob /\ job["COM"] = NoJob /\ ~cb_work
    /\ boot = "start" => job["MAIN"] = NoJob

\* main replaces an entry only when it is missing or outside the limits.
BootReplaces ==
    boot = "mh_Buf_Init" =>
        /\ job["MAIN"] \in Jobs
        /\ stored[job["MAIN"].reg] \notin Allowed[job["MAIN"].reg]

Store == LockOwner /\ BootJobs /\ BootReplaces

\* Behind the register that mh_Buf_Init waits for, RAM and flash agree; the datum
\* of that register is the one RAM holds.
BootAgrees ==
    boot = "mh_Buf_Init" =>
        /\ job["MAIN"].val = ram[job["MAIN"].reg]
        /\ \A r \in EESaved : r < job["MAIN"].reg => stored[r] = ram[r]

PendingMB(r) == mb_pc = "nvs_write" /\ r \in Window /\ r >= job["MB"].reg
PendingCOM(r) == com_pc = "mh_Factory" /\ r = job["COM"].reg
Holds(t, r) == job[t].reg = r /\ job[t].val \in Value

\* Unless a thread will still come to the register, RAM and flash agree on it; and
\* when a datum on its way to flash is not what RAM holds, the other thread will
\* still come to the register.
RegisterAgrees(r) ==
    /\ PendingMB(r) \/ PendingCOM(r) \/ stored[r] = ram[r]
    /\ Holds("MB", r) => PendingCOM(r) \/ job["MB"].val = ram[r]
    /\ Holds("COM", r) => PendingMB(r) \/ job["COM"].val = ram[r]

Agreement ==
    /\ BootAgrees
    /\ boot = "done" => \A r \in EESaved \ missed : RegisterAgrees(r)

--------------------------------------------------------------------------------
(* The owner of nvs_lock *)

\* A loop leaves the other threads' writes alone and takes the lock only when it
\* finds it free; the datum is copied only then.
LEMMA LoopOwner ==
    ASSUME NvsTypeOK, NEW t \in Thread, NEW S, NEW mem, NEW img, NEW lock,
           \A u \in Thread \ {t} : job[u].val \in Value => lock = u,
           Loop(t, S, mem, img, lock)
    PROVE  LockOwner' /\ \A u \in Thread \ {t} : job'[u] = job[u]
<1> DEFINE D == Dirty(S, mem, img)
<1>1. /\ job'[t] = IF D = {} THEN NoJob
                   ELSE [reg |-> First(D),
                         val |-> IF lock = "none" THEN mem[First(D)] ELSE Unread]
      /\ \A u \in Thread \ {t} : job'[u] = job[u]
    BY DEF Loop, NvsTypeOK
<1>2. nvs_lock' = IF D # {} /\ lock = "none" THEN t ELSE lock
    BY DEF Loop
<1>3. job'[t].val \in Value => D # {} /\ lock = "none"
    BY <1>1, SentinelAssumption DEF NoJob
<1>4. "none" \notin Thread
    BY DEF Thread
<1>5. ASSUME NEW u \in Thread, job'[u].val \in Value PROVE nvs_lock' = u
    <2>1. CASE u = t
        BY <1>2, <1>3, <1>5, <2>1
    <2>2. CASE u # t
        <3>1. lock = u
            BY <1>1, <1>5, <2>2
        <3>2. QED
            BY <1>2, <1>4, <3>1
    <2>3. QED
        BY <2>1, <2>2
<1>6. QED
    BY <1>1, <1>5 DEF LockOwner

\* The thread that has ended its write was the only one that held a datum.
LEMMA WriterAlone ==
    ASSUME LockOwner, NEW t \in Thread, Writing(t)
    PROVE  \A u \in Thread \ {t} : job[u].val \notin Value
BY DEF LockOwner, Writing

\* mh_Buf_Init runs while no other thread writes.
LEMMA BootOwner ==
    ASSUME TypeOK, Store, NEW S, NEW img, boot # "done", BufInitFrom(S, img)
    PROVE  LockOwner' /\ job'["MB"] = NoJob /\ job'["COM"] = NoJob
<1>1. \A u \in Thread \ {"MAIN"} : job[u] = NoJob /\ job[u].val \notin Value
    BY SentinelAssumption DEF Store, BootJobs, Thread, NoJob
<1>2. Loop("MAIN", S, Loaded, img, "none") /\ NvsTypeOK /\ "MAIN" \in Thread
    BY DEF BufInitFrom, TypeOK, Thread
<1>3. LockOwner' /\ \A u \in Thread \ {"MAIN"} : job'[u] = job[u]
    BY <1>1, <1>2, LoopOwner
<1>4. QED
    BY <1>1, <1>3 DEF Thread

\* mh_Buf_Init waits for the write of a register whose entry it may replace.
LEMMA BootReplacement ==
    ASSUME TypeOK, NEW S \in SUBSET EESaved, NEW img,
           \A r \in S : img[r] = stored[r],
           BufInitFrom(S, img)
    PROVE  BootReplaces' /\ boot' # "start"
<1> DEFINE D == Dirty(S, Loaded, img)
           r == First(D)
<1>1. stored' = img /\ boot' = IF D = {} THEN "done" ELSE "mh_Buf_Init"
    BY DEF BufInitFrom
<1>2. ASSUME D # {}
      PROVE  job'["MAIN"] \in Jobs /\ job'["MAIN"].reg = r /\ img[r] \notin Allowed[r]
    <2>1. r \in D
        <3>1. D \in SUBSET Nat
            BY SavedAreNat DEF Dirty
        <3>2. QED
            BY <1>2, <3>1, FirstIsLeast
    <2>2. r \in S /\ img[r] = stored[r] /\ Loaded[r] # stored[r]
        BY <2>1 DEF Dirty
    <2>3. stored[r] \notin Allowed[r]
        <3>1. Loaded[r] = IF stored[r] # NotFound /\ Limit_Check(r, stored[r])
                          THEN stored[r] ELSE Default[r]
            BY <2>2 DEF Loaded
        <3>2. NotFound \notin Allowed[r]
            BY <2>2, SentinelAssumption, AllowedAssumption, PermissionAssumption
        <3>3. QED
            BY <2>2, <3>1, <3>2 DEF Limit_Check
    <2>4. job'["MAIN"] = [reg |-> r, val |-> Loaded[r]]
        BY <1>2 DEF BufInitFrom, Loop, TypeOK, NvsTypeOK, Thread
    <2>5. Loaded[r] \in Value
        BY <2>2, LoadedLawful DEF TypeOK
    <2>6. QED
        BY <2>2, <2>3, <2>4, <2>5 DEF Jobs
<1>3. QED
    BY <1>1, <1>2 DEF BootReplaces

\* Main keeps the store's invariant.
LEMMA MainStore ==
    ASSUME IInv, Store, Main
    PROVE  Store'
<1>1. TypeOK /\ boot # "done"
    BY DEF IInv, Main, mh_Buf_Init, mh_Buf_Init_Written
<1>2. ASSUME NEW S \in SUBSET EESaved, NEW img,
             \A r \in S : img[r] = stored[r],
             BufInitFrom(S, img)
      PROVE  Store'
    <2>1. LockOwner' /\ job'["MB"] = NoJob /\ job'["COM"] = NoJob
        BY <1>1, <1>2, BootOwner
    <2>2. BootReplaces' /\ boot' # "start"
        BY <1>1, <1>2, BootReplacement
    <2>3. ~cb_work'
        BY <1>1, <1>2 DEF BufInitFrom, cdcVars, Store, BootJobs
    <2>4. QED
        BY <2>1, <2>2, <2>3 DEF Store, BootJobs
<1>3. CASE mh_Buf_Init
    BY <1>2, <1>3 DEF mh_Buf_Init
<1>4. CASE mh_Buf_Init_Written
    <2> DEFINE old == job["MAIN"].reg
               S == {r \in EESaved : r > old}
    <2>1. PICK img \in Outcome("MAIN") : BufInitFrom(S, img)
        BY <1>4 DEF mh_Buf_Init_Written
    <2>2. old \in EESaved /\ stored \in [EESaved -> Value \cup {NotFound}]
        BY <1>1, <1>4, <2>1, OutcomeType
        DEF mh_Buf_Init_Written, TypeOK, NvsTypeOK, Thread
    <2>3. ASSUME NEW r \in S PROVE img[r] = stored[r]
        <3>1. r # old
            BY <2>2, SavedAreNat
        <3>2. QED
            BY <2>2, <3>1 DEF Outcome, Commit
    <2>4. QED
        BY <1>2, <2>1, <2>3
<1>5. QED
    BY <1>3, <1>4 DEF Main

\* Parsing a frame, and the end of a write of the Modbus thread, keep the owner.
LEMMA ModbusOwner ==
    ASSUME TypeOK, Store, mh_Write_Eeprom_Written \/ \E f \in Request : MBparsing(f)
    PROVE  LockOwner' /\ \A u \in Thread \ {"MB"} : job'[u] = job[u]
<1>1. "MB" \in Thread /\ NvsTypeOK /\ LockOwner
    BY DEF Thread, TypeOK, Store
<1>2. CASE mh_Write_Eeprom_Written
    <2>1. PICK img \in Outcome("MB") :
             Loop("MB", {r \in Window \cap EESaved : r > job["MB"].reg},
                  ram, img, Released("MB"))
        BY <1>2 DEF mh_Write_Eeprom_Written, WriteEepromFrom
    <2>2. \A u \in Thread \ {"MB"} : job[u].val \notin Value
        BY <1>1, <1>2, WriterAlone DEF mh_Write_Eeprom_Written
    <2>3. QED
        BY <1>1, <2>1, <2>2, LoopOwner
<1>3. ASSUME NEW f \in Request, MBparsing(f), Saves(f)
      PROVE  LockOwner' /\ \A u \in Thread \ {"MB"} : job'[u] = job[u]
    <2>1. Loop("MB", Block(f) \cap EESaved, WrittenRam(f), stored, nvs_lock)
        BY <1>3 DEF MBparsing, WriteEepromFrom
    <2>2. \A u \in Thread \ {"MB"} : job[u].val \in Value => nvs_lock = u
        BY <1>1 DEF LockOwner
    <2>3. QED
        BY <1>1, <2>1, <2>2, LoopOwner
<1>4. ASSUME NEW f \in Request, MBparsing(f), ~Saves(f)
      PROVE  LockOwner' /\ \A u \in Thread \ {"MB"} : job'[u] = job[u]
    BY <1>1, <1>4 DEF MBparsing, LockOwner
<1>5. QED
    BY <1>2, <1>3, <1>4

\* The steps of mh_Factory keep the owner.
LEMMA FactoryOwner ==
    ASSUME TypeOK, Store, mh_Factory \/ mh_Factory_Written
    PROVE  LockOwner' /\ \A u \in Thread \ {"COM"} : job'[u] = job[u]
<1>1. "COM" \in Thread /\ NvsTypeOK /\ LockOwner
    BY DEF Thread, TypeOK, Store
<1>2. CASE mh_Factory_Written
    <2>1. PICK img \in Outcome("COM") :
             Loop("COM", {r \in EESaved : r > job["COM"].reg},
                  Default, img, Released("COM"))
        BY <1>2 DEF mh_Factory_Written, FactoryFrom
    <2>2. \A u \in Thread \ {"COM"} : job[u].val \notin Value
        BY <1>1, <1>2, WriterAlone DEF mh_Factory_Written
    <2>3. QED
        BY <1>1, <2>1, <2>2, LoopOwner
<1>3. CASE mh_Factory
    <2>1. Loop("COM", EESaved, Default, stored, nvs_lock)
        BY <1>3 DEF mh_Factory, FactoryFrom
    <2>2. \A u \in Thread \ {"COM"} : job[u].val \in Value => nvs_lock = u
        BY <1>1 DEF LockOwner
    <2>3. QED
        BY <1>1, <2>1, <2>2, LoopOwner
<1>4. QED
    BY <1>2, <1>3

\* A thread that is handed nvs_lock owns it, and no other datum is copied.
LEMMA GrantedOwner ==
    ASSUME TypeOK, Store, NEW t \in Thread, Nvs_Lock_Granted(t)
    PROVE  LockOwner' /\ \A u \in Thread \ {t} : job'[u] = job[u]
<1>1. \A u \in Thread \ {t} : job'[u] = job[u]
    BY DEF Nvs_Lock_Granted, Nvs_Locked, TypeOK, NvsTypeOK
<1>2. nvs_lock = t /\ nvs_lock' = t
    BY DEF Nvs_Lock_Granted, Nvs_Locked
<1>3. QED
    BY <1>1, <1>2 DEF Store, LockOwner

\* Every step of the slave keeps the store's invariant.
LEMMA NextStore ==
    ASSUME IInv, Store, [Next]_vars
    PROVE  Store'
<1>1. TypeOK /\ BootAlone
    BY DEF IInv, Control
<1>2. ASSUME boot = "done", boot' = "done", LockOwner'
      PROVE  Store'
    BY <1>2 DEF Store, BootJobs, BootReplaces
<1>3. ASSUME UNCHANGED <<nvsVars, boot>>, boot = "done" \/ cb_work' = cb_work
      PROVE  Store'
    BY <1>3 DEF Store, LockOwner, BootJobs, BootReplaces, nvsVars
<1>4. CASE Main
    BY <1>4, MainStore
<1>5. CASE Reset
    <2>1. \A t \in Thread : job'[t] = NoJob /\ job'[t].val \notin Value
        BY <1>5, SentinelAssumption DEF Reset, Nvs_Reset, NoJob
    <2>2. boot' = "start" /\ ~cb_work'
        BY <1>5 DEF Reset, MemoryCleared, CdcReset
    <2>3. QED
        BY <2>1, <2>2 DEF Store, LockOwner, BootJobs, BootReplaces, Thread
<1>6. CASE UsbWorkQueue
    BY <1>3, <1>6 DEF UsbWorkQueue, uart_usb_interrupt_handler,
                      uart_usb_interrupt_return, pcVars, Store, BootJobs
<1>7. CASE UsbBus
    BY <1>3, <1>7 DEF UsbBus, pcVars
<1>8. CASE ModbusThread
    <2>1. CASE mh_task_Modbus_start
        BY <1>3, <2>1 DEF mh_task_Modbus_start
    <2>2. CASE MBparsing_Invalid
        BY <1>3, <2>2 DEF MBparsing_Invalid, cdcVars, pcVars
    <2>3. CASE mh_Write_Eeprom_return
        BY <1>3, <2>3 DEF mh_Write_Eeprom_return, cdcVars
    <2>4. CASE mh_Write_Eeprom_Written \/ \E f \in Request : MBparsing(f)
        <3>1. boot = "done" /\ boot' = "done"
            BY <1>1, <2>4 DEF BootAlone, mh_Write_Eeprom_Written, MBparsing
        <3>2. QED
            BY <1>1, <1>2, <2>4, <3>1, ModbusOwner
    <2>5. CASE Nvs_Lock_Granted("MB")
        <3>1. job["MB"] # NoJob
            BY <2>5, SentinelAssumption DEF Nvs_Lock_Granted, Nvs_Locked, NoJob
        <3>2. boot = "done" /\ boot' = "done"
            BY <1>1, <2>5, <3>1 DEF Store, BootJobs, TypeOK, Nvs_Lock_Granted, pcVars
        <3>3. QED
            BY <1>1, <1>2, <2>5, <3>2, GrantedOwner DEF Thread
    <2>6. QED
        BY <1>8, <2>1, <2>2, <2>3, <2>4, <2>5 DEF ModbusThread
<1>9. CASE ComTask
    <2>1. CASE mh_Factory \/ mh_Factory_Written
        <3>1. boot = "done" /\ boot' = "done"
            BY <1>1, <2>1 DEF BootAlone, mh_Factory, mh_Factory_Written,
                              CommandSeen, FactoryFrom
        <3>2. QED
            BY <1>1, <1>2, <2>1, <3>1, FactoryOwner
    <2>2. CASE Nvs_Lock_Granted("COM")
        <3>1. job["COM"] # NoJob
            BY <2>2, SentinelAssumption DEF Nvs_Lock_Granted, Nvs_Locked, NoJob
        <3>2. boot = "done" /\ boot' = "done"
            BY <1>1, <2>2, <3>1 DEF Store, BootJobs, TypeOK, Nvs_Lock_Granted, pcVars
        <3>3. QED
            BY <1>1, <1>2, <2>2, <3>2, GrantedOwner DEF Thread
    <2>3. CASE command_control_restart
        BY <1>5, <2>3 DEF command_control_restart
    <2>4. CASE command_control_other
        BY <1>3, <2>4 DEF command_control_other, cdcVars, pcVars
    <2>5. QED
        BY <1>9, <2>1, <2>2, <2>3, <2>4 DEF ComTask
<1>10. CASE UNCHANGED vars
    BY <1>3, <1>10 DEF vars, cdcVars, pcVars
<1>11. QED
    BY <1>4, <1>5, <1>6, <1>7, <1>8, <1>9, <1>10 DEF Next

--------------------------------------------------------------------------------
(* What a step never does *)

\* Whatever ends while mh_Buf_Init is not over, be it a write of main or a reset
\* in the middle of one, replaces no entry that is inside the limits.
LEMMA BootStep ==
    ASSUME IInv, Store, [Next]_vars, boot # "done",
           NEW r \in EESaved, stored[r] \in Allowed[r]
    PROVE  stored'[r] = stored[r]
<1>1. TypeOK /\ BootAlone /\ LockOwner /\ BootJobs /\ BootReplaces
    BY DEF IInv, Control, Store
<1>2. job["MB"] = NoJob /\ job["COM"] = NoJob
    BY <1>1 DEF BootJobs
<1>3. ~Writing("MB") /\ ~Writing("COM")
    BY <1>2, SentinelAssumption DEF Writing, NoJob
<1>4. Writing("MAIN") => Commit("MAIN")[r] = stored[r]
    <2>1. SUFFICES ASSUME Writing("MAIN") PROVE Commit("MAIN")[r] = stored[r]
        OBVIOUS
    <2>2. boot = "mh_Buf_Init"
        BY <1>1, <2>1, SentinelAssumption DEF BootJobs, Writing, NoJob, TypeOK
    <2>3. r # job["MAIN"].reg
        BY <1>1, <2>2 DEF BootReplaces
    <2>4. QED
        BY <1>1, <2>3 DEF Commit, TypeOK, NvsTypeOK
<1>5. CASE Main
    <2>1. CASE mh_Buf_Init
        BY <2>1 DEF mh_Buf_Init, BufInitFrom
    <2>2. CASE mh_Buf_Init_Written
        BY <1>4, <2>2 DEF mh_Buf_Init_Written, BufInitFrom, Outcome
    <2>3. QED
        BY <1>5, <2>1, <2>2 DEF Main
<1>6. CASE Reset
    BY <1>3, <1>4, <1>6 DEF Reset, Nvs_Reset, Thread
<1>7. CASE UsbWorkQueue \/ UsbBus
    BY <1>7 DEF UsbWorkQueue, uart_usb_interrupt_handler, uart_usb_interrupt_return,
                UsbBus, nvsVars
<1>8. CASE ModbusThread
    BY <1>1, <1>3, <1>8
    DEF ModbusThread, mh_task_Modbus_start, MBparsing_Invalid, MBparsing,
        Nvs_Lock_Granted, Nvs_Locked, mh_Write_Eeprom_Written,
        mh_Write_Eeprom_return, nvsVars
<1>9. CASE ComTask
    <2>1. Nvs_Lock_Granted("COM")
        BY <1>1, <1>3, <1>9
        DEF ComTask, mh_Factory, mh_Factory_Written, command_control_restart,
            command_control_other, CommandSeen
    <2>2. QED
        BY <2>1 DEF Nvs_Lock_Granted, Nvs_Locked
<1>10. CASE UNCHANGED vars
    BY <1>10 DEF vars, nvsVars
<1>11. QED
    BY <1>5, <1>6, <1>7, <1>8, <1>9, <1>10 DEF Next

\* An exception is answered without a write: WrittenRam is RAM as it was, and the
\* block that MBparsing noted is not saved.
LEMMA ExceptionStep ==
    ASSUME IInv, [Next]_vars,
           p_mb_buff' \in Reply, p_mb_buff' # p_mb_buff, p_mb_buff'.exc # MBE_NONE
    PROVE  ram' = ram /\ eep_state' = "EEP_FREE"
<1>1. TypeOK /\ OneTransaction /\ RxHasData
    BY DEF IInv, Control
<1>2. p_mb_buff' \notin {NoData, Garbled}
    BY BufferAssumption
<1>3. p_mb_buff' \notin Request
    BY RequestAssumption DEF Frame, Reply
<1>4. UNCHANGED p_mb_buff \/ \E f \in Request : MBparsing(f)
    <2>1. CASE uart_usb_interrupt_handler
        <3>1. ~Accepts
            <4>1. Accepts => rx_ring \in Request \cup {Garbled} /\ p_mb_buff' = rx_ring
                BY <1>1, <2>1 DEF uart_usb_interrupt_handler, Accepts, RxHasData,
                                  TypeOK, CdcTypeOK, Chunk
            <4>2. QED
                BY <1>2, <1>3, <4>1
        <3>2. p_mb_buff' \in {NoData, p_mb_buff}
            BY <2>1, <3>1 DEF uart_usb_interrupt_handler
        <3>3. QED
            BY <1>2, <3>2
    <2>2. CASE Main \/ uart_usb_interrupt_return \/ UsbBus
        BY <2>2 DEF Main, mh_Buf_Init, mh_Buf_Init_Written, BufInitFrom,
                    uart_usb_interrupt_return, UsbBus, mbVars
    <2>3. CASE ModbusThread
        BY <1>2, <2>3
        DEF ModbusThread, mh_task_Modbus_start, MBparsing_Invalid, Nvs_Lock_Granted,
            mh_Write_Eeprom_Written, mh_Write_Eeprom_return, mbVars
    <2>4. CASE ComTask \/ Reset
        BY <1>2, <2>4
        DEF ComTask, mh_Factory, mh_Factory_Written, FactoryFrom, Nvs_Lock_Granted,
            command_control_restart, command_control_other, Reset, MemoryCleared, mbVars
    <2>5. CASE UNCHANGED vars
        BY <2>5 DEF vars, mbVars
    <2>6. QED
        BY <2>1, <2>2, <2>3, <2>4, <2>5 DEF Next, UsbWorkQueue
<1>5. PICK f \in Request : MBparsing(f)
    BY <1>4
<1>6. ~Done(f)
    BY <1>2, <1>5 DEF MBparsing, ReplyTo, Done
<1>7. ram \in [Reg -> Value] /\ WrittenRam(f) = ram
    BY <1>1, <1>6 DEF WrittenRam, TypeOK, NvsTypeOK
<1>8. QED
    BY <1>5, <1>6, <1>7 DEF MBparsing, Saves

--------------------------------------------------------------------------------
(* The slave implements SlaveTransaction *)

\* What the slave owes its master: the refinement mapping of Transaction.
Owes == (IF mb_state = "STATE_PARS" THEN {"request"} ELSE {})
        \cup (IF mb_state = "STATE_SEND" THEN {"reply"} ELSE {})
        \cup (IF eep_state = "EEP_SAVE" THEN {"save"} ELSE {})

ChangedRam == {r \in Reg : ram'[r] # ram[r]}

\* Until the registers are loaded and the slave answers, a turn of mh_Buf_Init
\* loads allowed values.
LEMMA MainLoads ==
    ASSUME IInv, IInv', Main
    PROVE  Transaction!Load
<1>1. PICK S \in SUBSET EESaved, img \in [EESaved -> Value \cup {NotFound}] :
         BufInitFrom(S, img)
    <2>1. CASE mh_Buf_Init
        BY <2>1 DEF mh_Buf_Init, IInv, TypeOK, NvsTypeOK
    <2>2. CASE mh_Buf_Init_Written
        BY <2>2, OutcomeType DEF mh_Buf_Init_Written, IInv, TypeOK, Thread
    <2>3. QED
        BY <2>1, <2>2 DEF Main
<1>2. boot # "done"
    BY DEF Main, mh_Buf_Init, mh_Buf_Init_Written
<1>3. ram' = Assigned(S, Loaded, img) /\ UNCHANGED Owes
    BY <1>1 DEF BufInitFrom, mbVars, Owes
<1>4. \A r \in ChangedRam : r \in S /\ ram'[r] = Loaded[r]
    BY <1>3 DEF ChangedRam, Assigned, Reached
<1>5. ChangedRam \subseteq EESaved /\ \A r \in ChangedRam : Limit_Check(r, ram'[r])
    BY <1>4, LoadedLawful DEF IInv, TypeOK
<1>6. boot' = "done" => \A r \in EESaved : Limit_Check(r, ram'[r])
    BY DEF IInv, Limits, LimitsHold, Limit_Check
<1>7. QED
    BY <1>2, <1>3, <1>5, <1>6
    DEF Transaction!Load, Transaction!Changed, Transaction!Reg, Transaction!Limit_Check,
        Limit_Check, ChangedRam, Reg, Owes

\* A request that changes a saved register is saved: its block does not end on
\* the last register, which is read-only.
LEMMA ChangeIsSaved ==
    ASSUME NEW f \in Request, Writes(f), Done(f), NEW r \in Block(f) \cap EESaved
    PROVE  Saves(f)
<1>1. f.start \in Nat /\ f.count \in Nat
    BY RequestAssumption DEF Frame
<1>2. ~OutOfRange(f)
    BY DEF Done, ExceptionOf, Writes, MBE_NONE, MBE_ILLEGAL_DATA_ADDRESS
<1>3. Refused(f) = {}
    <2>1. \A q \in Block(f) : Limit_Check_in_Request(q, f.val[q]) = MBE_NONE
        BY DoneMeansNoneRefused
    <2>2. QED
        BY <2>1 DEF Refused
<1>4. RegLast \notin Block(f)
    BY <1>3, LastRegisterAssumption
    DEF Refused, Limit_Check_in_Request, Write_Check, MBE_NONE, MBE_ILLEGAL_DATA_ADDRESS
<1>5. f.start + f.count < NUM_BUF
    BY <1>1, <1>2, <1>4, RegLastAssumption DEF OutOfRange, Block, NUM_BUF
<1>6. Eeprom_Check_in_Request(f.start, f.count) = "EEP_SAVE"
    BY <1>1, <1>5, RegLastAssumption
    DEF Eeprom_Check_in_Request, EESave_Check, Block, NUM_BUF
<1>7. QED
    BY <1>2, <1>6 DEF Saves, NotesBlock

\* A request that MBparsing takes is executed at once or refused as a whole.
LEMMA ParseExecutes ==
    ASSUME IInv, NEW f \in Request, MBparsing(f)
    PROVE  Transaction!Execute
<1>1. Owes = {"request"}
    BY DEF MBparsing, InvalidFrame, IInv, Control, OneTransaction, TypeOK, Owes
<1>2. Owes' \subseteq {"reply", "save"} /\ boot' = boot /\ ram' = WrittenRam(f)
    BY DEF MBparsing, Owes
<1>3. \A r \in ChangedRam : Writes(f) /\ Done(f) /\ r \in Block(f) /\ ram'[r] = f.val[r]
    BY <1>2 DEF ChangedRam, WrittenRam
<1>4. \A r \in ChangedRam : Limit_Check_in_Request(r, ram'[r]) = MBE_NONE
    BY <1>3, DoneMeansNoneRefused
<1>5. ChangedRam \cap EESaved # {} => "save" \in Owes'
    <2>1. SUFFICES ASSUME NEW r \in ChangedRam \cap EESaved PROVE "save" \in Owes'
        OBVIOUS
    <2>2. Saves(f)
        BY <1>3, ChangeIsSaved
    <2>3. QED
        BY <2>2 DEF MBparsing, Owes
<1>6. QED
    BY <1>1, <1>2, <1>4, <1>5
    DEF Transaction!Execute, Transaction!Changed, Transaction!Reg, Reg, ChangedRam, Owes,
        Transaction!Limit_Check_in_Request, Limit_Check_in_Request,
        Transaction!Write_Check, Write_Check, Transaction!Limit_Check, Limit_Check,
        Transaction!MBE_NONE, MBE_NONE,
        Transaction!MBE_ILLEGAL_DATA_ADDRESS, MBE_ILLEGAL_DATA_ADDRESS,
        Transaction!MBE_ILLEGAL_DATA_VALUE, MBE_ILLEGAL_DATA_VALUE

\* A turn of mh_Factory is a command's work on the registers.
LEMMA FactoryCommands ==
    ASSUME IInv, mh_Factory \/ mh_Factory_Written
    PROVE  Transaction!Command
<1>1. PICK S \in SUBSET EESaved : \E img, lock : FactoryFrom(S, img, lock)
    BY DEF mh_Factory, mh_Factory_Written
<1>2. boot = "done"
    BY DEF IInv, Control, BootAlone, mh_Factory, mh_Factory_Written, CommandSeen
<1>3. \A r \in ChangedRam : \/ r \in EESaved /\ ram'[r] = Default[r]
                            \/ r = Reg_Send_Command /\ ram'[r] = 0
    BY <1>1 DEF FactoryFrom, Assigned, Reached, ChangedRam
<1>4. QED
    BY <1>1, <1>2, <1>3
    DEF Transaction!Command, Transaction!Changed, Transaction!Reg, Reg, ChangedRam,
        FactoryFrom, mbVars

\* The callback takes a frame when nothing is owed, hands over a reply that is, or
\* leaves the transaction alone.
LEMMA HandlerSteps ==
    ASSUME IInv, Store, uart_usb_interrupt_handler
    PROVE  \/ Transaction!Accept \/ Transaction!Replied
           \/ UNCHANGED <<boot, ram, Owes>>
<1>1. boot = "done" /\ UNCHANGED <<boot, ram, eep_state>>
    BY DEF Store, BootJobs, IInv, TypeOK, uart_usb_interrupt_handler, pcVars
<1>2. CASE Accepts
    <2>1. Owes = {} /\ Owes' = {"request"}
        BY <1>2 DEF uart_usb_interrupt_handler, Accepts, All_Idle_Check, Owes
    <2>2. QED
        BY <1>1, <2>1 DEF Transaction!Accept, Owes
<1>3. CASE ~Accepts /\ Sends
    <2>1. mb_state = "STATE_SEND" /\ mb_state' = "STATE_IDLE"
        BY <1>3 DEF uart_usb_interrupt_handler, Sends
    <2>2. "reply" \in Owes /\ Owes' = Owes \ {"reply"}
        BY <1>1, <2>1 DEF Owes
    <2>3. QED
        BY <1>1, <2>2 DEF Transaction!Replied, Owes
<1>4. CASE ~Accepts /\ ~Sends
    BY <1>1, <1>4 DEF uart_usb_interrupt_handler, Owes
<1>5. QED
    BY <1>2, <1>3, <1>4

\* Every step of the slave is a step of the transaction or leaves it alone.
LEMMA NextTransaction ==
    ASSUME IInv, IInv', Store, [Next]_vars
    PROVE  Transaction!Next \/ UNCHANGED <<boot, ram, Owes>>
<1>1. CASE Main
    BY <1>1, MainLoads DEF Transaction!Next
<1>2. CASE UsbWorkQueue
    <2>1. CASE uart_usb_interrupt_handler
        BY <2>1, HandlerSteps DEF Transaction!Next
    <2>2. CASE uart_usb_interrupt_return
        BY <2>2 DEF uart_usb_interrupt_return, mbVars, pcVars, Owes
    <2>3. QED
        BY <1>2, <2>1, <2>2 DEF UsbWorkQueue
<1>3. CASE ModbusThread
    <2>1. CASE MBparsing_Invalid
        <3>1. Owes = {"request"} /\ Owes' = {} /\ UNCHANGED <<boot, ram>>
            BY <2>1 DEF MBparsing_Invalid, IInv, Control, OneTransaction, SaveState,
                        TypeOK, pcVars, Owes
        <3>2. QED
            BY <3>1 DEF Transaction!Next, Transaction!Discard, Owes
    <2>2. CASE \E f \in Request : MBparsing(f)
        BY <2>2, ParseExecutes DEF Transaction!Next
    <2>3. CASE mh_Write_Eeprom_return
        <3>1. "save" \in Owes /\ Owes' = Owes \ {"save"} /\ UNCHANGED <<boot, ram>>
            BY <2>3 DEF mh_Write_Eeprom_return, IInv, Control, SaveState, Owes
        <3>2. QED
            BY <3>1 DEF Transaction!Next, Transaction!Saved, Owes
    <2>4. CASE mh_task_Modbus_start \/ Nvs_Lock_Granted("MB") \/ mh_Write_Eeprom_Written
        BY <2>4 DEF mh_task_Modbus_start, Nvs_Lock_Granted, Nvs_Locked,
                    mh_Write_Eeprom_Written, mbVars, pcVars, Owes
    <2>5. QED
        BY <1>3, <2>1, <2>2, <2>3, <2>4 DEF ModbusThread
<1>4. ASSUME Reset PROVE Transaction!Restart
    BY <1>4 DEF Reset, MemoryCleared, Transaction!Restart, Transaction!Reg, Reg
<1>5. CASE ComTask
    <2>1. CASE mh_Factory \/ mh_Factory_Written
        BY <2>1, FactoryCommands DEF Transaction!Next
    <2>2. CASE Nvs_Lock_Granted("COM")
        BY <2>2 DEF Nvs_Lock_Granted, Nvs_Locked, mbVars, pcVars, Owes
    <2>3. CASE command_control_restart
        BY <1>4, <2>3 DEF command_control_restart, Transaction!Next
    <2>4. CASE command_control_other
        <3>1. boot = "done" /\ UNCHANGED <<boot, mbVars>>
              /\ ram' = [ram EXCEPT ![Reg_Send_Command] = 0]
            BY <2>4 DEF command_control_other, CommandSeen, pcVars
        <3>2. \A r \in ChangedRam : r = Reg_Send_Command /\ ram'[r] = 0
            BY <3>1 DEF IInv, TypeOK, NvsTypeOK, ChangedRam
        <3>3. QED
            BY <3>1, <3>2
            DEF Transaction!Next, Transaction!Command, Transaction!Changed,
                Transaction!Reg, Reg, ChangedRam, mbVars
    <2>5. QED
        BY <1>5, <2>1, <2>2, <2>3, <2>4 DEF ComTask
<1>6. CASE UsbBus \/ UNCHANGED vars
    BY <1>6 DEF UsbBus, vars, mbVars, pcVars, Owes
<1>7. QED
    BY <1>1, <1>2, <1>3, <1>4, <1>5, <1>6 DEF Next, Transaction!Next

--------------------------------------------------------------------------------
(* RAM and flash agree *)

\* What a loop of thread t does about a register r of its set S: it takes it as
\* missed; or it finds it equal to the image, and no other thread holds another
\* datum for it; or it waits for the write of r; or it has yet to come to r.
LoopOutcome(t, S, mem, img, r) ==
    \/ r \in missed'
    \/ /\ r \in Reached(S, mem, img)
       /\ job'[t].val \in Value => job'[t].reg # r
       /\ img[r] = mem[r]
       /\ \A u \in Thread \ {t} : Holds(u, r) => job[u].val = mem[r]
    \/ /\ r \in Reached(S, mem, img) /\ Dirty(S, mem, img) # {}
       /\ job'[t].reg = r
    \/ /\ r \notin Reached(S, mem, img) /\ Dirty(S, mem, img) # {}
       /\ job'[t].reg < r /\ r \notin missed

\* Every register of the loop's set comes to one of the four, and the datum that
\* the thread copies is the one in memory.
LEMMA LoopOutcomes ==
    ASSUME NvsTypeOK, NEW t \in Thread, NEW S \in SUBSET EESaved,
           NEW mem, NEW img, NEW lock, Loop(t, S, mem, img, lock)
    PROVE  /\ \A r \in S : LoopOutcome(t, S, mem, img, r)
           /\ \A r \in EESaved \ S : r \in missed => r \in missed'
           /\ Dirty(S, mem, img) # {} => job'[t].reg \in S
           /\ job'[t].val \in Value =>
                 job'[t].reg \in S /\ job'[t].val = mem[job'[t].reg]
<1> DEFINE D == Dirty(S, mem, img)
           R == Reached(S, mem, img)
<1>1. job'[t] = IF D = {} THEN NoJob
                ELSE [reg |-> First(D),
                      val |-> IF lock = "none" THEN mem[First(D)] ELSE Unread]
    BY DEF Loop, NvsTypeOK
<1>2. missed' = (missed \ R) \cup {r \in R \ D : UnderWay(t, r, mem[r])}
    BY DEF Loop
<1>3. D \in SUBSET Nat /\ D \subseteq S
    BY SavedAreNat DEF Dirty
<1>4. D # {} => First(D) \in D /\ \A q \in D : First(D) =< q
    BY <1>3, FirstIsLeast
<1>5. job'[t].val \in Value => D # {} /\ job'[t].val = mem[First(D)]
    BY <1>1, SentinelAssumption DEF NoJob
<1>6. ASSUME NEW r \in S PROVE LoopOutcome(t, S, mem, img, r)
    <2>1. CASE r \in R \ D /\ r \notin missed'
        <3>1. img[r] = mem[r]
            BY <2>1 DEF Dirty
        <3>2. ASSUME NEW u \in Thread \ {t}, Holds(u, r) PROVE job[u].val = mem[r]
            <4>1. ~UnderWay(t, r, mem[r])
                BY <1>2, <2>1
            <4>2. QED
                BY <3>2, <4>1, SentinelAssumption DEF UnderWay, Holds
        <3>3. job'[t].val \in Value => job'[t].reg # r
            BY <1>1, <1>4, <1>5, <2>1
        <3>4. QED
            BY <2>1, <3>1, <3>2, <3>3 DEF LoopOutcome
    <2>2. CASE r \in R /\ r \in D
        <3>1. r =< First(D) /\ First(D) =< r
            BY <1>4, <2>2 DEF Reached
        <3>2. r = First(D)
            BY <1>3, <1>4, <2>2, <3>1
        <3>3. QED
            BY <1>1, <2>2, <3>2 DEF LoopOutcome
    <2>3. CASE r \notin R
        <3>1. D # {} /\ ~(r =< First(D))
            BY <2>3 DEF Reached
        <3>2. First(D) < r
            BY <1>3, <1>4, <3>1, SavedAreNat
        <3>3. r \in missed => r \in missed'
            BY <1>2, <2>3
        <3>4. QED
            BY <1>1, <2>3, <3>1, <3>2, <3>3 DEF LoopOutcome
    <2>4. QED
        BY <2>1, <2>2, <2>3 DEF LoopOutcome
<1>7. \A r \in EESaved \ S : r \in missed => r \in missed'
    BY <1>2 DEF Reached
<1>8. QED
    BY <1>1, <1>3, <1>4, <1>5, <1>6, <1>7

\* The work of mh_Buf_Init: behind the register it waits for, and everywhere when
\* it is over, RAM holds what flash does.
LEMMA MainAgrees ==
    ASSUME ~FlashMayFail, IInv, Store, Agreement, Main
    PROVE  Agreement'
<1>1. ASSUME NEW S \in SUBSET EESaved, NEW img,
             \A r \in EESaved \ S : img[r] = ram[r],
             BufInitFrom(S, img)
      PROVE  Agreement'
    <2> DEFINE D == Dirty(S, Loaded, img)
    <2>1. D \in SUBSET Nat
        BY SavedAreNat DEF Dirty
    <2>2. stored' = img /\ ram' = Assigned(S, Loaded, img)
        BY <1>1 DEF BufInitFrom
    <2>3. ASSUME NEW r \in EESaved, r \in S => r \in Reached(S, Loaded, img) \ D
          PROVE  stored'[r] = ram'[r]
        <3>1. r \in Reg
            BY SavedAreNat
        <3>2. CASE r \in S
            BY <2>2, <2>3, <3>1, <3>2 DEF Assigned, Dirty
        <3>3. CASE r \notin S
            BY <1>1, <2>2, <3>1, <3>3 DEF Assigned, Reached
        <3>4. QED
            BY <3>2, <3>3
    <2>4. CASE D = {}
        <3>1. boot' = "done"
            BY <1>1, <2>4 DEF BufInitFrom
        <3>2. \A r \in EESaved : stored'[r] = ram'[r]
            BY <2>3, <2>4 DEF Reached
        <3>3. job'["MB"] = NoJob /\ job'["COM"] = NoJob
            BY <1>1, BootOwner DEF IInv, Main, mh_Buf_Init, mh_Buf_Init_Written
        <3>4. \A r : ~Holds("MB", r)' /\ ~Holds("COM", r)'
            BY <3>3, SentinelAssumption DEF Holds, NoJob
        <3>5. QED
            BY <3>1, <3>2, <3>4 DEF Agreement, BootAgrees, RegisterAgrees
    <2>5. CASE D # {}
        <3>1. boot' = "mh_Buf_Init"
            BY <1>1, <2>5 DEF BufInitFrom
        <3>2. job'["MAIN"] = [reg |-> First(D), val |-> Loaded[First(D)]]
            BY <1>1, <2>5 DEF BufInitFrom, Loop, IInv, TypeOK, NvsTypeOK, Thread
        <3>3. First(D) \in D /\ \A q \in D : First(D) =< q
            BY <2>1, <2>5, FirstIsLeast
        <3>4. First(D) \in S /\ First(D) \in Reg /\ First(D) =< First(D)
            BY <2>1, <3>3, SavedAreNat DEF Dirty
        <3>5. ram'[First(D)] = Loaded[First(D)]
            BY <2>2, <2>5, <3>4 DEF Assigned, Reached
        <3>6. ASSUME NEW r \in EESaved, r < First(D) PROVE stored'[r] = ram'[r]
            <4>1. r \in Nat /\ First(D) \in Nat
                BY <2>1, <3>3, SavedAreNat
            <4>2. r \notin D /\ r =< First(D)
                BY <3>3, <3>6, <4>1
            <4>3. r \in S => r \in Reached(S, Loaded, img) \ D
                BY <2>5, <4>2 DEF Reached
            <4>4. QED
                BY <2>3, <4>3
        <3>7. QED
            BY <3>1, <3>2, <3>5, <3>6 DEF Agreement, BootAgrees
    <2>6. QED
        BY <2>4, <2>5
<1>2. CASE mh_Buf_Init
    BY <1>1, <1>2 DEF mh_Buf_Init
<1>3. CASE mh_Buf_Init_Written
    <2> DEFINE old == job["MAIN"].reg
               S == {r \in EESaved : r > old}
    <2>1. BufInitFrom(S, Commit("MAIN"))
        BY <1>3 DEF mh_Buf_Init_Written, Outcome
    <2>2. old \in EESaved /\ stored \in [EESaved -> Value \cup {NotFound}]
        BY <1>3, OutcomeType DEF mh_Buf_Init_Written, Outcome, IInv, TypeOK, NvsTypeOK, Thread
    <2>3. job["MAIN"].val = ram[old] /\ \A r \in EESaved : r < old => stored[r] = ram[r]
        BY <1>3 DEF mh_Buf_Init_Written, Agreement, BootAgrees
    <2>4. ASSUME NEW r \in EESaved \ S PROVE Commit("MAIN")[r] = ram[r]
        <3>1. CASE r = old
            BY <2>2, <2>3, <3>1 DEF Commit
        <3>2. CASE r # old
            <4>1. r \in Nat /\ old \in Nat /\ ~(r > old)
                BY <2>2, SavedAreNat
            <4>2. r < old
                BY <3>2, <4>1
            <4>3. QED
                BY <2>2, <2>3, <3>2, <4>2 DEF Commit
        <3>3. QED
            BY <3>1, <3>2
    <2>5. QED
        BY <1>1, <2>1, <2>4
<1>4. QED
    BY <1>2, <1>3 DEF Main

\* A request that MBparsing takes leaves a register agreeing, waiting for its save,
\* or missed.
LEMMA ParseAgrees ==
    ASSUME IInv, Store, Agreement, NEW f \in Request, MBparsing(f),
           NEW r \in EESaved \ missed'
    PROVE  RegisterAgrees(r)'
<1> DEFINE S == Block(f) \cap EESaved
           D == Dirty(S, WrittenRam(f), stored)
<1>1. /\ ram' = WrittenRam(f) /\ stored' = stored /\ com_pc' = com_pc
      /\ mb_pc = "queue_get" /\ boot = "done"
    BY DEF MBparsing, IInv, Control, BootAlone
<1>2. NvsTypeOK /\ r \in Reg /\ f.start \in Nat /\ f.count \in Nat
    BY SavedAreNat, RequestType DEF IInv, TypeOK
<1>3. ASSUME r \notin Block(f) \/ ~Saves(f) PROVE ram'[r] = ram[r]
    BY <1>1, <1>2, <1>3, ChangeIsSaved DEF WrittenRam
<1>4. r \notin missed => RegisterAgrees(r) /\ ~PendingMB(r)
    BY <1>1 DEF Agreement, PendingMB
<1>5. CASE ~Saves(f)
    BY <1>1, <1>3, <1>4, <1>5
    DEF MBparsing, RegisterAgrees, Holds, PendingMB, PendingCOM
<1>6. CASE Saves(f)
    <2>1. /\ Loop("MB", S, WrittenRam(f), stored, nvs_lock)
          /\ mb_pc' = IF D = {} THEN "sleep" ELSE "nvs_write"
        BY <1>6 DEF MBparsing, WriteEepromFrom
    <2>2. /\ \A q \in S : LoopOutcome("MB", S, WrittenRam(f), stored, q)
          /\ \A q \in EESaved \ S : q \in missed => q \in missed'
          /\ D # {} => job'["MB"].reg \in S
          /\ job'["MB"].val \in Value =>
                job'["MB"].reg \in S /\ job'["MB"].val = WrittenRam(f)[job'["MB"].reg]
        BY <1>2, <2>1, LoopOutcomes DEF Thread
    <2>3. Window' = Block(f)
        BY <1>6 DEF MBparsing, Saves, Window, Block
    <2>4. job'["COM"] = job["COM"] /\ PendingCOM(r)' = PendingCOM(r)
        BY <1>1, ModbusOwner DEF Thread, PendingCOM, IInv
    <2>5. Holds("MB", r)' => job'["MB"].val = ram'[r]
        BY <1>1, <2>2 DEF Holds
    <2>6. CASE r \in S
        <3>1. PendingMB(r)' \/ (stored[r] = ram'[r] /\ (Holds("COM", r) => job["COM"].val = ram'[r]))
            <4>1. ASSUME D # {}, job'["MB"].reg =< r PROVE PendingMB(r)'
                <5>1. job'["MB"].reg \in Nat /\ r \in Nat
                    BY <2>2, <4>1, SavedAreNat
                <5>2. QED
                    BY <2>1, <2>3, <2>6, <4>1, <5>1 DEF PendingMB
            <4>2. D # {} => job'["MB"].reg \in Nat /\ r \in Nat
                BY <2>2, SavedAreNat
            <4>3. QED
                BY <1>1, <2>2, <2>6, <4>1, <4>2 DEF LoopOutcome, Thread
        <3>2. QED
            BY <1>1, <2>4, <2>5, <3>1 DEF RegisterAgrees, Holds
    <2>7. CASE r \notin S
        <3>1. RegisterAgrees(r) /\ ~PendingMB(r) /\ ram'[r] = ram[r]
            BY <1>3, <1>4, <2>2, <2>7
        <3>2. QED
            BY <1>1, <2>4, <2>5, <3>1 DEF RegisterAgrees, Holds
    <2>8. QED
        BY <2>6, <2>7
<1>7. QED
    BY <1>5, <1>6

\* A write of the Modbus thread that ends leaves its register agreeing, unless
\* mh_Factory has yet to save it, and the loop goes on behind it.
LEMMA WrittenAgrees ==
    ASSUME ~FlashMayFail, IInv, Store, Agreement, mh_Write_Eeprom_Written,
           NEW r \in EESaved \ missed'
    PROVE  RegisterAgrees(r)'
<1> DEFINE old == job["MB"].reg
           S == {q \in Window \cap EESaved : q > old}
           img == Commit("MB")
           D == Dirty(S, ram, img)
<1>1. /\ ram' = ram /\ stored' = img /\ com_pc' = com_pc /\ Window' = Window
      /\ mb_pc = "nvs_write" /\ boot = "done"
      /\ Loop("MB", S, ram, img, Released("MB"))
      /\ mb_pc' = IF D = {} THEN "sleep" ELSE "nvs_write"
    BY DEF mh_Write_Eeprom_Written, Outcome, WriteEepromFrom, mbVars, Window,
           IInv, Control, BootAlone
<1>2. /\ NvsTypeOK /\ old \in EESaved /\ Writing("MB")
      /\ stored \in [EESaved -> Value \cup {NotFound}]
    BY OutcomeType DEF mh_Write_Eeprom_Written, Outcome, IInv, TypeOK, NvsTypeOK, Thread
<1>3. /\ \A q \in S : LoopOutcome("MB", S, ram, img, q)
      /\ \A q \in EESaved \ S : q \in missed => q \in missed'
      /\ D # {} => job'["MB"].reg \in S
      /\ job'["MB"].val \in Value =>
            job'["MB"].reg \in S /\ job'["MB"].val = ram[job'["MB"].reg]
    BY <1>1, <1>2, LoopOutcomes DEF Thread
<1>4. /\ job'["COM"] = job["COM"] /\ PendingCOM(r)' = PendingCOM(r)
      /\ ~Holds("COM", r)'
    BY <1>1, <1>2, ModbusOwner, WriterAlone DEF Thread, PendingCOM, Holds, IInv, Store
<1>5. Holds("MB", r)' => job'["MB"].val = ram'[r]
    BY <1>1, <1>3 DEF Holds
<1>6. CASE r \in S
    <2>1. ASSUME D # {}, job'["MB"].reg =< r PROVE PendingMB(r)'
        <3>1. job'["MB"].reg \in Nat /\ r \in Nat
            BY <1>3, <2>1, SavedAreNat
        <3>2. QED
            BY <1>1, <1>6, <2>1, <3>1 DEF PendingMB
    <2>2. D # {} => job'["MB"].reg \in Nat /\ r \in Nat
        BY <1>3, SavedAreNat
    <2>3. PendingMB(r)' \/ stored'[r] = ram'[r]
        <3>1. LoopOutcome("MB", S, ram, img, r)
            BY <1>3, <1>6
        <3>2. \/ img[r] = ram[r]
              \/ D # {} /\ (job'["MB"].reg = r \/ job'["MB"].reg < r)
            BY <3>1 DEF LoopOutcome
        <3>3. QED
            BY <1>1, <2>1, <2>2, <3>2
    <2>4. QED
        BY <1>4, <1>5, <2>3 DEF RegisterAgrees
<1>7. CASE r \notin S
    <2>1. RegisterAgrees(r)
        BY <1>1, <1>3, <1>7 DEF Agreement
    <2>2. CASE r = old
        <3>1. Holds("MB", r) /\ stored'[r] = job["MB"].val
            BY <1>1, <1>2, <2>2 DEF Holds, Commit, Writing
        <3>2. QED
            BY <1>1, <1>4, <1>5, <2>1, <3>1 DEF RegisterAgrees
    <2>3. CASE r # old
        <3>1. r \in Nat /\ old \in Nat
            BY <1>2, SavedAreNat
        <3>2. ~PendingMB(r) /\ stored'[r] = stored[r]
            BY <1>1, <1>2, <1>7, <2>3, <3>1 DEF PendingMB, Commit
        <3>3. QED
            BY <1>1, <1>4, <1>5, <2>1, <3>2 DEF RegisterAgrees
    <2>4. QED
        BY <2>2, <2>3
<1>8. QED
    BY <1>6, <1>7

\* mh_Factory assigns the defaults behind it and saves them; where it has not been
\* yet, nothing changes.  While img differs from flash in one register at most,
\* the one whose write of com_task has just ended, no other thread has a datum.
LEMMA FactoryAgrees ==
    ASSUME ~FlashMayFail, IInv, Store, Agreement, mh_Factory \/ mh_Factory_Written,
           NEW r \in EESaved \ missed'
    PROVE  RegisterAgrees(r)'
<1> DEFINE old == job["COM"].reg
           S == IF com_pc = "sleep" THEN EESaved ELSE {q \in EESaved : q > old}
           img == IF com_pc = "sleep" THEN stored ELSE Commit("COM")
           lock == IF com_pc = "sleep" THEN nvs_lock ELSE Released("COM")
           D == Dirty(S, Default, img)
<1>1. FactoryFrom(S, img, lock) /\ boot = "done"
    BY DEF mh_Factory, mh_Factory_Written, Outcome, CommandSeen, IInv, Control, BootAlone
<1>2. /\ Loop("COM", S, Default, img, lock)
      /\ stored' = img /\ mb_pc' = mb_pc /\ Window' = Window
      /\ com_pc' = IF D = {} THEN "sleep" ELSE "mh_Factory"
    BY <1>1 DEF FactoryFrom, mbVars, Window
<1>3. NvsTypeOK /\ S \in SUBSET EESaved /\ r \in Reg
    BY SavedAreNat DEF IInv, TypeOK
<1>4. /\ \A q \in S : LoopOutcome("COM", S, Default, img, q)
      /\ \A q \in EESaved \ S : q \in missed => q \in missed'
      /\ D # {} => job'["COM"].reg \in S
      /\ job'["COM"].val \in Value =>
            job'["COM"].reg \in S /\ job'["COM"].val = Default[job'["COM"].reg]
    BY <1>2, <1>3, LoopOutcomes DEF Thread
<1>5. ram'[r] = IF r \in Reached(S, Default, img) THEN Default[r] ELSE ram[r]
    BY <1>1, <1>3, CommandAssumption DEF FactoryFrom, Assigned
<1>6. job'["MB"] = job["MB"] /\ PendingMB(r)' = PendingMB(r)
    BY <1>2, FactoryOwner DEF Thread, PendingMB, IInv
<1>7. com_pc # "sleep" =>
        /\ old \in EESaved /\ Writing("COM") /\ ~Holds("MB", r)
        /\ stored \in [EESaved -> Value \cup {NotFound}]
    BY OutcomeType, WriterAlone
    DEF mh_Factory, CommandSeen, mh_Factory_Written, Outcome, Holds, Store,
        IInv, TypeOK, NvsTypeOK, Thread
<1>8. ASSUME RegisterAgrees(r), ram'[r] = ram[r],
             ~Holds("COM", r)', ~(com_pc # "sleep" /\ r = old)
      PROVE  RegisterAgrees(r)'
    <2>1. ~PendingCOM(r) /\ stored'[r] = stored[r]
        BY <1>2, <1>7, <1>8 DEF PendingCOM, Commit
    <2>2. QED
        BY <1>6, <1>8, <2>1 DEF RegisterAgrees, Holds
<1>9. CASE r \in S
    <2>1. LoopOutcome("COM", S, Default, img, r)
        BY <1>4, <1>9
    <2>2. CASE /\ r \in Reached(S, Default, img) /\ img[r] = Default[r]
               /\ job'["COM"].val \in Value => job'["COM"].reg # r
               /\ \A u \in Thread \ {"COM"} : Holds(u, r) => job[u].val = Default[r]
        <3>1. stored'[r] = ram'[r] /\ ~Holds("COM", r)'
            BY <1>2, <1>5, <2>2 DEF Holds
        <3>2. Holds("MB", r) => job["MB"].val = ram'[r]
            BY <1>5, <2>2 DEF Thread
        <3>3. QED
            BY <1>6, <3>1, <3>2 DEF RegisterAgrees, Holds
    <2>3. CASE /\ r \in Reached(S, Default, img) /\ D # {}
               /\ job'["COM"].reg = r
        <3>1. PendingCOM(r)'
            BY <1>2, <2>3 DEF PendingCOM
        <3>2. Holds("COM", r)' => job'["COM"].val = ram'[r]
            BY <1>4, <1>5, <2>3 DEF Holds
        <3>3. QED
            BY <3>1, <3>2 DEF RegisterAgrees
    <2>4. CASE /\ r \notin Reached(S, Default, img) /\ D # {}
               /\ job'["COM"].reg < r /\ r \notin missed
        <3>1. job'["COM"].reg \in Nat /\ r \in Nat
            BY <1>3, <1>4, <2>4, SavedAreNat
        <3>2. ~Holds("COM", r)'
            BY <2>4, <3>1 DEF Holds
        <3>3. RegisterAgrees(r) /\ ram'[r] = ram[r]
            BY <1>1, <1>5, <2>4 DEF Agreement
        <3>4. ~(com_pc # "sleep" /\ r = old)
            BY <1>9, <3>1
        <3>5. QED
            BY <1>8, <3>2, <3>3, <3>4
    <2>5. QED
        BY <2>1, <2>2, <2>3, <2>4 DEF LoopOutcome
<1>10. CASE r \notin S
    <2>1. RegisterAgrees(r) /\ ram'[r] = ram[r] /\ ~Holds("COM", r)' /\ com_pc # "sleep"
        BY <1>1, <1>4, <1>5, <1>10 DEF Agreement, Reached, Holds
    <2>2. CASE r = old
        <3>1. Holds("COM", r) /\ stored'[r] = job["COM"].val
            BY <1>2, <1>7, <2>1, <2>2 DEF Holds, Commit, Writing
        <3>2. PendingMB(r) \/ stored'[r] = ram'[r]
            BY <2>1, <3>1 DEF RegisterAgrees
        <3>3. QED
            BY <1>6, <1>7, <2>1, <3>2 DEF RegisterAgrees, Holds
    <2>3. CASE r # old
        BY <1>8, <2>1, <2>3
    <2>4. QED
        BY <2>2, <2>3
<1>11. QED
    BY <1>9, <1>10

\* A thread that is handed nvs_lock copies the datum RAM holds.
LEMMA GrantedAgrees ==
    ASSUME IInv, Store, Agreement, NEW t \in {"MB", "COM"}, Nvs_Lock_Granted(t),
           NEW r \in EESaved \ missed'
    PROVE  RegisterAgrees(r)'
<1>1. /\ UNCHANGED <<ram, stored, missed, cdcVars, mbVars, pcVars>>
      /\ job' = [job EXCEPT ![t].val = ram[job[t].reg]]
      /\ job[t].val = Unread /\ job \in [Thread -> Jobs \cup {NoJob}]
    BY DEF Nvs_Lock_Granted, Nvs_Locked, IInv, TypeOK, NvsTypeOK
<1>2. job[t] \in Jobs
    BY <1>1, SentinelAssumption DEF NoJob, Thread
<1>3. job'[t].reg = job[t].reg /\ job'[t].val = ram[job[t].reg]
    BY <1>1, <1>2 DEF Jobs, Thread
<1>4. \A u \in Thread \ {t} : job'[u] = job[u]
    BY <1>1
<1>5. boot = "done"
    BY <1>1, SentinelAssumption DEF Store, BootJobs, NoJob
<1>6. RegisterAgrees(r)
    BY <1>1, <1>5 DEF Agreement
<1>7. \A u \in {"MB", "COM"} : job'[u].reg = job[u].reg
    BY <1>3, <1>4 DEF Thread
<1>8. PendingMB(r)' = PendingMB(r) /\ PendingCOM(r)' = PendingCOM(r)
    BY <1>1, <1>7 DEF PendingMB, PendingCOM, Window, mbVars, pcVars
<1>9. \A u \in {"MB", "COM"} \ {t} : Holds(u, r)' = Holds(u, r)
    BY <1>4 DEF Holds, Thread
<1>10. Holds(t, r)' => job'[t].val = ram'[r]
    BY <1>1, <1>3 DEF Holds
<1>11. QED
    BY <1>1, <1>4, <1>6, <1>8, <1>9, <1>10 DEF RegisterAgrees, Thread

\* Every step keeps RAM and flash in agreement.
LEMMA NextAgreement ==
    ASSUME ~FlashMayFail, IInv, Store, Agreement, [Next]_vars
    PROVE  Agreement'
<1>1. ASSUME boot' = "done", \A r \in EESaved \ missed' : RegisterAgrees(r)'
      PROVE  Agreement'
    BY <1>1 DEF Agreement, BootAgrees
<1>2. ASSUME UNCHANGED <<nvsVars, boot, com_pc, eep_start_save, eep_indx>>,
             \A r \in EESaved : ram'[r] = ram[r],
             mb_pc' = mb_pc \/ ~(mb_pc = "nvs_write" \/ mb_pc' = "nvs_write")
      PROVE  Agreement'
    <2>1. job["MAIN"] \in Jobs => job["MAIN"].reg \in EESaved
        BY DEF Jobs
    <2>2. BootAgrees'
        BY <1>2, <2>1 DEF Agreement, BootAgrees, Store, BootReplaces, nvsVars
    <2>3. \A r \in EESaved : RegisterAgrees(r) => RegisterAgrees(r)'
        BY <1>2 DEF RegisterAgrees, PendingMB, PendingCOM, Holds, Window, nvsVars
    <2>4. QED
        BY <1>2, <2>2, <2>3 DEF Agreement, nvsVars
<1>3. CASE Main
    BY <1>3, MainAgrees
<1>4. CASE Reset
    BY <1>4 DEF Reset, MemoryCleared, Agreement, BootAgrees
<1>5. CASE UsbWorkQueue \/ UsbBus \/ UNCHANGED vars
    BY <1>2, <1>5 DEF UsbWorkQueue, uart_usb_interrupt_handler,
                      uart_usb_interrupt_return, UsbBus, vars, mbVars, pcVars
<1>6. CASE ModbusThread
    <2>1. CASE mh_task_Modbus_start \/ MBparsing_Invalid \/ mh_Write_Eeprom_return
        BY <1>2, <2>1 DEF mh_task_Modbus_start, MBparsing_Invalid,
                          mh_Write_Eeprom_return, mbVars, pcVars
    <2>2. CASE \E f \in Request : MBparsing(f)
        <3>1. boot' = "done"
            BY <2>2 DEF MBparsing, IInv, Control, BootAlone
        <3>2. QED
            BY <1>1, <2>2, <3>1, ParseAgrees
    <2>3. CASE mh_Write_Eeprom_Written
        <3>1. boot' = "done"
            BY <2>3 DEF mh_Write_Eeprom_Written, IInv, Control, BootAlone
        <3>2. QED
            BY <1>1, <2>3, <3>1, WrittenAgrees
    <2>4. CASE Nvs_Lock_Granted("MB")
        <3>1. boot' = "done"
            BY <2>4, SentinelAssumption
            DEF Nvs_Lock_Granted, Nvs_Locked, pcVars, Store, BootJobs, NoJob
        <3>2. QED
            BY <1>1, <2>4, <3>1, GrantedAgrees
    <2>5. QED
        BY <1>6, <2>1, <2>2, <2>3, <2>4 DEF ModbusThread
<1>7. CASE ComTask
    <2>1. CASE mh_Factory \/ mh_Factory_Written
        <3>1. boot' = "done"
            BY <2>1 DEF mh_Factory, mh_Factory_Written, CommandSeen, FactoryFrom,
                        IInv, Control, BootAlone
        <3>2. QED
            BY <1>1, <2>1, <3>1, FactoryAgrees
    <2>2. CASE Nvs_Lock_Granted("COM")
        <3>1. boot' = "done"
            BY <2>2, SentinelAssumption
            DEF Nvs_Lock_Granted, Nvs_Locked, pcVars, Store, BootJobs, NoJob
        <3>2. QED
            BY <1>1, <2>2, <3>1, GrantedAgrees
    <2>3. CASE command_control_restart
        BY <1>4, <2>3 DEF command_control_restart, Reset, MemoryCleared,
                          Agreement, BootAgrees
    <2>4. CASE command_control_other
        <3>1. \A r \in EESaved : ram'[r] = ram[r]
            BY <2>4, CommandAssumption DEF command_control_other, IInv, TypeOK, NvsTypeOK
        <3>2. QED
            BY <1>2, <2>4, <3>1 DEF command_control_other, mbVars, pcVars
    <2>5. QED
        BY <1>7, <2>1, <2>2, <2>3, <2>4 DEF ComTask
<1>8. QED
    BY <1>3, <1>4, <1>5, <1>6, <1>7 DEF Next

--------------------------------------------------------------------------------
(* Theorems about steps *)

\* At a reset no thread holds a datum, whatever flash contains.
LEMMA InitStore == Init => Store
BY SentinelAssumption
DEF Init, NvsInit, CdcInit, Store, LockOwner, BootJobs, BootReplaces, NoJob, Thread

\* In every run one thread at most has a datum on its way to flash, and until
\* mh_Buf_Init is over it is main, with a datum it may put there.
THEOREM StoreInvariance == Spec => [](IInv /\ Store)
<1>1. Init => IInv /\ Store
    BY InitIInv, InitStore
<1>2. IInv /\ Store /\ [Next]_vars => IInv' /\ Store'
    BY NextIInv, NextStore
<1>3. QED
    BY <1>1, <1>2, PTL DEF Spec

\* However many resets cut mh_Buf_Init short, a stored value inside the limits of
\* its register stays.
THEOREM BootKeepsGoodValuesAlways == Spec => BootKeepsGoodValues
<1>1. IInv /\ Store /\ [Next]_vars =>
        [boot # "done" =>
            \A r \in EESaved : stored[r] \in Allowed[r] => stored'[r] = stored[r]]_vars
    BY BootStep
<1>2. QED
    BY <1>1, StoreInvariance, PTL DEF Spec, BootKeepsGoodValues

\* An exception reply is built with RAM as it was and nothing to save.
THEOREM ExceptionIsPureAlways == Spec => ExceptionIsPure
<1>1. IInv /\ [Next]_vars =>
        [p_mb_buff' \in Reply /\ p_mb_buff' # p_mb_buff /\ p_mb_buff'.exc # MBE_NONE
            => ram' = ram /\ eep_state' = "EEP_FREE"]_vars
    BY ExceptionStep
<1>2. QED
    BY <1>1, Invariance, PTL DEF Spec, ExceptionIsPure

\* The slave of ModbusUsb, with its port, queue, threads and flash, does what
\* SlaveTransaction promises the master.
THEOREM TransactionImplemented == Spec => ImplementsTransaction
<1>1. Init => Transaction!Init
    BY DEF Init, Transaction!Init, Transaction!Reg, Reg
<1>2. IInv /\ IInv' /\ Store /\ [Next]_vars =>
        [Transaction!Next]_<<boot = "done", Owes, ram>>
    BY NextTransaction
<1>3. IInv /\ IInv' /\ Store /\ [Next]_vars =>
        [Transaction!Next]_<<boot = "done",
            (IF mb_state = "STATE_PARS" THEN {"request"} ELSE {})
            \cup (IF mb_state = "STATE_SEND" THEN {"reply"} ELSE {})
            \cup (IF eep_state = "EEP_SAVE" THEN {"save"} ELSE {}), ram>>
    BY <1>2 DEF Owes
<1>4. QED
    BY <1>1, <1>3, StoreInvariance, PTL DEF Spec, ImplementsTransaction, Transaction!Spec

\* When every flash write succeeds, RAM and flash agree on each saved register that
\* no thread is still saving, unless its last nvs_write was skipped by comparison
\* with an entry about to be replaced: whatever is in flash at the start, however
\* saves and mh_Factory overlap, and wherever resets fall.
THEOREM SavedUnlessMissedAlways ==
    ASSUME ~FlashMayFail
    PROVE  Spec => []SavedUnlessMissed
<1>1. Init => IInv /\ Store /\ Agreement
    BY InitIInv, InitStore DEF Init, Agreement, BootAgrees
<1>2. IInv /\ Store /\ Agreement /\ [Next]_vars => IInv' /\ Store' /\ Agreement'
    BY NextIInv, NextStore, NextAgreement
<1>3. Agreement => SavedUnlessMissed
    BY DEF Agreement, RegisterAgrees, PendingMB, PendingCOM, SavedUnlessMissed, Pending
<1>4. QED
    BY <1>1, <1>2, <1>3, PTL DEF Spec
================================================================================
