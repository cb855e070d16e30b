SPECIFICATION Spec
CONSTANTS
    RegLast = 3
    Value = {0, 1, 2}
    Writable = {0, 1, 2}
    EESaved = {1, 2}
    Allowed <- MCAllowed
    Default <- MCDefault
    NotFound = NotFound
    Unread = Unread
    FlashMayFail = FALSE
    Request <- MCRequest
    NoData = NoData
    Garbled = Garbled
    Short = Short
    Reg_Send_Command = 0
    CODE_RESET_TO_DEFAULT = 1
    RestartCodes = {2}
INVARIANTS
    TypeOK
    TxOnlyWhileSending
    OneTransaction
    SaveExclusive
    NoLostWakeup
    LimitsHold
    SavedUnlessMissed
PROPERTIES
    ExceptionIsPure
    BootKeepsGoodValues
    ImplementsTransaction
