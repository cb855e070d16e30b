SPECIFICATION FairSpec
CONSTANTS
    RegLast = 2
    Value = {0, 1, 2, 3}
    Writable = {0, 1}
    EESaved = {1}
    Allowed <- MCAllowed
    Default <- MCDefault
    NotFound = NotFound
    Unread = Unread
    FlashMayFail = TRUE
    Request <- SmallRequest
    NoData = NoData
    Garbled = Garbled
    Short = Short
    Reg_Send_Command = 0
    CODE_RESET_TO_DEFAULT = 1
    RestartCodes = {2}
PROPERTIES
    SaveEnds
    CommandCleared
    SlaveReturns
