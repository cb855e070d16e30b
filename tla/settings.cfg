SPECIFICATION Spec
CONSTANTS
    RegLast = 119
    Value <- MCValue
    Writable <- SensorWritable
    EESaved <- SensorSaved
    Allowed <- MCAllowed
    Default <- MCDefault
    Tried <- MCTried
    MaxChanged = 3
    FactoryAddress <- MCFactoryAddress
    Off = Off
INVARIANTS
    TableFits
    ChannelUsable
    StartsApart
    PublishedReadsBack
