CONSTANTS
    Codecs = {"nec", "unkn0"}
    Messages <- MCMessages
    BUFF_SIZE = 10
    MaxFlush = 2
SPECIFICATION BindingSpec
CHECK_DEADLOCK FALSE
INVARIANTS
    HeardIsDecoded
    OneWrongPerFlush
    
PROPERTIES
    LoopOfC
