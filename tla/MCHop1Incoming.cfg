CONSTANTS
    o1 = o1
    long_id = long_id
    empty = empty
    outsize = outsize
    None = None
    Msg <- MCMsg
    Kind <- MCKind
    MaxMessages = 2
SPECIFICATION InSpec
INVARIANT InTypeOK
PROPERTIES
    ActedOnWhole
    AnsweredOrClosed
