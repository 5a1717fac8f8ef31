CONSTANTS
    Wrap = 12
    LinkAge = 3
    MaxAges = {3, 5}
    MaxSilence = 9
    MaxStall = 2
SPECIFICATION FbSpec
INVARIANT FbTypeOK
PROPERTIES
    FreshExactly
    LinkOkHonest
