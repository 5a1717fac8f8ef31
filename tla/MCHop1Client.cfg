CONSTANT CutSends = TRUE
SPECIFICATION FairSpec
INVARIANT TypeOK
PROPERTIES
    GarbledByCause
    SendsEnd
    LostIsNoticed
    KeepsListening
