CONSTANT Half = 3
SPECIFICATION Spec
INVARIANTS
    TypeOK
    HeadingTrusted
PROPERTIES
    TurnsTheShortWay
    HeadingConverges
