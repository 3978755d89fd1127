SPECIFICATION Spec
CONSTANTS
    Bytes <- MCBytes
    MaxLength = 4
INVARIANTS
    AgreesWithTest
    LowestByteInv
    OneCharacterApart
CHECK_DEADLOCK FALSE
