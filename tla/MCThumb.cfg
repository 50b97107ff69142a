CONSTANTS
    Half = 128
    Bits = 8
    Byte = 4
    RamBase = 128
    RamSize = 40
    Programs <- AllPrograms
    Inputs <- InputsOf
SPECIFICATION FairSpec
CHECK_DEADLOCK FALSE
INVARIANTS
    ProgramsRight
PROPERTIES
    FaultsStay
    ProgramsEnd
