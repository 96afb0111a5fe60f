CONSTANTS
    MAX_N_P_FRAGMENTS_PER_BLOCK = 5
    MAX_N_S_FRAGMENTS_PER_BLOCK = 5
    MTU = 4
    m_capacity = 2
    Elements = {}
    Shapes <- MCShapes
    MaxItems = 4
SPECIFICATION TxSpec
INVARIANTS ItemsAccounted BlocksAreValid
PROPERTIES KeyFramesAreSent ThreadIsJoined
CHECK_DEADLOCK FALSE
