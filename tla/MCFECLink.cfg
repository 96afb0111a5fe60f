CONSTANTS
    BlockIdx = {0, 1, 2, 3}
    NPrimary <- LinkNPrimary
    NSecondary <- LinkNSecondary
    RX_QUEUE_MAX_SIZE = 2
    maxNFragmentsPerBlock = 4
    m_forward_gapped_fragments = FALSE
    IdxModulus = 4
    MaxBlocks = 4
SPECIFICATION LinkSpec
INVARIANTS FecCoversLosses LostCountJustified
CHECK_DEADLOCK FALSE
