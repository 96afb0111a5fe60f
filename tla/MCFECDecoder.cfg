CONSTANTS
    BlockIdx = {0, 1, 2, 3, 4}
    NPrimary <- MCNPrimary
    NSecondary <- MCNSecondary
    RX_QUEUE_MAX_SIZE = 3
    maxNFragmentsPerBlock = 4
    m_forward_gapped_fragments = FALSE
    MaxTotal = 6
SPECIFICATION Spec
CONSTRAINT StatsBound
INVARIANTS TypeOK QueueContiguous NoDecodableBlockWaits DeliveredIsData FecAssertions BlocksAccounted
PROPERTY InOrderDelivery
