CONSTANTS
    Configurations <- MCConfigurations
    MaxSessions = 2
    MaxPackets <- MCMaxPackets
    MaxInjections = 2
    MaxBacklog <- MCMaxBacklog
    packet_queue_size = 1
    FEC_DISABLED_MAX_SIZE_OF_MAP = 3
SPECIFICATION Spec
INVARIANTS AcceptedAreForwarded LosslessIsComplete OneCardNoDuplicates
PROPERTY SessionsAgree
