CONSTANTS
    Producers = {p1, p2}
    m_capacity = 2
    MaxCalls = 3
SPECIFICATION Spec
INVARIANTS NoLostWakeup
PROPERTIES IsBoundedQueue ElementsAreTaken
