CONSTANTS
    Channels <- TwoChannels
    Widths = {10, 20, 40}
    MaxRequests = 2
    MaxFaults = 1
SPECIFICATION Spec
INVARIANTS TypeOK IdleIsTuned
PROPERTIES AnnouncedIsFollowed Settles AcceptedIsDone
