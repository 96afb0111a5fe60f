CONSTANTS
    Setups <- MCSetups
    MinBitrate = 2000
    PrimaryPerc = 60
    Recommended = {3917, 9000}
    UserRates = {8000}
    Formats = {"720p", "1080p"}
SPECIFICATION Spec
PROPERTIES PipelineFollows RecommendationArrives
CHECK_DEADLOCK FALSE
