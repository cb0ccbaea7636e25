CONSTANTS
    Configs <- MCConfigs
    Readiness = {TRUE, FALSE}
    MaxNow = 11
SPECIFICATION EngineSpec
CHECK_DEADLOCK FALSE
PROPERTIES
    RestartsAreBounded
    WaitsFollowCrashes
