SPECIFICATION MCFairSpec
CONSTANTS
    Kinds = {"realm", "client"}
    Names = {"n"}
    RealmName = "n"
    Policies = {"Delete"}
    BuiltIn = {}
    MaxGeneration = 1
    MaxUid = 1
    Disturbances = {"delete"}
PROPERTIES
    SafeFromFinalizer
CHECK_DEADLOCK FALSE
