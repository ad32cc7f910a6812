SPECIFICATION MCSpec
CONSTANTS
    Kinds = {"realm", "user"}
    Names = {"n"}
    RealmName = "n"
    Policies = {"Delete"}
    BuiltIn = {"realm"}
    MaxGeneration = 1
    MaxUid = 1
    Disturbances = {"delete"}
PROPERTIES
    KeepsCustody
CHECK_DEADLOCK FALSE
