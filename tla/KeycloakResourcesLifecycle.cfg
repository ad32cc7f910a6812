SPECIFICATION MCFairSpec
CONSTANTS
    Kinds = {"flow"}
    Names = {"n", "m"}
    RealmName = "n"
    Policies = {"Delete", "Orphan"}
    BuiltIn = {"flow"}
    MaxGeneration = 2
    MaxUid = 2
    Disturbances = {"edit", "rename", "delete", "drift", "credentials"}
INVARIANTS
    TypeOK
    HoldsResource
    NothingLeaked
PROPERTIES
    KeepsCustody
    Converges
    DeletionCompletes
CHECK_DEADLOCK FALSE
