SPECIFICATION MCFairSpec
CONSTANTS
    Names = {n1, n2}
    Objects = {"gateway", "collector"}
    MaxUid = 2
    Disturbances = {"strip", "edit", "release", "squat", "drift"}
INVARIANTS TypeOK SingleAuthority
PROPERTIES KeepsOffice NeverAdopts Converges
CHECK_DEADLOCK FALSE
