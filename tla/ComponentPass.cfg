SPECIFICATION FairSpec
CONSTANT
    Setups <- MCSetups
INVARIANTS
    TypeOK
    AccountsUnderPolicy
    BlockedByTrouble
PROPERTIES
    RouteAfterService
    Converges
