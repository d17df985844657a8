SPECIFICATION Spec
CONSTANTS
    Inputs <- Requests
    Missing <- NoPubkey
INVARIANTS
    TypeOK
    ParsesExactly
    LastResortExact
    OwnIdentityOnly
CHECK_DEADLOCK FALSE
