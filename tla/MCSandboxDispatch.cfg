SPECIFICATION LiveSpec
CONSTANTS
    office = office
    h1 = h1
    j1 = j1
    None = None
    Roles <- OneRole
    Peers <- OnePeer
    Jobs <- OneJob
    PeerRole <- PeerRoles
    JobRole <- JobRoles
    MaxFaults = 1
INVARIANTS TypeOK RetryUntransferred ResultAfterGone ReapedMeansGone 
PROPERTIES SilentAfterLatch Answered ShutdownReturns
CHECK_DEADLOCK FALSE
