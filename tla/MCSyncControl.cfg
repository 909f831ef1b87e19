SPECIFICATION FairSpec

CONSTANTS
    Users = {u1, u2}
    NoUser = NoUser
    MaxCalls = 1

INVARIANT
    TypeOK

PROPERTIES
    OneThread
    OwnStore
    CancelledKeepsNothing
    SyncIsAnswered
    
    LogoutHappens
