SPECIFICATION FairSpec
CONSTANTS
    WifiAutoConnect = TRUE
    MobileAllowed = FALSE
    MaxQueue = 3
INVARIANTS TypeOK ConnectedMeansUp 
 
