\* The limit of the code on one site that redirects to itself.
CONSTANTS
    Host <- MCSite
    Address <- MCGlobal
    AllowedHosts <- MCAnyHost
    AllowPrivate = FALSE
    AllowProxy = FALSE
    RedirectLimit = 10
    ProxyHost <- MCNoProxy
SPECIFICATION ExchangeSpec
CHECK_DEADLOCK FALSE
INVARIANTS
    FollowsUpToLimit
