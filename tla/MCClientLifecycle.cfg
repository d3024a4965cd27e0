CONSTANTS
    p = p
    s = s
    c1 = c1
    w1 = w1
    Clients <- MCClients
    Primary = p
    Callers <- MCCallers
    Owner <- MCOwner
    MaxPipe = 2
    MaxCalls = 3
    MaxFlushes = 1
    Int64Bits = 8
    IntBits = 4
    IntReplies <- MCIntReplies
    Texts <- MCTexts
    ArrayReplies <- MCArrayReplies
    GeoLists <- MCGeoLists
    GeoPosLists <- MCGeoPosLists
SPECIFICATION Spec
INVARIANT TypeOK PipelineErrorIsFirst RunNeverSurfacesNoScript
INVARIANT HelpersReportDoOutcome IntegerHelpersAgree PairHelpersFaithful
INVARIANT GeoLocationsFaithful GeoPositionFaithful
PROPERTY ShutDownReturns
CHECK_DEADLOCK FALSE
