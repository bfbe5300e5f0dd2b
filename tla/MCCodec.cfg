\* Application props calls, Codec.Write of every packet shape, peer frames, and Codec.Read.
CONSTANTS
    NoProp = NoProp
    NoOpt = NoOpt
    AppRegistry <- MCAppRegistry
    Calls <- MCCalls
    Body <- MCBody
    PeerItems <- MCPeerItemsDistinct
    PeerSlack <- MCPeerSlack
    Templates <- MCTemplates
    RawFrames <- MCRawFrames
    MaxPktSizeOpt = 20
    MaxOps = 3
SPECIFICATION Spec
INVARIANT TypeOK
INVARIANT LenConsistent
INVARIANT FrameBoundary
INVARIANT WithGetRoundTrip
PROPERTY FramesDelivered
