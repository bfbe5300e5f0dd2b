\* Codec.Write of a Ping whose body is 65536 bytes, under the default maxPktSize.
CONSTANTS
    NoProp = NoProp
    NoOpt = NoOpt
    AppRegistry <- MCAppRegistry
    Calls <- MCCalls
    Body <- MCBody
    PeerItems <- MCPeerItemsDistinct
    PeerSlack = {0, 1}
    Templates <- MCLargeTemplates
    RawFrames = {}
    MaxPktSizeOpt = NoOpt
    MaxOps = 1
SPECIFICATION Spec
INVARIANT FrameBoundary
