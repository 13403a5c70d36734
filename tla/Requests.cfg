\* Elections in a pair, a triangle and a star of hubs; routing in the triangle with a hub hung on it.
SPECIFICATION ReqSpec
CONSTANTS
    h1 = h1
    h2 = h2
    h3 = h3
    k1 = k1
    k2 = k2
    m1 = m1
    m2 = m2
    m3 = m3
    b1 = b1
    b2 = b2
    b3 = b3
    b4 = b4
    c1 = c1
    c2 = c2
    c3 = c3
    Hubs = {h1, h2, h3, k1, k2, m1, m2, m3}
    Links <- Networks
    Origins = {h1, k1, m1}
    Helpers = {b2, b3, b4, c1, c2, c3}
    At <- Helping
    Crowded = {m3}
    Fragile <- Flimsy
    MaxDrops = 1
    Nodes = {h1, h2, h3, k1}
    Lines <- Kite
    Bots = {b1, b2, b3, b4}
    Home <- OpHome
    Left <- OpLeft
    Req <- OpReq
    Sessions = {{"o1", "o3"}, {"o2", "o4"}, {"o5"}, {"k1", "k2"}, {"a1"}}
    Elder = {h2}
    Stored <- OpStored
    RingSize = 2
    OpSlots = 1
    ChanSlots = 1
    MaxOpFaults = 1
CHECK_DEADLOCK FALSE
INVARIANTS Elected FlowTrue
PROPERTIES Concludes Reaches
