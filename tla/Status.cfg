SPECIFICATION Spec
CONSTANTS
    s1 = s1
    s2 = s2
    s3 = s3
    m1 = m1
    m2 = m2
    garbage = garbage
    Unsent = Unsent
    Nothing = Nothing
    Off = Off
    Empty = Empty
    NoClient = NoClient
    NaN = NaN
    r1 = r1
    r2 = r2
    Nobody = Nobody
    ReceiveSizes = {2, 3, 4}
    ReceiveWords = 5
    EventsSent = 4
    SendSizes = {2, 3, 5}
    SendWords = 8
    Bursts = {8, 13}
    Requests = 4
INVARIANTS
    LoopSafe  WordsSound MessageDrawn
PROPERTIES
    LineSpec StatusProceeds ColorFollowsFile
