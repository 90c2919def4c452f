SPECIFICATION Spec
CONSTANTS
    s1 = s1
    s2 = s2
    s3 = s3
    m1 = m1
    m2 = m2
    garbage = garbage
    Unsent = Unsent
    Nothing = Nothing
    Off = Off
    Empty = Empty
    NoClient = NoClient
    NaN = NaN
    r1 = r1
    r2 = r2
    Nobody = Nobody
    ReceiveSizes = {2}
    ReceiveWords = 2
    EventsSent = 1
    SendSizes = {2}
    SendWords = 2
    Bursts = {2}
    Requests = 1
INVARIANT ConfiguredColorSeen
