CONSTANTS
    c1 = c1 
    c2 = c2
    c3 = c3
    s1 = s1
    s2 = s2
    m1 = m1
    m2 = m2
    k1 = k1
    k2 = k2
    Callers = {c1, c2, c3}
    Subscribers = {}
    Writer = Writer
    Nobody = Nobody
    Malformed = Malformed
    Foreign = Foreign
    Methods = {m1, m2}
    Keys = {k1, k2}
    Calls <- CommandCalls
    MaxCalls = 1
    MaxMessages = 1
    MaxOpens = 1
    max_message_backlog = 1
    max_packet_backlog = 0
    QueueSize <- Unbounded
SYMMETRY Interchangeable
SPECIFICATION Spec
INVARIANTS
    TypeOK PendingOwnedByHolder NoStrandedRequest
    NoStrandedUpdate SupersededNeverSent WriterServes DownSessionIsEmpty
PROPERTIES LatestWinsSpec
