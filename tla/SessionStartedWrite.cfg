CONSTANTS
    c1 = c1 
    c2 = c2
    c3 = c3
    s1 = s1
    s2 = s2
    m1 = m1
    m2 = m2
    k1 = k1
    k2 = k2
    Callers = {c1, c2}
    Subscribers = {}
    Writer = Writer
    Nobody = Nobody
    Malformed = Malformed
    Foreign = Foreign
    Methods = {m1, m2}
    Keys = {k1}
    Calls <- UnlockedWriteCalls
    MaxCalls = 2
    MaxMessages = 0
    MaxOpens = 2
    max_message_backlog = 1
    max_packet_backlog = 0
    QueueSize <- Unbounded
SPECIFICATION Spec
PROPERTIES NeverCancelsStartedWrite
