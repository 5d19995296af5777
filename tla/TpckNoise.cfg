CONSTANTS
    Base = 5
    SOF = 2
    EOF = 3
    ESC = 4
    Packets <- SmallPackets
    Kept <- OneAtMost
SPECIFICATION Spec
INVARIANTS
    TypeOK
    IntactFrameDelivered
    IntactFrameResynchronises
PROPERTY MisreadFrameRejected
