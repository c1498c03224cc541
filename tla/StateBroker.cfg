SPECIFICATION FairStreamSpec
CONSTANTS
    Subscribers = {s1, s2}
    Probers = {}
    Runs = {r1}
    Cap = 1
INVARIANTS
    NoSendOnClosed
    DeliveredUnlessFull
    RunsInOrder
PROPERTIES
    PublishersFinish
