SPECIFICATION FairSpec
CONSTANTS
    Producers = {p1, p2}
    Consumers = {c1, c2}
    Threshold = 1
    MaxItems = 3
INVARIANTS
    TypeOK
    Bounded
    ConsumerNotForgotten
    ProducerNotForgotten
    DeliveryOrder
PROPERTIES
    StopReleasesConsumers
    EventuallyDelivered
