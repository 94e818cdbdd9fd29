SPECIFICATION FairSpec
CONSTANTS
    Producers = {p1}
    Consumers = {c1}
    Threshold = 1
    MaxItems = 2
PROPERTIES
    DelayedItemDelivered
