CONSTANTS
    p1 = p1
    p2 = p2
    durable = durable
    None = None
    MaxRetries = 2
    Event = {e1, bad}
    Malformed = {bad}
    Pod = {p1, p2}
    Consumer = {p1, p2}
    Ephemeral = {p1, p2}
    ConsumerOf <- OwnConsumer
SPECIFICATION StartSpec
INVARIANT FanOut
CHECK_DEADLOCK FALSE
