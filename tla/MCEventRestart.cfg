CONSTANTS
    p1 = p1
    p2 = p2
    durable = durable
    None = None
    MaxRetries = 2
    Event = {e1, bad}
    Malformed = {bad}
    Pod = {p1, p2}
    Consumer = {durable}
    Ephemeral = {}
    ConsumerOf <- SharedConsumer
SPECIFICATION StartSpec
INVARIANT SurvivesRestart
CHECK_DEADLOCK FALSE
