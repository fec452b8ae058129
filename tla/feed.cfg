\* One page, two connections: the one that is over and the next.
CONSTANTS
    s1 = s1
    s2 = s2
    NoSocket = NoSocket
    status = status
    Sockets = {s1, s2}
    Conns = {s1, s2}
    Msgs = {status}
    MaxReconnects = 1
    ControlQueue = 1
    BroadcastQueue = 1
    SendQueue = 1
    MaxPollers = 1
SPECIFICATION FairFeed
INVARIANTS FeedTypeOK OneSocket RegistryOpen Served NeverStranded
PROPERTIES Freshens Evicted
CHECK_DEADLOCK FALSE
