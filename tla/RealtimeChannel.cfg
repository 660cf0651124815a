SPECIFICATION ChannelFairSpec
CONSTANTS
    Pollers = {i1, i2, i3}
    None = None
    MaxChanges = 2
\* stop() ends everything, and without a change nothing need happen.
CHECK_DEADLOCK FALSE
INVARIANTS PollingCoversOutage StopEnds
PROPERTY ChangeNoticed
