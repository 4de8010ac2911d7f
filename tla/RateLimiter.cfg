\* Nearly three seconds of three ticks, two triggers or commands a second, the
\* clock set back once; two commands with two retries each.
CONSTANTS
    MaxPerSecond = 2
    Window = 3
    Setbacks = {1, 3}
    MaxSetbacks = 1
    Horizon = 8
    CountBound = 4
    QuoteCommands = {c1, c2}
    MaxRetries = 2
    InitialBackoff = 1
    MaxBackoff = 2
SPECIFICATION LimiterSpec
 
PROPERTY RetriesBackOff
CHECK_DEADLOCK FALSE
