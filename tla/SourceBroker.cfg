SPECIFICATION Spec
CONSTANTS
    s1 = s1  s2 = s2
    r1 = r1  r2 = r2  r3 = r3
    Sources <- MCSources
    Reads <- MCReads
    SourceOf <- MCSourceOf
    Length <- MCLength
    Concurrencies <- MCConcurrencies
    Capacity = 3
CONSTRAINT
    ChannelsBounded
INVARIANTS
    BrokerInv
    ReadsAdvance
    HostWorkContained
CHECK_DEADLOCK FALSE
