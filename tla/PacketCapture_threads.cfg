SPECIFICATION Spec
CONSTANTS
    r1 = r1
    r2 = r2
    c1 = c1
    c2 = c2
    Readers <- MCReaders
    Capturer = Capturer
    Nobody = Nobody
    Clients <- MCClients
    Packets <- MCPackets
    Adds <- MCAdds
    CounterBits = 1
    MaxPackets = 5
SYMMETRY Symmetry
INVARIANTS
    InfoIsOfOnePacket
    MembersCoverFields
    CountersAgree
    CountedSinceReset
PROPERTY
    StatisticsAreAtomic
