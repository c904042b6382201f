SPECIFICATION Spec
CONSTANTS
    p1 = p1
    p2 = p2
    p3 = p3
    Packets = {p1, p2, p3}
    NoPacket = NoPacket
    AppendTears = {"lost", "torn"}
    MarkTears = {"lost"}
    MaxCrashes = 4
SYMMETRY Symmetry
INVARIANTS AckedDurable AlwaysRecoverable
PROPERTIES AppendOnly
