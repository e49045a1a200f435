SPECIFICATION Spec
CONSTANTS
    a = a
    b = b
    m = m
    Listener = Listener
    Conns = {a, b, m}
    H2 = {m}
    Streams = {1}
SYMMETRY Symmetry
INVARIANTS TypeOK MonitorCountsConnections ReturnMeansDrained ShutdownOnlyOnSignal
