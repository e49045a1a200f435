SPECIFICATION Spec
CONSTANTS
    a = a
    b = b
    m = m
    Listener = Listener
    Conns = {a, m}
    H2 = {m}
    Streams = {1, 2}
PROPERTIES InFlightNotCut HandlersAreContained DrainNeverTurnsBack PromiseKept ShutdownCompletes ConnectionsDrain NobodyLeftWaiting
