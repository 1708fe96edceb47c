SPECIFICATION StoreSpec
CONSTANTS
    server = server
    c1 = c1
    c2 = c2
    Nobody = Nobody
    a = a
    b = b
    Procs = {server, c1, c2}
    Settings = {a, b}
    CommandPairs = {b}
    MaxWrites = 3
INVARIANT NothingDiscarded
