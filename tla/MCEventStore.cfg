\* Writes of every kind, rebuilds that may fail half-way, restarts, and a
\* stream that reconnects at will.
CONSTANTS
    w1 = w1
    k1 = k1
    old = old
    new = new
    proof = proof
    nobody = nobody
    tab = tab
    Orders <- MCOrders
    Keys <- MCKeys
    Contents <- MCContents
    Uris <- MCUris
    Nobody = nobody
    Streams <- MCStreams
    MaxEvents = 3
SYMMETRY MCSymmetry
SPECIFICATION StoreSpec
INVARIANTS
    StoreTypeOK
    TablesFollowLog
    CheckpointsHold
    StreamsExact
