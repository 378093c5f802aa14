SPECIFICATION Spec
CONSTANTS
    a = a
    b = b
    c = c
    d = d
    Null = Null
    ServerItems <- MCServers
    Weight <- MCWeight
    PointOf <- MCPointOf
    mReplications = 4
    Hashes = {0, 2, 3, 6, 9, 12}
INVARIANTS TypeOK CircleComplete AlwaysRouted
PROPERTIES MinimalMoves
