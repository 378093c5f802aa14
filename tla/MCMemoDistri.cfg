SPECIFICATION Spec
CONSTANTS
    s1 = s1
    s2 = s2
    s3 = s3
    s4 = s4
    Null = Null
    ServerItems <- MCServers
    Weight <- MCWeight
    Hashes = {1, 2, 3}
INVARIANTS TypeOK HeapPrecondition KeyCountExact OneLoaded
PROPERTIES StickyKeys
