SPECIFICATION Spec
CONSTANTS
    LEVEL_BITS = 2
    MAX_LEVEL = 2
    Lexical <- MCLexical
    Configs <- MCConfigs
    Names <- MCNames
    MaxInits = 3
INVARIANTS Delivered NoLeak Linked
PROPERTIES StableLookup
CHECK_DEADLOCK FALSE
