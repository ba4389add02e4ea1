\* The constants of Structures.cfg.
SPECIFICATION StructuresSpec
CONSTANTS
    Accounts = {u1, u2, u3}
    Names = {x, y, z}
    Keys = {k1, k2, k3, k4}
    None = None
    IdBits = 4
    MaxRoutes = 5
    BlockSize = 3
    BlockHistory = 1
    FetchLimit = 2
    MaxMessages = 7
    MaxReadings = 2
    Capacity = 7
    PacketSizes = {2, 3}
    MaxBytes = 16
    MaxForwarded = 7
    Chunk = 3
    MaxActions = 3
    MaxOthers = 1
    MaxEdits = 4
    MaxLosses = 1
    MaxLogins = 2
    Octets = {0, 1, 2}
    MaxBuffer = 7
    FieldBits = 8
    GENERATING_POLYNOMIAL = 29
    required = 2
    total = 6
    BlockLen = 2
    Originals <- TwoBlocks
    Errors = {144}
    MaxDamages = 2
    DigitBits = 2
    WordBits = 5
    MaxWire = 3
    Owners = {a, b}
    Identities = {i1, i2}
    NodeIds = {e1, bad}
    ValidIds = {e1}
    STAKE_AMOUNT = 3
    INIT_VOTE_POOL = 1
    STAKE_DURATION = 1
    BASE_SLASH = 1
    BalanceBits = 8
    MaxJoins = 3
    MaxTime = 2
    Servers = {s1}
    MaxMissed = 1
INVARIANTS CheatersFound
SYMMETRY Symmetry
CHECK_DEADLOCK FALSE
