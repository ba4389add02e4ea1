\* All tables of up to five of the sixteen ids, and all keys; blocks of three messages read two
\* at a time; a buffer of seven bytes with packets of two and three; all blocks of up to seven
\* bytes.  Six shares of which two are required, so that two of them may be wrong.
\* Numbers of five bits in digits of two, as the code has 64 in digits of seven.  One key more
\* than accounts, so that an identity can be replaced by a fresh one.  Two owners stake under two
\* identities, for the same node or for one whose id is not valid; servers do not interact, one is
\* enough: it restarts at will and misses one event.
SPECIFICATION StructuresSpec
CONSTANTS
    Accounts = {u1, u2, u3}
    Names = {x, y, z}
    Keys = {k1, k2, k3, k4}
    None = None
    IdBits = 4
    MaxRoutes = 5
    BlockSize = 3
    BlockHistory = 1
    FetchLimit = 2
    MaxMessages = 7
    MaxReadings = 2
    Capacity = 7
    PacketSizes = {2, 3}
    MaxBytes = 16
    MaxForwarded = 7
    Chunk = 3
    MaxActions = 3
    MaxOthers = 1
    MaxEdits = 4
    MaxLosses = 1
    MaxLogins = 2
    Octets = {0, 1, 2}
    MaxBuffer = 7
    FieldBits = 8
    GENERATING_POLYNOMIAL = 29
    required = 2
    total = 6
    BlockLen = 2
    Originals <- TwoBlocks
    Errors = {144}
    MaxDamages = 2
    DigitBits = 2
    WordBits = 5
    MaxWire = 3
    Owners = {a, b}
    Identities = {i1, i2}
    NodeIds = {e1, bad}
    ValidIds = {e1}
    STAKE_AMOUNT = 3
    INIT_VOTE_POOL = 1
    STAKE_DURATION = 1
    BASE_SLASH = 1
    BalanceBits = 8
    MaxJoins = 3
    MaxTime = 2
    Servers = {s1}
    MaxMissed = 1
INVARIANTS NamesConsistent ClosestInOrder PagesFollow KeptExactly WriterInOrder ForwardsInOrder LoneActionTaken VaultSaved DataRestored ReadsWhatWasWritten ListMatchesStakes Solvent TablesMatchStakes
SYMMETRY Symmetry
CHECK_DEADLOCK FALSE
