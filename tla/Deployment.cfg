SPECIFICATION Spec
CONSTANTS
    None = None
    SafeChars = {"a", "b", "e", "h", "x", "t", "f", "_", "1", "2"}
    Batches <- MCBatches
    Options <- MCOptions
    Directories <- MCDirectories
    MaxBatches = 1
    LoadOptions <- MCLoadOptions
    MaxFiles = 2
    MaxNesting = 2
    MaxLoads = 1
    Alphabet <- MCAlphabet
    RegistryWriters <- MCRegistryWriters
    MaxPathLength = 8
    Echo = Echo
    Handler <- MCHandler
    StreamHandler <- MCHandler
INVARIANTS
    ReportsTrue
    NoStaleTemp
    VerifiedIsLoadable
    LoadComplete
    RegistrationsTrue
    AllowListHonoured
PROPERTIES
    ImplementsPromise
