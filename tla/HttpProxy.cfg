SPECIFICATION Spec
CONSTANTS
    Methods = {"GET", "PATCH", "FETCH"}
    Names = {id, page}
    TickPeriod = 2
    Timeout = 5
    MaxFactory = 1
    None = None
INVARIANTS
    CancelPrompt
    NothingSentOnceCancelled
PROPERTIES
    CancelWins
    CallEnds
