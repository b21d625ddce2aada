SPECIFICATION Spec
CONSTANTS
    Entries = {e1, e2}
    Slots = {s1}
    Appender = appender
    NoEntry = none
    NoIndex = noindex
    Mixed = mixed
INVARIANTS
    TypeOK
    AckedSurvives
    ListedCanBeOpened
    DeletedStaysGone
PROPERTIES
    EveryAppendTried
