SPECIFICATION Spec
CONSTANTS
    MaxVersion = 2
    MaxGen = 4
    Retention = 2
    Incomplete = {2}
INVARIANTS CopyMatchesValidator CopyKept
PROPERTY FetchIsCurrent
