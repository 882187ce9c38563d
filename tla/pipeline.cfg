CONSTANTS
    None = None
    Garbled = Garbled
    KeysIn <- MCKeysIn
    Filters <- MCFilters
    Cases <- PipelineCases
    Modes = {"all", "best"}
SPECIFICATION Spec
INVARIANTS
    TypeOK
    OnlyEngaged
    RowsAreRanked
    RolesAreExact
    PartiesPlayTheirParts
    AssignmentSound
    NoMissedMatch
    FrontAgrees
    FilterLosesNothing
    FailsOnlyOnUse
