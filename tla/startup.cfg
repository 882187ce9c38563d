CONSTANTS
    None = None
    Garbled = Garbled
    Empty = Empty
    NoLabel = NoLabel
    Unreadable = Unreadable
    Undecodable = Undecodable
    Configurations <- MCConfigurations
    Completions <- MCCompletions
SPECIFICATION Spec
INVARIANTS
    StartIsExact
    PartialIsWeaker
    PartiesAreAsked
    PolicyEitherWay
    ExpressionsClassified
