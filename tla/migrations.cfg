SPECIFICATION FairSpec
CONSTANTS
    None = None
    Openers = {p1, p2}
    Names <- TwoNames
    Creates <- TwoCreates
INVARIANTS TypeOK RecordedIffApplied OpenIsMigrated
PROPERTY EventuallyOpen
