CONSTANTS
    None = None
    Garbled = Garbled
    KeysIn <- MCKeysIn
    Filters <- MCFilters
    Cases <- NecessaryCases
    Modes = {"all"}
SPECIFICATION Spec
PROPERTIES
    FingerprintNecessary
