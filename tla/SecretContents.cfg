SPECIFICATION Spec
CONSTANTS
    None = None
    KeyOrder <- MCKeyOrder
    Specs <- MCSpecs
    Providers <- MCProviders
    OthersKeys <- MCOthersKeys
    OthersValue <- MCOthersValue
    MaxInterventions = 1
INVARIANTS SettledIsWanted OverridesPrevail RotatedOut
PROPERTY OthersUndisturbed
