SPECIFICATION Spec
CONSTANTS
    Slots = {1, 2, 3}
    None = None
    MaxFaults = 1
    FewSlots <- TwoSlots
    ApiKeys = {1, 2}
    Agents = {1, 2}
    MaxVaults = 1
    MaxStrategies = 2
    MaxSubmits = 3
INVARIANTS
    TypeOK
    NoSecretOverwritten
    ListsAreFresh
    StepsAreBacked
PROPERTIES
    ButtonsKeepRevocation
    DuplicatesAreExplained
    ClicksComeToAnEnd
CHECK_DEADLOCK FALSE
