SPECIFICATION Spec
CONSTANTS
    Operator = {o1, o2}
    Draft <- MCDraft
    Definition <- MCDefinition
    o1 = o1
    o2 = o2
    Files <- MCFiles
    Registered <- MCRegistered
    HumanProviders <- MCHumans
    Alphabet <- MCAlphabet
    MaxVersion = 2
INVARIANTS
    TypeOK
    CompiledForRuntime
    RecordIsLive
PROPERTIES
    PublishedStays
