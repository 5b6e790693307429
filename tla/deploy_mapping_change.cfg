SPECIFICATION Spec
CONSTANTS
    Operator = {o1}
    Draft <- EdgeDraft
    Definition <- EdgeDefinition
    o1 = o1
    o2 = o2
    Files <- EdgeFiles
    Registered <- MCRegistered
    HumanProviders <- MCHumans
    Alphabet <- MCAlphabet
    MaxVersion = 3
INVARIANTS
    UnchangedIsDeployed
