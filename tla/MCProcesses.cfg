\* One edit between or beside launches; two tasks; two releases compared.
CONSTANTS
    Refused = Refused
    Programs <- MCPrograms
    FeaturesOf <- MCFeaturesOf
    Sources <- MCSources
    SuppliedBy <- MCSuppliedBy
    States <- MCStates
    StateOf <- MCStateOf
    Here <- MCHere
    MaxChanges = 1
    MaxTasks = 2
    MaxCompiled = 2
SPECIFICATION Spec
INVARIANTS HeldInOrder SecretsConfined RendersAlike IdentityDecides
