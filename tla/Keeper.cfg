SPECIFICATION FairSpec
CONSTANTS
    InitModes = {"new", "existing", "pitr"}
    MaxUID = 2
    MaxGen = 2
INVARIANTS LocalStateTruthful LocalStateInvariant ElectedHasData RoleApplied InitParametersApplied
PROPERTIES GivenUpKnowingly Converges
