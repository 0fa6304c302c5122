SPECIFICATION TuningSpec
CONSTANTS
    Envs <- AllEnvs
    Overrides <- AllOverrides
INVARIANTS
    DefaultsWithinCaps
