SPECIFICATION Spec
CONSTANTS
    Apps = {a1, a2}
    Envs <- AllEnvs
    None = None
SYMMETRY Symmetry
INVARIANTS
    TypeOK
    OnlyKnownEarlyReads
    ServingIsReady
