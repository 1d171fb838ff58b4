SPECIFICATION Spec
CONSTANTS
    ZScore <- Z
INVARIANTS
    PolicyDecides
