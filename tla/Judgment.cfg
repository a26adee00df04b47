CONSTANTS
    Lines = {"L1", "L2"}
    Foreign = "X"
    Rules <- MCRules
    Inputs <- MCInputs
    GateClaims <- MCGateClaims
    Claims <- MCClaims
SPECIFICATION Spec
INVARIANTS GuardsOnlyAbstain VerdictsAreSupported VerdictsAreFinal
CHECK_DEADLOCK FALSE
