CONSTANTS
    k1 = k1
    k2 = k2
    Calls <- MCCalls
    Outcomes <- MCOutcomes
    NonThreat <- MCNonThreat
    MaxConcurrent = 1
    CtxCancellable = TRUE
SPECIFICATION Spec
INVARIANT TypeOK
PROPERTY CallCompletes
