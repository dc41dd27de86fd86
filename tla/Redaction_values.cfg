SPECIFICATION Spec
CONSTANTS
    Tokens <- MCTokens
    NoKey = NoKey
    Attributes = {"body", "path", "token"}
    SensitiveKeys = {"token"}
    Inputs <- MCInputs
    Email <- MCEmail
    Deployment <- MCDeployment
    TenantPolicies <- MCTenantPolicies
    NoPolicy = NoPolicy
    InvalidPolicy = InvalidPolicy
    MaxLength = 4
INVARIANTS
    TypeOK
    
    ReceiptExact
    Composed
CHECK_DEADLOCK FALSE
