\* One principal, both scopes, a minute and a half.
SPECIFICATION Spec
CONSTANTS
    None = None
    Names <- MCNames
    FineScopes = {}
    Minute = 7
    Limits <- MCLimits
    MaxTime = 10
INVARIANTS
    TypeOK
    WithinBudget
    RefusedOnlyWhenSpent
