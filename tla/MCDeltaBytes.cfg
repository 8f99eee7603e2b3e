SPECIFICATION Spec
CONSTANTS
    SIGN_BIT = 4
    Half = 128
    IntKind = "integer"
    Number <- MCNumber
    MaxAge = 6
    NoValue = NoValue
    Gap = Gap
PROPERTY
    ImplementsMetric
CHECK_DEADLOCK FALSE
