SPECIFICATION Spec
CONSTANTS
    Inline <- MCInline
    Lines <- MCLines
    MaxDepth = 3
    MaxItems = 5
    MaxLines = 3
INVARIANTS
    Anchored
    ReadsByRules
