\* A manifest item without an id.
SPECIFICATION Spec
CONSTANTS
    Books <- AnonymousBooks
    Options <- Everything
    MaxWarnings = 3
    MaxFallbackChain = 3
INVARIANTS
    NarrationDeclared
\* The parse ends.
CHECK_DEADLOCK FALSE
