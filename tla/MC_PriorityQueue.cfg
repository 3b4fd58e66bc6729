CONSTANTS
    Item <- MCItem
    KeyOf <- MCKeyOf
    InitSize = 1
SPECIFICATION Spec
INVARIANTS
    InBounds
    RootIsLeast
PROPERTIES
    ImplementsPool
