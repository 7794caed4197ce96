SPECIFICATION AllocationSpec
CONSTANTS
    Kids = {a, b, c}
    Totals <- SomeTotals
    Racks <- SomeRacks
    Bindings <- SomeBindings
    Missing = Missing
INVARIANT GivesAllItCan
INVARIANT MaxMinFair
INVARIANT BoundIsDeliverable
PROPERTY Returns
