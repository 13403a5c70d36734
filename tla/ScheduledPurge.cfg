\* Two linked hubs; the friendly name of one may sort anywhere.
SPECIFICATION Spec
CONSTANTS
    Hubs = {1, 2}
    Names = {1, 2, 3, 4, 5}
INVARIANTS SmallestLeads
