\* Requests that are smaller than a unit, fit, and must be split.
SPECIFICATION Spec
CONSTANTS
    Capacity = 4
    Unit = 2
    Sizes = {1, 2, 3, 7}
    MaxRequests = 3
INVARIANTS SpaceAccounted FrontExists
PROPERTIES Delivered
CHECK_DEADLOCK FALSE
