SPECIFICATION FairSpec
CONSTANTS
    order = order
    Orders <- MCOrders
    OrderOf <- MCOrderOf
    Intents = {i1}
    Attempts = {a1, a2}
    Events = {e1}
    MaxReplays = 1
    None = None
PROPERTY
    NotifiedSuccessSettles
