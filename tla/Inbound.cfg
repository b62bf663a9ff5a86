CONSTANTS
    Handlers = {h1, h2}
    Capacity = 2
    IncludeFromMe = TRUE
    MaxMessages = 3
SPECIFICATION Spec
INVARIANTS TypeOK WebhookBacked
SYMMETRY Interchangeable
