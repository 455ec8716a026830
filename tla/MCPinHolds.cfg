SPECIFICATION Spec
CONSTANTS
    groq = groq
    gemini = gemini
    openrouter = openrouter
    Providers <- MCProviders
    Orders <- MCOrders
    Lenient <- MCLenient
    Statuses <- MCStatuses
    MaxSteps = 2
    MaxRetries = 1
    None = None
CHECK_DEADLOCK FALSE
INVARIANT PinHolds
