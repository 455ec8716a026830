SPECIFICATION FairSpec
CONSTANTS
    gpt2 = gpt2
    llama = llama
    qwen = qwen
    named = named
    c1 = c1
    c2 = c2
    Calls <- MCCalls
    Models <- MCModels
    Pins <- MCPins
    Default = gpt2
    Fallbacks <- MCFallbacks
    None = None
INVARIANTS
    TypeOK
    NamedModelsStayPrivate
    ProbesAgree
    UnavailableIsTrue
PROPERTY EveryCallReturns
