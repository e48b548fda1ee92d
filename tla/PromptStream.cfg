\* Two prompts of one session, with evidence up to its limit.
SPECIFICATION FairSpec
CONSTANTS
    None = None
    Sessions = {s1}
    Prompts = {1, 2}
    Callbacks = {k1}
    CountLimit = 1
    MaxEmitted = 2
    MaxWire = 1
INVARIANTS
    PromptsStayApart
    EvidenceIsItsOwn
    EvidenceIsComplete
    CallbacksStayInTheirPrompt
PROPERTIES
    ResponseAlwaysFits
    PromptsEnd
\* A torn-down client stops for good.
CHECK_DEADLOCK FALSE
