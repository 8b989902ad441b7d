SPECIFICATION Spec
CONSTANTS
    c1 = c1
    c2 = c2
    c3 = c3
    a1 = a1
    temperature = temperature
    reasoning = reasoning
    Chats <- MCChats
    Agents <- MCAgents
    Params <- MCParams
    Configured <- MCConfigured
    Refuses <- MCRefuses
    Stubborn <- MCStubborn
    AgentAttempts = 2
    Threshold = 2
    Cooldown = 1
    MaxTime = 1
    MaxTurns = 2
    MaxSwitches = 0
PROPERTY OpenIsSkipped
CHECK_DEADLOCK FALSE
