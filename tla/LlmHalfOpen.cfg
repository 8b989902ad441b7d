SPECIFICATION Spec
CONSTANTS
    c1 = c1
    c2 = c2
    c3 = c3
    a1 = a1
    temperature = temperature
    reasoning = reasoning
    Chats <- MCThreeChats
    Agents <- MCNobody
    Params <- MCParams
    Configured <- MCConfigured
    Refuses <- MCRefuses
    Stubborn <- MCStubborn
    AgentAttempts = 2
    Threshold = 1
    Cooldown = 1
    MaxTime = 1
    MaxTurns = 2
    MaxSwitches = 0
INVARIANT OneProbe
CHECK_DEADLOCK FALSE
