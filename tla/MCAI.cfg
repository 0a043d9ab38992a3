SPECIFICATION MCSpec
CONSTANTS
    Topic = {"overview", "chat", "settings"}
    Code = {1}
    Request = {"r1"}
    Budget = 1
    MaxOverviewJobs = 2
    MaxRuns = 2
    MaxDataVersion = 1
    MaxSpent = 2
    Owner = {"o"}
    Firm = {"k"}
    Sender = {"s", "t"}
    HISTORY_TURN_LIMIT = 2
    tool_call_cap = 2
    daily_budget_usd = 1
    MaxConversation = 1
    MaxMessages = 4
    MaxTools = 1
    Section = {"connection", "risk_tier_uppers", "units"}
    Asked = {"base_url", "risk_tier_uppers"}
    FromEnv = {"api_key"}
    Reader = {"r1", "r2"}
    Saver = {"admin"}
    TTL = 1
    MODELS_TTL = 1
    MaxSave = 1
INVARIANTS
    AITypeOK
    
    
    HistoryWhole
    
CHECK_DEADLOCK FALSE
