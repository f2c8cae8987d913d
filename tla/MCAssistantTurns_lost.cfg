CONSTANTS
    Messages = {"m1", "m2"}
    Workers = {"w1", "w2"}
    Api = "api"
    Backend = "json"
    NoJob = NoJob
    MaxTurns = 2
    MaxTitles = 1
    MaxKills = 1
SPECIFICATION AssistantSpec
INVARIANTS
    AnswersArePersisted
CHECK_DEADLOCK FALSE
