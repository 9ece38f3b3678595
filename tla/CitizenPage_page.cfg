CONSTANTS
    Chats = {1, 2}
    Profiles <- MCProfiles
    Regions = {"mapo"}
    Questions <- MCQuestions
    Wishes <- MCWishes
    Environments <- MCEnvironments
    MAX_TOOL_ITERATIONS = 2
    LLM_MAX_ATTEMPTS = 2
    MaxRound = 2
    LocalRegions = {"mapo", "gone"}
    Errands = {{"diagnose", "staff"}, {"diagnose", "converse"}}
    MaxClicks = 2
    MaxSurprises = 1
SPECIFICATION Spec
INVARIANTS
    OneReplyPerQuestion
    SourceIsLabelled
    InternalLeavesWithTheSession
    ReportsAreTrue
    ToolsSpeakOfTheAsker
    AnswersAreAccountedFor
PROPERTY
    ComesToRest
CHECK_DEADLOCK FALSE
