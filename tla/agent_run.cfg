SPECIFICATION ReviewSpec
CONSTANTS
    ollama = ollama
    deepseek = deepseek
    openai = openai
    search = search
    searchAgain = searchAgain
    reviews = reviews
    shell = shell
    NoCall = NoCall
    Costs = {1}
    Providers <- AllProviders
    Preferred = deepseek
    Fallbacks <- TwoFallbacks
    Allowed <- PaidPlan
    MaxRounds = 2
    Offered <- SearchCalls
    Withheld <- ReviewCalls
    Unknown <- NoCalls
    MaxCalls = 2
    page1 = page1
    page2 = page2
    Screens <- TwoScreens
    Models <- TwoModels
    LocalModel = ollama
    DefaultModel = openai
    FallbackModel = ollama
    MaxRedeploys = 1
    MaxSaves = 2
    Environments <- TwoVariables
INVARIANTS
    ReviewTypeOK
    NoCallTwice
    CallsAnswered
    AnswersFollowTools
    PlanRespected
    ReportedUsageRecorded
    ReviewsNotLockedOut
    StartsAsConfigured
PROPERTY ReviewsEnd
