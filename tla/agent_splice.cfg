SPECIFICATION FairSpec
CONSTANTS
    ollama = ollama
    deepseek = deepseek
    openai = openai
    search = search
    searchAgain = searchAgain
    reviews = reviews
    shell = shell
    NoCall = NoCall
    Costs = {1}
    Providers <- AllProviders
    Preferred = deepseek
    Fallbacks <- TwoFallbacks
    Allowed <- PaidPlan
    MaxRounds = 2
    Offered <- SearchCalls
    Withheld <- ReviewCalls
    Unknown <- ShellCalls
    MaxCalls = 1
INVARIANT OneAuthor
