CONSTANTS
    Protocols = {"openai", "anthropic", "gemini"}
    Answers <- MCAnswers
    MaxIndex = 1
    PromptLen = 5
    None = None
SPECIFICATION Spec
INVARIANTS
    Inv
    ExchangeIsExact
CHECK_DEADLOCK FALSE
