SPECIFICATION MCSpec
CONSTANTS
    a1 = a1
    r1 = r1
    r2 = r2
    Refreshes = {r1}
    MaxVersion = 1
    MaxFaults = 1
    MaxPromises = 5
    SchemaOf <- MCSchemaOf
    Asks = {}
    QuestionOf <- MCQuestionOf
    Smart = {}
    Texts <- MCTexts
    Empty = {"empty"}
    Wrong = {"wrong"}
    MaxRepairs = 1
    Candidates = 2
    Translated = {}
INVARIANT
    PreviousKept
CHECK_DEADLOCK FALSE
