SPECIFICATION MCSpec
CONSTANTS
    a1 = a1
    r1 = r1
    r2 = r2
    Refreshes = {r1}
    MaxVersion = 1
    MaxFaults = 2
    MaxPromises = 7
    SchemaOf <- MCSchemaOf
    Asks = {a1}
    QuestionOf <- MCQuestionOf
    Smart = {}
    Texts <- MCTexts
    Empty = {"empty"}
    Wrong = {"wrong"}
    MaxRepairs = 1
    Candidates = 2
    Translated = {a1}
INVARIANTS
    TypeOK
    ServedWhole
    KeepsServing
    RefreshShowsNew
    CachedSqlRan
    AnswersEarned
PROPERTIES
    QuestionsEnd
CHECK_DEADLOCK FALSE
