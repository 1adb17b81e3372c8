\* The application fills in samples: nothing, everything, and each member in every way.
CONSTANTS
    Filled <- Samples
SPECIFICATION Spec
INVARIANTS
    
    Unharmed
    Understood
    SuccessWasRead
    AnswersAgree
    SilenceIsAnswered
CHECK_DEADLOCK FALSE
