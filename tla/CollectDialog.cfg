SPECIFICATION FairSpec
CONSTANTS
    Request = {1, 2, 3}
    Key = {1, 2, 3}
    ClientKey = {3}
    Payload = {1, 2}
    Tab = {tab1}
    MaxForms = 2
CHECK_DEADLOCK FALSE
INVARIANTS
    AnswersAgree
    AnswersAreDurable
    OneTaskPerForm
    NeverRefused
PROPERTIES
    EveryRequestIsAnswered
    CommitsAreAcceptances
