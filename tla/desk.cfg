SPECIFICATION FairSpec
CONSTANTS
    Shops <- TwoShops
    Home = 1
    Users = {"admin", "manager", "customer"}
    Workers = {1, 2}
    Team <- AdminManagerCustomer
    Customer = "customer"
    MaxAttempts = 2
    MaxQuestions = 2
    MaxVisits = 2
    MaxRetries = 1
    MaxAlerts = 1
    MaxMarks = 1
    MaxFaults = 2
    MaxUpdates = 2
    MaxWork = 3
INVARIANTS AnswersFollow OneConversation 
PROPERTIES SentAndReadStay NoticeIsSent
\* Every request may have been made.
CHECK_DEADLOCK FALSE
