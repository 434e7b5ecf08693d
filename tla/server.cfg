\* Two workers of different weight, a service launched at run time.
SPECIFICATION FairSpec
CONSTANTS
    Service = {a, b}
    Boot = {a}
    Worker = {"w1", "w2"}
    External = {"timer"}
    None = None
    NoMsg = NoMsg
    Weight <- MCWeight
    DefaultQueueSize = 2
    MaxMsg = 2
INVARIANTS
    RefExact
    OnePlace
    NoneForgotten
    AssertsHold
PROPERTIES
    MailboxSpec
    EverySettled
    QuitEnds
