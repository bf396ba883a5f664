SPECIFICATION FairSpec
CONSTANTS
    Ends = {client, server}
    Types = {"short", "long"}
    Size <- MCSize
    Capacity = 2
    Modest = {server}
    Nothing = Nothing
    MaxMessages = 2
    MaxFaults = 1
CHECK_DEADLOCK FALSE
INVARIANTS TypeOK ReadsStartAtAnId
PROPERTIES QueueSpec MessagesArrive
