SPECIFICATION Spec
CONSTANTS
    Ends = {client, server}
    Types = {"short", "long"}
    Size <- MCSize
    Capacity = 2
    Modest = {server}
    Nothing = Nothing
    MaxMessages = 2
    MaxFaults = 0
CHECK_DEADLOCK FALSE
INVARIANTS SendErrorsAreThrown
