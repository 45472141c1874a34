SPECIFICATION PoamSpec
CONSTANTS
    o1 = o1
    o2 = o2
    Ccis = {o1, o2}
    Keys = {1, 2}
    KeysOf <- Scopes
    EmassIds = {e1}
    NoEmassId = NoEmassId
    Picked = {5}
    Seeds = {4}
    OwnText = OwnText
    NoPoam = NoPoam
    MaxId = 3
    MaxPoamEdits = 0
CHECK_DEADLOCK FALSE
PROPERTY FindingsAreLinked
