CONSTANTS
    a = a
    b = b
    c = c
    Node = {a, b}
    RoomMembers = {a, b}
    Kinds = {"hall"}
    Writers = {a, b}
    Syncers = {a, b}
    Attachments = {FALSE}
    MaxSends = 2
    MaxInflight = 2
    MaxNet = 2
    MaxFails = 1
    MaxDowns = 0
    MaxExits = 0
SPECIFICATION Spec
SYMMETRY Symmetry
INVARIANT TypeOK
 
 
PROPERTY ImplementsHistory
