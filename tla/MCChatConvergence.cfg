CONSTANTS
    a = a
    b = b
    c = c
    Node = {a, b}
    RoomMembers = {a, b}
    Kinds = {"hall"}
    Writers = {a}
    Syncers = {b}
    Attachments = {FALSE}
    MaxSends = 2
    MaxInflight = 1
    MaxNet = 8
    MaxFails = 2
    MaxDowns = 1
    MaxExits = 0
SPECIFICATION FairSpec
INVARIANT HallAgreement
 
