CONSTANTS
    a = a
    b = b
    c = c
    Node = {a, b, c}
    RoomMembers = {a, b}
    Kinds = {"direct", "room"}
    Writers = {a}
    Syncers = {a, c}
    Attachments = {FALSE, TRUE}
    MaxSends = 1
    MaxInflight = 2
    MaxNet = 2
    MaxFails = 0
    MaxDowns = 0
    MaxExits = 1
SPECIFICATION Spec
INVARIANT DirectPrivacy

