CONSTANTS
    contact = contact
    channel = channel
    None = None
    Conversations = {contact, channel}
    Contacts = {contact}
    MaxEntries = 3
    MaxChoices = 2
    MaxChanges = 2

SPECIFICATION Spec
INVARIANTS
    TypeOK
    ScreenFollows
    SentWhereEntered
CHECK_DEADLOCK FALSE
