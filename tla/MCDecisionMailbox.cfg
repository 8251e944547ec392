CONSTANTS
  e1 = e1
  e2 = e2
  e3 = e3
  NoEvent = NoEvent
  Events = {e1, e2, e3}
SPECIFICATION MailSpec
INVARIANTS
    BuffersUnshared
    NoLostWake
PROPERTY ImplementsSlot
