SPECIFICATION LiveSpec
CONSTANTS
  Event = {e1, e2}
  NoEvent = NoEvent
  Isr = {isr1}
  Thread = Thread
  Capacity = 2
  Wraps = 2
INVARIANTS
  TypeOK
  NeverOverfull
  NoTornRead
  SingleProducer
PROPERTIES
  ImplementsFifo
  AcceptedIsHandled
