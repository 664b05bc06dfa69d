SPECIFICATION FairFraming
CONSTANTS
  Types <- MCTypes
  Sizes <- MCSizes
  HeaderSize = 2
  HeadersWhole = TRUE
  MaxMessages = 3
CHECK_DEADLOCK FALSE
INVARIANT FramingTypeOK
INVARIANT ReceivedAsSent
PROPERTY FramesAreMessages
PROPERTY SentIsDelivered
