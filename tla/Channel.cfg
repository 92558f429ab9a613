SPECIFICATION ChannelSpec
CONSTANTS
  Senders = {s1, s2}
  Receivers = {a, b}
  MaxSends = 2
INVARIANTS
  WakeupsSuffice
PROPERTIES
  ImplementsQueue
  RecvReturns
