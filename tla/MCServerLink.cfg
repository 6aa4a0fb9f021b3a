\* Over a relay: one pairing and up to three attempts to come back; two faults, and the first
\* connection gives its handlers one or two close events, the others one. Through the mailbox: four channels for a pairing
\* and for coming back, and one event besides: a fault, a revocation or a second pairing.
CONSTANTS
  MaxGens = 3
  MaxFaults = 2
  MaxNotices = 2
  Doubling = {0}
  MaxChannels = 4
  MaxEvents = 2
SPECIFICATION LinkSpec
INVARIANTS NoRequestSkipped OnlyProvenPeers KeepsThePairing OneWriter PairedIsKnown
PROPERTIES Reconnects ComesBack
CHECK_DEADLOCK FALSE
