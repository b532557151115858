SPECIFICATION Spec
CONSTANTS
  Accounts = {alice, bob}
  Channels = {c1, c2, c3, c4}
  MaxSize = 3
  MaxSequence = 3
SYMMETRY Symmetry
INVARIANTS TypeOK RoomBound Delivery
PROPERTIES SignalledOnce NextIsMonotonic
