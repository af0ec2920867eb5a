SPECIFICATION Spec
CONSTANTS
  Block = {x, y}
  Units = 2
  Zone = {z1, z2}
  NoZone = NoZone
  Rec = {r1, r2}
  SeqSpan = 8
INVARIANTS LayersExact ReservationHolds DelayNeverMissed DeletesFreeOnly
PROPERTIES NoEarlyReuse
VIEW RelView
SYMMETRY Symmetry
