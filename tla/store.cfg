SPECIFICATION Spec
CONSTANTS
  a = a
  b = b
  c = c
  none = none
  Slots <- Slots_mc
  Name <- Name_mc
  None = none
  MaxUploads <- MaxUploads_mc
SYMMETRY Symmetry_mc
INVARIANT TypeOK
INVARIANT FlashIsConsistent
INVARIANT SeqIsAge
INVARIANT OtaImageStays
