SPECIFICATION StoreSpec
CONSTANTS
  Profile = Profile
  Ryzen = Ryzen
  Epyc = Epyc
  Records <- MCRecords
  Texts <- MCTexts
  Empty = Empty
  NotFinite = NotFinite
  Broken = Broken
  Cuts = {1, 6, 10, 11, 14, 16}
  MaxWrites = 3
INVARIANTS
  MalformedIsRejected
