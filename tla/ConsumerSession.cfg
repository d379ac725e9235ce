SPECIFICATION SessionSpec
CONSTANTS
  TypeIds <- MCTypeIds
  Catalog = {Marine, Zealot}
  Names = {Marine, Zealot, Unknown, NoName}
  NoName = NoName
  NullRecord = NullRecord
  Slots = 2
  MaxBindings = 3
  MemorySize = 8
  Requests <- MCRequests
  Packings <- MCPackings
  NaN = NaN
  Unset = Unset
  Untouched = Untouched
  Questions <- MCQuestions
  Battles <- MCBattles
  Combatants <- MCCombatants
  AnyType = AnyType
  Word = 16
  NotFinite = NotFinite
  Empty = Empty
  Null = Null
  Libraries <- MCLibraries
  Requirements <- MCRequirements
INVARIANTS
  SessionTypeOK
  TableIsLastBuild
  GateIsMonotone
  BatchIsAllOrNothing
  ChoiceIsBest
  ReinforcementNeverHurts
