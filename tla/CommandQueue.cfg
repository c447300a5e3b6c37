SPECIFICATION FairSpec
CONSTANTS
  prepare = prepare
  shutdown = shutdown
  garbled = garbled
  idA = idA
  idB = idB
  Files = {prepare, shutdown, garbled}
  Ids = {idA, idB}
  IdOf <- MCIdOf
  NameOf <- MCNameOf
  Valid = {prepare, shutdown}
  Power = {shutdown}
  NoFile = NoFile
  MaxFaults = 1
  MaxDowns = 1
INVARIANTS
  TypeOK
  NothingIsLost
  RepeatsAreExplained
  ResultsAreEarned
PROPERTIES
  CommandsAreHandled
