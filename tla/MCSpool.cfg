SPECIFICATION PartSpec
CONSTANTS
  w1 = w1
  w2 = w2
  w3 = w3
  NoOne = NoOne
  Writer <- Writers
  Name <- Names
  NameOf <- NamesOf
  RowSize = 1
  Taskee <- Taskees
  Depth = 2
  Confs <- TwoLevels
INVARIANTS
  KeptUnlessRaced
  OnceInShortRows
  MostSpecific
  OnePlace

  
  
CHECK_DEADLOCK FALSE
