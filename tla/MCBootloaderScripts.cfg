\* Files that are empty, part of a word, a page, and two pages and a half word.
CONSTANTS
  PortLists <- MCPortLists
  FileSizes = {0, 3, 8, 18}
  PageSize = 8
  Sector_Num = 2
SPECIFICATION ScriptsFairSpec
INVARIANTS
  ScriptsTypeOK
  FlashedIsFile
  StatusTrue
PROPERTIES
  ScriptEnds
\* Without a motherboard there is no daemon.
CHECK_DEADLOCK FALSE
