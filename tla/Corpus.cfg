\* Three commands and two inputs of a session, on a corpus and on an archive.
SPECIFICATION Spec
CONSTANTS
  Payloads = {"", "x", "y"}
  Empty = ""
  Nothing = Nothing
  UserNames = {"a", "A", "c:"}
  Lower <- MCLower
  Unsafe = {"c:"}
  Corpora <- MCCorpora
  MaxCommands = 3
  MaxPersisted = 2
CHECK_DEADLOCK FALSE
INVARIANTS
  CorpusIsKept
  CorpusIsCanonical
