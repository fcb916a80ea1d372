\* Two callers, three calls each, a cache of two of three prompts.
SPECIFICATION FairSpec
CONSTANTS
  Callers = {c1, c2}
  Nobody = Nobody
  Prompts = {p1, p2, p3}
  NoPrompt = NoPrompt
  MaxEntries = 2
  MaxCalls = 3
INVARIANTS
  TypeOK
  CacheFaithful
  GenerationsAccounted
  QuietAfterClose
  Induction
PROPERTIES
  EveryCallAnswered
CHECK_DEADLOCK FALSE
