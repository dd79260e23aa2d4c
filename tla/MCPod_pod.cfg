SPECIFICATION PodSpec
CONSTANTS
  t1 = t1
  c1 = c1
  ka = ka
  kb = kb
  None = None
  Partial = Partial
  Skills = {ka, kb}
  Catalogs <- MCCatalogs
  Selections <- MCSelections
  MaxSyncs = 4
  Turns = {t1}
  Chats = {c1}
  ChatOf <- MCChatOf
  Runtimes = {"dsh"}
  Troubles = {}
  MaxTexts = 0
  Streamed = {}
  MaxRestarts = 2
INVARIANT PodTypeOK
INVARIANT NoFalseNews
INVARIANT ServesSelection
PROPERTY OldOrNew
CHECK_DEADLOCK FALSE
