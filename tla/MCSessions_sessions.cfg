SPECIFICATION FairSessionsSpec
CONSTANTS
  t1 = t1
  t2 = t2
  c1 = c1
  Turns = {t1, t2}
  Chats = {c1}
  ChatOf <- MCChatOf
  Runtimes = {"opencode", "pi", "dsh"}
  Troubles = {"session_refused", "save_fails", "torn_store", "overtaken"}
  MaxTexts = 2
  Streamed = {t1}
  MaxRestarts = 2
INVARIANT SessionsTypeOK
INVARIANT OneSessionPerChat
INVARIANT OnlyLeaversStopped
PROPERTY WholeAnswer
PROPERTY EveryPromptEnds
CHECK_DEADLOCK FALSE
