SPECIFICATION MCSpec
CONSTANTS
  None = None  Failed = Failed  Blank = Blank  Whole = Whole  Nothing = Nothing
  NoValue = NoValue
  MaxPrompt = 2
  MaxLine = 4
  PipeCap = 2
  Tool = {"read", "shell"}
  BatchCap = 2
  DefaultMax = 3
  DefaultChars = 5
  DefaultLimit = 3
  MaxLimit = 4
  Method = {"conversations.replies", "conversations.info", "conversations.history",
            "users.info", "users.profile.get", "team.info", "files.info", "chat.postMessage"}
INVARIANTS TypeOK AnswerIsLastBubble PhaseTracksWork NoRunawayAgent ThreadIsReadInOrder
           ProxyStaysInSession DocumentSurvives ReplyKeepsItsContent
PROPERTY PromptReturns
CHECK_DEADLOCK FALSE
