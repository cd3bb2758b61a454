CONSTANTS
  alice = alice
  bob = bob
  inject = inject
  a1 = a1
  b1 = b1
  b2 = b2
  i1 = i1
  None = None
  Nudge = Nudge
  NudgeNote = NudgeNote
  Inject = inject
  Chats <- MCChats
  ChannelDriven <- MCDriven
  Chat <- MCChat
  Prompts <- ThreePrompts
  Acks <- SecondOfBob
  LaneCap = 2
  AgentCap = 3
  NudgeEnabled = FALSE
  DoubleEnds = TRUE
  NamesChats = TRUE
  ReplyOvertaken = FALSE
  MaxGen = 1
  MaxCompactions = 0
  MaxAmbient = 0
  MaxCancels = 0
  Verdicts = {"turn-started"}
  MaxDeadlines = 0
  MaxDrops = 0
  MaxSwallows = 0
  NewSessions = {TRUE, FALSE}
  Patient = TRUE
  LinesOvertaken = TRUE
  MarkerLost = FALSE
  Absorbs = TRUE
  EndsEmpty = TRUE
SPECIFICATION FairSpec
INVARIANTS
  OneCountedTurn
  AnswerSafety
PROPERTIES
  EveryPromptAdmitted
CHECK_DEADLOCK FALSE
