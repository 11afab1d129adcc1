SPECIFICATION Spec
CONSTANTS
  Unused = Unused
  LateSends = 2
  SharedSends = 1
  TypedSends = 1
  PromptSends = 2
  QuietSends = 3
  Addrs = {1, 2}
  InjectSends = 4
  OwnTasks = 1
  TimelySends = 5
  Ranges = {r1, r2, r3}
  EnableUnsafeSend = TRUE
  EnableMiniProgramSend = TRUE
  ReceiverAttempts = 3
  SendFuncAttempts = 3
  Radix = 4
  VarintBytes = 5
  MaxFields = 6
  Word = 1024
  Bytes = {0, 2, 4, 5}
  MaxBytes = 7
  Texts <- WireTexts
  Stamps = {0, 3, 4, 17, 70}
  Wide = 32
  Narrow = 16
  WordSize = 2
  Words = 2
  Orig = 6
  Copy = 24
  Keys = {1, 2, 3}
  MaxSteps = 2
CHECK_DEADLOCK FALSE
INVARIANTS
  TypeOK
  FuturesAccountedFor
  RegistrationExpires
  AnswerOfOwnTask
  TextSentAtMostOnce
  OwnPayload
  VtableLive
  ReadsBack
  ErrorsAreReal
  NothingLeadsBack
  FindsExactlyMapped
PROPERTIES
  NotBusyForever
  SetupSettles
