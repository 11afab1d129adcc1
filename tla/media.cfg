SPECIFICATION Spec
CONSTANTS
  Unused = Unused
  Readers = {r1, r2}
  N = 3
  Attempts = 2
  Gaps = TRUE
  Faults = TRUE
  HooksAttached = TRUE
  Files = {a, b}
  AskedTypes = {2}
  Chunks = 2
  Sizes = {1, 9}
  MaxChunk = 8
  MaxDownloads = 2
  Kinds = {"video", "voice"}
  Targets = {"room"}
  MaxUploads = 3
  QueueSize = 1
  Uploads = {u1, u2, u3}
  BotTasks = {t1, t2}
  UserTasks = {m1}
  Peers = {p1}
  None = Nobody
CHECK_DEADLOCK FALSE
INVARIANTS
  TypeOK
  NoHoles
  ReadersAgree
  EveryChunkOnceInOrder
  SentIsUploaded
  VideoInfoUsedOnce
  KeysUsedOnce
  DeletesOnlyTheUsers
PROPERTIES
  SavedOnce
  EveryReaderEnds
  AnnouncedIsSent
