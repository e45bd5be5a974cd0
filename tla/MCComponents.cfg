SPECIFICATION MCSpec
CONSTANTS
  Slots = {s1}
  LaunchLimit = 2
  ArtifactLimit = 2
  MaxRestarts = 2
  Callers = {c1, c2}
  SearchKeys = {k1}
  Traces = {x1, x2}
  FeedbackKeys = {f1, f2, f3}
  Kinds = {used, wrong}
  SlotLimit = 2
  RunTasks = {t1, t2}
  Proofs = {p1}
  EpisodeLimit = 2
  RefillLimit = 1
  TaskCount = 3
  Deciders = {w1, w2}
  DecisionLimit = 2
  CpsActors = {"a1", "a2", "a3"}
  HomeTask <- MCHome
  RowLimit = 1
  Everyone = "everyone"
  RowIds = {1, 2, 3, 4}
  RecordLimit = 3
  PageSize = 1
  SnapshotRows <- MCRows
  ArrivalLimit = 3
  FormalCallers = {a1, a2}
  Sources = {b1, b2}
  CallLimit = 2
  UnitLimit = 1
  PortfolioLimit = 2
  Texts = {"y1", "y2"}
  AnswerLimit = 2
  LeanTexts = {"y1", "y2"}
  JobLimit = 2
  CallBound = 2
  Resubmits = 1
  Checks = {1, 2, 3}
  Notes = {}
  MaxCalls = 1
  NoOne = NoOne
INVARIANTS
  OneArm SparesAdmitted
  SameAnswer ExportPasses
  ProofsKept
  DecisionUsable
  LedgersAgree
  LogReplaysStore AckedByReader
  ViewIsOneCut
  
  BudgetCoversJobs VerdictOfTheText
  BestIsJudged ScoreRestsOnReceipts
  VerdictIsTheJobs
  BudgetExact ProofIsDurable AnswersAudited
PROPERTIES
  EveryoneGetsATurn
CHECK_DEADLOCK FALSE
