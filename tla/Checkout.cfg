CONSTANTS
  Hook = {h1, h2}
  Run = {run1}
  LastCall = 2
  LaneOf <- MCLaneOf
  RunOf <- MCRunOf
  Briefed = {2}
  Mentions <- MCMentions
  Fits <- MCFits
  Input <- MCInput
  AtLaunch = {1}
  Unset = Unset
  ByHand = ByHand
  Truncated = Truncated
  MaxStrokes = 1
  MaxKills = 1
  Spent <- MCSpent
  run1 = run1
  laneA = laneA
  laneB = laneB
  Desk = {k1, k2}
  Stem = {s1, s2}
  None = None
  MaxFlips = 3
  Closing = s1
  Closer = {k1}
  Brief = {b1, b2}
  Torn = Torn
  NoDir = NoDir
  v1 = v1
  v2 = v2
  b1 = b1
  b2 = b2
  p1 = p1
  q1 = q1
  q2 = q2
  f1 = f1
  Drafts <- MCDrafts
  Fresh <- MCFresh
  MaxWrites = 2
  Lane = {A, B, C}
  Wave = {1, 2}
  Pointer = {d1, r1}
  Decision = {d1}
  Touches <- MCTouches
  Setups <- MCSetups
  Redrafts <- MCRedrafts
  MaxEdits = 1
  s1 = s1
  s2 = s2
  A = A
  B = B
  C = C
  d1 = d1
  r1 = r1
  Scribe = {c1, c2}
  MaxLessons = 3
  MaxActs = 3
  Empty = Empty
  Picker = {w1, w2, w3, w4}
  Repo = {repo1, repo2}
  RepoOf <- MCRepoOf
  Span = 3
  Home <- MCHome
  Nobody = Nobody
  MaxDeaths = 1
  w1 = w1
  w2 = w2
  w3 = w3
  w4 = w4
  repo1 = repo1
  repo2 = repo2
  Syncer = {y1, y2}
  Tool <- MCTool
  Asset = {agent, notes}
  Markdown = {agent}
  Link = Link
  Foreign = Foreign
  Missing = Missing
  NoFile = NoFile
  Partial = Partial
  Modes = {"link", "copy"}
  Firsts <- MCFirsts
  MaxRuns = 3
  MaxTouches = 1
  MaxStops = 1
  Billed <- MCBilled
  claude = claude
  cursor = cursor
  agent = agent
  notes = notes
SPECIFICATION CheckoutSpec
INVARIANTS CheckoutTypeOK OneEntryPerCall SpansAreKept HandWins RunsAreDisjoint PassMeansSound LessonsAreKept OneBoardPerRepo EditsAreKept RunsSettle
PROPERTY ShippedMeansFit
CHECK_DEADLOCK FALSE
