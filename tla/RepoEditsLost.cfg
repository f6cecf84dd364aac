CONSTANTS
  Syncer = {y1, y2}
  Tool <- MCTool
  Asset = {agent, notes}
  Markdown = {agent}
  claude = claude
  cursor = cursor
  agent = agent
  notes = notes
  Link = Link
  Foreign = Foreign
  Missing = Missing
  NoFile = NoFile
  Partial = Partial
  Modes = {"copy"}
  Firsts <- MCFirsts
  MaxRuns = 2
  MaxTouches = 1
  MaxStops = 1
  Billed <- Unbilled
SPECIFICATION SyncSpec
INVARIANT RepoEditsGoOut
CHECK_DEADLOCK FALSE
