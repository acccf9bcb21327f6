CONSTANTS
  a = a b = b
  Uris <- MCUris
  Reports <- MCReports
  Rounds <- MCRounds
  Openable <- MCOpenable
  MaxNotes = 3
  MaxWatched = 1
  Broken <- MCBroken
  MaxManifest = 1
SPECIFICATION Spec
CHECK_DEADLOCK FALSE
INVARIANT VersionNamesText
INVARIANT AnalysisNeverAhead
INVARIANT NothingForgotten
INVARIANT HitsAreFresh
PROPERTY QuietEditHeals
