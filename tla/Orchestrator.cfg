\* Thirteen configurations, three trees of files, two runs of the tool, two
\* processes; the model stops after the last run.
SPECIFICATION FairSpec
CONSTANTS
  SourceTypeOf <- SourceKeys
  TargetTypeOf <- TargetKeys
  Extensions <- SourceExtensions
  TargetExtension <- TargetExtensions
  DirectoryOf <- DirectoryNames
  Directories <- PresentDirectories
  DefaultSources <- Default
  DefaultTargets <- DefaultDart
  Missing = Missing
  Malformed = Malformed
  Configs <- AllConfigs
  Trees <- AllTrees
  Files <- AllFiles
  Absent = Absent
  Original = Original
  Torn = Torn
  Wrapped = TRUE
  Pids = {1, 2}
  NoPid = NoPid
  NoProgram = NoProgram
  MaxRuns = 2
INVARIANTS TypeOK RunsAreAlike SuccessIsGenerated ExitZeroMeansAll ExitZeroMeansGenerated
PROPERTY RunEnds
CHECK_DEADLOCK FALSE
