SPECIFICATION ScriptSpec
CONSTANTS
  NoFile = NoFile
  Torn = Torn
  None = None
  Absent = Absent
  Runs = {r1, r2}
  Keys = {k}
  Lines = {"a", "b", "c", "syn"}
  NoUsage = {}
  NoId = {"syn"}
  ModelOf <- MCModelOf
  Synthetic = "synthetic"
  WindowOf <- MCWindowOf
  LimitOf <- MCLimitOf
  SeenSize = 1
  MaxLines = 3
  Hooks = {h1, h2}
  Files = {"page", "app", "draft", "tokens", "fonts"}
  KindOf <- MCKindOf
  MayHold <- MCMayHold
  LiteralOf <- MCLiteralOf
  Generic = {"serif"}
  Intentional <- MCIntentional
  Mutations <- MCMutations
  Places = {"p", "q"}
  PlaceOf <- MCPlaceOf
  Occurrences <- MCOccurrences
  AllOf = {"two"}
  Guards <- MCGuards
  Noticed = {"three"}
  Projects <- MCProjects
  RoutesFile <- MCRoutesFile
  Underscore <- MCUnderscore
  ClassOf <- MCClassOf
  Params = {"7"}
  GroupDirectories <- MCGroups
  MaxGroupDepth = 1
  SmallClusterFiles = 2
  SeamsToMerge = 2
  MaxRounds = 2
  MaxAnchorFiles = 1
  MaxTerms = 2
  Changes <- MCChanges
  MaxIdLength = 3
  Names <- MCNames
  SlugOf <- MCSlugOf
  Pids = {p1, p2}
  Diagram <- MCDiagram
  Theme <- MCThemes
  BundleFiles <- MCBundleFiles
  Machines <- MCMachines
  Contents <- MCContents
  Pages = 1
  MaxKept = 3
  MaxCommands = 2
  Schemas <- MCSchemas
  Flags <- MCFlags
  Earlier <- MCEarlier
  Fittings <- MCFittings
  Sources <- MCSources
  SingularOf <- MCSingular
  ModelRank <- MCRank
  NoDoc = NoDoc
  Etalons <- MCEtalons
  NumberOf <- MCNumberOf
SYMMETRY Interchangeable
INVARIANT CountsAreOfTheirLines
INVARIANT DenominatorIsNotDisproved
INVARIANT NothingIsSwallowed
INVARIANT RepeatsOnlyAfterALapse
INVARIANT MutationsAreProvenAndGone
INVARIANT LabelsReachTheirFiles
INVARIANT MergesKeepAnchors
INVARIANT OnlyPinnedD2Runs
INVARIANT PreflightSuffices
INVARIANT OutcomeMatchesFiles
INVARIANT PrintedDiagramsFit
INVARIANT RemediesAreNew
INVARIANT HeadingsKeepTheirBlock
INVARIANT PartsCoverTheSchema
INVARIANT OutIsOnePlan
INVARIANT ReadsTheSame
INVARIANT PassedPagesRender
CHECK_DEADLOCK FALSE
