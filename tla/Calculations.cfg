SPECIFICATION Spec
CONSTANTS
 null = null
 whole = whole
 Columns <- MCColumns
 Null = null
 BlockRows = 2
 Buckets <- MCBuckets
 BucketOf <- MCBucketOf
 WholeRow = whole
 MaxDecisions = 1
 NoRow = NoRow
 MaxJoinInput = 4
 MaxJoinResult = 4
 MaxPageSize = 2
 RightColumn <- MCRight
 MaxAggregatedRows = 2
 Rows <- MCRows
 MaxCurrent = 3
 MaxCompared = 3
 MaxTotal = 4
 KeyChoices <- MCKeys
 Decisions <- MCDecisions
 Conditions <- MCConditions
 Queries <- MCQueries
 JoinQueries <- MCJoinQueries
 invalid = invalid
 eight = eight
 zero = zero
 eighty = eighty
 junk = junk
 other = other
 day = day
 zoned = zoned
 day1 = day1
 day2 = day2
 Invalid = invalid
 Convert <- MCConvert
 NumberIn <- MCNumberIn
 Replacement <- MCReplacement
 Segment <- MCSegment
 Joined <- MCJoined
 Concatenated <- MCPair
 Year <- MCYear
 Quotient <- MCQuotient
 Normal <- MCNormal
 Extract <- MCExtract
 HasOffset <- MCHasOffset
 TableNames <- MCTableNames
 TableTypes <- MCTableTypes
 TableRows <- MCTableRows
 MaxTable = 4
 RecipeChoices <- MCRecipeChoices
 PolicyChoices <- MCPolicyChoices
 spaced = spaced
 marker = marker
 yes = yes
 affirmed = affirmed
 blank = blank
 tabbed = tabbed
 empty = empty
 dotted = dotted
 half = half
 huge = huge
 code = code
 bad = bad
 unclear = unclear
 redacted = redacted
 unknown = unknown
 Audit = "_cambios"
 Trimmed <- MCTrimmed
 Normalized <- MCNormalized
 Blank <- MCBlank
 Spaces <- MCSpaces
 Markers <- MCMarkers
 Booleans <- MCBooleans
 BooleanOf <- MCBooleanOf
 Ambiguous = {unclear}
 Repaired <- MCRepaired
 LeadingZeros = {code}
 DecimalTokens = {dotted, half, huge}
 Whole <- MCWhole
 SafeLimit = 1000
 Rounded <- MCRounded
 Plausible <- MCPlausible
 Identifiers = {"m"}
 Personal = {"t"}
 NewName <- MCNewName
 Redacted = redacted
 Unknown = unknown
 DateFormats <- MCDateFormats
 SampleSize = 3
 DatePercentage = 50
 ExtraNullPercentage = 25
 TypePercentage = 60
 MinimumValues = 3
 HighNullPercentage = 60
 SoiledNames <- MCSoiledNames
 SoiledTypes <- MCSoiledTypes
 SoiledRows <- MCSoiledRows
 MaxSoiled = 4
 MaxDistinct = 2
 CleaningChoices <- MCCleaningChoices
INVARIANTS ReviewRoutesAgree ConsolidationRoutesAgree ResolutionRoutesAgree JoinRoutesAgree QueryRoutesAgree JoinQueriesAgree RecipeRoutesAgree ExceptionsLeaveNoTrace CleaningRoutesAgree
CHECK_DEADLOCK FALSE
