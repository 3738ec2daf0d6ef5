SPECIFICATION WorkSpec
CONSTANTS
  HeavyModel = "heavy"
  LightModel = "light"
  OwnModel = "own"
  Primary <- MCPrimary
  Fallbacks <- MCFallbacks
  Bedrock = {}
  Candidates <- MCCandidates
  Postings <- MCPostings
  Proposals <- MCProposals
  Profiles <- MCProfiles
  FormQuestions <- MCQuestions
  Replies <- MCReplies
  Drafts <- MCDrafts
  Names <- MCNames
  Findings <- MCFindings
  Degrees <- MCDegrees
  Now = 24
  MaxTasks = 2
  Folded <- MCFolded
  Alike <- MCAlike
  Tiny = {}
  Small = {}
  Resumes <- MCResumes
  Uploads <- MCUploads
  Extractions <- MCExtractions
  ScoredTexts <- MCScoredTexts
  JobTexts <- MCJobTexts
  Similarities = {0, 8000}
  Histories <- MCHistories
  Boards <- MCBoards
  Cards <- MCCards
  Adverts <- MCAdverts
  Repaired <- MCRepaired
  Width <- MCWidth
  Lower <- MCLower
  Capitals <- MCCapitals
  Prose = {"of", "and", "mail"}
  Numbers = {"2020"}
  Years = {"2020"}
  Institutions = {"College"}
  Contact <- MCContact
  Variations <- MCVariations
  Bounded <- MCBounded
  FuzzyPairs <- MCFuzzyPairs
  SimilarPairs <- MCSimilarPairs
  FrequencyWeight <- MCFrequencyWeight
  IndustryTerms = {"sql"}
  Industries <- MCIndustries
  SeniorityTerms <- MCSeniorityTerms
  Responsibilities = {"lead", "docker"}
  ShortText = 4
  Free = {"x@free"}
INVARIANT AnswersAreAccounted
INVARIANT CreditNeedsEvidence
INVARIANT FailsClosed
INVARIANT ExactNamesStay
INVARIANT ContentIsKept
INVARIANT ScoreFollowsEvidence
INVARIANT SearchKeepsListings
CHECK_DEADLOCK FALSE
