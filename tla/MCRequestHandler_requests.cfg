SPECIFICATION FairSpec
CONSTANTS
  la = la
  lb = lb
  elsewhere = elsewhere
  NULL = NULL
  DefaultProvider = shmcb
  Locations = {la, lb}
  Requests <- MCRequests
  RequestConfigs <- MCConfigs
  JSONTexts <- Texts
  BlockSize = 2
  Nul = Nul
  FullNames = {"Billy Bunter"}
  Emails = {"billy@here"}
  DefaultClaimPrefix = "OIDC_CLAIM_"
INVARIANT TypeOK
INVARIANT ProcessedAsSent
INVARIANT SentIsProcessed
INVARIANT AnswerMatches
INVARIANT AllReleased
INVARIANT ReleasedOnce
PROPERTY RequestsFinish
