SPECIFICATION PickerSpec
CONSTANTS
  FluxListings <- MCFluxListings
  AuraListings <- MCAuraListings
  Ids <- MCIds
  FluxIds <- MCFluxIds
  DefaultVoice = "flux-haley-en"
  Languages <- MCLanguages
  Codes <- MCCodes
  English = "en"
  Base <- MCBase
  Lower <- MCLower
  Junk = Junk
  None = None
  IdRank <- MCIdRank
  CodeRank <- MCCodeRank
INVARIANTS
  OnlyEnglishGetsFlux
  AnswerSpeaksTheLanguage
  AdvertisedIsAnswered
  SilentOnlyIfNobodySpeaks
  OfferedVoiceIsHonoured
  DefaultIsOffered
  UntouchedFormKeepsTheVoice
PROPERTIES
  RestartKeepsTheVoice
  PickerIsStable
