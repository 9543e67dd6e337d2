SPECIFICATION FairSpec
CONSTANTS
  Voices = {haley, celeste}
  FluxVoices = {haley}
  Speeds = {slow}
  NoSpeed = NoSpeed
  Silent = Silent
  Endpoints = {v1, v2}
  Forms = {f1, f2}
  MaxSaves = 3
  MaxUpsets = 2
INVARIANTS
  EntityHasBothCatalogs
  ListenedSaveIsReloaded
PROPERTIES
  SaveReloadsAtMostOnce
  SavedOptionsTakeEffect
  SetupRecovers
  ContractSpec
