SPECIFICATION Spec
CONSTANTS
  Voices = {haley, celeste}
  FluxVoices = {haley}
  Speeds = {slow}
  NoSpeed = NoSpeed
  Silent = Silent
  Endpoints = {v1, v2}
  Forms = {f1, f2}
  MaxSaves = 3
  MaxUpsets = 2
INVARIANT
  OptionsInForce
