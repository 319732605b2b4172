SPECIFICATION BiosSpec
CONSTANTS
  Programs <- MCPrograms
  Width = 2
  Height = 3
  Inks <- MCInks
  Pages = {0, 1}
  Tweaks <- MCTweaks
  Entries = {1}
  Shades = {1}
  Chars = {65, 66}
  Places = {0}
  SecondTable = 3072
  Hands <- MCHands
  Sticks <- MCSticks
  Awaited = {65, 13}
INVARIANTS
  ScreenIsKnown
  KeysAreRead
PROPERTIES
  RestIsKept
  IsATerminal
  Heard
