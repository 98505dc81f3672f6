CONSTANTS
  Patterns <- MCPatterns
  LuaSize = 4
  Letters <- MCLetters
  NUL = NUL
  a = a
  Descrs <- MCDescrs
  Numbers <- MCNumbers
  Doubles <- MCDoubles
  Texts <- MCTexts
SPECIFICATION Spec
INVARIANT TypeOK
PROPERTIES
  WhatFitsComesBack
  WhatWasReadSurvives
  LongTextsAreCut
