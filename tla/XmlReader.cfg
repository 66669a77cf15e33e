CONSTANTS
  Alpha <- Letters
  Digit <- Digits
  Space <- Blanks
  Longest = 3
  Texts <- ArbitraryTexts
  Documents <- DocumentTexts
  Buffers <- BufferTexts
  Response <- TheResponse
  Log <- TheLog
  Value <- TheValue
  RawMode <- TheRawMode
  MaxPayload <- TheMaxPayload
  Ack <- TheAck
  Yes <- TheYes
  No <- TheNo
  Size <- TheSize
  BufSize = 3
SPECIFICATION ReaderSpec
INVARIANTS
  ReaderTypeOK
  DepthNeverWraps
  SpansInText
  TokensAgree
  DecisionMatches
