SPECIFICATION Spec
CONSTANTS
  ImageTypes = {png, gif}
  OtherTypes = {html, webptype}
  WEBP = webptype
  VaryValues = {enc, lang}
  MARK = mark
  NULL = null
  MaxLength <- MCMaxLength
  BodySizes <- MCBodySizes
  Chunks <- MCChunks
  HaveGif = TRUE
  MaxHeaders = 3
  MaxWrites = 3
INVARIANTS
  TypeOK
  GateTakesOnlyConvertible
  HeapBalanced
  ConvertedIsLabelled
  HeadersPreserved
  MarkedExactlyWhenNegotiable
  EncodesWholeImage
  LengthReannounced
PROPERTIES
  EncodingCloses
  ImplementsAnswer
CHECK_DEADLOCK FALSE
