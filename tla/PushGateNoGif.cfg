SPECIFICATION Spec
CONSTANTS
  ImageTypes = {png, gif}
  OtherTypes = {html, webptype}
  WEBP = webptype
  VaryValues = {enc, lang}
  MARK = mark
  NULL = null
  MaxLength <- MCMaxLength
  BodySizes <- MCBodySizes
  Chunks <- MCChunks
  HaveGif = FALSE
  MaxHeaders = 3
  MaxWrites = 3
INVARIANT HeapBalanced
CHECK_DEADLOCK FALSE
