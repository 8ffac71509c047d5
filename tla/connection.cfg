SPECIFICATION ConnSpec
CHECK_DEADLOCK FALSE
CONSTANTS
  Base = 10
  MaxProtocolFieldBytes = 12
  MaxProtocolArrayLen = 2
  MaxRequestFrameBytes = 300
  Requests <- MCRequests
  AnswerShapes <- MCAnswerShapes
  Decodable <- Served
  PayloadOf <- EncodeRequest
  Parse <- DecodeRequest
  Answers <- PossibleAnswers
  HeaderOf <- EncodeHeader
  BodyOf <- EncodeAnswer
  ReadAnswer <- DecodeAnswer
INVARIANTS
  ExecutesWhatWasSent
  AnswersFit
 
