SPECIFICATION MySQLSpec
CONSTANTS
  text = text
  good = good
  good2 = good2
  bad = bad
  stmt = stmt
  Queries = {text, good, good2, bad}
  Simple = {text}
  BadBinding = {bad}
  Statements = {stmt}
  Signature <- MCSignature
  MaxResults = 2
  U32 = 16
INVARIANTS MySQLTypeOK HeadIsAnswered CountsRunning FlushIsDue
PROPERTIES EveryQuerySettles
CHECK_DEADLOCK FALSE
