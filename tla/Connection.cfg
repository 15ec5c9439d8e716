CONSTANTS
  Line = {"EHLO", "MAIL", "RCPT", "DATA", "dot", "RSET", "QUIT"}
  Plugins <- MCPlugins
  Answers <- MCAnswers
  MaxInput = 2
  MaxRcpts = 1
  MaxCalls = 2
SPECIFICATION Spec
CHECK_DEADLOCK FALSE
INVARIANTS InStep RecipientsAgreed
PROPERTIES DisconnectCompletes
