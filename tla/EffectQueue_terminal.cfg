SPECIFICATION ReapedQueueSpec
CONSTANTS
  e1 = e1  e2 = e2  w1 = w1  w2 = w2  r1 = r1
  Types <- MCTypes  TypeOf <- MCTypeOf  Caps <- MCCaps
  NoWorker = NoWorker  NoEffect = NoEffect
  Effects = {e1}  Workers = {w1, w2}  Reapers = {r1}  MaxAttempts = 3
  Primary <- MCPrimaryAll  Unreliable = {}
  Callers = {"a", "b"}  Operations = {"navigate", "close"}  BootCalls = 1  MaxPolls = 1  MaxId = 9
PROPERTY SucceededIsTerminal
