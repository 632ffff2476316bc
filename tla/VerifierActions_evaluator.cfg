CONSTANTS
  Procs = {p1, p2}
  Actions = {a1}
  MaxVersion = 1
  Evaluator = TRUE
  Faults = {"crash", "sameTick"}
  Nil = Nil
SPECIFICATION FairSpec
 
PROPERTIES EventuallyTerminal
