SPECIFICATION Spec
CONSTANTS
  t1 = t1 t2 = t2 a = a b = b
  Tasks = {t1, t2}
  Anons = {a, b}
  Root = Root
  None = None
  MaxWrites = 1
  Scenarios <- Safety
SYMMETRY Symmetry
  
PROPERTIES SleepersKeep
CHECK_DEADLOCK FALSE
