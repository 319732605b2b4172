SPECIFICATION FairSpec
CONSTANTS
  Programs <- MCPrograms
  Budgets <- MCBudgets
  FrameBound = 2
INVARIANTS
  CallsComeBack
  ArithmeticIsRight
PROPERTIES
  ImplementsZ80
  NobodyStuck
