SPECIFICATION BinderSpec
CONSTANT
  MaxCalls = 3
INVARIANT
  QueriedOnce
