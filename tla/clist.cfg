SPECIFICATION Spec
CONSTANTS
  N = 4
  List = {free, asl}
  Ordered = {asl}
  Free = free
  NULL = NULL
INVARIANT Rings
PROPERTIES LoopsEnd ImplementsQueues
