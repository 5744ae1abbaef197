SPECIFICATION Spec
CONSTANTS
  Producer = {p1, p2}
  PopConsumer = {c1}
  BatchConsumer = {c2, c3}
  Capacity = 2
  BatchSize = 2
  MaxPush = 4
INVARIANTS
  NoItemForgotten
  NoSlotForgotten
  NobodyLeftAsleep
PROPERTY IsBlockingQueue
