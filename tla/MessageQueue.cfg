\* Three threads call anything in any order.
SPECIFICATION QueueFairSpec
CONSTANTS
  Thread = {t1, t2, t3}
  Val = {v}
  MaxLen = 2
PROPERTIES StopEndsPop
