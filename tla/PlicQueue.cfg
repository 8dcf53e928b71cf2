\* Two edges are to be queued.
SPECIFICATION Spec
CONSTANTS
  PLIC_IRQ_NUM = 4
  Sources = {1, 2}
  EDGE = {1}
  Priorities <- MCOnePriority
  THOLD = 0
  TNM = 2
  GAP = 2
  NESTED = {FALSE}
INVARIANT
  EdgesAreQueued
