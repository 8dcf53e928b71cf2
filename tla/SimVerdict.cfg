\* A stop text, a fail text that ends with it, and two GPIO values.
SPECIFICATION Spec
CONSTANTS
  Chars = {"o", "k", "n"}
  Pins = {0, 1}
  uart_stop_text <- MCStop
  uart_fail_text <- MCFail
  gpio_expect_values <- MCExpect
  max_cycles = 5
INVARIANTS
  TypeOK
  PassMeansObserved
  FailTextNeverPasses
PROPERTY
  ObservedPasses
\* the verdict is given
CHECK_DEADLOCK FALSE
