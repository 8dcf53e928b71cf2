----------------------------- MODULE SimHarness -----------------------------
(***************************************************************************)
(* The acceptance loop of the reference simulation                           *)
(* (dev/reference/sim/dv/verilator/csrc/sim_main.cpp): two evaluations of    *)
(* the SoC a cycle, the GPIO pins sampled after each, the characters the SoC *)
(* sends recorded in a window, and the verdict.  The SoC may do anything.    *)
(***************************************************************************)
EXTENDS Naturals, Sequences

CONSTANTS
  Chars,            \* the characters of the UART
  Pins,             \* the values of the pins under gpio_expect_mask
  uart_stop_text, uart_fail_text, gpio_expect_values,    \* <<>> if not given
  max_cycles

ASSUME HarnessAssumption ==
  /\ uart_stop_text \in Seq(Chars) /\ uart_fail_text \in Seq(Chars)
  /\ gpio_expect_values \in Seq(Pins) /\ max_cycles \in Nat

VARIABLES
  cycle, clock,             \* the loop
  finished,                 \* gotFinish: the program has executed ebreak
  uart_seen_text,           \* the window
  uart_stop_matched, uart_fail_matched,
  gpio_expect_index,        \* values matched so far
  verdict,
  output, samples           \* history: all the characters and all the samples

vars == <<cycle, clock, finished, uart_seen_text, uart_stop_matched, uart_fail_matched,
          gpio_expect_index, verdict, output, samples>>

Init ==
  /\ cycle = 0 /\ clock = 1 /\ finished = FALSE /\ verdict = "none"
  /\ uart_seen_text = <<>> /\ uart_stop_matched = FALSE /\ uart_fail_matched = FALSE
  /\ gpio_expect_index = 0 /\ output = <<>> /\ samples = <<>>

Longer(m, n) == IF m > n THEN m ELSE n
\* the last n characters, or all of them
Last(text, n) == SubSeq(text, Longer(1, Len(text) + 1 - n), Len(text))
EndsWith(text, part) == Len(text) >= Len(part) /\ Last(text, Len(part)) = part

gpio_expect_matched == gpio_expect_index = Len(gpio_expect_values)

\* (a variant with a bug, for the mutation checks: any other value starts over)
record_gpio_at_once(value) ==
  gpio_expect_index' =
    CASE gpio_expect_matched -> gpio_expect_index
      [] ~gpio_expect_matched /\ value = gpio_expect_values[gpio_expect_index + 1]
           -> gpio_expect_index + 1
      [] OTHER -> 0

record_gpio(value) ==
  gpio_expect_index' =
    IF ~gpio_expect_matched /\ value = gpio_expect_values[gpio_expect_index + 1]
      THEN gpio_expect_index + 1 ELSE gpio_expect_index

\* (a variant with a bug, for the mutation checks: the window fits the stop text only)
record_uart_stop_window(char) ==
  /\ uart_seen_text' = Last(Append(uart_seen_text, char), Len(uart_stop_text))
  /\ uart_stop_matched' = (uart_stop_text # <<>> /\ EndsWith(uart_seen_text', uart_stop_text))
  /\ uart_fail_matched' = (uart_fail_text # <<>> /\ EndsWith(uart_seen_text', uart_fail_text))

\* the window is as long as the longer text
record_uart(char) ==
  /\ uart_seen_text' = Last(Append(uart_seen_text, char),
                            Longer(Len(uart_stop_text), Len(uart_fail_text)))
  /\ uart_stop_matched' = (uart_stop_text # <<>> /\ EndsWith(uart_seen_text', uart_stop_text))
  /\ uart_fail_matched' = (uart_fail_text # <<>> /\ EndsWith(uart_seen_text', uart_fail_text))

all_conditions_matched ==
  /\ uart_stop_text # <<>> \/ gpio_expect_values # <<>>
  /\ uart_stop_text = <<>> \/ uart_stop_matched
  /\ gpio_expect_values = <<>> \/ gpio_expect_matched

\* (a variant with a bug, for the mutation checks: the limit is passed by one cycle)
ContinuesOnceMore ==
  cycle <= max_cycles /\ ~finished /\ ~all_conditions_matched /\ ~uart_fail_matched

Continues ==
  cycle < max_cycles /\ ~finished /\ ~all_conditions_matched /\ ~uart_fail_matched

\* clock = 0, eval, sample
Low ==
  /\ verdict = "none" /\ clock = 1 /\ Continues
  /\ clock' = 0
  /\ \E value \in Pins : record_gpio(value) /\ samples' = Append(samples, value)
  /\ UNCHANGED <<cycle, finished, uart_seen_text, uart_stop_matched, uart_fail_matched,
                 verdict, output>>

\* clock = 1, eval, sample: the SoC may send a character and execute ebreak
High ==
  /\ clock = 0
  /\ clock' = 1 /\ cycle' = cycle + 1
  /\ finished' \in {finished, TRUE}
  /\ \/ \E char \in Chars : record_uart(char) /\ output' = Append(output, char)
     \/ UNCHANGED <<uart_seen_text, uart_stop_matched, uart_fail_matched, output>>
  /\ \E value \in Pins : record_gpio(value) /\ samples' = Append(samples, value)
  /\ UNCHANGED verdict

\* (a variant with a bug, for the mutation checks: either condition is enough)
EndWithEither ==
  /\ verdict = "none" /\ clock = 1 /\ ~Continues
  /\ verdict' = IF uart_fail_matched \/ ~(uart_stop_matched \/ gpio_expect_matched)
                  THEN "SIM FAIL" ELSE "SIM PASS"
  /\ UNCHANGED <<cycle, clock, finished, uart_seen_text, uart_stop_matched,
                 uart_fail_matched, gpio_expect_index, output, samples>>

End ==
  /\ verdict = "none" /\ clock = 1 /\ ~Continues
  /\ verdict' = IF \/ uart_fail_matched
                   \/ uart_stop_text # <<>> /\ ~uart_stop_matched
                   \/ gpio_expect_values # <<>> /\ ~gpio_expect_matched
                  THEN "SIM FAIL" ELSE "SIM PASS"
  /\ UNCHANGED <<cycle, clock, finished, uart_seen_text, uart_stop_matched,
                 uart_fail_matched, gpio_expect_index, output, samples>>

Next == Low \/ High \/ End

\* the harness does nothing but this loop, and an evaluation of the SoC returns
Spec == Init /\ [][Next]_vars /\ WF_vars(Next)

-----------------------------------------------------------------------------
(* Properties. *)

TypeOK ==
  /\ cycle \in 0 .. max_cycles /\ clock \in {0, 1} /\ finished \in BOOLEAN
  /\ uart_seen_text \in Seq(Chars)
  /\ uart_stop_matched \in BOOLEAN /\ uart_fail_matched \in BOOLEAN
  /\ gpio_expect_index \in 0 .. Len(gpio_expect_values)
  /\ verdict \in {"none", "SIM PASS", "SIM FAIL"}
  /\ output \in Seq(Chars) /\ samples \in Seq(Pins)

\* The values appear in the samples one after the other, with anything in between.
InOrder(values, seen) ==
  \E at \in [DOMAIN values -> DOMAIN seen] :
    /\ \A i \in DOMAIN values : seen[at[i]] = values[i]
    /\ \A i, j \in DOMAIN values : i < j => at[i] < at[j]

\* "SIM PASS: acceptance conditions observed": all that was sent ends with the stop text
\* and the pins went through the expected values, whatever the window and the counter
\* have forgotten.
PassMeansObserved ==
  verdict = "SIM PASS" =>
    EndsWith(output, uart_stop_text) /\ InOrder(gpio_expect_values, samples)

\* A program that sent the fail text, at any time, does not pass.
FailTextNeverPasses ==
  verdict = "SIM PASS" /\ uart_fail_text # <<>> =>
    \A n \in 1 .. Len(output) : ~EndsWith(SubSeq(output, 1, n), uart_fail_text)

\* A run that was asked for something, has seen all of it at the end of a cycle and was
\* not told to fail passes: no later character or sample takes it back, and no value in
\* between keeps the pins' sequence from being recognised.
ObservedPasses ==
  /\ verdict = "none" /\ clock = 1
  /\ uart_stop_text # <<>> \/ gpio_expect_values # <<>>
  /\ EndsWith(output, uart_stop_text) /\ InOrder(gpio_expect_values, samples)
  /\ uart_fail_text = <<>> \/ ~EndsWith(output, uart_fail_text)
  ~> verdict = "SIM PASS"
=============================================================================
