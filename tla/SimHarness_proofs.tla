-------------------------- MODULE SimHarness_proofs -------------------------
(* Proofs about SimHarness, for any texts, any sequence of pin values and any   *)
(* number of cycles: the window and the counter, which forget, decide what all  *)
(* that was sent and sampled would decide.                                      *)
EXTENDS SimHarness, SequenceTheorems, TLAPS

-----------------------------------------------------------------------------
(* The end of a text. *)

Fewer(m, n) == IF m < n THEN m ELSE n

\* Last keeps the end, and all of a text that is short.
LEMMA LastProperties ==
  ASSUME NEW text \in Seq(Chars), NEW n \in Nat
  PROVE  /\ Last(text, n) \in Seq(Chars)
         /\ Len(Last(text, n)) = Fewer(n, Len(text))
         /\ \A i \in 1 .. Fewer(n, Len(text)) :
              Last(text, n)[i] = text[Len(text) - Fewer(n, Len(text)) + i]
<1> DEFINE first == Longer(1, Len(text) + 1 - n)
           kept == Fewer(n, Len(text))
<1>1. /\ Len(text) \in Nat /\ first \in Int /\ first >= 1 /\ kept \in Nat
      /\ kept = Len(text) - first + 1
  <2>1. Len(text) \in Nat
    BY LenProperties
  <2>2. CASE n < Len(text)
    <3>1. first = Len(text) + 1 - n /\ kept = n
      BY <2>1, <2>2 DEF Longer, Fewer
    <3> QED BY <2>1, <2>2, <3>1
  <2>3. CASE ~(n < Len(text))
    <3>1. first = 1 /\ kept = Len(text)
      BY <2>1, <2>3 DEF Longer, Fewer
    <3> QED BY <2>1, <2>3, <3>1
  <2> QED BY <2>2, <2>3
<1>2. \A i \in first .. Len(text) : text[i] \in Chars
  BY <1>1, ElementOfSeq
<1> HIDE DEF first, kept
<1>3. /\ SubSeq(text, first, Len(text)) \in Seq(Chars)
      /\ Len(SubSeq(text, first, Len(text))) =
           IF first <= Len(text) THEN Len(text) - first + 1 ELSE 0
      /\ \A i \in 1 .. Len(text) - first + 1 :
           SubSeq(text, first, Len(text))[i] = text[first + i - 1]
  BY <1>1, <1>2, SubSeqProperties
<1>4. Len(SubSeq(text, first, Len(text))) = kept
  BY <1>1, <1>3
<1>5. \A i \in 1 .. kept : SubSeq(text, first, Len(text))[i] = text[Len(text) - kept + i]
  <2> TAKE i \in 1 .. kept
  <2>1. first + i - 1 = Len(text) - kept + i /\ i \in 1 .. Len(text) - first + 1
    BY <1>1
  <2> QED BY <1>3, <2>1
<1> QED BY <1>3, <1>4, <1>5 DEF Last, first, kept

\* The end of the window is the end of the text.
LEMMA LastOfLast ==
  ASSUME NEW text \in Seq(Chars), NEW n \in Nat, NEW m \in Nat, m <= n
  PROVE  Last(Last(text, n), m) = Last(text, m)
<1> DEFINE s == Last(text, n)
           k == Fewer(n, Len(text))
           j == Fewer(m, Len(text))
<1>1. /\ Len(text) \in Nat /\ k \in Nat /\ j \in Nat /\ k <= Len(text) /\ j <= k
      /\ Fewer(m, k) = j
  BY LenProperties DEF Fewer
<1> HIDE DEF k, j
<1>2. s \in Seq(Chars) /\ Len(s) = k /\ \A i \in 1 .. k : s[i] = text[Len(text) - k + i]
  BY LastProperties DEF k
<1> HIDE DEF s
<1>3. Last(s, m) \in Seq(Chars) /\ Len(Last(s, m)) = j /\ \A i \in 1 .. j : Last(s, m)[i] = s[k - j + i]
  <2>1. /\ Last(s, m) \in Seq(Chars) /\ Len(Last(s, m)) = Fewer(m, Len(s))
        /\ \A i \in 1 .. Fewer(m, Len(s)) : Last(s, m)[i] = s[Len(s) - Fewer(m, Len(s)) + i]
    BY <1>2, LastProperties
  <2> QED BY <1>1, <1>2, <2>1
<1>4. /\ Last(text, m) \in Seq(Chars) /\ Len(Last(text, m)) = j
      /\ \A i \in 1 .. j : Last(text, m)[i] = text[Len(text) - j + i]
  BY LastProperties DEF j
<1>5. \A i \in 1 .. j : Last(s, m)[i] = Last(text, m)[i]
  <2> TAKE i \in 1 .. j
  <2>1. k - j + i \in 1 .. k /\ Len(text) - k + (k - j + i) = Len(text) - j + i
    BY <1>1
  <2> QED BY <1>2, <1>3, <1>4, <2>1
<1>6. Last(s, m) = Last(text, m)
  BY <1>3, <1>4, <1>5, SeqEqual
<1> QED BY <1>6 DEF s

\* The window after a character is the end of all the characters.
LEMMA LastOfAppend ==
  ASSUME NEW text \in Seq(Chars), NEW n \in Nat, NEW char \in Chars
  PROVE  Last(Append(Last(text, n), char), n) = Last(Append(text, char), n)
<1> DEFINE s == Last(text, n)
           k == Fewer(n, Len(text))
           j == Fewer(n, Len(text) + 1)
<1>1. /\ Len(text) \in Nat /\ k \in Nat /\ j \in Nat /\ k <= Len(text) /\ j <= k + 1
      /\ Fewer(n, k + 1) = j
  BY LenProperties DEF Fewer
<1> HIDE DEF k, j
<1>2. s \in Seq(Chars) /\ Len(s) = k /\ \A i \in 1 .. k : s[i] = text[Len(text) - k + i]
  BY LastProperties DEF k
<1> HIDE DEF s
<1>3. /\ Append(s, char) \in Seq(Chars) /\ Len(Append(s, char)) = k + 1
      /\ \A i \in 1 .. k : Append(s, char)[i] = s[i]
      /\ Append(s, char)[k + 1] = char
  BY <1>2, AppendProperties
<1>4. /\ Append(text, char) \in Seq(Chars) /\ Len(Append(text, char)) = Len(text) + 1
      /\ \A i \in 1 .. Len(text) : Append(text, char)[i] = text[i]
      /\ Append(text, char)[Len(text) + 1] = char
  BY AppendProperties
<1>5. /\ Last(Append(s, char), n) \in Seq(Chars) /\ Len(Last(Append(s, char), n)) = j
      /\ \A i \in 1 .. j : Last(Append(s, char), n)[i] = Append(s, char)[k + 1 - j + i]
  <2> DEFINE t == Append(s, char)
  <2>1. t \in Seq(Chars) /\ Len(t) = k + 1
    BY <1>3
  <2> HIDE DEF t
  <2>2. /\ Last(t, n) \in Seq(Chars) /\ Len(Last(t, n)) = Fewer(n, Len(t))
        /\ \A i \in 1 .. Fewer(n, Len(t)) : Last(t, n)[i] = t[Len(t) - Fewer(n, Len(t)) + i]
    BY <2>1, LastProperties
  <2>3. /\ Last(t, n) \in Seq(Chars) /\ Len(Last(t, n)) = j
        /\ \A i \in 1 .. j : Last(t, n)[i] = t[k + 1 - j + i]
    BY <1>1, <2>1, <2>2
  <2> QED BY <2>3 DEF t
<1>6. /\ Last(Append(text, char), n) \in Seq(Chars) /\ Len(Last(Append(text, char), n)) = j
      /\ \A i \in 1 .. j :
           Last(Append(text, char), n)[i] = Append(text, char)[Len(text) + 1 - j + i]
  <2> DEFINE t == Append(text, char)
  <2>1. t \in Seq(Chars) /\ Len(t) = Len(text) + 1
    BY <1>4
  <2> HIDE DEF t
  <2>2. /\ Last(t, n) \in Seq(Chars) /\ Len(Last(t, n)) = Fewer(n, Len(t))
        /\ \A i \in 1 .. Fewer(n, Len(t)) : Last(t, n)[i] = t[Len(t) - Fewer(n, Len(t)) + i]
    BY <2>1, LastProperties
  <2>3. Fewer(n, Len(t)) = j
    BY <2>1 DEF j
  <2>4. /\ Last(t, n) \in Seq(Chars) /\ Len(Last(t, n)) = j
        /\ \A i \in 1 .. j : Last(t, n)[i] = t[Len(text) + 1 - j + i]
    BY <2>1, <2>2, <2>3
  <2> QED BY <2>4 DEF t
<1>7. \A i \in 1 .. j : Append(s, char)[k + 1 - j + i] = Append(text, char)[Len(text) + 1 - j + i]
  <2> TAKE i \in 1 .. j
  <2> DEFINE p == k + 1 - j + i
  <2>1. p \in Int /\ 1 <= p /\ p <= k + 1 /\ Len(text) + 1 - j + i = Len(text) - k + p
    BY <1>1
  <2> HIDE DEF p
  <2>2. CASE p = k + 1
    <3>1. Len(text) - k + p = Len(text) + 1
      BY <1>1, <2>2
    <3> QED BY <1>3, <1>4, <2>1, <2>2, <3>1 DEF p
  <2>3. CASE p # k + 1
    <3>1. p \in 1 .. k /\ Len(text) - k + p \in 1 .. Len(text)
      BY <1>1, <2>1, <2>3
    <3>2. Append(s, char)[p] = Append(text, char)[Len(text) - k + p]
      BY <1>2, <1>3, <1>4, <3>1
    <3> QED BY <2>1, <3>2 DEF p
  <2> QED BY <2>2, <2>3
<1>8. Last(Append(s, char), n) = Last(Append(text, char), n)
  BY <1>5, <1>6, <1>7, SeqEqual
<1> QED BY <1>8 DEF s

\* The texts end with part if their ends of at least its length do.
LEMMA WindowEnds ==
  ASSUME NEW text \in Seq(Chars), NEW part \in Seq(Chars), NEW n \in Nat, Len(part) <= n
  PROVE  EndsWith(Last(text, n), part) <=> EndsWith(text, part)
<1>1. Len(part) \in Nat /\ Len(text) \in Nat
  BY LenProperties
<1>2. Last(Last(text, n), Len(part)) = Last(text, Len(part))
  BY <1>1, LastOfLast
<1>3. Len(Last(text, n)) = IF n < Len(text) THEN n ELSE Len(text)
  BY LastProperties DEF Fewer
<1>4. Len(Last(text, n)) >= Len(part) <=> Len(text) >= Len(part)
  BY <1>1, <1>3
<1> QED BY <1>2, <1>4 DEF EndsWith

\* Every text ends with the text that is not given.
LEMMA EndsWithNothing ==
  ASSUME NEW text \in Seq(Chars)
  PROVE  EndsWith(text, <<>>)
<1>1. Len(text) \in Nat /\ Len(<<>>) = 0
  BY LenProperties
<1>2. Longer(1, Len(text) + 1 - 0) = Len(text) + 1 - 0
  BY <1>1 DEF Longer
<1>3. SubSeq(text, Len(text) + 1 - 0, Len(text)) = <<>>
  BY <1>1, SubSeqEmpty
<1> QED BY <1>1, <1>2, <1>3 DEF EndsWith, Last

\* What was sent before a character is what was sent up to its place.
LEMMA PrefixOfAppend ==
  ASSUME NEW text \in Seq(Chars), NEW char \in Chars, NEW n \in 1 .. Len(text)
  PROVE  SubSeq(Append(text, char), 1, n) = SubSeq(text, 1, n)
<1> DEFINE t == Append(text, char)
<1>1. Len(text) \in Nat
  BY LenProperties
<1>2. \A i \in 1 .. n : t[i] = text[i] /\ text[i] \in Chars
  <2> TAKE i \in 1 .. n
  <2>1. i \in 1 .. Len(text)
    BY <1>1
  <2> QED BY <2>1, AppendProperties, ElementOfSeq
<1> HIDE DEF t
<1>3. /\ SubSeq(t, 1, n) \in Seq(Chars)
      /\ Len(SubSeq(t, 1, n)) = IF 1 <= n THEN n - 1 + 1 ELSE 0
      /\ \A i \in 1 .. n - 1 + 1 : SubSeq(t, 1, n)[i] = t[1 + i - 1]
  BY <1>1, <1>2, SubSeqProperties
<1>4. /\ SubSeq(text, 1, n) \in Seq(Chars)
      /\ Len(SubSeq(text, 1, n)) = IF 1 <= n THEN n - 1 + 1 ELSE 0
      /\ \A i \in 1 .. n - 1 + 1 : SubSeq(text, 1, n)[i] = text[1 + i - 1]
  BY <1>1, <1>2, SubSeqProperties
<1>5. /\ Len(SubSeq(t, 1, n)) = n /\ Len(SubSeq(text, 1, n)) = n
      /\ \A i \in 1 .. n : SubSeq(t, 1, n)[i] = SubSeq(text, 1, n)[i]
  <2>1. \A i \in 1 .. n : i \in 1 .. n - 1 + 1 /\ 1 + i - 1 = i
    BY <1>1
  <2> QED BY <1>1, <1>2, <1>3, <1>4, <2>1
<1>6. SubSeq(t, 1, n) = SubSeq(text, 1, n)
  BY <1>3, <1>4, <1>5, SeqEqual
<1> QED BY <1>6 DEF t

-----------------------------------------------------------------------------
(* The types; the limit is passed by no cycle, because a cycle begins below it. *)

TypeInv ==
  /\ TypeOK
  /\ clock = 0 => cycle < max_cycles /\ verdict = "none" /\ ~uart_fail_matched

Window == Longer(Len(uart_stop_text), Len(uart_fail_text))

LEMMA WindowLength ==
  /\ Window \in Nat /\ Len(uart_stop_text) <= Window /\ Len(uart_fail_text) <= Window
<1>1. Len(uart_stop_text) \in Nat /\ Len(uart_fail_text) \in Nat
  BY HarnessAssumption, LenProperties
<1> QED BY <1>1 DEF Window, Longer

LEMMA TypeStep ==
  ASSUME TypeInv, [Next]_vars
  PROVE  TypeInv'
<1>1. Len(gpio_expect_values) \in Nat
  BY HarnessAssumption, LenProperties
<1>2. ASSUME NEW value \in Pins, record_gpio(value)
      PROVE  gpio_expect_index' \in 0 .. Len(gpio_expect_values)
  <2>1. gpio_expect_index \in 0 .. Len(gpio_expect_values)
    BY DEF TypeInv, TypeOK
  <2>2. \/ gpio_expect_index # Len(gpio_expect_values) /\ gpio_expect_index' = gpio_expect_index + 1
        \/ gpio_expect_index' = gpio_expect_index
    BY <1>2 DEF record_gpio, gpio_expect_matched
  <2> QED BY <1>1, <2>1, <2>2
<1>3. ASSUME NEW value \in Pins, samples' = Append(samples, value)
      PROVE  samples' \in Seq(Pins)
  BY <1>3, AppendProperties DEF TypeInv, TypeOK
<1>4. ASSUME NEW char \in Chars, record_uart(char), output' = Append(output, char)
      PROVE  /\ uart_seen_text' \in Seq(Chars) /\ output' \in Seq(Chars)
             /\ uart_stop_matched' \in BOOLEAN /\ uart_fail_matched' \in BOOLEAN
  <2>1. Append(uart_seen_text, char) \in Seq(Chars) /\ output' \in Seq(Chars)
    BY <1>4, AppendProperties DEF TypeInv, TypeOK
  <2>2. uart_seen_text' = Last(Append(uart_seen_text, char), Window)
    BY <1>4 DEF record_uart, Window
  <2>3. uart_seen_text' \in Seq(Chars)
    BY <2>1, <2>2, WindowLength, LastProperties
  <2>4. uart_stop_matched' \in BOOLEAN /\ uart_fail_matched' \in BOOLEAN
    BY <1>4 DEF record_uart
  <2> QED BY <2>1, <2>3, <2>4
<1>5. CASE Low
  <2>1. /\ verdict = "none" /\ cycle < max_cycles /\ ~uart_fail_matched /\ clock' = 0
        /\ UNCHANGED <<cycle, finished, uart_seen_text, uart_stop_matched, uart_fail_matched,
                       verdict, output>>
    BY <1>5 DEF Low, Continues
  <2>2. gpio_expect_index' \in 0 .. Len(gpio_expect_values) /\ samples' \in Seq(Pins)
    BY <1>2, <1>3, <1>5 DEF Low
  <2> QED BY <2>1, <2>2 DEF TypeInv, TypeOK
<1>6. CASE High
  <2>1. /\ clock = 0 /\ clock' = 1 /\ cycle' = cycle + 1 /\ finished' \in {finished, TRUE}
        /\ verdict' = verdict
    BY <1>6 DEF High
  <2>2. gpio_expect_index' \in 0 .. Len(gpio_expect_values) /\ samples' \in Seq(Pins)
    BY <1>2, <1>3, <1>6 DEF High
  <2>3. /\ uart_seen_text' \in Seq(Chars) /\ output' \in Seq(Chars)
        /\ uart_stop_matched' \in BOOLEAN /\ uart_fail_matched' \in BOOLEAN
    <3>1. CASE \E char \in Chars : record_uart(char) /\ output' = Append(output, char)
      BY <1>4, <3>1
    <3>2. CASE UNCHANGED <<uart_seen_text, uart_stop_matched, uart_fail_matched, output>>
      BY <3>2 DEF TypeInv, TypeOK
    <3> QED BY <1>6, <3>1, <3>2 DEF High
  <2>4. cycle' \in 0 .. max_cycles
    BY <2>1, HarnessAssumption DEF TypeInv, TypeOK
  <2>5. finished' \in BOOLEAN
    BY <2>1 DEF TypeInv, TypeOK
  <2> QED BY <2>1, <2>2, <2>3, <2>4, <2>5 DEF TypeInv, TypeOK
<1>7. CASE End
  <2>1. /\ clock = 1 /\ verdict' \in {"SIM PASS", "SIM FAIL"}
        /\ UNCHANGED <<cycle, clock, finished, uart_seen_text, uart_stop_matched,
                       uart_fail_matched, gpio_expect_index, output, samples>>
    BY <1>7, Zenon DEF End
  <2>2. TypeOK'
    BY <2>1 DEF TypeInv, TypeOK
  <2>3. clock' = 1
    BY <1>7 DEF End
  <2> QED BY <2>2, <2>3 DEF TypeInv
<1>8. CASE UNCHANGED vars
  BY <1>8 DEF vars, TypeInv, TypeOK
<1> QED BY <1>5, <1>6, <1>7, <1>8 DEF Next

LEMMA TypeInit == Init => TypeInv
<1>1. Len(gpio_expect_values) \in Nat /\ max_cycles \in Nat
  BY HarnessAssumption, LenProperties
<1>2. <<>> \in Seq(Chars) /\ <<>> \in Seq(Pins)
  OBVIOUS
<1>3. Init => TypeOK
  <2> SUFFICES ASSUME Init PROVE TypeOK
    OBVIOUS
  <2>1. /\ cycle \in 0 .. max_cycles /\ clock \in {0, 1}
        /\ gpio_expect_index \in 0 .. Len(gpio_expect_values)
    BY <1>1 DEF Init
  <2>2. /\ finished \in BOOLEAN /\ uart_stop_matched \in BOOLEAN /\ uart_fail_matched \in BOOLEAN
        /\ verdict \in {"none", "SIM PASS", "SIM FAIL"}
    BY DEF Init
  <2>3. uart_seen_text \in Seq(Chars) /\ output \in Seq(Chars) /\ samples \in Seq(Pins)
    BY <1>2 DEF Init
  <2> QED BY <2>1, <2>2, <2>3 DEF TypeOK
<1>4. Init => clock = 1
  BY DEF Init
<1> QED BY <1>3, <1>4 DEF TypeInv

\* The harness simulates no cycle past --max-cycles and matches no value past the last.
THEOREM TypeCorrect == Spec => []TypeOK
<1>1. TypeInv => TypeOK
  BY DEF TypeInv
<1> QED BY <1>1, TypeInit, TypeStep, PTL DEF Spec

-----------------------------------------------------------------------------
(* The window decides what all the characters would decide.                    *)

WindowInv ==
  /\ uart_seen_text = Last(output, Window)
  /\ uart_stop_matched <=> (uart_stop_text # <<>> /\ EndsWith(output, uart_stop_text))
  /\ uart_fail_matched <=> (uart_fail_text # <<>> /\ EndsWith(output, uart_fail_text))

LEMMA WindowInit == Init => WindowInv
<1> SUFFICES ASSUME Init PROVE WindowInv
  OBVIOUS
<1>1. /\ output = <<>> /\ uart_seen_text = <<>>
      /\ ~uart_stop_matched /\ ~uart_fail_matched
  BY DEF Init
<1>2. <<>> \in Seq(Chars) /\ Len(<<>>) = 0
  BY LenProperties
<1>3. Last(<<>>, Window) = <<>>
  <2>1. Last(<<>>, Window) \in Seq(Chars) /\ Len(Last(<<>>, Window)) = Fewer(Window, 0)
    BY <1>2, WindowLength, LastProperties
  <2>2. Fewer(Window, 0) = 0
    BY WindowLength DEF Fewer
  <2> QED BY <2>1, <2>2, EmptySeq
<1>4. ASSUME NEW part \in Seq(Chars), part # <<>>
      PROVE  ~EndsWith(<<>>, part)
  <2>1. Len(part) # 0 /\ Len(part) \in Nat
    BY <1>4, LenProperties, EmptySeq
  <2> QED BY <1>2, <2>1 DEF EndsWith
<1> QED BY <1>1, <1>3, <1>4, HarnessAssumption DEF WindowInv

LEMMA WindowStep ==
  ASSUME TypeInv, WindowInv, [Next]_vars
  PROVE  WindowInv'
<1>1. CASE UNCHANGED <<uart_seen_text, uart_stop_matched, uart_fail_matched, output>>
  BY <1>1 DEF WindowInv
<1>2. ASSUME NEW char \in Chars, record_uart(char), output' = Append(output, char)
      PROVE  WindowInv'
  <2>1. output \in Seq(Chars) /\ output' \in Seq(Chars)
    BY <1>2, AppendProperties DEF TypeInv, TypeOK
  <2>2. uart_seen_text' = Last(output', Window)
    <3>1. uart_seen_text' = Last(Append(Last(output, Window), char), Window)
      BY <1>2 DEF record_uart, WindowInv, Window
    <3> QED BY <1>2, <2>1, <3>1, WindowLength, LastOfAppend
  <2>3. /\ EndsWith(uart_seen_text', uart_stop_text) <=> EndsWith(output', uart_stop_text)
        /\ EndsWith(uart_seen_text', uart_fail_text) <=> EndsWith(output', uart_fail_text)
    BY <2>1, <2>2, HarnessAssumption, WindowLength, WindowEnds
  <2>4. /\ uart_stop_matched' <=> (uart_stop_text # <<>> /\ EndsWith(uart_seen_text', uart_stop_text))
        /\ uart_fail_matched' <=> (uart_fail_text # <<>> /\ EndsWith(uart_seen_text', uart_fail_text))
    BY <1>2 DEF record_uart
  <2> QED BY <2>2, <2>3, <2>4 DEF WindowInv
<1> QED BY <1>1, <1>2 DEF Next, Low, High, End, vars

-----------------------------------------------------------------------------
(* No cycle begins with the fail text at the end of what was sent, so it was not *)
(* there before the last character.                                              *)

FailInv ==
  uart_fail_text # <<>> =>
    \A n \in 1 .. Len(output) :
      EndsWith(SubSeq(output, 1, n), uart_fail_text) => n = Len(output)

LEMMA FailStep ==
  ASSUME TypeInv, WindowInv, FailInv, [Next]_vars
  PROVE  FailInv'
<1>1. CASE UNCHANGED output
  BY <1>1 DEF FailInv
<1>2. ASSUME NEW char \in Chars, clock = 0, output' = Append(output, char)
      PROVE  FailInv'
  <2> SUFFICES ASSUME uart_fail_text # <<>>, NEW n \in 1 .. Len(output'),
                      EndsWith(SubSeq(output', 1, n), uart_fail_text), n # Len(output')
               PROVE  FALSE
    BY DEF FailInv
  <2>1. output \in Seq(Chars) /\ Len(output) \in Nat /\ Len(output') = Len(output) + 1
    BY <1>2, AppendProperties, LenProperties DEF TypeInv, TypeOK
  <2>2. n \in 1 .. Len(output)
    BY <2>1
  <2>3. EndsWith(SubSeq(output, 1, n), uart_fail_text)
    BY <1>2, <2>1, <2>2, PrefixOfAppend
  <2>4. n = Len(output)
    BY <2>2, <2>3 DEF FailInv
  <2>5. EndsWith(output, uart_fail_text)
    BY <2>1, <2>3, <2>4, SubSeqFull
  <2>6. uart_fail_matched
    BY <2>5 DEF WindowInv
  <2> QED BY <1>2, <2>6 DEF TypeInv
<1> QED BY <1>1, <1>2 DEF Next, Low, High, End, vars

-----------------------------------------------------------------------------
(* The counter decides what all the samples would decide: each value it has     *)
(* counted has a sample of its own, later than the one before.                  *)

Places(at, n) ==
  /\ at \in [1 .. n -> 1 .. Len(samples)]
  /\ \A i \in 1 .. n : samples[at[i]] = gpio_expect_values[i]
  /\ \A i, j \in 1 .. n : i < j => at[i] < at[j]

PinsInv == \E at : Places(at, gpio_expect_index)

\* A sample has a place later than those of the values before it.
LEMMA PinsStep ==
  ASSUME TypeInv, PinsInv, [Next]_vars
  PROVE  PinsInv'
<1>1. CASE UNCHANGED <<gpio_expect_index, samples>>
  BY <1>1 DEF PinsInv, Places
<1>2. ASSUME NEW value \in Pins, record_gpio(value), samples' = Append(samples, value)
      PROVE  PinsInv'
  <2>1. /\ samples \in Seq(Pins) /\ Len(samples) \in Nat /\ Len(samples') = Len(samples) + 1
        /\ samples'[Len(samples) + 1] = value
        /\ \A i \in 1 .. Len(samples) : samples'[i] = samples[i]
        /\ gpio_expect_index \in Nat
    <3>1. samples \in Seq(Pins) /\ gpio_expect_index \in 0 .. Len(gpio_expect_values)
      BY DEF TypeInv, TypeOK
    <3>2. Len(samples) \in Nat /\ Len(gpio_expect_values) \in Nat
      BY <3>1, LenProperties, HarnessAssumption
    <3>3. /\ Len(samples') = Len(samples) + 1 /\ samples'[Len(samples) + 1] = value
          /\ \A i \in 1 .. Len(samples) : samples'[i] = samples[i]
      BY <1>2, <3>1, AppendProperties
    <3> QED BY <3>1, <3>2, <3>3
  <2>2. PICK at : Places(at, gpio_expect_index)
    BY DEF PinsInv
  <2>3. CASE gpio_expect_index' = gpio_expect_index
    <3>1. at \in [1 .. gpio_expect_index -> 1 .. Len(samples')]
      BY <2>1, <2>2 DEF Places
    <3>2. \A i \in 1 .. gpio_expect_index : samples'[at[i]] = gpio_expect_values[i]
      BY <2>1, <2>2 DEF Places
    <3> QED BY <2>2, <2>3, <3>1, <3>2 DEF PinsInv, Places
  <2>4. CASE gpio_expect_index' = gpio_expect_index + 1 /\ value = gpio_expect_values[gpio_expect_index + 1]
    <3> DEFINE n == gpio_expect_index + 1
               new == [i \in 1 .. n |-> IF i = n THEN Len(samples) + 1 ELSE at[i]]
    <3>1. \A i \in 1 .. n : i # n => i \in 1 .. gpio_expect_index /\ at[i] \in 1 .. Len(samples)
      BY <2>1, <2>2 DEF Places
    <3>2. new \in [1 .. n -> 1 .. Len(samples')]
      BY <2>1, <3>1
    <3>3. \A i \in 1 .. n : samples'[new[i]] = gpio_expect_values[i]
      BY <2>1, <2>2, <2>4, <3>1 DEF Places
    <3>4. \A i, j \in 1 .. n : i < j => new[i] < new[j]
      <4> TAKE i, j \in 1 .. n
      <4> HAVE i < j
      <4>1. i # n /\ new[i] = at[i]
        BY <2>1
      <4>2. CASE j = n
        BY <2>1, <3>1, <4>1, <4>2
      <4>3. CASE j # n
        BY <2>2, <3>1, <4>1, <4>3 DEF Places
      <4> QED BY <4>2, <4>3
    <3> HIDE DEF new
    <3> QED BY <2>4, <3>2, <3>3, <3>4 DEF PinsInv, Places
  <2> QED BY <1>2, <2>3, <2>4 DEF record_gpio
<1> QED BY <1>1, <1>2 DEF Next, Low, High, End, vars

-----------------------------------------------------------------------------
(* The verdict. *)

VerdictInv ==
  verdict = "SIM PASS" =>
    /\ ~uart_fail_matched
    /\ uart_stop_text = <<>> \/ uart_stop_matched
    /\ gpio_expect_values = <<>> \/ gpio_expect_matched

HarnessInv == TypeInv /\ WindowInv /\ FailInv /\ PinsInv /\ VerdictInv

LEMMA HarnessInit == Init => HarnessInv
<1> SUFFICES ASSUME Init PROVE HarnessInv
  OBVIOUS
<1>1. Len(output) = 0
  BY DEF Init
<1>2. FailInv
  BY <1>1 DEF FailInv
<1>3. PinsInv
  <2>1. gpio_expect_index = 0
    BY DEF Init
  <2>2. Places([i \in 1 .. 0 |-> 1], 0)
    BY DEF Places
  <2> QED BY <2>1, <2>2 DEF PinsInv
<1>4. VerdictInv
  BY DEF Init, VerdictInv
<1> QED BY <1>2, <1>3, <1>4, TypeInit, WindowInit DEF HarnessInv

LEMMA HarnessStep ==
  ASSUME HarnessInv, [Next]_vars
  PROVE  HarnessInv'
<1> USE DEF HarnessInv
<1>1. TypeInv' /\ WindowInv' /\ FailInv' /\ PinsInv'
  BY TypeStep, WindowStep, FailStep, PinsStep
<1>2. VerdictInv'
  <2>1. CASE Low \/ High
    BY <2>1 DEF Low, High, TypeInv, VerdictInv
  <2>2. CASE End
    BY <2>2 DEF End, VerdictInv, gpio_expect_matched
  <2>3. CASE UNCHANGED vars
    BY <2>3 DEF vars, VerdictInv, gpio_expect_matched
  <2> QED BY <2>1, <2>2, <2>3 DEF Next
<1> QED BY <1>1, <1>2

\* A counter that is limited by zero is at its limit.
LEMMA UpToZero == \A i \in 0 .. 0 : i = 0
OBVIOUS

\* SIM PASS means that all that was sent ends with the stop text and that the pins went
\* through the expected values, although the window and the counter have forgotten them.
THEOREM PassIsObserved == Spec => []PassMeansObserved
<1>1. HarnessInv => PassMeansObserved
  <2> SUFFICES ASSUME HarnessInv, verdict = "SIM PASS"
               PROVE  EndsWith(output, uart_stop_text) /\ InOrder(gpio_expect_values, samples)
    BY DEF PassMeansObserved
  <2>1. EndsWith(output, uart_stop_text)
    <3>1. CASE uart_stop_text = <<>>
      BY <3>1, EndsWithNothing DEF HarnessInv, TypeInv, TypeOK
    <3>2. CASE uart_stop_text # <<>>
      BY <3>2 DEF HarnessInv, VerdictInv, WindowInv
    <3> QED BY <3>1, <3>2
  <2>2. Len(gpio_expect_values) \in Nat /\ DOMAIN gpio_expect_values = 1 .. Len(gpio_expect_values)
    BY HarnessAssumption, LenProperties
  <2>3. DOMAIN samples = 1 .. Len(samples)
    BY LenProperties DEF HarnessInv, TypeInv, TypeOK
  <2>4. gpio_expect_index = Len(gpio_expect_values)
    <3>1. CASE gpio_expect_values = <<>>
      <4>1. Len(gpio_expect_values) = 0
        BY <3>1
      <4>2. gpio_expect_index \in 0 .. Len(gpio_expect_values)
        BY DEF HarnessInv, TypeInv, TypeOK
      <4> QED BY <4>1, <4>2, UpToZero, Zenon
    <3>2. CASE gpio_expect_values # <<>>
      BY <3>2 DEF HarnessInv, VerdictInv, gpio_expect_matched
    <3> QED BY <3>1, <3>2
  <2>5. InOrder(gpio_expect_values, samples)
    BY <2>2, <2>3, <2>4 DEF HarnessInv, PinsInv, Places, InOrder
  <2> QED BY <2>1, <2>5
<1> QED BY <1>1, HarnessInit, HarnessStep, PTL DEF Spec

\* No run in which the fail text was sent, at any time, ends with SIM PASS.
THEOREM FailTextFails == Spec => []FailTextNeverPasses
<1>1. HarnessInv => FailTextNeverPasses
  <2> SUFFICES ASSUME HarnessInv, verdict = "SIM PASS", uart_fail_text # <<>>,
                      NEW n \in 1 .. Len(output),
                      EndsWith(SubSeq(output, 1, n), uart_fail_text)
               PROVE  FALSE
    BY DEF FailTextNeverPasses
  <2>1. n = Len(output) /\ output \in Seq(Chars)
    BY DEF HarnessInv, FailInv, TypeInv, TypeOK
  <2>2. EndsWith(output, uart_fail_text)
    BY <2>1, SubSeqFull
  <2> QED BY <2>2 DEF HarnessInv, WindowInv, VerdictInv
<1> QED BY <1>1, HarnessInit, HarnessStep, PTL DEF Spec
=============================================================================
