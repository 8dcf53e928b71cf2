-------------------------------- MODULE Plic --------------------------------
(***************************************************************************)
(* The interrupt controller of the reference SoC (hw/ip/plic): a gateway per *)
(* source, the registered priority tree and the claim/complete register.     *)
(* Every step is one clock of apb4_pclk, with what the APB does in that      *)
(* clock and what the lines are.  Trigger modes, priorities and the          *)
(* threshold are programmed once; the enables may change at any time.        *)
(***************************************************************************)
EXTENDS Integers, FiniteSets, FiniteSetsExt

CONSTANTS
  PLIC_IRQ_NUM, \* the leaves of the tree, of which leaf 0 is no source
  Sources,     \* the sources whose lines are used
  EDGE,        \* those with tm_i = PLIC_TM_EDGE
  Priorities,  \* what software may program into PRIO1..4
  THOLD,       \* thold_i
  TNM,         \* tnm_i, the limit of the edge counter
  GAP,         \* clocks from one access of the APB to the next, at least
  NESTED       \* whether software may claim again before it has completed

Leaves == 0 .. PLIC_IRQ_NUM - 1

ASSUME PlicAssumption ==
  /\ PLIC_IRQ_NUM \in Nat \ {0, 1} /\ Sources \subseteq Leaves \ {0} /\ EDGE \subseteq Sources
  /\ Priorities \subseteq [Sources -> Nat] /\ THOLD \in Nat
  /\ TNM \in Nat /\ GAP \in Nat \ {0, 1} /\ NESTED \subseteq BOOLEAN

VARIABLES
  line,        \* irq_i in the last clock, u_irq_re's register
  gw,          \* s_gw_fsm_q: "idle", "claim" (pending) or "comp" (claimed)
  cnt,         \* s_trg_cnt_q
  dec,         \* s_edge_dec_q
  prio,        \* s_prio_in of each source
  nested,      \* whether software claims again before it has completed
  ie,          \* the enabled sources, s_plic_ie_q
  asking,      \* the sources whose priority and id are in s_prio_in_q, s_id_in_q
  id,          \* s_id_q, what a claim reads
  irq,         \* s_irq_q
  id_clam,     \* s_id_clam_q, what the last claim read
  since,       \* clocks since the last access, up to GAP
  held,        \* history: the sources software has claimed and not completed
  owed         \* history: edges not yet made pending, up to TNM

vars == <<line, gw, cnt, dec, prio, nested, ie, asking, id, irq, id_clam, since, held, owed>>

Init ==
  /\ line = {} /\ gw = [i \in Sources |-> "idle"]
  /\ cnt = [i \in Sources |-> 0] /\ dec = {}
  /\ prio \in Priorities /\ nested \in NESTED /\ ie \in SUBSET Sources
  /\ asking = {} /\ id = 0 /\ irq = FALSE /\ id_clam = 0
  /\ since = GAP /\ held = {} /\ owed = [i \in Sources |-> 0]

-----------------------------------------------------------------------------
(* The gateway of source i, with irq_i in now. *)

Rises(i, now) == i \in now /\ i \notin line

\* (variants with a bug, for the mutation checks: counts below 0, or nothing is taken off)
CountBelowZero(i, now) ==
  CASE i \notin EDGE -> 0
    [] i \in EDGE /\ i \notin dec /\ Rises(i, now) /\ cnt[i] < TNM -> cnt[i] + 1
    [] i \in EDGE /\ i \in dec /\ ~Rises(i, now) -> cnt[i] - 1
    [] OTHER -> cnt[i]
CountUp(i, now) ==
  IF i \in EDGE /\ Rises(i, now) /\ cnt[i] < TNM THEN cnt[i] + 1 ELSE cnt[i]

\* s_trg_cnt_d: an edge counts one up to the limit; dec counts one down
Count(i, now) ==
  CASE i \notin EDGE -> 0
    [] i \in EDGE /\ i \notin dec /\ Rises(i, now) /\ cnt[i] < TNM -> cnt[i] + 1
    [] i \in EDGE /\ i \in dec /\ ~Rises(i, now) /\ cnt[i] > 0 -> cnt[i] - 1
    [] OTHER -> cnt[i]

Requests(i, now) == IF i \in EDGE THEN Count(i, now) > 0 ELSE i \in now

\* (variants with a bug, for the mutation checks: compared with the winner of now, or
\* the id that is written is not looked at)
CompletesWinner(i, comp) == comp = i /\ id = i
CompletesLast(i, comp) == comp # 0 /\ id_clam = i

\* comp_i: only the source that was claimed last can be completed
Completes(i, comp) == comp = i /\ id_clam = i

Gateway(i, now, claim, comp) ==
  CASE gw[i] = "idle" /\ Requests(i, now) -> "claim"
    [] gw[i] = "claim" /\ claim /\ id = i -> "comp"
    [] gw[i] = "comp" /\ Completes(i, comp) -> "idle"
    [] OTHER -> gw[i]

-----------------------------------------------------------------------------
(* The priority tree. *)

\* (a variant with a bug, for the mutation checks: ip_o stays up until the completion)
AsksUntilCompleted(i) == i \in ie /\ gw[i] # "idle"

\* ip_o is up and the source enabled
Asks(i) == i \in ie /\ gw[i] = "claim"

Leaf(i) == IF i \in asking THEN [level |-> prio[i], id |-> i] ELSE [level |-> 0, id |-> 0]

\* (a variant with a bug, for the mutation checks: the higher id wins a tie)
BetterHigh(lo, hi) == IF lo.level <= hi.level THEN hi ELSE lo

Better(lo, hi) == IF lo.level < hi.level THEN hi ELSE lo

\* prio_tree between two leaves: the better of its halves, or of the two leaves.
Tree[range \in Leaves \X Leaves] ==
  LET low == range[1]
      hig == range[2]
      half == (hig - low) \div 2
  IN IF hig - low > 1
     THEN Better(Tree[<<low, low + half>>], Tree[<<hig - half, hig>>])
     ELSE Better(Leaf(low), Leaf(hig))

Winner == Tree[<<0, PLIC_IRQ_NUM - 1>>]

\* (a variant with a bug, for the mutation checks: the threshold is off by one)
ExceedsByTwo(level) == level > THOLD + 1

Exceeds(level) == level > THOLD

-----------------------------------------------------------------------------
(* One clock: a claim reads CLAIMCOMP, comp is what is written to it (0: nothing), *)
(* enables is what IE holds after the clock.                                        *)

Clock(now, claim, comp, enables) ==
  /\ line' = now
  /\ gw' = [i \in Sources |-> Gateway(i, now, claim, comp)]
  /\ cnt' = [i \in Sources |-> Count(i, now)]
  /\ dec' = {i \in EDGE : cnt[i] > 0}
  /\ ie' = enables /\ UNCHANGED <<prio, nested>>
  /\ asking' = {i \in Sources : Asks(i)}
  /\ id' = Winner.id
  /\ irq' = Exceeds(Winner.level)
  /\ id_clam' = IF claim THEN id ELSE id_clam
  /\ since' = IF claim \/ comp # 0 \/ enables # ie THEN 1 ELSE Min({since + 1, GAP})
  /\ held' = (IF claim /\ id # 0 THEN held \union {id} ELSE held) \ {comp}
  /\ owed' = [i \in Sources |->
                Min({TNM, owed[i] + IF i \in EDGE /\ Rises(i, now) THEN 1 ELSE 0})
                  - IF i \in EDGE /\ gw[i] = "idle" /\ Gateway(i, now, claim, comp) = "claim"
                      THEN 1 ELSE 0]

Idle(now) == Clock(now, FALSE, 0, ie)

\* Software completes what it claimed, in any order if it nests claims.
Claim(now) == since = GAP /\ (nested \/ held = {}) /\ Clock(now, TRUE, 0, ie)
Complete(now) == since = GAP /\ \E i \in held : Clock(now, FALSE, i, ie)
Enable(now) == since = GAP /\ \E enables \in SUBSET Sources \ {ie} : Clock(now, FALSE, 0, enables)

Next == \E now \in SUBSET Sources : Idle(now) \/ Claim(now) \/ Complete(now) \/ Enable(now)

\* The clock does not stop.
Spec == Init /\ [][Next]_vars /\ WF_vars(Next)

-----------------------------------------------------------------------------
(* Properties. *)

TypeOK ==
  /\ line \subseteq Sources /\ dec \subseteq EDGE /\ ie \subseteq Sources /\ prio \in Priorities
  /\ nested \in NESTED
  /\ gw \in [Sources -> {"idle", "claim", "comp"}]
  /\ cnt \in [Sources -> 0 .. TNM]
  /\ asking \subseteq Sources
  /\ id \in Sources \union {0} /\ id_clam \in Sources \union {0}
  /\ irq \in BOOLEAN /\ since \in 0 .. GAP
  /\ held \subseteq Sources /\ owed \in [Sources -> Int]

\* The id a claim reads was computed two clocks before; still the source it names is
\* pending, and so nothing is served twice or without a request.
ClaimIsPending ==
  [][\A now \in SUBSET Sources : Claim(now) /\ id # 0 => gw[id] = "claim"]_vars

\* While software serves a source its gateway stays closed, whatever else is claimed and
\* completed meanwhile: the source does not ask again.
HeldIsClosed == \A i \in held : gw[i] = "comp"

\* A completion reaches the gateway it is for and lets it accept requests again, if
\* software serves one source at a time: "write the same id back, which clears the
\* in-service state of that interrupt".
CompletionReopens ==
  [][~nested => \A i \in held \ held' : gw[i] = "comp" /\ gw'[i] = "idle"]_vars

\* Every interrupt of an edge triggered source has an edge of its own, however late the
\* counter is taken down.
EveryInterruptHasAnEdge == \A i \in Sources : owed[i] >= 0

\* The tree finds the smallest id with the highest priority; 0 if that is zero.
TreePicksHighest ==
  LET best == {i \in asking : prio[i] > 0 /\ \A j \in asking : prio[j] <= prio[i]}
  IN Winner.id = IF best = {} THEN 0 ELSE Min(best)

\* An enabled source above the threshold that stays pending raises the interrupt.
PendingRaisesInterrupt ==
  \A i \in Sources :
    (gw[i] = "claim" /\ i \in ie /\ prio[i] > THOLD) ~> (irq \/ gw[i] # "claim" \/ i \notin ie)

\* "Programmable pending counter to queue edge trigger interrupt requests": a gateway
\* is not idle with nothing to count while edges it has seen wait to be served.
EdgesAreQueued == \A i \in EDGE : gw[i] = "idle" /\ owed[i] > 0 => cnt[i] > 0
=============================================================================
