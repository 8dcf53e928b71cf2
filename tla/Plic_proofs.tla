----------------------------- MODULE Plic_proofs ----------------------------
(* Proofs about Plic, for any sources, any limit of the edge counter, any       *)
(* priorities and threshold and any behaviour of the lines and of software.     *)
EXTENDS Plic, TLAPS, NaturalsInduction, WellFoundedInduction

\* The smaller of two numbers.
LEMMA MinOfTwo ==
  ASSUME NEW a \in Int, NEW b \in Int
  PROVE  Min({a, b}) = IF a < b THEN a ELSE b
<1> DEFINE least == IF a < b THEN a ELSE b
<1>1. least \in {a, b} /\ \A y \in {a, b} : least <= y
  OBVIOUS
<1>2. \A x \in {a, b} : (\A y \in {a, b} : x <= y) => x = least
  OBVIOUS
<1> HIDE DEF least
<1>3. (CHOOSE x \in {a, b} : \A y \in {a, b} : x <= y) = least
  BY <1>1, <1>2
<1> QED BY <1>3 DEF Min, least

-----------------------------------------------------------------------------
(* The counter of a source against the edges that wait.  A gateway that has     *)
(* become pending took an edge the counter still holds: it is taken off two     *)
(* clocks later at the latest, before the gateway can be idle again.            *)

Counted(i) ==
  \/ cnt[i] <= owed[i]
  \/ gw[i] = "claim" /\ cnt[i] <= owed[i] + 1
  \/ gw[i] = "comp" /\ i \in dec /\ cnt[i] <= owed[i] + 1

EdgeInv ==
  /\ gw \in [Sources -> {"idle", "claim", "comp"}]
  /\ cnt \in [Sources -> 0 .. TNM] /\ owed \in [Sources -> 0 .. TNM]
  /\ \A i \in EDGE : Counted(i)

\* What a clock owes source i before an interrupt takes one off.
Seen(i, now) == owed[i] + (IF i \in EDGE /\ Rises(i, now) THEN 1 ELSE 0)

\* One clock does not break the balance of a source.
LEMMA ClockKeepsBalance ==
  ASSUME EdgeInv, NEW now, NEW claim, NEW comp, NEW enables,
         Clock(now, claim, comp, enables), NEW i \in Sources
  PROVE  /\ gw'[i] \in {"idle", "claim", "comp"}
         /\ cnt'[i] \in 0 .. TNM /\ owed'[i] \in 0 .. TNM
         /\ i \in EDGE => Counted(i)'
<1> DEFINE taken == i \in EDGE /\ gw[i] = "idle" /\ Gateway(i, now, claim, comp) = "claim"
<1>1. /\ gw[i] \in {"idle", "claim", "comp"} /\ cnt[i] \in 0 .. TNM /\ owed[i] \in 0 .. TNM
      /\ TNM \in Nat /\ (i \in EDGE => Counted(i))
  BY PlicAssumption DEF EdgeInv
<1>2. /\ gw'[i] = Gateway(i, now, claim, comp) /\ cnt'[i] = Count(i, now)
      /\ i \in dec' <=> (i \in EDGE /\ cnt[i] > 0)
  BY DEF Clock
<1>3. owed'[i] = Min({TNM, Seen(i, now)}) - (IF taken THEN 1 ELSE 0)
  BY DEF Clock, Seen
<1>4. gw'[i] \in {"idle", "claim", "comp"}
  BY <1>1, <1>2 DEF Gateway
<1>5. Min({TNM, Seen(i, now)}) = IF TNM < Seen(i, now) THEN TNM ELSE Seen(i, now)
  <2>1. Seen(i, now) \in Int
    BY <1>1 DEF Seen
  <2> QED BY <1>1, <2>1, MinOfTwo
<1>6. CASE i \notin EDGE
  <2>1. cnt'[i] = 0 /\ Seen(i, now) = owed[i]
    BY <1>1, <1>2, <1>6 DEF Count, Seen
  <2>2. owed'[i] = owed[i]
    BY <1>1, <1>3, <1>5, <1>6, <2>1
  <2> QED BY <1>1, <1>4, <1>6, <2>1, <2>2
<1>7. CASE i \in EDGE
  <2> DEFINE rise == Rises(i, now)
             edges == Min({TNM, Seen(i, now)})
  <2>1. edges \in 0 .. TNM /\ edges >= owed[i] /\ (rise => edges = TNM \/ edges = owed[i] + 1)
    BY <1>1, <1>5, <1>7 DEF Seen
  <2>2. \/ i \notin dec /\ rise /\ cnt[i] < TNM /\ Count(i, now) = cnt[i] + 1
        \/ i \in dec /\ ~rise /\ cnt[i] > 0 /\ Count(i, now) = cnt[i] - 1
        \/ /\ ~(i \notin dec /\ rise /\ cnt[i] < TNM) /\ ~(i \in dec /\ ~rise /\ cnt[i] > 0)
           /\ Count(i, now) = cnt[i]
    BY <1>7 DEF Count
  <2> HIDE DEF edges, rise
  <2>3. cnt'[i] \in 0 .. TNM
    BY <1>1, <1>2, <2>2
  <2>4. cnt[i] <= owed[i] => cnt'[i] <= edges
    BY <1>1, <1>2, <2>1, <2>2
  <2>5. cnt[i] <= owed[i] + 1 => cnt'[i] <= edges + 1
    BY <1>1, <1>2, <2>1, <2>2
  <2>6. cnt[i] <= owed[i] + 1 /\ i \in dec => cnt'[i] <= edges
    BY <1>1, <1>2, <2>1, <2>2
  <2>7. CASE taken
    <3>1. Count(i, now) > 0 /\ gw[i] = "idle" /\ gw'[i] = "claim"
      BY <1>2, <1>7, <2>7 DEF Gateway, Requests
    <3>2. cnt[i] <= owed[i]
      BY <1>1, <1>7, <3>1 DEF Counted
    <3>3. cnt'[i] <= edges /\ edges > 0
      BY <1>1, <1>2, <2>1, <2>3, <2>4, <3>1, <3>2
    <3>4. owed'[i] = edges - 1
      BY <1>3, <2>7 DEF edges
    <3>5. owed'[i] \in 0 .. TNM /\ cnt'[i] <= owed'[i] + 1
      BY <1>1, <2>1, <2>3, <3>3, <3>4
    <3> QED BY <1>4, <2>3, <3>1, <3>5 DEF Counted
  <2>8. CASE ~taken
    <3>1. owed'[i] = edges
      BY <1>1, <1>3, <2>1, <2>8 DEF edges
    <3>2. CASE cnt[i] <= owed[i]
      BY <1>4, <2>1, <2>3, <2>4, <3>1, <3>2 DEF Counted
    <3>3. CASE gw[i] = "comp" /\ i \in dec /\ cnt[i] <= owed[i] + 1
      BY <1>4, <2>1, <2>3, <2>6, <3>1, <3>3 DEF Counted
    <3>4. CASE gw[i] = "claim" /\ cnt[i] <= owed[i] + 1
      <4>1. gw'[i] = "claim" \/ gw'[i] = "comp"
        BY <1>2, <3>4 DEF Gateway
      <4>2. CASE gw'[i] = "claim"
        BY <1>4, <2>1, <2>3, <2>5, <3>1, <3>4, <4>2 DEF Counted
      <4>3. CASE gw'[i] = "comp" /\ cnt[i] > 0
        BY <1>2, <1>4, <1>7, <2>1, <2>3, <2>5, <3>1, <3>4, <4>3 DEF Counted
      <4>4. CASE cnt[i] = 0
        <5>1. cnt[i] <= owed[i]
          BY <1>1, <4>4
        <5> QED BY <3>2, <5>1
      <4> QED BY <1>1, <4>1, <4>2, <4>3, <4>4
    <3> QED BY <1>1, <1>7, <3>2, <3>3, <3>4 DEF Counted
  <2> QED BY <2>7, <2>8
<1> QED BY <1>6, <1>7

\* Every clock keeps the balance of every source.
LEMMA EdgeStep ==
  ASSUME EdgeInv, [Next]_vars
  PROVE  EdgeInv'
<1>1. ASSUME NEW now, NEW claim, NEW comp, NEW enables, Clock(now, claim, comp, enables)
      PROVE  EdgeInv'
  <2>1. /\ gw' = [i \in Sources |-> Gateway(i, now, claim, comp)]
        /\ cnt' = [i \in Sources |-> Count(i, now)]
        /\ owed' = [i \in Sources |-> owed'[i]]
    BY <1>1 DEF Clock
  <2>2. \A i \in Sources : /\ gw'[i] \in {"idle", "claim", "comp"}
                           /\ cnt'[i] \in 0 .. TNM /\ owed'[i] \in 0 .. TNM
                           /\ i \in EDGE => Counted(i)'
    BY <1>1, ClockKeepsBalance
  <2>3. /\ gw' \in [Sources -> {"idle", "claim", "comp"}]
        /\ cnt' \in [Sources -> 0 .. TNM] /\ owed' \in [Sources -> 0 .. TNM]
    BY <2>1, <2>2
  <2>4. \A i \in EDGE : Counted(i)'
    BY <2>2, PlicAssumption
  <2> QED BY <2>3, <2>4 DEF EdgeInv
<1>2. CASE UNCHANGED vars
  BY <1>2 DEF vars, EdgeInv, Counted
<1> QED BY <1>1, <1>2 DEF Next, Idle, Claim, Complete, Enable

\* An interrupt of an edge triggered source is never raised without an edge of its own,
\* although the counter is taken down late and the gateway looks at it early.
THEOREM InterruptsHaveEdges == Spec => []EveryInterruptHasAnEdge
<1>1. Init => EdgeInv
  BY PlicAssumption DEF Init, EdgeInv, Counted
<1>2. EdgeInv => EveryInterruptHasAnEdge
  BY PlicAssumption DEF EdgeInv, EveryInterruptHasAnEdge
<1> QED BY <1>1, <1>2, EdgeStep, PTL DEF Spec
-----------------------------------------------------------------------------
(* The tree is a recursive function: that there is one with its equation is     *)
(* shown by induction on the distance between the two leaves of a node, and so   *)
(* is what a node picks.  Neither needs the number of leaves to be a power of 2: *)
(* the halves of a node may share a leaf.                                        *)

Half(low, hig) == (hig - low) \div 2

\* The halves of a node lie within it, are smaller and leave out no leaf.
LEMMA Halves ==
  ASSUME NEW low \in Leaves, NEW hig \in Leaves, hig - low > 1
  PROVE  /\ Half(low, hig) \in Nat /\ Half(low, hig) < hig - low
         /\ low + Half(low, hig) \in Leaves /\ hig - Half(low, hig) \in Leaves
         /\ low < low + Half(low, hig) /\ hig - Half(low, hig) < hig
         /\ hig - Half(low, hig) <= low + Half(low, hig) + 1
<1>1. /\ PLIC_IRQ_NUM \in Nat /\ low \in Nat /\ hig \in Nat /\ hig < PLIC_IRQ_NUM
  BY PlicAssumption DEF Leaves
<1>2. \A d \in Nat : d > 1 => /\ d \div 2 \in Nat /\ 0 < d \div 2
                              /\ 2 * (d \div 2) <= d /\ d <= 2 * (d \div 2) + 1
  OBVIOUS
<1>3. hig - low \in Nat
  BY <1>1
<1> DEFINE half == Half(low, hig)
<1>4. half \in Nat /\ 0 < half /\ 2 * half <= hig - low /\ hig - low <= 2 * half + 1
  BY <1>2, <1>3 DEF Half
<1> HIDE DEF half
<1>5. /\ half < hig - low /\ low + half \in Leaves /\ hig - half \in Leaves
      /\ low < low + half /\ hig - half < hig /\ hig - half <= low + half + 1
  BY <1>1, <1>4 DEF Leaves
<1> QED BY <1>4, <1>5 DEF half

\* Any set of numbers that is not empty has a least one.
LEMMA LeastNat ==
  ASSUME NEW S \in SUBSET Nat, S # {}
  PROVE  \E n \in S : \A m \in Nat : m < n => m \notin S
<1>1. PICK n \in S : \A m \in S : ~(<<m, n>> \in OpToRel(<, Nat))
  BY WFMin, NatLessThanWellFounded
<1>2. ASSUME NEW m \in Nat, m < n, m \in S PROVE FALSE
  <2>1. <<m, n>> \in Nat \X Nat /\ <<m, n>>[1] < <<m, n>>[2]
    BY <1>2
  <2>2. <<m, n>> \in OpToRel(<, Nat)
    BY <2>1 DEF OpToRel
  <2> QED BY <1>1, <1>2, <2>2
<1> QED BY <1>2

Ranges == Leaves \X Leaves

\* What the equation of the tree says of one node, given the function f for the others.
Node(f, range) ==
  LET low == range[1]
      hig == range[2]
      half == (hig - low) \div 2
  IN IF hig - low > 1
     THEN Better(f[<<low, low + half>>], f[<<hig - half, hig>>])
     ELSE Better(Leaf(low), Leaf(hig))

\* There is a function with the tree's equation.
LEMMA TreeBuilt == \E f : f = [range \in Ranges |-> Node(f, range)]
<1> DEFINE Built(n, f) == 
             /\ f = [range \in Ranges |-> f[range]]
             /\ \A low \in Leaves, hig \in Leaves :
                 hig - low <= n => f[<<low, hig>>] = Node(f, <<low, hig>>)
           Unbuilt == {n \in Nat : ~ \E f : Built(n, f)}
<1>1. ASSUME NEW n \in Nat, NEW f, n # 0 => Built(n - 1, f)
      PROVE  \E g : Built(n, g)
  <2> DEFINE g == [range \in Ranges |-> Node(f, range)]
  <2>1. ASSUME NEW low \in Leaves, NEW hig \in Leaves
        PROVE  <<low, hig>> \in Ranges /\ g[<<low, hig>>] = Node(f, <<low, hig>>)
    BY DEF Ranges
  <2>2. \A low \in Leaves, hig \in Leaves : low \in Int /\ hig \in Int
    BY PlicAssumption DEF Leaves
  <2> HIDE DEF g
  <2>3. ASSUME NEW low \in Leaves, NEW hig \in Leaves, hig - low <= n, hig - low > 1
        PROVE  g[<<low, hig>>] = Node(g, <<low, hig>>)
    <3> DEFINE h == Half(low, hig)
    <3>1. /\ h \in Nat /\ h < hig - low /\ low + h \in Leaves /\ hig - h \in Leaves
      BY <2>3, Halves
    <3> HIDE DEF h
    <3>2. n # 0 /\ (low + h) - low <= n - 1 /\ hig - (hig - h) <= n - 1
      BY <2>2, <2>3, <3>1
    <3>3. /\ f[<<low, low + h>>] = Node(f, <<low, low + h>>)
          /\ f[<<hig - h, hig>>] = Node(f, <<hig - h, hig>>)
      BY <1>1, <3>1, <3>2
    <3>4. /\ g[<<low, low + h>>] = f[<<low, low + h>>]
          /\ g[<<hig - h, hig>>] = f[<<hig - h, hig>>]
      BY <2>1, <3>1, <3>3
    <3>5. Node(g, <<low, hig>>) = Node(f, <<low, hig>>)
      BY <2>3, <3>4 DEF Node, h, Half
    <3> QED BY <2>1, <3>5
  <2>4. ASSUME NEW low \in Leaves, NEW hig \in Leaves, ~(hig - low > 1)
        PROVE  g[<<low, hig>>] = Node(g, <<low, hig>>)
    <3>1. g[<<low, hig>>] = Node(f, <<low, hig>>)
      BY <2>1
    <3> QED BY <2>4, <3>1 DEF Node
  <2>5. g = [range \in Ranges |-> g[range]]
    BY DEF g
  <2> QED BY <2>3, <2>4, <2>5
<1>2. Unbuilt = {}
  <2> SUFFICES ASSUME Unbuilt # {}
               PROVE  FALSE
    OBVIOUS
  <2>1. PICK n \in Unbuilt : \A m \in Nat : m < n => m \notin Unbuilt
    BY LeastNat
  <2>2. CASE n = 0
    BY <1>1, <2>2
  <2>3. CASE n # 0
    <3>1. n - 1 \in Nat /\ n - 1 < n
      BY <2>3
    <3> QED BY <1>1, <2>1, <3>1
  <2> QED BY <2>2, <2>3
<1>3. PICK f : Built(PLIC_IRQ_NUM, f)
  BY <1>2, PlicAssumption
<1>4. ASSUME NEW range \in Ranges
      PROVE  f[range] = Node(f, range)
  <2>1. PICK low \in Leaves, hig \in Leaves : range = <<low, hig>>
    BY DEF Ranges
  <2>2. hig - low <= PLIC_IRQ_NUM
    BY PlicAssumption DEF Leaves
  <2> QED BY <1>3, <2>1, <2>2
<1>5. f = [range \in Ranges |-> Node(f, range)]
  BY <1>3, <1>4
<1> QED BY <1>5

\* The tree has it.
LEMMA TreeDef == Tree = [range \in Ranges |-> Node(Tree, range)]
<1>1. \E f : f = [range \in Leaves \X Leaves |->
             LET low == range[1]
                 hig == range[2]
                 half == (hig - low) \div 2
             IN IF hig - low > 1
                THEN Better(f[<<low, low + half>>], f[<<hig - half, hig>>])
                ELSE Better(Leaf(low), Leaf(hig))]
  BY TreeBuilt DEF Node, Ranges
<1> QED BY <1>1 DEF Tree, Node, Ranges

PrioType == prio \in [Sources -> Nat] /\ asking \subseteq Sources

\* r is what the smallest of the leaves from low to hig with the highest priority asks.
Wins(low, hig, r) ==
  \E k \in low .. hig :
    /\ r = Leaf(k)
    /\ \A j \in low .. hig : /\ Leaf(j).level <= Leaf(k).level
                             /\ j < k => Leaf(j).level < Leaf(k).level

\* A leaf has a priority.
LEMMA LeafLevels ==
  ASSUME PrioType, NEW k
  PROVE  Leaf(k).level \in Nat
BY DEF PrioType, Leaf

\* The better winner of two halves that leave out no leaf wins the whole.
LEMMA BetterOfHalves ==
  ASSUME PrioType, NEW low \in Nat, NEW mid \in Nat, NEW up \in Nat, NEW hig \in Nat,
         low <= mid, mid <= hig, low <= up, up <= hig, up <= mid + 1,
         NEW lo, NEW hi, Wins(low, mid, lo), Wins(up, hig, hi)
  PROVE  Wins(low, hig, Better(lo, hi))
<1> DEFINE L(j) == Leaf(j).level
<1>1. PICK k \in low .. mid : /\ lo = Leaf(k)
                              /\ \A j \in low .. mid : L(j) <= L(k) /\ (j < k => L(j) < L(k))
  BY DEF Wins
<1>2. PICK m \in up .. hig : /\ hi = Leaf(m)
                             /\ \A j \in up .. hig : L(j) <= L(m) /\ (j < m => L(j) < L(m))
  BY DEF Wins
<1>3. \A j : L(j) \in Nat
  BY LeafLevels
<1>4. Better(lo, hi) = IF L(k) < L(m) THEN Leaf(m) ELSE Leaf(k)
  BY <1>1, <1>2 DEF Better
<1> HIDE DEF L
<1>5. ASSUME NEW j \in low .. hig
      PROVE  j \in low .. mid \/ (j \in up .. hig /\ ~(j <= mid))
  OBVIOUS
<1>6. CASE L(k) < L(m)
  <2>1. \A j \in low .. hig : L(j) <= L(m) /\ (j < m => L(j) < L(m))
    BY <1>1, <1>2, <1>3, <1>5, <1>6
  <2>2. m \in low .. hig /\ Better(lo, hi) = Leaf(m)
    BY <1>4, <1>6
  <2> QED BY <2>1, <2>2 DEF Wins, L
<1>7. CASE ~(L(k) < L(m))
  <2>1. \A j \in low .. hig : L(j) <= L(k) /\ (j < k => L(j) < L(k))
    <3> SUFFICES ASSUME NEW j \in low .. hig
                 PROVE  L(j) <= L(k) /\ (j < k => L(j) < L(k))
      OBVIOUS
    <3>1. CASE j \in low .. mid
      BY <1>1, <3>1
    <3>2. CASE j \in up .. hig /\ ~(j <= mid)
      <4>1. L(j) <= L(m) /\ L(m) <= L(k) /\ ~(j < k)
        BY <1>2, <1>3, <1>7, <3>2
      <4> QED BY <1>3, <4>1
    <3> QED BY <1>5, <3>1, <3>2
  <2>2. k \in low .. hig /\ Better(lo, hi) = Leaf(k)
    BY <1>4, <1>7
  <2> QED BY <2>1, <2>2 DEF Wins, L
<1> QED BY <1>6, <1>7

\* Every node of the tree yields the winner of its leaves.
LEMMA TreeWins ==
  ASSUME PrioType
  PROVE  \A low \in Leaves, hig \in Leaves :
           low <= hig => Wins(low, hig, Tree[<<low, hig>>])
<1> DEFINE Right(n) == \A low \in Leaves, hig \in Leaves :
             low <= hig /\ hig - low = n => Wins(low, hig, Tree[<<low, hig>>])
           Wrong == {n \in Nat : ~Right(n)}
<1>0. Leaves \subseteq Nat
  BY PlicAssumption DEF Leaves
<1>1. ASSUME NEW n \in Nat, \A m \in Nat : m < n => Right(m)
      PROVE  Right(n)
  <2> SUFFICES ASSUME NEW low \in Leaves, NEW hig \in Leaves, low <= hig, hig - low = n
               PROVE  Wins(low, hig, Tree[<<low, hig>>])
    OBVIOUS
  <2>1. Tree[<<low, hig>>] = Node(Tree, <<low, hig>>)
    BY TreeDef DEF Ranges
  <2>2. CASE hig - low > 1
    <3> DEFINE h == Half(low, hig)
    <3>1. /\ h \in Nat /\ h < hig - low /\ low + h \in Leaves /\ hig - h \in Leaves
          /\ low < low + h /\ hig - h < hig /\ hig - h <= low + h + 1
      BY <2>2, Halves
    <3>2. Tree[<<low, hig>>] = Better(Tree[<<low, low + h>>], Tree[<<hig - h, hig>>])
      BY <2>1, <2>2 DEF Node, Half
    <3> HIDE DEF h
    <3>3. /\ low \in Nat /\ hig \in Nat /\ low + h \in Nat /\ hig - h \in Nat
          /\ (low + h) - low = h /\ hig - (hig - h) = h /\ low <= low + h /\ hig - h <= hig
          /\ low + h <= hig /\ low <= hig - h
      BY <1>0, <3>1
    <3>4. Right(h)
      BY <1>1, <3>1
    <3>5. Wins(low, low + h, Tree[<<low, low + h>>])
      BY <3>1, <3>3, <3>4
    <3>6. Wins(hig - h, hig, Tree[<<hig - h, hig>>])
      BY <3>1, <3>3, <3>4
    <3> HIDE DEF Right
    <3> QED BY <3>1, <3>2, <3>3, <3>5, <3>6, BetterOfHalves
  <2>3. CASE ~(hig - low > 1)
    <3>1. Tree[<<low, hig>>] = Better(Leaf(low), Leaf(hig))
      BY <2>1, <2>3 DEF Node
    <3>2. \A j : Leaf(j).level \in Nat
      BY LeafLevels
    <3>3. low \in Nat /\ hig \in Nat /\ hig <= low + 1
      BY <1>0, <2>3
    <3>4. Wins(low, low, Leaf(low)) /\ Wins(hig, hig, Leaf(hig))
      BY <3>2, <3>3 DEF Wins
    <3> HIDE DEF Right
    <3> QED BY <3>1, <3>3, <3>4, BetterOfHalves
  <2> QED BY <2>2, <2>3
<1> HIDE DEF Right
<1>2. Wrong = {}
  <2> SUFFICES ASSUME Wrong # {}
               PROVE  FALSE
    OBVIOUS
  <2>1. PICK n \in Wrong : \A m \in Nat : m < n => m \notin Wrong
    BY LeastNat
  <2> QED BY <1>1, <2>1
<1>3. ASSUME NEW low \in Leaves, NEW hig \in Leaves, low <= hig
      PROVE  Wins(low, hig, Tree[<<low, hig>>])
  <2>1. hig - low \in Nat
    BY <1>0, <1>3
  <2>2. Right(hig - low)
    BY <1>2, <2>1
  <2> QED BY <1>3, <2>2 DEF Right
<1> QED BY <1>3

\* The root yields the winner of all.
LEMMA WinnerWins ==
  ASSUME PrioType
  PROVE  Wins(0, PLIC_IRQ_NUM - 1, Winner)
<1>1. 0 \in Leaves /\ PLIC_IRQ_NUM - 1 \in Leaves /\ 0 <= PLIC_IRQ_NUM - 1
  BY PlicAssumption DEF Leaves
<1> QED BY <1>1, TreeWins DEF Winner

\* It is a source that asks, or 0, and the one the property names.
LEMMA WinnerAsks ==
  ASSUME PrioType
  PROVE  /\ Winner.id \in asking \union {0} /\ Winner.level \in Nat
         /\ TreePicksHighest
<1>1. PICK k \in Leaves : /\ Winner = Leaf(k)
                          /\ \A j \in Leaves : /\ Leaf(j).level <= Leaf(k).level
                                               /\ j < k => Leaf(j).level < Leaf(k).level
  BY WinnerWins DEF Wins, Leaves
<1>2. Winner.id \in asking \union {0} /\ Winner.level \in Nat
  BY <1>1, LeafLevels DEF Leaf
<1>3. /\ \A i \in asking : i \in Leaves /\ i # 0 /\ i \in Nat /\ prio[i] \in Nat
      /\ 0 \in Leaves /\ 0 \notin asking /\ k \in Nat
  BY PlicAssumption DEF PrioType, Leaves
<1>4. \A i \in asking : Leaf(i).level = prio[i] /\ Leaf(i).id = i
  BY DEF Leaf
<1>5. \A i : i \notin asking => Leaf(i).level = 0 /\ Leaf(i).id = 0
  BY DEF Leaf
<1> DEFINE best == {i \in asking : prio[i] > 0 /\ \A j \in asking : prio[j] <= prio[i]}
<1>6. CASE Leaf(k).level = 0
  <2>1. k = 0
    <3>1. k # 0 => Leaf(0).level < 0
      BY <1>1, <1>3, <1>6
    <3> QED BY <1>3, <1>5, <3>1
  <2>2. best = {}
    BY <1>1, <1>3, <1>4, <1>6
  <2> QED BY <1>1, <1>2, <1>3, <1>5, <2>1, <2>2 DEF TreePicksHighest
<1>7. CASE Leaf(k).level # 0
  <2>1. k \in asking /\ Winner.id = k
    BY <1>1, <1>4, <1>5, <1>7
  <2>2. k \in best
    BY <1>1, <1>3, <1>4, <1>7, <2>1
  <2>3. \A i \in best : k <= i
    BY <1>1, <1>3, <1>4, <2>1
  <2>4. best \subseteq Nat
    BY <1>3
  <2> HIDE DEF best
  <2>5. \A x \in best : (\A y \in best : x <= y) => x = k
    BY <1>3, <2>2, <2>3, <2>4
  <2>6. (CHOOSE x \in best : \A y \in best : x <= y) = k
    BY <2>2, <2>3, <2>5
  <2>7. Min(best) = k
    BY <2>6 DEF Min
  <2> QED BY <1>2, <2>1, <2>2, <2>7 DEF TreePicksHighest, best
<1> QED BY <1>6, <1>7
-----------------------------------------------------------------------------
(* The claim register against the pipeline of the tree.                         *)

\* What is claimed may still be in the pipeline, in its first stage in the clock after
\* the claim and in its last one clock more.  Software that does not nest claims holds
\* the source whose completion is accepted, and no gateway but its is closed.
ClaimInv ==
  /\ HeldIsClosed
  /\ \A i \in asking : gw[i] = "claim" \/ (gw[i] = "comp" /\ since = 1)
  /\ id # 0 => gw[id] = "claim" \/ (gw[id] = "comp" /\ since <= 2)
  /\ ~nested => held \subseteq {id_clam} /\ \A i \in Sources : gw[i] = "comp" => i \in held

PlicInv == TypeOK /\ EdgeInv /\ ClaimInv

\* A clock of Next, for cases by what the APB does in it.
LEMMA NextIsClock ==
  ASSUME TypeOK, Next
  PROVE  \E now \in SUBSET Sources, claim \in BOOLEAN, comp \in held \union {0},
            enables \in SUBSET Sources :
           /\ Clock(now, claim, comp, enables)
           /\ claim => (nested \/ held = {}) /\ comp = 0
           /\ claim \/ comp # 0 => since = GAP
<1>1. PICK now \in SUBSET Sources : Idle(now) \/ Claim(now) \/ Complete(now) \/ Enable(now)
  BY DEF Next
<1>2. ie \in SUBSET Sources
  BY DEF TypeOK
<1>3. CASE Idle(now)
  BY <1>2, <1>3 DEF Idle
<1>4. CASE Claim(now)
  BY <1>2, <1>4 DEF Claim
<1>5. CASE Complete(now)
  BY <1>2, <1>5 DEF Complete
<1>6. CASE Enable(now)
  BY <1>6 DEF Enable
<1> QED BY <1>1, <1>3, <1>4, <1>5, <1>6

\* A clock keeps the types.
LEMMA ClockTypes ==
  ASSUME TypeOK, EdgeInv', NEW now \in SUBSET Sources, NEW claim \in BOOLEAN,
         NEW comp \in held \union {0}, NEW enables \in SUBSET Sources,
         Clock(now, claim, comp, enables)
  PROVE  TypeOK'
<1>1. PrioType
  BY PlicAssumption DEF TypeOK, PrioType
<1>2. Winner.id \in Sources \union {0} /\ Winner.level \in Nat
  BY <1>1, WinnerAsks DEF PrioType
<1>3. /\ line' \subseteq Sources /\ dec' \subseteq EDGE /\ ie' \subseteq Sources
      /\ prio' \in Priorities /\ nested' \in NESTED
  BY DEF Clock, TypeOK
<1>4. /\ gw' \in [Sources -> {"idle", "claim", "comp"}] /\ cnt' \in [Sources -> 0 .. TNM]
      /\ owed' \in [Sources -> Int]
  BY PlicAssumption DEF EdgeInv
<1>5. /\ asking' \subseteq Sources
      /\ id' \in Sources \union {0} /\ id_clam' \in Sources \union {0} /\ irq' \in BOOLEAN
  BY <1>2 DEF Clock, TypeOK, Exceeds
<1>6. since' \in 0 .. GAP
  <2>1. since \in 0 .. GAP /\ GAP \in Nat /\ GAP >= 1
    BY PlicAssumption DEF TypeOK
  <2>2. Min({since + 1, GAP}) = IF since + 1 < GAP THEN since + 1 ELSE GAP
    BY <2>1, MinOfTwo
  <2> QED BY <2>1, <2>2 DEF Clock
<1>7. held' \subseteq Sources
  BY DEF Clock, TypeOK
<1> QED BY <1>3, <1>4, <1>5, <1>6, <1>7 DEF TypeOK

\* A clock keeps the claim register and the pipeline together; software that does not
\* nest claims opens the gateway it completes.
LEMMA ClockClaims ==
  ASSUME PlicInv, TypeOK', NEW now \in SUBSET Sources, NEW claim \in BOOLEAN,
         NEW comp \in held \union {0}, NEW enables \in SUBSET Sources,
         Clock(now, claim, comp, enables),
         claim => (nested \/ held = {}) /\ comp = 0, claim \/ comp # 0 => since = GAP
  PROVE  /\ ClaimInv'
         /\ ~nested => \A i \in held \ held' : gw[i] = "comp" /\ gw'[i] = "idle"
<1>1. /\ \A i \in Sources : gw[i] \in {"idle", "claim", "comp"}
      /\ id \in Sources \union {0} /\ 0 \notin Sources /\ held \subseteq Sources
      /\ asking \subseteq Sources /\ GAP \in Nat /\ GAP >= 2 /\ since \in Nat
  BY PlicAssumption DEF PlicInv, TypeOK
<1>2. /\ \A i \in held : gw[i] = "comp"
      /\ \A i \in asking : gw[i] = "claim" \/ (gw[i] = "comp" /\ since = 1)
      /\ id # 0 => gw[id] = "claim" \/ (gw[id] = "comp" /\ since <= 2)
      /\ ~nested => held \subseteq {id_clam} /\ \A i \in Sources : gw[i] = "comp" => i \in held
  BY DEF PlicInv, ClaimInv, HeldIsClosed
<1>3. /\ \A i \in Sources : gw'[i] = Gateway(i, now, claim, comp)
      /\ asking' = {i \in Sources : i \in ie /\ gw[i] = "claim"}
      /\ id' = Winner.id /\ nested' = nested
      /\ id_clam' = IF claim THEN id ELSE id_clam
      /\ claim \/ comp # 0 => since' = 1
      /\ held' = (IF claim /\ id # 0 THEN held \union {id} ELSE held) \ {comp}
  BY DEF Clock, Asks
<1>4. Winner.id \in asking \union {0}
  BY PlicAssumption, WinnerAsks DEF PlicInv, TypeOK, PrioType
<1>5. since' <= since + 1
  <2>1. Min({since + 1, GAP}) = IF since + 1 < GAP THEN since + 1 ELSE GAP
    BY <1>1, MinOfTwo
  <2> QED BY <1>1, <2>1 DEF Clock
<1>6. CASE claim
  <2>1. /\ comp = 0 /\ since # 1 /\ since' = 1 /\ id_clam' = id
        /\ held' = (held \union {id}) \ {0}
    BY <1>1, <1>3, <1>6
  <2>2. id # 0 => id \in Sources /\ gw'[id] = "comp"
    BY <1>1, <1>2, <1>3, <1>6, <2>1 DEF Gateway, Completes
  <2>3. \A i \in Sources : gw[i] = "comp" => gw'[i] = "comp"
    BY <1>1, <1>3, <2>1 DEF Gateway, Completes
  <2>4. \A i \in Sources : gw[i] = "claim" => gw'[i] = "claim" \/ gw'[i] = "comp"
    BY <1>3 DEF Gateway
  <2>5. \A i \in Sources : i # id /\ gw[i] # "comp" => gw'[i] # "comp"
    BY <1>3 DEF Gateway
  <2>6. HeldIsClosed'
    BY <1>1, <1>2, <2>1, <2>2, <2>3 DEF HeldIsClosed
  <2>7. \A i \in asking' : gw'[i] = "claim" \/ (gw'[i] = "comp" /\ since' = 1)
    BY <1>3, <2>1, <2>4
  <2>8. id' # 0 => gw'[id'] = "claim" \/ (gw'[id'] = "comp" /\ since' <= 2)
    <3>1. id' # 0 => id' \in asking /\ id' \in Sources
      BY <1>1, <1>3, <1>4
    <3>2. since' <= 2
      BY <2>1
    <3>3. id' # 0 => gw[id'] = "claim"
      BY <1>2, <2>1, <3>1
    <3> QED BY <2>4, <3>1, <3>2, <3>3
  <2>9. ~nested => held = {}
    BY <1>6
  <2>10. ~nested => /\ held' \subseteq {id_clam'}
                    /\ \A i \in Sources : gw'[i] = "comp" => i \in held'
    BY <1>1, <1>2, <2>1, <2>5, <2>9
  <2> QED BY <1>3, <2>6, <2>7, <2>8, <2>9, <2>10 DEF ClaimInv
<1>7. CASE ~claim
  <2>1. id_clam' = id_clam /\ held' = held \ {comp}
    BY <1>3, <1>7
  <2>2. \A i \in Sources : gw[i] = "claim" => gw'[i] = "claim"
    BY <1>3, <1>7 DEF Gateway
  <2>3. \A i \in Sources : gw'[i] = "comp" => gw[i] = "comp"
    BY <1>1, <1>3, <1>7 DEF Gateway
  <2>4. \A i \in Sources : i # comp /\ gw[i] = "comp" => gw'[i] = "comp"
    BY <1>3 DEF Gateway, Completes
  <2>5. HeldIsClosed'
    BY <1>1, <1>2, <2>1, <2>4 DEF HeldIsClosed
  <2>6. \A i \in asking' : gw'[i] = "claim"
    BY <1>3, <2>2
  <2>7. id' # 0 => gw'[id'] = "claim" \/ (gw'[id'] = "comp" /\ since' <= 2)
    <3> SUFFICES ASSUME id' # 0
                 PROVE  gw'[id'] = "claim" \/ (gw'[id'] = "comp" /\ since' <= 2)
      OBVIOUS
    <3>1. id' \in asking /\ id' \in Sources
      BY <1>1, <1>3, <1>4
    <3>2. CASE gw[id'] = "claim"
      BY <2>2, <3>1, <3>2
    <3>3. CASE gw[id'] = "comp" /\ since = 1
      <4>1. comp = 0 /\ since' <= 2
        BY <1>1, <1>5, <3>3
      <4> QED BY <1>1, <2>4, <3>1, <3>3, <4>1
    <3> QED BY <1>2, <3>1, <3>2, <3>3
  <2>8. ASSUME ~nested
        PROVE  /\ held' \subseteq {id_clam'} /\ \A i \in Sources : gw'[i] = "comp" => i \in held'
               /\ \A i \in held \ held' : gw[i] = "comp" /\ gw'[i] = "idle"
    <3>1. CASE comp = 0
      BY <1>1, <1>2, <2>1, <2>3, <2>8, <3>1
    <3>2. CASE comp # 0
      <4>1. comp \in held /\ comp = id_clam /\ comp \in Sources /\ gw[comp] = "comp"
        BY <1>1, <1>2, <2>8, <3>2
      <4>2. gw'[comp] = "idle"
        BY <1>3, <1>7, <4>1 DEF Gateway, Completes
      <4> QED BY <1>2, <2>1, <2>3, <2>8, <4>1, <4>2
    <3> QED BY <3>1, <3>2
  <2> QED BY <1>3, <2>5, <2>6, <2>7, <2>8 DEF ClaimInv
<1> QED BY <1>6, <1>7

\* Every step keeps the invariant and does to the claimed sources what it should.
LEMMA PlicStep ==
  ASSUME PlicInv, [Next]_vars
  PROVE  /\ PlicInv'
         /\ ~nested => \A i \in held \ held' : gw[i] = "comp" /\ gw'[i] = "idle"
<1>1. EdgeInv'
  BY EdgeStep DEF PlicInv
<1>2. CASE Next
  <2>1. PICK now \in SUBSET Sources, claim \in BOOLEAN, comp \in held \union {0},
             enables \in SUBSET Sources :
          /\ Clock(now, claim, comp, enables)
          /\ claim => (nested \/ held = {}) /\ comp = 0
          /\ claim \/ comp # 0 => since = GAP
    BY <1>2, NextIsClock DEF PlicInv
  <2>2. TypeOK'
    BY <1>1, <2>1, ClockTypes DEF PlicInv
  <2> QED BY <1>1, <2>1, <2>2, ClockClaims DEF PlicInv
<1>3. CASE UNCHANGED vars
  <2>1. TypeOK' /\ ClaimInv'
    BY <1>3 DEF vars, PlicInv, TypeOK, ClaimInv, HeldIsClosed
  <2> QED BY <1>1, <1>3, <2>1 DEF vars, PlicInv
<1> QED BY <1>2, <1>3

\* The reset state satisfies it.
LEMMA PlicInit ==
  ASSUME Init
  PROVE  PlicInv
<1>1. EdgeInv
  BY PlicAssumption DEF Init, EdgeInv, Counted
<1>2. TypeOK
  <2>1. /\ gw \in [Sources -> {"idle", "claim", "comp"}] /\ cnt \in [Sources -> 0 .. TNM]
        /\ owed \in [Sources -> Int]
    BY <1>1, PlicAssumption DEF EdgeInv
  <2>2. since \in 0 .. GAP
    BY PlicAssumption DEF Init
  <2>3. irq \in BOOLEAN /\ prio \in Priorities /\ nested \in NESTED /\ ie \subseteq Sources
    BY Zenon DEF Init
  <2>4. /\ line \subseteq Sources /\ dec \subseteq EDGE /\ asking \subseteq Sources
        /\ id \in Sources \union {0} /\ id_clam \in Sources \union {0} /\ held \subseteq Sources
    BY DEF Init
  <2> QED BY <2>1, <2>2, <2>3, <2>4 DEF TypeOK
<1>3. ClaimInv
  BY PlicAssumption DEF Init, ClaimInv, HeldIsClosed
<1> QED BY <1>1, <1>2, <1>3 DEF PlicInv

\* So it holds always.
LEMMA PlicInvariant == Spec => []PlicInv
<1>1. PlicInv /\ [Next]_vars => PlicInv'
  BY PlicStep
<1> QED BY <1>1, PlicInit, PTL DEF Spec

\* Every register and every history variable keeps its type.
THEOREM TypeCorrect == Spec => []TypeOK
<1>1. PlicInv => TypeOK
  BY DEF PlicInv
<1> QED BY <1>1, PlicInvariant, PTL

\* The tree picks the smallest of the sources with the highest priority, for any number
\* of leaves.
THEOREM TreeIsRight == Spec => []TreePicksHighest
<1>1. PlicInv => TreePicksHighest
  BY PlicAssumption, WinnerAsks DEF PlicInv, TypeOK, PrioType
<1> QED BY <1>1, PlicInvariant, PTL

\* What a claim names is pending, although it was computed two clocks before, if software
\* does not nest claims or leaves another clock between two accesses.
THEOREM ClaimsArePending ==
  ASSUME TRUE \in NESTED => GAP > 2
  PROVE  Spec => ClaimIsPending
<1>1. ASSUME PlicInv, NEW now \in SUBSET Sources, Claim(now), id # 0
      PROVE  gw[id] = "claim"
  <2>1. since = GAP /\ (nested \/ held = {}) /\ id \in Sources /\ GAP \in Nat
    BY <1>1, PlicAssumption DEF Claim, PlicInv, TypeOK
  <2>2. /\ gw[id] = "claim" \/ (gw[id] = "comp" /\ since <= 2)
        /\ ~nested => (gw[id] = "comp" => id \in held)
    BY <1>1, <2>1 DEF PlicInv, ClaimInv
  <2>3. ~nested \/ GAP > 2
    BY <1>1, PlicAssumption DEF PlicInv, TypeOK
  <2> QED BY <2>1, <2>2, <2>3
<1>2. PlicInv /\ [Next]_vars
        => [\A now \in SUBSET Sources : Claim(now) /\ id # 0 => gw[id] = "claim"]_vars
  BY <1>1
<1> QED BY <1>2, PlicInvariant, PTL DEF Spec, ClaimIsPending

\* A source software serves is closed, whatever it claims and completes meanwhile.
THEOREM ServedIsClosed == Spec => []HeldIsClosed
<1>1. PlicInv => HeldIsClosed
  BY DEF PlicInv, ClaimInv
<1> QED BY <1>1, PlicInvariant, PTL

\* Software that does not nest claims opens the gateway of what it completes.
THEOREM CompletionsReopen == Spec => CompletionReopens
<1>1. PlicInv /\ [Next]_vars
        => [~nested => \A i \in held \ held' : gw[i] = "comp" /\ gw'[i] = "idle"]_vars
  BY PlicStep
<1> QED BY <1>1, PlicInvariant, PTL DEF Spec, CompletionReopens
=============================================================================
