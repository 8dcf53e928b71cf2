--------------------- MODULE MaintainerCheckout_proofs ----------------------
(* Proofs about MaintainerCheckout, for any integrators and faults: an export or a *)
(* check next to them does not disturb them, nor they the kit.                     *)
EXTENDS MaintainerCheckout, RegistryIntegration_proofs

-----------------------------------------------------------------------------
(* The composition implements the integrations alone. *)

\* A check or an export is a stutter of the integrations: it writes none of their files.
THEOREM CheckoutIntegrates == CheckoutSpec => Spec
<1>1. CheckoutInit => Init
  BY DEF CheckoutInit
<1>2. [CheckoutNext]_checkoutVars => [Next]_vars
  BY DEF CheckoutNext, checkoutVars
<1> QED
  BY <1>1, <1>2, PTL DEF CheckoutSpec, Spec

\* So an integration that passes stays integrated, whatever else the maintainers run.
THEOREM CheckoutKeepsIntegrated ==
  ASSUME SERIAL = TRUE
  PROVE  CheckoutSpec => []PassMeansIntegrated
BY CheckoutIntegrates, PassedStaysIntegrated, PTL

\* And an integration keeps the documented promise next to them.
THEOREM CheckoutKeepsPromise ==
  ASSUME SERIAL = TRUE, FAULTS \subseteq {"copy", "replace"}
  PROVE  CheckoutSpec => KeepsIntegrationPromise
BY CheckoutIntegrates, IntegrationKeepsPromise, PTL

-----------------------------------------------------------------------------
(* The check reads three files one by one, and compares with the version the     *)
(* registry had when it read that.  The filelist is written last and restored     *)
(* never: it changes to a version only when all three files are of it.  The rtl    *)
(* changes to a version the filelist has only when the registry has it as well, or *)
(* when it is restored; then either the registry was restored before the check     *)
(* read it, or the rtl was of that version when it did.                            *)

\* An attempt that fails has not replaced the last file.
FilelistIsLast ==
  \A p \in Integrators :
    pc[p] \in {"replacing", "restoring", "removing", "undone"} => replaced[p] <= Rtl

\* p has replaced the rtl and not yet put it back.
RtlReplaced(p) ==
  /\ replaced[p] = Rtl
  /\ pc[p] = "replacing" \/ (pc[p] = "restoring" /\ step[p] <= Registry)

\* Then the rtl is the staged one, and so is the registry unless it is back already.
RtlIsStaged ==
  \A p \in Integrators : RtlReplaced(p) =>
    file[Rtl] = staged[p] /\ file[Registry] \in {staged[p], base[p][Registry]}

\* Whatever the check has still to read, it passes only if all files agreed before.
CheckInv ==
  /\ checker \in {"loaded", "rtl"} => expected # Absent
  /\ checker = "loaded" /\ file[Filelist] = expected /\ expected \notin agreed =>
       /\ file[Rtl] # expected
       /\ \A p \in Integrators :
            RtlReplaced(p) /\ base[p][Rtl] = expected => base[p][Registry] = expected
  /\ checker = "rtl" /\ file[Filelist] = expected => expected \in agreed
  /\ CheckPassMeansAgreed

\* Every step of an integrator keeps the filelist for the end.
LEMMA FilelistStep ==
  ASSUME TypeOK, AtomicInv, FilelistIsLast, [Next]_vars
  PROVE  FilelistIsLast'
<1>0. CASE UNCHANGED vars
  BY <1>0 DEF vars, FilelistIsLast
<1> SUFFICES ASSUME NEW p \in Integrators, Act(p)
             PROVE  FilelistIsLast'
  BY <1>0 DEF Next
<1> DEFINE Late == {"replacing", "restoring", "removing", "undone"}
<1>1. \A q \in Integrators \ {p} : pc'[q] = pc[q] /\ replaced'[q] = replaced[q]
  BY DEF Act, Stage, Refuse, FrameTest, Copy, Replace, Fails, Restore, Remove, Turn, Report, Escape,
         End, GoTo, TypeOK, locals
<1>2. pc[p] \in {"testing", "copying"} => replaced[p] = 0
  BY DEF AtomicInv, Active
<1>3. SUFFICES pc'[p] \in Late => replaced'[p] <= Rtl
  BY <1>1 DEF FilelistIsLast
<1>4. CASE Replace(p)
  <2>1. replaced'[p] = step[p] + 1 /\ (pc'[p] \in Late => step[p] + 1 # Filelist)
    BY <1>4 DEF Replace, Turn, GoTo, TypeOK
  <2>2. step[p] \in 0 .. 2
    BY DEF TypeOK
  <2> QED BY <2>1, <2>2 DEF Filelist, Rtl
<1>5. CASE ~Replace(p)
  <2>1. pc'[p] \in Late => /\ replaced'[p] = replaced[p]
                           /\ pc[p] \in {"copying", "replacing", "restoring", "removing"}
    BY <1>5 DEF Act, Stage, Refuse, FrameTest, Copy, Fails, Restore, Remove, Turn, Report, Escape,
                End, GoTo, TypeOK, locals, Ended
  <2> QED BY <1>2, <2>1 DEF FilelistIsLast, Rtl
<1> QED BY <1>4, <1>5

\* What the three steps that write a file do to it.
LEMMA Writes ==
  ASSUME TypeOK, AtomicInv, FilelistIsLast, NEW p \in Integrators,
         Replace(p) \/ Restore(p) \/ Remove(p)
  PROVE  /\ pc[p] \in Active /\ step[p] \in 0 .. 2 /\ replaced[p] \in 0 .. 2
         /\ \A f \in Files : Between(p, f)
         /\ Replace(p) => \A f \in Files : file'[f] = IF f = step[p] + 1 THEN staged[p] ELSE file[f]
         /\ Restore(p) => \A f \in Files : file'[f] = IF f = step[p] + 1 /\ backup[p][f] # Absent
                                                        THEN backup[p][f] ELSE file[f]
         /\ Remove(p) => \A f \in Files : file'[f] = file[f] \/ file'[f] = Absent
<1>1. pc[p] \in {"replacing", "restoring", "removing"} /\ step[p] \in 0 .. 2
  BY DEF Replace, Restore, Remove, Turn, TypeOK
<1>2. step[p] + 1 \in Files
  BY <1>1, FilesAreThree
<1>3. replaced[p] \in 0 .. 2
  BY <1>1 DEF FilelistIsLast, TypeOK, Rtl
<1>4. \A f \in Files : Between(p, f)
  BY <1>1 DEF AtomicInv, Active
<1>5. Replace(p) => \A f \in Files : file'[f] = IF f = step[p] + 1 THEN staged[p] ELSE file[f]
  BY <1>2 DEF Replace, TypeOK
<1>6. Restore(p) => \A f \in Files : file'[f] = IF f = step[p] + 1 /\ backup[p][f] # Absent
                                                  THEN backup[p][f] ELSE file[f]
  BY <1>2 DEF Restore, TypeOK
<1>7. Remove(p) => \A f \in Files : file'[f] = file[f] \/ file'[f] = Absent
  BY <1>2 DEF Remove, TypeOK
<1> QED BY <1>1, <1>3, <1>4, <1>5, <1>6, <1>7 DEF Active

\* A step that changes the filelist to some version leaves all three files of it.
LEMMA FilelistAgrees ==
  ASSUME TypeOK, AtomicInv, FilelistIsLast,
         NEW p \in Integrators, Replace(p) \/ Restore(p) \/ Remove(p),
         file'[Filelist] # Absent, file'[Filelist] # file[Filelist]
  PROVE  \A f \in Files : file'[f] = file'[Filelist]
<1>1. Registry = 1 /\ Rtl = 2 /\ Filelist = 3 /\ Files = {1, 2, 3}
  BY FilesAreThree DEF Registry, Rtl, Filelist
<1>2. step[p] \in 0 .. 2 /\ replaced[p] \in 0 .. 2 /\ \A f \in Files : Between(p, f)
  BY Writes
<1>3. CASE Replace(p)
  <2>1. \A f \in Files : file'[f] = IF f = step[p] + 1 THEN staged[p] ELSE file[f]
    BY <1>3, Writes
  <2>2. \A f \in Files : file[f] = IF f <= step[p] THEN staged[p] ELSE base[p][f]
    BY <1>2, <1>3 DEF Replace, Turn, Between
  <2>3. step[p] = 2
    BY <1>1, <1>2, <2>1
  <2>4. \A f \in Files : f = step[p] + 1 \/ f <= step[p]
    BY <1>1, <2>3
  <2>5. \A f \in Files : file'[f] = staged[p]
    BY <2>1, <2>2, <2>4
  <2> QED BY <1>1, <2>5
<1>4. CASE Restore(p)
  <2>1. Between(p, Filelist) /\ pc[p] = "restoring"
    BY <1>1, <1>2, <1>4 DEF Restore, Turn
  <2>2. file[Filelist] = base[p][Filelist] /\ backup[p][Filelist] \in {base[p][Filelist], Absent}
    BY <1>1, <1>2, <2>1 DEF Between
  <2>3. file'[Filelist] \in {file[Filelist], backup[p][Filelist]}
    BY <1>1, <1>4, Writes
  <2> QED BY <2>2, <2>3
<1>5. CASE Remove(p)
  BY <1>1, <1>5, Writes
<1> QED BY <1>3, <1>4, <1>5

\* A step that changes the rtl to some version leaves the registry of it, or restores
\* the rtl after the registry.
LEMMA RtlAgrees ==
  ASSUME TypeOK, UsableInv, AtomicInv, FilelistIsLast,
         NEW p \in Integrators, Replace(p) \/ Restore(p) \/ Remove(p),
         file'[Rtl] # Absent, file'[Rtl] # file[Rtl]
  PROVE  /\ file'[Filelist] = file[Filelist]
         /\ \/ file'[Registry] = file'[Rtl]
            \/ /\ RtlReplaced(p)
               /\ file'[Rtl] = base[p][Rtl] /\ file'[Registry] = base[p][Registry]
<1>1. Registry = 1 /\ Rtl = 2 /\ Filelist = 3 /\ Files = {1, 2, 3}
  BY FilesAreThree DEF Registry, Rtl, Filelist
<1>2. step[p] \in 0 .. 2 /\ replaced[p] \in 0 .. 2 /\ \A f \in Files : Between(p, f)
  BY Writes
<1>3. CASE Replace(p)
  <2>1. \A f \in Files : file'[f] = IF f = step[p] + 1 THEN staged[p] ELSE file[f]
    BY <1>3, Writes
  <2>2. \A f \in Files : file[f] = IF f <= step[p] THEN staged[p] ELSE base[p][f]
    BY <1>2, <1>3 DEF Replace, Turn, Between
  <2>3. step[p] = 1
    BY <1>1, <1>2, <2>1
  <2> QED BY <1>1, <2>1, <2>2, <2>3
<1>4. CASE Restore(p)
  <2>1. \A f \in Files : file'[f] = IF f = step[p] + 1 /\ backup[p][f] # Absent
                                      THEN backup[p][f] ELSE file[f]
    BY <1>4, Writes
  <2>2. step[p] = 1 /\ file'[Rtl] = backup[p][Rtl] /\ pc[p] = "restoring"
    BY <1>1, <1>2, <1>4, <2>1 DEF Restore, Turn
  <2>3. file'[Filelist] = file[Filelist] /\ file'[Registry] = file[Registry]
    BY <1>1, <2>1, <2>2
  <2>4. file'[Rtl] = base[p][Rtl] /\ Rtl <= replaced[p]
    BY <1>1, <1>2, <2>2 DEF Between
  <2>5. /\ backup[p][Registry] # Absent
        /\ file[Registry] = base[p][Registry] \/ step[p] < Registry \/ backup[p][Registry] = Absent
    <3>1. replaced[p] > 0
      BY <1>1, <1>2, <2>4
    <3>2. Registry \in Files
      BY <1>1
    <3> QED BY <1>2, <2>2, <3>1, <3>2 DEF UsableInv, RegistryBackedUp, Between
  <2>6. RtlReplaced(p)
    BY <1>1, <1>2, <2>2, <2>4 DEF RtlReplaced
  <2> QED BY <1>1, <2>2, <2>3, <2>4, <2>5, <2>6
<1>5. CASE Remove(p)
  BY <1>1, <1>5, Writes
<1> QED BY <1>3, <1>4, <1>5

\* Only replacing the rtl makes it replaced, and meanwhile the integrator's own account
\* of the files does not change.
LEMMA RtlStays ==
  ASSUME TypeOK, AtomicInv, NEW p \in Integrators, Act(p), NEW q \in Integrators, RtlReplaced(q)'
  PROVE  /\ base'[q] = base[q] /\ staged'[q] = staged[q]
         /\ RtlReplaced(q) \/ (q = p /\ Replace(p) /\ step[p] = 1)
<1>1. CASE q # p
  <2>1. /\ pc'[q] = pc[q] /\ replaced'[q] = replaced[q] /\ step'[q] = step[q]
        /\ base'[q] = base[q] /\ staged'[q] = staged[q]
    BY <1>1 DEF Act, Stage, Refuse, FrameTest, Copy, Replace, Fails, Restore, Remove, Turn, Report,
                Escape, End, GoTo, TypeOK, locals
  <2> QED BY <2>1 DEF RtlReplaced
<1>2. CASE q = p
  <2>1. /\ replaced'[p] = 2 /\ pc'[p] \in {"replacing", "restoring"}
        /\ pc'[p] = "restoring" => step'[p] <= 1
    BY <1>2 DEF RtlReplaced, Rtl, Registry
  <2>2. pc[p] \in {"testing", "copying"} => replaced[p] = 0
    BY DEF AtomicInv, Active
  <2>3. pc[p] = "replacing" => replaced[p] = step[p]
    BY FilesAreThree DEF AtomicInv, Active, Between
  <2>4. step[p] \in 0 .. 2
    BY DEF TypeOK
  <2>5. CASE Replace(p)
    <3>1. replaced'[p] = step[p] + 1 /\ UNCHANGED <<base, staged>>
      BY <2>5 DEF Replace, TypeOK
    <3> QED BY <1>2, <2>1, <2>4, <2>5, <3>1
  <2>6. CASE Fails(p)
    <3>1. /\ pc[p] \in {"copying", "replacing"} /\ UNCHANGED <<base, staged, replaced>>
      BY <2>6 DEF Fails
    <3> QED BY <1>2, <2>1, <2>2, <3>1 DEF RtlReplaced, Rtl
  <2>7. CASE Restore(p)
    <3>1. /\ pc[p] = "restoring" /\ UNCHANGED <<base, staged, replaced>>
          /\ pc'[p] = IF step[p] + 1 = 3 THEN "removing" ELSE "restoring"
          /\ step'[p] = IF step[p] + 1 = 3 THEN 0 ELSE step[p] + 1
      BY <2>7 DEF Restore, Turn, GoTo, TypeOK, Filelist
    <3>2. step[p] <= 1
      BY <2>1, <2>4, <3>1
    <3> QED BY <1>2, <2>1, <3>1, <3>2 DEF RtlReplaced, Rtl, Registry
  <2>8. CASE Copy(p)
    <3>1. pc[p] = "copying" /\ UNCHANGED replaced
      BY <2>8 DEF Copy, Turn
    <3> QED BY <2>1, <2>2, <3>1
  <2>9. CASE Stage(p) \/ Refuse(p) \/ FrameTest(p) \/ Remove(p) \/ Report(p) \/ Escape(p)
    BY <2>1, <2>9 DEF Stage, Refuse, FrameTest, Remove, Report, Escape, Turn, End, GoTo, TypeOK
  <2> QED BY <2>5, <2>6, <2>7, <2>8, <2>9 DEF Act
<1> QED BY <1>1, <1>2

\* A step that is none of the three writes no file.
LEMMA WritesOnly ==
  ASSUME NEW p \in Integrators, Act(p), ~(Replace(p) \/ Restore(p) \/ Remove(p))
  PROVE  file' = file
BY DEF Act, Stage, Refuse, FrameTest, Copy, Fails, Report, Escape, End, locals

\* Every step of a lone integrator keeps its account of the rtl.
LEMMA RtlStagedStep ==
  ASSUME SERIAL = TRUE, TypeOK, TypeOK', UsableInv, AtomicInv, FilelistIsLast, RtlIsStaged,
         [Next]_vars
  PROVE  RtlIsStaged'
<1>0. CASE UNCHANGED vars
  BY <1>0 DEF vars, RtlIsStaged, RtlReplaced
<1> SUFFICES ASSUME NEW p \in Integrators, Act(p), NEW q \in Integrators, RtlReplaced(q)'
             PROVE  file'[Rtl] = staged'[q] /\ file'[Registry] \in {staged'[q], base'[q][Registry]}
  BY <1>0 DEF Next, RtlIsStaged
<1>1. q = p
  <2>1. \A r \in Integrators \ {p} : pc'[r] \in Ended
    BY SoleActor DEF AtomicInv
  <2> QED BY <2>1 DEF RtlReplaced, Ended
<1>2. base'[p] = base[p] /\ staged'[p] = staged[p]
  BY <1>1, RtlStays
<1>3. Registry = 1 /\ Rtl = 2 /\ Filelist = 3 /\ Files = {1, 2, 3}
  BY FilesAreThree DEF Registry, Rtl, Filelist
<1>4. CASE Replace(p) /\ step[p] = 1
  <2>1. \A f \in Files : file'[f] = IF f = step[p] + 1 THEN staged[p] ELSE file[f]
    BY <1>4, Writes
  <2>2. \A f \in Files : file[f] = IF f <= step[p] THEN staged[p] ELSE base[p][f]
    BY <1>4, Writes DEF Replace, Turn, Between
  <2> QED BY <1>1, <1>2, <1>3, <1>4, <2>1, <2>2
<1>5. CASE RtlReplaced(p)
  <2>1. file[Rtl] = staged[p] /\ file[Registry] \in {staged[p], base[p][Registry]}
    BY <1>5 DEF RtlIsStaged
  <2>2. CASE Replace(p)
    <3>1. pc[p] = "replacing" /\ Between(p, Rtl)
      BY <1>3, <2>2, Writes DEF Replace, Turn
    <3>2. replaced[p] = step[p]
      BY <3>1 DEF Between
    <3>3. step[p] = 2
      BY <1>3, <1>5, <3>2 DEF RtlReplaced
    <3>4. pc'[p] # "replacing" /\ pc'[p] # "restoring"
      BY <1>3, <2>2, <3>3 DEF Replace, Turn, GoTo, TypeOK
    <3> QED BY <1>1, <3>4 DEF RtlReplaced
  <2>3. CASE Restore(p)
    <3>1. \A f \in Files : file'[f] = IF f = step[p] + 1 /\ backup[p][f] # Absent
                                        THEN backup[p][f] ELSE file[f]
      BY <2>3, Writes
    <3>2. step[p] \in 0 .. 2 /\ step[p] # 1 /\ (step[p] + 1 = 3 => pc'[p] = "removing")
      BY <1>1, <1>3, <2>3 DEF Restore, Turn, GoTo, TypeOK, RtlReplaced
    <3>3. step[p] = 0
      BY <1>1, <3>2 DEF RtlReplaced
    <3>4. backup[p][Registry] \in {base[p][Registry], Absent}
      BY <1>3, <2>3, Writes DEF Restore, Turn, Between
    <3> QED BY <1>1, <1>2, <1>3, <2>1, <3>1, <3>3, <3>4
  <2>4. CASE Remove(p)
    BY <1>5, <2>4 DEF Remove, Turn, RtlReplaced
  <2>5. CASE ~(Replace(p) \/ Restore(p) \/ Remove(p))
    BY <1>1, <1>2, <2>1, <2>5, WritesOnly
  <2> QED BY <2>2, <2>3, <2>4, <2>5
<1> QED BY <1>1, <1>4, <1>5, RtlStays

\* Files that agree are what the check would have called fresh.
LEMMA NowAgrees ==
  ASSUME TypeOK, NEW version, \A f \in Files : file[f] = version
  PROVE  version \in NowAgreed
<1>1. version \in Versions /\ Agreement = {version}
  BY FilesAreThree DEF TypeOK, Agreement
<1> QED BY <1>1 DEF NowAgreed

\* Every step of a lone integrator keeps the check's account.
LEMMA CheckSeesAll ==
  ASSUME SERIAL = TRUE, TypeOK, TypeOK', UsableInv, AtomicInv, FilelistIsLast, RtlIsStaged, CheckInv,
         Next, CheckSees
  PROVE  CheckInv'
<1> PICK p \in Integrators : Act(p)
  BY DEF Next
<1> DEFINE Writing == Replace(p) \/ Restore(p) \/ Remove(p)
<1>1. /\ UNCHANGED <<checker, expected>> /\ agreed \subseteq agreed'
      /\ checker \in {"loaded", "rtl"} => NowAgreed' \subseteq agreed'
  BY DEF CheckSees
<1>2. checker \in {"loaded", "rtl"} => expected # Absent
  BY DEF CheckInv
<1>3. ASSUME checker \in {"loaded", "rtl"}, \A f \in Files : file'[f] = expected
      PROVE  expected \in agreed'
  <2>1. Agreement' = {expected} /\ expected \in Versions
    BY <1>3, FilesAreThree DEF Agreement, TypeOK
  <2>2. expected \in NowAgreed'
    BY <2>1 DEF NowAgreed
  <2> QED BY <1>1, <1>3, <2>2
<1>4. ASSUME checker \in {"loaded", "rtl"}, file'[Filelist] = expected, expected \notin agreed'
      PROVE  file[Filelist] = expected
  <2> SUFFICES ASSUME file'[Filelist] # file[Filelist]
               PROVE  FALSE
    BY <1>4
  <2>1. Writing
    BY WritesOnly
  <2>2. \A f \in Files : file'[f] = expected
    BY <1>2, <1>4, <2>1, FilelistAgrees
  <2> QED BY <1>3, <1>4, <2>2
<1>5. ASSUME checker = "loaded", file'[Filelist] = expected, expected \notin agreed'
      PROVE  /\ file'[Rtl] # expected
             /\ \A q \in Integrators :
                  RtlReplaced(q)' /\ base'[q][Rtl] = expected => base'[q][Registry] = expected
  <2>1. /\ file[Rtl] # expected
        /\ \A q \in Integrators :
             RtlReplaced(q) /\ base[q][Rtl] = expected => base[q][Registry] = expected
    BY <1>1, <1>4, <1>5 DEF CheckInv
  <2>2. file'[Rtl] # expected
    <3> SUFFICES ASSUME file'[Rtl] = expected
                 PROVE  FALSE
      OBVIOUS
    <3>1. Writing
      BY <2>1, WritesOnly
    <3>2. \/ file'[Registry] = expected
          \/ /\ RtlReplaced(p)
             /\ expected = base[p][Rtl] /\ file'[Registry] = base[p][Registry]
      BY <1>2, <1>5, <2>1, <3>1, RtlAgrees
    <3>3. file'[Registry] = expected
      BY <2>1, <3>2
    <3>4. \A f \in Files : file'[f] = expected
      BY <1>5, <3>3 DEF Files, Registry, Rtl, Filelist
    <3> QED BY <1>3, <1>5, <3>4
  <2>3. ASSUME NEW q \in Integrators, RtlReplaced(q)', base'[q][Rtl] = expected
        PROVE  base'[q][Registry] = expected
    <3>1. base'[q] = base[q] /\ (RtlReplaced(q) \/ (q = p /\ Replace(p) /\ step[p] = 1))
      BY <2>3, RtlStays
    <3>2. ~(q = p /\ Replace(p) /\ step[p] = 1)
      <4> SUFFICES ASSUME q = p, Replace(p), step[p] = 1
                   PROVE  FALSE
        OBVIOUS
      <4>1. pc[p] = "replacing" /\ Between(p, Rtl)
        BY FilesAreThree, Writes DEF Replace, Turn, Rtl
      <4>2. file[Rtl] = base[p][Rtl]
        BY <4>1 DEF Between, Rtl
      <4> QED BY <2>1, <2>3, <3>1, <4>2
    <3> QED BY <2>1, <2>3, <3>1, <3>2
  <2> QED BY <2>2, <2>3
<1>6. checker = "rtl" /\ file'[Filelist] = expected => expected \in agreed'
  BY <1>1, <1>4 DEF CheckInv
<1>7. checker = "passed" => expected \in agreed'
  BY <1>1 DEF CheckInv, CheckPassMeansAgreed
<1> QED BY <1>1, <1>2, <1>5, <1>6, <1>7 DEF CheckInv, CheckPassMeansAgreed

\* And so does every step of the check.
LEMMA CheckReads ==
  ASSUME TypeOK, UsableInv, AtomicInv, RtlIsStaged, CheckInv, CheckNext, UNCHANGED vars
  PROVE  CheckInv'
<1>1. file' = file /\ base' = base /\ \A q \in Integrators : RtlReplaced(q)' <=> RtlReplaced(q)
  BY DEF vars, RtlReplaced
<1>2. CASE CheckLoads
  <2>1. checker' = "loaded" /\ expected' = file[Registry] /\ agreed' = NowAgreed
    BY <1>2 DEF CheckLoads
  <2>2. expected' # Absent
    BY <2>1 DEF UsableInv, RegistryStaysUsable
  <2>3. file[Rtl] = expected' /\ file[Filelist] = expected' => expected' \in NowAgreed
    BY <2>1, NowAgrees DEF Files, Registry, Rtl, Filelist
  <2>4. ASSUME file[Rtl] # expected', NEW q \in Integrators, RtlReplaced(q)
        PROVE  base[q][Registry] = expected'
    BY <2>1, <2>4 DEF RtlIsStaged
  <2> QED BY <1>1, <2>1, <2>2, <2>3, <2>4 DEF CheckInv, CheckPassMeansAgreed
<1>3. CASE CheckStale
  BY <1>3 DEF CheckStale, CheckInv, CheckPassMeansAgreed
<1>4. CASE CheckRtl
  BY <1>1, <1>4 DEF CheckRtl, CheckInv, CheckPassMeansAgreed
<1>5. CASE CheckFilelist
  BY <1>1, <1>5 DEF CheckFilelist, CheckInv, CheckPassMeansAgreed
<1> QED BY <1>2, <1>3, <1>4, <1>5 DEF CheckNext

\* A check that passed tells of a state the checkout was in while it ran, although it
\* reads one file after the other and an integration may replace or restore them in
\* between, fail in any way and be interrupted anywhere.
THEOREM ChecksTellTheTruth ==
  ASSUME SERIAL = TRUE
  PROVE  CheckoutSpec => []CheckPassMeansAgreed
<1> DEFINE Known == TypeOK /\ UsableInv /\ AtomicInv
           Account == FilelistIsLast /\ RtlIsStaged /\ CheckInv
<1>1. CheckoutSpec => []Known
  BY CheckoutIntegrates, Atomic, PTL
<1>2. CheckoutInit => Account
  BY DEF CheckoutInit, CheckInit, Init, FilelistIsLast, RtlIsStaged, RtlReplaced, CheckInv,
         CheckPassMeansAgreed
<1>3. Known /\ Known' /\ Account /\ [CheckoutNext]_checkoutVars => Account'
  <2> SUFFICES ASSUME Known, Known', Account, [CheckoutNext]_checkoutVars
               PROVE  Account'
    OBVIOUS
  <2>1. [Next]_vars
    BY DEF CheckoutNext, checkoutVars
  <2>2. FilelistIsLast' /\ RtlIsStaged'
    BY <2>1, FilelistStep, RtlStagedStep
  <2>3. CheckInv'
    <3>1. CASE UNCHANGED <<vars, checkVars>>
      BY <3>1 DEF vars, checkVars, CheckInv, CheckPassMeansAgreed, RtlReplaced
    <3>2. CASE Next /\ CheckSees
      BY <3>2, CheckSeesAll
    <3>3. CASE CheckNext /\ UNCHANGED vars
      BY <3>3, CheckReads
    <3> QED BY <3>1, <3>2, <3>3 DEF CheckoutNext, checkoutVars
  <2> QED BY <2>2, <2>3
<1>4. Account => CheckPassMeansAgreed
  BY DEF CheckInv
<1> QED
  BY <1>1, <1>2, <1>3, <1>4, PTL DEF CheckoutSpec

-----------------------------------------------------------------------------
(* The kit: what each step of the export has brought when the next is due. *)

BroughtBy(here) ==
  CASE here = "making" -> {}
    [] here = "files" -> {"directory"}
    [] here = "trees" -> {"directory", "files"}
    [] here = "docs" -> {"directory", "files", "trees"}
    [] here = "passed" -> Parts \ {"left"}
    [] OTHER -> {"directory", "files", "trees", "docs"}

BlankBefore(here) ==
  CASE here = "rtl" -> {Registry}
    [] here = "filelist" -> {Registry, Rtl}
    [] here \in {"metadata", "passed"} -> Files
    [] OTHER -> {}

KitInv ==
  /\ kit \in [Parts -> Ages] /\ generated \in [Files -> {"absent", "blank", "users"}]
  /\ export = "making" => kit["directory"] = "old" \/ \A part \in Parts : kit[part] = "absent"
  /\ export \in (Steps \union {"passed"}) \ {"making"} =>
       \A part \in Parts : kit[part] = IF part \in BroughtBy(export) THEN "new" ELSE "absent"
  /\ \A f \in BlankBefore(export) : generated[f] = "blank"

\* a file is absent, blank or users'
LEMMA ContentType == ASSUME NEW version PROVE Content(version) \in {"absent", "blank", "users"}
BY DEF Content

\* A step of the export that copies or writes one part keeps the account.
LEMMA ExportStepKeeps ==
  ASSUME KitInv, NEW here, NEW next, NEW part \in Parts,
         ExportStep(here, next, part),
         here \in Steps \ {"making"} \/ \A p \in Parts : kit[p] = "absent",
         next \in (Steps \union {"passed"}) \ {"making"},
         here \in Steps,
         BroughtBy(next) = BroughtBy(here) \union {part}
  PROVE  /\ kit' \in [Parts -> Ages] /\ export' = next
         /\ \A p \in Parts : kit'[p] = IF p \in BroughtBy(next) THEN "new" ELSE "absent"
<1>1. \A p \in Parts : kit[p] = IF p \in BroughtBy(here) THEN "new" ELSE "absent"
  BY DEF KitInv, BroughtBy, ExportStep
<1>2. export' = next /\ kit' = [kit EXCEPT ![part] = "new"]
  BY DEF ExportStep
<1>3. kit' \in [Parts -> Ages]
  BY <1>2 DEF KitInv, Ages
<1> QED
  BY <1>1, <1>2, <1>3 DEF KitInv

\* Every step of the export, in any checkout, keeps it.
LEMMA KitStep ==
  ASSUME KitInv, [CheckoutNext]_checkoutVars
  PROVE  KitInv'
<1> USE DEF Registry, Rtl, Filelist, Files
<1>1. CASE UNCHANGED kitVars
  BY <1>1 DEF KitInv, kitVars
<1>2. CASE Clean
  <2>1. PICK kept \in {{}} \union {{"directory", part} : part \in {p \in Parts : kit[p] # "absent"}} :
          /\ kit' = [part \in Parts |-> IF part \in kept THEN "old" ELSE "absent"]
          /\ generated' = [f \in Files |->
               IF (IF f = Registry THEN "files" ELSE "trees") \in kept THEN generated[f] ELSE "absent"]
    BY <1>2 DEF Clean
  <2>2. kit'["directory"] = "old" \/ \A part \in Parts : kit'[part] = "absent"
    BY <2>1 DEF Parts
  <2>3. kit' \in [Parts -> Ages] /\ generated' \in [Files -> {"absent", "blank", "users"}]
    BY <2>1 DEF KitInv, Ages
  <2>4. export' = "making"
    BY <1>2 DEF Clean
  <2> QED
    BY <2>2, <2>3, <2>4 DEF KitInv, Steps, BlankBefore
<1>3. CASE MakeDirectory
  <2>1. \A p \in Parts : kit[p] = "absent"
    BY <1>3 DEF MakeDirectory, ExportStep, KitInv
  <2>2. BroughtBy("files") = BroughtBy("making") \union {"directory"}
    BY DEF BroughtBy
  <2>3. /\ kit' \in [Parts -> Ages] /\ export' = "files"
        /\ \A p \in Parts : kit'[p] = IF p \in BroughtBy("files") THEN "new" ELSE "absent"
    BY <1>3, <2>1, <2>2, ExportStepKeeps DEF MakeDirectory, Steps, Parts
  <2> QED
    BY <1>3, <2>3 DEF MakeDirectory, KitInv, BlankBefore
<1>4. CASE CopyFiles
  <2>1. BroughtBy("trees") = BroughtBy("files") \union {"files"}
    BY DEF BroughtBy
  <2>2. /\ kit' \in [Parts -> Ages] /\ export' = "trees"
        /\ \A p \in Parts : kit'[p] = IF p \in BroughtBy("trees") THEN "new" ELSE "absent"
    BY <1>4, <2>1, ExportStepKeeps DEF CopyFiles, Steps, Parts
  <2>3. generated' \in [Files -> {"absent", "blank", "users"}]
    BY <1>4, ContentType DEF CopyFiles, KitInv
  <2> QED
    BY <2>2, <2>3 DEF KitInv, BlankBefore
<1>5. CASE CopyTrees
  <2>1. BroughtBy("docs") = BroughtBy("trees") \union {"trees"}
    BY DEF BroughtBy
  <2>2. /\ kit' \in [Parts -> Ages] /\ export' = "docs"
        /\ \A p \in Parts : kit'[p] = IF p \in BroughtBy("docs") THEN "new" ELSE "absent"
    BY <1>5, <2>1, ExportStepKeeps DEF CopyTrees, Steps, Parts
  <2>3. generated' \in [Files -> {"absent", "blank", "users"}]
    BY <1>5, ContentType DEF CopyTrees, KitInv
  <2> QED
    BY <2>2, <2>3 DEF KitInv, BlankBefore
<1>6. CASE CopyDocs
  <2>1. BroughtBy("registry") = BroughtBy("docs") \union {"docs"}
    BY DEF BroughtBy
  <2>2. /\ kit' \in [Parts -> Ages] /\ export' = "registry"
        /\ \A p \in Parts : kit'[p] = IF p \in BroughtBy("registry") THEN "new" ELSE "absent"
    BY <1>6, <2>1, ExportStepKeeps DEF CopyDocs, Steps, Parts
  <2> QED
    BY <1>6, <2>2 DEF CopyDocs, KitInv, BlankBefore
<1>7. ASSUME NEW here \in Steps, NEW f \in Files, NEW next \in Steps,
             ResetGenerated(here, f, next),
             here \notin {"making", "files", "trees", "docs"}, next # "making",
             BroughtBy(next) = BroughtBy(here),
             BlankBefore(next) = BlankBefore(here) \union {f}
      PROVE  KitInv'
  <2>1. /\ export = here /\ export' = next /\ kit' = kit
        /\ generated' = [generated EXCEPT ![f] = "blank"]
    BY <1>7 DEF ResetGenerated
  <2>2. generated' \in [Files -> {"absent", "blank", "users"}]
    BY <2>1 DEF KitInv
  <2>3. \A g \in BlankBefore(next) : generated'[g] = "blank"
    BY <1>7, <2>1 DEF KitInv, BlankBefore
  <2>4. \A part \in Parts : kit'[part] = IF part \in BroughtBy(next) THEN "new" ELSE "absent"
    BY <1>7, <2>1 DEF KitInv
  <2> QED
    BY <1>7, <2>1, <2>2, <2>3, <2>4 DEF KitInv
<1>8. CASE ResetGenerated("registry", Registry, "rtl")
  BY <1>8, <1>7 DEF Steps, BroughtBy, BlankBefore
<1>9. CASE ResetGenerated("rtl", Rtl, "filelist")
  BY <1>9, <1>7 DEF Steps, BroughtBy, BlankBefore
<1>10. CASE ResetGenerated("filelist", Filelist, "metadata")
  BY <1>10, <1>7 DEF Steps, BroughtBy, BlankBefore
<1>11. CASE WriteMetadata
  <2>1. BroughtBy("passed") = BroughtBy("metadata") \union {"metadata"}
    BY DEF BroughtBy, Parts
  <2>2. /\ kit' \in [Parts -> Ages] /\ export' = "passed"
        /\ \A p \in Parts : kit'[p] = IF p \in BroughtBy("passed") THEN "new" ELSE "absent"
    BY <1>11, <2>1, ExportStepKeeps DEF WriteMetadata, Steps, Parts
  <2>3. \A f \in Files : generated'[f] = "blank"
    BY <1>11 DEF WriteMetadata, ExportStep, KitInv, BlankBefore
  <2> QED
    BY <1>11, <2>2, <2>3 DEF WriteMetadata, KitInv, BlankBefore
<1>12. CASE ExportFails
  BY <1>12 DEF ExportFails, KitInv, Steps, BlankBefore
<1>13. CASE UseKit
  <2>1. kit' \in [Parts -> Ages]
    BY <1>13 DEF UseKit, KitInv, Ages
  <2> QED
    BY <1>13, <2>1 DEF UseKit, KitInv, Steps, BlankBefore
<1> QED
  BY <1>1, <1>2, <1>3, <1>4, <1>5, <1>6, <1>8, <1>9, <1>10, <1>11, <1>12, <1>13
  DEF CheckoutNext, checkoutVars, KitNext

\* The account holds from the start.
LEMMA KitAccount == CheckoutSpec => []KitInv
<1>1. CheckoutInit => KitInv
  BY DEF CheckoutInit, KitInit, KitInv, Ages, Steps, BlankBefore, Registry, Rtl, Filelist, Files
<1> QED
  BY <1>1, KitStep, PTL DEF CheckoutSpec

\* The registry, the rtl and the filelist of a kit that was exported register no design,
\* whatever was integrated meanwhile.  (Nothing is said of other files in it.)
THEOREM KitIsBlank == CheckoutSpec => []ExportedIsBlank
<1>1. KitInv => ExportedIsBlank
  BY DEF KitInv, ExportedIsBlank, BlankBefore, Registry, Rtl, Filelist, Files
<1> QED
  BY <1>1, KitAccount, PTL

\* A kit that was exported holds nothing of an earlier one.
THEOREM KitIsClean == CheckoutSpec => []ExportedIsClean
<1>1. KitInv => ExportedIsClean
  BY DEF KitInv, ExportedIsClean, BroughtBy
<1> QED
  BY <1>1, KitAccount, PTL
=============================================================================
