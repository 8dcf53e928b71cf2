--------------------- MODULE RegistryIntegration_proofs ---------------------
(* Proofs about RegistryIntegration, for any number of integrators, any slots *)
(* they ask for and any failures.                                             *)
EXTENDS RegistryIntegration, TLAPS

\* commit_registry's tuple has three files, the registry first.
LEMMA FilesAreThree == Files = {1, 2, 3} /\ Registry \in Files
BY DEF Files, Registry, Filelist

\* Ending keeps every type.
LEMMA EndTyped ==
  ASSUME TypeOK, NEW p \in Integrators, NEW verdict \in Ended, End(p, verdict)
  PROVE  TypeOK'
BY FilesAreThree DEF TypeOK, End, GoTo, NoBackup, Versions

\* A checkout nobody is integrating into is well typed.
LEMMA TypeInit == Init => TypeOK
BY FilesAreThree DEF Init, TypeOK, NoBackup, Versions, Ended

\* Every step of an integrator keeps every type.
LEMMA TypeStep ==
  ASSUME TypeOK, [Next]_vars
  PROVE  TypeOK'
<1>0. CASE UNCHANGED vars
  BY <1>0 DEF vars, TypeOK
<1> SUFFICES ASSUME NEW p \in Integrators, Act(p)
             PROVE  TypeOK'
  BY <1>0 DEF Next
<1>1. CASE Stage(p)
  BY <1>1, FilesAreThree DEF Stage, GoTo, TypeOK, Versions, Active
<1>2. CASE Refuse(p)
  BY <1>2 DEF Refuse, GoTo, TypeOK, Ended, locals
<1>3. CASE FrameTest(p)
  BY <1>3, EndTyped DEF FrameTest, GoTo, TypeOK, Active, Ended, locals
<1>4. CASE Copy(p)
  <2>1. step[p] + 1 \in Files /\ step'[p] \in 0 .. 2
    BY <1>4, FilesAreThree DEF Copy, Turn, TypeOK, Filelist
  <2> QED BY <1>4, <2>1 DEF Copy, Turn, GoTo, TypeOK, Active
<1>5. CASE Replace(p)
  <2>1. step[p] + 1 \in Files /\ step'[p] \in 0 .. 2
    BY <1>5, FilesAreThree DEF Replace, Turn, TypeOK, Filelist
  <2>2. staged[p] \in Versions
    BY DEF TypeOK, Versions
  <2> QED BY <1>5, <2>1, <2>2, FilesAreThree DEF Replace, Turn, GoTo, TypeOK, Active
<1>6. CASE Fails(p)
  BY <1>6 DEF Fails, GoTo, TypeOK, Active
<1>7. CASE Restore(p)
  <2>1. step[p] + 1 \in Files /\ step'[p] \in 0 .. 2
    BY <1>7, FilesAreThree DEF Restore, Turn, TypeOK, Filelist
  <2> QED BY <1>7, <2>1 DEF Restore, Turn, GoTo, TypeOK, Active
<1>8. CASE Remove(p)
  <2>1. step[p] + 1 \in Files /\ step'[p] \in 0 .. 2
    BY <1>8, FilesAreThree DEF Remove, Turn, TypeOK, Filelist
  <2> QED BY <1>8, <2>1 DEF Remove, Turn, GoTo, TypeOK, Active, Versions
<1>9. CASE Report(p)
  BY <1>9, EndTyped DEF Report, Ended
<1>10. CASE Escape(p)
  BY <1>10, EndTyped DEF Escape, Ended
<1> QED BY <1>1, <1>2, <1>3, <1>4, <1>5, <1>6, <1>7, <1>8, <1>9, <1>10 DEF Act

\* Type correctness of the integration flow.
THEOREM TypeCorrect == Spec => []TypeOK
BY TypeInit, TypeStep, PTL DEF Spec

-----------------------------------------------------------------------------
(* The permanent files stay usable, whatever overlaps and whatever fails.      *)

\* A fresh checkout has an empty registry and nothing in flight.
LEMMA UsableInit == Init => UsableInv
<1> SUFFICES ASSUME Init PROVE UsableInv
  OBVIOUS
<1>1. Distinct({}) /\ Distinct(Absent)
  BY DEF Distinct
<1>2. {} # Absent
  BY IntegrationAssumption
<1>3. RegistryStaysUsable
  BY <1>1, <1>2 DEF Init, RegistryStaysUsable
<1>4. VersionsDistinct
  BY <1>1 DEF Init, VersionsDistinct, NoBackup
<1>5. RegistryBackedUp
  BY DEF Init, RegistryBackedUp
<1>6. StartsClean
  BY DEF Init, StartsClean
<1> QED BY <1>3, <1>4, <1>5, <1>6 DEF UsableInv

\* A process that ends takes its versions with it.
LEMMA EndUsable ==
  ASSUME TypeOK, UsableInv, NEW p \in Integrators, NEW verdict \in Ended, End(p, verdict)
  PROVE  UsableInv'
<1>1. RegistryStaysUsable'
  BY DEF UsableInv, RegistryStaysUsable, End, Distinct
<1>2. VersionsDistinct'
  BY FilesAreThree DEF UsableInv, VersionsDistinct, End, Distinct, NoBackup, TypeOK
<1>3. RegistryBackedUp'
  BY DEF UsableInv, RegistryBackedUp, End, GoTo, TypeOK, Ended
<1>4. StartsClean'
  BY DEF UsableInv, StartsClean, End, GoTo, TypeOK
<1> QED BY <1>1, <1>2, <1>3, <1>4 DEF UsableInv

\* No loop counter survives the process that used it.
LEMMA CleanStep ==
  ASSUME TypeOK, StartsClean, [Next]_vars
  PROVE  StartsClean'
<1> USE DEF StartsClean, Ended, TypeOK
<1>0. CASE UNCHANGED vars
  BY <1>0 DEF vars
<1> SUFFICES ASSUME NEW p \in Integrators, Act(p)
             PROVE  StartsClean'
  BY <1>0 DEF Next
<1>1. ASSUME NEW verdict, End(p, verdict) PROVE StartsClean'
  BY <1>1 DEF End, GoTo
<1>2. CASE Stage(p) \/ Refuse(p)
  BY <1>2 DEF Stage, Refuse, MayStart, GoTo, locals
<1>3. CASE FrameTest(p)
  BY <1>3, <1>1 DEF FrameTest, GoTo, locals
<1>4. CASE Copy(p) \/ Restore(p) \/ Remove(p) \/ Replace(p)
  BY <1>4 DEF Copy, Restore, Remove, Replace, Turn, GoTo
<1>5. CASE Fails(p)
  BY <1>5 DEF Fails, GoTo
<1>6. CASE Report(p) \/ Escape(p)
  BY <1>6, <1>1 DEF Report, Escape
<1> QED BY <1>2, <1>3, <1>4, <1>5, <1>6 DEF Act

\* No step of any integrator, however it overlaps or fails, breaks the registry.
LEMMA UsableStep ==
  ASSUME TypeOK, UsableInv, [Next]_vars
  PROVE  UsableInv'
<1>c. StartsClean'
  BY CleanStep DEF UsableInv
<1>0. CASE UNCHANGED vars
  BY <1>c, <1>0 DEF vars, UsableInv, RegistryStaysUsable, VersionsDistinct, RegistryBackedUp, Distinct
<1> SUFFICES ASSUME NEW p \in Integrators, Act(p)
             PROVE  UsableInv'
  BY <1>0 DEF Next
<1>1. CASE Stage(p)
  <2>1. Distinct(file[Registry] \union {p})
    BY <1>1, FilesAreThree, IntegrationAssumption
       DEF Stage, Conflicts, UsableInv, RegistryStaysUsable, Distinct
  <2>2. RegistryStaysUsable'
    BY <1>1 DEF Stage, UsableInv, RegistryStaysUsable, Distinct
  <2>3. VersionsDistinct'
    <3> SUFFICES ASSUME NEW q \in Integrators
                 PROVE  Distinct(staged'[q]) /\ \A f \in Files : Distinct(backup'[q][f])
      BY DEF VersionsDistinct, Distinct
    <3>1. staged'[q] = IF q = p THEN file[Registry] \union {p} ELSE staged[q]
      BY <1>1 DEF Stage, TypeOK
    <3>2. backup' = backup
      BY <1>1 DEF Stage
    <3> QED BY <2>1, <3>1, <3>2 DEF UsableInv, VersionsDistinct, Distinct
  <2>4. RegistryBackedUp'
    BY <1>1 DEF Stage, GoTo, UsableInv, RegistryBackedUp, TypeOK
  <2> QED BY <1>c, <2>2, <2>3, <2>4 DEF UsableInv
<1>2. CASE Refuse(p)
  BY <1>c, <1>2 DEF Refuse, GoTo, locals, TypeOK,
              UsableInv, RegistryStaysUsable, VersionsDistinct, RegistryBackedUp, Distinct
<1>3. CASE FrameTest(p)
  <2>1. CASE End(p, "rejected")
    BY <2>1, EndUsable DEF Ended
  <2>2. CASE GoTo(p, "copying") /\ UNCHANGED <<file, locals>>
    <3>1. UNCHANGED <<file, staged, step, backup, replaced>>
      BY <2>2 DEF locals
    <3>2. RegistryStaysUsable' /\ VersionsDistinct'
      BY <3>1 DEF UsableInv, RegistryStaysUsable, VersionsDistinct, Distinct
    <3>3. RegistryBackedUp'
      BY <1>3, <2>2, <3>1 DEF FrameTest, GoTo, TypeOK, UsableInv, RegistryBackedUp, StartsClean
    <3> QED BY <1>c, <3>2, <3>3 DEF UsableInv
  <2> QED BY <1>3, <2>1, <2>2 DEF FrameTest
<1>4. CASE Copy(p)
  <2>1. step[p] + 1 \in Files
    BY <1>4, FilesAreThree DEF Copy, Turn, TypeOK
  <2>2. RegistryStaysUsable'
    BY <1>4 DEF Copy, UsableInv, RegistryStaysUsable, Distinct
  <2>3. VersionsDistinct'
    <3> SUFFICES ASSUME NEW q \in Integrators, NEW f \in Files
                 PROVE  Distinct(staged[q])' /\ Distinct(backup[q][f])'
      BY FilesAreThree DEF VersionsDistinct
    <3>1. staged' = staged
      BY <1>4 DEF Copy
    <3>2. backup'[q][f] = IF q = p /\ f = step[p] + 1 THEN file[f] ELSE backup[q][f]
      BY <1>4, <2>1 DEF Copy, TypeOK
    <3> QED BY <3>1, <3>2 DEF UsableInv, VersionsDistinct, RegistryStaysUsable, Distinct
  <2>4. RegistryBackedUp'
    <3> SUFFICES ASSUME NEW q \in Integrators,
                        pc'[q] = "replacing" \/ replaced'[q] > 0
                          \/ (pc'[q] = "copying" /\ step'[q] > 0)
                 PROVE  backup'[q][Registry] # Absent
      BY DEF RegistryBackedUp
    <3>1. CASE q # p
      BY <1>4, <3>1 DEF Copy, Turn, GoTo, TypeOK, UsableInv, RegistryBackedUp
    <3>2. CASE q = p
      <4>1. CASE step[p] = 0
        BY <1>4, <2>1, <3>2, <4>1
           DEF Copy, Turn, TypeOK, UsableInv, RegistryStaysUsable, Registry
      <4>2. CASE step[p] # 0
        <5>1. backup[p][Registry] # Absent
          BY <1>4, <4>2 DEF Copy, Turn, TypeOK, UsableInv, RegistryBackedUp
        <5>2. step[p] + 1 # Registry
          BY <4>2 DEF TypeOK, Registry
        <5>3. backup'[p][Registry] = backup[p][Registry]
          BY <1>4, <2>1, <5>2, FilesAreThree DEF Copy, TypeOK
        <5> QED BY <3>2, <5>1, <5>3
      <4> QED BY <4>1, <4>2
    <3> QED BY <3>1, <3>2
  <2> QED BY <1>c, <2>2, <2>3, <2>4 DEF UsableInv
<1>5. CASE Replace(p)
  <2>1. step[p] + 1 \in Files
    BY <1>5, FilesAreThree DEF Replace, Turn, TypeOK
  <2>2. staged[p] # Absent
    BY IntegrationAssumption DEF TypeOK
  <2>3. \A f \in Files : file'[f] = IF f = step[p] + 1 THEN staged[p] ELSE file[f]
    BY <1>5, <2>1 DEF Replace, TypeOK
  <2>4. RegistryStaysUsable'
    BY <2>2, <2>3, FilesAreThree DEF UsableInv, RegistryStaysUsable, VersionsDistinct, Distinct
  <2>5. VersionsDistinct' /\ RegistryBackedUp'
    BY <1>5 DEF Replace, Turn, GoTo, TypeOK, UsableInv, VersionsDistinct, RegistryBackedUp, Distinct
  <2> QED BY <1>c, <2>4, <2>5 DEF UsableInv
<1>6. CASE Fails(p)
  BY <1>c, <1>6 DEF Fails, GoTo, TypeOK,
              UsableInv, RegistryStaysUsable, VersionsDistinct, RegistryBackedUp, Distinct
<1>7. CASE Restore(p)
  <2>1. step[p] + 1 \in Files
    BY <1>7, FilesAreThree DEF Restore, Turn, TypeOK
  <2>2. \A f \in Files : file'[f] = IF f = step[p] + 1 /\ backup[p][f] # Absent
                                      THEN backup[p][f] ELSE file[f]
    BY <1>7, <2>1 DEF Restore, TypeOK
  <2>3. RegistryStaysUsable'
    BY <2>2, FilesAreThree DEF UsableInv, RegistryStaysUsable, VersionsDistinct, Distinct
  <2>4. VersionsDistinct' /\ RegistryBackedUp'
    BY <1>7 DEF Restore, Turn, GoTo, TypeOK, UsableInv, VersionsDistinct, RegistryBackedUp, Distinct
  <2> QED BY <1>c, <2>3, <2>4 DEF UsableInv
<1>8. CASE Remove(p)
  <2>1. step[p] + 1 \in Files
    BY <1>8, FilesAreThree DEF Remove, Turn, TypeOK
  <2>2. \A f \in Files : file'[f] = IF f = step[p] + 1 /\ backup[p][f] = Absent /\ f <= replaced[p]
                                      THEN Absent ELSE file[f]
    BY <1>8, <2>1 DEF Remove, TypeOK
  <2>3. Registry <= replaced[p] => backup[p][Registry] # Absent
    BY DEF UsableInv, RegistryBackedUp, TypeOK, Registry
  <2>4. RegistryStaysUsable'
    BY <2>2, <2>3, FilesAreThree DEF UsableInv, RegistryStaysUsable, Distinct
  <2>5. VersionsDistinct' /\ RegistryBackedUp'
    BY <1>8 DEF Remove, Turn, GoTo, TypeOK, UsableInv, VersionsDistinct, RegistryBackedUp, Distinct
  <2> QED BY <1>c, <2>4, <2>5 DEF UsableInv
<1>9. CASE Report(p)
  BY <1>9, EndUsable DEF Report, Ended
<1>10. CASE Escape(p)
  BY <1>10, EndUsable DEF Escape, Ended
<1> QED BY <1>1, <1>2, <1>3, <1>4, <1>5, <1>6, <1>7, <1>8, <1>9, <1>10 DEF Act

\* The registry always exists and no permanent file ever gives one slot to two designs.
THEOREM RegistryAlwaysUsable == Spec => []RegistryStaysUsable
<1>1. UsableInv => RegistryStaysUsable
  BY DEF UsableInv
<1> QED BY <1>1, TypeInit, TypeStep, UsableInit, UsableStep, PTL DEF Spec

-----------------------------------------------------------------------------
(* Integrations that do not overlap.                                           *)

\* While one integrator acts, the others have ended.
LEMMA SoleActor ==
  ASSUME SERIAL = TRUE, TypeOK, OneAtATime, NEW p \in Integrators, Act(p)
  PROVE  /\ \A q \in Integrators \ {p} : pc[q] \in Ended /\ pc'[q] = pc[q]
         /\ OneAtATime'
<1>1. ASSUME NEW q \in Integrators \ {p} PROVE pc[q] \in Ended
  <2>1. CASE Stage(p) \/ Refuse(p)
    BY <2>1 DEF Stage, Refuse, MayStart
  <2>2. CASE pc[p] \in Active
    BY <2>2 DEF OneAtATime, TypeOK
  <2>3. Stage(p) \/ Refuse(p) \/ pc[p] \in Active
    BY DEF Act, FrameTest, Copy, Replace, Fails, Restore, Remove, Turn, Report, Escape, Active
  <2> QED BY <2>1, <2>2, <2>3
<1>2. ASSUME NEW q \in Integrators \ {p} PROVE pc'[q] = pc[q]
  BY DEF Act, Stage, Refuse, FrameTest, Copy, Replace, Fails, Restore, Remove, Turn, Report, Escape,
         End, GoTo, TypeOK
<1>3. Ended \intersect Active = {}
  BY DEF Ended, Active
<1> QED BY <1>1, <1>2, <1>3 DEF OneAtATime

(* What was integrated stays integrated, whatever fails. *)

\* Nobody has passed at first.
LEMMA PassInit == Init => PassInv
BY DEF Init, PassInv, OneAtATime, PassMeansIntegrated, Active

\* A lone integrator keeps every design that has passed in every file it writes.
LEMMA PassStep ==
  ASSUME SERIAL = TRUE, TypeOK, TypeOK', StartsClean, PassInv, [Next]_vars
  PROVE  PassInv'
<1>0. CASE UNCHANGED vars
  BY <1>0 DEF vars, PassInv, OneAtATime, PassMeansIntegrated, Passed, Covers, BackedUp
<1> SUFFICES ASSUME NEW p \in Integrators, Act(p)
             PROVE  PassInv'
  BY <1>0 DEF Next
<1>a. OneAtATime' /\ \A q \in Integrators \ {p} : pc'[q] = pc[q] /\ pc'[q] \notin Active
  BY SoleActor DEF PassInv, Ended, Active
<1>b. pc[p] # "pass"
  BY DEF Act, Stage, Refuse, MayStart, FrameTest, Copy, Replace, Fails, Restore, Remove, Turn,
         Report, Escape, Active
<1>c. Passed' = IF pc'[p] = "pass" THEN Passed \union {p} ELSE Passed
  BY <1>a, <1>b DEF Passed
<1>d. \A f \in Files : Passed # {} => file[f] # Absent /\ Passed \subseteq file[f]
  BY DEF PassInv, PassMeansIntegrated, Passed
<1> SUFFICES /\ \A f \in Files : Passed' # {} => file'[f] # Absent /\ Passed' \subseteq file'[f]
             /\ pc'[p] \in Active => Covers(p)'
  BY <1>a DEF PassInv, PassMeansIntegrated, Passed
<1>e. pc[p] \in Active => Covers(p)
  BY DEF PassInv
<1>1. CASE End(p, "rejected") \/ End(p, "broken")
  BY <1>1, <1>c, <1>d DEF End, GoTo, TypeOK, Active
<1>2. CASE pc[p] = "tidying" /\ End(p, "pass")
  <2>1. pc'[p] = "pass" /\ UNCHANGED file
    BY <1>2 DEF End, GoTo, TypeOK
  <2>2. p \in staged[p] /\ Passed \subseteq staged[p] /\ \A f \in Files : file[f] = staged[p]
    BY <1>2, <1>e DEF Covers, Active
  <2>3. staged[p] # Absent
    BY IntegrationAssumption DEF TypeOK
  <2> QED BY <1>c, <2>1, <2>2, <2>3 DEF Active
<1>3. CASE Stage(p)
  <2>1. /\ pc'[p] = "testing" /\ staged'[p] = file[Registry] \union {p}
        /\ UNCHANGED <<file, step, backup, replaced>>
    BY <1>3 DEF Stage, GoTo, TypeOK
  <2>2. replaced[p] = 0 /\ backup[p] = NoBackup
    BY <1>3 DEF Stage, MayStart, StartsClean
  <2>3. Passed \subseteq file[Registry]
    BY <1>d, FilesAreThree
  <2> QED BY <1>c, <1>d, <2>1, <2>2, <2>3 DEF Covers, BackedUp, NoBackup
<1>4. CASE Refuse(p)
  BY <1>4, <1>c, <1>d DEF Refuse, GoTo, TypeOK, Active, locals
<1> SUFFICES ASSUME pc[p] \in Active, pc'[p] \in Active, Passed' = Passed
             PROVE  /\ \A f \in Files :
                         Passed # {} => file'[f] # Absent /\ Passed \subseteq file'[f]
                    /\ Covers(p)'
  <2>1. FrameTest(p) \/ Copy(p) \/ Replace(p) \/ Fails(p) \/ Restore(p) \/ Remove(p) =>
          pc[p] \in Active /\ (pc'[p] \in Active \/ End(p, "rejected"))
    BY DEF FrameTest, Copy, Replace, Fails, Restore, Remove, Turn, GoTo, Active, TypeOK
  <2> QED BY <1>1, <1>2, <1>3, <1>4, <1>c, <2>1 DEF Act, Report, Escape, Active
<1>f. /\ p \in staged[p] /\ Passed \subseteq staged[p]
      /\ \A f \in Files : IF backup[p][f] # Absent THEN Passed \subseteq backup[p][f]
                                                  ELSE BackedUp(p, f) => Passed = {}
      /\ pc[p] \in {"testing", "copying"} => replaced[p] = 0
      /\ \A f \in Files : pc[p] = "replacing" /\ f <= step[p] => file[f] = staged[p]
  BY <1>e DEF Covers
<1>g. /\ step[p] \in {0, 1, 2} /\ replaced[p] \in {0, 1, 2, 3} /\ step'[p] \in {0, 1, 2}
      /\ Files = {1, 2, 3}
  BY FilesAreThree DEF TypeOK
<1>5. CASE FrameTest(p)
  <2>1. /\ pc[p] = "testing" /\ pc'[p] = "copying"
        /\ UNCHANGED <<file, staged, step, backup, replaced>>
    BY <1>5 DEF FrameTest, End, GoTo, locals, TypeOK, Active
  <2>2. step[p] = 0
    BY <2>1 DEF StartsClean
  <2>3. \A f \in Files : ~BackedUp(p, f)'
    BY <1>f, <2>1, <2>2, FilesAreThree DEF BackedUp
  <2> QED BY <1>d, <1>f, <2>1, <2>3 DEF Covers
<1>6. CASE Copy(p)
  <2>1. /\ pc[p] = "copying" /\ pc'[p] \in {"copying", "replacing"}
        /\ step[p] + 1 \in Files
        /\ pc'[p] = "copying" => step'[p] = step[p] + 1
        /\ pc'[p] = "replacing" => step[p] + 1 = 3 /\ step'[p] = 0
        /\ backup'[p] = [backup[p] EXCEPT ![step[p] + 1] = file[step[p] + 1]]
        /\ UNCHANGED <<file, staged, replaced>>
    BY <1>6, FilesAreThree DEF Copy, Turn, GoTo, TypeOK, Filelist
  <2>2. ASSUME NEW f \in Files
        PROVE  IF backup'[p][f] # Absent THEN Passed \subseteq backup'[p][f]
                                         ELSE BackedUp(p, f)' => Passed = {}
    <3>1. CASE f = step[p] + 1
      BY <1>d, <2>1, <3>1 DEF TypeOK
    <3>2. CASE f # step[p] + 1
      <4>1. backup'[p][f] = backup[p][f]
        BY <2>1, <3>2 DEF TypeOK
      <4>2. BackedUp(p, f)' => BackedUp(p, f)
        <5>1. pc'[p] = "copying" /\ f <= step'[p] => f <= step[p]
          BY <2>1, <3>2, <1>g
        <5>2. pc'[p] = "replacing" => f <= step[p]
          BY <2>1, <3>2, <1>g
        <5> QED BY <2>1, <5>1, <5>2 DEF BackedUp
      <4> QED BY <1>f, <4>1, <4>2
    <3> QED BY <3>1, <3>2
  <2>3. \A f \in Files : ~(pc'[p] = "replacing" /\ f <= step'[p])
    BY <2>1, FilesAreThree
  <2> QED BY <1>d, <1>f, <2>1, <2>2, <2>3 DEF Covers
<1>7. CASE Replace(p)
  <2>1. /\ pc[p] = "replacing" /\ pc'[p] \in {"replacing", "tidying"}
        /\ step[p] + 1 \in Files
        /\ pc'[p] = "replacing" => step'[p] = step[p] + 1
        /\ pc'[p] = "tidying" => step[p] + 1 = 3
        /\ file' = [file EXCEPT ![step[p] + 1] = staged[p]]
        /\ UNCHANGED <<staged, backup>>
    BY <1>7, FilesAreThree DEF Replace, Turn, GoTo, TypeOK, Filelist
  <2>2. staged[p] # Absent
    BY IntegrationAssumption DEF TypeOK
  <2>3. \A f \in Files : file'[f] = IF f = step[p] + 1 THEN staged[p] ELSE file[f]
    BY <2>1 DEF TypeOK
  <2>4. ASSUME NEW f \in Files, \/ pc'[p] = "replacing" /\ f <= step'[p]
                                \/ pc'[p] = "tidying"
        PROVE  file'[f] = staged[p]
    <3>1. f = step[p] + 1 \/ f <= step[p]
      BY <2>1, <2>4, <1>g
    <3> QED BY <1>f, <2>1, <2>3, <3>1
  <2>5. \A f \in Files : BackedUp(p, f)
    BY <2>1 DEF BackedUp
  <2> QED BY <1>d, <1>f, <2>1, <2>2, <2>3, <2>4, <2>5 DEF Covers
<1>8. CASE Fails(p)
  <2>1. /\ pc[p] \in {"copying", "replacing"} /\ pc'[p] = "restoring"
        /\ UNCHANGED <<file, staged, backup, replaced>>
    BY <1>8 DEF Fails, GoTo, TypeOK
  <2>2. \A f \in Files : BackedUp(p, f)' => BackedUp(p, f)
    BY <2>1 DEF BackedUp
  <2> QED BY <1>d, <1>f, <2>1, <2>2 DEF Covers
<1>9. CASE Restore(p) \/ Remove(p)
  <2>1. /\ pc[p] \in {"restoring", "removing"} /\ pc'[p] \in {"restoring", "removing", "undone"}
        /\ step[p] + 1 \in Files
        /\ UNCHANGED <<staged, backup, replaced>>
    BY <1>9, FilesAreThree DEF Restore, Remove, Turn, GoTo, TypeOK, Filelist
  <2>2. \A f \in Files : BackedUp(p, f)' <=> BackedUp(p, f)
    BY <2>1 DEF BackedUp
  <2>3. ASSUME NEW f \in Files
        PROVE  \/ file'[f] = file[f]
               \/ backup[p][f] # Absent /\ file'[f] = backup[p][f]
               \/ backup[p][f] = Absent /\ f <= replaced[p]
    BY <1>9, <2>1 DEF Restore, Remove, TypeOK
  <2>4. ASSUME NEW f \in Files, f <= replaced[p] PROVE BackedUp(p, f)
    <3>1. replaced[p] > 0
      BY <2>4, <1>g
    <3> QED BY <3>1 DEF BackedUp
  <2> QED BY <1>d, <1>f, <2>1, <2>2, <2>3, <2>4 DEF Covers
<1> QED BY <1>5, <1>6, <1>7, <1>8, <1>9 DEF Act, Stage, Refuse, MayStart, Report, Escape,
        Ended, End, GoTo, TypeOK, Active

\* Integrations that do not overlap: a design that was reported as integrated is in
\* all three files for good, whatever fails later and wherever the process is stopped.
THEOREM PassedStaysIntegrated ==
  ASSUME SERIAL = TRUE
  PROVE  Spec => []PassMeansIntegrated
<1>1. TypeOK /\ TypeOK' /\ UsableInv /\ PassInv /\ [Next]_vars => PassInv'
  BY PassStep DEF UsableInv
<1>2. PassInv => PassMeansIntegrated
  BY DEF PassInv
<1> QED BY <1>1, <1>2, TypeInit, TypeStep, UsableInit, UsableStep, PassInit, PTL DEF Spec

(* Failures in copying and replacing are undone completely. *)

\* Nobody is between two versions of the files at first.
LEMMA AtomicInit == Init => AtomicInv
BY DEF Init, AtomicInv, OneAtATime, Active

\* A lone integrator always knows which of its files is old and which is new.
LEMMA AtomicStep ==
  ASSUME SERIAL = TRUE, TypeOK, TypeOK', StartsClean, AtomicInv, [Next]_vars
  PROVE  AtomicInv'
<1>0. CASE UNCHANGED vars
  <2>1. ASSUME NEW q \in Integrators, NEW f \in Files, Between(q, f)
        PROVE  Between(q, f)'
    BY <1>0, <2>1 DEF vars, Between
  <2> QED BY <1>0, <2>1 DEF vars, AtomicInv, OneAtATime
<1> SUFFICES ASSUME NEW p \in Integrators, Act(p)
             PROVE  AtomicInv'
  BY <1>0 DEF Next
<1>a. OneAtATime /\ \A q \in Integrators \ {p} : pc'[q] \notin Active
  BY SoleActor DEF AtomicInv, Ended, Active
<1>b. OneAtATime'
  BY SoleActor DEF AtomicInv
<1> SUFFICES ASSUME pc'[p] \in Active
             PROVE  /\ staged'[p] = base'[p][Registry] \union {p}
                    /\ pc'[p] \in {"testing", "copying"} => replaced'[p] = 0
                    /\ \A f \in Files : Between(p, f)'
  BY <1>a, <1>b DEF AtomicInv
<1>e. ~Escape(p) /\ \A verdict \in Ended : ~End(p, verdict)
  BY DEF Escape, End, GoTo, Ended, Active, TypeOK
<1>1. CASE Stage(p)
  BY <1>1 DEF Stage, MayStart, GoTo, TypeOK, StartsClean, Between
<1>2. CASE Refuse(p)
  BY <1>2 DEF Refuse, GoTo, TypeOK, Active
<1>c. ~Stage(p) /\ ~Refuse(p) => pc[p] \in Active
  BY DEF Act, FrameTest, Copy, Replace, Fails, Restore, Remove, Turn, Report, Escape, Active
<1> SUFFICES ASSUME ~Stage(p), ~Refuse(p), pc[p] \in Active
             PROVE  /\ staged'[p] = base'[p][Registry] \union {p}
                    /\ pc'[p] \in {"testing", "copying"} => replaced'[p] = 0
                    /\ \A f \in Files : Between(p, f)'
  BY <1>1, <1>2, <1>c
<1>d. /\ staged[p] = base[p][Registry] \union {p}
      /\ pc[p] \in {"testing", "copying"} => replaced[p] = 0
      /\ \A f \in Files : Between(p, f)
  BY DEF AtomicInv
<1>3. CASE FrameTest(p)
  <2>1. /\ pc[p] = "testing" /\ pc'[p] = "copying"
        /\ UNCHANGED <<file, staged, step, backup, replaced, base>>
    BY <1>3, <1>e DEF FrameTest, GoTo, locals, TypeOK, Ended
  <2>2. step[p] = 0 /\ backup[p] = NoBackup
    BY <2>1 DEF StartsClean
  <2>3. ASSUME NEW f \in Files PROVE Between(p, f)'
    BY <1>d, <2>1, <2>2, FilesAreThree DEF Between, NoBackup
  <2> QED BY <1>d, <2>1, <2>3
<1>f. UNCHANGED <<staged, base>>
  BY <1>e, <1>3 DEF Act, FrameTest, Copy, Replace, Fails, Restore, Remove, Report, Ended, locals
<1>4. CASE Copy(p)
  <2>1. step[p] + 1 \in Files /\ step[p] \in 0 .. 2
    BY <1>4, FilesAreThree DEF Copy, Turn, TypeOK
  <2> SUFFICES ASSUME NEW f \in Files PROVE Between(p, f)'
    BY <1>d, <1>f, <1>4 DEF Copy, Turn, GoTo, TypeOK
  <2>2. backup'[p][f] = IF f = step[p] + 1 THEN file[f] ELSE backup[p][f]
    BY <1>4, <2>1 DEF Copy, TypeOK
  <2>3. file'[f] = file[f] /\ replaced'[p] = 0
    BY <1>4, <1>d DEF Copy, Turn
  <2>4. file[f] = base[p][f] /\ backup[p][f] = IF f <= step[p] THEN base[p][f] ELSE Absent
    BY <1>4, <1>d DEF Copy, Turn, Between
  <2>5. CASE step[p] + 1 = Filelist
    <3>1. pc'[p] = "replacing" /\ step'[p] = 0
      BY <1>4, <2>5 DEF Copy, Turn, GoTo, TypeOK
    <3>2. backup'[p][f] = base[p][f]
      BY <2>1, <2>2, <2>4, <2>5, FilesAreThree DEF Filelist
    <3> QED BY <1>f, <2>3, <2>4, <3>1, <3>2, FilesAreThree DEF Between
  <2>6. CASE step[p] + 1 # Filelist
    <3>1. pc'[p] = "copying" /\ step'[p] = step[p] + 1
      BY <1>4, <2>6 DEF Copy, Turn, GoTo, TypeOK
    <3>2. backup'[p][f] = IF f <= step'[p] THEN base[p][f] ELSE Absent
      BY <2>1, <2>2, <2>4, <3>1, FilesAreThree
    <3> QED BY <1>f, <2>3, <2>4, <3>1, <3>2 DEF Between
  <2> QED BY <2>5, <2>6
<1>5. CASE Replace(p)
  <2>1. step[p] + 1 \in Files /\ step[p] \in 0 .. 2
    BY <1>5, FilesAreThree DEF Replace, Turn, TypeOK
  <2> SUFFICES ASSUME NEW f \in Files PROVE Between(p, f)'
    BY <1>d, <1>f, <1>5 DEF Replace, Turn, GoTo, TypeOK
  <2>2. file'[f] = IF f = step[p] + 1 THEN staged[p] ELSE file[f]
    BY <1>5, <2>1 DEF Replace, TypeOK
  <2>3. backup'[p][f] = backup[p][f] /\ replaced'[p] = step[p] + 1
    BY <1>5 DEF Replace, TypeOK
  <2>4. backup[p][f] = base[p][f] /\ file[f] = IF f <= step[p] THEN staged[p] ELSE base[p][f]
    BY <1>5, <1>d DEF Replace, Turn, Between
  <2>5. CASE step[p] + 1 = Filelist
    <3>1. pc'[p] = "tidying"
      BY <1>5, <2>5 DEF Replace, Turn, GoTo, TypeOK
    <3>2. file'[f] = staged[p]
      BY <2>1, <2>2, <2>4, <2>5, FilesAreThree DEF Filelist
    <3> QED BY <1>f, <3>1, <3>2 DEF Between
  <2>6. CASE step[p] + 1 # Filelist
    <3>1. pc'[p] = "replacing" /\ step'[p] = step[p] + 1
      BY <1>5, <2>6 DEF Replace, Turn, GoTo, TypeOK
    <3>2. file'[f] = IF f <= step'[p] THEN staged[p] ELSE base[p][f]
      BY <2>1, <2>2, <2>4, <3>1, FilesAreThree
    <3> QED BY <1>f, <2>3, <2>4, <3>1, <3>2 DEF Between
  <2> QED BY <2>5, <2>6
<1>6. CASE Fails(p)
  <2>1. pc'[p] = "restoring" /\ step'[p] = 0 /\ UNCHANGED <<file, backup, replaced>>
    BY <1>6 DEF Fails, GoTo, TypeOK
  <2> SUFFICES ASSUME NEW f \in Files PROVE Between(p, f)'
    BY <1>d, <1>f, <2>1
  <2>2. CASE pc[p] = "copying"
    BY <1>d, <1>f, <2>1, <2>2 DEF Between
  <2>3. CASE pc[p] = "replacing"
    BY <1>d, <1>f, <2>1, <2>3, FilesAreThree DEF Between
  <2> QED BY <1>6, <2>2, <2>3 DEF Fails
<1>7. CASE Restore(p)
  <2>1. step[p] + 1 \in Files /\ step[p] \in 0 .. 2
    BY <1>7, FilesAreThree DEF Restore, Turn, TypeOK
  <2>2. UNCHANGED <<backup, replaced>> /\ pc[p] = "restoring"
    BY <1>7 DEF Restore, Turn
  <2>3. pc'[p] \in {"restoring", "removing"}
    BY <1>7 DEF Restore, Turn, GoTo, TypeOK
  <2> SUFFICES ASSUME NEW f \in Files PROVE Between(p, f)'
    BY <1>d, <1>f, <2>3
  <2>4. file'[f] = IF f = step[p] + 1 /\ backup[p][f] # Absent THEN backup[p][f] ELSE file[f]
    BY <1>7, <2>1 DEF Restore, TypeOK
  <2>5. /\ replaced[p] > 0 => backup[p][f] = base[p][f]
        /\ backup[p][f] \in {base[p][f], Absent}
        /\ \/ file[f] = base[p][f]
           \/ f <= replaced[p] /\ (step[p] < f \/ backup[p][f] = Absent)
    BY <1>d, <2>2 DEF Between
  <2>6. \/ file'[f] = base[p][f]
        \/ f <= replaced[p] /\ (step[p] + 1 < f \/ backup[p][f] = Absent)
    BY <2>1, <2>4, <2>5, FilesAreThree
  <2>7. CASE step[p] + 1 = Filelist
    <3>1. pc'[p] = "removing" /\ step'[p] = 0
      BY <1>7, <2>7 DEF Restore, Turn, GoTo, TypeOK
    <3>2. file'[f] = base[p][f] \/ (f <= replaced[p] /\ base[p][f] = Absent)
      <4>1. replaced[p] \in 0 .. 3
        BY DEF TypeOK
      <4>2. ~(step[p] + 1 < f)
        BY <2>7, FilesAreThree DEF Filelist
      <4>3. f <= replaced[p] => backup[p][f] = base[p][f]
        BY <2>5, <4>1, FilesAreThree
      <4> QED BY <2>6, <4>2, <4>3
    <3> QED BY <1>f, <2>2, <2>5, <3>1, <3>2, FilesAreThree DEF Between
  <2>8. CASE step[p] + 1 # Filelist
    <3>1. pc'[p] = "restoring" /\ step'[p] = step[p] + 1
      BY <1>7, <2>8 DEF Restore, Turn, GoTo, TypeOK
    <3> QED BY <1>f, <2>2, <2>5, <2>6, <3>1 DEF Between
  <2> QED BY <2>7, <2>8
<1>8. CASE Remove(p)
  <2>1. step[p] + 1 \in Files /\ step[p] \in 0 .. 2
    BY <1>8, FilesAreThree DEF Remove, Turn, TypeOK
  <2>2. UNCHANGED <<backup, replaced>> /\ pc[p] = "removing"
    BY <1>8 DEF Remove, Turn
  <2>3. pc'[p] \in {"removing", "undone"}
    BY <1>8 DEF Remove, Turn, GoTo, TypeOK
  <2> SUFFICES ASSUME NEW f \in Files PROVE Between(p, f)'
    BY <1>d, <1>f, <2>3
  <2>4. file'[f] = IF f = step[p] + 1 /\ backup[p][f] = Absent /\ f <= replaced[p]
                     THEN Absent ELSE file[f]
    BY <1>8, <2>1 DEF Remove, TypeOK
  <2>5. /\ replaced[p] > 0 => backup[p][f] = base[p][f]
        /\ \/ file[f] = base[p][f]
           \/ f <= replaced[p] /\ step[p] < f /\ base[p][f] = Absent
    BY <1>d, <2>2 DEF Between
  <2>9. replaced[p] \in 0 .. 3
    BY DEF TypeOK
  <2>6. \/ file'[f] = base[p][f]
        \/ f <= replaced[p] /\ step[p] + 1 < f /\ base[p][f] = Absent
    BY <2>1, <2>4, <2>5, <2>9, FilesAreThree
  <2>7. CASE step[p] + 1 = Filelist
    <3>1. pc'[p] = "undone"
      BY <1>8, <2>7 DEF Remove, Turn, GoTo, TypeOK
    <3>2. file'[f] = base[p][f]
      BY <2>1, <2>6, <2>7, FilesAreThree DEF Filelist
    <3> QED BY <1>f, <3>1, <3>2 DEF Between
  <2>8. CASE step[p] + 1 # Filelist
    <3>1. pc'[p] = "removing" /\ step'[p] = step[p] + 1
      BY <1>8, <2>8 DEF Remove, Turn, GoTo, TypeOK
    <3> QED BY <1>f, <2>2, <2>5, <2>6, <3>1 DEF Between
  <2> QED BY <2>7, <2>8
<1>9. CASE Report(p)
  BY <1>9, <1>e DEF Report, Ended
<1> QED BY <1>3, <1>4, <1>5, <1>6, <1>7, <1>8, <1>9, <1>e DEF Act

\* The atomicity invariant holds of integrations that do not overlap.
LEMMA Atomic ==
  ASSUME SERIAL = TRUE
  PROVE  Spec => [](TypeOK /\ UsableInv /\ AtomicInv)
<1>1. TypeOK /\ TypeOK' /\ UsableInv /\ AtomicInv /\ [Next]_vars => AtomicInv'
  BY AtomicStep DEF UsableInv
<1> QED BY <1>1, TypeInit, TypeStep, UsableInit, UsableStep, AtomicInit, PTL DEF Spec

(* The refinement of IntegrationPromise. *)

\* What the promise sees of the files.
visible == IF \E p \in Integrators : Undecided(p)
             THEN base[CHOOSE p \in Integrators : Undecided(p)] ELSE file

VisibleIs ==
  /\ \A p \in Integrators : Undecided(p) => visible = base[p]
  /\ (\A p \in Integrators : ~Undecided(p)) => visible = file

\* At most one integration is undecided, so what the promise sees is well defined.
LEMMA Visible == OneAtATime => VisibleIs
<1> SUFFICES ASSUME OneAtATime PROVE VisibleIs
  OBVIOUS
<1>1. \A p, q \in Integrators : Undecided(p) /\ Undecided(q) => p = q
  BY DEF OneAtATime, Undecided
<1> QED BY <1>1 DEF visible, VisibleIs

verdict(p) == CASE pc[p] \in {"tidying", "pass"} -> "pass"
                [] pc[p] \in {"rejected", "broken"} -> "failed"
                [] OTHER -> "none"

\* Nothing is integrated or reported at first.
LEMMA PromiseInit == Init => Promise!Init
<1> SUFFICES ASSUME Init PROVE Promise!Init
  OBVIOUS
<1>1. \A p \in Integrators : ~Undecided(p)
  BY DEF Init, Undecided, Active
<1> QED BY <1>1 DEF Init, Promise!Init

\* Every step of an integrator is a step of the promise or invisible to it.
LEMMA PromiseStep ==
  ASSUME SERIAL = TRUE, FAULTS \subseteq {"copy", "replace"}
  PROVE  TypeOK /\ TypeOK' /\ AtomicInv /\ AtomicInv' /\ [Next]_vars
           => [Promise!Next]_(Promise!integration)
<1> SUFFICES ASSUME TypeOK, TypeOK', AtomicInv, AtomicInv', [Next]_vars
             PROVE  \/ visible' = visible /\ \A p \in Integrators : verdict(p)' = verdict(p)
                    \/ \E p \in Integrators :
                         /\ \A q \in Integrators \ {p} : verdict(q)' = verdict(q)
                         /\ verdict(p) # "pass"
                         /\ \/ /\ verdict(p)' = "pass"
                               /\ visible' = [f \in Files |-> visible[Registry] \union {p}]
                            \/ verdict(p)' = "failed" /\ visible' = visible
                            \/ /\ verdict(p) = "failed" /\ verdict(p)' = "none"
                               /\ visible' = visible
  BY DEF Promise!Next, Promise!Pass, Promise!Fail, Promise!Retry, Promise!integration,
         visible, verdict
<1>0. CASE UNCHANGED vars
  BY <1>0 DEF vars, visible, verdict, Undecided
<1>1. CASE Next
  <2> PICK p \in Integrators : Act(p)
    BY <1>1 DEF Next
  <2>1. OneAtATime /\ OneAtATime'
    BY DEF AtomicInv
  <2>2. \A q \in Integrators \ {p} : pc[q] \in Ended /\ pc'[q] = pc[q]
    BY <2>1, SoleActor
  <2>3. \A q \in Integrators \ {p} : /\ verdict(q)' = verdict(q)
                                     /\ ~Undecided(q) /\ ~Undecided(q)'
    BY <2>2 DEF verdict, Undecided, Ended, Active
  <2>4. visible = IF Undecided(p) THEN base[p] ELSE file
    BY <2>1, <2>3, Visible DEF VisibleIs
  <2>5. visible' = IF Undecided(p)' THEN base'[p] ELSE file'
    <3>1. VisibleIs'
      BY <2>1, Visible, PTL
    <3> QED BY <2>3, <3>1 DEF VisibleIs
  <2>6. pc[p] \in Active => /\ staged[p] = base[p][Registry] \union {p}
                            /\ \A f \in Files : Between(p, f)
    BY DEF AtomicInv
  <2>7. file = [f \in Files |-> file[f]] /\ base[p] = [f \in Files |-> base[p][f]]
    BY DEF TypeOK
  <2>8. CASE Stage(p)
    <3>1. pc[p] \in {"idle", "rejected", "broken"} /\ pc'[p] = "testing"
      BY <2>8 DEF Stage, MayStart, GoTo, TypeOK, Ended
    <3>2. ~Undecided(p) /\ Undecided(p)'
      BY <3>1 DEF Undecided, Active
    <3>3. visible = file /\ visible' = file
      BY <2>4, <2>5, <2>8, <3>2 DEF Stage, TypeOK
    <3>4. verdict(p) \in {"none", "failed"} /\ verdict(p)' = "none"
      BY <3>1 DEF verdict
    <3> QED BY <2>3, <3>3, <3>4
  <2>9. CASE Refuse(p)
    <3>1. pc[p] \in {"idle", "rejected", "broken"} /\ pc'[p] = "rejected"
      BY <2>9 DEF Refuse, MayStart, GoTo, TypeOK, Ended
    <3>2. ~Undecided(p) /\ ~Undecided(p)'
      BY <3>1 DEF Undecided, Active
    <3>3. visible = file /\ visible' = file
      BY <2>4, <2>5, <2>9, <3>2 DEF Refuse
    <3>4. verdict(p) # "pass" /\ verdict(p)' = "failed"
      BY <3>1 DEF verdict
    <3> QED BY <2>3, <3>3, <3>4
  <2>10. CASE End(p, "rejected") /\ pc[p] \in {"testing", "undone"}
    <3>1. pc'[p] = "rejected"
      BY <2>10 DEF End, GoTo, TypeOK
    <3>2. Undecided(p) /\ ~Undecided(p)'
      BY <2>10, <3>1 DEF Undecided, Active
    <3>3. \A f \in Files : file[f] = base[p][f]
      BY <2>6, <2>10 DEF Between, Active
    <3>4. file = base[p]
      BY <2>7, <3>3
    <3>5. visible' = visible
      BY <2>4, <2>5, <2>10, <3>2, <3>4 DEF End
    <3>6. verdict(p) = "none" /\ verdict(p)' = "failed"
      BY <2>10, <3>1 DEF verdict
    <3> QED BY <2>3, <3>5, <3>6
  <2>11. CASE /\ pc[p] \in Active \ {"tidying"} /\ pc'[p] \in Active \ {"tidying"}
              /\ UNCHANGED base
    <3>1. Undecided(p) /\ Undecided(p)'
      BY <2>11 DEF Undecided
    <3>2. visible' = visible
      BY <2>4, <2>5, <2>11, <3>1
    <3>3. verdict(p)' = verdict(p)
      BY <2>11 DEF verdict, Active
    <3> QED BY <2>3, <3>2, <3>3
  <2>12. CASE Replace(p) /\ pc'[p] = "tidying"
    <3>1. pc[p] = "replacing" /\ UNCHANGED <<staged, base>>
      BY <2>12 DEF Replace, Turn
    <3>2. Undecided(p) /\ ~Undecided(p)'
      BY <2>12, <3>1 DEF Undecided, Active
    <3>3. \A f \in Files : file'[f] = staged'[p]
      BY <2>12 DEF AtomicInv, Between, Active
    <3>4. file' = [f \in Files |-> base[p][Registry] \union {p}]
      <4>1. file' = [f \in Files |-> file'[f]]
        BY DEF TypeOK
      <4>2. staged'[p] = base[p][Registry] \union {p}
        BY <2>6, <3>1 DEF Active
      <4> QED BY <3>3, <4>1, <4>2
    <3>5. visible' = [f \in Files |-> visible[Registry] \union {p}]
      BY <2>4, <2>5, <3>2, <3>4
    <3>6. verdict(p) = "none" /\ verdict(p)' = "pass"
      BY <2>12, <3>1 DEF verdict
    <3> QED BY <2>3, <3>5, <3>6
  <2>13. CASE pc[p] = "tidying" /\ End(p, "pass")
    <3>1. pc'[p] = "pass" /\ UNCHANGED file
      BY <2>13 DEF End, GoTo, TypeOK
    <3>2. ~Undecided(p) /\ ~Undecided(p)'
      BY <2>13, <3>1 DEF Undecided, Active
    <3>3. visible' = visible
      BY <2>4, <2>5, <3>1, <3>2
    <3>4. verdict(p)' = verdict(p)
      BY <2>13, <3>1 DEF verdict
    <3> QED BY <2>3, <3>3, <3>4
  <2>14. CASE FrameTest(p)
    <3>1. CASE GoTo(p, "copying") /\ UNCHANGED <<file, locals>>
      BY <2>11, <2>14, <3>1 DEF FrameTest, GoTo, TypeOK, Active, locals
    <3> QED BY <2>10, <2>14, <3>1 DEF FrameTest
  <2>15. CASE Copy(p) \/ Fails(p) \/ Restore(p) \/ Remove(p)
    BY <2>11, <2>15 DEF Copy, Fails, Restore, Remove, Turn, GoTo, TypeOK, Active
  <2>16. CASE Replace(p)
    <3>1. pc[p] = "replacing" /\ pc'[p] \in {"replacing", "tidying"} /\ UNCHANGED base
      BY <2>16 DEF Replace, Turn, GoTo, TypeOK
    <3> QED BY <2>11, <2>12, <2>16, <3>1 DEF Active
  <2>17. CASE Report(p)
    BY <2>10, <2>13, <2>17 DEF Report
  <2>18. ~Escape(p)
    BY DEF Escape
  <2> QED BY <2>8, <2>9, <2>14, <2>15, <2>16, <2>17, <2>18 DEF Act
<1> QED BY <1>0, <1>1

\* Integrations that do not overlap, and in which only copying and replacing files
\* can fail, are atomic: commit_registry keeps the documented promise.
THEOREM IntegrationKeepsPromise ==
  ASSUME SERIAL = TRUE, FAULTS \subseteq {"copy", "replace"}
  PROVE  Spec => KeepsIntegrationPromise
BY PromiseInit, PromiseStep, Atomic, PTL DEF Spec, KeepsIntegrationPromise, Promise!Spec

\* Then also what a failed integration leaves behind is what it found.
THEOREM FailuresAreUndone ==
  ASSUME SERIAL = TRUE, FAULTS \subseteq {"copy", "replace"}
  PROVE  Spec => FailureLeavesUnchanged
<1>1. ASSUME TypeOK, AtomicInv, [Next]_vars, NEW q \in Integrators,
             pc[q] \in Active, pc'[q] \in {"rejected", "broken"}
      PROVE  file' = base[q]
  <2>1. PICK p \in Integrators : Act(p)
    BY <1>1 DEF Next, vars, Active
  <2>2. p = q
    <3>1. pc[q] \in Ended => FALSE
      BY <1>1 DEF Ended, Active
    <3> QED BY <1>1, <2>1, <3>1, SoleActor DEF AtomicInv
  <2>3. pc[q] \in {"testing", "undone"} /\ UNCHANGED file
    BY <1>1, <2>1, <2>2 DEF Act, Stage, Refuse, MayStart, FrameTest, Copy, Replace, Fails, Restore,
       Remove, Turn, Report, Escape, End, GoTo, TypeOK, Active, Ended, locals
  <2>4. \A f \in Files : file[f] = base[q][f]
    BY <1>1, <2>3 DEF AtomicInv, Between, Active
  <2>5. file \in [Files -> Versions] /\ base[q] \in [Files -> Versions]
    BY <1>1 DEF TypeOK
  <2> QED BY <2>3, <2>4, <2>5
<1>2. TypeOK /\ AtomicInv /\ [Next]_vars
        => [\A p \in Integrators :
              pc[p] \in Active /\ pc'[p] \in {"rejected", "broken"} => file' = base[p]]_vars
  BY <1>1
<1> QED BY <1>2, Atomic, PTL DEF Spec, FailureLeavesUnchanged
=============================================================================
