----------------------- MODULE DesignRegistry_proofs ------------------------
(* Proofs about DesignRegistry, for any directories, packages and slots.  What  *)
(* Loads asks of a package is opened only for the wrappers and the template.    *)
EXTENDS DesignRegistry, WellFoundedInduction, TLAPS

-----------------------------------------------------------------------------
(* What an accepted registry is. *)

\* The entries of an accepted registry have different ids, all of the frame.
LEMMA AcceptedIds ==
  ASSUME NEW pkgs, NEW reg, Accepts(pkgs, reg)
  PROVE  /\ \A e \in reg : EntryId(pkgs, e) \in Ids
         /\ \A e, f \in reg : EntryId(pkgs, e) = EntryId(pkgs, f) => e = f
BY DEF Accepts, EntryLoads

\* Null and Wrong are no ids.
LEMMA IdsAreIds == Null \notin Ids /\ Wrong \notin Ids /\ Ids \subseteq Nat
BY ManifestAssumption DEF Ids

\* Writing the ids into the entries changes neither the ids nor the packages.
LEMMA ResolvedKeeps ==
  ASSUME NEW pkgs, NEW reg, Accepts(pkgs, reg)
  PROVE  /\ Resolved(pkgs, Resolved(pkgs, reg)) = Resolved(pkgs, reg)
         /\ RegisteredDirs(Resolved(pkgs, reg)) = RegisteredDirs(reg)
         /\ \A e \in Resolved(pkgs, reg) :
              EntryId(pkgs, e) = e.id /\ e.id \in Ids
<1>1. \A e \in Resolved(pkgs, reg) : EntryId(pkgs, e) = e.id /\ e.id \in Ids
  BY AcceptedIds, IdsAreIds DEF Resolved, EntryId
<1>2. RegisteredDirs(Resolved(pkgs, reg)) = RegisteredDirs(reg)
  <2>1. RegisteredDirs(Resolved(pkgs, reg)) \subseteq RegisteredDirs(reg)
    BY DEF Resolved, RegisteredDirs
  <2>2. ASSUME NEW e \in reg
        PROVE  e.manifest \in RegisteredDirs(Resolved(pkgs, reg))
    <3> DEFINE r == [id |-> EntryId(pkgs, e), manifest |-> e.manifest]
    <3>1. r \in Resolved(pkgs, reg) /\ r.manifest = e.manifest
      BY DEF Resolved
    <3> QED
      BY <3>1 DEF RegisteredDirs
  <2> QED
    BY <2>1, <2>2 DEF RegisteredDirs
<1>3. Resolved(pkgs, Resolved(pkgs, reg)) = Resolved(pkgs, reg)
  BY <1>1 DEF Resolved
<1> QED
  BY <1>1, <1>2, <1>3

\* Whether a registry is accepted, and as what, depends on its packages only.
LEMMA SamePackages ==
  ASSUME NEW pkgs, NEW other, NEW reg,
         \A d \in RegisteredDirs(reg) : other[d] = pkgs[d]
  PROVE  /\ Accepts(other, reg) = Accepts(pkgs, reg)
         /\ Resolved(other, reg) = Resolved(pkgs, reg)
<1>1. ASSUME NEW e \in reg
      PROVE  /\ EntryId(other, e) = EntryId(pkgs, e)
             /\ EntryLoads(other, e) = EntryLoads(pkgs, e)
  <2>1. other[e.manifest] = pkgs[e.manifest]
    BY <1>1 DEF RegisteredDirs
  <2> QED
    BY <2>1 DEF EntryId, EntryLoads, LoadsAt
<1>2. ASSUME NEW e \in reg, NEW f \in reg
      PROVE  Clash(other, e.manifest, f.manifest) = Clash(pkgs, e.manifest, f.manifest)
  <2>1. other[e.manifest] = pkgs[e.manifest] /\ other[f.manifest] = pkgs[f.manifest]
    BY <1>2 DEF RegisteredDirs
  <2> QED
    BY <2>1 DEF Clash
<1>3. Accepts(other, reg) = Accepts(pkgs, reg)
  <2>1. Accepts(pkgs, reg) => Accepts(other, reg)
    BY <1>1, <1>2 DEF Accepts
  <2>2. Accepts(other, reg) => Accepts(pkgs, reg)
    BY <1>1, <1>2 DEF Accepts
  <2>3. Accepts(pkgs, reg) \in BOOLEAN /\ Accepts(other, reg) \in BOOLEAN
    BY DEF Accepts
  <2> QED
    BY <2>1, <2>2, <2>3
<1>4. Resolved(other, reg) = Resolved(pkgs, reg)
  BY <1>1 DEF Resolved
<1> QED
  BY <1>3, <1>4

-----------------------------------------------------------------------------
(* Each slot has one driver. *)

\* A set of ids that is not empty has a least one.
LEMMA LeastId ==
  ASSUME NEW free \in SUBSET Ids, free # {}
  PROVE  \E i \in free : \A j \in free : i <= j
<1>1. free \subseteq Nat
  BY IdsAreIds
<1>2. PICK i \in free : \A j \in free : ~(<<j, i>> \in OpToRel(<, Nat))
  BY <1>1, WFMin, NatLessThanWellFounded
<1>3. \A j \in free : ~(j < i)
  <2> SUFFICES ASSUME NEW j \in free, j < i
               PROVE  FALSE
    OBVIOUS
  <2>1. <<j, i>> \in Nat \X Nat /\ <<j, i>>[1] < <<j, i>>[2]
    BY <1>1
  <2>2. <<j, i>> \in OpToRel(<, Nat)
    BY <2>1 DEF OpToRel
  <2> QED
    BY <1>2, <2>2
<1>4. \A j \in free : i <= j
  BY <1>1, <1>3
<1> QED
  BY <1>4

\* Designs whose ids differ leave every slot of the frame with one driver.
LEMMA DistinctIdsDriveOnce ==
  ASSUME NEW designs,
         \A e \in designs : e.id \in Ids,
         \A e, f \in designs : e.id = f.id => e.manifest = f.manifest
  PROVE  OneDriver(designs)
<1> SUFFICES ASSUME NEW k \in 0 .. MaxId
             PROVE  \E source \in Drivers(designs, k) : Drivers(designs, k) = {source}
  BY DEF OneDriver
<1> DEFINE Here == {f \in designs : f.id = k}
           OfDesigns == {<<"design", e.manifest>> : e \in Here}
<1>1. 0 \notin Ids
  BY ManifestAssumption DEF Ids
<1>2. CASE Here = {}
  <2>1. OfDesigns = {}
    BY <1>2
  <2>2. k \in Mask(designs) <=> k = 0
    BY <1>2 DEF Mask
  <2> QED
    BY <2>1, <2>2 DEF Drivers
<1>3. CASE Here # {}
  <2>1. PICK e \in Here : TRUE
    BY <1>3
  <2>2. k # 0 /\ k \in Mask(designs)
    BY <1>1, <2>1 DEF Mask
  <2>3. OfDesigns = {<<"design", e.manifest>>}
    BY <2>1
  <2> QED
    BY <2>2, <2>3 DEF Drivers
<1> QED
  BY <1>2, <1>3

\* What is rendered from an accepted registry leaves every slot with one driver.
LEMMA ResolvedDrivesOnce ==
  ASSUME NEW pkgs, NEW reg, Accepts(pkgs, reg)
  PROVE  OneDriver(Resolved(pkgs, reg))
<1>1. \A e \in Resolved(pkgs, reg) : e.id \in Ids
  BY ResolvedKeeps
<1>2. \A e, f \in Resolved(pkgs, reg) : e.id = f.id => e.manifest = f.manifest
  BY AcceptedIds DEF Resolved
<1> QED
  BY <1>1, <1>2, DistinctIdsDriveOnce

\* So does what is rendered for a Frame test, and the slot it selects is the design's.
LEMMA FrameDrivesOnce ==
  ASSUME NEW pkgs, NEW reg, NEW d, FrameAccepts(pkgs, reg, d)
  PROVE  /\ OneDriver(FrameRegistry(pkgs, reg, d))
         /\ Drivers(FrameRegistry(pkgs, reg, d), FrameId(pkgs, reg, d)) = {<<"design", d>>}
<1> DEFINE old == Resolved(pkgs, reg)
           selected == FrameId(pkgs, reg, d)
           new == [id |-> selected, manifest |-> d]
           designs == old \union {new}
<1>1. Accepts(pkgs, reg)
  BY DEF FrameAccepts
<1>2. /\ \A e \in old : e.id \in Ids
      /\ \A e, f \in old : e.id = f.id => e.manifest = f.manifest
  BY <1>1, AcceptedIds DEF Resolved
<1>3. selected \in Ids /\ \A e \in old : e.id = selected => e.manifest = d
  <2>1. CASE d \in RegisteredDirs(reg)
    <3>1. d \in RegisteredDirs(old)
      BY <1>1, <2>1, ResolvedKeeps
    <3>2. PICK e \in old : e.manifest = d /\ selected = e.id
      BY <2>1, <3>1 DEF FrameId, RegisteredDirs
    <3> QED
      BY <1>2, <3>2
  <2>2. CASE d \notin RegisteredDirs(reg)
    <3> DEFINE free == Ids \ UsedIds(pkgs, reg)
    <3>1. free # {} /\ free \in SUBSET Ids
      BY <2>2 DEF FrameAccepts
    <3>2. selected = CHOOSE i \in free : \A j \in free : i <= j
      BY <2>2 DEF FrameId
    <3>3. selected \in free
      <4> HIDE DEF free
      <4>1. \E i \in free : \A j \in free : i <= j
        BY <3>1, LeastId
      <4> QED
        BY <3>2, <4>1
    <3> QED
      BY <3>3 DEF Resolved, UsedIds
  <2> QED
    BY <2>1, <2>2
<1>4. FrameRegistry(pkgs, reg, d) = designs
  BY DEF FrameRegistry
<1> HIDE DEF old, selected
<1>5. \A e \in designs : e.id \in Ids
  BY <1>2, <1>3
<1>6. ASSUME NEW e \in designs, NEW f \in designs, e.id = f.id
      PROVE  e.manifest = f.manifest
  <2>1. new.id = selected /\ new.manifest = d
    OBVIOUS
  <2>2. (e \in old \/ e = new) /\ (f \in old \/ f = new)
    OBVIOUS
  <2> HIDE DEF new
  <2> QED
    BY <1>2, <1>3, <1>6, <2>1, <2>2
<1>7. {<<"design", e.manifest>> : e \in {f \in designs : f.id = selected}} = {<<"design", d>>}
  <2>1. new \in designs /\ new.id = selected /\ new.manifest = d
    OBVIOUS
  <2>2. \A e \in designs : e.id = selected => e.manifest = d
    BY <1>3
  <2> HIDE DEF designs, new
  <2> QED
    BY <2>1, <2>2
<1>8. selected # 0 /\ selected \in Mask(designs)
  <2>1. selected # 0
    BY <1>3, ManifestAssumption DEF Ids
  <2>2. new \in designs /\ new.id = selected
    OBVIOUS
  <2> HIDE DEF designs, new
  <2> QED
    BY <2>1, <2>2 DEF Mask
<1> HIDE DEF designs
<1>9. OneDriver(designs)
  BY <1>5, <1>6, DistinctIdsDriveOnce
<1>10. Drivers(designs, selected) = {<<"design", d>>}
  BY <1>7, <1>8 DEF Drivers
<1> QED
  BY <1>4, <1>9, <1>10 DEF selected

\* However the registry came about, what is rendered from it, or for a Frame test next
\* to it, drives every slot exactly once, and the slot a Frame test selects by its design.
THEOREM SlotsAreDrivenOnce == Spec => []SlotsDrivenOnce
<1>1. SlotsDrivenOnce
  BY ResolvedDrivesOnce, FrameDrivesOnce DEF SlotsDrivenOnce
<1> QED
  BY <1>1, PTL
-----------------------------------------------------------------------------
(* Types. *)

\* What is written is a package in every directory, if it was one.
LEMMA WriteType ==
  ASSUME TypeOK, NEW pkgs \in [Dirs -> Packages], Write(pkgs)
  PROVE  TypeOK'
BY DEF TypeOK, Write

\* Every step writes a package, an entry or a directory.
LEMMA TypeStep ==
  ASSUME TypeOK, [Next]_vars
  PROVE  TypeOK'
<1> USE DEF TypeOK
<1>1. ASSUME NEW d \in Dirs, NEW pkg \in Packages,
             Write([packages EXCEPT ![d] = pkg])
      PROVE  TypeOK'
  <2>1. [packages EXCEPT ![d] = pkg] \in [Dirs -> Packages]
    OBVIOUS
  <2> QED
    BY <1>1, <2>1, WriteType
<1>2. ASSUME NEW d \in Editable, Edit(d)
      PROVE  TypeOK'
  <2>1. Contents \union {Absent, NoManifest} \subseteq Packages /\ d \in Dirs
    BY RegistryAssumption DEF Packages
  <2> QED
    BY <1>1, <1>2, <2>1 DEF Edit
<1>3. ASSUME NEW c \in Editable, NEW d \in Editable, Move(c, d)
      PROVE  TypeOK'
  <2>1. Absent \in Packages /\ c \in Dirs /\ d \in Dirs
    BY RegistryAssumption DEF Packages
  <2>2. [packages EXCEPT ![c] = Absent, ![d] = packages[c]] \in [Dirs -> Packages]
    BY <2>1
  <2> QED
    BY <1>3, <2>2, WriteType DEF Move
<1>4. ASSUME NEW d \in Editable, NEW n \in PackageNames, NEW m,
             Create(d, n, m) \/ CreateFails(d, n, m) \/ CreateInterrupted(d, n, m)
      PROVE  TypeOK'
  <2>1. m \in Identifiers /\ d \in Dirs
    BY <1>4, RegistryAssumption DEF Create, CreateFails, CreateInterrupted, CreateAccepts
  <2>2. {Template(n, m), NoManifest, ManifestOnly(n, m)} \subseteq Packages
    BY <2>1 DEF Packages
  <2> QED
    BY <1>1, <1>4, <2>1, <2>2 DEF Create, CreateFails, CreateInterrupted
<1>5. ASSUME NEW d \in Dirs, NEW i \in 0 .. MaxId + 1, Integrate(d, i)
      PROVE  TypeOK'
  <2>1. Accepts(packages, registry) /\ i \in Ids
    BY <1>5 DEF Integrate, IntegrateAccepts
  <2>2. \A e \in registry : EntryId(packages, e) \in Ids /\ e.manifest \in Dirs
    BY <2>1, AcceptedIds DEF Entries
  <2>3. Resolved(packages, registry) \subseteq Entries
    BY <2>2 DEF Resolved, Entries
  <2>4. [id |-> i, manifest |-> d] \in Entries
    BY <2>1 DEF Entries
  <2> QED
    BY <1>5, <2>3, <2>4 DEF Integrate, Integrated
<1>6. ASSUME NEW d \in Dirs, CheckStep(d)
      PROVE  TypeOK'
  <2> DEFINE now == IF check.phase = 3 THEN NotChecking ELSE check
  <2>1. now \in [phase : 0 .. 2, seen : SUBSET Dirs, written : SUBSET Dirs]
    BY DEF NotChecking
  <2>2. /\ check' = [now EXCEPT !.phase = @ + 1, !.seen = @ \union {d}]
        /\ UNCHANGED <<packages, registry>>
    BY <1>6 DEF CheckStep
  <2> HIDE DEF now
  <2>3. check' = [phase |-> now.phase + 1, seen |-> now.seen \union {d},
                  written |-> now.written]
    BY <2>1, <2>2
  <2>4. /\ now.phase + 1 \in 0 .. 3 /\ now.seen \union {d} \in SUBSET Dirs
        /\ now.written \in SUBSET Dirs
    BY <2>1
  <2>5. check' \in [phase : 0 .. 3, seen : SUBSET Dirs, written : SUBSET Dirs]
    BY <2>3, <2>4
  <2> QED
    BY <2>2, <2>5
<1>7. CASE CheckFails
  BY <1>7 DEF CheckFails, NotChecking
<1>8. CASE UNCHANGED vars
  BY <1>8 DEF vars
<1> QED
  BY <1>2, <1>3, <1>4, <1>5, <1>6, <1>7, <1>8 DEF Next

\* The files are what users and commands write, whatever they do.
THEOREM TypeCorrect == Spec => []TypeOK
<1>1. Init => TypeOK
  BY RegistryAssumption DEF Init, TypeOK, Packages, Entries, NotChecking
<1> QED
  BY <1>1, TypeStep, PTL DEF Spec

-----------------------------------------------------------------------------
(* What `make check` tests. *)

\* While a check runs, what nobody wrote since it began is no package, or registered, or
\* the only one the check has found.
OthersRegistered ==
  \A c \in check.seen, d \in Dirs \ check.written :
    d = c \/ ~HasManifest(packages[d]) \/ d \in RegisteredDirs(registry)
SeenInv ==
  /\ CheckTestsOnePackage
  /\ check.phase = 0 => check = NotChecking
  /\ check.phase \in {1, 2} =>
       OthersRegistered /\ \A c, d \in check.seen \ check.written : c = d

\* Whatever is written, what is not written stays.
LEMMA SeenWrite ==
  ASSUME TypeOK, SeenInv, NEW pkgs \in [Dirs -> Packages], Write(pkgs)
  PROVE  SeenInv'
<1> USE DEF TypeOK
<1>1. CASE check.phase \in {1, 2}
  <2> DEFINE changed == {c \in Dirs : pkgs[c] # packages[c]}
  <2>1. /\ packages' = pkgs /\ registry' = registry
        /\ check'.phase = check.phase /\ check'.seen = check.seen
        /\ check'.written = check.written \union changed
    BY <1>1 DEF Write
  <2>2. \A d \in Dirs \ check'.written : d \notin check.written /\ packages'[d] = packages[d]
    BY <2>1
  <2>3. OthersRegistered'
    BY <1>1, <2>1, <2>2 DEF SeenInv, OthersRegistered, HasManifest, RegisteredDirs
  <2>4. \A c, d \in check'.seen \ check'.written : c = d
    BY <1>1, <2>1 DEF SeenInv
  <2> QED
    BY <1>1, <2>1, <2>3, <2>4 DEF SeenInv, CheckTestsOnePackage
<1>2. CASE check.phase \notin {1, 2}
  <2>1. check' = check
    BY <1>2 DEF Write
  <2> QED
    BY <1>2, <2>1 DEF SeenInv, CheckTestsOnePackage
<1> QED
  BY <1>1, <1>2

\* A lookup that finds what nobody wrote finds what the check has found before.
LEMMA SeenLookup ==
  ASSUME TypeOK, SeenInv, NEW d \in Dirs, CheckStep(d)
  PROVE  SeenInv'
<1> USE DEF TypeOK
<1> DEFINE now == IF check.phase = 3 THEN NotChecking ELSE check
<1>1. {c \in Dirs : HasManifest(packages[c]) /\ c \notin RegisteredDirs(registry)} = {d}
  BY DEF CheckStep, FindUserDesign
<1>2. /\ packages' = packages /\ registry' = registry
      /\ check' = [now EXCEPT !.phase = @ + 1, !.seen = @ \union {d}]
  BY DEF CheckStep
<1>3. now \in [phase : 0 .. 2, seen : SUBSET Dirs, written : SUBSET Dirs]
  BY DEF NotChecking
<1>4. now.phase = 0 => now.seen = {} /\ now.written = {}
  BY DEF SeenInv, NotChecking
<1>5. now.phase # 0 => now = check /\ check.phase \in {1, 2}
  BY DEF NotChecking
<1>6. d \notin now.written => now.seen \subseteq {d}
  <2>1. CASE now.phase = 0
    BY <1>4, <2>1
  <2>2. CASE now.phase # 0
    BY <1>1, <1>5, <2>2 DEF SeenInv, OthersRegistered
  <2> QED
    BY <2>1, <2>2
<1>7. \A b, c \in now.seen \ now.written : b = c
  <2>1. CASE now.phase = 0
    BY <1>4, <2>1
  <2>2. CASE now.phase # 0
    BY <1>5, <2>2 DEF SeenInv
  <2> QED
    BY <2>1, <2>2
<1> HIDE DEF now
<1>8. check'.phase = now.phase + 1 /\ check'.seen = now.seen \union {d} /\ check'.written = now.written
  BY <1>2, <1>3
<1>9. \A b, c \in check'.seen \ check'.written : b = c
  BY <1>6, <1>7, <1>8
<1>10. ASSUME NEW c \in check'.seen, NEW e \in Dirs \ check'.written
       PROVE  e = c \/ ~HasManifest(packages'[e]) \/ e \in RegisteredDirs(registry')
  <2>1. CASE e = d
    BY <1>6, <1>8, <2>1
  <2>2. CASE e # d
    BY <1>1, <1>2, <2>2
  <2> QED
    BY <2>1, <2>2
<1>11. OthersRegistered'
  BY <1>10 DEF OthersRegistered
<1> QED
  BY <1>3, <1>8, <1>9, <1>11 DEF SeenInv, CheckTestsOnePackage

\* Edits, moves and creations only write; what is registered stays registered.
LEMMA SeenStep ==
  ASSUME TypeOK, SeenInv, [Next]_vars
  PROVE  SeenInv'
<1> USE DEF TypeOK
<1>1. ASSUME NEW d \in Dirs, NEW i \in 0 .. MaxId + 1, Integrate(d, i)
      PROVE  SeenInv'
  <2>1. Accepts(packages, registry)
    BY <1>1 DEF Integrate, IntegrateAccepts
  <2>2. Resolved(packages, registry) \subseteq registry'
    BY <1>1 DEF Integrate, Integrated
  <2>3. RegisteredDirs(registry) \subseteq RegisteredDirs(registry')
    BY <2>1, <2>2, ResolvedKeeps DEF RegisteredDirs
  <2>4. packages' = packages /\ check' = check
    BY <1>1 DEF Integrate
  <2>5. OthersRegistered => OthersRegistered'
    BY <2>3, <2>4 DEF OthersRegistered
  <2> QED
    BY <2>4, <2>5 DEF SeenInv, CheckTestsOnePackage
<1>2. CASE CheckFails
  BY <1>2 DEF CheckFails, NotChecking, SeenInv, CheckTestsOnePackage
<1>3. CASE UNCHANGED vars
  BY <1>3 DEF vars, SeenInv, CheckTestsOnePackage, OthersRegistered, NotChecking
<1>4. ASSUME NEW pkgs, Write(pkgs)
      PROVE  pkgs = packages'
  BY <1>4 DEF Write
<1>5. ASSUME NEW pkgs, Write(pkgs), TypeOK'
      PROVE  SeenInv'
  <2>1. pkgs \in [Dirs -> Packages]
    BY <1>4, <1>5
  <2> QED
    BY <1>5, <2>1, SeenWrite
<1>6. CASE \/ \E d \in Editable : Edit(d)
           \/ \E c, d \in Editable : Move(c, d)
           \/ \E d \in Editable, n \in PackageNames : \E m :
                Create(d, n, m) \/ CreateFails(d, n, m) \/ CreateInterrupted(d, n, m)
  <2>1. PICK pkgs : Write(pkgs)
    BY <1>6 DEF Edit, Move, Create, CreateFails, CreateInterrupted
  <2> QED
    BY <1>5, <2>1, TypeStep
<1> QED
  BY <1>1, <1>2, <1>3, <1>6, SeenLookup DEF Next

\* Of the packages nobody wrote, removed or moved while a `make check` ran, it tested one
\* at most, though each lookup is made anew and the package may be registered meanwhile.
THEOREM ChecksTestOnePackage == Spec => []CheckTestsOnePackage
<1>1. Init => SeenInv
  BY DEF Init, SeenInv, NotChecking, CheckTestsOnePackage
<1>2. SeenInv => CheckTestsOnePackage
  BY DEF SeenInv
<1> QED
  BY <1>1, <1>2, SeenStep, TypeCorrect, PTL DEF Spec
-----------------------------------------------------------------------------
(* What the commands do to the registry. *)

\* What integrate-design stages, generate-registry accepts, if the package has both
\* kinds of tests.
LEMMA StagedIsAccepted ==
  ASSUME NEW pkgs, NEW reg, NEW d, NEW i, IntegrateAccepts(pkgs, reg, d, i),
         \A kind \in TestKinds : Selectable(pkgs[d], kind) # {}
  PROVE  Accepts(pkgs, Integrated(pkgs, reg, d, i))
<1> DEFINE new == [id |-> i, manifest |-> d]
           old == Resolved(pkgs, reg)
<1>1. Accepts(pkgs, reg) /\ i \in Ids
  BY DEF IntegrateAccepts
<1>2. \A e \in old : EntryId(pkgs, e) = e.id /\ e.id \in Ids
  BY <1>1, ResolvedKeeps
<1>3. EntryId(pkgs, new) = i
  BY <1>1, IdsAreIds DEF EntryId
<1>4. EntryLoads(pkgs, new)
  BY <1>1, <1>3 DEF EntryLoads, IntegrateAccepts
<1>5. ASSUME NEW r \in old
      PROVE  \E e \in reg : r.manifest = e.manifest /\ r.id = EntryId(pkgs, e)
  BY DEF Resolved
<1>6. ASSUME NEW r \in old
      PROVE  EntryLoads(pkgs, r)
  BY <1>1, <1>2, <1>5, <1>6 DEF Accepts, EntryLoads
<1>7. ASSUME NEW r \in old
      PROVE  /\ r.manifest # d /\ r.id # i
             /\ ~Clash(pkgs, r.manifest, d) /\ ~Clash(pkgs, d, r.manifest)
  <2>1. PICK e \in reg : r.manifest = e.manifest /\ r.id = EntryId(pkgs, e)
    BY <1>5, <1>7
  <2>2. e.manifest # d
    BY DEF IntegrateAccepts, RegisteredDirs
  <2>3. ~Clash(pkgs, e.manifest, d)
    BY <2>2 DEF IntegrateAccepts, ClashesRegistered
  <2>4. EntryId(pkgs, e) # i
    BY DEF IntegrateAccepts, UsedIds
  <2> QED
    BY <2>1, <2>2, <2>3, <2>4 DEF Clash
<1>8. ASSUME NEW r \in old, NEW s \in old, r # s
      PROVE  /\ r.manifest # s.manifest /\ ~Clash(pkgs, r.manifest, s.manifest)
             /\ r.id # s.id
  <2>1. PICK e \in reg : r = [id |-> EntryId(pkgs, e), manifest |-> e.manifest]
    BY <1>8 DEF Resolved
  <2>2. PICK f \in reg : s = [id |-> EntryId(pkgs, f), manifest |-> f.manifest]
    BY <1>8 DEF Resolved
  <2>3. e # f
    BY <1>8, <2>1, <2>2
  <2> QED
    BY <1>1, <2>1, <2>2, <2>3 DEF Accepts
<1>9. Integrated(pkgs, reg, d, i) = old \union {new}
  BY DEF Integrated
<1> HIDE DEF old
<1>10. \A e \in old \union {new} : EntryLoads(pkgs, e)
  BY <1>4, <1>6
<1>11. ASSUME NEW e \in old \union {new}, NEW f \in old \union {new}, e # f
       PROVE  /\ e.manifest # f.manifest /\ ~Clash(pkgs, e.manifest, f.manifest)
              /\ EntryId(pkgs, e) # EntryId(pkgs, f)
  <2>1. CASE e \in old /\ f \in old
    BY <1>2, <1>8, <1>11, <2>1
  <2>2. CASE e \in old /\ f = new
    BY <1>2, <1>3, <1>7, <2>2
  <2>3. CASE e = new /\ f \in old
    BY <1>2, <1>3, <1>7, <2>3
  <2> QED
    BY <1>11, <2>1, <2>2, <2>3
<1> QED
  BY <1>9, <1>10, <1>11 DEF Accepts

\* A contributor whose package passes what `make check` asks of it can be integrated at
\* every free id the package allows.
THEOREM CheckedIsIntegrable == Spec => []CheckedCanBeIntegrated
<1>1. ASSUME NEW d \in Dirs, NEW i \in Ids,
             BuildAccepts(packages, d, "unit"), FrameAccepts(packages, registry, d),
             d \notin RegisteredDirs(registry), i \notin UsedIds(packages, registry),
             packages[d].manifest.id \in {Null, i}
      PROVE  /\ IntegrateAccepts(packages, registry, d, i)
             /\ Accepts(packages, Integrated(packages, registry, d, i))
  <2>1. IntegrateAccepts(packages, registry, d, i)
    BY <1>1 DEF IntegrateAccepts, FrameAccepts, BuildAccepts
  <2>2. \A kind \in TestKinds : Selectable(packages[d], kind) # {}
    BY <1>1 DEF FrameAccepts, BuildAccepts, TestKinds
  <2> QED
    BY <2>1, <2>2, StagedIsAccepted
<1>2. CheckedCanBeIntegrated
  BY <1>1 DEF CheckedCanBeIntegrated
<1> QED
  BY <1>2, PTL

\* Create, integrate and check keep an accepted registry, and every design its slot.
LEMMA KeepsRegistryStep ==
  ASSUME TypeOK, [Next]_vars, Accepts(packages, registry),
         \A d \in RegisteredDirs(registry) : packages'[d] = packages[d]
  PROVE  /\ Accepts(packages', registry')
         /\ Resolved(packages, registry) \subseteq Resolved(packages', registry')
<1>1. CASE registry' = registry
  <2>1. /\ Accepts(packages', registry) = Accepts(packages, registry)
        /\ Resolved(packages', registry) = Resolved(packages, registry)
    BY SamePackages
  <2> QED
    BY <1>1, <2>1
<1>2. ASSUME NEW d \in Dirs, NEW i \in 0 .. MaxId + 1, Integrate(d, i)
      PROVE  /\ Accepts(packages', registry')
             /\ Resolved(packages, registry) \subseteq Resolved(packages', registry')
  <2>1. packages' = packages /\ registry' = Integrated(packages, registry, d, i)
    BY <1>2 DEF Integrate
  <2>2. Accepts(packages', registry')
    BY <1>2, <2>1 DEF Integrate
  <2>3. Resolved(packages, registry) = Resolved(packages, Resolved(packages, registry))
    BY ResolvedKeeps
  <2>4. Resolved(packages, Resolved(packages, registry)) \subseteq Resolved(packages, registry')
    BY <2>1 DEF Integrated, Resolved
  <2> QED
    BY <2>1, <2>2, <2>3, <2>4
<1>3. registry' = registry \/ \E d \in Dirs, i \in 0 .. MaxId + 1 : Integrate(d, i)
  BY DEF Next, Write, Edit, Move, Create, CreateFails, CreateInterrupted, CheckStep,
         CheckFails, vars
<1> QED
  BY <1>1, <1>2, <1>3

\* The tool never makes a registry unreadable, and no design loses its slot to another.
THEOREM ToolKeepsTheRegistry == Spec => ToolKeepsRegistry
<1>1. TypeOK /\ [Next]_vars =>
        [/\ Accepts(packages, registry)
         /\ \A d \in RegisteredDirs(registry) : packages'[d] = packages[d]
         => /\ Accepts(packages', registry')
            /\ Resolved(packages, registry) \subseteq Resolved(packages', registry')]_vars
  BY KeepsRegistryStep
<1> QED
  BY <1>1, TypeCorrect, PTL DEF Spec, ToolKeepsRegistry
-----------------------------------------------------------------------------
(* What load_design promises of a package. *)

\* The wrapper of every registered design binds, in any checkout.
THEOREM WrappersAreBound == Spec => []WrappersBind
<1>1. ASSUME NEW reg, NEW pkgs, Accepts(pkgs, reg), NEW e \in reg, NEW root \in Roots,
             NEW relative \in BOOLEAN, NoDollar(pkgs[e.manifest])
      PROVE  LET pkg == pkgs[e.manifest]  w == Wrapper(pkg) IN
             \E path \in DOMAIN pkg.tree :
               /\ <<"source", IF relative THEN Null ELSE root, e.manifest, path>>
                    \in RegistryFilelist(pkgs, Resolved(pkgs, reg), root, relative)
               /\ w.module \in DOMAIN pkg.text[path]
               /\ \A semantic \in SemanticPorts : w.ports[semantic] \in pkg.text[path][w.module]
  <2> DEFINE pkg == pkgs[e.manifest]
             m == pkg.manifest
             d == e.manifest
             resolved == [id |-> EntryId(pkgs, e), manifest |-> d]
             place == IF relative THEN Null ELSE root
  <2>1. Loads(pkg)
    BY <1>1 DEF Accepts, EntryLoads, LoadsAt
  <2>2. PICK i \in DOMAIN m.sources :
           \E x \in Found(m.module, DOMAIN pkg.text[m.sources[i]]) :
             \A semantic \in SemanticPorts :
               Found(PortOf(m, semantic), pkg.text[m.sources[i]][x]) # {}
    BY <2>1 DEF Loads, TopHasPorts
  <2>3. PICK x \in Found(m.module, DOMAIN pkg.text[m.sources[i]]) :
          \A semantic \in SemanticPorts :
            Found(PortOf(m, semantic), pkg.text[m.sources[i]][x]) # {}
    BY <2>2
  <2>4. m.sources[i] \in DOMAIN pkg.tree
    BY <2>1 DEF Loads, FieldsLoad, AreSources, Resolves
  <2>5. \A y \in DOMAIN pkg.text[m.sources[i]] :
          Stem[y] = y /\ \A z \in pkg.text[m.sources[i]][y] : Stem[z] = z
    BY <1>1, <2>3 DEF NoDollar
  <2>6. x = m.module /\ m.module \in DOMAIN pkg.text[m.sources[i]]
    BY <2>3, <2>5 DEF Found
  <2>7. \A semantic \in SemanticPorts :
          PortOf(m, semantic) \in pkg.text[m.sources[i]][m.module]
    BY <2>3, <2>5, <2>6 DEF Found
  <2>8. resolved \in Resolved(pkgs, reg) /\ resolved.manifest = d
    BY <1>1 DEF Resolved
  <2>9. <<"source", place, d, m.sources[i]>> \in FilelistLines(pkg, d, root, relative)
    BY DEF FilelistLines
  <2>10. <<"source", place, d, m.sources[i]>>
          \in RegistryFilelist(pkgs, Resolved(pkgs, reg), root, relative)
    BY <2>8, <2>9 DEF RegistryFilelist
  <2>11. /\ Wrapper(pkg).module = m.module
         /\ \A semantic \in SemanticPorts : Wrapper(pkg).ports[semantic] = PortOf(m, semantic)
    BY DEF Wrapper
  <2> QED
    BY <2>4, <2>6, <2>7, <2>10, <2>11
<1>2. WrappersBind
  BY <1>1 DEF WrappersBind
<1> QED
  BY <1>2, PTL

\* The template makes a manifest that names both tests.
LEMMA TemplateHasTests ==
  ASSUME NEW n \in PackageNames, NEW module \in Identifiers
  PROVE  /\ HasManifest(Template(n, module))
         /\ Template(n, module).manifest # Wrong
         /\ \A kind \in TestKinds : Selectable(Template(n, module), kind) # {}
<1>1. HasManifest(Template(n, module)) /\ Template(n, module).manifest # Wrong
  BY TemplateAssumption DEF HasManifest
<1>2. Template(n, module).manifest.tests =
        <<[name |-> "io", kind |-> "unit", top |-> "Tb", sources |-> <<"tests/MTb.sv">>],
          [name |-> "frame", kind |-> "frame", top |-> "Tb",
           sources |-> <<"tests/FrameMTb.sv">>]>>
  BY DEF Template
<1>3. \A kind \in TestKinds : Selectable(Template(n, module), kind) # {}
  BY <1>2 DEF Selectable, TestKinds
<1> QED
  BY <1>1, <1>3

\* The package made from the template is one load_design accepts, unless its module's
\* name ends with "$".
LEMMA TemplateLoads ==
  ASSUME NEW n \in PackageNames, NEW module \in Identifiers, Stem[module] = module
  PROVE  Loads(Template(n, module))
<1> DEFINE pkg == Template(n, module)
           m == pkg.manifest
<1>1. /\ n \notin {Null, Wrong}
      /\ pkg # Absent /\ m # Null
      /\ Wrong \notin {m, m.sources, m.include_dirs, m.defines, m.parameters, m.ports, m.tests}
      /\ \A i \in DOMAIN m.tests : Wrong \notin {m.tests[i], m.tests[i].name, m.tests[i].sources}
                                   /\ m.tests[i].name # Null
  BY TemplateAssumption
<1>2. /\ m.id = Null /\ m.name = n /\ m.module = module
      /\ m.sources = <<"rtl/M.sv">> /\ m.include_dirs = <<>> /\ m.defines = <<>>
      /\ m.ports = <<>> /\ m.unknown = {} /\ m.parameters = [IO_WIDTH |-> 66]
  BY DEF Template
<1>3. /\ m.tests = <<[name |-> "io", kind |-> "unit", top |-> "Tb",
                       sources |-> <<"tests/MTb.sv">>],
                      [name |-> "frame", kind |-> "frame", top |-> "Tb",
                       sources |-> <<"tests/FrameMTb.sv">>]>>
  BY DEF Template
<1>4. /\ pkg.tree = [path \in {"rtl/M.sv", "tests/MTb.sv", "tests/FrameMTb.sv"} |-> "hdl"]
      /\ pkg.text = [path \in {"rtl/M.sv"} |-> [x \in {module} |-> SemanticPorts]]
  BY DEF Template
<1> HIDE DEF pkg
<1>5. AreSources(pkg, <<"rtl/M.sv">>)
  BY <1>1, <1>2, <1>4 DEF AreSources, Resolves
<1>6. AreSources(pkg, <<"tests/MTb.sv">>) /\ AreSources(pkg, <<"tests/FrameMTb.sv">>)
  BY <1>1, <1>3, <1>4 DEF AreSources, Resolves
<1>7. FieldsLoad(pkg)
  <2>1. IsMapping(m.defines, Scalars \union {Null})
    BY <1>1, <1>2 DEF IsMapping
  <2>2. IsMapping(m.parameters, Scalars)
    BY <1>1, <1>2, TemplateAssumption DEF IsMapping
  <2> QED
    BY <1>1, <1>2, <1>5, <2>1, <2>2 DEF FieldsLoad
<1>8. PortsLoad(pkg)
  BY <1>1, <1>2 DEF PortsLoad
<1>9. TestsLoad(pkg)
  BY <1>1, <1>3, <1>6, TemplateAssumption DEF TestsLoad, TestKinds
<1>10. TopHasPorts(pkg)
  BY <1>2, <1>4, TemplateAssumption DEF TopHasPorts, PortOf, Found
<1> QED
  BY <1>7, <1>8, <1>9, <1>10 DEF pkg, Loads

\* `make create` refuses what could not be checked or integrated afterwards: what it
\* makes passes the lookups of `make check`.
LEMMA CreatedIsUsable ==
  ASSUME TypeOK, NEW d \in Editable, NEW n \in PackageNames, NEW m \in Identifiers,
         Create(d, n, m), UsedIds(packages, registry) # Ids
  PROVE  BuildAccepts(packages', d, "unit") /\ FrameAccepts(packages', registry', d)
<1>1. /\ Accepts(packages, registry) /\ packages[d] = Absent
      /\ \A e \in registry :
           packages[e.manifest].manifest.name # n /\ packages[e.manifest].manifest.module # m
      /\ registry' = registry /\ packages' = [packages EXCEPT ![d] = Template(n, m)]
      /\ Loads(Template(n, m))
  BY DEF Create, CreateAccepts, Write
<1>2. packages'[d] = Template(n, m) /\ \A c \in Dirs \ {d} : packages'[c] = packages[c]
  BY <1>1, RegistryAssumption DEF TypeOK
<1>3. BuildAccepts(packages', d, "unit") /\ BuildAccepts(packages', d, "frame")
  BY <1>1, <1>2, TemplateHasTests DEF BuildAccepts, LoadsAt, TestKinds
<1>4. d \notin RegisteredDirs(registry)
  BY <1>1 DEF RegisteredDirs, Accepts, EntryLoads, LoadsAt, HasManifest
<1>5. \A c \in RegisteredDirs(registry) : packages'[c] = packages[c]
  BY <1>2, <1>4 DEF RegisteredDirs, TypeOK, Entries
<1>6. Accepts(packages', registry) /\ Resolved(packages', registry) = Resolved(packages, registry)
  <2>1. /\ Accepts(packages', registry) = Accepts(packages, registry)
        /\ Resolved(packages', registry) = Resolved(packages, registry)
    BY <1>5, SamePackages
  <2> QED
    BY <1>1, <2>1
<1>7. ~ClashesRegistered(packages', registry, d)
  <2> SUFFICES ASSUME NEW e \in registry
               PROVE  ~Clash(packages', e.manifest, d)
    BY DEF ClashesRegistered
  <2>1. packages'[e.manifest] = packages[e.manifest]
    BY <1>5 DEF RegisteredDirs
  <2>2. packages'[d].manifest.name = n /\ packages'[d].manifest.module = m
    BY <1>2 DEF Template
  <2> QED
    BY <1>1, <2>1, <2>2 DEF Clash
<1>8. UsedIds(packages', registry) = UsedIds(packages, registry)
  <2>1. \A e \in registry : EntryId(packages', e) = EntryId(packages, e)
    BY <1>5 DEF RegisteredDirs, EntryId
  <2> QED
    BY <2>1 DEF UsedIds
<1>9. UsedIds(packages, registry) \subseteq Ids
  BY <1>1, AcceptedIds DEF UsedIds
<1>10. Ids \ UsedIds(packages', registry) # {}
  BY <1>8, <1>9
<1> QED
  BY <1>1, <1>3, <1>6, <1>7, <1>10 DEF FrameAccepts

\* The same of every step of the tool; and a package that `make create` made and then
\* refused has a module whose name ends with "$".
THEOREM CreatedIsAlwaysUsable == Spec => CreatedPackageIsUsable
<1>1. ASSUME TypeOK, NEW d \in Editable, NEW n \in PackageNames, NEW m \in Identifiers
      PROVE  /\ (Create(d, n, m) /\ UsedIds(packages, registry) # Ids) =>
                  (BuildAccepts(packages', d, "unit") /\ FrameAccepts(packages', registry', d))
             /\ CreateFails(d, n, m) => (Stem[m] # m)
  BY <1>1, CreatedIsUsable, TemplateLoads DEF CreateFails
<1>2. TypeOK =>
        [\A d \in Editable, n \in PackageNames, m \in Identifiers :
           /\ (Create(d, n, m) /\ UsedIds(packages, registry) # Ids) =>
                (BuildAccepts(packages', d, "unit") /\ FrameAccepts(packages', registry', d))
           /\ CreateFails(d, n, m) => (Stem[m] # m)]_vars
  BY <1>1
<1> QED
  BY <1>2, TypeCorrect, PTL DEF Spec, CreatedPackageIsUsable
=============================================================================
