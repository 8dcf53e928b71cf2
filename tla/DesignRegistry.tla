--------------------------- MODULE DesignRegistry ---------------------------
(***************************************************************************)
(* The commands of scripts/design_registry.py that work on the packages      *)
(* below designs/ and on designs/registry.json, with the flows of mk/user.mk *)
(* and mk/dev.mk that run them: `make create`, `make check` without DESIGN,  *)
(* `make integrate-design`.  Between two commands users edit packages, and   *)
(* remove and move them.                                                     *)
(*                                                                           *)
(* What is in the registry file is a set of entries, since load_registry     *)
(* sorts them by id.  The files integrate-design replaces are one step here; *)
(* RegistryIntegration takes that step apart.                                *)
(***************************************************************************)
EXTENDS DesignManifest, FiniteSets

CONSTANTS
  Dirs,             \* the directories below designs/
  Editable,         \* those the users may write
  Absent,           \* "the path does not exist"
  Contents,         \* the packages the users may write
  InitPackages,     \* the packages in the directories to begin with
  InitRegistries,   \* the registries
  PackageNames,     \* the names of the form create_design_package accepts
  DefaultModule,    \* default_module_name of each
  TopNames,         \* the names users may give the top module
  Roots             \* where the repository may be checked out

VARIABLES
  packages,     \* what is in each directory
  registry,     \* the entries of registry.json
  check         \* `make check`: phases done, the packages they found, and (history)
                \* the directories written since it began

vars == <<packages, registry, check>>

\* the package itself may not be there though its directory is
HasManifest(pkg) == pkg # Absent /\ pkg.manifest # Null

ASSUME RegistryAssumption ==
  /\ Editable \subseteq Dirs
  /\ InitPackages \subseteq [Dirs -> Contents \union {Absent}]
  /\ InitRegistries \subseteq SUBSET [id : Ids \union {Null, Wrong}, manifest : Dirs]

LoadsAt(pkgs, d) ==
  HasManifest(pkgs[d]) /\ pkgs[d].manifest # Wrong /\ Loads(pkgs[d])

-----------------------------------------------------------------------------
(* load_registry.  An entry is [id, manifest]; a legacy entry, which is only  *)
(* a path, has the id Null and takes that of its package.                     *)

EntryId(pkgs, e) == IF e.id = Null THEN pkgs[e.manifest].manifest.id ELSE e.id

EntryLoads(pkgs, e) ==
  LET pkg == pkgs[e.manifest] IN
  /\ LoadsAt(pkgs, e.manifest)
  /\ EntryId(pkgs, e) \in Ids
  /\ pkg.manifest.id \in {Null, EntryId(pkgs, e)}
  /\ \A kind \in TestKinds : Selectable(pkg, kind) # {}

\* two packages that cannot both be registered
Clash(pkgs, c, d) ==
  \/ pkgs[c].manifest.name = pkgs[d].manifest.name
  \/ pkgs[c].manifest.module = pkgs[d].manifest.module

\* (a variant with a bug, for the mutation checks: two entries may have one id)
AcceptsSharedIds(pkgs, reg) ==
  /\ \A e \in reg : EntryLoads(pkgs, e)
  /\ \A e, f \in reg :
       e # f => e.manifest # f.manifest /\ ~Clash(pkgs, e.manifest, f.manifest)

Accepts(pkgs, reg) ==
  /\ \A e \in reg : EntryLoads(pkgs, e)
  /\ \A e, f \in reg :
       e # f => /\ e.manifest # f.manifest /\ ~Clash(pkgs, e.manifest, f.manifest)
                /\ EntryId(pkgs, e) # EntryId(pkgs, f)

\* the designs of a registry that was accepted, each with its id
Resolved(pkgs, reg) == {[id |-> EntryId(pkgs, e), manifest |-> e.manifest] : e \in reg}

RegisteredDirs(reg) == {e.manifest : e \in reg}
UsedIds(pkgs, reg) == {EntryId(pkgs, e) : e \in reg}
ClashesRegistered(pkgs, reg, d) ==
  \E e \in reg : e.manifest # d /\ Clash(pkgs, e.manifest, d)

-----------------------------------------------------------------------------
(* design-build and the Frame test's registry. *)

\* lint needs the package only
BuildAccepts(pkgs, d, kind) == LoadsAt(pkgs, d) /\ Selectable(pkgs[d], kind) # {}

\* (a variant with a bug, for the mutation checks: nothing is compared)
FrameAcceptsClash(pkgs, reg, d) ==
  /\ BuildAccepts(pkgs, d, "frame") /\ Accepts(pkgs, reg)
  /\ d \in RegisteredDirs(reg) \/ Ids \ UsedIds(pkgs, reg) # {}

FrameAccepts(pkgs, reg, d) ==
  /\ BuildAccepts(pkgs, d, "frame") /\ Accepts(pkgs, reg)
  /\ \/ d \in RegisteredDirs(reg)
     \/ ~ClashesRegistered(pkgs, reg, d) /\ Ids \ UsedIds(pkgs, reg) # {}

\* (a variant with a bug, for the mutation checks: the number of designs is the last id)
FrameIdCounted(pkgs, reg, d) ==
  IF d \in RegisteredDirs(reg)
    THEN (CHOOSE e \in Resolved(pkgs, reg) : e.manifest = d).id
    ELSE Cardinality(reg) + 1

\* the slot the Frame test selects: the design's own, or the first that is free
FrameId(pkgs, reg, d) ==
  IF d \in RegisteredDirs(reg)
    THEN (CHOOSE e \in Resolved(pkgs, reg) : e.manifest = d).id
    ELSE LET free == Ids \ UsedIds(pkgs, reg) IN
         CHOOSE i \in free : \A j \in free : i <= j

FrameRegistry(pkgs, reg, d) ==
  Resolved(pkgs, reg) \union {[id |-> FrameId(pkgs, reg, d), manifest |-> d]}

-----------------------------------------------------------------------------
(* What is rendered from the designs of a registry. *)

Mask(designs) == {0} \union {e.id : e \in designs}

\* what drives the outputs of slot k of FrameDesignRegistry
Drivers(designs, k) ==
  (IF k = 0 THEN {<<"reference">>} ELSE {})
    \union {<<"design", e.manifest>> : e \in {f \in designs : f.id = k}}
    \union (IF k \in Mask(designs) THEN {} ELSE {<<"tie-off">>})

\* the wrapper: the module it instantiates, its parameters and the ports it connects
Wrapper(pkg) ==
  LET m == pkg.manifest IN
  [module |-> m.module,
   parameters |-> [key \in DOMAIN m.parameters |->
                     IF key = "IO_WIDTH" THEN "IO_WIDTH" ELSE m.parameters[key]],
   ports |-> [semantic \in SemanticPorts |-> PortOf(m, semantic)]]

\* Lines of a filelist.  relative_to takes the root out of a source, not out of a line
\* that begins with "+".
FilelistLines(pkg, d, root, relative) ==
  LET m == pkg.manifest IN
  {<<"+define+", key, m.defines[key]>> : key \in DOMAIN m.defines}
    \union {<<"+incdir+", root, d, m.include_dirs[i]>> : i \in DOMAIN m.include_dirs}
    \union {<<"source", IF relative THEN Null ELSE root, d, m.sources[i]>> :
              i \in DOMAIN m.sources}

RegistryFilelist(pkgs, designs, root, relative) ==
  UNION {FilelistLines(pkgs[e.manifest], e.manifest, root, relative) : e \in designs}

-----------------------------------------------------------------------------
(* create-design. *)

\* the package designs/template makes, and what is there of it if the command is
\* interrupted: the directory alone, or design.json, which is written first
Template(n, module) ==
  LET test(t, k, file) ==
        [name |-> t, kind |-> k, top |-> "Tb", sources |-> <<file>>]
  IN [manifest |->
        [id |-> Null, name |-> n, module |-> module, sources |-> <<"rtl/M.sv">>,
         include_dirs |-> <<>>, defines |-> <<>>, ports |-> <<>>, unknown |-> {},
         parameters |-> [IO_WIDTH |-> 66],
         tests |-> <<test("io", "unit", "tests/MTb.sv"),
                     test("frame", "frame", "tests/FrameMTb.sv")>>],
      tree |-> [path \in {"rtl/M.sv", "tests/MTb.sv", "tests/FrameMTb.sv"} |-> "hdl"],
      text |-> [path \in {"rtl/M.sv"} |-> [x \in {module} |-> SemanticPorts]]]
NoManifest == [manifest |-> Null]
ManifestOnly(n, module) == [Template(n, module) EXCEPT !.tree = <<>>]

ASSUME TemplateAssumption ==
  /\ {"IO_WIDTH", "Tb"} \union SemanticPorts \subseteq Identifiers /\ 66 \in Scalars
  /\ \A semantic \in SemanticPorts : Stem[semantic] = semantic
  /\ \A n \in PackageNames : n \notin {Null, Wrong}
  /\ \A n \in PackageNames, module \in Identifiers :
       LET m == Template(n, module).manifest IN
       /\ Template(n, module) # Absent /\ m # Null
       /\ Wrong \notin {m, m.sources, m.include_dirs, m.defines, m.parameters, m.ports, m.tests}
       /\ \A i \in DOMAIN m.tests : Wrong \notin {m.tests[i], m.tests[i].name, m.tests[i].sources}
                                    /\ m.tests[i].name # Null

\* (a variant with a bug, for the mutation checks: the modules are not compared)
CreateAcceptsAnyModule(d, n, module) ==
  /\ n \in PackageNames /\ module \in Identifiers
  /\ packages[d] = Absent
  /\ Accepts(packages, registry)
  /\ \A e \in registry : packages[e.manifest].manifest.name # n

CreateAccepts(d, n, module) ==
  /\ n \in PackageNames /\ module \in Identifiers
  /\ packages[d] = Absent
  /\ Accepts(packages, registry)
  /\ \A e \in registry :
       packages[e.manifest].manifest.name # n /\ packages[e.manifest].manifest.module # module

\* what a command or a user makes of some packages
Write(pkgs) ==
  LET written == {c \in Dirs : pkgs[c] # packages[c]}
      running == check.phase \in {1, 2}
  IN /\ packages' = pkgs
     /\ check' = [check EXCEPT !.written = IF running THEN @ \union written ELSE @]
     /\ UNCHANGED registry

\* The package is loaded when it has been written.
Create(d, n, module) ==
  /\ CreateAccepts(d, n, module) /\ Loads(Template(n, module))
  /\ Write([packages EXCEPT ![d] = Template(n, module)])

\* If that fails, so does the command, and the package stays where it is.
CreateFails(d, n, module) ==
  /\ CreateAccepts(d, n, module) /\ ~Loads(Template(n, module))
  /\ Write([packages EXCEPT ![d] = Template(n, module)])

CreateInterrupted(d, n, module) ==
  /\ CreateAccepts(d, n, module)
  /\ \E part \in {NoManifest, ManifestOnly(n, module)} : Write([packages EXCEPT ![d] = part])

-----------------------------------------------------------------------------
(* integrate-design, and what `make integrate-design` does with the result. *)

IntegrateAccepts(pkgs, reg, d, i) ==
  /\ i \in Ids /\ Accepts(pkgs, reg) /\ LoadsAt(pkgs, d)
  /\ d \notin RegisteredDirs(reg) /\ i \notin UsedIds(pkgs, reg)
  /\ ~ClashesRegistered(pkgs, reg, d)
  /\ pkgs[d].manifest.id \in {Null, i}

\* the entries are all written with their ids
Integrated(pkgs, reg, d, i) == Resolved(pkgs, reg) \union {[id |-> i, manifest |-> d]}

\* (a variant with a bug, for the mutation checks: what is staged is not loaded again)
IntegrateUnloaded(d, i) ==
  /\ IntegrateAccepts(packages, registry, d, i)
  /\ registry' = Integrated(packages, registry, d, i)
  /\ UNCHANGED <<packages, check>>

\* generate-registry loads what integrate-design staged, and the Frame test passes
Integrate(d, i) ==
  /\ IntegrateAccepts(packages, registry, d, i)
  /\ Accepts(packages, Integrated(packages, registry, d, i))
  /\ registry' = Integrated(packages, registry, d, i)
  /\ UNCHANGED <<packages, check>>

-----------------------------------------------------------------------------
(* `make check` without DESIGN: lint, unit tests and Frame test, for each of  *)
(* which find-user-design looks the package up again.                         *)

\* (a variant with a bug, for the mutation checks: one of several is as good as another)
FindAny(pkgs, reg, d) ==
  /\ Accepts(pkgs, reg) /\ LoadsAt(pkgs, d) /\ d \notin RegisteredDirs(reg)

FindUserDesign(pkgs, reg, d) ==
  /\ Accepts(pkgs, reg) /\ LoadsAt(pkgs, d)
  /\ {c \in Dirs : HasManifest(pkgs[c]) /\ c \notin RegisteredDirs(reg)} = {d}

NotChecking == [phase |-> 0, seen |-> {}, written |-> {}]

\* (a variant with a bug, for the mutation checks: a check does not begin again)
CheckStepOnly(d) ==
  /\ FindUserDesign(packages, registry, d)
  /\ check' = [check EXCEPT !.phase = @ + 1, !.seen = @ \union {d}]
  /\ UNCHANGED <<packages, registry>>

CheckStep(d) ==
  LET now == IF check.phase = 3 THEN NotChecking ELSE check IN
  /\ FindUserDesign(packages, registry, d)
  /\ now.phase = 1 => BuildAccepts(packages, d, "unit")
  /\ now.phase = 2 => FrameAccepts(packages, registry, d)
  /\ check' = [now EXCEPT !.phase = @ + 1, !.seen = @ \union {d}]
  /\ UNCHANGED <<packages, registry>>

\* a lookup, a build or a test fails
CheckFails ==
  /\ check.phase \in {1, 2}
  /\ check' = NotChecking
  /\ UNCHANGED <<packages, registry>>

-----------------------------------------------------------------------------
(* What users do between two commands: write a package, or remove its          *)
(* design.json or all of it; move it to a directory that is free.              *)

Edit(d) ==
  \E pkg \in Contents \union {Absent, NoManifest} : Write([packages EXCEPT ![d] = pkg])

Move(c, d) ==
  /\ packages[c] # Absent /\ packages[d] = Absent
  /\ Write([packages EXCEPT ![c] = Absent, ![d] = packages[c]])

Init ==
  /\ packages \in InitPackages
  /\ registry \in InitRegistries
  /\ check = NotChecking

Next ==
  \/ \E d \in Editable : Edit(d)
  \/ \E c, d \in Editable : Move(c, d)
  \/ \E d \in Editable, n \in PackageNames, module \in TopNames \union {Null} :
       LET m == IF module = Null THEN DefaultModule[n] ELSE module IN
       Create(d, n, m) \/ CreateFails(d, n, m) \/ CreateInterrupted(d, n, m)
  \/ \E d \in Dirs, i \in 0 .. MaxId + 1 : Integrate(d, i)
  \/ \E d \in Dirs : CheckStep(d)
  \/ CheckFails

Spec == Init /\ [][Next]_vars

-----------------------------------------------------------------------------
(* Properties. *)

Packages == Contents \union {Absent, NoManifest}
  \union {Template(n, m) : n \in PackageNames, m \in Identifiers}
  \union {ManifestOnly(n, m) : n \in PackageNames, m \in Identifiers}
Entries == [id : Ids \union {Null, Wrong}, manifest : Dirs]
TypeOK ==
  /\ packages \in [Dirs -> Packages]
  /\ registry \subseteq Entries
  /\ check \in [phase : 0 .. 3, seen : SUBSET Dirs, written : SUBSET Dirs]

\* "IDs, names, modules, and manifest paths must be unique": each slot of the RTL
\* rendered from a registry that is accepted, or from a Frame test's registry, has
\* exactly one driver: design 0, one design, or the tie-off.  The slot a Frame test
\* selects is driven by the design it is of.
OneDriver(designs) ==
  \A k \in 0 .. MaxId : \E source \in Drivers(designs, k) : Drivers(designs, k) = {source}
SlotsDrivenOnce ==
  /\ Accepts(packages, registry) => OneDriver(Resolved(packages, registry))
  /\ \A d \in Dirs : FrameAccepts(packages, registry, d)
       => LET designs == FrameRegistry(packages, registry, d) IN
          /\ OneDriver(designs)
          /\ Drivers(designs, FrameId(packages, registry, d)) = {<<"design", d>>}

\* The wrapper of a registered design instantiates a module that a source of the
\* generated filelist defines, and each port it connects is in that module's body, in
\* packages whose sources have no module and no identifier in a body that ends with "$".
NoDollar(pkg) ==
  \A i \in DOMAIN pkg.manifest.sources :
    LET modules == pkg.text[pkg.manifest.sources[i]] IN
    \A x \in DOMAIN modules : Stem[x] = x /\ \A y \in modules[x] : Stem[y] = y
WrappersBind ==
  Accepts(packages, registry) =>
    \A e \in registry, root \in Roots, relative \in BOOLEAN :
      LET pkg == packages[e.manifest]  w == Wrapper(pkg) IN
      NoDollar(pkg) =>
        \E path \in DOMAIN pkg.tree :
          /\ <<"source", IF relative THEN Null ELSE root, e.manifest, path>>
               \in RegistryFilelist(packages, Resolved(packages, registry), root, relative)
          /\ w.module \in DOMAIN pkg.text[path]
          /\ \A semantic \in SemanticPorts : w.ports[semantic] \in pkg.text[path][w.module]

\* What design-build accepts as lint, unit test and Frame test of a package that is
\* not registered, integrate-design accepts at every free id the package allows, and
\* the registry it writes loads: a contributor's `make check` is enough.
CheckedCanBeIntegrated ==
  \A d \in Dirs, i \in Ids :
    /\ BuildAccepts(packages, d, "unit") /\ FrameAccepts(packages, registry, d)
    /\ d \notin RegisteredDirs(registry)
    /\ i \notin UsedIds(packages, registry) /\ packages[d].manifest.id \in {Null, i}
    => /\ IntegrateAccepts(packages, registry, d, i)
       /\ Accepts(packages, Integrated(packages, registry, d, i))

\* While nobody edits a registered package, no command makes the registry unreadable
\* or takes a design out of its slot.
ToolKeepsRegistry ==
  [][/\ Accepts(packages, registry)
     /\ \A d \in RegisteredDirs(registry) : packages'[d] = packages[d]
     => /\ Accepts(packages', registry')
        /\ Resolved(packages, registry) \subseteq Resolved(packages', registry')]_vars

\* What `make create` reports as made, `make check` accepts at once, unless every slot
\* is taken; and it makes what it then refuses only of a module name that ends with "$".
CreatedPackageIsUsable ==
  [][\A d \in Editable, n \in PackageNames, m \in Identifiers :
       /\ (Create(d, n, m) /\ UsedIds(packages, registry) # Ids) =>
            (BuildAccepts(packages', d, "unit") /\ FrameAccepts(packages', registry', d))
       /\ CreateFails(d, n, m) => (Stem[m] # m)]_vars

\* Of the packages nobody wrote, removed or moved while a `make check` ran, it tested one
\* at most, though each of its three lookups may find another and maintainers may register
\* the one it began with.
CheckTestsOnePackage ==
  check.phase = 3 => \A c, d \in check.seen \ check.written : c = d
=============================================================================
