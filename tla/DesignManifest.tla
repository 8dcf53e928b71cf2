--------------------------- MODULE DesignManifest ---------------------------
(***************************************************************************)
(* load_design (scripts/design_registry.py): what a design package on disk   *)
(* must be before any command uses it.  load_design collects its errors and  *)
(* refuses the package if there are any, so it is a conjunction here.        *)
(*                                                                           *)
(* A package is a record: `manifest`, the fields of its design.json (an      *)
(* optional field that is missing has the default the code gives it), `tree`,*)
(* what each path in it is ("dir", "hdl" for a .v or .sv file, or "file"),   *)
(* and `text`, the modules each hdl file defines, each with the identifiers  *)
(* in its body, comments left out.  A path that leaves the package or does   *)
(* not exist is not in its tree.                                             *)
(***************************************************************************)
EXTENDS Integers, Sequences

CONSTANTS
  MaxId,         \* the last slot of the frame
  Null,          \* JSON's null, or a field that is missing and has no default
  Wrong,         \* a value of a type or form the field does not take
  Identifiers,   \* the SystemVerilog identifiers
  Stem,          \* each identifier without the "$" it may end with
  Scalars        \* the integers, the booleans, and the strings of one line without ";"

ASSUME ManifestAssumption ==
  /\ MaxId \in Nat \ {0}
  /\ Null \notin 1 .. MaxId /\ Wrong \notin 1 .. MaxId
  /\ \A x \in Identifiers : Stem[x] \in Identifiers /\ Stem[Stem[x]] = Stem[x]

Ids == 1 .. MaxId
SemanticPorts == {"clock", "reset", "io_in", "io_out", "io_oe"}
TestKinds == {"unit", "frame"}

\* _resolve_package_path
Resolves(pkg, path, kind) == path \in DOMAIN pkg.tree /\ pkg.tree[path] = kind

\* sources: a non-empty array of files that are HDL sources
AreSources(pkg, paths) ==
  /\ paths \notin {Wrong, <<>>}
  /\ \A i \in DOMAIN paths : Resolves(pkg, paths[i], "hdl")

\* _validate_mapping: the defines and the parameters
IsMapping(mapping, values) ==
  /\ mapping # Wrong
  /\ \A key \in DOMAIN mapping : key \in Identifiers /\ mapping[key] \in values

FieldsLoad(pkg) ==
  LET m == pkg.manifest IN
  /\ m.id \in Ids \union {Null}
  /\ m.name \notin {Null, Wrong}
  /\ m.module \in Identifiers
  /\ AreSources(pkg, m.sources)
  /\ m.include_dirs # Wrong
  /\ \A i \in DOMAIN m.include_dirs : Resolves(pkg, m.include_dirs[i], "dir")
  /\ IsMapping(m.defines, Scalars \union {Null})
  /\ IsMapping(m.parameters, Scalars)
  /\ m.unknown = {}

\* a port that is not mapped has its semantic name
PortOf(manifest, semantic) ==
  IF semantic \in DOMAIN manifest.ports THEN manifest.ports[semantic] ELSE semantic

PortsLoad(pkg) ==
  LET m == pkg.manifest IN
  /\ m.ports # Wrong /\ DOMAIN m.ports \subseteq SemanticPorts
  /\ \A semantic \in DOMAIN m.ports : m.ports[semantic] \in Identifiers

TestsLoad(pkg) ==
  LET tests == pkg.manifest.tests IN
  /\ tests # Wrong
  /\ \A i \in DOMAIN tests :
       /\ tests[i] # Wrong
       /\ tests[i].name \notin {Null, Wrong} /\ tests[i].kind \in TestKinds
       /\ tests[i].top \in Identifiers
       /\ AreSources(pkg, tests[i].sources)
       /\ \A j \in 1 .. i - 1 : <<tests[i].kind, tests[i].name>> # <<tests[j].kind, tests[j].name>>

\* The identifiers in which \b name \b is found: "$" is no character of a word, so a name
\* that ends with it is never found, and any other also where "$" follows.
Found(name, identifiers) == {x \in identifiers : Stem[x] = name}

\* The first source in which the top module is found has every port of it in the body.
TopHasPorts(pkg) ==
  LET m == pkg.manifest
      Modules(i) == Found(m.module, DOMAIN pkg.text[m.sources[i]])
  IN \E i \in DOMAIN m.sources :
       /\ \A j \in 1 .. i - 1 : Modules(j) = {}
       /\ \E x \in Modules(i) : \A semantic \in SemanticPorts :
            Found(PortOf(m, semantic), pkg.text[m.sources[i]][x]) # {}

\* (a variant with a bug, for the mutation checks: the body is not searched for the ports)
LoadsUnbound(pkg) == FieldsLoad(pkg) /\ PortsLoad(pkg) /\ TestsLoad(pkg)

Loads(pkg) ==
  FieldsLoad(pkg) /\ PortsLoad(pkg) /\ TestsLoad(pkg) /\ TopHasPorts(pkg)

\* _select_test: the tests a build may choose from, the first of which it takes
Selectable(pkg, kind) ==
  {i \in DOMAIN pkg.manifest.tests : pkg.manifest.tests[i].kind = kind}
=============================================================================
