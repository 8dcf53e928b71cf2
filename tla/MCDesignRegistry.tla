-------------------------- MODULE MCDesignRegistry --------------------------
(* Three package directories, two slots; the third package is old: it has an id   *)
(* of its own and may be registered by its path alone.                            *)
EXTENDS DesignRegistry, TLC
CONSTANTS x, y, z
MCIdentifiers == SemanticPorts \union {"AB", "T", "Tb", "T$", "Old", "IO_WIDTH", "rst", "WIDTH"}
MCStem == [name \in MCIdentifiers |-> IF name = "T$" THEN "T" ELSE name]
MCDefaultModule == [n \in {"a-b", "a.b"} |-> "AB"]
\* a package with every optional field; its reset port has another name
Old == [Template("old", "Old") EXCEPT
  !.manifest.id = 1, !.manifest.include_dirs = <<"include">>,
  !.manifest.defines = [WIDTH |-> Null], !.manifest.ports = [reset |-> "rst"],
  !.tree = @ @@ [path \in {"include"} |-> "dir"],
  !.text = [path \in {"rtl/M.sv"} |->
              "Old" :> (SemanticPorts \union {"rst"}) \ {"reset"}]]
\* no Frame test; the top module has no port io_oe; a top module that is found only
\* because "$" follows its name
NoFrame == [Template("a-b", "AB") EXCEPT !.manifest.tests = <<@[1]>>]
NoPort == [Template("a.b", "AB") EXCEPT
  !.text = [path \in {"rtl/M.sv"} |-> "AB" :> SemanticPorts \ {"io_oe"}]]
Dollar == [Template("a.b", "T") EXCEPT
  !.text = [path \in {"rtl/M.sv"} |-> "T$" :> SemanticPorts]]
MCContents == {Old, NoFrame, NoPort, Dollar, Template("a-b", "AB")}
MCInitPackages == {pkgs \in [{x, y, z} -> MCContents \union {Absent}] :
                     pkgs[z] \in {Old, Template("a-b", "AB")}}
MCInitRegistries == {{}, {[id |-> Null, manifest |-> z]},
  {[id |-> 2, manifest |-> x], [id |-> 2, manifest |-> z]},
  {[id |-> 2, manifest |-> x], [id |-> Null, manifest |-> z]}}
=============================================================================
