------------------------------ MODULE KitExport -----------------------------
(***************************************************************************)
(* scripts/export_user_kit.py next to the integrations of                    *)
(* RegistryIntegration, and the workflow that exports, tries the kit out and *)
(* exports again (.github/workflows/user-kit.yml).  Each step of the export  *)
(* may fail (exit status 2), and the kit stays as far as it came.            *)
(*                                                                           *)
(* Of the copied text only its age matters; of the three generated files,    *)
(* and of what commit_registry writes beside them, whether they register a   *)
(* design.                                                                   *)
(***************************************************************************)
EXTENDS RegistryIntegration

VARIABLES
  export,       \* the next step, or how the last export ended
  kit,          \* the age of each part of build/user-kit
  generated,    \* the three generated files in it
  temporary,    \* whether a copy or backup of commit_registry in it registers a design
  leftover      \* whether one is left beside main's files that no command deletes

kitVars == <<export, kit, generated, temporary>>

Parts == {"directory", "files", "trees", "docs", "metadata", "left"}
Ages == {"absent", "old", "new"}
Steps == {"making", "files", "trees", "docs", "registry", "rtl", "filelist", "metadata"}

\* what a version of main's file registers
Content(version) ==
  CASE version = Absent -> "absent" [] version = {} -> "blank" [] OTHER -> "users"

KitInit ==
  /\ export = "none" /\ kit = [part \in Parts |-> "absent"]
  /\ generated = [f \in Files |-> "absent"]
  /\ temporary = FALSE /\ leftover = FALSE

-----------------------------------------------------------------------------
(* The hidden files commit_registry keeps in rtl/generated: copies of the      *)
(* staged rtl and filelist, which register the integrator's design, and        *)
(* backups.  (Those of the registry are in designs/, which is not copied.)     *)

IsCopied(p, f) ==
  \/ pc[p] = "copying" /\ f <= step[p]
  \/ pc[p] = "replacing" /\ f > step[p]
IsBackedUp(p, f) ==
  /\ pc[p] \in {"copying", "replacing", "tidying"} \/ (pc[p] = "restoring" /\ f > step[p])
  /\ Content(backup[p][f]) = "users"
HasTemporary(p) == \E f \in {Rtl, Filelist} : IsCopied(p, f) \/ IsBackedUp(p, f)

\* What the history gains when a commit ends: a copy that fails may leave what it wrote,
\* which is in neither list of the files to delete; a commit that is killed, or cannot
\* delete its files, leaves those.
LeavesBehind(p) ==
  \/ pc[p] = "copying" /\ step[p] > 0 /\ pc'[p] = "restoring"
  \/ /\ {"stop", "unlink"} \cap FAULTS # {} /\ pc'[p] = "broken"
     /\ HasTemporary(p) \/ (pc[p] = "restoring" /\ step[p] = 0)
CommitsLeave ==
  leftover' \in {leftover} \union IF \E p \in Integrators : LeavesBehind(p) THEN {TRUE} ELSE {}

-----------------------------------------------------------------------------

\* the step that is due, and the part it brings
ExportStep(here, next, part) ==
  /\ export = here /\ export' = next
  /\ kit' = [kit EXCEPT ![part] = "new"]

\* The manifest is read before anything is deleted.  rmtree ignores its errors: what it
\* cannot delete (one part at most, a bound) stays, and the directory with it.
Clean ==
  /\ export \notin Steps
  /\ export' = "making"
  /\ \E kept \in {{}} \union {{"directory", part} : part \in {p \in Parts : kit[p] # "absent"}} :
       /\ kit' = [part \in Parts |-> IF part \in kept THEN "old" ELSE "absent"]
       /\ generated' = [f \in Files |->
            IF (IF f = Registry THEN "files" ELSE "trees") \in kept THEN generated[f] ELSE "absent"]
       /\ temporary' = (temporary /\ "trees" \in kept)

\* (a variant with a bug, for the mutation checks: exist_ok)
MakeDirectoryIfMissing == ExportStep("making", "files", "directory") /\ UNCHANGED <<generated, temporary>>

\* mkdir refuses a directory that exists
MakeDirectory ==
  /\ kit["directory"] = "absent"
  /\ ExportStep("making", "files", "directory") /\ UNCHANGED <<generated, temporary>>

\* main's registry is one of the files, its rtl and filelist are in a tree
CopyFiles ==
  /\ ExportStep("files", "trees", "files")
  /\ generated' = [generated EXCEPT ![Registry] = Content(file[Registry])]
  /\ UNCHANGED temporary

CopyTrees ==
  /\ kit["trees"] = "absent"      \* copytree refuses a directory that exists
  /\ ExportStep("trees", "docs", "trees")
  /\ generated' = [f \in Files |-> IF f = Registry THEN generated[f] ELSE Content(file[f])]
  /\ temporary' = (leftover \/ \E p \in Integrators : HasTemporary(p))

\* the public documents, and the overrides
CopyDocs == ExportStep("docs", "registry", "docs") /\ UNCHANGED <<generated, temporary>>

\* (a variant with a bug, for the mutation checks: the rtl is rendered from main's registry)
ResetRegistryOnly(here, f, next) ==
  /\ export = here /\ export' = next
  /\ generated' = [generated EXCEPT ![f] = IF f = Registry THEN "blank" ELSE @]
  /\ UNCHANGED <<kit, temporary>>

\* reset_generated_registry writes its files one after the other, and looks at no other
ResetGenerated(here, f, next) ==
  /\ export = here /\ export' = next
  /\ generated' = [generated EXCEPT ![f] = "blank"]
  /\ UNCHANGED <<kit, temporary>>

WriteMetadata == ExportStep("metadata", "passed", "metadata") /\ UNCHANGED <<generated, temporary>>

ExportFails ==
  /\ export \in Steps
  /\ export' = "failed" /\ UNCHANGED <<kit, generated, temporary>>

\* create, check, trace and wave in the kit: build/ and a package are left behind
UseKit ==
  /\ export = "passed"
  /\ export' = "used" /\ kit' = [kit EXCEPT !["left"] = "new"]
  /\ UNCHANGED <<generated, temporary>>

KitNext ==
  \/ Clean \/ MakeDirectory \/ CopyFiles \/ CopyTrees \/ CopyDocs
  \/ ResetGenerated("registry", Registry, "rtl")
  \/ ResetGenerated("rtl", Rtl, "filelist")
  \/ ResetGenerated("filelist", Filelist, "metadata")
  \/ WriteMetadata \/ ExportFails \/ UseKit

\* The registry, the rtl and the filelist of a kit whose export passed are those of a
\* frame with design 0 alone, whatever is integrated while they are copied.
ExportedIsBlank == export = "passed" => generated = [f \in Files |-> "blank"]

\* "maintainer-integrated user RTL is never included in the public User Kit", in no file
\* of it.
ExportedHasNoUserRtl == ExportedIsBlank /\ (export = "passed" => ~temporary)

\* Nothing of an earlier export, of a failed one, or of the use of the kit is in it.
ExportedIsClean ==
  export = "passed" =>
    kit = [part \in Parts |-> IF part = "left" THEN "absent" ELSE "new"]
=============================================================================
