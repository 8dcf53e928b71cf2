---------------------------- MODULE RegistryCheck ---------------------------
(***************************************************************************)
(* `make registry-check` (check-registry of scripts/design_registry.py) next *)
(* to the integrations of RegistryIntegration.  It reads the registry, then  *)
(* the rtl, then the filelist, and nothing locks them meanwhile.             *)
(***************************************************************************)
EXTENDS RegistryIntegration

VARIABLES
  checker,      \* files read, or the verdict
  expected,     \* the version the registry held: what the others are compared with
  agreed        \* history: the versions all three files had at one time since the start

checkVars == <<checker, expected, agreed>>

Agreement == {file[f] : f \in Files}
NowAgreed == IF \E v \in Versions : Agreement = {v} THEN Agreement ELSE {}

CheckInit == checker = "none" /\ expected = {} /\ agreed = {}

\* load_registry
CheckLoads ==
  /\ checker \in {"none", "passed", "stale"}
  /\ checker' = "loaded" /\ expected' = file[Registry] /\ agreed' = NowAgreed

CheckStale ==
  /\ \/ checker = "loaded" /\ file[Rtl] # expected
     \/ checker = "rtl" /\ file[Filelist] # expected
  /\ checker' = "stale" /\ expected' = {} /\ agreed' = {}

CheckRtl ==
  /\ checker = "loaded" /\ file[Rtl] = expected
  /\ checker' = "rtl" /\ UNCHANGED <<expected, agreed>>

\* (a variant with a bug, for the mutation checks: the filelist only has to be there)
CheckFilelistExists ==
  /\ checker = "rtl" /\ file[Filelist] # Absent
  /\ checker' = "passed" /\ UNCHANGED <<expected, agreed>>

CheckFilelist ==
  /\ checker = "rtl" /\ file[Filelist] = expected
  /\ checker' = "passed" /\ UNCHANGED <<expected, agreed>>

CheckNext == CheckLoads \/ CheckStale \/ CheckRtl \/ CheckFilelist

\* what the history gains when the files change
CheckSees ==
  /\ UNCHANGED <<checker, expected>>
  /\ agreed' = agreed \union
       IF checker \in {"loaded", "rtl"} THEN NowAgreed' ELSE {}

\* A check that passed tells of a state the checkout was in: at one time since it
\* began, all three files were of the version it read, though it read them one by one
\* and an integration may have replaced or restored them in between.
CheckPassMeansAgreed == checker = "passed" => expected \in agreed
=============================================================================
