--------------------------- MODULE RegressionRun ----------------------------
(***************************************************************************)
(* RegressionRunner.run (scripts/run_regression.py): one command of a        *)
(* regression.  The runner's thread reads the command's output to the end,   *)
(* waits for the command and judges it; the timer's thread may kill the      *)
(* process group meanwhile.  The command is make: a leader, with the         *)
(* compilers and simulators below it, which share its group and its output.  *)
(***************************************************************************)
EXTENDS Naturals, FiniteSets

CONSTANTS Members      \* the processes a leader may have below it at one time

VARIABLES
  runner,       \* the runner's thread
  timer,        \* the timer's thread
  timed_out,    \* the event the two threads share
  leader,       \* "running", or how it ended
  members,      \* the rest of its group, every one with the pipe open
  killed        \* history: the timer's signal met a live process

runVars == <<runner, timer, timed_out, leader, members, killed>>

RunInit ==
  /\ runner = "idle" /\ timer = "off" /\ leader = "exit 0"
  /\ members = {} /\ timed_out = FALSE /\ killed = FALSE

\* Popen, and a timer if a timeout is given.  A timer of an earlier command that is
\* still on its way has an event of its own and a group that is gone.
Popen(timeout) ==
  /\ runner = "idle"
  /\ runner' = "reading" /\ leader' = "running" /\ members' = {}
  /\ timer' = IF timeout THEN "armed" ELSE "off"
  /\ timed_out' = FALSE /\ killed' = FALSE

-----------------------------------------------------------------------------
(* The process group. *)

Fork ==
  /\ leader = "running" \/ members # {}
  /\ \E m \in Members \ members : members' = members \union {m}
  /\ UNCHANGED <<runner, timer, timed_out, leader, killed>>

Exit ==
  /\ \/ leader = "running" /\ leader' \in {"exit 0", "exit 1"} /\ UNCHANGED members
     \/ UNCHANGED leader /\ \E m \in members : members' = members \ {m}
  /\ UNCHANGED <<runner, timer, timed_out, killed>>

-----------------------------------------------------------------------------
(* The runner's thread. *)

\* the pipe gives end of file when the last process that holds it has ended
EndOfFile ==
  /\ runner = "reading" /\ leader # "running" /\ members = {}
  /\ runner' = "waiting"
  /\ UNCHANGED <<timer, timed_out, leader, members, killed>>

Wait ==
  /\ runner = "waiting"
  /\ runner' = "ended"
  /\ UNCHANGED <<timer, timed_out, leader, members, killed>>

Cancel ==
  /\ runner = "ended"
  /\ runner' = "judging"
  /\ timer' = IF timer = "armed" THEN "off" ELSE timer
  /\ UNCHANGED <<timed_out, leader, members, killed>>

Verdict ==
  CASE timed_out -> "timeout"
    [] ~timed_out /\ leader = "exit 0" -> "pass"
    [] OTHER -> "fail"

Judge ==
  /\ runner = "judging"
  /\ runner' = "idle"
  /\ UNCHANGED <<timer, timed_out, leader, members, killed>>

-----------------------------------------------------------------------------
(* stop_process_group, in the timer's thread. *)

\* poll finds no exit status: the leader runs, or the runner's wait holds the lock
StillRuns == leader = "running" \/ runner = "waiting"

Fire ==
  /\ timer = "armed"
  /\ timer' = IF StillRuns THEN "setting" ELSE "off"
  /\ UNCHANGED <<runner, timed_out, leader, members, killed>>

SetTimedOut ==
  /\ timer = "setting"
  /\ timer' = "killing" /\ timed_out' = TRUE
  /\ UNCHANGED <<runner, leader, members, killed>>

\* (a variant with a bug, for the mutation checks: the leader alone is killed)
KillLeader ==
  /\ timer = "killing"
  /\ timer' = "off" /\ killed' = (leader = "running")
  /\ leader' = IF leader = "running" THEN "killed" ELSE leader
  /\ UNCHANGED <<runner, timed_out, members>>

\* SIGKILL to the group, if there still is one
Kill ==
  /\ timer = "killing"
  /\ timer' = "off"
  /\ killed' = (leader = "running" \/ members # {})
  /\ leader' = IF leader = "running" THEN "killed" ELSE leader
  /\ members' = {}
  /\ UNCHANGED <<runner, timed_out>>

\* (a variant with a bug, for the mutation checks: the timer kills before it says so)
KillBeforeSet ==
  \/ Fire
  \/ /\ timer = "setting" /\ timer' = "killing"
     /\ killed' = (leader = "running" \/ members # {})
     /\ leader' = IF leader = "running" THEN "killed" ELSE leader
     /\ members' = {}
     /\ UNCHANGED <<runner, timed_out>>
  \/ /\ timer = "killing" /\ timer' = "off" /\ timed_out' = TRUE
     /\ UNCHANGED <<runner, leader, members, killed>>

Runner == EndOfFile \/ Wait \/ Cancel
Timer == Fire \/ SetTimedOut \/ Kill
Group == Fork \/ Exit

-----------------------------------------------------------------------------
(* Properties. *)

RunTypeOK ==
  /\ runner \in {"idle", "reading", "waiting", "ended", "judging"}
  /\ timer \in {"off", "armed", "setting", "killing"}
  /\ timed_out \in BOOLEAN /\ killed \in BOOLEAN
  /\ leader \in {"running", "exit 0", "exit 1", "killed"}
  /\ members \subseteq Members

\* A command the timer killed is reported as a timeout, never as a plain failure and
\* never as a pass, however the two threads interleave.
KilledMeansTimeout == runner = "judging" /\ killed => Verdict = "timeout"

\* The leader ended by itself and left processes behind that hold the pipe.
Orphaned == leader \in {"exit 0", "exit 1"} /\ members # {}

\* A command with a timeout is judged at last even if it never ends by itself, unless
\* its leader leaves processes behind: then the timer does nothing.
TimedRunEnds == (runner = "reading" /\ timer = "armed") ~> (runner = "idle" \/ Orphaned)
=============================================================================
