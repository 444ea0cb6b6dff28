------------------------------- MODULE Launch -------------------------------
(***************************************************************************)
(* launch.sh, the supervisor of the process: it kills a process it finds,  *)
(* starts a new one, and from then on looks every fifteen seconds whether  *)
(* one is there and starts it again if none is, for as long as the status  *)
(* file says "reload".  It is run again to bring in a new version, beside  *)
(* the copy already running.  "Is there" is what grep makes of ps: any     *)
(* process with the program's name on its command line.                    *)
(*                                                                         *)
(* A started process reads its configuration and runs, exits or crashes;   *)
(* what comes of the reading is Reading, for which module Startup has the  *)
(* parser.  The commands of one rotation of the logs are taken as one step. *)
(***************************************************************************)
EXTENDS Integers, FiniteSets, FiniteSetsExt, Functions

CONSTANTS
  Files,       \* configurations: [text, busy, ...];
               \*   bound: only if busy is there a script, else one process started by hand
  Reading(_, _), \* what a process makes of a text and a refused allocation: [outcome, ...]
  Scripts,     \* copies of the script
  MaxPid,      \* bound: process ids,
  MaxRefused   \*   the allocations refused

ASSUME PidsAssumption == MaxPid \in Nat \ {0}

VARIABLES
  file,     \* appconfig.json: one of Files
  procs,    \* ps: process id -> "starting", "loaded", "app", or "other", which has the name too
  script,   \* per copy: where it is, the process it has found (0: none), first round
  logs,     \* KotlTester_1..3.log: the age of the start they are of (0: the last), or None
  status,   \* ./apprunningstatus: "reload" or "exit"
  loaded,   \* what a process has read, while it is "loaded"
  started,  \* history: starts so far, up to two
  mixed     \* history: two copies of the script, or a process with the name, were there

vars == <<file, procs, script, logs, status, loaded, started, mixed>>

None == -1
Old  == 3     \* age of a log of three starts ago or more
Pids == 1 .. MaxPid

Apps       == {p \in DOMAIN procs : procs[p] # "other"}
Alive(s)   == script[s].pc \notin {"idle", "failed", "done"}

NothingLoaded == [outcome |-> "none"]

\* A process is no more.
Ends(p) ==
  /\ procs' = Restrict(procs, DOMAIN procs \ {p})
  /\ loaded' = IF procs[p] = "loaded" THEN NothingLoaded ELSE loaded

\* And one more is there.
Comes(p, as) == procs' = [q \in DOMAIN procs \cup {p} |-> IF q = p THEN as ELSE procs[q]]

Init ==
  /\ file \in Files
  /\ procs \in IF file.busy THEN {<<>>, <<"app">>} ELSE {<<"starting">>}
  /\ script = [s \in Scripts |-> [pc |-> "idle", found |-> 0, first |-> TRUE]]
  /\ logs = [k \in 1 .. 3 |-> None]
  /\ status = "exit"
  /\ loaded = NothingLoaded
  /\ started = 0 /\ mixed = FALSE

------------------------------------------------------------------------------
(* The script.                                                             *)

At(s, pc) == script[s].pc = pc
Goto(s, pc) == script' = [script EXCEPT ![s].pc = pc]

\* ps, grep and awk: the first process of the name, or none.
Found == IF DOMAIN procs = {} THEN 0 ELSE CHOOSE p \in DOMAIN procs : \A q \in DOMAIN procs : p <= q

Look(s, missing, found) ==
  script' = [script EXCEPT ![s].found = Found, ![s].pc = IF Found = 0 THEN missing ELSE found]

\* The script is run; without the program it ends at once.
Run(s) ==
  /\ At(s, "idle") /\ file.busy
  /\ Look(s, "rotate", "kill") \/ Goto(s, "failed")
  /\ mixed' = (mixed \/ \E t \in Scripts : Alive(t))
  /\ UNCHANGED <<file, procs, logs, status, loaded, started>>

\* Fault: the process found is left running.
KillNothing(s) ==
  /\ At(s, "kill")
  /\ IF script[s].found \in DOMAIN procs THEN Goto(s, "rotate") ELSE Goto(s, "failed")
  /\ UNCHANGED <<file, procs, logs, status, loaded, started, mixed>>

\* kill -10, which ends the process; if it is gone already kill fails and, by
\* set -e, so does the script.
Kill(s) ==
  /\ At(s, "kill")
  /\ IF script[s].found \in DOMAIN procs
     THEN Ends(script[s].found) /\ Goto(s, "rotate")
     ELSE Goto(s, "failed") /\ UNCHANGED <<procs, loaded>>
  /\ UNCHANGED <<file, logs, status, started, mixed>>

\* Fault: the second log takes the place of the first only if there is none.
RotatedKeeps(l) ==
  IF l[3] = None THEN l
  ELSE [l EXCEPT ![3] = None, ![2] = IF l[2] = None THEN l[3] ELSE l[2]]

\* If there is a third log: 2 becomes 1, 3 becomes 2; without a second the
\* first is removed all the same.
Rotated(l) == IF l[3] = None THEN l ELSE <<l[2], l[3], None>>

Rotate(s) ==
  /\ At(s, "rotate")
  /\ logs' = Rotated(logs)
  /\ Goto(s, "start")
  /\ UNCHANGED <<file, procs, status, loaded, started, mixed>>

\* nohup: the third log is overwritten; the first time the status is written.
Start(s) ==
  /\ At(s, "start")
  /\ \E p \in Pids \ DOMAIN procs : Comes(p, "starting")
  /\ logs' = [k \in 1 .. 3 |-> IF k = 3 THEN 0 ELSE IF logs[k] \in {None, Old} THEN logs[k] ELSE logs[k] + 1]
  /\ started' = Min({started + 1, 2})
  /\ script' = [script EXCEPT ![s].pc = IF script[s].first THEN "check" ELSE "next",
                              ![s].first = FALSE]
  /\ status' = IF script[s].first THEN "reload" ELSE status
  /\ UNCHANGED <<file, loaded, mixed>>

\* Fault: ps is not asked again.
CheckStale(s) ==
  /\ At(s, "check")
  /\ Goto(s, IF script[s].found = 0 THEN "rotate" ELSE "next")
  /\ UNCHANGED <<file, procs, logs, status, loaded, started, mixed>>

\* Five seconds later: is there one?
Check(s) ==
  /\ At(s, "check")
  /\ Look(s, "rotate", "next")
  /\ UNCHANGED <<file, procs, logs, status, loaded, started, mixed>>

\* And another round, if the status file says so.
Round(s) ==
  /\ At(s, "next")
  /\ Goto(s, IF status = "reload" THEN "check" ELSE "done")
  /\ UNCHANGED <<file, procs, logs, status, loaded, started, mixed>>

ScriptStep(s) == Kill(s) \/ Rotate(s) \/ Start(s) \/ Check(s) \/ Round(s)

------------------------------------------------------------------------------
(* The processes and the operator.                                         *)

\* The process reads its configuration; or cannot open it, or has no memory for
\* it, and exits.  (Bounds: one process at a time, and memory is refused only to
\* one started by hand.)
Read(p) ==
  /\ procs[p] = "starting" /\ loaded = NothingLoaded
  /\ \/ /\ \E refused \in IF file.busy THEN {0} ELSE 0 .. MaxRefused :
             loaded' = Reading(file.text, refused)
        /\ procs' = [procs EXCEPT ![p] = "loaded"]
     \/ Ends(p)
  /\ UNCHANGED <<file, script, logs, status, started, mixed>>

\* And runs with it, exits or has crashed.
Settle(p) ==
  /\ procs[p] = "loaded"
  /\ IF loaded.outcome = "runs"
     THEN procs' = [procs EXCEPT ![p] = "app"] /\ loaded' = NothingLoaded
     ELSE Ends(p)
  /\ UNCHANGED <<file, script, logs, status, started, mixed>>

\* A process ends, for whatever reason.
Die(p) ==
  /\ file.busy
  /\ procs[p] \in {"app", "other"}
  /\ Ends(p)
  /\ UNCHANGED <<file, script, logs, status, started, mixed>>

\* Somebody looks at the log, say, with the program's name in the command.
ComeUp(p) ==
  /\ file.busy /\ p \notin DOMAIN procs
  /\ \A q \in DOMAIN procs : procs[q] # "other"
  /\ Comes(p, "other")
  /\ mixed' = TRUE
  /\ UNCHANGED <<file, script, logs, status, loaded, started>>

WriteStatus ==
  /\ file.busy /\ status = "reload"
  /\ status' = "exit"
  /\ UNCHANGED <<file, procs, script, logs, loaded, started, mixed>>

Next ==
  \/ \E s \in Scripts : Run(s) \/ ScriptStep(s)
  \/ \E p \in DOMAIN procs : Read(p) \/ Settle(p) \/ Die(p)
  \/ \E p \in Pids : ComeUp(p)
  \/ WriteStatus

Spec == Init /\ [][Next]_vars

(* The shell goes on with its commands, and its sleeps end.                 *)
FairSpec == Spec /\ \A s \in Scripts : WF_vars(ScriptStep(s))

------------------------------------------------------------------------------
(* With one copy of the script at a time and nothing else of the program's *)
(* name, there are never two processes: the one found is killed before the *)
(* new one is started, and one that is still starting counts as there.     *)
OneApp == ~mixed => Cardinality(Apps) <= 1

(* Under the same conditions the logs of the last two starts are always    *)
(* there, under one name or another.                                       *)
LogsKept == ~mixed => \A age \in 0 .. started - 1 : \E k \in 1 .. 3 : logs[k] = age

(* While a copy of the script is at work, a process that is gone comes     *)
(* back.  (A copy ends when it is told to, and when the process it found   *)
(* was gone before it could be killed.)                                    *)
ComesBack ==
  \A s \in Scripts : (Alive(s) /\ DOMAIN procs = {}) ~> (DOMAIN procs # {} \/ ~Alive(s))
=============================================================================
