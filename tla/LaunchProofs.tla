---------------------------- MODULE LaunchProofs ----------------------------
(***************************************************************************)
(* What holds of launch.sh for any number of copies and of process ids,    *)
(* whatever a process makes of its configuration.                          *)
(***************************************************************************)
EXTENDS Launch, FiniteSetTheorems, TLAPS

Places == {"idle", "failed", "done", "kill", "rotate", "start", "check", "next"}
Copy   == [pc : Places, found : Nat, first : BOOLEAN]

ScriptOK ==
  /\ script \in [Scripts -> Copy]
  /\ logs \in [1 .. 3 -> None .. Old]
  /\ started \in 0 .. 2
  /\ mixed \in BOOLEAN

TypeOK ==
  /\ DOMAIN procs \subseteq Nat \ {0}
  /\ procs = [p \in DOMAIN procs |-> procs[p]]
  /\ ScriptOK

(* There is a first among any of the processes (there are only so many).   *)
Ordered ==
  \A P \in SUBSET DOMAIN procs : P # {} => \E p \in P : \A q \in P : p <= q

(* Nothing of the program's name but what one copy of the script, or       *)
(* nobody, has started: one process at most, and none while the copy is    *)
(* about to start one.  It is that copy that has found it.                 *)
Alone ==
  /\ \A p, q \in DOMAIN procs : p = q
  /\ \A p \in DOMAIN procs : procs[p] # "other"
  /\ \A s, t \in Scripts : Alive(s) /\ Alive(t) => s = t
  /\ \A s \in Scripts : script[s].pc \in {"rotate", "start"} => DOMAIN procs = {}
  /\ \A s \in Scripts : script[s].pc = "kill" => DOMAIN procs \subseteq {script[s].found}

\* Between its rotation and its start the copy has the third log free.
Rotating == \E s \in Scripts : script[s].pc = "start"

(* The last start has its log in the third file and the one before in the  *)
(* second; between a rotation and a start, one file lower.                 *)
LogsInv ==
  LET top == IF Rotating THEN 2 ELSE 3
  IN  /\ started >= 1 => logs[top] = 0
      /\ started = 2 => logs[top - 1] = 1

Inv == TypeOK /\ Ordered /\ (~mixed => Alone /\ LogsInv)

LEMMA InitInv == Init => Inv
<1> SUFFICES ASSUME Init PROVE Inv
  OBVIOUS
<1>1. /\ DOMAIN procs \subseteq {1}
      /\ procs = [p \in DOMAIN procs |-> procs[p]]
      /\ \A p \in DOMAIN procs : procs[p] # "other"
  <2>1. procs = <<>> \/ procs = <<"app">> \/ procs = <<"starting">>
    BY DEF Init
  <2>2. CASE procs = <<>>
    BY <2>2
  <2>3. CASE procs = <<"app">>
    BY <2>3
  <2>4. CASE procs = <<"starting">>
    BY <2>4
  <2> QED
    BY <2>1, <2>2, <2>3, <2>4
<1>2. /\ script = [s \in Scripts |-> [pc |-> "idle", found |-> 0, first |-> TRUE]]
      /\ logs = [k \in 1 .. 3 |-> None] /\ started = 0 /\ mixed = FALSE
  BY DEF Init
<1>3. TypeOK
  <2>1. logs \in [1 .. 3 -> None .. Old]
    BY <1>2 DEF None, Old
  <2>2. script \in [Scripts -> Copy]
    BY <1>2 DEF Places, Copy
  <2>3. DOMAIN procs \subseteq Nat \ {0} /\ started \in 0 .. 2
    BY <1>1, <1>2
  <2>4. mixed \in BOOLEAN
    BY <1>2
  <2> QED
    BY <1>1, <2>1, <2>2, <2>3, <2>4 DEF TypeOK, ScriptOK
<1>6. Ordered
  BY <1>1 DEF Ordered
<1>4. Alone
  BY <1>1, <1>2 DEF Alone, Alive
<1>5. LogsInv
  BY <1>2 DEF LogsInv
<1> QED
  BY <1>3, <1>4, <1>5, <1>6 DEF Inv

------------------------------------------------------------------------------
(* What ps shows.                                                          *)

\* The process that the script finds is the first of those there.
LEMMA FoundFirst ==
  ASSUME TypeOK, Ordered
  PROVE  /\ Found \in Nat
         /\ Found = 0 <=> DOMAIN procs = {}
         /\ DOMAIN procs # {} => Found \in DOMAIN procs
<1>1. CASE DOMAIN procs = {}
  BY <1>1 DEF Found
<1>2. CASE DOMAIN procs # {}
  <2>1. PICK p \in DOMAIN procs : \A q \in DOMAIN procs : p <= q
    BY <1>2 DEF Ordered
  <2>2. Found \in DOMAIN procs
    BY <1>2, <2>1 DEF Found
  <2> QED
    BY <1>2, <2>2 DEF TypeOK, ScriptOK
<1> QED
  BY <1>1, <1>2

\* A process that ends is no longer there; nothing else changes.
LEMMA EndsProcs ==
  ASSUME NEW p, Ends(p)
  PROVE  /\ DOMAIN procs' = DOMAIN procs \ {p}
         /\ procs' = [q \in DOMAIN procs' |-> procs'[q]]
         /\ \A q \in DOMAIN procs' : procs'[q] = procs[q]
  BY DEF Ends, Restrict

\* A process that comes is there; nothing else changes.
LEMMA ComesProcs ==
  ASSUME NEW p, NEW v, Comes(p, v)
  PROVE  /\ DOMAIN procs' = DOMAIN procs \cup {p}
         /\ procs' = [q \in DOMAIN procs' |-> procs'[q]]
         /\ procs'[p] = v
         /\ \A q \in DOMAIN procs : q # p => procs'[q] = procs[q]
  BY DEF Comes

------------------------------------------------------------------------------
(* The copies of the script.                                               *)

\* A step that only moves one copy keeps it a copy.
LEMMA GotoScript ==
  ASSUME TypeOK, NEW s \in Scripts,
         NEW pc \in Places, Goto(s, pc)
  PROVE  /\ script' \in [Scripts -> Copy]
         /\ script'[s].pc = pc
         /\ \A t \in Scripts : t # s => script'[t] = script[t]
  BY DEF TypeOK, ScriptOK, Goto, Places, Copy

LEMMA LookScript ==
  ASSUME TypeOK, Ordered, NEW s \in Scripts,
         NEW missing \in {"rotate"}, NEW found \in {"kill", "next"}, Look(s, missing, found)
  PROVE  /\ script' \in [Scripts -> Copy]
         /\ script'[s].pc = IF DOMAIN procs = {} THEN missing ELSE found
         /\ script'[s].found = Found
         /\ \A t \in Scripts : t # s => script'[t] = script[t]
  BY FoundFirst DEF TypeOK, ScriptOK, Look, Places, Copy

LEMMA StartScript ==
  ASSUME TypeOK, NEW s \in Scripts, Start(s)
  PROVE  /\ script' \in [Scripts -> Copy]
         /\ script'[s].pc \in {"check", "next"}
         /\ \A t \in Scripts : t # s => script'[t] = script[t]
<1>1. script \in [Scripts -> Copy]
  BY DEF TypeOK, ScriptOK
<1> DEFINE pc == IF script[s].first THEN "check" ELSE "next"
<1>2. script' = [script EXCEPT ![s].pc = pc, ![s].first = FALSE]
  BY DEF Start
<1>3. pc \in {"check", "next"}
  OBVIOUS
<1> HIDE DEF pc
<1> QED
  BY <1>1, <1>2, <1>3 DEF Copy, Places

------------------------------------------------------------------------------
(* Types, and the order of the process ids.                                *)

\* What a step may do to the processes: nothing, one ends, one comes, one goes on.
LEMMA ProcsStep ==
  ASSUME Next
  PROVE  \/ procs' = procs
         \/ \E p \in DOMAIN procs : Ends(p)
         \/ \E p \in Pids \ DOMAIN procs, v \in {"starting", "other"} : Comes(p, v)
         \/ \E p \in DOMAIN procs, v \in {"loaded", "app"} : procs' = [procs EXCEPT ![p] = v]
<1>1. CASE \E s \in Scripts : Run(s) \/ Rotate(s) \/ Check(s) \/ Round(s)
  BY <1>1 DEF Run, Rotate, Check, Round
<1>2. ASSUME NEW s \in Scripts, Kill(s) PROVE procs' = procs \/ \E p \in DOMAIN procs : Ends(p)
  BY <1>2 DEF Kill
<1>3. ASSUME NEW s \in Scripts, Start(s) PROVE \E p \in Pids \ DOMAIN procs : Comes(p, "starting")
  BY <1>3 DEF Start
<1>4. ASSUME NEW p \in DOMAIN procs, Read(p) PROVE Ends(p) \/ procs' = [procs EXCEPT ![p] = "loaded"]
  BY <1>4 DEF Read
<1>5. ASSUME NEW p \in DOMAIN procs, Settle(p) PROVE Ends(p) \/ procs' = [procs EXCEPT ![p] = "app"]
  BY <1>5 DEF Settle
<1>6. ASSUME NEW p \in DOMAIN procs, Die(p) PROVE Ends(p)
  BY <1>6 DEF Die
<1>7. ASSUME NEW p \in Pids, ComeUp(p) PROVE p \notin DOMAIN procs /\ Comes(p, "other")
  BY <1>7 DEF ComeUp
<1>8. CASE WriteStatus
  BY <1>8 DEF WriteStatus
<1> QED
  BY <1>1, <1>2, <1>3, <1>4, <1>5, <1>6, <1>7, <1>8 DEF Next, ScriptStep

LEMMA ProcsTyped ==
  ASSUME TypeOK, Next
  PROVE  /\ DOMAIN procs' \subseteq Nat \ {0}
         /\ procs' = [p \in DOMAIN procs' |-> procs'[p]]
<1>1. CASE procs' = procs
  BY <1>1 DEF TypeOK, ScriptOK
<1>2. ASSUME NEW p \in DOMAIN procs, Ends(p)
      PROVE  /\ DOMAIN procs' \subseteq Nat \ {0}
             /\ procs' = [q \in DOMAIN procs' |-> procs'[q]]
  BY <1>2, EndsProcs DEF TypeOK, ScriptOK
<1>3. ASSUME NEW p \in Pids \ DOMAIN procs, NEW v, Comes(p, v)
      PROVE  /\ DOMAIN procs' \subseteq Nat \ {0}
             /\ procs' = [q \in DOMAIN procs' |-> procs'[q]]
  <2>1. p \in Nat \ {0}
    BY PidsAssumption DEF Pids
  <2>2. /\ DOMAIN procs' = DOMAIN procs \cup {p}
        /\ procs' = [q \in DOMAIN procs' |-> procs'[q]]
    BY <1>3, ComesProcs
  <2> QED
    BY <2>1, <2>2 DEF TypeOK, ScriptOK
<1>4. ASSUME NEW p \in DOMAIN procs, NEW v, procs' = [procs EXCEPT ![p] = v]
      PROVE  /\ DOMAIN procs' \subseteq Nat \ {0}
             /\ procs' = [q \in DOMAIN procs' |-> procs'[q]]
  BY <1>4 DEF TypeOK, ScriptOK
<1> QED
  BY ProcsStep, <1>1, <1>2, <1>3, <1>4

LEMMA OrderedStep ==
  ASSUME TypeOK, Ordered, Next
  PROVE  Ordered'
<1> SUFFICES ASSUME NEW P \in SUBSET DOMAIN procs', P # {}
             PROVE  \E p \in P : \A q \in P : p <= q
  BY DEF Ordered
<1>1. CASE DOMAIN procs' \subseteq DOMAIN procs
  BY <1>1 DEF Ordered
<1>2. ASSUME NEW p \in Pids, DOMAIN procs' = DOMAIN procs \cup {p}
      PROVE  \E m \in P : \A q \in P : m <= q
  <2>1. p \in Nat /\ DOMAIN procs \subseteq Nat
    BY PidsAssumption DEF Pids, TypeOK
  <2> DEFINE O == P \ {p}
  <2>2. CASE O = {}
    BY <2>1, <2>2
  <2>3. CASE O # {}
    <3>1. O \in SUBSET DOMAIN procs
      BY <1>2
    <3>2. PICK m \in O : \A q \in O : m <= q
      BY <2>3, <3>1 DEF Ordered
    <3>3. m \in Nat /\ m \in P
      BY <2>1, <3>1
    <3>4. CASE m <= p
      BY <3>2, <3>3, <3>4
    <3>5. CASE p < m /\ p \in P
      BY <2>1, <3>1, <3>2, <3>3, <3>5
    <3>6. CASE p \notin P
      BY <3>2, <3>6
    <3> QED
      BY <2>1, <3>3, <3>4, <3>5, <3>6
  <2> QED
    BY <2>2, <2>3
<1>3. DOMAIN procs' \subseteq DOMAIN procs \/ \E p \in Pids : DOMAIN procs' = DOMAIN procs \cup {p}
  BY ProcsStep, EndsProcs, ComesProcs
<1> QED
  BY <1>1, <1>2, <1>3

LEMMA TypeStep ==
  ASSUME TypeOK, Ordered, Next
  PROVE  TypeOK'
<1>1. ASSUME NEW s \in Scripts, Run(s) PROVE ScriptOK'
  <2>1. script' \in [Scripts -> Copy]
    BY <1>1, LookScript, GotoScript DEF Run, Places
  <2>2. logs' \in [1 .. 3 -> None .. Old] /\ started' \in 0 .. 2
    BY <1>1 DEF Run, TypeOK, ScriptOK
  <2>3. mixed' \in BOOLEAN
    BY <1>1 DEF Run
  <2> QED
    BY <2>1, <2>2, <2>3 DEF ScriptOK
<1>2. ASSUME NEW s \in Scripts, Kill(s) PROVE ScriptOK'
  BY <1>2, GotoScript DEF Kill, TypeOK, ScriptOK, Places
<1>3. ASSUME NEW s \in Scripts, Rotate(s) PROVE ScriptOK'
  <2>1. script' \in [Scripts -> Copy]
    BY <1>3, GotoScript DEF Rotate, Places
  <2>2. logs' \in [1 .. 3 -> None .. Old]
    BY <1>3 DEF Rotate, Rotated, TypeOK, ScriptOK, None, Old
  <2> QED
    BY <1>3, <2>1, <2>2 DEF Rotate, TypeOK, ScriptOK
<1>4. ASSUME NEW s \in Scripts, Start(s) PROVE ScriptOK'
  <2>1. script' \in [Scripts -> Copy]
    BY <1>4, StartScript
  <2>2. logs' \in [1 .. 3 -> None .. Old]
    BY <1>4 DEF Start, TypeOK, ScriptOK, None, Old
  <2>3. started' \in 0 .. 2
    <3>1. started + 1 \in 1 .. 3
      BY DEF TypeOK, ScriptOK
    <3>2. Min({started + 1, 2}) \in {started + 1, 2}
      BY <3>1 DEF Min
    <3>3. Min({started + 1, 2}) <= 2
      BY <3>1 DEF Min
    <3> QED
      BY <1>4, <3>1, <3>2, <3>3 DEF Start
  <2> QED
    BY <1>4, <2>1, <2>2, <2>3 DEF Start, TypeOK, ScriptOK
<1>5. ASSUME NEW s \in Scripts, Check(s) PROVE ScriptOK'
  BY <1>5, LookScript DEF Check, TypeOK, ScriptOK
<1>6. ASSUME NEW s \in Scripts, Round(s) PROVE ScriptOK'
  BY <1>6, GotoScript DEF Round, TypeOK, ScriptOK, Places
<1>7. ASSUME NEW p \in DOMAIN procs, Read(p) \/ Settle(p) \/ Die(p) PROVE ScriptOK'
  BY <1>7 DEF Read, Settle, Die, TypeOK, ScriptOK
<1>8. ASSUME NEW p \in Pids, ComeUp(p) PROVE ScriptOK'
  BY <1>8 DEF ComeUp, TypeOK, ScriptOK
<1>9. ASSUME WriteStatus PROVE ScriptOK'
  BY <1>9 DEF WriteStatus, TypeOK, ScriptOK
<1>10. ScriptOK'
  BY <1>1, <1>2, <1>3, <1>4, <1>5, <1>6, <1>7, <1>8, <1>9 DEF Next, ScriptStep
<1> QED
  BY <1>10, ProcsTyped DEF TypeOK, ScriptOK

------------------------------------------------------------------------------
(* One copy at a time, and its logs.                                       *)

\* As long as nothing is mixed, a step leaves one copy at work at most and one
\* process at most, none if the copy is about to start one.
LEMMA AloneStep ==
  ASSUME TypeOK, Ordered, ~mixed => Alone, Next, ~mixed'
  PROVE  Alone'
<1>1. ~mixed
  <2>1. mixed => mixed'
    BY DEF Next, ScriptStep, Run, Kill, Rotate, Start, Check, Round, Read, Settle, Die, ComeUp, WriteStatus
  <2> QED
    BY <2>1
<1>2. Alone
  BY <1>1
<1> USE <1>2
<1>a. ASSUME NEW s \in Scripts, Run(s) PROVE Alone'
  <2>1. \A t \in Scripts : ~Alive(t)
    BY <1>a DEF Run
  <2>2. procs' = procs
    BY <1>a DEF Run
  <2>3. CASE Goto(s, "failed")
    BY <2>1, <2>2, <2>3, GotoScript DEF Alone, Alive, Places
  <2>4. CASE Look(s, "rotate", "kill")
    <3>1. /\ script'[s].pc = IF DOMAIN procs = {} THEN "rotate" ELSE "kill"
          /\ script'[s].found = Found
          /\ \A t \in Scripts : t # s => script'[t] = script[t]
      BY <2>4, LookScript
    <3>2. DOMAIN procs \subseteq {Found}
      BY FoundFirst DEF Alone
    <3> QED
      BY <2>1, <2>2, <3>1, <3>2 DEF Alone, Alive
  <2> QED
    BY <1>a, <2>3, <2>4 DEF Run
<1>b. ASSUME NEW s \in Scripts, Kill(s) PROVE Alone'
  <2>1. script[s].pc = "kill" /\ DOMAIN procs \subseteq {script[s].found}
    BY <1>b DEF Kill, At, Alone
  <2>2. CASE script[s].found \in DOMAIN procs
    <3>1. Ends(script[s].found) /\ Goto(s, "rotate")
      BY <1>b, <2>2 DEF Kill
    <3>2. DOMAIN procs' = {}
      BY <2>1, <3>1, EndsProcs
    <3> QED
      BY <2>1, <3>1, <3>2, GotoScript DEF Alone, Alive, Places
  <2>3. CASE script[s].found \notin DOMAIN procs
    <3>1. procs' = procs /\ Goto(s, "failed")
      BY <1>b, <2>3 DEF Kill
    <3> QED
      BY <2>1, <3>1, GotoScript DEF Alone, Alive, Places
  <2> QED
    BY <2>2, <2>3
<1>c. ASSUME NEW s \in Scripts, Rotate(s) PROVE Alone'
  BY <1>c, GotoScript DEF Rotate, At, Alone, Alive, Places
<1>d. ASSUME NEW s \in Scripts, Start(s) PROVE Alone'
  <2>1. DOMAIN procs = {} /\ script[s].pc = "start"
    BY <1>d DEF Start, At, Alone
  <2>2. PICK p \in Pids : Comes(p, "starting")
    BY <1>d DEF Start
  <2>3. DOMAIN procs' = {p} /\ procs'[p] = "starting"
    BY <2>1, <2>2, ComesProcs
  <2>4. /\ script'[s].pc \in {"check", "next"}
        /\ \A t \in Scripts : t # s => script'[t] = script[t]
    BY <1>d, StartScript
  <2>5. \A t \in Scripts : t # s => ~Alive(t)
    BY <2>1 DEF Alone, Alive
  <2> QED
    BY <2>3, <2>4, <2>5 DEF Alone, Alive
<1>e. ASSUME NEW s \in Scripts, Check(s) PROVE Alone'
  BY <1>e, LookScript DEF Check, At, Alone, Alive
<1>f. ASSUME NEW s \in Scripts, Round(s) PROVE Alone'
  BY <1>f, GotoScript DEF Round, At, Alone, Alive, Places
<1>g. ASSUME NEW p \in DOMAIN procs, Read(p) \/ Settle(p) \/ Die(p) PROVE Alone'
  <2>1. script' = script
    BY <1>g DEF Read, Settle, Die
  <2>2. DOMAIN procs' \subseteq DOMAIN procs
    BY <1>g, EndsProcs DEF Read, Settle, Die
  <2>3. \A q \in DOMAIN procs' : procs'[q] # "other"
    BY <1>g, EndsProcs DEF Read, Settle, Die, Alone, TypeOK
  <2> QED
    BY <2>1, <2>2, <2>3 DEF Alone, Alive
<1>h. ASSUME NEW p \in Pids, ComeUp(p) PROVE FALSE
  BY <1>h DEF ComeUp
<1>i. ASSUME WriteStatus PROVE Alone'
  BY <1>i DEF WriteStatus, Alone, Alive
<1> QED
  BY <1>a, <1>b, <1>c, <1>d, <1>e, <1>f, <1>g, <1>h, <1>i DEF Next, ScriptStep

\* As long as nothing is mixed, the last starts keep their logs.
LEMMA LogsStep ==
  ASSUME TypeOK, Ordered, ~mixed => Alone /\ LogsInv, Next, ~mixed'
  PROVE  LogsInv'
<1>1. ~mixed
  BY DEF Next, ScriptStep, Run, Kill, Rotate, Start, Check, Round, Read, Settle, Die, ComeUp, WriteStatus
<1>2. Alone /\ LogsInv
  BY <1>1
<1>3. started \in 0 .. 2 /\ logs \in [1 .. 3 -> None .. Old]
  BY DEF TypeOK, ScriptOK
<1>4. ASSUME NEW s \in Scripts, Rotate(s) PROVE LogsInv'
  <2>1. ~Rotating /\ Rotating'
    <3>1. script[s].pc = "rotate"
      BY <1>4 DEF Rotate, At
    <3>2. ~Rotating
      BY <1>2, <3>1 DEF Rotating, Alone, Alive
    <3>3. script'[s].pc = "start"
      BY <1>4, GotoScript DEF Rotate, Places
    <3> QED
      BY <3>2, <3>3 DEF Rotating
  <2>2. /\ started >= 1 => logs[3] = 0
        /\ started = 2 => logs[2] = 1
    BY <1>2, <2>1 DEF LogsInv
  <2>3. started' = started /\ logs' = Rotated(logs)
    BY <1>4 DEF Rotate
  <2>4. started >= 1 => logs' = <<logs[2], logs[3], None>>
    BY <1>3, <2>2, <2>3 DEF Rotated, None
  <2>5. /\ started' >= 1 => logs'[2] = 0
        /\ started' = 2 => logs'[1] = 1
    BY <1>3, <2>2, <2>3, <2>4
  <2> QED
    BY <2>1, <2>5 DEF LogsInv
<1>5. ASSUME NEW s \in Scripts, Start(s) PROVE LogsInv'
  <2>1. Rotating /\ ~Rotating'
    <3>1. script[s].pc = "start"
      BY <1>5 DEF Start, At
    <3>2. \A t \in Scripts : script'[t].pc # "start"
      BY <1>2, <1>5, <3>1, StartScript DEF Alone, Alive
    <3> QED
      BY <3>1, <3>2 DEF Rotating
  <2>2. /\ started >= 1 => logs[2] = 0
        /\ started = 2 => logs[1] = 1
    BY <1>2, <2>1 DEF LogsInv
  <2>3. logs'[3] = 0 /\ logs'[2] = IF logs[2] \in {None, Old} THEN logs[2] ELSE logs[2] + 1
    BY <1>5 DEF Start
  <2>4. started' = 2 => started >= 1
    <3>1. started' = Min({started + 1, 2})
      BY <1>5 DEF Start
    <3>2. Min({0 + 1, 2}) = 1
      BY DEF Min
    <3>3. CASE started = 0
      BY <3>1, <3>2, <3>3
    <3> QED
      BY <1>3, <3>3
  <2>5. started' = 2 => logs'[2] = 1
    BY <2>2, <2>3, <2>4 DEF None, Old
  <2> QED
    BY <2>1, <2>3, <2>5 DEF LogsInv
<1>6. ASSUME logs' = logs, started' = started, Rotating' <=> Rotating PROVE LogsInv'
  BY <1>2, <1>6 DEF LogsInv
<1>7. ASSUME NEW s \in Scripts, Run(s) \/ Kill(s) \/ Check(s) \/ Round(s)
      PROVE  logs' = logs /\ started' = started /\ (Rotating' <=> Rotating)
  <2>1. logs' = logs /\ started' = started
    BY <1>7 DEF Run, Kill, Check, Round
  <2>2. script[s].pc # "start"
    BY <1>7 DEF Run, Kill, Check, Round, At
  <2>3. script'[s].pc # "start" /\ \A t \in Scripts : t # s => script'[t] = script[t]
    BY <1>7, GotoScript, LookScript DEF Run, Kill, Check, Round, Places
  <2> QED
    BY <2>1, <2>2, <2>3 DEF Rotating
<1>8. ASSUME NEW p, Read(p) \/ Settle(p) \/ Die(p) \/ ComeUp(p)
      PROVE  logs' = logs /\ started' = started /\ (Rotating' <=> Rotating)
  BY <1>8 DEF Read, Settle, Die, ComeUp, Rotating
<1>9. ASSUME WriteStatus
      PROVE  logs' = logs /\ started' = started /\ (Rotating' <=> Rotating)
  BY <1>9 DEF WriteStatus, Rotating
<1> QED
  BY <1>4, <1>5, <1>6, <1>7, <1>8, <1>9 DEF Next, ScriptStep

LEMMA NextInv == Inv /\ [Next]_vars => Inv'
<1> SUFFICES ASSUME Inv, [Next]_vars PROVE Inv'
  OBVIOUS
<1>1. CASE Next
  BY <1>1, TypeStep, OrderedStep, AloneStep, LogsStep DEF Inv
<1>2. CASE UNCHANGED vars
  BY <1>2 DEF Inv, TypeOK, ScriptOK, Ordered, Alone, LogsInv, Rotating, Alive, vars
<1> QED
  BY <1>1, <1>2

(* The processes, the copies of the script and the logs are always what    *)
(* these proofs take them for.                                             *)
THEOREM LaunchInv == Spec => []Inv
<1> QED
  BY InitInv, NextInv, PTL DEF Spec

(* However often launch.sh is run and its process ends, exits or crashes:  *)
(* with one copy at a time and nothing else of the program's name, there   *)
(* are never two processes (the kill, the start and the check of           *)
(* launch.sh).                                                             *)
THEOREM LaunchOneApp == Spec => []OneApp
<1>1. Inv => OneApp
  <2> SUFFICES ASSUME Inv, ~mixed PROVE Cardinality(Apps) <= 1
    BY DEF OneApp
  <2>1. \A p, q \in Apps : p = q
    BY DEF Inv, Alone, Apps
  <2>2. CASE Apps = {}
    BY <2>2, FS_EmptySet
  <2>3. ASSUME NEW p \in Apps PROVE Cardinality(Apps) <= 1
    <3>1. Apps = {p}
      BY <2>1
    <3>2. Cardinality({p}) = 1
      BY FS_Singleton
    <3> QED
      BY <3>1, <3>2
  <2> QED
    BY <2>2, <2>3
<1> QED
  BY <1>1, LaunchInv, PTL

(* And the logs of the last two starts are always there under one name or  *)
(* another, between the rotation and the start too (the mv and rm of       *)
(* launch.sh).                                                             *)
THEOREM LaunchLogsKept == Spec => []LogsKept
<1>1. Inv => LogsKept
  <2> SUFFICES ASSUME Inv, ~mixed, NEW age \in 0 .. started - 1
               PROVE  \E k \in 1 .. 3 : logs[k] = age
    BY DEF LogsKept
  <2>1. started \in 0 .. 2 /\ LogsInv
    BY DEF Inv, TypeOK, ScriptOK
  <2>2. CASE Rotating
    BY <2>1, <2>2 DEF LogsInv
  <2>3. CASE ~Rotating
    BY <2>1, <2>3 DEF LogsInv
  <2> QED
    BY <2>2, <2>3
<1> QED
  BY <1>1, LaunchInv, PTL
=============================================================================
