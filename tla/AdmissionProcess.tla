--------------------------- MODULE AdmissionProcess ---------------------------
(***************************************************************************)
(* One admission command: the thread of the train that runs it             *)
(* (src/svrf/admission.py, _execute_command and _stop_command), the        *)
(* supervisor process it starts (src/svrf/_admission_process.py), the      *)
(* processes the command forks, and strangers on the same host.            *)
(*                                                                         *)
(* The process table is the kernel's: an ended process keeps its PID until *)
(* its parent waits for it, then the PID may be given to anybody.  Output, *)
(* environment and the text of an answer are left out; a status is passed  *)
(* or failed.  A process may be ended by its own code or by any signal at  *)
(* any moment, so SIGINT itself changes nothing here.                      *)
(***************************************************************************)
EXTENDS Naturals, FiniteSets

CONSTANTS
  Pids,        \* the PIDs of the host, the supervisor's and the train's aside
  Forks,       \* how many processes the command may fork in all,
  Births,      \* how many strangers may be started,
  Faults       \* and how many calls of the supervisor may fail

ASSUME PidsAssumption == IsFiniteSet(Pids) /\ Pids # {}
ASSUME BoundsAssumption == Forks \in Nat /\ Births \in Nat /\ Faults \in Nat
ASSUME RoomAssumption == Births < Cardinality(Pids)     \* a PID is left for the command

Supervisor == "supervisor"
Outside == "outside"           \* init, or any process the command did not start
NoPid == "no PID"
ASSUME NamesAssumption == {Supervisor, Outside, NoPid} \cap Pids = {}

Exits == {"passed", "failed"}   \* a process ended by a signal has failed

VARIABLES
  \* the kernel: the table, who reaps orphans, what an unhandled SIGCHLD does
  state, parent, subreaper, ignored,
  forks, births, faults,
  \* the supervisor
  sup, cancelled, known, interrupted, grace, signum, targets, custodyError, leader, returncode, answer,
  \* the thread of the train, and whether a process outside the family holds the pipes
  owner, asked, late, pipes, outcome,
  \* histories the properties read: the family, the status of the command itself,
  \* whether its PID was given away within the family, whether a process was signalled
  family, original, reissued, disturbed

kernel == <<state, parent, subreaper, ignored>>
budget == <<forks, births, faults>>
hands  == <<known, interrupted, grace, signum, targets, custodyError>>
supervisor == <<sup, cancelled, hands, leader, returncode, answer>>
thread == <<owner, asked, late, pipes, outcome>>
ghosts == <<family, original, reissued, disturbed>>
vars == <<kernel, budget, supervisor, thread, ghosts>>

---------------------------------------------------------------------------
Free(p) == state[p] = "free"
Running(p) == state[p] = "running"
Zombie(p) == state[p] \in Exits
Children == {p \in Pids : ~Free(p) /\ parent[p] = Supervisor}
Gone == sup = "gone"

Fails == faults > 0 /\ faults' = faults - 1
Steady == UNCHANGED faults

\* Whom the kernel gives an orphan to: the nearest subreaper, else init.
Adopter == IF subreaper /\ ~Gone THEN Supervisor ELSE Outside

\* p ends with status e.  Its children get a new parent; a parent outside the family,
\* or one that ignores SIGCHLD, leaves no zombie.
Ended(p, e) ==
  LET heir == [q \in Pids |-> IF ~Free(q) /\ parent[q] = p THEN Adopter ELSE parent[q]]
      kept(q) == heir[q] # Outside /\ ~(ignored /\ heir[q] = Supervisor)
  IN /\ state' = [q \in Pids |-> IF q = p THEN IF kept(p) THEN e ELSE "free"
                                 ELSE IF Zombie(q) /\ ~kept(q) THEN "free" ELSE state[q]]
     /\ parent' = [q \in Pids |-> IF state'[q] = "free" THEN Outside ELSE heir[q]]
     /\ family' = {q \in family : state'[q] # "free"}

\* A zombie's parent waits for it: the PID is free.
Waited(p) ==
  /\ state' = [state EXCEPT ![p] = "free"] /\ parent' = [parent EXCEPT ![p] = Outside]
  /\ family' = family \ {p}

Init ==
  /\ state = [p \in Pids |-> "free"] /\ parent = [p \in Pids |-> Outside]
  /\ subreaper = FALSE /\ ignored \in BOOLEAN
  /\ forks = Forks /\ births = Births /\ faults = Faults
  /\ sup = "none" /\ cancelled = FALSE /\ known = {} /\ interrupted = {} /\ grace = "unset"
  /\ signum = "INT" /\ targets = {} /\ custodyError = FALSE /\ leader = NoPid
  /\ returncode = "none" /\ answer = "none"
  /\ owner = "ready" /\ asked = FALSE /\ late = FALSE /\ pipes = FALSE /\ outcome = "none"
  /\ family = {} /\ original = "none" /\ reissued = FALSE /\ disturbed = FALSE

---------------------------------------------------------------------------
(* The host: what the command's processes and strangers may do.            *)

\* A process of the family forks; a detached child is a child all the same.
Fork(p, q) ==
  /\ forks > 0 /\ forks' = forks - 1
  /\ p \in family /\ Running(p) /\ Free(q)
  /\ state' = [state EXCEPT ![q] = "running"] /\ parent' = [parent EXCEPT ![q] = p]
  /\ family' = family \cup {q} /\ reissued' = (reissued \/ q = leader)
  /\ UNCHANGED <<subreaper, ignored, births, faults, supervisor, thread, original, disturbed>>

Exit(p, e) ==
  /\ p \in family /\ Running(p) /\ Ended(p, e)
  /\ original' = IF p = leader /\ original = "none" THEN e ELSE original
  /\ UNCHANGED <<subreaper, ignored, budget, supervisor, thread, reissued, disturbed>>

\* A process of the family waits for a child of its own.
Reap(p, q) ==
  /\ p \in family /\ Running(p) /\ Zombie(q) /\ parent[q] = p /\ Waited(q)
  /\ UNCHANGED <<subreaper, ignored, budget, supervisor, thread, original, reissued, disturbed>>

\* Somebody else's process starts or ends, possibly under a PID the family had.
Birth(q) ==
  /\ births > 0 /\ births' = births - 1 /\ Free(q)
  /\ state' = [state EXCEPT ![q] = "running"]
  /\ UNCHANGED <<parent, subreaper, ignored, forks, faults, supervisor, thread, ghosts>>

Death(q) ==
  /\ Running(q) /\ q \notin family
  /\ state' = [state EXCEPT ![q] = "free"]
  /\ UNCHANGED <<parent, subreaper, ignored, budget, supervisor, thread, ghosts>>

\* The command hands its output descriptors to a process outside its family, which
\* keeps them for as long as it likes.
Lend ==
  /\ family # {} /\ ~pipes /\ pipes' = TRUE
  /\ UNCHANGED <<kernel, budget, supervisor, owner, asked, late, outcome, ghosts>>

LetGo ==
  /\ pipes /\ pipes' = FALSE
  /\ UNCHANGED <<kernel, budget, supervisor, owner, asked, late, outcome, ghosts>>

---------------------------------------------------------------------------
(* The supervisor.                                                         *)

\* It exits: with a status of its own, or with the command's (_command_status).
Give(a) ==
  /\ sup' = "gone" /\ answer' = a
  /\ known' = {} /\ interrupted' = {} /\ targets' = {}
  /\ grace' = "unset" /\ signum' = "INT" /\ custodyError' = FALSE
Unavailable == Give("unavailable") /\ UNCHANGED <<cancelled, leader, returncode>>

Resume(label) == sup' = label /\ UNCHANGED <<leader, returncode, answer>>

\* SIGCHLD: an inherited SIG_IGN would reap children by itself.
IgnoringStill == ignored                      \* mutant: the disposition is left as inherited
Ignoring == FALSE

Handlers ==
  /\ sup = "starting" /\ Resume("custody") /\ ignored' = Ignoring
  /\ UNCHANGED <<state, parent, subreaper, budget, cancelled, hands, thread, ghosts>>

\* _establish_custody: it becomes the reaper of its descendants, of which there are none.
Custody ==
  /\ sup = "custody"
  /\ \/ Steady /\ subreaper' = TRUE /\ Resume("launch") /\ UNCHANGED <<cancelled, hands>>
     \/ Fails /\ UNCHANGED subreaper /\ Unavailable
  /\ UNCHANGED <<state, parent, ignored, forks, births, thread, ghosts>>

CheckLaunch ==
  /\ sup = "launch"
  /\ \/ cancelled /\ Unavailable
     \/ ~cancelled /\ Resume("popen") /\ UNCHANGED <<cancelled, hands>>
  /\ UNCHANGED <<kernel, budget, thread, ghosts>>

Launch(p) ==
  /\ sup = "popen" /\ Free(p)
  /\ state' = [state EXCEPT ![p] = "running"] /\ parent' = [parent EXCEPT ![p] = Supervisor]
  /\ sup' = "loop" /\ leader' = p /\ known' = {p} /\ family' = {p}
  /\ UNCHANGED <<subreaper, ignored, budget, cancelled, interrupted, grace, signum, targets,
                 custodyError, returncode, answer, thread, original, reissued, disturbed>>

LaunchFails ==
  /\ sup = "popen" /\ Fails /\ Unavailable
  /\ UNCHANGED <<kernel, forks, births, thread, ghosts>>

\* The grace starts with the first pass that sees the cancellation.
Grace == IF grace = "unset" THEN "running" ELSE grace

\* Each pass of the loop: nothing is signalled unless cancelled.
Pass ==
  /\ sup = "loop" /\ ~cancelled /\ Resume("wait")
  /\ UNCHANGED <<kernel, budget, cancelled, hands, thread, ghosts>>

\* The targets of this pass: SIGINT goes to each child once, SIGKILL until it is reaped.
Aim(children) ==
  /\ grace' = Grace /\ signum' = IF Grace = "over" THEN "KILL" ELSE "INT"
  /\ targets' = IF Grace = "over" THEN children ELSE children \ interrupted

PassCancelled ==
  /\ sup = "loop" /\ cancelled /\ Resume("signal")
  /\ \/ Steady /\ known' = known \cup Children /\ Aim(Children)
     \/ Fails /\ known' = known /\ Aim(known)        \* the list cannot be read
  /\ UNCHANGED <<kernel, forks, births, cancelled, interrupted, custodyError, thread, ghosts>>

\* An unexpected error anywhere in a pass: clean up, and answer nothing.
PassBreaks ==
  /\ sup \in {"loop", "signal"} /\ Fails /\ Resume("loop")
  /\ custodyError' = TRUE /\ cancelled' = TRUE /\ targets' = {}
  /\ UNCHANGED <<kernel, forks, births, known, interrupted, grace, signum, thread, ghosts>>

GraceOver ==
  /\ grace = "running" /\ grace' = "over"
  /\ UNCHANGED <<kernel, budget, sup, cancelled, known, interrupted, signum, targets, custodyError,
                 leader, returncode, answer, thread, ghosts>>

\* One os.kill: a process that may not be signalled stays a target of the next pass.
Send(p) ==
  /\ sup = "signal" /\ p \in targets /\ targets' = targets \ {p} /\ disturbed' = TRUE
  /\ \/ /\ Steady /\ interrupted' = IF signum = "INT" THEN interrupted \cup {p} ELSE interrupted
        /\ IF signum = "KILL" /\ Running(p)
           THEN /\ Ended(p, "failed")
                /\ original' = IF p = leader /\ original = "none" THEN "failed" ELSE original
           ELSE UNCHANGED <<state, parent, family, original>>
     \/ Fails /\ UNCHANGED <<interrupted, state, parent, family, original>>
  /\ UNCHANGED <<subreaper, ignored, forks, births, sup, cancelled, known, grace, signum,
                 custodyError, leader, returncode, answer, thread, reissued>>

Sent ==
  /\ sup = "signal" /\ targets = {} /\ Resume("wait")
  /\ UNCHANGED <<kernel, budget, cancelled, hands, thread, ghosts>>

\* waitpid takes any child that has ended; the command's status is kept.
Interrupted(p) == interrupted \ {p}

Wait(p) ==
  /\ sup = "wait" /\ Zombie(p) /\ parent[p] = Supervisor /\ Waited(p)
  /\ known' = known \ {p} /\ interrupted' = Interrupted(p)
  /\ returncode' = IF p = leader THEN state[p] ELSE returncode
  /\ UNCHANGED <<subreaper, ignored, budget, sup, cancelled, grace, signum, targets, custodyError,
                 leader, answer, thread, original, reissued, disturbed>>

\* Nobody has ended: sleep, and the next pass.
Sleep ==
  /\ sup = "wait" /\ Children # {} /\ \A p \in Children : ~Zombie(p)
  /\ Resume("loop")
  /\ UNCHANGED <<kernel, budget, cancelled, hands, thread, ghosts>>

\* ECHILD, and nothing else, ends the supervisor.
LeaderReaped == returncode # "none"           \* mutant: the command's own end is enough
AllReaped == Children = {}

StatusAnyway == IF returncode = "none" THEN "unavailable" ELSE returncode   \* mutant: custodyError is not looked at
Status == IF custodyError \/ returncode = "none" THEN "unavailable" ELSE returncode

Finish ==
  /\ sup = "wait" /\ AllReaped /\ Give(Status)
  /\ UNCHANGED <<kernel, budget, cancelled, leader, returncode, thread, ghosts>>

---------------------------------------------------------------------------
(* The thread of the train.                                                *)

Owns(label) == owner' = label /\ UNCHANGED <<asked, late, pipes>>
Returns(o) == Owns("done") /\ outcome' = o
Asking == {"ready", "talking", "stopping"}    \* where the event and the clock are read

\* The daemon cancels the read, or is stopped; the timeout passes.
Ask ==
  /\ owner \in Asking /\ ~asked /\ asked' = TRUE
  /\ UNCHANGED <<kernel, budget, supervisor, owner, late, pipes, outcome, ghosts>>

Expire ==
  /\ owner = "talking" /\ ~late /\ late' = TRUE
  /\ UNCHANGED <<kernel, budget, supervisor, owner, asked, pipes, outcome, ghosts>>

Begin ==
  /\ owner = "ready"
  /\ \/ asked /\ Returns("cancelled") /\ UNCHANGED sup
     \/ ~asked /\ Owns("talking") /\ sup' = "starting" /\ UNCHANGED outcome
  /\ UNCHANGED <<kernel, budget, cancelled, hands, leader, returncode, answer, ghosts>>

\* communicate: the supervisor has exited and nobody holds the pipes.
Communicated == Gone /\ ~pipes

Receive ==
  /\ owner = "talking" /\ Communicated /\ Returns(answer)
  /\ UNCHANGED <<kernel, budget, supervisor, ghosts>>

\* A poll ends first, and finds the cancellation or the deadline.
TimedOut ==
  /\ owner = "talking" /\ ~Communicated /\ (asked \/ late)
  /\ Owns("stopping") /\ UNCHANGED outcome
  /\ UNCHANGED <<kernel, budget, supervisor, ghosts>>

\* SIGTERM: it is handled from Handlers on, and ends the supervisor before.
Terminate ==
  /\ owner = "stopping" /\ owner' = "draining" /\ asked' = FALSE /\ late' = FALSE /\ UNCHANGED pipes
  /\ outcome' = IF asked THEN "cancelled" ELSE "timeout"
  /\ \/ sup = "starting" /\ Give("unavailable") /\ UNCHANGED <<cancelled, leader, returncode>>
     \/ /\ sup # "starting" /\ cancelled' = (cancelled \/ ~Gone)
        /\ UNCHANGED <<sup, hands, leader, returncode, answer>>
  /\ UNCHANGED <<kernel, budget, ghosts>>

\* It waits for its supervisor, not for the pipes: those are closed if somebody holds them.
DrainedWhole == Communicated                  \* mutant: wait for the whole output
Drained == Gone

Stopped ==
  /\ owner = "draining" /\ Drained /\ Returns(outcome)
  /\ UNCHANGED <<kernel, budget, supervisor, ghosts>>

---------------------------------------------------------------------------
HostStep ==
  /\ owner # "done"               \* what the host does later is another command's concern
  /\ \/ \E p, q \in Pids : Fork(p, q) \/ Reap(p, q)
     \/ \E p \in Pids, e \in Exits : Exit(p, e)
     \/ \E q \in Pids : Birth(q) \/ Death(q)
     \/ Lend \/ LetGo

SupervisorStep ==
  \/ Handlers \/ Custody \/ CheckLaunch \/ LaunchFails \/ Pass \/ PassCancelled \/ PassBreaks
  \/ Sent \/ Sleep \/ Finish
  \/ \E p \in Pids : Launch(p) \/ Send(p) \/ Wait(p)

OwnerStep == Begin \/ Receive \/ TimedOut \/ Terminate \/ Stopped

Next == HostStep \/ SupervisorStep \/ GraceOver \/ Ask \/ Expire \/ OwnerStep

Spec == Init /\ [][Next]_vars

\* The supervisor and the thread run on, time passes; nothing is asked of the command,
\* of strangers or of who holds the pipes.
FairSpec ==
  /\ Spec /\ WF_vars(SupervisorStep) /\ WF_vars(OwnerStep)
  /\ WF_vars(GraceOver) /\ WF_vars(Expire)
---------------------------------------------------------------------------
TypeOK ==
  /\ state \in [Pids -> {"free", "running"} \cup Exits]
  /\ parent \in [Pids -> Pids \cup {Supervisor, Outside}]
  /\ subreaper \in BOOLEAN /\ ignored \in BOOLEAN
  /\ forks \in 0..Forks /\ births \in 0..Births /\ faults \in 0..Faults
  /\ sup \in {"none", "starting", "custody", "launch", "popen", "loop", "signal", "wait", "gone"}
  /\ cancelled \in BOOLEAN /\ known \subseteq Pids /\ interrupted \subseteq known
  /\ grace \in {"unset", "running", "over"} /\ signum \in {"INT", "KILL"}
  /\ targets \subseteq known /\ custodyError \in BOOLEAN /\ leader \in Pids \cup {NoPid}
  /\ returncode \in Exits \cup {"none"} /\ answer \in Exits \cup {"none", "unavailable"}
  /\ owner \in {"ready", "talking", "stopping", "draining", "done"}
  /\ asked \in BOOLEAN /\ late \in BOOLEAN /\ pipes \in BOOLEAN
  /\ outcome \in Exits \cup {"none", "unavailable", "cancelled", "timeout"}
  /\ family \subseteq Pids /\ original \in Exits \cup {"none"}
  /\ reissued \in BOOLEAN /\ disturbed \in BOOLEAN

\* Between reading its children and signalling them the supervisor waits for nobody, so
\* each PID it is about to signal still names a child of its own, and no stranger.
TargetsAreChildren == sup = "signal" => targets \subseteq Children

\* When the thread gives its slot and its memory back, no process of the command is left.
FamilyEnded == owner = "done" => family = {}

\* A verdict is the status of the command itself (unless a process of its family was given
\* its PID) and of a family that nobody has signalled.
VerdictUndisturbed == outcome \in Exits => ~disturbed /\ (outcome = original \/ reissued)

\* A read ends: with its command, or after its timeout, whatever the command's processes
\* and whoever holds the pipes do.
Ends == <>(owner = "done")
=============================================================================
