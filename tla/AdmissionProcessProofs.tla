------------------------ MODULE AdmissionProcessProofs ------------------------
(***************************************************************************)
(* Proofs about AdmissionProcess, for any number of PIDs, forks, strangers *)
(* and failed calls: only children of the supervisor are signalled, the    *)
(* read returns when the command's family is gone, and a verdict is that   *)
(* of an undisturbed command.                                              *)
(***************************************************************************)
EXTENDS AdmissionProcess, TLAPS

\* TypeOK in two parts, its flags and the rest, which call for different provers.
FlagsOK ==
  /\ subreaper \in BOOLEAN /\ ignored \in BOOLEAN /\ cancelled \in BOOLEAN /\ custodyError \in BOOLEAN
  /\ asked \in BOOLEAN /\ late \in BOOLEAN /\ pipes \in BOOLEAN
  /\ reissued \in BOOLEAN /\ disturbed \in BOOLEAN
RestOK ==
  /\ state \in [Pids -> {"free", "running"} \cup Exits]
  /\ parent \in [Pids -> Pids \cup {Supervisor, Outside}]
  /\ forks \in 0..Forks /\ births \in 0..Births /\ faults \in 0..Faults
  /\ sup \in {"none", "starting", "custody", "launch", "popen", "loop", "signal", "wait", "gone"}
  /\ known \subseteq Pids /\ interrupted \subseteq known /\ targets \subseteq known
  /\ grace \in {"unset", "running", "over"} /\ signum \in {"INT", "KILL"}
  /\ leader \in Pids \cup {NoPid}
  /\ returncode \in Exits \cup {"none"} /\ answer \in Exits \cup {"none", "unavailable"}
  /\ owner \in {"ready", "talking", "stopping", "draining", "done"}
  /\ outcome \in Exits \cup {"none", "unavailable", "cancelled", "timeout"}
  /\ family \subseteq Pids /\ original \in Exits \cup {"none"}

\* The points between the launch of the command and the supervisor's exit.
Live == {"loop", "signal", "wait"}
Before == {"none", "starting", "custody", "launch", "popen"}

\* The process table: whoever is not of the family is nobody's child here; a process of
\* the family has its supervisor, or a running process of the family, for a parent.
Table ==
  /\ \A p \in Pids \ family : parent[p] = Outside /\ state[p] \in {"free", "running"}
  /\ \A p \in family : /\ state[p] # "free"
                       /\ \/ parent[p] = Supervisor
                          \/ parent[p] \in family /\ state[parent[p]] = "running"

\* There is no ring of parents: some process of every part of the family has its parent
\* outside that part.
Rooted == \A T \in SUBSET family : T # {} => \E p \in T : parent[p] \notin T

\* What the supervisor and the thread have established at each of their points.
Custodied ==
  /\ sup \notin Live => family = {} /\ known = {} /\ targets = {}
  /\ sup # "signal" => targets = {}
  /\ sup \in Live \cup {"custody", "launch", "popen"} => ~ignored
  /\ sup \in Live \cup {"launch", "popen"} => subreaper
  /\ sup \in Live => leader \in Pids
  /\ sup \in Before => leader = NoPid /\ returncode = "none" /\ original = "none" /\ ~disturbed
  /\ sup = "gone" => ~custodyError
  /\ owner = "ready" => sup = "none"
  /\ owner = "done" => sup \in {"none", "gone"}

\* Every PID the supervisor knows is a child of its own, running or not yet waited for.
KnownAreChildren == known \subseteq Children

\* The command's status: it is a child until it is waited for, and what is kept then is
\* how it ended.  Nothing is claimed once its PID was given away.
Led ==
  leader # NoPid /\ ~reissued =>
    IF returncode = "none"
    THEN /\ sup \in Live => leader \in family /\ parent[leader] = Supervisor
         /\ sup \in Live => state[leader] = IF original = "none" THEN "running" ELSE original
    ELSE returncode = original /\ leader \notin family

\* Nobody is signalled unless the read is given up, or nothing will be answered.
Quiet ==
  /\ sup = "signal" \/ disturbed => cancelled
  /\ cancelled => custodyError \/ owner \in {"draining", "done"} \/ (Gone /\ answer = "unavailable")
  /\ answer \in Exits => Gone /\ answer = returncode /\ leader # NoPid
  /\ outcome \in Exits => owner = "done"

SupervisionInv ==
  /\ TypeOK /\ Table /\ Rooted
  /\ Custodied /\ KnownAreChildren /\ Led /\ Quiet /\ VerdictUndisturbed

\* The two parts are TypeOK.
LEMMA TypeParts == TypeOK <=> FlagsOK /\ RestOK
BY DEF TypeOK, FlagsOK, RestOK

---------------------------------------------------------------------------
(* The process table.                                                      *)

\* The names of the supervisor, of a process outside and of no process are no PIDs.
LEMMA NamesApart ==
  /\ Supervisor \notin Pids /\ Outside \notin Pids /\ NoPid \notin Pids
  /\ Supervisor # Outside
BY NamesAssumption DEF Supervisor, Outside, NoPid

\* Children of the supervisor are in the family; what has ended is in the family.
LEMMA ChildrenInFamily ==
  ASSUME TypeOK, Table
  PROVE  /\ Children \subseteq family
         /\ \A p \in Pids : Zombie(p) => p \in family
BY NamesApart DEF TypeOK, Table, Children, Zombie, Exits, Free

\* A family none of which is the supervisor's child is empty.
LEMMA NoChildNoFamily ==
  ASSUME TypeOK, Table, Rooted, Children = {}
  PROVE  family = {}
<1>1. SUFFICES ASSUME family # {} PROVE FALSE
  OBVIOUS
<1>2. PICK p \in family : parent[p] \notin family
  BY <1>1 DEF Rooted
<1>3. p \in Children
  BY <1>2 DEF TypeOK, Table, Children, Free
<1> QED BY <1>3

\* A process of the family that ends leaves a zombie, and its children to the supervisor.
LEMMA EndedKeeps ==
  ASSUME TypeOK, Table, Rooted, subreaper, ~ignored, ~Gone,
         NEW p \in family, Running(p), NEW e \in Exits, Ended(p, e)
  PROVE  /\ state' = [state EXCEPT ![p] = e]
         /\ parent' = [q \in Pids |-> IF parent[q] = p THEN Supervisor ELSE parent[q]]
         /\ family' = family
         /\ Table' /\ Rooted'
<1> DEFINE heir == [q \in Pids |-> IF ~Free(q) /\ parent[q] = p THEN Adopter ELSE parent[q]]
           kept(q) == heir[q] # Outside /\ ~(ignored /\ heir[q] = Supervisor)
<1>1. p \in Pids /\ p # Outside /\ Adopter = Supervisor
  BY NamesApart DEF TypeOK, Adopter
<1>2. \A q \in Pids : Free(q) => parent[q] = Outside
  BY DEF Table, Free
<1>3. heir = [q \in Pids |-> IF parent[q] = p THEN Supervisor ELSE parent[q]]
  BY <1>1, <1>2
<1>4. \A q \in family : q \in Pids /\ kept(q)
  BY <1>1, <1>3, NamesApart DEF TypeOK, Table
<1>5. \A q \in Pids : Zombie(q) => q \in family
  BY ChildrenInFamily
<1>6. state' = [q \in Pids |-> IF q = p THEN e ELSE state[q]]
  BY <1>4, <1>5, <1>1 DEF Ended
<1>7. state' = [state EXCEPT ![p] = e]
  BY <1>6, <1>1 DEF TypeOK
<1>8. \A q \in Pids : state'[q] = "free" <=> Free(q)
  BY <1>6 DEF Running, Free, Exits
<1>9. parent' = [q \in Pids |-> IF state'[q] = "free" THEN Outside ELSE heir[q]]
  BY DEF Ended
<1>10. parent' = [q \in Pids |-> IF parent[q] = p THEN Supervisor ELSE parent[q]]
  BY <1>1, <1>2, <1>3, <1>8, <1>9
<1>11. family' = family
  <2>1. family' = {q \in family : state'[q] # "free"}
    BY DEF Ended
  <2>2. \A q \in family : state'[q] # "free"
    BY <1>8, <1>4 DEF Table, Free
  <2> QED BY <2>1, <2>2
<1>12. Table'
  <2>1. ASSUME NEW q \in Pids \ family
        PROVE  parent'[q] = Outside /\ state'[q] \in {"free", "running"}
    BY <2>1, <1>1, <1>6, <1>10 DEF Table
  <2>2. ASSUME NEW q \in family
        PROVE  /\ state'[q] # "free"
               /\ \/ parent'[q] = Supervisor
                  \/ parent'[q] \in family /\ state'[parent'[q]] = "running"
    <3>1. q \in Pids /\ state'[q] # "free"
      BY <1>4, <1>8 DEF Table, Free
    <3>2. CASE parent[q] = p
      BY <3>1, <3>2, <1>10
    <3>3. CASE parent[q] # p
      BY <3>1, <3>3, <1>4, <1>6, <1>10 DEF Table
    <3> QED BY <3>1, <3>2, <3>3
  <2> QED BY <2>1, <2>2, <1>11 DEF Table
<1>13. Rooted'
  <2>1. ASSUME NEW T \in SUBSET family, T # {}
        PROVE  \E q \in T : parent'[q] \notin T
    <3>1. PICK q \in T : parent[q] \notin T
      BY <2>1 DEF Rooted
    <3>2. q \in Pids /\ Supervisor \notin T
      BY <1>4, NamesApart
    <3> QED BY <3>1, <3>2, <1>10
  <2> QED BY <2>1, <1>11 DEF Rooted
<1> QED BY <1>7, <1>10, <1>11, <1>12, <1>13

\* A zombie its parent waits for leaves the family; it was nobody's parent.
LEMMA WaitedKeeps ==
  ASSUME TypeOK, Table, Rooted, NEW p \in Pids, Zombie(p), Waited(p)
  PROVE  Table' /\ Rooted'
<1>1. p \in family /\ family \subseteq Pids
  BY ChildrenInFamily DEF TypeOK
<1>2. /\ state' = [state EXCEPT ![p] = "free"] /\ parent' = [parent EXCEPT ![p] = Outside]
      /\ family' = family \ {p}
  BY DEF Waited
<1>3. state[p] # "running"
  BY DEF Zombie, Exits
<1>4. Table'
  <2>1. ASSUME NEW q \in Pids \ family'
        PROVE  parent'[q] = Outside /\ state'[q] \in {"free", "running"}
    BY <2>1, <1>2 DEF Table, TypeOK
  <2>2. ASSUME NEW q \in family'
        PROVE  /\ state'[q] # "free"
               /\ \/ parent'[q] = Supervisor
                  \/ parent'[q] \in family' /\ state'[parent'[q]] = "running"
    <3>1. q \in family /\ q # p /\ q \in Pids
      BY <2>2, <1>1, <1>2
    <3>2. state'[q] = state[q] /\ parent'[q] = parent[q]
      BY <3>1, <1>2 DEF TypeOK
    <3>3. CASE parent[q] = Supervisor
      BY <3>1, <3>2, <3>3 DEF Table
    <3>4. CASE parent[q] \in family /\ state[parent[q]] = "running"
      BY <3>1, <3>2, <3>4, <1>1, <1>2, <1>3 DEF Table, TypeOK
    <3> QED BY <3>1, <3>3, <3>4 DEF Table
  <2> QED BY <2>1, <2>2 DEF Table
<1>5. Rooted'
  <2>1. ASSUME NEW T \in SUBSET family', T # {}
        PROVE  \E q \in T : parent'[q] \notin T
    <3>1. T \in SUBSET family /\ p \notin T
      BY <1>2
    <3>2. PICK q \in T : parent[q] \notin T
      BY <2>1, <3>1 DEF Rooted
    <3> QED BY <3>1, <3>2, <1>1, <1>2 DEF TypeOK
  <2> QED BY <2>1 DEF Rooted
<1> QED BY <1>4, <1>5

\* A step that leaves the table and the family alone.
LEMMA TableUnchanged ==
  ASSUME Table, Rooted, UNCHANGED <<state, parent, family>>
  PROVE  Table' /\ Rooted'
BY DEF Table, Rooted

---------------------------------------------------------------------------
(* The steps of the host.                                                  *)

\* The supervisor is at work while the family is not empty.
LEMMA FamilyIsSupervised ==
  ASSUME SupervisionInv, family # {}
  PROVE  sup \in Live /\ subreaper /\ ~ignored /\ ~Gone
BY DEF SupervisionInv, Custodied, Live, Gone

\* A process of the family forks: the child is in the family, and its parent runs.
LEMMA ForkKeeps ==
  ASSUME SupervisionInv, NEW p \in Pids, NEW q \in Pids, Fork(p, q), owner # "done"
  PROVE  SupervisionInv'
<1>1. TypeOK'
  BY BoundsAssumption DEF SupervisionInv, TypeOK, Fork, supervisor, thread, hands
<1>2. /\ q \in Pids \ family /\ p # q /\ parent[q] = Outside /\ sup \in Live
      /\ p \in family /\ state[p] = "running" /\ p # Supervisor
      /\ family \subseteq Pids
      /\ state' = [state EXCEPT ![q] = "running"] /\ parent' = [parent EXCEPT ![q] = p]
      /\ family' = family \cup {q}
  BY FamilyIsSupervised, NamesApart DEF SupervisionInv, TypeOK, Table, Fork, Free, Running
<1>3. Table'
  BY <1>2 DEF SupervisionInv, TypeOK, Table
<1>4. Rooted'
  <2>1. ASSUME NEW T \in SUBSET family', T # {}
        PROVE  \E x \in T : parent'[x] \notin T
    <3>1. CASE T = {q}
      BY <3>1, <1>2 DEF SupervisionInv, TypeOK
    <3>2. CASE T # {q}
      <4>1. T \ {q} \in SUBSET family /\ T \ {q} # {}
        BY <2>1, <3>2, <1>2
      <4>2. PICK x \in T \ {q} : parent[x] \notin T \ {q}
        BY <4>1 DEF SupervisionInv, Rooted
      <4>3. parent[x] # q /\ parent'[x] = parent[x]
        BY <4>1, <1>2, NamesApart DEF SupervisionInv, Table, TypeOK
      <4> QED BY <4>2, <4>3
    <3> QED BY <3>1, <3>2
  <2> QED BY <2>1 DEF Rooted
<1>5. /\ UNCHANGED <<supervisor, thread, subreaper, ignored, original, disturbed>>
      /\ reissued' = (reissued \/ q = leader)
  BY DEF Fork
<1>6. Custodied'
  BY <1>2, <1>5 DEF SupervisionInv, Custodied, Live, Before, supervisor, thread, hands
<1>7. KnownAreChildren'
  <2>1. ASSUME NEW c \in known
        PROVE  c \in Pids /\ c # q /\ state[c] # "free" /\ parent[c] = Supervisor
    BY <2>1, <1>2, ChildrenInFamily DEF SupervisionInv, KnownAreChildren, Children, Free
  <2> QED BY <2>1, <1>2, <1>5 DEF SupervisionInv, TypeOK, KnownAreChildren, Children, Free, supervisor, hands
<1>8. Led'
  BY <1>2, <1>5 DEF SupervisionInv, TypeOK, Led, supervisor, hands
<1>9. Quiet' /\ VerdictUndisturbed'
  BY <1>5 DEF SupervisionInv, Quiet, VerdictUndisturbed, Gone, supervisor, thread, hands
<1> QED BY <1>1, <1>3, <1>4, <1>6, <1>7, <1>8, <1>9 DEF SupervisionInv

\* A process of the family ends; the command's own status is noted.
LEMMA ExitKeeps ==
  ASSUME SupervisionInv, NEW p \in Pids, NEW e \in Exits, Exit(p, e), owner # "done"
  PROVE  SupervisionInv'
<1>1. p \in family /\ sup \in Live /\ subreaper /\ ~ignored /\ ~Gone
  BY FamilyIsSupervised DEF Exit
<1>2. /\ state' = [state EXCEPT ![p] = e]
      /\ parent' = [q \in Pids |-> IF parent[q] = p THEN Supervisor ELSE parent[q]]
      /\ family' = family
      /\ Table' /\ Rooted'
  BY <1>1, EndedKeeps DEF SupervisionInv, Exit
<1>3. /\ UNCHANGED <<subreaper, ignored, budget, supervisor, thread, reissued, disturbed>>
      /\ original' = IF p = leader /\ original = "none" THEN e ELSE original
      /\ state[p] = "running"
  BY DEF Exit, Running
<1>4. TypeOK'
  BY <1>2, <1>3 DEF SupervisionInv, TypeOK, budget, supervisor, thread, hands, Exits
<1>5. Custodied'
  BY <1>1, <1>2, <1>3 DEF SupervisionInv, Custodied, Live, Before, supervisor, thread, hands
<1>6. KnownAreChildren'
  BY <1>2, <1>3, NamesApart DEF SupervisionInv, TypeOK, KnownAreChildren, Children, Free, supervisor, hands, Exits
<1>7. Led'
  BY <1>1, <1>2, <1>3, NamesApart DEF SupervisionInv, TypeOK, Led, supervisor, hands, Exits
<1>8. Quiet' /\ VerdictUndisturbed'
  BY <1>1, <1>3 DEF SupervisionInv, Quiet, VerdictUndisturbed, Gone, supervisor, thread, hands
<1> QED BY <1>2, <1>4, <1>5, <1>6, <1>7, <1>8 DEF SupervisionInv

\* A process of the family waits for a child, which is not the supervisor's.
LEMMA ReapKeeps ==
  ASSUME SupervisionInv, NEW p \in Pids, NEW q \in Pids, Reap(p, q), owner # "done"
  PROVE  SupervisionInv'
<1>1. Table' /\ Rooted'
  BY WaitedKeeps DEF SupervisionInv, Reap
<1>2. /\ p \in family /\ sup \in Live /\ parent[q] = p /\ p # Supervisor
      /\ state' = [state EXCEPT ![q] = "free"] /\ parent' = [parent EXCEPT ![q] = Outside]
      /\ family' = family \ {q}
      /\ UNCHANGED <<subreaper, ignored, budget, supervisor, thread, original, reissued, disturbed>>
  BY FamilyIsSupervised, NamesApart DEF Reap, Waited
<1>3. TypeOK'
  BY <1>2 DEF SupervisionInv, TypeOK, budget, supervisor, thread, hands
<1>4. Custodied'
  BY <1>2 DEF SupervisionInv, Custodied, Live, Before, supervisor, thread, hands
<1>5. KnownAreChildren'
  BY <1>2 DEF SupervisionInv, TypeOK, KnownAreChildren, Children, Free, supervisor, hands
<1>6. Led'
  BY <1>2 DEF SupervisionInv, TypeOK, Led, supervisor, hands
<1>7. Quiet' /\ VerdictUndisturbed'
  BY <1>2 DEF SupervisionInv, Quiet, VerdictUndisturbed, Gone, supervisor, thread, hands
<1> QED BY <1>1, <1>3, <1>4, <1>5, <1>6, <1>7 DEF SupervisionInv

\* A stranger starts or ends: nobody of the family has its PID.
LEMMA StrangerKeeps ==
  ASSUME SupervisionInv, NEW q \in Pids, Birth(q) \/ Death(q), owner # "done"
  PROVE  SupervisionInv'
<1>1. /\ q \notin family /\ UNCHANGED <<parent, subreaper, ignored, forks, faults, supervisor, thread, ghosts>>
      /\ births' \in 0..Births
      /\ \E s \in {"free", "running"} : state' = [state EXCEPT ![q] = s]
  BY BoundsAssumption DEF SupervisionInv, TypeOK, Table, Birth, Death, budget, Free
<1>2. UNCHANGED <<family, original, reissued, disturbed>>
  BY <1>1 DEF ghosts
<1>3. Table' /\ Rooted'
  BY <1>1, <1>2 DEF SupervisionInv, TypeOK, Table, Rooted
<1>4. TypeOK'
  BY <1>1, <1>2 DEF SupervisionInv, TypeOK, supervisor, thread, hands
<1>5. Custodied'
  BY <1>1, <1>2 DEF SupervisionInv, Custodied, Live, Before, supervisor, thread, hands
<1>6. KnownAreChildren'
  BY <1>1, <1>2, ChildrenInFamily DEF SupervisionInv, TypeOK, KnownAreChildren, Children, Free, supervisor, hands
<1>7. Led'
  BY <1>1, <1>2 DEF SupervisionInv, TypeOK, Led, supervisor, hands
<1>8. Quiet' /\ VerdictUndisturbed'
  BY <1>1, <1>2 DEF SupervisionInv, Quiet, VerdictUndisturbed, Gone, supervisor, thread, hands
<1> QED BY <1>3, <1>4, <1>5, <1>6, <1>7, <1>8 DEF SupervisionInv

\* Every step of the host keeps the invariant.
LEMMA HostKeeps ==
  ASSUME SupervisionInv, HostStep
  PROVE  SupervisionInv'
<1>1. CASE Lend \/ LetGo
  <2>1. /\ UNCHANGED <<kernel, budget, supervisor, owner, asked, late, outcome, ghosts>>
        /\ pipes' \in BOOLEAN
    BY <1>1 DEF Lend, LetGo
  <2> QED BY <2>1, TableUnchanged DEF SupervisionInv, TypeOK, Custodied, KnownAreChildren, Children, Free,
            Led, Quiet, VerdictUndisturbed, Gone, kernel, budget, supervisor, hands, ghosts
<1> QED BY <1>1, ForkKeeps, ExitKeeps, ReapKeeps, StrangerKeeps DEF HostStep

---------------------------------------------------------------------------
(* The steps of the supervisor.                                            *)

\* Up to the launch there is no family, and an error exits.
LEMMA BeforeLaunchKeeps ==
  ASSUME SupervisionInv, Handlers \/ Custody \/ CheckLaunch \/ LaunchFails
  PROVE  SupervisionInv'
<1>1. /\ sup \in {"starting", "custody", "launch", "popen"}
      /\ UNCHANGED <<state, parent, thread, ghosts, cancelled, leader, returncode, forks, births>>
      /\ family = {} /\ family' = {}
  BY DEF SupervisionInv, Custodied, Live, Handlers, Custody, CheckLaunch, LaunchFails, Unavailable,
         Resume, kernel, budget, ghosts, Fails, Steady, hands
<1>2. Table' /\ Rooted'
  BY <1>1, TableUnchanged DEF SupervisionInv
<1>3. \/ /\ sup' = "custody" /\ ignored' = FALSE /\ UNCHANGED <<subreaper, hands, answer, faults>>
      \/ /\ sup = "custody" /\ sup' = "launch" /\ subreaper' = TRUE /\ UNCHANGED <<ignored, hands, answer, faults>>
      \/ /\ sup = "launch" /\ sup' = "popen" /\ UNCHANGED <<subreaper, ignored, hands, answer, faults>>
      \/ /\ Give("unavailable") /\ UNCHANGED <<subreaper, ignored>> /\ faults' \in {faults, faults - 1}
         /\ faults > 0 \/ faults' = faults
  BY DEF Handlers, Custody, CheckLaunch, LaunchFails, Unavailable, Resume, Ignoring, Steady, Fails,
         kernel, budget
<1>4. TypeOK'
  <2>1. FlagsOK'
    BY <1>1, <1>3, TypeParts, Zenon DEF SupervisionInv, FlagsOK, Give, hands, thread, ghosts
  <2>2. RestOK'
    BY <1>1, <1>3, TypeParts, BoundsAssumption DEF SupervisionInv, RestOK, Give, hands, thread, ghosts
  <2> QED BY <2>1, <2>2 DEF TypeOK, FlagsOK, RestOK
<1>5. Custodied'
  BY <1>1, <1>3 DEF SupervisionInv, Custodied, Live, Before, Give, hands, thread, ghosts
<1>6. KnownAreChildren'
  BY <1>1, <1>3 DEF SupervisionInv, Custodied, Live, KnownAreChildren, Give, hands
<1>7. Led'
  BY <1>1 DEF SupervisionInv, Custodied, Before, Led, ghosts
<1>8. Quiet' /\ VerdictUndisturbed'
  BY <1>1, <1>3 DEF SupervisionInv, Custodied, Before, Quiet, VerdictUndisturbed, Gone, Give, hands,
                    thread, ghosts, Exits
<1> QED BY <1>2, <1>4, <1>5, <1>6, <1>7, <1>8 DEF SupervisionInv

\* The command starts: it is the family, and a child of the supervisor.
LEMMA LaunchKeeps ==
  ASSUME SupervisionInv, NEW p \in Pids, Launch(p)
  PROVE  SupervisionInv'
<1>1. /\ sup = "popen" /\ family = {} /\ known = {} /\ targets = {} /\ interrupted = {}
      /\ ~ignored /\ subreaper /\ original = "none" /\ ~disturbed /\ returncode \in Exits \cup {"none"}
      /\ state[p] = "free" /\ parent[p] = Outside
  BY DEF SupervisionInv, Custodied, Live, Before, Launch, TypeOK, Free, Table
<1>2. /\ state' = [state EXCEPT ![p] = "running"] /\ parent' = [parent EXCEPT ![p] = Supervisor]
      /\ sup' = "loop" /\ leader' = p /\ known' = {p} /\ family' = {p}
      /\ UNCHANGED <<subreaper, ignored, budget, cancelled, interrupted, grace, signum, targets,
                     custodyError, returncode, answer, thread, original, reissued, disturbed>>
  BY DEF Launch
<1>3. Table' /\ Rooted'
  <2>1. Table'
    BY <1>1, <1>2 DEF SupervisionInv, TypeOK, Table
  <2>2. ASSUME NEW T \in SUBSET family', T # {} PROVE \E q \in T : parent'[q] \notin T
    BY <2>2, <1>2, NamesApart DEF SupervisionInv, TypeOK
  <2> QED BY <2>1, <2>2 DEF Rooted
<1>4. TypeOK'
  BY <1>1, <1>2 DEF SupervisionInv, TypeOK, budget, thread
<1>5. Custodied'
  BY <1>1, <1>2 DEF SupervisionInv, Custodied, Live, Before, thread
<1>6. KnownAreChildren'
  BY <1>1, <1>2 DEF SupervisionInv, TypeOK, KnownAreChildren, Children, Free
<1>7. Led'
  BY <1>1, <1>2, NamesApart DEF SupervisionInv, Custodied, Before, TypeOK, Led, Live
<1>8. Quiet' /\ VerdictUndisturbed'
  BY <1>1, <1>2, NamesApart DEF SupervisionInv, Quiet, VerdictUndisturbed, Gone, thread, Exits
<1> QED BY <1>3, <1>4, <1>5, <1>6, <1>7, <1>8 DEF SupervisionInv

\* The passes of the loop that leave the table alone.
LEMMA PassKeeps ==
  ASSUME SupervisionInv, Pass \/ PassCancelled \/ PassBreaks \/ Sent \/ Sleep \/ GraceOver
  PROVE  SupervisionInv'
<1>1. UNCHANGED <<state, parent, subreaper, ignored, thread, ghosts, leader, returncode, answer, interrupted, forks, births>>
  BY DEF Pass, PassCancelled, PassBreaks, Sent, Sleep, GraceOver, Resume, kernel, budget, hands
<1>2. /\ faults' \in {faults, faults - 1} /\ (faults > 0 \/ faults' = faults)
      /\ known' \in {known, known \cup Children}
      /\ \/ sup \in Live /\ sup' \in Live
         \/ sup' = sup /\ targets' = targets /\ known' = known /\ custodyError' = custodyError
      /\ cancelled => cancelled'
      /\ cancelled' => cancelled \/ custodyError'
      /\ custodyError => custodyError'
      /\ sup' = "signal" => cancelled'
  BY DEF Pass, PassCancelled, PassBreaks, Sent, Sleep, GraceOver, Resume, Live, hands, budget, Steady,
         Fails, SupervisionInv, Quiet
<1>3. /\ targets' \subseteq known'
      /\ sup' # "signal" => targets' = {}
  BY DEF Pass, PassCancelled, PassBreaks, Sent, Sleep, GraceOver, Resume, hands, Aim, SupervisionInv,
         TypeOK, Custodied
<1>4. Table' /\ Rooted'
  BY <1>1, TableUnchanged DEF SupervisionInv, ghosts
<1>5. TypeOK'
  <2>1. /\ grace' \in {"unset", "running", "over"} /\ signum' \in {"INT", "KILL"}
        /\ cancelled' \in BOOLEAN /\ custodyError' \in BOOLEAN
        /\ sup' \in {"none", "starting", "custody", "launch", "popen", "loop", "signal", "wait", "gone"}
    BY DEF Pass, PassCancelled, PassBreaks, Sent, Sleep, GraceOver, Resume, hands, Aim, Grace,
           SupervisionInv, TypeOK
  <2>2. Children \subseteq Pids
    BY DEF Children
  <2> QED BY <1>1, <1>2, <1>3, <2>1, <2>2, BoundsAssumption DEF SupervisionInv, TypeOK, thread, ghosts
<1>6. Custodied'
  BY <1>1, <1>2, <1>3 DEF SupervisionInv, Custodied, Live, Before, thread, ghosts
<1>7. KnownAreChildren'
  BY <1>1, <1>2 DEF SupervisionInv, KnownAreChildren, Children, Free
<1>8. Led'
  BY <1>1, <1>2 DEF SupervisionInv, Led, ghosts
<1>9. Quiet' /\ VerdictUndisturbed'
  BY <1>1, <1>2 DEF SupervisionInv, Quiet, VerdictUndisturbed, Gone, Live, thread, ghosts
<1> QED BY <1>4, <1>5, <1>6, <1>7, <1>8, <1>9 DEF SupervisionInv

\* A signal goes to a child; only SIGKILL ends it here.
LEMMA SendKeeps ==
  ASSUME SupervisionInv, NEW p \in Pids, Send(p)
  PROVE  SupervisionInv'
<1>1. /\ sup = "signal" /\ p \in targets /\ p \in Children /\ p \in family
      /\ sup \in Live /\ subreaper /\ ~ignored /\ ~Gone /\ cancelled
  BY ChildrenInFamily, FamilyIsSupervised DEF Send, SupervisionInv, TypeOK, KnownAreChildren, Quiet
<1>2. /\ UNCHANGED <<subreaper, ignored, forks, births, sup, cancelled, known, grace, signum,
                     custodyError, leader, returncode, answer, thread, reissued>>
      /\ targets' = targets \ {p} /\ disturbed'
      /\ interrupted' \in {interrupted, interrupted \cup {p}}
      /\ faults' \in {faults, faults - 1} /\ (faults > 0 \/ faults' = faults)
      /\ disturbed' \in BOOLEAN
  BY DEF Send, Steady, Fails
<1>3. \/ UNCHANGED <<state, parent, family, original>>
      \/ /\ Running(p) /\ Ended(p, "failed")
         /\ original' = IF p = leader /\ original = "none" THEN "failed" ELSE original
  BY DEF Send
<1>4. /\ Table' /\ Rooted' /\ family' = family
      /\ \A q \in Children : q \in Children'
  <2>1. CASE UNCHANGED <<state, parent, family, original>>
    BY <2>1, TableUnchanged DEF SupervisionInv, Children, Free
  <2>2. CASE Running(p) /\ Ended(p, "failed")
    <3>1. /\ state' = [state EXCEPT ![p] = "failed"]
          /\ parent' = [q \in Pids |-> IF parent[q] = p THEN Supervisor ELSE parent[q]]
          /\ family' = family /\ Table' /\ Rooted'
      BY <1>1, <2>2, EndedKeeps DEF SupervisionInv, Exits
    <3> QED BY <3>1 DEF SupervisionInv, TypeOK, Children, Free
  <2> QED BY <1>3, <2>1, <2>2
<1>5. /\ original' \in Exits \cup {"none"}
      /\ state' \in [Pids -> {"free", "running"} \cup Exits]
      /\ parent' \in [Pids -> Pids \cup {Supervisor, Outside}]
      /\ Led'
  <2>1. CASE UNCHANGED <<state, parent, family, original>>
    BY <2>1, <1>2 DEF SupervisionInv, TypeOK, Led
  <2>2. CASE /\ Running(p) /\ Ended(p, "failed")
             /\ original' = IF p = leader /\ original = "none" THEN "failed" ELSE original
    <3>1. /\ state' = [state EXCEPT ![p] = "failed"]
          /\ parent' = [q \in Pids |-> IF parent[q] = p THEN Supervisor ELSE parent[q]]
          /\ family' = family
      BY <1>1, <2>2, EndedKeeps DEF SupervisionInv, Exits
    <3>2. state[p] = "running"
      BY <2>2 DEF Running
    <3> QED BY <3>1, <3>2, <2>2, <1>1, <1>2, NamesApart DEF SupervisionInv, TypeOK, Led, Exits
  <2> QED BY <1>3, <2>1, <2>2
<1>6. TypeOK'
  BY <1>1, <1>2, <1>4, <1>5, BoundsAssumption DEF SupervisionInv, TypeOK, thread
<1>7. Custodied'
  BY <1>1, <1>2, <1>4 DEF SupervisionInv, Custodied, Live, Before, thread
<1>8. KnownAreChildren'
  BY <1>2, <1>4 DEF SupervisionInv, KnownAreChildren
<1>9. Quiet' /\ VerdictUndisturbed'
  BY <1>1, <1>2 DEF SupervisionInv, Custodied, Quiet, VerdictUndisturbed, Gone, thread
<1> QED BY <1>4, <1>5, <1>6, <1>7, <1>8, <1>9 DEF SupervisionInv

\* A child is waited for; if it is the command, its status is the answer.
LEMMA WaitKeeps ==
  ASSUME SupervisionInv, NEW p \in Pids, Wait(p)
  PROVE  SupervisionInv'
<1>1. Table' /\ Rooted'
  BY WaitedKeeps DEF SupervisionInv, Wait
<1>2. /\ state' = [state EXCEPT ![p] = "free"] /\ parent' = [parent EXCEPT ![p] = Outside]
      /\ family' = family \ {p}
      /\ known' = known \ {p} /\ interrupted' = interrupted \ {p}
      /\ returncode' = IF p = leader THEN state[p] ELSE returncode
      /\ sup = "wait" /\ state[p] \in Exits
      /\ UNCHANGED <<subreaper, ignored, budget, sup, cancelled, grace, signum, targets, custodyError,
                     leader, answer, thread, original, reissued, disturbed>>
  BY DEF Wait, Waited, Interrupted, Zombie
<1>3. targets = {}
  BY <1>2 DEF SupervisionInv, Custodied
<1>4. p \in family
  BY <1>2, ChildrenInFamily DEF SupervisionInv, Zombie
<1>5. TypeOK'
  BY <1>2, <1>3 DEF SupervisionInv, TypeOK, budget, thread
<1>6. Custodied'
  BY <1>2, <1>3 DEF SupervisionInv, Custodied, Live, Before, thread
<1>7. KnownAreChildren'
  BY <1>2 DEF SupervisionInv, TypeOK, KnownAreChildren, Children, Free
<1>8. Led'
  BY <1>2, <1>4 DEF SupervisionInv, TypeOK, Led, Live, Exits
<1>9. Quiet' /\ VerdictUndisturbed'
  BY <1>2 DEF SupervisionInv, Custodied, Quiet, VerdictUndisturbed, Gone, thread
<1> QED BY <1>1, <1>5, <1>6, <1>7, <1>8, <1>9 DEF SupervisionInv

\* It exits when it has no child: then the family is empty.
LEMMA FinishKeeps ==
  ASSUME SupervisionInv, Finish
  PROVE  SupervisionInv'
<1>1. /\ sup = "wait" /\ Give(Status) /\ family = {}
      /\ UNCHANGED <<kernel, budget, cancelled, leader, returncode, thread, ghosts>>
  BY NoChildNoFamily DEF SupervisionInv, Finish, AllReaped
<1>2. /\ sup' = "gone" /\ answer' = Status
      /\ known' = {} /\ interrupted' = {} /\ targets' = {}
      /\ grace' = "unset" /\ signum' = "INT" /\ custodyError' = FALSE
  BY <1>1 DEF Give
<1>3. Table' /\ Rooted'
  BY <1>1, TableUnchanged DEF SupervisionInv, kernel, ghosts
<1>4. TypeOK'
  <2>1. FlagsOK'
    BY <1>1, <1>2, TypeParts, Zenon DEF SupervisionInv, FlagsOK, kernel, thread, ghosts
  <2>2. RestOK'
    BY <1>1, <1>2, TypeParts DEF SupervisionInv, RestOK, kernel, budget, thread, ghosts, Status
  <2> QED BY <2>1, <2>2 DEF TypeOK, FlagsOK, RestOK
<1>5. Custodied'
  BY <1>1, <1>2 DEF SupervisionInv, Custodied, Live, Before, kernel, thread, ghosts
<1>6. KnownAreChildren'
  BY <1>2 DEF KnownAreChildren
<1>7. Led'
  BY <1>1, <1>2 DEF SupervisionInv, Led, Live, ghosts
<1>8. Quiet' /\ VerdictUndisturbed'
  BY <1>1, <1>2, NamesApart DEF SupervisionInv, Custodied, Live, Quiet, VerdictUndisturbed, Gone, thread, ghosts, Status, Exits
<1> QED BY <1>3, <1>4, <1>5, <1>6, <1>7, <1>8 DEF SupervisionInv

---------------------------------------------------------------------------
(* The steps of the thread.                                                *)

\* The thread starts its supervisor, gives a read up, or takes an answer.
LEMMA OwnerKeeps ==
  ASSUME SupervisionInv, OwnerStep \/ Ask \/ Expire
  PROVE  SupervisionInv'
<1>1. UNCHANGED <<kernel, budget, leader, returncode, ghosts, pipes>>
  BY DEF OwnerStep, Begin, Receive, TimedOut, Terminate, Stopped, Ask, Expire, Owns, Returns, supervisor
<1>2. Table' /\ Rooted'
  BY <1>1, TableUnchanged DEF SupervisionInv, kernel, ghosts
<1>3. TypeOK'
  <2>1. FlagsOK'
    BY <1>1, TypeParts, Zenon DEF SupervisionInv, FlagsOK, OwnerStep, Begin, Receive, TimedOut, Terminate, Stopped,
      Ask, Expire, Owns, Returns, Give, kernel, supervisor, hands, ghosts
  <2>2. RestOK'
    <3>1. CASE Begin \/ Receive \/ TimedOut
      BY <1>1, <3>1, TypeParts DEF SupervisionInv, RestOK, Begin, Receive, TimedOut, Owns, Returns,
        kernel, budget, supervisor, hands, ghosts, Exits
    <3>2. CASE Stopped \/ Ask \/ Expire
      BY <1>1, <3>2, TypeParts DEF SupervisionInv, RestOK, Stopped, Ask, Expire, Owns, Returns,
        kernel, budget, supervisor, hands, ghosts, Exits
    <3>3. CASE Terminate
      BY <1>1, <3>3, TypeParts DEF SupervisionInv, RestOK, Terminate, Give, kernel, budget, hands, ghosts
    <3> QED BY <3>1, <3>2, <3>3 DEF OwnerStep
  <2> QED BY <2>1, <2>2 DEF TypeOK, FlagsOK, RestOK
<1>4. Custodied'
  BY <1>1 DEF SupervisionInv, Custodied, Live, Before, OwnerStep, Begin, Receive, Communicated, TimedOut,
    Terminate, Stopped, Drained, Gone, Ask, Expire, Owns, Returns, Give, kernel, supervisor, hands, ghosts
<1>5. KnownAreChildren'
  <2>1. Children' = Children /\ known' \in {known, {}}
    BY <1>1 DEF Children, Free, OwnerStep, Begin, Receive, TimedOut, Terminate, Stopped, Ask, Expire,
      Give, kernel, supervisor, hands
  <2> QED BY <2>1 DEF SupervisionInv, KnownAreChildren
<1>6. Led'
  <2>1. sup' \in Live => sup \in Live
    BY DEF Live, OwnerStep, Begin, Receive, TimedOut, Terminate, Stopped, Ask, Expire, Give, supervisor
  <2> QED BY <1>1, <2>1 DEF SupervisionInv, Led, kernel, ghosts
<1>7. Quiet' /\ VerdictUndisturbed'
  <2>1. CASE Begin
    BY <1>1, <2>1 DEF SupervisionInv, Custodied, Before, Quiet, VerdictUndisturbed, Gone, Begin, Owns, Returns,
      hands, ghosts, Exits
  <2>2. CASE Receive
    BY <1>1, <2>2, NamesApart DEF SupervisionInv, Custodied, Quiet, VerdictUndisturbed, Led, Gone, Receive,
      Communicated, Owns, Returns, supervisor, hands, ghosts, Exits
  <2>3. CASE TimedOut \/ Ask \/ Expire
    BY <1>1, <2>3 DEF SupervisionInv, Quiet, VerdictUndisturbed, Gone, TimedOut, Ask, Expire, Asking, Owns,
      supervisor, hands, ghosts, Exits
  <2>4. CASE Terminate
    <3>1. cancelled => cancelled'
      BY <2>4, Zenon DEF Terminate
    <3>2. /\ owner' = "draining" /\ outcome' \in {"cancelled", "timeout"}
          /\ \/ sup' = "gone" /\ answer' = "unavailable"
             \/ UNCHANGED <<sup, answer>>
      BY <2>4 DEF Terminate, Give
    <3> QED BY <1>1, <3>1, <3>2 DEF SupervisionInv, Custodied, Before, Quiet, VerdictUndisturbed, Gone,
              ghosts, Exits
  <2>5. CASE Stopped
    BY <1>1, <2>5 DEF SupervisionInv, Quiet, VerdictUndisturbed, Gone, Stopped, Owns, Returns,
      supervisor, hands, ghosts, Exits
  <2> QED BY <2>1, <2>2, <2>3, <2>4, <2>5 DEF OwnerStep
<1> QED BY <1>2, <1>3, <1>4, <1>5, <1>6, <1>7 DEF SupervisionInv

---------------------------------------------------------------------------
(* The theorems.                                                           *)

\* The invariant holds at first, and each step keeps it.
LEMMA SupervisionInit == Init => SupervisionInv
<1> SUFFICES ASSUME Init PROVE SupervisionInv
  OBVIOUS
<1>1. TypeOK
  <2>1. FlagsOK
    BY Zenon DEF Init, FlagsOK
  <2>2. RestOK
    BY BoundsAssumption DEF Init, RestOK
  <2> QED BY <2>1, <2>2 DEF TypeOK, FlagsOK, RestOK
<1>2. Table /\ Rooted
  BY DEF Init, Table, Rooted
<1>3. Custodied /\ KnownAreChildren
  BY DEF Init, Custodied, KnownAreChildren, Live, Before
<1>4. Led /\ Quiet /\ VerdictUndisturbed
  BY NamesApart DEF Init, Led, Quiet, VerdictUndisturbed, Exits, Gone
<1> QED BY <1>1, <1>2, <1>3, <1>4 DEF SupervisionInv

LEMMA SupervisionStep == SupervisionInv /\ [Next]_vars => SupervisionInv'
<1> SUFFICES ASSUME SupervisionInv, [Next]_vars PROVE SupervisionInv'
  OBVIOUS
<1>1. CASE HostStep
  BY <1>1, HostKeeps
<1>2. CASE SupervisorStep
  BY <1>2, BeforeLaunchKeeps, LaunchKeeps, PassKeeps, SendKeeps, WaitKeeps, FinishKeeps DEF SupervisorStep
<1>3. CASE GraceOver
  BY <1>3, PassKeeps
<1>4. CASE OwnerStep \/ Ask \/ Expire
  BY <1>4, OwnerKeeps
<1>5. CASE UNCHANGED vars
  <2>1. Table' /\ Rooted'
    BY <1>5, TableUnchanged DEF SupervisionInv, vars, kernel, ghosts
  <2> QED BY <2>1, <1>5 DEF SupervisionInv, TypeOK, Custodied, KnownAreChildren, Children, Free, Led, Quiet,
            VerdictUndisturbed, Gone, vars, kernel, budget, supervisor, hands, thread, ghosts
<1> QED BY <1>1, <1>2, <1>3, <1>4, <1>5 DEF Next

\* Whatever the command forks, ends or hands away, and whatever strangers do, each PID the
\* supervisor is about to signal names a child of its own (_admission_process.main).
THEOREM SignalsOwnChildren == Spec => []TargetsAreChildren
<1>1. SupervisionInv => TargetsAreChildren
  BY DEF SupervisionInv, TypeOK, KnownAreChildren, TargetsAreChildren
<1> QED BY <1>1, SupervisionInit, SupervisionStep, PTL DEF Spec

\* When the thread gives its slot and its memory back, the command's family is gone, at
\* any number of descendants and after any failed calls (Admission._execute_command).
THEOREM SlotsOfTheGone == Spec => []FamilyEnded
<1>1. SupervisionInv => FamilyEnded
  BY DEF SupervisionInv, Custodied, Live, FamilyEnded
<1> QED BY <1>1, SupervisionInit, SupervisionStep, PTL DEF Spec

\* A verdict is the status of the command, whose family nobody has signalled.
THEOREM VerdictOfTheCommand == Spec => []VerdictUndisturbed
<1>1. SupervisionInv => VerdictUndisturbed
  BY DEF SupervisionInv
<1> QED BY <1>1, SupervisionInit, SupervisionStep, PTL DEF Spec
=============================================================================
