------------------------------- MODULE Gates -------------------------------
(***************************************************************************)
(* The gates of the trains of one host (src/svrf/gate.py, locks.py): the   *)
(* memory guard of each process, the worktree slots and the setup lock     *)
(* that processes with the same pool share, the commands, stop requests,   *)
(* the death and restart of a process, and what a killed command leaves    *)
(* running.                                                                *)
(*                                                                         *)
(* A gate is one call of Train.gate_family, on a thread of its own; its    *)
(* folded commit bears its name.  A train may have one gate more than the  *)
(* pool has threads: a bisection gates on the run's own thread.            *)
(***************************************************************************)
EXTENDS Integers, FiniteSets

CONSTANTS
  Train,          \* the processes
  Gate,           \* the gates they run
  Owners,         \* which train may run which gate
  Slot,           \* the worktree slots of the shared pool
  Setups,         \* how many setup commands
  Commands,       \* how many gate commands
  Memory,         \* memory_gb of a gate is the unit: the host's memory,
  Reserve,        \*   what the guard keeps free,
  Others,         \*   and what other programs may use
  MaxStrays,      \* a killed command may leave processes running, as long as fewer do
  Crashes,        \* how many crashes of trains
  Fair            \* the trains whose threads and commands never hang

None == "none"

ASSUME GateAssumption == IsFiniteSet(Gate) /\ None \notin Gate
ASSUME SlotAssumption == IsFiniteSet(Slot) /\ None \notin Slot
ASSUME OwnersAssumption == Owners \subseteq [Gate -> Train]
ASSUME NumbersAssumption ==
  /\ Setups \in Nat /\ Commands \in Nat \ {0} /\ Memory \in Nat /\ Reserve \in Nat /\ Crashes \in Nat
  /\ Others \subseteq Nat /\ MaxStrays \in Nat /\ Fair \subseteq Train

VARIABLES
  owner,          \* whose gate it is
  stop,           \* stop_requested of each train
  others,         \* memory other programs use
  running,        \* MemoryGuard.running of each train
  held,           \* SlotPool.held of each train
  slotLock,       \* the gate whose descriptor has the lock of the slot's file
  setupLock,      \* the gate whose descriptor has setup.lock
  worktree,       \* the commit checked out in a slot
  pc, slot, step, started, verdict,   \* of each gate
  grown,          \* the gates whose command uses the memory it needs
  strays,         \* processes a killed command left behind
  crashes

vars == <<owner, stop, others, running, held, slotLock, setupLock, worktree, pc, slot, step,
          started, verdict, grown, strays, crashes>>

host == <<owner, stop, others, strays, crashes>>

Of(p) == {g \in Gate : owner[g] = p}
IsSetup(g) == step[g] <= Setups

\* A stop request is heeded until the first command was started.
InterruptibleLate(g) == stop[owner[g]]        \* mutant: also between two commands
Interruptible(g) == stop[owner[g]] /\ ~started[g]

\* Asked in every wait and before every command, not after the last one.
StopHeededAwake(g) == Interruptible(g) /\ pc[g] # "setup"   \* mutant: not in the lock's wait
StopHeeded(g) == Interruptible(g) /\ (pc[g] = "next" => step[g] <= Setups + Commands)

---------------------------------------------------------------------------
(* Memory.                                                                 *)

Available == Memory - others - Cardinality(grown) - Cardinality({x \in strays : x.grown})

\* fits: what the gates of this guard may still take is kept for them.
FitsAlone(p) == Available >= 1 + Reserve      \* mutant: running gates are not counted
Fits(p) == Available - running[p] >= 1 + Reserve

Init ==
  /\ owner \in Owners
  /\ stop = [p \in Train |-> FALSE] /\ others \in Others
  /\ running = [p \in Train |-> 0] /\ held = [p \in Train |-> {}]
  /\ slotLock = [s \in Slot |-> None] /\ setupLock = None
  /\ worktree = [s \in Slot |-> None]
  /\ pc = [g \in Gate |-> "memory"] /\ slot = [g \in Gate |-> None]
  /\ step = [g \in Gate |-> 1] /\ started = [g \in Gate |-> FALSE]
  /\ verdict = [g \in Gate |-> "none"]
  /\ grown = {} /\ strays = {} /\ crashes = 0

Goto(g, label) == pc' = [pc EXCEPT ![g] = label]
Answer(g, answer) == verdict' = [verdict EXCEPT ![g] = answer]

\* The guard polls: it admits at any moment at which the gate fits.
Admit(g) ==
  /\ pc[g] = "memory" /\ ~StopHeeded(g) /\ Fits(owner[g])
  /\ running' = [running EXCEPT ![owner[g]] = @ + 1]
  /\ Goto(g, "slot")
  /\ UNCHANGED <<host, held, slotLock, setupLock, worktree, slot, step, started, verdict, grown>>

---------------------------------------------------------------------------
(* The slot and its worktree.                                              *)

\* Under the pool's lock the first slot that this process does not hold and whose
\* file nobody has locked.  Another process may free a slot behind the scan.
UnheldSlots(g) == Slot \ held[owner[g]]       \* mutant: the lock of the file is not asked for
FreeSlots(g) == {s \in Slot \ held[owner[g]] : slotLock[s] = None}

AcquireSlot(g) ==
  /\ pc[g] = "slot" /\ ~StopHeeded(g)
  /\ \E s \in FreeSlots(g) :
       /\ held' = [held EXCEPT ![owner[g]] = @ \union {s}]
       /\ slotLock' = [slotLock EXCEPT ![s] = g]
       /\ slot' = [slot EXCEPT ![g] = s]
  /\ Goto(g, "prepare")
  /\ UNCHANGED <<host, running, setupLock, worktree, step, started, verdict, grown>>

\* Check out the commit, or fail: the exception is a gate that could not be read.
Prepare(g) ==
  /\ pc[g] = "prepare" /\ ~StopHeeded(g)
  /\ \/ /\ worktree' = [worktree EXCEPT ![slot[g]] = g]
        /\ Goto(g, "metadata") /\ UNCHANGED verdict
     \/ /\ \E content \in {worktree[slot[g]], None} : worktree' = [worktree EXCEPT ![slot[g]] = content]
        /\ Answer(g, "unread") /\ Goto(g, "release")
  /\ UNCHANGED <<host, running, held, slotLock, setupLock, slot, step, started, grown>>

Metadata(g) ==
  /\ pc[g] = "metadata" /\ ~StopHeeded(g)
  /\ \/ Goto(g, "next") /\ UNCHANGED verdict
     \/ Answer(g, "unread") /\ Goto(g, "release")
  /\ UNCHANGED <<host, running, held, slotLock, setupLock, worktree, slot, step, started, grown>>

---------------------------------------------------------------------------
(* The commands: setup commands under the setup lock, then gate commands.  *)

NextCommand(g) ==
  /\ pc[g] = "next"
  /\ \/ /\ step[g] > Setups + Commands
        /\ Answer(g, "green") /\ Goto(g, "release") /\ UNCHANGED started
     \/ /\ IsSetup(g) /\ ~StopHeeded(g)
        /\ Goto(g, "setup") /\ UNCHANGED <<verdict, started>>
     \/ /\ Setups < step[g] /\ step[g] <= Setups + Commands /\ ~StopHeeded(g)
        /\ started' = [started EXCEPT ![g] = TRUE]
        /\ Goto(g, "command") /\ UNCHANGED verdict
  /\ UNCHANGED <<host, running, held, slotLock, setupLock, worktree, slot, step, grown>>

\* flocked: polls while a stop request is heeded, waits in the kernel afterwards.
TakeSetupLock(g) ==
  /\ pc[g] = "setup" /\ ~StopHeeded(g) /\ setupLock = None
  /\ setupLock' = g
  /\ Goto(g, "locked")
  /\ UNCHANGED <<host, running, held, slotLock, worktree, slot, step, started, verdict, grown>>

StartSetup(g) ==
  /\ pc[g] = "locked" /\ ~StopHeeded(g)
  /\ started' = [started EXCEPT ![g] = TRUE]
  /\ Goto(g, "command")
  /\ UNCHANGED <<host, running, held, slotLock, setupLock, worktree, slot, step, verdict, grown>>

SetupUnlocked(g) == setupLock' = IF setupLock = g THEN None ELSE setupLock
Stray(g) == [gate |-> g, slot |-> slot[g], grown |-> g \in grown]

\* A command ends, fails (red, or unread when its output looks like an outage), or
\* is killed by its timeout: what it had started may run on.
CommandEnds(g) ==
  /\ pc[g] = "command"
  /\ \/ /\ step' = [step EXCEPT ![g] = @ + 1]
        /\ Goto(g, "next") /\ UNCHANGED <<verdict, strays>>
     \/ /\ \E answer \in {"red", "unread"} : Answer(g, answer)
        /\ Goto(g, "release") /\ UNCHANGED <<step, strays>>
     \/ /\ Answer(g, "unread") /\ Goto(g, "release") /\ UNCHANGED step
        /\ Cardinality(strays) < MaxStrays /\ strays' = strays \union {Stray(g)}
  /\ SetupUnlocked(g)
  /\ grown' = grown \ {g}
  /\ UNCHANGED <<owner, stop, others, crashes, running, held, slotLock, worktree, slot, started>>

---------------------------------------------------------------------------
(* Every way out: the slot, its lock and the memory are given back.        *)

InSlot == {"prepare", "metadata", "next", "setup", "locked", "command", "release", "unlock"}
Admitted == InSlot \union {"slot", "leave"}

\* mutant: a stop in the slot's wait keeps the memory
WayOutKeeping(g) == IF pc[g] \in {"memory", "slot"} THEN "ended" ELSE "release"
WayOut(g) == CASE pc[g] = "memory" -> "ended" [] pc[g] = "slot" -> "leave" [] OTHER -> "release"

Postpone(g) ==
  /\ pc[g] \in {"memory", "slot", "prepare", "metadata", "next", "setup", "locked"}
  /\ StopHeeded(g)
  /\ Answer(g, "postponed") /\ Goto(g, WayOut(g))
  /\ SetupUnlocked(g)
  /\ UNCHANGED <<host, running, held, slotLock, worktree, slot, step, started, grown>>

\* SlotPool.release: out of the table under the lock, then the file is unlocked.
Release(g) ==
  /\ pc[g] = "release"
  /\ held' = [held EXCEPT ![owner[g]] = @ \ {slot[g]}]
  /\ Goto(g, "unlock")
  /\ UNCHANGED <<host, running, slotLock, setupLock, worktree, slot, step, started, verdict, grown>>

Unlock(g) ==
  /\ pc[g] = "unlock"
  /\ slotLock' = [slotLock EXCEPT ![slot[g]] = None]
  /\ slot' = [slot EXCEPT ![g] = None]
  /\ Goto(g, "leave")
  /\ UNCHANGED <<host, running, held, setupLock, worktree, step, started, verdict, grown>>

Leave(g) ==
  /\ pc[g] = "leave"
  /\ running' = [running EXCEPT ![owner[g]] = @ - 1]
  /\ Goto(g, "ended")
  /\ UNCHANGED <<host, held, slotLock, setupLock, worktree, slot, step, started, verdict, grown>>

Run(g) ==
  \/ Admit(g) \/ AcquireSlot(g) \/ Prepare(g) \/ Metadata(g) \/ NextCommand(g)
  \/ TakeSetupLock(g) \/ StartSetup(g) \/ CommandEnds(g) \/ Postpone(g)
  \/ Release(g) \/ Unlock(g) \/ Leave(g)

---------------------------------------------------------------------------
(* The operator, the host and the crash of a train.                        *)

gates == <<running, held, slotLock, setupLock, worktree, pc, slot, step, started, verdict>>

RequestStop(p) ==
  /\ Of(p) # {} /\ ~stop[p]                   \* a train without a gate plays no part
  /\ stop' = [stop EXCEPT ![p] = TRUE]
  /\ UNCHANGED <<gates, owner, others, grown, strays, crashes>>

\* A command, or what one left behind, comes to use the memory it needs.
Grow ==
  /\ \/ \E g \in Gate \ grown : pc[g] = "command" /\ grown' = grown \union {g} /\ UNCHANGED strays
     \/ \E x \in strays : /\ ~x.grown
                          /\ strays' = (strays \ {x}) \union {[x EXCEPT !.grown = TRUE]}
                          /\ UNCHANGED grown
  /\ UNCHANGED <<gates, owner, stop, others, crashes>>

StrayEnds ==
  /\ \E x \in strays : strays' = strays \ {x}
  /\ UNCHANGED <<gates, owner, stop, others, grown, crashes>>

OthersEnd ==
  /\ \E less \in Others : less < others /\ others' = less
  /\ UNCHANGED <<gates, owner, stop, grown, strays, crashes>>

\* A train is killed: the kernel drops its file locks, its memory of gates is gone,
\* a command that was running runs on.  Its successor runs the same gates again.
Crash(p) ==
  LET lost == Of(p)
      Again(f, initial) == [g \in Gate |-> IF g \in lost THEN initial ELSE f[g]]
  IN /\ lost # {} /\ crashes < Crashes /\ crashes' = crashes + 1
     /\ stop' = [stop EXCEPT ![p] = FALSE]
     /\ running' = [running EXCEPT ![p] = 0] /\ held' = [held EXCEPT ![p] = {}]
     /\ slotLock' = [s \in Slot |-> IF slotLock[s] \in lost THEN None ELSE slotLock[s]]
     /\ setupLock' = IF setupLock \in lost THEN None ELSE setupLock
     /\ pc' = Again(pc, "memory") /\ slot' = Again(slot, None) /\ step' = Again(step, 1)
     /\ started' = Again(started, FALSE) /\ verdict' = Again(verdict, "none")
     /\ strays' = strays \union {Stray(g) : g \in {h \in lost : pc[h] = "command"}}
     /\ grown' = grown \ lost
     /\ UNCHANGED <<owner, others, worktree>>

Ended(p) == \A g \in Of(p) : pc[g] = "ended"
AllEnded == (\A p \in Train : Ended(p)) /\ UNCHANGED vars

Next ==
  \/ \E g \in Gate : Run(g)
  \/ \E p \in Train : RequestStop(p) \/ Crash(p)
  \/ Grow \/ StrayEnds \/ OthersEnd \/ AllEnded

Spec == Init /\ [][Next]_vars

\* A thread of a train that does not hang goes on, and its commands end (they have a
\* timeout).  Nobody else is asked to do anything.
FairSpec == Spec /\ \A g \in Gate : WF_vars(owner[g] \in Fair /\ Run(g))

---------------------------------------------------------------------------
(* Properties.                                                             *)

Verdicts == {"none", "green", "red", "unread", "postponed"}

Typed ==
  /\ owner \in [Gate -> Train] /\ stop \in [Train -> BOOLEAN] /\ others \in Nat
  /\ running \in [Train -> Nat] /\ held \in [Train -> SUBSET Slot]
  /\ slotLock \in [Slot -> Gate \union {None}] /\ setupLock \in Gate \union {None}
  /\ worktree \in [Slot -> Gate \union {None}]
  /\ pc \in [Gate -> Admitted \union {"memory", "ended"}]
  /\ slot \in [Gate -> Slot \union {None}] /\ step \in [Gate -> Nat \ {0}]
  /\ started \in [Gate -> BOOLEAN] /\ verdict \in [Gate -> Verdicts]
  /\ grown \subseteq Gate /\ strays \subseteq [gate : Gate, slot : Slot, grown : BOOLEAN]
  /\ crashes \in Nat

\* What is taken is what some gate must give back: a guard counts exactly the gates it
\* admitted, a pool's table and a slot's file lock name exactly the slots gates are in.
Counted == \A p \in Train : running[p] = Cardinality({g \in Of(p) : pc[g] \in Admitted})
Tabled ==
  \A p \in Train : held[p] = {slot[g] : g \in {h \in Of(p) : pc[h] \in InSlot \ {"unlock"}}}
Locked ==
  /\ \A s \in Slot : slotLock[s] # None => pc[slotLock[s]] \in InSlot /\ slot[slotLock[s]] = s
  /\ \A g \in Gate : pc[g] \in InSlot => slot[g] \in Slot /\ slotLock[slot[g]] = g

\* Types, and nothing leaked: whatever a gate took, on any way out, is taken by a gate
\* that still has to give it back (the finally clauses of admit and run).
TypeOK == Typed /\ Counted /\ Tabled /\ Locked

\* Two gates never run commands in one slot, or setup commands at the same time, of
\* whatever train they are; each runs on its own commit (gate.py, docstring).
Exclusive ==
  \A g \in Gate : pc[g] = "command" =>
    /\ worktree[slot[g]] = g
    /\ \A h \in Gate \ {g} : pc[h] = "command" =>
         slot[h] # slot[g] /\ ~(IsSetup(g) /\ IsSetup(h))

\* A gate put off for a stop request never started a command, and a gate that started
\* one is not put off: no half-run setup is dropped (gate.py, before_command).
PostponedUntouched == \A g \in Gate : verdict[g] = "postponed" => ~started[g]

\* The reserve stays free while gates run: the memory guard of a train that is alone on
\* its host keeps, for every gate it admitted, what that gate may still take.
MemoryKept ==
  (\E p \in Train : Of(p) = Gate) /\ strays = {} /\ grown # {} => Available >= Reserve

\* A train that is asked to stop ends its gates, whatever a hung neighbour or a process
\* left behind keeps, unless a gate of it that has run a setup command waits in the kernel
\* for the setup lock of a neighbour that never gives it back (gate.py: flocked is given no
\* stop request then).  So does a train that shares the host with nobody, as long as no
\* process left behind keeps its memory.
MustRetire(p) == stop[p] \/ (Of(p) = Gate /\ strays = {})
AtNeighboursMercy(p) ==
  /\ setupLock # None /\ owner[setupLock] \notin Fair
  /\ \E g \in Of(p) : pc[g] = "setup" /\ started[g]
Retires ==
  \A p \in Fair : <>[]AtNeighboursMercy(p) \/ (MustRetire(p) ~> Ended(p) \/ ~MustRetire(p))

\* Gates implements the service Train relies on: every working gate has a slot of its
\* own, red and green come from gates that worked, a put-off gate never did.
phase ==
  [g \in Gate |-> IF verdict[g] # "none" THEN "ended" ELSE IF started[g] THEN "working" ELSE "asked"]
place == [g \in Gate |-> IF phase[g] = "working" THEN slot[g] ELSE None]
Service == INSTANCE GateService WITH Place <- Slot, Nowhere <- None
ServiceSpec == Service!Spec
=============================================================================
