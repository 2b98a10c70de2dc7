---------------------------- MODULE GatesProofs ----------------------------
(***************************************************************************)
(* What gates take and give back, the exclusion of their commands, and     *)
(* that Gates implements GateService, for every value of the constants.    *)
(***************************************************************************)
EXTENDS Gates, FiniteSetTheorems, TLAPS

\* A gate between its checkout and its last command has its commit in its slot.
OwnTree ==
  \A g \in Gate : pc[g] \in {"metadata", "next", "setup", "locked", "command"} => worktree[slot[g]] = g

\* The setup lock is held by the gate that runs, or is about to run, a setup command.
SetupHeld ==
  \A g \in Gate : pc[g] = "locked" \/ (pc[g] = "command" /\ IsSetup(g)) => setupLock = g

\* A gate has a verdict on its way out only; it has started once it is past a command.
Decided ==
  \A g \in Gate :
    /\ verdict[g] # "none" <=> pc[g] \in {"release", "unlock", "leave", "ended"}
    /\ verdict[g] = "postponed" => ~started[g]
    /\ started[g] => pc[g] \notin {"memory", "slot", "prepare", "metadata"}
    /\ pc[g] = "command" \/ step[g] > 1 => started[g]

\* What is taken is accounted for, and what the exclusion and the service rest on.
GatesInv == TypeOK /\ OwnTree /\ SetupHeld /\ Decided

USE DEF Goto, Answer, host, gates, vars, InSlot, Admitted, Verdicts, None

---------------------------------------------------------------------------
(* Counting the gates a guard has admitted.                                *)

AdmittedBy(p) == {g \in Of(p) : pc[g] \in Admitted}

\* The gates of a train are finitely many.
LEMMA AdmittedFinite == ASSUME NEW p PROVE IsFiniteSet(AdmittedBy(p))
BY FS_Subset, GateAssumption DEF AdmittedBy, Of

\* A gate that stays admitted, or stays outside, changes no count.
LEMMA CountKept ==
  ASSUME Typed, Counted, NEW g \in Gate, NEW label, pc' = [pc EXCEPT ![g] = label],
         pc[g] \in Admitted <=> label \in Admitted, UNCHANGED <<owner, running>>
  PROVE  Counted'
<1>1. \A p \in Train : AdmittedBy(p)' = AdmittedBy(p)
  BY DEF Typed, AdmittedBy, Of
<1> QED BY <1>1 DEF Counted, AdmittedBy

\* A gate that is admitted is counted once.
LEMMA CountUp ==
  ASSUME Typed, Counted, NEW g \in Gate, NEW label, pc' = [pc EXCEPT ![g] = label],
         pc[g] \notin Admitted, label \in Admitted, owner' = owner,
         running' = [running EXCEPT ![owner[g]] = @ + 1]
  PROVE  Counted' /\ running' \in [Train -> Nat]
<1> DEFINE q == owner[g]
<1>1. q \in Train /\ g \notin AdmittedBy(q)
  BY DEF Typed, AdmittedBy
<1>2. AdmittedBy(q)' = AdmittedBy(q) \union {g}
  BY DEF Typed, AdmittedBy, Of
<1>3. \A p \in Train \ {q} : AdmittedBy(p)' = AdmittedBy(p)
  BY DEF Typed, AdmittedBy, Of
<1>4. Cardinality(AdmittedBy(q) \union {g}) = Cardinality(AdmittedBy(q)) + 1
  BY <1>1, AdmittedFinite, FS_AddElement
<1>5. running[q] = Cardinality(AdmittedBy(q)) /\ running'[q] = running[q] + 1
  BY <1>1 DEF Typed, Counted, AdmittedBy
<1>6. \A p \in Train \ {q} : running'[p] = running[p]
  BY DEF Typed
<1>7. \A p \in Train : running'[p] = Cardinality(AdmittedBy(p)')
  BY <1>1, <1>2, <1>3, <1>4, <1>5, <1>6 DEF Counted, AdmittedBy
<1> QED BY <1>7 DEF Counted, AdmittedBy, Typed

\* A gate that leaves is no longer counted, and it was.
LEMMA CountDown ==
  ASSUME Typed, Counted, NEW g \in Gate, NEW label, pc' = [pc EXCEPT ![g] = label],
         pc[g] \in Admitted, label \notin Admitted, owner' = owner,
         running' = [running EXCEPT ![owner[g]] = @ - 1]
  PROVE  Counted' /\ running' \in [Train -> Nat]
<1> DEFINE q == owner[g]
<1>1. q \in Train /\ g \in AdmittedBy(q)
  BY DEF Typed, AdmittedBy, Of
<1>2. AdmittedBy(q)' = AdmittedBy(q) \ {g}
  BY DEF Typed, AdmittedBy, Of
<1>3. \A p \in Train \ {q} : AdmittedBy(p)' = AdmittedBy(p)
  BY DEF Typed, AdmittedBy, Of
<1>4. /\ Cardinality(AdmittedBy(q) \ {g}) = Cardinality(AdmittedBy(q)) - 1
      /\ Cardinality(AdmittedBy(q) \ {g}) \in Nat
  BY <1>1, AdmittedFinite, FS_RemoveElement, FS_CardinalityType
<1>5. running[q] = Cardinality(AdmittedBy(q)) /\ running'[q] = running[q] - 1
  BY <1>1 DEF Typed, Counted, AdmittedBy
<1>6. \A p \in Train \ {q} : running'[p] = running[p]
  BY DEF Typed
<1>7. \A p \in Train : running'[p] = Cardinality(AdmittedBy(p)')
  BY <1>1, <1>2, <1>3, <1>4, <1>5, <1>6 DEF Counted, AdmittedBy
<1>8. \A p \in Train : running'[p] \in Nat
  BY <1>1, <1>4, <1>5, <1>6 DEF Typed
<1> QED BY <1>7, <1>8 DEF Counted, AdmittedBy, Typed

\* A gate that keeps its slot leaves the table of its train as it is.
LEMMA TableKept ==
  ASSUME Typed, Tabled, NEW g \in Gate, NEW label, pc' = [pc EXCEPT ![g] = label],
         pc[g] \in InSlot \ {"unlock"}, label \in InSlot \ {"unlock"}, UNCHANGED <<owner, slot, held>>
  PROVE  Tabled'
<1>1. \A h \in Gate : pc'[h] \in InSlot \ {"unlock"} <=> pc[h] \in InSlot \ {"unlock"}
  BY DEF Typed
<1>2. \A p \in Train : {slot[h] : h \in {x \in Of(p) : pc[x] \in InSlot \ {"unlock"}}}'
                         = {slot[h] : h \in {x \in Of(p) : pc[x] \in InSlot \ {"unlock"}}}
  BY <1>1 DEF Of
<1> QED BY <1>2 DEF Tabled

---------------------------------------------------------------------------
(* The steps of a gate.                                                    *)

\* The guard counts the gate it admits.
LEMMA AdmitKeeps == ASSUME GatesInv, NEW g \in Gate, Admit(g) PROVE GatesInv'
<1> USE DEF Admit, Fits, Available
<1>1. Typed /\ Counted /\ Tabled /\ Locked /\ OwnTree /\ SetupHeld /\ Decided
  BY DEF GatesInv, TypeOK
<1>2. Counted' /\ running' \in [Train -> Nat]
  BY <1>1, CountUp DEF Typed
<1>3. Typed'
  <2>1. pc' \in [Gate -> Admitted \union {"memory", "ended"}] /\ slot' \in [Gate -> Slot \union {None}]
    BY <1>1 DEF Typed
  <2>2. step' \in [Gate -> Nat \ {0}] /\ started' \in [Gate -> BOOLEAN] /\ verdict' \in [Gate -> Verdicts]
    BY <1>1, NumbersAssumption DEF Typed
  <2>3. /\ held' \in [Train -> SUBSET Slot] /\ slotLock' \in [Slot -> Gate \union {None}]
        /\ setupLock' \in Gate \union {None} /\ worktree' \in [Slot -> Gate \union {None}]
    BY <1>1, GateAssumption, SlotAssumption DEF Typed, Locked
  <2>4. grown' \subseteq Gate /\ strays' \subseteq [gate : Gate, slot : Slot, grown : BOOLEAN]
    BY <1>1 DEF Typed, Locked
  <2> QED BY <1>1, <1>2, <2>1, <2>2, <2>3, <2>4 DEF Typed
<1>4. Tabled'
  BY <1>1, GateAssumption, SlotAssumption DEF Typed, Tabled, Locked, Of
<1>5. Locked'
  BY <1>1, GateAssumption, SlotAssumption DEF Typed, Locked
<1>6. OwnTree'
  BY <1>1, GateAssumption, SlotAssumption DEF Typed, Locked, OwnTree
<1>7. SetupHeld'
  BY <1>1, GateAssumption, NumbersAssumption DEF Typed, SetupHeld, IsSetup
<1>8. Decided'
  BY <1>1, NumbersAssumption DEF Typed, Decided, IsSetup
<1> QED BY <1>2, <1>3, <1>4, <1>5, <1>6, <1>7, <1>8 DEF GatesInv, TypeOK

\* A slot is taken that nobody holds.
LEMMA AcquireSlotKeeps == ASSUME GatesInv, NEW g \in Gate, AcquireSlot(g) PROVE GatesInv'
<1> USE DEF AcquireSlot, FreeSlots
<1>1. Typed /\ Counted /\ Tabled /\ Locked /\ OwnTree /\ SetupHeld /\ Decided
  BY DEF GatesInv, TypeOK
<1>2. Counted' /\ running' \in [Train -> Nat]
  BY <1>1, CountKept DEF Typed
<1>3. Typed'
  <2>1. pc' \in [Gate -> Admitted \union {"memory", "ended"}] /\ slot' \in [Gate -> Slot \union {None}]
    BY <1>1 DEF Typed
  <2>2. step' \in [Gate -> Nat \ {0}] /\ started' \in [Gate -> BOOLEAN] /\ verdict' \in [Gate -> Verdicts]
    BY <1>1, NumbersAssumption DEF Typed
  <2>3. /\ held' \in [Train -> SUBSET Slot] /\ slotLock' \in [Slot -> Gate \union {None}]
        /\ setupLock' \in Gate \union {None} /\ worktree' \in [Slot -> Gate \union {None}]
    BY <1>1, GateAssumption, SlotAssumption DEF Typed, Locked
  <2>4. grown' \subseteq Gate /\ strays' \subseteq [gate : Gate, slot : Slot, grown : BOOLEAN]
    BY <1>1 DEF Typed, Locked
  <2> QED BY <1>1, <1>2, <2>1, <2>2, <2>3, <2>4 DEF Typed
<1>4. Tabled'
  BY <1>1, GateAssumption, SlotAssumption DEF Typed, Tabled, Locked, Of
<1>5. Locked'
  BY <1>1, GateAssumption, SlotAssumption DEF Typed, Locked
<1>6. OwnTree'
  BY <1>1, GateAssumption, SlotAssumption DEF Typed, Locked, OwnTree
<1>7. SetupHeld'
  BY <1>1, GateAssumption, NumbersAssumption DEF Typed, SetupHeld, IsSetup
<1>8. Decided'
  BY <1>1, NumbersAssumption DEF Typed, Decided, IsSetup
<1> QED BY <1>2, <1>3, <1>4, <1>5, <1>6, <1>7, <1>8 DEF GatesInv, TypeOK

\* The slot holds the commit of the gate that prepared it.
LEMMA PrepareKeeps == ASSUME GatesInv, NEW g \in Gate, Prepare(g) PROVE GatesInv'
<1> USE DEF Prepare
<1>1. Typed /\ Counted /\ Tabled /\ Locked /\ OwnTree /\ SetupHeld /\ Decided
  BY DEF GatesInv, TypeOK
<1>2. Counted' /\ running' \in [Train -> Nat]
  BY <1>1, CountKept DEF Typed
<1>3. Typed'
  <2>1. pc' \in [Gate -> Admitted \union {"memory", "ended"}] /\ slot' \in [Gate -> Slot \union {None}]
    BY <1>1 DEF Typed
  <2>2. step' \in [Gate -> Nat \ {0}] /\ started' \in [Gate -> BOOLEAN] /\ verdict' \in [Gate -> Verdicts]
    BY <1>1, NumbersAssumption DEF Typed
  <2>3. /\ held' \in [Train -> SUBSET Slot] /\ slotLock' \in [Slot -> Gate \union {None}]
        /\ setupLock' \in Gate \union {None} /\ worktree' \in [Slot -> Gate \union {None}]
    BY <1>1, GateAssumption, SlotAssumption DEF Typed, Locked
  <2>4. grown' \subseteq Gate /\ strays' \subseteq [gate : Gate, slot : Slot, grown : BOOLEAN]
    BY <1>1 DEF Typed, Locked
  <2> QED BY <1>1, <1>2, <2>1, <2>2, <2>3, <2>4 DEF Typed
<1>4. Tabled'
  <2>1. PICK label \in {"metadata", "release"} : pc' = [pc EXCEPT ![g] = label]
    OBVIOUS
  <2> QED BY <1>1, <2>1, TableKept
<1>5. Locked'
  BY <1>1, GateAssumption, SlotAssumption DEF Typed, Locked
<1>6. OwnTree'
  BY <1>1, GateAssumption, SlotAssumption DEF Typed, Locked, OwnTree
<1>7. SetupHeld'
  BY <1>1, GateAssumption, NumbersAssumption DEF Typed, SetupHeld, IsSetup
<1>8. Decided'
  BY <1>1, NumbersAssumption DEF Typed, Decided, IsSetup
<1> QED BY <1>2, <1>3, <1>4, <1>5, <1>6, <1>7, <1>8 DEF GatesInv, TypeOK

\* Reading the tree and the changed files takes nothing.
LEMMA MetadataKeeps == ASSUME GatesInv, NEW g \in Gate, Metadata(g) PROVE GatesInv'
<1> USE DEF Metadata
<1>1. Typed /\ Counted /\ Tabled /\ Locked /\ OwnTree /\ SetupHeld /\ Decided
  BY DEF GatesInv, TypeOK
<1>2. Counted' /\ running' \in [Train -> Nat]
  BY <1>1, CountKept DEF Typed
<1>3. Typed'
  <2>1. pc' \in [Gate -> Admitted \union {"memory", "ended"}] /\ slot' \in [Gate -> Slot \union {None}]
    BY <1>1 DEF Typed
  <2>2. step' \in [Gate -> Nat \ {0}] /\ started' \in [Gate -> BOOLEAN] /\ verdict' \in [Gate -> Verdicts]
    BY <1>1, NumbersAssumption DEF Typed
  <2>3. /\ held' \in [Train -> SUBSET Slot] /\ slotLock' \in [Slot -> Gate \union {None}]
        /\ setupLock' \in Gate \union {None} /\ worktree' \in [Slot -> Gate \union {None}]
    BY <1>1, GateAssumption, SlotAssumption DEF Typed, Locked
  <2>4. grown' \subseteq Gate /\ strays' \subseteq [gate : Gate, slot : Slot, grown : BOOLEAN]
    BY <1>1 DEF Typed, Locked
  <2> QED BY <1>1, <1>2, <2>1, <2>2, <2>3, <2>4 DEF Typed
<1>4. Tabled'
  <2>1. PICK label \in {"next", "release"} : pc' = [pc EXCEPT ![g] = label]
    OBVIOUS
  <2> QED BY <1>1, <2>1, TableKept
<1>5. Locked'
  BY <1>1, GateAssumption, SlotAssumption DEF Typed, Locked
<1>6. OwnTree'
  BY <1>1, GateAssumption, SlotAssumption DEF Typed, Locked, OwnTree
<1>7. SetupHeld'
  BY <1>1, GateAssumption, NumbersAssumption DEF Typed, SetupHeld, IsSetup
<1>8. Decided'
  BY <1>1, NumbersAssumption DEF Typed, Decided, IsSetup
<1> QED BY <1>2, <1>3, <1>4, <1>5, <1>6, <1>7, <1>8 DEF GatesInv, TypeOK

\* A command of the plan is next, or the gate is green.
LEMMA NextCommandKeeps == ASSUME GatesInv, NEW g \in Gate, NextCommand(g) PROVE GatesInv'
<1> USE DEF NextCommand
<1>1. Typed /\ Counted /\ Tabled /\ Locked /\ OwnTree /\ SetupHeld /\ Decided
  BY DEF GatesInv, TypeOK
<1>2. Counted' /\ running' \in [Train -> Nat]
  BY <1>1, CountKept DEF Typed
<1>3. Typed'
  <2>1. pc' \in [Gate -> Admitted \union {"memory", "ended"}] /\ slot' \in [Gate -> Slot \union {None}]
    BY <1>1 DEF Typed
  <2>2. step' \in [Gate -> Nat \ {0}] /\ started' \in [Gate -> BOOLEAN] /\ verdict' \in [Gate -> Verdicts]
    BY <1>1, NumbersAssumption DEF Typed
  <2>3. /\ held' \in [Train -> SUBSET Slot] /\ slotLock' \in [Slot -> Gate \union {None}]
        /\ setupLock' \in Gate \union {None} /\ worktree' \in [Slot -> Gate \union {None}]
    BY <1>1, GateAssumption, SlotAssumption DEF Typed, Locked
  <2>4. grown' \subseteq Gate /\ strays' \subseteq [gate : Gate, slot : Slot, grown : BOOLEAN]
    BY <1>1 DEF Typed, Locked
  <2> QED BY <1>1, <1>2, <2>1, <2>2, <2>3, <2>4 DEF Typed
<1>4. Tabled'
  <2>1. PICK label \in {"release", "setup", "command"} : pc' = [pc EXCEPT ![g] = label]
    OBVIOUS
  <2> QED BY <1>1, <2>1, TableKept
<1>5. Locked'
  BY <1>1, GateAssumption, SlotAssumption DEF Typed, Locked
<1>6. OwnTree'
  BY <1>1, GateAssumption, SlotAssumption DEF Typed, Locked, OwnTree
<1>7. SetupHeld'
  BY <1>1, GateAssumption, NumbersAssumption DEF Typed, SetupHeld, IsSetup
<1>8. Decided'
  BY <1>1, NumbersAssumption DEF Typed, Decided, IsSetup
<1> QED BY <1>2, <1>3, <1>4, <1>5, <1>6, <1>7, <1>8 DEF GatesInv, TypeOK

\* The setup lock goes to one gate.
LEMMA TakeSetupLockKeeps == ASSUME GatesInv, NEW g \in Gate, TakeSetupLock(g) PROVE GatesInv'
<1> USE DEF TakeSetupLock
<1>1. Typed /\ Counted /\ Tabled /\ Locked /\ OwnTree /\ SetupHeld /\ Decided
  BY DEF GatesInv, TypeOK
<1>2. Counted' /\ running' \in [Train -> Nat]
  BY <1>1, CountKept DEF Typed
<1>3. Typed'
  <2>1. pc' \in [Gate -> Admitted \union {"memory", "ended"}] /\ slot' \in [Gate -> Slot \union {None}]
    BY <1>1 DEF Typed
  <2>2. step' \in [Gate -> Nat \ {0}] /\ started' \in [Gate -> BOOLEAN] /\ verdict' \in [Gate -> Verdicts]
    BY <1>1, NumbersAssumption DEF Typed
  <2>3. /\ held' \in [Train -> SUBSET Slot] /\ slotLock' \in [Slot -> Gate \union {None}]
        /\ setupLock' \in Gate \union {None} /\ worktree' \in [Slot -> Gate \union {None}]
    BY <1>1, GateAssumption, SlotAssumption DEF Typed, Locked
  <2>4. grown' \subseteq Gate /\ strays' \subseteq [gate : Gate, slot : Slot, grown : BOOLEAN]
    BY <1>1 DEF Typed, Locked
  <2> QED BY <1>1, <1>2, <2>1, <2>2, <2>3, <2>4 DEF Typed
<1>4. Tabled'
  BY <1>1, GateAssumption, SlotAssumption DEF Typed, Tabled, Locked, Of
<1>5. Locked'
  BY <1>1, GateAssumption, SlotAssumption DEF Typed, Locked
<1>6. OwnTree'
  BY <1>1, GateAssumption, SlotAssumption DEF Typed, Locked, OwnTree
<1>7. SetupHeld'
  BY <1>1, GateAssumption, NumbersAssumption DEF Typed, SetupHeld, IsSetup
<1>8. Decided'
  BY <1>1, NumbersAssumption DEF Typed, Decided, IsSetup
<1> QED BY <1>2, <1>3, <1>4, <1>5, <1>6, <1>7, <1>8 DEF GatesInv, TypeOK

\* A setup command starts under the lock.
LEMMA StartSetupKeeps == ASSUME GatesInv, NEW g \in Gate, StartSetup(g) PROVE GatesInv'
<1> USE DEF StartSetup
<1>1. Typed /\ Counted /\ Tabled /\ Locked /\ OwnTree /\ SetupHeld /\ Decided
  BY DEF GatesInv, TypeOK
<1>2. Counted' /\ running' \in [Train -> Nat]
  BY <1>1, CountKept DEF Typed
<1>3. Typed'
  <2>1. pc' \in [Gate -> Admitted \union {"memory", "ended"}] /\ slot' \in [Gate -> Slot \union {None}]
    BY <1>1 DEF Typed
  <2>2. step' \in [Gate -> Nat \ {0}] /\ started' \in [Gate -> BOOLEAN] /\ verdict' \in [Gate -> Verdicts]
    BY <1>1, NumbersAssumption DEF Typed
  <2>3. /\ held' \in [Train -> SUBSET Slot] /\ slotLock' \in [Slot -> Gate \union {None}]
        /\ setupLock' \in Gate \union {None} /\ worktree' \in [Slot -> Gate \union {None}]
    BY <1>1, GateAssumption, SlotAssumption DEF Typed, Locked
  <2>4. grown' \subseteq Gate /\ strays' \subseteq [gate : Gate, slot : Slot, grown : BOOLEAN]
    BY <1>1 DEF Typed, Locked
  <2> QED BY <1>1, <1>2, <2>1, <2>2, <2>3, <2>4 DEF Typed
<1>4. Tabled'
  BY <1>1, GateAssumption, SlotAssumption DEF Typed, Tabled, Locked, Of
<1>5. Locked'
  BY <1>1, GateAssumption, SlotAssumption DEF Typed, Locked
<1>6. OwnTree'
  BY <1>1, GateAssumption, SlotAssumption DEF Typed, Locked, OwnTree
<1>7. SetupHeld'
  BY <1>1, GateAssumption, NumbersAssumption DEF Typed, SetupHeld, IsSetup
<1>8. Decided'
  BY <1>1, NumbersAssumption DEF Typed, Decided, IsSetup
<1> QED BY <1>2, <1>3, <1>4, <1>5, <1>6, <1>7, <1>8 DEF GatesInv, TypeOK

\* A command ends and its setup lock is dropped.
LEMMA CommandEndsKeeps == ASSUME GatesInv, NEW g \in Gate, CommandEnds(g) PROVE GatesInv'
<1> USE DEF CommandEnds, SetupUnlocked, Stray
<1>1. Typed /\ Counted /\ Tabled /\ Locked /\ OwnTree /\ SetupHeld /\ Decided
  BY DEF GatesInv, TypeOK
<1>2. Counted' /\ running' \in [Train -> Nat]
  BY <1>1, CountKept DEF Typed
<1>3. Typed'
  <2>1. pc' \in [Gate -> Admitted \union {"memory", "ended"}] /\ slot' \in [Gate -> Slot \union {None}]
    BY <1>1 DEF Typed
  <2>2. step' \in [Gate -> Nat \ {0}] /\ started' \in [Gate -> BOOLEAN] /\ verdict' \in [Gate -> Verdicts]
    BY <1>1, NumbersAssumption DEF Typed
  <2>3. /\ held' \in [Train -> SUBSET Slot] /\ slotLock' \in [Slot -> Gate \union {None}]
        /\ setupLock' \in Gate \union {None} /\ worktree' \in [Slot -> Gate \union {None}]
    BY <1>1, GateAssumption, SlotAssumption DEF Typed, Locked
  <2>4. grown' \subseteq Gate /\ strays' \subseteq [gate : Gate, slot : Slot, grown : BOOLEAN]
    <3>1. grown' = grown \ {g} /\ (strays' = strays \/ strays' = strays \union {Stray(g)})
      OBVIOUS
    <3>2. Stray(g) \in [gate : Gate, slot : Slot, grown : BOOLEAN]
      BY <1>1 DEF Typed, Locked
    <3> QED BY <1>1, <3>1, <3>2 DEF Typed
  <2> QED BY <1>1, <1>2, <2>1, <2>2, <2>3, <2>4 DEF Typed
<1>4. Tabled'
  <2>1. PICK label \in {"next", "release"} : pc' = [pc EXCEPT ![g] = label]
    OBVIOUS
  <2> QED BY <1>1, <2>1, TableKept
<1>5. Locked'
  BY <1>1, GateAssumption, SlotAssumption DEF Typed, Locked
<1>6. OwnTree'
  BY <1>1, GateAssumption, SlotAssumption DEF Typed, Locked, OwnTree
<1>7. SetupHeld'
  BY <1>1, GateAssumption, NumbersAssumption DEF Typed, SetupHeld, IsSetup
<1>8. Decided'
  BY <1>1, NumbersAssumption DEF Typed, Decided, IsSetup
<1> QED BY <1>2, <1>3, <1>4, <1>5, <1>6, <1>7, <1>8 DEF GatesInv, TypeOK

\* A stop request ends the gate from every wait.
LEMMA PostponeKeeps == ASSUME GatesInv, NEW g \in Gate, Postpone(g) PROVE GatesInv'
<1> USE DEF Postpone, StopHeeded, Interruptible, WayOut, SetupUnlocked
<1>1. Typed /\ Counted /\ Tabled /\ Locked /\ OwnTree /\ SetupHeld /\ Decided
  BY DEF GatesInv, TypeOK
<1>2. Counted' /\ running' \in [Train -> Nat]
  BY <1>1, CountKept DEF Typed
<1>3. Typed'
  <2>1. pc' \in [Gate -> Admitted \union {"memory", "ended"}] /\ slot' \in [Gate -> Slot \union {None}]
    BY <1>1 DEF Typed
  <2>2. step' \in [Gate -> Nat \ {0}] /\ started' \in [Gate -> BOOLEAN] /\ verdict' \in [Gate -> Verdicts]
    BY <1>1, NumbersAssumption DEF Typed
  <2>3. /\ held' \in [Train -> SUBSET Slot] /\ slotLock' \in [Slot -> Gate \union {None}]
        /\ setupLock' \in Gate \union {None} /\ worktree' \in [Slot -> Gate \union {None}]
    BY <1>1, GateAssumption, SlotAssumption DEF Typed, Locked
  <2>4. grown' \subseteq Gate /\ strays' \subseteq [gate : Gate, slot : Slot, grown : BOOLEAN]
    BY <1>1 DEF Typed, Locked
  <2> QED BY <1>1, <1>2, <2>1, <2>2, <2>3, <2>4 DEF Typed
<1>4. Tabled'
  BY <1>1, GateAssumption, SlotAssumption DEF Typed, Tabled, Locked, Of
<1>5. Locked'
  BY <1>1, GateAssumption, SlotAssumption DEF Typed, Locked
<1>6. OwnTree'
  BY <1>1, GateAssumption, SlotAssumption DEF Typed, Locked, OwnTree
<1>7. SetupHeld'
  BY <1>1, GateAssumption, NumbersAssumption DEF Typed, SetupHeld, IsSetup
<1>8. Decided'
  BY <1>1, NumbersAssumption DEF Typed, Decided, IsSetup
<1> QED BY <1>2, <1>3, <1>4, <1>5, <1>6, <1>7, <1>8 DEF GatesInv, TypeOK

\* The slot leaves the table of its train.
LEMMA ReleaseKeeps == ASSUME GatesInv, NEW g \in Gate, Release(g) PROVE GatesInv'
<1> USE DEF Release
<1>1. Typed /\ Counted /\ Tabled /\ Locked /\ OwnTree /\ SetupHeld /\ Decided
  BY DEF GatesInv, TypeOK
<1>2. Counted' /\ running' \in [Train -> Nat]
  BY <1>1, CountKept DEF Typed
<1>3. Typed'
  <2>1. pc' \in [Gate -> Admitted \union {"memory", "ended"}] /\ slot' \in [Gate -> Slot \union {None}]
    BY <1>1 DEF Typed
  <2>2. step' \in [Gate -> Nat \ {0}] /\ started' \in [Gate -> BOOLEAN] /\ verdict' \in [Gate -> Verdicts]
    BY <1>1, NumbersAssumption DEF Typed
  <2>3. /\ held' \in [Train -> SUBSET Slot] /\ slotLock' \in [Slot -> Gate \union {None}]
        /\ setupLock' \in Gate \union {None} /\ worktree' \in [Slot -> Gate \union {None}]
    BY <1>1, GateAssumption, SlotAssumption DEF Typed, Locked
  <2>4. grown' \subseteq Gate /\ strays' \subseteq [gate : Gate, slot : Slot, grown : BOOLEAN]
    BY <1>1 DEF Typed, Locked
  <2> QED BY <1>1, <1>2, <2>1, <2>2, <2>3, <2>4 DEF Typed
<1>4. Tabled'
  BY <1>1, GateAssumption, SlotAssumption DEF Typed, Tabled, Locked, Of
<1>5. Locked'
  BY <1>1, GateAssumption, SlotAssumption DEF Typed, Locked
<1>6. OwnTree'
  BY <1>1, GateAssumption, SlotAssumption DEF Typed, Locked, OwnTree
<1>7. SetupHeld'
  BY <1>1, GateAssumption, NumbersAssumption DEF Typed, SetupHeld, IsSetup
<1>8. Decided'
  BY <1>1, NumbersAssumption DEF Typed, Decided, IsSetup
<1> QED BY <1>2, <1>3, <1>4, <1>5, <1>6, <1>7, <1>8 DEF GatesInv, TypeOK

\* The slot's file is unlocked.
LEMMA UnlockKeeps == ASSUME GatesInv, NEW g \in Gate, Unlock(g) PROVE GatesInv'
<1> USE DEF Unlock
<1>1. Typed /\ Counted /\ Tabled /\ Locked /\ OwnTree /\ SetupHeld /\ Decided
  BY DEF GatesInv, TypeOK
<1>2. Counted' /\ running' \in [Train -> Nat]
  BY <1>1, CountKept DEF Typed
<1>3. Typed'
  <2>1. pc' \in [Gate -> Admitted \union {"memory", "ended"}] /\ slot' \in [Gate -> Slot \union {None}]
    BY <1>1 DEF Typed
  <2>2. step' \in [Gate -> Nat \ {0}] /\ started' \in [Gate -> BOOLEAN] /\ verdict' \in [Gate -> Verdicts]
    BY <1>1, NumbersAssumption DEF Typed
  <2>3. /\ held' \in [Train -> SUBSET Slot] /\ slotLock' \in [Slot -> Gate \union {None}]
        /\ setupLock' \in Gate \union {None} /\ worktree' \in [Slot -> Gate \union {None}]
    BY <1>1, GateAssumption, SlotAssumption DEF Typed, Locked
  <2>4. grown' \subseteq Gate /\ strays' \subseteq [gate : Gate, slot : Slot, grown : BOOLEAN]
    BY <1>1 DEF Typed, Locked
  <2> QED BY <1>1, <1>2, <2>1, <2>2, <2>3, <2>4 DEF Typed
<1>4. Tabled'
  BY <1>1, GateAssumption, SlotAssumption DEF Typed, Tabled, Locked, Of
<1>5. Locked'
  BY <1>1, GateAssumption, SlotAssumption DEF Typed, Locked
<1>6. OwnTree'
  BY <1>1, GateAssumption, SlotAssumption DEF Typed, Locked, OwnTree
<1>7. SetupHeld'
  BY <1>1, GateAssumption, NumbersAssumption DEF Typed, SetupHeld, IsSetup
<1>8. Decided'
  BY <1>1, NumbersAssumption DEF Typed, Decided, IsSetup
<1> QED BY <1>2, <1>3, <1>4, <1>5, <1>6, <1>7, <1>8 DEF GatesInv, TypeOK

\* The guard no longer counts the gate.
LEMMA LeaveKeeps == ASSUME GatesInv, NEW g \in Gate, Leave(g) PROVE GatesInv'
<1> USE DEF Leave
<1>1. Typed /\ Counted /\ Tabled /\ Locked /\ OwnTree /\ SetupHeld /\ Decided
  BY DEF GatesInv, TypeOK
<1>2. Counted' /\ running' \in [Train -> Nat]
  BY <1>1, CountDown DEF Typed
<1>3. Typed'
  <2>1. pc' \in [Gate -> Admitted \union {"memory", "ended"}] /\ slot' \in [Gate -> Slot \union {None}]
    BY <1>1 DEF Typed
  <2>2. step' \in [Gate -> Nat \ {0}] /\ started' \in [Gate -> BOOLEAN] /\ verdict' \in [Gate -> Verdicts]
    BY <1>1, NumbersAssumption DEF Typed
  <2>3. /\ held' \in [Train -> SUBSET Slot] /\ slotLock' \in [Slot -> Gate \union {None}]
        /\ setupLock' \in Gate \union {None} /\ worktree' \in [Slot -> Gate \union {None}]
    BY <1>1, GateAssumption, SlotAssumption DEF Typed, Locked
  <2>4. grown' \subseteq Gate /\ strays' \subseteq [gate : Gate, slot : Slot, grown : BOOLEAN]
    BY <1>1 DEF Typed, Locked
  <2> QED BY <1>1, <1>2, <2>1, <2>2, <2>3, <2>4 DEF Typed
<1>4. Tabled'
  BY <1>1, GateAssumption, SlotAssumption DEF Typed, Tabled, Locked, Of
<1>5. Locked'
  BY <1>1, GateAssumption, SlotAssumption DEF Typed, Locked
<1>6. OwnTree'
  BY <1>1, GateAssumption, SlotAssumption DEF Typed, Locked, OwnTree
<1>7. SetupHeld'
  BY <1>1, GateAssumption, NumbersAssumption DEF Typed, SetupHeld, IsSetup
<1>8. Decided'
  BY <1>1, NumbersAssumption DEF Typed, Decided, IsSetup
<1> QED BY <1>2, <1>3, <1>4, <1>5, <1>6, <1>7, <1>8 DEF GatesInv, TypeOK

---------------------------------------------------------------------------
(* The operator, the host, a crash.                                        *)

\* Memory, stop requests and strays touch no slot, lock or count.
LEMMA HostKeeps ==
  ASSUME GatesInv, (\E p \in Train : RequestStop(p)) \/ Grow \/ StrayEnds \/ OthersEnd
  PROVE  GatesInv'
<1>1. Typed'
  BY NumbersAssumption DEF GatesInv, TypeOK, Typed, RequestStop, Grow, StrayEnds, OthersEnd
<1>2. UNCHANGED <<gates, owner>>
  BY DEF RequestStop, Grow, StrayEnds, OthersEnd
<1> QED BY <1>1, <1>2 DEF GatesInv, TypeOK, Counted, Tabled, Locked, OwnTree, SetupHeld, Decided, IsSetup, Of

\* The successor of a killed train starts with nothing taken.
LEMMA CrashKeeps == ASSUME GatesInv, NEW p \in Train, Crash(p) PROVE GatesInv'
<1> USE DEF Crash, Stray
<1>1. Typed /\ Counted /\ Tabled /\ Locked /\ OwnTree /\ SetupHeld /\ Decided
  BY DEF GatesInv, TypeOK
<1>2. Typed'
  <2>1. \A h \in Gate : pc[h] = "command" => Stray(h) \in [gate : Gate, slot : Slot, grown : BOOLEAN]
    BY <1>1 DEF Typed, Locked
  <2>2. strays' \subseteq [gate : Gate, slot : Slot, grown : BOOLEAN] /\ grown' \subseteq Gate
    <3>1. strays' = strays \union {Stray(h) : h \in {x \in Of(p) : pc[x] = "command"}} /\ grown' = grown \ Of(p)
      OBVIOUS
    <3> HIDE DEF Crash, Stray
    <3> QED BY <1>1, <2>1, <3>1 DEF Typed, Of
  <2>3. /\ owner' = owner /\ others' = others /\ worktree' = worktree /\ crashes' \in Nat
        /\ stop' \in [Train -> BOOLEAN] /\ running' \in [Train -> Nat] /\ held' \in [Train -> SUBSET Slot]
    BY <1>1 DEF Typed
  <2>4. slotLock' \in [Slot -> Gate \union {None}] /\ setupLock' \in Gate \union {None}
    BY <1>1 DEF Typed
  <2>5. pc' \in [Gate -> Admitted \union {"memory", "ended"}] /\ slot' \in [Gate -> Slot \union {None}]
    BY <1>1 DEF Typed
  <2>6. step' \in [Gate -> Nat \ {0}]
    BY <1>1 DEF Typed
  <2>7. started' \in [Gate -> BOOLEAN]
    <3>1. started' = [g \in Gate |-> IF g \in Of(p) THEN FALSE ELSE started[g]]
      OBVIOUS
    <3> HIDE DEF Crash
    <3> QED BY <1>1, <3>1, Zenon DEF Typed
  <2>8. verdict' \in [Gate -> Verdicts]
    BY <1>1 DEF Typed
  <2> HIDE DEF Crash
  <2> QED BY <1>1, <2>2, <2>3, <2>4, <2>5, <2>6, <2>7, <2>8 DEF Typed
<1>3. Counted'
  <2>1. \A q \in Train \ {p} : AdmittedBy(q)' = AdmittedBy(q) /\ running'[q] = running[q]
    BY <1>1 DEF Typed, AdmittedBy, Of
  <2>2. AdmittedBy(p)' = {} /\ running'[p] = 0
    BY <1>1 DEF Typed, AdmittedBy, Of
  <2> QED BY <1>1, <2>1, <2>2, FS_EmptySet DEF Counted, AdmittedBy
<1>4. Tabled'
  BY <1>1 DEF Typed, Tabled, Of
<1>5. Locked'
  BY <1>1, GateAssumption DEF Typed, Locked, Of
<1>6. OwnTree' /\ SetupHeld' /\ Decided'
  BY <1>1, GateAssumption DEF Typed, OwnTree, SetupHeld, Decided, IsSetup, Of
<1> QED BY <1>2, <1>3, <1>4, <1>5, <1>6 DEF GatesInv, TypeOK

\* At first nothing is taken.
LEMMA GatesInit == Init => GatesInv
<1> SUFFICES ASSUME Init PROVE GatesInv
  OBVIOUS
<1>1. Typed
  BY OwnersAssumption, NumbersAssumption, GateAssumption, SlotAssumption DEF Init, Typed
<1>2. Counted
  <2>1. \A p \in Train : AdmittedBy(p) = {} /\ running[p] = 0
    BY DEF Init, AdmittedBy, Of
  <2> QED BY <2>1, FS_EmptySet DEF Counted, AdmittedBy
<1>3. Tabled /\ Locked /\ OwnTree /\ SetupHeld /\ Decided
  BY GateAssumption, SlotAssumption DEF Init, Tabled, Locked, OwnTree, SetupHeld, Decided, Of
<1> QED BY <1>1, <1>2, <1>3 DEF GatesInv, TypeOK

\* Every step keeps what is taken accounted for.
LEMMA GatesNext == GatesInv /\ [Next]_vars => GatesInv'
<1> SUFFICES ASSUME GatesInv, [Next]_vars PROVE GatesInv'
  OBVIOUS
<1>1. CASE \E g \in Gate : Run(g)
  BY <1>1, AdmitKeeps, AcquireSlotKeeps, PrepareKeeps, MetadataKeeps, NextCommandKeeps, TakeSetupLockKeeps,
     StartSetupKeeps, CommandEndsKeeps, PostponeKeeps, ReleaseKeeps, UnlockKeeps, LeaveKeeps DEF Run
<1>2. CASE \E p \in Train : RequestStop(p) \/ Crash(p)
  BY <1>2, HostKeeps, CrashKeeps
<1>3. CASE Grow \/ StrayEnds \/ OthersEnd
  BY <1>3, HostKeeps
<1>4. CASE UNCHANGED vars
  BY <1>4 DEF GatesInv, TypeOK, Typed, Counted, Tabled, Locked, OwnTree, SetupHeld, Decided, IsSetup, Of
<1> QED BY <1>1, <1>2, <1>3, <1>4 DEF Next, AllEnded

\* The invariant of the component.
LEMMA GatesAlways == Spec => []GatesInv
BY GatesInit, GatesNext, PTL DEF Spec

\* Nothing a gate takes on any path outlives it: memory, table, file lock.
THEOREM NothingLeaked == Spec => []TypeOK
<1>1. GatesInv => TypeOK
  BY DEF GatesInv
<1> QED BY <1>1, GatesAlways, PTL

\* Commands of two gates never share a slot or the setup, whatever their trains.
THEOREM CommandsExclusive == Spec => []Exclusive
<1>1. GatesInv => Exclusive
  BY GateAssumption DEF GatesInv, TypeOK, Locked, OwnTree, SetupHeld, Exclusive
<1> QED BY <1>1, GatesAlways, PTL

\* A gate put off for a stop request never ran a command.
THEOREM PostponedBeforeCommands == Spec => []PostponedUntouched
<1>1. GatesInv => PostponedUntouched
  BY DEF GatesInv, Decided, PostponedUntouched
<1> QED BY <1>1, GatesAlways, PTL
---------------------------------------------------------------------------
(* The memory of the host.                                                 *)

\* A guard admitted its gates with their memory set aside: what other programs use,
\* these gates and the reserve fit.  Strays come on top of that, and go.
Promised == \A p \in Train : running[p] > 0 => Memory - others - running[p] >= Reserve

\* Only a gate whose command runs uses memory, and what is left behind can be counted.
MemoryCounts == (\A g \in grown : pc[g] = "command") /\ IsFiniteSet(strays)

MemoryInv == Promised /\ MemoryCounts

\* What the strays of a finite set of gates amount to is finite.
LEMMA StraysFinite ==
  ASSUME NEW S, IsFiniteSet(S), IsFiniteSet(strays)
  PROVE  IsFiniteSet(strays \union {Stray(g) : g \in S})
<1> DEFINE left == {Stray(g) : g \in S}
<1>1. [g \in S |-> Stray(g)] \in Surjection(S, left)
  BY DEF Surjection
<1>2. IsFiniteSet(left)
  BY <1>1, FS_Surjection
<1> QED BY <1>2, FS_Union

\* A guard admits a gate only with room for all its gates and the reserve.
LEMMA AdmitPromises == ASSUME GatesInv, MemoryInv, NEW g \in Gate, Admit(g) PROVE Promised'
<1> DEFINE p == owner[g]
<1>1. /\ p \in Train /\ running \in [Train -> Nat] /\ others \in Nat /\ others' = others
      /\ running' = [running EXCEPT ![p] = @ + 1]
  BY DEF GatesInv, TypeOK, Typed, Admit
<1>2. IsFiniteSet(grown) /\ IsFiniteSet({x \in strays : x.grown})
  BY GateAssumption, FS_Subset DEF GatesInv, TypeOK, Typed, MemoryInv, MemoryCounts
<1>3. Cardinality(grown) \in Nat /\ Cardinality({x \in strays : x.grown}) \in Nat
  BY <1>2, FS_CardinalityType
<1>4. Available - running[p] >= 1 + Reserve
  BY DEF Admit, Fits
<1>5. Memory - others - (running[p] + 1) >= Reserve
  BY <1>1, <1>3, <1>4, NumbersAssumption DEF Available
<1> QED BY <1>1, <1>5, NumbersAssumption DEF MemoryInv, Promised

\* Nothing else takes from what was promised.
LEMMA PromisesKept == ASSUME GatesInv, MemoryInv, [Next]_vars PROVE Promised'
<1>1. running \in [Train -> Nat] /\ others \in Nat /\ owner \in [Gate -> Train]
  BY DEF GatesInv, TypeOK, Typed
<1>2. CASE \E g \in Gate : Admit(g)
  BY <1>2, AdmitPromises
<1>3. CASE UNCHANGED <<running, others>>
  BY <1>3 DEF MemoryInv, Promised
<1>4. CASE \E g \in Gate : Leave(g)
  <2> PICK g \in Gate : Leave(g)
    BY <1>4
  <2>1. owner[g] \in Train /\ others' = others /\ running' = [running EXCEPT ![owner[g]] = @ - 1]
    BY <1>1 DEF Leave
  <2> QED BY <1>1, <2>1, NumbersAssumption DEF MemoryInv, Promised
<1>5. CASE \E p \in Train : Crash(p)
  BY <1>1, <1>5, NumbersAssumption DEF MemoryInv, Promised, Crash
<1>6. CASE OthersEnd
  BY <1>1, <1>6, NumbersAssumption DEF MemoryInv, Promised, OthersEnd
<1>7. (\E g \in Gate : Run(g)) => (\E g \in Gate : Admit(g)) \/ UNCHANGED <<running, others>> \/ (\E g \in Gate : Leave(g))
  BY DEF Run, AcquireSlot, Prepare, Metadata, NextCommand, TakeSetupLock, StartSetup, CommandEnds, Postpone,
         Release, Unlock
<1>8. (\E p \in Train : RequestStop(p)) \/ Grow \/ StrayEnds \/ AllEnded => UNCHANGED <<running, others>>
  BY DEF RequestStop, Grow, StrayEnds, AllEnded
<1> QED BY <1>2, <1>3, <1>4, <1>5, <1>6, <1>7, <1>8 DEF Next

\* A gate stops using memory when its command ends; each command leaves one stray.
LEMMA CountsKept == ASSUME GatesInv, MemoryInv, [Next]_vars PROVE MemoryCounts'
<1> USE DEF MemoryInv, MemoryCounts
<1>1. pc \in [Gate -> Admitted \union {"memory", "ended"}] /\ grown \subseteq Gate
  BY DEF GatesInv, TypeOK, Typed
<1>2. ASSUME NEW g \in Gate, Run(g) PROVE MemoryCounts'
  <2>1. CASE CommandEnds(g)
    <3>1. strays' \subseteq strays \union {Stray(h) : h \in {g}}
      BY <2>1 DEF CommandEnds
    <3>2. IsFiniteSet(strays \union {Stray(h) : h \in {g}})
      BY StraysFinite, FS_Singleton
    <3>3. IsFiniteSet(strays')
      BY <3>1, <3>2, FS_Subset
    <3>4. grown' = grown \ {g} /\ \A h \in Gate \ {g} : pc'[h] = pc[h]
      BY <1>1, <2>1 DEF CommandEnds
    <3> QED BY <1>1, <3>3, <3>4
  <2>2. CASE ~CommandEnds(g)
    <3>1. UNCHANGED <<grown, strays>> /\ pc[g] # "command" /\ \A h \in Gate \ {g} : pc'[h] = pc[h]
      BY <1>1, <1>2, <2>2 DEF Run, Admit, AcquireSlot, Prepare, Metadata, NextCommand, TakeSetupLock,
           StartSetup, Postpone, Release, Unlock, Leave
    <3> QED BY <1>1, <3>1
  <2> QED BY <2>1, <2>2
<1>3. ASSUME NEW p \in Train, Crash(p) PROVE MemoryCounts'
  <2> DEFINE stopped == {h \in Of(p) : pc[h] = "command"}
  <2>1. IsFiniteSet(stopped)
    BY GateAssumption, FS_Subset DEF Of
  <2>2. strays' = strays \union {Stray(g) : g \in stopped} /\ grown' = grown \ Of(p)
    BY <1>3 DEF Crash
  <2>3. \A g \in Gate \ Of(p) : pc'[g] = pc[g]
    BY <1>3 DEF Crash
  <2>4. IsFiniteSet(strays')
    BY <2>1, <2>2, StraysFinite
  <2> QED BY <1>1, <2>2, <2>3, <2>4
<1>4. CASE Grow
  <2>1. IsFiniteSet(strays') /\ pc' = pc
    <3>1. pc' = pc /\ (strays' = strays \/ \E x, y : strays' = (strays \ {x}) \union {y})
      BY <1>4 DEF Grow
    <3>2. ASSUME NEW x, NEW y PROVE IsFiniteSet((strays \ {x}) \union {y})
      <4>1. IsFiniteSet(strays \ {x})
        BY FS_RemoveElement
      <4> QED BY <4>1, FS_AddElement
    <3>3. IsFiniteSet(strays)
      OBVIOUS
    <3>4. CASE strays' = strays
      BY <3>1, <3>3, <3>4
    <3>5. ASSUME NEW x, NEW y, strays' = (strays \ {x}) \union {y} PROVE IsFiniteSet(strays')
      BY <3>2, <3>5
    <3> QED BY <3>1, <3>4, <3>5
  <2> QED BY <1>4, <2>1 DEF Grow
<1>5. CASE StrayEnds
  <2>1. IsFiniteSet(strays')
    BY <1>5, FS_RemoveElement DEF StrayEnds
  <2> QED BY <1>5, <2>1 DEF StrayEnds
<1>6. CASE (\E p \in Train : RequestStop(p)) \/ OthersEnd \/ AllEnded \/ UNCHANGED vars
  BY <1>6 DEF RequestStop, OthersEnd, AllEnded
<1> QED BY <1>2, <1>3, <1>4, <1>5, <1>6 DEF Next

\* A train alone on its host keeps the reserve free while its commands run, however its
\* gates come to use their memory and whatever other programs give back.
THEOREM ReserveKept == Spec => []MemoryKept
<1>1. Init => MemoryInv
  BY FS_EmptySet, NumbersAssumption DEF Init, MemoryInv, Promised, MemoryCounts
<1>2. GatesInv /\ MemoryInv /\ [Next]_vars => MemoryInv'
  BY PromisesKept, CountsKept DEF MemoryInv
<1>3. GatesInv /\ MemoryInv => MemoryKept
  <2> SUFFICES ASSUME GatesInv, MemoryInv, NEW p \in Train, Of(p) = Gate, strays = {}, grown # {}
               PROVE  Available >= Reserve
    BY DEF MemoryKept
  <2>1. grown \subseteq AdmittedBy(p)
    BY DEF GatesInv, TypeOK, Typed, MemoryInv, MemoryCounts, AdmittedBy
  <2>2. Cardinality(grown) <= Cardinality(AdmittedBy(p)) /\ IsFiniteSet(grown)
    BY <2>1, AdmittedFinite, FS_Subset
  <2>3. running[p] = Cardinality(AdmittedBy(p))
    BY DEF GatesInv, TypeOK, Counted, AdmittedBy
  <2>4. Cardinality(grown) \in Nat /\ Cardinality(grown) > 0
    BY <2>2, FS_CardinalityType, FS_EmptySet
  <2>5. Cardinality({x \in strays : x.grown}) = 0
    BY FS_EmptySet
  <2>6. running[p] \in Nat /\ others \in Nat
    BY DEF GatesInv, TypeOK, Typed
  <2>7. Memory - others - running[p] >= Reserve
    BY <2>2, <2>3, <2>4, <2>6 DEF MemoryInv, Promised
  <2> QED BY <2>2, <2>3, <2>4, <2>5, <2>6, <2>7, NumbersAssumption DEF Available
<1> QED BY <1>1, <1>2, <1>3, GatesAlways, PTL DEF Spec

---------------------------------------------------------------------------
(* Gates implements GateService.                                           *)

\* A gate that starts its first command begins to work; at a later one it goes on.
LEMMA StartImplements ==
  ASSUME GatesInv, NEW g \in Gate, pc[g] \in {"next", "locked"}, verdict' = verdict,
         started' = [started EXCEPT ![g] = TRUE], slot' = slot
  PROVE  (slot[g] \in Slot /\ Service!Begin(g, slot[g])) \/ UNCHANGED <<phase, place, verdict>>
<1>1. verdict[g] = "none"
  BY DEF GatesInv, TypeOK, Typed, Decided
<1>2. CASE started[g]
  BY <1>2 DEF GatesInv, TypeOK, Typed, phase, place
<1>3. CASE ~started[g]
  <2>1. phase[g] = "asked" /\ phase' = [phase EXCEPT ![g] = "working"]
    BY <1>1, <1>3 DEF GatesInv, TypeOK, Typed, phase
  <2>2. slot[g] \in Slot
    BY DEF GatesInv, TypeOK, Locked
  <2>3. place' = [place EXCEPT ![g] = slot[g]]
    <3>1. \A h \in Gate : phase'[h] = IF h = g THEN "working" ELSE phase[h]
      BY <2>1 DEF phase
    <3> HIDE DEF phase
    <3> QED BY <3>1 DEF place
  <2>4. \A h \in Gate : phase[h] = "working" => pc[h] \in InSlot /\ h # g
    BY <2>1 DEF GatesInv, TypeOK, Typed, Decided, phase
  <2>5. Service!Free(slot[g])
    BY <2>4 DEF GatesInv, TypeOK, Locked, Service!Free, place
  <2> QED BY <2>1, <2>2, <2>5, <2>3 DEF Service!Begin
<1> QED BY <1>2, <1>3 DEF GatesInv, TypeOK, Typed

\* A gate that gets its answer ends: from work, or unread or put off before it.
LEMMA AnswerImplements ==
  ASSUME GatesInv, NEW g \in Gate, NEW answer \in {"green", "red", "unread", "postponed"},
         verdict[g] = "none", verdict' = [verdict EXCEPT ![g] = answer], started' = started, slot' = slot,
         IF started[g] THEN answer # "postponed" ELSE answer \in {"unread", "postponed"}
  PROVE  Service!End(g, answer)
<1>1. phase' = [phase EXCEPT ![g] = "ended"]
  BY DEF GatesInv, TypeOK, Typed, phase
<1>2. place' = [place EXCEPT ![g] = None]
  <2>1. \A h \in Gate : phase'[h] = IF h = g THEN "ended" ELSE phase[h]
    BY <1>1 DEF phase
  <2> QED BY <2>1 DEF place
<1>3. phase[g] = IF started[g] THEN "working" ELSE "asked"
  BY DEF phase
<1> QED BY <1>1, <1>2, <1>3 DEF Service!End

\* Every step of a gate is a step of the service, or none.
LEMMA RunImplements ==
  ASSUME GatesInv, NEW g \in Gate, Run(g)
  PROVE  Service!Next \/ UNCHANGED <<phase, place, verdict>>
<1>1. CASE UNCHANGED <<started, verdict, slot>>
  BY <1>1 DEF phase, place
<1>2. CASE Prepare(g) \/ Metadata(g)
  <2>1. verdict[g] = "none" /\ ~started[g] /\ UNCHANGED <<started, slot>>
    BY <1>2 DEF Prepare, Metadata, GatesInv, Decided
  <2>2. verdict' = verdict \/ verdict' = [verdict EXCEPT ![g] = "unread"]
    BY <1>2 DEF Prepare, Metadata
  <2> QED BY <1>1, <2>1, <2>2, AnswerImplements DEF Service!Next
<1>3. CASE NextCommand(g)
  <2>1. CASE step[g] > Setups + Commands /\ Answer(g, "green") /\ started' = started
    <3>1. verdict[g] = "none" /\ started[g] /\ slot' = slot
      BY <1>3, <2>1, NumbersAssumption DEF NextCommand, GatesInv, TypeOK, Typed, Decided
    <3> QED BY <2>1, <3>1, AnswerImplements DEF Service!Next
  <2>2. CASE started' = [started EXCEPT ![g] = TRUE] /\ verdict' = verdict
    BY <1>3, <2>2, StartImplements DEF NextCommand, Service!Next
  <2> QED BY <1>1, <1>3, <2>1, <2>2 DEF NextCommand
<1>4. CASE StartSetup(g)
  BY <1>4, StartImplements DEF StartSetup, Service!Next
<1>5. CASE CommandEnds(g)
  <2>1. verdict[g] = "none" /\ started[g] /\ UNCHANGED <<started, slot>>
    BY <1>5 DEF CommandEnds, GatesInv, Decided
  <2>2. verdict' = verdict \/ \E answer \in {"red", "unread"} : verdict' = [verdict EXCEPT ![g] = answer]
    BY <1>5 DEF CommandEnds
  <2> QED BY <1>1, <2>1, <2>2, AnswerImplements DEF Service!Next
<1>6. CASE Postpone(g)
  <2>1. verdict[g] = "none" /\ ~started[g] /\ UNCHANGED <<started, slot>>
    BY <1>6 DEF Postpone, StopHeeded, Interruptible, GatesInv, Decided
  <2>2. verdict' = [verdict EXCEPT ![g] = "postponed"]
    BY <1>6 DEF Postpone
  <2> QED BY <2>1, <2>2, AnswerImplements DEF Service!Next
<1>7. CASE Admit(g) \/ TakeSetupLock(g) \/ Release(g) \/ Leave(g)
  BY <1>1, <1>7 DEF Admit, TakeSetupLock, Release, Leave
<1>8. CASE AcquireSlot(g) \/ Unlock(g)
  <2>1. UNCHANGED <<started, verdict>> /\ \E s : slot' = [slot EXCEPT ![g] = s]
    BY <1>8 DEF AcquireSlot, Unlock
  <2>2. phase' = phase /\ phase[g] # "working"
    BY <1>8, <2>1 DEF AcquireSlot, Unlock, GatesInv, TypeOK, Typed, Decided, phase
  <2>3. \A h \in Gate : phase[h] = "working" => slot'[h] = slot[h]
    BY <2>1, <2>2 DEF GatesInv, TypeOK, Typed
  <2>4. place' = place
    BY <2>2, <2>3 DEF place
  <2> QED BY <2>1, <2>2, <2>4
<1> QED BY <1>2, <1>3, <1>4, <1>5, <1>6, <1>7, <1>8 DEF Run

\* A killed train's gates are asked for again.
LEMMA CrashImplements ==
  ASSUME GatesInv, NEW p \in Train, Crash(p)
  PROVE  Service!Next
<1>1. /\ started' = [g \in Gate |-> IF g \in Of(p) THEN FALSE ELSE started[g]]
      /\ verdict' = [g \in Gate |-> IF g \in Of(p) THEN "none" ELSE verdict[g]]
  BY DEF Crash
<1>2. phase' = [g \in Gate |-> IF g \in Of(p) THEN "asked" ELSE phase[g]]
  BY <1>1 DEF phase
<1>3. place' = [g \in Gate |-> IF g \in Of(p) THEN None ELSE place[g]]
  <2>1. \A g \in Gate : slot'[g] = IF g \in Of(p) THEN None ELSE slot[g]
    BY DEF Crash
  <2>2. \A g \in Gate : phase'[g] = IF g \in Of(p) THEN "asked" ELSE phase[g]
    BY <1>2
  <2> QED BY <2>1, <2>2 DEF place
<1>4. Of(p) \in SUBSET Gate
  BY DEF Of
<1> QED BY <1>1, <1>2, <1>3, <1>4 DEF Service!Next, Service!AskAgain

\* The trains of a host get the service they rely on: at most one gate per slot works,
\* red and green come from gates that worked.
THEOREM ImplementsService == Spec => ServiceSpec
<1>1. Init => Service!Init
  BY DEF Init, Service!Init, phase, place
<1>2. GatesInv /\ [Next]_vars => [Service!Next]_<<phase, place, verdict>>
  <2> SUFFICES ASSUME GatesInv, [Next]_vars PROVE Service!Next \/ UNCHANGED <<phase, place, verdict>>
    OBVIOUS
  <2>1. CASE UNCHANGED <<started, verdict, slot>>
    BY <2>1 DEF phase, place
  <2>2. CASE (\E p \in Train : RequestStop(p)) \/ Grow \/ StrayEnds \/ OthersEnd \/ AllEnded \/ UNCHANGED vars
    BY <2>1, <2>2 DEF RequestStop, Grow, StrayEnds, OthersEnd, AllEnded
  <2> QED BY <2>2, RunImplements, CrashImplements DEF Next
<1> QED BY <1>1, <1>2, GatesAlways, PTL DEF Spec, ServiceSpec, Service!Spec
=============================================================================
