------------------------- MODULE DagSchedule_proofs -------------------------
(***************************************************************************)
(* Proofs about DagSchedule, for every graph, every number of workers and  *)
(* every plan that satisfies PreprocessResult.                             *)
(***************************************************************************)
EXTENDS DagSchedule, SequenceTheorems, FiniteSetTheorems, TLAPS

-----------------------------------------------------------------------------
(* The list operations.                                                    *)

\* list::remove(x) on a list that holds x: a list of nodes, one shorter, in
\* which the entries behind x moved up by one.
LEMMA WithoutShape ==
    ASSUME NEW S, NEW s \in Seq(S), NEW x, Contains(s, x)
    PROVE  \E k \in 1..Len(s) :
             /\ s[k] = x
             /\ Without(s, x) \in Seq(S)
             /\ Len(Without(s, x)) = Len(s) - 1
             /\ \A i \in 1..(Len(s) - 1) :
                  Without(s, x)[i] = IF i < k THEN s[i] ELSE s[i + 1]
<1> DEFINE k == CHOOSE i \in DOMAIN s : s[i] = x
           a == SubSeq(s, 1, k - 1)
           b == SubSeq(s, k + 1, Len(s))
<1>1. k \in 1..Len(s) /\ s[k] = x
  BY DEF Contains
<1>2. Len(s) \in Nat /\ k - 1 \in Int /\ k + 1 \in Int /\ \A i \in 1..Len(s) : s[i] \in S
  BY <1>1
<1>3. /\ a \in Seq(S)
      /\ Len(a) = k - 1
      /\ \A i \in 1..(k - 1) : a[i] = s[i]
  <2>1. \A i \in 1..(k - 1) : s[i] \in S
    BY <1>1, <1>2
  <2> HIDE DEF k
  <2>2. /\ a \in Seq(S)
        /\ Len(a) = IF 1 <= k - 1 THEN (k - 1) - 1 + 1 ELSE 0
        /\ \A i \in 1..((k - 1) - 1 + 1) : a[i] = s[1 + i - 1]
    BY <2>1, <1>2, SubSeqProperties
  <2> QED
    BY <2>2, <1>1, <1>2
<1>4. /\ b \in Seq(S)
      /\ Len(b) = Len(s) - k
      /\ \A i \in 1..(Len(s) - k) : b[i] = s[k + i]
  <2>1. \A i \in (k + 1)..Len(s) : s[i] \in S
    BY <1>1, <1>2
  <2> HIDE DEF k
  <2>2. /\ b \in Seq(S)
        /\ Len(b) = IF k + 1 <= Len(s) THEN Len(s) - (k + 1) + 1 ELSE 0
        /\ \A i \in 1..(Len(s) - (k + 1) + 1) : b[i] = s[(k + 1) + i - 1]
    BY <2>1, <1>2, SubSeqProperties
  <2> QED
    BY <2>2, <1>1, <1>2
<1>5. Without(s, x) = a \o b
  BY DEF Without, RemoveAt
<1> HIDE DEF k, a, b
<1>6. /\ a \o b \in Seq(S)
      /\ Len(a \o b) = Len(a) + Len(b)
      /\ \A i \in 1..(Len(a) + Len(b)) :
           (a \o b)[i] = IF i <= Len(a) THEN a[i] ELSE b[i - Len(a)]
  BY <1>3, <1>4, ConcatProperties
<1>7. ASSUME NEW i \in 1..(Len(s) - 1)
      PROVE  (a \o b)[i] = IF i < k THEN s[i] ELSE s[i + 1]
  <2>1. CASE i < k
    BY <2>1, <1>1, <1>2, <1>3, <1>4, <1>6
  <2>2. CASE ~(i < k)
    <3>1. i - (k - 1) \in 1..(Len(s) - k) /\ ~(i <= k - 1)
      BY <2>2, <1>1, <1>2
    <3>2. b[i - (k - 1)] = s[k + (i - (k - 1))]
      BY <3>1, <1>4
    <3>3. k + (i - (k - 1)) = i + 1 /\ i \in 1..(Len(a) + Len(b))
      BY <1>1, <1>2, <1>3, <1>4
    <3> QED
      BY <2>2, <3>1, <3>2, <3>3, <1>3, <1>6
  <2> QED
    BY <2>1, <2>2
<1>8. Len(a) + Len(b) = Len(s) - 1
  BY <1>1, <1>2, <1>3, <1>4
<1> QED
  BY <1>1, <1>5, <1>6, <1>7, <1>8

LEMMA WithoutType ==
    ASSUME NEW S, NEW s \in Seq(S), NEW x
    PROVE  Without(s, x) \in Seq(S)
<1>1. CASE ~Contains(s, x)
  BY <1>1 DEF Without
<1>2. CASE Contains(s, x)
  BY <1>2, WithoutShape
<1> QED
  BY <1>1, <1>2

-----------------------------------------------------------------------------
(* Types, and who is where.                                                *)

TypeInv == TypeOK /\ plan \in Start /\ LocalsSet

\* What the contract with the preprocessing gives about the current plan.
LEMMA PlanFacts ==
    ASSUME plan \in Start
    PROVE  /\ PreprocessResult(plan)
           /\ plan \in PlanType
           /\ plan.tasks \in Seq(Node)
           /\ plan.status \in [Node -> Colour]
           /\ plan.wait \in [Node -> Int]
           /\ plan.asked \in SUBSET Node
BY StartAssumption DEF PreprocessResult, PlanType

\* No name of a thread or of nothing is mistaken for another.
LEMMA Names ==
    /\ Master \notin Worker /\ None \notin Worker /\ None \notin Node
    /\ None # Master
BY NameAssumption

\* In the initial state every variable has its type and no lock is held.
LEMMA BaseInit == Init => TypeInv /\ Control
<1> SUFFICES ASSUME Init PROVE TypeInv /\ Control
  OBVIOUS
<1>1. plan \in Start
  BY DEF Init
<1>2. TypeOK
  <2>1. /\ plan \in PlanType /\ taskList \in Seq(Node)
        /\ status \in [Node -> Colour] /\ waitBlack \in [Node -> Int]
    BY <1>1, PlanFacts DEF Init
  <2>2. /\ task \in [Worker -> Node \cup {None}] /\ kid \in [Worker -> Node \cup {None}]
        /\ kids \in [Worker -> SUBSET Node] /\ wpc \in [Worker -> WorkerPC]
        /\ starts \in [Node -> Nat] /\ finishes \in [Node -> Nat]
    BY DEF Init, WorkerPC
  <2>3. q \in Seq(Node)
    BY DEF Init
  <2>4. /\ flagFinish \in BOOLEAN /\ mpc \in MasterPC
        /\ listOwner \in Worker \cup {Master, None} /\ aborted \in BOOLEAN
    BY DEF Init, MasterPC
  <2> QED
    BY <2>1, <2>2, <2>3, <2>4 DEF TypeOK
<1>3. LocalsSet
  BY DEF Init, LocalsSet, Working
<1>4. Control
  BY Names DEF Init, Control
<1> QED
  BY <1>1, <1>2, <1>3, <1>4 DEF TypeInv

\* A step of the master keeps the types and the local variables in order.
LEMMA TypeMaster == TypeInv /\ Control /\ MasterStep => TypeInv'
<1> SUFFICES ASSUME TypeInv, Control, MasterStep PROVE TypeInv'
  OBVIOUS
<1> USE DEF TypeInv, TypeOK, LocalsSet, Working, MasterPC, WorkerPC, MasterAt,
            workerVars, history, Asleep, WHITE, GREY, BLACK, Colour
<1>1. CASE MasterCheck
  BY <1>1 DEF MasterCheck
<1>2. CASE MasterLock
  BY <1>2 DEF MasterLock
<1>3. CASE MasterQueue
  <2>1. Head(taskList) \in Node
    BY <1>3 DEF MasterQueue, ScanGoesOn
  <2> QED
    BY <1>3, <2>1 DEF MasterQueue
<1>4. CASE MasterNotify
  <2>1. Tail(taskList) \in Seq(Node)
    BY <1>4 DEF MasterNotify, Control
  <2>2. wpc' \in [Worker -> WorkerPC] /\ LocalsSet'
    BY <1>4 DEF MasterNotify, WakeOne
  <2> QED
    BY <1>4, <2>1, <2>2 DEF MasterNotify
<1>5. CASE MasterUnlock
  BY <1>5 DEF MasterUnlock
<1>6. CASE MasterFinish
  BY <1>6 DEF MasterFinish
<1>7. CASE MasterDrain
  <2>1. wpc' \in [Worker -> WorkerPC] /\ LocalsSet'
    BY <1>7 DEF MasterDrain
  <2> QED
    BY <1>7, <2>1 DEF MasterDrain
<1>8. CASE MasterDrained
  BY <1>8 DEF MasterDrained
<1>9. CASE MasterReturn
  BY <1>9 DEF MasterReturn
<1> QED
  BY <1>1, <1>2, <1>3, <1>4, <1>5, <1>6, <1>7, <1>8, <1>9 DEF MasterStep

\* So does a step of a worker.
LEMMA TypeWorker ==
    ASSUME TypeInv, NEW w \in Worker, WorkerStep(w)
    PROVE  TypeInv'
<1> USE DEF TypeInv, TypeOK, LocalsSet, Working, MasterPC, WorkerPC, WorkerAt,
            workerVars, history, WHITE, GREY, BLACK, Colour
<1>1. CASE WorkerCheck(w)
  BY <1>1 DEF WorkerCheck
<1>2. CASE WorkerPop(w)
  <2>1. Head(q) \in Node /\ Tail(q) \in Seq(Node)
    BY <1>2 DEF WorkerPop
  <2>2. starts' \in [Node -> Nat]
    BY <1>2, <2>1 DEF WorkerPop
  <2> QED
    BY <1>2, <2>1, <2>2 DEF WorkerPop
<1>3. CASE WorkerQuit(w)
  BY <1>3 DEF WorkerQuit
<1>4. CASE WorkerSleep(w)
  BY <1>4 DEF WorkerSleep
<1>5. CASE SpuriousWake(w)
  BY <1>5 DEF SpuriousWake
<1>6. CASE RecipeSucceeds(w)
  <2>1. task[w] \in Node
    BY <1>6 DEF RecipeSucceeds
  <2>2. finishes' \in [Node -> Nat] /\ status' \in [Node -> Colour]
    BY <1>6, <2>1 DEF RecipeSucceeds
  <2> QED
    BY <1>6, <2>1, <2>2 DEF RecipeSucceeds
<1>7. CASE RecipeFails(w)
  BY <1>7 DEF RecipeFails
<1>8. CASE WorkerRemove(w)
  <2>1. taskList' \in Seq(Node)
    BY <1>8, WithoutType DEF WorkerRemove
  <2>2. Children(plan.edges, task[w]) \in SUBSET Node
    BY DEF Children
  <2> QED
    BY <1>8, <2>1, <2>2 DEF WorkerRemove
<1>9. CASE ChildWaits(w)
  BY <1>9 DEF ChildWaits
<1>10. CASE ChildReady(w)
  BY <1>10 DEF ChildReady
<1>11. CASE PromoteRemove(w)
  <2>1. taskList' \in Seq(Node)
    BY <1>11, WithoutType DEF PromoteRemove
  <2> QED
    BY <1>11, <2>1 DEF PromoteRemove
<1>12. CASE PromoteFront(w)
  <2>1. <<kid[w]>> \in Seq(Node)
    BY <1>12 DEF PromoteFront
  <2>2. taskList' \in Seq(Node)
    BY <1>12, <2>1, ConcatProperties DEF PromoteFront
  <2> QED
    BY <1>12, <2>2 DEF PromoteFront
<1>13. CASE WorkerLoop(w)
  BY <1>13 DEF WorkerLoop
<1> QED
  BY <1>1, <1>2, <1>3, <1>4, <1>5, <1>6, <1>7, <1>8, <1>9, <1>10, <1>11, <1>12,
     <1>13 DEF WorkerStep

-----------------------------------------------------------------------------
(* The list lock, the flag and the workers that left.                      *)

\* A step of the master keeps Control.
LEMMA ControlMaster == TypeInv /\ Control /\ MasterStep => Control'
<1> SUFFICES ASSUME TypeInv, Control, MasterStep PROVE Control'
  OBVIOUS
<1> USE Names DEF Control, TypeInv, TypeOK, MasterAt, workerVars, MasterPC
<1>1. CASE MasterCheck
  BY <1>1 DEF MasterCheck
<1>2. CASE MasterLock
  BY <1>2 DEF MasterLock
<1>3. CASE MasterQueue
  <2>1. \A w \in Worker : wpc[w] # "exited"
    BY <1>3 DEF MasterQueue
  <2> QED
    BY <1>3, <2>1 DEF MasterQueue, ScanGoesOn
<1>4. CASE MasterNotify
  <2>1. \A w \in Worker : wpc'[w] = wpc[w] \/ (wpc[w] = "asleep" /\ wpc'[w] = "get")
    BY <1>4 DEF MasterNotify, WakeOne, Asleep
  <2> QED
    BY <1>4, <2>1 DEF MasterNotify
<1>5. CASE MasterUnlock
  BY <1>5 DEF MasterUnlock
<1>6. CASE MasterFinish
  BY <1>6 DEF MasterFinish
<1>7. CASE MasterDrain
  <2>1. \A w \in Worker : wpc'[w] = wpc[w] \/ (wpc[w] = "asleep" /\ wpc'[w] = "get")
    BY <1>7 DEF MasterDrain, Asleep
  <2> QED
    BY <1>7, <2>1 DEF MasterDrain
<1>8. CASE MasterDrained
  BY <1>8 DEF MasterDrained
<1>9. CASE MasterReturn
  BY <1>9 DEF MasterReturn
<1> QED
  BY <1>1, <1>2, <1>3, <1>4, <1>5, <1>6, <1>7, <1>8, <1>9 DEF MasterStep

\* So does a step of a worker.
LEMMA ControlWorker ==
    ASSUME TypeInv, Control, NEW w \in Worker, WorkerStep(w)
    PROVE  Control'
<1> USE Names DEF Control, TypeInv, TypeOK, WorkerAt, workerVars, MasterPC
<1>1. CASE WorkerCheck(w)
  BY <1>1 DEF WorkerCheck
<1>2. CASE WorkerPop(w)
  <2>1. \A v \in Worker : wpc[v] # "exited"
    BY <1>2 DEF WorkerPop
  <2> QED
    BY <1>2, <2>1 DEF WorkerPop
<1>3. CASE WorkerQuit(w)
  BY <1>3 DEF WorkerQuit
<1>4. CASE WorkerSleep(w)
  BY <1>4 DEF WorkerSleep
<1>5. CASE SpuriousWake(w)
  BY <1>5 DEF SpuriousWake
<1>6. CASE RecipeSucceeds(w)
  BY <1>6 DEF RecipeSucceeds
<1>7. CASE RecipeFails(w)
  BY <1>7 DEF RecipeFails
<1>8. CASE WorkerRemove(w)
  BY <1>8 DEF WorkerRemove
<1>9. CASE ChildWaits(w)
  BY <1>9 DEF ChildWaits
<1>10. CASE ChildReady(w)
  BY <1>10 DEF ChildReady
<1>11. CASE PromoteRemove(w)
  BY <1>11 DEF PromoteRemove
<1>12. CASE PromoteFront(w)
  <2>1. mpc # "notify"
    BY <1>12 DEF PromoteFront
  <2> QED
    BY <1>12, <2>1 DEF PromoteFront
<1>13. CASE WorkerLoop(w)
  BY <1>13 DEF WorkerLoop
<1> QED
  BY <1>1, <1>2, <1>3, <1>4, <1>5, <1>6, <1>7, <1>8, <1>9, <1>10, <1>11, <1>12,
     <1>13 DEF WorkerStep

\* Every step keeps the types and Control.
LEMMA BaseNext == TypeInv /\ Control /\ [Next]_vars => TypeInv' /\ Control'
<1> SUFFICES ASSUME TypeInv, Control, [Next]_vars PROVE TypeInv' /\ Control'
  OBVIOUS
<1>1. CASE MasterStep
  BY <1>1, TypeMaster, ControlMaster
<1>2. ASSUME NEW w \in Worker, WorkerStep(w) PROVE TypeInv' /\ Control'
  BY <1>2, TypeWorker, ControlWorker
<1>3. CASE UNCHANGED vars
  BY <1>3 DEF vars, masterVars, workerVars, history, TypeInv, TypeOK,
              LocalsSet, Control, Working
<1> QED
  BY <1>1, <1>2, <1>3 DEF Next, Terminated

\* In every behaviour, whatever the number of workers, each variable stays in
\* its type, the list lock has at most the owner that is inside the region it
\* protects, and a worker that left proves that q is empty for good.
THEOREM Base == Spec => [](TypeInv /\ Control)
  BY BaseInit, BaseNext, PTL DEF Spec

\* TypeOK is an invariant of the scheduler.
THEOREM Typing == Spec => []TypeOK
<1>1. TypeInv => TypeOK
  BY DEF TypeInv
<1> QED
  BY <1>1, Base, PTL

-----------------------------------------------------------------------------
(* No signal is lost while a target waits.                                 *)

LEMMA WakeupMaster ==
    TypeInv /\ Control /\ NoLostWakeup /\ MasterStep => NoLostWakeup'
<1> SUFFICES ASSUME TypeInv, Control, NoLostWakeup, MasterStep PROVE NoLostWakeup'
  OBVIOUS
<1> USE DEF Control, TypeInv, TypeOK, NoLostWakeup, MasterAt, workerVars
<1>1. CASE MasterQueue
  BY <1>1 DEF MasterQueue
<1>2. CASE MasterNotify
  <2>1. \A w \in Worker : wpc[w] # "exited"
    BY <1>2 DEF MasterNotify
  <2>2. CASE Asleep = {}
    BY <1>2, <2>1, <2>2, WorkerAssumption DEF MasterNotify, WakeOne, Asleep
  <2>3. CASE Asleep # {}
    <3>1. PICK w \in Asleep : wpc' = [wpc EXCEPT ![w] = "get"]
      BY <1>2, <2>3 DEF MasterNotify, WakeOne
    <3>2. w \in Worker /\ wpc'[w] = "get"
      BY <3>1 DEF Asleep
    <3> QED
      BY <3>2
  <2> QED
    BY <2>2, <2>3
<1>3. CASE MasterDrain
  <2>1. \A w \in Worker : wpc'[w] = wpc[w] \/ wpc'[w] = "get"
    BY <1>3 DEF MasterDrain
  <2> QED
    BY <1>3, <2>1 DEF MasterDrain
<1>4. CASE MasterCheck
  BY <1>4 DEF MasterCheck
<1>5. CASE MasterLock
  BY <1>5 DEF MasterLock
<1>6. CASE MasterUnlock
  BY <1>6 DEF MasterUnlock
<1>7. CASE MasterFinish
  BY <1>7 DEF MasterFinish
<1>8. CASE MasterDrained
  BY <1>8 DEF MasterDrained
<1>9. CASE MasterReturn
  BY <1>9 DEF MasterReturn
<1> QED
  BY <1>1, <1>2, <1>3, <1>4, <1>5, <1>6, <1>7, <1>8, <1>9 DEF MasterStep

LEMMA WakeupWorker ==
    ASSUME TypeInv, Control, NoLostWakeup, NEW w \in Worker, WorkerStep(w)
    PROVE  NoLostWakeup'
<1> USE DEF Control, TypeInv, TypeOK, NoLostWakeup, WorkerAt, workerVars
<1>1. CASE WorkerCheck(w) \/ WorkerQuit(w) \/ WorkerSleep(w)
  BY <1>1 DEF WorkerCheck, WorkerQuit, WorkerSleep
<1>2. CASE WorkerPop(w)
  BY <1>2 DEF WorkerPop
<1>3. CASE SpuriousWake(w)
  BY <1>3 DEF SpuriousWake
<1>4. CASE RecipeSucceeds(w) \/ RecipeFails(w)
  BY <1>4 DEF RecipeSucceeds, RecipeFails
<1>5. CASE WorkerRemove(w)
  BY <1>5 DEF WorkerRemove
<1>6. CASE ChildWaits(w)
  BY <1>6 DEF ChildWaits
<1>7. CASE ChildReady(w)
  BY <1>7 DEF ChildReady
<1>8. CASE PromoteRemove(w)
  BY <1>8 DEF PromoteRemove
<1>9. CASE PromoteFront(w)
  BY <1>9 DEF PromoteFront
<1>10. CASE WorkerLoop(w)
  BY <1>10 DEF WorkerLoop
<1> QED
  BY <1>1, <1>2, <1>3, <1>4, <1>5, <1>6, <1>7, <1>8, <1>9, <1>10 DEF WorkerStep

\* However many workers there are and whatever the plan: while a target waits
\* in q and the master is not about to signal, a worker is up to take it.
THEOREM WakeupSafety == Spec => []NoLostWakeup
<1>1. Init => NoLostWakeup
  BY DEF Init, NoLostWakeup
<1>2. TypeInv /\ Control /\ NoLostWakeup /\ [Next]_vars => NoLostWakeup'
  <2> SUFFICES ASSUME TypeInv, Control, NoLostWakeup, [Next]_vars
               PROVE  NoLostWakeup'
    OBVIOUS
  <2>1. CASE MasterStep
    BY <2>1, WakeupMaster
  <2>2. ASSUME NEW w \in Worker, WorkerStep(w) PROVE NoLostWakeup'
    BY <2>2, WakeupWorker
  <2>3. CASE UNCHANGED vars
    BY <2>3 DEF vars, masterVars, workerVars, NoLostWakeup
  <2> QED
    BY <2>1, <2>2, <2>3 DEF Next, Terminated
<1> QED
  BY <1>1, <1>2, Base, PTL DEF Spec

-----------------------------------------------------------------------------
(* The list.                                                               *)

\* list::remove(x) on a list without duplicates leaves the other nodes, once.
LEMMA WithoutElements ==
    ASSUME NEW S, NEW s \in Seq(S), NEW x, NoDuplicates(s)
    PROVE  /\ NoDuplicates(Without(s, x))
           /\ ~Contains(Without(s, x), x)
           /\ \A y : y # x => (Contains(Without(s, x), y) <=> Contains(s, y))
<1>1. CASE ~Contains(s, x)
  BY <1>1 DEF Without
<1>2. CASE Contains(s, x)
  <2> DEFINE r == Without(s, x)
  <2>1. PICK k \in 1..Len(s) :
          /\ s[k] = x
          /\ r \in Seq(S)
          /\ Len(r) = Len(s) - 1
          /\ \A i \in 1..(Len(s) - 1) : r[i] = IF i < k THEN s[i] ELSE s[i + 1]
    BY <1>2, WithoutShape
  <2> HIDE DEF r
  <2>2. Len(s) \in Nat /\ DOMAIN s = 1..Len(s) /\ DOMAIN r = 1..(Len(s) - 1)
    BY <2>1
  <2>3. \A i, j \in 1..Len(s) : s[i] = s[j] => i = j
    BY <2>2 DEF NoDuplicates
  <2>4. NoDuplicates(r)
    <3> SUFFICES ASSUME NEW i \in 1..(Len(s) - 1), NEW j \in 1..(Len(s) - 1),
                        r[i] = r[j]
                 PROVE  i = j
      BY <2>2 DEF NoDuplicates
    <3> DEFINE Shift(m) == IF m < k THEN m ELSE m + 1
    <3>1. Shift(i) \in 1..Len(s) /\ Shift(j) \in 1..Len(s)
      BY <2>2
    <3>2. r[i] = s[Shift(i)] /\ r[j] = s[Shift(j)]
      BY <2>1
    <3>3. Shift(i) = Shift(j)
      BY <2>3, <3>1, <3>2
    <3> QED
      BY <2>2, <3>3
  <2>5. \A i \in 1..(Len(s) - 1) : r[i] # x
    BY <2>1, <2>2, <2>3
  <2>6. ASSUME NEW y, y # x PROVE Contains(r, y) <=> Contains(s, y)
    <3>1. ASSUME NEW i \in 1..(Len(s) - 1), r[i] = y PROVE Contains(s, y)
      BY <2>1, <2>2, <3>1 DEF Contains
    <3>2. ASSUME NEW i \in 1..Len(s), s[i] = y PROVE Contains(r, y)
      <4>1. CASE i < k
        BY <2>1, <2>2, <3>2, <4>1 DEF Contains
      <4>2. CASE i > k
        <5>1. i - 1 \in 1..(Len(s) - 1) /\ r[i - 1] = y
          BY <2>1, <2>2, <3>2, <4>2
        <5> QED
          BY <5>1, <2>1 DEF Contains
      <4> QED
        BY <2>1, <2>2, <2>6, <3>2, <4>1, <4>2
    <3> QED
      BY <2>1, <3>1, <3>2 DEF Contains
  <2> QED
    BY <2>1, <2>4, <2>5, <2>6 DEF Contains, r
<1> QED
  BY <1>1, <1>2

\* Taking the head off and putting a new node in front.
LEMMA TailElements ==
    ASSUME NEW S, NEW s \in Seq(S), s # <<>>
    PROVE  /\ NoDuplicates(s) => NoDuplicates(Tail(s))
           /\ \A y : Contains(s, y) <=> (y = Head(s) \/ Contains(Tail(s), y))
<1>1. /\ Tail(s) \in Seq(S) /\ Len(s) \in Nat /\ Len(s) >= 1
      /\ Len(Tail(s)) = Len(s) - 1 /\ Head(s) = s[1]
      /\ \A i \in 1..(Len(s) - 1) : Tail(s)[i] = s[i + 1]
  OBVIOUS
<1>2. NoDuplicates(s) => NoDuplicates(Tail(s))
  BY <1>1 DEF NoDuplicates
<1>3. ASSUME NEW y, Contains(s, y), y # Head(s) PROVE Contains(Tail(s), y)
  <2>1. PICK i \in 1..Len(s) : s[i] = y
    BY <1>3 DEF Contains
  <2>2. i - 1 \in 1..(Len(s) - 1) /\ Tail(s)[i - 1] = y
    BY <1>1, <1>3, <2>1
  <2> QED
    BY <1>1, <2>2 DEF Contains
<1>4. ASSUME NEW y, Contains(Tail(s), y) PROVE Contains(s, y)
  BY <1>1, <1>4 DEF Contains
<1>5. Contains(s, Head(s))
  BY <1>1 DEF Contains
<1> QED
  BY <1>2, <1>3, <1>4, <1>5

LEMMA FrontElements ==
    ASSUME NEW S, NEW s \in Seq(S), NEW x \in S
    PROVE  /\ NoDuplicates(s) /\ ~Contains(s, x) => NoDuplicates(<<x>> \o s)
           /\ \A y : Contains(<<x>> \o s, y) <=> (y = x \/ Contains(s, y))
<1> DEFINE r == <<x>> \o s
<1>1. /\ r \in Seq(S) /\ Len(s) \in Nat /\ Len(r) = Len(s) + 1
      /\ \A i \in 1..(Len(s) + 1) : r[i] = IF i = 1 THEN x ELSE s[i - 1]
  <2>1. <<x>> \in Seq(S) /\ Len(<<x>>) = 1 /\ <<x>>[1] = x
    OBVIOUS
  <2> QED
    BY <2>1, ConcatProperties
<1> HIDE DEF r
<1>2. NoDuplicates(s) /\ ~Contains(s, x) => NoDuplicates(r)
  <2> SUFFICES ASSUME NoDuplicates(s), ~Contains(s, x),
                      NEW i \in 1..(Len(s) + 1), NEW j \in 1..(Len(s) + 1),
                      r[i] = r[j]
               PROVE  i = j
    BY <1>1 DEF NoDuplicates
  <2>1. \A k \in 1..Len(s) : s[k] # x
    BY DEF Contains
  <2> QED
    BY <1>1, <2>1 DEF NoDuplicates
<1>3. ASSUME NEW y, Contains(r, y) PROVE y = x \/ Contains(s, y)
  BY <1>1, <1>3 DEF Contains
<1>4. Contains(r, x)
  BY <1>1 DEF Contains
<1>5. ASSUME NEW y, Contains(s, y) PROVE Contains(r, y)
  <2>1. PICK i \in 1..Len(s) : s[i] = y
    BY <1>5 DEF Contains
  <2>2. i + 1 \in 1..(Len(s) + 1) /\ r[i + 1] = y
    BY <1>1, <2>1
  <2> QED
    BY <1>1, <2>2 DEF Contains
<1> QED
  BY <1>2, <1>3, <1>4, <1>5 DEF r

LEMMA AppendElements ==
    ASSUME NEW S, NEW s \in Seq(S), NEW x \in S
    PROVE  \A y : Contains(Append(s, x), y) <=> (y = x \/ Contains(s, y))
<1>1. /\ Len(s) \in Nat /\ Len(Append(s, x)) = Len(s) + 1
      /\ \A i \in 1..(Len(s) + 1) : Append(s, x)[i] = IF i = Len(s) + 1 THEN x ELSE s[i]
  BY AppendProperties
<1>2. ASSUME NEW y, Contains(Append(s, x), y) PROVE y = x \/ Contains(s, y)
  BY <1>1, <1>2 DEF Contains
<1>3. Contains(Append(s, x), x)
  BY <1>1 DEF Contains
<1>4. ASSUME NEW y, Contains(s, y) PROVE Contains(Append(s, x), y)
  BY <1>1, <1>4 DEF Contains
<1> QED
  BY <1>2, <1>3, <1>4

\* The list invariants of a state.
ListInv == ListHasNoDuplicates /\ KidIsOffTheList /\ ErasesWhatItQueued

\* A node that was handed out stays so.
LEMMA HandedOutStays ==
    ASSUME TypeInv, [Next]_vars, NEW v \in Node, HandedOut(v)
    PROVE  HandedOut(v)'
<1> USE DEF TypeInv, TypeOK, HandedOut
<1>1. CASE UNCHANGED <<q, starts>>
  BY <1>1
<1>2. CASE MasterQueue
  <2>1. Head(taskList) \in Node
    BY <1>2 DEF MasterQueue, ScanGoesOn
  <2> QED
    BY <1>2, <2>1, AppendElements DEF MasterQueue, history
<1>3. ASSUME NEW w \in Worker, WorkerPop(w) PROVE HandedOut(v)'
  <2>1. q # <<>> /\ q' = Tail(q) /\ starts' = [starts EXCEPT ![Head(q)] = @ + 1]
    BY <1>3 DEF WorkerPop
  <2>2. Head(q) \in Node
    BY <2>1
  <2>3. v = Head(q) => starts'[v] > 0
    BY <2>1, <2>2
  <2>4. starts[v] > 0 => starts'[v] > 0
    BY <2>1, <2>2
  <2>5. Contains(q, v) => v = Head(q) \/ Contains(Tail(q), v)
    BY <2>1, TailElements
  <2> QED
    BY <2>1, <2>3, <2>4, <2>5
<1> QED
  BY <1>1, <1>2, <1>3
  DEF Next, Terminated, vars, history, MasterStep, MasterCheck, MasterLock,
      MasterNotify, MasterUnlock, MasterFinish, MasterDrain, MasterDrained,
      MasterReturn, WorkerStep, WorkerCheck, WorkerQuit, WorkerSleep,
      SpuriousWake, RecipeSucceeds, RecipeFails, WorkerRemove, ChildWaits,
      ChildReady, PromoteRemove, PromoteFront, WorkerLoop

LEMMA ListMaster ==
    ASSUME TypeInv, Control, ListInv, MasterStep
    PROVE  ListInv'
<1> USE DEF TypeInv, TypeOK, Control, ListInv, ListHasNoDuplicates,
            KidIsOffTheList, ErasesWhatItQueued, MasterAt, workerVars, history
<1>1. CASE UNCHANGED <<taskList, wpc, kid>> /\ mpc' # "notify"
  BY <1>1
<1>2. CASE MasterQueue
  <2>1. taskList # <<>> /\ Head(taskList) \in Node
    BY <1>2 DEF MasterQueue, ScanGoesOn
  <2>2. HandedOut(Head(taskList))'
    BY <1>2, <2>1, AppendElements DEF MasterQueue, HandedOut
  <2> QED
    BY <1>2, <2>1, <2>2 DEF MasterQueue
<1>3. CASE MasterNotify
  <2>1. NoDuplicates(Tail(taskList))
    BY <1>3, TailElements DEF MasterNotify
  <2>2. \A w \in Worker : wpc'[w] # "front"
    BY <1>3, Names DEF MasterNotify, WakeOne, Asleep
  <2> QED
    BY <1>3, <2>1, <2>2 DEF MasterNotify
<1>4. CASE MasterDrain
  <2>1. \A w \in Worker : wpc'[w] = "front" => wpc[w] = "front"
    BY <1>4 DEF MasterDrain
  <2> QED
    BY <1>4, <2>1 DEF MasterDrain
<1> QED
  BY <1>1, <1>2, <1>3, <1>4
  DEF MasterStep, MasterCheck, MasterLock, MasterUnlock, MasterFinish,
      MasterDrained, MasterReturn

LEMMA ListWorker ==
    ASSUME TypeInv, Control, ListInv, NEW w \in Worker, WorkerStep(w)
    PROVE  ListInv'
<1> USE DEF TypeInv, TypeOK, LocalsSet, Control, ListInv, ListHasNoDuplicates,
            KidIsOffTheList, ErasesWhatItQueued, WorkerAt, workerVars
<1>1. mpc' = mpc
  BY DEF WorkerStep, WorkerCheck, WorkerPop, WorkerQuit, WorkerSleep,
         SpuriousWake, RecipeSucceeds, RecipeFails, WorkerRemove, ChildWaits,
         ChildReady, PromoteRemove, PromoteFront, WorkerLoop
<1>2. mpc = "notify" /\ taskList' = taskList => ErasesWhatItQueued'
  <2> SUFFICES ASSUME mpc = "notify", taskList' = taskList
               PROVE  HandedOut(Head(taskList))'
    BY <1>1
  <2>1. Head(taskList) \in Node
    OBVIOUS
  <2>2. [Next]_vars
    BY DEF Next
  <2> QED
    BY <2>1, <2>2, HandedOutStays
<1>3. CASE /\ taskList' = taskList
           /\ \A v \in Worker : wpc'[v] = "front" => wpc[v] = "front" /\ kid'[v] = kid[v]
  BY <1>1, <1>2, <1>3
<1>4. CASE WorkerRemove(w)
  <2>1. \A v \in Worker : wpc'[v] # "front"
    BY <1>4, Names DEF WorkerRemove
  <2>2. mpc # "notify"
    BY <1>4, Names DEF WorkerRemove
  <2>3. NoDuplicates(taskList')
    BY <1>4, WithoutElements DEF WorkerRemove
  <2> QED
    BY <1>1, <2>1, <2>2, <2>3
<1>5. CASE PromoteRemove(w)
  <2>1. \A v \in Worker : wpc'[v] = "front" => v = w
    BY <1>5, Names DEF PromoteRemove
  <2>2. mpc # "notify"
    BY <1>5, Names DEF PromoteRemove
  <2>3. NoDuplicates(taskList') /\ ~Contains(taskList', kid[w])
    BY <1>5, WithoutElements DEF PromoteRemove
  <2>4. kid' = kid
    BY <1>5 DEF PromoteRemove
  <2> QED
    BY <1>1, <2>1, <2>2, <2>3, <2>4
<1>6. CASE PromoteFront(w)
  <2>1. wpc[w] = "front" /\ kid[w] \in Node /\ listOwner = w
    BY <1>6 DEF PromoteFront
  <2>2. \A v \in Worker : wpc'[v] # "front"
    BY <1>6, <2>1 DEF PromoteFront
  <2>3. mpc # "notify"
    BY <2>1, Names
  <2>4. NoDuplicates(taskList')
    BY <1>6, <2>1, FrontElements DEF PromoteFront
  <2> QED
    BY <1>1, <2>2, <2>3, <2>4
<1> QED
  BY <1>3, <1>4, <1>5, <1>6
  DEF WorkerStep, WorkerCheck, WorkerPop, WorkerQuit, WorkerSleep,
      SpuriousWake, RecipeSucceeds, RecipeFails, ChildWaits, ChildReady,
      WorkerLoop

\* The list and its lock: the inductive invariant.
LEMMA ListAlways == Spec => []ListInv
<1>1. Init => ListInv
  <2> SUFFICES ASSUME Init PROVE ListInv
    OBVIOUS
  <2>1. plan \in Start /\ taskList = plan.tasks
    BY DEF Init
  <2>2. NoDuplicates(plan.tasks)
    BY <2>1, PlanFacts DEF PreprocessResult
  <2> QED
    BY <2>1, <2>2 DEF Init, ListInv, ListHasNoDuplicates, KidIsOffTheList,
                      ErasesWhatItQueued
<1>2. TypeInv /\ Control /\ ListInv /\ [Next]_vars => ListInv'
  <2> SUFFICES ASSUME TypeInv, Control, ListInv, [Next]_vars PROVE ListInv'
    OBVIOUS
  <2>1. CASE MasterStep
    BY <2>1, ListMaster
  <2>2. ASSUME NEW w \in Worker, WorkerStep(w) PROVE ListInv'
    BY <2>2, ListWorker
  <2>3. CASE UNCHANGED vars
    BY <2>3 DEF vars, masterVars, workerVars, history, ListInv,
                ListHasNoDuplicates, KidIsOffTheList, ErasesWhatItQueued,
                HandedOut
  <2> QED
    BY <2>1, <2>2, <2>3 DEF Next, Terminated
<1> QED
  BY <1>1, <1>2, Base, PTL DEF Spec

\* For every graph and number of workers no node is on _task_list twice, so
\* that list::remove() takes away one node.
THEOREM ListSafety == Spec => []ListHasNoDuplicates
<1>1. ListInv => ListHasNoDuplicates
  BY DEF ListInv
<1> QED
  BY <1>1, ListAlways, PTL

\* Between push and erase the list lock keeps every promoted node out of the
\* front: the head that the master erases was handed out.
THEOREM EraseSafety == Spec => []ErasesWhatItQueued
<1>1. ListInv => ErasesWhatItQueued
  BY DEF ListInv
<1> QED
  BY <1>1, ListAlways, PTL

-----------------------------------------------------------------------------
(* What is up to date is left alone.                                       *)

\* ToSet, as the list lemmas speak of it.
LEMMA InList ==
    ASSUME NEW S, NEW s \in Seq(S)
    PROVE  \A y : y \in ToSet(s) <=> Contains(s, y)
BY DEF ToSet, Contains

\* Everything made from a node schedule() may touch may be touched too.
LEMMA ChildrenTouchable ==
    ASSUME TypeInv, NEW v \in Touchable
    PROVE  Children(plan.edges, v) \subseteq Touchable
<1> SUFFICES ASSUME NEW u \in Children(plan.edges, v),
                    u \in plan.asked, u \notin Tasks
             PROVE  FALSE
  BY DEF Touchable, Children
<1>1. PreprocessResult(plan)
  BY PlanFacts DEF TypeInv
<1>2. v \in Parents(plan.edges, u)
  BY DEF Touchable, Children, Parents
<1>3. v \in plan.asked
  BY <1>1, <1>2 DEF PreprocessResult
<1>4. v \in ToSet(plan.tasks)
  BY <1>3 DEF Touchable, Tasks
<1>5. StaleParents(plan, u) = {}
  BY <1>1 DEF PreprocessResult, Tasks
<1> QED
  BY <1>2, <1>4, <1>5 DEF StaleParents

LEMMA TouchableMaster ==
    ASSUME TypeInv, Control, OnlyTouchable, MasterStep
    PROVE  OnlyTouchable'
<1> USE DEF TypeInv, TypeOK, OnlyTouchable, MasterAt, workerVars, history
<1>1. plan' = plan /\ Touchable' = Touchable
  BY DEF MasterStep, MasterCheck, MasterLock, MasterQueue, MasterNotify,
         MasterUnlock, MasterFinish, MasterDrain, MasterDrained, MasterReturn,
         Touchable, Tasks
<1>2. CASE UNCHANGED <<taskList, q, starts, wpc, task, kids, kid>>
  BY <1>1, <1>2
<1>3. CASE MasterQueue
  <2>1. taskList # <<>> /\ Head(taskList) \in Node
    BY <1>3 DEF MasterQueue, ScanGoesOn
  <2>2. Head(taskList) \in ToSet(taskList)
    BY <2>1, InList, TailElements
  <2>3. ToSet(q') \subseteq Touchable
    <3>1. q' = Append(q, Head(taskList)) /\ q' \in Seq(Node)
      BY <1>3, <2>1 DEF MasterQueue
    <3>2. ASSUME NEW y \in ToSet(q') PROVE y = Head(taskList) \/ y \in ToSet(q)
      <4>1. Contains(q', y)
        BY <3>1, InList
      <4>2. y = Head(taskList) \/ Contains(q, y)
        BY <2>1, <3>1, <4>1, AppendElements
      <4> QED
        BY <4>2, InList
    <3> QED
      BY <2>2, <3>2
  <2> QED
    BY <1>1, <1>3, <2>3 DEF MasterQueue
<1>4. CASE MasterNotify
  <2>1. taskList # <<>> /\ Tail(taskList) \in Seq(Node)
    BY <1>4 DEF MasterNotify, Control
  <2>2. ToSet(Tail(taskList)) \subseteq ToSet(taskList)
    BY <2>1, InList, TailElements
  <2>3. \A w \in Worker : wpc'[w] = wpc[w] \/ wpc'[w] = "get"
    BY <1>4 DEF MasterNotify, WakeOne, Asleep
  <2> QED
    BY <1>1, <1>4, <2>2, <2>3 DEF MasterNotify, Working
<1>5. CASE MasterDrain
  <2>1. \A w \in Worker : wpc'[w] = wpc[w] \/ wpc'[w] = "get"
    BY <1>5 DEF MasterDrain
  <2> QED
    BY <1>1, <1>5, <2>1 DEF MasterDrain, Working
<1> QED
  BY <1>2, <1>3, <1>4, <1>5
  DEF MasterStep, MasterCheck, MasterLock, MasterUnlock, MasterFinish,
      MasterDrained, MasterReturn

LEMMA TouchableWorker ==
    ASSUME TypeInv, ListHasNoDuplicates, OnlyTouchable, NEW w \in Worker,
           WorkerStep(w)
    PROVE  OnlyTouchable'
<1> USE DEF TypeInv, TypeOK, LocalsSet, OnlyTouchable, WorkerAt, workerVars,
            history, Working
<1>1. plan' = plan /\ Touchable' = Touchable
  BY DEF WorkerStep, WorkerCheck, WorkerPop, WorkerQuit, WorkerSleep,
         SpuriousWake, RecipeSucceeds, RecipeFails, WorkerRemove, ChildWaits,
         ChildReady, PromoteRemove, PromoteFront, WorkerLoop, Touchable, Tasks
<1>2. \A v : ToSet(Without(taskList, v)) \subseteq ToSet(taskList)
  BY WithoutElements, WithoutType, InList DEF ListHasNoDuplicates
<1>3. CASE WorkerCheck(w) \/ WorkerQuit(w) \/ WorkerSleep(w) \/ SpuriousWake(w)
  BY <1>1, <1>3 DEF WorkerCheck, WorkerQuit, WorkerSleep, SpuriousWake
<1>4. CASE WorkerPop(w)
  <2>1. q # <<>> /\ Head(q) \in Node /\ Tail(q) \in Seq(Node)
    BY <1>4 DEF WorkerPop
  <2>2. Head(q) \in ToSet(q) /\ ToSet(Tail(q)) \subseteq ToSet(q)
    BY <2>1, InList, TailElements
  <2>3. \A v \in Node : starts'[v] > 0 => starts[v] > 0 \/ v = Head(q)
    BY <1>4, <2>1 DEF WorkerPop
  <2> QED
    BY <1>1, <1>4, <2>2, <2>3 DEF WorkerPop
<1>5. CASE RecipeSucceeds(w) \/ RecipeFails(w)
  BY <1>1, <1>5 DEF RecipeSucceeds, RecipeFails
<1>6. CASE WorkerRemove(w)
  <2>1. task[w] \in Touchable
    BY <1>6 DEF WorkerRemove
  <2>2. Children(plan.edges, task[w]) \subseteq Touchable
    BY <2>1, ChildrenTouchable
  <2> QED
    BY <1>1, <1>2, <1>6, <2>1, <2>2 DEF WorkerRemove
<1>7. CASE ChildWaits(w)
  BY <1>1, <1>7 DEF ChildWaits
<1>8. CASE ChildReady(w)
  BY <1>1, <1>8 DEF ChildReady
<1>9. CASE PromoteRemove(w)
  BY <1>1, <1>2, <1>9 DEF PromoteRemove
<1>10. CASE PromoteFront(w)
  <2>1. kid[w] \in Touchable /\ kid[w] \in Node /\ taskList' = <<kid[w]>> \o taskList
    BY <1>10 DEF PromoteFront
  <2>2. taskList' \in Seq(Node)
    BY <2>1, ConcatProperties
  <2>3. ASSUME NEW y \in ToSet(taskList') PROVE y = kid[w] \/ y \in ToSet(taskList)
    <3>1. Contains(taskList', y)
      BY <2>2, InList
    <3>2. y = kid[w] \/ Contains(taskList, y)
      BY <2>1, <3>1, FrontElements
    <3> QED
      BY <3>2, InList
  <2> QED
    BY <1>1, <1>10, <2>3 DEF PromoteFront
<1>11. CASE WorkerLoop(w)
  BY <1>1, <1>11 DEF WorkerLoop
<1> QED
  BY <1>3, <1>4, <1>5, <1>6, <1>7, <1>8, <1>9, <1>10, <1>11 DEF WorkerStep

\* Nothing but the outdated targets of the request and nodes nobody asked for
\* gets near a worker.
LEMMA TouchableAlways == Spec => []OnlyTouchable
<1>1. Init => OnlyTouchable
  <2> SUFFICES ASSUME Init PROVE OnlyTouchable
    OBVIOUS
  <2>1. plan \in Start /\ taskList = plan.tasks
    BY DEF Init
  <2>2. plan.tasks \in Seq(Node)
    BY <2>1, PlanFacts
  <2>3. ToSet(taskList) \subseteq Touchable
    BY <2>1, <2>2, InList DEF Touchable, Tasks, Contains
  <2>4. ToSet(q) = {}
    BY DEF Init, ToSet
  <2> QED
    BY <2>3, <2>4 DEF Init, OnlyTouchable, Working
<1>2. TypeInv /\ Control /\ ListHasNoDuplicates /\ OnlyTouchable /\ [Next]_vars
        => OnlyTouchable'
  <2> SUFFICES ASSUME TypeInv, Control, ListHasNoDuplicates, OnlyTouchable,
                      [Next]_vars
               PROVE  OnlyTouchable'
    OBVIOUS
  <2>1. CASE MasterStep
    BY <2>1, TouchableMaster
  <2>2. ASSUME NEW w \in Worker, WorkerStep(w) PROVE OnlyTouchable'
    BY <2>2, TouchableWorker
  <2>3. CASE UNCHANGED vars
    BY <2>3 DEF vars, masterVars, workerVars, history, OnlyTouchable,
                Touchable, Tasks
  <2> QED
    BY <2>1, <2>2, <2>3 DEF Next, Terminated
<1> QED
  BY <1>1, <1>2, Base, ListSafety, PTL DEF Spec

\* For every graph, request, number of workers and content of the counters the
\* preprocessing left uninitialised: no up-to-date target of the request is
\* ever handed to a worker.
THEOREM UpToDateSafety == Spec => []UpToDateNeverRun
<1>1. TypeInv /\ OnlyTouchable => UpToDateNeverRun
  <2> SUFFICES ASSUME TypeInv, OnlyTouchable, NEW v \in plan.asked \ Tasks
               PROVE  ~HandedOut(v)
    BY DEF UpToDateNeverRun
  <2>1. v \in Node /\ v \notin Touchable
    BY PlanFacts DEF TypeInv, Touchable
  <2> QED
    BY <2>1, InList DEF TypeInv, TypeOK, OnlyTouchable, HandedOut
<1> QED
  BY <1>1, Base, TouchableAlways, PTL
=============================================================================
