----------------------------- MODULE MemoryProofs -----------------------------
(***************************************************************************)
(* What Memory guarantees for every set of threads, processes, memories,   *)
(* contents and policies, and every bound.                                 *)
(*                                                                         *)
(* The argument has two strands.  What a command has checked inside the    *)
(* gate stays true until it writes, because only one command is inside and *)
(* the policy cannot change meanwhile.  What a client knows of a record    *)
(* stays true of the generation it knows, because every change of a record *)
(* takes the next generation.                                              *)
(***************************************************************************)
EXTENDS Memory, TLAPS

\* The gate admits one thread, and it is where it should be.
OwnerInv ==
    /\ \A t \in Threads : t \in owners <=> pc[t] \in Gated
    /\ \A t, u \in owners : t = u

Evaluated == {"prepared"} \cup Gated

\* What the command, the receipt and the file of a thread can be.
TaskInv ==
    \A t \in Threads :
        /\ pc[t] # "idle" => task[t].op \in Operations /\ task[t].id \in Ids
        /\ pc[t] = "asked" => task[t].op # "submit"
        /\ pc[t] = "prepared" => task[t].op # "retire"
        /\ pc[t] \in Evaluated /\ task[t].op # "retire" =>
             task[t].policy \in Permissive
        /\ pc[t] \in Evaluated /\ task[t].op \in {"submit", "supersede", "edit"} =>
             task[t].content \in Contents
        /\ pc[t] = "creating" =>
             /\ Creates(t)
             /\ task[t].file \in Ids
             /\ rec[task[t].file].state = "torn"
        /\ pc[t] = "replacing" => ~Creates(t) /\ MayReplace(t)

\* What a client knows of the record it names.
LookInv ==
    \A t \in Threads : pc[t] # "idle" /\ task[t].op # "submit" =>
        /\ task[t].id \in Written
        /\ task[t].generation <= rec[task[t].id].generation
        /\ task[t].generation = rec[task[t].id].generation =>
             task[t].reviewed = rec[task[t].id].content

\* What the checks made inside the gate have established.
AdmittedInv ==
    \A t \in Threads : pc[t] \in Gated =>
        /\ task[t].op # "retire" => task[t].policy = policy
        /\ task[t].op \in {"edit", "promote"} => rec[task[t].id].state = "candidate"
        /\ task[t].op = "retire" => rec[task[t].id].state # "retired"
        /\ task[t].op = "supersede" =>
             /\ rec[task[t].id].accepted
             /\ \A j \in Written : rec[j].supersedes # task[t].id

IInv ==
    /\ TypeOK
    /\ OwnerInv
    /\ TaskInv
    /\ LookInv
    /\ AdmittedInv
    /\ OneSuccessor

\* Whoever is inside the gate keeps every other thread and the policy out.
LEMMA AloneInside ==
    ASSUME IInv, NEW t \in Threads, pc[t] \in Gated
    PROVE  owners = {t} /\ \A u \in Threads : pc[u] \in Gated => u = t
  BY DEF IInv, OwnerInv, TypeOK

\* A command that is refused, or fails, only leaves.
LEMMA RefuseIInv ==
    ASSUME IInv, NEW t \in Threads, Refuse(t), owners' = owners \ {t},
           UNCHANGED <<rec, leftover, policy, shadowed>>
    PROVE  IInv'
<1> USE DEF IInv, Refuse, Goto
<1>1. TypeOK'
  BY DEF TypeOK, PCs, Tasks, NoTask
<1>2. OwnerInv'
  BY DEF TypeOK, OwnerInv, Gated
<1>3. TaskInv'
  BY DEF TypeOK, TaskInv, Evaluated, Gated, Creates, MayReplace
<1>4. LookInv'
  BY DEF TypeOK, LookInv, Written
<1>5. AdmittedInv'
  BY DEF TypeOK, AdmittedInv, Gated, Written
<1>6. OneSuccessor'
  BY DEF OneSuccessor, Written
<1> QED
  BY <1>1, <1>2, <1>3, <1>4, <1>5, <1>6 DEF IInv

LEMMA AskIInv ==
    ASSUME IInv, NEW t \in Threads, Ask(t) PROVE IInv'
<1> USE DEF IInv, Ask, Goto
<1>1. PICK op \in Operations \ {"submit"}, i \in Written :
         task' = [task EXCEPT ![t] = [NoTask EXCEPT !.op = op, !.id = i,
                                        !.generation = rec[i].generation,
                                        !.reviewed = rec[i].content]]
  OBVIOUS
<1>2. task'[t].op = op /\ task'[t].id = i /\ task'[t].generation = rec[i].generation
        /\ task'[t].reviewed = rec[i].content
  BY <1>1 DEF TypeOK, NoTask
<1>3. i \in Ids /\ rec[i] \in Records
  BY DEF Written, TypeOK
<1>4. TypeOK'
  BY <1>1, <1>3 DEF TypeOK, PCs, Tasks, NoTask, Records
<1>5. OwnerInv'
  BY DEF TypeOK, OwnerInv, Gated
<1>6. TaskInv'
  BY <1>1, <1>2, <1>3 DEF TypeOK, TaskInv, Evaluated, Gated, Creates, MayReplace
<1>7. LookInv'
  BY <1>1, <1>2, <1>3 DEF TypeOK, LookInv, Written, Records
<1>8. AdmittedInv'
  BY <1>1 DEF TypeOK, AdmittedInv, Gated, Written
<1>9. OneSuccessor'
  BY DEF OneSuccessor, Written
<1> QED
  BY <1>4, <1>5, <1>6, <1>7, <1>8, <1>9 DEF IInv

LEMMA SubmitIInv ==
    ASSUME IInv, NEW t \in Threads, Submit(t) PROVE IInv'
<1> USE DEF IInv, Submit, Goto, Evaluates
<1>1. PICK i \in Ids, c \in Contents :
         task' = [task EXCEPT ![t] = [NoTask EXCEPT !.op = "submit", !.id = i,
                                        !.content = c, !.policy = policy]]
  OBVIOUS
<1>2. task'[t].op = "submit" /\ task'[t].id = i /\ task'[t].content = c
        /\ task'[t].policy = policy
  BY <1>1 DEF TypeOK, NoTask
<1>3. TypeOK'
  BY <1>1 DEF TypeOK, PCs, Tasks, NoTask, Operations
<1>4. OwnerInv'
  BY DEF TypeOK, OwnerInv, Gated
<1>5. TaskInv'
  BY <1>1, <1>2
  DEF TypeOK, TaskInv, Evaluated, Gated, Creates, MayReplace, Operations
<1>6. LookInv'
  BY <1>1, <1>2 DEF TypeOK, LookInv, Written
<1>7. AdmittedInv'
  BY <1>1 DEF TypeOK, AdmittedInv, Gated, Written
<1>8. OneSuccessor'
  BY DEF OneSuccessor, Written
<1> QED
  BY <1>3, <1>4, <1>5, <1>6, <1>7, <1>8 DEF IInv

LEMMA PrepareIInv ==
    ASSUME IInv, NEW t \in Threads, Prepare(t) PROVE IInv'
<1> USE DEF IInv, Goto
<1>1. CASE Refuse(t)
  BY <1>1, RefuseIInv DEF Prepare, OwnerInv, Gated, TypeOK
<1>2. CASE ~Refuse(t)
  <2>1. pc[t] = "asked" /\ task[t].op # "retire" /\ policy \in Permissive
          /\ pc' = [pc EXCEPT ![t] = "prepared"]
          /\ UNCHANGED <<rec, leftover, policy, shadowed, owners>>
    BY <1>2 DEF Prepare, Evaluates
  <2>2. PICK c \in Proposed(t) :
           task' = [task EXCEPT ![t].content = c, ![t].policy = policy]
    BY <1>2 DEF Prepare
  <2>3. task'[t].op = task[t].op /\ task'[t].id = task[t].id
          /\ task'[t].generation = task[t].generation
          /\ task'[t].reviewed = task[t].reviewed
          /\ task'[t].content = c /\ task'[t].policy = policy
    BY <2>2 DEF TypeOK, Tasks
  <2>4. c \in Contents \cup {None}
    BY <2>1 DEF Proposed, TypeOK, TaskInv, Records
  <2>5. TypeOK'
    <3>1. task' = [task EXCEPT ![t] = [task[t] EXCEPT !.content = c, !.policy = policy]]
      BY <2>2 DEF TypeOK
    <3>2. [task[t] EXCEPT !.content = c, !.policy = policy] \in Tasks
      BY <2>4 DEF TypeOK, Tasks
    <3>3. task' \in [Threads -> Tasks]
      BY <3>1, <3>2 DEF TypeOK
    <3> QED
      BY <2>1, <3>3 DEF TypeOK, PCs
  <2>6. OwnerInv'
    BY <2>1 DEF TypeOK, OwnerInv, Gated
  <2>7. TaskInv'
    BY <2>1, <2>2, <2>3 DEF TypeOK, TaskInv, Evaluated, Gated, Creates, MayReplace, Proposed
  <2>8. LookInv'
    BY <2>1, <2>2, <2>3 DEF TypeOK, LookInv, Written
  <2>9. AdmittedInv'
    BY <2>1, <2>2 DEF TypeOK, AdmittedInv, Gated, Written
  <2>10. OneSuccessor'
    BY <2>1 DEF OneSuccessor, Written
  <2> QED
    BY <2>5, <2>6, <2>7, <2>8, <2>9, <2>10 DEF IInv
<1> QED
  BY <1>1, <1>2

LEMMA AdmitIInv ==
    ASSUME IInv, NEW t \in Threads, Admit(t) PROVE IInv'
<1> USE DEF IInv, Goto
<1>1. CASE Gate!Unlocked /\ ~Admits(t) /\ Refuse(t) /\ UNCHANGED owners
  BY <1>1, RefuseIInv DEF Admit, Gate!Unlocked
<1>2. CASE EnterGate(t) /\ Admits(t) /\ Goto(t, "admitted") /\ UNCHANGED task
  <2> USE <1>2
  <2>1. owners = {} /\ owners' = {t}
    BY DEF EnterGate, Gate!AcquireExclusive, Gate!Unlocked
  <2>2. UNCHANGED <<rec, leftover, policy, shadowed, task>> /\ pc' = [pc EXCEPT ![t] = "admitted"]
    BY DEF Admit
  <2>3. pc[t] = "prepared" \/ (pc[t] = "asked" /\ task[t].op = "retire")
    <3>1. AtGate(t)
      BY DEF Admit
    <3> QED
      BY <3>1 DEF AtGate
  <2>4. TypeOK'
    BY <2>1, <2>2 DEF TypeOK, PCs
  <2>5. OwnerInv'
    BY <2>1, <2>2 DEF TypeOK, OwnerInv, Gated
  <2>6. TaskInv'
    BY <2>2, <2>3 DEF TypeOK, TaskInv, Evaluated, Gated, Creates, MayReplace
  <2>7. LookInv'
    BY <2>2, <2>3 DEF TypeOK, LookInv, Written
  <2>8. AdmittedInv'
    <3>1. \A u \in Threads : pc'[u] \in Gated => u = t
      BY <2>1, <2>2, <2>5 DEF OwnerInv, TypeOK, Gated
    <3>2. task[t].op \in Operations
      BY <2>3 DEF TaskInv
    <3>3. task[t].op # "retire" => task[t].policy = policy
      BY <3>2 DEF Admits, Operations, SubmitAdmits, EditAdmits, PromoteAdmits,
                  SupersedeAdmits, ReceiptIsCurrent
    <3>4. task[t].op \in {"edit", "promote"} => rec[task[t].id].state = "candidate"
      BY DEF Admits, EditAdmits, PromoteAdmits
    <3>5. task[t].op = "retire" => rec[task[t].id].state # "retired"
      BY DEF Admits, RetireAdmits
    <3>6. task[t].op = "supersede" =>
            /\ rec[task[t].id].accepted
            /\ \A j \in Written : rec[j].supersedes # task[t].id
      BY DEF Admits, SupersedeAdmits, Successors
    <3> QED
      BY <2>2, <3>1, <3>3, <3>4, <3>5, <3>6 DEF AdmittedInv, Written
  <2>9. OneSuccessor'
    BY <2>2 DEF OneSuccessor, Written
  <2> QED
    BY <2>4, <2>5, <2>6, <2>7, <2>8, <2>9 DEF IInv
<1> QED
  BY <1>1, <1>2 DEF Admit

\* Leaving the gate is a refusal as far as the records are concerned.
LEMMA LeaveIInv ==
    ASSUME IInv, NEW t \in Threads, Leave(t), UNCHANGED <<rec, leftover, policy, shadowed>>
    PROVE  IInv'
  BY RefuseIInv DEF Leave, Gate!ReleaseExclusive

LEMMA CreateIInv ==
    ASSUME IInv, NEW t \in Threads, Create(t) PROVE IInv'
<1> USE DEF IInv, Goto
<1>1. CASE Leave(t) /\ UNCHANGED rec
  BY <1>1, LeaveIInv DEF Create
<1>2. CASE \E i \in Targets(t) :
             /\ rec[i].state = "absent"
             /\ rec' = [rec EXCEPT ![i].state = "torn"]
             /\ task' = [task EXCEPT ![t].file = i]
             /\ Goto(t, "creating")
             /\ UNCHANGED owners
  <2>1. pc[t] = "admitted" /\ Creates(t) /\ UNCHANGED <<leftover, policy, shadowed>>
    BY DEF Create
  <2>2. PICK i \in Targets(t) :
             /\ rec[i].state = "absent"
             /\ rec' = [rec EXCEPT ![i].state = "torn"]
             /\ task' = [task EXCEPT ![t].file = i]
             /\ pc' = [pc EXCEPT ![t] = "creating"]
             /\ UNCHANGED owners
    BY <1>2
  <2>3. i \in Ids
    BY <2>1 DEF Targets, TaskInv
  <2>4. /\ rec'[i].state = "torn"
        /\ \A j \in Ids : j # i => rec'[j] = rec[j]
        /\ Written' = Written
        /\ i \notin Written
    BY <2>2, <2>3 DEF TypeOK, Records, Written
  <2>5. /\ \A u \in Threads : u # t => task'[u] = task[u]
        /\ task'[t] = [task[t] EXCEPT !.file = i]
        /\ task'[t].op = task[t].op /\ task'[t].id = task[t].id
        /\ task'[t].generation = task[t].generation
        /\ task'[t].reviewed = task[t].reviewed
        /\ task'[t].content = task[t].content /\ task'[t].policy = task[t].policy
        /\ task'[t].file = i
    BY <2>2 DEF TypeOK, Tasks
  <2>6. \A u \in Threads : pc[u] \in Gated => u = t
    BY <2>1, AloneInside DEF Gated
  <2>7. TypeOK'
    <3>1. [rec[i] EXCEPT !.state = "torn"] \in Records
      BY <2>2, <2>3 DEF TypeOK, Records, States
    <3>2. rec' \in [Ids -> Records]
      BY <2>2, <2>3, <3>1 DEF TypeOK
    <3>3. task' \in [Threads -> Tasks]
      BY <2>2, <2>3 DEF TypeOK, Tasks
    <3> QED
      BY <2>1, <2>2, <3>2, <3>3 DEF TypeOK, PCs
  <2>8. OwnerInv'
    BY <2>1, <2>2 DEF TypeOK, OwnerInv, Gated
  <2>9. TaskInv'
    <3> SUFFICES ASSUME NEW u \in Threads PROVE TaskInv!(u)'
      BY DEF TaskInv
    <3>1. CASE u = t
      BY <2>1, <2>2, <2>3, <2>4, <2>5, <3>1
      DEF TypeOK, TaskInv, Evaluated, Gated, Creates, MayReplace
    <3>2. CASE u # t
      BY <2>1, <2>2, <2>5, <2>6, <3>2
      DEF TypeOK, TaskInv, Evaluated, Gated, Creates, MayReplace
    <3> QED
      BY <3>1, <3>2
  <2>10. LookInv'
    BY <2>1, <2>2, <2>4, <2>5 DEF TypeOK, LookInv, Written
  <2>11. AdmittedInv'
    <3>1. \A u \in Threads : pc'[u] \in Gated => u = t
      BY <2>2, <2>6 DEF TypeOK, Gated
    <3>2. task[t].op = "supersede" =>
            /\ task[t].id \in Written /\ rec[task[t].id].accepted
            /\ \A j \in Written : rec[j].supersedes # task[t].id
      BY <2>1 DEF AdmittedInv, LookInv, Gated
    <3>3. task[t].op = "supersede" =>
            /\ rec'[task[t].id].accepted
            /\ \A j \in Written' : rec'[j].supersedes # task[t].id
      <4>1. \A j \in Written : rec'[j] = rec[j]
        BY <2>4 DEF Written
      <4> QED
        BY <2>4, <3>2, <4>1
    <3>4. task[t].op \in {"submit", "supersede"} /\ task'[t].policy = policy'
      BY <2>1, <2>5 DEF Creates, AdmittedInv, Gated
    <3> QED
      BY <2>5, <3>1, <3>3, <3>4 DEF AdmittedInv
  <2>12. OneSuccessor'
    BY <2>4 DEF OneSuccessor, Written
  <2> QED
    BY <2>7, <2>8, <2>9, <2>10, <2>11, <2>12 DEF IInv
<1> QED
  BY <1>1, <1>2 DEF Create

\* The record that Write(t) completes.
NewRecord(t) ==
    [state |-> "candidate", content |-> task[t].content, generation |-> 0,
     accepted |-> FALSE, receipt |-> task[t].policy,
     supersedes |-> IF task[t].op = "supersede" THEN task[t].id ELSE None]

\* A write completes a file that nobody could read, as a candidate, which
\* replaces nothing or a memory that was accepted and has no successor yet.
LEMMA WriteEffect ==
    ASSUME IInv, NEW t \in Threads, Write(t)
    PROVE  LET f == task[t].file
               new == NewRecord(t)
               prior == new.supersedes IN
           /\ pc[t] = "creating" /\ pc' = [pc EXCEPT ![t] = "idle"]
           /\ task' = [task EXCEPT ![t] = NoTask]
           /\ t \in owners /\ owners' = owners \ {t}
           /\ UNCHANGED <<leftover, policy, shadowed>>
           /\ f \in Ids /\ rec[f].state = "torn" /\ f \notin Written
           /\ new \in Records /\ rec' = [rec EXCEPT ![f] = new] /\ rec'[f] = new
           /\ new.content = task[t].content /\ task[t].content \in Contents
           /\ \A j \in Ids : j # f => rec'[j] = rec[j]
           /\ Written' = Written \cup {f}
           /\ prior \in Ids \cup {None}
           /\ prior # None => /\ prior \in Written /\ rec[prior].accepted
                              /\ \A j \in Written : rec[j].supersedes # prior
<1> USE DEF IInv
<1> DEFINE f == task[t].file
           new == NewRecord(t)
           prior == new.supersedes
<1>1. /\ pc[t] = "creating"
      /\ rec' = [rec EXCEPT ![f] = new]
      /\ pc' = [pc EXCEPT ![t] = "idle"] /\ task' = [task EXCEPT ![t] = NoTask]
      /\ t \in owners /\ owners' = owners \ {t}
      /\ UNCHANGED <<leftover, policy, shadowed>>
  BY DEF Write, Leave, Refuse, Goto, NewRecord, Gate!ReleaseExclusive
<1>2. /\ f \in Ids /\ rec[f].state = "torn" /\ task[t].content \in Contents
      /\ task[t].id \in Ids
  BY <1>1 DEF TaskInv, Creates, Evaluated, Gated
<1>3. task[t].op = "supersede" =>
        /\ task[t].id \in Written /\ rec[task[t].id].accepted
        /\ \A j \in Written : rec[j].supersedes # task[t].id
  BY <1>1 DEF AdmittedInv, LookInv, Gated
<1>4. prior = IF task[t].op = "supersede" THEN task[t].id ELSE None
  BY DEF NewRecord
<1>5. new \in Records /\ new.state = "candidate" /\ new.content = task[t].content
  <2>1. task[t].policy \in Policies \cup {None}
    BY DEF TypeOK, Tasks
  <2> QED
    BY <1>2, <1>4, <2>1 DEF NewRecord, Records, States
<1> HIDE DEF new
<1>6. /\ rec'[f] = new
      /\ \A j \in Ids : j # f => rec'[j] = rec[j]
      /\ Written' = Written \cup {f}
      /\ f \notin Written
  BY <1>1, <1>2, <1>5 DEF TypeOK, Written
<1> QED
  BY <1>1, <1>2, <1>3, <1>4, <1>5, <1>6 DEF new

LEMMA WriteIInv ==
    ASSUME IInv, NEW t \in Threads, Write(t) PROVE IInv'
<1> USE DEF IInv
<1> DEFINE f == task[t].file
           new == NewRecord(t)
           prior == new.supersedes
<1>1. /\ pc[t] = "creating"
      /\ pc' = [pc EXCEPT ![t] = "idle"] /\ task' = [task EXCEPT ![t] = NoTask]
      /\ t \in owners /\ owners' = owners \ {t}
      /\ UNCHANGED <<leftover, policy, shadowed>>
      /\ f \in Ids /\ f \notin Written /\ new \in Records
      /\ rec' = [rec EXCEPT ![f] = new]
  BY WriteEffect
<1>2. prior # None => /\ prior \in Written /\ rec[prior].accepted
                      /\ \A j \in Written : rec[j].supersedes # prior
  BY WriteEffect
<1>4. /\ rec'[f] = new
      /\ \A j \in Ids : j # f => rec'[j] = rec[j]
      /\ Written' = Written \cup {f}
  BY WriteEffect
<1> HIDE DEF new, f
<1>5. \A u \in Threads : u # t => pc'[u] = pc[u] /\ task'[u] = task[u] /\ pc[u] \notin Gated
  BY <1>1, AloneInside DEF TypeOK, Gated
<1>6. pc'[t] = "idle"
  BY <1>1 DEF TypeOK
<1>7. TypeOK'
  <2>1. NoTask \in Tasks
    BY DEF NoTask, Tasks
  <2> QED
    BY <1>1, <2>1 DEF TypeOK, PCs
<1>8. OwnerInv'
  BY <1>1, <1>5, <1>6 DEF TypeOK, OwnerInv, Gated
<1>9. TaskInv'
  BY <1>5, <1>6 DEF TaskInv, Evaluated, Gated, Creates, MayReplace
<1>10. LookInv'
  <2>1. \A j \in Written : j \in Written' /\ rec'[j] = rec[j]
    BY <1>1, <1>4 DEF Written
  <2> QED
    BY <1>5, <1>6, <2>1 DEF LookInv
<1>11. AdmittedInv'
  BY <1>5, <1>6 DEF AdmittedInv, Gated
<1>12. OneSuccessor'
  <2>1. \A i \in Written : rec[i].supersedes = prior => prior = None
    BY <1>2
  <2>2. \A i \in Written : rec'[i] = rec[i]
    BY <1>1, <1>4 DEF Written
  <2>3. \A i \in Written : rec[i].supersedes # None =>
          rec[i].supersedes \in Written /\ rec[rec[i].supersedes].accepted
    BY DEF OneSuccessor
  <2>4. \A i, j \in Written' :
          rec'[i].supersedes = rec'[j].supersedes /\ rec'[i].supersedes # None => i = j
    BY <1>1, <1>4, <2>1, <2>2 DEF OneSuccessor
  <2>5. \A i \in Written' : rec'[i].supersedes # None =>
          rec'[i].supersedes \in Written' /\ rec'[rec'[i].supersedes].accepted
    BY <1>1, <1>2, <1>4, <2>2, <2>3
  <2> QED
    BY <2>4, <2>5 DEF OneSuccessor
<1> QED
  BY <1>7, <1>8, <1>9, <1>10, <1>11, <1>12 DEF IInv

LEMMA StartReplaceIInv ==
    ASSUME IInv, NEW t \in Threads, StartReplace(t) PROVE IInv'
<1> USE DEF IInv, Goto
<1>1. CASE ~MayReplace(t) /\ Leave(t)
  BY <1>1, LeaveIInv DEF StartReplace
<1>2. CASE MayReplace(t) /\ Goto(t, "replacing") /\ UNCHANGED <<owners, task>>
  <2>1. /\ pc[t] = "admitted" /\ ~Creates(t) /\ MayReplace(t)
        /\ pc' = [pc EXCEPT ![t] = "replacing"]
        /\ UNCHANGED <<rec, leftover, policy, shadowed, owners, task>>
    BY <1>2 DEF StartReplace
  <2>2. TypeOK'
    BY <2>1 DEF TypeOK, PCs
  <2>3. OwnerInv'
    BY <2>1 DEF TypeOK, OwnerInv, Gated
  <2>4. TaskInv'
    BY <2>1 DEF TypeOK, TaskInv, Evaluated, Gated, Creates, MayReplace
  <2>5. LookInv'
    BY <2>1 DEF TypeOK, LookInv, Written
  <2>6. AdmittedInv'
    BY <2>1 DEF TypeOK, AdmittedInv, Gated, Written
  <2>7. OneSuccessor'
    BY <2>1 DEF OneSuccessor, Written
  <2> QED
    BY <2>2, <2>3, <2>4, <2>5, <2>6, <2>7 DEF IInv
<1> QED
  BY <1>1, <1>2 DEF StartReplace

\* What an update does to the record it names, and to nothing else.
LEMMA ReplaceEffect ==
    ASSUME IInv, NEW t \in Threads, Replace(t)
    PROVE  LET i == task[t].id
               old == rec[i]
               new == rec'[i] IN
           /\ pc[t] = "replacing" /\ pc' = [pc EXCEPT ![t] = "idle"]
           /\ task' = [task EXCEPT ![t] = NoTask]
           /\ t \in owners /\ owners' = owners \ {t}
           /\ UNCHANGED <<leftover, policy, shadowed>>
           /\ i \in Written /\ Written' = Written
           /\ rec' = [rec EXCEPT ![i] = new] /\ new \in Records
           /\ old.generation = task[t].generation
           /\ new.generation = old.generation + 1
           /\ new.supersedes = old.supersedes
           /\ old.accepted => new.accepted
           /\ \/ /\ task[t].op = "edit" /\ old.state = "candidate"
                 /\ new.state = "candidate" /\ new.accepted = old.accepted
                 /\ new.content = task[t].content
              \/ /\ task[t].op = "promote" /\ old.state = "candidate"
                 /\ new.state = "accepted" /\ new.accepted
                 /\ new.content = old.content
              \/ /\ task[t].op = "retire" /\ old.state # "retired"
                 /\ new.state = "retired" /\ new.accepted = old.accepted
                 /\ new.content = old.content
<1> USE DEF IInv
<1> DEFINE i == task[t].id
           old == rec[i]
           new == [Updated(t, old) EXCEPT !.generation = task[t].generation + 1]
<1>1. /\ pc[t] = "replacing" /\ pc' = [pc EXCEPT ![t] = "idle"]
      /\ task' = [task EXCEPT ![t] = NoTask]
      /\ t \in owners /\ owners' = owners \ {t}
      /\ UNCHANGED <<leftover, policy, shadowed>>
      /\ rec' = [rec EXCEPT ![i] = new]
  BY DEF Replace, Leave, Refuse, Goto, Gate!ReleaseExclusive
<1>2. /\ i \in Ids /\ task[t].op \in Operations /\ ~Creates(t)
      /\ old.generation = task[t].generation
      /\ task[t].op = "edit" => task[t].content \in Contents
  BY <1>1 DEF TaskInv, MayReplace, Evaluated, Gated
<1>3. task[t].op \in {"edit", "promote", "retire"}
  BY <1>2 DEF Operations, Creates
<1>4. i \in Written
  BY <1>1, <1>3 DEF LookInv
<1>5. /\ old \in Records /\ task[t].generation \in Nat
      /\ task[t].policy \in Policies \cup {None}
      /\ old.state \in {"candidate", "accepted", "retired"}
  BY <1>2, <1>4 DEF TypeOK, Tasks, Written, Records, States
<1>6. /\ task[t].op \in {"edit", "promote"} => old.state = "candidate"
      /\ task[t].op = "retire" => old.state # "retired"
  BY <1>1 DEF AdmittedInv, Gated
<1>7. /\ new \in Records /\ new.generation = old.generation + 1
      /\ new.supersedes = old.supersedes
      /\ old.accepted => new.accepted
  <2> DEFINE mid == Updated(t, old)
  <2>1. mid \in Records /\ mid.supersedes = old.supersedes /\ (old.accepted => mid.accepted)
    <3>1. CASE task[t].op = "edit"
      BY <1>2, <1>5, <1>6, <3>1 DEF Updated, Edited, Records, States
    <3>2. CASE task[t].op = "promote"
      BY <1>2, <1>5, <1>6, <3>2 DEF Updated, Promoted, Records, States
    <3>3. CASE task[t].op = "retire"
      BY <1>2, <1>5, <1>6, <3>3 DEF Updated, Retired, Records, States
    <3> QED
      BY <1>3, <3>1, <3>2, <3>3
  <2> HIDE DEF mid
  <2>2. new = [mid EXCEPT !.generation = task[t].generation + 1]
    BY DEF mid
  <2> QED
    BY <1>2, <1>5, <2>1, <2>2 DEF Records
<1>8. \/ /\ task[t].op = "edit" /\ old.state = "candidate"
         /\ new.state = "candidate" /\ new.accepted = old.accepted
         /\ new.content = task[t].content
      \/ /\ task[t].op = "promote" /\ old.state = "candidate"
         /\ new.state = "accepted" /\ new.accepted
         /\ new.content = old.content
      \/ /\ task[t].op = "retire" /\ old.state # "retired"
         /\ new.state = "retired" /\ new.accepted = old.accepted
         /\ new.content = old.content
  <2>1. CASE task[t].op = "edit"
    BY <1>5, <1>6, <2>1 DEF Updated, Edited, Records
  <2>2. CASE task[t].op = "promote"
    BY <1>5, <1>6, <2>2 DEF Updated, Promoted, Records
  <2>3. CASE task[t].op = "retire"
    BY <1>5, <1>6, <2>3 DEF Updated, Retired, Records
  <2> QED
    BY <1>3, <2>1, <2>2, <2>3
<1> HIDE DEF new
<1>9. rec'[i] = new
  BY <1>1, <1>2 DEF TypeOK
<1>10. Written' = Written
  <2>1. new.state \notin {"absent", "torn"}
    BY <1>8
  <2>2. \A j \in Ids : j # i => rec'[j] = rec[j]
    BY <1>1 DEF TypeOK
  <2> QED
    BY <1>4, <1>9, <2>1, <2>2 DEF Written
<1> QED
  BY <1>1, <1>2, <1>4, <1>7, <1>8, <1>9, <1>10

LEMMA ReplaceIInv ==
    ASSUME IInv, NEW t \in Threads, Replace(t) PROVE IInv'
<1> USE DEF IInv
<1> DEFINE i == task[t].id
           new == rec'[i]
<1>1. /\ pc[t] = "replacing" /\ pc' = [pc EXCEPT ![t] = "idle"]
      /\ task' = [task EXCEPT ![t] = NoTask]
      /\ t \in owners /\ owners' = owners \ {t}
      /\ UNCHANGED <<leftover, policy, shadowed>>
      /\ i \in Written /\ Written' = Written
      /\ rec' = [rec EXCEPT ![i] = new] /\ new \in Records
      /\ new.generation = rec[i].generation + 1
      /\ new.supersedes = rec[i].supersedes
      /\ rec[i].accepted => new.accepted
  BY ReplaceEffect
<1>2. \A u \in Threads : u # t => pc'[u] = pc[u] /\ task'[u] = task[u] /\ pc[u] \notin Gated
  BY <1>1, AloneInside DEF TypeOK, Gated
<1>3. pc'[t] = "idle"
  BY <1>1 DEF TypeOK
<1>4. \A j \in Ids : j # i => rec'[j] = rec[j]
  BY <1>1 DEF TypeOK
<1> HIDE DEF new
<1>5. rec'[i] = new
  BY DEF new
<1>6. TypeOK'
  <2>1. NoTask \in Tasks
    BY DEF NoTask, Tasks
  <2> QED
    BY <1>1, <2>1 DEF TypeOK, PCs
<1>7. OwnerInv'
  BY <1>1, <1>2, <1>3 DEF TypeOK, OwnerInv, Gated
<1>8. TaskInv'
  BY <1>2, <1>3 DEF TaskInv, Evaluated, Gated, Creates, MayReplace
<1>9. LookInv'
  <2> SUFFICES ASSUME NEW u \in Threads PROVE LookInv!(u)'
    BY DEF LookInv
  <2>1. CASE u = t
    BY <1>3, <2>1
  <2>2. CASE u # t
    <3>1. task[u].generation \in Nat /\ rec[i].generation \in Nat
      BY <1>1 DEF TypeOK, Tasks, Records, Written
    <3>2. CASE task[u].id = i
      BY <1>1, <1>2, <1>5, <2>2, <3>1, <3>2 DEF LookInv
    <3>3. CASE task[u].id # i
      BY <1>1, <1>2, <1>4, <2>2, <3>3 DEF LookInv, Written
    <3> QED
      BY <3>2, <3>3
  <2> QED
    BY <2>1, <2>2
<1>10. AdmittedInv'
  BY <1>2, <1>3 DEF AdmittedInv, Gated
<1>11. OneSuccessor'
  <2>1. \A j \in Written : /\ rec'[j].supersedes = rec[j].supersedes
                           /\ rec[j].accepted => rec'[j].accepted
    BY <1>1, <1>4, <1>5 DEF Written
  <2> QED
    BY <1>1, <2>1 DEF OneSuccessor
<1> QED
  BY <1>6, <1>7, <1>8, <1>9, <1>10, <1>11 DEF IInv

LEMMA ChangePolicyIInv ==
    ASSUME IInv, ChangePolicy PROVE IInv'
<1> USE DEF IInv, ChangePolicy, Gate!Unlocked
<1>1. \A t \in Threads : pc[t] \notin Gated
  BY DEF OwnerInv
<1>2. policy' \in Policies /\ UNCHANGED <<rec, leftover, shadowed, owners, pc, task>>
  OBVIOUS
<1>3. TypeOK' /\ OwnerInv'
  BY <1>2 DEF TypeOK, OwnerInv
<1>4. TaskInv' /\ LookInv'
  BY <1>2 DEF TaskInv, LookInv, Written, Creates, MayReplace
<1>5. AdmittedInv'
  BY <1>1, <1>2 DEF AdmittedInv
<1>6. OneSuccessor'
  BY <1>2 DEF OneSuccessor, Written
<1> QED
  BY <1>3, <1>4, <1>5, <1>6 DEF IInv

LEMMA ShadowIInv ==
    ASSUME IInv, Shadow PROVE IInv'
<1> USE DEF IInv, Shadow
<1>1. shadowed' \subseteq Policies /\ UNCHANGED <<rec, leftover, policy, owners, pc, task>>
  BY PolicyAssumption DEF TypeOK
<1>2. TypeOK' /\ OwnerInv' /\ OneSuccessor'
  BY <1>1 DEF TypeOK, OwnerInv, OneSuccessor, Written
<1>3. TaskInv' /\ LookInv' /\ AdmittedInv'
  BY <1>1 DEF TaskInv, LookInv, AdmittedInv, Written, Creates, MayReplace
<1> QED
  BY <1>2, <1>3 DEF IInv

LEMMA CrashIInv ==
    ASSUME IInv, NEW p \in Procs, Crash(p) PROVE IInv'
<1> USE DEF IInv
<1>1. /\ owners' = owners \ {t \in Threads : ProcOf[t] = p}
      /\ UNCHANGED <<rec, policy, shadowed>>
      /\ leftover' \in BOOLEAN
      /\ pc' = [t \in Threads |-> IF ProcOf[t] = p THEN "idle" ELSE pc[t]]
      /\ task' = [t \in Threads |-> IF ProcOf[t] = p THEN NoTask ELSE task[t]]
  BY DEF Crash, Gate!Abandon, Gate!ThreadsOf, TypeOK
<1>2. TypeOK'
  <2>1. NoTask \in Tasks
    BY DEF NoTask, Tasks
  <2> QED
    BY <1>1, <2>1 DEF TypeOK, PCs
<1>3. OwnerInv'
  BY <1>1 DEF TypeOK, OwnerInv, Gated
<1>4. TaskInv'
  BY <1>1 DEF TypeOK, TaskInv, Evaluated, Gated, Creates, MayReplace
<1>5. LookInv'
  BY <1>1 DEF TypeOK, LookInv, Written
<1>6. AdmittedInv'
  BY <1>1 DEF TypeOK, AdmittedInv, Gated, Written
<1>7. OneSuccessor'
  BY <1>1 DEF OneSuccessor, Written
<1> QED
  BY <1>2, <1>3, <1>4, <1>5, <1>6, <1>7 DEF IInv

LEMMA StutterIInv == ASSUME IInv, UNCHANGED vars PROVE IInv'
<1>1. UNCHANGED <<rec, leftover, policy, shadowed, owners, pc, task>>
  BY DEF vars
<1>2. TypeOK' /\ OwnerInv' /\ OneSuccessor'
  BY <1>1 DEF IInv, TypeOK, OwnerInv, OneSuccessor, Written
<1>3. TaskInv' /\ LookInv' /\ AdmittedInv'
  BY <1>1 DEF IInv, TaskInv, LookInv, AdmittedInv, Written, Creates, MayReplace
<1> QED
  BY <1>2, <1>3 DEF IInv

LEMMA InitIInv == Init => IInv
<1> SUFFICES ASSUME Init PROVE IInv
  OBVIOUS
<1>1. NoRecord \in Records /\ NoTask \in Tasks
  BY DEF NoRecord, NoTask, Records, Tasks, States
<1>2. TypeOK
  BY <1>1 DEF Init, TypeOK, PCs
<1>3. Written = {}
  BY DEF Init, Written, NoRecord
<1>4. OwnerInv /\ TaskInv /\ LookInv /\ AdmittedInv
  BY DEF Init, OwnerInv, TaskInv, LookInv, AdmittedInv, Gated, Evaluated
<1>5. OneSuccessor
  BY <1>3 DEF OneSuccessor
<1> QED
  BY <1>2, <1>4, <1>5 DEF IInv

LEMMA NextIInv == IInv /\ [Next]_vars => IInv'
<1> SUFFICES ASSUME IInv, [Next]_vars PROVE IInv'
  OBVIOUS
<1>1. CASE UNCHANGED vars
  BY <1>1, StutterIInv
<1>2. ASSUME NEW t \in Threads, Ask(t) \/ Submit(t) \/ Prepare(t) \/ Admit(t)
      PROVE  IInv'
  BY <1>2, AskIInv, SubmitIInv, PrepareIInv, AdmitIInv
<1>3. ASSUME NEW t \in Threads, Create(t) \/ Write(t) \/ StartReplace(t) \/ Replace(t)
      PROVE  IInv'
  BY <1>3, CreateIInv, WriteIInv, StartReplaceIInv, ReplaceIInv
<1>4. ASSUME NEW t \in Threads, WriteFails(t) PROVE IInv'
  BY <1>4, LeaveIInv DEF WriteFails
<1>5. CASE ChangePolicy \/ Shadow
  BY <1>5, ChangePolicyIInv, ShadowIInv
<1>6. ASSUME NEW p \in Mortal, Crash(p) PROVE IInv'
  BY <1>6, CrashIInv, MortalAssumption
<1> QED
  BY <1>1, <1>2, <1>3, <1>4, <1>5, <1>6 DEF Next

\* The inductive invariant holds in every reachable state.
THEOREM Invariance == Spec => []IInv
  BY InitIInv, NextIInv, PTL DEF Spec

\* The variables keep their types, and every record is well formed.
THEOREM TypeCorrect == Spec => []TypeOK
<1>1. IInv => TypeOK
  BY DEF IInv
<1> QED
  BY <1>1, Invariance, PTL

\* No memory ever has two successors, or one that it was not accepted for.
THEOREM SuccessorsAreReserved == Spec => []OneSuccessor
<1>1. IInv => OneSuccessor
  BY DEF IInv
<1> QED
  BY <1>1, Invariance, PTL

-----------------------------------------------------------------------------
(* What a step does to the records.                                        *)

\* Only three actions touch the records.
LEMMA OnlyWriters ==
    ASSUME IInv, [Next]_vars
    PROVE  \/ UNCHANGED rec
           \/ \E t \in Threads : Create(t) \/ Write(t) \/ Replace(t)
  BY DEF Next, vars, Ask, Submit, Prepare, Admit, StartReplace, WriteFails,
         ChangePolicy, Shadow, Crash

\* Exclusive creation makes nothing readable and changes nothing that is.
LEMMA CreateEffect ==
    ASSUME IInv, NEW t \in Threads, Create(t)
    PROVE  /\ Written' = Written
           /\ \A i \in Ids : /\ i \in Written => rec'[i] = rec[i]
                             /\ rec'[i].content = rec[i].content
                             /\ rec'[i].supersedes = rec[i].supersedes
                             /\ rec'[i].accepted = rec[i].accepted
<1> USE DEF IInv
<1>1. CASE UNCHANGED rec
  BY <1>1 DEF Written
<1>2. CASE \E i \in Targets(t) : /\ rec[i].state = "absent"
                                 /\ rec' = [rec EXCEPT ![i].state = "torn"]
  <2>1. PICK i \in Targets(t) : /\ rec[i].state = "absent"
                                /\ rec' = [rec EXCEPT ![i].state = "torn"]
    BY <1>2
  <2>2. i \in Ids
    BY DEF Create, Targets, TaskInv
  <2>3. /\ rec'[i] = [rec[i] EXCEPT !.state = "torn"] /\ i \notin Written
        /\ \A j \in Ids : j # i => rec'[j] = rec[j]
    BY <2>1, <2>2 DEF TypeOK, Written
  <2>4. rec'[i].content = rec[i].content /\ rec'[i].supersedes = rec[i].supersedes
          /\ rec'[i].accepted = rec[i].accepted /\ rec'[i].state = "torn"
    BY <2>2, <2>3 DEF TypeOK, Records
  <2> QED
    BY <2>2, <2>3, <2>4 DEF Written
<1> QED
  BY <1>1, <1>2 DEF Create

\* A memory keeps its acceptance and its predecessor.
LEMMA RecordsStay ==
    ASSUME IInv, [Next]_vars, NEW i \in Written
    PROVE  /\ i \in Written'
           /\ rec'[i].supersedes = rec[i].supersedes
           /\ rec[i].accepted => rec'[i].accepted
<1>1. CASE UNCHANGED rec
  BY <1>1 DEF Written
<1>2. ASSUME NEW t \in Threads, Create(t)
      PROVE  /\ i \in Written'
             /\ rec'[i].supersedes = rec[i].supersedes
             /\ rec[i].accepted => rec'[i].accepted
  BY <1>2, CreateEffect DEF Written
<1>3. ASSUME NEW t \in Threads, Write(t)
      PROVE  /\ i \in Written'
             /\ rec'[i].supersedes = rec[i].supersedes
             /\ rec[i].accepted => rec'[i].accepted
  <2>1. /\ task[t].file \notin Written /\ Written' = Written \cup {task[t].file}
        /\ \A j \in Ids : j # task[t].file => rec'[j] = rec[j]
    BY <1>3, WriteEffect
  <2> QED
    BY <2>1 DEF Written
<1>4. ASSUME NEW t \in Threads, Replace(t)
      PROVE  /\ i \in Written'
             /\ rec'[i].supersedes = rec[i].supersedes
             /\ rec[i].accepted => rec'[i].accepted
  <2> DEFINE m == task[t].id
             new == rec'[m]
  <2>1. /\ Written' = Written
        /\ rec' = [rec EXCEPT ![m] = new]
        /\ new.supersedes = rec[m].supersedes
        /\ rec[m].accepted => new.accepted
    BY <1>4, ReplaceEffect
  <2>2. i # m => rec'[i] = rec[i]
    BY <2>1 DEF IInv, TypeOK, Written
  <2> QED
    BY <2>1, <2>2
<1> QED
  BY <1>1, <1>2, <1>3, <1>4, OnlyWriters

\* What an accepted successor has replaced stays replaced.
THEOREM CorrectionsStay == Spec => SupersededStaysHidden
<1>1. IInv /\ [Next]_vars => [\A i \in Ids : Superseded(i) => Superseded(i)']_vars
  BY RecordsStay DEF Superseded, Successors
<1> QED
  BY <1>1, Invariance, PTL DEF Spec, SupersededStaysHidden

\* A memory becomes accepted with the content that its reviewer saw.
LEMMA AcceptStep ==
    ASSUME IInv, [Next]_vars, NEW t \in Threads, NEW i \in Ids,
           ~rec[i].accepted, rec'[i].accepted, pc[t] = "replacing"
    PROVE  task[t].id = i /\ rec'[i].content = task[t].reviewed
<1>1. ASSUME NEW u \in Threads, Create(u) PROVE FALSE
  BY <1>1, CreateEffect
<1>2. ASSUME NEW u \in Threads, Write(u) PROVE FALSE
  BY <1>2, WriteEffect, AloneInside DEF Gated
<1>3. PICK u \in Threads : Replace(u)
  BY <1>1, <1>2, OnlyWriters
<1>4. u = t
  BY <1>3, ReplaceEffect, AloneInside DEF Gated
<1> DEFINE m == task[t].id
           new == rec'[m]
<1>5. /\ rec' = [rec EXCEPT ![m] = new] /\ m \in Written
      /\ rec[m].generation = task[t].generation
      /\ \/ new.accepted = rec[m].accepted
         \/ task[t].op = "promote" /\ new.content = rec[m].content
  BY <1>3, <1>4, ReplaceEffect
<1>6. i = m
  BY <1>5 DEF IInv, TypeOK
<1>7. task[t].op = "promote" /\ new.content = rec[m].content
  BY <1>5, <1>6
<1>8. task[t].reviewed = rec[m].content
  BY <1>5, <1>7 DEF IInv, LookInv
<1> QED
  BY <1>6, <1>7, <1>8

\* Nobody accepts a memory unseen, however long ago the reviewer looked.
THEOREM OnlyReviewedIsAccepted == Spec => AcceptedAsReviewed
<1>1. IInv /\ [Next]_vars =>
        [\A t \in Threads : \A i \in Ids :
           ~rec[i].accepted /\ rec'[i].accepted
             /\ pc[t] = "replacing" /\ pc'[t] = "idle"
           => task[t].id = i /\ rec'[i].content = task[t].reviewed]_vars
  BY AcceptStep
<1> QED
  BY <1>1, Invariance, PTL DEF Spec, AcceptedAsReviewed

\* What adds to what the store says was admitted by the policy in force.
LEMMA PolicyStep ==
    ASSUME IInv, [Next]_vars, NEW i \in Written',
           \/ i \notin Written
           \/ rec'[i].content # rec[i].content
           \/ rec'[i].accepted /\ ~rec[i].accepted
    PROVE  policy \in Permissive
<1>0. i \in Ids
  BY DEF Written
<1>1. CASE UNCHANGED rec
  BY <1>1 DEF Written
<1>2. ASSUME NEW t \in Threads, Create(t) PROVE FALSE
  BY <1>0, <1>2, CreateEffect
<1>3. ASSUME NEW t \in Threads, Write(t) PROVE policy \in Permissive
  <2>1. pc[t] = "creating"
    BY <1>3, WriteEffect
  <2>2. task[t].op # "retire"
    BY <2>1 DEF IInv, TaskInv, Creates
  <2> QED
    BY <2>1, <2>2 DEF IInv, TaskInv, AdmittedInv, Evaluated, Gated
<1>4. ASSUME NEW t \in Threads, Replace(t) PROVE policy \in Permissive
  <2> DEFINE m == task[t].id
             new == rec'[m]
  <2>1. /\ pc[t] = "replacing" /\ Written' = Written
        /\ rec' = [rec EXCEPT ![m] = new] /\ m \in Written
        /\ \/ task[t].op \in {"edit", "promote"}
           \/ new.accepted = rec[m].accepted /\ new.content = rec[m].content
    BY <1>4, ReplaceEffect
  <2>2. i = m
    BY <1>0, <2>1 DEF IInv, TypeOK
  <2>3. task[t].op \in {"edit", "promote"}
    BY <2>1, <2>2
  <2> QED
    BY <2>1, <2>3 DEF IInv, TaskInv, AdmittedInv, Evaluated, Gated
<1> QED
  BY <1>1, <1>2, <1>3, <1>4, OnlyWriters

\* The check and the write of a command are one under the policy.
THEOREM NothingSlipsPastThePolicy == Spec => WrittenUnderPolicy
<1>1. IInv /\ [Next]_vars =>
        [\A i \in Written' :
           i \notin Written \/ rec'[i].content # rec[i].content
              \/ (rec'[i].accepted /\ ~rec[i].accepted)
           => policy \in Permissive]_vars
  BY PolicyStep
<1> QED
  BY <1>1, Invariance, PTL DEF Spec, WrittenUnderPolicy

-----------------------------------------------------------------------------
(* The review process that the store implements.                           *)

LEMMA KnownIsWritten == ASSUME TypeOK PROVE Review!Known = Written
  BY DEF Review!Known, Written, TypeOK, Records, States

LEMMA InitMaps == Init => Review!ReviewInit
  BY DEF Init, NoRecord, Review!ReviewInit

\* A new record is a proposal.
LEMMA WriteMaps ==
    ASSUME IInv, NEW t \in Threads, Write(t) PROVE Review!ReviewNext
<1>1. PICK f \in Ids, new \in Records :
        /\ f = task[t].file /\ new = NewRecord(t) /\ f \notin Written
        /\ rec' = [rec EXCEPT ![f] = new]
        /\ new.content \in Contents
        /\ new.supersedes \in Ids \cup {None}
        /\ new.supersedes # None =>
             /\ new.supersedes \in Written /\ rec[new.supersedes].accepted
             /\ \A j \in Written : rec[j].supersedes # new.supersedes
  BY WriteEffect
<1> DEFINE prior == new.supersedes
<1>2. new.state = "candidate" /\ new.accepted = FALSE
  BY <1>1 DEF NewRecord
<1>3. rec \in [Ids -> Records] /\ Review!Known = Written
  BY KnownIsWritten DEF IInv, TypeOK
<1>4. ~rec[f].accepted /\ rec[f].state \notin {"candidate", "retired"}
  BY <1>1, <1>3 DEF Written, Records, States
<1>5. Review!Propose(f, new.content, prior)
  <2>1. {i \in Ids : rec'[i].state = "candidate"}
          = {i \in Ids : rec[i].state = "candidate"} \cup {f}
    BY <1>1, <1>2, <1>3
  <2>2. {i \in Ids : rec'[i].accepted} = {i \in Ids : rec[i].accepted}
    BY <1>1, <1>2, <1>3, <1>4
  <2>3. {i \in Ids : rec'[i].state = "retired"} = {i \in Ids : rec[i].state = "retired"}
    BY <1>1, <1>2, <1>3, <1>4
  <2>4. /\ [i \in Ids |-> rec'[i].content]
             = [[i \in Ids |-> rec[i].content] EXCEPT ![f] = new.content]
        /\ [i \in Ids |-> rec'[i].supersedes]
             = [[i \in Ids |-> rec[i].supersedes] EXCEPT ![f] = prior]
    BY <1>1, <1>3
  <2>5. /\ f \notin Review!Known
        /\ prior # None => /\ prior \in {i \in Ids : rec[i].accepted}
                           /\ \A k \in Review!Known :
                                [i \in Ids |-> rec[i].supersedes][k] # prior
    BY <1>1, <1>3 DEF Written
  <2> QED
    BY <2>1, <2>2, <2>3, <2>4, <2>5 DEF Review!Propose
<1> QED
  BY <1>1, <1>5 DEF Review!ReviewNext

\* An update revises a proposal, accepts it, or retires a memory.
LEMMA ReplaceMaps ==
    ASSUME IInv, NEW t \in Threads, Replace(t) PROVE Review!ReviewNext
<1>0. PICK m \in Ids : m = task[t].id
  BY ReplaceEffect DEF Written
<1> DEFINE old == rec[m]
           new == rec'[m]
<1>1. /\ m \in Written /\ rec' = [rec EXCEPT ![m] = new]
      /\ new \in Records /\ new.supersedes = old.supersedes
      /\ \/ /\ task[t].op = "edit" /\ old.state = "candidate"
            /\ new.state = "candidate" /\ new.accepted = old.accepted
            /\ new.content = task[t].content
         \/ /\ task[t].op = "promote" /\ old.state = "candidate"
            /\ new.state = "accepted" /\ new.accepted
            /\ new.content = old.content
         \/ /\ task[t].op = "retire" /\ old.state # "retired"
            /\ new.state = "retired" /\ new.accepted = old.accepted
            /\ new.content = old.content
  BY <1>0, ReplaceEffect
<1>2. m \in Ids /\ rec \in [Ids -> Records] /\ old.state \notin {"absent", "torn"}
  BY <1>1 DEF IInv, TypeOK, Written
<1>3. task[t].op = "edit" => task[t].content \in Contents
  BY ReplaceEffect DEF IInv, TaskInv, Evaluated, Gated
<1> HIDE DEF new
<1> DEFINE P(r) == {i \in Ids : r[i].state = "candidate"}
           A(r) == {i \in Ids : r[i].accepted}
           R(r) == {i \in Ids : r[i].state = "retired"}
           Says(r) == [i \in Ids |-> r[i].content]
           Prior(r) == [i \in Ids |-> r[i].supersedes]
<1>4. Prior(rec') = Prior(rec)
  BY <1>1, <1>2
<1>5. CASE task[t].op = "edit"
  <2>0. PICK c \in Contents : c = task[t].content
    BY <1>3, <1>5
  <2>1. P(rec') = P(rec) /\ A(rec') = A(rec) /\ R(rec') = R(rec) /\ m \in P(rec)
    BY <1>1, <1>2, <1>5
  <2>2. Says(rec') = [Says(rec) EXCEPT ![m] = c]
    BY <1>1, <1>2, <1>5, <2>0
  <2>3. Review!Revise(m, c)
    BY <1>4, <2>1, <2>2 DEF Review!Revise
  <2> QED
    BY <2>3 DEF Review!ReviewNext
<1>6. CASE task[t].op = "promote"
  <2>1. P(rec') = P(rec) \ {m} /\ A(rec') = A(rec) \cup {m} /\ R(rec') = R(rec) /\ m \in P(rec)
    BY <1>1, <1>2, <1>6
  <2>2. Says(rec') = Says(rec)
    BY <1>1, <1>2, <1>6
  <2>3. Review!Accept(m)
    BY <1>4, <2>1, <2>2 DEF Review!Accept
  <2> QED
    BY <1>2, <2>3 DEF Review!ReviewNext
<1>7. CASE task[t].op = "retire"
  <2>1. P(rec') = P(rec) \ {m} /\ A(rec') = A(rec) /\ R(rec') = R(rec) \cup {m}
    BY <1>1, <1>2, <1>7
  <2>2. Says(rec') = Says(rec)
    BY <1>1, <1>2, <1>7
  <2>3. m \in (P(rec) \cup A(rec)) \ R(rec)
    BY <1>1, <1>2, <1>7 DEF Records, States
  <2>4. Review!Retire(m)
    BY <1>4, <2>1, <2>2, <2>3 DEF Review!Retire
  <2> QED
    BY <1>2, <2>4 DEF Review!ReviewNext
<1> QED
  BY <1>1, <1>5, <1>6, <1>7

\* Every step is a step of the review or a stutter of it.
LEMMA StepMaps == IInv /\ [Next]_vars => [Review!ReviewNext]_(Review!reviewVars)
<1> SUFFICES ASSUME IInv, [Next]_vars
             PROVE  Review!ReviewNext \/ UNCHANGED Review!reviewVars
  OBVIOUS
<1>1. CASE UNCHANGED rec
  BY <1>1 DEF Review!reviewVars
<1>2. ASSUME NEW t \in Threads, Create(t) PROVE UNCHANGED Review!reviewVars
  <2>1. /\ {i \in Ids : rec'[i].state = "candidate"} = {i \in Ids : rec[i].state = "candidate"}
        /\ {i \in Ids : rec'[i].state = "retired"} = {i \in Ids : rec[i].state = "retired"}
    BY <1>2, CreateEffect DEF Written
  <2>2. /\ {i \in Ids : rec'[i].accepted} = {i \in Ids : rec[i].accepted}
        /\ [i \in Ids |-> rec'[i].content] = [i \in Ids |-> rec[i].content]
        /\ [i \in Ids |-> rec'[i].supersedes] = [i \in Ids |-> rec[i].supersedes]
    BY <1>2, CreateEffect
  <2> QED
    BY <2>1, <2>2 DEF Review!reviewVars
<1>3. ASSUME NEW t \in Threads, Write(t) \/ Replace(t) PROVE Review!ReviewNext
  BY <1>3, WriteMaps, ReplaceMaps
<1> QED
  BY <1>1, <1>2, <1>3, OnlyWriters

\* Files, receipts, generations, failures and crashes together are still the
\* review process that MemoryReview describes.
THEOREM MemoryImplementsReview == Spec => ImplementsReview
  BY InitMaps, Invariance, StepMaps, PTL DEF Spec, ImplementsReview, Review!ReviewSpec

-----------------------------------------------------------------------------
(* The chains of corrections.                                              *)

\* No set of records can replace only one another.
NoCircle ==
    \A S \in SUBSET Written : (\A i \in S : rec[i].supersedes \in S) => S = {}

LEMMA CircleStep ==
    ASSUME IInv, NoCircle, [Next]_vars PROVE NoCircle'
<1> SUFFICES ASSUME NEW S \in SUBSET Written', \A i \in S : rec'[i].supersedes \in S
             PROVE  S = {}
  BY DEF NoCircle
<1>1. CASE Written' = Written
  <2>1. \A i \in S : rec'[i].supersedes = rec[i].supersedes
    BY <1>1, RecordsStay
  <2> QED
    BY <1>1, <2>1 DEF NoCircle
<1>2. ASSUME NEW t \in Threads, Write(t) PROVE S = {}
  <2> DEFINE f == task[t].file
  <2>1. /\ f \notin Written /\ Written' = Written \cup {f}
        /\ rec'[f].supersedes = NewRecord(t).supersedes
    BY <1>2, WriteEffect
  <2>2. \A i \in Written : rec'[i].supersedes = rec[i].supersedes
    BY RecordsStay
  <2>3. \A i \in Written : rec[i].supersedes # f
    <3>1. \A i \in Written : rec[i].supersedes # None => rec[i].supersedes \in Written
      BY DEF IInv, OneSuccessor
    <3>2. f # None
      BY <1>2, NoneAssumption DEF IInv, TaskInv, Write
    <3> QED
      BY <2>1, <3>1, <3>2
  <2>4. rec'[f].supersedes # f
    <3>1. pc[t] = "creating"
      BY <1>2 DEF Write
    <3>2. CASE task[t].op = "supersede"
      BY <2>1, <3>1, <3>2 DEF IInv, LookInv, NewRecord
    <3>3. CASE task[t].op # "supersede"
      BY <2>1, <3>1, <3>3, NoneAssumption DEF IInv, TaskInv, NewRecord
    <3> QED
      BY <3>2, <3>3
  <2>5. S \ {f} \in SUBSET Written
    BY <2>1
  <2>6. \A i \in S \ {f} : rec[i].supersedes \in S \ {f}
    BY <2>2, <2>3, <2>5
  <2>7. S \ {f} = {}
    BY <2>5, <2>6 DEF NoCircle
  <2> HIDE DEF f
  <2> QED
    BY <2>4, <2>7
<1>3. ASSUME NEW t \in Threads, Create(t) \/ Replace(t) PROVE Written' = Written
  BY <1>3, CreateEffect, ReplaceEffect
<1>4. CASE UNCHANGED rec
  BY <1>1, <1>4 DEF Written
<1> QED
  BY <1>1, <1>2, <1>3, <1>4, OnlyWriters

\* Every memory corrects an older one or none at all, so that going back through
\* its corrections comes to an end: the code checks that a predecessor exists and
\* has no successor, never that the chain it lengthens is one (supersede,
\* memories.py:280-304).
THEOREM CorrectionsAreChains == Spec => []NoCircle
<1>1. Init => NoCircle
  <2>1. Init => Written = {}
    BY DEF Init, Written, NoRecord
  <2> QED
    BY <2>1 DEF NoCircle
<1>2. IInv /\ NoCircle /\ [Next]_vars => NoCircle'
  BY CircleStep
<1> QED
  BY <1>1, <1>2, Invariance, PTL DEF Spec

-----------------------------------------------------------------------------
(* What it takes to wedge the store.  A run shows that a record that is left*)
(* behind half-written, or a temporary file, makes every read fail and so   *)
(* every retirement.  An accepted memory whose receipt names a rule that no *)
(* longer loads does the same, without any failure; nothing else does.      *)

\* What a dead process or a full disk leaves in the directory.
Debris == leftover \/ \E i \in Ids : rec[i].state = "torn"

OnlyDebrisWedges == ~Debris /\ ReceiptsLoad => RemediationIsPossible

LEMMA WithoutDebris ==
    ASSUME IInv PROVE OnlyDebrisWedges
<1> SUFFICES ASSUME ~Debris, ReceiptsLoad, owners = {}, NEW i \in Written, rec[i].state # "retired"
             PROVE  RetireAdmits(i, rec[i].generation)
  BY DEF OnlyDebrisWedges, RemediationIsPossible
<1>1. \A t \in Threads : pc[t] # "replacing"
  BY DEF IInv, OwnerInv, Gated
<1>2. StoreReads
  BY <1>1 DEF StoreReads, Debris, IInv, OneSuccessor, TypeOK
<1> QED
  BY <1>2 DEF RetireAdmits, CanRead

\* Without debris, and if the receipts of the accepted memories still load, the
\* whole directory reads and a live memory can be retired (iter_records, retire
\* and _validate_historic_receipt, memories.py:306-357 and 476-479).
THEOREM OnlyDebrisIsInTheWay == Spec => []OnlyDebrisWedges
  BY WithoutDebris, Invariance, PTL

\* A file is half-written only while somebody is writing it.
Tidy ==
    /\ leftover = FALSE
    /\ \A i \in Ids : rec[i].state = "torn" =>
         \E t \in Threads : pc[t] = "creating" /\ task[t].file = i

LEMMA TidyStep ==
    ASSUME Mortal = {}, DiskMayFail = FALSE, IInv, Tidy, [Next]_vars PROVE Tidy'
<1>1. ASSUME NEW t \in Threads,
             Ask(t) \/ Submit(t) \/ Prepare(t) \/ Admit(t) \/ StartReplace(t)
                \/ (Create(t) /\ UNCHANGED rec)
      PROVE  Tidy'
  <2>1. pc[t] # "creating" /\ UNCHANGED <<rec, leftover>>
    BY <1>1 DEF Ask, Submit, Prepare, Admit, AtGate, StartReplace, Create
  <2>2. \A u \in Threads : u # t => pc'[u] = pc[u] /\ task'[u] = task[u]
    <3>0. DOMAIN pc = Threads /\ DOMAIN task = Threads
      BY DEF IInv, TypeOK
    <3>1. CASE Ask(t) \/ Submit(t) \/ Prepare(t)
      BY <3>0, <3>1 DEF Ask, Submit, Prepare, Goto, Refuse
    <3>2. CASE Admit(t) \/ StartReplace(t) \/ (Create(t) /\ UNCHANGED rec)
      BY <3>0, <3>2 DEF Admit, StartReplace, Create, Leave, Goto, Refuse
    <3> QED
      BY <1>1, <3>1, <3>2
  <2> QED
    BY <2>1, <2>2 DEF Tidy
<1>2. ASSUME NEW t \in Threads, Create(t), rec' # rec PROVE Tidy'
  <2>1. PICK i \in Targets(t) :
             /\ rec[i].state = "absent"
             /\ rec' = [rec EXCEPT ![i].state = "torn"]
             /\ task' = [task EXCEPT ![t].file = i]
             /\ pc' = [pc EXCEPT ![t] = "creating"]
    BY <1>2 DEF Create, Goto
  <2>2. leftover' = leftover /\ pc[t] = "admitted"
    BY <1>2 DEF Create
  <2>3. \A u \in Threads : pc[u] # "creating"
    BY <2>2, AloneInside DEF Gated
  <2>4. \A j \in Ids : rec[j].state # "torn"
    BY <2>3 DEF Tidy
  <2>5. \A j \in Ids : rec'[j].state = "torn" => j = i
    BY <2>1, <2>4 DEF IInv, TypeOK, Records
  <2>6. pc'[t] = "creating" /\ task'[t].file = i
    BY <2>1 DEF IInv, TypeOK, Tasks
  <2> QED
    BY <2>2, <2>5, <2>6 DEF Tidy
<1>3. ASSUME NEW t \in Threads, Write(t) PROVE Tidy'
  <2> DEFINE f == task[t].file
  <2>0. NewRecord(t).state # "torn"
    BY DEF NewRecord
  <2>1. /\ pc[t] = "creating" /\ leftover' = leftover
        /\ rec'[f].state # "torn"
        /\ \A j \in Ids : j # f => rec'[j] = rec[j]
    BY <1>3, <2>0, WriteEffect
  <2>2. \A u \in Threads : pc[u] = "creating" => u = t
    BY <2>1, AloneInside DEF Gated
  <2>3. \A j \in Ids : rec'[j].state # "torn"
    BY <2>1, <2>2 DEF Tidy
  <2> QED
    BY <2>1, <2>3 DEF Tidy
<1>4. ASSUME NEW t \in Threads, Replace(t) PROVE Tidy'
  <2> DEFINE m == task[t].id
             new == rec'[m]
  <2>1. /\ pc[t] = "replacing" /\ leftover' = leftover
        /\ m \in Written /\ Written' = Written
        /\ rec' = [rec EXCEPT ![m] = new]
    BY <1>4, ReplaceEffect
  <2>2. \A u \in Threads : pc[u] # "creating"
    BY <2>1, AloneInside DEF Gated
  <2>3. \A j \in Ids : rec'[j].state # "torn"
    BY <2>1, <2>2 DEF Tidy, Written, IInv, TypeOK
  <2> QED
    BY <2>1, <2>3 DEF Tidy
<1>5. CASE ChangePolicy \/ Shadow \/ UNCHANGED vars
  BY <1>5 DEF ChangePolicy, Shadow, vars, Tidy
<1> QED
  BY <1>1, <1>2, <1>3, <1>4, <1>5 DEF Next, WriteFails

OnlyAShadowWedges == ReceiptsLoad => RemediationIsPossible

\* docs/INTEGRATION.md is right as long as nothing breaks and nobody creates a
\* policy revision that exists already in the other storage class: however the
\* commands of any number of clients interleave, the store only ever loses the
\* possibility to retire a memory to a dead process, to a disk that failed, or to
\* an accepted memory whose receipt names a rule that no longer loads
\* (memories.py:235-357 and 476-479, fs.py:161-198).
THEOREM WedgeNeedsAFaultOrAShadow ==
    ASSUME Mortal = {}, DiskMayFail = FALSE
    PROVE  Spec => []OnlyAShadowWedges
<1>1. Init => Tidy
  BY DEF Init, Tidy, NoRecord
<1>2. IInv /\ Tidy /\ [Next]_vars => Tidy'
  BY TidyStep
<1>3. IInv /\ Tidy => OnlyAShadowWedges
  <2> SUFFICES ASSUME IInv, Tidy, ReceiptsLoad, owners = {} PROVE RemediationIsPossible
    BY DEF OnlyAShadowWedges, RemediationIsPossible
  <2>1. \A t \in Threads : pc[t] # "creating"
    BY DEF IInv, OwnerInv, Gated
  <2>2. ~Debris
    BY <2>1 DEF Tidy, Debris
  <2> QED
    BY <2>2, WithoutDebris DEF OnlyDebrisWedges
<1> QED
  BY <1>1, <1>2, <1>3, Invariance, PTL DEF Spec

-----------------------------------------------------------------------------
(* Every command ends.                                                     *)

\* The guards of the actions of a command that go beyond a place: the gate is
\* free, or one's own; and there is something to evaluate a receipt for.
CanContinue(t) ==
    \/ pc[t] = "asked" /\ task[t].op # "retire" /\ Proposed(t) # {}
    \/ AtGate(t) /\ Gate!Unlocked
    \/ pc[t] \in Gated /\ t \in owners

NobodyIsStuck ==
    (\E t \in Threads : pc[t] # "idle") => \E t \in Threads : CanContinue(t)

\* A complete record says something.
ContentInv == \A i \in Written : rec[i].content \in Contents

LEMMA ContentStep == ASSUME IInv, ContentInv, [Next]_vars PROVE ContentInv'
<1>1. CASE UNCHANGED rec
  BY <1>1 DEF ContentInv, Written
<1>2. ASSUME NEW t \in Threads, Create(t) PROVE ContentInv'
  BY <1>2, CreateEffect DEF ContentInv, Written
<1>3. ASSUME NEW t \in Threads, Write(t) PROVE ContentInv'
  <2> DEFINE f == task[t].file
  <2>1. /\ rec'[f] = NewRecord(t) /\ NewRecord(t).content \in Contents
        /\ \A j \in Ids : j # f => rec'[j] = rec[j]
        /\ Written' = Written \cup {f}
    BY <1>3, WriteEffect
  <2> HIDE DEF f
  <2>2. \A j \in Written : j \in Ids
    BY DEF Written
  <2> QED
    BY <2>1, <2>2 DEF ContentInv
<1>4. ASSUME NEW t \in Threads, Replace(t) PROVE ContentInv'
  <2> DEFINE m == task[t].id
             new == rec'[m]
  <2>1. /\ pc[t] = "replacing" /\ m \in Written /\ Written' = Written
        /\ rec' = [rec EXCEPT ![m] = new]
        /\ \/ task[t].op = "edit" /\ new.content = task[t].content
           \/ new.content = rec[m].content
    BY <1>4, ReplaceEffect
  <2>2. task[t].op = "edit" => task[t].content \in Contents
    BY <2>1 DEF IInv, TaskInv, Evaluated, Gated
  <2>3. new.content \in Contents
    BY <2>1, <2>2 DEF ContentInv
  <2>4. \A j \in Written : j # m => rec'[j] = rec[j]
    BY <2>1 DEF IInv, TypeOK, Written
  <2> HIDE DEF m
  <2> QED
    BY <2>1, <2>3, <2>4 DEF ContentInv
<1> QED
  BY <1>1, <1>2, <1>3, <1>4, OnlyWriters

\* Whoever is inside the gate can leave it, and when nobody is inside whoever
\* waits for it can enter (admission_mutation around every command of
\* memories.py:235-327).
THEOREM NoDeadlock == Spec => []NobodyIsStuck
<1>1. Init => ContentInv
  BY DEF Init, ContentInv, Written, NoRecord
<1>2. IInv /\ ContentInv /\ [Next]_vars => ContentInv'
  BY ContentStep
<1>3. IInv /\ ContentInv => NobodyIsStuck
  <2> SUFFICES ASSUME IInv, ContentInv, NEW t \in Threads, pc[t] # "idle",
                      \A u \in Threads : ~CanContinue(u)
               PROVE  FALSE
    BY DEF NobodyIsStuck
  <2>1. owners = {}
    BY DEF CanContinue, IInv, OwnerInv, TypeOK
  <2>2. pc[t] = "asked" /\ task[t].op # "retire"
    BY <2>1 DEF CanContinue, AtGate, Gate!Unlocked, IInv, OwnerInv, TypeOK, PCs, Gated
  <2>3. task[t].id \in Written
    BY <2>2 DEF IInv, TaskInv, LookInv
  <2>4. Contents # {}
    BY <2>3 DEF ContentInv
  <2>5. Proposed(t) # {}
    BY <2>4 DEF Proposed
  <2> QED
    BY <2>2, <2>5 DEF CanContinue
<1> QED
  BY <1>1, <1>2, <1>3, Invariance, PTL DEF Spec

\* How many steps a command still takes at most.
Left(place) ==
    CASE place = "idle" -> 0
      [] place \in {"creating", "replacing"} -> 1
      [] place = "admitted" -> 2
      [] place = "prepared" -> 3
      [] place = "asked" -> 4

EveryStepComesCloser ==
    [][\A t \in Threads :
         pc[t] # "idle" /\ pc'[t] # pc[t] =>
             0 <= Left(pc[t])' /\ Left(pc[t])' < Left(pc[t])]_vars

\* Where a command can be after a step of its own.
Moves(place, next) ==
    \/ next = "idle" /\ place # "idle"
    \/ place = "asked" /\ next \in {"prepared", "admitted"}
    \/ place = "prepared" /\ next = "admitted"
    \/ place = "admitted" /\ next \in {"creating", "replacing"}

LEMMA CommandMoves ==
    ASSUME IInv, [Next]_vars, NEW t \in Threads, pc[t] # "idle", pc'[t] # pc[t]
    PROVE  Moves(pc[t], pc'[t])
<1>0. DOMAIN pc = Threads
  BY DEF IInv, TypeOK
<1>1. ASSUME NEW u \in Threads, Ask(u) \/ Submit(u) \/ Prepare(u) \/ Admit(u)
      PROVE  Moves(pc[t], pc'[t])
  BY <1>0, <1>1 DEF Ask, Submit, Prepare, Admit, AtGate, Goto, Refuse, Moves
<1>2. ASSUME NEW u \in Threads, Create(u) \/ Write(u) \/ WriteFails(u)
      PROVE  Moves(pc[t], pc'[t])
  BY <1>0, <1>2 DEF Create, Write, WriteFails, Leave, Goto, Refuse, Moves
<1>3. ASSUME NEW u \in Threads, StartReplace(u) \/ Replace(u)
      PROVE  Moves(pc[t], pc'[t])
  BY <1>0, <1>3 DEF StartReplace, Replace, Leave, Goto, Refuse, Moves
<1>4. ASSUME NEW p \in Procs, Crash(p) PROVE Moves(pc[t], pc'[t])
  BY <1>4 DEF Crash, Moves
<1>5. CASE ChangePolicy \/ Shadow \/ UNCHANGED vars
  BY <1>5 DEF ChangePolicy, Shadow, vars
<1> QED
  BY <1>1, <1>2, <1>3, <1>4, <1>5, MortalAssumption DEF Next

\* A refusal ends a command, a retry is the client's: nothing goes back
\* (service.py:252-430, memories.py:235-327).
THEOREM CommandsEnd == Spec => EveryStepComesCloser
<1>1. IInv /\ [Next]_vars =>
        [\A t \in Threads : pc[t] # "idle" /\ pc'[t] # pc[t] =>
             0 <= Left(pc[t])' /\ Left(pc[t])' < Left(pc[t])]_vars
  <2> SUFFICES ASSUME IInv, [Next]_vars, NEW t \in Threads, pc[t] # "idle", pc'[t] # pc[t]
               PROVE  0 <= Left(pc'[t]) /\ Left(pc'[t]) < Left(pc[t])
    BY DEF Left
  <2>1. Moves(pc[t], pc'[t])
    BY CommandMoves
  <2>2. pc[t] \in PCs
    BY DEF IInv, TypeOK
  <2> QED
    BY <2>1, <2>2 DEF Moves, Left, PCs
<1> QED
  BY <1>1, Invariance, PTL DEF Spec, EveryStepComesCloser

-----------------------------------------------------------------------------
(* Between a command's check inside the gate and its write, the store and   *)
(* the policy are that command's alone.                                     *)

AdmissionIsAtomic ==
    [][\A t \in Threads :
         pc[t] \in Gated /\ <<rec, policy, shadowed>>' # <<rec, policy, shadowed>> =>
             \/ Create(t) \/ Write(t) \/ Replace(t)]_vars

\* Whatever changes while a command is inside the gate it has changed itself: the
\* check and the write are one step for everybody else (admission_mutation,
\* policy.py:179-184).
THEOREM GateIsolates == Spec => AdmissionIsAtomic
<1>1. IInv /\ [Next]_vars =>
        [\A t \in Threads :
           pc[t] \in Gated /\ <<rec, policy, shadowed>>' # <<rec, policy, shadowed>> =>
               \/ Create(t) \/ Write(t) \/ Replace(t)]_vars
  <2> SUFFICES ASSUME IInv, [Next]_vars, NEW t \in Threads, pc[t] \in Gated,
                      <<rec', policy', shadowed'>> # <<rec, policy, shadowed>>
               PROVE  Create(t) \/ Write(t) \/ Replace(t)
    OBVIOUS
  <2>1. owners = {t} /\ \A u \in Threads : pc[u] \in Gated => u = t
    BY AloneInside
  <2>2. policy' = policy /\ shadowed' = shadowed
    BY <2>1 DEF Next, vars, Ask, Submit, Prepare, Admit, Create, Write, StartReplace,
                WriteFails, Replace, ChangePolicy, Shadow, Gate!Unlocked, Crash
  <2>3. PICK u \in Threads : Create(u) \/ Write(u) \/ Replace(u)
    BY <2>2, OnlyWriters
  <2>4. pc[u] \in Gated
    BY <2>3 DEF Create, Write, Replace, Gated
  <2> QED
    BY <2>1, <2>3, <2>4
<1> QED
  BY <1>1, Invariance, PTL DEF Spec, AdmissionIsAtomic
=============================================================================
