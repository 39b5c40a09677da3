--------------------------- MODULE CheckpointProofs ---------------------------
(***************************************************************************)
(* What Checkpoint guarantees for every set of threads, processes and      *)
(* sessions, and every bound.                                              *)
(*                                                                         *)
(* The argument has three strands.                                         *)
(*   - Files: a revision number is created by one thread only, behind a    *)
(*     lineage that was complete when the thread looked; complete files    *)
(*     never change, so the lineage still is complete when it writes.      *)
(*   - Registries: every registry that a thread holds is well formed, has  *)
(*     readable heads, and is not from the future; if its generation is    *)
(*     the current one, it is the current registry, or what the thread     *)
(*     made of it.                                                         *)
(*   - Locks: all threads in a snapshot are of one process, so the lock    *)
(*     of that process's compare-and-swap is enough to serialize them, and *)
(*     neither commands nor policies change anything meanwhile.            *)
(***************************************************************************)
EXTENDS Checkpoint, TLAPS

Inside == {"observed", "numbered", "creating", "replacing", "adding", "swapping",
           "storing", "acknowledging", "failing"}

\* Threads that have a revision number, and those whose revision is written.
Numbered == {"numbered", "creating", "replacing", "adding", "swapping", "storing",
             "acknowledging"}
Written == {"replacing", "adding", "swapping", "storing", "acknowledging"}

\* Threads that hold an observed registry, and those that hold a candidate.
Observing == {"observed"} \cup Numbered
Storing == {"replacing", "swapping", "storing"}

LockInv ==
    /\ \A t \in Threads : t \in sharers <=> pc[t] \in Inside
    /\ \A t, u \in sharers : ProcOf[t] = ProcOf[u]
    /\ \A t, u \in Threads : pc[t] = "storing" /\ pc[u] = "storing" => t = u

LineageInv ==
    /\ LineageIsLinear
    /\ \A s \in Sessions : \A n \in Numbers :
         file[s][n] = "written" => parents[s][n] = n - 1

\* The thread's revision number, and the file that it names.
NumberInv ==
    /\ \A t \in Threads : pc[t] \in Numbered =>
         /\ task[t].number = task[t].parent + 1
         /\ \A m \in 1 .. task[t].parent : file[task[t].session][m] = "written"
    /\ \A t \in Threads : pc[t] = "creating" =>
         /\ file[task[t].session][task[t].number] = "torn"
         /\ \A u \in Threads : pc[u] = "creating" /\ NewHead(u) = NewHead(t) => u = t
    /\ \A t \in Threads : pc[t] \in Written => Readable(NewHead(t))

\* A registry that may become the registry of the workstream, where f is file.
Sound(f, r) ==
    /\ WellFormed(r)
    /\ \A h \in r.heads : f[h.session][h.revision] = "written"

RegistryInv ==
    /\ Sound(file, registry)
    /\ \A t \in Threads : pc[t] \in Observing => Sound(file, task[t].seen)
    /\ \A t \in Threads : pc[t] \in Storing \cup {"updating"} => Sound(file, task[t].cand)

\* A thread that holds a registry of the current generation holds the current
\* registry, or its own change of it.
GenerationInv ==
    /\ \A t \in Threads : pc[t] \in Observing =>
         /\ task[t].seen.generation <= registry.generation
         /\ task[t].seen.generation = registry.generation => task[t].seen = registry
    /\ \A t \in Threads : pc[t] \in Storing \cup {"updating"} =>
         task[t].cand.generation <= registry.generation
    /\ \A t \in Threads : pc[t] = "storing" =>
         task[t].cand.generation = registry.generation

\* What a checkpoint is about to store.
CandidateInv ==
    \A t \in Threads :
        LET s == task[t].session
            parent == task[t].parent IN
        /\ pc[t] \in {"replacing", "storing"} /\ parent # 0 =>
             /\ HeadIsParent(task[t].seen, s, parent)
             /\ task[t].cand = Replaced(task[t].seen, Head(s, parent), NewHead(t))
        /\ pc[t] \in {"swapping", "storing"} /\ parent = 0 =>
             (task[t].cand.generation = registry.generation =>
                /\ task[t].cand = Added(registry, NewHead(t))
                /\ NewHead(t) \notin registry.heads
                /\ DisjointAddition(task[t].seen, registry, NewHead(t)))
        /\ pc[t] = "replacing" => parent # 0
        /\ pc[t] \in {"adding", "swapping"} => parent = 0

\* What was acknowledged, or is about to be, is published.
PublishedInv ==
    /\ AcknowledgedIsPublished
    /\ \A t \in Threads : pc[t] = "acknowledging" =>
         \E h \in HeadsOf(registry, task[t].session) : h.revision >= task[t].number

IInv ==
    /\ TypeOK
    /\ LockInv
    /\ LineageInv
    /\ NumberInv
    /\ RegistryInv
    /\ GenerationInv
    /\ CandidateInv
    /\ PublishedInv
    /\ PolicyIsStable

\* Complete files stay complete: what was sound remains so.
LEMMA SoundGrows ==
    ASSUME NEW f, NEW g, NEW r \in Registries, Sound(f, r),
           \A q \in Sessions : \A m \in Numbers :
               f[q][m] = "written" => g[q][m] = "written"
    PROVE  Sound(g, r)
  BY DEF Sound, Registries, HeadRefs

\* An exception inside the snapshot changes nothing that is shared.
LEMMA FailIInv ==
    ASSUME NEW t \in Threads, IInv, Fail(t), UNCHANGED <<policy, commands>>,
           sharers' = sharers \cup {t},
           \A u \in sharers : ProcOf[u] = ProcOf[t]
     PROVE IInv'
<1> USE ProcOfAssumption DEF IInv, Fail, Goto
<1>1. TypeOK'
  BY DEF TypeOK, PCs, Tasks
<1>2. LockInv'
  BY DEF TypeOK, LockInv, Inside
<1>3. LineageInv'
  BY DEF TypeOK, LineageInv, LineageIsLinear, Listed
<1>4. NumberInv'
  BY DEF TypeOK, NumberInv, Numbered, Written, NewHead, Readable
<1>5. RegistryInv'
  BY DEF TypeOK, RegistryInv, Observing, Numbered, Storing
<1>6. GenerationInv'
  BY DEF TypeOK, GenerationInv, Observing, Numbered, Storing
<1>7. CandidateInv'
  BY DEF TypeOK, CandidateInv, NewHead
<1>8. PublishedInv'
  BY DEF TypeOK, PublishedInv, AcknowledgedIsPublished, HeadsOf
<1>9. PolicyIsStable'
  BY DEF TypeOK, PolicyIsStable
<1> QED
  BY <1>1, <1>2, <1>3, <1>4, <1>5, <1>6, <1>7, <1>8, <1>9 DEF IInv

\* A request describes the registry and the policy that its client saw.
LEMMA AskIInv ==
    ASSUME NEW t \in Threads, IInv, Ask(t) PROVE IInv'
<1> USE ProcOfAssumption, SessionsAssumption, BoundAssumption DEF IInv, Ask, Goto
<1>1. TypeOK'
  <2>1. NoTask \in Tasks
    BY DEF NoTask, FirstRegistry, Tasks, Registries, Modes, Statuses, Numbers
  <2>2. \A s \in Sessions : ClientParents(s) \subseteq 0 .. MaxRevision
    BY DEF TypeOK, ClientParents, HeadsOf, Registries, HeadRefs, Numbers
  <2>3. PICK s \in Sessions : \E parent \in ClientParents(s) :
          task' = [task EXCEPT ![t] = [NoTask EXCEPT !.session = s, !.parent = parent,
                                          !.generation = registry.generation,
                                          !.policy = policy]]
    OBVIOUS
  <2>4. task'[t] \in Tasks
    <3>1. PICK parent \in ClientParents(s) :
            task'[t] = [NoTask EXCEPT !.session = s, !.parent = parent,
                                      !.generation = registry.generation,
                                      !.policy = policy]
      BY <2>3 DEF TypeOK
    <3>2. parent \in 0 .. MaxRevision /\ registry.generation \in Nat /\ policy \in Nat
      BY <2>2 DEF TypeOK, Registries
    <3> QED
      BY <2>1, <3>1, <3>2 DEF Tasks
  <2> QED
    BY <2>3, <2>4 DEF TypeOK, PCs
<1>2. LockInv'
  BY DEF TypeOK, LockInv, Inside
<1>3. LineageInv'
  BY DEF TypeOK, LineageInv, LineageIsLinear, Listed
<1>4. NumberInv'
  BY DEF TypeOK, NumberInv, Numbered, Written, NewHead, Readable
<1>5. RegistryInv'
  BY DEF TypeOK, RegistryInv, Observing, Numbered, Storing
<1>6. GenerationInv'
  BY DEF TypeOK, GenerationInv, Observing, Numbered, Storing
<1>7. CandidateInv'
  BY DEF TypeOK, CandidateInv, NewHead
<1>8. PublishedInv'
  BY DEF TypeOK, PublishedInv, AcknowledgedIsPublished, HeadsOf
<1>9. PolicyIsStable'
  BY DEF TypeOK, PolicyIsStable
<1> QED
  BY <1>1, <1>2, <1>3, <1>4, <1>5, <1>6, <1>7, <1>8, <1>9 DEF IInv

\* What is observed inside the snapshot is the current registry and policy.
LEMMA ObserveIInv == ASSUME NEW t \in Threads, IInv, Observe(t) PROVE IInv'
<1> USE ProcOfAssumption DEF IInv
<1>a. /\ pc[t] = "asked"
      /\ sharers' = sharers \cup {t}
      /\ \A u \in sharers : ProcOf[u] = ProcOf[t]
      /\ UNCHANGED <<policy, commands>>
  BY DEF Observe, EnterSnapshot, Lock!AcquireShared
<1>1. CASE Fail(t)
  BY <1>1, <1>a, FailIInv
<1>2. CASE ~Fail(t)
  <2>a. /\ policy = task[t].policy
        /\ task' = [task EXCEPT ![t].seen = registry]
        /\ pc' = [pc EXCEPT ![t] = "observed"]
        /\ UNCHANGED <<file, parents, registry, acked>>
    BY <1>2 DEF Observe, Goto, RequestIsCurrent
  <2>1. TypeOK'
    BY <1>a, <2>a DEF TypeOK, PCs, Tasks
  <2>2. LockInv'
    BY <1>a, <2>a DEF TypeOK, LockInv, Inside
  <2>3. LineageInv'
    BY <1>a, <2>a DEF TypeOK, LineageInv, LineageIsLinear, Listed
  <2>4. NumberInv'
    BY <1>a, <2>a DEF TypeOK, NumberInv, Numbered, Written, NewHead, Readable
  <2>5. RegistryInv'
    BY <1>a, <2>a DEF TypeOK, RegistryInv, Observing, Numbered, Storing
  <2>6. GenerationInv'
    <3>1. registry.generation \in Nat
      BY DEF TypeOK, Registries
    <3> QED
      BY <1>a, <2>a, <3>1 DEF TypeOK, GenerationInv, Observing, Numbered, Storing
  <2>7. CandidateInv'
    BY <1>a, <2>a DEF TypeOK, CandidateInv, NewHead
  <2>8. PublishedInv'
    BY <1>a, <2>a DEF TypeOK, PublishedInv, AcknowledgedIsPublished, HeadsOf
  <2>9. PolicyIsStable'
    BY <1>a, <2>a DEF TypeOK, PolicyIsStable
  <2> QED
    BY <2>1, <2>2, <2>3, <2>4, <2>5, <2>6, <2>7, <2>8, <2>9 DEF IInv
<1> QED
  BY <1>1, <1>2

\* The number handed out is the first free one of a readable lineage.
LEMMA NextRevisionIInv == ASSUME NEW t \in Threads, IInv, NextRevision(t) PROVE IInv'
<1> USE BoundAssumption DEF IInv
<1>a. pc[t] = "observed" /\ t \in sharers /\ UNCHANGED <<policy, sharers, commands>>
  BY DEF NextRevision, LockInv, Inside
<1>1. CASE Fail(t)
  BY <1>1, <1>a, FailIInv DEF LockInv
<1>2. CASE ~Fail(t)
  <2>a. /\ NextRevisionAdmits(task[t].session, task[t].parent)
        /\ task' = [task EXCEPT ![t].number = task[t].parent + 1]
        /\ pc' = [pc EXCEPT ![t] = "numbered"]
        /\ UNCHANGED <<file, parents, registry, acked>>
    BY <1>2 DEF NextRevision, Goto
  <2>b. /\ task[t].session \in Sessions
        /\ task[t].parent \in Nat
        /\ task[t].parent + 1 \in Numbers
        /\ \A m \in 1 .. task[t].parent : file[task[t].session][m] = "written"
    <3>1. task[t] \in Tasks
      BY DEF TypeOK
    <3>2. task[t].parent \in 0 .. MaxRevision - 1 /\ task[t].session \in Sessions
      BY <2>a, <3>1 DEF NextRevisionAdmits, Tasks
    <3>3. task[t].parent # 0 =>
            /\ file[task[t].session][task[t].parent] = "written"
            /\ task[t].parent \in Listed(task[t].session)
      BY <2>a, <3>2 DEF NextRevisionAdmits, Readable, Head, Listed, Numbers
    <3> QED
      BY <3>2, <3>3 DEF LineageInv, LineageIsLinear, Numbers
  <2>1. TypeOK'
    <3>1. [task[t] EXCEPT !.number = task[t].parent + 1] \in Tasks
      BY <2>b DEF TypeOK, Tasks
    <3> QED
      BY <1>a, <2>a, <3>1 DEF TypeOK, PCs
  <2>2. LockInv'
    BY <1>a, <2>a, <2>b DEF TypeOK, LockInv, Inside
  <2>3. LineageInv'
    BY <1>a, <2>a, <2>b DEF TypeOK, LineageInv, LineageIsLinear, Listed
  <2>4. NumberInv'
    BY <1>a, <2>a, <2>b DEF TypeOK, NumberInv, Numbered, Written, NewHead, Readable
  <2>5. RegistryInv'
    BY <1>a, <2>a, <2>b DEF TypeOK, RegistryInv, Observing, Numbered, Storing
  <2>6. GenerationInv'
    BY <1>a, <2>a, <2>b DEF TypeOK, GenerationInv, Observing, Numbered, Storing
  <2>7. CandidateInv'
    BY <1>a, <2>a, <2>b DEF TypeOK, CandidateInv, NewHead
  <2>8. PublishedInv'
    BY <1>a, <2>a, <2>b DEF TypeOK, PublishedInv, AcknowledgedIsPublished, HeadsOf
  <2>9. PolicyIsStable'
    BY <1>a, <2>a, <2>b DEF TypeOK, PolicyIsStable
  <2> QED
    BY <2>1, <2>2, <2>3, <2>4, <2>5, <2>6, <2>7, <2>8, <2>9 DEF IInv
<1> QED
  BY <1>1, <1>2

\* Exclusive creation: no other thread is writing the same file.
LEMMA CreateIInv == ASSUME NEW t \in Threads, IInv, Create(t) PROVE IInv'
<1> USE BoundAssumption DEF IInv
<1>a. pc[t] = "numbered" /\ t \in sharers /\ UNCHANGED <<policy, sharers, commands>>
  BY DEF Create, LockInv, Inside
<1>1. CASE Fail(t)
  BY <1>1, <1>a, FailIInv DEF LockInv
<1>2. CASE ~Fail(t)
  <2> DEFINE s == task[t].session
             n == task[t].number
  <2>a. /\ file[s][n] = "absent"
        /\ file' = [file EXCEPT ![s][n] = "torn"]
        /\ pc' = [pc EXCEPT ![t] = "creating"]
        /\ UNCHANGED <<parents, registry, task, acked>>
    BY <1>2 DEF Create, Goto, MayCreate, NewHead, Head
  <2>b. /\ s \in Sessions /\ n \in Numbers
        /\ \A m \in 1 .. n - 1 : file[s][m] = "written"
        /\ \A q \in Sessions : \A m \in Numbers :
             file'[q][m] = IF q = s /\ m = n THEN "torn" ELSE file[q][m]
        /\ \A q \in Sessions : \A m \in Numbers :
             file'[q][m] = "written" <=> file[q][m] = "written"
    <3>1. task[t] \in Tasks
      BY DEF TypeOK
    <3>2. s \in Sessions /\ n \in Numbers /\ n - 1 = task[t].parent
      BY <1>a, <3>1 DEF Tasks, NumberInv, Numbered, Numbers
    <3> QED
      BY <1>a, <2>a, <3>2 DEF TypeOK, NumberInv, Numbered
  <2> HIDE DEF s, n
  <2>1. TypeOK'
    BY <1>a, <2>a, <2>b DEF TypeOK, PCs, Tasks
  <2>2. LockInv'
    BY <1>a, <2>a, <2>b DEF TypeOK, LockInv, Inside
  <2>3. LineageInv'
    <3>1. ASSUME NEW q \in Sessions, NEW k \in Listed(q)', NEW m \in 1 .. k - 1
          PROVE  file[q][m] = "written"
      <4>1. k \in Numbers /\ m \in Numbers
        BY DEF Listed, Numbers
      <4>2. CASE q = s /\ k = n
        BY <2>b, <4>2
      <4>3. CASE ~(q = s /\ k = n)
        BY <2>b, <4>1, <4>3 DEF LineageInv, LineageIsLinear, Listed
      <4> QED
        BY <4>2, <4>3
    <3>2. LineageIsLinear'
      BY <2>b, <3>1 DEF LineageIsLinear, Listed, Numbers
    <3> QED
      BY <2>a, <2>b, <3>2 DEF LineageInv
  <2>4. NumberInv'
    <3>1. \A u \in Threads : task[u].session \in Sessions /\ task[u].number \in Numbers
      BY DEF TypeOK, Tasks
    <3>2. ASSUME NEW u \in Threads, pc'[u] \in Numbered
          PROVE  /\ task'[u].number = task'[u].parent + 1
                 /\ \A m \in 1 .. task'[u].parent : file'[task'[u].session][m] = "written"
      <4>1. pc[u] \in Numbered
        BY <1>a, <2>a, <3>2 DEF TypeOK, Numbered
      <4>2. task[u].number = task[u].parent + 1 /\ task[u].parent \in 0 .. MaxRevision
        BY <4>1 DEF NumberInv, TypeOK, Tasks
      <4> QED
        BY <2>a, <2>b, <3>1, <4>1, <4>2 DEF NumberInv, Numbers
    <3>3. ASSUME NEW u \in Threads, pc'[u] = "creating"
          PROVE  /\ file'[task'[u].session][task'[u].number] = "torn"
                 /\ \A v \in Threads :
                      pc'[v] = "creating" /\ NewHead(v)' = NewHead(u)' => v = u
      <4>1. \A v \in Threads : v # t /\ pc'[v] = "creating" =>
              /\ pc[v] = "creating"
              /\ file[task[v].session][task[v].number] = "torn"
              /\ ~(task[v].session = s /\ task[v].number = n)
        BY <2>a DEF TypeOK, NumberInv
      <4> QED
        BY <1>a, <2>a, <2>b, <3>1, <3>3, <4>1 DEF NumberInv, NewHead, Head, TypeOK, s, n
    <3>4. \A u \in Threads : pc'[u] \in Written => Readable(NewHead(u))'
      BY <1>a, <2>a, <2>b, <3>1 DEF NumberInv, Written, NewHead, Head, Readable, TypeOK
    <3> QED
      BY <3>2, <3>3, <3>4 DEF NumberInv
  <2>5. RegistryInv'
    <3>1. registry \in Registries /\ \A u \in Threads : task[u] \in Tasks
      BY DEF TypeOK
    <3>2. \A r \in Registries : Sound(file, r) => Sound(file', r)
      BY <2>b, SoundGrows
    <3> QED
      BY <1>a, <2>a, <3>1, <3>2 DEF TypeOK, Tasks, RegistryInv, Observing, Numbered, Storing
  <2>6. GenerationInv'
    BY <1>a, <2>a, <2>b DEF TypeOK, GenerationInv, Observing, Numbered, Storing
  <2>7. CandidateInv'
    BY <1>a, <2>a, <2>b DEF TypeOK, CandidateInv, NewHead
  <2>8. PublishedInv'
    BY <1>a, <2>a, <2>b DEF TypeOK, PublishedInv, AcknowledgedIsPublished, HeadsOf
  <2>9. PolicyIsStable'
    BY <1>a, <2>a, <2>b DEF TypeOK, PolicyIsStable
  <2> QED
    BY <2>1, <2>2, <2>3, <2>4, <2>5, <2>6, <2>7, <2>8, <2>9 DEF IInv
<1> QED
  BY <1>1, <1>2

\* A failed write leaves the newest file unreadable, never an older one.
LEMMA WriteFailsIInv == ASSUME NEW t \in Threads, IInv, WriteFails(t) PROVE IInv'
<1>1. t \in sharers /\ Fail(t) /\ UNCHANGED <<policy, sharers, commands>>
  BY DEF WriteFails, IInv, LockInv, Inside
<1> QED
  BY <1>1, FailIInv DEF IInv, LockInv

\* The replacement of the parent by its successor is a sound registry too.
LEMMA ReplacedIsSound ==
    ASSUME NEW r \in Registries, NEW s \in Sessions, NEW parent \in Nat,
           parent + 1 \in Numbers, HeadIsParent(r, s, parent), WellFormed(r)
    PROVE  LET c == Replaced(r, Head(s, parent), Head(s, parent + 1)) IN
           /\ c \in Registries
           /\ WellFormed(c)
           /\ c.heads \subseteq r.heads \cup {Head(s, parent + 1)}
           /\ c.generation = r.generation
<1> DEFINE old == Head(s, parent)
           new == Head(s, parent + 1)
           c == Replaced(r, old, new)
<1>1. old \in r.heads /\ old \in HeadRefs /\ new \in HeadRefs /\ new.session = s
  BY DEF HeadIsParent, HeadsOf, Head, HeadRefs, Registries
<1>2. \A h \in r.heads : h.session = s => h = old
  BY DEF HeadIsParent, HeadsOf
<1>3. /\ c.heads = (r.heads \ {old}) \cup {new}
      /\ c.preferred = IF r.preferred = old THEN new ELSE r.preferred
      /\ c.mode = r.mode /\ c.status = r.status /\ c.generation = r.generation
  BY DEF Replaced, Registries
<1>4. c \in Registries
  BY <1>1 DEF Replaced, Registries
<1>5. WellFormed(c)
  <2>1. \A h, k \in c.heads : h.session = k.session => h = k
    BY <1>1, <1>2, <1>3 DEF WellFormed
  <2>2. c.mode = "single" => \A h, k \in c.heads : h = k
    BY <1>1, <1>3 DEF WellFormed
  <2>3. c.mode = "preferred" => c.preferred \in c.heads
    BY <1>1, <1>3 DEF WellFormed
  <2>4. c.mode # "preferred" => c.preferred = None
    BY <1>1, <1>3, NoneAssumption DEF WellFormed
  <2> QED
    BY <2>1, <2>2, <2>3, <2>4 DEF WellFormed
<1> QED
  BY <1>3, <1>4, <1>5

\* The revision is complete and recorded behind its predecessor before the head
\* moves, and the candidate registry is sound.
LEMMA WriteIInv == ASSUME NEW t \in Threads, IInv, Write(t) PROVE IInv'
<1> USE BoundAssumption DEF IInv
<1> DEFINE s == task[t].session
           n == task[t].number
           parent == task[t].parent
           seen == task[t].seen
<1>a. /\ pc[t] = "creating" /\ t \in sharers
      /\ task[t] \in Tasks /\ s \in Sessions /\ n \in Numbers /\ parent \in 0 .. MaxRevision
      /\ seen \in Registries
      /\ n = parent + 1 /\ file[s][n] = "torn"
      /\ \A m \in 1 .. parent : file[s][m] = "written"
      /\ UNCHANGED <<registry, policy, sharers, acked, commands>>
  BY DEF Write, LockInv, Inside, TypeOK, Tasks, NumberInv, Numbered
<1>b. /\ file' = [file EXCEPT ![s][n] = "written"]
      /\ parents' = [parents EXCEPT ![s][n] = parent]
  BY DEF Write, NewHead, Head
<1>c. /\ \A q \in Sessions : \A m \in Numbers :
           /\ file'[q][m] = IF q = s /\ m = n THEN "written" ELSE file[q][m]
           /\ parents'[q][m] = IF q = s /\ m = n THEN parent ELSE parents[q][m]
           /\ file[q][m] = "written" => file'[q][m] = "written"
      /\ \A h \in HeadRefs : Readable(h) => Readable(h)'
  <2>1. \A q \in Sessions : \A m \in Numbers :
           /\ file'[q][m] = IF q = s /\ m = n THEN "written" ELSE file[q][m]
           /\ parents'[q][m] = IF q = s /\ m = n THEN parent ELSE parents[q][m]
    BY <1>a, <1>b DEF TypeOK
  <2> QED
    BY <2>1 DEF Readable, HeadRefs
<1>d. /\ pc' = [pc EXCEPT ![t] = pc'[t]]
      /\ task' = [task EXCEPT ![t] = task'[t]]
      /\ \/ /\ pc'[t] = "adding" /\ parent = 0 /\ task'[t] = task[t]
         \/ /\ pc'[t] = "failing" /\ task'[t] = task[t]
         \/ /\ pc'[t] = "replacing" /\ HeadIsParent(seen, s, parent)
            /\ task'[t] = [task[t] EXCEPT !.cand = Replaced(seen, Head(s, parent), Head(s, n))]
  <2>1. HeadIsParent(seen, s, parent) =>
          (CHOOSE h \in HeadsOf(seen, s) : TRUE) = Head(s, parent)
    BY DEF HeadIsParent
  <2> QED
    BY <2>1 DEF Write, AdvanceHead, Goto, TypeOK, NewHead
<1>e. pc'[t] = "replacing" =>
        /\ parent # 0
        /\ task'[t] \in Tasks
        /\ WellFormed(task'[t].cand)
        /\ task'[t].cand.heads \subseteq seen.heads \cup {Head(s, n)}
        /\ task'[t].cand.generation = seen.generation
        /\ task'[t].cand = Replaced(seen, Head(s, parent), Head(s, n))
        /\ HeadIsParent(seen, s, parent)
  <2> SUFFICES ASSUME pc'[t] = "replacing"
               PROVE  /\ parent # 0
                      /\ task'[t] \in Tasks
                      /\ WellFormed(task'[t].cand)
                      /\ task'[t].cand.heads \subseteq seen.heads \cup {Head(s, n)}
                      /\ task'[t].cand.generation = seen.generation
                      /\ task'[t].cand = Replaced(seen, Head(s, parent), Head(s, n))
                      /\ HeadIsParent(seen, s, parent)
    OBVIOUS
  <2>1. WellFormed(seen)
    BY <1>a DEF RegistryInv, Sound, Observing, Numbered
  <2>2. HeadIsParent(seen, s, parent) /\ parent # 0
    BY <1>d DEF HeadIsParent
  <2>3. task'[t] = [task[t] EXCEPT !.cand = Replaced(seen, Head(s, parent), Head(s, n))]
    BY <1>d
  <2>4. task'[t].cand = Replaced(seen, Head(s, parent), Head(s, n))
    BY <1>a, <2>3 DEF Tasks
  <2>5. /\ Replaced(seen, Head(s, parent), Head(s, n)) \in Registries
        /\ WellFormed(Replaced(seen, Head(s, parent), Head(s, n)))
        /\ Replaced(seen, Head(s, parent), Head(s, n)).heads
              \subseteq seen.heads \cup {Head(s, n)}
        /\ Replaced(seen, Head(s, parent), Head(s, n)).generation = seen.generation
    BY <1>a, <2>1, <2>2, ReplacedIsSound
  <2>6. task'[t] \in Tasks
    BY <1>a, <2>3, <2>5 DEF Tasks
  <2> QED
    BY <2>2, <2>4, <2>5, <2>6
<1>f. /\ task'[t] \in Tasks /\ task'[t].seen = seen /\ task'[t].session = s
      /\ task'[t].number = n /\ task'[t].parent = parent
      /\ task'[t].policy = task[t].policy
  BY <1>a, <1>d, <1>e DEF Tasks
<1>g. \A u \in Threads : u # t => pc'[u] = pc[u] /\ task'[u] = task[u]
  BY <1>d DEF TypeOK
<1> HIDE DEF s, n, parent, seen
<1>1. TypeOK'
  <2>1. pc' \in [Threads -> PCs]
    BY <1>d DEF TypeOK, PCs
  <2> QED
    BY <1>a, <1>b, <1>d, <1>f, <2>1 DEF TypeOK
<1>2. LockInv'
  BY <1>a, <1>d, <1>g DEF LockInv, Inside
<1>3. LineageInv'
  <2>1. ASSUME NEW q \in Sessions, NEW k \in Listed(q)', NEW m \in 1 .. k - 1
        PROVE  file'[q][m] = "written"
    <3>1. k \in Numbers /\ m \in Numbers /\ file'[q][k] # "absent"
      BY DEF Listed, Numbers
    <3>2. k \in Listed(q)
      BY <1>a, <1>c, <3>1 DEF Listed
    <3> QED
      BY <1>c, <3>1, <3>2 DEF LineageInv, LineageIsLinear
  <2>2. LineageIsLinear'
    BY <2>1 DEF LineageIsLinear
  <2>3. \A q \in Sessions : \A m \in Numbers :
          file'[q][m] = "written" => parents'[q][m] = m - 1
    BY <1>a, <1>c DEF LineageInv
  <2> QED
    BY <2>2, <2>3 DEF LineageInv
<1>4. NumberInv'
  <2>1. \A u \in Threads : task[u].session \in Sessions /\ task[u].number \in Numbers
                           /\ task[u].parent \in 0 .. MaxRevision
    BY DEF TypeOK, Tasks
  <2>2. ASSUME NEW u \in Threads, pc'[u] \in Numbered
        PROVE  /\ task'[u].number = task'[u].parent + 1
               /\ \A m \in 1 .. task'[u].parent : file'[task'[u].session][m] = "written"
    <3>1. pc[u] \in Numbered /\ task'[u].number = task[u].number
          /\ task'[u].parent = task[u].parent /\ task'[u].session = task[u].session
      BY <1>a, <1>f, <1>g, <2>2 DEF Numbered, s, n, parent
    <3> QED
      BY <1>c, <2>1, <3>1 DEF NumberInv, Numbers
  <2>3. ASSUME NEW u \in Threads, pc'[u] = "creating"
        PROVE  /\ file'[task'[u].session][task'[u].number] = "torn"
               /\ \A v \in Threads :
                    pc'[v] = "creating" /\ NewHead(v)' = NewHead(u)' => v = u
    <3>1. u # t /\ pc'[t] # "creating"
      BY <1>d, <2>3
    <3>2. pc[u] = "creating" /\ NewHead(u) # NewHead(t)
      BY <1>a, <1>g, <2>3, <3>1 DEF NumberInv
    <3>3. ~(task[u].session = s /\ task[u].number = n)
      BY <3>2 DEF NewHead, Head, s, n
    <3>4. file'[task'[u].session][task'[u].number] = "torn"
      BY <1>c, <1>g, <2>1, <3>1, <3>2, <3>3 DEF NumberInv
    <3> QED
      BY <1>g, <3>1, <3>2, <3>4 DEF NumberInv, NewHead
  <2>4. ASSUME NEW u \in Threads, pc'[u] \in Written PROVE Readable(NewHead(u))'
    <3>1. CASE u = t
      BY <1>a, <1>c, <1>f, <3>1 DEF Readable, NewHead, Head
    <3>2. CASE u # t
      BY <1>c, <1>g, <2>1, <2>4, <3>2 DEF NumberInv, Readable, NewHead, Head
    <3> QED
      BY <3>1, <3>2
  <2> QED
    BY <2>2, <2>3, <2>4 DEF NumberInv
<1>5. RegistryInv'
  <2>1. \A r \in Registries : Sound(file, r) => Sound(file', r)
    BY <1>c, SoundGrows
  <2>2. registry \in Registries /\ \A u \in Threads : task[u].seen \in Registries
                                               /\ task[u].cand \in Registries
    BY DEF TypeOK, Tasks
  <2>3. Sound(file', registry')
    BY <1>a, <2>1, <2>2 DEF RegistryInv
  <2>4. Sound(file', seen)
    BY <1>a, <2>1 DEF RegistryInv, Observing, Numbered, seen
  <2>5. ASSUME NEW u \in Threads, pc'[u] \in Observing PROVE Sound(file', task'[u].seen)
    BY <1>f, <1>g, <2>1, <2>2, <2>4, <2>5 DEF RegistryInv
  <2>6. ASSUME NEW u \in Threads, pc'[u] \in Storing \cup {"updating"}
        PROVE  Sound(file', task'[u].cand)
    <3>1. CASE u # t
      BY <1>g, <2>1, <2>2, <2>6, <3>1 DEF RegistryInv
    <3>2. CASE u = t
      <4>1. pc'[t] = "replacing"
        BY <1>d, <2>6, <3>2 DEF Storing
      <4>2. file'[Head(s, n).session][Head(s, n).revision] = "written"
        BY <1>a, <1>c DEF Head
      <4> QED
        BY <1>e, <2>4, <3>2, <4>1, <4>2 DEF Sound
    <3> QED
      BY <3>1, <3>2
  <2> QED
    BY <2>3, <2>5, <2>6 DEF RegistryInv
<1>6. GenerationInv'
  BY <1>a, <1>d, <1>e, <1>f, <1>g DEF GenerationInv, Observing, Numbered, Storing, seen
<1>7. CandidateInv'
  BY <1>a, <1>d, <1>e, <1>f, <1>g DEF CandidateInv, NewHead
<1>8. PublishedInv'
  BY <1>a, <1>d, <1>g DEF PublishedInv, AcknowledgedIsPublished, HeadsOf
<1>9. PolicyIsStable'
  BY <1>a, <1>d, <1>f, <1>g DEF PolicyIsStable
<1> QED
  BY <1>1, <1>2, <1>3, <1>4, <1>5, <1>6, <1>7, <1>8, <1>9

\* The comparison succeeds: at most one thread stores.
LEMMA CompareIInv ==
    ASSUME NEW t \in Threads, IInv, pc[t] \in {"replacing", "swapping"}, Compare(t),
           UNCHANGED <<policy, sharers, commands>>
    PROVE  IInv'
<1> USE DEF IInv, Compare, Goto
<1>1. TypeOK'
  BY DEF TypeOK, PCs
<1>2. LockInv'
  <2>1. \A u \in Threads : pc[u] # "storing"
    BY DEF CasLockFree
  <2> QED
    BY <2>1 DEF TypeOK, LockInv, Inside
<1>3. LineageInv'
  BY DEF LineageInv, LineageIsLinear, Listed
<1>4. NumberInv'
  BY DEF TypeOK, NumberInv, Numbered, Written, NewHead, Readable
<1>5. RegistryInv'
  BY DEF TypeOK, RegistryInv, Observing, Numbered, Storing
<1>6. GenerationInv'
  BY DEF TypeOK, GenerationInv, Observing, Numbered, Storing, MayStore
<1>7. CandidateInv'
  BY DEF TypeOK, CandidateInv, NewHead
<1>8. PublishedInv'
  BY DEF TypeOK, PublishedInv, AcknowledgedIsPublished, HeadsOf
<1>9. PolicyIsStable'
  BY DEF TypeOK, PolicyIsStable
<1> QED
  BY <1>1, <1>2, <1>3, <1>4, <1>5, <1>6, <1>7, <1>8, <1>9

\* The replacing writer reaches the store with the current generation, or fails.
LEMMA ReplaceHeadIInv == ASSUME NEW t \in Threads, IInv, ReplaceHead(t) PROVE IInv'
<1>1. /\ pc[t] = "replacing" /\ t \in sharers
      /\ UNCHANGED <<policy, sharers, commands>>
  BY DEF ReplaceHead, IInv, LockInv, Inside
<1>2. CASE Compare(t)
  BY <1>1, <1>2, CompareIInv
<1>3. CASE Fail(t)
  BY <1>1, <1>3, FailIInv DEF IInv, LockInv
<1> QED
  BY <1>2, <1>3 DEF ReplaceHead

\* The candidate of a head addition is the current registry and one more head.
LEMMA AddReloadIInv == ASSUME NEW t \in Threads, IInv, AddReload(t) PROVE IInv'
<1> USE DEF IInv
<1>a. pc[t] = "adding" /\ t \in sharers /\ UNCHANGED <<policy, sharers, commands>>
  BY DEF AddReload, LockInv, Inside
<1>1. CASE Fail(t)
  BY <1>1, <1>a, FailIInv DEF LockInv
<1>2. CASE ~Fail(t)
  <2> DEFINE h == NewHead(t)
             c == Added(registry, h)
  <2>a. /\ CanAdd(t)
        /\ task' = [task EXCEPT ![t].cand = c]
        /\ pc' = [pc EXCEPT ![t] = IF h \in registry.heads THEN "acknowledging" ELSE "swapping"]
        /\ UNCHANGED <<file, parents, registry, acked>>
    BY <1>2 DEF AddReload, Goto
  <2>b. /\ h \in HeadRefs /\ h.session = task[t].session /\ h.revision = task[t].number
        /\ h.revision \in Numbers
    BY DEF TypeOK, Tasks, NewHead, Head, HeadRefs
  <2>c. c \in Registries /\ c.generation = registry.generation /\ Sound(file, c)
    <3>1. /\ c \in Registries /\ c.generation = registry.generation
          /\ c.heads = registry.heads \cup {h}
      BY <2>b DEF TypeOK, Added, Registries
    <3>2. WellFormed(c) /\ Readable(h)
      BY <2>a DEF CanAdd
    <3> QED
      BY <3>1, <3>2 DEF Sound, RegistryInv, Readable
  <2>d. /\ pc'[t] \in {"acknowledging", "swapping"}
        /\ pc'[t] = "acknowledging" => h \in registry.heads
        /\ task'[t] = [task[t] EXCEPT !.cand = c]
        /\ task'[t] \in Tasks
        /\ \A u \in Threads : u # t => pc'[u] = pc[u] /\ task'[u] = task[u]
    BY <2>a, <2>c DEF TypeOK, Tasks
  <2>e. /\ task'[t].cand = c /\ task'[t].seen = task[t].seen
        /\ task'[t].session = task[t].session /\ task'[t].number = task[t].number
        /\ task'[t].parent = task[t].parent /\ task'[t].policy = task[t].policy
        /\ registry.generation \in Nat
    BY <2>d DEF TypeOK, Tasks, Registries
  <2> HIDE DEF h, c
  <2>1. TypeOK'
    BY <1>a, <2>a, <2>d DEF TypeOK, PCs
  <2>2. LockInv'
    BY <1>a, <2>d DEF LockInv, Inside
  <2>3. LineageInv'
    BY <2>a DEF LineageInv, LineageIsLinear, Listed
  <2>4. NumberInv'
    BY <1>a, <2>a, <2>d, <2>e DEF NumberInv, Numbered, Written, NewHead, Readable
  <2>5. RegistryInv'
    BY <1>a, <2>a, <2>c, <2>d, <2>e DEF RegistryInv, Observing, Numbered, Storing
  <2>6. GenerationInv'
    BY <1>a, <2>a, <2>c, <2>d, <2>e DEF GenerationInv, Observing, Numbered, Storing
  <2>7. CandidateInv'
    <3>1. /\ NewHead(t)' = h
          /\ \A u \in Threads : u # t => NewHead(u)' = NewHead(u)
      BY <2>d, <2>e DEF NewHead, h
    <3>2. pc'[t] = "swapping" => h \notin registry.heads
      BY <2>a DEF TypeOK
    <3>3. DisjointAddition(task[t].seen, registry, h)
      BY <2>a DEF CanAdd, h
    <3> QED
      BY <1>a, <2>a, <2>d, <2>e, <3>1, <3>2, <3>3 DEF CandidateInv, c
  <2>8. PublishedInv'
    <3>1. pc'[t] = "acknowledging" => h \in HeadsOf(registry, task[t].session)
      BY <2>b, <2>d DEF HeadsOf
    <3> QED
      BY <2>a, <2>b, <2>d, <2>e, <3>1
         DEF PublishedInv, AcknowledgedIsPublished, HeadsOf, Numbers
  <2>9. PolicyIsStable'
    BY <1>a, <2>a, <2>d, <2>e DEF PolicyIsStable
  <2> QED
    BY <2>1, <2>2, <2>3, <2>4, <2>5, <2>6, <2>7, <2>8, <2>9
<1> QED
  BY <1>1, <1>2

\* The adding writer reaches the store with the current generation, reloads, or
\* fails.
LEMMA AddSwapIInv == ASSUME NEW t \in Threads, IInv, AddSwap(t) PROVE IInv'
<1>a. pc[t] = "swapping" /\ t \in sharers /\ UNCHANGED <<policy, sharers, commands>>
  BY DEF AddSwap, IInv, LockInv, Inside
<1>1. CASE Compare(t)
  BY <1>1, <1>a, CompareIInv
<1>2. CASE Fail(t)
  BY <1>2, <1>a, FailIInv DEF IInv, LockInv
<1>3. CASE ~Compare(t) /\ ~Fail(t)
  <2> USE DEF IInv
  <2>a. /\ task[t].attempt < MaxAttempts
        /\ task' = [task EXCEPT ![t].attempt = @ + 1]
        /\ pc' = [pc EXCEPT ![t] = "adding"]
        /\ UNCHANGED <<file, parents, registry, acked>>
    BY <1>3 DEF AddSwap, Goto
  <2>b. /\ task'[t] = [task[t] EXCEPT !.attempt = @ + 1]
        /\ task'[t] \in Tasks
        /\ \A u \in Threads : u # t => pc'[u] = pc[u] /\ task'[u] = task[u]
        /\ pc'[t] = "adding"
    <3>1. task[t] \in Tasks /\ task[t].attempt + 1 \in 1 .. MaxAttempts
      BY <2>a, BoundAssumption DEF TypeOK, Tasks
    <3>2. [task[t] EXCEPT !.attempt = @ + 1] \in Tasks
      BY <3>1 DEF Tasks
    <3> QED
      BY <2>a, <3>2 DEF TypeOK
  <2>c. /\ task'[t].seen = task[t].seen
        /\ task'[t].session = task[t].session /\ task'[t].number = task[t].number
        /\ task'[t].parent = task[t].parent /\ task'[t].policy = task[t].policy
    BY <2>b DEF TypeOK, Tasks
  <2>1. TypeOK'
    BY <1>a, <2>a, <2>b DEF TypeOK, PCs
  <2>2. LockInv'
    BY <1>a, <2>b DEF LockInv, Inside
  <2>3. LineageInv'
    BY <2>a DEF LineageInv, LineageIsLinear, Listed
  <2>4. NumberInv'
    BY <1>a, <2>a, <2>b, <2>c DEF NumberInv, Numbered, Written, NewHead, Readable
  <2>5. RegistryInv'
    BY <1>a, <2>a, <2>b, <2>c DEF RegistryInv, Observing, Numbered, Storing
  <2>6. GenerationInv'
    BY <1>a, <2>a, <2>b, <2>c DEF GenerationInv, Observing, Numbered, Storing
  <2>7. CandidateInv'
    BY <1>a, <2>a, <2>b, <2>c DEF CandidateInv, NewHead
  <2>8. PublishedInv'
    BY <2>a, <2>b DEF PublishedInv, AcknowledgedIsPublished, HeadsOf
  <2>9. PolicyIsStable'
    BY <1>a, <2>a, <2>b, <2>c DEF PolicyIsStable
  <2> QED
    BY <2>1, <2>2, <2>3, <2>4, <2>5, <2>6, <2>7, <2>8, <2>9
<1> QED
  BY <1>1, <1>2, <1>3

\* What a storing thread does to the heads: it adds its own, or puts it where its
\* parent was.
LEMMA StoredHeads ==
    ASSUME NEW t \in Threads, IInv, pc[t] = "storing"
    PROVE  LET s == task[t].session IN
           /\ NewHead(t) \in HeadRefs /\ NewHead(t).session = s
           /\ \/ /\ task[t].parent = 0
                 /\ task[t].cand = Added(registry, NewHead(t))
                 /\ task[t].cand.heads = registry.heads \cup {NewHead(t)}
                 /\ NewHead(t) \notin registry.heads
                 /\ DisjointAddition(task[t].seen, registry, NewHead(t))
              \/ /\ task[t].parent # 0
                 /\ NewHead(t).revision = task[t].parent + 1
                 /\ HeadsOf(registry, s) = {Head(s, task[t].parent)}
                 /\ task[t].cand = Replaced(registry, Head(s, task[t].parent), NewHead(t))
                 /\ task[t].cand.heads =
                      (registry.heads \ {Head(s, task[t].parent)}) \cup {NewHead(t)}
<1> USE DEF IInv
<1>1. NewHead(t) \in HeadRefs /\ NewHead(t).session = task[t].session
      /\ NewHead(t).revision = task[t].number
  BY DEF TypeOK, Tasks, NewHead, Head, HeadRefs
<1>2. CASE task[t].parent = 0
  <2>1. /\ task[t].cand = Added(registry, NewHead(t))
        /\ NewHead(t) \notin registry.heads
        /\ DisjointAddition(task[t].seen, registry, NewHead(t))
    BY <1>2 DEF CandidateInv, GenerationInv
  <2> QED
    BY <1>1, <1>2, <2>1 DEF Added, TypeOK, Registries
<1>3. CASE task[t].parent # 0
  <2>1. /\ HeadIsParent(task[t].seen, task[t].session, task[t].parent)
        /\ task[t].cand = Replaced(task[t].seen, Head(task[t].session, task[t].parent),
                                   NewHead(t))
    BY <1>3 DEF CandidateInv
  <2>2. task[t].seen = registry
    <3>1. task[t].cand.generation = task[t].seen.generation
      BY <2>1 DEF Replaced, TypeOK, Tasks, Registries
    <3> QED
      BY <3>1 DEF GenerationInv, Observing, Numbered
  <2>3. NewHead(t).revision = task[t].parent + 1
    BY <1>1 DEF NumberInv, Numbered
  <2> QED
    BY <1>1, <1>3, <2>1, <2>2, <2>3 DEF Replaced, HeadIsParent, TypeOK, Registries
<1> QED
  BY <1>2, <1>3

\* Between the comparison and the replacement nobody else stored: inside a
\* snapshot only threads of the same process write, and its lock orders them.
LEMMA PublishIInv == ASSUME NEW t \in Threads, IInv, Publish(t) PROVE IInv'
<1> USE DEF IInv
<1>a. pc[t] = "storing" /\ t \in sharers /\ UNCHANGED <<policy, sharers, commands>>
  BY DEF Publish, LockInv, Inside
<1>1. CASE Fail(t)
  BY <1>1, <1>a, FailIInv DEF LockInv
<1>2. CASE ~Fail(t)
  <2> DEFINE c == task[t].cand
             s == task[t].session
  <2>a. /\ registry' = [c EXCEPT !.generation = @ + 1]
        /\ pc' = [pc EXCEPT ![t] = "acknowledging"]
        /\ UNCHANGED <<file, parents, task, acked>>
    BY <1>2 DEF Publish, Store, Goto
  <2>b. /\ c \in Registries /\ registry \in Registries
        /\ c.generation = registry.generation /\ Sound(file, c)
    BY <1>a DEF TypeOK, Tasks, GenerationInv, RegistryInv, Storing
  <2>c. /\ registry' \in Registries
        /\ registry'.generation = registry.generation + 1
        /\ registry'.heads = c.heads /\ registry'.mode = c.mode
        /\ registry'.preferred = c.preferred
    BY <2>a, <2>b DEF Registries
  <2>d. \A u \in Threads : u # t => pc'[u] = pc[u] /\ pc[u] # "storing"
    BY <1>a, <2>a DEF TypeOK, LockInv
  <2>e. /\ registry.generation \in Nat
        /\ \A u \in Threads : /\ task[u].seen.generation \in Nat
                              /\ task[u].cand.generation \in Nat
    BY <2>b DEF TypeOK, Tasks, Registries
  <2> HIDE DEF c, s
  <2>1. TypeOK'
    BY <1>a, <2>a, <2>c DEF TypeOK, PCs
  <2>2. LockInv'
    BY <1>a, <2>a, <2>d DEF LockInv, Inside, TypeOK
  <2>3. LineageInv'
    BY <2>a DEF LineageInv, LineageIsLinear, Listed
  <2>4. NumberInv'
    BY <1>a, <2>a DEF TypeOK, NumberInv, Numbered, Written, NewHead, Readable
  <2>5. RegistryInv'
    <3>1. Sound(file, registry')
      BY <2>b, <2>c DEF Sound, WellFormed
    <3> QED
      BY <1>a, <2>a, <3>1 DEF TypeOK, RegistryInv, Observing, Numbered, Storing
  <2>6. GenerationInv'
    BY <1>a, <2>a, <2>c, <2>d, <2>e DEF TypeOK, GenerationInv, Observing, Numbered, Storing
  <2>7. CandidateInv'
    BY <1>a, <2>a, <2>c, <2>d, <2>e
       DEF TypeOK, CandidateInv, GenerationInv, Storing, NewHead
  <2>8. PublishedInv'
    <3>1. \A q \in Sessions : \A h \in HeadsOf(registry, q) :
            \E k \in HeadsOf(registry', q) : k.revision >= h.revision
      <4>1. \A h \in registry.heads : h.revision \in Nat
        BY <2>b DEF Registries, HeadRefs, Numbers
      <4>2. CASE task[t].parent = 0
        BY <1>a, <2>c, <4>1, <4>2, StoredHeads DEF HeadsOf, c
      <4>3. CASE task[t].parent # 0
        <5>1. /\ NewHead(t) \in registry'.heads
              /\ NewHead(t).session = s /\ NewHead(t).revision = task[t].parent + 1
              /\ Head(s, task[t].parent).revision = task[t].parent
              /\ Head(s, task[t].parent).session = s
              /\ registry.heads \ {Head(s, task[t].parent)} \subseteq registry'.heads
          BY <1>a, <2>c, <4>3, StoredHeads DEF c, s, Head
        <5>2. task[t].parent \in Nat
          BY BoundAssumption DEF TypeOK, Tasks
        <5> QED
          BY <4>1, <5>1, <5>2 DEF HeadsOf
      <4> QED
        BY <4>2, <4>3
    <3>2. NewHead(t) \in HeadsOf(registry', task[t].session)
          /\ NewHead(t).revision = task[t].number
      BY <1>a, <2>c, StoredHeads DEF HeadsOf, NewHead, Head, c
    <3>3. /\ \A h \in registry.heads \cup registry'.heads : h.revision \in Nat
          /\ \A q \in Sessions : acked[q] \in Nat
          /\ \A u \in Threads : task[u].number \in Nat /\ task[u].session \in Sessions
      <4>1. \A h \in registry.heads \cup registry'.heads : h.revision \in Nat
        BY <2>b, <2>c DEF Registries, HeadRefs, Numbers
      <4>2. \A q \in Sessions : acked[q] \in Nat
        BY BoundAssumption DEF TypeOK
      <4>3. \A u \in Threads : task[u].number \in Nat /\ task[u].session \in Sessions
        BY DEF Numbers, TypeOK, Tasks
      <4> QED
        BY <4>1, <4>2, <4>3
    <3>4. \A q \in Sessions : HeadsOf(registry, q) \subseteq registry.heads
                              /\ HeadsOf(registry', q) \subseteq registry'.heads
      BY DEF HeadsOf
    <3>5. AcknowledgedIsPublished'
      BY <2>a, <3>1, <3>3, <3>4 DEF PublishedInv, AcknowledgedIsPublished
    <3>6. ASSUME NEW u \in Threads, pc'[u] = "acknowledging"
          PROVE  \E h \in HeadsOf(registry', task[u].session) : h.revision >= task[u].number
      <4>1. CASE u = t
        BY <3>2, <3>3, <4>1
      <4>2. CASE u # t
        BY <2>d, <3>1, <3>3, <3>4, <3>6, <4>2 DEF PublishedInv
      <4> QED
        BY <4>1, <4>2
    <3> QED
      BY <2>a, <3>5, <3>6 DEF PublishedInv
  <2>9. PolicyIsStable'
    BY <1>a, <2>a DEF TypeOK, PolicyIsStable
  <2> QED
    BY <2>1, <2>2, <2>3, <2>4, <2>5, <2>6, <2>7, <2>8, <2>9
<1> QED
  BY <1>1, <1>2

\* What is acknowledged has just been published and nobody has unpublished it.
LEMMA LeaveIInv == ASSUME NEW t \in Threads, IInv, Leave(t) PROVE IInv'
<1> USE BoundAssumption DEF IInv
<1>a. /\ pc[t] \in {"acknowledging", "failing"}
      /\ sharers' = sharers \ {t}
      /\ pc' = [pc EXCEPT ![t] = "idle"]
      /\ task' = [task EXCEPT ![t] = NoTask]
      /\ UNCHANGED <<file, parents, registry, policy, commands>>
  BY DEF Leave, Lock!ReleaseShared, Goto
<1>b. /\ pc'[t] = "idle"
      /\ \A u \in Threads : u # t => pc'[u] = pc[u] /\ task'[u] = task[u]
  BY <1>a DEF TypeOK
<1>c. task[t].session \in Sessions /\ task[t].number \in 0 .. MaxRevision
  BY DEF TypeOK, Tasks, Numbers
<1>d. \A s \in Sessions :
        \/ acked'[s] = acked[s]
        \/ /\ pc[t] = "acknowledging" /\ s = task[t].session
           /\ acked'[s] = task[t].number
  BY DEF Leave, TypeOK
<1>1. TypeOK'
  <2>1. NoTask \in Tasks
    BY SessionsAssumption DEF NoTask, FirstRegistry, Tasks, Registries, Modes, Statuses, Numbers
  <2>2. acked' \in [Sessions -> 0 .. MaxRevision]
    BY <1>c DEF Leave, TypeOK
  <2> QED
    BY <1>a, <2>1, <2>2 DEF TypeOK, PCs
<1>2. LockInv'
  BY <1>a, <1>b DEF LockInv, Inside
<1>3. LineageInv'
  BY <1>a DEF LineageInv, LineageIsLinear, Listed
<1>4. NumberInv'
  BY <1>a, <1>b DEF NumberInv, Numbered, Written, NewHead, Readable
<1>5. RegistryInv'
  BY <1>a, <1>b DEF RegistryInv, Observing, Numbered, Storing
<1>6. GenerationInv'
  BY <1>a, <1>b DEF GenerationInv, Observing, Numbered, Storing
<1>7. CandidateInv'
  BY <1>a, <1>b DEF CandidateInv, NewHead
<1>8. PublishedInv'
  BY <1>a, <1>b, <1>d DEF PublishedInv, AcknowledgedIsPublished, HeadsOf
<1>9. PolicyIsStable'
  BY <1>a, <1>b DEF PolicyIsStable
<1> QED
  BY <1>1, <1>2, <1>3, <1>4, <1>5, <1>6, <1>7, <1>8, <1>9

\* An operator command starts with a sound registry of the current generation.
LEMMA CommandIInv ==
    ASSUME NEW t \in Threads, NEW r \in Registries, IInv, Command(t, r),
           r.generation = registry.generation, Sound(file, r)
    PROVE  IInv'
<1> USE DEF IInv
<1>a. /\ pc[t] = "idle"
      /\ task' = [task EXCEPT ![t].cand = r]
      /\ pc' = [pc EXCEPT ![t] = "updating"]
      /\ UNCHANGED <<file, parents, registry, policy, sharers, acked, commands>>
  BY DEF Command, Goto
<1>b. /\ pc'[t] = "updating" /\ task'[t].cand = r
      /\ \A u \in Threads : u # t => pc'[u] = pc[u] /\ task'[u] = task[u]
      /\ registry.generation \in Nat
  BY <1>a DEF TypeOK, Tasks, Registries
<1>1. TypeOK'
  BY <1>a DEF TypeOK, PCs, Tasks
<1>2. LockInv'
  BY <1>a, <1>b DEF LockInv, Inside
<1>3. LineageInv'
  BY <1>a DEF LineageInv, LineageIsLinear, Listed
<1>4. NumberInv'
  BY <1>a, <1>b DEF NumberInv, Numbered, Written, NewHead, Readable
<1>5. RegistryInv'
  BY <1>a, <1>b DEF RegistryInv, Observing, Numbered, Storing
<1>6. GenerationInv'
  BY <1>a, <1>b DEF GenerationInv, Observing, Numbered, Storing
<1>7. CandidateInv'
  BY <1>a, <1>b DEF CandidateInv, NewHead
<1>8. PublishedInv'
  BY <1>a, <1>b DEF PublishedInv, AcknowledgedIsPublished, HeadsOf
<1>9. PolicyIsStable'
  BY <1>a, <1>b DEF PolicyIsStable
<1> QED
  BY <1>1, <1>2, <1>3, <1>4, <1>5, <1>6, <1>7, <1>8, <1>9

\* set_active_heads only selects readable revisions.
LEMMA SelectHeadsIInv == ASSUME NEW t \in Threads, IInv, SelectHeads(t) PROVE IInv'
<1>1. PICK H \in SUBSET {h \in HeadRefs : Readable(h)} :
        Command(t, [registry EXCEPT !.heads = H])
  BY DEF SelectHeads
<1> DEFINE r == [registry EXCEPT !.heads = H]
<1>2. r \in Registries /\ r.generation = registry.generation /\ r.heads = H
  BY <1>1 DEF IInv, TypeOK, Registries
<1>3. Sound(file, r)
  BY <1>1, <1>2 DEF Command, Sound, Readable
<1> QED
  BY <1>1, <1>2, <1>3, CommandIInv

\* set_preferred_head only selects an active, readable head.
LEMMA PreferHeadIInv == ASSUME NEW t \in Threads, IInv, PreferHead(t) PROVE IInv'
<1>1. PICK h \in registry.heads :
        Command(t, [registry EXCEPT !.mode = "preferred", !.preferred = h])
  BY DEF PreferHead
<1> DEFINE r == [registry EXCEPT !.mode = "preferred", !.preferred = h]
<1>2. r \in Registries /\ r.generation = registry.generation /\ r.heads = registry.heads
  BY <1>1 DEF IInv, TypeOK, Registries, Modes
<1>3. Sound(file, r)
  BY <1>1, <1>2 DEF Command, Sound, IInv, RegistryInv
<1> QED
  BY <1>1, <1>2, <1>3, CommandIInv

\* A lifecycle change leaves the heads alone.
LEMMA SetStatusIInv == ASSUME NEW t \in Threads, IInv, SetStatus(t) PROVE IInv'
<1>1. PICK status \in Statuses : Command(t, [registry EXCEPT !.status = status])
  BY DEF SetStatus
<1> DEFINE r == [registry EXCEPT !.status = status]
<1>2. r \in Registries /\ r.generation = registry.generation /\ r.heads = registry.heads
  BY <1>1 DEF IInv, TypeOK, Registries
<1>3. Sound(file, r)
  BY <1>1, <1>2 DEF Command, Sound, IInv, RegistryInv
<1> QED
  BY <1>1, <1>2, <1>3, CommandIInv

\* A command is stored while nobody is inside a snapshot.
LEMMA ApplyUpdateIInv == ASSUME NEW t \in Threads, IInv, ApplyUpdate(t) PROVE IInv'
<1> USE DEF IInv
<1> DEFINE r == task[t].cand
<1>a. /\ pc[t] = "updating" /\ sharers = {}
      /\ pc' = [pc EXCEPT ![t] = "idle"]
      /\ task' = [task EXCEPT ![t] = NoTask]
      /\ UNCHANGED <<file, parents, policy, sharers>>
  BY DEF ApplyUpdate, Unlocked, Goto
<1>b. /\ \A u \in Threads : pc[u] \notin Inside /\ pc'[u] \notin Inside
      /\ \A u \in Threads : u # t => pc'[u] = pc[u] /\ task'[u] = task[u]
      /\ pc'[t] = "idle"
  BY <1>a DEF TypeOK, LockInv, Inside
<1>c. r \in Registries /\ registry \in Registries /\ Sound(file, r)
  BY <1>a DEF TypeOK, Tasks, RegistryInv
<1>d. \/ UNCHANGED <<registry, acked, commands>>
      \/ /\ r.generation = registry.generation
         /\ registry' = [r EXCEPT !.generation = @ + 1]
         /\ acked' = [s \in Sessions |->
                        IF HeadsOf(r, s) = HeadsOf(registry, s) THEN acked[s] ELSE 0]
         /\ commands' = commands + 1
  BY DEF ApplyUpdate, MayStore, Store
<1>e. /\ registry' \in Registries /\ registry.generation <= registry'.generation
      /\ Sound(file, registry')
  <2>1. CASE registry' = registry
    BY <1>c, <2>1 DEF Registries, RegistryInv
  <2>2. CASE registry' = [r EXCEPT !.generation = @ + 1] /\ r.generation = registry.generation
    BY <1>c, <2>2 DEF Registries, Sound, WellFormed
  <2> QED
    BY <1>d, <2>1, <2>2
<1> HIDE DEF r
<1>1. TypeOK'
  <2>1. NoTask \in Tasks
    BY SessionsAssumption, BoundAssumption
       DEF NoTask, FirstRegistry, Tasks, Registries, Modes, Statuses, Numbers
  <2>2. acked' \in [Sessions -> 0 .. MaxRevision] /\ commands' \in Nat
    BY <1>d, BoundAssumption DEF TypeOK
  <2> QED
    BY <1>a, <1>e, <2>1, <2>2 DEF TypeOK, PCs
<1>2. LockInv'
  BY <1>a, <1>b DEF LockInv, Inside
<1>3. LineageInv'
  BY <1>a DEF LineageInv, LineageIsLinear, Listed
<1>4. NumberInv'
  BY <1>b DEF NumberInv, Numbered, Written, Inside
<1>5. RegistryInv'
  BY <1>a, <1>b, <1>e DEF RegistryInv, Observing, Numbered, Storing, Inside
<1>6. GenerationInv'
  <2>1. \A u \in Threads : task[u].cand.generation \in Nat
    BY DEF TypeOK, Tasks, Registries
  <2>2. registry.generation \in Nat /\ registry'.generation \in Nat
    BY <1>c, <1>e DEF Registries
  <2> QED
    BY <1>b, <1>e, <2>1, <2>2 DEF GenerationInv, Observing, Numbered, Storing, Inside
<1>7. CandidateInv'
  BY <1>b DEF CandidateInv, Inside
<1>8. PublishedInv'
  <2>1. AcknowledgedIsPublished'
    <3>1. CASE UNCHANGED <<registry, acked>>
      BY <3>1 DEF PublishedInv, AcknowledgedIsPublished, HeadsOf
    <3>2. CASE /\ registry' = [r EXCEPT !.generation = @ + 1]
               /\ acked' = [s \in Sessions |->
                      IF HeadsOf(r, s) = HeadsOf(registry, s) THEN acked[s] ELSE 0]
      <4>1. registry'.heads = r.heads
        BY <1>c, <3>2 DEF Registries
      <4>2. \A s \in Sessions : HeadsOf(registry', s) = HeadsOf(r, s)
        BY <4>1 DEF HeadsOf
      <4> QED
        BY <3>2, <4>2 DEF PublishedInv, AcknowledgedIsPublished
    <3> QED
      BY <1>d, <3>1, <3>2
  <2> QED
    BY <1>b, <2>1 DEF PublishedInv, Inside
<1>9. PolicyIsStable'
  BY <1>b DEF PolicyIsStable, Inside, PCs, TypeOK
<1> QED
  BY <1>1, <1>2, <1>3, <1>4, <1>5, <1>6, <1>7, <1>8, <1>9

\* A policy change finds no checkpoint inside the snapshot.
LEMMA ChangePolicyIInv == ASSUME IInv, ChangePolicy PROVE IInv'
<1> USE DEF IInv
<1>a. /\ sharers = {} /\ policy' = policy + 1
      /\ UNCHANGED <<file, parents, registry, sharers, pc, task, acked, commands>>
  BY DEF ChangePolicy, PolicyGate, Unlocked
<1>1. TypeOK' /\ LockInv' /\ LineageInv'
  BY <1>a DEF TypeOK, LockInv, LineageInv, LineageIsLinear, Listed
<1>2. NumberInv' /\ RegistryInv' /\ GenerationInv'
  BY <1>a DEF NumberInv, NewHead, Readable, RegistryInv, GenerationInv
<1>3. CandidateInv' /\ PublishedInv'
  BY <1>a DEF CandidateInv, NewHead, PublishedInv, AcknowledgedIsPublished, HeadsOf
<1>4. PolicyIsStable'
  BY <1>a DEF TypeOK, LockInv, Inside, PCs, PolicyIsStable
<1> QED
  BY <1>1, <1>2, <1>3, <1>4

\* The files and the registry survive a crash as the dead threads left them.
LEMMA CrashIInv == ASSUME NEW p \in Procs, IInv, Crash(p) PROVE IInv'
<1> USE DEF IInv
<1>a. /\ sharers' = sharers \ {t \in Threads : ProcOf[t] = p}
      /\ pc' = [t \in Threads |-> IF ProcOf[t] = p THEN "idle" ELSE pc[t]]
      /\ task' = [t \in Threads |-> IF ProcOf[t] = p THEN NoTask ELSE task[t]]
      /\ UNCHANGED <<file, parents, registry, policy, acked, commands>>
  BY DEF Crash, Lock!Abandon, Lock!ThreadsOf
<1>b. \A t \in Threads : \/ pc'[t] = "idle"
                         \/ pc'[t] = pc[t] /\ task'[t] = task[t] /\ ProcOf[t] # p
  BY <1>a
<1>1. TypeOK'
  <2>1. NoTask \in Tasks
    BY SessionsAssumption, BoundAssumption
       DEF NoTask, FirstRegistry, Tasks, Registries, Modes, Statuses, Numbers
  <2> QED
    BY <1>a, <2>1 DEF TypeOK, PCs
<1>2. LockInv'
  BY <1>a DEF LockInv, Inside
<1>3. LineageInv'
  BY <1>a DEF LineageInv, LineageIsLinear, Listed
<1>4. NumberInv'
  BY <1>a, <1>b DEF NumberInv, Numbered, Written, NewHead, Readable
<1>5. RegistryInv'
  BY <1>a, <1>b DEF RegistryInv, Observing, Numbered, Storing
<1>6. GenerationInv'
  BY <1>a, <1>b DEF GenerationInv, Observing, Numbered, Storing
<1>7. CandidateInv'
  BY <1>a, <1>b DEF CandidateInv, NewHead
<1>8. PublishedInv'
  BY <1>a, <1>b DEF PublishedInv, AcknowledgedIsPublished, HeadsOf
<1>9. PolicyIsStable'
  BY <1>a, <1>b DEF PolicyIsStable
<1> QED
  BY <1>1, <1>2, <1>3, <1>4, <1>5, <1>6, <1>7, <1>8, <1>9

\* A step that changes nothing preserves the invariant.
LEMMA StutterIInv == ASSUME IInv, UNCHANGED vars PROVE IInv'
  BY DEF vars, IInv, TypeOK, LockInv, LineageInv, LineageIsLinear, Listed, NumberInv,
         NewHead, Readable, RegistryInv, GenerationInv, CandidateInv, PublishedInv,
         AcknowledgedIsPublished, HeadsOf, PolicyIsStable

\* An empty Vault satisfies the invariant.
LEMMA InitIInv == Init => IInv
<1> SUFFICES ASSUME Init PROVE IInv
  OBVIOUS
<1> USE BoundAssumption, SessionsAssumption DEF Init
<1>1. registry \in Registries /\ Sound(file, registry)
  BY ModesAssumption DEF FirstRegistry, Registries, Modes, Statuses, Sound, WellFormed
<1>2. TypeOK
  <2>1. NoTask \in Tasks
    BY DEF NoTask, FirstRegistry, Tasks, Registries, Modes, Statuses, Numbers
  <2> QED
    BY <1>1, <2>1 DEF TypeOK, PCs
<1>3. LockInv /\ LineageInv
  BY DEF LockInv, Inside, LineageInv, LineageIsLinear, Listed
<1>4. NumberInv /\ RegistryInv /\ GenerationInv
  BY <1>1 DEF NumberInv, Numbered, Written, RegistryInv, Observing, Storing, GenerationInv
<1>5. CandidateInv /\ PublishedInv /\ PolicyIsStable
  BY DEF CandidateInv, PublishedInv, AcknowledgedIsPublished, PolicyIsStable
<1> QED
  BY <1>2, <1>3, <1>4, <1>5 DEF IInv

\* Every step preserves the invariant.
LEMMA NextIInv == IInv /\ [Next]_vars => IInv'
<1> SUFFICES ASSUME IInv, [Next]_vars PROVE IInv'
  OBVIOUS
<1>1. ASSUME NEW t \in Threads, Ask(t) \/ Observe(t) \/ NextRevision(t) PROVE IInv'
  BY <1>1, AskIInv, ObserveIInv, NextRevisionIInv
<1>2. ASSUME NEW t \in Threads, Create(t) \/ Write(t) \/ WriteFails(t) PROVE IInv'
  BY <1>2, CreateIInv, WriteIInv, WriteFailsIInv
<1>3. ASSUME NEW t \in Threads, ReplaceHead(t) \/ AddReload(t) \/ AddSwap(t) PROVE IInv'
  BY <1>3, ReplaceHeadIInv, AddReloadIInv, AddSwapIInv
<1>4. ASSUME NEW t \in Threads, Publish(t) \/ Leave(t) \/ ApplyUpdate(t) PROVE IInv'
  BY <1>4, PublishIInv, LeaveIInv, ApplyUpdateIInv
<1>5. ASSUME NEW t \in Operators, SelectHeads(t) \/ PreferHead(t) \/ SetStatus(t)
      PROVE  IInv'
  BY <1>5, RolesAssumption, SelectHeadsIInv, PreferHeadIInv, SetStatusIInv
<1>6. ASSUME NEW p \in Mortal, Crash(p) PROVE IInv'
  BY <1>6, RolesAssumption, CrashIInv
<1>7. CASE ChangePolicy
  BY <1>7, ChangePolicyIInv
<1>8. CASE Finished \/ UNCHANGED vars
  BY <1>8, StutterIInv DEF Finished
<1> QED
  BY <1>1, <1>2, <1>3, <1>4, <1>5, <1>6, <1>7, <1>8 DEF Next

\* The strengthening is an invariant: it holds initially and every action of the
\* code preserves it.
THEOREM Invariance == Spec => []IInv
  BY InitIInv, NextIInv, PTL DEF Spec

\* The variables keep their types.
THEOREM TypeCorrect == Spec => []TypeOK
<1>1. IInv => TypeOK
  BY DEF IInv
<1> QED
  BY <1>1, Invariance, PTL

\* Every active head, and every revision behind it, can be read.
THEOREM HeadsCanBeRead == Spec => []HeadsAreReadable
<1>1. IInv => HeadsAreReadable
  <2> SUFFICES ASSUME IInv, NEW h \in registry.heads, NEW n \in 1 .. h.revision
               PROVE  /\ file[h.session][n] = "written"
                      /\ parents[h.session][n] = n - 1
    BY DEF HeadsAreReadable
  <2>1. h.session \in Sessions /\ h.revision \in Numbers
    BY DEF IInv, TypeOK, Registries, HeadRefs
  <2>2. file[h.session][h.revision] = "written"
    BY DEF IInv, RegistryInv, Sound
  <2>3. n \in Numbers
    BY <2>1, BoundAssumption DEF Numbers
  <2>4. h.revision \in Listed(h.session)
    BY <2>1, <2>2 DEF Listed
  <2>5. file[h.session][n] = "written"
    <3>1. CASE n = h.revision
      BY <3>1, <2>2
    <3>2. CASE n # h.revision
      <4>1. n \in 1 .. h.revision - 1
        BY <2>1, <3>2, BoundAssumption DEF Numbers
      <4> QED
        BY <2>1, <2>4, <4>1 DEF IInv, LineageInv, LineageIsLinear
    <3> QED
      BY <3>1, <3>2
  <2> QED
    BY <2>1, <2>3, <2>5 DEF IInv, LineageInv
<1> QED
  BY <1>1, Invariance, PTL

\* Heads, mode and preferred head never contradict each other.
THEOREM RegistryStaysConsistent == Spec => []RegistryIsConsistent
<1>1. IInv => RegistryIsConsistent
  BY NoneAssumption
     DEF IInv, RegistryInv, Sound, WellFormed, RegistryIsConsistent, TypeOK, Registries
<1> QED
  BY <1>1, Invariance, PTL

\* Lineages have no hole and no unreadable revision but the newest.
THEOREM LineagesAreLinear == Spec => []LineageIsLinear
<1>1. IInv => LineageIsLinear
  BY DEF IInv, LineageInv
<1> QED
  BY <1>1, Invariance, PTL

\* The workstream is consistent between any two writes.
THEOREM StoreStaysConsistent == Spec => []StoreIsConsistent
<1>1. HeadsAreReadable /\ RegistryIsConsistent /\ LineageIsLinear
          => StoreIsConsistent
  BY DEF StoreIsConsistent
<1> QED
  BY <1>1, HeadsCanBeRead, RegistryStaysConsistent, LineagesAreLinear, PTL

\* An acknowledged checkpoint stays published.
THEOREM NoLostCheckpoint == Spec => []AcknowledgedIsPublished
<1>1. IInv => AcknowledgedIsPublished
  BY DEF IInv, PublishedInv
<1> QED
  BY <1>1, Invariance, PTL

\* No policy changes between the admission of a checkpoint and its publication.
THEOREM PolicyStaysStable == Spec => []PolicyIsStable
<1>1. IInv => PolicyIsStable
  BY DEF IInv
<1> QED
  BY <1>1, Invariance, PTL
-----------------------------------------------------------------------------
(* What a step does to the files and to the registry.                      *)

\* Only Write and Create touch the files, and neither touches a complete one.
LEMMA CompleteFilesStay ==
    ASSUME IInv, [Next]_vars, NEW h \in HeadRefs, Readable(h)
    PROVE  Readable(h)' /\ parents'[h.session][h.revision] = parents[h.session][h.revision]
<1> USE DEF IInv
<1>0. h.session \in Sessions /\ h.revision \in Numbers
  BY DEF HeadRefs
<1>1. ASSUME NEW t \in Threads, Create(t)
      PROVE  Readable(h)' /\ parents'[h.session][h.revision] = parents[h.session][h.revision]
  <2>1. CASE MayCreate(NewHead(t))
    <3>1. /\ NewHead(t).session \in Sessions /\ NewHead(t).revision \in Numbers
          /\ file[NewHead(t).session][NewHead(t).revision] = "absent"
      BY <2>1 DEF MayCreate, NewHead, Head, TypeOK, Tasks
    <3>2. /\ file' = [file EXCEPT ![NewHead(t).session][NewHead(t).revision] = "torn"]
          /\ parents' = parents
      BY <1>1, <2>1 DEF Create, Fail
    <3> QED
      BY <1>0, <3>1, <3>2 DEF Readable, TypeOK
  <2>2. CASE ~MayCreate(NewHead(t))
    BY <1>1, <2>2 DEF Create, Fail, Readable
  <2> QED
    BY <2>1, <2>2
<1>2. ASSUME NEW t \in Threads, Write(t)
      PROVE  Readable(h)' /\ parents'[h.session][h.revision] = parents[h.session][h.revision]
  <2>1. /\ NewHead(t).session = task[t].session /\ NewHead(t).revision = task[t].number
        /\ task[t].session \in Sessions /\ task[t].number \in Numbers
        /\ file[task[t].session][task[t].number] = "torn"
    BY <1>2 DEF Write, NumberInv, NewHead, Head, TypeOK, Tasks
  <2> QED
    BY <1>0, <1>2, <2>1 DEF Write, Readable, TypeOK
<1>3. CASE file' = file /\ parents' = parents
  BY <1>3 DEF Readable
<1>4. [Next]_vars => \/ file' = file /\ parents' = parents
                     \/ \E t \in Threads : Create(t) \/ Write(t)
  BY RolesAssumption
     DEF Next, vars, Ask, Observe, NextRevision, WriteFails, ReplaceHead, AddReload,
         AddSwap, Publish, Leave, ApplyUpdate, SelectHeads, PreferHead, SetStatus,
         Command, Compare, Fail, ChangePolicy, Crash, Finished
<1> QED
  BY <1>1, <1>2, <1>3, <1>4

\* A revision that can be read is immutable: whoever is given the same number
\* later cannot replace it.
THEOREM RevisionsStay == Spec => RevisionsAreImmutable
<1>1. IInv /\ [Next]_vars => [\A h \in HeadRefs : Readable(h) =>
          /\ Readable(h)'
          /\ parents'[h.session][h.revision] = parents[h.session][h.revision]]_vars
  BY CompleteFilesStay
<1> QED
  BY <1>1, Invariance, PTL DEF Spec, RevisionsAreImmutable

\* The only way to be acknowledging next after storing is to have published.
LEMMA PublishedStep ==
    ASSUME IInv, [Next]_vars, NEW t \in Threads, pc[t] = "storing",
           registry' # registry, pc'[t] = "acknowledging"
    PROVE  registry' = [task[t].cand EXCEPT !.generation = @ + 1]
<1> USE DEF IInv
<1>1. ASSUME NEW u \in Threads, u # t, Publish(u) PROVE FALSE
  BY <1>1 DEF Publish, LockInv
<1>2. ASSUME NEW u \in Threads, ApplyUpdate(u) PROVE FALSE
  BY <1>2 DEF ApplyUpdate, Unlocked, LockInv, Inside
<1>3. \/ \E u \in Threads : Publish(u) \/ ApplyUpdate(u)
      \/ registry' = registry
  BY RolesAssumption
     DEF Next, vars, Ask, Observe, NextRevision, Create, Write, WriteFails,
         ReplaceHead, AddReload, AddSwap, Leave, SelectHeads, PreferHead, SetStatus,
         Command, Compare, Fail, ChangePolicy, Crash, Finished
<1>4. Publish(t)
  BY <1>1, <1>2, <1>3
<1> QED
  BY <1>4 DEF Publish, Store, Fail

\* Whatever happened between observing and storing, the registry stored by a
\* head addition is the current one with exactly this head more.
THEOREM RetriesOnlyAdd == Spec => RetryOnlyAddsItsHead
<1>1. ASSUME IInv, [Next]_vars, NEW t \in Threads,
             pc[t] = "storing", task[t].parent = 0,
             registry' # registry, pc'[t] = "acknowledging"
      PROVE  /\ task[t].seen.heads \subseteq registry.heads
             /\ registry'.heads = registry.heads \cup {NewHead(t)}
             /\ registry' = [task[t].seen EXCEPT
                                !.heads = registry'.heads,
                                !.generation = registry'.generation]
  <2>1. /\ registry' = [task[t].cand EXCEPT !.generation = @ + 1]
        /\ task[t].cand = Added(registry, NewHead(t))
        /\ task[t].cand.heads = registry.heads \cup {NewHead(t)}
        /\ DisjointAddition(task[t].seen, registry, NewHead(t))
    BY <1>1, PublishedStep, StoredHeads
  <2>2. registry \in Registries /\ task[t].seen \in Registries
    BY <1>1 DEF IInv, TypeOK, Tasks
  <2>3. registry' = [registry EXCEPT !.heads = registry.heads \cup {NewHead(t)},
                                     !.generation = registry.generation + 1]
    BY <2>1, <2>2 DEF Added, Registries
  <2>4. /\ registry.mode = task[t].seen.mode /\ registry.status = task[t].seen.status
        /\ registry.preferred = task[t].seen.preferred
        /\ task[t].seen.heads \subseteq registry.heads
    BY <2>1 DEF DisjointAddition
  <2>5. /\ registry'.heads = registry.heads \cup {NewHead(t)}
        /\ registry'.generation = registry.generation + 1
    BY <2>2, <2>3 DEF Registries
  <2>6. registry' = [task[t].seen EXCEPT !.heads = registry'.heads,
                                         !.generation = registry'.generation]
    BY <2>2, <2>3, <2>4, <2>5 DEF Registries
  <2> QED
    BY <2>4, <2>5, <2>6
<1>2. IInv /\ [Next]_vars =>
        [\A t \in Threads :
           /\ pc[t] = "storing" /\ task[t].parent = 0
           /\ registry' # registry /\ pc'[t] = "acknowledging"
           =>
              /\ task[t].seen.heads \subseteq registry.heads
              /\ registry'.heads = registry.heads \cup {NewHead(t)}
              /\ registry' = [task[t].seen EXCEPT
                                 !.heads = registry'.heads,
                                 !.generation = registry'.generation]]_vars
  BY <1>1
<1> QED
  BY <1>2, Invariance, PTL DEF Spec, RetryOnlyAddsItsHead

-----------------------------------------------------------------------------
(* The workstream implements SessionLineage: a complete revision appears,   *)
(* a checkpoint is published, or an operator command is applied; every      *)
(* other step leaves what SessionLineage sees alone.                        *)

Revisions == {h \in HeadRefs : Readable(h)}

\* Nothing can be read and no head is set in the beginning.
LEMMA InitMaps == Init => Lineage!LineageInit
<1> SUFFICES ASSUME Init PROVE Lineage!LineageInit
  OBVIOUS
<1>1. \A h \in HeadRefs : ~Readable(h)
  BY DEF Init, Readable, HeadRefs
<1>2. registry.generation = 0 /\ registry.heads = {} /\ registry.preferred = None
  BY DEF Init, FirstRegistry
<1> QED
  BY <1>1, <1>2 DEF Init, Lineage!LineageInit

\* The revision becomes readable behind its predecessor.
LEMMA WriteMaps ==
    ASSUME IInv, NEW t \in Threads, Write(t) PROVE Lineage!LineageNext
<1> USE DEF IInv
<1> DEFINE r == NewHead(t)
<1>1. /\ r.session = task[t].session /\ r.revision = task[t].number
      /\ r \in HeadRefs /\ r = [session |-> r.session, revision |-> r.revision]
      /\ task[t].session \in Sessions /\ task[t].number \in Numbers
      /\ file[r.session][r.revision] = "torn"
  BY DEF Write, NumberInv, NewHead, Head, HeadRefs, TypeOK, Tasks
<1>2. /\ file' = [file EXCEPT ![r.session][r.revision] = "written"]
      /\ UNCHANGED <<registry, commands>>
  BY DEF Write
<1> HIDE DEF r
<1>3. Revisions' = Revisions \cup {r} /\ r \notin Revisions
  <2>1. \A h \in HeadRefs : Readable(h)' <=> Readable(h) \/ h = r
    <3> SUFFICES ASSUME NEW h \in HeadRefs PROVE Readable(h)' <=> Readable(h) \/ h = r
      OBVIOUS
    <3>1. /\ h.session \in Sessions /\ h.revision \in Numbers
          /\ h = [session |-> h.session, revision |-> h.revision]
      BY DEF HeadRefs
    <3>2. r.session \in Sessions /\ r.revision \in Numbers
      BY <1>1
    <3>3. h = r <=> h.session = r.session /\ h.revision = r.revision
      BY <3>1, <1>1
    <3> QED
      BY <1>2, <3>1, <3>2, <3>3 DEF Readable, TypeOK
  <2> QED
    BY <1>1, <2>1 DEF Revisions, Readable
<1>4. r.revision = 1 \/ Head(r.session, r.revision - 1) \in Revisions
  <2>1. /\ task[t].number = task[t].parent + 1
        /\ \A m \in 1 .. task[t].parent : file[task[t].session][m] = "written"
        /\ task[t].parent \in 0 .. MaxRevision
    BY DEF Write, NumberInv, Numbered, TypeOK, Tasks
  <2>2. CASE task[t].parent = 0
    BY <1>1, <2>1, <2>2
  <2>3. CASE task[t].parent # 0
    <3>1. /\ task[t].parent \in Numbers /\ r.revision - 1 = task[t].parent
          /\ file[r.session][task[t].parent] = "written"
      BY <1>1, <2>1, <2>3, BoundAssumption DEF Numbers
    <3> QED
      BY <1>1, <3>1 DEF Revisions, Readable, Head, HeadRefs
  <2> QED
    BY <2>2, <2>3
<1>5. Lineage!AddRevision(r)
  BY <1>2, <1>3, <1>4 DEF Lineage!AddRevision, Lineage!Follows, Lineage!Ref, Head, Revisions
<1> QED
  BY <1>1, <1>5 DEF Lineage!LineageNext, Lineage!Refs, HeadRefs, Numbers

\* The head of one session appears, or moves to its direct successor.
LEMMA PublishMaps ==
    ASSUME IInv, NEW t \in Threads, Publish(t), ~Fail(t) PROVE Lineage!LineageNext
<1> USE DEF IInv
<1> DEFINE r == NewHead(t)
           s == task[t].session
<1>1. /\ pc[t] = "storing"
      /\ registry' = [task[t].cand EXCEPT !.generation = @ + 1]
      /\ UNCHANGED <<file, commands>>
  BY DEF Publish, Store
<1>2. /\ registry \in Registries /\ task[t].cand \in Registries
      /\ task[t].cand.generation = registry.generation
      /\ Readable(r) /\ WellFormed(task[t].cand)
  BY <1>1 DEF TypeOK, Tasks, GenerationInv, NumberInv, Written, RegistryInv, Storing, Sound
<1>3. /\ registry'.generation = registry.generation + 1
      /\ registry'.heads = task[t].cand.heads
      /\ registry'.preferred = task[t].cand.preferred
  BY <1>1, <1>2 DEF Registries
<1>4. /\ r \in HeadRefs /\ r.session = s /\ r \in Revisions /\ Revisions' = Revisions
  BY <1>1, <1>2, StoredHeads DEF Revisions, Readable
<1>5. CASE task[t].parent = 0
  <2>1. /\ task[t].cand = Added(registry, r) /\ r \notin registry.heads
        /\ task[t].cand.heads = registry.heads \cup {r}
        /\ DisjointAddition(task[t].seen, registry, r)
    BY <1>1, <1>5, StoredHeads
  <2>2. r.revision = 1
    BY <1>1, <1>5 DEF NumberInv, Numbered, NewHead, Head
  <2>3. \A h \in registry.heads : h.session # r.session
    BY <1>4, <2>1 DEF DisjointAddition, HeadsOf
  <2>4. registry'.preferred = registry.preferred
    BY <1>2, <1>3, <2>1 DEF Added, Registries
  <2>5. Lineage!PublishFirst(r)
    BY <1>1, <1>3, <1>4, <2>1, <2>2, <2>3, <2>4 DEF Lineage!PublishFirst, Revisions
  <2> QED
    BY <1>4, <2>5 DEF Lineage!LineageNext, Lineage!Refs, HeadRefs, Numbers
<1>6. CASE task[t].parent # 0
  <2> DEFINE h == Head(s, task[t].parent)
  <2>1. /\ r.revision = task[t].parent + 1
        /\ HeadsOf(registry, s) = {h}
        /\ task[t].cand = Replaced(registry, h, r)
        /\ task[t].cand.heads = (registry.heads \ {h}) \cup {r}
    BY <1>1, <1>6, StoredHeads
  <2>2. h \in registry.heads /\ h.session = r.session /\ r.revision = h.revision + 1
    BY <1>4, <2>1 DEF HeadsOf, Head
  <2>3. registry'.preferred = IF registry.preferred = h THEN r ELSE registry.preferred
    BY <1>2, <1>3, <2>1 DEF Replaced, Registries
  <2> HIDE DEF h
  <2>4. Lineage!PublishNext(r)
    BY <1>1, <1>3, <1>4, <2>1, <2>2, <2>3 DEF Lineage!PublishNext, Revisions
  <2> QED
    BY <1>4, <2>4 DEF Lineage!LineageNext, Lineage!Refs, HeadRefs, Numbers
<1> QED
  BY <1>5, <1>6

\* An operator command puts the heads where readable revisions are.
LEMMA ApplyUpdateMaps ==
    ASSUME IInv, NEW t \in Threads, ApplyUpdate(t), MayStore(task[t].cand)
    PROVE  Lineage!LineageNext
<1> USE DEF IInv
<1> DEFINE c == task[t].cand
<1>1. /\ pc[t] = "updating" /\ UNCHANGED file /\ commands' = commands + 1
      /\ registry' = [c EXCEPT !.generation = @ + 1]
  BY DEF ApplyUpdate, Store
<1>2. /\ c \in Registries /\ registry \in Registries /\ c.generation = registry.generation
      /\ Sound(file, c)
  BY <1>1 DEF TypeOK, Tasks, MayStore, RegistryInv
<1> HIDE DEF c
<1>3. /\ registry'.generation = registry.generation + 1
      /\ registry'.heads = c.heads /\ registry'.preferred = c.preferred
  BY <1>1, <1>2 DEF Registries
<1>4. /\ c.heads \subseteq Revisions /\ Revisions' = Revisions
      /\ c.heads \in SUBSET HeadRefs
  BY <1>1, <1>2 DEF Sound, Revisions, Readable, Registries
<1>5. c.preferred \in c.heads \cup {None}
  BY <1>2 DEF Sound, WellFormed
<1>6. Lineage!Operate(c.heads, c.preferred)
  BY <1>1, <1>3, <1>4 DEF Lineage!Operate, Revisions
<1> QED
  BY <1>4, <1>5, <1>6 DEF Lineage!LineageNext, Lineage!Refs, HeadRefs, Numbers

\* Exclusive creation makes nothing readable.
LEMMA CreateMaps ==
    ASSUME IInv, NEW t \in Threads, Create(t)
    PROVE  Revisions' = Revisions /\ UNCHANGED <<registry, commands>>
<1> USE DEF IInv
<1>1. CASE ~MayCreate(NewHead(t))
  BY <1>1 DEF Create, Fail, Revisions, Readable
<1>2. CASE MayCreate(NewHead(t))
  <2>1. /\ NewHead(t).session \in Sessions /\ NewHead(t).revision \in Numbers
        /\ file[NewHead(t).session][NewHead(t).revision] = "absent"
    BY <1>2 DEF MayCreate, NewHead, Head, TypeOK, Tasks
  <2>2. /\ file' = [file EXCEPT ![NewHead(t).session][NewHead(t).revision] = "torn"]
        /\ UNCHANGED <<registry, commands>>
    BY <1>2 DEF Create, Fail
  <2>3. \A h \in HeadRefs : Readable(h)' <=> Readable(h)
    BY <2>1, <2>2 DEF Readable, HeadRefs, TypeOK
  <2> QED
    BY <2>2, <2>3 DEF Revisions
<1> QED
  BY <1>1, <1>2

\* Every step is a step of the lineage or a stutter of it.
LEMMA StepMaps ==
    IInv /\ [Next]_vars => [Lineage!LineageNext]_(Lineage!lineageVars)
<1> SUFFICES ASSUME IInv, [Next]_vars
             PROVE  Lineage!LineageNext \/ UNCHANGED Lineage!lineageVars
  OBVIOUS
<1>1. ASSUME Revisions' = Revisions, UNCHANGED <<registry, commands>>
      PROVE  UNCHANGED Lineage!lineageVars
  BY <1>1 DEF Revisions, Lineage!lineageVars
<1>2. ASSUME UNCHANGED <<file, registry, commands>> PROVE UNCHANGED Lineage!lineageVars
  BY <1>1, <1>2 DEF Revisions, Readable
<1>3. ASSUME NEW t \in Threads, Publish(t)
      PROVE  Lineage!LineageNext \/ UNCHANGED Lineage!lineageVars
  BY <1>2, <1>3, PublishMaps DEF Publish, Fail
<1>4. ASSUME NEW t \in Threads, ApplyUpdate(t)
      PROVE  Lineage!LineageNext \/ UNCHANGED Lineage!lineageVars
  BY <1>2, <1>4, ApplyUpdateMaps DEF ApplyUpdate
<1>5. ASSUME NEW t \in Threads, Write(t) \/ Create(t)
      PROVE  Lineage!LineageNext \/ UNCHANGED Lineage!lineageVars
  BY <1>1, <1>5, WriteMaps, CreateMaps
<1>6. \/ \E t \in Threads : Publish(t) \/ ApplyUpdate(t) \/ Write(t) \/ Create(t)
      \/ UNCHANGED <<file, registry, commands>>
  BY RolesAssumption
     DEF Next, vars, Ask, Observe, NextRevision, WriteFails, ReplaceHead, AddReload,
         AddSwap, Leave, SelectHeads, PreferHead, SetStatus, Command, Compare, Fail,
         ChangePolicy, Crash, Finished
<1> QED
  BY <1>2, <1>3, <1>4, <1>5, <1>6

\* Two writes, a shared lock, retries, failures and crashes together are still
\* the linear, single-step history that SessionLineage describes.
THEOREM CheckpointImplementsLineage == Spec => ImplementsLineage
  BY InitMaps, Invariance, StepMaps, PTL DEF Spec, ImplementsLineage, Lineage!LineageSpec
-----------------------------------------------------------------------------
(* Every call ends.  That a fair scheduler lets a call run is beyond the    *)
(* provers; what the code has to contribute is not: no call is ever left    *)
(* with nothing it can do while nobody else can do anything either, and     *)
(* every step of a call, the retries of a head addition included, leaves    *)
(* less of it to do.                                                        *)

\* The guards of the actions that a thread in the middle of a call waits for:
\* the snapshot, the lock of the compare-and-swap, and the gate.
CanContinue(t) ==
    \/ pc[t] = "asked" /\ \A u \in sharers : ProcOf[u] = ProcOf[t]
    \/ pc[t] \in {"observed", "numbered", "creating", "adding", "storing",
                  "acknowledging", "failing"}
    \/ pc[t] \in {"replacing", "swapping"} /\ CasLockFree(t)
    \/ pc[t] = "updating" /\ Unlocked

NobodyIsStuck ==
    (\E t \in Threads : pc[t] # "idle") => \E t \in Threads : CanContinue(t)

\* Whoever is inside the snapshot does not wait for anybody outside, and of those
\* inside only the one that is storing keeps others waiting (create_revision in
\* its snapshot, sessions.py:195-267; write_cas, storage.py:165-190).
THEOREM NoDeadlock == Spec => []NobodyIsStuck
<1>1. IInv => NobodyIsStuck
  <2> SUFFICES ASSUME IInv, NEW t \in Threads, pc[t] # "idle",
                      \A u \in Threads : ~CanContinue(u)
               PROVE  FALSE
    BY DEF NobodyIsStuck
  <2>1. \A u \in Threads : CasLockFree(u)
    BY DEF CanContinue, CasLockFree
  <2>2. \A u \in Threads : pc[u] \in {"idle", "asked", "updating"}
    BY <2>1 DEF CanContinue, IInv, TypeOK, PCs
  <2>3. sharers = {}
    BY <2>2 DEF IInv, TypeOK, LockInv, Inside
  <2> QED
    BY <2>2, <2>3 DEF CanContinue, Unlocked
<1> QED
  BY <1>1, Invariance, PTL

\* How many steps a call still takes at most.  From "adding" to "swapping" and
\* back is one of MaxAttempts rounds.
Left(place, attempt) ==
    CASE place = "idle" -> 0
      [] place \in {"failing", "acknowledging", "updating"} -> 1
      [] place = "storing" -> 2
      [] place = "replacing" -> 3
      [] place = "swapping" -> 2 * (MaxAttempts - attempt) + 3
      [] place = "adding" -> 2 * (MaxAttempts - attempt) + 4
      [] place = "creating" -> 2 * MaxAttempts + 3
      [] place = "numbered" -> 2 * MaxAttempts + 4
      [] place = "observed" -> 2 * MaxAttempts + 5
      [] place = "asked" -> 2 * MaxAttempts + 6

EveryStepComesCloser ==
    [][\A t \in Threads :
         pc[t] # "idle" /\ <<pc[t], task[t]>>' # <<pc[t], task[t]>> =>
             /\ 0 <= Left(pc[t], task[t].attempt)'
             /\ Left(pc[t], task[t].attempt)' < Left(pc[t], task[t].attempt)]_vars

\* The places and the attempts between which a call moves.
Moves(place, attempt, next, tried) ==
    \/ next = "idle" /\ place # "idle"
    \/ next = "failing" /\ place \in {"asked", "observed", "numbered", "creating",
                                      "replacing", "adding", "swapping", "storing"}
    \/ place = "asked" /\ next = "observed"
    \/ place = "observed" /\ next = "numbered"
    \/ place = "numbered" /\ next = "creating"
    \/ place = "creating" /\ next \in {"adding", "replacing"}
    \/ place \in {"replacing", "swapping"} /\ next = "storing"
    \/ place = "storing" /\ next = "acknowledging"
    \/ place = "adding" /\ next = "acknowledging"
    \/ place = "adding" /\ next = "swapping" /\ tried = attempt
    \/ place = "swapping" /\ next = "adding" /\ tried = attempt + 1

\* Whatever moves goes down.
LEMMA MovesGoDown ==
    ASSUME NEW place \in PCs, NEW next \in PCs,
           NEW attempt \in 1 .. MaxAttempts, NEW tried \in 1 .. MaxAttempts,
           Moves(place, attempt, next, tried)
    PROVE  0 <= Left(next, tried) /\ Left(next, tried) < Left(place, attempt)
<1>1. MaxAttempts \in Nat /\ attempt \in Nat /\ tried \in Nat
      /\ 1 <= attempt /\ attempt <= MaxAttempts /\ 1 <= tried /\ tried <= MaxAttempts
  BY BoundAssumption
<1> QED
  BY <1>1 DEF Left, Moves, PCs

\* A thread that is in the middle of a call.
Tried(t) == task[t].attempt

LEMMA TypedTasks ==
    ASSUME TypeOK, NEW t \in Threads
    PROVE  /\ pc[t] \in PCs
           /\ task[t] \in Tasks
           /\ Tried(t) \in 1 .. MaxAttempts
           /\ DOMAIN task = Threads /\ DOMAIN pc = Threads
  BY DEF TypeOK, Tasks, Tried

\* Each action of a thread is one of the moves.
LEMMA OwnMoves ==
    ASSUME TypeOK, NEW t \in Threads, pc[t] # "idle",
           \/ Ask(t) \/ Observe(t) \/ NextRevision(t) \/ Create(t) \/ Write(t)
           \/ WriteFails(t) \/ ReplaceHead(t) \/ AddReload(t) \/ AddSwap(t)
           \/ Publish(t) \/ Leave(t) \/ ApplyUpdate(t)
    PROVE  Moves(pc[t], Tried(t), pc'[t], Tried(t)')
<1> USE TypedTasks DEF Moves, Tried, Goto, Fail
<1>1. CASE Ask(t)
  BY <1>1 DEF Ask
<1>2. CASE Observe(t)
  BY <1>2 DEF Observe
<1>3. CASE NextRevision(t)
  BY <1>3 DEF NextRevision
<1>4. CASE Create(t) \/ WriteFails(t)
  BY <1>4 DEF Create, WriteFails
<1>5. CASE Write(t)
  BY <1>5 DEF Write, AdvanceHead
<1>6. CASE ReplaceHead(t)
  BY <1>6 DEF ReplaceHead, Compare
<1>7. CASE AddReload(t)
  <2>1. CASE Fail(t)
    BY <1>7, <2>1 DEF AddReload
  <2>2. CASE ~Fail(t)
    <3>1. /\ pc[t] = "adding"
          /\ task' = [task EXCEPT ![t].cand = Added(registry, NewHead(t))]
          /\ pc'[t] \in {"acknowledging", "swapping"}
      BY <1>7, <2>2 DEF AddReload
    <3>2. task'[t].attempt = task[t].attempt
      BY <3>1 DEF Tasks
    <3> QED
      BY <3>1, <3>2
  <2> QED
    BY <2>1, <2>2
<1>8. CASE AddSwap(t)
  <2>1. CASE Fail(t) \/ Compare(t)
    BY <1>8, <2>1 DEF AddSwap, Compare
  <2>2. CASE ~Fail(t) /\ ~Compare(t)
    <3>1. /\ pc[t] = "swapping"
          /\ task' = [task EXCEPT ![t].attempt = @ + 1]
          /\ pc'[t] = "adding"
      BY <1>8, <2>2 DEF AddSwap
    <3>2. task'[t].attempt = task[t].attempt + 1
      BY <3>1 DEF Tasks
    <3> QED
      BY <3>1, <3>2
  <2> QED
    BY <2>1, <2>2
<1>9. CASE Publish(t)
  BY <1>9 DEF Publish
<1>10. CASE Leave(t) \/ ApplyUpdate(t)
  BY <1>10 DEF Leave, ApplyUpdate
<1> QED
  BY <1>1, <1>2, <1>3, <1>4, <1>5, <1>6, <1>7, <1>8, <1>9, <1>10

\* No thread moves another, but for the death of its process.
LEMMA OthersMove ==
    ASSUME TypeOK, NEW t \in Threads, pc[t] # "idle", [Next]_vars,
           <<pc'[t], task'[t]>> # <<pc[t], task[t]>>
    PROVE  \/ pc'[t] = "idle"
           \/ Ask(t) \/ Observe(t) \/ NextRevision(t) \/ Create(t) \/ Write(t)
           \/ WriteFails(t) \/ ReplaceHead(t) \/ AddReload(t) \/ AddSwap(t)
           \/ Publish(t) \/ Leave(t) \/ ApplyUpdate(t)
<1> USE TypedTasks DEF Goto, Fail
<1>1. ASSUME NEW u \in Threads, u # t,
             \/ Ask(u) \/ Observe(u) \/ NextRevision(u) \/ Create(u) \/ Write(u)
             \/ WriteFails(u) \/ ReplaceHead(u) \/ AddReload(u) \/ AddSwap(u)
             \/ Publish(u) \/ Leave(u) \/ ApplyUpdate(u)
      PROVE  FALSE
  <2>1. CASE Ask(u) \/ Observe(u) \/ NextRevision(u) \/ Create(u)
    BY <1>1, <2>1 DEF Ask, Observe, NextRevision, Create
  <2>2. CASE Write(u) \/ WriteFails(u)
    BY <1>1, <2>2 DEF Write, AdvanceHead, WriteFails
  <2>3. CASE ReplaceHead(u) \/ AddReload(u) \/ AddSwap(u)
    BY <1>1, <2>3 DEF ReplaceHead, AddReload, AddSwap, Compare
  <2>4. CASE Publish(u) \/ Leave(u) \/ ApplyUpdate(u)
    BY <1>1, <2>4 DEF Publish, Leave, ApplyUpdate
  <2> QED
    BY <1>1, <2>1, <2>2, <2>3, <2>4
<1>2. ASSUME NEW u \in Operators, SelectHeads(u) \/ PreferHead(u) \/ SetStatus(u)
      PROVE  FALSE
  <2>1. u \in Threads
    BY RolesAssumption
  <2>2. pc[u] = "idle" /\ \E r : task' = [task EXCEPT ![u].cand = r]
        /\ pc' = [pc EXCEPT ![u] = "updating"]
    BY <1>2 DEF SelectHeads, PreferHead, SetStatus, Command
  <2> QED
    BY <2>1, <2>2
<1>3. ASSUME NEW p \in Procs, Crash(p) PROVE pc'[t] = "idle"
  BY <1>3 DEF Crash
<1>4. CASE ChangePolicy \/ Finished \/ UNCHANGED vars
  BY <1>4 DEF ChangePolicy, Finished, vars
<1> QED
  BY <1>1, <1>2, <1>3, <1>4, RolesAssumption DEF Next

\* A checkpoint that keeps losing its compare-and-swap does not go round for
\* ever, and no failure sends a call back to where it was (_advance_head and
\* add_active_head with its retries, sessions.py:229-267, registries.py:377-415).
THEOREM CallsEnd == Spec => EveryStepComesCloser
<1>1. TypeOK /\ TypeOK' /\ [Next]_vars =>
        [\A t \in Threads :
            pc[t] # "idle" /\ <<pc[t], task[t]>>' # <<pc[t], task[t]>> =>
                /\ 0 <= Left(pc[t], task[t].attempt)'
                /\ Left(pc[t], task[t].attempt)' < Left(pc[t], task[t].attempt)]_vars
  <2> SUFFICES ASSUME TypeOK, TypeOK', [Next]_vars, NEW t \in Threads,
                      pc[t] # "idle", <<pc'[t], task'[t]>> # <<pc[t], task[t]>>
               PROVE  /\ 0 <= Left(pc'[t], Tried(t)')
                      /\ Left(pc'[t], Tried(t)') < Left(pc[t], Tried(t))
    BY DEF Left, Tried
  <2>1. Moves(pc[t], Tried(t), pc'[t], Tried(t)')
    BY OthersMove, OwnMoves DEF Moves
  <2>2. /\ pc[t] \in PCs /\ Tried(t) \in 1 .. MaxAttempts
        /\ pc'[t] \in PCs /\ Tried(t)' \in 1 .. MaxAttempts
    BY DEF TypeOK, Tasks, Tried
  <2> QED
    BY <2>1, <2>2, MovesGoDown
<1> QED
  BY <1>1, TypeCorrect, PTL DEF Spec, EveryStepComesCloser
=============================================================================
