------------------------ MODULE LegacyStagingProofs ------------------------
(***************************************************************************)
(* Proofs about LegacyStaging.                                             *)
(***************************************************************************)
EXTENDS LegacyStaging, TLAPS, SequenceTheorems, FiniteSetTheorems

-----------------------------------------------------------------------------
(* Types                                                                   *)

Outcomes == {"none", "running", "staged", "failed", "cleaning", "left"}
Records == [file : Files, time : Nat, content : Contents]
Snapshots == [time : Nat, pages : Databases]

Tasks ==
    [at : 0..Len(Script), pages : Seq(Versions), stat : Nat, todo : SUBSET Files,
     looked : {None, "stat", "listed"}, seen : SUBSET Records,
     before : Snapshots \cup {None}, opened : Snapshots \cup {None},
     now : Snapshots \cup {None},
     wiki : (SUBSET Records) \cup {None}, again : (SUBSET Records) \cup {None}]

\* What a staging directory can hold.
Exports == {TablesOf[v] : v \in Versions}
Directories ==
    [copy : Seq(Versions), tables : Exports \cup {None},
     wiki : (SUBSET Records) \cup {None}]

-----------------------------------------------------------------------------
(* What a stager knows of the sources, at every place of its call          *)

\* The database file was written since this, or still is as it was read.
Holds(time, pages) ==
    /\ time <= stamp
    /\ time = stamp => \A i \in 1..Len(pages) : pages[i] = main[i]

\* The same of a wiki file.
Lasts(r) ==
    /\ r.time <= wiki[r.file].time
    /\ r.time = wiki[r.file].time => r.content = wiki[r.file].content

AtDatabase == {1, 2, 5, 8, 15, 19, 24}
AtWiki == {10, 21, 26}

ReadingFits(t) ==
    t.at \in AtDatabase =>
        /\ t.looked \in {None, "stat"}
        /\ t.looked = "stat" => Len(t.pages) < PageCount /\ Holds(t.stat, t.pages)

ScanFits(t) ==
    t.at \in AtWiki =>
        /\ t.looked = None => t.seen = {}
        /\ t.looked = "stat" => t.todo # {} /\ t.stat <= wiki[First(t.todo)].time

BeforeFits(t) ==
    /\ t.at > 1 => t.before \in Snapshots /\ Holds(t.before.time, t.before.pages)
    /\ t.at = 10 => \A r \in t.seen : Lasts(r)
    /\ t.at > 10 => t.wiki \subseteq Records /\ \A r \in t.wiki : Lasts(r)

\* The database file, as far as the last look has shown, is as it was at first.
DatabaseKept(t) ==
    /\ t.at \in {17, 18} \/ (t.at = 19 /\ t.looked = None) => stamp = t.before.time
    /\ t.at = 19 /\ t.looked = "stat" => t.stat = t.before.time
    /\ t.at > 19 => t.now = t.before

\* So is a wiki file.
FileKept(t, r) ==
    \/ wiki[r.file].time = r.time
    \/ t.at = 21 /\ r \in t.seen
    \/ t.at = 21 /\ t.looked = "stat" /\ First(t.todo) = r.file /\ t.stat = r.time
    \/ t.at = 22 /\ r \in t.again

\* At moment m the wiki held what was seen, if that has not changed since.
HeldIfKept(m, t) == \A r \in t.wiki : FileKept(t, r) => m[2][r.file] = r.content

\* After the sidecars were looked for, and after the wiki was listed again.
DatabaseMoment(t) ==
    \E m \in moments : HeldIfKept(m, t) /\ (DatabaseKept(t) => m[1] = t.before.pages)

ListingMoment(t) ==
    \E m \in moments :
        /\ HeldIfKept(m, t)
        /\ \A f \in Files : m[2][f] # 0 =>
              \/ t.at = 21 /\ f \in t.todo
              \/ \E r \in IF t.at = 21 THEN t.seen ELSE t.again : r.file = f

\* What BundlesHangTogether says of a database and a wiki.
HangsTogether(db, seen) ==
    /\ \E m \in moments : m[1] = db /\ Held(m, seen)
    /\ \E m \in moments : Held(m, seen) /\ HeldOnly(m, seen)

MomentsFit(t) ==
    /\ t.at \in 17..22 => DatabaseMoment(t)
    /\ t.at = 21 /\ t.looked # None => ListingMoment(t)
    /\ t.at = 22 => t.again \subseteq Records /\ ListingMoment(t)
    /\ t.at > 22 => HangsTogether(t.before.pages, t.wiki)

\* What is in the staging directory.
MadeFits(t, d) ==
    t.at > 0 =>
        /\ t.at < 14 => d = None
        /\ t.at >= 14 => d \in Directories
        /\ t.at = 14 => Len(d.copy) < PageCount
        /\ t.at > 14 => Len(d.copy) = PageCount

FilledFits(t, d) ==
    /\ t.at > 17 => d.copy = t.before.pages
    /\ t.at > 18 => d.tables = TablesOf[d.copy[1]]
    /\ t.at > 23 => d.wiki = t.wiki

StagingFits(t, d) == MadeFits(t, d) /\ FilledFits(t, d)

Fits(t, d) ==
    /\ ReadingFits(t) /\ ScanFits(t) /\ BeforeFits(t) /\ MomentsFit(t) /\ StagingFits(t, d)
    /\ t.at = 29 => Vacant(t)

SourcesOK ==
    /\ main \in Databases /\ stamp \in Nat /\ log \in Versions \cup {None}
    /\ wiki \in [Files -> [content : Contents, time : 0..edits]] /\ edits \in Nat
    /\ Now \in moments

StagersOK ==
    /\ task \in [Stagers -> Tasks]
    /\ staging \in [Stagers -> Directories \cup {None}]
    /\ outcome \in [Stagers -> Outcomes]
    /\ calls \in [Stagers -> 0..MaxCalls]
    /\ lock \in Stagers \cup {None}
    /\ \A p \in Stagers :
         /\ lock = p <=> InLock(p)
         /\ task[p].at > 0 <=> outcome[p] = "running"
         /\ outcome[p] \in {"none", "staged", "failed"} => staging[p] = None
         /\ outcome[p] = "staged" => \E b \in bundles : b.by = p

BundlesOK ==
    /\ \A b \in bundles :
         /\ b.copy \in Databases /\ b.by \in Stagers
         /\ b.copy = b.name /\ b.tables = TablesOf[b.copy[1]]
         /\ HangsTogether(b.copy, b.wiki)
    /\ \A b, c \in bundles : b.name = c.name => b = c

AllFit == \A p \in Stagers : Fits(task[p], staging[p])

IInv == SourcesOK /\ StagersOK /\ BundlesOK /\ AllFit
-----------------------------------------------------------------------------
(* Places                                                                  *)

LEMMA Places ==
    /\ Len(Script) = 29 /\ DOMAIN Script = 1..29
    /\ \A i \in 1..29 :
         /\ Script[i] = "before" <=> i = 1
         /\ Script[i] = "opened" <=> i = 2
         /\ Script[i] = "now" <=> i \in {5, 8, 15, 19, 24}
         /\ Script[i] = "wiki" <=> i = 10
         /\ Script[i] = "again" <=> i \in {21, 26}
         /\ Script[i] = "sidecars" <=> i \in {3, 6, 16, 20, 25}
         /\ Script[i] = "tables" <=> i = 4
         /\ Script[i] = "inspected" <=> i = 7
         /\ Script[i] = "unchanged" <=> i = 9
         /\ Script[i] = "lock" <=> i = 11
         /\ Script[i] = "vacant" <=> i \in {12, 28}
         /\ Script[i] = "make" <=> i = 13
         /\ Script[i] = "copy" <=> i = 14
         /\ Script[i] = "copied" <=> i = 17
         /\ Script[i] = "export" <=> i = 18
         /\ Script[i] = "sources" <=> i \in {22, 27}
         /\ Script[i] = "manifest" <=> i = 23
         /\ Script[i] = "publish" <=> i = 29
BY DEF Script

LEMMA PlaceOf == ASSUME NEW t \in Tasks PROVE t.at \in Nat /\ t.at <= 29
<1>1. t.at \in 0..Len(Script)
    BY DEF Tasks
<1> QED
    BY <1>1, Places

\* What a call is about to do tells its place.
LEMMA StepIs ==
    ASSUME StagersOK, NEW p \in Stagers, Step(p) # "none"
    PROVE  LET k == task[p].at IN
             /\ task[p] \in Tasks /\ outcome[p] = "running"
             /\ k \in Nat /\ 0 < k /\ k <= 29
             /\ Step(p) \in DatabaseLooks => k \in AtDatabase
             /\ Step(p) \in WikiLooks => k \in AtWiki
             /\ Step(p) = "before" => k = 1
             /\ Step(p) = "opened" => k = 2
             /\ Step(p) = "now" => k \in {5, 8, 15, 19, 24}
             /\ Step(p) = "wiki" => k = 10
             /\ Step(p) = "again" => k \in {21, 26}
             /\ Step(p) = "sidecars" => k \in {3, 6, 16, 20, 25}
             /\ Step(p) = "tables" => k = 4
             /\ Step(p) = "inspected" => k = 7
             /\ Step(p) = "unchanged" => k = 9
             /\ Step(p) = "lock" => k = 11
             /\ Step(p) = "vacant" => k \in {12, 28}
             /\ Step(p) = "make" => k = 13
             /\ Step(p) = "copy" => k = 14
             /\ Step(p) = "copied" => k = 17
             /\ Step(p) = "export" => k = 18
             /\ Step(p) = "sources" => k \in {22, 27}
             /\ Step(p) = "manifest" => k = 23
             /\ Step(p) = "publish" => k = 29
<1> DEFINE k == task[p].at
<1>1. task[p] \in Tasks /\ k \in Nat /\ k <= 29
    BY PlaceOf DEF StagersOK
<1>2. k \in 1..29 /\ Step(p) = Script[k]
    BY Places DEF Step
<1>3. outcome[p] = "running"
    BY <1>2 DEF StagersOK
<1> HIDE DEF k
<1> QED
    BY <1>1, <1>2, <1>3, Places DEF DatabaseLooks, WikiLooks, AtDatabase, AtWiki, k

LEMMA NextIs ==
    ASSUME NEW t \in Tasks, t.at < 29
    PROVE  /\ Next1(t) \in Tasks /\ Next1(t).at = t.at + 1
           /\ Next1(t).looked = None /\ Next1(t).seen = {} /\ Next1(t).todo = {}
           /\ Next1(t).pages = <<>> /\ Next1(t).stat = 0
           /\ Next1(t).before = t.before /\ Next1(t).opened = t.opened /\ Next1(t).now = t.now
           /\ Next1(t).wiki = t.wiki /\ Next1(t).again = t.again
<1>1. t.at \in Nat /\ t.at + 1 \in 0..29
    BY PlaceOf
<1>2. <<>> \in Seq(Versions) /\ 0 \in Nat /\ {} \in SUBSET Files /\ {} \in SUBSET Records
    OBVIOUS
<1> QED
    BY <1>1, <1>2, Places DEF Next1, Tasks

LEMMA NoTaskIs == NoTask \in Tasks /\ NoTask.at = 0
BY Places DEF NoTask, Tasks

-----------------------------------------------------------------------------
(* Steps of the owners                                                     *)

\* What every step leaves true of what was read before.
SourcesGoOn ==
    /\ stamp <= stamp' /\ (stamp' = stamp => main' = main)
    /\ \A f \in Files : wiki'[f] = wiki[f] \/ wiki[f].time < wiki'[f].time
    /\ moments \subseteq moments'

LEMMA HoldsStill ==
    ASSUME SourcesOK, SourcesOK', SourcesGoOn, NEW time \in Nat, NEW pages, Holds(time, pages)
    PROVE  Holds(time, pages)'
BY DEF SourcesOK, SourcesGoOn, Holds

LEMMA LastsStill ==
    ASSUME SourcesOK, SourcesOK', SourcesGoOn, NEW r \in Records, Lasts(r)
    PROVE  /\ Lasts(r)'
           /\ wiki'[r.file].time = r.time => wiki[r.file].time = r.time
<1>1. wiki[r.file].time \in Nat /\ wiki'[r.file].time \in Nat /\ r.time \in Nat
    BY DEF SourcesOK, Records
<1> QED
    BY <1>1 DEF SourcesGoOn, Lasts, Records

LEMMA TogetherStill ==
    ASSUME SourcesGoOn, NEW db, NEW seen, HangsTogether(db, seen)
    PROVE  HangsTogether(db, seen)'
BY DEF SourcesGoOn, HangsTogether, Held, HeldOnly

LEMMA FitsStill ==
    ASSUME SourcesOK, SourcesOK', SourcesGoOn, UNCHANGED bundles, NEW t \in Tasks, NEW d,
           Fits(t, d)
    PROVE  Fits(t, d)'
<1>1. t.at \in Nat /\ t.stat \in Nat /\ t.todo \subseteq Files /\ t.seen \subseteq Records
    BY PlaceOf DEF Tasks
<1>2. ReadingFits(t)'
    BY <1>1, HoldsStill DEF Fits, ReadingFits
<1>3. ScanFits(t)'
    <2>1. ASSUME t.at \in AtWiki, t.looked = "stat" PROVE t.stat <= wiki'[First(t.todo)].time
        <3>1. First(t.todo) \in Files /\ t.stat <= wiki[First(t.todo)].time
            BY <1>1, <2>1 DEF Fits, ScanFits, First
        <3> QED
            BY <1>1, <3>1 DEF SourcesOK, SourcesGoOn
    <2> QED
        BY <2>1 DEF Fits, ScanFits
<1>4. BeforeFits(t)'
    BY <1>1, HoldsStill, LastsStill DEF Fits, BeforeFits, Snapshots
<1>5. ASSUME t.at \in 17..22, NEW m, HeldIfKept(m, t) PROVE HeldIfKept(m, t)'
    BY <1>1, <1>5, LastsStill DEF Fits, BeforeFits, HeldIfKept, FileKept
<1>6. ASSUME t.at \in 17..22, DatabaseKept(t)' PROVE DatabaseKept(t)
    BY <1>1, <1>6 DEF Fits, BeforeFits, Snapshots, Holds, DatabaseKept, SourcesOK, SourcesGoOn
<1>7. t.at \in 17..22 => DatabaseMoment(t)'
    BY <1>5, <1>6 DEF Fits, MomentsFit, DatabaseMoment, SourcesGoOn
<1>8. (t.at = 21 /\ t.looked # None) \/ t.at = 22 => ListingMoment(t)'
    BY <1>5 DEF Fits, MomentsFit, ListingMoment, SourcesGoOn
<1>9. MomentsFit(t)'
    BY <1>7, <1>8, TogetherStill DEF Fits, MomentsFit
<1> QED
    BY <1>2, <1>3, <1>4, <1>9 DEF Fits, StagingFits, MadeFits, FilledFits, Vacant

LEMMA OwnersKeep ==
    ASSUME IInv, SourcesOK', SourcesGoOn,
           UNCHANGED <<lock, staging, bundles, task, outcome, calls>>
    PROVE  IInv'
<1>1. StagersOK'
    BY DEF IInv, StagersOK, InLock
<1>2. BundlesOK'
    BY TogetherStill DEF IInv, BundlesOK
<1>3. AllFit'
    BY FitsStill DEF IInv, AllFit, StagersOK
<1> QED
    BY <1>1, <1>2, <1>3 DEF IInv

LEMMA CommitFits ==
    ASSUME IInv, Commit PROVE IInv'
<1>1. Version \in Versions
    BY NumbersAssumption DEF IInv, SourcesOK, Version, Databases, Pages, Versions
<1>2. log' \in Versions
    BY <1>1, NumbersAssumption DEF Commit, Versions
<1>3. SourcesOK'
    BY <1>2 DEF Commit, IInv, SourcesOK
<1>4. SourcesGoOn
    BY DEF Commit, IInv, SourcesOK, SourcesGoOn
<1> QED
    BY <1>3, <1>4, OwnersKeep DEF Commit

LEMMA CheckpointFits ==
    ASSUME IInv, NEW k \in Pages, CheckpointPage(k) PROVE IInv'
<1>1. main' \in Databases /\ stamp' \in Nat /\ stamp < stamp'
    BY DEF CheckpointPage, IInv, SourcesOK, Databases
<1>2. Now' = Now
    BY DEF CheckpointPage, Now, Logical
<1>3. SourcesOK'
    BY <1>1, <1>2 DEF CheckpointPage, IInv, SourcesOK
<1>4. SourcesGoOn
    BY <1>1 DEF CheckpointPage, IInv, SourcesOK, SourcesGoOn
<1> QED
    BY <1>3, <1>4, OwnersKeep DEF CheckpointPage

LEMMA CloseFits ==
    ASSUME IInv, CloseDatabase PROVE IInv'
<1>1. main = [k \in Pages |-> log]
    BY DEF CloseDatabase, IInv, SourcesOK, Databases
<1>2. Now' = Now
    BY <1>1 DEF CloseDatabase, Now, Logical
<1>3. SourcesOK'
    BY <1>2 DEF CloseDatabase, IInv, SourcesOK
<1>4. SourcesGoOn
    BY DEF CloseDatabase, IInv, SourcesOK, SourcesGoOn
<1> QED
    BY <1>3, <1>4, OwnersKeep DEF CloseDatabase

LEMMA EditFits ==
    ASSUME IInv, NEW f \in Files, EditWiki(f) PROVE IInv'
<1>1. PICK c \in Contents : wiki' = [wiki EXCEPT ![f] = [content |-> c, time |-> edits + 1]]
    BY DEF EditWiki
<1>2. edits \in Nat /\ edits' = edits + 1
    BY DEF EditWiki, IInv, SourcesOK
<1>3. wiki' \in [Files -> [content : Contents, time : 0..edits']]
    BY <1>1, <1>2 DEF IInv, SourcesOK
<1>4. SourcesOK'
    BY <1>2, <1>3 DEF EditWiki, IInv, SourcesOK
<1>5. \A g \in Files : wiki'[g] = wiki[g] \/ wiki[g].time < wiki'[g].time
    BY <1>1, <1>2 DEF IInv, SourcesOK
<1>6. SourcesGoOn
    BY <1>5 DEF EditWiki, IInv, SourcesOK, SourcesGoOn
<1> QED
    BY <1>4, <1>6, OwnersKeep DEF EditWiki
-----------------------------------------------------------------------------
(* How a stager moves                                                      *)

LEMMA OneMoves ==
    ASSUME IInv, NEW p \in Stagers, NEW t \in Tasks, NEW d \in Directories \cup {None},
           task' = [task EXCEPT ![p] = t], staging' = [staging EXCEPT ![p] = d],
           UNCHANGED <<sources, bundles>>, StagersOK', Fits(t, d)
    PROVE  IInv'
<1>1. SourcesOK' /\ BundlesOK'
    BY DEF IInv, sources, SourcesOK, Now, Logical, BundlesOK, HangsTogether
<1>2. ASSUME NEW u \in Tasks, NEW e, Fits(u, e) PROVE Fits(u, e)'
    <2>1. ReadingFits(u)' /\ ScanFits(u)' /\ BeforeFits(u)'
        BY <1>2 DEF sources, Fits, ReadingFits, ScanFits, BeforeFits, Holds, Lasts
    <2>2. MomentsFit(u)'
        BY <1>2 DEF sources, Fits, MomentsFit, DatabaseMoment, ListingMoment, HeldIfKept,
                    FileKept, DatabaseKept, HangsTogether
    <2> QED
        BY <1>2, <2>1, <2>2 DEF Fits, StagingFits, MadeFits, FilledFits, Vacant
<1>3. ASSUME NEW q \in Stagers PROVE Fits(task[q], staging[q])'
    <2>1. /\ task'[q] = (IF q = p THEN t ELSE task[q])
          /\ staging'[q] = (IF q = p THEN d ELSE staging[q])
        BY DEF IInv, StagersOK
    <2>2. Fits(task[q], staging[q]) /\ task[q] \in Tasks
        BY DEF IInv, AllFit, StagersOK
    <2>3. Fits(task'[q], staging'[q])
        BY <2>1, <2>2
    <2>4. task'[q] \in Tasks
        BY <2>1, <2>2
    <2> QED
        BY <1>2, <2>1, <2>2
<1> QED
    BY <1>1, <1>3 DEF IInv, AllFit

\* A stager goes on and writes into its directory, or only looks.
LEMMA WritingOn ==
    ASSUME IInv, NEW p \in Stagers, NEW t \in Tasks, NEW d \in Directories \cup {None},
           Written(p, d, t), outcome[p] = "running", t.at > 0,
           t.at > LockAt <=> task[p].at > LockAt, Fits(t, d)
    PROVE  IInv'
<1>1. /\ task' = [task EXCEPT ![p] = t] /\ staging' = [staging EXCEPT ![p] = d]
      /\ UNCHANGED <<sources, lock, bundles, outcome, calls>>
    BY DEF Written, Goes
<1>2. StagersOK'
    BY <1>1 DEF IInv, StagersOK, InLock
<1> QED
    BY <1>1, <1>2, OneMoves

LEMMA GoesOn ==
    ASSUME IInv, NEW p \in Stagers, NEW t \in Tasks, Goes(p, t), Look,
           outcome[p] = "running", t.at > 0, t.at > LockAt <=> task[p].at > LockAt,
           Fits(t, staging[p])
    PROVE  IInv'
<1>1. staging[p] \in Directories \cup {None} /\ staging' = [staging EXCEPT ![p] = staging[p]]
    BY DEF IInv, StagersOK, Look
<1>2. Written(p, staging[p], t)
    BY <1>1 DEF Written, Look
<1> QED
    BY <1>1, <1>2, WritingOn

\* Of a call that has ended nothing is asked.
LEMMA EndedFits == ASSUME NEW d PROVE Fits(NoTask, d)
BY DEF NoTask, Fits, ReadingFits, ScanFits, BeforeFits, MomentsFit, StagingFits, MadeFits,
       FilledFits, AtDatabase, AtWiki

LEMMA Ending ==
    ASSUME IInv, NEW p \in Stagers, NEW d \in {staging[p], None},
           NEW o \in Outcomes \ {"running"},
           lock' = Unlocked(p), Goes(p, NoTask), outcome' = [outcome EXCEPT ![p] = o],
           staging' = [staging EXCEPT ![p] = d], UNCHANGED <<sources, bundles, calls>>,
           o \in {"none", "staged", "failed"} => d = None,
           o = "staged" => \E b \in bundles : b.by = p
    PROVE  IInv'
<1>1. task' = [task EXCEPT ![p] = NoTask] /\ d \in Directories \cup {None}
    BY DEF Goes, IInv, StagersOK
<1>2. \A q \in Stagers : lock' = q <=> (q # p /\ lock = q)
    BY NoneAssumption DEF Unlocked
<1>3. lock' \in Stagers \cup {None}
    BY DEF Unlocked, IInv, StagersOK
<1>4. /\ task' \in [Stagers -> Tasks] /\ staging' \in [Stagers -> Directories \cup {None}]
      /\ outcome' \in [Stagers -> Outcomes]
    BY <1>1, NoTaskIs DEF IInv, StagersOK
<1>5. \A q \in Stagers :
         /\ task'[q] = (IF q = p THEN NoTask ELSE task[q])
         /\ staging'[q] = (IF q = p THEN d ELSE staging[q])
         /\ outcome'[q] = (IF q = p THEN o ELSE outcome[q])
    BY <1>1 DEF IInv, StagersOK
<1>6. StagersOK'
    BY <1>2, <1>3, <1>4, <1>5, NoTaskIs DEF IInv, StagersOK, InLock, LockAt
<1> QED
    BY <1>1, <1>6, NoTaskIs, EndedFits, OneMoves

LEMMA FailFits ==
    ASSUME IInv, NEW p \in Stagers, Fail(p) PROVE IInv'
<1>1. staging' = [staging EXCEPT ![p] = staging[p]]
    BY DEF Fail, IInv, StagersOK
<1> DEFINE o == IF MustClean(p) THEN "cleaning" ELSE "failed"
<1>2. o \in Outcomes \ {"running"} /\ (o \in {"none", "staged", "failed"} => staging[p] = None)
      /\ o # "staged"
    BY DEF MustClean, Outcomes
<1>3. outcome' = [outcome EXCEPT ![p] = o]
    BY DEF Fail
<1> HIDE DEF o
<1> QED
    BY <1>1, <1>2, <1>3, Ending DEF Fail

LEMMA DieFits ==
    ASSUME IInv, NEW p \in Stagers, Die(p) PROVE IInv'
<1>1. staging' = [staging EXCEPT ![p] = staging[p]]
    BY DEF Die, IInv, StagersOK
<1> QED
    BY <1>1, Ending DEF Die, Outcomes

LEMMA CleanFits ==
    ASSUME IInv, NEW p \in Stagers, Clean(p) PROVE IInv'
<1>1. task[p].at = 0 /\ task[p] \in Tasks /\ lock # p
    BY PlaceOf DEF Clean, IInv, StagersOK, InLock, LockAt
<1>2. Fits(task[p], None)
    BY <1>1 DEF Fits, ReadingFits, ScanFits, BeforeFits, MomentsFit, StagingFits,
                MadeFits, FilledFits, AtDatabase, AtWiki
<1>3. task' = [task EXCEPT ![p] = task[p]]
    BY DEF Clean, IInv, StagersOK
<1>4. StagersOK'
    BY DEF Clean, IInv, StagersOK, InLock, Outcomes
<1> QED
    BY <1>1, <1>2, <1>3, <1>4, OneMoves DEF Clean

LEMMA StageFits ==
    ASSUME IInv, NEW p \in Stagers, Stage(p) PROVE IInv'
<1> DEFINE t == Next1(NoTask)
<1>1. t \in Tasks /\ t.at = 1 /\ t.looked = None
    BY NoTaskIs, NextIs
<1> HIDE DEF t
<1>2. task' = [task EXCEPT ![p] = t] /\ staging' = [staging EXCEPT ![p] = None]
    BY DEF Stage, Goes, t, IInv, StagersOK
<1>3. calls' \in [Stagers -> 0..MaxCalls]
    BY NumbersAssumption DEF Stage, IInv, StagersOK
<1>4. task[p].at \in Nat /\ task[p].at <= 29 /\ task[p].at = 0
    BY PlaceOf DEF Stage, IInv, StagersOK
<1>5. \A q \in Stagers :
         /\ task'[q] = (IF q = p THEN t ELSE task[q])
         /\ outcome'[q] = (IF q = p THEN "running" ELSE outcome[q])
    BY <1>2 DEF Stage, IInv, StagersOK
<1>6. /\ task' \in [Stagers -> Tasks] /\ outcome' \in [Stagers -> Outcomes]
    BY <1>1, <1>2 DEF Stage, IInv, StagersOK, Outcomes
<1>7. StagersOK'
    BY <1>1, <1>3, <1>4, <1>5, <1>6 DEF Stage, IInv, StagersOK, InLock, LockAt
<1>8. Fits(t, None)
    BY <1>1, NoneAssumption DEF Fits, ReadingFits, ScanFits, BeforeFits, MomentsFit,
           StagingFits, MadeFits, FilledFits, AtDatabase, AtWiki
<1> QED
    BY <1>1, <1>2, <1>7, <1>8, OneMoves DEF Stage
-----------------------------------------------------------------------------
(* From one place to the next                                              *)

LEMMA NextFits ==
    ASSUME NEW t \in Tasks, t.at < 29, NEW d,
           BeforeFits(Next1(t)), MomentsFit(Next1(t)), StagingFits(Next1(t), d),
           t.at = 28 => Vacant(t)
    PROVE  Fits(Next1(t), d)
<1> DEFINE u == Next1(t)
<1>1. /\ u \in Tasks /\ u.at = t.at + 1 /\ u.looked = None /\ u.seen = {}
      /\ u.before = t.before /\ t.at \in Nat
    BY NextIs, PlaceOf
<1>2. BeforeFits(u) /\ MomentsFit(u) /\ StagingFits(u, d)
    OBVIOUS
<1> HIDE DEF u
<1>3. ReadingFits(u) /\ ScanFits(u)
    BY <1>1, NoneAssumption DEF ReadingFits, ScanFits
<1>4. u.at = 29 => Vacant(u)
    BY <1>1 DEF Vacant
<1>5. Fits(u, d)
    BY <1>2, <1>3, <1>4 DEF Fits
<1> QED
    BY <1>5 DEF u

LEMMA BeforeKept ==
    ASSUME NEW t \in Tasks, 1 < t.at, t.at < 29, t.at # 10, BeforeFits(t)
    PROVE  BeforeFits(Next1(t))
<1> DEFINE u == Next1(t)
<1>1. /\ t.at \in Nat /\ u.at = t.at + 1
      /\ u.before = t.before /\ u.wiki = t.wiki /\ u.seen = {}
    BY NextIs, PlaceOf
<1> HIDE DEF u
<1>2. BeforeFits(u)
    BY <1>1 DEF BeforeFits
<1> QED
    BY <1>2 DEF u

LEMMA StagingKept ==
    ASSUME NEW t \in Tasks, 0 < t.at, t.at < 29, t.at \notin {13, 14, 17, 18, 23}, NEW d,
           StagingFits(t, d)
    PROVE  StagingFits(Next1(t), d)
<1> t.at \in Nat
    BY PlaceOf
<1> DEFINE u == Next1(t)
<1>1. /\ t.at \in Nat /\ u.at = t.at + 1 /\ u.before = t.before /\ u.wiki = t.wiki
    BY NextIs, PlaceOf
<1> SUFFICES StagingFits(u, d)
    OBVIOUS
<1> HIDE DEF u
<1>2. MadeFits(u, d)
    <2>1. CASE t.at < 13
        BY <1>1, <2>1 DEF StagingFits, MadeFits
    <2>2. CASE t.at > 14
        <3>1. d \in Directories
            BY <2>2 DEF StagingFits, MadeFits
        <3>2. Len(d.copy) = PageCount
            BY <2>2 DEF StagingFits, MadeFits
        <3> QED
            BY <1>1, <2>2, <3>1, <3>2 DEF MadeFits
    <2> QED
        BY <2>1, <2>2
<1>3. FilledFits(u, d)
    BY <1>1 DEF StagingFits, FilledFits
<1> QED
    BY <1>2, <1>3 DEF StagingFits

LEMMA MomentsKept ==
    ASSUME NEW t \in Tasks, 0 < t.at, t.at < 29, t.at \notin {16, 19, 21, 22}, MomentsFit(t)
    PROVE  MomentsFit(Next1(t))
<1> t.at \in Nat
    BY PlaceOf
<1> DEFINE u == Next1(t)
<1>1. /\ u.at = t.at + 1 /\ u.looked = None /\ u.before = t.before /\ u.now = t.now
      /\ u.wiki = t.wiki /\ u.seen = {} /\ t.at \in Nat
    BY NextIs, PlaceOf
<1> HIDE DEF u
<1>2. CASE t.at \in {17, 18, 20}
    <2>1. \A m : HeldIfKept(m, t) => HeldIfKept(m, u)
        BY <1>1, <1>2, NoneAssumption DEF HeldIfKept, FileKept
    <2>2. DatabaseKept(u) => DatabaseKept(t)
        BY <1>1, <1>2, NoneAssumption DEF DatabaseKept
    <2>3. DatabaseMoment(u)
        BY <1>1, <1>2, <2>1, <2>2 DEF MomentsFit, DatabaseMoment
    <2>4. MomentsFit(u)
        BY <1>1, <1>2, <2>3 DEF MomentsFit
    <2> QED
        BY <2>4 DEF u
<1>3. CASE t.at < 16 \/ t.at > 22
    <2>1. MomentsFit(u)
        BY <1>1, <1>3 DEF MomentsFit
    <2> QED
        BY <2>1 DEF u
<1> QED
    BY <1>2, <1>3

LEMMA PlainNext ==
    ASSUME NEW t \in Tasks, NEW d, Fits(t, d), 1 < t.at, t.at < 28,
           t.at \notin {10, 13, 14, 16, 17, 18, 19, 21, 22, 23}
    PROVE  Fits(Next1(t), d)
<1> t.at \in Nat
    BY PlaceOf
<1>1. BeforeFits(Next1(t)) /\ MomentsFit(Next1(t)) /\ StagingFits(Next1(t), d)
    BY BeforeKept, MomentsKept, StagingKept DEF Fits
<1> QED
    BY <1>1, NextFits

-----------------------------------------------------------------------------
(* Looks at the database                                                   *)

LEMMA PagesAreDatabase ==
    ASSUME NEW pages \in Databases
    PROVE  pages \in Seq(Versions) /\ Len(pages) = PageCount
<1>1. pages \in [1..PageCount -> Versions] /\ PageCount \in Nat
    BY NumbersAssumption DEF Databases, Pages
<1> QED
    BY <1>1

LEMMA StatFits ==
    ASSUME IInv, NEW p \in Stagers, Stat(p) PROVE IInv'
<1> DEFINE t == [task[p] EXCEPT !.looked = "stat", !.stat = stamp]
<1>1. /\ task[p] \in Tasks /\ task[p].at \in AtDatabase /\ outcome[p] = "running"
      /\ task[p].looked = None /\ task[p].pages = <<>>
    BY StepIs DEF Stat, IInv, DatabaseLooks
<1>2. Fits(task[p], staging[p]) /\ stamp \in Nat /\ main \in Databases
    BY DEF IInv, AllFit, SourcesOK
<1>3. /\ t \in Tasks /\ t.at = task[p].at /\ t.looked = "stat" /\ t.stat = stamp
      /\ t.pages = <<>> /\ t.before = task[p].before /\ t.wiki = task[p].wiki
      /\ t.now = task[p].now /\ t.again = task[p].again /\ t.seen = task[p].seen
    BY <1>1, <1>2 DEF Tasks
<1>4. Goes(p, t) /\ Look
    BY DEF Stat
<1> HIDE DEF t
<1>5. ReadingFits(t)
    BY <1>2, <1>3, NumbersAssumption DEF ReadingFits, Holds
<1>6. ScanFits(t) /\ BeforeFits(t)
    BY <1>1, <1>2, <1>3 DEF Fits, ScanFits, BeforeFits, AtWiki, AtDatabase
<1>7. MomentsFit(t)
    <2>1. CASE t.at = 19
        <3>1. \A m : HeldIfKept(m, task[p]) => HeldIfKept(m, t)
            BY <1>3, <2>1 DEF HeldIfKept, FileKept
        <3>2. DatabaseKept(t) => DatabaseKept(task[p])
            BY <1>1, <1>3, <2>1, NoneAssumption DEF DatabaseKept
        <3> QED
            BY <1>2, <1>3, <2>1, <3>1, <3>2 DEF Fits, MomentsFit, DatabaseMoment
    <2>2. CASE t.at # 19
        BY <1>1, <1>2, <1>3, <2>2 DEF Fits, MomentsFit, AtDatabase
    <2> QED
        BY <2>1, <2>2
<1>8. StagingFits(t, staging[p]) /\ (t.at = 29 => Vacant(t))
    BY <1>2, <1>3 DEF Fits, StagingFits, MadeFits, FilledFits, Vacant
<1>9. Fits(t, staging[p])
    BY <1>5, <1>6, <1>7, <1>8 DEF Fits
<1> QED
    BY <1>1, <1>3, <1>4, <1>9, GoesOn DEF AtDatabase

\* The next page, while no write has come between.
LEMMA OnePageMore ==
    ASSUME SourcesOK, NEW t \in Tasks, Len(t.pages) < PageCount, Holds(t.stat, t.pages)
    PROVE  LET pages == Append(t.pages, main[Len(t.pages) + 1]) IN
             /\ pages \in Seq(Versions) /\ Len(pages) = Len(t.pages) + 1
             /\ Holds(t.stat, pages)
             /\ ~ Len(pages) < PageCount => pages \in Databases
<1> DEFINE pages == Append(t.pages, main[Len(t.pages) + 1])
<1>1. t.pages \in Seq(Versions) /\ Len(t.pages) \in Nat /\ PageCount \in Nat
    BY NumbersAssumption DEF Tasks
<1>2. main[Len(t.pages) + 1] \in Versions
    BY <1>1 DEF SourcesOK, Databases, Pages
<1>3. /\ pages \in Seq(Versions) /\ Len(pages) = Len(t.pages) + 1
      /\ \A i \in 1..Len(t.pages) : pages[i] = t.pages[i]
      /\ pages[Len(t.pages) + 1] = main[Len(t.pages) + 1]
    BY <1>1, <1>2, AppendProperties
<1> HIDE DEF pages
<1>4. Holds(t.stat, pages)
    BY <1>1, <1>3 DEF Holds
<1>5. ~ Len(pages) < PageCount => pages \in [1..PageCount -> Versions]
    BY <1>1, <1>3, LenProperties
<1>6. pages \in Seq(Versions) /\ Len(pages) = Len(t.pages) + 1
    BY <1>3
<1> QED
    BY <1>4, <1>5, <1>6 DEF pages, Databases, Pages
\* A step that looks and goes on to the next place, or ends the call.
LEMMA NextGoesOn ==
    ASSUME IInv, NEW p \in Stagers, NEW t \in Tasks, Goes(p, Next1(t)), Look,
           outcome[p] = "running", t.at = task[p].at, t.at < 29, t.at # LockAt,
           Fits(Next1(t), staging[p])
    PROVE  IInv'
<1> DEFINE u == Next1(t)
<1>1. u \in Tasks /\ u.at = t.at + 1 /\ t.at \in Nat
    BY NextIs, PlaceOf
<1>2. Goes(p, u) /\ Fits(u, staging[p])
    OBVIOUS
<1> HIDE DEF u
<1> QED
    BY <1>1, <1>2, GoesOn DEF LockAt

LEMMA ReadPageFits ==
    ASSUME IInv, NEW p \in Stagers, ReadPage(p) PROVE IInv'
<1> DEFINE pages == Append(task[p].pages, main[Len(task[p].pages) + 1])
           x == [time |-> task[p].stat, pages |-> pages]
           more == [task[p] EXCEPT !.pages = pages]
           done == [task[p] EXCEPT ![Step(p)] = x]
<1>1. /\ task[p] \in Tasks /\ task[p].at \in AtDatabase /\ outcome[p] = "running"
      /\ task[p].looked = "stat" /\ Step(p) \in DatabaseLooks /\ Look
      /\ IF Len(pages) < PageCount THEN Goes(p, more) ELSE Goes(p, Next1(done))
    BY StepIs DEF ReadPage, IInv, DatabaseLooks
<1>2. /\ Fits(task[p], staging[p]) /\ SourcesOK
      /\ Len(task[p].pages) < PageCount /\ Holds(task[p].stat, task[p].pages)
    BY <1>1 DEF IInv, AllFit, Fits, ReadingFits
<1>3. /\ pages \in Seq(Versions) /\ Holds(task[p].stat, pages)
      /\ ~ Len(pages) < PageCount => pages \in Databases
    BY <1>1, <1>2, OnePageMore
<1> HIDE DEF pages
<1>4. CASE Len(pages) < PageCount
    <2>1. /\ more \in Tasks /\ more.at = task[p].at /\ more.looked = "stat"
          /\ more.stat = task[p].stat /\ more.pages = pages
          /\ more.before = task[p].before /\ more.wiki = task[p].wiki
          /\ more.now = task[p].now /\ more.again = task[p].again
        BY <1>1, <1>3 DEF Tasks
    <2>2. Goes(p, more)
        BY <1>1, <1>4
    <2> HIDE DEF more
    <2>3. ReadingFits(more)
        BY <1>3, <1>4, <2>1 DEF ReadingFits
    <2>4. ScanFits(more) /\ BeforeFits(more)
        BY <1>1, <1>2, <2>1 DEF Fits, ScanFits, BeforeFits, AtWiki, AtDatabase
    <2>5. MomentsFit(more)
        <3>1. CASE more.at = 19
            <4>1. \A m : HeldIfKept(m, task[p]) => HeldIfKept(m, more)
                BY <2>1, <3>1 DEF HeldIfKept, FileKept
            <4>2. DatabaseKept(more) => DatabaseKept(task[p])
                BY <1>1, <2>1, <3>1, NoneAssumption DEF DatabaseKept
            <4> QED
                BY <1>2, <2>1, <3>1, <4>1, <4>2 DEF Fits, MomentsFit, DatabaseMoment
        <3>2. CASE more.at # 19
            BY <1>1, <1>2, <2>1, <3>2 DEF Fits, MomentsFit, AtDatabase
        <3> QED
            BY <3>1, <3>2
    <2>6. StagingFits(more, staging[p]) /\ (more.at = 29 => Vacant(more))
        BY <1>2, <2>1 DEF Fits, StagingFits, MadeFits, FilledFits, Vacant
    <2>7. Fits(more, staging[p])
        BY <2>3, <2>4, <2>5, <2>6 DEF Fits
    <2> QED
        BY <1>1, <2>1, <2>2, <2>7, GoesOn DEF AtDatabase
<1>5. CASE ~ Len(pages) < PageCount
    <2>1. x \in Snapshots /\ x.time = task[p].stat /\ x.pages = pages
        BY <1>1, <1>3, <1>5 DEF Snapshots, Tasks
    <2> HIDE DEF x
    <2>2. /\ done \in Tasks /\ done.at = task[p].at
          /\ done.wiki = task[p].wiki /\ done.again = task[p].again
          /\ done.before = (IF Step(p) = "before" THEN x ELSE task[p].before)
          /\ done.now = (IF Step(p) = "now" THEN x ELSE task[p].now)
        BY <1>1, <2>1 DEF Tasks, DatabaseLooks
    <2>3. Goes(p, Next1(done))
        BY <1>1, <1>5
    <2>4. /\ Step(p) = "before" => task[p].at = 1
          /\ Step(p) = "opened" => task[p].at = 2
          /\ Step(p) = "now" => task[p].at \in {5, 8, 15, 19, 24}
        BY <1>1, StepIs DEF IInv, DatabaseLooks
    <2> HIDE DEF done
    <2>5. /\ done.at \in AtDatabase /\ done.at \in Nat /\ done.at < 29 /\ done.at > 0
          /\ done.at # LockAt
        BY <1>1, <2>2 DEF AtDatabase, LockAt
    <2> DEFINE u == Next1(done)
    <2>6. /\ u \in Tasks /\ u.at = done.at + 1 /\ u.looked = None /\ u.seen = {}
          /\ u.before = done.before /\ u.now = done.now /\ u.wiki = done.wiki
        BY <2>2, <2>5, NextIs
    <2>7. done.at # 1 => done.before = task[p].before
        BY <2>2, <2>4
    <2>8. StagingFits(done, staging[p])
        BY <1>2, <2>2, <2>5, <2>7 DEF Fits, StagingFits, MadeFits, FilledFits
    <2>9. StagingFits(u, staging[p])
        BY <2>2, <2>5, <2>8, StagingKept DEF AtDatabase
    <2>10. BeforeFits(u)
        <3>1. CASE done.at = 1
            <4>1. u.before = x
                BY <1>1, <2>2, <2>4, <2>6, <3>1 DEF DatabaseLooks
            <4> HIDE DEF u
            <4> QED
                BY <1>3, <2>1, <2>6, <3>1, <4>1 DEF BeforeFits
        <3>2. CASE done.at # 1
            <4>1. BeforeFits(done)
                BY <1>2, <2>2, <2>5, <2>7, <3>2 DEF Fits, BeforeFits, AtDatabase
            <4> QED
                BY <2>2, <2>5, <3>2, <4>1, BeforeKept DEF AtDatabase
        <3> QED
            BY <3>1, <3>2
    <2>11. MomentsFit(u)
        <3>1. CASE done.at = 19
            <4> HIDE DEF u
            <4>1. \A m : HeldIfKept(m, task[p]) => HeldIfKept(m, u)
                BY <2>2, <2>6, <3>1 DEF HeldIfKept, FileKept
            <4>2. u.before = task[p].before /\ u.now = x
                BY <1>1, <2>2, <2>4, <2>6, <3>1 DEF DatabaseLooks
            <4>3. DatabaseKept(u) => DatabaseKept(task[p])
                BY <1>1, <2>1, <2>2, <2>6, <3>1, <4>2, NoneAssumption DEF DatabaseKept
            <4> QED
                BY <1>2, <2>2, <2>6, <3>1, <4>1, <4>2, <4>3 DEF Fits, MomentsFit, DatabaseMoment
        <3>2. CASE done.at # 19
            <4>1. MomentsFit(done)
                BY <1>2, <2>2, <2>5, <2>7, <3>2 DEF Fits, MomentsFit, AtDatabase
            <4> QED
                BY <2>2, <2>5, <3>2, <4>1, MomentsKept DEF AtDatabase
        <3> QED
            BY <3>1, <3>2
    <2>12. Fits(u, staging[p])
        BY <2>2, <2>5, <2>9, <2>10, <2>11, NextFits DEF AtDatabase
    <2> QED
        BY <1>1, <2>2, <2>3, <2>5, <2>12, NextGoesOn
<1> QED
    BY <1>4, <1>5
-----------------------------------------------------------------------------
(* Looks at the wiki                                                       *)

LEMMA TodoIsFile ==
    ASSUME NEW t \in Tasks, t.todo # {} PROVE First(t.todo) \in t.todo /\ First(t.todo) \in Files
BY DEF First, Tasks

\* A look that does not yet take what was seen.
LEMMA ScanningOn ==
    ASSUME IInv, NEW p \in Stagers, NEW t \in Tasks, Goes(p, t), Look,
           outcome[p] = "running", t.at = task[p].at, t.at \in AtWiki,
           t.before = task[p].before, t.wiki = task[p].wiki, t.now = task[p].now,
           ScanFits(t), t.at = 10 => \A r \in t.seen : Lasts(r),
           t.at = 21 => /\ t.looked # None => ListingMoment(t)
                        /\ \A r \in t.wiki : FileKept(t, r) => FileKept(task[p], r)
    PROVE  IInv'
<1>1. Fits(task[p], staging[p]) /\ t.at \in Nat
    BY PlaceOf DEF IInv, AllFit
<1>2. ReadingFits(t)
    BY DEF ReadingFits, AtDatabase, AtWiki
<1>3. BeforeFits(t)
    BY <1>1 DEF Fits, BeforeFits
<1>4. MomentsFit(t)
    <2>1. CASE t.at = 21
        <3>1. \A m : HeldIfKept(m, task[p]) => HeldIfKept(m, t)
            BY <2>1 DEF HeldIfKept
        <3>2. DatabaseKept(t) => DatabaseKept(task[p])
            BY <2>1 DEF DatabaseKept
        <3>3. DatabaseMoment(t)
            BY <1>1, <2>1, <3>1, <3>2 DEF Fits, MomentsFit, DatabaseMoment
        <3> QED
            BY <2>1, <3>3 DEF MomentsFit
    <2>2. CASE t.at # 21
        BY <1>1, <2>2 DEF Fits, MomentsFit, AtWiki
    <2> QED
        BY <2>1, <2>2
<1>5. StagingFits(t, staging[p]) /\ (t.at = 29 => Vacant(t))
    BY <1>1 DEF Fits, StagingFits, MadeFits, FilledFits, Vacant
<1>6. Fits(t, staging[p])
    BY <1>2, <1>3, <1>4, <1>5 DEF Fits
<1> QED
    BY <1>1, <1>6, GoesOn DEF AtWiki

LEMMA ListWikiFits ==
    ASSUME IInv, NEW p \in Stagers, ListWiki(p) PROVE IInv'
<1> DEFINE present == {f \in Files : wiki[f].content # 0}
           t == [task[p] EXCEPT !.looked = "listed", !.todo = present]
<1>1. /\ task[p] \in Tasks /\ task[p].at \in AtWiki /\ outcome[p] = "running"
      /\ task[p].looked = None /\ Goes(p, t) /\ Look
    BY StepIs DEF ListWiki, IInv, WikiLooks
<1>2. Fits(task[p], staging[p]) /\ task[p].seen = {}
    BY <1>1 DEF IInv, AllFit, Fits, ScanFits
<1>3. /\ t \in Tasks /\ t.at = task[p].at /\ t.looked = "listed" /\ t.todo = present
      /\ t.before = task[p].before /\ t.wiki = task[p].wiki /\ t.now = task[p].now
      /\ t.seen = {}
    BY <1>1, <1>2 DEF Tasks
<1> HIDE DEF t
<1>4. ScanFits(t)
    BY <1>3, NoneAssumption DEF ScanFits
<1>5. \A r \in t.wiki : t.at = 21 /\ FileKept(t, r) => wiki[r.file].time = r.time
    BY <1>3 DEF FileKept
<1>6. ASSUME t.at = 21 PROVE ListingMoment(t)
    <2>1. t.wiki \subseteq Records /\ \A r \in t.wiki : Lasts(r)
        BY <1>2, <1>3, <1>6 DEF Fits, BeforeFits
    <2>2. Now[2] = Texts(wiki) /\ Now \in moments
        BY DEF Now, IInv, SourcesOK
    <2>3. HeldIfKept(Now, t)
        BY <1>5, <1>6, <2>1, <2>2 DEF HeldIfKept, Lasts, Texts, Records
    <2>4. \A f \in Files : Now[2][f] # 0 => f \in t.todo
        BY <1>3, <2>2 DEF Texts
    <2> QED
        BY <1>6, <2>2, <2>3, <2>4 DEF ListingMoment
<1>7. t.at = 21 => \A r \in t.wiki : FileKept(t, r) => FileKept(task[p], r)
    BY <1>5 DEF FileKept
<1> QED
    BY <1>1, <1>3, <1>4, <1>6, <1>7, ScanningOn

LEMMA StatFileFits ==
    ASSUME IInv, NEW p \in Stagers, StatFile(p) PROVE IInv'
<1> DEFINE f == First(task[p].todo)
           t == [task[p] EXCEPT !.looked = "stat", !.stat = wiki[f].time]
<1>1. /\ task[p] \in Tasks /\ task[p].at \in AtWiki /\ outcome[p] = "running"
      /\ task[p].looked = "listed" /\ task[p].todo # {} /\ (Fail(p) \/ (Goes(p, t) /\ Look))
    BY StepIs DEF StatFile, WikiFile, IInv, WikiLooks
<1>2. Fits(task[p], staging[p]) /\ f \in Files /\ wiki[f].time \in Nat
    BY <1>1, TodoIsFile DEF IInv, AllFit, SourcesOK
<1>3. /\ t \in Tasks /\ t.at = task[p].at /\ t.looked = "stat" /\ t.todo = task[p].todo
      /\ t.before = task[p].before /\ t.wiki = task[p].wiki /\ t.now = task[p].now
      /\ t.seen = task[p].seen /\ t.stat = wiki[f].time
    BY <1>1, <1>2 DEF Tasks
<1> HIDE DEF t
<1>4. ScanFits(t)
    BY <1>1, <1>2, <1>3, NoneAssumption DEF ScanFits
<1>5. t.at = 10 => \A r \in t.seen : Lasts(r)
    BY <1>2, <1>3 DEF Fits, BeforeFits
<1>6. \A r \in t.wiki : t.at = 21 /\ FileKept(t, r) => FileKept(task[p], r)
    BY <1>3 DEF FileKept
<1>7. t.at = 21 => ListingMoment(t)
    BY <1>1, <1>2, <1>3, <1>6, NoneAssumption DEF Fits, MomentsFit, ListingMoment, HeldIfKept
<1> QED
    BY <1>1, <1>3, <1>4, <1>5, <1>6, <1>7, FailFits, ScanningOn

LEMMA HashFileFits ==
    ASSUME IInv, NEW p \in Stagers, HashFile(p) PROVE IInv'
<1> DEFINE f == First(task[p].todo)
           x == [file |-> f, time |-> task[p].stat, content |-> wiki[f].content]
           t == [task[p] EXCEPT !.looked = "listed", !.todo = @ \ {f}, !.seen = @ \cup {x}]
<1>1. /\ task[p] \in Tasks /\ task[p].at \in AtWiki /\ outcome[p] = "running"
      /\ task[p].looked = "stat" /\ task[p].todo # {} /\ (Fail(p) \/ (Goes(p, t) /\ Look))
    BY StepIs DEF HashFile, WikiFile, IInv, WikiLooks
<1>2. /\ Fits(task[p], staging[p]) /\ f \in Files /\ wiki[f].content \in Contents
      /\ task[p].stat \in Nat /\ task[p].stat <= wiki[f].time
    BY <1>1, TodoIsFile DEF IInv, AllFit, SourcesOK, Fits, ScanFits, Tasks
<1>3. /\ x \in Records /\ x.file = f /\ x.time = task[p].stat /\ x.content = wiki[f].content
    BY <1>2 DEF Records
<1> HIDE DEF x
<1>4. /\ t \in Tasks /\ t.at = task[p].at /\ t.looked = "listed"
      /\ t.todo = task[p].todo \ {f}
      /\ t.before = task[p].before /\ t.wiki = task[p].wiki /\ t.now = task[p].now
      /\ t.seen = task[p].seen \cup {x}
    BY <1>1, <1>3 DEF Tasks
<1> HIDE DEF t
<1>5. ScanFits(t)
    BY <1>4, NoneAssumption DEF ScanFits
<1>6. Lasts(x)
    BY <1>2, <1>3 DEF Lasts
<1>7. t.at = 10 => \A r \in t.seen : Lasts(r)
    BY <1>2, <1>4, <1>6 DEF Fits, BeforeFits
<1>8. \A r \in t.wiki : t.at = 21 /\ FileKept(t, r) => FileKept(task[p], r)
    BY <1>1, <1>3, <1>4 DEF FileKept
<1> HIDE DEF f
<1>9. t.at = 21 => ListingMoment(t)
    BY <1>1, <1>2, <1>3, <1>4, <1>8, NoneAssumption
       DEF Fits, MomentsFit, ListingMoment, HeldIfKept
<1> QED
    BY <1>1, <1>4, <1>5, <1>7, <1>8, <1>9, FailFits, ScanningOn

LEMMA WikiSeenFits ==
    ASSUME IInv, NEW p \in Stagers, WikiSeen(p) PROVE IInv'
<1> DEFINE done == [task[p] EXCEPT ![Step(p)] = task[p].seen]
           u == Next1(done)
<1>1. /\ task[p] \in Tasks /\ task[p].at \in AtWiki /\ outcome[p] = "running"
      /\ task[p].looked = "listed" /\ task[p].todo = {} /\ Step(p) \in WikiLooks
      /\ Step(p) = "wiki" => task[p].at = 10
      /\ Step(p) = "again" => task[p].at \in {21, 26}
      /\ Goes(p, Next1(done)) /\ Look
    BY StepIs DEF WikiSeen, IInv, WikiLooks
<1>2. Fits(task[p], staging[p]) /\ task[p].seen \subseteq Records
    BY <1>1 DEF IInv, AllFit, Tasks
<1>3. /\ done \in Tasks /\ done.at = task[p].at
      /\ done.before = task[p].before /\ done.now = task[p].now
      /\ done.wiki = (IF Step(p) = "wiki" THEN task[p].seen ELSE task[p].wiki)
      /\ done.again = (IF Step(p) = "again" THEN task[p].seen ELSE task[p].again)
    BY <1>1, <1>2 DEF Tasks, WikiLooks
<1> HIDE DEF done
<1>4. /\ done.at \in AtWiki /\ done.at \in Nat /\ 1 < done.at /\ done.at < 28
      /\ done.at # LockAt
    BY <1>1, <1>3 DEF AtWiki, LockAt
<1>5. /\ u \in Tasks /\ u.at = done.at + 1 /\ u.looked = None /\ u.seen = {} /\ u.todo = {}
      /\ u.before = done.before /\ u.now = done.now /\ u.wiki = done.wiki
      /\ u.again = done.again
    BY <1>3, <1>4, NextIs
<1>6. done.at # 10 => Step(p) = "again" /\ done.wiki = task[p].wiki
    BY <1>1, <1>3 DEF WikiLooks
<1>7. StagingFits(done, staging[p])
    BY <1>2, <1>3, <1>4, <1>6 DEF Fits, StagingFits, MadeFits, FilledFits, AtWiki
<1>8. StagingFits(u, staging[p])
    BY <1>3, <1>4, <1>7, StagingKept DEF AtWiki
<1>9. BeforeFits(u)
    <2>1. CASE done.at = 10
        <3>1. done.wiki = task[p].seen
            BY <1>1, <1>3, <2>1 DEF WikiLooks
        <3> HIDE DEF u
        <3> QED
            BY <1>2, <1>3, <1>5, <2>1, <3>1 DEF Fits, BeforeFits
    <2>2. CASE done.at # 10
        <3>1. BeforeFits(done)
            BY <1>2, <1>3, <1>6, <2>2 DEF Fits, BeforeFits
        <3> QED
            BY <1>3, <1>4, <2>2, <3>1, BeforeKept
    <2> QED
        BY <2>1, <2>2
<1>10. MomentsFit(u)
    <2>1. CASE done.at = 21
        <3> HIDE DEF u
        <3>1. u.again = task[p].seen /\ u.at = 22 /\ u.wiki = task[p].wiki
            BY <1>3, <1>5, <1>6, <2>1
        <3>2. \A m : HeldIfKept(m, task[p]) => HeldIfKept(m, u)
            BY <1>3, <2>1, <3>1 DEF HeldIfKept, FileKept
        <3>3. DatabaseKept(u) => DatabaseKept(task[p])
            BY <1>3, <1>5, <2>1, <3>1 DEF DatabaseKept
        <3>4. DatabaseMoment(u)
            BY <1>2, <1>3, <1>5, <2>1, <3>2, <3>3 DEF Fits, MomentsFit, DatabaseMoment
        <3>5. ListingMoment(task[p])
            BY <1>1, <1>2, <1>3, <2>1, NoneAssumption DEF Fits, MomentsFit
        <3>6. ListingMoment(u)
            BY <1>1, <1>3, <2>1, <3>1, <3>2, <3>5 DEF ListingMoment
        <3> QED
            BY <1>2, <3>1, <3>4, <3>6 DEF MomentsFit
    <2>2. CASE done.at # 21
        <3>1. MomentsFit(done)
            BY <1>2, <1>3, <1>4, <1>6, <2>2 DEF Fits, MomentsFit, AtWiki
        <3> QED
            BY <1>3, <1>4, <2>2, <3>1, MomentsKept DEF AtWiki
    <2> QED
        BY <2>1, <2>2
<1>11. Fits(u, staging[p])
    BY <1>3, <1>4, <1>8, <1>9, <1>10, NextFits
<1> QED
    BY <1>1, <1>3, <1>4, <1>11, NextGoesOn

-----------------------------------------------------------------------------
(* Comparisons                                                             *)

\* What is no longer needed is forgotten.
LEMMA ComparedFits ==
    ASSUME StagersOK, NEW p \in Stagers, NEW d, Step(p) \in Checks, Fits(task[p], d)
    PROVE  LET t == Compared(p, task[p]) IN
             /\ t \in Tasks /\ t.at = task[p].at /\ t.looked = task[p].looked
             /\ t.before = task[p].before /\ t.wiki = task[p].wiki
             /\ task[p].at # 22 => Fits(t, d)
             /\ task[p].at = 22 => BeforeFits(t) /\ StagingFits(t, d)
<1> DEFINE t == Compared(p, task[p])
<1>1. /\ task[p] \in Tasks /\ task[p].at \in Nat
      /\ task[p].at \in {3, 6, 7, 9, 12, 16, 17, 20, 22, 25, 27, 28}
      /\ Step(p) = "unchanged" => task[p].at = 9
      /\ Step(p) = "copied" => task[p].at = 17
      /\ Step(p) = "sources" => task[p].at \in {22, 27}
    BY StepIs DEF Checks
<1>2. /\ t \in Tasks /\ t.at = task[p].at /\ t.looked = task[p].looked
      /\ t.before = task[p].before /\ t.wiki = task[p].wiki
      /\ task[p].at \notin {9, 17, 22, 27} => t = task[p]
    BY <1>1 DEF Compared, Tasks
<1> HIDE DEF t
<1>3. ReadingFits(t) /\ ScanFits(t)
    <2>1. t.at \notin AtDatabase /\ t.at \notin AtWiki
        BY <1>1, <1>2 DEF AtDatabase, AtWiki
    <2> QED
        BY <2>1 DEF ReadingFits, ScanFits
<1>4. BeforeFits(t)
    BY <1>1, <1>2 DEF Fits, BeforeFits
<1>5. StagingFits(t, d) /\ (t.at = 29 => Vacant(t))
    BY <1>1, <1>2 DEF Fits, StagingFits, MadeFits, FilledFits
<1>6. CASE task[p].at \in {9, 27}
    <2>1. MomentsFit(t)
        BY <1>2, <1>6 DEF Fits, MomentsFit
    <2> QED
        BY <1>2, <1>3, <1>4, <1>5, <1>6, <2>1 DEF Fits, t
<1>7. CASE task[p].at = 17
    <2>1. \A m : HeldIfKept(m, task[p]) => HeldIfKept(m, t)
        BY <1>2, <1>7 DEF HeldIfKept, FileKept
    <2>2. DatabaseKept(t) => DatabaseKept(task[p])
        BY <1>2, <1>7 DEF DatabaseKept
    <2>3. MomentsFit(t)
        BY <1>2, <1>7, <2>1, <2>2 DEF Fits, MomentsFit, DatabaseMoment
    <2> QED
        BY <1>2, <1>3, <1>4, <1>5, <1>7, <2>3 DEF Fits, t
<1>8. CASE task[p].at = 22
    BY <1>2, <1>4, <1>5, <1>8 DEF t
<1>9. CASE task[p].at \notin {9, 17, 22, 27}
    BY <1>1, <1>2, <1>9 DEF t, Fits
<1> QED
    BY <1>6, <1>7, <1>8, <1>9

LEMMA SameDatabase ==
    ASSUME NEW a \in Databases, NEW b \in Databases, \A i \in Pages : a[i] = b[i] PROVE a = b
BY DEF Databases

\* The database, at the moment when no log is there.
LEMMA MomentWithoutLog ==
    ASSUME SourcesOK, NEW t \in Tasks, BeforeFits(t), t.at = 17, NoSidecars
    PROVE  DatabaseMoment(t)
<1>1. Now \in moments /\ Now[1] = main /\ Now[2] = Texts(wiki)
    BY DEF SourcesOK, NoSidecars, Now, Logical
<1>2. t.wiki \subseteq Records /\ \A r \in t.wiki : Lasts(r)
    BY DEF BeforeFits
<1>3. HeldIfKept(Now, t)
    BY <1>1, <1>2 DEF HeldIfKept, FileKept, Lasts, Texts, Records
<1>4. ASSUME DatabaseKept(t) PROVE main = t.before.pages
    <2>1. stamp = t.before.time /\ t.before.pages \in Databases /\ main \in Databases
        BY <1>4 DEF DatabaseKept, BeforeFits, Snapshots, SourcesOK
    <2>2. \A i \in 1..PageCount : t.before.pages[i] = main[i]
        BY <2>1, PagesAreDatabase DEF BeforeFits, Holds
    <2>3. \A i \in Pages : t.before.pages[i] = main[i]
        BY <2>2 DEF Pages
    <2> QED
        BY <2>1, <2>3, SameDatabase
<1> QED
    BY <1>1, <1>3, <1>4 DEF DatabaseMoment

LEMMA CheckFits ==
    ASSUME IInv, NEW p \in Stagers, Check(p) PROVE IInv'
<1> DEFINE t == Compared(p, task[p])
           u == Next1(t)
<1>1. CASE ~ Agrees(p, task[p])
    BY <1>1, FailFits DEF Check
<1>2. CASE Agrees(p, task[p])
    <2>1. /\ task[p] \in Tasks /\ outcome[p] = "running" /\ Step(p) \in Checks
          /\ Goes(p, u) /\ Look
          /\ Step(p) = "sidecars" => task[p].at \in {3, 6, 16, 20, 25}
          /\ Step(p) = "copied" => task[p].at = 17
          /\ Step(p) = "sources" => task[p].at \in {22, 27}
          /\ Step(p) = "inspected" => task[p].at = 7
          /\ Step(p) = "unchanged" => task[p].at = 9
          /\ Step(p) = "vacant" => task[p].at \in {12, 28}
          /\ Fits(task[p], staging[p]) /\ SourcesOK
        BY <1>2, StepIs DEF Check, IInv, Checks, AllFit
    <2>2. /\ t \in Tasks /\ t.at = task[p].at
          /\ t.before = task[p].before /\ t.wiki = task[p].wiki
          /\ task[p].at # 22 => Fits(t, staging[p])
          /\ task[p].at = 22 => BeforeFits(t) /\ StagingFits(t, staging[p])
        BY <2>1, ComparedFits DEF IInv
    <2> HIDE DEF t
    <2>3. /\ t.at \in {3, 6, 7, 9, 12, 16, 17, 20, 22, 25, 27, 28} /\ t.at \in Nat
          /\ 1 < t.at /\ t.at < 29 /\ t.at # LockAt
        BY <2>1, <2>2 DEF Checks, LockAt
    <2>4. /\ u \in Tasks /\ u.at = t.at + 1 /\ u.looked = None /\ u.seen = {}
          /\ u.before = t.before /\ u.now = t.now /\ u.wiki = t.wiki
        BY <2>2, <2>3, NextIs
    <2>5. BeforeFits(t) /\ StagingFits(t, staging[p])
        BY <2>2 DEF Fits
    <2>6. BeforeFits(u)
        BY <2>2, <2>3, <2>5, BeforeKept
    <2>7. StagingFits(u, staging[p])
        <3>1. CASE t.at = 17
            <4>1. Step(p) = "copied"
                BY <2>1, <2>2, <3>1 DEF Checks
            <4>2. staging[p].copy = t.before.pages
                BY <1>2, <2>2, <4>1 DEF Agrees
            <4> HIDE DEF u
            <4> QED
                BY <2>4, <2>5, <3>1, <4>2 DEF StagingFits, MadeFits, FilledFits
        <3>2. CASE t.at # 17
            BY <2>2, <2>3, <2>5, <3>2, StagingKept
        <3> QED
            BY <3>1, <3>2
    <2>8. MomentsFit(u)
        <3>1. CASE t.at = 16
            <4>1. Step(p) = "sidecars"
                BY <2>1, <2>2, <3>1 DEF Checks
            <4>2. NoSidecars
                BY <1>2, <4>1 DEF Agrees
            <4>3. DatabaseMoment(u)
                BY <2>1, <2>4, <2>6, <3>1, <4>2, MomentWithoutLog
            <4> HIDE DEF u
            <4> QED
                BY <2>4, <3>1, <4>3 DEF MomentsFit
        <3>2. CASE t.at = 22
            <4> Step(p) = "sources"
                BY <2>1, <2>2, <3>2 DEF Checks
            <4>1. task[p].now = task[p].before /\ task[p].again = task[p].wiki
                BY <1>2 DEF Agrees
            <4>2. DatabaseMoment(task[p]) /\ ListingMoment(task[p]) /\ task[p].at = 22
                BY <2>1, <2>2, <3>2 DEF Fits, MomentsFit
            <4>3. \A m : HeldIfKept(m, task[p]) => Held(m, task[p].wiki)
                BY <4>1, <4>2 DEF HeldIfKept, FileKept, Held
            <4>4. DatabaseKept(task[p])
                BY <4>1, <4>2 DEF DatabaseKept
            <4>5. HangsTogether(task[p].before.pages, task[p].wiki)
                BY <4>1, <4>2, <4>3, <4>4
                   DEF HangsTogether, HeldOnly, DatabaseMoment, ListingMoment
            <4> HIDE DEF u
            <4> QED
                BY <2>2, <2>4, <3>2, <4>5 DEF MomentsFit
        <3>3. CASE t.at \notin {16, 22}
            <4>1. MomentsFit(t)
                BY <2>2, <3>3 DEF Fits
            <4> QED
                BY <2>2, <2>3, <3>3, <4>1, MomentsKept
        <3> QED
            BY <3>1, <3>2, <3>3
    <2>9. t.at = 28 => Vacant(t)
        <3>1. t.at = 28 => Step(p) = "vacant"
            BY <2>1, <2>2 DEF Checks
        <3>2. t.at = 28 => Vacant(task[p])
            BY <1>2, <3>1 DEF Agrees
        <3> QED
            BY <2>2, <3>2 DEF Vacant
    <2>10. Fits(u, staging[p])
        BY <2>2, <2>3, <2>6, <2>7, <2>8, <2>9, NextFits
    <2> QED
        BY <2>1, <2>2, <2>3, <2>10, NextGoesOn
<1> QED
    BY <1>1, <1>2
-----------------------------------------------------------------------------
(* Writes                                                                  *)

LEMMA ReadTablesFits ==
    ASSUME IInv, NEW p \in Stagers, ReadTables(p) PROVE IInv'
<1>1. /\ task[p] \in Tasks /\ task[p].at = 4 /\ outcome[p] = "running"
      /\ Fits(task[p], staging[p]) /\ (Fail(p) \/ (Goes(p, Next1(task[p])) /\ Look))
    BY StepIs DEF ReadTables, IInv, AllFit
<1>2. Fits(Next1(task[p]), staging[p])
    BY <1>1, PlainNext
<1> QED
    BY <1>1, <1>2, FailFits, NextGoesOn DEF LockAt

LEMMA TakeLockFits ==
    ASSUME IInv, NEW p \in Stagers, TakeLock(p) PROVE IInv'
<1> DEFINE u == Next1(task[p])
<1>1. /\ task[p] \in Tasks /\ task[p].at = 11 /\ outcome[p] = "running"
      /\ Fits(task[p], staging[p])
      /\ lock = None /\ lock' = p /\ Goes(p, u)
      /\ UNCHANGED <<sources, staging, bundles, outcome, calls>>
    BY StepIs DEF TakeLock, IInv, AllFit
<1>2. u \in Tasks /\ u.at = 12
    BY <1>1, NextIs
<1>3. Fits(u, staging[p])
    BY <1>1, PlainNext
<1> HIDE DEF u
<1>4. \A q \in Stagers : task'[q] = (IF q = p THEN u ELSE task[q])
    BY <1>1 DEF Goes, IInv, StagersOK
<1>5. \A q \in Stagers : lock # q
    BY <1>1, NoneAssumption
<1>6. task' \in [Stagers -> Tasks]
    BY <1>1, <1>2 DEF Goes, IInv, StagersOK
<1>7. \A q \in Stagers : lock' = q <=> InLock(q)'
    BY <1>1, <1>2, <1>4, <1>5 DEF InLock, LockAt, IInv, StagersOK
<1>8. \A q \in Stagers : task'[q].at > 0 <=> outcome[q] = "running"
    BY <1>1, <1>2, <1>4 DEF IInv, StagersOK
<1>9. StagersOK'
    BY <1>1, <1>6, <1>7, <1>8 DEF IInv, StagersOK
<1>10. staging' = [staging EXCEPT ![p] = staging[p]] /\ staging[p] \in Directories \cup {None}
    BY <1>1 DEF IInv, StagersOK
<1> QED
    BY <1>1, <1>2, <1>3, <1>9, <1>10, OneMoves DEF Goes

\* A write that goes on to the next place.
LEMMA WriteGoesOn ==
    ASSUME IInv, NEW p \in Stagers, NEW d \in Directories, Written(p, d, Next1(task[p])),
           outcome[p] = "running", task[p].at > LockAt, task[p].at < 28,
           task[p].at \notin {16, 19, 21, 22}, StagingFits(Next1(task[p]), d)
    PROVE  IInv'
<1> DEFINE u == Next1(task[p])
<1>1. Fits(task[p], staging[p]) /\ task[p] \in Tasks /\ task[p].at \in Nat
    BY PlaceOf DEF IInv, AllFit, StagersOK
<1>2. u \in Tasks /\ u.at = task[p].at + 1
    BY <1>1, NextIs
<1>3. BeforeFits(u) /\ MomentsFit(u)
    BY <1>1, BeforeKept, MomentsKept DEF Fits, LockAt
<1>4. Fits(u, d)
    BY <1>1, <1>3, NextFits
<1>5. Written(p, d, u)
    OBVIOUS
<1> HIDE DEF u
<1> QED
    BY <1>1, <1>2, <1>4, <1>5, WritingOn DEF LockAt

LEMMA MakeStagingFits ==
    ASSUME IInv, NEW p \in Stagers, MakeStaging(p) PROVE IInv'
<1> DEFINE d == [copy |-> <<>>, tables |-> None, wiki |-> None]
           u == Next1(task[p])
<1>1. /\ task[p] \in Tasks /\ task[p].at = 13 /\ outcome[p] = "running"
      /\ Written(p, d, Next1(task[p]))
    BY StepIs DEF MakeStaging, IInv
<1>2. d \in Directories /\ d.copy = <<>>
    BY DEF Directories
<1>3. u.at = 14
    BY <1>1, NextIs
<1> HIDE DEF d, u
<1>4. StagingFits(u, d)
    BY <1>2, <1>3, NumbersAssumption DEF StagingFits, MadeFits, FilledFits
<1> QED
    BY <1>1, <1>2, <1>4, WriteGoesOn DEF u, LockAt

LEMMA CopyPageFits ==
    ASSUME IInv, NEW p \in Stagers, CopyPage(p) PROVE IInv'
<1> DEFINE copy == Append(staging[p].copy, main[Len(staging[p].copy) + 1])
           d == [staging[p] EXCEPT !.copy = copy]
           u == Next1(task[p])
<1>1. /\ task[p] \in Tasks /\ task[p].at = 14 /\ outcome[p] = "running"
      /\ Fits(task[p], staging[p])
      /\ Written(p, d, IF Len(copy) < PageCount THEN task[p] ELSE u)
    BY StepIs DEF CopyPage, IInv, AllFit
<1>2. staging[p] \in Directories /\ Len(staging[p].copy) < PageCount
    BY <1>1 DEF Fits, StagingFits, MadeFits
<1>3. staging[p].copy \in Seq(Versions) /\ Len(staging[p].copy) \in Nat /\ PageCount \in Nat
    BY <1>2, NumbersAssumption DEF Directories
<1>4. main[Len(staging[p].copy) + 1] \in Versions
    BY <1>2, <1>3 DEF IInv, SourcesOK, Databases, Pages
<1>5. copy \in Seq(Versions) /\ Len(copy) = Len(staging[p].copy) + 1
    BY <1>3, <1>4, AppendProperties
<1> HIDE DEF copy
<1>6. d \in Directories /\ d.copy = copy
    BY <1>2, <1>5 DEF Directories
<1> HIDE DEF d
<1>7. CASE Len(copy) < PageCount
    <2>1. StagingFits(task[p], d)
        BY <1>1, <1>6, <1>7 DEF StagingFits, MadeFits, FilledFits
    <2>2. Fits(task[p], d)
        BY <1>1, <2>1 DEF Fits
    <2>3. Written(p, d, task[p])
        BY <1>1, <1>7
    <2> QED
        BY <1>1, <1>6, <2>2, <2>3, WritingOn
<1>8. CASE ~ Len(copy) < PageCount
    <2>1. u.at = 15
        BY <1>1, NextIs
    <2>2. Written(p, d, Next1(task[p]))
        BY <1>1, <1>8
    <2> HIDE DEF u
    <2>3. Len(d.copy) = PageCount
        BY <1>2, <1>3, <1>5, <1>6, <1>8
    <2>4. StagingFits(u, d)
        BY <1>6, <2>1, <2>3 DEF StagingFits, MadeFits, FilledFits
    <2> QED
        BY <1>1, <1>6, <2>2, <2>4, WriteGoesOn DEF u, LockAt
<1> QED
    BY <1>7, <1>8

LEMMA FirstPage ==
    ASSUME NEW copy \in Seq(Versions), Len(copy) = PageCount PROVE copy[1] \in Versions
BY NumbersAssumption

LEMMA ExportFits ==
    ASSUME IInv, NEW p \in Stagers, ExportTables(p) PROVE IInv'
<1> DEFINE x == TablesOf[staging[p].copy[1]]
           d == [staging[p] EXCEPT !.tables = x]
           u == Next1(task[p])
<1>1. /\ task[p] \in Tasks /\ task[p].at = 18 /\ outcome[p] = "running"
      /\ Fits(task[p], staging[p]) /\ Written(p, d, Next1(task[p]))
    BY StepIs DEF ExportTables, IInv, AllFit
<1>2. /\ staging[p] \in Directories /\ Len(staging[p].copy) = PageCount
      /\ staging[p].copy = task[p].before.pages
    BY <1>1 DEF Fits, StagingFits, MadeFits, FilledFits
<1>3. x \in Exports
    BY <1>2, FirstPage DEF Directories, Exports
<1>4. /\ d \in Directories /\ d.copy = staging[p].copy /\ d.tables = TablesOf[d.copy[1]]
    BY <1>2, <1>3 DEF Directories
<1> HIDE DEF x, d
<1>5. u.at = 19 /\ u.before = task[p].before
    BY <1>1, NextIs
<1> HIDE DEF u
<1>6. StagingFits(u, d)
    BY <1>2, <1>4, <1>5 DEF StagingFits, MadeFits, FilledFits
<1> QED
    BY <1>1, <1>4, <1>6, WriteGoesOn DEF u, LockAt

LEMMA ManifestFits ==
    ASSUME IInv, NEW p \in Stagers, WriteManifest(p) PROVE IInv'
<1> DEFINE d == [staging[p] EXCEPT !.wiki = task[p].wiki]
           u == Next1(task[p])
<1>1. /\ task[p] \in Tasks /\ task[p].at = 23 /\ outcome[p] = "running"
      /\ Fits(task[p], staging[p]) /\ Written(p, d, Next1(task[p]))
    BY StepIs DEF WriteManifest, IInv, AllFit
<1>2. /\ staging[p] \in Directories /\ Len(staging[p].copy) = PageCount
      /\ staging[p].copy = task[p].before.pages
      /\ staging[p].tables = TablesOf[staging[p].copy[1]]
      /\ task[p].wiki \subseteq Records
    BY <1>1 DEF Fits, StagingFits, MadeFits, FilledFits, BeforeFits
<1>3. staging[p].tables \in Exports
    BY <1>2, FirstPage DEF Directories, Exports
<1>4. /\ d \in Directories /\ d.copy = staging[p].copy /\ d.tables = staging[p].tables
      /\ d.wiki = task[p].wiki
    BY <1>2, <1>3 DEF Directories
<1> HIDE DEF d
<1>5. u.at = 24 /\ u.before = task[p].before /\ u.wiki = task[p].wiki
    BY <1>1, NextIs
<1> HIDE DEF u
<1>6. StagingFits(u, d)
    BY <1>2, <1>4, <1>5 DEF StagingFits, MadeFits, FilledFits
<1> QED
    BY <1>1, <1>4, <1>6, WriteGoesOn DEF u, LockAt

LEMMA PublishFits ==
    ASSUME IInv, NEW p \in Stagers, Publish(p) PROVE IInv'
<1> DEFINE d == staging[p]
           b == [name |-> task[p].before.pages, by |-> p, copy |-> d.copy, tables |-> d.tables,
                 wiki |-> d.wiki]
<1>1. /\ task[p] \in Tasks /\ task[p].at = 29 /\ Fits(task[p], d) /\ lock = p
      /\ bundles' = bundles \cup {b}
      /\ staging' = [staging EXCEPT ![p] = None] /\ lock' = Unlocked(p)
      /\ outcome' = [outcome EXCEPT ![p] = "staged"] /\ task' = [task EXCEPT ![p] = NoTask]
      /\ UNCHANGED <<sources, calls>>
    BY StepIs DEF Publish, Goes, IInv, AllFit, StagersOK, InLock, LockAt
<1>2. /\ d.copy = task[p].before.pages /\ d.tables = TablesOf[d.copy[1]]
      /\ d.wiki = task[p].wiki /\ d.copy \in Databases
      /\ HangsTogether(d.copy, d.wiki) /\ Vacant(task[p])
    BY <1>1 DEF Fits, StagingFits, FilledFits, BeforeFits, Snapshots, MomentsFit
<1>3. /\ b.by = p /\ b.name = b.copy /\ b.copy \in Databases /\ b.tables = TablesOf[b.copy[1]]
      /\ HangsTogether(b.copy, b.wiki) /\ \A c \in bundles : c.name # b.name
    BY <1>2 DEF Vacant
<1> HIDE DEF b, d
<1>4. SourcesOK'
    BY <1>1 DEF IInv, sources, SourcesOK, Now, Logical
<1>5. ASSUME NEW db, NEW seen, HangsTogether(db, seen) PROVE HangsTogether(db, seen)'
    BY <1>1, <1>5 DEF HangsTogether, sources
<1>6. BundlesOK'
    <2>1. ASSUME NEW c \in bundles'
          PROVE  /\ c.copy \in Databases /\ c.by \in Stagers
                 /\ c.copy = c.name /\ c.tables = TablesOf[c.copy[1]]
                 /\ HangsTogether(c.copy, c.wiki)'
        <3>1. CASE c \in bundles
            BY <1>5, <3>1 DEF IInv, BundlesOK
        <3>2. CASE c = b
            BY <1>3, <1>5, <3>2
        <3> QED
            BY <1>1, <3>1, <3>2
    <2>2. \A c, e \in bundles' : c.name = e.name => c = e
        BY <1>1, <1>3 DEF IInv, BundlesOK
    <2> QED
        BY <2>1, <2>2 DEF BundlesOK
<1>7. /\ lock' = None
      /\ \A q \in Stagers :
         /\ task'[q] = (IF q = p THEN NoTask ELSE task[q])
         /\ staging'[q] = (IF q = p THEN None ELSE staging[q])
         /\ outcome'[q] = (IF q = p THEN "staged" ELSE outcome[q])
    BY <1>1 DEF Unlocked, IInv, StagersOK
<1>8. /\ task' \in [Stagers -> Tasks] /\ staging' \in [Stagers -> Directories \cup {None}]
      /\ outcome' \in [Stagers -> Outcomes] /\ calls' = calls
    BY <1>1, NoTaskIs DEF IInv, StagersOK, Outcomes
<1>9. \A q \in Stagers : lock' = q <=> InLock(q)'
    BY <1>1, <1>7, NoTaskIs, NoneAssumption DEF IInv, StagersOK, InLock, LockAt
<1>10. \A q \in Stagers :
         /\ task'[q].at > 0 <=> outcome'[q] = "running"
         /\ outcome'[q] \in {"none", "staged", "failed"} => staging'[q] = None
    BY <1>7, NoTaskIs DEF IInv, StagersOK
<1>11. \A q \in Stagers : outcome'[q] = "staged" => \E c \in bundles' : c.by = q
    BY <1>1, <1>3, <1>7 DEF IInv, StagersOK
<1>12. StagersOK'
    BY <1>7, <1>8, <1>9, <1>10, <1>11 DEF IInv, StagersOK
<1>13. ASSUME NEW q \in Stagers PROVE Fits(task[q], staging[q])'
    <2>1. CASE q = p
        <3>1. Fits(NoTask, None)'
            BY EndedFits DEF NoTask, Fits, ReadingFits, ScanFits, BeforeFits, MomentsFit,
                   StagingFits, MadeFits, FilledFits, AtDatabase, AtWiki
        <3> QED
            BY <1>7, <2>1, <3>1
    <2>2. CASE q # p
        <3>1. task'[q] = task[q] /\ staging'[q] = staging[q] /\ task[q] \in Tasks
            BY <1>7, <2>2 DEF IInv, StagersOK
        <3>2. Fits(task[q], staging[q]) /\ task[q].at # 29
            BY <1>1, <2>2 DEF IInv, AllFit, StagersOK, InLock, LockAt
        <3>3. ASSUME NEW t \in Tasks, NEW e, Fits(t, e), t.at # 29 PROVE Fits(t, e)'
            <4>1. ReadingFits(t)' /\ ScanFits(t)' /\ BeforeFits(t)'
                BY <1>1, <3>3 DEF sources, Fits, ReadingFits, ScanFits, BeforeFits, Holds, Lasts
            <4>2. MomentsFit(t)'
                BY <1>1, <3>3 DEF sources, Fits, MomentsFit, DatabaseMoment, ListingMoment,
                       HeldIfKept, FileKept, DatabaseKept, HangsTogether
            <4> QED
                BY <3>3, <4>1, <4>2 DEF Fits, StagingFits, MadeFits, FilledFits
        <3> QED
            BY <3>1, <3>2, <3>3
    <2> QED
        BY <2>1, <2>2
<1> QED
    BY <1>4, <1>6, <1>12, <1>13 DEF IInv, AllFit

-----------------------------------------------------------------------------
(* Every step, and the theorems                                            *)

LEMMA Initially == Init => IInv
<1> SUFFICES ASSUME Init PROVE IInv
    OBVIOUS
<1>1. SourcesOK
    BY NumbersAssumption, WikiAssumption
       DEF Init, SourcesOK, Databases, Versions
<1>2. StagersOK
    BY NoTaskIs, NoneAssumption, NumbersAssumption
       DEF Init, StagersOK, Outcomes, InLock, LockAt
<1>3. BundlesOK /\ AllFit
    BY EndedFits DEF Init, BundlesOK, AllFit
<1> QED
    BY <1>1, <1>2, <1>3 DEF IInv

LEMMA RunFits ==
    ASSUME IInv, NEW p \in Stagers, Run(p) PROVE IInv'
<1>1. WriteFails(p) => IInv'
    BY FailFits DEF WriteFails
<1> QED
    BY <1>1, StageFits, StatFits, ReadPageFits, ReadTablesFits, ListWikiFits, StatFileFits,
       HashFileFits, WikiSeenFits, CheckFits, TakeLockFits, MakeStagingFits,
       CopyPageFits, ExportFits, ManifestFits, PublishFits, CleanFits, DieFits
       DEF Run

LEMMA Inductive == IInv /\ [Next]_vars => IInv'
<1> SUFFICES ASSUME IInv, [Next]_vars PROVE IInv'
    OBVIOUS
<1>1. CASE Owner
    BY <1>1, CommitFits, CheckpointFits, CloseFits, EditFits DEF Owner
<1>2. CASE \E p \in Stagers : Run(p)
    BY <1>2, RunFits
<1>3. CASE UNCHANGED vars
    <2>1. UNCHANGED <<sources, lock, staging, bundles, task, outcome, calls>>
        BY <1>3 DEF vars, sources
    <2>2. SourcesOK' /\ SourcesGoOn
        BY <2>1 DEF sources, IInv, SourcesOK, Now, Logical, SourcesGoOn
    <2> QED
        BY <2>1, <2>2, OwnersKeep
<1> QED
    BY <1>1, <1>2, <1>3 DEF Next

\* Each step of a stager, a writer or SQLite keeps what the looks so far rest on
\* (stage_legacy, legacy.py:147-333).
THEOREM Invariance == Spec => []IInv
<1>1. IInv /\ [Next]_vars => IInv'
    BY Inductive
<1> QED
    BY <1>1, Initially, PTL DEF Spec

\* For any stagers, pages, files and failures every variable keeps its type, and
\* exactly the stager inside the locked part holds the lock (legacy.py:239-333).
THEOREM TypeCorrect == Spec => []TypeOK
<1>1. ASSUME IInv PROVE TypeOK
    <2>1. \A p \in Stagers : task[p].at \in 0..Len(Script)
        BY <1>1 DEF IInv, StagersOK, Tasks
    <2> QED
        BY <1>1, <2>1 DEF IInv, SourcesOK, StagersOK, BundlesOK, TypeOK, Outcomes
<1> QED
    BY <1>1, Invariance, PTL

\* For any database, wiki, writers, stagers and failures, what a bundle holds of
\* the database and of the wiki belonged together (legacy.py:147-247, 443-460).
THEOREM BundlesBelong == Spec => []BundlesHangTogether
<1>1. IInv => BundlesHangTogether
    BY DEF IInv, BundlesOK, HangsTogether, BundlesHangTogether
<1> QED
    BY <1>1, Invariance, PTL

\* For any stagers, writers and failures, a bundle is complete and the only one
\* of its name, and a call that fails leaves no directory (legacy.py:233-256).
THEOREM AllOrNothing == Spec => []StagingIsAllOrNothing
<1>1. IInv => StagingIsAllOrNothing
    BY DEF IInv, StagersOK, BundlesOK, StagingIsAllOrNothing
<1> QED
    BY <1>1, Invariance, PTL

-----------------------------------------------------------------------------
(* A call that nobody disturbs goes through.  A stager compares some twenty *)
(* looks with each other and fails at the first difference, so it had       *)
(* better see none where there is none: after a checkpoint that wrote half  *)
(* of the pages while it read, over its own directory, or next to another   *)
(* stager.                                                                  *)

\* A call ends badly only because a write of its own failed, because of a log,
\* a write to the database since its first look, an edit of the wiki, or a
\* bundle of this name.
FailuresHaveReasons ==
    [][\A p \in Stagers : outcome[p] = "running" /\ outcome'[p] \in {"failed", "cleaning"} =>
          \/ Step(p) \in Writes
          \/ log # None \/ stamp # task[p].before.time \/ edits # 0
          \/ \E b \in bundles : b.name = task[p].before.pages]_vars

\* s was read after the first look, and the database was written since or is
\* still as in s.
ReadSince(t, s) ==
    s \in Snapshots /\ t.before.time <= s.time /\ Holds(s.time, s.pages)

\* Where a call has the snapshots called "opened" and "now".
HasOpened == 3..9
HasNow == {6, 7, 8, 9, 16, 17, 20, 21, 22, 25, 26, 27}

DatabaseKnown(t) ==
    /\ t.at \in AtDatabase \ {1} /\ t.looked = "stat" => t.before.time <= t.stat
    /\ t.at \in HasOpened => ReadSince(t, t.opened)
    /\ t.at \in HasNow => ReadSince(t, t.now)

CopyKnown(t, d) ==
    t.at \in 14..17 /\ stamp = t.before.time => \A i \in 1..Len(d.copy) : d.copy[i] = main[i]

\* The records of the wiki's files, had they all been taken now.
RecordOf(f) == [file |-> f, time |-> wiki[f].time, content |-> wiki[f].content]
Present == {f \in Files : wiki[f].content # 0}
WikiFiles == {RecordOf(f) : f \in Present}

\* What a scan has seen and what it has yet to see.
ScanKnown(t) ==
    /\ t.todo \subseteq Present
    /\ t.seen \cup {RecordOf(f) : f \in t.todo} = WikiFiles
    /\ t.looked = "stat" => t.stat = 0

WikiKnown(t) ==
    edits = 0 =>
        /\ t.at \in AtWiki /\ t.looked # None => ScanKnown(t)
        /\ t.at > 10 => t.wiki = WikiFiles
        /\ t.at \in {22, 27} => t.again = WikiFiles

Known(t, d) == DatabaseKnown(t) /\ CopyKnown(t, d) /\ WikiKnown(t)

AllKnown == \A p \in Stagers : Known(task[p], staging[p])

LEMMA KnownStill ==
    ASSUME SourcesOK, SourcesOK', SourcesGoOn, edits' = 0 => UNCHANGED <<wiki, edits>>,
           NEW t \in Tasks, NEW d, Fits(t, d), Known(t, d)
    PROVE  Known(t, d)'
<1>1. t.at \in Nat /\ t.stat \in Nat
    BY PlaceOf DEF Tasks
<1>2. ASSUME NEW s, ReadSince(t, s) PROVE ReadSince(t, s)'
    BY <1>2, HoldsStill DEF ReadSince, Snapshots
<1>3. DatabaseKnown(t)'
    BY <1>2 DEF Known, DatabaseKnown
<1>4. CopyKnown(t, d)'
    <2>1. t.at \in 14..17 => t.before.time \in Nat /\ t.before.time <= stamp
        BY <1>1 DEF Fits, BeforeFits, Holds, Snapshots
    <2>2. stamp \in Nat /\ stamp' \in Nat
        BY DEF SourcesOK
    <2>3. t.at \in 14..17 /\ stamp' = t.before.time => stamp = t.before.time /\ main' = main
        BY <2>1, <2>2 DEF SourcesGoOn
    <2> QED
        BY <2>3 DEF Known, CopyKnown
<1>5. WikiKnown(t)'
    BY DEF Known, WikiKnown, ScanKnown, WikiFiles, Present, RecordOf
<1> QED
    BY <1>3, <1>4, <1>5 DEF Known

LEMMA OwnersLeaveKnown ==
    ASSUME IInv, SourcesOK', SourcesGoOn, edits' = 0 => UNCHANGED <<wiki, edits>>,
           UNCHANGED <<staging, task>>, AllKnown
    PROVE  AllKnown'
<1>1. ASSUME NEW p \in Stagers PROVE Known(task[p], staging[p])'
    <2>1. Known(task[p], staging[p]) /\ Fits(task[p], staging[p]) /\ task[p] \in Tasks
        BY DEF AllKnown, IInv, AllFit, StagersOK
    <2> QED
        BY <2>1, KnownStill DEF IInv
<1> QED
    BY <1>1 DEF AllKnown

\* A stager goes on, or ends, and others are where they were.
LEMMA OneKnows ==
    ASSUME IInv, AllKnown, NEW p \in Stagers, NEW t \in Tasks, NEW d,
           task' = [task EXCEPT ![p] = t], staging' = [staging EXCEPT ![p] = d],
           UNCHANGED sources, Known(t, d)
    PROVE  AllKnown'
<1>1. ASSUME NEW u \in Tasks, NEW e, Known(u, e) PROVE Known(u, e)'
    <2>1. DatabaseKnown(u)'
        BY <1>1 DEF sources, Known, DatabaseKnown, ReadSince, Holds
    <2>2. CopyKnown(u, e)'
        BY <1>1 DEF sources, Known, CopyKnown
    <2>3. WikiKnown(u)'
        BY <1>1 DEF sources, Known, WikiKnown, ScanKnown, WikiFiles, Present, RecordOf
    <2> QED
        BY <2>1, <2>2, <2>3 DEF Known
<1>2. ASSUME NEW q \in Stagers PROVE Known(task[q], staging[q])'
    <2>1. /\ task'[q] = (IF q = p THEN t ELSE task[q])
          /\ staging'[q] = (IF q = p THEN d ELSE staging[q])
        BY DEF IInv, StagersOK
    <2>2. Known(task[q], staging[q]) /\ task[q] \in Tasks
        BY DEF IInv, AllKnown, StagersOK
    <2>3. Known(task'[q], staging'[q])
        BY <2>1, <2>2
    <2>4. task'[q] \in Tasks
        BY <2>1, <2>2
    <2> QED
        BY <1>1, <2>3, <2>4
<1> QED
    BY <1>2 DEF AllKnown

\* Of a call that has ended nothing is known.
LEMMA EndedKnown == ASSUME NEW t \in Tasks, t.at = 0, NEW d PROVE Known(t, d)
BY DEF Known, DatabaseKnown, CopyKnown, WikiKnown, AtDatabase, AtWiki, HasOpened, HasNow

\* A stager only looks, and knows more.
LEMMA LookKnows ==
    ASSUME IInv, AllKnown, NEW p \in Stagers, NEW t \in Tasks, Goes(p, t), Look,
           Known(t, staging[p])
    PROVE  AllKnown'
<1>1. staging' = [staging EXCEPT ![p] = staging[p]]
    BY DEF Look, IInv, StagersOK
<1> QED
    BY <1>1, OneKnows DEF Goes, Look

LEMMA FailKnows ==
    ASSUME IInv, AllKnown, NEW p \in Stagers, Fail(p) PROVE AllKnown'
<1>1. staging' = [staging EXCEPT ![p] = staging[p]]
    BY DEF Fail, IInv, StagersOK
<1>2. Known(NoTask, staging[p]) /\ NoTask \in Tasks
    BY NoTaskIs, EndedKnown
<1> QED
    BY <1>1, <1>2, OneKnows DEF Fail, Goes

\* From one place to the next nothing is forgotten that is still needed there.
LEMMA NextKnown ==
    ASSUME NEW t \in Tasks, NEW u \in Tasks, NEW d, NEW e, Known(t, d),
           t.at < 29, t.at > 0, t.at \notin AtDatabase \cup AtWiki \cup {13},
           u.at = t.at, u.before = t.before, u.wiki = t.wiki,
           t.at \notin {9, 17, 22, 27} => u.opened = t.opened /\ u.now = t.now,
           t.at \in 14..16 => e.copy = d.copy
    PROVE  Known(Next1(u), e)
<1> DEFINE n == Next1(u)
<1>1. /\ n \in Tasks /\ n.at = t.at + 1 /\ n.looked = None
      /\ n.before = t.before /\ n.wiki = t.wiki /\ n.opened = u.opened /\ n.now = u.now
      /\ t.at \in Nat
    BY NextIs, PlaceOf
<1> HIDE DEF n
<1>2. t.at \in 1..28 /\ t.at \notin {1, 2, 5, 8, 10, 13, 15, 19, 21, 24, 26}
    BY <1>1 DEF AtDatabase, AtWiki
<1>3. DatabaseKnown(n)
    <2>1. n.at \in HasOpened => t.at \in HasOpened /\ n.opened = t.opened
        BY <1>1, <1>2 DEF HasOpened
    <2>2. n.at \in HasNow => t.at \in HasNow /\ n.now = t.now
        BY <1>1, <1>2 DEF HasNow
    <2> QED
        BY <1>1, <2>1, <2>2, NoneAssumption DEF Known, DatabaseKnown, ReadSince
<1>4. CopyKnown(n, e)
    <2>1. n.at \in 14..17 => t.at \in 14..16
        BY <1>1, <1>2
    <2> QED
        BY <1>1, <2>1 DEF Known, CopyKnown
<1>5. WikiKnown(n)
    <2>1. (n.at > 10 => t.at > 10) /\ n.at \notin {22, 27}
        BY <1>1, <1>2
    <2> QED
        BY <1>1, <2>1, NoneAssumption DEF Known, WikiKnown
<1>6. Known(n, e)
    BY <1>3, <1>4, <1>5 DEF Known
<1> QED
    BY <1>6 DEF n

\* Looks at the database.
LEMMA StatKnows ==
    ASSUME IInv, AllKnown, NEW p \in Stagers, Stat(p) PROVE AllKnown'
<1> DEFINE t == [task[p] EXCEPT !.looked = "stat", !.stat = stamp]
<1>1. task[p] \in Tasks /\ task[p].at \in AtDatabase /\ Goes(p, t) /\ Look
    BY StepIs DEF Stat, IInv, DatabaseLooks
<1>2. Fits(task[p], staging[p]) /\ Known(task[p], staging[p]) /\ stamp \in Nat
    BY DEF IInv, AllFit, AllKnown, SourcesOK
<1>3. /\ t \in Tasks /\ t.at = task[p].at /\ t.stat = stamp
      /\ t.before = task[p].before /\ t.opened = task[p].opened /\ t.now = task[p].now
      /\ t.wiki = task[p].wiki /\ t.again = task[p].again
    BY <1>1, <1>2 DEF Tasks
<1> HIDE DEF t
<1>4. t.at \in AtDatabase \ {1} => t.before.time <= t.stat
    BY <1>2, <1>3 DEF Fits, BeforeFits, Holds, AtDatabase
<1>5. DatabaseKnown(t)
    BY <1>2, <1>3, <1>4 DEF Known, DatabaseKnown, ReadSince
<1>6. CopyKnown(t, staging[p])
    BY <1>2, <1>3 DEF Known, CopyKnown
<1>7. WikiKnown(t)
    BY <1>1, <1>2, <1>3 DEF Known, WikiKnown, AtDatabase, AtWiki
<1> QED
    BY <1>1, <1>3, <1>5, <1>6, <1>7, LookKnows DEF Known

LEMMA ReadPageKnows ==
    ASSUME IInv, AllKnown, NEW p \in Stagers, ReadPage(p) PROVE AllKnown'
<1> DEFINE pages == Append(task[p].pages, main[Len(task[p].pages) + 1])
           x == [time |-> task[p].stat, pages |-> pages]
           more == [task[p] EXCEPT !.pages = pages]
           done == [task[p] EXCEPT ![Step(p)] = x]
           u == Next1(done)
<1>1. /\ task[p] \in Tasks /\ task[p].at \in AtDatabase
      /\ task[p].looked = "stat" /\ Step(p) \in DatabaseLooks /\ Look
      /\ IF Len(pages) < PageCount THEN Goes(p, more) ELSE Goes(p, u)
    BY StepIs DEF ReadPage, IInv, DatabaseLooks
<1>2. /\ Fits(task[p], staging[p]) /\ Known(task[p], staging[p]) /\ SourcesOK
      /\ Len(task[p].pages) < PageCount /\ Holds(task[p].stat, task[p].pages)
    BY <1>1 DEF IInv, AllFit, AllKnown, Fits, ReadingFits
<1>3. /\ pages \in Seq(Versions) /\ Holds(task[p].stat, pages)
      /\ ~ Len(pages) < PageCount => pages \in Databases
    BY <1>1, <1>2, OnePageMore
<1> HIDE DEF pages
<1>4. CASE Len(pages) < PageCount
    <2>1. /\ more \in Tasks /\ more.at = task[p].at /\ more.looked = task[p].looked
          /\ more.stat = task[p].stat
          /\ more.before = task[p].before /\ more.opened = task[p].opened
          /\ more.now = task[p].now /\ more.wiki = task[p].wiki
          /\ more.again = task[p].again
        BY <1>1, <1>3 DEF Tasks
    <2>2. Goes(p, more)
        BY <1>1, <1>4
    <2> HIDE DEF more
    <2>3. DatabaseKnown(more)
        BY <1>2, <2>1 DEF Known, DatabaseKnown, ReadSince
    <2>4. CopyKnown(more, staging[p])
        BY <1>2, <2>1 DEF Known, CopyKnown
    <2>5. WikiKnown(more)
        BY <1>1, <1>2, <2>1 DEF Known, WikiKnown, AtDatabase, AtWiki
    <2> QED
        BY <1>1, <2>1, <2>2, <2>3, <2>4, <2>5, LookKnows DEF Known
<1>5. CASE ~ Len(pages) < PageCount
    <2>1. x \in Snapshots /\ x.time = task[p].stat /\ x.pages = pages
        BY <1>1, <1>3, <1>5 DEF Snapshots, Tasks
    <2> HIDE DEF x
    <2>2. /\ done \in Tasks /\ done.at = task[p].at
          /\ done.wiki = task[p].wiki /\ done.again = task[p].again
          /\ done.before = (IF Step(p) = "before" THEN x ELSE task[p].before)
          /\ done.opened = (IF Step(p) = "opened" THEN x ELSE task[p].opened)
          /\ done.now = (IF Step(p) = "now" THEN x ELSE task[p].now)
        BY <1>1, <2>1 DEF Tasks, DatabaseLooks
    <2>3. Goes(p, u)
        BY <1>1, <1>5
    <2>4. /\ Step(p) = "before" => task[p].at = 1
          /\ Step(p) = "opened" => task[p].at = 2
          /\ Step(p) = "now" => task[p].at \in {5, 8, 15, 19, 24}
        BY <1>1, StepIs DEF IInv, DatabaseLooks
    <2> HIDE DEF done
    <2>5. done.at < 29
        BY <1>1, <2>2 DEF AtDatabase
    <2>6. /\ u \in Tasks /\ u.at = done.at + 1 /\ u.looked = None
          /\ u.before = done.before /\ u.opened = done.opened /\ u.now = done.now
          /\ u.wiki = done.wiki /\ u.again = done.again
        BY <2>2, <2>5, NextIs
    <2>7. done.at # 1 => done.before = task[p].before /\ ReadSince(task[p], x)
        BY <1>1, <1>2, <1>3, <2>1, <2>2, <2>4 DEF Known, DatabaseKnown, ReadSince
    <2> HIDE DEF u
    <2>8. DatabaseKnown(u)
        <3>1. u.at \in HasOpened => ReadSince(u, u.opened)
            <4>1. CASE done.at = 2
                <5>1. u.opened = x /\ u.before = task[p].before
                    BY <1>1, <2>2, <2>4, <2>6, <2>7, <4>1 DEF DatabaseLooks
                <5> QED
                    BY <2>7, <4>1, <5>1 DEF ReadSince
            <4>2. CASE done.at # 2 /\ u.at \in HasOpened
                <5>1. done.at \in HasOpened /\ done.at # 1
                    BY <1>1, <2>2, <2>6, <4>2 DEF HasOpened, AtDatabase
                <5>2. u.opened = task[p].opened /\ u.before = task[p].before
                    BY <2>2, <2>4, <2>6, <2>7, <4>2, <5>1
                <5> QED
                    BY <1>2, <2>2, <5>1, <5>2 DEF Known, DatabaseKnown, ReadSince
            <4> QED
                BY <4>1, <4>2
        <3>2. u.at \in HasNow => ReadSince(u, u.now)
            <4>1. u.at \in HasNow => done.at \in {5, 8, 15, 19, 24}
                BY <1>1, <2>2, <2>6 DEF HasNow, AtDatabase
            <4>2. done.at \in {5, 8, 15, 19, 24} => u.now = x /\ u.before = task[p].before
                BY <1>1, <2>2, <2>4, <2>6, <2>7 DEF DatabaseLooks
            <4> QED
                BY <2>7, <4>1, <4>2 DEF ReadSince
        <3> QED
            BY <2>6, <3>1, <3>2, NoneAssumption DEF DatabaseKnown
    <2>9. CopyKnown(u, staging[p])
        <3>1. u.at \in 14..17 => task[p].at = 15 /\ u.before = task[p].before
            BY <1>1, <2>2, <2>6, <2>7 DEF AtDatabase
        <3> QED
            BY <1>2, <3>1 DEF Known, CopyKnown
    <2>10. WikiKnown(u)
        <3>1. (u.at > 10 => task[p].at > 10) /\ u.at \notin {22, 27}
            BY <1>1, <2>2, <2>6 DEF AtDatabase
        <3> QED
            BY <1>2, <2>2, <2>6, <3>1, NoneAssumption DEF Known, WikiKnown
    <2> QED
        BY <1>1, <2>3, <2>6, <2>8, <2>9, <2>10, LookKnows DEF Known
<1> QED
    BY <1>4, <1>5

\* Looks at the wiki.  While it is not edited a scan is exact.
LEMMA ScanKnows ==
    ASSUME IInv, AllKnown, NEW p \in Stagers, NEW t \in Tasks, Goes(p, t), Look,
           task[p].at \in AtWiki, t.at = task[p].at,
           t.before = task[p].before, t.wiki = task[p].wiki, t.opened = task[p].opened,
           t.now = task[p].now, t.again = task[p].again,
           edits = 0 => ScanKnown(t)
    PROVE  AllKnown'
<1>1. Known(task[p], staging[p])
    BY DEF AllKnown
<1>2. DatabaseKnown(t) /\ CopyKnown(t, staging[p])
    BY <1>1 DEF Known, DatabaseKnown, CopyKnown, ReadSince, AtWiki, AtDatabase
<1>3. WikiKnown(t)
    BY <1>1 DEF Known, WikiKnown
<1> QED
    BY <1>2, <1>3, LookKnows DEF Known

LEMMA ListWikiKnows ==
    ASSUME IInv, AllKnown, NEW p \in Stagers, ListWiki(p) PROVE AllKnown'
<1> DEFINE t == [task[p] EXCEPT !.looked = "listed", !.todo = Present]
<1>1. /\ task[p] \in Tasks /\ task[p].at \in AtWiki /\ task[p].looked = None
      /\ Goes(p, t) /\ Look
    BY StepIs DEF ListWiki, IInv, WikiLooks, Present
<1>2. task[p].seen = {}
    BY <1>1 DEF IInv, AllFit, Fits, ScanFits
<1>3. /\ t \in Tasks /\ t.at = task[p].at /\ t.looked = "listed" /\ t.todo = Present
      /\ t.before = task[p].before /\ t.wiki = task[p].wiki /\ t.opened = task[p].opened
      /\ t.now = task[p].now /\ t.again = task[p].again /\ t.seen = {}
    BY <1>1, <1>2 DEF Tasks, Present
<1> HIDE DEF t
<1>4. ScanKnown(t)
    BY <1>3 DEF ScanKnown, WikiFiles
<1> QED
    BY <1>1, <1>3, <1>4, ScanKnows

LEMMA StatFileKnows ==
    ASSUME IInv, AllKnown, NEW p \in Stagers, StatFile(p)
    PROVE  AllKnown' /\ (Fail(p) => edits # 0)
<1> DEFINE f == First(task[p].todo)
           t == [task[p] EXCEPT !.looked = "stat", !.stat = wiki[f].time]
<1>1. /\ task[p] \in Tasks /\ task[p].at \in AtWiki /\ outcome[p] = "running"
      /\ task[p].looked = "listed" /\ task[p].todo # {}
      /\ IF wiki[f].content = 0 THEN Fail(p) ELSE Goes(p, t) /\ Look
    BY StepIs DEF StatFile, WikiFile, IInv, WikiLooks
<1>2. Known(task[p], staging[p]) /\ f \in Files /\ f \in task[p].todo /\ wiki[f].time \in Nat
    BY <1>1, TodoIsFile DEF IInv, AllKnown, SourcesOK
<1>3. edits = 0 => ScanKnown(task[p]) /\ wiki[f].time = 0 /\ wiki[f].content # 0
    BY <1>1, <1>2, NoneAssumption DEF Known, WikiKnown, ScanKnown, Present, IInv, SourcesOK
<1>4. /\ t \in Tasks /\ t.at = task[p].at /\ t.looked = "stat" /\ t.todo = task[p].todo
      /\ t.before = task[p].before /\ t.wiki = task[p].wiki /\ t.opened = task[p].opened
      /\ t.now = task[p].now /\ t.again = task[p].again /\ t.seen = task[p].seen
      /\ t.stat = wiki[f].time
    BY <1>1, <1>2 DEF Tasks
<1>5. Goes(p, t) /\ Look => outcome' = outcome
    BY DEF Look
<1>6. Fail(p) => outcome'[p] # "running"
    BY DEF Fail, IInv, StagersOK
<1> HIDE DEF t, f
<1>7. edits = 0 => ScanKnown(t)
    BY <1>3, <1>4 DEF ScanKnown
<1> QED
    BY <1>1, <1>3, <1>4, <1>5, <1>6, <1>7, FailKnows, ScanKnows

LEMMA HashFileKnows ==
    ASSUME IInv, AllKnown, NEW p \in Stagers, HashFile(p)
    PROVE  AllKnown' /\ (Fail(p) => edits # 0)
<1> DEFINE f == First(task[p].todo)
           x == [file |-> f, time |-> task[p].stat, content |-> wiki[f].content]
           t == [task[p] EXCEPT !.looked = "listed", !.todo = @ \ {f}, !.seen = @ \cup {x}]
<1>1. /\ task[p] \in Tasks /\ task[p].at \in AtWiki /\ outcome[p] = "running"
      /\ task[p].looked = "stat" /\ task[p].todo # {}
      /\ IF wiki[f].content = 0 THEN Fail(p) ELSE Goes(p, t) /\ Look
    BY StepIs DEF HashFile, WikiFile, IInv, WikiLooks
<1>2. /\ Known(task[p], staging[p]) /\ f \in Files /\ f \in task[p].todo
      /\ wiki[f].content \in Contents /\ wiki[f].time \in Nat /\ task[p].stat \in Nat
    BY <1>1, TodoIsFile DEF IInv, AllKnown, SourcesOK, Tasks
<1>3. edits = 0 => ScanKnown(task[p]) /\ wiki[f].time = 0 /\ wiki[f].content # 0
    BY <1>1, <1>2, NoneAssumption DEF Known, WikiKnown, ScanKnown, Present, IInv, SourcesOK
<1>4. edits = 0 => x = RecordOf(f) /\ task[p].stat = 0
    BY <1>1, <1>3 DEF ScanKnown, RecordOf
<1>5. x \in Records
    BY <1>2 DEF Records
<1> HIDE DEF x
<1>6. /\ t \in Tasks /\ t.at = task[p].at /\ t.looked = "listed"
      /\ t.todo = task[p].todo \ {f}
      /\ t.before = task[p].before /\ t.wiki = task[p].wiki /\ t.opened = task[p].opened
      /\ t.now = task[p].now /\ t.again = task[p].again
      /\ t.seen = task[p].seen \cup {x}
    BY <1>1, <1>5 DEF Tasks
<1>7. Goes(p, t) /\ Look => outcome' = outcome
    BY DEF Look
<1>8. Fail(p) => outcome'[p] # "running"
    BY DEF Fail, IInv, StagersOK
<1> HIDE DEF t, f
<1>9. edits = 0 => ScanKnown(t)
    BY <1>2, <1>3, <1>4, <1>6 DEF ScanKnown
<1> QED
    BY <1>1, <1>3, <1>6, <1>7, <1>8, <1>9, FailKnows, ScanKnows

LEMMA WikiSeenKnows ==
    ASSUME IInv, AllKnown, NEW p \in Stagers, WikiSeen(p) PROVE AllKnown'
<1> DEFINE done == [task[p] EXCEPT ![Step(p)] = task[p].seen]
           u == Next1(done)
<1>1. /\ task[p] \in Tasks /\ task[p].at \in AtWiki
      /\ task[p].looked = "listed" /\ task[p].todo = {} /\ Step(p) \in WikiLooks
      /\ Step(p) = "wiki" => task[p].at = 10
      /\ Step(p) = "again" => task[p].at \in {21, 26}
      /\ Goes(p, u) /\ Look
    BY StepIs DEF WikiSeen, IInv, WikiLooks
<1>2. Known(task[p], staging[p]) /\ task[p].seen \subseteq Records
    BY <1>1 DEF IInv, AllKnown, Tasks
<1>3. edits = 0 => task[p].seen = WikiFiles
    BY <1>1, <1>2, NoneAssumption DEF Known, WikiKnown, ScanKnown
<1>4. /\ done \in Tasks /\ done.at = task[p].at /\ done.before = task[p].before
      /\ done.opened = task[p].opened /\ done.now = task[p].now
      /\ done.wiki = (IF Step(p) = "wiki" THEN task[p].seen ELSE task[p].wiki)
      /\ done.again = (IF Step(p) = "again" THEN task[p].seen ELSE task[p].again)
    BY <1>1, <1>2 DEF Tasks, WikiLooks
<1> HIDE DEF done
<1>5. done.at < 29
    BY <1>1, <1>4 DEF AtWiki
<1>6. /\ u \in Tasks /\ u.at = task[p].at + 1 /\ u.looked = None
      /\ u.before = task[p].before /\ u.opened = task[p].opened /\ u.now = task[p].now
      /\ u.wiki = done.wiki /\ u.again = done.again
    BY <1>4, <1>5, NextIs
<1> HIDE DEF u
<1>7. DatabaseKnown(u)
    <2>1. u.at \notin HasOpened
        BY <1>1, <1>6 DEF AtWiki, HasOpened
    <2>2. u.at \in HasNow => task[p].at \in HasNow
        BY <1>1, <1>6 DEF AtWiki, HasNow
    <2> QED
        BY <1>2, <1>6, <2>1, <2>2, NoneAssumption DEF Known, DatabaseKnown, ReadSince
<1>8. CopyKnown(u, staging[p])
    BY <1>1, <1>6 DEF CopyKnown, AtWiki
<1>9. WikiKnown(u)
    <2>1. task[p].at # 10 => task[p].at > 10 /\ u.wiki = task[p].wiki
        BY <1>1, <1>4, <1>6 DEF AtWiki, WikiLooks
    <2>2. task[p].at = 10 => u.wiki = task[p].seen /\ u.at = 11
        BY <1>1, <1>4, <1>6 DEF WikiLooks
    <2>3. u.at \in {22, 27} => u.again = task[p].seen
        BY <1>1, <1>4, <1>6 DEF AtWiki, WikiLooks
    <2> QED
        BY <1>2, <1>3, <1>6, <2>1, <2>2, <2>3, NoneAssumption DEF Known, WikiKnown
<1> QED
    BY <1>1, <1>6, <1>7, <1>8, <1>9, LookKnows DEF Known

\* Comparisons.  A snapshot read after the first look equals it, if the
\* database was not written since the first look.
LEMMA QuietDatabase ==
    ASSUME SourcesOK, NEW t, t.before \in Snapshots, Holds(t.before.time, t.before.pages),
           stamp = t.before.time, NEW s, ReadSince(t, s)
    PROVE  s = t.before
<1>1. /\ PageCount \in Nat /\ s \in Snapshots /\ s.time \in Nat /\ t.before.time \in Nat
      /\ stamp \in Nat
    BY NumbersAssumption DEF ReadSince, Snapshots, SourcesOK
<1>2. s.time = stamp
    BY <1>1 DEF ReadSince, Holds
<1>3. s.pages \in Databases /\ t.before.pages \in Databases
    BY <1>1 DEF Snapshots
<1>4. Len(s.pages) = PageCount /\ Len(t.before.pages) = PageCount
    BY <1>3, PagesAreDatabase
<1>5. \A k \in Pages : s.pages[k] = main[k] /\ t.before.pages[k] = main[k]
    BY <1>1, <1>2, <1>4 DEF ReadSince, Holds, Pages
<1>6. s.pages = t.before.pages
    BY <1>3, <1>5 DEF Databases
<1> QED
    BY <1>1, <1>2, <1>6 DEF Snapshots

LEMMA QuietCopy ==
    ASSUME SourcesOK, NEW t, t.before \in Snapshots, Holds(t.before.time, t.before.pages),
           stamp = t.before.time, NEW copy \in Seq(Versions), Len(copy) = PageCount,
           \A i \in 1..Len(copy) : copy[i] = main[i]
    PROVE  copy = t.before.pages
<1>1. t.before.pages \in Databases /\ PageCount \in Nat
    BY NumbersAssumption DEF Snapshots
<1>2. Len(t.before.pages) = PageCount
    BY <1>1, PagesAreDatabase
<1>3. copy \in [1..PageCount -> Versions]
    BY LenProperties
<1>4. \A k \in 1..PageCount : t.before.pages[k] = main[k]
    BY <1>2 DEF Holds
<1> QED
    BY <1>1, <1>3, <1>4 DEF Databases, Pages

\* What a comparison finds different is different.
LEMMA CheckHasReason ==
    ASSUME IInv, AllKnown, NEW p \in Stagers, Step(p) \in Checks, ~Agrees(p, task[p])
    PROVE  \/ log # None \/ stamp # task[p].before.time \/ edits # 0
           \/ \E b \in bundles : b.name = task[p].before.pages
<1> DEFINE t == task[p]
<1>1. SUFFICES ASSUME Step(p) \notin {"sidecars", "vacant"}, stamp = t.before.time, edits = 0
               PROVE  FALSE
    BY DEF Checks, Agrees, NoSidecars, Vacant
<1>2. Step(p) \in {"inspected", "unchanged", "copied", "sources"}
    BY <1>1 DEF Checks
<1>3. /\ t \in Tasks /\ t.at \in Nat /\ t.at > 1
      /\ Step(p) = "inspected" => t.at = 7
      /\ Step(p) = "unchanged" => t.at = 9
      /\ Step(p) = "copied" => t.at = 17
      /\ Step(p) = "sources" => t.at \in {22, 27}
    BY <1>2, StepIs DEF IInv
<1>4. /\ Fits(t, staging[p]) /\ Known(t, staging[p])
      /\ t.before \in Snapshots /\ Holds(t.before.time, t.before.pages) /\ SourcesOK
    BY <1>3 DEF IInv, AllFit, AllKnown, Fits, BeforeFits
<1>5. t.now = t.before
    <2>1. ReadSince(t, t.now)
        BY <1>2, <1>3, <1>4 DEF Known, DatabaseKnown, HasNow
    <2> QED
        BY <1>1, <1>4, <2>1, QuietDatabase
<1>6. CASE Step(p) \in {"inspected", "unchanged"}
    <2>1. ReadSince(t, t.opened)
        BY <1>3, <1>4, <1>6 DEF Known, DatabaseKnown, HasOpened
    <2>2. t.opened = t.before
        BY <1>1, <1>4, <2>1, QuietDatabase
    <2> QED
        BY <1>5, <1>6, <2>2 DEF Agrees
<1>7. CASE Step(p) = "copied"
    <2>1. /\ staging[p] \in Directories /\ Len(staging[p].copy) = PageCount
          /\ \A i \in 1..Len(staging[p].copy) : staging[p].copy[i] = main[i]
        BY <1>1, <1>3, <1>4, <1>7 DEF Known, CopyKnown, Fits, StagingFits, MadeFits
    <2>2. staging[p].copy = t.before.pages
        BY <1>1, <1>4, <2>1, QuietCopy DEF Directories
    <2> QED
        BY <1>5, <1>7, <2>2 DEF Agrees
<1>8. CASE Step(p) = "sources"
    <2>1. t.again = t.wiki
        BY <1>1, <1>3, <1>4, <1>8 DEF Known, WikiKnown
    <2> QED
        BY <1>5, <1>8, <2>1 DEF Agrees
<1> QED
    BY <1>2, <1>6, <1>7, <1>8

LEMMA CheckKnows ==
    ASSUME IInv, AllKnown, NEW p \in Stagers, Check(p) PROVE AllKnown'
<1> DEFINE u == Compared(p, task[p])
<1>1. /\ Step(p) \in Checks /\ task[p] \in Tasks
      /\ Step(p) = "unchanged" => task[p].at = 9
      /\ Step(p) = "copied" => task[p].at = 17
      /\ Step(p) = "sources" => task[p].at \in {22, 27}
      /\ task[p].at \in {3, 6, 7, 9, 12, 16, 17, 20, 22, 25, 27, 28}
      /\ Fail(p) \/ (Goes(p, Next1(u)) /\ Look)
    BY StepIs DEF Check, IInv, Checks
<1>2. /\ u \in Tasks /\ u.at = task[p].at /\ u.before = task[p].before /\ u.wiki = task[p].wiki
      /\ task[p].at \notin {9, 17, 22, 27} => u.opened = task[p].opened /\ u.now = task[p].now
    BY <1>1 DEF Compared, Tasks
<1> HIDE DEF u
<1>3. Known(task[p], staging[p])
    BY DEF AllKnown
<1>4. Known(Next1(u), staging[p])
    <2>1. /\ task[p].at < 29 /\ task[p].at > 0
          /\ task[p].at \notin AtDatabase \cup AtWiki \cup {13}
        BY <1>1 DEF AtDatabase, AtWiki
    <2>2. task[p] \in Tasks
        BY <1>1
    <2> QED
        BY <1>2, <1>3, <2>1, <2>2, NextKnown
<1>5. Next1(u) \in Tasks
    BY <1>1, <1>2, NextIs
<1> QED
    BY <1>1, <1>4, <1>5, FailKnows, LookKnows

\* Writes, and the rest of a call.
LEMMA WriteKnows ==
    ASSUME IInv, AllKnown, NEW p \in Stagers, NEW d,
           task' = [task EXCEPT ![p] = Next1(task[p])], staging' = [staging EXCEPT ![p] = d],
           UNCHANGED sources, task[p].at \in {4, 11, 18, 23},
           d.copy = staging[p].copy
    PROVE  AllKnown'
<1>1. task[p] \in Tasks /\ Known(task[p], staging[p]) /\ Next1(task[p]) \in Tasks
    BY NextIs DEF IInv, StagersOK, AllKnown
<1>2. Known(Next1(task[p]), d)
    BY <1>1, NextKnown DEF AtDatabase, AtWiki
<1> QED
    BY <1>1, <1>2, OneKnows

LEMMA ReadTablesKnows ==
    ASSUME IInv, AllKnown, NEW p \in Stagers, ReadTables(p) PROVE AllKnown'
<1>1. task[p].at = 4 /\ (Fail(p) \/ (Goes(p, Next1(task[p])) /\ Look))
    BY StepIs DEF ReadTables, IInv
<1>2. Look => staging' = [staging EXCEPT ![p] = staging[p]]
    BY DEF Look, IInv, StagersOK
<1> QED
    BY <1>1, <1>2, FailKnows, WriteKnows DEF Goes, Look

LEMMA TakeLockKnows ==
    ASSUME IInv, AllKnown, NEW p \in Stagers, TakeLock(p) PROVE AllKnown'
<1>1. task[p].at = 11
    BY StepIs DEF TakeLock, IInv
<1>2. staging' = [staging EXCEPT ![p] = staging[p]]
    BY DEF TakeLock, IInv, StagersOK
<1> QED
    BY <1>1, <1>2, WriteKnows DEF TakeLock, Goes

LEMMA MakeStagingKnows ==
    ASSUME IInv, AllKnown, NEW p \in Stagers, MakeStaging(p) PROVE AllKnown'
<1> DEFINE d == [copy |-> <<>>, tables |-> None, wiki |-> None]
           u == Next1(task[p])
<1>1. /\ task[p] \in Tasks /\ task[p].at = 13 /\ Written(p, d, u)
    BY StepIs DEF MakeStaging, IInv
<1>2. /\ u \in Tasks /\ u.at = 14 /\ u.wiki = task[p].wiki /\ u.looked = None
    BY <1>1, NextIs
<1>3. d.copy = <<>> /\ Known(task[p], staging[p])
    BY DEF AllKnown
<1> HIDE DEF u, d
<1>4. DatabaseKnown(u) /\ CopyKnown(u, d)
    BY <1>2, <1>3 DEF DatabaseKnown, CopyKnown, AtDatabase, HasOpened, HasNow
<1>5. WikiKnown(u)
    BY <1>1, <1>2, <1>3 DEF Known, WikiKnown, AtWiki
<1> QED
    BY <1>1, <1>2, <1>4, <1>5, OneKnows DEF Known, Written, Goes

LEMMA CopyPageKnows ==
    ASSUME IInv, AllKnown, NEW p \in Stagers, CopyPage(p) PROVE AllKnown'
<1> DEFINE copy == Append(staging[p].copy, main[Len(staging[p].copy) + 1])
           d == [staging[p] EXCEPT !.copy = copy]
           t == IF Len(copy) < PageCount THEN task[p] ELSE Next1(task[p])
<1>1. /\ task[p] \in Tasks /\ task[p].at = 14 /\ Written(p, d, t)
      /\ Fits(task[p], staging[p]) /\ Known(task[p], staging[p])
    BY StepIs DEF CopyPage, IInv, AllFit, AllKnown
<1>2. staging[p] \in Directories /\ Len(staging[p].copy) < PageCount
    BY <1>1 DEF Fits, StagingFits, MadeFits
<1>3. staging[p].copy \in Seq(Versions) /\ Len(staging[p].copy) \in Nat /\ PageCount \in Nat
    BY <1>2, NumbersAssumption DEF Directories
<1>4. main[Len(staging[p].copy) + 1] \in Versions
    BY <1>2, <1>3 DEF IInv, SourcesOK, Databases, Pages
<1>5. /\ copy \in Seq(Versions) /\ Len(copy) = Len(staging[p].copy) + 1
      /\ \A i \in 1..Len(staging[p].copy) : copy[i] = staging[p].copy[i]
      /\ copy[Len(staging[p].copy) + 1] = main[Len(staging[p].copy) + 1]
    BY <1>3, <1>4, AppendProperties
<1> HIDE DEF copy
<1>6. d.copy = copy
    BY <1>2, <1>5 DEF Directories
<1> HIDE DEF d
<1>7. Next1(task[p]) \in Tasks /\ Next1(task[p]).at = 15
      /\ Next1(task[p]).before = task[p].before /\ Next1(task[p]).wiki = task[p].wiki
      /\ Next1(task[p]).looked = None
    BY <1>1, NextIs
<1>8. t \in Tasks /\ t.at \in {14, 15} /\ t.before = task[p].before /\ t.wiki = task[p].wiki
      /\ (t.at = 15 => t.looked = None)
    BY <1>1, <1>7
<1> HIDE DEF t
<1>9. CopyKnown(t, d)
    <2>1. stamp = t.before.time => \A i \in 1..Len(staging[p].copy) : copy[i] = main[i]
        BY <1>1, <1>5, <1>8 DEF Known, CopyKnown
    <2> QED
        BY <1>3, <1>5, <1>6, <2>1 DEF CopyKnown
<1>10. DatabaseKnown(t) /\ WikiKnown(t)
    BY <1>1, <1>8, NoneAssumption
       DEF Known, DatabaseKnown, WikiKnown, AtDatabase, AtWiki, HasOpened, HasNow
<1> QED
    BY <1>1, <1>8, <1>9, <1>10, OneKnows DEF Known, Written, Goes

LEMMA ExportKnows ==
    ASSUME IInv, AllKnown, NEW p \in Stagers, ExportTables(p) PROVE AllKnown'
<1> DEFINE d == [staging[p] EXCEPT !.tables = TablesOf[staging[p].copy[1]]]
<1>1. /\ task[p].at = 18 /\ Written(p, d, Next1(task[p])) /\ Fits(task[p], staging[p])
    BY StepIs DEF ExportTables, IInv, AllFit
<1>2. d.copy = staging[p].copy
    BY <1>1 DEF Fits, StagingFits, MadeFits, Directories
<1> HIDE DEF d
<1> QED
    BY <1>1, <1>2, WriteKnows DEF Written, Goes

LEMMA ManifestKnows ==
    ASSUME IInv, AllKnown, NEW p \in Stagers, WriteManifest(p) PROVE AllKnown'
<1> DEFINE d == [staging[p] EXCEPT !.wiki = task[p].wiki]
<1>1. /\ task[p].at = 23 /\ Written(p, d, Next1(task[p])) /\ Fits(task[p], staging[p])
    BY StepIs DEF WriteManifest, IInv, AllFit
<1>2. d.copy = staging[p].copy
    BY <1>1 DEF Fits, StagingFits, MadeFits, Directories
<1> HIDE DEF d
<1> QED
    BY <1>1, <1>2, WriteKnows DEF Written, Goes

\* Beginning and ending.
LEMMA EndKnows ==
    ASSUME IInv, AllKnown, NEW p \in Stagers, Publish(p) \/ Clean(p) \/ Die(p) PROVE AllKnown'
<1>1. /\ UNCHANGED sources
      /\ staging' \in {staging, [staging EXCEPT ![p] = None]}
      /\ task' = [task EXCEPT ![p] = NoTask] \/ (task' = task /\ task[p].at = 0)
    BY PlaceOf DEF Publish, Clean, Die, Goes, IInv, StagersOK
<1>2. PICK d : staging' = [staging EXCEPT ![p] = d]
    BY <1>1 DEF IInv, StagersOK
<1>3. PICK t \in Tasks : task' = [task EXCEPT ![p] = t] /\ t.at = 0
    BY <1>1, NoTaskIs DEF IInv, StagersOK
<1> QED
    BY <1>1, <1>2, <1>3, EndedKnown, OneKnows

LEMMA StageKnows ==
    ASSUME IInv, AllKnown, NEW p \in Stagers, Stage(p) PROVE AllKnown'
<1> DEFINE t == Next1(NoTask)
<1>1. t \in Tasks /\ t.at = 1
    BY NoTaskIs, NextIs
<1> HIDE DEF t
<1>2. task' = [task EXCEPT ![p] = t] /\ staging' = [staging EXCEPT ![p] = staging[p]]
    BY DEF Stage, Goes, t, IInv, StagersOK
<1>3. Known(t, staging[p])
    <2>1. t.looked = None
        BY NoTaskIs, NextIs DEF t
    <2> QED
        BY <1>1, <2>1 DEF Known, DatabaseKnown, CopyKnown, WikiKnown, AtDatabase, AtWiki,
                          HasOpened, HasNow
<1> QED
    BY <1>1, <1>2, <1>3, OneKnows DEF Stage

LEMMA KnownInductive == IInv /\ IInv' /\ AllKnown /\ [Next]_vars => AllKnown'
<1> SUFFICES ASSUME IInv, IInv', AllKnown, [Next]_vars PROVE AllKnown'
    OBVIOUS
<1>1. CASE Commit \/ (\E k \in Pages : CheckpointPage(k)) \/ CloseDatabase
    <2>1. SourcesGoOn
        BY <1>1 DEF Commit, CheckpointPage, CloseDatabase, IInv, SourcesOK, SourcesGoOn
    <2> QED
        BY <1>1, <2>1, OwnersLeaveKnown
           DEF Commit, CheckpointPage, CloseDatabase, IInv
<1>2. ASSUME NEW f \in Files, EditWiki(f) PROVE AllKnown'
    <2>1. PICK c \in Contents : wiki' = [wiki EXCEPT ![f] = [content |-> c, time |-> edits + 1]]
        BY <1>2 DEF EditWiki
    <2>2. edits \in Nat /\ edits' = edits + 1
        BY <1>2 DEF EditWiki, IInv, SourcesOK
    <2>3. \A g \in Files : wiki'[g] = wiki[g] \/ wiki[g].time < wiki'[g].time
        BY <2>1, <2>2 DEF IInv, SourcesOK
    <2>4. SourcesGoOn /\ edits' # 0
        BY <1>2, <2>2, <2>3 DEF EditWiki, IInv, SourcesOK, SourcesGoOn
    <2> QED
        BY <1>2, <2>4, OwnersLeaveKnown DEF EditWiki, IInv
<1>3. ASSUME NEW p \in Stagers, Run(p) PROVE AllKnown'
    <2>1. WriteFails(p) => AllKnown'
        BY FailKnows DEF WriteFails
    <2> QED
        BY <1>3, <2>1, StageKnows, StatKnows, ReadPageKnows, ReadTablesKnows, ListWikiKnows,
           StatFileKnows, HashFileKnows, WikiSeenKnows, CheckKnows,
           TakeLockKnows, MakeStagingKnows, CopyPageKnows, ExportKnows, ManifestKnows, EndKnows
           DEF Run
<1>4. CASE UNCHANGED vars
    BY <1>4, OwnersLeaveKnown DEF vars, sources, IInv, SourcesOK, SourcesGoOn
<1> QED
    BY <1>1, <1>2, <1>3, <1>4 DEF Next, Owner

LEMMA KnownInvariance == Spec => [](IInv /\ AllKnown)
<1>1. Init => AllKnown
    BY NoTaskIs, EndedKnown DEF Init, AllKnown
<1>2. IInv /\ AllKnown /\ [Next]_vars => IInv' /\ AllKnown'
    BY Inductive, KnownInductive
<1> QED
    BY <1>1, <1>2, Initially, PTL DEF Spec

\* Only a failure ends a call badly; the steps of others leave it running.
LEMMA EndsBadly ==
    ASSUME IInv, AllKnown, [Next]_vars, NEW p \in Stagers,
           outcome[p] = "running", outcome'[p] \in {"failed", "cleaning"}
    PROVE  \/ Step(p) \in Writes
           \/ log # None \/ stamp # task[p].before.time \/ edits # 0
           \/ \E b \in bundles : b.name = task[p].before.pages
<1>1. PICK q \in Stagers : Run(q)
    BY DEF Next, Owner, Commit, CheckpointPage, CloseDatabase, EditWiki, vars
<1>2. outcome'[p] # outcome[p] /\ outcome \in [Stagers -> Outcomes]
    BY DEF IInv, StagersOK
<1>3. q = p
    BY <1>1, <1>2
       DEF Run, Stage, Stat, ReadPage, ReadTables, ListWiki, StatFile, HashFile,
           WikiSeen, Check, TakeLock, MakeStaging, CopyPage, ExportTables, WriteManifest, Publish, WriteFails, Clean, Die, Fail, Look, Written
<1>4. Stat(p) \/ ReadPage(p) \/ ListWiki(p) \/ WikiSeen(p) \/ TakeLock(p) \/ MakeStaging(p)
        \/ CopyPage(p) \/ ExportTables(p) \/ WriteManifest(p) => FALSE
    BY <1>2 DEF Stat, ReadPage, ListWiki, WikiSeen, TakeLock, MakeStaging, CopyPage,
                ExportTables, WriteManifest, Look, Written
<1>5. Stage(p) \/ Publish(p) \/ Clean(p) \/ Die(p) => FALSE
    BY <1>2 DEF Stage, Publish, Clean, Die
<1>6. StatFile(p) \/ HashFile(p) => Fail(p)
    BY <1>2 DEF StatFile, HashFile, Look
<1>7. ReadTables(p) => log # None
    BY <1>2 DEF ReadTables, Look
<1>8. Check(p) => Step(p) \in Checks /\ ~Agrees(p, task[p])
    BY <1>2 DEF Check, Look
<1>9. WriteFails(p) => Step(p) \in Writes
    BY DEF WriteFails
<1> QED
    BY <1>1, <1>3, <1>4, <1>5, <1>6, <1>7, <1>8, <1>9, StatFileKnows, HashFileKnows,
       CheckHasReason DEF Run

\* For any database, wiki, stagers and writers, a call that nobody disturbs and
\* whose writes succeed does not fail: staging is refused only over a log, a
\* database written since, an edited wiki, or a bundle of the same name
\* (_snapshot, _inspect and stage_legacy, legacy.py:147-333).
THEOREM UndisturbedCallsSucceed == Spec => FailuresHaveReasons
<1>1. IInv /\ AllKnown /\ [Next]_vars =>
        [\A p \in Stagers : outcome[p] = "running" /\ outcome'[p] \in {"failed", "cleaning"} =>
            \/ Step(p) \in Writes
            \/ log # None \/ stamp # task[p].before.time \/ edits # 0
            \/ \E b \in bundles : b.name = task[p].before.pages]_vars
    BY EndsBadly
<1> QED
    BY <1>1, KnownInvariance, PTL DEF Spec, FailuresHaveReasons

-----------------------------------------------------------------------------
(* Every call ends.  The lock is the one thing a stager waits for; it is    *)
(* left by success, by failure and by death, before the directory is        *)
(* removed.                                                                 *)

\* A stager can go on: the guards of the actions of a call and of its cleaning.
CanContinue(p) ==
    \/ outcome[p] = "running" /\ (Step(p) = "lock" => lock = None)
    \/ outcome[p] = "cleaning"

NobodyIsStuck ==
    \A p \in Stagers : outcome[p] \in {"running", "cleaning"} =>
        \E q \in Stagers : CanContinue(q)

\* What is left to do at one place of the script: pages, and a listing and
\* two looks at each file.
PagesAhead(t) == IF t.looked = None THEN PageCount + 1 ELSE PageCount - Len(t.pages)

FilesAhead(t) ==
    CASE t.looked = "listed" -> 2 * Cardinality(t.todo)
      [] t.looked = "stat"   -> 2 * Cardinality(t.todo) - 1
      [] OTHER               -> 2 * Cardinality(Files) + 1

Ahead(p) ==
    CASE Step(p) \in DatabaseLooks -> PagesAhead(task[p])
      [] Step(p) \in WikiLooks     -> FilesAhead(task[p])
      [] Step(p) = "copy"          -> PageCount - Len(staging[p].copy)
      [] OTHER                     -> 0

\* A step of a call goes on in the script, which has no loop, or lowers the
\* natural number Ahead, or ends the call.
CallGoesOn(p) ==
    \/ outcome[p] \in {"none", "staged", "failed"} /\ outcome'[p] = "running"
    \/ outcome[p] = "running" /\ outcome'[p] \in {"staged", "failed", "cleaning", "left"}
    \/ outcome[p] = "cleaning" /\ outcome'[p] \in {"failed", "left"}
    \/ /\ outcome[p] = "running" /\ outcome'[p] = "running"
       /\ \/ task'[p].at = task[p].at + 1
          \/ task'[p].at = task[p].at /\ Ahead(p)' < Ahead(p) /\ Ahead(p)' \in Nat

EveryStepComesCloser ==
    [][\A p \in Stagers :
          UNCHANGED <<task[p], outcome[p], staging[p]>> \/ CallGoesOn(p)]_vars

\* For any stagers and failures, while a call is not over some stager can go on:
\* the holder of legacy-migration.lock waits for nothing (legacy.py:239-333).
THEOREM NoDeadlock == Spec => []NobodyIsStuck
<1>1. ASSUME IInv, NEW p \in Stagers, outcome[p] \in {"running", "cleaning"}
      PROVE  \E q \in Stagers : CanContinue(q)
    <2>1. CASE outcome[p] = "running" /\ Step(p) = "lock" /\ lock # None
        <3>1. lock \in Stagers /\ InLock(lock) /\ task[lock] \in Tasks
            BY <1>1, <2>1 DEF IInv, StagersOK
        <3>2. task[lock].at \in Nat /\ task[lock].at > 11
            BY <3>1, PlaceOf DEF InLock, LockAt
        <3>3. outcome[lock] = "running"
            BY <1>1, <3>1, <3>2 DEF IInv, StagersOK
        <3>4. Step(lock) # "lock"
            BY <1>1, <3>1, <3>2, StepIs DEF IInv
        <3> QED
            BY <3>1, <3>3, <3>4 DEF CanContinue
    <2>2. CASE ~(outcome[p] = "running" /\ Step(p) = "lock" /\ lock # None)
        BY <1>1, <2>2 DEF CanContinue
    <2> QED
        BY <2>1, <2>2
<1>2. IInv => NobodyIsStuck
    BY <1>1 DEF NobodyIsStuck
<1> QED
    BY <1>2, Invariance, PTL

\* What a stager does is its own.
LEMMA OthersStay ==
    ASSUME IInv, NEW q \in Stagers, Run(q), NEW p \in Stagers, p # q
    PROVE  UNCHANGED <<task[p], outcome[p], staging[p]>>
<1> task \in [Stagers -> Tasks] /\ outcome \in [Stagers -> Outcomes]
      /\ staging \in [Stagers -> Directories \cup {None}]
    BY DEF IInv, StagersOK
<1>1. Stage(q) \/ Fail(q) \/ Die(q) \/ Clean(q) \/ Publish(q) \/ WriteFails(q) =>
        UNCHANGED <<task[p], outcome[p], staging[p]>>
    BY DEF Stage, Fail, Die, Clean, Publish, WriteFails, Goes
<1>2. ASSUME NEW t, Goes(q, t), Look PROVE UNCHANGED <<task[p], outcome[p], staging[p]>>
    BY <1>2 DEF Goes, Look
<1>3. Stat(q) \/ ReadPage(q) \/ ReadTables(q) \/ ListWiki(q) \/ StatFile(q) \/ HashFile(q)
        \/ WikiSeen(q) \/ Check(q) =>
        UNCHANGED <<task[p], outcome[p], staging[p]>>
    BY <1>1, <1>2 DEF Stat, ReadPage, ReadTables, ListWiki, StatFile, HashFile,
                      WikiSeen, Check
<1>4. ASSUME NEW d, NEW t, Written(q, d, t) PROVE UNCHANGED <<task[p], outcome[p], staging[p]>>
    BY <1>4 DEF Written, Goes
<1>5. MakeStaging(q) \/ CopyPage(q) \/ ExportTables(q) \/ WriteManifest(q) =>
        UNCHANGED <<task[p], outcome[p], staging[p]>>
    BY <1>4 DEF MakeStaging, CopyPage, ExportTables, WriteManifest
<1>6. TakeLock(q) => UNCHANGED <<task[p], outcome[p], staging[p]>>
    BY DEF TakeLock, Goes
<1> QED
    BY <1>1, <1>3, <1>5, <1>6 DEF Run

\* On to the next place.
LEMMA GoesToNext ==
    ASSUME IInv, NEW p \in Stagers, NEW t \in Tasks, t.at = task[p].at, t.at < 29,
           Goes(p, Next1(t)), UNCHANGED outcome, outcome[p] = "running"
    PROVE  CallGoesOn(p)
<1>1. Next1(t).at = t.at + 1 /\ task'[p] = Next1(t)
    BY NextIs DEF Goes, IInv, StagersOK
<1> QED
    BY <1>1 DEF CallGoesOn

LEMMA FailEnds == ASSUME IInv, NEW p \in Stagers, Fail(p), outcome[p] = "running"
                  PROVE  CallGoesOn(p)
BY DEF Fail, CallGoesOn, IInv, StagersOK

LEMMA StatEnds == ASSUME IInv, NEW p \in Stagers, Stat(p) PROVE CallGoesOn(p)
<1> DEFINE t == [task[p] EXCEPT !.looked = "stat", !.stat = stamp]
<1>1. /\ task[p] \in Tasks /\ outcome[p] = "running" /\ outcome'[p] = "running"
      /\ task[p].looked = None /\ task[p].pages = <<>> /\ Step(p) \in DatabaseLooks
      /\ task'[p] = t
    BY StepIs DEF Stat, Goes, Look, IInv, DatabaseLooks, StagersOK
<1>2. t.at = task[p].at /\ t.looked = "stat" /\ t.pages = <<>>
    BY <1>1 DEF Tasks
<1> HIDE DEF t
<1>3. Step(p)' = Step(p)
    BY <1>1, <1>2 DEF Step
<1>4. Ahead(p) = PageCount + 1
    <2>1. Ahead(p) = PagesAhead(task[p])
        BY <1>1 DEF Ahead, DatabaseLooks, WikiLooks
    <2> QED
        BY <1>1, <2>1 DEF PagesAhead
<1>5. Ahead(p)' = PageCount - Len(t.pages)
    <2>1. Ahead(p)' = PagesAhead(t)
        BY <1>1, <1>3 DEF Ahead, PagesAhead, DatabaseLooks, WikiLooks
    <2> QED
        BY <1>2, <2>1, NoneAssumption DEF PagesAhead
<1>6. Len(t.pages) = 0
    BY <1>2
<1>7. Ahead(p)' < Ahead(p) /\ Ahead(p)' \in Nat
    BY <1>4, <1>5, <1>6, NumbersAssumption
<1> QED
    BY <1>1, <1>2, <1>7 DEF CallGoesOn

LEMMA ReadPageEnds == ASSUME IInv, NEW p \in Stagers, ReadPage(p) PROVE CallGoesOn(p)
<1> DEFINE pages == Append(task[p].pages, main[Len(task[p].pages) + 1])
           x == [time |-> task[p].stat, pages |-> pages]
           more == [task[p] EXCEPT !.pages = pages]
           done == [task[p] EXCEPT ![Step(p)] = x]
<1>1. /\ task[p] \in Tasks /\ task[p].at \in AtDatabase /\ outcome[p] = "running"
      /\ task[p].looked = "stat" /\ Step(p) \in DatabaseLooks /\ UNCHANGED outcome
      /\ IF Len(pages) < PageCount THEN Goes(p, more) ELSE Goes(p, Next1(done))
    BY StepIs DEF ReadPage, IInv, DatabaseLooks, Look
<1>2. SourcesOK /\ Len(task[p].pages) < PageCount /\ Holds(task[p].stat, task[p].pages)
    BY <1>1 DEF IInv, AllFit, Fits, ReadingFits
<1>3. /\ pages \in Seq(Versions) /\ Len(pages) = Len(task[p].pages) + 1
      /\ ~ Len(pages) < PageCount => pages \in Databases
    BY <1>1, <1>2, OnePageMore
<1>4. Len(task[p].pages) \in Nat
    BY <1>1 DEF Tasks
<1> HIDE DEF pages
<1>5. CASE Len(pages) < PageCount
    <2>1. /\ task'[p] = more /\ more.at = task[p].at /\ more.looked = "stat"
          /\ more.pages = pages
        BY <1>1, <1>5 DEF Goes, IInv, StagersOK, Tasks
    <2> HIDE DEF more
    <2>2. Step(p)' = Step(p)
        BY <2>1 DEF Step
    <2>3. Ahead(p) = PageCount - Len(task[p].pages)
        <3>1. Ahead(p) = PagesAhead(task[p])
            BY <1>1 DEF Ahead, DatabaseLooks, WikiLooks
        <3> QED
            BY <1>1, <3>1, NoneAssumption DEF PagesAhead
    <2>4. Ahead(p)' = PageCount - Len(pages)
        <3>1. Ahead(p)' = PagesAhead(more)
            BY <1>1, <2>1, <2>2
               DEF Ahead, PagesAhead, DatabaseLooks, WikiLooks
        <3> QED
            BY <2>1, <3>1, NoneAssumption DEF PagesAhead
    <2>5. Ahead(p)' < Ahead(p) /\ Ahead(p)' \in Nat
        BY <1>3, <1>4, <1>5, <2>3, <2>4, NumbersAssumption
    <2> QED
        BY <1>1, <2>1, <2>5 DEF CallGoesOn
<1>6. CASE ~ Len(pages) < PageCount
    <2>1. x \in Snapshots
        BY <1>1, <1>3, <1>6 DEF Snapshots, Tasks
    <2> HIDE DEF x
    <2>2. done \in Tasks /\ done.at = task[p].at /\ done.at < 29
        BY <1>1, <2>1 DEF Tasks, DatabaseLooks, AtDatabase
    <2> HIDE DEF done
    <2> QED
        BY <1>1, <1>6, <2>2, GoesToNext
<1> QED
    BY <1>5, <1>6

\* A scan: the files to look at are finitely many.
LEMMA TodoIsFinite ==
    ASSUME IsFiniteSet(Files), NEW t \in Tasks
    PROVE  /\ IsFiniteSet(t.todo) /\ Cardinality(t.todo) \in Nat
           /\ Cardinality(t.todo) <= Cardinality(Files)
           /\ t.todo # {} => /\ First(t.todo) \in t.todo /\ Cardinality(t.todo) > 0
                             /\ Cardinality(t.todo \ {First(t.todo)}) = Cardinality(t.todo) - 1
<1>1. t.todo \subseteq Files
    BY DEF Tasks
<1>2. IsFiniteSet(t.todo) /\ Cardinality(t.todo) <= Cardinality(Files)
    BY <1>1, FS_Subset
<1>3. Cardinality(t.todo) \in Nat
    BY <1>2, FS_CardinalityType
<1>4. t.todo # {} => First(t.todo) \in t.todo /\ Cardinality(t.todo) # 0
    BY <1>2, FS_EmptySet DEF First
<1>5. t.todo # {} => Cardinality(t.todo \ {First(t.todo)}) = Cardinality(t.todo) - 1
    BY <1>2, <1>4, FS_RemoveElement
<1> QED
    BY <1>2, <1>3, <1>4, <1>5

LEMMA ScanEnds ==
    ASSUME IInv, IsFiniteSet(Files), NEW p \in Stagers,
           ListWiki(p) \/ StatFile(p) \/ HashFile(p)
    PROVE  CallGoesOn(p)
<1>1. /\ task[p] \in Tasks /\ outcome[p] = "running" /\ Step(p) \in WikiLooks
      /\ task \in [Stagers -> Tasks]
    BY StepIs DEF ListWiki, StatFile, HashFile, WikiFile, IInv, StagersOK,
                  WikiLooks
<1> DEFINE n == Cardinality(task[p].todo)
           f == First(task[p].todo)
<1>2. ASSUME Look, NEW t \in Tasks, Goes(p, t), t.at = task[p].at,
             Ahead(p)' < Ahead(p), Ahead(p)' \in Nat
      PROVE  CallGoesOn(p)
    BY <1>1, <1>2 DEF CallGoesOn, Look, Goes
<1>3. Cardinality(Files) \in Nat
    BY FS_CardinalityType
<1>4. n \in Nat /\ (task[p].todo # {} => n > 0 /\ f \in task[p].todo
                                          /\ Cardinality(task[p].todo \ {f}) = n - 1)
    BY <1>1, TodoIsFinite
<1>5. Step(p) # "copy" /\ Step(p) \notin DatabaseLooks
    BY <1>1 DEF WikiLooks, DatabaseLooks
<1>6. /\ Ahead(p) = FilesAhead(task[p])
       /\ \A t : task'[p] = t /\ Step(p)' = Step(p) => Ahead(p)' = FilesAhead(t)
    BY <1>1, <1>5 DEF Ahead, FilesAhead
<1>7. CASE ListWiki(p)
    <2> DEFINE t == [task[p] EXCEPT !.looked = "listed",
                                    !.todo = {g \in Files : wiki[g].content # 0}]
    <2>1. task[p].looked = None /\ Goes(p, t) /\ Look
        BY <1>7 DEF ListWiki
    <2>2. t \in Tasks /\ t.at = task[p].at /\ t.looked = "listed" /\ task'[p] = t
        BY <1>1, <2>1 DEF Tasks, Goes
    <2> HIDE DEF t
    <2>3. Cardinality(t.todo) \in Nat /\ Cardinality(t.todo) <= Cardinality(Files)
        BY <2>2, TodoIsFinite
    <2>4. Step(p)' = Step(p)
        BY <2>2 DEF Step
    <2>5. Ahead(p) = 2 * Cardinality(Files) + 1
        BY <1>6, <2>1, NoneAssumption DEF FilesAhead
    <2>6. Ahead(p)' = 2 * Cardinality(t.todo)
        <3>1. Ahead(p)' = FilesAhead(t)
            BY <1>6, <2>2, <2>4
        <3> QED
            BY <2>2, <3>1, NoneAssumption DEF FilesAhead
    <2> QED
        BY <1>2, <1>3, <2>1, <2>2, <2>3, <2>5, <2>6
<1>8. CASE StatFile(p)
    <2> DEFINE t == [task[p] EXCEPT !.looked = "stat", !.stat = wiki[f].time]
    <2>1. task[p].looked = "listed" /\ task[p].todo # {} /\ (Fail(p) \/ (Goes(p, t) /\ Look))
        BY <1>8 DEF StatFile, WikiFile
    <2>2. wiki[f].time \in Nat
        BY <1>1, <2>1, TodoIsFile DEF IInv, SourcesOK
    <2>3. t \in Tasks /\ t.at = task[p].at /\ t.looked = "stat" /\ t.todo = task[p].todo
        BY <1>1, <2>2 DEF Tasks
    <2> HIDE DEF t
    <2>4. ASSUME Goes(p, t), Look PROVE CallGoesOn(p)
        <3>1. task'[p] = t /\ Step(p)' = Step(p)
            BY <1>1, <2>3, <2>4 DEF Goes, Step
        <3>2. Ahead(p) = 2 * n
            BY <1>6, <2>1, NoneAssumption DEF FilesAhead
        <3>3. Ahead(p)' = 2 * n - 1
            BY <1>6, <2>3, <3>1, NoneAssumption DEF FilesAhead
        <3> QED
            BY <1>2, <1>4, <2>1, <2>3, <2>4, <3>2, <3>3
    <2> QED
        BY <1>1, <2>1, <2>4, FailEnds
<1>9. CASE HashFile(p)
    <2> DEFINE x == [file |-> f, time |-> task[p].stat, content |-> wiki[f].content]
               t == [task[p] EXCEPT !.looked = "listed", !.todo = @ \ {f}, !.seen = @ \cup {x}]
    <2>1. task[p].looked = "stat" /\ task[p].todo # {} /\ (Fail(p) \/ (Goes(p, t) /\ Look))
        BY <1>9 DEF HashFile, WikiFile
    <2>2. x \in Records
        BY <1>1, <2>1, TodoIsFile DEF IInv, SourcesOK, Tasks, Records
    <2> HIDE DEF x
    <2>3. t \in Tasks /\ t.at = task[p].at /\ t.looked = "listed"
          /\ t.todo = task[p].todo \ {f}
        BY <1>1, <2>2 DEF Tasks
    <2> HIDE DEF t
    <2>4. ASSUME Goes(p, t), Look PROVE CallGoesOn(p)
        <3>1. task'[p] = t /\ Step(p)' = Step(p)
            BY <1>1, <2>3, <2>4 DEF Goes, Step
        <3>2. Ahead(p) = 2 * n - 1
            BY <1>6, <2>1, NoneAssumption DEF FilesAhead
        <3>3. Cardinality(t.todo) = n - 1 /\ n > 0
            BY <1>4, <2>1, <2>3
        <3>4. Cardinality(t.todo) \in Nat
            BY <1>4, <3>3
        <3>5. Ahead(p)' = 2 * Cardinality(t.todo)
            BY <1>6, <2>3, <3>1, NoneAssumption DEF FilesAhead
        <3> QED
            BY <1>2, <1>4, <2>3, <2>4, <3>2, <3>3, <3>5
    <2> QED
        BY <1>1, <2>1, <2>4, FailEnds
<1> QED
    BY <1>7, <1>8, <1>9

LEMMA WikiSeenEnds == ASSUME IInv, NEW p \in Stagers, WikiSeen(p) PROVE CallGoesOn(p)
<1> DEFINE done == [task[p] EXCEPT ![Step(p)] = task[p].seen]
<1>1. /\ task[p] \in Tasks /\ task[p].at \in AtWiki /\ outcome[p] = "running"
      /\ Step(p) \in WikiLooks /\ Goes(p, Next1(done)) /\ UNCHANGED outcome
    BY StepIs DEF WikiSeen, Look, IInv, WikiLooks
<1>2. done \in Tasks /\ done.at = task[p].at /\ done.at < 29
    BY <1>1 DEF Tasks, WikiLooks, AtWiki
<1> HIDE DEF done
<1> QED
    BY <1>1, <1>2, GoesToNext

LEMMA CheckEnds == ASSUME IInv, NEW p \in Stagers, Check(p) PROVE CallGoesOn(p)
<1> DEFINE u == Compared(p, task[p])
<1>1. /\ Step(p) \in Checks /\ task[p] \in Tasks /\ outcome[p] = "running"
      /\ task[p].at \in {3, 6, 7, 9, 12, 16, 17, 20, 22, 25, 27, 28}
      /\ Fail(p) \/ (Goes(p, Next1(u)) /\ UNCHANGED outcome)
    BY StepIs DEF Check, Look, IInv, Checks
<1>2. u \in Tasks /\ u.at = task[p].at
    BY <1>1 DEF Compared, Tasks, Checks
<1>3. task[p].at < 29
    BY <1>1
<1> HIDE DEF u
<1> QED
    BY <1>1, <1>2, <1>3, FailEnds, GoesToNext

LEMMA CopyPageEnds == ASSUME IInv, NEW p \in Stagers, CopyPage(p) PROVE CallGoesOn(p)
<1> DEFINE copy == Append(staging[p].copy, main[Len(staging[p].copy) + 1])
           d == [staging[p] EXCEPT !.copy = copy]
<1>1. /\ task[p] \in Tasks /\ task[p].at = 14 /\ outcome[p] = "running" /\ Step(p) = "copy"
      /\ Fits(task[p], staging[p])
      /\ Written(p, d, IF Len(copy) < PageCount THEN task[p] ELSE Next1(task[p]))
    BY StepIs DEF CopyPage, IInv, AllFit
<1>2. staging[p] \in Directories /\ Len(staging[p].copy) < PageCount
    BY <1>1 DEF Fits, StagingFits, MadeFits
<1>3. staging[p].copy \in Seq(Versions) /\ Len(staging[p].copy) \in Nat /\ PageCount \in Nat
    BY <1>2, NumbersAssumption DEF Directories
<1>4. main[Len(staging[p].copy) + 1] \in Versions
    BY <1>2, <1>3 DEF IInv, SourcesOK, Databases, Pages
<1>5. copy \in Seq(Versions) /\ Len(copy) = Len(staging[p].copy) + 1
    BY <1>3, <1>4, AppendProperties
<1> HIDE DEF copy
<1>6. d.copy = copy /\ staging'[p] = d /\ UNCHANGED outcome
    BY <1>1, <1>2, <1>5 DEF Directories, Written, IInv, StagersOK
<1> HIDE DEF d
<1>7. CASE Len(copy) < PageCount
    <2>1. task'[p] = task[p] /\ Step(p)' = Step(p)
        BY <1>1, <1>7 DEF Written, Goes, Step, IInv, StagersOK
    <2>2. Ahead(p) = PageCount - Len(staging[p].copy) /\ Ahead(p)' = PageCount - Len(copy)
        BY <1>1, <1>6, <2>1 DEF Ahead, DatabaseLooks, WikiLooks
    <2>3. Ahead(p)' < Ahead(p) /\ Ahead(p)' \in Nat
        BY <1>3, <1>5, <1>7, <2>2
    <2> QED
        BY <1>1, <1>6, <2>1, <2>3 DEF CallGoesOn
<1>8. CASE ~ Len(copy) < PageCount
    BY <1>1, <1>6, <1>8, GoesToNext DEF Written
<1> QED
    BY <1>7, <1>8

LEMMA PlainEnds ==
    ASSUME IInv, NEW p \in Stagers,
           ReadTables(p) \/ TakeLock(p) \/ MakeStaging(p) \/ ExportTables(p) \/ WriteManifest(p)
    PROVE  CallGoesOn(p)
<1>1. task[p] \in Tasks /\ outcome[p] = "running" /\ task[p].at \in {4, 11, 13, 18, 23}
    BY StepIs DEF ReadTables, TakeLock, MakeStaging, ExportTables, WriteManifest, IInv
<1>2. Fail(p) \/ (Goes(p, Next1(task[p])) /\ UNCHANGED outcome)
    BY DEF ReadTables, TakeLock, MakeStaging, ExportTables, WriteManifest, Look, Written
<1> QED
    BY <1>1, <1>2, FailEnds, GoesToNext

LEMMA EndingEnds ==
    ASSUME IInv, NEW p \in Stagers,
           Stage(p) \/ Publish(p) \/ WriteFails(p) \/ Clean(p) \/ Die(p)
    PROVE  CallGoesOn(p)
<1>1. outcome \in [Stagers -> Outcomes]
    BY DEF IInv, StagersOK
<1>2. Stage(p) \/ Clean(p) \/ Die(p) => CallGoesOn(p)
    BY <1>1 DEF Stage, Clean, Die, CallGoesOn
<1>3. Publish(p) => CallGoesOn(p)
    <2>1. Publish(p) => outcome[p] = "running"
        BY StepIs DEF Publish, IInv
    <2> QED
        BY <1>1, <2>1 DEF Publish, CallGoesOn
<1>4. WriteFails(p) => CallGoesOn(p)
    <2>1. WriteFails(p) => outcome[p] = "running"
        BY StepIs DEF WriteFails, Writes, IInv
    <2> QED
        BY <2>1, FailEnds DEF WriteFails
<1> QED
    BY <1>2, <1>3, <1>4

\* For any database, any finite wiki, any stagers, writers and failures, no call
\* runs for ever: at each place of the script there is a number of looks left,
\* however often the sources change under it (stage_legacy, legacy.py:147-333).
THEOREM CallsEnd ==
    ASSUME IsFiniteSet(Files)
    PROVE  Spec => EveryStepComesCloser
<1>1. ASSUME IInv, [Next]_vars, NEW p \in Stagers
      PROVE  UNCHANGED <<task[p], outcome[p], staging[p]>> \/ CallGoesOn(p)
    <2>1. CASE Owner \/ UNCHANGED vars
        BY <2>1 DEF Owner, Commit, CheckpointPage, CloseDatabase, EditWiki, vars
    <2>2. ASSUME NEW q \in Stagers, Run(q), q # p
          PROVE  UNCHANGED <<task[p], outcome[p], staging[p]>>
        BY <1>1, <2>2, OthersStay
    <2>3. Run(p) => CallGoesOn(p)
        BY <1>1, StatEnds, ReadPageEnds, ScanEnds, WikiSeenEnds, CheckEnds, CopyPageEnds,
           PlainEnds, EndingEnds DEF Run
    <2> QED
        BY <1>1, <2>1, <2>2, <2>3 DEF Next
<1>2. IInv /\ [Next]_vars =>
        [\A p \in Stagers :
            UNCHANGED <<task[p], outcome[p], staging[p]>> \/ CallGoesOn(p)]_vars
    BY <1>1
<1> QED
    BY <1>2, Invariance, PTL DEF Spec, EveryStepComesCloser
=============================================================================
