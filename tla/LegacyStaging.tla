---------------------------- MODULE LegacyStaging ----------------------------
(***************************************************************************)
(* The staging of a legacy database and wiki for review (stage_legacy of   *)
(* mneme/migration/legacy.py) next to the programs that own them.          *)
(*                                                                         *)
(* The database is written by the legacy runtime in SQLite's WAL mode      *)
(* (mneme/memory.py): a commit goes to a log beside the file, which a      *)
(* checkpoint copies into the file page by page and the last close         *)
(* removes.  The wiki is a directory of Markdown files that anyone edits.  *)
(* A stager has no lock on either.  It looks at the database and the wiki  *)
(* several times, a page and a file at a time, and publishes what it       *)
(* copied if all these looks agree.                                        *)
(*                                                                         *)
(* A SHA-256 digest stands for the bytes it is taken of.  Every write of a *)
(* file changes its modification time.  A stager's calls in their order    *)
(* are the sequence Script.                                                *)
(***************************************************************************)
EXTENDS Naturals, Sequences

CONSTANTS
    Stagers,        \* processes that stage
    PageCount,      \* pages of the database
    TablesOf,       \* TablesOf[v]: the tables of the database at version v
    Files,          \* the wiki's files
    FirstWiki,      \* the contents of the wiki's files at the start
    MaxWrites,      \* bound: transactions of the legacy runtime
    MaxEdits,       \* bound: edits of the wiki
    MaxCalls,       \* bound: calls of a stager
    None

Versions == 0..MaxWrites
Pages == 1..PageCount
Databases == [Pages -> Versions]

\* A wiki file's content; 0 is a file that is not there.
Contents == 0..2

ASSUME NumbersAssumption ==
    /\ PageCount \in Nat \ {0}
    /\ MaxWrites \in Nat /\ MaxEdits \in Nat /\ MaxCalls \in Nat
ASSUME WikiAssumption == FirstWiki \in [Files -> Contents]
ASSUME NoneAssumption == None \notin Stagers /\ None \notin {"stat", "listed"}

\* The calls of stage_legacy that look at something others write or that
\* write something.  "before", "opened" and "now" take a snapshot of the
\* database, "wiki" and "again" one of the wiki.
Script ==
    <<"before", "opened", "sidecars", "tables", "now", "sidecars", "inspected",
      "now", "unchanged", "wiki",
      "lock", "vacant", "make", "copy", "now", "sidecars", "copied", "export",
      "now", "sidecars", "again", "sources", "manifest",
      "now", "sidecars", "again", "sources", "vacant", "publish">>

DatabaseLooks == {"before", "opened", "now"}
WikiLooks == {"wiki", "again"}
Checks == {"sidecars", "inspected", "unchanged", "vacant", "copied", "sources"}
Writes == {"make", "copy", "export", "manifest", "publish"}

\* Where the lock is taken.
LockAt == 11

VARIABLES
    main,       \* main[k]: the version of page k in the database file
    stamp,      \* the file's modification time
    log,        \* the version in the write-ahead log, None without one
    wiki,       \* wiki[f]: content and modification time of a wiki file
    edits,      \* edits of the wiki so far
    lock,       \* the stager that holds legacy-migration.lock
    staging,    \* staging[p]: the staging directory of stager p
    bundles,    \* the published bundles, by the database they are named after
    task,       \* what a stager's call has read
    outcome,    \* how its last call ended
    calls,      \* calls of each stager so far
    moments     \* what the database and the wiki held, at every moment so far

vars == <<main, stamp, log, wiki, edits, lock, staging, bundles, task, outcome, calls,
          moments>>
sources == <<main, stamp, log, wiki, edits, moments>>

NoTask ==
    [at |-> 0, pages |-> <<>>, stat |-> 0, todo |-> {}, looked |-> None, seen |-> {},
     before |-> None, opened |-> None, now |-> None, wiki |-> None, again |-> None]

\* What the database holds for its clients.
Logical == IF log # None THEN [k \in Pages |-> log] ELSE main
Texts(w) == [f \in Files |-> w[f].content]
Now == <<Logical, Texts(wiki)>>

Step(p) == IF task[p].at \in DOMAIN Script THEN Script[task[p].at] ELSE "none"
InLock(p) == task[p].at > LockAt

TypeOK ==
    /\ main \in Databases /\ stamp \in Nat
    /\ log \in Versions \cup {None}
    /\ wiki \in [Files -> [content : Contents, time : 0..edits]] /\ edits \in Nat
    /\ lock \in Stagers \cup {None}
    /\ \A p \in Stagers :
         /\ task[p].at \in 0..Len(Script)
         /\ lock = p <=> InLock(p)
         /\ outcome[p] \in {"none", "running", "staged", "failed", "cleaning", "left"}
         /\ task[p].at > 0 <=> outcome[p] = "running"
    /\ \A b \in bundles : b.copy \in Databases /\ b.by \in Stagers
    /\ calls \in [Stagers -> 0..MaxCalls]

Init ==
    /\ main = [k \in Pages |-> 0] /\ stamp = 0 /\ log = None
    /\ wiki = [f \in Files |-> [content |-> FirstWiki[f], time |-> 0]] /\ edits = 0
    /\ lock = None
    /\ staging = [p \in Stagers |-> None]
    /\ bundles = {}
    /\ task = [p \in Stagers |-> NoTask]
    /\ outcome = [p \in Stagers |-> "none"]
    /\ calls = [p \in Stagers |-> 0]
    /\ moments = {Now}

-----------------------------------------------------------------------------
(* The owners of the sources                                               *)

Version == IF log # None THEN log ELSE main[1]

\* A transaction of the legacy runtime goes to the log.
Commit ==
    /\ Version < MaxWrites
    /\ log' = Version + 1
    /\ UNCHANGED <<main, stamp, wiki, edits, lock, staging, bundles, task, outcome, calls>>
    /\ moments' = moments \cup {Now'}

CheckpointPage(k) ==
    /\ log # None /\ main[k] # log
    /\ main' = [main EXCEPT ![k] = log]
    /\ stamp' = stamp + 1
    /\ UNCHANGED <<log, wiki, edits, lock, staging, bundles, task, outcome, calls, moments>>

\* The last connection closes and removes the log.
CloseDatabase ==
    /\ log # None /\ \A k \in Pages : main[k] = log
    /\ log' = None
    /\ UNCHANGED <<main, stamp, wiki, edits, lock, staging, bundles, task, outcome, calls, moments>>

\* A wiki file is made, changed or removed.
EditWiki(f) ==
    /\ \E c \in Contents \ {wiki[f].content} :
         wiki' = [wiki EXCEPT ![f] = [content |-> c, time |-> edits + 1]]
    /\ edits < MaxEdits
    /\ edits' = edits + 1
    /\ UNCHANGED <<main, stamp, log, lock, staging, bundles, task, outcome, calls>>
    /\ moments' = moments \cup {Now'}

-----------------------------------------------------------------------------
(* Going on and ending                                                     *)

Goes(p, t) == task' = [task EXCEPT ![p] = t]

\* On to the next call of the script.
Next1(t) == [t EXCEPT !.at = @ + 1, !.pages = <<>>, !.stat = 0, !.todo = {},
                      !.looked = None, !.seen = {}]

\* What was compared is not looked at again.
Compared(p, t) ==
    CASE Step(p) = "unchanged" -> [t EXCEPT !.opened = None, !.now = None]
      [] Step(p) \in {"copied", "sources"} -> [t EXCEPT !.now = None, !.again = None]
      [] OTHER -> t

Look == UNCHANGED <<sources, lock, staging, bundles, outcome, calls>>

BugStaysLocked(p) == IF lock = p /\ Step(p) # "vacant" THEN None ELSE lock
Unlocked(p) == IF lock = p THEN None ELSE lock

BugCleanAfterChecks(p) == staging[p] # None /\ Step(p) \in Checks
MustClean(p) == staging[p] # None

\* An error: the lock is left, then the staging directory removed.
Fail(p) ==
    /\ lock' = Unlocked(p)
    /\ Goes(p, NoTask)
    /\ outcome' = [outcome EXCEPT ![p] = IF MustClean(p) THEN "cleaning" ELSE "failed"]
    /\ UNCHANGED <<sources, staging, bundles, calls>>

Stage(p) ==
    /\ outcome[p] \in {"none", "staged", "failed"} /\ calls[p] < MaxCalls
    /\ calls' = [calls EXCEPT ![p] = @ + 1]
    /\ outcome' = [outcome EXCEPT ![p] = "running"]
    /\ Goes(p, Next1(NoTask))
    /\ UNCHANGED <<sources, lock, staging, bundles>>

-----------------------------------------------------------------------------
(* A look at the database                                                  *)

\* _snapshot: stat, then hash.
Stat(p) ==
    /\ Step(p) \in DatabaseLooks /\ task[p].pages = <<>> /\ task[p].looked = None
    /\ Goes(p, [task[p] EXCEPT !.looked = "stat", !.stat = stamp])
    /\ Look

ReadPage(p) ==
    LET t == task[p] pages == Append(t.pages, main[Len(t.pages) + 1]) IN
    /\ Step(p) \in DatabaseLooks /\ t.looked = "stat"
    /\ IF Len(pages) < PageCount
         THEN Goes(p, [t EXCEPT !.pages = pages])
         ELSE Goes(p, Next1([t EXCEPT ![Step(p)] = [time |-> t.stat, pages |-> pages]]))
    /\ Look

\* _read_tables through SQLite, with immutable=1: the log is not looked at, and
\* a file that a checkpoint is writing may look malformed.
ReadTables(p) ==
    /\ Step(p) = "tables"
    /\ \/ Goes(p, Next1(task[p])) /\ Look
       \/ log # None /\ Fail(p)

-----------------------------------------------------------------------------
(* A look at the wiki                                                      *)

ListWiki(p) ==
    /\ Step(p) \in WikiLooks /\ task[p].looked = None
    /\ Goes(p, [task[p] EXCEPT !.looked = "listed",
                               !.todo = {f \in Files : wiki[f].content # 0}])
    /\ Look

\* The next file in the order of the scan, whatever that is.
First(todo) == CHOOSE f \in todo : TRUE

WikiFile(p, looked) ==
    /\ Step(p) \in WikiLooks /\ task[p].todo # {} /\ task[p].looked = looked

StatFile(p) ==
    LET t == task[p] f == First(t.todo) IN
    /\ WikiFile(p, "listed")
    /\ IF wiki[f].content = 0 THEN Fail(p)
       ELSE Goes(p, [t EXCEPT !.looked = "stat", !.stat = wiki[f].time]) /\ Look

\* The second stat, after the hash, asks the same directory entry, which answers
\* with what it cached at the first: it looks at nothing, and the comparison of
\* the two finds no difference.
HashFile(p) ==
    LET t == task[p] f == First(t.todo) IN
    /\ WikiFile(p, "stat")
    /\ IF wiki[f].content = 0 THEN Fail(p)
       ELSE Goes(p, [t EXCEPT !.looked = "listed", !.todo = @ \ {f},
                              !.seen = @ \cup {[file |-> f, time |-> t.stat,
                                                content |-> wiki[f].content]}])
            /\ Look

WikiSeen(p) ==
    LET t == task[p] IN
    /\ Step(p) \in WikiLooks /\ t.looked = "listed" /\ t.todo = {}
    /\ Goes(p, Next1([t EXCEPT ![Step(p)] = t.seen]))
    /\ Look

-----------------------------------------------------------------------------
(* Comparing                                                               *)

\* _require_no_sidecars.
BugIgnoreSidecars == TRUE
NoSidecars == log = None

Vacant(t) == \A b \in bundles : b.name # t.before.pages

\* What the call at this place of the script compares.
Agrees(p, t) ==
    CASE Step(p) = "sidecars"  -> NoSidecars
      [] Step(p) = "inspected" -> t.now = t.opened
      [] Step(p) = "unchanged" -> t.now = t.before /\ t.opened.pages = t.before.pages
      [] Step(p) = "copied"    -> t.now = t.before /\ staging[p].copy = t.before.pages
      [] Step(p) = "sources"   -> t.now = t.before /\ t.again = t.wiki
      [] Step(p) = "vacant"    -> Vacant(t)

Check(p) ==
    /\ Step(p) \in Checks
    /\ IF Agrees(p, task[p]) THEN Goes(p, Next1(Compared(p, task[p]))) /\ Look ELSE Fail(p)

-----------------------------------------------------------------------------
(* Writing                                                                 *)

TakeLock(p) ==
    /\ Step(p) = "lock" /\ lock = None
    /\ lock' = p
    /\ Goes(p, Next1(task[p]))
    /\ UNCHANGED <<sources, staging, bundles, outcome, calls>>

\* Stager p's directory is now d.
Written(p, d, t) ==
    /\ staging' = [staging EXCEPT ![p] = d]
    /\ Goes(p, t)
    /\ UNCHANGED <<sources, lock, bundles, outcome, calls>>

MakeStaging(p) ==
    /\ Step(p) = "make"
    /\ Written(p, [copy |-> <<>>, tables |-> None, wiki |-> None], Next1(task[p]))

CopyPage(p) ==
    LET copy == Append(staging[p].copy, main[Len(staging[p].copy) + 1]) IN
    /\ Step(p) = "copy"
    /\ Written(p, [staging[p] EXCEPT !.copy = copy],
               IF Len(copy) < PageCount THEN task[p] ELSE Next1(task[p]))

\* The copy is inspected, and its tables written one by one.
ExportTables(p) ==
    /\ Step(p) = "export"
    /\ Written(p, [staging[p] EXCEPT !.tables = TablesOf[staging[p].copy[1]]], Next1(task[p]))

WriteManifest(p) ==
    /\ Step(p) = "manifest"
    /\ Written(p, [staging[p] EXCEPT !.wiki = task[p].wiki], Next1(task[p]))

\* The rename that publishes; the lock is left.
Publish(p) ==
    LET d == staging[p] IN
    /\ Step(p) = "publish"
    /\ bundles' = bundles \cup {[name |-> task[p].before.pages, by |-> p, copy |-> d.copy,
                                 tables |-> d.tables, wiki |-> d.wiki]}
    /\ staging' = [staging EXCEPT ![p] = None]
    /\ lock' = Unlocked(p)
    /\ outcome' = [outcome EXCEPT ![p] = "staged"]
    /\ Goes(p, NoTask)
    /\ UNCHANGED <<sources, calls>>

WriteFails(p) == Step(p) \in Writes /\ Fail(p)

\* _remove_owned_staging_tree, after the lock was left.
Clean(p) ==
    /\ outcome[p] = "cleaning"
    /\ staging' = [staging EXCEPT ![p] = None]
    /\ outcome' = [outcome EXCEPT ![p] = "failed"]
    /\ UNCHANGED <<sources, lock, bundles, task, calls>>

\* The removal fails, or the process dies, and the directory is left.
Die(p) ==
    /\ outcome[p] \in {"running", "cleaning"}
    /\ lock' = Unlocked(p)
    /\ outcome' = [outcome EXCEPT ![p] = "left"]
    /\ Goes(p, NoTask)
    /\ UNCHANGED <<sources, staging, bundles, calls>>

-----------------------------------------------------------------------------
Owner ==
    \/ Commit
    \/ \E k \in Pages : CheckpointPage(k)
    \/ CloseDatabase
    \/ \E f \in Files : EditWiki(f)

Run(p) ==
    \/ Stage(p) \/ Stat(p) \/ ReadPage(p) \/ ReadTables(p)
    \/ ListWiki(p) \/ StatFile(p) \/ HashFile(p) \/ WikiSeen(p)
    \/ Check(p) \/ TakeLock(p)
    \/ MakeStaging(p) \/ CopyPage(p) \/ ExportTables(p) \/ WriteManifest(p)
    \/ Publish(p) \/ WriteFails(p) \/ Clean(p) \/ Die(p)

Next == Owner \/ \E p \in Stagers : Run(p)

Spec == Init /\ [][Next]_vars

-----------------------------------------------------------------------------
(* Properties                                                              *)

\* At moment m the wiki held what was seen, or more.
Held(m, seen) == \A r \in seen : m[2][r.file] = r.content

\* At moment m the wiki held nothing that was not seen.
HeldOnly(m, seen) == \A f \in Files : m[2][f] # 0 => \E r \in seen : r.file = f

\* A bundle holds the database as a transaction left it, and at one and the same
\* moment the wiki's files were as they are named in it; and at one moment the
\* wiki was these files and no others.  This although the stager looks at each
\* page and file at a moment of its own, looks at a file once while it
\* hashes it, and locks none (stage_legacy, legacy.py:147-247).
BundlesHangTogether ==
    \A b \in bundles :
        /\ \E m \in moments : m[1] = b.copy /\ Held(m, b.wiki)
        /\ \E m \in moments : Held(m, b.wiki) /\ HeldOnly(m, b.wiki)

\* A bundle is named after what it holds, complete, and the only one of its
\* name; a call that fails, and is not killed while it does, leaves no staging
\* directory, and one that reports success has published (legacy.py:233-256).
StagingIsAllOrNothing ==
    /\ \A b \in bundles : b.copy = b.name /\ b.tables = TablesOf[b.copy[1]]
    /\ \A b, c \in bundles : b.name = c.name => b = c
    /\ \A p \in Stagers :
         /\ outcome[p] = "staged" => \E b \in bundles : b.by = p
         /\ outcome[p] \in {"none", "staged", "failed"} => staging[p] = None
=============================================================================
