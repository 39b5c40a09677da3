------------------------------- MODULE Recall -------------------------------
(***************************************************************************)
(* What leaves a Vault: recall with its generated index (mneme/core/       *)
(* service.py, mneme/core/search/index.py), and the views CURRENT and      *)
(* PROFILE with their cache (service.py, context.py, resolver.py,          *)
(* memories.py, storage.py).                                               *)
(*                                                                         *)
(* Recall holds no gate: it takes candidates from an index of any age,     *)
(* page by page, and reads, authorizes and compares each one while         *)
(* commands, editors and other clients go on.  A view is rendered inside   *)
(* the policy admission gate, which keeps out commands but not a hand that *)
(* edits or checks out files; its cache is two files.                      *)
(*                                                                         *)
(* One read of one artifact is one step, so is one verdict of the live     *)
(* authorizer, one search or publication under the index lock, and one     *)
(* replacement of a file.  A mounted Markdown file is an artifact of kind  *)
(* "file" with the id of its source.  The query matches every text.        *)
(***************************************************************************)
EXTENDS Projection, Sequences, FiniteSets

CONSTANTS
    Clients,        \* processes that ask
    Ops,            \* Ops[p] is what client p asks for
    Artifacts,      \* the files of the Vault, and mounted files
    Contents,       \* what a file can hold
    FirstTree,      \* the files at the start
    Edits,          \* changes of one file: [file, content, by]
    Scan,           \* the indexed artifacts, in the order of _vault_rows
    Rankings,       \* ranks that a query can give them
    Limits,         \* limits of a recall
    Views,          \* the views asked for: [name, class, workstream, mode]
    MaxCalls,       \* bound: calls of each client
    MaxEdits        \* bound: edits of a file and losses of the index

Trees == [Artifacts -> Contents]

Entries(s) == {s[i] : i \in DOMAIN s}

Registries == {"project", "source", "workstream"}

ASSUME TreeAssumption == Absent \in Contents /\ FirstTree \in Trees
ASSUME EditAssumption ==
    Edits \subseteq [file : Artifacts, content : Contents, by : {"command", "hand"}]
ASSUME ArtifactAssumption ==
    /\ \A a \in Artifacts : a = File(a.class, a.kind, a.id)
    /\ \A c \in Contents \ {Absent, Torn} : \A h \in c.heads : h.kind = "session"
ASSUME ScanAssumption ==
    /\ Scan \in Seq(Artifacts)
    /\ \A a \in Entries(Scan) : a.kind \in Registries \cup {"session", "memory", "file"}
    /\ \A i, j \in DOMAIN Scan : Scan[i] = Scan[j] => i = j
    /\ Rankings \subseteq [Entries(Scan) -> Nat]
ASSUME OpAssumption == Ops \in [Clients -> SUBSET {"recall", "reindex", "view"}]
ASSUME LimitAssumption == Limits \subseteq Nat \ {0}
ASSUME NumbersAssumption == MaxCalls \in Nat /\ MaxEdits \in Nat

Names == {"CURRENT", "PROFILE"}

ASSUME ViewAssumption == \A v \in Views : v.name \in Names

VARIABLES
    tree,       \* the files
    index,      \* the generated index: its state and its rows, best match first
    cache,      \* cache[n]: the files of a view, its text and its authorization
    owners,     \* clients inside the policy admission gate
    pc,         \* a client's place in its call
    task,       \* what its call has read
    answer,     \* what its last call returned
    calls,      \* calls of each client so far
    edits,      \* edits and losses of the index so far
    moments,    \* the trees there were during a client's call
    disturbed,  \* clients during or since whose call others changed something
    touched,    \* clients since whose entry into the gate a hand edited files
    tainted     \* views last written by such a client

vars == <<tree, index, cache, owners, pc, task, answer, calls, edits,
          moments, disturbed, touched, tainted>>
history == <<moments, disturbed, touched, tainted>>

Gate == INSTANCE AdmissionLock
            WITH Threads <- Clients, Procs <- Clients, ProcOf <- [p \in Clients |-> p],
                 sharers <- {}

Texts == {c.text : c \in Contents \ {Absent, Torn}}
Rows == [file : Artifacts, text : Texts]

\* The text of a view.
Shown == [valid : BOOLEAN, overlay : BOOLEAN, rows : SUBSET Rows]

Places == {"idle", "searching", "loading", "deciding", "confirming",
           "scanning", "publishing",
           "gate", "verdict", "rendering", "binding", "comparing", "text",
           "authorization"}

\* In the gate, and through with it.
Gated == {"verdict", "rendering", "binding", "comparing", "text", "authorization"}

Statuses == {"none", "resolved", "degraded", "invalid", "view"}

NoTask ==
    [op |-> "none", limit |-> 0,
     want |-> 0, processed |-> 0,           \* candidate_limit and processed
     candidates |-> <<>>, hits |-> <<>>,
     record |-> Absent, successors |-> {},  \* what was read of a candidate
     degraded |-> FALSE, rebuilt |-> FALSE,
     at |-> 1, rows |-> {}, scanned |-> "resolved",      \* the rebuild
     view |-> Absent, decision |-> NoDecision, shown |-> Absent]

NoAnswer == [status |-> "none", hits |-> <<>>, shown |-> Absent,
             limit |-> 0, rebuilt |-> FALSE]

EmptyView == [text |-> Absent, authorization |-> Absent]

\* The rows, best match first.
Ranked(rank, rows) ==
    {s \in [1..Cardinality(rows) -> rows] :
        /\ Entries(s) = rows
        /\ \A i, j \in DOMAIN s : i < j => rank[s[i].file] < rank[s[j].file]}

First(s, n) == SubSeq(s, 1, IF n < Len(s) THEN n ELSE Len(s))

TypeOK ==
    /\ tree \in Trees
    /\ index.state \in {"missing", "invalid", "degraded", "resolved"}
    /\ index.rows \in Seq(Rows)
    /\ index.state \in {"missing", "invalid"} => index.rows = <<>>
    /\ \A n \in Names : cache[n].text \in Shown \cup {Absent}
    /\ owners \subseteq Clients
    /\ pc \in [Clients -> Places]
    /\ \A p \in Clients :
         /\ pc[p] \in Gated <=> p \in owners
         /\ task[p].candidates \in Seq(Rows) /\ task[p].hits \in Seq(Rows)
         /\ task[p].rows \subseteq Rows
         /\ task[p].record \in Contents
         /\ task[p].shown \in Shown \cup {Absent}
         /\ pc[p] \in {"loading", "deciding", "confirming"} =>
               task[p].processed < Len(task[p].candidates)
         /\ answer[p].status \in Statuses /\ answer[p].hits \in Seq(Rows)
         /\ answer[p].shown \in Shown \cup {Absent}
    /\ calls \in [Clients -> Nat] /\ edits \in Nat
    /\ moments \in [Clients -> SUBSET Trees]
    /\ disturbed \subseteq Clients /\ touched \subseteq Clients
    /\ tainted \subseteq Names

Init ==
    /\ tree = FirstTree
    /\ index = [state |-> "missing", rows |-> <<>>]
    /\ cache = [n \in Names |-> EmptyView]
    /\ owners = {}
    /\ pc = [p \in Clients |-> "idle"]
    /\ task = [p \in Clients |-> NoTask]
    /\ answer = [p \in Clients |-> NoAnswer]
    /\ calls = [p \in Clients |-> 0]
    /\ edits = 0
    /\ moments = [p \in Clients |-> {}]
    /\ disturbed = {} /\ touched = {} /\ tainted = {}

-----------------------------------------------------------------------------
(* Helpers                                                                 *)

Proceed(p, place, t) ==
    /\ pc' = [pc EXCEPT ![p] = place]
    /\ task' = [task EXCEPT ![p] = t]
    /\ UNCHANGED answer

Return(p, a) ==
    /\ pc' = [pc EXCEPT ![p] = "idle"]
    /\ task' = [task EXCEPT ![p] = NoTask]
    /\ answer' = [answer EXCEPT ![p] = a]

\* A step of a client that changes nothing others see.
Look == UNCHANGED <<tree, index, cache, owners, calls, edits, history>>

\* A step that others' calls notice.
Disturb(p) == disturbed' = disturbed \cup (Clients \ {p})

Call(p, t, place) ==
    /\ pc[p] = "idle" /\ calls[p] < MaxCalls /\ t.op \in Ops[p]
    /\ pc' = [pc EXCEPT ![p] = place]
    /\ task' = [task EXCEPT ![p] = t]
    /\ answer' = [answer EXCEPT ![p] = NoAnswer]
    /\ calls' = [calls EXCEPT ![p] = @ + 1]
    /\ moments' = [moments EXCEPT ![p] = {tree}]
    /\ disturbed' = disturbed \ {p}
    /\ UNCHANGED <<tree, index, cache, owners, edits, touched, tainted>>

-----------------------------------------------------------------------------
(* The rebuild of the index                                                *)

Mounted(id) == File("mount", "file", id)

\* _bound_sources has diagnostics: a registered source is not to be had.
SourceMissing ==
    \E a \in Artifacts : /\ a.class = "portable" /\ a.kind = "source"
                         /\ tree[a] # Absent
                         /\ ~Loads(tree, a) \/ ~Loads(tree, Mounted(a.id))

Rescan(t) == [t EXCEPT !.at = 1, !.rows = {}, !.scanned = "resolved"]

\* The command reindex.
Reindex(p) == Call(p, [NoTask EXCEPT !.op = "reindex"], "scanning")

\* The artifact can be read; of the memories all, or none.
Readable(t, a) ==
    /\ Loads(t, a) /\ Loads(t, Governing(a))
    /\ a.kind = "memory" => MemoriesLoad(t, a.class)

\* One artifact is read: a canonical one that does not load makes the index
\* invalid, a mounted one that cannot be read only degrades it.
ScanNext(p) ==
    LET t == task[p] a == Scan[t.at] next == [t EXCEPT !.at = @ + 1] IN
    /\ pc[p] = "scanning" /\ t.at <= Len(Scan)
    /\ \/ /\ Readable(tree, a)
          /\ Proceed(p, "scanning", [next EXCEPT !.rows = @ \cup {Row(tree, a)}])
       \/ /\ a.kind = "file"
          /\ ~Readable(tree, a)
          /\ Proceed(p, "scanning", [next EXCEPT !.scanned = "degraded"])
       \/ /\ a.kind # "file" /\ tree[a] = Absent
          /\ Proceed(p, "scanning", next)
       \/ /\ a.kind # "file" /\ tree[a] # Absent
          /\ ~Readable(tree, a)
          /\ Proceed(p, "publishing", [t EXCEPT !.rows = {}, !.scanned = "invalid"])
    /\ Look

ScanEnds(p) ==
    /\ pc[p] = "scanning" /\ task[p].at = Len(Scan) + 1
    /\ Proceed(p, "publishing", task[p])
    /\ Look

\* After a rebuild recall begins again, with the hits it has.
AfterRebuild(p) ==
    LET t == task[p] IN
    IF t.op = "recall" /\ t.scanned # "invalid"
      THEN Proceed(p, "searching",
                   [t EXCEPT !.rebuilt = TRUE, !.processed = 0, !.want = t.limit])
      ELSE Return(p, [NoAnswer EXCEPT !.status = t.scanned, !.limit = t.limit,
                                      !.rebuilt = TRUE])

\* _publish, under the index lock.
Publish(p) ==
    /\ pc[p] = "publishing"
    /\ \E rank \in Rankings : \E rows \in Ranked(rank, task[p].rows) :
         index' = [state |-> task[p].scanned, rows |-> rows]
    /\ AfterRebuild(p)
    /\ Disturb(p)
    /\ UNCHANGED <<tree, cache, owners, calls, edits, moments, touched, tainted>>

\* A full disk.  Recall answers without hits, reindex fails.
PublishFails(p) ==
    /\ pc[p] = "publishing"
    /\ Return(p, [NoAnswer EXCEPT !.status = "degraded", !.limit = task[p].limit])
    /\ UNCHANGED <<tree, index, cache, owners, calls, edits, history>>

-----------------------------------------------------------------------------
(* Recall                                                                  *)

Ask(p) ==
    \E n \in Limits :
        Call(p, [NoTask EXCEPT !.op = "recall", !.limit = n, !.want = n,
                               !.degraded = SourceMissing],
             "searching")

Finish(p, t) ==
    Return(p, [NoAnswer EXCEPT !.status = IF t.degraded THEN "degraded" ELSE "resolved",
                               !.hits = t.hits, !.limit = t.limit,
                               !.rebuilt = t.rebuilt])

BugKeepLimit(p, t) == Proceed(p, "searching", [t EXCEPT !.processed = Len(t.candidates)])

BugOnePage(p, t) == Finish(p, t)

\* A page that was full is not the last one.
NextPage(p, t) ==
    Proceed(p, "searching", [t EXCEPT !.processed = Len(t.candidates), !.want = 2 * @])

\* The next candidate of the page, the next page, or the end.
GoOn(p, t) ==
    IF Len(t.hits) = t.limit
      THEN Finish(p, t)
      ELSE IF t.processed < Len(t.candidates)
        THEN Proceed(p, "loading", t)
        ELSE IF Len(t.candidates) < t.want THEN Finish(p, t) ELSE NextPage(p, t)

\* search_snapshot: state and candidates of one moment of the index.
Search(p) ==
    LET t == task[p] IN
    /\ pc[p] = "searching"
    /\ CASE index.state = "missing" /\ t.rebuilt ->
               Return(p, [NoAnswer EXCEPT !.status = "degraded", !.limit = t.limit])
         [] index.state = "missing" /\ ~t.rebuilt ->
               Proceed(p, "scanning", Rescan(t))
         [] index.state = "invalid" ->
               Return(p, [NoAnswer EXCEPT !.status = "invalid", !.limit = t.limit])
         [] OTHER ->
               GoOn(p, [t EXCEPT !.candidates = First(index.rows, t.want),
                                 !.degraded = @ \/ index.state = "degraded"])
    /\ Look

Candidate(p) == task[p].candidates[task[p].processed + 1]

\* The candidate becomes a hit, or is withheld.
Hit(p) ==
    GoOn(p, [task[p] EXCEPT !.hits = Append(@, Candidate(p)), !.processed = @ + 1,
                            !.record = Absent, !.successors = {}])
Withhold(p) ==
    GoOn(p, [task[p] EXCEPT !.degraded = TRUE, !.processed = @ + 1,
                            !.record = Absent, !.successors = {}])

\* The canonical artifact; for a mounted file, the registry of its source.
LoadCandidate(p) ==
    LET a == Governing(Candidate(p).file) IN
    /\ pc[p] = "loading"
    /\ IF Loads(tree, a) /\ (a.kind = "memory" => MemoriesLoad(tree, a.class))
         THEN Proceed(p, "deciding", [task[p] EXCEPT !.record = tree[a],
                                                     !.successors = Successors(tree, a)])
         ELSE Withhold(p)
    /\ Look

BugTrustIndex(p) ==
    /\ pc[p] = "deciding"
    /\ Proceed(p, "confirming", task[p])
    /\ Look

DecideCandidate(p) ==
    /\ pc[p] = "deciding"
    /\ IF Authorized(tree, Governing(Candidate(p).file))
         THEN Proceed(p, "confirming", task[p])
         ELSE Withhold(p)
    /\ Look

\* What is read after the verdict: the successor of a memory, the rules of a
\* registry, a mounted file and the rule of its source; and the comparison of the
\* row with what was read.
Confirmed(p) ==
    LET r == Candidate(p) t == task[p] IN
    /\ IF r.file.kind = "file" THEN Loads(tree, r.file) /\ tree[r.file].text = r.text
                               ELSE t.record.text = r.text
    /\ r.file.kind = "memory" =>
           /\ t.record.status = "accepted"
           /\ \A s \in t.successors :
                Loads(tree, s) /\ MemoriesLoad(tree, s.class) /\ ~Marked(tree[s])
    /\ r.file.kind \in Registries \cup {"file"} =>
           \A q \in t.record.policies : Loads(tree, RuleFile(q))

ConfirmCandidate(p) ==
    /\ pc[p] = "confirming"
    /\ IF Confirmed(p) THEN Hit(p) ELSE Withhold(p)
    /\ Look

-----------------------------------------------------------------------------
(* Views                                                                   *)

AskView(p) ==
    \E v \in Views : Call(p, [NoTask EXCEPT !.op = "view", !.view = v], "gate")

TakeGate(p) ==
    /\ pc[p] = "gate"
    /\ Gate!AcquireExclusive(p)
    /\ Proceed(p, "verdict", task[p])
    /\ touched' = touched \ {p}
    /\ UNCHANGED <<tree, index, cache, calls, edits, moments, disturbed, tainted>>

DecideView(p) ==
    /\ pc[p] = "verdict"
    /\ Proceed(p, "rendering", [task[p] EXCEPT !.decision = Decide(tree, task[p].view)])
    /\ Look

RenderView(p) ==
    /\ pc[p] = "rendering"
    /\ Proceed(p, "binding", [task[p] EXCEPT !.shown = Render(tree, task[p].view)])
    /\ Look

BindView(p) ==
    /\ pc[p] = "binding"
    /\ Proceed(p, "comparing",
               [task[p] EXCEPT !.decision = Bind(tree, task[p].view, @, task[p].shown)])
    /\ Look

\* What a reader of the cache gets for a verdict; a miss is Absent (ViewStore.load).
BugLoadUnhashed(n, decision) ==
    IF decision.allowed /\ cache[n].authorization # Absent
                        /\ cache[n].authorization.decision = decision
      THEN cache[n].text
      ELSE Absent

Cached(n, decision) ==
    IF decision.allowed /\ cache[n].authorization =
                           [decision |-> decision, text |-> cache[n].text]
      THEN cache[n].text
      ELSE Absent

BugKeepGate(p) ==
    /\ Return(p, [NoAnswer EXCEPT !.status = "view", !.shown = task[p].shown])
    /\ UNCHANGED owners

\* The view that was rendered is returned, whatever becomes of its cache.
ReturnView(p) ==
    /\ Gate!ReleaseExclusive(p)
    /\ Return(p, [NoAnswer EXCEPT !.status = "view", !.shown = task[p].shown])

CompareCache(p) ==
    /\ pc[p] = "comparing"
    /\ IF /\ task[p].decision.allowed
          /\ Cached(task[p].view.name, task[p].decision) # task[p].shown
         THEN Proceed(p, "text", task[p]) /\ UNCHANGED owners
         ELSE ReturnView(p)
    /\ UNCHANGED <<tree, index, cache, calls, edits, history>>

\* The text is replaced, then the authorization.
WriteText(p) ==
    /\ pc[p] = "text"
    /\ cache' = [cache EXCEPT ![task[p].view.name].text = task[p].shown]
    /\ Proceed(p, "authorization", task[p])
    /\ UNCHANGED <<tree, index, owners, calls, edits, history>>

WriteAuthorization(p) ==
    LET n == task[p].view.name IN
    /\ pc[p] = "authorization"
    /\ cache' = [cache EXCEPT ![n].authorization =
                     [decision |-> task[p].decision, text |-> task[p].shown]]
    /\ tainted' = IF p \in touched THEN tainted \cup {n} ELSE tainted \ {n}
    /\ ReturnView(p)
    /\ UNCHANGED <<tree, index, calls, edits, moments, disturbed, touched>>

CacheWriteFails(p) ==
    /\ pc[p] \in {"text", "authorization"} 
    /\ ReturnView(p)
    /\ UNCHANGED <<tree, index, cache, calls, edits, history>>

-----------------------------------------------------------------------------
(* Commands, hands, and what befalls the index and the clients             *)

Edited ==
    /\ edits < MaxEdits
    /\ edits' = edits + 1
    /\ disturbed' = Clients
    /\ UNCHANGED <<pc, task, answer, calls, owners, cache, tainted>>

\* A command changes files inside the gate, a hand does not ask for it.
EditFile ==
    /\ \E e \in Edits :
         /\ tree[e.file] # e.content
         /\ e.by = "command" => Gate!Unlocked
         /\ tree' = [tree EXCEPT ![e.file] = e.content]
         /\ touched' = IF e.by = "hand" THEN Clients ELSE touched
    /\ moments' = [p \in Clients |-> IF pc[p] = "idle" THEN moments[p]
                                                      ELSE moments[p] \cup {tree'}]
    /\ Edited
    /\ UNCHANGED index

\* The generated database is deleted or damaged.
LoseIndex ==
    /\ index.state # "missing"
    /\ index' = [state |-> "missing", rows |-> <<>>]
    /\ Edited
    /\ UNCHANGED <<tree, moments, touched>>

\* A client dies; the operating system drops its locks.
Die(p) ==
    /\ pc[p] # "idle"
    /\ Return(p, NoAnswer)
    /\ Gate!Abandon(p)
    /\ UNCHANGED <<tree, index, cache, calls, edits, history>>

\* Every client is done and nothing more befalls anything.
Finished ==
    /\ \A p \in Clients : pc[p] = "idle" /\ calls[p] = MaxCalls
    /\ UNCHANGED vars

\* A step of a call that is under way.
CallStep(p) ==
    \/ ScanNext(p) \/ ScanEnds(p) \/ Publish(p)
    \/ Search(p)
    \/ LoadCandidate(p) \/ DecideCandidate(p) \/ ConfirmCandidate(p)
    \/ TakeGate(p) \/ DecideView(p) \/ RenderView(p) \/ BindView(p)
    \/ CompareCache(p) \/ WriteText(p) \/ WriteAuthorization(p)

Next ==
    \/ \E p \in Clients :
         \/ CallStep(p)
         \/ Ask(p) \/ Reindex(p) \/ AskView(p)
         \/ PublishFails(p) \/ CacheWriteFails(p) \/ Die(p)
    \/ EditFile
    \/ LoseIndex
    \/ Finished

Spec == Init /\ [][Next]_vars

-----------------------------------------------------------------------------
(* Safety                                                                  *)

\* Nothing is shown on the word of the index or of a cache.  Whatever a call
\* returned, however old the index and whatever happened meanwhile: there was a
\* moment of the call when the artifact said so, and a moment when the policy
\* allowed it.  A memory was accepted when it said so, and each one that then
\* named it as predecessor was not accepted at a moment of the call.
ShownRows(p) ==
    Entries(answer[p].hits) \cup
    IF answer[p].shown = Absent THEN {} ELSE answer[p].shown.rows

SaidSo(when, r) ==
    \E t \in when :
        /\ Loads(t, r.file) /\ Row(t, r.file) = r
        /\ r.file.kind = "memory" =>
              /\ t[r.file].status = "accepted"
              /\ \A s \in Successors(t, r.file) :
                    \E u \in when : Loads(u, s) /\ ~Marked(u[s])

Allowed(when, r) == \E t \in when : Authorized(t, Governing(r.file))

NothingStaleIsShown ==
    \A p \in Clients : \A r \in ShownRows(p) :
        SaidSo(moments[p], r) /\ Allowed(moments[p], r)

\* A call in which nobody interfered misses nothing.  Recall returns rows of the
\* index in its order, each once: all that may be shown, or as many as were asked
\* for.  After a rebuild that is every row of the Vault.  An answer that is
\* called resolved has withheld nothing.
UndisturbedRecall(p) ==
    LET hits == answer[p].hits
        may == {r \in Entries(index.rows) : Exposable(tree, r)}
        all == {Row(tree, a) : a \in {b \in Entries(Scan) : Loads(tree, b)}}
    IN  /\ \A i, j \in DOMAIN hits : hits[i] = hits[j] => i = j
        /\ Entries(hits) \subseteq may
        /\ Len(hits) < answer[p].limit => Entries(hits) = may
        /\ answer[p].rebuilt =>
              {r \in all : Exposable(tree, r)} \subseteq Entries(index.rows)
        /\ answer[p].status = "resolved" => hits = First(index.rows, answer[p].limit)

UndisturbedCalls ==
    \A p \in Clients \ disturbed :
        /\ /\ answer[p].status \in {"resolved", "degraded"} /\ answer[p].limit > 0
           /\ index.state \in {"resolved", "degraded"}
           => UndisturbedRecall(p)
        /\ answer[p].status = "invalid" /\ answer[p].rebuilt =>
              \E a \in Entries(Scan) :
                  a.kind # "file" /\ tree[a] # Absent /\ ~Readable(tree, a)

\* A cached view is worth what it says.  At any moment, even between its two
\* writes or after a death between them, what a reader gets for the verdict of
\* now is what would be rendered now; unless a hand edited files while the last
\* writer was in the gate.
CachedViewsAreCurrent ==
    \A v \in Views : cache[v.name].authorization # Absent =>
        LET shown == Render(tree, v)
            got == Cached(v.name, Bind(tree, v, Decide(tree, v), shown))
        IN  v.name \in tainted \/ got \in {Absent, shown}

\* What a call has before it, at most.  Recall looks at longer and longer pages,
\* none longer than the index is, and begins again after a rebuild.
Page == 3 * Len(Scan) + 4
AllPages == (2 * Len(Scan) + 2) * Page
Pages(t) == (2 * Len(Scan) + t.limit - t.want) * Page
Candidates(t) == 3 * (Len(t.candidates) - t.processed)
Rebuild(t) == IF t.rebuilt THEN 0 ELSE AllPages + Len(Scan) + 3

Measure(place, t) ==
    CASE place = "scanning" -> AllPages + Len(Scan) + 3 - t.at
      [] place = "publishing" -> AllPages + 1
      [] place = "searching" -> Rebuild(t) + Pages(t) + Page - 1
      [] place = "loading" -> Rebuild(t) + Pages(t) + Candidates(t)
      [] place = "deciding" -> Rebuild(t) + Pages(t) + Candidates(t) - 1
      [] place = "confirming" -> Rebuild(t) + Pages(t) + Candidates(t) - 2
      [] place = "gate" -> 7
      [] place = "verdict" -> 6
      [] place = "rendering" -> 5
      [] place = "binding" -> 4
      [] place = "comparing" -> 3
      [] place = "text" -> 2
      [] place = "authorization" -> 1
      [] OTHER -> 0

\* No call goes on for ever, whatever others do to the index and the files
\* between its steps: recall rebuilds at most once and never looks at the same
\* page twice.  Every step of a call leaves less to do.
EveryStepComesCloser ==
    [][\A p \in Clients :
         pc[p] # "idle" /\ <<pc[p], task[p]>>' # <<pc[p], task[p]>> =>
             /\ 0 <= Measure(pc[p], task[p])'
             /\ Measure(pc[p], task[p])' < Measure(pc[p], task[p])]_vars
=============================================================================
