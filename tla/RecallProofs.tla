---------------------------- MODULE RecallProofs ----------------------------
(***************************************************************************)
(* Proofs about Recall, for any clients, files, edits and bounds.          *)
(*                                                                         *)
(* Every step of a call is shown once to lead to a place with a task       *)
(* (StepsTo) that the types allow and that is closer to the end (Closer).  *)
(* The three invariants rest on that: AllFresh says what a call and its    *)
(* answer rest on among the moments of the call, CacheInv what a client in *)
(* the gate and a stored authorization were made from, UndisturbedInv what *)
(* a call knows while the files and the index are those it began with.     *)
(***************************************************************************)
EXTENDS Recall, TLAPS, FiniteSetTheorems, SequenceTheorems

-----------------------------------------------------------------------------
(* Sequences                                                               *)

LEMMA EntriesBelong ==
    ASSUME NEW S, NEW s \in Seq(S)
    PROVE  /\ Entries(s) \subseteq S
           /\ Entries(s) = {s[i] : i \in 1 .. Len(s)}
<1>1. DOMAIN s = 1 .. Len(s) /\ \A i \in 1 .. Len(s) : s[i] \in S
    BY LenProperties
<1> QED
    BY <1>1 DEF Entries

LEMMA NoEntries == Entries(<<>>) = {} /\ Len(<<>>) = 0
    BY DEF Entries

\* The first n of a sequence.
LEMMA FirstOf ==
    ASSUME NEW S, NEW s \in Seq(S), NEW n \in Nat
    PROVE  /\ First(s, n) \in Seq(S)
           /\ Len(First(s, n)) = IF n < Len(s) THEN n ELSE Len(s)
           /\ \A i \in 1 .. Len(First(s, n)) : First(s, n)[i] = s[i]
           /\ Entries(First(s, n)) \subseteq Entries(s)
<1> DEFINE m == IF n < Len(s) THEN n ELSE Len(s)
<1>1. Len(s) \in Nat /\ \A i \in 1 .. Len(s) : s[i] \in S
    BY LenProperties
<1>2. m \in Int /\ 0 <= m /\ m <= Len(s)
    BY <1>1
<1> HIDE DEF m
<1>3. \A i \in 1 .. m : s[i] \in S
    BY <1>1, <1>2
<1>4. /\ SubSeq(s, 1, m) \in Seq(S)
      /\ Len(SubSeq(s, 1, m)) = IF 1 <= m THEN m - 1 + 1 ELSE 0
      /\ \A i \in 1 .. m - 1 + 1 : SubSeq(s, 1, m)[i] = s[1 + i - 1]
    BY <1>2, <1>3, SubSeqProperties
<1>5. Len(SubSeq(s, 1, m)) = m /\ m - 1 + 1 = m
    BY <1>2, <1>4
<1>6. \A i \in 1 .. m : SubSeq(s, 1, m)[i] = s[i]
    BY <1>4, <1>5, <1>2
<1>7. Entries(SubSeq(s, 1, m)) \subseteq Entries(s)
    <2>1. Entries(SubSeq(s, 1, m)) = {SubSeq(s, 1, m)[i] : i \in 1 .. m}
        BY <1>4, <1>5, EntriesBelong
    <2>2. Entries(s) = {s[i] : i \in 1 .. Len(s)}
        BY EntriesBelong
    <2> QED
        BY <2>1, <2>2, <1>1, <1>2, <1>6
<1>8. First(s, n) = SubSeq(s, 1, m)
    BY DEF First, m
<1> QED
    BY <1>4, <1>5, <1>6, <1>7, <1>8 DEF m

\* One entry more.
LEMMA OneMore ==
    ASSUME NEW S, NEW s \in Seq(S), NEW r \in S
    PROVE  /\ Append(s, r) \in Seq(S)
           /\ Len(Append(s, r)) = Len(s) + 1
           /\ \A i \in 1 .. Len(s) : Append(s, r)[i] = s[i]
           /\ Append(s, r)[Len(s) + 1] = r
           /\ Entries(Append(s, r)) = Entries(s) \cup {r}
<1>1. /\ Append(s, r) \in Seq(S) /\ Len(Append(s, r)) = Len(s) + 1
      /\ \A i \in 1 .. Len(s) : Append(s, r)[i] = s[i]
      /\ Append(s, r)[Len(s) + 1] = r
      /\ Len(s) \in Nat
    BY AppendProperties, LenProperties
<1>2. Entries(Append(s, r)) = {Append(s, r)[i] : i \in 1 .. Len(s) + 1}
    BY <1>1, EntriesBelong
<1>3. 1 .. Len(s) + 1 = (1 .. Len(s)) \cup {Len(s) + 1}
    BY <1>1
<1>4. Entries(s) = {s[i] : i \in 1 .. Len(s)}
    BY EntriesBelong
<1> QED
    BY <1>1, <1>2, <1>3, <1>4

-----------------------------------------------------------------------------
(* What may be shown of a tree                                             *)

LEMMA ReadsContent ==
    ASSUME NEW t \in Trees, NEW a, Loads(t, a)
    PROVE  /\ a \in Artifacts /\ At(t, a) = t[a]
           /\ t[a] \in Contents \ {Absent, Torn}
           /\ Row(t, a) \in Rows
    BY TreeAssumption DEF Trees, Loads, At, Row, Rows, Texts

LEMMA MemoriesAreRead ==
    ASSUME NEW t \in Trees, NEW class, MemoriesLoad(t, class), NEW m \in Memories(t, class)
    PROVE  /\ Loads(t, m) /\ m \in Artifacts /\ m.kind = "memory" /\ m.class = class
           /\ Governing(m) = m
    BY DEF Trees, Memories, MemoriesLoad, Governing

\* A row of a readable artifact of the tree, an accepted memory that nothing
\* supersedes if it is one, says what it should.
LEMMA RowsSay ==
    ASSUME NEW t \in Trees, NEW a, Loads(t, a), a.kind = "memory" => Current(t, a)
    PROVE  Says(t, Row(t, a)) /\ Row(t, a).file = a
    BY DEF Says, Row

\* Which heads a registry that loads can name.
LEMMA HeadsAreSessions ==
    ASSUME NEW t \in Trees, NEW w, Loads(t, w), NEW h \in t[w].heads, Authorized(t, h)
    PROVE  /\ Row(t, h) \in Rows /\ Says(t, Row(t, h))
           /\ Authorized(t, Governing(Row(t, h).file))
<1>1. h.kind = "session"
    BY ReadsContent, ArtifactAssumption
<1>2. Loads(t, h) /\ Governing(h) = h
    BY <1>1 DEF Authorized, Governing
<1> QED
    BY <1>1, <1>2, ReadsContent, RowsSay

LEMMA MemoriesShown ==
    ASSUME NEW t \in Trees, NEW class, MemoriesLoad(t, class), NEW m \in Memories(t, class),
           Current(t, m), Authorized(t, m)
    PROVE  /\ Row(t, m) \in Rows /\ Says(t, Row(t, m))
           /\ Authorized(t, Governing(Row(t, m).file))
<1>1. Loads(t, m) /\ m.kind = "memory" /\ Governing(m) = m
    BY MemoriesAreRead
<1> QED
    BY <1>1, ReadsContent, RowsSay

\* A row that may be shown.
Showable(t, r) == r \in Rows /\ Exposable(t, r)

LEMMA LayerShowable ==
    ASSUME NEW t \in Trees, NEW w, Resolved(t, w), NEW r \in Layer(t, w)
    PROVE  Showable(t, r)
<1>1. CASE \E h \in t[w].heads : r = Row(t, h)
    BY <1>1, HeadsAreSessions DEF Resolved, Showable, Exposable
<1>2. CASE MemoriesLoad(t, w.class) /\ \E m \in ContextMemories(t, w) : r = Row(t, m)
    BY <1>2, MemoriesShown DEF ContextMemories, Showable, Exposable
<1> QED
    BY <1>1, <1>2 DEF Layer

\* A view shows what may be shown.
LEMMA ViewShowable ==
    ASSUME NEW t \in Trees, NEW v \in Views
    PROVE  Render(t, v) \in Shown /\ \A r \in Render(t, v).rows : Showable(t, r)
<1> DEFINE w == File("portable", "workstream", v.workstream)
           os == Overlays(t, v)
           overlay == OverlayResolved(t, v)
<1>1. CASE v.name = "CURRENT" /\ Resolved(t, w)
    <2> DEFINE rows == Layer(t, w) \cup IF overlay THEN UNION {Layer(t, o) : o \in os} ELSE {}
    <2>1. \A r \in rows : Showable(t, r)
        BY <1>1, LayerShowable DEF OverlayResolved
    <2>2. Render(t, v) = [valid |-> TRUE, overlay |-> overlay, rows |-> rows]
        BY <1>1 DEF Render, RenderCurrent
    <2> HIDE DEF rows
    <2> QED
        BY <2>1, <2>2 DEF Shown, Showable, OverlayResolved
<1>2. CASE v.name = "CURRENT" /\ ~Resolved(t, w)
    <2> DEFINE rows == IF overlay THEN {Row(t, h) : h \in UNION {t[o].heads : o \in os}} ELSE {}
    <2>1. \A r \in rows : Showable(t, r)
        <3> SUFFICES ASSUME overlay, NEW o \in os, NEW h \in t[o].heads
                     PROVE  Showable(t, Row(t, h))
            OBVIOUS
        <3>1. Resolved(t, o)
            BY DEF OverlayResolved
        <3> QED
            BY <3>1, HeadsAreSessions DEF Resolved, Showable, Exposable
    <2>2. Render(t, v) = [valid |-> FALSE, overlay |-> overlay, rows |-> rows]
        BY <1>2 DEF Render, RenderCurrent
    <2> HIDE DEF rows
    <2> QED
        BY <2>1, <2>2 DEF Shown, Showable, OverlayResolved
<1>3. CASE v.name # "CURRENT"
    <2> DEFINE rows == IF MemoriesLoad(t, v.class)
                         THEN {Row(t, m) : m \in {n \in ProfileMemories(t, v.class) :
                                                     Authorized(t, n)}}
                         ELSE {}
    <2>1. \A r \in rows : Showable(t, r)
        BY MemoriesShown DEF ProfileMemories, Showable, Exposable
    <2>2. Render(t, v) = [valid |-> MemoriesLoad(t, v.class), overlay |-> FALSE, rows |-> rows]
        BY <1>3 DEF Render, RenderProfile
    <2>3. MemoriesLoad(t, v.class) \in BOOLEAN
        BY DEF MemoriesLoad
    <2> HIDE DEF rows
    <2> QED
        BY <2>1, <2>2, <2>3 DEF Shown, Showable
<1> QED
    BY <1>1, <1>2, <1>3

\* What an allowing verdict on a view says.
LEMMA BoundVerdict ==
    ASSUME NEW t, NEW v \in Views, NEW s, Bind(t, v, Decide(t, v), s).allowed
    PROVE  LET d == Bind(t, v, Decide(t, v), s) IN
           /\ d.fingerprint[1] = v
           /\ v.name = "CURRENT" => d.bound[1] = s
           /\ v.name = "PROFILE" =>
                 LET refs == {File("portable", "vault", "vault")}
                                 \cup ProfileMemories(t, v.class)
                 IN  /\ MemoriesLoad(t, v.class)
                     /\ \A a \in refs : Authorized(t, a)
                     /\ d.fingerprint[2] = {Fingerprint(t, a) : a \in refs}
<1> DEFINE d == Bind(t, v, Decide(t, v), s)
<1>1. v.name \in Names
    BY ViewAssumption
<1>2. NoDecision.allowed = FALSE
    BY DEF NoDecision
<1>3. ASSUME NEW refs, Verdict(t, refs, v).allowed
      PROVE  /\ \A a \in refs : Authorized(t, a)
             /\ Verdict(t, refs, v).fingerprint[1] = v
             /\ Verdict(t, refs, v).fingerprint[2] = {Fingerprint(t, a) : a \in refs}
             /\ Verdict(t, refs, v) = [allowed |-> TRUE,
                     fingerprint |-> <<v, {Fingerprint(t, a) : a \in refs}>>, bound |-> <<>>]
    BY <1>2, <1>3 DEF Verdict
<1>4. CASE v.name = "PROFILE"
    <2>1. d = Decide(t, v)
        BY <1>4 DEF Bind
    <2>2. MemoriesLoad(t, v.class)
        BY <2>1, <1>2, <1>4 DEF Decide
    <2>3. d = Verdict(t, {File("portable", "vault", "vault")}
                             \cup ProfileMemories(t, v.class), v)
        BY <2>1, <2>2, <1>4 DEF Decide
    <2> HIDE DEF d
    <2>4. d.allowed
        BY DEF d
    <2> QED
        BY <1>3, <1>4, <2>2, <2>3, <2>4 DEF d
<1>5. CASE v.name = "CURRENT"
    <2> DEFINE w == File("portable", "workstream", v.workstream)
               refs == {w} \cup t[w].heads
               e == Decide(t, v)
    <2>1. e.allowed /\ \E b : d = [e EXCEPT !.bound = <<s, b>>]
        BY <1>2, <1>5 DEF Bind
    <2>2. e = Verdict(t, refs, v)
        BY <2>1, <1>2, <1>5 DEF Decide
    <2>3. e = [allowed |-> TRUE, fingerprint |-> <<v, {Fingerprint(t, a) : a \in refs}>>,
               bound |-> <<>>]
        BY <2>1, <2>2, <1>3
    <2> HIDE DEF d, e, refs
    <2>4. d.fingerprint = e.fingerprint /\ d.bound[1] = s
        BY <2>1, <2>3
    <2>5. e.fingerprint[1] = v
        BY <2>3
    <2> QED
        BY <1>5, <2>4, <2>5 DEF d
<1> QED
    BY <1>1, <1>4, <1>5 DEF Names

LEMMA SameFingerprints ==
    ASSUME NEW t \in Trees, NEW u \in Trees, NEW class, NEW v,
           MemoriesLoad(t, class), NEW m \in ProfileMemories(t, class),
           NEW a \in {File("portable", "vault", "vault")} \cup ProfileMemories(u, class),
           Fingerprint(t, m) = Fingerprint(u, a)
    PROVE  m \in ProfileMemories(u, class) /\ u[m] = t[m]
<1>1. m.kind = "memory" /\ File("portable", "vault", "vault").kind # "memory"
    BY DEF ProfileMemories, Memories, File
<1>2. Fingerprint(t, m).artifact = m /\ Fingerprint(u, a).artifact = a
    BY DEF Fingerprint
<1>3. m = a
    BY <1>2
<1>4. Fingerprint(t, m).content = t[m] /\ Fingerprint(u, m).content = u[m]
    BY <1>1 DEF Fingerprint
<1> QED
    BY <1>1, <1>3, <1>4

\* What a stored authorization covers is what would be rendered: equal verdicts
\* on two trees were given for the same view with the same text.
LEMMA BoundIsRendered ==
    ASSUME NEW t \in Trees, NEW u \in Trees, NEW v \in Views, NEW w \in Views,
           Bind(t, v, Decide(t, v), Render(t, v)) = Bind(u, w, Decide(u, w), Render(u, w)),
           Bind(t, v, Decide(t, v), Render(t, v)).allowed
    PROVE  Render(t, v) = Render(u, w)
<1>1. v = w /\ v.name \in Names
    BY BoundVerdict, ViewAssumption
<1>2. CASE v.name = "CURRENT"
    BY <1>1, <1>2, BoundVerdict
<1>3. CASE v.name = "PROFILE"
    <2> DEFINE vault == File("portable", "vault", "vault")
               here == {vault} \cup ProfileMemories(t, v.class)
               there == {vault} \cup ProfileMemories(u, v.class)
    <2>1. /\ MemoriesLoad(t, v.class) /\ MemoriesLoad(u, v.class)
          /\ \A a \in here : Authorized(t, a)
          /\ \A a \in there : Authorized(u, a)
          /\ {Fingerprint(t, a) : a \in here} = {Fingerprint(u, a) : a \in there}
        BY <1>1, <1>3, BoundVerdict
    <2>2. \A m \in ProfileMemories(t, v.class) : \E a \in there :
              Fingerprint(t, m) = Fingerprint(u, a)
        BY <2>1
    <2>3. \A m \in ProfileMemories(u, v.class) : \E a \in here :
              Fingerprint(u, m) = Fingerprint(t, a)
        BY <2>1
    <2>4. \A m \in ProfileMemories(t, v.class) :
              m \in ProfileMemories(u, v.class) /\ u[m] = t[m]
        BY <2>1, <2>2, SameFingerprints
    <2>5. \A m \in ProfileMemories(u, v.class) :
              m \in ProfileMemories(t, v.class) /\ t[m] = u[m]
        BY <2>1, <2>3, SameFingerprints
    <2>6. ProfileMemories(t, v.class) = ProfileMemories(u, v.class)
        BY <2>4, <2>5
    <2>7. \A m \in ProfileMemories(t, v.class) : Row(t, m) = Row(u, m)
        BY <2>4 DEF Row
    <2>8. {n \in ProfileMemories(t, v.class) : Authorized(t, n)}
             = {n \in ProfileMemories(u, v.class) : Authorized(u, n)}
        BY <2>1, <2>6
    <2>9. RenderProfile(t, v) = RenderProfile(u, v)
        <3> HIDE DEF here, there, vault
        <3>1. {Row(t, m) : m \in {n \in ProfileMemories(t, v.class) : Authorized(t, n)}}
                = {Row(u, m) : m \in {n \in ProfileMemories(u, v.class) : Authorized(u, n)}}
            BY <2>6, <2>7, <2>8
        <3> QED
            BY <2>1, <3>1 DEF RenderProfile
    <2> QED
        BY <1>1, <1>3, <2>9 DEF Render
<1> QED
    BY <1>1, <1>2, <1>3 DEF Names

-----------------------------------------------------------------------------
(* Types                                                                   *)

Asked == {"searching", "loading", "deciding", "confirming"}
Seen == {"loading", "deciding", "confirming"}
Rebuilding == {"scanning", "publishing"}

TaskOK(t) ==
    t \in [op : {"none", "recall", "reindex", "view"}, limit : Nat,
           want : Nat, processed : Nat,
           candidates : Seq(Rows), hits : Seq(Rows),
           record : Contents, successors : SUBSET Artifacts,
           degraded : BOOLEAN, rebuilt : BOOLEAN,
           at : Nat, rows : SUBSET Rows, scanned : {"resolved", "degraded", "invalid"},
           view : Views \cup {Absent}, decision : {t.decision}, shown : Shown \cup {Absent}]

AnswerOK(a) ==
    a \in [status : Statuses, hits : Seq(Rows), shown : Shown \cup {Absent},
           limit : Nat, rebuilt : BOOLEAN]

RecallOK(t) ==
    t.op = "recall" => t.limit > 0 /\ Len(t.hits) < t.limit

AskedOK(t) ==
    t.op = "recall" /\ t.want > 0 /\ t.want <= 2 * Len(Scan) + t.limit

\* Rows are of artifacts that are scanned.
Indexed(rows) == \A r \in rows : r.file \in Entries(Scan)

SeenOK(t) ==
    /\ t.processed < Len(t.candidates)
    /\ Len(t.candidates) <= Len(Scan) /\ Len(t.candidates) <= t.want
    /\ Indexed(Entries(t.candidates))

RebuildOK(t) ==
    /\ t.op \in {"recall", "reindex"} /\ ~t.rebuilt
    /\ IsFiniteSet(t.rows) /\ Cardinality(t.rows) <= Len(Scan)
    /\ t.scanned = "invalid" => t.rows = {}
    /\ Indexed(t.rows)

ScanOK(t) ==
    /\ 1 <= t.at /\ t.at <= Len(Scan) + 1
    /\ Cardinality(t.rows) < t.at
    /\ t.scanned # "invalid"

\* A client's place and its task.
PlaceOK(place, t) ==
    /\ RecallOK(t)
    /\ place \in Asked => AskedOK(t)
    /\ place \in Seen => SeenOK(t)
    /\ place \in Rebuilding => RebuildOK(t)
    /\ place = "scanning" => ScanOK(t)
    /\ place \in Gated \cup {"gate"} => t.view \in Views /\ t.op = "view"
    /\ place \in Gated \ {"verdict", "rendering"} => t.shown \in Shown
    /\ t.shown # Absent => place \in Gated

ClientOK(q) ==
    /\ TaskOK(task[q]) /\ AnswerOK(answer[q]) /\ PlaceOK(pc[q], task[q])
    /\ pc[q] \in Gated <=> q \in owners

IndexOK ==
    /\ index \in [state : {"missing", "invalid", "degraded", "resolved"}, rows : Seq(Rows)]
    /\ Len(index.rows) <= Len(Scan)
    /\ Indexed(Entries(index.rows))
    /\ index.state \in {"missing", "invalid"} => index.rows = <<>>

CacheOK ==
    /\ DOMAIN cache = Names
    /\ \A n \in Names : /\ DOMAIN cache[n] = {"text", "authorization"}
                        /\ cache[n].text \in Shown \cup {Absent}

CallsOK ==
    /\ pc \in [Clients -> Places]
    /\ DOMAIN task = Clients /\ task = [q \in Clients |-> task[q]]
    /\ DOMAIN answer = Clients /\ answer = [q \in Clients |-> answer[q]]
    /\ owners \subseteq Clients
    /\ \A q \in Clients : ClientOK(q)

HistoryOK ==
    /\ calls \in [Clients -> Nat] /\ edits \in Nat
    /\ moments \in [Clients -> SUBSET Trees]
    /\ disturbed \subseteq Clients /\ touched \subseteq Clients
    /\ tainted \subseteq Names

TypeInv == tree \in Trees /\ IndexOK /\ CacheOK /\ CallsOK /\ HistoryOK

LEMMA TypeInvGivesTypeOK == TypeInv => TypeOK
<1> SUFFICES ASSUME TypeInv PROVE TypeOK
    OBVIOUS
<1> USE DEF TypeInv
<1>1. \A q \in Clients :
        /\ pc[q] \in Gated <=> q \in owners
        /\ task[q].candidates \in Seq(Rows) /\ task[q].hits \in Seq(Rows)
        /\ task[q].rows \subseteq Rows
        /\ task[q].record \in Contents
        /\ task[q].shown \in Shown \cup {Absent}
    BY DEF CallsOK, ClientOK, TaskOK
<1>2. \A q \in Clients : pc[q] \in Seen => task[q].processed < Len(task[q].candidates)
    BY DEF CallsOK, ClientOK, PlaceOK, SeenOK
<1>3. \A q \in Clients :
        /\ answer[q].status \in Statuses /\ answer[q].hits \in Seq(Rows)
        /\ answer[q].shown \in Shown \cup {Absent}
    BY DEF CallsOK, ClientOK, AnswerOK
<1> QED
    BY <1>1, <1>2, <1>3 DEF TypeOK, IndexOK, CacheOK, CallsOK, HistoryOK, Seen

LEMMA NothingAsked == TaskOK(NoTask) /\ AnswerOK(NoAnswer) /\ PlaceOK("idle", NoTask)
    BY TreeAssumption, EmptySeq DEF TaskOK, AnswerOK, PlaceOK, NoTask, NoAnswer, Statuses, RecallOK,
       Asked, Seen, Rebuilding, Gated

LEMMA ScanLength == Len(Scan) \in Nat /\ Page \in Nat /\ Page = 3 * Len(Scan) + 4 /\ AllPages \in Nat
<1>1. Len(Scan) \in Nat
    BY ScanAssumption, LenProperties
<1>2. 3 * Len(Scan) + 4 \in Nat /\ 2 * Len(Scan) + 2 \in Nat
    BY <1>1
<1>3. Page \in Nat
    BY <1>2 DEF Page
<1>4. (2 * Len(Scan) + 2) * Page \in Nat
    BY <1>2, <1>3
<1> QED
    BY <1>1, <1>3, <1>4 DEF Page, AllPages

LEMMA TypesAtFirst == Init => TypeInv
<1> SUFFICES ASSUME Init PROVE TypeInv
    OBVIOUS
<1>1. CallsOK
    BY NothingAsked DEF Init, CallsOK, ClientOK, Places, Gated
<1>2. IndexOK
    BY EmptySeq, NoEntries, ScanLength DEF Init, IndexOK, Indexed
<1>3. CacheOK
    BY DEF Init, CacheOK, EmptyView
<1> QED
    BY <1>1, <1>2, <1>3, TreeAssumption DEF TypeInv, Init, HistoryOK

\* A client goes to a place with a task, and has an answer.
Goes(p, place, t, a) ==
    /\ pc' = [pc EXCEPT ![p] = place]
    /\ task' = [task EXCEPT ![p] = t]
    /\ answer' = [answer EXCEPT ![p] = a]

LEMMA Proceeds ==
    ASSUME CallsOK, NEW p \in Clients, NEW place, NEW t, Proceed(p, place, t)
    PROVE  Goes(p, place, t, answer[p])
    BY DEF CallsOK, Goes, Proceed

LEMMA Returns ==
    ASSUME NEW p, NEW a, Return(p, a)
    PROVE  Goes(p, "idle", NoTask, a)
    BY DEF Goes, Return

LEMMA CallsStayOK ==
    ASSUME CallsOK, NEW p \in Clients, NEW place \in Places, NEW t, NEW a,
           Goes(p, place, t, a), TaskOK(t), PlaceOK(place, t), AnswerOK(a),
           owners' = IF place \in Gated THEN owners \cup {p} ELSE owners \ {p}
    PROVE  CallsOK'
<1>1. /\ pc'[p] = place /\ task'[p] = t /\ answer'[p] = a
      /\ \A q \in Clients \ {p} :
            pc'[q] = pc[q] /\ task'[q] = task[q] /\ answer'[q] = answer[q]
      /\ pc' \in [Clients -> Places]
      /\ DOMAIN task' = Clients /\ task' = [q \in Clients |-> task'[q]]
      /\ DOMAIN answer' = Clients /\ answer' = [q \in Clients |-> answer'[q]]
    BY DEF Goes, CallsOK
<1>2. ClientOK(p)'
    BY <1>1 DEF ClientOK
<1>3. ASSUME NEW q \in Clients \ {p} PROVE ClientOK(q)'
    BY <1>1, <1>3 DEF ClientOK, CallsOK
<1> QED
    BY <1>1, <1>2, <1>3 DEF CallsOK

-----------------------------------------------------------------------------
(* The steps of a call: where they lead, and that they come closer         *)

\* Where a step of a client leads is all right.
StepsTo(p, place, t, a) ==
    /\ Goes(p, place, t, a)
    /\ place \in Places /\ TaskOK(t) /\ PlaceOK(place, t) /\ AnswerOK(a)
    /\ owners' = IF place \in Gated THEN owners \cup {p} ELSE owners \ {p}

Closer(p, place, t) ==
    0 <= Measure(place, t) /\ Measure(place, t) < Measure(pc[p], task[p])

LEMMA MorePages ==
    ASSUME NEW x \in Nat, NEW y \in Nat, NEW k \in Nat, x < y
    PROVE  x * k \in Nat /\ y * k \in Nat /\ x * k + k <= y * k
<1> DEFINE d == y - x - 1
<1>1. d \in Nat /\ y = x + 1 + d
    OBVIOUS
<1>2. d * k \in Nat /\ x * k \in Nat
    BY <1>1
<1>3. y * k = x * k + k + d * k
    BY <1>1
<1> HIDE DEF d
<1> QED
    BY <1>2, <1>3

LEMMA TaskNumbers ==
    ASSUME NEW t, TaskOK(t)
    PROVE  /\ t.limit \in Nat /\ t.want \in Nat /\ t.processed \in Nat /\ t.at \in Nat
           /\ Len(t.candidates) \in Nat /\ Len(t.hits) \in Nat
           /\ Rebuild(t) \in Nat
           /\ t.candidates \in Seq(Rows) /\ t.hits \in Seq(Rows)
<1>1. t.candidates \in Seq(Rows) /\ t.hits \in Seq(Rows)
    BY DEF TaskOK
<1>2. Len(t.candidates) \in Nat /\ Len(t.hits) \in Nat
    BY <1>1, LenProperties
<1>3. Rebuild(t) \in Nat
    BY ScanLength DEF Rebuild
<1> QED
    BY <1>1, <1>2, <1>3 DEF TaskOK

\* A task between two candidates.
Between(t) ==
    /\ TaskOK(t) /\ AskedOK(t) /\ t.limit > 0 /\ Len(t.hits) <= t.limit
    /\ Len(t.candidates) <= Len(Scan) /\ Len(t.candidates) <= t.want
    /\ Indexed(Entries(t.candidates))
    /\ t.shown = Absent

\* The candidates of a page that are left; the page may have become shorter.
Ahead(t) == IF t.processed < Len(t.candidates) THEN Candidates(t) ELSE 0

Ended(t) ==
    [NoAnswer EXCEPT !.status = IF t.degraded THEN "degraded" ELSE "resolved",
                     !.hits = t.hits, !.limit = t.limit, !.rebuilt = t.rebuilt]

FullPage(t) == [t EXCEPT !.processed = Len(t.candidates), !.want = 2 * @]

\* How recall goes on.
GoesOn(p, t, place, u, a) ==
    /\ Goes(p, place, u, a)
    /\ \/ /\ place = "idle" /\ u = NoTask /\ a = Ended(t)
          /\ \/ Len(t.hits) = t.limit
             \/ t.processed >= Len(t.candidates) /\ Len(t.candidates) < t.want
       \/ /\ place = "loading" /\ u = t /\ a = answer[p]
          /\ t.processed < Len(t.candidates) /\ Len(t.hits) < t.limit
       \/ /\ place = "searching" /\ u = FullPage(t) /\ a = answer[p]
          /\ t.processed >= Len(t.candidates) /\ Len(t.candidates) = t.want
          /\ Len(t.hits) < t.limit

LEMMA HowItGoesOn ==
    ASSUME CallsOK, NEW p \in Clients, NEW t, Between(t), GoOn(p, t)
    PROVE  \E place, u, a : GoesOn(p, t, place, u, a)
<1>1. /\ Len(t.hits) \in Nat /\ Len(t.candidates) \in Nat /\ t.processed \in Nat
      /\ t.limit \in Nat /\ t.want \in Nat
    BY TaskNumbers DEF Between
<1>2. CASE /\ Finish(p, t)
           /\ \/ Len(t.hits) = t.limit
              \/ t.processed >= Len(t.candidates) /\ Len(t.candidates) < t.want
    <2>1. Goes(p, "idle", NoTask, Ended(t))
        BY <1>2, Returns DEF Finish, Ended
    <2> QED
        BY <1>2, <2>1 DEF GoesOn
<1>3. CASE Proceed(p, "loading", t) /\ t.processed < Len(t.candidates) /\ Len(t.hits) < t.limit
    <2>1. Goes(p, "loading", t, answer[p])
        BY <1>3, Proceeds
    <2> QED
        BY <1>3, <2>1 DEF GoesOn
<1>4. CASE NextPage(p, t) /\ t.processed >= Len(t.candidates) /\ Len(t.candidates) = t.want
           /\ Len(t.hits) < t.limit
    <2>1. Goes(p, "searching", FullPage(t), answer[p])
        BY <1>4, Proceeds DEF NextPage, FullPage
    <2> QED
        BY <1>4, <2>1 DEF GoesOn
<1> QED
    <2>1. /\ Len(t.hits) <= t.limit
          /\ Len(t.candidates) <= t.want
        BY DEF Between
    <2>2. /\ Len(t.hits) # t.limit => Len(t.hits) < t.limit
          /\ ~(t.processed < Len(t.candidates)) => t.processed >= Len(t.candidates)
          /\ ~(Len(t.candidates) < t.want) => Len(t.candidates) = t.want
        BY <1>1, <2>1
    <2> QED
        BY <1>2, <1>3, <1>4, <2>2 DEF GoOn

LEMMA NoMoreToDo ==
    ASSUME NEW t PROVE Measure("idle", t) = 0
    BY DEF Measure

\* Going on leads to a good place, and the candidates before it bound what is left.
LEMMA GoingOnIsOK ==
    ASSUME CallsOK, NEW p \in Clients, NEW t, Between(t),
           NEW place, NEW u, NEW a, GoesOn(p, t, place, u, a)
    PROVE  /\ place \in Places \ Gated /\ TaskOK(u) /\ PlaceOK(place, u) /\ AnswerOK(a)
           /\ Measure(place, u) \in Int /\ 0 <= Measure(place, u)
           /\ Measure(place, u) <= Rebuild(t) + Pages(t) + Ahead(t)
           /\ Pages(t) \in Nat /\ Ahead(t) \in Nat
<1>1. /\ Len(t.hits) \in Nat /\ Len(t.candidates) \in Nat /\ t.processed \in Nat
      /\ t.limit \in Nat /\ t.want \in Nat /\ Rebuild(t) \in Nat
    BY TaskNumbers DEF Between
<1>2. Ahead(t) \in Nat
    BY <1>1 DEF Ahead, Candidates
<1>3. 2 * Len(Scan) + t.limit - t.want \in Nat
    BY <1>1, ScanLength DEF Between, AskedOK
<1>4. Pages(t) \in Nat
    <2> DEFINE x == 2 * Len(Scan) + t.limit - t.want
    <2>1. x \in Nat
        BY <1>3
    <2> HIDE DEF x
    <2>2. x * Page \in Nat
        BY <2>1, ScanLength
    <2> QED
        BY <2>2 DEF x, Pages
<1>5. AnswerOK(answer[p])
    BY DEF CallsOK, ClientOK
<1>6. CASE place = "idle" /\ u = NoTask /\ a = Ended(t)
    <2>1. AnswerOK(a)
        BY <1>6, NothingAsked DEF AnswerOK, NoAnswer, Ended, Between, TaskOK, Statuses
    <2> QED
        BY <1>1, <1>2, <1>4, <1>6, <2>1, NothingAsked, NoMoreToDo DEF Places, Gated
<1>7. CASE place = "loading" /\ u = t /\ a = answer[p]
           /\ t.processed < Len(t.candidates) /\ Len(t.hits) < t.limit
    <2>1. PlaceOK(place, u)
        BY <1>7 DEF Between, PlaceOK, RecallOK, SeenOK, AskedOK, Asked, Seen, Rebuilding, Gated
    <2>2. Measure(place, u) = Rebuild(t) + Pages(t) + Candidates(t)
        BY <1>7 DEF Measure
    <2>3. Candidates(t) = Ahead(t)
        BY <1>7 DEF Ahead
    <2> QED
        BY <1>1, <1>2, <1>4, <1>5, <1>7, <2>1, <2>2, <2>3 DEF Between, Places, Gated
<1>8. CASE place = "searching" /\ u = FullPage(t) /\ a = answer[p]
           /\ t.processed >= Len(t.candidates) /\ Len(t.candidates) = t.want
           /\ Len(t.hits) < t.limit
    <2>1. TaskOK(u) /\ u.want = 2 * t.want /\ u.limit = t.limit /\ u.op = t.op
          /\ u.hits = t.hits /\ u.shown = t.shown /\ u.rebuilt = t.rebuilt
        <3>1. TaskOK(t) /\ 2 * t.want \in Nat
            BY <1>1 DEF Between
        <3> DEFINE n == Len(t.candidates)
                   w == 2 * t.want
        <3>2. n \in Nat /\ w \in Nat
            BY <1>1, <3>1
        <3>3. u = [t EXCEPT !.processed = n, !.want = w]
            BY <1>8 DEF FullPage
        <3> HIDE DEF n, w
        <3>4. TaskOK(u) /\ u.want = w /\ u.limit = t.limit /\ u.op = t.op
              /\ u.hits = t.hits /\ u.shown = t.shown /\ u.rebuilt = t.rebuilt
            BY <3>1, <3>2, <3>3 DEF TaskOK
        <3> QED
            BY <3>4 DEF w
    <2>2. PlaceOK(place, u)
        BY <1>1, <1>8, <2>1, ScanLength
           DEF Between, PlaceOK, RecallOK, AskedOK, Asked, Seen, Rebuilding, Gated
    <2> DEFINE x == 2 * Len(Scan) + t.limit - 2 * t.want
               y == 2 * Len(Scan) + t.limit - t.want
    <2>3. x \in Nat /\ y \in Nat /\ x < y
        <3>1. t.want > 0 /\ t.want <= Len(Scan) /\ Len(Scan) \in Nat
            BY <1>8, ScanLength DEF Between, AskedOK
        <3>2. ASSUME NEW n \in Nat, NEW l \in Nat, NEW w \in Nat, w > 0, w <= n
              PROVE  /\ 2 * n + l - 2 * w \in Nat /\ 2 * n + l - w \in Nat
                     /\ 2 * n + l - 2 * w < 2 * n + l - w
            BY <3>2
        <3> QED
            BY <3>1, <3>2, <1>1
    <2>4. Pages(u) = x * Page /\ Pages(t) = y * Page
        BY <2>1 DEF Pages
    <2> HIDE DEF x, y
    <2>5. Pages(u) \in Nat /\ Pages(u) + Page <= Pages(t)
        BY <2>3, <2>4, MorePages, ScanLength
    <2>6. Rebuild(u) = Rebuild(t)
        BY <2>1 DEF Rebuild
    <2>7. Measure(place, u) = Rebuild(t) + Pages(u) + Page - 1
        BY <1>8, <2>6 DEF Measure
    <2>8. /\ Measure(place, u) \in Int /\ 0 <= Measure(place, u)
          /\ Measure(place, u) <= Rebuild(t) + Pages(t) + Ahead(t)
        <3>1. ASSUME NEW r \in Nat, NEW q \in Nat, NEW n \in Nat, NEW m \in Nat,
                     NEW h \in Nat, n + m <= q, 0 < m
              PROVE  /\ r + n + m - 1 \in Int /\ 0 <= r + n + m - 1
                     /\ r + n + m - 1 <= r + q + h
            BY <3>1
        <3>2. Page \in Nat /\ 0 < Page
            BY ScanLength
        <3>3. Rebuild(t) \in Nat
            BY <1>1
        <3>4. /\ Rebuild(t) + Pages(u) + Page - 1 \in Int
              /\ 0 <= Rebuild(t) + Pages(u) + Page - 1
              /\ Rebuild(t) + Pages(u) + Page - 1 <= Rebuild(t) + Pages(t) + Ahead(t)
            BY <1>2, <1>4, <2>5, <3>1, <3>2, <3>3
        <3> QED
            BY <2>7, <3>4
    <2> QED
        BY <1>2, <1>4, <1>5, <1>8, <2>1, <2>2, <2>8 DEF Places, Gated
<1> QED
    BY <1>6, <1>7, <1>8 DEF GoesOn

LEMMA OwnersStay ==
    ASSUME CallsOK, NEW p \in Clients, NEW place, UNCHANGED owners,
           pc[p] \in Gated <=> place \in Gated
    PROVE  owners' = IF place \in Gated THEN owners \cup {p} ELSE owners \ {p}
    BY DEF CallsOK, ClientOK

LEMMA KnownOf ==
    ASSUME CallsOK, NEW p \in Clients
    PROVE  TaskOK(task[p]) /\ AnswerOK(answer[p]) /\ PlaceOK(pc[p], task[p])
    BY DEF CallsOK, ClientOK

LEMMA CallSteps ==
    ASSUME CallsOK, NEW p \in Clients, NEW t, NEW place \in Places \ Gated,
           TaskOK(t), PlaceOK(place, t), Call(p, t, place)
    PROVE  StepsTo(p, place, t, NoAnswer)
<1>1. Goes(p, place, t, NoAnswer) /\ pc[p] = "idle" /\ UNCHANGED owners
    BY DEF Call, Goes
<1>2. pc[p] \notin Gated
    BY <1>1 DEF Gated
<1> QED
    BY <1>1, <1>2, OwnersStay, NothingAsked DEF StepsTo

LEMMA AskSteps ==
    ASSUME CallsOK, NEW p \in Clients, Ask(p)
    PROVE  \E t : /\ StepsTo(p, "searching", t, NoAnswer) /\ Call(p, t, "searching")
                  /\ \E n \in Limits :
                        t = [NoTask EXCEPT !.op = "recall", !.limit = n, !.want = n,
                                           !.degraded = SourceMissing]
<1>1. PICK n \in Limits : Call(p, [NoTask EXCEPT !.op = "recall", !.limit = n, !.want = n,
                                            !.degraded = SourceMissing], "searching")
    BY DEF Ask
<1> DEFINE t == [NoTask EXCEPT !.op = "recall", !.limit = n, !.want = n,
                               !.degraded = SourceMissing]
<1>2. n \in Nat /\ n > 0 /\ SourceMissing \in BOOLEAN
    BY LimitAssumption DEF SourceMissing
<1>3. TaskOK(t) /\ t.op = "recall" /\ t.limit = n /\ t.want = n /\ t.hits = <<>>
      /\ t.shown = Absent
    BY <1>2, NothingAsked DEF TaskOK, NoTask
<1> HIDE DEF t
<1>4. PlaceOK("searching", t)
    BY <1>2, <1>3, NoEntries, ScanLength
       DEF PlaceOK, RecallOK, AskedOK, Asked, Seen, Rebuilding, Gated
<1>5. "searching" \in Places \ Gated
    BY DEF Places, Gated
<1>6. Call(p, t, "searching")
    BY <1>1 DEF t
<1>7. StepsTo(p, "searching", t, NoAnswer)
    BY <1>3, <1>4, <1>5, <1>6, CallSteps
<1> QED
    BY <1>6, <1>7 DEF t

LEMMA ReindexSteps ==
    ASSUME CallsOK, NEW p \in Clients, Reindex(p)
    PROVE  StepsTo(p, "scanning", [NoTask EXCEPT !.op = "reindex"], NoAnswer)
<1> DEFINE t == [NoTask EXCEPT !.op = "reindex"]
<1>1. TaskOK(t) /\ t.op = "reindex" /\ t.shown = Absent /\ t.rows = {} /\ t.at = 1
      /\ ~t.rebuilt /\ t.scanned = "resolved"
    BY NothingAsked DEF TaskOK, NoTask
<1> HIDE DEF t
<1>2. IsFiniteSet(t.rows) /\ Cardinality(t.rows) = 0
    BY <1>1, FS_EmptySet
<1>3. PlaceOK("scanning", t)
    BY <1>1, <1>2, ScanLength
       DEF PlaceOK, RecallOK, RebuildOK, Indexed, ScanOK, Asked, Seen, Rebuilding, Gated
<1>4. "scanning" \in Places \ Gated
    BY DEF Places, Gated
<1>5. Call(p, t, "scanning")
    BY DEF t, Reindex
<1> QED
    BY <1>1, <1>3, <1>4, <1>5, CallSteps DEF t

LEMMA AskViewSteps ==
    ASSUME CallsOK, NEW p \in Clients, AskView(p)
    PROVE  \E v \in Views :
               StepsTo(p, "gate", [NoTask EXCEPT !.op = "view", !.view = v], NoAnswer)
<1>1. PICK v \in Views : Call(p, [NoTask EXCEPT !.op = "view", !.view = v], "gate")
    BY DEF AskView
<1> DEFINE t == [NoTask EXCEPT !.op = "view", !.view = v]
<1>2. TaskOK(t) /\ t.op = "view" /\ t.shown = Absent /\ t.view = v
    BY NothingAsked DEF TaskOK, NoTask
<1> HIDE DEF t
<1>3. PlaceOK("gate", t)
    BY <1>2 DEF PlaceOK, RecallOK, Asked, Seen, Rebuilding, Gated
<1>4. "gate" \in Places \ Gated
    BY DEF Places, Gated
<1>5. Call(p, t, "gate")
    BY <1>1 DEF t
<1>6. StepsTo(p, "gate", t, NoAnswer)
    BY <1>2, <1>3, <1>4, <1>5, CallSteps
<1> QED
    BY <1>6 DEF t

\* A step that returns.
LEMMA ReturnSteps ==
    ASSUME CallsOK, NEW p \in Clients, NEW a, AnswerOK(a), Return(p, a),
           owners' = owners \ {p}
    PROVE  StepsTo(p, "idle", NoTask, a)
    BY Returns, NothingAsked DEF StepsTo, Places, Gated

LEMMA ProceedSteps ==
    ASSUME CallsOK, NEW p \in Clients, NEW place \in Places, NEW t, Proceed(p, place, t),
           TaskOK(t), PlaceOK(place, t), UNCHANGED owners,
           pc[p] \in Gated <=> place \in Gated
    PROVE  StepsTo(p, place, t, answer[p])
    BY Proceeds, KnownOf, OwnersStay DEF StepsTo

LEMMA OneCloser ==
    \A a, n, i \in Nat :
        i <= n => 0 <= a + n + 3 - (i + 1) /\ a + n + 3 - (i + 1) < a + n + 3 - i
    OBVIOUS

\* Every step of a rebuild.
LEMMA ScanSteps ==
    ASSUME CallsOK, tree \in Trees, NEW p \in Clients, ScanNext(p) \/ ScanEnds(p)
    PROVE  \E place, t : StepsTo(p, place, t, answer[p]) /\ Closer(p, place, t)
<1> DEFINE t == task[p]
           a == Scan[t.at]
           more == [t EXCEPT !.at = @ + 1, !.rows = @ \cup {Row(tree, a)}]
           less == [t EXCEPT !.at = @ + 1, !.scanned = "degraded"]
           next == [t EXCEPT !.at = @ + 1]
           bad == [t EXCEPT !.rows = {}, !.scanned = "invalid"]
<1>1. /\ pc[p] = "scanning" /\ TaskOK(t) /\ PlaceOK("scanning", t) /\ UNCHANGED owners
      /\ t.at \in Nat
    BY KnownOf, TaskNumbers DEF ScanNext, ScanEnds, Look
<1>2. RecallOK(t) /\ RebuildOK(t) /\ ScanOK(t) /\ t.shown = Absent
    BY <1>1 DEF PlaceOK, Rebuilding, Gated
<1>3. /\ Cardinality(t.rows) \in Nat /\ IsFiniteSet(t.rows)
      /\ \A r : /\ IsFiniteSet(t.rows \cup {r})
                /\ Cardinality(t.rows \cup {r}) \in Nat
                /\ Cardinality(t.rows \cup {r}) <= Cardinality(t.rows) + 1
    <2>1. IsFiniteSet(t.rows) /\ Cardinality(t.rows) \in Nat
        BY <1>2, FS_CardinalityType DEF RebuildOK
    <2>2. ASSUME NEW r
          PROVE  /\ IsFiniteSet(t.rows \cup {r})
                 /\ Cardinality(t.rows \cup {r}) \in Nat
                 /\ Cardinality(t.rows \cup {r}) <= Cardinality(t.rows) + 1
        <3> HIDE DEF t
        <3>1. /\ IsFiniteSet(t.rows \cup {r})
              /\ Cardinality(t.rows \cup {r}) =
                       IF r \in t.rows THEN Cardinality(t.rows) ELSE Cardinality(t.rows) + 1
            BY <2>1, FS_AddElement
        <3> QED
            BY <2>1, <3>1
    <2> QED
        BY <2>1, <2>2
<1>4. IsFiniteSet({}) /\ Cardinality({}) = 0
    BY FS_EmptySet
<1>5. Measure("scanning", t) = AllPages + Len(Scan) + 3 - t.at
    BY DEF Measure
<1>6. \A u : /\ Measure("scanning", u) = AllPages + Len(Scan) + 3 - u.at
             /\ Measure("publishing", u) = AllPages + 1
    BY DEF Measure
<1>7. CASE ScanNext(p)
    <2>1. t.at <= Len(Scan)
        BY <1>7 DEF ScanNext
    <2> DEFINE n == t.at + 1
    <2>2. n \in Nat /\ n = t.at + 1
        BY <1>1
    <2>3. CASE Readable(tree, a) /\ Proceed(p, "scanning", more)
        <3> DEFINE rows == t.rows \cup {Row(tree, a)}
        <3>1. rows \in SUBSET Rows
            BY <1>1, <2>3, ReadsContent DEF Readable, TaskOK
        <3>8. Indexed(rows)
            <4>1. a \in Entries(Scan)
                BY <1>1, <1>2, <2>1, ScanAssumption, EntriesBelong DEF ScanOK
            <4> QED
                BY <1>2, <4>1 DEF RebuildOK, Indexed, Row
        <3>2. more = [t EXCEPT !.at = n, !.rows = rows]
            OBVIOUS
        <3>3. IsFiniteSet(rows) /\ Cardinality(rows) \in Nat /\ Cardinality(rows) <= Cardinality(t.rows) + 1
            BY <1>3
        <3> HIDE DEF n, rows, t
        <3>4. /\ TaskOK(more) /\ more.at = n /\ more.rows = rows /\ more.op = t.op
              /\ more.limit = t.limit /\ more.hits = t.hits /\ more.shown = t.shown
              /\ more.rebuilt = t.rebuilt /\ more.scanned = t.scanned
            BY <1>1, <2>2, <3>1, <3>2 DEF TaskOK
        <3> HIDE DEF more
        <3>5. PlaceOK("scanning", more)
            BY <1>1, <1>2, <1>3, <2>1, <2>2, <3>3, <3>4, <3>8, ScanLength
               DEF PlaceOK, RecallOK, RebuildOK, ScanOK, Asked, Seen, Rebuilding, Gated
        <3>6. StepsTo(p, "scanning", more, answer[p])
            BY <1>1, <2>3, <3>4, <3>5, ProceedSteps DEF Places, Gated
        <3>7. Closer(p, "scanning", more)
            <4>1. Measure("scanning", more) = AllPages + Len(Scan) + 3 - n
                BY <1>6, <3>4
            <4>2. Measure(pc[p], task[p]) = AllPages + Len(Scan) + 3 - t.at
                BY <1>1, <1>5 DEF t
            <4> QED
                BY <1>1, <2>1, <2>2, <4>1, <4>2, ScanLength, OneCloser DEF Closer
        <3> QED
            BY <3>6, <3>7
    <2>4. CASE Proceed(p, "scanning", less)
        <3> HIDE DEF n, t
        <3>4. /\ TaskOK(less) /\ less.at = n /\ less.rows = t.rows /\ less.op = t.op
              /\ less.limit = t.limit /\ less.hits = t.hits /\ less.shown = t.shown
              /\ less.rebuilt = t.rebuilt /\ less.scanned = "degraded"
            BY <1>1, <2>2 DEF TaskOK
        <3> HIDE DEF less
        <3>5. PlaceOK("scanning", less)
            BY <1>1, <1>2, <1>3, <2>1, <2>2, <3>4, ScanLength
               DEF PlaceOK, RecallOK, RebuildOK, ScanOK, Asked, Seen, Rebuilding, Gated
        <3>6. StepsTo(p, "scanning", less, answer[p])
            BY <1>1, <2>4, <3>4, <3>5, ProceedSteps DEF Places, Gated
        <3>7. Closer(p, "scanning", less)
            <4>1. Measure("scanning", less) = AllPages + Len(Scan) + 3 - n
                BY <1>6, <3>4
            <4>2. Measure(pc[p], task[p]) = AllPages + Len(Scan) + 3 - t.at
                BY <1>1, <1>5 DEF t
            <4> QED
                BY <1>1, <2>1, <2>2, <4>1, <4>2, ScanLength, OneCloser DEF Closer
        <3> QED
            BY <3>6, <3>7
    <2>5. CASE Proceed(p, "scanning", next)
        <3> HIDE DEF n, t
        <3>4. /\ TaskOK(next) /\ next.at = n /\ next.rows = t.rows /\ next.op = t.op
              /\ next.limit = t.limit /\ next.hits = t.hits /\ next.shown = t.shown
              /\ next.rebuilt = t.rebuilt /\ next.scanned = t.scanned
            BY <1>1, <2>2 DEF TaskOK
        <3> HIDE DEF next
        <3>5. PlaceOK("scanning", next)
            BY <1>1, <1>2, <1>3, <2>1, <2>2, <3>4, ScanLength
               DEF PlaceOK, RecallOK, RebuildOK, ScanOK, Asked, Seen, Rebuilding, Gated
        <3>6. StepsTo(p, "scanning", next, answer[p])
            BY <1>1, <2>5, <3>4, <3>5, ProceedSteps DEF Places, Gated
        <3>7. Closer(p, "scanning", next)
            <4>1. Measure("scanning", next) = AllPages + Len(Scan) + 3 - n
                BY <1>6, <3>4
            <4>2. Measure(pc[p], task[p]) = AllPages + Len(Scan) + 3 - t.at
                BY <1>1, <1>5 DEF t
            <4> QED
                BY <1>1, <2>1, <2>2, <4>1, <4>2, ScanLength, OneCloser DEF Closer
        <3> QED
            BY <3>6, <3>7
    <2>6. CASE Proceed(p, "publishing", bad)
        <3> HIDE DEF n, t
        <3>4. /\ TaskOK(bad) /\ bad.rows = {} /\ bad.op = t.op
              /\ bad.limit = t.limit /\ bad.hits = t.hits /\ bad.shown = t.shown
              /\ bad.rebuilt = t.rebuilt
            BY <1>1 DEF TaskOK
        <3> HIDE DEF bad
        <3>5. PlaceOK("publishing", bad)
            BY <1>1, <1>2, <1>4, <3>4, ScanLength
               DEF PlaceOK, RecallOK, RebuildOK, Indexed, Asked, Seen, Rebuilding, Gated
        <3>6. StepsTo(p, "publishing", bad, answer[p])
            BY <1>1, <2>6, <3>4, <3>5, ProceedSteps DEF Places, Gated
        <3>7. Closer(p, "publishing", bad)
            BY <1>1, <1>5, <1>6, <2>1, <3>4, ScanLength DEF Closer, t
        <3> QED
            BY <3>6, <3>7
    <2> QED
        BY <1>7, <2>3, <2>4, <2>5, <2>6 DEF ScanNext
<1>8. CASE ScanEnds(p)
    <2> HIDE DEF t
    <2>1. PlaceOK("publishing", t)
        BY <1>1, <1>2 DEF PlaceOK, RebuildOK, Asked, Seen, Rebuilding, Gated
    <2>2. StepsTo(p, "publishing", t, answer[p])
        BY <1>1, <1>8, <2>1, ProceedSteps DEF ScanEnds, t, Places, Gated
    <2>3. Closer(p, "publishing", t)
        BY <1>1, <1>5, <1>6, <1>8, ScanLength DEF Closer, t, ScanEnds
    <2> QED
        BY <2>2, <2>3
<1> QED
    BY <1>7, <1>8

LEMMA IndexIsOrdered ==
    ASSUME NEW rows \in SUBSET Rows, IsFiniteSet(rows), NEW rank, NEW s \in Ranked(rank, rows)
    PROVE  s \in Seq(Rows) /\ Len(s) = Cardinality(rows) /\ Entries(s) = rows
<1>1. Cardinality(rows) \in Nat
    BY FS_CardinalityType
<1>2. s \in [1 .. Cardinality(rows) -> rows] /\ Entries(s) = rows
    BY DEF Ranked
<1>3. s \in [1 .. Cardinality(rows) -> Rows]
    BY <1>2
<1>4. s \in Seq(Rows)
    BY <1>1, <1>3, SeqDef
<1>5. DOMAIN s = 1 .. Len(s) /\ Len(s) \in Nat
    BY <1>4, LenProperties
<1>6. 1 .. Len(s) = 1 .. Cardinality(rows)
    BY <1>2, <1>5
<1> QED
    BY <1>1, <1>2, <1>4, <1>5, <1>6

Again(t) == [t EXCEPT !.rebuilt = TRUE, !.processed = 0, !.want = t.limit]
AfterScan(t) == [NoAnswer EXCEPT !.status = t.scanned, !.limit = t.limit, !.rebuilt = TRUE]

LEMMA PublishSteps ==
    ASSUME CallsOK, IndexOK, NEW p \in Clients, Publish(p)
    PROVE  /\ \E place, t, a : StepsTo(p, place, t, a) /\ Closer(p, place, t)
           /\ IndexOK'
           /\ index'.state = task[p].scanned
           /\ Entries(index'.rows) = task[p].rows
           /\ \A i, j \in DOMAIN index'.rows : index'.rows[i] = index'.rows[j] => i = j
           /\ \/ /\ task[p].op = "recall" /\ task[p].scanned # "invalid"
                 /\ Goes(p, "searching", Again(task[p]), answer[p])
              \/ /\ task[p].op # "recall" \/ task[p].scanned = "invalid"
                 /\ Goes(p, "idle", NoTask, AfterScan(task[p]))
<1> DEFINE t == task[p]
           again == Again(t)
<1>1. /\ pc[p] = "publishing" /\ TaskOK(t) /\ PlaceOK("publishing", t) /\ UNCHANGED owners
      /\ pc[p] \notin Gated /\ t.limit \in Nat
    BY KnownOf, TaskNumbers DEF Publish, Gated
<1>2. RecallOK(t) /\ RebuildOK(t) /\ t.shown = Absent
    BY <1>1 DEF PlaceOK, Rebuilding, Gated
<1>3. PICK rank \in Rankings : \E rows \in Ranked(rank, t.rows) :
            index' = [state |-> t.scanned, rows |-> rows]
    BY DEF Publish
<1>4. PICK rows \in Ranked(rank, t.rows) : index' = [state |-> t.scanned, rows |-> rows]
    BY <1>3
<1>5. /\ t.rows \in SUBSET Rows /\ IsFiniteSet(t.rows) /\ Cardinality(t.rows) <= Len(Scan)
      /\ t.scanned = "invalid" => t.rows = {}
      /\ Indexed(t.rows)
      /\ t.scanned \in {"resolved", "degraded", "invalid"}
    BY <1>1, <1>2 DEF TaskOK, RebuildOK
<1>6. rows \in Seq(Rows) /\ Len(rows) = Cardinality(t.rows) /\ Entries(rows) = t.rows
    BY <1>4, <1>5, IndexIsOrdered
<1>7. t.scanned = "invalid" => rows = <<>>
    BY <1>5, <1>6, FS_EmptySet, EmptySeq
<1>8. IndexOK'
    BY <1>4, <1>5, <1>6, <1>7 DEF IndexOK
<1>9. \A i, j \in DOMAIN rows : rows[i] = rows[j] => i = j
    <2>1. \A i, j \in DOMAIN rows : i < j => rank[rows[i].file] < rank[rows[j].file]
        BY DEF Ranked
    <2>2. DOMAIN rows = 1 .. Len(rows) /\ Len(rows) \in Nat
        BY <1>6, LenProperties
    <2>3. \A r \in t.rows : rank[r.file] \in Int
        BY <1>2, ScanAssumption DEF RebuildOK, Indexed
    <2>4. \A i \in DOMAIN rows : rows[i] \in t.rows
        BY <1>6 DEF Entries
    <2>5. ASSUME NEW i \in DOMAIN rows, NEW j \in DOMAIN rows, i < j PROVE rows[i] # rows[j]
        BY <2>1, <2>3, <2>4, <2>5
    <2>6. \A i, j \in DOMAIN rows : i # j => i < j \/ j < i
        BY <2>2
    <2> QED
        BY <2>5, <2>6
<1>10. /\ index'.state = t.scanned /\ Entries(index'.rows) = t.rows
       /\ \A i, j \in DOMAIN index'.rows : index'.rows[i] = index'.rows[j] => i = j
    BY <1>4, <1>6, <1>9
<1>11. CASE t.op = "recall" /\ t.scanned # "invalid"
    <2>1. Proceed(p, "searching", again)
        BY <1>11 DEF Publish, AfterRebuild, Again
    <2> DEFINE n == t.limit
    <2>2. n \in Nat /\ n > 0 /\ Len(t.hits) < n
        BY <1>1, <1>2, <1>11 DEF RecallOK
    <2>3. again = [t EXCEPT !.rebuilt = TRUE, !.processed = 0, !.want = n]
        BY DEF Again
    <2> HIDE DEF n, t
    <2>4. /\ TaskOK(again) /\ again.want = n /\ again.op = t.op /\ again.limit = t.limit
          /\ again.hits = t.hits /\ again.shown = t.shown /\ again.rebuilt = TRUE
        <3> DEFINE yes == TRUE
        <3>1. yes \in BOOLEAN
            OBVIOUS
        <3>2. again = [t EXCEPT !.rebuilt = yes, !.processed = 0, !.want = n]
            BY <2>3
        <3> HIDE DEF yes, again
        <3>3. /\ TaskOK(again) /\ again.want = n /\ again.op = t.op /\ again.limit = t.limit
              /\ again.hits = t.hits /\ again.shown = t.shown
            BY <1>1, <2>2, <3>1, <3>2 DEF TaskOK
        <3>4. again.rebuilt = yes
            BY <1>1, <3>2 DEF TaskOK
        <3> QED
            BY <3>3, <3>4 DEF yes
    <2> HIDE DEF again
    <2>5. n = t.limit
        BY DEF n
    <2>6. PlaceOK("searching", again)
        BY <1>1, <1>2, <1>11, <2>2, <2>4, <2>5, ScanLength
           DEF PlaceOK, RecallOK, AskedOK, Asked, Seen, Rebuilding, Gated
    <2>7. StepsTo(p, "searching", again, answer[p])
        BY <1>1, <2>1, <2>4, <2>6, ProceedSteps DEF Places, Gated
    <2>8. Closer(p, "searching", again)
        <3> DEFINE x == 2 * Len(Scan)
                   y == 2 * Len(Scan) + 2
        <3>1. x \in Nat /\ y \in Nat /\ y = (x + 1) + 1
            BY ScanLength
        <3>2. Pages(again) = x * Page
            <4>1. 2 * Len(Scan) + again.limit - again.want = x
                BY <2>2, <2>4, <2>5, ScanLength
            <4> QED
                BY <4>1 DEF Pages
        <3>3. AllPages = y * Page
            BY DEF AllPages
        <3> HIDE DEF x, y
        <3>4. x + 1 \in Nat /\ x < x + 1 /\ x + 1 < y
            BY <3>1
        <3>5. x * Page \in Nat /\ x * Page + Page <= (x + 1) * Page /\ (x + 1) * Page + Page <= y * Page
              /\ (x + 1) * Page \in Nat /\ y * Page \in Nat
            BY <3>1, <3>4, MorePages, ScanLength
        <3>6. Measure("searching", again) = Pages(again) + Page - 1
            <4>1. Rebuild(again) = 0 /\ Pages(again) \in Nat
                BY <2>4, <3>2, <3>5 DEF Rebuild
            <4> QED
                BY <4>1, ScanLength DEF Measure
        <3>7. Measure(pc[p], task[p]) = AllPages + 1
            BY <1>1 DEF Measure
        <3> QED
            BY <3>2, <3>3, <3>5, <3>6, <3>7, ScanLength DEF Closer
    <2>9. Goes(p, "searching", again, answer[p])
        BY <2>7 DEF StepsTo
    <2> QED
        BY <1>8, <1>10, <1>11, <2>7, <2>8, <2>9 DEF t, again
<1>12. CASE t.op # "recall" \/ t.scanned = "invalid"
    <2>1. Return(p, AfterScan(t))
        BY <1>12 DEF Publish, AfterRebuild, AfterScan
    <2>2. AnswerOK(AfterScan(t))
        BY <1>1, <1>5, NothingAsked DEF AfterScan, AnswerOK, NoAnswer, Statuses
    <2>3. owners' = owners \ {p}
        BY <1>1 DEF CallsOK, ClientOK
    <2>4. StepsTo(p, "idle", NoTask, AfterScan(t))
        BY <2>1, <2>2, <2>3, ReturnSteps
    <2>5. Closer(p, "idle", NoTask)
        <3>1. Measure(pc[p], task[p]) = AllPages + 1
            BY <1>1 DEF Measure
        <3> QED
            BY <3>1, NoMoreToDo, ScanLength DEF Closer
    <2>6. Goes(p, "idle", NoTask, AfterScan(t))
        BY <2>1, Returns
    <2> QED
        BY <1>8, <1>10, <1>12, <2>4, <2>5, <2>6
<1> QED
    BY <1>11, <1>12

LEMMA PublishFailsSteps ==
    ASSUME CallsOK, NEW p \in Clients, PublishFails(p)
    PROVE  StepsTo(p, "idle", NoTask,
                   [NoAnswer EXCEPT !.status = "degraded", !.limit = task[p].limit])
<1> DEFINE n == task[p].limit
           a == [NoAnswer EXCEPT !.status = "degraded", !.limit = n]
<1>1. n \in Nat /\ pc[p] \notin Gated
    BY KnownOf, TaskNumbers DEF PublishFails, Gated
<1>2. Return(p, a) /\ UNCHANGED owners
    BY DEF PublishFails
<1>3. owners' = owners \ {p}
    BY <1>1, <1>2 DEF CallsOK, ClientOK
<1> HIDE DEF n
<1>4. AnswerOK(a)
    BY <1>1, NothingAsked DEF AnswerOK, NoAnswer, Statuses
<1> HIDE DEF a
<1>5. StepsTo(p, "idle", NoTask, a)
    BY <1>2, <1>3, <1>4, ReturnSteps
<1> QED
    BY <1>5 DEF a, n

\* Going on from a task between two candidates.
LEMMA GoOnSteps ==
    ASSUME CallsOK, NEW p \in Clients, NEW t, Between(t), GoOn(p, t), UNCHANGED owners,
           pc[p] \notin Gated, Measure(pc[p], task[p]) \in Int,
           Rebuild(t) + Pages(t) + Ahead(t) < Measure(pc[p], task[p])
    PROVE  \E place, u, a : /\ GoesOn(p, t, place, u, a)
                            /\ StepsTo(p, place, u, a) /\ Closer(p, place, u)
<1>1. PICK place, u, a : GoesOn(p, t, place, u, a)
    BY HowItGoesOn
<1>2. /\ place \in Places \ Gated /\ TaskOK(u) /\ PlaceOK(place, u) /\ AnswerOK(a)
      /\ Measure(place, u) \in Int /\ 0 <= Measure(place, u)
      /\ Measure(place, u) <= Rebuild(t) + Pages(t) + Ahead(t)
      /\ Pages(t) \in Nat /\ Ahead(t) \in Nat /\ Rebuild(t) \in Nat
    BY <1>1, GoingOnIsOK, TaskNumbers DEF Between
<1>3. StepsTo(p, place, u, a)
    BY <1>1, <1>2, OwnersStay DEF StepsTo, GoesOn
<1> QED
    BY <1>1, <1>2, <1>3 DEF Closer

Searched(t) ==
    [t EXCEPT !.candidates = First(index.rows, t.want),
              !.degraded = @ \/ index.state = "degraded"]

LEMMA SearchSteps ==
    ASSUME CallsOK, IndexOK, NEW p \in Clients, Search(p)
    PROVE  \E place, u, a :
               /\ StepsTo(p, place, u, a) /\ Closer(p, place, u)
               /\ \/ /\ place = "idle" /\ u = NoTask
                     /\ a.hits = <<>> /\ a.shown = Absent /\ ~a.rebuilt
                     /\ index.state \in {"missing", "invalid"}
                     /\ index.state = "missing" => task[p].rebuilt
                  \/ /\ place = "scanning" /\ u = Rescan(task[p]) /\ a = answer[p]
                     /\ index.state = "missing"
                  \/ /\ index.state \in {"degraded", "resolved"}
                     /\ Between(Searched(task[p]))
                     /\ GoesOn(p, Searched(task[p]), place, u, a)
<1> DEFINE t == task[p]
           n == t.limit
           r == Rescan(t)
           f == Searched(t)
<1>1. /\ pc[p] = "searching" /\ TaskOK(t) /\ PlaceOK("searching", t) /\ UNCHANGED owners
      /\ pc[p] \notin Gated /\ t.limit \in Nat /\ t.want \in Nat /\ Rebuild(t) \in Nat
    BY KnownOf, TaskNumbers DEF Search, Look, Gated
<1>2. RecallOK(t) /\ AskedOK(t) /\ t.shown = Absent
    BY <1>1 DEF PlaceOK, Asked, Gated
<1>3. Pages(t) \in Nat
    <2> DEFINE x == 2 * Len(Scan) + t.limit - t.want
    <2>1. x \in Nat
        BY <1>1, <1>2, ScanLength DEF AskedOK
    <2> HIDE DEF x
    <2>2. x * Page \in Nat
        BY <2>1, ScanLength
    <2> QED
        BY <2>2 DEF x, Pages
<1>4. Measure(pc[p], task[p]) = Rebuild(t) + Pages(t) + Page - 1
    BY <1>1 DEF Measure
<1>5. index.state \in {"missing", "invalid", "degraded", "resolved"}
    BY DEF IndexOK
<1>6. ASSUME NEW status \in {"degraded", "invalid"},
             Return(p, [NoAnswer EXCEPT !.status = status, !.limit = n])
      PROVE  \E place, u, a :
                 /\ StepsTo(p, place, u, a) /\ Closer(p, place, u)
                 /\ place = "idle" /\ u = NoTask
                 /\ a.hits = <<>> /\ a.shown = Absent /\ ~a.rebuilt
    <2> DEFINE a == [NoAnswer EXCEPT !.status = status, !.limit = n]
    <2>1. n \in Nat
        BY <1>1
    <2>2. owners' = owners \ {p}
        BY <1>1 DEF CallsOK, ClientOK
    <2> HIDE DEF n
    <2>3. AnswerOK(a) /\ a.hits = <<>> /\ a.shown = Absent /\ ~a.rebuilt
        BY <2>1, NothingAsked DEF AnswerOK, NoAnswer, Statuses
    <2>4. Return(p, a)
        BY <1>6
    <2> HIDE DEF a
    <2>5. StepsTo(p, "idle", NoTask, a)
        BY <2>2, <2>3, <2>4, ReturnSteps
    <2>6. Closer(p, "idle", NoTask)
        BY <1>1, <1>3, <1>4, NoMoreToDo, ScanLength DEF Closer
    <2> QED
        BY <2>3, <2>5, <2>6
<1>7. CASE index.state = "missing" /\ t.rebuilt
    <2>1. Return(p, [NoAnswer EXCEPT !.status = "degraded", !.limit = n])
        BY <1>7 DEF Search
    <2> QED
        BY <1>6, <1>7, <2>1
<1>8. CASE index.state = "invalid"
    <2>1. Return(p, [NoAnswer EXCEPT !.status = "invalid", !.limit = n])
        BY <1>8 DEF Search
    <2> QED
        BY <1>6, <1>8, <2>1
<1>9. CASE index.state = "missing" /\ ~t.rebuilt
    <2>1. Proceed(p, "scanning", r)
        BY <1>9 DEF Search
    <2> HIDE DEF t, n
    <2>2. /\ TaskOK(r) /\ r.op = t.op /\ r.limit = t.limit /\ r.hits = t.hits
          /\ r.shown = t.shown /\ r.rebuilt = t.rebuilt /\ r.rows = {} /\ r.at = 1
          /\ r.scanned = "resolved"
        BY <1>1 DEF TaskOK, Rescan
    <2> HIDE DEF r
    <2>3. IsFiniteSet({}) /\ Cardinality({}) = 0
        BY FS_EmptySet
    <2>4. PlaceOK("scanning", r)
        BY <1>1, <1>2, <1>9, <2>2, <2>3, ScanLength
           DEF PlaceOK, RecallOK, AskedOK, RebuildOK, ScanOK, Indexed, Asked, Seen, Rebuilding, Gated
    <2>5. StepsTo(p, "scanning", r, answer[p])
        BY <1>1, <2>1, <2>2, <2>4, ProceedSteps DEF Places, Gated
    <2>6. Closer(p, "scanning", r)
        <3>1. Measure("scanning", r) = AllPages + Len(Scan) + 3 - 1
            BY <2>2 DEF Measure
        <3>2. Rebuild(t) = AllPages + Len(Scan) + 3
            BY <1>9 DEF Rebuild
        <3>3. Page >= 1
            BY ScanLength
        <3> QED
            BY <1>3, <1>4, <3>1, <3>2, <3>3, ScanLength DEF Closer
    <2> QED
        BY <1>9, <2>5, <2>6 DEF t, r
<1>10. CASE index.state \in {"degraded", "resolved"}
    <2>1. GoOn(p, f)
        BY <1>10 DEF Search, Searched
    <2> DEFINE c == First(index.rows, t.want)
               d == t.degraded \/ index.state = "degraded"
    <2>2. /\ c \in Seq(Rows) /\ Len(c) <= Len(index.rows) /\ Len(c) <= t.want
          /\ Entries(c) \subseteq Entries(index.rows) /\ Len(c) \in Nat
        <3>1. index.rows \in Seq(Rows)
            BY DEF IndexOK
        <3>2. Len(index.rows) \in Nat
            BY <3>1, LenProperties
        <3>3. /\ c \in Seq(Rows) /\ Entries(c) \subseteq Entries(index.rows)
              /\ Len(c) = IF t.want < Len(index.rows) THEN t.want ELSE Len(index.rows)
            BY <1>1, <3>1, FirstOf
        <3> QED
            BY <1>1, <3>2, <3>3
    <2>3. d \in BOOLEAN
        BY <1>1 DEF TaskOK
    <2>4. f = [t EXCEPT !.candidates = c, !.degraded = d]
        BY DEF Searched
    <2> HIDE DEF c, d, t, n, f
    <2>5. /\ TaskOK(f) /\ f.op = t.op /\ f.limit = t.limit /\ f.want = t.want
          /\ f.hits = t.hits /\ f.shown = t.shown /\ f.rebuilt = t.rebuilt
          /\ f.candidates = c
        BY <1>1, <2>2, <2>3, <2>4 DEF TaskOK
    <2>6. Len(f.hits) \in Nat /\ f.processed \in Nat /\ Len(index.rows) \in Nat
        BY <2>5, TaskNumbers, LenProperties DEF IndexOK
    <2>7. Between(f)
        BY <1>1, <1>2, <2>2, <2>5, <2>6, ScanLength
           DEF Between, AskedOK, RecallOK, IndexOK, Indexed
    <2>8. Rebuild(f) = Rebuild(t) /\ Pages(f) = Pages(t)
        BY <2>5 DEF Rebuild, Pages
    <2>9. Ahead(f) \in Nat /\ Ahead(f) <= 3 * Len(Scan)
        BY <2>2, <2>5, <2>6, ScanLength DEF Ahead, Candidates, IndexOK
    <2>10. /\ Rebuild(f) + Pages(f) + Ahead(f) < Measure(pc[p], task[p])
           /\ Measure(pc[p], task[p]) \in Int
        BY <1>1, <1>3, <1>4, <2>8, <2>9, ScanLength
    <2>11. PICK place, u, a : GoesOn(p, f, place, u, a) /\ StepsTo(p, place, u, a) /\ Closer(p, place, u)
        BY <1>1, <2>1, <2>7, <2>10, GoOnSteps
    <2> QED
        BY <1>10, <2>7, <2>11 DEF t, f
<1> QED
    BY <1>5, <1>7, <1>8, <1>9, <1>10

\* The candidate a call looks at, and what it takes from it.
Here(t) == t.candidates[t.processed + 1]

Kept(t) ==
    [t EXCEPT !.hits = Append(@, Here(t)), !.processed = @ + 1,
              !.record = Absent, !.successors = {}]
Skipped(t) ==
    [t EXCEPT !.degraded = TRUE, !.processed = @ + 1, !.record = Absent, !.successors = {}]
Loaded(t) ==
    [t EXCEPT !.record = tree[Governing(Here(t).file)],
              !.successors = Successors(tree, Governing(Here(t).file))]

\* What is known while a call looks at a candidate.
LEMMA HereKnown ==
    ASSUME NEW t, TaskOK(t), NEW place \in Seen, PlaceOK(place, t)
    PROVE  /\ Here(t) \in Rows /\ Here(t).file \in Entries(Scan)
           /\ Here(t) \in Entries(t.candidates)
           /\ t.processed \in Nat /\ Len(t.candidates) \in Nat
           /\ t.processed < Len(t.candidates)
           /\ RecallOK(t) /\ AskedOK(t) /\ SeenOK(t) /\ t.shown = Absent
           /\ Rebuild(t) \in Nat /\ Pages(t) \in Nat /\ Candidates(t) \in Nat
           /\ Candidates(t) >= 3
           /\ Measure(place, t) \in Int /\ Measure(place, t) >= Rebuild(t) + Pages(t) + Candidates(t) - 2
<1>1. /\ t.processed \in Nat /\ Len(t.candidates) \in Nat /\ t.candidates \in Seq(Rows)
      /\ t.limit \in Nat /\ t.want \in Nat /\ Rebuild(t) \in Nat
    BY TaskNumbers
<1>2. RecallOK(t) /\ AskedOK(t) /\ SeenOK(t) /\ t.shown = Absent
    BY DEF PlaceOK, Asked, Seen, Gated
<1>3. t.processed < Len(t.candidates) /\ t.processed + 1 \in 1 .. Len(t.candidates)
    BY <1>1, <1>2 DEF SeenOK
<1>4. Here(t) \in Rows /\ Here(t) \in Entries(t.candidates)
    BY <1>1, <1>3, EntriesBelong DEF Here
<1>5. Here(t).file \in Entries(Scan)
    BY <1>2, <1>4 DEF SeenOK, Indexed
<1>6. Candidates(t) \in Nat /\ Candidates(t) >= 3
    BY <1>1, <1>3 DEF Candidates
<1>7. Pages(t) \in Nat
    <2> DEFINE x == 2 * Len(Scan) + t.limit - t.want
    <2>1. x \in Nat
        BY <1>1, <1>2, ScanLength DEF AskedOK
    <2> HIDE DEF x
    <2>2. x * Page \in Nat
        BY <2>1, ScanLength
    <2> QED
        BY <2>2 DEF x, Pages
<1>8. \/ Measure(place, t) = Rebuild(t) + Pages(t) + Candidates(t)
      \/ Measure(place, t) = Rebuild(t) + Pages(t) + Candidates(t) - 1
      \/ Measure(place, t) = Rebuild(t) + Pages(t) + Candidates(t) - 2
    BY DEF Measure, Seen
<1>9. Measure(place, t) \in Int /\ Measure(place, t) >= Rebuild(t) + Pages(t) + Candidates(t) - 2
    BY <1>1, <1>6, <1>7, <1>8
<1> QED
    BY <1>1, <1>2, <1>3, <1>4, <1>5, <1>6, <1>7, <1>9

\* The candidate is through.
LEMMA Through ==
    ASSUME NEW t, TaskOK(t), NEW place \in Seen, PlaceOK(place, t), NEW u \in {Kept(t), Skipped(t)}
    PROVE  /\ Between(u)
           /\ Rebuild(u) + Pages(u) + Ahead(u) < Measure(place, t)
           /\ u.processed = t.processed + 1 /\ u.candidates = t.candidates
           /\ u.limit = t.limit /\ u.want = t.want /\ u.rebuilt = t.rebuilt /\ u.op = t.op
           /\ u.shown = t.shown
           /\ u.hits = IF u = Kept(t) THEN Append(t.hits, Here(t)) ELSE t.hits
           /\ u.degraded = IF u = Kept(t) THEN t.degraded ELSE TRUE
<1>1. /\ Here(t) \in Rows
      /\ t.processed \in Nat /\ Len(t.candidates) \in Nat
      /\ t.processed < Len(t.candidates)
      /\ RecallOK(t) /\ AskedOK(t) /\ SeenOK(t) /\ t.shown = Absent
      /\ Rebuild(t) \in Nat /\ Pages(t) \in Nat /\ Candidates(t) \in Nat
      /\ Measure(place, t) \in Int /\ Measure(place, t) >= Rebuild(t) + Pages(t) + Candidates(t) - 2
      /\ t.limit \in Nat /\ t.want \in Nat /\ Len(t.hits) \in Nat /\ t.hits \in Seq(Rows)
    BY HereKnown, TaskNumbers
<1>2. t.limit > 0 /\ Len(t.hits) < t.limit
    BY <1>1 DEF RecallOK, AskedOK
<1> DEFINE hits == IF u = Kept(t) THEN Append(t.hits, Here(t)) ELSE t.hits
           degraded == IF u = Kept(t) THEN t.degraded ELSE TRUE
           n == t.processed + 1
<1>3. hits \in Seq(Rows) /\ Len(hits) <= t.limit /\ Len(hits) \in Nat
    <2>1. Append(t.hits, Here(t)) \in Seq(Rows) /\ Len(Append(t.hits, Here(t))) = Len(t.hits) + 1
        BY <1>1, OneMore
    <2>2. CASE u = Kept(t)
        <3>1. hits = Append(t.hits, Here(t))
            BY <2>2
        <3>2. Len(t.hits) + 1 \in Nat /\ Len(t.hits) + 1 <= t.limit
            BY <1>1, <1>2
        <3> QED
            BY <2>1, <3>1, <3>2
    <2>3. CASE u # Kept(t)
        <3>1. hits = t.hits
            BY <2>3
        <3>2. Len(t.hits) <= t.limit
            BY <1>1, <1>2
        <3> QED
            BY <1>1, <3>1, <3>2
    <2> QED
        BY <2>2, <2>3
<1>4. degraded \in BOOLEAN /\ n \in Nat
    <2>1. t.degraded \in BOOLEAN
        BY DEF TaskOK
    <2>2. n \in Nat
        BY <1>1
    <2>3. CASE u = Kept(t)
        <3>1. degraded = t.degraded
            BY <2>3
        <3> QED
            BY <2>1, <2>2, <3>1
    <2>4. CASE u # Kept(t)
        <3>1. degraded = TRUE
            BY <2>4
        <3> QED
            BY <2>2, <3>1
    <2> QED
        BY <2>3, <2>4
<1>5. u = [t EXCEPT !.hits = hits, !.degraded = degraded, !.processed = n,
                    !.record = Absent, !.successors = {}]
    <2>1. CASE u = Kept(t)
        <3>1. t.degraded = degraded
            BY <2>1
        <3> QED
            BY <2>1, <3>1 DEF Kept, TaskOK
    <2>2. CASE u # Kept(t)
        <3>1. u = Skipped(t) /\ hits = t.hits /\ degraded = TRUE
            BY <2>2
        <3> QED
            BY <3>1 DEF Skipped, TaskOK
    <2> QED
        BY <2>1, <2>2
<1> HIDE DEF hits, degraded, n
<1>6. /\ TaskOK(u) /\ u.hits = hits /\ u.degraded = degraded /\ u.processed = n
      /\ u.candidates = t.candidates /\ u.limit = t.limit /\ u.want = t.want
      /\ u.rebuilt = t.rebuilt /\ u.op = t.op /\ u.shown = t.shown
    BY <1>3, <1>4, <1>5, TreeAssumption DEF TaskOK
<1>7. Between(u)
    BY <1>1, <1>2, <1>3, <1>6 DEF Between, AskedOK, SeenOK
<1>8. Rebuild(u) = Rebuild(t) /\ Pages(u) = Pages(t)
    BY <1>6 DEF Rebuild, Pages
<1>9. Ahead(u) = Candidates(t) - 3
    <2>1. u.processed = t.processed + 1
        BY <1>6 DEF n
    <2>3. Ahead(u) = IF t.processed + 1 < Len(t.candidates)
                       THEN 3 * (Len(t.candidates) - (t.processed + 1)) ELSE 0
        BY <1>6, <2>1 DEF Ahead, Candidates
    <2>4. Candidates(t) = 3 * (Len(t.candidates) - t.processed)
        BY DEF Candidates
    <2> DEFINE l == Len(t.candidates)
               i == t.processed
    <2>5. l \in Nat /\ i \in Nat /\ i < l
        BY <1>1
    <2>6. Ahead(u) = (IF i + 1 < l THEN 3 * (l - (i + 1)) ELSE 0) /\ Candidates(t) = 3 * (l - i)
        BY <2>3, <2>4
    <2> HIDE DEF l, i
    <2> QED
        BY <2>5, <2>6
<1> QED
    BY <1>1, <1>6, <1>7, <1>8, <1>9 DEF hits, degraded, n

LEMMA LoadedOK ==
    ASSUME tree \in Trees, NEW t, TaskOK(t), NEW place \in Seen, PlaceOK(place, t),
           Loads(tree, Governing(Here(t).file))
    PROVE  /\ TaskOK(Loaded(t)) /\ PlaceOK("deciding", Loaded(t))
           /\ Loaded(t).record = tree[Governing(Here(t).file)]
           /\ Loaded(t).successors = Successors(tree, Governing(Here(t).file))
           /\ Here(Loaded(t)) = Here(t)
           /\ Loaded(t).hits = t.hits /\ Loaded(t).shown = t.shown
           /\ Loaded(t).candidates = t.candidates /\ Loaded(t).processed = t.processed
           /\ Loaded(t).want = t.want /\ Loaded(t).limit = t.limit
           /\ Loaded(t).rebuilt = t.rebuilt /\ Loaded(t).degraded = t.degraded
           /\ Measure("deciding", Loaded(t)) = Measure("loading", t) - 1
<1> DEFINE a == Governing(Here(t).file)
           c == tree[a]
           m == Successors(tree, a)
           u == Loaded(t)
<1>1. c \in Contents /\ m \in SUBSET Artifacts
    BY ReadsContent DEF Successors, Memories, Trees
<1>2. u = [t EXCEPT !.record = c, !.successors = m]
    BY DEF Loaded
<1>3. /\ RecallOK(t) /\ AskedOK(t) /\ SeenOK(t) /\ t.shown = Absent
      /\ Rebuild(t) \in Nat /\ Pages(t) \in Nat /\ Candidates(t) \in Nat
    BY HereKnown
<1> HIDE DEF c, m, u
<1>4. /\ TaskOK(u) /\ u.record = c /\ u.successors = m /\ u.candidates = t.candidates
      /\ u.processed = t.processed /\ u.hits = t.hits /\ u.shown = t.shown
      /\ u.want = t.want /\ u.limit = t.limit /\ u.rebuilt = t.rebuilt /\ u.op = t.op
      /\ u.degraded = t.degraded
    BY <1>1, <1>2 DEF TaskOK
<1>5. PlaceOK("deciding", u)
    BY <1>3, <1>4 DEF PlaceOK, RecallOK, AskedOK, SeenOK, Asked, Seen, Rebuilding, Gated
<1>6. Here(u) = Here(t)
    BY <1>4 DEF Here
<1>7. Measure("deciding", u) = Measure("loading", t) - 1
    <2>1. Measure("deciding", u) = Rebuild(u) + Pages(u) + Candidates(u) - 1
        BY DEF Measure
    <2>2. Measure("loading", t) = Rebuild(t) + Pages(t) + Candidates(t)
        BY DEF Measure
    <2>3. Rebuild(u) = Rebuild(t) /\ Pages(u) = Pages(t) /\ Candidates(u) = Candidates(t)
        BY <1>4 DEF Rebuild, Pages, Candidates
    <2> QED
        BY <1>3, <2>1, <2>2, <2>3
<1> QED
    BY <1>4, <1>5, <1>6, <1>7 DEF u, c, m

\* What a step at a candidate does.
CandidateLoads(a) == Loads(tree, a) /\ (a.kind = "memory" => MemoriesLoad(tree, a.class))

Looks(p) ==
    LET t == task[p] a == Governing(Here(t).file) IN
    \/ /\ pc[p] = "loading" /\ CandidateLoads(a)
       /\ Goes(p, "deciding", Loaded(t), answer[p])
    \/ /\ pc[p] = "deciding" /\ Authorized(tree, a)
       /\ Goes(p, "confirming", t, answer[p])
    \/ /\ pc[p] = "confirming" /\ Confirmed(p)
       /\ \E place, u, b : GoesOn(p, Kept(t), place, u, b)
    \/ /\ \/ pc[p] = "loading" /\ ~CandidateLoads(a)
          \/ pc[p] = "deciding" /\ ~Authorized(tree, a)
          \/ pc[p] = "confirming" /\ ~Confirmed(p)
       /\ \E place, u, b : GoesOn(p, Skipped(t), place, u, b)

LEMMA LookSteps ==
    ASSUME CallsOK, tree \in Trees, NEW p \in Clients,
           LoadCandidate(p) \/ DecideCandidate(p) \/ ConfirmCandidate(p)
    PROVE  /\ \E place, u, a : StepsTo(p, place, u, a) /\ Closer(p, place, u)
           /\ Looks(p)
<1> DEFINE t == task[p]
           a == Governing(Here(t).file)
<1>1. /\ pc[p] \in Seen /\ TaskOK(t) /\ PlaceOK(pc[p], t) /\ UNCHANGED owners
      /\ pc[p] \notin Gated
    BY KnownOf DEF LoadCandidate, DecideCandidate, ConfirmCandidate, Look, Seen, Gated
<1>2. Candidate(p) = Here(t)
    BY DEF Candidate, Here
<1>3. /\ Rebuild(t) \in Nat /\ Pages(t) \in Nat /\ Candidates(t) \in Nat /\ Candidates(t) >= 3
      /\ Measure(pc[p], t) \in Int
      /\ RecallOK(t) /\ AskedOK(t) /\ SeenOK(t) /\ t.shown = Absent
    BY <1>1, HereKnown
<1>4. ASSUME NEW u \in {Kept(t), Skipped(t)}, GoOn(p, u)
      PROVE  \E place, w, b : /\ GoesOn(p, u, place, w, b)
                              /\ StepsTo(p, place, w, b) /\ Closer(p, place, w)
    <2>1. Between(u) /\ Rebuild(u) + Pages(u) + Ahead(u) < Measure(pc[p], t)
        BY <1>1, Through
    <2> QED
        BY <1>1, <1>3, <1>4, <2>1, GoOnSteps
<1>5. Withhold(p) => GoOn(p, Skipped(t))
    BY DEF Withhold, Skipped
<1>6. Hit(p) => GoOn(p, Kept(t))
    BY <1>2 DEF Hit, Kept
<1>7. CASE LoadCandidate(p)
    <2>1. pc[p] = "loading"
        BY <1>7 DEF LoadCandidate
    <2>2. CASE CandidateLoads(a)
        <3>1. Proceed(p, "deciding", Loaded(t))
            BY <1>2, <1>7, <2>2 DEF LoadCandidate, CandidateLoads, Loaded
        <3>2. /\ TaskOK(Loaded(t)) /\ PlaceOK("deciding", Loaded(t))
              /\ Measure("deciding", Loaded(t)) = Measure("loading", t) - 1
            BY <1>1, <2>2, LoadedOK DEF CandidateLoads
        <3>3. StepsTo(p, "deciding", Loaded(t), answer[p])
            BY <1>1, <3>1, <3>2, ProceedSteps DEF Places, Gated
        <3>4. Closer(p, "deciding", Loaded(t))
            <4>1. Measure("loading", t) = Rebuild(t) + Pages(t) + Candidates(t)
                BY DEF Measure
            <4> QED
                BY <1>3, <2>1, <3>2, <4>1 DEF Closer
        <3> QED
            BY <2>1, <2>2, <3>3, <3>4 DEF Looks, StepsTo
    <2>3. CASE ~CandidateLoads(a)
        <3>1. GoOn(p, Skipped(t))
            BY <1>2, <1>5, <1>7, <2>3 DEF LoadCandidate, CandidateLoads
        <3> QED
            BY <1>4, <2>1, <2>3, <3>1 DEF Looks
    <2> QED
        BY <2>2, <2>3
<1>8. CASE DecideCandidate(p)
    <2>1. pc[p] = "deciding"
        BY <1>8 DEF DecideCandidate
    <2>2. CASE Authorized(tree, a)
        <3>1. Proceed(p, "confirming", t)
            BY <1>2, <1>8, <2>2 DEF DecideCandidate
        <3>2. PlaceOK("confirming", t)
            BY <1>1, <1>3 DEF PlaceOK, Asked, Seen, Rebuilding, Gated
        <3>3. StepsTo(p, "confirming", t, answer[p])
            BY <1>1, <3>1, <3>2, ProceedSteps DEF Places, Gated
        <3>4. Closer(p, "confirming", t)
            <4>1. /\ Measure("deciding", t) = Rebuild(t) + Pages(t) + Candidates(t) - 1
                  /\ Measure("confirming", t) = Rebuild(t) + Pages(t) + Candidates(t) - 2
                BY DEF Measure
            <4> QED
                BY <1>3, <2>1, <4>1 DEF Closer
        <3> QED
            BY <2>1, <2>2, <3>3, <3>4 DEF Looks, StepsTo
    <2>3. CASE ~Authorized(tree, a)
        <3>1. GoOn(p, Skipped(t))
            BY <1>2, <1>5, <1>8, <2>3 DEF DecideCandidate
        <3> QED
            BY <1>4, <2>1, <2>3, <3>1 DEF Looks
    <2> QED
        BY <2>2, <2>3
<1>9. CASE ConfirmCandidate(p)
    <2>1. pc[p] = "confirming"
        BY <1>9 DEF ConfirmCandidate
    <2>2. CASE Confirmed(p)
        <3>1. GoOn(p, Kept(t))
            BY <1>6, <1>9, <2>2 DEF ConfirmCandidate
        <3> QED
            BY <1>4, <2>1, <2>2, <3>1 DEF Looks
    <2>3. CASE ~Confirmed(p)
        <3>1. GoOn(p, Skipped(t))
            BY <1>5, <1>9, <2>3 DEF ConfirmCandidate
        <3> QED
            BY <1>4, <2>1, <2>3, <3>1 DEF Looks
    <2> QED
        BY <2>2, <2>3
<1> QED
    BY <1>7, <1>8, <1>9

-----------------------------------------------------------------------------
(* The steps of a view                                                     *)

Viewed(t) == [NoAnswer EXCEPT !.status = "view", !.shown = t.shown]

LEMMA ReturnViewSteps ==
    ASSUME CallsOK, NEW p \in Clients, pc[p] \in Gated \ {"verdict", "rendering"}, ReturnView(p)
    PROVE  StepsTo(p, "idle", NoTask, Viewed(task[p]))
<1> DEFINE w == task[p].shown
           a == [NoAnswer EXCEPT !.status = "view", !.shown = w]
<1>1. w \in Shown
    BY KnownOf DEF PlaceOK
<1>2. Return(p, a) /\ owners' = owners \ {p}
    BY DEF ReturnView, Gate!ReleaseExclusive
<1> HIDE DEF w
<1>3. AnswerOK(a)
    BY <1>1, NothingAsked DEF AnswerOK, NoAnswer, Statuses
<1> HIDE DEF a
<1>4. StepsTo(p, "idle", NoTask, a)
    BY <1>2, <1>3, ReturnSteps
<1> QED
    BY <1>4 DEF a, w, Viewed

\* What is known of a view's task.
LEMMA ViewDecided ==
    ASSUME NEW t, TaskOK(t), NEW place \in Gated \cup {"gate"}, PlaceOK(place, t), NEW d
    PROVE  LET u == [t EXCEPT !.decision = d] IN
           /\ TaskOK(u) /\ u.decision = d /\ u.shown = t.shown /\ u.view = t.view
           /\ u.hits = t.hits /\ u.op = "view" /\ u.view \in Views
    BY DEF PlaceOK, TaskOK

LEMMA ViewRendered ==
    ASSUME NEW t, TaskOK(t), NEW place \in Gated \cup {"gate"}, PlaceOK(place, t), NEW w \in Shown
    PROVE  LET u == [t EXCEPT !.shown = w] IN
           /\ TaskOK(u) /\ u.decision = t.decision /\ u.shown = w /\ u.view = t.view
           /\ u.hits = t.hits /\ u.op = "view" /\ u.view \in Views
    BY DEF PlaceOK, TaskOK

LEMMA ViewGoesOn ==
    ASSUME NEW t, TaskOK(t), NEW place \in Gated \cup {"gate"}, PlaceOK(place, t),
           NEW next \in Gated, next \in {"verdict", "rendering"} \/ t.shown \in Shown
    PROVE  PlaceOK(next, t)
    BY DEF PlaceOK, RecallOK, Asked, Seen, Rebuilding, Gated

\* What a step of a view does.
GoesIn(p) ==
    LET t == task[p] IN
    \/ /\ pc[p] = "gate" /\ TakeGate(p) /\ Goes(p, "verdict", t, answer[p])
    \/ /\ pc[p] = "verdict" /\ Look
       /\ Goes(p, "rendering", [t EXCEPT !.decision = Decide(tree, t.view)], answer[p])
    \/ /\ pc[p] = "rendering" /\ Look
       /\ Goes(p, "binding", [t EXCEPT !.shown = Render(tree, t.view)], answer[p])
    \/ /\ pc[p] = "binding" /\ Look
       /\ Goes(p, "comparing", [t EXCEPT !.decision = Bind(tree, t.view, t.decision, t.shown)],
               answer[p])
    \/ /\ pc[p] = "comparing" /\ UNCHANGED <<tree, index, cache, calls, edits, history>>
       /\ Goes(p, "text", t, answer[p])
    \/ /\ pc[p] = "text" /\ WriteText(p) /\ Goes(p, "authorization", t, answer[p])
    \/ /\ pc[p] \in {"comparing", "text", "authorization"}
       /\ WriteAuthorization(p) \/ UNCHANGED <<tree, index, cache, calls, edits, history>>
       /\ Goes(p, "idle", NoTask, Viewed(t))

LEMMA ViewSteps ==
    ASSUME CallsOK, tree \in Trees, NEW p \in Clients,
           \/ TakeGate(p) \/ DecideView(p) \/ RenderView(p) \/ BindView(p)
           \/ CompareCache(p) \/ WriteText(p) \/ WriteAuthorization(p) \/ CacheWriteFails(p)
    PROVE  /\ \E place, u, a : StepsTo(p, place, u, a) /\ Closer(p, place, u)
           /\ GoesIn(p)
<1> DEFINE t == task[p]
           v == t.view
<1>1. TaskOK(t) /\ PlaceOK(pc[p], t)
    BY KnownOf
<1>2. pc[p] \in Gated \cup {"gate"}
    BY DEF TakeGate, DecideView, RenderView, BindView, CompareCache, WriteText,
           WriteAuthorization, CacheWriteFails, Gated
<1>3. v \in Views
    BY <1>1, <1>2 DEF PlaceOK
<1>4. Render(tree, v) \in Shown
    BY <1>3, ViewShowable
<1>5. \A u : /\ Measure("gate", u) = 7 /\ Measure("verdict", u) = 6 /\ Measure("rendering", u) = 5
             /\ Measure("binding", u) = 4 /\ Measure("comparing", u) = 3
             /\ Measure("text", u) = 2 /\ Measure("authorization", u) = 1
             /\ Measure("idle", u) = 0
    BY DEF Measure
<1>6. CASE TakeGate(p)
    <2>1. Proceed(p, "verdict", t) /\ pc[p] = "gate" /\ owners' = {p} /\ owners = {}
        BY <1>6 DEF TakeGate, Gate!AcquireExclusive, Gate!Unlocked
    <2>2. PlaceOK("verdict", t)
        BY <1>1, <1>2, ViewGoesOn DEF Gated
    <2>3. StepsTo(p, "verdict", t, answer[p])
        BY <1>1, <2>1, <2>2, Proceeds, KnownOf DEF StepsTo, Places, Gated
    <2>4. Closer(p, "verdict", t)
        BY <1>5, <2>1 DEF Closer
    <2> QED
        BY <1>6, <2>1, <2>3, <2>4 DEF GoesIn, StepsTo
<1>7. CASE DecideView(p)
    <2> DEFINE d == Decide(tree, v)
               u == [t EXCEPT !.decision = d]
    <2>1. Proceed(p, "rendering", u) /\ pc[p] = "verdict" /\ Look /\ UNCHANGED owners
        BY <1>7 DEF DecideView, Look
    <2> HIDE DEF d
    <2>2. TaskOK(u) /\ u.view = t.view /\ u.op = "view" /\ u.hits = t.hits /\ u.shown = t.shown
        BY <1>1, <1>2, ViewDecided
    <2> HIDE DEF u
    <2>3. PlaceOK("rendering", u)
        BY <1>1, <1>3, <2>2 DEF PlaceOK, RecallOK, Asked, Seen, Rebuilding, Gated
    <2>4. StepsTo(p, "rendering", u, answer[p])
        BY <2>1, <2>2, <2>3, ProceedSteps DEF Places, Gated
    <2>5. Closer(p, "rendering", u)
        BY <1>5, <2>1 DEF Closer
    <2> QED
        BY <2>1, <2>4, <2>5 DEF GoesIn, StepsTo, u, d
<1>8. CASE RenderView(p)
    <2> DEFINE w == Render(tree, v)
               u == [t EXCEPT !.shown = w]
    <2>1. Proceed(p, "binding", u) /\ pc[p] = "rendering" /\ Look /\ UNCHANGED owners
        BY <1>8 DEF RenderView, Look
    <2>2. w \in Shown
        BY <1>4
    <2> HIDE DEF w
    <2>3. TaskOK(u) /\ u.view = t.view /\ u.op = "view" /\ u.hits = t.hits /\ u.shown = w
        BY <1>1, <1>2, <2>2, ViewRendered
    <2> HIDE DEF u
    <2>4. PlaceOK("binding", u)
        BY <1>1, <1>3, <2>2, <2>3 DEF PlaceOK, RecallOK, Asked, Seen, Rebuilding, Gated
    <2>5. StepsTo(p, "binding", u, answer[p])
        BY <2>1, <2>3, <2>4, ProceedSteps DEF Places, Gated
    <2>6. Closer(p, "binding", u)
        BY <1>5, <2>1 DEF Closer
    <2> QED
        BY <2>1, <2>5, <2>6 DEF GoesIn, StepsTo, u, w
<1>9. CASE BindView(p)
    <2> DEFINE d == Bind(tree, v, t.decision, t.shown)
               u == [t EXCEPT !.decision = d]
    <2>1. Proceed(p, "comparing", u) /\ pc[p] = "binding" /\ Look /\ UNCHANGED owners
        BY <1>9 DEF BindView, Look
    <2> HIDE DEF d
    <2>2. TaskOK(u) /\ u.view = t.view /\ u.op = "view" /\ u.hits = t.hits /\ u.shown = t.shown
        BY <1>1, <1>2, ViewDecided
    <2> HIDE DEF u
    <2>3. PlaceOK("comparing", u)
        BY <1>1, <1>3, <2>1, <2>2 DEF PlaceOK, RecallOK, Asked, Seen, Rebuilding, Gated
    <2>4. StepsTo(p, "comparing", u, answer[p])
        BY <2>1, <2>2, <2>3, ProceedSteps DEF Places, Gated
    <2>5. Closer(p, "comparing", u)
        BY <1>5, <2>1 DEF Closer
    <2> QED
        BY <2>1, <2>4, <2>5 DEF GoesIn, StepsTo, u, d
<1>10. ASSUME pc[p] \in {"comparing", "text", "authorization"}, ReturnView(p),
              WriteAuthorization(p) \/ UNCHANGED <<tree, index, cache, calls, edits, history>>
       PROVE  /\ \E place, u, a : StepsTo(p, place, u, a) /\ Closer(p, place, u)
              /\ GoesIn(p)
    <2>1. StepsTo(p, "idle", NoTask, Viewed(t))
        BY <1>10, ReturnViewSteps DEF Gated
    <2>2. Closer(p, "idle", NoTask)
        BY <1>5, <1>10 DEF Closer
    <2> QED
        BY <1>10, <2>1, <2>2 DEF GoesIn, StepsTo
<1>11. ASSUME NEW next \in {"text", "authorization"}, Proceed(p, next, t), UNCHANGED owners,
              pc[p] \in {"comparing", "text"}
       PROVE  StepsTo(p, next, t, answer[p])
    <2>1. t.shown \in Shown
        BY <1>1, <1>11 DEF PlaceOK, Gated
    <2>2. PlaceOK(next, t)
        BY <1>1, <1>2, <2>1, ViewGoesOn DEF Gated
    <2> QED
        BY <1>1, <1>11, <2>2, ProceedSteps DEF Places, Gated
<1>12. CASE CompareCache(p)
    <2>1. /\ pc[p] = "comparing" /\ UNCHANGED <<tree, index, cache, calls, edits, history>>
          /\ \/ Proceed(p, "text", t) /\ UNCHANGED owners
             \/ ReturnView(p)
        BY <1>12 DEF CompareCache
    <2>2. CASE Proceed(p, "text", t) /\ UNCHANGED owners
        <3>1. StepsTo(p, "text", t, answer[p])
            BY <1>11, <2>1, <2>2
        <3>2. Closer(p, "text", t)
            BY <1>5, <2>1 DEF Closer
        <3> QED
            BY <2>1, <3>1, <3>2 DEF GoesIn, StepsTo
    <2> QED
        BY <1>10, <2>1, <2>2
<1>13. CASE WriteText(p)
    <2>1. pc[p] = "text" /\ Proceed(p, "authorization", t) /\ UNCHANGED owners
        BY <1>13 DEF WriteText
    <2>2. StepsTo(p, "authorization", t, answer[p])
        BY <1>11, <2>1
    <2>3. Closer(p, "authorization", t)
        BY <1>5, <2>1 DEF Closer
    <2> QED
        BY <1>13, <2>1, <2>2, <2>3 DEF GoesIn, StepsTo
<1>14. CASE WriteAuthorization(p)
    BY <1>10, <1>14 DEF WriteAuthorization
<1>15. CASE CacheWriteFails(p)
    BY <1>10, <1>15 DEF CacheWriteFails
<1> QED
    BY <1>6, <1>7, <1>8, <1>9, <1>12, <1>13, <1>14, <1>15

LEMMA CacheStays ==
    ASSUME CacheOK, CallsOK, NEW p \in Clients, GoesIn(p)
    PROVE  CacheOK'
<1>1. CASE UNCHANGED cache
    BY <1>1 DEF CacheOK
<1>2. CASE pc[p] = "text" /\ WriteText(p)
    <2>1. task[p].shown \in Shown
        BY <1>2, KnownOf DEF PlaceOK, Gated
    <2> QED
        BY <1>2, <2>1 DEF WriteText, CacheOK
<1>3. CASE WriteAuthorization(p)
    BY <1>3 DEF WriteAuthorization, CacheOK
<1> QED
    BY <1>1, <1>2, <1>3 DEF GoesIn, TakeGate, Look

LEMMA DieSteps ==
    ASSUME CallsOK, NEW p \in Clients, Die(p)
    PROVE  StepsTo(p, "idle", NoTask, NoAnswer)
<1>1. Return(p, NoAnswer) /\ owners' = owners \ {q \in Clients : q = p}
    BY DEF Die, Gate!Abandon, Gate!ThreadsOf
<1>2. owners' = owners \ {p}
    BY <1>1 DEF CallsOK
<1> QED
    BY <1>1, <1>2, ReturnSteps, NothingAsked

-----------------------------------------------------------------------------
(* Types are kept, and every step comes closer                             *)

Asks(p) == Ask(p) \/ Reindex(p) \/ AskView(p)
Scans(p) == ScanNext(p) \/ ScanEnds(p)
Examines(p) == LoadCandidate(p) \/ DecideCandidate(p) \/ ConfirmCandidate(p)
Views_(p) ==
    \/ TakeGate(p) \/ DecideView(p) \/ RenderView(p) \/ BindView(p)
    \/ CompareCache(p) \/ WriteText(p) \/ WriteAuthorization(p) \/ CacheWriteFails(p)

LEMMA NextCases ==
    ASSUME [Next]_vars
    PROVE  \/ \E p \in Clients : \/ Asks(p) \/ Scans(p) \/ Publish(p) \/ PublishFails(p)
                                  \/ Search(p) \/ Examines(p) \/ Views_(p) \/ Die(p)
           \/ EditFile \/ LoseIndex \/ UNCHANGED vars
    BY DEF Next, CallStep, Asks, Scans, Examines, Views_, Finished

LEMMA AsksAre ==
    ASSUME CallsOK, NEW p \in Clients, Asks(p)
    PROVE  \E place, t : /\ StepsTo(p, place, t, NoAnswer)
                         /\ place \notin Seen \cup Gated /\ t.hits = <<>> /\ t.shown = Absent
                         /\ pc[p] = "idle"
                         /\ moments' = [moments EXCEPT ![p] = {tree}]
                         /\ calls' = [calls EXCEPT ![p] = @ + 1]
                         /\ disturbed' = disturbed \ {p}
                         /\ UNCHANGED <<tree, index, cache, owners, edits, touched, tainted>>
<1>1. CASE Ask(p)
    <2>1. PICK t : /\ StepsTo(p, "searching", t, NoAnswer) /\ Call(p, t, "searching")
                   /\ \E n \in Limits :
                        t = [NoTask EXCEPT !.op = "recall", !.limit = n, !.want = n,
                                           !.degraded = SourceMissing]
        BY <1>1, AskSteps
    <2>2. t.hits = <<>> /\ t.shown = Absent
        BY <2>1 DEF NoTask
    <2> QED
        BY <2>1, <2>2 DEF Call, Seen, Gated
<1>2. CASE Reindex(p)
    <2>1. [NoTask EXCEPT !.op = "reindex"].hits = <<>> /\ [NoTask EXCEPT !.op = "reindex"].shown = Absent
        BY DEF NoTask
    <2> QED
        BY <1>2, <2>1, ReindexSteps DEF Reindex, Call, Seen, Gated
<1>3. CASE AskView(p)
    <2>1. PICK v \in Views :
              StepsTo(p, "gate", [NoTask EXCEPT !.op = "view", !.view = v], NoAnswer)
        BY <1>3, AskViewSteps
    <2>2. /\ [NoTask EXCEPT !.op = "view", !.view = v].hits = <<>>
          /\ [NoTask EXCEPT !.op = "view", !.view = v].shown = Absent
        BY DEF NoTask
    <2> QED
        BY <1>3, <2>1, <2>2 DEF AskView, Call, Seen, Gated
<1> QED
    BY <1>1, <1>2, <1>3 DEF Asks

LEMMA OwnStepIsOK ==
    ASSUME TypeInv, NEW p \in Clients,
           \/ Asks(p) \/ Scans(p) \/ Publish(p) \/ PublishFails(p)
           \/ Search(p) \/ Examines(p) \/ Views_(p) \/ Die(p)
    PROVE  /\ \E place, t, a : StepsTo(p, place, t, a)
           /\ UNCHANGED tree /\ IndexOK' /\ CacheOK' /\ HistoryOK'
<1> USE DEF TypeInv
<1>1. UNCHANGED index => IndexOK'
    BY DEF IndexOK
<1>2. UNCHANGED cache => CacheOK'
    BY DEF CacheOK
<1>3. UNCHANGED <<calls, edits, history>> => HistoryOK'
    BY DEF HistoryOK, history
<1>4. CASE Asks(p)
    <2>1. PICK place, t : /\ StepsTo(p, place, t, NoAnswer)
                          /\ moments' = [moments EXCEPT ![p] = {tree}]
                          /\ calls' = [calls EXCEPT ![p] = @ + 1]
                          /\ disturbed' = disturbed \ {p}
                          /\ UNCHANGED <<tree, index, cache, owners, edits, touched, tainted>>
        BY <1>4, AsksAre
    <2>2. HistoryOK'
        BY <2>1 DEF HistoryOK
    <2> QED
        BY <1>1, <1>2, <2>1, <2>2
<1>5. CASE Scans(p)
    BY <1>1, <1>2, <1>3, <1>5, ScanSteps DEF Scans, ScanNext, ScanEnds, Look
<1>6. CASE Publish(p)
    <2>1. HistoryOK'
        BY <1>6 DEF Publish, HistoryOK, Disturb
    <2> QED
        BY <1>2, <1>6, <2>1, PublishSteps DEF Publish
<1>7. CASE PublishFails(p)
    BY <1>1, <1>2, <1>3, <1>7, PublishFailsSteps DEF PublishFails
<1>8. CASE Search(p)
    BY <1>1, <1>2, <1>3, <1>8, SearchSteps DEF Search, Look
<1>9. CASE Examines(p)
    BY <1>1, <1>2, <1>3, <1>9, LookSteps
       DEF Examines, LoadCandidate, DecideCandidate, ConfirmCandidate, Look
<1>10. CASE Views_(p)
    <2>1. GoesIn(p) /\ \E place, t, a : StepsTo(p, place, t, a)
        BY <1>10, ViewSteps DEF Views_
    <2>2. CacheOK'
        BY <2>1, CacheStays
    <2>3. UNCHANGED <<tree, index>>
        BY <2>1 DEF GoesIn, Look, TakeGate, WriteText, WriteAuthorization
    <2>4. HistoryOK'
        <3>1. CASE TakeGate(p)
            BY <3>1 DEF TakeGate, HistoryOK
        <3>2. CASE WriteAuthorization(p)
            <4>1. task[p].view.name \in Names
                BY <3>2, KnownOf, ViewAssumption DEF WriteAuthorization, PlaceOK, Gated
            <4> QED
                BY <3>2, <4>1 DEF WriteAuthorization, HistoryOK
        <3>3. CASE UNCHANGED <<calls, edits, history>>
            BY <1>3, <3>3
        <3> QED
            BY <2>1, <3>1, <3>2, <3>3 DEF GoesIn, Look, WriteText
    <2> QED
        BY <1>1, <2>1, <2>2, <2>3, <2>4
<1>11. CASE Die(p)
    BY <1>1, <1>2, <1>3, <1>11, DieSteps DEF Die
<1> QED
    BY <1>4, <1>5, <1>6, <1>7, <1>8, <1>9, <1>10, <1>11

LEMMA EditIsOK ==
    ASSUME TypeInv, EditFile
    PROVE  TypeInv'
<1> USE DEF TypeInv
<1>1. PICK e \in Edits : tree' = [tree EXCEPT ![e.file] = e.content]
                          /\ touched' = IF e.by = "hand" THEN Clients ELSE touched
    BY DEF EditFile
<1>2. tree' \in Trees
    BY <1>1, EditAssumption DEF Trees
<1>3. /\ UNCHANGED <<pc, task, answer, calls, owners, cache, tainted, index>>
      /\ edits' = edits + 1 /\ disturbed' = Clients
      /\ moments' = [q \in Clients |-> IF pc[q] = "idle" THEN moments[q]
                                                         ELSE moments[q] \cup {tree'}]
    BY DEF EditFile, Edited
<1>4. HistoryOK'
    <2>1. \A q \in Clients : moments[q] \in SUBSET Trees
        BY DEF HistoryOK
    <2>2. \A q \in Clients : (IF pc[q] = "idle" THEN moments[q] ELSE moments[q] \cup {tree'})
                                 \in SUBSET Trees
        BY <1>2, <2>1
    <2>3. moments' \in [Clients -> SUBSET Trees]
        BY <1>3, <2>2
    <2>4. edits' \in Nat /\ touched' \subseteq Clients /\ disturbed' \subseteq Clients
        BY <1>1, <1>3 DEF HistoryOK
    <2>5. UNCHANGED calls
        BY DEF EditFile, Edited
    <2> QED
        BY <1>3, <2>3, <2>4, <2>5 DEF HistoryOK
<1>5. CallsOK' /\ IndexOK' /\ CacheOK'
    BY <1>3 DEF CallsOK, ClientOK, IndexOK, CacheOK
<1> QED
    BY <1>2, <1>4, <1>5

LEMMA LossIsOK ==
    ASSUME TypeInv, LoseIndex
    PROVE  TypeInv'
<1> USE DEF TypeInv
<1>1. IndexOK'
    BY EmptySeq, NoEntries, ScanLength DEF LoseIndex, IndexOK, Indexed
<1>2. HistoryOK'
    BY DEF LoseIndex, Edited, HistoryOK
<1>3. CallsOK' /\ CacheOK'
    BY DEF LoseIndex, Edited, CallsOK, ClientOK, CacheOK
<1> QED
    BY <1>1, <1>2, <1>3 DEF LoseIndex

LEMMA TypesKept == TypeInv /\ [Next]_vars => TypeInv'
<1> SUFFICES ASSUME TypeInv, [Next]_vars PROVE TypeInv'
    OBVIOUS
<1>1. ASSUME NEW p \in Clients,
             \/ Asks(p) \/ Scans(p) \/ Publish(p) \/ PublishFails(p)
             \/ Search(p) \/ Examines(p) \/ Views_(p) \/ Die(p)
      PROVE  TypeInv'
    <2>1. PICK place, t, a : StepsTo(p, place, t, a)
        BY <1>1, OwnStepIsOK
    <2>2. CallsOK'
        BY <2>1, CallsStayOK DEF StepsTo, TypeInv
    <2> QED
        BY <1>1, <2>2, OwnStepIsOK DEF TypeInv
<1>2. CASE UNCHANGED vars
    BY <1>2 DEF vars, TypeInv, IndexOK, CacheOK, CallsOK, ClientOK, HistoryOK
<1> QED
    BY <1>1, <1>2, NextCases, EditIsOK, LossIsOK

LEMMA Typed == Spec => []TypeInv
    BY TypesAtFirst, TypesKept, PTL DEF Spec

\* Every variable keeps its type; exactly the clients that render a view hold
\* the gate, and a candidate is looked at while there is one (service.py:818-870).
THEOREM TypeCorrect == Spec => []TypeOK
    BY Typed, TypeInvGivesTypeOK, PTL

\* Where a client is said to go it goes, and nobody else does.
LEMMA OnlyOneGoes ==
    ASSUME CallsOK, NEW p \in Clients, NEW place, NEW t, NEW a, Goes(p, place, t, a)
    PROVE  /\ pc'[p] = place /\ task'[p] = t /\ answer'[p] = a
           /\ \A q \in Clients \ {p} :
                 pc'[q] = pc[q] /\ task'[q] = task[q] /\ answer'[q] = answer[q]
    BY DEF Goes, CallsOK

LEMMA MeasurePositive ==
    ASSUME CallsOK, NEW p \in Clients, pc[p] # "idle"
    PROVE  Measure(pc[p], task[p]) \in Int /\ 0 < Measure(pc[p], task[p])
<1> DEFINE t == task[p]
<1>1. TaskOK(t) /\ PlaceOK(pc[p], t) /\ pc[p] \in Places
    BY KnownOf DEF CallsOK
<1>2. t.at \in Nat /\ t.limit \in Nat /\ t.want \in Nat /\ Rebuild(t) \in Nat
    BY <1>1, TaskNumbers
<1>3. CASE pc[p] = "scanning"
    <2>1. Measure(pc[p], t) = AllPages + Len(Scan) + 3 - t.at /\ t.at <= Len(Scan) + 1
        BY <1>1, <1>3 DEF Measure, PlaceOK, ScanOK
    <2> QED
        BY <1>2, <2>1, ScanLength
<1>4. CASE pc[p] = "publishing"
    <2>1. Measure(pc[p], t) = AllPages + 1
        BY <1>4 DEF Measure
    <2> QED
        BY <2>1, ScanLength
<1>5. CASE pc[p] = "searching"
    <2> DEFINE x == 2 * Len(Scan) + t.limit - t.want
    <2>1. x \in Nat
        BY <1>1, <1>2, <1>5, ScanLength DEF PlaceOK, Asked, AskedOK
    <2>2. Measure(pc[p], t) = Rebuild(t) + x * Page + Page - 1
        BY <1>5 DEF Measure, Pages
    <2> HIDE DEF x
    <2>3. x * Page \in Nat
        BY <2>1, ScanLength
    <2> QED
        BY <1>2, <2>2, <2>3, ScanLength
<1>6. CASE pc[p] \in Seen
    <2>1. /\ Rebuild(t) \in Nat /\ Pages(t) \in Nat /\ Candidates(t) \in Nat
          /\ Candidates(t) >= 3
          /\ Measure(pc[p], t) \in Int
          /\ Measure(pc[p], t) >= Rebuild(t) + Pages(t) + Candidates(t) - 2
        BY <1>1, <1>6, HereKnown
    <2> QED
        BY <2>1
<1>7. CASE pc[p] \in {"gate", "verdict", "rendering", "binding", "comparing", "text",
                      "authorization"}
    BY <1>7 DEF Measure
<1> QED
    BY <1>1, <1>3, <1>4, <1>5, <1>6, <1>7 DEF Places, Seen

LEMMA OwnStepCloser ==
    ASSUME TypeInv, NEW p \in Clients, pc[p] # "idle",
           \/ Scans(p) \/ Publish(p) \/ PublishFails(p)
           \/ Search(p) \/ Examines(p) \/ Views_(p) \/ Die(p)
    PROVE  \E place, t, a : Goes(p, place, t, a) /\ Closer(p, place, t)
<1> USE DEF TypeInv
<1>1. Closer(p, "idle", NoTask)
    BY MeasurePositive, NoMoreToDo DEF Closer
<1>2. CASE PublishFails(p) \/ Die(p)
    <2>1. \E a : Goes(p, "idle", NoTask, a)
        BY <1>2, PublishFailsSteps, DieSteps DEF StepsTo
    <2> QED
        BY <1>1, <2>1
<1>3. CASE Scans(p)
    BY <1>3, ScanSteps DEF Scans, StepsTo
<1>4. CASE Publish(p)
    BY <1>4, PublishSteps DEF StepsTo
<1>5. CASE Search(p)
    BY <1>5, SearchSteps DEF StepsTo
<1>6. CASE Examines(p)
    BY <1>6, LookSteps DEF Examines, StepsTo
<1>7. CASE Views_(p)
    BY <1>7, ViewSteps DEF Views_, StepsTo
<1> QED
    BY <1>2, <1>3, <1>4, <1>5, <1>6, <1>7

LEMMA StepComesCloser ==
    ASSUME TypeInv, [Next]_vars, NEW q \in Clients, pc[q] # "idle",
           <<pc'[q], task'[q]>> # <<pc[q], task[q]>>
    PROVE  Closer(q, pc'[q], task'[q])
<1>1. ASSUME UNCHANGED <<pc, task>> PROVE FALSE
    BY <1>1
<1>2. ASSUME NEW p \in Clients,
             \/ Asks(p) \/ Scans(p) \/ Publish(p) \/ PublishFails(p)
             \/ Search(p) \/ Examines(p) \/ Views_(p) \/ Die(p)
      PROVE  Closer(q, pc'[q], task'[q])
    <2>1. PICK place, t, a : Goes(p, place, t, a)
        BY <1>2, OwnStepIsOK DEF StepsTo
    <2>2. p = q
        BY <2>1, OnlyOneGoes DEF TypeInv
    <2>3. ~Asks(p)
        BY <2>2, AsksAre DEF TypeInv
    <2>4. PICK place2, t2, a2 : Goes(p, place2, t2, a2) /\ Closer(p, place2, t2)
        BY <1>2, <2>2, <2>3, OwnStepCloser
    <2> QED
        BY <2>2, <2>4, OnlyOneGoes DEF TypeInv
<1> QED
    BY <1>1, <1>2, NextCases DEF EditFile, LoseIndex, Edited, vars

\* Whatever others do to the index and the files between its steps, every step of
\* a call leaves less to do: recall rebuilds at most once and never looks at the
\* same page twice (service.py:818-870, 872-930).
THEOREM ComesCloser == Spec => EveryStepComesCloser
<1>1. TypeInv /\ [Next]_vars =>
        [\A p \in Clients :
            pc[p] # "idle" /\ <<pc[p], task[p]>>' # <<pc[p], task[p]>> =>
                /\ 0 <= Measure(pc[p], task[p])'
                /\ Measure(pc[p], task[p])' < Measure(pc[p], task[p])]_vars
    <2> SUFFICES ASSUME TypeInv, [Next]_vars, NEW p \in Clients,
                        pc[p] # "idle", <<pc'[p], task'[p]>> # <<pc[p], task[p]>>
                 PROVE  /\ 0 <= Measure(pc'[p], task'[p])
                        /\ Measure(pc'[p], task'[p]) < Measure(pc[p], task[p])
        BY DEF Measure, Rebuild, Pages, Candidates
    <2> QED
        BY StepComesCloser DEF Closer
<1> QED
    BY <1>1, Typed, PTL DEF Spec, EveryStepComesCloser

\* A call can go on by itself: the guards of its steps, where they ask for more than
\* a place.
CanContinue(p) ==
    \/ pc[p] \in Places \ {"idle", "gate", "scanning"}
    \/ pc[p] = "scanning" /\ task[p].at <= Len(Scan) + 1
    \/ pc[p] = "gate" /\ Gate!Unlocked

NobodyIsStuck ==
    (\E p \in Clients : pc[p] # "idle") => \E p \in Clients : CanContinue(p)

\* As long as a recall, a rebuild or a view is under way one of them can go on:
\* whoever is in the gate waits for nobody, neither for the files nor for the
\* index, and whoever dies in it leaves it (service.py:872-930, policy.py:179-184).
THEOREM NoDeadlock == Spec => []NobodyIsStuck
<1>1. ASSUME TypeInv, NEW p \in Clients, pc[p] # "idle"
      PROVE  \E q \in Clients : CanContinue(q)
    <2>1. pc[p] \in Places /\ ClientOK(p)
        BY <1>1 DEF TypeInv, CallsOK
    <2>2. CASE pc[p] = "scanning"
        BY <2>1, <2>2 DEF ClientOK, PlaceOK, ScanOK, CanContinue
    <2>3. CASE pc[p] \notin {"gate", "scanning"}
        BY <1>1, <2>1, <2>3 DEF CanContinue
    <2>4. CASE pc[p] = "gate" /\ owners = {}
        BY <2>4 DEF CanContinue, Gate!Unlocked
    <2>5. CASE owners # {}
        <3>1. PICK q \in Clients : q \in owners
            BY <1>1, <2>5 DEF TypeInv, CallsOK
        <3>2. pc[q] \in Gated
            BY <1>1, <3>1 DEF TypeInv, CallsOK, ClientOK
        <3> QED
            BY <3>1, <3>2 DEF CanContinue, Gated, Places
    <2> QED
        BY <2>2, <2>3, <2>4, <2>5
<1>2. TypeInv => NobodyIsStuck
    BY <1>1 DEF NobodyIsStuck
<1> QED
    BY <1>2, Typed, PTL

-----------------------------------------------------------------------------
(* Nothing stale is shown                                                  *)

Good(when, r) == SaidSo(when, r) /\ Allowed(when, r)

\* The candidate that a call looks at was read at a moment of the call.
WasRead(when, t) ==
    LET a == Governing(Here(t).file) IN
    \E u \in when : Loads(u, a) /\ t.record = u[a] /\ t.successors = Successors(u, a)

\* What a call, at a place with a task, and its answer rest on.
Fresh(when, now, place, t, a) ==
    /\ place # "idle" => now \in when
    /\ \A r \in Entries(t.hits) \cup Entries(a.hits) : Good(when, r)
    /\ t.shown # Absent => \A r \in t.shown.rows : Good(when, r)
    /\ a.shown # Absent => \A r \in a.shown.rows : Good(when, r)
    /\ place \in {"deciding", "confirming"} => WasRead(when, t)
    /\ place = "confirming" => Allowed(when, Here(t))

AllFresh == \A p \in Clients : Fresh(moments[p], tree, pc[p], task[p], answer[p])

LEMMA MoreMoments ==
    ASSUME NEW when, NEW more, when \subseteq more
    PROVE  /\ \A r : Good(when, r) => Good(more, r)
           /\ \A t : WasRead(when, t) => WasRead(more, t)
           /\ \A r : Allowed(when, r) => Allowed(more, r)
<1>1. \A r : SaidSo(when, r) => SaidSo(more, r)
    <2> SUFFICES ASSUME NEW r, SaidSo(when, r) PROVE SaidSo(more, r)
        OBVIOUS
    <2>1. PICK t \in when :
              /\ Loads(t, r.file) /\ Row(t, r.file) = r
              /\ r.file.kind = "memory" =>
                    /\ t[r.file].status = "accepted"
                    /\ \A s \in Successors(t, r.file) :
                          \E u \in when : Loads(u, s) /\ ~Marked(u[s])
        BY DEF SaidSo
    <2>2. r.file.kind = "memory" =>
             \A s \in Successors(t, r.file) : \E u \in more : Loads(u, s) /\ ~Marked(u[s])
        BY <2>1
    <2> QED
        BY <2>1, <2>2 DEF SaidSo
<1>2. \A r : Allowed(when, r) => Allowed(more, r)
    BY DEF Allowed
<1>3. \A t : WasRead(when, t) => WasRead(more, t)
    BY DEF WasRead
<1> QED
    BY <1>1, <1>2, <1>3 DEF Good

\* What may be shown of a tree is good at that moment.
LEMMA ShowableIsGood ==
    ASSUME NEW t \in Trees, NEW when, t \in when, NEW r, Showable(t, r)
    PROVE  Good(when, r)
<1>1. Loads(t, r.file) /\ Row(t, r.file) = r /\ Authorized(t, Governing(r.file))
    BY DEF Showable, Exposable, Says
<1>2. ASSUME r.file.kind = "memory"
      PROVE  /\ t[r.file].status = "accepted"
             /\ \A s \in Successors(t, r.file) : \E u \in when : Loads(u, s) /\ ~Marked(u[s])
    <2>1. Current(t, r.file) /\ Governing(r.file) = r.file
        BY <1>2 DEF Showable, Exposable, Says, Governing
    <2>2. \A s \in Successors(t, r.file) : s \in Memories(t, r.file.class) /\ ~Marked(t[s])
        BY <2>1 DEF Current, NotSuperseded, Successors
    <2>3. MemoriesLoad(t, r.file.class)
        BY <1>1, <1>2, <2>1 DEF Authorized
    <2>4. \A s \in Successors(t, r.file) : Loads(t, s)
        BY <2>2, <2>3, MemoriesAreRead
    <2> QED
        BY <2>1, <2>2, <2>4 DEF Current
<1> QED
    BY <1>1, <1>2 DEF Good, SaidSo, Allowed

\* A candidate that is confirmed is good.
LEMMA ConfirmedIsGood ==
    ASSUME TypeInv, NEW p \in Clients, pc[p] = "confirming", Confirmed(p),
           Fresh(moments[p], tree, pc[p], task[p], answer[p])
    PROVE  Good(moments[p], Here(task[p]))
<1> DEFINE t == task[p]
           r == Here(t)
           when == moments[p]
<1>1. r \in Rows /\ r.file \in Entries(Scan) /\ Candidate(p) = r
    BY KnownOf, HereKnown DEF TypeInv, Seen, Candidate, Here
<1>2. tree \in when /\ Allowed(when, r) /\ WasRead(when, t)
    BY DEF Fresh
<1>3. PICK u \in when : /\ Loads(u, Governing(r.file)) /\ t.record = u[Governing(r.file)]
                        /\ t.successors = Successors(u, Governing(r.file))
    BY <1>2 DEF WasRead
<1> HIDE DEF t, r, when
<1>4. \A c : Row(c, r.file) = r <=> c[r.file].text = r.text
    BY <1>1 DEF Row, Rows
<1>5. CASE r.file.kind = "memory"
    <2>1. Governing(r.file) = r.file
        BY <1>5 DEF Governing
    <2>2. /\ t.record.status = "accepted" /\ t.record.text = r.text
          /\ \A s \in t.successors : Loads(tree, s) /\ ~Marked(tree[s])
        BY <1>1, <1>5 DEF Confirmed, t
    <2>3. Row(u, r.file) = r /\ u[r.file].status = "accepted"
        BY <1>3, <1>4, <2>1, <2>2
    <2>4. \A s \in Successors(u, r.file) : \E w \in when : Loads(w, s) /\ ~Marked(w[s])
        BY <1>2, <1>3, <2>1, <2>2
    <2> QED
        BY <1>2, <1>3, <2>1, <2>3, <2>4 DEF Good, SaidSo, t, r, when
<1>6. CASE r.file.kind = "file"
    <2>1. Loads(tree, r.file) /\ tree[r.file].text = r.text
        BY <1>1, <1>6 DEF Confirmed
    <2> QED
        BY <1>2, <1>4, <1>6, <2>1 DEF Good, SaidSo, t, r, when
<1>7. CASE r.file.kind \notin {"memory", "file"}
    <2>1. Governing(r.file) = r.file
        BY <1>7 DEF Governing
    <2>2. t.record.text = r.text
        BY <1>1, <1>7 DEF Confirmed, t
    <2> QED
        BY <1>2, <1>3, <1>4, <1>7, <2>1, <2>2 DEF Good, SaidSo, t, r, when
<1> QED
    BY <1>5, <1>6, <1>7

\* Going on keeps what is good.
LEMMA GoesOnFresh ==
    ASSUME NEW p, NEW t, t.shown = Absent, TaskOK(t), NEW place, NEW u, NEW b, GoesOn(p, t, place, u, b),
           NEW when, NEW now \in when,
           \A r \in Entries(t.hits) : Good(when, r),
           \A r \in Entries(answer[p].hits) : Good(when, r),
           answer[p].shown # Absent => \A r \in answer[p].shown.rows : Good(when, r)
    PROVE  Fresh(when, now, place, u, b)
<1>1. CASE place = "idle" /\ u = NoTask /\ b = Ended(t)
    <2>1. u.hits = <<>> /\ u.shown = Absent /\ b.hits = t.hits /\ b.shown = Absent
        BY <1>1 DEF NoTask, NoAnswer, Ended
    <2> QED
        BY <1>1, <2>1, NoEntries DEF Fresh
<1>2. CASE place = "loading" /\ u = t /\ b = answer[p]
    BY <1>2 DEF Fresh
<1>3. CASE place = "searching" /\ u = FullPage(t) /\ b = answer[p]
    <2>1. u.hits = t.hits /\ u.shown = t.shown
        BY <1>3 DEF FullPage, TaskOK
    <2> QED
        BY <1>3, <2>1 DEF Fresh
<1> QED
    BY <1>1, <1>2, <1>3 DEF GoesOn

LEMMA ScansKeep ==
    ASSUME TypeInv, NEW p \in Clients, Scans(p)
    PROVE  \E place, u : /\ Goes(p, place, u, answer[p]) /\ place \in Rebuilding
                         /\ u.hits = task[p].hits /\ u.shown = task[p].shown
                         /\ UNCHANGED <<tree, moments>>
<1> DEFINE t == task[p]
           row == Row(tree, Scan[t.at])
<1>1. TaskOK(t) /\ CallsOK
    BY KnownOf DEF TypeInv
<1>2. \A place, u : Proceed(p, place, u) => Goes(p, place, u, answer[p])
    BY <1>1, Proceeds
<1>3. UNCHANGED <<tree, moments>>
    BY DEF Scans, ScanNext, ScanEnds, Look, history
<1> HIDE DEF t
<1>4. \A u \in {[t EXCEPT !.at = @ + 1, !.rows = @ \cup {row}],
                [t EXCEPT !.at = @ + 1, !.scanned = "degraded"],
                [t EXCEPT !.at = @ + 1], t,
                [t EXCEPT !.rows = {}, !.scanned = "invalid"]} :
          u.hits = t.hits /\ u.shown = t.shown
    BY <1>1 DEF TaskOK
<1>5. \E place \in Rebuilding :
        \E u \in {[t EXCEPT !.at = @ + 1, !.rows = @ \cup {row}],
                  [t EXCEPT !.at = @ + 1, !.scanned = "degraded"],
                  [t EXCEPT !.at = @ + 1], t,
                  [t EXCEPT !.rows = {}, !.scanned = "invalid"]} : Proceed(p, place, u)
    BY DEF Scans, ScanNext, ScanEnds, Rebuilding, t, row
<1> QED
    BY <1>2, <1>3, <1>4, <1>5 DEF t

\* A step of a client keeps its own call fresh.
LEMMA OwnStepIsFresh ==
    ASSUME TypeInv, NEW p \in Clients, Fresh(moments[p], tree, pc[p], task[p], answer[p]),
           \/ Asks(p) \/ Scans(p) \/ Publish(p) \/ PublishFails(p)
           \/ Search(p) \/ Examines(p) \/ Views_(p) \/ Die(p)
    PROVE  /\ \E place, u, b : Goes(p, place, u, b) /\ Fresh(moments'[p], tree', place, u, b)
           /\ UNCHANGED tree
           /\ \A q \in Clients \ {p} : moments'[q] = moments[q]
<1> USE DEF TypeInv
<1> DEFINE t == task[p]
           when == moments[p]
<1>1. TaskOK(t) /\ PlaceOK(pc[p], t) /\ tree \in Trees
    BY KnownOf
<1>2. /\ pc[p] # "idle" => tree \in when
      /\ \A r \in Entries(t.hits) : Good(when, r)
      /\ \A r \in Entries(answer[p].hits) : Good(when, r)
      /\ t.shown # Absent => \A r \in t.shown.rows : Good(when, r)
      /\ answer[p].shown # Absent => \A r \in answer[p].shown.rows : Good(when, r)
    BY DEF Fresh
<1>3. NoTask.hits = <<>> /\ NoTask.shown = Absent /\ NoAnswer.hits = <<>> /\ NoAnswer.shown = Absent
    BY DEF NoTask, NoAnswer
<1>4. \A b, m : b.hits = <<>> /\ b.shown = Absent => Fresh(m, tree, "idle", NoTask, b)
    BY <1>3, NoEntries DEF Fresh
<1>5. \A place, u : /\ place \notin {"deciding", "confirming"} /\ pc[p] # "idle"
                    /\ u.hits = t.hits /\ u.shown = t.shown
                    => Fresh(when, tree, place, u, answer[p])
    BY <1>2 DEF Fresh
<1>6. ASSUME NEW w, w.shown = Absent, TaskOK(w), \A r \in Entries(w.hits) : Good(when, r),
             pc[p] # "idle", NEW place, NEW u, NEW b, GoesOn(p, w, place, u, b)
      PROVE  Fresh(when, tree, place, u, b)
    BY <1>2, <1>6, GoesOnFresh
<1>7. CASE Asks(p)
    <2>1. PICK place, u : /\ StepsTo(p, place, u, NoAnswer)
                          /\ place \notin Seen \cup Gated /\ u.hits = <<>> /\ u.shown = Absent
                          /\ moments' = [moments EXCEPT ![p] = {tree}] /\ UNCHANGED tree
        BY <1>7, AsksAre
    <2>2. Fresh({tree}, tree, place, u, NoAnswer)
        BY <1>3, <2>1, NoEntries DEF Fresh, Seen
    <2>3. moments'[p] = {tree}
        BY <2>1 DEF HistoryOK
    <2> QED
        BY <2>1, <2>2, <2>3 DEF StepsTo, HistoryOK
<1>8. CASE Scans(p)
    <2>1. PICK place, u : /\ Goes(p, place, u, answer[p]) /\ place \in Rebuilding
                          /\ u.hits = t.hits /\ u.shown = t.shown
                          /\ UNCHANGED <<tree, moments>>
        BY <1>8, ScansKeep
    <2>2. pc[p] # "idle"
        BY <1>8 DEF Scans, ScanNext, ScanEnds
    <2> QED
        BY <1>5, <2>1, <2>2 DEF Rebuilding
<1>9. CASE Publish(p)
    <2>1. pc[p] # "idle" /\ UNCHANGED <<tree, moments>>
        BY <1>9 DEF Publish
    <2>2. CASE Goes(p, "searching", Again(t), answer[p])
        <3>1. Again(t).hits = t.hits /\ Again(t).shown = t.shown
            BY <1>1 DEF Again, TaskOK
        <3> QED
            BY <1>5, <2>1, <2>2, <3>1
    <2>3. CASE Goes(p, "idle", NoTask, AfterScan(t))
        <3>1. AfterScan(t).hits = <<>> /\ AfterScan(t).shown = Absent
            BY DEF AfterScan, NoAnswer
        <3> QED
            BY <1>4, <2>1, <2>3, <3>1
    <2> QED
        BY <1>9, <2>2, <2>3, PublishSteps
<1>10. CASE PublishFails(p)
    <2> DEFINE b == [NoAnswer EXCEPT !.status = "degraded", !.limit = t.limit]
    <2>1. b.hits = <<>> /\ b.shown = Absent
        BY DEF NoAnswer
    <2>2. Goes(p, "idle", NoTask, b) /\ UNCHANGED <<tree, moments>>
        BY <1>10, PublishFailsSteps DEF StepsTo, PublishFails, history
    <2> QED
        BY <1>4, <2>1, <2>2
<1>11. CASE Search(p)
    <2>1. pc[p] = "searching" /\ UNCHANGED <<tree, moments>>
        BY <1>11 DEF Search, Look, history
    <2>2. PICK place, u, b :
               /\ StepsTo(p, place, u, b)
               /\ \/ place = "idle" /\ u = NoTask /\ b.hits = <<>> /\ b.shown = Absent
                  \/ place = "scanning" /\ u = Rescan(t) /\ b = answer[p]
                  \/ Between(Searched(t)) /\ GoesOn(p, Searched(t), place, u, b)
        BY <1>11, SearchSteps
    <2>3. Goes(p, place, u, b)
        BY <2>2 DEF StepsTo
    <2>4. CASE place = "idle" /\ u = NoTask /\ b.hits = <<>> /\ b.shown = Absent
        BY <1>4, <2>1, <2>3, <2>4
    <2>5. CASE place = "scanning" /\ u = Rescan(t) /\ b = answer[p]
        <3>1. u.hits = t.hits /\ u.shown = t.shown
            BY <1>1, <2>5 DEF Rescan, TaskOK
        <3> QED
            BY <1>5, <2>1, <2>3, <2>5, <3>1
    <2>6. CASE Between(Searched(t)) /\ GoesOn(p, Searched(t), place, u, b)
        <3>1. Searched(t).hits = t.hits
            BY <1>1 DEF Searched, TaskOK
        <3> QED
            BY <1>2, <1>6, <2>1, <2>3, <2>6, <3>1 DEF Between
    <2> QED
        BY <2>2, <2>4, <2>5, <2>6
<1>12. CASE Examines(p)
    <2>1. pc[p] \in Seen /\ UNCHANGED <<tree, moments>> /\ pc[p] # "idle"
        BY <1>12 DEF Examines, LoadCandidate, DecideCandidate, ConfirmCandidate, Look, history, Seen
    <2>2. Looks(p)
        BY <1>12, LookSteps DEF Examines
    <2>3. t.shown = Absent
        BY <1>1, <2>1, HereKnown
    <2>4. CASE /\ pc[p] = "loading" /\ CandidateLoads(Governing(Here(t).file))
               /\ Goes(p, "deciding", Loaded(t), answer[p])
        <3>1. /\ Loaded(t).record = tree[Governing(Here(t).file)]
              /\ Loaded(t).successors = Successors(tree, Governing(Here(t).file))
              /\ Here(Loaded(t)) = Here(t)
              /\ Loaded(t).hits = t.hits /\ Loaded(t).shown = t.shown
            BY <1>1, <2>1, <2>4, LoadedOK DEF CandidateLoads
        <3>2. WasRead(when, Loaded(t))
            BY <1>2, <2>1, <2>4, <3>1 DEF WasRead, CandidateLoads
        <3>3. Fresh(when, tree, "deciding", Loaded(t), answer[p])
            BY <1>2, <2>1, <3>1, <3>2 DEF Fresh
        <3> QED
            BY <2>1, <2>4, <3>3
    <2>5. CASE /\ pc[p] = "deciding" /\ Authorized(tree, Governing(Here(t).file))
               /\ Goes(p, "confirming", t, answer[p])
        <3>1. WasRead(when, t)
            BY <2>5 DEF Fresh
        <3>2. Allowed(when, Here(t))
            BY <1>2, <2>1, <2>5 DEF Allowed
        <3>3. Fresh(when, tree, "confirming", t, answer[p])
            BY <1>2, <2>1, <3>1, <3>2 DEF Fresh
        <3> QED
            BY <2>1, <2>5, <3>3
    <2>6. CASE /\ pc[p] = "confirming" /\ Confirmed(p)
               /\ \E place, u, b : GoesOn(p, Kept(t), place, u, b)
        <3>1. PICK place, u, b : GoesOn(p, Kept(t), place, u, b)
            BY <2>6
        <3>2. /\ TaskOK(Kept(t)) /\ Kept(t).shown = Absent
              /\ Kept(t).hits = Append(t.hits, Here(t))
            BY <1>1, <2>1, <2>3, Through DEF Between
        <3>3. Entries(Append(t.hits, Here(t))) = Entries(t.hits) \cup {Here(t)}
            BY <1>1, <2>1, HereKnown, TaskNumbers, OneMore
        <3>4. Good(when, Here(t))
            BY <2>6, ConfirmedIsGood
        <3>5. Fresh(when, tree, place, u, b)
            BY <1>2, <1>6, <2>1, <3>1, <3>2, <3>3, <3>4
        <3> QED
            BY <2>1, <3>1, <3>5 DEF GoesOn
    <2>7. CASE \E place, u, b : GoesOn(p, Skipped(t), place, u, b)
        <3>1. PICK place, u, b : GoesOn(p, Skipped(t), place, u, b)
            BY <2>7
        <3>2. TaskOK(Skipped(t)) /\ Skipped(t).shown = Absent
            BY <1>1, <2>1, <2>3, Through DEF Between
        <3>3. Skipped(t).hits = t.hits
            BY <1>1 DEF Skipped, TaskOK
        <3>4. Fresh(when, tree, place, u, b)
            BY <1>2, <1>6, <2>1, <3>1, <3>2, <3>3
        <3> QED
            BY <2>1, <3>1, <3>4 DEF GoesOn
    <2> QED
        BY <2>2, <2>4, <2>5, <2>6, <2>7 DEF Looks
<1>13. CASE Views_(p)
    <2>1. GoesIn(p)
        BY <1>13, ViewSteps DEF Views_
    <2>2. pc[p] # "idle" /\ UNCHANGED <<tree, moments>>
        BY <2>1 DEF GoesIn, TakeGate, Look, WriteText, WriteAuthorization, history
    <2>3. pc[p] \in Gated \cup {"gate"}
        BY <2>1 DEF GoesIn, Gated
    <2>4. CASE \E place \in Gated : Goes(p, place, t, answer[p])
        BY <1>5, <2>2, <2>4 DEF Gated
    <2>5. CASE pc[p] = "rendering"
               /\ Goes(p, "binding", [t EXCEPT !.shown = Render(tree, t.view)], answer[p])
        <3> DEFINE w == Render(tree, t.view)
                   u == [t EXCEPT !.shown = w]
        <3>1. t.view \in Views
            BY <1>1, <2>3 DEF PlaceOK
        <3>2. w \in Shown /\ \A r \in w.rows : Showable(tree, r)
            BY <1>1, <3>1, ViewShowable
        <3>3. \A r \in w.rows : Good(when, r)
            BY <1>1, <1>2, <2>2, <3>2, ShowableIsGood
        <3> HIDE DEF w
        <3>4. u.hits = t.hits /\ u.shown = w
            BY <1>1, <2>3, <3>2, ViewRendered
        <3> HIDE DEF u
        <3>5. Fresh(when, tree, "binding", u, answer[p])
            BY <1>2, <2>2, <3>3, <3>4 DEF Fresh
        <3> QED
            BY <2>2, <2>5, <3>5 DEF u, w
    <2>6. CASE \E place \in Gated : \E d : Goes(p, place, [t EXCEPT !.decision = d], answer[p])
        <3>1. PICK place \in Gated : \E d : Goes(p, place, [t EXCEPT !.decision = d], answer[p])
            BY <2>6
        <3>0. PICK d : Goes(p, place, [t EXCEPT !.decision = d], answer[p])
            BY <3>1
        <3>2. /\ [t EXCEPT !.decision = d].hits = t.hits
              /\ [t EXCEPT !.decision = d].shown = t.shown
            BY <1>1, <2>3, ViewDecided
        <3> QED
            BY <1>5, <2>2, <3>0, <3>2 DEF Gated
    <2>7. CASE Goes(p, "idle", NoTask, Viewed(t))
        <3>1. Viewed(t).hits = <<>> /\ Viewed(t).shown = t.shown
            BY DEF Viewed, NoAnswer
        <3>2. Fresh(when, tree, "idle", NoTask, Viewed(t))
            BY <1>2, <1>3, <3>1, NoEntries DEF Fresh
        <3> QED
            BY <2>2, <2>7, <3>2
    <2> QED
        BY <2>1, <2>4, <2>5, <2>6, <2>7 DEF GoesIn, Gated
<1>14. CASE Die(p)
    <2>1. Goes(p, "idle", NoTask, NoAnswer) /\ UNCHANGED <<tree, moments>>
        BY <1>14, DieSteps DEF StepsTo, Die, history
    <2> QED
        BY <1>3, <1>4, <2>1
<1> QED
    BY <1>7, <1>8, <1>9, <1>10, <1>11, <1>12, <1>13, <1>14

LEMMA FreshKept == TypeInv /\ AllFresh /\ [Next]_vars => AllFresh'
<1> SUFFICES ASSUME TypeInv, AllFresh, [Next]_vars, NEW q \in Clients
             PROVE  Fresh(moments'[q], tree', pc'[q], task'[q], answer'[q])
    BY DEF AllFresh, Fresh
<1>1. Fresh(moments[q], tree, pc[q], task[q], answer[q])
    BY DEF AllFresh
<1>2. ASSUME NEW p \in Clients,
             \/ Asks(p) \/ Scans(p) \/ Publish(p) \/ PublishFails(p)
             \/ Search(p) \/ Examines(p) \/ Views_(p) \/ Die(p)
      PROVE  Fresh(moments'[q], tree', pc'[q], task'[q], answer'[q])
    <2>1. Fresh(moments[p], tree, pc[p], task[p], answer[p])
        BY DEF AllFresh
    <2>2. PICK place, u, b : Goes(p, place, u, b) /\ Fresh(moments'[p], tree', place, u, b)
        BY <1>2, <2>1, OwnStepIsFresh
    <2>3. UNCHANGED tree /\ \A r \in Clients \ {p} : moments'[r] = moments[r]
        BY <1>2, <2>1, OwnStepIsFresh
    <2>4. CASE q = p
        BY <2>2, <2>4, OnlyOneGoes DEF TypeInv
    <2>5. CASE q # p
        BY <1>1, <2>2, <2>3, <2>5, OnlyOneGoes DEF TypeInv
    <2> QED
        BY <2>4, <2>5
<1>3. CASE EditFile
    <2>1. /\ pc'[q] = pc[q] /\ task'[q] = task[q] /\ answer'[q] = answer[q]
          /\ moments'[q] = IF pc[q] = "idle" THEN moments[q] ELSE moments[q] \cup {tree'}
        BY <1>3 DEF EditFile, Edited
    <2>2. moments[q] \subseteq moments'[q] /\ (pc[q] # "idle" => tree' \in moments'[q])
        BY <2>1
    <2> QED
        BY <1>1, <2>1, <2>2, MoreMoments DEF Fresh
<1>4. CASE LoseIndex \/ UNCHANGED vars
    BY <1>1, <1>4 DEF LoseIndex, Edited, vars
<1> QED
    BY <1>2, <1>3, <1>4, NextCases

LEMMA FreshAtFirst == Init => AllFresh
    BY NoEntries DEF Init, AllFresh, Fresh, NoTask, NoAnswer

\* Whatever recall or a view returned, however old the index was and whatever
\* happened meanwhile: there was a moment of the call when the artifact said so,
\* and a moment when the policy allowed it (service.py:872-1010, context.py).
THEOREM NothingStale == Spec => []NothingStaleIsShown
<1>1. AllFresh => NothingStaleIsShown
    BY DEF AllFresh, Fresh, NothingStaleIsShown, ShownRows, Good
<1> QED
    BY <1>1, Typed, FreshAtFirst, FreshKept, PTL DEF Spec

-----------------------------------------------------------------------------
(* Cached views are current                                                *)

BoundTo(now, v) == Bind(now, v, Decide(now, v), Render(now, v))

\* What a client that renders a view, and whom no hand disturbed, holds.
Holds(now, place, t) ==
    LET v == t.view IN
    /\ place \in {"rendering", "binding"} => t.decision = Decide(now, v)
    /\ place \in {"binding", "comparing", "text", "authorization"} => t.shown = Render(now, v)
    /\ place \in {"comparing", "text", "authorization"} => t.decision = BoundTo(now, v)

\* An authorization was written for what was rendered of some tree.
Covered(authorization) ==
    \E u \in Trees : \E v \in Views :
        authorization = [decision |-> BoundTo(u, v), text |-> Render(u, v)]

CacheInv ==
    /\ \A p \in Clients \ touched : Holds(tree, pc[p], task[p])
    /\ \A n \in Names \ tainted :
         cache[n].authorization # Absent => Covered(cache[n].authorization)

\* A step of a client other than those of a view.
LEMMA OutsideTheGate ==
    ASSUME TypeInv, NEW p \in Clients,
           \/ Asks(p) \/ Scans(p) \/ Publish(p) \/ PublishFails(p)
           \/ Search(p) \/ Examines(p) \/ Die(p)
    PROVE  /\ UNCHANGED <<tree, cache, touched, tainted>>
           /\ \E place, u, b : Goes(p, place, u, b) /\ place \notin Gated
<1> USE DEF TypeInv
<1>1. CASE Asks(p)
    BY <1>1, AsksAre DEF StepsTo
<1>2. CASE Scans(p)
    BY <1>2, ScansKeep DEF Scans, ScanNext, ScanEnds, Look, history, Rebuilding, Gated
<1>3. CASE Publish(p)
    BY <1>3, PublishSteps DEF Publish, Gated
<1>4. CASE PublishFails(p)
    BY <1>4, PublishFailsSteps DEF PublishFails, StepsTo, history, Gated
<1>5. CASE Search(p)
    <2>1. PICK place, u, b :
               /\ StepsTo(p, place, u, b)
               /\ \/ place = "idle"
                  \/ place = "scanning"
                  \/ GoesOn(p, Searched(task[p]), place, u, b)
        BY <1>5, SearchSteps
    <2> QED
        BY <1>5, <2>1 DEF StepsTo, GoesOn, Search, Look, history, Gated
<1>6. CASE Examines(p)
    <2>1. Looks(p)
        BY <1>6, LookSteps DEF Examines
    <2>2. \E place, u, b : Goes(p, place, u, b) /\ place \notin Gated
        BY <2>1 DEF Looks, GoesOn, Gated
    <2> QED
        BY <1>6, <2>2
           DEF Examines, LoadCandidate, DecideCandidate, ConfirmCandidate, Look, history
<1>7. CASE Die(p)
    BY <1>7, DieSteps DEF Die, StepsTo, history, Gated
<1> QED
    BY <1>1, <1>2, <1>3, <1>4, <1>5, <1>6, <1>7

LEMMA ViewHolds ==
    ASSUME TypeInv, CacheInv, NEW p \in Clients, Views_(p)
    PROVE  CacheInv'
<1> USE DEF TypeInv
<1> DEFINE t == task[p]
<1>1. TaskOK(t) /\ PlaceOK(pc[p], t) /\ GoesIn(p)
    BY KnownOf, ViewSteps DEF Views_
<1>2. pc[p] \in Gated \cup {"gate"} /\ UNCHANGED tree
    BY <1>1 DEF GoesIn, TakeGate, Look, WriteText, WriteAuthorization, Gated
<1>3. touched' \in {touched, touched \ {p}}
    BY <1>1 DEF GoesIn, TakeGate, Look, WriteText, WriteAuthorization, history
<1>4. ASSUME NEW q \in Clients \ {p}, q \notin touched' PROVE Holds(tree', pc'[q], task'[q])
    <2>1. pc'[q] = pc[q] /\ task'[q] = task[q]
        BY <1>1, <1>4, OnlyOneGoes DEF GoesIn
    <2> QED
        BY <1>2, <1>3, <1>4, <2>1 DEF CacheInv
<1>5. ASSUME p \notin touched' PROVE Holds(tree', pc'[p], task'[p])
    <2> DEFINE v == t.view
               u == [t EXCEPT !.decision = Decide(tree, v)]
               w == [t EXCEPT !.shown = Render(tree, v)]
               x == [t EXCEPT !.decision = Bind(tree, v, t.decision, t.shown)]
    <2>1. ~TakeGate(p) => Holds(tree, pc[p], t)
        <3>1. ~TakeGate(p) => UNCHANGED touched
            BY <1>1 DEF GoesIn, Look, WriteText, WriteAuthorization, history
        <3> QED
            BY <1>5, <3>1 DEF CacheInv
    <2>2. CASE Goes(p, "verdict", t, answer[p])
        BY <2>2, OnlyOneGoes DEF Holds
    <2>3. CASE Goes(p, "rendering", u, answer[p])
        <3>1. u.view = v /\ u.decision = Decide(tree, v)
            BY <1>1, <1>2, ViewDecided
        <3>2. pc'[p] = "rendering" /\ task'[p] = u
            BY <2>3, OnlyOneGoes
        <3> HIDE DEF u
        <3> QED
            BY <1>2, <3>1, <3>2 DEF Holds
    <2>4. CASE pc[p] = "rendering" /\ Goes(p, "binding", w, answer[p])
        <3>1. Render(tree, v) \in Shown
            BY <1>1, <1>2, ViewShowable DEF PlaceOK
        <3>2. w.view = v /\ w.shown = Render(tree, v) /\ w.decision = t.decision
            BY <1>1, <1>2, <3>1, ViewRendered
        <3>3. t.decision = Decide(tree, v)
            BY <2>1, <2>4 DEF Holds, TakeGate
        <3>4. pc'[p] = "binding" /\ task'[p] = w
            BY <2>4, OnlyOneGoes
        <3> HIDE DEF w
        <3> QED
            BY <1>2, <3>2, <3>3, <3>4 DEF Holds
    <2>5. CASE pc[p] = "binding" /\ Goes(p, "comparing", x, answer[p])
        <3>1. x.view = v /\ x.shown = t.shown /\ x.decision = Bind(tree, v, t.decision, t.shown)
            BY <1>1, <1>2, ViewDecided
        <3>2. t.decision = Decide(tree, v) /\ t.shown = Render(tree, v)
            BY <2>1, <2>5 DEF Holds, TakeGate
        <3>3. pc'[p] = "comparing" /\ task'[p] = x
            BY <2>5, OnlyOneGoes
        <3> HIDE DEF x
        <3> QED
            BY <1>2, <3>1, <3>2, <3>3 DEF Holds, BoundTo
    <2>6. CASE /\ pc[p] \in {"comparing", "text"}
               /\ Goes(p, "text", t, answer[p]) \/ Goes(p, "authorization", t, answer[p])
        <3>1. pc'[p] \in {"text", "authorization"} /\ task'[p] = t
            BY <2>6, OnlyOneGoes
        <3>2. Holds(tree, pc[p], t)
            BY <2>1, <2>6 DEF TakeGate
        <3> QED
            BY <1>2, <2>6, <3>1, <3>2 DEF Holds
    <2>7. CASE Goes(p, "idle", NoTask, Viewed(t))
        BY <2>7, OnlyOneGoes DEF Holds
    <2> QED
        BY <1>1, <2>2, <2>3, <2>4, <2>5, <2>6, <2>7 DEF GoesIn
<1>6. ASSUME NEW n \in Names, n \notin tainted', cache'[n].authorization # Absent
      PROVE  Covered(cache'[n].authorization)
    <2>1. CASE WriteAuthorization(p) /\ n = t.view.name
        <3>1. pc[p] = "authorization" /\ p \notin touched
            BY <1>6, <2>1 DEF WriteAuthorization
        <3>2. t.decision = BoundTo(tree, t.view) /\ t.shown = Render(tree, t.view)
            BY <3>1 DEF CacheInv, Holds
        <3>3. cache'[n].authorization = [decision |-> t.decision, text |-> t.shown]
            BY <2>1 DEF WriteAuthorization, CacheOK
        <3>4. t.view \in Views
            BY <1>1, <1>2 DEF PlaceOK
        <3> QED
            BY <3>2, <3>3, <3>4 DEF Covered
    <2>2. CASE WriteAuthorization(p) /\ n # t.view.name
        BY <1>6, <2>2 DEF WriteAuthorization, CacheOK, CacheInv
    <2>3. CASE WriteText(p)
        <3>1. cache'[n].authorization = cache[n].authorization /\ UNCHANGED tainted
            BY <2>3 DEF WriteText, CacheOK, history
        <3> QED
            BY <1>6, <3>1 DEF CacheInv
    <2>4. CASE UNCHANGED <<cache, tainted>>
        BY <1>6, <2>4 DEF CacheInv
    <2> QED
        BY <1>1, <2>1, <2>2, <2>3, <2>4 DEF GoesIn, TakeGate, Look, history
<1> QED
    BY <1>4, <1>5, <1>6 DEF CacheInv

LEMMA CacheInvKept == TypeInv /\ CacheInv /\ [Next]_vars => CacheInv'
<1> SUFFICES ASSUME TypeInv, CacheInv, [Next]_vars PROVE CacheInv'
    OBVIOUS
<1>1. ASSUME NEW p \in Clients,
             \/ Asks(p) \/ Scans(p) \/ Publish(p) \/ PublishFails(p)
             \/ Search(p) \/ Examines(p) \/ Die(p)
      PROVE  CacheInv'
    <2>1. /\ UNCHANGED <<tree, cache, touched, tainted>>
          /\ \E place, u, b : Goes(p, place, u, b) /\ place \notin Gated
        BY <1>1, OutsideTheGate
    <2>2. PICK place, u, b : Goes(p, place, u, b) /\ place \notin Gated
        BY <2>1
    <2>3. /\ pc'[p] = place
          /\ \A q \in Clients \ {p} : pc'[q] = pc[q] /\ task'[q] = task[q]
        BY <2>2, OnlyOneGoes DEF TypeInv
    <2>4. Holds(tree', pc'[p], task'[p])
        BY <2>2, <2>3 DEF Holds, Gated
    <2> QED
        BY <2>1, <2>3, <2>4 DEF CacheInv
<1>2. CASE EditFile
    <2>1. /\ UNCHANGED <<pc, task, cache, owners, tainted>>
          /\ touched' = Clients \/ (Gate!Unlocked /\ touched' = touched)
        <3>1. PICK e \in Edits : /\ e.by = "command" => Gate!Unlocked
                                 /\ touched' = IF e.by = "hand" THEN Clients ELSE touched
            BY <1>2 DEF EditFile
        <3>2. e.by \in {"command", "hand"}
            BY EditAssumption
        <3> QED
            BY <1>2, <3>1, <3>2 DEF EditFile, Edited
    <2>2. CASE touched' = Clients
        BY <2>1, <2>2 DEF CacheInv
    <2>3. CASE Gate!Unlocked
        <3>1. \A p \in Clients : pc[p] \notin Gated
            BY <2>3 DEF Gate!Unlocked, TypeInv, CallsOK, ClientOK
        <3>2. \A p \in Clients : Holds(tree', pc'[p], task'[p])
            BY <2>1, <3>1 DEF Holds, Gated
        <3> QED
            BY <2>1, <3>2 DEF CacheInv
    <2> QED
        BY <2>1, <2>2, <2>3
<1>3. CASE LoseIndex \/ UNCHANGED vars
    BY <1>3 DEF LoseIndex, Edited, vars, CacheInv
<1> QED
    BY <1>1, <1>2, <1>3, NextCases, ViewHolds

LEMMA CacheInvAtFirst == Init => CacheInv
    BY DEF Init, CacheInv, Holds, EmptyView

LEMMA CoveredIsCurrent == TypeInv /\ CacheInv => CachedViewsAreCurrent
<1> SUFFICES ASSUME TypeInv, CacheInv, NEW v \in Views, cache[v.name].authorization # Absent,
                    v.name \notin tainted
             PROVE  Cached(v.name, BoundTo(tree, v)) \in {Absent, Render(tree, v)}
    BY DEF CachedViewsAreCurrent, BoundTo
<1> DEFINE d == BoundTo(tree, v)
<1>1. v.name \in Names /\ tree \in Trees
    BY ViewAssumption DEF TypeInv
<1>2. PICK u \in Trees : \E w \in Views :
          cache[v.name].authorization = [decision |-> BoundTo(u, w), text |-> Render(u, w)]
    BY <1>1 DEF CacheInv, Covered
<1>3. PICK w \in Views :
          cache[v.name].authorization = [decision |-> BoundTo(u, w), text |-> Render(u, w)]
    BY <1>2
<1>4. CASE d.allowed /\ cache[v.name].authorization = [decision |-> d, text |-> cache[v.name].text]
    <2> HIDE DEF d
    <2>1. d = BoundTo(u, w) /\ cache[v.name].text = Render(u, w)
        BY <1>3, <1>4
    <2>2. Render(tree, v) = Render(u, w)
        BY <1>1, <1>4, <2>1, BoundIsRendered DEF BoundTo, d
    <2> QED
        BY <1>4, <2>1, <2>2 DEF Cached, d
<1>5. CASE ~(d.allowed /\ cache[v.name].authorization = [decision |-> d, text |-> cache[v.name].text])
    BY <1>5 DEF Cached
<1> QED
    BY <1>4, <1>5

\* At any moment, even between its two writes or after a death between them, what
\* a reader of a cached view gets for the verdict of now is what would be rendered
\* now (service.py:1069-1140, storage.py:224-300).
THEOREM CachedViewsCurrent == Spec => []CachedViewsAreCurrent
    BY Typed, CacheInvAtFirst, CacheInvKept, CoveredIsCurrent, PTL DEF Spec

-----------------------------------------------------------------------------
(* Undisturbed calls miss nothing                                          *)

\* An artifact that may be shown can be read, by the scan and by recall.
LEMMA ExposableIsReadable ==
    ASSUME NEW now \in Trees, NEW r, Exposable(now, r)
    PROVE  /\ Readable(now, r.file)
           /\ Loads(now, Governing(r.file))
           /\ Governing(r.file).kind = "memory" => MemoriesLoad(now, Governing(r.file).class)
<1> DEFINE a == r.file
<1>1. Loads(now, a) /\ Authorized(now, Governing(a))
    BY DEF Exposable, Says
<1>2. CASE a.kind = "file"
    <2> DEFINE g == File("portable", "source", a.id)
    <2>1. Governing(a) = g /\ g.kind = "source" /\ g.class = "portable" /\ g.id = a.id
        BY <1>2 DEF Governing, File
    <2> HIDE DEF g
    <2>2. SourceFiles(now, g) = {File("portable", "source", g.id)}
        BY <2>1 DEF SourceFiles, SourceFile
    <2>3. g \in Inputs(now, g)
        BY <2>1, <2>2 DEF Inputs, g
    <2>4. Loads(now, g)
        BY <1>1, <2>1, <2>3 DEF Authorized
    <2> QED
        BY <1>1, <1>2, <2>1, <2>4 DEF Readable
<1>3. CASE a.kind # "file"
    <2>1. Governing(a) = a
        BY <1>3 DEF Governing
    <2>2. a.kind = "memory" => MemoriesLoad(now, a.class)
        BY <1>1, <2>1 DEF Authorized
    <2> QED
        BY <1>1, <1>3, <2>1, <2>2 DEF Readable
<1> QED
    BY <1>2, <1>3

\* The rules of a registry that is allowed can be read.
LEMMA RulesLoad ==
    ASSUME NEW now \in Trees, NEW a \in Artifacts, a.kind \in Registries, Loads(now, a),
           Authorized(now, a), NEW q \in now[a].policies
    PROVE  Loads(now, RuleFile(q))
<1>1. a = File(a.class, a.kind, a.id)
    BY ArtifactAssumption
<1>2. a \in Inputs(now, a)
    <2>1. CASE a.kind = "workstream"
        BY <2>1 DEF Inputs, WorkstreamFiles
    <2>2. CASE a.kind = "source"
        BY <1>1, <2>2 DEF Inputs, SourceFiles, SourceFile
    <2>3. CASE a.kind = "project"
        <3>1. At(now, a) # Absent
            BY DEF Loads
        <3>2. ProjectFile(now, a.class, a.id) = a
            BY <1>1, <2>3, <3>1 DEF ProjectFile
        <3> QED
            BY <2>3, <3>2 DEF Inputs, ProjectFiles
    <2> QED
        BY <2>1, <2>2, <2>3 DEF Registries
<1>3. q \in CurrentRules(now, a)
    BY <1>2 DEF CurrentRules
<1> QED
    BY <1>3 DEF Authorized

\* What was read of a candidate is what the tree has now.
Reads(now, t) ==
    LET a == Governing(Here(t).file) IN
    /\ Loads(now, a)
    /\ t.record = now[a] /\ t.successors = Successors(now, a)

\* If nothing has changed, the candidate is kept if and only if it may be shown.
LEMMA ConfirmedExactly ==
    ASSUME TypeInv, NEW p \in Clients, pc[p] = "confirming", Reads(tree, task[p]),
           Authorized(tree, Governing(Here(task[p]).file))
    PROVE  Confirmed(p) <=> Exposable(tree, Here(task[p]))
<1> DEFINE t == task[p]
           r == Here(t)
<1>1. r \in Rows /\ r.file \in Entries(Scan) /\ Candidate(p) = r /\ tree \in Trees
      /\ r.file \in Artifacts
    BY KnownOf, HereKnown DEF TypeInv, Seen, Candidate, Here, Rows
<1>2. /\ Loads(tree, Governing(r.file)) /\ t.record = tree[Governing(r.file)]
      /\ t.successors = Successors(tree, Governing(r.file))
      /\ Authorized(tree, Governing(r.file))
    BY DEF Reads
<1>3. Exposable(tree, r) <=> Says(tree, r)
    BY <1>2 DEF Exposable
<1> HIDE DEF t, r
<1>4. \A c : Row(c, r.file) = r <=> c[r.file].text = r.text
    BY <1>1 DEF Row, Rows
<1>5. CASE r.file.kind = "memory"
    <2>1. Governing(r.file) = r.file
        BY <1>5 DEF Governing
    <2>2. MemoriesLoad(tree, r.file.class)
        BY <1>2, <1>5, <2>1 DEF Authorized
    <2>3. \A s \in Successors(tree, r.file) :
              Loads(tree, s) /\ MemoriesLoad(tree, s.class)
        BY <1>1, <2>2, MemoriesAreRead DEF Successors
    <2>4. Confirmed(p) <=> /\ tree[r.file].status = "accepted" /\ tree[r.file].text = r.text
                           /\ \A s \in Successors(tree, r.file) : ~Marked(tree[s])
        BY <1>1, <1>2, <1>5, <2>1, <2>3 DEF Confirmed, Registries, t
    <2>5. Says(tree, r) <=> /\ tree[r.file].text = r.text /\ Current(tree, r.file)
        BY <1>2, <1>4, <1>5, <2>1 DEF Says
    <2> QED
        BY <1>3, <2>4, <2>5 DEF Current, NotSuperseded, t, r
<1>6. CASE r.file.kind = "file"
    <2>1. Governing(r.file) \in Artifacts /\ Governing(r.file).kind = "source"
        BY <1>1, <1>2, <1>6 DEF Governing, Loads, At, Trees, File
    <2>2. \A q \in t.record.policies : Loads(tree, RuleFile(q))
        BY <1>1, <1>2, <2>1, RulesLoad DEF Registries
    <2>3. Confirmed(p) <=> Loads(tree, r.file) /\ tree[r.file].text = r.text
        BY <1>1, <1>6, <2>2 DEF Confirmed, t
    <2> QED
        BY <1>3, <1>4, <1>6, <2>3 DEF Says, t, r
<1>7. CASE r.file.kind \notin {"memory", "file"}
    <2>1. Governing(r.file) = r.file
        BY <1>7 DEF Governing
    <2>2. r.file.kind \in Registries => \A q \in tree[r.file].policies : Loads(tree, RuleFile(q))
        BY <1>1, <1>2, <2>1, RulesLoad
    <2>3. Confirmed(p) <=> tree[r.file].text = r.text
        BY <1>1, <1>2, <1>7, <2>1, <2>2 DEF Confirmed, t
    <2> QED
        BY <1>2, <1>3, <1>4, <1>7, <2>1, <2>3 DEF Says, t, r
<1> QED
    BY <1>5, <1>6, <1>7

Distinct(s) == \A i, j \in DOMAIN s : s[i] = s[j] => i = j

Unreadable(now) ==
    \E a \in Entries(Scan) : a.kind # "file" /\ now[a] # Absent /\ ~Readable(now, a)

\* Every row of the Vault that may be shown is among these.
AllIndexed(now, rows) ==
    \A a \in Entries(Scan) :
        Loads(now, a) /\ Exposable(now, Row(now, a)) => Row(now, a) \in rows

\* The hits are those of the first rows that may be shown, in order; all of them
\* if nothing was withheld.
Collected(now, idx, t) ==
    /\ t.processed <= Len(idx.rows) /\ t.processed <= t.want
    /\ Distinct(t.hits)
    /\ \A r : r \in Entries(t.hits) <=>
                 Exposable(now, r) /\ \E i \in 1 .. t.processed : idx.rows[i] = r
    /\ ~t.degraded => /\ Len(t.hits) = t.processed
                      /\ \A i \in 1 .. t.processed : t.hits[i] = idx.rows[i]
    /\ t.rebuilt => AllIndexed(now, Entries(idx.rows))

\* What a call answers if nothing changes.
MissesNothing(now, idx, a) ==
    LET may == {r \in Entries(idx.rows) : Exposable(now, r)} IN
    /\ Distinct(a.hits)
    /\ Entries(a.hits) \subseteq may
    /\ Len(a.hits) < a.limit => Entries(a.hits) = may
    /\ a.rebuilt => AllIndexed(now, Entries(idx.rows))
    /\ a.status = "resolved" => a.hits = First(idx.rows, a.limit)

AnswerIsRight(now, idx, a) ==
    /\ a.status \in {"resolved", "degraded"} /\ a.limit > 0
       /\ idx.state \in {"resolved", "degraded"} => MissesNothing(now, idx, a)
    /\ a.status = "invalid" /\ a.rebuilt => Unreadable(now)

\* What an undisturbed call knows.
Undisturbed(now, idx, place, t, a) ==
    /\ place \in Rebuilding =>
          \/ t.op = "reindex" /\ t.limit = 0
          \/ t.op = "recall" /\ t.hits = <<>> /\ idx.state = "missing"
    /\ place = "scanning" =>
          \A i \in 1 .. t.at - 1 :
              Loads(now, Scan[i]) /\ Exposable(now, Row(now, Scan[i])) => Row(now, Scan[i]) \in t.rows
    /\ place = "publishing" => IF t.scanned = "invalid" THEN Unreadable(now)
                                                        ELSE AllIndexed(now, t.rows)
    /\ place \in Asked => Collected(now, idx, t)
    /\ place \in Seen => t.candidates = First(idx.rows, t.want)
    /\ place \in {"deciding", "confirming"} => Reads(now, t)
    /\ place = "confirming" => Authorized(now, Governing(Here(t).file))
    /\ place # "idle" => a.status = "none"
    /\ AnswerIsRight(now, idx, a)

\* The answer at the end of the candidates, or of the limit.
LEMMA EndedIsRight ==
    ASSUME IndexOK, Distinct(index.rows), NEW now, NEW t, Between(t), Collected(now, index, t),
           t.candidates = First(index.rows, t.want),
           \/ Len(t.hits) = t.limit
           \/ t.processed >= Len(t.candidates) /\ Len(t.candidates) < t.want
    PROVE  MissesNothing(now, index, Ended(t))
<1> DEFINE rows == index.rows
           n == t.processed
           a == Ended(t)
<1>1. a.hits = t.hits /\ a.limit = t.limit /\ a.rebuilt = t.rebuilt
      /\ (a.status = "resolved" => ~t.degraded)
    BY DEF Ended, NoAnswer
<1>2. /\ Len(t.hits) \in Nat /\ n \in Nat /\ t.limit \in Nat /\ t.want \in Nat
      /\ t.hits \in Seq(Rows) /\ rows \in Seq(Rows) /\ Len(rows) \in Nat
      /\ Len(t.hits) <= t.limit
    BY TaskNumbers, LenProperties DEF Between, IndexOK
<1>3. Entries(rows) = {rows[i] : i \in 1 .. Len(rows)}
    BY <1>2, EntriesBelong
<1>4. n <= Len(rows)
    BY DEF Collected
<1>5. Entries(t.hits) \subseteq {r \in Entries(rows) : Exposable(now, r)}
    <2>1. \A i \in 1 .. n : i \in 1 .. Len(rows)
        BY <1>2, <1>4
    <2> QED
        BY <1>3, <2>1 DEF Collected
<1>6. ASSUME Len(t.hits) # t.limit PROVE n = Len(rows)
    <2>1. n >= Len(t.candidates) /\ Len(t.candidates) < t.want
        BY <1>6
    <2>2. Len(t.candidates) = IF t.want < Len(rows) THEN t.want ELSE Len(rows)
        <3>1. rows \in Seq(Rows) /\ t.want \in Nat
            BY <1>2
        <3>2. Len(First(rows, t.want)) = IF t.want < Len(rows) THEN t.want ELSE Len(rows)
            BY <3>1, FirstOf
        <3> QED
            BY <3>2
    <2>3. n >= Len(rows)
        BY <1>2, <2>1, <2>2
    <2> QED
        BY <1>2, <1>4, <2>3
<1>7. ASSUME Len(t.hits) < t.limit PROVE {r \in Entries(rows) : Exposable(now, r)} \subseteq Entries(t.hits)
    <2>1. n = Len(rows)
        BY <1>2, <1>6, <1>7
    <2> QED
        BY <1>3, <2>1 DEF Collected
<1>8. ASSUME ~t.degraded PROVE t.hits = First(rows, t.limit)
    <2>1. Len(t.hits) = n /\ \A i \in 1 .. n : t.hits[i] = rows[i]
        BY <1>8 DEF Collected
    <2>2. /\ First(rows, t.limit) \in Seq(Rows)
          /\ Len(First(rows, t.limit)) = IF t.limit < Len(rows) THEN t.limit ELSE Len(rows)
          /\ \A i \in 1 .. Len(First(rows, t.limit)) : First(rows, t.limit)[i] = rows[i]
        BY <1>2, FirstOf
    <2>3. Len(First(rows, t.limit)) = n
        BY <1>2, <1>4, <1>6, <2>1, <2>2
    <2> QED
        BY <1>2, <2>1, <2>2, <2>3, SeqEqual
<1> HIDE DEF a
<1> QED
    BY <1>1, <1>5, <1>7, <1>8 DEF MissesNothing, Collected, a

LEMMA GoesOnUndisturbed ==
    ASSUME IndexOK, Distinct(index.rows), NEW now, NEW p, NEW t, Between(t),
           Collected(now, index, t), t.candidates = First(index.rows, t.want),
           answer[p].status = "none",
           NEW place, NEW u, NEW b, GoesOn(p, t, place, u, b)
    PROVE  Undisturbed(now, index, place, u, b)
<1>1. AnswerIsRight(now, index, answer[p])
    BY DEF AnswerIsRight
<1>2. CASE /\ place = "idle" /\ u = NoTask /\ b = Ended(t)
           /\ \/ Len(t.hits) = t.limit
              \/ t.processed >= Len(t.candidates) /\ Len(t.candidates) < t.want
    <2>1. MissesNothing(now, index, b)
        BY <1>2, EndedIsRight
    <2>2. b.status # "invalid"
        BY <1>2 DEF Ended, NoAnswer
    <2> QED
        BY <1>2, <2>1, <2>2 DEF Undisturbed, AnswerIsRight, Rebuilding, Asked, Seen
<1>3. CASE place = "loading" /\ u = t /\ b = answer[p]
    BY <1>1, <1>3 DEF Undisturbed, Rebuilding, Asked, Seen
<1>4. CASE place = "searching" /\ u = FullPage(t) /\ b = answer[p]
           /\ t.processed >= Len(t.candidates) /\ Len(t.candidates) = t.want
    <2>1. TaskOK(t) /\ t.processed \in Nat /\ t.want \in Nat /\ Len(t.candidates) \in Nat
        BY TaskNumbers DEF Between
    <2>2. t.processed = t.want
        BY <1>4, <2>1 DEF Collected
    <2> DEFINE w == 2 * t.want
               n == Len(t.candidates)
    <2>3. w \in Nat /\ t.want <= w /\ n = t.processed /\ n \in Nat
        BY <1>4, <2>1, <2>2
    <2>4. u = [t EXCEPT !.processed = n, !.want = w]
        BY <1>4 DEF FullPage
    <2> HIDE DEF w, n
    <2>5. u.processed = t.processed /\ u.want = w /\ u.hits = t.hits
          /\ u.degraded = t.degraded /\ u.rebuilt = t.rebuilt
        BY <2>1, <2>3, <2>4 DEF TaskOK
    <2>6. Collected(now, index, u)
        BY <2>1, <2>2, <2>3, <2>5 DEF Collected
    <2> QED
        BY <1>1, <1>4, <2>6 DEF Undisturbed, Rebuilding, Asked, Seen
<1> QED
    BY <1>2, <1>3, <1>4 DEF GoesOn

\* The next candidate: kept if it may be shown, withheld if not.
LEMMA NextCollected ==
    ASSUME IndexOK, Distinct(index.rows), NEW now, NEW t, TaskOK(t), NEW place \in Seen,
           PlaceOK(place, t), Collected(now, index, t), t.candidates = First(index.rows, t.want),
           NEW u \in {Kept(t), Skipped(t)}, u = Kept(t) <=> Exposable(now, Here(t))
    PROVE  Collected(now, index, u) /\ u.candidates = First(index.rows, u.want)
<1> DEFINE rows == index.rows
           n == t.processed
           r == Here(t)
<1>1. /\ n \in Nat /\ t.want \in Nat /\ Len(t.candidates) \in Nat /\ n < Len(t.candidates)
      /\ rows \in Seq(Rows) /\ Len(rows) \in Nat /\ t.hits \in Seq(Rows) /\ r \in Rows
      /\ Len(t.hits) \in Nat
    BY TaskNumbers, HereKnown, LenProperties DEF IndexOK
<1>2. /\ u.processed = n + 1 /\ u.candidates = t.candidates
      /\ u.want = t.want /\ u.rebuilt = t.rebuilt
      /\ u.hits = IF u = Kept(t) THEN Append(t.hits, r) ELSE t.hits
      /\ u.degraded = IF u = Kept(t) THEN t.degraded ELSE TRUE
    BY Through
<1>3. /\ Len(t.candidates) = IF t.want < Len(rows) THEN t.want ELSE Len(rows)
      /\ \A i \in 1 .. Len(t.candidates) : t.candidates[i] = rows[i]
    BY <1>1, FirstOf
<1>4. n + 1 <= Len(rows) /\ n + 1 <= t.want /\ r = rows[n + 1]
    BY <1>1, <1>3 DEF Here
<1>5. \A x : (\E i \in 1 .. n + 1 : rows[i] = x) <=> (x = r \/ \E i \in 1 .. n : rows[i] = x)
    <2>1. 1 .. n + 1 = (1 .. n) \cup {n + 1}
        BY <1>1
    <2> QED
        BY <1>4, <2>1
<1>6. r \notin Entries(t.hits)
    <2>1. DOMAIN rows = 1 .. Len(rows)
        BY <1>1, LenProperties
    <2>2. \A i \in 1 .. n : i \in DOMAIN rows /\ n + 1 \in DOMAIN rows /\ i # n + 1
        BY <1>1, <1>4, <2>1
    <2>3. \A i \in 1 .. n : rows[i] # r
        BY <1>4, <2>2 DEF Distinct
    <2> QED
        BY <2>3 DEF Collected
<1> HIDE DEF rows, n, r
<1>7. CASE u = Kept(t)
    <2>1. u.hits = Append(t.hits, r) /\ u.degraded = t.degraded /\ Exposable(now, r)
        BY <1>2, <1>7 DEF r
    <2>2. /\ Len(u.hits) = Len(t.hits) + 1 /\ u.hits \in Seq(Rows)
          /\ \A i \in 1 .. Len(t.hits) : u.hits[i] = t.hits[i]
          /\ u.hits[Len(t.hits) + 1] = r
          /\ Entries(u.hits) = Entries(t.hits) \cup {r}
        BY <1>1, <2>1, OneMore
    <2>3. \A x : x \in Entries(u.hits) <=>
                    Exposable(now, x) /\ \E i \in 1 .. n + 1 : rows[i] = x
        BY <1>5, <2>1, <2>2 DEF Collected, rows, n
    <2>4. Distinct(u.hits)
        <3>1. DOMAIN u.hits = 1 .. Len(t.hits) + 1 /\ DOMAIN t.hits = 1 .. Len(t.hits)
            BY <1>1, <2>2, LenProperties
        <3>2. \A i \in 1 .. Len(t.hits) : u.hits[i] \in Entries(t.hits)
            BY <2>2, <3>1 DEF Entries
        <3>3. \A i \in 1 .. Len(t.hits) + 1 : i \in 1 .. Len(t.hits) \/ i = Len(t.hits) + 1
            BY <1>1
        <3>4. \A i, j \in 1 .. Len(t.hits) : u.hits[i] = u.hits[j] => i = j
            BY <2>2, <3>1 DEF Collected, Distinct
        <3> QED
            BY <1>6, <2>2, <3>1, <3>2, <3>3, <3>4 DEF Distinct
    <2>5. ~u.degraded => /\ Len(u.hits) = n + 1
                         /\ \A i \in 1 .. n + 1 : u.hits[i] = rows[i]
        <3> SUFFICES ASSUME ~t.degraded
                     PROVE  /\ Len(u.hits) = n + 1
                            /\ \A i \in 1 .. n + 1 : u.hits[i] = rows[i]
            BY <2>1
        <3>1. Len(t.hits) = n /\ \A i \in 1 .. n : t.hits[i] = rows[i]
            BY DEF Collected, rows, n
        <3>2. \A i \in 1 .. n + 1 : i \in 1 .. n \/ i = n + 1
            BY <1>1
        <3> QED
            BY <1>4, <2>2, <3>1, <3>2
    <2> QED
        BY <1>2, <1>4, <2>3, <2>4, <2>5 DEF Collected, rows, n
<1>8. CASE u # Kept(t)
    <2>1. u.hits = t.hits /\ u.degraded = TRUE /\ ~Exposable(now, r)
        BY <1>2, <1>8 DEF r
    <2>2. \A x : x \in Entries(u.hits) <=>
                    Exposable(now, x) /\ \E i \in 1 .. n + 1 : rows[i] = x
        BY <1>5, <2>1 DEF Collected, rows, n
    <2> QED
        BY <1>2, <1>4, <2>1, <2>2 DEF Collected, rows, n
<1> QED
    BY <1>7, <1>8

LEMMA AsksUndisturbed ==
    ASSUME TypeInv, NEW p \in Clients, Asks(p)
    PROVE  \E place, u, b : Goes(p, place, u, b) /\ Undisturbed(tree, index, place, u, b)
<1> USE DEF TypeInv
<1>1. AnswerIsRight(tree, index, NoAnswer) /\ NoAnswer.status = "none"
    BY DEF AnswerIsRight, NoAnswer
<1>2. CASE Ask(p)
    <2>1. PICK t : /\ StepsTo(p, "searching", t, NoAnswer)
                   /\ \E n \in Limits :
                        t = [NoTask EXCEPT !.op = "recall", !.limit = n, !.want = n,
                                           !.degraded = SourceMissing]
        BY <1>2, AskSteps
    <2>2. t.hits = <<>> /\ t.processed = 0 /\ t.rebuilt = FALSE
        BY <2>1 DEF NoTask
    <2>3. TaskOK(t) /\ t.want \in Nat /\ Len(index.rows) \in Nat
        BY <2>1, TaskNumbers, LenProperties DEF StepsTo, IndexOK
    <2>4. Collected(tree, index, t)
        BY <2>2, <2>3, NoEntries DEF Collected, Distinct
    <2>5. Undisturbed(tree, index, "searching", t, NoAnswer)
        BY <1>1, <2>4 DEF Undisturbed, Rebuilding, Asked, Seen
    <2> QED
        BY <2>1, <2>5 DEF StepsTo
<1>3. CASE Reindex(p)
    <2> DEFINE t == [NoTask EXCEPT !.op = "reindex"]
    <2>1. t.op = "reindex" /\ t.limit = 0 /\ t.at = 1
        BY DEF NoTask
    <2>2. StepsTo(p, "scanning", t, NoAnswer)
        BY <1>3, ReindexSteps
    <2> HIDE DEF t
    <2>3. Undisturbed(tree, index, "scanning", t, NoAnswer)
        BY <1>1, <2>1 DEF Undisturbed, Rebuilding, Asked, Seen
    <2> QED
        BY <2>2, <2>3 DEF StepsTo
<1>4. CASE AskView(p)
    <2>1. PICK v \in Views :
              StepsTo(p, "gate", [NoTask EXCEPT !.op = "view", !.view = v], NoAnswer)
        BY <1>4, AskViewSteps
    <2>2. \A t : Undisturbed(tree, index, "gate", t, NoAnswer)
        BY <1>1 DEF Undisturbed, Rebuilding, Asked, Seen
    <2> QED
        BY <2>1, <2>2 DEF StepsTo
<1> QED
    BY <1>2, <1>3, <1>4 DEF Asks

LEMMA ScansUndisturbed ==
    ASSUME TypeInv, NEW p \in Clients, Scans(p),
           Undisturbed(tree, index, pc[p], task[p], answer[p])
    PROVE  \E place, u, b : Goes(p, place, u, b) /\ Undisturbed(tree, index, place, u, b)
<1> USE DEF TypeInv
<1> DEFINE t == task[p]
           a == Scan[t.at]
           row == Row(tree, a)
           n == t.at + 1
           more == [t EXCEPT !.at = @ + 1, !.rows = @ \cup {row}]
           less == [t EXCEPT !.at = @ + 1, !.scanned = "degraded"]
           next == [t EXCEPT !.at = @ + 1]
           bad == [t EXCEPT !.rows = {}, !.scanned = "invalid"]
<1>1. /\ pc[p] = "scanning" /\ TaskOK(t) /\ PlaceOK("scanning", t) /\ t.at \in Nat
      /\ \A place, u : Proceed(p, place, u) => Goes(p, place, u, answer[p])
    BY KnownOf, TaskNumbers, Proceeds DEF Scans, ScanNext, ScanEnds
<1>2. 1 <= t.at /\ t.scanned # "invalid" /\ Len(Scan) \in Nat /\ Scan \in Seq(Artifacts)
    BY <1>1, ScanLength, ScanAssumption DEF PlaceOK, ScanOK
<1>3. /\ \/ t.op = "reindex" /\ t.limit = 0
         \/ t.op = "recall" /\ t.hits = <<>> /\ index.state = "missing"
      /\ \A i \in 1 .. t.at - 1 :
            Loads(tree, Scan[i]) /\ Exposable(tree, Row(tree, Scan[i]))
                => Row(tree, Scan[i]) \in t.rows
      /\ answer[p].status = "none" /\ AnswerIsRight(tree, index, answer[p])
    BY <1>1 DEF Undisturbed, Rebuilding
<1>4. ASSUME NEW u, u.at = n, u.op = t.op, u.limit = t.limit, u.hits = t.hits,
             t.rows \subseteq u.rows,
             Loads(tree, a) /\ Exposable(tree, row) => row \in u.rows
      PROVE  Undisturbed(tree, index, "scanning", u, answer[p])
    <2>1. \A i \in 1 .. u.at - 1 : i \in 1 .. t.at - 1 \/ i = t.at
        BY <1>1, <1>2, <1>4
    <2>2. \A i \in 1 .. u.at - 1 :
            Loads(tree, Scan[i]) /\ Exposable(tree, Row(tree, Scan[i]))
                => Row(tree, Scan[i]) \in u.rows
        BY <1>3, <1>4, <2>1
    <2> QED
        BY <1>3, <1>4, <2>2 DEF Undisturbed, Rebuilding, Asked, Seen
<1>5. ASSUME NEW u, u.op = t.op, u.limit = t.limit, u.hits = t.hits,
             IF u.scanned = "invalid" THEN Unreadable(tree) ELSE AllIndexed(tree, u.rows)
      PROVE  Undisturbed(tree, index, "publishing", u, answer[p])
    BY <1>3, <1>5 DEF Undisturbed, Rebuilding, Asked, Seen
<1>6. Loads(tree, a) /\ Exposable(tree, row) => Readable(tree, a)
    BY ExposableIsReadable DEF Row
<1>7. CASE ScanEnds(p)
    <2>1. Proceed(p, "publishing", t) /\ t.at - 1 = Len(Scan)
        BY <1>1, <1>2, <1>7 DEF ScanEnds
    <2>2. Entries(Scan) = {Scan[i] : i \in 1 .. Len(Scan)}
        BY <1>2, EntriesBelong
    <2>3. AllIndexed(tree, t.rows)
        BY <1>3, <2>1, <2>2 DEF AllIndexed
    <2> QED
        BY <1>1, <1>2, <1>5, <2>1, <2>3
<1>8. CASE ScanNext(p)
    <2>1. t.at <= Len(Scan) /\ a \in Entries(Scan)
        <3>1. t.at <= Len(Scan) /\ t.at \in 1 .. Len(Scan)
            BY <1>1, <1>2, <1>8 DEF ScanNext
        <3> QED
            BY <1>2, <3>1, EntriesBelong
    <2>2. \/ Proceed(p, "scanning", more)
          \/ a.kind = "file" /\ ~Readable(tree, a) /\ Proceed(p, "scanning", less)
          \/ tree[a] = Absent /\ Proceed(p, "scanning", next)
          \/ /\ a.kind # "file" /\ tree[a] # Absent /\ ~Readable(tree, a)
             /\ Proceed(p, "publishing", bad)
        BY <1>8 DEF ScanNext
    <2> HIDE DEF t, a, row
    <2>3. CASE Proceed(p, "scanning", more)
        <3>1. more.at = n /\ more.op = t.op /\ more.limit = t.limit /\ more.hits = t.hits
              /\ more.rows = t.rows \cup {row}
            BY <1>1 DEF TaskOK
        <3> HIDE DEF more, n
        <3> QED
            BY <1>1, <1>4, <2>3, <3>1
    <2>4. CASE ~Readable(tree, a) /\ Proceed(p, "scanning", less)
        <3>1. less.at = n /\ less.op = t.op /\ less.limit = t.limit /\ less.hits = t.hits
              /\ less.rows = t.rows
            BY <1>1 DEF TaskOK
        <3> HIDE DEF less, n
        <3> QED
            BY <1>1, <1>4, <1>6, <2>4, <3>1
    <2>5. CASE tree[a] = Absent /\ Proceed(p, "scanning", next)
        <3>1. next.at = n /\ next.op = t.op /\ next.limit = t.limit /\ next.hits = t.hits
              /\ next.rows = t.rows
            BY <1>1 DEF TaskOK
        <3>2. ~Loads(tree, a)
            BY <2>5 DEF Loads, At
        <3> HIDE DEF next, n
        <3> QED
            BY <1>1, <1>4, <2>5, <3>1, <3>2
    <2>6. CASE /\ a.kind # "file" /\ tree[a] # Absent /\ ~Readable(tree, a)
               /\ Proceed(p, "publishing", bad)
        <3>1. bad.op = t.op /\ bad.limit = t.limit /\ bad.hits = t.hits
              /\ bad.scanned = "invalid"
            BY <1>1 DEF TaskOK
        <3>2. Unreadable(tree)
            BY <2>1, <2>6 DEF Unreadable
        <3> HIDE DEF bad
        <3> QED
            BY <1>1, <1>5, <2>6, <3>1, <3>2
    <2> QED
        BY <2>2, <2>3, <2>4, <2>5, <2>6
<1> QED
    BY <1>7, <1>8 DEF Scans

LEMMA PublishUndisturbed ==
    ASSUME TypeInv, NEW p \in Clients, Publish(p),
           Undisturbed(tree, index, pc[p], task[p], answer[p])
    PROVE  \E place, u, b : Goes(p, place, u, b) /\ Undisturbed(tree, index', place, u, b)
<1> USE DEF TypeInv
<1> DEFINE t == task[p]
           u == Again(t)
<1>1. /\ TaskOK(t) /\ t.limit \in Nat
      /\ \/ t.op = "reindex" /\ t.limit = 0
         \/ t.op = "recall" /\ t.hits = <<>> /\ index.state = "missing"
      /\ IF t.scanned = "invalid" THEN Unreadable(tree) ELSE AllIndexed(tree, t.rows)
      /\ answer[p].status = "none"
    BY KnownOf, TaskNumbers DEF Publish, Undisturbed, Rebuilding
<1>2. /\ index'.state = t.scanned /\ Entries(index'.rows) = t.rows
      /\ index'.rows \in Seq(Rows) /\ Len(index'.rows) \in Nat
    BY PublishSteps, LenProperties DEF IndexOK
<1>3. CASE t.op = "recall" /\ t.scanned # "invalid" /\ Goes(p, "searching", u, answer[p])
    <2>1. u.hits = <<>> /\ u.processed = 0 /\ u.want = t.limit
        BY <1>1, <1>3 DEF Again, TaskOK
    <2> HIDE DEF u
    <2>2. Collected(tree, index', u)
        BY <1>1, <1>2, <1>3, <2>1, NoEntries DEF Collected, Distinct
    <2>3. Undisturbed(tree, index', "searching", u, answer[p])
        BY <1>1, <2>2 DEF Undisturbed, AnswerIsRight, Rebuilding, Asked, Seen
    <2> QED
        BY <1>3, <2>3
<1>4. CASE /\ t.op # "recall" \/ t.scanned = "invalid"
           /\ Goes(p, "idle", NoTask, AfterScan(t))
    <2>1. AfterScan(t).status = t.scanned /\ AfterScan(t).limit = t.limit
        BY DEF AfterScan, NoAnswer
    <2>2. AnswerIsRight(tree, index', AfterScan(t))
        BY <1>1, <1>4, <2>1 DEF AnswerIsRight
    <2>3. Undisturbed(tree, index', "idle", NoTask, AfterScan(t))
        BY <2>2 DEF Undisturbed, Rebuilding, Asked, Seen
    <2> QED
        BY <1>4, <2>3
<1> QED
    BY <1>3, <1>4, PublishSteps

LEMMA SearchUndisturbed ==
    ASSUME TypeInv, Distinct(index.rows), NEW p \in Clients, Search(p),
           Undisturbed(tree, index, pc[p], task[p], answer[p])
    PROVE  \E place, u, b : Goes(p, place, u, b) /\ Undisturbed(tree, index, place, u, b)
<1> USE DEF TypeInv
<1> DEFINE t == task[p]
<1>1. /\ TaskOK(t) /\ t.op = "recall" /\ Collected(tree, index, t)
      /\ answer[p].status = "none" /\ AnswerIsRight(tree, index, answer[p])
      /\ t.processed \in Nat /\ t.hits \in Seq(Rows) /\ Len(t.hits) \in Nat
    BY KnownOf, TaskNumbers DEF Search, Undisturbed, Asked, PlaceOK, AskedOK
<1>2. PICK place, u, b :
          /\ StepsTo(p, place, u, b)
          /\ \/ /\ place = "idle" /\ u = NoTask /\ ~b.rebuilt
                /\ index.state \in {"missing", "invalid"}
             \/ /\ place = "scanning" /\ u = Rescan(t) /\ b = answer[p]
                /\ index.state = "missing"
             \/ Between(Searched(t)) /\ GoesOn(p, Searched(t), place, u, b)
    BY SearchSteps
<1>3. Goes(p, place, u, b)
    BY <1>2 DEF StepsTo
<1>4. CASE place = "idle" /\ ~b.rebuilt /\ index.state \in {"missing", "invalid"}
    BY <1>3, <1>4 DEF Undisturbed, AnswerIsRight, Rebuilding, Asked, Seen
<1>5. CASE place = "scanning" /\ u = Rescan(t) /\ b = answer[p] /\ index.state = "missing"
    <2>1. u.op = t.op /\ u.hits = t.hits /\ u.at = 1
        BY <1>1, <1>5 DEF Rescan, TaskOK
    <2>2. t.hits = <<>>
        <3>1. index.rows = <<>> /\ t.processed = 0
            BY <1>1, <1>5, NoEntries DEF IndexOK, Collected
        <3>2. Entries(t.hits) = {}
            BY <1>1, <3>1 DEF Collected
        <3>3. Len(t.hits) = 0
            <4>1. Entries(t.hits) = {t.hits[i] : i \in 1 .. Len(t.hits)}
                BY <1>1, EntriesBelong
            <4>2. 1 \notin 1 .. Len(t.hits)
                BY <3>2, <4>1
            <4> QED
                BY <1>1, <4>2
        <3> QED
            BY <1>1, <3>3, EmptySeq
    <2> QED
        BY <1>1, <1>3, <1>5, <2>1, <2>2 DEF Undisturbed, Rebuilding, Asked, Seen
<1>6. CASE Between(Searched(t)) /\ GoesOn(p, Searched(t), place, u, b)
    <2> DEFINE f == Searched(t)
    <2>1. /\ f.processed = t.processed /\ f.want = t.want /\ f.hits = t.hits
          /\ f.rebuilt = t.rebuilt /\ f.candidates = First(index.rows, t.want)
          /\ ~f.degraded => ~t.degraded
        BY <1>1 DEF Searched, TaskOK
    <2> HIDE DEF f
    <2>2. Collected(tree, index, f) /\ f.candidates = First(index.rows, f.want)
        BY <1>1, <2>1 DEF Collected
    <2>3. Undisturbed(tree, index, place, u, b)
        BY <1>1, <1>6, <2>2, GoesOnUndisturbed DEF f
    <2> QED
        BY <1>3, <2>3
<1> QED
    BY <1>2, <1>4, <1>5, <1>6

LEMMA LooksUndisturbed ==
    ASSUME TypeInv, Distinct(index.rows), NEW p \in Clients, Examines(p),
           Undisturbed(tree, index, pc[p], task[p], answer[p])
    PROVE  \E place, u, b : Goes(p, place, u, b) /\ Undisturbed(tree, index, place, u, b)
<1> USE DEF TypeInv
<1> DEFINE t == task[p]
           r == Here(t)
           a == Governing(r.file)
<1>1. pc[p] \in Seen /\ TaskOK(t) /\ PlaceOK(pc[p], t) /\ Looks(p)
    BY KnownOf, LookSteps
       DEF Examines, LoadCandidate, DecideCandidate, ConfirmCandidate, Seen
<1>2. /\ Collected(tree, index, t) /\ t.candidates = First(index.rows, t.want)
      /\ answer[p].status = "none" /\ AnswerIsRight(tree, index, answer[p])
      /\ pc[p] \in {"deciding", "confirming"} => Reads(tree, t)
      /\ pc[p] = "confirming" => Authorized(tree, a)
    BY <1>1 DEF Undisturbed, Asked, Seen
<1>3. Exposable(tree, r) => CandidateLoads(a) /\ Authorized(tree, a)
    BY ExposableIsReadable DEF Exposable, CandidateLoads
<1>4. pc[p] = "confirming" => (Confirmed(p) <=> Exposable(tree, r))
    BY <1>2, ConfirmedExactly
<1>5. ASSUME NEW u \in {Kept(t), Skipped(t)}, u = Kept(t) <=> Exposable(tree, r),
             NEW place, NEW w, NEW b, GoesOn(p, u, place, w, b)
      PROVE  Undisturbed(tree, index, place, w, b)
    <2>1. Collected(tree, index, u) /\ u.candidates = First(index.rows, u.want)
        BY <1>1, <1>2, <1>5, NextCollected
    <2>2. Between(u)
        BY <1>1, Through
    <2> QED
        BY <1>2, <1>5, <2>1, <2>2, GoesOnUndisturbed
<1>6. Kept(t) # Skipped(t)
    <2>1. Kept(t).hits = Append(t.hits, r) /\ Skipped(t).hits = t.hits
        BY <1>1 DEF Kept, Skipped, TaskOK
    <2>2. Len(Append(t.hits, r)) = Len(t.hits) + 1 /\ Len(t.hits) \in Nat
        BY <1>1, HereKnown, TaskNumbers, OneMore
    <2> QED
        BY <2>1, <2>2
<1>7. CASE pc[p] = "loading" /\ CandidateLoads(a) /\ Goes(p, "deciding", Loaded(t), answer[p])
    <2> DEFINE u == Loaded(t)
    <2>1. /\ u.record = tree[a] /\ u.successors = Successors(tree, a) /\ Here(u) = r
          /\ u.hits = t.hits /\ u.candidates = t.candidates /\ u.processed = t.processed
          /\ u.want = t.want /\ u.rebuilt = t.rebuilt /\ u.degraded = t.degraded
        BY <1>1, <1>7, LoadedOK DEF CandidateLoads
    <2> HIDE DEF u
    <2>2. Reads(tree, u)
        BY <1>7, <2>1 DEF Reads, CandidateLoads
    <2>3. Collected(tree, index, u) /\ u.candidates = First(index.rows, u.want)
        BY <1>2, <2>1 DEF Collected
    <2>4. Undisturbed(tree, index, "deciding", u, answer[p])
        BY <1>2, <2>2, <2>3 DEF Undisturbed, Rebuilding, Asked, Seen
    <2> QED
        BY <1>7, <2>4 DEF u
<1>8. CASE pc[p] = "deciding" /\ Authorized(tree, a) /\ Goes(p, "confirming", t, answer[p])
    <2>1. Undisturbed(tree, index, "confirming", t, answer[p])
        BY <1>2, <1>8 DEF Undisturbed, Rebuilding, Asked, Seen
    <2> QED
        BY <1>8, <2>1
<1>9. CASE /\ pc[p] = "confirming" /\ Confirmed(p)
           /\ \E place, u, b : GoesOn(p, Kept(t), place, u, b)
    BY <1>4, <1>5, <1>9 DEF GoesOn
<1>10. CASE /\ \/ pc[p] = "loading" /\ ~CandidateLoads(a)
               \/ pc[p] = "deciding" /\ ~Authorized(tree, a)
               \/ pc[p] = "confirming" /\ ~Confirmed(p)
            /\ \E place, u, b : GoesOn(p, Skipped(t), place, u, b)
    <2>1. ~Exposable(tree, r)
        BY <1>3, <1>4, <1>10
    <2> QED
        BY <1>5, <1>6, <1>10, <2>1 DEF GoesOn
<1> QED
    BY <1>1, <1>7, <1>8, <1>9, <1>10 DEF Looks

LEMMA ViewsUndisturbed ==
    ASSUME TypeInv, NEW p \in Clients, Views_(p) \/ PublishFails(p) \/ Die(p),
           Undisturbed(tree, index, pc[p], task[p], answer[p])
    PROVE  \E place, u, b : Goes(p, place, u, b) /\ Undisturbed(tree, index, place, u, b)
<1> USE DEF TypeInv
<1> DEFINE t == task[p]
<1>1. \A u, b : /\ b.status \in {"none", "view"}
                => Undisturbed(tree, index, "idle", u, b)
    BY DEF Undisturbed, AnswerIsRight, Rebuilding, Asked, Seen
<1>2. \A place \in Gated : \A u :
          answer[p].status = "none" => Undisturbed(tree, index, place, u, answer[p])
    BY DEF Undisturbed, AnswerIsRight, Gated, Rebuilding, Asked, Seen
<1>3. CASE Die(p)
    BY <1>1, <1>3, DieSteps DEF StepsTo, NoAnswer
<1>4. CASE PublishFails(p)
    <2> DEFINE b == [NoAnswer EXCEPT !.status = "degraded", !.limit = t.limit]
    <2>1. Goes(p, "idle", NoTask, b) /\ pc[p] = "publishing"
        BY <1>4, PublishFailsSteps DEF StepsTo, PublishFails
    <2>2. b.status = "degraded" /\ b.limit = t.limit
        BY DEF NoAnswer
    <2>3. t.limit = 0 \/ index.state = "missing"
        BY <2>1 DEF Undisturbed, Rebuilding
    <2> HIDE DEF b
    <2>4. Undisturbed(tree, index, "idle", NoTask, b)
        BY <2>2, <2>3 DEF Undisturbed, AnswerIsRight, Rebuilding, Asked, Seen
    <2> QED
        BY <2>1, <2>4
<1>5. CASE Views_(p)
    <2>1. GoesIn(p)
        BY <1>5, ViewSteps DEF Views_
    <2>2. answer[p].status = "none"
        BY <2>1 DEF GoesIn, Undisturbed
    <2>3. CASE \E place \in Gated : \E u : Goes(p, place, u, answer[p])
        BY <1>2, <2>2, <2>3
    <2>4. CASE Goes(p, "idle", NoTask, Viewed(t))
        <3>1. Viewed(t).status = "view"
            BY DEF Viewed, NoAnswer
        <3> QED
            BY <1>1, <2>4, <3>1
    <2> QED
        BY <2>1, <2>3, <2>4 DEF GoesIn, Gated
<1> QED
    BY <1>3, <1>4, <1>5

\* Who changes the index, and who disturbs whom.
LEMMA OthersSee ==
    ASSUME TypeInv, NEW p \in Clients,
           \/ Asks(p) \/ Scans(p) \/ PublishFails(p)
           \/ Search(p) \/ Examines(p) \/ Views_(p) \/ Die(p)
    PROVE  UNCHANGED index /\ disturbed' \in {disturbed, disturbed \ {p}}
           /\ (~Asks(p) => UNCHANGED disturbed)
<1>1. CASE Asks(p)
    BY <1>1, AsksAre DEF TypeInv
<1>2. CASE Views_(p)
    <2>1. GoesIn(p)
        BY <1>2, ViewSteps DEF Views_, TypeInv
    <2> QED
        BY <2>1 DEF GoesIn, TakeGate, Look, WriteText, WriteAuthorization, history
<1>3. CASE Scans(p) \/ PublishFails(p) \/ Search(p) \/ Examines(p) \/ Die(p)
    BY <1>3 DEF Scans, ScanNext, ScanEnds, PublishFails, Search, Examines, LoadCandidate,
                DecideCandidate, ConfirmCandidate, Die, Look, history
<1> QED
    BY <1>1, <1>2, <1>3

UndisturbedInv ==
    /\ Distinct(index.rows)
    /\ \A p \in Clients \ disturbed : Undisturbed(tree, index, pc[p], task[p], answer[p])

LEMMA UndisturbedKept == TypeInv /\ UndisturbedInv /\ [Next]_vars => UndisturbedInv'
<1> SUFFICES ASSUME TypeInv, UndisturbedInv, [Next]_vars PROVE UndisturbedInv'
    OBVIOUS
<1>1. ASSUME NEW p \in Clients,
             \/ Asks(p) \/ Scans(p) \/ PublishFails(p)
             \/ Search(p) \/ Examines(p) \/ Views_(p) \/ Die(p)
      PROVE  UndisturbedInv'
    <2>1. /\ UNCHANGED <<tree, index>> /\ disturbed' \in {disturbed, disturbed \ {p}}
          /\ ~Asks(p) => UNCHANGED disturbed
        BY <1>1, OthersSee, OwnStepIsOK
    <2>2. ASSUME p \notin disturbed'
          PROVE  \E place, u, b : Goes(p, place, u, b) /\ Undisturbed(tree, index, place, u, b)
        <3>1. CASE Asks(p)
            BY <3>1, AsksUndisturbed
        <3>2. CASE ~Asks(p)
            <4>1. Undisturbed(tree, index, pc[p], task[p], answer[p]) /\ Distinct(index.rows)
                BY <2>1, <2>2, <3>2 DEF UndisturbedInv
            <4> QED
                BY <1>1, <3>2, <4>1, ScansUndisturbed, SearchUndisturbed, LooksUndisturbed,
                   ViewsUndisturbed
        <3> QED
            BY <3>1, <3>2
    <2>3. \E place, u, b : Goes(p, place, u, b)
        BY <1>1, OwnStepIsOK DEF StepsTo
    <2>4. \A q \in Clients \ {p} :
              pc'[q] = pc[q] /\ task'[q] = task[q] /\ answer'[q] = answer[q]
        BY <2>3, OnlyOneGoes DEF TypeInv
    <2>5. p \notin disturbed' => Undisturbed(tree, index, pc'[p], task'[p], answer'[p])
        BY <2>2, OnlyOneGoes DEF TypeInv
    <2> QED
        BY <2>1, <2>4, <2>5 DEF UndisturbedInv
<1>2. ASSUME NEW p \in Clients, Publish(p) PROVE UndisturbedInv'
    <2>1. UNCHANGED tree /\ disturbed' = disturbed \cup (Clients \ {p})
        BY <1>2 DEF Publish, Disturb
    <2>2. Distinct(index'.rows)
        BY <1>2, PublishSteps DEF TypeInv, Distinct
    <2>3. ASSUME NEW q \in Clients, q \notin disturbed'
          PROVE  Undisturbed(tree, index', pc'[q], task'[q], answer'[q])
        <3>1. q = p /\ Undisturbed(tree, index, pc[p], task[p], answer[p])
            BY <2>1, <2>3 DEF UndisturbedInv
        <3> QED
            BY <1>2, <3>1, PublishUndisturbed, OnlyOneGoes DEF TypeInv
    <2> QED
        BY <2>1, <2>2, <2>3 DEF UndisturbedInv
<1>3. CASE EditFile \/ LoseIndex
    <2>1. disturbed' = Clients /\ index'.rows \in {index.rows, <<>>}
        BY <1>3 DEF EditFile, LoseIndex, Edited
    <2> QED
        BY <2>1 DEF UndisturbedInv, Distinct
<1>4. CASE UNCHANGED vars
    BY <1>4 DEF vars, UndisturbedInv
<1> QED
    BY <1>1, <1>2, <1>3, <1>4, NextCases

LEMMA UndisturbedAtFirst == Init => UndisturbedInv
    BY DEF Init, UndisturbedInv, Undisturbed, AnswerIsRight, Distinct, NoAnswer,
           Rebuilding, Asked, Seen

\* A call in which nobody interfered misses nothing: recall returns what may be
\* shown of the index, in its order and each once, after a rebuild of the whole
\* Vault, and says resolved only if it withheld nothing (service.py:818-930).
THEOREM MissNothing == Spec => []UndisturbedCalls
<1>1. UndisturbedInv => UndisturbedCalls
    <2> SUFFICES ASSUME UndisturbedInv, NEW p \in Clients \ disturbed
                 PROVE  /\ /\ answer[p].status \in {"resolved", "degraded"} /\ answer[p].limit > 0
                           /\ index.state \in {"resolved", "degraded"}
                           => UndisturbedRecall(p)
                        /\ answer[p].status = "invalid" /\ answer[p].rebuilt => Unreadable(tree)
        BY DEF UndisturbedCalls, Unreadable
    <2>1. AnswerIsRight(tree, index, answer[p])
        BY DEF UndisturbedInv, Undisturbed
    <2>2. MissesNothing(tree, index, answer[p]) => UndisturbedRecall(p)
        BY DEF MissesNothing, UndisturbedRecall, AllIndexed, Distinct
    <2> QED
        BY <2>1, <2>2 DEF AnswerIsRight
<1> QED
    BY <1>1, Typed, UndisturbedAtFirst, UndisturbedKept, PTL DEF Spec
=============================================================================
