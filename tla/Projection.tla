----------------------------- MODULE Projection -----------------------------
(***************************************************************************)
(* What may be shown of the files of a Vault at one moment: the rows of    *)
(* recall (mneme/core/service.py) and the views CURRENT and PROFILE        *)
(* (service.py, context.py, resolver.py, memories.py), with the verdict a  *)
(* cached view is bound to.  All of it is a function of the files.         *)
(*                                                                         *)
(* A view is the set of the rows it shows.  Its wording, the difference    *)
(* between resolved and divergent, and the limits of four heads and five   *)
(* memories are left out.                                                  *)
(***************************************************************************)
EXTENDS Portability

(* Rows, and what may be shown of a tree                                   *)

Row(t, a) == [file |-> a, text |-> t[a].text]

\* The artifact whose policy governs a row.
Governing(a) == IF a.kind = "file" THEN File("portable", "source", a.id) ELSE a

\* A memory that was accepted keeps the marker when it is retired.
Marked(content) == content.status \in {"accepted", "retired"}

\* _accepted_memory_is_current, _has_successor
NotSuperseded(t, m) == \A s \in Successors(t, m) : ~Marked(t[s])
Current(t, m) == t[m].status = "accepted" /\ NotSuperseded(t, m)

\* The row says what its artifact says, and the artifact may be shown.
Says(t, r) ==
    /\ Loads(t, r.file) /\ Row(t, r.file) = r
    /\ r.file.kind = "memory" => Current(t, r.file)
Exposable(t, r) == Says(t, r) /\ Authorized(t, Governing(r.file))

-----------------------------------------------------------------------------
(* The views of a tree (context.py, resolver.py, render_profile)           *)

Personal(content) == content.project = None /\ content.workstream = None

\* resolve_workstream: the heads of a registry, all authorized and readable.
Resolved(t, w) ==
    /\ Loads(t, w) /\ Authorized(t, w)
    /\ \A h \in t[w].heads : Authorized(t, h)

\* _context_memories
ContextMemories(t, w) ==
    {m \in Memories(t, w.class) :
        /\ \/ Personal(t[m])
           \/ t[m].workstream = w.id
           \/ t[w].project # None /\ t[m].project = t[w].project
        /\ Current(t, m) /\ Authorized(t, m)}

\* A registry whose memories cannot be read is shown without them.
Layer(t, w) ==
    {Row(t, h) : h \in t[w].heads} \cup
    IF MemoriesLoad(t, w.class) THEN {Row(t, m) : m \in ContextMemories(t, w)} ELSE {}

\* _load_overlay: every local workstream is read to find the one that overlays.
Overlays(t, v) ==
    {a \in DOMAIN t :
        /\ v.mode = "effective-local" /\ a.class = "local" /\ a.kind = "workstream"
        /\ t[a] # Absent /\ (t[a] # Torn => t[a].overlays = v.workstream)}

OverlayResolved(t, v) ==
    \E o \in DOMAIN t : Overlays(t, v) = {o} /\ Resolved(t, o)

RenderCurrent(t, v) ==
    LET w == File("portable", "workstream", v.workstream)
        overlay == OverlayResolved(t, v)
    IN  IF ~Resolved(t, w)
          THEN [valid |-> FALSE, overlay |-> overlay,
                rows |-> IF overlay
                           THEN {Row(t, h) : h \in UNION {t[o].heads : o \in Overlays(t, v)}}
                           ELSE {}]
          ELSE [valid |-> TRUE, overlay |-> overlay,
                rows |-> Layer(t, w) \cup
                         IF overlay THEN UNION {Layer(t, o) : o \in Overlays(t, v)} ELSE {}]

\* The memories of one scope, here those of the person.
ProfileMemories(t, class) ==
    {m \in Memories(t, class) : Personal(t[m]) /\ Current(t, m)}

RenderProfile(t, v) ==
    [valid |-> MemoriesLoad(t, v.class), overlay |-> FALSE,
     rows |-> IF MemoriesLoad(t, v.class)
                THEN {Row(t, m) : m \in {n \in ProfileMemories(t, v.class) :
                                            Authorized(t, n)}}
                ELSE {}]

Render(t, v) == IF v.name = "CURRENT" THEN RenderCurrent(t, v) ELSE RenderProfile(t, v)

\* authorize_context_view, authorize_profile_view: the verdict on everything the
\* view is made from, with a fingerprint of what the verdict rests on.
NoDecision == [allowed |-> FALSE, fingerprint |-> Absent, bound |-> <<>>]

Verdict(t, refs, v) ==
    IF \A a \in refs : Authorized(t, a)
      THEN [allowed |-> TRUE, fingerprint |-> <<v, {Fingerprint(t, a) : a \in refs}>>,
            bound |-> <<>>]
      ELSE NoDecision

Decide(t, v) ==
    IF v.name = "PROFILE"
      THEN IF MemoriesLoad(t, v.class)
             THEN Verdict(t, {File("portable", "vault", "vault")}
                                 \cup ProfileMemories(t, v.class), v)
             ELSE NoDecision
      ELSE LET w == File("portable", "workstream", v.workstream) IN
           IF Loads(t, w) THEN Verdict(t, {w} \cup t[w].heads, v) ELSE NoDecision

\* _bind_context_projection: the overlay and the memories shown are bound to the
\* verdict, and so is the text.
Bind(t, v, decision, shown) ==
    LET w == File("portable", "workstream", v.workstream)
        layers == {w} \cup IF shown.overlay THEN Overlays(t, v) ELSE {}
        refs == UNION {ContextMemories(t, a) : a \in layers} \cup
                UNION {{a} \cup t[a].heads : a \in layers \ {w}}
    IN  IF ~decision.allowed \/ v.name = "PROFILE"
          THEN decision
          ELSE IF \A a \in layers : Loads(t, a) /\ MemoriesLoad(t, a.class)
                 THEN IF \A a \in refs : Authorized(t, a)
                        THEN [decision EXCEPT
                                !.bound = <<shown, {Fingerprint(t, a) : a \in refs}>>]
                        ELSE NoDecision
                 ELSE NoDecision
=============================================================================
