----------------------------- MODULE Portability -----------------------------
(***************************************************************************)
(* What the policy of now says about the files of a Vault: the evaluation  *)
(* of a portability request (mneme/core/policy.py), the live authorizer    *)
(* that every outward result passes (mneme/core/security.py), and the      *)
(* verdict of Doctor (mneme/core/doctor.py).  All of it is a function of   *)
(* the files: no operator here has a state of its own.                     *)
(*                                                                         *)
(* A tree is a function from artifacts to contents.  Of a readable content *)
(* only what leads to policies is kept: the rules a registry or the index  *)
(* of active policies names, the project and workstream it belongs to, the *)
(* sources it was made from, and the heads of a workstream; and of what it *)
(* says, its text, and the status and predecessor of a memory.  A file     *)
(* that any check of a single file refuses (schema, digest, receipt,       *)
(* secret, path, a revision whose parent is not its predecessor) is Torn.  *)
(***************************************************************************)
EXTENDS Naturals

CONSTANTS
    Rules,      \* references of policy revisions: id, revision and digest
    CeilingOf,  \* CeilingOf[r] is the rank of the rule's ceiling
    None,       \* no project, no workstream
    Absent,     \* there is no such file
    Torn        \* a file that does not load

\* Portability: local-only < personal-vault < shareable.
LocalOnly == 0
PersonalVault == 1
Shareable == 2

ASSUME CeilingAssumption == CeilingOf \in [Rules -> LocalOnly .. Shareable]
ASSUME ContentAssumption == Absent # Torn

File(class, kind, id) == [class |-> class, kind |-> kind, id |-> id]

PolicyIndex == File("portable", "index", "policy-index")
RuleFile(r) == File("portable", "rule", r)

\* A file with nothing that leads to a policy, or to another file.
Plain == [policies |-> {}, project |-> None, workstream |-> None,
          sources |-> {}, heads |-> {},
          text |-> None, status |-> None, supersedes |-> None, overlays |-> None]

\* The file, where the tree has it.
At(tree, a) == IF a \in DOMAIN tree THEN tree[a] ELSE Absent

Loads(tree, a) == At(tree, a) \notin {Absent, Torn}

Memories(tree, class) ==
    {m \in DOMAIN tree : m.class = class /\ m.kind = "memory" /\ tree[m] # Absent}

\* iter_records, which every read of a memory goes through: each loads, and no
\* two name the same predecessor.
MemoriesLoad(tree, class) ==
    /\ \A m \in Memories(tree, class) : Loads(tree, m)
    /\ \A m, n \in Memories(tree, class) :
         tree[m].supersedes = tree[n].supersedes /\ tree[m].supersedes # None => m = n

-----------------------------------------------------------------------------
(* Evaluation of a request (policy.py)                                     *)

Requested(class) == IF class = "portable" THEN PersonalVault ELSE LocalOnly

\* evaluate_portability: the request is within the ceiling of every rule.
Permits(requested, rules) ==
    /\ rules = {} => requested = LocalOnly
    /\ \A r \in rules : requested <= CeilingOf[r]

-----------------------------------------------------------------------------
(* The live authorizer (security.py)                                       *)

\* _load_source: the file of the class asked for; for the local class, if that
\* does not load for any reason, the portable one.
SourceFile(tree, class, id) ==
    IF class = "local" /\ ~Loads(tree, File(class, "source", id))
      THEN File("portable", "source", id)
      ELSE File(class, "source", id)

\* _load_project_with_storage: the portable one only where the local one does
\* not exist.
ProjectFile(tree, class, id) ==
    IF class = "local" /\ At(tree, File(class, "project", id)) = Absent
      THEN File("portable", "project", id)
      ELSE File(class, "project", id)

WorkstreamFiles(tree, a) ==
    CASE a.kind = "workstream" -> {a}
      [] a.kind \in {"session", "memory"} /\ tree[a].workstream # None ->
             {File(a.class, "workstream", tree[a].workstream)}
      [] OTHER -> {}

\* A session names its sources by id; the provenance of a memory says the class.
SourceFiles(tree, a) ==
    CASE a.kind = "source" -> {SourceFile(tree, a.class, a.id)}
      [] a.kind = "session" ->
             {SourceFile(tree, a.class, s.id) : s \in tree[a].sources}
      [] a.kind = "memory" -> tree[a].sources
      [] OTHER -> {}

\* The projects of the artifact, its workstream and its sources; those of the
\* sources of a memory are looked up from the class of the source.
ProjectFiles(tree, a) ==
    LET named(files) ==
            {f \in files : Loads(tree, f) /\ tree[f].project # None}
        own == IF a.kind = "project"
                 THEN {ProjectFile(tree, a.class, a.id)}
                 ELSE {ProjectFile(tree, a.class, tree[f].project) :
                           f \in named({a} \cup WorkstreamFiles(tree, a))}
    IN  own \cup {ProjectFile(tree, IF a.kind = "memory" THEN f.class ELSE a.class,
                              tree[f].project) :
                      f \in named(SourceFiles(tree, a))}

\* _authorization_inputs: the files whose rules apply to the artifact.
Inputs(tree, a) ==
    {PolicyIndex} \cup WorkstreamFiles(tree, a) \cup SourceFiles(tree, a)
                  \cup ProjectFiles(tree, a)

\* _current_rules: those of its inputs, all of which must load.
CurrentRules(tree, a) ==
    UNION {tree[f].policies : f \in Inputs(tree, a)}

\* authorize_current: whatever cannot be read or evaluated is not allowed.
Authorized(tree, a) ==
    /\ a.kind \in {"session", "memory"} => Loads(tree, a)
    /\ a.kind = "memory" => MemoriesLoad(tree, a.class)
    /\ \A f \in Inputs(tree, a) : Loads(tree, f)
    /\ \A r \in CurrentRules(tree, a) : Loads(tree, RuleFile(r))
    /\ Permits(Requested(a.class), CurrentRules(tree, a))

\* The memories that name this one as their predecessor.
Successors(tree, a) ==
    {m \in Memories(tree, a.class) :
        a.kind = "memory" /\ Loads(tree, m) /\ tree[m].supersedes = a.id}

\* _fingerprint: what the verdict on an artifact was based on.  A workstream is
\* in it whole, a session and a memory with what they say; of a project, a source
\* and the index only the rules.
Fingerprint(tree, a) ==
    [artifact |-> a,
     content |-> IF a.kind \in {"session", "memory"} THEN tree[a] ELSE Absent,
     successors |-> Successors(tree, a),
     inputs |-> {[file |-> f,
                  content |-> IF f.kind = "workstream" THEN tree[f] ELSE Absent,
                  policies |-> tree[f].policies] : f \in Inputs(tree, a)}]

Portable(tree) == {a \in DOMAIN tree : a.class = "portable" /\ tree[a] # Absent}

\* authorize_current_tree: every artifact the portable tree has.
TreeAuthorized(tree) ==
    /\ Authorized(tree, File("portable", "vault", "vault"))
    /\ \A a \in Portable(tree) :
         a.kind \in {"project", "source", "workstream", "session", "memory"}
             => Authorized(tree, a)

-----------------------------------------------------------------------------
(* Doctor (doctor.py)                                                      *)

\* _scan_*: the rules a registry names load, and the heads of a workstream are
\* revisions that load.
RegistrySound(tree, a) ==
    /\ \A r \in tree[a].policies : Loads(tree, RuleFile(r))
    /\ \A h \in tree[a].heads : Loads(tree, h)

\* No finding of severity "invalid".  Doctor evaluates the policy of now for
\* sessions and memories, and of a registry only whether its rules load.
Sound(tree) ==
    /\ Loads(tree, PolicyIndex)
    /\ \A a \in Portable(tree) :
         /\ Loads(tree, a)
         /\ a.kind \in {"index", "project", "source", "workstream"}
                => RegistrySound(tree, a)
         /\ a.kind \in {"session", "memory"} => Authorized(tree, a)
=============================================================================
