------------------------------ MODULE MCRecall ------------------------------
(***************************************************************************)
(* Instances of Recall: two memories, the second of which is a correction  *)
(* of the first that may come and go; a source of a project whose policy   *)
(* may be tightened, with a mounted file; a workstream with a session, and *)
(* a local overlay.                                                        *)
(***************************************************************************)
EXTENDS Recall, TLC

CONSTANTS first, second, lax, strict, madi, notes, work, mine, sess, old, new

TwoClients == {first, second}
Tasks == first :> {"recall", "view"} @@ second :> {"reindex", "view"}
TwoRules == {lax, strict}
Ceilings == lax :> Shareable @@ strict :> LocalOnly

M1 == File("portable", "memory", "m1")
M2 == File("portable", "memory", "m2")
Source == File("portable", "source", notes)
Project == File("portable", "project", madi)
Mount == Mounted(notes)
Workstream == File("portable", "workstream", work)
Overlay == File("local", "workstream", mine)
Session == File("portable", "session", sess)

ActiveLax == [Plain EXCEPT !.policies = {lax}]
Tightened == [Plain EXCEPT !.policies = {strict}, !.text = new]
OfProject == [Plain EXCEPT !.project = madi]
Told == [Plain EXCEPT !.text = old]
WithHead == [OfProject EXCEPT !.heads = {Session}]
InWorkstream == [Told EXCEPT !.workstream = work]
OverWork == [Plain EXCEPT !.overlays = work]
Memory(status, text) == [Plain EXCEPT !.status = status, !.text = text]
Correction(status) == [Memory(status, new) EXCEPT !.supersedes = "m1"]

Files == {PolicyIndex, RuleFile(lax), RuleFile(strict), M1, M2, Source, Project, Mount,
          Workstream, Overlay, Session}

AllContents ==
    {Absent, Torn, Plain, ActiveLax, Tightened, OfProject, Told, WithHead,
     InWorkstream, OverWork, Memory("accepted", old), Correction("accepted")}

FirstFiles ==
    [a \in Files |->
        CASE a = PolicyIndex -> ActiveLax
          [] a = M1 -> Memory("accepted", old)
          [] a = M2 -> Absent
          [] a = Source -> OfProject
          [] a = Mount -> Told
          [] a = Workstream -> WithHead
          [] a = Overlay -> OverWork
          [] a = Session -> InWorkstream
          [] OTHER -> Plain]

Edit(by, file, content) == [by |-> by, file |-> file, content |-> content]

SomeEdits ==
    {Edit("command", M2, Correction("accepted")),
     Edit("hand", M2, Absent),
     Edit("command", Project, Tightened),
     Edit("hand", M1, Torn),
     Edit("hand", Mount, Absent)}

\* Registries other than that of the source are left out of the scan, so that
\* the index has few rows.
ScanOrder == <<Source, M1, M2, Mount>>
TwoRankings ==
    {Source :> 1 @@ M1 :> 2 @@ M2 :> 3 @@ Mount :> 4,
     Source :> 4 @@ M1 :> 3 @@ M2 :> 2 @@ Mount :> 1}
JustTwo == {2}

SomeViews ==
    {[name |-> "CURRENT", class |-> "portable", workstream |-> work,
      mode |-> "effective-local"],
     [name |-> "PROFILE", class |-> "portable", workstream |-> None,
      mode |-> "portable"]}
=============================================================================
