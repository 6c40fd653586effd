----------------------------- MODULE VaultCache -----------------------------
(***************************************************************************)
(* vault.json, the cached workspace of a project.  A request that finds no *)
(* file (or asks for a refresh) lists the memories, builds the workspace   *)
(* and writes the file; every change of the memories removes the file once *)
(* the store has it.  The file is found by the slug of the project alone.  *)
(***************************************************************************)
EXTENDS Integers

CONSTANTS
    VaultProjects,  \* projects, of one user or of several
    SlugOf,         \* their slugs, unique per user
    Readers,        \* requests for workspace, preview or export
    Writers,        \* requests and worker passes that change memories
    MaxChanges      \* bound: changes of memories

ASSUME VaultCacheAssumption ==
    /\ MaxChanges \in Nat
    /\ "none" \notin VaultProjects

VaultSlugs == {SlugOf[p] : p \in VaultProjects}

VARIABLES
    contents,  \* the memories of a project: the number of their last change
    changes,
    vault,     \* the file of a slug: project and contents, or NoVault
    readers,   \* the project a reader has no file for, and what it has listed
    writers,   \* the project a writer has changed and not yet invalidated
    crossed    \* history: slugs whose file was filled from a list changed meanwhile,
               \* or was not dropped because the process died

vaultVars == <<contents, changes, vault, readers, writers, crossed>>

NoVault == [project |-> "none", of |-> 0]

Snapshots == [project : VaultProjects \cup {"none"}, of : 0..MaxChanges]

VaultTypeOK ==
    /\ contents \in [VaultProjects -> 0..MaxChanges]
    /\ changes \in 0..MaxChanges
    /\ vault \in [VaultSlugs -> Snapshots]
    /\ readers \in [Readers -> Snapshots]
    /\ writers \in [Writers -> VaultProjects \cup {"none"}]
    /\ crossed \subseteq VaultSlugs

VaultInit ==
    /\ contents = [p \in VaultProjects |-> 0]
    /\ changes = 0
    /\ vault = [s \in VaultSlugs |-> NoVault]
    /\ readers = [r \in Readers |-> NoVault]
    /\ writers = [w \in Writers |-> "none"]
    /\ crossed = {}

-----------------------------------------------------------------------------

\* The file is not there, or ?refresh: the store is asked.  (A file that is
\* there is answered as it is, and nothing changes.)
ListForVault(r, p) ==
    /\ readers[r] = NoVault
    /\ readers' = [readers EXCEPT ![r] = [project |-> p, of |-> contents[p]]]
    /\ UNCHANGED <<contents, changes, vault, writers, crossed>>

\* build_and_cache_project_vault, without giving way to anybody.
WriteVault(r) ==
    LET p == readers[r].project
        s == SlugOf[p]
    IN  /\ readers[r] # NoVault
        /\ vault' = [vault EXCEPT ![s] = readers[r]]
        /\ crossed' = IF readers[r].of # contents[p] THEN crossed \cup {s} ELSE crossed \ {s}
        /\ readers' = [readers EXCEPT ![r] = NoVault]
        /\ UNCHANGED <<contents, changes, writers>>

\* save, update, delete, clear, a distilled session: the store first.
ChangeMemories(w, p) ==
    /\ writers[w] = "none"
    /\ changes < MaxChanges
    /\ changes' = changes + 1
    /\ contents' = [contents EXCEPT ![p] = changes + 1]
    /\ writers' = [writers EXCEPT ![w] = p]
    /\ UNCHANGED <<vault, readers, crossed>>

\* Mutant of Invalidate: a file about to be written is not worth dropping.
InvalidateUnlessFilling(w) ==
    LET p == writers[w]
        s == SlugOf[p]
        filling == \E r \in Readers : readers[r].project = p
    IN  /\ writers[w] # "none"
        /\ vault' = IF filling THEN vault ELSE [vault EXCEPT ![s] = NoVault]
        /\ crossed' = IF filling THEN crossed ELSE crossed \ {s}
        /\ writers' = [writers EXCEPT ![w] = "none"]
        /\ UNCHANGED <<contents, changes, readers>>

\* invalidate_project_vault_cache: rmtree of the directory of the slug.
Invalidate(w) ==
    LET s == SlugOf[writers[w]]
    IN  /\ writers[w] # "none"
        /\ vault' = [vault EXCEPT ![s] = NoVault]
        /\ crossed' = crossed \ {s}
        /\ writers' = [writers EXCEPT ![w] = "none"]
        /\ UNCHANGED <<contents, changes, readers>>

\* The process dies between the two calls.
WriterDies(w) ==
    /\ writers[w] # "none"
    /\ crossed' = crossed \cup {SlugOf[writers[w]]}
    /\ writers' = [writers EXCEPT ![w] = "none"]
    /\ readers' = [r \in Readers |-> NoVault]
    /\ UNCHANGED <<contents, changes, vault>>

VaultNext ==
    \/ \E r \in Readers, p \in VaultProjects : ListForVault(r, p)
    \/ \E r \in Readers : WriteVault(r)
    \/ \E w \in Writers, p \in VaultProjects : ChangeMemories(w, p)
    \/ \E w \in Writers : Invalidate(w) \/ WriterDies(w)

VaultSpec == VaultInit /\ [][VaultNext]_vaultVars

-----------------------------------------------------------------------------

SharesSlug(p) == \E q \in VaultProjects \ {p} : SlugOf[q] = SlugOf[p]

\* A cached workspace shows the memories of its project, except while a writer is
\* about to drop it, after a fill that overlapped a change or a crash before the
\* drop (that file stays until the next change), and among projects that share a
\* slug: no order of quick fills and changes leaves an old file behind.
CachedVaultIsFresh ==
    \A p \in VaultProjects :
        LET cached == vault[SlugOf[p]]
        IN  (/\ cached # NoVault
             /\ ~SharesSlug(p)
             /\ SlugOf[p] \notin crossed
             /\ \A w \in Writers : writers[w] # p)
            => cached.of = contents[p]
=============================================================================
