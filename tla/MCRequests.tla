----------------------------- MODULE MCRequests -----------------------------
(***************************************************************************)
(* What clients ask of the server, for TLC: seven components that share no *)
(* state in the model.  A behaviour is one of one of them, its focus; the  *)
(* others stand still, so that the state spaces add up and do not          *)
(* multiply.                                                               *)
(***************************************************************************)
EXTENDS MemoryStore, VaultCache, WebSessions, Accounts, Pairing, Projects, SessionUpload

VARIABLE focus

requestVars ==
    <<focus, storeVars, vaultVars, sessionVars, accountVars, pairingVars, projectVars, uploadVars>>

Parts == {"memories", "vaults", "sign-in", "accounts", "pairing", "projects", "uploads"}

\* Where a component has several initial states, one of them will do for the
\* behaviours that are not about it.
StoreAtRest == arg = [r \in MemoryRequests |-> CHOOSE a \in StoreArg : a.id = 0 /\ a.kind = "rest"]
ProjectsAtRest == lastProject = 0

\* Projects and texts are interchangeable: one request may be about the first
\* project, unless it is about a team, and about the first text.
StoreUpToNames ==
    LET r == CHOOSE r \in MemoryRequests : TRUE
    IN  /\ arg[r].project \in {CHOOSE p \in MemoryProjects : TRUE} \cup MemoryTeams
        /\ arg[r].text = CHOOSE t \in Texts : TRUE

RequestsInit ==
    /\ focus \in Parts
    /\ StoreInit /\ (IF focus = "memories" THEN StoreUpToNames ELSE StoreAtRest)
    /\ VaultInit
    /\ WebSessionsInit
    /\ AccountsInit
    /\ PairingInit
    /\ ProjectsInit /\ (focus = "projects" \/ ProjectsAtRest)
    /\ SessionUploadInit

RequestsNext ==
    /\ UNCHANGED focus
    /\ \/ /\ focus = "memories" /\ StoreNext
          /\ UNCHANGED <<vaultVars, sessionVars, accountVars, pairingVars, projectVars, uploadVars>>
       \/ /\ focus = "vaults" /\ VaultNext
          /\ UNCHANGED <<storeVars, sessionVars, accountVars, pairingVars, projectVars, uploadVars>>
       \/ /\ focus = "sign-in" /\ WebSessionsNext
          /\ UNCHANGED <<storeVars, vaultVars, accountVars, pairingVars, projectVars, uploadVars>>
       \/ /\ focus = "accounts" /\ AccountsNext
          /\ UNCHANGED <<storeVars, vaultVars, sessionVars, pairingVars, projectVars, uploadVars>>
       \/ /\ focus = "pairing" /\ PairingNext
          /\ UNCHANGED <<storeVars, vaultVars, sessionVars, accountVars, projectVars, uploadVars>>
       \/ /\ focus = "projects" /\ ProjectsNext
          /\ UNCHANGED <<storeVars, vaultVars, sessionVars, accountVars, pairingVars, uploadVars>>
       \/ /\ focus = "uploads" /\ SessionUploadNext
          /\ UNCHANGED <<storeVars, vaultVars, sessionVars, accountVars, pairingVars, projectVars>>

RequestsSpec == RequestsInit /\ [][RequestsNext]_requestVars

\* The component in focus keeps the types of its variables; the others do not move.
RequestsTypeOK ==
    /\ focus \in Parts
    /\ focus = "memories" => StoreTypeOK
    /\ focus = "vaults" => VaultTypeOK
    /\ focus = "sign-in" => WebSessionsTypeOK
    /\ focus = "accounts" => AccountsTypeOK
    /\ focus = "pairing" => PairingTypeOK
    /\ focus = "projects" => ProjectsTypeOK
    /\ focus = "uploads" => SessionUploadTypeOK

\* What tells two states apart: the component in focus.
InFocus ==
    <<focus,
      CASE focus = "memories" -> storeVars
        [] focus = "vaults" -> vaultVars
        [] focus = "sign-in" -> sessionVars
        [] focus = "accounts" -> accountVars
        [] focus = "pairing" -> pairingVars
        [] focus = "projects" -> projectVars
        [] focus = "uploads" -> uploadVars>>

\* Two projects share a slug, those of two users; a third stands alone.
MCSlugOf == [v1 |-> "shared", v2 |-> "shared", v3 |-> "own"]
=============================================================================
