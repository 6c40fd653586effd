---------------------------- MODULE RequestsProofs ----------------------------
(***************************************************************************)
(* Safety of the cached workspaces, and of everything that clients ask of  *)
(* the server together: each component is proved by itself, and the        *)
(* composition that TLC checks is shown to implement every one of them.    *)
(***************************************************************************)
EXTENDS MCRequests, MemoryStoreProofs, IdentityProofs, UploadProofs

-----------------------------------------------------------------------------
(* The cached workspaces *)

\* A reader that is about to fill a file asks for a project.
ReadersAskForProjects == \A r \in Readers : readers[r] # NoVault => readers[r].project \in VaultProjects

VaultInv == ReadersAskForProjects /\ CachedVaultIsFresh

\* A slug that one project has is found by that project only.
LEMMA OwnSlug ==
  ASSUME NEW p \in VaultProjects, ~SharesSlug(p)
  PROVE  \A q \in VaultProjects \ {p} : SlugOf[q] # SlugOf[p]
BY DEF SharesSlug

\* Every step keeps cached workspaces fresh.
LEMMA VaultStep ==
  ASSUME VaultTypeOK, VaultInv, [VaultNext]_vaultVars
  PROVE  VaultTypeOK' /\ VaultInv'
<1> USE VaultCacheAssumption DEF VaultCacheAssumption
<1>0. NoVault \in Snapshots /\ \A p \in VaultProjects : SlugOf[p] \in VaultSlugs
  BY DEF NoVault, Snapshots, VaultSlugs
<1>1. ASSUME NEW r \in Readers, NEW p \in VaultProjects, ListForVault(r, p)
      PROVE  VaultTypeOK' /\ VaultInv'
  <2>1. PICK snapshot : snapshot = [project |-> p, of |-> contents[p]]
    OBVIOUS
  <2>2. snapshot \in Snapshots /\ snapshot.project = p
    BY <2>1 DEF Snapshots, VaultTypeOK
  <2>3. /\ readers' \in [Readers -> Snapshots]
        /\ readers'[r] = snapshot
        /\ \A q \in Readers \ {r} : readers'[q] = readers[q]
        /\ UNCHANGED <<contents, changes, vault, writers, crossed>>
    BY <1>1, <2>1, <2>2 DEF ListForVault, VaultTypeOK
  <2> QED BY <2>2, <2>3 DEF VaultTypeOK, VaultInv, ReadersAskForProjects, CachedVaultIsFresh
<1>2. ASSUME NEW r \in Readers, WriteVault(r) PROVE VaultTypeOK' /\ VaultInv'
  <2>1. PICK p \in VaultProjects, row \in Snapshots :
          row = readers[r] /\ p = row.project /\ row # NoVault
    BY <1>2 DEF WriteVault, VaultInv, ReadersAskForProjects, VaultTypeOK
  <2>2. PICK s \in VaultSlugs : s = SlugOf[p]
    BY <1>0
  <2>3. /\ vault' = [vault EXCEPT ![s] = row]
        /\ crossed' = IF row.of # contents[p] THEN crossed \cup {s} ELSE crossed \ {s}
        /\ readers' = [readers EXCEPT ![r] = NoVault]
        /\ UNCHANGED <<contents, changes, writers>>
    BY <1>2, <2>1, <2>2 DEF WriteVault
  <2>4. /\ vault' \in [VaultSlugs -> Snapshots]
        /\ vault'[s] = row
        /\ \A t \in VaultSlugs \ {s} : vault'[t] = vault[t]
        /\ readers' \in [Readers -> Snapshots]
        /\ readers'[r] = NoVault
        /\ \A q \in Readers \ {r} : readers'[q] = readers[q]
        /\ crossed' \subseteq VaultSlugs
    BY <1>0, <2>3 DEF VaultTypeOK
  <2>5. ASSUME NEW q \in VaultProjects, ~SharesSlug(q), SlugOf[q] \notin crossed', vault'[SlugOf[q]] # NoVault,
               \A w \in Writers : writers[w] # q
        PROVE  vault'[SlugOf[q]].of = contents[q]
    <3>1. CASE q = p
      BY <2>2, <2>3, <2>4, <2>5, <3>1
    <3>2. CASE q # p
      <4>1. SlugOf[q] # s /\ SlugOf[q] \in VaultSlugs
        BY <1>0, <2>2, <2>5, <3>2, OwnSlug
      <4>2. vault'[SlugOf[q]] = vault[SlugOf[q]] /\ SlugOf[q] \notin crossed
        BY <2>3, <2>4, <2>5, <4>1
      <4> QED BY <2>5, <4>2 DEF VaultInv, CachedVaultIsFresh
    <3> QED BY <3>1, <3>2
  <2>6. CachedVaultIsFresh'
    BY <2>3, <2>5 DEF CachedVaultIsFresh, SharesSlug
  <2> QED BY <2>3, <2>4, <2>6 DEF VaultTypeOK, VaultInv, ReadersAskForProjects
<1>3. ASSUME NEW w \in Writers, NEW p \in VaultProjects, ChangeMemories(w, p)
      PROVE  VaultTypeOK' /\ VaultInv'
  <2>1. /\ changes' \in 0..MaxChanges
        /\ contents' \in [VaultProjects -> 0..MaxChanges]
        /\ \A q \in VaultProjects \ {p} : contents'[q] = contents[q]
        /\ writers' \in [Writers -> VaultProjects \cup {"none"}]
        /\ writers'[w] = p /\ writers[w] = "none"
        /\ \A v \in Writers \ {w} : writers'[v] = writers[v]
        /\ UNCHANGED <<vault, readers, crossed>>
    BY <1>3 DEF ChangeMemories, VaultTypeOK
  <2>2. CachedVaultIsFresh'
    <3> SUFFICES ASSUME NEW q \in VaultProjects, ~SharesSlug(q), SlugOf[q] \notin crossed,
                        vault[SlugOf[q]] # NoVault, \A v \in Writers : writers'[v] # q
                 PROVE  vault[SlugOf[q]].of = contents'[q]
      BY <2>1 DEF CachedVaultIsFresh, SharesSlug
    <3>1. q # p /\ \A v \in Writers : writers[v] # q
      BY <2>1
    <3> QED BY <2>1, <3>1 DEF VaultInv, CachedVaultIsFresh
  <2> QED BY <2>1, <2>2 DEF VaultTypeOK, VaultInv, ReadersAskForProjects
<1>4. ASSUME NEW w \in Writers, Invalidate(w) PROVE VaultTypeOK' /\ VaultInv'
  <2>1. PICK p \in VaultProjects, s \in VaultSlugs : p = writers[w] /\ s = SlugOf[p]
    BY <1>0, <1>4 DEF Invalidate, VaultTypeOK
  <2>2. /\ vault' \in [VaultSlugs -> Snapshots]
        /\ vault'[s] = NoVault
        /\ \A t \in VaultSlugs \ {s} : vault'[t] = vault[t]
        /\ crossed' = crossed \ {s}
        /\ writers' \in [Writers -> VaultProjects \cup {"none"}]
        /\ \A v \in Writers \ {w} : writers'[v] = writers[v]
        /\ UNCHANGED <<contents, changes, readers>>
    BY <1>0, <1>4, <2>1 DEF Invalidate, VaultTypeOK
  <2>3. CachedVaultIsFresh'
    <3> SUFFICES ASSUME NEW q \in VaultProjects, ~SharesSlug(q), SlugOf[q] \notin crossed',
                        vault'[SlugOf[q]] # NoVault, \A v \in Writers : writers'[v] # q
                 PROVE  vault'[SlugOf[q]].of = contents[q]
      BY <2>2 DEF CachedVaultIsFresh, SharesSlug
    <3>1. SlugOf[q] # s /\ SlugOf[q] \in VaultSlugs /\ q # p
      BY <1>0, <2>1, <2>2
    <3>2. vault'[SlugOf[q]] = vault[SlugOf[q]] /\ SlugOf[q] \notin crossed
      BY <2>2, <3>1
    <3>3. \A v \in Writers : writers[v] # q
      BY <2>1, <2>2, <3>1
    <3> QED BY <3>2, <3>3 DEF VaultInv, CachedVaultIsFresh
  <2> QED BY <2>2, <2>3 DEF VaultTypeOK, VaultInv, ReadersAskForProjects
<1>5. ASSUME NEW w \in Writers, WriterDies(w) PROVE VaultTypeOK' /\ VaultInv'
  <2>1. PICK p \in VaultProjects, s \in VaultSlugs : p = writers[w] /\ s = SlugOf[p]
    BY <1>0, <1>5 DEF WriterDies, VaultTypeOK
  <2>2. /\ crossed' = crossed \cup {s}
        /\ writers' \in [Writers -> VaultProjects \cup {"none"}]
        /\ \A v \in Writers \ {w} : writers'[v] = writers[v]
        /\ readers' \in [Readers -> Snapshots]
        /\ \A r \in Readers : readers'[r] = NoVault
        /\ UNCHANGED <<contents, changes, vault>>
    BY <1>0, <1>5, <2>1 DEF WriterDies, VaultTypeOK
  <2>3. CachedVaultIsFresh'
    <3> SUFFICES ASSUME NEW q \in VaultProjects, ~SharesSlug(q), SlugOf[q] \notin crossed',
                        vault[SlugOf[q]] # NoVault, \A v \in Writers : writers'[v] # q
                 PROVE  vault[SlugOf[q]].of = contents[q]
      BY <2>2 DEF CachedVaultIsFresh, SharesSlug
    <3>1. q # p /\ SlugOf[q] \notin crossed
      BY <2>1, <2>2
    <3>2. \A v \in Writers : writers[v] # q
      BY <2>1, <2>2, <3>1
    <3> QED BY <3>1, <3>2 DEF VaultInv, CachedVaultIsFresh
  <2> QED BY <2>2, <2>3 DEF VaultTypeOK, VaultInv, ReadersAskForProjects
<1>6. CASE UNCHANGED vaultVars
  BY <1>6 DEF vaultVars, VaultTypeOK, VaultInv, ReadersAskForProjects, CachedVaultIsFresh, SharesSlug
<1> QED BY <1>1, <1>2, <1>3, <1>4, <1>5, <1>6 DEF VaultNext

\* The cached workspaces keep their types, and the invariants above hold.
THEOREM VaultsAreSound == VaultSpec => [](VaultTypeOK /\ VaultInv)
<1>1. VaultInit => VaultTypeOK /\ VaultInv
  <2> SUFFICES ASSUME VaultInit PROVE VaultTypeOK /\ VaultInv
    OBVIOUS
  <2>1. NoVault \in Snapshots /\ 0 \in 0..MaxChanges
    BY VaultCacheAssumption DEF VaultCacheAssumption, NoVault, Snapshots
  <2>2. VaultTypeOK
    BY <2>1 DEF VaultInit, VaultTypeOK
  <2>3. \A p \in VaultProjects : vault[SlugOf[p]] = NoVault
    BY DEF VaultInit, VaultSlugs
  <2>4. VaultInv
    BY <2>3 DEF VaultInit, VaultInv, ReadersAskForProjects, CachedVaultIsFresh
  <2> QED BY <2>2, <2>4
<1> QED BY <1>1, VaultStep, PTL DEF VaultSpec

\* No order of quick fills and changes leaves an old file behind.
THEOREM CachedVaultsStayFresh == VaultSpec => []CachedVaultIsFresh
<1>1. VaultInv => CachedVaultIsFresh
  BY DEF VaultInv
<1> QED BY <1>1, VaultsAreSound, PTL
-----------------------------------------------------------------------------
(* All components together *)

\* A behaviour of the composition is, for every component, one of its own or one
\* in which it stands still.
THEOREM RequestsRefineTheirParts ==
  RequestsSpec => /\ StoreSpec /\ VaultSpec /\ WebSessionsSpec /\ AccountsSpec
                  /\ PairingSpec /\ ProjectsSpec /\ SessionUploadSpec
<1>1. RequestsInit => /\ StoreInit /\ VaultInit /\ WebSessionsInit /\ AccountsInit
                      /\ PairingInit /\ ProjectsInit /\ SessionUploadInit
  BY DEF RequestsInit
<1>2. [RequestsNext]_requestVars =>
        /\ [StoreNext]_storeVars /\ [VaultNext]_vaultVars /\ [WebSessionsNext]_sessionVars
        /\ [AccountsNext]_accountVars /\ [PairingNext]_pairingVars
        /\ [ProjectsNext]_projectVars /\ [SessionUploadNext]_uploadVars
  BY DEF RequestsNext, requestVars
<1> QED
  BY <1>1, <1>2, PTL
     DEF RequestsSpec, StoreSpec, VaultSpec, WebSessionsSpec, AccountsSpec, PairingSpec,
         ProjectsSpec, SessionUploadSpec

\* Whatever clients ask, the component they ask keeps its types.
THEOREM RequestsTypeCorrect == RequestsSpec => []RequestsTypeOK
<1>1. RequestsInit => focus \in Parts
  BY DEF RequestsInit
<1>2. focus \in Parts /\ [RequestsNext]_requestVars => (focus \in Parts)'
  BY DEF RequestsNext, requestVars
<1>3. RequestsSpec => [](focus \in Parts)
  BY <1>1, <1>2, PTL DEF RequestsSpec
<1>4. /\ focus \in Parts /\ StoreTypeOK /\ VaultTypeOK /\ WebSessionsTypeOK /\ AccountsTypeOK
      /\ PairingTypeOK /\ ProjectsTypeOK /\ SessionUploadTypeOK
      => RequestsTypeOK
  BY DEF RequestsTypeOK
<1> QED
  BY <1>3, <1>4, RequestsRefineTheirParts, StoreTypeCorrect, VaultsAreSound,
     WebSessionsTypeCorrect, AccountsAreSound, PairingTypeCorrect, ProjectsAreSound,
     UploadsAreSound, PTL

\* What holds of each component by itself holds of the server that runs them all:
\* vectors are those of their texts, cached files are fresh, lock-outs end, somebody
\* can approve, tokens that were handed out can be revoked, folders stay apart, and
\* files are marked as uploaded only when they are.
THEOREM RequestsAreSafe ==
  RequestsSpec => []( /\ VectorMatchesText /\ CachedVaultIsFresh /\ LockoutsEnd
                      /\ SomebodyCanApprove /\ GivenTokensAreKnown /\ FoldersStayApart
                      /\ MarksAreEarned /\ RepeatsAreSkipped )
BY RequestsRefineTheirParts, VectorsMatchTheirTexts, CachedVaultsStayFresh, LockoutsAlwaysEnd,
   ApproversRemain, GivenTokensCanBeRevoked, FoldersAreKeptApart, MarksStayEarned,
   RepeatsStaySkipped, PTL

\* Nor does any step of the server write another project's memories or take away the
\* last way to sign in.
THEOREM RequestsTakeNothingAway == RequestsSpec => ForeignRowsUntouched /\ DisconnectKeepsAccess
BY RequestsRefineTheirParts, ProjectsAreIsolated, DisconnectingIsSafe, PTL
=============================================================================
