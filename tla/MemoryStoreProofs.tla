-------------------------- MODULE MemoryStoreProofs --------------------------
(***************************************************************************)
(* Safety of the memory table for every number of requests, projects,      *)
(* teams, texts and tags.                                                  *)
(***************************************************************************)
EXTENDS MemoryStore, FiniteSetTheorems, TLAPS

-----------------------------------------------------------------------------
(* The inductive invariants *)

\* Who may still save a memory, and did not yet.
MaySave == {r \in MemoryRequests : step[r] \in {"new", "insert", "store"}}

\* There is an id left for everybody who may still save.
IdsSuffice == used + Cardinality(MaySave) <= Cardinality(MemoryRequests)

\* An id that was not handed out has no row.
FreshIdsAreEmpty == \A i \in MemoryIds : i > used => memories[i] = NoMemory

\* Whose next step addresses a row by its id alone.
Holds(r, i) == step[r] = "write" /\ arg[r].id = i

\* An update that is about to write holds an id that was handed out, and the
\* row under it, if it is still there, is of the project the update checked.
WritersAreAtHome ==
    \A r \in MemoryRequests, i \in MemoryIds :
        Holds(r, i) => i <= used /\ memories[i] \in {NoMemory} \cup {m \in MemoryRow : m.project = arg[r].project}

\* Whoever looks for an id looks for one that was handed out.
HeldIdsExist ==
    \A r \in MemoryRequests :
        step[r] \in {"update", "write", "retag", "erase"} => arg[r].id \in 1..used

\* All who are about to write one id are of one project: a row deleted between
\* the two calls of an update comes back where it was, if it comes back.
WritersAgree ==
    \A q, r \in MemoryRequests, i \in MemoryIds :
        Holds(q, i) /\ Holds(r, i) => arg[q].project = arg[r].project

StoreInv ==
    /\ FreshIdsAreEmpty
    /\ HeldIdsExist
    /\ WritersAreAtHome
    /\ WritersAgree
    /\ VectorMatchesText

-----------------------------------------------------------------------------
(* Type correctness *)

\* Sets of requests are finite.
LEMMA RequestsAreFinite ==
  ASSUME NEW S \in SUBSET MemoryRequests
  PROVE  IsFiniteSet(S) /\ Cardinality(S) \in Nat
BY MemoryStoreAssumption, FS_Subset, FS_CardinalityType DEF MemoryStoreAssumption

\* A request that saves finds an id, and leaves enough of them to the others.
LEMMA SaverFindsAnId ==
  ASSUME StoreTypeOK, IdsSuffice, NEW r \in MemoryRequests, NEW s \in StoreSteps,
         r \in MaySave, s \notin {"new", "insert", "store"}, GoTo(r, s)
  PROVE  /\ used + 1 \in MemoryIds
         /\ used + 1 <= Cardinality(MemoryRequests)
         /\ used' = used + 1 => IdsSuffice'
<1>1. MaySave' = MaySave \ {r}
  BY DEF MaySave, GoTo, StoreTypeOK
<1>2. MaySave \in SUBSET MemoryRequests /\ MaySave' \in SUBSET MemoryRequests
  BY DEF MaySave
<1>3. Cardinality(MaySave') = Cardinality(MaySave) - 1
  BY <1>1, <1>2, RequestsAreFinite, FS_RemoveElement
<1>4. /\ Cardinality(MaySave') \in Nat
      /\ Cardinality(MaySave) \in Nat
      /\ Cardinality(MemoryRequests) \in Nat
  BY <1>2, RequestsAreFinite
<1> QED BY <1>3, <1>4 DEF IdsSuffice, StoreTypeOK, MemoryIds

\* A request that goes on without saving leaves the ids to the others.
LEMMA OthersKeepTheirIds ==
  ASSUME StoreTypeOK, IdsSuffice, NEW r \in MemoryRequests, NEW s,
         s \in {"new", "insert", "store"} => r \in MaySave,
         GoTo(r, s), UNCHANGED used
  PROVE  IdsSuffice'
<1>1. MaySave' \in SUBSET MaySave
  BY DEF MaySave, GoTo, StoreTypeOK
<1>2. MaySave \in SUBSET MemoryRequests /\ MaySave' \in SUBSET MemoryRequests
  BY <1>1 DEF MaySave
<1>3. Cardinality(MaySave') <= Cardinality(MaySave)
  BY <1>1, <1>2, RequestsAreFinite, FS_Subset
<1>4. /\ Cardinality(MaySave') \in Nat
      /\ Cardinality(MaySave) \in Nat
      /\ Cardinality(MemoryRequests) \in Nat
  BY <1>2, RequestsAreFinite
<1> QED BY <1>3, <1>4 DEF IdsSuffice, StoreTypeOK

\* What SaveRow and the merge_insert write is a row.
LEMMA RowsAreRows ==
  ASSUME StoreTypeOK, NEW r \in MemoryRequests
  PROVE  [project |-> arg[r].project, text |-> arg[r].text, vector |-> arg[r].text,
          tags |-> arg[r].tags] \in MemoryRow
BY DEF StoreTypeOK, StoreArg, MemoryRow

\* What a request remembers keeps its type, whatever it learns.
LEMMA LearningIsTyped ==
  ASSUME StoreTypeOK, NEW r \in MemoryRequests, NEW i \in MemoryIds, NEW g \in Tags,
         NEW k \in {"rest", "mcp"}
  PROVE  /\ [arg EXCEPT ![r].id = i] \in [MemoryRequests -> StoreArg]
         /\ [arg EXCEPT ![r].tags = g] \in [MemoryRequests -> StoreArg]
         /\ [arg EXCEPT ![r].id = i, ![r].kind = k] \in [MemoryRequests -> StoreArg]
         /\ [arg EXCEPT ![r].id = i, ![r].tags = g] \in [MemoryRequests -> StoreArg]
         /\ [arg EXCEPT ![r].id = i, ![r].tags = g, ![r].kind = k]
              \in [MemoryRequests -> StoreArg]
<1>1. arg \in [MemoryRequests -> StoreArg]
  BY DEF StoreTypeOK
<1>2. /\ [arg EXCEPT ![r].id = i] \in [MemoryRequests -> StoreArg]
      /\ [arg EXCEPT ![r].tags = g] \in [MemoryRequests -> StoreArg]
  BY <1>1 DEF StoreArg
<1>3. [arg EXCEPT ![r].id = i, ![r].kind = k] \in [MemoryRequests -> StoreArg]
  BY <1>1 DEF StoreArg
<1>4. [arg EXCEPT ![r].id = i, ![r].tags = g] \in [MemoryRequests -> StoreArg]
  BY <1>1 DEF StoreArg
<1>5. [arg EXCEPT ![r].id = i, ![r].tags = g, ![r].kind = k] \in [MemoryRequests -> StoreArg]
  BY <1>1, ZenonT(60) DEF StoreArg
<1> QED BY <1>2, <1>3, <1>4, <1>5

\* A row that the filter of a project or team finds is a row.
LEMMA FoundIsARow ==
  ASSUME StoreTypeOK, NEW r \in MemoryRequests, NEW i, Finds(arg[r].project, i)
  PROVE  /\ i \in MemoryIds
         /\ memories[i] \in MemoryRow
         /\ memories[i].project = arg[r].project
<1>1. i \in MemoryIds /\ memories[i].project = arg[r].project
  BY DEF Finds, Of
<1>2. arg[r].project \in Scopes
  BY DEF StoreTypeOK, StoreArg
<1>3. memories[i] # NoMemory
  BY <1>1, <1>2, MemoryStoreAssumption DEF MemoryStoreAssumption, NoMemory, Scopes
<1> QED BY <1>1, <1>3 DEF StoreTypeOK

\* The variables keep their types, and the ids never run out.
THEOREM StoreTypeCorrect == StoreSpec => [](StoreTypeOK /\ IdsSuffice)
<1>1. StoreInit => StoreTypeOK /\ IdsSuffice
  <2> SUFFICES ASSUME StoreInit PROVE StoreTypeOK /\ IdsSuffice
    OBVIOUS
  <2>1. MaySave = MemoryRequests
    BY DEF StoreInit, MaySave
  <2>2. Cardinality(MemoryRequests) \in Nat
    BY RequestsAreFinite
  <2> QED BY <2>1, <2>2 DEF StoreInit, StoreTypeOK, IdsSuffice, StoreSteps, NoMemory
<1>2. StoreTypeOK /\ IdsSuffice /\ [StoreNext]_storeVars => (StoreTypeOK /\ IdsSuffice)'
  <2> SUFFICES ASSUME StoreTypeOK, IdsSuffice, [StoreNext]_storeVars
               PROVE  StoreTypeOK' /\ IdsSuffice'
    OBVIOUS
  <2>1. ASSUME NEW r \in MemoryRequests, SaveRow(arg[r]), r \in MaySave,
               NEW s \in StoreSteps \ {"new", "insert", "store"}, GoTo(r, s),
               UNCHANGED <<count, arg>>
        PROVE  StoreTypeOK' /\ IdsSuffice'
    <3>1. /\ used + 1 \in MemoryIds
          /\ used + 1 <= Cardinality(MemoryRequests)
          /\ IdsSuffice'
      BY <2>1, SaverFindsAnId DEF SaveRow
    <3>2. Cardinality(MemoryRequests) \in Nat
      BY RequestsAreFinite
    <3>3. used' \in 0..Cardinality(MemoryRequests)
      BY <2>1, <3>1, <3>2 DEF SaveRow, StoreTypeOK
    <3>4. memories' \in [MemoryIds -> MemoryRow \cup {NoMemory}]
      BY <2>1, RowsAreRows, ZenonT(60) DEF SaveRow, StoreTypeOK
    <3> QED BY <2>1, <3>1, <3>3, <3>4 DEF GoTo, StoreTypeOK
  <2>2. ASSUME NEW r \in MemoryRequests, NEW s \in StoreSteps, GoTo(r, s),
               s \in {"new", "insert", "store"} => r \in MaySave, UNCHANGED used
        PROVE  IdsSuffice' /\ step' \in [MemoryRequests -> StoreSteps]
    <3>1. step' \in [MemoryRequests -> StoreSteps]
      BY <2>2 DEF GoTo, StoreTypeOK
    <3> QED BY <2>2, <3>1, OthersKeepTheirIds
  <2>3. ASSUME NEW r \in MemoryRequests, CreateMemory(r) \/ TeamSave(r) \/ RememberNew(r) \/ DistilSave(r)
        PROVE  StoreTypeOK' /\ IdsSuffice'
    BY <2>1, <2>3 DEF CreateMemory, TeamSave, RememberNew, DistilSave, MaySave, StoreSteps
  <2>4. ASSUME NEW r \in MemoryRequests, Remember(r) PROVE StoreTypeOK' /\ IdsSuffice'
    <3>1. IdsSuffice' /\ step' \in [MemoryRequests -> StoreSteps]
      BY <2>2, <2>4, ZenonT(60) DEF Remember, MaySave, StoreSteps
    <3>2. arg' \in [MemoryRequests -> StoreArg]
      <4>1. CASE UNCHANGED arg
        BY <4>1, SMTT(40) DEF StoreTypeOK
      <4>2. CASE \E i \in Of(arg[r].project) : \E g \in {arg[r].tags, memories[i].tags} :
                   arg' = [arg EXCEPT ![r].id = i, ![r].tags = g, ![r].kind = "mcp"]
        <5>1. PICK i \in Of(arg[r].project) : \E g \in {arg[r].tags, memories[i].tags} :
                   arg' = [arg EXCEPT ![r].id = i, ![r].tags = g, ![r].kind = "mcp"]
          BY <4>2
        <5>0. PICK g \in {arg[r].tags, memories[i].tags} :
                   arg' = [arg EXCEPT ![r].id = i, ![r].tags = g, ![r].kind = "mcp"]
          BY <5>1
        <5>2. i \in MemoryIds /\ memories[i].tags \in Tags
          BY FoundIsARow DEF Finds, MemoryRow
        <5>3. g \in Tags
          BY <5>0, <5>2 DEF StoreTypeOK, StoreArg
        <5> QED BY <5>0, <5>2, <5>3, LearningIsTyped
      <4> QED BY <2>4, <4>1, <4>2 DEF Remember
    <3> QED BY <2>4, <3>1, <3>2 DEF Remember, StoreTypeOK
  <2>5. ASSUME NEW r \in MemoryRequests, DistilLookup(r) PROVE StoreTypeOK' /\ IdsSuffice'
    <3>1. IdsSuffice' /\ step' \in [MemoryRequests -> StoreSteps]
      BY <2>2, <2>5 DEF DistilLookup, MaySave, StoreSteps
    <3> QED BY <2>5, <3>1 DEF DistilLookup, StoreTypeOK
  <2>6. ASSUME NEW r \in MemoryRequests, DistilCount(r) PROVE StoreTypeOK' /\ IdsSuffice'
    <3>1. IdsSuffice' /\ step' \in [MemoryRequests -> StoreSteps]
      BY <2>2, <2>6 DEF DistilCount, MaySave, StoreSteps
    <3>2. count' \in [MemoryProjects -> Nat]
      <4>1. CASE arg[r].project \in MemoryProjects
        BY <2>6, <4>1 DEF DistilCount, StoreTypeOK
      <4>2. CASE arg[r].project \notin MemoryProjects
        BY <2>6, <4>2 DEF DistilCount, StoreTypeOK
      <4> QED BY <4>1, <4>2
    <3> QED BY <2>6, <3>1, <3>2 DEF DistilCount, StoreTypeOK
  <2>7. ASSUME NEW r \in MemoryRequests, PatchMemory(r) PROVE StoreTypeOK' /\ IdsSuffice'
    <3>1. IdsSuffice' /\ step' \in [MemoryRequests -> StoreSteps]
      BY <2>2, <2>7 DEF PatchMemory, MaySave, StoreSteps
    <3>2. 1..used \subseteq MemoryIds
      BY RequestsAreFinite DEF StoreTypeOK, MemoryIds
    <3>3. arg' \in [MemoryRequests -> StoreArg]
      <4>1. PICK i \in 1..used : arg' = [arg EXCEPT ![r].id = i, ![r].kind = "rest"]
        BY <2>7 DEF PatchMemory
      <4>2. i \in MemoryIds /\ arg[r].tags \in Tags
        BY <3>2 DEF StoreTypeOK, StoreArg
      <4> QED BY <4>1, <4>2, LearningIsTyped
    <3> QED BY <2>7, <3>1, <3>3 DEF PatchMemory, StoreTypeOK
  <2>8. ASSUME NEW r \in MemoryRequests, UpdateRead(r) PROVE StoreTypeOK' /\ IdsSuffice'
    <3>1. IdsSuffice' /\ step' \in [MemoryRequests -> StoreSteps]
      BY <2>2, <2>8 DEF UpdateRead, MaySave, StoreSteps
    <3>2. arg' \in [MemoryRequests -> StoreArg]
      <4>1. CASE Finds(arg[r].project, arg[r].id)
        <5>1. memories[arg[r].id].tags \in Tags
          BY <4>1, FoundIsARow DEF MemoryRow
        <5>2. PICK g \in {arg[r].tags, memories[arg[r].id].tags} : arg' = [arg EXCEPT ![r].tags = g]
          BY <2>8, <4>1 DEF UpdateRead
        <5> QED BY <5>1, <5>2 DEF StoreTypeOK, StoreArg
      <4>2. CASE ~Finds(arg[r].project, arg[r].id)
        BY <2>8, <4>2 DEF UpdateRead, StoreTypeOK
      <4> QED BY <4>1, <4>2
    <3> QED BY <2>8, <3>1, <3>2 DEF UpdateRead, StoreTypeOK
  <2>9. ASSUME NEW r \in MemoryRequests, UpdateWrite(r) PROVE StoreTypeOK' /\ IdsSuffice'
    <3>1. IdsSuffice' /\ step' \in [MemoryRequests -> StoreSteps]
      BY <2>2, <2>9 DEF UpdateWrite, MaySave, StoreSteps
    <3>2. memories' \in [MemoryIds -> MemoryRow \cup {NoMemory}]
      BY <2>9, RowsAreRows DEF UpdateWrite, StoreTypeOK
    <3> QED BY <2>9, <3>1, <3>2 DEF UpdateWrite, StoreTypeOK
  <2>10. ASSUME NEW r \in MemoryRequests, NEW i, Finds(arg[r].project, i)
         PROVE  [memories[i] EXCEPT !.tags = arg[r].tags] \in MemoryRow
    BY <2>10, FoundIsARow DEF StoreTypeOK, StoreArg, MemoryRow
  <2>11. ASSUME NEW r \in MemoryRequests, Retag(r) \/ TeamRetag(r)
         PROVE  StoreTypeOK' /\ IdsSuffice'
    <3>1. IdsSuffice' /\ step' \in [MemoryRequests -> StoreSteps]
      BY <2>2, <2>11 DEF Retag, TeamRetag, MaySave, StoreSteps
    <3>2. memories' \in [MemoryIds -> MemoryRow \cup {NoMemory}]
      BY <2>10, <2>11 DEF Retag, TeamRetag, StoreTypeOK
    <3> QED BY <2>11, <3>1, <3>2 DEF Retag, TeamRetag, StoreTypeOK
  <2>12. ASSUME NEW r \in MemoryRequests, DeleteMemory(r) \/ TeamErase(r)
         PROVE  StoreTypeOK' /\ IdsSuffice'
    <3>1. IdsSuffice' /\ step' \in [MemoryRequests -> StoreSteps]
      BY <2>2, <2>12 DEF DeleteMemory, TeamErase, MaySave, StoreSteps
    <3> QED BY <2>12, <3>1 DEF DeleteMemory, TeamErase, StoreTypeOK
  <2>13. ASSUME NEW r \in MemoryRequests, Uncount(r) \/ Zero(r)
         PROVE  StoreTypeOK' /\ IdsSuffice'
    <3>1. IdsSuffice' /\ step' \in [MemoryRequests -> StoreSteps]
      BY <2>2, <2>13 DEF Uncount, Zero, MaySave, StoreSteps
    <3>2. count' \in [MemoryProjects -> Nat]
      BY <2>13 DEF Uncount, Zero, StoreTypeOK
    <3> QED BY <2>13, <3>1, <3>2 DEF Uncount, Zero, StoreTypeOK
  <2>14. ASSUME NEW r \in MemoryRequests, Clear(r) PROVE StoreTypeOK' /\ IdsSuffice'
    <3>1. IdsSuffice' /\ step' \in [MemoryRequests -> StoreSteps]
      BY <2>2, <2>14 DEF Clear, MaySave, StoreSteps
    <3> QED BY <2>14, <3>1 DEF Clear, StoreTypeOK
  <2>15. ASSUME NEW r \in MemoryRequests, TeamPatch(r) \/ TeamForget(r)
         PROVE  StoreTypeOK' /\ IdsSuffice'
    <3>1. IdsSuffice' /\ step' \in [MemoryRequests -> StoreSteps]
      BY <2>2, <2>15 DEF TeamPatch, TeamForget, MaySave, StoreSteps
    <3>2. arg' \in [MemoryRequests -> StoreArg]
      <4>1. ASSUME NEW i, Finds(arg[r].project, i)
            PROVE  i \in MemoryIds /\ memories[i].tags \in Tags
        BY <4>1, FoundIsARow DEF MemoryRow
      <4>2. arg[r].tags \in Tags
        BY DEF StoreTypeOK, StoreArg
      <4>3. CASE TeamPatch(r)
        <5>1. CASE UNCHANGED arg
          BY <5>1, SMTT(40) DEF StoreTypeOK
        <5>2. ASSUME NEW i, Finds(arg[r].project, i), NEW g \in {arg[r].tags, memories[i].tags},
                     arg' = [arg EXCEPT ![r].id = i, ![r].tags = g]
              PROVE  arg' \in [MemoryRequests -> StoreArg]
          <6>1. i \in MemoryIds /\ g \in Tags
            BY <4>1, <4>2, <5>2
          <6> QED BY <5>2, <6>1, LearningIsTyped, ZenonT(60)
        <5> QED BY <4>3, <5>1, <5>2 DEF TeamPatch
      <4>4. CASE TeamForget(r)
        <5>1. CASE UNCHANGED arg
          BY <5>1 DEF StoreTypeOK
        <5>2. ASSUME NEW i, Finds(arg[r].project, i), arg' = [arg EXCEPT ![r].id = i]
              PROVE  arg' \in [MemoryRequests -> StoreArg]
          <6>1. i \in MemoryIds
            BY <4>1, <5>2
          <6> QED BY <4>2, <5>2, <6>1, LearningIsTyped
        <5> QED BY <4>4, <5>1, <5>2 DEF TeamForget
      <4> QED BY <2>15, <4>3, <4>4
    <3> QED BY <2>15, <3>1, <3>2 DEF TeamPatch, TeamForget, StoreTypeOK
  <2>16. ASSUME NEW r \in MemoryRequests, Abandon(r) PROVE StoreTypeOK' /\ IdsSuffice'
    <3>1. IdsSuffice' /\ step' \in [MemoryRequests -> StoreSteps]
      BY <2>2, <2>16 DEF Abandon, MaySave, StoreSteps
    <3> QED BY <2>16, <3>1 DEF Abandon, StoreTypeOK
  <2>17. CASE UNCHANGED storeVars
    BY <2>17 DEF storeVars, StoreTypeOK, IdsSuffice, MaySave
  <2> QED BY <2>3, <2>4, <2>5, <2>6, <2>7, <2>8, <2>9, <2>11, <2>12, <2>13, <2>14,
             <2>15, <2>16, <2>17 DEF StoreNext
<1> QED BY <1>1, <1>2, PTL DEF StoreSpec

-----------------------------------------------------------------------------
(* The rows *)

\* A row in the table is under an id that was handed out.
LEMMA RowsHaveIds ==
  ASSUME StoreTypeOK, StoreInv, NEW i \in MemoryIds, memories[i] # NoMemory
  PROVE  i \in 1..used
BY DEF StoreInv, FreshIdsAreEmpty, MemoryIds, StoreTypeOK

\* A step that leaves the table alone keeps the invariant, if whoever goes on to
\* address a row has an id of it, and whoever goes on to write just found the row
\* in its own project.
LEMMA ReadingKeepsInv ==
  ASSUME StoreTypeOK, StoreInv, NEW r \in MemoryRequests, NEW s, GoTo(r, s),
         UNCHANGED <<memories, used>>,
         \A q \in MemoryRequests \ {r} : arg'[q] = arg[q],
         s \in {"update", "write", "retag", "erase"} => arg'[r].id \in 1..used,
         s = "write" => Finds(arg[r].project, arg'[r].id) /\ arg'[r].project = arg[r].project
  PROVE  StoreInv'
<1> USE DEF StoreTypeOK, GoTo
<1>1. /\ \A q \in MemoryRequests \ {r} : step'[q] = step[q]
      /\ step'[r] = s
  OBVIOUS
<1>2. FreshIdsAreEmpty' /\ VectorMatchesText' /\ HeldIdsExist'
  BY <1>1 DEF StoreInv, FreshIdsAreEmpty, VectorMatchesText, HeldIdsExist
<1>3. ASSUME NEW q \in MemoryRequests \ {r}, NEW i \in MemoryIds
      PROVE  Holds(q, i)' <=> Holds(q, i)
  BY <1>1 DEF Holds
<1>4. ASSUME NEW i \in MemoryIds, Holds(r, i)'
      PROVE  /\ i \in 1..used
             /\ memories[i] \in MemoryRow
             /\ memories[i].project = arg'[r].project
  <2>1. s = "write" /\ arg'[r].id = i
    BY <1>1, <1>4 DEF Holds
  <2> QED BY <2>1, FoundIsARow
<1>5. WritersAreAtHome'
  <2> SUFFICES ASSUME NEW q \in MemoryRequests, NEW i \in MemoryIds, Holds(q, i)'
               PROVE  i <= used /\ memories[i] \in {NoMemory} \cup {m \in MemoryRow : m.project = arg'[q].project}
    BY DEF WritersAreAtHome
  <2>1. CASE q = r
    BY <1>4, <2>1
  <2>2. CASE q # r
    BY <1>3, <2>2 DEF StoreInv, WritersAreAtHome
  <2> QED BY <2>1, <2>2
<1>6. ASSUME NEW q \in MemoryRequests \ {r}, NEW i \in MemoryIds, Holds(q, i)', Holds(r, i)'
      PROVE  arg'[q].project = arg'[r].project
  <2>1. memories[i] # NoMemory
    BY <1>4, <1>6, MemoryStoreAssumption
       DEF MemoryStoreAssumption, MemoryRow, NoMemory, Scopes
  <2> QED BY <1>3, <1>4, <1>6, <2>1 DEF StoreInv, WritersAreAtHome
<1>7. WritersAgree'
  <2> SUFFICES ASSUME NEW p \in MemoryRequests, NEW q \in MemoryRequests, NEW i \in MemoryIds,
                      Holds(p, i)', Holds(q, i)'
               PROVE  arg'[p].project = arg'[q].project
    BY DEF WritersAgree
  <2>1. CASE p # r /\ q # r
    BY <1>3, <2>1 DEF StoreInv, WritersAgree
  <2>2. CASE p = r \/ q = r
    BY <1>6, <2>2
  <2> QED BY <2>1, <2>2
<1> QED BY <1>2, <1>5, <1>7 DEF StoreInv

\* A step that deletes rows, or changes their tags, keeps the invariant.
LEMMA SheddingKeepsInv ==
  ASSUME StoreTypeOK, StoreInv, NEW r \in MemoryRequests, NEW s, GoTo(r, s),
         s \notin {"update", "write", "retag", "erase"},
         UNCHANGED <<used, arg>>,
         \A i \in MemoryIds :
            \/ memories'[i] \in {memories[i], NoMemory}
            \/ /\ memories[i] \in MemoryRow /\ memories'[i] \in MemoryRow
               /\ memories'[i].project = memories[i].project
               /\ memories'[i].text = memories[i].text
               /\ memories'[i].vector = memories[i].vector
  PROVE  StoreInv'
<1> USE DEF StoreTypeOK, GoTo
<1>1. /\ \A q \in MemoryRequests \ {r} : step'[q] = step[q]
      /\ step'[r] = s
  OBVIOUS
<1>2. ASSUME NEW q \in MemoryRequests, NEW i \in MemoryIds, Holds(q, i)'
      PROVE  Holds(q, i)
  BY <1>1, <1>2 DEF Holds
<1>3. \A i \in MemoryIds : memories[i] \in MemoryRow => memories[i] # NoMemory
  BY MemoryStoreAssumption DEF MemoryStoreAssumption, MemoryRow, NoMemory, Scopes
<1>4. FreshIdsAreEmpty' /\ HeldIdsExist'
  BY <1>1, <1>3 DEF StoreInv, FreshIdsAreEmpty, HeldIdsExist
<1>5. VectorMatchesText'
  BY <1>3 DEF StoreInv, VectorMatchesText
<1>6. WritersAgree'
  BY <1>2 DEF StoreInv, WritersAgree
<1>7. WritersAreAtHome'
  <2> SUFFICES ASSUME NEW q \in MemoryRequests, NEW i \in MemoryIds, Holds(q, i)'
               PROVE  i <= used /\ memories'[i] \in {NoMemory} \cup {m \in MemoryRow : m.project = arg[q].project}
    BY DEF WritersAreAtHome
  <2>1. i <= used /\ memories[i] \in {NoMemory} \cup {m \in MemoryRow : m.project = arg[q].project}
    BY <1>2 DEF StoreInv, WritersAreAtHome
  <2> QED BY <1>3, <2>1
<1> QED BY <1>4, <1>5, <1>6, <1>7 DEF StoreInv

\* Saving a memory keeps the invariant: its id is fresh.
LEMMA SavingKeepsInv ==
  ASSUME StoreTypeOK, IdsSuffice, StoreInv, NEW r \in MemoryRequests, r \in MaySave,
         SaveRow(arg[r]), NEW s \in {"stored", "count"}, GoTo(r, s), UNCHANGED arg
  PROVE  StoreInv'
<1>1. used + 1 \in MemoryIds
  BY SaverFindsAnId DEF StoreSteps
<1> USE DEF StoreTypeOK, GoTo, SaveRow
<1>2. /\ used' = used + 1
      /\ \A i \in MemoryIds \ {used + 1} : memories'[i] = memories[i]
      /\ memories'[used + 1].vector = memories'[used + 1].text
  BY <1>1
<1>3. ASSUME NEW q \in MemoryRequests, step'[q] \in {"update", "write", "retag", "erase"}
      PROVE  step'[q] = step[q]
  BY <1>3
<1>4. ASSUME NEW q \in MemoryRequests, NEW i \in MemoryIds, Holds(q, i)'
      PROVE  Holds(q, i) /\ i <= used /\ memories'[i] = memories[i]
  <2>1. Holds(q, i)
    BY <1>3, <1>4 DEF Holds
  <2>2. i <= used
    BY <2>1 DEF StoreInv, WritersAreAtHome
  <2> QED BY <1>2, <2>1, <2>2 DEF MemoryIds
<1>5. FreshIdsAreEmpty'
  BY <1>2 DEF StoreInv, FreshIdsAreEmpty, MemoryIds
<1>6. HeldIdsExist'
  BY <1>2, <1>3 DEF StoreInv, HeldIdsExist
<1>7. VectorMatchesText'
  BY <1>2 DEF StoreInv, VectorMatchesText
<1>8. WritersAreAtHome'
  <2> SUFFICES ASSUME NEW q \in MemoryRequests, NEW i \in MemoryIds, Holds(q, i)'
               PROVE  i <= used' /\ memories'[i] \in {NoMemory} \cup {m \in MemoryRow : m.project = arg[q].project}
    BY DEF WritersAreAtHome
  <2>1. Holds(q, i) /\ i <= used /\ memories'[i] = memories[i]
    BY <1>4
  <2> QED BY <1>2, <2>1 DEF StoreInv, WritersAreAtHome, MemoryIds
<1>9. WritersAgree'
  BY <1>4 DEF StoreInv, WritersAgree
<1> QED BY <1>5, <1>6, <1>7, <1>8, <1>9 DEF StoreInv

\* The second call of an update keeps the invariant, also when it brings back a
\* row that was deleted since the first.
LEMMA WritingKeepsInv ==
  ASSUME StoreTypeOK, StoreInv, NEW r \in MemoryRequests, UpdateWrite(r)
  PROVE  StoreInv'
<1> DEFINE id == arg[r].id
           row == [project |-> arg[r].project, text |-> arg[r].text, vector |-> arg[r].text,
                   tags |-> arg[r].tags]
<1>1. PICK s \in {"refreshed", "done"} : GoTo(r, s)
  BY DEF UpdateWrite
<1>2. /\ memories' = [memories EXCEPT ![id] = row]
      /\ UNCHANGED <<used, arg>>
      /\ step[r] = "write"
  BY DEF UpdateWrite
<1>3. id \in 1..used /\ id \in MemoryIds
  BY <1>2 , RequestsAreFinite DEF StoreInv, HeldIdsExist, MemoryIds, StoreTypeOK
<1>4. row \in MemoryRow
  BY RowsAreRows
<1>5. /\ \A i \in MemoryIds \ {id} : memories'[i] = memories[i]
      /\ memories'[id] = row
  BY <1>2, <1>3 DEF StoreTypeOK
<1>6. ASSUME NEW q \in MemoryRequests, step'[q] \in {"update", "write", "retag", "erase"}
      PROVE  step'[q] = step[q]
  BY <1>1, <1>6 DEF GoTo, StoreTypeOK
<1>7. ASSUME NEW q \in MemoryRequests, NEW i \in MemoryIds, Holds(q, i)'
      PROVE  Holds(q, i)
  BY <1>2, <1>6, <1>7 DEF Holds
<1>8. FreshIdsAreEmpty' /\ VectorMatchesText'
  BY <1>2, <1>3, <1>5 DEF StoreInv, FreshIdsAreEmpty, VectorMatchesText, StoreTypeOK, MemoryIds
<1>9. HeldIdsExist'
  BY <1>2, <1>6 DEF StoreInv, HeldIdsExist
<1>10. WritersAgree'
  BY <1>2, <1>7 DEF StoreInv, WritersAgree
<1>11. WritersAreAtHome'
  <2> SUFFICES ASSUME NEW q \in MemoryRequests, NEW i \in MemoryIds, Holds(q, i)'
               PROVE  i <= used /\ memories'[i] \in {NoMemory} \cup {m \in MemoryRow : m.project = arg[q].project}
    BY <1>2 DEF WritersAreAtHome
  <2>1. Holds(q, i)
    BY <1>7
  <2>2. CASE i = id
    <3>1. Holds(r, i)
      BY <1>2, <2>2 DEF Holds
    <3>2. arg[q].project = arg[r].project
      BY <2>1, <3>1 DEF StoreInv, WritersAgree
    <3> QED BY <1>3, <1>4, <1>5, <2>2, <3>2 DEF StoreTypeOK
  <2>3. CASE i # id
    BY <1>5, <2>1, <2>3 DEF StoreInv, WritersAreAtHome
  <2> QED BY <2>2, <2>3
<1> QED BY <1>8, <1>9, <1>10, <1>11 DEF StoreInv

\* Every step keeps the invariant.
LEMMA StoreStepKeepsInv ==
  ASSUME StoreTypeOK, IdsSuffice, StoreInv, [StoreNext]_storeVars
  PROVE  StoreInv'
<1>1. CASE UNCHANGED storeVars
  BY <1>1 DEF storeVars, StoreInv, FreshIdsAreEmpty, HeldIdsExist, WritersAreAtHome,
              WritersAgree, VectorMatchesText, Holds
<1>2. ASSUME NEW r \in MemoryRequests,
             CreateMemory(r) \/ RememberNew(r) \/ DistilSave(r) \/ TeamSave(r)
      PROVE  StoreInv'
  BY <1>2, SavingKeepsInv DEF CreateMemory, RememberNew, DistilSave, TeamSave, MaySave
<1>3. ASSUME NEW i \in MemoryIds, NEW r \in MemoryRequests, Finds(arg[r].project, i)
      PROVE  i \in 1..used
  <2>1. memories[i] # NoMemory
    BY <1>3, FoundIsARow, MemoryStoreAssumption, SMTT(40)
       DEF MemoryStoreAssumption, MemoryRow, NoMemory, Scopes
  <2> QED BY <2>1, RowsHaveIds
<1>4. ASSUME NEW r \in MemoryRequests, Remember(r) PROVE StoreInv'
  <2> USE <1>4 DEF Remember
  <2>1. PICK s \in {"insert", "update"} : GoTo(r, s)
    BY ZenonT(60)
  <2>2. CASE UNCHANGED arg /\ GoTo(r, "insert")
    BY <2>2, ReadingKeepsInv
  <2>3. ASSUME NEW i \in Of(arg[r].project), GoTo(r, "update"),
               NEW g, arg' = [arg EXCEPT ![r].id = i, ![r].tags = g, ![r].kind = "mcp"]
        PROVE  StoreInv'
    <3>1. i \in 1..used
      BY <1>3 DEF Of, Finds
    <3>2. arg'[r] = [arg[r] EXCEPT !.id = i, !.tags = g, !.kind = "mcp"]
          /\ \A q \in MemoryRequests \ {r} : arg'[q] = arg[q]
      BY <2>3, ZenonT(60) DEF StoreTypeOK
    <3>3. arg[r] \in StoreArg
      BY ZenonT(60) DEF StoreTypeOK
    <3>4. arg'[r].id = i
      BY <3>2, <3>3 DEF StoreArg
    <3> QED BY <2>3, <3>1, <3>2, <3>4, ReadingKeepsInv, ZenonT(60)
  <2> QED BY <2>2, <2>3, ZenonT(60)
<1>5. ASSUME NEW r \in MemoryRequests,
             \/ DistilLookup(r) \/ DistilCount(r) \/ Uncount(r) \/ Zero(r) \/ Abandon(r)
      PROVE  StoreInv'
  BY <1>5, ReadingKeepsInv DEF DistilLookup, DistilCount, Uncount, Zero, Abandon
<1>6. ASSUME NEW r \in MemoryRequests, PatchMemory(r) PROVE StoreInv'
  <2>1. PICK i \in 1..used : arg' = [arg EXCEPT ![r].id = i, ![r].kind = "rest"]
    BY <1>6 DEF PatchMemory
  <2>2. arg'[r].id = i /\ \A q \in MemoryRequests \ {r} : arg'[q] = arg[q]
    BY <2>1 DEF StoreTypeOK, StoreArg
  <2> QED BY <1>6, <2>2, ReadingKeepsInv DEF PatchMemory
<1>7. ASSUME NEW r \in MemoryRequests, UpdateRead(r) PROVE StoreInv'
  <2>1. CASE Finds(arg[r].project, arg[r].id)
    <3>1. PICK g : arg' = [arg EXCEPT ![r].tags = g]
      BY <1>7, <2>1 DEF UpdateRead
    <3>2. /\ arg'[r].id = arg[r].id
          /\ arg'[r].project = arg[r].project
          /\ \A q \in MemoryRequests \ {r} : arg'[q] = arg[q]
      BY <3>1 DEF StoreTypeOK, StoreArg
    <3>3. arg[r].id \in 1..used
      BY <1>7 DEF UpdateRead, StoreInv, HeldIdsExist
    <3> QED BY <1>7, <2>1, <3>2, <3>3, ReadingKeepsInv DEF UpdateRead
  <2>2. CASE ~Finds(arg[r].project, arg[r].id)
    BY <1>7, <2>2, ReadingKeepsInv DEF UpdateRead
  <2> QED BY <2>1, <2>2
<1>8. ASSUME NEW r \in MemoryRequests, TeamPatch(r) PROVE StoreInv'
  <2>1. CASE GoTo(r, "done") /\ UNCHANGED arg
    BY <1>8, <2>1, ReadingKeepsInv DEF TeamPatch
  <2>2. ASSUME NEW i \in 1..used, Finds(arg[r].project, i), NEW s \in {"write", "retag"},
               GoTo(r, s), NEW g, arg' = [arg EXCEPT ![r].id = i, ![r].tags = g]
        PROVE  StoreInv'
    <3>1. /\ arg'[r].id = i
          /\ arg'[r].project = arg[r].project
          /\ \A q \in MemoryRequests \ {r} : arg'[q] = arg[q]
      BY <2>2 DEF StoreTypeOK, StoreArg
    <3> QED BY <1>8, <2>2, <3>1, ReadingKeepsInv DEF TeamPatch
  <2> QED BY <1>8, <2>1, <2>2 DEF TeamPatch
<1>9. ASSUME NEW r \in MemoryRequests, TeamForget(r) PROVE StoreInv'
  <2>1. CASE GoTo(r, "done") /\ UNCHANGED arg
    BY <1>9, <2>1, ReadingKeepsInv DEF TeamForget
  <2>2. ASSUME NEW i \in 1..used, GoTo(r, "erase"), arg' = [arg EXCEPT ![r].id = i]
        PROVE  StoreInv'
    <3>1. arg'[r].id = i /\ \A q \in MemoryRequests \ {r} : arg'[q] = arg[q]
      BY <2>2 DEF StoreTypeOK, StoreArg
    <3> QED BY <1>9, <2>2, <3>1, ReadingKeepsInv DEF TeamForget
  <2> QED BY <1>9, <2>1, <2>2 DEF TeamForget
<1>10. ASSUME NEW r \in MemoryRequests, UpdateWrite(r) PROVE StoreInv'
  BY <1>10, WritingKeepsInv
<1>11. ASSUME NEW r \in MemoryRequests, DeleteMemory(r) \/ Clear(r) \/ TeamErase(r)
       PROVE  StoreInv'
  <2>1. \A i \in MemoryIds : memories'[i] \in {memories[i], NoMemory}
    BY <1>11 DEF DeleteMemory, Clear, TeamErase, StoreTypeOK
  <2> QED BY <1>11, <2>1, SheddingKeepsInv DEF DeleteMemory, Clear, TeamErase
<1>12. ASSUME NEW r \in MemoryRequests, Retag(r) \/ TeamRetag(r) PROVE StoreInv'
  <2>1. PICK i : memories' = IF Finds(arg[r].project, i)
                             THEN [memories EXCEPT ![i].tags = arg[r].tags] ELSE memories
    BY <1>12 DEF Retag, TeamRetag
  <2>2. arg[r].tags \in Tags
    BY DEF StoreTypeOK, StoreArg
  <2>3. CASE Finds(arg[r].project, i)
    <3>1. i \in MemoryIds /\ memories[i] \in MemoryRow
      BY <2>3, FoundIsARow
    <3>2. memories'[i] = [memories[i] EXCEPT !.tags = arg[r].tags]
      BY <2>1, <2>3, <3>1 DEF StoreTypeOK
    <3>3. /\ memories'[i] \in MemoryRow
          /\ memories'[i].project = memories[i].project
          /\ memories'[i].text = memories[i].text
          /\ memories'[i].vector = memories[i].vector
      BY <2>2, <3>1, <3>2 DEF MemoryRow
    <3>4. \A j \in MemoryIds \ {i} : memories'[j] = memories[j]
      BY <2>1, <2>3 DEF StoreTypeOK
    <3> QED BY <1>12, <3>1, <3>3, <3>4, SheddingKeepsInv DEF Retag, TeamRetag
  <2>4. CASE ~Finds(arg[r].project, i)
    BY <1>12, <2>1, <2>4, SheddingKeepsInv DEF Retag, TeamRetag
  <2> QED BY <2>3, <2>4
<1> QED BY <1>1, <1>2, <1>4, <1>5, <1>6, <1>7, <1>8, <1>9, <1>10, <1>11, <1>12 DEF StoreNext

\* Ids are handed out once, every update that is about to write by id alone holds
\* the id of a row of its own project, or of one that was, and no vector is out
\* of step with its text.
THEOREM StoreIsSound == StoreSpec => []StoreInv
<1>1. StoreInit => StoreInv
  BY DEF StoreInit, StoreInv, FreshIdsAreEmpty, HeldIdsExist, WritersAreAtHome, WritersAgree,
         VectorMatchesText, Holds
<1>2. StoreTypeOK /\ IdsSuffice /\ StoreInv /\ [StoreNext]_storeVars => StoreInv'
  BY StoreStepKeepsInv
<1> QED BY <1>1, <1>2, StoreTypeCorrect, PTL DEF StoreSpec

\* The vector of a stored memory is that of the text stored with it.
THEOREM VectorsMatchTheirTexts == StoreSpec => []VectorMatchesText
BY StoreIsSound, PTL DEF StoreInv

\* No request changes a row of another project or team, although the second call
\* of an update names the row by its id alone.
THEOREM ProjectsAreIsolated == StoreSpec => ForeignRowsUntouched
<1>1. StoreTypeOK /\ IdsSuffice /\ StoreInv /\ [StoreNext]_storeVars
        => [\A r \in MemoryRequests, i \in MemoryIds :
              (step'[r] # step[r] /\ memories[i] # NoMemory /\ memories[i].project # arg[r].project)
              => memories'[i] = memories[i]]_storeVars
  <2> SUFFICES ASSUME StoreTypeOK, IdsSuffice, StoreInv, StoreNext,
                      NEW r \in MemoryRequests, NEW i \in MemoryIds, step'[r] # step[r],
                      memories[i] # NoMemory, memories[i].project # arg[r].project
               PROVE  memories'[i] = memories[i]
    OBVIOUS
  <2> USE DEF StoreTypeOK
  <2>1. ASSUME NEW q \in MemoryRequests, NEW s, GoTo(q, s) PROVE q = r
    BY <2>1 DEF GoTo
  <2>2. i \in 1..used
    BY RowsHaveIds
  <2>3. ASSUME SaveRow(arg[r]) PROVE memories'[i] = memories[i]
    BY <2>2, <2>3 DEF SaveRow
  <2>4. ~Finds(arg[r].project, i)
    BY DEF Finds, Of
  <2>5. CASE UpdateWrite(r)
    <3>1. i # arg[r].id
      BY <2>5 DEF UpdateWrite, StoreInv, WritersAreAtHome, Holds
    <3> QED BY <2>5, <3>1 DEF UpdateWrite
  <2>6. CASE \/ CreateMemory(r) \/ RememberNew(r) \/ DistilSave(r) \/ TeamSave(r)
    BY <2>3, <2>6, SMTT(40) DEF CreateMemory, RememberNew, DistilSave, TeamSave
  <2>7. CASE \/ Remember(r) \/ DistilLookup(r) \/ DistilCount(r) \/ PatchMemory(r)
             \/ UpdateRead(r) \/ Uncount(r) \/ Zero(r) \/ TeamPatch(r) \/ TeamForget(r)
             \/ Abandon(r)
    BY <2>7 DEF Remember, DistilLookup, DistilCount, PatchMemory, UpdateRead, Uncount, Zero,
                TeamPatch, TeamForget, Abandon
  <2>8. CASE Retag(r) \/ TeamRetag(r) \/ DeleteMemory(r) \/ TeamErase(r)
    BY <2>4, <2>8 DEF Retag, TeamRetag, DeleteMemory, TeamErase
  <2>9. CASE Clear(r)
    BY <2>4, <2>9 DEF Clear, Finds
  <2>10. PICK q \in MemoryRequests :
           \/ UpdateWrite(q)
           \/ CreateMemory(q) \/ RememberNew(q) \/ DistilSave(q) \/ TeamSave(q)
           \/ Remember(q) \/ DistilLookup(q) \/ DistilCount(q) \/ PatchMemory(q)
           \/ UpdateRead(q) \/ Uncount(q) \/ Zero(q) \/ TeamPatch(q) \/ TeamForget(q)
           \/ Abandon(q)
           \/ Retag(q) \/ TeamRetag(q) \/ DeleteMemory(q) \/ TeamErase(q)
           \/ Clear(q)
    BY SMTT(40) DEF StoreNext
  <2>11. \E s : GoTo(q, s)
    BY <2>10 DEF UpdateWrite, CreateMemory, RememberNew, DistilSave, TeamSave, Remember,
       DistilLookup, DistilCount, PatchMemory, UpdateRead, Uncount, Zero, TeamPatch, TeamForget,
       Abandon, Retag, TeamRetag, DeleteMemory, TeamErase, Clear
  <2> QED BY <2>1, <2>5, <2>6, <2>7, <2>8, <2>9, <2>10, <2>11
<1> QED BY <1>1, StoreTypeCorrect, StoreIsSound, PTL DEF StoreSpec, ForeignRowsUntouched
=============================================================================
