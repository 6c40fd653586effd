------------------------------ MODULE Profiles ------------------------------
(***************************************************************************)
(* The profile of one project: a summary the LLM makes of its memories.    *)
(* The refresh job compares the newest memory with the time of the stored  *)
(* profile and leaves the LLM alone if nothing is newer (the change-gate), *)
(* and does nothing at all within ten minutes of its last look (the        *)
(* debounce, kept in memory).                                              *)
(*                                                                         *)
(* Memories are stamped in whole seconds, the profile when it is stored,   *)
(* seconds or minutes after its memories were listed.                      *)
(***************************************************************************)
EXTENDS Integers, FiniteSetsExt

CONSTANTS
    Notes,      \* memories of the project
    MaxSecond,  \* bound: the clock
    MaxSaves    \* bound: saved or updated memories

ASSUME ProfilesAssumption == MaxSecond \in Nat /\ MaxSaves \in Nat

VARIABLES
    second,    \* the clock
    notes,     \* the memories: number of the save and updated_at, or Missing
    saves,
    profile,   \* the user_profiles row: the saves it was made from, and updated_at
    looked,    \* _last_refresh: the second of the last look, or -1
    refresh,   \* refresh_profile waiting for the LLM: the saves listed, when it began
    late       \* history: saves the stored profile hides from the gate

profileVars == <<second, notes, saves, profile, looked, refresh, late>>

Missing == [nr |-> 0, at |-> -1]
NoProfile == [of |-> {}, at |-> -1]
NoRefresh == [asking |-> FALSE, of |-> {}, began |-> -1]

Seconds == -1..MaxSecond
SaveNumbers == 1..MaxSaves
ProfileRows == [of : SUBSET SaveNumbers, at : Seconds]
Stored == {n \in Notes : notes[n] # Missing}
Numbers == {notes[n].nr : n \in Stored}

ProfilesTypeOK ==
    /\ second \in 0..MaxSecond
    /\ notes \in [Notes -> [nr : 0..MaxSaves, at : Seconds]]
    /\ saves \in 0..MaxSaves
    /\ profile \in ProfileRows
    /\ looked \in Seconds
    /\ refresh \in [asking : BOOLEAN, of : SUBSET SaveNumbers, began : Seconds]
    /\ late \subseteq SaveNumbers

ProfilesInit ==
    /\ second = 0
    /\ notes = [n \in Notes |-> Missing]
    /\ saves = 0
    /\ profile = NoProfile
    /\ looked = -1
    /\ refresh = NoRefresh
    /\ late = {}

-----------------------------------------------------------------------------
(* The world around it *)

ClockTicks ==
    /\ second < MaxSecond
    /\ second' = second + 1
    /\ UNCHANGED <<notes, saves, profile, looked, refresh, late>>

\* Any save or update of a memory.  One that comes in the second in which the
\* profile was stored looks older than the profile.
SaveNote(n) ==
    /\ saves < MaxSaves
    /\ saves' = saves + 1
    /\ notes' = [notes EXCEPT ![n] = [nr |-> saves + 1, at |-> second]]
    /\ late' = IF profile # NoProfile /\ profile.at = second
               THEN late \cup {saves + 1} ELSE late
    /\ UNCHANGED <<second, profile, looked, refresh>>

DeleteNote(n) ==
    /\ n \in Stored
    /\ notes' = [notes EXCEPT ![n] = Missing]
    /\ UNCHANGED <<second, saves, profile, looked, refresh, late>>

\* The process is restarted: the debounce is forgotten, a refresh is lost.
RestartRefresh ==
    /\ looked' = -1
    /\ refresh' = NoRefresh
    /\ UNCHANGED <<second, notes, saves, profile, late>>

-----------------------------------------------------------------------------
(* refresh_profile *)

\* The existing profile is read, the debounce (here the running second) is
\* past, and the memories are listed: up to 200 of them, all of them here.
Looks == refresh = NoRefresh /\ (profile = NoProfile \/ looked # second)

\* Mutant of Newest: the first memory of the list, which has no order.
Oldest == Min({notes[n].at : n \in Stored} \cup {MaxSecond})

Newest == Max({notes[n].at : n \in Stored} \cup {0})

\* Gate 2, with no call between the list and the decision.
NothingNewer == profile # NoProfile /\ Newest <= profile.at

ChangeGate ==
    /\ Looks
    /\ NothingNewer
    /\ looked' = second
    /\ UNCHANGED <<second, notes, saves, profile, refresh, late>>

AskForProfile ==
    /\ Looks
    /\ ~NothingNewer
    /\ refresh' = [asking |-> TRUE, of |-> Numbers, began |-> second]
    /\ UNCHANGED <<second, notes, saves, profile, looked, late>>

\* The answer is stored under the time of storing.  If the LLM fails, or answers
\* no JSON, an empty profile is stored in its place, and is as new.
StoreProfile(failed) ==
    LET of == IF failed THEN {} ELSE refresh.of
    IN  /\ refresh.asking
        /\ profile' = [of |-> of, at |-> second]
        /\ late' = Numbers \ of
        /\ looked' = refresh.began
        /\ refresh' = NoRefresh
        /\ UNCHANGED <<second, notes, saves>>

ProfilesNext ==
    \/ ClockTicks
    \/ \E n \in Notes : SaveNote(n) \/ DeleteNote(n)
    \/ RestartRefresh
    \/ ChangeGate
    \/ AskForProfile
    \/ \E failed \in BOOLEAN : StoreProfile(failed)

ProfilesSpec == ProfilesInit /\ [][ProfilesNext]_profileVars

-----------------------------------------------------------------------------

\* A refresh the change-gate ends early loses nothing that came at a quiet time:
\* every memory is in the stored profile, or was saved while the LLM worked, in
\* the second of storing, or before an answer that failed.
SkippedIsCovered ==
    [][ChangeGate => Numbers \subseteq profile.of \cup late]_profileVars
=============================================================================
