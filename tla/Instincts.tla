------------------------------ MODULE Instincts ------------------------------
(***************************************************************************)
(* The instincts of one project: habits the distillation worker observes,  *)
(* with a confidence that grows with every observation and that the tool   *)
(* "contradict" lowers.  Both calls read a row and then write values they  *)
(* computed from it; the worker observes one instinct at a time, any       *)
(* number of contradict calls run beside it.                               *)
(***************************************************************************)
EXTENDS Integers, FiniteSetsExt

CONSTANTS
    Habits,       \* what can be observed; two triggers of one habit are similar
    Critics,      \* contradict calls under way
    MaxObserved   \* bound: observations of a habit

ASSUME InstinctsAssumption == MaxObserved \in Nat

\* Confidence in hundredths.
InitialConfidence == 30
Boost == 10
Decay == 15
Ceiling == 90
Floor == 10

NoInstinct == [confidence |-> 0, count |-> 0]

VARIABLES
    instincts, \* the row of a habit, or NoInstinct
    observer,  \* the worker's observe: the habit and the row it has read
    critics,   \* the contradict calls: the habit and the row each has read
    observed   \* history: the observations of a habit

instinctVars == <<instincts, observer, critics, observed>>

AtRest == [habit |-> "none", row |-> NoInstinct]

InstinctRows == [confidence : {0} \cup Floor..Ceiling, count : 0..MaxObserved]
InstinctCalls == [habit : Habits \cup {"none"}, row : InstinctRows]

InstinctsTypeOK ==
    /\ instincts \in [Habits -> InstinctRows]
    /\ observer \in InstinctCalls
    /\ critics \in [Critics -> InstinctCalls]
    /\ observed \in [Habits -> 0..MaxObserved]

InstinctsInit ==
    /\ instincts = [h \in Habits |-> NoInstinct]
    /\ observer = AtRest
    /\ critics = [c \in Critics |-> AtRest]
    /\ observed = [h \in Habits |-> 0]

-----------------------------------------------------------------------------

\* observe searches for the nearest instinct of the project.
LookForInstinct(h) ==
    /\ observer = AtRest
    /\ observed[h] < MaxObserved
    /\ observer' = [habit |-> h, row |-> instincts[h]]
    /\ UNCHANGED <<instincts, critics, observed>>

\* One similar enough is boosted, by its id: confidence, count and evidence are
\* those of the row that was read.  Otherwise a new row is inserted.
RecordObservation ==
    LET h == observer.habit
        row == observer.row
    IN  /\ h # "none"
        /\ instincts' = [instincts EXCEPT ![h] =
               IF row = NoInstinct
               THEN [confidence |-> InitialConfidence, count |-> 1]
               ELSE [confidence |-> Min({Ceiling, row.confidence + Boost}),
                     count |-> row.count + 1]]
        /\ observed' = [observed EXCEPT ![h] = @ + 1]
        /\ observer' = AtRest
        /\ UNCHANGED critics

\* _save_instincts logs what embedding or the store raises and goes on.
ObservationFails ==
    /\ observer # AtRest
    /\ observer' = AtRest
    /\ UNCHANGED <<instincts, critics, observed>>

\* contradict reads the row by id; an unknown id is answered with an error.
ReadInstinct(c, h) ==
    /\ critics[c] = AtRest
    /\ instincts[h] # NoInstinct
    /\ critics' = [critics EXCEPT ![c] = [habit |-> h, row |-> instincts[h]]]
    /\ UNCHANGED <<instincts, observer, observed>>

\* Mutant of Decayed: the update writes the whole row back.
DecayedRow(row, read) ==
    [confidence |-> Max({Floor, read.confidence - Decay}), count |-> read.count]

\* The update writes confidence alone.
Decayed(row, read) == [row EXCEPT !.confidence = Max({Floor, read.confidence - Decay})]

WriteDecay(c) ==
    LET h == critics[c].habit
    IN  /\ h # "none"
        /\ instincts' = [instincts EXCEPT ![h] = Decayed(@, critics[c].row)]
        /\ critics' = [critics EXCEPT ![c] = AtRest]
        /\ UNCHANGED <<observer, observed>>

InstinctsNext ==
    \/ \E h \in Habits : LookForInstinct(h)
    \/ RecordObservation
    \/ ObservationFails
    \/ \E c \in Critics, h \in Habits : ReadInstinct(c, h)
    \/ \E c \in Critics : WriteDecay(c)

InstinctsSpec == InstinctsInit /\ [][InstinctsNext]_instinctVars

-----------------------------------------------------------------------------

\* get_recommendations: seen often enough and believed enough.
Promoted == {h \in Habits : instincts[h].count >= 3 /\ instincts[h].confidence >= 60}

\* Whatever contradict calls run between the two halves of an observation, none
\* is lost from or added to the count that decides on promotion; a confidence is
\* never above what the observations have earned, and so no habit is recommended
\* before its fourth observation.
ObservationsAreCounted ==
    \A h \in Habits :
        /\ instincts[h].count = observed[h]
        /\ observed[h] > 0 =>
               instincts[h].confidence <= InitialConfidence + Boost * (observed[h] - 1)
        /\ h \in Promoted => observed[h] >= 4
=============================================================================
