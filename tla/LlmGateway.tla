----------------------------- MODULE LlmGateway -----------------------------
(***************************************************************************)
(* curator/gemma.py and llm_providers.py: a call tries the local model and *)
(* then the user's providers in their order, each with its own retries;    *)
(* calls of the local model take turns on one slot.  budget.py books what  *)
(* an external provider answered to the distillation worker.               *)
(*                                                                         *)
(* Providers come and go while calls run, attempts fail in every way, and  *)
(* a caller may be cancelled at any await.                                 *)
(***************************************************************************)
EXTENDS Integers, SequencesExt

CONSTANTS
    Providers,     \* rows of llm_providers a user may have, numbered as they were created
    Priorities,
    EnvProvider,   \* a provider is configured for the whole server
    Workers,       \* tasks that call a model
    Retries,       \* attempts at one target
    MaxAgain,      \* expansions or continuations of a cut answer
    InputRate, OutputRate, \* DEFAULT_*_USD_PER_1K
    MaxBooked      \* bound: bookings in one month

ASSUME GatewayAssumption ==
    /\ Providers \subseteq Nat \ {0} /\ IsFiniteSet(Providers)
    /\ Priorities \subseteq Nat
    /\ EnvProvider \in BOOLEAN
    /\ {Retries, MaxBooked} \subseteq Nat \ {0}
    /\ {MaxAgain, InputRate, OutputRate} \subseteq Nat

VARIABLES
    provider, \* the row of each provider
    call,     \* what each worker is doing
    slot,     \* who holds the local slot, and who waits for it in turn
    usage     \* of this month: how many calls were booked, and for how much

gatewayVars == <<provider, call, slot, usage>>

NoProvider == [priority |-> -1, enabled |-> FALSE]
NoCall == [at |-> "idle", chain |-> <<>>, tries |-> 0, again |-> 0]
Local == 0
Env == -1
ProviderRows == [priority : Priorities, enabled : BOOLEAN]
UsageRows == [booked : 0..MaxBooked, cost : Nat]
Targets == Providers \cup {Local, Env}
CallStates ==
    [at : {"idle", "next", "waiting", "calling", "answered", "failed", "listening", "streaming"},
     chain : Seq(Targets), tries : 0..Retries, again : 0..MaxAgain]

GatewayTypeOK ==
    /\ provider \in [Providers -> {NoProvider} \cup ProviderRows]
    /\ call \in [Workers -> CallStates]
    /\ slot \in Seq(Workers)
    /\ usage \in UsageRows

GatewayInit ==
    /\ provider = [p \in Providers |-> NoProvider]
    /\ call = [w \in Workers |-> NoCall]
    /\ slot = <<>>
    /\ usage = [booked |-> 0, cost |-> 0]

----------------------------------------------------------------------------
(* Providers *)

Sooner(p, q) ==
    \/ provider[p].priority < provider[q].priority
    \/ provider[p].priority = provider[q].priority /\ p < q

(* load_user_fallbacks: a provider whose key cannot be decrypted is        *)
(* skipped; the one of the server comes last.                              *)
UserFallbacks(unreadable) ==
    LET usable == {p \in Providers \ unreadable : provider[p].enabled}
        place(p) == Cardinality({q \in usable : q = p \/ Sooner(q, p)})
    IN  [n \in 1..Cardinality(usable) |-> CHOOSE p \in usable : place(p) = n]
            \o (IF EnvProvider THEN <<Env>> ELSE <<>>)

SaveProvider(p, row) ==
    /\ row # provider[p]
    /\ provider' = [provider EXCEPT ![p] = row]
    /\ UNCHANGED <<call, slot, usage>>

CreateProvider(p) ==
    /\ provider[p] = NoProvider
    /\ \E n \in Priorities, on \in BOOLEAN : SaveProvider(p, [priority |-> n, enabled |-> on])

UpdateProvider(p) ==
    /\ provider[p] # NoProvider
    /\ \E n \in Priorities, on \in BOOLEAN : SaveProvider(p, [priority |-> n, enabled |-> on])

DeleteProvider(p) == provider[p] # NoProvider /\ SaveProvider(p, NoProvider)

----------------------------------------------------------------------------
(* Calls *)

CallGoes(w, at, chain, tries, again) ==
    call' = [call EXCEPT ![w] = [at |-> at, chain |-> chain, tries |-> tries, again |-> again]]

\* Mutant of Released: an attempt that raises leaves the slot taken.
ReleasedByAnswers(w, answered) == IF answered THEN RemoveFirst(slot, w) ELSE slot

\* The slot and its queue when a worker leaves them, whether answered or not.
Released(w, answered) == RemoveFirst(slot, w)

(* What a caller may ask of whom: the local model alone (profile, digest,  *)
(* assistant), with the providers after it, or before it when        *)
(* extract_session prefers them, or they alone (the team wiki).            *)
Chains(external) == {<<Local>>, <<Local>> \o external, external \o <<Local>>, external}

(* The chain is built when the call starts. *)
StartCall(w) ==
    /\ call[w].at = "idle"
    /\ \E unreadable \in SUBSET Providers :
           \E chain \in Chains(UserFallbacks(unreadable)) :
               chain # <<>> /\ CallGoes(w, "next", chain, 0, 0)
    /\ UNCHANGED <<provider, slot, usage>>

(* The next target: an external one is called at once, the local one when  *)
(* its slot is free; after the last, chat_json raises.                     *)
TryTarget(w) ==
    /\ call[w].at = "next"
    /\ LET c == call[w]
       IN  CASE c.chain = <<>> -> CallGoes(w, "failed", <<>>, 0, 0) /\ UNCHANGED slot
             [] c.chain # <<>> /\ Head(c.chain) = Local ->
                    /\ CallGoes(w, "waiting", c.chain, 0, c.again)
                    /\ slot' = Append(slot, w)
             [] OTHER -> CallGoes(w, "calling", c.chain, Retries, c.again) /\ UNCHANGED slot
    /\ UNCHANGED <<provider, usage>>

TakeSlot(w) ==
    /\ call[w].at = "waiting"
    /\ Head(slot) = w
    /\ CallGoes(w, "calling", call[w].chain, Retries, call[w].again)
    /\ UNCHANGED <<provider, slot, usage>>

(* The answer may be cut at max_tokens: the same target is called again    *)
(* with a larger budget, or asked to continue, but only so often; then a   *)
(* JSON caller moves on and a text caller takes what it has.               *)
AnswerComes(w) ==
    /\ call[w].at = "calling"
    /\ LET c == call[w]
       IN  \/ CallGoes(w, "answered", c.chain, 0, 0)
           \/ c.again < MaxAgain /\ CallGoes(w, "next", c.chain, 0, c.again + 1)
    /\ slot' = Released(w, TRUE)
    /\ UNCHANGED <<provider, usage>>

(* An HTTP error or unreadable JSON is tried again, after a sleep that     *)
(* keeps the slot; the last one, or any other exception, ends the target.  *)
AttemptFails(w) ==
    /\ call[w].at = "calling"
    /\ LET c == call[w]
       IN  \/ /\ c.tries > 1
              /\ CallGoes(w, "calling", c.chain, c.tries - 1, c.again)
              /\ UNCHANGED slot
           \/ /\ CallGoes(w, "next", Tail(c.chain), 0, 0)
              /\ slot' = Released(w, FALSE)
    /\ UNCHANGED <<provider, usage>>

(* chat_stream takes a turn on the same slot and keeps it until the last   *)
(* delta, with neither retries nor providers to fall back on.              *)
StartStream(w) ==
    /\ call[w].at = "idle"
    /\ CallGoes(w, "listening", <<Local>>, 0, 0)
    /\ slot' = Append(slot, w)
    /\ UNCHANGED <<provider, usage>>

StreamOpens(w) ==
    /\ call[w].at = "listening"
    /\ Head(slot) = w
    /\ CallGoes(w, "streaming", <<Local>>, 0, 0)
    /\ UNCHANGED <<provider, slot, usage>>

StreamEnds(w) ==
    /\ call[w].at = "streaming"
    /\ \/ CallGoes(w, "answered", <<Local>>, 0, 0) /\ slot' = Released(w, TRUE)
       \/ CallGoes(w, "failed", <<>>, 0, 0) /\ slot' = Released(w, FALSE)
    /\ UNCHANGED <<provider, usage>>

(* estimate_cost_usd, and record_usage with the counts the worker passes. *)
EstimatedCost(tokensIn, tokensOut) == tokensIn * InputRate + tokensOut * OutputRate

RecordUsage(tokensIn, tokensOut) ==
    usage' = [booked |-> usage.booked + 1, cost |-> usage.cost + EstimatedCost(tokensIn, tokensOut)]

(* The caller goes on with the answer; the distillation worker books it    *)
(* when an external provider gave it and something came of it.             *)
UseAnswer(w) ==
    /\ call[w].at \in {"answered", "failed"}
    /\ call' = [call EXCEPT ![w] = NoCall]
    /\ \/ UNCHANGED usage
       \/ /\ call[w].at = "answered"
          /\ Head(call[w].chain) # Local
          /\ usage.booked < MaxBooked
          /\ RecordUsage(0, 0)
    /\ UNCHANGED <<provider, slot>>

(* A cancelled task leaves the semaphore or its queue on the way out. *)
CancelCall(w) ==
    /\ call[w].at # "idle"
    /\ call' = [call EXCEPT ![w] = NoCall]
    /\ slot' = Released(w, TRUE)
    /\ UNCHANGED <<provider, usage>>

MonthTurns ==
    /\ usage.booked > 0
    /\ usage' = [booked |-> 0, cost |-> 0]
    /\ UNCHANGED <<provider, call, slot>>

WorkerSteps(w) ==
    \/ TryTarget(w) \/ TakeSlot(w) \/ AnswerComes(w) \/ AttemptFails(w)
    \/ StreamOpens(w) \/ StreamEnds(w) \/ UseAnswer(w)

GatewayNext ==
    \/ \E p \in Providers : CreateProvider(p) \/ UpdateProvider(p) \/ DeleteProvider(p)
    \/ \E w \in Workers : StartCall(w) \/ StartStream(w) \/ WorkerSteps(w) \/ CancelCall(w)
    \/ MonthTurns

(* Every request has a timeout, and asyncio runs the tasks that are ready. *)
(* chat_stream hands on each piece while it holds the slot, so that        *)
(* StreamEnds also takes a client that reads on, or connection buffers     *)
(* that hold the rest of a short reply.                                    *)
GatewaySpec ==
    /\ GatewayInit
    /\ [][GatewayNext]_gatewayVars
    /\ \A w \in Workers : WF_gatewayVars(WorkerSteps(w))

----------------------------------------------------------------------------
(* Properties *)

(* A call ends, with an answer or an exception, however its attempts go    *)
(* and whoever else uses the local slot: no failure, cut answer or         *)
(* cancellation keeps the slot (_call_one, chat_json, chat_text,           *)
(* chat_stream).                                                           *)
EveryCallEnds == \A w \in Workers : call[w].at # "idle" ~> call[w].at = "idle"
=============================================================================
