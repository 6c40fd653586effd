------------------------------- MODULE Pairing --------------------------------
(***************************************************************************)
(* API tokens and the two ways they reach a machine: the install code of a *)
(* token made in the web interface, and the device flow of `piloci login`. *)
(* Tokens are rows in SQL, codes and device records are keys in Redis with *)
(* ten minutes to live.  Every Redis call and every transaction is a step. *)
(* Left out: the rows that go with a user or a project that is deleted.    *)
(***************************************************************************)
EXTENDS Integers, FiniteSets

CONSTANTS
    Devices,   \* device codes; each has one user code
    Browsers,  \* tasks: answers to the approval form
    Pollers,   \* tasks: polls of a command line, or fetches of an install code
    MaxTokens  \* bound: tokens ever made

ASSUME PairingAssumption == MaxTokens \in Nat

Tokens == 1..MaxTokens

VARIABLES
    token,       \* ApiToken row of each token: none, live, revoked
    installed,   \* tokens whose client has called the heartbeat
    lastToken,
    installCode, \* tokens with an install:<code> key
    maker,       \* the token a POST /api/tokens is making, 0 if none
    device,      \* device:<code> record
    userCode,    \* devices with a device_user:<code> key
    browser,     \* what each approval is doing
    poller,      \* the terminal record each poll has read and will delete
    handedOut    \* how often each token was sent to a client

pairingVars == <<token, installed, lastToken, installCode, maker, device, userCode,
                 browser, poller, handedOut>>

ApiTokenStates == {"none", "live", "revoked"}
Unborn == [status |-> "unborn"]
NoDevice == [status |-> "none"]
Resting == [at |-> "rest"]

DeviceRecords ==
    [status : {"unborn", "none", "pending", "denied"}]
    \cup [status : {"approved"}, token : Tokens]

PairingTypeOK ==
    /\ token \in [Tokens -> ApiTokenStates]
    /\ installed \subseteq Tokens
    /\ lastToken \in 0..MaxTokens
    /\ installCode \subseteq Tokens
    /\ maker \in 0..MaxTokens
    /\ device \in [Devices -> DeviceRecords]
    /\ userCode \subseteq Devices
    /\ browser \in [Browsers ->
                      {Resting} \cup [at : {"denying", "minting"}, device : Devices]
                      \cup [at : {"approving", "denied"}, device : Devices]
                      \cup [at : {"minted", "writing"}, device : Devices, token : Tokens]]
    /\ poller \in [Pollers -> {Resting} \cup [at : {"deleting"}, device : Devices, record : DeviceRecords]]
    /\ handedOut \in [Tokens -> Nat]

PairingInit ==
    /\ token = [n \in Tokens |-> "none"]
    /\ installed = {}
    /\ lastToken = 0
    /\ installCode = {}
    /\ maker = 0
    /\ device = [d \in Devices |-> Unborn]
    /\ userCode = {}
    /\ browser = [b \in Browsers |-> Resting]
    /\ poller = [p \in Pollers |-> Resting]
    /\ handedOut = [n \in Tokens |-> 0]

HandOut(n) == handedOut' = [handedOut EXCEPT ![n] = @ + 1]

UnchangedDevice == UNCHANGED <<device, userCode, browser, poller>>

-----------------------------------------------------------------------------
(* Tokens of the web interface and their install codes *)

\* route_create_token, up to the commit of the row.
CreateToken ==
    /\ maker = 0
    /\ lastToken < MaxTokens
    /\ lastToken' = lastToken + 1
    /\ maker' = lastToken + 1
    /\ token' = [token EXCEPT ![lastToken + 1] = "live"]
    /\ UNCHANGED <<installed, installCode, handedOut>>
    /\ UnchangedDevice

\* Then InstallPairingStore.create; without Redis the token is given out with
\* manual instructions only.  The answer itself shows the token to its maker.
CreateInstallCode ==
    /\ maker # 0
    /\ maker' = 0
    /\ \/ installCode' = installCode \cup {maker}
       \/ UNCHANGED installCode
    /\ UNCHANGED <<token, installed, lastToken, handedOut>>
    /\ UnchangedDevice

\* route_install: consume is one GETDEL, or GET and DEL in one MULTI.
ConsumeInstallCode(n) ==
    /\ n \in installCode
    /\ installCode' = installCode \ {n}
    /\ HandOut(n)
    /\ UNCHANGED <<token, installed, lastToken, maker>>
    /\ UnchangedDevice

InstallCodeExpires(n) ==
    /\ n \in installCode
    /\ installCode' = installCode \ {n}
    /\ UNCHANGED <<token, installed, lastToken, maker, handedOut>>
    /\ UnchangedDevice

\* route_revoke_token.
RevokeToken(n) ==
    /\ token[n] = "live"
    /\ token' = [token EXCEPT ![n] = "revoked"]
    /\ UNCHANGED <<installed, lastToken, installCode, maker, handedOut>>
    /\ UnchangedDevice

\* route_install_heartbeat, from a client that was given the token; a token
\* that was revoked is turned away before.
Heartbeat(n) ==
    /\ handedOut[n] > 0
    /\ token[n] = "live"
    /\ installed' = installed \cup {n}
    /\ UNCHANGED <<token, lastToken, installCode, maker, handedOut>>
    /\ UnchangedDevice

-----------------------------------------------------------------------------
(* Device flow *)

UnchangedTokens == UNCHANGED <<token, installed, lastToken, installCode, maker>>

\* create, first key: user code to device code, unless the user code is taken.
ReserveUserCode(d) ==
    /\ device[d] = Unborn
    /\ d \notin userCode
    /\ userCode' = userCode \cup {d}
    /\ UNCHANGED <<device, browser, poller, handedOut>>
    /\ UnchangedTokens

\* create, second key: the record.
CreateDevice(d) ==
    /\ d \in userCode
    /\ device[d] = Unborn
    /\ device' = [device EXCEPT ![d] = [status |-> "pending"]]
    /\ UNCHANGED <<userCode, browser, poller, handedOut>>
    /\ UnchangedTokens

\* route_device_approve: lookup_user_code finds a pending record.
AnswerForm(b, d) ==
    /\ browser[b] = Resting
    /\ d \in userCode
    /\ device[d].status = "pending"
    /\ \E next \in {"denying", "minting"} :
          browser' = [browser EXCEPT ![b] = [at |-> next, device |-> d]]
    /\ UNCHANGED <<device, userCode, poller, handedOut>>
    /\ UnchangedTokens

\* Mutant of MintToken: no row for the token of a device.
MintWithoutRow(b) ==
    /\ browser[b].at = "minting"
    /\ lastToken < MaxTokens
    /\ lastToken' = lastToken + 1
    /\ browser' = [browser EXCEPT ![b] =
                     [at |-> "minted", device |-> browser[b].device, token |-> lastToken + 1]]
    /\ UNCHANGED <<token, installed, installCode, maker, device, userCode, poller, handedOut>>

\* Approval: the row of a fresh token is committed first ...
MintToken(b) ==
    /\ browser[b].at = "minting"
    /\ lastToken < MaxTokens
    /\ lastToken' = lastToken + 1
    /\ token' = [token EXCEPT ![lastToken + 1] = "live"]
    /\ browser' = [browser EXCEPT ![b] =
                     [at |-> "minted", device |-> browser[b].device, token |-> lastToken + 1]]
    /\ UNCHANGED <<installed, installCode, maker, device, userCode, poller, handedOut>>

\* ... then approve reads the record, which must still be pending ...
ReadForApproval(b) ==
    /\ browser[b].at = "minted"
    /\ browser' = [browser EXCEPT ![b] =
                     IF device[browser[b].device].status = "pending"
                     THEN [@ EXCEPT !.at = "writing"] ELSE Resting]
    /\ UNCHANGED <<device, userCode, poller, handedOut>>
    /\ UnchangedTokens

\* ... and writes it with the token, whatever it is by then.
WriteApproval(b) ==
    /\ browser[b].at = "writing"
    /\ device' = [device EXCEPT ![browser[b].device] =
                    [status |-> "approved", token |-> browser[b].token]]
    /\ browser' = [browser EXCEPT ![b] = Resting]
    /\ UNCHANGED <<userCode, poller, handedOut>>
    /\ UnchangedTokens

\* deny: read and write.
ReadForDenial(b) ==
    /\ browser[b].at = "denying"
    /\ browser' = [browser EXCEPT ![b] =
                     IF device[browser[b].device].status = "pending"
                     THEN [@ EXCEPT !.at = "denied"] ELSE Resting]
    /\ UNCHANGED <<device, userCode, poller, handedOut>>
    /\ UnchangedTokens

WriteDenial(b) ==
    /\ browser[b].at = "denied"
    /\ device' = [device EXCEPT ![browser[b].device] = [status |-> "denied"]]
    /\ browser' = [browser EXCEPT ![b] = Resting]
    /\ UNCHANGED <<userCode, poller, handedOut>>
    /\ UnchangedTokens

\* route_device_poll: reads the record, and deletes the keys of a terminal one ...
PollTerminal(p, d) ==
    /\ poller[p] = Resting
    /\ device[d].status \in {"approved", "denied"}
    /\ poller' = [poller EXCEPT ![p] =
                    [at |-> "deleting", device |-> d, record |-> device[d]]]
    /\ UNCHANGED <<device, userCode, browser, handedOut>>
    /\ UnchangedTokens

\* ... before it is sent.
DeleteDelivered(p) ==
    LET record == poller[p].record
    IN  /\ poller[p].at = "deleting"
        /\ device' = [device EXCEPT ![poller[p].device] = NoDevice]
        /\ userCode' = userCode \ {poller[p].device}
        /\ IF record.status = "approved" THEN HandOut(record.token)
           ELSE UNCHANGED handedOut
        /\ poller' = [poller EXCEPT ![p] = Resting]
        /\ UNCHANGED browser
        /\ UnchangedTokens

\* Writing a record renews its time to live, but not that of the user code.
DeviceExpires(d) ==
    /\ device[d] \notin {Unborn, NoDevice}
    /\ device' = [device EXCEPT ![d] = NoDevice]
    /\ userCode' = userCode \ {d}
    /\ UNCHANGED <<browser, poller, handedOut>>
    /\ UnchangedTokens

UserCodeExpires(d) ==
    /\ d \in userCode
    /\ device[d].status \in {"approved", "denied"}
    /\ userCode' = userCode \ {d}
    /\ UNCHANGED <<device, browser, poller, handedOut>>
    /\ UnchangedTokens

PairingNext ==
    \/ CreateToken \/ CreateInstallCode
    \/ \E n \in Tokens :
          ConsumeInstallCode(n) \/ InstallCodeExpires(n) \/ RevokeToken(n) \/ Heartbeat(n)
    \/ \E d \in Devices :
          \/ ReserveUserCode(d) \/ CreateDevice(d) \/ DeviceExpires(d) \/ UserCodeExpires(d)
          \/ \E b \in Browsers : AnswerForm(b, d)
          \/ \E p \in Pollers : PollTerminal(p, d)
    \/ \E b \in Browsers :
          \/ MintToken(b) \/ ReadForApproval(b) \/ WriteApproval(b)
          \/ ReadForDenial(b) \/ WriteDenial(b)
    \/ \E p \in Pollers : DeleteDelivered(p)

PairingSpec == PairingInit /\ [][PairingNext]_pairingVars

-----------------------------------------------------------------------------

\* "persist its hash in api_tokens so admin can revoke it later": a token that
\* a client can get hold of has its row, on both ways and at every moment.
GivenTokensAreKnown ==
    \A n \in Tokens :
        (handedOut[n] > 0 \/ n \in installCode
         \/ \E d \in Devices : device[d] = [status |-> "approved", token |-> n])
        => token[n] # "none"
=============================================================================
