------------------------------ MODULE AccountCard ------------------------------
(***************************************************************************)
(* The account card of the home page: the form, the verification that goes *)
(* through the phases service, connect and probe, the binding of a seat    *)
(* that its user confirms, and the gate that holds all of it while another *)
(* client has the network.                                                 *)
(*                                                                         *)
(* Activation speaks of the file and the guard; this module of what the    *)
(* card shows and of the queries it shows it from.  The verdict on the exit*)
(* is an input: it may be a match whenever there are credentials, and when *)
(* it is a mismatch the account is hidden, which is not told apart.  Left  *)
(* out: leaving the page while a request of the card but connect runs.     *)
(***************************************************************************)
EXTENDS Naturals

CONSTANTS MAX_SERVICE_RETRIES, \* failed installations before support is offered
          MaxCodes, MaxEvents  \* bounds: activations; what else happens

VARIABLES
  seat,                        \* server: its token, how far its binding is
  file, clientState,           \* nexthubx-client.json, and the query of it
  service, isServiceOk,        \* the helper service, and the query of it
  other, cvBlock,              \* another client in the way, and the query of it
  card, form, sync, confirm, cur, \* state of the card; its flows and the sync
  matched, events              \* history: tokens whose exit has matched; bound

queries == <<clientState, isServiceOk, cvBlock>>
world == <<service, other>>
flows == <<form, sync, confirm, cur>>
vars == <<seat, file, queries, world, card, flows, matched, events>>

State(t, s, b) == [token |-> t, setupComplete |-> s, bindStatus |-> b]
NoState == State(0, FALSE, "none")
NewCard == [phase |-> "none", failures |-> 0, installing |-> FALSE, reactivating |-> FALSE,
            started |-> FALSE, connecting |-> FALSE]
Idle == [pc |-> "idle", state |-> NoState]

Init ==
  /\ \E issued \in 0..1 :         \* never activated, or activated and verified
       /\ seat = [token |-> issued, bind |-> "none"] /\ matched = 1..issued
       /\ file = State(issued, issued = 1, "none") /\ clientState = file
  /\ service = FALSE /\ isServiceOk = FALSE
  /\ other = FALSE /\ cvBlock = FALSE
  /\ card = NewCard /\ form = Idle /\ sync = Idle /\ confirm = Idle /\ cur = NoState
  /\ events = 0

isActivated == clientState.token # 0
verifying == card.phase # "none"
showAccount == isActivated /\ ~card.reactivating /\ ~verifying /\ clientState.setupComplete
InvitedShown == showAccount /\ clientState.bindStatus = "invite_sent"
showForm == ~verifying /\ (~isActivated \/ card.reactivating)

-------------------------------------------------------------------------------
(* The queries: refetched by a timer or after a write.                     *)
refresh ==
  /\ clientState # file /\ clientState' = file
  /\ UNCHANGED <<seat, file, isServiceOk, cvBlock, world, card, flows, matched, events>>

mutateSystemState ==
  /\ isServiceOk # service /\ isServiceOk' = service
  /\ UNCHANGED <<seat, file, clientState, cvBlock, world, card, flows, matched, events>>

recheck ==
  /\ cvBlock # other /\ cvBlock' = other
  /\ UNCHANGED <<seat, file, clientState, isServiceOk, world, card, flows, matched, events>>

-------------------------------------------------------------------------------
(* onActivate: the gate is asked again before anything is sent.            *)
SubmitForm ==
  /\ form = Idle /\ showForm /\ seat.token < MaxCodes
  /\ cvBlock' = other /\ form' = IF other THEN form ELSE [form EXCEPT !.pc = "ask"]
  /\ UNCHANGED <<seat, file, clientState, isServiceOk, world, card, sync, confirm, cur, matched, events>>

(* activate and the import of its configuration; either may fail.          *)
activate ==
  /\ form.pc = "ask"
  /\ \/ /\ seat' = [token |-> seat.token + 1, bind |-> "none"]
        /\ form' \in {Idle, [pc |-> "save", state |-> State(seat.token + 1, FALSE, "none")]}
     \/ form' = Idle /\ UNCHANGED seat
  /\ UNCHANGED <<file, queries, world, card, sync, confirm, cur, matched, events>>

SaveForm ==
  /\ form.pc = "save" /\ file' = form.state /\ form' = [form EXCEPT !.pc = "verify"]
  /\ UNCHANGED <<seat, queries, world, card, sync, confirm, cur, matched, events>>

(* Begins the verification, which the resume effect may have begun before; *)
(* when the refetch of the system's state fails it does not.               *)
VerifyForm ==
  /\ form.pc = "verify" /\ form' = Idle
  /\ \/ /\ isServiceOk' = service
        /\ card' = [card EXCEPT !.failures = 0, !.phase = IF service THEN "connect" ELSE "service"]
     \/ card' = [card EXCEPT !.failures = 0] /\ UNCHANGED isServiceOk
  /\ UNCHANGED <<seat, file, clientState, cvBlock, world, sync, confirm, cur, matched, events>>

Reactivate ==
  /\ showAccount \/ (showForm /\ card.reactivating /\ isActivated /\ form = Idle)
  /\ card' = [card EXCEPT !.reactivating = showAccount]
  /\ UNCHANGED <<seat, file, queries, world, flows, matched, events>>

-------------------------------------------------------------------------------
(* The verification.                                                       *)
Resume ==
  /\ isActivated /\ ~clientState.setupComplete /\ ~verifying /\ ~card.reactivating /\ ~cvBlock
  /\ card' = [card EXCEPT !.failures = 0, !.phase = "service"]
  /\ UNCHANGED <<seat, file, queries, world, flows, matched, events>>

ServiceReady ==
  /\ card.phase = "service" /\ isServiceOk /\ card' = [card EXCEPT !.phase = "connect"]
  /\ UNCHANGED <<seat, file, queries, world, flows, matched, events>>

(* The first time since the verification began.                            *)
enableTun ==
  /\ card.phase = "connect" /\ ~card.started
  /\ card' = [card EXCEPT !.started = TRUE, !.connecting = TRUE]
  /\ UNCHANGED <<seat, file, queries, world, flows, matched, events>>

(* connected, and done                                                     *)
BugConnected ==
  /\ card.connecting /\ cur = NoState /\ cur' = file
  /\ card' = [card EXCEPT !.connecting = FALSE, !.phase = "none", !.started = FALSE]
  /\ UNCHANGED <<seat, file, queries, world, form, sync, confirm, matched, events>>

(* TUN is on and the core restarted, or one of them has failed.            *)
Connected ==
  /\ card.connecting /\ card' = [card EXCEPT !.connecting = FALSE, !.phase = "probe"]
  /\ UNCHANGED <<seat, file, queries, world, flows, matched, events>>

(* The exit matches; the file is read here and written in SaveSetup.       *)
Match ==
  /\ card.phase = "probe" /\ isActivated /\ cur = NoState
  /\ card' = [card EXCEPT !.phase = "none", !.reactivating = FALSE, !.started = FALSE]
  /\ cur' = IF file.setupComplete THEN NoState ELSE file
  /\ matched' = matched \cup {file.token}
  /\ UNCHANGED <<seat, file, queries, world, form, sync, confirm, events>>

SaveSetup ==
  /\ cur # NoState /\ file' = [cur EXCEPT !.setupComplete = TRUE] /\ cur' = NoState
  /\ UNCHANGED <<seat, queries, world, card, form, sync, confirm, matched, events>>

onInstallService ==
  /\ card.phase = "service" /\ ~card.installing /\ card' = [card EXCEPT !.installing = TRUE]
  /\ UNCHANGED <<seat, file, queries, world, flows, matched, events>>

(* The count is kept up to the first one too many.                         *)
Failed(c) ==
  IF c.failures < MAX_SERVICE_RETRIES THEN [c EXCEPT !.installing = FALSE, !.failures = @ + 1]
  ELSE [c EXCEPT !.installing = FALSE, !.failures = MAX_SERVICE_RETRIES + 1, !.phase = "support"]

Installed ==
  /\ card.installing /\ service' = TRUE
  /\ \/ isServiceOk' = TRUE /\ card' = [card EXCEPT !.installing = FALSE, !.failures = 0]
     \/ /\ UNCHANGED isServiceOk   \* the restart of the core after it has failed
        /\ card' = Failed(card)
  /\ UNCHANGED <<seat, file, clientState, cvBlock, other, flows, matched, events>>

InstallFails ==
  /\ card.installing /\ card' = Failed(card)
  /\ UNCHANGED <<seat, file, queries, world, flows, matched, events>>

RetryAnyway ==
  /\ card.phase = "support" /\ ~card.installing /\ card' = [card EXCEPT !.phase = "service"]
  /\ UNCHANGED <<seat, file, queries, world, flows, matched, events>>

(* The other client is stopped, and the gate asked again.                  *)
onForceStopCv ==
  /\ cvBlock /\ other' = FALSE /\ cvBlock' = FALSE
  /\ UNCHANGED <<seat, file, clientState, isServiceOk, service, card, flows, matched, events>>

(* The page is left and opened again.                                      *)
Leave ==
  /\ card # NewCard /\ form = Idle /\ confirm = Idle /\ ~card.installing
  /\ card' = NewCard
  /\ UNCHANGED <<seat, file, queries, world, flows, matched, events>>

-------------------------------------------------------------------------------
(* onConfirmBound, for a seat whose invitation was sent.                   *)
ConfirmBound ==
  /\ confirm = Idle /\ InvitedShown
  /\ confirm' = [pc |-> "ask", state |-> clientState]
  /\ UNCHANGED <<seat, file, queries, world, card, form, sync, cur, matched, events>>

(* Bound, refused, or the answer is lost.                                  *)
confirmBind ==
  /\ confirm.pc = "ask"
  /\ \/ /\ seat.token = confirm.state.token /\ seat.bind # "none"
        /\ seat' = [seat EXCEPT !.bind = "bound"]
        /\ confirm' \in {Idle, [pc |-> "save", state |-> file]}
     \/ confirm' = Idle /\ UNCHANGED seat
  /\ UNCHANGED <<file, queries, world, card, form, sync, cur, matched, events>>

SaveBound ==
  /\ confirm.pc = "save" /\ confirm' = Idle
  /\ file' = IF confirm.state = NoState THEN file ELSE [confirm.state EXCEPT !.bindStatus = "bound"]
  /\ UNCHANGED <<seat, queries, world, card, form, sync, cur, matched, events>>

(* runSync, as far as the card depends on it.                              *)
runSync ==
  /\ sync = Idle /\ file # NoState /\ sync' = [pc |-> "ask", state |-> file]
  /\ UNCHANGED <<seat, file, queries, world, card, form, confirm, cur, matched, events>>

(* what is known of the binding is kept                                    *)
BugSyncClient ==
  /\ sync.pc = "ask"
  /\ sync' = IF sync.state.token # seat.token THEN [sync EXCEPT !.pc = "erase"]
             ELSE [pc |-> "save",
                   state |-> IF sync.state.bindStatus = "none" THEN [sync.state EXCEPT !.bindStatus = seat.bind]
                             ELSE sync.state]
  /\ UNCHANGED <<seat, file, queries, world, card, form, confirm, cur, matched, events>>

syncClient ==
  /\ sync.pc = "ask"
  /\ sync' = IF sync.state.token # seat.token THEN [sync EXCEPT !.pc = "erase"]
             ELSE [pc |-> "save", state |-> [sync.state EXCEPT !.bindStatus = seat.bind]]
  /\ UNCHANGED <<seat, file, queries, world, card, form, confirm, cur, matched, events>>

SyncSave ==
  /\ sync.pc \in {"save", "erase"} /\ sync' = Idle
  /\ file' = IF sync.pc = "erase" THEN NoState ELSE sync.state
  /\ UNCHANGED <<seat, queries, world, card, form, confirm, cur, matched, events>>

SyncFails ==
  /\ sync.pc = "ask" /\ sync' = Idle
  /\ UNCHANGED <<seat, file, queries, world, card, form, confirm, cur, matched, events>>

-------------------------------------------------------------------------------
(* From outside: the administrator invites, confirms or resets; another    *)
(* client comes up; the service goes.  Bounded.                            *)
Outside ==
  /\ events < MaxEvents /\ events' = events + 1
  /\ \/ seat.token # 0 /\ seat.bind = "none" /\ seat' = [seat EXCEPT !.bind = "invite_sent"] /\ UNCHANGED world
     \/ seat.token # 0 /\ seat.bind # "bound" /\ seat' = [seat EXCEPT !.bind = "bound"] /\ UNCHANGED world
     \/ other' = ~other /\ UNCHANGED <<seat, service>>
     \/ service' = ~service /\ UNCHANGED <<seat, other>>
  /\ UNCHANGED <<file, queries, card, flows, matched>>

(* The seat is given to a new code: its token is none any more.            *)
Reset ==
  /\ events < MaxEvents /\ events' = events + 1
  /\ seat.token \in 1..MaxCodes
  /\ seat' = [token |-> seat.token + 1, bind |-> "none"]
  /\ UNCHANGED <<file, queries, world, card, flows, matched>>

Effects == Resume \/ ServiceReady \/ enableTun
Queries == refresh \/ mutateSystemState \/ recheck
Answers == Connected \/ SaveForm \/ VerifyForm \/ activate \/ SaveSetup \/ confirmBind \/ SaveBound \/ SyncSave

Next ==
  \/ Queries \/ Effects \/ Match \/ Answers \/ SubmitForm \/ Reactivate
  \/ onInstallService \/ Installed \/ InstallFails \/ RetryAnyway
  \/ onForceStopCv \/ Leave
  \/ ConfirmBound \/ runSync \/ syncClient \/ SyncFails
  \/ Outside \/ Reset

(* Effects run after the rendering that enables them, queries are renewed, *)
(* writes end, and the sync goes on: its requests do not fail for ever.    *)
Fairness ==
  /\ WF_vars(refresh) /\ WF_vars(mutateSystemState) /\ WF_vars(recheck)
  /\ WF_vars(Effects) /\ WF_vars(Connected) /\ WF_vars(SaveForm) /\ WF_vars(VerifyForm) /\ WF_vars(SaveSetup)
  /\ WF_vars(activate) /\ WF_vars(confirmBind) /\ WF_vars(SaveBound)
  /\ WF_vars(runSync) /\ SF_vars(syncClient) /\ WF_vars(SyncSave)

Spec == Init /\ [][Next]_vars /\ Fairness

-------------------------------------------------------------------------------
(* The account is shown only when the exit has matched since its           *)
(* credentials were issued, whatever the sync, the form and a verification *)
(* under way write over one another.                                       *)
AccountIsVerified == showAccount => clientState.token \in matched

(* A bound seat is shown as bound, whoever bound it and whatever the sync  *)
(* or the card had read before, unless its credentials go.                 *)
IsBound == seat.bind = "bound" /\ file.token = seat.token
ShowsBound == clientState.bindStatus = "bound" \/ file.token # seat.token
BoundIsShown == IsBound ~> ShowsBound

(* The phase connect turns TUN on and is followed by probe (a comment of   *)
(* the verification effect).                                               *)
ConnectEnds == card.phase = "connect" ~> card.phase # "connect"
===============================================================================
