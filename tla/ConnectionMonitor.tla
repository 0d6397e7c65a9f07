--------------------------- MODULE ConnectionMonitor ---------------------------
(***************************************************************************)
(* The connections' monitor (src/src/hooks/use-connection-data.ts): one    *)
(* socket of the core for the life of the window, messages coalesced to    *)
(* one a period, and the list of the connections that are gone, which      *)
(* keeps the last MAX_CLOSED_CONNS_NUM.                                    *)
(*                                                                         *)
(* A message is the sequence of the ids of the connections that are open;  *)
(* addresses, rules and counters are left out.                             *)
(***************************************************************************)
EXTENDS Naturals, Sequences, SequencesExt

CONSTANTS Conns, MAX_CLOSED_CONNS_NUM,
          MaxGone     \* bound: connections that go away between two clearings

VARIABLES started,    \* connectionStarted
          socket,     \* connectionSocket: "none" or "open"
          connecting, \* connectionConnecting
          reconnectTimer,
          closing,    \* calls of closeConnectionSocket that await close()
          flushTimer, pending,  \* the coalesced message: none or one
          recent,     \* less than a period since lastFlushAt
          page,       \* the connections page listens (connectionListeners)
          active, closed,       \* connectionData
          summary,    \* connectionSummary.activeConnectionCount
          gone        \* every connection that went away since the list was cleared

vars == <<started, socket, connecting, reconnectTimer, closing, flushTimer, pending, recent,
          page, active, closed, summary, gone>>

socketVars == <<started, socket, connecting, reconnectTimer, closing>>
dataVars == <<active, closed, summary, gone>>

Payloads == {SetToSeq(S) : S \in SUBSET Conns}

LastN(n, s) == IF Len(s) <= n THEN s ELSE SubSeq(s, Len(s) - n + 1, Len(s))

-------------------------------------------------------------------------------
(* mergeConnectionSnapshot, the list of the closed: room is made at its    *)
(* front, and what does not fit of the removed is skipped.                 *)
Removed(payload) == SelectSeq(active, LAMBDA c : c \notin ToSet(payload))

BugMergeClosed(payload) == closed \o Removed(payload)

MergeClosed(payload) ==
  LET n == Len(Removed(payload))
      over == Len(closed) + n
      drop == IF over > MAX_CLOSED_CONNS_NUM THEN over - MAX_CLOSED_CONNS_NUM ELSE 0
      kept == IF drop >= Len(closed) THEN <<>> ELSE SubSeq(closed, drop + 1, Len(closed))
      room == MAX_CLOSED_CONNS_NUM - Len(kept)
      skip == IF n > room THEN n - room ELSE 0
  IN  IF n = 0 THEN closed ELSE kept \o SubSeq(Removed(payload), skip + 1, n)

(* flushPendingMessage on a message: the summary always, the lists only    *)
(* while the page listens.                                                 *)
Flushed(payload) ==
  /\ summary' = Len(payload)
  /\ recent' = TRUE
  /\ IF page
     THEN /\ active' = payload
          /\ closed' = MergeClosed(payload)
          /\ gone' = gone \o Removed(payload)
     ELSE UNCHANGED <<active, closed, gone>>

(* JSON.parse throws: nothing is shown and the period does not start.      *)
NotParsed == UNCHANGED dataVars /\ UNCHANGED recent

Shown(payload) == Flushed(payload) \/ NotParsed

-------------------------------------------------------------------------------
Init ==
  /\ started = FALSE /\ socket = "none" /\ connecting = FALSE
  /\ reconnectTimer = FALSE /\ closing = 0
  /\ flushTimer = FALSE /\ pending = <<>> /\ recent = FALSE
  /\ page = FALSE
  /\ active = <<>> /\ closed = <<>> /\ summary = 0 /\ gone = <<>>

(* connectConnectionSocket up to its await.                                *)
connectConnectionSocket ==
  IF socket # "none" \/ connecting THEN UNCHANGED <<socket, connecting, reconnectTimer>>
  ELSE connecting' = TRUE /\ reconnectTimer' = FALSE /\ UNCHANGED socket

startConnectionMonitor ==
  IF started THEN UNCHANGED socketVars
  ELSE started' = TRUE /\ connectConnectionSocket /\ UNCHANGED closing

subscribeConnectionData ==
  /\ ~page /\ page' = TRUE
  /\ startConnectionMonitor
  /\ UNCHANGED <<flushTimer, pending, recent>> /\ UNCHANGED dataVars

unsubscribeConnectionData ==
  /\ page /\ page' = FALSE
  /\ UNCHANGED <<flushTimer, pending, recent>> /\ UNCHANGED socketVars /\ UNCHANGED dataVars

subscribeConnectionSummary ==
  /\ ~started /\ startConnectionMonitor
  /\ UNCHANGED <<flushTimer, pending, recent, page>> /\ UNCHANGED dataVars

Connected ==
  /\ connecting
  /\ socket' = "open" /\ connecting' = FALSE
  /\ UNCHANGED <<started, reconnectTimer, closing, flushTimer, pending, recent, page>>
  /\ UNCHANGED dataVars

BugConnectFails ==
  /\ connecting
  /\ connecting' = FALSE
  /\ UNCHANGED <<started, socket, reconnectTimer, closing, flushTimer, pending, recent, page>>
  /\ UNCHANGED dataVars

(* scheduleReconnect leaves a timer that runs already alone.               *)
ConnectFails ==
  /\ connecting
  /\ reconnectTimer' = TRUE /\ connecting' = FALSE
  /\ UNCHANGED <<started, socket, closing, flushTimer, pending, recent, page>>
  /\ UNCHANGED dataVars

(* The timer takes itself off before it connects.                          *)
ReconnectTimerFires ==
  /\ reconnectTimer
  /\ reconnectTimer' = FALSE
  /\ connecting' = (connecting \/ socket = "none")
  /\ UNCHANGED <<started, socket, closing, flushTimer, pending, recent, page>>
  /\ UNCHANGED dataVars

(* reconnectConnectionSocket: give the socket up, await its close(), then  *)
(* schedule; without a socket there is nothing to await.                   *)
reconnectConnectionSocket ==
  /\ IF socket = "open"
     THEN closing' = closing + 1 /\ UNCHANGED reconnectTimer
     ELSE reconnectTimer' = TRUE /\ UNCHANGED closing
  /\ socket' = "none"
  /\ UNCHANGED <<started, connecting>>

(* close() answered, or was rejected and logged.                           *)
SocketClosed ==
  /\ closing > 0
  /\ closing' = closing - 1 /\ reconnectTimer' = TRUE
  /\ UNCHANGED <<started, socket, connecting, flushTimer, pending, recent, page>>
  /\ UNCHANGED dataVars

(* "Websocket error", also a second time from a socket being closed.       *)
SocketError ==
  /\ socket = "open" \/ closing > 0
  /\ closing < 2
  /\ reconnectConnectionSocket
  /\ UNCHANGED <<flushTimer, pending, recent, page>> /\ UNCHANGED dataVars

BugEnqueue(payload) ==
  /\ pending' = <<payload>>
  /\ UNCHANGED <<flushTimer, recent>> /\ UNCHANGED dataVars

(* A period after the last flush the message is shown at once, within it   *)
(* the timer is set; while it runs the message replaces the one that waits.*)
Enqueue(payload) ==
  IF flushTimer THEN pending' = <<payload>> /\ UNCHANGED <<flushTimer, recent>> /\ UNCHANGED dataVars
  ELSE IF ~recent THEN pending' = <<>> /\ Shown(payload) /\ UNCHANGED flushTimer
  ELSE pending' = <<payload>> /\ flushTimer' = TRUE /\ UNCHANGED recent /\ UNCHANGED dataVars

enqueueConnectionMessage(payload) ==
  /\ socket = "open" \/ closing > 0
  /\ Len(gone) + Len(active) <= MaxGone
  /\ Enqueue(payload)
  /\ UNCHANGED page /\ UNCHANGED socketVars

flushPendingMessage ==
  /\ flushTimer
  /\ flushTimer' = FALSE /\ pending' = <<>>
  /\ Shown(pending[1])
  /\ UNCHANGED page /\ UNCHANGED socketVars

PeriodPasses ==
  /\ recent /\ ~flushTimer
  /\ recent' = FALSE
  /\ UNCHANGED <<flushTimer, pending, page>> /\ UNCHANGED socketVars /\ UNCHANGED dataVars

refreshConnectionData ==
  /\ started /\ closing < 2
  /\ pending' = <<>> /\ flushTimer' = FALSE
  /\ reconnectConnectionSocket
  /\ UNCHANGED <<recent, page>> /\ UNCHANGED dataVars

clearClosedConnectionData ==
  /\ closed # <<>>
  /\ closed' = <<>> /\ gone' = <<>>
  /\ UNCHANGED <<flushTimer, pending, recent, page, active, summary>> /\ UNCHANGED socketVars

Next ==
  \/ subscribeConnectionData \/ unsubscribeConnectionData \/ subscribeConnectionSummary
  \/ Connected \/ ConnectFails \/ ReconnectTimerFires \/ SocketClosed \/ SocketError
  \/ \E p \in Payloads : enqueueConnectionMessage(p)
  \/ flushPendingMessage \/ PeriodPasses
  \/ refreshConnectionData \/ clearClosedConnectionData

Spec == Init /\ [][Next]_vars

-------------------------------------------------------------------------------
(* The page lists the last MAX_CLOSED_CONNS_NUM connections that went      *)
(* away, oldest first, however many leave at once and whatever is cleared. *)
ClosedAreTheLast == closed = LastN(MAX_CLOSED_CONNS_NUM, gone)

(* Once started the monitor never stops: it has a socket, asks for one,    *)
(* waits to ask again or for the close() after which it will; and no       *)
(* message waits without the timer that shows it.                          *)
NeverStops ==
  /\ started => socket = "open" \/ connecting \/ reconnectTimer \/ closing > 0
  /\ pending # <<>> => flushTimer
===============================================================================
