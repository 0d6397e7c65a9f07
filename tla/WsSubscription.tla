---------------------------- MODULE WsSubscription ----------------------------
(***************************************************************************)
(* useMihomoWsSubscription (src/src/hooks/use-mihomo-ws-subscription.ts):  *)
(* one websocket of the core shared by every mounted component that uses   *)
(* the same hook.  An entry lives as long as a component holds it; its     *)
(* first owner handles the messages, the next one takes over when it       *)
(* leaves; an error message closes the socket and reconnects later.        *)
(*                                                                         *)
(* kind is the hook: "traffic" (and memory) throttles what it writes to    *)
(* the query cache and has no onConnected; "logs" writes through and loads *)
(* the past logs in onConnected before it listens.  Slots of closed        *)
(* entries and sockets are reused, so that nothing is counted.             *)
(*                                                                         *)
(* Assumed of the websocket plugin: a socket says nothing before it has a  *)
(* listener, and once "logs" has asked to close a socket no second error   *)
(* of it arrives.                                                          *)
(***************************************************************************)
EXTENDS Naturals, Sequences, SequencesExt

CONSTANTS Comp,     \* the components that use the hook
          Vals,     \* what a message says
          Entries,  \* slots for shared entries
          Slots     \* slots for the sockets of one entry

VARIABLES kind,     \* "traffic" or "logs"
          mounted,  \* the components whose effect is in force
          shared,   \* sharedSubscriptions at the key of the stored date
          entry,    \* the entries
          sock,     \* the sockets of each entry
          thr,      \* per component: the throttle of its `next`
          cache,    \* the query cache under the key
          sent,     \* the last value a listener was given
          missed    \* that value went down with the owner that held it

vars == <<kind, mounted, shared, entry, sock, thr, cache, sent, missed>>

Nil == "nil"

NoEntry == [owners |-> <<>>, active |-> Nil, ws |-> Nil, hand |-> Nil,
            timer |-> FALSE, orphan |-> FALSE, closed |-> TRUE, pc |-> "idle", broken |-> FALSE]

NoSock == [st |-> "free", listening |-> FALSE, resched |-> FALSE]

NoThrottle == [timer |-> FALSE, pending |-> Nil]

(* owner.isMounted: an owner leaves the set in the step that unmounts it.  *)
pickActiveOwner(e) ==
  IF e.active # Nil THEN e.active ELSE IF e.owners = <<>> THEN Nil ELSE Head(e.owners)

(* connectWs up to its await.                                              *)
BeginConnect(e) ==
  IF e.closed \/ e.pc # "idle" \/ e.ws # Nil THEN e ELSE [e EXCEPT !.pc = "connect"]

(* The handle of a timer that was still running is lost, not the timer.    *)
SetTimer(e) == [e EXCEPT !.orphan = @ \/ e.timer, !.timer = TRUE]

clearReconnectTimer(e) == [e EXCEPT !.timer = FALSE]

FreeEntry(i) ==
  entry[i] = NoEntry /\ \A s \in Slots : sock[i][s].st = "free"

HasFreeSlot(i) == \E s \in Slots : sock[i][s].st = "free"
FreeSlot(i) == CHOOSE s \in Slots : sock[i][s].st = "free"

(* A socket that starts to close; then says what follows its close().      *)
Closing(i, s, then) ==
  [sock EXCEPT ![i][s] = [@ EXCEPT !.st = "closing", !.resched = then]]

-------------------------------------------------------------------------------
Init ==
  /\ kind \in {"traffic", "logs"}
  /\ mounted = {}
  /\ shared = Nil
  /\ entry = [i \in Entries |-> NoEntry]
  /\ sock = [i \in Entries |-> [s \in Slots |-> NoSock]]
  /\ thr = [c \in Comp |-> NoThrottle]
  /\ cache = Nil /\ sent = Nil /\ missed = FALSE

(* The effect: take part in the entry of the key, or create it, and        *)
(* connect it.                                                             *)
Join(c, e) ==
  BeginConnect([e EXCEPT !.owners = Append(@, c), !.active = IF @ = Nil THEN c ELSE @])

createSharedSubscriptionEntry == [NoEntry EXCEPT !.closed = FALSE]

Mount(c) ==
  /\ c \notin mounted
  /\ mounted' = mounted \cup {c}
  /\ \/ /\ shared # Nil
        /\ entry' = [entry EXCEPT ![shared] = Join(c, @)]
        /\ UNCHANGED shared
     \/ /\ shared = Nil
        /\ \E i \in Entries : FreeEntry(i)
        /\ shared' = CHOOSE i \in Entries : FreeEntry(i)
        /\ entry' = [entry EXCEPT ![shared'] = Join(c, createSharedSubscriptionEntry)]
  /\ UNCHANGED <<kind, sock, thr, cache, sent, missed>>

(* What is left of an entry after its last owner: closed, its timer        *)
(* cleared, its socket given up; only connectWs may still hold it.         *)
Shut(e) == [NoEntry EXCEPT !.pc = e.pc, !.hand = e.hand, !.orphan = e.orphan]

(* The cleanup of the effects of cs, over being the entry without them:    *)
(* what their throttles held is dropped, and with the last owner the entry *)
(* closes for good.                                                        *)
Leave(cs, over) ==
  /\ mounted' = mounted \ cs
  /\ thr' = [c \in Comp |-> IF c \in cs THEN NoThrottle ELSE thr[c]]
  /\ IF over.owners = <<>>
     THEN /\ shared' = Nil /\ missed' = FALSE
          /\ entry' = [entry EXCEPT ![shared] = Shut(over)]
          /\ sock' = [sock EXCEPT ![shared] =
               [s \in Slots |-> IF @[s].st = "closing" \/ s = over.ws
                                THEN [NoSock EXCEPT !.st = "closing"] ELSE @[s]]]
     ELSE /\ missed' = (missed \/ \E c \in cs : thr[c].pending # Nil)
          /\ entry' = [entry EXCEPT ![shared] = over]
          /\ UNCHANGED <<shared, sock>>

BugUnmount(c) ==
  /\ c \in mounted
  /\ Leave({c}, [entry[shared] EXCEPT !.owners = Remove(@, c),
                                     !.active = IF @ = c THEN Nil ELSE @])
  /\ sent' = IF mounted' = {} THEN cache ELSE sent
  /\ UNCHANGED <<kind, cache>>

(* A component goes away and hands over to the next owner (whose           *)
(* onConnected, for "logs", runs on the socket that is there).             *)
Unmount(c) ==
  /\ c \in mounted
  /\ LET left == [entry[shared] EXCEPT !.owners = Remove(@, c), !.active = IF @ = c THEN Nil ELSE @]
     IN  Leave({c}, [left EXCEPT !.active = pickActiveOwner(left)])
  /\ sent' = IF mounted' = {} THEN cache ELSE sent
  /\ UNCHANGED <<kind, cache>>

(* refresh(): the old key leaves the cache and another date makes another  *)
(* key.  Every component runs its cleanup and then, again, Mount.          *)
refresh ==
  /\ mounted # {}
  /\ Leave(mounted, [entry[shared] EXCEPT !.owners = <<>>])
  /\ cache' = Nil /\ sent' = Nil
  /\ UNCHANGED kind

-------------------------------------------------------------------------------
BugConnected(i) ==
  /\ entry[i].pc = "connect"
  /\ HasFreeSlot(i)
  /\ LET s == FreeSlot(i)
     IN  /\ entry' = [entry EXCEPT ![i] = [@ EXCEPT !.pc = "idle", !.ws = s, !.timer = FALSE]]
         /\ sock' = [sock EXCEPT ![i][s] = [NoSock EXCEPT !.st = "open", !.listening = TRUE]]
  /\ UNCHANGED <<kind, mounted, shared, thr, cache, sent, missed>>

(* connect() has answered.  Everybody may have left meanwhile: then the    *)
(* socket is closed.  "logs" awaits onConnected before it listens.         *)
Connected(i) ==
  /\ entry[i].pc = "connect" /\ HasFreeSlot(i)
  /\ LET s == FreeSlot(i)
         held == [clearReconnectTimer(entry[i]) EXCEPT !.ws = s, !.active = pickActiveOwner(entry[i])]
     IN  \/ /\ entry[i].closed
            /\ entry' = [entry EXCEPT ![i].pc = "idle"]
            /\ sock' = [sock EXCEPT ![i][s].st = "closing"]
         \/ /\ ~entry[i].closed
            /\ entry' = [entry EXCEPT ![i] =
                 IF kind = "logs" THEN [held EXCEPT !.pc = "onConnected", !.hand = s]
                                  ELSE [held EXCEPT !.pc = "idle"]]
            /\ sock' = [sock EXCEPT ![i][s] =
                 [NoSock EXCEPT !.st = "open", !.listening = (kind = "traffic")]]
  /\ UNCHANGED <<kind, mounted, shared, thr, cache, sent, missed>>

BugConnectFails(i) ==
  /\ entry[i].pc = "connect"
  /\ entry' = [entry EXCEPT ![i].pc = "idle"]
  /\ UNCHANGED <<kind, mounted, shared, sock, thr, cache, sent, missed>>

(* The catch of connectWs for a failed connect.                            *)
ConnectFails(i) ==
  /\ entry[i].pc = "connect"
  /\ entry' = [entry EXCEPT ![i] =
       LET e == [@ EXCEPT !.pc = "idle"]
       IN  IF e.closed THEN e ELSE SetTimer(clearReconnectTimer(e))]
  /\ UNCHANGED <<kind, mounted, shared, sock, thr, cache, sent, missed>>

(* onConnected has loaded the past logs: close when everybody has left,    *)
(* else listen, whatever has become of the socket.                         *)
OnConnectedDone(i) ==
  /\ entry[i].pc = "onConnected"
  /\ LET s == entry[i].hand
     IN  /\ entry' = [entry EXCEPT ![i].pc = "idle", ![i].hand = Nil]
         /\ sock' = IF entry[i].closed
                    THEN IF sock[i][s].st = "open" THEN Closing(i, s, FALSE) ELSE sock
                    ELSE [sock EXCEPT ![i][s].listening = TRUE]
  /\ UNCHANGED <<kind, mounted, shared, thr, cache, sent, missed>>

(* getClashLogs is rejected inside connectWs's try: the catch only looks   *)
(* whether there is a socket.  There is, and nothing listens to it.        *)
OnConnectedFails(i) ==
  /\ entry[i].pc = "onConnected"
  /\ entry' = [entry EXCEPT ![i] =
       LET e == [@ EXCEPT !.pc = "idle", !.hand = Nil]
       IN  IF e.closed THEN e
           ELSE IF e.ws = Nil THEN SetTimer(clearReconnectTimer(e))
           ELSE [e EXCEPT !.broken = TRUE]]
  /\ UNCHANGED <<kind, mounted, shared, sock, thr, cache, sent, missed>>

TimerFires(i) ==
  /\ entry[i].timer
  /\ entry' = [entry EXCEPT ![i] = BeginConnect(clearReconnectTimer(@))]
  /\ UNCHANGED <<kind, mounted, shared, sock, thr, cache, sent, missed>>

(* A timer whose handle was overwritten.                                   *)
OrphanFires(i) ==
  /\ entry[i].orphan
  /\ entry' = [entry EXCEPT ![i] = BeginConnect([@ EXCEPT !.orphan = FALSE])]
  /\ UNCHANGED <<kind, mounted, shared, sock, thr, cache, sent, missed>>

-------------------------------------------------------------------------------
Speaks(i, s) == sock[i][s].listening /\ sock[i][s].st \in {"open", "closing"}

(* `next` of an owner: write the value, or, while the throttle's timer     *)
(* runs, keep it as the only pending one.                                  *)
next(c, v) ==
  IF kind = "traffic" /\ thr[c].timer
  THEN thr' = [thr EXCEPT ![c].pending = v] /\ UNCHANGED cache
  ELSE /\ cache' = v
       /\ thr' = [thr EXCEPT ![c].timer = (kind = "traffic")]

(* The active owner's handler got a value.                                 *)
HandleMessage(i, s, v) ==
  LET c == pickActiveOwner(entry[i])
  IN  /\ Speaks(i, s) /\ c # Nil
      /\ next(c, v)
      /\ sent' = v
      /\ missed' = FALSE
      /\ UNCHANGED <<kind, mounted, shared, entry, sock>>

BugFlush(c) ==
  /\ thr[c].timer
  /\ thr' = [thr EXCEPT ![c] = NoThrottle]
  /\ UNCHANGED <<kind, mounted, shared, entry, sock, cache, sent, missed>>

(* The throttle's timer.                                                   *)
flush(c) ==
  /\ thr[c].timer
  /\ thr' = [thr EXCEPT ![c] = NoThrottle]
  /\ cache' = IF thr[c].pending # Nil THEN thr[c].pending ELSE cache
  /\ UNCHANGED <<kind, mounted, shared, entry, sock, sent, missed>>

(* "Websocket error": scheduleReconnect up to the await of close().  With  *)
(* the socket gone already (a second error) the timer is set at once.      *)
scheduleReconnect(i, s) ==
  LET e == clearReconnectTimer(entry[i])
  IN  /\ Speaks(i, s) /\ pickActiveOwner(e) # Nil
      /\ kind = "logs" => sock[i][s].st = "open"
      /\ IF e.ws = Nil
         THEN entry' = [entry EXCEPT ![i] = SetTimer(e)] /\ UNCHANGED sock
         ELSE /\ entry' = [entry EXCEPT ![i] = [e EXCEPT !.ws = Nil]]
              /\ sock' = Closing(i, e.ws, TRUE)
      /\ UNCHANGED <<kind, mounted, shared, thr, cache, sent, missed>>

(* close() has answered; scheduleReconnect goes on.                        *)
Closed(i, s) ==
  /\ sock[i][s].st = "closing"
  /\ sock' = [sock EXCEPT ![i][s] = NoSock]
  /\ entry' = IF sock[i][s].resched /\ ~entry[i].closed
              THEN [entry EXCEPT ![i] = SetTimer(@)] ELSE entry
  /\ UNCHANGED <<kind, mounted, shared, thr, cache, sent, missed>>

(* close() is rejected: scheduleReconnect ends before it sets its timer.   *)
CloseFails(i, s) ==
  /\ sock[i][s].st = "closing"
  /\ sock' = [sock EXCEPT ![i][s] = NoSock]
  /\ entry' = IF sock[i][s].resched /\ ~entry[i].closed
              THEN [entry EXCEPT ![i].broken = TRUE] ELSE entry
  /\ UNCHANGED <<kind, mounted, shared, thr, cache, sent, missed>>

-------------------------------------------------------------------------------
Next ==
  \/ refresh
  \/ \E c \in Comp : Mount(c) \/ Unmount(c) \/ flush(c)
  \/ \E i \in Entries :
       \/ Connected(i) \/ ConnectFails(i) \/ OnConnectedDone(i) \/ OnConnectedFails(i)
       \/ TimerFires(i) \/ OrphanFires(i)
       \/ \E s \in Slots :
            \/ scheduleReconnect(i, s) \/ Closed(i, s) \/ CloseFails(i, s)
            \/ \E v \in Vals : HandleMessage(i, s, v)

(* The browser runs its timers and answers its calls, and a core that is   *)
(* asked again and again accepts a connection in the end.                  *)
Fairness(i) ==
  /\ WF_vars(TimerFires(i)) /\ SF_vars(Connected(i))
  /\ WF_vars(OnConnectedDone(i) \/ OnConnectedFails(i))
  /\ \A s \in Slots : WF_vars(Closed(i, s) \/ CloseFails(i, s))

Spec == Init /\ [][Next]_vars /\ \A i \in Entries : Fairness(i)

-------------------------------------------------------------------------------
TypeOK ==
  /\ kind \in {"traffic", "logs"} /\ mounted \subseteq Comp /\ shared \in Entries \cup {Nil}
  /\ \A i \in Entries :
       /\ ToSet(entry[i].owners) = IF i = shared THEN mounted ELSE {}
       /\ entry[i].ws \in Slots \cup {Nil} /\ entry[i].pc \in {"idle", "connect", "onConnected"}
  /\ \A i \in Entries, s \in Slots : sock[i][s].st \in {"free", "open", "closing"}
  /\ thr \in [Comp -> [timer : BOOLEAN, pending : Vals \cup {Nil}]]
  /\ cache \in Vals \cup {Nil} /\ sent \in Vals \cup {Nil}

(* No socket is left open: one that is open is the socket of an entry      *)
(* somebody holds, or connectWs still has it in its hand and will look.    *)
NoSocketLeaks ==
  \A i \in Entries, s \in Slots :
    sock[i][s].st = "open" => (entry[i].ws = s /\ ~entry[i].closed) \/ entry[i].hand = s

(* What the cache holds is the last value a listener was given, or that    *)
(* value waits in the throttle of the owner that got it, unless it went    *)
(* down with that owner.                                                   *)
CacheFollows ==
  \/ cache = sent
  \/ \E c \in mounted : thr[c].timer /\ thr[c].pending = sent
  \/ missed

(* The entry has a socket with a listener, and somebody to be told.        *)
Served == LET e == entry[shared] IN e.ws # Nil /\ sock[shared][e.ws].listening /\ e.active # Nil

(* While a component stays mounted it is served in the end: after however  *)
(* many errors, hand-overs and refusals, unless an awaited call of the     *)
(* entry was rejected.                                                     *)
Listened == mounted # {}
ServedOrNot == mounted = {} \/ Served \/ entry[shared].broken
StaysServed == Listened ~> ServedOrNot
===============================================================================
