------------------------------- MODULE LogData -------------------------------
(***************************************************************************)
(* The logs page's data (src/src/hooks/use-log-data.ts): messages are      *)
(* filtered by level, gathered in a buffer and appended to the query cache *)
(* by a timer; the past logs are loaded once, when the socket has          *)
(* connected; a change of level starts over on another key.  The socket    *)
(* itself is WsSubscription's.  A log line is its type.                    *)
(***************************************************************************)
EXTENDS Naturals, Sequences, SequencesExt

CONSTANTS Types,     \* debug, info, ...
          Levels,    \* level -> the types it lets through (LOG_LEVEL_FILTERS)
          MAX_LOG_NUM,
          MaxLoads   \* bound: onConnected calls that await getClashLogs

VARIABLES level,     \* clashLog.logLevel
          effect,    \* the level the effect in force was made with
          turning,   \* another key is asked for, its rendering is still to come
          loaded,    \* hasLoadedInitialLogsRef
          loads,     \* the effects of the onConnected calls that wait: "own" or "old"
          listening, \* the effect's socket has its listener
          buffer, flushTimer,
          cache,     \* what the page shows: the query cache under the key
          heard      \* the last lines since the list was last empty

vars == <<level, effect, turning, loaded, loads, listening, buffer, flushTimer, cache, heard>>

LastN(n, s) == IF Len(s) <= n THEN s ELSE SubSeq(s, Len(s) - n + 1, Len(s))

clampLogs(s) == LastN(MAX_LOG_NUM, s)

filterLogsByLevel(s, l) == SelectSeq(s, LAMBDA t : t \in Levels[l])

BugAppendLogs(base, incoming) ==
  IF Len(base) + Len(incoming) <= MAX_LOG_NUM THEN base \o incoming ELSE incoming

appendLogs(base, incoming) ==
  LET total == Len(base) + Len(incoming)
      drop == total - MAX_LOG_NUM
  IN  IF total <= MAX_LOG_NUM THEN base \o incoming
      ELSE IF drop >= Len(base)
           THEN SubSeq(incoming, Len(incoming) - MAX_LOG_NUM + 1, Len(incoming))
           ELSE SubSeq(base, drop + 1, Len(base)) \o incoming

-------------------------------------------------------------------------------
Init ==
  /\ level \in DOMAIN Levels
  /\ effect = level /\ turning = FALSE
  /\ loaded = FALSE /\ loads = <<>> /\ listening = FALSE
  /\ buffer = <<>> /\ flushTimer = FALSE /\ cache = <<>> /\ heard = <<>>

(* connectWs has the socket: the past logs are asked for unless the ref    *)
(* says they are there.                                                    *)
Connect ==
  /\ ~listening /\ "own" \notin ToSet(loads)
  /\ IF loaded THEN listening' = TRUE /\ UNCHANGED loads
     ELSE /\ Len(loads) < MaxLoads
          /\ loads' = Append(loads, "own") /\ UNCHANGED listening
  /\ UNCHANGED <<level, effect, turning, loaded, buffer, flushTimer, cache, heard>>

(* getClashLogs answers a call.  An effect that is gone sets the ref       *)
(* nevertheless, but writes nothing.                                       *)
onConnected(n, past) ==
  /\ loads' = RemoveAt(loads, n)
  /\ loaded' = TRUE
  /\ IF loads[n] = "own"
     THEN /\ listening' = TRUE
          /\ LET lines == clampLogs(filterLogsByLevel(past, effect))
             IN  IF cache = <<>> THEN cache' = lines /\ heard' = lines ELSE UNCHANGED <<cache, heard>>
     ELSE UNCHANGED <<listening, cache, heard>>
  /\ UNCHANGED <<level, effect, turning, buffer, flushTimer>>

BugHandleMessage(t) ==
  /\ listening
  /\ buffer' = Append(buffer, t)
  /\ heard' = IF t \in Levels[effect] THEN LastN(MAX_LOG_NUM, Append(heard, t)) ELSE heard
  /\ flushTimer' = TRUE
  /\ UNCHANGED <<level, effect, turning, loaded, loads, listening, cache>>

(* allowedTypes is empty for "silent", and an empty list filters nothing.  *)
Allowed(t) == Levels[effect] = {} \/ t \in Levels[effect]

handleMessage(t) ==
  /\ listening
  /\ Allowed(t)
  /\ buffer' = LastN(MAX_LOG_NUM, Append(buffer, t))
  /\ heard' = LastN(MAX_LOG_NUM, Append(heard, t))
  /\ flushTimer' = TRUE
  /\ UNCHANGED <<level, effect, turning, loaded, loads, listening, cache>>

flush ==
  /\ flushTimer
  /\ flushTimer' = FALSE
  /\ buffer' = <<>>
  /\ cache' = appendLogs(cache, buffer)
  /\ UNCHANGED <<level, effect, turning, loaded, loads, listening, heard>>

(* The level changes; the effect forgets that the logs were loaded and     *)
(* asks for another key.                                                   *)
ChangeLevel(l) ==
  /\ l # level
  /\ level' = l /\ loaded' = FALSE
  /\ turning' = TRUE
  /\ UNCHANGED <<effect, loads, listening, buffer, flushTimer, cache, heard>>

(* refreshGetClashLog(false).                                              *)
Refresh ==
  /\ ~turning
  /\ loaded' = FALSE /\ turning' = TRUE
  /\ UNCHANGED <<level, effect, loads, listening, buffer, flushTimer, cache, heard>>

BugNewKey ==
  /\ turning /\ turning' = FALSE
  /\ effect' = level
  /\ loads' = [n \in DOMAIN loads |-> "old"]
  /\ listening' = FALSE
  /\ cache' = <<>> /\ heard' = <<>>
  /\ UNCHANGED <<level, loaded, buffer, flushTimer>>

(* The rendering with the new key: the old effect's cleanup clears its     *)
(* timer (its buffer goes with its closure), the new effect begins.        *)
NewKey ==
  /\ turning /\ turning' = FALSE
  /\ effect' = level
  /\ loads' = [n \in DOMAIN loads |-> "old"]
  /\ listening' = FALSE
  /\ buffer' = <<>> /\ flushTimer' = FALSE
  /\ cache' = <<>> /\ heard' = <<>>
  /\ UNCHANGED <<level, loaded>>

(* refreshGetClashLog(true): the list is emptied, the buffer is not.       *)
Clear ==
  /\ cache # <<>>
  /\ cache' = <<>> /\ heard' = buffer
  /\ UNCHANGED <<level, effect, turning, loaded, loads, listening, buffer, flushTimer>>

Next ==
  \/ Connect \/ flush \/ Refresh \/ NewKey \/ Clear
  \/ \E n \in DOMAIN loads, past \in BoundedSeq(Types, 2) : onConnected(n, past)
  \/ \E t \in Types : handleMessage(t)
  \/ \E l \in DOMAIN Levels : ChangeLevel(l)

Spec == Init /\ [][Next]_vars

-------------------------------------------------------------------------------
(* What the page shows and what the buffer still holds are, together, the  *)
(* last MAX_LOG_NUM lines heard since the list was empty: none is lost,    *)
(* doubled or out of order, and none waits without its timer.              *)
LogsAreTheLast ==
  /\ LastN(MAX_LOG_NUM, cache \o buffer) = heard
  /\ Len(cache) <= MAX_LOG_NUM
  /\ buffer # <<>> => flushTimer

(* Only lines the level in force lets through are shown (silent apart,     *)
(* which lets the stream through unfiltered).                              *)
LevelIsRespected ==
  Levels[effect] # {} => ToSet(cache \o buffer) \subseteq Levels[effect]
===============================================================================
