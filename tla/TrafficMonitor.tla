---------------------------- MODULE TrafficMonitor ----------------------------
(***************************************************************************)
(* The traffic history behind the graphs: the hook that counts its users   *)
(* (src/src/hooks/use-traffic-monitor.ts), the worker it starts for the    *)
(* first and stops after the last (services/traffic-monitor-worker.ts, or  *)
(* the same class inline) and its sampler (utils/traffic-sampler.ts),      *)
(* which keeps every point of the last minutes and an average of each      *)
(* compressionRatio points for longer.                                     *)
(*                                                                         *)
(* A point is its time.  The handler of the traffic socket was made when   *)
(* its component was mounted and keeps the `enabled` of that rendering, so *)
(* it appends also after the window was hidden (use-traffic-data.ts).      *)
(***************************************************************************)
EXTENDS Naturals, Sequences, SequencesExt, FiniteSetsExt

CONSTANTS Hooks,            \* components that use the hook
          RAW, COMPRESSED,  \* rawDataMinutes, compressedDataMinutes, in ticks
          RATIO,            \* compressionRatio
          COMPACT,          \* the head is cut off beyond this index (512 and 256)
          MaxTime, MaxAdded \* bounds of the clock and of the points added

VARIABLES now,
          holders,    \* the hooks whose effect counts in refCounter
          client,     \* the worker client: ready, and the range it will start with
          range,      \* the range the running worker works with
          raw, rawHead, compressed, compressedHead, queue,  \* the sampler
          throttle,   \* throttleTimer of the worker
          snapshot,   \* the points the graph was sent last
          added       \* every point since the sampler was made or cleared

vars == <<now, holders, client, range, raw, rawHead, compressed, compressedHead, queue,
          throttle, snapshot, added>>

sampler == <<raw, rawHead, compressed, compressedHead, queue>>

Ranges == {RAW, COMPRESSED}

Monus(a, b) == IF a > b THEN a - b ELSE 0

From(n, s) == SubSeq(s, n + 1, Len(s))

(* The head after the points that are too old: those before the first one  *)
(* that is not.                                                            *)
Advance(head, s, old) ==
  LET young == {i \in (head + 1)..Len(s) : s[i] \notin old}
  IN  IF young = {} THEN Len(s) ELSE Min(young) - 1

-------------------------------------------------------------------------------
(* A compressed point is the sum of its times: its average is below a      *)
(* cutoff when the sum is below RATIO times the cutoff.                    *)
Sum(s) == FoldSeq(LAMBDA x, y : x + y, 0, s)

(* Times, and sums of them, that are m old.                                *)
Aged(m) == {t \in 0..now : t + m <= now}
AgedSums(m) == {t \in 0..(RATIO * now) : t + RATIO * m <= RATIO * now}

Trimmed(s, head, old) ==
  LET h == Advance(head, s, old)
  IN  IF h > COMPACT /\ 2 * h > Len(s) THEN <<From(h, s), 0>> ELSE <<s, h>>

BugAddDataPoint ==
  LET r == Trimmed(Append(raw, now), rawHead, {t \in 0..now : t < Monus(now, RAW)})
  IN  /\ raw' = r[1] /\ rawHead' = r[2]
      /\ queue' = Append(queue, now)
      /\ UNCHANGED <<compressed, compressedHead>>

addDataPoint ==
  LET r == Trimmed(Append(raw, now), rawHead, Aged(RAW))
      q == Append(queue, now)
      full == Len(q) >= RATIO
      c == Trimmed(IF full THEN Append(compressed, Sum(q)) ELSE compressed, compressedHead,
                   AgedSums(COMPRESSED))
  IN  /\ raw' = r[1] /\ rawHead' = r[2]
      /\ queue' = IF full THEN <<>> ELSE q
      /\ compressed' = c[1] /\ compressedHead' = c[2]

clear ==
  /\ raw' = <<>> /\ rawHead' = 0 /\ compressed' = <<>> /\ compressedHead' = 0 /\ queue' = <<>>
  /\ added' = <<>>

(* Whole points of a range as the graph gets them: those that are young    *)
(* enough, and before them, for a long range, the averages older than the  *)
(* raw data.                                                               *)
getDataForTimeRange(m, r, rh, c, ch) ==
  LET young == From(Advance(rh, r, Aged(m)), r)
      older == From(Advance(ch, c, AgedSums(m)), c)
  IN  IF m <= RAW THEN <<<<>>, young>>
      ELSE <<SelectSeq(older, LAMBDA t : t \in AgedSums(RAW)), young>>

(* broadcastSnapshot sends everything it has (availableDataPoints).        *)
broadcastSnapshot ==
  snapshot' = getDataForTimeRange(COMPRESSED, raw', rawHead', compressed', compressedHead')

-------------------------------------------------------------------------------
Init ==
  /\ now = 0 /\ holders = {}
  /\ client = [ready |-> FALSE, range |-> RAW] /\ range = RAW
  /\ raw = <<>> /\ rawHead = 0 /\ compressed = <<>> /\ compressedHead = 0 /\ queue = <<>>
  /\ throttle = FALSE /\ snapshot = <<<<>>, <<>>>> /\ added = <<>>

(* client.start: a worker that runs stays as it is; init makes a sampler.  *)
start(minutes) ==
  /\ client' = [ready |-> TRUE, range |-> minutes]
  /\ IF client.ready THEN UNCHANGED sampler /\ UNCHANGED <<range, throttle, added, snapshot>>
     ELSE clear /\ range' = minutes /\ throttle' = FALSE /\ broadcastSnapshot

(* The effect of a hook that is enabled (the window shows).                *)
Enable(h) ==
  /\ h \notin holders
  /\ holders' = holders \cup {h}
  /\ \E minutes \in Ranges : start(minutes)
  /\ UNCHANGED now

(* Its cleanup: the last one stops the worker, whose points are gone.      *)
Disable(h) ==
  /\ h \in holders
  /\ holders' = holders \ {h}
  /\ IF holders' = {}
     THEN client' = [client EXCEPT !.ready = FALSE] /\ clear /\ throttle' = FALSE
     ELSE UNCHANGED <<client, throttle, added>> /\ UNCHANGED sampler
  /\ UNCHANGED <<now, range, snapshot>>

(* appendData, with ensureStarted first.                                   *)
appendData ==
  /\ Len(added) < MaxAdded
  /\ IF client.ready
     THEN /\ addDataPoint
          /\ added' = Append(added, now)
          /\ UNCHANGED <<client, range>>
     ELSE /\ client' = [client EXCEPT !.ready = TRUE] /\ range' = client.range
          /\ raw' = <<now>> /\ rawHead' = 0 /\ queue' = <<now>> /\ added' = <<now>>
          /\ compressed' = <<>> /\ compressedHead' = 0
  /\ throttle' = TRUE
  /\ UNCHANGED <<now, holders, snapshot>>

scheduleSnapshot ==
  /\ throttle /\ throttle' = FALSE
  /\ UNCHANGED <<now, holders, client, range, added>> /\ UNCHANGED sampler
  /\ broadcastSnapshot

clearData ==
  /\ holders # {} /\ client.ready
  /\ clear /\ broadcastSnapshot
  /\ UNCHANGED <<now, holders, client, range, throttle>>

setRange(minutes) ==
  /\ holders # {}
  /\ client' = [client EXCEPT !.range = minutes]
  /\ range' = IF client.ready THEN minutes ELSE range
  /\ UNCHANGED sampler
  /\ IF client.ready /\ range # minutes THEN broadcastSnapshot ELSE UNCHANGED snapshot
  /\ UNCHANGED <<now, holders, throttle, added>>

Tick ==
  /\ now < MaxTime /\ now' = now + 1
  /\ UNCHANGED <<holders, client, range, throttle, snapshot, added>> /\ UNCHANGED sampler

Next ==
  \/ Tick \/ appendData \/ scheduleSnapshot \/ clearData
  \/ \E h \in Hooks : Enable(h) \/ Disable(h)
  \/ \E m \in Ranges : setRange(m)

Spec == Init /\ [][Next]_vars

-------------------------------------------------------------------------------
(* The sampler forgets nothing too early and keeps nothing too long: the   *)
(* raw part is exactly the points of the last RAW ticks when the last one  *)
(* was added, and each whole group of RATIO points was averaged once.      *)
SamplerKeepsTheWindow ==
  LET last == added[Len(added)]
      sums == [g \in 1..(Len(added) \div RATIO) |-> Sum(SubSeq(added, (g - 1) * RATIO + 1, g * RATIO))]
  IN  added # <<>> =>
        /\ From(rawHead, raw) = SelectSeq(added, LAMBDA t : t + RAW > last)
        /\ From(compressedHead, compressed)
             = SelectSeq(sums, LAMBDA t : t + RATIO * COMPRESSED > RATIO * last)
        /\ queue = From((Len(added) \div RATIO) * RATIO, added)
===============================================================================
