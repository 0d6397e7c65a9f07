------------------------------- MODULE ExitWatch -------------------------------
(***************************************************************************)
(* The address traffic leaves by, and the watch on it: the query of that   *)
(* address from one service after another (src/src/services/api.ts,        *)
(* src/src/hooks/use-ip-info.ts), the card that repeats it                 *)
(* (src/src/components/home/ip-info-card.tsx), the comparison with the     *)
(* address the account was given, filtered against a passing change        *)
(* (src/src/hooks/use-nexthubx-exit-guard.ts), and the notification of a   *)
(* lasting difference (src/src/components/layout/exit-mismatch-guard.tsx). *)
(***************************************************************************)
EXTENDS Naturals, Sequences

CONSTANTS V4, V6,                 \* addresses of the two families
          STABLE_DURATION,        \* ticks after which an address counts
          MISMATCH_PROLONGED,     \* ticks after which a mismatch is reported
          IP_REFRESH,             \* ticks after which the card asks again
          Services,               \* number of services that tell the address
          MaxChanges              \* bound on changes from outside

VARIABLES exit,                   \* the address traffic really leaves by
          fetch,                  \* service that is asked, 0 when none is
          error, age,             \* of the query: it failed; ticks since it succeeded
          actual, expected,       \* "none", or an address
          connected, setup,       \* proxyConnected, setupInProgress
          promote, stable,        \* ticks left of the timer, stableActual
          alarm, prolonged,       \* ticks left of the second timer
          lastNotified,
          countdown, asking, mutating, \* the card: its state, a pending isVisible(), a pending mutate()
          recheck,                \* ipRecheckTimer
          held, settled, lasted, pairs, \* history: ticks of this address, addresses that were held
                                  \* long enough, ticks of this mismatch, notifications since a match
          changes

queryVars == <<exit, fetch, error, age, recheck>>
guardVars == <<actual, expected, connected, setup, promote, stable, alarm, prolonged, lastNotified>>
cardVars == <<countdown, asking, mutating>>
history == <<held, settled, lasted, pairs>>
vars == <<queryVars, guardVars, cardVars, history, changes>>

Ips == V4 \cup V6
Off == 99                         \* a timer that does not run

SameFamily(a, b) == (a \in V6) = (b \in V6)
Status(act, exp, conn, st) ==
  IF exp = "none" \/ act = "none" \/ ~conn \/ ~SameFamily(act, exp) THEN "null"
  ELSE IF act = exp THEN "match"
  ELSE IF st = act THEN "mismatch" ELSE "null"
Now == Status(actual, expected, connected, stable)
Counting == Now = "mismatch" /\ ~setup

Init ==
  /\ exit \in Ips /\ fetch = 1 /\ error = FALSE /\ age = 0 /\ recheck = FALSE
  /\ actual = "none" /\ expected \in V4 \cup {"none"} /\ connected \in BOOLEAN /\ setup \in BOOLEAN
  /\ promote = Off /\ stable = "none" /\ alarm = Off /\ prolonged = FALSE /\ lastNotified = <<>>
  /\ countdown = "countdown" /\ asking = FALSE /\ mutating = FALSE
  /\ held = 0 /\ settled = {} /\ lasted = 0 /\ pairs = <<>> /\ changes = 0

-------------------------------------------------------------------------------
(* A rendering with what has changed, and the effects after it: a new      *)
(* address starts the first timer, a mismatch that begins or ends starts   *)
(* or stops the second, and a lasting one is notified once.                *)
BugTracked(act) ==
  /\ promote' = IF promote = Off THEN STABLE_DURATION ELSE promote
  /\ held' = IF act = actual THEN held ELSE 0

Tracked(act) ==
  IF act = actual THEN UNCHANGED <<promote, held>>
  ELSE promote' = STABLE_DURATION /\ held' = 0

BugAlarmed(counting, long) ==
  /\ alarm' = IF counting /\ alarm = Off /\ ~long THEN MISMATCH_PROLONGED ELSE alarm
  /\ prolonged' = (counting /\ long)
  /\ lasted' = IF counting /\ Counting THEN lasted ELSE 0

BugRestarted(counting, long) ==
  /\ alarm' = IF counting /\ ~long THEN MISMATCH_PROLONGED ELSE Off
  /\ prolonged' = (counting /\ long)
  /\ lasted' = IF counting /\ Counting THEN lasted ELSE 0

Alarmed(counting, long) ==
  /\ alarm' = IF counting = Counting THEN IF long THEN Off ELSE alarm
              ELSE IF counting THEN MISMATCH_PROLONGED ELSE Off
  /\ prolonged' = (counting /\ long)
  /\ lasted' = IF counting /\ Counting THEN lasted ELSE 0

BugNotified(status, exp, act) ==
  /\ IF status = "match" THEN lastNotified' = <<>> /\ pairs' = <<>>
     ELSE IF status = "mismatch" /\ ~setup' /\ prolonged'
          THEN lastNotified' = <<exp, act>> /\ pairs' = Append(pairs, lastNotified')
          ELSE UNCHANGED <<lastNotified, pairs>>

Notified(status, exp, act) ==
  /\ IF status = "match" THEN lastNotified' = <<>> /\ pairs' = <<>>
     ELSE IF status = "mismatch" /\ ~setup' /\ prolonged' /\ lastNotified # <<exp, act>>
          THEN lastNotified' = <<exp, act>> /\ pairs' = Append(pairs, lastNotified')
          ELSE UNCHANGED <<lastNotified, pairs>>

Rendered(act, exp, conn, set, st, long) ==
  LET status == Status(act, exp, conn, st)
  IN  /\ actual' = act /\ expected' = exp /\ connected' = conn /\ setup' = set /\ stable' = st
      /\ Alarmed(status = "mismatch" /\ ~set, long)
      /\ Notified(status, exp, act)

-------------------------------------------------------------------------------
(* The query.  A service that does not answer, or answers nothing of use,  *)
(* leaves it to the next; the first is always the product's own.           *)
Answer ==
  /\ fetch # 0 /\ fetch' = 0 /\ error' = FALSE /\ age' = 0
  /\ Tracked(exit) /\ Rendered(exit, expected, connected, setup, stable, prolonged)
  /\ UNCHANGED <<exit, recheck, cardVars, settled, changes>>

ServiceFails ==
  /\ fetch # 0 /\ fetch' = IF fetch = Services THEN 0 ELSE fetch + 1
  /\ error' = (fetch = Services)
  /\ UNCHANGED <<exit, age, recheck, guardVars, cardVars, history, changes>>

(* A query that is asked again is begun anew.                              *)
Ask == fetch' = 1 /\ UNCHANGED <<exit, error, age>>

GuardPolls ==
  Ask /\ fetch = 0 /\ UNCHANGED <<recheck, guardVars, cardVars, history, changes>>

(* refetchIpInfoNow: a chain of operations is followed by one question.    *)
RecheckFires ==
  /\ recheck /\ recheck' = FALSE /\ Ask
  /\ UNCHANGED <<guardVars, cardVars, history, changes>>

-------------------------------------------------------------------------------
(* The card.                                                               *)
BugTick ==
  /\ age = IP_REFRESH /\ countdown = "countdown" /\ ~asking /\ asking' = TRUE
  /\ countdown' = "revalidating"
  /\ UNCHANGED <<queryVars, guardVars, mutating, history, changes>>

onCountdownTick ==
  /\ age = IP_REFRESH /\ countdown = "countdown" /\ ~asking /\ asking' = TRUE
  /\ UNCHANGED <<queryVars, guardVars, countdown, mutating, history, changes>>

IsVisible(v) ==
  /\ asking /\ asking' = FALSE
  /\ IF v THEN Ask /\ countdown' = "revalidating" /\ mutating' = TRUE
     ELSE UNCHANGED <<exit, fetch, error, age, countdown, mutating>>
  /\ UNCHANGED <<recheck, guardVars, history, changes>>

handleRefresh ==
  /\ changes < MaxChanges /\ changes' = changes + 1
  /\ Ask /\ countdown' = "revalidating" /\ mutating' = TRUE /\ UNCHANGED <<recheck, guardVars, asking, history>>

(* The question asked is answered, or another in its place.                *)
MutateEnds ==
  /\ mutating /\ fetch = 0 /\ mutating' = FALSE /\ countdown' = "countdown"
  /\ UNCHANGED <<queryVars, guardVars, asking, history, changes>>

-------------------------------------------------------------------------------
(* The timers, and what else changes.                                      *)
Promote ==
  /\ promote = 0 /\ promote' = Off
  /\ Rendered(actual, expected, connected, setup, actual, prolonged)
  /\ UNCHANGED <<queryVars, cardVars, held, settled, changes>>

Prolong ==
  /\ alarm = 0 /\ alarm' = Off /\ prolonged' = TRUE
  /\ UNCHANGED <<queryVars, actual, expected, connected, setup, promote, stable, cardVars,
                 held, settled, lasted, changes>>
  /\ Notified(Now, expected, actual)

Less(t) == IF t = Off THEN Off ELSE t - 1
Up(n, max) == IF n < max THEN n + 1 ELSE n

TimePasses ==
  /\ promote # 0 /\ alarm # 0
  /\ promote' = Less(promote) /\ alarm' = Less(alarm) /\ age' = Up(age, IP_REFRESH)
  /\ held' = Up(held, STABLE_DURATION)
  /\ settled' = IF held' = STABLE_DURATION THEN settled \cup {actual} ELSE settled
  /\ lasted' = IF Counting THEN Up(lasted, MISMATCH_PROLONGED) ELSE 0
  /\ UNCHANGED <<exit, fetch, error, recheck, actual, expected, connected, setup, stable, prolonged,
                 lastNotified, cardVars, pairs, changes>>

Change == changes < MaxChanges /\ changes' = changes + 1

ExitChanges(ip) ==
  Change /\ ip # exit /\ exit' = ip
         /\ UNCHANGED <<fetch, error, age, recheck, guardVars, cardVars, history>>

(* A switch of the proxy is followed by a question.                        *)
SwitchProxy ==
  /\ Change /\ recheck' = TRUE
  /\ Rendered(actual, expected, ~connected, setup, stable, prolonged)
  /\ UNCHANGED <<exit, fetch, error, age, promote, cardVars, held, settled>>

AccountChanges(exp, set) ==
  /\ Change /\ <<exp, set>> # <<expected, setup>>
  /\ Rendered(actual, exp, connected, set, stable, prolonged)
  /\ UNCHANGED <<queryVars, promote, cardVars, held, settled>>

Progress ==
  \/ Answer \/ ServiceFails \/ RecheckFires \/ onCountdownTick \/ (\E v \in BOOLEAN : IsVisible(v))
  \/ MutateEnds \/ Promote \/ Prolong

Next ==
  \/ Progress \/ GuardPolls \/ handleRefresh \/ TimePasses \/ SwitchProxy
  \/ \E ip \in Ips : ExitChanges(ip)
  \/ \E exp \in V4 \cup {"none"}, set \in BOOLEAN : AccountChanges(exp, set)

Spec == Init /\ [][Next]_vars /\ WF_vars(TimePasses) /\ WF_vars(Promote) /\ WF_vars(Prolong)

-------------------------------------------------------------------------------
(* A mismatch is told only of an address that has been there for a while.  *)
MismatchIsHeld == Now = "mismatch" => actual \in settled

(* A mismatch is prolonged only when it has lasted, without a match, an    *)
(* unknown address or a running setup in between.                          *)
ProlongedLasted == prolonged => Counting /\ lasted = MISMATCH_PROLONGED

(* The same difference is not notified twice in a row.                     *)
NotifiedOnce == \A i \in 2..Len(pairs) : pairs[i] # pairs[i - 1]

(* A mismatch that goes on is reported.                                    *)
IsProlonged == prolonged
MismatchIsNoticed == Counting ~> (IsProlonged \/ ~Counting)
===============================================================================
