-------------------------------- MODULE AppData --------------------------------
(***************************************************************************)
(* What the pages show of the core (src/src/providers/app-data-provider.   *)
(* tsx): proxies and rules, each cached and fetched again when an event    *)
(* of the backend says so, and the buttons that update the providers of    *)
(* either (src/src/components/proxy/provider-button.tsx and                *)
(* src/src/components/rule/provider-button.tsx).                           *)
(*                                                                         *)
(* A version counts the changes of each in the core.  Events that follow   *)
(* each other within 800 ms are dropped by some of the handlers.           *)
(***************************************************************************)
EXTENDS Naturals, Sequences, FiniteSets

CONSTANTS Profiles,
          Providers,   \* a sequence, the same for proxies and rules
          Pages,       \* the kinds whose buttons are used
          MaxChanges   \* bound on what changes in the core

VARIABLES core, cached,   \* versions of each kind
          fetch,          \* per kind: idle, asked, or the version read
          events,         \* events on their way
          lastProfile, recent,   \* lastProfileId; less than 800 ms since lastUpdateTime
          stale,          \* kinds whose last event was dropped, or fetch failed
          updating,       \* per kind, marks of the providers
          single, all     \* per kind, the running updates: one provider, the rest of all of them

vars == <<core, cached, fetch, events, lastProfile, recent, stale, updating, single, all>>
buttons == <<updating, single, all>>

Nil == "none"
Kinds == {"proxies", "rules"}
Names == {Providers[i] : i \in 1..Len(Providers)}
Idle == [stage |-> "idle", version |-> 0]
Asked == [stage |-> "asked", version |-> 0]
NoUpdate == [stage |-> "idle", name |-> Nil]
NotAll == [stage |-> "idle", left |-> <<>>]

Init ==
  /\ core = [k \in Kinds |-> 0] /\ cached = core /\ fetch = [k \in Kinds |-> Idle]
  /\ events = <<>> /\ lastProfile = Nil /\ recent = FALSE /\ stale = {}
  /\ updating = [k \in Kinds |-> {}] /\ single = [k \in Kinds |-> NoUpdate]
  /\ all = [k \in Kinds |-> NotAll]

Change(kinds) ==
  /\ core["proxies"] + core["rules"] < MaxChanges
  /\ core' = [k \in Kinds |-> IF k \in kinds THEN core[k] + 1 ELSE core[k]]

-------------------------------------------------------------------------------
(* The backend: another profile, or another node chosen in the tray.       *)
ProfileChanges(p) ==
  /\ Change(Kinds)
  /\ events' = events \o <<[name |-> "refresh-clash", profile |-> Nil], [name |-> "profile-changed", profile |-> p]>>
  /\ UNCHANGED <<cached, fetch, lastProfile, recent, stale, buttons>>

NodeChanges ==
  /\ Change({"proxies"})
  /\ events' = Append(events, [name |-> "refresh-proxy", profile |-> Nil])
  /\ UNCHANGED <<cached, fetch, lastProfile, recent, stale, buttons>>

-------------------------------------------------------------------------------
(* A fetch that runs is given up for a new one.                            *)
BugRefetch(k) ==
  /\ fetch' = IF fetch[k] = Idle THEN [fetch EXCEPT ![k] = Asked] ELSE fetch
  /\ stale' = stale \ {k}

refetch(k) == fetch' = [fetch EXCEPT ![k] = Asked] /\ stale' = stale \ {k}

Heard(name) == events # <<>> /\ Head(events).name = name /\ events' = Tail(events)

handleProfileChanged ==
  /\ Heard("profile-changed")
  /\ IF lastProfile = Head(events).profile /\ recent
     THEN stale' = stale \cup {"rules"} /\ UNCHANGED <<fetch, lastProfile, recent>>
     ELSE refetch("rules") /\ lastProfile' = Head(events).profile /\ recent' = TRUE
  /\ UNCHANGED <<core, cached, buttons>>

handleRefreshProxy ==
  /\ Heard("refresh-proxy")
  /\ IF recent THEN stale' = stale \cup {"proxies"} /\ UNCHANGED <<fetch, recent>>
     ELSE refetch("proxies") /\ recent' = TRUE
  /\ UNCHANGED <<core, cached, lastProfile, buttons>>

(* src/src/pages/_layout/hooks/use-layout-events.ts                        *)
refreshClash ==
  /\ Heard("refresh-clash") /\ refetch("proxies")
  /\ UNCHANGED <<core, cached, lastProfile, recent, buttons>>

Tick ==
  /\ recent /\ recent' = FALSE
  /\ UNCHANGED <<core, cached, fetch, events, lastProfile, stale, buttons>>

Read(k) ==
  /\ fetch[k].stage = "asked" /\ fetch' = [fetch EXCEPT ![k] = [stage |-> "read", version |-> core[k]]]
  /\ UNCHANGED <<core, cached, events, lastProfile, recent, stale, buttons>>
Fetched(k) ==
  /\ fetch[k].stage = "read" /\ cached' = [cached EXCEPT ![k] = fetch[k].version]
  /\ fetch' = [fetch EXCEPT ![k] = Idle]
  /\ UNCHANGED <<core, events, lastProfile, recent, stale, buttons>>

(* All tries failed: what is shown stays.                                  *)
FetchFails(k) ==
  /\ fetch[k].stage = "asked" /\ fetch' = [fetch EXCEPT ![k] = Idle] /\ stale' = stale \cup {k}
  /\ UNCHANGED <<core, cached, events, lastProfile, recent, buttons>>

-------------------------------------------------------------------------------
(* One provider; its button is disabled while it is marked.                *)
updateProvider(k, n) ==
  /\ k \in Pages /\ single[k] = NoUpdate /\ n \notin updating[k]
  /\ single' = [single EXCEPT ![k] = [stage |-> "update", name |-> n]]
  /\ updating' = [updating EXCEPT ![k] = @ \cup {n}]
  /\ UNCHANGED <<core, cached, fetch, events, lastProfile, recent, stale, all>>

Updated(k) ==
  /\ single[k].stage = "update" /\ Change({k}) /\ refetch(k)
  /\ single' = [single EXCEPT ![k].stage = "refresh"]
  /\ UNCHANGED <<cached, events, lastProfile, recent, updating, all>>

(* The refreshes are through, or the update failed.                        *)
UpdateEnds(k) ==
  /\ single[k] # NoUpdate /\ single' = [single EXCEPT ![k] = NoUpdate]
  /\ updating' = [updating EXCEPT ![k] = @ \ {single[k].name}]
  /\ UNCHANGED <<core, cached, fetch, events, lastProfile, recent, stale, all>>

(* All of them in turn, those that fail passed over, and one refresh.      *)
updateAllProviders(k) ==
  /\ k \in Pages /\ all[k] = NotAll /\ all' = [all EXCEPT ![k] = [stage |-> "update", left |-> Providers]]
  /\ updating' = [updating EXCEPT ![k] = Names]
  /\ UNCHANGED <<core, cached, fetch, events, lastProfile, recent, stale, single>>

NextOfAll(k, ok) ==
  /\ all[k].stage = "update" /\ all[k].left # <<>>
  /\ all' = [all EXCEPT ![k].left = Tail(@)]
  /\ IF ok THEN Change({k}) /\ updating' = [updating EXCEPT ![k] = @ \ {Head(all[k].left)}]
     ELSE UNCHANGED <<core, updating>>
  /\ UNCHANGED <<cached, fetch, events, lastProfile, recent, stale, single>>

AllUpdated(k) ==
  /\ all[k].stage = "update" /\ all[k].left = <<>>
  /\ all' = [all EXCEPT ![k].stage = "refresh"] /\ refetch(k)
  /\ UNCHANGED <<core, cached, events, lastProfile, recent, updating, single>>

BugAllEnds(k) ==
  /\ all[k].stage = "refresh" /\ all' = [all EXCEPT ![k] = NotAll]
  /\ UNCHANGED <<core, cached, fetch, events, lastProfile, recent, stale, updating, single>>

AllEnds(k) ==
  /\ all[k].stage = "refresh" /\ all' = [all EXCEPT ![k] = NotAll]
  /\ updating' = [updating EXCEPT ![k] = {}]
  /\ UNCHANGED <<core, cached, fetch, events, lastProfile, recent, stale, single>>

Next ==
  \/ \E p \in Profiles : ProfileChanges(p)
  \/ NodeChanges \/ handleProfileChanged \/ handleRefreshProxy \/ refreshClash \/ Tick
  \/ \E k \in Kinds :
       \/ Read(k) \/ Fetched(k) \/ FetchFails(k)
       \/ Updated(k) \/ UpdateEnds(k) \/ updateAllProviders(k) \/ AllUpdated(k) \/ AllEnds(k)
       \/ \E n \in Names : updateProvider(k, n)
       \/ \E ok \in BOOLEAN : NextOfAll(k, ok)

Spec == Init /\ [][Next]_vars

-------------------------------------------------------------------------------
(* Once every event is heard and nothing runs, what is shown is what the   *)
(* core has, unless the last event was dropped as too early or the last    *)
(* fetch failed: a change during a fetch is not lost.                      *)
DataFollows ==
  \A k \in Kinds :
    events = <<>> /\ fetch[k] = Idle /\ k \notin stale /\ all[k] = NotAll => cached[k] = core[k]

(* With no update under way no provider is marked as updating (and its     *)
(* button disabled), whichever updates of one and of all overlapped.       *)
MarksEnd == \A k \in Kinds : single[k] = NoUpdate /\ all[k] = NotAll => updating[k] = {}
===============================================================================
