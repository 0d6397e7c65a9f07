---------------------------- MODULE ProfileUpdates ----------------------------
(***************************************************************************)
(* Updating subscriptions from the page of profiles: "update all" and its  *)
(* workers (runProfileUpdates of src/src/pages/profiles.tsx), the update   *)
(* of one card, the updates the backend runs by its timer, and the card's  *)
(* display of the next update (src/src/components/profile/profile-item.tsx).*)
(*                                                                         *)
(* The marks of the profiles being updated are one set for all cards.  The *)
(* answer to the question for the next update is quicker than a new list   *)
(* of profiles or the second the card waits after the timer's event.       *)
(***************************************************************************)
EXTENDS Naturals, FiniteSets

CONSTANTS Profiles, Workers,
          MaxUpdates   \* bound on what the user and the timer begin

VARIABLES marks,      \* loadingCache
          all,        \* the run of "update all": on, waiting, its targets
          updating,   \* requests in the backend: profile, who asked
          done,       \* targets of the run whose update is over
          sched,      \* the backend: per profile, the number of its schedule
          patched,    \* profiles whose new interval the timer has not taken yet
          events,     \* events and lists not delivered yet
          display,    \* card of the watched profile: on, shown, timer, fetch
          updates

vars == <<marks, all, updating, done, sched, patched, events, display, updates>>

Nil == "none"
NoRun == [on |-> FALSE, waiting |-> {}, target |-> {}]
NoFetch == 0
Watched == CHOOSE p \in Profiles : TRUE

Init ==
  /\ marks = {} /\ all = NoRun /\ updating = {} /\ done = {}
  /\ sched = [p \in Profiles |-> 1] /\ patched = {} /\ events = {}
  /\ display = [on |-> FALSE, shown |-> 0, timer |-> FALSE, fetch |-> NoFetch]
  /\ updates = 0

Begin == updates < MaxUpdates /\ updates' = updates + 1

-------------------------------------------------------------------------------
(* Update all: the remote profiles that are not marked are marked; up to   *)
(* Workers of them are asked for at a time.  A mark removed on the way by  *)
(* a card that ended its own update stays removed.                         *)
Busy(who) == {u \in updating : u.by = who}

onUpdateAll ==
  /\ ~all.on /\ Begin
  /\ LET target == Profiles \ marks
     IN  all' = [on |-> TRUE, waiting |-> target, target |-> target] /\ marks' = marks \cup target
  /\ done' = {}
  /\ UNCHANGED <<updating, sched, patched, events, display>>

BugWorker(p) ==
  /\ p \in all.waiting /\ Cardinality(Busy("all")) < Workers
  /\ updating' = updating \cup {[p |-> p, by |-> "all", read |-> FALSE]}
  /\ UNCHANGED <<marks, all, done, sched, patched, events, display, updates>>

worker(p) ==
  /\ p \in all.waiting /\ Cardinality(Busy("all")) < Workers
  /\ all' = [all EXCEPT !.waiting = @ \ {p}]
  /\ updating' = updating \cup {[p |-> p, by |-> "all", read |-> FALSE]}
  /\ UNCHANGED <<marks, done, sched, patched, events, display, updates>>

BugRunEnds ==
  /\ all.on /\ all.waiting = {} /\ Busy("all") = {}
  /\ all' = NoRun
  /\ marks' = IF done = {} THEN marks \ all.target ELSE marks \ done
  /\ UNCHANGED <<updating, done, sched, patched, events, display, updates>>

RunEnds ==
  /\ all.on /\ all.waiting = {} /\ Busy("all") = {}
  /\ all' = NoRun
  /\ marks' = marks \ all.target
  /\ UNCHANGED <<updating, done, sched, patched, events, display, updates>>

(* A card's own update: by its button only while it is not marked, by its  *)
(* menu at any time, one at a time per card.                               *)
onUpdate(p, menu) ==
  /\ p \notin {u.p : u \in Busy("card")} /\ (menu \/ p \notin marks) /\ Begin
  /\ marks' = marks \cup {p}
  /\ updating' = updating \cup {[p |-> p, by |-> "card", read |-> FALSE]}
  /\ UNCHANGED <<all, done, sched, patched, events, display>>

(* The backend's timer begins one and says so.                             *)
TimerUpdate(p) ==
  /\ p \notin {u.p : u \in Busy("timer")} /\ Begin
  /\ updating' = updating \cup {[p |-> p, by |-> "timer", read |-> FALSE]}
  /\ events' = events \cup {[kind |-> "started", p |-> p]}
  /\ UNCHANGED <<marks, all, done, sched, patched, display>>

(* An update ends well, which sets the schedule anew, or badly.            *)
UpdateEnds(u, ok) ==
  /\ u \in updating /\ updating' = updating \ {u}
  /\ (u.by = "timer" => [kind |-> "started", p |-> u.p] \notin events)
  /\ sched' = IF ok THEN [sched EXCEPT ![u.p] = @ + 1] ELSE sched
  /\ events' = events \cup (IF u.by = "timer" THEN {[kind |-> "completed", p |-> u.p]} ELSE {})
                      \cup (IF ok THEN {[kind |-> "list", p |-> u.p]} ELSE {})
  /\ marks' = IF u.by = "card" THEN marks \ {u.p} ELSE marks
  /\ done' = IF u.by = "all" /\ ok THEN done \cup {u.p} ELSE done
  /\ UNCHANGED <<all, patched, display, updates>>

(* A new interval: the list changes at once, the timer takes it up later   *)
(* and says so.                                                            *)
patchProfile(p) ==
  /\ p \notin patched /\ Begin
  /\ patched' = patched \cup {p}
  /\ events' = events \cup {[kind |-> "list", p |-> p]}
  /\ UNCHANGED <<marks, all, updating, done, sched, display>>

TimerRefresh(p) ==
  /\ p \in patched /\ patched' = patched \ {p}
  /\ sched' = [sched EXCEPT ![p] = @ + 1]
  /\ events' = events \cup {[kind |-> "timer", p |-> p]}
  /\ UNCHANGED <<marks, all, updating, done, display, updates>>

-------------------------------------------------------------------------------
(* fetchNextUpdateTime, one at a time: a call during another is dropped.   *)
Fetch(d) == IF d.fetch = NoFetch THEN [d EXCEPT !.fetch = sched[Watched]] ELSE d

fetchNextUpdateTime ==
  /\ display.fetch # NoFetch
  /\ display' = [display EXCEPT !.shown = display.fetch, !.fetch = NoFetch]
  /\ UNCHANGED <<marks, all, updating, done, sched, patched, events, updates>>

toggleUpdateTimeDisplay ==
  /\ Begin
  /\ display' = IF display.on THEN [display EXCEPT !.on = FALSE] ELSE Fetch([display EXCEPT !.on = TRUE])
  /\ UNCHANGED <<marks, all, updating, done, sched, patched, events>>

(* The card hears of the backend's events; a new list makes it ask.        *)
HeardBy(e, d) ==
  IF e.p # Watched \/ ~d.on THEN d
  ELSE CASE e.kind = "timer" -> [d EXCEPT !.timer = TRUE]
         [] e.kind \in {"completed", "list"} -> Fetch(d)
         [] OTHER -> d

Marked(e) ==
  CASE e.kind = "started" -> marks \cup {e.p}
    [] e.kind = "completed" -> marks \ {e.p}
    [] OTHER -> marks

BugHear(e) ==
  /\ e \in events /\ events' = events \ {e} /\ display.fetch = NoFetch
  /\ marks' = Marked(e)
  /\ display' = IF e.kind = "timer" THEN display ELSE HeardBy(e, display)
  /\ UNCHANGED <<all, updating, done, sched, patched, updates>>

Hear(e) ==
  /\ e \in events /\ events' = events \ {e} /\ display.fetch = NoFetch
  /\ marks' = Marked(e)
  /\ display' = HeardBy(e, display)
  /\ UNCHANGED <<all, updating, done, sched, patched, updates>>

(* A second after the last of them.                                        *)
RefreshTimer ==
  /\ display.timer /\ display.fetch = NoFetch
  /\ display' = Fetch([display EXCEPT !.timer = FALSE])
  /\ UNCHANGED <<marks, all, updating, done, sched, patched, events, updates>>

Progress ==
  \/ \E p \in Profiles : worker(p) \/ TimerRefresh(p)
  \/ \E u \in updating, ok \in BOOLEAN : UpdateEnds(u, ok)
  \/ \E e \in events : Hear(e)
  \/ RunEnds \/ RefreshTimer \/ fetchNextUpdateTime

Next ==
  \/ Progress \/ onUpdateAll \/ toggleUpdateTimeDisplay
  \/ \E p \in Profiles : TimerUpdate(p) \/ patchProfile(p) \/ (\E menu \in BOOLEAN : onUpdate(p, menu))

Spec == Init /\ [][Next]_vars /\ WF_vars(Progress)

-------------------------------------------------------------------------------
Quiet == updating = {} /\ ~all.on /\ events = {} /\ patched = {}

(* No profile stays marked once nothing is being updated, however the      *)
(* updates of cards, of the timer and of "update all" overlap.             *)
MarksEnd == Quiet => marks = {}

(* A card that shows the next update shows that of the last schedule once  *)
(* it has nothing more to ask.                                             *)
NextIsShown == Quiet /\ display.on /\ ~display.timer /\ display.fetch = NoFetch
                 => display.shown = sched[Watched]

(* "Update all" asks for each of its profiles and is over some time.       *)
RunIsOn == all.on
RunIsOver == RunIsOn ~> ~RunIsOn
===============================================================================
