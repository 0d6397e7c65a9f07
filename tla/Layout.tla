-------------------------------- MODULE Layout --------------------------------
(***************************************************************************)
(* What is around every page (src/src/pages/_layout.tsx): the menu, whose  *)
(* order is dragged, shown at once, stored by the backend and put back     *)
(* when it is refused (src/src/pages/_layout/hooks/use-nav-menu-order.ts); *)
(* the notices (src/src/services/notice-service.ts, shown by               *)
(* src/src/components/layout/notice-manager.tsx); and the listeners of the *)
(* backend's events, registered anew with every new translation            *)
(* (src/src/pages/_layout/hooks/use-layout-events.ts).  The three share no *)
(* state: a behaviour is of one of them.                                   *)
(***************************************************************************)
EXTENDS Naturals, Sequences, SequencesExt

CONSTANTS Default, Advanced,  \* defaultNavItems, advancedNavItems
          StoredOrders,       \* menu orders an earlier release may have stored
          Events,
          Extras,             \* what follows a message: sequences of kinds
          MaxSteps            \* bound on the drags, notices and registrations

VARIABLES which, steps,
          stored, verge,      \* menu_order: of the backend, and in the cached settings
          fetch,              \* the refetch of the settings: none, asked, or the order it read
          advanced, unlocked, \* advancedNav, menuUnlocked
          menuOrder,          \* the reducer's state
          persists,           \* running onPersist calls
          missed,             \* an order was refused, or not read, and none was read since
          notices,
          run, reg            \* runs of the effect, and its registrations

vars == <<which, steps, stored, verge, fetch, advanced, unlocked, menuOrder, persists,
          missed, notices, run, reg>>
menuVars == <<stored, verge, fetch, advanced, unlocked, menuOrder, persists, missed>>

Nothing == <<>>
Items(a) == IF a THEN Default \o Advanced ELSE Default

(* Each known path of the stored order once, then those it lacks.          *)
resolveMenuOrder(order, items) ==
  FoldLeft(LAMBDA seen, p : IF p \in ToSet(items) \ ToSet(seen) THEN Append(seen, p) ELSE seen,
           <<>>, order \o items)

Init ==
  /\ which \in {"menu", "notices", "events"} /\ steps = 0
  /\ stored \in IF which = "menu" THEN StoredOrders ELSE {<<>>}
  /\ verge = stored /\ fetch = Nothing
  /\ advanced = FALSE /\ unlocked = FALSE /\ menuOrder = resolveMenuOrder(verge, Items(advanced))
  /\ persists = {} /\ missed = FALSE
  /\ notices = <<>>
  /\ run = 1 /\ reg = [r \in 1..MaxSteps, e \in Events |-> IF r = 1 THEN "asked" ELSE "no"]

Step == steps < MaxSteps /\ steps' = steps + 1

-------------------------------------------------------------------------------
(* The menu.                                                               *)
Menu == which = "menu" /\ UNCHANGED <<which, notices, run, reg>>

toggleAdvancedNav ==
  /\ Menu /\ Step /\ advanced' = ~advanced
  /\ menuOrder' = resolveMenuOrder(verge, Items(advanced'))
  /\ UNCHANGED <<stored, verge, fetch, unlocked, persists, missed>>

handleUnlockMenu ==
  Menu /\ unlocked' = ~unlocked /\ steps' = steps
       /\ UNCHANGED <<stored, verge, fetch, advanced, menuOrder, persists, missed>>

Optimistic(order) ==
  /\ menuOrder' = order /\ verge' = order
  /\ persists' = persists \cup {[n |-> steps, order |-> order, previous |-> menuOrder]}
  /\ UNCHANGED <<stored, fetch, advanced, unlocked, missed>>

handleMenuDragEnd(i, j) ==
  /\ Menu /\ unlocked /\ i # j /\ {i, j} \subseteq 1..Len(menuOrder) /\ Step
  /\ Optimistic(InsertAt(RemoveAt(menuOrder, i), j, menuOrder[i]))

resetMenuOrder ==
  /\ Menu /\ menuOrder # Items(advanced) /\ Step
  /\ Optimistic(Items(advanced))

(* patchVerge: stored, and then read again; a later read takes its place.  *)
Persisted(p) ==
  /\ Menu /\ p \in persists
  /\ stored' = p.order /\ persists' = persists \ {p} /\ fetch' = <<"asked">>
  /\ UNCHANGED <<steps, verge, advanced, unlocked, menuOrder, missed>>

BugRefused(p) ==
  /\ Menu /\ p \in persists /\ persists' = persists \ {p} /\ missed' = TRUE
  /\ menuOrder' = p.previous
  /\ UNCHANGED <<steps, stored, verge, fetch, advanced, unlocked>>

(* The order from before that drag is put back, in the settings as well,   *)
(* and the effect on them sorts out what the menu no longer has.           *)
Refused(p) ==
  /\ Menu /\ p \in persists /\ persists' = persists \ {p} /\ missed' = TRUE
  /\ verge' = p.previous /\ menuOrder' = resolveMenuOrder(p.previous, Items(advanced))
  /\ UNCHANGED <<steps, stored, fetch, advanced, unlocked>>

Read ==
  /\ Menu /\ fetch = <<"asked">> /\ fetch' = <<"read", stored>>
  /\ UNCHANGED <<steps, stored, verge, advanced, unlocked, menuOrder, persists, missed>>

BugFetched ==
  /\ Menu /\ Len(fetch) = 2 /\ fetch' = Nothing
  /\ verge' = fetch[2] /\ menuOrder' = menuOrder
  /\ missed' = FALSE
  /\ UNCHANGED <<steps, stored, advanced, unlocked, persists>>

Fetched ==
  /\ Menu /\ Len(fetch) = 2 /\ fetch' = Nothing
  /\ verge' = fetch[2] /\ menuOrder' = resolveMenuOrder(verge', Items(advanced))
  /\ missed' = FALSE
  /\ UNCHANGED <<steps, stored, advanced, unlocked, persists>>

FetchFails ==
  /\ Menu /\ fetch # Nothing /\ fetch' = Nothing /\ missed' = TRUE
  /\ UNCHANGED <<steps, stored, verge, advanced, unlocked, menuOrder, persists>>

-------------------------------------------------------------------------------
(* The notices.  What follows a message is of a few kinds: "number", a     *)
(* plain "record", an "empty" text (which counts as not given) and an      *)
(* "error" or another value with a text.                                   *)
Messages == {"element", "descriptor", "key", "text", "error"}

BugParse(extras) ==
  FoldLeft(LAMBDA p, x :
             IF x = "number" THEN [p EXCEPT !.duration = x]
             ELSE IF x = "record" /\ p.params = "none" THEN [p EXCEPT !.params = x]
             ELSE IF p.raw \in {"none", "empty"} THEN [p EXCEPT !.raw = x] ELSE p,
           [params |-> "none", raw |-> "none", duration |-> "none"], extras)

parseNoticeExtras(extras) ==
  FoldLeft(LAMBDA p, x :
             IF x = "number" /\ p.duration = "none" THEN [p EXCEPT !.duration = x]
             ELSE IF x = "record" /\ p.params = "none" THEN [p EXCEPT !.params = x]
             ELSE IF p.raw \in {"none", "empty"} THEN [p EXCEPT !.raw = x] ELSE p,
           [params |-> "none", raw |-> "none", duration |-> "none"], extras)

shouldUseTranslationKey(message, params) == params # "none" \/ message = "key"

(* The key that is translated, and the texts put into it.                  *)
normalizeNoticeMessage(message, params, raw) ==
  IF message = "element" THEN [key |-> message, prefix |-> "none", message |-> "none"]
  ELSE IF message # "error" /\ raw # "none" THEN [key |-> "prefixedRaw", prefix |-> message, message |-> raw]
  ELSE IF message = "descriptor" \/ (message # "error" /\ shouldUseTranslationKey(message, params))
  THEN [key |-> message, prefix |-> "none", message |-> "none"]
  ELSE [key |-> "raw", prefix |-> "none", message |-> IF raw # "none" THEN raw ELSE message]

(* A number of 0 keeps the notice until it is closed.                      *)
showNotice(message, extras, lasting) ==
  /\ which = "notices" /\ Step
  /\ LET p == parseNoticeExtras(extras)
     IN  notices' = Append(notices,
           [id |-> steps, said |-> message, extras |-> extras,
            lasting |-> lasting /\ p.duration # "none",
            i18n |-> normalizeNoticeMessage(message, p.params, p.raw)])
  /\ UNCHANGED <<which, menuVars, run, reg>>

hideNotice(id) == notices' = SelectSeq(notices, LAMBDA n : n.id # id)

handleClose(i) ==
  /\ which = "notices" /\ i \in DOMAIN notices /\ hideNotice(notices[i].id)
  /\ UNCHANGED <<which, steps, menuVars, run, reg>>

BugTimerFires(i) ==
  /\ which = "notices" /\ i = Len(notices) /\ ~notices[i].lasting /\ hideNotice(notices[i].id)
  /\ UNCHANGED <<which, steps, menuVars, run, reg>>

TimerFires(i) ==
  /\ which = "notices" /\ i \in DOMAIN notices /\ ~notices[i].lasting /\ hideNotice(notices[i].id)
  /\ UNCHANGED <<which, steps, menuVars, run, reg>>

Shown(n) == {n.i18n.key, n.i18n.prefix, n.i18n.message} \ {"prefixedRaw", "raw", "none"}

(* A copy is confirmed by another notice, of a second.                     *)
resolveNoticeCopyText(n) ==
  IF n.i18n.key \in {"prefixedRaw", "raw"} /\ n.i18n.message # "empty" THEN {n.i18n.message} ELSE Shown(n)

handleNoticeCopy(i) ==
  /\ i \in DOMAIN notices /\ resolveNoticeCopyText(notices[i]) # {"element"}
  /\ showNotice("key", <<"number">>, FALSE)

(* What the backend has to say: its own text, a key, or a key and its text *)
(* as the detail.                                                          *)
handleNoticeMessage(msg) ==
  \/ msg # "empty" /\ showNotice("text", <<>>, FALSE)
  \/ showNotice("key", <<>>, FALSE)
  \/ showNotice("key", <<msg>>, FALSE)

-------------------------------------------------------------------------------
(* The listeners.  A registration is answered later: by then the effect    *)
(* may have been cleaned up.                                               *)
Listeners == which = "events" /\ UNCHANGED <<which, menuVars, notices>>

NewHandler ==
  /\ Listeners /\ run < MaxSteps /\ run' = run + 1 /\ UNCHANGED steps
  /\ reg' = [r \in 1..MaxSteps, e \in Events |->
               IF r = run' THEN "asked"
               ELSE IF r = run /\ reg[r, e] = "live" THEN "gone" ELSE reg[r, e]]

Registered(r, e) ==
  /\ Listeners /\ reg[r, e] = "asked"
  /\ \E answer \in {"registered", "failed"} : reg' = [reg EXCEPT ![<<r, e>>] = answer]
  /\ UNCHANGED <<run, steps>>

BugResolved(r, e) ==
  /\ Listeners /\ reg[r, e] = "registered"
  /\ reg' = [reg EXCEPT ![<<r, e>>] = "live"] /\ UNCHANGED <<run, steps>>

Resolved(r, e) ==
  /\ Listeners /\ reg[r, e] = "registered"
  /\ reg' = [reg EXCEPT ![<<r, e>>] = IF r = run THEN "live" ELSE "gone"] /\ UNCHANGED <<run, steps>>

-------------------------------------------------------------------------------
MenuNext ==
  \/ toggleAdvancedNav \/ handleUnlockMenu \/ resetMenuOrder
  \/ \E i, j \in 1..Len(menuOrder) : handleMenuDragEnd(i, j)
  \/ \E p \in persists : Persisted(p) \/ Refused(p)
  \/ Read \/ Fetched \/ FetchFails

Next ==
  \/ MenuNext
  \/ \E message \in Messages, extras \in Extras, lasting \in BOOLEAN :
       showNotice(message, extras, lasting)
  \/ \E i \in DOMAIN notices : handleClose(i) \/ TimerFires(i) \/ handleNoticeCopy(i)
  \/ \E msg \in {"empty", "error"} : handleNoticeMessage(msg)
  \/ NewHandler
  \/ \E r \in 1..MaxSteps, e \in Events : Registered(r, e) \/ Resolved(r, e)

Spec == Init /\ [][Next]_vars

-------------------------------------------------------------------------------
(* The menu shows every page it should once, in the order of the settings, *)
(* whatever order was stored, is put back or is read while the hidden      *)
(* pages come and go.                                                      *)
MenuComplete ==
  /\ menuOrder = resolveMenuOrder(verge, Items(advanced))
  /\ Len(menuOrder) = Len(Items(advanced)) /\ ToSet(menuOrder) = ToSet(Items(advanced))

(* With nothing under way and nothing refused, the order shown is stored.  *)
MenuIsStored == persists = {} /\ fetch = Nothing /\ ~missed => verge = stored

(* A notice tells its message and, after it, the detail it was given: the  *)
(* first value that is neither its record of parameters nor its number.    *)
NoticeTells ==
  \A i \in DOMAIN notices :
    LET n == notices[i]
        First(k) == CHOOSE x \in 1..4 : \/ x = 4 /\ k \notin ToSet(n.extras)
                                        \/ x \in DOMAIN n.extras /\ n.extras[x] = k /\ \A y \in 1..(x - 1) : n.extras[y] # k
        details == {n.extras[x] : x \in DOMAIN n.extras \ {First("record"), First("number")}}
    IN  /\ \A j \in DOMAIN notices : i < j => n.id < notices[j].id
        /\ n.said = "element" => Shown(n) = {"element"}
        /\ n.said # "element" /\ details = {} => Shown(n) = {n.said}
        /\ n.said \notin {"element", "error"} => n.said \in Shown(n)
        /\ n.said # "element" /\ details # {} => details \cap Shown(n) # {}

(* Once the registrations are answered there is one listener of an event,  *)
(* that of the last translation.                                           *)
OneListener ==
  \A e \in Events :
    (\A r \in 1..MaxSteps : reg[r, e] \notin {"asked", "registered"}) =>
      {r \in 1..MaxSteps : reg[r, e] = "live"} = {r \in {run} : reg[r, e] # "failed"}

(* A notice that is not kept leaves.                                       *)
Expires(id) == \E i \in DOMAIN notices : notices[i].id = id /\ TimerFires(i)
FairSpec == Spec /\ \A id \in 0..MaxSteps : WF_vars(Expires(id))
Leaving(id) == \E i \in DOMAIN notices : notices[i].id = id /\ ~notices[i].lasting
NoticesLeave == \A id \in 0..MaxSteps : Leaving(id) ~> ~Leaving(id)
===============================================================================
