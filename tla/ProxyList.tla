------------------------------- MODULE ProxyList -------------------------------
(***************************************************************************)
(* The list of the proxies page: what the user set in the heads of its     *)
(* groups, kept per profile (src/src/components/proxy/use-head-state.ts),  *)
(* the filtered and sorted rows (use-filter-sort.ts) and the list put      *)
(* together from a cache of rows per group (use-render-list.ts).           *)
(*                                                                         *)
(* React is modelled as far as it matters: an effect's dispatch is rendered *)
(* after other tasks may have run, the 0 ms timer of an effect among them. *)
(* The object a cached entry compares with by reference is its `same`.     *)
(***************************************************************************)
EXTENDS Naturals, Sequences, SequencesExt, FiniteSetsExt

CONSTANTS Profiles,
          Nodes,       \* sequence: the nodes of a group as the core lists them
          Datas,       \* what the core may answer: [groups: sequence of names, hidden: set of them]
          Delays,      \* what the delay manager may know of a node
          Cols,        \* numbers of columns
          Patches,     \* what the user may set in a head, see Patch
          MaxChanges   \* bound on what happens

VARIABLES profile,   \* profiles.current
          head,      \* group -> HeadState, of the groups that have one
          pending,   \* the payload of a "replace" that was not rendered yet
          timer,     \* the 0 ms timer: the profile and state it will store
          saved,     \* localStorage: profile -> head
          mine,      \* profile -> the heads the user, or the end of a check, has set
          lost,      \* the profile or the page was left before a state was stored
          mounted,
          mode, chain, data, col,
          delay,     \* delayManager: node -> delay
          check,     \* handleCheckAll: the group and its sortType at the click
          cache,     \* groupCacheRef
          prev,      \* prevListRef
          list,      \* renderList
          switched,  \* the mode has changed and no rows were made since
          changes

heads == <<profile, head, pending, timer, saved, mine, lost, mounted>>
rows == <<mode, chain, data, col, delay, check, cache, prev, list, switched>>
vars == <<heads, rows, changes>>

Nil == "none"
NoTimer == [p |-> Nil, head |-> <<>>]
NoCheck == [g |-> Nil, sort |-> 0]
DEFAULT_STATE == [open |-> FALSE, sort |-> 0, filter |-> ""]
HeadOf(h, g) == IF g \in DOMAIN h THEN h[g] ELSE DEFAULT_STATE
Names == (UNION {ToSet(d.groups) : d \in Datas}) \cup {"GLOBAL"}
NoEntry == [there |-> FALSE, same |-> FALSE, col |-> 0, rows |-> <<>>]

Bump == changes < MaxChanges /\ changes' = changes + 1

-------------------------------------------------------------------------------
(* categorizeDelay: measured, timed out (0 too), failed, never measured.   *)
categorizeDelay(d) == CASE d = "fast" -> 0 [] d = "slow" -> 1 [] d = "timeout" -> 3 [] d = "error" -> 4 [] d = "never" -> 5

(* The filter "delay<n" passes what was measured, up to n.                 *)
filterProxies(s, f) == IF f = "" THEN s ELSE SelectSeq(s, LAMBDA n : delay[n] \in {"fast", "timeout"})

(* A stable sort: by delay (1), else by name (2), which is the core's order. *)
sortProxies(s, t) ==
  IF t # 1 THEN s
  ELSE LET before(i, j) == \/ categorizeDelay(delay[s[i]]) < categorizeDelay(delay[s[j]])
                           \/ categorizeDelay(delay[s[i]]) = categorizeDelay(delay[s[j]]) /\ i < j
           order == SetToSortSeq(DOMAIN s, before)
       IN  [i \in DOMAIN s |-> s[order[i]]]

groupProxies(s, c) ==
  [i \in 1..((Len(s) + c - 1) \div c) |-> SubSeq(s, (i - 1) * c + 1, IF i * c < Len(s) THEN i * c ELSE Len(s))]

Row(t, g, ns) == [type |-> t, group |-> g, nodes |-> ns]

(* The rows of a group; useRule is FALSE in global mode, which shows       *)
(* GLOBAL whether it is open or not.                                       *)
GroupRows(g, useRule, h, c) ==
  LET shown == groupProxies(sortProxies(filterProxies(Nodes, h.filter), h.sort), c)
  IN  <<Row("group", g, <<>>)>> \o
      IF ~h.open /\ useRule THEN <<>>
      ELSE <<Row("head", g, <<>>)>> \o
           IF shown = <<>> THEN <<Row("empty", g, <<>>)>>
           ELSE [i \in DOMAIN shown |-> Row("nodes", g, shown[i])]

renderGroups(m, d) == IF m = "rule" /\ d.groups # <<>> THEN d.groups ELSE <<"GLOBAL">>

(* Global mode has no row for the group, rule mode none of hidden groups.  *)
Visible(m, d, l) == IF m = "global" THEN Tail(l) ELSE SelectSeq(l, LAMBDA r : r.group \notin d.hidden)

(* In chain mode the nodes of the first group, neither cached nor sorted.  *)
ChainRows(m, d, c) ==
  LET g == IF m = "rule" THEN renderGroups(m, d)[1] ELSE "All Proxies"
      shown == groupProxies(Nodes, c)
  IN  [i \in DOMAIN shown |-> Row("nodes", g, shown[i])]

BugHit(g, c, stale) == cache[g].there /\ cache[g].same /\ cache[g].col = c

(* A cached entry is good for the objects it was made from; `stale` are    *)
(* the groups whose headState, nodes or chosen node are others.            *)
Hit(g, c, stale) == cache[g].there /\ cache[g].same /\ g \notin stale /\ cache[g].col = c

(* The memo of renderList: rows of the groups whose entry is no longer     *)
(* good are made anew; when all are good and as many rows as before are    *)
(* visible, the previous list is returned.                                 *)
Render(m, ch, d, h, c, stale) ==
  LET groups == renderGroups(m, d)
      rowsOf(g) == IF Hit(g, c, stale) THEN cache[g].rows ELSE GroupRows(g, m = "rule", HeadOf(h, g), c)
      filtered == Visible(m, d, FlattenSeq([i \in DOMAIN groups |-> rowsOf(groups[i])]))
      anyChanged == \E g \in ToSet(groups) : ~Hit(g, c, stale)
  IN  /\ cache' = [g \in Names |->
                     IF ~ch /\ g \in ToSet(groups) THEN [there |-> TRUE, same |-> TRUE, col |-> c, rows |-> rowsOf(g)]
                     ELSE [cache[g] EXCEPT !.same = @ /\ g \notin stale]]
      /\ prev' = IF ch \/ (~anyChanged /\ Len(prev) = Len(filtered)) THEN prev ELSE filtered
      /\ list' = IF ch THEN ChainRows(m, d, c) ELSE prev'
      /\ switched' = IF ~ch /\ anyChanged THEN FALSE ELSE switched \/ m # mode

RenderHead(h, stale) == Render(mode, chain, data, h, col, stale)

Init ==
  /\ profile \in Profiles
  /\ head = <<>> /\ pending = <<>> /\ timer = NoTimer
  /\ saved = [p \in Profiles |-> <<>>] /\ mine = saved /\ lost = FALSE /\ mounted = FALSE
  /\ mode = "rule" /\ chain = FALSE /\ data \in Datas /\ col \in Cols
  /\ delay = [n \in ToSet(Nodes) |-> "never"]
  /\ check = NoCheck
  /\ cache = [g \in Names |-> NoEntry] /\ prev = <<>> /\ list = <<>> /\ switched = TRUE
  /\ changes = 0

-------------------------------------------------------------------------------
(* The effects on a change of the profile: the stored heads are read and   *)
(* a replace is dispatched, and the state of this rendering, which is      *)
(* still that of the old profile, gets a timer for the new one.            *)
Effects(p, h) ==
  /\ pending' = [head |-> saved[p]]
  /\ timer' = [p |-> p, head |-> h]

ProfileChanges(p) ==
  /\ mounted /\ p # profile /\ Bump
  /\ profile' = p
  /\ head' = IF pending = <<>> THEN head ELSE pending.head
  /\ Effects(p, head')
  /\ lost' = (lost \/ timer # NoTimer \/ pending # <<>>)
  /\ IF pending = <<>> THEN UNCHANGED <<cache, prev, list, switched>>
     ELSE RenderHead(head', DOMAIN head \cup DOMAIN head')
  /\ UNCHANGED <<saved, mine, mounted, mode, chain, data, col, delay, check>>

BugReplace ==
  /\ mounted /\ pending # <<>>
  /\ head' = saved[profile] /\ pending' = <<>> /\ timer' = [p |-> profile, head |-> head']
  /\ RenderHead(head', DOMAIN head \cup DOMAIN head')
  /\ UNCHANGED <<profile, saved, mine, lost, mounted, mode, chain, data, col, delay, check, changes>>

(* The replace is rendered with what the effect has read; every head is a  *)
(* new object, and the state gets a timer of its own.                      *)
Replace ==
  /\ mounted /\ pending # <<>>
  /\ head' = pending.head /\ pending' = <<>> /\ timer' = [p |-> profile, head |-> head']
  /\ RenderHead(head', DOMAIN head \cup DOMAIN head')
  /\ UNCHANGED <<profile, saved, mine, lost, mounted, mode, chain, data, col, delay, check, changes>>

TimerFires ==
  /\ timer # NoTimer
  /\ saved' = [saved EXCEPT ![timer.p] = timer.head]
  /\ timer' = NoTimer
  /\ UNCHANGED <<profile, head, pending, mine, lost, mounted, rows, changes>>

Patch(h, f, v) == [h EXCEPT ![f] = v]

Update(g, h) ==
  /\ head' = [x \in DOMAIN head \cup {g} |-> IF x = g THEN h ELSE head[x]]
  /\ timer' = [p |-> profile, head |-> head']
  /\ RenderHead(head', {g})

(* onHeadState from the head of a group that is shown.                     *)
setHeadState(g, f, v) ==
  /\ mounted /\ pending = <<>> /\ ~chain /\ g \in {r.group : r \in ToSet(list)} /\ Bump
  /\ Update(g, Patch(HeadOf(head, g), f, v))
  /\ mine' = [mine EXCEPT ![profile] = head']
  /\ UNCHANGED <<profile, pending, saved, lost, mounted, mode, chain, data, col, delay, check>>

(* The page is left; the timer is cleared.  Back on it the state is empty  *)
(* until the stored heads are rendered, and the cache is gone.             *)
Unmount ==
  /\ mounted /\ Bump
  /\ mounted' = FALSE /\ timer' = NoTimer /\ pending' = <<>> /\ head' = <<>>
  /\ lost' = (lost \/ timer # NoTimer \/ pending # <<>>)
  /\ cache' = [g \in Names |-> NoEntry] /\ prev' = <<>> /\ list' = <<>> /\ switched' = TRUE
  /\ UNCHANGED <<profile, saved, mine, mode, chain, data, col, delay, check>>

Mount ==
  /\ ~mounted /\ mounted' = TRUE
  /\ head' = <<>> /\ Effects(profile, <<>>)
  /\ Render(mode, chain, data, <<>>, col, {})
  /\ UNCHANGED <<profile, saved, mine, lost, mode, chain, data, col, delay, check, changes>>

-------------------------------------------------------------------------------
(* The mode, chain mode, the proxies or the number of columns change; a    *)
(* group has other nodes or another node then, and its rows are made anew. *)
InputsChange(m, ch, d, c) ==
  /\ mounted /\ <<m, ch, d, c>> # <<mode, chain, data, col>> /\ Bump
  /\ mode' = m /\ chain' = ch /\ data' = d /\ col' = c
  /\ Render(m, ch, d, head, c, IF d = data THEN {} ELSE Names)
  /\ UNCHANGED <<delay, check>> /\ UNCHANGED heads

(* A test has an answer; the list is not rendered for it.                  *)
DelayArrives(n, d) ==
  /\ check # NoCheck /\ d # delay[n] /\ delay' = [delay EXCEPT ![n] = d]
  /\ Bump
  /\ UNCHANGED <<mode, chain, data, col, check, cache, prev, list, switched>> /\ UNCHANGED heads

handleCheckAll(g) ==
  /\ mounted /\ check = NoCheck /\ Row("head", g, <<>>) \in ToSet(list)
  /\ check' = [g |-> g, sort |-> HeadOf(head, g).sort]
  /\ UNCHANGED <<mode, chain, data, col, delay, cache, prev, list, switched, changes>> /\ UNCHANGED heads


(* The list test or the core's group test has ended: sorted by delay at    *)
(* the click, the group gets that again, which makes its rows anew.        *)
CheckAllEnds ==
  /\ check # NoCheck /\ check' = NoCheck
  /\ IF check.sort = 1 /\ mounted /\ pending = <<>>
     THEN Update(check.g, Patch(HeadOf(head, check.g), "sort", 1)) /\ mine' = [mine EXCEPT ![profile] = head']
     ELSE UNCHANGED <<head, timer, cache, prev, list, switched, mine>>
  /\ UNCHANGED <<profile, pending, saved, lost, mounted, mode, chain, data, col, delay, changes>>

Next ==
  \/ \E p \in Profiles : ProfileChanges(p)
  \/ Replace \/ TimerFires \/ Unmount \/ Mount
  \/ \E g \in Names, x \in Patches : setHeadState(g, x[1], x[2])
  \/ \E m \in {"rule", "global"}, ch \in BOOLEAN, d \in Datas, c \in Cols : InputsChange(m, ch, d, c)
  \/ \E n \in ToSet(Nodes), d \in Delays : DelayArrives(n, d)
  \/ \E g \in Names : handleCheckAll(g)
  \/ CheckAllEnds

Spec == Init /\ [][Next]_vars

-------------------------------------------------------------------------------
(* What the user set in the heads comes back with its profile, although    *)
(* the timer may store the state of another profile, or none, under its    *)
(* name first - unless a profile or the page was left too soon.            *)
HeadStateKept ==
  mounted /\ ~lost /\ timer = NoTimer /\ pending = <<>> => head = mine[profile] /\ saved = mine

(* The list is that of a rendering without any cache, but for the order    *)
(* and the filter of delays that came later.  A change of the mode alone   *)
(* can leave the rows of the other mode.                                   *)
Headings(l) == SelectSeq(l, LAMBDA r : r.type \in {"group", "head"})
Shown(l, g) == UNION {ToSet(r.nodes) : r \in {r \in ToSet(l) : r.group = g}}

ListFollows ==
  mounted /\ ~switched /\ ~chain =>
    LET groups == renderGroups(mode, data)
        real == Visible(mode, data, FlattenSeq([i \in DOMAIN groups |-> GroupRows(groups[i], mode = "rule", HeadOf(head, groups[i]), col)]))
    IN  /\ Headings(list) = Headings(real)
        /\ \A g \in Names : HeadOf(head, g).filter = "" => Shown(list, g) = Shown(real, g)

(* Right after a check of a group that is sorted by delay its nodes are in *)
(* the order of their delays.                                              *)
SortsChecked ==
     check # NoCheck /\ check' = NoCheck /\ mounted /\ pending = <<>> /\ ~chain =>
       \A g \in {check.g} : HeadOf(head, g).sort = 1 /\ check.sort = 1 /\ HeadOf(head, g).filter = "" =>
         LET seq == FlattenSeq([i \in DOMAIN list' |-> IF list'[i].group = g THEN list'[i].nodes ELSE <<>>])
         IN  \A i, j \in DOMAIN seq : i < j => categorizeDelay(delay[seq[i]]) <= categorizeDelay(delay[seq[j]])
SortedAfterCheck == [][SortsChecked]_vars
===============================================================================
