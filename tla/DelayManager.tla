----------------------------- MODULE DelayManager -----------------------------
(***************************************************************************)
(* Latency tests of the nodes of one group (src/src/services/delay.ts) and *)
(* the rows that show them (src/src/hooks/use-proxy-delay-state.ts).  A    *)
(* test stores "testing", asks the core against a timeout and stores what  *)
(* it got; stored values reach the row's listener in the next frame.  A    *)
(* row tests its node, the page tests the whole list with several workers, *)
(* and nothing stops two tests of one node from running at once.           *)
(***************************************************************************)
EXTENDS Naturals, Sequences, FiniteSets, SequencesExt

CONSTANTS Nodes,      \* sequence: the names of the group, in order
          Results,    \* what a test may get: a delay, a timeout (0), an error
          Slots,      \* slots for running tests
          Workers,    \* concurrency of a list test
          MaxTests    \* bound on the tests of a behaviour

VARIABLES cache,      \* node -> stored delay
          pending,    \* pendingItemUpdates: node -> the last update of this frame
          row,        \* node -> its row: mounted, its lock, what it shows
          test,       \* slot -> running test
          next,       \* position of the list test, 0: none is running
          heeded,     \* the listener the list test saw when it began
          group,      \* a group notification is queued
          tests       \* tests begun so far

vars == <<cache, pending, row, test, next, heeded, group, tests>>

Nil == "none"
Node == ToSet(Nodes)

NoTest == [st |-> "free", node |-> Nil, by |-> Nil, got |-> Nil]
NoRow == [on |-> FALSE, lock |-> FALSE, shows |-> Nil]

Free(s) == test[s].st = "free"

-------------------------------------------------------------------------------
(* setDelay on a cache and a queue: stored, and queued for the row.  Of    *)
(* the updates a row gets in one frame only the last one is ever seen.     *)
BugSetDelay(c, p, n, d) ==
  <<[c EXCEPT ![n] = d], [p EXCEPT ![n] = IF @ = Nil THEN d ELSE @]>>

setDelay(c, p, n, d) == <<[c EXCEPT ![n] = d], [p EXCEPT ![n] = d]>>

Store(n, d) ==
  LET r == setDelay(cache, pending, n, d) IN cache' = r[1] /\ pending' = r[2]

Init ==
  /\ cache = [n \in Node |-> Nil]
  /\ pending = [n \in Node |-> Nil]
  /\ row = [n \in Node |-> NoRow]
  /\ test = [s \in Slots |-> NoTest]
  /\ next = 0 /\ heeded = FALSE /\ group = FALSE /\ tests = 0

(* updateDelay: the stored delay, or the last one of the core's history    *)
(* (getDelayFix) when none is stored or it is older than CACHE_TTL.        *)
updateDelay(n) ==
  \/ /\ cache[n] # Nil
     /\ row' = [row EXCEPT ![n].on = TRUE, ![n].shows = cache[n]]
     /\ UNCHANGED cache
  \/ /\ cache[n] # "testing" /\ pending[n] = Nil
     /\ \A s \in Slots : test[s].node # n
     /\ cache' = [cache EXCEPT ![n] = Nil]
     /\ row' = [row EXCEPT ![n].on = TRUE, ![n].shows = "history"]

Mount(n) ==
  /\ ~row[n].on /\ updateDelay(n)
  /\ UNCHANGED <<pending, test, next, heeded, group, tests>>

(* A refresh of the proxies gives the row a new object: it reads again.    *)
NewProxy(n) ==
  /\ row[n].on /\ updateDelay(n)
  /\ UNCHANGED <<pending, test, next, heeded, group, tests>>

(* removeListener; a test of the row goes on without it.                   *)
Unmount(n) ==
  /\ row[n].on
  /\ row' = [row EXCEPT ![n] = NoRow]
  /\ test' = [s \in Slots |-> IF test[s].node = n /\ test[s].by = "row"
                              THEN [test[s] EXCEPT !.by = "gone"] ELSE test[s]]
  /\ UNCHANGED <<cache, pending, next, heeded, group, tests>>

(* The frame: every queued update goes to the listener its key has now.    *)
scheduleItemFlush ==
  /\ \E n \in Node : pending[n] # Nil
  /\ pending' = [n \in Node |-> Nil]
  /\ row' = [n \in Node |-> IF row[n].on /\ pending[n] # Nil
                            THEN [row[n] EXCEPT !.shows = pending[n]] ELSE row[n]]
  /\ UNCHANGED <<cache, test, next, heeded, group, tests>>

(* The group's listener sorts the list again.                              *)
scheduleGroupFlush ==
  /\ group /\ group' = FALSE
  /\ UNCHANGED <<cache, pending, row, test, next, heeded, tests>>

-------------------------------------------------------------------------------
(* onDelay of a row, under its lock.                                       *)
onDelay(n) ==
  /\ row[n].on /\ ~row[n].lock /\ tests < MaxTests
  /\ \E s \in Slots : Free(s)
  /\ LET s == CHOOSE s \in Slots : Free(s)
     IN  test' = [test EXCEPT ![s] = [st |-> "ask", node |-> n, by |-> "row", got |-> Nil]]
  /\ row' = [row EXCEPT ![n].lock = TRUE, ![n].shows = "testing"]
  /\ Store(n, "testing")
  /\ tests' = tests + 1
  /\ UNCHANGED <<next, heeded, group>>

(* The race of checkDelay: an answer, or 0 when the timeout is first, or   *)
(* an error; each is shown only after half a second.                       *)
Answered(s, d) ==
  /\ test[s].st = "ask"
  /\ test' = [test EXCEPT ![s].st = "pad", ![s].got = d]
  /\ UNCHANGED <<cache, pending, row, next, heeded, group, tests>>

(* help() of a worker takes the next name, and goes to sleep for up to 200 *)
(* ms before it tests it, or is at the end of the list.                    *)
Taken(s, i) ==
  IF i > Len(Nodes) THEN [test EXCEPT ![s] = NoTest]
  ELSE [test EXCEPT ![s] = [st |-> "sleep", node |-> Nodes[i], by |-> "list", got |-> Nil]]

BugFinish(s) ==
  /\ test[s].st = "pad"
  /\ IF test[s].got = "error" THEN UNCHANGED <<cache, pending>> ELSE Store(test[s].node, test[s].got)
  /\ row' = IF test[s].by = "row" THEN [row EXCEPT ![test[s].node].lock = FALSE] ELSE row
  /\ test' = [test EXCEPT ![s] = NoTest]
  /\ UNCHANGED <<next, heeded, group, tests>>

(* What was got is stored; the row shows it at once, a worker goes on: the *)
(* name it takes is being tested from then on, also while it sleeps.       *)
Finish(s) ==
  /\ test[s].st = "pad"
  /\ LET got == setDelay(cache, pending, test[s].node, test[s].got)
         r == IF test[s].by = "list" /\ next <= Len(Nodes)
              THEN setDelay(got[1], got[2], Nodes[next], "testing") ELSE got
     IN  cache' = r[1] /\ pending' = r[2]
  /\ row' = IF test[s].by = "row"
            THEN [row EXCEPT ![test[s].node].lock = FALSE, ![test[s].node].shows = test[s].got]
            ELSE row
  /\ IF test[s].by = "list"
     THEN /\ test' = Taken(s, next)
          /\ next' = IF \A t \in Slots : test'[t].by # "list" THEN 0
                     ELSE IF next > Len(Nodes) THEN next ELSE next + 1
          /\ group' = (group \/ heeded)
     ELSE test' = [test EXCEPT ![s] = NoTest] /\ UNCHANGED <<next, group>>
  /\ UNCHANGED <<heeded, tests>>

(* checkListDelay: all names are being tested; each worker takes one, the  *)
(* first of them without sleeping.                                         *)
checkListDelay(listening) ==
  /\ next = 0 /\ tests + Len(Nodes) <= MaxTests
  /\ LET n == IF Workers < Len(Nodes) THEN Workers ELSE Len(Nodes)
         free == {s \in Slots : Free(s)}
         slot == SetToSeq(free)
     IN  /\ Cardinality(free) >= n
         /\ test' = [s \in Slots |->
              IF \E i \in 1..n : slot[i] = s
              THEN LET i == CHOOSE i \in 1..n : slot[i] = s
                   IN  [st |-> IF i = 1 THEN "ask" ELSE "sleep", node |-> Nodes[i],
                        by |-> "list", got |-> Nil]
              ELSE test[s]]
         /\ next' = n + 1
  /\ cache' = [m \in Node |-> "testing"]
  /\ pending' = [m \in Node |-> "testing"]
  /\ heeded' = listening
  /\ tests' = tests + Len(Nodes)
  /\ UNCHANGED <<row, group>>

(* A worker wakes up and tests its node.                                   *)
help(s) ==
  /\ test[s].st = "sleep"
  /\ test' = [test EXCEPT ![s].st = "ask"]
  /\ Store(test[s].node, "testing")
  /\ UNCHANGED <<row, next, heeded, group, tests>>

Next ==
  \/ scheduleItemFlush \/ scheduleGroupFlush
  \/ \E n \in Node : Mount(n) \/ NewProxy(n) \/ Unmount(n) \/ onDelay(n)
  \/ \E s \in Slots : Finish(s) \/ help(s) \/ \E d \in Results : Answered(s, d)
  \/ \E listening \in BOOLEAN : checkListDelay(listening)

(* Timers fire: the race always ends.                                      *)
Fairness ==
  \A s \in Slots :
    /\ WF_vars(\E d \in Results : Answered(s, d))
    /\ WF_vars(Finish(s)) /\ WF_vars(help(s))

Spec == Init /\ [][Next]_vars /\ Fairness

-------------------------------------------------------------------------------
(* A row that is there shows what is stored for its node as soon as the    *)
(* frame has delivered what was queued, however the tests overlap and      *)
(* whenever the row came.                                                  *)
ShownIsStored ==
  \A n \in Node : row[n].on /\ pending[n] = Nil /\ cache[n] # Nil => row[n].shows = cache[n]

(* No node stays at "testing".                                             *)
Testing(n) == cache[n] = "testing"
TestsEnd == \A n \in Node : Testing(n) ~> ~Testing(n)
===============================================================================
