----------------------------- MODULE TrafficGraphs -----------------------------
(***************************************************************************)
(* The two traffic graphs: that of the home page                           *)
(* (src/src/components/home/enhanced-canvas-traffic-graph.tsx), which      *)
(* draws in an animation frame what the monitor's data points were when    *)
(* the frame was asked for, and the small one of the side bar              *)
(* (src/src/components/layout/traffic-graph.tsx), which animates a list of *)
(* its own once a second while there is traffic.  They share nothing:      *)
(* which tells the graph a behaviour is about.                             *)
(*                                                                         *)
(* Of what is drawn, the model keeps whether it is of the latest points    *)
(* and style, the labels of its time axis and its scale; a frame is        *)
(* quicker than the 50 ms that new points wait.                            *)
(***************************************************************************)
EXTENDS Integers, Sequences, SequencesExt

CONSTANTS Counts,      \* numbers of points the labels are checked for
          Widths,      \* effectiveWidth of the canvas, in pixels
          maxLabels, minPixelDistance,  \* getTimeDisplayStrategy
          Speeds,      \* speeds of a point
          maxPoint,    \* points of the small graph
          MaxClicks    \* bound on the clicks that change the style

VARIABLES which,       \* "home" or "layout"
          visible, focused, pause,   \* the page, the window, the setting
          pending,     \* points waiting for the debounce: "no", "same", "none" or "some"
          display,     \* displayData has points
          aged, stale, \* the newest point is old; dataStaleRef
          frame,       \* drawFrameRef: "none", or its closure: "latest" or "old"
          drawn,       \* the canvas shows the latest points and style
          mouse,       \* mouseMoveFrameRef waits
          tooltip,     \* the tooltip is visible
          hover,       \* the mouse is over the graph
          clicks,
          list,        \* the small graph: listRef
          fresh,       \* cacheRef
          draw         \* its pending draw: "none", "still" or "animated"

vars == <<which, visible, focused, pause, pending, display, aged, stale, frame, drawn,
          mouse, tooltip, hover, clicks, list, fresh, draw>>
mouseVars == <<mouse, tooltip, hover>>
homeVars == <<visible, focused, pause, pending, display, aged, stale, frame, drawn, mouse,
              tooltip, hover, clicks>>
layoutVars == <<list, fresh, draw>>

ZeroList == [i \in 1..(maxPoint + 2) |-> 0]
MaxOf(a, b) == IF a > b THEN a ELSE b
MinOf(a, b) == IF a < b THEN a ELSE b
Ceil(a, b) == (a + b - 1) \div b

-------------------------------------------------------------------------------
(* The scale of the ordinate, in tenths: 10% of room on either side, and   *)
(* the ordinate of a value on it, in a hundred steps from the bottom.      *)
computeYScale(lo, hi) ==
  IF hi = 0 THEN [top |-> 10240, bottom |-> 0]
  ELSE IF hi = lo THEN [top |-> 12 * hi, bottom |-> 0]
  ELSE [top |-> 10 * hi + (hi - lo), bottom |-> MaxOf(0, 10 * lo - (hi - lo))]

calculateY(v, scale) ==
  IF scale.top = scale.bottom THEN 0
  ELSE (100 * (10 * v - scale.bottom)) \div (scale.top - scale.bottom)

(* drawTimeAxis: the indices of the points that get a label.  A label is   *)
(* at index / (n - 1) of the width.                                        *)
BugStep(n, width) ==
  LET target == MinOf(maxLabels, n)
  IN  IF target = 1 THEN n ELSE MaxOf(1, n \div (target - 1))

LabelStep(n, width) ==
  LET target == MinOf(maxLabels, n)
      step == IF target = 1 THEN n ELSE MaxOf(1, n \div (target - 1))
  IN  MaxOf(step, Ceil(n * minPixelDistance, width))

TimeLabels(n, width) ==
  LET step == LabelStep(n, width)
      middle == [k \in 1..(IF n > step THEN (n - step - 1) \div step ELSE 0) |-> k * step]
      labels == IF n = 0 THEN <<>> ELSE <<0>> \o middle
  IN  IF n > 1 /\ (n - 1 - Last(labels)) * width >= minPixelDistance * (n - 1)
      THEN Append(labels, n - 1) ELSE labels

-------------------------------------------------------------------------------
Init ==
  /\ which \in {"home", "layout"}
  /\ visible = TRUE /\ focused = TRUE /\ pause \in BOOLEAN
  /\ pending = "no" /\ display = FALSE /\ aged = FALSE /\ stale = FALSE
  /\ frame = "latest" /\ drawn = TRUE
  /\ mouse = FALSE /\ tooltip = FALSE /\ hover = FALSE /\ clicks = 0
  /\ list = ZeroList /\ fresh = 0 /\ draw = "still"

(* scheduleDrawGraph does nothing while a frame is waiting, even one with  *)
(* an older closure.                                                       *)
Scheduled(f) == IF f = "none" THEN "latest" ELSE f

Home == which = "home" /\ UNCHANGED which /\ UNCHANGED layoutVars

(* The monitor's points change, or come once more: the wait begins anew.   *)
updateDisplayData ==
  /\ Home /\ visible
  /\ pending' \in {"none", "some"} /\ aged' = FALSE
  /\ UNCHANGED <<visible, focused, pause, display, stale, frame, drawn, clicks>>
  /\ UNCHANGED mouseVars

SamePoints ==
  /\ Home /\ visible /\ pending = "no"
  /\ pending' = "same"
  /\ UNCHANGED <<visible, focused, pause, display, aged, stale, frame, drawn, clicks>>
  /\ UNCHANGED mouseVars

(* displayDataReducer keeps the array when the points are the same; else   *)
(* every closure is made anew and a draw is asked for.                     *)
DebounceEnds ==
  /\ Home /\ pending # "no" /\ (visible => frame = "none")
  /\ pending' = "no"
  /\ IF pending = "same" THEN UNCHANGED <<display, stale, frame, drawn>>
     ELSE /\ display' = (pending = "some")
          /\ stale' = (pending = "some" /\ aged)
          /\ frame' = Scheduled(IF frame = "none" THEN "none" ELSE "old")
          /\ drawn' = FALSE
  /\ UNCHANGED <<visible, focused, pause, aged, clicks>> /\ UNCHANGED mouseVars

PointAges ==
  /\ Home /\ ~aged /\ aged' = TRUE
  /\ UNCHANGED <<visible, focused, pause, pending, display, stale, frame, drawn, clicks>>
  /\ UNCHANGED mouseVars

Asleep == ~visible \/ (~focused /\ pause)
shouldSkipGraphDraw == Asleep \/ stale \/ (display /\ aged)

BugDraw ==
  /\ Home /\ visible /\ frame # "none"
  /\ IF shouldSkipGraphDraw
     THEN stale' = (stale \/ (~Asleep /\ display /\ aged)) /\ UNCHANGED <<drawn, frame>>
     ELSE drawn' = (frame = "latest") /\ UNCHANGED <<stale, frame>>
  /\ UNCHANGED <<visible, focused, pause, pending, display, aged, clicks>>
  /\ UNCHANGED mouseVars

(* The animation frame, which does not come while the page is hidden.      *)
drawGraph ==
  /\ Home /\ visible /\ frame # "none"
  /\ frame' = "none"
  /\ IF shouldSkipGraphDraw
     THEN stale' = (stale \/ (~Asleep /\ display /\ aged)) /\ UNCHANGED drawn
     ELSE drawn' = (frame = "latest") /\ UNCHANGED stale
  /\ UNCHANGED <<visible, focused, pause, pending, display, aged, clicks>>
  /\ UNCHANGED mouseVars

(* The page unmounts the graph while it is hidden: its timers and frames   *)
(* are cancelled and it starts from nothing.                               *)
Unmount ==
  /\ Home /\ visible
  /\ visible' = FALSE /\ focused' = FALSE
  /\ pending' = "no" /\ display' = FALSE /\ stale' = FALSE /\ frame' = "none"
  /\ drawn' = TRUE
  /\ mouse' = FALSE /\ tooltip' = FALSE /\ hover' = FALSE
  /\ UNCHANGED <<pause, aged, clicks>>

Mount ==
  /\ Home /\ ~visible
  /\ visible' = TRUE /\ focused' = TRUE /\ frame' = "latest"
  /\ UNCHANGED <<pause, pending, display, aged, stale, drawn, clicks>> /\ UNCHANGED mouseVars

handleFocusStateChange ==
  /\ Home /\ visible
  /\ focused' = ~focused /\ frame' = Scheduled(frame)
  /\ UNCHANGED <<visible, pause, pending, display, aged, stale, drawn, clicks>>
  /\ UNCHANGED mouseVars

(* A click changes the style; that of the range has new points come.       *)
toggleStyle ==
  /\ Home /\ visible /\ clicks < MaxClicks /\ clicks' = clicks + 1
  /\ drawn' = FALSE
  /\ frame' = Scheduled(IF frame = "none" THEN "none" ELSE "old")
  /\ UNCHANGED <<visible, focused, pause, pending, display, aged, stale>> /\ UNCHANGED mouseVars

(* The mouse asks for a frame, unless one is waiting, and the frame for    *)
(* the nearest of the points its closure knows.                            *)
handleMouseMove ==
  /\ Home /\ visible
  /\ hover' = TRUE
  /\ mouse' = (mouse \/ display)
  /\ UNCHANGED <<visible, focused, pause, pending, display, aged, stale, frame, drawn, tooltip,
                 clicks>>

MouseFrame ==
  /\ Home /\ visible /\ mouse
  /\ mouse' = FALSE /\ tooltip' = TRUE
  /\ UNCHANGED <<visible, focused, pause, pending, display, aged, stale, frame, drawn, hover,
                 clicks>>

BugMouseLeave ==
  /\ Home /\ hover
  /\ tooltip' = FALSE /\ hover' = FALSE
  /\ UNCHANGED <<visible, focused, pause, pending, display, aged, stale, frame, drawn, mouse,
                 clicks>>

handleMouseLeave ==
  /\ Home /\ hover
  /\ mouse' = FALSE /\ tooltip' = FALSE /\ hover' = FALSE
  /\ UNCHANGED <<visible, focused, pause, pending, display, aged, stale, frame, drawn, clicks>>

-------------------------------------------------------------------------------
(* The small graph.                                                        *)
Layout == which = "layout" /\ UNCHANGED which /\ UNCHANGED homeVars

appendData(v) == Layout /\ fresh' = v /\ UNCHANGED <<list, draw>>

BugAppend(v) ==
  IF v = 0 THEN list
  ELSE Append(IF Len(list) > maxPoint + 2 THEN Tail(list) ELSE list, v)

(* A point of no traffic is appended as long as one with traffic is kept.  *)
Appended(v) ==
  IF v = 0 /\ \A i \in 1..Len(list) : list[i] = 0 THEN list
  ELSE Append(IF Len(list) > maxPoint + 2 THEN Tail(list) ELSE list, v)

handleData ==
  /\ Layout
  /\ list' = Appended(fresh) /\ fresh' = 0
  /\ draw' = IF list' = list THEN draw ELSE "animated"

(* requestDraw cancels what waits; an animation goes on until its second   *)
(* is over.                                                                *)
requestDraw == Layout /\ draw' = "still" /\ UNCHANGED <<list, fresh>>

drawAnimatedFrame ==
  /\ Layout /\ draw # "none"
  /\ draw' \in (IF draw = "still" THEN {"none"} ELSE {"none", "animated"})
  /\ UNCHANGED <<list, fresh>>

Next ==
  \/ updateDisplayData \/ SamePoints \/ DebounceEnds \/ PointAges \/ drawGraph \/ Unmount \/ Mount
  \/ handleFocusStateChange \/ toggleStyle \/ handleMouseMove \/ MouseFrame \/ handleMouseLeave
  \/ handleData \/ requestDraw \/ drawAnimatedFrame
  \/ \E v \in Speeds : appendData(v)

Spec == Init /\ [][Next]_vars

(* Frames and timers come, and the worker sends points while the page is   *)
(* shown; nothing is assumed of the user.                                  *)
FairSpec == Spec /\ WF_vars(drawGraph) /\ SF_vars(DebounceEnds) /\ WF_vars(updateDisplayData)
                 /\ WF_vars(handleData)

-------------------------------------------------------------------------------
(* The labels of the time axis never come closer than the distance they    *)
(* need, however many points there are, and the curve stays between the    *)
(* ends of the scale whatever the speeds are.                              *)
GraphGeometry ==
  /\ \A width \in Widths, n \in Counts :
       LET labels == TimeLabels(n, width)
       IN  \A k \in 2..Len(labels) :
             (labels[k] - labels[k - 1]) * width >= minPixelDistance * (n - 1)
  /\ \A lo, hi \in Speeds :
       lo <= hi => {calculateY(lo, computeYScale(lo, hi)), calculateY(hi, computeYScale(lo, hi))}
                     \subseteq 0..100

(* The mouse away from the graph leaves no tooltip behind, not even by a   *)
(* frame that was on its way.                                              *)
TooltipGoes == ~hover => ~mouse /\ ~tooltip

(* Whatever frames were waiting when the points or the style changed, the  *)
(* canvas shows the latest again and again while its page is looked at.    *)
CaughtUp == which = "home" => drawn \/ Asleep \/ aged \/ stale
GraphCatchesUp == []<>CaughtUp

(* Traffic that has ended leaves the small graph, which then rests.        *)
GoneOrRunning == which = "layout" => fresh # 0 \/ \A i \in 1..Len(list) : list[i] = 0
TrafficLeaves == []<>GoneOrRunning
===============================================================================
