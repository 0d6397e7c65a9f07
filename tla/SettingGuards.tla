----------------------------- MODULE SettingGuards -----------------------------
(***************************************************************************)
(* The settings that change with a click                                   *)
(* (src/src/components/setting/mods/layout-viewer.tsx), each in a          *)
(* GuardState (src/src/components/setting/mods/guard-state.tsx): shown at  *)
(* once, sent, and put back when refused; a second change of the same      *)
(* setting is ignored until then.  The cache they write to                 *)
(* (src/src/hooks/use-verge.ts) is one object, and each of them writes     *)
(* all of it as it was drawn at the click.                                 *)
(***************************************************************************)
EXTENDS Naturals, FiniteSets

CONSTANTS Settings, Vals,
          Waits,       \* the settings whose guard has a waitTime
          Icon,        \* a setting with a button that browses for an icon
          MaxChanges   \* bound on the clicks

VARIABLES stored,     \* the settings of the backend
          cached,     \* verge
          fetch,      \* the refetch: Nil, or what it has read
          lock,       \* lockRef: the settings whose change is under way
          changes,    \* running changes: setting, stage, new value, verge of the rendering
          files,      \* the icon: of the file on disk and of the path shown
          last,       \* last change of each setting that was not refused or ignored
          refused,    \* a change was refused and nothing was fetched since
          clicks

vars == <<stored, cached, fetch, lock, changes, files, last, refused, clicks>>

Nil == "none"
Reading == [s \in Settings |-> Nil]
None == [s \in {} |-> Nil]

Init ==
  /\ stored \in [Settings -> Vals] /\ cached = stored /\ fetch = None
  /\ lock = {} /\ changes = {} /\ files = [disk |-> 0, shown |-> 0]
  /\ last = stored /\ refused = FALSE /\ clicks = 0

Click == clicks < MaxChanges /\ clicks' = clicks + 1
onChangeData(base, s, v) == cached' = [base EXCEPT ![s] = v]

-------------------------------------------------------------------------------
(* A click or an input: the value is shown, and the guard is called, after *)
(* waitTime where there is one.                                            *)
BugOnChange(s, v) ==
  /\ s # Icon /\ v # cached[s] /\ Click
  /\ onChangeData(cached, s, v) /\ last' = [last EXCEPT ![s] = v]
  /\ lock' = lock \cup {s}
  /\ changes' = changes \cup {[setting |-> s, stage |-> IF s \in Waits THEN "wait" ELSE "send", new |-> v, verge |-> cached]}
  /\ UNCHANGED <<stored, fetch, files, refused>>

onChange(s, v) ==
  /\ s # Icon /\ s \notin lock /\ v # cached[s] /\ Click
  /\ onChangeData(cached, s, v) /\ last' = [last EXCEPT ![s] = v]
  /\ lock' = lock \cup {s}
  /\ changes' = changes \cup {[setting |-> s, stage |-> IF s \in Waits THEN "wait" ELSE "send", new |-> v, verge |-> cached]}
  /\ UNCHANGED <<stored, fetch, files, refused>>

Ignored(s, v) ==
  /\ s \in lock /\ v # cached[s] /\ Click
  /\ UNCHANGED <<stored, cached, fetch, lock, changes, files, last, refused>>

WaitOver(c) ==
  /\ c \in changes /\ c.stage = "wait"
  /\ changes' = (changes \ {c}) \cup {[c EXCEPT !.stage = "send"]}
  /\ UNCHANGED <<stored, cached, fetch, lock, files, last, refused, clicks>>

(* patchVerge: the backend takes it, then the settings are fetched.        *)
patchVerge(c) ==
  /\ c \in changes /\ c.stage = "send"
  /\ stored' = [stored EXCEPT ![c.setting] = c.new]
  /\ changes' = (changes \ {c}) \cup {[c EXCEPT !.stage = "fetch"]}
  /\ fetch' = Reading
  /\ UNCHANGED <<cached, lock, files, last, refused, clicks>>

(* A fetch reads; a later one takes its place, and no one waits for it.    *)
Read ==
  /\ fetch = Reading /\ fetch' = stored
  /\ UNCHANGED <<stored, cached, lock, changes, files, last, refused, clicks>>

BugRefetched ==
  /\ fetch \in [Settings -> Vals] /\ fetch' = None /\ cached' = fetch /\ refused' = FALSE
  /\ changes' = {c \in changes : c.stage # "fetch"}
  /\ UNCHANGED <<stored, lock, files, last, clicks>>

Refetched ==
  /\ fetch \in [Settings -> Vals] /\ fetch' = None /\ cached' = fetch /\ refused' = FALSE
  /\ changes' = {c \in changes : c.stage # "fetch"}
  /\ lock' = {s \in lock : \E c \in changes' : c.setting = s}
  /\ UNCHANGED <<stored, files, last, clicks>>

(* It is refused: what the dialog showed at the click is shown again.      *)
Refused(c) ==
  /\ c \in changes /\ c.stage = "send" /\ c.setting # Icon
  /\ changes' = changes \ {c} /\ lock' = lock \ {c.setting}
  /\ onChangeData(c.verge, c.setting, c.verge[c.setting])
  /\ last' = [last EXCEPT ![c.setting] = stored[c.setting]] /\ refused' = TRUE
  /\ UNCHANGED <<stored, fetch, files, clicks>>
-------------------------------------------------------------------------------
(* The button of the icon has no guard: a click on it clears the icon, or  *)
(* browses for a file, copies it, looks for it and sets it, over what was  *)
(* shown when the button was clicked.                                      *)
iconClick(v) ==
  /\ v # cached[Icon] /\ Click
  /\ \/ onChangeData(cached, Icon, v)
        /\ changes' = changes \cup {[setting |-> Icon, stage |-> "send", new |-> v, verge |-> cached]}
     \/ UNCHANGED cached
        /\ changes' = changes \cup {[setting |-> Icon, stage |-> "copy", new |-> v, verge |-> cached]}
  /\ UNCHANGED <<stored, fetch, lock, files, last, refused>>

copyIconFile(c) ==
  /\ c \in changes /\ c.stage = "copy"
  /\ files' = [files EXCEPT !.disk = clicks]
  /\ changes' = (changes \ {c}) \cup {[c EXCEPT !.stage = "paths"]}
  /\ UNCHANGED <<stored, cached, fetch, lock, last, refused, clicks>>

initIconPath(c) ==
  /\ c \in changes /\ c.stage = "paths"
  /\ files' = [files EXCEPT !.shown = files.disk]
  /\ onChangeData(c.verge, Icon, c.new)
  /\ changes' = (changes \ {c}) \cup {[c EXCEPT !.stage = "send"]}
  /\ UNCHANGED <<stored, fetch, lock, last, refused, clicks>>

(* No file chosen, or the copy failing: nothing more happens; a patch that *)
(* fails leaves what is shown.                                             *)
IconFails(c) ==
  /\ c \in changes /\ c.setting = Icon /\ c.stage \in {"copy", "send"}
  /\ changes' = changes \ {c} /\ refused' = (refused \/ c.stage = "send")
  /\ UNCHANGED <<stored, cached, fetch, lock, files, last, clicks>>

Progress ==
  \/ Read \/ Refetched
  \/ \E c \in changes : WaitOver(c) \/ patchVerge(c) \/ Refused(c) \/ copyIconFile(c) \/ initIconPath(c) \/ IconFails(c)

Next ==
  \/ Progress
  \/ \E s \in Settings, v \in Vals : onChange(s, v) \/ Ignored(s, v)
  \/ \E v \in Vals : iconClick(v)

Spec == Init /\ [][Next]_vars /\ WF_vars(Progress)

-------------------------------------------------------------------------------
(* Once nothing is under way, every guarded setting is as its last change  *)
(* left it, in the backend, and everything is shown as it is stored,       *)
(* whatever changes of other settings crossed it.                          *)
ChangesStick ==
  changes = {} /\ fetch = None =>
    /\ \A s \in Settings \ {Icon} : stored[s] = last[s]
    /\ refused \/ cached = stored

(* A setting whose change was sent can be changed again in the end.        *)
Locked(s) == s \in lock
LocksOpen == \A s \in Settings : Locked(s) ~> ~Locked(s)
===============================================================================
