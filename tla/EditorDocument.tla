---------------------------- MODULE EditorDocument ----------------------------
(***************************************************************************)
(* The text editor of a profile, of its extensions and of the global ones: *)
(* src/src/hooks/use-editor-document.ts, editor-viewer.tsx, and the save   *)
(* handlers of profile-item.tsx and profile-more.tsx, over the backend's   *)
(* save_profile_file, which writes the file, validates it and puts the old *)
(* text back when it is refused.                                           *)
(*                                                                         *)
(* The dialog can be closed and opened again while a text is being saved.  *)
(***************************************************************************)
EXTENDS Naturals, FiniteSets

CONSTANTS Texts, Valid,
          MaxSteps    \* bound on openings and edits

VARIABLES file,    \* what is on disk
          open, value, saved, loading,
          dialog,  \* number of the opening
          loads,   \* reads of the file under way: by the effect (of an opening) or by reload
          saves,   \* running save handlers
          clean,   \* nothing was being saved since the dialog was opened, and it was read
          steps

vars == <<file, open, value, saved, loading, dialog, loads, saves, clean, steps>>

Empty == "empty"

Init ==
  /\ file \in Valid /\ open = FALSE /\ value = Empty /\ saved = Empty /\ loading = TRUE
  /\ dialog = 0 /\ loads = {} /\ saves = {} /\ clean = FALSE /\ steps = 0

Step == steps < MaxSteps /\ steps' = steps + 1

-------------------------------------------------------------------------------
(* Opening resets the document and reads the file; closing resets it and   *)
(* aborts the read.                                                        *)
Reset == value' = Empty /\ saved' = Empty /\ loading' = TRUE

BugOpen ==
  /\ ~open /\ Step
  /\ open' = TRUE /\ dialog' = dialog + 1 /\ Reset
  /\ loads' = {[l EXCEPT !.n = dialog + 1] : l \in loads} \cup {[n |-> dialog + 1, text |-> file]}
  /\ clean' = (saves = {})
  /\ UNCHANGED <<file, saves>>

Open ==
  /\ ~open /\ Step
  /\ open' = TRUE /\ dialog' = dialog + 1 /\ Reset
  /\ loads' = loads \cup {[n |-> dialog + 1, text |-> file]}
  /\ clean' = (saves = {})
  /\ UNCHANGED <<file, saves>>

Close ==
  /\ open
  /\ open' = FALSE /\ Reset /\ clean' = FALSE
  /\ UNCHANGED <<file, dialog, loads, saves, steps>>

(* A read ends: too late when its dialog was closed.                       *)
Loaded(l) ==
  /\ l \in loads /\ loads' = loads \ {l}
  /\ IF open /\ l.n = dialog
     THEN value' = l.text /\ saved' = l.text /\ loading' = FALSE
     ELSE UNCHANGED <<value, saved, loading>>
  /\ UNCHANGED <<file, open, dialog, saves, clean, steps>>

LoadFails(l) ==
  /\ l \in loads /\ loads' = loads \ {l}
  /\ IF open /\ l.n = dialog THEN loading' = FALSE /\ clean' = FALSE ELSE UNCHANGED <<loading, clean>>
  /\ UNCHANGED <<file, open, value, saved, dialog, saves, steps>>

Edit(t) ==
  /\ open /\ ~loading /\ t # value /\ Step
  /\ value' = t
  /\ UNCHANGED <<file, open, saved, loading, dialog, loads, saves, clean>>

-------------------------------------------------------------------------------
(* Save: one handler at a time; a call made while one is running returns   *)
(* at once, and the dialog is closed as if the text had been saved.        *)
NewSave == [stage |-> "call", text |-> value, old |-> Empty]

BugHandleSave ==
  /\ open /\ ~loading /\ value # saved
  /\ saves' = saves \cup {NewSave}
  /\ UNCHANGED <<file, open, value, saved, loading, dialog, loads, clean, steps>>

handleSave ==
  /\ open /\ ~loading /\ value # saved
  /\ IF saves = {} THEN saves' = {NewSave} /\ UNCHANGED <<open, value, saved, loading, clean>>
     ELSE open' = FALSE /\ Reset /\ clean' = FALSE /\ UNCHANGED saves
  /\ UNCHANGED <<file, dialog, loads, steps>>

(* The backend reads the file, then writes it.                             *)
SaveReads(s) ==
  /\ s \in saves /\ s.stage = "call"
  /\ saves' = (saves \ {s}) \cup {[s EXCEPT !.stage = "write", !.old = file]}
  /\ UNCHANGED <<file, open, value, saved, loading, dialog, loads, clean, steps>>

SaveWrites(s) ==
  /\ s \in saves /\ s.stage = "write"
  /\ file' = s.text
  /\ saves' = (saves \ {s}) \cup {[s EXCEPT !.stage = "validate"]}
  /\ UNCHANGED <<open, value, saved, loading, dialog, loads, clean, steps>>

(* It accepts the text: the document is marked as saved, and the dialog is *)
(* closed, whichever opening it is by now.                                 *)
SaveAccepted(s) ==
  /\ s \in saves /\ s.stage = "validate" /\ s.text \in Valid
  /\ saves' = saves \ {s}
  /\ IF open THEN open' = FALSE /\ Reset /\ clean' = FALSE
     ELSE saved' = s.text /\ UNCHANGED <<open, value, loading, clean>>
  /\ UNCHANGED <<file, dialog, loads, steps>>

(* It refuses the text, puts the old one back; the handler reads the file  *)
(* again and then closes the dialog.                                       *)
SaveRefused(s) ==
  /\ s \in saves /\ s.stage = "validate" /\ s.text \notin Valid
  /\ file' = s.old
  /\ saves' = (saves \ {s}) \cup {[s EXCEPT !.stage = "reload"]}
  /\ loading' = TRUE
  /\ UNCHANGED <<open, value, saved, dialog, loads, clean, steps>>

reload(s) ==
  /\ s \in saves /\ s.stage = "reload"
  /\ saves' = saves \ {s}
  /\ open' = FALSE /\ Reset /\ clean' = FALSE
  /\ UNCHANGED <<file, dialog, loads, steps>>

Next ==
  \/ Open \/ Close \/ handleSave
  \/ \E l \in loads : Loaded(l) \/ LoadFails(l)
  \/ \E t \in Texts : Edit(t)
  \/ \E s \in saves : SaveReads(s) \/ SaveWrites(s) \/ SaveAccepted(s) \/ SaveRefused(s) \/ reload(s)

Spec == Init /\ [][Next]_vars

-------------------------------------------------------------------------------
(* Whenever no save is under way the file holds a text that was accepted:  *)
(* two saves of one document are never interleaved.                        *)
FileAccepted == saves = {} => file \in Valid

(* What a dialog counts as saved is what is on disk, for one that was      *)
(* opened while nothing was being saved and that was read: an answer to an *)
(* earlier opening does not get into it.                                   *)
SavedIsFile == clean /\ open /\ ~loading /\ saves = {} => saved = file
===============================================================================
