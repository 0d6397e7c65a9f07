------------------------------- MODULE SeqEditor -------------------------------
(***************************************************************************)
(* The editors of what is put before and after the rules, proxies and      *)
(* groups of a profile and of what is deleted from them                    *)
(* (src/src/components/profile/{rules,proxies,groups}-editor-viewer.tsx).  *)
(* Each shows the same thing twice, as three lists and as YAML, and keeps  *)
(* them in step by two effects: a change of the lists is written to the    *)
(* text in an idle callback, a change of the text is parsed into the lists *)
(* in a transition, a rendering React may put off behind others.           *)
(*                                                                         *)
(* An effect runs in the step of its rendering; idle callbacks, transitions *)
(* and answers of the backend are steps of their own.                      *)
(***************************************************************************)
EXTENDS Naturals, Sequences, SequencesExt

CONSTANTS Items,      \* names of rules, proxies or groups
          Original,   \* those of the profile itself
          Docs,       \* what the file may hold and the user may type
          MaxEdits    \* bound on the edits of a behaviour

VARIABLES kind,   \* "rules", "proxies" or "groups"
          file,   \* the file, as text
          open,   \* the editor is mounted
          load,   \* fetchContent: "reading", "done" or "failed"
          vis,    \* visualization
          cur,    \* currData
          seq,    \* prependSeq, appendSeq and deleteSeq
          idle,   \* the lists of the idle callback that waits, or NoDoc
          trans,  \* the lists of the transition that waits, or NoDoc
          save,   \* handleSave: the text it saves and what was wanted
          want,   \* what the user has made of it
          hasty,  \* something was done while the two views were not in step
          edits

vars == <<kind, file, open, load, vis, cur, seq, idle, trans, save, want, hasty, edits>>
views == <<vis, cur, seq, idle, trans>>

Empty == [prepend |-> <<>>, append |-> <<>>, delete |-> <<>>]
NoDoc == [none |-> TRUE]

(* A text: "yaml" that says doc, "empty" or "bad"; dumped: by yaml.dump.   *)
Text(k, d, dumped) == [k |-> k, doc |-> d, dumped |-> dumped]
dump(d) == Text("yaml", d, TRUE)
NoText == Text("empty", Empty, FALSE)
Bad == Text("bad", Empty, FALSE)
Typed == {Text("yaml", d, FALSE) : d \in Docs} \cup {NoText, Bad}
Same(t, u) == (t.k = "bad") = (u.k = "bad") /\ t.doc = u.doc
NoSave == [text |-> NoText, want |-> NoText, on |-> FALSE]

(* The effect on currData and visualization, if the text is not empty.     *)
Parse(t, v, old) == IF v /\ t.k = "yaml" THEN t.doc ELSE old

Mounted ==
  /\ load' = "reading" /\ vis' = TRUE /\ cur' = NoText /\ seq' = Empty
  /\ idle' = Empty /\ trans' = NoDoc /\ save' = NoSave /\ want' = dump(Empty) /\ hasty' = FALSE

Init ==
  /\ kind \in {"rules", "proxies", "groups"} /\ file \in Typed /\ open = FALSE
  /\ load = "reading" /\ vis = TRUE /\ cur = NoText /\ seq = Empty
  /\ idle = NoDoc /\ trans = NoDoc /\ save = NoSave /\ want = NoText /\ hasty = FALSE /\ edits = 0

Open ==
  /\ ~open /\ open' = TRUE /\ edits < MaxEdits /\ edits' = edits + 1
  /\ Mounted /\ UNCHANGED <<kind, file>>

Close ==
  /\ open /\ open' = FALSE
  /\ idle' = NoDoc /\ trans' = NoDoc /\ save' = NoSave
  /\ UNCHANGED <<kind, file, load, vis, cur, seq, want, hasty, edits>>

-------------------------------------------------------------------------------
(* The file has been read; what cannot be parsed is left at that.          *)
fetchContent ==
  /\ open /\ load = "reading"
  /\ IF file.k = "bad" THEN load' = "failed" /\ UNCHANGED <<cur, seq, idle, trans, want>>
     ELSE /\ load' = "done"
          /\ seq' = file.doc /\ cur' = file /\ idle' = file.doc
          /\ trans' = Parse(file, vis, IF trans = NoDoc THEN NoDoc ELSE file.doc)
          /\ want' = file
  /\ UNCHANGED <<kind, file, open, vis, save, hasty, edits>>

BugSerialize ==
  /\ idle # NoDoc
  /\ cur' = dump(idle) /\ idle' = NoDoc
  /\ trans' = Parse(cur', vis, trans)
  /\ UNCHANGED <<kind, file, open, load, vis, seq, save, want, hasty, edits>>

(* The idle callback; the same text again renders nothing.                 *)
serialize ==
  /\ idle # NoDoc
  /\ cur' = dump(idle) /\ idle' = NoDoc
  /\ trans' = IF cur' = cur THEN trans ELSE Parse(cur', vis, trans)
  /\ UNCHANGED <<kind, file, open, load, vis, seq, save, want, hasty, edits>>

BugTransition ==
  /\ trans # NoDoc
  /\ seq' = [trans EXCEPT !.delete = <<>>] /\ trans' = NoDoc
  /\ UNCHANGED <<kind, file, open, load, vis, cur, idle, save, want, hasty, edits>>

(* The transition is rendered; its lists are new ones and are written to   *)
(* the text in place of those that waited.                                 *)
Transition ==
  /\ trans # NoDoc
  /\ seq' = trans /\ idle' = trans /\ trans' = NoDoc
  /\ UNCHANGED <<kind, file, open, load, vis, cur, save, want, hasty, edits>>

-------------------------------------------------------------------------------
Behind == trans # NoDoc \/ load # "done"

(* An edit of one list, from the list as it is shown or, where the code    *)
(* updates functionally, from what a waiting transition will make of it.   *)
Pending(f) == IF trans = NoDoc THEN seq[f] ELSE trans[f]
Edit(f, shown, pending) ==
  /\ open /\ vis /\ edits < MaxEdits /\ edits' = edits + 1
  /\ seq' = [seq EXCEPT ![f] = shown] /\ seq' # seq
  /\ idle' = seq'
  /\ trans' = IF trans = NoDoc THEN NoDoc ELSE [trans EXCEPT ![f] = pending]
  /\ want' = dump(seq') /\ hasty' = (hasty \/ Behind)
  /\ UNCHANGED <<kind, file, open, load, vis, cur, save>>

(* The buttons above the lists.  A rule may not be in the same list twice, *)
(* a group neither there nor in the profile.                               *)
validateRule(i, f) == kind = "rules" /\ i \notin ToSet(seq[f])

validateGroup(i, f) == kind = "groups" /\ i \notin ToSet(seq[f]) \cup Original

(* The URIs that are pasted are parsed in batches; those of one paste have *)
(* different names, which are not looked up in the list.                   *)
handleParseAsync(names) == kind = "proxies" /\ names # <<>> /\ IsInjective(names)

PrependOne(i) ==
  /\ validateRule(i, "prepend") \/ validateGroup(i, "prepend")
  /\ LET s == <<i>> \o seq.prepend IN Edit("prepend", s, s)

AppendOne(i) ==
  /\ validateRule(i, "append") \/ validateGroup(i, "append")
  /\ LET s == Append(seq.append, i) IN Edit("append", s, s)

AddProxies(names, f) ==
  /\ handleParseAsync(names)
  /\ LET Added(s) == IF f = "prepend" THEN names \o s ELSE s \o names
     IN  Edit(f, Added(seq[f]), Added(Pending(f)))

Without(s, i) == SelectSeq(s, LAMBDA x : x # i)

onDelete(i, f) == LET s == Without(seq[f], i) IN Edit(f, s, s)

(* A click on an item of the profile marks it as deleted, or no more.      *)
ToggleDelete(i) ==
  /\ i \in Original
  /\ LET left == Without(seq.delete, i)
     IN  IF i \in ToSet(seq.delete) THEN Edit("delete", left, left)
         ELSE Edit("delete", Append(seq.delete, i), Append(Pending("delete"), i))

reorder(s, i, j) == InsertAt(RemoveAt(s, i), j, s[i])

(* Of several items of one name rules take the first, the others the last. *)
indexOf(s, x) == CHOOSE i \in DOMAIN s : s[i] = x /\ \A j \in DOMAIN s : s[j] = x => i <= j
lastIndexOf(s, x) == CHOOSE i \in DOMAIN s : s[i] = x /\ \A j \in DOMAIN s : s[j] = x => j <= i

onDragEnd(f, a, b) ==
  /\ a # b /\ {a, b} \subseteq ToSet(seq[f])
  /\ LET at(l, x) == IF kind = "rules" THEN indexOf(l, x) ELSE lastIndexOf(l, x)
         s == seq[f]
         moved == reorder(s, at(s, a), at(s, b))
     IN  Edit(f, moved, moved)

(* The user types into the text.                                           *)
onChange(t) ==
  /\ open /\ ~vis /\ t # cur /\ edits < MaxEdits /\ edits' = edits + 1
  /\ cur' = t /\ want' = t
  /\ hasty' = (hasty \/ Behind \/ idle # NoDoc)
  /\ UNCHANGED <<kind, file, open, load, vis, seq, idle, trans, save>>

(* From the lists to the text and back; a text that is not YAML throws in  *)
(* the effect, which takes the editor down, an empty one leaves the lists. *)
(* Lists that still wait in the idle callback are lost on the way back.    *)
setVisualization ==
  /\ open /\ edits < MaxEdits /\ edits' = edits + 1
  /\ IF ~vis /\ cur.k = "bad"
     THEN open' = FALSE /\ idle' = NoDoc /\ trans' = NoDoc /\ save' = NoSave /\ UNCHANGED <<vis, hasty>>
     ELSE /\ vis' = ~vis /\ trans' = Parse(cur, vis', trans)
          /\ hasty' = (hasty \/ (vis' /\ (cur.k = "empty" \/ idle \notin {NoDoc, cur.doc})))
          /\ UNCHANGED <<open, idle, save>>
  /\ UNCHANGED <<kind, file, load, cur, seq, want>>

-------------------------------------------------------------------------------
BugHandleSave ==
  /\ open /\ ~save.on
  /\ save' = [text |-> cur, want |-> want, on |-> TRUE]
  /\ hasty' = (hasty \/ Behind)
  /\ UNCHANGED <<kind, file, open, load, vis, cur, seq, idle, trans, want, edits>>

(* The groups editor saves the lists when it shows them, the others save   *)
(* the text in either view: what waits in the idle callback is not saved.  *)
handleSave ==
  /\ open /\ ~save.on
  /\ LET lists == kind = "groups" /\ vis
         text == IF lists THEN dump(seq) ELSE cur
     IN  /\ save' = [text |-> text, want |-> want, on |-> TRUE]
         /\ cur' = text
         /\ trans' = IF text = cur THEN trans ELSE Parse(text, vis, trans)
         /\ hasty' = (hasty \/ Behind \/ (~lists /\ idle # NoDoc /\ idle # cur.doc))
  /\ UNCHANGED <<kind, file, open, load, vis, seq, idle, want, edits>>

(* Saved, refused by the validation (the old file is back and the editor   *)
(* closes with what was edited) or failed (the editor stays).              *)
SaveAnswers(r) ==
  /\ save.on /\ save' = NoSave
  /\ file' = IF r = "saved" THEN save.text ELSE file
  /\ IF r = "error" THEN UNCHANGED <<open, idle, trans>>
     ELSE open' = FALSE /\ idle' = NoDoc /\ trans' = NoDoc
  /\ UNCHANGED <<kind, load, vis, cur, seq, want, hasty, edits>>

Next ==
  \/ Open \/ Close \/ fetchContent \/ serialize \/ Transition
  \/ \E i \in Items : PrependOne(i) \/ AppendOne(i) \/ ToggleDelete(i)
  \/ \E s \in {<<i>> : i \in Items} \cup {<<i, j>> : i, j \in Items}, f \in {"prepend", "append"} : AddProxies(s, f)
  \/ \E i \in Items, f \in {"prepend", "append"} : onDelete(i, f)
  \/ \E a, b \in Items, f \in {"prepend", "append"} : onDragEnd(f, a, b)
  \/ \E t \in Typed : onChange(t)
  \/ setVisualization \/ handleSave
  \/ \E r \in {"saved", "refused", "error"} : SaveAnswers(r)

(* The page is idle now and then, and a transition is rendered some time.  *)
Fairness == WF_vars(serialize) /\ WF_vars(Transition)

Spec == Init /\ [][Next]_vars /\ Fairness

-------------------------------------------------------------------------------
(* What is saved is what the user made of the file, if nothing was done    *)
(* before the file was there and the two views were in step.               *)
SavedIsWanted == save.on /\ ~hasty => Same(save.text, save.want)

(* With nothing waiting, lists and text say the same.                      *)
InSync ==
  open /\ vis /\ load = "done" /\ idle = NoDoc /\ trans = NoDoc /\ cur.k # "empty" => cur.doc = seq

(* The two effects do not go on waking each other.                         *)
Settled == idle = NoDoc /\ trans = NoDoc
SyncSettles == <>[]Settled
===============================================================================
