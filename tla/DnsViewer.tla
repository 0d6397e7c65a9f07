------------------------------- MODULE DnsViewer -------------------------------
(***************************************************************************)
(* The dialog of DNS settings                                              *)
(* (src/src/components/setting/mods/dns-viewer.tsx): one configuration     *)
(* edited as a form or as YAML.  Each rewrites the other: a change of the  *)
(* form the text in an effect and, from the old values, once more by a     *)
(* timer; a change of the text the form 300 ms later, and through the      *)
(* effect the text itself.                                                 *)
(*                                                                         *)
(* A text stands for the configuration it parses to; Bad does not parse.   *)
(* What the form does not know of is dropped when a text is parsed.        *)
(***************************************************************************)
EXTENDS Naturals, Sequences

CONSTANTS Configs, Default,
          MaxSteps    \* bound on what the user does

VARIABLES file,     \* dns_config.yaml, Nil: none
          open, visualization,
          values,   \* the form
          yaml,     \* yamlContent
          behind,   \* the timeout of handleChange: the values of its rendering, or Nil
          parsed,   \* timers of handleYamlChange, oldest first
          reads,    \* running initDnsConfig: what they have read
          save,     \* running onSave: stage, configuration
          want,     \* what the user last entered, loaded or reset to; Nil: not defined
          steps

vars == <<file, open, visualization, values, yaml, behind, parsed, reads, save, want, steps>>

Nil == "none"
Bad == "bad"
NoSave == [stage |-> Nil, config |-> Nil]

Init ==
  /\ file \in Configs \cup {Nil} /\ open = FALSE /\ visualization = TRUE
  /\ values = Default /\ yaml = Default /\ behind = Nil /\ parsed = <<>>
  /\ reads = {} /\ save = NoSave /\ want = Nil /\ steps = 0

Step == steps < MaxSteps /\ steps' = steps + 1

-------------------------------------------------------------------------------
(* updateValuesFromConfig: the form changes, the effect writes the text.   *)
updateValuesFromConfig(c) == values' = c /\ yaml' = c

Open ==
  /\ ~open /\ reads = {} /\ save = NoSave /\ Step
  /\ open' = TRUE /\ reads' = {file} /\ want' = Nil
  /\ UNCHANGED <<file, visualization, values, yaml, behind, parsed, save>>

Close ==
  /\ open /\ open' = FALSE /\ want' = Nil
  /\ UNCHANGED <<file, visualization, values, yaml, behind, parsed, reads, save, steps>>

(* No file, or a failure to read it: the default values.                   *)
initDnsConfig(c) ==
  /\ c \in reads /\ reads' = {}
  /\ \E r \in {IF c = Nil THEN Default ELSE c, Default} :
       /\ updateValuesFromConfig(r)
       /\ want' = IF open /\ parsed = <<>> THEN r ELSE Nil
  /\ behind' = Nil
  /\ UNCHANGED <<file, open, visualization, parsed, save, steps>>

resetToDefaults ==
  /\ open /\ Step
  /\ updateValuesFromConfig(Default)
  /\ want' = IF parsed = <<>> /\ reads = {} THEN Default ELSE Nil
  /\ UNCHANGED <<file, open, visualization, behind, parsed, reads, save>>

(* A change in the form.                                                   *)
handleChange(c) ==
  /\ open /\ visualization /\ c # values /\ Step
  /\ updateValuesFromConfig(c)
  /\ behind' = values
  /\ want' = IF parsed = <<>> /\ reads = {} THEN c ELSE Nil
  /\ UNCHANGED <<file, open, visualization, parsed, reads, save>>

updateYamlFromValues ==
  /\ behind # Nil /\ yaml' = behind /\ behind' = Nil
  /\ UNCHANGED <<file, open, visualization, values, parsed, reads, save, want, steps>>

(* A change of the text; the timeout of the form is long past.             *)
BugHandleYamlChange(t) ==
  /\ open /\ ~visualization /\ behind = Nil /\ t # yaml /\ Step
  /\ yaml' = t
  /\ parsed' = IF t = Bad \/ parsed # <<>> THEN parsed ELSE Append(parsed, t)
  /\ want' = IF reads # {} THEN Nil ELSE IF t = Bad THEN (IF parsed = <<>> THEN Nil ELSE want) ELSE t
  /\ UNCHANGED <<file, open, visualization, values, behind, reads, save>>

handleYamlChange(t) ==
  /\ open /\ ~visualization /\ behind = Nil /\ t # yaml /\ Step
  /\ yaml' = t
  /\ parsed' = IF t = Bad THEN parsed ELSE Append(parsed, t)
  /\ want' = IF reads # {} THEN Nil ELSE IF t = Bad THEN (IF parsed = <<>> THEN Nil ELSE want) ELSE t
  /\ UNCHANGED <<file, open, visualization, values, behind, reads, save>>

(* 300 ms later; with the form changed the text is written again, over     *)
(* what was typed since.                                                   *)
YamlTimer ==
  /\ parsed # <<>>
  /\ updateValuesFromConfig(Head(parsed))
  /\ parsed' = Tail(parsed)
  /\ UNCHANGED <<file, open, visualization, behind, reads, save, want, steps>>

(* The other view: the text is written from the form, or the form from the *)
(* text (this change of the form leaves the text as it is).                *)
BugToggle ==
  /\ open /\ Step
  /\ visualization' = ~visualization
  /\ UNCHANGED <<values, yaml, behind, want>>
  /\ UNCHANGED <<file, open, parsed, reads, save>>

Toggle ==
  /\ open /\ behind = Nil /\ Step
  /\ visualization' = ~visualization
  /\ IF visualization THEN yaml' = values /\ UNCHANGED <<values, want>>
     ELSE /\ UNCHANGED yaml
          /\ IF yaml = Bad THEN UNCHANGED values /\ want' = Nil
             ELSE values' = yaml /\ want' = IF parsed = <<>> THEN want ELSE Nil
  /\ UNCHANGED <<file, open, behind, parsed, reads, save>>

-------------------------------------------------------------------------------
(* Save: the file is written, then validated; a text that does not parse   *)
(* is an error before that.                                                *)
BugOnSave ==
  /\ open /\ save = NoSave /\ yaml # Bad /\ Step
  /\ save' = [stage |-> "write", config |-> yaml]
  /\ UNCHANGED <<file, open, visualization, values, yaml, behind, parsed, reads, want>>

onSave ==
  /\ open /\ save = NoSave /\ (visualization \/ yaml # Bad) /\ Step
  /\ save' = [stage |-> "write", config |-> IF visualization THEN values ELSE yaml]
  /\ UNCHANGED <<file, open, visualization, values, yaml, behind, parsed, reads, want>>

SaveDnsConfig ==
  /\ save.stage = "write"
  /\ file' = save.config /\ save' = [save EXCEPT !.stage = "validate"]
  /\ UNCHANGED <<open, visualization, values, yaml, behind, parsed, reads, want, steps>>

(* Valid, and applied when DNS is on: the dialog closes.  Otherwise it     *)
(* stays, and the file as written.                                         *)
SaveEnds(ok) ==
  /\ save.stage = "validate" /\ save' = NoSave
  /\ open' = (open /\ ~ok)
  /\ want' = IF ok THEN Nil ELSE want
  /\ UNCHANGED <<file, visualization, values, yaml, behind, parsed, reads, steps>>

SaveFails ==
  /\ save.stage = "write" /\ save' = NoSave
  /\ UNCHANGED <<file, open, visualization, values, yaml, behind, parsed, reads, want, steps>>

Next ==
  \/ Open \/ Close \/ resetToDefaults \/ updateYamlFromValues \/ YamlTimer \/ Toggle
  \/ onSave \/ SaveDnsConfig \/ SaveFails
  \/ \E ok \in BOOLEAN : SaveEnds(ok)
  \/ \E c \in Configs \cup {Nil} : initDnsConfig(c)
  \/ \E c \in Configs : handleChange(c)
  \/ \E t \in Configs \cup {Bad} : handleYamlChange(t)

Spec == Init /\ [][Next]_vars

-------------------------------------------------------------------------------
(* Once the timers have fired, the view that is open holds what was last   *)
(* entered in either view, however often the two have rewritten each other. *)
LastEntryKept ==
  parsed = <<>> /\ want # Nil =>
    IF visualization THEN values = want ELSE behind # Nil \/ yaml = want

(* What a save writes is what was last entered, unless a text is still     *)
(* waiting to reach the form.                                              *)
SaveBegins == save = NoSave /\ save' # NoSave
SavesLast == SaveBegins /\ want # Nil /\ parsed = <<>> => save'.config = want
SavesLastEntry == [][SavesLast]_vars
===============================================================================
