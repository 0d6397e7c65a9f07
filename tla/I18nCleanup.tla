------------------------------ MODULE I18nCleanup ------------------------------
(***************************************************************************)
(* The script that takes the unused texts out of the locale files          *)
(* (src/scripts/cleanup-unused-i18n.mjs): what it takes for used, how it   *)
(* aligns a locale with the baseline, and how it writes the files, any of  *)
(* which may fail half way.  A key is a path; the texts of a locale are a  *)
(* function from paths to the language a text was written in.              *)
(***************************************************************************)
EXTENDS Naturals, Sequences, SequencesExt, FiniteSetsExt

CONSTANTS Groups,       \* localeGroups, in order
          Multi,          \* those with one file for each namespace
          Langs,          \* names of the locales, the baseline first
          Repos,          \* states of the repository: texts and mentions, for each group
          MaxRuns         \* bound on runs of the script

VARIABLES repo, runs,
          disk, bak, index, \* files, their .bak copies, and what each index.ts imports
          options,
          todo,             \* <<group, locale>> pairs still to be processed
          loaded,           \* the locales as they were read
          cache,            \* dynamicKeyCache with fileUsageCache
          writing,          \* what is left to do for the first of todo: "", files, index, done
          updated, files,   \* its new texts, and the files still to be written or removed
          original          \* history: the files when the run began

vars == <<repo, runs, disk, bak, index, options, todo, loaded, cache, writing, updated, files, original>>

NoTexts == [p \in {} |-> ""]
Broken == [p \in {<<>>} |-> "does not parse"]
Baseline == Langs[1]

File(g, p) == IF g \in Multi THEN p[1] ELSE "translation"
Split(g, texts) ==
  [f \in {File(g, p) : p \in DOMAIN texts} |-> Restrict(texts, {p \in DOMAIN texts : File(g, p) = f})]
All == {<<g, l>> : g \in ToSet(Groups), l \in ToSet(Langs)}

Init ==
  /\ repo \in Repos /\ runs = 0
  /\ disk = [gl \in All |-> Split(gl[1], [p \in repo.texts[gl] |-> gl[2]])]
  /\ bak = [gl \in All |-> NoTexts] /\ index = [gl \in All |-> DOMAIN disk[gl]]
  /\ options = [apply |-> FALSE, align |-> FALSE, keepExtra |-> FALSE, backup |-> FALSE]
  /\ todo = <<>> /\ loaded = [gl \in All |-> NoTexts] /\ cache = NoTexts
  /\ writing = "" /\ updated = NoTexts /\ files = {} /\ original = disk

-------------------------------------------------------------------------------
(* What is used.  A mention in a file (of TypeScript, Rust or other) is a  *)
(* call with a key, a template or sum that begins with a prefix, or a key  *)
(* in quotes anywhere else.                                                *)
Namespaces(g) == {p[1] : p \in DOMAIN loaded[<<g, Baseline>>]}
SourceFiles(g, kinds) == {x \in repo.mentions[g] : x.file \in kinds}
Mentions(g, kinds, form) == {x.key : x \in {y \in SourceFiles(g, kinds) : y.form = form}}

addKeyIfValid(g, keys, force) == {k \in keys : force \/ k[1] \in Namespaces(g)}
addTemplatePrefixCandidate(g, prefixes) == {p \in prefixes : p[1] \in Namespaces(g)}

collectUsedKeysFromTsFile(g) == addKeyIfValid(g, Mentions(g, {"ts"}, "call"), TRUE)
collectUsedKeysFromTextFile(g, kinds) == addKeyIfValid(g, Mentions(g, kinds, "quoted"), FALSE)
collectUsedKeysFromRustFile(g) ==
  addKeyIfValid(g, Mentions(g, {"rs"}, "call"), TRUE) \cup collectUsedKeysFromTextFile(g, {"rs"})

collectUsedI18nKeys(g) ==
  [usedKeys |-> collectUsedKeysFromTsFile(g) \cup collectUsedKeysFromRustFile(g)
                \cup collectUsedKeysFromTextFile(g, {"json"}),
   dynamicPrefixes |-> addTemplatePrefixCandidate(g, Mentions(g, {"ts"}, "prefix"))]

getCandidatePrefixes(key) == {SubSeq(key, 1, n) : n \in 1..(Len(key) - 1)}

BugFindKeyInSources(key, g) == FALSE
findKeyInSources(key, g) == \E x \in repo.mentions[g] : x.form \in {"call", "quoted"} /\ x.key = key

isKeyUsed(key, g, usage, known) ==
  \/ key \in usage.usedKeys
  \/ IF key \in DOMAIN known THEN known[key]
     ELSE \/ getCandidatePrefixes(key) \cap usage.dynamicPrefixes # {}
          \/ findKeyInSources(key, g)

-------------------------------------------------------------------------------
(* How a locale is changed.                                                *)
Objects(texts) == UNION {getCandidatePrefixes(p) : p \in DOMAIN texts}

(* A text of the locale for every text of the baseline, else that of the   *)
(* baseline; a group of texts takes the place of a single one, and not the *)
(* other way round.                                                        *)
alignToBaseline(base, locale, keepExtra) ==
  LET Under(q) == \E p \in DOMAIN base : IsStrictPrefix(p, q)
      Extra(q) == /\ q \notin DOMAIN base \cup Objects(base) /\ ~Under(q)
                  /\ keepExtra
      kept == {p \in DOMAIN base : p \notin Objects(locale)}
      own  == {q \in DOMAIN locale : Under(q) \/ Extra(q)}
  IN  [p \in kept \cup own |-> IF p \in DOMAIN locale THEN locale[p] ELSE base[p]]

(* A key is deleted with all that has come to be under it.                 *)
removeKey(texts, keys) ==
  Restrict(texts, {p \in DOMAIN texts : ~\E k \in keys : IsPrefix(k, p)})

diffLocaleKeys(base, locale) ==
  [missing |-> DOMAIN base \ DOMAIN locale, extra |-> DOMAIN locale \ DOMAIN base]

-------------------------------------------------------------------------------
Idle == todo = <<>> \/ writing = "failed"

loadLocales(gl) ==
  [p \in UNION {DOMAIN disk[gl][f] : f \in {n \in DOMAIN disk[gl] : disk[gl][n] # Broken}} |->
     disk[gl][File(gl[1], p)][p]]

Options == [apply : BOOLEAN, align : BOOLEAN, keepExtra : BOOLEAN, backup : BOOLEAN]
Order == FlattenSeq([i \in DOMAIN Groups |-> [j \in DOMAIN Langs |-> <<Groups[i], Langs[j]>>]])

Start(o) ==
  /\ Idle /\ runs < MaxRuns /\ runs' = runs + 1 /\ options' = o
  /\ loaded' = [gl \in All |-> loadLocales(gl)]
  /\ todo' = Order
  /\ cache' = NoTexts /\ writing' = "" /\ original' = disk
  /\ UNCHANGED <<repo, disk, bak, index, updated, files>>

(* The caches are cleared before the first locale of a group.              *)
BugResetUsageCaches(gl) == cache
resetUsageCaches(gl) == IF gl[2] = Baseline THEN NoTexts ELSE cache

processLocale ==
  /\ ~Idle /\ writing = ""
  /\ LET gl == Head(todo)
         usage == collectUsedI18nKeys(gl[1])
         texts == loaded[gl]
         known == resetUsageCaches(gl)
         unused == {p \in DOMAIN texts : ~isKeyUsed(p, gl[1], usage, known)}
     IN  /\ cache' = known @@ [k \in DOMAIN texts \ usage.usedKeys |-> k \notin unused]
         /\ updated' = removeKey(IF options.align
                                 THEN alignToBaseline(loaded[<<gl[1], Baseline>>], texts, options.keepExtra)
                                 ELSE texts, unused)
         /\ IF options.apply
            THEN /\ writing' = "files" /\ UNCHANGED todo
                 /\ files' = DOMAIN Split(gl[1], updated') \cup DOMAIN disk[gl]
                             \cup (IF gl[1] \in Multi THEN {} ELSE {"translation"})
            ELSE todo' = Tail(todo) /\ UNCHANGED <<writing, files>>
  /\ UNCHANGED <<repo, runs, disk, bak, index, options, loaded, original>>

-------------------------------------------------------------------------------
(* How it is written.                                                      *)
New(gl, f) == IF f \in DOMAIN Split(gl[1], updated) THEN Split(gl[1], updated)[f] ELSE NoTexts

backupIfNeeded(gl, f) ==
  bak' = IF options.backup /\ f \in DOMAIN disk[gl]
         THEN [bak EXCEPT ![gl] = (f :> disk[gl][f]) @@ @] ELSE bak

(* The files of the namespaces that are left, and then the removal of the  *)
(* files of those that are not; the others have one file that stays.       *)
WriteFile(f) ==
  /\ writing = "files" /\ f \in files /\ files' = files \ {f}
  /\ LET gl == Head(todo)
         gone == {n \in files : gl[1] \in Multi /\ New(gl, n) = NoTexts}
     IN  /\ f \in gone => files = gone
         /\ backupIfNeeded(gl, f)
         /\ disk' = [disk EXCEPT ![gl] = IF f \in gone THEN Restrict(@, DOMAIN @ \ {f}) ELSE (f :> New(gl, f)) @@ @]
  /\ UNCHANGED <<repo, runs, index, options, todo, loaded, cache, writing, updated, original>>

BugRegenerate ==
  /\ writing = "files" /\ files = {} /\ writing' = "done"
  /\ UNCHANGED index
  /\ UNCHANGED <<repo, runs, disk, bak, options, todo, loaded, cache, updated, files, original>>

regenerateLocaleIndex ==
  /\ writing = "files" /\ files = {} /\ writing' = "done"
  /\ index' = [index EXCEPT ![Head(todo)] = IF Head(todo)[1] \in Multi THEN DOMAIN Split(Head(todo)[1], updated) ELSE @]
  /\ UNCHANGED <<repo, runs, disk, bak, options, todo, loaded, cache, updated, files, original>>

cleanupBackups ==
  /\ writing = "done" /\ writing' = "" /\ todo' = Tail(todo)
  /\ bak' = [bak EXCEPT ![Head(todo)] = NoTexts]
  /\ UNCHANGED <<repo, runs, disk, index, options, loaded, cache, updated, files, original>>

BugWriteFails(f) ==
  /\ writing = "files" /\ f \in files
  /\ bak' = [bak EXCEPT ![Head(todo)] = NoTexts] /\ writing' = "failed"
  /\ disk' = [disk EXCEPT ![Head(todo)] = (f :> Broken) @@ @]
  /\ UNCHANGED <<repo, runs, index, options, todo, loaded, cache, updated, files, original>>

(* A write fails, or the script is stopped in it: the file is cut short,   *)
(* or as it was.                                                           *)
WriteFails(f) ==
  /\ writing = "files" /\ f \in files
  /\ backupIfNeeded(Head(todo), f) /\ writing' = "failed"
  /\ \/ disk' = [disk EXCEPT ![Head(todo)] = (f :> Broken) @@ @]
     \/ UNCHANGED disk
  /\ UNCHANGED <<repo, runs, index, options, todo, loaded, cache, updated, files, original>>

Next ==
  \/ \E o \in Options : Start(o)
  \/ processLocale \/ regenerateLocaleIndex \/ cleanupBackups
  \/ \E f \in files : WriteFile(f) \/ WriteFails(f)

Spec == Init /\ [][Next]_vars

-------------------------------------------------------------------------------
Done == IF options.apply THEN All \ ToSet(todo) ELSE {}
Written(gl) == loadLocales(gl)

(* What the sources look up, by name or under a prefix of a namespace that *)
(* is there, keeps the text it had, in every locale; aligned, as long as   *)
(* the baseline has it as a text, or it is extra and extra texts are kept. *)
Needed(g, p) ==
  \E x \in repo.mentions[g] :
    \/ x.form \in {"call", "quoted"} /\ x.key = p
    \/ x.form = "prefix" /\ IsStrictPrefix(x.key, p) /\ p[1] \in Namespaces(g)
UsedKept ==
  \A gl \in Done : \A p \in DOMAIN loaded[gl] :
    LET base == loaded[<<gl[1], Baseline>>]
    IN  /\ Needed(gl[1], p)
        /\ \/ ~options.align \/ p \in DOMAIN base
           \/ options.keepExtra /\ p \in diffLocaleKeys(base, loaded[gl]).extra \ Objects(base)
        => p \in DOMAIN Written(gl) /\ Written(gl)[p] = loaded[gl][p]

(* Without an alignment nothing but what is needed stays.                  *)
UnusedGone ==
  ~options.align =>
    \A gl \in Done : DOMAIN Written(gl) = {p \in DOMAIN loaded[gl] : Needed(gl[1], p)}

(* Until a locale is written, the files it had are there or in a copy.     *)
BackedUp ==
  (writing # "" /\ options.backup) =>
    \A gl \in All \ Done : \A f \in DOMAIN original[gl] :
      \/ f \in DOMAIN disk[gl] /\ disk[gl][f] = original[gl][f]
      \/ f \in DOMAIN bak[gl] /\ bak[gl][f] = original[gl][f]

(* The index of a written locale imports the files that are there.         *)
IndexFits == \A gl \in Done : gl[1] \in Multi => index[gl] = DOMAIN disk[gl]
===============================================================================
