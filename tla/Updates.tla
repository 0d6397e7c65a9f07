------------------------------- MODULE Updates ---------------------------------
(***************************************************************************)
(* How a release reaches its users: the script that writes the update      *)
(* files of a channel (src/scripts/updater.mjs, and the same for another   *)
(* installer in updater-fixed-webview2.mjs), the query that finds an       *)
(* update, and the dialog that installs it.                                *)
(*                                                                         *)
(* A version is its place in Versions, which lists them from the oldest to *)
(* the newest; what the code makes of two of them is compareVersions.      *)
(* check and downloadAndInstall are of the updater plugin: external.       *)
(***************************************************************************)
EXTENDS Integers, Sequences, SequencesExt

CONSTANTS Versions,            \* sequence of [main |-> numbers, pre |-> tokens]
          Viewers,             \* mounted dialogs
          MaxReleases, MaxRuns \* bounds

VARIABLES
  releases,                    \* versions in the order of their release, with the assets of each
  update,                      \* the files of the updater's release
  run, runs, ended,            \* the script; what became of the last run
  running, installed,          \* versions of the application and on disk
  updateInfo, updateState,     \* the query; the state shared by the dialogs
  locks, downloads             \* locks of the dialogs; downloads, by dialog

script == <<releases, update, run, runs, ended>>
app == <<running, installed, updateInfo, updateState, locks, downloads>>
vars == <<script, app>>

Assets == {"setup.exe", "setup.exe.sig", "aarch64.app.tar.gz", "aarch64.app.tar.gz.sig"}
Files == <<"update.json", "update-proxy.json">>

-------------------------------------------------------------------------------
(* A token of a pre-release is a pair: numbers, then words; a number is    *)
(* before a word.  compareVersionParts is 1, 0 or -1.                      *)
Less(a, b) == a[1] < b[1] \/ (a[1] = b[1] /\ a[2] < b[2])
At(s, i) == IF i \in DOMAIN s THEN s[i] ELSE 0

FirstOther(n, Same(_)) == CHOOSE i \in 1..(n + 1) :
  (i = n + 1 \/ ~Same(i)) /\ \A j \in 1..(i - 1) : Same(j)

compareMain(a, b) ==
  LET i == FirstOther(IF Len(a) > Len(b) THEN Len(a) ELSE Len(b), LAMBDA k : At(a, k) = At(b, k))
  IN  IF At(a, i) = At(b, i) THEN 0 ELSE IF At(a, i) > At(b, i) THEN 1 ELSE -1

comparePre(a, b) ==
  LET i == FirstOther(IF Len(a) < Len(b) THEN Len(a) ELSE Len(b), LAMBDA k : a[k] = b[k])
  IN  IF i \in DOMAIN a /\ i \in DOMAIN b THEN (IF Less(a[i], b[i]) THEN -1 ELSE 1)
      ELSE IF i \in DOMAIN a THEN 1 ELSE IF i \in DOMAIN b THEN -1 ELSE 0

(* a version without a pre-release has an empty one                        *)
BugCompareVersionParts(a, b) ==
  IF compareMain(a.main, b.main) # 0 THEN compareMain(a.main, b.main) ELSE comparePre(a.pre, b.pre)

compareVersionParts(a, b) ==
  IF compareMain(a.main, b.main) # 0 THEN compareMain(a.main, b.main)
  ELSE IF a.pre = <<>> \/ b.pre = <<>>
       THEN (IF a.pre = b.pre THEN 0 ELSE IF a.pre = <<>> THEN 1 ELSE -1)
       ELSE comparePre(a.pre, b.pre)

compareVersions(v, w) == compareVersionParts(Versions[v], Versions[w])

-------------------------------------------------------------------------------
(* An entry of a platform: the asset it names, and the signature it got.   *)
Entry(u, s) == [url |-> u, signature |-> s]
Absent == [tag |-> 0, platforms |-> <<>>]
Platforms == {"windows", "darwin-aarch64", "linux-x86"}
UrlOf == ("windows" :> "setup.exe") @@ ("darwin-aarch64" :> "aarch64.app.tar.gz")
           @@ ("linux-x86" :> "aarch64.app.tar.gz")
SignatureOf == ("setup.exe" :> "setup.exe.sig") @@ ("aarch64.app.tar.gz" :> "aarch64.app.tar.gz.sig")
Signatures == {SignatureOf[u] : u \in DOMAIN SignatureOf}
NoRun == [step |-> "", tag |-> 0, fetching |-> {}, platforms |-> <<>>, file |-> 0, old |-> {}]

Init ==
  /\ releases = <<>> /\ update = [f \in ToSet(Files) |-> Absent]
  /\ run = NoRun /\ runs = 0 /\ ended = "no"
  /\ running \in DOMAIN Versions /\ installed = running
  /\ updateInfo = 0 /\ updateState = FALSE /\ locks = {} /\ downloads = {}

Release ==
  /\ Len(releases) < MaxReleases
  /\ \E v \in DOMAIN Versions, as \in {Assets, {"setup.exe", "aarch64.app.tar.gz.sig"}} :
       /\ \A i \in DOMAIN releases : releases[i].v # v
       /\ releases' = Append(releases, [v |-> v, assets |-> as])
  /\ UNCHANGED <<update, run, runs, ended, app>>

(* The newest release; its assets are gone through at once, the signatures *)
(* are fetched.                                                            *)
processRelease ==
  /\ run = NoRun /\ runs < MaxRuns /\ releases # <<>> /\ ended' = "no" /\ runs' = runs + 1
  /\ LET r == releases[Len(releases)]
     IN  run' = [NoRun EXCEPT !.step = "assets", !.tag = r.v,
                              !.fetching = r.assets \cap Signatures,
                              !.platforms = [p \in Platforms |->
                                Entry(IF UrlOf[p] \in r.assets THEN UrlOf[p] ELSE "", "")]]
  /\ UNCHANGED <<releases, update, app>>

(* The signature of an asset: its own, the text of an error page, or none  *)
(* when the request fails.  linux-x86 gets the asset's address for it.     *)
getSignature(a) ==
  /\ run.step = "assets" /\ a \in run.fetching
  /\ \E sig \in {a, "page", ""} :
       run' = [run EXCEPT !.fetching = @ \ {a},
                          !.platforms = [p \in Platforms |->
                            IF sig = "" \/ a # SignatureOf[UrlOf[p]] THEN @[p]
                            ELSE IF p = "linux-x86" THEN [@[p] EXCEPT !.url = a]
                            ELSE [@[p] EXCEPT !.signature = sig]]]
  /\ UNCHANGED <<releases, update, runs, ended, app>>

(* Platforms without an address are dropped, the release of the updater is *)
(* found or made.                                                          *)
FindRelease ==
  /\ run.step = "assets" /\ run.fetching = {}
  /\ LET ps == {p \in Platforms : run.platforms[p].url # ""}
     IN  run' = [run EXCEPT !.step = "delete", !.file = 1,
                            !.platforms = [p \in ps |-> run.platforms[p]],
                            !.old = {f \in ToSet(Files) : update[f] # Absent}]
  /\ UNCHANGED <<releases, update, runs, ended, app>>

File == Files[run.file]
NextFile(step) ==
  IF run.file < Len(Files) THEN run' = [run EXCEPT !.file = @ + 1]
  ELSE run' = [run EXCEPT !.step = step, !.file = 1]

DeleteOld ==
  /\ run.step = "delete"
  /\ \/ update' = [update EXCEPT ![File] = IF File \in run.old THEN Absent ELSE @]
     \/ File # "update.json" /\ UNCHANGED update   \* it fails, which does not end the run
  /\ NextFile("upload") /\ UNCHANGED <<releases, runs, ended, app>>

(* an upload that fails is passed over                                     *)
BugUpload ==
  /\ run.step = "upload"
  /\ \/ update' = [update EXCEPT ![File] = IF @ = Absent THEN [tag |-> run.tag, platforms |-> run.platforms] ELSE @]
     \/ UNCHANGED update
  /\ IF run.file < Len(Files) THEN NextFile("") /\ UNCHANGED ended ELSE run' = NoRun /\ ended' = "ok"
  /\ UNCHANGED <<releases, runs, app>>

(* A file of that name must not be there.                                  *)
Upload ==
  /\ run.step = "upload" /\ update[File] = Absent
  /\ update' = [update EXCEPT ![File] = [tag |-> run.tag, platforms |-> run.platforms]]
  /\ IF run.file < Len(Files) THEN NextFile("") /\ UNCHANGED ended ELSE run' = NoRun /\ ended' = "ok"
  /\ UNCHANGED <<releases, runs, app>>

(* A request is refused, or the run is stopped: the rest is not done.      *)
RunFails ==
  /\ run # NoRun /\ run' = NoRun /\ ended' = "error"
  /\ UNCHANGED <<releases, update, runs, app>>

-------------------------------------------------------------------------------
(* checkUpdateSafe, by the query's timer or a button: what check offers is *)
(* taken when it is newer than the application that runs.                  *)
checkUpdateSafe ==
  /\ \E f \in ToSet(Files) :
       /\ update[f] # Absent
       /\ updateInfo' = IF compareVersions(update[f].tag, running) > 0 THEN update[f].tag ELSE 0
  /\ updateInfo' # updateInfo
  /\ UNCHANGED <<script, running, installed, updateState, locks, downloads>>

(* the lock of the dialog is enough                                        *)
BugOnUpdate(d) ==
  /\ updateInfo # 0 /\ d \notin locks
  /\ updateState' = TRUE /\ locks' = locks \cup {d}
  /\ downloads' = downloads \cup {[by |-> d, v |-> updateInfo]}
  /\ UNCHANGED <<script, running, installed, updateInfo>>

onUpdate(d) ==
  /\ updateInfo # 0 /\ d \notin locks /\ ~updateState
  /\ updateState' = TRUE /\ locks' = locks \cup {d}
  /\ downloads' = downloads \cup {[by |-> d, v |-> updateInfo]}
  /\ UNCHANGED <<script, running, installed, updateInfo>>

BugDone(x, ok) == downloads' = downloads \ {x} /\ locks' = locks \ {x.by} /\ updateState' = (updateState /\ ~ok)
Done(x, ok) == downloads' = downloads \ {x} /\ locks' = locks \ {x.by} /\ updateState' = FALSE

(* Installed, and relaunched unless that fails.                            *)
Install(x) ==
  /\ x \in downloads /\ installed' = x.v
  /\ \/ /\ running' = x.v /\ updateInfo' = 0
        /\ updateState' = FALSE /\ locks' = {} /\ downloads' = {}
     \/ Done(x, TRUE) /\ UNCHANGED <<running, updateInfo>>
  /\ UNCHANGED script

(* No connection, or a signature that does not fit.                        *)
InstallFails(x) ==
  /\ x \in downloads /\ Done(x, FALSE)
  /\ UNCHANGED <<script, running, installed, updateInfo>>

(* A dialog is mounted anew; the download goes on.                         *)
Remount(d) ==
  /\ d \in locks /\ locks' = locks \ {d}
  /\ UNCHANGED <<script, running, installed, updateInfo, updateState, downloads>>

Next ==
  \/ Release \/ processRelease \/ FindRelease \/ DeleteOld \/ Upload \/ RunFails
  \/ \E a \in Signatures : getSignature(a)
  \/ checkUpdateSafe
  \/ \E d \in Viewers : onUpdate(d) \/ Remount(d)
  \/ \E x \in downloads : Install(x) \/ InstallFails(x)

(* A download ends, one way or the other.                                  *)
Goes == \E x \in downloads : Install(x) \/ InstallFails(x)
Fairness == WF_vars(Goes)
Spec == Init /\ [][Next]_vars /\ Fairness

-------------------------------------------------------------------------------
(* What is offered is newer than what runs, whichever version was released *)
(* after which.                                                            *)
OfferIsNewer == updateInfo # 0 => updateInfo > running

(* A run that ended well has left both files of one release, which the     *)
(* files were never mixed of.                                              *)
BothPublished == ended = "ok" => update[Files[1]] # Absent /\ update[Files[1]] = update[Files[2]]

(* Only one download runs, whichever dialogs come and go;                  *)
OneDownload == \A x, y \in downloads : x = y

(* and when it is over the dialogs can be used again.                      *)
Downloading == updateState
UpdateEnds == Downloading ~> ~Downloading
===============================================================================
