------------------------------- MODULE Prebuild --------------------------------
(***************************************************************************)
(* The script that fetches what a build needs (src/scripts/prebuild.mjs):  *)
(* the core, the service, data files and local scripts, one task after the *)
(* other, each tried again when it fails, with what is there already left  *)
(* alone and the versions found remembered for an hour.  A run may be      *)
(* stopped anywhere and started again.                                     *)
(***************************************************************************)
EXTENDS Naturals, Sequences

CONSTANTS Platforms,
          Sidecars, Resources, Binaries, Scripts, \* names of the files, Binaries a sequence
          retry, MaxReleases      \* tries of a task; bound on releases and changes of the scripts

VARIABLES platform,
          released, pinned,       \* latest release of the core; tag of the service the script asks for
          lookup,                 \* the script in scripts/, a version of it
          disk, temp,             \* files: where they belong, and the archives of sidecars
          versions, hashes,       \* .version_cache.json, what is read of .hash_cache.json
          run, ended,             \* the run; and how the last one did: no, ok, error, exit
          cut                     \* history: files a run that ended in the middle of them was to replace

remote == <<platform, released, pinned, lookup>>
vars == <<remote, disk, temp, versions, hashes, run, ended, cut>>

Bins == {Binaries[i] : i \in DOMAIN Binaries}
Names == Sidecars \cup Resources \cup Bins \cup Scripts
File(kind, v) == [kind |-> kind, v |-> v]
None == File("none", 0)
exists(name) == disk[name].kind # "none"

(* Who has a task; those of the data files and of the sidecars differ in   *)
(* nothing else.  The tasks that set permissions or fetch plugins of the   *)
(* installer are left out.                                                 *)
tasks ==
  <<[do |-> "sidecar", names |-> Sidecars, on |-> Platforms],
    [do |-> "service", names |-> {"service"}, on |-> Platforms],
    [do |-> "resource", names |-> Resources, on |-> Platforms],
    [do |-> "script", names |-> Scripts, on |-> Platforms \cap {"darwin"}]>>

Due(task) == IF platform \in task.on /\ task.names # {} THEN <<task>> ELSE <<>>

NoRun == [FORCE |-> FALSE, queue |-> <<>>, tries |-> 0, step |-> "", version |-> 0, copied |-> 0]

Init ==
  /\ platform \in Platforms /\ released = 1 /\ pinned = 1 /\ lookup = 1
  /\ disk = [n \in Names |-> None] /\ temp = [n \in Sidecars |-> None]
  /\ versions = [k \in {"META_VERSION", "SERVICE_VERSION"} |-> 0] /\ hashes = [n \in Scripts |-> None]
  /\ run = NoRun /\ ended = "no" /\ cut = {}

Runs == run # NoRun
Task == run.queue[1]
Is(do) == Runs /\ Task.do = do
At(do, step) == Is(do) /\ run.step = step
name == CHOOSE n \in Task.names : TRUE

(* The names of one task are done one after the other.                     *)
Rest == IF Task.names = {name} THEN Tail(run.queue)
        ELSE <<[Task EXCEPT !.names = @ \ {name}]>> \o Tail(run.queue)

Begin(q, n) == run' = [run EXCEPT !.queue = q, !.tries = n, !.step = "start", !.version = 0, !.copied = 0]
Goes(step) == run' = [run EXCEPT !.step = step] /\ UNCHANGED ended

runTask(q) == IF q = <<>> THEN run' = NoRun /\ ended' = "ok" ELSE Begin(q, 0) /\ UNCHANGED ended

StartRun(f) ==
  /\ ~Runs /\ ended' = "no"
  /\ run' = [NoRun EXCEPT !.FORCE = f, !.step = "start",
                          !.queue = Due(tasks[1]) \o Due(tasks[2]) \o Due(tasks[3]) \o Due(tasks[4])]
  /\ UNCHANGED <<remote, disk, temp, versions, hashes, cut>>

Throws ==
  IF run.tries + 1 < retry THEN Begin(run.queue, run.tries + 1) /\ UNCHANGED ended
  ELSE run' = NoRun /\ ended' = "error"

-------------------------------------------------------------------------------
(* The version: remembered, or asked for; without one the script exits.    *)
KeyOf == IF Is("service") THEN "SERVICE_VERSION" ELSE "META_VERSION"
Latest == IF Is("service") THEN pinned ELSE released
getCachedVersion == IF run.FORCE THEN 0 ELSE versions[KeyOf]

BugBundleExists == \E n \in Bins : exists(n)
BundleExists == \A n \in Bins : exists(n)

Versioned(v) == run' = [run EXCEPT !.step = "resolve", !.version = v] /\ UNCHANGED ended

getLatestVersion ==
  /\ At("sidecar", "start") \/ (At("service", "start") /\ (run.FORCE \/ ~BundleExists))
  /\ IF getCachedVersion # 0 THEN Versioned(getCachedVersion) /\ UNCHANGED versions
     ELSE \/ Versioned(Latest) /\ versions' = [versions EXCEPT ![KeyOf] = Latest]
          \/ run' = NoRun /\ ended' = "exit" /\ UNCHANGED versions
  /\ UNCHANGED <<remote, disk, temp, hashes, cut>>

Skip ==
  /\ ~run.FORCE
  /\ \/ At("sidecar", "resolve") /\ exists(name)
     \/ At("service", "start") /\ BundleExists
     \/ At("resource", "start") /\ exists(name)
  /\ runTask(Rest) /\ UNCHANGED <<remote, disk, temp, versions, hashes, cut>>

-------------------------------------------------------------------------------
(* A download that is refused, or is no archive, leaves what it got where  *)
(* the file was to be.                                                     *)
downloadFile(v) == {File("whole", v), File("body", 0), None}

(* The archive of a sidecar; one left by a stopped run is taken.           *)
FetchSidecar ==
  /\ At("sidecar", "resolve") /\ (run.FORCE \/ ~exists(name))
  /\ \/ temp[name].v = run.version /\ temp[name].kind # "none" /\ Goes("unpack") /\ UNCHANGED <<temp, disk>>
     \/ /\ temp[name].v # run.version \/ temp[name].kind = "none"
        /\ \E got \in downloadFile(run.version) :
             IF got.kind = "whole"
             THEN temp' = [temp EXCEPT ![name] = got] /\ Goes("unpack") /\ UNCHANGED disk
             ELSE temp' = [temp EXCEPT ![name] = None] /\ disk' = [disk EXCEPT ![name] = None] /\ Throws
  /\ UNCHANGED <<remote, versions, hashes, cut>>

(* A .gz is unpacked into its place, the file of a .zip is moved there.    *)
Unpack ==
  /\ At("sidecar", "unpack") /\ platform # "win32"
  /\ disk' = [disk EXCEPT ![name] = File("partial", run.version)] /\ Goes("unpacked")
  /\ UNCHANGED <<remote, temp, versions, hashes, cut>>

Unpacked ==
  /\ At("sidecar", "unpacked") \/ (At("sidecar", "unpack") /\ platform = "win32")
  /\ temp[name].kind = "whole" /\ disk' = [disk EXCEPT ![name] = temp[name]]
  /\ temp' = [temp EXCEPT ![name] = None] /\ cut' = cut \ {name}
  /\ runTask(Rest) /\ UNCHANGED <<remote, versions, hashes>>

BugUnpackFails ==
  /\ At("sidecar", "unpacked") \/ (At("sidecar", "unpack") /\ platform = "win32")
  /\ temp' = [temp EXCEPT ![name] = None]
  /\ Throws /\ UNCHANGED <<remote, disk, versions, hashes, cut>>

UnpackFails ==
  /\ At("sidecar", "unpacked") \/ (At("sidecar", "unpack") /\ platform = "win32")
  /\ disk' = [disk EXCEPT ![name] = None] /\ temp' = [temp EXCEPT ![name] = None]
  /\ Throws /\ UNCHANGED <<remote, versions, hashes, cut>>

-------------------------------------------------------------------------------
(* The service: one archive, whose files are copied one by one.            *)
resolveServiceBundle ==
  /\ At("service", "resolve")
  /\ \E got \in downloadFile(run.version) :
       IF got.kind = "whole" THEN Goes("copy") ELSE Throws
  /\ UNCHANGED <<remote, disk, temp, versions, hashes, cut>>

CopyBinary ==
  /\ At("service", "copy")
  /\ LET n == Binaries[run.copied + 1]
     IN  /\ disk' = [disk EXCEPT ![n] = File("whole", run.version)] /\ cut' = cut \ {n}
  /\ IF run.copied + 1 = Len(Binaries) THEN runTask(Rest)
     ELSE run' = [run EXCEPT !.copied = @ + 1] /\ UNCHANGED ended
  /\ UNCHANGED <<remote, temp, versions, hashes>>

CopyFails ==
  /\ At("service", "copy") /\ Throws
  /\ cut' = IF \A n \in Bins : exists(n) THEN cut \cup Bins ELSE cut
  /\ UNCHANGED <<remote, disk, temp, versions, hashes>>

-------------------------------------------------------------------------------
(* A data file is downloaded into its place.                               *)
resolveResource ==
  /\ Is("resource") /\ (run.FORCE \/ ~exists(name))
  /\ \E got \in downloadFile(released) :
       IF got.kind = "whole"
       THEN /\ disk' = [disk EXCEPT ![name] = got]
            /\ cut' = cut \ {name} /\ runTask(Rest)
       ELSE /\ disk' = IF got = None THEN disk ELSE [disk EXCEPT ![name] = got]
            /\ Throws /\ UNCHANGED cut
  /\ UNCHANGED <<remote, temp, versions, hashes>>

BugHasFileChanged(n) == run.FORCE \/ ~exists(n) \/ hashes[n] # disk[n]
hasFileChanged(n) ==
  run.FORCE \/ ~exists(n) \/ ~(hashes[n] = File("whole", lookup) /\ hashes[n] = disk[n])

CopyScript ==
  /\ Is("script")
  /\ IF hasFileChanged(name)
     THEN /\ disk' = [disk EXCEPT ![name] = File("whole", lookup)]
          /\ hashes' = [hashes EXCEPT ![name] = File("whole", lookup)] /\ cut' = cut \ {name}
     ELSE UNCHANGED <<disk, hashes, cut>>
  /\ runTask(Rest) /\ UNCHANGED <<remote, temp, versions>>

-------------------------------------------------------------------------------
(* Stopped: what was being written stays as far as it came.                *)
Stopped ==
  /\ Runs /\ run' = NoRun /\ ended' = "no"
  /\ \/ UNCHANGED <<disk, temp>>
     \/ At("service", "copy") /\ UNCHANGED temp
        /\ disk' = [disk EXCEPT ![Binaries[run.copied + 1]] = File("partial", run.version)]
     \/ Is("resource") /\ (run.FORCE \/ ~exists(name))
        /\ disk' = [disk EXCEPT ![name] = File("partial", released)] /\ UNCHANGED temp
     \/ At("sidecar", "resolve") /\ temp' = [temp EXCEPT ![name] = File("partial", run.version)] /\ UNCHANGED disk
  /\ cut' = cut \cup {n \in Names : disk'[n].kind = "partial"}
                \cup (IF At("service", "copy") /\ \A n \in Bins : disk'[n].kind # "none" THEN Bins ELSE {})
  /\ UNCHANGED <<remote, versions, hashes>>

HourPasses ==
  /\ ~Runs /\ \E k \in DOMAIN versions : versions[k] # 0 /\ versions' = [versions EXCEPT ![k] = 0]
  /\ UNCHANGED <<remote, disk, temp, hashes, run, ended, cut>>

Release ==
  /\ ~Runs /\ released + pinned + lookup < MaxReleases + 3 /\ ended' = "no"
  /\ \/ released' = released + 1 /\ UNCHANGED <<pinned, lookup>>
     \/ pinned' = pinned + 1 /\ UNCHANGED <<released, lookup>>
     \/ lookup' = lookup + 1 /\ UNCHANGED <<released, pinned>>
  /\ UNCHANGED <<platform, disk, temp, versions, hashes, run, cut>>

Next ==
  \/ \E f \in BOOLEAN : StartRun(f)
  \/ getLatestVersion \/ Skip \/ FetchSidecar \/ Unpack \/ Unpacked \/ UnpackFails
  \/ resolveServiceBundle \/ CopyBinary \/ CopyFails
  \/ resolveResource \/ CopyScript \/ Stopped \/ HourPasses \/ Release

Spec == Init /\ [][Next]_vars

-------------------------------------------------------------------------------
(* After a build script that ended well the core is a whole one, unless a  *)
(* stopped run left it half unpacked.                                      *)
SidecarsWhole == ended = "ok" => \A n \in Sidecars : disk[n].kind = "whole" \/ n \in cut

(* and the files of the service come from one release, unless a run that   *)
(* was to replace them ended among them;                                   *)
OneService ==
  ended = "ok" /\ cut \cap Bins = {} =>
    \A m, n \in Bins : disk[m].kind = "whole" /\ disk[m] = disk[n]

(* and the scripts are those of the sources.                               *)
ScriptsCurrent == ended = "ok" /\ platform = "darwin" => \A n \in Scripts : disk[n] = File("whole", lookup)
===============================================================================
