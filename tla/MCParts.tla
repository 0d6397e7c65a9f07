-------------------------------- MODULE MCParts --------------------------------
(***************************************************************************)
(* The modules of the frontend, of its scripts and of smaller parts of the *)
(* backend, on small instances in one run.  Each is a part of its own: the *)
(* parts share nothing that one of them changes behind the other's back    *)
(* and that the other does not model itself.  A behaviour is a behaviour   *)
(* of one part, chosen by Init; its variables are v1, v2, ... in the order *)
(* the module declares them, and a property says of each part what its     *)
(* module states.  Where a liveness property is about one of several       *)
(* things (nodes, settings, notices), watch says which of them.            *)
(***************************************************************************)
EXTENDS Naturals, Sequences, TLC, TLAPS

VARIABLES part, watch,
          v1, v2, v3, v4, v5, v6, v7, v8, v9, v10, v11, v12, v13, v14, v15,
          v16, v17, v18, v19, v20, v21, v22

\* The variables a part with n of them leaves alone.
U21 == v22
U20 == <<v21, U21>>
U19 == <<v20, U20>>
U18 == <<v19, U19>>
U17 == <<v18, U18>>
U16 == <<v17, U17>>
U15 == <<v16, U16>>
U14 == <<v15, U15>>
U13 == <<v14, U14>>
U12 == <<v13, U13>>
U11 == <<v12, U12>>
U10 == <<v11, U11>>
U9 == <<v10, U10>>
U8 == <<v9, U9>>
U7 == <<v8, U8>>
U6 == <<v7, U7>>
U5 == <<v6, U6>>
U4 == <<v5, U5>>
U3 == <<v4, U4>>
U2 == <<v3, U3>>
U1 == <<v2, U2>>
U0 == <<v1, U1>>

\* They have no meaning there.
Zero21 == v22 = 0
Zero20 == v21 = 0 /\ Zero21
Zero19 == v20 = 0 /\ Zero20
Zero18 == v19 = 0 /\ Zero19
Zero17 == v18 = 0 /\ Zero18
Zero16 == v17 = 0 /\ Zero17
Zero15 == v16 = 0 /\ Zero16
Zero14 == v15 = 0 /\ Zero15
Zero13 == v14 = 0 /\ Zero14
Zero12 == v13 = 0 /\ Zero13
Zero11 == v12 = 0 /\ Zero12
Zero10 == v11 = 0 /\ Zero11
Zero9 == v10 = 0 /\ Zero10
Zero8 == v9 = 0 /\ Zero9
Zero7 == v8 = 0 /\ Zero8
Zero6 == v7 = 0 /\ Zero7
Zero5 == v6 = 0 /\ Zero6
Zero4 == v5 = 0 /\ Zero5
Zero3 == v4 = 0 /\ Zero4
Zero2 == v3 = 0 /\ Zero3
Zero1 == v2 = 0 /\ Zero2

vars == <<part, watch, U0>>

-------------------------------------------------------------------------------
(* Data of the instances.                                                  *)
LogLevels == [info |-> {"i", "e"}, error |-> {"e"}, silent |-> {}]
CardGroups == [p \in {"P", "Q"} |-> IF p = "P" THEN <<"g", "h">> ELSE <<"h">>]
ProxyData == {[groups |-> <<"g", "h">>, hidden |-> {}],
              [groups |-> <<"g", "h">>, hidden |-> {"h"}], [groups |-> <<>>, hidden |-> {}]}
HeadPatches == {<<"open", TRUE>>, <<"sort", 1>>}
SeqDocs == {[prepend |-> <<"a", "o">>, append |-> <<>>, delete |-> <<"o">>]}
ProxyPatches == {[s \in {"proxy"} |-> FALSE], [s \in {"pac"} |-> TRUE]}
ProxyStored == {[s \in {"proxy", "guard"} |-> TRUE]}
OtherPatches == {[s \in {one} |-> TRUE] : one \in {"cards", "hotkey", "tun"}}
MenuOrders == {<<>>, <<"logs", "gone", "logs">>, <<"rules", "home">>}
NoticeExtras == {<<>>, <<"number">>, <<"record", "error">>, <<"empty", "record", "error">>,
                 <<"number", "number">>, <<"error", "record", "number">>, <<"record", "record">>}

\* Versions of the application, oldest first: 1.0-rc.1, 1.0.0-rc.1.2, 1.0.0, 1.1-1.
UpdateVersions == <<[main |-> <<1, 0>>, pre |-> <<<<1, 1>>>>],
                    [main |-> <<1, 0, 0>>, pre |-> <<<<1, 1>>, <<0, 2>>>>],
                    [main |-> <<1, 0, 0>>, pre |-> <<>>],
                    [main |-> <<1, 1>>, pre |-> <<<<0, 1>>>>]>>

\* Repositories: texts of the languages, and what the sources mention.
LangTexts(l, t1, t2) == IF l = "en" THEN t1 ELSE t2
A == <<"n", "a">>
AX == <<"n", "a", "x">>
B == <<"m", "b">>
C == <<"m", "c">>
Mention(f, form, k) == [file |-> f, form |-> form, key |-> k]
I18nRepos ==
  {[texts |-> [gl \in {"front", "back"} \X {"en", "zh"} |->
                 IF gl[1] = "back" THEN {A, B} ELSE LangTexts(gl[2], t1, t2)],
    mentions |-> [g \in {"front", "back"} |->
                    IF g = "front" THEN m1 ELSE {Mention("rs", "call", A), Mention("rs", "quoted", C)}]] :
     t1 \in {{A, B}, {AX, B, C}}, t2 \in {{A, C}, {AX, B}},
     m1 \in {{Mention("ts", "prefix", <<"n">>)}, {Mention("ts", "call", AX), Mention("ts", "quoted", B)}}}

-------------------------------------------------------------------------------
WS == INSTANCE WsSubscription WITH
  Comp <- {"a", "b"}, Vals <- {"x", "y"}, Entries <- {"e1"},
  Slots <- {"s1", "s2"}, kind <- v1, mounted <- v2, shared <- v3, entry <- v4,
  sock <- v5, thr <- v6, cache <- v7, sent <- v8, missed <- v9
Monitor == INSTANCE ConnectionMonitor WITH
  Conns <- {1, 2}, MAX_CLOSED_CONNS_NUM <- 2, MaxGone <- 3, started <- v1,
  socket <- v2, connecting <- v3, reconnectTimer <- v4, closing <- v5,
  flushTimer <- v6, pending <- v7, recent <- v8, page <- v9, active <- v10,
  closed <- v11, summary <- v12, gone <- v13
Burst == INSTANCE ConnectionMonitor WITH
  Conns <- {1, 2}, MAX_CLOSED_CONNS_NUM <- 1, MaxGone <- 2, started <- v1,
  socket <- v2, connecting <- v3, reconnectTimer <- v4, closing <- v5,
  flushTimer <- v6, pending <- v7, recent <- v8, page <- v9, active <- v10,
  closed <- v11, summary <- v12, gone <- v13
Logs == INSTANCE LogData WITH
  Types <- {"i", "e"}, Levels <- LogLevels, MAX_LOG_NUM <- 2, MaxLoads <- 2,
  level <- v1, effect <- v2, turning <- v3, loaded <- v4, loads <- v5,
  listening <- v6, buffer <- v7, flushTimer <- v8, cache <- v9, heard <- v10
Traffic == INSTANCE TrafficMonitor WITH
  Hooks <- {"g"}, RAW <- 2, COMPRESSED <- 4, RATIO <- 2, COMPACT <- 1,
  MaxAdded <- 4, MaxTime <- 4, now <- v1, holders <- v2, client <- v3,
  range <- v4, raw <- v5, rawHead <- v6, compressed <- v7,
  compressedHead <- v8, queue <- v9, throttle <- v10, snapshot <- v11,
  added <- v12
Graph == INSTANCE TrafficGraphs WITH
  Counts <- {0, 1, 2, 3, 5, 9, 20}, Widths <- {50, 80, 100}, maxLabels <- 3,
  minPixelDistance <- 35, Speeds <- {0, 1}, maxPoint <- 1, MaxClicks <- 1,
  which <- v1, visible <- v2, focused <- v3, pause <- v4, pending <- v5,
  display <- v6, aged <- v7, stale <- v8, frame <- v9, drawn <- v10,
  mouse <- v11, tooltip <- v12, hover <- v13, clicks <- v14, list <- v15,
  fresh <- v16, draw <- v17
Proxies == INSTANCE ProxyList WITH
  Profiles <- {"p", "q"}, Nodes <- <<"m", "n">>, Datas <- ProxyData,
  Delays <- {"fast", "error"}, Cols <- {2}, Patches <- HeadPatches,
  MaxChanges <- 2, profile <- v1, head <- v2, pending <- v3, timer <- v4,
  saved <- v5, mine <- v6, lost <- v7, mounted <- v8, mode <- v9, chain <- v10,
  data <- v11, col <- v12, delay <- v13, check <- v14, cache <- v15,
  prev <- v16, list <- v17, switched <- v18, changes <- v19
Sorts == INSTANCE ProxyList WITH
  Profiles <- {"p"}, Nodes <- <<"m", "n">>,
  Datas <- {[groups |-> <<"g">>, hidden |-> {}]}, Delays <- {"fast", "error"},
  Cols <- {2}, Patches <- {<<"sort", 1>>}, MaxChanges <- 4, profile <- v1,
  head <- v2, pending <- v3, timer <- v4, saved <- v5, mine <- v6, lost <- v7,
  mounted <- v8, mode <- v9, chain <- v10, data <- v11, col <- v12,
  delay <- v13, check <- v14, cache <- v15, prev <- v16, list <- v17,
  switched <- v18, changes <- v19
Table == INSTANCE ConnectionTable WITH
  Ids <- {"a", "b"}, Versions <- {1, 2}, Fields <- <<"h", "t">>, MaxCache <- 1,
  Slack <- 0, MaxChanges <- 2, active <- v1, closed <- v2, type <- v3,
  layout <- v4, found <- v5, view <- v6, cache <- v7, shown <- v8, order <- v9,
  hidden <- v10, sorting <- v11, manager <- v12, detail <- v13, closing <- v14,
  changes <- v15
Detail == INSTANCE ConnectionTable WITH
  Ids <- {"a", "b"}, Versions <- {1}, Fields <- <<"h", "t">>, MaxCache <- 1,
  Slack <- 0, MaxChanges <- 3, active <- v1, closed <- v2, type <- v3,
  layout <- v4, found <- v5, view <- v6, cache <- v7, shown <- v8, order <- v9,
  hidden <- v10, sorting <- v11, manager <- v12, detail <- v13, closing <- v14,
  changes <- v15
App == INSTANCE AppData WITH
  Profiles <- {"a"}, Providers <- <<"m", "n">>, Pages <- {"proxies"},
  MaxChanges <- 2, core <- v1, cached <- v2, fetch <- v3, events <- v4,
  lastProfile <- v5, recent <- v6, stale <- v7, updating <- v8, single <- v9,
  all <- v10
Unlock == INSTANCE UnlockPage WITH
  Names <- {1, 2, 3}, Service <- <<"y", "n", "y">>, Defaults <- <<1, 2>>,
  Lists <- {<<3, 2>>, <<1, 3, 2>>}, MaxCalls <- 3, stored <- v1, items <- v2,
  page <- v3, loading <- v4, calls <- v5, overtaken <- v6, count <- v7
Shell == INSTANCE Layout WITH
  Default <- <<"home", "logs">>, Advanced <- <<"rules">>,
  StoredOrders <- MenuOrders, Events <- {"a", "b"}, Extras <- NoticeExtras,
  MaxSteps <- 2, which <- v1, steps <- v2, stored <- v3, verge <- v4,
  fetch <- v5, advanced <- v6, unlocked <- v7, menuOrder <- v8, persists <- v9,
  missed <- v10, notices <- v11, run <- v12, reg <- v13
\* The parts of ControlProofs and of PartsProofs, and patches, automatic
\* backups and the account once more, with other constants.  The activation
\* runs by itself.
Control == INSTANCE ControlProofs WITH
  Calls <- {"c", "d"}, Patches <- ProxyPatches, Stored <- ProxyStored,
    SaveFlags <- {TRUE}, MaxPatches <- 2,
  Tasks <- {"a", "b"},
    Commands <- {"restart", "stop", "install", "uninstall", "reinstall"},
    Services <- {"up", "old", "down"}, MaxCalls <- 2,
  Refreshes <- {"r", "s"}, Savers <- {}, MIN_BACKUP_INTERVAL_SECS <- 1,
    AUTO_BACKUP_KEEP <- 1, MaxChanges <- 1, MaxTime <- 1,
  V4 <- {"e", "o"}, V6 <- {"s"}, STABLE_DURATION <- 1,
    MISMATCH_PROLONGED <- 2, IP_REFRESH <- 1, ExitServices <- 1,
    ExitMaxChanges <- 1,
  MAX_SERVICE_RETRIES <- 0, MaxCodes <- 1, AccountMaxEvents <- 0,
  Hosts <- {"h", "i"}, SysMaxSteps <- 3,
  Settings <- {"g", "d", "i"}, GuardVals <- {"x", "y"}, Waits <- {"d"},
    Icon <- "i", GuardMaxChanges <- 2,
  Dialogs <- {"ports", "cors", "controller"},
    DialogVals <- {"a", "bad", "low"}, Invalid <- {"bad"}, Refused <- {"low"},
    DialogMaxSteps <- 2,
  Files <- {"f"}, Accounts <- {"a", "b"}, BackupsMaxSteps <- 2,
  Versions <- UpdateVersions, Viewers <- {"button", "settings"},
    UpdateMaxReleases <- 1, MaxRuns <- 1,
  Platforms <- {"darwin"}, Sidecars <- {"mihomo"}, Resources <- {},
    Binaries <- <<"service", "install">>, Scripts <- {"set_dns"}, retry <- 1,
    BuildMaxReleases <- 1,
  committed <- v1, draft <- v2, file <- v3, vergePc <- v4, patch <- v5,
    saves <- v6, data <- v7, lock <- v8, steps <- v9, sysGuard <- v10, os <- v11,
    quitting <- v12, by <- v13, done <- v14, dirty <- v15,
    vergeCrossed <- v16, lag <- v17, vergeCount <- v18, wants <- v19,
    raced <- v20,
  mode <- v1, child <- v2, sidecars <- v3, served <- v4, service <- v5,
    status <- v6, operation_running <- v7, corePc <- v8, cmd <- v9,
    view <- v10, told <- v11, pid <- v12, ended <- v13, coreCrossed <- v14,
    lost <- v15, coreCount <- v16, spawned <- v17,
  verge <- v1, settings <- v2, channel <- v3, step <- v4, loaded <- v5,
    runner_started <- v6, runner <- v7, current <- v8, unseen <- v9,
    backupPc <- v10, exec_lock <- v11, last_backup <- v12, files <- v13,
    now <- v14, made <- v15, backupCrossed <- v16, backupCount <- v17,
  exit <- v1, exitFetch <- v2, error <- v3, age <- v4, actual <- v5,
    expected <- v6, connected <- v7, setup <- v8, promote <- v9,
    stable <- v10, alarm <- v11, prolonged <- v12, lastNotified <- v13,
    countdown <- v14, asking <- v15, mutating <- v16, recheck <- v17,
    held <- v18, settled <- v19, lasted <- v20, pairs <- v21,
    exitChanges <- v22,
  accountSeat <- v1, accountFile <- v2, clientState <- v3, accountService <- v4,
    isServiceOk <- v5, other <- v6, cvBlock <- v7, card <- v8,
    accountForm <- v9, accountSync <- v10, accountConfirm <- v11, accountCur <- v12,
    matched <- v13, accountEvents <- v14,
  sysStored <- v1, sysCached <- v2, fetching <- v3, pending <- v4,
    sending <- v5, sysOpen <- v6, value <- v7, sysSave <- v8, resets <- v9,
    sysLast <- v10, sysRefused <- v11, sysSteps <- v12,
  guardStored <- v1, guardCached <- v2, guardFetch <- v3, guardLock <- v4,
    guardChanges <- v5, guardFiles <- v6, guardLast <- v7, guardRefused <- v8,
    clicks <- v9,
  first <- v1, second <- v2, dialogOpen <- v3, dialogForm <- v4,
    dialogSaves <- v5, saved <- v6, apart <- v7, dialogSteps <- v8,
  backupsFiles <- v1, account <- v2, backupsStatus <- v3, answer <- v4,
    backupsOpen <- v5, source <- v6, rows <- v7, ran <- v8, calls <- v9,
    backupsConfirm <- v10, restarting <- v11, met <- v12, auto <- v13,
    backupsSteps <- v14,
  releases <- v1, update <- v2, updateRun <- v3, updateRuns <- v4,
    updateEnded <- v5, running <- v6, installed <- v7, updateInfo <- v8,
    updateState <- v9, locks <- v10, downloads <- v11,
  platform <- v1, released <- v2, pinned <- v3, lookup <- v4, disk <- v5,
    temp <- v6, versions <- v7, hashes <- v8, buildRun <- v9, buildEnded <- v10,
    cut <- v11,
  Outcomes <- {}, MaxEvents <- 0, seat <- 0, code <- 0, issued <- 0,
    config <- 0, store <- 0, content <- 0, refused <- 0, available <- 0,
    tun <- 0, sync <- 0, form <- 0, verify <- 0, guard <- 0, events <- 0
Others == INSTANCE ControlProofs WITH
  Calls <- {"c", "d"}, Patches <- OtherPatches, Stored <- {<<>>},
    SaveFlags <- BOOLEAN, MaxPatches <- 2,
  Tasks <- {"a", "b"}, Commands <- {}, Services <- {"up"}, MaxCalls <- 0,
  Refreshes <- {"r"}, Savers <- {"merge"}, MIN_BACKUP_INTERVAL_SECS <- 2,
    AUTO_BACKUP_KEEP <- 1, MaxChanges <- 0, MaxTime <- 5,
  V4 <- {}, V6 <- {}, STABLE_DURATION <- 1, MISMATCH_PROLONGED <- 2,
    IP_REFRESH <- 1, ExitServices <- 1, ExitMaxChanges <- 1,
  MAX_SERVICE_RETRIES <- 0, MaxCodes <- 0, AccountMaxEvents <- 3,
  Hosts <- {}, SysMaxSteps <- 3,
  Settings <- {}, GuardVals <- {}, Waits <- {}, Icon <- "i",
    GuardMaxChanges <- 2,
  Dialogs <- {}, DialogVals <- {}, Invalid <- {}, Refused <- {},
    DialogMaxSteps <- 2,
  Files <- {}, Accounts <- {}, BackupsMaxSteps <- 2,
  Versions <- <<>>, Viewers <- {}, UpdateMaxReleases <- 0, MaxRuns <- 0,
  Platforms <- {"win32"}, Sidecars <- {}, Resources <- {"mmdb"},
    Binaries <- <<"service", "install">>, Scripts <- {}, retry <- 2,
    BuildMaxReleases <- 1,
  committed <- v1, draft <- v2, file <- v3, vergePc <- v4, patch <- v5,
    saves <- v6, data <- v7, lock <- v8, steps <- v9, sysGuard <- v10, os <- v11,
    quitting <- v12, by <- v13, done <- v14, dirty <- v15,
    vergeCrossed <- v16, lag <- v17, vergeCount <- v18, wants <- v19,
    raced <- v20,
  mode <- v1, child <- v2, sidecars <- v3, served <- v4, service <- v5,
    status <- v6, operation_running <- v7, corePc <- v8, cmd <- v9,
    view <- v10, told <- v11, pid <- v12, ended <- v13, coreCrossed <- v14,
    lost <- v15, coreCount <- v16, spawned <- v17,
  verge <- v1, settings <- v2, channel <- v3, step <- v4, loaded <- v5,
    runner_started <- v6, runner <- v7, current <- v8, unseen <- v9,
    backupPc <- v10, exec_lock <- v11, last_backup <- v12, files <- v13,
    now <- v14, made <- v15, backupCrossed <- v16, backupCount <- v17,
  exit <- v1, exitFetch <- v2, error <- v3, age <- v4, actual <- v5,
    expected <- v6, connected <- v7, setup <- v8, promote <- v9,
    stable <- v10, alarm <- v11, prolonged <- v12, lastNotified <- v13,
    countdown <- v14, asking <- v15, mutating <- v16, recheck <- v17,
    held <- v18, settled <- v19, lasted <- v20, pairs <- v21,
    exitChanges <- v22,
  accountSeat <- v1, accountFile <- v2, clientState <- v3, accountService <- v4,
    isServiceOk <- v5, other <- v6, cvBlock <- v7, card <- v8,
    accountForm <- v9, accountSync <- v10, accountConfirm <- v11, accountCur <- v12,
    matched <- v13, accountEvents <- v14,
  sysStored <- v1, sysCached <- v2, fetching <- v3, pending <- v4,
    sending <- v5, sysOpen <- v6, value <- v7, sysSave <- v8, resets <- v9,
    sysLast <- v10, sysRefused <- v11, sysSteps <- v12,
  guardStored <- v1, guardCached <- v2, guardFetch <- v3, guardLock <- v4,
    guardChanges <- v5, guardFiles <- v6, guardLast <- v7, guardRefused <- v8,
    clicks <- v9,
  first <- v1, second <- v2, dialogOpen <- v3, dialogForm <- v4,
    dialogSaves <- v5, saved <- v6, apart <- v7, dialogSteps <- v8,
  backupsFiles <- v1, account <- v2, backupsStatus <- v3, answer <- v4,
    backupsOpen <- v5, source <- v6, rows <- v7, ran <- v8, calls <- v9,
    backupsConfirm <- v10, restarting <- v11, met <- v12, auto <- v13,
    backupsSteps <- v14,
  releases <- v1, update <- v2, updateRun <- v3, updateRuns <- v4,
    updateEnded <- v5, running <- v6, installed <- v7, updateInfo <- v8,
    updateState <- v9, locks <- v10, downloads <- v11,
  platform <- v1, released <- v2, pinned <- v3, lookup <- v4, disk <- v5,
    temp <- v6, versions <- v7, hashes <- v8, buildRun <- v9, buildEnded <- v10,
    cut <- v11,
  Outcomes <- {}, MaxEvents <- 0, seat <- 0, code <- 0, issued <- 0,
    config <- 0, store <- 0, content <- 0, refused <- 0, available <- 0,
    tun <- 0, sync <- 0, form <- 0, verify <- 0, guard <- 0, events <- 0
Parts == INSTANCE PartsProofs WITH
  PageProfiles <- {"a", "b"}, MaxRequests <- 2,
  UpdProfiles <- {"a", "b"}, Workers <- 1, MaxUpdates <- 2,
  DelayNodes <- <<"m", "n">>, Results <- {"d1", "error"}, Slots <- {1, 2},
    DelayWorkers <- 1, MaxTests <- 2,
  Groups <- {"g", "h"}, ChoiceProxies <- {"p", "q"}, MaxChoices <- 2,
  GroupsOf <- CardGroups, CardNodes <- {"a", "b"}, CardMaxChoices <- 1,
  ChainNodes <- {"a", "b"}, ChainGroups <- {"g", "h"}, MaxChain <- 2,
    ChainMaxCalls <- 3,
  DocTexts <- {"v", "w", "bad"}, DocValid <- {"v", "w"}, DocMaxSteps <- 5,
  DnsConfigs <- {"d", "x"}, DnsDefault <- "d", DnsMaxSteps <- 5,
  EditItems <- {"a", "o"}, EditOriginal <- {"o"}, EditDocs <- SeqDocs,
    MaxEdits <- 2,
  TestsMaxSteps <- 4,
  pageCur <- v1, listed <- v2, busy <- v3, seen <- v4, fetches <- v5,
    switchingRef <- v6, seq <- v7, flows <- v8, activatings <- v9,
    enhancing <- v10, del <- v11, selected <- v12, requests <- v13,
  marks <- v1, all <- v2, updating <- v3, updDone <- v4, sched <- v5,
    patched <- v6, updEvents <- v7, display <- v8, updates <- v9,
  cache <- v1, delayPending <- v2, row <- v3, test <- v4, next <- v5,
    heeded <- v6, delayGroup <- v7, tests <- v8,
  choiceNow <- v1, choiceStored <- v2, choiceSeen <- v3, slot <- v4,
    loops <- v5, choicePatches <- v6, choiceAct <- v7, choiceLast <- v8,
    restored <- v9, choices <- v10,
  cardMode <- v1, running <- v2, cardNow <- v3, profile <- v4,
    cardData <- v5, sel <- v6, cardSaved <- v7, deb <- v8, asked <- v9,
    odd <- v10, effect <- v11, cardBusy <- v12, cardChoices <- v13,
  chainMode <- v1, chainGroup <- v2, chain <- v3, chainExit <- v4,
    runtime <- v5, chainNow <- v6, call <- v7, chainFetch <- v8,
    edited <- v9, chainCalls <- v10,
  docFile <- v1, docOpen <- v2, docValue <- v3, docSaved <- v4,
    loading <- v5, dialog <- v6, loads <- v7, docSaves <- v8,
    docClean <- v9, docSteps <- v10,
  dnsFile <- v1, dnsOpen <- v2, visualization <- v3, values <- v4,
    yaml <- v5, behind <- v6, parsed <- v7, reads <- v8, dnsSave <- v9,
    dnsWant <- v10, dnsSteps <- v11,
  editKind <- v1, editFile <- v2, editOpen <- v3, editLoad <- v4,
    vis <- v5, editCur <- v6, editSeq <- v7, editIdle <- v8, trans <- v9,
    editSave <- v10, editWant <- v11, hasty <- v12, edits <- v13,
  testsStore <- v1, testsCache <- v2, testsFetch <- v3,
    testsPatches <- v4, testsIdle <- v5, testsView <- v6,
    testsDefault <- v7, testsForm <- v8, fresh <- v9, wanted <- v10,
    testsClean <- v11, testsSteps <- v12
I18n == INSTANCE I18nCleanup WITH
  Groups <- <<"front", "back">>, Multi <- {"front"}, Langs <- <<"en", "zh">>,
  Repos <- I18nRepos, MaxRuns <- 1, repo <- v1, runs <- v2, disk <- v3,
  bak <- v4, index <- v5, options <- v6, todo <- v7, loaded <- v8, cache <- v9,
  writing <- v10, updated <- v11, files <- v12, original <- v13
-------------------------------------------------------------------------------
Init ==
  \/ part = "ws" /\ watch = 1 /\ WS!Init /\ Zero9
  \/ part = "monitor" /\ watch = 1 /\ Monitor!Init /\ Zero13
  \/ part = "burst" /\ watch = 1 /\ Burst!Init /\ Zero13
  \/ part = "logs" /\ watch = 1 /\ Logs!Init /\ Zero10
  \/ part = "traffic" /\ watch = 1 /\ Traffic!Init /\ Zero12
  \/ part = "graph" /\ watch \in 1..2 /\ Graph!Init /\ Zero17
  \/ part = "delay" /\ watch \in 1..2 /\ Parts!Delay!Init /\ Zero8
  \/ part = "choice" /\ watch = 1 /\ Parts!Choice!Init /\ Zero10
  \/ part = "card" /\ watch = 1 /\ Parts!Card!Init /\ Zero13
  \/ part = "chain" /\ watch = 1 /\ Parts!Chain!Init /\ Zero10
  \/ part = "proxies" /\ watch = 1 /\ Proxies!Init /\ Zero19
  \/ part = "sorts" /\ watch = 1 /\ Sorts!Init /\ Zero19
  \/ part = "table" /\ watch = 1 /\ Table!Init /\ Zero15
  \/ part = "detail" /\ watch = 1 /\ Detail!Init /\ Zero15
  \/ part = "app" /\ watch = 1 /\ App!Init /\ Zero10
  \/ part = "tests" /\ watch = 1 /\ Parts!Tests!Init /\ Zero12
  \/ part = "unlock" /\ watch = 1 /\ Unlock!Init /\ Zero7
  \/ part = "edits" /\ watch = 1 /\ Parts!Edits!Init /\ Zero13
  \/ part = "editor" /\ watch = 1 /\ Parts!Doc!Init /\ Zero10
  \/ part = "dns" /\ watch = 1 /\ Parts!Dns!Init /\ Zero11
  \/ part = "page" /\ watch = 1 /\ Parts!Page!Init /\ Zero13
  \/ part = "upd" /\ watch = 1 /\ Parts!Upd!Init /\ Zero9
  \/ part = "sysproxy" /\ watch = 1 /\ Control!Sys!Init /\ Zero12
  \/ part = "guards" /\ watch \in 1..3 /\ Control!Setting!Init /\ Zero9
  \/ part = "dialogs" /\ watch = 1 /\ Control!Dialog!Init /\ Zero8
  \/ part = "backups" /\ watch = 1 /\ Control!Backups!Init /\ Zero14
  \/ part = "shell" /\ watch \in 1..3 /\ Shell!Init /\ Zero13
  \/ part = "exit" /\ watch = 1 /\ Control!Exit!Init
  \/ part = "account" /\ watch = 1 /\ Control!Account!Init /\ Zero14
  \/ part = "bound" /\ watch = 1 /\ Others!Account!Init /\ Zero14
  \/ part = "update" /\ watch = 1 /\ Control!Update!Init /\ Zero11
  \/ part = "patching" /\ watch = 1 /\ Control!Verge!Init /\ Zero20
  \/ part = "saving" /\ watch = 1 /\ Others!Verge!Init /\ Zero20
  \/ part = "core" /\ watch = 1 /\ Control!Core!Init /\ Zero17
  \/ part = "schedule" /\ watch = 1 /\ Control!Backup!Init /\ Zero17
  \/ part = "auto" /\ watch = 1 /\ Others!Backup!Init /\ Zero17
  \/ part = "i18n" /\ watch = 1 /\ I18n!Init /\ Zero13
  \/ part = "build" /\ watch = 1 /\ Control!Build!Init /\ Zero11
  \/ part = "data" /\ watch = 1 /\ Others!Build!Init /\ Zero11

Next ==
  /\ UNCHANGED <<part, watch>>
  /\ \/ part = "ws" /\ WS!Next /\ UNCHANGED U9
     \/ part = "monitor" /\ Monitor!Next /\ UNCHANGED U13
     \/ part = "burst" /\ Burst!Next /\ UNCHANGED U13
     \/ part = "logs" /\ Logs!Next /\ UNCHANGED U10
     \/ part = "traffic" /\ Traffic!Next /\ UNCHANGED U12
     \/ part = "graph" /\ Graph!Next /\ UNCHANGED U17
     \/ part = "delay" /\ Parts!Delay!Next /\ UNCHANGED U8
     \/ part = "choice" /\ Parts!Choice!Next /\ UNCHANGED U10
     \/ part = "card" /\ Parts!Card!Next /\ UNCHANGED U13
     \/ part = "chain" /\ Parts!Chain!Next /\ UNCHANGED U10
     \/ part = "proxies" /\ Proxies!Next /\ UNCHANGED U19
     \/ part = "sorts" /\ Sorts!Next /\ UNCHANGED U19
     \/ part = "table" /\ Table!Next /\ UNCHANGED U15
     \/ part = "detail" /\ Detail!Next /\ UNCHANGED U15
     \/ part = "app" /\ App!Next /\ UNCHANGED U10
     \/ part = "tests" /\ Parts!Tests!Next /\ UNCHANGED U12
     \/ part = "unlock" /\ Unlock!Next /\ UNCHANGED U7
     \/ part = "edits" /\ Parts!Edits!Next /\ UNCHANGED U13
     \/ part = "editor" /\ Parts!Doc!Next /\ UNCHANGED U10
     \/ part = "dns" /\ Parts!Dns!Next /\ UNCHANGED U11
     \/ part = "page" /\ Parts!Page!Next /\ UNCHANGED U13
     \/ part = "upd" /\ Parts!Upd!Next /\ UNCHANGED U9
     \/ part = "sysproxy" /\ Control!Sys!Next /\ UNCHANGED U12
     \/ part = "guards" /\ Control!Setting!Next /\ UNCHANGED U9
     \/ part = "dialogs" /\ Control!Dialog!Next /\ UNCHANGED U8
     \/ part = "backups" /\ Control!Backups!Next /\ UNCHANGED U14
     \/ part = "shell" /\ Shell!Next /\ UNCHANGED U13
     \/ part = "exit" /\ Control!Exit!Next
     \/ part = "account" /\ Control!Account!Next /\ UNCHANGED U14
     \/ part = "bound" /\ Others!Account!Next /\ UNCHANGED U14
     \/ part = "update" /\ Control!Update!Next /\ UNCHANGED U11
     \/ part = "patching" /\ Control!Verge!Next /\ UNCHANGED U20
     \/ part = "saving" /\ Others!Verge!Next /\ UNCHANGED U20
     \/ part = "core" /\ Control!Core!Next /\ UNCHANGED U17
     \/ part = "schedule" /\ Control!Backup!Next /\ UNCHANGED U17
     \/ part = "auto" /\ Others!Backup!Next /\ UNCHANGED U17
     \/ part = "i18n" /\ I18n!Next /\ UNCHANGED U13
     \/ part = "build" /\ Control!Build!Next /\ UNCHANGED U11
     \/ part = "data" /\ Others!Build!Next /\ UNCHANGED U11

Weak1 ==
  /\ UNCHANGED <<part, watch>>
  /\ \/ part = "ws" /\ WS!TimerFires("e1") /\ UNCHANGED U9
     \/ part = "graph" /\ Graph!drawGraph /\ UNCHANGED U17
     \/ part = "delay" /\ (\E d \in {"d1", "error"} : Parts!Delay!Answered(1, d)) /\ UNCHANGED U8
     \/ part = "card" /\ Parts!Card!checkCurrentProxyDelay(1) /\ UNCHANGED U13
     \/ part = "tests" /\ Parts!Tests!Progress /\ UNCHANGED U12
     \/ part = "unlock" /\ Unlock!Ends /\ UNCHANGED U7
     \/ part = "edits" /\ Parts!Edits!serialize /\ UNCHANGED U13
     \/ part = "page" /\ Parts!Page!Progress /\ UNCHANGED U13
     \/ part = "upd" /\ Parts!Upd!Progress /\ UNCHANGED U9
     \/ part = "guards" /\ Control!Setting!Progress /\ UNCHANGED U9
     \/ part = "backups" /\ Control!Backups!Progress /\ UNCHANGED U14
     \/ part = "shell" /\ Shell!Expires(0) /\ UNCHANGED U13
     \/ part = "exit" /\ Control!Exit!Promote
     \/ part = "bound" /\ Others!Account!refresh /\ UNCHANGED U14
     \/ part = "update" /\ Control!Update!Goes /\ UNCHANGED U11
     \/ part = "core" /\ Control!Core!Proceeds("a") /\ UNCHANGED U17
     \/ part = "schedule" /\ Control!Backup!Progress /\ UNCHANGED U17

Weak2 ==
  /\ UNCHANGED <<part, watch>>
  /\ \/ part = "ws" /\ (WS!OnConnectedDone("e1") \/ WS!OnConnectedFails("e1")) /\ UNCHANGED U9
     \/ part = "graph" /\ Graph!updateDisplayData /\ UNCHANGED U17
     \/ part = "delay" /\ (\E d \in {"d1", "error"} : Parts!Delay!Answered(2, d)) /\ UNCHANGED U8
     \/ part = "card" /\ Parts!Card!checkCurrentProxyDelay(2) /\ UNCHANGED U13
     \/ part = "edits" /\ Parts!Edits!Transition /\ UNCHANGED U13
     \/ part = "shell" /\ Shell!Expires(1) /\ UNCHANGED U13
     \/ part = "exit" /\ Control!Exit!TimePasses
     \/ part = "bound" /\ Others!Account!runSync /\ UNCHANGED U14
     \/ part = "core" /\ Control!Core!Proceeds("b") /\ UNCHANGED U17

Weak3 ==
  /\ UNCHANGED <<part, watch>>
  /\ \/ part = "ws" /\ (WS!Closed("e1", "s1") \/ WS!CloseFails("e1", "s1")) /\ UNCHANGED U9
     \/ part = "graph" /\ Graph!handleData /\ UNCHANGED U17
     \/ part = "delay" /\ Parts!Delay!Finish(1) /\ UNCHANGED U8
     \/ part = "card" /\ Parts!Card!runAndSchedule(1) /\ UNCHANGED U13
     \/ part = "shell" /\ Shell!Expires(2) /\ UNCHANGED U13
     \/ part = "exit" /\ Control!Exit!Prolong
     \/ part = "bound" /\ Others!Account!SyncSave /\ UNCHANGED U14

Weak4 ==
  /\ UNCHANGED <<part, watch>>
  /\ \/ part = "ws" /\ (WS!Closed("e1", "s2") \/ WS!CloseFails("e1", "s2")) /\ UNCHANGED U9
     \/ part = "delay" /\ Parts!Delay!Finish(2) /\ UNCHANGED U8
     \/ part = "card" /\ Parts!Card!runAndSchedule(2) /\ UNCHANGED U13

Weak5 ==
  /\ UNCHANGED <<part, watch>>
  /\ \/ part = "delay" /\ Parts!Delay!help(1) /\ UNCHANGED U8

Weak6 ==
  /\ UNCHANGED <<part, watch>>
  /\ \/ part = "delay" /\ Parts!Delay!help(2) /\ UNCHANGED U8

Strong1 ==
  /\ UNCHANGED <<part, watch>>
  /\ \/ part = "ws" /\ WS!Connected("e1") /\ UNCHANGED U9
     \/ part = "graph" /\ Graph!DebounceEnds /\ UNCHANGED U17
     \/ part = "bound" /\ Others!Account!syncClient /\ UNCHANGED U14
     \/ part = "schedule" /\ Control!Backup!Changed /\ UNCHANGED U17

Fairness ==
  /\ WF_vars(Weak1) /\ WF_vars(Weak2) /\ WF_vars(Weak3) /\ WF_vars(Weak4) /\ WF_vars(Weak5) /\ WF_vars(Weak6)
  /\ SF_vars(Strong1)

Spec == Init /\ [][Next]_vars /\ Fairness

-------------------------------------------------------------------------------
(* Streams of the core: no socket is left open, caches hold the last value *)
(* handed out, the closed connections and the lines listed are the last    *)
(* ones, the sampler keeps its window, the graph its labels apart.         *)
StreamsFollow ==
  /\ part = "ws" => WS!NoSocketLeaks /\ WS!CacheFollows
  /\ part = "monitor" => Monitor!ClosedAreTheLast /\ Monitor!NeverStops
  /\ part = "burst" => Burst!ClosedAreTheLast
  /\ part = "logs" => Logs!LogsAreTheLast /\ Logs!LevelIsRespected
  /\ part = "traffic" => Traffic!SamplerKeepsTheWindow
  /\ part = "graph" => Graph!GraphGeometry /\ Graph!TooltipGoes

(* Choosing nodes: the last choice is in force, the saved one is put back, *)
(* rows and card show what is stored, a chain holds no node twice and is   *)
(* called connected when it is.                                            *)
ChoicesHold ==
  /\ part = "choice" => Parts!Choice!LastChoiceWins /\ Parts!Choice!SelectionRestored
  /\ part = "card" => Parts!Card!CardFollows /\ Parts!Card!NoOldTimer
  /\ part = "delay" => Parts!Delay!ShownIsStored
  /\ part = "chain" => Parts!Chain!NoDuplicates /\ Parts!Chain!ConnectedIsChained

(* Lists: what the caches and windows between the core and the screen keep *)
(* does not show: rows, heads, columns and providers are those of the last *)
(* answer, and the heads come back with their profile; a service that is   *)
(* tested has one row, stored as it is shown, and spins meanwhile.         *)
ListsFollow ==
  /\ part = "proxies" => Proxies!HeadStateKept /\ Proxies!ListFollows
  /\ part = "table" => Table!RowsAreCurrent /\ Table!DetailOfList /\ Table!ColumnsComplete
  /\ part = "sorts" => Sorts!ListFollows
  /\ part = "detail" => Detail!DetailOfList /\ Detail!ColumnsComplete
  /\ part = "app" => App!DataFollows /\ App!MarksEnd
  /\ part = "unlock" => Unlock!RowsAreStored /\ Unlock!SpinsWhileChecked

(* Lists and editors: what is saved is what was entered, in whichever of   *)
(* two views or places, and what is shown once nothing is on its way; a    *)
(* file holds a text that was accepted.                                    *)
EditsKept ==
  /\ part = "tests" => Parts!Tests!ListIsWanted
  /\ part = "edits" => Parts!Edits!SavedIsWanted /\ Parts!Edits!InSync
  /\ part = "editor" => Parts!Doc!FileAccepted /\ Parts!Doc!SavedIsFile
  /\ part = "dns" => Parts!Dns!LastEntryKept

(* The page of profiles: what it waits for is running, and nothing keeps   *)
(* its mark or its spinner when nothing does.                              *)
ProfilesFollow ==
  /\ part = "page" => Parts!Page!SwitchingIsRunning /\ Parts!Page!SpinnersEnd
  /\ part = "upd" => Parts!Upd!MarksEnd /\ Parts!Upd!NextIsShown

(* Settings: once nothing is under way the last change of each is stored   *)
(* and shown, in both of its places; the backups listed are there.         *)
SettingsStick ==
  /\ part = "sysproxy" => Control!Sys!LastClickWins /\ Control!Sys!ShownIsStored
  /\ part = "guards" => Control!Setting!ChangesStick
  /\ part = "dialogs" => Control!Dialog!SavedInBoth
  /\ part = "backups" => Control!Backups!RowsExist /\ Control!Backups!StatusIsOfAccount /\ Control!Backups!AutoIsStored

(* The backend: a change that succeeded is not taken back by one that did  *)
(* not, the system's proxy follows and is off after the end; a core that   *)
(* runs is one a stop reaches; automatic backups are apart, the last kept, *)
(* and made by the settings in force.                                      *)
BackendAgrees ==
  /\ part = "patching" => Control!Verge!AcceptedIsCommitted /\ Control!Verge!SystemFollows /\ Control!Verge!OffAfterQuit
  /\ part = "saving" => Others!Verge!AcceptedIsCommitted /\ Others!Verge!FileFollows
  /\ part = "core" => Control!Core!CoresAreNamed /\ Control!Core!OneCore
  /\ part = "schedule" => Control!Backup!SettingsFollow
  /\ part = "auto" => Others!Backup!Spaced /\ Others!Backup!LastAreKept

(* The shell and its texts: the menu is complete, a notice tells what it   *)
(* was given, an event has one listener, what is offered is newer; texts   *)
(* in use survive a clean-up and unused ones do not.                       *)
ShellTells ==
  /\ part = "shell" => Shell!MenuComplete /\ Shell!MenuIsStored /\ Shell!NoticeTells /\ Shell!OneListener
  /\ part = "update" => Control!Update!OfferIsNewer
  /\ part = "i18n" => I18n!UsedKept /\ I18n!UnusedGone /\ I18n!BackedUp /\ I18n!IndexFits

(* The exit: a mismatch is told when it lasts, once, and held until it is  *)
(* over; an account is shown once its exit has matched.                    *)
ExitGuarded ==
  /\ part = "exit" => Control!Exit!MismatchIsHeld /\ Control!Exit!ProlongedLasted /\ Control!Exit!NotifiedOnce
  /\ part = "account" => Control!Account!AccountIsVerified

(* Releases: a build that ended well has whole binaries of one release,    *)
(* what is published is whole and of one release, and downloaded once.     *)
ScriptsKeep ==
  /\ part = "build" => Control!Build!SidecarsWhole /\ Control!Build!OneService /\ Control!Build!ScriptsCurrent
  /\ part = "data" => Others!Build!OneService
  /\ part = "update" => Control!Update!BothPublished /\ Control!Update!OneDownload


(* A stream that is listened to is served, the graph catches up, the shown *)
(* node is tested again, and no node, service or save keeps its spinner.   *)
StreamWaits ==
  \/ part = "ws" /\ WS!Listened
  \/ part \in {"graph", "card"}
  \/ part = "delay" /\ Parts!Delay!Testing(<<"m", "n">>[watch])
StreamServed ==
  \/ part = "ws" /\ WS!ServedOrNot
  \/ part = "graph" /\ (watch = 1 => Graph!CaughtUp) /\ (watch = 2 => Graph!GoneOrRunning)
  \/ part = "card" /\ Parts!Card!Tested
  \/ part = "delay" /\ ~Parts!Delay!Testing(<<"m", "n">>[watch])
StreamsGoOn == StreamWaits ~> StreamServed

(* Work ends: updates, switches, saves, checks, locks, the download,       *)
(* notices, waiting for the service; a bound seat is shown as bound, a     *)
(* countdown goes on, the two views of an editor come to agree, and the    *)
(* schedule of backups hears of its settings.                              *)
WorkRuns ==
  \/ part \in {"edits", "page"}
  \/ part = "upd" /\ Parts!Upd!RunIsOn
  \/ part = "guards" /\ Control!Setting!Locked(<<"g", "d", "i">>[watch])
  \/ part = "backups" /\ Control!Backups!isBusy
  \/ part = "tests" /\ Parts!Tests!Saving
  \/ part = "unlock" /\ Unlock!Spinning
  \/ part = "core" /\ Control!Core!Waiting
  \/ part = "schedule" /\ Control!Backup!Unheard
  \/ part = "shell" /\ Shell!Leaving(watch - 1)
  \/ part = "bound" /\ Others!Account!IsBound
  \/ part = "update" /\ Control!Update!Downloading
  \/ part = "exit" /\ Control!Exit!Counting
WorkOver ==
  \/ part = "edits" /\ Parts!Edits!Settled
  \/ part = "page" /\ Parts!Page!NothingRuns
  \/ part = "upd" /\ ~Parts!Upd!RunIsOn
  \/ part = "guards" /\ ~Control!Setting!Locked(<<"g", "d", "i">>[watch])
  \/ part = "backups" /\ ~Control!Backups!isBusy
  \/ part = "tests" /\ ~Parts!Tests!Saving
  \/ part = "unlock" /\ ~Unlock!Spinning
  \/ part = "core" /\ ~Control!Core!Waiting
  \/ part = "schedule" /\ ~Control!Backup!Unheard
  \/ part = "shell" /\ ~Shell!Leaving(watch - 1)
  \/ part = "bound" /\ Others!Account!ShowsBound
  \/ part = "update" /\ ~Control!Update!Downloading
  \/ part = "exit" /\ (Control!Exit!IsProlonged \/ ~Control!Exit!Counting)
WorkEnds == WorkRuns ~> WorkOver

-------------------------------------------------------------------------------
(* What the theorems of PartsProofs say of the parts here: the constants   *)
(* are as they assume, and a behaviour of a part is one of its module.     *)
LEMMA VergePatches == Control!VergeParameters /\ Others!VergeParameters
<1>. DEFINE Patch(p) == DOMAIN p \subseteq {"tun", "proxy", "pac", "guard", "hotkey", "cards"}
                        /\ \A s \in DOMAIN p : p[s] \in BOOLEAN
<1>1. Patch(<<>>)
  OBVIOUS
<1>2. \A S \in SUBSET {"proxy", "pac", "guard", "cards", "hotkey", "tun"}, b \in BOOLEAN : Patch([s \in S |-> b])
  OBVIOUS
<1>3. /\ {"proxy"} \in SUBSET {"proxy", "pac", "guard", "cards", "hotkey", "tun"}
      /\ {"pac"} \in SUBSET {"proxy", "pac", "guard", "cards", "hotkey", "tun"}
      /\ {"proxy", "guard"} \in SUBSET {"proxy", "pac", "guard", "cards", "hotkey", "tun"}
      /\ \A one \in {"cards", "hotkey", "tun"} : {one} \in SUBSET {"proxy", "pac", "guard", "cards", "hotkey", "tun"}
  OBVIOUS
<1>4. \A p \in ProxyPatches \cup ProxyStored \cup {<<>>} : Patch(p)
  <2>. HIDE DEF Patch
  <2>. QED BY <1>1, <1>2, <1>3, Zenon DEF ProxyPatches, ProxyStored
<1>5. \A p \in OtherPatches \cup {<<>>} \cup {<<>>} : Patch(p)
  <2>. HIDE DEF Patch
  <2>. QED BY <1>1, <1>2, <1>3, Zenon DEF OtherPatches
<1>6. Control!VergeParameters
  BY <1>4, Zenon DEF Control!VergeParameters, Control!Verge!Settings
<1>7. Others!VergeParameters
  BY <1>5, Zenon DEF Others!VergeParameters, Others!Verge!Settings
<1>. QED BY <1>6, <1>7

(* The activation that ControlProofs extends has no events here.           *)
LEMMA NoActivation == Control!ActivationAssumption /\ Others!ActivationAssumption
  BY DEF Control!ActivationAssumption, Others!ActivationAssumption

LEMMA CoreCommands == Control!CoreParameters
  BY DEF Control!CoreParameters, Control!Core!Operations

LEMMA BackupDistances == Control!BackupParameters /\ Others!BackupParameters
  BY DEF Control!BackupParameters, Others!BackupParameters

LEMMA ExitDurations == Control!ExitParameters
  BY DEF Control!ExitParameters, Control!Exit!Ips

LEMMA PageProfiles == Parts!PageParameters /\ Parts!UpdParameters
  BY DEF Parts!PageParameters, Parts!Page!Nil, Parts!UpdParameters

LEMMA GuardValues == Control!GuardParameters
  BY DEF Control!GuardParameters, Control!Setting!Nil

LEMMA ChoiceGroups == Parts!ChoiceParameters /\ Parts!CardParameters
<1>1. Parts!ChoiceParameters
  BY DEF Parts!ChoiceParameters
<1>2. Parts!CardParameters
  BY DEF Parts!CardParameters, CardGroups
<1>. QED BY <1>1, <1>2

LEMMA EditLists == Parts!EditParameters
  BY DEF Parts!EditParameters, Parts!IsDoc, Parts!EditParts, SeqDocs

LEMMA ReleaseFiles == Control!UpdateParameters /\ Control!BuildParameters /\ Others!BuildParameters
<1>1. Control!UpdateParameters
  BY DEF Control!UpdateParameters, UpdateVersions
<1>2. /\ DOMAIN <<"service", "install">> = 1..2 /\ <<"service", "install">>[1] = "service"
      /\ <<"service", "install">>[2] = "install" /\ <<"service", "install">> # <<>>
      /\ <<"service", "install">> \in Seq({"service", "install"})
  OBVIOUS
<1>3. Control!Build!Bins = {"service", "install"} /\ Others!Build!Bins = {"service", "install"}
  BY <1>2 DEF Control!Build!Bins, Others!Build!Bins
<1>4. Control!BuildParameters
  BY <1>2, <1>3 DEF Control!BuildParameters
<1>5. Others!BuildParameters
  BY <1>2, <1>3 DEF Others!BuildParameters
<1>. QED BY <1>1, <1>4, <1>5

(* A step that changes nothing changes nothing of a part.                  *)
LEMMA Stutter == UNCHANGED vars => UNCHANGED <<part, v1, v2, v3, v4, v5, v6, v7, v8, v9, v10, v11, v12, v13,
                                                v14, v15, v16, v17, v18, v19, v20, v21, v22>>
  BY DEF vars, U0, U1, U2, U3, U4, U5, U6, U7, U8, U9, U10, U11, U12, U13, U14, U15, U16, U17,
                 U18, U19, U20, U21

(* A part begins as its module says,                                       *)
LEMMA PartStarts ==
  Init => /\ part = "patching" => Control!Verge!Init
          /\ part = "saving" => Others!Verge!Init
          /\ part = "core" => Control!Core!Init
          /\ part = "schedule" => Control!Backup!Init
          /\ part = "auto" => Others!Backup!Init
          /\ part = "exit" => Control!Exit!Init
          /\ part = "account" => Control!Account!Init
          /\ part = "page" => Parts!Page!Init
          /\ part = "upd" => Parts!Upd!Init
          /\ part = "sysproxy" => Control!Sys!Init
          /\ part = "guards" => Control!Setting!Init
          /\ part = "dialogs" => Control!Dialog!Init
          /\ part = "backups" => Control!Backups!Init
          /\ part = "delay" => Parts!Delay!Init
          /\ part = "choice" => Parts!Choice!Init
          /\ part = "card" => Parts!Card!Init
          /\ part = "chain" => Parts!Chain!Init
          /\ part = "editor" => Parts!Doc!Init
          /\ part = "dns" => Parts!Dns!Init
          /\ part = "edits" => Parts!Edits!Init
          /\ part = "tests" => Parts!Tests!Init
          /\ part = "update" => Control!Update!Init
          /\ part = "build" => Control!Build!Init
          /\ part = "data" => Others!Build!Init
  BY Zenon DEF Init

(* goes on as its module says,                                             *)
LEMMA PartSteps ==
  [Next]_vars =>
    /\ part = "patching" => Control!Verge!Next \/ UNCHANGED vars
    /\ part = "saving" => Others!Verge!Next \/ UNCHANGED vars
    /\ part = "core" => Control!Core!Next \/ UNCHANGED vars
    /\ part = "schedule" => Control!Backup!Next \/ UNCHANGED vars
    /\ part = "auto" => Others!Backup!Next \/ UNCHANGED vars
    /\ part = "exit" => Control!Exit!Next \/ UNCHANGED vars
    /\ part = "account" => Control!Account!Next \/ UNCHANGED vars
    /\ part = "page" => Parts!Page!Next \/ UNCHANGED vars
    /\ part = "upd" => Parts!Upd!Next \/ UNCHANGED vars
    /\ part = "sysproxy" => Control!Sys!Next \/ UNCHANGED vars
    /\ part = "guards" => Control!Setting!Next \/ UNCHANGED vars
    /\ part = "dialogs" => Control!Dialog!Next \/ UNCHANGED vars
    /\ part = "backups" => Control!Backups!Next \/ UNCHANGED vars
    /\ part = "delay" => Parts!Delay!Next \/ UNCHANGED vars
    /\ part = "choice" => Parts!Choice!Next \/ UNCHANGED vars
    /\ part = "card" => Parts!Card!Next \/ UNCHANGED vars
    /\ part = "chain" => Parts!Chain!Next \/ UNCHANGED vars
    /\ part = "editor" => Parts!Doc!Next \/ UNCHANGED vars
    /\ part = "dns" => Parts!Dns!Next \/ UNCHANGED vars
    /\ part = "edits" => Parts!Edits!Next \/ UNCHANGED vars
    /\ part = "tests" => Parts!Tests!Next \/ UNCHANGED vars
    /\ part = "update" => Control!Update!Next \/ UNCHANGED vars
    /\ part = "build" => Control!Build!Next \/ UNCHANGED vars
    /\ part = "data" => Others!Build!Next \/ UNCHANGED vars
  BY Zenon DEF Next

LEMMA PartMoves ==
  [Next]_vars =>
    /\ part = "patching" => [Control!Verge!Next]_Control!Verge!vars
    /\ part = "saving" => [Others!Verge!Next]_Others!Verge!vars
    /\ part = "core" => [Control!Core!Next]_Control!Core!vars
    /\ part = "schedule" => [Control!Backup!Next]_Control!Backup!vars
    /\ part = "auto" => [Others!Backup!Next]_Others!Backup!vars
    /\ part = "exit" => [Control!Exit!Next]_Control!Exit!vars
    /\ part = "account" => [Control!Account!Next]_Control!Account!vars
    /\ part = "page" => [Parts!Page!Next]_Parts!Page!vars
    /\ part = "upd" => [Parts!Upd!Next]_Parts!Upd!vars
    /\ part = "sysproxy" => [Control!Sys!Next]_Control!Sys!vars
    /\ part = "guards" => [Control!Setting!Next]_Control!Setting!vars
    /\ part = "dialogs" => [Control!Dialog!Next]_Control!Dialog!vars
    /\ part = "backups" => [Control!Backups!Next]_Control!Backups!vars
    /\ part = "delay" => [Parts!Delay!Next]_Parts!Delay!vars
    /\ part = "choice" => [Parts!Choice!Next]_Parts!Choice!vars
    /\ part = "card" => [Parts!Card!Next]_Parts!Card!vars
    /\ part = "chain" => [Parts!Chain!Next]_Parts!Chain!vars
    /\ part = "editor" => [Parts!Doc!Next]_Parts!Doc!vars
    /\ part = "dns" => [Parts!Dns!Next]_Parts!Dns!vars
    /\ part = "edits" => [Parts!Edits!Next]_Parts!Edits!vars
    /\ part = "tests" => [Parts!Tests!Next]_Parts!Tests!vars
    /\ part = "update" => [Control!Update!Next]_Control!Update!vars
    /\ part = "build" => [Control!Build!Next]_Control!Build!vars
    /\ part = "data" => [Others!Build!Next]_Others!Build!vars
<1>. SUFFICES ASSUME [Next]_vars
     PROVE  /\ part = "patching" => [Control!Verge!Next]_Control!Verge!vars
            /\ part = "saving" => [Others!Verge!Next]_Others!Verge!vars
            /\ part = "core" => [Control!Core!Next]_Control!Core!vars
            /\ part = "schedule" => [Control!Backup!Next]_Control!Backup!vars
            /\ part = "auto" => [Others!Backup!Next]_Others!Backup!vars
            /\ part = "exit" => [Control!Exit!Next]_Control!Exit!vars
            /\ part = "account" => [Control!Account!Next]_Control!Account!vars
            /\ part = "page" => [Parts!Page!Next]_Parts!Page!vars
            /\ part = "upd" => [Parts!Upd!Next]_Parts!Upd!vars
            /\ part = "sysproxy" => [Control!Sys!Next]_Control!Sys!vars
            /\ part = "guards" => [Control!Setting!Next]_Control!Setting!vars
            /\ part = "dialogs" => [Control!Dialog!Next]_Control!Dialog!vars
            /\ part = "backups" => [Control!Backups!Next]_Control!Backups!vars
            /\ part = "delay" => [Parts!Delay!Next]_Parts!Delay!vars
            /\ part = "choice" => [Parts!Choice!Next]_Parts!Choice!vars
            /\ part = "card" => [Parts!Card!Next]_Parts!Card!vars
            /\ part = "chain" => [Parts!Chain!Next]_Parts!Chain!vars
            /\ part = "editor" => [Parts!Doc!Next]_Parts!Doc!vars
            /\ part = "dns" => [Parts!Dns!Next]_Parts!Dns!vars
            /\ part = "edits" => [Parts!Edits!Next]_Parts!Edits!vars
            /\ part = "tests" => [Parts!Tests!Next]_Parts!Tests!vars
            /\ part = "update" => [Control!Update!Next]_Control!Update!vars
            /\ part = "build" => [Control!Build!Next]_Control!Build!vars
            /\ part = "data" => [Others!Build!Next]_Others!Build!vars
  OBVIOUS
<1>1. part = "patching" => [Control!Verge!Next]_Control!Verge!vars
  BY PartSteps, Stutter DEF Control!Verge!vars, Control!Verge!draftVars, Control!Verge!callVars, Control!Verge!proxyVars, Control!Verge!refreshVars, Control!Verge!history
<1>2. part = "saving" => [Others!Verge!Next]_Others!Verge!vars
  BY PartSteps, Stutter DEF Others!Verge!vars, Others!Verge!draftVars, Others!Verge!callVars, Others!Verge!proxyVars, Others!Verge!refreshVars, Others!Verge!history
<1>3. part = "core" => [Control!Core!Next]_Control!Core!vars
  BY PartSteps, Stutter DEF Control!Core!vars, Control!Core!stateVars, Control!Core!systemVars, Control!Core!managerVars, Control!Core!history
<1>4. part = "schedule" => [Control!Backup!Next]_Control!Backup!vars
  BY PartSteps, Stutter DEF Control!Backup!vars, Control!Backup!settingsVars, Control!Backup!runnerVars, Control!Backup!backupVars
<1>5. part = "auto" => [Others!Backup!Next]_Others!Backup!vars
  BY PartSteps, Stutter DEF Others!Backup!vars, Others!Backup!settingsVars, Others!Backup!runnerVars, Others!Backup!backupVars
<1>6. part = "exit" => [Control!Exit!Next]_Control!Exit!vars
  BY PartSteps, Stutter DEF Control!Exit!vars, Control!Exit!queryVars, Control!Exit!guardVars, Control!Exit!cardVars, Control!Exit!history
<1>7. part = "account" => [Control!Account!Next]_Control!Account!vars
  BY PartSteps, Stutter DEF Control!Account!vars, Control!Account!queries, Control!Account!world, Control!Account!flows
<1>8. part = "page" => [Parts!Page!Next]_Parts!Page!vars
  BY PartSteps, Stutter DEF Parts!Page!vars
<1>9. part = "upd" => [Parts!Upd!Next]_Parts!Upd!vars
  BY PartSteps, Stutter DEF Parts!Upd!vars
<1>10. part = "sysproxy" => [Control!Sys!Next]_Control!Sys!vars
  BY PartSteps, Stutter DEF Control!Sys!vars
<1>11. part = "guards" => [Control!Setting!Next]_Control!Setting!vars
  BY PartSteps, Stutter DEF Control!Setting!vars
<1>12. part = "dialogs" => [Control!Dialog!Next]_Control!Dialog!vars
  BY PartSteps, Stutter DEF Control!Dialog!vars
<1>13. part = "backups" => [Control!Backups!Next]_Control!Backups!vars
  BY PartSteps, Stutter DEF Control!Backups!vars
<1>14. part = "delay" => [Parts!Delay!Next]_Parts!Delay!vars
  BY PartSteps, Stutter DEF Parts!Delay!vars
<1>15. part = "choice" => [Parts!Choice!Next]_Parts!Choice!vars
  BY PartSteps, Stutter DEF Parts!Choice!vars
<1>16. part = "card" => [Parts!Card!Next]_Parts!Card!vars
  BY PartSteps, Stutter DEF Parts!Card!vars, Parts!Card!card
<1>17. part = "chain" => [Parts!Chain!Next]_Parts!Chain!vars
  BY PartSteps, Stutter DEF Parts!Chain!vars
<1>18. part = "editor" => [Parts!Doc!Next]_Parts!Doc!vars
  BY PartSteps, Stutter DEF Parts!Doc!vars
<1>19. part = "dns" => [Parts!Dns!Next]_Parts!Dns!vars
  BY PartSteps, Stutter DEF Parts!Dns!vars
<1>20. part = "edits" => [Parts!Edits!Next]_Parts!Edits!vars
  BY PartSteps, Stutter DEF Parts!Edits!vars
<1>21. part = "tests" => [Parts!Tests!Next]_Parts!Tests!vars
  BY PartSteps, Stutter DEF Parts!Tests!vars
<1>22. part = "update" => [Control!Update!Next]_Control!Update!vars
  BY PartSteps, Stutter DEF Control!Update!vars, Control!Update!script, Control!Update!app
<1>23. part = "build" => [Control!Build!Next]_Control!Build!vars
  BY PartSteps, Stutter DEF Control!Build!vars, Control!Build!remote
<1>24. part = "data" => [Others!Build!Next]_Others!Build!vars
  BY PartSteps, Stutter DEF Others!Build!vars, Others!Build!remote
<1>. QED BY <1>1, <1>2, <1>3, <1>4, <1>5, <1>6, <1>7, <1>8, <1>9, <1>10, <1>11, <1>12, <1>13, <1>14, <1>15, <1>16, <1>17,
             <1>18, <1>19, <1>20, <1>21, <1>22, <1>23, <1>24

(* and stays the same part.                                                *)
LEMMA PartStays ==
  [Next]_vars =>
    /\ ~(part = "patching") => (~(part = "patching"))'
    /\ part = "patching" => (part = "patching")'
    /\ ~(part = "saving") => (~(part = "saving"))'
    /\ part = "saving" => (part = "saving")'
    /\ ~(part = "core") => (~(part = "core"))'
    /\ part = "core" => (part = "core")'
    /\ ~(part = "schedule") => (~(part = "schedule"))'
    /\ part = "schedule" => (part = "schedule")'
    /\ ~(part = "auto") => (~(part = "auto"))'
    /\ part = "auto" => (part = "auto")'
    /\ ~(part = "exit") => (~(part = "exit"))'
    /\ part = "exit" => (part = "exit")'
    /\ ~(part = "account") => (~(part = "account"))'
    /\ part = "account" => (part = "account")'
    /\ ~(part = "page") => (~(part = "page"))'
    /\ part = "page" => (part = "page")'
    /\ ~(part = "upd") => (~(part = "upd"))'
    /\ part = "upd" => (part = "upd")'
    /\ ~(part = "sysproxy") => (~(part = "sysproxy"))'
    /\ part = "sysproxy" => (part = "sysproxy")'
    /\ ~(part = "guards") => (~(part = "guards"))'
    /\ part = "guards" => (part = "guards")'
    /\ ~(part = "dialogs") => (~(part = "dialogs"))'
    /\ part = "dialogs" => (part = "dialogs")'
    /\ ~(part = "backups") => (~(part = "backups"))'
    /\ part = "backups" => (part = "backups")'
    /\ ~(part = "delay") => (~(part = "delay"))'
    /\ part = "delay" => (part = "delay")'
    /\ ~(part = "choice") => (~(part = "choice"))'
    /\ part = "choice" => (part = "choice")'
    /\ ~(part = "card") => (~(part = "card"))'
    /\ part = "card" => (part = "card")'
    /\ ~(part = "chain") => (~(part = "chain"))'
    /\ part = "chain" => (part = "chain")'
    /\ ~(part = "editor") => (~(part = "editor"))'
    /\ part = "editor" => (part = "editor")'
    /\ ~(part = "dns") => (~(part = "dns"))'
    /\ part = "dns" => (part = "dns")'
    /\ ~(part = "edits") => (~(part = "edits"))'
    /\ part = "edits" => (part = "edits")'
    /\ ~(part = "tests") => (~(part = "tests"))'
    /\ part = "tests" => (part = "tests")'
    /\ ~(part = "update") => (~(part = "update"))'
    /\ part = "update" => (part = "update")'
    /\ ~(part = "build") => (~(part = "build"))'
    /\ part = "build" => (part = "build")'
    /\ ~(part = "data") => (~(part = "data"))'
    /\ part = "data" => (part = "data")'
<1>1. [Next]_vars => part' = part
  BY Stutter, Zenon DEF Next
<1>. QED BY <1>1

(* The parts of the backend: a change that succeeded stays and is in force *)
(* and in the file, a core that runs is one a stop reaches, backups are    *)
(* apart, the last kept, and made by the settings in force.                *)
THEOREM PartsBackendAgrees == Spec => []BackendAgrees
  BY PartStarts, PartMoves, PartStays, NoActivation, VergePatches, CoreCommands, BackupDistances, Control!VergeAccepted, Control!VergeSystem, Control!VergeOffAfterQuit, Others!VergeAccepted, Others!VergeFile, Control!CoreNamed, Control!CoreOne, Control!BackupSettings, Others!BackupSpaced, Others!BackupLast, PTL
     DEF Spec, BackendAgrees, Control!Verge!Spec, Others!Verge!Spec, Control!Core!Spec, Control!Backup!Spec, Others!Backup!Spec

(* The exit: a mismatch is told when it lasts, once, and held until it is  *)
(* over; an account is shown once its exit has matched.                    *)
THEOREM PartsExitGuarded == Spec => []ExitGuarded
  BY PartStarts, PartMoves, PartStays, NoActivation, ExitDurations, Control!ExitHolds, Control!AccountHolds, PTL
     DEF Spec, ExitGuarded

(* The page of profiles: what it waits for is running, and nothing keeps   *)
(* its mark or its spinner when nothing does.                              *)
THEOREM PartsProfilesFollow == Spec => []ProfilesFollow
  BY PartStarts, PartMoves, PartStays, PageProfiles, Parts!PageHolds, Parts!UpdHolds, PTL
     DEF Spec, ProfilesFollow

(* Settings: once nothing is under way the last change of each is stored   *)
(* and shown, in both of its places; the backups listed are there.         *)
THEOREM PartsSettingsStick == Spec => []SettingsStick
  BY PartStarts, PartMoves, PartStays, NoActivation, GuardValues, Control!SysHolds, Control!GuardHolds, Control!DialogHolds, Control!BackupsHold, PTL
     DEF Spec, SettingsStick

(* Choosing nodes: the last choice is in force, the saved one is put back, *)
(* rows and card show what is stored, a chain holds no node twice and is   *)
(* called connected when it is.                                            *)
THEOREM PartsChoicesHold == Spec => []ChoicesHold
  BY PartStarts, PartMoves, PartStays, ChoiceGroups, Parts!DelayHolds, Parts!ChoiceHolds, Parts!CardHolds, Parts!ChainHolds, PTL
     DEF Spec, ChoicesHold

(* Lists and editors: what is saved is what was entered, in whichever of   *)
(* two views or places, and what is shown once nothing is on its way; a    *)
(* file holds a text that was accepted.                                    *)
THEOREM PartsEditsKept == Spec => []EditsKept
  BY PartStarts, PartMoves, PartStays, EditLists, Parts!DocHolds, Parts!DnsHolds, Parts!EditsHold, Parts!TestsHold, PTL
     DEF Spec, EditsKept

(* Releases: a build that ended well has whole binaries of one release,    *)
(* what is published is whole and of one release, and downloaded once.     *)
THEOREM PartsScriptsKeep == Spec => []ScriptsKeep
  BY PartStarts, PartMoves, PartStays, NoActivation, ReleaseFiles, Control!BuildHolds, Others!BuildHolds, Control!UpdateHolds, PTL
     DEF Spec, ScriptsKeep
===============================================================================
