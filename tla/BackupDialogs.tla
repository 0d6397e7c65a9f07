----------------------------- MODULE BackupDialogs -----------------------------
(***************************************************************************)
(* The dialogs of backups (src/src/components/setting/mods/): the buttons  *)
(* that create and import (backup-viewer.tsx), the list with delete and    *)
(* restore (backup-history-viewer.tsx), the WebDAV account                 *)
(* (backup-webdav-dialog.tsx, backup-config-viewer.tsx) and the switches   *)
(* of automatic backups (auto-backup-settings.tsx).                        *)
(*                                                                         *)
(* What the last call said of a WebDAV account is kept in one slot of the  *)
(* local storage, with the account (src/src/services/webdav-status.ts); a  *)
(* failed account is not listed again until it is asked for.               *)
(***************************************************************************)
EXTENDS Naturals, FiniteSets

CONSTANTS Files, Accounts,
          MaxSteps    \* bound on what the user starts

VARIABLES files,     \* what each source holds
          account,   \* the stored WebDAV account
          status,    \* the slot: account, what is known of it
          answer,    \* what the last call with an account said, unknown once it is saved
          open, source, rows,
          ran,       \* what the effect on fetchRows last ran for
          calls,     \* running calls: listings and backups
          confirm,   \* pendingConfirmation: action, file, source, whether it runs
          restarting,
          met,       \* a listing ran while another did
          auto,      \* the switches: stored, pendingValues, the running change
          steps

vars == <<files, account, status, answer, open, source, rows, ran, calls, confirm, restarting, met, auto, steps>>
history == <<open, source, rows, ran, confirm, restarting, met>>

Nil == "none"
Sources == {"local", "webdav"}
Known == {"unknown", "ready", "failed"}
NoConfirm == [action |-> Nil, file |-> Nil, source |-> Nil, runs |-> FALSE]
NoRows == [source |-> "local", files |-> {}]

NoKey == [source |-> Nil, account |-> Nil, known |-> Nil]

getWebdavStatus(a) == IF status.account = a THEN status.known ELSE "unknown"
BugSetWebdavStatus(a, k) == status' = [account |-> account, known |-> k]
setWebdavStatus(a, k) == status' = [account |-> a, known |-> k]

Listings == {c \in calls : c.kind = "list"}
isBusy == Listings # {} \/ confirm.runs \/ restarting
NewId == CHOOSE i \in 1..9 : \A c \in calls : c.id # i
Call(kind, s, a) == calls' = calls \cup {[kind |-> kind, id |-> NewId, source |-> s, account |-> a]}
Key == [source |-> source, account |-> account, known |-> getWebdavStatus(account)]
Step == steps < MaxSteps /\ steps' = steps + 1

Init ==
  /\ files \in [Sources -> SUBSET Files] /\ account \in Accounts
  /\ status = [account |-> account, known |-> "unknown"]
  /\ answer = [a \in Accounts |-> "unknown"]
  /\ open = FALSE /\ source = "local" /\ rows = NoRows /\ ran = NoKey
  /\ calls = {} /\ confirm = NoConfirm /\ restarting = FALSE /\ met = FALSE
  /\ auto = [stored |-> [f \in {"schedule", "change"} |-> FALSE], pending |-> <<>>, patch |-> <<>>]
  /\ steps = 0

-------------------------------------------------------------------------------
(* The list.                                                               *)
openHistory(s) ==
  /\ ~open /\ Step
  /\ open' = TRUE /\ source' = s /\ ran' = NoKey
  /\ UNCHANGED <<files, account, status, answer, rows, calls, confirm, restarting, met, auto>>

closeHistory ==
  /\ open /\ confirm = NoConfirm /\ open' = FALSE
  /\ UNCHANGED <<files, account, status, answer, source, rows, ran, calls, confirm, restarting, met, auto, steps>>

Tab(s) ==
  /\ open /\ ~isBusy /\ confirm = NoConfirm /\ ran = Key /\ s # source /\ Step /\ source' = s
  /\ UNCHANGED <<files, account, status, answer, open, rows, ran, calls, confirm, restarting, met, auto>>

List(force) ==
  /\ met' = (Listings # {})
  /\ IF source = "webdav" /\ getWebdavStatus(account) = "failed" /\ ~force
     THEN rows' = [source |-> source, files |-> {}] /\ UNCHANGED calls
     ELSE Call("list", source, account) /\ UNCHANGED rows

fetchRows ==
  /\ open /\ ran # Key /\ ran' = Key /\ List(FALSE)
  /\ UNCHANGED <<files, account, status, answer, open, source, confirm, restarting, auto, steps>>

handleRefresh ==
  /\ open /\ ~isBusy /\ confirm = NoConfirm /\ Step /\ List(TRUE)
  /\ UNCHANGED <<files, account, status, answer, open, source, ran, confirm, restarting, auto>>

(* The answer: sorted into rows, whatever is shown by now.                 *)
Listed(c, ok) ==
  /\ c \in Listings /\ calls' = calls \ {c}
  /\ rows' = [source |-> c.source, files |-> IF ok THEN files[c.source] ELSE {}]
  /\ IF c.source = "webdav"
     THEN LET k == IF ok THEN "ready" ELSE "failed"
          IN setWebdavStatus(c.account, k) /\ answer' = [answer EXCEPT ![c.account] = k]
     ELSE UNCHANGED <<status, answer>>
  /\ UNCHANGED <<files, account, open, source, ran, confirm, restarting, met, auto, steps>>

(* Delete or restore: asked first, and one at a time.                      *)
handleDelete(action, f) ==
  /\ open /\ ~isBusy /\ confirm = NoConfirm /\ ran = Key /\ f \in rows.files /\ Step
  /\ confirm' = [action |-> action, file |-> f, source |-> source, runs |-> FALSE]
  /\ UNCHANGED <<files, account, status, answer, open, source, rows, ran, calls, restarting, met, auto>>

handleConfirmAction ==
  /\ confirm # NoConfirm /\ ~confirm.runs /\ confirm' = [confirm EXCEPT !.runs = TRUE]
  /\ UNCHANGED <<files, account, status, answer, open, source, rows, ran, calls, restarting, met, auto, steps>>

closeConfirmDialog ==
  /\ confirm # NoConfirm /\ ~confirm.runs /\ confirm' = NoConfirm
  /\ UNCHANGED <<files, account, status, answer, open, source, rows, ran, calls, restarting, met, auto, steps>>

BugDeleted ==
  /\ confirm.runs /\ confirm.action = "delete" /\ confirm.file \in files[confirm.source]
  /\ files' = [files EXCEPT ![confirm.source] = @ \ {confirm.file}]
  /\ confirm' = NoConfirm
  /\ UNCHANGED <<account, status, answer, open, source, rows, ran, calls, restarting, met, auto, steps>>

Deleted ==
  /\ confirm.runs /\ confirm.action = "delete" /\ confirm.file \in files[confirm.source]
  /\ files' = [files EXCEPT ![confirm.source] = @ \ {confirm.file}]
  /\ confirm' = NoConfirm /\ List(FALSE)
  /\ UNCHANGED <<account, status, answer, open, source, ran, restarting, auto, steps>>

Restored ==
  /\ confirm.runs /\ confirm.action = "restore"
  /\ confirm' = NoConfirm /\ restarting' = TRUE
  /\ UNCHANGED <<files, account, status, answer, open, source, rows, ran, calls, met, auto, steps>>

(* A failure: the question stays.                                          *)
ActionFails ==
  /\ confirm.runs /\ confirm' = [confirm EXCEPT !.runs = FALSE]
  /\ UNCHANGED <<files, account, status, answer, open, source, rows, ran, calls, restarting, met, auto, steps>>

(* A second after a restore the app starts again, or says why not.         *)
RestartApp(ok) ==
  /\ restarting /\ restarting' = FALSE
  /\ IF ok THEN open' = FALSE /\ rows' = NoRows /\ calls' = {} /\ met' = FALSE
     ELSE UNCHANGED <<open, rows, calls, met>>
  /\ UNCHANGED <<files, account, status, answer, source, ran, confirm, auto, steps>>

-------------------------------------------------------------------------------
(* A backup, created with a button or imported from a file: the import     *)
(* opens the list.                                                         *)
handleBackup(s) ==
  /\ ~open /\ Step /\ \A c \in calls : c.kind # "backup"
  /\ Call("backup", s, account)
  /\ UNCHANGED <<files, account, status, answer, history, auto>>

BackupEnds(c, f, ok) ==
  /\ c \in calls /\ c.kind = "backup" /\ calls' = calls \ {c}
  /\ IF ok THEN files' = [files EXCEPT ![c.source] = @ \cup {f}] ELSE UNCHANGED files
  /\ IF c.source = "webdav"
     THEN LET k == IF ok THEN "ready" ELSE "failed"
          IN setWebdavStatus(c.account, k) /\ answer' = [answer EXCEPT ![c.account] = k]
     ELSE UNCHANGED <<status, answer>>
  /\ UNCHANGED <<account, history, auto, steps>>

handleImport(f) ==
  /\ ~open /\ Step
  /\ files' = [files EXCEPT !["local"] = @ \cup {f}]
  /\ open' = TRUE /\ source' = "local" /\ ran' = NoKey
  /\ UNCHANGED <<account, status, answer, rows, calls, confirm, restarting, met, auto>>

(* The account: saved, unknown, and tried.                                 *)
save(a) ==
  /\ ~open /\ Step
  /\ account' = a /\ setWebdavStatus(a, "unknown") /\ answer' = [answer EXCEPT ![a] = "unknown"]
  /\ Call("refresh", "webdav", a)
  /\ UNCHANGED <<files, history, auto>>

onInit ==
  /\ ~open /\ getWebdavStatus(account) # "failed" /\ Step
  /\ Call("refresh", "webdav", account)
  /\ UNCHANGED <<files, account, status, answer, history, auto>>

refreshWebdav(c, ok) ==
  /\ c \in calls /\ c.kind = "refresh" /\ calls' = calls \ {c}
  /\ LET k == IF ok THEN "ready" ELSE "failed"
     IN setWebdavStatus(c.account, k) /\ answer' = [answer EXCEPT ![c.account] = k]
  /\ UNCHANGED <<files, account, history, auto, steps>>

-------------------------------------------------------------------------------
(* The switches: shown as changed until what is stored is the same.        *)
values == IF auto.pending = <<>> THEN auto.stored ELSE auto.pending[1]

applyPatch(field) ==
  /\ ~open /\ auto.patch = <<>> /\ Step
  /\ auto' = [auto EXCEPT !.pending = <<[values EXCEPT ![field] = ~@]>>,
                          !.patch = <<field>>]
  /\ UNCHANGED <<files, account, status, answer, history, calls>>

Applied ==
  /\ auto.patch # <<>>
  /\ auto' = [auto EXCEPT !.stored[auto.patch[1]] = values[auto.patch[1]], !.patch = <<>>]
  /\ UNCHANGED <<files, account, status, answer, history, calls, steps>>

BugApplyFails ==
  /\ auto.patch # <<>> /\ auto' = [auto EXCEPT !.patch = <<>>]
  /\ UNCHANGED <<files, account, status, answer, history, calls, steps>>

ApplyFails ==
  /\ auto.patch # <<>> /\ auto' = [auto EXCEPT !.pending = <<>>, !.patch = <<>>]
  /\ UNCHANGED <<files, account, status, answer, history, calls, steps>>

Progress ==
  \/ fetchRows \/ Deleted \/ Restored \/ ActionFails \/ Applied \/ ApplyFails
  \/ \E ok \in BOOLEAN :
       \/ RestartApp(ok)
       \/ \E c \in calls : Listed(c, ok) \/ refreshWebdav(c, ok) \/ \E f \in Files : BackupEnds(c, f, ok)

Next ==
  \/ Progress
  \/ closeHistory \/ handleRefresh \/ handleConfirmAction \/ closeConfirmDialog \/ onInit
  \/ \E s \in Sources : openHistory(s) \/ Tab(s) \/ handleBackup(s)
  \/ \E f \in Files, a \in {"delete", "restore"} : handleDelete(a, f)
  \/ \E f \in Files : handleImport(f)
  \/ \E a \in Accounts : save(a)
  \/ \E f \in DOMAIN auto.stored : applyPatch(f)

Spec == Init /\ [][Next]_vars /\ WF_vars(Progress)

-------------------------------------------------------------------------------
(* Every backup in the list is one of the source shown, which delete and   *)
(* restore act on, also after deletions and failures, unless two listings  *)
(* ran at once (a list closed and opened again while it loads).            *)
RowsExist ==
  open /\ ~isBusy /\ ran = Key /\ ~met => rows.source = source /\ rows.files \subseteq files[source]

(* What is known of the stored account is what the last call with that     *)
(* account said, however late the calls with others answer.                *)
StatusIsOfAccount == getWebdavStatus(account) \in {"unknown", answer[account]}

(* With no change under way the switches show what is stored.              *)
AutoIsStored == auto.patch = <<>> => values = auto.stored

(* What the dialog waits for ends, and its buttons work again.             *)
BusyEnds == isBusy ~> ~isBusy
===============================================================================
