------------------------------- MODULE Server --------------------------------
(***************************************************************************)
(* The server process around its sessions: clients' requests and           *)
(* administrators' operations on keys, models, files, settings and the     *)
(* password, the audit log they write, and the life of the process: start, *)
(* shutdown, crash and what a new process finds.                           *)
(*                                                                         *)
(* A request is a program of steps; one step is one critical section, one  *)
(* database statement or one file operation, and steps of different        *)
(* handlers interleave.  The process may end between any two of them.      *)
(***************************************************************************)
EXTENDS KeyCache, ModelTable, AssetStore, AuditLog

CONSTANTS
  Admins,          \* administrators' connections
  Clients,         \* API clients' connections
  Areas,           \* bound: the requests of a behaviour are about one of these
  Passwords,       \* admin passwords
  DefaultPassword, \* the configured one
  SessionIds,      \* sessions, each used once
  MaxRequests,     \* bound: requests in a behaviour, for each area
  MaxStops         \* bound: ends of a process

VARIABLES
  phase,     \* up, closing (main flushes), shutdown (no new request) or down
  area,      \* what this behaviour's requests are about
  prog,      \* what each goroutine still has to do
  settings,  \* RuntimeSettings: KeyMode and UnknownModelBehavior
  password,  \* AdminAuth.customPass, or the configured password
  saved,     \* the setting admin_password
  clash,     \* history: a change of the password overlapped another or was not saved
  tokens,    \* administrators with a token that AdminAuth knows
  sesRow,    \* each session's row: none, running or ended
  session,   \* the session a client's handler runs
  cut,       \* history: sessions that were running when a process ended
  requests,  \* requests made
  stops      \* processes ended

accountVars == <<password, saved, clash, tokens>>
sessionVars == <<sesRow, session, cut>>
boundVars == <<area, requests, stops>>
vars == <<keyVars, modelVars, assetVars, auditVars, phase, prog, settings, accountVars,
          sessionVars, boundVars>>

Workers == Admins \union Clients
Actors == Workers \union {"loop", "main"}
NoSession == "no session"
Settings == [keyMode : {"any", "require"}, fallback : BOOLEAN]

ASSUME ServerAssumption ==
  /\ Areas \subseteq {"keys", "models", "files", "account"}
  /\ MaxRequests \in [Areas -> Nat] /\ MaxStops \in Nat
  /\ KeyUsers = Workers /\ ModelUsers = Workers /\ FileUsers = Workers /\ Flushers = Actors
  /\ Admins \intersect Clients = {} /\ {"loop", "main"} \intersect Workers = {}
  /\ DefaultPassword \in Passwords

-----------------------------------------------------------------------------
(***************************************************************************)
(* The programs of the handlers.                                           *)
(***************************************************************************)
Do(op) == [op |-> op]
Logged(steps) == Append(steps, Do("log"))

EditOfKey(patch) == Logged(<<Do("list"), [op |-> "update", patch |-> patch]>>)
DeletionOfKey == Logged(<<Do("list"), Do("delete_key")>>)

NewModel(id, t) == Logged(<<[op |-> "insert", id |-> id, text |-> t]>>)
EditOfModel(id, patch) ==
  Logged(<<[op |-> "get", id |-> id], [op |-> "update_model", patch |-> patch]>>)
Clone(id, new) == Logged(<<[op |-> "get", id |-> id], [op |-> "clone", id |-> new]>>)
DeletionOfModel(id) == Logged(<<[op |-> "delete_model", id |-> id]>>)

Deletion == <<Do("find"), Do("remove"), Do("delete_row")>>

LogIn(p) == Logged(<<[op |-> "login", password |-> p]>>)
LogOut == <<Do("logout")>>
ChangePassword(old, new) ==
  Logged(<<[op |-> "verify", password |-> old], [op |-> "set", password |-> new],
           [op |-> "save", password |-> new]>>)

SetSettings(patch) == Logged(<<[op |-> "settings", patch |-> patch]>>)
ListAudit == <<Do("flush")>>

Check == <<Do("lookup")>>
Chat(id) == Check \o <<[op |-> "resolve", id |-> id], Do("begin"), Do("end")>>
\* Mutant of Upload: the row first.
UploadRowFirst == <<Do("create"), Do("create_row"), Do("write")>>

Upload == <<Do("create"), Do("write"), Do("create_row")>>

\* doUploads stores the parts of a form one after another.
UploadForm == Check \o Upload \o Upload
Download == Check \o <<Do("find"), Do("open")>>
DeleteOwn == Check \o Deletion

\* What can be asked for, in each area.
KeyRequests ==
  {EditOfKey([enabled |-> b]) : b \in BOOLEAN} \union {EditOfKey([limit |-> l]) : l \in Limits}
  \union {DeletionOfKey} \union {SetSettings([keyMode |-> m]) : m \in {"any", "require"}}

ModelRequests ==
  {NewModel(id, t) : id \in ModelIds, t \in Texts}
  \union {EditOfModel(id, [enabled |-> b]) : id \in ModelIds, b \in BOOLEAN}
  \union {EditOfModel(id, [text |-> t]) : id \in ModelIds, t \in Texts}
  \union {EditOfModel(id, [id |-> new]) : id \in ModelIds, new \in ModelIds}
  \union {Clone(id, new) : id \in ModelIds, new \in ModelIds}
  \union {DeletionOfModel(id) : id \in ModelIds}
  \union {SetSettings([fallback |-> TRUE])}

AccountRequests ==
  {LogOut, ListAudit} \union {ChangePassword(old, new) : old \in Passwords, new \in Passwords}

AdminPrograms ==
  CASE area = "keys" -> KeyRequests
    [] area = "models" -> ModelRequests
    [] area = "files" -> {Logged(Deletion), ListAudit}
    [] area = "account" -> AccountRequests

ClientPrograms ==
  CASE area = "keys" -> {Chat(DefaultModel)}
    [] area = "models" -> {Chat(id) : id \in ModelIds}
    [] area = "files" -> {Check \o Upload, UploadForm, Download, <<Do("preview")>>, DeleteOwn}
    [] area = "account" -> {}

\* The settings of a new process, whatever administrators chose before.
Default == [keyMode |-> "any", fallback |-> FALSE]

\* In the area of keys an administrator has made keys a requirement.
Init ==
  /\ KeyInit /\ ModelInit /\ AssetInit /\ AuditInit
  /\ phase = "up" /\ area \in Areas /\ prog = [a \in Actors |-> <<>>]
  /\ settings = [Default EXCEPT !.keyMode = IF area = "keys" THEN "require" ELSE @]
  /\ password = DefaultPassword /\ saved = DefaultPassword /\ clash = FALSE /\ tokens = Admins
  /\ sesRow = [s \in SessionIds |-> "none"] /\ session = [h \in Workers |-> NoSession]
  /\ cut = {} /\ requests = 0 /\ stops = 0

-----------------------------------------------------------------------------
Serving == phase \in {"up", "closing"}
Ready(a, op) == phase # "down" /\ prog[a] # <<>> /\ Head(prog[a]).op = op
Advance(a) == prog' = [prog EXCEPT ![a] = Tail(@)]
Before(a, steps) == prog' = [prog EXCEPT ![a] = steps \o Tail(@)]
\* An error answer ends the handler.
Refuse(a) == prog' = [prog EXCEPT ![a] = <<>>]

\* The parts of the state a step leaves alone.
OnlyKeys == UNCHANGED <<modelVars, assetVars, auditVars, phase, settings, accountVars, sessionVars, boundVars>>
OnlyModels == UNCHANGED <<keyVars, assetVars, auditVars, phase, settings, accountVars, sessionVars, boundVars>>
OnlyFiles == UNCHANGED <<keyVars, modelVars, auditVars, phase, settings, accountVars, sessionVars, boundVars>>
OnlyAudit == UNCHANGED <<keyVars, modelVars, assetVars, phase, settings, accountVars, sessionVars, boundVars>>
OnlyAccount == UNCHANGED <<keyVars, modelVars, assetVars, auditVars, phase, settings, sessionVars, boundVars>>
OnlySettings == UNCHANGED <<keyVars, modelVars, assetVars, auditVars, phase, accountVars, sessionVars, boundVars>>
OnlySession == UNCHANGED <<keyVars, modelVars, assetVars, auditVars, phase, settings, accountVars, boundVars>>

\* A request on an idle connection; what the last one read is no longer
\* looked at.
Ask(h, program) ==
  /\ Serving /\ prog[h] = <<>> /\ requests < MaxRequests[area]
  /\ prog' = [prog EXCEPT ![h] = program]
  /\ requests' = requests + 1
  /\ held' = [held EXCEPT ![h] = NoKey]
  /\ copy' = [copy EXCEPT ![h] = NoCopy]
  /\ file' = [file EXCEPT ![h] = NoFile]
  /\ got' = [got EXCEPT ![h] = "nothing"]
  /\ UNCHANGED <<key, cache, was, ideal, stale, models, freed, disk, rows, used, removed,
                 auditVars, phase, area, settings, accountVars, sessionVars, stops>>

\* guard lets administrators with a token pass; login needs none.
AdminAsks(h) ==
  \/ h \in tokens /\ \E program \in AdminPrograms : Ask(h, program)
  \/ h \notin tokens /\ \E p \in Passwords : Ask(h, LogIn(p))

ClientAsks(h) == \E program \in ClientPrograms : Ask(h, program)

-----------------------------------------------------------------------------
(***************************************************************************)
(* resolveKey and the key handlers.                                        *)
(***************************************************************************)
Enter(h) == IF Accepted(h)' THEN Advance(h) ELSE Refuse(h)

CheckKey(h) ==
  /\ \/ /\ Ready(h, "lookup") /\ settings.keyMode = "any"
        /\ Advance(h) /\ UNCHANGED keyVars
     \/ /\ Ready(h, "lookup") /\ settings.keyMode = "require"
        /\ Lookup(h)
        /\ IF cache = NoKey THEN Before(h, <<Do("query"), Do("fill")>>) ELSE Enter(h)
     \/ Ready(h, "query") /\ Query(h) /\ Advance(h)
     \/ Ready(h, "fill") /\ Fill(h) /\ Enter(h)
  /\ OnlyKeys

EditKey(h) ==
  /\ \/ /\ Ready(h, "list") /\ ListKeys(h)
        /\ IF key = NoKey THEN Refuse(h) ELSE Advance(h)
     \/ Ready(h, "update") /\ UpdateKey(h, Head(prog[h]).patch) /\ Advance(h)
     \/ Ready(h, "delete_key") /\ DeleteKey(h) /\ Advance(h)
  /\ OnlyKeys

\* handleSettings: Update changes the settings under their lock.
UpdateSettings(h) ==
  /\ Ready(h, "settings")
  /\ settings' = Patched(settings, Head(prog[h]).patch)
  /\ Advance(h) /\ OnlySettings

-----------------------------------------------------------------------------
(***************************************************************************)
(* The model handlers, and resolveModel.                                   *)
(***************************************************************************)
EditModel(h) ==
  LET step == Head(prog[h]) IN
  /\ \/ /\ Ready(h, "get")
        /\ \/ GetModel(h, step.id) /\ Advance(h)
           \/ UNCHANGED modelVars /\ Refuse(h)
     \/ /\ Ready(h, "insert")
        /\ IF models[step.id] = NoModel THEN CreateModel(step.id, step.text) /\ Advance(h)
           ELSE UNCHANGED modelVars /\ Refuse(h)
     \/ /\ Ready(h, "clone")
        /\ IF models[step.id] = NoModel THEN CloneModel(h, step.id) /\ Advance(h)
           ELSE UNCHANGED modelVars /\ Refuse(h)
     \/ Ready(h, "update_model") /\ UpdateModel(h, step.patch) /\ Advance(h)
     \/ Ready(h, "update_model") /\ UNCHANGED modelVars /\ Refuse(h)
     \/ Ready(h, "delete_model") /\ DeleteModel(step.id) /\ Advance(h)
  /\ OnlyModels

ResolveModel(h) ==
  /\ Ready(h, "resolve")
  /\ \/ Resolve(h, Head(prog[h]).id, settings.fallback) /\ Advance(h)
     \/ UNCHANGED modelVars /\ Refuse(h)
  /\ OnlyModels

-----------------------------------------------------------------------------
(***************************************************************************)
(* The file handlers.                                                      *)
(***************************************************************************)
UploadFile(h) ==
  /\ \/ /\ Ready(h, "create")
        /\ Create(h) /\ Advance(h)
     \/ /\ Ready(h, "write")
        /\ \/ WriteAll(h) /\ Advance(h)
           \/ WriteTooLarge(h) /\ Refuse(h)
           \/ UNCHANGED assetVars /\ Refuse(h)
     \/ /\ Ready(h, "create_row")
        /\ \/ CreateRow(h) /\ Advance(h)
           \/ UNCHANGED assetVars /\ Refuse(h)
  /\ OnlyFiles

FindFile(h) ==
  /\ Ready(h, "find")
  /\ \/ \E f \in Files : Find(h, f) /\ Advance(h)
     \/ UNCHANGED assetVars /\ Refuse(h)
  /\ OnlyFiles

OpenFile(h) ==
  /\ \/ Ready(h, "open") /\ Open(h) /\ Advance(h)
     \/ Ready(h, "preview") /\ Preview(h) /\ Advance(h)
  /\ OnlyFiles

DeleteFile(h) ==
  /\ \/ Ready(h, "remove") /\ RemoveContent(h) /\ Advance(h)
     \/ /\ Ready(h, "delete_row")
        /\ \/ DeleteRow(h) /\ Advance(h)
           \/ UNCHANGED assetVars /\ Refuse(h)
  /\ OnlyFiles

-----------------------------------------------------------------------------
(***************************************************************************)
(* AdminAuth: tokens in memory, the password in memory and in the settings *)
(* table.  A password change leaves the tokens given before it valid.      *)
(***************************************************************************)
Saving(h) == prog[h] # <<>> /\ Head(prog[h]).op = "save"

Account(h) ==
  LET step == Head(prog[h]) IN
  /\ \/ /\ Ready(h, "login")
        /\ IF step.password = password THEN tokens' = tokens \union {h} /\ Advance(h)
           ELSE UNCHANGED tokens /\ Refuse(h)
        /\ UNCHANGED <<password, saved, clash>>
     \/ /\ Ready(h, "logout") /\ Advance(h)
        /\ tokens' = tokens \ {h}
        /\ UNCHANGED <<password, saved, clash>>
     \/ /\ Ready(h, "verify") /\ UNCHANGED accountVars
        /\ IF step.password = password THEN Advance(h) ELSE Refuse(h)
     \/ /\ Ready(h, "set") /\ Advance(h)
        /\ password' = step.password
        /\ clash' = (clash \/ \E o \in Workers : Saving(o))
        /\ UNCHANGED <<saved, tokens>>
     \/ /\ Ready(h, "save") /\ Advance(h)
        /\ \/ saved' = step.password /\ UNCHANGED clash
           \/ clash' = TRUE /\ UNCHANGED saved
        /\ UNCHANGED <<password, tokens>>
  /\ OnlyAccount

-----------------------------------------------------------------------------
(***************************************************************************)
(* A session, from its row to the end of its stream; in between the        *)
(* StreamRunner runs it.                                                   *)
(***************************************************************************)
\* Mutant of EndSession: the row stays as it is.
EndSessionQuietly(h) ==
  session' = [session EXCEPT ![h] = NoSession] /\ UNCHANGED sesRow

\* Close stores the final state, on every way out of the handler.
EndSession(h) ==
  /\ sesRow' = [sesRow EXCEPT ![session[h]] = "ended"]
  /\ session' = [session EXCEPT ![h] = NoSession]

RunSession(h) ==
  /\ \/ /\ Ready(h, "begin") /\ Advance(h)
        /\ \E s \in SessionIds :
             /\ sesRow[s] = "none"
             /\ sesRow' = [sesRow EXCEPT ![s] = "running"]
             /\ session' = [session EXCEPT ![h] = s]
     \/ Ready(h, "end") /\ Advance(h) /\ EndSession(h)
  /\ UNCHANGED cut /\ OnlySession

-----------------------------------------------------------------------------
(***************************************************************************)
(* The audit log: handlers log, the loop flushes every two seconds.        *)
(***************************************************************************)
Flush == <<Do("flush")>>

LogOperation(h) ==
  /\ Ready(h, "log") /\ Log
  /\ IF BatchFull' THEN Before(h, Flush) ELSE Advance(h)
  /\ OnlyAudit

FlushStep(a) ==
  /\ \/ Ready(a, "flush") /\ batch = <<>> /\ Advance(a) /\ UNCHANGED auditVars
     \/ Ready(a, "flush") /\ TakeBatch(a) /\ Before(a, <<Do("append")>>)
     \/ /\ Ready(a, "append") /\ AppendAudit(a)
        /\ IF hands'[a] = <<>> THEN Advance(a) ELSE UNCHANGED prog
  /\ OnlyAudit

Tick ==
  /\ phase = "up" /\ prog["loop"] = <<>> /\ batch # <<>>
  /\ prog' = [prog EXCEPT !["loop"] = Flush]
  /\ UNCHANGED auditVars /\ OnlyAudit

-----------------------------------------------------------------------------
(***************************************************************************)
(* The life of the process (main).                                         *)
(***************************************************************************)
\* SIGTERM: Close tells the loop to flush a last time and flushes itself.  The
\* loop finishes the flush it is in first, and may take a tick before.
Close ==
  /\ phase = "up" /\ stops < MaxStops
  /\ phase' = "closing"
  /\ \E last \in {Flush, Flush \o Flush} :
       prog' = [prog EXCEPT !["main"] = Flush, !["loop"] = @ \o last]
  /\ UNCHANGED <<keyVars, modelVars, assetVars, auditVars, settings, accountVars, sessionVars, boundVars>>

\* srv.Shutdown: no new requests; handlers that run go on for up to 10 s.
Shutdown ==
  /\ phase = "closing" /\ prog["main"] = <<>>
  /\ phase' = "shutdown"
  /\ UNCHANGED <<keyVars, modelVars, assetVars, auditVars, prog, settings, accountVars, sessionVars, boundVars>>

\* The process ends, and with it all that is in memory.
End ==
  /\ prog' = [a \in Actors |-> <<>>]
  /\ phase' = "down" /\ stops' = stops + 1
  /\ cut' = cut \union {s \in SessionIds : sesRow[s] = "running"}
  /\ session' = [h \in Workers |-> NoSession]
  /\ Forget
  /\ clash' = (clash \/ \E h \in Workers : Saving(h))
  /\ UNCHANGED <<keyVars, modelVars, assetVars, settings, password, saved, tokens, sesRow,
                 area, requests>>

Exit == phase = "shutdown" /\ End

Crash == Serving /\ stops < MaxStops /\ End

\* Mutant of Restored: the password is not read back.
RestoredDefault(answered) == DefaultPassword

\* GetSetting; without an answer the configured password stands.
Restored(answered) == IF answered THEN saved ELSE DefaultPassword

\* main up to ListenAndServe.  The settings are the defaults again.
Start ==
  /\ phase = "down" /\ phase' = "up"
  /\ StartKeys /\ SeedModels /\ StartAssets
  /\ settings' = Default
  /\ \E answered \in BOOLEAN : password' = Restored(answered) /\ clash' = ~answered
  /\ tokens' = {}
  /\ UNCHANGED <<auditVars, prog, saved, sessionVars, boundVars>>

-----------------------------------------------------------------------------
Step(a) ==
  \/ a \in Workers /\ (\/ CheckKey(a) \/ EditKey(a) \/ UpdateSettings(a)
                       \/ EditModel(a) \/ ResolveModel(a) \/ UploadFile(a)
                       \/ FindFile(a) \/ OpenFile(a) \/ DeleteFile(a)
                       \/ Account(a) \/ RunSession(a) \/ LogOperation(a))
  \/ FlushStep(a)

Next ==
  \/ \E h \in Admins : AdminAsks(h)
  \/ \E h \in Clients : ClientAsks(h)
  \/ \E a \in Actors : Step(a)
  \/ Tick \/ Close \/ Shutdown \/ Exit \/ Crash \/ Start

Spec == Init /\ [][Next]_vars

-----------------------------------------------------------------------------
TypeOK ==
  /\ {key, cache} \subseteq Keys \union {NoKey} /\ held \in [Workers -> Keys \union {NoKey}]
  /\ models \in [ModelIds -> Rows \union {NoModel}] /\ freed \subseteq ModelIds
  /\ disk \in [Files -> {"none", "partial", "whole"}] /\ rows \subseteq used /\ used \subseteq Files
  /\ logged \in 0..MaxLogged /\ \A a \in Actors : hands[a] \in Seq(Entries)
  /\ batch \in Seq(Entries) /\ audit \in Seq(Entries)
  /\ phase \in {"up", "closing", "shutdown", "down"} /\ area \in Areas
  /\ settings \in Settings /\ {password, saved} \subseteq Passwords /\ tokens \subseteq Admins
  /\ sesRow \in [SessionIds -> {"none", "running", "ended"}]
  /\ requests \in 0..MaxRequests[area] /\ stops \in 0..MaxStops

(***************************************************************************)
(* A key that a handler accepted was enabled in some row it has had since  *)
(* the process started: however checks, edits, deletions and restarts      *)
(* interleave, the cache is at worst as old as the process.                *)
(***************************************************************************)
AcceptedOfThisLife ==
  \A h \in Clients :
    /\ settings.keyMode = "require" /\ Ready(h, "resolve") /\ held[h] # NoKey
    => held[h].enabled /\ held[h] \in was

(***************************************************************************)
(* The cache agrees with the table whenever no handler is between its two  *)
(* accesses: per-key limits are to change without a restart.               *)
(***************************************************************************)
KeyFresh ==
  phase = "up" /\ (\A h \in Workers : prog[h] = <<>>) => cache \in {NoKey, key}

(***************************************************************************)
(* The password that logs in is the stored one, which a restart will read, *)
(* unless two changes overlapped or the database failed: handlePassword    *)
(* sets one and then the other.                                            *)
(***************************************************************************)
PasswordKept ==
  phase # "down" /\ ~clash /\ (\A h \in Workers : ~Saving(h)) => saved = password

(***************************************************************************)
(* A row that says its session runs has a handler that runs it, except     *)
(* those a process left behind when it ended: only a stop makes orphans,   *)
(* which nothing finishes afterwards.                                      *)
(***************************************************************************)
OnlyStopsOrphan ==
  \A s \in SessionIds : sesRow[s] = "running" => s \in cut \/ \E h \in Workers : session[h] = s

=============================================================================
