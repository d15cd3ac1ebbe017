--------------------------- MODULE CredentialStore ---------------------------
(***************************************************************************)
(* The credential files of codex-proxy and the goroutines of auth.Manager  *)
(* that share them: the refreshes (refreshAccount, recoverAuth401Once,     *)
(* ProbeRestoredAccount), the save workers behind saveQueue, the scan of   *)
(* the directory (scanNewFiles), the removals (RemoveAccount,              *)
(* DisableAccountByRenamingFile) and the recovery of disabled files        *)
(* (RunDisabledCredentialRecovery), with crashes and restarts.             *)
(*                                                                         *)
(* A credential is a path; its files are "json" (x.json), "tmp"            *)
(* (x.json.tmp) and "off", "off1", "off2" (x.json.disabled, with numbers).  *)
(* A token is its number in the order the authorization server issued      *)
(* them: every refresh answers with a new refresh token and spends the old *)
(* one.  An account is an object made when a file is loaded; accountIndex  *)
(* knows one per path, but a goroutine may still hold one that has left.   *)
(***************************************************************************)
EXTENDS Naturals, Sequences, FiniteSets

CONSTANTS Paths,      \* credential files
          Workers,    \* goroutines of StartSaveWorker
          SetUps,     \* how the proxy is set up, with the bounds for each
          QueueCap,   \* capacity of saveQueue
          MaxCrashes  \* bound: crashes

\* recovers: the recovery of disabled files is configured; uploads: the user puts
\* new files while the proxy runs; kinds: the refreshes that run; bounds: tokens
\* issued per credential, accounts loaded between two restarts.
ASSUME BoundsAssumption ==
    /\ IsFiniteSet(Paths) /\ Workers \cap Nat = {}
    /\ SetUps \subseteq [recovers : BOOLEAN, uploads : BOOLEAN, kinds : SUBSET {"loop", "direct"},
                         tokens : Nat \ {0}, objects : Nat \ {0}]
    /\ \A a, b \in SetUps : a.recovers = b.recovers => a = b
    /\ QueueCap \in Nat \ {0} /\ MaxCrashes \in Nat

VARIABLES
    disk,      \* the files of each path that exist, with their contents
    issued,    \* the server's newest token of each path
    objects,   \* the accounts loaded so far: path and token
    index,     \* accountIndex: path to account, 0 for none
    task,      \* what the goroutine holding the account's refreshing flag does
    saveQueue,
    saver,     \* each save under way: a worker's, or a refresh's own
    leaving,   \* accounts out of the index whose file is still to be dealt with
    scan, recovery, crashes,
    gone,      \* ghost: paths RemoveAccount took out, until a new file is put there
    dropped,   \* ghost: accounts whose last save found the queue full
    overlapped \* ghost: paths of which one save opened the temporary file in another's

mem == <<objects, index>>
vars == <<disk, issued, mem, task, saveQueue, saver, leaving, scan, recovery,
          crashes, gone, dropped, overlapped>>

Accounts == UNION {1 .. s.objects : s \in SetUps}
Savers == Workers \cup Accounts
PathOf(o) == objects[o].path
Idle == [pc |-> "idle"]

\* A recovery that is not configured stays off; so the set-up can be told from it.
Off == [pc |-> "off"]
SetUpOf == [r \in {s.recovers : s \in SetUps} |-> CHOOSE s \in SetUps : s.recovers = r]
SetUp == SetUpOf[recovery # Off]

-----------------------------------------------------------------------------
\* Files.  A damaged file is empty, cut short, or holds parts of two writes.
Damaged == 0
DisabledNames == <<"off", "off1", "off2">>  \* bound: 256 names in the code
Disabled == {DisabledNames[i] : i \in DOMAIN DisabledNames}
Has(p, f) == f \in DOMAIN disk[p]
Whole(p, f) == Has(p, f) /\ disk[p][f] # Damaged

Put(p, f, content) ==
    disk' = [disk EXCEPT ![p] = [g \in DOMAIN @ \cup {f} |-> IF g = f THEN content ELSE @[g]]]

\* An open file follows its inode: to its new name, or to none at all.
Follow(s, p, f, to) ==
    [w \in Savers |->
        IF s[w].pc # "write" \/ PathOf(s[w].o) # p THEN s[w]
        ELSE IF s[w].fd = f THEN [s[w] EXCEPT !.fd = to]
        ELSE IF s[w].fd = to THEN [s[w] EXCEPT !.fd = "none"] ELSE s[w]]

\* os.Remove and os.Rename; s: the saves after the caller's own step.
Unlink(p, f, s) ==
    /\ disk' = [disk EXCEPT ![p] = [g \in DOMAIN @ \ {f} |-> @[g]]]
    /\ saver' = Follow(s, p, f, "none")

Rename(p, f, to, s) ==
    IF Has(p, f)
    THEN /\ disk' = [disk EXCEPT ![p] = [g \in (DOMAIN @ \ {f}) \cup {to} |->
                                            IF g = to THEN @[f] ELSE @[g]]]
         /\ saver' = Follow(s, p, f, to)
    ELSE disk' = disk /\ saver' = s

-----------------------------------------------------------------------------
\* Accounts made from the files of ps, with the tokens read, after those of objs.
Order(ps) == CHOOSE f \in [1 .. Cardinality(ps) -> ps] : \A p \in ps : \E i \in DOMAIN f : f[i] = p

Load(objs, idx, ps, read) ==
    /\ Len(objs) + Cardinality(ps) <= SetUp.objects
    /\ objects' = objs \o [i \in 1 .. Cardinality(ps) |->
                              [path |-> Order(ps)[i], token |-> read[Order(ps)[i]]]]
    /\ index' = [p \in Paths |->
                    IF p \in ps
                    THEN Len(objs) + (CHOOSE i \in 1 .. Cardinality(ps) : Order(ps)[i] = p)
                    ELSE idx[p]]

Contents == [p \in {q \in Paths : Whole(q, "json")} |-> disk[p]["json"]]

NoTasks == [o \in Accounts |-> Idle]
NoSaves == [w \in Savers |-> Idle]

\* Started on one whole file for each path: LoadAccounts has read them all.
Init ==
    /\ disk = [p \in Paths |-> [f \in {"json"} |-> 1]]
    /\ issued = [p \in Paths |-> 1]
    /\ objects = [i \in 1 .. Cardinality(Paths) |-> [path |-> Order(Paths)[i], token |-> 1]]
    /\ index = [p \in Paths |-> CHOOSE i \in 1 .. Cardinality(Paths) : Order(Paths)[i] = p]
    /\ task = NoTasks /\ saver = NoSaves /\ saveQueue = <<>> /\ leaving = {}
    /\ scan = Idle /\ recovery \in {IF s.recovers THEN Idle ELSE Off : s \in SetUps}
    /\ crashes = 0 /\ gone = {} /\ dropped = {} /\ overlapped = {}

\* The process dies, or main returns on a signal without waiting for the
\* workers; the next one loads the whole files.  It needs one to start at all,
\* which may be that of a credential outside Paths.
Crash ==
    /\ crashes < MaxCrashes /\ crashes' = crashes + 1
    /\ Load(<<>>, [p \in Paths |-> 0], DOMAIN Contents, Contents)
    /\ task' = NoTasks /\ saver' = NoSaves /\ saveQueue' = <<>> /\ leaving' = {}
    /\ scan' = Idle /\ dropped' = {}
    /\ recovery' = IF recovery = Off THEN Off ELSE Idle
    /\ gone' = {p \in gone : ~Has(p, "json")}
    /\ UNCHANGED <<disk, issued, overlapped>>

\* The user logs in again and puts a new file where there is none.
NewFile(p) ==
    /\ SetUp.uploads /\ ~Has(p, "json") /\ issued[p] < SetUp.tokens
    /\ issued' = [issued EXCEPT ![p] = @ + 1]
    /\ Put(p, "json", issued'[p])
    /\ gone' = gone \ {p}
    /\ UNCHANGED <<mem, task, saveQueue, saver, leaving, scan, recovery, crashes,
                   dropped, overlapped>>

-----------------------------------------------------------------------------
\* Refreshes: any goroutine that still has the account may start one.
BeginRefresh(o, kind) ==
    /\ o <= Len(objects) /\ task[o].pc = "idle"
    /\ task' = [task EXCEPT ![o] = [pc |-> "asking", kind |-> kind, token |-> objects[o].token]]
    /\ UNCHANGED <<disk, issued, mem, saveQueue, saver, leaving, scan, recovery,
                   crashes, gone, dropped, overlapped>>

\* The server takes the newest token only and spends it.
Issue(o) ==
    /\ task[o].pc = "asking" /\ task[o].token = issued[PathOf(o)]
    /\ issued[PathOf(o)] < SetUp.tokens
    /\ issued' = [issued EXCEPT ![PathOf(o)] = @ + 1]

Granted(o) ==
    /\ Issue(o)
    /\ objects' = [objects EXCEPT ![o].token = issued'[PathOf(o)]]
    /\ task' = [task EXCEPT ![o].pc = IF task[o].kind = "loop" THEN "enqueue" ELSE "check"]
    /\ UNCHANGED <<disk, index, saveQueue, saver, leaving, scan, recovery, crashes,
                   gone, dropped, overlapped>>

\* The answer is lost: RefreshTokenWithRetry asks again with the spent token.
AnswerLost(o) ==
    /\ Issue(o)
    /\ UNCHANGED <<disk, mem, task, saveQueue, saver, leaving, scan, recovery,
                   crashes, gone, dropped, overlapped>>

\* RemoveAccount and DisableAccountByRenamingFile under m.mu: the account that
\* leaves is the one the index has for the path.
Leave(o, how, by) ==
    /\ index[PathOf(o)] # 0
    /\ [o |-> o, how |-> how, by |-> by] \notin leaving
    /\ index' = [index EXCEPT ![PathOf(o)] = 0]
    /\ leaving' = leaving \cup {[o |-> o, how |-> how, by |-> by]}
    /\ gone' = IF how = "remove" THEN gone \cup {PathOf(o)} ELSE gone
    /\ UNCHANGED objects

NotLeaving == UNCHANGED <<mem, leaving, gone>>

FailRefresh(o) ==
    /\ \/ \E how \in {"remove", "disable"} :
            Leave(o, how, "task") /\ task' = [task EXCEPT ![o].pc = "leaving"]
       \/ \* a cooldown, or RemoveAccount finds the path out of the index
          NotLeaving /\ task' = [task EXCEPT ![o] = Idle]
    /\ UNCHANGED <<disk, issued, saveQueue, saver, scan, recovery, crashes,
                   dropped, overlapped>>

Denied(o) == task[o].pc = "asking" /\ FailRefresh(o)

\* afterRefreshValidateQuota: a valid account goes on, an invalid one is removed.
QuotaAccepts(o) ==
    /\ task[o].pc = "check"
    /\ IF task[o].kind = "loop"
       THEN task' = [task EXCEPT ![o] = Idle] /\ saver' = saver
       ELSE /\ task' = [task EXCEPT ![o].pc = "save"]
            /\ saver' = [saver EXCEPT ![o] = [pc |-> "read", o |-> o]]
    /\ UNCHANGED <<disk, issued, mem, saveQueue, leaving, scan, recovery, crashes,
                   gone, dropped, overlapped>>

QuotaRejects(o) ==
    /\ task[o].pc = "check"
    /\ \/ Leave(o, "remove", "task") /\ task' = [task EXCEPT ![o].pc = "leaving"]
       \/ index[PathOf(o)] = 0 /\ NotLeaving /\ task' = [task EXCEPT ![o] = Idle]
    /\ UNCHANGED <<disk, issued, saveQueue, saver, scan, recovery, crashes,
                   dropped, overlapped>>

\* Mutant: an account that is being saved is not queued again.
EnqueueUnlessSaving(o) ==
    /\ task[o].pc = "enqueue"
    /\ IF \E w \in Workers : saver[w].pc # "idle" /\ saver[w].o = o
       THEN UNCHANGED <<saveQueue, dropped>>
       ELSE IF Len(saveQueue) < QueueCap
       THEN saveQueue' = Append(saveQueue, o) /\ dropped' = dropped \ {o}
       ELSE saveQueue' = saveQueue /\ dropped' = dropped \cup {o}
    /\ task' = [task EXCEPT ![o] = IF task[o].kind = "loop" THEN [@ EXCEPT !.pc = "check"] ELSE Idle]
    /\ UNCHANGED <<disk, issued, mem, saver, leaving, scan, recovery, crashes, gone,
                   overlapped>>

Enqueue(o) ==
    /\ task[o].pc = "enqueue"
    /\ IF Len(saveQueue) < QueueCap
       THEN saveQueue' = Append(saveQueue, o) /\ dropped' = dropped \ {o}
       ELSE saveQueue' = saveQueue /\ dropped' = dropped \cup {o}
    /\ task' = [task EXCEPT ![o] = IF task[o].kind = "loop" THEN [@ EXCEPT !.pc = "check"] ELSE Idle]
    /\ UNCHANGED <<disk, issued, mem, saver, leaving, scan, recovery, crashes, gone,
                   overlapped>>

\* A quota check outside any refresh finds the account invalid.
Condemn(o) ==
    /\ o <= Len(objects) /\ Leave(o, "remove", "quota")
    /\ UNCHANGED <<disk, issued, task, saveQueue, saver, scan, recovery, crashes,
                   dropped, overlapped>>

\* The second half of RemoveAccount and DisableAccountByRenamingFile, unlocked.
FreeNames(p) == {i \in DOMAIN DisabledNames : ~Has(p, DisabledNames[i])}
FirstFree(p) == DisabledNames[CHOOSE i \in FreeNames(p) : \A j \in FreeNames(p) : i <= j]

SettleFile(r) ==
    LET p == PathOf(r.o)
    IN  /\ \/ r.how = "remove" /\ Unlink(p, "json", saver) /\ gone' = gone \cup {p}
           \/ /\ r.how = "disable" /\ FreeNames(p) # {}
              /\ Rename(p, "json", FirstFree(p), saver) /\ gone' = gone
        /\ leaving' = leaving \ {r}
        /\ task' = IF r.by = "task" THEN [task EXCEPT ![r.o] = Idle] ELSE task
        /\ UNCHANGED <<issued, mem, saveQueue, scan, recovery, crashes, dropped,
                       overlapped>>

Refresh(o) ==
    \/ \E kind \in SetUp.kinds : BeginRefresh(o, kind)
    \/ Granted(o) \/ AnswerLost(o) \/ Denied(o)
    \/ QuotaAccepts(o) \/ QuotaRejects(o) \/ Enqueue(o)

-----------------------------------------------------------------------------
\* Saves.
SaverStep == UNCHANGED <<issued, mem, leaving, scan, recovery, crashes, gone>>

\* saveTokenToFile returns: a refresh that saves itself goes on to enqueueSave.
Returned(w) == IF w \in Accounts THEN [task EXCEPT ![w].pc = "enqueue"] ELSE task

TakeSave(w) ==
    /\ saver[w].pc = "idle" /\ saveQueue # <<>>
    /\ saver' = [saver EXCEPT ![w] = [pc |-> "read", o |-> Head(saveQueue)]]
    /\ saveQueue' = Tail(saveQueue)
    /\ UNCHANGED <<disk, task, dropped, overlapped>> /\ SaverStep

ReadToken(w) ==
    /\ saver[w].pc = "read"
    /\ saver' = [saver EXCEPT ![w] = [pc |-> "open", o |-> @.o, token |-> objects[@.o].token]]
    /\ UNCHANGED <<disk, task, saveQueue, dropped, overlapped>> /\ SaverStep

\* Mutant: the file itself is written, without a temporary one.
OpenInPlace(w) ==
    /\ saver[w].pc = "open"
    /\ Put(PathOf(saver[w].o), "json", Damaged)
    /\ saver' = [saver EXCEPT ![w] = [pc |-> "write", o |-> @.o, token |-> @.token, fd |-> "json"]]
    /\ UNCHANGED <<task, saveQueue, dropped, overlapped>> /\ SaverStep

\* os.WriteFile truncates the temporary file, whoever else has it open.
OpenTmp(w) ==
    /\ saver[w].pc = "open"
    /\ Put(PathOf(saver[w].o), "tmp", Damaged)
    /\ saver' = [saver EXCEPT ![w] = [pc |-> "write", o |-> @.o, token |-> @.token, fd |-> "tmp"]]
    /\ overlapped' = overlapped \cup
          {PathOf(saver[v].o) : v \in {v \in Savers : saver[v].pc \in {"write", "rename", "clean"}
                                                  /\ PathOf(saver[v].o) = PathOf(saver[w].o)}}
    /\ UNCHANGED <<task, saveQueue, dropped>> /\ SaverStep

\* Mutant: the old file is removed before the temporary one is renamed.
WriteTmpClearing(w) ==
    /\ saver[w].pc = "write"
    /\ LET p == PathOf(saver[w].o)
       IN  disk' = [disk EXCEPT ![p] = [f \in DOMAIN @ \ {"json"} |->
                                           IF f = saver[w].fd THEN saver[w].token ELSE @[f]]]
    /\ saver' = [saver EXCEPT ![w] = [pc |-> "rename", o |-> @.o]]
    /\ UNCHANGED <<task, saveQueue, dropped, overlapped>> /\ SaverStep

\* Written over another save's text, the file may keep a part of it.
WriteTmp(w) ==
    /\ saver[w].pc = "write"
    /\ LET p == PathOf(saver[w].o)
           fd == saver[w].fd
       IN  \/ ~Has(p, fd) /\ disk' = disk
           \/ Has(p, fd) /\ Put(p, fd, saver[w].token)
           \/ Has(p, fd) /\ disk[p][fd] \notin {Damaged, saver[w].token} /\ Put(p, fd, Damaged)
    /\ saver' = [saver EXCEPT ![w] = [pc |-> "rename", o |-> @.o]]
    /\ UNCHANGED <<task, saveQueue, dropped, overlapped>> /\ SaverStep

\* The disk is full: the temporary file stays as it is, the error is logged.
WriteFails(w) ==
    /\ saver[w].pc = "write"
    /\ saver' = [saver EXCEPT ![w] = Idle]
    /\ dropped' = dropped \cup {saver[w].o}
    /\ task' = Returned(w)
    /\ UNCHANGED <<disk, saveQueue, overlapped>> /\ SaverStep

RenameTmp(w) ==
    /\ saver[w].pc = "rename"
    /\ LET p == PathOf(saver[w].o)
       IN  IF Has(p, "tmp")
           THEN Rename(p, "tmp", "json", [saver EXCEPT ![w] = Idle]) /\ task' = Returned(w)
           ELSE saver' = [saver EXCEPT ![w].pc = "clean"] /\ UNCHANGED <<disk, task>>
    /\ UNCHANGED <<saveQueue, dropped, overlapped>> /\ SaverStep

\* The rename has failed; the temporary file may be another save's by now.
CleanTmp(w) ==
    /\ saver[w].pc = "clean"
    /\ Unlink(PathOf(saver[w].o), "tmp", [saver EXCEPT ![w] = Idle])
    /\ dropped' = dropped \cup {saver[w].o}
    /\ task' = Returned(w)
    /\ UNCHANGED <<saveQueue, overlapped>> /\ SaverStep

Save(w) == ReadToken(w) \/ OpenTmp(w) \/ WriteTmp(w) \/ WriteFails(w) \/ RenameTmp(w) \/ CleanTmp(w)

-----------------------------------------------------------------------------
\* scanNewFiles, one at a time in the refresh loop.
LoopStep == UNCHANGED <<issued, saveQueue, leaving, crashes, gone, dropped, overlapped>>
ScanStep == UNCHANGED <<disk, saver, task, recovery>> /\ LoopStep

ScanList ==
    /\ scan.pc = "idle"
    /\ scan' = [pc |-> "filter", found |-> {p \in Paths : Has(p, "json")}]
    /\ UNCHANGED mem /\ ScanStep

ScanFilter ==
    /\ scan.pc = "filter"
    /\ scan' = LET new == {p \in scan.found : index[p] = 0}
               IN  IF new = {} THEN Idle ELSE [pc |-> "load", new |-> new, read |-> <<>>]
    /\ UNCHANGED mem /\ ScanStep

ScanLoad(p) ==
    /\ scan.pc = "load" /\ p \in scan.new
    /\ scan' = [pc |-> "load", new |-> scan.new \ {p},
                read |-> IF Whole(p, "json")
                         THEN [q \in DOMAIN scan.read \cup {p} |->
                                  IF q = p THEN disk[p]["json"] ELSE scan.read[q]]
                         ELSE scan.read]
    /\ UNCHANGED mem /\ ScanStep

ScanMerge ==
    /\ scan.pc = "load" /\ scan.new = {}
    /\ Load(objects, index, {p \in DOMAIN scan.read : index[p] = 0}, scan.read)
    /\ scan' = Idle
    /\ ScanStep

Scan == ScanList \/ ScanFilter \/ (\E p \in Paths : ScanLoad(p)) \/ ScanMerge

-----------------------------------------------------------------------------
\* RunDisabledCredentialRecovery, one at a time; its sorted order is any order.
RecoverList ==
    /\ recovery.pc = "idle"
    /\ recovery' = [pc |-> "next", todo |-> {x \in Paths \X Disabled : Has(x[1], x[2])}]
    /\ UNCHANGED <<disk, mem, saver, task, scan>> /\ LoopStep

NextFile(r) == [pc |-> "next", todo |-> r.todo]

\* os.Stat: a path that has its file is skipped.
RecoverStat(p, f) ==
    /\ recovery.pc = "next" /\ <<p, f>> \in recovery.todo
    /\ recovery' = LET rest == recovery.todo \ {<<p, f>>}
                   IN  IF Has(p, "json") THEN [pc |-> "next", todo |-> rest]
                       ELSE [pc |-> "rename", todo |-> rest, p |-> p, f |-> f]
    /\ UNCHANGED <<disk, mem, saver, task, scan>> /\ LoopStep

RecoverRename ==
    /\ recovery.pc = "rename"
    /\ Rename(recovery.p, recovery.f, "json", saver)
    /\ recovery' = IF Has(recovery.p, recovery.f) THEN [recovery EXCEPT !.pc = "load"]
                   ELSE NextFile(recovery)
    /\ UNCHANGED <<mem, task, scan>> /\ LoopStep

RecoverLoad ==
    /\ recovery.pc = "load"
    /\ recovery' = IF Whole(recovery.p, "json")
                   THEN [pc |-> "insert", todo |-> recovery.todo, p |-> recovery.p,
                         f |-> recovery.f, token |-> disk[recovery.p]["json"]]
                   ELSE [recovery EXCEPT !.pc = "unlink"]
    /\ UNCHANGED <<disk, mem, saver, task, scan>> /\ LoopStep

RecoverUnlink ==
    /\ recovery.pc = "unlink"
    /\ Unlink(recovery.p, "json", saver)
    /\ recovery' = NextFile(recovery)
    /\ UNCHANGED <<mem, task, scan>> /\ LoopStep

RecoverInsert ==
    /\ recovery.pc = "insert"
    /\ IF index[recovery.p] # 0
       THEN recovery' = [recovery EXCEPT !.pc = "back"] /\ UNCHANGED mem
       ELSE /\ Load(objects, index, {recovery.p}, [p \in {recovery.p} |-> recovery.token])
            /\ recovery' = [pc |-> "probe", todo |-> recovery.todo, o |-> index'[recovery.p]]
    /\ UNCHANGED <<disk, saver, task, scan>> /\ LoopStep

RecoverBack ==
    /\ recovery.pc = "back"
    /\ Rename(recovery.p, "json", recovery.f, saver)
    /\ recovery' = NextFile(recovery)
    /\ UNCHANGED <<mem, task, scan>> /\ LoopStep

\* ProbeRestoredAccount refreshes the account, unless another goroutine does.
RecoverProbe ==
    /\ recovery.pc = "probe"
    /\ IF task[recovery.o].pc = "idle"
       THEN /\ task' = [task EXCEPT ![recovery.o] =
                          [pc |-> "asking", kind |-> "loop", token |-> objects[recovery.o].token]]
            /\ recovery' = [recovery EXCEPT !.pc = "wait"]
       ELSE task' = task /\ recovery' = NextFile(recovery)
    /\ UNCHANGED <<disk, mem, saver, scan>> /\ LoopStep

RecoverDone ==
    /\ \/ recovery.pc = "wait" /\ task[recovery.o].pc = "idle" /\ recovery' = NextFile(recovery)
       \/ recovery.pc = "next" /\ recovery.todo = {} /\ recovery' = Idle
    /\ UNCHANGED <<disk, mem, saver, task, scan>> /\ LoopStep

Recovery ==
    \/ RecoverList \/ RecoverRename \/ RecoverLoad \/ RecoverUnlink
    \/ RecoverInsert \/ RecoverBack \/ RecoverProbe \/ RecoverDone
    \/ \E p \in Paths, f \in Disabled : RecoverStat(p, f)

Next ==
    \/ \E o \in Accounts : Refresh(o) \/ Condemn(o)
    \/ \E w \in Workers : TakeSave(w)
    \/ \E w \in Savers : Save(w)
    \/ \E r \in leaving : SettleFile(r)
    \/ Scan \/ Recovery
    \/ \E p \in Paths : NewFile(p)
    \/ Crash

Spec == Init /\ [][Next]_vars

-----------------------------------------------------------------------------
Credentials == {"json"} \cup Disabled
TaskPcs == {"idle", "asking", "check", "save", "enqueue", "leaving"}
SaverPcs == {"idle", "read", "open", "write", "rename", "clean"}

\* Every variable keeps its type: what the goroutines hold and where they are.
TypeOK ==
    /\ \A p \in Paths : /\ DOMAIN disk[p] \subseteq Credentials \cup {"tmp"}
                        /\ \A f \in DOMAIN disk[p] : disk[p][f] \in 0 .. issued[p]
                        /\ issued[p] \in 1 .. SetUp.tokens
                        /\ index[p] \in 0 .. Len(objects)
    /\ Len(objects) <= SetUp.objects
    /\ \A o \in DOMAIN objects : PathOf(o) \in Paths /\ objects[o].token \in 1 .. SetUp.tokens
    /\ \A o \in Accounts : task[o].pc \in TaskPcs
    /\ \A w \in Savers : saver[w].pc \in SaverPcs
    /\ Len(saveQueue) <= QueueCap /\ \A i \in DOMAIN saveQueue : saveQueue[i] \in DOMAIN objects
    /\ gone \subseteq Paths /\ dropped \subseteq DOMAIN objects
    /\ leaving \subseteq [o : DOMAIN objects, how : {"remove", "disable"}, by : {"task", "quota"}]

\* "原子写入：先写临时文件，成功后再重命名，避免写入失败损坏原文件"
\* (saveTokenToFile): a credential file, enabled or disabled, is never empty, cut
\* short or mixed from two writes.
AtomicWrite == \A p \in Paths, f \in Credentials : Has(p, f) => Whole(p, f)

\* The same, of every credential of which no two saves met in the temporary file:
\* saves that fail or are cut by a crash leave it as it was.
FileWhole == \A p \in Paths \ overlapped, f \in Credentials : Has(p, f) => Whole(p, f)

\* Disabling, recovering and saving never lose a credential between them: a path
\* that RemoveAccount has not taken out has its file, enabled or disabled.
Present == \A p \in Paths \ (gone \cup overlapped) : \E f \in Credentials : Has(p, f)

\* When nothing of the account of a credential is under way and no save of it was
\* dropped or failed, its file holds the token it has, not one that is spent: with
\* one save worker.  Of two, one may have read the token before a refresh and open
\* the temporary file after the other has saved the new one: the spent token comes
\* back, and no save is under way any more.  (Of a credential that was never
\* disabled: an account loaded before may write too.)
OneWorker == \A v, w \in Workers : v = w

AtRest(o) ==
    /\ task[o].pc = "idle" /\ o \notin dropped
    /\ \A i \in DOMAIN saveQueue : saveQueue[i] # o
    /\ \A w \in Savers : saver[w].pc # "idle" => saver[w].o # o

OnlyAccount(p) == index[p] # 0 /\ \A o \in DOMAIN objects : PathOf(o) = p => o = index[p]

SavedAtRest ==
    OneWorker /\ recovery = Off =>
        \A p \in Paths \ overlapped :
            OnlyAccount(p) /\ AtRest(index[p]) /\ Has(p, "json") =>
                disk[p]["json"] = objects[index[p]].token
=============================================================================
