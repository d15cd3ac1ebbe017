------------------------ MODULE CredentialStoreProofs ------------------------
(* What CredentialStore promises of the files, for any credentials, any number *)
(* of save workers and any set-ups: that they stay whole, that none is lost,   *)
(* and, with one worker and no recovery, that they hold the newest token.      *)
EXTENDS CredentialStore, FiniteSetTheorems, SequenceTheorems, TLAPS

Tokens == Nat \ {0}
AccountRecords == [path : Paths, token : Tokens]
Names == Credentials \cup {"tmp"}

SaverStates ==
    {Idle} \cup [pc : {"read", "rename", "clean"}, o : Nat]
           \cup [pc : {"open"}, o : Nat, token : Tokens]
           \cup [pc : {"write"}, o : Nat, token : Tokens, fd : Names \cup {"none"}]

Todo == SUBSET (Paths \X Disabled)
RecoveryStates ==
    {Idle, Off} \cup [pc : {"next"}, todo : Todo]
                \cup [pc : {"rename", "load", "unlink"}, todo : Todo, p : Paths, f : Disabled]
                \cup [pc : {"insert", "back"}, todo : Todo, p : Paths, f : Disabled, token : Tokens]
                \cup [pc : {"probe", "wait"}, todo : Todo, o : Nat]

FilesTyped ==
    /\ DOMAIN disk = Paths
    /\ \A p \in Paths : /\ DOMAIN disk[p] \subseteq Names
                        /\ \A f \in DOMAIN disk[p] : disk[p][f] \in Nat
    /\ issued \in [Paths -> Tokens]

\* Whoever holds an account holds one that was loaded since the start.
HoldersTyped ==
    /\ objects \in Seq(AccountRecords)
    /\ DOMAIN task = Accounts
    /\ \A o \in Accounts : task[o].pc = "idle" \/ o \in DOMAIN objects
    /\ saveQueue \in Seq(Nat) /\ \A i \in DOMAIN saveQueue : saveQueue[i] \in DOMAIN objects
    /\ \A r \in leaving : r.o \in DOMAIN objects
    /\ saver \in [Savers -> SaverStates]
    /\ \A w \in Savers : saver[w].pc # "idle" => /\ saver[w].o \in DOMAIN objects
                                                 /\ w \in Accounts => saver[w].o = w

ReadersTyped ==
    /\ scan.pc = "load" => \A p \in DOMAIN scan.read : p \in Paths /\ scan.read[p] \in Tokens
    /\ recovery \in RecoveryStates
    /\ recovery.pc \in {"probe", "wait"} => recovery.o \in DOMAIN objects

Typed == FilesTyped /\ HoldersTyped /\ ReadersTyped

\* The saves of a path that have its temporary file, or are about to give it up.
Late == {"write", "rename", "clean"}
Busy(w, p) == saver[w].pc \in Late /\ PathOf(saver[w].o) = p

\* A path without overlapping saves: one save at a time has the temporary file,
\* empty until it is written and whole afterwards; the other files are whole.
Sound(p) ==
    /\ \A v, w \in Savers : Busy(v, p) /\ Busy(w, p) => v = w
    /\ \A w \in Savers : Busy(w, p) =>
          /\ saver[w].pc = "write" => saver[w].fd = "tmp" /\ (Has(p, "tmp") => ~Whole(p, "tmp"))
          /\ saver[w].pc = "rename" => (Has(p, "tmp") => Whole(p, "tmp"))
    /\ \A f \in Credentials : Has(p, f) => Whole(p, f)

AllSound == \A p \in Paths \ overlapped : Sound(p)

IInv == Typed /\ AllSound

-----------------------------------------------------------------------------
\* Names.
LEMMA NameFacts ==
    /\ Disabled = {"off", "off1", "off2"}
    /\ Credentials = {"json", "off", "off1", "off2"}
    /\ Names = {"json", "off", "off1", "off2", "tmp"}
<1>1. Disabled = {"off", "off1", "off2"}
    BY DEF Disabled, DisabledNames
<1> QED BY <1>1 DEF Credentials, Names

LEMMA PutFacts ==
    ASSUME NEW p \in Paths, NEW f, NEW c, DOMAIN disk = Paths, Put(p, f, c)
    PROVE  /\ DOMAIN disk' = Paths
           /\ \A q \in Paths \ {p} : disk'[q] = disk[q]
           /\ DOMAIN disk'[p] = DOMAIN disk[p] \cup {f}
           /\ disk'[p][f] = c
           /\ \A g \in DOMAIN disk[p] \ {f} : disk'[p][g] = disk[p][g]
BY DEF Put

LEMMA FollowFacts ==
    ASSUME NEW s \in [Savers -> SaverStates], NEW p, NEW f \in Names, NEW to \in Names \cup {"none"}
    PROVE  /\ Follow(s, p, f, to) \in [Savers -> SaverStates]
           /\ \A w \in Savers : /\ Follow(s, p, f, to)[w].pc = s[w].pc
                                /\ s[w].pc # "idle" => Follow(s, p, f, to)[w].o = s[w].o
                                /\ /\ s[w].pc = "write" /\ s[w].fd = "tmp"
                                   /\ f # "tmp" /\ to # "tmp"
                                   => Follow(s, p, f, to)[w].fd = "tmp"
                                /\ s[w].pc # "write" \/ PathOf(s[w].o) # p
                                   => Follow(s, p, f, to)[w] = s[w]
<1> SUFFICES ASSUME NEW w \in Savers
             PROVE  /\ Follow(s, p, f, to)[w] \in SaverStates
                    /\ Follow(s, p, f, to)[w].pc = s[w].pc
                    /\ s[w].pc # "idle" => Follow(s, p, f, to)[w].o = s[w].o
                    /\ /\ s[w].pc = "write" /\ s[w].fd = "tmp"
                       /\ f # "tmp" /\ to # "tmp"
                       => Follow(s, p, f, to)[w].fd = "tmp"
                    /\ s[w].pc # "write" \/ PathOf(s[w].o) # p
                       => Follow(s, p, f, to)[w] = s[w]
    BY DEF Follow
<1>1. s[w] \in SaverStates
    OBVIOUS
<1>2. CASE s[w].pc # "write"
    <2>1. Follow(s, p, f, to)[w] = s[w]
        BY <1>2 DEF Follow
    <2> QED BY <1>1, <1>2, <2>1
<1>3. CASE s[w].pc = "write"
    <2>1. s[w] \in [pc : {"write"}, o : Nat, token : Tokens, fd : Names \cup {"none"}]
        BY <1>1, <1>3 DEF SaverStates, Idle
    <2>2. Follow(s, p, f, to)[w] \in {s[w], [s[w] EXCEPT !.fd = to], [s[w] EXCEPT !.fd = "none"]}
        BY DEF Follow
    <2>3. Follow(s, p, f, to)[w] \in SaverStates
        BY <2>1, <2>2 DEF SaverStates
    <2>4. s[w].fd = "tmp" /\ f # "tmp" /\ to # "tmp" => Follow(s, p, f, to)[w] = s[w]
        BY DEF Follow
    <2>5. PathOf(s[w].o) # p => Follow(s, p, f, to)[w] = s[w]
        BY DEF Follow
    <2> QED BY <1>3, <2>1, <2>2, <2>3, <2>4, <2>5
<1> QED BY <1>2, <1>3

LEMMA UnlinkFacts ==
    ASSUME NEW p \in Paths, NEW f \in Names, DOMAIN disk = Paths,
           NEW s \in [Savers -> SaverStates], Unlink(p, f, s)
    PROVE  /\ DOMAIN disk' = Paths
           /\ \A q \in Paths \ {p} : disk'[q] = disk[q]
           /\ DOMAIN disk'[p] = DOMAIN disk[p] \ {f}
           /\ \A g \in DOMAIN disk[p] \ {f} : disk'[p][g] = disk[p][g]
           /\ saver' = Follow(s, p, f, "none")
BY DEF Unlink

LEMMA RenameFacts ==
    ASSUME NEW p \in Paths, NEW f \in Names, NEW to \in Names \ {f}, DOMAIN disk = Paths,
           NEW s \in [Savers -> SaverStates], Rename(p, f, to, s), Has(p, f)
    PROVE  /\ DOMAIN disk' = Paths
           /\ \A q \in Paths \ {p} : disk'[q] = disk[q]
           /\ DOMAIN disk'[p] = (DOMAIN disk[p] \ {f}) \cup {to}
           /\ disk'[p][to] = disk[p][f]
           /\ \A g \in DOMAIN disk[p] \ {f, to} : disk'[p][g] = disk[p][g]
           /\ saver' = Follow(s, p, f, to)
BY DEF Rename, Has

-----------------------------------------------------------------------------
\* Loading accounts.
LEMMA OrderFacts ==
    ASSUME NEW ps \in SUBSET Paths
    PROVE  /\ Cardinality(ps) \in Nat
           /\ Order(ps) \in [1 .. Cardinality(ps) -> ps]
           /\ \A p \in ps : \E i \in 1 .. Cardinality(ps) : Order(ps)[i] = p
<1>1. IsFiniteSet(ps)
    BY BoundsAssumption, FS_Subset
<1>2. Cardinality(ps) \in Nat /\ ExistsBijection(1 .. Cardinality(ps), ps)
    BY <1>1, FS_CardinalityType
<1>3. \E f \in [1 .. Cardinality(ps) -> ps] : \A p \in ps : \E i \in DOMAIN f : f[i] = p
    <2>1. PICK f \in Bijection(1 .. Cardinality(ps), ps) : TRUE
        BY <1>2 DEF ExistsBijection
    <2>2. f \in [1 .. Cardinality(ps) -> ps]
          /\ (\A p \in ps : \E i \in 1 .. Cardinality(ps) : f[i] = p)
        BY <2>1 DEF Bijection, Surjection
    <2> QED BY <2>2
<1>4. /\ Order(ps) \in [1 .. Cardinality(ps) -> ps]
      /\ \A p \in ps : \E i \in DOMAIN Order(ps) : Order(ps)[i] = p
    BY <1>3 DEF Order
<1> QED BY <1>2, <1>4

LEMMA LoadFacts ==
    ASSUME NEW objs \in Seq(AccountRecords), NEW idx, NEW ps \in SUBSET Paths, NEW read,
           \A p \in ps : read[p] \in Tokens, Load(objs, idx, ps, read)
    PROVE  /\ objects' \in Seq(AccountRecords)
           /\ \A i \in DOMAIN objs : i \in DOMAIN objects' /\ objects'[i] = objs[i]
           /\ \A p \in ps : index'[p] \in DOMAIN objects'
<1> DEFINE n == Cardinality(ps)
           new == [i \in 1 .. n |-> [path |-> Order(ps)[i], token |-> read[Order(ps)[i]]]]
<1>1. /\ n \in Nat
      /\ Order(ps) \in [1 .. n -> ps]
      /\ \A p \in ps : \E i \in 1 .. n : Order(ps)[i] = p
    BY OrderFacts
<1>2. objects' = objs \o new
    BY DEF Load
<1>3. new \in Seq(AccountRecords) /\ Len(new) = n
    <2>1. \A i \in 1 .. n : [path |-> Order(ps)[i], token |-> read[Order(ps)[i]]] \in AccountRecords
        BY <1>1 DEF AccountRecords
    <2> QED BY <1>1, <2>1
<1>4. /\ objects' \in Seq(AccountRecords) /\ Len(objects') = Len(objs) + n
      /\ \A i \in 1 .. Len(objs) + n : objects'[i] = IF i <= Len(objs) THEN objs[i]
                                                     ELSE new[i - Len(objs)]
    <2> HIDE DEF new, n
    <2> QED BY <1>1, <1>2, <1>3, ConcatProperties
<1>5. \A p \in ps : index'[p] \in DOMAIN objects'
    <2> SUFFICES ASSUME NEW p \in ps
                 PROVE  index'[p] \in 1 .. Len(objects')
        BY <1>4
    <2>1. index'[p] = Len(objs) + (CHOOSE i \in 1 .. n : Order(ps)[i] = p)
        BY DEF Load
    <2>2. (CHOOSE i \in 1 .. n : Order(ps)[i] = p) \in 1 .. n
        BY <1>1
    <2> QED BY <1>1, <1>4, <2>1, <2>2
<1>6. \A i \in DOMAIN objs : i \in DOMAIN objects' /\ objects'[i] = objs[i]
    <2> HIDE DEF new, n
    <2> QED BY <1>1, <1>4
<1> QED BY <1>4, <1>5, <1>6

-----------------------------------------------------------------------------
\* What a step must not do to the temporary files and those who have them.
LEMMA SoundKept ==
    ASSUME AllSound, overlapped \subseteq overlapped',
           \A w \in Savers : saver'[w].pc \in Late =>
               /\ saver[w].pc = saver'[w].pc /\ PathOf(saver[w].o)' = PathOf(saver[w].o)
               /\ saver'[w].pc = "write" /\ saver[w].fd = "tmp" => saver'[w].fd = "tmp",
           \A p \in Paths : Has(p, "tmp")' => Has(p, "tmp") /\ disk'[p]["tmp"] = disk[p]["tmp"],
           \A p \in Paths \ overlapped : \A f \in Credentials : Has(p, f)' => Whole(p, f)'
    PROVE  AllSound'
<1> SUFFICES ASSUME NEW p \in Paths \ overlapped, Sound(p)
             PROVE  Sound(p)'
    BY DEF AllSound
<1>1. \A w \in Savers : Busy(w, p)' => Busy(w, p) /\ saver[w].pc = saver'[w].pc
    BY DEF Busy
<1>2. \A v, w \in Savers : Busy(v, p)' /\ Busy(w, p)' => v = w
    BY <1>1 DEF Sound
<1>3. Whole(p, "tmp")' <=> Has(p, "tmp")' /\ Whole(p, "tmp")
    BY DEF Whole
<1>4. ASSUME NEW w \in Savers, Busy(w, p)'
      PROVE  /\ saver'[w].pc = "write" =>
                    saver'[w].fd = "tmp" /\ (Has(p, "tmp")' => ~Whole(p, "tmp")')
             /\ saver'[w].pc = "rename" => (Has(p, "tmp")' => Whole(p, "tmp")')
    BY <1>1, <1>3, <1>4 DEF Sound, Busy
<1> QED BY <1>2, <1>4 DEF Sound

LEMMA SameFiles ==
    ASSUME AllSound, UNCHANGED <<disk, saver, overlapped>>,
           \A w \in Savers : saver[w].pc # "idle" => saver[w].o \in DOMAIN objects,
           \A o \in DOMAIN objects : objects'[o].path = objects[o].path
    PROVE  AllSound'
<1>1. \A w \in Savers : saver'[w].pc \in Late =>
          /\ saver[w].pc = saver'[w].pc /\ PathOf(saver[w].o)' = PathOf(saver[w].o)
          /\ saver'[w].pc = "write" /\ saver[w].fd = "tmp" => saver'[w].fd = "tmp"
    BY DEF Late, PathOf
<1>2. \A p \in Paths : Has(p, "tmp")' => Has(p, "tmp") /\ disk'[p]["tmp"] = disk[p]["tmp"]
    BY DEF Has
<1>3. \A p \in Paths \ overlapped : \A f \in Credentials : Has(p, f)' => Whole(p, f)'
    BY DEF AllSound, Sound, Has, Whole
<1> QED BY <1>1, <1>2, <1>3, SoundKept

\* A step that hands out no account but those there are.
LEMMA SameHolders ==
    ASSUME HoldersTyped, UNCHANGED <<objects, saveQueue, saver>>, DOMAIN task' = Accounts,
           \A o \in Accounts : task'[o].pc = "idle" \/ o \in DOMAIN objects,
           \A r \in leaving' : r.o \in DOMAIN objects
    PROVE  HoldersTyped'
BY DEF HoldersTyped

LEMMA LeaveFacts ==
    ASSUME HoldersTyped, NEW o \in DOMAIN objects, NEW how, NEW by, Leave(o, how, by)
    PROVE  UNCHANGED objects /\ \A r \in leaving' : r.o \in DOMAIN objects
BY DEF Leave, HoldersTyped

-----------------------------------------------------------------------------
\* Refreshes.
LEMMA TaskHolds ==
    ASSUME HoldersTyped, NEW o \in Accounts, o \in DOMAIN objects, NEW t,
           task' = [task EXCEPT ![o] = t]
    PROVE  /\ DOMAIN task' = Accounts
           /\ \A x \in Accounts : task'[x].pc = "idle" \/ x \in DOMAIN objects
BY DEF HoldersTyped

LEMMA BeginRefreshKeeps ==
    ASSUME IInv, NEW o \in Accounts, NEW kind, BeginRefresh(o, kind)
    PROVE  IInv'
<1> USE DEF IInv, Typed
<1>1. o \in DOMAIN objects
    BY DEF BeginRefresh, HoldersTyped, Accounts
<1>2. HoldersTyped'
    <2>1. \A r \in leaving' : r.o \in DOMAIN objects
        BY DEF BeginRefresh, HoldersTyped
    <2> QED BY <1>1, <2>1, TaskHolds, SameHolders DEF BeginRefresh, mem
<1>3. FilesTyped' /\ ReadersTyped'
    BY DEF BeginRefresh, FilesTyped, ReadersTyped, mem
<1>4. AllSound'
    BY SameFiles DEF BeginRefresh, HoldersTyped, mem
<1> QED BY <1>2, <1>3, <1>4

LEMMA IssueFacts ==
    ASSUME FilesTyped, UNCHANGED disk, NEW o \in DOMAIN objects, PathOf(o) \in Paths, Issue(o)
    PROVE  FilesTyped' /\ issued'[PathOf(o)] \in Tokens
BY DEF FilesTyped, Issue, Tokens

LEMMA GrantedKeeps ==
    ASSUME IInv, NEW o \in Accounts, Granted(o)
    PROVE  IInv'
<1> USE DEF IInv, Typed
<1>1. o \in DOMAIN objects
    BY DEF Granted, Issue, HoldersTyped
<1>2. objects \in Seq(AccountRecords) /\ objects[o] \in AccountRecords
    BY <1>1 DEF HoldersTyped
<1>3. FilesTyped' /\ issued'[PathOf(o)] \in Tokens
    BY <1>1, <1>2, IssueFacts DEF Granted, AccountRecords, PathOf
<1>4. /\ objects' \in Seq(AccountRecords)
      /\ DOMAIN objects' = DOMAIN objects
      /\ \A i \in DOMAIN objects : objects'[i].path = objects[i].path
    <2>1. objects' = [objects EXCEPT ![o] = [objects[o] EXCEPT !.token = issued'[PathOf(o)]]]
        BY DEF Granted
    <2>2. [objects[o] EXCEPT !.token = issued'[PathOf(o)]] \in AccountRecords
          /\ [objects[o] EXCEPT !.token = issued'[PathOf(o)]].path = objects[o].path
        BY <1>2, <1>3 DEF AccountRecords
    <2> HIDE DEF AccountRecords
    <2> QED BY <1>1, <1>2, <2>1, <2>2
<1>5. HoldersTyped'
    <2>1. UNCHANGED <<saveQueue, saver, leaving>> /\ DOMAIN task' = Accounts
          /\ \A x \in Accounts : task'[x].pc = "idle" \/ x \in DOMAIN objects
        BY <1>1 DEF Granted, HoldersTyped
    <2> QED BY <1>4, <2>1 DEF HoldersTyped
<1>6. ReadersTyped'
    BY <1>4 DEF Granted, ReadersTyped
<1>7. AllSound'
    BY <1>4, SameFiles DEF Granted, HoldersTyped
<1> QED BY <1>3, <1>5, <1>6, <1>7

LEMMA AnswerLostKeeps ==
    ASSUME IInv, NEW o \in Accounts, AnswerLost(o)
    PROVE  IInv'
<1> USE DEF IInv, Typed
<1>1. o \in DOMAIN objects
    BY DEF AnswerLost, Issue, HoldersTyped
<1>2. FilesTyped'
    <2>1. PathOf(o) \in Paths
        <3>1. objects[o] \in AccountRecords
            BY <1>1 DEF HoldersTyped
        <3> QED BY <3>1 DEF AccountRecords, PathOf
    <2> QED BY <1>1, <2>1, IssueFacts DEF AnswerLost
<1>3. HoldersTyped' /\ ReadersTyped'
    BY DEF AnswerLost, HoldersTyped, ReadersTyped, mem
<1>4. AllSound'
    BY SameFiles DEF AnswerLost, HoldersTyped, mem
<1> QED BY <1>2, <1>3, <1>4

\* A refresh that ends, or takes its account out, touches no file.
LEMMA EndedKeeps ==
    ASSUME IInv, NEW o \in Accounts, o \in DOMAIN objects, NEW t, task' = [task EXCEPT ![o] = t],
           \/ \E how, by : Leave(o, how, by)
           \/ UNCHANGED <<objects, leaving>>,
           UNCHANGED <<disk, issued, saveQueue, saver, scan, recovery, overlapped>>
    PROVE  IInv'
<1> USE DEF IInv, Typed
<1>1. UNCHANGED objects /\ \A r \in leaving' : r.o \in DOMAIN objects
    BY LeaveFacts DEF HoldersTyped
<1>2. HoldersTyped'
    BY <1>1, TaskHolds, SameHolders
<1>3. FilesTyped' /\ ReadersTyped'
    BY <1>1 DEF FilesTyped, ReadersTyped
<1>4. AllSound'
    BY <1>1, SameFiles DEF HoldersTyped
<1> QED BY <1>2, <1>3, <1>4

LEMMA FailRefreshKeeps ==
    ASSUME IInv, NEW o \in Accounts, o \in DOMAIN objects, FailRefresh(o)
    PROVE  IInv'
<1>1. \/ \E how, by : Leave(o, how, by)
      \/ UNCHANGED <<objects, leaving>>
    BY DEF FailRefresh, NotLeaving, mem
<1>2. \E t : task' = [task EXCEPT ![o] = t]
    BY DEF FailRefresh
<1> QED BY <1>1, <1>2, EndedKeeps DEF FailRefresh

LEMMA QuotaRejectsKeeps ==
    ASSUME IInv, NEW o \in Accounts, QuotaRejects(o)
    PROVE  IInv'
<1>1. o \in DOMAIN objects
    BY DEF QuotaRejects, IInv, Typed, HoldersTyped
<1>2. \/ \E how, by : Leave(o, how, by)
      \/ UNCHANGED <<objects, leaving>>
    BY DEF QuotaRejects, NotLeaving, mem
<1>3. \E t : task' = [task EXCEPT ![o] = t]
    BY DEF QuotaRejects
<1> QED BY <1>1, <1>2, <1>3, EndedKeeps DEF QuotaRejects

LEMMA CondemnKeeps ==
    ASSUME IInv, NEW o \in Accounts, Condemn(o)
    PROVE  IInv'
<1> USE DEF IInv, Typed
<1>1. o \in DOMAIN objects
    BY DEF Condemn, HoldersTyped, Accounts
<1>2. UNCHANGED objects /\ \A r \in leaving' : r.o \in DOMAIN objects
    BY <1>1, LeaveFacts DEF Condemn
<1>3. HoldersTyped'
    BY <1>2, SameHolders DEF Condemn, HoldersTyped
<1>4. FilesTyped' /\ ReadersTyped'
    BY <1>2 DEF Condemn, FilesTyped, ReadersTyped
<1>5. AllSound'
    BY <1>2, SameFiles DEF Condemn, HoldersTyped
<1> QED BY <1>3, <1>4, <1>5

LEMMA EnqueueKeeps ==
    ASSUME IInv, NEW o \in Accounts, Enqueue(o)
    PROVE  IInv'
<1> USE DEF IInv, Typed
<1>1. o \in DOMAIN objects /\ o \in Nat
    BY DEF Enqueue, HoldersTyped
<1>2. saveQueue' \in Seq(Nat) /\ \A i \in DOMAIN saveQueue' : saveQueue'[i] \in DOMAIN objects
    <2>1. saveQueue' \in {saveQueue, Append(saveQueue, o)}
        BY DEF Enqueue
    <2>2. saveQueue \in Seq(Nat) /\ \A i \in DOMAIN saveQueue : saveQueue[i] \in DOMAIN objects
        BY DEF HoldersTyped
    <2> QED BY <1>1, <2>1, <2>2
<1>3. \E t : task' = [task EXCEPT ![o] = t]
    BY DEF Enqueue
<1>4. DOMAIN task' = Accounts /\ \A x \in Accounts : task'[x].pc = "idle" \/ x \in DOMAIN objects
    BY <1>1, <1>3, TaskHolds
<1>5. UNCHANGED <<objects, saver, leaving>>
    BY DEF Enqueue, mem
<1>6. HoldersTyped'
    BY <1>2, <1>4, <1>5 DEF HoldersTyped
<1>7. FilesTyped' /\ ReadersTyped'
    BY <1>5 DEF Enqueue, FilesTyped, ReadersTyped
<1>8. AllSound'
    BY <1>5, SameFiles DEF Enqueue, HoldersTyped
<1> QED BY <1>6, <1>7, <1>8

\* A save that moves on before its temporary file, or gives it up.
LEMMA SaverMoves ==
    ASSUME HoldersTyped, AllSound, NEW w \in Savers, NEW r \in SaverStates,
           saver' = [saver EXCEPT ![w] = r],
           r.pc # "idle" => r.o \in DOMAIN objects /\ (w \in Accounts => r.o = w),
           UNCHANGED <<objects, disk, overlapped>>
    PROVE  /\ saver' \in [Savers -> SaverStates]
           /\ \A v \in Savers : saver'[v].pc # "idle" => /\ saver'[v].o \in DOMAIN objects
                                                         /\ v \in Accounts => saver'[v].o = v
           /\ r.pc \notin Late => AllSound'
<1>1. saver' \in [Savers -> SaverStates]
    BY DEF HoldersTyped
<1>2. \A v \in Savers : saver'[v].pc # "idle" => /\ saver'[v].o \in DOMAIN objects
                                                 /\ v \in Accounts => saver'[v].o = v
    BY DEF HoldersTyped
<1>3. ASSUME r.pc \notin Late
      PROVE  AllSound'
    <2>1. \A v \in Savers : saver'[v].pc \in Late =>
              /\ saver[v].pc = saver'[v].pc /\ PathOf(saver[v].o)' = PathOf(saver[v].o)
              /\ saver'[v].pc = "write" /\ saver[v].fd = "tmp" => saver'[v].fd = "tmp"
              /\ saver'[v] = saver[v]
        BY <1>3 DEF HoldersTyped, PathOf
    <2>2. \A p \in Paths : Has(p, "tmp")' => Has(p, "tmp") /\ disk'[p]["tmp"] = disk[p]["tmp"]
        BY DEF Has
    <2>3. \A p \in Paths \ overlapped : \A f \in Credentials : Has(p, f)' => Whole(p, f)'
        BY DEF AllSound, Sound, Has, Whole
    <2> QED BY <2>1, <2>2, <2>3, SoundKept
<1> QED BY <1>1, <1>2, <1>3

SaversTyped ==
    /\ saver \in [Savers -> SaverStates]
    /\ \A w \in Savers : saver[w].pc # "idle" => /\ saver[w].o \in DOMAIN objects
                                                 /\ w \in Accounts => saver[w].o = w

\* Removing a credential file, or giving it another name that a credential has.
LEMMA NamesMove ==
    ASSUME FilesTyped, HoldersTyped, AllSound, NEW p \in Paths,
           \/ \E f \in Credentials : Unlink(p, f, saver)
           \/ \E f, to \in Credentials : f # to /\ Rename(p, f, to, saver),
           UNCHANGED <<issued, objects, overlapped>>
    PROVE  FilesTyped' /\ SaversTyped' /\ AllSound'
<1> USE NameFacts
<1>0. saver \in [Savers -> SaverStates] /\ DOMAIN disk = Paths
    BY DEF HoldersTyped, FilesTyped
<1>1. SUFFICES ASSUME \/ UNCHANGED <<disk, saver>>
                      \/ \E f \in Credentials, to \in Credentials \cup {"none"} :
                             saver' = Follow(saver, p, f, to),
                      DOMAIN disk' = Paths,
                      \A q \in Paths \ {p} : disk'[q] = disk[q],
                      \A g \in DOMAIN disk'[p] \ Credentials : g \in DOMAIN disk[p]
                                                              /\ disk'[p][g] = disk[p][g],
                      \A g \in DOMAIN disk'[p] \cap Credentials :
                          \E h \in DOMAIN disk[p] \cap Credentials : disk'[p][g] = disk[p][h]
               PROVE  FilesTyped' /\ SaversTyped' /\ AllSound'
    <2>1. CASE \E f \in Credentials : Unlink(p, f, saver)
        <3>1. PICK f \in Credentials : Unlink(p, f, saver)
            BY <2>1
        <3>2. /\ DOMAIN disk' = Paths
              /\ \A q \in Paths \ {p} : disk'[q] = disk[q]
              /\ DOMAIN disk'[p] = DOMAIN disk[p] \ {f}
              /\ \A g \in DOMAIN disk[p] \ {f} : disk'[p][g] = disk[p][g]
              /\ saver' = Follow(saver, p, f, "none")
            BY <1>0, <3>1, UnlinkFacts
        <3> HIDE NameFacts
        <3> QED BY <1>1, <3>2
    <2>2. CASE \E f, to \in Credentials : f # to /\ Rename(p, f, to, saver)
        <3>1. PICK f, to \in Credentials : f # to /\ Rename(p, f, to, saver)
            BY <2>2
        <3>2. CASE Has(p, f)
            <4>1. /\ DOMAIN disk' = Paths
                  /\ \A q \in Paths \ {p} : disk'[q] = disk[q]
                  /\ DOMAIN disk'[p] = (DOMAIN disk[p] \ {f}) \cup {to}
                  /\ disk'[p][to] = disk[p][f]
                  /\ \A g \in DOMAIN disk[p] \ {f, to} : disk'[p][g] = disk[p][g]
                  /\ saver' = Follow(saver, p, f, to)
                BY <1>0, <3>1, <3>2, RenameFacts
            <4>2. f \in DOMAIN disk[p]
                BY <3>2 DEF Has
            <4> HIDE NameFacts
            <4> QED BY <1>1, <4>1, <4>2, <3>1
        <3>3. CASE ~Has(p, f)
            <4>1. UNCHANGED <<disk, saver>>
                BY <3>1, <3>3 DEF Rename
            <4> HIDE NameFacts
            <4> QED BY <1>0, <1>1, <4>1
        <3> QED BY <3>2, <3>3
    <2> QED BY <2>1, <2>2
<1>2. FilesTyped'
    <2>1. \A g \in DOMAIN disk'[p] : g \in Names /\ disk'[p][g] \in Nat
        BY <1>1 DEF FilesTyped, Names
    <2> QED BY <1>1, <2>1 DEF FilesTyped
<1>3. /\ saver' \in [Savers -> SaverStates]
      /\ \A w \in Savers : /\ saver'[w].pc = saver[w].pc
                           /\ saver[w].pc # "idle" => saver'[w].o = saver[w].o
                           /\ saver[w].pc = "write" /\ saver[w].fd = "tmp" => saver'[w].fd = "tmp"
    <2>1. CASE UNCHANGED <<disk, saver>>
        BY <1>0, <2>1
    <2>2. CASE \E f \in Credentials, to \in Credentials \cup {"none"} :
                   saver' = Follow(saver, p, f, to)
        <3>1. PICK f \in Credentials, to \in Credentials \cup {"none"} :
                  saver' = Follow(saver, p, f, to)
            BY <2>2
        <3>2. f \in Names /\ to \in Names \cup {"none"} /\ f # "tmp" /\ to # "tmp"
            OBVIOUS
        <3> HIDE NameFacts
        <3>3. /\ Follow(saver, p, f, to) \in [Savers -> SaverStates]
              /\ \A w \in Savers :
                    /\ Follow(saver, p, f, to)[w].pc = saver[w].pc
                    /\ saver[w].pc # "idle" => Follow(saver, p, f, to)[w].o = saver[w].o
                    /\ /\ saver[w].pc = "write" /\ saver[w].fd = "tmp"
                       /\ f # "tmp" /\ to # "tmp"
                       => Follow(saver, p, f, to)[w].fd = "tmp"
                    /\ saver[w].pc # "write" \/ PathOf(saver[w].o) # p
                       => Follow(saver, p, f, to)[w] = saver[w]
            BY <1>0, <3>2, FollowFacts
        <3> QED BY <3>1, <3>2, <3>3
    <2> QED BY <1>1, <2>1, <2>2
<1>4. SaversTyped'
    BY <1>3 DEF SaversTyped, HoldersTyped
<1>5. AllSound'
    <2>1. \A w \in Savers : saver'[w].pc \in Late =>
              /\ saver[w].pc = saver'[w].pc /\ PathOf(saver[w].o)' = PathOf(saver[w].o)
              /\ saver'[w].pc = "write" /\ saver[w].fd = "tmp" => saver'[w].fd = "tmp"
        BY <1>3 DEF Late, PathOf
    <2>2. \A q \in Paths : Has(q, "tmp")' => Has(q, "tmp") /\ disk'[q]["tmp"] = disk[q]["tmp"]
        BY <1>1 DEF Has
    <2>3. ASSUME NEW q \in Paths \ overlapped, NEW f \in Credentials, Has(q, f)'
          PROVE  Whole(q, f)'
        <3>1. \A g \in DOMAIN disk[q] \cap Credentials : disk[q][g] # Damaged
            BY DEF AllSound, Sound, Has, Whole
        <3>2. disk'[q][f] # Damaged
            BY <1>1, <2>3, <3>1 DEF Has
        <3> QED BY <2>3, <3>2 DEF Whole
    <2> QED BY <2>1, <2>2, <2>3, SoundKept
<1> QED BY <1>2, <1>4, <1>5

LEMMA QuotaAcceptsKeeps ==
    ASSUME IInv, NEW o \in Accounts, QuotaAccepts(o)
    PROVE  IInv'
<1> USE DEF IInv, Typed
<1>1. o \in DOMAIN objects /\ o \in Savers
    BY DEF QuotaAccepts, HoldersTyped, Savers
<1>2. UNCHANGED <<disk, issued, objects, saveQueue, leaving, scan, recovery, overlapped>>
    BY DEF QuotaAccepts, mem
<1>3. CASE UNCHANGED saver /\ \E t : task' = [task EXCEPT ![o] = t]
    BY <1>1, <1>2, <1>3, EndedKeeps
<1>4. CASE /\ saver' = [saver EXCEPT ![o] = [pc |-> "read", o |-> o]]
           /\ \E t : task' = [task EXCEPT ![o] = t]
    <2>1. [pc |-> "read", o |-> o] \in SaverStates
        BY <1>1 DEF SaverStates, HoldersTyped
    <2>2. SaversTyped' /\ AllSound'
        <3> DEFINE r == [pc |-> "read", o |-> o]
        <3>1. r.pc = "read" /\ r.o = o /\ r.pc \notin Late /\ r \in SaverStates
            BY <2>1 DEF Late
        <3>2. saver' = [saver EXCEPT ![o] = r]
            BY <1>4
        <3> HIDE DEF r
        <3> QED BY <1>1, <1>2, <3>1, <3>2, SaverMoves DEF SaversTyped
    <2>3. DOMAIN task' = Accounts /\ \A x \in Accounts : task'[x].pc = "idle" \/ x \in DOMAIN objects
        BY <1>1, <1>4, TaskHolds
    <2>4. HoldersTyped'
        BY <1>2, <2>2, <2>3 DEF HoldersTyped, SaversTyped
    <2>5. FilesTyped' /\ ReadersTyped'
        BY <1>2 DEF FilesTyped, ReadersTyped
    <2> QED BY <2>2, <2>4, <2>5
<1> QED BY <1>3, <1>4 DEF QuotaAccepts

LEMMA SettleFileKeeps ==
    ASSUME IInv, NEW r \in leaving, SettleFile(r)
    PROVE  IInv'
<1> USE DEF IInv, Typed
<1> DEFINE p == PathOf(r.o)
<1>1. p \in Paths
    <2>1. r.o \in DOMAIN objects /\ objects \in Seq(AccountRecords)
        BY DEF HoldersTyped
    <2>2. objects[r.o] \in AccountRecords
        BY <2>1
    <2> QED BY <2>2 DEF AccountRecords, PathOf
<1>2. UNCHANGED <<issued, objects, saveQueue, scan, recovery, overlapped>>
      /\ leaving' \subseteq leaving
    BY DEF SettleFile, mem
<1>3. \/ \E f \in Credentials : Unlink(p, f, saver)
      \/ \E f, to \in Credentials : f # to /\ Rename(p, f, to, saver)
    <2>1. FreeNames(p) # {} => FirstFree(p) \in Disabled
        <3> SUFFICES ASSUME FreeNames(p) # {}
                     PROVE  FirstFree(p) \in Disabled
            OBVIOUS
        <3>1. \E i \in FreeNames(p) : \A j \in FreeNames(p) : i <= j
            BY DEF FreeNames, DisabledNames
        <3> DEFINE i == CHOOSE i \in FreeNames(p) : \A j \in FreeNames(p) : i <= j
        <3>2. i \in FreeNames(p)
            BY <3>1
        <3>3. i \in DOMAIN DisabledNames /\ FirstFree(p) = DisabledNames[i]
            BY <3>2 DEF FreeNames, FirstFree
        <3> HIDE DEF i
        <3> QED BY <3>3 DEF Disabled
    <2>2. CASE r.how = "remove" /\ Unlink(p, "json", saver)
        BY <2>2, NameFacts
    <2>3. CASE FreeNames(p) # {} /\ Rename(p, "json", FirstFree(p), saver)
        <3>1. FirstFree(p) \in Credentials /\ FirstFree(p) # "json"
            BY <2>1, <2>3, NameFacts
        <3> QED BY <2>3, <3>1, NameFacts
    <2> QED BY <2>2, <2>3 DEF SettleFile
<1>4. FilesTyped' /\ SaversTyped' /\ AllSound'
    BY <1>1, <1>2, <1>3, NamesMove
<1>5. DOMAIN task' = Accounts /\ \A x \in Accounts : task'[x].pc = "idle" \/ x \in DOMAIN objects
    <2>1. task' \in {task, [task EXCEPT ![r.o] = Idle]}
        BY DEF SettleFile
    <2> QED BY <2>1 DEF HoldersTyped, Idle
<1>6. HoldersTyped'
    BY <1>2, <1>4, <1>5 DEF HoldersTyped, SaversTyped
<1>7. ReadersTyped'
    BY <1>2 DEF ReadersTyped
<1> QED BY <1>4, <1>6, <1>7

-----------------------------------------------------------------------------
\* Saves.
LEMMA ReturnedHolds ==
    ASSUME HoldersTyped, NEW w \in Savers, saver[w].pc # "idle", task' = Returned(w)
    PROVE  /\ DOMAIN task' = Accounts
           /\ \A x \in Accounts : task'[x].pc = "idle" \/ x \in DOMAIN objects
<1>1. CASE w \in Accounts
    <2>1. w \in DOMAIN objects
        BY <1>1 DEF HoldersTyped
    <2>2. task' = [task EXCEPT ![w] = [task[w] EXCEPT !.pc = "enqueue"]]
        BY <1>1 DEF Returned
    <2> QED BY <1>1, <2>1, <2>2, TaskHolds
<1>2. CASE w \notin Accounts
    BY <1>2 DEF Returned, HoldersTyped
<1> QED BY <1>1, <1>2

LEMMA SaverSteps ==
    ASSUME ReadersTyped, HoldersTyped, SaverStep, SaversTyped', UNCHANGED saveQueue,
           \/ UNCHANGED task
           \/ \E w \in Savers : saver[w].pc # "idle" /\ task' = Returned(w)
    PROVE  HoldersTyped' /\ ReadersTyped'
<1>1. DOMAIN task' = Accounts /\ \A x \in Accounts : task'[x].pc = "idle" \/ x \in DOMAIN objects
    BY ReturnedHolds DEF HoldersTyped
<1>2. UNCHANGED <<objects, leaving, scan, recovery>>
    BY DEF SaverStep, mem
<1> QED BY <1>1, <1>2 DEF HoldersTyped, SaversTyped, ReadersTyped

LEMMA TakeSaveKeeps ==
    ASSUME IInv, NEW w \in Workers, TakeSave(w)
    PROVE  IInv'
<1> USE DEF IInv, Typed
<1> DEFINE r == [pc |-> "read", o |-> Head(saveQueue)]
<1>1. UNCHANGED <<disk, issued, objects, task, leaving, scan, recovery, overlapped>>
    BY DEF TakeSave, SaverStep, mem
<1>2. w \in Savers /\ w \notin Accounts
    <2>1. Accounts \subseteq Nat
        BY BoundsAssumption DEF Accounts
    <2> QED BY <2>1, BoundsAssumption DEF Savers
<1>3. /\ Head(saveQueue) \in DOMAIN objects /\ Head(saveQueue) \in Nat
      /\ saveQueue' \in Seq(Nat)
      /\ \A i \in DOMAIN saveQueue' : saveQueue'[i] \in DOMAIN objects
    BY DEF TakeSave, HoldersTyped
<1>4. r \in SaverStates /\ r.pc = "read" /\ r.o \in DOMAIN objects
    BY <1>3 DEF SaverStates
<1>5. saver' = [saver EXCEPT ![w] = r]
    BY DEF TakeSave
<1>6. SaversTyped' /\ AllSound'
    <2>1. r.pc \notin Late
        BY <1>4 DEF Late
    <2> HIDE DEF r
    <2> QED BY <1>1, <1>2, <1>4, <1>5, <2>1, SaverMoves DEF SaversTyped
<1>7. HoldersTyped'
    BY <1>1, <1>3, <1>6 DEF HoldersTyped, SaversTyped
<1>8. FilesTyped' /\ ReadersTyped'
    BY <1>1 DEF FilesTyped, ReadersTyped
<1> QED BY <1>6, <1>7, <1>8

LEMMA ReadTokenKeeps ==
    ASSUME IInv, NEW w \in Savers, ReadToken(w)
    PROVE  IInv'
<1> USE DEF IInv, Typed
<1> DEFINE o == saver[w].o
           r == [pc |-> "open", o |-> o, token |-> objects[o].token]
<1>1. UNCHANGED <<disk, issued, objects, task, saveQueue, overlapped>> /\ SaverStep
    BY DEF ReadToken, SaverStep, mem
<1>2. saver[w].pc = "read" /\ saver' = [saver EXCEPT ![w] = r]
    BY DEF ReadToken
<1>3. o \in DOMAIN objects /\ o \in Nat /\ (w \in Accounts => o = w)
    BY <1>2 DEF HoldersTyped
<1>4. objects[o].token \in Tokens
    <2>1. objects[o] \in AccountRecords
        BY <1>3 DEF HoldersTyped
    <2> QED BY <2>1 DEF AccountRecords
<1>5. r \in SaverStates /\ r.pc = "open" /\ r.o = o
    BY <1>3, <1>4 DEF SaverStates
<1>6. SaversTyped' /\ AllSound'
    <2>1. r.pc \notin Late
        BY <1>5 DEF Late
    <2> HIDE DEF r
    <2> QED BY <1>1, <1>2, <1>3, <1>5, <2>1, SaverMoves DEF SaversTyped
<1>7. HoldersTyped' /\ ReadersTyped'
    BY <1>1, <1>6, SaverSteps
<1>8. FilesTyped'
    BY <1>1 DEF FilesTyped
<1> QED BY <1>6, <1>7, <1>8

LEMMA WriteFailsKeeps ==
    ASSUME IInv, NEW w \in Savers, WriteFails(w)
    PROVE  IInv'
<1> USE DEF IInv, Typed
<1>1. UNCHANGED <<disk, issued, objects, saveQueue, overlapped>> /\ SaverStep
    BY DEF WriteFails, SaverStep, mem
<1>2. saver[w].pc = "write" /\ saver' = [saver EXCEPT ![w] = Idle] /\ task' = Returned(w)
    BY DEF WriteFails
<1>3. Idle \in SaverStates /\ Idle.pc = "idle" /\ Idle.pc \notin Late
    BY DEF SaverStates, Idle, Late
<1>4. SaversTyped' /\ AllSound'
    BY <1>1, <1>2, <1>3, SaverMoves DEF SaversTyped
<1>5. HoldersTyped' /\ ReadersTyped'
    BY <1>1, <1>2, <1>4, SaverSteps
<1>6. FilesTyped'
    BY <1>1 DEF FilesTyped
<1> QED BY <1>4, <1>5, <1>6

LEMMA SaverPath ==
    ASSUME HoldersTyped, NEW w \in Savers, saver[w].pc # "idle"
    PROVE  PathOf(saver[w].o) \in Paths
<1>1. objects[saver[w].o] \in AccountRecords
    BY DEF HoldersTyped
<1> QED BY <1>1 DEF AccountRecords, PathOf

\* A path whose savers and files a step leaves alone stays as it is.
LEMMA OtherPath ==
    ASSUME NEW q \in Paths, Sound(q), disk'[q] = disk[q], UNCHANGED objects,
           \A v \in Savers : Busy(v, q)' => saver'[v] = saver[v]
    PROVE  Sound(q)'
<1>1. \A v \in Savers : Busy(v, q)' => Busy(v, q) /\ saver'[v] = saver[v]
    BY DEF Busy, PathOf
<1>2. \A f : (Has(q, f)' <=> Has(q, f)) /\ (Whole(q, f)' <=> Whole(q, f))
    BY DEF Has, Whole
<1>3. \A v, u \in Savers : Busy(v, q)' /\ Busy(u, q)' => v = u
    BY <1>1 DEF Sound
<1>4. \A f \in Credentials : Has(q, f)' => Whole(q, f)'
    BY <1>2 DEF Sound
<1>5. ASSUME NEW v \in Savers, Busy(v, q)'
      PROVE  /\ saver'[v].pc = "write" =>
                    saver'[v].fd = "tmp" /\ (Has(q, "tmp")' => ~Whole(q, "tmp")')
             /\ saver'[v].pc = "rename" => (Has(q, "tmp")' => Whole(q, "tmp")')
    BY <1>1, <1>2, <1>5 DEF Sound
<1> QED BY <1>3, <1>4, <1>5 DEF Sound

LEMMA OpenTmpKeeps ==
    ASSUME IInv, NEW w \in Savers, OpenTmp(w)
    PROVE  IInv'
<1> USE DEF IInv, Typed
<1> DEFINE o == saver[w].o
           p == PathOf(o)
           r == [pc |-> "write", o |-> o, token |-> saver[w].token, fd |-> "tmp"]
<1>1. /\ UNCHANGED <<issued, objects, task, saveQueue>> /\ SaverStep
      /\ saver[w].pc = "open" /\ saver' = [saver EXCEPT ![w] = r] /\ Put(p, "tmp", Damaged)
    BY DEF OpenTmp, SaverStep, mem
<1>2. p \in Paths /\ o \in DOMAIN objects /\ o \in Nat /\ (w \in Accounts => o = w)
    BY <1>1, SaverPath DEF HoldersTyped
<1>3. saver[w].token \in Tokens
    BY <1>1 DEF HoldersTyped, SaverStates, Idle
<1>4. r \in SaverStates /\ r.pc = "write" /\ r.o = o /\ r.fd = "tmp"
    BY <1>2, <1>3 DEF SaverStates, Names
<1>5. SaversTyped'
    <2> HIDE DEF r
    <2> QED BY <1>1, <1>2, <1>4 DEF SaversTyped, HoldersTyped
<1>6. /\ DOMAIN disk' = Paths
      /\ \A q \in Paths \ {p} : disk'[q] = disk[q]
      /\ DOMAIN disk'[p] = DOMAIN disk[p] \cup {"tmp"}
      /\ disk'[p]["tmp"] = Damaged
      /\ \A g \in DOMAIN disk[p] \ {"tmp"} : disk'[p][g] = disk[p][g]
    BY <1>1, <1>2, PutFacts DEF FilesTyped
<1>7. FilesTyped'
    BY <1>1, <1>2, <1>6 DEF FilesTyped, Names, Damaged
<1>8. HoldersTyped' /\ ReadersTyped'
    BY <1>1, <1>5, SaverSteps
<1>9. AllSound'
    <2> SUFFICES ASSUME NEW q \in Paths \ overlapped'
                 PROVE  Sound(q)'
        BY DEF AllSound
    <2>1. q \notin overlapped /\ Sound(q)
        BY DEF OpenTmp, AllSound
    <2>2. \A v \in Savers \ {w} : saver'[v] = saver[v]
        BY <1>1 DEF HoldersTyped
    <2>3. saver'[w] = r
        BY <1>1 DEF HoldersTyped
    <2>4. CASE q # p
        <3>1. saver'[w].o = o
            BY <1>4, <2>3
        <3>2. \A v \in Savers : Busy(v, q)' => saver'[v] = saver[v]
            BY <1>1, <2>2, <2>4, <3>1 DEF Busy, PathOf
        <3> QED BY <1>1, <1>6, <2>1, <2>4, <3>2, OtherPath
    <2>5. CASE q = p
        <3>1. \A v \in Savers : ~Busy(v, q)
            BY <2>5 DEF OpenTmp, Busy, Late
        <3>2. \A v \in Savers : Busy(v, q)' => v = w
            BY <1>1, <2>2, <2>5, <3>1 DEF Busy, PathOf
        <3>3. Has(q, "tmp")' /\ ~Whole(q, "tmp")'
            BY <1>6, <2>5 DEF Has, Whole
        <3>4. saver'[w].pc = "write" /\ saver'[w].fd = "tmp"
            BY <1>4, <2>3
        <3>5. \A f \in Credentials : Has(q, f)' => Whole(q, f)'
            BY <1>6, <2>1, <2>5, NameFacts DEF Sound, Has, Whole
        <3> QED BY <2>5, <3>2, <3>3, <3>4, <3>5 DEF Sound
    <2> QED BY <2>4, <2>5
<1> QED BY <1>7, <1>8, <1>9

LEMMA WriteTmpKeeps ==
    ASSUME IInv, NEW w \in Savers, WriteTmp(w)
    PROVE  IInv'
<1> USE DEF IInv, Typed
<1> DEFINE o == saver[w].o
           p == PathOf(o)
           fd == saver[w].fd
           r == [pc |-> "rename", o |-> o]
<1>1. /\ UNCHANGED <<issued, objects, task, saveQueue, overlapped>> /\ SaverStep
      /\ saver[w].pc = "write" /\ saver' = [saver EXCEPT ![w] = r]
    BY DEF WriteTmp, SaverStep, mem
<1>2. p \in Paths /\ o \in DOMAIN objects /\ o \in Nat /\ (w \in Accounts => o = w)
    BY <1>1, SaverPath DEF HoldersTyped
<1>3. saver[w].token \in Tokens
    BY <1>1 DEF HoldersTyped, SaverStates, Idle
<1>4. r \in SaverStates /\ r.pc = "rename" /\ r.o = o
    BY <1>2 DEF SaverStates
<1>5. SaversTyped'
    <2> HIDE DEF r
    <2> QED BY <1>1, <1>2, <1>4 DEF SaversTyped, HoldersTyped
<1>6. \/ UNCHANGED disk /\ ~Has(p, fd)
      \/ \E c \in Nat :
            /\ Has(p, fd) /\ (disk[p][fd] = Damaged => c # Damaged)
            /\ DOMAIN disk' = Paths
            /\ \A q \in Paths \ {p} : disk'[q] = disk[q]
            /\ DOMAIN disk'[p] = DOMAIN disk[p]
            /\ disk'[p][fd] = c
            /\ \A g \in DOMAIN disk[p] \ {fd} : disk'[p][g] = disk[p][g]
    <2>1. \/ ~Has(p, fd) /\ disk' = disk
          \/ \E c \in Nat : Has(p, fd) /\ (disk[p][fd] = Damaged => c # Damaged) /\ Put(p, fd, c)
        BY <1>3 DEF WriteTmp, Damaged, Tokens
    <2>2. ASSUME NEW c \in Nat, Put(p, fd, c), Has(p, fd)
          PROVE  /\ DOMAIN disk' = Paths
                 /\ \A q \in Paths \ {p} : disk'[q] = disk[q]
                 /\ DOMAIN disk'[p] = DOMAIN disk[p]
                 /\ disk'[p][fd] = c
                 /\ \A g \in DOMAIN disk[p] \ {fd} : disk'[p][g] = disk[p][g]
        <3>1. /\ DOMAIN disk' = Paths
              /\ \A q \in Paths \ {p} : disk'[q] = disk[q]
              /\ DOMAIN disk'[p] = DOMAIN disk[p] \cup {fd}
              /\ disk'[p][fd] = c
              /\ \A g \in DOMAIN disk[p] \ {fd} : disk'[p][g] = disk[p][g]
            BY <1>2, <2>2, PutFacts DEF FilesTyped
        <3>2. fd \in DOMAIN disk[p]
            BY <2>2 DEF Has
        <3> HIDE DEF p, fd
        <3> QED BY <3>1, <3>2
    <2> QED BY <2>1, <2>2
<1>7. FilesTyped'
    BY <1>1, <1>2, <1>6 DEF FilesTyped
<1>8. HoldersTyped' /\ ReadersTyped'
    BY <1>1, <1>5, SaverSteps
<1>9. AllSound'
    <2> SUFFICES ASSUME NEW q \in Paths \ overlapped, Sound(q)
                 PROVE  Sound(q)'
        BY <1>1 DEF AllSound
    <2>1. \A v \in Savers \ {w} : saver'[v] = saver[v]
        BY <1>1 DEF HoldersTyped
    <2>2. saver'[w].pc = "rename" /\ saver'[w].o = o
        BY <1>1, <1>4 DEF HoldersTyped
    <2>3. CASE q # p
        <3>1. \A v \in Savers : Busy(v, q)' => saver'[v] = saver[v]
            BY <1>1, <2>1, <2>2, <2>3 DEF Busy, PathOf
        <3>2. disk'[q] = disk[q]
            BY <1>6, <2>3
        <3> QED BY <1>1, <3>1, <3>2, OtherPath
    <2>4. CASE q = p
        <3>1. Busy(w, q)
            BY <1>1, <2>4 DEF Busy, Late
        <3>2. fd = "tmp" /\ (Has(q, "tmp") => ~Whole(q, "tmp"))
            BY <1>1, <3>1 DEF Sound
        <3>3. \A v \in Savers : Busy(v, q)' => Busy(v, q)
            BY <1>1, <2>1, <2>4, <3>1 DEF Busy, PathOf
        <3>4. \A v \in Savers : Busy(v, q)' => v = w
            BY <3>1, <3>3 DEF Sound
        <3>5. Has(q, "tmp")' => Whole(q, "tmp")'
            BY <1>6, <2>4, <3>2 DEF Has, Whole
        <3>6. \A f \in Credentials : Has(q, f)' => Whole(q, f)'
            <4>1. "tmp" \notin Credentials
                BY NameFacts
            <4> QED BY <1>6, <2>4, <3>2, <4>1 DEF Sound, Has, Whole
        <3> QED BY <2>2, <3>4, <3>5, <3>6 DEF Sound
    <2> QED BY <2>3, <2>4
<1> QED BY <1>7, <1>8, <1>9

\* A save that has given its temporary file up, or a new name.
LEMMA SaveEnds ==
    ASSUME IInv, NEW w \in Savers, saver[w].pc # "idle", NEW to \in {"json", "none"},
           saver' = Follow([saver EXCEPT ![w] = Idle], PathOf(saver[w].o), "tmp", to),
           UNCHANGED objects
    PROVE  /\ SaversTyped'
           /\ \A v \in Savers : saver'[v].pc \in Late =>
                 /\ v # w /\ saver[v].pc = saver'[v].pc /\ saver'[v].o = saver[v].o
                 /\ PathOf(saver[v].o) # PathOf(saver[w].o) => saver'[v] = saver[v]
<1> USE DEF IInv, Typed
<1> DEFINE s == [saver EXCEPT ![w] = Idle]
           p == PathOf(saver[w].o)
<1>1. s \in [Savers -> SaverStates] /\ s[w].pc = "idle"
    BY DEF HoldersTyped, SaverStates, Idle
<1>2. \A v \in Savers \ {w} : s[v] = saver[v]
    BY DEF HoldersTyped
<1>3. /\ saver' \in [Savers -> SaverStates]
      /\ \A v \in Savers : /\ saver'[v].pc = s[v].pc
                           /\ s[v].pc # "idle" => saver'[v].o = s[v].o
                           /\ s[v].pc # "write" \/ PathOf(s[v].o) # p => saver'[v] = s[v]
    <2>1. "tmp" \in Names /\ to \in Names \cup {"none"}
        BY NameFacts
    <2>2. saver' = Follow(s, p, "tmp", to)
        OBVIOUS
    <2> HIDE DEF s, p
    <2>3. /\ Follow(s, p, "tmp", to) \in [Savers -> SaverStates]
          /\ \A v \in Savers :
                /\ Follow(s, p, "tmp", to)[v].pc = s[v].pc
                /\ s[v].pc # "idle" => Follow(s, p, "tmp", to)[v].o = s[v].o
                /\ s[v].pc # "write" \/ PathOf(s[v].o) # p
                   => Follow(s, p, "tmp", to)[v] = s[v]
        BY ONLY <1>1, <2>1, FollowFacts
    <2> QED BY <2>2, <2>3
<1>4. \A v \in Savers : saver'[v].pc # "idle" => v # w /\ s[v] = saver[v]
    BY <1>1, <1>2, <1>3
<1>5. \A v \in Savers : saver'[v].pc # "idle" =>
          /\ v # w /\ saver[v].pc = saver'[v].pc /\ saver'[v].o = saver[v].o
          /\ PathOf(saver[v].o) # p => saver'[v] = saver[v]
    <2> HIDE DEF p, s
    <2> QED BY <1>3, <1>4
<1>6. \A v \in Savers : saver'[v].pc # "idle" => /\ saver'[v].o \in DOMAIN objects'
                                                 /\ v \in Accounts => saver'[v].o = v
    BY <1>5 DEF HoldersTyped
<1> QED BY <1>3, <1>5, <1>6 DEF SaversTyped, Late

\* A path of which a save has just ended: nobody has its temporary file.
LEMMA SavedPath ==
    ASSUME IInv, NEW w \in Savers, saver[w].pc \in {"rename", "clean"},
           NEW q \in Paths, q = PathOf(saver[w].o), Sound(q), UNCHANGED objects,
           \A v \in Savers : saver'[v].pc \in Late =>
               v # w /\ saver[v].pc = saver'[v].pc /\ saver'[v].o = saver[v].o,
           \A f \in Credentials : Has(q, f)' => Whole(q, f)'
    PROVE  Sound(q)'
<1>1. Busy(w, q)
    BY DEF Busy, Late
<1>2. \A v \in Savers : Busy(v, q)' => Busy(v, q) /\ v # w
    BY DEF Busy, PathOf
<1>3. \A v \in Savers : ~Busy(v, q)'
    BY <1>1, <1>2 DEF Sound
<1> QED BY <1>3 DEF Sound

LEMMA RenameTmpKeeps ==
    ASSUME IInv, NEW w \in Savers, RenameTmp(w)
    PROVE  IInv'
<1> USE DEF IInv, Typed
<1> DEFINE o == saver[w].o
           p == PathOf(o)
           s == [saver EXCEPT ![w] = Idle]
<1>1. /\ UNCHANGED <<issued, objects, saveQueue, overlapped>> /\ SaverStep
      /\ saver[w].pc = "rename" /\ saver[w].pc # "idle"
    BY DEF RenameTmp, SaverStep, mem
<1>2. p \in Paths /\ o \in DOMAIN objects /\ o \in Nat /\ (w \in Accounts => o = w)
    BY <1>1, SaverPath DEF HoldersTyped
<1>3. CASE Has(p, "tmp")
    <2>1. Rename(p, "tmp", "json", s) /\ task' = Returned(w)
        BY <1>3 DEF RenameTmp
    <2>2. s \in [Savers -> SaverStates]
        BY DEF HoldersTyped, SaverStates, Idle
    <2>3. /\ DOMAIN disk' = Paths
          /\ \A q \in Paths \ {p} : disk'[q] = disk[q]
          /\ DOMAIN disk'[p] = (DOMAIN disk[p] \ {"tmp"}) \cup {"json"}
          /\ disk'[p]["json"] = disk[p]["tmp"]
          /\ \A g \in DOMAIN disk[p] \ {"tmp", "json"} : disk'[p][g] = disk[p][g]
          /\ saver' = Follow(s, p, "tmp", "json")
        <3>1. "tmp" \in Names /\ "json" \in Names \ {"tmp"} /\ DOMAIN disk = Paths
            BY NameFacts DEF FilesTyped
        <3> HIDE DEF s, p
        <3> QED BY ONLY <1>2, <1>3, <2>1, <2>2, <3>1, RenameFacts
    <2>4. /\ SaversTyped'
          /\ \A v \in Savers : saver'[v].pc \in Late =>
                /\ v # w /\ saver[v].pc = saver'[v].pc /\ saver'[v].o = saver[v].o
                /\ PathOf(saver[v].o) # p => saver'[v] = saver[v]
        BY <1>1, <2>3, SaveEnds
    <2>5. FilesTyped'
        BY <1>1, <1>2, <1>3, <2>3, NameFacts DEF FilesTyped, Has
    <2>6. HoldersTyped' /\ ReadersTyped'
        BY <1>1, <2>1, <2>4, SaverSteps
    <2>7. AllSound'
        <3> SUFFICES ASSUME NEW q \in Paths \ overlapped, Sound(q)
                     PROVE  Sound(q)'
            BY <1>1 DEF AllSound
        <3>1. CASE q # p
            <4>1. \A v \in Savers : Busy(v, q)' => saver'[v] = saver[v]
                BY <1>1, <2>4, <3>1 DEF Busy, PathOf
            <4> QED BY <1>1, <2>3, <3>1, <4>1, OtherPath
        <3>2. CASE q = p
            <4>1. Whole(q, "tmp")
                BY <1>1, <1>3, <3>2 DEF Sound, Busy, Late
            <4>2. \A f \in Credentials : Has(q, f)' => Whole(q, f)'
                BY <2>3, <3>2, <4>1, NameFacts DEF Sound, Has, Whole
            <4>3. \A v \in Savers : saver'[v].pc \in Late =>
                      v # w /\ saver[v].pc = saver'[v].pc /\ saver'[v].o = saver[v].o
                BY <2>4
            <4> QED BY <1>1, <3>2, <4>2, <4>3, SavedPath
        <3> QED BY <3>1, <3>2
    <2> QED BY <2>5, <2>6, <2>7
<1>4. CASE ~Has(p, "tmp")
    <2> DEFINE r == [saver[w] EXCEPT !.pc = "clean"]
    <2>1. saver' = [saver EXCEPT ![w] = r] /\ UNCHANGED <<disk, task>>
        BY <1>4 DEF RenameTmp
    <2>2. saver[w] \in [pc : {"read", "rename", "clean"}, o : Nat]
        BY <1>1 DEF HoldersTyped, SaverStates, Idle
    <2>3. r \in SaverStates /\ r.pc = "clean" /\ r.o = o
        BY <2>2 DEF SaverStates
    <2>4. SaversTyped'
        <3> HIDE DEF r
        <3> QED BY <1>1, <1>2, <2>1, <2>3 DEF SaversTyped, HoldersTyped
    <2>5. HoldersTyped' /\ ReadersTyped'
        BY <1>1, <2>1, <2>4, SaverSteps
    <2>6. FilesTyped'
        BY <1>1, <2>1 DEF FilesTyped
    <2>7. AllSound'
        <3> SUFFICES ASSUME NEW q \in Paths \ overlapped, Sound(q)
                     PROVE  Sound(q)'
            BY <1>1 DEF AllSound
        <3>1. \A v \in Savers \ {w} : saver'[v] = saver[v]
            BY <2>1 DEF HoldersTyped
        <3>2. saver'[w].pc = "clean" /\ saver'[w].o = o
            BY <2>1, <2>3 DEF HoldersTyped
        <3>3. \A v \in Savers : Busy(v, q)' => Busy(v, q)
            BY <1>1, <3>1, <3>2 DEF Busy, PathOf, Late
        <3>4. \A f : (Has(q, f)' <=> Has(q, f)) /\ (Whole(q, f)' <=> Whole(q, f))
            BY <2>1 DEF Has, Whole
        <3>5. ASSUME NEW v \in Savers, Busy(v, q)'
              PROVE  /\ saver'[v].pc = "write" =>
                            saver'[v].fd = "tmp" /\ (Has(q, "tmp")' => ~Whole(q, "tmp")')
                     /\ saver'[v].pc = "rename" => (Has(q, "tmp")' => Whole(q, "tmp")')
            BY <3>1, <3>2, <3>3, <3>4, <3>5 DEF Sound
        <3> QED BY <3>3, <3>4, <3>5 DEF Sound
    <2> QED BY <2>5, <2>6, <2>7
<1> QED BY <1>3, <1>4

LEMMA CleanTmpKeeps ==
    ASSUME IInv, NEW w \in Savers, CleanTmp(w)
    PROVE  IInv'
<1> USE DEF IInv, Typed
<1> DEFINE o == saver[w].o
           p == PathOf(o)
           s == [saver EXCEPT ![w] = Idle]
<1>1. /\ UNCHANGED <<issued, objects, saveQueue, overlapped>> /\ SaverStep
      /\ saver[w].pc = "clean" /\ saver[w].pc # "idle"
      /\ Unlink(p, "tmp", s) /\ task' = Returned(w)
    BY DEF CleanTmp, SaverStep, mem
<1>2. p \in Paths
    BY <1>1, SaverPath
<1>3. s \in [Savers -> SaverStates]
    BY DEF HoldersTyped, SaverStates, Idle
<1>4. /\ DOMAIN disk' = Paths
      /\ \A q \in Paths \ {p} : disk'[q] = disk[q]
      /\ DOMAIN disk'[p] = DOMAIN disk[p] \ {"tmp"}
      /\ \A g \in DOMAIN disk[p] \ {"tmp"} : disk'[p][g] = disk[p][g]
      /\ saver' = Follow(s, p, "tmp", "none")
    <2>1. "tmp" \in Names /\ DOMAIN disk = Paths
        BY NameFacts DEF FilesTyped
    <2> HIDE DEF s, p
    <2> QED BY ONLY <1>1, <1>2, <1>3, <2>1, UnlinkFacts
<1>5. /\ SaversTyped'
      /\ \A v \in Savers : saver'[v].pc \in Late =>
            /\ v # w /\ saver[v].pc = saver'[v].pc /\ saver'[v].o = saver[v].o
            /\ PathOf(saver[v].o) # p => saver'[v] = saver[v]
    BY <1>1, <1>4, SaveEnds
<1>6. FilesTyped'
    BY <1>1, <1>2, <1>4 DEF FilesTyped
<1>7. HoldersTyped' /\ ReadersTyped'
    BY <1>1, <1>5, SaverSteps
<1>8. AllSound'
    <2> SUFFICES ASSUME NEW q \in Paths \ overlapped, Sound(q)
                 PROVE  Sound(q)'
        BY <1>1 DEF AllSound
    <2>1. CASE q # p
        <3>1. \A v \in Savers : Busy(v, q)' => saver'[v] = saver[v]
            BY <1>1, <1>5, <2>1 DEF Busy, PathOf
        <3> QED BY <1>1, <1>4, <2>1, <3>1, OtherPath
    <2>2. CASE q = p
        <3>1. \A f \in Credentials : Has(q, f)' => Whole(q, f)'
            BY <1>4, <2>2, NameFacts DEF Sound, Has, Whole
        <3>2. \A v \in Savers : saver'[v].pc \in Late =>
                  v # w /\ saver[v].pc = saver'[v].pc /\ saver'[v].o = saver[v].o
            BY <1>5
        <3> QED BY <1>1, <2>2, <3>1, <3>2, SavedPath
    <2> QED BY <2>1, <2>2
<1> QED BY <1>6, <1>7, <1>8

-----------------------------------------------------------------------------
\* The scan and the recovery.
LEMMA LoadKeeps ==
    ASSUME IInv, NEW idx, NEW ps \in SUBSET Paths, NEW read, \A p \in ps : read[p] \in Tokens,
           Load(objects, idx, ps, read),
           UNCHANGED <<disk, issued, task, saveQueue, saver, leaving, overlapped>>
    PROVE  /\ FilesTyped' /\ HoldersTyped' /\ AllSound'
           /\ DOMAIN objects \subseteq DOMAIN objects'
           /\ \A p \in ps : index'[p] \in DOMAIN objects'
<1> USE DEF IInv, Typed
<1>1. /\ objects' \in Seq(AccountRecords)
      /\ \A i \in DOMAIN objects : i \in DOMAIN objects' /\ objects'[i] = objects[i]
      /\ \A p \in ps : index'[p] \in DOMAIN objects'
    BY LoadFacts DEF HoldersTyped
<1>2. HoldersTyped'
    BY <1>1 DEF HoldersTyped
<1>3. FilesTyped'
    BY DEF FilesTyped
<1>4. AllSound'
    BY <1>1, SameFiles DEF HoldersTyped
<1> QED BY <1>1, <1>2, <1>3, <1>4

\* A step of the scan or the recovery that changes neither files nor accounts.
LEMMA ReadingKeeps ==
    ASSUME IInv, UNCHANGED <<disk, issued, objects, saveQueue, saver, leaving, overlapped>>,
           DOMAIN task' = Accounts,
           \A o \in Accounts : task'[o].pc = "idle" \/ o \in DOMAIN objects,
           ReadersTyped'
    PROVE  IInv'
<1>1. FilesTyped'
    BY DEF IInv, Typed, FilesTyped
<1>2. HoldersTyped'
    BY DEF IInv, Typed, HoldersTyped
<1>3. AllSound'
    BY SameFiles DEF IInv, Typed, HoldersTyped
<1> QED BY <1>1, <1>2, <1>3 DEF IInv, Typed

LEMMA ContentTyped ==
    ASSUME FilesTyped, NEW p \in Paths, Whole(p, "json")
    PROVE  disk[p]["json"] \in Tokens
BY DEF FilesTyped, Whole, Has, Damaged, Tokens

LEMMA ScanKeeps ==
    ASSUME IInv, Scan
    PROVE  IInv'
<1> USE DEF IInv, Typed
<1>1. /\ UNCHANGED <<disk, issued, saver, task, saveQueue, leaving, recovery, overlapped>>
      /\ DOMAIN task = Accounts /\ \A o \in Accounts : task[o].pc = "idle" \/ o \in DOMAIN objects
    BY DEF Scan, ScanList, ScanFilter, ScanLoad, ScanMerge, ScanStep, LoopStep, HoldersTyped
<1>2. ASSUME UNCHANGED objects,
             scan'.pc = "load" =>
                \A p \in DOMAIN scan'.read : p \in Paths /\ scan'.read[p] \in Tokens
      PROVE  IInv'
    BY <1>1, <1>2, ReadingKeeps DEF ReadersTyped
<1>3. CASE ScanList
    BY <1>2, <1>3 DEF ScanList, mem
<1>4. CASE ScanFilter
    <2>1. UNCHANGED objects /\ (scan'.pc = "load" => scan'.read = <<>>)
        BY <1>4 DEF ScanFilter, mem, Idle
    <2>2. DOMAIN <<>> = {}
        OBVIOUS
    <2> QED BY <1>2, <2>1, <2>2
<1>5. ASSUME NEW p \in Paths, ScanLoad(p)
      PROVE  IInv'
    <2>1. UNCHANGED objects /\ scan.pc = "load"
        BY <1>5 DEF ScanLoad, mem
    <2>2. Whole(p, "json") => disk[p]["json"] \in Tokens
        BY ContentTyped
    <2>3. \A q \in DOMAIN scan.read : q \in Paths /\ scan.read[q] \in Tokens
        BY <2>1 DEF ReadersTyped
    <2>4. \A q \in DOMAIN scan'.read : q \in Paths /\ scan'.read[q] \in Tokens
        BY <1>5, <2>2, <2>3 DEF ScanLoad
    <2> QED BY <1>2, <2>1, <2>4
<1>6. CASE ScanMerge
    <2> DEFINE ps == {p \in DOMAIN scan.read : index[p] = 0}
    <2>1. Load(objects, index, ps, scan.read) /\ scan' = Idle /\ scan.pc = "load"
        BY <1>6 DEF ScanMerge
    <2>2. ps \in SUBSET Paths /\ \A p \in ps : scan.read[p] \in Tokens
        BY <2>1 DEF ReadersTyped
    <2>3. FilesTyped' /\ HoldersTyped' /\ AllSound' /\ DOMAIN objects \subseteq DOMAIN objects'
        <3> HIDE DEF ps
        <3> QED BY <1>1, <2>1, <2>2, LoadKeeps
    <2>4. ReadersTyped'
        BY <1>1, <2>1, <2>3 DEF ReadersTyped, Idle
    <2> QED BY <2>3, <2>4
<1> QED BY <1>3, <1>4, <1>5, <1>6 DEF Scan

LEMMA RecoveryReads ==
    ASSUME IInv, UNCHANGED <<disk, mem, saver, scan>>, LoopStep,
           \/ UNCHANGED task
           \/ \E o \in DOMAIN objects : \E t : task' = [task EXCEPT ![o] = t],
           recovery' \in RecoveryStates,
           recovery'.pc \in {"probe", "wait"} => recovery'.o \in DOMAIN objects
    PROVE  IInv'
<1> USE DEF IInv, Typed
<1>1. UNCHANGED <<disk, issued, objects, saveQueue, saver, leaving, overlapped, scan>>
    BY DEF LoopStep, mem
<1>2. DOMAIN task' = Accounts /\ \A o \in Accounts : task'[o].pc = "idle" \/ o \in DOMAIN objects
    BY DEF HoldersTyped
<1>3. ReadersTyped'
    BY <1>1 DEF ReadersTyped
<1> QED BY <1>1, <1>2, <1>3, ReadingKeeps

LEMMA RecoveryMoves ==
    ASSUME IInv, NEW p \in Paths,
           \/ \E f \in Credentials : Unlink(p, f, saver)
           \/ \E f, to \in Credentials : f # to /\ Rename(p, f, to, saver),
           UNCHANGED <<mem, task, scan>>, LoopStep,
           recovery' \in RecoveryStates, recovery'.pc \notin {"probe", "wait"}
    PROVE  IInv'
<1> USE DEF IInv, Typed
<1>1. UNCHANGED <<issued, objects, saveQueue, leaving, overlapped, scan>>
    BY DEF LoopStep, mem
<1>2. FilesTyped' /\ SaversTyped' /\ AllSound'
    BY <1>1, NamesMove
<1>3. HoldersTyped'
    BY <1>1, <1>2 DEF HoldersTyped, SaversTyped
<1>4. ReadersTyped'
    BY <1>1 DEF ReadersTyped
<1> QED BY <1>2, <1>3, <1>4

\* Where the recovery works on a file, and which.
LEMMA RecoveryAt ==
    ASSUME ReadersTyped
    PROVE  /\ recovery.pc = "next" => recovery \in [pc : {"next"}, todo : Todo]
           /\ recovery.pc \in {"rename", "load", "unlink"} =>
                 recovery \in [pc : {"rename", "load", "unlink"}, todo : Todo, p : Paths,
                               f : Disabled]
           /\ recovery.pc \in {"insert", "back"} =>
                 recovery \in [pc : {"insert", "back"}, todo : Todo, p : Paths, f : Disabled,
                               token : Tokens]
           /\ recovery.pc \in {"probe", "wait"} =>
                 recovery \in [pc : {"probe", "wait"}, todo : Todo, o : Nat]
BY DEF ReadersTyped, RecoveryStates, Idle, Off

LEMMA NextFileTyped ==
    ASSUME recovery.todo \in Todo
    PROVE  NextFile(recovery) \in RecoveryStates /\ NextFile(recovery).pc = "next"
BY DEF NextFile, RecoveryStates

LEMMA RecoveryKeeps ==
    ASSUME IInv, Recovery
    PROVE  IInv'
<1> USE DEF IInv, Typed
<1>1. CASE RecoverList
    <2>1. recovery' \in [pc : {"next"}, todo : Todo]
        BY <1>1 DEF RecoverList, Todo
    <2>2. recovery' \in RecoveryStates /\ recovery'.pc = "next"
        BY <2>1 DEF RecoveryStates
    <2> QED BY <1>1, <2>2, RecoveryReads DEF RecoverList
<1>2. ASSUME NEW p \in Paths, NEW f \in Disabled, RecoverStat(p, f)
      PROVE  IInv'
    <2>1. recovery.todo \in Todo
        BY <1>2, RecoveryAt DEF RecoverStat
    <2> DEFINE rest == recovery.todo \ {<<p, f>>}
    <2>2. recovery' \in {[pc |-> "next", todo |-> rest],
                         [pc |-> "rename", todo |-> rest, p |-> p, f |-> f]}
        BY <1>2 DEF RecoverStat
    <2>3. rest \in Todo
        BY <2>1 DEF Todo
    <2>4. recovery' \in RecoveryStates /\ recovery'.pc \in {"next", "rename"}
        <3> HIDE DEF rest
        <3> QED BY <2>2, <2>3 DEF RecoveryStates
    <2> QED BY <1>2, <2>4, RecoveryReads DEF RecoverStat
<1>3. CASE RecoverRename
    <2>1. recovery \in [pc : {"rename", "load", "unlink"}, todo : Todo, p : Paths, f : Disabled]
        BY <1>3, RecoveryAt DEF RecoverRename
    <2>2. recovery' \in RecoveryStates /\ recovery'.pc \in {"load", "next"}
        <3>1. recovery' \in {[recovery EXCEPT !.pc = "load"], NextFile(recovery)}
            BY <1>3 DEF RecoverRename
        <3>2. [recovery EXCEPT !.pc = "load"] \in RecoveryStates
              /\ [recovery EXCEPT !.pc = "load"].pc = "load"
            BY <2>1 DEF RecoveryStates
        <3>3. recovery.todo \in Todo
            BY <2>1
        <3> QED BY <3>1, <3>2, <3>3, NextFileTyped
    <2>3. recovery.p \in Paths /\ recovery.f \in Credentials /\ recovery.f # "json"
          /\ "json" \in Credentials
        BY <2>1, NameFacts
    <2> QED BY <1>3, <2>2, <2>3, RecoveryMoves DEF RecoverRename
<1>4. CASE RecoverLoad
    <2>1. recovery \in [pc : {"rename", "load", "unlink"}, todo : Todo, p : Paths, f : Disabled]
        BY <1>4, RecoveryAt DEF RecoverLoad
    <2>2. CASE Whole(recovery.p, "json")
        <3>1. disk[recovery.p]["json"] \in Tokens
            BY <2>1, <2>2, ContentTyped
        <3>2. recovery' = [pc |-> "insert", todo |-> recovery.todo, p |-> recovery.p,
                           f |-> recovery.f, token |-> disk[recovery.p]["json"]]
            BY <1>4, <2>2 DEF RecoverLoad
        <3>3. recovery' \in RecoveryStates /\ recovery'.pc = "insert"
            BY <2>1, <3>1, <3>2 DEF RecoveryStates
        <3> QED BY <1>4, <3>3, RecoveryReads DEF RecoverLoad
    <2>3. CASE ~Whole(recovery.p, "json")
        <3>1. recovery' = [recovery EXCEPT !.pc = "unlink"]
            BY <1>4, <2>3 DEF RecoverLoad
        <3>2. recovery' \in RecoveryStates /\ recovery'.pc = "unlink"
            BY <2>1, <3>1 DEF RecoveryStates
        <3> QED BY <1>4, <3>2, RecoveryReads DEF RecoverLoad
    <2> QED BY <2>2, <2>3
<1>5. CASE RecoverUnlink
    <2>1. recovery \in [pc : {"rename", "load", "unlink"}, todo : Todo, p : Paths, f : Disabled]
        BY <1>5, RecoveryAt DEF RecoverUnlink
    <2>2. recovery.p \in Paths /\ recovery.todo \in Todo /\ "json" \in Credentials
        BY <2>1, NameFacts
    <2>3. recovery' \in RecoveryStates /\ recovery'.pc = "next"
        BY <1>5, <2>2, NextFileTyped DEF RecoverUnlink
    <2> QED BY <1>5, <2>2, <2>3, RecoveryMoves DEF RecoverUnlink
<1>6. CASE RecoverInsert
    <2>1. recovery \in [pc : {"insert", "back"}, todo : Todo, p : Paths, f : Disabled,
                        token : Tokens]
        BY <1>6, RecoveryAt DEF RecoverInsert
    <2>2. CASE index[recovery.p] # 0
        <3>1. recovery' = [recovery EXCEPT !.pc = "back"]
            BY <1>6, <2>2 DEF RecoverInsert
        <3>2. recovery' \in RecoveryStates /\ recovery'.pc = "back"
            BY <2>1, <3>1 DEF RecoveryStates
        <3> QED BY <1>6, <2>2, <3>2, RecoveryReads DEF RecoverInsert
    <2>3. CASE index[recovery.p] = 0
        <3> DEFINE read == [p \in {recovery.p} |-> recovery.token]
        <3>1. Load(objects, index, {recovery.p}, read)
              /\ recovery' = [pc |-> "probe", todo |-> recovery.todo, o |-> index'[recovery.p]]
              /\ UNCHANGED <<disk, issued, task, saveQueue, saver, leaving, overlapped, scan>>
            BY <1>6, <2>3 DEF RecoverInsert, LoopStep
        <3>2. {recovery.p} \in SUBSET Paths /\ \A p \in {recovery.p} : read[p] \in Tokens
            BY <2>1
        <3>3. /\ FilesTyped' /\ HoldersTyped' /\ AllSound'
              /\ DOMAIN objects \subseteq DOMAIN objects'
              /\ index'[recovery.p] \in DOMAIN objects'
            <4> HIDE DEF read
            <4> QED BY <3>1, <3>2, LoadKeeps
        <3>4. index'[recovery.p] \in Nat
            BY <3>3 DEF HoldersTyped
        <3>5. recovery' \in RecoveryStates /\ recovery'.pc = "probe"
              /\ recovery'.o \in DOMAIN objects'
            BY <2>1, <3>1, <3>3, <3>4 DEF RecoveryStates
        <3>6. ReadersTyped'
            BY <3>1, <3>5 DEF ReadersTyped
        <3> QED BY <3>3, <3>6
    <2> QED BY <2>2, <2>3
<1>7. CASE RecoverBack
    <2>1. recovery \in [pc : {"insert", "back"}, todo : Todo, p : Paths, f : Disabled,
                        token : Tokens]
        BY <1>7, RecoveryAt DEF RecoverBack
    <2>2. recovery.p \in Paths /\ recovery.f \in Credentials /\ recovery.f # "json"
          /\ "json" \in Credentials /\ recovery.todo \in Todo
        BY <2>1, NameFacts
    <2>3. recovery' \in RecoveryStates /\ recovery'.pc = "next"
        BY <1>7, <2>2, NextFileTyped DEF RecoverBack
    <2> QED BY <1>7, <2>2, <2>3, RecoveryMoves DEF RecoverBack
<1>8. CASE RecoverProbe
    <2>1. recovery \in [pc : {"probe", "wait"}, todo : Todo, o : Nat]
          /\ recovery.o \in DOMAIN objects
        BY <1>8, RecoveryAt DEF RecoverProbe, ReadersTyped
    <2>2. CASE task[recovery.o].pc = "idle"
        <3>1. recovery' = [recovery EXCEPT !.pc = "wait"]
              /\ \E t : task' = [task EXCEPT ![recovery.o] = t]
            BY <1>8, <2>2 DEF RecoverProbe
        <3>2. recovery' \in RecoveryStates /\ recovery'.o \in DOMAIN objects
            BY <2>1, <3>1 DEF RecoveryStates
        <3> QED BY <1>8, <2>1, <3>1, <3>2, RecoveryReads DEF RecoverProbe
    <2>3. CASE task[recovery.o].pc # "idle"
        <3>1. recovery' = NextFile(recovery) /\ task' = task
            BY <1>8, <2>3 DEF RecoverProbe
        <3>2. recovery' \in RecoveryStates /\ recovery'.pc = "next"
            BY <2>1, <3>1, NextFileTyped
        <3> QED BY <1>8, <3>1, <3>2, RecoveryReads DEF RecoverProbe
    <2> QED BY <2>2, <2>3
<1>9. CASE RecoverDone
    <2>1. recovery'.pc \notin {"probe", "wait"} /\ recovery' \in RecoveryStates
        <3>1. CASE recovery.pc = "wait" /\ recovery' = NextFile(recovery)
            <4>1. recovery.todo \in Todo
                BY <3>1, RecoveryAt
            <4> QED BY <3>1, <4>1, NextFileTyped
        <3>2. CASE recovery' = Idle
            BY <3>2 DEF Idle, RecoveryStates
        <3> QED BY <1>9, <3>1, <3>2 DEF RecoverDone
    <2> QED BY <1>9, <2>1, RecoveryReads DEF RecoverDone
<1> QED BY <1>1, <1>2, <1>3, <1>4, <1>5, <1>6, <1>7, <1>8, <1>9 DEF Recovery

-----------------------------------------------------------------------------
LEMMA NewFileKeeps ==
    ASSUME IInv, NEW p \in Paths, NewFile(p)
    PROVE  IInv'
<1> USE DEF IInv, Typed
<1>1. UNCHANGED <<objects, task, saveQueue, saver, leaving, scan, recovery, overlapped>>
    BY DEF NewFile, mem
<1>2. issued' \in [Paths -> Tokens] /\ issued'[p] \in Tokens
    BY DEF NewFile, FilesTyped, Tokens
<1>3. /\ DOMAIN disk' = Paths
      /\ \A q \in Paths \ {p} : disk'[q] = disk[q]
      /\ DOMAIN disk'[p] = DOMAIN disk[p] \cup {"json"}
      /\ disk'[p]["json"] = issued'[p]
      /\ \A g \in DOMAIN disk[p] \ {"json"} : disk'[p][g] = disk[p][g]
    BY PutFacts DEF NewFile, FilesTyped
<1>4. FilesTyped'
    BY <1>2, <1>3, NameFacts DEF FilesTyped, Tokens
<1>5. HoldersTyped' /\ ReadersTyped'
    BY <1>1 DEF HoldersTyped, ReadersTyped
<1>6. AllSound'
    <2>1. \A v \in Savers : saver'[v].pc \in Late =>
              /\ saver[v].pc = saver'[v].pc /\ PathOf(saver[v].o)' = PathOf(saver[v].o)
              /\ saver'[v].pc = "write" /\ saver[v].fd = "tmp" => saver'[v].fd = "tmp"
        BY <1>1 DEF PathOf
    <2>2. \A q \in Paths : Has(q, "tmp")' => Has(q, "tmp") /\ disk'[q]["tmp"] = disk[q]["tmp"]
        BY <1>3 DEF Has
    <2>3. \A q \in Paths \ overlapped : \A f \in Credentials : Has(q, f)' => Whole(q, f)'
        BY <1>2, <1>3 DEF AllSound, Sound, Has, Whole, Tokens, Damaged
    <2> QED BY <1>1, <2>1, <2>2, <2>3, SoundKept
<1> QED BY <1>4, <1>5, <1>6

\* The next process has nothing under way; the files are as they were.
LEMMA CrashKeeps ==
    ASSUME IInv, Crash
    PROVE  IInv'
<1> USE DEF IInv, Typed
<1>1. UNCHANGED <<disk, issued, overlapped>>
      /\ Load(<<>>, [p \in Paths |-> 0], DOMAIN Contents, Contents)
      /\ task' = NoTasks /\ saver' = NoSaves /\ saveQueue' = <<>> /\ leaving' = {}
      /\ scan' = Idle /\ recovery' \in {Off, Idle}
    BY DEF Crash
<1>2. objects' \in Seq(AccountRecords)
    <2>1. DOMAIN Contents \in SUBSET Paths
          /\ \A p \in DOMAIN Contents : Contents[p] \in Tokens
        BY ContentTyped DEF Contents
    <2>2. <<>> \in Seq(AccountRecords)
        OBVIOUS
    <2> QED BY <1>1, <2>1, <2>2, LoadFacts
<1>3. HoldersTyped'
    BY <1>1, <1>2 DEF HoldersTyped, NoTasks, NoSaves, SaverStates, Idle
<1>4. FilesTyped' /\ ReadersTyped'
    BY <1>1 DEF FilesTyped, ReadersTyped, RecoveryStates, Idle, Off
<1>5. AllSound'
    <2>1. \A w \in Savers : saver'[w].pc \notin Late
        BY <1>1 DEF NoSaves, Idle, Late
    <2>2. \A p \in Paths : \A f : (Has(p, f)' <=> Has(p, f)) /\ (Whole(p, f)' <=> Whole(p, f))
        BY <1>1 DEF Has, Whole
    <2> QED BY <1>1, <2>1, <2>2 DEF AllSound, Sound, Busy
<1> QED BY <1>3, <1>4, <1>5

LEMMA Initially == Init => IInv
<1> SUFFICES ASSUME Init
             PROVE  IInv
    OBVIOUS
<1> DEFINE n == Cardinality(Paths)
<1>1. /\ n \in Nat /\ Order(Paths) \in [1 .. n -> Paths]
    BY OrderFacts
<1>2. objects \in Seq(AccountRecords)
    <2>1. objects = [i \in 1 .. n |-> [path |-> Order(Paths)[i], token |-> 1]]
        BY DEF Init
    <2>2. \A i \in 1 .. n : [path |-> Order(Paths)[i], token |-> 1] \in AccountRecords
        BY <1>1 DEF AccountRecords, Tokens
    <2> HIDE DEF n
    <2> QED BY <1>1, <2>1, <2>2
<1>3. HoldersTyped
    BY <1>2 DEF Init, HoldersTyped, NoTasks, NoSaves, SaverStates, Idle
<1>4. FilesTyped
    BY NameFacts DEF Init, FilesTyped, Tokens
<1>5. ReadersTyped
    BY DEF Init, ReadersTyped, RecoveryStates, Idle, Off
<1>6. AllSound
    BY DEF Init, AllSound, Sound, Busy, Late, NoSaves, Idle, Has, Whole, Damaged
<1> QED BY <1>3, <1>4, <1>5, <1>6 DEF IInv, Typed

LEMMA Stays == IInv /\ [Next]_vars => IInv'
<1> SUFFICES ASSUME IInv, [Next]_vars
             PROVE  IInv'
    OBVIOUS
<1>1. CASE UNCHANGED vars
    <2>1. UNCHANGED <<disk, issued, objects, task, saveQueue, saver, leaving, scan, recovery, overlapped>>
        BY <1>1 DEF vars, mem
    <2>2. AllSound'
        BY <2>1, SameFiles DEF IInv, Typed, HoldersTyped
    <2>3. FilesTyped' /\ HoldersTyped' /\ ReadersTyped'
        BY <2>1 DEF IInv, Typed, FilesTyped, HoldersTyped, ReadersTyped
    <2> QED BY <2>2, <2>3 DEF IInv, Typed
<1>2. ASSUME NEW o \in Accounts, Refresh(o)
      PROVE  IInv'
    <2>1. CASE Denied(o)
        <3>1. o \in DOMAIN objects
            BY <2>1 DEF Denied, IInv, Typed, HoldersTyped
        <3> QED BY <2>1, <3>1, FailRefreshKeeps DEF Denied
    <2> QED BY <1>2, <2>1, BeginRefreshKeeps, GrantedKeeps, AnswerLostKeeps, QuotaAcceptsKeeps,
               QuotaRejectsKeeps, EnqueueKeeps DEF Refresh
<1>3. ASSUME NEW w \in Savers, Save(w)
      PROVE  IInv'
    BY <1>3, ReadTokenKeeps, OpenTmpKeeps, WriteTmpKeeps, WriteFailsKeeps, RenameTmpKeeps,
       CleanTmpKeeps DEF Save
<1> QED BY <1>1, <1>2, <1>3, CondemnKeeps, TakeSaveKeeps, SettleFileKeeps, ScanKeeps,
           RecoveryKeeps, NewFileKeeps, CrashKeeps DEF Next

\* Crashes, full disks, removals, disabling and the recovery never leave a damaged
\* file of a credential of which no two saves met in the temporary file: with any
\* number of workers, since whoever comes second makes them meet.
THEOREM FilesStayWhole == Spec => []FileWhole
<1>1. IInv => FileWhole
    BY DEF IInv, AllSound, Sound, FileWhole
<1> QED BY <1>1, Initially, Stays, PTL DEF Spec

-----------------------------------------------------------------------------
\* The user puts no files there while the recovery runs: it would delete one that
\* came between its reading of an unreadable file and the deletion of that.
NoUploadsWhileRecovering == \A s \in SetUps : s.recovers => ~s.uploads

Spare(p) == p \in gone \cup overlapped \/ \E f \in Disabled : Has(p, f)

\* The file that the recovery is about to delete is not the last of its path.
LostNothing ==
    /\ Present
    /\ recovery.pc = "unlink" => Spare(recovery.p)
    /\ recovery # Off => \E s \in SetUps : s.recovers

Ahead == recovery'.pc # "unlink" /\ (recovery' # Off => recovery # Off)

LEMMA FilesStay ==
    ASSUME LostNothing, gone \subseteq gone', overlapped \subseteq overlapped',
           \A p \in Paths : \A f \in Credentials : Has(p, f) => Has(p, f)',
           \/ UNCHANGED recovery /\ (recovery.pc = "unlink" => recovery.p \in Paths)
           \/ Ahead
    PROVE  LostNothing'
<1>1. Present'
    BY DEF LostNothing, Present
<1>2. recovery'.pc = "unlink" => Spare(recovery.p)'
    <2> SUFFICES ASSUME UNCHANGED recovery, recovery.p \in Paths, Spare(recovery.p)
                 PROVE  Spare(recovery.p)'
        BY DEF LostNothing, Ahead
    <2> QED BY NameFacts DEF Spare
<1> QED BY <1>1, <1>2 DEF LostNothing, Ahead

LEMMA UnlinksAt ==
    ASSUME IInv
    PROVE  recovery.pc = "unlink" => recovery.p \in Paths
BY RecoveryAt DEF IInv, Typed

LEMMA SavesLoseNothing ==
    ASSUME IInv, LostNothing, NEW w \in Savers, Save(w)
    PROVE  LostNothing'
<1> USE DEF IInv, Typed
<1>1. UNCHANGED <<gone, recovery>> /\ overlapped \subseteq overlapped' /\ saver[w].pc # "idle"
    BY DEF Save, SaverStep, ReadToken, OpenTmp, WriteTmp, WriteFails, RenameTmp, CleanTmp
<1> DEFINE q == PathOf(saver[w].o)
<1>2. q \in Paths /\ DOMAIN disk = Paths
    BY <1>1, SaverPath DEF FilesTyped
<1>3. \A p \in Paths : \A f \in Credentials : Has(p, f) => Has(p, f)'
    <2>1. ASSUME \A p \in Paths : DOMAIN disk[p] \ {"tmp"} \subseteq DOMAIN disk'[p]
          PROVE  <1>3!:
        BY <2>1, NameFacts DEF Has
    <2>2. CASE ReadToken(w) \/ WriteFails(w)
        BY <2>1, <2>2 DEF ReadToken, WriteFails
    <2>3. CASE OpenTmp(w)
        BY <1>2, <2>1, <2>3, PutFacts DEF OpenTmp
    <2>4. CASE WriteTmp(w)
        <3>1. UNCHANGED disk \/ \E c : Put(q, saver[w].fd, c)
            BY <2>4 DEF WriteTmp
        <3> QED BY <1>2, <2>1, <3>1, PutFacts
    <2>5. CASE RenameTmp(w)
        BY <1>2, <2>1, <2>5 DEF RenameTmp, Rename
    <2>6. CASE CleanTmp(w)
        BY <1>2, <2>1, <2>6 DEF CleanTmp, Unlink
    <2> QED BY <2>2, <2>3, <2>4, <2>5, <2>6 DEF Save
<1> QED BY <1>1, <1>3, FilesStay, UnlinksAt

LEMMA SettledFileLosesNothing ==
    ASSUME IInv, LostNothing, NEW r \in leaving, SettleFile(r)
    PROVE  LostNothing'
<1> USE DEF IInv, Typed
<1> DEFINE p == PathOf(r.o)
<1>1. p \in Paths /\ DOMAIN disk = Paths
    <2>1. objects[r.o] \in AccountRecords
        BY DEF HoldersTyped
    <2> QED BY <2>1 DEF AccountRecords, PathOf, FilesTyped
<1>2. gone \subseteq gone' /\ UNCHANGED <<recovery, overlapped>>
    BY DEF SettleFile
<1>3. /\ \A q \in Paths \ {p} : disk'[q] = disk[q]
      /\ \A f \in Disabled : Has(p, f) => f \in DOMAIN disk'[p]
      /\ p \in gone' \/ (Has(p, "json") => \E f \in Disabled : f \in DOMAIN disk'[p])
    <2>1. CASE Unlink(p, "json", saver) /\ gone' = gone \cup {p}
        BY <1>1, <2>1, NameFacts DEF Unlink, Has
    <2>2. CASE FreeNames(p) # {} /\ Rename(p, "json", FirstFree(p), saver)
        <3>1. FirstFree(p) \in Disabled
            <4>1. \E i \in FreeNames(p) : \A j \in FreeNames(p) : i <= j
                BY <2>2 DEF FreeNames, DisabledNames
            <4> DEFINE i == CHOOSE i \in FreeNames(p) : \A j \in FreeNames(p) : i <= j
            <4>2. i \in FreeNames(p)
                BY <4>1
            <4>3. i \in DOMAIN DisabledNames /\ FirstFree(p) = DisabledNames[i]
                BY <4>2 DEF FreeNames, FirstFree
            <4> HIDE DEF i
            <4> QED BY <4>3 DEF Disabled
        <3> QED BY <1>1, <2>2, <3>1, NameFacts DEF Rename, Has
    <2> QED BY <2>1, <2>2 DEF SettleFile
<1>4. ASSUME NEW q \in Paths, Spare(q)
      PROVE  Spare(q)'
    BY <1>2, <1>3, <1>4 DEF Spare, Has
<1>5. Present'
    <2> SUFFICES ASSUME NEW q \in Paths, q \notin gone' \cup overlapped'
                 PROVE  \E f \in Credentials : Has(q, f)'
        BY DEF Present
    <2>1. PICK g \in Credentials : Has(q, g)
        BY <1>2 DEF LostNothing, Present
    <2>2. CASE q # p
        BY <1>3, <2>1, <2>2 DEF Has
    <2>3. CASE q = p
        BY <1>3, <2>1, <2>3, NameFacts DEF Has
    <2> QED BY <2>2, <2>3
<1> QED BY <1>2, <1>4, <1>5, UnlinksAt DEF LostNothing

LEMMA RecoveryLosesNothing ==
    ASSUME IInv, LostNothing, Recovery
    PROVE  LostNothing'
<1> USE DEF IInv, Typed
<1>1. UNCHANGED <<gone, overlapped>> /\ DOMAIN disk = Paths
    BY DEF Recovery, RecoverList, RecoverStat, RecoverRename, RecoverLoad, RecoverUnlink,
           RecoverInsert, RecoverBack, RecoverProbe, RecoverDone, LoopStep, FilesTyped
<1>2. recovery # Off /\ \E s \in SetUps : s.recovers
    <2>1. recovery.pc # "off"
        BY DEF Recovery, RecoverList, RecoverStat, RecoverRename, RecoverLoad, RecoverUnlink,
               RecoverInsert, RecoverBack, RecoverProbe, RecoverDone
    <2>2. recovery # Off
        BY <2>1 DEF Off
    <2> QED BY <2>2 DEF LostNothing
<1>3. CASE RecoverList \/ (\E p \in Paths, f \in Disabled : RecoverStat(p, f))
           \/ RecoverInsert \/ RecoverProbe \/ RecoverDone
    <2>1. UNCHANGED disk /\ recovery'.pc # "unlink"
        <3>1. recovery.pc = "insert" => [recovery EXCEPT !.pc = "back"].pc = "back"
            BY RecoveryAt
        <3>2. recovery.pc = "probe" => [recovery EXCEPT !.pc = "wait"].pc = "wait"
            BY RecoveryAt
        <3>3. CASE RecoverList
            BY <3>3 DEF RecoverList
        <3>4. CASE \E p \in Paths, f \in Disabled : RecoverStat(p, f)
            BY <3>4 DEF RecoverStat
        <3>5. CASE RecoverInsert
            <4>1. /\ UNCHANGED disk /\ recovery.pc = "insert"
                  /\ \/ recovery' = [recovery EXCEPT !.pc = "back"]
                     \/ recovery' = [pc |-> "probe", todo |-> recovery.todo,
                                     o |-> index'[recovery.p]]
                BY <3>5 DEF RecoverInsert
            <4>2. CASE recovery' = [recovery EXCEPT !.pc = "back"]
                <5>1. recovery'.pc = "back"
                    BY ONLY <3>1, <4>1, <4>2
                <5> QED BY <4>1, <5>1
            <4> QED BY <4>1, <4>2
        <3>6. CASE RecoverProbe
            <4>1. /\ UNCHANGED disk /\ recovery.pc = "probe"
                  /\ \/ recovery' = [recovery EXCEPT !.pc = "wait"]
                     \/ recovery' = [pc |-> "next", todo |-> recovery.todo]
                BY <3>6 DEF RecoverProbe, NextFile
            <4>2. CASE recovery' = [recovery EXCEPT !.pc = "wait"]
                <5>1. recovery'.pc = "wait"
                    BY ONLY <3>2, <4>1, <4>2
                <5> QED BY <4>1, <5>1
            <4> QED BY <4>1, <4>2
        <3>7. CASE RecoverDone
            BY <3>7 DEF RecoverDone, NextFile, Idle
        <3> QED BY <1>3, <3>3, <3>4, <3>5, <3>6, <3>7
    <2>2. \A p \in Paths : \A f \in Credentials : Has(p, f) => Has(p, f)'
        BY <2>1 DEF Has
    <2> QED BY <1>1, <1>2, <2>1, <2>2, FilesStay DEF Ahead
<1>4. CASE RecoverRename \/ RecoverBack
    <2>1. recovery.p \in Paths /\ recovery.f \in Credentials /\ "json" \in Credentials
        BY <1>4, RecoveryAt, NameFacts DEF RecoverRename, RecoverBack
    <2>2. recovery'.pc # "unlink"
        <3>1. recovery.pc = "rename" => [recovery EXCEPT !.pc = "load"].pc = "load"
            BY RecoveryAt
        <3>2. CASE RecoverRename
            BY <3>1, <3>2 DEF RecoverRename, NextFile
        <3>3. CASE RecoverBack
            BY <3>3 DEF RecoverBack, NextFile
        <3> QED BY <1>4, <3>2, <3>3
    <2>3. PICK f, to \in Credentials : Rename(recovery.p, f, to, saver)
        BY <1>4, <2>1 DEF RecoverRename, RecoverBack
    <2> DEFINE q == recovery.p
    <2>4. Present'
        <3> SUFFICES ASSUME NEW p \in Paths, p \notin gone \cup overlapped
                     PROVE  \E g \in Credentials : Has(p, g)'
            BY <1>1 DEF Present
        <3>1. PICK g \in Credentials : Has(p, g)
            BY DEF LostNothing, Present
        <3>2. CASE ~Has(q, f) \/ p # q
            BY <1>1, <2>1, <2>3, <3>1, <3>2 DEF Rename, Has
        <3>3. CASE Has(q, f) /\ p = q
            BY <1>1, <2>1, <2>3, <3>3 DEF Rename, Has
        <3> QED BY <3>2, <3>3
    <2> QED BY <1>2, <2>2, <2>4 DEF LostNothing
<1>5. CASE RecoverLoad
    <2>1. recovery.p \in Paths /\ UNCHANGED disk
        BY <1>5, RecoveryAt DEF RecoverLoad
    <2>2. Present'
        BY <1>1, <2>1 DEF LostNothing, Present, Has
    <2>3. CASE Whole(recovery.p, "json")
        BY <1>2, <1>5, <2>2, <2>3 DEF LostNothing, RecoverLoad
    <2>4. CASE ~Whole(recovery.p, "json")
        <3>1. recovery' = [recovery EXCEPT !.pc = "unlink"]
            BY <1>5, <2>4 DEF RecoverLoad
        <3>2. recovery'.p = recovery.p
            BY <1>5, <3>1, RecoveryAt DEF RecoverLoad
        <3>3. Spare(recovery.p)
            <4> SUFFICES ASSUME recovery.p \notin gone \cup overlapped
                         PROVE  \E f \in Disabled : Has(recovery.p, f)
                BY DEF Spare
            <4>1. PICK f \in Credentials : Has(recovery.p, f)
                BY <2>1 DEF LostNothing, Present
            <4>2. Whole(recovery.p, f)
                BY <2>1, <4>1 DEF AllSound, Sound
            <4> QED BY <2>4, <4>1, <4>2, NameFacts
        <3>4. Spare(recovery.p)'
            BY <1>1, <2>1, <3>2, <3>3 DEF Spare, Has
        <3> QED BY <1>2, <2>2, <3>4 DEF LostNothing
    <2> QED BY <2>3, <2>4
<1>6. CASE RecoverUnlink
    <2>1. recovery.p \in Paths /\ Spare(recovery.p) /\ Unlink(recovery.p, "json", saver)
          /\ recovery'.pc # "unlink"
        BY <1>6, RecoveryAt DEF RecoverUnlink, LostNothing, NextFile
    <2> DEFINE q == recovery.p
    <2>2. /\ \A p \in Paths \ {q} : disk'[p] = disk[p]
          /\ \A f \in Disabled : Has(q, f) => f \in DOMAIN disk'[q]
        BY <1>1, <2>1, NameFacts DEF Unlink, Has
    <2>3. Present'
        <3> SUFFICES ASSUME NEW p \in Paths, p \notin gone \cup overlapped
                     PROVE  \E g \in Credentials : Has(p, g)'
            BY <1>1 DEF Present
        <3>1. CASE p # q
            BY <2>2, <3>1 DEF LostNothing, Present, Has
        <3>2. CASE p = q
            BY <2>1, <2>2, <3>2, NameFacts DEF Spare, Has
        <3> QED BY <3>1, <3>2
    <2> QED BY <1>2, <2>1, <2>3 DEF LostNothing
<1> QED BY <1>3, <1>4, <1>5, <1>6 DEF Recovery

LEMMA NewFileLosesNothing ==
    ASSUME IInv, LostNothing, NoUploadsWhileRecovering, NEW p \in Paths, NewFile(p)
    PROVE  LostNothing'
<1> USE DEF IInv, Typed
<1>1. recovery = Off
    <2> SUFFICES ASSUME recovery # Off
                 PROVE  FALSE
        OBVIOUS
    <2>1. PICK s \in SetUps : s.recovers = TRUE
        BY BoundsAssumption DEF LostNothing
    <2>2. (recovery # Off) = TRUE
        OBVIOUS
    <2>3. SetUp = SetUpOf[TRUE]
        BY <2>2 DEF SetUp
    <2>4. SetUp = CHOOSE x \in SetUps : x.recovers = TRUE
        BY <2>1, <2>3 DEF SetUpOf
    <2>5. SetUp \in SetUps /\ SetUp.recovers = TRUE
        BY <2>1, <2>4
    <2> QED BY <2>5 DEF NoUploadsWhileRecovering, NewFile
<1>2. UNCHANGED <<recovery, overlapped>> /\ gone' = gone \ {p}
    BY DEF NewFile
<1>3. /\ \A q \in Paths \ {p} : disk'[q] = disk[q]
      /\ DOMAIN disk'[p] = DOMAIN disk[p] \cup {"json"}
    BY PutFacts DEF NewFile, FilesTyped
<1>4. Present'
    BY <1>2, <1>3, NameFacts DEF LostNothing, Present, Has
<1> QED BY <1>1, <1>2, <1>4 DEF LostNothing, Off

LEMMA CrashLosesNothing ==
    ASSUME LostNothing, Crash
    PROVE  LostNothing'
<1>1. /\ UNCHANGED <<disk, overlapped>> /\ gone' = {p \in gone : ~Has(p, "json")}
      /\ recovery' = IF recovery = Off THEN Off ELSE Idle
    BY DEF Crash
<1>2. Present'
    BY <1>1, NameFacts DEF LostNothing, Present, Has
<1>3. recovery'.pc # "unlink" /\ (recovery' # Off => recovery # Off)
    BY <1>1 DEF Off, Idle
<1> QED BY <1>2, <1>3 DEF LostNothing

\* The other steps leave the files and the recovery alone.
LEMMA OthersLoseNothing ==
    ASSUME IInv, LostNothing, UNCHANGED <<disk, recovery, overlapped>>, gone \subseteq gone'
    PROVE  LostNothing'
<1>1. \A p \in Paths : \A f \in Credentials : Has(p, f) => Has(p, f)'
    BY DEF Has
<1> QED BY <1>1, FilesStay, UnlinksAt

LEMMA NothingIsLost ==
    ASSUME NoUploadsWhileRecovering, IInv, LostNothing, [Next]_vars
    PROVE  LostNothing'
<1>1. CASE UNCHANGED vars
    BY <1>1, OthersLoseNothing DEF vars
<1>2. ASSUME NEW o \in Accounts, Refresh(o) \/ Condemn(o)
      PROVE  LostNothing'
    <2>1. UNCHANGED <<disk, recovery, overlapped>>
        BY <1>2 DEF Refresh, Condemn, BeginRefresh, Granted, AnswerLost, Denied, FailRefresh,
                    QuotaAccepts, QuotaRejects, Enqueue
    <2>2. gone \subseteq gone'
        BY <1>2 DEF Refresh, Condemn, BeginRefresh, Granted, AnswerLost, Denied, FailRefresh,
                    QuotaAccepts, QuotaRejects, Enqueue, Leave, NotLeaving
    <2> QED BY <2>1, <2>2, OthersLoseNothing
<1>3. ASSUME NEW w \in Workers, TakeSave(w)
      PROVE  LostNothing'
    BY <1>3, OthersLoseNothing DEF TakeSave, SaverStep
<1>4. CASE Scan
    <2>1. UNCHANGED <<disk, recovery, overlapped, gone>>
        BY <1>4 DEF Scan, ScanList, ScanFilter, ScanLoad, ScanMerge, ScanStep, LoopStep
    <2> QED BY <2>1, OthersLoseNothing
<1> QED BY <1>1, <1>2, <1>3, <1>4, SavesLoseNothing, SettledFileLosesNothing,
           RecoveryLosesNothing, NewFileLosesNothing, CrashLosesNothing DEF Next

\* Between them the removals, the disabling, the recovery, the saves and crashes
\* lose no credential, for any number of workers, accounts and tokens, if the user
\* puts no files there while the recovery runs.
THEOREM NothingLost == NoUploadsWhileRecovering => (Spec => []Present)
<1> SUFFICES ASSUME NoUploadsWhileRecovering
             PROVE  Spec => []Present
    OBVIOUS
<1>1. Init => LostNothing
    <2> SUFFICES ASSUME Init
                 PROVE  LostNothing
        OBVIOUS
    <2>1. recovery.pc # "unlink" /\ (recovery # Off => \E s \in SetUps : s.recovers)
        BY DEF Init, Off, Idle
    <2>2. Present
        BY NameFacts DEF Init, Present, Has
    <2> QED BY <2>1, <2>2 DEF LostNothing
<1>2. IInv /\ LostNothing /\ [Next]_vars => LostNothing'
    BY NothingIsLost
<1>3. LostNothing => Present
    BY DEF LostNothing
<1> QED BY <1>1, <1>2, <1>3, Initially, Stays, PTL DEF Spec
-----------------------------------------------------------------------------
\* The token of an account on its way to the file.
IsTask(t) == t = Idle \/ \E pc, kind, token : t = [pc |-> pc, kind |-> kind, token |-> token]

\* A refresh waits for its own save, and for its account to be dealt with.
TasksRight ==
    /\ \A o \in Accounts : IsTask(task[o])
    /\ \A o \in Accounts : saver[o].pc # "idle" => task[o].pc = "save"
    /\ \A r \in leaving : r.by = "task" => r.o \in Accounts /\ task[r.o].pc = "leaving"
    /\ \A r, s \in leaving : r.by = "task" /\ s.by = "task" /\ r.o = s.o => r = s

Indexed ==
    /\ index \in [Paths -> Nat]
    /\ \A p \in Paths : index[p] # 0 => index[p] \in DOMAIN objects /\ PathOf(index[p]) = p

\* A refresh is about to save the account or to queue it, it is queued, or the last
\* save of it was dropped.
TaskSaves(o) ==
    /\ o \in Accounts
    /\ \/ task[o].pc \in {"enqueue", "save"}
       \/ task[o].pc = "check" /\ task[o].kind # "loop"
Queued(o) == \E i \in DOMAIN saveQueue : saveQueue[i] = o
Awaited(o) == o \in dropped \/ TaskSaves(o) \/ Queued(o)

\* The worker has the account, with the token it has now.
Current(w, p, o) ==
    /\ saver[w].pc # "idle" /\ saver[w].o = o
    /\ saver[w].pc \in {"open", "write"} => saver[w].token = objects[o].token
    /\ saver[w].pc = "rename" => (Has(p, "tmp") => disk[p]["tmp"] = objects[o].token)
InHand(p, o) == \E w \in Workers : Current(w, p, o)

Written(p, o) ==
    /\ \A w \in Workers : saver[w].pc # "idle" => saver[w].o # o
    /\ disk[p]["json"] = objects[o].token

Safe(p, o) ==
    /\ Has(p, "json")
    /\ Awaited(o) \/ InHand(p, o) \/ Written(p, o)

\* What the scan has read of a path that has no account yet is what is there.
NoAccount(p) == \A o \in DOMAIN objects : PathOf(o) # p
ReadRight(p) ==
    scan.pc = "load" /\ p \in DOMAIN scan.read /\ NoAccount(p) =>
        Has(p, "json") /\ disk[p]["json"] = scan.read[p]

Held ==
    /\ TasksRight /\ Indexed
    /\ \A r \in leaving : index[PathOf(r.o)] # r.o
    /\ \A p \in Paths \ overlapped : (OnlyAccount(p) => Safe(p, index[p])) /\ ReadRight(p)

LEMMA Apart ==
    /\ \A w \in Workers : w \in Savers /\ w \notin Accounts
    /\ \A o \in Accounts : o \in Savers /\ o \in Nat
<1>1. Accounts \subseteq Nat
    BY BoundsAssumption DEF Accounts
<1> QED BY <1>1, BoundsAssumption DEF Savers

\* A step that leaves the file, its account and the saves of it as they are.
LEMMA SafeStays ==
    ASSUME NEW p, NEW o, Safe(p, o), disk'[p] = disk[p], objects'[o].token = objects[o].token,
           \A w \in Workers : \/ saver'[w] = saver[w]
                              \/ /\ saver'[w].pc # "idle" => saver'[w].o # o
                                 /\ saver[w].pc # "idle" => saver[w].o # o,
           Awaited(o) => Awaited(o)'
    PROVE  Safe(p, o)'
<1>1. \A f : (Has(p, f)' <=> Has(p, f))
    BY DEF Has
<1>2. CASE Awaited(o)
    BY <1>1, <1>2 DEF Safe
<1>3. CASE InHand(p, o)
    <2>1. InHand(p, o)'
        BY <1>1, <1>3 DEF InHand, Current
    <2> QED BY <1>1, <2>1 DEF Safe
<1>4. CASE Written(p, o)
    <2>1. Written(p, o)'
        BY <1>4 DEF Written
    <2> QED BY <1>1, <2>1 DEF Safe
<1> QED BY <1>2, <1>3, <1>4 DEF Safe

\* A step that neither loads accounts nor takes one out.
LEMMA HeldStill ==
    ASSUME Held, UNCHANGED <<index, scan>>, objects \in Seq(AccountRecords),
           objects' \in Seq(AccountRecords), DOMAIN objects' = DOMAIN objects,
           \A o \in DOMAIN objects : objects'[o].path = objects[o].path,
           \A r \in leaving : r.o \in DOMAIN objects,
           leaving' \subseteq leaving, TasksRight', overlapped \subseteq overlapped',
           \A p \in Paths \ overlapped' : \A o \in DOMAIN objects :
               OnlyAccount(p) /\ o = index[p] /\ Safe(p, o) => Safe(p, o)',
           \A p \in Paths : NoAccount(p) /\ Has(p, "json") =>
               Has(p, "json")' /\ disk'[p]["json"] = disk[p]["json"]
    PROVE  Held'
<1>1. \A o \in DOMAIN objects : PathOf(o)' = PathOf(o)
    BY DEF PathOf
<1>2. Indexed'
    BY <1>1 DEF Held, Indexed
<1>3. \A r \in leaving' : index'[PathOf(r.o)'] # r.o
    BY <1>1 DEF Held
<1>4. ASSUME NEW p \in Paths \ overlapped'
      PROVE  OnlyAccount(p)' => Safe(p, index[p])'
    <2> SUFFICES ASSUME OnlyAccount(p)'
                 PROVE  Safe(p, index[p])'
        OBVIOUS
    <2>1. OnlyAccount(p)
        BY <1>1 DEF OnlyAccount
    <2>2. Safe(p, index[p]) /\ index[p] \in DOMAIN objects
        BY <2>1 DEF Held, OnlyAccount, Indexed
    <2>3. PICK o \in DOMAIN objects : o = index[p] /\ index'[p] = o
        BY <2>2
    <2>4. Safe(p, o)
        BY <2>2, <2>3
    <2>5. Safe(p, o)'
        BY <2>1, <2>3, <2>4
    <2> QED BY <2>3, <2>5
<1>5. ASSUME NEW p \in Paths \ overlapped'
      PROVE  ReadRight(p)'
    <2> SUFFICES ASSUME scan.pc = "load", p \in DOMAIN scan.read, NoAccount(p)'
                 PROVE  Has(p, "json")' /\ disk'[p]["json"] = scan.read[p]
        BY DEF ReadRight
    <2>1. NoAccount(p)
        BY <1>1 DEF NoAccount
    <2> QED BY <2>1 DEF Held, ReadRight
<1> QED BY <1>2, <1>3, <1>4, <1>5 DEF Held

\* A step of a refresh that neither saves nor leaves: its own account only.
LEMMA TaskSet ==
    ASSUME TasksRight, DOMAIN task = Accounts, NEW o \in Accounts, NEW t, IsTask(t),
           task[o].pc \notin {"save", "leaving"}, task' = [task EXCEPT ![o] = t],
           leaving' \subseteq leaving, UNCHANGED saver
    PROVE  /\ TasksRight' /\ task'[o] = t
           /\ \A y \in Accounts \ {o} : task'[y] = task[y]
<1>1. task'[o] = t /\ \A y \in Accounts \ {o} : task'[y] = task[y]
    OBVIOUS
<1>2. \A y \in Accounts : IsTask(task'[y])
    BY <1>1 DEF TasksRight
<1>3. \A y \in Accounts : saver'[y].pc # "idle" => task'[y].pc = "save"
    BY <1>1 DEF TasksRight
<1>4. \A r \in leaving' : r.by = "task" => task'[r.o] = task[r.o]
    BY DEF TasksRight
<1> QED BY <1>1, <1>2, <1>3, <1>4 DEF TasksRight

LEMMA TaskRecord ==
    ASSUME TasksRight, NEW o \in Accounts, task[o].pc # "idle"
    PROVE  \E pc, kind, token : task[o] = [pc |-> pc, kind |-> kind, token |-> token]
<1>1. IsTask(task[o])
    BY DEF TasksRight
<1>2. task[o] # Idle
    BY DEF Idle
<1> QED BY <1>1, <1>2 DEF IsTask

LEMMA TaskMoves ==
    ASSUME TasksRight, DOMAIN task = Accounts, NEW o \in Accounts,
           task[o].pc \notin {"idle", "save", "leaving"}, NEW x, task' = [task EXCEPT ![o].pc = x],
           leaving' \subseteq leaving, UNCHANGED saver
    PROVE  /\ TasksRight'
           /\ task'[o].pc = x /\ task'[o].kind = task[o].kind
           /\ \A y \in Accounts \ {o} : task'[y] = task[y]
<1>1. PICK pc, kind, token : task[o] = [pc |-> pc, kind |-> kind, token |-> token]
    BY TaskRecord
<1> DEFINE t == [pc |-> x, kind |-> kind, token |-> token]
<1>2. IsTask(t) /\ task' = [task EXCEPT ![o] = t] /\ t.pc = x /\ t.kind = kind
    <2>1. [task[o] EXCEPT !.pc = x] = t
        BY <1>1
    <2>2. task' = [task EXCEPT ![o] = [task[o] EXCEPT !.pc = x]]
        OBVIOUS
    <2>3. IsTask(t)
        BY DEF IsTask
    <2> QED BY <2>1, <2>2, <2>3
<1> HIDE DEF t
<1> QED BY <1>1, <1>2, TaskSet

\* What the saves of an account await does not depend on other accounts.
LEMMA RefreshAside ==
    ASSUME NEW p, NEW x, NEW o \in Accounts, Safe(p, x), UNCHANGED <<disk, saver>>,
           objects'[x].token = objects[x].token,
           \A y \in Accounts \ {o} : task'[y] = task[y],
           Queued(x) => Queued(x)', x \in dropped => x \in dropped' \/ Queued(x)',
           x = o => (TaskSaves(o) => Awaited(o)')
    PROVE  Safe(p, x)'
<1>1. Awaited(x) => Awaited(x)'
    BY DEF Awaited, TaskSaves
<1> QED BY <1>1, SafeStays

LEMMA BeginRefreshHolds ==
    ASSUME IInv, Held, NEW o \in Accounts, NEW kind, BeginRefresh(o, kind)
    PROVE  Held'
<1> USE DEF IInv, Typed, HoldersTyped
<1> DEFINE t == [pc |-> "asking", kind |-> kind, token |-> objects[o].token]
<1>1. UNCHANGED <<disk, saver, saveQueue, dropped, objects, index, scan, leaving, overlapped>>
      /\ task[o].pc = "idle" /\ task' = [task EXCEPT ![o] = t]
    BY DEF BeginRefresh, mem
<1>2. TasksRight' /\ task'[o] = t /\ \A y \in Accounts \ {o} : task'[y] = task[y]
    <2>1. IsTask(t)
        BY DEF IsTask
    <2> HIDE DEF t
    <2> QED BY <1>1, <2>1, TaskSet DEF Held
<1>3. ASSUME NEW p, NEW x, Safe(p, x)
      PROVE  Safe(p, x)'
    <2>1. Queued(x) => Queued(x)'
        BY <1>1 DEF Queued
    <2>2. x = o => ~TaskSaves(o)
        BY <1>1 DEF TaskSaves
    <2> QED BY <1>1, <1>2, <1>3, <2>1, <2>2, RefreshAside
<1>4. \A p \in Paths : Has(p, "json") => Has(p, "json")' /\ disk'[p]["json"] = disk[p]["json"]
    BY <1>1 DEF Has
<1> QED BY <1>1, <1>2, <1>3, <1>4, HeldStill

LEMMA AnswerLostHolds ==
    ASSUME IInv, Held, NEW o \in Accounts, AnswerLost(o)
    PROVE  Held'
<1> USE DEF IInv, Typed, HoldersTyped
<1>1. UNCHANGED <<disk, saver, saveQueue, dropped, objects, index, scan, leaving, overlapped, task>>
    BY DEF AnswerLost, mem
<1>2. TasksRight'
    BY <1>1 DEF Held, TasksRight
<1>3. ASSUME NEW p, NEW x, Safe(p, x)
      PROVE  Safe(p, x)'
    <2>1. Awaited(x) => Awaited(x)'
        BY <1>1 DEF Awaited, TaskSaves, Queued
    <2> QED BY <1>1, <1>3, <2>1, SafeStays
<1>4. \A p \in Paths : Has(p, "json") => Has(p, "json")' /\ disk'[p]["json"] = disk[p]["json"]
    BY <1>1 DEF Has
<1> QED BY <1>1, <1>2, <1>3, <1>4, HeldStill

LEMMA GrantedHolds ==
    ASSUME IInv, Held, NEW o \in Accounts, Granted(o)
    PROVE  Held'
<1> USE DEF IInv, Typed
<1>1. UNCHANGED <<disk, saver, saveQueue, dropped, index, scan, leaving, overlapped>>
      /\ task[o].pc = "asking"
    BY DEF Granted, Issue
<1>2. o \in DOMAIN objects /\ objects \in Seq(AccountRecords) /\ DOMAIN task = Accounts
    BY <1>1 DEF HoldersTyped
<1>3. objects' \in Seq(AccountRecords)
    BY GrantedKeeps DEF HoldersTyped
<1>4. /\ DOMAIN objects' = DOMAIN objects
      /\ \A i \in DOMAIN objects : objects'[i].path = objects[i].path
      /\ \A i \in DOMAIN objects : i # o => objects'[i].token = objects[i].token
    <2>1. objects' = [objects EXCEPT ![o] = [objects[o] EXCEPT !.token = issued'[PathOf(o)]]]
        BY DEF Granted
    <2>2. [objects[o] EXCEPT !.token = issued'[PathOf(o)]].path = objects[o].path
        BY <1>2 DEF AccountRecords
    <2> QED BY <1>2, <2>1, <2>2
<1>5. PICK x : task' = [task EXCEPT ![o].pc = x]
               /\ x = IF task[o].kind = "loop" THEN "enqueue" ELSE "check"
    BY DEF Granted
<1>6. /\ TasksRight'
      /\ task'[o].pc = x /\ task'[o].kind = task[o].kind
      /\ \A y \in Accounts \ {o} : task'[y] = task[y]
    BY <1>1, <1>2, <1>5, TaskMoves DEF Held
<1>7. ASSUME NEW p, NEW y \in DOMAIN objects, Safe(p, y)
      PROVE  Safe(p, y)'
    <2>1. Queued(y) => Queued(y)'
        BY <1>1 DEF Queued
    <2>2. CASE y = o
        <3>1. TaskSaves(o)'
            BY <1>5, <1>6 DEF TaskSaves
        <3>2. Has(p, "json")'
            BY <1>1, <1>7, <2>2 DEF Safe, Has
        <3> QED BY <2>2, <3>1, <3>2 DEF Safe, Awaited
    <2>3. CASE y # o
        BY <1>1, <1>4, <1>6, <1>7, <2>1, <2>3, RefreshAside
    <2> QED BY <2>2, <2>3
<1>8. \A p \in Paths : Has(p, "json") => Has(p, "json")' /\ disk'[p]["json"] = disk[p]["json"]
    BY <1>1 DEF Has
<1> QED BY <1>1, <1>2, <1>3, <1>4, <1>6, <1>7, <1>8, HeldStill DEF HoldersTyped

LEMMA EnqueueHolds ==
    ASSUME IInv, Held, NEW o \in Accounts, Enqueue(o)
    PROVE  Held'
<1> USE DEF IInv, Typed
<1>1. UNCHANGED <<disk, saver, objects, index, scan, leaving, overlapped>>
      /\ task[o].pc = "enqueue"
    BY DEF Enqueue, mem
<1>2. /\ objects \in Seq(AccountRecords) /\ DOMAIN task = Accounts /\ saveQueue \in Seq(Nat)
      /\ o \in DOMAIN objects /\ o \in Nat
    BY <1>1, Apart DEF HoldersTyped
<1>3. /\ \A x : Queued(x) => Queued(x)'
      /\ Queued(o)' \/ o \in dropped'
      /\ \A x : x \in dropped => x \in dropped' \/ Queued(x)'
    <2>1. CASE saveQueue' = Append(saveQueue, o) /\ dropped' = dropped \ {o}
        <3>1. /\ DOMAIN saveQueue' = 1 .. Len(saveQueue) + 1
              /\ saveQueue'[Len(saveQueue) + 1] = o
              /\ \A i \in 1 .. Len(saveQueue) : saveQueue'[i] = saveQueue[i]
            BY <1>2, <2>1
        <3>2. Queued(o)'
            BY <1>2, <3>1 DEF Queued
        <3>3. \A x : Queued(x) => Queued(x)'
            BY <1>2, <3>1 DEF Queued
        <3> QED BY <2>1, <3>2, <3>3
    <2>2. CASE saveQueue' = saveQueue /\ dropped' = dropped \cup {o}
        BY <2>2 DEF Queued
    <2> QED BY <2>1, <2>2 DEF Enqueue
<1>4. /\ TasksRight'
      /\ \A y \in Accounts \ {o} : task'[y] = task[y]
    <2>1. PICK pc, kind, token : task[o] = [pc |-> pc, kind |-> kind, token |-> token]
        BY <1>1, TaskRecord DEF Held
    <2>2. PICK t : task' = [task EXCEPT ![o] = t]
                   /\ (t = [pc |-> "check", kind |-> kind, token |-> token] \/ t = Idle)
        <3>1. CASE task[o].kind = "loop"
            <4>1. task' = [task EXCEPT ![o] = [task[o] EXCEPT !.pc = "check"]]
                BY <3>1 DEF Enqueue
            <4>2. [task[o] EXCEPT !.pc = "check"] = [pc |-> "check", kind |-> kind, token |-> token]
                BY <2>1
            <4> QED BY <4>1, <4>2
        <3>2. CASE task[o].kind # "loop"
            <4>1. task' = [task EXCEPT ![o] = Idle]
                BY <3>2 DEF Enqueue
            <4> QED BY <4>1
        <3> QED BY <3>1, <3>2
    <2>3. IsTask(t)
        BY <2>2 DEF IsTask
    <2> QED BY <1>1, <1>2, <2>2, <2>3, TaskSet DEF Held
<1>5. ASSUME NEW p, NEW x, Safe(p, x)
      PROVE  Safe(p, x)'
    <2>1. x = o => Awaited(o)'
        BY <1>3 DEF Awaited
    <2> QED BY <1>1, <1>3, <1>4, <1>5, <2>1, RefreshAside
<1>6. \A p \in Paths : Has(p, "json") => Has(p, "json")' /\ disk'[p]["json"] = disk[p]["json"]
    BY <1>1 DEF Has
<1> QED BY <1>1, <1>2, <1>4, <1>5, <1>6, HeldStill DEF HoldersTyped

LEMMA QuotaAcceptsHolds ==
    ASSUME IInv, Held, NEW o \in Accounts, QuotaAccepts(o)
    PROVE  Held'
<1> USE DEF IInv, Typed
<1>1. UNCHANGED <<disk, saveQueue, dropped, objects, index, scan, leaving, overlapped>>
      /\ task[o].pc = "check"
    BY DEF QuotaAccepts, mem
<1>2. /\ objects \in Seq(AccountRecords) /\ DOMAIN task = Accounts /\ DOMAIN saver = Savers
      /\ o \in Savers
    BY Apart DEF HoldersTyped
<1>3. CASE task[o].kind = "loop"
    <2>1. task' = [task EXCEPT ![o] = Idle] /\ UNCHANGED saver
        BY <1>3 DEF QuotaAccepts
    <2>2. TasksRight' /\ \A y \in Accounts \ {o} : task'[y] = task[y]
        BY <1>1, <1>2, <2>1, TaskSet DEF Held, IsTask
    <2>3. ASSUME NEW p, NEW x, Safe(p, x)
          PROVE  Safe(p, x)'
        <3>1. Queued(x) => Queued(x)'
            BY <1>1 DEF Queued
        <3>2. x = o => ~TaskSaves(o)
            BY <1>1, <1>3 DEF TaskSaves
        <3> QED BY <1>1, <2>1, <2>2, <2>3, <3>1, <3>2, RefreshAside
    <2>4. \A p \in Paths : Has(p, "json") => Has(p, "json")' /\ disk'[p]["json"] = disk[p]["json"]
        BY <1>1 DEF Has
    <2> QED BY <1>1, <1>2, <2>1, <2>2, <2>3, <2>4, HeldStill DEF HoldersTyped
<1>4. CASE task[o].kind # "loop"
    <2>1. /\ task' = [task EXCEPT ![o].pc = "save"]
          /\ saver' = [saver EXCEPT ![o] = [pc |-> "read", o |-> o]]
        BY <1>4 DEF QuotaAccepts
    <2>2. /\ task'[o].pc = "save" /\ IsTask(task'[o])
          /\ \A y \in Accounts \ {o} : task'[y] = task[y]
        <3>1. PICK pc, kind, token : task[o] = [pc |-> pc, kind |-> kind, token |-> token]
            BY <1>1, TaskRecord DEF Held
        <3>2. task'[o] = [pc |-> "save", kind |-> kind, token |-> token]
            BY <1>2, <2>1, <3>1
        <3> QED BY <1>2, <2>1, <3>2 DEF IsTask
    <2>3. \A v \in Savers \ {o} : saver'[v] = saver[v]
        BY <1>2, <2>1
    <2>6. TasksRight'
        <3>1. \A y \in Accounts : IsTask(task'[y]) /\ (saver'[y].pc # "idle" => task'[y].pc = "save")
            BY <2>2, <2>3, Apart DEF Held, TasksRight
        <3>2. \A r \in leaving' : r.by = "task" => task'[r.o] = task[r.o]
            BY <1>1, <2>1 DEF Held, TasksRight
        <3> QED BY <1>1, <3>1, <3>2 DEF Held, TasksRight
    <2>4. ASSUME NEW p, NEW x, Safe(p, x)
          PROVE  Safe(p, x)'
        <3>1. Awaited(x) => Awaited(x)'
            BY <1>1, <2>2 DEF Awaited, TaskSaves, Queued
        <3>2. \A w \in Workers : saver'[w] = saver[w]
            BY <2>3, Apart
        <3> QED BY <1>1, <2>4, <3>1, <3>2, SafeStays
    <2>5. \A p \in Paths : Has(p, "json") => Has(p, "json")' /\ disk'[p]["json"] = disk[p]["json"]
        BY <1>1 DEF Has
    <2> QED BY <1>1, <1>2, <2>2, <2>4, <2>5, <2>6, HeldStill DEF HoldersTyped
<1> QED BY <1>3, <1>4

\* An account that leaves is no longer the only one of its path.
LEMMA LeavingHolds ==
    ASSUME IInv, Held, NEW o \in DOMAIN objects, NEW how, NEW by, Leave(o, how, by),
           UNCHANGED <<disk, saver, saveQueue, dropped, scan, overlapped>>,
           TasksRight', \A y \in Accounts \ {o} : task'[y] = task[y]
    PROVE  Held'
<1> USE DEF IInv, Typed
<1> DEFINE q == PathOf(o)
<1>1. objects[o] \in AccountRecords /\ \A r \in leaving : r.o \in DOMAIN objects
    BY DEF HoldersTyped
<1>2. q \in Paths /\ o \in Nat \ {0}
    BY <1>1 DEF AccountRecords, PathOf, HoldersTyped
<1>3. /\ UNCHANGED objects /\ index' = [index EXCEPT ![q] = 0]
      /\ \A r \in leaving' : r \in leaving \/ r.o = o
    BY DEF Leave
<1>4. index'[q] = 0 /\ \A p \in Paths \ {q} : index'[p] = index[p]
    BY <1>2, <1>3 DEF Held, Indexed
<1>5. \A x : PathOf(x)' = PathOf(x)
    BY <1>3 DEF PathOf
<1>6. Indexed'
    <2>1. index' \in [Paths -> Nat]
        BY <1>3 DEF Held, Indexed
    <2> QED BY <1>3, <1>4, <1>5, <2>1 DEF Held, Indexed
<1>7. ASSUME NEW r \in leaving'
      PROVE  index'[PathOf(r.o)'] # r.o
    <2>1. r.o \in DOMAIN objects
        BY <1>1, <1>3
    <2>2. PathOf(r.o) \in Paths /\ r.o # 0
        <3>1. objects[r.o] \in AccountRecords
            BY <2>1 DEF HoldersTyped
        <3> QED BY <2>1, <3>1 DEF AccountRecords, PathOf, HoldersTyped
    <2>3. CASE PathOf(r.o) = q
        BY <1>4, <1>5, <2>2, <2>3
    <2>4. CASE PathOf(r.o) # q
        BY <1>3, <1>4, <1>5, <2>2, <2>4 DEF Held
    <2> QED BY <2>3, <2>4
<1>8. ASSUME NEW p \in Paths \ overlapped'
      PROVE  (OnlyAccount(p)' => Safe(p, index[p])') /\ ReadRight(p)'
    <2>1. ReadRight(p)'
        <3>1. ReadRight(p)
            BY DEF Held
        <3> QED BY <1>3, <1>5, <3>1 DEF ReadRight, NoAccount, Has
    <2>2. ASSUME OnlyAccount(p)'
          PROVE  Safe(p, index[p])'
        <3>1. p # q
            BY <1>4, <2>2 DEF OnlyAccount
        <3>2. OnlyAccount(p)
            BY <1>3, <1>4, <1>5, <2>2, <3>1 DEF OnlyAccount
        <3>3. PICK x : x = index[p] /\ index'[p] = x
            BY <1>4, <3>1
        <3>4. Safe(p, x) /\ x # o
            BY <1>2, <3>1, <3>2, <3>3 DEF Held, OnlyAccount, Indexed
        <3>5. Awaited(x) => Awaited(x)'
            BY <3>4 DEF Awaited, TaskSaves, Queued
        <3>6. Safe(p, x)'
            BY <1>3, <3>4, <3>5, SafeStays
        <3> QED BY <3>3, <3>6
    <2> QED BY <2>1, <2>2
<1> QED BY <1>6, <1>7, <1>8 DEF Held

\* A refresh ends without an account that leaves.
LEMMA RefreshEnds ==
    ASSUME IInv, Held, NEW o \in Accounts, task' = [task EXCEPT ![o] = Idle],
           task[o].pc \in {"asking", "check"},
           \A p \in Paths : OnlyAccount(p) /\ o = index[p] => ~TaskSaves(o),
           UNCHANGED <<disk, saver, saveQueue, dropped, objects, index, scan, leaving, overlapped>>
    PROVE  Held'
<1> USE DEF IInv, Typed
<1>1. TasksRight' /\ \A y \in Accounts \ {o} : task'[y] = task[y]
    <2>1. IsTask(Idle) /\ DOMAIN task = Accounts
        BY DEF IsTask, HoldersTyped
    <2> QED BY <2>1, TaskSet DEF Held
<1>2. ASSUME NEW p \in Paths, NEW x, OnlyAccount(p), x = index[p], Safe(p, x)
      PROVE  Safe(p, x)'
    <2>1. Queued(x) => Queued(x)'
        BY DEF Queued
    <2>2. x = o => ~TaskSaves(o)
        BY <1>2
    <2> QED BY <1>1, <1>2, <2>1, <2>2, RefreshAside
<1>3. \A p \in Paths : Has(p, "json") => Has(p, "json")' /\ disk'[p]["json"] = disk[p]["json"]
    BY DEF Has
<1> QED BY <1>1, <1>2, <1>3, HeldStill DEF HoldersTyped

LEMMA DeniedHolds ==
    ASSUME IInv, Held, NEW o \in Accounts, Denied(o) \/ QuotaRejects(o)
    PROVE  Held'
<1> USE DEF IInv, Typed
<1>1. /\ UNCHANGED <<disk, saver, saveQueue, dropped, scan, overlapped>>
      /\ task[o].pc \in {"asking", "check"}
    BY DEF Denied, FailRefresh, QuotaRejects
<1>2. o \in DOMAIN objects /\ DOMAIN task = Accounts
    BY <1>1 DEF HoldersTyped
<1>3. CASE \E how, by : Leave(o, how, by) /\ task' = [task EXCEPT ![o].pc = "leaving"]
    <2>1. PICK how, by : Leave(o, how, by) /\ task' = [task EXCEPT ![o].pc = "leaving"]
        BY <1>3
    <2>2. PICK pc, kind, token : task[o] = [pc |-> pc, kind |-> kind, token |-> token]
        BY <1>1, TaskRecord DEF Held
    <2>3. /\ task'[o] = [pc |-> "leaving", kind |-> kind, token |-> token]
          /\ \A y \in Accounts \ {o} : task'[y] = task[y]
        BY <1>2, <2>1, <2>2
    <2>4. /\ \A r \in leaving : r.by = "task" => r.o # o /\ task'[r.o] = task[r.o]
          /\ leaving' = leaving \cup {[o |-> o, how |-> how, by |-> by]}
        BY <1>1, <2>1 DEF Held, TasksRight, Leave
    <2>5. TasksRight'
        <3>1. \A y \in Accounts : IsTask(task'[y])
            <4>1. IsTask(task'[o])
                BY <2>3 DEF IsTask
            <4> QED BY <2>3, <4>1 DEF Held, TasksRight
        <3>2. \A y \in Accounts : saver'[y].pc # "idle" => task'[y].pc = "save"
            BY <1>1, <2>3 DEF Held, TasksRight
        <3>3. \A r \in leaving' : r.by = "task" => r.o \in Accounts /\ task'[r.o].pc = "leaving"
            BY <2>3, <2>4 DEF Held, TasksRight
        <3>4. \A r, s \in leaving' : r.by = "task" /\ s.by = "task" /\ r.o = s.o => r = s
            BY <2>4 DEF Held, TasksRight
        <3> QED BY <3>1, <3>2, <3>3, <3>4 DEF TasksRight
    <2> QED BY <1>1, <1>2, <2>1, <2>3, <2>5, LeavingHolds
<1>4. CASE /\ task' = [task EXCEPT ![o] = Idle] /\ NotLeaving
           /\ task[o].pc = "asking" \/ index[PathOf(o)] = 0
    <2>1. ASSUME NEW p \in Paths, OnlyAccount(p), o = index[p]
          PROVE  ~TaskSaves(o)
        <3>1. PathOf(o) = p /\ index[p] # 0
            BY <2>1 DEF Held, Indexed, OnlyAccount
        <3> QED BY <1>4, <2>1, <3>1 DEF TaskSaves
    <2> QED BY <1>1, <1>4, <2>1, RefreshEnds DEF NotLeaving, mem
<1> QED BY <1>3, <1>4 DEF Denied, FailRefresh, QuotaRejects

LEMMA CondemnHolds ==
    ASSUME IInv, Held, NEW o \in Accounts, Condemn(o)
    PROVE  Held'
<1> USE DEF IInv, Typed
<1>1. o \in DOMAIN objects
    BY DEF Condemn, HoldersTyped, Accounts
<1>2. UNCHANGED <<disk, saver, saveQueue, dropped, scan, overlapped, task>>
      /\ Leave(o, "remove", "quota")
    BY DEF Condemn
<1>3. TasksRight'
    BY <1>2 DEF Held, TasksRight, Leave
<1> QED BY <1>1, <1>2, <1>3, LeavingHolds

\* The file that is removed or renamed is that of an account out of the index.
LEMMA SettleFileHolds ==
    ASSUME IInv, Held, NEW r \in leaving, SettleFile(r)
    PROVE  Held'
<1> USE DEF IInv, Typed
<1> DEFINE q == PathOf(r.o)
<1>1. /\ UNCHANGED <<saveQueue, dropped, objects, index, scan, overlapped>>
      /\ leaving' \subseteq leaving
      /\ leaving' = leaving \ {r}
      /\ \/ task' = task
         \/ r.by = "task" /\ task' = [task EXCEPT ![r.o] = Idle]
    BY DEF SettleFile, mem
<1>2. /\ r.o \in DOMAIN objects /\ objects \in Seq(AccountRecords) /\ DOMAIN task = Accounts
      /\ saver \in [Savers -> SaverStates] /\ DOMAIN disk = Paths
    BY DEF HoldersTyped, FilesTyped
<1>3. q \in Paths
    <2>1. objects[r.o] \in AccountRecords
        BY <1>2
    <2> QED BY <2>1 DEF AccountRecords, PathOf
<1>4. /\ \A p \in Paths \ {q} : disk'[p] = disk[p]
      /\ saver' = saver \/ \E to \in Names \cup {"none"} : saver' = Follow(saver, q, "json", to)
    <2>1. CASE Unlink(q, "json", saver)
        BY <1>2, <1>3, <2>1, NameFacts, UnlinkFacts
    <2>2. CASE FreeNames(q) # {} /\ Rename(q, "json", FirstFree(q), saver)
        <3>1. FirstFree(q) \in Disabled
            <4>1. \E i \in FreeNames(q) : \A j \in FreeNames(q) : i <= j
                BY <2>2 DEF FreeNames, DisabledNames
            <4> DEFINE i == CHOOSE i \in FreeNames(q) : \A j \in FreeNames(q) : i <= j
            <4>2. i \in FreeNames(q)
                BY <4>1
            <4>3. i \in DOMAIN DisabledNames /\ FirstFree(q) = DisabledNames[i]
                BY <4>2 DEF FreeNames, FirstFree
            <4> HIDE DEF i
            <4> QED BY <4>3 DEF Disabled
        <3> QED BY <1>2, <1>3, <2>2, <3>1, NameFacts DEF Rename
    <2> QED BY <2>1, <2>2 DEF SettleFile
<1>5. \A w \in Savers : /\ saver'[w].pc = saver[w].pc
                        /\ saver[w].pc # "idle" => saver'[w].o = saver[w].o
                        /\ saver[w].pc # "write" \/ PathOf(saver[w].o) # q => saver'[w] = saver[w]
    <2>1. "json" \in Names
        BY NameFacts
    <2> QED BY <1>2, <1>4, <2>1, FollowFacts
<1>6. TasksRight' /\ \A y \in Accounts : y # r.o => task'[y] = task[y]
    <2>1. \A y \in Accounts : y # r.o => task'[y] = task[y]
        BY <1>1, <1>2
    <2>2. \A y \in Accounts : IsTask(task'[y])
        <3>1. \A y \in Accounts : task'[y] = Idle \/ task'[y] = task[y]
            BY <1>1, <1>2
        <3>2. IsTask(Idle) /\ \A y \in Accounts : IsTask(task[y])
            BY DEF IsTask, Held, TasksRight
        <3> QED BY <3>1, <3>2
    <2>3. \A y \in Accounts : saver'[y].pc # "idle" => task'[y].pc = "save"
        <3>1. ASSUME NEW y \in Accounts, saver[y].pc # "idle"
              PROVE  task'[y] = task[y]
            <4>1. task[y].pc = "save"
                BY <3>1 DEF Held, TasksRight
            <4>2. r.by = "task" => y # r.o
                BY <4>1 DEF Held, TasksRight
            <4> QED BY <1>1, <1>2, <3>1, <4>2
        <3> QED BY <1>5, <3>1, Apart DEF Held, TasksRight
    <2>4. ASSUME NEW s \in leaving', s.by = "task"
          PROVE  s.o \in Accounts /\ task'[s.o].pc = "leaving"
        <3>1. s \in leaving /\ s.o \in Accounts /\ (r.by = "task" => s.o # r.o)
            BY <1>1, <2>4 DEF Held, TasksRight
        <3>2. task'[s.o] = task[s.o]
            BY <1>1, <1>2, <3>1
        <3> QED BY <2>4, <3>1, <3>2 DEF Held, TasksRight
    <2> QED BY <1>1, <2>1, <2>2, <2>3, <2>4 DEF Held, TasksRight
<1>7. ASSUME NEW p \in Paths, NEW x \in DOMAIN objects, OnlyAccount(p), x = index[p], Safe(p, x)
      PROVE  Safe(p, x)'
    <2>1. p # q /\ x # r.o /\ PathOf(x) = p
        BY <1>2, <1>7 DEF Held, OnlyAccount, Indexed
    <2>2. Awaited(x) => Awaited(x)'
        BY <1>1, <1>6, <2>1 DEF Awaited, TaskSaves, Queued
    <2>3. ASSUME NEW w \in Workers
          PROVE  \/ saver'[w] = saver[w]
                 \/ /\ saver'[w].pc # "idle" => saver'[w].o # x
                    /\ saver[w].pc # "idle" => saver[w].o # x
        BY <1>5, <2>1, Apart
    <2> QED BY <1>1, <1>4, <1>7, <2>1, <2>2, <2>3, SafeStays
<1>8. ASSUME NEW p \in Paths, NoAccount(p), Has(p, "json")
      PROVE  Has(p, "json")' /\ disk'[p]["json"] = disk[p]["json"]
    BY <1>2, <1>4, <1>8 DEF NoAccount, Has
<1> QED BY <1>1, <1>2, <1>6, <1>7, <1>8, HeldStill DEF HoldersTyped

\* Queueing and saving.
LEMMA TakeSaveHolds ==
    ASSUME IInv, Held, NEW w \in Workers, TakeSave(w)
    PROVE  Held'
<1> USE DEF IInv, Typed
<1> DEFINE h == Head(saveQueue)
<1>1. UNCHANGED <<disk, dropped, objects, index, scan, leaving, overlapped, task>>
    BY DEF TakeSave, SaverStep, mem
<1>2. /\ objects \in Seq(AccountRecords) /\ saver \in [Savers -> SaverStates]
      /\ saveQueue \in Seq(Nat) /\ saveQueue # <<>> /\ saver[w].pc = "idle"
      /\ saver' = [saver EXCEPT ![w] = [pc |-> "read", o |-> h]]
      /\ saveQueue' = Tail(saveQueue)
    BY DEF HoldersTyped, TakeSave
<1>3. /\ saver'[w] = [pc |-> "read", o |-> h]
      /\ \A v \in Savers : v # w => saver'[v] = saver[v]
    BY <1>2, Apart
<1>4. TasksRight'
    BY <1>1, <1>3, Apart DEF Held, TasksRight
<1>5. ASSUME NEW p, NEW x, Safe(p, x)
      PROVE  Safe(p, x)'
    <2>1. CASE x = h
        <3>1. Current(w, p, x)'
            BY <1>3, <2>1 DEF Current
        <3> QED BY <1>1, <1>5, <3>1 DEF Safe, InHand, Has
    <2>2. CASE x # h
        <3>1. Queued(x) => Queued(x)'
            <4> SUFFICES ASSUME NEW i \in DOMAIN saveQueue, saveQueue[i] = x
                         PROVE  Queued(x)'
                BY DEF Queued
            <4>1. i \in 1 .. Len(saveQueue) /\ i # 1 /\ Len(saveQueue) \in Nat
                BY <1>2, <2>2
            <4>2. i - 1 \in DOMAIN saveQueue' /\ saveQueue'[i - 1] = saveQueue[i]
                BY <1>2, <4>1
            <4> QED BY <4>2 DEF Queued
        <3>2. Awaited(x) => Awaited(x)'
            BY <1>1, <3>1 DEF Awaited, TaskSaves
        <3>3. \A v \in Workers : \/ saver'[v] = saver[v]
                                 \/ /\ saver'[v].pc # "idle" => saver'[v].o # x
                                    /\ saver[v].pc # "idle" => saver[v].o # x
            BY <1>2, <1>3, <2>2, Apart
        <3> QED BY <1>1, <1>5, <3>2, <3>3, SafeStays
    <2> QED BY <2>1, <2>2
<1>6. \A p \in Paths : Has(p, "json") => Has(p, "json")' /\ disk'[p]["json"] = disk[p]["json"]
    BY <1>1 DEF Has
<1> QED BY <1>1, <1>2, <1>4, <1>5, <1>6, HeldStill DEF HoldersTyped

\* What a step of one save does: to its path only, and to the refresh it belongs to.
\* The only worker keeps the token in hand, or it is written, or the save has failed.
LEMMA SaveHolds ==
    ASSUME IInv, Held, OneWorker, NEW w \in Savers, saver[w].pc # "idle",
           NEW x \in DOMAIN objects, x = saver[w].o, NEW q \in Paths, q = PathOf(x),
           UNCHANGED <<saveQueue, objects, index, scan, leaving>>,
           dropped \subseteq dropped', overlapped \subseteq overlapped',
           \A p \in Paths \ {q} : disk'[p] = disk[p],
           Has(q, "json") => Has(q, "json")',
           \A v \in Savers \ {w} : /\ saver'[v].pc = saver[v].pc
                                   /\ saver[v].pc # "idle" => saver'[v].o = saver[v].o
                                   /\ saver[v].pc # "write" \/ PathOf(saver[v].o) # q
                                      => saver'[v] = saver[v],
           \/ saver'[w].pc # "idle" /\ saver'[w].o = x /\ UNCHANGED task
           \/ saver'[w].pc = "idle" /\ task' = Returned(w),
           w \in Workers /\ q \notin overlapped' /\ Current(w, q, x) =>
               Current(w, q, x)' \/ x \in dropped' \/
               (saver'[w].pc = "idle" /\ disk'[q]["json"] = objects[x].token)
    PROVE  Held'
<1> USE DEF IInv, Typed
<1>1. /\ objects \in Seq(AccountRecords) /\ DOMAIN task = Accounts
      /\ w \in Accounts => x = w /\ task[w].pc = "save"
    BY DEF HoldersTyped, Held, TasksRight
<1>2. ASSUME w \in Accounts
      PROVE  /\ TasksRight' /\ \A y \in Accounts \ {w} : task'[y] = task[y]
             /\ task'[w].pc \in {"save", "enqueue"}
    <2>1. PICK pc, kind, token : task[w] = [pc |-> pc, kind |-> kind, token |-> token]
        BY <1>1, <1>2, TaskRecord DEF Held
    <2>2. /\ \A y \in Accounts \ {w} : task'[y] = task[y]
          /\ \/ saver'[w].pc # "idle" /\ task'[w] = task[w]
             \/ saver'[w].pc = "idle" /\ task'[w] = [pc |-> "enqueue", kind |-> kind, token |-> token]
        BY <1>1, <1>2, <2>1 DEF Returned
    <2>3. IsTask(task'[w]) /\ task'[w].pc \in {"save", "enqueue"}
        <3>1. CASE task'[w] = task[w]
            BY <1>1, <1>2, <3>1 DEF Held, TasksRight
        <3>2. CASE task'[w] = [pc |-> "enqueue", kind |-> kind, token |-> token]
            <4> DEFINE t == [pc |-> "enqueue", kind |-> kind, token |-> token]
            <4>1. IsTask(t)
                BY DEF IsTask
            <4>2. t.pc = "enqueue" /\ task'[w] = t
                BY <3>2
            <4> QED BY <4>1, <4>2
        <3> QED BY <2>2, <3>1, <3>2
    <2>4. \A y \in Accounts : IsTask(task'[y]) /\ (saver'[y].pc # "idle" => task'[y].pc = "save")
        BY <1>1, <1>2, <2>2, <2>3, Apart DEF Held, TasksRight
    <2>5. \A r \in leaving : r.by = "task" => r.o # w
        BY <1>1, <1>2 DEF Held, TasksRight
    <2> QED BY <2>2, <2>3, <2>4, <2>5 DEF Held, TasksRight
<1>3. ASSUME w \in Workers
      PROVE  TasksRight' /\ UNCHANGED task
    <2>1. UNCHANGED task
        BY <1>3, Apart DEF Returned
    <2>2. \A y \in Accounts : saver'[y].pc # "idle" => task'[y].pc = "save"
        BY <1>3, <2>1, Apart DEF Held, TasksRight
    <2> QED BY <2>1, <2>2 DEF Held, TasksRight
<1>4. w \in Accounts \/ w \in Workers
    BY DEF Savers
<1>5. ASSUME NEW p \in Paths \ overlapped', NEW o \in DOMAIN objects, OnlyAccount(p), o = index[p],
             Safe(p, o)
      PROVE  Safe(p, o)'
    <2>1. PathOf(o) = p /\ (p = q <=> o = x)
        BY <1>5 DEF Held, Indexed, OnlyAccount
    <2>2. Awaited(o) => Awaited(o)'
        <3>1. TaskSaves(o) => TaskSaves(o)'
            BY <1>2, <1>3, <1>4 DEF TaskSaves
        <3> QED BY <3>1 DEF Awaited, Queued
    <2>3. CASE p # q
        <3>1. ASSUME NEW v \in Workers
              PROVE  \/ saver'[v] = saver[v]
                     \/ /\ saver'[v].pc # "idle" => saver'[v].o # o
                        /\ saver[v].pc # "idle" => saver[v].o # o
            BY <2>1, <2>3, Apart
        <3> QED BY <1>5, <2>2, <2>3, <3>1, SafeStays
    <2>4. CASE p = q /\ w \in Accounts
        <3>1. TaskSaves(o)'
            BY <1>1, <1>2, <2>1, <2>4 DEF TaskSaves
        <3> QED BY <1>5, <2>4, <3>1 DEF Safe, Awaited
    <2>5. CASE p = q /\ w \in Workers
        <3>1. Awaited(o) \/ Current(w, q, x)
            <4>1. \A v \in Workers : v = w
                BY <2>5 DEF OneWorker
            <4> QED BY <1>5, <2>1, <2>5, <4>1 DEF Safe, InHand, Written
        <3>2. ASSUME saver'[w].pc = "idle", disk'[q]["json"] = objects[x].token
              PROVE  Written(p, o)'
            <4>1. \A v \in Workers : v = w
                BY <2>5 DEF OneWorker
            <4> QED BY <2>1, <2>5, <3>2, <4>1 DEF Written
        <3> QED BY <1>5, <2>1, <2>2, <2>5, <3>1, <3>2 DEF Safe, Awaited, InHand
    <2> QED BY <1>4, <2>3, <2>4, <2>5
<1>6. ASSUME NEW p \in Paths, NoAccount(p), Has(p, "json")
      PROVE  Has(p, "json")' /\ disk'[p]["json"] = disk[p]["json"]
    BY <1>6 DEF NoAccount, Has
<1> QED BY <1>1, <1>2, <1>3, <1>4, <1>5, <1>6, HeldStill DEF HoldersTyped

LEMMA SaverAt ==
    ASSUME IInv, NEW w \in Savers, saver[w].pc # "idle"
    PROVE  \E x \in DOMAIN objects, q \in Paths : x = saver[w].o /\ q = PathOf(x)
BY SaverPath DEF IInv, Typed, HoldersTyped

LEMMA ReadTokenHolds ==
    ASSUME IInv, Held, OneWorker, NEW w \in Savers, ReadToken(w)
    PROVE  Held'
<1>1. /\ saver[w].pc = "read"
      /\ UNCHANGED <<disk, task, saveQueue, dropped, overlapped, objects, index, leaving, scan>>
    BY DEF ReadToken, SaverStep, mem
<1>2. PICK x \in DOMAIN objects, q \in Paths : x = saver[w].o /\ q = PathOf(x)
    BY <1>1, SaverAt
<1>3. /\ saver'[w] = [pc |-> "open", o |-> x, token |-> objects[x].token]
      /\ \A v \in Savers \ {w} : saver'[v] = saver[v]
    BY <1>2 DEF ReadToken, IInv, Typed, HoldersTyped
<1>4. Current(w, q, x)'
    BY <1>1, <1>3 DEF Current
<1>5. Has(q, "json") => Has(q, "json")'
    BY <1>1 DEF Has
<1> QED BY <1>1, <1>2, <1>3, <1>4, <1>5, SaveHolds

LEMMA OpenTmpHolds ==
    ASSUME IInv, Held, OneWorker, NEW w \in Savers, OpenTmp(w)
    PROVE  Held'
<1>1. /\ saver[w].pc = "open" /\ overlapped \subseteq overlapped'
      /\ UNCHANGED <<task, saveQueue, dropped, objects, index, leaving, scan>>
    BY DEF OpenTmp, SaverStep, mem
<1>2. PICK x \in DOMAIN objects, q \in Paths : x = saver[w].o /\ q = PathOf(x)
    BY <1>1, SaverAt
<1>3. /\ saver'[w] = [pc |-> "write", o |-> x, token |-> saver[w].token, fd |-> "tmp"]
      /\ \A v \in Savers \ {w} : saver'[v] = saver[v]
    BY <1>2 DEF OpenTmp, IInv, Typed, HoldersTyped
<1>4. Current(w, q, x) => Current(w, q, x)'
    BY <1>1, <1>3 DEF Current
<1>5. /\ \A p \in Paths \ {q} : disk'[p] = disk[p]
      /\ Has(q, "json") => Has(q, "json")'
    BY <1>2, PutFacts DEF OpenTmp, IInv, Typed, FilesTyped, Has
<1> QED BY <1>1, <1>2, <1>3, <1>4, <1>5, SaveHolds

LEMMA WriteTmpHolds ==
    ASSUME IInv, Held, OneWorker, NEW w \in Savers, WriteTmp(w)
    PROVE  Held'
<1>1. /\ saver[w].pc = "write"
      /\ UNCHANGED <<task, saveQueue, dropped, overlapped, objects, index, leaving, scan>>
    BY DEF WriteTmp, SaverStep, mem
<1>2. PICK x \in DOMAIN objects, q \in Paths : x = saver[w].o /\ q = PathOf(x)
    BY <1>1, SaverAt
<1>3. /\ saver'[w] = [pc |-> "rename", o |-> x]
      /\ \A v \in Savers \ {w} : saver'[v] = saver[v]
    BY <1>2 DEF WriteTmp, IInv, Typed, HoldersTyped
<1>4. /\ DOMAIN disk = Paths
      /\ UNCHANGED disk \/ \E c : Put(q, saver[w].fd, c)
    BY <1>2 DEF WriteTmp, IInv, Typed, FilesTyped
<1>5. /\ \A p \in Paths \ {q} : disk'[p] = disk[p]
      /\ Has(q, "json") => Has(q, "json")'
    BY <1>4, PutFacts DEF Has
<1>6. ASSUME q \notin overlapped', Current(w, q, x)
      PROVE  Current(w, q, x)'
    <2>1. saver[w].fd = "tmp" /\ (Has(q, "tmp") => disk[q]["tmp"] = Damaged)
        BY <1>1, <1>2, <1>6 DEF IInv, AllSound, Sound, Busy, Late, Whole
    <2>2. Has(q, "tmp")' => disk'[q]["tmp"] = saver[w].token
        <3>1. CASE ~Has(q, "tmp") /\ UNCHANGED disk
            BY <3>1 DEF Has
        <3>2. CASE Put(q, "tmp", saver[w].token)
            BY <1>4, <3>2, PutFacts
        <3> QED BY <1>2, <2>1, <3>1, <3>2 DEF WriteTmp
    <2> QED BY <1>1, <1>3, <1>6, <2>2 DEF Current
<1> QED BY <1>1, <1>2, <1>3, <1>5, <1>6, SaveHolds

LEMMA WriteFailsHolds ==
    ASSUME IInv, Held, OneWorker, NEW w \in Savers, WriteFails(w)
    PROVE  Held'
<1>1. /\ saver[w].pc = "write" /\ dropped' = dropped \cup {saver[w].o}
      /\ UNCHANGED <<disk, saveQueue, overlapped, objects, index, leaving, scan>>
    BY DEF WriteFails, SaverStep, mem
<1>2. PICK x \in DOMAIN objects, q \in Paths : x = saver[w].o /\ q = PathOf(x)
    BY <1>1, SaverAt
<1>3. /\ saver'[w].pc = "idle" /\ task' = Returned(w)
      /\ \A v \in Savers \ {w} : saver'[v] = saver[v]
    BY DEF WriteFails, IInv, Typed, HoldersTyped, Idle
<1>4. Has(q, "json") => Has(q, "json")'
    BY <1>1 DEF Has
<1> QED BY <1>1, <1>2, <1>3, <1>4, SaveHolds

LEMMA RenameTmpHolds ==
    ASSUME IInv, Held, OneWorker, NEW w \in Savers, RenameTmp(w)
    PROVE  Held'
<1>1. /\ saver[w].pc = "rename"
      /\ UNCHANGED <<saveQueue, dropped, overlapped, objects, index, leaving, scan>>
    BY DEF RenameTmp, SaverStep, mem
<1>2. PICK x \in DOMAIN objects, q \in Paths : x = saver[w].o /\ q = PathOf(x)
    BY <1>1, SaverAt
<1>3. /\ saver \in [Savers -> SaverStates] /\ DOMAIN disk = Paths
      /\ "json" \in Names /\ "tmp" \in Names
    BY NameFacts DEF IInv, Typed, HoldersTyped, FilesTyped
<1>4. CASE ~Has(q, "tmp")
    <2>1. saver' = [saver EXCEPT ![w].pc = "clean"] /\ UNCHANGED <<disk, task>>
        BY <1>2, <1>4 DEF RenameTmp
    <2>2. saver[w] \in [pc : {"read", "rename", "clean"}, o : Nat]
        BY <1>1, <1>3 DEF SaverStates, Idle
    <2>3. /\ saver'[w].pc = "clean" /\ saver'[w].o = x
          /\ \A v \in Savers \ {w} : saver'[v] = saver[v]
        BY <1>2, <1>3, <2>1, <2>2
    <2>4. Current(w, q, x)'
        BY <2>3 DEF Current
    <2>5. Has(q, "json") => Has(q, "json")'
        BY <2>1 DEF Has
    <2> QED BY <1>1, <1>2, <2>1, <2>3, <2>4, <2>5, SaveHolds
<1>5. CASE Has(q, "tmp")
    <2> DEFINE s == [saver EXCEPT ![w] = Idle]
    <2>1. Rename(q, "tmp", "json", s) /\ task' = Returned(w)
        BY <1>2, <1>5 DEF RenameTmp
    <2>2. /\ s \in [Savers -> SaverStates] /\ s[w].pc = "idle"
          /\ \A v \in Savers \ {w} : s[v] = saver[v]
        BY <1>3 DEF SaverStates, Idle
    <2> HIDE DEF s
    <2>3. /\ \A p \in Paths \ {q} : disk'[p] = disk[p]
          /\ disk'[q]["json"] = disk[q]["tmp"] /\ Has(q, "json")'
          /\ saver' = Follow(s, q, "tmp", "json")
        BY <1>3, <1>5, <2>1, <2>2, RenameFacts DEF Has
    <2>4. /\ saver'[w].pc = "idle"
          /\ \A v \in Savers \ {w} : /\ saver'[v].pc = saver[v].pc
                                     /\ saver[v].pc # "idle" => saver'[v].o = saver[v].o
                                     /\ saver[v].pc # "write" \/ PathOf(saver[v].o) # q
                                        => saver'[v] = saver[v]
        BY <1>3, <2>2, <2>3, FollowFacts
    <2>5. Current(w, q, x) => disk'[q]["json"] = objects[x].token
        BY <1>1, <1>5, <2>3 DEF Current
    <2> QED BY <1>1, <1>2, <2>1, <2>3, <2>4, <2>5, SaveHolds
<1> QED BY <1>4, <1>5

LEMMA CleanTmpHolds ==
    ASSUME IInv, Held, OneWorker, NEW w \in Savers, CleanTmp(w)
    PROVE  Held'
<1>1. /\ saver[w].pc = "clean" /\ dropped' = dropped \cup {saver[w].o}
      /\ task' = Returned(w)
      /\ UNCHANGED <<saveQueue, overlapped, objects, index, leaving, scan>>
    BY DEF CleanTmp, SaverStep, mem
<1>2. PICK x \in DOMAIN objects, q \in Paths : x = saver[w].o /\ q = PathOf(x)
    BY <1>1, SaverAt
<1>3. /\ saver \in [Savers -> SaverStates] /\ DOMAIN disk = Paths
      /\ "json" # "tmp" /\ "tmp" \in Names
    BY NameFacts DEF IInv, Typed, HoldersTyped, FilesTyped
<1> DEFINE s == [saver EXCEPT ![w] = Idle]
<1>4. Unlink(q, "tmp", s)
    BY <1>2 DEF CleanTmp
<1>5. /\ s \in [Savers -> SaverStates] /\ s[w].pc = "idle"
      /\ \A v \in Savers \ {w} : s[v] = saver[v]
    BY <1>3 DEF SaverStates, Idle
<1> HIDE DEF s
<1>6. /\ \A p \in Paths \ {q} : disk'[p] = disk[p]
      /\ Has(q, "json") => Has(q, "json")'
      /\ saver' = Follow(s, q, "tmp", "none")
    BY <1>3, <1>4, <1>5, UnlinkFacts DEF Has
<1>7. /\ saver'[w].pc = "idle"
      /\ \A v \in Savers \ {w} : /\ saver'[v].pc = saver[v].pc
                                 /\ saver[v].pc # "idle" => saver'[v].o = saver[v].o
                                 /\ saver[v].pc # "write" \/ PathOf(saver[v].o) # q
                                    => saver'[v] = saver[v]
    BY <1>3, <1>5, <1>6, FollowFacts
<1> QED BY <1>1, <1>2, <1>6, <1>7, SaveHolds

-----------------------------------------------------------------------------
\* Loading accounts: each from the file of its path, after those there are.
LEMMA LoadedFrom ==
    ASSUME NEW objs \in Seq(AccountRecords), NEW idx \in [Paths -> Nat], NEW ps \in SUBSET Paths,
           NEW read, \A p \in ps : read[p] \in Tokens, Load(objs, idx, ps, read)
    PROVE  /\ index' \in [Paths -> Nat]
           /\ \A p \in Paths \ ps : index'[p] = idx[p]
           /\ \A p \in ps : /\ index'[p] \in DOMAIN objects' /\ index'[p] \notin DOMAIN objs
                             /\ objects'[index'[p]].path = p
                             /\ objects'[index'[p]].token = read[p]
           /\ \A i \in DOMAIN objects' : i \notin DOMAIN objs => objects'[i].path \in ps
<1> DEFINE n == Cardinality(ps)
           new == [i \in 1 .. n |-> [path |-> Order(ps)[i], token |-> read[Order(ps)[i]]]]
           at(p) == CHOOSE i \in 1 .. n : Order(ps)[i] = p
<1>1. /\ n \in Nat
      /\ Order(ps) \in [1 .. n -> ps]
      /\ \A p \in ps : \E i \in 1 .. n : Order(ps)[i] = p
    BY OrderFacts
<1>2. /\ objects' = objs \o new
      /\ index' = [p \in Paths |-> IF p \in ps THEN Len(objs) + at(p) ELSE idx[p]]
    BY DEF Load
<1>3. new \in Seq(AccountRecords) /\ Len(new) = n
    <2>1. \A i \in 1 .. n : [path |-> Order(ps)[i], token |-> read[Order(ps)[i]]] \in AccountRecords
        BY <1>1 DEF AccountRecords
    <2> QED BY <1>1, <2>1
<1>4. \A i \in 1 .. n : new[i].path \in ps
    BY <1>1
<1>5. \A p \in ps : /\ at(p) \in 1 .. n
                     /\ new[at(p)].path = p /\ new[at(p)].token = read[p]
    <2> SUFFICES ASSUME NEW p \in ps
                 PROVE  /\ at(p) \in 1 .. n
        /\ new[at(p)].path = p /\ new[at(p)].token = read[p]
        OBVIOUS
    <2>1. at(p) \in 1 .. n /\ Order(ps)[at(p)] = p
        BY <1>1
    <2> HIDE DEF at
    <2> QED BY <2>1
<1> HIDE DEF new, n, at
<1>6. /\ Len(objs) \in Nat /\ DOMAIN objs = 1 .. Len(objs)
      /\ DOMAIN objects' = 1 .. Len(objs) + n
      /\ \A i \in 1 .. Len(objs) + n : objects'[i] = IF i <= Len(objs) THEN objs[i]
                                                     ELSE new[i - Len(objs)]
    <2>1. Len(objs) \in Nat /\ DOMAIN objs = 1 .. Len(objs)
        OBVIOUS
    <2>2. /\ Len(objs \o new) = Len(objs) + n /\ objs \o new \in Seq(AccountRecords)
          /\ \A i \in 1 .. Len(objs) + n : (objs \o new)[i] = IF i <= Len(objs) THEN objs[i]
                                                           ELSE new[i - Len(objs)]
        BY <1>3, ConcatProperties
    <2> QED BY <1>2, <2>1, <2>2
<1>7. index' \in [Paths -> Nat]
    <2>1. \A p \in Paths : (IF p \in ps THEN Len(objs) + at(p) ELSE idx[p]) \in Nat
        <3>1. \A p \in ps : at(p) \in Nat
            <4> SUFFICES ASSUME NEW p \in ps
                         PROVE  at(p) \in Nat
                OBVIOUS
            <4>1. at(p) \in 1 .. n
                BY <1>5
            <4> QED BY <4>1
        <3> QED BY <1>6, <3>1
    <2> QED BY <1>2, <2>1
<1>8. ASSUME NEW p \in ps
      PROVE  /\ index'[p] \in DOMAIN objects' /\ index'[p] \notin DOMAIN objs
             /\ objects'[index'[p]].path = p /\ objects'[index'[p]].token = read[p]
    <2>1. index'[p] = Len(objs) + at(p) /\ at(p) \in 1 .. n
        BY <1>2, <1>5
    <2>2. objects'[Len(objs) + at(p)] = new[at(p)]
        BY <1>1, <1>6, <2>1
    <2>3. Len(objs) + at(p) \in 1 .. Len(objs) + n /\ Len(objs) + at(p) \notin 1 .. Len(objs)
        BY <1>1, <1>6, <2>1
    <2> QED BY <1>5, <1>6, <2>1, <2>2, <2>3
<1>9. ASSUME NEW i \in DOMAIN objects', i \notin DOMAIN objs
      PROVE  objects'[i].path \in ps
    <2>1. i - Len(objs) \in 1 .. n /\ objects'[i] = new[i - Len(objs)]
        BY <1>1, <1>6, <1>9
    <2> QED BY <1>4, <2>1
<1> QED BY <1>2, <1>7, <1>8, <1>9

LEMMA ScanMergeHolds ==
    ASSUME IInv, Held, ScanMerge
    PROVE  Held'
<1> USE DEF IInv, Typed
<1> DEFINE ps == {p \in DOMAIN scan.read : index[p] = 0}
<1>1. /\ Load(objects, index, ps, scan.read) /\ scan' = Idle /\ scan.pc = "load"
      /\ UNCHANGED <<disk, saver, task, saveQueue, leaving, dropped, overlapped>>
    BY DEF ScanMerge, ScanStep, LoopStep
<1>2. ps \in SUBSET Paths /\ (\A p \in ps : scan.read[p] \in Tokens)
      /\ \A p \in ps : index[p] = 0 /\ p \in DOMAIN scan.read
    BY <1>1 DEF ReadersTyped
<1> HIDE DEF ps
<1>3. /\ objects \in Seq(AccountRecords) /\ index \in [Paths -> Nat]
      /\ \A w \in Savers : saver[w].pc # "idle" => saver[w].o \in DOMAIN objects
    BY DEF HoldersTyped, Held, Indexed
<1>4. /\ index' \in [Paths -> Nat]
      /\ \A p \in Paths \ ps : index'[p] = index[p]
      /\ \A p \in ps : /\ index'[p] \in DOMAIN objects' /\ index'[p] \notin DOMAIN objects
                        /\ objects'[index'[p]].path = p
                        /\ objects'[index'[p]].token = scan.read[p]
      /\ \A i \in DOMAIN objects' : i \notin DOMAIN objects => objects'[i].path \in ps
    <2>1. \A p \in ps : scan.read[p] \in Tokens
        BY <1>2
    <2>2. Load(objects, index, ps, scan.read) /\ ps \in SUBSET Paths
        BY <1>1, <1>2
    <2>3. objects \in Seq(AccountRecords) /\ index \in [Paths -> Nat]
        BY <1>3
    <2> QED BY ONLY <2>1, <2>2, <2>3, LoadedFrom, ZenonT(60)
<1>5. \A i \in DOMAIN objects : i \in DOMAIN objects' /\ objects'[i] = objects[i]
    BY <1>1, <1>2, <1>3, LoadFacts
<1>6. \A i \in DOMAIN objects : PathOf(i)' = PathOf(i)
    BY <1>5 DEF PathOf
<1>7. TasksRight'
    BY <1>1 DEF Held, TasksRight
<1>8. Indexed'
    <2> SUFFICES ASSUME NEW p \in Paths, index'[p] # 0
                 PROVE  index'[p] \in DOMAIN objects' /\ PathOf(index[p])' = p
        BY <1>4 DEF Indexed
    <2>1. CASE p \in ps
        BY <1>4, <2>1 DEF PathOf
    <2>2. CASE p \notin ps
        <3>1. index'[p] = index[p] /\ index[p] \in DOMAIN objects /\ PathOf(index[p]) = p
            BY <1>4, <2>2 DEF Held, Indexed
        <3> QED BY <1>5, <3>1 DEF PathOf
    <2> QED BY <2>1, <2>2
<1>9. ASSUME NEW r \in leaving'
      PROVE  index'[PathOf(r.o)'] # r.o
    <2>1. r \in leaving /\ r.o \in DOMAIN objects
        BY <1>1 DEF HoldersTyped
    <2>2. PathOf(r.o) \in Paths
        <3>1. objects[r.o] \in AccountRecords
            BY <1>3, <2>1
        <3> QED BY <3>1 DEF AccountRecords, PathOf
    <2> QED BY <1>4, <1>6, <2>1, <2>2 DEF Held
<1>10. ASSUME NEW p \in Paths \ overlapped', OnlyAccount(p)'
       PROVE  Safe(p, index[p])'
    <2>1. CASE p \in ps
        <3>1. NoAccount(p)
            BY <1>4, <1>5, <1>6, <1>10, <2>1 DEF OnlyAccount, NoAccount
        <3>2. Has(p, "json") /\ disk[p]["json"] = scan.read[p]
            BY <1>1, <1>2, <1>10, <2>1, <3>1 DEF Held, ReadRight
        <3>3. Has(p, "json")' /\ disk'[p]["json"] = objects'[index'[p]].token
            BY <1>1, <1>4, <2>1, <3>2 DEF Has
        <3>4. \A w \in Workers : saver'[w].pc # "idle" => saver'[w].o # index'[p]
            BY <1>1, <1>3, <1>4, <2>1, Apart
        <3> QED BY <3>3, <3>4 DEF Safe, Written
    <2>2. CASE p \notin ps
        <3>1. OnlyAccount(p)
            BY <1>4, <1>5, <1>6, <1>10, <2>2 DEF OnlyAccount
        <3>2. PICK x \in DOMAIN objects : x = index[p] /\ index'[p] = x
            BY <1>4, <2>2, <3>1 DEF OnlyAccount, Held, Indexed
        <3>3. Safe(p, x)
            BY <1>1, <1>10, <3>1, <3>2 DEF Held
        <3>4. Awaited(x) => Awaited(x)'
            BY <1>1 DEF Awaited, TaskSaves, Queued
        <3>5. Safe(p, x)'
            BY <1>1, <1>5, <3>3, <3>4, SafeStays
        <3> QED BY <3>2, <3>5
    <2> QED BY <2>1, <2>2
<1>11. \A p \in Paths : ReadRight(p)'
    BY <1>1 DEF ReadRight, Idle
<1> QED BY <1>7, <1>8, <1>9, <1>10, <1>11 DEF Held

LEMMA ReadingHolds ==
    ASSUME Held, UNCHANGED <<disk, saver, task, saveQueue, leaving, dropped, overlapped, objects,
                             index>>,
           \A p \in Paths \ overlapped : ReadRight(p)'
    PROVE  Held'
<1>1. TasksRight' /\ Indexed' /\ \A r \in leaving' : index'[PathOf(r.o)'] # r.o
    BY DEF Held, TasksRight, Indexed, PathOf
<1>2. ASSUME NEW p \in Paths \ overlapped', OnlyAccount(p)'
      PROVE  Safe(p, index[p])'
    <2>1. PICK x : x = index[p] /\ index'[p] = x
        OBVIOUS
    <2>2. OnlyAccount(p) /\ Safe(p, x)
        BY <1>2, <2>1 DEF Held, OnlyAccount, PathOf
    <2>3. Awaited(x) => Awaited(x)'
        BY DEF Awaited, TaskSaves, Queued
    <2>4. Safe(p, x)'
        BY <2>2, <2>3, SafeStays
    <2> QED BY <2>1, <2>4
<1> QED BY <1>1, <1>2 DEF Held

LEMMA ScanHolds ==
    ASSUME IInv, Held, Scan
    PROVE  Held'
<1>1. UNCHANGED <<disk, saver, task, saveQueue, leaving, dropped, overlapped>>
    BY DEF Scan, ScanList, ScanFilter, ScanLoad, ScanMerge, ScanStep, LoopStep
<1>2. CASE ScanList
    BY <1>1, <1>2, ReadingHolds DEF ScanList, mem, ReadRight
<1>3. CASE ScanFilter
    <2>1. UNCHANGED <<objects, index>> /\ (scan'.pc = "load" => DOMAIN scan'.read = {})
        BY <1>3 DEF ScanFilter, mem, Idle
    <2> QED BY <1>1, <2>1, ReadingHolds DEF ReadRight
<1>4. ASSUME NEW q \in Paths, ScanLoad(q)
      PROVE  Held'
    <2>1. UNCHANGED <<objects, index>> /\ scan.pc = "load"
        BY <1>4 DEF ScanLoad, mem
    <2>2. ASSUME NEW p \in Paths \ overlapped
          PROVE  ReadRight(p)'
        <3> SUFFICES ASSUME p \in DOMAIN scan'.read, NoAccount(p)'
                     PROVE  Has(p, "json")' /\ disk'[p]["json"] = scan'.read[p]
            BY DEF ReadRight
        <3>1. NoAccount(p)
            BY <2>1 DEF NoAccount, PathOf
        <3>2. CASE Whole(q, "json") /\ p = q
            BY <1>1, <1>4, <3>2 DEF ScanLoad, Whole, Has
        <3>3. CASE ~(Whole(q, "json") /\ p = q)
            <4>1. p \in DOMAIN scan.read /\ scan'.read[p] = scan.read[p]
                BY <1>4, <3>3 DEF ScanLoad
            <4> QED BY <1>1, <2>1, <3>1, <4>1 DEF Held, ReadRight, Has
        <3> QED BY <3>2, <3>3
    <2> QED BY <1>1, <2>1, <2>2, ReadingHolds
<1> QED BY <1>2, <1>3, <1>4, ScanMergeHolds DEF Scan

LEMMA NewFileHolds ==
    ASSUME IInv, Held, NEW q \in Paths, NewFile(q)
    PROVE  Held'
<1>1. /\ UNCHANGED <<objects, index, task, saveQueue, saver, leaving, scan, dropped, overlapped>>
      /\ ~Has(q, "json")
    BY DEF NewFile, mem
<1>2. \A p \in Paths \ {q} : disk'[p] = disk[p]
    BY PutFacts DEF NewFile, IInv, Typed, FilesTyped
<1>3. TasksRight'
    BY <1>1 DEF Held, TasksRight
<1>4. ASSUME NEW p \in Paths, NEW x, Safe(p, x)
      PROVE  Safe(p, x)'
    <2>1. p # q
        BY <1>1, <1>4 DEF Safe
    <2>2. Awaited(x) => Awaited(x)'
        BY <1>1 DEF Awaited, TaskSaves, Queued
    <2> QED BY <1>1, <1>2, <1>4, <2>1, <2>2, SafeStays
<1>5. \A p \in Paths : Has(p, "json") => Has(p, "json")' /\ disk'[p]["json"] = disk[p]["json"]
    BY <1>1, <1>2 DEF Has
<1> QED BY <1>1, <1>3, <1>4, <1>5, HeldStill DEF IInv, Typed, HoldersTyped

\* Nothing is under way after a start, and each account is that of its file.
LEMMA CrashHolds ==
    ASSUME IInv, Crash
    PROVE  Held'
<1>1. UNCHANGED <<disk, overlapped>>
      /\ Load(<<>>, [p \in Paths |-> 0], DOMAIN Contents, Contents)
      /\ task' = NoTasks /\ saver' = NoSaves /\ leaving' = {} /\ scan' = Idle
    BY DEF Crash
<1>2. \A p \in DOMAIN Contents : p \in Paths /\ Has(p, "json") /\ Contents[p] = disk[p]["json"]
    BY DEF Contents, Whole
<1>3. /\ index' \in [Paths -> Nat]
      /\ \A p \in Paths \ DOMAIN Contents : index'[p] = 0
      /\ \A p \in DOMAIN Contents : /\ index'[p] \in DOMAIN objects'
                                    /\ objects'[index'[p]].path = p
                                    /\ objects'[index'[p]].token = Contents[p]
    <2> DEFINE none == [p \in Paths |-> 0]
               start == <<>>
               ps == DOMAIN Contents
    <2>1. /\ start \in Seq(AccountRecords) /\ none \in [Paths -> Nat] /\ ps \in SUBSET Paths
          /\ \A p \in ps : Contents[p] \in Tokens
        BY ContentTyped DEF Contents, IInv, Typed
    <2>2. \A p \in Paths : none[p] = 0
        OBVIOUS
    <2>3. Load(start, none, ps, Contents)
        BY <1>1
    <2> HIDE DEF none, start, ps
    <2>4. /\ index' \in [Paths -> Nat]
          /\ \A p \in Paths \ ps : index'[p] = none[p]
          /\ \A p \in ps : /\ index'[p] \in DOMAIN objects' /\ index'[p] \notin DOMAIN start
                            /\ objects'[index'[p]].path = p
                            /\ objects'[index'[p]].token = Contents[p]
          /\ \A i \in DOMAIN objects' : i \notin DOMAIN start => objects'[i].path \in ps
        BY ONLY <2>1, <2>3, LoadedFrom, ZenonT(60)
    <2> QED BY <2>2, <2>4 DEF ps
<1>4. TasksRight' /\ \A w \in Savers : saver'[w].pc = "idle"
    BY <1>1, Apart DEF TasksRight, NoTasks, NoSaves, IsTask, Idle
<1>5. Indexed'
    BY <1>2, <1>3 DEF Indexed, PathOf
<1>6. ASSUME NEW p \in Paths \ overlapped', OnlyAccount(p)'
      PROVE  Safe(p, index[p])'
    <2>1. p \in DOMAIN Contents
        BY <1>3, <1>6 DEF OnlyAccount
    <2>2. Has(p, "json")' /\ disk'[p]["json"] = objects'[index'[p]].token
        BY <1>1, <1>2, <1>3, <2>1 DEF Has
    <2> QED BY <1>4, <2>2, Apart DEF Safe, Written
<1>7. \A p \in Paths : ReadRight(p)'
    BY <1>1 DEF ReadRight, Idle
<1> QED BY <1>1, <1>4, <1>5, <1>6, <1>7 DEF Held

LEMMA HeldInitially ==
    ASSUME Init
    PROVE  Held
<1> DEFINE n == Cardinality(Paths)
<1>1. /\ n \in Nat /\ Order(Paths) \in [1 .. n -> Paths]
      /\ \A p \in Paths : \E i \in 1 .. n : Order(Paths)[i] = p
    BY OrderFacts
<1>2. /\ objects = [i \in 1 .. n |-> [path |-> Order(Paths)[i], token |-> 1]]
      /\ index = [p \in Paths |-> CHOOSE i \in 1 .. n : Order(Paths)[i] = p]
      /\ disk = [p \in Paths |-> [f \in {"json"} |-> 1]]
      /\ task = NoTasks /\ saver = NoSaves /\ leaving = {} /\ scan = Idle
    BY DEF Init
<1> HIDE DEF n
<1>3. ASSUME NEW p \in Paths
      PROVE  index[p] \in 1 .. n /\ Order(Paths)[index[p]] = p
    BY <1>1, <1>2
<1>4. ASSUME NEW p \in Paths
      PROVE  /\ index[p] \in DOMAIN objects /\ PathOf(index[p]) = p /\ index[p] \in Nat
             /\ objects[index[p]].token = 1
    <2>1. index[p] \in 1 .. n /\ Order(Paths)[index[p]] = p /\ DOMAIN objects = 1 .. n
        BY <1>2, <1>3
    <2>2. objects[index[p]] = [path |-> Order(Paths)[index[p]], token |-> 1]
        BY <1>2, <2>1
    <2> QED BY <1>1, <2>1, <2>2 DEF PathOf
<1>5. Indexed
    BY <1>2, <1>4 DEF Indexed
<1>6. TasksRight /\ \A w \in Savers : saver[w].pc = "idle"
    BY <1>2, Apart DEF TasksRight, NoTasks, NoSaves, IsTask, Idle
<1>7. ASSUME NEW p \in Paths
      PROVE  Safe(p, index[p]) /\ ReadRight(p)
    <2>1. Has(p, "json") /\ disk[p]["json"] = objects[index[p]].token
        BY <1>2, <1>4 DEF Has
    <2>2. ReadRight(p)
        BY <1>2 DEF ReadRight, Idle
    <2> QED BY <1>6, <2>1, <2>2, Apart DEF Safe, Written
<1> QED BY <1>2, <1>5, <1>6, <1>7 DEF Held

-----------------------------------------------------------------------------
-----------------------------------------------------------------------------
\* A recovery that is configured stays so.
LEMMA RecoveryStaysOn ==
    ASSUME IInv, Recovery
    PROVE  recovery' # Off
<1>1. /\ recovery.pc = "rename" => [recovery EXCEPT !.pc = "load"].pc = "load"
      /\ recovery.pc = "load" => [recovery EXCEPT !.pc = "unlink"].pc = "unlink"
      /\ recovery.pc = "insert" => [recovery EXCEPT !.pc = "back"].pc = "back"
      /\ recovery.pc = "probe" => [recovery EXCEPT !.pc = "wait"].pc = "wait"
    BY RecoveryAt DEF IInv, Typed
<1> SUFFICES recovery'.pc # "off"
    BY DEF Off
<1>2. CASE RecoverList
    BY <1>2 DEF RecoverList
<1>3. CASE \E p \in Paths, f \in Disabled : RecoverStat(p, f)
    BY <1>3 DEF RecoverStat
<1>4. CASE RecoverRename
    BY <1>1, <1>4 DEF RecoverRename, NextFile
<1>5. CASE RecoverLoad
    BY <1>1, <1>5 DEF RecoverLoad
<1>6. CASE RecoverUnlink \/ RecoverBack \/ RecoverDone
    BY <1>6 DEF RecoverUnlink, RecoverBack, RecoverDone, NextFile, Idle
<1>7. CASE RecoverInsert
    <2>1. /\ recovery.pc = "insert"
          /\ \/ recovery' = [recovery EXCEPT !.pc = "back"]
             \/ recovery' = [pc |-> "probe", todo |-> recovery.todo, o |-> index'[recovery.p]]
        BY <1>7 DEF RecoverInsert
    <2>2. CASE recovery' = [recovery EXCEPT !.pc = "back"]
        <3>1. recovery'.pc = "back"
            BY ONLY <1>1, <2>1, <2>2
        <3> QED BY <3>1
    <2> QED BY <2>1, <2>2
<1>8. CASE RecoverProbe
    <2>1. /\ recovery.pc = "probe"
          /\ \/ recovery' = [recovery EXCEPT !.pc = "wait"]
             \/ recovery' = [pc |-> "next", todo |-> recovery.todo]
        BY <1>8 DEF RecoverProbe, NextFile
    <2>2. CASE recovery' = [recovery EXCEPT !.pc = "wait"]
        <3>1. recovery'.pc = "wait"
            BY ONLY <1>1, <2>1, <2>2
        <3> QED BY <3>1
    <2> QED BY <2>1, <2>2
<1> QED BY <1>2, <1>3, <1>4, <1>5, <1>6, <1>7, <1>8 DEF Recovery

LEMMA OffStays ==
    ASSUME IInv, [Next]_vars, recovery' = Off
    PROVE  recovery = Off /\ ~Recovery
<1>1. ~Recovery
    BY RecoveryStaysOn
<1>2. CASE UNCHANGED vars
    BY <1>1, <1>2 DEF vars
<1>3. ASSUME NEW o \in Accounts, Refresh(o) \/ Condemn(o)
      PROVE  UNCHANGED recovery
    BY <1>3 DEF Refresh, Condemn, BeginRefresh, Granted, AnswerLost, Denied, FailRefresh,
               QuotaAccepts, QuotaRejects, Enqueue
<1>4. ASSUME NEW w \in Savers, TakeSave(w) \/ Save(w)
      PROVE  UNCHANGED recovery
    BY <1>4 DEF TakeSave, Save, SaverStep, ReadToken, OpenTmp, WriteTmp, WriteFails, RenameTmp,
               CleanTmp
<1>5. ASSUME Scan
      PROVE  UNCHANGED recovery
    BY <1>5 DEF Scan, ScanList, ScanFilter, ScanLoad, ScanMerge, ScanStep
<1>6. ASSUME (\E r \in leaving : SettleFile(r)) \/ (\E p \in Paths : NewFile(p))
      PROVE  UNCHANGED recovery
    BY <1>6 DEF SettleFile, NewFile
<1>7. CASE Crash
    BY <1>1, <1>7 DEF Crash, Off, Idle
<1> QED BY <1>1, <1>2, <1>3, <1>4, <1>5, <1>6, <1>7, Apart DEF Next

LEMMA HeldStays ==
    ASSUME OneWorker, IInv, Held, [Next]_vars, ~Recovery
    PROVE  Held'
<1>1. CASE UNCHANGED vars
    <2>1. UNCHANGED <<disk, saver, task, saveQueue, leaving, dropped, overlapped, objects, index,
                      scan>>
        BY <1>1 DEF vars, mem
    <2>2. \A p \in Paths \ overlapped : ReadRight(p)'
        BY <2>1 DEF Held, ReadRight, NoAccount, PathOf, Has
    <2> QED BY <2>1, <2>2, ReadingHolds
<1>2. ASSUME NEW o \in Accounts, Refresh(o) \/ Condemn(o)
      PROVE  Held'
    BY <1>2, BeginRefreshHolds, GrantedHolds, AnswerLostHolds, DeniedHolds, QuotaAcceptsHolds,
       EnqueueHolds, CondemnHolds DEF Refresh
<1>3. ASSUME NEW w \in Savers, Save(w)
      PROVE  Held'
    BY <1>3, ReadTokenHolds, OpenTmpHolds, WriteTmpHolds, WriteFailsHolds, RenameTmpHolds,
       CleanTmpHolds DEF Save
<1> QED BY <1>1, <1>2, <1>3, TakeSaveHolds, SettleFileHolds, ScanHolds, NewFileHolds, CrashHolds
        DEF Next

\* With one save worker and no recovery of disabled files, a credential whose account
\* is at rest has that account's token in its file, for any credentials, refreshes,
\* removals, crashes and bounds: what was read before a refresh is saved again after
\* it, or the save is known to have failed.
THEOREM TheFileIsCurrent == Spec => []SavedAtRest
<1> DEFINE SInv == OneWorker /\ recovery = Off => Held
<1>1. Init => SInv
    BY HeldInitially
<1>2. IInv /\ SInv /\ [Next]_vars => SInv'
    BY OffStays, HeldStays DEF OneWorker
<1>3. IInv /\ SInv => SavedAtRest
    <2> SUFFICES ASSUME IInv, Held, OneWorker,
                        NEW p \in Paths \ overlapped, OnlyAccount(p), AtRest(index[p])
                 PROVE  disk[p]["json"] = objects[index[p]].token
        BY DEF SavedAtRest
    <2>1. PICK o : o = index[p]
        OBVIOUS
    <2>2. Safe(p, o)
        BY <2>1 DEF Held
    <2>3. ~Awaited(o) /\ ~InHand(p, o)
        BY <2>1, Apart DEF AtRest, Awaited, TaskSaves, Queued, InHand, Current
    <2> QED BY <2>1, <2>2, <2>3 DEF Safe, Written
<1> QED BY <1>1, <1>2, <1>3, Initially, Stays, PTL DEF Spec
=============================================================================
