----------------------------- MODULE RefreshFlow -----------------------------
(***************************************************************************)
(* The goroutines of codex-proxy that refresh an account's token: the      *)
(* refresh loop (refreshAccount), a forced refresh of all accounts whose   *)
(* progress is streamed to a client (ForceRefreshAllStream and             *)
(* writeSSEProgress), the recovery after a 401 (RecoverAuth401), whose     *)
(* concurrent calls are merged, and the one after a 429                    *)
(* (ScheduleUpstream429Recovery).  They meet in the account's refreshing   *)
(* flag, which they take with a CAS, and in the pool.                      *)
(*                                                                         *)
(* A job is a goroutine of one kind at work on one account.  Every account *)
(* has a refresh token; every request for a new one spends it.  What the   *)
(* tokens are, and their files, is in CredentialStore; an account's status *)
(* and cooldowns (SetActive, SetCooldown), which no goroutine here reads,  *)
(* are left out.                                                           *)
(***************************************************************************)
EXTENDS Naturals, Sequences, FiniteSets

CONSTANTS Accounts,
          Callers,      \* goroutines that call RecoverAuth401
          Loads,        \* sets of jobs, pairs of "loop", "batch", "recover" or
                        \* "again" (after a 429) and an account; a behaviour
                        \* has one of them at work
          SemCap,       \* capacity of auth401SyncSem
          Concurrency,  \* refreshConcurrency
          ChanCap,      \* capacity of the progress channel
          RefreshPhase, \* what the refresh policy does before it is final: "none",
                        \* or "refresh_once", at once or after a while
          QuotaPhase    \* and the quota policy, at once

ASSUME FlowAssumption ==
    /\ UNION Loads \subseteq {"loop", "batch", "recover", "again"} \X Accounts
    /\ \A jobs \in Loads : \A j, k \in jobs :
        j[1] = "batch" => <<"batch", k[2]>> \in jobs    \* it takes them all
    /\ {SemCap, Concurrency, ChanCap} \subseteq Nat \ {0}
    /\ {RefreshPhase, QuotaPhase} \subseteq {"none", "refresh_once"}
    /\ IsFiniteSet(Accounts) /\ "none" \notin Accounts

VARIABLES
    flag,     \* refreshing
    pool,     \* accounts in the index
    job,      \* what the goroutine of a kind does with an account
    permits,  \* permits of auth401SyncSem taken
    caller,   \* the account whose recovery a caller waits for
    batch,    \* the forced refresh: where it is, accounts to come, its counts
    chan,     \* its progress channel
    got,      \* events the writer has taken from it
    client    \* of the stream: "reads", "stalled" or "gone"

stream == <<batch, chan, got, client>>
vars == <<flag, pool, job, permits, caller, stream>>

Idle == [pc |-> "idle"]
NoCall == "none"
NoBatch == [pc |-> "idle", todo |-> {}, ok |-> 0, failed |-> 0]
Jobs == DOMAIN job
BatchAccounts == {a \in Accounts : <<"batch", a>> \in Jobs}
Running == {a \in BatchAccounts : job[<<"batch", a>>].pc # "idle"}

Init ==
    /\ flag = [a \in Accounts |-> FALSE]
    /\ \E jobs \in Loads :
        job = [j \in jobs |-> Idle] /\ pool = {j[2] : j \in jobs}
    /\ permits = 0
    /\ caller = [c \in Callers |-> NoCall]
    /\ batch = NoBatch /\ chan = <<>> /\ got = <<>> /\ client = "reads"

-----------------------------------------------------------------------------
\* Steps of job j: it goes on to pc with what it remembers, the result of a batch's
\* worker (ok) or the check whose limit made it ask for a new token (back).
To(j, pc) == job' = [job EXCEPT ![j] = [pc |-> pc]]
Unwinds(j, pc, ok) ==
    job' = [job EXCEPT ![j] = IF j[1] = "batch" THEN [pc |-> pc, ok |-> ok] ELSE [pc |-> pc]]

\* Mutant: a failed recovery returns before its permit is given back.
EndsKeepingPermit(j, ok) ==
    Unwinds(j, IF j[1] = "recover" /\ ok THEN "yield" ELSE "release", ok)

Ends(j, ok) == Unwinds(j, IF j[1] = "recover" THEN "yield" ELSE "release", ok)

Keeps == UNCHANGED <<permits, caller, stream>>
Rest == UNCHANGED <<flag, pool>> /\ Keeps

Remove(a) == pool' = pool \ {a}

\* The end of a failed refresh or check, as policies and outcome have it: cooled
\* down, or out of the pool (removed or disabled).
Final(a) == UNCHANGED pool \/ Remove(a)

-----------------------------------------------------------------------------
\* The refresh loop starts on an account nobody refreshes (filterNeedRefresh).
StartLoop(a) ==
    /\ <<"loop", a>> \in Jobs /\ job[<<"loop", a>>].pc = "idle" /\ a \in pool /\ ~flag[a]
    /\ To(<<"loop", a>>, "cas") /\ Rest

\* RecoverAuth401: singleflight lets a call wait for the one under way.
Call(c, a) ==
    /\ <<"recover", a>> \in Jobs /\ caller[c] = NoCall
    /\ caller' = [caller EXCEPT ![c] = a]
    /\ IF job[<<"recover", a>>].pc = "idle" THEN To(<<"recover", a>>, "cas") ELSE UNCHANGED job
    /\ UNCHANGED <<flag, pool, permits, stream>>

\* ScheduleUpstream429Recovery: one at a time for an account.
StartAgain(a) ==
    /\ <<"again", a>> \in Jobs /\ job[<<"again", a>>].pc = "idle"
    /\ To(<<"again", a>>, "first") /\ Rest

\* Mutant: the flag is stored whatever it was.
TakeFlagAnyway(j) ==
    /\ job[j].pc = "cas"
    /\ flag' = [flag EXCEPT ![j[2]] = TRUE]
    /\ To(j, IF j[1] = "recover" THEN "permit" ELSE "ask")
    /\ UNCHANGED pool /\ Keeps

\* The CAS on refreshing.
TakeFlag(j) ==
    /\ job[j].pc = "cas" /\ ~flag[j[2]]
    /\ flag' = [flag EXCEPT ![j[2]] = TRUE]
    /\ To(j, IF j[1] = "recover" THEN "permit" ELSE "ask")
    /\ UNCHANGED pool /\ Keeps

\* The 429 recovery goes on to its second check, if the account is still there.
ChecksAgain(j) == To(j, IF j[2] \in pool THEN "second" ELSE "idle")

FlagTaken(j) ==
    /\ job[j].pc = "cas" /\ flag[j[2]]
    /\ \/ j[1] = "loop" /\ To(j, "idle")
       \/ j[1] = "batch" /\ Unwinds(j, "send", TRUE)
       \/ j[1] = "recover" /\ To(j, "wait")
       \/ j[1] = "again" /\ ChecksAgain(j)
    /\ Rest

\* recoverAuth401Once waits for the other refresh: it has ended, or the time is up.
Returns(a) == caller' = [c \in Callers |-> IF caller[c] = a THEN NoCall ELSE caller[c]]

PeerEnds(j) ==
    /\ job[j].pc = "wait" /\ ~flag[j[2]]
    /\ To(j, "idle") /\ Returns(j[2])
    /\ UNCHANGED <<flag, pool, permits, stream>>

\* Mutant: the wait has no time limit.
WaitForever(j) == FALSE

WaitTimesOut(j) ==
    /\ job[j].pc = "wait"
    /\ To(j, "idle") /\ Returns(j[2])
    /\ UNCHANGED <<flag, pool, permits, stream>>

\* Without a permit the recovery leaves the account as it is.
TakePermit(j) ==
    /\ job[j].pc = "permit"
    /\ IF permits < SemCap THEN To(j, "ask") /\ permits' = permits + 1
       ELSE To(j, "release") /\ permits' = permits
    /\ UNCHANGED <<flag, pool, caller, stream>>

-----------------------------------------------------------------------------
\* RefreshTokenWithRetry, and trySingleRefreshToken of the refresh policy: the
\* server gives a new token.
Granted(j) ==
    /\ job[j].pc \in {"ask", "ask2"}
    /\ IF j[1] = "recover" \/ (j[1] # "again" /\ job[j].pc = "ask")
       THEN To(j, "quota") ELSE Ends(j, TRUE)
    /\ Rest

\* handleRefreshHTTPError
Refused(j) ==
    /\ job[j].pc \in {"ask", "ask2"}
    /\ \/ Final(j[2]) /\ Ends(j, FALSE)
       \/ /\ RefreshPhase = "refresh_once" /\ job[j].pc = "ask"
          /\ To(j, "ask2") /\ UNCHANGED pool
    /\ UNCHANGED flag /\ Keeps

-----------------------------------------------------------------------------
\* The queries of the quota: after a refresh, and the two of the 429 recovery.
Checks == {"quota", "first", "second"}

GoesOn(j, check) ==
    IF check = "quota" THEN Ends(j, TRUE) ELSE To(j, "idle")

\* The quota is there, or it is not known (a network error or 5xx), which the
\* 429 recovery tries again after an hour.
CheckPasses(j) ==
    /\ job[j].pc \in Checks
    /\ \/ GoesOn(j, job[j].pc)
       \/ job[j].pc = "first" /\ j[2] \in pool /\ To(j, "hour")
    /\ Rest

\* afterRefreshValidateQuota: the new token is no good.
CheckInvalid(j) ==
    /\ job[j].pc = "quota"
    /\ Remove(j[2]) /\ Ends(j, FALSE)
    /\ UNCHANGED flag /\ Keeps

\* ApplyQuotaUsageHTTPOutcome: final, or a new token first, with or without the flag.
CheckLimited(j) ==
    /\ job[j].pc \in Checks
    /\ \/ Final(j[2]) /\ GoesOn(j, job[j].pc)
       \/ /\ QuotaPhase = "refresh_once" /\ UNCHANGED pool
          /\ job' = [job EXCEPT ![j] = [pc |-> "renew", back |-> @.pc]]
    /\ UNCHANGED flag /\ Keeps

Renew(j) ==
    /\ job[j].pc = "renew"
    /\ job' = [job EXCEPT ![j] = [pc |-> "recheck", back |-> @.back]]
    /\ Rest

Recheck(j) ==
    /\ job[j].pc = "recheck"
    /\ Final(j[2])
    /\ GoesOn(j, job[j].back)
    /\ UNCHANGED flag /\ Keeps

\* The hour is over, or the program stops.
Hour(j) ==
    /\ job[j].pc = "hour"
    /\ \/ To(j, IF j[2] \in pool THEN "cas" ELSE "idle")
       \/ To(j, "idle")
    /\ Rest

-----------------------------------------------------------------------------
\* The deferred calls: the permit, then the flag.
Yield(j) ==
    /\ job[j].pc = "yield"
    /\ permits' = permits - 1
    /\ To(j, "release")
    /\ UNCHANGED <<flag, pool, caller, stream>>

\* Mutant: the worker sends its result before it gives the flag back.
ReleaseWhenSent(j) ==
    /\ job[j].pc = "release" /\ (j[1] = "batch" => Len(chan) < ChanCap)
    /\ flag' = [flag EXCEPT ![j[2]] = FALSE]
    /\ \/ j[1] = "loop" /\ To(j, "idle") /\ UNCHANGED caller
       \/ j[1] = "batch" /\ Unwinds(j, "send", job[j].ok) /\ UNCHANGED caller
       \/ j[1] = "again" /\ ChecksAgain(j) /\ UNCHANGED caller
       \/ j[1] = "recover" /\ To(j, "idle") /\ Returns(j[2])
    /\ UNCHANGED <<pool, permits, stream>>

Release(j) ==
    /\ job[j].pc = "release"
    /\ flag' = [flag EXCEPT ![j[2]] = FALSE]
    /\ \/ j[1] = "loop" /\ To(j, "idle") /\ UNCHANGED caller
       \/ j[1] = "batch" /\ Unwinds(j, "send", job[j].ok) /\ UNCHANGED caller
       \/ j[1] = "again" /\ ChecksAgain(j) /\ UNCHANGED caller
       \/ j[1] = "recover" /\ To(j, "idle") /\ Returns(j[2])
    /\ UNCHANGED <<pool, permits, stream>>

-----------------------------------------------------------------------------
\* ForceRefreshAllStream
StartBatch ==
    /\ BatchAccounts # {} /\ batch.pc = "idle"
    /\ batch' = [NoBatch EXCEPT !.pc = "spawn", !.todo = pool]
    /\ UNCHANGED <<flag, pool, job, permits, caller, chan, got, client>>

Spawn(a) ==
    /\ batch.pc = "spawn" /\ a \in batch.todo /\ Cardinality(Running) < Concurrency
    /\ batch' = [batch EXCEPT !.todo = @ \ {a}]
    /\ To(<<"batch", a>>, "cas")
    /\ UNCHANGED <<flag, pool, permits, caller, chan, got, client>>

\* ctx.Err(): the server shuts down.
CancelBatch ==
    /\ batch.pc = "spawn" /\ batch.todo # {}
    /\ batch' = [batch EXCEPT !.todo = {}]
    /\ UNCHANGED <<flag, pool, job, permits, caller, chan, got, client>>

\* A worker counts its result and sends it, with its permit still taken.
Send(j) ==
    /\ job[j].pc = "send" /\ Len(chan) < ChanCap
    /\ chan' = Append(chan, [type |-> "item", account |-> j[2], ok |-> 0, failed |-> 0])
    /\ batch' = IF job[j].ok THEN [batch EXCEPT !.ok = @ + 1] ELSE [batch EXCEPT !.failed = @ + 1]
    /\ To(j, "idle")
    /\ UNCHANGED <<flag, pool, permits, caller, got, client>>

\* Mutant: the workers are not waited for.
SendDoneEarly ==
    /\ batch.pc = "spawn" /\ batch.todo = {} /\ Len(chan) < ChanCap
    /\ chan' = Append(chan, [type |-> "done", account |-> "none",
                             ok |-> batch.ok, failed |-> batch.failed])
    /\ batch' = [batch EXCEPT !.pc = "closed"]
    /\ UNCHANGED <<flag, pool, job, permits, caller, got, client>>

SendDone ==
    /\ batch.pc = "spawn" /\ batch.todo = {} /\ Running = {} /\ Len(chan) < ChanCap
    /\ chan' = Append(chan, [type |-> "done", account |-> "none",
                             ok |-> batch.ok, failed |-> batch.failed])
    /\ batch' = [batch EXCEPT !.pc = "closed"]
    /\ UNCHANGED <<flag, pool, job, permits, caller, got, client>>

\* Mutant: the writer gives up when a write fails.
TakeEventWhileReading ==
    /\ chan # <<>> /\ client = "reads"
    /\ got' = Append(got, Head(chan)) /\ chan' = Tail(chan)
    /\ UNCHANGED <<flag, pool, job, permits, caller, batch, client>>

\* writeSSEProgress takes events until the channel is closed.  Its writes fail
\* when the client has gone, and are held up while it does not read.
TakeEvent ==
    /\ chan # <<>> /\ client # "stalled"
    /\ got' = Append(got, Head(chan)) /\ chan' = Tail(chan)
    /\ UNCHANGED <<flag, pool, job, permits, caller, batch, client>>

EndBatch ==
    /\ batch.pc = "closed" /\ chan = <<>>
    /\ batch' = NoBatch /\ got' = <<>> /\ client' = "reads"
    /\ UNCHANGED <<flag, pool, job, permits, caller, chan>>

Client ==
    /\ batch.pc # "idle" /\ client # "gone"
    /\ client' \in {"reads", "stalled", "gone"} \ {client}
    /\ UNCHANGED <<flag, pool, job, permits, caller, batch, chan, got>>

-----------------------------------------------------------------------------
Step(j) ==
  /\ j \in Jobs
  /\ \/ TakeFlag(j) \/ FlagTaken(j) \/ PeerEnds(j) \/ WaitTimesOut(j) \/ TakePermit(j)
     \/ Granted(j) \/ Refused(j)
     \/ CheckPasses(j) \/ CheckInvalid(j) \/ CheckLimited(j)
     \/ Renew(j) \/ Recheck(j) \/ Hour(j)
     \/ Yield(j) \/ Release(j) \/ Send(j)

Stream == CancelBatch \/ SendDone \/ TakeEvent \/ EndBatch \/ \E a \in Accounts : Spawn(a)

Next ==
    \/ \E a \in Accounts : StartLoop(a) \/ StartAgain(a) \/ \E c \in Callers : Call(c, a)
    \/ \E j \in Jobs : Step(j)
    \/ StartBatch \/ Stream \/ Client

Spec == Init /\ [][Next]_vars

\* A goroutine goes on: requests and waits have time limits, the flag and the
\* permit are never waited for without one.  The client owes nothing.
FairSpec ==
    /\ Spec
    /\ \A j \in UNION Loads : WF_vars(Step(j))
    /\ WF_vars(Stream)

-----------------------------------------------------------------------------
Pcs == {"idle", "first", "cas", "wait", "permit", "ask", "ask2", "quota", "renew", "recheck",
        "second", "hour", "yield", "release", "send"}
Events == [type : {"item", "done"}, account : Accounts \cup {"none"},
           ok : 0 .. Cardinality(Accounts), failed : 0 .. Cardinality(Accounts)]

\* The variables keep their types.
TypeOK ==
    /\ flag \in [Accounts -> BOOLEAN]
    /\ pool \subseteq Accounts
    /\ \A j \in Jobs : job[j].pc \in Pcs
    /\ permits \in 0 .. SemCap
    /\ caller \in [Callers -> Accounts \cup {NoCall}]
    /\ batch \in [pc : {"idle", "spawn", "closed"}, todo : SUBSET Accounts,
                  ok : 0 .. Cardinality(Accounts), failed : 0 .. Cardinality(Accounts)]
    /\ \A i \in DOMAIN chan : chan[i] \in Events
    /\ \A i \in DOMAIN got : got[i] \in Events
    /\ Len(chan) <= ChanCap /\ client \in {"reads", "stalled", "gone"}

\* "防止同一账号被多个刷新源同时刷新" (refreshAccount, forceRefreshAccount): two
\* goroutines never ask for a new token of one account at a time, where the second
\* would send the refresh token the first has spent and throw the account out for
\* it.  The one that asks because a quota check of the 429 recovery was limited
\* does not take the flag (runQuotaStatusPolicy), and is left out.
Asking(j) ==
    \/ job[j].pc \in {"ask", "ask2"}
    \/ job[j].pc = "renew" /\ job[j].back = "quota"
OneRefresher == \A j, k \in Jobs : j # k /\ j[2] = k[2] => ~(Asking(j) /\ Asking(k))

HasPermit(r) == r.pc \in {"ask", "ask2", "quota", "renew", "recheck", "yield"}
Permitted == {j \in Jobs : j[1] = "recover" /\ HasPermit(job[j])}

\* The recoveries that asked for a permit and were given one are the permits
\* taken, however a recovery ends: the semaphore never leaks (recoverAuth401Once).
PermitsCounted == permits = Cardinality(Permitted)

\* The stream of a forced refresh reports every account at most once, and says
\* it is done after all of them, with counts that add up to what was reported.
DoneLast ==
    \A i \in DOMAIN got :
        /\ \A k \in 1 .. i - 1 : got[k].type = "item" /\ got[k].account # got[i].account
        /\ got[i].type = "done" => got[i].ok + got[i].failed = i - 1

\* The refreshing flag comes back, also when the client of a forced refresh has
\* stopped reading and the goroutines of its workers hang on the channel.
FlagsComeBack == \A a \in Accounts : flag[a] ~> ~flag[a]

\* Every call of RecoverAuth401 returns, the ones that wait for the recovery of
\* another call or for another refresh included.
CallsReturn == \A c \in Callers : caller[c] # NoCall ~> caller[c] = NoCall

\* A forced refresh of all accounts ends, unless its client keeps the connection
\* and reads nothing: a client that has gone is written to in vain, but the
\* channel is emptied.
BatchEnds == batch.pc # "idle" ~> (batch.pc = "idle" \/ client = "stalled")
=============================================================================
