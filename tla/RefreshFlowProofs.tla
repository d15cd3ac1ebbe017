-------------------------- MODULE RefreshFlowProofs --------------------------
(* That two goroutines never refresh one account at a time, that the permits  *)
(* of the recoveries come back, and that the stream of a forced refresh ends  *)
(* with its totals, for any accounts, jobs, capacities and policies.          *)
EXTENDS RefreshFlow, FiniteSetTheorems, SequenceTheorems, TLAPS

\* What a goroutine that has the flag is doing, until it gives it back.
HasFlag(r) ==
    \/ r.pc \in {"permit", "ask", "ask2", "quota", "yield", "release"}
    \/ r.pc \in {"renew", "recheck"} /\ r.back = "quota"

\* The flag is set while a goroutine has it, and one goroutine has it.
IInv ==
    /\ flag \in [Accounts -> BOOLEAN]
    /\ Jobs \in Loads
    /\ \A j \in Jobs : HasFlag(job[j]) => flag[j[2]]
    /\ \A j, k \in Jobs : j # k /\ j[2] = k[2] => ~(HasFlag(job[j]) /\ HasFlag(job[k]))

LEMMA JobAccount == ASSUME IInv, NEW j \in Jobs PROVE j[2] \in Accounts
BY FlowAssumption DEF IInv

LEMMA IInvGives == IInv => OneRefresher
BY DEF IInv, OneRefresher, HasFlag, Asking

LEMMA InitIInv == Init => IInv
<1> SUFFICES ASSUME Init PROVE IInv
    OBVIOUS
<1>1. PICK jobs \in Loads : job = [j \in jobs |-> Idle]
    BY DEF Init
<1>2. Jobs = jobs /\ \A j \in Jobs : job[j].pc = "idle"
    BY <1>1 DEF Jobs, Idle
<1> QED BY <1>2 DEF Init, IInv, HasFlag

\* A step that leaves the flag alone and gives it to nobody.
LEMMA Quiet ==
    ASSUME IInv, NEW j, NEW r,
           job' = [job EXCEPT ![j] = r], UNCHANGED flag,
           HasFlag(r) => j \in Jobs /\ HasFlag(job[j])
    PROVE  IInv'
<1>1. Jobs' = Jobs /\ \A k \in Jobs : job'[k] = IF k = j THEN r ELSE job[k]
    BY DEF Jobs
<1>2. \A k \in Jobs : HasFlag(job'[k]) => HasFlag(job[k])
    BY <1>1
<1> QED BY <1>1, <1>2 DEF IInv, HasFlag

LEMMA QuietTo ==
    ASSUME IInv, NEW j, NEW pc, To(j, pc), UNCHANGED flag,
           HasFlag([pc |-> pc]) => j \in Jobs /\ HasFlag(job[j])
    PROVE  IInv'
BY Quiet DEF To

LEMMA QuietUnwinds ==
    ASSUME IInv, NEW j \in Jobs, NEW pc, NEW ok, Unwinds(j, pc, ok), UNCHANGED flag,
           pc \in {"yield", "release", "send"}, pc # "send" => HasFlag(job[j])
    PROVE  IInv'
<1>1. CASE j[1] = "batch"
    <2>1. job' = [job EXCEPT ![j] = [pc |-> pc, ok |-> ok]]
        BY <1>1 DEF Unwinds
    <2>2. HasFlag([pc |-> pc, ok |-> ok]) => HasFlag(job[j])
        BY DEF HasFlag
    <2> QED BY <2>1, <2>2, Quiet
<1>2. CASE j[1] # "batch"
    <2>1. job' = [job EXCEPT ![j] = [pc |-> pc]]
        BY <1>2 DEF Unwinds
    <2>2. HasFlag([pc |-> pc]) => HasFlag(job[j])
        BY DEF HasFlag
    <2> QED BY <2>1, <2>2, Quiet
<1> QED BY <1>1, <1>2

LEMMA QuietEnds ==
    ASSUME IInv, NEW j \in Jobs, NEW ok, Ends(j, ok), UNCHANGED flag, HasFlag(job[j])
    PROVE  IInv'
BY QuietUnwinds DEF Ends

LEMMA QuietGoesOn ==
    ASSUME IInv, NEW j \in Jobs, NEW check, GoesOn(j, check), UNCHANGED flag,
           check = "quota" => HasFlag(job[j])
    PROVE  IInv'
<1>1. CASE check = "quota"
    BY <1>1, QuietEnds DEF GoesOn
<1>2. CASE check # "quota"
    BY <1>2, QuietTo DEF GoesOn, HasFlag
<1> QED BY <1>1, <1>2

-----------------------------------------------------------------------------
LEMMA TakeFlagStep == ASSUME IInv, NEW j \in Jobs, TakeFlag(j) PROVE IInv'
<1>1. j[2] \in Accounts /\ ~flag[j[2]]
    BY JobAccount DEF TakeFlag
<1>2. flag' = [flag EXCEPT ![j[2]] = TRUE] /\ flag' \in [Accounts -> BOOLEAN]
    BY <1>1 DEF TakeFlag, IInv
<1>3. Jobs' = Jobs /\ \A k \in Jobs : k # j => job'[k] = job[k]
    BY DEF TakeFlag, To, Jobs
<1>4. \A k \in Jobs : k[2] = j[2] => ~HasFlag(job[k])
    BY <1>1 DEF IInv
<1>5. \A k \in Jobs : k[2] \in Accounts
    BY JobAccount
<1> QED BY <1>1, <1>2, <1>3, <1>4, <1>5 DEF IInv

LEMMA ReleaseStep == ASSUME IInv, NEW j \in Jobs, Release(j) PROVE IInv'
<1>1. j[2] \in Accounts /\ HasFlag(job[j])
    BY JobAccount DEF Release, HasFlag
<1>2. flag' = [flag EXCEPT ![j[2]] = FALSE] /\ flag' \in [Accounts -> BOOLEAN]
    BY <1>1 DEF Release, IInv
<1>3. Jobs' = Jobs /\ \A k \in Jobs : k # j => job'[k] = job[k]
    BY DEF Release, To, Unwinds, ChecksAgain, Jobs
<1>4. ~HasFlag(job'[j])
    <2>1. job'[j].pc \in {"idle", "send", "second"}
        BY DEF Release, To, Unwinds, ChecksAgain, Jobs
    <2> QED BY <2>1 DEF HasFlag
<1>5. \A k \in Jobs : k # j /\ k[2] = j[2] => ~HasFlag(job[k])
    BY <1>1 DEF IInv
<1>6. \A k \in Jobs : k[2] \in Accounts
    BY JobAccount
<1> QED BY <1>1, <1>2, <1>3, <1>4, <1>5, <1>6 DEF IInv

LEMMA StepKeeps == ASSUME IInv, NEW j \in Jobs, Step(j) PROVE IInv'
<1>1. CASE TakeFlag(j)
    BY <1>1, TakeFlagStep
<1>2. CASE FlagTaken(j)
    <2>1. CASE j[1] = "batch" /\ Unwinds(j, "send", TRUE)
        BY <1>2, <2>1, QuietUnwinds DEF FlagTaken, Rest
    <2>2. CASE \E pc \in {"idle", "wait", "second"} : To(j, pc)
        BY <1>2, <2>2, QuietTo DEF FlagTaken, Rest, HasFlag
    <2> QED BY <1>2, <2>1, <2>2 DEF FlagTaken, ChecksAgain
<1>3. CASE PeerEnds(j) \/ WaitTimesOut(j)
    BY <1>3, QuietTo DEF PeerEnds, WaitTimesOut, HasFlag
<1>4. CASE TakePermit(j)
    <2>1. HasFlag(job[j])
        BY <1>4 DEF TakePermit, HasFlag
    <2> QED BY <1>4, <2>1, QuietTo DEF TakePermit
<1>5. CASE Granted(j)
    <2>1. HasFlag(job[j])
        BY <1>5 DEF Granted, HasFlag
    <2> QED BY <1>5, <2>1, QuietTo, QuietEnds DEF Granted, Rest
<1>6. CASE Refused(j)
    <2>1. HasFlag(job[j])
        BY <1>6 DEF Refused, HasFlag
    <2> QED BY <1>6, <2>1, QuietTo, QuietEnds DEF Refused
<1>7. CASE CheckPasses(j)
    <2>1. job[j].pc = "quota" => HasFlag(job[j])
        BY DEF HasFlag
    <2>2. CASE GoesOn(j, job[j].pc)
        BY <1>7, <2>1, <2>2, QuietGoesOn DEF CheckPasses, Rest
    <2>3. CASE To(j, "hour")
        BY <1>7, <2>3, QuietTo DEF CheckPasses, Rest, HasFlag
    <2> QED BY <1>7, <2>2, <2>3 DEF CheckPasses
<1>8. CASE CheckInvalid(j)
    <2>1. HasFlag(job[j])
        BY <1>8 DEF CheckInvalid, HasFlag
    <2> QED BY <1>8, <2>1, QuietEnds DEF CheckInvalid
<1>9. CASE CheckLimited(j)
    <2>1. job[j].pc = "quota" => HasFlag(job[j])
        BY DEF HasFlag
    <2>2. CASE GoesOn(j, job[j].pc)
        BY <1>9, <2>1, <2>2, QuietGoesOn DEF CheckLimited
    <2>3. CASE job' = [job EXCEPT ![j] = [pc |-> "renew", back |-> @.pc]]
        <3>1. job' = [job EXCEPT ![j] = [pc |-> "renew", back |-> job[j].pc]]
            BY <2>3 DEF Jobs
        <3>2. HasFlag([pc |-> "renew", back |-> job[j].pc]) => HasFlag(job[j])
            BY DEF HasFlag
        <3> QED BY <1>9, <3>1, <3>2, Quiet DEF CheckLimited
    <2> QED BY <1>9, <2>2, <2>3 DEF CheckLimited
<1>10. CASE Renew(j)
    <2>1. job' = [job EXCEPT ![j] = [pc |-> "recheck", back |-> job[j].back]]
        BY <1>10 DEF Renew, Jobs
    <2>2. HasFlag([pc |-> "recheck", back |-> job[j].back]) => HasFlag(job[j])
        BY <1>10 DEF Renew, HasFlag
    <2> QED BY <1>10, <2>1, <2>2, Quiet DEF Renew, Rest
<1>11. CASE Recheck(j)
    <2>1. job[j].back = "quota" => HasFlag(job[j])
        BY <1>11 DEF Recheck, HasFlag
    <2> QED BY <1>11, <2>1, QuietGoesOn DEF Recheck
<1>12. CASE Hour(j)
    <2>1. \E pc \in {"idle", "cas"} : To(j, pc)
        BY <1>12 DEF Hour
    <2> QED BY <1>12, <2>1, QuietTo DEF Hour, Rest, HasFlag
<1>13. CASE Yield(j)
    <2>1. HasFlag(job[j])
        BY <1>13 DEF Yield, HasFlag
    <2> QED BY <1>13, <2>1, QuietTo DEF Yield
<1>14. CASE Release(j)
    BY <1>14, ReleaseStep
<1>15. CASE Send(j)
    BY <1>15, QuietTo DEF Send, HasFlag
<1> QED BY <1>1, <1>2, <1>3, <1>4, <1>5, <1>6, <1>7, <1>8, <1>9, <1>10, <1>11, <1>12, <1>13,
           <1>14, <1>15 DEF Step

LEMMA NextKeeps == IInv /\ [Next]_vars => IInv'
<1> SUFFICES ASSUME IInv, [Next]_vars PROVE IInv'
    OBVIOUS
<1>1. ASSUME NEW a \in Accounts, StartLoop(a) PROVE IInv'
    BY <1>1, QuietTo DEF StartLoop, Rest, HasFlag
<1>2. ASSUME NEW a \in Accounts, StartAgain(a) PROVE IInv'
    BY <1>2, QuietTo DEF StartAgain, Rest, HasFlag
<1>3. ASSUME NEW a \in Accounts, NEW c \in Callers, Call(c, a) PROVE IInv'
    <2>1. CASE To(<<"recover", a>>, "cas")
        BY <1>3, <2>1, QuietTo DEF Call, HasFlag
    <2>2. CASE UNCHANGED job
        BY <1>3, <2>2 DEF Call, IInv, HasFlag, Jobs
    <2> QED BY <1>3, <2>1, <2>2 DEF Call
<1>4. ASSUME NEW j \in Jobs, Step(j) PROVE IInv'
    BY <1>4, StepKeeps
<1>5. ASSUME NEW a \in Accounts, Spawn(a) PROVE IInv'
    BY <1>5, QuietTo DEF Spawn, HasFlag
<1>6. ASSUME StartBatch \/ CancelBatch \/ SendDone \/ TakeEvent \/ EndBatch \/ Client
             \/ UNCHANGED vars
      PROVE  IInv'
    BY <1>6 DEF StartBatch, CancelBatch, SendDone, TakeEvent, EndBatch, Client, vars,
                IInv, HasFlag, Jobs
<1> QED BY <1>1, <1>2, <1>3, <1>4, <1>5, <1>6 DEF Next, Stream

\* Two goroutines never ask for a new token of one account at a time (refreshAccount,
\* forceRefreshAccount, recoverAuth401Once and ScheduleUpstream429Recovery), whatever
\* the accounts, the goroutines at work and the policies.
THEOREM RefreshAlone == Spec => []OneRefresher
<1>1. Spec => []IInv
    BY InitIInv, NextKeeps, PTL DEF Spec
<1> QED BY <1>1, IInvGives, PTL

-----------------------------------------------------------------------------
\* Where a recovery never is, and the check a limited one belongs to.
OfRecovery(r) ==
    /\ r.pc \notin {"first", "second", "hour"}
    /\ r.pc \in {"renew", "recheck"} => r.back = "quota"

\* The permits taken are those of the recoveries.
PInv ==
    /\ Jobs \in Loads
    /\ permits \in 0 .. SemCap
    /\ \A j \in Jobs : j[1] = "recover" => OfRecovery(job[j])
    /\ \A j \in Jobs : job[j].pc \in {"permit", "yield"} => j[1] = "recover"
    /\ PermitsCounted

LEMMA JobsFinite == ASSUME Jobs \in Loads PROVE IsFiniteSet(Jobs)
<1> DEFINE kinds == {"loop", "batch", "recover", "again"}
<1>1. IsFiniteSet(kinds)
    <2>1. kinds = {} \cup {"loop"} \cup {"batch"} \cup {"recover"} \cup {"again"}
        OBVIOUS
    <2> HIDE DEF kinds
    <2> QED BY <2>1, FS_EmptySet, FS_AddElement
<1>2. Jobs \in SUBSET (kinds \X Accounts)
    BY FlowAssumption
<1> HIDE DEF kinds
<1>3. IsFiniteSet(kinds \X Accounts)
    BY <1>1, FS_Product, FlowAssumption
<1> QED BY <1>2, <1>3, FS_Subset

LEMMA PermittedFinite ==
    ASSUME Jobs \in Loads PROVE IsFiniteSet(Permitted) /\ Cardinality(Permitted) \in Nat
<1>1. Permitted \in SUBSET Jobs
    BY DEF Permitted
<1> QED BY <1>1, JobsFinite, FS_Subset, FS_CardinalityType

LEMMA InitPInv == Init => PInv
<1> SUFFICES ASSUME Init PROVE PInv
    OBVIOUS
<1>1. PICK jobs \in Loads : job = [j \in jobs |-> Idle]
    BY DEF Init
<1>2. Jobs = jobs /\ \A j \in Jobs : job[j].pc = "idle"
    BY <1>1 DEF Jobs, Idle
<1>3. Permitted = {}
    BY <1>2 DEF Permitted, HasPermit
<1>4. permits = 0 /\ SemCap \in Nat
    BY FlowAssumption DEF Init
<1> QED BY <1>2, <1>3, <1>4, FS_EmptySet DEF PInv, PermitsCounted, OfRecovery

\* A step that takes no permit and gives none back.
LEMMA Calm ==
    ASSUME PInv, NEW j, NEW r,
           job' = [job EXCEPT ![j] = r], UNCHANGED permits,
           j \in Jobs /\ j[1] = "recover" => OfRecovery(r) /\ (HasPermit(r) <=> HasPermit(job[j])),
           j[1] # "recover" => r.pc \notin {"permit", "yield"}
    PROVE  PInv'
<1>1. Jobs' = Jobs /\ \A k \in Jobs : job'[k] = IF k = j THEN r ELSE job[k]
    BY DEF Jobs
<1>2. Permitted' = Permitted
    BY <1>1 DEF Permitted, HasPermit
<1> QED BY <1>1, <1>2 DEF PInv, PermitsCounted, OfRecovery

LEMMA CalmTo ==
    ASSUME PInv, NEW j, NEW pc, To(j, pc), UNCHANGED permits,
           j \in Jobs /\ j[1] = "recover" =>
               /\ pc \in {"idle", "cas", "wait", "permit", "ask", "ask2", "quota", "yield", "release"}
               /\ HasPermit([pc |-> pc]) <=> HasPermit(job[j]),
           j[1] # "recover" => pc \notin {"permit", "yield"}
    PROVE  PInv'
<1>1. j \in Jobs /\ j[1] = "recover" => OfRecovery([pc |-> pc])
    BY DEF OfRecovery
<1> QED BY <1>1, Calm DEF To

LEMMA CalmUnwinds ==
    ASSUME PInv, NEW j \in Jobs, NEW pc, NEW ok, Unwinds(j, pc, ok), UNCHANGED permits,
           IF j[1] = "recover" THEN pc = "yield" /\ HasPermit(job[j])
           ELSE pc \in {"release", "send"}
    PROVE  PInv'
<1>1. CASE j[1] = "recover"
    BY <1>1, CalmTo DEF Unwinds, To, HasPermit
<1>2. CASE j[1] = "batch"
    BY <1>2, Calm DEF Unwinds
<1>3. CASE j[1] \notin {"recover", "batch"}
    BY <1>3, Calm DEF Unwinds
<1> QED BY <1>1, <1>2, <1>3

LEMMA CalmEnds ==
    ASSUME PInv, NEW j \in Jobs, NEW ok, Ends(j, ok), UNCHANGED permits, HasPermit(job[j])
    PROVE  PInv'
BY CalmUnwinds DEF Ends

LEMMA CalmGoesOn ==
    ASSUME PInv, NEW j \in Jobs, NEW check, GoesOn(j, check), UNCHANGED permits,
           check = "quota" => HasPermit(job[j]), j[1] = "recover" => check = "quota"
    PROVE  PInv'
<1>1. CASE check = "quota"
    BY <1>1, CalmEnds DEF GoesOn
<1>2. CASE check # "quota"
    BY <1>2, CalmTo DEF GoesOn
<1> QED BY <1>1, <1>2

LEMMA TakePermitStep == ASSUME PInv, NEW j \in Jobs, j[1] = "recover", TakePermit(j) PROVE PInv'
<1>1. ~HasPermit(job[j])
    BY DEF TakePermit, HasPermit
<1>2. CASE permits < SemCap
    <2>1. permits' = permits + 1 /\ permits' \in 0 .. SemCap
        BY <1>2, FlowAssumption DEF TakePermit, PInv
    <2>2. Jobs' = Jobs /\ \A k \in Jobs : job'[k] = IF k = j THEN [pc |-> "ask"] ELSE job[k]
        BY <1>2 DEF TakePermit, To, Jobs
    <2>3. HasPermit([pc |-> "ask"]) /\ OfRecovery([pc |-> "ask"])
        BY DEF HasPermit, OfRecovery
    <2>4. Permitted' = Permitted \cup {j}
        BY <2>2, <2>3 DEF Permitted, HasPermit
    <2>5. j \notin Permitted
        BY <1>1 DEF Permitted
    <2>6. Cardinality(Permitted') = Cardinality(Permitted) + 1
        BY <2>4, <2>5, PermittedFinite, FS_AddElement DEF PInv
    <2> QED BY <2>1, <2>2, <2>3, <2>6 DEF PInv, PermitsCounted, OfRecovery
<1>3. CASE ~(permits < SemCap)
    <2>1. To(j, "release") /\ UNCHANGED permits
        BY <1>3 DEF TakePermit
    <2>2. ~HasPermit([pc |-> "release"])
        BY DEF HasPermit
    <2> QED BY <1>1, <2>1, <2>2, CalmTo
<1> QED BY <1>2, <1>3

LEMMA YieldStep == ASSUME PInv, NEW j \in Jobs, j[1] = "recover", Yield(j) PROVE PInv'
<1>1. HasPermit(job[j])
    BY DEF Yield, HasPermit
<1>2. Jobs' = Jobs /\ \A k \in Jobs : job'[k] = IF k = j THEN [pc |-> "release"] ELSE job[k]
    BY DEF Yield, To, Jobs
<1>3. ~HasPermit([pc |-> "release"]) /\ OfRecovery([pc |-> "release"])
    BY DEF HasPermit, OfRecovery
<1>4. Permitted' = Permitted \ {j}
    BY <1>2, <1>3 DEF Permitted, HasPermit
<1>5. j \in Permitted
    BY <1>1 DEF Permitted
<1>6. Cardinality(Permitted') = Cardinality(Permitted) - 1 /\ Cardinality(Permitted) # 0
    BY <1>4, <1>5, PermittedFinite, FS_RemoveElement, FS_EmptySet DEF PInv
<1>7. permits' = permits - 1 /\ permits' \in 0 .. SemCap
    BY <1>6, FlowAssumption DEF Yield, PInv, PermitsCounted
<1> QED BY <1>2, <1>3, <1>6, <1>7 DEF PInv, PermitsCounted, OfRecovery

LEMMA StepPermits == ASSUME PInv, NEW j \in Jobs, Step(j) PROVE PInv'
<1> USE DEF HasPermit
<1>0. /\ j[1] = "recover" => OfRecovery(job[j])
      /\ job[j].pc \in {"permit", "yield"} => j[1] = "recover"
    BY DEF PInv
<1>1. CASE TakeFlag(j)
    BY <1>1, CalmTo DEF TakeFlag, Keeps
<1>2. CASE FlagTaken(j)
    <2>1. CASE j[1] = "batch" /\ Unwinds(j, "send", TRUE)
        BY <1>2, <2>1, CalmUnwinds DEF FlagTaken, Rest, Keeps
    <2>2. CASE j[1] \in {"loop", "again"} /\ \E pc \in {"idle", "second"} : To(j, pc)
        BY <1>2, <2>2, CalmTo DEF FlagTaken, Rest, Keeps
    <2>3. CASE j[1] = "recover" /\ To(j, "wait")
        BY <1>2, <2>3, CalmTo DEF FlagTaken, Rest, Keeps
    <2> QED BY <1>2, <2>1, <2>2, <2>3 DEF FlagTaken, ChecksAgain
<1>3. CASE PeerEnds(j) \/ WaitTimesOut(j)
    BY <1>3, CalmTo DEF PeerEnds, WaitTimesOut
<1>4. CASE TakePermit(j)
    BY <1>0, <1>4, TakePermitStep DEF TakePermit
<1>5. CASE Granted(j)
    BY <1>5, CalmTo, CalmEnds DEF Granted, Rest, Keeps
<1>6. CASE Refused(j)
    BY <1>6, CalmTo, CalmEnds DEF Refused, Keeps
<1>7. CASE CheckPasses(j)
    <2>1. CASE GoesOn(j, job[j].pc)
        BY <1>0, <1>7, <2>1, CalmGoesOn DEF CheckPasses, Rest, Keeps, Checks, OfRecovery
    <2>2. CASE job[j].pc = "first" /\ To(j, "hour")
        BY <1>0, <1>7, <2>2, CalmTo DEF CheckPasses, Rest, Keeps, OfRecovery
    <2> QED BY <1>7, <2>1, <2>2 DEF CheckPasses
<1>8. CASE CheckInvalid(j)
    BY <1>8, CalmEnds DEF CheckInvalid, Keeps
<1>9. CASE CheckLimited(j)
    <2>1. CASE GoesOn(j, job[j].pc)
        BY <1>0, <1>9, <2>1, CalmGoesOn DEF CheckLimited, Keeps, Checks, OfRecovery
    <2>2. CASE job' = [job EXCEPT ![j] = [pc |-> "renew", back |-> @.pc]]
        <3>1. job' = [job EXCEPT ![j] = [pc |-> "renew", back |-> job[j].pc]]
            BY <2>2 DEF Jobs
        <3>2. j[1] = "recover" => job[j].pc = "quota"
            BY <1>0, <1>9 DEF CheckLimited, Checks, OfRecovery
        <3>3. j[1] = "recover" => OfRecovery([pc |-> "renew", back |-> job[j].pc])
            BY <3>2 DEF OfRecovery
        <3> QED BY <1>9, <3>1, <3>2, <3>3, Calm DEF CheckLimited, Keeps
    <2> QED BY <1>9, <2>1, <2>2 DEF CheckLimited
<1>10. CASE Renew(j)
    <2>1. job' = [job EXCEPT ![j] = [pc |-> "recheck", back |-> job[j].back]]
        BY <1>10 DEF Renew, Jobs
    <2>2. j[1] = "recover" => OfRecovery([pc |-> "recheck", back |-> job[j].back])
        BY <1>0, <1>10 DEF Renew, OfRecovery
    <2> QED BY <1>10, <2>1, <2>2, Calm DEF Renew, Rest, Keeps
<1>11. CASE Recheck(j)
    BY <1>0, <1>11, CalmGoesOn DEF Recheck, Keeps, OfRecovery
<1>12. CASE Hour(j)
    BY <1>0, <1>12, CalmTo DEF Hour, Rest, Keeps, OfRecovery
<1>13. CASE Yield(j)
    BY <1>0, <1>13, YieldStep DEF Yield
<1>14. CASE Release(j)
    <2>1. CASE j[1] = "batch" /\ Unwinds(j, "send", job[j].ok)
        BY <1>14, <2>1, CalmUnwinds DEF Release
    <2>2. CASE \E pc \in {"idle", "second"} : To(j, pc) /\ (j[1] = "recover" => pc = "idle")
        BY <1>14, <2>2, CalmTo DEF Release
    <2> QED BY <1>14, <2>1, <2>2 DEF Release, ChecksAgain
<1>15. CASE Send(j)
    BY <1>15, CalmTo DEF Send
<1> QED BY <1>1, <1>2, <1>3, <1>4, <1>5, <1>6, <1>7, <1>8, <1>9, <1>10, <1>11, <1>12, <1>13,
           <1>14, <1>15 DEF Step

LEMMA NextPermits == PInv /\ [Next]_vars => PInv'
<1> SUFFICES ASSUME PInv, [Next]_vars PROVE PInv'
    OBVIOUS
<1>1. ASSUME NEW a \in Accounts, StartLoop(a) PROVE PInv'
    BY <1>1, CalmTo DEF StartLoop, Rest, Keeps
<1>2. ASSUME NEW a \in Accounts, StartAgain(a) PROVE PInv'
    BY <1>2, CalmTo DEF StartAgain, Rest, Keeps
<1>3. ASSUME NEW a \in Accounts, NEW c \in Callers, Call(c, a) PROVE PInv'
    <2>1. CASE job[<<"recover", a>>].pc = "idle" /\ To(<<"recover", a>>, "cas")
        BY <1>3, <2>1, CalmTo DEF Call, HasPermit
    <2>2. CASE UNCHANGED job
        BY <1>3, <2>2 DEF Call, PInv, PermitsCounted, Permitted, HasPermit, OfRecovery, Jobs
    <2> QED BY <1>3, <2>1, <2>2 DEF Call
<1>4. ASSUME NEW j \in Jobs, Step(j) PROVE PInv'
    BY <1>4, StepPermits
<1>5. ASSUME NEW a \in Accounts, Spawn(a) PROVE PInv'
    BY <1>5, CalmTo DEF Spawn
<1>6. ASSUME StartBatch \/ CancelBatch \/ SendDone \/ TakeEvent \/ EndBatch \/ Client
             \/ UNCHANGED vars
      PROVE  PInv'
    BY <1>6 DEF StartBatch, CancelBatch, SendDone, TakeEvent, EndBatch, Client, vars,
                PInv, PermitsCounted, Permitted, HasPermit, OfRecovery, Jobs
<1> QED BY <1>1, <1>2, <1>3, <1>4, <1>5, <1>6 DEF Next, Stream

\* The permits of auth401SyncSem that are taken are those of the recoveries that
\* were given one and have not returned (recoverAuth401Once), however many run
\* and however they end.
THEOREM PermitsNeverLeak == Spec => []PermitsCounted
<1>1. Spec => []PInv
    BY InitPInv, NextPermits, PTL DEF Spec
<1>2. PInv => PermitsCounted
    BY DEF PInv
<1> QED BY <1>1, <1>2, PTL

-----------------------------------------------------------------------------
\* The stream of a forced refresh: the events the writer has taken and those that
\* wait in the channel, one after another.
IsSeq(q) == \E S : q \in Seq(S)
Total == Len(got) + Len(chan)
EventAt(i) == IF i <= Len(got) THEN got[i] ELSE chan[i - Len(got)]

\* The first n are results of different accounts, none of them to come or at work.
Items(n) ==
    \A i \in 1 .. n :
        /\ EventAt(i).type = "item" /\ EventAt(i).account \in Accounts
        /\ EventAt(i).account \notin batch.todo \cup Running
        /\ \A k \in 1 .. i - 1 : EventAt(k).account # EventAt(i).account

\* Where the workers of a forced refresh never are, so that they end in Send.
OfBatch(r) ==
    /\ r.pc \notin {"first", "second", "hour", "wait", "permit", "yield"}
    /\ r.pc \in {"renew", "recheck"} => r.back = "quota"

Working ==
    /\ Jobs \in Loads
    /\ \A j \in Jobs : (j[1] = "batch" => OfBatch(job[j])) /\ (job[j].pc = "send" => j[1] = "batch")

Reporting ==
    /\ IsSeq(got) /\ IsSeq(chan)
    /\ DOMAIN batch = {"pc", "todo", "ok", "failed"} /\ batch.ok \in Nat /\ batch.failed \in Nat
    /\ batch.todo \cap Running = {}
    /\ batch.pc \in {"idle", "spawn", "closed"}
    /\ batch.pc = "idle" => Running = {} /\ got = <<>> /\ chan = <<>>
    /\ batch.pc = "spawn" => Items(Total) /\ batch.ok + batch.failed = Total
    /\ batch.pc = "closed" =>
          /\ Running = {} /\ Total # 0 /\ Items(Total - 1)
          /\ EventAt(Total).type = "done" /\ EventAt(Total).account = "none"
          /\ EventAt(Total).ok + EventAt(Total).failed = Total - 1

BInv == Working /\ Reporting

LEMMA Lengths ==
    ASSUME Reporting
    PROVE  /\ Len(got) \in Nat /\ Len(chan) \in Nat /\ Total \in Nat
           /\ DOMAIN got = 1 .. Len(got) /\ DOMAIN chan = 1 .. Len(chan)
BY DEF Reporting, IsSeq, Total

LEMMA BInvGives == BInv => DoneLast
<1> SUFFICES ASSUME BInv, NEW i \in DOMAIN got
             PROVE  /\ \A k \in 1 .. i - 1 : got[k].type = "item" /\ got[k].account # got[i].account
                    /\ got[i].type = "done" => got[i].ok + got[i].failed = i - 1
    BY DEF DoneLast
<1>1. /\ Len(got) \in Nat /\ Len(chan) \in Nat /\ Total \in Nat
      /\ DOMAIN got = 1 .. Len(got)
    BY Lengths DEF BInv
<1>2. i \in 1 .. Total /\ EventAt(i) = got[i] /\ \A k \in 1 .. i - 1 : EventAt(k) = got[k]
    BY <1>1 DEF EventAt, Total
<1>3. batch.pc \in {"spawn", "closed"}
    <2>1. got # <<>>
        BY <1>1
    <2> QED BY <2>1 DEF BInv, Reporting
<1>4. CASE i <= Total - 1 \/ batch.pc = "spawn"
    <2>1. \E n \in {Total - 1, Total} : i <= n /\ Items(n)
        BY <1>1, <1>2, <1>3, <1>4 DEF BInv, Reporting
    <2>2. PICK n \in {Total - 1, Total} : i <= n /\ Items(n)
        BY <2>1
    <2>3. i \in 1 .. n /\ 1 .. i - 1 \subseteq 1 .. n
        BY <1>1, <1>2, <2>2
    <2> QED BY <1>2, <2>2, <2>3 DEF Items
<1>5. CASE i = Total /\ batch.pc = "closed"
    <2>1. Items(Total - 1) /\ EventAt(Total).account = "none"
          /\ EventAt(Total).ok + EventAt(Total).failed = Total - 1
        BY <1>5 DEF BInv, Reporting
    <2>2. \A k \in 1 .. i - 1 : EventAt(k).type = "item" /\ EventAt(k).account \in Accounts
        BY <1>5, <2>1 DEF Items
    <2> QED BY <1>2, <1>5, <2>1, <2>2, FlowAssumption
<1> QED BY <1>1, <1>2, <1>3, <1>4, <1>5

LEMMA InitBInv == Init => BInv
<1> SUFFICES ASSUME Init PROVE BInv
    OBVIOUS
<1>1. PICK jobs \in Loads : job = [j \in jobs |-> Idle]
    BY DEF Init
<1>2. Jobs = jobs /\ \A j \in Jobs : job[j].pc = "idle"
    BY <1>1 DEF Jobs, Idle
<1>3. Working
    BY <1>2 DEF Working, OfBatch
<1>4. Running = {}
    BY <1>2 DEF Running, BatchAccounts
<1>5. IsSeq(<<>>)
    <2>1. <<>> \in Seq({})
        OBVIOUS
    <2> QED BY <2>1 DEF IsSeq
<1>6. Reporting
    BY <1>4, <1>5 DEF Init, Reporting, NoBatch
<1> QED BY <1>3, <1>6 DEF BInv

\* A step of a goroutine that neither begins nor reports anything of a forced refresh.
LEMMA Unheard ==
    ASSUME BInv, NEW j, NEW r, job' = [job EXCEPT ![j] = r], UNCHANGED <<batch, chan, got>>,
           j \in Jobs /\ j[1] = "batch" => /\ OfBatch(r)
                                           /\ r.pc = "idle" <=> job[j].pc = "idle",
           r.pc = "send" => j[1] = "batch"
    PROVE  BInv'
<1>1. Jobs' = Jobs /\ \A k \in Jobs : job'[k] = IF k = j THEN r ELSE job[k]
    BY DEF Jobs
<1>2. Working'
    BY <1>1 DEF BInv, Working, OfBatch
<1>3. Running' = Running
    BY <1>1 DEF Running, BatchAccounts
<1>4. Reporting'
    BY <1>3 DEF BInv, Reporting, Items, Total, EventAt
<1> QED BY <1>2, <1>4 DEF BInv

LEMMA UnheardTo ==
    ASSUME BInv, NEW j, NEW pc, To(j, pc), UNCHANGED <<batch, chan, got>>,
           j \in Jobs /\ j[1] = "batch" => /\ pc \in {"ask", "ask2", "quota", "release"}
                                           /\ job[j].pc # "idle",
           pc # "send"
    PROVE  BInv'
<1>1. j \in Jobs /\ j[1] = "batch" => OfBatch([pc |-> pc])
    BY DEF OfBatch
<1> QED BY <1>1, Unheard DEF To

LEMMA UnheardUnwinds ==
    ASSUME BInv, NEW j \in Jobs, NEW pc, NEW ok, Unwinds(j, pc, ok), UNCHANGED <<batch, chan, got>>,
           job[j].pc # "idle", pc \in {"yield", "release", "send"},
           pc = "send" => j[1] = "batch", j[1] = "batch" => pc # "yield"
    PROVE  BInv'
<1>1. CASE j[1] = "batch"
    <2>1. OfBatch([pc |-> pc, ok |-> ok])
        BY <1>1 DEF OfBatch
    <2> QED BY <1>1, <2>1, Unheard DEF Unwinds
<1>2. CASE j[1] # "batch"
    BY <1>2, Unheard DEF Unwinds
<1> QED BY <1>1, <1>2

LEMMA UnheardEnds ==
    ASSUME BInv, NEW j \in Jobs, NEW ok, Ends(j, ok), UNCHANGED <<batch, chan, got>>,
           job[j].pc # "idle"
    PROVE  BInv'
BY UnheardUnwinds DEF Ends

LEMMA UnheardGoesOn ==
    ASSUME BInv, NEW j \in Jobs, NEW check, GoesOn(j, check), UNCHANGED <<batch, chan, got>>,
           job[j].pc # "idle", j[1] = "batch" => check = "quota"
    PROVE  BInv'
<1>1. CASE check = "quota"
    BY <1>1, UnheardEnds DEF GoesOn
<1>2. CASE check # "quota"
    BY <1>2, UnheardTo DEF GoesOn
<1> QED BY <1>1, <1>2

\* An event goes into the channel, and all before it stay.
LEMMA EventAdded ==
    ASSUME Reporting, NEW e, chan' = Append(chan, e), UNCHANGED got
    PROVE  /\ IsSeq(chan') /\ IsSeq(got') /\ Total' = Total + 1
           /\ \A n : n = Total + 1 => EventAt(n)' = e
           /\ \A i \in 1 .. Total : EventAt(i)' = EventAt(i)
<1>1. PICK S : chan \in Seq(S)
    BY DEF Reporting, IsSeq
<1>2. chan \in Seq(S \cup {e}) /\ chan' \in Seq(S \cup {e})
    BY <1>1
<1>3. /\ Len(chan') = Len(chan) + 1 /\ chan'[Len(chan) + 1] = e
      /\ \A i \in 1 .. Len(chan) : chan'[i] = chan[i]
    BY <1>1, <1>2
<1>4. Len(got) \in Nat /\ Len(chan) \in Nat
    BY Lengths
<1>5. IsSeq(chan') /\ IsSeq(got') /\ Total' = Total + 1
    BY <1>2, <1>3, <1>4 DEF Reporting, IsSeq, Total
<1>6. ASSUME NEW n, n = Total + 1 PROVE EventAt(n)' = e
    <2>1. ~(n <= Len(got)) /\ n - Len(got) = Len(chan) + 1
        BY <1>4, <1>6 DEF Total
    <2> QED BY <1>3, <2>1 DEF EventAt
<1>7. ASSUME NEW i \in 1 .. Total PROVE EventAt(i)' = EventAt(i)
    <2>1. CASE i <= Len(got)
        BY <1>4, <2>1 DEF EventAt
    <2>2. CASE ~(i <= Len(got))
        <3>1. i - Len(got) \in 1 .. Len(chan)
            BY <1>4, <1>7, <2>2 DEF Total
        <3> QED BY <1>3, <2>2, <3>1 DEF EventAt
    <2> QED BY <2>1, <2>2
<1> QED BY <1>5, <1>6, <1>7

LEMMA SendStep == ASSUME BInv, NEW j \in Jobs, Send(j) PROVE BInv'
<1>1. /\ job[j].pc = "send" /\ j[1] = "batch" /\ j \in {"loop", "batch", "recover", "again"} \X Accounts
    BY FlowAssumption DEF Send, BInv, Working
<1> DEFINE a == j[2]
           e == [type |-> "item", account |-> a, ok |-> 0, failed |-> 0]
<1>2. j = <<"batch", a>> /\ a \in Accounts
    BY <1>1
<1>3. /\ chan' = Append(chan, e) /\ UNCHANGED got /\ e.type = "item" /\ e.account = a
      /\ job' = [job EXCEPT ![j] = [pc |-> "idle"]]
    BY DEF Send, To
<1> HIDE DEF e
<1>4. Jobs' = Jobs /\ \A k \in Jobs : job'[k] = IF k = j THEN [pc |-> "idle"] ELSE job[k]
    BY <1>3 DEF Jobs
<1>5. Working'
    BY <1>4 DEF BInv, Working, OfBatch
<1>6. a \in Running /\ Running' = Running \ {a}
    <2> HIDE DEF a
    <2>1. \A b \in Accounts : <<"batch", b>> = j <=> b = a
        BY <1>2
    <2>2. BatchAccounts' = BatchAccounts
        BY <1>4 DEF BatchAccounts
    <2>3. a \in Running
        BY <1>1, <1>2 DEF Running, BatchAccounts
    <2>4. \A b \in BatchAccounts : job'[<<"batch", b>>].pc # "idle" <=>
                                   b # a /\ job[<<"batch", b>>].pc # "idle"
        BY <1>4, <2>1 DEF BatchAccounts
    <2> QED BY <2>2, <2>3, <2>4 DEF Running
<1>7. batch.pc = "spawn"
    BY <1>6 DEF BInv, Reporting
<1>8. /\ IsSeq(chan') /\ IsSeq(got') /\ Total' = Total + 1
      /\ \A n : n = Total + 1 => EventAt(n)' = e
      /\ \A i \in 1 .. Total : EventAt(i)' = EventAt(i)
    BY <1>3, EventAdded DEF BInv
<1>9. Total \in Nat
    BY Lengths DEF BInv
<1>10. /\ DOMAIN batch' = {"pc", "todo", "ok", "failed"} /\ batch'.ok \in Nat /\ batch'.failed \in Nat
       /\ batch'.todo = batch.todo /\ batch'.pc = "spawn"
       /\ batch'.ok + batch'.failed = batch.ok + batch.failed + 1
    <2>1. /\ DOMAIN batch = {"pc", "todo", "ok", "failed"} /\ batch.ok \in Nat /\ batch.failed \in Nat
        BY DEF BInv, Reporting
    <2>2. CASE job[j].ok
        BY <1>7, <2>1, <2>2 DEF Send
    <2>3. CASE ~job[j].ok
        BY <1>7, <2>1, <2>3 DEF Send
    <2> QED BY <2>2, <2>3
<1>11. a \notin batch.todo /\ a \in Accounts
    BY <1>2, <1>6 DEF BInv, Reporting
<1> HIDE DEF a
<1>12. Items(Total)'
    <2>1. Items(Total)
        BY <1>7 DEF BInv, Reporting
    <2>2. SUFFICES ASSUME NEW i \in 1 .. Total + 1
                   PROVE  /\ EventAt(i)'.type = "item" /\ EventAt(i)'.account \in Accounts
                          /\ EventAt(i)'.account \notin batch'.todo \cup Running'
                          /\ \A k \in 1 .. i - 1 : EventAt(k)'.account # EventAt(i)'.account
        BY <1>8 DEF Items
    <2>3. CASE i = Total + 1
        <3>1. EventAt(i)' = e
            BY <1>8, <2>3
        <3>2. \A k \in 1 .. i - 1 : k \in 1 .. Total /\ EventAt(k)' = EventAt(k)
            BY <1>8, <1>9, <2>3
        <3>3. \A k \in 1 .. Total : EventAt(k).account # a
            BY <1>6, <2>1 DEF Items
        <3>4. a \notin batch'.todo \cup Running'
            BY <1>6, <1>10, <1>11
        <3> QED BY <1>3, <1>11, <3>1, <3>2, <3>3, <3>4
    <2>4. CASE i \in 1 .. Total
        BY <1>6, <1>8, <1>9, <1>10, <2>1, <2>4 DEF Items
    <2> QED BY <1>9, <2>3, <2>4
<1>13. Reporting'
    BY <1>6, <1>7, <1>8, <1>9, <1>10, <1>12 DEF BInv, Reporting
<1> QED BY <1>5, <1>13 DEF BInv

LEMMA StepBInv == ASSUME BInv, NEW j \in Jobs, Step(j) PROVE BInv'
<1>0. /\ j[1] = "batch" => OfBatch(job[j])
      /\ job[j].pc = "send" => j[1] = "batch"
    BY DEF BInv, Working
<1>1. CASE TakeFlag(j)
    <2>1. j[1] # "batch" \/ To(j, "ask")
        BY <1>1 DEF TakeFlag
    <2> QED BY <1>1, <2>1, UnheardTo DEF TakeFlag, Keeps, stream
<1>2. CASE FlagTaken(j)
    <2>1. CASE j[1] = "batch" /\ Unwinds(j, "send", TRUE)
        BY <1>2, <2>1, UnheardUnwinds DEF FlagTaken, Rest, Keeps, stream
    <2>2. CASE j[1] # "batch" /\ \E pc \in {"idle", "second", "wait"} : To(j, pc)
        BY <1>2, <2>2, UnheardTo DEF FlagTaken, Rest, Keeps, stream
    <2> QED BY <1>2, <2>1, <2>2 DEF FlagTaken, ChecksAgain
<1>3. CASE PeerEnds(j) \/ WaitTimesOut(j)
    BY <1>0, <1>3, UnheardTo DEF PeerEnds, WaitTimesOut, OfBatch, stream
<1>4. CASE TakePermit(j)
    BY <1>0, <1>4, UnheardTo DEF TakePermit, OfBatch, stream
<1>5. CASE Granted(j)
    BY <1>5, UnheardTo, UnheardEnds DEF Granted, Rest, Keeps, stream
<1>6. CASE Refused(j)
    BY <1>6, UnheardTo, UnheardEnds DEF Refused, Keeps, stream
<1>7. CASE CheckPasses(j)
    <2>1. CASE GoesOn(j, job[j].pc)
        BY <1>0, <1>7, <2>1, UnheardGoesOn DEF CheckPasses, Rest, Keeps, stream, Checks, OfBatch
    <2>2. CASE job[j].pc = "first" /\ To(j, "hour")
        BY <1>0, <1>7, <2>2, UnheardTo DEF CheckPasses, Rest, Keeps, stream, OfBatch
    <2> QED BY <1>7, <2>1, <2>2 DEF CheckPasses
<1>8. CASE CheckInvalid(j)
    BY <1>8, UnheardEnds DEF CheckInvalid, Keeps, stream
<1>9. CASE CheckLimited(j)
    <2>1. CASE GoesOn(j, job[j].pc)
        BY <1>0, <1>9, <2>1, UnheardGoesOn DEF CheckLimited, Keeps, stream, Checks, OfBatch
    <2>2. CASE job' = [job EXCEPT ![j] = [pc |-> "renew", back |-> @.pc]]
        <3>1. job' = [job EXCEPT ![j] = [pc |-> "renew", back |-> job[j].pc]]
            BY <2>2 DEF Jobs
        <3>2. j[1] = "batch" => job[j].pc = "quota"
            BY <1>0, <1>9 DEF CheckLimited, Checks, OfBatch
        <3>3. j[1] = "batch" => OfBatch([pc |-> "renew", back |-> job[j].pc])
            BY <3>2 DEF OfBatch
        <3>4. job[j].pc # "idle"
            BY <1>9 DEF CheckLimited, Checks
        <3> QED BY <1>9, <3>1, <3>3, <3>4, Unheard DEF CheckLimited, Keeps, stream
    <2> QED BY <1>9, <2>1, <2>2 DEF CheckLimited
<1>10. CASE Renew(j)
    <2>1. job' = [job EXCEPT ![j] = [pc |-> "recheck", back |-> job[j].back]]
        BY <1>10 DEF Renew, Jobs
    <2>2. j[1] = "batch" => OfBatch([pc |-> "recheck", back |-> job[j].back])
        BY <1>0, <1>10 DEF Renew, OfBatch
    <2>3. job[j].pc # "idle"
        BY <1>10 DEF Renew
    <2> QED BY <1>10, <2>1, <2>2, <2>3, Unheard DEF Renew, Rest, Keeps, stream
<1>11. CASE Recheck(j)
    BY <1>0, <1>11, UnheardGoesOn DEF Recheck, Keeps, stream, OfBatch
<1>12. CASE Hour(j)
    BY <1>0, <1>12, UnheardTo DEF Hour, Rest, Keeps, stream, OfBatch
<1>13. CASE Yield(j)
    BY <1>0, <1>13, UnheardTo DEF Yield, stream, OfBatch
<1>14. CASE Release(j)
    <2>1. CASE j[1] = "batch" /\ Unwinds(j, "send", job[j].ok)
        BY <1>14, <2>1, UnheardUnwinds DEF Release, stream
    <2>2. CASE j[1] # "batch" /\ \E pc \in {"idle", "second"} : To(j, pc)
        BY <1>14, <2>2, UnheardTo DEF Release, stream
    <2> QED BY <1>14, <2>1, <2>2 DEF Release, ChecksAgain
<1>15. CASE Send(j)
    BY <1>15, SendStep
<1> QED BY <1>1, <1>2, <1>3, <1>4, <1>5, <1>6, <1>7, <1>8, <1>9, <1>10, <1>11, <1>12, <1>13,
           <1>14, <1>15 DEF Step

-----------------------------------------------------------------------------
LEMMA StartBatchStep == ASSUME BInv, StartBatch PROVE BInv'
<1>1. /\ batch'.pc = "spawn" /\ batch'.ok = 0 /\ batch'.failed = 0
      /\ DOMAIN batch' = {"pc", "todo", "ok", "failed"}
      /\ Running = {} /\ got = <<>> /\ chan = <<>> /\ IsSeq(got) /\ IsSeq(chan)
    BY DEF StartBatch, NoBatch, BInv, Reporting
<1>2. Running' = Running /\ Working'
    BY DEF StartBatch, BInv, Working, OfBatch, Jobs, Running, BatchAccounts
<1>3. UNCHANGED <<got, chan>>
    BY DEF StartBatch
<1>4. Total' = 0
    BY <1>1, <1>3 DEF Total
<1>5. Items(0)'
    BY DEF Items
<1>6. Reporting'
    BY <1>1, <1>2, <1>3, <1>4, <1>5 DEF Reporting, IsSeq, Items
<1> QED BY <1>2, <1>6 DEF BInv

LEMMA CancelBatchStep == ASSUME BInv, CancelBatch PROVE BInv'
<1>1. /\ batch'.pc = "spawn" /\ batch'.ok = batch.ok /\ batch'.failed = batch.failed
      /\ DOMAIN batch' = {"pc", "todo", "ok", "failed"} /\ batch'.todo = {}
    BY DEF CancelBatch, BInv, Reporting
<1>2. Running' = Running /\ Working'
    BY DEF CancelBatch, BInv, Working, OfBatch, Jobs, Running, BatchAccounts
<1>3. Total' = Total /\ \A i : EventAt(i)' = EventAt(i)
    BY DEF CancelBatch, Total, EventAt
<1>4. batch.pc = "spawn"
    BY DEF CancelBatch
<1>5. Items(Total)'
    BY <1>1, <1>2, <1>3, <1>4 DEF BInv, Reporting, Items
<1>6. UNCHANGED <<got, chan>>
    BY DEF CancelBatch
<1>7. Reporting'
    BY <1>1, <1>2, <1>3, <1>4, <1>5, <1>6 DEF BInv, Reporting, IsSeq
<1> QED BY <1>2, <1>7 DEF BInv

LEMMA SpawnStep == ASSUME BInv, NEW a \in Accounts, Spawn(a) PROVE BInv'
<1>1. /\ batch'.pc = "spawn" /\ batch'.ok = batch.ok /\ batch'.failed = batch.failed
      /\ DOMAIN batch' = {"pc", "todo", "ok", "failed"} /\ batch'.todo = batch.todo \ {a}
      /\ batch.pc = "spawn" /\ a \in batch.todo
    BY DEF Spawn, BInv, Reporting
<1>2. Jobs' = Jobs /\ \A k \in Jobs : job'[k] = IF k = <<"batch", a>> THEN [pc |-> "cas"] ELSE job[k]
    BY DEF Spawn, To, Jobs
<1>3. Working'
    BY <1>2 DEF BInv, Working, OfBatch
<1>4. Running' \subseteq Running \cup {a}
    <2>1. BatchAccounts' = BatchAccounts
        BY <1>2 DEF BatchAccounts
    <2>2. \A b \in BatchAccounts : b # a => job'[<<"batch", b>>] = job[<<"batch", b>>]
        BY <1>2 DEF BatchAccounts
    <2> QED BY <2>1, <2>2 DEF Running
<1>5. Total' = Total /\ \A i : EventAt(i)' = EventAt(i)
    BY DEF Spawn, Total, EventAt
<1>6. Items(Total)'
    BY <1>1, <1>4, <1>5 DEF BInv, Reporting, Items
<1>7. UNCHANGED <<got, chan>>
    BY DEF Spawn
<1>8. Reporting'
    BY <1>1, <1>4, <1>5, <1>6, <1>7 DEF BInv, Reporting, IsSeq
<1> QED BY <1>3, <1>8 DEF BInv

LEMMA SendDoneStep == ASSUME BInv, SendDone PROVE BInv'
<1> DEFINE e == [type |-> "done", account |-> "none", ok |-> batch.ok, failed |-> batch.failed]
<1>1. /\ batch'.pc = "closed" /\ batch'.ok = batch.ok /\ batch'.failed = batch.failed
      /\ DOMAIN batch' = {"pc", "todo", "ok", "failed"} /\ batch'.todo = batch.todo
      /\ batch.pc = "spawn" /\ Running = {}
    BY DEF SendDone, BInv, Reporting
<1>2. Running' = Running /\ Working'
    BY DEF SendDone, BInv, Working, OfBatch, Jobs, Running, BatchAccounts
<1>3. /\ chan' = Append(chan, e) /\ UNCHANGED got /\ e.type = "done" /\ e.account = "none"
      /\ e.ok = batch.ok /\ e.failed = batch.failed
    BY DEF SendDone
<1> HIDE DEF e
<1>4. /\ IsSeq(chan') /\ IsSeq(got') /\ Total' = Total + 1
      /\ \A n : n = Total + 1 => EventAt(n)' = e
      /\ \A i \in 1 .. Total : EventAt(i)' = EventAt(i)
    BY <1>3, EventAdded DEF BInv
<1>5. Total \in Nat /\ Items(Total) /\ batch.ok + batch.failed = Total
    BY <1>1, Lengths DEF BInv, Reporting
<1>6. Items(Total - 1)'
    <2>1. SUFFICES ASSUME NEW i \in 1 .. Total
                   PROVE  /\ EventAt(i)'.type = "item" /\ EventAt(i)'.account \in Accounts
                          /\ EventAt(i)'.account \notin batch'.todo \cup Running'
                          /\ \A k \in 1 .. i - 1 : EventAt(k)'.account # EventAt(i)'.account
        BY <1>4, <1>5 DEF Items
    <2> QED BY <1>1, <1>2, <1>4, <1>5 DEF Items
<1>7. EventAt(Total)' = e
    BY <1>4
<1>8. Reporting'
    BY <1>1, <1>2, <1>3, <1>4, <1>5, <1>6, <1>7 DEF BInv, Reporting
<1> QED BY <1>2, <1>8 DEF BInv

\* The writer takes the next event of the stream, which stays as it is.
LEMMA TakeEventStep == ASSUME BInv, TakeEvent PROVE BInv'
<1>1. PICK S : chan \in Seq(S)
    BY DEF BInv, Reporting, IsSeq
<1>2. PICK T : got \in Seq(T)
    BY DEF BInv, Reporting, IsSeq
<1>3. chan # <<>> /\ got' = Append(got, Head(chan)) /\ chan' = Tail(chan) /\ UNCHANGED <<batch, job>>
    BY DEF TakeEvent
<1>4. Len(chan) \in Nat \ {0} /\ Len(got) \in Nat /\ Head(chan) = chan[1]
    BY <1>1, <1>2, <1>3
<1>5. chan' \in Seq(S) /\ Len(chan') = Len(chan) - 1
      /\ \A i \in 1 .. Len(chan) - 1 : chan'[i] = chan[i + 1]
    BY <1>1, <1>3, HeadTailProperties
<1>6. got \in Seq(T \cup {Head(chan)}) /\ got' \in Seq(T \cup {Head(chan)})
    BY <1>2, <1>3
<1>7. Len(got') = Len(got) + 1 /\ got'[Len(got) + 1] = chan[1]
      /\ \A i \in 1 .. Len(got) : got'[i] = got[i]
    BY <1>3, <1>4, <1>6
<1>8. IsSeq(chan') /\ IsSeq(got') /\ Total' = Total
    BY <1>4, <1>5, <1>6, <1>7 DEF IsSeq, Total
<1>9. ASSUME NEW i \in 1 .. Total PROVE EventAt(i)' = EventAt(i)
    <2>1. CASE i \in 1 .. Len(got)
        BY <1>4, <1>7, <2>1 DEF EventAt
    <2>2. CASE i = Len(got) + 1
        BY <1>4, <1>7, <2>2 DEF EventAt
    <2>3. CASE i > Len(got) + 1
        <3>1. i - Len(got') \in 1 .. Len(chan) - 1 /\ i - Len(got') + 1 = i - Len(got)
            BY <1>4, <1>7, <1>9, <2>3 DEF Total
        <3> QED BY <1>4, <1>5, <1>7, <2>3, <3>1 DEF EventAt
    <2> QED BY <1>4, <2>1, <2>2, <2>3
<1>10. Running' = Running /\ Working'
    BY <1>3 DEF BInv, Working, OfBatch, Jobs, Running, BatchAccounts
<1>11. Total \in Nat
    BY Lengths DEF BInv
<1>12. ASSUME NEW n \in Int, n <= Total, Items(n) PROVE Items(n)'
    BY <1>3, <1>9, <1>10, <1>11, <1>12 DEF Items
<1>13. batch.pc # "idle"
    BY <1>3 DEF BInv, Reporting
<1>14. batch.pc = "spawn" => Items(Total)'
    <2>1. ASSUME NEW n \in Int, n = Total, batch.pc = "spawn" PROVE Items(n)'
        BY <1>12, <2>1 DEF BInv, Reporting
    <2> QED BY <1>8, <1>11, <2>1
<1>15. batch.pc = "closed" => Items(Total - 1)' /\ EventAt(Total)' = EventAt(Total)
    <2>1. ASSUME NEW n \in Int, n = Total, batch.pc = "closed"
          PROVE  Items(n - 1)' /\ EventAt(n)' = EventAt(n)
        <3>1. n - 1 \in Int /\ n - 1 <= Total /\ Items(n - 1) /\ n \in 1 .. Total
            BY <1>11, <2>1 DEF BInv, Reporting
        <3> QED BY <1>9, <1>12, <3>1
    <2> QED BY <1>8, <1>11, <2>1
<1>16. Reporting'
    BY <1>3, <1>8, <1>10, <1>13, <1>14, <1>15 DEF BInv, Reporting
<1> QED BY <1>10, <1>16 DEF BInv

LEMMA EndBatchStep == ASSUME BInv, EndBatch PROVE BInv'
<1>1. Running' = Running /\ Working'
    BY DEF EndBatch, BInv, Working, OfBatch, Jobs, Running, BatchAccounts
<1>2. <<>> \in Seq({})
    OBVIOUS
<1>3. Reporting'
    BY <1>1, <1>2 DEF EndBatch, BInv, Reporting, NoBatch, IsSeq
<1> QED BY <1>1, <1>3 DEF BInv

LEMMA Unmoved == ASSUME BInv, UNCHANGED <<job, batch, chan, got>> PROVE BInv'
<1>1. Running' = Running /\ Working'
    BY DEF BInv, Working, OfBatch, Jobs, Running, BatchAccounts
<1>2. Total' = Total /\ \A i : EventAt(i)' = EventAt(i)
    BY DEF Total, EventAt
<1>3. \A n : Items(n) => Items(n)'
    BY <1>1, <1>2 DEF Items
<1>4. Items(Total) => Items(Total)'
    BY <1>2, <1>3
<1>5. Items(Total - 1) => Items(Total - 1)'
    BY <1>2, <1>3
<1>6. EventAt(Total)' = EventAt(Total)
    BY <1>2
<1>7. Reporting'
    BY <1>1, <1>2, <1>4, <1>5, <1>6 DEF BInv, Reporting
<1> QED BY <1>1, <1>7 DEF BInv

LEMMA NextBInv == BInv /\ [Next]_vars => BInv'
<1> SUFFICES ASSUME BInv, [Next]_vars PROVE BInv'
    OBVIOUS
<1>1. ASSUME NEW a \in Accounts, StartLoop(a) PROVE BInv'
    BY <1>1, UnheardTo DEF StartLoop, Rest, Keeps, stream
<1>2. ASSUME NEW a \in Accounts, StartAgain(a) PROVE BInv'
    BY <1>2, UnheardTo DEF StartAgain, Rest, Keeps, stream
<1>3. ASSUME NEW a \in Accounts, NEW c \in Callers, Call(c, a) PROVE BInv'
    <2>1. CASE To(<<"recover", a>>, "cas")
        BY <1>3, <2>1, UnheardTo DEF Call, stream
    <2>2. CASE UNCHANGED job
        BY <1>3, <2>2, Unmoved DEF Call, stream
    <2> QED BY <1>3, <2>1, <2>2 DEF Call
<1>4. ASSUME NEW j \in Jobs, Step(j) PROVE BInv'
    BY <1>4, StepBInv
<1>5. ASSUME NEW a \in Accounts, Spawn(a) PROVE BInv'
    BY <1>5, SpawnStep
<1>6. CASE StartBatch \/ CancelBatch \/ SendDone \/ TakeEvent \/ EndBatch
    BY <1>6, StartBatchStep, CancelBatchStep, SendDoneStep, TakeEventStep, EndBatchStep
<1>7. CASE Client \/ UNCHANGED vars
    BY <1>7, Unmoved DEF Client, vars, stream
<1> QED BY <1>1, <1>2, <1>3, <1>4, <1>5, <1>6, <1>7 DEF Next, Stream

\* The stream of a forced refresh reports every account at most once and says it is
\* done after all of them, with counts that add up (ForceRefreshAllStream and
\* writeSSEProgress), however the workers overtake each other and whatever the client
\* of the stream does.
THEOREM DoneComesLast == Spec => []DoneLast
<1>1. Spec => []BInv
    BY InitBInv, NextBInv, PTL DEF Spec
<1> QED BY <1>1, BInvGives, PTL
=============================================================================
