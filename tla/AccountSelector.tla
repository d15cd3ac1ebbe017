--------------------------- MODULE AccountSelector ---------------------------
(***************************************************************************)
(* How codex-proxy picks an account for an attempt of a request            *)
(* (Manager.PickExcluding and the three selectors), while other goroutines *)
(* cool accounts down, refresh them and bring them back (types.go).        *)
(*                                                                         *)
(* An account keeps its status twice: Status under its mutex, and the      *)
(* atomic copies the selectors read, stored one by one after the mutex is  *)
(* released.  The round-robin selector keeps the list it last filtered for *)
(* TTL and rebuilds it under a CAS flag.  Accounts are numbered in the     *)
(* order of their files.                                                   *)
(***************************************************************************)
EXTENDS Integers, Sequences, FiniteSets, SequencesExt

CONSTANTS NumAccounts,
          Pickers,     \* requests under way at a time
          Setters,     \* goroutines that change accounts: probes, refreshes, errors
          Ops,         \* the changes they make
          Strategy,    \* "round-robin", "quota-first" or "fill-first"
          MaxRetry,    \* attempts of a request after the first
          TTL,         \* availableCacheTTLMs
          Cooldown, Lifetime, \* of a cooldown and of an access token
          MaxTime      \* bound: the clock

ASSUME SelectorAssumption ==
    /\ NumAccounts \in Nat \ {0} /\ MaxRetry \in Nat /\ MaxTime \in Nat
    /\ {TTL, Cooldown, Lifetime} \subseteq Nat \ {0}
    /\ Ops \subseteq {"cool", "quota", "active", "token", "used"}
    /\ Strategy \in {"round-robin", "quota-first", "fill-first"}

VARIABLES
    now,
    account,     \* what the mutex of each account guards: status and exhausted
    atomics,     \* its atomic copies: status, until, used and expires
    setter,
    cache,       \* cachePtr: None, or the list and the moment it was begun
    rebuilding,  \* the CAS flag of the rebuild
    cursor,
    picker,
    seen         \* ghost: when each account last passed the filter

vars == <<now, account, atomics, setter, cache, rebuilding, cursor, picker, seen>>
shared == <<account, atomics, setter>>

Accounts == 1 .. NumAccounts
None == [pc |-> "none"]
Idle == [pc |-> "idle"]
Unknown == -1
Full == 100

-----------------------------------------------------------------------------
\* What the selectors read.
CoolingIn(copies, a, t) == copies[a].status = "cooldown" /\ t < copies[a].until
ExpiringIn(copies, a, t) == copies[a].expires > 0 /\ t >= copies[a].expires
PassesIn(copies, a, t) == ~CoolingIn(copies, a, t) /\ ~ExpiringIn(copies, a, t)
Cooling(a, t) == CoolingIn(atomics, a, t)
Passes(a, t) == PassesIn(atomics, a, t)

FilterAvailable(from, t) == {a \in from : Passes(a, t)}

\* The list of the accounts of a set in an order of them.
Lists(set, before) ==
    {list \in [1 .. Cardinality(set) -> set] :
        \A i, j \in DOMAIN list : i < j => <<list[i], list[j]>> \in before}

Pairs == Accounts \X Accounts
ByFile == {pair \in Pairs : pair[1] < pair[2]}

\* sortByUsedPercent: the least used first, the unknown last, then by file.
Rank(a) == IF atomics[a].used = Unknown THEN Full + 1 ELSE atomics[a].used
ByUsedPercent ==
    {pair \in Pairs : \/ Rank(pair[1]) < Rank(pair[2])
                      \/ Rank(pair[1]) = Rank(pair[2]) /\ pair \in ByFile}

Sorted(set) == IF Strategy = "fill-first" THEN Lists(set, ByFile) ELSE Lists(set, ByUsedPercent)

\* PickExcluding: without the accounts that failed; of those the ones that are
\* not cooling down, if there is one.
Candidates(excluded, t) ==
    LET left == Accounts \ excluded
        active == {a \in left : ~Cooling(a, t)}
    IN  IF excluded = {} THEN Accounts ELSE IF active # {} THEN active ELSE left

-----------------------------------------------------------------------------
\* A loaded account: its token's expiry is known or not, nothing else is set.
Init ==
    /\ now = 1
    /\ account = [a \in Accounts |-> [status |-> "active", exhausted |-> FALSE]]
    /\ atomics \in [Accounts -> [status : {"active"}, until : {0}, used : {0},
                                 expires : {0, Lifetime}]]
    /\ setter = [s \in Setters |-> Idle] /\ cache = None /\ rebuilding = FALSE
    /\ cursor = 0 /\ picker = [p \in Pickers |-> Idle]
    /\ seen = [a \in Accounts |-> 1]

Tick ==
    /\ now < MaxTime /\ now' = now + 1
    /\ seen' = [a \in Accounts |-> IF Passes(a, now + 1) THEN now + 1 ELSE seen[a]]
    /\ UNCHANGED <<shared, cache, rebuilding, cursor, picker>>

-----------------------------------------------------------------------------
\* The setters of types.go: first the fields, under the mutex, ...
Fields(op, fields) ==
    CASE op = "cool"   -> [fields EXCEPT !.status = "cooldown"]
      [] op = "quota"  -> [status |-> "cooldown", exhausted |-> TRUE]
      [] op = "active" -> [status |-> "active", exhausted |-> FALSE]
      [] op = "token"  -> [fields EXCEPT !.status = "active"]
      [] op = "used"   -> fields

\* Mutant: a refreshed token leaves the copy of the status alone.
StoresNoStatus(op, t, used) ==
    IF op = "token" THEN << <<"expires", t + Lifetime>> >>
    ELSE << <<"status", IF op = "active" THEN "active" ELSE "cooldown">>,
            <<"until", IF op = "active" THEN 0 ELSE t + Cooldown>> >>

\* ... then the atomic copies in this order.
Stores(op, t, used) ==
    CASE op = "cool"   -> << <<"status", "cooldown">>, <<"until", t + Cooldown>> >>
      [] op = "quota"  -> << <<"status", "cooldown">>, <<"until", t + Cooldown>>, <<"used", Full>> >>
      [] op = "active" -> << <<"status", "active">>, <<"until", 0>> >>
      [] op = "token"  -> << <<"status", "active">>, <<"expires", t + Lifetime>> >>
      [] op = "used"   -> << <<"used", used>> >>

SetFields(s, op, a) ==
    /\ setter[s].pc = "idle"
    /\ account' = [account EXCEPT ![a] = Fields(op, @)]
    /\ \E used \in IF op = "used" /\ ~account[a].exhausted THEN {Unknown, 0, 50} ELSE {Full} :
          setter' = [setter EXCEPT ![s] = [pc |-> "store", a |-> a, todo |-> Stores(op, now, used)]]
    /\ UNCHANGED <<now, atomics, cache, rebuilding, cursor, picker, seen>>

StoreAtomic(s) ==
    /\ setter[s].pc = "store" /\ setter[s].todo # <<>>
    /\ UNCHANGED <<now, account, cache, rebuilding, cursor, picker>>
    /\ LET a == setter[s].a
           store == Head(setter[s].todo)
           copies == [atomics EXCEPT ![a][store[1]] = store[2]]
           passes == PassesIn(copies, a, now)
       IN  /\ atomics' = copies
           /\ seen' = [seen EXCEPT ![a] = IF passes THEN now ELSE @]
    /\ setter' = [setter EXCEPT ![s].todo = Tail(@)]

Invalidate == cache' = None

\* InvalidateSelectorCache, where the caller of the setter calls it.
Return(s) ==
    /\ setter[s].pc = "store" /\ setter[s].todo = <<>>
    /\ Invalidate \/ UNCHANGED cache
    /\ setter' = [setter EXCEPT ![s] = Idle]
    /\ UNCHANGED <<now, account, atomics, rebuilding, cursor, picker, seen>>

Set(s) == (\E op \in Ops, a \in Accounts : SetFields(s, op, a)) \/ StoreAtomic(s) \/ Return(s)

-----------------------------------------------------------------------------
\* A pick.
PickStep == UNCHANGED <<now, shared, cursor, seen>>

\* The accounts it may pick from and the moment it looks at them.
Start(p, tries, excluded) ==
    picker' = [picker EXCEPT ![p] =
        IF Candidates(excluded, now) = {} THEN Idle
        ELSE [pc |-> IF Strategy = "round-robin" THEN "cache" ELSE "filter",
              tries |-> tries, excluded |-> excluded, from |-> Candidates(excluded, now)]]

Request(p) ==
    /\ picker[p].pc = "idle" /\ Start(p, 1, {})
    /\ PickStep /\ UNCHANGED <<cache, rebuilding>>

\* fresh: when the list was found in the cache and young enough, or 0.
Listed(r, list, fresh) ==
    [pc |-> "take", tries |-> r.tries, excluded |-> r.excluded, list |-> list, fresh |-> fresh]

\* getOrRefreshCache: a list younger than TTL is used as it is.
ReadCache(p) ==
    /\ picker[p].pc = "cache"
    /\ picker' = [picker EXCEPT ![p] =
          IF cache # None /\ now - cache.at < TTL THEN Listed(@, cache.list, now)
          ELSE [pc |-> "claim", tries |-> @.tries, excluded |-> @.excluded, from |-> @.from,
                c |-> cache, t |-> now]]
    /\ PickStep /\ UNCHANGED <<cache, rebuilding>>

\* One picker rebuilds it; the others use the old one, or none.
Claim(p) ==
    /\ picker[p].pc = "claim"
    /\ rebuilding' = TRUE
    /\ picker' = [picker EXCEPT ![p] =
          IF ~rebuilding THEN [pc |-> "rebuild", tries |-> @.tries, excluded |-> @.excluded,
                                from |-> @.from, t |-> @.t]
          ELSE IF @.c # None THEN Listed(@, @.c.list, 0)
          ELSE [pc |-> "filter", tries |-> @.tries, excluded |-> @.excluded, from |-> @.from]]
    /\ PickStep /\ UNCHANGED cache

Rebuild(p) ==
    /\ picker[p].pc = "rebuild"
    /\ \E list \in Sorted(FilterAvailable(picker[p].from, now)) :
          picker' = [picker EXCEPT ![p] =
              [pc |-> "publish", tries |-> @.tries, excluded |-> @.excluded, t |-> @.t,
               list |-> list]]
    /\ PickStep /\ UNCHANGED <<cache, rebuilding>>

\* Mutant: the list is dated when it is published.
PublishLate(p) ==
    /\ picker[p].pc = "publish"
    /\ cache' = [pc |-> "list", list |-> picker[p].list, at |-> now]
    /\ picker' = [picker EXCEPT ![p].pc = "release", ![p].t = 0]
    /\ PickStep /\ UNCHANGED rebuilding

Publish(p) ==
    /\ picker[p].pc = "publish"
    /\ cache' = [pc |-> "list", list |-> picker[p].list, at |-> picker[p].t]
    /\ picker' = [picker EXCEPT ![p].pc = "release", ![p].t = 0]
    /\ PickStep /\ UNCHANGED rebuilding

\* Mutant: the flag stays set when no account is available.
ReleaseSome(p) ==
    /\ picker[p].pc = "release"
    /\ rebuilding' = (picker[p].list = <<>>)
    /\ picker' = [picker EXCEPT ![p] = Listed(@, @.list, 0)]
    /\ PickStep /\ UNCHANGED cache

Release(p) ==
    /\ picker[p].pc = "release"
    /\ rebuilding' = FALSE
    /\ picker' = [picker EXCEPT ![p] = Listed(@, @.list, 0)]
    /\ PickStep /\ UNCHANGED cache

\* Without a cache: sorted by the two selectors that have none.
Filter(p) ==
    /\ picker[p].pc = "filter"
    /\ LET available == FilterAvailable(picker[p].from, now)
       IN  \E list \in IF Strategy = "round-robin" THEN Lists(available, ByFile)
                       ELSE Sorted(available) :
              picker' = [picker EXCEPT ![p] = Listed(@, list, 0)]
    /\ PickStep /\ UNCHANGED <<cache, rebuilding>>

\* The cursor counts modulo the least common multiple of the lengths of lists.
Cycle == CHOOSE n \in 1 .. NumAccounts ^ NumAccounts :
            /\ \A k \in Accounts : n % k = 0
            /\ \A m \in 1 .. n - 1 : \E k \in Accounts : m % k # 0

\* No account is an error that ends the request.
Take(p) ==
    /\ picker[p].pc = "take"
    /\ LET list == picker[p].list
           i == IF Strategy = "round-robin" /\ list # <<>> THEN (cursor % Len(list)) + 1 ELSE 1
       IN  IF list = <<>> THEN picker' = [picker EXCEPT ![p] = Idle] /\ UNCHANGED cursor
           ELSE /\ cursor' = IF Strategy = "round-robin" THEN (cursor + 1) % Cycle ELSE cursor
                /\ picker' = [picker EXCEPT ![p] = [pc |-> "send", tries |-> @.tries,
                                                    excluded |-> @.excluded, got |-> list[i]]]
    /\ UNCHANGED <<now, shared, cache, rebuilding, seen>>

\* sendWithRetry: the attempt ends the request, or the account is excluded from the
\* next.  An answer with an error status invalidates the cache, a network error does not.
End(p) ==
    /\ picker[p].pc = "send" /\ picker' = [picker EXCEPT ![p] = Idle]
    /\ PickStep /\ UNCHANGED <<cache, rebuilding>>

Fail(p) ==
    /\ picker[p].pc = "send"
    /\ IF picker[p].tries <= MaxRetry
       THEN Start(p, picker[p].tries + 1, picker[p].excluded \cup {picker[p].got})
       ELSE picker' = [picker EXCEPT ![p] = Idle]
    /\ Invalidate \/ UNCHANGED cache
    /\ UNCHANGED <<now, shared, cursor, rebuilding, seen>>

Pick(p) ==
    \/ ReadCache(p) \/ Claim(p) \/ Rebuild(p) \/ Publish(p) \/ Release(p)
    \/ Filter(p) \/ Take(p) \/ End(p) \/ Fail(p)

Next ==
    \/ Tick
    \/ \E s \in Setters : Set(s)
    \/ \E p \in Pickers : Request(p) \/ Pick(p)

Spec == Init /\ [][Next]_vars

\* A goroutine that picks is scheduled, and its upstream request ends.
FairSpec == Spec /\ \A p \in Pickers : WF_vars(Pick(p))

-----------------------------------------------------------------------------
PickerPcs == {"idle", "cache", "claim", "rebuild", "publish", "release", "filter", "take", "send"}
IsList(list) == \A i \in DOMAIN list : list[i] \in Accounts

\* The variables keep their types.
TypeOK ==
    /\ now \in 1 .. MaxTime /\ rebuilding \in BOOLEAN /\ cursor \in 0 .. Cycle - 1
    /\ account \in [Accounts -> [status : {"active", "cooldown"}, exhausted : BOOLEAN]]
    /\ \A a \in Accounts : /\ atomics[a].status \in {"active", "cooldown"}
                           /\ atomics[a].until \in Nat /\ atomics[a].expires \in Nat
                           /\ atomics[a].used \in Unknown .. Full
    /\ cache # None => IsList(cache.list) /\ cache.at \in 1 .. now
    /\ \A p \in Pickers : /\ picker[p].pc \in PickerPcs
                          /\ picker[p].pc # "idle" => picker[p].excluded \subseteq Accounts

\* An account picked from a list that is still valid passed the filter less than
\* TTL before: the list's age counts from before the filter looked.
FreshPicks ==
    \A p \in Pickers : picker[p].pc = "take" /\ picker[p].fresh > 0 =>
        \A i \in DOMAIN picker[p].list : picker[p].fresh - seen[picker[p].list[i]] < TTL

\* The flag that keeps others from rebuilding the list is given back.
RebuildEnds == rebuilding ~> ~rebuilding

\* With one goroutine at a time to change an account, the status the selectors read
\* is the account's whenever no change of it is under way (SetCooldown, SetActive,
\* UpdateToken store the copies after the mutex is released).
StatusMirrored ==
    \A a \in Accounts : (\A s \in Setters : setter[s].pc = "store" => setter[s].a # a) =>
        atomics[a].status = account[a].status
=============================================================================
