----------------------- MODULE AccountSelectorProofs -----------------------
(* That the copy of an account's status the selectors read is the account's *)
(* own whenever no change of it is under way, if one goroutine at a time    *)
(* changes accounts; and that a list still valid is as fresh as its age     *)
(* says, whatever the changes, the strategy and the times.                  *)
EXTENDS AccountSelector, TLAPS

OneSetter == \A s, t \in Setters : s = t

IsSeq(q) == \E S : q \in Seq(S)
StatusAgrees(a) == atomics[a].status = account[a].status

\* What a setter has still to store: nothing of the status, which has been stored,
\* or the status first.
Pending(r) ==
    /\ r.a \in Accounts /\ IsSeq(r.todo)
    /\ \A i \in 2 .. Len(r.todo) : r.todo[i][1] # "status"
    /\ IF r.todo # <<>> /\ r.todo[1][1] = "status"
       THEN r.todo[1] = <<"status", account[r.a].status>>
       ELSE StatusAgrees(r.a)

\* The copies agree, but for the account the setter is at.
SInv ==
    /\ account \in [Accounts -> [status : {"active", "cooldown"}, exhausted : BOOLEAN]]
    /\ DOMAIN atomics = Accounts /\ DOMAIN setter = Setters
    /\ \A a \in Accounts : "status" \in DOMAIN atomics[a]
    /\ \A s \in Setters : setter[s].pc = "store" => Pending(setter[s])
    /\ StatusMirrored

LEMMA InitSInv == Init => SInv
<1> SUFFICES ASSUME Init PROVE SInv
    OBVIOUS
<1>1. \A a \in Accounts : "status" \in DOMAIN atomics[a] /\ StatusAgrees(a)
    BY DEF Init, StatusAgrees
<1>2. /\ account \in [Accounts -> [status : {"active", "cooldown"}, exhausted : BOOLEAN]]
      /\ DOMAIN atomics = Accounts /\ setter = [s \in Setters |-> Idle]
    BY DEF Init
<1>3. \A s \in Setters : setter[s].pc = "idle"
    BY <1>2 DEF Idle
<1> QED BY <1>1, <1>2, <1>3 DEF SInv, StatusMirrored, StatusAgrees

LEMMA Undisturbed == ASSUME SInv, UNCHANGED shared PROVE SInv'
BY DEF SInv, shared, Pending, StatusAgrees, StatusMirrored, IsSeq

\* What a change stores begins with the status it has set, or has none.
LEMMA WhatIsStored ==
    ASSUME NEW op \in Ops, NEW t, NEW used, NEW todo, todo = Stores(op, t, used),
           NEW fields \in [status : {"active", "cooldown"}, exhausted : BOOLEAN],
           NEW new, new = Fields(op, fields)
    PROVE  /\ new \in [status : {"active", "cooldown"}, exhausted : BOOLEAN]
           /\ IsSeq(todo) /\ todo # <<>>
           /\ \A i \in 2 .. Len(todo) : todo[i][1] # "status"
           /\ IF todo[1][1] = "status" THEN todo[1] = <<"status", new.status>>
              ELSE new.status = fields.status
<1>1. op \in {"cool", "quota", "active", "token", "used"}
    BY SelectorAssumption
<1>2. CASE op = "cool"
    <2>1. todo = << <<"status", "cooldown">>, <<"until", t + Cooldown>> >>
        BY <1>2 DEF Stores
    <2>2. new = [fields EXCEPT !.status = "cooldown"]
        BY <1>2 DEF Fields
    <2>3. todo \in Seq({<<"status", "cooldown">>, <<"until", t + Cooldown>>})
        BY <2>1
    <2>4. IsSeq(todo)
        BY <2>3 DEF IsSeq
    <2> QED BY <2>1, <2>2, <2>4
<1>3. CASE op = "quota"
    <2>1. todo = << <<"status", "cooldown">>, <<"until", t + Cooldown>>, <<"used", Full>> >>
        BY <1>3 DEF Stores
    <2>2. new = [status |-> "cooldown", exhausted |-> TRUE]
        BY <1>3 DEF Fields
    <2>3. todo \in Seq({<<"status", "cooldown">>, <<"until", t + Cooldown>>, <<"used", Full>>})
        BY <2>1
    <2>4. IsSeq(todo)
        BY <2>3 DEF IsSeq
    <2> QED BY <2>1, <2>2, <2>4
<1>4. CASE op = "active"
    <2>1. todo = << <<"status", "active">>, <<"until", 0>> >>
        BY <1>4 DEF Stores
    <2>2. new = [status |-> "active", exhausted |-> FALSE]
        BY <1>4 DEF Fields
    <2>3. todo \in Seq({<<"status", "active">>, <<"until", 0>>})
        BY <2>1
    <2>4. IsSeq(todo)
        BY <2>3 DEF IsSeq
    <2> QED BY <2>1, <2>2, <2>4
<1>5. CASE op = "token"
    <2>1. todo = << <<"status", "active">>, <<"expires", t + Lifetime>> >>
        BY <1>5 DEF Stores
    <2>2. new = [fields EXCEPT !.status = "active"]
        BY <1>5 DEF Fields
    <2>3. todo \in Seq({<<"status", "active">>, <<"expires", t + Lifetime>>})
        BY <2>1
    <2>4. IsSeq(todo)
        BY <2>3 DEF IsSeq
    <2> QED BY <2>1, <2>2, <2>4
<1>6. CASE op = "used"
    <2>1. todo = << <<"used", used>> >>
        BY <1>6 DEF Stores
    <2>2. new = fields
        BY <1>6 DEF Fields
    <2>3. todo \in Seq({<<"used", used>>})
        BY <2>1
    <2>4. IsSeq(todo)
        BY <2>3 DEF IsSeq
    <2> QED BY <2>1, <2>2, <2>4
<1> QED BY <1>1, <1>2, <1>3, <1>4, <1>5, <1>6

LEMMA SetFieldsStep ==
    ASSUME OneSetter, SInv, NEW s \in Setters, NEW op \in Ops, NEW a \in Accounts,
           SetFields(s, op, a)
    PROVE  SInv'
<1>1. PICK used :
        setter' = [setter EXCEPT ![s] = [pc |-> "store", a |-> a, todo |-> Stores(op, now, used)]]
    BY DEF SetFields
<1> DEFINE todo == Stores(op, now, used)
           new == Fields(op, account[a])
<1>2. account' = [account EXCEPT ![a] = new] /\ UNCHANGED atomics /\ setter[s].pc = "idle"
    BY DEF SetFields, SInv
<1>3. setter' = [setter EXCEPT ![s] = [pc |-> "store", a |-> a, todo |-> todo]]
    BY <1>1
<1>4. account[a] \in [status : {"active", "cooldown"}, exhausted : BOOLEAN]
    BY DEF SInv
<1>5. /\ new \in [status : {"active", "cooldown"}, exhausted : BOOLEAN]
      /\ IsSeq(todo) /\ todo # <<>>
      /\ \A i \in 2 .. Len(todo) : todo[i][1] # "status"
      /\ IF todo[1][1] = "status" THEN todo[1] = <<"status", new.status>>
         ELSE new.status = account[a].status
    <2> HIDE DEF todo, new
    <2> QED BY <1>4, WhatIsStored DEF todo, new
<1> HIDE DEF todo, new
<1>6. \A t \in Setters : t = s
    BY DEF OneSetter
<1>7. \A b \in Accounts : StatusAgrees(b)
    BY <1>2, <1>6 DEF SInv, StatusMirrored, StatusAgrees
<1>8. setter'[s] = [pc |-> "store", a |-> a, todo |-> todo] /\ DOMAIN setter' = Setters
    BY <1>3 DEF SInv
<1>9. /\ account' \in [Accounts -> [status : {"active", "cooldown"}, exhausted : BOOLEAN]]
      /\ account'[a] = new /\ \A b \in Accounts : b # a => account'[b] = account[b]
    BY <1>2, <1>5 DEF SInv
<1>10. Pending(setter[s])'
    BY <1>2, <1>5, <1>7, <1>8, <1>9 DEF Pending, StatusAgrees
<1>11. StatusMirrored'
    BY <1>2, <1>7, <1>8, <1>9 DEF StatusMirrored, StatusAgrees
<1> QED BY <1>2, <1>6, <1>8, <1>9, <1>10, <1>11 DEF SInv

LEMMA StoreAtomicStep ==
    ASSUME OneSetter, SInv, NEW s \in Setters, StoreAtomic(s),
           NEW a, a = setter[s].a, NEW todo, todo = setter[s].todo, NEW store, store = Head(todo)
    PROVE  SInv'
<1>1. /\ UNCHANGED account /\ setter' = [setter EXCEPT ![s].todo = Tail(@)]
      /\ atomics' = [atomics EXCEPT ![a][store[1]] = store[2]]
      /\ setter[s].pc = "store" /\ todo # <<>>
    BY DEF StoreAtomic
<1>2. Pending(setter[s])
    BY <1>1 DEF SInv
<1>3. PICK S : todo \in Seq(S)
    BY <1>2 DEF Pending, IsSeq
<1>4. /\ store = todo[1] /\ Tail(todo) \in Seq(S) /\ Len(Tail(todo)) = Len(todo) - 1
      /\ \A i \in 1 .. Len(todo) - 1 : Tail(todo)[i] = todo[i + 1]
      /\ Len(todo) \in Nat \ {0}
    BY <1>1, <1>3
<1>5. a \in Accounts
    BY <1>2 DEF Pending
<1>6. /\ DOMAIN setter' = Setters /\ setter'[s].pc = "store" /\ setter'[s].a = a
      /\ setter'[s].todo = Tail(todo)
    BY <1>1 DEF SInv
<1>7. /\ DOMAIN atomics' = Accounts
      /\ \A b \in Accounts : DOMAIN atomics'[b] = DOMAIN atomics[b]
      /\ \A b \in Accounts : b # a => atomics'[b] = atomics[b]
      /\ store[1] = "status" => atomics'[a].status = store[2]
      /\ store[1] # "status" => atomics'[a].status = atomics[a].status
    <2>1. atomics' = [atomics EXCEPT ![a] = [atomics[a] EXCEPT ![store[1]] = store[2]]]
        BY <1>1 DEF SInv
    <2>2. DOMAIN atomics = Accounts /\ "status" \in DOMAIN atomics[a]
        BY <1>5 DEF SInv
    <2>3. atomics'[a] = [atomics[a] EXCEPT ![store[1]] = store[2]]
        BY <1>5, <2>1, <2>2
    <2> QED BY <1>5, <2>1, <2>2, <2>3
<1>8. IF store[1] = "status" THEN store[2] = account[a].status ELSE StatusAgrees(a)
    BY <1>1, <1>2, <1>4 DEF Pending
<1>9. StatusAgrees(a)'
    BY <1>1, <1>7, <1>8 DEF StatusAgrees
<1>10. \A i \in 1 .. Len(Tail(todo)) : Tail(todo)[i][1] # "status"
    <2>1. ASSUME NEW i \in 1 .. Len(todo) - 1 PROVE Tail(todo)[i][1] # "status"
        <3>1. i + 1 \in 2 .. Len(todo)
            BY <1>4
        <3>2. todo[i + 1][1] # "status"
            BY <1>2, <3>1 DEF Pending
        <3> QED BY <1>4, <3>2
    <2> QED BY <1>4, <2>1
<1>11. Pending(setter[s])'
    <2>1. Tail(todo) # <<>> => 1 \in 1 .. Len(Tail(todo))
        BY <1>4
    <2>2. \A i \in 2 .. Len(Tail(todo)) : i \in 1 .. Len(Tail(todo))
        BY <1>4
    <2>3. IsSeq(Tail(todo))
        BY <1>4 DEF IsSeq
    <2>4. StatusAgrees(setter[s].a)'
        BY <1>6, <1>9 DEF StatusAgrees
    <2> QED BY <1>5, <1>6, <1>10, <2>1, <2>2, <2>3, <2>4 DEF Pending
<1>12. \A t \in Setters : t = s
    BY DEF OneSetter
<1>13. StatusMirrored'
    <2>1. ASSUME NEW b \in Accounts PROVE StatusAgrees(b)'
        <3>1. CASE b = a
            BY <1>9, <3>1
        <3>2. CASE b # a
            BY <1>1, <1>7, <1>12, <2>1, <3>2 DEF SInv, StatusMirrored, StatusAgrees
        <3> QED BY <3>1, <3>2
    <2> QED BY <2>1 DEF StatusMirrored, StatusAgrees
<1> QED BY <1>1, <1>6, <1>7, <1>11, <1>12, <1>13 DEF SInv

LEMMA ReturnStep == ASSUME OneSetter, SInv, NEW s \in Setters, Return(s) PROVE SInv'
<1>1. /\ UNCHANGED <<account, atomics>> /\ setter' = [setter EXCEPT ![s] = Idle]
      /\ setter[s].pc = "store" /\ setter[s].todo = <<>>
    BY DEF Return
<1>2. \A t \in Setters : t = s
    BY DEF OneSetter
<1>3. DOMAIN setter' = Setters /\ setter'[s].pc = "idle"
    BY <1>1 DEF SInv, Idle
<1>4. \A a \in Accounts : StatusAgrees(a)
    BY <1>1, <1>2 DEF SInv, Pending, StatusMirrored, StatusAgrees
<1>5. StatusMirrored'
    BY <1>1, <1>4 DEF StatusMirrored, StatusAgrees
<1> QED BY <1>1, <1>2, <1>3, <1>5 DEF SInv

LEMMA NextSInv == OneSetter /\ SInv /\ [Next]_vars => SInv'
<1> SUFFICES ASSUME OneSetter, SInv, [Next]_vars PROVE SInv'
    OBVIOUS
<1>1. ASSUME NEW s \in Setters, Set(s) PROVE SInv'
    BY <1>1, SetFieldsStep, StoreAtomicStep, ReturnStep DEF Set
<1>2. CASE Tick
    BY <1>2, Undisturbed DEF Tick
<1>3. ASSUME NEW p \in Pickers, Request(p) \/ Pick(p) PROVE SInv'
    <2>1. UNCHANGED shared
        BY <1>3 DEF Request, Pick, PickStep, ReadCache, Claim, Rebuild, Publish, Release, Filter,
                    Take, End, Fail
    <2> QED BY <2>1, Undisturbed
<1>4. CASE UNCHANGED vars
    BY <1>4, Undisturbed DEF vars, shared
<1> QED BY <1>1, <1>2, <1>3, <1>4 DEF Next

\* With one goroutine at a time to change accounts, the status the selectors read is
\* the account's whenever no change of it is under way: every setter of types.go that
\* changes the status stores its copy, whichever follow one another.
THEOREM CopiesFollow == OneSetter => (Spec => []StatusMirrored)
<1> SUFFICES ASSUME OneSetter PROVE Spec => []StatusMirrored
    OBVIOUS
<1>1. SInv /\ [Next]_vars => SInv'
    BY NextSInv
<1>2. SInv => StatusMirrored
    BY DEF SInv
<1> QED BY <1>1, <1>2, InitSInv, PTL DEF Spec

-----------------------------------------------------------------------------
(***************************************************************************)
(* How fresh the list is that an account is taken from.  An account that   *)
(* passes the filter has been seen at this very moment, and what is seen   *)
(* is only ever seen later: so a list dated before its filter looked never *)
(* claims more than it keeps, in the picker's hands, in the cache, and in  *)
(* the hands of whoever finds it there.                                    *)
(***************************************************************************)
\* Each account of the list passed the filter at t or later.
Dated(list, t) ==
    /\ t \in Nat /\ t <= now /\ IsList(list)
    /\ \A i \in DOMAIN list : seen[list[i]] >= t

\* What a picker at one of the steps of a pick holds.
Holds(r) ==
    /\ r.pc \in {"cache", "claim", "rebuild", "filter"} => r.from \subseteq Accounts
    /\ r.pc \in {"claim", "rebuild"} => r.t \in Nat /\ r.t <= now
    /\ r.pc = "publish" => Dated(r.list, r.t)
    /\ r.pc = "take" /\ r.fresh > 0 =>
          /\ r.fresh \in Nat /\ r.fresh <= now /\ IsList(r.list)
          /\ \A i \in DOMAIN r.list : r.fresh - seen[r.list[i]] < TTL

FInv ==
    /\ now \in Nat /\ DOMAIN atomics = Accounts /\ DOMAIN picker = Pickers
    /\ seen \in [Accounts -> Nat]
    /\ \A a \in Accounts : seen[a] <= now /\ (Passes(a, now) => seen[a] = now)
    /\ cache # None => Dated(cache.list, cache.at)
    /\ \A p \in Pickers : Holds(picker[p])

LEMMA InitFInv == Init => FInv
<1> SUFFICES ASSUME Init PROVE FInv
    OBVIOUS
<1>1. now = 1 /\ DOMAIN atomics = Accounts /\ cache = None
    BY DEF Init
<1>2. seen \in [Accounts -> Nat] /\ \A a \in Accounts : seen[a] = 1
    BY DEF Init
<1>3. DOMAIN picker = Pickers /\ \A p \in Pickers : picker[p].pc = "idle"
    BY DEF Init, Idle
<1> QED BY <1>1, <1>2, <1>3 DEF FInv, Holds

\* Time and later looks only make what is held truer.
LEMMA HeldLater ==
    ASSUME FInv, now' \in Nat, now' >= now, seen' \in [Accounts -> Nat],
           \A a \in Accounts : seen'[a] >= seen[a]
    PROVE  /\ \A list, t : Dated(list, t) => Dated(list, t)'
           /\ \A r : Holds(r) => Holds(r)'
<1>1. ASSUME NEW list, NEW t, Dated(list, t) PROVE Dated(list, t)'
    <2>1. t <= now'
        BY <1>1 DEF Dated, FInv
    <2>2. ASSUME NEW i \in DOMAIN list PROVE seen'[list[i]] >= t
        <3>1. list[i] \in Accounts /\ seen[list[i]] >= t
            BY <1>1 DEF Dated, IsList
        <3> QED BY <1>1, <3>1 DEF Dated, FInv
    <2> QED BY <1>1, <2>1, <2>2 DEF Dated
<1>2. ASSUME NEW r, Holds(r) PROVE Holds(r)'
    <2>1. r.pc \in {"cache", "claim", "rebuild", "filter"} => r.from \subseteq Accounts
        BY <1>2 DEF Holds
    <2>2. r.pc \in {"claim", "rebuild"} => r.t \in Nat /\ r.t <= now'
        BY <1>2 DEF Holds, FInv
    <2>3. r.pc = "publish" => Dated(r.list, r.t)'
        BY <1>1, <1>2 DEF Holds
    <2>4. ASSUME r.pc = "take", r.fresh > 0
          PROVE  /\ r.fresh \in Nat /\ r.fresh <= now' /\ IsList(r.list)
                 /\ \A i \in DOMAIN r.list : r.fresh - seen'[r.list[i]] < TTL
        <3>1. /\ r.fresh \in Nat /\ r.fresh <= now /\ IsList(r.list)
              /\ \A i \in DOMAIN r.list : r.fresh - seen[r.list[i]] < TTL
            BY <1>2, <2>4 DEF Holds
        <3>2. ASSUME NEW i \in DOMAIN r.list PROVE r.fresh - seen'[r.list[i]] < TTL
            <4>1. r.list[i] \in Accounts
                BY <3>1 DEF IsList
            <4>2. seen'[r.list[i]] >= seen[r.list[i]] /\ seen'[r.list[i]] \in Nat
                  /\ seen[r.list[i]] \in Nat
                BY <4>1 DEF FInv
            <4> QED BY <3>1, <4>2, SelectorAssumption
        <3> QED BY <3>1, <3>2 DEF FInv
    <2> QED BY <2>1, <2>2, <2>3, <2>4 DEF Holds
<1> QED BY <1>1, <1>2

LEMMA TickFInv == ASSUME FInv, Tick PROVE FInv'
<1>1. /\ now' = now + 1 /\ now' \in Nat /\ UNCHANGED <<atomics, cache, picker>>
      /\ seen' = [a \in Accounts |-> IF Passes(a, now + 1) THEN now + 1 ELSE seen[a]]
    BY DEF Tick, shared, FInv
<1>2. seen' \in [Accounts -> Nat] /\ \A a \in Accounts : seen'[a] >= seen[a] /\ seen'[a] <= now'
    BY <1>1 DEF FInv
<1>3. \A a \in Accounts : Passes(a, now)' => seen'[a] = now'
    <2>1. \A a \in Accounts : Passes(a, now)' <=> Passes(a, now + 1)
        BY <1>1 DEF Passes, PassesIn, CoolingIn, ExpiringIn
    <2> QED BY <1>1, <2>1
<1>4. /\ \A list, t : Dated(list, t) => Dated(list, t)'
      /\ \A r : Holds(r) => Holds(r)'
    BY <1>1, <1>2, HeldLater DEF FInv
<1> QED BY <1>1, <1>2, <1>3, <1>4 DEF FInv

LEMMA StoreFInv == ASSUME FInv, NEW s \in Setters, StoreAtomic(s) PROVE FInv'
<1>1. PICK a, name, value :
        /\ atomics' = [atomics EXCEPT ![a][name] = value]
        /\ seen' = [seen EXCEPT ![a] =
                       IF PassesIn([atomics EXCEPT ![a][name] = value], a, now) THEN now ELSE @]
        /\ UNCHANGED <<now, cache, picker>>
    BY DEF StoreAtomic
<1>2. /\ seen' = [seen EXCEPT ![a] = IF PassesIn(atomics', a, now) THEN now ELSE seen[a]]
      /\ DOMAIN atomics' = Accounts /\ \A b \in Accounts : b # a => atomics'[b] = atomics[b]
    BY <1>1 DEF FInv
<1>3. seen' \in [Accounts -> Nat] /\ \A b \in Accounts : seen'[b] >= seen[b] /\ seen'[b] <= now
    <2>1. seen \in [Accounts -> Nat] /\ now \in Nat /\ \A b \in Accounts : seen[b] <= now
        BY DEF FInv
    <2>2. CASE seen' = [seen EXCEPT ![a] = now]
        <3>1. seen' \in [Accounts -> Nat]
            BY <2>1, <2>2
        <3>2. ASSUME NEW b \in Accounts PROVE seen'[b] >= seen[b] /\ seen'[b] <= now
            <4>1. seen'[b] = now \/ seen'[b] = seen[b]
                BY <2>1, <2>2
            <4>2. seen[b] \in Nat /\ seen[b] <= now
                BY <2>1
            <4> QED BY <2>1, <4>1, <4>2
        <3> QED BY <3>1, <3>2
    <2>3. CASE seen' = [seen EXCEPT ![a] = seen[a]]
        <3>1. seen' = seen
            BY <2>1, <2>3
        <3> QED BY <2>1, <3>1
    <2> QED BY <1>2, <2>2, <2>3
<1>4. ASSUME NEW b \in Accounts, Passes(b, now)' PROVE seen'[b] = now
    <2>1. CASE b = a
        <3>1. PassesIn(atomics', a, now)
            BY <1>1, <1>4, <2>1 DEF Passes
        <3> QED BY <1>2, <2>1, <3>1 DEF FInv
    <2>2. CASE b # a
        <3>1. Passes(b, now)
            BY <1>1, <1>2, <1>4, <2>2 DEF Passes, PassesIn, CoolingIn, ExpiringIn
        <3> QED BY <1>2, <2>2, <3>1 DEF FInv
    <2> QED BY <2>1, <2>2
<1>5. /\ \A list, t : Dated(list, t) => Dated(list, t)'
      /\ \A r : Holds(r) => Holds(r)'
    BY <1>1, <1>3, HeldLater DEF FInv
<1> QED BY <1>1, <1>2, <1>3, <1>4, <1>5 DEF FInv

\* A list of accounts that pass now is dated now.
LEMMA ListsPass ==
    ASSUME FInv, NEW from, from \subseteq Accounts, NEW list, NEW before,
           list \in Lists(FilterAvailable(from, now), before)
    PROVE  Dated(list, now)
<1>1. \A i \in DOMAIN list : list[i] \in FilterAvailable(from, now)
    BY DEF Lists
<1>2. \A i \in DOMAIN list : list[i] \in Accounts /\ seen[list[i]] = now
    BY <1>1 DEF FilterAvailable, FInv
<1> QED BY <1>2 DEF Dated, IsList, FInv

\* A step of a picker: it holds what it should, and the others what they held.
LEMMA PickerStep ==
    ASSUME FInv, NEW p \in Pickers, NEW r, picker' = [picker EXCEPT ![p] = r], Holds(r),
           UNCHANGED <<now, atomics, seen>>,
           cache' = None \/ Dated(cache'.list, cache'.at) \/ UNCHANGED cache
    PROVE  FInv'
<1>1. /\ \A list, t : Dated(list, t) <=> Dated(list, t)'
      /\ \A q : Holds(q) <=> Holds(q)'
    BY DEF Dated, Holds
<1>2. \A a \in Accounts : Passes(a, now)' <=> Passes(a, now)
    BY DEF Passes, PassesIn, CoolingIn, ExpiringIn
<1>3. \A q \in Pickers : Holds(picker'[q]) /\ DOMAIN picker' = Pickers
    BY DEF FInv
<1>4. cache' # None => Dated(cache'.list, cache'.at)
    BY DEF FInv
<1>5. \A q \in Pickers : Holds(picker[q])'
    BY <1>1, <1>3
<1> QED BY <1>1, <1>2, <1>3, <1>4, <1>5 DEF FInv

LEMMA StartFInv ==
    ASSUME FInv, NEW p \in Pickers, NEW tries, NEW excluded, Start(p, tries, excluded),
           UNCHANGED <<now, atomics, seen>>, cache' = None \/ UNCHANGED cache
    PROVE  FInv'
<1>1. Candidates(excluded, now) \subseteq Accounts
    BY DEF Candidates
<1> DEFINE r == [pc |-> IF Strategy = "round-robin" THEN "cache" ELSE "filter",
                 tries |-> tries, excluded |-> excluded, from |-> Candidates(excluded, now)]
<1>2. picker' = [picker EXCEPT ![p] = Idle] \/ picker' = [picker EXCEPT ![p] = r]
    BY DEF Start
<1>3. Holds(Idle) /\ Holds(r)
    BY <1>1 DEF Holds, Idle
<1> QED BY <1>2, <1>3, PickerStep

LEMMA PickFInv ==
    ASSUME FInv, NEW p \in Pickers, Request(p) \/ Pick(p)
    PROVE  FInv'
<1> DEFINE r == picker[p]
<1>1. Holds(r) /\ now \in Nat
    BY DEF FInv
<1>2. CASE Request(p)
    BY <1>2, StartFInv DEF Request, PickStep, shared
<1>3. CASE ReadCache(p)
    <2> DEFINE found == Listed(r, cache.list, now)
               old == [pc |-> "claim", tries |-> r.tries, excluded |-> r.excluded,
                       from |-> r.from, c |-> cache, t |-> now]
    <2>1. /\ r.pc = "cache" /\ UNCHANGED <<now, atomics, seen, cache>>
          /\ picker' = [picker EXCEPT ![p] =
                IF cache # None /\ now - cache.at < TTL THEN found ELSE old]
        BY <1>3 DEF ReadCache, PickStep, shared
    <2>2. Holds(old)
        BY <1>1, <2>1 DEF Holds
    <2>3. ASSUME cache # None, now - cache.at < TTL PROVE Holds(found)
        <3>1. Dated(cache.list, cache.at)
            BY <2>3 DEF FInv
        <3>2. ASSUME NEW i \in DOMAIN cache.list PROVE now - seen[cache.list[i]] < TTL
            <4>1. cache.list[i] \in Accounts /\ seen[cache.list[i]] >= cache.at
                BY <3>1 DEF Dated, IsList
            <4>2. seen[cache.list[i]] \in Nat /\ cache.at \in Nat
                BY <3>1, <4>1 DEF FInv, Dated
            <4> QED BY <1>1, <2>3, <4>1, <4>2, SelectorAssumption
        <3> QED BY <1>1, <3>1, <3>2 DEF Holds, Listed, Dated
    <2> HIDE DEF found, old
    <2>4. CASE cache # None /\ now - cache.at < TTL
        BY <2>1, <2>3, <2>4, PickerStep
    <2>5. CASE ~(cache # None /\ now - cache.at < TTL)
        BY <2>1, <2>2, <2>5, PickerStep
    <2> QED BY <2>4, <2>5
<1>4. CASE Claim(p)
    <2> DEFINE mine == [pc |-> "rebuild", tries |-> r.tries, excluded |-> r.excluded,
                        from |-> r.from, t |-> r.t]
               stale == Listed(r, r.c.list, 0)
               none == [pc |-> "filter", tries |-> r.tries, excluded |-> r.excluded,
                        from |-> r.from]
    <2>1. /\ r.pc = "claim" /\ UNCHANGED <<now, atomics, seen, cache>>
          /\ picker' = [picker EXCEPT ![p] =
                IF ~rebuilding THEN mine ELSE IF r.c # None THEN stale ELSE none]
        BY <1>4 DEF Claim, PickStep, shared
    <2>2. Holds(mine) /\ Holds(stale) /\ Holds(none)
        BY <1>1, <2>1 DEF Holds, Listed
    <2> HIDE DEF mine, stale, none
    <2> QED BY <2>1, <2>2, PickerStep
<1>5. CASE Rebuild(p)
    <2>1. PICK list \in Sorted(FilterAvailable(r.from, now)) :
            picker' = [picker EXCEPT ![p] =
                [pc |-> "publish", tries |-> r.tries, excluded |-> r.excluded, t |-> r.t,
                 list |-> list]]
        BY <1>5 DEF Rebuild
    <2>2. r.pc = "rebuild" /\ UNCHANGED <<now, atomics, seen, cache>>
        BY <1>5 DEF Rebuild, PickStep, shared
    <2>3. Dated(list, now) /\ r.t \in Nat /\ r.t <= now
        BY <1>1, <2>1, <2>2, ListsPass DEF Holds, Sorted
    <2>4. Dated(list, r.t)
        <3>1. ASSUME NEW i \in DOMAIN list PROVE seen[list[i]] >= r.t
            <4>1. list[i] \in Accounts /\ seen[list[i]] >= now /\ seen[list[i]] \in Nat
                BY <2>3 DEF Dated, IsList, FInv
            <4> QED BY <1>1, <2>3, <4>1
        <3> QED BY <2>3, <3>1 DEF Dated
    <2> DEFINE new == [pc |-> "publish", tries |-> r.tries, excluded |-> r.excluded,
                       t |-> r.t, list |-> list]
    <2>5. Holds(new)
        BY <2>4 DEF Holds
    <2> HIDE DEF new
    <2>6. picker' = [picker EXCEPT ![p] = new]
        BY <2>1 DEF new
    <2> QED BY <2>2, <2>5, <2>6, PickerStep
<1>6. CASE Publish(p)
    <2> DEFINE new == [r EXCEPT !.pc = "release", !.t = 0]
    <2>1. /\ r.pc = "publish" /\ UNCHANGED <<now, atomics, seen>>
          /\ cache' = [pc |-> "list", list |-> r.list, at |-> r.t]
        BY <1>6 DEF Publish, PickStep, shared
    <2>2. picker' = [picker EXCEPT ![p] = new]
        BY <1>6 DEF Publish, FInv
    <2>3. Dated(r.list, r.t)
        BY <1>1, <2>1 DEF Holds
    <2>4. Dated(cache'.list, cache'.at)
        BY <2>1, <2>3
    <2>5. Holds(new)
        BY <1>1, <2>1 DEF Holds
    <2> HIDE DEF new
    <2> QED BY <2>1, <2>2, <2>4, <2>5, PickerStep
<1>7. CASE Release(p)
    <2> DEFINE new == Listed(r, r.list, 0)
    <2>1. picker' = [picker EXCEPT ![p] = new] /\ UNCHANGED <<now, atomics, seen, cache>>
        BY <1>7 DEF Release, PickStep, shared
    <2>2. Holds(new)
        BY DEF Holds, Listed
    <2> HIDE DEF new
    <2> QED BY <2>1, <2>2, PickerStep
<1>8. CASE Filter(p)
    <2>1. PICK list : picker' = [picker EXCEPT ![p] = Listed(r, list, 0)]
        BY <1>8 DEF Filter
    <2>2. UNCHANGED <<now, atomics, seen, cache>>
        BY <1>8 DEF Filter, PickStep, shared
    <2>3. Holds(Listed(r, list, 0))
        BY DEF Holds, Listed
    <2> QED BY <2>1, <2>2, <2>3, PickerStep
<1>9. CASE Take(p)
    <2>1. PICK got : \/ picker' = [picker EXCEPT ![p] = Idle]
                     \/ picker' = [picker EXCEPT ![p] =
                           [pc |-> "send", tries |-> r.tries, excluded |-> r.excluded,
                            got |-> got]]
        BY <1>9 DEF Take
    <2>2. UNCHANGED <<now, atomics, seen, cache>>
        BY <1>9 DEF Take, shared
    <2>3. Holds(Idle)
          /\ Holds([pc |-> "send", tries |-> r.tries, excluded |-> r.excluded, got |-> got])
        BY DEF Holds, Idle
    <2> QED BY <2>1, <2>2, <2>3, PickerStep
<1>10. CASE End(p)
    <2>1. Holds(Idle)
        BY DEF Holds, Idle
    <2> QED BY <1>10, <2>1, PickerStep DEF End, PickStep, shared
<1>11. CASE Fail(p)
    <2>1. Holds(Idle)
        BY DEF Holds, Idle
    <2>2. UNCHANGED <<now, atomics, seen>> /\ (cache' = None \/ UNCHANGED cache)
        BY <1>11 DEF Fail, shared, Invalidate
    <2>3. \/ Start(p, r.tries + 1, r.excluded \cup {r.got})
          \/ picker' = [picker EXCEPT ![p] = Idle]
        BY <1>11 DEF Fail
    <2> QED BY <2>1, <2>2, <2>3, PickerStep, StartFInv
<1> QED BY <1>2, <1>3, <1>4, <1>5, <1>6, <1>7, <1>8, <1>9, <1>10, <1>11 DEF Pick

LEMMA StillFInv ==
    ASSUME FInv, UNCHANGED <<now, atomics, seen, picker>>, cache' = None \/ UNCHANGED cache
    PROVE  FInv'
BY DEF FInv, Dated, Holds, Passes, PassesIn, CoolingIn, ExpiringIn

LEMMA NextFInv == FInv /\ [Next]_vars => FInv'
<1> SUFFICES ASSUME FInv, [Next]_vars PROVE FInv'
    OBVIOUS
<1>1. CASE Tick
    BY <1>1, TickFInv
<1>2. ASSUME NEW s \in Setters, Set(s) PROVE FInv'
    <2>1. CASE StoreAtomic(s)
        BY <2>1, StoreFInv
    <2>2. ASSUME NEW op \in Ops, NEW a \in Accounts, SetFields(s, op, a) PROVE FInv'
        BY <2>2, StillFInv DEF SetFields
    <2>3. CASE Return(s)
        BY <2>3, StillFInv DEF Return, Invalidate
    <2> QED BY <1>2, <2>1, <2>2, <2>3 DEF Set
<1>3. ASSUME NEW p \in Pickers, Request(p) \/ Pick(p) PROVE FInv'
    BY <1>3, PickFInv
<1>4. CASE UNCHANGED vars
    BY <1>4, StillFInv DEF vars, shared
<1> QED BY <1>1, <1>2, <1>3, <1>4 DEF Next

\* Whatever the strategy, the times and the other goroutines, an account taken from a
\* list found young enough passed the filter less than TTL before (FreshPicks;
\* getOrRefreshCache dates the list before it filters).
THEOREM PicksAreFresh == Spec => []FreshPicks
<1>1. FInv => FreshPicks
    BY DEF FInv, FreshPicks, Holds
<1>2. FInv /\ [Next]_vars => FInv'
    BY NextFInv
<1> QED BY <1>1, <1>2, InitFInv, PTL DEF Spec
=============================================================================
