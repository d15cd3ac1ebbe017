---------------------------- MODULE CodexRequest ----------------------------
(***************************************************************************)
(* One client request of codex-proxy, from the handler to the end of the   *)
(* answer: the bridges of a stream (RunCodexStreamWithOpenBridges), the    *)
(* pump with its reopening, the first read of a body and its rounds        *)
(* (openCodexResponsesBody), the attempts of one sendWithRetry with the    *)
(* quota preflight, the pick of each attempt and the last resort, and the  *)
(* readers of clients that do not stream.                                  *)
(*                                                                         *)
(* An upstream answer is abstracted to whether anything of it goes to the  *)
(* client and how it ends; CodexStream has what is in it.                  *)
(***************************************************************************)
EXTENDS Naturals, SequencesExt

CONSTANTS Accounts,
          MaxRetry,        \* max-retry
          EmptyRetryMax,   \* empty-retry-max
          Reselects,       \* maxQuotaReselects, 256 in the code
          Modes            \* the kinds of request to be checked

ASSUME RequestAssumption ==
    MaxRetry \in Nat /\ EmptyRetryMax \in Nat /\ Reselects \in Nat \ {0}

VARIABLES mode,       \* which endpoint, streaming or not
          healthy,    \* enable-healthy-retry
          usable,     \* accounts neither cooling down nor disabled
          used,       \* accounts by LastUsedAt, the latest last
          list, fresh,   \* the selector's cached list, and whether it is young enough
          at,         \* where the request is
          bridge, pump, round, attempt, reselect,   \* the loops
          excluded,   \* by: send of sendWithRetry, open of the rounds, pump of reopening
          refused,    \* accounts that answered this sendWithRetry with an error status
          account,    \* picked
          err,        \* lastErr, then the error returned
          owner,      \* s.account, to whom the answer is credited
          body,       \* [of, wrote, content, prefix] of the body read
          open,       \* number of bodies open
          client,     \* [streams: upstream answers it was sent bytes of, end]
          credited,   \* accounts credited with a success, in order
          stopped     \* the server shuts down: the context of the request is done

loops == <<bridge, pump, round, attempt, reselect>>
pool == <<usable, used, list, fresh>>
fixed == <<mode, healthy>>
answer == <<owner, body, open, client, credited>>
vars == <<fixed, pool, at, loops, excluded, refused, account, err, answer, stopped>>

Streams == {"chat", "raw", "claude"}   \* under bridges, with a context that is never done
Opened == Streams \cup {"claude_whole"}   \* through openCodexResponsesBody

\* codexStreamPumpRounds, CodexStreamOpenBridgeMax
PumpRounds == MaxRetry + 2
Bridges == MaxRetry + 2

\* How often a body is asked for, after one that ends at once or breaks off.
Rounds ==
    IF mode \in Opened \cup {"responses_whole"}
    THEN (IF EmptyRetryMax = 0 THEN 2 ELSE EmptyRetryMax + 1)
    ELSE IF mode \in {"chat_whole", "ws"} THEN EmptyRetryMax + 1 ELSE 1

Excluded == excluded.send \cup excluded.open \cup excluded.pump

-----------------------------------------------------------------------------
(***************************************************************************)
(* Picking.                                                                *)
(***************************************************************************)
\* RecordSuccess and RecordFailure both set LastUsedAt.
Use(a) == Append(SelectSeq(used, LAMBDA b : b # a), a)

Recents == SelectSeq(used, LAMBDA a : a \in usable)

\* PickRecentlySuccessful: the latest that is not excluded, or the latest at all;
\* of accounts never used any, excluded or not.
RecentlySuccessful ==
    LET free == SelectSeq(Recents, LAMBDA a : a \notin Excluded)
    IN  IF Recents = <<>> THEN usable
        ELSE {Last(IF free # <<>> THEN free ELSE Recents)}

\* What PickExcluding makes the selector's list of; a young list stays.
ListFor == IF fresh THEN list ELSE (Accounts \ Excluded) \cap usable
Pickable == IF Accounts \subseteq Excluded THEN {} ELSE ListFor

\* The last attempts of a request ask for accounts that worked (buildRetryConfig).
WantsRecent ==
    healthy /\ (attempt = MaxRetry \/ (MaxRetry >= 2 /\ attempt >= MaxRetry - 1))
UsesRecent == WantsRecent /\ RecentlySuccessful # {}

-----------------------------------------------------------------------------
Init ==
    /\ mode \in Modes /\ healthy \in BOOLEAN
    /\ \E s \in SetToSeqs(Accounts), n \in 0 .. 1 : used = SubSeq(s, 1, n)
    /\ usable = Accounts
    /\ list = {} /\ fresh = FALSE
    /\ at = "pick"
    /\ bridge = 0 /\ pump = 0 /\ round = 0 /\ attempt = 0 /\ reselect = 0
    /\ excluded = [send |-> {}, open |-> {}, pump |-> {}]
    /\ refused = {}
    /\ account = "none" /\ err = "none" /\ owner = "none"
    /\ body = [of |-> "none", wrote |-> FALSE, content |-> FALSE, prefix |-> FALSE]
    /\ open = 0
    /\ client = [streams |-> 0, end |-> "none"]
    /\ credited = <<>>
    /\ stopped = FALSE

-----------------------------------------------------------------------------
(***************************************************************************)
(* The ends of the loops: each says what becomes of all of them.           *)
(***************************************************************************)
\* Another sendWithRetry, for round r of pump p of bridge b.
SendAgain(b, p, r, excl) ==
    /\ at' = "pick" /\ bridge' = b /\ pump' = p /\ round' = r
    /\ attempt' = 0 /\ reselect' = 0
    /\ excluded' = excl
    /\ refused' = {} /\ err' = "none"

End(how) ==
    /\ at' = "done" /\ client' = [client EXCEPT !.end = how]
    /\ UNCHANGED <<loops, excluded, refused, err>>

NextBridge == SendAgain(bridge + 1, 0, 0, [send |-> {}, open |-> {}, pump |-> {}])

\* sendWithRetry, or openCodexResponsesBody around it, returns an error.
Return(e) == at' = "failed" /\ err' = e /\ UNCHANGED <<loops, excluded, refused>>

\* Mutant of PumpFailed: another bridge whatever the client has been sent.
PumpFailedAnew ==
    IF bridge < Bridges - 1 THEN NextBridge /\ UNCHANGED client ELSE End("error")

\* A stream's pump returns an error: once more while the client has nothing.
PumpFailed ==
    IF client.streams = 0 /\ bridge < Bridges - 1
    THEN NextBridge /\ UNCHANGED client
    ELSE End("error")

\* The body was of no use and its account is not to be asked again in this open.
Reread(e) ==
    IF round + 1 < Rounds
    THEN SendAgain(bridge, pump, round + 1, [send |-> {}, open |-> excluded.open \cup {account},
                                               pump |-> excluded.pump])
    ELSE Return(e)

-----------------------------------------------------------------------------
(***************************************************************************)
(* sendWithRetry                                                           *)
(***************************************************************************)
PickAccount ==
    /\ at = "pick" /\ attempt <= MaxRetry /\ ~stopped
    /\ account' \in (IF UsesRecent THEN RecentlySuccessful ELSE Pickable)
    /\ IF UsesRecent \/ Accounts \subseteq Excluded THEN UNCHANGED <<list, fresh>>
       ELSE list' = ListFor /\ fresh' = TRUE
    /\ at' = "quota"
    /\ UNCHANGED <<fixed, usable, used, loops, excluded, refused, err, answer, stopped>>

PickFails ==
    /\ at = "pick" /\ attempt <= MaxRetry /\ ~stopped
    /\ ~UsesRecent /\ Pickable = {}
    /\ IF Accounts \subseteq Excluded THEN UNCHANGED <<list, fresh>>
       ELSE list' = {} /\ fresh' = TRUE
    /\ IF attempt = 0 THEN Return("no account")
       ELSE at' = "resort" /\ UNCHANGED <<loops, excluded, refused, err>>
    /\ UNCHANGED <<fixed, usable, used, account, answer, stopped>>

\* Mutant of QuotaRejects: the rejections are not counted.
QuotaRejectsForEver ==
    /\ at = "quota" /\ at' = "pick"
    /\ excluded' = [excluded EXCEPT !.send = @ \cup {account}]
    /\ UNCHANGED <<fixed, pool, loops, refused, account, err, answer, stopped>>

QuotaRejects ==
    /\ at = "quota"
    /\ reselect' = reselect + 1
    /\ excluded' = [excluded EXCEPT !.send = @ \cup {account}]
    /\ at' = IF reselect + 1 < Reselects THEN "pick" ELSE "resort"
    /\ UNCHANGED <<fixed, pool, bridge, pump, round, attempt, refused, account, err, answer, stopped>>

QuotaPasses ==
    /\ at = "quota"
    /\ at' = "send"
    /\ UNCHANGED <<fixed, pool, loops, excluded, refused, account, err, answer, stopped>>

\* Attempts are over, by number or by the context.
AttemptsEnd ==
    /\ at = "pick" /\ (attempt > MaxRetry \/ stopped)
    /\ at' = "resort"
    /\ UNCHANGED <<fixed, pool, loops, excluded, refused, account, err, answer, stopped>>

\* FallbackRecentPickFn: one more attempt, with a number of its own.
Resort ==
    /\ at = "resort"
    /\ IF err # "none" /\ healthy /\ ~stopped /\ RecentlySuccessful # {}
       THEN /\ account' \in RecentlySuccessful
            /\ at' = "send" /\ attempt' = MaxRetry + 1
            /\ UNCHANGED <<bridge, pump, round, reselect, excluded, refused, err>>
       ELSE /\ Return(IF err = "none" THEN "no account" ELSE err)
            /\ UNCHANGED account
    /\ UNCHANGED <<fixed, pool, answer, stopped>>

\* handleSendErr: a failed attempt is followed by the next, if there is one.
NextAttempt(e, refusing) ==
    /\ err' = e /\ refused' = refused \cup refusing
    /\ IF attempt = MaxRetry + 1
       THEN at' = "failed" /\ UNCHANGED <<loops, excluded>>
       ELSE /\ at' = "pick" /\ attempt' = attempt + 1 /\ reselect' = 0
            /\ excluded' = [excluded EXCEPT !.send = @ \cup {account}]
            /\ UNCHANGED <<bridge, pump, round>>

\* Mutant of Invalidate: the list is kept after an error status.
KeepList == UNCHANGED fresh

\* InvalidateSelectorCache
Invalidate == fresh' = FALSE

\* handleAccountError may cool the account down.  No error status but 400 and 403
\* ends the attempts.
StatusError ==
    /\ at = "send" /\ ~stopped
    /\ used' = Use(account)
    /\ usable' \in {usable, usable \ {account}}
    /\ Invalidate
    /\ Return("final") \/ NextAttempt("status", {account})
    /\ UNCHANGED <<fixed, list, account, answer, stopped>>

\* The request does not get through; with the context done it is not even sent.
NetworkError ==
    /\ at = "send"
    /\ IF stopped THEN UNCHANGED used /\ NextAttempt("other", {})
       ELSE used' = Use(account) /\ \E e \in {"net", "other"} : NextAttempt(e, {})
    /\ UNCHANGED <<fixed, usable, list, fresh, account, answer, stopped>>

NewBody(prefix) == [of |-> account, wrote |-> FALSE, content |-> FALSE, prefix |-> prefix]

Sent ==
    /\ at = "send" /\ ~stopped
    /\ open' = open + 1
    /\ IF mode \in Opened THEN at' = "first" /\ UNCHANGED <<owner, body>>
       ELSE at' = "read" /\ owner' = account /\ body' = NewBody(FALSE)
    /\ UNCHANGED <<fixed, pool, loops, excluded, refused, account, err, client, credited, stopped>>

-----------------------------------------------------------------------------
(***************************************************************************)
(* openCodexResponsesBody: the first read, before the client has anything. *)
(***************************************************************************)
\* Mutant of FirstBytes: a reopened stream keeps its first account.
FirstBytesOldOwner ==
    /\ at = "first"
    /\ at' = "read"
    /\ owner' = IF pump = 0 THEN account ELSE owner
    /\ \E prefix \in BOOLEAN : (prefix => mode = "raw") /\ body' = NewBody(prefix)
    /\ UNCHANGED <<fixed, pool, loops, excluded, refused, account, err, open, client, credited, stopped>>

FirstBytes ==
    /\ at = "first"
    /\ at' = "read"
    /\ owner' = account
    /\ \E prefix \in BOOLEAN : (prefix => mode = "raw") /\ body' = NewBody(prefix)
    /\ UNCHANGED <<fixed, pool, loops, excluded, refused, account, err, open, client, credited, stopped>>

\* An end at once is tried again like a connection lost; after the last round the
\* former is an error no bridge takes up.
FirstReadFails ==
    /\ at = "first"
    /\ open' = open - 1 /\ used' = Use(account)
    /\ Reread("other") \/ Reread("net") \/ Return("other")
    /\ UNCHANGED <<fixed, usable, list, fresh, account, owner, body, client, credited, stopped>>

-----------------------------------------------------------------------------
(***************************************************************************)
(* What becomes of an error of sendWithRetry or of the first read.         *)
(***************************************************************************)
\* IsRetryableOpenCodexError; a reopening that failed ends the pump.
OpenFailed ==
    /\ at = "failed"
    /\ IF mode \in Streams
       THEN \/ pump = 0 /\ bridge < Bridges - 1 /\ err \in {"status", "net"}
               /\ NextBridge /\ UNCHANGED client
            \/ pump = 0 /\ ~(bridge < Bridges - 1 /\ err \in {"status", "net"}) /\ End("error")
            \/ pump > 0 /\ PumpFailed
       ELSE End("error")
    /\ UNCHANGED <<fixed, pool, account, owner, body, open, credited, stopped>>

-----------------------------------------------------------------------------
(***************************************************************************)
(* The pumps and readers.                                                  *)
(***************************************************************************)
\* Bytes of the answer go to the client.  A WebSocket client is sent nothing
\* before there is content.
Write ==
    /\ at = "read" /\ mode \in Streams \cup {"ws", "compact"}
    /\ \E content \in BOOLEAN :
          /\ mode = "ws" => content \/ body.content
          /\ body' = [body EXCEPT !.wrote = TRUE, !.content = @ \/ content]
    /\ client' = [client EXCEPT !.streams = IF body.wrote THEN @ ELSE @ + 1]
    /\ UNCHANGED <<fixed, pool, at, loops, excluded, refused, account, err, owner, open, credited, stopped>>

Close == open' = open - 1

\* RecordSuccess, and the end of the answer
Succeed ==
    /\ Close
    /\ used' = Use(owner)
    /\ credited' = Append(credited, owner)
    /\ at' = "done"
    /\ UNCHANGED <<loops, excluded, refused, err>>

\* Mutant of Reopen: the old body is not closed.
ReopenLeaking ==
    /\ used' = Use(owner) /\ UNCHANGED open
    /\ SendAgain(bridge, pump + 1, 0, [send |-> {}, open |-> {}, pump |-> excluded.pump \cup {owner}])

\* reopenFn of a pump that has written nothing.  RecordFailure comes after it, and
\* only if it succeeds; nothing in between asks for LastUsedAt but the picks.
Reopen ==
    /\ Close /\ UNCHANGED used
    /\ SendAgain(bridge, pump + 1, 0, [send |-> {}, open |-> {}, pump |-> excluded.pump \cup {owner}])

\* The streams end well: chat and raw if the client was sent anything, claude if
\* it was sent message_start.
StreamEnds ==
    /\ at = "read" /\ mode \in Streams \cup {"ws", "compact"}
    /\ (mode = "raw" /\ body.prefix) => body.wrote
    /\ \/ mode = "compact"
       \/ mode = "ws" /\ body.content
       \/ mode \in Streams /\ body.wrote
    /\ Succeed
    /\ client' = [client EXCEPT !.end = "done"]
    /\ UNCHANGED <<fixed, usable, list, fresh, account, owner, body, stopped>>

\* They end, or break off, with nothing sent.
StreamEmpty ==
    /\ at = "read" /\ mode \in Streams /\ ~body.wrote
    /\ mode = "raw" => ~body.prefix
    /\ IF mode # "claude" /\ pump < PumpRounds - 1
       THEN Reopen /\ UNCHANGED client
       ELSE Close /\ UNCHANGED used /\ PumpFailed
    /\ UNCHANGED <<fixed, usable, list, fresh, account, owner, body, credited, stopped>>

\* They break off, or a write to a client that is gone fails: the compact stream
\* just ends.
StreamBreaks ==
    /\ at = "read" /\ mode \in Streams \cup {"ws", "compact"}
    /\ mode \in {"chat", "claude"} => body.wrote
    /\ Close
    /\ IF mode \in Streams THEN PumpFailed
       ELSE End(IF mode = "compact" THEN "cut" ELSE "error")
    /\ UNCHANGED <<fixed, pool, account, owner, body, credited, stopped>>

\* A WebSocket answer without content is tried again; nothing of it is recorded.
SocketEmpty ==
    /\ at = "read" /\ mode = "ws" /\ ~body.content
    /\ Close
    /\ Reread("empty")
    /\ UNCHANGED <<fixed, pool, account, owner, body, client, credited, stopped>>

Whole == {"chat_whole", "responses_whole", "claude_whole", "compact_whole"}

WholeRead ==
    /\ at = "read" /\ mode \in Whole
    /\ Succeed
    /\ client' = [streams |-> client.streams + 1, end |-> "done"]
    /\ UNCHANGED <<fixed, usable, list, fresh, account, owner, body, stopped>>

\* ExecuteNonStream tries again after an empty answer or a lost connection,
\* ExecuteResponsesNonStream after a lost connection; the others do not.
WholeFails ==
    /\ at = "read" /\ mode \in Whole
    /\ Close
    /\ IF mode \in {"chat_whole", "responses_whole"} THEN used' = Use(owner) ELSE UNCHANGED used
    /\ \/ mode \in {"chat_whole", "responses_whole"} /\ Reread("net")
       \/ mode # "chat_whole" /\ Return("empty")
       \/ Return("other")
    /\ UNCHANGED <<fixed, usable, list, fresh, account, owner, body, client, credited, stopped>>

-----------------------------------------------------------------------------
\* The cached list grows old.
Expire ==
    /\ fresh /\ at # "done"
    /\ fresh' = FALSE
    /\ UNCHANGED <<fixed, usable, used, list, at, loops, excluded, refused, account, err, answer, stopped>>

Shutdown ==
    /\ mode \notin Streams /\ ~stopped /\ at # "done"
    /\ stopped' = TRUE
    /\ UNCHANGED <<fixed, pool, at, loops, excluded, refused, account, err, answer>>

Step ==
    \/ PickAccount \/ PickFails \/ QuotaRejects \/ QuotaPasses \/ AttemptsEnd \/ Resort
    \/ StatusError \/ NetworkError \/ Sent
    \/ FirstBytes \/ FirstReadFails \/ OpenFailed
    \/ StreamEnds \/ StreamEmpty \/ StreamBreaks \/ SocketEmpty
    \/ WholeRead \/ WholeFails

Next == Step \/ Write \/ Expire \/ Shutdown

\* The goroutine of the request runs on, and an upstream answer ends.
Spec == Init /\ [][Next]_vars /\ WF_vars(Step \/ Write)

-----------------------------------------------------------------------------
\* The client of a request is sent bytes of one upstream answer only, however
\* many the bridges, the reopenings and the rounds went through, and is told
\* that it is whole only if that answer ended.
OneAnswer ==
    /\ client.streams <= 1
    /\ client.end = "done" /\ mode # "compact" => client.streams = 1

\* A success is credited once, exactly if the client was told of one, and to the
\* account whose answer it was sent.
CreditWhereDue ==
    /\ (client.end = "done" /\ credited = <<body.of>>) \/ (client.end # "done" /\ credited = <<>>)
    /\ at = "read" => owner = body.of

\* Every loop closes the body it gives up before it asks for another, and the
\* request leaves none open.
OneBodyOpen == open = IF at \in {"first", "read"} THEN 1 ELSE 0

\* "switch the account": one that has answered with an error status is not asked
\* again by the same sendWithRetry, although the picks go through a list that is
\* shared and cached (without enable-healthy-retry, whose last resort asks any).
RefusedNotAsked == at = "send" /\ ~healthy => account \notin refused

\* Whatever the upstream does, the request comes to an end.
Answered == <>(at = "done")
=============================================================================
