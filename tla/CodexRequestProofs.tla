-------------------------- MODULE CodexRequestProofs --------------------------
(* What CodexRequest promises, for any accounts and any limits of the loops. *)
EXTENDS CodexRequest, TLAPS

\* The counters of the five loops and where they may stand.
LoopsBounded ==
    /\ bridge \in 0 .. Bridges - 1 /\ pump \in 0 .. PumpRounds - 1
    /\ round \in 0 .. Rounds - 1
    /\ attempt \in 0 .. MaxRetry + 1 /\ reselect \in 0 .. Reselects

Places == {"pick", "quota", "send", "resort", "failed", "first", "read", "done"}

LoopsOK ==
    /\ at \in Places
    /\ LoopsBounded
    /\ at \in {"pick", "quota"} => reselect < Reselects
    /\ at = "quota" => attempt <= MaxRetry

\* Before the body is read the client has nothing; then what the body wrote.
ClientOK ==
    /\ open = IF at \in {"first", "read"} THEN 1 ELSE 0
    /\ client = [streams |-> client.streams, end |-> client.end]
    /\ body = [of |-> body.of, wrote |-> body.wrote, content |-> body.content,
               prefix |-> body.prefix]
    /\ body.wrote \in BOOLEAN /\ body.content \in BOOLEAN
    /\ at = "read" => /\ client.streams = IF body.wrote THEN 1 ELSE 0
                      /\ owner = body.of
                      /\ body.content => body.wrote
                      /\ mode = "ws" => (body.wrote => body.content)
                      /\ mode \in Whole => ~body.wrote
    /\ at \notin {"read", "done"} => client.streams = 0
    /\ at # "done" => client.end = "none" /\ credited = <<>>
    /\ client.streams \in {0, 1}
    /\ OneAnswer /\ CreditWhereDue

\* Refused accounts are excluded while there is another pick to come, and a list
\* that is still young was made without them.
RefusedOK ==
    /\ excluded = [send |-> excluded.send, open |-> excluded.open, pump |-> excluded.pump]
    /\ at \in {"pick", "quota", "send", "resort"} => refused \subseteq excluded.send
    /\ fresh \in {TRUE, FALSE}
    /\ fresh = FALSE \/ list \cap refused = {}
    /\ at \in {"quota", "send"} /\ ~healthy => account \notin refused

LEMMA LoopTypes == Bridges \in Nat /\ Bridges > 0 /\ PumpRounds \in Nat /\ PumpRounds > 0
                   /\ Rounds \in Nat /\ Rounds > 0 /\ MaxRetry \in Nat
                   /\ Reselects \in Nat /\ Reselects > 0
BY RequestAssumption DEF Bridges, PumpRounds, Rounds

LEMMA SendAgainLoops ==
    ASSUME UNCHANGED mode, NEW b \in 0 .. Bridges - 1, NEW p \in 0 .. PumpRounds - 1,
           NEW r \in 0 .. Rounds - 1, NEW e, SendAgain(b, p, r, e)
    PROVE  LoopsOK'
<1>1. Rounds' = Rounds /\ Bridges' = Bridges /\ PumpRounds' = PumpRounds
    BY DEF Rounds, Bridges, PumpRounds
<1> QED BY <1>1, LoopTypes DEF SendAgain, LoopsOK, LoopsBounded, Places

LEMMA SameLoops ==
    ASSUME LoopsOK, UNCHANGED <<mode, loops>>, at' \in Places,
           at' \in {"pick", "quota"} => at \in {"pick", "quota"},
           at' = "quota" => attempt <= MaxRetry
    PROVE  LoopsOK'
<1>1. Rounds' = Rounds /\ Bridges' = Bridges /\ PumpRounds' = PumpRounds
    BY DEF Rounds, Bridges, PumpRounds
<1> QED BY <1>1 DEF loops, LoopsOK, LoopsBounded

LEMMA NextBridgeLoops ==
    ASSUME LoopsOK, UNCHANGED mode, NextBridge, bridge < Bridges - 1
    PROVE  LoopsOK'
<1>1. bridge + 1 \in 0 .. Bridges - 1 /\ 0 \in 0 .. PumpRounds - 1 /\ 0 \in 0 .. Rounds - 1
    BY LoopTypes DEF LoopsOK, LoopsBounded
<1> QED BY <1>1, SendAgainLoops DEF NextBridge

LEMMA EndLoops == ASSUME LoopsOK, UNCHANGED mode, NEW how, End(how) PROVE LoopsOK'
BY SameLoops DEF End, Places

LEMMA PumpFailedLoops == ASSUME LoopsOK, UNCHANGED mode, PumpFailed PROVE LoopsOK'
BY NextBridgeLoops, EndLoops DEF PumpFailed

LEMMA ReturnLoops == ASSUME LoopsOK, UNCHANGED mode, NEW e, Return(e) PROVE LoopsOK'
BY SameLoops DEF Return, Places

LEMMA RereadLoops == ASSUME LoopsOK, UNCHANGED mode, NEW e, Reread(e) PROVE LoopsOK'
<1>1. CASE round + 1 < Rounds
    <2>1. bridge \in 0 .. Bridges - 1 /\ pump \in 0 .. PumpRounds - 1 /\ round + 1 \in 0 .. Rounds - 1
        BY <1>1, LoopTypes DEF LoopsOK, LoopsBounded
    <2> QED BY <1>1, <2>1, SendAgainLoops DEF Reread
<1>2. CASE ~(round + 1 < Rounds)
    BY <1>2, ReturnLoops DEF Reread
<1> QED BY <1>1, <1>2

LEMMA NextAttemptLoops ==
    ASSUME LoopsOK, UNCHANGED mode, NEW e, NEW r, NextAttempt(e, r)
    PROVE  LoopsOK'
<1>1. CASE attempt = MaxRetry + 1
    BY <1>1, SameLoops DEF NextAttempt, Places
<1>2. CASE attempt # MaxRetry + 1
    <2>1. Rounds' = Rounds /\ Bridges' = Bridges /\ PumpRounds' = PumpRounds
        BY DEF Rounds, Bridges, PumpRounds
    <2> QED BY <1>2, <2>1, LoopTypes DEF NextAttempt, LoopsOK, LoopsBounded, Places
<1> QED BY <1>1, <1>2

LEMMA ReopenLoops ==
    ASSUME LoopsOK, UNCHANGED mode, Reopen, pump < PumpRounds - 1
    PROVE  LoopsOK'
<1>1. bridge \in 0 .. Bridges - 1 /\ pump + 1 \in 0 .. PumpRounds - 1 /\ 0 \in 0 .. Rounds - 1
    BY LoopTypes DEF LoopsOK, LoopsBounded
<1> QED BY <1>1, SendAgainLoops DEF Reopen

LEMMA InitLoops == Init => LoopsOK
BY LoopTypes DEF Init, LoopsOK, LoopsBounded, Places

LEMMA NextLoops == LoopsOK /\ [Next]_vars => LoopsOK'
<1> SUFFICES ASSUME LoopsOK, [Next]_vars PROVE LoopsOK'
    OBVIOUS
<1>1. UNCHANGED mode
    BY DEF Next, Step, vars, fixed, PickAccount, PickFails, QuotaRejects, QuotaPasses, AttemptsEnd,
           Resort, StatusError, NetworkError, Sent, FirstBytes, FirstReadFails, OpenFailed,
           StreamEnds, StreamEmpty, StreamBreaks, SocketEmpty, WholeRead, WholeFails, Write,
           Expire, Shutdown
<1>2. CASE PickAccount
    BY <1>1, <1>2, SameLoops DEF PickAccount, Places
<1>3. CASE PickFails
    BY <1>1, <1>3, SameLoops, ReturnLoops DEF PickFails, Places, loops
<1>4. CASE QuotaRejects
    <2>1. Rounds' = Rounds /\ Bridges' = Bridges /\ PumpRounds' = PumpRounds
        BY <1>1 DEF Rounds, Bridges, PumpRounds
    <2> QED BY <1>4, <2>1, LoopTypes DEF QuotaRejects, LoopsOK, LoopsBounded, Places
<1>5. CASE QuotaPasses
    BY <1>1, <1>5, SameLoops DEF QuotaPasses, Places
<1>6. CASE AttemptsEnd
    BY <1>1, <1>6, SameLoops DEF AttemptsEnd, Places
<1>7. CASE Resort
    <2>1. CASE err # "none" /\ healthy /\ ~stopped /\ RecentlySuccessful # {}
        <3>1. Rounds' = Rounds /\ Bridges' = Bridges /\ PumpRounds' = PumpRounds
            BY <1>1 DEF Rounds, Bridges, PumpRounds
        <3> QED BY <1>7, <2>1, <3>1, LoopTypes DEF Resort, LoopsOK, LoopsBounded, Places
    <2>2. CASE ~(err # "none" /\ healthy /\ ~stopped /\ RecentlySuccessful # {})
        BY <1>1, <1>7, <2>2, ReturnLoops DEF Resort
    <2> QED BY <2>1, <2>2
<1>8. CASE StatusError
    BY <1>1, <1>8, ReturnLoops, NextAttemptLoops DEF StatusError
<1>9. CASE NetworkError
    BY <1>1, <1>9, NextAttemptLoops DEF NetworkError
<1>10. CASE Sent
    BY <1>1, <1>10, SameLoops DEF Sent, Places
<1>11. CASE FirstBytes
    BY <1>1, <1>11, SameLoops DEF FirstBytes, Places
<1>12. CASE FirstReadFails
    BY <1>1, <1>12, ReturnLoops, RereadLoops DEF FirstReadFails
<1>13. CASE OpenFailed
    BY <1>1, <1>13, NextBridgeLoops, EndLoops, PumpFailedLoops DEF OpenFailed
<1>14. CASE StreamEnds \/ WholeRead
    BY <1>1, <1>14, SameLoops DEF StreamEnds, WholeRead, Succeed, Places
<1>15. CASE StreamEmpty
    BY <1>1, <1>15, ReopenLoops, PumpFailedLoops DEF StreamEmpty
<1>16. CASE StreamBreaks
    BY <1>1, <1>16, EndLoops, PumpFailedLoops DEF StreamBreaks
<1>17. CASE SocketEmpty
    BY <1>1, <1>17, RereadLoops DEF SocketEmpty
<1>18. CASE WholeFails
    BY <1>1, <1>18, RereadLoops, ReturnLoops DEF WholeFails
<1>19. CASE Write \/ Expire \/ Shutdown \/ UNCHANGED vars
    BY <1>1, <1>19, SameLoops DEF Write, Expire, Shutdown, vars, LoopsOK
<1> QED BY <1>2, <1>3, <1>4, <1>5, <1>6, <1>7, <1>8, <1>9, <1>10, <1>11, <1>12, <1>13, <1>14,
           <1>15, <1>16, <1>17, <1>18, <1>19 DEF Next, Step

-----------------------------------------------------------------------------
Fixed == UNCHANGED mode /\ UNCHANGED <<owner, body, credited>>

LEMMA FixedMode == [Next]_vars => UNCHANGED fixed
BY DEF Next, Step, vars, fixed, PickAccount, PickFails, QuotaRejects, QuotaPasses, AttemptsEnd,
       Resort, StatusError, NetworkError, Sent, FirstBytes, FirstReadFails, OpenFailed,
       StreamEnds, StreamEmpty, StreamBreaks, SocketEmpty, WholeRead, WholeFails, Write,
       Expire, Shutdown

\* A step on the way to the next body, or to none.
LEMMA SendAgainClient ==
    ASSUME ClientOK, Fixed, UNCHANGED client, client.streams = 0, at # "done",
           NEW b, NEW p, NEW r, NEW e, SendAgain(b, p, r, e), open' = 0
    PROVE  ClientOK'
BY DEF ClientOK, OneAnswer, CreditWhereDue, Fixed, SendAgain

LEMMA ReturnClient ==
    ASSUME ClientOK, Fixed, UNCHANGED client, client.streams = 0, at # "done",
           NEW e, Return(e), open' = 0
    PROVE  ClientOK'
BY DEF ClientOK, OneAnswer, CreditWhereDue, Fixed, Return

LEMMA RereadClient ==
    ASSUME ClientOK, Fixed, UNCHANGED client, client.streams = 0, at # "done",
           NEW e, Reread(e), open' = 0
    PROVE  ClientOK'
BY SendAgainClient, ReturnClient DEF Reread

LEMMA EndClient ==
    ASSUME ClientOK, Fixed, at # "done", NEW how, how # "done", End(how), open' = 0
    PROVE  ClientOK'
<1>1. client' = [streams |-> client.streams, end |-> how] /\ at' = "done"
    BY DEF End, ClientOK
<1> QED BY <1>1 DEF ClientOK, OneAnswer, CreditWhereDue, Fixed

LEMMA PumpFailedClient ==
    ASSUME ClientOK, Fixed, at # "done", PumpFailed, open' = 0
    PROVE  ClientOK'
<1>1. CASE client.streams = 0 /\ bridge < Bridges - 1
    BY <1>1, SendAgainClient DEF PumpFailed, NextBridge
<1>2. CASE ~(client.streams = 0 /\ bridge < Bridges - 1)
    BY <1>2, EndClient DEF PumpFailed
<1> QED BY <1>1, <1>2

LEMMA NextAttemptClient ==
    ASSUME ClientOK, Fixed, UNCHANGED <<client, open>>, at = "send",
           NEW e, NEW r, NextAttempt(e, r)
    PROVE  ClientOK'
<1>1. at' \in {"pick", "failed"}
    BY DEF NextAttempt
<1> QED BY <1>1 DEF ClientOK, OneAnswer, CreditWhereDue, Fixed

LEMMA AppendOne == ASSUME NEW a PROVE Append(<<>>, a) = <<a>>
OBVIOUS

LEMMA InitClient == Init => ClientOK
BY DEF Init, ClientOK, OneAnswer, CreditWhereDue

LEMMA NextClient == ClientOK /\ [Next]_vars => ClientOK'
<1> SUFFICES ASSUME ClientOK, [Next]_vars PROVE ClientOK'
    OBVIOUS
<1>1. UNCHANGED mode
    BY FixedMode DEF fixed
<1>2. CASE PickAccount
    BY <1>1, <1>2 DEF PickAccount, answer, ClientOK, OneAnswer, CreditWhereDue
<1>3. CASE PickFails
    <2>1. Fixed /\ UNCHANGED <<client, open>> /\ at = "pick"
        BY <1>1, <1>3 DEF PickFails, answer, Fixed
    <2>2. CASE attempt = 0
        BY <1>3, <2>1, <2>2, ReturnClient DEF PickFails, ClientOK
    <2>3. CASE attempt # 0
        BY <1>3, <2>1, <2>3 DEF PickFails, ClientOK, OneAnswer, CreditWhereDue, Fixed
    <2> QED BY <2>2, <2>3
<1>4. CASE QuotaRejects
    BY <1>1, <1>4 DEF QuotaRejects, answer, ClientOK, OneAnswer, CreditWhereDue
<1>5. CASE QuotaPasses
    BY <1>1, <1>5 DEF QuotaPasses, answer, ClientOK, OneAnswer, CreditWhereDue
<1>6. CASE AttemptsEnd
    BY <1>1, <1>6 DEF AttemptsEnd, answer, ClientOK, OneAnswer, CreditWhereDue
<1>7. CASE Resort
    <2>1. Fixed /\ UNCHANGED <<client, open>> /\ at = "resort" /\ at' \in {"send", "failed"}
        BY <1>1, <1>7 DEF Resort, answer, Fixed, Return
    <2> QED BY <2>1 DEF ClientOK, OneAnswer, CreditWhereDue, Fixed
<1>8. CASE StatusError
    <2>1. Fixed /\ UNCHANGED <<client, open>> /\ at = "send"
        BY <1>1, <1>8 DEF StatusError, answer, Fixed
    <2>2. CASE Return("final")
        BY <2>1, <2>2, ReturnClient DEF ClientOK
    <2>3. CASE NextAttempt("status", {account})
        BY <2>1, <2>3, NextAttemptClient
    <2> QED BY <1>8, <2>2, <2>3 DEF StatusError
<1>9. CASE NetworkError
    <2>1. Fixed /\ UNCHANGED <<client, open>> /\ at = "send"
        BY <1>1, <1>9 DEF NetworkError, answer, Fixed
    <2> QED BY <1>9, <2>1, NextAttemptClient DEF NetworkError
<1>10. CASE Sent
    <2>1. CASE mode \in Opened
        BY <1>1, <1>10, <2>1 DEF Sent, ClientOK, OneAnswer, CreditWhereDue
    <2>2. CASE mode \notin Opened
        <3>1. at = "send" /\ at' = "read" /\ UNCHANGED <<client, credited>> /\ owner' = account
            BY <1>10, <2>2 DEF Sent
        <3>2. open' = 1 /\ client.streams = 0 /\ client.end = "none" /\ credited = <<>>
            BY <1>10, <3>1 DEF Sent, ClientOK
        <3>3. body' = [of |-> account, wrote |-> FALSE, content |-> FALSE, prefix |-> FALSE]
            BY <1>10, <2>2 DEF Sent, NewBody
        <3>4. client = [streams |-> client.streams, end |-> client.end]
            BY DEF ClientOK
        <3> QED BY <3>1, <3>2, <3>3, <3>4 DEF ClientOK, OneAnswer, CreditWhereDue
    <2> QED BY <2>1, <2>2
<1>11. CASE FirstBytes
    BY <1>1, <1>11 DEF FirstBytes, ClientOK, OneAnswer, CreditWhereDue, NewBody
<1>12. CASE FirstReadFails
    <2>1. Fixed /\ UNCHANGED client /\ at = "first" /\ client.streams = 0 /\ open' = 0
        BY <1>1, <1>12 DEF FirstReadFails, ClientOK, Fixed
    <2> QED BY <1>12, <2>1, RereadClient, ReturnClient DEF FirstReadFails
<1>13. CASE OpenFailed
    <2>1. Fixed /\ at = "failed" /\ client.streams = 0 /\ open' = 0
        BY <1>1, <1>13 DEF OpenFailed, ClientOK, Fixed
    <2>2. CASE NextBridge /\ UNCHANGED client
        BY <2>1, <2>2, SendAgainClient DEF NextBridge
    <2>3. CASE End("error")
        BY <2>1, <2>3, EndClient
    <2>4. CASE PumpFailed
        BY <2>1, <2>4, PumpFailedClient
    <2> QED BY <1>13, <2>2, <2>3, <2>4 DEF OpenFailed
<1>14. CASE Write
    <2> DEFINE new(content) == [of |-> body.of, wrote |-> TRUE,
                                content |-> body.content \/ content, prefix |-> body.prefix]
    <2>1. PICK content \in BOOLEAN : /\ mode = "ws" => content \/ body.content
                                     /\ body' = [body EXCEPT !.wrote = TRUE, !.content = @ \/ content]
        BY <1>14 DEF Write
    <2>2. body' = new(content)
        BY <2>1 DEF ClientOK
    <2>3. client' = [streams |-> IF body.wrote THEN client.streams ELSE client.streams + 1,
                     end |-> client.end]
        BY <1>14 DEF Write, ClientOK
    <2>4. at = "read" /\ at' = "read" /\ mode \notin Whole /\ UNCHANGED <<owner, open, credited>>
        BY <1>14 DEF Write, Streams, Whole
    <2>5. client'.streams = 1 /\ client'.end = "none"
        BY <2>3, <2>4 DEF ClientOK
    <2>6. credited' = <<>> /\ owner' = body'.of /\ open' = 1 /\ body'.wrote
        BY <2>2, <2>4 DEF ClientOK
    <2>7. mode = "ws" => body'.content
        BY <2>1, <2>2
    <2>8. body'.content \in BOOLEAN /\ body'.wrote \in BOOLEAN
        BY <2>2 DEF ClientOK
    <2>9. client' = [streams |-> client'.streams, end |-> client'.end]
        BY <2>3
    <2>10. body' = [of |-> body'.of, wrote |-> body'.wrote, content |-> body'.content,
                    prefix |-> body'.prefix]
        BY <2>2
    <2> QED BY <1>1, <2>4, <2>5, <2>6, <2>7, <2>8, <2>9, <2>10 DEF ClientOK, OneAnswer, CreditWhereDue
<1>15. CASE StreamEnds
    <2>1. client' = [streams |-> client.streams, end |-> "done"]
        BY <1>15 DEF StreamEnds, ClientOK
    <2>2. open' = 0 /\ at' = "done" /\ UNCHANGED <<owner, body>>
        BY <1>15 DEF StreamEnds, Succeed, Close, ClientOK
    <2>3. credited' = <<body.of>>
        BY <1>15, AppendOne DEF StreamEnds, Succeed, ClientOK
    <2>4. mode # "compact" => client.streams = 1
        BY <1>15 DEF StreamEnds, Streams, ClientOK
    <2> QED BY <1>1, <2>1, <2>2, <2>3, <2>4 DEF ClientOK, OneAnswer, CreditWhereDue
<1>16. CASE StreamEmpty
    <2>1. Fixed /\ at = "read" /\ client.streams = 0 /\ ~body.wrote
        BY <1>1, <1>16 DEF StreamEmpty, ClientOK, Fixed
    <2>2. CASE Reopen /\ UNCHANGED client
        <3>1. open' = 0
            BY <2>1, <2>2 DEF Reopen, Close, ClientOK
        <3> QED BY <2>1, <2>2, <3>1, SendAgainClient DEF Reopen
    <2>3. CASE Close /\ PumpFailed
        <3>1. open' = 0
            BY <2>1, <2>3 DEF Close, ClientOK
        <3> QED BY <2>1, <2>3, <3>1, PumpFailedClient
    <2> QED BY <1>16, <2>2, <2>3 DEF StreamEmpty
<1>17. CASE StreamBreaks
    <2>1. Fixed /\ at = "read" /\ open' = 0
        BY <1>1, <1>17 DEF StreamBreaks, Close, ClientOK, Fixed
    <2> QED BY <1>17, <2>1, PumpFailedClient, EndClient DEF StreamBreaks
<1>18. CASE SocketEmpty
    <2>1. Fixed /\ at = "read" /\ open' = 0 /\ client.streams = 0 /\ UNCHANGED client
        BY <1>1, <1>18 DEF SocketEmpty, Close, ClientOK, Fixed
    <2> QED BY <1>18, <2>1, RereadClient DEF SocketEmpty
<1>19. CASE WholeRead
    <2>1. open' = 0 /\ at' = "done" /\ UNCHANGED <<owner, body>> /\ client.streams = 0
        BY <1>19 DEF WholeRead, Succeed, Close, ClientOK
    <2>2. credited' = <<body.of>>
        BY <1>19, AppendOne DEF WholeRead, Succeed, ClientOK
    <2>3. client' = [streams |-> 1, end |-> "done"]
        BY <1>19, <2>1 DEF WholeRead
    <2> QED BY <1>1, <2>1, <2>2, <2>3 DEF ClientOK, OneAnswer, CreditWhereDue
<1>20. CASE WholeFails
    <2>1. Fixed /\ at = "read" /\ open' = 0 /\ client.streams = 0 /\ UNCHANGED client
        BY <1>1, <1>20 DEF WholeFails, Close, ClientOK, Fixed
    <2> QED BY <1>20, <2>1, RereadClient, ReturnClient DEF WholeFails
<1>21. CASE Expire \/ Shutdown \/ UNCHANGED vars
    BY <1>1, <1>21 DEF Expire, Shutdown, vars, answer, ClientOK, OneAnswer, CreditWhereDue
<1> QED BY <1>2, <1>3, <1>4, <1>5, <1>6, <1>7, <1>8, <1>9, <1>10, <1>11, <1>12, <1>13, <1>14,
           <1>15, <1>16, <1>17, <1>18, <1>19, <1>20, <1>21 DEF Next, Step

-----------------------------------------------------------------------------
\* A step that leaves the list alone and refuses nobody.
LEMMA SameRefused ==
    ASSUME RefusedOK, UNCHANGED <<healthy, refused, excluded, list, account>>,
           fresh' \in {fresh, FALSE},
           at' \in {"pick", "quota", "send", "resort"} => at \in {"pick", "quota", "send", "resort"},
           at' \in {"quota", "send"} /\ ~healthy => at \in {"quota", "send"}
    PROVE  RefusedOK'
BY DEF RefusedOK

LEMMA SendAgainRefused ==
    ASSUME UNCHANGED healthy, fresh' \in {TRUE, FALSE}, NEW b, NEW p, NEW r, NEW x, NEW y, NEW z,
           SendAgain(b, p, r, [send |-> x, open |-> y, pump |-> z])
    PROVE  RefusedOK'
<1>1. excluded' = [send |-> x, open |-> y, pump |-> z] /\ at' = "pick" /\ refused' = {}
    BY DEF SendAgain
<1> QED BY <1>1 DEF SendAgain, RefusedOK

Steady == UNCHANGED <<healthy, list, fresh, account>>

LEMMA EndRefused == ASSUME RefusedOK, Steady, NEW how, End(how) PROVE RefusedOK'
BY SameRefused DEF End, Steady, loops

LEMMA ReturnRefused ==
    ASSUME RefusedOK, UNCHANGED <<healthy, list, account>>, fresh' \in {fresh, FALSE}, NEW e, Return(e)
    PROVE  RefusedOK'
BY SameRefused DEF Return

LEMMA NextBridgeRefused == ASSUME RefusedOK, Steady, NextBridge PROVE RefusedOK'
<1>1. fresh' \in {TRUE, FALSE}
    BY DEF RefusedOK, Steady
<1> QED BY <1>1, SendAgainRefused DEF NextBridge, Steady

LEMMA PumpFailedRefused == ASSUME RefusedOK, Steady, PumpFailed PROVE RefusedOK'
BY NextBridgeRefused, EndRefused DEF PumpFailed

LEMMA RereadRefused == ASSUME RefusedOK, Steady, NEW e, Reread(e) PROVE RefusedOK'
<1>1. fresh' \in {TRUE, FALSE}
    BY DEF RefusedOK, Steady
<1>2. CASE round + 1 < Rounds
    BY <1>1, <1>2, SendAgainRefused DEF Reread, Steady
<1>3. CASE ~(round + 1 < Rounds)
    BY <1>3, ReturnRefused DEF Reread, Steady
<1> QED BY <1>2, <1>3

LEMMA ReopenRefused == ASSUME RefusedOK, Steady, Reopen PROVE RefusedOK'
<1>1. fresh' \in {TRUE, FALSE}
    BY DEF RefusedOK, Steady
<1> QED BY <1>1, SendAgainRefused DEF Reopen, Steady

\* The refused account joins the excluded ones before the next pick.
LEMMA NextAttemptRefused ==
    ASSUME RefusedOK, UNCHANGED <<healthy, list, account>>, at = "send",
           NEW e, NEW r, r \subseteq {account}, NextAttempt(e, r),
           fresh' = FALSE \/ (r = {} /\ fresh' = fresh)
    PROVE  RefusedOK'
<1>1. CASE attempt = MaxRetry + 1
    BY <1>1 DEF NextAttempt, RefusedOK
<1>2. CASE attempt # MaxRetry + 1
    <2>1. at' = "pick" /\ refused' = refused \cup r
        BY <1>2 DEF NextAttempt
    <2>2. excluded' = [send |-> excluded.send \cup {account}, open |-> excluded.open,
                       pump |-> excluded.pump]
        BY <1>2 DEF NextAttempt, RefusedOK
    <2> QED BY <2>1, <2>2 DEF RefusedOK
<1> QED BY <1>1, <1>2

LEMMA InitRefused == Init => RefusedOK
BY DEF Init, RefusedOK

LEMMA NextRefused == RefusedOK /\ [Next]_vars => RefusedOK'
<1> SUFFICES ASSUME RefusedOK, [Next]_vars PROVE RefusedOK'
    OBVIOUS
<1>1. UNCHANGED healthy
    BY FixedMode DEF fixed
<1>2. CASE PickAccount
    <2>1. at = "pick" /\ at' = "quota" /\ UNCHANGED <<refused, excluded>>
        BY <1>2 DEF PickAccount
    <2>2. CASE UsesRecent
        BY <1>1, <1>2, <2>1, <2>2 DEF PickAccount, RefusedOK, UsesRecent, WantsRecent
    <2>3. CASE ~UsesRecent
        <3>1. ~(Accounts \subseteq Excluded) /\ account' \in ListFor
            BY <1>2, <2>3 DEF PickAccount, Pickable
        <3>2. list' = ListFor /\ fresh' = TRUE
            BY <1>2, <2>3, <3>1 DEF PickAccount
        <3>3. ListFor \cap refused = {}
            BY <2>1 DEF ListFor, Excluded, RefusedOK
        <3> QED BY <1>1, <2>1, <3>1, <3>2, <3>3 DEF RefusedOK
    <2> QED BY <2>2, <2>3
<1>3. CASE PickFails
    <2>1. /\ at = "pick" /\ at' \in {"failed", "resort"} /\ UNCHANGED <<refused, excluded, account>>
          /\ (list' = list /\ fresh' = fresh) \/ (list' = {} /\ fresh' = TRUE)
        BY <1>3 DEF PickFails, Return
    <2> QED BY <1>1, <2>1 DEF RefusedOK
<1>4. CASE QuotaRejects
    <2>1. excluded' = [send |-> excluded.send \cup {account}, open |-> excluded.open,
                       pump |-> excluded.pump]
        BY <1>4 DEF QuotaRejects, RefusedOK
    <2>2. at = "quota" /\ at' \in {"pick", "resort"} /\ UNCHANGED <<refused, list, fresh, account>>
        BY <1>4 DEF QuotaRejects, pool
    <2> QED BY <1>1, <2>1, <2>2 DEF RefusedOK
<1>5. CASE QuotaPasses
    BY <1>1, <1>5, SameRefused DEF QuotaPasses, pool
<1>6. CASE AttemptsEnd
    BY <1>1, <1>6, SameRefused DEF AttemptsEnd, pool
<1>7. CASE Resort
    <2>1. at = "resort" /\ UNCHANGED <<refused, excluded, list, fresh>>
        BY <1>7 DEF Resort, Return, pool
    <2>2. at' = "failed" \/ (at' = "send" /\ healthy)
        BY <1>7 DEF Resort, Return
    <2> QED BY <1>1, <2>1, <2>2 DEF RefusedOK
<1>8. CASE StatusError
    <2>1. at = "send" /\ UNCHANGED <<list, account>> /\ fresh' = FALSE
        BY <1>8 DEF StatusError, Invalidate
    <2>2. CASE Return("final")
        BY <1>1, <2>1, <2>2, ReturnRefused
    <2>3. CASE NextAttempt("status", {account})
        BY <1>1, <2>1, <2>3, NextAttemptRefused
    <2> QED BY <1>8, <2>2, <2>3 DEF StatusError
<1>9. CASE NetworkError
    <2>1. at = "send" /\ UNCHANGED <<list, account, fresh>>
        BY <1>9 DEF NetworkError
    <2>2. PICK e : NextAttempt(e, {})
        BY <1>9 DEF NetworkError
    <2> QED BY <1>1, <2>1, <2>2, NextAttemptRefused
<1>10. CASE Sent \/ FirstBytes
    <2>1. Steady /\ UNCHANGED <<refused, excluded>> /\ at' \in {"first", "read"}
        BY <1>1, <1>10 DEF Sent, FirstBytes, pool, Steady
    <2> QED BY <2>1, SameRefused DEF Steady
<1>11. CASE FirstReadFails
    <2>1. Steady
        BY <1>1, <1>11 DEF FirstReadFails, Steady
    <2> QED BY <1>11, <2>1, RereadRefused, ReturnRefused DEF FirstReadFails, Steady
<1>12. CASE OpenFailed
    <2>1. Steady
        BY <1>1, <1>12 DEF OpenFailed, Steady, pool
    <2> QED BY <1>12, <2>1, NextBridgeRefused, EndRefused, PumpFailedRefused DEF OpenFailed
<1>13. CASE StreamEnds \/ WholeRead
    <2>1. Steady /\ UNCHANGED <<refused, excluded>> /\ at' = "done"
        BY <1>1, <1>13 DEF StreamEnds, WholeRead, Succeed, Steady
    <2> QED BY <2>1, SameRefused DEF Steady
<1>14. CASE StreamEmpty
    <2>1. Steady
        BY <1>1, <1>14 DEF StreamEmpty, Steady
    <2> QED BY <1>14, <2>1, ReopenRefused, PumpFailedRefused DEF StreamEmpty
<1>15. CASE StreamBreaks
    <2>1. Steady
        BY <1>1, <1>15 DEF StreamBreaks, Steady, pool
    <2> QED BY <1>15, <2>1, PumpFailedRefused, EndRefused DEF StreamBreaks
<1>16. CASE SocketEmpty
    <2>1. Steady
        BY <1>1, <1>16 DEF SocketEmpty, Steady, pool
    <2> QED BY <1>16, <2>1, RereadRefused DEF SocketEmpty
<1>17. CASE WholeFails
    <2>1. Steady
        BY <1>1, <1>17 DEF WholeFails, Steady
    <2> QED BY <1>17, <2>1, RereadRefused, ReturnRefused DEF WholeFails, Steady
<1>18. CASE Write \/ Expire \/ Shutdown \/ UNCHANGED vars
    <2>1. /\ UNCHANGED <<healthy, refused, excluded, list, account, at>>
          /\ fresh' \in {fresh, FALSE}
        BY <1>18 DEF Write, Expire, Shutdown, vars, fixed, pool
    <2> QED BY <2>1, SameRefused
<1> QED BY <1>2, <1>3, <1>4, <1>5, <1>6, <1>7, <1>8, <1>9, <1>10, <1>11, <1>12, <1>13, <1>14,
           <1>15, <1>16, <1>17, <1>18 DEF Next, Step

-----------------------------------------------------------------------------
IInv == LoopsOK /\ ClientOK /\ RefusedOK

LEMMA InvHolds == Spec => []IInv
<1>1. Init => IInv
    BY InitLoops, InitClient, InitRefused DEF IInv
<1>2. IInv /\ [Next]_vars => IInv'
    BY NextLoops, NextClient, NextRefused DEF IInv
<1> QED BY <1>1, <1>2, PTL DEF Spec

\* For any accounts and limits: a client is sent bytes of one upstream answer only,
\* and told that it is whole only if that answer ended.
THEOREM NoMixture == Spec => []OneAnswer
<1>1. IInv => OneAnswer
    BY DEF IInv, ClientOK
<1> QED BY <1>1, InvHolds, PTL

\* For any accounts and limits: the account that answered, and no other, is
\* credited, once, when the client has been told of success.
THEOREM RightlyCredited == Spec => []CreditWhereDue
<1>1. IInv => CreditWhereDue
    BY DEF IInv, ClientOK
<1> QED BY <1>1, InvHolds, PTL

\* For any accounts and limits: no loop leaves a body open.
THEOREM NothingLeaks == Spec => []OneBodyOpen
<1>1. IInv => OneBodyOpen
    BY DEF IInv, ClientOK, OneBodyOpen
<1> QED BY <1>1, InvHolds, PTL

\* For any accounts and limits: without enable-healthy-retry no sendWithRetry asks
\* an account again that has answered it with an error status.
THEOREM RefusedStayOut == Spec => []RefusedNotAsked
<1>1. IInv => RefusedNotAsked
    BY DEF IInv, RefusedOK, RefusedNotAsked
<1> QED BY <1>1, InvHolds, PTL

-----------------------------------------------------------------------------
\* Where a request stands within one attempt.
Stage(place) ==
    CASE place = "pick" -> 0 [] place = "quota" -> 1 [] place = "resort" -> 2
      [] place = "send" -> 3 [] place = "first" -> 4 [] place = "read" -> 5
      [] place = "failed" -> 6 [] place = "done" -> 7

\* The step goes forward: an outer loop goes round, or it stays and an inner one does.
WithinAttempt == reselect' > reselect \/ (reselect' = reselect /\ Stage(at') > Stage(at))
WithinRound == attempt' > attempt \/ (attempt' = attempt /\ WithinAttempt)
WithinPump == round' > round \/ (round' = round /\ WithinRound)
WithinBridge == pump' > pump \/ (pump' = pump /\ WithinPump)
GoesForward == bridge' > bridge \/ (bridge' = bridge /\ WithinBridge)

LEMMA StageForward ==
    ASSUME UNCHANGED loops, Stage(at') > Stage(at), LoopsOK
    PROVE  GoesForward
BY DEF loops, GoesForward, WithinBridge, WithinPump, WithinRound, WithinAttempt

LEMMA Stages ==
    /\ Stage("pick") = 0 /\ Stage("quota") = 1 /\ Stage("resort") = 2 /\ Stage("send") = 3
    /\ Stage("first") = 4 /\ Stage("read") = 5 /\ Stage("failed") = 6 /\ Stage("done") = 7
BY DEF Stage

LEMMA EndForward ==
    ASSUME LoopsOK, at # "done", NEW how, End(how)
    PROVE  GoesForward
BY StageForward, Stages DEF End, LoopsOK, Places

LEMMA NextBridgeForward == ASSUME LoopsOK, NextBridge PROVE GoesForward
BY LoopTypes DEF NextBridge, SendAgain, LoopsOK, LoopsBounded, GoesForward

LEMMA PumpFailedForward == ASSUME LoopsOK, at # "done", PumpFailed PROVE GoesForward
BY NextBridgeForward, EndForward DEF PumpFailed

LEMMA ReturnForward ==
    ASSUME LoopsOK, at \notin {"done", "failed"}, NEW e, Return(e)
    PROVE  GoesForward
BY StageForward, Stages DEF Return, LoopsOK, Places

LEMMA RereadForward ==
    ASSUME LoopsOK, at \notin {"done", "failed"}, NEW e, Reread(e)
    PROVE  GoesForward
<1>1. CASE round + 1 < Rounds
    BY <1>1, LoopTypes DEF Reread, SendAgain, LoopsOK, LoopsBounded, GoesForward, WithinBridge, WithinPump
<1>2. CASE ~(round + 1 < Rounds)
    BY <1>2, ReturnForward DEF Reread
<1> QED BY <1>1, <1>2

LEMMA NextAttemptForward ==
    ASSUME LoopsOK, at = "send", NEW e, NEW r, NextAttempt(e, r)
    PROVE  GoesForward
<1>1. CASE attempt = MaxRetry + 1
    BY <1>1, StageForward, Stages DEF NextAttempt
<1>2. CASE attempt # MaxRetry + 1
    BY <1>2, LoopTypes DEF NextAttempt, LoopsOK, LoopsBounded, GoesForward, WithinBridge, WithinPump,
       WithinRound
<1> QED BY <1>1, <1>2

LEMMA StepForward == LoopsOK /\ Step => GoesForward
<1> SUFFICES ASSUME LoopsOK, Step PROVE GoesForward
    OBVIOUS
<1>1. CASE PickAccount \/ QuotaPasses \/ AttemptsEnd \/ Sent \/ FirstBytes
    <2>1. UNCHANGED loops
        BY <1>1 DEF PickAccount, QuotaPasses, AttemptsEnd, Sent, FirstBytes
    <2>2. <<at, at'>> \in {<<"pick", "quota">>, <<"quota", "send">>, <<"pick", "resort">>,
                           <<"send", "first">>, <<"send", "read">>, <<"first", "read">>}
        BY <1>1 DEF PickAccount, QuotaPasses, AttemptsEnd, Sent, FirstBytes
    <2>3. Stage(at') > Stage(at)
        BY <2>2, Stages
    <2> QED BY <2>1, <2>3, StageForward
<1>2. CASE PickFails
    <2>1. UNCHANGED loops /\ at = "pick" /\ at' \in {"failed", "resort"}
        BY <1>2 DEF PickFails, Return, loops
    <2>2. Stage(at') > Stage(at)
        BY <2>1, Stages
    <2> QED BY <2>1, <2>2, StageForward
<1>3. CASE QuotaRejects
    BY <1>3 DEF QuotaRejects, LoopsOK, LoopsBounded, GoesForward, WithinBridge, WithinPump, WithinRound,
       WithinAttempt
<1>4. CASE Resort
    <2>1. at = "resort" /\ UNCHANGED <<bridge, pump, round, reselect>>
        BY <1>4 DEF Resort, Return, loops
    <2>2. CASE at' = "send" /\ attempt' = MaxRetry + 1
        <3>1. attempt' > attempt \/ attempt' = attempt
            BY <2>2, LoopTypes DEF LoopsOK, LoopsBounded
        <3> QED BY <2>1, <2>2, <3>1, Stages DEF GoesForward, WithinBridge, WithinPump, WithinRound,
               WithinAttempt
    <2>3. CASE \E e : Return(e)
        BY <2>1, <2>3, ReturnForward
    <2> QED BY <1>4, <2>2, <2>3 DEF Resort
<1>5. CASE StatusError
    BY <1>5, ReturnForward, NextAttemptForward DEF StatusError
<1>6. CASE NetworkError
    BY <1>6, NextAttemptForward DEF NetworkError
<1>7. CASE FirstReadFails
    BY <1>7, RereadForward, ReturnForward DEF FirstReadFails
<1>8. CASE OpenFailed
    BY <1>8, NextBridgeForward, EndForward, PumpFailedForward DEF OpenFailed
<1>9. CASE StreamEnds \/ WholeRead
    BY <1>9, StageForward, Stages DEF StreamEnds, WholeRead, Succeed
<1>10. CASE StreamEmpty
    <2>1. CASE Reopen
        BY <2>1, LoopTypes DEF Reopen, SendAgain, LoopsOK, LoopsBounded, GoesForward, WithinBridge
    <2>2. CASE PumpFailed
        BY <1>10, <2>2, PumpFailedForward DEF StreamEmpty
    <2> QED BY <1>10, <2>1, <2>2 DEF StreamEmpty
<1>11. CASE StreamBreaks
    BY <1>11, PumpFailedForward, EndForward DEF StreamBreaks
<1>12. CASE SocketEmpty \/ WholeFails
    BY <1>12, RereadForward, ReturnForward DEF SocketEmpty, WholeFails
<1> QED BY <1>1, <1>2, <1>3, <1>4, <1>5, <1>6, <1>7, <1>8, <1>9, <1>10, <1>11, <1>12 DEF Step

\* For any accounts and limits the five loops keep their counters within bounds
\* and no step turns back: so a request takes a bounded number of them.
THEOREM NeverTurnsBack == Spec => []LoopsBounded /\ [][Step => GoesForward]_vars
<1>1. IInv => LoopsBounded
    BY DEF IInv, LoopsOK
<1>2. IInv /\ [Next]_vars => [Step => GoesForward]_vars
    BY StepForward DEF IInv
<1> QED BY <1>1, <1>2, InvHolds, PTL DEF Spec

=============================================================================
