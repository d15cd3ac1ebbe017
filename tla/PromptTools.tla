---------------------------- MODULE PromptTools ----------------------------
(***************************************************************************)
(* Tool calls written as text (filter.ExtractPromptToolCalls) and the      *)
(* incremental scan of the handlers' promptToolBuffer.  Syms:              *)
(*   "open" <tool_call>   "close" </tool_call>   "think" </think>          *)
(*   "call" a JSON object that names a tool                                *)
(*   "bad"  a balanced JSON object that does not                           *)
(* and others for plain text.  Of the call syntaxes only the tag form is   *)
(* represented: the forms found by regular expressions are left out.       *)
(***************************************************************************)
EXTENDS Naturals, Sequences, FiniteSetsExt

Positions(s, syms) == {i \in DOMAIN s : s[i].sym \in syms}

\* The handler's next block: s starts with an opening tag; the block ends with
\* the nearest closing tag or before the next opening one.  0: still incomplete.
BlockEnd(s) ==
    LET ends == Positions(s, {"close", "think"})
                \cup {i - 1 : i \in Positions(s, {"open"}) \ {1}}
    IN  IF ends = {} THEN 0 ELSE Min(ends)

\* One opening tag, at tag: its JSON object is the first one after it; an object
\* without a name is a call when text stands before it (FuncName{args}).
ExtractAt(tag, acc) ==
    LET s     == acc.clean
        after == {i \in Positions(s, {"call", "bad"}) : i > tag}
        json  == Min(after)
        end   == IF json < Len(s) /\ s[json + 1].sym \in {"close", "think"}
                 THEN json + 1 ELSE json
    IN  IF after = {} \/ (s[json].sym = "bad" /\ json = tag + 1)
        THEN acc
        ELSE [clean |-> SubSeq(s, 1, tag - 1) \o SubSeq(s, end + 1, Len(s)),
              calls |-> <<s[json]>> \o acc.calls]

\* extractToolCallTags goes over the tags from the last to the first.
ExtractPromptToolCalls(s) ==
    LET from[tag \in 1 .. Len(s) + 1] ==
          IF tag > Len(s) THEN [clean |-> s, calls |-> <<>>]
          ELSE IF s[tag].sym = "open" THEN ExtractAt(tag, from[tag + 1])
          ELSE from[tag + 1]
    IN  from[1]
=============================================================================
