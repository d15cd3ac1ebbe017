-------------------------- MODULE CallDisposition --------------------------
(***************************************************************************)
(* What the proxy promises about the tool calls of a model: a call is      *)
(* carried out by the proxy, or handed to the client, or given up with the *)
(* whole request; never two of these.  Calls come in turns: the proxy      *)
(* takes the next turn once the one before it is carried out.              *)
(***************************************************************************)
CONSTANT Calls

VARIABLES taken,    \* calls the proxy took on
          executed, \* those of them it has carried out
          handed,   \* calls handed to the client
          over      \* the request has its reply

vars == <<taken, executed, handed, over>>

Init == taken = {} /\ executed = {} /\ handed = {} /\ over = FALSE

Take ==
    /\ ~over /\ taken = executed
    /\ taken' \in SUBSET Calls /\ taken \subseteq taken'
    /\ UNCHANGED <<executed, handed, over>>

Execute(call) ==
    /\ ~over /\ call \in taken \ executed
    /\ executed' = executed \cup {call}
    /\ UNCHANGED <<taken, handed, over>>

HandOver ==
    /\ ~over
    /\ handed' \in SUBSET Calls /\ handed' \cap taken = {}
    /\ over' = TRUE
    /\ UNCHANGED <<taken, executed>>

GiveUp == ~over /\ over' = TRUE /\ UNCHANGED <<taken, executed, handed>>

Next == Take \/ HandOver \/ GiveUp \/ \E call \in Calls : Execute(call)

Spec == Init /\ [][Next]_vars
=============================================================================
