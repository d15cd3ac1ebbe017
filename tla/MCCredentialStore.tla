-------------------------- MODULE MCCredentialStore --------------------------
(* The set-ups CredentialStore is checked in. *)
EXTENDS CredentialStore

\* With the recovery a credential is disabled, put back and loaded again; without
\* it the user puts new files there, and a token may be renewed twice.
WithRecovery == [recovers |-> TRUE, uploads |-> FALSE, kinds |-> {"loop", "direct"},
                 tokens |-> 2, objects |-> 2]
WithoutRecovery == [recovers |-> FALSE, uploads |-> TRUE, kinds |-> {"loop", "direct"},
                    tokens |-> 3, objects |-> 1]
Both == {WithRecovery, WithoutRecovery}

\* Nothing but refreshes and their saves.
Saves == {[recovers |-> FALSE, uploads |-> FALSE, kinds |-> {"loop"},
           tokens |-> 3, objects |-> 1]}
=============================================================================
