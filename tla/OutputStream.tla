---------------------------- MODULE OutputStream ----------------------------
(***************************************************************************)
(* What a new PTY session promises the clients about its live output: the  *)
(* chunks arrive in the order they were read, none twice and none left     *)
(* out, never before the session is announced, and none at all when the    *)
(* session could not be created.                                           *)
(***************************************************************************)
EXTENDS Naturals, Sequences

VARIABLES
  state,   \* of the session: "creating", "announced" or "failed"
  read,    \* number of chunks read from the terminal; chunk n is the n-th
  sent     \* the chunks sent to the clients

vars == <<state, read, sent>>

Init == state = "creating" /\ read = 0 /\ sent = <<>>

Decide(outcome) ==
  /\ state = "creating"
  /\ state' = outcome
  /\ UNCHANGED <<read, sent>>

Read == read' = read + 1 /\ UNCHANGED <<state, sent>>

Send ==
  /\ state = "announced"
  /\ Len(sent) < read
  /\ sent' = Append(sent, Len(sent) + 1)
  /\ UNCHANGED <<state, read>>

Next == Decide("announced") \/ Decide("failed") \/ Read \/ Send

Spec == Init /\ [][Next]_vars

\* Every chunk read is sent, once the session is announced.
FairSpec == Spec /\ WF_vars(Send)
=============================================================================
