------------------------- MODULE ConcurrencyLimit -------------------------
(***************************************************************************)
(* What the proxy promises about concurrent requests: a request is         *)
(* admitted under a limit, holds at most one slot, and takes a slot of an  *)
(* account only while fewer requests than its limit hold one.  Nothing is  *)
(* said of how the slots are counted.                                      *)
(* This is the abstract specification that ActiveRequests implements.      *)
(***************************************************************************)
EXTENDS Naturals, FiniteSets

CONSTANTS
  Requests,   \* request handlers that may hold a slot
  Accounts,   \* accounts of the pool, by email
  Limits      \* the values max_concurrent_per_account may be configured to

VARIABLES
  holders,    \* holders[a]: the requests that hold a slot of account a
  admitted    \* admitted[r]: the limit request r was last admitted under

Init ==
  /\ holders = [a \in Accounts |-> {}]
  /\ admitted \in [Requests -> Limits]

HoldsNone(r) == \A a \in Accounts : r \notin holders[a]

\* Request r begins, under the limit configured at that moment.
Admit(r, n) ==
  /\ HoldsNone(r)
  /\ admitted' = [admitted EXCEPT ![r] = n]
  /\ UNCHANGED holders

\* Request r takes a slot of account a.
Take(r, a) ==
  /\ HoldsNone(r)
  /\ Cardinality(holders[a]) < admitted[r]
  /\ holders' = [holders EXCEPT ![a] = @ \cup {r}]
  /\ UNCHANGED admitted

\* Request r gives the slot of account a back.
GiveBack(r, a) ==
  /\ r \in holders[a]
  /\ holders' = [holders EXCEPT ![a] = @ \ {r}]
  /\ UNCHANGED admitted

Next ==
  \E r \in Requests :
     \/ \E n \in Limits : Admit(r, n)
     \/ \E a \in Accounts : Take(r, a) \/ GiveBack(r, a)

Spec == Init /\ [][Next]_<<holders, admitted>>

=============================================================================
