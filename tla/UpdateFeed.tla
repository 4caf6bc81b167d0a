----------------------------- MODULE UpdateFeed -----------------------------
(***************************************************************************)
(* What the realtime feed promises a browser (docs/architecture.md,        *)
(* "Realtime updates"): signals of committed events of the one project it  *)
(* subscribed to, each at most once and in the order of the commits.  It   *)
(* is not a durable stream: any of them may be missing.                    *)
(***************************************************************************)
EXTENDS Integers, Sequences

CONSTANTS Browser, Subject, Nothing

VARIABLES
  happened,  \* happened[s]: how many events of s were committed
  watches,   \* watches[b]: what b subscribed to
  told       \* told[b]: the events b was told of

feedVars == <<happened, watches, told>>

Init ==
  /\ happened = [s \in Subject |-> 0]
  /\ watches = [b \in Browser |-> Nothing]
  /\ told = [b \in Browser |-> <<>>]

Happen(s) ==
  /\ happened' = [happened EXCEPT ![s] = @ + 1]
  /\ UNCHANGED <<watches, told>>

Watch(b, s) ==
  /\ watches[b] = Nothing
  /\ watches' = [watches EXCEPT ![b] = s]
  /\ UNCHANGED <<happened, told>>

Tell(b) ==
  /\ watches[b] # Nothing
  /\ \E n \in 1 .. happened[watches[b]] :
       /\ \A i \in 1 .. Len(told[b]) : told[b][i] < n
       /\ told' = [told EXCEPT ![b] = Append(@, n)]
  /\ UNCHANGED <<happened, watches>>

Next ==
  \/ \E s \in Subject : Happen(s)
  \/ \E b \in Browser : Tell(b) \/ \E s \in Subject : Watch(b, s)

Spec == Init /\ [][Next]_feedVars
=============================================================================
