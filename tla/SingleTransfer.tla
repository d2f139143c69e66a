--------------------------- MODULE SingleTransfer ---------------------------
(***************************************************************************)
(* What the code promises wherever it moves money it owes                  *)
(* (docs/BUSINESS_FLOW.md section 11: a transfer of unknown result is not  *)
(* repeated; sendFee and processCutoffPayouts in management/service.go,    *)
(* walletOperation in user/wallet.go).  An obligation is written down with *)
(* its amount, and marked, before the provider is called, which moves it   *)
(* at most once; it is recorded as paid only when it was; and what was     *)
(* given up, to a review or as failed, is never tried again.  Who does it, *)
(* and how many try, is left open.                                         *)
(***************************************************************************)
EXTENDS Naturals

CONSTANT Obligations

VARIABLES
  book,   \* what the database says of the obligation
  due,    \* its amount, fixed once it is noted
  paid    \* how often the provider has moved it

Init ==
  /\ book = [o \in Obligations |-> "absent"]
  /\ due  = [o \in Obligations |-> 0]
  /\ paid = [o \in Obligations |-> 0]

Turns(os, status) == book' = [o \in Obligations |-> IF o \in os THEN status ELSE book[o]]

\* Several obligations may be noted in one transaction, each with its amount; the
\* note may be the mark as well.
Note(os, status) ==
  /\ \A o \in os : book[o] = "absent"
  /\ Turns(os, status)
  /\ due' \in [Obligations -> Nat]
  /\ \A o \in Obligations \ os : due'[o] = due[o]
  /\ UNCHANGED paid

Send(o) ==
  /\ book[o] = "noted"
  /\ Turns({o}, "sent")
  /\ UNCHANGED <<due, paid>>

\* Giving up stops nobody who is on the way to the provider.
Pay(o) ==
  /\ book[o] \in {"sent", "abandoned"}
  /\ paid[o] = 0
  /\ paid' = [paid EXCEPT ![o] = 1]
  /\ UNCHANGED <<book, due>>

\* An amount of nothing needs no transfer.
Record(o) ==
  /\ \/ book[o] = "sent" /\ paid[o] = 1
     \/ book[o] = "noted" /\ due[o] = 0
  /\ Turns({o}, "recorded")
  /\ UNCHANGED <<due, paid>>

GiveUp(os) ==
  /\ \A o \in os : book[o] = "sent"
  /\ Turns(os, "abandoned")
  /\ UNCHANGED <<due, paid>>

Next ==
  \/ \E os \in SUBSET Obligations :
       GiveUp(os) \/ \E status \in {"noted", "sent"} : Note(os, status)
  \/ \E o \in Obligations : Send(o) \/ Pay(o) \/ Record(o)

Spec == Init /\ [][Next]_<<book, due, paid>>
=============================================================================
