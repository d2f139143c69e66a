---------------------------- MODULE BetLifecycle ----------------------------
(***************************************************************************)
(* What the bet ledger promises (ledger.go, comments of PrepareBet and     *)
(* Settle), without sessions, processes or statements: the provider        *)
(* executes only a bet the book has opened; a bet is voided only if it was *)
(* not executed, and is then never executed; a recorded result is the      *)
(* provider's, unless it was assumed from the balance; nothing recorded    *)
(* changes again.                                                          *)
(***************************************************************************)
CONSTANT Bets

VARIABLES
  book,   \* what the ledger says of the bet
  truth   \* what the provider did with it

Results == {"win", "loss"}

Init ==
  /\ book  = [b \in Bets |-> "absent"]
  /\ truth = [b \in Bets |-> "none"]

Open(b) ==
  /\ book[b] = "absent"
  /\ book' = [book EXCEPT ![b] = "open"]
  /\ UNCHANGED truth

\* An assumed result does not stop the provider: the bet may still be on its way.
Execute(b, result) ==
  /\ book[b] \in {"open", "assumed"}
  /\ truth[b] = "none"
  /\ truth' = [truth EXCEPT ![b] = result]
  /\ UNCHANGED book

Void(voided) ==
  /\ \A b \in voided : book[b] = "open" /\ truth[b] = "none"
  /\ book' = [b \in Bets |-> IF b \in voided THEN "void" ELSE book[b]]
  /\ UNCHANGED truth

Record(b) ==
  /\ book[b] = "open"
  /\ truth[b] \in Results
  /\ book' = [book EXCEPT ![b] = truth[b]]
  /\ UNCHANGED truth

Assume(b) ==
  /\ book[b] = "open"
  /\ book' = [book EXCEPT ![b] = "assumed"]
  /\ UNCHANGED truth

Next ==
  \/ \E b \in Bets : Open(b) \/ Record(b) \/ Assume(b)
  \/ \E b \in Bets, result \in Results : Execute(b, result)
  \/ \E voided \in SUBSET Bets : Void(voided)

Spec == Init /\ [][Next]_<<book, truth>>
=============================================================================
