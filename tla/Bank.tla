-------------------------------- MODULE Bank --------------------------------
(***************************************************************************)
(* What the economy promises: gold moves in one step, from or to an        *)
(* account that stays solvent, and the step enters it in the book.  Only   *)
(* the dice move gold that no book enters, one account at a time, and such *)
(* a roll is counted.                                                      *)
(***************************************************************************)
EXTENDS Integers, Sequences

CONSTANTS Accounts

VARIABLES balance, book, rolls

Init ==
  /\ balance \in [Accounts -> Nat]
  /\ book = <<>>
  /\ rolls = 0

Move(a) ==
  LET amount == balance'[a] - balance[a] IN
  /\ amount # 0
  /\ balance'[a] \in Nat
  /\ balance' = [balance EXCEPT ![a] = @ + amount]
  /\ book' = Append(book, [agent |-> a, amount |-> amount])
  /\ UNCHANGED rolls

Roll(a) ==
  /\ balance'[a] \in Nat
  /\ balance' = [balance EXCEPT ![a] = balance'[a]]
  /\ rolls' = rolls + 1
  /\ UNCHANGED book

Next == \E a \in Accounts : Move(a) \/ Roll(a)

Spec == Init /\ [][Next]_<<balance, book, rolls>>
=============================================================================
