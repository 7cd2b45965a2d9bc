------------------------------- MODULE MCAccounts -------------------------------
(***************************************************************************)
(* A small instance of Accounts for TLC: one address typed in three ways.  *)
(* PostgreSQL makes the same of all three; of the third, in capitals with  *)
(* a sigma at the end, JavaScript makes something else.                    *)
(***************************************************************************)
EXTENDS Accounts, TLC

CONSTANTS nikos, Nikos, NIKOS, other, p, q, t1, t2

MCNormalized == [e \in Emails |-> nikos]
MCLookedUp   == (nikos :> nikos) @@ (Nikos :> nikos) @@ (NIKOS :> other)

MCRequests ==
  {[route |-> "register", email |-> nikos, password |-> q],
   [route |-> "register", email |-> NIKOS, password |-> p],
   [route |-> "login", email |-> Nikos, password |-> p],
   [route |-> "login", email |-> NIKOS, password |-> p]}
===============================================================================
