----------------------------- MODULE MCWebFront -----------------------------
(***************************************************************************)
(* A small instance of WebFront.  The limiter and the browsers share no    *)
(* variable but the order of the steps, so the instance lets the requests  *)
(* of the limiter run only while no browser is connected and the hub has   *)
(* done nothing: the sum of the two state spaces, not their product.       *)
(***************************************************************************)
EXTENDS WebFront

mc_Browsing == issued > 0 \/ changes # 1 \/ reload # "idle" \/ \E s \in Sockets : socket[s] # NoSocket
mc_Guessing == guesses # <<>> \/ basic # {}

mc_Next == Next /\ ~(mc_Browsing /\ mc_Guessing)'

mc_Spec == Init /\ [][mc_Next]_vars /\ Fairness
=============================================================================
