----------------------------- MODULE Directory ------------------------------
(***************************************************************************)
(* What the registry promises to those who look contracts up, without      *)
(* slots lists, generations, pending registrations or a read view.         *)
(*                                                                         *)
(* Every seat is empty or holds one offer: a bundle provides a contract    *)
(* from one version of its code.  A bundle's offers change all at once:    *)
(* they are made together, replaced together by those of another version,  *)
(* and withdrawn together.  A ticket for a seat is good until that seat is *)
(* given up, and never becomes good again.                                 *)
(***************************************************************************)
CONSTANTS Seat, Bundle, Contract, Version, NoOffer, NoTicket

VARIABLES offer, ticket

vars == <<offer, ticket>>

Offer == [bundle : Bundle, contract : Contract, version : Version]
Ticket == [seat : Seat, bundle : Bundle, contract : Contract, good : BOOLEAN]

SeatsOf(b) == {s \in Seat : offer[s] # NoOffer /\ offer[s].bundle = b}

\* Bundle b gives up the seats of S, keeps the rest for the same contracts,
\* and takes empty seats, everything from version v on.
Change(b, S, v) ==
  /\ offer' \in [Seat -> Offer \cup {NoOffer}]
  /\ \A s \in Seat \ SeatsOf(b) :
       \/ offer'[s] = offer[s]
       \/ offer[s] = NoOffer /\ offer'[s].bundle = b /\ offer'[s].version = v
  /\ \A s \in S : offer'[s] = NoOffer
  /\ \A s \in SeatsOf(b) \ S : offer'[s] = [offer[s] EXCEPT !.version = v]

\* A ticket for one of the seats of S is no longer good; the holder of a bad
\* ticket may drop it.
Revoke(S) ==
  \/ UNCHANGED ticket /\ (ticket # NoTicket /\ ticket.good => ticket.seat \notin S)
  \/ /\ ticket # NoTicket
     /\ ticket.good => ticket.seat \in S
     /\ ticket' \in {NoTicket, [ticket EXCEPT !.good = FALSE]}

\* A load: a bundle that offers nothing makes all its offers.
MakeOffers(b) ==
  /\ SeatsOf(b) = {}
  /\ \E v \in Version : Change(b, {}, v)
  /\ UNCHANGED ticket

\* A reload: contracts both versions provide keep their seats as far as there
\* are as many of them; a seat is given up only if no other one is taken for
\* its contract.
ReplaceOffers(b) ==
  \E S \in SUBSET SeatsOf(b), v \in Version :
    /\ Change(b, S, v)
    /\ \A s \in S, r \in Seat :
         offer[r] = NoOffer /\ offer'[r] # NoOffer => offer'[r].contract # offer[s].contract
    /\ Revoke(S)

\* An unload.
WithdrawOffers(b) ==
  /\ offer' = [s \in Seat |-> IF s \in SeatsOf(b) THEN NoOffer ELSE offer[s]]
  /\ Revoke(SeatsOf(b))

\* find: a ticket for any seat that holds an offer.
TakeTicket(s) ==
  /\ ticket = NoTicket
  /\ offer[s] # NoOffer
  /\ ticket' = [seat |-> s, bundle |-> offer[s].bundle, contract |-> offer[s].contract,
                good |-> TRUE]
  /\ UNCHANGED offer

Init == offer = [s \in Seat |-> NoOffer] /\ ticket = NoTicket

Next ==
  \/ \E b \in Bundle : MakeOffers(b) \/ ReplaceOffers(b) \/ WithdrawOffers(b)
  \/ \E s \in Seat : TakeTicket(s)

Spec == Init /\ [][Next]_vars
=============================================================================
