------------------------------- MODULE MCUsers -------------------------------
(***************************************************************************)
(* Users: how they come into an organization, and what they keep for       *)
(* themselves (the schedule of a personal subscription, its price, and     *)
(* their cards).  The four share no state, for an update writes only the   *)
(* columns it is given; every behaviour runs one of them.                  *)
(***************************************************************************)
EXTENDS Members, Calendar, Wallet

VARIABLE topic    \* the part this behaviour runs

usersVars == <<vars, calendarVars, walletVars, topic>>

UsersInit ==
  /\ topic \in {"members", "calendar", "cards", "prices"}
  /\ Init /\ CalendarInit /\ WalletInit

UsersNext ==
  \/ topic = "members" /\ Next /\ UNCHANGED <<calendarVars, walletVars, topic>>
  \/ topic = "calendar" /\ CalendarNext /\ UNCHANGED <<vars, walletVars, topic>>
  \/ topic = "cards" /\ CardsNext /\ UNCHANGED <<vars, calendarVars, topic>>
  \/ topic = "prices" /\ PricesNext /\ UNCHANGED <<vars, calendarVars, topic>>
  \/ topic \in {"cards", "prices"} /\ (\E e \in Editors : Die(e)) /\ UNCHANGED <<vars, calendarVars, topic>>

UsersSpec == UsersInit /\ [][UsersNext]_usersVars
=============================================================================
