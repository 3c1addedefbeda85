---------------------------- MODULE OneTimeTicket ----------------------------
(***************************************************************************)
(* What the bookmarklet sessions promise, without clocks, tables or        *)
(* requests (backend/internal/bmshort): a ticket is issued to a holder who *)
(* holds no other, is redeemed at most once, or lapses, and never comes    *)
(* back.                                                                   *)
(***************************************************************************)
CONSTANTS
    Id,         \* the tickets
    Holder,     \* those they are issued to
    NoHolder    \* the holder of a ticket that nobody holds

VARIABLES
    ticket,     \* per ticket: "new", "held", "redeemed" or "lapsed"
    holder      \* per ticket, who holds it

ticketVars == <<ticket, holder>>

TicketInit ==
    /\ ticket = [i \in Id |-> "new"]
    /\ holder = [i \in Id |-> NoHolder]

\* Any of the held tickets S lapse, and then in the same step ...
Without(S, state) == [i \in Id |-> IF i \in S THEN "lapsed" ELSE state[i]]

Lapse(S) ==
    /\ ticket' = Without(S, ticket)
    /\ holder' = [i \in Id |-> IF i \in S THEN NoHolder ELSE holder[i]]

\* ... one may be issued to a holder who is left with none,
Issue(S, i, k) ==
    /\ ticket[i] = "new"
    /\ \A j \in Id \ S : holder[j] # k
    /\ ticket' = [Without(S, ticket) EXCEPT ![i] = "held"]
    /\ holder' = [j \in Id |-> IF j = i THEN k ELSE IF j \in S THEN NoHolder ELSE holder[j]]

\* ... or one of the others may be redeemed.
Redeem(S, i) ==
    /\ ticket[i] = "held" /\ i \notin S
    /\ ticket' = [Without(S, ticket) EXCEPT ![i] = "redeemed"]
    /\ holder' = [j \in Id |-> IF j \in S \cup {i} THEN NoHolder ELSE holder[j]]

TicketNext ==
    \E S \in SUBSET {i \in Id : ticket[i] = "held"} :
        \/ Lapse(S)
        \/ \E i \in Id, k \in Holder : Issue(S, i, k)
        \/ \E i \in Id : Redeem(S, i)

TicketSpec == TicketInit /\ [][TicketNext]_ticketVars
=============================================================================
