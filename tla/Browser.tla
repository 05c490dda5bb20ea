------------------------------- MODULE Browser --------------------------------
(***************************************************************************)
(* What the screens of the dashboard share in one browser tab: the session *)
(* token of lib/auth.ts, the visibility of the tab, and the bound that     *)
(* keeps an exploration finite.  Requests of a screen run concurrently     *)
(* with the user and with each other; every screen keeps its own in flight.*)
(***************************************************************************)
EXTENDS Basics, Naturals, Sequences, FiniteSets, TLC

CONSTANTS
    MaxActs,    \* bound: acts of the user and faults of the network or the API
    MaxFlights  \* bound: requests of one hook in flight at a time

VARIABLES
    token,      \* TRUE while getToken() finds a session token
    visible,    \* document.visibilityState # "hidden"
    acts        \* acts and faults so far

browserVars == <<token, visible, acts>>

\* "spent" of the acts are not there for this behaviour.
BrowserInit(spent) ==
    /\ token = TRUE
    /\ visible = TRUE
    /\ acts = spent

\* The user does something, or a request fails.  Both are finitely many in any
\* behaviour explored; answers, polls and timers are not counted.
Spend ==
    /\ acts < MaxActs
    /\ acts' = acts + 1

\* An act, or a fault, that leaves the session and the tab alone.
Acts == Spend /\ UNCHANGED <<token, visible>>

\* A step of the browser or the network that is no act of the user.
Quiet == UNCHANGED browserVars

\* The user switches to another browser tab or window, and back.
SwitchTab ==
    /\ Spend
    /\ visible' = ~visible
    /\ UNCHANGED token

\* The token goes while the screen stays mounted: clearToken in another tab of
\* the same browser (local storage and cookie are shared).
SignOutElsewhere ==
    /\ token
    /\ Spend
    /\ token' = FALSE
    /\ UNCHANGED visible

\* The members of the finite set S in order, given those ahead of each: as many
\* as its place, less one.
Ranked(S, ahead) ==
    [place \in 1 .. Cardinality(S) |->
       CHOOSE i \in S : Cardinality(ahead[i]) = place - 1]

Put(set, x) == set \cup {x}
Drop(set, x) == set \ {x}
=============================================================================
