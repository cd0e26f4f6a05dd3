---------------------------- MODULE RunCustody ----------------------------
(***************************************************************************)
(* What a durable run promises whoever shares its remote: the run is held  *)
(* by one host at a time, what the remote says is completed stays so, and  *)
(* onto a shared target it lands once, by the host that holds it, which    *)
(* then keeps it.  DurableRun is shown to implement this.                  *)
(***************************************************************************)
CONSTANTS
    Hosts,   \* the hosts that may run it
    NoHost,  \* nobody
    Tasks    \* its board's tasks

VARIABLES
    holder,     \* the host that holds the run
    completed,  \* tasks completed for good
    landing,    \* its landing has begun
    landed      \* it has landed

vars == <<holder, completed, landing, landed>>

Init ==
    /\ holder = NoHost
    /\ completed = {}
    /\ landing = FALSE
    /\ landed = FALSE

\* The holder publishes progress; the first to publish becomes the holder.
Publish(h) ==
    /\ holder \in {h, NoHost}
    /\ holder' = h
    /\ completed' \in {S \in SUBSET Tasks : completed \subseteq S}
    /\ landing' \in {b \in BOOLEAN : landing => b}
    /\ UNCHANGED landed

\* Another host takes the run over, unless its landing has begun.
Take(h) ==
    /\ holder # NoHost
    /\ ~landing
    /\ holder' = h
    /\ UNCHANGED <<completed, landing, landed>>

Land ==
    /\ landing
    /\ ~landed
    /\ landed' = TRUE
    /\ UNCHANGED <<holder, completed, landing>>

Next == (\E h \in Hosts : Publish(h) \/ Take(h)) \/ Land

Spec == Init /\ [][Next]_vars
=============================================================================
