---------------------------- MODULE SessionLease ----------------------------
(***************************************************************************)
(* What a session promises: it is issued once, requests may run under it   *)
(* while it is live, and when it ends, however it ends, it is over.  An    *)
(* ended session accepts no request and never comes back.  A request that  *)
(* was accepted before the end may still be running after it.              *)
(***************************************************************************)
CONSTANTS
    Ids,        \* session ids
    Workers,    \* threads that serve requests
    NoSession   \* the request runs under no session

VARIABLES
    state,      \* state[s]: "unused", "live" or "ended"
    holder      \* holder[w]: the session w's request was accepted under

leaseVars == <<state, holder>>

LeaseInit ==
    /\ state = [s \in Ids |-> "unused"]
    /\ holder = [w \in Workers |-> NoSession]

Issue(s) ==
    /\ state[s] = "unused"
    /\ state' = [state EXCEPT ![s] = "live"]
    /\ UNCHANGED holder

Accept(w, s) ==
    /\ state[s] = "live"
    /\ holder[w] = NoSession
    /\ holder' = [holder EXCEPT ![w] = s]
    /\ UNCHANGED state

(***************************************************************************)
(* Some live sessions end and some requests are over, together: a logout   *)
(* ends its own session, a restart ends everything.                        *)
(***************************************************************************)
Close(S, R) ==
    /\ \A s \in S : state[s] = "live"
    /\ state' = [s \in Ids |-> IF s \in S THEN "ended" ELSE state[s]]
    /\ holder' = [w \in Workers |-> IF w \in R THEN NoSession ELSE holder[w]]

LeaseNext ==
    \/ \E s \in Ids : Issue(s)
    \/ \E w \in Workers, s \in Ids : Accept(w, s)
    \/ \E S \in SUBSET Ids, R \in SUBSET Workers : Close(S, R)

LeaseSpec == LeaseInit /\ [][LeaseNext]_leaseVars
=============================================================================
