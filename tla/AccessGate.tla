----------------------------- MODULE AccessGate -----------------------------
(***************************************************************************)
(* What the gateway promises, with none of its machinery: a gate between   *)
(* clients and an upstream.  Some requests are entitled to pass; that is   *)
(* settled when a request arrives.  Only an entitled request is granted    *)
(* passage, only a granted one is sent, once, and only a sent one takes    *)
(* effect, perhaps long after the gate has closed on it.  Nothing is       *)
(* written about a request before the gate closes on it, then at most one  *)
(* line, and nothing afterwards.                                           *)
(***************************************************************************)
EXTENDS Naturals

CONSTANT Requests

VARIABLES
    verdict,    \* "absent", "open", "granted" or "closed", per request
    entitled,   \* the requests that may pass
    effect,     \* "none", "sent" or "executed", per request
    lines       \* number of lines written about each request

gate == <<verdict, entitled, effect, lines>>

Init ==
    /\ verdict = [r \in Requests |-> "absent"]
    /\ entitled = {}
    /\ effect = [r \in Requests |-> "none"]
    /\ lines = [r \in Requests |-> 0]

Decide(r, outcome) == verdict' = [verdict EXCEPT ![r] = outcome]

WriteAtMostOne(r) == lines' = lines \/ lines' = [lines EXCEPT ![r] = @ + 1]

(* A request shows up, and with it whether it may pass. *)
Appear(r) ==
    /\ verdict[r] = "absent"
    /\ entitled' = entitled \/ entitled' = entitled \cup {r}

Arrive(r) ==
    /\ Appear(r)
    /\ Decide(r, "open")
    /\ UNCHANGED <<effect, lines>>

(* The gate may close on anyone at once. *)
TurnAway(r) ==
    /\ Appear(r)
    /\ Decide(r, "closed")
    /\ WriteAtMostOne(r)
    /\ UNCHANGED effect

Grant(r) ==
    /\ verdict[r] = "open"
    /\ r \in entitled
    /\ Decide(r, "granted")
    /\ UNCHANGED <<entitled, effect, lines>>

Send(r) ==
    /\ verdict[r] = "granted"
    /\ effect[r] = "none"
    /\ effect' = [effect EXCEPT ![r] = "sent"]
    /\ UNCHANGED <<verdict, entitled, lines>>

(* The upstream acts on what it was sent, whoever still waits for it. *)
Execute(r) ==
    /\ effect[r] = "sent"
    /\ effect' = [effect EXCEPT ![r] = "executed"]
    /\ UNCHANGED <<verdict, entitled, lines>>

Close(r) ==
    /\ verdict[r] \in {"open", "granted"}
    /\ Decide(r, "closed")
    /\ WriteAtMostOne(r)
    /\ UNCHANGED <<entitled, effect>>

Next ==
    \E r \in Requests :
        Arrive(r) \/ TurnAway(r) \/ Grant(r) \/ Send(r) \/ Execute(r) \/ Close(r)

Spec == Init /\ [][Next]_gate
=============================================================================
