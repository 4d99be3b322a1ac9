---------------------------- MODULE BlockDevice -----------------------------
(***************************************************************************)
(* What a block device driver promises its caller: one request at a time,  *)
(* carried out at most once between the call and the return, and success   *)
(* reported exactly if it was carried out.                                 *)
(***************************************************************************)
CONSTANTS Sectors,     \* of the device
          Asked,       \* those that callers ask for
          Contents,    \* what a sector can hold
          NoRequest

VARIABLES sectors,     \* what the device holds
          request,     \* the request under way, or NoRequest
          answer       \* of the last one: whether it succeeded, and its buffer

vars == <<sectors, request, answer>>

Init == /\ sectors \in [Sectors -> Contents]
        /\ request = NoRequest
        /\ answer = [ok |-> TRUE, data |-> CHOOSE c \in Contents : TRUE]

Call(write, s, c) ==
    /\ request = NoRequest
    /\ request' = [write |-> write, sector |-> s, data |-> c, outcome |-> "none"]
    /\ UNCHANGED <<sectors, answer>>

Perform ==
    /\ request # NoRequest /\ request.outcome = "none" /\ request.sector \in Sectors
    /\ IF request.write
       THEN /\ sectors' = [sectors EXCEPT ![request.sector] = request.data]
            /\ request' = [request EXCEPT !.outcome = "ok"]
       ELSE /\ request' = [request EXCEPT !.outcome = "ok", !.data = sectors[request.sector]]
            /\ UNCHANGED sectors
    /\ UNCHANGED answer

Refuse ==
    /\ request # NoRequest /\ request.outcome = "none"
    /\ request' = [request EXCEPT !.outcome = "error"]
    /\ UNCHANGED <<sectors, answer>>

Return ==
    /\ request # NoRequest /\ request.outcome # "none"
    /\ answer' = [ok |-> request.outcome = "ok", data |-> request.data]
    /\ request' = NoRequest
    /\ UNCHANGED sectors

Next == \/ \E write \in BOOLEAN, s \in Asked, c \in Contents : Call(write, s, c)
        \/ Perform \/ Refuse \/ Return

Spec == Init /\ [][Next]_vars
=============================================================================
