------------------------------ MODULE CasRegister ------------------------------
(* What the stores of the education data promise their callers: the file is a   *)
(* register that changes only from the content a caller expected to the content *)
(* it asked for, and an answer says what happened to the file.                  *)
CONSTANT Procs

VARIABLES
    file,     \* the content of the file
    request   \* what each process has asked for

At(p, stage) == request[p].at = stage

Register(p, stage) ==
    request' = [request EXCEPT ![p].at = stage]

Start == \A p \in Procs : At(p, "idle")

\* A process asks for a new content on the content it expects.
Ask(p) ==
    /\ At(p, "idle")
    /\ \A q \in Procs \ {p} : request'[q] = request[q]
    /\ request'[p].at = "pending"
    /\ UNCHANGED file

\* The one instant at which the request takes effect.
Apply(p) ==
    /\ At(p, "pending")
    /\ file = request[p].expected
    /\ file' = request[p].new
    /\ Register(p, "applied")

\* "unconfirmed" admits that the new content may be there; every other refusal
\* says that the file was left alone.
Answer(p, result) ==
    /\ \/ At(p, "applied") /\ result \in {"saved", "unconfirmed"}
       \/ At(p, "pending") /\ result \in {"busy", "conflict", "failed"}
    /\ request' = [request EXCEPT ![p].at = "answered", ![p].result = result]
    /\ UNCHANGED file

\* The caller has read the answer, or has died.
Forget(p) ==
    /\ \A q \in Procs \ {p} : request'[q] = request[q]
    /\ request'[p].at = "idle"
    /\ UNCHANGED file

Step ==
    \E p \in Procs :
        \/ Ask(p) \/ Apply(p) \/ Forget(p)
        \/ \E result \in {"saved", "unconfirmed", "busy", "conflict", "failed"} : Answer(p, result)

Spec == Start /\ [][Step]_<<file, request>>
=============================================================================
