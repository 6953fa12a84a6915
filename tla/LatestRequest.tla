---------------------------- MODULE LatestRequest ----------------------------
(* What a user of the analysis service may rely on, without generations,       *)
(* locks or providers: of the analysis calls in progress at most the newest    *)
(* one may come back as a current answer; a later request, an invalidation or  *)
(* a shutdown takes that right away for good.                                  *)
CONSTANT Callers

VARIABLES
    open,      \* callers whose analysis call has not returned
    newest,    \* the open call, if any, that may still be answered as current
    verdict,   \* what the last call of each caller came back as
    shut       \* the service has been told to shut down

lvars == <<open, newest, verdict, shut>>

Verdict == {"none", "current", "stale", "closed"}

LatestTypeOK ==
    /\ open \subseteq Callers
    /\ newest \subseteq open
    /\ verdict \in [Callers -> Verdict]
    /\ shut \in BOOLEAN

LatestInit ==
    /\ open = {}
    /\ newest = {}
    /\ verdict = [c \in Callers |-> "none"]
    /\ shut = FALSE

Request(c) ==
    /\ c \notin open
    /\ ~shut
    /\ open' = open \cup {c}
    /\ newest' = {c}
    /\ verdict' = [verdict EXCEPT ![c] = "none"]
    /\ UNCHANGED shut

Refuse(c) ==
    /\ c \notin open
    /\ shut
    /\ verdict' = [verdict EXCEPT ![c] = "closed"]
    /\ UNCHANGED <<open, newest, shut>>

Supersede ==
    /\ newest' = {}
    /\ UNCHANGED <<open, verdict, shut>>

Finish(c, v) ==
    /\ c \in open
    /\ open' = open \ {c}
    /\ newest' = newest \ {c}
    /\ verdict' = [verdict EXCEPT ![c] = v]
    /\ UNCHANGED shut

AnswerCurrent(c) == ~shut /\ c \in newest /\ Finish(c, "current")
AnswerStale(c)   == c \notin newest /\ Finish(c, "stale")
AnswerClosed(c)  == shut /\ Finish(c, "closed")

Shut ==
    /\ ~shut
    /\ shut' = TRUE
    /\ newest' = {}
    /\ UNCHANGED <<open, verdict>>

LatestNext ==
    \/ Supersede
    \/ Shut
    \/ \E c \in Callers :
          Request(c) \/ Refuse(c) \/ AnswerCurrent(c) \/ AnswerStale(c) \/ AnswerClosed(c)

LatestSpec == LatestInit /\ [][LatestNext]_lvars
=============================================================================
