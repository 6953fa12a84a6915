----------------------------- MODULE ImportMailbox -----------------------------
(* acs/version2_windows_import_event_mailbox.py: the bounded queue between the  *)
(* file workers and the UI thread.  An event is its serial number and whether  *)
(* it is progress, a lifecycle event (started, finished, cancelled, failed ...) *)
(* or the one event an overflow leaves behind; what it says is left out.       *)
(* The queue has its own lock: each operation is one action, and a delivery    *)
(* holds the lock from the lease to the commit or the rollback.                *)
EXTENDS Integers, SequencesExt

CONSTANTS MaxEvents,   \* max_events, at least four
          MaxPuts      \* bound on the events put in a behaviour

ASSUME MailboxAssumption == MaxEvents \in Nat /\ MaxEvents >= 4 /\ MaxPuts \in Nat

VARIABLES
    events,       \* _events
    overflowed,   \* _overflowed
    puts,         \* events put so far; the next one is number puts + 1
    accepted,     \* lifecycle events put while the mailbox was not overflowed
    delivered     \* events the UI thread has committed

mvars == <<events, overflowed, puts, accepted, delivered>>

Kinds == {"progress", "lifecycle", "overflow"}
Event == [id : Nat, kind : Kinds]

MailboxTypeOK ==
    /\ events \in Seq(Event)
    /\ overflowed \in BOOLEAN
    /\ puts \in Nat
    /\ accepted \subseteq Nat
    /\ delivered \subseteq Event

MailboxInit ==
    /\ events = <<>>
    /\ overflowed = FALSE
    /\ puts = 0
    /\ accepted = {}
    /\ delivered = {}

IsProgress(e) == e.kind = "progress"

ProgressAt(q) == {i \in DOMAIN q : IsProgress(q[i])}

\* New progress replaces the newest progress event that is still queued.
WithoutOldProgress(q, kind) ==
    IF kind = "progress" /\ ProgressAt(q) # {} THEN RemoveAt(q, Max(ProgressAt(q))) ELSE q

EnqueueFirst(q, e) == <<e>> \o q           \* variant: the wrong end of the deque

Enqueue(q, e) == Append(q, e)

DropsOldest(q, e) == Append(Tail(q), e)   \* variant: a full queue forgets its head

\* A full queue fails closed: one event says that the others are gone.
Overflow(q, e) == <<[id |-> e.id, kind |-> "overflow"]>>

FullWhenAbove(q) == Len(q) > MaxEvents    \* variant: off by one

Full(q) == Len(q) >= MaxEvents

\* _put_async: nothing is queued behind an overflow.
Put(kind) ==
    LET e == [id |-> puts + 1, kind |-> kind]
        q == WithoutOldProgress(events, kind)
    IN  /\ puts' = puts + 1
        /\ IF overflowed THEN UNCHANGED <<events, overflowed, accepted>>
           ELSE /\ IF Full(q) THEN events' = Overflow(q, e) /\ overflowed' = TRUE
                              ELSE events' = Enqueue(q, e) /\ UNCHANGED overflowed
                /\ accepted' = IF kind = "lifecycle" THEN accepted \cup {e.id} ELSE accepted
        /\ UNCHANGED delivered

\* delivery_batch over the whole queue, committed.  A batch that is rolled back
\* leaves the mailbox as it was.
Deliver ==
    /\ delivered' = delivered \cup ToSet(events)
    /\ events' = <<>>
    /\ overflowed' = FALSE
    /\ UNCHANGED <<puts, accepted>>

MailboxStep == Deliver \/ \E kind \in {"progress", "lifecycle"} : Put(kind)

MailboxSpec == MailboxInit /\ [][MailboxStep]_mvars

-----------------------------------------------------------------------------
(* Properties *)

\* The queue is bounded, at most one progress event waits in it, and it is
\* overflowed exactly while the event that says so is all it holds.
QueueBounded ==
    /\ Len(events) <= MaxEvents
    /\ \A i, j \in DOMAIN events : IsProgress(events[i]) /\ IsProgress(events[j]) => i = j
    /\ overflowed <=> \E i \in DOMAIN events : events[i].kind = "overflow"
    /\ overflowed => Len(events) = 1

\* Events reach the user in the order they were put: the queue is in order, and
\* nothing older than a delivered event is still to come.
InOrder ==
    /\ \A i, j \in DOMAIN events : i < j => events[i].id < events[j].id
    /\ \A i \in DOMAIN events, d \in delivered : d.id < events[i].id

\* No start, end or failure of a file operation disappears silently: it is
\* delivered or queued, or a later overflow event is.
NoSilentLoss ==
    \A n \in accepted : \E e \in delivered \cup ToSet(events) :
        \/ e = [id |-> n, kind |-> "lifecycle"]
        \/ e.kind = "overflow" /\ e.id >= n

\* What the mailbox promises its reader: a bounded queue, in order, in which only
\* progress is ever dropped silently.
QueueFaithful == QueueBounded /\ InOrder /\ NoSilentLoss
=============================================================================
