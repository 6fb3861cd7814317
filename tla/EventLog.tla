----------------------------- MODULE EventLog -----------------------------
(***************************************************************************)
(* What the event stream of a run promises to the desktop: from when it    *)
(* opens a view of the run until it closes it, it sees the events of the   *)
(* run one by one, each once, in the order they happened, from the first   *)
(* on.  A view that is opened again starts over.                           *)
(***************************************************************************)
EXTENDS Sequences, SequencesExt

CONSTANT Event

VARIABLES
  happened,   \* the events of the run so far
  viewing,    \* whether the desktop has a view of the run
  seen        \* the events it has applied in this view

EventLogInit == happened = <<>> /\ viewing = FALSE /\ seen = <<>>

Happen(e) == happened' = Append(happened, e) /\ UNCHANGED <<viewing, seen>>

Open == ~viewing /\ viewing' = TRUE /\ UNCHANGED <<happened, seen>>

See ==
  /\ viewing
  /\ Len(seen) < Len(happened)
  /\ seen' = Append(seen, happened[Len(seen) + 1])
  /\ UNCHANGED <<happened, viewing>>

Close == viewing /\ viewing' = FALSE /\ seen' = <<>> /\ UNCHANGED happened

EventLogNext == Open \/ See \/ Close \/ \E e \in Event : Happen(e)

EventLogSpec == EventLogInit /\ [][EventLogNext]_<<happened, viewing, seen>>
=============================================================================
