---------------------------- MODULE NoteMatching ----------------------------
(***************************************************************************)
(* What the registry of notes promises to the event dispatch: a Note Off   *)
(* ends the oldest outstanding Note On of its source address and pitch,    *)
(* and a Note On is only refused for a bad address or a full registry.     *)
(***************************************************************************)
EXTENDS Naturals, FiniteSets

CONSTANTS Source, Pitch, ValidSource, Capacities

VARIABLES
  capacity,   \* notes that may be outstanding at once
  pending,    \* the outstanding notes, numbered in order of acceptance
  next,       \* number of the next note
  ended       \* number of the note the last Note Off ended, or 0

pairing == <<capacity, pending, next, ended>>

Matching(s, p) == {n \in pending : n.source = s /\ n.pitch = p}
Oldest(n, s, p) == n \in Matching(s, p) /\ \A m \in Matching(s, p) : n.number <= m.number

Start ==
  /\ capacity \in Capacities
  /\ pending = {} /\ next = 1 /\ ended = 0

Accept(s, p) ==
  /\ s \in ValidSource /\ Cardinality(pending) < capacity
  /\ pending' = pending \cup {[source |-> s, pitch |-> p, number |-> next]}
  /\ next' = next + 1 /\ ended' = 0
  /\ UNCHANGED capacity

Refuse(s) ==
  /\ s \notin ValidSource \/ Cardinality(pending) = capacity
  /\ ended' = 0
  /\ UNCHANGED <<capacity, pending, next>>

Pair(s, p) ==
  \E n \in pending :
    /\ Oldest(n, s, p)
    /\ pending' = pending \ {n}
    /\ ended' = n.number
    /\ UNCHANGED <<capacity, next>>

Ignore(s, p) ==
  /\ Matching(s, p) = {}
  /\ ended' = 0
  /\ UNCHANGED <<capacity, pending, next>>

EndAll ==
  /\ pending' = {} /\ ended' = 0
  /\ UNCHANGED <<capacity, next>>

Restart == capacity' \in Capacities /\ pending' = {} /\ next' = 1 /\ ended' = 0

Step ==
  \/ \E s \in Source, p \in Pitch : Accept(s, p) \/ Pair(s, p) \/ Ignore(s, p)
  \/ \E s \in Source : Refuse(s)
  \/ EndAll \/ Restart

Pairing == Start /\ [][Step]_pairing
=============================================================================
