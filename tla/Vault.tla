-------------------------------- MODULE Vault --------------------------------
(***************************************************************************)
(* What the private machine promises its owner, with nothing of how: disks   *)
(* that are complete are never taken away; the owner enters one at a time;    *)
(* and what a session writes reaches a complete disk, or is discarded.        *)
(*                                                                         *)
(* A session that outlives its worker strays: the mutex no longer counts it.  *)
(***************************************************************************)
CONSTANTS
  Disks,   \* identities of disks
  Modes    \* "Persistent" and the modes that discard what they write

VARIABLES
  machines,  \* the complete disks the owner has, in use or archived
  written,   \* those the owner has written to
  open,      \* the session that runs now, or nothing: its mode and its disk
  strays     \* sessions that go on without their worker

vars == <<machines, written, open, strays>>

Init == machines = {} /\ written = {} /\ open = {} /\ strays = {}

(* A disk is complete from one step to the next. *)
Make(d) == machines' = machines \cup {d} /\ UNCHANGED <<written, open, strays>>

(* The owner enters: alone, and on a complete disk. *)
Enter(m, d) ==
  /\ open = {} /\ d \in machines
  /\ open' = {[kind |-> m, disk |-> d]} /\ UNCHANGED <<machines, written, strays>>

(* Only a persistent session writes to the disk that it is on. *)
Write(o) ==
  /\ o \in open \cup strays /\ o.kind = "Persistent"
  /\ written' = written \cup {o.disk} /\ UNCHANGED <<machines, open, strays>>

Leave == open' = {} /\ UNCHANGED <<machines, written, strays>>

Stray == open' = {} /\ strays' = strays \cup open /\ UNCHANGED <<machines, written>>

StrayEnds(o) == strays' = strays \ {o} /\ UNCHANGED <<machines, written, open>>

PowerLoss == open' = {} /\ strays' = {} /\ UNCHANGED <<machines, written>>

Next ==
  \/ \E d \in Disks : Make(d)
  \/ \E m \in Modes, d \in Disks : Enter(m, d)
  \/ \E o \in open \cup strays : Write(o)
  \/ \E o \in strays : StrayEnds(o)
  \/ Leave \/ Stray \/ PowerLoss

Spec == Init /\ [][Next]_vars
=============================================================================
