------------------------------- MODULE DeviceLocks -------------------------------
(***************************************************************************)
(* What the descriptor calls promise about the locks of devices, with no   *)
(* search and no high-water mark: a lock has one holder, nobody opens its  *)
(* device while it is held, and no call on another descriptor loses it.    *)
(* At most one other descriptor had the device open when it was granted.   *)
(***************************************************************************)
CONSTANTS Descriptor, Device, None

VARIABLES dev,       \* the device of each descriptor, or None
          held       \* the descriptors that hold the lock of their device

Init == dev \in [Descriptor -> Device \cup {None}] /\ held = {}

Users(d) == {f \in Descriptor : dev[f] = d}

\* Before there is any lock, a descriptor may be handed another device.
Assign(f, d) == /\ held = {}
                /\ dev' = [dev EXCEPT ![f] = d]
                /\ UNCHANGED held

Open(f, d) == /\ dev[f] = None /\ Users(d) \cap held = {}
              /\ dev' = [dev EXCEPT ![f] = d]
              /\ UNCHANGED held

Close(f) == /\ dev' = [dev EXCEPT ![f] = None]
            /\ held' = held \ {f}

Lock(f) == /\ dev[f] # None /\ Users(dev[f]) \cap held \subseteq {f}
           /\ \E g \in Descriptor : Users(dev[f]) \subseteq {f, g}
           /\ held' = held \cup {f}
           /\ UNCHANGED dev

Unlock(f) == /\ held' = held \ {f}
             /\ UNCHANGED dev

Next == \E f \in Descriptor :
           \/ Close(f) \/ Lock(f) \/ Unlock(f)
           \/ \E d \in Device : Assign(f, d) \/ Open(f, d)

Spec == Init /\ [][Next]_<<dev, held>>
=============================================================================
