--------------------------- MODULE SharedHistory ----------------------------
(***************************************************************************)
(* What the history journal promises an account (conformance/README.md,    *)
(* HIST-1): one past that all devices share.  What a device records may    *)
(* enter it, and what was recorded a device may learn.  An operation       *)
(* leaves it only when a device has lost it, in one of three ways: it      *)
(* wrote to the message while another of its threads did, it could not     *)
(* open the record, or the message was too old to be kept.  A device that  *)
(* was away for too long begins anew from what is shared.                  *)
(***************************************************************************)
CONSTANTS Device, Op

VARIABLES acted,   \* what has been recorded on some device
          kept,    \* the shared past
          rows,    \* what each device has of it
          lost,    \* what each device has lost
          aged,    \* what has grown old
          scene    \* the message of each operation, and who may fail to open

vars == <<acted, kept, rows, lost, aged, scene>>

Init == /\ acted = {} /\ kept = {} /\ aged = {}
        /\ rows = [d \in Device |-> {}] /\ lost = [d \in Device |-> {}]

\* The operations about the same messages.
Near(ops) == {p \in Op : \E o \in ops : scene.target[p] = scene.target[o]}

\* A device writes a message, with what it recorded now (new) or was told; what
\* it had of the message besides may be undone.
Write(d, new, more, less) ==
  /\ acted' = acted \cup new
  /\ less \subseteq Near(more)
  /\ rows' = [rows EXCEPT ![d] = (@ \ less) \cup more]
  /\ lost' = [lost EXCEPT ![d] = @ \cup less]
  /\ UNCHANGED <<kept, aged>>

\* A device gives up what it cannot open, or leaves out what is old.
Lose(d, ops) ==
  /\ d \in scene.blind \/ ops \subseteq Near(aged)
  /\ lost' = [lost EXCEPT ![d] = @ \cup ops]
  /\ UNCHANGED <<acted, kept, rows, aged>>

\* Recorded operations enter the shared past; lost ones may leave it.
Share(d, more, less) ==
  /\ kept' = (kept \ less) \cup more
  /\ UNCHANGED <<acted, rows, lost, aged>>

\* A device gives up what it has, to be told everything again.
Replace(d) == /\ rows' = [rows EXCEPT ![d] = {}]
              /\ UNCHANGED <<acted, kept, lost, aged>>

Age(o) == /\ aged' = aged \cup {o}
          /\ UNCHANGED <<acted, kept, rows, lost>>

Next == /\ \/ \E d \in Device :
                \/ \E new \in SUBSET (Op \ acted), less \in SUBSET rows[d] :
                     \E more \in SUBSET (acted \cup new) : Write(d, new, more, less)
                \/ \E ops \in SUBSET Op : Lose(d, ops)
                \/ \E more \in SUBSET acted, less \in SUBSET lost[d] : Share(d, more, less)
                \/ Replace(d)
           \/ \E o \in Op : Age(o)
        /\ UNCHANGED scene

Spec == Init /\ [][Next]_vars
=============================================================================
