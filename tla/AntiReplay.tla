------------------------------ MODULE AntiReplay ------------------------------
(***************************************************************************)
(* What a sliding-window replay filter promises: a sequence number is      *)
(* delivered at most once between two resets, and never when it lies a     *)
(* full window or more below one that was already delivered.  ReplayGuard  *)
(* implements this specification.                                          *)
(***************************************************************************)
EXTENDS Integers

CONSTANTS kWindow,   \* width of the window
          MaxSeq     \* largest sequence number, UINT64_MAX in the code

VARIABLE seen        \* numbers delivered since the last reset

Init == seen = {}

\* Deliver a fresh number that the window still covers.
Deliver(s) ==
    /\ s \notin seen
    /\ \A t \in seen : t - s < kWindow
    /\ seen' = seen \cup {s}

Reset == seen' = {}

Next == Reset \/ \E s \in 1..MaxSeq : Deliver(s)

Spec == Init /\ [][Next]_seen
===============================================================================
