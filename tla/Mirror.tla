------------------------------- MODULE Mirror -------------------------------
(***************************************************************************)
(* What a device promises that keeps one number, an update sequence number *)
(* (USN), to say how much of the server's account it has: of every object  *)
(* in the account whose last change is not later, it has that change.      *)
(***************************************************************************)
EXTENDS Naturals

CONSTANT Objects

VARIABLES
    count,      \* the USN of the last change there was in the account
    there,      \* the objects that are in it
    last,       \* the USN of each object's last change, 0 if there was none
    got,        \* the USN of the change of each object that the device has
    upTo        \* the USN up to which the device says it has everything

mirrorVars == <<count, there, last, got, upTo>>

Init ==
    /\ count = 0 /\ there = {} /\ last = [o \in Objects |-> 0]
    /\ got = [o \in Objects |-> 0] /\ upTo = 0

\* Someone makes, changes or expunges it: another client, or the device itself.
Change(o) ==
    /\ count' = count + 1
    /\ last' = [last EXCEPT ![o] = count']
    /\ there' \in {there \cup {o}, there \ {o}}
    /\ UNCHANGED <<got, upTo>>

\* The device has a change of the object, not necessarily the last one any more.
Receive(o) ==
    /\ got' \in [Objects -> Nat]
    /\ got' = [got EXCEPT ![o] = got'[o]]
    /\ got[o] <= got'[o] /\ got'[o] <= last[o]
    /\ UNCHANGED <<count, there, last, upTo>>

\* It says so: never less than before, and never more than it has.
Advance ==
    /\ upTo' \in Nat /\ upTo < upTo' /\ upTo' <= count
    /\ \A o \in there : last[o] <= upTo' => got[o] = last[o]
    /\ UNCHANGED <<count, there, last, got>>

Next == Advance \/ \E o \in Objects : Change(o) \/ Receive(o)

Spec == Init /\ [][Next]_mirrorVars

=============================================================================
