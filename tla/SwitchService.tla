---------------------------- MODULE SwitchService ----------------------------
(***************************************************************************)
(* What libswitch promises the application, with no shared memory in it:   *)
(* configurations come into force one after the other, each newer than the *)
(* last, and a call of libswitch_isSwitchEnabled is answered out of one    *)
(* whole configuration that was in force while the call ran.  A call may   *)
(* also end without such an answer (no configuration bound, or the call    *)
(* was overtaken by the messaging worker): then nothing is promised of it. *)
(***************************************************************************)
EXTENDS Integers

CONSTANT Readers

VARIABLES inForce,     \* the configuration in force
          coming,      \* the newest configuration callers may already see
          asked,       \* reader -> the configuration in force when it asked
          answer       \* reader -> the configuration of its last answer

vars == <<inForce, coming, asked, answer>>

Init == /\ inForce = 0
        /\ coming = 0
        /\ asked = [r \in Readers |-> 0]
        /\ answer = [r \in Readers |-> 0]

(* A publish first shows the new configuration to callers that happen to   *)
(* follow a flip just then, and then brings it into force for all.         *)
Announce == /\ coming' > coming
            /\ UNCHANGED <<inForce, asked, answer>>

ComeIntoForce == /\ inForce # coming
                 /\ inForce' = coming
                 /\ UNCHANGED <<coming, asked, answer>>

(* The first configuration: nobody asks before it is there.                *)
Install == /\ inForce = 0 /\ coming = 0
           /\ coming' > 0
           /\ inForce' = coming'
           /\ UNCHANGED <<asked, answer>>

Ask(r) == /\ asked' = [asked EXCEPT ![r] = inForce]
          /\ UNCHANGED <<inForce, coming, answer>>

Answer(r) == /\ \E g \in asked[r] .. coming : answer' = [answer EXCEPT ![r] = g]
             /\ UNCHANGED <<inForce, coming, asked>>

Next == \/ Announce \/ ComeIntoForce \/ Install
        \/ \E r \in Readers : Ask(r) \/ Answer(r)

Spec == Init /\ [][Next]_vars
=============================================================================
