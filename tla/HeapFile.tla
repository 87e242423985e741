------------------------------ MODULE HeapFile ------------------------------
(***************************************************************************)
(* Making the page of the shared heap in the file <sheapMapFile>, over     *)
(* whatever lies there, while other applications that were given the same  *)
(* file make theirs, end or crash (shmdata_getNewSharedPage).              *)
(***************************************************************************)
EXTENDS Integers

CONSTANTS Apps   \* applications with this sheapMapFile

VARIABLES
    file,    \* what the name stands for: "none", "bad", a page of an
             \* application, or "left", the page of one that is gone
    step,    \* how far each application is
    refused, \* history: applications whom the system refused something
    crossed  \* history: applications during whose making the file changed

heapFile == <<file, step, refused, crossed>>

Pages == Apps \cup {"left"}
ASSUME AppsAssumption == {"none", "bad", "left"} \cap Apps = {}

Making == {"create", "attach", "destroy", "again", "remove", "last"}

HeapFileInit ==
    /\ file \in {"none", "bad", "left"}
    /\ step = [a \in Apps |-> "start"]
    /\ refused = {} /\ crossed = {}

Advance(a, from, to) == step[a] = from /\ step' = [step EXCEPT ![a] = to]

Name(a, f) ==
    /\ file' = f
    /\ crossed' = IF f = file THEN crossed
                  ELSE crossed \cup {b \in Apps \ {a} : step[b] \in Making}

Start(a) == Advance(a, "start", "create") /\ UNCHANGED <<file, refused, crossed>>

\* apr_shm_create: only if there is no file.  If the system refuses it, a file
\* that is no page may be left.
Create(a, from, otherwise) ==
    \/ /\ file = "none"
       /\ Advance(a, from, "made") /\ Name(a, a) /\ UNCHANGED refused
    \/ /\ Advance(a, from, otherwise)
       /\ IF file = "none"
            THEN refused' = refused \cup {a} /\ \E f \in {"none", "bad"} : Name(a, f)
            ELSE UNCHANGED <<file, refused, crossed>>

FirstCreate(a) == Create(a, "create", "attach")

Attach(a) ==
    /\ \/ /\ file \in Pages
          /\ Advance(a, "attach", "destroy") /\ UNCHANGED refused
       \/ /\ Advance(a, "attach", "remove")
          /\ refused' = IF file \in Pages THEN refused \cup {a} ELSE refused
    /\ UNCHANGED <<file, crossed>>

\* apr_shm_destroy removes the file by its name.
Destroy(a) == Advance(a, "destroy", "again") /\ Name(a, "none") /\ UNCHANGED refused

SecondCreate(a) == Create(a, "again", "remove")

\* Mutant: a file that is no page is not removed.
Remove_Pages(a) ==
    \/ /\ file \in Pages
       /\ Advance(a, "remove", "last") /\ Name(a, "none") /\ UNCHANGED refused
    \/ /\ Advance(a, "remove", "failed") /\ UNCHANGED <<file, crossed, refused>>

Remove(a) ==
    \/ /\ file # "none"
       /\ Advance(a, "remove", "last") /\ Name(a, "none") /\ UNCHANGED refused
    \/ /\ Advance(a, "remove", "failed")
       /\ refused' = IF file # "none" THEN refused \cup {a} ELSE refused
       /\ UNCHANGED <<file, crossed>>

LastCreate(a) == Create(a, "last", "failed")

\* apr_terminate, of the application whose page it was; and a crash, which
\* leaves the file.
Terminate(a) == Advance(a, "made", "gone") /\ Name(a, "none") /\ UNCHANGED refused

Crash(a) ==
    /\ step[a] \in Making \cup {"made"}
    /\ step' = [step EXCEPT ![a] = "gone"]
    /\ UNCHANGED <<file, refused, crossed>>

HeapFileStep(a) ==
    \/ Start(a) \/ FirstCreate(a) \/ Attach(a) \/ Destroy(a) \/ SecondCreate(a)
    \/ Remove(a) \/ LastCreate(a) \/ Terminate(a) \/ Crash(a)

(* Whatever lies at the path, a page is made there, unless the system      *)
(* refuses a call that could succeed, or another application makes or ends *)
(* at the same time (shmdata_getNewSharedPage).                            *)
MadeOverAnything ==
    \A a \in Apps : step[a] = "failed" => a \in refused \cup crossed
=============================================================================
