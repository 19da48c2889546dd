---------------------------- MODULE ReadersWriter ----------------------------
(***************************************************************************)
(* What RefCount promises its clients (the README's RwLock is built on     *)
(* exactly this): many readers or one writer.  A writer first bars new     *)
(* readers and other writers, then waits until the readers have left.      *)
(***************************************************************************)
CONSTANT Handle

VARIABLES readers,  \* who holds a Ref
          barrier,  \* who keeps new references out: nobody or one handle
          writer    \* who holds an ExclusiveRef: nobody or the barrier's owner

rwVars == <<readers, barrier, writer>>

RWTypeOK ==
  /\ readers \subseteq Handle
  /\ barrier \subseteq Handle
  /\ writer \subseteq Handle

RWInit == readers = {} /\ barrier = {} /\ writer = {}

Enter(h) ==
  /\ barrier = {}
  /\ h \notin readers
  /\ readers' = readers \cup {h}
  /\ UNCHANGED <<barrier, writer>>

Leave(h) ==
  /\ h \in readers
  /\ readers' = readers \ {h}
  /\ UNCHANGED <<barrier, writer>>

Bar(h) ==
  /\ barrier = {}
  /\ h \notin readers
  /\ barrier' = {h}
  /\ UNCHANGED <<readers, writer>>

Grant(h) ==
  /\ barrier = {h}
  /\ writer = {}
  /\ readers = {}
  /\ writer' = {h}
  /\ UNCHANGED <<readers, barrier>>

(* The writer is done, or the owner of the barrier gives up waiting. *)
Unbar(h) ==
  /\ barrier = {h}
  /\ barrier' = {}
  /\ writer' = {}
  /\ UNCHANGED readers

RWNext == \E h \in Handle : Enter(h) \/ Leave(h) \/ Bar(h) \/ Grant(h) \/ Unbar(h)

(* Readers leave, and a barrier does not stay up for nothing. *)
RWFairness == \A h \in Handle :
  /\ WF_rwVars(Leave(h))
  /\ WF_rwVars(Grant(h))
  /\ WF_rwVars(Unbar(h))

RWSafeSpec == RWInit /\ [][RWNext]_rwVars
RWSpec     == RWSafeSpec /\ RWFairness
=============================================================================
