--------------------------- MODULE DurablePrefix ---------------------------
(***************************************************************************)
(* What persistence promises: storage holds a prefix of the published      *)
(* commits, it grows one commit at a time, and whoever asked for storage   *)
(* through a version is told yes only when that prefix is long enough.     *)
(***************************************************************************)
EXTENDS Naturals

CONSTANT Waiter   \* calls that wait for a version to be stored

VARIABLES published,  \* number of commits published
          disk,       \* number of commits in storage
          asked,      \* version each caller waits for
          told        \* callers that were told yes

dpvars == <<published, disk, asked, told>>

Publish == published' = published + 1 /\ UNCHANGED <<disk, asked, told>>

Store ==
  /\ disk < published
  /\ disk' = disk + 1
  /\ UNCHANGED <<published, asked>>
  /\ told \subseteq told' /\ \A w \in told' \ told : asked[w] <= disk'

Ask(w) ==
  /\ w \notin told
  /\ asked' = [asked EXCEPT ![w] = published]
  /\ UNCHANGED <<published, disk, told>>

Tell ==
  /\ told \subseteq told' /\ \A w \in told' \ told : asked[w] <= disk
  /\ UNCHANGED <<published, disk, asked>>

Init == published = 0 /\ disk = 0 /\ asked = [w \in Waiter |-> 0] /\ told = {}

Next == Publish \/ Store \/ Tell \/ \E w \in Waiter : Ask(w)

Spec == Init /\ [][Next]_dpvars
=============================================================================
