-------------------------- MODULE CandidateRegister --------------------------
(***************************************************************************)
(* What a Global Candidate List promises: for every ComponentGroup, one    *)
(* register per component of the group.  A build replaces a candidate only *)
(* by one that was not built earlier, an override Snapshot replaces images *)
(* and leaves the build times alone, and a change of the group adds blank  *)
(* registers and removes registers.  Nothing else ever happens to it: no   *)
(* update of one component is lost in an update of another.                *)
(***************************************************************************)
EXTENDS Naturals

CONSTANTS Groups, Components, Images, NoImage, Times

VARIABLE reg   \* the candidates: for each group, a function on its components

Blank == [image |-> NoImage, time |-> 0]

RegInit == \E S \in [Groups -> SUBSET Components] :
             reg = [g \in Groups |-> [c \in S[g] |-> Blank]]

(* A build of component c, started at time t, is promoted in group g.      *)
Promote(g, c) ==
  /\ c \in DOMAIN reg[g]
  /\ \E i \in Images, t \in Times :
       /\ reg[g][c].time <= t
       /\ reg' = [reg EXCEPT ![g][c] = [image |-> i, time |-> t]]

(* An override Snapshot sets the images of some components.                *)
Override(g) ==
  \E f \in [DOMAIN reg[g] -> Images \cup {NoImage}] :
    reg' = [reg EXCEPT ![g] =
              [c \in DOMAIN @ |-> [image |-> f[c], time |-> @[c].time]]]

(* The components of the group change.                                     *)
Realign(g) ==
  \E S \in SUBSET Components :
    reg' = [reg EXCEPT ![g] =
              [c \in S |-> IF c \in DOMAIN @ THEN @[c] ELSE Blank]]

RegNext ==
  \E g \in Groups :
    Override(g) \/ Realign(g) \/ \E c \in Components : Promote(g, c)

RegSpec == RegInit /\ [][RegNext]_reg
=============================================================================
