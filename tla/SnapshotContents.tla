--------------------------- MODULE SnapshotContents ---------------------------
(***************************************************************************)
(* What a new Snapshot contains: PrepareSnapshot for a build and           *)
(* PrepareParentSnapshot for a Snapshot of a nested group (both in         *)
(* snapshot/create.go), and PrepareSnapshot of gitops for an Application.  *)
(*                                                                         *)
(* getAllNestedSnapshotComponents recurses into the nested ComponentGroups *)
(* and lays their candidates over each other; a step is one call or one    *)
(* return, and the calls are the stack.  The webhook forbids a group to    *)
(* nest itself and leaves longer cycles to this code.                      *)
(***************************************************************************)
EXTENDS Naturals, Sequences

CONSTANTS
  Groups, Root,     \* ComponentGroups, and the one that the Snapshot is for
  Gone,             \* the name of a ComponentGroup that does not exist
  Parts,            \* component versions
  MaxDepth,
  Nestings, Lists, Origins   \* the inputs: values of the first three variables

(* "removed" has left the spec but not yet the list, "none" the opposite.  *)
Candidates == {"none", "removed", "blank", "bad", "good"}
Kinds == {"build", "application", "component", "group", "override"}

ASSUME ContentsAssumption ==
  /\ Root \in Groups /\ Gone \notin Groups
  /\ "none" \notin Groups /\ "new" \notin Groups
  /\ MaxDepth \in Nat
  /\ Nestings \subseteq [Groups -> Seq(Groups \cup {Gone})]
  /\ \A f \in Nestings, g \in Groups : \A i \in 1..Len(f[g]) : f[g][i] # g
  /\ Lists \subseteq [Groups -> [Parts -> Candidates]]
  /\ Origins \subseteq
       [kind: Kinds, changed: SUBSET Parts, image: [Parts -> {"no", "bad", "good"}]]

VARIABLES
  nested,    \* spec.components that are groups, in the order of the spec
  lists,     \* the candidate of each group for each part
  origin,    \* what the Snapshot is made from
  calls,     \* the calls of getAllNestedSnapshotComponents
  images,    \* the Snapshot: the group each image is from, "new" or "none"
  invalid,   \* the parts that its annotation says are not included
  outcome

contentsVars == <<nested, lists, origin, calls, images, invalid, outcome>>

NoImages == [c \in Parts |-> "none"]

-----------------------------------------------------------------------------
MutantChildSupersedes(below, above) ==
  [c \in Parts |-> IF below[c] # "none" THEN below[c] ELSE above[c]]

Overlay(below, above) == [c \in Parts |-> IF above[c] # "none" THEN above[c] ELSE below[c]]

(* GetSnapshotComponentsFromGCL                                            *)
OwnImages(g) == [c \in Parts |-> IF lists[g][c] = "good" THEN g ELSE "none"]

OwnInvalid(g) == {c \in Parts : lists[g][c] \in {"blank", "bad"}}

(* GetAllNewComponentsInSnapshot: an override Snapshot is all new.         *)
NewParts == IF origin.kind = "override" THEN {c \in Parts : origin.image[c] # "no"}
                                        ELSE origin.changed

NewPartMissing == \E c \in NewParts : origin.image[c] = "no"

Fails == outcome' = "error" /\ calls' = <<>> /\ UNCHANGED <<images, invalid>>

(* The rest of PrepareSnapshot: the new images are laid over the others.   *)
Finish(valid, bad) ==
  LET fresh == {c \in NewParts : origin.image[c] = "good"}
      all == [c \in Parts |-> IF c \in fresh THEN "new" ELSE valid[c]]
  IN  /\ calls' = <<>>
      /\ images' = all
      /\ invalid' = (bad \cup NewParts) \ fresh
      /\ outcome' = IF all = NoImages THEN "novalid" ELSE "created"

(* gitops.PrepareSnapshot: the parts of the Application are those with a   *)
(* candidate, whatever it is, and only they can be new.                    *)
ApplicationContents ==
  LET listed == {c \in Parts : lists[Root][c] \in {"blank", "bad", "good"}}
      all == [c \in Parts |-> IF c \in listed \cap NewParts THEN "new" ELSE OwnImages(Root)[c]]
  IN  IF \E c \in listed \cap NewParts : origin.image[c] # "good" THEN Fails
      ELSE /\ images' = all
           /\ invalid' = OwnInvalid(Root) \ NewParts
           /\ outcome' = IF all = NoImages THEN "novalid" ELSE "created"
           /\ UNCHANGED calls

-----------------------------------------------------------------------------
(* Does the call for g end in an error before it looks at nested groups?   *)
CallFails(g, used) ==
  \/ g \in used
  \/ Len(calls) > MaxDepth
  \/ \E i \in 1..Len(nested[g]) : nested[g][i] = Gone

Enter(g) == [group |-> g, todo |-> nested[g], valid |-> NoImages, invalid |-> {}]

Start ==
  /\ outcome = "start"
  /\ IF origin.kind = "application" THEN ApplicationContents
     ELSE IF \/ origin.kind = "build" /\ \E c \in NewParts : origin.image[c] # "good"
             \/ CallFails(Root, {})
     THEN Fails
     ELSE outcome' = "collecting" /\ calls' = <<Enter(Root)>> /\ UNCHANGED <<images, invalid>>
  /\ UNCHANGED <<nested, lists, origin>>

Last == calls[Len(calls)]

Descend ==
  /\ outcome = "collecting" /\ Last.todo # <<>>
  /\ LET g == Head(Last.todo)
         used == {calls[i].group : i \in 1..Len(calls)}
     IN  IF CallFails(g, used) THEN Fails
         ELSE /\ calls' = Append([calls EXCEPT ![Len(calls)].todo = Tail(@)], Enter(g))
              /\ UNCHANGED <<images, invalid, outcome>>
  /\ UNCHANGED <<nested, lists, origin>>

(* The group's own candidates supersede those of its nested groups.        *)
Leave ==
  /\ outcome = "collecting" /\ Last.todo = <<>>
  /\ LET valid == Overlay(Last.valid, OwnImages(Last.group))
         bad == Last.invalid \cup OwnInvalid(Last.group)
         n == Len(calls) - 1
     IN  IF n > 0
         THEN /\ calls' = [SubSeq(calls, 1, n) EXCEPT ![n].valid = Overlay(@, valid),
                                                      ![n].invalid = @ \cup bad]
              /\ UNCHANGED <<images, invalid, outcome>>
         ELSE IF NewPartMissing THEN Fails
         ELSE Finish(valid, bad)
  /\ UNCHANGED <<nested, lists, origin>>

ContentsInit ==
  /\ nested \in Nestings /\ lists \in Lists /\ origin \in Origins
  /\ calls = <<>> /\ images = NoImages /\ invalid = {}
  /\ outcome = "start"

ContentsNext == Start \/ Descend \/ Leave

-----------------------------------------------------------------------------
Ended == outcome \in {"error", "novalid", "created"}

NestedIn(S) == UNION {{nested[g][i] : i \in 1..Len(nested[g])} : g \in S \cap Groups}

(* The groups that walks of k steps lead to from the root, if they go on   *)
(* only from groups of S.                                                  *)
Levels(S) == LET L[k \in 0..(MaxDepth + 1)] == IF k = 0 THEN {Root} ELSE NestedIn(L[k - 1] \cap S)
             IN  L

Reached(S) == UNION {Levels(S)[k] : k \in 0..MaxDepth}

Lacking(c) == {g \in Groups : lists[g][c] # "good"}

(* getAllNestedSnapshotComponents refuses exactly the nestings that have a *)
(* cycle, are too deep, or name a missing group.  A group that is nested   *)
(* in several others is not taken for a cycle.                             *)
RefusedIffUnbounded ==
  (Ended /\ origin.kind \notin {"application", "build"} /\ ~NewPartMissing) =>
    (outcome = "error" <=> Levels(Groups)[MaxDepth + 1] # {} \/ Gone \in Reached(Groups))

(* A Snapshot has the new images, and for the other parts a candidate that *)
(* no group on some way to it supersedes; no candidate of a nested group   *)
(* is lost although calls overwrite each other's results.                  *)
ImagesAreCandidates ==
  (outcome = "created" /\ origin.kind # "application") =>
    \A c \in Parts :
      IF c \in NewParts /\ origin.image[c] = "good" THEN images[c] = "new"
      ELSE IF images[c] = "none" THEN Reached(Groups) \subseteq Lacking(c)
      ELSE images[c] \in Reached(Lacking(c)) \ Lacking(c)

Covered == IF origin.kind = "application" THEN {Root} ELSE Reached(Groups)

(* The annotation of a Snapshot names every part that has an entry in the  *)
(* list of a group that it covers and that is not included.                *)
AbsentAreNamed ==
  outcome = "created" =>
    \A c \in Parts :
      (images[c] = "none" /\ \E g \in Covered : c \in OwnInvalid(g)) => c \in invalid

(* Creating a Snapshot goes right: the nesting is refused exactly when it  *)
(* has to be, the images are the candidates, the absent parts are named.   *)
ContentsAreRight == RefusedIffUnbounded /\ ImagesAreCandidates /\ AbsentAreNamed
=============================================================================
