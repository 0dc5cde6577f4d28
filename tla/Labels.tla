-------------------------------- MODULE Labels -------------------------------
(***************************************************************************)
(* What replacing a set of labels promises when it takes several           *)
(* statements without a transaction: one that deletes the labels an object *)
(* has and others that insert the new ones.  Bookmarks have their tags set *)
(* in this way (setURLTags), and subscriptions (setFeedTags).              *)
(*                                                                         *)
(* Of two edits of an object that overlap, nothing is said.  An edit that  *)
(* ran alone to its end leaves exactly the labels it was given, and they   *)
(* stay until the next edit begins.                                        *)
(***************************************************************************)

CONSTANTS
  Editors,  \* requests
  Objects,  \* what is labelled
  Names     \* labels

VARIABLES
  labels,   \* the labels each object has
  edits,    \* edits in progress: between their first statement and their last
  settled   \* {S} once an edit that ran alone has given the object S; else {}

vars == <<labels, edits, settled>>

Edit == [by : Editors, object : Objects, want : SUBSET Names, left : SUBSET Names,
         alone : BOOLEAN]

Idle(e) == \A x \in edits : x.by # e

\* Another edit of o begins while x is in progress.
Disturb(x, o) ==
  [by |-> x.by, object |-> x.object, want |-> x.want, left |-> x.left,
   alone |-> x.alone /\ x.object # o]

\* n is put.
Less(x, n) ==
  [by |-> x.by, object |-> x.object, want |-> x.want, left |-> x.left \ {n},
   alone |-> x.alone]

-----------------------------------------------------------------------------
Init ==
  /\ labels \in [Objects -> SUBSET Names]
  /\ edits = {}
  /\ settled = [o \in Objects |-> {}]

\* An edit begins: it deletes the labels there are.
Clear(e, o, S) ==
  /\ Idle(e)
  /\ labels' = [labels EXCEPT ![o] = {}]
  /\ edits' = {Disturb(x, o) : x \in edits} \cup
                {[by |-> e, object |-> o, want |-> S, left |-> S,
                  alone |-> \A x \in edits : x.object # o]}
  /\ settled' = [settled EXCEPT ![o] = {}]

\* It inserts one of the labels.
Put(x, n) ==
  /\ labels' = [labels EXCEPT ![x.object] = @ \cup {n}]
  /\ edits' = (edits \ {x}) \cup {Less(x, n)}
  /\ UNCHANGED settled

\* It inserts those that are missing, if any, and is over.
Finish(x) ==
  /\ labels' = [labels EXCEPT ![x.object] = @ \cup x.left]
  /\ edits' = edits \ {x}
  /\ settled' = IF x.alone THEN [settled EXCEPT ![x.object] = {x.want}] ELSE settled

\* A statement fails and the edit is given up.
Fail(x) ==
  /\ edits' = edits \ {x}
  /\ UNCHANGED <<labels, settled>>

\* The object is deleted, and its labels with it.
Forget(o) ==
  /\ labels' = [labels EXCEPT ![o] = {}]
  /\ edits' = {Disturb(x, o) : x \in edits}
  /\ settled' = [settled EXCEPT ![o] = {}]

Next ==
  \/ \E o \in Objects : Forget(o)
  \/ \E e \in Editors, o \in Objects, S \in SUBSET Names : Clear(e, o, S)
  \/ \E x \in edits : (\E n \in x.left : Put(x, n)) \/ Finish(x) \/ Fail(x)

Spec == Init /\ [][Next]_vars

-----------------------------------------------------------------------------
TypeOK ==
  /\ labels \in [Objects -> SUBSET Names]
  /\ edits \in SUBSET Edit
  /\ settled \in [Objects -> SUBSET SUBSET Names]

\* An edit that no other disturbed leaves what it was given.
LoneEditSticks == \A o \in Objects : \A S \in settled[o] : labels[o] = S

=============================================================================
