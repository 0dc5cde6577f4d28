---------------------------- MODULE LabelsProofs -----------------------------
(***************************************************************************)
(* The promise of Labels, for any number of editors, objects and names.    *)
(***************************************************************************)
EXTENDS Labels, TLAPS

\* An editor has one edit at a time; an edit that nobody disturbed is the only
\* one of its object, which has the labels put so far; an object that is settled
\* is not being edited.
EditsInv ==
  /\ \A x, y \in edits : x.by = y.by => x = y
  /\ \A x \in edits : x.left \subseteq x.want
  /\ \A x \in edits : x.alone =>
       /\ labels[x.object] = x.want \ x.left
       /\ \A y \in edits : y.object = x.object => y = x
  /\ \A o \in Objects : \A S \in settled[o] :
       /\ labels[o] = S
       /\ \A x \in edits : x.object # o

LabelsInv == TypeOK /\ EditsInv

LEMMA LabelsInit == Init => LabelsInv
  BY DEF Init, LabelsInv, TypeOK, EditsInv

LEMMA DisturbFacts ==
  ASSUME NEW x \in Edit, NEW o \in Objects
  PROVE  /\ Disturb(x, o) \in Edit
         /\ Disturb(x, o).by = x.by /\ Disturb(x, o).object = x.object
         /\ Disturb(x, o).want = x.want /\ Disturb(x, o).left = x.left
         /\ Disturb(x, o).alone => x.alone /\ x.object # o
         /\ x.object # o => Disturb(x, o) = x
  BY DEF Disturb, Edit

LEMMA ClearKeeps ==
  ASSUME LabelsInv, NEW e \in Editors, NEW o \in Objects, NEW S \in SUBSET Names,
         Clear(e, o, S)
  PROVE  LabelsInv'
<1> DEFINE new == [by |-> e, object |-> o, want |-> S, left |-> S,
                   alone |-> \A x \in edits : x.object # o]
<1> USE DEF LabelsInv
<1>1. new \in Edit /\ new.by = e /\ new.object = o /\ new.want = S /\ new.left = S
      /\ new.alone = (\A x \in edits : x.object # o)
  BY DEF Edit
<1>2. edits' = {Disturb(x, o) : x \in edits} \cup {new}
  BY DEF Clear
<1>3. \A x \in edits : x \in Edit
  BY DEF TypeOK
<1> HIDE DEF new
<1>4. \A z \in edits' : z = new \/ \E x \in edits : z = Disturb(x, o)
  BY <1>2
<1>5. TypeOK'
  <2>1. edits' \subseteq Edit
    BY <1>1, <1>3, <1>4, DisturbFacts
  <2>2. labels' \in [Objects -> SUBSET Names] /\ settled' \in [Objects -> SUBSET SUBSET Names]
    BY DEF Clear, TypeOK
  <2> QED BY <2>1, <2>2 DEF TypeOK
<1>6. \A x, y \in edits' : x.by = y.by => x = y
  BY <1>1, <1>3, <1>4, DisturbFacts DEF EditsInv, Clear, Idle
<1>7. \A x \in edits' : x.left \subseteq x.want
  BY <1>1, <1>3, <1>4, DisturbFacts DEF EditsInv
<1>8. ASSUME NEW x \in edits', x.alone
      PROVE  /\ labels'[x.object] = x.want \ x.left
             /\ \A y \in edits' : y.object = x.object => y = x
  <2>1. CASE x = new
    <3>1. \A y \in edits : y.object # o
      BY <1>1, <1>8, <2>1
    <3>2. labels'[o] = {}
      BY DEF Clear, TypeOK
    <3> QED BY <1>1, <1>3, <1>4, <2>1, <3>1, <3>2, DisturbFacts
  <2>2. CASE x # new
    <3>1. PICK z \in edits : x = Disturb(z, o)
      BY <1>4, <2>2
    <3>2. z.alone /\ z.object # o /\ x = z /\ z.object \in Objects
      BY <1>3, <1>8, <3>1, DisturbFacts DEF Edit
    <3>3. labels'[z.object] = labels[z.object]
      BY <3>2 DEF Clear, TypeOK
    <3> QED BY <1>1, <1>3, <1>4, <3>2, <3>3, DisturbFacts DEF EditsInv
  <2> QED BY <2>1, <2>2
<1>9. ASSUME NEW p \in Objects, NEW T \in settled'[p]
      PROVE  labels'[p] = T /\ \A x \in edits' : x.object # p
  <2>1. p # o /\ settled'[p] = settled[p] /\ labels'[p] = labels[p]
    BY <1>9 DEF Clear, TypeOK
  <2> QED BY <1>1, <1>3, <1>4, <1>9, <2>1, DisturbFacts DEF EditsInv
<1> QED BY <1>5, <1>6, <1>7, <1>8, <1>9 DEF EditsInv

LEMMA PutKeeps ==
  ASSUME LabelsInv, NEW x \in edits, NEW n \in x.left, Put(x, n)
  PROVE  LabelsInv'
<1> DEFINE z == Less(x, n)
<1>1. x \in Edit /\ n \in Names
  BY DEF LabelsInv, TypeOK, Edit
<1>2. /\ z \in Edit /\ z.by = x.by /\ z.object = x.object /\ z.want = x.want
      /\ z.left = x.left \ {n} /\ z.alone = x.alone
  BY <1>1 DEF Edit, Less
<1>3. edits' = (edits \ {x}) \cup {z} /\ settled' = settled
  BY DEF Put
<1>4. /\ labels'[x.object] = labels[x.object] \cup {n}
      /\ \A p \in Objects : p # x.object => labels'[p] = labels[p]
      /\ labels' \in [Objects -> SUBSET Names]
  BY <1>1 DEF Put, LabelsInv, TypeOK, Edit
<1> HIDE DEF z
<1>5. TypeOK'
  BY <1>2, <1>3, <1>4 DEF LabelsInv, TypeOK
<1>6. \A y \in edits : y \in Edit /\ y.object \in Objects
  BY DEF LabelsInv, TypeOK, Edit
<1>7. x.left \subseteq x.want
  BY DEF LabelsInv, EditsInv
<1>8. x.alone => labels[x.object] = x.want \ x.left /\ \A y \in edits : y.object = x.object => y = x
  BY DEF LabelsInv, EditsInv
<1>9. \A a, b \in edits' : a.by = b.by => a = b
  BY <1>2, <1>3 DEF LabelsInv, EditsInv
<1>10. \A a \in edits' : a.left \subseteq a.want
  BY <1>2, <1>3, <1>7 DEF LabelsInv, EditsInv
<1>11. ASSUME NEW a \in edits', a.alone
       PROVE  /\ labels'[a.object] = a.want \ a.left
              /\ \A b \in edits' : b.object = a.object => b = a
  <2>1. CASE a = z
    <3>1. x.alone
      BY <1>2, <1>11, <2>1
    <3>2. labels'[x.object] = x.want \ (x.left \ {n})
      BY <1>4, <1>7, <1>8, <3>1
    <3>3. \A b \in edits' : b.object = a.object => b = a
      BY <1>2, <1>3, <1>8, <2>1, <3>1
    <3> QED BY <1>2, <2>1, <3>2, <3>3
  <2>2. CASE a # z
    <3>1. a \in edits /\ a # x
      BY <1>3, <2>2
    <3>2. a.object # x.object
      BY <1>11, <3>1 DEF LabelsInv, EditsInv
    <3>3. labels'[a.object] = a.want \ a.left
      BY <1>4, <1>6, <1>11, <3>1, <3>2 DEF LabelsInv, EditsInv
    <3>4. \A b \in edits' : b.object = a.object => b = a
      BY <1>2, <1>3, <1>11, <3>1, <3>2 DEF LabelsInv, EditsInv
    <3> QED BY <3>3, <3>4
  <2> QED BY <2>1, <2>2
<1>12. ASSUME NEW p \in Objects, NEW T \in settled'[p]
       PROVE  labels'[p] = T /\ \A a \in edits' : a.object # p
  <2>1. T \in settled[p] /\ labels[p] = T /\ \A a \in edits : a.object # p
    BY <1>3, <1>12 DEF LabelsInv, EditsInv
  <2> QED BY <1>2, <1>3, <1>4, <2>1
<1> QED BY <1>5, <1>9, <1>10, <1>11, <1>12 DEF LabelsInv, EditsInv

LEMMA FinishKeeps ==
  ASSUME LabelsInv, NEW x \in edits, Finish(x)
  PROVE  LabelsInv'
<1>1. x \in Edit /\ x.object \in Objects /\ x.left \in SUBSET Names /\ x.want \in SUBSET Names
  BY DEF LabelsInv, TypeOK, Edit
<1>2. edits' = edits \ {x}
  BY DEF Finish
<1>3. /\ labels'[x.object] = labels[x.object] \cup x.left
      /\ \A p \in Objects : p # x.object => labels'[p] = labels[p]
      /\ labels' \in [Objects -> SUBSET Names]
  BY <1>1 DEF Finish, LabelsInv, TypeOK
<1>4. /\ x.alone => settled'[x.object] = {x.want}
      /\ ~x.alone => settled' = settled
      /\ \A p \in Objects : p # x.object => settled'[p] = settled[p]
      /\ settled' \in [Objects -> SUBSET SUBSET Names]
  BY <1>1 DEF Finish, LabelsInv, TypeOK
<1>5. TypeOK'
  BY <1>2, <1>3, <1>4 DEF LabelsInv, TypeOK
<1>6. \A y \in edits : y.object \in Objects
  BY DEF LabelsInv, TypeOK, Edit
<1>7. ASSUME NEW a \in edits', a.alone
      PROVE  /\ labels'[a.object] = a.want \ a.left
             /\ \A b \in edits' : b.object = a.object => b = a
  <2>1. a \in edits /\ a.object # x.object
    BY <1>2, <1>7 DEF LabelsInv, EditsInv
  <2> QED BY <1>2, <1>3, <1>6, <1>7, <2>1 DEF LabelsInv, EditsInv
<1>8. ASSUME NEW p \in Objects, NEW T \in settled'[p]
      PROVE  labels'[p] = T /\ \A a \in edits' : a.object # p
  <2>1. CASE p = x.object
    <3>1. x.alone
      BY <1>4, <1>8, <2>1 DEF LabelsInv, EditsInv
    <3>2. labels[x.object] = x.want \ x.left /\ \A y \in edits : y.object = x.object => y = x
      BY <3>1 DEF LabelsInv, EditsInv
    <3>3. x.left \subseteq x.want
      BY DEF LabelsInv, EditsInv
    <3>4. T = x.want
      BY <1>4, <1>8, <2>1, <3>1
    <3> QED BY <1>2, <1>3, <2>1, <3>2, <3>3, <3>4
  <2>2. CASE p # x.object
    BY <1>2, <1>3, <1>4, <1>8, <2>2 DEF LabelsInv, EditsInv
  <2> QED BY <2>1, <2>2
<1>9. (\A a, b \in edits' : a.by = b.by => a = b) /\ \A a \in edits' : a.left \subseteq a.want
  BY <1>2 DEF LabelsInv, EditsInv
<1> QED BY <1>5, <1>7, <1>8, <1>9 DEF LabelsInv, EditsInv

LEMMA FailKeeps ==
  ASSUME LabelsInv, NEW x \in edits, Fail(x)
  PROVE  LabelsInv'
<1>1. edits' = edits \ {x} /\ labels' = labels /\ settled' = settled
  BY DEF Fail
<1>2. TypeOK'
  BY <1>1 DEF LabelsInv, TypeOK
<1>3. EditsInv'
  BY <1>1 DEF LabelsInv, EditsInv
<1> QED BY <1>2, <1>3 DEF LabelsInv

LEMMA ForgetKeeps ==
  ASSUME LabelsInv, NEW o \in Objects, Forget(o)
  PROVE  LabelsInv'
<1>1. edits' = {Disturb(x, o) : x \in edits} /\ \A x \in edits : x \in Edit
  BY DEF Forget, LabelsInv, TypeOK
<1>2. /\ labels' \in [Objects -> SUBSET Names] /\ settled' \in [Objects -> SUBSET SUBSET Names]
      /\ settled'[o] = {}
      /\ \A p \in Objects : p # o => labels'[p] = labels[p] /\ settled'[p] = settled[p]
  BY DEF Forget, LabelsInv, TypeOK
<1>3. TypeOK'
  BY <1>1, <1>2, DisturbFacts DEF TypeOK
<1>4. \A a, b \in edits' : a.by = b.by => a = b
  BY <1>1, DisturbFacts DEF LabelsInv, EditsInv
<1>5. \A a \in edits' : a.left \subseteq a.want
  BY <1>1, DisturbFacts DEF LabelsInv, EditsInv
<1>6. ASSUME NEW a \in edits', a.alone
      PROVE  /\ labels'[a.object] = a.want \ a.left
             /\ \A b \in edits' : b.object = a.object => b = a
  <2>1. PICK x \in edits : a = Disturb(x, o)
    BY <1>1
  <2>2. a = x /\ x.alone /\ x.object # o /\ x.object \in Objects
    BY <1>1, <1>6, <2>1, DisturbFacts DEF Edit
  <2>3. labels'[a.object] = a.want \ a.left
    BY <1>2, <2>2 DEF LabelsInv, EditsInv
  <2>4. \A b \in edits' : b.object = a.object => b = a
    BY <1>1, <2>2, DisturbFacts DEF LabelsInv, EditsInv
  <2> QED BY <2>3, <2>4
<1>7. ASSUME NEW p \in Objects, NEW T \in settled'[p]
      PROVE  labels'[p] = T /\ \A a \in edits' : a.object # p
  <2>1. p # o
    BY <1>2, <1>7
  <2>2. T \in settled[p] /\ labels'[p] = labels[p]
    BY <1>2, <1>7, <2>1
  <2> QED BY <1>1, <2>2, DisturbFacts DEF LabelsInv, EditsInv
<1> QED BY <1>3, <1>4, <1>5, <1>6, <1>7 DEF LabelsInv, EditsInv

\* The invariant holds of every behaviour.
THEOREM LabelsInvariant == Spec => []LabelsInv
<1>1. ASSUME LabelsInv, [Next]_vars
      PROVE  LabelsInv'
  <2>1. CASE UNCHANGED vars
    BY <1>1, <2>1 DEF vars, LabelsInv, TypeOK, EditsInv
  <2>2. CASE \E o \in Objects : Forget(o)
    BY <1>1, <2>2, ForgetKeeps
  <2>3. CASE \E e \in Editors, o \in Objects, S \in SUBSET Names : Clear(e, o, S)
    BY <1>1, <2>3, ClearKeeps
  <2>4. CASE \E x \in edits : (\E n \in x.left : Put(x, n)) \/ Finish(x) \/ Fail(x)
    BY <1>1, <2>4, PutKeeps, FinishKeeps, FailKeeps
  <2> QED BY <1>1, <2>1, <2>2, <2>3, <2>4 DEF Next
<1> QED BY <1>1, LabelsInit, PTL DEF Spec

\* An edit that no other disturbed leaves what it was given, until the next one
\* begins (tag.go and feed.go: "replaces all tags").
THEOREM LoneEditsStick == Spec => []LoneEditSticks
<1>1. LabelsInv => LoneEditSticks
  BY DEF LabelsInv, EditsInv, LoneEditSticks
<1> QED BY <1>1, LabelsInvariant, PTL

=============================================================================
