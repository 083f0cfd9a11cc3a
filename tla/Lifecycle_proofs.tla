-------------------------- MODULE Lifecycle_proofs --------------------------
(***************************************************************************)
(* Proofs about Lifecycle, for any finite set of variables, any number of  *)
(* objects and any subset of the interfaces: the reference counts, and the *)
(* handles that the steps of the opens and closes obtain and release.      *)
(***************************************************************************)
EXTENDS Lifecycle, FiniteSetTheorems, SequenceTheorems, WellFoundedInduction, TLAPS

-----------------------------------------------------------------------------
\* The inductive invariant of the counts, part by part

\* The variables that refer to an object, and the objects a constructor gave up.
Holders(o) == {v \in Var : var[v] = o}
LostObjects == {l.obj : l \in lost}

ObjectRecord(x) ==
  /\ x = [field |-> x.field, mark |-> x.mark, born |-> x.born, destroyed |-> x.destroyed]
  /\ x.born \in BOOLEAN /\ x.destroyed \in BOOLEAN

ObjectInv ==
  /\ DOMAIN object = Object
  /\ \A o \in Object : ObjectRecord(object[o])

\* Objects are numbered as they are made.
BornInv == \E n \in 0 .. MaxObjects : Born = 1 .. n

\* Variables refer to objects that were made and whose constructor came to its end.
VarInv ==
  /\ var \in [Var -> Object \cup {NoObject}]
  /\ \A v \in Var : var[v] # NoObject => var[v] \in Born /\ var[v] \notin LostObjects
LostInv == LostObjects \subseteq Born

\* The count of an object is the number of the variables that refer to it.
CountInv ==
  /\ count \in [Object -> Nat]
  /\ \A o \in Object : count[o] = Cardinality(Holders(o))

DestroyedInv ==
  \A o \in Object :
    object[o].born /\ o \notin LostObjects => (object[o].destroyed <=> count[o] = 0)

IInv == ObjectInv /\ BornInv /\ VarInv /\ LostInv /\ CountInv /\ DestroyedInv

-----------------------------------------------------------------------------
\* Facts about the operators

LEMMA HoldersFinite ==
  ASSUME NEW o
  PROVE  IsFiniteSet(Holders(o)) /\ Cardinality(Holders(o)) \in Nat
  <1>1. Holders(o) \in SUBSET Var
    BY DEF Holders
  <1> QED BY <1>1, VarAssumption, FS_Subset, FS_CardinalityType

\* A variable that comes to refer to an object adds one to its holders, one that ceases to
\* takes one away.
LEMMA HoldersGain ==
  ASSUME var \in [Var -> Object \cup {NoObject}], NEW v \in Var, NEW o,
         var[v] # o, var' = [var EXCEPT ![v] = o]
  PROVE  Cardinality(Holders(o)') = Cardinality(Holders(o)) + 1
  <1>1. Holders(o)' = Holders(o) \cup {v}
    BY DEF Holders
  <1>2. v \notin Holders(o)
    BY DEF Holders
  <1>3. IsFiniteSet(Holders(o))
    BY HoldersFinite
  <1> QED BY <1>1, <1>2, <1>3, FS_AddElement

LEMMA HoldersLose ==
  ASSUME var \in [Var -> Object \cup {NoObject}], NEW v \in Var, NEW o, NEW q,
         var[v] = q, q # o, var' = [var EXCEPT ![v] = o]
  PROVE  Cardinality(Holders(q)') = Cardinality(Holders(q)) - 1
  <1>1. Holders(q)' = Holders(q) \ {v}
    BY DEF Holders
  <1>2. v \in Holders(q) /\ IsFiniteSet(Holders(q))
    BY HoldersFinite DEF Holders
  <1> QED BY <1>1, <1>2, FS_RemoveElement

LEMMA HoldersKeep ==
  ASSUME var \in [Var -> Object \cup {NoObject}], NEW v \in Var, NEW o,
         var' = [var EXCEPT ![v] = o], NEW p, p # o, p # var[v]
  PROVE  Cardinality(Holders(p)') = Cardinality(Holders(p))
  <1>1. Holders(p)' = Holders(p)
    BY DEF Holders
  <1> QED BY <1>1

\* The next object is one that is not born, and then those born are again an interval.
LEMMA NextIsNew ==
  ASSUME BornInv, NextObject \in Object
  PROVE  /\ NextObject \notin Born /\ NextObject # NoObject
         /\ \A B : B = Born \cup {NextObject} => \E n \in 0 .. MaxObjects : B = 1 .. n
  <1>1. PICK n \in 0 .. MaxObjects : Born = 1 .. n
    BY DEF BornInv
  <1>2. MaxObjects \in Nat /\ n \in Nat
    BY <1>1, BoundAssumption
  <1>3. Cardinality(1 .. n) = n
    <2>1. 1 \in Int /\ n \in Int
      BY <1>2
    <2>2. Cardinality(1 .. n) = IF 1 > n THEN 0 ELSE n - 1 + 1
      BY <2>1, FS_Interval
    <2> QED BY <2>2, <1>2
  <1>4. NextObject = n + 1
    BY <1>1, <1>3 DEF NextObject
  <1>5. Born \cup {NextObject} = 1 .. n + 1
    BY <1>1, <1>2, <1>4
  <1>6. n + 1 \in 0 .. MaxObjects
    BY <1>2, <1>4 DEF Object
  <1>7. NextObject \notin Born /\ NextObject # NoObject
    BY <1>1, <1>2, <1>4 DEF NoObject
  <1>8. ASSUME NEW B, B = Born \cup {NextObject}
        PROVE  \E m \in 0 .. MaxObjects : B = 1 .. m
    BY <1>5, <1>6, <1>8
  <1> QED BY <1>7, <1>8

\* Settling an object destroys it when its count has come to 0, and touches no other.
LEMMA SettleDestroys ==
  ASSUME ObjectInv, NEW c, NEW o \in Object, c[o] \in Nat, Settle(c, o)
  PROVE  /\ ObjectInv'
         /\ \A p \in Object : object'[p].born = object[p].born
         /\ \A p \in Object \ {o} : object'[p] = object[p]
         /\ object'[o].destroyed = (object[o].destroyed \/ c[o] = 0)
  <1>1. o # NoObject
    BY BoundAssumption DEF Object, NoObject
  <1>2. CASE c[o] > 0
    <2>1. UNCHANGED object
      BY <1>1, <1>2 DEF Settle
    <2>2. object[o].destroyed \in BOOLEAN /\ ~(c[o] = 0)
      BY <1>2 DEF ObjectInv, ObjectRecord
    <2> QED BY <2>1, <2>2 DEF ObjectInv
  <1>3. CASE ~(c[o] > 0)
    <2>1. PICK f, m : object' = [object EXCEPT ![o] = [@ EXCEPT !.field = f, !.mark = m,
                                                                  !.destroyed = TRUE]]
      BY <1>1, <1>3 DEF Settle
    <2>2. ObjectRecord(object[o])
      BY DEF ObjectInv
    <2>3. object'[o] = [field |-> f, mark |-> m, born |-> object[o].born, destroyed |-> TRUE]
      BY <2>1, <2>2 DEF ObjectRecord, ObjectInv
    <2>4. ObjectRecord(object'[o])
      BY <2>2, <2>3 DEF ObjectRecord
    <2>5. DOMAIN object' = Object /\ \A p \in Object \ {o} : object'[p] = object[p]
      BY <2>1 DEF ObjectInv
    <2>6. ObjectInv'
      BY <2>4, <2>5 DEF ObjectInv
    <2>7. /\ c[o] = 0
          /\ object'[o].destroyed = TRUE
          /\ object'[o].born = object[o].born
      BY <1>3, <2>3
    <2>8. \A p \in Object : object'[p].born = object[p].born
      BY <2>5, <2>7
    <2> QED BY <2>5, <2>6, <2>7, <2>8
  <1> QED BY <1>2, <1>3

-----------------------------------------------------------------------------
\* Each action and the counts

\* The objects made stay those made, and so do those given up.
LEMMA BornStays ==
  ASSUME IInv, ObjectInv', \A p \in Object : object'[p].born = object[p].born, UNCHANGED lost
  PROVE  Born' = Born /\ LostObjects' = LostObjects /\ BornInv' /\ LostInv'
  <1>1. Born' = Born /\ LostObjects' = LostObjects
    BY DEF Born, LostObjects
  <1> QED BY <1>1 DEF IInv, BornInv, LostInv

LEMMA Unchanged ==
  ASSUME IInv, UNCHANGED <<object, var, count, lost>>
  PROVE  IInv'
  <1>1. Born' = Born /\ LostObjects' = LostObjects
    BY DEF Born, LostObjects
  <1> QED BY <1>1 DEF IInv, ObjectInv, BornInv, VarInv, LostInv, CountInv, DestroyedInv, Holders

LEMMA ClearKept ==
  ASSUME IInv, NEW v \in Var, Clear(v)
  PROVE  IInv'
  <1>1. PICK o \in Object : o = var[v]
    BY DEF Clear, IInv, VarInv
  <1>2. /\ var \in [Var -> Object \cup {NoObject}] /\ var[v] # NoObject
        /\ var' = [var EXCEPT ![v] = NoObject] /\ UNCHANGED lost
    BY DEF Clear, IInv, VarInv
  <1>3. o # NoObject /\ o \in Born /\ o \notin LostObjects
    BY <1>1, <1>2 DEF IInv, VarInv
  <1>4. /\ count \in [Object -> Nat]
        /\ \A p \in Object : count[p] = Cardinality(Holders(p))
    BY DEF IInv, CountInv
  <1>5. count' = [count EXCEPT ![o] = count[o] - 1] /\ Settle(count', o)
    BY <1>1, <1>3 DEF Clear, Dropped
  <1>6. Cardinality(Holders(o)') = count[o] - 1
    <2>1. Cardinality(Holders(o)') = Cardinality(Holders(o)) - 1
      BY <1>1, <1>2, <1>3, HoldersLose
    <2> QED BY <1>4, <2>1
  <1>7. CountInv'
    <2>1. ASSUME NEW p \in Object, p # o
          PROVE  count'[p] = Cardinality(Holders(p)')
      <3>1. p # NoObject /\ p # var[v]
        BY <1>1, <2>1, BoundAssumption DEF Object, NoObject
      <3>2. Cardinality(Holders(p)') = Cardinality(Holders(p))
        BY <1>2, <3>1, HoldersKeep
      <3>3. count'[p] = count[p]
        BY <1>4, <1>5, <2>1
      <3> QED BY <1>4, <3>2, <3>3
    <2>2. Cardinality(Holders(o)') \in Nat
      BY <1>6, <1>4, HoldersFinite, <1>2, FS_Subset, FS_CardinalityType, VarAssumption DEF Holders
    <2> QED BY <1>4, <1>5, <1>6, <2>1, <2>2 DEF CountInv
  <1>8. count'[o] \in Nat
    BY <1>7 DEF CountInv
  <1>9. /\ ObjectInv'
        /\ \A p \in Object : object'[p].born = object[p].born
        /\ \A p \in Object \ {o} : object'[p] = object[p]
        /\ object'[o].destroyed = (object[o].destroyed \/ count'[o] = 0)
    BY <1>5, <1>8, SettleDestroys DEF IInv
  <1>10. Born' = Born /\ LostObjects' = LostObjects /\ BornInv' /\ LostInv'
    BY <1>2, <1>9, BornStays
  <1>11. VarInv'
    BY <1>2, <1>10 DEF IInv, VarInv
  <1>12. DestroyedInv'
    <2>1. object[o].destroyed <=> count[o] = 0
      BY <1>3 DEF IInv, DestroyedInv, Born
    <2>2. count[o] # 0
      BY <1>4, <1>5, <1>8
    <2> QED BY <1>4, <1>5, <1>9, <1>10, <2>1, <2>2 DEF IInv, DestroyedInv
  <1> QED BY <1>7, <1>9, <1>10, <1>11, <1>12 DEF IInv

LEMMA CopyKept ==
  ASSUME IInv, NEW v \in Var, NEW w \in Var, Copy(v, w)
  PROVE  IInv'
  <1>1. PICK q \in Object, o \in Object \cup {NoObject} : q = var[w] /\ o = var[v]
    BY DEF Copy, IInv, VarInv
  <1>2. /\ var \in [Var -> Object \cup {NoObject}] /\ q # NoObject /\ o # q
        /\ var' = [var EXCEPT ![v] = q] /\ UNCHANGED lost
    BY <1>1 DEF Copy, IInv, VarInv
  <1>3. /\ q \in Born /\ q \notin LostObjects
        /\ o # NoObject => o \in Born /\ o \notin LostObjects
    BY <1>1, <1>2 DEF IInv, VarInv
  <1>4. /\ count \in [Object -> Nat]
        /\ \A p \in Object : count[p] = Cardinality(Holders(p))
    BY DEF IInv, CountInv
  <1>5. /\ count' = Dropped([count EXCEPT ![q] = count[q] + 1], o)
        /\ Settle(count', o)
    BY <1>1 DEF Copy, Taken
  <1>6. /\ count'[q] = count[q] + 1
        /\ \A p \in Object \ {q, o} : count'[p] = count[p]
        /\ o # NoObject => count'[o] = count[o] - 1
        /\ count' = [p \in Object |-> count'[p]]
    BY <1>2, <1>4, <1>5 DEF Dropped
  <1>7. CountInv'
    <2>1. ASSUME NEW p \in Object
          PROVE  count'[p] = Cardinality(Holders(p)') /\ count'[p] \in Nat
      <3>1. p # NoObject
        BY BoundAssumption DEF Object, NoObject
      <3>2. CASE p = q
        <4>1. Cardinality(Holders(q)') = Cardinality(Holders(q)) + 1
          BY <1>1, <1>2, HoldersGain
        <4> QED BY <1>4, <1>6, <3>2, <4>1
      <3>3. CASE p = o
        <4>1. Cardinality(Holders(o)') = Cardinality(Holders(o)) - 1
          BY <1>1, <1>2, HoldersLose
        <4>2. v \in Holders(o) /\ IsFiniteSet(Holders(o))
          BY <1>1, HoldersFinite DEF Holders
        <4>3. Cardinality(Holders(o)) # 0 /\ Cardinality(Holders(o)) \in Nat
          BY <4>2, FS_EmptySet, HoldersFinite
        <4> QED BY <1>4, <1>6, <3>1, <3>3, <4>1, <4>3
      <3>4. CASE p # q /\ p # o
        <4>1. Cardinality(Holders(p)') = Cardinality(Holders(p))
          BY <1>1, <1>2, <3>4, HoldersKeep
        <4> QED BY <1>4, <1>6, <3>4, <4>1
      <3> QED BY <3>2, <3>3, <3>4
    <2> QED BY <1>6, <2>1 DEF CountInv
  <1>8. /\ ObjectInv'
        /\ \A p \in Object : object'[p].born = object[p].born
        /\ \A p \in Object \ {o} : object'[p] = object[p]
        /\ o # NoObject => object'[o].destroyed = (object[o].destroyed \/ count'[o] = 0)
    <2>1. CASE o = NoObject
      BY <1>5, <2>1 DEF Settle, IInv, ObjectInv
    <2>2. CASE o # NoObject
      <3>1. count'[o] \in Nat
        BY <1>7, <2>2 DEF CountInv
      <3> QED BY <1>5, <2>2, <3>1, SettleDestroys DEF IInv
    <2> QED BY <2>1, <2>2
  <1>9. Born' = Born /\ LostObjects' = LostObjects /\ BornInv' /\ LostInv'
    BY <1>2, <1>8, BornStays
  <1>10. VarInv'
    BY <1>2, <1>3, <1>9 DEF IInv, VarInv
  <1>11. DestroyedInv'
    <2>1. ASSUME NEW p \in Object, object'[p].born, p \notin LostObjects
          PROVE  object'[p].destroyed <=> count'[p] = 0
      <3>1. object[p].destroyed <=> count[p] = 0
        BY <1>8, <2>1 DEF IInv, DestroyedInv
      <3>2. CASE p = q
        <4>1. ~object[q].destroyed
          <5>1. w \in Holders(q) /\ IsFiniteSet(Holders(q))
            BY <1>1, HoldersFinite DEF Holders
          <5>2. Cardinality(Holders(q)) # 0
            BY <5>1, FS_EmptySet
          <5> QED BY <1>4, <3>1, <3>2, <5>2
        <4> QED BY <1>2, <1>4, <1>6, <1>8, <3>2, <4>1
      <3>3. CASE p = o
        <4>1. count[o] # 0
          <5>1. count'[o] \in Nat /\ o # NoObject
            BY <1>7, <3>3, BoundAssumption DEF CountInv, Object, NoObject
          <5> QED BY <1>4, <1>6, <3>3, <5>1
        <4>2. o # NoObject
          BY <3>3, BoundAssumption DEF Object, NoObject
        <4> QED BY <1>8, <3>1, <3>3, <4>1, <4>2
      <3>4. CASE p # q /\ p # o
        BY <1>6, <1>8, <3>1, <3>4
      <3> QED BY <3>2, <3>3, <3>4
    <2> QED BY <1>9, <2>1 DEF DestroyedInv
  <1> QED BY <1>7, <1>8, <1>9, <1>10, <1>11 DEF IInv

\* An object that reads or sets a property of its own keeps its count.
LEMMA AccessKeeps ==
  ASSUME NEW c \in [Object -> Nat], NEW o \in Object
  PROVE  Subsref(c, o) = c /\ \A accepted \in BOOLEAN : Subsasgn(c, o, accepted) = c
  <1>1. o # NoObject
    BY BoundAssumption DEF Object, NoObject
  <1>2. Dropped(Taken(c, o), o) = c
    <2>1. PICK d : d = Taken(c, o)
      OBVIOUS
    <2>2. d \in [Object -> Nat] /\ d[o] - 1 = c[o] /\ \A p \in Object \ {o} : d[p] = c[p]
      BY <2>1 DEF Taken
    <2>3. [d EXCEPT ![o] = d[o] - 1] = c
      BY <2>2
    <2> QED BY <1>1, <2>1, <2>3 DEF Dropped
  <1>3. Subsref(c, o) = c
    BY <1>2 DEF Subsref
  <1> QED BY <1>2, <1>3 DEF Subsasgn

LEMMA PropertyKept ==
  ASSUME IInv, NEW v \in Var, Property(v)
  PROVE  IInv'
  <1>1. PICK o \in Object : o = var[v]
    BY DEF Property, IInv, VarInv
  <1>2. count \in [Object -> Nat] /\ count[o] = Cardinality(Holders(o))
    BY DEF IInv, CountInv
  <1>3. count' = count
    BY <1>1, <1>2, AccessKeeps DEF Property
  <1>4. count[o] > 0
    <2>1. v \in Holders(o) /\ IsFiniteSet(Holders(o))
      BY <1>1, HoldersFinite DEF Holders
    <2>2. Cardinality(Holders(o)) # 0
      BY <2>1, FS_EmptySet
    <2> QED BY <1>2, <2>2
  <1>5. UNCHANGED <<object, var, count, lost>>
    BY <1>1, <1>3, <1>4 DEF Property, Settle
  <1> QED BY <1>5, Unchanged

LEMMA CloseCallKept ==
  ASSUME IInv, NEW v \in Var, CloseCall(v)
  PROVE  IInv'
  <1>1. PICK o \in Object : o = var[v]
    BY DEF CloseCall, IInv, VarInv
  <1>2. PICK f, m : object' = [object EXCEPT ![o] = [@ EXCEPT !.field = f, !.mark = m]]
    BY <1>1 DEF CloseCall
  <1>3. UNCHANGED <<var, count, lost>>
    BY DEF CloseCall
  <1>4. ObjectInv' /\ \A p \in Object : /\ object'[p].born = object[p].born
                                       /\ object'[p].destroyed = object[p].destroyed
    <2>1. ObjectRecord(object[o])
      BY DEF IInv, ObjectInv
    <2>2. object'[o] = [field |-> f, mark |-> m, born |-> object[o].born,
                        destroyed |-> object[o].destroyed]
      BY <1>2, <2>1 DEF ObjectRecord, IInv, ObjectInv
    <2>3. ObjectRecord(object'[o])
      BY <2>1, <2>2 DEF ObjectRecord
    <2>4. DOMAIN object' = Object /\ \A p \in Object \ {o} : object'[p] = object[p]
      BY <1>2 DEF IInv, ObjectInv
    <2>5. object'[o].born = object[o].born /\ object'[o].destroyed = object[o].destroyed
      BY <2>2
    <2>6. ObjectInv'
      BY <2>3, <2>4 DEF IInv, ObjectInv
    <2> QED BY <2>4, <2>5, <2>6
  <1>5. Born' = Born /\ LostObjects' = LostObjects /\ BornInv' /\ LostInv'
    BY <1>3, <1>4, BornStays
  <1>6. Holders(o)' = Holders(o)
    BY <1>3 DEF Holders
  <1>7. CountInv' /\ VarInv'
    BY <1>3, <1>5 DEF IInv, CountInv, VarInv, Holders
  <1>8. DestroyedInv'
    BY <1>3, <1>4, <1>5 DEF IInv, DestroyedInv
  <1> QED BY <1>4, <1>5, <1>7, <1>8 DEF IInv

\* A new object is one more that is born, and destroyed no more than it was referred to.
LEMMA MakesOne ==
  ASSUME IInv, NEW n, n = NextObject, n \in Object, NEW W,
         object' = [object EXCEPT ![n] = Built(W)]
  PROVE  /\ ObjectInv' /\ BornInv' /\ Born' = Born \cup {n}
         /\ n \notin Born /\ n # NoObject
         /\ object'[n].destroyed = FALSE
         /\ \A p \in Object \ {n} : object'[p] = object[p]
  <1> DEFINE New(f, m) == [field |-> f, mark |-> m, born |-> TRUE, destroyed |-> FALSE]
  <1>1. /\ \E f, m : object'[n] = New(f, m)
        /\ DOMAIN object' = Object
        /\ \A p \in Object \ {n} : object'[p] = object[p]
    BY DEF Built, IInv, ObjectInv
  <1>2. object'[n].destroyed = FALSE /\ object'[n].born = TRUE /\ ObjectRecord(object'[n])
    <2>1. PICK f, m : object'[n] = New(f, m)
      BY <1>1
    <2>2. PICK x : x = New(f, m) /\ x = object'[n]
      BY <2>1
    <2>3. x.field = f /\ x.mark = m /\ x.born = TRUE /\ x.destroyed = FALSE
      BY <2>2
    <2>4. ObjectRecord(x)
      BY <2>2, <2>3 DEF ObjectRecord
    <2> QED BY <2>2, <2>3, <2>4
  <1>3. ObjectInv'
    BY <1>1, <1>2 DEF IInv, ObjectInv
  <1>4. Born' = Born \cup {n}
    BY <1>1, <1>2 DEF Born
  <1>5. /\ n \notin Born /\ n # NoObject
        /\ \E m \in 0 .. MaxObjects : Born \cup {n} = 1 .. m
    BY NextIsNew DEF IInv
  <1>6. BornInv'
    BY <1>4, <1>5 DEF BornInv
  <1> QED BY <1>1, <1>2, <1>3, <1>4, <1>5, <1>6

LEMMA ConstructKept ==
  ASSUME IInv, NEW v \in Var, Construct(v)
  PROVE  IInv'
  <1>1. PICK n \in Object : n = NextObject
    BY DEF Construct
  <1>2. PICK W : object' = [object EXCEPT ![n] = Built(W)]
    BY <1>1 DEF Construct
  <1>3. /\ var[v] = NoObject /\ var' = [var EXCEPT ![v] = n] /\ UNCHANGED lost
        /\ count' = [count EXCEPT ![n] = count[n] + 1]
    BY <1>1 DEF Construct, Taken
  <1>4. /\ ObjectInv' /\ BornInv' /\ Born' = Born \cup {n}
        /\ n \notin Born /\ n # NoObject
        /\ object'[n].destroyed = FALSE
        /\ \A p \in Object \ {n} : object'[p] = object[p]
    BY <1>1, <1>2, MakesOne
  <1>5. /\ var \in [Var -> Object \cup {NoObject}]
        /\ count \in [Object -> Nat]
        /\ \A p \in Object : count[p] = Cardinality(Holders(p))
    BY DEF IInv, VarInv, CountInv
  <1>6. CountInv'
    <2>1. ASSUME NEW p \in Object
          PROVE  count'[p] = Cardinality(Holders(p)') /\ count'[p] \in Nat
      <3>1. p # NoObject
        BY BoundAssumption DEF Object, NoObject
      <3>2. CASE p = n
        <4>1. Cardinality(Holders(n)') = Cardinality(Holders(n)) + 1
          BY <1>3, <1>4, <1>5, HoldersGain
        <4> QED BY <1>3, <1>5, <3>2, <4>1
      <3>3. CASE p # n
        <4>1. Cardinality(Holders(p)') = Cardinality(Holders(p))
          <5>1. p # n /\ p # var[v]
            BY <1>3, <3>1, <3>3
          <5>2. var \in [Var -> Object \cup {NoObject}] /\ var' = [var EXCEPT ![v] = n]
            BY <1>3, <1>5
          <5> QED BY <5>1, <5>2, HoldersKeep
        <4> QED BY <1>3, <1>5, <3>3, <4>1
      <3> QED BY <3>2, <3>3
    <2> QED BY <1>3, <1>5, <2>1 DEF CountInv
  <1>7. LostObjects' = LostObjects /\ LostInv' /\ n \notin LostObjects
    BY <1>3, <1>4 DEF IInv, LostInv, LostObjects
  <1>8. VarInv'
    BY <1>3, <1>4, <1>5, <1>7 DEF IInv, VarInv
  <1>9. DestroyedInv'
    <2>1. count'[n] # 0
      BY <1>3, <1>5
    <2>2. \A p \in Object \ {n} : count'[p] = count[p]
      BY <1>3, <1>5
    <2> QED BY <1>4, <1>7, <2>1, <2>2 DEF IInv, DestroyedInv
  <1> QED BY <1>4, <1>6, <1>7, <1>8, <1>9 DEF IInv

LEMMA ConstructRaisesKept ==
  ASSUME IInv, ConstructRaises
  PROVE  IInv'
  <1>1. PICK n \in Object : n = NextObject
    BY DEF ConstructRaises
  <1>2. PICK W, part : /\ object' = [object EXCEPT ![n] = Built(W)]
                       /\ lost' = lost \cup {[obj |-> n, part |-> part]}
    BY <1>1 DEF ConstructRaises
  <1>3. UNCHANGED <<var, count>>
    BY DEF ConstructRaises
  <1>4. /\ ObjectInv' /\ BornInv' /\ Born' = Born \cup {n}
        /\ n \notin Born /\ n # NoObject
        /\ \A p \in Object \ {n} : object'[p] = object[p]
    BY <1>1, <1>2, MakesOne
  <1>5. LostObjects' = LostObjects \cup {n}
    <2>1. PICK l : l = [obj |-> n, part |-> part]
      OBVIOUS
    <2>2. l.obj = n
      BY <2>1
    <2>3. lost' = lost \cup {l}
      BY <1>2, <2>1
    <2> QED BY <2>2, <2>3 DEF LostObjects
  <1>6. LostInv'
    BY <1>4, <1>5 DEF IInv, LostInv
  <1>7. VarInv'
    BY <1>3, <1>4, <1>5 DEF IInv, VarInv
  <1>8. CountInv'
    BY <1>3 DEF IInv, CountInv, Holders
  <1>9. DestroyedInv'
    BY <1>3, <1>4, <1>5 DEF IInv, DestroyedInv
  <1> QED BY <1>4, <1>6, <1>7, <1>8, <1>9 DEF IInv

-----------------------------------------------------------------------------
\* The least element of a set of numbers

LEMMA Least ==
  ASSUME NEW T \in SUBSET Nat, T # {}
  PROVE  \E m \in T : \A k \in T : m <= k
  <1>1. PICK m \in T : \A k \in T : <<k, m>> \notin OpToRel(<, Nat)
    BY WFMin, NatLessThanWellFounded, Zenon
  <1>2. \A k \in T : ~ (k < m)
    BY <1>1, Zenon DEF OpToRel
  <1> QED BY <1>2

-----------------------------------------------------------------------------
\* The worlds that steps run through

NextWorld(W, steps, f, i) == IF i = 0 THEN W ELSE Pass(f[i - 1], steps[i])
WorldsUpTo(W, steps, f, n) == f = [i \in 0 .. n |-> NextWorld(W, steps, f, i)]

LEMMA WorldsExist ==
  ASSUME NEW W, NEW steps, NEW n \in Nat
  PROVE  \E f : WorldsUpTo(W, steps, f, n)
  <1> DEFINE T == {k \in Nat : ~ \E f : WorldsUpTo(W, steps, f, k)}
  <1>1. SUFFICES ASSUME T # {} PROVE FALSE
    BY DEF WorldsUpTo
  <1>2. PICK k \in T : \A j \in T : k <= j
    BY <1>1, Least
  <1>3. CASE k = 0
    <2>1. WorldsUpTo(W, steps, [i \in 0 .. 0 |-> W], 0)
      BY DEF WorldsUpTo, NextWorld
    <2> QED BY <1>2, <1>3, <2>1
  <1>4. CASE k # 0
    <2>1. k - 1 \in Nat /\ k - 1 \notin T
      BY <1>2, <1>4
    <2>2. PICK f : WorldsUpTo(W, steps, f, k - 1)
      BY <2>1
    <2>3. PICK g : g = [i \in 0 .. k |-> IF i < k THEN f[i] ELSE NextWorld(W, steps, f, k)]
      OBVIOUS
    <2>4. ASSUME NEW i \in 0 .. k
          PROVE  g[i] = NextWorld(W, steps, g, i)
      <3>1. i # 0 => i - 1 \in 0 .. k /\ i - 1 < k
        OBVIOUS
      <3>2. i # 0 => g[i - 1] = f[i - 1]
        BY <2>3, <3>1
      <3>3. CASE i < k
        <4>1. i \in 0 .. (k - 1)
          BY <1>2, <3>3
        <4>2. f[i] = NextWorld(W, steps, f, i)
          BY <2>2, <4>1 DEF WorldsUpTo
        <4> QED BY <2>3, <3>2, <3>3, <4>2 DEF NextWorld
      <3>4. CASE ~ (i < k)
        <4>1. i = k
          BY <1>2, <3>4
        <4>2. g[i] = NextWorld(W, steps, f, k)
          BY <2>3, <3>4
        <4> QED BY <1>4, <3>2, <4>1, <4>2 DEF NextWorld
      <3> QED BY <3>3, <3>4
    <2>5. g = [i \in 0 .. k |-> g[i]]
      BY <2>3
    <2>6. WorldsUpTo(W, steps, g, k)
      BY <2>4, <2>5, Zenon DEF WorldsUpTo
    <2> QED BY <1>2, <2>6
  <1> QED BY <1>3, <1>4

\* Each world is the one before after a step that passes.
LEMMA WorldsAre ==
  ASSUME NEW W, NEW steps, NEW n \in Nat
  PROVE  /\ Worlds(W, steps, n)[0] = W
         /\ \A i \in 1 .. n :
              Worlds(W, steps, n)[i] = Pass(Worlds(W, steps, n)[i - 1], steps[i])
  <1>1. PICK f : f = CHOOSE g : WorldsUpTo(W, steps, g, n)
    OBVIOUS
  <1>2. WorldsUpTo(W, steps, f, n)
    BY <1>1, WorldsExist
  <1>3. Worlds(W, steps, n) = f
    BY <1>1, Zenon DEF Worlds, WorldsUpTo, NextWorld
  <1>4. f[0] = W
    BY <1>2 DEF WorldsUpTo, NextWorld
  <1>5. ASSUME NEW i \in 1 .. n PROVE f[i] = Pass(f[i - 1], steps[i])
    <2>1. i \in 0 .. n /\ i # 0
      OBVIOUS
    <2> QED BY <1>2, <2>1, Zenon DEF WorldsUpTo, NextWorld
  <1> QED BY <1>3, <1>4, <1>5

-----------------------------------------------------------------------------
\* There is always a handle for an object that does not hold one of the kind it asks for

\* The resources an object of each interface holds.
Uses(k) ==
  CASE k \in {"udp", "udpport"} -> {"fd", "buffer"}
    [] k \in {"modbus", "modbus_serial"} -> {"ctx"}
    [] k = "vxi11" -> {"client", "link"}
    [] k = "gpib" -> {}
    [] k = "visadev" -> {"lib", "rm", "instr"}
    [] OTHER -> {"fd"}

Mine(o, r) == [by |-> o, res |-> r]
Given(own, h) == own[h] \notin {Nobody, Octave}

\* No two handles are the same thing of the same object, and Octave has none but 0.
Sorted(own) ==
  /\ own \in [Handle -> Holding]
  /\ \A h \in Handle : own[h] = Octave => h = 0
  /\ \A h \in Handle : Given(own, h) => own[h].by \in Object /\ own[h].res \in Uses(kind)
  /\ \A g, h \in Handle : own[g] = own[h] /\ Given(own, g) => g = h

LEMMA UsesFew ==
  ASSUME NEW k
  PROVE  /\ Uses(k) \subseteq Resource /\ IsFiniteSet(Uses(k))
         /\ Cardinality(Uses(k)) \in 0 .. 3
  <1> DEFINE Three(a, b, c) == {a, b, c}
  <1>1. ASSUME NEW a, NEW b, NEW c, NEW S \in SUBSET Three(a, b, c)
        PROVE  IsFiniteSet(S) /\ Cardinality(S) \in 0 .. 3
    <2>1. IsFiniteSet({a}) /\ Cardinality({a}) = 1
      BY FS_Singleton
    <2>2. IsFiniteSet({a} \cup {b}) /\ Cardinality({a} \cup {b}) \in 1 .. 2
      BY <2>1, FS_AddElement
    <2>3. IsFiniteSet(({a} \cup {b}) \cup {c}) /\ Cardinality(({a} \cup {b}) \cup {c}) \in 1 .. 3
      BY <2>2, FS_AddElement
    <2>4. S \in SUBSET (({a} \cup {b}) \cup {c})
      OBVIOUS
    <2>5. IsFiniteSet(S) /\ Cardinality(S) <= Cardinality(({a} \cup {b}) \cup {c})
      BY <2>3, <2>4, FS_Subset
    <2>6. Cardinality(S) \in Nat
      BY <2>5, FS_CardinalityType
    <2> QED BY <2>3, <2>5, <2>6
  <1>2. \/ Uses(k) \in SUBSET Three("fd", "buffer", "ctx")
        \/ Uses(k) \in SUBSET Three("client", "link", "ctx")
        \/ Uses(k) \in SUBSET Three("lib", "rm", "instr")
    BY DEF Uses
  <1>3. Uses(k) \subseteq Resource
    BY DEF Uses, Resource
  <1> HIDE DEF Three
  <1> QED BY <1>1, <1>2, <1>3

LEMMA ObjectsMany == IsFiniteSet(Object) /\ Cardinality(Object) = MaxObjects
  <1>1. 1 \in Int /\ MaxObjects \in Int /\ MaxObjects >= 1
    BY BoundAssumption
  <1>2. /\ IsFiniteSet(1 .. MaxObjects)
        /\ Cardinality(1 .. MaxObjects) = IF 1 > MaxObjects THEN 0 ELSE MaxObjects - 1 + 1
    BY <1>1, FS_Interval
  <1> QED BY <1>1, <1>2 DEF Object

\* The objects hold fewer things than there are handles if one lacks something.
LEMMA HoldingsFew ==
  ASSUME NEW k, NEW o \in Object, NEW q \in Uses(k)
  PROVE  /\ IsFiniteSet((Object \X Uses(k)) \ {<<o, q>>})
         /\ Cardinality((Object \X Uses(k)) \ {<<o, q>>}) < MaxHandle
  <1>1. PICK c \in 0 .. 3 : c = Cardinality(Uses(k))
    BY UsesFew
  <1>2. PICK T : T = Object \X Uses(k)
    OBVIOUS
  <1>3. IsFiniteSet(T) /\ Cardinality(T) = MaxObjects * c
    BY <1>1, <1>2, UsesFew, ObjectsMany, FS_Product
  <1>4. PICK e : e = <<o, q>>
    OBVIOUS
  <1>5. e \in T
    BY <1>2, <1>4
  <1>6. IsFiniteSet(T \ {e}) /\ Cardinality(T \ {e}) = Cardinality(T) - 1
    BY <1>3, <1>5, FS_RemoveElement
  <1>7. MaxObjects * c <= 3 * MaxObjects
    <2>1. c = 0 \/ c = 1 \/ c = 2 \/ c = 3
      OBVIOUS
    <2> QED BY <2>1, BoundAssumption
  <1>8. MaxObjects * c \in Int
    BY BoundAssumption
  <1>9. Cardinality(T \ {e}) < MaxHandle
    <2>1. PICK p \in Int : p = MaxObjects * c
      BY <1>8
    <2>2. Cardinality(T \ {e}) = p - 1 /\ p <= 3 * MaxObjects
      BY <1>3, <1>6, <1>7, <2>1
    <2> QED BY <2>2, BoundAssumption
  <1> QED BY <1>2, <1>4, <1>6, <1>9

LEMMA FreeHandle ==
  ASSUME NEW own, Sorted(own), NEW o \in Object, NEW q \in Uses(kind),
         \A h \in Handle : own[h] # Mine(o, q)
  PROVE  \E h \in Handle : h > 0 /\ own[h] = Nobody
  <1>1. SUFFICES ASSUME \A h \in Handle : h > 0 => own[h] # Nobody PROVE FALSE
    OBVIOUS
  <1>2. \A h \in 1 .. MaxHandle : h \in Handle /\ Given(own, h)
    BY <1>1, BoundAssumption DEF Sorted, Given, Handle
  <1>3. PICK T : T = (Object \X Uses(kind)) \ {<<o, q>>}
    OBVIOUS
  <1>4. PICK f : f = [h \in 1 .. MaxHandle |-> <<own[h].by, own[h].res>>]
    OBVIOUS
  <1>5. \A h \in 1 .. MaxHandle : own[h] = Mine(own[h].by, own[h].res)
    <2>1. \A h \in 1 .. MaxHandle : own[h] \in [by : Object, res : Resource]
      BY <1>2 DEF Sorted, Given, Holding
    <2> QED BY <2>1 DEF Mine
  <1>6. f \in [1 .. MaxHandle -> T]
    <2>1. ASSUME NEW h \in 1 .. MaxHandle
          PROVE  <<own[h].by, own[h].res>> \in T
      <3>1. own[h].by \in Object /\ own[h].res \in Uses(kind)
        BY <1>2 DEF Sorted
      <3>2. <<own[h].by, own[h].res>> # <<o, q>>
        BY <1>2, <1>5
      <3> QED BY <1>3, <3>1, <3>2
    <2> QED BY <1>4, <2>1
  <1>7. IsFiniteSet(T) /\ Cardinality(T) < MaxHandle
    BY <1>3, HoldingsFew
  <1>8. IsFiniteSet(1 .. MaxHandle) /\ Cardinality(1 .. MaxHandle) = MaxHandle
    <2>1. 1 \in Int /\ MaxHandle \in Int /\ MaxHandle >= 1
      BY BoundAssumption
    <2>2. /\ IsFiniteSet(1 .. MaxHandle)
          /\ Cardinality(1 .. MaxHandle) = IF 1 > MaxHandle THEN 0 ELSE MaxHandle - 1 + 1
      BY <2>1, FS_Interval
    <2> QED BY <2>1, <2>2
  <1>9. PICK x, y \in 1 .. MaxHandle : x # y /\ f[x] = f[y]
    BY <1>6, <1>7, <1>8, FS_PigeonHole
  <1>10. own[x].by = own[y].by /\ own[x].res = own[y].res
    BY <1>4, <1>9
  <1>11. own[x] = own[y]
    BY <1>5, <1>10
  <1> QED BY <1>2, <1>9, <1>11 DEF Sorted

\* The lowest free handle is a free one, and no descriptor's number means a pointer.
LEMMA LowestIsFree ==
  ASSUME NEW own, Sorted(own), NEW o \in Object, NEW q \in Uses(kind),
         \A h \in Handle : own[h] # Mine(o, q)
  PROVE  /\ Lowest(q, own) \in Handle /\ own[Lowest(q, own)] = Nobody
         /\ q # "fd" => Lowest(q, own) # 0
  <1> DEFINE T == {h \in Handle : own[h] = Nobody /\ (q = "fd" \/ h > 0)}
  <1>1. T # {} /\ T \in SUBSET Nat
    BY FreeHandle, BoundAssumption DEF Handle
  <1>2. PICK m \in T : \A h \in T : m <= h
    BY <1>1, Least
  <1>3. \E h \in Handle :
          /\ own[h] = Nobody
          /\ q = "fd" \/ h > 0
          /\ \A g \in Handle : own[g] = Nobody /\ (q = "fd" \/ g > 0) => h <= g
    BY <1>2
  <1>4. PICK l : l = Lowest(q, own)
    OBVIOUS
  <1>5. l \in Handle /\ own[l] = Nobody /\ (q = "fd" \/ l > 0)
    BY <1>3, <1>4 DEF Lowest
  <1> QED BY <1>4, <1>5 DEF Handle

-----------------------------------------------------------------------------
\* What a step does to a world

IsField(f) == f \in [Resource -> Handle \cup {None}]

IsWorld(W, o) ==
  /\ W = [self |-> o, owner |-> W.owner, field |-> W.field, mark |-> W.mark]
  /\ W.owner \in [Handle -> Holding] /\ IsField(W.field) /\ W.mark \in BOOLEAN

\* What close does not take for closed: no descriptor, and where it says so descriptor 0.
Closable(h) == h > 0 \/ (h = 0 /\ kind \notin ZeroStays)

\* Handle h is that of a resource of R, as field f has it.
IsOf(f, R, h) == \E r \in R : Closable(f[r]) /\ f[r] = h

\* World V is W without the resources of R.
Without(V, W, R) ==
  /\ \A h \in Handle : V.owner[h] = IF IsOf(W.field, R, h) THEN Nobody ELSE W.owner[h]
  /\ \A r \in Resource :
       V.field[r] = IF r \in R /\ Closable(W.field[r]) /\ kind # "vxi11" THEN None ELSE W.field[r]
  /\ V.mark = W.mark

LEMMA Replaced ==
  ASSUME NEW W, NEW o, IsWorld(W, o), NEW own, NEW f
  PROVE  [W EXCEPT !.owner = own, !.field = f]
           = [self |-> o, owner |-> own, field |-> f, mark |-> W.mark]
  <1>1. PICK a, b, c : a = W.owner /\ b = W.field /\ c = W.mark
    OBVIOUS
  <1>2. W = [self |-> o, owner |-> a, field |-> b, mark |-> c]
    BY <1>1 DEF IsWorld
  <1>3. [W EXCEPT !.owner = own, !.field = f]
          = [self |-> o, owner |-> own, field |-> f, mark |-> c]
    <2>1. PICK U : U = [W EXCEPT !.owner = own]
      OBVIOUS
    <2>2. U = [self |-> o, owner |-> own, field |-> b, mark |-> c]
      BY <1>2, <2>1
    <2>3. [U EXCEPT !.field = f]
            = [self |-> o, owner |-> own, field |-> f, mark |-> c]
      BY <2>2
    <2>4. [W EXCEPT !.owner = own, !.field = f] = [U EXCEPT !.field = f]
      BY <2>1, Zenon
    <2> QED BY <2>3, <2>4, Zenon
  <1> QED BY <1>1, <1>3

LEMMA ReleaseIs ==
  ASSUME NEW W, NEW o, IsWorld(W, o), NEW R \in SUBSET Resource
  PROVE  IsWorld(Release(W, R), o) /\ Without(Release(W, R), W, R)
  <1>1. PICK own : own = [h \in Handle |-> IF \E r \in Closed(W, R) : W.field[r] = h
                                           THEN Nobody ELSE W.owner[h]]
    OBVIOUS
  <1>2. PICK f : f = [r \in Resource |-> IF r \in Closed(W, R) /\ kind # "vxi11"
                                         THEN None ELSE W.field[r]]
    OBVIOUS
  <1>3. PICK V : V = Release(W, R)
    OBVIOUS
  <1>4. V = [W EXCEPT !.owner = own, !.field = f]
    BY <1>1, <1>2, <1>3 DEF Release
  <1>5. V = [self |-> o, owner |-> own, field |-> f, mark |-> W.mark]
    BY <1>4, Replaced
  <1>6. V.owner = own /\ V.field = f /\ V.mark = W.mark
    BY <1>5
  <1>7. V = [self |-> o, owner |-> V.owner, field |-> V.field, mark |-> V.mark]
    BY <1>5, <1>6
  <1>8. own \in [Handle -> Holding] /\ IsField(f) /\ W.mark \in BOOLEAN
    BY <1>1, <1>2 DEF IsWorld, IsField, Holding
  <1>9. IsWorld(V, o)
    BY <1>6, <1>7, <1>8 DEF IsWorld
  <1>10. \A r : r \in Closed(W, R) <=> r \in R /\ Closable(W.field[r])
    BY DEF Closed, Closable
  <1>11. Without(V, W, R)
    BY <1>1, <1>2, <1>6, <1>10 DEF Without, IsOf
  <1> QED BY <1>3, <1>9, <1>11

\* World V is W with resource r at handle h.
With(V, W, o, r, h) ==
  /\ \A g \in Handle : V.owner[g] = IF g = h THEN Mine(o, r) ELSE W.owner[g]
  /\ \A q \in Resource : V.field[q] = IF q = r THEN h ELSE W.field[q]
  /\ V.mark = W.mark

LEMMA ObtainIs ==
  ASSUME NEW W, NEW o \in Object, IsWorld(W, o), NEW r \in Resource,
         NEW h \in Handle, h = Lowest(r, W.owner)
  PROVE  IsWorld(Obtain(W, r), o) /\ With(Obtain(W, r), W, o, r, h)
  <1>1. PICK own : own = [W.owner EXCEPT ![h] = Mine(o, r)]
    OBVIOUS
  <1>2. PICK f : f = [W.field EXCEPT ![r] = h]
    OBVIOUS
  <1>3. PICK V : V = Obtain(W, r)
    OBVIOUS
  <1>4. W.self = o
    BY DEF IsWorld
  <1>5. V = [W EXCEPT !.owner = own, !.field = f]
    BY <1>1, <1>2, <1>3, <1>4 DEF Obtain, Mine, IsWorld
  <1>6. V = [self |-> o, owner |-> own, field |-> f, mark |-> W.mark]
    BY <1>5, Replaced
  <1>7. V.owner = own /\ V.field = f /\ V.mark = W.mark
    BY <1>6
  <1>8. V = [self |-> o, owner |-> V.owner, field |-> V.field, mark |-> V.mark]
    BY <1>6, <1>7
  <1>9. own \in [Handle -> Holding] /\ IsField(f) /\ W.mark \in BOOLEAN
    BY <1>1, <1>2 DEF IsWorld, IsField, Holding, Mine
  <1>10. IsWorld(V, o)
    BY <1>7, <1>8, <1>9 DEF IsWorld
  <1>11. With(V, W, o, r, h)
    BY <1>1, <1>2, <1>7 DEF With, IsWorld, IsField
  <1> QED BY <1>3, <1>10, <1>11

\* The mark after a step.
Flags(V, W, s) == V.mark = IF s.mark = "keep" THEN W.mark ELSE s.mark = "set"

LEMMA MarkedIs ==
  ASSUME NEW W, NEW o, IsWorld(W, o), NEW s, NEW V, V = Marked(W, s)
  PROVE  /\ IsWorld(V, o) /\ Flags(V, W, s)
         /\ V.owner = W.owner /\ V.field = W.field
  <1>1. PICK m : m = IF s.mark = "keep" THEN W.mark ELSE s.mark = "set"
    OBVIOUS
  <1>2. PICK b, c, d : b = W.owner /\ c = W.field /\ d = W.mark
    OBVIOUS
  <1>3. V = [self |-> o, owner |-> W.owner, field |-> W.field, mark |-> m]
    <2>1. W = [self |-> o, owner |-> b, field |-> c, mark |-> d]
      BY <1>2 DEF IsWorld
    <2>2. V = [W EXCEPT !.mark = m]
      BY <1>1 DEF Marked, IsWorld
    <2>3. V = [self |-> o, owner |-> b, field |-> c, mark |-> m]
      BY <2>1, <2>2
    <2> QED BY <1>2, <2>3
  <1>4. V.owner = W.owner /\ V.field = W.field /\ V.mark = m
    BY <1>3
  <1>5. V = [self |-> o, owner |-> V.owner, field |-> V.field, mark |-> V.mark]
    BY <1>3, <1>4
  <1>6. m \in BOOLEAN
    BY <1>1 DEF IsWorld
  <1>7. IsWorld(V, o)
    BY <1>4, <1>5, <1>6 DEF IsWorld
  <1> QED BY <1>1, <1>4, <1>7 DEF Flags

-----------------------------------------------------------------------------
\* Steps of a constructor

\* A step of a constructor of interface k, of an object that has the resources A: it takes
\* nothing away, obtains what the object does not have, and an open that raises undoes
\* all it has, but for what it is known to keep.
Fine(k, s, A) ==
  /\ s.part \in {"open", "setter"}
  /\ s.frees = {} /\ s.mark \in {"keep", "set"} /\ s.undo \subseteq Resource
  /\ s.gets # "none" => s.gets \in Uses(k) \ A
  /\ s.raises /\ s.part = "open" => \A r \in A : r \in s.undo \/ <<k, r>> \in KeptByOpen

Got(s) == IF s.gets = "none" THEN {} ELSE {s.gets}

\* Object o, new, with the resources A and no other, in a world W where nothing else has
\* changed.
Building(W, o, A) ==
  /\ IsWorld(W, o) /\ A \subseteq Uses(kind)
  /\ \A r \in Resource : r \notin A => W.field[r] = None
  /\ \A r \in A : /\ W.field[r] \in Handle /\ owner[W.field[r]] = Nobody
                  /\ W.owner[W.field[r]] = Mine(o, r)
                  /\ r # "fd" => W.field[r] # 0
  /\ \A h \in Handle : (\A r \in A : W.field[r] # h) => W.owner[h] = owner[h]

\* Handles stay sorted while an object obtains one of each of its resources.
LEMMA BuildingSorted ==
  ASSUME Sorted(owner), NEW o \in Object, \A h \in Handle : Given(owner, h) => owner[h].by # o,
         NEW W, NEW A, Building(W, o, A)
  PROVE  /\ Sorted(W.owner)
         /\ \A h \in Handle, q \in Resource : W.owner[h] = Mine(o, q) => q \in A
  <1>1. o # NoObject
    BY BoundAssumption DEF Object, NoObject
  <1>2. ASSUME NEW r PROVE Mine(o, r).by = o /\ Mine(o, r).res = r
    BY DEF Mine
  <1>3. ASSUME NEW r PROVE Mine(o, r) # Nobody /\ Mine(o, r) # Octave
    <2>1. Nobody.by = NoObject /\ Octave.by = NoObject
      BY DEF Nobody, Octave
    <2> QED BY <1>1, <1>2, <2>1
  <1>10. ASSUME NEW r, NEW q, Mine(o, r) = Mine(o, q) PROVE r = q
    BY <1>10 DEF Mine
  <1>4. ASSUME NEW h \in Handle
        PROVE  \/ W.owner[h] = owner[h]
               \/ \E r \in A : W.field[r] = h /\ W.owner[h] = Mine(o, r)
    BY DEF Building
  <1>5. W.owner \in [Handle -> Holding]
    BY DEF Building, IsWorld
  <1>6. ASSUME NEW h \in Handle, W.owner[h] = Octave PROVE h = 0
    BY <1>3, <1>4, <1>6 DEF Sorted
  <1>7. ASSUME NEW h \in Handle, Given(W.owner, h)
        PROVE  W.owner[h].by \in Object /\ W.owner[h].res \in Uses(kind)
    <2>1. CASE W.owner[h] = owner[h]
      BY <1>7, <2>1 DEF Sorted, Given
    <2>2. CASE W.owner[h] # owner[h]
      <3>1. PICK r \in A : W.owner[h] = Mine(o, r)
        BY <1>4, <2>2
      <3>2. r \in Uses(kind)
        BY DEF Building
      <3> QED BY <1>2, <3>1, <3>2
    <2> QED BY <2>1, <2>2
  <1>8. ASSUME NEW g \in Handle, NEW h \in Handle, W.owner[g] = W.owner[h], Given(W.owner, g)
        PROVE  g = h
    <2>1. CASE W.owner[g] = owner[g] /\ W.owner[h] = owner[h]
      BY <1>8, <2>1 DEF Sorted, Given
    <2>2. ASSUME NEW x \in Handle, NEW y \in Handle, W.owner[x] = W.owner[y],
                 W.owner[x] = owner[x], Given(owner, x),
                 NEW r \in A, W.owner[y] = Mine(o, r)
          PROVE  FALSE
      BY <1>2, <2>2
    <2>3. ASSUME NEW r \in A, NEW q \in A, W.field[r] = g, W.field[q] = h,
                 W.owner[g] = Mine(o, r), W.owner[h] = Mine(o, q)
          PROVE  g = h
      <3>1. r = q
        BY <1>8, <1>10, <2>3
      <3> QED BY <2>3, <3>1
    <2>4. W.owner[g] = owner[g] => Given(owner, g)
      BY <1>8 DEF Given
    <2>5. W.owner[h] = owner[h] => Given(owner, h)
      BY <1>8 DEF Given
    <2> QED BY <1>4, <1>8, <2>1, <2>2, <2>3, <2>4, <2>5
  <1>9. ASSUME NEW h \in Handle, NEW q \in Resource, W.owner[h] = Mine(o, q)
        PROVE  q \in A
    <2>1. CASE W.owner[h] = owner[h]
      <3>1. Given(owner, h) /\ owner[h].by = o
        BY <1>2, <1>3, <1>9, <2>1 DEF Given
      <3> QED BY <3>1
    <2>2. CASE W.owner[h] # owner[h]
      <3>1. PICK r \in A : W.owner[h] = Mine(o, r)
        BY <1>4, <2>2
      <3> QED BY <1>9, <1>10, <3>1
    <2> QED BY <2>1, <2>2
  <1> QED BY <1>5, <1>6, <1>7, <1>8, <1>9 DEF Sorted

\* World V has what R has and what is got besides.
Gains(V, R, o, got) ==
  /\ got = "none" => V.owner = R.owner /\ V.field = R.field
  /\ got # "none" => \E G : /\ With(G, R, o, got, Lowest(got, R.owner))
                            /\ V.owner = G.owner /\ V.field = G.field

\* A step that passes: what it releases, what it obtains, and its mark.
LEMMA PassIs ==
  ASSUME NEW W, NEW o \in Object, IsWorld(W, o), NEW s, s.frees \in SUBSET Resource,
         s.gets \in Resource => Lowest(s.gets, Release(W, s.frees).owner) \in Handle,
         s.gets \in Resource \cup {"none"}
  PROVE  /\ IsWorld(Pass(W, s), o) /\ Flags(Pass(W, s), W, s)
         /\ Gains(Pass(W, s), Release(W, s.frees), o, s.gets)
  <1>1. PICK R : R = Release(W, s.frees)
    OBVIOUS
  <1>2. IsWorld(R, o) /\ Without(R, W, s.frees)
    BY <1>1, ReleaseIs
  <1>3. PICK G : G = IF s.gets = "none" THEN R ELSE Obtain(R, s.gets)
    OBVIOUS
  <1>4. /\ IsWorld(G, o) /\ G.mark = R.mark
        /\ s.gets = "none" => G = R
        /\ s.gets # "none" => With(G, R, o, s.gets, Lowest(s.gets, R.owner))
    <2>1. CASE s.gets = "none"
      BY <1>2, <1>3, <2>1
    <2>2. CASE s.gets # "none"
      <3>1. s.gets \in Resource /\ Lowest(s.gets, R.owner) \in Handle /\ G = Obtain(R, s.gets)
        BY <1>1, <1>3, <2>2
      <3>2. IsWorld(G, o) /\ With(G, R, o, s.gets, Lowest(s.gets, R.owner))
        BY <1>2, <3>1, ObtainIs
      <3> QED BY <2>2, <3>2 DEF With
    <2> QED BY <2>1, <2>2
  <1>5. PICK V : V = Pass(W, s)
    OBVIOUS
  <1>6. V = Marked(G, s)
    BY <1>1, <1>3, <1>5, Zenon DEF Pass
  <1>7. IsWorld(V, o) /\ Flags(V, G, s) /\ V.owner = G.owner /\ V.field = G.field
    BY <1>4, <1>6, MarkedIs
  <1>8. Flags(V, W, s)
    BY <1>2, <1>4, <1>7 DEF Flags, Without
  <1>9. Gains(V, R, o, s.gets)
    BY <1>4, <1>7 DEF Gains
  <1> QED BY <1>1, <1>5, <1>7, <1>8, <1>9

\* A step of a constructor that passes.
LEMMA PassBuilds ==
  ASSUME Sorted(owner), NEW o \in Object, \A h \in Handle : Given(owner, h) => owner[h].by # o,
         NEW W, NEW A, Building(W, o, A), NEW s, Fine(kind, s, A)
  PROVE  /\ Building(Pass(W, s), o, A \cup Got(s))
         /\ Flags(Pass(W, s), W, s)
  <1>1. PICK V : V = Pass(W, s)
    OBVIOUS
  <1>2. PICK q : q = s.gets
    OBVIOUS
  <1>3. IsWorld(W, o) /\ s.frees = {} /\ (q # "none" => q \in Uses(kind) \ A)
    BY <1>2 DEF Building, Fine
  <1>4. Uses(kind) \subseteq Resource /\ "none" \notin Resource
    BY UsesFew DEF Resource
  <1>5. PICK R : R = Release(W, s.frees)
    OBVIOUS
  <1>6. IsWorld(R, o) /\ Without(R, W, {})
    BY <1>3, <1>5, ReleaseIs
  <1>7. R.owner = W.owner /\ R.field = W.field
    <2>1. /\ \A h \in Handle : R.owner[h] = W.owner[h]
          /\ \A r \in Resource : R.field[r] = W.field[r]
      BY <1>6 DEF Without, IsOf
    <2>2. /\ R.owner \in [Handle -> Holding] /\ W.owner \in [Handle -> Holding]
          /\ R.field \in [Resource -> Handle \cup {None}]
          /\ W.field \in [Resource -> Handle \cup {None}]
      BY <1>3, <1>6 DEF IsWorld, IsField
    <2> QED BY <2>1, <2>2
  <1>8. q # "none" => /\ Lowest(q, R.owner) \in Handle
                      /\ W.owner[Lowest(q, R.owner)] = Nobody
                      /\ q # "fd" => Lowest(q, R.owner) # 0
    <2>1. SUFFICES ASSUME q # "none"
                   PROVE  /\ Lowest(q, W.owner) \in Handle
                          /\ W.owner[Lowest(q, W.owner)] = Nobody
                          /\ q # "fd" => Lowest(q, W.owner) # 0
      BY <1>7
    <2>2. q \in Uses(kind) /\ q \in Resource /\ q \notin A
      BY <1>3, <1>4, <2>1
    <2>3. Sorted(W.owner) /\ \A h \in Handle : W.owner[h] # Mine(o, q)
      BY <2>2, BuildingSorted
    <2> QED BY <2>2, <2>3, LowestIsFree
  <1>9. s.gets \in Resource => Lowest(s.gets, Release(W, s.frees).owner) \in Handle
    BY <1>2, <1>4, <1>5, <1>8
  <1>10. s.gets \in Resource \cup {"none"} /\ s.frees \in SUBSET Resource
    BY <1>2, <1>3, <1>4
  <1>11. /\ IsWorld(V, o) /\ Flags(V, W, s)
         /\ q = "none" => V.owner = W.owner /\ V.field = W.field
         /\ q # "none" => \E G : /\ With(G, R, o, q, Lowest(q, R.owner))
                                 /\ V.owner = G.owner /\ V.field = G.field
    <2>1. IsWorld(V, o) /\ Flags(V, W, s) /\ Gains(V, Release(W, s.frees), o, s.gets)
      BY <1>1, <1>3, <1>9, <1>10, PassIs
    <2> QED BY <1>2, <1>5, <1>7, <2>1 DEF Gains
  <1>12. CASE q = "none"
    <2>1. A \cup Got(s) = A
      BY <1>2, <1>12 DEF Got
    <2> QED BY <1>1, <1>11, <1>12, <2>1 DEF Building
  <1>13. CASE q # "none"
    <2>1. PICK h \in Handle : h = Lowest(q, R.owner)
      BY <1>8, <1>13
    <2>2. /\ \A g \in Handle : V.owner[g] = IF g = h THEN Mine(o, q) ELSE W.owner[g]
          /\ \A r \in Resource : V.field[r] = IF r = q THEN h ELSE W.field[r]
      BY <1>7, <1>11, <1>13, <2>1 DEF With
    <2>3. A \cup Got(s) = A \cup {q} /\ q \in Uses(kind) /\ q \in Resource /\ q \notin A
      BY <1>2, <1>3, <1>4, <1>13 DEF Got
    <2>4. W.owner[h] = Nobody /\ (q # "fd" => h # 0)
      BY <1>8, <1>13, <2>1
    <2>5. \A r \in A : r \in Resource /\ W.field[r] # h
      <3>1. \A r : Mine(o, r) # Nobody
        <4>1. o # NoObject
          BY BoundAssumption DEF Object, NoObject
        <4> QED BY <4>1 DEF Mine, Nobody
      <3> QED BY <1>4, <2>4, <3>1 DEF Building
    <2>6. owner[h] = Nobody
      BY <2>4, <2>5 DEF Building
    <2>7. Building(V, o, A \cup {q})
      <3>1. IsWorld(V, o) /\ A \cup {q} \subseteq Uses(kind)
        BY <1>11, <2>3 DEF Building
      <3>2. \A r \in Resource : r \notin A \cup {q} => V.field[r] = None
        BY <2>2 DEF Building
      <3>3. ASSUME NEW r \in A \cup {q}
            PROVE  /\ V.field[r] \in Handle /\ owner[V.field[r]] = Nobody
                   /\ V.owner[V.field[r]] = Mine(o, r)
                   /\ r # "fd" => V.field[r] # 0
        <4>1. CASE r = q
          BY <2>2, <2>3, <2>4, <2>6, <4>1
        <4>2. CASE r # q
          <5>1. r \in A /\ r \in Resource /\ V.field[r] = W.field[r] /\ W.field[r] # h
            BY <2>2, <2>5, <4>2
          <5> QED BY <2>2, <5>1 DEF Building
        <4> QED BY <4>1, <4>2
      <3>4. ASSUME NEW g \in Handle, \A r \in A \cup {q} : V.field[r] # g
            PROVE  V.owner[g] = owner[g]
        <4>1. g # h
          BY <2>2, <2>3, <3>4
        <4>2. \A r \in A : W.field[r] # g
          BY <2>2, <2>3, <2>5, <3>4
        <4> QED BY <2>2, <4>1, <4>2 DEF Building
      <3> QED BY <3>1, <3>2, <3>3, <3>4 DEF Building
    <2> QED BY <1>1, <1>11, <2>3, <2>7
  <1> QED BY <1>12, <1>13

-----------------------------------------------------------------------------
\* Constructors as sequences of such steps

IsSteps(s) == \E S : s \in Seq(S)

\* The resources an object has after i of the steps, if it had A before them.
HeldAt(s, A, i) == A \cup UNION {Got(s[j]) : j \in 1 .. i}

\* Steps of a constructor of interface k that lead from the resources A to B.
Builds(k, s, A, B) ==
  /\ IsSteps(s)
  /\ \A i \in 1 .. Len(s) : Fine(k, s[i], HeldAt(s, A, i - 1))
  /\ B = HeldAt(s, A, Len(s))

LEMMA HeldStart ==
  ASSUME NEW s, NEW A
  PROVE  HeldAt(s, A, 0) = A
  <1>1. {Got(s[j]) : j \in 1 .. 0} = {}
    OBVIOUS
  <1> QED BY <1>1 DEF HeldAt

LEMMA HeldNext ==
  ASSUME NEW s, NEW A, NEW i \in Nat, i > 0
  PROVE  HeldAt(s, A, i) = HeldAt(s, A, i - 1) \cup Got(s[i])
  <1>1. 1 .. i = (1 .. (i - 1)) \cup {i}
    OBVIOUS
  <1> QED BY <1>1 DEF HeldAt

LEMMA StepsJoin ==
  ASSUME NEW s, NEW t, IsSteps(s), IsSteps(t)
  PROVE  /\ IsSteps(s \o t) /\ Len(s) \in Nat /\ Len(t) \in Nat
         /\ Len(s \o t) = Len(s) + Len(t)
         /\ \A i \in 1 .. Len(s) : (s \o t)[i] = s[i]
         /\ \A i \in 1 .. Len(t) : (s \o t)[Len(s) + i] = t[i]
  <1>1. PICK S, T : s \in Seq(S) /\ t \in Seq(T)
    BY DEF IsSteps
  <1>2. s \in Seq(S \cup T) /\ t \in Seq(S \cup T)
    BY <1>1
  <1>3. s \o t \in Seq(S \cup T) /\ Len(s \o t) = Len(s) + Len(t)
    BY <1>2
  <1>4. \A i \in 1 .. Len(s) : (s \o t)[i] = s[i]
    BY <1>2
  <1>5. \A i \in 1 .. Len(t) : (s \o t)[Len(s) + i] = t[i]
    BY <1>2
  <1> QED BY <1>1, <1>3, <1>4, <1>5 DEF IsSteps

LEMMA HeldJoin ==
  ASSUME NEW s, NEW t, IsSteps(s), IsSteps(t), NEW A
  PROVE  /\ \A i \in 0 .. Len(s) : HeldAt(s \o t, A, i) = HeldAt(s, A, i)
         /\ \A i \in 0 .. Len(t) :
              HeldAt(s \o t, A, Len(s) + i) = HeldAt(t, HeldAt(s, A, Len(s)), i)
  <1>1. PICK u : u = s \o t
    OBVIOUS
  <1>2. PICK n \in Nat, m \in Nat : n = Len(s) /\ m = Len(t)
    BY StepsJoin
  <1>3. /\ \A i \in 1 .. n : u[i] = s[i]
        /\ \A i \in 1 .. m : u[n + i] = t[i]
    BY <1>1, <1>2, StepsJoin
  <1>4. ASSUME NEW i \in 0 .. n PROVE HeldAt(u, A, i) = HeldAt(s, A, i)
    <2>1. \A j \in 1 .. i : u[j] = s[j]
      BY <1>3
    <2> QED BY <2>1 DEF HeldAt
  <1>5. ASSUME NEW i \in 0 .. m
        PROVE  HeldAt(u, A, n + i) = HeldAt(t, HeldAt(s, A, n), i)
    <2>1. ASSUME NEW r PROVE r \in HeldAt(u, A, n + i) <=>
                               r \in A \/ (\E j \in 1 .. n : r \in Got(s[j]))
                                       \/ (\E j \in 1 .. i : r \in Got(t[j]))
      <3>1. ASSUME NEW j \in 1 .. (n + i), r \in Got(u[j])
            PROVE  (\E l \in 1 .. n : r \in Got(s[l])) \/ (\E l \in 1 .. i : r \in Got(t[l]))
        <4>1. CASE j <= n
          BY <1>3, <3>1, <4>1
        <4>2. CASE j > n
          <5>1. PICK l \in 1 .. i : j = n + l
            <6>1. j - n \in 1 .. i /\ j = n + (j - n)
              BY <4>2
            <6> QED BY <6>1
          <5>2. l \in 1 .. m
            BY <5>1
          <5> QED BY <1>3, <3>1, <5>1, <5>2
        <4> QED BY <4>1, <4>2
      <3>2. ASSUME NEW l \in 1 .. n, r \in Got(s[l])
            PROVE  \E j \in 1 .. (n + i) : r \in Got(u[j])
        BY <1>3, <3>2
      <3>3. ASSUME NEW l \in 1 .. i, r \in Got(t[l])
            PROVE  \E j \in 1 .. (n + i) : r \in Got(u[j])
        <4>1. PICK j \in 1 .. (n + i) : j = n + l
          OBVIOUS
        <4>2. l \in 1 .. m
          OBVIOUS
        <4> QED BY <1>3, <3>3, <4>1, <4>2
      <3>4. r \in HeldAt(u, A, n + i) <=> r \in A \/ \E j \in 1 .. (n + i) : r \in Got(u[j])
        BY DEF HeldAt
      <3> QED BY <3>1, <3>2, <3>3, <3>4
    <2>2. ASSUME NEW r PROVE r \in HeldAt(t, HeldAt(s, A, n), i) <=>
                               r \in A \/ (\E j \in 1 .. n : r \in Got(s[j]))
                                       \/ (\E j \in 1 .. i : r \in Got(t[j]))
      BY DEF HeldAt
    <2> QED BY <2>1, <2>2
  <1> QED BY <1>1, <1>2, <1>4, <1>5

LEMMA BuildsJoin ==
  ASSUME NEW k, NEW s, NEW t, NEW A, NEW B, NEW C, Builds(k, s, A, B), Builds(k, t, B, C)
  PROVE  Builds(k, s \o t, A, C)
  <1>1. PICK u : u = s \o t
    OBVIOUS
  <1>2. IsSteps(s) /\ IsSteps(t)
    BY DEF Builds
  <1>3. PICK n \in Nat, m \in Nat : n = Len(s) /\ m = Len(t)
    BY <1>2, StepsJoin
  <1>4. /\ IsSteps(u) /\ Len(u) = n + m
        /\ \A i \in 1 .. n : u[i] = s[i]
        /\ \A i \in 1 .. m : u[n + i] = t[i]
    BY <1>1, <1>2, <1>3, StepsJoin
  <1>5. /\ \A i \in 0 .. n : HeldAt(u, A, i) = HeldAt(s, A, i)
        /\ \A i \in 0 .. m : HeldAt(u, A, n + i) = HeldAt(t, B, i)
    BY <1>1, <1>2, <1>3, HeldJoin DEF Builds
  <1>6. ASSUME NEW i \in 1 .. (n + m) PROVE Fine(k, u[i], HeldAt(u, A, i - 1))
    <2>1. CASE i <= n
      <3>1. i \in 1 .. n /\ i - 1 \in 0 .. n
        BY <2>1
      <3>2. u[i] = s[i] /\ HeldAt(u, A, i - 1) = HeldAt(s, A, i - 1)
        BY <1>4, <1>5, <3>1
      <3> QED BY <1>3, <3>1, <3>2 DEF Builds
    <2>2. CASE i > n
      <3>1. PICK j \in 1 .. m, l \in 0 .. m : i = n + j /\ l = j - 1
        <4>1. i - n \in 1 .. m /\ i = n + (i - n) /\ i - n - 1 \in 0 .. m
          BY <2>2
        <4> QED BY <4>1
      <3>2. u[i] = t[j] /\ HeldAt(u, A, n + l) = HeldAt(t, B, l) /\ i - 1 = n + l
        BY <1>4, <1>5, <3>1
      <3>3. Fine(k, t[j], HeldAt(t, B, j - 1))
        BY <1>3 DEF Builds
      <3> QED BY <3>1, <3>2, <3>3
    <2> QED BY <2>1, <2>2
  <1>7. C = HeldAt(u, A, n + m)
    <2>1. m \in 0 .. m
      OBVIOUS
    <2> QED BY <1>3, <1>5, <2>1 DEF Builds
  <1> QED BY <1>1, <1>4, <1>6, <1>7 DEF Builds

\* One step.
LEMMA BuildsOne ==
  ASSUME NEW k, NEW x, NEW A, Fine(k, x, A)
  PROVE  Builds(k, <<x>>, A, A \cup Got(x))
  <1>1. PICK s : s = <<x>>
    OBVIOUS
  <1>2. s \in Seq({x}) /\ Len(s) = 1 /\ s[1] = x
    BY <1>1
  <1>3. HeldAt(s, A, 0) = A /\ HeldAt(s, A, 1) = A \cup Got(x)
    <2>1. HeldAt(s, A, 1) = HeldAt(s, A, 1 - 1) \cup Got(s[1]) /\ 1 - 1 = 0
      BY HeldNext
    <2> QED BY <1>2, <2>1, HeldStart
  <1>4. \A i \in 1 .. 1 : i = 1 /\ i - 1 = 0
    OBVIOUS
  <1>5. IsSteps(s)
    BY <1>2 DEF IsSteps
  <1>6. Builds(k, s, A, A \cup Got(x))
    BY <1>2, <1>3, <1>4, <1>5 DEF Builds
  <1> QED BY <1>1, <1>6

\* World V after i steps of a constructor: what the object holds, and the mark if a step set it.
Progress(V, o, steps, i) ==
  /\ Building(V, o, HeldAt(steps, {}, i))
  /\ \A j \in 1 .. i : steps[j].mark = "set" => V.mark = TRUE

LEMMA ProgressGoesOn ==
  ASSUME Sorted(owner), NEW o \in Object, \A h \in Handle : Given(owner, h) => owner[h].by # o,
         NEW steps, NEW B, Builds(kind, steps, {}, B), NEW i \in 1 .. Len(steps),
         NEW W, Progress(W, o, steps, i - 1)
  PROVE  Progress(Pass(W, steps[i]), o, steps, i)
  <1>1. PICK V, s : V = Pass(W, s) /\ s = steps[i]
    OBVIOUS
  <1>2. Fine(kind, s, HeldAt(steps, {}, i - 1))
    BY <1>1 DEF Builds
  <1>3. Building(V, o, HeldAt(steps, {}, i - 1) \cup Got(s)) /\ Flags(V, W, s)
    BY <1>1, <1>2, PassBuilds DEF Progress
  <1>4. i \in Nat /\ i > 0
    OBVIOUS
  <1>5. HeldAt(steps, {}, i) = HeldAt(steps, {}, i - 1) \cup Got(s)
    BY <1>1, <1>4, HeldNext
  <1>6. ASSUME NEW j \in 1 .. i
        PROVE  steps[j].mark = "set" => V.mark = TRUE
    <2>1. CASE j = i
      BY <1>1, <1>3, <2>1 DEF Flags
    <2>2. CASE j # i
      <3>1. j \in 1 .. (i - 1)
        BY <2>2
      <3>2. s.mark \in {"keep", "set"}
        BY <1>2 DEF Fine
      <3>3. steps[j].mark = "set" => W.mark = TRUE
        BY <3>1 DEF Progress
      <3>4. W.mark = TRUE => V.mark = TRUE
        <4>1. s.mark = "keep" \/ s.mark = "set"
          BY <3>2
        <4> QED BY <1>3, <4>1 DEF Flags
      <3> QED BY <3>3, <3>4
    <2> QED BY <2>1, <2>2
  <1>7. Progress(V, o, steps, i)
    BY <1>3, <1>5, <1>6 DEF Progress
  <1> QED BY <1>1, <1>7

LEMMA RunBuilds ==
  ASSUME Sorted(owner), NEW o \in Object, \A h \in Handle : Given(owner, h) => owner[h].by # o,
         NEW steps, NEW B, Builds(kind, steps, {}, B), NEW n \in Nat, n <= Len(steps),
         Len(steps) \in Nat, NEW W, Building(W, o, {})
  PROVE  Progress(Worlds(W, steps, n)[n], o, steps, n)
  <1>1. PICK f : f = Worlds(W, steps, n)
    OBVIOUS
  <1>2. f[0] = W /\ \A i \in 1 .. n : f[i] = Pass(f[i - 1], steps[i])
    BY <1>1, WorldsAre
  <1> DEFINE T == {i \in Nat : i <= n /\ ~ Progress(f[i], o, steps, i)}
  <1>3. SUFFICES ASSUME T # {} PROVE FALSE
    BY <1>1
  <1>4. PICK i \in T : \A j \in T : i <= j
    BY <1>3, Least
  <1>5. CASE i = 0
    <2>1. HeldAt(steps, {}, 0) = {}
      BY HeldStart
    <2>2. ASSUME NEW j \in 1 .. 0 PROVE FALSE
      OBVIOUS
    <2>3. Building(f[0], o, HeldAt(steps, {}, 0))
      BY <1>2, <2>1
    <2>4. Progress(f[0], o, steps, 0)
      BY <2>2, <2>3 DEF Progress
    <2> QED BY <1>4, <1>5, <2>4
  <1>6. CASE i # 0
    <2>1. i \in 1 .. n /\ i \in 1 .. Len(steps) /\ i - 1 \in Nat /\ i - 1 <= n
      BY <1>4, <1>6
    <2>2. Progress(f[i - 1], o, steps, i - 1)
      BY <1>4, <2>1
    <2>3. Progress(Pass(f[i - 1], steps[i]), o, steps, i)
      BY <2>1, <2>2, ProgressGoesOn
    <2> QED BY <1>2, <1>4, <2>1, <2>3
  <1> QED BY <1>5, <1>6

-----------------------------------------------------------------------------
\* The pieces constructors are made of

\* A single step.
LEMMA BuildsBy ==
  ASSUME NEW k, NEW x, NEW A, Fine(k, x, A), NEW B, B = A \cup Got(x)
  PROVE  Builds(k, <<x>>, A, B)
  BY BuildsOne

LEMMA SetterBuilds ==
  ASSUME NEW k, NEW A
  PROVE  Builds(k, Setter, A, A)
  <1>1. PICK s : s = Step("setter", TRUE, {}, "none", {}, "keep")
    OBVIOUS
  <1>2. Fine(k, s, A) /\ Got(s) = {}
    BY <1>1 DEF Step, Fine, Got
  <1>3. A = A \cup Got(s)
    BY <1>2
  <1>4. Builds(k, <<s>>, A, A)
    BY <1>2, <1>3, BuildsBy
  <1> QED BY <1>1, <1>4 DEF Setter

LEMMA MarksBuilds ==
  ASSUME NEW k, NEW A
  PROVE  Builds(k, Marks, A, A)
  <1>1. PICK s : s = Step("open", FALSE, {}, "none", {}, "set")
    OBVIOUS
  <1>2. Fine(k, s, A) /\ Got(s) = {}
    BY <1>1 DEF Step, Fine, Got
  <1>3. A = A \cup Got(s)
    BY <1>2
  <1>4. Builds(k, <<s>>, A, A)
    BY <1>2, <1>3, BuildsBy
  <1> QED BY <1>1, <1>4 DEF Marks

\* What is held is undone, or open is known to keep it.
Undoes(k, undo, A) ==
  undo \subseteq Resource /\ \A r \in A : r \in undo \/ <<k, r>> \in KeptByOpen

LEMMA ChecksBuilds ==
  ASSUME NEW k, NEW A, NEW undo, Undoes(k, undo, A)
  PROVE  Builds(k, Checks(undo), A, A)
  <1>1. PICK s : s = Step("open", TRUE, undo, "none", {}, "keep")
    OBVIOUS
  <1>2. Fine(k, s, A) /\ Got(s) = {}
    BY <1>1 DEF Step, Fine, Got, Undoes
  <1>3. A = A \cup Got(s)
    BY <1>2
  <1>4. Builds(k, <<s>>, A, A)
    BY <1>2, <1>3, BuildsBy
  <1> QED BY <1>1, <1>4 DEF Checks

LEMMA ObtainsBuilds ==
  ASSUME NEW k, NEW A, NEW undo, Undoes(k, undo, A),
         NEW r \in Uses(k), r \notin A, NEW B, B = A \cup {r}
  PROVE  Builds(k, Obtains(r, undo), A, B)
  <1>1. PICK s : s = Step("open", TRUE, undo, r, {}, "keep")
    OBVIOUS
  <1>2. r # "none"
    BY UsesFew DEF Resource
  <1>3. Fine(k, s, A) /\ Got(s) = {r}
    BY <1>1, <1>2 DEF Step, Fine, Got, Undoes
  <1>4. Builds(k, <<s>>, A, B)
    BY <1>3, BuildsBy
  <1> QED BY <1>1, <1>4 DEF Obtains

LEMMA AllocatesBuilds ==
  ASSUME NEW k, NEW A, NEW r \in Uses(k), r \notin A, NEW B, B = A \cup {r}
  PROVE  Builds(k, Allocates(r), A, B)
  <1>1. PICK s : s = Step("open", FALSE, {}, r, {}, "keep")
    OBVIOUS
  <1>2. r # "none"
    BY UsesFew DEF Resource
  <1>3. Fine(k, s, A) /\ Got(s) = {r}
    BY <1>1, <1>2 DEF Step, Fine, Got
  <1>4. Builds(k, <<s>>, A, B)
    BY <1>3, BuildsBy
  <1> QED BY <1>1, <1>4 DEF Allocates

-----------------------------------------------------------------------------
\* The opens: each leads to the handles of an object that is open.

LEMMA TcpclientOpenBuilds == Builds("tcpclient", TcpclientOpen, {}, {"fd"})
  <1>1. /\ Undoes("tcpclient", {"fd"}, {})
        /\ "fd" \in Uses("tcpclient")
        /\ Undoes("tcpclient", {}, {})
        /\ Undoes("tcpclient", {"fd"}, {"fd"})
    BY DEF Uses, Undoes, Resource, KeptByOpen
  <1> DEFINE a == Checks({"fd"}) \o Obtains("fd", {})
  <1>2. Builds("tcpclient", Checks({"fd"}), {}, {})
    BY <1>1, ChecksBuilds
  <1>3. Builds("tcpclient", Obtains("fd", {}), {}, {"fd"})
    BY <1>1, ObtainsBuilds
  <1>4. Builds("tcpclient", a, {}, {"fd"})
    BY <1>2, <1>3, BuildsJoin
  <1>5. Builds("tcpclient", Checks({"fd"}), {"fd"}, {"fd"})
    BY <1>1, ChecksBuilds
  <1> QED BY <1>4, <1>5, BuildsJoin DEF TcpclientOpen

LEMMA TcpserverOpenBuilds == Builds("tcpserver", TcpserverOpen, {}, {"fd"})
  <1>1. /\ Undoes("tcpserver", {"fd"}, {})
        /\ "fd" \in Uses("tcpserver")
        /\ Undoes("tcpserver", {}, {})
        /\ Undoes("tcpserver", {"fd"}, {"fd"})
    BY DEF Uses, Undoes, Resource, KeptByOpen
  <1> DEFINE a == Checks({"fd"}) \o Obtains("fd", {})
             b == a \o Checks({"fd"})
  <1>2. Builds("tcpserver", Checks({"fd"}), {}, {})
    BY <1>1, ChecksBuilds
  <1>3. Builds("tcpserver", Obtains("fd", {}), {}, {"fd"})
    BY <1>1, ObtainsBuilds
  <1>4. Builds("tcpserver", a, {}, {"fd"})
    BY <1>2, <1>3, BuildsJoin
  <1>5. Builds("tcpserver", Checks({"fd"}), {"fd"}, {"fd"})
    BY <1>1, ChecksBuilds
  <1>6. Builds("tcpserver", b, {}, {"fd"})
    BY <1>4, <1>5, BuildsJoin
  <1> QED BY <1>6, <1>5, BuildsJoin DEF TcpserverOpen

LEMMA TcpOpenBuilds == Builds("tcp", TcpOpen, {}, {"fd"})
  <1>1. /\ "fd" \in Uses("tcp")
        /\ Undoes("tcp", {}, {})
        /\ Undoes("tcp", {"fd"}, {"fd"})
    BY DEF Uses, Undoes, Resource, KeptByOpen
  <1>2. Builds("tcp", Obtains("fd", {}), {}, {"fd"})
    BY <1>1, ObtainsBuilds
  <1>3. Builds("tcp", Checks({"fd"}), {"fd"}, {"fd"})
    BY <1>1, ChecksBuilds
  <1> QED BY <1>2, <1>3, BuildsJoin DEF TcpOpen

LEMMA UdpOpenBuilds == Builds("udp", UdpOpen, {}, {"buffer", "fd"})
  <1>1. /\ Undoes("udp", {"fd"}, {})
        /\ "buffer" \in Uses("udp")
        /\ "fd" \in Uses("udp")
        /\ Undoes("udp", {"buffer"}, {"buffer"})
        /\ Undoes("udp", {"fd", "buffer"}, {"buffer", "fd"})
    BY DEF Uses, Undoes, Resource, KeptByOpen
  <1> DEFINE a == Checks({"fd"}) \o Allocates("buffer")
             b == a \o Obtains("fd", {"buffer"})
  <1>2. Builds("udp", Checks({"fd"}), {}, {})
    BY <1>1, ChecksBuilds
  <1>3. Builds("udp", Allocates("buffer"), {}, {"buffer"})
    BY <1>1, AllocatesBuilds
  <1>4. Builds("udp", a, {}, {"buffer"})
    BY <1>2, <1>3, BuildsJoin
  <1>5. Builds("udp", Obtains("fd", {"buffer"}), {"buffer"}, {"buffer", "fd"})
    BY <1>1, ObtainsBuilds
  <1>6. Builds("udp", b, {}, {"buffer", "fd"})
    BY <1>4, <1>5, BuildsJoin
  <1>7. Builds("udp", Checks({"fd", "buffer"}), {"buffer", "fd"}, {"buffer", "fd"})
    BY <1>1, ChecksBuilds
  <1> QED BY <1>6, <1>7, BuildsJoin DEF UdpOpen

LEMMA UdpportOpenBuilds == Builds("udpport", UdpportOpen, {}, {"buffer", "fd"})
  <1>1. /\ "buffer" \in Uses("udpport")
        /\ "fd" \in Uses("udpport")
        /\ Undoes("udpport", {"buffer"}, {"buffer"})
        /\ Undoes("udpport", {"fd", "buffer"}, {"buffer", "fd"})
    BY DEF Uses, Undoes, Resource, KeptByOpen
  <1> DEFINE a == Allocates("buffer") \o Obtains("fd", {"buffer"})
  <1>2. Builds("udpport", Allocates("buffer"), {}, {"buffer"})
    BY <1>1, AllocatesBuilds
  <1>3. Builds("udpport", Obtains("fd", {"buffer"}), {"buffer"}, {"buffer", "fd"})
    BY <1>1, ObtainsBuilds
  <1>4. Builds("udpport", a, {}, {"buffer", "fd"})
    BY <1>2, <1>3, BuildsJoin
  <1>5. Builds("udpport", Checks({"fd", "buffer"}), {"buffer", "fd"}, {"buffer", "fd"})
    BY <1>1, ChecksBuilds
  <1> QED BY <1>4, <1>5, BuildsJoin DEF UdpportOpen

LEMMA SerialOpenBuilds == Builds("serial", SerialOpen, {}, {"fd"})
  <1>1. /\ "fd" \in Uses("serial")
        /\ Undoes("serial", {}, {})
        /\ Undoes("serial", {"fd"}, {"fd"})
    BY DEF Uses, Undoes, Resource, KeptByOpen
  <1> DEFINE a == Obtains("fd", {}) \o Checks({"fd"})
             b == a \o Checks({"fd"})
             c == b \o Checks({"fd"})
  <1>2. Builds("serial", Obtains("fd", {}), {}, {"fd"})
    BY <1>1, ObtainsBuilds
  <1>3. Builds("serial", Checks({"fd"}), {"fd"}, {"fd"})
    BY <1>1, ChecksBuilds
  <1>4. Builds("serial", a, {}, {"fd"})
    BY <1>2, <1>3, BuildsJoin
  <1>5. Builds("serial", b, {}, {"fd"})
    BY <1>4, <1>3, BuildsJoin
  <1>6. Builds("serial", c, {}, {"fd"})
    BY <1>5, <1>3, BuildsJoin
  <1> QED BY <1>6, <1>3, BuildsJoin DEF SerialOpen

LEMMA SerialportOpenBuilds == Builds("serialport", SerialportOpen, {}, {"fd"})
  <1>1. /\ "fd" \in Uses("serialport")
        /\ Undoes("serialport", {}, {})
        /\ Undoes("serialport", {"fd"}, {"fd"})
    BY DEF Uses, Undoes, Resource, KeptByOpen
  <1> DEFINE a == Obtains("fd", {}) \o Checks({"fd"})
             b == a \o Checks({"fd"})
             c == b \o Checks({"fd"})
  <1>2. Builds("serialport", Obtains("fd", {}), {}, {"fd"})
    BY <1>1, ObtainsBuilds
  <1>3. Builds("serialport", Checks({"fd"}), {"fd"}, {"fd"})
    BY <1>1, ChecksBuilds
  <1>4. Builds("serialport", a, {}, {"fd"})
    BY <1>2, <1>3, BuildsJoin
  <1>5. Builds("serialport", b, {}, {"fd"})
    BY <1>4, <1>3, BuildsJoin
  <1>6. Builds("serialport", c, {}, {"fd"})
    BY <1>5, <1>3, BuildsJoin
  <1> QED BY <1>6, <1>3, BuildsJoin DEF SerialportOpen

LEMMA SerialWindowsOpenBuilds == Builds("serial_win32", SerialWindowsOpen, {}, {"fd"})
  <1>1. /\ "fd" \in Uses("serial_win32")
        /\ Undoes("serial_win32", {}, {})
        /\ Undoes("serial_win32", {"fd"}, {"fd"})
    BY DEF Uses, Undoes, Resource, KeptByOpen
  <1> DEFINE a == Obtains("fd", {}) \o Checks({"fd"})
  <1>2. Builds("serial_win32", Obtains("fd", {}), {}, {"fd"})
    BY <1>1, ObtainsBuilds
  <1>3. Builds("serial_win32", Checks({"fd"}), {"fd"}, {"fd"})
    BY <1>1, ChecksBuilds
  <1>4. Builds("serial_win32", a, {}, {"fd"})
    BY <1>2, <1>3, BuildsJoin
  <1> QED BY <1>4, <1>3, BuildsJoin DEF SerialWindowsOpen

LEMMA SerialportWindowsOpenBuilds == Builds("serialport_win32", SerialportWindowsOpen, {}, {"fd"})
  <1>1. /\ "fd" \in Uses("serialport_win32")
        /\ Undoes("serialport_win32", {}, {})
        /\ Undoes("serialport_win32", {"fd"}, {"fd"})
    BY DEF Uses, Undoes, Resource, KeptByOpen
  <1> DEFINE a == Obtains("fd", {}) \o Checks({"fd"})
  <1>2. Builds("serialport_win32", Obtains("fd", {}), {}, {"fd"})
    BY <1>1, ObtainsBuilds
  <1>3. Builds("serialport_win32", Checks({"fd"}), {"fd"}, {"fd"})
    BY <1>1, ChecksBuilds
  <1>4. Builds("serialport_win32", a, {}, {"fd"})
    BY <1>2, <1>3, BuildsJoin
  <1> QED BY <1>4, <1>3, BuildsJoin DEF SerialportWindowsOpen

LEMMA I2cOpenBuilds == Builds("i2c", I2cOpen, {}, {"fd"})
  <1>1. /\ "fd" \in Uses("i2c")
        /\ Undoes("i2c", {}, {})
    BY DEF Uses, Undoes, Resource, KeptByOpen
  <1>2. Builds("i2c", Obtains("fd", {}), {}, {"fd"})
    BY <1>1, ObtainsBuilds
  <1> QED BY <1>2 DEF I2cOpen

LEMMA SpiOpenBuilds == Builds("spi", SpiOpen, {}, {"fd"})
  <1>1. /\ "fd" \in Uses("spi")
        /\ Undoes("spi", {}, {})
    BY DEF Uses, Undoes, Resource, KeptByOpen
  <1>2. Builds("spi", Obtains("fd", {}), {}, {"fd"})
    BY <1>1, ObtainsBuilds
  <1> QED BY <1>2 DEF SpiOpen

LEMMA UsbtmcOpenBuilds == Builds("usbtmc", UsbtmcOpen, {}, {"fd"})
  <1>1. /\ "fd" \in Uses("usbtmc")
        /\ Undoes("usbtmc", {}, {})
    BY DEF Uses, Undoes, Resource, KeptByOpen
  <1>2. Builds("usbtmc", Obtains("fd", {}), {}, {"fd"})
    BY <1>1, ObtainsBuilds
  <1> QED BY <1>2 DEF UsbtmcOpen

LEMMA ParallelOpenBuilds == Builds("parallel", ParallelOpen, {}, {"fd"})
  <1>1. /\ "fd" \in Uses("parallel")
        /\ Undoes("parallel", {}, {})
        /\ Undoes("parallel", {}, {"fd"})
    BY DEF Uses, Undoes, Resource, KeptByOpen
  <1>2. Builds("parallel", Obtains("fd", {}), {}, {"fd"})
    BY <1>1, ObtainsBuilds
  <1>3. Builds("parallel", Checks({}), {"fd"}, {"fd"})
    BY <1>1, ChecksBuilds
  <1> QED BY <1>2, <1>3, BuildsJoin DEF ParallelOpen

LEMMA ModbusOpenTcpBuilds == Builds("modbus", ModbusOpenTcp, {}, {"ctx"})
  <1>1. /\ "ctx" \in Uses("modbus")
        /\ Undoes("modbus", {}, {})
        /\ Undoes("modbus", {}, {"ctx"})
    BY DEF Uses, Undoes, Resource, KeptByOpen
  <1>2. Builds("modbus", Obtains("ctx", {}), {}, {"ctx"})
    BY <1>1, ObtainsBuilds
  <1>3. Builds("modbus", Checks({}), {"ctx"}, {"ctx"})
    BY <1>1, ChecksBuilds
  <1> QED BY <1>2, <1>3, BuildsJoin DEF ModbusOpenTcp

LEMMA ModbusOpenSerialBuilds == Builds("modbus_serial", ModbusOpenSerial, {}, {"ctx"})
  <1>1. /\ "ctx" \in Uses("modbus_serial")
        /\ Undoes("modbus_serial", {}, {})
        /\ Undoes("modbus_serial", {}, {"ctx"})
    BY DEF Uses, Undoes, Resource, KeptByOpen
  <1>2. Builds("modbus_serial", Obtains("ctx", {}), {}, {"ctx"})
    BY <1>1, ObtainsBuilds
  <1>3. Builds("modbus_serial", Checks({}), {"ctx"}, {"ctx"})
    BY <1>1, ChecksBuilds
  <1> QED BY <1>2, <1>3, BuildsJoin DEF ModbusOpenSerial

LEMMA Vxi11OpenBuilds == Builds("vxi11", Vxi11Open, {}, {"client", "link"})
  <1>1. /\ "client" \in Uses("vxi11")
        /\ Undoes("vxi11", {}, {})
        /\ "link" \in Uses("vxi11")
        /\ Undoes("vxi11", {}, {"client", "link"})
    BY DEF Uses, Undoes, Resource, KeptByOpen
  <1> DEFINE a == Marks \o Obtains("client", {})
             b == a \o Allocates("link")
  <1>2. Builds("vxi11", Marks, {}, {})
    BY MarksBuilds
  <1>3. Builds("vxi11", Obtains("client", {}), {}, {"client"})
    BY <1>1, ObtainsBuilds
  <1>4. Builds("vxi11", a, {}, {"client"})
    BY <1>2, <1>3, BuildsJoin
  <1>5. Builds("vxi11", Allocates("link"), {"client"}, {"client", "link"})
    BY <1>1, AllocatesBuilds
  <1>6. Builds("vxi11", b, {}, {"client", "link"})
    BY <1>4, <1>5, BuildsJoin
  <1>7. Builds("vxi11", Checks({}), {"client", "link"}, {"client", "link"})
    BY <1>1, ChecksBuilds
  <1> QED BY <1>6, <1>7, BuildsJoin DEF Vxi11Open

LEMMA GpibOpenBuilds == Builds("gpib", GpibOpen, {}, {})
  <1>1. Builds("gpib", Marks, {}, {})
    BY MarksBuilds
  <1> QED BY <1>1 DEF GpibOpen

LEMMA VisadevOpenBuilds == Builds("visadev", VisadevOpen, {}, {"lib", "rm", "instr"})
  <1>1. /\ "lib" \in Uses("visadev")
        /\ Undoes("visadev", {}, {"lib"})
        /\ "rm" \in Uses("visadev")
        /\ "instr" \in Uses("visadev")
        /\ Undoes("visadev", {"rm"}, {"lib", "rm"})
        /\ Undoes("visadev", {"instr", "rm"}, {"lib", "rm", "instr"})
    BY DEF Uses, Undoes, Resource, KeptByOpen
  <1> DEFINE a == Allocates("lib") \o Checks({})
             b == a \o Obtains("rm", {})
             c == b \o Obtains("instr", {"rm"})
  <1>2. Builds("visadev", Allocates("lib"), {}, {"lib"})
    BY <1>1, AllocatesBuilds
  <1>3. Builds("visadev", Checks({}), {"lib"}, {"lib"})
    BY <1>1, ChecksBuilds
  <1>4. Builds("visadev", a, {}, {"lib"})
    BY <1>2, <1>3, BuildsJoin
  <1>5. Builds("visadev", Obtains("rm", {}), {"lib"}, {"lib", "rm"})
    BY <1>1, ObtainsBuilds
  <1>6. Builds("visadev", b, {}, {"lib", "rm"})
    BY <1>4, <1>5, BuildsJoin
  <1>7. Builds("visadev", Obtains("instr", {"rm"}), {"lib", "rm"}, {"lib", "rm", "instr"})
    BY <1>1, ObtainsBuilds
  <1>8. Builds("visadev", c, {}, {"lib", "rm", "instr"})
    BY <1>6, <1>7, BuildsJoin
  <1>9. Builds("visadev", Checks({"instr", "rm"}), {"lib", "rm", "instr"},
            {"lib", "rm", "instr"})
    BY <1>1, ChecksBuilds
  <1> QED BY <1>8, <1>9, BuildsJoin DEF VisadevOpen

-----------------------------------------------------------------------------
\* The constructors: each leads to the handles of an object that is open.

LEMMA TcpclientConstructorBuilds ==
  Builds("tcpclient", TcpclientConstructor, {}, {"fd"})
  <1>1. Builds("tcpclient", Setter, {"fd"}, {"fd"})
    BY SetterBuilds
  <1> QED BY TcpclientOpenBuilds, <1>1, BuildsJoin DEF TcpclientConstructor

LEMMA TcpserverConstructorBuilds ==
  Builds("tcpserver", TcpserverConstructor, {}, {"fd"})
  <1>1. Builds("tcpserver", Setter, {"fd"}, {"fd"})
    BY SetterBuilds
  <1> QED BY TcpserverOpenBuilds, <1>1, BuildsJoin DEF TcpserverConstructor

LEMMA TcpConstructorBuilds ==
  Builds("tcp", TcpConstructor, {}, {"fd"})
  <1>1. Builds("tcp", Setter, {"fd"}, {"fd"})
    BY SetterBuilds
  <1> QED BY TcpOpenBuilds, <1>1, BuildsJoin DEF TcpConstructor

LEMMA UdpConstructorBuilds ==
  Builds("udp", UdpConstructor, {}, {"buffer", "fd"})
  <1>1. Builds("udp", Setter, {"buffer", "fd"}, {"buffer", "fd"})
    BY SetterBuilds
  <1> QED BY UdpOpenBuilds, <1>1, BuildsJoin DEF UdpConstructor

LEMMA UdpportConstructorBuilds ==
  Builds("udpport", UdpportConstructor, {}, {"buffer", "fd"})
  <1>1. Builds("udpport", Setter, {"buffer", "fd"}, {"buffer", "fd"})
    BY SetterBuilds
  <1> QED BY UdpportOpenBuilds, <1>1, BuildsJoin DEF UdpportConstructor

LEMMA SerialConstructorBuilds ==
  ASSUME NEW k, NEW open, Builds(k, open, {}, {"fd"})
  PROVE  Builds(k, SerialConstructor(open), {}, {"fd"})
  <1> DEFINE a == open \o Setter
             b == a \o Setter
             c == b \o Setter
             d == c \o Setter
  <1>1. Builds(k, Setter, {"fd"}, {"fd"})
    BY SetterBuilds
  <1>2. Builds(k, a, {}, {"fd"})
    BY <1>1, BuildsJoin
  <1>3. Builds(k, b, {}, {"fd"})
    BY <1>1, <1>2, BuildsJoin
  <1>4. Builds(k, c, {}, {"fd"})
    BY <1>1, <1>3, BuildsJoin
  <1>5. Builds(k, d, {}, {"fd"})
    BY <1>1, <1>4, BuildsJoin
  <1> QED BY <1>1, <1>5, BuildsJoin DEF SerialConstructor

LEMMA SerialportConstructorBuilds ==
  ASSUME NEW k, NEW open, Builds(k, open, {}, {"fd"})
  PROVE  Builds(k, SerialportConstructor(open), {}, {"fd"})
  <1> DEFINE a == open \o Setter
             b == a \o Setter
             c == b \o Setter
             d == c \o Setter
             e == d \o Setter
  <1>1. Builds(k, Setter, {"fd"}, {"fd"})
    BY SetterBuilds
  <1>2. Builds(k, a, {}, {"fd"})
    BY <1>1, BuildsJoin
  <1>3. Builds(k, b, {}, {"fd"})
    BY <1>1, <1>2, BuildsJoin
  <1>4. Builds(k, c, {}, {"fd"})
    BY <1>1, <1>3, BuildsJoin
  <1>5. Builds(k, d, {}, {"fd"})
    BY <1>1, <1>4, BuildsJoin
  <1>6. Builds(k, e, {}, {"fd"})
    BY <1>1, <1>5, BuildsJoin
  <1> QED BY <1>1, <1>6, BuildsJoin DEF SerialportConstructor

LEMMA I2cConstructorBuilds ==
  Builds("i2c", I2cConstructor, {}, {"fd"})
  <1>1. Builds("i2c", Setter, {"fd"}, {"fd"})
    BY SetterBuilds
  <1> QED BY I2cOpenBuilds, <1>1, BuildsJoin DEF I2cConstructor

LEMMA SpiConstructorBuilds ==
  Builds("spi", SpiConstructor, {}, {"fd"})
  <1> DEFINE a == SpiOpen \o Setter
             b == a \o Setter
  <1>1. Builds("spi", Setter, {"fd"}, {"fd"})
    BY SetterBuilds
  <1>2. Builds("spi", a, {}, {"fd"})
    BY SpiOpenBuilds, <1>1, BuildsJoin
  <1>3. Builds("spi", b, {}, {"fd"})
    BY <1>1, <1>2, BuildsJoin
  <1> QED BY <1>1, <1>3, BuildsJoin DEF SpiConstructor

LEMMA ParallelConstructorBuilds ==
  Builds("parallel", ParallelConstructor, {}, {"fd"})
  <1>1. Builds("parallel", Setter, {"fd"}, {"fd"})
    BY SetterBuilds
  <1> QED BY ParallelOpenBuilds, <1>1, BuildsJoin DEF ParallelConstructor

LEMMA ModbusConstructorBuilds ==
  ASSUME NEW k, NEW open, Builds(k, open, {}, {"ctx"})
  PROVE  Builds(k, ModbusConstructor(open), {}, {"ctx"})
  <1> DEFINE a == open \o Setter
  <1>1. Builds(k, Setter, {"ctx"}, {"ctx"})
    BY SetterBuilds
  <1>2. Builds(k, a, {}, {"ctx"})
    BY <1>1, BuildsJoin
  <1> QED BY <1>1, <1>2, BuildsJoin DEF ModbusConstructor

LEMMA Vxi11ConstructorBuilds ==
  Builds("vxi11", Vxi11Constructor, {}, {"client", "link"})
  BY Vxi11OpenBuilds DEF Vxi11Constructor

LEMMA GpibConstructorBuilds ==
  Builds("gpib", GpibConstructor, {}, {})
  BY GpibOpenBuilds DEF GpibConstructor

LEMMA UsbtmcConstructorBuilds ==
  Builds("usbtmc", UsbtmcConstructor, {}, {"fd"})
  BY UsbtmcOpenBuilds DEF UsbtmcConstructor

LEMMA VisadevConstructorBuilds ==
  Builds("visadev", VisadevConstructor, {}, {"lib", "rm", "instr"})
  <1>1. Builds("visadev", Setter, {"lib", "rm", "instr"}, {"lib", "rm", "instr"})
    BY SetterBuilds
  <1> QED BY VisadevOpenBuilds, <1>1, BuildsJoin DEF VisadevConstructor

\* Somewhere the mark is set.
Sets(s) == \E j \in 1 .. Len(s) : s[j].mark = "set"

LEMMA SetsJoin ==
  ASSUME NEW s, NEW t, IsSteps(s), IsSteps(t), Sets(s) \/ Sets(t)
  PROVE  Sets(s \o t)
  <1>1. PICK u : u = s \o t
    OBVIOUS
  <1>2. PICK n \in Nat, m \in Nat : n = Len(s) /\ m = Len(t)
    BY StepsJoin
  <1>3. /\ Len(u) = n + m
        /\ \A i \in 1 .. n : u[i] = s[i]
        /\ \A i \in 1 .. m : u[n + i] = t[i]
    BY <1>1, <1>2, StepsJoin
  <1>4. ASSUME NEW j \in 1 .. n, s[j].mark = "set" PROVE Sets(u)
    <2>1. j \in 1 .. (n + m)
      OBVIOUS
    <2> QED BY <1>3, <1>4, <2>1 DEF Sets
  <1>5. ASSUME NEW j \in 1 .. m, t[j].mark = "set" PROVE Sets(u)
    <2>1. n + j \in 1 .. (n + m)
      OBVIOUS
    <2> QED BY <1>3, <1>5, <2>1 DEF Sets
  <1> QED BY <1>1, <1>2, <1>4, <1>5 DEF Sets

LEMMA Vxi11Sets == Sets(Vxi11Constructor)
  <1>1. PICK s : s = Step("open", FALSE, {}, "none", {}, "set")
    OBVIOUS
  <1>2. <<s>>[1] = s /\ s.mark = "set" /\ Len(<<s>>) = 1 /\ 1 \in 1 .. 1
    BY <1>1 DEF Step
  <1>3. Sets(Marks)
    BY <1>1, <1>2 DEF Sets, Marks
  <1>4. Builds("vxi11", Marks, {}, {})
    BY MarksBuilds
  <1>5. Undoes("vxi11", {}, {}) /\ Undoes("vxi11", {}, {"client", "link"})
        /\ "client" \in Uses("vxi11") /\ "link" \in Uses("vxi11")
    BY DEF Uses, Undoes, Resource, KeptByOpen
  <1>6. Builds("vxi11", Obtains("client", {}), {}, {"client"})
    BY <1>5, ObtainsBuilds
  <1>7. Builds("vxi11", Allocates("link"), {"client"}, {"client", "link"})
    BY <1>5, AllocatesBuilds
  <1>8. Builds("vxi11", Checks({}), {"client", "link"}, {"client", "link"})
    BY <1>5, ChecksBuilds
  <1>9. /\ IsSteps(Marks) /\ IsSteps(Obtains("client", {})) /\ IsSteps(Allocates("link"))
        /\ IsSteps(Checks({}))
    BY <1>4, <1>6, <1>7, <1>8 DEF Builds
  <1> DEFINE a == Marks \o Obtains("client", {})
             b == a \o Allocates("link")
  <1>10. IsSteps(a) /\ Sets(a)
    BY <1>3, <1>9, StepsJoin, SetsJoin
  <1>11. IsSteps(b) /\ Sets(b)
    BY <1>9, <1>10, StepsJoin, SetsJoin
  <1>12. Sets(b \o Checks({}))
    BY <1>9, <1>11, SetsJoin
  <1> QED BY <1>12 DEF Vxi11Constructor, Vxi11Open

\* Every constructor is such a sequence of steps.
LEMMA ConstructorBuilds ==
  ASSUME NEW k \in KnownKinds
  PROVE  /\ \E B : Builds(k, Constructor(k), {}, B)
         /\ k = "vxi11" => Sets(Constructor(k))
  <1>1. ASSUME k = "vxi11" PROVE Sets(Constructor(k))
    BY <1>1, Vxi11Sets DEF Constructor
  <1>2. CASE k = "tcpclient"
    BY <1>2, TcpclientConstructorBuilds DEF Constructor
  <1>3. CASE k = "tcpserver"
    BY <1>3, TcpserverConstructorBuilds DEF Constructor
  <1>4. CASE k = "tcp"
    BY <1>4, TcpConstructorBuilds DEF Constructor
  <1>5. CASE k = "udp"
    BY <1>5, UdpConstructorBuilds DEF Constructor
  <1>6. CASE k = "udpport"
    BY <1>6, UdpportConstructorBuilds DEF Constructor
  <1>7. CASE k = "i2c"
    BY <1>7, I2cConstructorBuilds DEF Constructor
  <1>8. CASE k = "spi"
    BY <1>8, SpiConstructorBuilds DEF Constructor
  <1>9. CASE k = "parallel"
    BY <1>9, ParallelConstructorBuilds DEF Constructor
  <1>10. CASE k = "vxi11"
    BY <1>1, <1>10, Vxi11ConstructorBuilds DEF Constructor
  <1>11. CASE k = "gpib"
    BY <1>11, GpibConstructorBuilds DEF Constructor
  <1>12. CASE k = "usbtmc"
    BY <1>12, UsbtmcConstructorBuilds DEF Constructor
  <1>13. CASE k = "visadev"
    BY <1>13, VisadevConstructorBuilds DEF Constructor
  <1>14. CASE k = "serial"
    BY <1>14, SerialOpenBuilds, SerialConstructorBuilds DEF Constructor
  <1>15. CASE k = "serial_win32"
    BY <1>15, SerialWindowsOpenBuilds, SerialConstructorBuilds DEF Constructor
  <1>16. CASE k = "serialport"
    BY <1>16, SerialportOpenBuilds, SerialportConstructorBuilds DEF Constructor
  <1>17. CASE k = "serialport_win32"
    BY <1>17, SerialportWindowsOpenBuilds, SerialportConstructorBuilds DEF Constructor
  <1>18. CASE k = "modbus"
    BY <1>18, ModbusOpenTcpBuilds, ModbusConstructorBuilds DEF Constructor
  <1>19. CASE k = "modbus_serial"
    BY <1>19, ModbusOpenSerialBuilds, ModbusConstructorBuilds DEF Constructor
  <1> QED BY <1>2, <1>3, <1>4, <1>5, <1>6, <1>7, <1>8, <1>9, <1>10,
             <1>11, <1>12, <1>13, <1>14, <1>15, <1>16, <1>17, <1>18, <1>19 DEF KnownKinds

-----------------------------------------------------------------------------
\* The inductive invariant of the handles, part by part

\* Of a handle h that is held: the object was made, and remembers it while it lives.
Remembered(h) ==
  Given(owner, h) =>
    /\ owner[h].by \in Born
    /\ owner[h].res # "fd" => h # 0
    /\ Live(owner[h].by) => object[owner[h].by].field[owner[h].res] = h

\* An RPC client belongs to an object that counts as open.
ClientOpen(h) ==
  Given(owner, h) /\ owner[h].res = "client" /\ Live(owner[h].by) => object[owner[h].by].mark

\* LossesExplained, of one handle.
Explained(h) ==
  Given(owner, h) =>
    \/ Live(owner[h].by) /\ object[owner[h].by].field[owner[h].res] = h
    \/ \E l \in lost : /\ l.obj = owner[h].by
                       /\ l.part = "setter" \/ <<kind, owner[h].res>> \in KeptByOpen
    \/ h = 0 /\ kind \in ZeroStays
    \/ kind = "vxi11" /\ owner[h].res = "link"
    \/ object[owner[h].by].destroyed /\ aborted /\ kind \in {"parallel", "vxi11"}

\* What an object remembers.
Fields(o) ==
  /\ IsField(object[o].field) /\ object[o].mark \in BOOLEAN
  /\ ~object[o].born => object[o] = Fresh

\* HandlesOwned, of one object.
Owns(o) ==
  \A r \in Resource :
    /\ Live(o)
    /\ object[o].field[r] # None
    /\ kind = "vxi11" => object[o].mark
    => owner[object[o].field[r]] = Mine(o, r)

HandleInv ==
  /\ kind \in KnownKinds /\ Sorted(owner)
  /\ \A h \in Handle : Remembered(h) /\ ClientOpen(h) /\ Explained(h)
  /\ \A o \in Object : Fields(o) /\ Owns(o)

LEMMA HandleInvImplies ==
  ASSUME HandleInv
  PROVE  HandlesOwned /\ LossesExplained
  <1>1. HandlesOwned
    BY DEF HandleInv, Owns, HandlesOwned, Mine
  <1>2. LossesExplained
    BY DEF HandleInv, Explained, LossesExplained, Given
  <1> QED BY <1>1, <1>2

-----------------------------------------------------------------------------
\* Constructors

\* Object o has no handle yet.
New(o) == \A h \in Handle : Given(owner, h) => owner[h].by # o

LEMMA MineIs ==
  ASSUME NEW o \in Object, NEW r
  PROVE  /\ Mine(o, r).by = o /\ Mine(o, r).res = r
         /\ Mine(o, r) # Nobody /\ Mine(o, r) # Octave
  <1>1. o # NoObject
    BY BoundAssumption DEF Object, NoObject
  <1>2. Mine(o, r).by = o /\ Mine(o, r).res = r
    BY DEF Mine
  <1>3. Nobody.by = NoObject /\ Octave.by = NoObject
    BY DEF Nobody, Octave
  <1> QED BY <1>1, <1>2, <1>3

\* A constructor starts with nothing.
LEMMA StartsWithNothing ==
  ASSUME IInv, HandleInv, NEW n \in Object, n = NextObject
  PROVE  n \notin Born /\ New(n) /\ Building(World(n), n, {})
  <1>1. n \notin Born
    BY NextIsNew DEF IInv
  <1>2. New(n)
    BY <1>1 DEF HandleInv, Remembered, New
  <1>3. object[n] = Fresh
    BY <1>1 DEF HandleInv, Fields, Born
  <1>4. PICK f : f = object[n].field
    OBVIOUS
  <1>5. IsField(f) /\ object[n].mark \in BOOLEAN
    BY <1>4 DEF HandleInv, Fields
  <1>6. \A r \in Resource : f[r] = None
    BY <1>3, <1>4 DEF Fresh
  <1>7. PICK m : m = object[n].mark
    OBVIOUS
  <1>8. PICK W : W = World(n)
    OBVIOUS
  <1>9. W = [self |-> n, owner |-> owner, field |-> f, mark |-> m]
    BY <1>4, <1>7, <1>8 DEF World
  <1>10. W.owner = owner /\ W.field = f /\ W.mark = m
    BY <1>9
  <1>11. W = [self |-> n, owner |-> W.owner, field |-> W.field, mark |-> W.mark]
    BY <1>9, <1>10
  <1>12. owner \in [Handle -> Holding] /\ m \in BOOLEAN
    BY <1>5, <1>7 DEF HandleInv, Sorted
  <1>13. IsWorld(W, n)
    BY <1>5, <1>10, <1>11, <1>12 DEF IsWorld
  <1>14. Building(W, n, {})
    BY <1>6, <1>10, <1>13 DEF Building
  <1> QED BY <1>1, <1>2, <1>8, <1>14

\* What a constructor that comes to its end has made.
LEMMA Constructed ==
  ASSUME IInv, HandleInv, NEW n \in Object, n = NextObject, NEW V,
         V = Run(World(n), Constructor(kind), Len(Constructor(kind)) + 1)
  PROVE  /\ \E B : Building(V, n, B)
         /\ kind = "vxi11" => V.mark = TRUE
  <1>1. Sorted(owner) /\ kind \in KnownKinds
    BY DEF HandleInv
  <1>2. New(n) /\ Building(World(n), n, {})
    BY StartsWithNothing
  <1>3. PICK steps : steps = Constructor(kind)
    OBVIOUS
  <1>4. /\ \E B : Builds(kind, steps, {}, B)
        /\ kind = "vxi11" => Sets(steps)
    BY <1>1, <1>3, ConstructorBuilds
  <1>5. PICK B : Builds(kind, steps, {}, B)
    BY <1>4
  <1>6. IsSteps(steps)
    BY <1>5 DEF Builds
  <1>7. PICK n0 \in Nat : n0 = Len(steps)
    BY <1>6, StepsJoin
  <1>8. PICK W : W = World(n)
    OBVIOUS
  <1>9. Progress(Worlds(W, steps, n0)[n0], n, steps, n0)
    <2>1. n0 <= Len(steps) /\ Len(steps) \in Nat
      BY <1>7
    <2> QED BY <1>1, <1>2, <1>5, <1>8, <2>1, RunBuilds DEF New
  <1>10. V = Worlds(W, steps, n0)[n0]
    <2>1. (n0 + 1) - 1 = n0 /\ n0 + 1 > n0
      OBVIOUS
    <2>2. V = Run(W, steps, n0 + 1)
      BY <1>3, <1>7, <1>8
    <2> QED BY <1>7, <2>1, <2>2 DEF Run
  <1>11. Progress(V, n, steps, n0)
    BY <1>9, <1>10
  <1>12. kind = "vxi11" => V.mark = TRUE
    BY <1>4, <1>7, <1>11 DEF Sets, Progress
  <1>13. \E C : Building(V, n, C)
    BY <1>11 DEF Progress
  <1> QED BY <1>12, <1>13

\* Why a handle is kept that a constructor obtained before step s raised.
Excused(s, r, h) ==
  s.part = "setter" \/ <<kind, r>> \in KeptByOpen \/ (h = 0 /\ kind \in ZeroStays)

\* What a constructor of object n that raised at step s has left in a world.
Leaves(V, n, s) ==
  /\ IsWorld(V, n) /\ Sorted(V.owner) /\ s.part \in {"open", "setter"}
  /\ \A h \in Handle :
       \/ V.owner[h] = owner[h]
       \/ owner[h] = Nobody /\ V.owner[h] = Nobody
       \/ owner[h] = Nobody /\ \E r \in Uses(kind) : /\ V.owner[h] = Mine(n, r)
                                                     /\ r # "fd" => h # 0
                                                     /\ Excused(s, r, h)

LEMMA ConstructedInPart ==
  ASSUME IInv, HandleInv, NEW n \in Object, n = NextObject,
         NEW stop \in Stops(Constructor(kind)) \ {Len(Constructor(kind)) + 1}, NEW V,
         V = Run(World(n), Constructor(kind), stop)
  PROVE  Leaves(V, n, Constructor(kind)[stop])
  <1>1. Sorted(owner) /\ kind \in KnownKinds
    BY DEF HandleInv
  <1>2. New(n) /\ Building(World(n), n, {})
    BY StartsWithNothing
  <1>3. PICK steps : steps = Constructor(kind)
    OBVIOUS
  <1>4. PICK B : Builds(kind, steps, {}, B)
    BY <1>1, <1>3, ConstructorBuilds
  <1>5. Builds(kind, steps, {}, B) /\ IsSteps(steps)
    BY <1>4 DEF Builds
  <1>6. PICK n0 \in Nat : n0 = Len(steps)
    BY <1>5, StepsJoin
  <1>7. stop \in 1 .. n0 /\ steps[stop].raises
    BY <1>3, <1>6 DEF Stops
  <1>8. PICK W, s : W = World(n) /\ s = steps[stop]
    OBVIOUS
  <1>9. PICK m \in Nat : m = stop - 1 /\ m <= n0
    BY <1>7
  <1>10. PICK D : D = Worlds(W, steps, m)[m]
    OBVIOUS
  <1>11. Progress(D, n, steps, m)
    <2>1. m <= Len(steps) /\ Len(steps) \in Nat
      BY <1>6, <1>9
    <2> QED BY <1>1, <1>2, <1>5, <1>8, <1>10, <2>1, RunBuilds DEF New
  <1>12. PICK A : A = HeldAt(steps, {}, m)
    OBVIOUS
  <1>13. Building(D, n, A) /\ IsWorld(D, n)
    BY <1>11, <1>12 DEF Progress, Building
  <1>14. Fine(kind, s, A) /\ s.raises
    BY <1>5, <1>6, <1>7, <1>8, <1>9, <1>12 DEF Builds
  <1>15. V = Release(D, s.undo)
    <2>1. V = Run(W, steps, stop) /\ ~ (stop > n0)
      BY <1>3, <1>7, <1>8
    <2> QED BY <1>6, <1>8, <1>9, <1>10, <2>1 DEF Run
  <1>16. s.undo \in SUBSET Resource /\ s.part \in {"open", "setter"}
    BY <1>14 DEF Fine
  <1>17. IsWorld(V, n) /\ Without(V, D, s.undo)
    BY <1>13, <1>15, <1>16, ReleaseIs
  <1>18. Sorted(D.owner)
    BY <1>1, <1>2, <1>13, BuildingSorted DEF New
  <1>19. Sorted(V.owner)
    <2>1. \A h \in Handle : V.owner[h] = Nobody \/ V.owner[h] = D.owner[h]
      BY <1>17 DEF Without
    <2>2. V.owner \in [Handle -> Holding]
      BY <1>17 DEF IsWorld
    <2>3. Nobody # Octave
      BY DEF Nobody, Octave
    <2> QED BY <1>18, <2>1, <2>2, <2>3 DEF Sorted, Given
  <1>20. ASSUME NEW h \in Handle
         PROVE  \/ V.owner[h] = owner[h]
                \/ owner[h] = Nobody /\ V.owner[h] = Nobody
                \/ owner[h] = Nobody /\ \E r \in Uses(kind) :
                                          /\ V.owner[h] = Mine(n, r)
                                          /\ r # "fd" => h # 0
                                          /\ Excused(s, r, h)
    <2>1. CASE \A r \in A : D.field[r] # h
      <3>1. D.owner[h] = owner[h]
        BY <1>13, <2>1 DEF Building
      <3>2. ~ IsOf(D.field, s.undo, h)
        <4>1. ASSUME NEW r \in s.undo, Closable(D.field[r]), D.field[r] = h
              PROVE  FALSE
          <5>1. r \notin A /\ r \in Resource
            BY <1>16, <2>1, <4>1
          <5>2. D.field[r] = None
            BY <1>13, <5>1 DEF Building
          <5> QED BY <4>1, <5>2 DEF Closable, None
        <4> QED BY <4>1 DEF IsOf
      <3> QED BY <1>17, <3>1, <3>2 DEF Without
    <2>2. ASSUME NEW r \in A, D.field[r] = h
          PROVE  /\ owner[h] = Nobody
                 /\ V.owner[h] = Nobody \/
                    (/\ r \in Uses(kind) /\ V.owner[h] = Mine(n, r)
                     /\ r # "fd" => h # 0
                     /\ Excused(s, r, h))
      <3>1. /\ owner[h] = Nobody /\ D.owner[h] = Mine(n, r) /\ r \in Uses(kind)
            /\ r # "fd" => h # 0
        BY <1>13, <2>2 DEF Building
      <3>2. CASE IsOf(D.field, s.undo, h)
        BY <1>17, <3>1, <3>2 DEF Without
      <3>3. CASE ~ IsOf(D.field, s.undo, h)
        <4>1. V.owner[h] = Mine(n, r)
          BY <1>17, <3>1, <3>3 DEF Without
        <4>2. ASSUME s.part = "open", <<kind, r>> \notin KeptByOpen
              PROVE  h = 0 /\ kind \in ZeroStays
          <5>1. r \in s.undo
            BY <1>14, <4>2 DEF Fine
          <5>2. ~ Closable(h)
            BY <2>2, <3>3, <5>1 DEF IsOf
          <5> QED BY <5>2, BoundAssumption DEF Closable, Handle
        <4>3. Excused(s, r, h)
          BY <1>16, <4>2 DEF Excused
        <4> QED BY <3>1, <4>1, <4>3
      <3> QED BY <3>2, <3>3
    <2> QED BY <2>1, <2>2
  <1> QED BY <1>3, <1>8, <1>16, <1>17, <1>19, <1>20 DEF Leaves

\* A constructor touches its new object and the handles nobody held.
Adds(n) ==
  /\ Born' = Born \cup {n} /\ lost \subseteq lost' /\ kind' = kind /\ aborted' = aborted
  /\ \A p \in Object \ {n} : object'[p] = object[p] /\ (p \in LostObjects' <=> p \in LostObjects)
  /\ \A h \in Handle : \/ owner'[h] = owner[h]
                       \/ owner[h] = Nobody /\ owner'[h] = Nobody
                       \/ owner[h] = Nobody /\ owner'[h].by = n

LEMMA OthersKept ==
  ASSUME HandleInv, NEW n \in Object, n \notin Born, New(n), Adds(n)
  PROVE  /\ \A h \in Handle : Given(owner', h) /\ owner'[h].by # n =>
                                Remembered(h)' /\ ClientOpen(h)' /\ Explained(h)'
         /\ \A p \in Object \ {n} : Fields(p)' /\ Owns(p)'
  <1>1. ASSUME NEW p \in Object \ {n}
        PROVE  object'[p] = object[p] /\ (Live(p)' <=> Live(p)) /\ (p \in Born' <=> p \in Born)
    BY DEF Adds, Live, LostObjects
  <1>2. ASSUME NEW h \in Handle, Given(owner', h), owner'[h].by # n
        PROVE  Remembered(h)' /\ ClientOpen(h)' /\ Explained(h)'
    <2>1. owner'[h] = owner[h] /\ Given(owner, h)
      BY <1>2 DEF Adds, Given
    <2>2. PICK p \in Object \ {n} : p = owner[h].by
      BY <1>2, <2>1 DEF HandleInv, Sorted
    <2>3. owner'[h].by = p /\ owner[h].by = p
      BY <2>1, <2>2
    <2>4. Remembered(h)'
      BY <1>1, <2>1, <2>3 DEF HandleInv, Remembered
    <2>5. ClientOpen(h)'
      BY <1>1, <2>1, <2>3 DEF HandleInv, ClientOpen
    <2>6. Explained(h)'
      BY <1>1, <2>1, <2>3 DEF HandleInv, Explained, Adds
    <2> QED BY <2>4, <2>5, <2>6
  <1>3. ASSUME NEW p \in Object \ {n}
        PROVE  Fields(p)' /\ Owns(p)'
    <2>1. Fields(p) /\ Owns(p)
      BY DEF HandleInv
    <2>2. Fields(p)'
      BY <1>1, <2>1 DEF Fields
    <2>3. ASSUME NEW r \in Resource, Live(p)', object'[p].field[r] # None,
                 kind' = "vxi11" => object'[p].mark
          PROVE  owner'[object'[p].field[r]] = Mine(p, r)
      <3>1. PICK h : h = object[p].field[r]
        OBVIOUS
      <3>2. h \in Handle /\ object'[p].field[r] = h
        BY <1>1, <2>1, <2>3, <3>1 DEF Fields, IsField
      <3>3. owner[h] = Mine(p, r)
        BY <1>1, <2>1, <2>3, <3>1 DEF Owns, Adds
      <3>4. owner'[h] = owner[h]
        BY <3>2, <3>3, MineIs DEF Adds
      <3> QED BY <3>2, <3>3, <3>4
    <2>4. Owns(p)'
      BY <2>3 DEF Owns
    <2> QED BY <2>2, <2>4
  <1> QED BY <1>2, <1>3

\* The new object as the constructor left it.
LEMMA NewObject ==
  ASSUME IInv, NEW n \in Object, NEW V, object' = [object EXCEPT ![n] = Built(V)]
  PROVE  /\ object'[n].field = V.field /\ object'[n].mark = V.mark
         /\ object'[n].born = TRUE /\ object'[n].destroyed = FALSE
  <1>1. DOMAIN object = Object
    BY DEF IInv, ObjectInv
  <1>2. object'[n] = Built(V)
    BY <1>1
  <1>3. PICK f, m : f = V.field /\ m = V.mark
    OBVIOUS
  <1>4. PICK x : x = object'[n]
    OBVIOUS
  <1>5. x = [field |-> f, mark |-> m, born |-> TRUE, destroyed |-> FALSE]
    BY <1>2, <1>3, <1>4 DEF Built
  <1>6. x.field = f /\ x.mark = m /\ x.born = TRUE /\ x.destroyed = FALSE
    BY <1>5
  <1> QED BY <1>3, <1>4, <1>6

LEMMA ConstructHandles ==
  ASSUME IInv, HandleInv, NEW v \in Var, Construct(v)
  PROVE  HandleInv'
  <1>1. PICK n \in Object : n = NextObject
    BY DEF Construct
  <1>2. PICK V : V = Run(World(n), Constructor(kind), Len(Constructor(kind)) + 1)
    OBVIOUS
  <1>3. /\ owner' = V.owner /\ object' = [object EXCEPT ![n] = Built(V)]
        /\ UNCHANGED <<kind, lost, aborted>>
    BY <1>1, <1>2 DEF Construct
  <1>4. /\ \E B : Building(V, n, B)
        /\ kind = "vxi11" => V.mark = TRUE
    BY <1>1, <1>2, Constructed
  <1>5. PICK B : Building(V, n, B)
    BY <1>4
  <1>6. n \notin Born /\ New(n) /\ Sorted(owner)
    BY <1>1, StartsWithNothing DEF HandleInv
  <1>7. Sorted(V.owner) /\ \A h \in Handle, q \in Resource : V.owner[h] = Mine(n, q) => q \in B
    BY <1>5, <1>6, BuildingSorted DEF New
  <1>8. /\ object'[n].field = V.field /\ object'[n].mark = V.mark
        /\ object'[n].born = TRUE /\ object'[n].destroyed = FALSE
    BY <1>3, NewObject
  <1>9. LostObjects' = LostObjects /\ n \notin LostObjects
    BY <1>3, <1>6 DEF LostObjects, IInv, LostInv
  <1>10. Adds(n)
    <2>1. Born' = Born \cup {n} /\ \A p \in Object \ {n} : object'[p] = object[p]
      BY <1>1, <1>3, MakesOne
    <2>2. ASSUME NEW h \in Handle
          PROVE  \/ owner'[h] = owner[h]
                 \/ owner[h] = Nobody /\ owner'[h].by = n
      <3>1. CASE \A r \in B : V.field[r] # h
        BY <1>3, <1>5, <3>1 DEF Building
      <3>2. ASSUME NEW r \in B, V.field[r] = h
            PROVE  owner[h] = Nobody /\ owner'[h].by = n
        BY <1>3, <1>5, <3>2, MineIs DEF Building
      <3> QED BY <3>1, <3>2
    <2> QED BY <1>3, <1>9, <2>1, <2>2 DEF Adds
  <1>11. /\ \A h \in Handle : Given(owner', h) /\ owner'[h].by # n =>
                                Remembered(h)' /\ ClientOpen(h)' /\ Explained(h)'
         /\ \A p \in Object \ {n} : Fields(p)' /\ Owns(p)'
    BY <1>6, <1>10, OthersKept
  <1>12. Live(n)' /\ n \in Born'
    BY <1>8, <1>9 DEF Live, Born, LostObjects
  <1>13. ASSUME NEW h \in Handle, Given(owner', h), owner'[h].by = n
         PROVE  Remembered(h)' /\ ClientOpen(h)' /\ Explained(h)'
    <2>1. owner[h] # owner'[h]
      BY <1>6, <1>13 DEF New, Given
    <2>2. PICK r \in B : V.field[r] = h
      BY <1>3, <1>5, <2>1 DEF Building
    <2>3. owner'[h] = Mine(n, r) /\ (r # "fd" => h # 0) /\ r \in Uses(kind)
      BY <1>3, <1>5, <2>2 DEF Building
    <2>4. owner'[h].res = r /\ object'[n].field[r] = h
      BY <1>8, <2>2, <2>3, MineIs
    <2>5. Remembered(h)' /\ Explained(h)'
      BY <1>12, <1>13, <2>3, <2>4 DEF Remembered, Explained
    <2>6. r = "client" => kind = "vxi11"
      BY <2>3 DEF Uses
    <2>7. ClientOpen(h)'
      BY <1>4, <1>8, <1>13, <2>4, <2>6 DEF ClientOpen
    <2> QED BY <2>5, <2>7
  <1>14. \A h \in Handle : ~ Given(owner', h) => Remembered(h)' /\ ClientOpen(h)' /\ Explained(h)'
    BY DEF Remembered, ClientOpen, Explained
  <1>15. Fields(n)'
    <2>1. IsField(V.field) /\ V.mark \in BOOLEAN
      BY <1>5 DEF Building, IsWorld
    <2> QED BY <1>3, <1>4, <1>8, <2>1 DEF Fields
  <1>16. Owns(n)'
    <2>1. ASSUME NEW r \in Resource, object'[n].field[r] # None
          PROVE  owner'[object'[n].field[r]] = Mine(n, r)
      <3>1. V.field[r] # None
        BY <1>8, <2>1
      <3>2. r \in B
        BY <1>5, <3>1 DEF Building
      <3> QED BY <1>3, <1>5, <1>8, <3>2 DEF Building
    <2> QED BY <2>1 DEF Owns
  <1>17. kind' \in KnownKinds /\ Sorted(owner)'
    BY <1>3, <1>7 DEF HandleInv, Sorted
  <1> QED BY <1>11, <1>13, <1>14, <1>15, <1>16, <1>17 DEF HandleInv

LEMMA ConstructRaisesHandles ==
  ASSUME IInv, HandleInv, ConstructRaises
  PROVE  HandleInv'
  <1>1. PICK n \in Object : n = NextObject
    BY DEF ConstructRaises
  <1>2. PICK stop \in Stops(Constructor(kind)) \ {Len(Constructor(kind)) + 1} :
          /\ owner' = Run(World(n), Constructor(kind), stop).owner
          /\ object' = [object EXCEPT ![n] = Built(Run(World(n), Constructor(kind), stop))]
          /\ lost' = lost \cup {[obj |-> n, part |-> Constructor(kind)[stop].part]}
    BY <1>1 DEF ConstructRaises
  <1>3. PICK V : V = Run(World(n), Constructor(kind), stop)
    OBVIOUS
  <1>4. PICK s : s = Constructor(kind)[stop]
    OBVIOUS
  <1>5. /\ owner' = V.owner /\ object' = [object EXCEPT ![n] = Built(V)]
        /\ lost' = lost \cup {[obj |-> n, part |-> s.part]}
    BY <1>2, <1>3, <1>4
  <1>6. UNCHANGED <<kind, aborted>>
    BY DEF ConstructRaises
  <1>7. Leaves(V, n, s)
    BY <1>1, <1>3, <1>4, ConstructedInPart
  <1>8. n \notin Born /\ New(n) /\ Sorted(owner)
    BY <1>1, StartsWithNothing DEF HandleInv
  <1>9. /\ object'[n].field = V.field /\ object'[n].mark = V.mark
        /\ object'[n].born = TRUE /\ object'[n].destroyed = FALSE
    BY <1>5, NewObject
  <1>10. PICK l : l = [obj |-> n, part |-> s.part]
    OBVIOUS
  <1>11. l.obj = n /\ l.part = s.part /\ lost' = lost \cup {l}
    BY <1>5, <1>10
  <1>12. LostObjects' = LostObjects \cup {n}
    BY <1>11 DEF LostObjects
  <1>13. Adds(n)
    <2>1. Born' = Born \cup {n} /\ \A p \in Object \ {n} : object'[p] = object[p]
      BY <1>1, <1>5, MakesOne
    <2>2. ASSUME NEW h \in Handle
          PROVE  \/ owner'[h] = owner[h]
                 \/ owner[h] = Nobody /\ owner'[h] = Nobody
                 \/ owner[h] = Nobody /\ owner'[h].by = n
      BY <1>5, <1>7, MineIs DEF Leaves
    <2>3. lost \subseteq lost' /\ \A p \in Object \ {n} : p \in LostObjects' <=> p \in LostObjects
      BY <1>11, <1>12
    <2> QED BY <1>6, <2>1, <2>2, <2>3 DEF Adds
  <1>14. /\ \A h \in Handle : Given(owner', h) /\ owner'[h].by # n =>
                                Remembered(h)' /\ ClientOpen(h)' /\ Explained(h)'
         /\ \A p \in Object \ {n} : Fields(p)' /\ Owns(p)'
    BY <1>8, <1>13, OthersKept
  <1>15. ~ Live(n)' /\ n \in Born'
    BY <1>9, <1>12 DEF Live, Born, LostObjects
  <1>16. ASSUME NEW h \in Handle, Given(owner', h), owner'[h].by = n
         PROVE  Remembered(h)' /\ ClientOpen(h)' /\ Explained(h)'
    <2>1. owner[h] # owner'[h]
      BY <1>8, <1>16 DEF New, Given
    <2>2. PICK r \in Uses(kind) : /\ owner'[h] = Mine(n, r)
                                  /\ r # "fd" => h # 0
                                  /\ Excused(s, r, h)
      BY <1>5, <1>7, <1>16, <2>1 DEF Leaves, Given
    <2>3. owner'[h].res = r
      BY <2>2, MineIs
    <2>4. Remembered(h)' /\ ClientOpen(h)'
      BY <1>15, <1>16, <2>2, <2>3 DEF Remembered, ClientOpen
    <2>5. Explained(h)'
      <3>1. CASE s.part = "setter" \/ <<kind, r>> \in KeptByOpen
        <4>1. l \in lost' /\ l.obj = owner'[h].by
              /\ (l.part = "setter" \/ <<kind', owner'[h].res>> \in KeptByOpen)
          BY <1>6, <1>11, <1>16, <2>3, <3>1
        <4> QED BY <4>1 DEF Explained
      <3>2. CASE h = 0 /\ kind \in ZeroStays
        BY <1>6, <3>2 DEF Explained
      <3> QED BY <2>2, <3>1, <3>2 DEF Excused
    <2> QED BY <2>4, <2>5
  <1>17. \A h \in Handle : ~ Given(owner', h) => Remembered(h)' /\ ClientOpen(h)' /\ Explained(h)'
    BY DEF Remembered, ClientOpen, Explained
  <1>18. Fields(n)' /\ Owns(n)'
    <2>1. IsField(V.field) /\ V.mark \in BOOLEAN
      BY <1>7 DEF Leaves, IsWorld
    <2>2. Fields(n)'
      BY <1>9, <2>1 DEF Fields
    <2>3. Owns(n)'
      BY <1>12, <1>15 DEF Owns
    <2> QED BY <2>2, <2>3
  <1>19. kind' \in KnownKinds /\ Sorted(owner)'
    BY <1>5, <1>6, <1>7 DEF HandleInv, Sorted, Leaves
  <1> QED BY <1>14, <1>16, <1>17, <1>18, <1>19 DEF HandleInv

-----------------------------------------------------------------------------
\* What closing does

\* A step of a close: it releases, or complains before anything was released.
Shuts(x) == x.frees \in SUBSET Resource /\ x.gets = "none" /\ x.mark \in {"keep", "clear"}

\* What the first i of the steps release.
FreedBy(s, i) == UNION {s[j].frees : j \in 1 .. i}

\* Steps that release R, take the mark away if c, and may complain only if e.
Closing(s, R, c, e) ==
  /\ IsSteps(s) /\ R = FreedBy(s, Len(s)) /\ c \in BOOLEAN /\ e \in BOOLEAN
  /\ c <=> \E i \in 1 .. Len(s) : s[i].mark = "clear"
  /\ \A i \in 1 .. Len(s) :
       /\ Shuts(s[i])
       /\ s[i].raises => /\ e /\ s[i].undo = {}
                         /\ \A j \in 1 .. (i - 1) : s[j].frees = {} /\ s[j].mark = "keep"

LEMMA ClosingJoin ==
  ASSUME NEW s, NEW t, NEW R, NEW Q, NEW c, NEW d, NEW e, NEW f,
         Closing(s, R, c, e), Closing(t, Q, d, f), (R = {} /\ ~c) \/ ~f
  PROVE  Closing(s \o t, R \cup Q, c \/ d, e \/ f)
  <1>1. PICK u : u = s \o t
    OBVIOUS
  <1>2. /\ IsSteps(s) /\ IsSteps(t)
        /\ c \in BOOLEAN /\ d \in BOOLEAN /\ e \in BOOLEAN /\ f \in BOOLEAN
    BY DEF Closing
  <1>3. PICK n \in Nat, m \in Nat : n = Len(s) /\ m = Len(t)
    BY <1>2, StepsJoin
  <1>4. /\ IsSteps(u) /\ Len(u) = n + m
        /\ \A i \in 1 .. n : u[i] = s[i]
        /\ \A i \in 1 .. m : u[n + i] = t[i]
    BY <1>1, <1>2, <1>3, StepsJoin
  <1>5. ASSUME NEW i \in 1 .. (n + m)
        PROVE  \/ i \in 1 .. n /\ u[i] = s[i]
               \/ \E l \in 1 .. m : i = n + l /\ u[i] = t[l]
    <2>1. CASE i <= n
      BY <1>4, <2>1
    <2>2. CASE i > n
      <3>1. PICK l \in 1 .. m : i = n + l
        <4>1. i - n \in 1 .. m /\ i = n + (i - n)
          BY <2>2
        <4> QED BY <4>1
      <3> QED BY <1>4, <3>1
    <2> QED BY <2>1, <2>2
  <1>6. /\ \A i \in 1 .. n : i \in 1 .. (n + m)
        /\ \A l \in 1 .. m : n + l \in 1 .. (n + m)
    OBVIOUS
  <1>7. FreedBy(u, n + m) = R \cup Q
    <2>1. ASSUME NEW r
          PROVE  r \in FreedBy(u, n + m) <=> r \in R \/ r \in Q
      <3>1. r \in FreedBy(u, n + m) <=> \E i \in 1 .. (n + m) : r \in u[i].frees
        BY DEF FreedBy
      <3>2. /\ r \in R <=> \E i \in 1 .. n : r \in s[i].frees
            /\ r \in Q <=> \E i \in 1 .. m : r \in t[i].frees
        BY <1>3 DEF Closing, FreedBy
      <3> QED BY <1>4, <1>5, <1>6, <3>1, <3>2
    <2> QED BY <2>1
  <1>8. c \/ d <=> \E i \in 1 .. (n + m) : u[i].mark = "clear"
    <2>1. /\ c <=> \E i \in 1 .. n : s[i].mark = "clear"
          /\ d <=> \E i \in 1 .. m : t[i].mark = "clear"
      BY <1>3 DEF Closing
    <2> QED BY <1>4, <1>5, <1>6, <2>1
  <1>9. ASSUME NEW i \in 1 .. (n + m)
        PROVE  /\ Shuts(u[i])
               /\ u[i].raises => /\ e \/ f
                                 /\ u[i].undo = {}
                                 /\ \A j \in 1 .. (i - 1) : u[j].frees = {} /\ u[j].mark = "keep"
    <2>1. CASE i \in 1 .. n /\ u[i] = s[i]
      <3>1. \A j \in 1 .. (i - 1) : u[j] = s[j]
        BY <1>4, <2>1
      <3> QED BY <1>3, <2>1, <3>1 DEF Closing
    <2>2. ASSUME NEW l \in 1 .. m, i = n + l, u[i] = t[l]
          PROVE  /\ Shuts(u[i])
                 /\ u[i].raises => /\ e \/ f
                                   /\ u[i].undo = {}
                                   /\ \A j \in 1 .. (i - 1) :
                                        u[j].frees = {} /\ u[j].mark = "keep"
      <3>1. Shuts(t[l])
        BY <1>3 DEF Closing
      <3>2. ASSUME t[l].raises
            PROVE  /\ f /\ t[l].undo = {}
                   /\ \A j \in 1 .. (l - 1) : t[j].frees = {} /\ t[j].mark = "keep"
        BY <1>3, <3>2 DEF Closing
      <3>3. ASSUME t[l].raises, NEW j \in 1 .. (i - 1)
            PROVE  u[j].frees = {} /\ u[j].mark = "keep"
        <4>1. CASE j <= n
          <5>1. j \in 1 .. n /\ u[j] = s[j]
            BY <1>4, <4>1
          <5>2. R = {} /\ ~c
            BY <3>2, <3>3
          <5>3. s[j].frees = {}
            BY <1>3, <5>1, <5>2 DEF Closing, FreedBy
          <5>4. s[j].mark # "clear" /\ s[j].mark \in {"keep", "clear"}
            BY <1>3, <5>1, <5>2 DEF Closing, Shuts
          <5> QED BY <5>1, <5>3, <5>4
        <4>2. CASE j > n
          <5>1. PICK q \in 1 .. (l - 1) : j = n + q
            <6>1. j - n \in 1 .. (l - 1) /\ j = n + (j - n)
              BY <2>2, <4>2
            <6> QED BY <6>1
          <5>2. q \in 1 .. m
            BY <5>1
          <5> QED BY <1>4, <3>2, <3>3, <5>1, <5>2
        <4> QED BY <4>1, <4>2
      <3> QED BY <2>2, <3>1, <3>2, <3>3
    <2> QED BY <1>5, <2>1, <2>2
  <1>10. (c \/ d) \in BOOLEAN /\ (e \/ f) \in BOOLEAN
    OBVIOUS
  <1>11. Closing(u, R \cup Q, c \/ d, e \/ f)
    BY <1>4, <1>7, <1>8, <1>9, <1>10 DEF Closing
  <1> QED BY <1>1, <1>11

LEMMA ClosingOne ==
  ASSUME NEW x, Shuts(x), x.raises => x.undo = {}, x.raises \in BOOLEAN
  PROVE  Closing(<<x>>, x.frees, x.mark = "clear", x.raises)
  <1>1. PICK s : s = <<x>>
    OBVIOUS
  <1>2. s \in Seq({x}) /\ Len(s) = 1 /\ s[1] = x
    BY <1>1
  <1>3. \A i \in 1 .. 1 : i = 1 /\ 1 .. (i - 1) = {}
    OBVIOUS
  <1>4. FreedBy(s, 1) = x.frees
    BY <1>2, <1>3 DEF FreedBy
  <1>5. 1 \in 1 .. 1 /\ IsSteps(s)
    BY <1>2 DEF IsSteps
  <1>6. Closing(s, x.frees, x.mark = "clear", x.raises)
    BY <1>2, <1>3, <1>4, <1>5 DEF Closing
  <1> QED BY <1>1, <1>6

LEMMA ReleasesClosing ==
  ASSUME NEW R \in SUBSET Resource
  PROVE  Closing(Releases(R), R, FALSE, FALSE)
  <1>1. PICK x : x = Step("close", FALSE, {}, "none", R, "keep")
    OBVIOUS
  <1>2. x.frees = R /\ x.gets = "none" /\ x.mark = "keep" /\ x.raises = FALSE /\ x.undo = {}
    BY <1>1 DEF Step
  <1>3. Shuts(x) /\ (x.mark = "clear") = FALSE
    BY <1>2 DEF Shuts
  <1>4. Closing(<<x>>, x.frees, x.mark = "clear", x.raises)
    BY <1>2, <1>3, ClosingOne
  <1> QED BY <1>1, <1>2, <1>3, <1>4 DEF Releases

LEMMA ComplainsClosing == Closing(Complains, {}, FALSE, TRUE)
  <1>1. PICK x : x = Step("close", TRUE, {}, "none", {}, "keep")
    OBVIOUS
  <1>2. x.frees = {} /\ x.gets = "none" /\ x.mark = "keep" /\ x.raises = TRUE /\ x.undo = {}
    BY <1>1 DEF Step
  <1>3. Shuts(x) /\ (x.mark = "clear") = FALSE
    BY <1>2 DEF Shuts
  <1>4. Closing(<<x>>, x.frees, x.mark = "clear", x.raises)
    BY <1>2, <1>3, ClosingOne
  <1> QED BY <1>1, <1>2, <1>3, <1>4 DEF Complains

LEMMA UnmarksClosing == Closing(Unmarks, {}, TRUE, FALSE)
  <1>1. PICK x : x = Step("close", FALSE, {}, "none", {}, "clear")
    OBVIOUS
  <1>2. x.frees = {} /\ x.gets = "none" /\ x.mark = "clear" /\ x.raises = FALSE /\ x.undo = {}
    BY <1>1 DEF Step
  <1>3. Shuts(x) /\ (x.mark = "clear") = TRUE
    BY <1>2 DEF Shuts
  <1>4. Closing(<<x>>, x.frees, x.mark = "clear", x.raises)
    BY <1>2, <1>3, ClosingOne
  <1> QED BY <1>1, <1>2, <1>3, <1>4 DEF Unmarks

\* The closes and destructors: what they release, and which may complain.
Closes(k, s) ==
  \E R, c, e : /\ Closing(s, R, c, e)
               /\ Uses(k) \subseteq R \cup {"link", "lib"}
               /\ k = "vxi11" => c /\ "client" \in R
               /\ e => k \in {"parallel", "vxi11", "gpib"}

OnlyDescriptor ==
  {"tcpclient", "tcpserver", "tcp", "serial", "serialport", "serial_win32", "serialport_win32",
   "i2c", "spi", "usbtmc"}

LEMMA CloseCloses ==
  ASSUME NEW k \in KnownKinds
  PROVE  Closes(k, Close(k))
  <1>1. /\ {"fd"} \in SUBSET Resource /\ {"buffer"} \in SUBSET Resource
        /\ {"ctx"} \in SUBSET Resource /\ {"client"} \in SUBSET Resource
        /\ {"instr", "rm"} \in SUBSET Resource
    BY DEF Resource
  <1>2. Closing(Releases({"fd"}), {"fd"}, FALSE, FALSE)
    BY <1>1, ReleasesClosing
  <1>3. CASE k \in OnlyDescriptor
    <2>1. Uses(k) = {"fd"}
      BY <1>3 DEF OnlyDescriptor, Uses
    <2>2. Close(k) = Releases({"fd"})
      BY <1>3 DEF OnlyDescriptor, Close, TcpclientClose, TcpserverClose, TcpClose, SerialClose,
                  SerialportClose, SerialWindowsClose, SerialportWindowsClose, I2cClose, SpiClose,
                  UsbtmcClose
    <2>3. k # "vxi11"
      BY <1>3 DEF OnlyDescriptor
    <2>4. Closing(Close(k), {"fd"}, FALSE, FALSE)
      BY <1>2, <2>2
    <2>5. Uses(k) \subseteq {"fd"} \cup {"link", "lib"}
      BY <2>1
    <2> QED BY <2>3, <2>4, <2>5 DEF Closes
  <1>4. CASE k \in {"udp", "udpport"}
    <2>1. Uses(k) = {"fd", "buffer"}
      BY <1>4 DEF Uses
    <2>2. Close(k) = Releases({"fd"}) \o Releases({"buffer"})
      BY <1>4 DEF Close, UdpClose, UdpportClose
    <2>3. Closing(Releases({"buffer"}), {"buffer"}, FALSE, FALSE)
      BY <1>1, ReleasesClosing
    <2>4. Closing(Close(k), {"fd"} \cup {"buffer"}, FALSE \/ FALSE, FALSE \/ FALSE)
      BY <1>2, <2>2, <2>3, ClosingJoin
    <2>5. Uses(k) \subseteq ({"fd"} \cup {"buffer"}) \cup {"link", "lib"} /\ k # "vxi11"
      BY <1>4, <2>1
    <2> QED BY <2>4, <2>5 DEF Closes
  <1>5. CASE k \in {"modbus", "modbus_serial"}
    <2>1. Uses(k) = {"ctx"} /\ Close(k) = Releases({"ctx"})
      BY <1>5 DEF Uses, Close, ModbusClose
    <2>2. Closing(Close(k), {"ctx"}, FALSE, FALSE)
      BY <1>1, <2>1, ReleasesClosing
    <2>3. Uses(k) \subseteq {"ctx"} \cup {"link", "lib"} /\ k # "vxi11"
      BY <1>5, <2>1
    <2> QED BY <2>2, <2>3 DEF Closes
  <1>6. CASE k = "parallel"
    <2>1. Uses(k) = {"fd"} /\ Close(k) = Complains \o Releases({"fd"})
      BY <1>6 DEF Uses, Close, ParallelClose
    <2>2. Closing(Complains \o Releases({"fd"}), {} \cup {"fd"}, FALSE \/ FALSE, TRUE \/ FALSE)
      BY <1>2, ComplainsClosing, ClosingJoin
    <2>3. Uses(k) \subseteq ({} \cup {"fd"}) \cup {"link", "lib"} /\ k # "vxi11"
      BY <1>6, <2>1
    <2> QED BY <1>6, <2>1, <2>2, <2>3 DEF Closes
  <1>7. CASE k = "vxi11"
    <2>1. /\ Uses(k) = {"client", "link"}
          /\ Close(k) = (Complains \o Releases({"client"})) \o Unmarks
      BY <1>7 DEF Uses, Close, Vxi11Close
    <2>2. Closing(Releases({"client"}), {"client"}, FALSE, FALSE)
      BY <1>1, ReleasesClosing
    <2>3. Closing(Complains \o Releases({"client"}), {} \cup {"client"}, FALSE \/ FALSE,
                  TRUE \/ FALSE)
      BY <2>2, ComplainsClosing, ClosingJoin
    <2>4. Closing((Complains \o Releases({"client"})) \o Unmarks, ({} \cup {"client"}) \cup {},
                  (FALSE \/ FALSE) \/ TRUE, (TRUE \/ FALSE) \/ FALSE)
      BY <2>3, UnmarksClosing, ClosingJoin
    <2>5. /\ Uses(k) \subseteq (({} \cup {"client"}) \cup {}) \cup {"link", "lib"}
          /\ "client" \in ({} \cup {"client"}) \cup {}
      BY <2>1
    <2>6. PICK R, c, e : /\ R = ({} \cup {"client"}) \cup {}
                         /\ c = ((FALSE \/ FALSE) \/ TRUE)
                         /\ e = ((TRUE \/ FALSE) \/ FALSE)
      OBVIOUS
    <2>7. Closing(Close(k), R, c, e)
      BY <2>1, <2>4, <2>6
    <2>8. c /\ "client" \in R /\ Uses(k) \subseteq R \cup {"link", "lib"}
      BY <2>5, <2>6
    <2> QED BY <1>7, <2>7, <2>8 DEF Closes
  <1>8. CASE k = "gpib"
    <2>1. Uses(k) = {} /\ Close(k) = (Complains \o Complains) \o Unmarks
      BY <1>8 DEF Uses, Close, GpibClose
    <2>2. Closing(Complains \o Complains, {} \cup {}, FALSE \/ FALSE, TRUE \/ TRUE)
      BY ComplainsClosing, ClosingJoin
    <2>3. Closing((Complains \o Complains) \o Unmarks, ({} \cup {}) \cup {},
                  (FALSE \/ FALSE) \/ TRUE, (TRUE \/ TRUE) \/ FALSE)
      BY <2>2, UnmarksClosing, ClosingJoin
    <2> QED BY <1>8, <2>1, <2>3 DEF Closes
  <1>9. CASE k = "visadev"
    <2>1. Uses(k) = {"lib", "rm", "instr"} /\ Close(k) = Releases({"instr", "rm"})
      BY <1>9 DEF Uses, Close, VisadevClose
    <2>2. Closing(Close(k), {"instr", "rm"}, FALSE, FALSE)
      BY <1>1, <2>1, ReleasesClosing
    <2>3. Uses(k) \subseteq {"instr", "rm"} \cup {"link", "lib"} /\ k # "vxi11"
      BY <1>9, <2>1
    <2> QED BY <2>2, <2>3 DEF Closes
  <1> QED BY <1>3, <1>4, <1>5, <1>6, <1>7, <1>8, <1>9 DEF KnownKinds, OnlyDescriptor

\* A destructor leaves nothing but the memory of a VXI-11 link.
Destroys(k, s) ==
  \E R, c, e : /\ Closing(s, R, c, e)
               /\ \A r \in Uses(k) : r \in R \/ (r = "link" /\ k = "vxi11")
               /\ e => k \in {"parallel", "vxi11", "gpib"}

LEMMA DestructorDestroys ==
  ASSUME NEW k \in KnownKinds
  PROVE  Destroys(k, Destructor(k))
  <1>1. CASE k # "visadev"
    <2>1. Closes(k, Close(k)) /\ Destructor(k) = Close(k)
      BY <1>1, CloseCloses DEF Destructor
    <2>2. /\ "lib" \in Uses(k) => k = "visadev"
          /\ "link" \in Uses(k) => k = "vxi11"
      BY DEF Uses
    <2> QED BY <1>1, <2>1, <2>2 DEF Closes, Destroys
  <1>2. CASE k = "visadev"
    <2>1. /\ Uses(k) = {"lib", "rm", "instr"}
          /\ Destructor(k) = Releases({"instr", "rm"}) \o Releases({"lib"})
      BY <1>2 DEF Uses, Destructor, VisadevDestructor, VisadevClose
    <2>2. {"lib"} \in SUBSET Resource /\ {"instr", "rm"} \in SUBSET Resource
      BY DEF Resource
    <2>3. /\ Closing(Releases({"instr", "rm"}), {"instr", "rm"}, FALSE, FALSE)
          /\ Closing(Releases({"lib"}), {"lib"}, FALSE, FALSE)
      BY <2>2, ReleasesClosing
    <2>4. Closing(Destructor(k), {"instr", "rm"} \cup {"lib"}, FALSE \/ FALSE, FALSE \/ FALSE)
      BY <2>1, <2>3, ClosingJoin
    <2>5. \A r \in Uses(k) : r \in {"instr", "rm"} \cup {"lib"}
      BY <2>1
    <2> QED BY <2>4, <2>5 DEF Destroys
  <1> QED BY <1>1, <1>2

-----------------------------------------------------------------------------
\* Closing an object

\* World V is W without the resources of R, whatever the marks.
Away(V, W, o, R) ==
  /\ IsWorld(V, o)
  /\ \A h \in Handle : V.owner[h] = IF IsOf(W.field, R, h) THEN Nobody ELSE W.owner[h]
  /\ \A r \in Resource :
       V.field[r] = IF r \in R /\ Closable(W.field[r]) /\ kind # "vxi11" THEN None ELSE W.field[r]

LEMMA PassShuts ==
  ASSUME NEW U, NEW o \in Object, NEW R, NEW W, Away(W, U, o, R), NEW x, Shuts(x)
  PROVE  Away(Pass(W, x), U, o, R \cup x.frees) /\ Flags(Pass(W, x), W, x)
  <1>1. PICK V, N : V = Pass(W, x) /\ N = Release(W, x.frees)
    OBVIOUS
  <1>2. IsWorld(W, o) /\ x.frees \in SUBSET Resource
    BY DEF Away, Shuts
  <1>3. Without(N, W, x.frees)
    BY <1>1, <1>2, ReleaseIs
  <1>4. IsWorld(V, o) /\ Flags(V, W, x) /\ V.owner = N.owner /\ V.field = N.field
    <2>1. "none" \notin Resource
      BY DEF Resource
    <2>3. /\ x.gets \in Resource => Lowest(x.gets, Release(W, x.frees).owner) \in Handle
          /\ x.gets \in Resource \cup {"none"}
      BY <2>1 DEF Shuts
    <2>4. IsWorld(V, o) /\ Flags(V, W, x) /\ Gains(V, N, o, x.gets)
      BY <1>1, <1>2, <2>3, PassIs
    <2> QED BY <2>4 DEF Gains, Shuts
  <1>5. PICK Q : Q = R \cup x.frees
    OBVIOUS
  <1>6. ASSUME NEW r \in Resource
        PROVE  V.field[r] = IF r \in Q /\ Closable(U.field[r]) /\ kind # "vxi11"
                            THEN None ELSE U.field[r]
    <2>1. ~ Closable(None)
      BY DEF Closable, None
    <2>2. V.field[r] = IF r \in x.frees /\ Closable(W.field[r]) /\ kind # "vxi11"
                       THEN None ELSE W.field[r]
      BY <1>3, <1>4 DEF Without
    <2>3. W.field[r] = IF r \in R /\ Closable(U.field[r]) /\ kind # "vxi11"
                       THEN None ELSE U.field[r]
      BY DEF Away
    <2> QED BY <1>5, <2>1, <2>2, <2>3
  <1>7. ASSUME NEW h \in Handle
        PROVE  V.owner[h] = IF IsOf(U.field, Q, h) THEN Nobody ELSE U.owner[h]
    <2>1. V.owner[h] = IF IsOf(W.field, x.frees, h) THEN Nobody ELSE W.owner[h]
      BY <1>3, <1>4 DEF Without
    <2>2. W.owner[h] = IF IsOf(U.field, R, h) THEN Nobody ELSE U.owner[h]
      BY DEF Away
    <2>3. ASSUME IsOf(W.field, x.frees, h) PROVE IsOf(U.field, Q, h)
      <3>1. PICK r \in x.frees : Closable(W.field[r]) /\ W.field[r] = h
        BY <2>3 DEF IsOf
      <3>2. W.field[r] = U.field[r]
        <4>1. ~ Closable(None)
          BY DEF Closable, None
        <4> QED BY <1>2, <3>1, <4>1 DEF Away
      <3> QED BY <1>5, <3>1, <3>2 DEF IsOf
    <2>4. ASSUME IsOf(U.field, Q, h)
          PROVE  IsOf(W.field, x.frees, h) \/ IsOf(U.field, R, h)
      <3>1. PICK r \in Q : Closable(U.field[r]) /\ U.field[r] = h
        BY <2>4 DEF IsOf
      <3>2. CASE r \in R
        BY <3>1, <3>2 DEF IsOf
      <3>3. CASE r \notin R
        <4>1. r \in x.frees /\ r \in Resource
          BY <1>2, <1>5, <3>3
        <4>2. W.field[r] = U.field[r]
          BY <3>3, <4>1 DEF Away
        <4> QED BY <3>1, <4>1, <4>2 DEF IsOf
      <3> QED BY <3>2, <3>3
    <2>5. IsOf(U.field, R, h) => IsOf(U.field, Q, h)
      BY <1>5 DEF IsOf
    <2> QED BY <2>1, <2>2, <2>3, <2>4, <2>5
  <1>8. Away(V, U, o, Q)
    BY <1>4, <1>6, <1>7 DEF Away
  <1> QED BY <1>1, <1>4, <1>5, <1>8

\* World V after i steps of a close from U.
Sinks(V, U, o, s, i) ==
  /\ Away(V, U, o, FreedBy(s, i))
  /\ V.mark = U.mark \/ V.mark = FALSE
  /\ (\A j \in 1 .. i : s[j].mark = "keep") => V.mark = U.mark
  /\ (\E j \in 1 .. i : s[j].mark = "clear") => V.mark = FALSE

LEMMA SinksOn ==
  ASSUME NEW U, NEW o \in Object, NEW s, NEW R, NEW c, NEW e, Closing(s, R, c, e),
         NEW i \in 1 .. Len(s), NEW W, Sinks(W, U, o, s, i - 1)
  PROVE  Sinks(Pass(W, s[i]), U, o, s, i)
  <1>1. PICK V, x : V = Pass(W, x) /\ x = s[i]
    OBVIOUS
  <1>2. Shuts(x)
    BY <1>1 DEF Closing
  <1>3. Away(V, U, o, FreedBy(s, i - 1) \cup x.frees) /\ Flags(V, W, x)
    BY <1>1, <1>2, PassShuts DEF Sinks
  <1>4. 1 .. i = (1 .. (i - 1)) \cup {i}
    OBVIOUS
  <1>5. FreedBy(s, i) = FreedBy(s, i - 1) \cup x.frees
    BY <1>1, <1>4 DEF FreedBy
  <1>6. x.mark = "keep" \/ x.mark = "clear"
    BY <1>2 DEF Shuts
  <1>7. (x.mark = "keep" => V.mark = W.mark) /\ (x.mark = "clear" => V.mark = FALSE)
    BY <1>3 DEF Flags
  <1>8. V.mark = U.mark \/ V.mark = FALSE
    BY <1>6, <1>7 DEF Sinks
  <1>9. (\A j \in 1 .. i : s[j].mark = "keep") => V.mark = U.mark
    BY <1>1, <1>4, <1>7 DEF Sinks
  <1>10. (\E j \in 1 .. i : s[j].mark = "clear") => V.mark = FALSE
    <2>1. (\E j \in 1 .. (i - 1) : s[j].mark = "clear") => W.mark = FALSE
      BY DEF Sinks
    <2> QED BY <1>1, <1>4, <1>6, <1>7, <2>1
  <1> QED BY <1>1, <1>3, <1>5, <1>8, <1>9, <1>10 DEF Sinks

LEMMA RunSinks ==
  ASSUME NEW U, NEW o \in Object, IsWorld(U, o), NEW s, NEW R, NEW c, NEW e, Closing(s, R, c, e),
         NEW n \in Nat, n <= Len(s), Len(s) \in Nat
  PROVE  Sinks(Worlds(U, s, n)[n], U, o, s, n)
  <1>1. PICK f : f = Worlds(U, s, n)
    OBVIOUS
  <1>2. f[0] = U /\ \A i \in 1 .. n : f[i] = Pass(f[i - 1], s[i])
    BY <1>1, WorldsAre
  <1> DEFINE T == {i \in Nat : i <= n /\ ~ Sinks(f[i], U, o, s, i)}
  <1>3. SUFFICES ASSUME T # {} PROVE FALSE
    BY <1>1
  <1>4. PICK i \in T : \A j \in T : i <= j
    BY <1>3, Least
  <1>5. CASE i = 0
    <2>1. 1 .. 0 = {} /\ FreedBy(s, 0) = {}
      BY DEF FreedBy
    <2>2. Away(U, U, o, {})
      BY DEF Away, IsOf
    <2>3. Sinks(f[0], U, o, s, 0)
      BY <1>2, <2>1, <2>2 DEF Sinks
    <2> QED BY <1>4, <1>5, <2>3
  <1>6. CASE i # 0
    <2>1. i \in 1 .. n /\ i \in 1 .. Len(s) /\ i - 1 \in Nat /\ i - 1 <= n
      BY <1>4, <1>6
    <2>2. Sinks(f[i - 1], U, o, s, i - 1)
      BY <1>4, <2>1
    <2>3. Sinks(Pass(f[i - 1], s[i]), U, o, s, i)
      BY <2>1, <2>2, SinksOn
    <2> QED BY <1>2, <1>4, <2>1, <2>3
  <1> QED BY <1>5, <1>6

\* Nothing has changed.
Untouched(V, U) == V.owner = U.owner /\ V.field = U.field /\ V.mark = U.mark

LEMMA NothingAway ==
  ASSUME NEW V, NEW U, NEW o, IsWorld(U, o), Away(V, U, o, {})
  PROVE  V.owner = U.owner /\ V.field = U.field
  <1>1. /\ V.owner \in [Handle -> Holding] /\ U.owner \in [Handle -> Holding]
        /\ V.field \in [Resource -> Handle \cup {None}]
        /\ U.field \in [Resource -> Handle \cup {None}]
    BY DEF Away, IsWorld, IsField
  <1>2. /\ \A h \in Handle : V.owner[h] = U.owner[h]
        /\ \A r \in Resource : V.field[r] = U.field[r]
    BY DEF Away, IsOf
  <1> QED BY <1>1, <1>2

\* World V after closing steps from U: one that complains has changed nothing, one that comes
\* to its end has released all.
Shut(V, U, o, R, c, complains) ==
  \/ complains /\ Untouched(V, U)
  \/ ~complains /\ Away(V, U, o, R) /\ (c => V.mark = FALSE) /\ V.mark \in BOOLEAN

LEMMA RunShuts ==
  ASSUME NEW U, NEW o \in Object, IsWorld(U, o), NEW s, NEW R, NEW c, NEW e, Closing(s, R, c, e),
         NEW stop \in Stops(s)
  PROVE  /\ Shut(Run(U, s, stop), U, o, R, c, stop <= Len(s))
         /\ stop <= Len(s) => e
  <1>0. PICK V : V = Run(U, s, stop)
    OBVIOUS
  <1>1. IsSteps(s)
    BY DEF Closing
  <1>2. PICK n \in Nat : n = Len(s)
    BY <1>1, StepsJoin
  <1>3. stop \in 1 .. (n + 1) /\ (stop <= n => s[stop].raises)
    BY <1>2 DEF Stops
  <1>4. PICK m \in Nat : m = stop - 1 /\ m <= n
    BY <1>3
  <1>5. PICK D : D = Worlds(U, s, m)[m]
    OBVIOUS
  <1>6. Sinks(D, U, o, s, m)
    <2>1. m <= Len(s) /\ Len(s) \in Nat
      BY <1>2, <1>4
    <2> QED BY <1>5, <2>1, RunSinks
  <1>7. CASE stop <= n
    <2>1. stop \in 1 .. n /\ s[stop].raises
      BY <1>3, <1>7
    <2>2. /\ e /\ s[stop].undo = {}
          /\ \A j \in 1 .. m : s[j].frees = {} /\ s[j].mark = "keep"
      BY <1>2, <1>4, <2>1 DEF Closing
    <2>3. FreedBy(s, m) = {}
      BY <2>2 DEF FreedBy
    <2>4. D.mark = U.mark /\ Away(D, U, o, {})
      BY <1>6, <2>2, <2>3 DEF Sinks
    <2>5. D.owner = U.owner /\ D.field = U.field /\ IsWorld(D, o)
      BY <2>4, NothingAway DEF Away
    <2>6. V = Release(D, {})
      <3>1. ~ (stop > n)
        BY <1>3, <1>7
      <3> QED BY <1>0, <1>2, <1>4, <1>5, <2>2, <3>1 DEF Run
    <2>7. IsWorld(V, o) /\ Without(V, D, {})
      BY <2>5, <2>6, ReleaseIs
    <2>8. V.mark = D.mark /\ Away(V, D, o, {})
      BY <2>7 DEF Away, Without
    <2>9. V.owner = D.owner /\ V.field = D.field
      BY <2>5, <2>8, NothingAway
    <2>10. Untouched(V, U) /\ stop <= Len(s) /\ e
      BY <1>2, <1>7, <2>2, <2>4, <2>5, <2>8, <2>9 DEF Untouched
    <2>11. Shut(V, U, o, R, c, stop <= Len(s))
      BY <2>10 DEF Shut
    <2> QED BY <1>0, <2>10, <2>11, Zenon
  <1>8. CASE ~ (stop <= n)
    <2>1. stop > n /\ m = n
      BY <1>3, <1>4, <1>8
    <2>2. V = D
      BY <1>0, <1>2, <1>4, <1>5, <2>1 DEF Run
    <2>3. R = FreedBy(s, m) /\ (c => \E j \in 1 .. m : s[j].mark = "clear")
      BY <1>2, <2>1 DEF Closing
    <2>4. Away(V, U, o, R) /\ (c => V.mark = FALSE)
      BY <1>6, <2>2, <2>3 DEF Sinks
    <2>5. V.mark \in BOOLEAN
      BY <2>4 DEF Away, IsWorld
    <2>6. ~ (stop <= Len(s))
      BY <1>2, <1>8
    <2>7. Shut(V, U, o, R, c, stop <= Len(s))
      BY <2>4, <2>5, <2>6 DEF Shut
    <2> QED BY <1>0, <2>6, <2>7, Zenon
  <1> QED BY <1>7, <1>8

LEMMA WorldIs ==
  ASSUME HandleInv, NEW o \in Object
  PROVE  /\ IsWorld(World(o), o) /\ World(o).owner = owner
         /\ World(o).field = object[o].field /\ World(o).mark = object[o].mark
  <1>1. PICK f, m : f = object[o].field /\ m = object[o].mark
    OBVIOUS
  <1>2. PICK W : W = World(o)
    OBVIOUS
  <1>3. W = [self |-> o, owner |-> owner, field |-> f, mark |-> m]
    BY <1>1, <1>2 DEF World
  <1>4. W.owner = owner /\ W.field = f /\ W.mark = m
    BY <1>3
  <1>5. W = [self |-> o, owner |-> W.owner, field |-> W.field, mark |-> W.mark]
    BY <1>3, <1>4
  <1>6. IsField(f) /\ m \in BOOLEAN /\ owner \in [Handle -> Holding]
    BY <1>1 DEF HandleInv, Fields, Sorted
  <1>7. IsWorld(W, o)
    BY <1>4, <1>5, <1>6 DEF IsWorld
  <1> QED BY <1>1, <1>2, <1>4, <1>7

LEMMA ClosingResources ==
  ASSUME NEW s, NEW R, NEW c, NEW e, Closing(s, R, c, e)
  PROVE  R \subseteq Resource
  <1>1. \A i \in 1 .. Len(s) : s[i].frees \subseteq Resource
    BY DEF Closing, Shuts
  <1> QED BY <1>1 DEF Closing, FreedBy

\* What closing object o comes to: a complaint, nothing at all for an object that does not
\* count as open, or what the close releases.
ClosedTo(V, o, R, c, complains) ==
  \/ complains /\ Untouched(V, World(o))
  \/ ~complains /\ kind \in {"gpib", "vxi11"} /\ ~object[o].mark /\ Untouched(V, World(o))
  \/ /\ ~complains /\ (kind \in {"gpib", "vxi11"} => object[o].mark)
     /\ Away(V, World(o), o, R) /\ (c => V.mark = FALSE) /\ V.mark \in BOOLEAN

LEMMA EmptyCloses ==
  ASSUME NEW U, NEW o \in Object, IsWorld(U, o), NEW stop \in Stops(<< >>)
  PROVE  Untouched(Run(U, << >>, stop), U) /\ ~ (stop <= Len(<< >>))
  <1>1. Len(<< >>) = 0 /\ stop = 1
    BY DEF Stops
  <1>2. Worlds(U, << >>, 0)[0] = U
    BY WorldsAre
  <1>3. Run(U, << >>, 1) = Worlds(U, << >>, 0)[0]
    <2>1. 1 - 1 = 0 /\ 1 > 0
      OBVIOUS
    <2> QED BY <1>1, <2>1 DEF Run
  <1> QED BY <1>1, <1>2, <1>3 DEF Untouched

LEMMA CloseIs ==
  ASSUME HandleInv, NEW o \in Object, NEW S, NEW R, NEW c, NEW e, Closing(S, R, c, e),
         NEW stop \in CloseStops(o, CloseSteps(o, S))
  PROVE  /\ ClosedTo(Run(World(o), CloseSteps(o, S), stop), o, R, c,
                     stop <= Len(CloseSteps(o, S)))
         /\ stop <= Len(CloseSteps(o, S)) => e
  <1>1. IsWorld(World(o), o) /\ World(o).mark = object[o].mark
    BY WorldIs
  <1>2. PICK s : s = CloseSteps(o, S)
    OBVIOUS
  <1>3. stop \in Stops(s)
    BY <1>2 DEF CloseStops, Stops
  <1>4. PICK U : U = World(o)
    OBVIOUS
  <1>5. PICK V : V = Run(U, s, stop)
    OBVIOUS
  <1>6. CASE kind \in {"gpib", "vxi11"} /\ ~object[o].mark
    <2>1. s = << >>
      BY <1>2, <1>6 DEF CloseSteps
    <2>2. Untouched(V, U) /\ ~ (stop <= Len(s))
      BY <1>1, <1>3, <1>4, <1>5, <2>1, EmptyCloses
    <2>3. ClosedTo(V, o, R, c, stop <= Len(s))
      BY <1>4, <1>6, <2>2 DEF ClosedTo
    <2> QED BY <1>2, <1>4, <1>5, <2>2, <2>3, Zenon
  <1>7. CASE ~ (kind \in {"gpib", "vxi11"} /\ ~object[o].mark)
    <2>1. s = S
      BY <1>2, <1>7 DEF CloseSteps
    <2>2. Closing(s, R, c, e)
      BY <2>1, Zenon
    <2>3. IsWorld(U, o)
      BY <1>1, <1>4
    <2>4. Shut(Run(U, s, stop), U, o, R, c, stop <= Len(s)) /\ (stop <= Len(s) => e)
      BY <1>3, <2>2, <2>3, RunShuts
    <2>5. Shut(V, U, o, R, c, stop <= Len(s))
      BY <1>5, <2>4, Zenon
    <2>6. ClosedTo(V, o, R, c, stop <= Len(s))
      BY <1>4, <1>7, <2>5 DEF ClosedTo, Shut
    <2> QED BY <1>2, <1>4, <1>5, <2>4, <2>6, Zenon
  <1> QED BY <1>6, <1>7

\* What an object that lives lets go of is its own.
LEMMA OwnLetGo ==
  ASSUME HandleInv, NEW o \in Object, Live(o), kind = "vxi11" => object[o].mark,
         NEW R \in SUBSET Resource, NEW h \in Handle, IsOf(object[o].field, R, h)
  PROVE  Given(owner, h) /\ \E r \in R : owner[h] = Mine(o, r) /\ object[o].field[r] = h
  <1>1. PICK r \in R : Closable(object[o].field[r]) /\ object[o].field[r] = h
    BY DEF IsOf
  <1>2. r \in Resource /\ object[o].field[r] # None
    BY <1>1, BoundAssumption DEF Handle, None
  <1>3. owner[h] = Mine(o, r)
    BY <1>1, <1>2 DEF HandleInv, Owns
  <1> QED BY <1>1, <1>3, MineIs DEF Given

\* Closing object o touches no other object, nor a handle of another.
Shuns(o) ==
  /\ Born' = Born /\ lost' = lost /\ kind' = kind /\ ~aborted
  /\ \A p \in Object \ {o} : object'[p] = object[p]
  /\ \A h \in Handle : \/ owner'[h] = owner[h]
                       \/ owner'[h] = Nobody /\ Given(owner, h) /\ owner[h].by = o

LEMMA OthersStay ==
  ASSUME HandleInv, NEW o \in Object, Shuns(o)
  PROVE  /\ \A h \in Handle : owner[h].by # o \/ ~ Given(owner', h) =>
                                Remembered(h)' /\ ClientOpen(h)' /\ Explained(h)'
         /\ \A p \in Object \ {o} : Fields(p)' /\ Owns(p)'
  <1>1. ASSUME NEW p \in Object \ {o}
        PROVE  object'[p] = object[p] /\ (Live(p)' <=> Live(p)) /\ (p \in Born' <=> p \in Born)
    BY DEF Shuns, Live, LostObjects
  <1>2. ASSUME NEW h \in Handle, Given(owner', h), owner[h].by # o
        PROVE  Remembered(h)' /\ ClientOpen(h)' /\ Explained(h)'
    <2>1. owner'[h] = owner[h] /\ Given(owner, h)
      BY <1>2 DEF Shuns, Given
    <2>2. PICK p \in Object \ {o} : p = owner[h].by
      BY <1>2, <2>1 DEF HandleInv, Sorted
    <2>3. owner'[h].by = p /\ owner[h].by = p
      BY <2>1, <2>2
    <2>4. Remembered(h)'
      BY <1>1, <2>1, <2>3 DEF HandleInv, Remembered
    <2>5. ClientOpen(h)'
      BY <1>1, <2>1, <2>3 DEF HandleInv, ClientOpen
    <2>6. Explained(h)'
      BY <1>1, <2>1, <2>3 DEF HandleInv, Explained, Shuns
    <2> QED BY <2>4, <2>5, <2>6
  <1>3. ASSUME NEW h \in Handle, ~ Given(owner', h)
        PROVE  Remembered(h)' /\ ClientOpen(h)' /\ Explained(h)'
    BY <1>3 DEF Remembered, ClientOpen, Explained
  <1>4. ASSUME NEW p \in Object \ {o}
        PROVE  Fields(p)' /\ Owns(p)'
    <2>1. Fields(p) /\ Owns(p)
      BY DEF HandleInv
    <2>2. Fields(p)'
      BY <1>1, <2>1 DEF Fields
    <2>3. ASSUME NEW r \in Resource, Live(p)', object'[p].field[r] # None,
                 kind' = "vxi11" => object'[p].mark
          PROVE  owner'[object'[p].field[r]] = Mine(p, r)
      <3>1. PICK h : h = object[p].field[r]
        OBVIOUS
      <3>2. h \in Handle /\ object'[p].field[r] = h
        BY <1>1, <2>1, <2>3, <3>1 DEF Fields, IsField
      <3>3. owner[h] = Mine(p, r)
        BY <1>1, <2>1, <2>3, <3>1 DEF Owns, Shuns
      <3>4. owner[h].by = p
        BY <3>3, MineIs
      <3>5. owner'[h] = owner[h]
        BY <3>2, <3>4 DEF Shuns
      <3> QED BY <3>2, <3>3, <3>5
    <2>4. Owns(p)'
      BY <2>3 DEF Owns
    <2> QED BY <2>2, <2>4
  <1> QED BY <1>2, <1>3, <1>4

\* A variable refers to an object that lives.
LEMMA HeldLives ==
  ASSUME IInv, NEW v \in Var, var[v] # NoObject
  PROVE  var[v] \in Object /\ Live(var[v]) /\ count[var[v]] > 0
  <1>1. PICK o \in Object : o = var[v]
    BY DEF IInv, VarInv
  <1>2. o \in Born /\ o \notin LostObjects
    BY <1>1 DEF IInv, VarInv
  <1>3. count[o] > 0
    <2>1. v \in Holders(o) /\ IsFiniteSet(Holders(o))
      BY <1>1, HoldersFinite DEF Holders
    <2>2. Cardinality(Holders(o)) # 0
      BY <2>1, FS_EmptySet
    <2>3. count[o] = Cardinality(Holders(o)) /\ count[o] \in Nat
      BY DEF IInv, CountInv
    <2> QED BY <2>2, <2>3
  <1>4. ~object[o].destroyed
    BY <1>2, <1>3 DEF IInv, DestroyedInv, Born
  <1>5. Live(o)
    BY <1>2, <1>4 DEF Live, Born, LostObjects
  <1> QED BY <1>1, <1>3, <1>5

\* No object changes.
SameObjects == \A o \in Object : object'[o] = object[o]

LEMMA HandlesUnchanged ==
  ASSUME HandleInv, SameObjects, UNCHANGED <<kind, owner, lost, aborted>>
  PROVE  HandleInv'
  <1>1. /\ Born' = Born /\ LostObjects' = LostObjects
        /\ \A o \in Object : (Live(o)' <=> Live(o)) /\ object'[o] = object[o]
    BY DEF Born, LostObjects, Live, SameObjects
  <1>2. ASSUME NEW h \in Handle
        PROVE  Remembered(h)' /\ ClientOpen(h)' /\ Explained(h)'
    <2>1. CASE Given(owner, h)
      <3>1. PICK o \in Object : o = owner[h].by
        BY <2>1 DEF HandleInv, Sorted
      <3> QED BY <1>1, <3>1 DEF HandleInv, Remembered, ClientOpen, Explained
    <2>2. CASE ~ Given(owner, h)
      BY <2>2 DEF Remembered, ClientOpen, Explained
    <2> QED BY <2>1, <2>2
  <1>3. \A o \in Object : Fields(o)' /\ Owns(o)'
    BY <1>1 DEF HandleInv, Fields, Owns
  <1>4. kind' \in KnownKinds /\ Sorted(owner)'
    BY DEF HandleInv, Sorted
  <1> QED BY <1>2, <1>3, <1>4 DEF HandleInv

\* Handles stay sorted when some are given back.
LEMMA FewerSorted ==
  ASSUME Sorted(owner), NEW own \in [Handle -> Holding],
         \A h \in Handle : own[h] = owner[h] \/ own[h] = Nobody
  PROVE  Sorted(own)
  <1>1. Nobody # Octave
    BY DEF Nobody, Octave
  <1> QED BY <1>1 DEF Sorted, Given

\* Handles own are those held now without the resources R of object o.
LetsGo(own, o, R) ==
  /\ Sorted(own)
  /\ \A h \in Handle :
       \/ own[h] = owner[h] /\ ~ IsOf(object[o].field, R, h)
       \/ /\ own[h] = Nobody /\ Given(owner, h) /\ owner[h].by = o
          /\ \E r \in R : owner[h] = Mine(o, r) /\ object[o].field[r] = h

\* A close that releases its resources.
LEMMA AwayShuns ==
  ASSUME HandleInv, NEW o \in Object, Live(o), kind \in {"gpib", "vxi11"} => object[o].mark,
         NEW R \in SUBSET Resource, NEW V, Away(V, World(o), o, R)
  PROVE  LetsGo(V.owner, o, R)
  <1>1. World(o).owner = owner /\ World(o).field = object[o].field
    BY WorldIs
  <1>2. ASSUME NEW h \in Handle
        PROVE  \/ V.owner[h] = owner[h] /\ ~ IsOf(object[o].field, R, h)
               \/ V.owner[h] = Nobody /\ Given(owner, h) /\ owner[h].by = o
                                   /\ \E r \in R : /\ owner[h] = Mine(o, r)
                                                   /\ object[o].field[r] = h
    <2>1. V.owner[h] = IF IsOf(object[o].field, R, h) THEN Nobody ELSE owner[h]
      BY <1>1 DEF Away
    <2>2. CASE IsOf(object[o].field, R, h)
      <3>1. Given(owner, h) /\ \E r \in R : owner[h] = Mine(o, r) /\ object[o].field[r] = h
        BY <2>2, OwnLetGo
      <3> QED BY <2>1, <2>2, <3>1, MineIs
    <2> QED BY <2>1, <2>2
  <1>3. V.owner \in [Handle -> Holding]
    BY DEF Away, IsWorld
  <1>4. Sorted(V.owner)
    BY <1>2, <1>3, FewerSorted DEF HandleInv
  <1> QED BY <1>2, <1>4 DEF LetsGo

LEMMA CloseCallHandles ==
  ASSUME IInv, HandleInv, ~aborted, NEW v \in Var, CloseCall(v)
  PROVE  HandleInv'
  <1>1. PICK o \in Object : o = var[v] /\ Live(o)
    BY HeldLives DEF CloseCall
  <1>2. Closes(kind, Close(kind))
    BY CloseCloses DEF HandleInv
  <1>3. PICK R, c, e : /\ Closing(Close(kind), R, c, e)
                       /\ kind = "vxi11" => c /\ "client" \in R
    BY <1>2 DEF Closes
  <1>4. PICK stop \in CloseStops(o, CloseSteps(o, Close(kind))) :
          /\ owner' = Run(World(o), CloseSteps(o, Close(kind)), stop).owner
          /\ object' = [object EXCEPT ![o] =
               [@ EXCEPT !.field = Run(World(o), CloseSteps(o, Close(kind)), stop).field,
                         !.mark = Run(World(o), CloseSteps(o, Close(kind)), stop).mark]]
    BY <1>1 DEF CloseCall
  <1>5. PICK V : V = Run(World(o), CloseSteps(o, Close(kind)), stop)
    OBVIOUS
  <1>6. PICK f, m : f = V.field /\ m = V.mark
    OBVIOUS
  <1>7. owner' = V.owner /\ object' = [object EXCEPT ![o] = [@ EXCEPT !.field = f, !.mark = m]]
    BY <1>4, <1>5, <1>6
  <1>8. UNCHANGED <<kind, lost, aborted>>
    BY DEF CloseCall
  <1>9. ClosedTo(V, o, R, c, stop <= Len(CloseSteps(o, Close(kind))))
    BY <1>3, <1>5, CloseIs
  <1>10. /\ object'[o] = [field |-> f, mark |-> m,
                          born |-> object[o].born, destroyed |-> object[o].destroyed]
         /\ \A p \in Object \ {o} : object'[p] = object[p]
         /\ DOMAIN object' = Object
    <2>1. ObjectRecord(object[o]) /\ DOMAIN object = Object
      BY DEF IInv, ObjectInv
    <2> QED BY <1>7, <2>1 DEF ObjectRecord
  <1>11. /\ object'[o].field = f /\ object'[o].mark = m
         /\ object'[o].born = object[o].born /\ object'[o].destroyed = object[o].destroyed
    BY <1>10
  <1>12. /\ World(o).owner = owner
         /\ World(o).field = object[o].field /\ World(o).mark = object[o].mark
    BY WorldIs
  <1>13. CASE Untouched(V, World(o))
    <2>1. owner' = owner /\ f = object[o].field /\ m = object[o].mark
      BY <1>6, <1>7, <1>12, <1>13 DEF Untouched
    <2>2. object'[o] = object[o]
      <3>1. ObjectRecord(object[o])
        BY DEF IInv, ObjectInv
      <3> QED BY <1>10, <2>1, <3>1 DEF ObjectRecord
    <2>3. SameObjects
      BY <1>10, <2>2 DEF SameObjects
    <2> QED BY <1>8, <2>1, <2>3, HandlesUnchanged
  <1>14. CASE ~ Untouched(V, World(o))
    <2>1. /\ kind \in {"gpib", "vxi11"} => object[o].mark
          /\ Away(V, World(o), o, R) /\ (c => m = FALSE) /\ m \in BOOLEAN
      BY <1>6, <1>9, <1>14 DEF ClosedTo
    <2>2. R \in SUBSET Resource
      BY <1>3, ClosingResources
    <2>3. LetsGo(owner', o, R)
      <3>1. LetsGo(V.owner, o, R)
        BY <1>1, <2>1, <2>2, AwayShuns
      <3> QED BY <1>7, <3>1, Zenon
    <2>4. Shuns(o)
      <3>1. Born' = Born
        BY <1>10, <1>11 DEF Born
      <3> QED BY <1>8, <1>10, <2>3, <3>1 DEF Shuns, LetsGo
    <2>5. /\ \A h \in Handle : owner[h].by # o \/ ~ Given(owner', h) =>
                                 Remembered(h)' /\ ClientOpen(h)' /\ Explained(h)'
          /\ \A p \in Object \ {o} : Fields(p)' /\ Owns(p)'
      BY <2>4, OthersStay
    <2>6. Live(o)' /\ o \in Born
      BY <1>1, <1>8, <1>11 DEF Live, Born
    <2>7. \A r \in Resource :
            f[r] = IF r \in R /\ Closable(object[o].field[r]) /\ kind # "vxi11"
                   THEN None ELSE object[o].field[r]
      BY <1>6, <1>12, <2>1 DEF Away
    <2>8. ASSUME NEW h \in Handle, Given(owner', h), owner[h].by = o
          PROVE  Remembered(h)' /\ ClientOpen(h)' /\ Explained(h)'
      <3>1. owner'[h] = owner[h] /\ Given(owner, h) /\ ~ IsOf(object[o].field, R, h)
        BY <2>3, <2>8 DEF LetsGo, Given
      <3>2. PICK r \in Uses(kind) : r = owner[h].res
        BY <3>1 DEF HandleInv, Sorted
      <3>3. r \in Resource /\ object[o].field[r] = h /\ (r # "fd" => h # 0)
        BY <1>1, <2>8, <3>1, <3>2, UsesFew DEF HandleInv, Remembered
      <3>4. f[r] = h
        BY <2>7, <3>1, <3>3 DEF IsOf
      <3>5. Remembered(h)' /\ Explained(h)'
        BY <1>11, <2>4, <2>6, <2>8, <3>1, <3>2, <3>3, <3>4 DEF Remembered, Explained, Shuns
      <3>6. r # "client"
        <4>1. ASSUME r = "client" PROVE FALSE
          <5>1. kind = "vxi11" /\ h # 0
            BY <3>2, <3>3, <4>1 DEF Uses
          <5>2. r \in R /\ Closable(h)
            BY <1>3, <4>1, <5>1, BoundAssumption DEF Closable, Handle
          <5> QED BY <3>1, <3>3, <5>2 DEF IsOf
        <4> QED BY <4>1
      <3>7. ClientOpen(h)'
        BY <3>1, <3>2, <3>6 DEF ClientOpen
      <3> QED BY <3>5, <3>7
    <2>9. Fields(o)'
      <3>1. IsField(f)
        BY <1>6, <2>1 DEF Away, IsWorld
      <3>2. object'[o].born = TRUE
        BY <1>1, <1>11 DEF IInv, ObjectInv, ObjectRecord, Live
      <3> QED BY <1>11, <2>1, <3>1, <3>2 DEF Fields
    <2>10. Owns(o)'
      <3>1. ASSUME NEW r \in Resource, f[r] # None, kind # "vxi11"
            PROVE  owner'[f[r]] = Mine(o, r)
        <4>1. PICK g : g = object[o].field[r]
          OBVIOUS
        <4>2. f[r] = g /\ ~ (r \in R /\ Closable(g)) /\ g \in Handle
          BY <2>7, <3>1, <4>1 DEF HandleInv, Fields, IsField
        <4>3. owner[g] = Mine(o, r)
          BY <1>1, <3>1, <4>1, <4>2 DEF HandleInv, Owns
        <4>4. ASSUME NEW q \in R, owner[g] = Mine(o, q) PROVE q = r
          <5>1. Mine(o, q).res = q /\ Mine(o, r).res = r
            BY MineIs
          <5> QED BY <4>3, <4>4, <5>1
        <4>5. owner'[g] = owner[g]
          <5>1. CASE IsOf(object[o].field, R, g)
            <6>1. PICK q \in R : Closable(g) /\ object[o].field[q] = g
              BY <5>1 DEF IsOf
            <6>2. q \in Resource /\ object[o].field[q] # None
              BY <2>2, <4>2, <6>1, BoundAssumption DEF Handle, None
            <6>3. owner[g] = Mine(o, q)
              BY <1>1, <3>1, <6>1, <6>2 DEF HandleInv, Owns
            <6> QED BY <4>2, <4>4, <6>1, <6>3
          <5>2. CASE ~ IsOf(object[o].field, R, g)
            <6>1. V.owner[g] = owner[g]
              BY <1>12, <2>1, <4>2, <5>2 DEF Away
            <6> QED BY <1>7, <6>1
          <5> QED BY <5>1, <5>2
        <4> QED BY <4>2, <4>3, <4>5
      <3>2. kind = "vxi11" => ~object'[o].mark
        BY <1>3, <1>11, <2>1
      <3> QED BY <1>8, <1>11, <3>1, <3>2 DEF Owns
    <2>11. kind' \in KnownKinds /\ Sorted(owner)'
      BY <1>8, <2>3 DEF HandleInv, LetsGo, Sorted
    <2> QED BY <2>5, <2>8, <2>9, <2>10, <2>11 DEF HandleInv
  <1> QED BY <1>13, <1>14

\* A destroyed object keeps the memory of a VXI-11 link, what its destructor complained
\* about, and a descriptor 0; an object that other variables hold is left alone.
LEMMA SettleHandles ==
  ASSUME IInv, HandleInv, ~aborted, UNCHANGED <<kind, lost>>,
         NEW n, NEW o \in Object, Live(o), Settle(n, o)
  PROVE  HandleInv'
  <1>1. o # NoObject /\ Destroys(kind, Destructor(kind))
    BY DestructorDestroys, BoundAssumption DEF HandleInv, Object, NoObject
  <1>2. CASE n[o] > 0
    <2>1. UNCHANGED <<owner, object, aborted>>
      BY <1>1, <1>2 DEF Settle
    <2> QED BY <2>1, HandlesUnchanged DEF SameObjects
  <1>3. CASE ~ (n[o] > 0)
    <2>1. PICK stop \in CloseStops(o, CloseSteps(o, Destructor(kind))) :
            /\ owner' = Run(World(o), CloseSteps(o, Destructor(kind)), stop).owner
            /\ object' = [object EXCEPT ![o] =
                 [@ EXCEPT !.field = Run(World(o), CloseSteps(o, Destructor(kind)), stop).field,
                           !.mark = Run(World(o), CloseSteps(o, Destructor(kind)), stop).mark,
                           !.destroyed = TRUE]]
            /\ aborted' = (stop <= Len(CloseSteps(o, Destructor(kind))))
      BY <1>1, <1>3 DEF Settle
    <2>2. PICK R, c, e : /\ Closing(Destructor(kind), R, c, e)
                         /\ \A r \in Uses(kind) : r \in R \/ (r = "link" /\ kind = "vxi11")
                         /\ e => kind \in {"parallel", "vxi11", "gpib"}
      BY <1>1 DEF Destroys
    <2>3. PICK V : V = Run(World(o), CloseSteps(o, Destructor(kind)), stop)
      OBVIOUS
    <2>4. PICK f, m : f = V.field /\ m = V.mark
      OBVIOUS
    <2>5. PICK a \in BOOLEAN : a <=> stop <= Len(CloseSteps(o, Destructor(kind)))
      OBVIOUS
    <2>6. /\ owner' = V.owner /\ (aborted' <=> a)
          /\ object' = [object EXCEPT ![o] = [@ EXCEPT !.field = f, !.mark = m,
                                                       !.destroyed = TRUE]]
      BY <2>1, <2>3, <2>4, <2>5
    <2>7. ClosedTo(V, o, R, c, a) /\ (a => e)
      <3>1. /\ ClosedTo(V, o, R, c, stop <= Len(CloseSteps(o, Destructor(kind))))
            /\ stop <= Len(CloseSteps(o, Destructor(kind))) => e
        BY <2>2, <2>3, CloseIs
      <3> QED BY <2>5, <3>1 DEF ClosedTo
    <2>8. /\ object'[o].field = f /\ object'[o].mark = m
          /\ object'[o].born = object[o].born /\ object'[o].destroyed = TRUE
          /\ \A p \in Object \ {o} : object'[p] = object[p]
      <3>1. ObjectRecord(object[o]) /\ DOMAIN object = Object
        BY DEF IInv, ObjectInv
      <3>2. object'[o] = [field |-> f, mark |-> m,
                          born |-> object[o].born, destroyed |-> TRUE]
        BY <2>6, <3>1 DEF ObjectRecord
      <3>3. \A p \in Object \ {o} : object'[p] = object[p]
        BY <2>6, <3>1
      <3> QED BY <3>2, <3>3
    <2>9. /\ World(o).owner = owner
          /\ World(o).field = object[o].field /\ World(o).mark = object[o].mark
      BY WorldIs
    <2>10. Born' = Born /\ ~ Live(o)' /\ o \in Born
      BY <2>8 DEF Born, Live
    <2>11. /\ Fields(o) /\ object[o].born
      BY DEF HandleInv, Live
    <2>12. IsField(f) /\ m \in BOOLEAN /\ Sorted(owner')
           /\ \A h \in Handle : \/ owner'[h] = owner[h]
                                \/ owner'[h] = Nobody /\ Given(owner, h) /\ owner[h].by = o
      <3>1. CASE Untouched(V, World(o))
        BY <2>4, <2>6, <2>9, <2>11, <3>1 DEF Untouched, Fields, HandleInv
      <3>2. CASE ~ Untouched(V, World(o))
        <4>1. /\ kind \in {"gpib", "vxi11"} => object[o].mark
              /\ Away(V, World(o), o, R) /\ m \in BOOLEAN
          BY <2>4, <2>7, <3>2 DEF ClosedTo
        <4>2. R \in SUBSET Resource
          BY <2>2, ClosingResources
        <4>3. LetsGo(V.owner, o, R)
          BY <4>1, <4>2, AwayShuns
        <4>4. LetsGo(owner', o, R)
          BY <2>6, <4>3, Zenon
        <4>5. IsField(f)
          BY <2>4, <4>1 DEF Away, IsWorld
        <4> QED BY <4>1, <4>4, <4>5 DEF LetsGo
      <3> QED BY <3>1, <3>2
    <2>13. Shuns(o)
      BY <2>8, <2>10, <2>12 DEF Shuns
    <2>14. /\ \A h \in Handle : owner[h].by # o \/ ~ Given(owner', h) =>
                                  Remembered(h)' /\ ClientOpen(h)' /\ Explained(h)'
           /\ \A p \in Object \ {o} : Fields(p)' /\ Owns(p)'
      BY <2>13, OthersStay
    <2>15. ASSUME NEW h \in Handle, Given(owner', h), owner[h].by = o
           PROVE  Remembered(h)' /\ ClientOpen(h)' /\ Explained(h)'
      <3>1. owner'[h] = owner[h] /\ Given(owner, h)
        BY <2>12, <2>15 DEF Given
      <3>2. PICK r \in Uses(kind) : r = owner[h].res
        BY <3>1 DEF HandleInv, Sorted
      <3>3. r \in Resource /\ object[o].field[r] = h /\ (r # "fd" => h # 0)
        BY <2>15, <3>1, <3>2, UsesFew DEF HandleInv, Remembered
      <3>4. Remembered(h)' /\ ClientOpen(h)'
        BY <2>10, <2>15, <3>1, <3>2, <3>3 DEF Remembered, ClientOpen
      <3>5. CASE a
        <4>1. aborted' /\ kind \in {"parallel", "vxi11"}
          BY <2>2, <2>6, <2>7, <3>2, <3>5 DEF Uses
        <4>2. object'[owner'[h].by].destroyed /\ kind' \in {"parallel", "vxi11"}
          BY <2>8, <2>15, <3>1, <4>1
        <4> QED BY <3>4, <4>1, <4>2 DEF Explained
      <3>6. CASE ~ a /\ kind \in {"gpib", "vxi11"} /\ ~object[o].mark
        <4>1. r # "client"
          BY <2>15, <3>1, <3>2, <3>6 DEF HandleInv, ClientOpen
        <4>2. kind = "vxi11" /\ r = "link"
          BY <3>2, <3>6, <4>1 DEF Uses
        <4>3. kind' = "vxi11" /\ owner'[h].res = "link"
          BY <3>1, <3>2, <4>2
        <4> QED BY <3>4, <4>3 DEF Explained
      <3>7. CASE ~ a /\ Away(V, World(o), o, R)
        <4>1. CASE r \in R
          <5>1. ~ IsOf(object[o].field, R, h)
            <6>1. V.owner[h] # Nobody
              BY <2>6, <2>15 DEF Given
            <6> QED BY <2>9, <3>7, <6>1 DEF Away
          <5>2. ~ Closable(h)
            BY <3>3, <4>1, <5>1 DEF IsOf
          <5>3. h = 0 /\ kind \in ZeroStays
            BY <5>2, BoundAssumption DEF Closable, Handle
          <5>4. kind' \in ZeroStays
            BY <5>3
          <5> QED BY <3>4, <5>3, <5>4 DEF Explained
        <4>2. CASE r \notin R
          <5>1. kind' = "vxi11" /\ owner'[h].res = "link"
            BY <2>2, <3>1, <3>2, <4>2
          <5> QED BY <3>4, <5>1 DEF Explained
        <4> QED BY <4>1, <4>2
      <3> QED BY <2>7, <3>5, <3>6, <3>7 DEF ClosedTo
    <2>16. Fields(o)' /\ Owns(o)'
      <3>1. Fields(o)'
        BY <2>8, <2>11, <2>12 DEF Fields
      <3>2. Owns(o)'
        BY <2>10 DEF Owns
      <3> QED BY <3>1, <3>2
    <2>17. kind' \in KnownKinds /\ Sorted(owner)'
      BY <2>12 DEF HandleInv, Sorted
    <2> QED BY <2>14, <2>15, <2>16, <2>17 DEF HandleInv
  <1> QED BY <1>2, <1>3

\* What a variable referred to before, settled.
LEMMA LeftHandles ==
  ASSUME IInv, HandleInv, ~aborted, UNCHANGED <<kind, lost>>,
         NEW v \in Var, NEW n, Settle(n, var[v])
  PROVE  HandleInv'
  <1>1. CASE var[v] = NoObject
    <2>1. UNCHANGED <<owner, object, aborted>>
      BY <1>1 DEF Settle
    <2> QED BY <2>1, HandlesUnchanged DEF SameObjects
  <1>2. CASE var[v] # NoObject
    BY <1>2, HeldLives, SettleHandles
  <1> QED BY <1>1, <1>2

-----------------------------------------------------------------------------
\* The theorems

LEMMA InitIInv == Init => IInv
  <1> SUFFICES ASSUME Init PROVE IInv
    OBVIOUS
  <1>1. ObjectInv
    BY DEF Init, ObjectInv, ObjectRecord, Fresh
  <1>2. Born = {} /\ LostObjects = {}
    BY DEF Init, Born, LostObjects, Fresh
  <1>3. BornInv
    <2>1. 0 \in 0 .. MaxObjects /\ 1 .. 0 = {}
      BY BoundAssumption
    <2> QED BY <1>2, <2>1 DEF BornInv
  <1>4. VarInv /\ LostInv
    BY <1>2 DEF Init, VarInv, LostInv
  <1>5. CountInv
    <2>1. ASSUME NEW o \in Object
          PROVE  Holders(o) = {}
      BY BoundAssumption DEF Init, Holders, Object, NoObject
    <2> QED BY <2>1, FS_EmptySet DEF Init, CountInv
  <1>6. DestroyedInv
    BY <1>2 DEF DestroyedInv, Born
  <1> QED BY <1>1, <1>3, <1>4, <1>5, <1>6 DEF IInv

LEMMA NextKept ==
  ASSUME IInv, [Next]_vars
  PROVE  IInv'
  <1>1. CASE ConstructRaises
    BY <1>1, ConstructRaisesKept
  <1>2. ASSUME NEW v \in Var, Construct(v) \/ Clear(v) \/ Property(v) \/ CloseCall(v)
        PROVE  IInv'
    BY <1>2, ConstructKept, ClearKept, PropertyKept, CloseCallKept
  <1>3. ASSUME NEW v \in Var, NEW w \in Var, Copy(v, w)
        PROVE  IInv'
    BY <1>3, CopyKept
  <1>4. CASE UNCHANGED vars
    BY <1>4, Unchanged DEF vars
  <1> QED BY <1>1, <1>2, <1>3, <1>4 DEF Next, Running, Done

LEMMA HandlesStart == Init => HandleInv
  <1> SUFFICES ASSUME Init PROVE HandleInv
    OBVIOUS
  <1>1. kind \in KnownKinds
    BY KindAssumption DEF Init
  <1>2. /\ owner \in [Handle -> Holding]
        /\ \A h \in Handle : owner[h] \in {Octave, Nobody} /\ (h # 0 => owner[h] = Nobody)
    BY DEF Init, Holding
  <1>3. Nobody # Octave
    BY DEF Nobody, Octave
  <1>4. Sorted(owner)
    BY <1>2, <1>3 DEF Sorted, Given
  <1>5. \A h \in Handle : Remembered(h) /\ ClientOpen(h) /\ Explained(h)
    BY <1>2 DEF Remembered, ClientOpen, Explained, Given
  <1>6. ASSUME NEW o \in Object
        PROVE  Fields(o) /\ Owns(o)
    <2>1. object[o] = Fresh
      BY DEF Init
    <2>2. /\ Fresh.born = FALSE /\ Fresh.mark = FALSE
          /\ Fresh.field = [r \in Resource |-> None]
      BY DEF Fresh
    <2>3. IsField(Fresh.field)
      BY <2>2 DEF IsField
    <2>4. Fields(o)
      BY <2>1, <2>2, <2>3 DEF Fields
    <2> QED BY <2>1, <2>2, <2>4 DEF Owns, Live
  <1> QED BY <1>1, <1>4, <1>5, <1>6 DEF HandleInv

LEMMA NextHandles ==
  ASSUME IInv, HandleInv, [Next]_vars
  PROVE  HandleInv'
  <1>1. CASE UNCHANGED vars
    BY <1>1, HandlesUnchanged DEF vars, SameObjects
  <1>2. CASE ~aborted /\ ConstructRaises
    BY <1>2, ConstructRaisesHandles
  <1>3. ASSUME NEW v \in Var, ~aborted, Construct(v)
        PROVE  HandleInv'
    BY <1>3, ConstructHandles
  <1>4. ASSUME NEW v \in Var, ~aborted, Clear(v) \/ Property(v)
        PROVE  HandleInv'
    <2>1. Settle(count', var[v]) /\ UNCHANGED <<kind, lost>>
      BY <1>4 DEF Clear, Property
    <2> QED BY <1>4, <2>1, LeftHandles
  <1>5. ASSUME NEW v \in Var, ~aborted, CloseCall(v)
        PROVE  HandleInv'
    BY <1>5, CloseCallHandles
  <1>6. ASSUME NEW v \in Var, NEW w \in Var, ~aborted, Copy(v, w)
        PROVE  HandleInv'
    <2>1. Settle(count', var[v]) /\ UNCHANGED <<kind, lost>>
      BY <1>6 DEF Copy
    <2> QED BY <1>6, <2>1, LeftHandles
  <1> QED BY <1>1, <1>2, <1>3, <1>4, <1>5, <1>6 DEF Next, Running, Done

\* The strengthened invariant holds: the reference count of every object is the number of
\* the variables that refer to it, and every handle is one an object that lives remembers,
\* or one that nothing can release, for a reason the code gives.
THEOREM InductiveInvariant == Spec => [](IInv /\ HandleInv)
  <1>1. IInv /\ HandleInv /\ [Next]_vars => IInv' /\ HandleInv'
    BY NextKept, NextHandles
  <1> QED BY <1>1, InitIInv, HandlesStart, PTL DEF Spec

\* The rest of the type invariant.
RestInv ==
  /\ kind \in Kinds /\ aborted \in BOOLEAN
  /\ lost \subseteq [obj : Object, part : {"open", "setter"}]

LEMMA NextRest ==
  ASSUME IInv, HandleInv, RestInv, [Next]_vars
  PROVE  RestInv'
  <1>1. CASE UNCHANGED vars
    BY <1>1 DEF vars, RestInv
  <1>2. CASE ConstructRaises
    <2>1. PICK n \in Object : n = NextObject
      BY <1>2 DEF ConstructRaises
    <2>2. PICK stop \in Stops(Constructor(kind)) \ {Len(Constructor(kind)) + 1} :
            lost' = lost \cup {[obj |-> n, part |-> Constructor(kind)[stop].part]}
      BY <1>2, <2>1 DEF ConstructRaises
    <2>3. Constructor(kind)[stop].part \in {"open", "setter"}
      <3>1. PICK V : V = Run(World(n), Constructor(kind), stop)
        OBVIOUS
      <3> QED BY <2>1, <3>1, ConstructedInPart DEF Leaves
    <2>4. PICK part \in {"open", "setter"} : lost' = lost \cup {[obj |-> n, part |-> part]}
      BY <2>2, <2>3
    <2>5. UNCHANGED <<kind, aborted>>
      BY <1>2 DEF ConstructRaises
    <2> QED BY <2>4, <2>5 DEF RestInv
  <1>3. ASSUME UNCHANGED <<kind, lost>>, aborted' \in BOOLEAN
        PROVE  RestInv'
    BY <1>3 DEF RestInv
  <1>4. ASSUME NEW c, NEW o, Settle(c, o)
        PROVE  aborted' \in BOOLEAN
    <2>1. CASE UNCHANGED <<owner, object, aborted>>
      BY <2>1 DEF RestInv
    <2>2. ASSUME NEW stop, NEW n, aborted' = (stop <= n)
          PROVE  aborted' \in BOOLEAN
      BY <2>2
    <2> QED BY <1>4, <2>1, <2>2 DEF Settle
  <1>5. ASSUME NEW v \in Var, Construct(v) \/ Clear(v) \/ Property(v) \/ CloseCall(v)
        PROVE  RestInv'
    <2>1. CASE Construct(v) \/ CloseCall(v)
      BY <2>1 DEF Construct, CloseCall, RestInv
    <2>2. CASE Clear(v) \/ Property(v)
      <3>1. Settle(count', var[v]) /\ UNCHANGED <<kind, lost>>
        BY <2>2 DEF Clear, Property
      <3> QED BY <1>3, <1>4, <3>1
    <2> QED BY <1>5, <2>1, <2>2
  <1>6. ASSUME NEW v \in Var, NEW w \in Var, Copy(v, w)
        PROVE  RestInv'
    <2>1. Settle(count', var[v]) /\ UNCHANGED <<kind, lost>>
      BY <1>6 DEF Copy
    <2> QED BY <1>3, <1>4, <2>1
  <1> QED BY <1>1, <1>2, <1>5, <1>6 DEF Next, Running, Done

LEMMA InvariantsAreTypes ==
  ASSUME IInv, HandleInv, RestInv
  PROVE  TypeOK
  <1>1. owner \in [Handle -> Holding]
    BY DEF HandleInv, Sorted
  <1>2. ASSUME NEW o \in Object
        PROVE  object[o] \in [field : [Resource -> Handle \cup {None}], mark : BOOLEAN,
                              born : BOOLEAN, destroyed : BOOLEAN]
    <2>1. PICK x : x = object[o]
      OBVIOUS
    <2>2. ObjectRecord(x)
      BY <2>1 DEF IInv, ObjectInv
    <2>3. x.field \in [Resource -> Handle \cup {None}] /\ x.mark \in BOOLEAN
      BY <2>1 DEF HandleInv, Fields, IsField
    <2> QED BY <2>1, <2>2, <2>3 DEF ObjectRecord
  <1>3. /\ var \in [Var -> Object \cup {NoObject}]
        /\ count \in [Object -> Nat]
    BY DEF IInv, VarInv, CountInv
  <1> QED BY <1>1, <1>2, <1>3 DEF TypeOK, RestInv

\* Every variable keeps its type: among others, a step that raises is one of an open or of a
\* setter, and an object has a number or None for each of the resources it may hold.
THEOREM TypeCorrect == Spec => []TypeOK
  <1>1. Init => RestInv
    BY DEF Init, RestInv
  <1> QED BY <1>1, NextRest, InductiveInvariant, InvariantsAreTypes, PTL DEF Spec

\* The count of an object is the number of the variables that refer to it: what a property
\* access takes with OV_COUNT++ it gives back.
THEOREM CountsAreReferences == Spec => []CountInv
  <1>1. IInv => CountInv
    BY DEF IInv
  <1> QED BY <1>1, InductiveInvariant, PTL

\* An object is destroyed exactly when no variable refers to it any more, for any number of
\* variables and objects, and whatever the closes inside the destructor do.
THEOREM DestroyedWhenNoneRefers == Spec => []DestroyedWhenUnreferenced
  <1>1. ASSUME IInv
        PROVE  DestroyedWhenUnreferenced
    <2>1. ASSUME NEW o \in Object, object[o].born, o \notin LostObjects
          PROVE  object[o].destroyed <=> \A v \in Var : var[v] # o
      <3>1. object[o].destroyed <=> Cardinality(Holders(o)) = 0
        BY <1>1, <2>1 DEF IInv, CountInv, DestroyedInv
      <3>2. Cardinality(Holders(o)) = 0 <=> Holders(o) = {}
        BY HoldersFinite, FS_EmptySet
      <3> QED BY <3>1, <3>2 DEF Holders
    <2> QED BY <2>1 DEF DestroyedWhenUnreferenced, LostObjects
  <1> QED BY <1>1, InductiveInvariant, PTL

\* A handle that an object can still use is its own, for any number of objects: neither a
\* second close, nor a clear after one, nor a use after it reaches a handle that the system
\* has since given to another object.
THEOREM HandlesAreOwned == Spec => []HandlesOwned
  <1>1. HandleInv => HandlesOwned
    BY HandleInvImplies
  <1> QED BY <1>1, InductiveInvariant, PTL

\* A handle that nothing can release is one of those a constructor's setter, an open that
\* raises before it cleans up, descriptor 0, a VXI-11 link or a destructor that raises has
\* left behind; every other open, close and clear gives back all it holds.
THEOREM LossesAreExplained == Spec => []LossesExplained
  <1>1. HandleInv => LossesExplained
    BY HandleInvImplies
  <1> QED BY <1>1, InductiveInvariant, PTL

=============================================================================
