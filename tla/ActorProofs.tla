---------------------------- MODULE ActorProofs -----------------------------
(***************************************************************************)
(* Proofs about Actor: who holds generation_lock and in what order the     *)
(* others wait, which close runs, and from these that the provider speaks  *)
(* for the current turn only, that a control takes effect once and that a  *)
(* close the row knows of has stopped everything.                          *)
(***************************************************************************)
EXTENDS Actor, TLAPS, FiniteSetTheorems, SequenceTheorems

(* A queue by who is in it and who is before whom. *)
In(q, x) == \E i \in DOMAIN q : q[i] = x
Before(q, x, y) == \E i, j \in DOMAIN q : i < j /\ q[i] = x /\ q[j] = y
Distinct(q) == \A i, j \in DOMAIN q : q[i] = q[j] => i = j

\* r is the queue q without the tasks of R, and with those of J behind.
Becomes(q, r, R, J) ==
  /\ r \in Seq(Task) /\ Distinct(r)
  /\ \A x \in Task : In(r, x) <=> (In(q, x) /\ x \notin R) \/ x \in J
  /\ \A x, y \in Task : Before(r, x, y) <=>
       \/ Before(q, x, y) /\ x \notin R /\ y \notin R
       \/ In(q, x) /\ x \notin R /\ y \in J

-----------------------------------------------------------------------------
(* Queues                                                                  *)

\* A queue that is left alone.
LEMMA BecomesSame ==
  ASSUME NEW q \in Seq(Task), Distinct(q)
  PROVE  Becomes(q, q, {}, {})
BY DEF Becomes

\* Whoever is in a queue is one of the tasks that make it up.
LEMMA InIsTask ==
  ASSUME NEW q \in Seq(Task), NEW x, In(q, x)
  PROVE  x \in Task
BY ElementOfSeq DEF In

\* A queue is empty when nobody is in it.
LEMMA EmptyQueue ==
  ASSUME NEW q \in Seq(Task)
  PROVE  q = <<>> <=> \A x \in Task : ~In(q, x)
<1>1. ASSUME q = <<>> PROVE \A x \in Task : ~In(q, x)
  BY <1>1 DEF In
<1>2. ASSUME q # <<>> PROVE \E x \in Task : In(q, x)
  <2>1. 1 \in DOMAIN q
    BY <1>2, EmptySeq, LenProperties
  <2> QED BY <2>1, ElementOfSeq, LenProperties DEF In
<1> QED BY <1>1, <1>2

\* The head of a queue is the one that nobody is before.
LEMMA HeadOfQueue ==
  ASSUME NEW q \in Seq(Task), Distinct(q), NEW t, In(q, t)
  PROVE  /\ t = Head(q) <=> \A x \in Task : ~Before(q, x, t)
         /\ q # <<>>
<1>1. q # <<>>
  BY DEF In
<1>2. PICK i \in DOMAIN q : q[i] = t
  BY DEF In
<1>3. DOMAIN q = 1..Len(q) /\ Len(q) \in Nat /\ 1 \in DOMAIN q
  BY <1>1, <1>2, LenProperties
<1>4. Head(q) = q[1] /\ q[1] \in Task
  BY <1>1, <1>3, HeadTailProperties, ElementOfSeq
<1>5. ASSUME t = Head(q), NEW x \in Task, Before(q, x, t) PROVE FALSE
  BY <1>3, <1>4, <1>5 DEF Before, Distinct
<1>6. ASSUME t # Head(q) PROVE Before(q, q[1], t)
  BY <1>2, <1>3, <1>4, <1>6 DEF Before
<1> QED BY <1>1, <1>4, <1>5, <1>6

\* The holder leaves.
LEMMA BecomesTail ==
  ASSUME NEW q \in Seq(Task), Distinct(q), q # <<>>
  PROVE  Becomes(q, Tail(q), {Head(q)}, {})
<1> DEFINE r == Tail(q)
<1>1. /\ r \in Seq(Task) /\ Len(r) = Len(q) - 1 /\ Head(q) = q[1]
      /\ \A i \in 1..Len(r) : r[i] = q[i + 1]
  BY HeadTailProperties
<1>2. DOMAIN q = 1..Len(q) /\ DOMAIN r = 1..Len(r) /\ Len(q) \in Nat /\ Len(r) \in Nat
  BY <1>1, LenProperties
<1>3. 1 \in DOMAIN q
  BY <1>2, EmptySeq
<1> HIDE DEF r
<1>4. Distinct(r)
  <2> SUFFICES ASSUME NEW i \in DOMAIN r, NEW j \in DOMAIN r, r[i] = r[j] PROVE i = j
    BY DEF Distinct
  <2>1. i + 1 \in DOMAIN q /\ j + 1 \in DOMAIN q /\ q[i + 1] = q[j + 1]
    BY <1>1, <1>2
  <2>2. i + 1 = j + 1
    BY <2>1 DEF Distinct
  <2> QED BY <1>2, <2>2
<1>5. \A x \in Task : In(r, x) <=> In(q, x) /\ x # q[1]
  <2> SUFFICES ASSUME NEW x \in Task PROVE In(r, x) <=> In(q, x) /\ x # q[1]
    OBVIOUS
  <2>1. ASSUME In(r, x) PROVE In(q, x) /\ x # q[1]
    <3>1. PICK i \in DOMAIN r : r[i] = x
      BY <2>1 DEF In
    <3>2. i + 1 \in DOMAIN q /\ q[i + 1] = x /\ i + 1 # 1
      BY <3>1, <1>1, <1>2
    <3> QED BY <3>2, <1>3 DEF In, Distinct
  <2>2. ASSUME In(q, x), x # q[1] PROVE In(r, x)
    <3>1. PICK i \in DOMAIN q : q[i] = x
      BY <2>2 DEF In
    <3>2. i # 1 BY <3>1, <2>2
    <3>3. i - 1 \in DOMAIN r /\ r[i - 1] = x
      BY <3>1, <3>2, <1>1, <1>2
    <3> QED BY <3>3 DEF In
  <2> QED BY <2>1, <2>2
<1>6. \A x, y \in Task : Before(r, x, y) <=> Before(q, x, y) /\ x # q[1] /\ y # q[1]
  <2> SUFFICES ASSUME NEW x \in Task, NEW y \in Task
               PROVE Before(r, x, y) <=> Before(q, x, y) /\ x # q[1] /\ y # q[1]
    OBVIOUS
  <2>1. ASSUME Before(r, x, y) PROVE Before(q, x, y) /\ x # q[1] /\ y # q[1]
    <3>1. PICK i, j \in DOMAIN r : i < j /\ r[i] = x /\ r[j] = y
      BY <2>1 DEF Before
    <3>2. /\ i + 1 \in DOMAIN q /\ q[i + 1] = x /\ i + 1 # 1
          /\ j + 1 \in DOMAIN q /\ q[j + 1] = y /\ j + 1 # 1 /\ i + 1 < j + 1
      BY <3>1, <1>1, <1>2
    <3> QED BY <3>2, <1>3 DEF Before, Distinct
  <2>2. ASSUME Before(q, x, y), x # q[1], y # q[1] PROVE Before(r, x, y)
    <3>1. PICK i, j \in DOMAIN q : i < j /\ q[i] = x /\ q[j] = y
      BY <2>2 DEF Before
    <3>2. i # 1 /\ j # 1 BY <3>1, <2>2
    <3>3. /\ i - 1 \in DOMAIN r /\ r[i - 1] = x
          /\ j - 1 \in DOMAIN r /\ r[j - 1] = y /\ i - 1 < j - 1
      BY <3>1, <3>2, <1>1, <1>2
    <3> QED BY <3>3 DEF Before
  <2> QED BY <2>1, <2>2
<1> QED BY <1>1, <1>4, <1>5, <1>6 DEF r, Becomes

\* A task joins the end.
LEMMA BecomesAppend ==
  ASSUME NEW q \in Seq(Task), Distinct(q), NEW t \in Task, ~In(q, t)
  PROVE  Becomes(q, Append(q, t), {}, {t})
<1> DEFINE r == Append(q, t)
<1>1. /\ r \in Seq(Task) /\ Len(r) = Len(q) + 1 /\ r[Len(q) + 1] = t
      /\ \A i \in 1..Len(q) : r[i] = q[i]
  BY AppendProperties
<1>2. DOMAIN q = 1..Len(q) /\ DOMAIN r = 1..Len(r) /\ Len(q) \in Nat
  BY <1>1, LenProperties
<1> HIDE DEF r
<1>3. \A i \in DOMAIN r : (i \in DOMAIN q /\ r[i] = q[i]) \/ (i = Len(q) + 1 /\ r[i] = t)
  <2>1. \A i \in 1..(Len(q) + 1) : i \in 1..Len(q) \/ i = Len(q) + 1
    BY <1>2
  <2> QED BY <1>1, <1>2, <2>1
<1>4. \A i \in DOMAIN q : i \in DOMAIN r /\ r[i] = q[i] /\ q[i] # t /\ i < Len(q) + 1
  BY <1>1, <1>2 DEF In
<1>5. Len(q) + 1 \in DOMAIN r
  BY <1>1, <1>2
<1>6. Distinct(r)
  BY <1>3, <1>4 DEF Distinct
<1>7. \A x \in Task : In(r, x) <=> In(q, x) \/ x = t
  BY <1>1, <1>3, <1>4, <1>5 DEF In
<1>8. \A x, y \in Task : Before(r, x, y) <=> Before(q, x, y) \/ (In(q, x) /\ y = t)
  <2> SUFFICES ASSUME NEW x \in Task, NEW y \in Task
               PROVE Before(r, x, y) <=> Before(q, x, y) \/ (In(q, x) /\ y = t)
    OBVIOUS
  <2>1. ASSUME Before(r, x, y) PROVE Before(q, x, y) \/ (In(q, x) /\ y = t)
    <3>1. PICK i, j \in DOMAIN r : i < j /\ r[i] = x /\ r[j] = y
      BY <2>1 DEF Before
    <3>2. i \in DOMAIN q /\ q[i] = x
      BY <3>1, <1>1, <1>2
    <3>3. CASE j \in DOMAIN q
      BY <3>1, <3>2, <3>3, <1>4 DEF Before
    <3>4. CASE j \notin DOMAIN q
      BY <3>1, <3>2, <3>4, <1>3 DEF In
    <3> QED BY <3>3, <3>4
  <2>2. ASSUME Before(q, x, y) PROVE Before(r, x, y)
    BY <2>2, <1>4 DEF Before
  <2>3. ASSUME In(q, x), y = t PROVE Before(r, x, y)
    BY <2>3, <1>1, <1>4, <1>5 DEF Before, In
  <2> QED BY <2>1, <2>2, <2>3
<1> QED BY <1>1, <1>6, <1>7, <1>8 DEF r, Becomes

\* A task that waits no longer: Without.
LEMMA BecomesWithout ==
  ASSUME NEW q \in Seq(Task), Distinct(q), NEW t \in Task
  PROVE  Becomes(q, Without(q, t), {t}, {})
<1> DEFINE at == {i \in DOMAIN q : q[i] = t}
<1>q. DOMAIN q = 1..Len(q) /\ Len(q) \in Nat
  BY LenProperties
<1>1. CASE at = {}
  <2>1. Without(q, t) = q /\ ~In(q, t)
    BY <1>1 DEF Without, In
  <2>2. \A x, y \in Task : Before(q, x, y) => x # t /\ y # t
    BY <2>1 DEF Before, In
  <2> QED BY <2>1, <2>2 DEF Becomes
<1>2. CASE at # {}
  <2>1. PICK k \in DOMAIN q : q[k] = t
    BY <1>2
  <2>2. at = {k}
    BY <2>1 DEF Distinct
  <2> DEFINE r == [j \in 1..(Len(q) - 1) |-> IF k <= j THEN q[j + 1] ELSE q[j]]
  <2>3. Without(q, t) = r
    BY <1>2, <2>2 DEF Without
  <2>4. Len(q) - 1 \in Nat /\ DOMAIN r = 1..(Len(q) - 1)
    BY <1>q, <2>1
  <2>5. \A j \in DOMAIN r : /\ j \in 1..Len(q) /\ j + 1 \in 1..Len(q)
                            /\ r[j] = IF k <= j THEN q[j + 1] ELSE q[j]
    BY <2>4, <1>q
  <2>6. r \in [1..(Len(q) - 1) -> Task]
    BY <2>4, <2>5, <1>q, ElementOfSeq
  <2>7. r \in Seq(Task)
    BY <2>6, <2>4, SeqDef
  <2>a. \A j \in DOMAIN r : \E i \in DOMAIN q : /\ i # k /\ r[j] = q[i]
                                               /\ i = IF k <= j THEN j + 1 ELSE j
    BY <2>5, <2>4, <1>q, <2>1
  <2>b. \A i \in DOMAIN q : i # k => \E j \in DOMAIN r : /\ r[j] = q[i]
                                                        /\ j = IF i < k THEN i ELSE i - 1
    <3> SUFFICES ASSUME NEW i \in DOMAIN q, i # k
                 PROVE \E j \in DOMAIN r : r[j] = q[i] /\ j = IF i < k THEN i ELSE i - 1
      OBVIOUS
    <3>1. CASE i < k
      <4>1. i \in DOMAIN r /\ ~(k <= i)
        BY <3>1, <2>1, <2>4, <1>q
      <4> QED BY <4>1, <3>1, <2>5
    <3>2. CASE ~(i < k)
      <4>1. i - 1 \in DOMAIN r /\ k <= i - 1 /\ (i - 1) + 1 = i
        BY <3>2, <2>1, <2>4, <1>q
      <4> QED BY <4>1, <3>2, <2>5
    <3> QED BY <3>1, <3>2
  <2> HIDE DEF r
  <2>8. Distinct(r)
    <3> SUFFICES ASSUME NEW i \in DOMAIN r, NEW j \in DOMAIN r, r[i] = r[j] PROVE i = j
      BY DEF Distinct
    <3>1. PICK a \in DOMAIN q : a # k /\ r[i] = q[a] /\ a = IF k <= i THEN i + 1 ELSE i
      BY <2>a
    <3>2. PICK b \in DOMAIN q : b # k /\ r[j] = q[b] /\ b = IF k <= j THEN j + 1 ELSE j
      BY <2>a
    <3>3. a = b
      BY <3>1, <3>2 DEF Distinct
    <3> QED BY <3>1, <3>2, <3>3, <2>4, <2>1, <1>q
  <2>9. \A x \in Task : In(r, x) <=> In(q, x) /\ x # t
    <3>1. \A i \in DOMAIN q : q[i] = t => i = k
      BY <2>1 DEF Distinct
    <3> QED BY <2>a, <2>b, <2>1, <3>1 DEF In
  <2>10. \A x, y \in Task : Before(r, x, y) <=> Before(q, x, y) /\ x # t /\ y # t
    <3> SUFFICES ASSUME NEW x \in Task, NEW y \in Task
                 PROVE Before(r, x, y) <=> Before(q, x, y) /\ x # t /\ y # t
      OBVIOUS
    <3>1. ASSUME Before(r, x, y) PROVE Before(q, x, y) /\ x # t /\ y # t
      <4>1. PICK i, j \in DOMAIN r : i < j /\ r[i] = x /\ r[j] = y
        BY <3>1 DEF Before
      <4>2. PICK a \in DOMAIN q : a # k /\ r[i] = q[a] /\ a = IF k <= i THEN i + 1 ELSE i
        BY <2>a
      <4>3. PICK b \in DOMAIN q : b # k /\ r[j] = q[b] /\ b = IF k <= j THEN j + 1 ELSE j
        BY <2>a
      <4>4. a < b
        BY <4>1, <4>2, <4>3, <2>4, <2>1, <1>q
      <4>5. x # t /\ y # t
        BY <4>1, <4>2, <4>3, <2>1 DEF Distinct
      <4> QED BY <4>1, <4>2, <4>3, <4>4, <4>5 DEF Before
    <3>2. ASSUME Before(q, x, y), x # t, y # t PROVE Before(r, x, y)
      <4>1. PICK a, b \in DOMAIN q : a < b /\ q[a] = x /\ q[b] = y
        BY <3>2 DEF Before
      <4>2. a # k /\ b # k
        BY <4>1, <3>2, <2>1
      <4>3. PICK i \in DOMAIN r : r[i] = q[a] /\ i = IF a < k THEN a ELSE a - 1
        BY <4>2, <2>b
      <4>4. PICK j \in DOMAIN r : r[j] = q[b] /\ j = IF b < k THEN b ELSE b - 1
        BY <4>2, <2>b
      <4>5. i < j
        BY <4>1, <4>2, <4>3, <4>4, <2>1, <1>q
      <4> QED BY <4>1, <4>3, <4>4, <4>5 DEF Before
    <3> QED BY <3>1, <3>2
  <2> QED BY <2>3, <2>7, <2>8, <2>9, <2>10 DEF Becomes
<1> QED BY <1>1, <1>2

\* Tasks that leave one after the other.
LEMMA BecomesLess ==
  ASSUME NEW q, NEW r, NEW s, NEW R, NEW S, Becomes(q, r, R, {}), Becomes(r, s, S, {})
  PROVE  Becomes(q, s, R \cup S, {})
BY DEF Becomes

\* Tasks that leave before others join.
LEMMA BecomesAgain ==
  ASSUME NEW q, NEW r, NEW s, NEW R, NEW J, Becomes(q, r, R, {}), Becomes(r, s, {}, J)
  PROVE  Becomes(q, s, R, J)
BY DEF Becomes

-----------------------------------------------------------------------------
(* Who holds the lock and which close runs                                 *)

Inside == Asking \cup Interrupting
Holding == {"enter"} \cup Interrupting
Ending == {"gather", "store"}
Preparing == {"open", "connect", "write"}

KernelTypes ==
  /\ epoch \in Epoch /\ closing \in BOOLEAN /\ closed \in BOOLEAN
  /\ closeDone \in BOOLEAN /\ persisted \in BOOLEAN
  /\ pc \in [Task -> TaskState] /\ mode \in [Task -> {"interrupt", "answer", "close"}]
  /\ lockQ \in Seq(Task)

\* Nobody waits twice; those inside interrupt() are those in the queue, and whoever
\* is behind somebody waits.
QueueSound ==
  /\ Distinct(lockQ)
  /\ \A t \in Task : In(lockQ, t) <=> pc[t] \in Inside
  /\ \A x, y \in Task : Before(lockQ, x, y) => pc[y] = "lock"

\* Every interrupt that is asked for has its epoch left, and the first close too.
RoomLeft ==
  epoch + Cardinality({t \in Task : pc[t] \in Asking}) + (IF closing THEN 0 ELSE 1) <= MaxEpoch

\* One task at most closes; it is not closed before its interrupt is over, and not
\* done before the row was asked.  Nothing prepares a session that is closing.
EndSound ==
  /\ closed => closing
  /\ closeDone => closed
  /\ persisted => closeDone
  /\ closing => pc[Prep] \notin Preparing
  /\ pc[Prep] \in Preparing => pc[Beat] = "over"
  /\ \A c \in Task : mode[c] = "close" => closing /\ c # Ctl
  /\ \A c, d \in Task : mode[c] = "close" /\ mode[d] = "close" => c = d
  /\ \A c \in Task : mode[c] = "close" /\ pc[c] \in Inside => ~closed
  /\ \A c \in Task : mode[c] = "close" /\ pc[c] \in Inside \cup Ending => ~closeDone
  /\ \A c \in Task : pc[c] \in Ending => mode[c] = "close" /\ closed
  /\ \A t \in Task : mode[t] = "answer" => t \in {Ctl, Fin}
  /\ \A t \in Task : pc[t] \in Inside /\ t \notin {Ctl, Mic, Fin} => mode[t] = "close"

Kernel == KernelTypes /\ QueueSound /\ RoomLeft /\ EndSound

\* The tasks are six, and none is another.
LEMMA TasksAreSix ==
  /\ Ctl \in Task /\ Mic \in Task /\ Fin \in Task /\ Beat \in Task /\ Prep \in Task /\ Out \in Task
  /\ Ctl \notin {Mic, Fin, Beat, Prep, Out} /\ Mic \notin {Fin, Beat, Prep, Out}
  /\ Fin \notin {Beat, Prep, Out} /\ Beat \notin {Prep, Out} /\ Prep # Out
  /\ IsFiniteSet(Task)
<1>1. \A S, x : IsFiniteSet(S) => IsFiniteSet(S \cup {x})
  BY FS_AddElement
<1>2. IsFiniteSet({} \cup {Ctl} \cup {Mic} \cup {Fin} \cup {Beat} \cup {Prep} \cup {Out})
  <2>1. IsFiniteSet({} \cup {Ctl} \cup {Mic} \cup {Fin})
    BY <1>1, FS_EmptySet, Zenon
  <2> QED BY <1>1, <2>1, Zenon
<1>3. Task = {} \cup {Ctl} \cup {Mic} \cup {Fin} \cup {Beat} \cup {Prep} \cup {Out}
  BY DEF Task
<1> QED BY <1>2, <1>3, ActorAssumption DEF Task

LEMMA MaxEpochIsNumber == MaxEpoch \in Nat /\ MaxEpoch > 0
BY ActorAssumption

\* No set of tasks that loses a member, and none that gains one, is larger than that.
LEMMA TaskCount ==
  ASSUME NEW A \in SUBSET Task, NEW B \in SUBSET Task
  PROVE  /\ Cardinality(A) \in Nat /\ Cardinality(B) \in Nat
         /\ B \subseteq A => Cardinality(B) <= Cardinality(A)
         /\ \A t \in Task : B \subseteq A \cup {t} => Cardinality(B) <= Cardinality(A) + 1
         /\ \A t \in A : B \subseteq A \ {t} => Cardinality(B) + 1 <= Cardinality(A)
<1>1. /\ IsFiniteSet(A) /\ IsFiniteSet(B)
      /\ Cardinality(A) \in Nat /\ Cardinality(B) \in Nat
  BY TasksAreSix, FS_Subset, FS_CardinalityType
<1>2. ASSUME B \subseteq A PROVE Cardinality(B) <= Cardinality(A)
  BY <1>1, <1>2, FS_Subset
<1>3. ASSUME NEW t \in Task, B \subseteq A \cup {t} PROVE Cardinality(B) <= Cardinality(A) + 1
  <2>1. IsFiniteSet(A \cup {t}) /\ Cardinality(A \cup {t}) \in Nat
    BY <1>1, FS_AddElement, FS_CardinalityType
  <2>2. Cardinality(A \cup {t}) <= Cardinality(A) + 1
    <3>1. Cardinality(A \cup {t}) = IF t \in A THEN Cardinality(A) ELSE Cardinality(A) + 1
      BY <1>1, FS_AddElement, Zenon
    <3> QED BY <3>1, <1>1
  <2>3. Cardinality(B) <= Cardinality(A \cup {t})
    BY <2>1, <1>3, FS_Subset
  <2> QED BY <2>1, <2>2, <2>3, <1>1
<1>4. ASSUME NEW t \in A, B \subseteq A \ {t} PROVE Cardinality(B) + 1 <= Cardinality(A)
  <2>1. IsFiniteSet(A \ {t}) /\ Cardinality(A \ {t}) = Cardinality(A) - 1
    BY <1>1, FS_RemoveElement
  <2>2. Cardinality(B) <= Cardinality(A \ {t})
    BY <2>1, <1>4, FS_Subset
  <2> QED BY <2>1, <2>2, <1>1
<1> QED BY <1>1, <1>2, <1>3, <1>4

\* Whoever is past the lock, or is let in, is at the head of the queue.
LEMMA HolderIsHead ==
  ASSUME Kernel, NEW t \in Task, pc[t] \in Holding \/ Granted(t)
  PROVE  /\ lockQ # <<>> /\ t = Head(lockQ) /\ In(lockQ, t) /\ pc[t] \in Inside
         /\ \A x \in Task : ~Before(lockQ, x, t)
         /\ \A x \in Task : In(lockQ, x) /\ x # t => Before(lockQ, t, x) /\ pc[x] = "lock"
<1>1. In(lockQ, t) /\ pc[t] \in Inside
  BY DEF Kernel, QueueSound, Granted, Holding, Inside, Asking
<1>2. lockQ \in Seq(Task) /\ Distinct(lockQ)
  BY DEF Kernel, KernelTypes, QueueSound
<1>3. lockQ # <<>> /\ (t = Head(lockQ) <=> \A x \in Task : ~Before(lockQ, x, t))
  BY <1>1, <1>2, HeadOfQueue
<1>4. t = Head(lockQ)
  <2>1. CASE pc[t] = "lock"
    BY <2>1 DEF Granted, Holding, Interrupting
  <2>2. CASE pc[t] # "lock"
    BY <2>2, <1>3 DEF Kernel, QueueSound
  <2> QED BY <2>1, <2>2
<1>5. ASSUME NEW x \in Task, In(lockQ, x), x # t PROVE Before(lockQ, t, x) /\ pc[x] = "lock"
  <2>1. PICK j \in DOMAIN lockQ : lockQ[j] = x
    BY <1>5 DEF In
  <2>2. PICK i \in DOMAIN lockQ : lockQ[i] = t
    BY <1>1 DEF In
  <2>3. DOMAIN lockQ \subseteq Int
    BY <1>2, LenProperties
  <2>4. i # j
    BY <2>1, <2>2, <1>5
  <2>5. CASE i < j
    BY <2>5, <2>1, <2>2 DEF Before, Kernel, QueueSound
  <2>6. CASE j < i
    BY <2>6, <2>1, <2>2, <1>3, <1>4 DEF Before
  <2> QED BY <2>3, <2>4, <2>5, <2>6
<1> QED BY <1>1, <1>3, <1>4, <1>5

\* The queue stays sound when those who leave it are outside, and those who join it
\* wait unless they are alone.
LEMMA QueueStays ==
  ASSUME Kernel, NEW R, NEW J, Becomes(lockQ, lockQ', R, J),
         \A t \in Task : t \in J =>
            /\ pc'[t] \in Asking
            /\ (\E x \in Task : In(lockQ, x) /\ x \notin R) => pc'[t] = "lock",
         \A x \in Task : x \in R /\ x \notin J => pc'[x] \notin Inside,
         \A x \in Task : x \notin R /\ x \notin J =>
            /\ pc'[x] \in Inside <=> pc[x] \in Inside
            /\ pc[x] = "lock" => pc'[x] = "lock" \/ \A y \in Task : ~Before(lockQ, y, x)
  PROVE  QueueSound' /\ (lockQ \in Seq(Task))'
<1>1. Distinct(lockQ') /\ lockQ' \in Seq(Task)
  BY DEF Becomes
<1>2. ASSUME NEW t \in Task PROVE In(lockQ', t) <=> pc'[t] \in Inside
  <2>1. In(lockQ', t) <=> (In(lockQ, t) /\ t \notin R) \/ t \in J
    BY DEF Becomes
  <2>2. In(lockQ, t) <=> pc[t] \in Inside
    BY DEF Kernel, QueueSound
  <2>3. Asking \subseteq Inside
    BY DEF Inside
  <2> QED BY <2>1, <2>2, <2>3
<1>3. ASSUME NEW x \in Task, NEW y \in Task, Before(lockQ', x, y) PROVE pc'[y] = "lock"
  <2>1. \/ Before(lockQ, x, y) /\ x \notin R /\ y \notin R
        \/ In(lockQ, x) /\ x \notin R /\ y \in J
    BY <1>3 DEF Becomes
  <2>2. CASE y \in J
    <3>1. In(lockQ, x) /\ x \notin R
      BY <2>1 DEF Before, In
    <3> QED BY <2>2, <3>1
  <2>3. CASE y \notin J
    <3>1. Before(lockQ, x, y) /\ y \notin R /\ pc[y] = "lock"
      BY <2>1, <2>3 DEF Kernel, QueueSound
    <3> QED BY <3>1, <2>3
  <2> QED BY <2>2, <2>3
<1> QED BY <1>1, <1>2, <1>3 DEF QueueSound

(* The shapes that a step can have for the lock and for close().           *)

\* Neither the queue nor close() is touched.
Aside ==
  /\ UNCHANGED <<epoch, closing, closed, closeDone, persisted, mode, lockQ>>
  /\ pc' \in [Task -> TaskState]
  /\ \A x \in Task : \/ pc'[x] = pc[x]
                     \/ pc[x] \in Interrupting /\ pc'[x] \in Interrupting
                     \/ pc[x] = "gather" /\ pc'[x] = "store"
                     \/ pc[x] \notin Inside \cup Ending /\ pc'[x] \notin Inside \cup Ending
  /\ pc'[Prep] \in Preparing => pc[Prep] \in Preparing /\ pc'[Beat] = pc[Beat]

\* The head of the queue begins its interrupt.
Entered(t) ==
  /\ Granted(t) /\ ~closed /\ epoch' = epoch + 1
  /\ \E s \in Interrupting : pc' = [pc EXCEPT ![t] = s]
  /\ UNCHANGED <<closing, closed, closeDone, persisted, mode, lockQ>>

\* Its interrupt is over.
Left(t) ==
  /\ pc[t] \in Interrupting \/ Granted(t)
  /\ mode[t] # "close" /\ mode' = [mode EXCEPT ![t] = "interrupt"]
  /\ lockQ' = Tail(lockQ)
  /\ \E s \in {"record", "idle"} : pc' = [pc EXCEPT ![t] = s]
  /\ UNCHANGED <<epoch, closing, closed, closeDone, persisted>>

\* The interrupt of the close is over.
Stopped(t) ==
  /\ pc[t] \in Interrupting \/ Granted(t)
  /\ mode[t] = "close" /\ StopTasks(t, Tail(lockQ))
  /\ UNCHANGED <<epoch, closing, closeDone, persisted>>

\* A close begins, or another one is awaited: by a task that was not inside, or that
\* was interrupting.
Begins(t, lost, q) ==
  /\ t # Ctl
  /\ \/ q = lockQ /\ pc[t] \notin Inside \cup Ending
     \/ q = Tail(lockQ) /\ pc[t] \in Interrupting /\ mode[t] # "close"
  /\ BeginClose(t, lost, q)
  /\ UNCHANGED <<epoch, closed, closeDone, persisted>>

Asked(t, m) ==
  /\ Room /\ t \in {Ctl, Mic, Fin} /\ pc[t] \notin Inside \cup Ending
  /\ m \in {"interrupt", "answer"} /\ (m = "answer" => t # Mic)
  /\ Ask(t, m)
  /\ UNCHANGED <<epoch, closing, closed, closeDone, persisted>>

\* A task is cancelled.
Shed(x) ==
  /\ x \in {Mic, Fin} /\ lockQ' = Without(lockQ, x)
  /\ \E s \in {"over", "idle", "asr"} : pc' = [pc EXCEPT ![x] = s]
  /\ mode' = [mode EXCEPT ![x] = "interrupt"]
  /\ closed' = (closed \/ Cut(x)) /\ closeDone' = (closeDone \/ Cut(x))
  /\ UNCHANGED <<epoch, closing, persisted>>

\* The row was asked, and close() is over.
Finished(t) ==
  /\ pc[t] = "store" /\ \E s \in {"idle", "over"} : pc' = [pc EXCEPT ![t] = s]
  /\ closeDone' = TRUE /\ persisted' \in BOOLEAN
  /\ UNCHANGED <<epoch, closing, closed, mode, lockQ>>

USE DEF Inside, Holding, Ending, Preparing, Asking, Interrupting

LEMMA AsideKernel ==
  ASSUME Kernel, Aside
  PROVE  Kernel'
<1>1. KernelTypes'
  BY DEF Kernel, KernelTypes, Aside
<1>2. QueueSound'
  <2>1. Becomes(lockQ, lockQ', {}, {})
    BY BecomesSame DEF Kernel, KernelTypes, QueueSound, Aside
  <2>2. \A x \in Task : /\ pc'[x] \in Inside <=> pc[x] \in Inside
                        /\ pc[x] = "lock" => pc'[x] = "lock"
    BY DEF Aside
  <2> QED BY <2>1, <2>2, QueueStays
<1>3. RoomLeft'
  <2>1. {t \in Task : pc'[t] \in Asking} = {t \in Task : pc[t] \in Asking}
    BY DEF Aside
  <2> QED BY <2>1 DEF Kernel, RoomLeft, Aside
<1>4. EndSound'
  BY TasksAreSix DEF Kernel, EndSound, Aside
<1> QED BY <1>1, <1>2, <1>3, <1>4 DEF Kernel

LEMMA EnteredKernel ==
  ASSUME Kernel, NEW t \in Task, Entered(t)
  PROVE  Kernel'
<1>1. PICK s \in Interrupting : pc' = [pc EXCEPT ![t] = s]
  BY DEF Entered
<1>2. pc \in [Task -> TaskState] /\ s \in TaskState
  BY DEF Kernel, KernelTypes, TaskState
<1>3. pc'[t] = s /\ \A x \in Task : x # t => pc'[x] = pc[x]
  BY <1>1, <1>2
<1>4. pc[t] \in Asking
  BY DEF Entered, Granted
<1>5. RoomLeft' /\ (epoch \in Epoch)'
  <2> DEFINE A == {x \in Task : pc[x] \in Asking}
             B == {x \in Task : pc'[x] \in Asking}
  <2>1. B \subseteq A \ {t} /\ t \in A
    BY <1>3, <1>4
  <2>2. Cardinality(B) + 1 <= Cardinality(A) /\ Cardinality(A) \in Nat /\ Cardinality(B) \in Nat
    BY <2>1, TaskCount
  <2>3. epoch \in Nat /\ epoch' = epoch + 1 /\ closing' = closing /\ closing \in BOOLEAN
    BY DEF Kernel, KernelTypes, Epoch, Entered
  <2>4. epoch + Cardinality(A) + (IF closing THEN 0 ELSE 1) <= MaxEpoch
    BY DEF Kernel, RoomLeft
  <2> HIDE DEF A, B
  <2>5. epoch' + Cardinality(B) + (IF closing' THEN 0 ELSE 1) <= MaxEpoch /\ epoch' \in 0..MaxEpoch
    BY <2>2, <2>3, <2>4, MaxEpochIsNumber
  <2> QED BY <2>5 DEF RoomLeft, Epoch, A, B
<1>6. KernelTypes'
  BY <1>1, <1>2, <1>5 DEF Kernel, KernelTypes, Entered
<1>7. QueueSound'
  <2>1. Becomes(lockQ, lockQ', {}, {})
    BY BecomesSame DEF Kernel, KernelTypes, QueueSound, Entered
  <2>2. \A y \in Task : ~Before(lockQ, y, t)
    BY HolderIsHead DEF Entered
  <2> QED BY <2>1, <2>2, <1>3, <1>4, QueueStays
<1>8. EndSound'
  BY <1>3, <1>4, TasksAreSix DEF Kernel, EndSound, Entered
<1> QED BY <1>5, <1>6, <1>7, <1>8 DEF Kernel

LEMMA LeftKernel ==
  ASSUME Kernel, NEW t \in Task, Left(t)
  PROVE  Kernel'
<1>1. PICK s \in {"record", "idle"} : pc' = [pc EXCEPT ![t] = s]
  BY DEF Left
<1>2. pc \in [Task -> TaskState] /\ s \in TaskState
  BY DEF Kernel, KernelTypes, TaskState
<1>3. pc'[t] = s /\ \A x \in Task : x # t => pc'[x] = pc[x]
  BY <1>1, <1>2
<1>4. /\ lockQ # <<>> /\ t = Head(lockQ) /\ pc[t] \in Inside
      /\ lockQ \in Seq(Task) /\ Distinct(lockQ)
  BY HolderIsHead DEF Left, Kernel, KernelTypes, QueueSound
<1>5. Becomes(lockQ, lockQ', {t}, {})
  BY <1>4, BecomesTail DEF Left
<1>6. QueueSound' /\ (lockQ \in Seq(Task))'
  BY <1>3, <1>5, QueueStays
<1>7. KernelTypes'
  BY <1>1, <1>2, <1>6 DEF Kernel, KernelTypes, Left
<1>8. RoomLeft'
  <2> DEFINE A == {x \in Task : pc[x] \in Asking}
             B == {x \in Task : pc'[x] \in Asking}
  <2>1. B \subseteq A
    BY <1>3
  <2>2. Cardinality(B) <= Cardinality(A) /\ Cardinality(A) \in Nat /\ Cardinality(B) \in Nat
    BY <2>1, TaskCount
  <2>3. epoch \in Nat /\ epoch' = epoch /\ closing' = closing /\ closing \in BOOLEAN
    BY DEF Kernel, KernelTypes, Epoch, Left
  <2>4. epoch + Cardinality(A) + (IF closing THEN 0 ELSE 1) <= MaxEpoch
    BY DEF Kernel, RoomLeft
  <2> HIDE DEF A, B
  <2>5. epoch' + Cardinality(B) + (IF closing' THEN 0 ELSE 1) <= MaxEpoch
    BY <2>2, <2>3, <2>4, MaxEpochIsNumber
  <2> QED BY <2>5 DEF RoomLeft, A, B
<1>9. EndSound'
  <2>1. /\ mode'[t] = "interrupt" /\ \A x \in Task : x # t => mode'[x] = mode[x]
        /\ UNCHANGED <<closing, closed, closeDone, persisted>>
    BY DEF Kernel, KernelTypes, Left
  <2> QED BY <2>1, <1>3, <1>4, TasksAreSix DEF Kernel, EndSound
<1> QED BY <1>6, <1>7, <1>8, <1>9 DEF Kernel

\* The queue when a close has stopped the listeners.
LEMMA StoppedQueue ==
  ASSUME Kernel, NEW t \in Task, Stopped(t)
  PROVE  /\ Becomes(lockQ, lockQ', {t} \cup {Mic} \cup {Fin} \cup {Beat}, {})
         /\ \A x \in Task : pc'[x] = IF x = t THEN "gather" ELSE IF x \in Listeners THEN "over" ELSE pc[x]
         /\ \A x \in Task : mode'[x] = IF x # t /\ x \in Listeners THEN "interrupt" ELSE mode[x]
         /\ pc' \in [Task -> TaskState]
         /\ mode' \in [Task -> {"interrupt", "answer", "close"}]
         /\ pc[t] \in Inside /\ closed' = TRUE
<1>1. /\ lockQ # <<>> /\ t = Head(lockQ) /\ pc[t] \in Inside
      /\ lockQ \in Seq(Task) /\ Distinct(lockQ)
  BY HolderIsHead DEF Stopped, Kernel, KernelTypes, QueueSound
<1> DEFINE q1 == Tail(lockQ)
           q2 == Without(q1, Mic)
           q3 == Without(q2, Fin)
           q4 == Without(q3, Beat)
<1>2. Becomes(lockQ, q1, {t}, {})
  BY <1>1, BecomesTail
<1>3. q1 \in Seq(Task) /\ Distinct(q1)
  BY <1>2 DEF Becomes
<1>4. Becomes(q1, q2, {Mic}, {})
  BY <1>3, BecomesWithout, TasksAreSix
<1>5. q2 \in Seq(Task) /\ Distinct(q2)
  BY <1>4 DEF Becomes
<1>6. Becomes(q2, q3, {Fin}, {})
  BY <1>5, BecomesWithout, TasksAreSix
<1>7. q3 \in Seq(Task) /\ Distinct(q3)
  BY <1>6 DEF Becomes
<1>8. Becomes(q3, q4, {Beat}, {})
  BY <1>7, BecomesWithout, TasksAreSix
<1>9. lockQ' = q4
  BY DEF Stopped, StopTasks
<1> HIDE DEF q1, q2, q3, q4
<1>10. Becomes(lockQ, q2, {t} \cup {Mic}, {})
  BY <1>2, <1>4, BecomesLess
<1>11. Becomes(lockQ, q3, {t} \cup {Mic} \cup {Fin}, {})
  BY <1>10, <1>6, BecomesLess
<1>12. Becomes(lockQ, q4, {t} \cup {Mic} \cup {Fin} \cup {Beat}, {})
  BY <1>11, <1>8, BecomesLess
<1>13. /\ \A x \in Task : pc'[x] = IF x = t THEN "gather" ELSE IF x \in Listeners THEN "over" ELSE pc[x]
       /\ \A x \in Task : mode'[x] = IF x # t /\ x \in Listeners THEN "interrupt" ELSE mode[x]
       /\ closed' = TRUE
  BY DEF Stopped, StopTasks
<1>14. pc' \in [Task -> TaskState] /\ mode' \in [Task -> {"interrupt", "answer", "close"}]
  <2>1. pc \in [Task -> TaskState] /\ mode \in [Task -> {"interrupt", "answer", "close"}]
    BY DEF Kernel, KernelTypes
  <2> QED BY <2>1 DEF Stopped, StopTasks, TaskState
<1> QED BY <1>1, <1>9, <1>12, <1>13, <1>14

LEMMA StoppedKernel ==
  ASSUME Kernel, NEW t \in Task, Stopped(t)
  PROVE  Kernel'
<1>1. /\ Becomes(lockQ, lockQ', {t} \cup {Mic} \cup {Fin} \cup {Beat}, {})
      /\ \A x \in Task : pc'[x] = IF x = t THEN "gather" ELSE IF x \in Listeners THEN "over" ELSE pc[x]
      /\ \A x \in Task : mode'[x] = IF x # t /\ x \in Listeners THEN "interrupt" ELSE mode[x]
      /\ pc' \in [Task -> TaskState]
      /\ mode' \in [Task -> {"interrupt", "answer", "close"}]
      /\ pc[t] \in Inside /\ closed' = TRUE
  BY StoppedQueue
<1>2. UNCHANGED <<epoch, closing, closeDone, persisted>> /\ mode[t] = "close"
  BY DEF Stopped
<1>3. QueueSound' /\ (lockQ \in Seq(Task))'
  BY <1>1, QueueStays, TasksAreSix DEF Listeners
<1>4. KernelTypes'
  BY <1>1, <1>2, <1>3 DEF Kernel, KernelTypes
<1>5. RoomLeft'
  <2> DEFINE A == {x \in Task : pc[x] \in Asking}
             B == {x \in Task : pc'[x] \in Asking}
  <2>1. B \subseteq A
    BY <1>1
  <2>2. Cardinality(B) <= Cardinality(A) /\ Cardinality(A) \in Nat /\ Cardinality(B) \in Nat
    BY <2>1, TaskCount
  <2>3. epoch \in Nat /\ epoch' = epoch /\ closing' = closing /\ closing \in BOOLEAN
    BY <1>2 DEF Kernel, KernelTypes, Epoch
  <2>4. epoch + Cardinality(A) + (IF closing THEN 0 ELSE 1) <= MaxEpoch
    BY DEF Kernel, RoomLeft
  <2> HIDE DEF A, B
  <2>5. epoch' + Cardinality(B) + (IF closing' THEN 0 ELSE 1) <= MaxEpoch
    BY <2>2, <2>3, <2>4, MaxEpochIsNumber
  <2> QED BY <2>5 DEF RoomLeft, A, B
<1>6. EndSound'
  BY <1>1, <1>2, TasksAreSix DEF Kernel, EndSound, Listeners
<1> QED BY <1>3, <1>4, <1>5, <1>6 DEF Kernel

\* The queue when a close begins, or is awaited.
LEMMA BeginsQueue ==
  ASSUME Kernel, NEW t \in Task, NEW lost, NEW q, Begins(t, lost, q)
  PROVE  /\ \E R : /\ R = IF q = lockQ /\ pc[t] \notin Inside THEN {} ELSE {t}
                   /\ Becomes(lockQ, q, R, {})
                   /\ ~In(q, t)
                   /\ closing => lockQ' = q
                   /\ ~closing => Becomes(lockQ, lockQ', R, {t})
         /\ AtLock(q) \in Asking
         /\ (\E x \in Task : In(q, x)) => AtLock(q) = "lock"
<1>1. lockQ \in Seq(Task) /\ Distinct(lockQ)
  BY DEF Kernel, KernelTypes, QueueSound
<1> DEFINE R == IF q = lockQ /\ pc[t] \notin Inside THEN {} ELSE {t}
<1>2. Becomes(lockQ, q, R, {}) /\ ~In(q, t)
  <2>1. CASE q = lockQ /\ pc[t] \notin Inside \cup Ending
    <3>1. R = {}
      BY <2>1
    <3>2. Becomes(lockQ, q, {}, {})
      BY <1>1, <2>1, BecomesSame
    <3>3. ~In(q, t)
      BY <2>1 DEF Kernel, QueueSound
    <3> QED BY <3>1, <3>2, <3>3
  <2>2. CASE q = Tail(lockQ) /\ pc[t] \in Interrupting
    <3>1. R = {t}
      BY <2>2
    <3>2. lockQ # <<>> /\ t = Head(lockQ)
      BY <2>2, HolderIsHead
    <3>3. Becomes(lockQ, q, {t}, {})
      BY <1>1, <2>2, <3>2, BecomesTail
    <3>4. ~In(q, t)
      BY <3>3 DEF Becomes
    <3> QED BY <3>1, <3>3, <3>4
  <2> QED BY <2>1, <2>2 DEF Begins
<1>3. q \in Seq(Task) /\ Distinct(q)
  BY <1>2 DEF Becomes
<1>4. AtLock(q) \in Asking /\ ((\E x \in Task : In(q, x)) => AtLock(q) = "lock")
  BY <1>3, EmptyQueue DEF AtLock
<1>5. closing => lockQ' = q
  BY DEF Begins, BeginClose
<1>6. ~closing => Becomes(lockQ, lockQ', R, {t})
  <2> SUFFICES ASSUME ~closing PROVE Becomes(lockQ, lockQ', R, {t})
    OBVIOUS
  <2>1. lockQ' = Append(q, t)
    BY DEF Begins, BeginClose
  <2>2. Becomes(q, Append(q, t), {}, {t})
    BY <1>2, <1>3, BecomesAppend
  <2> HIDE DEF R
  <2> QED BY <1>2, <2>1, <2>2, BecomesAgain
<1> QED BY <1>2, <1>4, <1>5, <1>6

LEMMA BeginsKernel ==
  ASSUME Kernel, NEW t \in Task, NEW lost, NEW q, Begins(t, lost, q)
  PROVE  Kernel'
<1>1. PICK R : /\ R = IF q = lockQ /\ pc[t] \notin Inside THEN {} ELSE {t}
               /\ Becomes(lockQ, q, R, {}) /\ ~In(q, t)
               /\ closing => lockQ' = q
               /\ ~closing => Becomes(lockQ, lockQ', R, {t})
  BY BeginsQueue, Zenon
<1>2. AtLock(q) \in Asking /\ ((\E x \in Task : In(q, x)) => AtLock(q) = "lock")
  BY BeginsQueue, Zenon
<1>3. UNCHANGED <<epoch, closed, closeDone, persisted>> /\ t # Ctl /\ pc[t] \notin Asking
  BY DEF Begins
<1>4. CASE closing
  <2>1. /\ pc' = [pc EXCEPT ![t] = "await"] /\ closing' = closing /\ mode' = mode /\ lockQ' = q
    BY <1>1, <1>4 DEF Begins, BeginClose
  <2>2. pc \in [Task -> TaskState] /\ "await" \in TaskState
    BY DEF Kernel, KernelTypes, TaskState
  <2>3. pc'[t] = "await" /\ \A x \in Task : x # t => pc'[x] = pc[x]
    BY <2>1, <2>2
  <2>4. pc[t] \in Inside => t \in R
    BY <1>1
  <2>5. R \subseteq {t}
    BY <1>1
  <2>6. QueueSound' /\ (lockQ \in Seq(Task))'
    BY <1>1, <2>1, <2>3, <2>4, <2>5, QueueStays
  <2>7. KernelTypes'
    BY <1>3, <2>1, <2>2, <2>6 DEF Kernel, KernelTypes
  <2>8. RoomLeft'
    <3>1. {x \in Task : pc'[x] \in Asking} = {x \in Task : pc[x] \in Asking}
      BY <1>3, <2>3
    <3> QED BY <3>1, <1>3, <2>1 DEF Kernel, RoomLeft
  <2>9. EndSound'
    BY <1>3, <1>4, <2>1, <2>3, TasksAreSix DEF Kernel, EndSound
  <2> QED BY <2>6, <2>7, <2>8, <2>9 DEF Kernel
<1>5. CASE ~closing
  <2>1. /\ closing' = TRUE /\ mode' = [mode EXCEPT ![t] = "close"]
        /\ pc' = [x \in Task |-> IF x = t THEN AtLock(q) ELSE IF x = Prep THEN "over" ELSE pc[x]]
    BY <1>5 DEF Begins, BeginClose
  <2>2. /\ pc \in [Task -> TaskState] /\ Asking \cup {"over"} \subseteq TaskState
        /\ mode \in [Task -> {"interrupt", "answer", "close"}]
    BY DEF Kernel, KernelTypes, TaskState
  <2>3. \A x \in Task : mode[x] # "close"
    BY <1>5 DEF Kernel, EndSound
  <2>4. pc[Prep] \notin Inside \cup Ending /\ \A x \in Task : pc[x] \notin Ending
    BY <2>3, TasksAreSix DEF Kernel, EndSound
  <2>5. /\ mode'[t] = "close" /\ \A x \in Task : x # t => mode'[x] = mode[x]
        /\ mode' \in [Task -> {"interrupt", "answer", "close"}]
    BY <2>1, <2>2
  <2>6. /\ pc'[t] = AtLock(q)
        /\ \A x \in Task : x # t => pc'[x] = IF x = Prep THEN "over" ELSE pc[x]
        /\ pc' \in [Task -> TaskState]
    BY <2>1, <2>2, <1>2
  <2>7. QueueSound' /\ (lockQ \in Seq(Task))'
    <3>1. Becomes(lockQ, lockQ', R, {t})
      BY <1>1, <1>5
    <3>2. (\E x \in Task : In(lockQ, x) /\ x \notin R) => pc'[t] = "lock"
      BY <1>1, <1>2, <2>6 DEF Becomes
    <3>3. R \subseteq {t}
      BY <1>1
    <3>4. \A x \in Task : x # t => /\ pc'[x] \in Inside <=> pc[x] \in Inside
                                   /\ pc[x] = "lock" => pc'[x] = "lock"
      BY <2>4, <2>6
    <3>5. pc[t] \in Inside => t \in R
      BY <1>1
    <3> QED BY <1>2, <2>6, <3>1, <3>2, <3>3, <3>4, QueueStays
  <2>8. KernelTypes'
    BY <1>3, <2>1, <2>5, <2>6, <2>7 DEF Kernel, KernelTypes
  <2>9. RoomLeft'
    <3> DEFINE A == {x \in Task : pc[x] \in Asking}
               B == {x \in Task : pc'[x] \in Asking}
    <3>1. B \subseteq A \cup {t}
      BY <2>6
    <3>2. Cardinality(B) <= Cardinality(A) + 1 /\ Cardinality(A) \in Nat /\ Cardinality(B) \in Nat
      BY <3>1, TaskCount
    <3>3. epoch \in Nat /\ epoch' = epoch
      BY <1>3 DEF Kernel, KernelTypes, Epoch
    <3>4. epoch + Cardinality(A) + 1 <= MaxEpoch
      BY <1>5 DEF Kernel, RoomLeft
    <3> HIDE DEF A, B
    <3>5. epoch' + Cardinality(B) <= MaxEpoch
      BY <3>2, <3>3, <3>4, MaxEpochIsNumber
    <3>6. epoch' + Cardinality(B) + (IF closing' THEN 0 ELSE 1) <= MaxEpoch
      BY <3>5, <3>2, <3>3, <2>1
    <3> QED BY <3>6 DEF RoomLeft, A, B
  <2>10. EndSound'
    <3>1. ~closed /\ ~closeDone /\ ~persisted
      BY <1>5 DEF Kernel, EndSound
    <3>2. \A x \in Task : pc'[x] \in Ending => FALSE
      BY <2>4, <2>6, <1>2
    <3>3. pc'[Prep] \notin Preparing
      BY <2>6, <1>2, TasksAreSix
    <3> QED BY <1>3, <2>1, <2>3, <2>5, <2>6, <3>1, <3>2, <3>3, TasksAreSix DEF Kernel, EndSound
  <2> QED BY <2>7, <2>8, <2>9, <2>10 DEF Kernel
<1> QED BY <1>4, <1>5 DEF Kernel, KernelTypes

LEMMA AskedQueue ==
  ASSUME Kernel, NEW t \in Task, NEW m, Asked(t, m)
  PROVE  /\ Becomes(lockQ, lockQ', {}, {t})
         /\ pc'[t] \in Asking /\ ((\E x \in Task : In(lockQ, x)) => pc'[t] = "lock")
         /\ mode'[t] = m
         /\ \A x \in Task : x # t => pc'[x] = pc[x] /\ mode'[x] = mode[x]
         /\ pc' \in [Task -> TaskState]
         /\ mode' \in [Task -> {"interrupt", "answer", "close"}]
<1>1. lockQ \in Seq(Task) /\ Distinct(lockQ)
  BY DEF Kernel, KernelTypes, QueueSound
<1>2. ~In(lockQ, t)
  BY DEF Asked, Kernel, QueueSound
<1>3. Becomes(lockQ, Append(lockQ, t), {}, {t})
  BY <1>1, <1>2, BecomesAppend
<1>4. AtLock(lockQ) \in Asking /\ ((\E x \in Task : In(lockQ, x)) => AtLock(lockQ) = "lock")
  BY <1>1, EmptyQueue DEF AtLock
<1>5. /\ lockQ' = Append(lockQ, t) /\ pc' = [pc EXCEPT ![t] = AtLock(lockQ)]
      /\ mode' = [mode EXCEPT ![t] = m] /\ m \in {"interrupt", "answer"}
  BY DEF Asked, Ask
<1>6. /\ pc \in [Task -> TaskState] /\ Asking \subseteq TaskState
      /\ mode \in [Task -> {"interrupt", "answer", "close"}]
  BY DEF Kernel, KernelTypes, TaskState
<1>7. /\ pc'[t] = AtLock(lockQ) /\ mode'[t] = m
      /\ \A x \in Task : x # t => pc'[x] = pc[x] /\ mode'[x] = mode[x]
  BY <1>5, <1>6
<1>8. pc' \in [Task -> TaskState] /\ mode' \in [Task -> {"interrupt", "answer", "close"}]
  BY <1>4, <1>5, <1>6
<1> QED BY <1>3, <1>4, <1>5, <1>7, <1>8

LEMMA AskedKernel ==
  ASSUME Kernel, NEW t \in Task, NEW m, Asked(t, m)
  PROVE  Kernel'
<1>1. /\ Becomes(lockQ, lockQ', {}, {t})
      /\ pc'[t] \in Asking /\ ((\E x \in Task : In(lockQ, x)) => pc'[t] = "lock")
      /\ mode'[t] = m
      /\ \A x \in Task : x # t => pc'[x] = pc[x] /\ mode'[x] = mode[x]
      /\ pc' \in [Task -> TaskState]
      /\ mode' \in [Task -> {"interrupt", "answer", "close"}]
  BY AskedQueue
<1>2. /\ UNCHANGED <<epoch, closing, closed, closeDone, persisted>>
      /\ m \in {"interrupt", "answer"} /\ (m = "answer" => t # Mic) /\ t \in {Ctl, Mic, Fin}
      /\ Room /\ pc[t] \notin Inside \cup Ending
  BY DEF Asked
<1>3. QueueSound' /\ (lockQ \in Seq(Task))'
  BY <1>1, QueueStays
<1>4. KernelTypes'
  BY <1>1, <1>2, <1>3 DEF Kernel, KernelTypes
<1>5. RoomLeft'
  <2> DEFINE A == {x \in Task : pc[x] \in Asking}
             B == {x \in Task : pc'[x] \in Asking}
  <2>1. B \subseteq A \cup {t}
    BY <1>1
  <2>2. Cardinality(B) <= Cardinality(A) + 1 /\ Cardinality(A) \in Nat /\ Cardinality(B) \in Nat
    BY <2>1, TaskCount
  <2>3. epoch \in Nat /\ epoch' = epoch
    BY <1>2 DEF Kernel, KernelTypes, Epoch
  <2>4. epoch + Cardinality(A) + 1 < MaxEpoch
    BY <1>2 DEF Room
  <2> HIDE DEF A, B
  <2>5. epoch' + Cardinality(B) + (IF closing' THEN 0 ELSE 1) <= MaxEpoch
    BY <2>2, <2>3, <2>4, MaxEpochIsNumber
  <2> QED BY <2>5 DEF RoomLeft, A, B
<1>6. EndSound'
  <2>1. pc'[t] \notin Ending \cup Preparing
    BY <1>1
  <2> QED BY <1>1, <1>2, <2>1, TasksAreSix DEF Kernel, EndSound
<1> QED BY <1>3, <1>4, <1>5, <1>6 DEF Kernel

LEMMA ShedKernel ==
  ASSUME Kernel, NEW x \in Task, Shed(x)
  PROVE  /\ Kernel'
         /\ Becomes(lockQ, lockQ', {x}, {})
<1>1. PICK s \in {"over", "idle", "asr"} : pc' = [pc EXCEPT ![x] = s]
  BY DEF Shed
<1>2. pc \in [Task -> TaskState] /\ s \in TaskState
  BY DEF Kernel, KernelTypes, TaskState
<1>3. pc'[x] = s /\ \A y \in Task : y # x => pc'[y] = pc[y]
  BY <1>1, <1>2
<1>4. Becomes(lockQ, lockQ', {x}, {})
  <2>1. lockQ \in Seq(Task) /\ Distinct(lockQ)
    BY DEF Kernel, KernelTypes, QueueSound
  <2> QED BY <2>1, BecomesWithout DEF Shed
<1>5. QueueSound' /\ (lockQ \in Seq(Task))'
  BY <1>3, <1>4, QueueStays
<1>6. /\ mode'[x] = "interrupt" /\ \A y \in Task : y # x => mode'[y] = mode[y]
      /\ mode' \in [Task -> {"interrupt", "answer", "close"}]
      /\ UNCHANGED <<epoch, closing, persisted>> /\ x \in {Mic, Fin}
      /\ closed' = (closed \/ Cut(x)) /\ closeDone' = (closeDone \/ Cut(x))
  BY DEF Kernel, KernelTypes, Shed
<1>7. Cut(x) \in BOOLEAN /\ (Cut(x) => mode[x] = "close" /\ pc[x] \in Inside \cup Ending)
  BY DEF Cut
<1>8. KernelTypes'
  <2>1. closed' \in BOOLEAN /\ closeDone' \in BOOLEAN
    BY <1>6, <1>7 DEF Kernel, KernelTypes
  <2> QED BY <1>1, <1>2, <1>5, <1>6, <2>1 DEF Kernel, KernelTypes
<1>9. RoomLeft'
  <2> DEFINE A == {y \in Task : pc[y] \in Asking}
             B == {y \in Task : pc'[y] \in Asking}
  <2>1. B \subseteq A
    BY <1>3
  <2>2. Cardinality(B) <= Cardinality(A) /\ Cardinality(A) \in Nat /\ Cardinality(B) \in Nat
    BY <2>1, TaskCount
  <2>3. epoch \in Nat /\ epoch' = epoch /\ closing' = closing /\ closing \in BOOLEAN
    BY <1>6 DEF Kernel, KernelTypes, Epoch
  <2>4. epoch + Cardinality(A) + (IF closing THEN 0 ELSE 1) <= MaxEpoch
    BY DEF Kernel, RoomLeft
  <2> HIDE DEF A, B
  <2>5. epoch' + Cardinality(B) + (IF closing' THEN 0 ELSE 1) <= MaxEpoch
    BY <2>2, <2>3, <2>4, MaxEpochIsNumber
  <2> QED BY <2>5 DEF RoomLeft, A, B
<1>10. EndSound'
  <2> DEFINE cut == Cut(x)
  <2>1. cut \in BOOLEAN /\ (cut => mode[x] = "close" /\ pc[x] \in Inside \cup Ending)
        /\ closed' = (closed \/ cut) /\ closeDone' = (closeDone \/ cut)
    BY <1>6, <1>7
  <2> HIDE DEF cut
  <2>2. CASE cut
    <3>1. \A c \in Task : mode'[c] # "close"
      BY <2>1, <2>2, <1>6 DEF Kernel, EndSound
    <3>2. closed' /\ closeDone' /\ closing'
      BY <2>1, <2>2, <1>6 DEF Kernel, EndSound
    <3>3. \A c \in Task : pc'[c] \notin Ending
      BY <2>1, <2>2, <1>3 DEF Kernel, EndSound
    <3>4. \A c \in Task : pc'[c] \in Inside /\ c \notin {Ctl, Mic, Fin} => FALSE
      BY <2>1, <2>2, <1>3, <1>6 DEF Kernel, EndSound
    <3> QED BY <1>3, <1>6, <3>1, <3>2, <3>3, <3>4, TasksAreSix DEF Kernel, EndSound
  <2>3. CASE ~cut
    <3>1. closed' = closed /\ closeDone' = closeDone
      BY <2>1, <2>3 DEF Kernel, KernelTypes
    <3> QED BY <1>3, <1>6, <3>1, TasksAreSix DEF Kernel, EndSound
  <2> QED BY <2>1, <2>2, <2>3
<1> QED BY <1>4, <1>5, <1>8, <1>9, <1>10 DEF Kernel

LEMMA FinishedKernel ==
  ASSUME Kernel, NEW t \in Task, Finished(t)
  PROVE  Kernel'
<1>1. PICK s \in {"idle", "over"} : pc' = [pc EXCEPT ![t] = s]
  BY DEF Finished
<1>2. pc \in [Task -> TaskState] /\ s \in TaskState /\ pc[t] = "store"
  BY DEF Kernel, KernelTypes, TaskState, Finished
<1>3. pc'[t] = s /\ \A x \in Task : x # t => pc'[x] = pc[x]
  BY <1>1, <1>2
<1>4. UNCHANGED <<epoch, closing, closed, mode, lockQ>> /\ closeDone' = TRUE /\ persisted' \in BOOLEAN
  BY DEF Finished
<1>5. QueueSound'
  <2>1. Becomes(lockQ, lockQ', {}, {})
    BY <1>4, BecomesSame DEF Kernel, KernelTypes, QueueSound
  <2> QED BY <2>1, <1>2, <1>3, QueueStays
<1>6. KernelTypes'
  BY <1>1, <1>2, <1>4 DEF Kernel, KernelTypes
<1>7. RoomLeft'
  <2>1. {x \in Task : pc'[x] \in Asking} = {x \in Task : pc[x] \in Asking}
    BY <1>2, <1>3
  <2> QED BY <2>1, <1>4 DEF Kernel, RoomLeft
<1>8. EndSound'
  <2>1. mode[t] = "close" /\ closed /\ closing
    BY <1>2 DEF Kernel, EndSound
  <2> QED BY <2>1, <1>2, <1>3, <1>4, TasksAreSix DEF Kernel, EndSound
<1> QED BY <1>5, <1>6, <1>7, <1>8 DEF Kernel

-----------------------------------------------------------------------------
(* Every step has one of the shapes                                        *)

Shape ==
  \/ Aside
  \/ \E t \in Task : Entered(t) \/ Left(t) \/ Stopped(t) \/ Finished(t) \/ Shed(t)
  \/ \E t \in Task, lost \in BOOLEAN : Begins(t, lost, lockQ) \/ Begins(t, lost, Tail(lockQ))
  \/ \E t \in Task, m \in {"interrupt", "answer"} : Asked(t, m)

\* What a step that is none of the control's and none of the transcription's leaves alone.
Apart ==
  /\ UNCHANGED <<epoch, body, applied, again, fresh, overtaken>>
  /\ pc'[Ctl] \in Asking => pc[Ctl] \in Asking
  /\ pc'[Ctl] = "record" => pc[Ctl] \in Inside \cup {"record"}
  /\ pc'[Fin] = "asr" => pc[Fin] = "asr"

LEMMA ShapeKernel ==
  ASSUME Kernel, Shape
  PROVE  Kernel'
<1>1. CASE Aside BY <1>1, AsideKernel
<1>2. CASE \E t \in Task : Entered(t) \/ Left(t) \/ Stopped(t) \/ Finished(t) \/ Shed(t)
  BY <1>2, EnteredKernel, LeftKernel, StoppedKernel, FinishedKernel, ShedKernel, Zenon
<1>3. CASE \E t \in Task, lost \in BOOLEAN : Begins(t, lost, lockQ) \/ Begins(t, lost, Tail(lockQ))
  BY <1>3, BeginsKernel, Zenon
<1>4. CASE \E t \in Task, m \in {"interrupt", "answer"} : Asked(t, m)
  BY <1>4, AskedKernel, Zenon
<1> QED BY <1>1, <1>2, <1>3, <1>4 DEF Shape

\* What leaves the tasks, the turn and close() alone.
LEMMA RestingShape ==
  ASSUME Kernel, UNCHANGED <<epoch, closing, closed, closeDone, persisted, pc, mode, lockQ>>
  PROVE  Aside
BY DEF Aside, Kernel, KernelTypes

\* What a response does by itself is about the response.
LEMMA GenerateRests ==
  ASSUME NEW e \in Epoch, Generate(e)
  PROVE  UNCHANGED RespQuiet
<1>1. CASE RespOpen(e) BY <1>1, Zenon DEF RespOpen
<1>2. CASE RespLoad(e) BY <1>2, Zenon DEF RespLoad
<1>3. CASE RespClear(e) BY <1>3, Zenon DEF RespClear
<1>4. CASE RespPublish(e) BY <1>4, Zenon DEF RespPublish
<1>5. CASE RespActive(e) BY <1>5, Zenon DEF RespActive
<1>6. CASE RespPush(e) BY <1>6, Zenon DEF RespPush
<1>7. CASE RespEnd(e) BY <1>7, Zenon DEF RespEnd
<1>8. CASE RespFinish(e) BY <1>8, Zenon DEF RespFinish
<1>9. CASE RespFail(e) BY <1>9, Zenon DEF RespFail
<1>10. CASE RespCancelled(e) BY <1>10, Zenon DEF RespCancelled
<1> QED BY <1>1, <1>2, <1>3, <1>4, <1>5, <1>6, <1>7, <1>8, <1>9, <1>10, Zenon DEF Generate

LEMMA GenerateShape ==
  ASSUME Kernel, NEW e \in Epoch, Generate(e)
  PROVE  Aside /\ Apart
<1>1. UNCHANGED RespQuiet
  BY GenerateRests
<1>2. UNCHANGED <<epoch, closing, closed, closeDone, persisted, pc, mode, lockQ, body, applied,
                  again, fresh, overtaken>>
  BY <1>1 DEF RespQuiet, endVars, appVars, taskVars
<1> QED BY <1>2, RestingShape DEF Apart

\* The row and the provider go on by themselves.
LEMMA OutsideShape ==
  ASSUME Kernel, \/ \E w \in writes : Commit(w) \/ CommitFails(w)
                 \/ Revocation \/ WorkerAnswers \/ WorkerDies
  PROVE  Aside /\ Apart
<1>1. UNCHANGED <<turnVars, endVars, appVars, taskVars, history>>
  BY Zenon DEF Commit, CommitFails, Revocation, WorkerAnswers, WorkerDies
<1>2. UNCHANGED <<epoch, closing, closed, closeDone, persisted, pc, mode, lockQ, body, applied,
                  again, fresh, overtaken>>
  BY <1>1 DEF turnVars, endVars, appVars, taskVars, history
<1> QED BY <1>2, RestingShape DEF Apart

\* One task moves, neither into the queue nor out of it.
LEMMA MovingShape ==
  ASSUME Kernel, NEW t \in Task, NEW s \in TaskState, pc' = [pc EXCEPT ![t] = s],
         UNCHANGED <<epoch, closing, closed, closeDone, persisted, mode, lockQ>>,
         \/ pc[t] \in Interrupting /\ s \in Interrupting
         \/ pc[t] = "gather" /\ s = "store"
         \/ pc[t] \notin Inside \cup Ending /\ s \notin Inside \cup Ending,
         t = Prep => (s \in Preparing => pc[t] \in Preparing),
         t = Beat => pc[Beat] # "over"
  PROVE  Aside
<1>1. pc \in [Task -> TaskState]
  BY DEF Kernel, KernelTypes
<1>2. pc'[t] = s /\ \A x \in Task : x # t => pc'[x] = pc[x]
  BY <1>1
<1>3. pc' \in [Task -> TaskState]
  BY <1>1
<1>4. pc'[Prep] \in Preparing => pc[Prep] \in Preparing /\ pc'[Beat] = pc[Beat]
  BY <1>2, TasksAreSix DEF Kernel, EndSound
<1> QED BY <1>2, <1>3, <1>4 DEF Aside

LEMMA EnterShape ==
  ASSUME Kernel, NEW t \in Task, Enter(t)
  PROVE  Entered(t)
<1>1. \E s \in Interrupting : pc' = [pc EXCEPT ![t] = s]
  <2>1. CASE CancelSuspends BY <2>1 DEF Enter
  <2>2. CASE ~CancelSuspends BY <2>2 DEF Enter, CancelResponse
  <2> QED BY <2>1, <2>2
<1>2. UNCHANGED endVars /\ Granted(t) /\ ~closed /\ epoch' = epoch + 1 /\ UNCHANGED <<mode, lockQ>>
  BY DEF Enter
<1> QED BY <1>1, <1>2 DEF Entered, endVars

\* interrupt() returns to its caller.
LEMMA ReturnedShape ==
  ASSUME Kernel, NEW t \in Task, Returned(t), pc[t] \in Interrupting \/ Granted(t),
         UNCHANGED <<epoch, closing, closeDone, persisted>>
  PROVE  /\ (mode[t] = "close" /\ Stopped(t)) \/ (mode[t] # "close" /\ Left(t))
         /\ pc'[Ctl] \in Asking => pc[Ctl] \in Asking
         /\ pc'[Ctl] = "record" => pc[Ctl] \in Inside \cup {"record"}
         /\ pc'[Fin] = "asr" => pc[Fin] = "asr"
<1>1. pc \in [Task -> TaskState] /\ pc[t] \in Inside
  BY HolderIsHead DEF Kernel, KernelTypes
<1>2. CASE mode[t] = "close"
  <2>1. StopTasks(t, Tail(lockQ))
    BY <1>2 DEF Returned
  <2>2. pc' = [x \in Task |-> IF x = t THEN "gather" ELSE IF x \in Listeners \ {t} THEN "over" ELSE pc[x]]
    BY <2>1, Zenon DEF StopTasks
  <2>3. Stopped(t)
    BY <1>2, <2>1 DEF Stopped
  <2>4. /\ pc'[Ctl] \in Asking => pc[Ctl] \in Asking
        /\ pc'[Ctl] = "record" => pc[Ctl] \in Inside \cup {"record"}
        /\ pc'[Fin] = "asr" => pc[Fin] = "asr"
    BY <1>1, <2>2, TasksAreSix
  <2> QED BY <1>2, <2>3, <2>4
<1>3. CASE mode[t] # "close"
  <2>1. /\ lockQ' = Tail(lockQ) /\ UNCHANGED closed
        /\ pc' = [pc EXCEPT ![t] = IF t = Ctl THEN "record" ELSE "idle"]
        /\ mode' = [mode EXCEPT ![t] = "interrupt"]
    BY <1>3 DEF Returned
  <2>2. Left(t)
    BY <1>3, <2>1 DEF Left
  <2> QED BY <1>1, <1>3, <2>1, <2>2, TasksAreSix
<1> QED BY <1>2, <1>3

\* Why a task that is not the control's closes the session.
LEMMA BeginsApart ==
  ASSUME Kernel, NEW t \in Task, NEW lost, NEW q, Begins(t, lost, q)
  PROVE  /\ pc'[Ctl] \in Asking => pc[Ctl] \in Asking
         /\ pc'[Ctl] = "record" => pc[Ctl] \in Inside \cup {"record"}
         /\ pc'[Fin] = "asr" => pc[Fin] = "asr"
<1>1. pc \in [Task -> TaskState] /\ t # Ctl /\ Ctl # Prep /\ Fin # Prep
  BY TasksAreSix DEF Kernel, KernelTypes, Begins
<1>2. CASE closing
  <2>1. pc' = [pc EXCEPT ![t] = "await"]
    BY <1>2 DEF Begins, BeginClose
  <2> QED BY <1>1, <2>1, TasksAreSix
<1>3. CASE ~closing
  <2>1. pc' = [x \in Task |-> IF x = t THEN AtLock(q) ELSE IF x = Prep THEN "over" ELSE pc[x]]
    BY <1>3 DEF Begins, BeginClose
  <2>2. AtLock(q) # "asr"
    BY DEF AtLock
  <2> QED BY <1>1, <2>1, <2>2, TasksAreSix
<1> QED BY <1>2, <1>3

LEMMA RaisedShape ==
  ASSUME Kernel, NEW t \in Task, Raised(t), pc[t] \in Interrupting,
         UNCHANGED <<epoch, closeDone, persisted>>
  PROVE  /\ \/ Stopped(t) \/ Left(t)
            \/ t # Ctl /\ mode[t] # "close" /\ Begins(t, FALSE, Tail(lockQ))
         /\ pc'[Ctl] \in Asking => pc[Ctl] \in Asking
         /\ pc'[Ctl] = "record" => pc[Ctl] \in Inside \cup {"record"}
         /\ pc'[Fin] = "asr" => pc[Fin] = "asr"
<1>1. pc \in [Task -> TaskState]
  BY DEF Kernel, KernelTypes
<1>2. CASE mode[t] = "close"
  <2>1. StopTasks(t, Tail(lockQ)) /\ UNCHANGED closing
    BY <1>2 DEF Raised
  <2>2. pc' = [x \in Task |-> IF x = t THEN "gather" ELSE IF x \in Listeners \ {t} THEN "over" ELSE pc[x]]
    BY <2>1, Zenon DEF StopTasks
  <2>3. Stopped(t)
    BY <1>2, <2>1 DEF Stopped
  <2> QED BY <1>1, <1>2, <2>2, <2>3, TasksAreSix
<1>3. CASE mode[t] # "close" /\ t = Ctl
  <2>1. /\ lockQ' = Tail(lockQ) /\ UNCHANGED <<closing, closed>>
        /\ pc' = [pc EXCEPT ![t] = "idle"]
        /\ mode' = [mode EXCEPT ![t] = "interrupt"]
    BY <1>3 DEF Raised
  <2>2. Left(t)
    BY <1>3, <2>1 DEF Left
  <2> QED BY <1>1, <1>3, <2>1, <2>2, TasksAreSix
<1>4. CASE mode[t] # "close" /\ t # Ctl
  <2>1. BeginClose(t, FALSE, Tail(lockQ)) /\ UNCHANGED closed
    BY <1>4 DEF Raised
  <2>2. Begins(t, FALSE, Tail(lockQ))
    BY <1>4, <2>1 DEF Begins
  <2> QED BY <1>4, <2>2, BeginsApart
<1> QED BY <1>2, <1>3, <1>4

\* A listener, the preparation or a caller closes the session.
LEMMA FailsShape ==
  ASSUME Kernel, NEW t \in Task, NEW lost, t # Ctl, pc[t] \notin Inside \cup Ending, Fails(t, lost)
  PROVE  Begins(t, lost, lockQ) /\ Apart
<1>1. /\ BeginClose(t, lost, lockQ)
      /\ UNCHANGED <<turnVars, ready, closed, closeDone, persisted, appVars, history>>
  BY Zenon DEF Fails
<1>2. Begins(t, lost, lockQ)
  BY <1>1 DEF Begins, turnVars
<1>3. UNCHANGED <<epoch, body, applied, again, fresh, overtaken>>
  BY <1>1 DEF turnVars, appVars, history
<1> QED BY <1>2, <1>3, BeginsApart DEF Apart

LEMMA InterruptShape ==
  ASSUME Kernel, NEW t \in Task, Interrupt(t)
  PROVE  /\ Aside \/ Left(t) \/ Stopped(t) \/ (mode[t] # "close" /\ Begins(t, FALSE, Tail(lockQ)))
         /\ Apart
<1>1. ASSUME TtsCancelled(t) PROVE Aside /\ Apart
  <2>1. \E s \in {"media", "reap"} : pc' = [pc EXCEPT ![t] = s]
    BY <1>1 DEF TtsCancelled, CancelResponse
  <2>2. UNCHANGED <<turnVars, endVars, appVars, mode, lockQ, history>> /\ pc[t] = "tts"
    BY <1>1, Zenon DEF TtsCancelled
  <2>3. UNCHANGED <<epoch, closing, closed, closeDone, persisted, body, applied, again, fresh, overtaken>>
    BY <2>2 DEF turnVars, endVars, appVars, history
  <2>4. pc \in [Task -> TaskState]
    BY DEF Kernel, KernelTypes
  <2>5. PICK s \in {"media", "reap"} : pc' = [pc EXCEPT ![t] = s]
    BY <2>1
  <2>6. Aside
    BY <2>2, <2>3, <2>5, MovingShape DEF TaskState
  <2> QED BY <2>3, <2>4, <2>5, <2>6, TasksAreSix DEF Apart
<1>2. ASSUME Reaped(t) PROVE Aside /\ Apart
  <2>1. pc' = [pc EXCEPT ![t] = "media"]
    BY <1>2 DEF Reaped
  <2>2. UNCHANGED <<turnVars, endVars, appVars, mode, lockQ, history>> /\ pc[t] = "reap"
    BY <1>2, Zenon DEF Reaped
  <2>3. UNCHANGED <<epoch, closing, closed, closeDone, persisted, body, applied, again, fresh, overtaken>>
    BY <2>2 DEF turnVars, endVars, appVars, history
  <2>4. pc \in [Task -> TaskState]
    BY DEF Kernel, KernelTypes
  <2>5. Aside
    BY <2>1, <2>2, <2>3, MovingShape DEF TaskState
  <2> QED BY <2>1, <2>3, <2>4, <2>5, TasksAreSix DEF Apart
<1>3. ASSUME MediaCancelled(t) PROVE Aside /\ Apart
  <2>1. pc' = [pc EXCEPT ![t] = "persist"]
    BY <1>3 DEF MediaCancelled
  <2>2. UNCHANGED <<turnVars, endVars, appVars, mode, lockQ, history>> /\ pc[t] = "media"
    BY <1>3, Zenon DEF MediaCancelled
  <2>3. UNCHANGED <<epoch, closing, closed, closeDone, persisted, body, applied, again, fresh, overtaken>>
    BY <2>2 DEF turnVars, endVars, appVars, history
  <2>4. pc \in [Task -> TaskState]
    BY DEF Kernel, KernelTypes
  <2>5. Aside
    BY <2>1, <2>2, <2>3, MovingShape DEF TaskState
  <2> QED BY <2>1, <2>3, <2>4, <2>5, TasksAreSix DEF Apart
<1>4. ASSUME TtsCancelRaises(t) \/ MediaCancelRaises(t)
      PROVE  /\ Left(t) \/ Stopped(t) \/ (mode[t] # "close" /\ Begins(t, FALSE, Tail(lockQ)))
             /\ Apart
  <2>1. /\ UNCHANGED <<turnVars, closeDone, persisted, appVars, history>> /\ Raised(t)
        /\ pc[t] \in Interrupting
    BY <1>4, Zenon DEF TtsCancelRaises, MediaCancelRaises
  <2>2. UNCHANGED <<epoch, closeDone, persisted, body, applied, again, fresh, overtaken>>
    BY <2>1 DEF turnVars, appVars, history
  <2> QED BY <2>1, <2>2, RaisedShape DEF Apart
<1>5. ASSUME Persisted(t)
      PROVE  /\ Left(t) \/ Stopped(t) \/ (mode[t] # "close" /\ Begins(t, FALSE, Tail(lockQ)))
             /\ Apart
  <2>1. UNCHANGED <<epoch, fresh, closeDone, persisted, appVars, overtaken, applied, again>> /\ pc[t] = "persist"
    BY <1>5, Zenon DEF Persisted
  <2>2. UNCHANGED <<epoch, closeDone, persisted, body, applied, again, fresh, overtaken>>
    BY <2>1 DEF appVars
  <2>3. (Returned(t) /\ UNCHANGED closing) \/ (Raised(t) /\ mode[t] # "close")
    BY <1>5, Zenon DEF Persisted
  <2> QED BY <2>1, <2>2, <2>3, ReturnedShape, RaisedShape DEF Apart
<1> QED BY <1>1, <1>2, <1>3, <1>4, <1>5 DEF Interrupt

LEMMA CloseShape ==
  ASSUME Kernel, NEW t \in Task, Close(t)
  PROVE  (Aside \/ Finished(t)) /\ Apart
<1> USE DEF endVars, appVars, history, turnVars
<1>0. pc \in [Task -> TaskState]
  BY DEF Kernel, KernelTypes
<1>1. ASSUME Gathered(t) PROVE Aside /\ Apart
  <2>1. /\ pc' = [pc EXCEPT ![t] = "store"] /\ pc[t] = "gather"
        /\ UNCHANGED <<epoch, closing, closed, closeDone, persisted, mode, lockQ,
                       body, applied, again, fresh, overtaken>>
    BY <1>1, Zenon DEF Gathered
  <2>2. Aside
    <3>2. \A x \in Task : x # t => pc'[x] = pc[x]
      BY <2>1, <1>0
    <3>3. pc'[t] = "store" /\ pc' \in [Task -> TaskState]
      BY <2>1, <1>0 DEF TaskState
    <3>4. pc[Prep] \in Preparing => pc[Beat] = "over"
      BY DEF Kernel, EndSound
    <3> QED BY <2>1, <3>2, <3>3, <3>4, TasksAreSix DEF Aside
  <2> QED BY <2>1, <2>2, <1>0, TasksAreSix DEF Apart
<1>2. ASSUME Stored(t) PROVE Finished(t) /\ Apart
  <2>1. /\ pc[t] = "store" /\ closeDone' = TRUE /\ persisted' = (result[t] = "ok")
        /\ pc' = [pc EXCEPT ![t] = IF t = Out THEN "idle" ELSE "over"]
        /\ UNCHANGED <<epoch, closing, closed, mode, lockQ, body, applied, again, fresh, overtaken>>
    BY <1>2, Zenon DEF Stored, Told
  <2>2. Finished(t)
    BY <2>1 DEF Finished
  <2> QED BY <2>1, <2>2, <1>0, TasksAreSix DEF Apart
<1>3. ASSUME Awaited(t) PROVE Aside /\ Apart
  <2>1. /\ pc[t] = "await"
        /\ pc' = [pc EXCEPT ![t] = IF t = Out THEN "idle" ELSE "over"]
        /\ UNCHANGED <<epoch, closing, closed, closeDone, persisted, mode, lockQ,
                       body, applied, again, fresh, overtaken>>
    BY <1>3, Zenon DEF Awaited, Told
  <2>2. PICK s \in {"idle", "over"} : pc' = [pc EXCEPT ![t] = s]
    BY <2>1
  <2>3. Aside
    BY <2>1, <2>2, MovingShape DEF TaskState
  <2> QED BY <2>1, <2>3, <1>0, TasksAreSix DEF Apart
<1> QED BY <1>1, <1>2, <1>3 DEF Close

LEMMA EnterClosedShape ==
  ASSUME Kernel, NEW t \in Task, EnterClosed(t)
  PROVE  mode[t] # "close" /\ Left(t) /\ Apart
<1>1. /\ Granted(t) /\ closed /\ Returned(t)
      /\ UNCHANGED <<epoch, fresh, closing, closeDone, persisted, appVars, history>>
  BY Zenon DEF EnterClosed
<1>2. UNCHANGED <<epoch, body, applied, again, fresh, overtaken>>
  BY <1>1 DEF appVars, history
<1>3. mode[t] # "close"
  BY <1>1, HolderIsHead DEF Kernel, EndSound
<1> QED BY <1>1, <1>2, <1>3, ReturnedShape DEF Apart

\* The application, the preparation and the heartbeat.
LEMMA ServiceShape ==
  ASSUME Kernel, CloseCall \/ Reap \/ FenceMedia \/ PrepSteps \/ PrepFails \/ BeatSteps
  PROVE  /\ Aside \/ \E t \in {Out, Prep, Beat}, lost \in BOOLEAN : Begins(t, lost, lockQ)
         /\ Apart
<1> USE DEF endVars, appVars, history, turnVars, taskVars
<1>0. pc \in [Task -> TaskState]
  BY DEF Kernel, KernelTypes
<1>1. ASSUME CloseCall PROVE (Aside \/ Begins(Out, FALSE, lockQ)) /\ Apart
  <2>1. CASE Fails(Out, FALSE)
    <3>1. pc[Out] = "idle"
      BY <1>1 DEF CloseCall
    <3> QED BY <2>1, <3>1, FailsShape, TasksAreSix
  <2>2. CASE ~Fails(Out, FALSE)
    <3>1. UNCHANGED <<turnVars, endVars, body, taskVars, history>>
      BY <1>1, <2>2, Zenon DEF CloseCall
    <3> QED BY <3>1, RestingShape DEF Apart
  <2> QED BY <2>1, <2>2
<1>2. ASSUME Reap \/ FenceMedia PROVE Aside /\ Apart
  <2>1. UNCHANGED <<turnVars, closing, closed, closeDone, persisted, body, taskVars, history>>
    BY <1>2, Zenon DEF Reap, FenceMedia
  <2> QED BY <2>1, RestingShape DEF Apart
<1>3. ASSUME PrepSteps PROVE Aside /\ Apart
  <2>1. UNCHANGED <<turnVars, closing, closed, closeDone, persisted, appVars, mode, lockQ, history>>
    BY <1>3, Zenon DEF PrepSteps
  <2>2. \/ pc[Prep] = "open" /\ pc' = [pc EXCEPT ![Prep] = "connect"]
        \/ pc[Prep] = "connect" /\ pc' = [pc EXCEPT ![Prep] = "write"]
        \/ /\ pc[Prep] = "write"
           /\ pc' = [pc EXCEPT ![Prep] = "over", ![Beat] = IF WithLease THEN "idle" ELSE @]
    BY <1>3, Zenon DEF PrepSteps
  <2>3. CASE \E s \in {"connect", "write"} : pc[Prep] \in Preparing /\ pc' = [pc EXCEPT ![Prep] = s]
    <3>1. PICK s \in {"connect", "write"} : pc[Prep] \in Preparing /\ pc' = [pc EXCEPT ![Prep] = s]
      BY <2>3
    <3>2. Aside
      BY <2>1, <3>1, MovingShape, TasksAreSix DEF TaskState
    <3> QED BY <2>1, <3>1, <3>2, <1>0, TasksAreSix DEF Apart
  <2>4. CASE /\ pc[Prep] = "write"
             /\ pc' = [pc EXCEPT ![Prep] = "over", ![Beat] = IF WithLease THEN "idle" ELSE @]
    <3>1. pc[Beat] = "over"
      BY <2>4 DEF Kernel, EndSound
    <3>2. /\ pc'[Prep] = "over" /\ pc'[Beat] \in {"over", "idle"}
          /\ \A x \in Task : x \notin {Prep, Beat} => pc'[x] = pc[x]
      BY <2>4, <3>1, <1>0, TasksAreSix
    <3>3. pc' \in [Task -> TaskState]
      BY <2>4, <3>1, <1>0, TasksAreSix DEF TaskState
    <3>4. Aside
      BY <2>1, <2>4, <3>1, <3>2, <3>3 DEF Aside
    <3> QED BY <2>1, <3>2, <3>4, TasksAreSix DEF Apart
  <2> QED BY <2>2, <2>3, <2>4
<1>4. ASSUME PrepFails PROVE Begins(Prep, FALSE, lockQ) /\ Apart
  <2>1. Fails(Prep, FALSE) /\ pc[Prep] \in Preparing
    BY <1>4, Zenon DEF PrepFails
  <2> QED BY <2>1, FailsShape, TasksAreSix
<1>5. ASSUME BeatSteps PROVE (Aside \/ \E lost \in BOOLEAN : Begins(Beat, lost, lockQ)) /\ Apart
  <2>1. CASE \E lost \in BOOLEAN : Fails(Beat, lost) /\ pc[Beat] \in {"idle", "write"}
    BY <2>1, FailsShape, TasksAreSix
  <2>2. CASE /\ pc[Beat] \in {"idle", "write"}
             /\ \E s \in {"over", "write", "idle"} : pc' = [pc EXCEPT ![Beat] = s]
             /\ UNCHANGED <<turnVars, endVars, appVars, mode, lockQ, history>>
    <3>1. PICK s \in {"over", "write", "idle"} : pc' = [pc EXCEPT ![Beat] = s]
      BY <2>2
    <3>2. UNCHANGED <<epoch, closing, closed, closeDone, persisted, mode, lockQ>>
      BY <2>2
    <3>3. Aside
      BY <2>2, <3>1, <3>2, MovingShape, TasksAreSix DEF TaskState
    <3> QED BY <2>2, <3>1, <3>3, <1>0, TasksAreSix DEF Apart
  <2> QED BY <1>5, <2>1, <2>2, Zenon DEF BeatSteps
<1> QED BY <1>1, <1>2, <1>3, <1>4, <1>5, Zenon

\* The task of x is cancelled.
LEMMA DroppedShape ==
  ASSUME Kernel, NEW x \in {Mic, Fin}, NEW then \in {"over", "idle", "asr"}, Dropped(x, then)
  PROVE  /\ Shed(x)
         /\ UNCHANGED <<epoch, body, applied, again>>
         /\ pc' = [pc EXCEPT ![x] = then]
<1>1. /\ pc' = [pc EXCEPT ![x] = then] /\ lockQ' = Without(lockQ, x)
      /\ mode' = [mode EXCEPT ![x] = "interrupt"]
      /\ closed' = (closed \/ Cut(x)) /\ closeDone' = (closeDone \/ Cut(x))
      /\ UNCHANGED <<epoch, closing, persisted, appVars, applied, again>>
  BY Zenon DEF Dropped
<1> QED BY <1>1, Zenon DEF Shed, appVars

\* The user speaks into the answer.
LEMMA BargeInShape ==
  ASSUME Kernel, BargeIn
  PROVE  Asked(Mic, "interrupt") /\ Apart /\ responding
<1> USE DEF endVars, appVars, history, turnVars
<1>1. /\ pc[Mic] = "idle" /\ Room /\ Ask(Mic, "interrupt") /\ responding
      /\ UNCHANGED <<turnVars, endVars, appVars, history>>
  BY Zenon DEF BargeIn
<1>2. Asked(Mic, "interrupt")
  BY <1>1 DEF Asked
<1>3. \A x \in Task : x # Mic => pc'[x] = pc[x]
  BY <1>2, AskedQueue, TasksAreSix
<1> QED BY <1>1, <1>2, <1>3, TasksAreSix DEF Apart

\* The microphone.
LEMMA ListenShape ==
  ASSUME Kernel, Subscribe \/ MicFails \/ TranscribeFails
  PROVE  /\ Shed(Mic) \/ \E t \in {Mic, Fin} : Begins(t, FALSE, lockQ)
         /\ Apart
<1> USE DEF endVars, appVars, history, turnVars, taskVars
<1>0. pc \in [Task -> TaskState]
  BY DEF Kernel, KernelTypes
<1>1. ASSUME Subscribe PROVE Shed(Mic) /\ Apart
  <2>1. PICK s \in {"over", "idle", "asr"} : Dropped(Mic, s) /\ s # "asr"
    BY <1>1, Zenon DEF Subscribe
  <2>2. UNCHANGED <<fresh, overtaken>>
    BY <1>1, Zenon DEF Subscribe
  <2>3. Shed(Mic) /\ UNCHANGED <<epoch, body, applied, again>> /\ pc' = [pc EXCEPT ![Mic] = s]
    BY <2>1, DroppedShape
  <2> QED BY <2>2, <2>3, <1>0, TasksAreSix DEF Apart
<1>2. ASSUME MicFails PROVE Begins(Mic, FALSE, lockQ) /\ Apart
  <2>1. Fails(Mic, FALSE) /\ pc[Mic] = "idle"
    BY <1>2, Zenon DEF MicFails
  <2> QED BY <2>1, FailsShape, TasksAreSix
<1>3. ASSUME TranscribeFails PROVE Begins(Fin, FALSE, lockQ) /\ Apart
  <2>1. Fails(Fin, FALSE) /\ pc[Fin] = "asr"
    BY <1>3, Zenon DEF TranscribeFails
  <2> QED BY <2>1, FailsShape, TasksAreSix
<1> QED BY <1>1, <1>2, <1>3

LEMMA EndpointShape ==
  ASSUME Kernel, Endpoint
  PROVE  /\ Shed(Fin) /\ UNCHANGED <<epoch, body, applied, again>>
         /\ pc' = [pc EXCEPT ![Fin] = "asr"] /\ fresh' = TRUE /\ overtaken' = FALSE
         /\ pc[Mic] = "idle" /\ ~closed
<1>1. Dropped(Fin, "asr") /\ fresh' = TRUE /\ overtaken' = FALSE /\ pc[Mic] = "idle" /\ ~closed
  BY Zenon DEF Endpoint
<1> QED BY <1>1, DroppedShape

LEMMA UserSpeaksShape ==
  ASSUME Kernel, UserSpeaks
  PROVE  /\ Aside /\ fresh' = FALSE
         /\ UNCHANGED <<epoch, body, applied, again, overtaken, pc, mode, lockQ, closing>>
<1>1. fresh' = FALSE /\ UNCHANGED <<epoch, endVars, appVars, taskVars, history>>
  BY Zenon DEF UserSpeaks
<1>2. UNCHANGED <<epoch, closing, closed, closeDone, persisted, pc, mode, lockQ,
                  body, applied, again, overtaken>>
  BY <1>1 DEF endVars, appVars, taskVars, history
<1> QED BY <1>1, <1>2, RestingShape

\* A transcript is answered, or dropped.
LEMMA TranscribedShape ==
  ASSUME Kernel, Transcribed
  PROVE  /\ UNCHANGED <<epoch, body, applied, again, fresh>> /\ pc[Fin] = "asr" /\ LockSettled
         /\ \/ /\ Asked(Fin, "answer") /\ fresh /\ ~closing /\ ~closed /\ UNCHANGED overtaken
            \/ /\ Aside /\ pc' = [pc EXCEPT ![Fin] = "idle"] /\ overtaken' = FALSE
               /\ UNCHANGED <<lockQ, mode>>
<1> USE DEF endVars, appVars, turnVars
<1>1. /\ UNCHANGED <<turnVars, endVars, appVars, applied, again>> /\ pc[Fin] = "asr" /\ LockSettled
      /\ \/ fresh /\ CanAnswer /\ Room /\ Ask(Fin, "answer") /\ UNCHANGED overtaken
         \/ /\ pc' = [pc EXCEPT ![Fin] = "idle"]
            /\ overtaken' = FALSE /\ UNCHANGED <<mode, lockQ>>
  BY Zenon DEF Transcribed
<1>2. CASE fresh /\ CanAnswer /\ Room /\ Ask(Fin, "answer") /\ UNCHANGED overtaken
  BY <1>1, <1>2, TasksAreSix DEF Asked, CanAnswer
<1>3. CASE /\ pc' = [pc EXCEPT ![Fin] = "idle"]
           /\ overtaken' = FALSE /\ UNCHANGED <<mode, lockQ>>
  BY <1>1, <1>3, MovingShape, TasksAreSix DEF TaskState
<1> QED BY <1>1, <1>2, <1>3

LEMMA ControlCallShape ==
  ASSUME Kernel, ControlCall
  PROVE  Aside /\ Apart
<1> USE DEF endVars, appVars, turnVars, history
<1>1. /\ pc[Ctl] = "over" /\ pc' = [pc EXCEPT ![Ctl] = "idle"]
      /\ UNCHANGED <<turnVars, endVars, appVars, mode, lockQ, history>>
  BY Zenon DEF ControlCall
<1>2. Aside
  BY <1>1, MovingShape, TasksAreSix DEF TaskState
<1>3. pc \in [Task -> TaskState]
  BY DEF Kernel, KernelTypes
<1> QED BY <1>1, <1>2, <1>3, TasksAreSix DEF Apart

\* A control asks for its interrupt, or is only recorded.
LEMMA ControlShape ==
  ASSUME Kernel, NEW b \in Body, Control(b)
  PROVE  /\ UNCHANGED <<epoch, applied, again, fresh, overtaken>>
         /\ body' = b /\ b.expected = epoch
         /\ \/ Asked(Ctl, "interrupt")
            \/ Asked(Ctl, "answer") /\ ~closing /\ ~closed
            \/ Aside /\ pc' = [pc EXCEPT ![Ctl] = "record"] /\ UNCHANGED <<lockQ, mode>>
<1> USE DEF endVars, turnVars, history
<1>1. /\ pc[Ctl] = "idle" /\ Admissible(b) /\ Room /\ body' = b
      /\ UNCHANGED <<turnVars, endVars, history>>
      /\ \/ Ask(Ctl, "interrupt")
         \/ CanAnswer /\ Ask(Ctl, "answer")
         \/ pc' = [pc EXCEPT ![Ctl] = "record"] /\ UNCHANGED <<mode, lockQ>>
  BY Zenon DEF Control
<1>2. b.expected = epoch
  BY <1>1 DEF Admissible
<1>3. CASE Ask(Ctl, "interrupt")
  BY <1>1, <1>2, <1>3, TasksAreSix DEF Asked
<1>4. CASE CanAnswer /\ Ask(Ctl, "answer")
  BY <1>1, <1>2, <1>4, TasksAreSix DEF Asked, CanAnswer
<1>5. CASE pc' = [pc EXCEPT ![Ctl] = "record"] /\ UNCHANGED <<mode, lockQ>>
  BY <1>1, <1>2, <1>5, MovingShape, TasksAreSix DEF TaskState
<1> QED BY <1>1, <1>3, <1>4, <1>5

LEMMA RecordShape ==
  ASSUME Kernel, Record
  PROVE  /\ UNCHANGED <<epoch, applied, again, fresh, overtaken, lockQ, mode>> /\ pc[Ctl] = "record"
         /\ Aside /\ pc' = [pc EXCEPT ![Ctl] = "idle"]
<1> USE DEF endVars, turnVars, history
<1>1. /\ pc[Ctl] = "record" /\ pc' = [pc EXCEPT ![Ctl] = "idle"]
      /\ UNCHANGED <<turnVars, endVars, mode, lockQ, history>>
  BY Zenon DEF Record
<1>2. Aside
  BY <1>1, MovingShape, TasksAreSix DEF TaskState
<1> QED BY <1>1, <1>2

\* What leaves the floor to its holder and asks for nothing.
Passing ==
  \/ Aside
  \/ \E t \in Task : Left(t) \/ Stopped(t) \/ Finished(t) \/ Shed(t)
  \/ \E t \in Task, lost \in BOOLEAN : Begins(t, lost, lockQ) \/ Begins(t, lost, Tail(lockQ))

\* Every step, by what it does to the tasks.
LEMMA NextShape ==
  ASSUME Kernel, [Next]_vars
  PROVE  \/ Apart /\ Passing
         \/ BargeIn /\ Apart
         \/ \E t \in Task : Enter(t)
         \/ Endpoint \/ UserSpeaks \/ (Transcribed /\ LoopFree) \/ Record
         \/ \E b \in Body : Control(b)
<1> HIDE DEF Inside, Holding, Ending, Preparing, Asking, Interrupting
<1> USE DEF Passing
<1>1. CASE UNCHANGED vars
  <2>1. UNCHANGED <<epoch, closing, closed, closeDone, persisted, pc, mode, lockQ, body, applied,
                    again, fresh, overtaken>>
    BY <1>1, Zenon DEF vars, turnVars, endVars, appVars, taskVars, history
  <2> QED BY <2>1, RestingShape DEF Apart
<1>2. CASE \E t \in Task : Enter(t) \/ EnterClosed(t)
  <2>1. PICK t \in Task : Enter(t) \/ EnterClosed(t)
    BY <1>2
  <2> QED BY <2>1, EnterClosedShape, Zenon
<1>3. CASE \E e \in Epoch : Generate(e)
  BY <1>3, GenerateShape, Zenon
<1>4. CASE LoopFree /\ Tasks
  <2>1. CASE \E t \in Task : Close(t) \/ Interrupt(t)
    <3>1. PICK t \in Task : Close(t) \/ Interrupt(t)
      BY <2>1
    <3> QED BY <3>1, CloseShape, InterruptShape, Zenon
  <2>2. CASE CloseCall \/ Reap \/ FenceMedia \/ PrepSteps \/ PrepFails \/ BeatSteps
    <3>1. Aside \/ \E t \in {Out, Prep, Beat}, lost \in BOOLEAN : Begins(t, lost, lockQ)
      BY <2>2, ServiceShape, Zenon
    <3>2. Apart
      BY <2>2, ServiceShape, Zenon
    <3> QED BY <3>1, <3>2, TasksAreSix
  <2>3. CASE Subscribe \/ MicFails \/ TranscribeFails
    <3>1. \/ Shed(Mic) \/ \E t \in {Mic, Fin} : Begins(t, FALSE, lockQ)
      BY <2>3, ListenShape, Zenon
    <3>2. Apart
      BY <2>3, ListenShape, Zenon
    <3> QED BY <3>1, <3>2, TasksAreSix
  <2>4. CASE BargeIn
    BY <2>4, BargeInShape, Zenon
  <2>5. CASE ControlCall
    BY <2>5, ControlCallShape, Zenon
  <2> QED BY <1>4, <2>1, <2>2, <2>3, <2>4, <2>5, Zenon DEF Tasks
<1>5. CASE (\E w \in writes : Commit(w) \/ CommitFails(w)) \/ Revocation \/ WorkerAnswers \/ WorkerDies
  BY <1>5, OutsideShape, Zenon
<1> QED BY <1>1, <1>2, <1>3, <1>4, <1>5, Zenon DEF Next

LEMMA NextIsShape ==
  ASSUME Kernel, [Next]_vars
  PROVE  Shape
<1> HIDE DEF Inside, Holding, Ending, Preparing, Asking, Interrupting
<1> USE DEF Shape
<1>1. CASE Passing BY <1>1, Zenon DEF Passing
<1>2. CASE BargeIn
  BY <1>2, BargeInShape, TasksAreSix
<1>3. CASE \E t \in Task : Enter(t) BY <1>3, EnterShape, Zenon
<1>4. CASE Endpoint BY <1>4, EndpointShape, TasksAreSix, Zenon
<1>5. CASE UserSpeaks BY <1>5, UserSpeaksShape, Zenon
<1>6. CASE Transcribed
  <2>1. Aside \/ Asked(Fin, "answer")
    BY <1>6, TranscribedShape, Zenon
  <2> QED BY <2>1, TasksAreSix
<1>7. CASE \E b \in Body : Control(b)
  <2>1. PICK b \in Body : Control(b)
    BY <1>7
  <2>2. Aside \/ Asked(Ctl, "answer") \/ Asked(Ctl, "interrupt")
    BY <2>1, ControlShape, Zenon
  <2> QED BY <2>2, TasksAreSix
<1>8. CASE Record BY <1>8, RecordShape, Zenon
<1> QED BY NextShape, <1>1, <1>2, <1>3, <1>4, <1>5, <1>6, <1>7, <1>8, Zenon

LEMMA KernelInit ==
  ASSUME Init
  PROVE  Kernel
<1>1. KernelTypes
  <2>1. lockQ \in Seq(Task)
    BY EmptySeq DEF Init
  <2>2. epoch \in Epoch
    BY MaxEpochIsNumber DEF Init, Epoch
  <2>3. pc \in [Task -> TaskState] /\ mode \in [Task -> {"interrupt", "answer", "close"}]
    BY DEF Init, TaskState
  <2> QED BY <2>1, <2>2, <2>3 DEF Init, KernelTypes
<1>2. QueueSound
  BY TasksAreSix DEF Init, QueueSound, Distinct, In, Before
<1>3. RoomLeft
  <2>1. {t \in Task : pc[t] \in Asking} = {}
    BY DEF Init
  <2>2. Cardinality({t \in Task : pc[t] \in Asking}) = 0
    BY <2>1, FS_EmptySet
  <2>3. epoch = 0 /\ closing = FALSE
    BY DEF Init
  <2> QED BY <2>2, <2>3, MaxEpochIsNumber DEF RoomLeft
<1>4. EndSound
  BY TasksAreSix DEF Init, EndSound
<1> QED BY <1>1, <1>2, <1>3, <1>4 DEF Kernel

\* The holder of generation_lock, those who wait for it and the one that closes are
\* who they should be, and no turn is begun that has no epoch (interrupt, close).
THEOREM KernelHolds == Spec => []Kernel
<1>1. Init => Kernel
  BY KernelInit
<1>2. Kernel /\ [Next]_vars => Kernel'
  BY NextIsShape, ShapeKernel
<1> QED BY <1>1, <1>2, PTL DEF Spec

\* Only the head of the queue that begins its interrupt becomes one that interrupts.
LEMMA NewHolder ==
  ASSUME Kernel, Shape, NEW x \in Task, pc'[x] \in Interrupting
  PROVE  pc[x] \in Interrupting \/ Entered(x)
<1>0. pc \in [Task -> TaskState]
  BY DEF Kernel, KernelTypes
<1>1. CASE Aside
  BY <1>1 DEF Aside
<1>2. ASSUME NEW t \in Task, Entered(t) PROVE pc[x] \in Interrupting \/ Entered(x)
  <2>1. PICK s \in Interrupting : pc' = [pc EXCEPT ![t] = s]
    BY <1>2 DEF Entered
  <2>2. CASE x = t BY <2>2, <1>2
  <2>3. CASE x # t BY <2>1, <2>3, <1>0
  <2> QED BY <2>2, <2>3
<1>3. ASSUME NEW t \in Task, Left(t) PROVE pc[x] \in Interrupting
  BY <1>3, <1>0 DEF Left
<1>4. ASSUME NEW t \in Task, Stopped(t) PROVE pc[x] \in Interrupting
  BY <1>4, <1>0, StoppedQueue
<1>5. ASSUME NEW t \in Task, Finished(t) PROVE pc[x] \in Interrupting
  BY <1>5, <1>0 DEF Finished
<1>6. ASSUME NEW t \in Task, Shed(t) PROVE pc[x] \in Interrupting
  BY <1>6, <1>0 DEF Shed
<1>7. ASSUME NEW t \in Task, NEW lost, NEW q, Begins(t, lost, q) PROVE pc[x] \in Interrupting
  <2>1. AtLock(q) \notin Interrupting
    BY DEF AtLock
  <2> QED BY <1>7, <2>1, <1>0 DEF Begins, BeginClose
<1>8. ASSUME NEW t \in Task, NEW m \in {"interrupt", "answer"}, Asked(t, m) PROVE pc[x] \in Interrupting
  <2>1. pc'[t] \in Asking /\ \A y \in Task : y # t => pc'[y] = pc[y]
    BY <1>8, AskedQueue
  <2> QED BY <2>1
<1> QED BY <1>1, <1>2, <1>3, <1>4, <1>5, <1>6, <1>7, <1>8 DEF Shape

-----------------------------------------------------------------------------
(* Controls                                                                *)

\* What was applied was applied in an epoch that is over; a control that still asks
\* has not been.
ControlSound ==
  /\ pc[Ctl] \in Inside \cup {"record"} => body \in Body
  /\ applied \subseteq Body /\ \A b \in applied : b.expected < epoch
  /\ pc[Ctl] \in Asking => body \notin applied /\ body.expected <= epoch
  /\ again = FALSE

LEMMA ControlStep ==
  ASSUME Kernel, Kernel', ControlSound, [Next]_vars
  PROVE  ControlSound'
<1>0. /\ pc \in [Task -> TaskState] /\ epoch \in Nat
      /\ \A b \in Body : b.expected \in Nat
  BY DEF Kernel, KernelTypes, Epoch, Body
<1>1. CASE Apart
  <2>1. pc'[Ctl] \in Inside => pc[Ctl] \in Inside
    <3>1. ~Entered(Ctl)
      BY <1>0, <1>1 DEF Entered, Apart
    <3> QED BY <3>1, <1>1, NextIsShape, NewHolder, TasksAreSix DEF Apart
  <2> QED BY <1>1, <2>1 DEF Apart, ControlSound
<1>2. ASSUME NEW t \in Task, Enter(t) PROVE ControlSound'
  <2>1. /\ epoch' = epoch + 1 /\ body' = body /\ pc[t] \in Asking
        /\ applied' = IF t = Ctl THEN applied \cup {body} ELSE applied
        /\ again' = (again \/ (t = Ctl /\ body \in applied))
    BY <1>2 DEF Enter, appVars, Granted
  <2>2. PICK s \in Interrupting : pc' = [pc EXCEPT ![t] = s]
    BY <1>2, EnterShape DEF Entered
  <2>3. CASE t = Ctl
    <3>1. pc'[Ctl] \in Interrupting /\ pc[Ctl] \in Asking
      BY <2>1, <2>2, <2>3, <1>0, TasksAreSix
    <3>2. body \in Body /\ body \notin applied /\ body.expected <= epoch /\ again = FALSE
      BY <3>1 DEF ControlSound
    <3>3. applied' \subseteq Body /\ \A b \in applied' : b.expected < epoch'
      BY <2>1, <2>3, <3>2, <1>0 DEF ControlSound
    <3>4. again' = FALSE /\ body' \in Body
      BY <2>1, <3>2
    <3> QED BY <3>1, <3>3, <3>4 DEF ControlSound
  <2>4. CASE t # Ctl
    <3>1. pc'[Ctl] = pc[Ctl] /\ applied' = applied
      BY <2>1, <2>2, <2>4, <1>0, TasksAreSix
    <3>2. again' = FALSE
      BY <2>1, <2>4 DEF ControlSound
    <3> QED BY <2>1, <3>1, <3>2, <1>0 DEF ControlSound
  <2> QED BY <2>3, <2>4
<1>3. CASE Endpoint
  <2>1. pc'[Ctl] = pc[Ctl] /\ UNCHANGED <<epoch, body, applied, again>>
    BY <1>3, <1>0, EndpointShape, TasksAreSix
  <2> QED BY <2>1 DEF ControlSound
<1>4. CASE UserSpeaks
  BY <1>4, UserSpeaksShape DEF ControlSound
<1>5. CASE Transcribed
  <2>1. UNCHANGED <<epoch, body, applied, again>>
    BY <1>5, TranscribedShape
  <2>2. CASE Asked(Fin, "answer")
    BY <2>1, <2>2, AskedQueue, TasksAreSix DEF ControlSound
  <2>3. CASE pc' = [pc EXCEPT ![Fin] = "idle"]
    BY <2>1, <2>3, <1>0, TasksAreSix DEF ControlSound
  <2> QED BY <1>5, <2>2, <2>3, TranscribedShape
<1>6. CASE Record
  <2>1. pc'[Ctl] = "idle" /\ UNCHANGED <<epoch, applied, again>>
    BY <1>6, <1>0, RecordShape, TasksAreSix
  <2> QED BY <2>1 DEF ControlSound
<1>7. ASSUME NEW b \in Body, Control(b) PROVE ControlSound'
  <2>1. UNCHANGED <<epoch, applied, again>> /\ body' = b /\ b.expected = epoch
    BY <1>7, ControlShape
  <2>2. b \notin applied
    BY <2>1, <1>0 DEF ControlSound
  <2> QED BY <2>1, <2>2, <1>0 DEF ControlSound
<1> QED BY NextShape, <1>1, <1>2, <1>3, <1>4, <1>5, <1>6, <1>7, Zenon

\* A control takes effect once, also when its record was lost and the browser sends
\* it again: the epoch it expects is over (controls: expected_epoch).
THEOREM ControlsApplyOnce == Spec => []ControlOnce
<1>1. Init => ControlSound
  BY TasksAreSix DEF Init, ControlSound
<1>2. Kernel /\ Kernel' /\ ControlSound /\ [Next]_vars => ControlSound'
  BY ControlStep
<1>3. ControlSound => ControlOnce
  BY DEF ControlSound, ControlOnce
<1> QED BY <1>1, <1>2, <1>3, KernelHolds, PTL DEF Spec

-----------------------------------------------------------------------------
(* The floor                                                               *)

\* While somebody interrupts, nobody answers.
FloorSound == (\E t \in Task : pc[t] \in Interrupting) => response = None /\ ~responding

\* Only interrupt() changes whose response it is; a response may end.
LEMMA ResponseKept ==
  ASSUME [Next]_vars
  PROVE  \/ \E t \in Task : Enter(t) \/ EnterClosed(t) \/ Persisted(t)
         \/ UNCHANGED response /\ (UNCHANGED responding \/ responding' = FALSE)
<1> HIDE DEF Inside, Holding, Ending, Preparing, Asking, Interrupting
<1> USE DEF turnVars
<1>1. CASE UNCHANGED vars
  BY <1>1, Zenon DEF vars
<1>2. ASSUME NEW e \in Epoch, Generate(e) PROVE UNCHANGED response /\ (UNCHANGED responding \/ responding' = FALSE)
  <2>1. UNCHANGED response
    BY <1>2, GenerateRests DEF RespQuiet
  <2>2. UNCHANGED responding \/ responding' = FALSE
    BY <1>2, Zenon DEF Generate, RespOpen, RespLoad, RespClear, RespPublish, RespActive, RespPush,
       RespEnd, RespFinish, RespFail, RespCancelled, Fallen
  <2> QED BY <2>1, <2>2
<1>3. CASE Tasks
  <2>1. ASSUME NEW t \in Task, Close(t) PROVE UNCHANGED turnVars
    BY <2>1, Zenon DEF Close, Gathered, Stored, Awaited
  <2>2. ASSUME NEW t \in Task, Interrupt(t) PROVE UNCHANGED turnVars \/ Persisted(t)
    BY <2>2, Zenon DEF Interrupt, TtsCancelled, TtsCancelRaises, Reaped, MediaCancelled, MediaCancelRaises
  <2>3. CASE CloseCall \/ Reap \/ FenceMedia \/ PrepSteps \/ PrepFails \/ BeatSteps
    BY <2>3, Zenon DEF CloseCall, Reap, FenceMedia, PrepSteps, PrepFails, BeatSteps, Fails
  <2>4. CASE Subscribe \/ Endpoint \/ UserSpeaks \/ BargeIn \/ MicFails
    BY <2>4, Zenon DEF Subscribe, Endpoint, UserSpeaks, BargeIn, MicFails, Fails, Dropped
  <2>5. CASE Transcribed \/ TranscribeFails \/ ControlCall \/ (\E b \in Body : Control(b)) \/ Record
    BY <2>5, Zenon DEF Transcribed, TranscribeFails, ControlCall, Control, Record, Fails
  <2> QED BY <1>3, <2>1, <2>2, <2>3, <2>4, <2>5, Zenon DEF Tasks
<1>4. CASE (\E w \in writes : Commit(w) \/ CommitFails(w)) \/ Revocation \/ WorkerAnswers \/ WorkerDies
  BY <1>4, Zenon DEF Commit, CommitFails, Revocation, WorkerAnswers, WorkerDies
<1> QED BY <1>1, <1>2, <1>3, <1>4, Zenon DEF Next

\* When the holder leaves, nobody interrupts until the next one begins.
LEMMA NobodyLeft ==
  ASSUME Kernel, NEW t \in Task, Left(t) \/ Stopped(t), NEW x \in Task
  PROVE  pc'[x] \notin Interrupting
<1>0. pc \in [Task -> TaskState]
  BY DEF Kernel, KernelTypes
<1>1. pc'[t] \notin Interrupting
  BY <1>0, StoppedQueue DEF Left
<1>2. ASSUME pc'[x] \in Interrupting, x # t PROVE FALSE
  <2>1. pc[x] \in Interrupting
    BY <1>0, <1>2, StoppedQueue DEF Left
  <2>2. x = Head(lockQ) /\ t = Head(lockQ)
    BY <2>1, HolderIsHead DEF Left, Stopped
  <2> QED BY <2>2, <1>2
<1> QED BY <1>1, <1>2

LEMMA FloorStep ==
  ASSUME Kernel, FloorSound, [Next]_vars
  PROVE  FloorSound'
<1> SUFFICES ASSUME NEW x \in Task, pc'[x] \in Interrupting
             PROVE  response' = None /\ responding' = FALSE
  BY DEF FloorSound
<1>1. ASSUME NEW t \in Task, Enter(t) PROVE response' = None /\ responding' = FALSE
  BY <1>1 DEF Enter
<1>2. ASSUME NEW t \in Task, EnterClosed(t) PROVE FALSE
  BY <1>2, EnterClosedShape, NobodyLeft
<1>3. ASSUME NEW t \in Task, Persisted(t), ~(UNCHANGED <<response, responding>>) PROVE FALSE
  <2>1. /\ pc[t] \in Interrupting /\ Returned(t)
        /\ UNCHANGED <<epoch, closing, closeDone, persisted>>
    BY <1>3, Zenon DEF Persisted, Interrupting
  <2> QED BY <2>1, ReturnedShape, NobodyLeft
<1>4. CASE (\A t \in Task : ~Enter(t)) /\ UNCHANGED response /\ (UNCHANGED responding \/ responding' = FALSE)
  <2>1. ~Entered(x)
    <3>1. ASSUME Entered(x) PROVE FALSE
      <4>1. ~Apart
        <5>1. epoch \in Nat /\ epoch' = epoch + 1
          BY <3>1 DEF Entered, Kernel, KernelTypes, Epoch
        <5> QED BY <5>1 DEF Apart
      <4>2. epoch' # epoch
        BY <3>1 DEF Entered, Kernel, KernelTypes, Epoch
      <4>3. \/ Endpoint \/ UserSpeaks \/ Transcribed \/ Record \/ \E b \in Body : Control(b)
        BY NextShape, <4>1, <1>4
      <4> QED BY <4>2, <4>3, EndpointShape, UserSpeaksShape, TranscribedShape, RecordShape, ControlShape
    <3> QED BY <3>1
  <2>2. pc[x] \in Interrupting
    BY <2>1, NextIsShape, NewHolder
  <2> QED BY <2>2, <1>4 DEF FloorSound
<1> QED BY <1>1, <1>2, <1>3, <1>4, ResponseKept

-----------------------------------------------------------------------------
(* Spoken turns                                                            *)

\* A transcript under way is of an utterance that nothing overtook; only a control
\* may interrupt meanwhile, so its answer is the next to have the lock.
FreshSound ==
  /\ pc[Fin] = "asr" /\ fresh => ~overtaken
  /\ pc[Fin] = "asr" /\ fresh /\ ~closing /\ (\E t \in Task : pc[t] \in Interrupting) =>
        \A x \in Task : In(lockQ, x) => x = Ctl
  /\ pc[Fin] \in Asking /\ mode[Fin] = "answer" =>
        ~overtaken /\ \A x \in Task : Before(lockQ, x, Fin) => pc[x] \in Interrupting
  /\ pc[Fin] \in Interrupting /\ mode[Fin] = "answer" => ~overtaken

\* Before an answer that waits, those who interrupt go on or leave.
LEMMA WaitingAnswer ==
  ASSUME Kernel, Passing, pc'[Fin] \in Asking, mode'[Fin] = "answer"
  PROVE  /\ pc[Fin] \in Asking /\ mode[Fin] = "answer"
         /\ \A x \in Task : Before(lockQ', x, Fin) =>
               Before(lockQ, x, Fin) /\ (pc[x] \in Interrupting => pc'[x] \in Interrupting)
<1>0. pc \in [Task -> TaskState] /\ mode \in [Task -> {"interrupt", "answer", "close"}] /\ Fin \in Task
  BY TasksAreSix DEF Kernel, KernelTypes
<1>1. CASE Aside
  BY <1>0, <1>1 DEF Aside
<1>2. ASSUME NEW t \in Task, Left(t)
      PROVE /\ pc[Fin] \in Asking /\ mode[Fin] = "answer"
            /\ \A x \in Task : Before(lockQ', x, Fin) =>
                 Before(lockQ, x, Fin) /\ (pc[x] \in Interrupting => pc'[x] \in Interrupting)
  <2>1. lockQ # <<>> /\ t = Head(lockQ) /\ lockQ \in Seq(Task) /\ Distinct(lockQ)
    BY <1>2, HolderIsHead DEF Left, Kernel, KernelTypes, QueueSound
  <2>2. Becomes(lockQ, lockQ', {t}, {})
    BY <1>2, <2>1, BecomesTail DEF Left
  <2>3. t # Fin
    BY <1>0, <1>2 DEF Left
  <2>4. \A x \in Task : x # t => pc'[x] = pc[x] /\ mode'[x] = mode[x]
    BY <1>0, <1>2 DEF Left
  <2> QED BY <1>0, <2>2, <2>3, <2>4 DEF Becomes
<1>3. ASSUME NEW t \in Task, Stopped(t) PROVE FALSE
  <2>1. pc'[Fin] \in {"gather", "over"}
    BY <1>0, <1>3, StoppedQueue DEF Listeners
  <2> QED BY <2>1
<1>4. ASSUME NEW t \in Task, Finished(t)
      PROVE /\ pc[Fin] \in Asking /\ mode[Fin] = "answer"
            /\ \A x \in Task : Before(lockQ', x, Fin) =>
                 Before(lockQ, x, Fin) /\ (pc[x] \in Interrupting => pc'[x] \in Interrupting)
  BY <1>0, <1>4 DEF Finished
<1>5. ASSUME NEW t \in Task, Shed(t)
      PROVE /\ pc[Fin] \in Asking /\ mode[Fin] = "answer"
            /\ \A x \in Task : Before(lockQ', x, Fin) =>
                 Before(lockQ, x, Fin) /\ (pc[x] \in Interrupting => pc'[x] \in Interrupting)
  <2>1. Becomes(lockQ, lockQ', {t}, {})
    BY <1>5, ShedKernel
  <2>2. t # Fin
    BY <1>0, <1>5 DEF Shed
  <2>3. \A x \in Task : x # t => pc'[x] = pc[x] /\ mode'[x] = mode[x]
    BY <1>0, <1>5 DEF Shed
  <2> QED BY <1>0, <2>1, <2>2, <2>3 DEF Becomes
<1>6. ASSUME NEW t \in Task, NEW lost, NEW q, Begins(t, lost, q)
      PROVE /\ pc[Fin] \in Asking /\ mode[Fin] = "answer"
            /\ \A x \in Task : Before(lockQ', x, Fin) =>
                 Before(lockQ, x, Fin) /\ (pc[x] \in Interrupting => pc'[x] \in Interrupting)
  <2>1. PICK R : /\ R = IF q = lockQ /\ pc[t] \notin Inside THEN {} ELSE {t}
                 /\ Becomes(lockQ, q, R, {}) /\ ~In(q, t)
                 /\ closing => lockQ' = q
                 /\ ~closing => Becomes(lockQ, lockQ', R, {t})
    BY <1>6, BeginsQueue, Zenon
  <2>2. CASE closing
    <3>1. pc' = [pc EXCEPT ![t] = "await"] /\ mode' = mode /\ lockQ' = q
      BY <1>6, <2>1, <2>2 DEF Begins, BeginClose
    <3>2. t # Fin /\ \A x \in Task : x # t => pc'[x] = pc[x]
      BY <1>0, <3>1
    <3>3. \A x \in Task : Before(q, x, Fin) => Before(lockQ, x, Fin) /\ x # t
      <4>1. \A x \in Task : Before(q, x, Fin) => Before(lockQ, x, Fin) /\ In(q, x)
        <5>1. \A x \in Task : Before(q, x, Fin) => Before(lockQ, x, Fin)
          BY <1>0, <2>1 DEF Becomes
        <5> QED BY <5>1 DEF Before, In
      <4> QED BY <4>1, <2>1
    <3> QED BY <1>0, <3>1, <3>2, <3>3
  <2>3. CASE ~closing
    <3>1. /\ mode' = [mode EXCEPT ![t] = "close"]
          /\ pc' = [x \in Task |-> IF x = t THEN AtLock(q) ELSE IF x = Prep THEN "over" ELSE pc[x]]
      BY <1>6, <2>3 DEF Begins, BeginClose
    <3>2. t # Fin /\ mode[Fin] = "answer"
      BY <1>0, <3>1
    <3>3. pc[Fin] \in Asking
      BY <1>0, <3>1, <3>2, TasksAreSix
    <3>4. Becomes(lockQ, lockQ', R, {t})
      BY <2>1, <2>3
    <3>5. \A x \in Task : Before(lockQ', x, Fin) => Before(lockQ, x, Fin) /\ x \notin R
      BY <1>0, <3>2, <3>4 DEF Becomes
    <3>6. \A x \in Task : In(lockQ, x) => x # Prep
      <4>1. \A x \in Task : mode[x] # "close"
        BY <2>3 DEF Kernel, EndSound
      <4>2. pc[Prep] \notin Inside
        BY <4>1, TasksAreSix DEF Kernel, EndSound
      <4> QED BY <4>2 DEF Kernel, QueueSound
    <3>7. \A x \in Task : Before(lockQ, x, Fin) => In(lockQ, x)
      BY DEF Before, In
    <3>8. In(lockQ, t) => t \in R
      BY <2>1 DEF Kernel, QueueSound
    <3>9. \A x \in Task : Before(lockQ', x, Fin) => pc'[x] = pc[x]
      BY <3>1, <3>5, <3>6, <3>7, <3>8
    <3> QED BY <3>2, <3>3, <3>5, <3>9
  <2> QED BY <2>2, <2>3 DEF Kernel, KernelTypes
<1> QED BY <1>1, <1>2, <1>3, <1>4, <1>5, <1>6 DEF Passing

\* Those that pass bring nobody into the queue unless they begin a close, and make
\* nobody answer.
LEMMA PassingQueue ==
  ASSUME Kernel, Passing
  PROVE  /\ closing' \/ \A x \in Task : In(lockQ', x) => In(lockQ, x)
         /\ closing => closing'
         /\ \A x \in Task : mode'[x] = "answer" => mode[x] = "answer"
<1>0. pc \in [Task -> TaskState] /\ mode \in [Task -> {"interrupt", "answer", "close"}]
  BY DEF Kernel, KernelTypes
<1>1. CASE Aside
  BY <1>1 DEF Aside
<1>2. ASSUME NEW t \in Task, Left(t)
      PROVE /\ \A x \in Task : In(lockQ', x) => In(lockQ, x)
            /\ closing => closing'
            /\ \A x \in Task : mode'[x] = "answer" => mode[x] = "answer"
  <2>1. lockQ # <<>> /\ t = Head(lockQ) /\ lockQ \in Seq(Task) /\ Distinct(lockQ)
    BY <1>2, HolderIsHead DEF Left, Kernel, KernelTypes, QueueSound
  <2>2. Becomes(lockQ, lockQ', {t}, {})
    BY <1>2, <2>1, BecomesTail DEF Left
  <2> QED BY <1>0, <1>2, <2>2 DEF Becomes, Left
<1>3. ASSUME NEW t \in Task, Stopped(t)
      PROVE /\ \A x \in Task : In(lockQ', x) => In(lockQ, x)
            /\ closing => closing'
            /\ \A x \in Task : mode'[x] = "answer" => mode[x] = "answer"
  BY <1>3, StoppedQueue DEF Becomes, Stopped
<1>4. ASSUME NEW t \in Task, Finished(t)
      PROVE /\ \A x \in Task : In(lockQ', x) => In(lockQ, x)
            /\ closing => closing'
            /\ \A x \in Task : mode'[x] = "answer" => mode[x] = "answer"
  BY <1>4 DEF Finished
<1>5. ASSUME NEW t \in Task, Shed(t)
      PROVE /\ \A x \in Task : In(lockQ', x) => In(lockQ, x)
            /\ closing => closing'
            /\ \A x \in Task : mode'[x] = "answer" => mode[x] = "answer"
  BY <1>0, <1>5, ShedKernel DEF Becomes, Shed
<1>6. ASSUME NEW t \in Task, NEW lost, NEW q, Begins(t, lost, q)
      PROVE closing' /\ \A x \in Task : mode'[x] = "answer" => mode[x] = "answer"
  BY <1>0, <1>6 DEF Begins, BeginClose
<1> QED BY <1>1, <1>2, <1>3, <1>4, <1>5, <1>6 DEF Passing

LEMMA FreshStep ==
  ASSUME Kernel, FloorSound, FreshSound, [Next]_vars
  PROVE  FreshSound'
<1>0. /\ pc \in [Task -> TaskState] /\ mode \in [Task -> {"interrupt", "answer", "close"}]
      /\ epoch \in Nat /\ Fin \in Task /\ Ctl \in Task /\ Mic \in Task /\ Fin # Mic /\ Fin # Ctl /\ Mic # Ctl
  BY TasksAreSix DEF Kernel, KernelTypes, Epoch
<1>1. ASSUME Apart, Passing PROVE FreshSound'
  <2>1. /\ pc'[Fin] = "asr" => pc[Fin] = "asr"
        /\ UNCHANGED <<fresh, overtaken, epoch>>
    BY <1>1 DEF Apart
  <2>2. /\ closing' \/ \A x \in Task : In(lockQ', x) => In(lockQ, x)
        /\ closing => closing'
        /\ \A x \in Task : mode'[x] = "answer" => mode[x] = "answer"
    BY <1>1, PassingQueue
  <2>3. ASSUME NEW x \in Task, pc'[x] \in Interrupting PROVE pc[x] \in Interrupting
    <3>1. Shape
      BY NextIsShape
    <3>2. ~Entered(x)
      BY <1>0, <2>1 DEF Entered
    <3> QED BY <2>3, <3>1, <3>2, NewHolder
  <2>4. pc'[Fin] = "asr" /\ fresh' => ~overtaken'
    BY <2>1 DEF FreshSound
  <2>5. ASSUME pc'[Fin] = "asr", fresh', ~closing', NEW t \in Task, pc'[t] \in Interrupting,
               NEW x \in Task, In(lockQ', x)
        PROVE  x = Ctl
    <3>1. pc[Fin] = "asr" /\ fresh /\ ~closing /\ pc[t] \in Interrupting /\ In(lockQ, x)
      BY <2>1, <2>2, <2>3, <2>5
    <3> QED BY <3>1 DEF FreshSound
  <2>6. pc'[Fin] \in Asking /\ mode'[Fin] = "answer" =>
           ~overtaken' /\ \A x \in Task : Before(lockQ', x, Fin) => pc'[x] \in Interrupting
    BY <1>1, <2>1, WaitingAnswer DEF FreshSound
  <2>7. pc'[Fin] \in Interrupting /\ mode'[Fin] = "answer" => ~overtaken'
    BY <1>0, <2>1, <2>2, <2>3 DEF FreshSound
  <2> QED BY <2>4, <2>5, <2>6, <2>7 DEF FreshSound
<1>2. CASE BargeIn
  <2>1. Asked(Mic, "interrupt") /\ Apart /\ responding
    BY <1>2, BargeInShape
  <2>2. /\ Becomes(lockQ, lockQ', {}, {Mic}) /\ pc'[Mic] \in Asking
        /\ \A x \in Task : x # Mic => pc'[x] = pc[x] /\ mode'[x] = mode[x]
    BY <2>1, AskedQueue, TasksAreSix
  <2>3. UNCHANGED <<fresh, overtaken, closing>>
    BY <2>1 DEF Apart, Asked
  <2>4. \A x \in Task : pc[x] \notin Interrupting
    BY <2>1 DEF FloorSound
  <2>5. \A x \in Task : pc'[x] \notin Interrupting
    BY <2>2, <2>4
  <2>6. \A x \in Task : Before(lockQ', x, Fin) => Before(lockQ, x, Fin)
    BY <1>0, <2>2 DEF Becomes
  <2>7. pc'[Fin] = pc[Fin] /\ mode'[Fin] = mode[Fin]
    BY <1>0, <2>2
  <2>8. pc'[Fin] \in Asking /\ mode'[Fin] = "answer" =>
           ~overtaken' /\ \A x \in Task : Before(lockQ', x, Fin) => pc'[x] \in Interrupting
    BY <2>3, <2>4, <2>6, <2>7 DEF FreshSound
  <2> QED BY <2>3, <2>5, <2>7, <2>8 DEF FreshSound
<1>3. ASSUME NEW t \in Task, Enter(t) PROVE FreshSound'
  <2>1. /\ fresh' = FALSE /\ pc[t] \in Asking /\ UNCHANGED <<mode, lockQ, closing>>
        /\ overtaken' = (overtaken \/ (t # Fin /\ pc[Fin] \in Asking \cup {"asr"}))
    BY <1>3 DEF Enter, FenceTranscripts, Granted, endVars
  <2>2. PICK s \in Interrupting : pc' = [pc EXCEPT ![t] = s]
    BY <1>3, EnterShape DEF Entered
  <2>3. Granted(t)
    BY <1>3 DEF Enter
  <2>4. CASE t = Fin
    <3>1. pc'[Fin] \in Interrupting
      BY <1>0, <2>2, <2>4
    <3>2. mode'[Fin] = "answer" => ~overtaken'
      BY <2>1, <2>4 DEF FreshSound
    <3> QED BY <3>1, <3>2 DEF FreshSound
  <2>5. CASE t # Fin
    <3>1. pc'[Fin] = pc[Fin]
      BY <1>0, <2>2, <2>5
    <3>2. pc[Fin] \in Inside => Before(lockQ, t, Fin) /\ pc[Fin] = "lock"
      BY <1>0, <2>3, <2>5, HolderIsHead DEF Kernel, QueueSound
    <3>3. ~(pc[Fin] \in Inside /\ mode[Fin] = "answer")
      BY <2>1, <3>2 DEF FreshSound
    <3> QED BY <2>1, <3>1, <3>3 DEF FreshSound
  <2> QED BY <2>4, <2>5
<1>4. CASE Endpoint
  <2>1. /\ Shed(Fin) /\ pc' = [pc EXCEPT ![Fin] = "asr"] /\ fresh' = TRUE /\ overtaken' = FALSE
        /\ pc[Mic] = "idle"
    BY <1>4, EndpointShape
  <2>2. pc'[Fin] = "asr"
    BY <1>0, <2>1
  <2>3. ASSUME ~closing', NEW x \in Task, In(lockQ', x) PROVE x = Ctl
    <3>1. In(lockQ, x) /\ x # Fin
      BY <1>0, <2>1, <2>3, ShedKernel DEF Becomes
    <3>2. pc[x] \in Inside /\ ~closing
      BY <2>1, <2>3, <3>1 DEF Kernel, QueueSound, Shed
    <3>3. x \in {Ctl, Mic, Fin}
      BY <3>2 DEF Kernel, EndSound
    <3> QED BY <2>1, <3>1, <3>2, <3>3
  <2> QED BY <2>1, <2>2, <2>3 DEF FreshSound
<1>5. CASE UserSpeaks
  <2>1. fresh' = FALSE /\ UNCHANGED <<overtaken, pc, mode, lockQ, closing>>
    BY <1>5, UserSpeaksShape
  <2> QED BY <2>1 DEF FreshSound
<1>6. CASE Transcribed /\ LoopFree
  <2>1. /\ UNCHANGED fresh /\ pc[Fin] = "asr" /\ LockSettled
        /\ \/ /\ Asked(Fin, "answer") /\ fresh /\ ~closing /\ UNCHANGED overtaken
           \/ /\ pc' = [pc EXCEPT ![Fin] = "idle"] /\ overtaken' = FALSE
              /\ UNCHANGED <<lockQ, mode>>
    BY <1>6, TranscribedShape
  <2>2. CASE Asked(Fin, "answer") /\ fresh /\ ~closing /\ UNCHANGED overtaken
    <3>1. /\ Becomes(lockQ, lockQ', {}, {Fin}) /\ pc'[Fin] \in Asking
          /\ \A x \in Task : x # Fin => pc'[x] = pc[x] /\ mode'[x] = mode[x]
      BY <2>2, AskedQueue, <1>0
    <3>2. ~overtaken'
      BY <2>1, <2>2 DEF FreshSound
    <3>3. ASSUME NEW x \in Task, Before(lockQ', x, Fin) PROVE pc'[x] \in Interrupting
      <4>1. In(lockQ, x)
        BY <1>0, <3>1, <3>3 DEF Becomes, Before, In
      <4>2. lockQ \in Seq(Task) /\ lockQ # <<>> /\ Distinct(lockQ)
        BY <4>1, HeadOfQueue DEF Kernel, KernelTypes, QueueSound
      <4>3. Head(lockQ) \in Task /\ In(lockQ, Head(lockQ))
        <5>1. 1 \in DOMAIN lockQ
          BY <4>2, EmptySeq, LenProperties
        <5>2. Head(lockQ) = lockQ[1]
          BY <4>2, HeadTailProperties
        <5> QED BY <5>1, <5>2, <4>2, ElementOfSeq, LenProperties DEF In
      <4>4. pc[Head(lockQ)] \in Inside
        BY <4>3 DEF Kernel, QueueSound
      <4>5. pc[Head(lockQ)] # "lock" /\ pc[Head(lockQ)] # "enter"
        BY <2>1, <1>6, <4>3 DEF LockSettled, LoopFree
      <4>6. pc[Head(lockQ)] \in Interrupting
        BY <4>4, <4>5
      <4>7. x = Ctl /\ Head(lockQ) = Ctl
        BY <2>1, <2>2, <4>1, <4>3, <4>6 DEF FreshSound
      <4>8. pc'[x] = pc[x]
        BY <1>0, <3>1, <4>7
      <4> QED BY <4>6, <4>7, <4>8
    <3> QED BY <3>1, <3>2, <3>3 DEF FreshSound
  <2>3. CASE pc' = [pc EXCEPT ![Fin] = "idle"]
    BY <1>0, <2>3 DEF FreshSound
  <2> QED BY <2>1, <2>2, <2>3
<1>7. CASE Record
  <2>1. /\ UNCHANGED <<fresh, overtaken, lockQ, mode>> /\ pc[Ctl] = "record"
        /\ Aside /\ pc' = [pc EXCEPT ![Ctl] = "idle"]
    BY <1>7, RecordShape
  <2>2. UNCHANGED closing /\ \A x \in Task : x # Ctl => pc'[x] = pc[x]
    BY <1>0, <2>1 DEF Aside
  <2>3. \A x \in Task : (pc'[x] \in Interrupting <=> pc[x] \in Interrupting)
    BY <1>0, <2>1, <2>2
  <2> QED BY <1>0, <2>1, <2>2, <2>3 DEF FreshSound
<1>8. ASSUME NEW b \in Body, Control(b) PROVE FreshSound'
  <2>1. UNCHANGED <<fresh, overtaken>>
    BY <1>8, ControlShape
  <2>2. ASSUME NEW m, Asked(Ctl, m) PROVE FreshSound'
    <3>1. /\ Becomes(lockQ, lockQ', {}, {Ctl}) /\ pc'[Ctl] \in Asking
          /\ \A x \in Task : x # Ctl => pc'[x] = pc[x] /\ mode'[x] = mode[x]
      BY <2>2, AskedQueue, <1>0
    <3>2. UNCHANGED closing /\ pc[Ctl] \notin Inside
      BY <2>2 DEF Asked
    <3>3. \A x \in Task : (pc'[x] \in Interrupting <=> pc[x] \in Interrupting)
      BY <3>1, <3>2
    <3>4. \A x \in Task : Before(lockQ', x, Fin) => Before(lockQ, x, Fin)
      BY <1>0, <3>1 DEF Becomes
    <3>5. \A x \in Task : In(lockQ', x) => In(lockQ, x) \/ x = Ctl
      BY <3>1 DEF Becomes
    <3> QED BY <1>0, <2>1, <3>1, <3>2, <3>3, <3>4, <3>5 DEF FreshSound
  <2>3. CASE Aside /\ pc' = [pc EXCEPT ![Ctl] = "record"] /\ UNCHANGED <<lockQ, mode>>
    <3>2. UNCHANGED closing /\ \A x \in Task : x # Ctl => pc'[x] = pc[x]
      BY <1>0, <2>3 DEF Aside
    <3>3. \A x \in Task : (pc'[x] \in Interrupting => pc[x] \in Interrupting)
      BY <1>0, <2>3, <3>2
    <3>4. ~Before(lockQ, Ctl, Fin) \/ pc'[Ctl] = pc[Ctl]
      <4>1. pc[Ctl] = "idle"
        BY <1>8 DEF Control
      <4> QED BY <4>1, <1>0 DEF Before, In, Kernel, QueueSound
    <3> QED BY <1>0, <2>1, <2>3, <3>2, <3>3, <3>4 DEF FreshSound
  <2> QED BY <1>8, <2>2, <2>3, ControlShape
<1> QED BY NextShape, <1>1, <1>2, <1>3, <1>4, <1>5, <1>6, <1>7, <1>8

-----------------------------------------------------------------------------
(* Types                                                                   *)

TurnTypes ==
  /\ response \in Epoch \cup {None} /\ responding \in BOOLEAN /\ fresh \in BOOLEAN
  /\ popped \in [Task -> Epoch \cup {None}]
  /\ ready \in BOOLEAN /\ leaseLost \in BOOLEAN /\ inMap \in BOOLEAN
  /\ reply \in {"none", "CLOSED", "pending"}
  /\ acked \in Epoch /\ overtaken \in BOOLEAN
  /\ body \in Body \cup {None} /\ controls \subseteq 1..MaxSequence
  /\ faults \in 0..MaxFaults

RespTypes == resp \in [Epoch -> RespState] /\ doomed \subseteq Epoch

TtsTypes ==
  tts \in [key : Epoch \cup {None}, worker : {"none", "loading", "up", "dead"},
           req : {"none", "running", "stopped", "failed"}]

MediaTypes ==
  media \in [cancelled : BOOLEAN, blocked : BOOLEAN, tracks : SUBSET Epoch, up : BOOLEAN]

RowTypes ==
  /\ row \in [status : Status, epoch : Epoch, fence : {1, 2},
              revoked : {"no", "selected", "done"}]
  /\ writes \subseteq Write /\ result \in [Task \cup Epoch -> {"none", "ok", "bad"}]

RestTypes == TurnTypes /\ RespTypes /\ TtsTypes /\ MediaTypes /\ RowTypes

LEMMA RowHelpers ==
  ASSUME RowTypes, NEW X
  PROVE  /\ Forgotten(X) \in [Task \cup Epoch -> {"none", "ok", "bad"}]
         /\ Orphaned(X) \subseteq Write
         /\ \A x \in Task \cup Epoch \cup {None}, e \in Epoch \cup {None}, s \in Status \cup {None} :
               Sent(x, e, s) => writes' \subseteq Write
         /\ \A w \in writes, r \in {"ok", "bad"} :
               Answered(w, r) => result' \in [Task \cup Epoch -> {"none", "ok", "bad"}]
<1>1. Forgotten(X) \in [Task \cup Epoch -> {"none", "ok", "bad"}]
  BY DEF RowTypes, Forgotten
<1>2. Orphaned(X) \subseteq Write
  BY DEF RowTypes, Orphaned, Write
<1>3. ASSUME NEW x \in Task \cup Epoch \cup {None}, NEW e \in Epoch \cup {None},
             NEW s \in Status \cup {None}, Sent(x, e, s)
      PROVE  writes' \subseteq Write
  BY <1>3 DEF RowTypes, Sent, Write
<1>4. ASSUME NEW w \in writes, NEW r \in {"ok", "bad"}, Answered(w, r)
      PROVE  result' \in [Task \cup Epoch -> {"none", "ok", "bad"}]
  BY <1>4 DEF RowTypes, Answered
<1> QED BY <1>1, <1>2, <1>3, <1>4

LEMMA EnterTypes ==
  ASSUME Kernel, Kernel', RestTypes, NEW t \in Task, Enter(t)
  PROVE  RestTypes'
<1>1. TurnTypes'
  BY DEF RestTypes, TurnTypes, Enter, endVars, appVars, FenceTranscripts
<1>2. RespTypes'
  BY DEF RestTypes, TurnTypes, RespTypes, Enter, CancelResponse
<1>3. TtsTypes'
  BY DEF RestTypes, TtsTypes, Enter, Fenced
<1>4. MediaTypes'
  BY DEF RestTypes, MediaTypes, Enter
<1>5. RowTypes'
  BY DEF RestTypes, RowTypes, Enter, rowVars
<1> QED BY <1>1, <1>2, <1>3, <1>4, <1>5 DEF RestTypes

LEMMA StopTasksTypes ==
  ASSUME Kernel, RestTypes, NEW t \in Task, NEW q, StopTasks(t, q)
  PROVE  /\ (ready \in BOOLEAN /\ popped \in [Task -> Epoch \cup {None}])'
         /\ writes' \subseteq Write /\ result' \in [Task \cup Epoch -> {"none", "ok", "bad"}]
<1>1. RowTypes
  BY DEF RestTypes
<1>2. writes' \subseteq Write /\ result' \in [Task \cup Epoch -> {"none", "ok", "bad"}]
  BY <1>1, RowHelpers DEF StopTasks
<1>3. popped \in [Task -> Epoch \cup {None}]
  BY DEF RestTypes, TurnTypes
<1> QED BY <1>2, <1>3 DEF StopTasks

LEMMA ReturnedTypes ==
  ASSUME Kernel, RestTypes, NEW t \in Task, Returned(t)
  PROVE  /\ (response \in Epoch \cup {None} /\ responding \in BOOLEAN)'
         /\ (ready \in BOOLEAN /\ popped \in [Task -> Epoch \cup {None}])'
         /\ RespTypes'
         /\ writes' \subseteq Write /\ result' \in [Task \cup Epoch -> {"none", "ok", "bad"}]
<1>1. RowTypes /\ TurnTypes /\ RespTypes /\ epoch \in Epoch
  BY DEF RestTypes, Kernel, KernelTypes
<1>2. CASE mode[t] = "close"
  BY <1>1, <1>2, StopTasksTypes DEF Returned, TurnTypes, RespTypes, respVars
<1>3. CASE mode[t] # "close"
  <2>1. /\ popped' = [popped EXCEPT ![t] = None] /\ result' = Forgotten({t})
        /\ UNCHANGED <<ready, writes, doomed>>
        /\ \/ response' = epoch /\ responding' = TRUE /\ resp' = [resp EXCEPT ![epoch] = "open"]
           \/ UNCHANGED <<response, responding, resp>>
    BY <1>3, Zenon DEF Returned
  <2>2. result' \in [Task \cup Epoch -> {"none", "ok", "bad"}] /\ writes' \subseteq Write
    BY <1>1, <2>1, RowHelpers DEF RowTypes
  <2>3. RespTypes'
    BY <1>1, <2>1 DEF RespTypes, RespState
  <2>4. popped' \in [Task -> Epoch \cup {None}] /\ ready' \in BOOLEAN
    BY <1>1, <2>1 DEF TurnTypes
  <2>5. response' \in Epoch \cup {None} /\ responding' \in BOOLEAN
    BY <1>1, <2>1 DEF TurnTypes
  <2> QED BY <2>2, <2>3, <2>4, <2>5
<1> QED BY <1>2, <1>3

LEMMA BeginCloseTypes ==
  ASSUME RestTypes, NEW t \in Task, NEW lost \in BOOLEAN, NEW q, BeginClose(t, lost, q)
  PROVE  /\ leaseLost' \in BOOLEAN
         /\ writes' \subseteq Write /\ result' \in [Task \cup Epoch -> {"none", "ok", "bad"}]
<1>1. RowTypes /\ TurnTypes
  BY DEF RestTypes
<1>2. leaseLost' \in BOOLEAN
  BY <1>1 DEF BeginClose, TurnTypes
<1>3. result' \in [Task \cup Epoch -> {"none", "ok", "bad"}]
  BY <1>1, RowHelpers DEF BeginClose
<1>4. writes' \subseteq Write
  BY <1>1, RowHelpers DEF BeginClose, RowTypes
<1> QED BY <1>2, <1>3, <1>4

LEMMA RaisedTypes ==
  ASSUME Kernel, RestTypes, NEW t \in Task, Raised(t)
  PROVE  /\ (ready \in BOOLEAN /\ leaseLost \in BOOLEAN /\ popped \in [Task -> Epoch \cup {None}])'
         /\ writes' \subseteq Write /\ result' \in [Task \cup Epoch -> {"none", "ok", "bad"}]
<1>1. RowTypes /\ TurnTypes
  BY DEF RestTypes
<1>2. CASE mode[t] = "close"
  BY <1>1, <1>2, StopTasksTypes DEF Raised, TurnTypes
<1>3. CASE mode[t] # "close" /\ t = Ctl
  BY <1>1, <1>3, RowHelpers DEF Raised, TurnTypes, RowTypes
<1>4. CASE mode[t] # "close" /\ t # Ctl
  BY <1>1, <1>4, BeginCloseTypes DEF Raised, TurnTypes
<1> QED BY <1>2, <1>3, <1>4

LEMMA FaultTypes ==
  ASSUME faults \in 0..MaxFaults, NEW part, Fault(part)
  PROVE  faults' \in 0..MaxFaults /\ faults' > 0
BY ActorAssumption DEF Fault

LEMMA EnterClosedTypes ==
  ASSUME Kernel, Kernel', RestTypes, NEW t \in Task, EnterClosed(t)
  PROVE  RestTypes'
<1>0. TurnTypes /\ RespTypes /\ TtsTypes /\ MediaTypes /\ RowTypes /\ epoch \in Epoch
  BY DEF RestTypes, Kernel, KernelTypes
<1>1. TurnTypes'
  BY <1>0, ReturnedTypes DEF EnterClosed, TurnTypes, turnVars, endVars, appVars, history
<1>2. RespTypes'
  BY <1>0, ReturnedTypes DEF EnterClosed, RespTypes, respVars
<1>3. TtsTypes'
  BY <1>0 DEF EnterClosed, TtsTypes
<1>4. MediaTypes'
  BY <1>0 DEF EnterClosed, MediaTypes
<1>5. RowTypes'
  BY <1>0, ReturnedTypes DEF EnterClosed, RowTypes, rowVars
<1> QED BY <1>1, <1>2, <1>3, <1>4, <1>5 DEF RestTypes

LEMMA TtsCancelledTypes ==
  ASSUME Kernel, Kernel', RestTypes, NEW t \in Task, TtsCancelled(t)
  PROVE  RestTypes'
<1>0. TurnTypes /\ RespTypes /\ TtsTypes /\ MediaTypes /\ RowTypes /\ epoch \in Epoch
  BY DEF RestTypes, Kernel, KernelTypes
<1>1. TurnTypes'
  BY <1>0 DEF TtsCancelled, TurnTypes, turnVars, endVars, appVars, history
<1>2. RespTypes'
  BY <1>0 DEF TtsCancelled, RespTypes, respVars, CancelResponse, TurnTypes
<1>3. TtsTypes'
  BY <1>0 DEF TtsCancelled, TtsTypes, Halted
<1>4. MediaTypes'
  BY <1>0 DEF TtsCancelled, MediaTypes
<1>5. RowTypes'
  BY <1>0 DEF TtsCancelled, RowTypes, rowVars
<1> QED BY <1>1, <1>2, <1>3, <1>4, <1>5 DEF RestTypes

LEMMA TtsCancelRaisesTypes ==
  ASSUME Kernel, Kernel', RestTypes, NEW t \in Task, TtsCancelRaises(t)
  PROVE  RestTypes'
<1>0. TurnTypes /\ RespTypes /\ TtsTypes /\ MediaTypes /\ RowTypes /\ epoch \in Epoch
  BY DEF RestTypes, Kernel, KernelTypes
<1>1. TurnTypes'
  BY <1>0, RaisedTypes, FaultTypes DEF TtsCancelRaises, TurnTypes, turnVars, endVars, appVars, history
<1>2. RespTypes'
  BY <1>0 DEF TtsCancelRaises, RespTypes, respVars
<1>3. TtsTypes'
  BY <1>0 DEF TtsCancelRaises, TtsTypes
<1>4. MediaTypes'
  BY <1>0 DEF TtsCancelRaises, MediaTypes
<1>5. RowTypes'
  BY <1>0, RaisedTypes DEF TtsCancelRaises, RowTypes, rowVars
<1> QED BY <1>1, <1>2, <1>3, <1>4, <1>5 DEF RestTypes

LEMMA ReapedTypes ==
  ASSUME Kernel, Kernel', RestTypes, NEW t \in Task, Reaped(t)
  PROVE  RestTypes'
<1>0. TurnTypes /\ RespTypes /\ TtsTypes /\ MediaTypes /\ RowTypes /\ epoch \in Epoch
  BY DEF RestTypes, Kernel, KernelTypes
<1>1. TurnTypes'
  BY <1>0 DEF Reaped, TurnTypes, turnVars, endVars, appVars, history
<1>2. RespTypes'
  BY <1>0 DEF Reaped, RespTypes, respVars
<1>3. TtsTypes'
  BY <1>0 DEF Reaped, TtsTypes
<1>4. MediaTypes'
  BY <1>0 DEF Reaped, MediaTypes
<1>5. RowTypes'
  BY <1>0 DEF Reaped, RowTypes, rowVars
<1> QED BY <1>1, <1>2, <1>3, <1>4, <1>5 DEF RestTypes

LEMMA MediaCancelledTypes ==
  ASSUME Kernel, Kernel', RestTypes, NEW t \in Task, MediaCancelled(t)
  PROVE  RestTypes'
<1>0. TurnTypes /\ RespTypes /\ TtsTypes /\ MediaTypes /\ RowTypes /\ epoch \in Epoch
  BY DEF RestTypes, Kernel, KernelTypes
<1>1. TurnTypes'
  BY <1>0 DEF MediaCancelled, TurnTypes, turnVars, endVars, appVars, history
<1>2. RespTypes'
  BY <1>0 DEF MediaCancelled, RespTypes, respVars
<1>3. TtsTypes'
  BY <1>0 DEF MediaCancelled, TtsTypes
<1>4. MediaTypes'
  BY <1>0 DEF MediaCancelled, MediaTypes
<1>5. RowTypes'
  BY <1>0, RowHelpers DEF MediaCancelled, RowTypes, rowVars, Status
<1> QED BY <1>1, <1>2, <1>3, <1>4, <1>5 DEF RestTypes

LEMMA MediaCancelRaisesTypes ==
  ASSUME Kernel, Kernel', RestTypes, NEW t \in Task, MediaCancelRaises(t)
  PROVE  RestTypes'
<1>0. TurnTypes /\ RespTypes /\ TtsTypes /\ MediaTypes /\ RowTypes /\ epoch \in Epoch
  BY DEF RestTypes, Kernel, KernelTypes
<1>1. TurnTypes'
  BY <1>0, RaisedTypes, FaultTypes DEF MediaCancelRaises, TurnTypes, turnVars, endVars, appVars, history
<1>2. RespTypes'
  BY <1>0 DEF MediaCancelRaises, RespTypes, respVars
<1>3. TtsTypes'
  BY <1>0 DEF MediaCancelRaises, TtsTypes
<1>4. MediaTypes'
  BY <1>0 DEF MediaCancelRaises, MediaTypes
<1>5. RowTypes'
  BY <1>0, RaisedTypes DEF MediaCancelRaises, RowTypes, rowVars
<1> QED BY <1>1, <1>2, <1>3, <1>4, <1>5 DEF RestTypes

LEMMA PersistedTypes ==
  ASSUME Kernel, Kernel', RestTypes, NEW t \in Task, Persisted(t)
  PROVE  RestTypes'
<1>0. TurnTypes /\ RespTypes /\ TtsTypes /\ MediaTypes /\ RowTypes /\ epoch \in Epoch
  BY DEF RestTypes, Kernel, KernelTypes
<1>1. TurnTypes'
  BY <1>0, ReturnedTypes, RaisedTypes DEF Persisted, TurnTypes, turnVars, endVars, appVars, history
<1>2. RespTypes'
  BY <1>0, ReturnedTypes, RaisedTypes DEF Persisted, RespTypes, respVars
<1>3. TtsTypes'
  BY <1>0 DEF Persisted, TtsTypes
<1>4. MediaTypes'
  BY <1>0 DEF Persisted, MediaTypes
<1>5. RowTypes'
  BY <1>0, ReturnedTypes, RaisedTypes DEF Persisted, RowTypes, rowVars
<1> QED BY <1>1, <1>2, <1>3, <1>4, <1>5 DEF RestTypes

LEMMA GatheredTypes ==
  ASSUME Kernel, Kernel', RestTypes, NEW t \in Task, Gathered(t)
  PROVE  RestTypes'
<1>0. TurnTypes /\ RespTypes /\ TtsTypes /\ MediaTypes /\ RowTypes /\ epoch \in Epoch
  BY DEF RestTypes, Kernel, KernelTypes
<1>1. TurnTypes'
  BY <1>0 DEF Gathered, TurnTypes, turnVars, endVars, appVars, history
<1>2. RespTypes'
  BY <1>0 DEF Gathered, RespTypes, respVars
<1>3. TtsTypes'
  BY <1>0 DEF Gathered, TtsTypes, Halted
<1>4. MediaTypes'
  BY <1>0 DEF Gathered, MediaTypes
<1>5. RowTypes'
  BY <1>0, RowHelpers DEF Gathered, RowTypes, rowVars, Status, Gone
<1> QED BY <1>1, <1>2, <1>3, <1>4, <1>5 DEF RestTypes

LEMMA StoredTypes ==
  ASSUME Kernel, Kernel', RestTypes, NEW t \in Task, Stored(t)
  PROVE  RestTypes'
<1>0. TurnTypes /\ RespTypes /\ TtsTypes /\ MediaTypes /\ RowTypes /\ epoch \in Epoch
  BY DEF RestTypes, Kernel, KernelTypes
<1>1. TurnTypes'
  BY <1>0 DEF Stored, TurnTypes, turnVars, endVars, appVars, history, Told
<1>2. RespTypes'
  BY <1>0 DEF Stored, RespTypes, respVars
<1>3. TtsTypes'
  BY <1>0 DEF Stored, TtsTypes
<1>4. MediaTypes'
  BY <1>0 DEF Stored, MediaTypes
<1>5. RowTypes'
  BY <1>0, RowHelpers DEF Stored, RowTypes, rowVars
<1> QED BY <1>1, <1>2, <1>3, <1>4, <1>5 DEF RestTypes

LEMMA AwaitedTypes ==
  ASSUME Kernel, Kernel', RestTypes, NEW t \in Task, Awaited(t)
  PROVE  RestTypes'
<1>0. TurnTypes /\ RespTypes /\ TtsTypes /\ MediaTypes /\ RowTypes /\ epoch \in Epoch
  BY DEF RestTypes, Kernel, KernelTypes
<1>1. TurnTypes'
  BY <1>0 DEF Awaited, TurnTypes, turnVars, endVars, appVars, history, Told
<1>2. RespTypes'
  BY <1>0 DEF Awaited, RespTypes, respVars
<1>3. TtsTypes'
  BY <1>0 DEF Awaited, TtsTypes
<1>4. MediaTypes'
  BY <1>0 DEF Awaited, MediaTypes
<1>5. RowTypes'
  BY <1>0 DEF Awaited, RowTypes, rowVars
<1> QED BY <1>1, <1>2, <1>3, <1>4, <1>5 DEF RestTypes

LEMMA FailsTypes ==
  ASSUME Kernel, Kernel', RestTypes, NEW t \in Task, NEW lost \in BOOLEAN, Fails(t, lost),
         faults' \in 0..MaxFaults
  PROVE  RestTypes'
<1>0. TurnTypes /\ RespTypes /\ TtsTypes /\ MediaTypes /\ RowTypes /\ epoch \in Epoch
  BY DEF RestTypes, Kernel, KernelTypes
<1>a. /\ leaseLost' \in BOOLEAN
      /\ writes' \subseteq Write /\ result' \in [Task \cup Epoch -> {"none", "ok", "bad"}]
  BY BeginCloseTypes DEF Fails
<1>1. TurnTypes'
  BY <1>0, <1>a DEF Fails, TurnTypes, turnVars, appVars, history
<1>2. RespTypes'
  BY <1>0 DEF Fails, RespTypes, respVars
<1>3. TtsTypes' /\ MediaTypes'
  BY <1>0 DEF Fails, TtsTypes, MediaTypes
<1>4. RowTypes'
  BY <1>0, <1>a DEF Fails, RowTypes
<1> QED BY <1>1, <1>2, <1>3, <1>4 DEF RestTypes

LEMMA DroppedTypes ==
  ASSUME Kernel, Kernel', RestTypes, NEW x \in Task, NEW then, Dropped(x, then),
         fresh' \in BOOLEAN, overtaken' \in BOOLEAN
  PROVE  RestTypes'
<1>0. TurnTypes /\ RespTypes /\ TtsTypes /\ MediaTypes /\ RowTypes /\ epoch \in Epoch
  BY DEF RestTypes, Kernel, KernelTypes
<1>1. TurnTypes'
  <2>1. ready' \in BOOLEAN /\ popped' \in [Task -> Epoch \cup {None}]
    BY <1>0 DEF Dropped, TurnTypes
  <2> QED BY <1>0, <2>1 DEF Dropped, TurnTypes, appVars
<1>2. RespTypes'
  BY <1>0 DEF Dropped, RespTypes, respVars
<1>3. TtsTypes' /\ MediaTypes'
  BY <1>0 DEF Dropped, TtsTypes, MediaTypes
<1>4. RowTypes'
  BY <1>0, RowHelpers DEF Dropped, RowTypes
<1> QED BY <1>1, <1>2, <1>3, <1>4 DEF RestTypes

LEMMA ReapTypes ==
  ASSUME Kernel, Kernel', RestTypes, Reap
  PROVE  RestTypes'
<1>0. TurnTypes /\ RespTypes /\ TtsTypes /\ MediaTypes /\ RowTypes /\ epoch \in Epoch
  BY DEF RestTypes, Kernel, KernelTypes
<1>1. TurnTypes'
  BY <1>0 DEF Reap, TurnTypes, turnVars, endVars, appVars, taskVars, history
<1>2. RespTypes'
  BY <1>0 DEF Reap, RespTypes, respVars
<1>3. TtsTypes'
  BY <1>0 DEF Reap, TtsTypes
<1>4. MediaTypes'
  BY <1>0 DEF Reap, MediaTypes
<1>5. RowTypes'
  BY <1>0 DEF Reap, RowTypes, rowVars
<1> QED BY <1>1, <1>2, <1>3, <1>4, <1>5 DEF RestTypes

LEMMA FenceMediaTypes ==
  ASSUME Kernel, Kernel', RestTypes, FenceMedia
  PROVE  RestTypes'
<1>0. TurnTypes /\ RespTypes /\ TtsTypes /\ MediaTypes /\ RowTypes /\ epoch \in Epoch
  BY DEF RestTypes, Kernel, KernelTypes
<1>1. TurnTypes'
  BY <1>0 DEF FenceMedia, TurnTypes, turnVars, endVars, appVars, taskVars, history
<1>2. RespTypes'
  BY <1>0 DEF FenceMedia, RespTypes, respVars
<1>3. TtsTypes'
  BY <1>0 DEF FenceMedia, TtsTypes
<1>4. MediaTypes'
  BY <1>0 DEF FenceMedia, MediaTypes
<1>5. RowTypes'
  BY <1>0 DEF FenceMedia, RowTypes, rowVars, Status, Gone
<1> QED BY <1>1, <1>2, <1>3, <1>4, <1>5 DEF RestTypes

LEMMA PrepStepsTypes ==
  ASSUME Kernel, Kernel', RestTypes, PrepSteps
  PROVE  RestTypes'
<1>0. TurnTypes /\ RespTypes /\ TtsTypes /\ MediaTypes /\ RowTypes /\ epoch \in Epoch
  BY DEF RestTypes, Kernel, KernelTypes
<1>1. TurnTypes'
  <2>1. UNCHANGED <<turnVars, leaseLost, appVars, popped, history, faults>>
    BY Zenon DEF PrepSteps
  <2>2. UNCHANGED ready \/ ready' = TRUE
    BY Zenon DEF PrepSteps
  <2> QED BY <1>0, <2>1, <2>2 DEF TurnTypes, turnVars, appVars, history
<1>2. RespTypes'
  BY <1>0 DEF PrepSteps, RespTypes, respVars
<1>3. TtsTypes'
  BY <1>0 DEF PrepSteps, TtsTypes
<1>4. MediaTypes'
  BY <1>0 DEF PrepSteps, MediaTypes
<1>5. RowTypes'
  BY <1>0, RowHelpers, TasksAreSix DEF PrepSteps, RowTypes, rowVars, Status, Gone
<1> QED BY <1>1, <1>2, <1>3, <1>4, <1>5 DEF RestTypes

LEMMA ClosersTypes ==
  ASSUME Kernel, Kernel', RestTypes, CloseCall \/ PrepFails \/ MicFails \/ TranscribeFails
  PROVE  RestTypes'
<1>0. TurnTypes /\ RespTypes /\ TtsTypes /\ MediaTypes /\ RowTypes
  BY DEF RestTypes
<1>1. CASE \E t \in Task : Fails(t, FALSE)
  <2>1. faults' \in 0..MaxFaults
    <3>1. faults \in 0..MaxFaults
      BY <1>0 DEF TurnTypes
    <3>2. UNCHANGED faults \/ \E part \in {"media", "asr"} : Fault(part)
      BY Zenon DEF CloseCall, PrepFails, MicFails, TranscribeFails
    <3> QED BY <3>1, <3>2, FaultTypes
  <2> QED BY <1>1, <2>1, FailsTypes
<1>2. CASE ~\E t \in Task : Fails(t, FALSE)
  <2>1. /\ UNCHANGED <<turnVars, endVars, inMap, body, controls, taskVars, respVars, tts,
                      media, rowVars, history, faults>>
        /\ reply' = "CLOSED"
    BY <1>2, TasksAreSix, Zenon DEF CloseCall, PrepFails, MicFails, TranscribeFails
  <2> QED BY <1>0, <2>1 DEF RestTypes, TurnTypes, RespTypes, TtsTypes, MediaTypes, RowTypes,
             turnVars, endVars, taskVars, respVars, rowVars, history
<1> QED BY <1>1, <1>2

LEMMA BeatStepsTypes ==
  ASSUME Kernel, Kernel', RestTypes, BeatSteps
  PROVE  RestTypes'
<1>0. TurnTypes /\ RespTypes /\ TtsTypes /\ MediaTypes /\ RowTypes /\ epoch \in Epoch
  BY DEF RestTypes, Kernel, KernelTypes
<1>1. CASE \E lost \in BOOLEAN : Fails(Beat, lost) /\ UNCHANGED faults
  BY <1>0, <1>1, FailsTypes, TasksAreSix DEF TurnTypes
<1>2. CASE /\ UNCHANGED <<turnVars, endVars, appVars, popped, respVars, tts, media, row, history, faults>>
           /\ UNCHANGED writes \/ Sent(Beat, epoch, None)
           /\ UNCHANGED result \/ result' = Forgotten({Beat})
  <2>1. RowTypes'
    BY <1>0, <1>2, RowHelpers, TasksAreSix DEF RowTypes
  <2> QED BY <1>0, <1>2, <2>1 DEF RestTypes, TurnTypes, RespTypes, TtsTypes, MediaTypes,
             turnVars, endVars, appVars, respVars, history
<1>3. \/ \E lost \in BOOLEAN : Fails(Beat, lost) /\ UNCHANGED faults
      \/ /\ UNCHANGED <<turnVars, endVars, appVars, popped, respVars, tts, media, row, history, faults>>
         /\ UNCHANGED writes \/ Sent(Beat, epoch, None)
         /\ UNCHANGED result \/ result' = Forgotten({Beat})
  BY Zenon DEF BeatSteps
<1> QED BY <1>1, <1>2, <1>3

LEMMA ListenTypes ==
  ASSUME Kernel, Kernel', RestTypes, Subscribe \/ Endpoint
  PROVE  RestTypes'
<1>1. fresh \in BOOLEAN /\ overtaken \in BOOLEAN
  BY DEF RestTypes, TurnTypes
<1>2. \E x \in {Mic, Fin}, then \in {"over", "idle", "asr"} : Dropped(x, then)
  BY Zenon DEF Subscribe, Endpoint
<1>3. fresh' \in BOOLEAN /\ overtaken' \in BOOLEAN
  BY <1>1 DEF Subscribe, Endpoint
<1> QED BY <1>2, <1>3, DroppedTypes, TasksAreSix

LEMMA UserSpeaksTypes ==
  ASSUME Kernel, Kernel', RestTypes, UserSpeaks
  PROVE  RestTypes'
<1>0. TurnTypes /\ RespTypes /\ TtsTypes /\ MediaTypes /\ RowTypes /\ epoch \in Epoch
  BY DEF RestTypes, Kernel, KernelTypes
<1>1. TurnTypes'
  BY <1>0 DEF UserSpeaks, TurnTypes, turnVars, endVars, appVars, history, taskVars
<1>2. RespTypes'
  BY <1>0 DEF UserSpeaks, RespTypes, respVars
<1>3. TtsTypes'
  BY <1>0 DEF UserSpeaks, TtsTypes
<1>4. MediaTypes'
  BY <1>0 DEF UserSpeaks, MediaTypes
<1>5. RowTypes'
  BY <1>0 DEF UserSpeaks, RowTypes, rowVars
<1> QED BY <1>1, <1>2, <1>3, <1>4, <1>5 DEF RestTypes

LEMMA BargeInTypes ==
  ASSUME Kernel, Kernel', RestTypes, BargeIn
  PROVE  RestTypes'
<1>0. TurnTypes /\ RespTypes /\ TtsTypes /\ MediaTypes /\ RowTypes /\ epoch \in Epoch
  BY DEF RestTypes, Kernel, KernelTypes
<1>1. TurnTypes'
  BY <1>0 DEF BargeIn, TurnTypes, turnVars, endVars, appVars, history
<1>2. RespTypes'
  BY <1>0 DEF BargeIn, RespTypes, respVars
<1>3. TtsTypes'
  BY <1>0 DEF BargeIn, TtsTypes
<1>4. MediaTypes'
  BY <1>0 DEF BargeIn, MediaTypes
<1>5. RowTypes'
  BY <1>0 DEF BargeIn, RowTypes, rowVars
<1> QED BY <1>1, <1>2, <1>3, <1>4, <1>5 DEF RestTypes

LEMMA TranscribedTypes ==
  ASSUME Kernel, Kernel', RestTypes, Transcribed
  PROVE  RestTypes'
<1>0. TurnTypes /\ RespTypes /\ TtsTypes /\ MediaTypes /\ RowTypes /\ epoch \in Epoch
  BY DEF RestTypes, Kernel, KernelTypes
<1>1. TurnTypes'
  BY <1>0 DEF Transcribed, TurnTypes, turnVars, endVars, appVars, history
<1>2. RespTypes'
  BY <1>0 DEF Transcribed, RespTypes, respVars
<1>3. TtsTypes'
  BY <1>0 DEF Transcribed, TtsTypes
<1>4. MediaTypes'
  BY <1>0 DEF Transcribed, MediaTypes
<1>5. RowTypes'
  BY <1>0 DEF Transcribed, RowTypes, rowVars
<1> QED BY <1>1, <1>2, <1>3, <1>4, <1>5 DEF RestTypes

LEMMA ControlCallTypes ==
  ASSUME Kernel, Kernel', RestTypes, ControlCall
  PROVE  RestTypes'
<1>0. TurnTypes /\ RespTypes /\ TtsTypes /\ MediaTypes /\ RowTypes /\ epoch \in Epoch
  BY DEF RestTypes, Kernel, KernelTypes
<1>1. TurnTypes'
  BY <1>0 DEF ControlCall, TurnTypes, turnVars, endVars, appVars, history
<1>2. RespTypes'
  BY <1>0 DEF ControlCall, RespTypes, respVars
<1>3. TtsTypes'
  BY <1>0 DEF ControlCall, TtsTypes
<1>4. MediaTypes'
  BY <1>0 DEF ControlCall, MediaTypes
<1>5. RowTypes'
  BY <1>0 DEF ControlCall, RowTypes, rowVars
<1> QED BY <1>1, <1>2, <1>3, <1>4, <1>5 DEF RestTypes

LEMMA ControlTypes ==
  ASSUME Kernel, Kernel', RestTypes, NEW b \in Body, Control(b)
  PROVE  RestTypes'
<1>0. TurnTypes /\ RespTypes /\ TtsTypes /\ MediaTypes /\ RowTypes /\ epoch \in Epoch
  BY DEF RestTypes, Kernel, KernelTypes
<1>1. TurnTypes'
  BY <1>0 DEF Control, TurnTypes, turnVars, endVars, appVars, history
<1>2. RespTypes'
  BY <1>0 DEF Control, RespTypes, respVars
<1>3. TtsTypes'
  BY <1>0 DEF Control, TtsTypes
<1>4. MediaTypes'
  BY <1>0 DEF Control, MediaTypes
<1>5. RowTypes'
  BY <1>0 DEF Control, RowTypes, rowVars
<1> QED BY <1>1, <1>2, <1>3, <1>4, <1>5 DEF RestTypes

LEMMA RecordTypes ==
  ASSUME Kernel, Kernel', RestTypes, ControlSound, Record
  PROVE  RestTypes'
<1>0. TurnTypes /\ RespTypes /\ TtsTypes /\ MediaTypes /\ RowTypes /\ epoch \in Epoch
  BY DEF RestTypes, Kernel, KernelTypes
<1>1. TurnTypes'
  BY <1>0, FaultTypes DEF Record, TurnTypes, turnVars, endVars, appVars, history, ControlSound, Body
<1>2. RespTypes'
  BY <1>0 DEF Record, RespTypes, respVars
<1>3. TtsTypes'
  BY <1>0 DEF Record, TtsTypes
<1>4. MediaTypes'
  BY <1>0 DEF Record, MediaTypes
<1>5. RowTypes'
  BY <1>0 DEF Record, RowTypes, rowVars
<1> QED BY <1>1, <1>2, <1>3, <1>4, <1>5 DEF RestTypes

LEMMA CommitTypes ==
  ASSUME Kernel, Kernel', RestTypes, NEW w \in writes, Commit(w)
  PROVE  RestTypes'
<1>0. TurnTypes /\ RespTypes /\ TtsTypes /\ MediaTypes /\ RowTypes /\ epoch \in Epoch
  BY DEF RestTypes, Kernel, KernelTypes
<1>1. TurnTypes'
  BY <1>0 DEF Commit, TurnTypes, turnVars, endVars, appVars, history, taskVars
<1>2. RespTypes'
  BY <1>0 DEF Commit, RespTypes, respVars
<1>3. TtsTypes'
  BY <1>0 DEF Commit, TtsTypes
<1>4. MediaTypes'
  BY <1>0 DEF Commit, MediaTypes
<1>5. RowTypes'
  <2>1. /\ w \in Write /\ None \notin Status /\ None \notin Epoch
        /\ row \in [status : Status, epoch : Epoch, fence : {1, 2}, revoked : {"no", "selected", "done"}]
    BY <1>0, ActorAssumption DEF RowTypes, Status, Gone, Epoch
  <2>2. row' \in [status : Status, epoch : Epoch, fence : {1, 2}, revoked : {"no", "selected", "done"}]
    <3>1. CASE Accepted(w)
      <4>1. row' = [row EXCEPT !.status = IF w.status = None THEN @ ELSE w.status,
                               !.epoch = IF w.epoch = None THEN @ ELSE w.epoch]
        BY <3>1 DEF Commit
      <4>2. /\ (IF w.status = None THEN row.status ELSE w.status) \in Status
            /\ (IF w.epoch = None THEN row.epoch ELSE w.epoch) \in Epoch
        BY <2>1 DEF Write
      <4> QED BY <2>1, <4>1, <4>2
    <3>2. CASE ~Accepted(w)
      BY <2>1, <3>2 DEF Commit
    <3> QED BY <3>1, <3>2
  <2>3. writes' \subseteq Write /\ result' \in [Task \cup Epoch -> {"none", "ok", "bad"}]
    BY <1>0, RowHelpers DEF Commit, RowTypes
  <2> QED BY <2>2, <2>3 DEF RowTypes
<1> QED BY <1>1, <1>2, <1>3, <1>4, <1>5 DEF RestTypes

LEMMA CommitFailsTypes ==
  ASSUME Kernel, Kernel', RestTypes, NEW w \in writes, CommitFails(w)
  PROVE  RestTypes'
<1>0. TurnTypes /\ RespTypes /\ TtsTypes /\ MediaTypes /\ RowTypes /\ epoch \in Epoch
  BY DEF RestTypes, Kernel, KernelTypes
<1>1. TurnTypes'
  BY <1>0, FaultTypes DEF CommitFails, TurnTypes, turnVars, endVars, appVars, history, taskVars
<1>2. RespTypes'
  BY <1>0 DEF CommitFails, RespTypes, respVars
<1>3. TtsTypes'
  BY <1>0 DEF CommitFails, TtsTypes
<1>4. MediaTypes'
  BY <1>0 DEF CommitFails, MediaTypes
<1>5. RowTypes'
  BY <1>0, RowHelpers DEF CommitFails, RowTypes, rowVars
<1> QED BY <1>1, <1>2, <1>3, <1>4, <1>5 DEF RestTypes

LEMMA RevocationTypes ==
  ASSUME Kernel, Kernel', RestTypes, Revocation
  PROVE  RestTypes'
<1>0. TurnTypes /\ RespTypes /\ TtsTypes /\ MediaTypes /\ RowTypes /\ epoch \in Epoch
  BY DEF RestTypes, Kernel, KernelTypes
<1>a. /\ UNCHANGED <<turnVars, endVars, appVars, taskVars, respVars, tts, media, writes, result, history>>
      /\ RevokeSelects \/ RevokeCommits \/ RevokeFails \/ StopOrphan
  BY DEF Revocation
<1>1. TurnTypes'
  <2>1. faults' \in 0..MaxFaults
    BY <1>0, <1>a, FaultTypes
       DEF TurnTypes, RevokeSelects, RevokeCommits, RevokeFails, StopOrphan
  <2> QED BY <1>0, <1>a, <2>1 DEF TurnTypes, turnVars, endVars, appVars, history, taskVars
<1>2. RespTypes'
  BY <1>0, <1>a DEF RespTypes, respVars
<1>3. TtsTypes' /\ MediaTypes'
  BY <1>0, <1>a DEF TtsTypes, MediaTypes
<1>4. RowTypes'
  <2>1. row' \in [status : Status, epoch : Epoch, fence : {1, 2},
                  revoked : {"no", "selected", "done"}]
    BY <1>0, <1>a DEF RowTypes, RevokeSelects, RevokeCommits, RevokeFails, StopOrphan, Status, Gone
  <2> QED BY <1>0, <1>a, <2>1 DEF RowTypes
<1> QED BY <1>1, <1>2, <1>3, <1>4 DEF RestTypes

LEMMA WorkerAnswersTypes ==
  ASSUME Kernel, Kernel', RestTypes, WorkerAnswers
  PROVE  RestTypes'
<1>0. TurnTypes /\ RespTypes /\ TtsTypes /\ MediaTypes /\ RowTypes /\ epoch \in Epoch
  BY DEF RestTypes, Kernel, KernelTypes
<1>1. TurnTypes'
  BY <1>0, FaultTypes DEF WorkerAnswers, TurnTypes, turnVars, endVars, appVars, history, taskVars
<1>2. RespTypes'
  BY <1>0 DEF WorkerAnswers, RespTypes, respVars
<1>3. TtsTypes'
  BY <1>0 DEF WorkerAnswers, TtsTypes
<1>4. MediaTypes'
  BY <1>0 DEF WorkerAnswers, MediaTypes
<1>5. RowTypes'
  BY <1>0 DEF WorkerAnswers, RowTypes, rowVars
<1> QED BY <1>1, <1>2, <1>3, <1>4, <1>5 DEF RestTypes

LEMMA WorkerDiesTypes ==
  ASSUME Kernel, Kernel', RestTypes, WorkerDies
  PROVE  RestTypes'
<1>0. TurnTypes /\ RespTypes /\ TtsTypes /\ MediaTypes /\ RowTypes /\ epoch \in Epoch
  BY DEF RestTypes, Kernel, KernelTypes
<1>1. TurnTypes'
  BY <1>0, FaultTypes DEF WorkerDies, TurnTypes, turnVars, endVars, appVars, history, taskVars
<1>2. RespTypes'
  BY <1>0 DEF WorkerDies, RespTypes, respVars
<1>3. TtsTypes'
  BY <1>0 DEF WorkerDies, TtsTypes
<1>4. MediaTypes'
  BY <1>0 DEF WorkerDies, MediaTypes
<1>5. RowTypes'
  BY <1>0 DEF WorkerDies, RowTypes, rowVars
<1> QED BY <1>1, <1>2, <1>3, <1>4, <1>5 DEF RestTypes

LEMMA RespOpenTypes ==
  ASSUME Kernel, Kernel', RestTypes, NEW e \in Epoch, RespOpen(e)
  PROVE  RestTypes'
<1>0. TurnTypes /\ RespTypes /\ TtsTypes /\ MediaTypes /\ RowTypes /\ epoch \in Epoch
  BY DEF RestTypes, Kernel, KernelTypes
<1>1. TurnTypes'
  <2>1. UNCHANGED <<RespQuiet, faults>> /\ (UNCHANGED responding \/ responding' = FALSE)
    BY Zenon DEF RespOpen, Fallen
  <2> QED BY <1>0, <2>1 DEF TurnTypes, RespQuiet, endVars, appVars, taskVars
<1>2. RespTypes'
  BY <1>0 DEF RespOpen, RespTypes, respVars, Moves, Fallen, RespState
<1>3. TtsTypes'
  BY <1>0 DEF RespOpen, TtsTypes, Moves, Fallen, Fenced
<1>4. MediaTypes'
  BY <1>0 DEF RespOpen, MediaTypes
<1>5. RowTypes'
  BY <1>0, RowHelpers DEF RespOpen, RowTypes, rowVars, Moves, Fallen, RespQuiet
<1> QED BY <1>1, <1>2, <1>3, <1>4, <1>5 DEF RestTypes

LEMMA RespLoadTypes ==
  ASSUME Kernel, Kernel', RestTypes, NEW e \in Epoch, RespLoad(e)
  PROVE  RestTypes'
<1>0. TurnTypes /\ RespTypes /\ TtsTypes /\ MediaTypes /\ RowTypes /\ epoch \in Epoch
  BY DEF RestTypes, Kernel, KernelTypes
<1>1. TurnTypes'
  <2>1. UNCHANGED <<RespQuiet, faults>> /\ (UNCHANGED responding \/ responding' = FALSE)
    BY Zenon DEF RespLoad, Fallen
  <2> QED BY <1>0, <2>1 DEF TurnTypes, RespQuiet, endVars, appVars, taskVars
<1>2. RespTypes'
  BY <1>0 DEF RespLoad, RespTypes, respVars, Moves, Fallen, RespState
<1>3. TtsTypes'
  BY <1>0 DEF RespLoad, TtsTypes, Moves, Fallen, Fenced
<1>4. MediaTypes'
  BY <1>0 DEF RespLoad, MediaTypes
<1>5. RowTypes'
  BY <1>0, RowHelpers DEF RespLoad, RowTypes, rowVars, Moves, Fallen, RespQuiet
<1> QED BY <1>1, <1>2, <1>3, <1>4, <1>5 DEF RestTypes

LEMMA RespClearTypes ==
  ASSUME Kernel, Kernel', RestTypes, NEW e \in Epoch, RespClear(e)
  PROVE  RestTypes'
<1>0. TurnTypes /\ RespTypes /\ TtsTypes /\ MediaTypes /\ RowTypes /\ epoch \in Epoch
  BY DEF RestTypes, Kernel, KernelTypes
<1>1. TurnTypes'
  <2>1. UNCHANGED <<RespQuiet, faults>> /\ (UNCHANGED responding \/ responding' = FALSE)
    BY Zenon DEF RespClear, Fallen
  <2> QED BY <1>0, <2>1 DEF TurnTypes, RespQuiet, endVars, appVars, taskVars
<1>2. RespTypes'
  BY <1>0 DEF RespClear, RespTypes, respVars, Moves, Fallen, RespState
<1>3. TtsTypes'
  BY <1>0 DEF RespClear, TtsTypes, Moves, Fallen, Fenced
<1>4. MediaTypes'
  BY <1>0 DEF RespClear, MediaTypes
<1>5. RowTypes'
  BY <1>0, RowHelpers DEF RespClear, RowTypes, rowVars, Moves, Fallen, RespQuiet
<1> QED BY <1>1, <1>2, <1>3, <1>4, <1>5 DEF RestTypes

LEMMA RespPublishTypes ==
  ASSUME Kernel, Kernel', RestTypes, NEW e \in Epoch, RespPublish(e)
  PROVE  RestTypes'
<1>0. TurnTypes /\ RespTypes /\ TtsTypes /\ MediaTypes /\ RowTypes /\ epoch \in Epoch
  BY DEF RestTypes, Kernel, KernelTypes
<1>1. TurnTypes'
  <2>1. UNCHANGED <<RespQuiet, faults>> /\ (UNCHANGED responding \/ responding' = FALSE)
    BY Zenon DEF RespPublish, Fallen
  <2> QED BY <1>0, <2>1 DEF TurnTypes, RespQuiet, endVars, appVars, taskVars
<1>2. RespTypes'
  BY <1>0 DEF RespPublish, RespTypes, respVars, Moves, Fallen, RespState
<1>3. TtsTypes'
  BY <1>0 DEF RespPublish, TtsTypes, Moves, Fallen, Fenced
<1>4. MediaTypes'
  <2>1. \/ media' = [media EXCEPT !.tracks = {e}]
        \/ media' = [media EXCEPT !.tracks = {}, !.cancelled = TRUE]
    BY Zenon DEF RespPublish
  <2> QED BY <1>0, <2>1 DEF MediaTypes
<1>5. RowTypes'
  BY <1>0, RowHelpers DEF RespPublish, RowTypes, rowVars, Moves, Fallen, Status, Gone, RespQuiet
<1> QED BY <1>1, <1>2, <1>3, <1>4, <1>5 DEF RestTypes

LEMMA RespActiveTypes ==
  ASSUME Kernel, Kernel', RestTypes, NEW e \in Epoch, RespActive(e)
  PROVE  RestTypes'
<1>0. TurnTypes /\ RespTypes /\ TtsTypes /\ MediaTypes /\ RowTypes /\ epoch \in Epoch
  BY DEF RestTypes, Kernel, KernelTypes
<1>1. TurnTypes'
  <2>1. UNCHANGED <<RespQuiet, faults>> /\ (UNCHANGED responding \/ responding' = FALSE)
    BY Zenon DEF RespActive, Fallen
  <2> QED BY <1>0, <2>1 DEF TurnTypes, RespQuiet, endVars, appVars, taskVars
<1>2. RespTypes'
  BY <1>0 DEF RespActive, RespTypes, respVars, Moves, Fallen, RespState
<1>3. TtsTypes'
  BY <1>0 DEF RespActive, TtsTypes, Moves, Fallen, Fenced
<1>4. MediaTypes'
  BY <1>0 DEF RespActive, MediaTypes
<1>5. RowTypes'
  BY <1>0, RowHelpers DEF RespActive, RowTypes, rowVars, Moves, Fallen, RespQuiet
<1> QED BY <1>1, <1>2, <1>3, <1>4, <1>5 DEF RestTypes

LEMMA RespPushTypes ==
  ASSUME Kernel, Kernel', RestTypes, NEW e \in Epoch, RespPush(e)
  PROVE  RestTypes'
<1>0. TurnTypes /\ RespTypes /\ TtsTypes /\ MediaTypes /\ RowTypes /\ epoch \in Epoch
  BY DEF RestTypes, Kernel, KernelTypes
<1>1. TurnTypes'
  <2>1. UNCHANGED <<RespQuiet, faults>> /\ (UNCHANGED responding \/ responding' = FALSE)
    BY Zenon DEF RespPush, Fallen
  <2> QED BY <1>0, <2>1 DEF TurnTypes, RespQuiet, endVars, appVars, taskVars
<1>2. RespTypes'
  BY <1>0 DEF RespPush, RespTypes, respVars, Fallen, RespState
<1>3. TtsTypes'
  BY <1>0 DEF RespPush, TtsTypes, Fallen, Fenced
<1>4. MediaTypes'
  BY <1>0 DEF RespPush, MediaTypes
<1>5. RowTypes'
  BY <1>0, RowHelpers DEF RespPush, RowTypes, rowVars, Fallen, RespQuiet
<1> QED BY <1>1, <1>2, <1>3, <1>4, <1>5 DEF RestTypes

LEMMA RespEndTypes ==
  ASSUME Kernel, Kernel', RestTypes, NEW e \in Epoch, RespEnd(e)
  PROVE  RestTypes'
<1>0. TurnTypes /\ RespTypes /\ TtsTypes /\ MediaTypes /\ RowTypes /\ epoch \in Epoch
  BY DEF RestTypes, Kernel, KernelTypes
<1>1. TurnTypes'
  <2>1. UNCHANGED <<RespQuiet, faults>> /\ (UNCHANGED responding \/ responding' = FALSE)
    BY Zenon DEF RespEnd, Fallen
  <2> QED BY <1>0, <2>1 DEF TurnTypes, RespQuiet, endVars, appVars, taskVars
<1>2. RespTypes'
  BY <1>0 DEF RespEnd, RespTypes, respVars, Moves, Fallen, RespState
<1>3. TtsTypes'
  BY <1>0 DEF RespEnd, TtsTypes, Moves, Fallen, Fenced
<1>4. MediaTypes'
  BY <1>0 DEF RespEnd, MediaTypes
<1>5. RowTypes'
  BY <1>0, RowHelpers DEF RespEnd, RowTypes, rowVars, Moves, Fallen, Status, Gone, RespQuiet
<1> QED BY <1>1, <1>2, <1>3, <1>4, <1>5 DEF RestTypes

LEMMA RespFinishTypes ==
  ASSUME Kernel, Kernel', RestTypes, NEW e \in Epoch, RespFinish(e)
  PROVE  RestTypes'
<1>0. TurnTypes /\ RespTypes /\ TtsTypes /\ MediaTypes /\ RowTypes /\ epoch \in Epoch
  BY DEF RestTypes, Kernel, KernelTypes
<1>1. TurnTypes'
  <2>1. UNCHANGED <<RespQuiet, faults>> /\ (UNCHANGED responding \/ responding' = FALSE)
    BY Zenon DEF RespFinish, Fallen
  <2> QED BY <1>0, <2>1 DEF TurnTypes, RespQuiet, endVars, appVars, taskVars
<1>2. RespTypes'
  BY <1>0 DEF RespFinish, RespTypes, respVars, Moves, Fallen, RespState
<1>3. TtsTypes'
  BY <1>0 DEF RespFinish, TtsTypes, Moves, Fallen, Fenced
<1>4. MediaTypes'
  BY <1>0 DEF RespFinish, MediaTypes
<1>5. RowTypes'
  BY <1>0, RowHelpers DEF RespFinish, RowTypes, rowVars, Moves, Fallen, RespQuiet
<1> QED BY <1>1, <1>2, <1>3, <1>4, <1>5 DEF RestTypes

LEMMA RespFailTypes ==
  ASSUME Kernel, Kernel', RestTypes, NEW e \in Epoch, RespFail(e)
  PROVE  RestTypes'
<1>0. TurnTypes /\ RespTypes /\ TtsTypes /\ MediaTypes /\ RowTypes /\ epoch \in Epoch
  BY DEF RestTypes, Kernel, KernelTypes
<1>1. TurnTypes'
  BY <1>0 DEF RespFail, TurnTypes, turnVars, endVars, appVars, history, RespQuiet, taskVars, Fallen
<1>2. RespTypes'
  BY <1>0 DEF RespFail, RespTypes, respVars, Moves, RespState
<1>3. TtsTypes'
  BY <1>0 DEF RespFail, TtsTypes, Halted
<1>4. MediaTypes'
  BY <1>0 DEF RespFail, MediaTypes
<1>5. RowTypes'
  BY <1>0 DEF RespFail, RowTypes, rowVars, RespQuiet
<1> QED BY <1>1, <1>2, <1>3, <1>4, <1>5 DEF RestTypes

LEMMA RespCancelledTypes ==
  ASSUME Kernel, Kernel', RestTypes, NEW e \in Epoch, RespCancelled(e)
  PROVE  RestTypes'
<1>0. TurnTypes /\ RespTypes /\ TtsTypes /\ MediaTypes /\ RowTypes /\ epoch \in Epoch
  BY DEF RestTypes, Kernel, KernelTypes
<1>1. TurnTypes'
  BY <1>0 DEF RespCancelled, TurnTypes, turnVars, endVars, appVars, history, RespQuiet, taskVars, Fallen
<1>2. RespTypes'
  BY <1>0 DEF RespCancelled, RespTypes, respVars, RespState
<1>3. TtsTypes'
  BY <1>0 DEF RespCancelled, TtsTypes, Halted
<1>4. MediaTypes'
  BY <1>0 DEF RespCancelled, MediaTypes
<1>5. RowTypes'
  BY <1>0, RowHelpers DEF RespCancelled, RowTypes, rowVars, RespQuiet
<1> QED BY <1>1, <1>2, <1>3, <1>4, <1>5 DEF RestTypes

LEMMA GenerateTypes ==
  ASSUME Kernel, Kernel', RestTypes, NEW e \in Epoch, Generate(e)
  PROVE  RestTypes'
BY RespOpenTypes, RespLoadTypes, RespClearTypes, RespPublishTypes, RespActiveTypes, RespPushTypes,
   RespEndTypes, RespFinishTypes, RespFailTypes, RespCancelledTypes, Zenon DEF Generate

LEMMA TasksTypes ==
  ASSUME Kernel, Kernel', ControlSound, RestTypes, Tasks
  PROVE  RestTypes'
<1>1. ASSUME NEW t \in Task, Close(t) PROVE RestTypes'
  BY <1>1, GatheredTypes, StoredTypes, AwaitedTypes, Zenon DEF Close
<1>2. ASSUME NEW t \in Task, Interrupt(t) PROVE RestTypes'
  BY <1>2, TtsCancelledTypes, TtsCancelRaisesTypes, ReapedTypes, MediaCancelledTypes,
     MediaCancelRaisesTypes, PersistedTypes, Zenon DEF Interrupt
<1>3. CASE Reap \/ FenceMedia \/ PrepSteps \/ BeatSteps \/ Subscribe \/ Endpoint \/ UserSpeaks \/ BargeIn
  BY <1>3, ReapTypes, FenceMediaTypes, PrepStepsTypes, BeatStepsTypes, ListenTypes, UserSpeaksTypes,
     BargeInTypes, Zenon
<1>4. CASE CloseCall \/ PrepFails \/ MicFails \/ TranscribeFails
  BY <1>4, ClosersTypes, Zenon
<1>5. CASE Transcribed \/ ControlCall \/ (\E b \in Body : Control(b)) \/ Record
  BY <1>5, TranscribedTypes, ControlCallTypes, ControlTypes, RecordTypes, Zenon
<1> QED BY <1>1, <1>2, <1>3, <1>4, <1>5, Zenon DEF Tasks

LEMMA TypesStep ==
  ASSUME Kernel, Kernel', ControlSound, RestTypes, [Next]_vars
  PROVE  RestTypes'
<1>1. CASE UNCHANGED vars
  BY <1>1 DEF vars, turnVars, endVars, appVars, taskVars, respVars, rowVars, history,
     RestTypes, TurnTypes, RespTypes, TtsTypes, MediaTypes, RowTypes
<1>2. ASSUME NEW t \in Task, Enter(t) \/ EnterClosed(t) PROVE RestTypes'
  BY <1>2, EnterTypes, EnterClosedTypes, Zenon
<1>3. CASE \E e \in Epoch : Generate(e)
  BY <1>3, GenerateTypes, Zenon
<1>4. CASE Tasks
  BY <1>4, TasksTypes, Zenon
<1>5. CASE (\E w \in writes : Commit(w) \/ CommitFails(w)) \/ Revocation \/ WorkerAnswers \/ WorkerDies
  BY <1>5, CommitTypes, CommitFailsTypes, RevocationTypes, WorkerAnswersTypes, WorkerDiesTypes, Zenon
<1> QED BY <1>1, <1>2, <1>3, <1>4, <1>5, Zenon DEF Next

LEMMA TypesInit ==
  ASSUME Init
  PROVE  RestTypes
<1>1. TurnTypes
  <2>1. response = None /\ responding = FALSE /\ fresh = FALSE /\ popped = [t \in Task |-> None]
    BY DEF Init
  <2>2. 0 \in Epoch
    BY MaxEpochIsNumber DEF Epoch
  <2>3. acked = 0 /\ overtaken = FALSE /\ body = None /\ controls = {} /\ faults = 0
    BY DEF Init
  <2>4. ready = FALSE /\ leaseLost = FALSE /\ inMap = TRUE /\ reply = "none"
    BY DEF Init
  <2>5. 0 \in 0..MaxFaults
    BY ActorAssumption
  <2> QED BY <2>1, <2>2, <2>3, <2>4, <2>5 DEF TurnTypes
<1>2. RespTypes
  BY DEF Init, RespTypes, RespState
<1>3. TtsTypes /\ MediaTypes
  BY DEF Init, TtsTypes, MediaTypes
<1>4. RowTypes
  <2>1. 0 \in Epoch
    BY MaxEpochIsNumber DEF Epoch
  <2> QED BY <2>1 DEF Init, RowTypes, Status, Gone
<1> QED BY <1>1, <1>2, <1>3, <1>4 DEF RestTypes

\* What the layers say of types, and of the queue, is the invariant of the model.
LEMMA TypesAreOK ==
  ASSUME Kernel, ControlSound, RestTypes
  PROVE  TypeOK
<1>1. /\ epoch \in Epoch /\ response \in Epoch \cup {None}
      /\ {responding, fresh, ready, closing, closed, closeDone, persisted, leaseLost,
          inMap} \subseteq BOOLEAN
      /\ reply \in {"none", "CLOSED", "pending"}
      /\ pc \in [Task -> TaskState] /\ mode \in [Task -> {"interrupt", "answer", "close"}]
      /\ popped \in [Task -> Epoch \cup {None}] /\ lockQ \in Seq(Task)
  BY DEF Kernel, KernelTypes, RestTypes, TurnTypes
<1>2. \A t \in Task : (\E i \in DOMAIN lockQ : lockQ[i] = t) <=> pc[t] \in Asking \cup Interrupting
  BY DEF Kernel, QueueSound, In
<1>3. /\ body \in Body \cup {None} /\ controls \subseteq 1..MaxSequence
      /\ acked \in Epoch /\ overtaken \in BOOLEAN /\ applied \subseteq Body /\ again \in BOOLEAN
      /\ faults \in 0..MaxFaults
  BY DEF RestTypes, TurnTypes, ControlSound
<1> QED BY <1>1, <1>2, <1>3 DEF TypeOK, RestTypes, RespTypes, TtsTypes, MediaTypes, RowTypes

\* Controls, answers, the floor and the types.
Layers == Kernel /\ ControlSound /\ FloorSound /\ FreshSound /\ RestTypes

LEMMA LayersHold == Spec => []Layers
<1>1. Init => Layers
  BY KernelInit, TypesInit, TasksAreSix
  DEF Init, Layers, ControlSound, FloorSound, FreshSound
<1>2. Layers /\ [Next]_vars => Layers'
  <2> SUFFICES ASSUME Layers, [Next]_vars PROVE Layers'
    OBVIOUS
  <2>1. Kernel'
    BY NextIsShape, ShapeKernel DEF Layers
  <2> QED BY <2>1, ControlStep, FloorStep, FreshStep, TypesStep DEF Layers
<1> QED BY <1>1, <1>2, PTL DEF Spec

-----------------------------------------------------------------------------
(* Where a task goes                                                       *)

\* Past the provider in interrupt(), past the interrupt in close(), or waiting for the row.
Later == {"reap", "media", "persist", "gather", "store", "write"}

\* Nothing else that moves the queue brings a task there.
LEMMA ShapeRests ==
  ASSUME Kernel, NEW x \in Task, pc'[x] \in Later, pc'[x] # pc[x],
         \/ \E t \in Task : Left(t) \/ Finished(t) \/ Shed(t)
         \/ \E t \in Task, lost \in BOOLEAN : Begins(t, lost, lockQ) \/ Begins(t, lost, Tail(lockQ))
         \/ \E t \in Task, m \in {"interrupt", "answer"} : Asked(t, m)
  PROVE  FALSE
<1>0. pc \in [Task -> TaskState]
  BY DEF Kernel, KernelTypes
<1>1. ASSUME NEW t \in Task, Left(t) \/ Finished(t) \/ Shed(t) PROVE FALSE
  BY <1>0, <1>1 DEF Left, Finished, Shed, Later
<1>2. ASSUME NEW t \in Task, NEW lost \in BOOLEAN, NEW q, Begins(t, lost, q) PROVE FALSE
  <2>1. AtLock(q) \notin Later
    BY DEF AtLock, Later
  <2> QED BY <1>0, <1>2, <2>1 DEF Begins, BeginClose, Later
<1>3. ASSUME NEW t \in Task, NEW m \in {"interrupt", "answer"}, Asked(t, m) PROVE FALSE
  <2>1. pc'[t] \in Asking /\ \A y \in Task : y # t => pc'[y] = pc[y]
    BY <1>3, AskedQueue
  <2> QED BY <2>1 DEF Later
<1> QED BY <1>1, <1>2, <1>3

\* The interrupt of x was that of a close, and is over.
Halts(x) == Interrupt(x) /\ pc[x] \in Interrupting /\ Stopped(x) /\ pc'[x] = "gather"

LEMMA StopMoves ==
  ASSUME Kernel, NEW t \in Task, Interrupt(t), pc[t] \in Interrupting,
         Stopped(t) \/ Left(t) \/ Begins(t, FALSE, Tail(lockQ)),
         NEW x \in Task, pc'[x] \in Later, pc'[x] # pc[x]
  PROVE  x = t /\ Halts(x)
<1>1. Stopped(t)
  BY ShapeRests
<1>2. pc'[x] = IF x = t THEN "gather" ELSE IF x \in Listeners THEN "over" ELSE pc[x]
  BY <1>1, StoppedQueue
<1> QED BY <1>1, <1>2 DEF Later, Halts

\* What each step of interrupt() and close() does to its own place.
LEMMA StepMoves ==
  ASSUME Kernel, NEW t \in Task, Close(t) \/ Interrupt(t), NEW x \in Task,
         pc'[x] \in Later, pc'[x] # pc[x]
  PROVE  x = t /\ (TtsCancelled(x) \/ Reaped(x) \/ MediaCancelled(x) \/ Gathered(x) \/ Halts(x))
<1>0. pc \in [Task -> TaskState]
  BY DEF Kernel, KernelTypes
<1>1. CASE TtsCancelled(t) \/ Reaped(t) \/ MediaCancelled(t) \/ Gathered(t)
  <2>1. \E s : pc' = [pc EXCEPT ![t] = s]
    BY <1>1 DEF TtsCancelled, CancelResponse, Reaped, MediaCancelled, Gathered
  <2>2. x = t
    BY <1>0, <2>1
  <2> QED BY <1>1, <2>2
<1>2. CASE Stored(t) \/ Awaited(t)
  <2>1. \E s \in {"idle", "over"} : pc' = [pc EXCEPT ![t] = s]
    BY <1>2 DEF Stored, Awaited, Told
  <2> QED BY <1>0, <2>1 DEF Later
<1>3. CASE TtsCancelRaises(t) \/ MediaCancelRaises(t)
  <2>1. UNCHANGED <<turnVars, closeDone, persisted>> /\ Raised(t) /\ pc[t] \in Interrupting
    BY <1>3, Zenon DEF TtsCancelRaises, MediaCancelRaises
  <2>2. UNCHANGED <<epoch, closeDone, persisted>>
    BY <2>1 DEF turnVars
  <2>3. Interrupt(t)
    BY <1>3, Zenon DEF Interrupt
  <2> QED BY <2>1, <2>2, <2>3, RaisedShape, StopMoves
<1>4. CASE Persisted(t)
  <2>1. UNCHANGED <<epoch, closeDone, persisted>> /\ pc[t] = "persist"
    BY <1>4, Zenon DEF Persisted
  <2>2. (Returned(t) /\ UNCHANGED closing) \/ (Raised(t) /\ mode[t] # "close")
    BY <1>4, Zenon DEF Persisted
  <2>3. Interrupt(t)
    BY <1>4, Zenon DEF Interrupt
  <2> QED BY <2>1, <2>2, <2>3, ReturnedShape, RaisedShape, StopMoves
<1> QED BY <1>1, <1>2, <1>3, <1>4 DEF Close, Interrupt

LEMMA LaterMoves ==
  ASSUME Kernel, [Next]_vars, NEW x \in Task, pc'[x] \in Later, pc'[x] # pc[x]
  PROVE  \/ Enter(x) \/ TtsCancelled(x) \/ Reaped(x) \/ MediaCancelled(x) \/ Gathered(x)
         \/ Halts(x) /\ Begun
         \/ x = Prep /\ pc[Prep] = "connect" /\ PrepSteps /\ pc'[x] = "write"
         \/ x = Beat /\ pc[Beat] = "idle" /\ BeatSteps /\ pc'[x] = "write"
<1>0. pc \in [Task -> TaskState]
  BY DEF Kernel, KernelTypes
<1>1. CASE UNCHANGED vars
  BY <1>1 DEF vars, taskVars
<1>2. ASSUME NEW t \in Task, Enter(t) PROVE Enter(x)
  <2>1. \E s : pc' = [pc EXCEPT ![t] = s]
    BY <1>2, EnterShape DEF Entered
  <2>2. x = t
    BY <1>0, <2>1
  <2> QED BY <1>2, <2>2
<1>3. ASSUME NEW t \in Task, EnterClosed(t) PROVE FALSE
  BY <1>3, EnterClosedShape, ShapeRests
<1>4. ASSUME NEW e \in Epoch, Generate(e) PROVE FALSE
  BY <1>4, GenerateRests DEF RespQuiet, taskVars
<1>5. CASE (\E w \in writes : Commit(w) \/ CommitFails(w)) \/ Revocation \/ WorkerAnswers \/ WorkerDies
  BY <1>5 DEF Commit, CommitFails, Revocation, WorkerAnswers, WorkerDies, taskVars
<1>6. ASSUME NEW t \in Task, Close(t) \/ Interrupt(t)
      PROVE  TtsCancelled(x) \/ Reaped(x) \/ MediaCancelled(x) \/ Gathered(x) \/ Halts(x)
  BY <1>6, StepMoves
<1>7. CASE PrepSteps
  <2>1. \/ pc[Prep] = "open" /\ pc' = [pc EXCEPT ![Prep] = "connect"]
        \/ pc[Prep] = "connect" /\ pc' = [pc EXCEPT ![Prep] = "write"]
        \/ pc' = [pc EXCEPT ![Prep] = "over", ![Beat] = IF WithLease THEN "idle" ELSE @]
    BY <1>7, Zenon DEF PrepSteps
  <2> QED BY <1>0, <1>7, <2>1, TasksAreSix DEF Later
<1>8. CASE BeatSteps
  <2>1. \/ \E lost \in BOOLEAN : Fails(Beat, lost) /\ pc[Beat] \in {"idle", "write"}
        \/ pc[Beat] = "idle" /\ \E s \in {"over", "write"} : pc' = [pc EXCEPT ![Beat] = s]
        \/ pc' = [pc EXCEPT ![Beat] = "idle"]
    BY <1>8, Zenon DEF BeatSteps
  <2>2. CASE \E lost \in BOOLEAN : Fails(Beat, lost) /\ pc[Beat] \in {"idle", "write"}
    BY <2>2, FailsShape, TasksAreSix, ShapeRests
  <2> QED BY <1>0, <1>8, <2>1, <2>2, TasksAreSix DEF Later
<1>9. CASE CloseCall \/ PrepFails \/ MicFails \/ TranscribeFails
  <2>1. \/ UNCHANGED taskVars
        \/ \E t \in {Out, Prep, Mic, Fin} : Fails(t, FALSE) /\ pc[t] \in {"idle", "asr"} \cup Preparing
    BY <1>9, Zenon DEF CloseCall, PrepFails, MicFails, TranscribeFails
  <2>2. CASE UNCHANGED taskVars
    BY <2>2 DEF taskVars
  <2>3. ASSUME NEW t \in {Out, Prep, Mic, Fin}, Fails(t, FALSE), pc[t] \in {"idle", "asr"} \cup Preparing
        PROVE  FALSE
    <3>1. t \in Task /\ t # Ctl /\ pc[t] \notin Inside \cup Ending
      BY <2>3, TasksAreSix
    <3> QED BY <2>3, <3>1, FailsShape, ShapeRests
  <2> QED BY <2>1, <2>2, <2>3
<1>10. CASE Reap \/ FenceMedia \/ UserSpeaks
  BY <1>10 DEF Reap, FenceMedia, UserSpeaks, taskVars
<1>11. CASE Subscribe \/ Endpoint
  <2>1. \E t \in {Mic, Fin}, s \in {"over", "idle", "asr"} : pc' = [pc EXCEPT ![t] = s]
    BY <1>11 DEF Subscribe, Endpoint, Dropped
  <2> QED BY <1>0, <2>1, TasksAreSix DEF Later
<1>12. CASE BargeIn
  BY <1>12, BargeInShape, ShapeRests, TasksAreSix
<1>13. CASE Transcribed /\ LoopFree
  <2>1. Asked(Fin, "answer") \/ pc' = [pc EXCEPT ![Fin] = "idle"]
    BY <1>13, TranscribedShape
  <2> QED BY <1>0, <2>1, ShapeRests, TasksAreSix DEF Later
<1>14. CASE ControlCall \/ Record
  BY <1>0, <1>14, TasksAreSix DEF ControlCall, Record, Later
<1>15. ASSUME NEW b \in Body, Control(b) PROVE FALSE
  <2>1. pc' = [pc EXCEPT ![Ctl] = "record"] \/ Asked(Ctl, "answer") \/ Asked(Ctl, "interrupt")
    <3>1. /\ Room /\ pc[Ctl] = "idle" /\ UNCHANGED <<turnVars, endVars>>
          /\ Ask(Ctl, "interrupt") \/ Ask(Ctl, "answer") \/ pc' = [pc EXCEPT ![Ctl] = "record"]
      BY <1>15, Zenon DEF Control
    <3> QED BY <3>1, TasksAreSix DEF Asked, turnVars, endVars
  <2> QED BY <1>0, <2>1, ShapeRests, TasksAreSix DEF Later
<1> HIDE DEF Inside, Holding, Ending, Preparing, Asking, Interrupting
<1>16. CASE LoopFree /\ Begun /\ Tasks
  BY <1>16, <1>6, <1>7, <1>8, <1>9, <1>10, <1>11, <1>12, <1>13, <1>14, <1>15, Zenon DEF Tasks
<1> QED BY <1>1, <1>2, <1>3, <1>4, <1>5, <1>16, Zenon DEF Next

-----------------------------------------------------------------------------
(* The provider's key                                                      *)

\* A close that stopped the session stays so.
LEMMA ClosedStays ==
  ASSUME Kernel, [Next]_vars, closed
  PROVE  closed'
<1>1. Shape
  BY NextIsShape
<1>2. ASSUME NEW t \in Task, Stopped(t) PROVE closed'
  BY <1>2, StoppedQueue
<1>3. ASSUME NEW t \in Task, Entered(t) \/ Left(t) \/ Finished(t) \/ Shed(t) PROVE closed'
  BY <1>3 DEF Entered, Left, Finished, Shed
<1>4. ASSUME NEW t \in Task, NEW lost \in BOOLEAN, NEW q, Begins(t, lost, q) PROVE closed'
  BY <1>4 DEF Begins
<1>5. ASSUME NEW t \in Task, NEW m, Asked(t, m) PROVE closed'
  BY <1>5 DEF Asked
<1> QED BY <1>1, <1>2, <1>3, <1>4, <1>5 DEF Shape, Aside

\* Whoever begins to interrupt begins a turn.
LEMMA EnteredIsEnter ==
  ASSUME Kernel, [Next]_vars, NEW x \in Task, pc'[x] \in Interrupting, pc[x] \notin Interrupting
  PROVE  \E t \in Task : Enter(t)
<1>1. Entered(x)
  BY NextIsShape, NewHolder
<1>2. epoch' # epoch
  BY <1>1 DEF Entered, Kernel, KernelTypes, Epoch
<1>3. ~Apart
  BY <1>2 DEF Apart
<1> QED BY NextShape, <1>2, <1>3, EndpointShape, UserSpeaksShape, TranscribedShape, RecordShape, ControlShape

\* The step that creates a response ends an interrupt: nobody interrupts after it.
LEMMA CreatedAlone ==
  ASSUME Kernel, NEW t \in Task, EnterClosed(t) \/ Persisted(t),
         ~(UNCHANGED <<response, responding, resp, doomed>>), NEW x \in Task
  PROVE  pc'[x] \notin Interrupting
<1>1. CASE EnterClosed(t)
  BY <1>1, EnterClosedShape, NobodyLeft
<1>2. CASE Persisted(t)
  <2>1. /\ pc[t] \in Interrupting /\ Returned(t)
        /\ UNCHANGED <<epoch, closing, closeDone, persisted>>
    BY <1>2, Zenon DEF Persisted, Interrupting, respVars
  <2> QED BY <2>1, ReturnedShape, NobodyLeft
<1> QED BY <1>1, <1>2

\* What a response does to itself and to the provider.
LEMMA GenerateEffect ==
  ASSUME RespTypes, TtsTypes, NEW e \in Epoch, Generate(e)
  PROVE  /\ \E s \in RespState \ {"none", "open"} : resp' = [resp EXCEPT ![e] = s]
         /\ e \notin doomed => resp[e] # "none"
         /\ doomed' = doomed \/ (doomed' = doomed \ {e} /\ resp'[e] = "done")
         /\ resp'[e] = "load" => resp[e] = "open" /\ e \notin doomed
         /\ \/ tts'.key \in {tts.key, None}
            \/ tts'.key = e /\ e \notin doomed /\ resp[e] \in {"open", "load"}
         /\ \/ tts'.req = tts.req \/ tts'.req = "stopped"
            \/ tts'.req = "running" /\ resp[e] = "speak" /\ e = epoch
         /\ UNCHANGED faults
<1> USE DEF RespTypes, TtsTypes, RespState, Moves
<1>1. ASSUME NEW x, x \in {tts, [tts EXCEPT !.worker = "none"]}, Fallen(e, x)
      PROVE  /\ e \notin doomed
             /\ \E s \in {"failing", "done"} : resp' = [resp EXCEPT ![e] = s]
             /\ tts'.key \in {tts.key, None} /\ tts'.req = tts.req
  <2>1. x.key = tts.key /\ x.req = tts.req
    BY <1>1
  <2>2. x \in [key : Epoch \cup {None}, worker : {"none", "loading", "up", "dead"},
              req : {"none", "running", "stopped", "failed"}]
    BY <1>1
  <2>3. Fenced(x).key = None /\ Fenced(x).req = x.req
    BY <2>2 DEF Fenced
  <2>4. tts' = x \/ tts' = Fenced(x)
    BY <1>1 DEF Fallen
  <2> QED BY <1>1, <2>1, <2>3, <2>4 DEF Fallen
<1> HIDE DEF Fallen
<1>2. CASE RespOpen(e) BY <1>1, <1>2 DEF RespOpen
<1>3. CASE RespLoad(e) BY <1>1, <1>3 DEF RespLoad
<1>4. CASE RespClear(e) BY <1>1, <1>4 DEF RespClear
<1>5. CASE RespPublish(e) BY <1>1, <1>5 DEF RespPublish
<1>6. CASE RespActive(e) BY <1>1, <1>6 DEF RespActive
<1>7. CASE RespPush(e)
  <2>1. CASE tts.worker = "up"
    BY <1>7, <2>1 DEF RespPush
  <2>2. CASE tts.worker # "up"
    BY <1>1, <1>7, <2>2 DEF RespPush
  <2> QED BY <2>1, <2>2
<1>8. CASE RespEnd(e) BY <1>1, <1>8 DEF RespEnd
<1>9. CASE RespFinish(e) BY <1>1, <1>9 DEF RespFinish
<1>10. CASE RespFail(e) BY <1>10 DEF RespFail, Halted
<1>11. CASE RespCancelled(e)
  <2>1. /\ e \in doomed /\ doomed' = doomed \ {e} /\ resp' = [resp EXCEPT ![e] = "done"]
        /\ UNCHANGED faults
        /\ tts' \in {tts, [tts EXCEPT !.worker = "none"], Halted(tts)}
    BY <1>11 DEF RespCancelled
  <2> QED BY <2>1 DEF Halted
<1> QED BY <1>2, <1>3, <1>4, <1>5, <1>6, <1>7, <1>8, <1>9, <1>10, <1>11, Zenon DEF Generate

PoppedKept(x) == popped'[x] \in {popped[x], None}

\* Only a turn that begins makes an interrupt take over a response.
LEMMA PoppedMoves ==
  ASSUME TurnTypes, [Next]_vars, NEW x \in Task
  PROVE  popped'[x] \in {popped[x], None} \/ (Enter(x) /\ popped'[x] = response)
<1> HIDE DEF Inside, Holding, Ending, Preparing, Asking, Interrupting
<1> USE DEF PoppedKept
<1>0. popped \in [Task -> Epoch \cup {None}]
  BY DEF TurnTypes
<1>1. CASE UNCHANGED popped
  BY <1>1
<1>2. ASSUME NEW t \in Task, popped' = [popped EXCEPT ![t] = None] PROVE PoppedKept(x)
  BY <1>0, <1>2
<1>3. ASSUME NEW t \in Task, NEW q, StopTasks(t, q) PROVE PoppedKept(x)
  <2>1. popped' = [y \in Task |-> IF y \in (Listeners \ {t}) \cup {t} THEN None ELSE popped[y]]
    BY <1>3, Zenon DEF StopTasks
  <2> QED BY <2>1
<1>4. ASSUME NEW t \in Task, Returned(t) \/ Raised(t) PROVE PoppedKept(x)
  <2>1. StopTasks(t, Tail(lockQ)) \/ popped' = [popped EXCEPT ![t] = None]
    BY <1>4, Zenon DEF Returned, Raised
  <2> QED BY <1>2, <1>3, <2>1
<1>5. ASSUME NEW t \in Task, Enter(t) PROVE PoppedKept(x) \/ (Enter(x) /\ popped'[x] = response)
  <2>1. popped' = [popped EXCEPT ![t] = response]
    BY <1>5 DEF Enter
  <2> QED BY <1>0, <1>5, <2>1
<1>6. ASSUME NEW t \in Task, EnterClosed(t) PROVE PoppedKept(x)
  BY <1>4, <1>6 DEF EnterClosed
<1>7. ASSUME NEW e \in Epoch, Generate(e) PROVE PoppedKept(x)
  BY <1>7, GenerateRests DEF RespQuiet, taskVars
<1>8. ASSUME NEW t \in Task, Close(t) PROVE PoppedKept(x)
  <2>1. UNCHANGED popped
    BY <1>8, Zenon DEF Close, Gathered, Stored, Awaited
  <2> QED BY <2>1
<1>9. ASSUME NEW t \in Task, Interrupt(t) PROVE PoppedKept(x)
  <2>1. UNCHANGED popped \/ Returned(t) \/ Raised(t)
    BY <1>9, Zenon DEF Interrupt, TtsCancelled, TtsCancelRaises, Reaped, MediaCancelled, MediaCancelRaises, Persisted
  <2> QED BY <1>4, <2>1
<1>10. CASE Subscribe \/ Endpoint
  <2>1. \E t \in {Mic, Fin} : popped' = [popped EXCEPT ![t] = None]
    BY <1>10, Zenon DEF Subscribe, Endpoint, Dropped
  <2> QED BY <1>2, <2>1, TasksAreSix
<1>11. CASE CloseCall \/ Reap \/ FenceMedia \/ PrepSteps \/ PrepFails \/ BeatSteps
  <2>1. UNCHANGED popped
    BY <1>11, Zenon DEF CloseCall, Reap, FenceMedia, PrepSteps, PrepFails, BeatSteps, Fails, taskVars
  <2> QED BY <2>1
<1>12. CASE UserSpeaks \/ BargeIn \/ MicFails \/ Transcribed \/ TranscribeFails \/ ControlCall
  <2>1. UNCHANGED popped
    BY <1>12, Zenon DEF UserSpeaks, BargeIn, MicFails, Transcribed, TranscribeFails, ControlCall, Fails, taskVars
  <2> QED BY <2>1
<1>13. CASE (\E b \in Body : Control(b)) \/ Record
  <2>1. UNCHANGED popped
    BY <1>13, Zenon DEF Control, Record
  <2> QED BY <2>1
<1>14. CASE (\E w \in writes : Commit(w) \/ CommitFails(w)) \/ Revocation \/ WorkerAnswers \/ WorkerDies \/ UNCHANGED vars
  <2>1. UNCHANGED popped
    BY <1>14, Zenon DEF Commit, CommitFails, Revocation, WorkerAnswers, WorkerDies, taskVars, vars
  <2> QED BY <2>1
<1>15. CASE Tasks
  BY <1>8, <1>9, <1>10, <1>11, <1>12, <1>13, <1>15, Zenon DEF Tasks
<1> QED BY <1>5, <1>6, <1>7, <1>14, <1>15, Zenon DEF Next

\* Who touches the responses and the provider.
LEMMA SpeechFrame ==
  ASSUME [Next]_vars
  PROVE  \/ \E t \in Task : Enter(t) \/ EnterClosed(t) \/ TtsCancelled(t) \/ Gathered(t) \/ Persisted(t)
         \/ \E t \in Task : TtsCancelRaises(t)
         \/ \E e \in Epoch : Generate(e)
         \/ WorkerAnswers \/ WorkerDies \/ PrepSteps
         \/ UNCHANGED <<resp, doomed, tts, response, epoch>>
<1> HIDE DEF Inside, Holding, Ending, Preparing, Asking, Interrupting
<1> USE DEF turnVars, respVars
<1>1. CASE UNCHANGED vars
  BY <1>1, Zenon DEF vars
<1>2. ASSUME NEW t \in Task, Close(t) PROVE Gathered(t) \/ UNCHANGED <<resp, doomed, tts, response, epoch>>
  BY <1>2, Zenon DEF Close, Stored, Awaited
<1>3. ASSUME NEW t \in Task, Interrupt(t)
      PROVE  \/ TtsCancelled(t) \/ Persisted(t) \/ TtsCancelRaises(t)
             \/ UNCHANGED <<resp, doomed, tts, response, epoch>>
  BY <1>3, Zenon DEF Interrupt, Reaped, MediaCancelled, MediaCancelRaises
<1>4. CASE CloseCall \/ Reap \/ FenceMedia \/ PrepFails \/ BeatSteps
  BY <1>4, Zenon DEF CloseCall, Reap, FenceMedia, PrepFails, BeatSteps, Fails
<1>5. CASE Subscribe \/ Endpoint \/ UserSpeaks \/ BargeIn \/ MicFails
  BY <1>5, Zenon DEF Subscribe, Endpoint, UserSpeaks, BargeIn, MicFails, Fails, Dropped
<1>6. CASE Transcribed \/ TranscribeFails \/ ControlCall \/ (\E b \in Body : Control(b)) \/ Record
  BY <1>6, Zenon DEF Transcribed, TranscribeFails, ControlCall, Control, Record, Fails
<1>7. CASE (\E w \in writes : Commit(w) \/ CommitFails(w)) \/ Revocation
  BY <1>7, Zenon DEF Commit, CommitFails, Revocation
<1>8. CASE Tasks
  BY <1>2, <1>3, <1>4, <1>5, <1>6, <1>8, Zenon DEF Tasks
<1> QED BY <1>1, <1>7, <1>8, Zenon DEF Next

LEMMA FaultsGrow ==
  ASSUME [Next]_vars
  PROVE  UNCHANGED faults \/ faults' = faults + 1
<1> HIDE DEF Inside, Holding, Ending, Preparing, Asking, Interrupting
<1>1. ASSUME NEW t \in Task, Enter(t) \/ EnterClosed(t) \/ Close(t) \/ Interrupt(t)
      PROVE UNCHANGED faults \/ faults' = faults + 1
  BY <1>1, Zenon DEF Enter, EnterClosed, Close, Gathered, Stored, Awaited, Interrupt, TtsCancelled,
     TtsCancelRaises, Reaped, MediaCancelled, MediaCancelRaises, Persisted, Fault
<1>2. ASSUME NEW e \in Epoch, Generate(e) PROVE UNCHANGED faults
  BY <1>2, Zenon DEF Generate, RespOpen, RespLoad, RespClear, RespPublish, RespActive, RespPush,
     RespEnd, RespFinish, RespFail, RespCancelled
<1>3. CASE CloseCall \/ Reap \/ FenceMedia \/ PrepSteps \/ PrepFails \/ BeatSteps \/ Subscribe \/ Endpoint
  BY <1>3, Zenon DEF CloseCall, Reap, FenceMedia, PrepSteps, PrepFails, BeatSteps, Subscribe, Endpoint,
     Dropped, Fault
<1>4. CASE UserSpeaks \/ BargeIn \/ MicFails \/ Transcribed \/ TranscribeFails \/ ControlCall
           \/ (\E b \in Body : Control(b)) \/ Record
  BY <1>4, Zenon DEF UserSpeaks, BargeIn, MicFails, Transcribed, TranscribeFails, ControlCall, Control,
     Record, Fault
<1>5. CASE (\E w \in writes : Commit(w) \/ CommitFails(w)) \/ Revocation \/ WorkerAnswers \/ WorkerDies \/ UNCHANGED vars
  BY <1>5, Zenon DEF Commit, CommitFails, Revocation, WorkerAnswers, WorkerDies, Fault, vars,
     RevokeSelects, RevokeCommits, RevokeFails, StopOrphan
<1>6. CASE Tasks
  BY <1>1, <1>3, <1>4, <1>6, Zenon DEF Tasks
<1> QED BY <1>1, <1>2, <1>5, <1>6, Zenon DEF Next

\* The end of an interrupt creates the response of its turn, if it is to be answered.
LEMMA ReturnedEffect ==
  ASSUME NEW t \in Task, EnterClosed(t) \/ Persisted(t)
  PROVE  /\ UNCHANGED <<epoch, tts, doomed>>
         /\ \/ UNCHANGED <<resp, response>>
            \/ resp' = [resp EXCEPT ![epoch] = "open"] /\ response' = epoch /\ mode[t] = "answer"
         /\ (closed /\ EnterClosed(t)) \/ pc[t] = "persist"
<1>1. UNCHANGED <<epoch, tts>> /\ ((closed /\ EnterClosed(t)) \/ pc[t] = "persist")
  BY Zenon DEF EnterClosed, Persisted
<1>2. Returned(t) \/ UNCHANGED <<response, respVars>>
  BY Zenon DEF EnterClosed, Persisted
<1>3. ASSUME Returned(t)
      PROVE  /\ UNCHANGED doomed
             /\ \/ UNCHANGED <<resp, response>>
                \/ resp' = [resp EXCEPT ![epoch] = "open"] /\ response' = epoch /\ mode[t] = "answer"
  BY <1>3, Zenon DEF Returned, respVars
<1> QED BY <1>1, <1>2, <1>3 DEF respVars

\* The beginning of an interrupt.
LEMMA EnterEffect ==
  ASSUME Kernel, NEW t \in Task, Enter(t)
  PROVE  /\ ~closed /\ epoch' = epoch + 1 /\ response' = None /\ UNCHANGED resp
         /\ popped'[t] = response \/ t \notin DOMAIN popped
         /\ \/ CancelSuspends /\ UNCHANGED doomed /\ pc' = [pc EXCEPT ![t] = "tts"]
            \/ ~CancelSuspends /\ CancelResponse(t, response)
         /\ tts' = Fenced(tts)
BY DEF Enter

LEMMA CancelledResponse ==
  ASSUME NEW t, NEW r, CancelResponse(t, r)
  PROVE  /\ doomed \subseteq doomed' /\ \A e \in doomed' : e \in doomed \/ (e = r /\ r # None)
         /\ r # None => resp[r] = "done" \/ r \in doomed'
BY DEF CancelResponse

-----------------------------------------------------------------------------
\* Responses that are current, taken over or told to stop have been created; those of
\* turns to come, and of the one that is being made, have not.
BornSound ==
  /\ response # None => resp[response] # "none"
  /\ \A t \in Task : popped[t] # None => resp[popped[t]] # "none"
  /\ \A e \in doomed : resp[e] # "none"
  /\ \A e \in Epoch : e > epoch => resp[e] = "none"
  /\ (\E t \in Task : pc[t] \in Interrupting) => resp[epoch] = "none"

\* A response is created for the current turn, when an interrupt ends, and not undone.
LEMMA RespGrows ==
  ASSUME Kernel, RestTypes, BornSound, [Next]_vars, NEW e \in Epoch
  PROVE  /\ resp[e] # "none" => resp'[e] # "none"
         /\ resp'[e] # "none" /\ resp[e] = "none" =>
              /\ e = epoch /\ UNCHANGED <<epoch, doomed>> /\ response' = epoch
              /\ \A x \in Task : pc'[x] \notin Interrupting
<1>0. resp \in [Epoch -> RespState] /\ epoch \in Epoch /\ RespTypes /\ TtsTypes
  BY DEF RestTypes, RespTypes, Kernel, KernelTypes
<1>1. CASE UNCHANGED resp
  BY <1>1
<1>2. ASSUME NEW f \in Epoch, Generate(f)
      PROVE  resp[e] # "none" <=> resp'[e] # "none"
  <2>1. PICK s \in RespState \ {"none", "open"} : resp' = [resp EXCEPT ![f] = s]
    BY <1>0, <1>2, GenerateEffect
  <2>2. resp[f] # "none"
    BY <1>0, <1>2, GenerateEffect DEF BornSound
  <2> QED BY <1>0, <2>1, <2>2
<1>3. ASSUME NEW t \in Task, EnterClosed(t) \/ Persisted(t), ~UNCHANGED resp
      PROVE  /\ resp[e] # "none" => resp'[e] # "none"
             /\ resp'[e] # "none" /\ resp[e] = "none" =>
                  /\ e = epoch /\ UNCHANGED <<epoch, doomed>> /\ response' = epoch
                  /\ \A x \in Task : pc'[x] \notin Interrupting
  BY <1>0, <1>3, ReturnedEffect, CreatedAlone
<1>4. \/ UNCHANGED resp
      \/ \E f \in Epoch : Generate(f)
      \/ \E t \in Task : EnterClosed(t) \/ Persisted(t)
  <2>1. ASSUME NEW t \in Task, Enter(t) \/ TtsCancelled(t) \/ Gathered(t) \/ TtsCancelRaises(t)
        PROVE UNCHANGED resp
    BY <2>1, Zenon DEF Enter, TtsCancelled, Gathered, TtsCancelRaises, respVars
  <2>2. CASE WorkerAnswers \/ WorkerDies \/ PrepSteps
    BY <2>2, Zenon DEF WorkerAnswers, WorkerDies, PrepSteps, respVars
  <2> QED BY SpeechFrame, <2>1, <2>2
<1> QED BY <1>1, <1>2, <1>3, <1>4

LEMMA BornStep ==
  ASSUME Kernel, Kernel', RestTypes, RestTypes', BornSound, [Next]_vars
  PROVE  BornSound'
<1>0. /\ resp \in [Epoch -> RespState] /\ epoch \in Epoch /\ epoch' \in Epoch /\ RespTypes /\ TtsTypes
      /\ Epoch \subseteq Int /\ None \notin Epoch
      /\ popped \in [Task -> Epoch \cup {None}] /\ response \in Epoch \cup {None}
      /\ response' \in Epoch \cup {None} /\ doomed \subseteq Epoch /\ doomed' \subseteq Epoch
  BY ActorAssumption DEF RestTypes, RespTypes, TurnTypes, Kernel, KernelTypes, Epoch
<1>1. \A e \in Epoch : resp[e] # "none" => resp'[e] # "none"
  BY RespGrows
<1>2. response' # None => resp'[response'] # "none"
  <2>1. CASE UNCHANGED response
    BY <1>0, <1>1, <2>1 DEF BornSound
  <2>2. ASSUME NEW t \in Task, EnterClosed(t) \/ Persisted(t), ~UNCHANGED response
        PROVE  resp'[response'] # "none"
    BY <1>0, <2>2, ReturnedEffect
  <2>3. ASSUME NEW t \in Task, Enter(t) PROVE response' = None
    BY <2>3, EnterEffect
  <2> QED BY <2>1, <2>2, <2>3, ResponseKept
<1>3. \A t \in Task : popped'[t] # None => resp'[popped'[t]] # "none"
  <2> TAKE t \in Task
  <2>1. popped'[t] \in {popped[t], None} \/ popped'[t] = response
    BY PoppedMoves DEF RestTypes
  <2> QED BY <1>0, <1>1, <2>1 DEF BornSound
<1>4. \A e \in doomed' : resp'[e] # "none"
  <2>1. CASE doomed' \subseteq doomed
    BY <1>0, <1>1, <2>1 DEF BornSound
  <2>2. ASSUME NEW t \in Task, NEW r \in Epoch \cup {None}, CancelResponse(t, r),
               r # None => resp[r] # "none"
        PROVE  \A e \in doomed' : resp'[e] # "none"
    BY <1>0, <1>1, <2>2, CancelledResponse DEF BornSound
  <2>3. ASSUME NEW t \in Task, Enter(t) PROVE \A e \in doomed' : resp'[e] # "none"
    BY <1>0, <2>1, <2>2, <2>3, EnterEffect DEF BornSound
  <2>4. ASSUME NEW t \in Task, TtsCancelled(t) PROVE \A e \in doomed' : resp'[e] # "none"
    <3>1. CancelResponse(t, popped[t])
      BY <2>4 DEF TtsCancelled
    <3> QED BY <1>0, <2>2, <3>1 DEF BornSound
  <2>5. ASSUME NEW f \in Epoch, Generate(f) PROVE doomed' \subseteq doomed
    BY <1>0, <2>5, GenerateEffect
  <2>6. ASSUME NEW t \in Task, EnterClosed(t) \/ Persisted(t) PROVE doomed' \subseteq doomed
    BY <2>6, ReturnedEffect
  <2>7. ASSUME NEW t \in Task, Gathered(t) \/ TtsCancelRaises(t) PROVE UNCHANGED doomed
    BY <2>7, Zenon DEF Gathered, TtsCancelRaises, respVars
  <2>8. CASE WorkerAnswers \/ WorkerDies \/ PrepSteps
    BY <2>1, <2>8 DEF WorkerAnswers, WorkerDies, PrepSteps, respVars
  <2>9. CASE UNCHANGED doomed
    BY <2>1, <2>9
  <2> HIDE DEF Inside, Holding, Ending, Preparing, Asking, Interrupting
  <2> QED BY SpeechFrame, <2>1, <2>3, <2>4, <2>5, <2>6, <2>7, <2>8, <2>9
<1>5. \/ epoch' = epoch
      \/ epoch' = epoch + 1 /\ \E t \in Task : Enter(t)
  BY SpeechFrame, EnterEffect, ReturnedEffect, GenerateRests
     DEF TtsCancelled, TtsCancelRaises, Gathered, WorkerAnswers, WorkerDies, PrepSteps, turnVars, RespQuiet
<1>6. \A e \in Epoch : e > epoch' => resp'[e] = "none"
  BY <1>0, <1>5, RespGrows DEF BornSound
<1>7. ASSUME NEW x \in Task, pc'[x] \in Interrupting PROVE resp'[epoch'] = "none"
  <2>1. CASE \E t \in Task : Enter(t)
    <3>1. epoch' = epoch + 1 /\ UNCHANGED resp
      BY <2>1, EnterEffect
    <3> QED BY <1>0, <3>1 DEF BornSound
  <2>2. CASE ~\E t \in Task : Enter(t)
    <3>1. pc[x] \in Interrupting
      BY <1>7, <2>2, EnteredIsEnter
    <3>2. resp[epoch] = "none" /\ epoch' = epoch
      BY <2>2, <3>1, <1>5 DEF BornSound
    <3> QED BY <1>0, <1>7, <3>2, RespGrows
  <2> QED BY <2>1, <2>2
<1> QED BY <1>2, <1>3, <1>4, <1>6, <1>7 DEF BornSound

\* While nothing fails: the key is the current turn's; a response that may still open
\* it is current, and had its request cancelled before it, or the session is closed.
KeySound ==
  faults = 0 =>
    /\ tts.req # "failed" /\ tts.key \in {None, epoch}
    /\ \A e \in Epoch : resp[e] \in {"open", "load"} /\ e \notin doomed =>
          e = epoch /\ (closed \/ (response = e /\ tts.req # "running"))
    /\ ~closed /\ (\E t \in Task : pc[t] \in {"reap", "media", "persist"}) => tts.req # "running"

\* Whoever is past the provider in interrupt() was, or cancelled it just now.
LEMMA PastProvider ==
  ASSUME Kernel, [Next]_vars, NEW x \in Task, pc'[x] \in {"reap", "media", "persist"}
  PROVE  pc[x] \in {"reap", "media", "persist"} \/ Enter(x) \/ TtsCancelled(x)
<1>1. CASE pc'[x] = pc[x]
  BY <1>1
<1>2. CASE pc'[x] # pc[x]
  <2>1. pc \in [Task -> TaskState]
    BY DEF Kernel, KernelTypes
  <2>2. ~Gathered(x)
    BY <2>1 DEF Gathered
  <2> QED BY <1>2, <2>2, LaterMoves DEF Later, Reaped, MediaCancelled, Halts
<1> QED BY <1>1, <1>2

\* What becomes of the request while nothing fails: only the current response starts one.
LEMMA RequestMoves ==
  ASSUME Kernel, RestTypes, [Next]_vars, faults' = 0, faults = 0
  PROVE  /\ tts'.req = "failed" => tts.req = "failed"
         /\ tts'.req = "running" => tts.req = "running" \/ resp[epoch] = "speak"
         /\ \A t \in Task : TtsCancelled(t) => tts'.req # "running"
<1>0. TtsTypes /\ RespTypes
  BY DEF RestTypes
<1> DEFINE Fine == /\ tts'.req = "failed" => tts.req = "failed"
                   /\ tts'.req = "running" => tts.req = "running" \/ resp[epoch] = "speak"
<1>1. ASSUME tts' \in {tts, Fenced(tts), Halted(tts), [Halted(tts) EXCEPT !.worker = "none"],
                       [tts EXCEPT !.worker = "up"], [tts EXCEPT !.req = "stopped"]}
      PROVE  Fine
  <2>1. Fenced(tts).req = tts.req
    BY <1>0 DEF TtsTypes, Fenced
  <2>2. Halted(tts).req \in {tts.req, "stopped"}
    BY <1>0 DEF TtsTypes, Halted
  <2>3. [Halted(tts) EXCEPT !.worker = "none"].req \in {tts.req, "stopped"}
    BY <1>0 DEF TtsTypes, Halted
  <2>4. [tts EXCEPT !.worker = "up"].req = tts.req /\ [tts EXCEPT !.req = "stopped"].req = "stopped"
    BY <1>0 DEF TtsTypes
  <2> QED BY <1>1, <2>1, <2>2, <2>3, <2>4
<1>2. ASSUME NEW t \in Task, Enter(t) PROVE Fine
  BY <1>1, <1>2, EnterEffect
<1>3. ASSUME NEW t \in Task, EnterClosed(t) \/ Persisted(t) PROVE Fine
  BY <1>1, <1>3, ReturnedEffect
<1>4. ASSUME NEW t \in Task, TtsCancelled(t) PROVE Fine /\ tts'.req # "running"
  <2>1. tts' = IF tts.req = "stopped" THEN tts ELSE [Halted(tts) EXCEPT !.worker = "none"]
    BY <1>4 DEF TtsCancelled
  <2> QED BY <1>0, <2>1 DEF TtsTypes, Halted
<1>5. ASSUME NEW t \in Task, Gathered(t) PROVE Fine
  BY <1>1, <1>5 DEF Gathered
<1>6. ASSUME NEW e \in Epoch, Generate(e) PROVE Fine
  BY <1>0, <1>6, GenerateEffect
<1>7. ASSUME WorkerAnswers PROVE Fine
  BY <1>1, <1>7 DEF WorkerAnswers, Fault
<1>8. ASSUME PrepSteps PROVE Fine
  BY <1>1, <1>8 DEF PrepSteps
<1>9. ~WorkerDies /\ \A t \in Task : ~TtsCancelRaises(t)
  BY DEF WorkerDies, TtsCancelRaises, Fault
<1>10. ASSUME UNCHANGED tts PROVE Fine
  BY <1>1, <1>10
<1> HIDE DEF Inside, Holding, Ending, Preparing, Asking, Interrupting
<1>11. Fine
  BY SpeechFrame, <1>2, <1>3, <1>4, <1>5, <1>6, <1>7, <1>8, <1>9, <1>10
<1> QED BY <1>4, <1>11

LEMMA KeyStep ==
  ASSUME Kernel, Kernel', RestTypes, BornSound, KeySound, [Next]_vars
  PROVE  KeySound'
<1> SUFFICES ASSUME faults' = 0
             PROVE  /\ tts'.req # "failed" /\ tts'.key \in {None, epoch'}
                    /\ \A e \in Epoch : resp'[e] \in {"open", "load"} /\ e \notin doomed' =>
                          e = epoch' /\ (closed' \/ (response' = e /\ tts'.req # "running"))
                    /\ ~closed' /\ (\E t \in Task : pc'[t] \in {"reap", "media", "persist"}) =>
                          tts'.req # "running"
  BY DEF KeySound
<1>0. faults = 0
  BY FaultsGrow, ActorAssumption DEF RestTypes, TurnTypes
<1>1. /\ tts.req # "failed" /\ tts.key \in {None, epoch}
      /\ \A e \in Epoch : resp[e] \in {"open", "load"} /\ e \notin doomed =>
            e = epoch /\ (closed \/ (response = e /\ tts.req # "running"))
      /\ ~closed /\ (\E t \in Task : pc[t] \in {"reap", "media", "persist"}) => tts.req # "running"
  BY <1>0 DEF KeySound
<1>2. /\ resp \in [Epoch -> RespState] /\ doomed \subseteq Epoch /\ RespTypes /\ TtsTypes
      /\ epoch \in Epoch /\ Epoch \subseteq Int /\ None \notin Epoch
  BY ActorAssumption DEF RestTypes, RespTypes, Kernel, KernelTypes, Epoch
<1>3. tts'.req # "failed"
  BY <1>0, <1>1, RequestMoves
<1>4. ASSUME NEW x \in Task, pc'[x] \in {"reap", "media", "persist"}, ~closed'
      PROVE  tts'.req # "running"
  <2>1. CASE TtsCancelled(x)
    BY <1>0, <2>1, RequestMoves
  <2>2. CASE Enter(x)
    <3>1. pc'[x] # "tts" /\ pc \in [Task -> TaskState]
      BY <1>4 DEF Kernel, KernelTypes
    <3>2. ~CancelSuspends /\ tts' = Fenced(tts)
      BY <2>2, <3>1, EnterEffect
    <3> QED BY <1>2, <3>2 DEF CancelSuspends, Fenced, TtsTypes
  <2>3. CASE pc[x] \in {"reap", "media", "persist"}
    <3>1. tts.req # "running" /\ resp[epoch] = "none"
      BY <1>1, <1>4, <2>3, ClosedStays DEF BornSound
    <3> QED BY <1>0, <3>1, RequestMoves
  <2> QED BY <1>4, <2>1, <2>2, <2>3, PastProvider
<1> DEFINE Kept == /\ tts'.key \in {None, epoch'}
                   /\ \A e \in Epoch : resp'[e] \in {"open", "load"} /\ e \notin doomed' =>
                         e = epoch' /\ (closed' \/ (response' = e /\ tts'.req # "running"))
<1>5. ASSUME UNCHANGED <<epoch, response, resp>>, doomed \subseteq doomed',
             tts'.key \in {tts.key, None}, tts'.req # "running" \/ tts'.req = tts.req
      PROVE  Kept
  <2>1. tts'.key \in {None, epoch'}
    BY <1>1, <1>5
  <2>2. ASSUME NEW e \in Epoch, resp'[e] \in {"open", "load"}, e \notin doomed'
        PROVE  e = epoch' /\ (closed' \/ (response' = e /\ tts'.req # "running"))
    <3>1. e = epoch /\ (closed \/ (response = e /\ tts.req # "running"))
      BY <1>1, <1>5, <2>2
    <3> QED BY <1>5, <3>1, ClosedStays
  <2> QED BY <2>1, <2>2
<1>6. ASSUME NEW t \in Task, Enter(t) PROVE Kept
  <2>1. tts'.key = None
    BY <1>2, <1>6, EnterEffect DEF Fenced, TtsTypes
  <2>2. ASSUME NEW e \in Epoch, resp'[e] \in {"open", "load"}, e \notin doomed' PROVE FALSE
    <3>1. UNCHANGED resp /\ doomed \subseteq doomed' /\ ~closed
      BY <1>6, EnterEffect, CancelledResponse
    <3>2. response = e /\ tts.req # "running" /\ tts.req # "failed"
      BY <1>1, <2>2, <3>1
    <3>3. CancelResponse(t, response)
      BY <1>6, <3>2, EnterEffect DEF CancelSuspends
    <3> QED BY <1>2, <2>2, <3>1, <3>2, <3>3, CancelledResponse
  <2> QED BY <2>1, <2>2
<1>7. ASSUME NEW t \in Task, EnterClosed(t) \/ Persisted(t) PROVE Kept
  <2>1. UNCHANGED <<epoch, tts, doomed>>
    BY <1>7, ReturnedEffect
  <2>2. CASE UNCHANGED <<resp, response>>
    BY <1>5, <2>1, <2>2
  <2>3. CASE resp' = [resp EXCEPT ![epoch] = "open"] /\ response' = epoch
    <3>1. closed' \/ tts.req # "running"
      BY <1>1, <1>7, ReturnedEffect, ClosedStays
    <3>2. ASSUME NEW e \in Epoch, resp'[e] \in {"open", "load"}, e \notin doomed' PROVE e = epoch
      BY <1>1, <1>2, <2>1, <2>3, <3>2
    <3> QED BY <1>1, <2>1, <2>3, <3>1, <3>2
  <2> QED BY <1>7, <2>2, <2>3, ReturnedEffect
<1>8. ASSUME NEW t \in Task, TtsCancelled(t) PROVE Kept
  <2>1. /\ UNCHANGED <<turnVars, resp>> /\ CancelResponse(t, popped[t])
        /\ tts' = IF tts.req = "stopped" THEN tts ELSE [Halted(tts) EXCEPT !.worker = "none"]
    BY <1>8, Zenon DEF TtsCancelled
  <2>2. tts'.key \in {tts.key, None} /\ tts'.req # "running"
    BY <1>2, <2>1 DEF Halted, TtsTypes
  <2> QED BY <1>5, <2>1, <2>2, CancelledResponse DEF turnVars
<1>9. ASSUME NEW t \in Task, Gathered(t) PROVE Kept
  <2>1. UNCHANGED <<turnVars, respVars>> /\ tts' = [Halted(tts) EXCEPT !.worker = "none"]
    BY <1>9, Zenon DEF Gathered
  <2>2. tts'.key = None /\ tts'.req # "running"
    BY <1>2, <2>1 DEF Halted, TtsTypes
  <2> QED BY <1>5, <2>1, <2>2 DEF turnVars, respVars
<1>10. ASSUME NEW f \in Epoch, Generate(f) PROVE Kept
  <2>1. UNCHANGED <<epoch, response, closed>>
    BY <1>10, GenerateRests DEF RespQuiet, endVars
  <2>2. PICK s \in RespState \ {"none", "open"} : resp' = [resp EXCEPT ![f] = s]
    BY <1>2, <1>10, GenerateEffect
  <2>3. /\ doomed' = doomed \/ (doomed' = doomed \ {f} /\ resp'[f] = "done")
        /\ resp'[f] = "load" => resp[f] = "open" /\ f \notin doomed
        /\ \/ tts'.key \in {tts.key, None}
           \/ tts'.key = f /\ f \notin doomed /\ resp[f] \in {"open", "load"}
        /\ \/ tts'.req = tts.req \/ tts'.req = "stopped"
           \/ tts'.req = "running" /\ resp[f] = "speak" /\ f = epoch
    BY <1>2, <1>10, GenerateEffect
  <2>4. tts'.key \in {None, epoch'}
    BY <1>1, <2>1, <2>3
  <2>5. ASSUME NEW e \in Epoch, resp'[e] \in {"open", "load"}, e \notin doomed'
        PROVE  resp[e] \in {"open", "load"} /\ e \notin doomed
    BY <1>2, <2>2, <2>3, <2>5
  <2>6. ASSUME NEW e \in Epoch, resp'[e] \in {"open", "load"}, e \notin doomed'
        PROVE  e = epoch' /\ (closed' \/ (response' = e /\ tts'.req # "running"))
    BY <1>1, <2>1, <2>3, <2>5, <2>6
  <2> QED BY <2>4, <2>6
<1>11. ASSUME WorkerAnswers PROVE Kept
  <2>1. UNCHANGED <<turnVars, respVars>> /\ tts' = [tts EXCEPT !.req = "stopped"]
    BY <1>0, <1>11 DEF WorkerAnswers, Fault
  <2> QED BY <1>2, <1>5, <2>1 DEF turnVars, respVars, TtsTypes
<1>12. ASSUME PrepSteps PROVE Kept
  <2>1. UNCHANGED <<turnVars, respVars, closed>> /\ (UNCHANGED tts \/ tts' = [tts EXCEPT !.worker = "up"])
    BY <1>12, Zenon DEF PrepSteps
  <2>2. tts'.key = tts.key /\ tts'.req = tts.req
    BY <1>2, <2>1 DEF TtsTypes
  <2> QED BY <1>5, <2>1, <2>2 DEF turnVars, respVars
<1>13. ~WorkerDies /\ \A t \in Task : ~TtsCancelRaises(t)
  BY <1>0 DEF WorkerDies, TtsCancelRaises, Fault
<1>14. ASSUME UNCHANGED <<resp, doomed, tts, response, epoch>> PROVE Kept
  BY <1>5, <1>14
<1> HIDE DEF Inside, Holding, Ending, Preparing, Asking, Interrupting
<1>15. Kept
  BY SpeechFrame, <1>6, <1>7, <1>8, <1>9, <1>10, <1>11, <1>12, <1>13, <1>14
<1> QED BY <1>3, <1>4, <1>15

LEMMA KeyInit ==
  ASSUME Init
  PROVE  BornSound /\ KeySound
<1>1. \A t \in Task : pc[t] \notin Interrupting
  BY DEF Init
<1>2. \A e \in Epoch : resp[e] = "none"
  BY DEF Init
<1>3. response = None /\ doomed = {} /\ \A t \in Task : popped[t] = None
  BY DEF Init
<1>4. tts.req = "none" /\ tts.key = None
  BY DEF Init
<1> QED BY <1>1, <1>2, <1>3, <1>4 DEF BornSound, KeySound

\* Who touches the media.
LEMMA MediaFrame ==
  ASSUME [Next]_vars
  PROVE  \/ \E t \in Task : Enter(t) \/ Gathered(t) \/ MediaCancelled(t)
         \/ \E e \in Epoch : Generate(e)
         \/ FenceMedia \/ PrepSteps \/ UNCHANGED media
<1> HIDE DEF Inside, Holding, Ending, Preparing, Asking, Interrupting
<1>1. ASSUME NEW t \in Task, EnterClosed(t) \/ Close(t) \/ Interrupt(t)
      PROVE  Gathered(t) \/ MediaCancelled(t) \/ UNCHANGED media
  BY <1>1, Zenon DEF EnterClosed, Close, Stored, Awaited, Interrupt, TtsCancelled, TtsCancelRaises,
     Reaped, MediaCancelRaises, Persisted
<1>2. ASSUME CloseCall \/ Reap \/ PrepFails \/ BeatSteps PROVE UNCHANGED media
  BY <1>2, Zenon DEF CloseCall, Reap, PrepFails, BeatSteps, Fails
<1>3. ASSUME Subscribe \/ Endpoint \/ UserSpeaks \/ BargeIn \/ MicFails PROVE UNCHANGED media
  BY <1>3, Zenon DEF Subscribe, Endpoint, UserSpeaks, BargeIn, MicFails, Fails, Dropped
<1>4. ASSUME Transcribed \/ TranscribeFails \/ ControlCall \/ (\E b \in Body : Control(b)) \/ Record
      PROVE  UNCHANGED media
  BY <1>4, Zenon DEF Transcribed, TranscribeFails, ControlCall, Control, Record, Fails
<1>5. ASSUME (\E w \in writes : Commit(w) \/ CommitFails(w)) \/ Revocation \/ WorkerAnswers \/ WorkerDies
             \/ UNCHANGED vars
      PROVE  UNCHANGED media
  BY <1>5, Zenon DEF Commit, CommitFails, Revocation, WorkerAnswers, WorkerDies, vars
<1>6. CASE Tasks
  BY <1>1, <1>2, <1>3, <1>4, <1>6, Zenon DEF Tasks
<1> QED BY <1>1, <1>5, <1>6, Zenon DEF Next

\* What a response does to the media.
LEMMA GenerateMedia ==
  ASSUME MediaTypes, NEW e \in Epoch, Generate(e)
  PROVE  /\ media'.up = media.up /\ media'.blocked = media.blocked
         /\ media.blocked => media'.cancelled \/ media'.cancelled = media.cancelled
         /\ media'.tracks # {} => media'.tracks = media.tracks \/ media.up
<1>1. CASE RespClear(e) \/ RespPublish(e) \/ RespFail(e)
  BY <1>1 DEF RespClear, RespPublish, RespFail, MediaTypes
<1>2. CASE RespOpen(e) \/ RespLoad(e) \/ RespActive(e) \/ RespPush(e) \/ RespEnd(e) \/ RespFinish(e)
           \/ RespCancelled(e)
  <2>1. UNCHANGED media
    BY <1>2, Zenon DEF RespOpen, RespLoad, RespActive, RespPush, RespEnd, RespFinish, RespCancelled
  <2> QED BY <2>1
<1> QED BY <1>1, <1>2 DEF Generate

\* The permanent fence stays.
LEMMA MediaMoves ==
  ASSUME MediaTypes, [Next]_vars
  PROVE  /\ media.blocked => media'.blocked
         /\ media'.blocked => media'.cancelled \/ (media.blocked /\ media'.cancelled = media.cancelled)
<1>1. CASE UNCHANGED media
  BY <1>1 DEF MediaTypes
<1>2. CASE \E t \in Task : Enter(t) \/ Gathered(t) \/ MediaCancelled(t)
  BY <1>2 DEF Enter, Gathered, MediaCancelled, MediaTypes
<1>3. CASE FenceMedia \/ PrepSteps
  BY <1>3 DEF FenceMedia, PrepSteps, MediaTypes
<1>4. CASE \E e \in Epoch : Generate(e)
  BY <1>4, GenerateMedia
<1> QED BY <1>1, <1>2, <1>3, <1>4, MediaFrame

\* Whatever fails: the types hold, and a spoken turn that takes the floor was not
\* overtaken.  While nothing fails the provider speaks for the current turn or for nobody
\* (interrupt, generate).
THEOREM TheCurrentSpeaks == Spec => []OnlyTheCurrentSpeaks
<1> DEFINE Inv == BornSound /\ KeySound
<1>1. Init => Inv
  BY KeyInit
<1>2. Layers /\ Layers' /\ Inv /\ [Next]_vars => Inv'
  <2> SUFFICES ASSUME Layers, Layers', Inv, [Next]_vars PROVE Inv'
    OBVIOUS
  <2>1. BornSound'
    BY BornStep DEF Layers
  <2>2. KeySound'
    BY KeyStep DEF Layers
  <2> QED BY <2>1, <2>2
<1>3. Layers /\ Inv => OnlyTheCurrentSpeaks
  BY TypesAreOK DEF Layers, KeySound, KeyIsCurrent, FreshSound, AnswersAreFresh, OnlyTheCurrentSpeaks
<1> HIDE DEF Inv
<1> QED BY <1>1, <1>2, <1>3, LayersHold, PTL DEF Spec

-----------------------------------------------------------------------------
(* The row                                                                 *)

Waiting == {"persist", "store", "write"}

\* A task has one write at most, waits for it, and has its outcome only after it.  What
\* close() writes is CLOSED, and once it succeeded the row stays CLOSED, but for a drain.
RowSound ==
  /\ \A w \in writes : w.by \in Task =>
       pc[w.by] \in Waiting /\ (pc[w.by] = "store" => w.status = "CLOSED")
  /\ \A t \in Task : pc[t] \notin Waiting => result[t] = "none"
  /\ \A w \in writes : w.by \in Task => result[w.by] = "none"
  /\ \A v, w \in writes : v.by \in Task /\ v.by = w.by => v = w
  /\ \A t \in Task : pc[t] = "store" /\ result[t] = "ok" => Ended
  /\ persisted => Ended

\* Some tasks no longer wait, the others do what they did.
Freed(X) ==
  /\ \A w \in writes' : w.by \in Task => w \in writes /\ w.by \notin X
  /\ \A x \in Task : result'[x] = IF x \in X THEN "none" ELSE result[x]
  /\ \A x \in X \cap Task : pc'[x] \notin Waiting
  /\ \A x \in Task \ X : pc[x] \in Waiting \/ pc'[x] \in Waiting => pc'[x] = pc[x]
  /\ Ended => Ended'

\* A task asks for a write.
Wrote(t, w) ==
  /\ w.by = t /\ writes' = writes \cup {w} /\ UNCHANGED <<result, row>>
  /\ pc[t] \notin Waiting /\ (pc'[t] = "store" => w.status = "CLOSED") /\ pc'[t] \in Waiting
  /\ \A x \in Task : x # t => pc'[x] = pc[x]

\* A thread is done with one.
Landed(w) ==
  /\ w \in writes /\ writes' = writes \ {w} /\ UNCHANGED pc
  /\ \A x \in Task : x # w.by => result'[x] = result[x]
  /\ w.by \in Task => result'[w.by] # "none"
  /\ w.by \in Task /\ result'[w.by] = "ok" /\ w.status = "CLOSED" => Ended'
  /\ Ended => Ended'

\* Only close() says that the row knows.
Confirmed == persisted' => persisted \/ \E t \in Task : pc[t] = "store" /\ result[t] = "ok"

LEMMA FreedSound ==
  ASSUME Kernel, RowSound, NEW X, Freed(X), Confirmed
  PROVE  RowSound'
<1>1. /\ \A w \in writes' : w.by \in Task =>
           /\ pc'[w.by] \in Waiting /\ (pc'[w.by] = "store" => w.status = "CLOSED")
           /\ result'[w.by] = "none"
      /\ \A t \in Task : pc'[t] \notin Waiting => result'[t] = "none"
      /\ \A v, w \in writes' : v.by \in Task /\ v.by = w.by => v = w
  BY DEF RowSound, Freed, Waiting
<1>2. \A t \in Task : pc'[t] = "store" /\ result'[t] = "ok" => Ended'
  BY DEF RowSound, Freed, Waiting
<1>3. persisted' => Ended'
  BY DEF RowSound, Freed, Confirmed
<1> QED BY <1>1, <1>2, <1>3 DEF RowSound

LEMMA WroteSound ==
  ASSUME Kernel, RowSound, NEW t \in Task, NEW w, Wrote(t, w), Confirmed
  PROVE  RowSound'
<1>1. \A v \in writes' : v \in writes \/ v = w
  BY DEF Wrote
<1>2. \A v \in writes : v.by # t
  BY DEF Wrote, RowSound
<1>3. result[t] = "none"
  BY DEF Wrote, RowSound
<1>4. Ended => Ended'
  BY DEF Wrote, Ended
<1> QED BY <1>1, <1>2, <1>3, <1>4 DEF RowSound, Wrote, Confirmed, Waiting

LEMMA LandedSound ==
  ASSUME Kernel, RowSound, NEW w, Landed(w), Confirmed
  PROVE  RowSound'
<1>1. \A v \in writes' : v \in writes /\ v # w
  BY DEF Landed
<1>2. \A t \in Task : pc[t] = "store" /\ result'[t] = "ok" => Ended'
  BY DEF Landed, RowSound
<1> QED BY <1>1, <1>2 DEF RowSound, Landed, Confirmed, Waiting

RowStep == (\E X : Freed(X)) \/ (\E t \in Task : \E w : Wrote(t, w)) \/ (\E w : Landed(w))

\* A write, an outcome or a response is none of another's business.
LEMMA RowParts ==
  ASSUME RowTypes, NEW X
  PROVE  /\ \A w \in Orphaned(X) : w.by \in Task => w \in writes /\ w.by \notin X
         /\ \A x \in Task : Forgotten(X)[x] = IF x \in X THEN "none" ELSE result[x]
         /\ \A e \in Epoch : e \notin Task
<1>1. None \notin Task /\ Task \cap Epoch = {}
  BY ActorAssumption DEF Epoch
<1>2. \A w \in Orphaned(X) : w.by \in Task => w \in writes /\ w.by \notin X
  <2> TAKE w \in Orphaned(X)
  <2>1. PICK v \in writes : w = IF v.by \in X THEN [v EXCEPT !.by = None] ELSE v
    BY DEF Orphaned
  <2>2. v \in Write
    BY DEF RowTypes
  <2>3. CASE v.by \in X
    <3>1. w.by = None
      BY <2>1, <2>2, <2>3 DEF Write
    <3> QED BY <1>1, <3>1
  <2>4. CASE v.by \notin X
    BY <2>1, <2>4
  <2> QED BY <2>3, <2>4
<1>3. \A x \in Task : Forgotten(X)[x] = IF x \in X THEN "none" ELSE result[x]
  BY DEF Forgotten
<1> QED BY <1>1, <1>2, <1>3

\* What leaves the row and the writes alone, and makes nobody wait or stop waiting.
LEMMA RowAlone ==
  ASSUME UNCHANGED <<row, writes, result>>,
         \A x \in Task : pc'[x] = pc[x] \/ (pc[x] \notin Waiting /\ pc'[x] \notin Waiting)
  PROVE  RowStep
<1>1. Freed({})
  BY DEF Freed, Ended
<1> QED BY <1>1 DEF RowStep

\* Responses write for themselves.
LEMMA GenerateRow ==
  ASSUME RowTypes, NEW e \in Epoch, Generate(e)
  PROVE  RowStep
<1>1. UNCHANGED <<pc, row>>
  BY GenerateRests DEF RespQuiet, taskVars
<1>2. /\ writes' \in {writes, Orphaned({e})} \/ \E n, s : Sent(e, n, s)
      /\ result' \in {result, Forgotten({e})}
  <2>1. ASSUME NEW x, Fallen(e, x) PROVE result' = Forgotten({e})
    BY <2>1 DEF Fallen
  <2>2. CASE RespOpen(e) BY <2>1, <2>2 DEF RespOpen
  <2>3. CASE RespLoad(e) BY <2>1, <2>3 DEF RespLoad
  <2>4. CASE RespClear(e) BY <2>1, <2>4 DEF RespClear
  <2>5. CASE RespPublish(e)
    <3> HIDE DEF Fallen
    <3> QED BY <2>1, <2>5, Zenon DEF RespPublish
  <2>6. CASE RespActive(e) BY <2>1, <2>6 DEF RespActive
  <2>7. CASE RespPush(e) BY <2>1, <2>7 DEF RespPush
  <2>8. CASE RespEnd(e)
    BY <2>1, <2>8, Zenon DEF RespEnd
  <2>9. CASE RespFinish(e) BY <2>1, <2>9 DEF RespFinish
  <2>10. CASE RespFail(e) BY <2>10 DEF RespFail
  <2>11. CASE RespCancelled(e) BY <2>11 DEF RespCancelled
  <2> QED BY <2>2, <2>3, <2>4, <2>5, <2>6, <2>7, <2>8, <2>9, <2>10, <2>11, Zenon DEF Generate
<1>3. \A w \in writes' : w.by \in Task => w \in writes
  BY <1>2, RowParts DEF Sent
<1>4. \A x \in Task : result'[x] = result[x]
  BY <1>2, RowParts
<1>5. Freed({})
  BY <1>1, <1>3, <1>4 DEF Freed, Ended
<1> QED BY <1>5 DEF RowStep

NoWrite(t) == \A w \in writes : w.by # t

\* Who does not wait for a write, or has its outcome, has none under way.
LEMMA NothingWritten ==
  ASSUME RowSound, NEW t \in Task, pc[t] \notin Waiting \/ result[t] # "none"
  PROVE  NoWrite(t)
BY DEF RowSound, NoWrite

LEMMA StopRow ==
  ASSUME Kernel, RestTypes, NEW t \in Task, Stopped(t), NoWrite(t), UNCHANGED row
  PROVE  RowStep
<1> DEFINE X == Listeners \cup {t}
<1>1. writes' = Orphaned(Listeners \ {t}) /\ result' = Forgotten(X)
  BY Zenon DEF Stopped, StopTasks
<1>2. \A w \in writes' : w.by \in Task => w \in writes /\ w.by \notin X
  BY <1>1, RowParts DEF RestTypes, NoWrite
<1>3. \A x \in Task : result'[x] = IF x \in X THEN "none" ELSE result[x]
  BY <1>1, RowParts DEF RestTypes
<1>4. \A x \in Task : pc'[x] = IF x = t THEN "gather" ELSE IF x \in Listeners THEN "over" ELSE pc[x]
  BY StoppedQueue
<1>5. Freed(X)
  BY <1>2, <1>3, <1>4 DEF Freed, Ended, Waiting
<1> QED BY <1>5 DEF RowStep

\* One task is done with its write, or gives it up.
LEMMA FreeRow ==
  ASSUME Kernel, RestTypes, NEW t \in Task,
         writes' = Orphaned({t}) \/ (UNCHANGED writes /\ NoWrite(t)),
         result' = Forgotten({t}), UNCHANGED row, NEW s, s \notin Waiting, pc' = [pc EXCEPT ![t] = s]
  PROVE  RowStep
<1>1. pc \in [Task -> TaskState]
  BY DEF Kernel, KernelTypes
<1>2. \A w \in writes' : w.by \in Task => w \in writes /\ w.by \notin {t}
  BY RowParts DEF RestTypes, NoWrite
<1>3. \A x \in Task : result'[x] = IF x \in {t} THEN "none" ELSE result[x]
  BY RowParts DEF RestTypes
<1>4. Freed({t})
  BY <1>1, <1>2, <1>3 DEF Freed, Ended
<1> QED BY <1>4 DEF RowStep

LEMMA BeginRow ==
  ASSUME Kernel, RestTypes, NEW t \in Task, NEW lost, NEW q, BeginClose(t, lost, q), NoWrite(t),
         UNCHANGED row
  PROVE  RowStep
<1>0. pc \in [Task -> TaskState]
  BY DEF Kernel, KernelTypes
<1>1. CASE closing
  <2>1. result' = Forgotten({t}) /\ UNCHANGED writes /\ pc' = [pc EXCEPT ![t] = "await"]
    BY <1>1 DEF BeginClose
  <2> QED BY <2>1, FreeRow DEF Waiting
<1>2. CASE ~closing
  <2> DEFINE X == {t, Prep}
  <2>1. /\ writes' = Orphaned({Prep}) /\ result' = Forgotten(X)
        /\ pc' = [x \in Task |-> IF x = t THEN AtLock(q) ELSE IF x = Prep THEN "over" ELSE pc[x]]
    BY <1>2 DEF BeginClose
  <2>2. \A w \in writes' : w.by \in Task => w \in writes /\ w.by \notin X
    BY <2>1, RowParts DEF RestTypes, NoWrite
  <2>3. \A x \in Task : result'[x] = IF x \in X THEN "none" ELSE result[x]
    BY <2>1, RowParts DEF RestTypes
  <2>4. AtLock(q) \notin Waiting
    BY DEF AtLock, Waiting
  <2>5. Freed(X)
    BY <1>0, <2>1, <2>2, <2>3, <2>4, TasksAreSix DEF Freed, Ended, Waiting
  <2> QED BY <2>5 DEF RowStep
<1> QED BY <1>1, <1>2

LEMMA SentRow ==
  ASSUME Kernel, NEW t \in Task, NEW e, NEW s, Sent(t, e, s), UNCHANGED <<result, row>>,
         NEW n \in Waiting, pc' = [pc EXCEPT ![t] = n], n = "store" => s = "CLOSED",
         pc[t] \notin Waiting
  PROVE  RowStep
<1> DEFINE w == [by |-> t, epoch |-> e, status |-> s]
<1>1. pc \in [Task -> TaskState]
  BY DEF Kernel, KernelTypes
<1>2. Wrote(t, w)
  BY <1>1 DEF Wrote, Sent
<1> QED BY <1>2 DEF RowStep

\* interrupt() returned.
LEMMA ReturnedRow ==
  ASSUME Kernel, RestTypes, NEW t \in Task, Returned(t), pc[t] \in Interrupting \/ Granted(t),
         NoWrite(t), UNCHANGED <<row, epoch, closing, closeDone, persisted>>
  PROVE  RowStep
<1>1. CASE mode[t] = "close"
  BY <1>1, StopRow DEF Returned, Stopped
<1>2. CASE mode[t] # "close"
  <2>1. /\ UNCHANGED writes /\ result' = Forgotten({t})
        /\ pc' = [pc EXCEPT ![t] = IF t = Ctl THEN "record" ELSE "idle"]
    BY <1>2 DEF Returned
  <2>2. "record" \notin Waiting /\ "idle" \notin Waiting
    BY DEF Waiting
  <2> QED BY <2>1, <2>2, FreeRow
<1> QED BY <1>1, <1>2

LEMMA RaisedRow ==
  ASSUME Kernel, RestTypes, NEW t \in Task, Raised(t), pc[t] \in Interrupting, NoWrite(t),
         UNCHANGED <<row, epoch, closeDone, persisted>>
  PROVE  RowStep
<1>1. CASE mode[t] = "close"
  BY <1>1, StopRow DEF Raised, Stopped
<1>2. CASE mode[t] # "close" /\ t = Ctl
  <2>1. /\ UNCHANGED writes /\ result' = Forgotten({t}) /\ pc' = [pc EXCEPT ![t] = "idle"]
    BY <1>2 DEF Raised
  <2> QED BY <2>1, FreeRow DEF Waiting
<1>3. CASE mode[t] # "close" /\ t # Ctl
  BY <1>3, BeginRow DEF Raised
<1> QED BY <1>1, <1>2, <1>3

LEMMA InterruptRow ==
  ASSUME Kernel, RestTypes, RowSound, NEW t \in Task, Interrupt(t)
  PROVE  RowStep
<1>0. pc \in [Task -> TaskState]
  BY DEF Kernel, KernelTypes
<1>1. CASE TtsCancelled(t)
  <2>1. \E s \in {"reap", "media"} : pc' = [pc EXCEPT ![t] = s]
    BY <1>1 DEF TtsCancelled, CancelResponse
  <2>2. UNCHANGED <<row, writes, result>> /\ pc[t] = "tts"
    BY <1>1 DEF TtsCancelled, rowVars
  <2> QED BY <1>0, <2>1, <2>2, RowAlone DEF Waiting
<1>2. CASE Reaped(t)
  BY <1>0, <1>2, RowAlone DEF Reaped, rowVars, Waiting
<1>3. CASE MediaCancelled(t)
  BY <1>3, SentRow DEF MediaCancelled, Waiting
<1>4. CASE TtsCancelRaises(t) \/ MediaCancelRaises(t)
  <2>1. /\ UNCHANGED <<turnVars, closeDone, persisted, row>> /\ Raised(t) /\ pc[t] \in {"tts", "media"}
    BY <1>4, Zenon DEF TtsCancelRaises, MediaCancelRaises
  <2>2. UNCHANGED <<row, epoch, closeDone, persisted>>
    BY <2>1 DEF turnVars
  <2> QED BY <2>1, <2>2, RaisedRow, NothingWritten DEF Waiting
<1>5. CASE Persisted(t)
  <2>1. UNCHANGED <<epoch, closeDone, persisted, row>> /\ pc[t] = "persist" /\ result[t] # "none"
    BY <1>5, Zenon DEF Persisted
  <2>2. (Returned(t) /\ UNCHANGED closing) \/ Raised(t)
    BY <1>5, Zenon DEF Persisted
  <2> QED BY <2>1, <2>2, RaisedRow, ReturnedRow, NothingWritten
<1> QED BY <1>1, <1>2, <1>3, <1>4, <1>5 DEF Interrupt

LEMMA CloseRow ==
  ASSUME Kernel, RestTypes, RowSound, NEW t \in Task, Close(t)
  PROVE  RowStep
<1>0. pc \in [Task -> TaskState]
  BY DEF Kernel, KernelTypes
<1>1. CASE Gathered(t)
  BY <1>1, SentRow DEF Gathered, Waiting
<1>2. CASE Stored(t)
  <2>1. \E s \in {"idle", "over"} : pc' = [pc EXCEPT ![t] = s]
    BY <1>2 DEF Stored, Told
  <2> QED BY <1>2, <2>1, FreeRow, NothingWritten DEF Stored, Waiting
<1>3. CASE Awaited(t)
  <2>1. \E s \in {"idle", "over"} : pc' = [pc EXCEPT ![t] = s]
    BY <1>3 DEF Awaited, Told
  <2> QED BY <1>0, <1>3, <2>1, RowAlone DEF Awaited, rowVars, Waiting
<1> QED BY <1>1, <1>2, <1>3 DEF Close

LEMMA FailsRow ==
  ASSUME Kernel, RestTypes, RowSound, NEW t \in Task, NEW lost, Fails(t, lost),
         pc[t] \notin Waiting \/ result[t] # "none"
  PROVE  RowStep
<1>1. BeginClose(t, lost, lockQ) /\ UNCHANGED row
  BY Zenon DEF Fails
<1> QED BY <1>1, BeginRow, NothingWritten

\* The application, the preparation and the heartbeat.
LEMMA ServiceRow ==
  ASSUME Kernel, RestTypes, RowSound,
         CloseCall \/ Reap \/ FenceMedia \/ PrepSteps \/ PrepFails \/ BeatSteps
  PROVE  RowStep
<1>0. pc \in [Task -> TaskState]
  BY DEF Kernel, KernelTypes
<1>1. CASE CloseCall
  <2>1. CASE Fails(Out, FALSE)
    <3>1. pc[Out] = "idle"
      BY <1>1 DEF CloseCall
    <3> QED BY <2>1, <3>1, FailsRow, TasksAreSix DEF Waiting
  <2>2. CASE ~Fails(Out, FALSE)
    <3>1. UNCHANGED <<taskVars, rowVars>>
      BY <1>1, <2>2, Zenon DEF CloseCall
    <3> QED BY <3>1, RowAlone DEF taskVars, rowVars
  <2> QED BY <2>1, <2>2
<1>2. CASE Reap
  BY <1>2, RowAlone DEF Reap, taskVars, rowVars
<1>3. CASE FenceMedia
  BY <1>3, RowAlone DEF FenceMedia, taskVars, rowVars
<1>4. CASE PrepSteps
  <2>1. CASE pc[Prep] = "open" /\ pc' = [pc EXCEPT ![Prep] = "connect"]
    <3>1. UNCHANGED <<row, writes, result>>
      BY <1>4, <2>1 DEF PrepSteps
    <3> QED BY <1>0, <2>1, <3>1, RowAlone DEF Waiting
  <2>2. CASE pc[Prep] = "connect" /\ pc' = [pc EXCEPT ![Prep] = "write"]
    <3>1. UNCHANGED <<row, result>> /\ Sent(Prep, None, "READY")
      BY <1>4, <2>2 DEF PrepSteps
    <3> QED BY <2>2, <3>1, SentRow, TasksAreSix DEF Waiting
  <2>3. CASE /\ pc[Prep] = "write" /\ result[Prep] = "ok"
             /\ UNCHANGED <<row, writes>> /\ result' = Forgotten({Prep})
             /\ pc' = [pc EXCEPT ![Prep] = "over", ![Beat] = IF WithLease THEN "idle" ELSE @]
    <3>1. pc[Beat] = "over"
      BY <2>3 DEF Kernel, EndSound
    <3>2. /\ pc'[Prep] = "over" /\ pc'[Beat] \in {"over", "idle"}
          /\ \A x \in Task : x \notin {Prep, Beat} => pc'[x] = pc[x]
      BY <2>3, <3>1, <1>0, TasksAreSix
    <3>3. NoWrite(Prep)
      BY <2>3, NothingWritten, TasksAreSix
    <3>4. \A x \in Task : result'[x] = IF x \in {Prep} THEN "none" ELSE result[x]
      BY <2>3, RowParts DEF RestTypes
    <3>5. Freed({Prep})
      BY <2>3, <3>1, <3>2, <3>3, <3>4 DEF Freed, Ended, NoWrite, Waiting
    <3> QED BY <3>5 DEF RowStep
  <2> QED BY <1>4, <2>1, <2>2, <2>3, Zenon DEF PrepSteps
<1>5. CASE PrepFails
  <2>1. Fails(Prep, FALSE) /\ (pc[Prep] \in {"open", "connect"} \/ result[Prep] = "bad")
    BY <1>5, Zenon DEF PrepFails
  <2> QED BY <2>1, FailsRow, TasksAreSix DEF Waiting
<1>6. CASE BeatSteps
  <2>1. CASE \E lost \in BOOLEAN : Fails(Beat, lost) /\ (pc[Beat] = "idle" \/ result[Beat] = "bad")
    BY <2>1, FailsRow, TasksAreSix DEF Waiting
  <2>2. CASE /\ UNCHANGED row
             /\ \/ pc[Beat] = "idle" /\ pc' = [pc EXCEPT ![Beat] = "over"] /\ UNCHANGED <<writes, result>>
                \/ /\ pc[Beat] = "idle" /\ pc' = [pc EXCEPT ![Beat] = "write"]
                   /\ Sent(Beat, epoch, None) /\ UNCHANGED result
                \/ /\ pc[Beat] = "write" /\ result[Beat] = "ok" /\ pc' = [pc EXCEPT ![Beat] = "idle"]
                   /\ result' = Forgotten({Beat}) /\ UNCHANGED writes
    <3>1. CASE pc[Beat] = "idle" /\ pc' = [pc EXCEPT ![Beat] = "over"] /\ UNCHANGED <<writes, result>>
      BY <1>0, <2>2, <3>1, RowAlone DEF Waiting
    <3>2. CASE /\ pc[Beat] = "idle" /\ pc' = [pc EXCEPT ![Beat] = "write"]
               /\ Sent(Beat, epoch, None) /\ UNCHANGED result
      BY <2>2, <3>2, SentRow, TasksAreSix DEF Waiting
    <3>3. CASE /\ pc[Beat] = "write" /\ result[Beat] = "ok" /\ pc' = [pc EXCEPT ![Beat] = "idle"]
               /\ result' = Forgotten({Beat}) /\ UNCHANGED writes
      BY <2>2, <3>3, FreeRow, NothingWritten, TasksAreSix DEF Waiting
    <3> QED BY <2>2, <3>1, <3>2, <3>3
  <2> QED BY <1>6, <2>1, <2>2, Zenon DEF BeatSteps
<1> QED BY <1>1, <1>2, <1>3, <1>4, <1>5, <1>6

\* The microphone, the transcripts and the controls.
LEMMA VoiceRow ==
  ASSUME Kernel, RestTypes, RowSound,
         \/ Subscribe \/ Endpoint \/ UserSpeaks \/ BargeIn \/ MicFails
         \/ (Transcribed /\ LoopFree) \/ TranscribeFails
         \/ ControlCall \/ (\E b \in Body : Control(b)) \/ Record
  PROVE  RowStep
<1>0. pc \in [Task -> TaskState]
  BY DEF Kernel, KernelTypes
<1>1. CASE Subscribe \/ Endpoint
  <2>1. \E x \in {Mic, Fin}, s \in {"over", "idle", "asr"} : Dropped(x, s)
    BY <1>1 DEF Subscribe, Endpoint
  <2>2. PICK x \in {Mic, Fin}, s \in {"over", "idle", "asr"} : Dropped(x, s)
    BY <2>1
  <2>3. /\ pc' = [pc EXCEPT ![x] = s] /\ writes' = Orphaned({x}) /\ result' = Forgotten({x})
        /\ UNCHANGED row
    BY <2>2, Zenon DEF Dropped
  <2> QED BY <2>3, FreeRow, TasksAreSix DEF Waiting
<1>2. CASE MicFails \/ TranscribeFails
  <2>1. (Fails(Mic, FALSE) /\ pc[Mic] = "idle") \/ (Fails(Fin, FALSE) /\ pc[Fin] = "asr")
    BY <1>2, Zenon DEF MicFails, TranscribeFails
  <2> QED BY <2>1, FailsRow, TasksAreSix DEF Waiting
<1>3. CASE UserSpeaks
  BY <1>3, RowAlone DEF UserSpeaks, taskVars, rowVars
<1>4. ASSUME NEW t \in Task, NEW m, Asked(t, m), UNCHANGED rowVars, pc[t] \notin Waiting PROVE RowStep
  <2>1. \A x \in Task : pc'[x] = pc[x] \/ (x = t /\ pc'[x] \in Asking)
    BY <1>4, AskedQueue
  <2> QED BY <1>4, <2>1, RowAlone DEF rowVars, Waiting
<1>5. CASE BargeIn
  <2>1. Asked(Mic, "interrupt") /\ UNCHANGED rowVars /\ pc[Mic] = "idle"
    BY <1>5, BargeInShape, Zenon DEF BargeIn
  <2> QED BY <1>4, <2>1, TasksAreSix DEF Waiting
<1>6. CASE Transcribed /\ LoopFree
  <2>1. UNCHANGED rowVars /\ pc[Fin] = "asr"
    BY <1>6, Zenon DEF Transcribed
  <2>2. Asked(Fin, "answer") \/ pc' = [pc EXCEPT ![Fin] = "idle"]
    BY <1>6, TranscribedShape
  <2> QED BY <1>0, <1>4, <2>1, <2>2, RowAlone, TasksAreSix DEF rowVars, Waiting
<1>7. CASE ControlCall \/ Record
  <2>1. /\ UNCHANGED rowVars /\ pc[Ctl] \in {"over", "record"}
        /\ pc' = [pc EXCEPT ![Ctl] = "idle"]
    BY <1>7, Zenon DEF ControlCall, Record
  <2> QED BY <1>0, <2>1, RowAlone DEF rowVars, Waiting
<1>8. ASSUME NEW b \in Body, Control(b) PROVE RowStep
  <2>1. UNCHANGED rowVars /\ pc[Ctl] = "idle" /\ Room /\ UNCHANGED <<turnVars, endVars>>
    BY <1>8, Zenon DEF Control
  <2>2. Ask(Ctl, "interrupt") \/ Ask(Ctl, "answer") \/ pc' = [pc EXCEPT ![Ctl] = "record"]
    BY <1>8, Zenon DEF Control
  <2>3. CASE Ask(Ctl, "interrupt") \/ Ask(Ctl, "answer")
    <3>1. Asked(Ctl, "interrupt") \/ Asked(Ctl, "answer")
      BY <2>1, <2>3, TasksAreSix DEF Asked, turnVars, endVars
    <3> QED BY <1>4, <2>1, <3>1, TasksAreSix DEF Waiting
  <2>4. CASE pc' = [pc EXCEPT ![Ctl] = "record"]
    BY <1>0, <2>1, <2>4, RowAlone DEF rowVars, Waiting
  <2> QED BY <2>2, <2>3, <2>4
<1> QED BY <1>1, <1>2, <1>3, <1>5, <1>6, <1>7, <1>8

\* Only close() reports that the row knows.
LEMMA PersistedMoves ==
  ASSUME [Next]_vars
  PROVE  Confirmed
<1> HIDE DEF Inside, Holding, Ending, Preparing, Asking, Interrupting
<1> USE DEF endVars
<1>1. ASSUME NEW t \in Task, Stored(t) PROVE Confirmed
  BY <1>1 DEF Stored, Confirmed
<1>2. ASSUME UNCHANGED persisted PROVE Confirmed
  BY <1>2 DEF Confirmed
<1>3. ASSUME NEW t \in Task, Enter(t) \/ EnterClosed(t) \/ Close(t) \/ Interrupt(t)
      PROVE  Stored(t) \/ UNCHANGED persisted
  BY <1>3, Zenon DEF Enter, EnterClosed, Close, Gathered, Awaited, Interrupt, TtsCancelled,
     TtsCancelRaises, Reaped, MediaCancelled, MediaCancelRaises, Persisted
<1>4. ASSUME NEW e \in Epoch, Generate(e) PROVE UNCHANGED persisted
  BY <1>4, GenerateRests DEF RespQuiet
<1>5. ASSUME CloseCall \/ Reap \/ FenceMedia \/ PrepSteps \/ PrepFails \/ BeatSteps
      PROVE  UNCHANGED persisted
  BY <1>5, Zenon DEF CloseCall, Reap, FenceMedia, PrepSteps, PrepFails, BeatSteps, Fails
<1>6. ASSUME Subscribe \/ Endpoint \/ UserSpeaks \/ BargeIn \/ MicFails
      PROVE  UNCHANGED persisted
  BY <1>6, Zenon DEF Subscribe, Endpoint, UserSpeaks, BargeIn, MicFails, Fails, Dropped
<1>7. ASSUME Transcribed \/ TranscribeFails \/ ControlCall \/ (\E b \in Body : Control(b)) \/ Record
      PROVE  UNCHANGED persisted
  BY <1>7, Zenon DEF Transcribed, TranscribeFails, ControlCall, Control, Record, Fails
<1>8. ASSUME (\E w \in writes : Commit(w) \/ CommitFails(w)) \/ Revocation \/ WorkerAnswers \/ WorkerDies
             \/ UNCHANGED vars
      PROVE  UNCHANGED persisted
  BY <1>8, Zenon DEF Commit, CommitFails, Revocation, WorkerAnswers, WorkerDies, vars
<1> HIDE DEF Confirmed, endVars
<1>9. ASSUME Tasks PROVE Confirmed
  BY <1>1, <1>2, <1>3, <1>5, <1>6, <1>7, <1>9, Zenon DEF Tasks
<1> QED BY <1>1, <1>2, <1>3, <1>4, <1>8, <1>9, Zenon DEF Next

\* A thread updates the row, or fails to: a session that has ended stays so.
LEMMA LandedRow ==
  ASSUME RestTypes, NEW w \in writes, Commit(w) \/ CommitFails(w)
  PROVE  RowStep
<1>0. /\ result \in [Task \cup Epoch -> {"none", "ok", "bad"}]
      /\ row \in [status : Status, epoch : Epoch, fence : {1, 2}, revoked : {"no", "selected", "done"}]
      /\ w \in Write /\ None \notin Task
  BY ActorAssumption DEF RestTypes, RowTypes
<1>1. UNCHANGED pc /\ writes' = writes \ {w}
  BY Zenon DEF Commit, CommitFails, taskVars
<1>2. ASSUME NEW r \in {"ok", "bad"}, Answered(w, r)
      PROVE  /\ \A x \in Task : x # w.by => result'[x] = result[x]
             /\ w.by \in Task => result'[w.by] = r
  BY <1>0, <1>2 DEF Answered
<1>3. CASE Commit(w) /\ Accepted(w)
  <2>1. /\ row' = [row EXCEPT !.status = IF w.status = None THEN @ ELSE w.status,
                              !.epoch = IF w.epoch = None THEN @ ELSE w.epoch]
        /\ Answered(w, "ok")
    BY <1>3 DEF Commit
  <2>2. row.status \in Gone => w.status \in {None, "CLOSED"}
    BY <1>3 DEF Accepted
  <2>3. /\ row'.status = IF w.status = None THEN row.status ELSE w.status
        /\ row'.revoked = row.revoked
    BY <1>0, <2>1
  <2>4. w.status = "CLOSED" => row'.status = "CLOSED"
    <3>1. ASSUME w.status = "CLOSED", w.status = None PROVE row'.status = "CLOSED"
      BY <3>1, ActorAssumption
    <3> QED BY <2>3, <3>1
  <2>a. Ended => Ended'
    BY <2>2, <2>3, <2>4 DEF Ended, Gone
  <2>b. w.status = "CLOSED" => Ended'
    BY <2>4 DEF Ended
  <2>5. Landed(w)
    BY <1>1, <1>2, <2>1, <2>a, <2>b DEF Landed
  <2> QED BY <2>5 DEF RowStep
<1>4. CASE UNCHANGED row /\ Answered(w, "bad")
  <2>1. Landed(w)
    BY <1>1, <1>2, <1>4 DEF Landed, Ended
  <2> QED BY <2>1 DEF RowStep
<1>5. (Commit(w) /\ Accepted(w)) \/ (UNCHANGED row /\ Answered(w, "bad"))
  BY Zenon DEF Commit, CommitFails
<1> QED BY <1>3, <1>4, <1>5

\* Whatever the row has become since it was selected, a revocation only drains it, and
\* the cleanup only closes it.
LEMMA RevocationRow ==
  ASSUME RestTypes, Revocation
  PROVE  RowStep
<1>1. UNCHANGED <<pc, writes, result>>
  BY Zenon DEF Revocation, taskVars
<1>2. row \in [status : Status, epoch : Epoch, fence : {1, 2}, revoked : {"no", "selected", "done"}]
  BY DEF RestTypes, RowTypes
<1>3. RevokeSelects \/ RevokeCommits \/ RevokeFails \/ StopOrphan
  BY DEF Revocation
<1>4. Ended => Ended'
  BY <1>2, <1>3 DEF Ended, Gone, RevokeSelects, RevokeCommits, RevokeFails, StopOrphan
<1>5. Freed({})
  BY <1>1, <1>4 DEF Freed
<1> QED BY <1>5 DEF RowStep

LEMMA NextIsRow ==
  ASSUME Kernel, RestTypes, RowSound, [Next]_vars
  PROVE  RowStep
<1>0. pc \in [Task -> TaskState]
  BY DEF Kernel, KernelTypes
<1>1. CASE UNCHANGED vars \/ WorkerAnswers \/ WorkerDies
  <2>1. UNCHANGED <<taskVars, rowVars>>
    BY <1>1, Zenon DEF vars, WorkerAnswers, WorkerDies
  <2> QED BY <2>1, RowAlone DEF taskVars, rowVars
<1>2. ASSUME NEW t \in Task, Enter(t) PROVE RowStep
  <2>1. UNCHANGED rowVars
    BY <1>2 DEF Enter
  <2>2. pc[t] \in Asking /\ \E s \in Interrupting : pc' = [pc EXCEPT ![t] = s]
    BY <1>2, EnterShape DEF Entered, Granted
  <2>3. \A x \in Task : x # t => pc'[x] = pc[x]
    BY <1>0, <2>2
  <2>4. pc'[t] # "persist"
    <3>1. \E s \in {"tts", "reap", "media"} : pc' = [pc EXCEPT ![t] = s]
      BY <1>2, EnterEffect DEF CancelResponse
    <3> QED BY <1>0, <3>1
  <2>5. pc'[t] \in Interrupting
    BY <1>0, <2>2
  <2> QED BY <2>1, <2>2, <2>3, <2>4, <2>5, RowAlone DEF rowVars, Waiting
<1>3. ASSUME NEW t \in Task, EnterClosed(t) PROVE RowStep
  <2>1. /\ Returned(t) /\ Granted(t) /\ UNCHANGED <<row, epoch, closing, closeDone, persisted>>
    BY <1>3, Zenon DEF EnterClosed
  <2>2. NoWrite(t)
    BY <2>1, NothingWritten DEF Granted, Waiting
  <2> QED BY <2>1, <2>2, ReturnedRow
<1>4. ASSUME NEW e \in Epoch, Generate(e) PROVE RowStep
  BY <1>4, GenerateRow DEF RestTypes
<1>5. CASE LoopFree /\ Tasks
  <2>1. ASSUME NEW t \in Task, Close(t) \/ Interrupt(t) PROVE RowStep
    BY <2>1, CloseRow, InterruptRow
  <2> HIDE DEF Inside, Holding, Ending, Preparing, Asking, Interrupting
  <2>2. CASE CloseCall \/ Reap \/ FenceMedia \/ PrepSteps \/ PrepFails \/ BeatSteps
    BY <2>2, ServiceRow, Zenon
  <2>3. CASE \/ Subscribe \/ Endpoint \/ UserSpeaks \/ BargeIn \/ MicFails
             \/ Transcribed \/ TranscribeFails
             \/ ControlCall \/ (\E b \in Body : Control(b)) \/ Record
    BY <1>5, <2>3, VoiceRow, Zenon
  <2> QED BY <1>5, <2>1, <2>2, <2>3, Zenon DEF Tasks
<1>6. ASSUME NEW w \in writes, Commit(w) \/ CommitFails(w) PROVE RowStep
  BY <1>6, LandedRow
<1>7. CASE Revocation
  BY <1>7, RevocationRow
<1> HIDE DEF Inside, Holding, Ending, Preparing, Asking, Interrupting
<1> QED BY <1>1, <1>2, <1>3, <1>4, <1>5, <1>6, <1>7, Zenon DEF Next

LEMMA RowKept ==
  ASSUME Kernel, RestTypes, RowSound, [Next]_vars
  PROVE  RowSound'
BY NextIsRow, PersistedMoves, FreedSound, WroteSound, LandedSound DEF RowStep

-----------------------------------------------------------------------------
(* The end                                                                 *)

\* An answer that waits for the lock is before the close that waits for it.
OrderSound ==
  closing => \A x \in Task : In(lockQ, x) /\ mode[x] = "answer" =>
    closeDone \/ \E c \in Task : mode[c] = "close" /\ Before(lockQ, x, c)

\* Nobody asks to answer once a close runs.
LEMMA AnswerAsked ==
  ASSUME Kernel, [Next]_vars, closing, NEW x \in Task, In(lockQ', x), mode'[x] = "answer"
  PROVE  /\ In(lockQ, x) /\ mode[x] = "answer"
         /\ \/ closeDone'
            \/ \A c \in Task : mode[c] = "close" /\ Before(lockQ, x, c) =>
                  mode'[c] = "close" /\ Before(lockQ', x, c)
<1>0. /\ pc \in [Task -> TaskState] /\ mode \in [Task -> {"interrupt", "answer", "close"}]
      /\ lockQ \in Seq(Task) /\ Distinct(lockQ)
  BY DEF Kernel, KernelTypes, QueueSound
<1>1. CASE UNCHANGED <<lockQ, mode>>
  BY <1>1
<1>2. ASSUME NEW t \in Task, Left(t) PROVE /\ In(lockQ, x) /\ mode[x] = "answer"
                                           /\ \A c \in Task : mode[c] = "close" /\ Before(lockQ, x, c) =>
                                                 mode'[c] = "close" /\ Before(lockQ', x, c)
  <2>1. /\ mode[t] # "close" /\ mode' = [mode EXCEPT ![t] = "interrupt"] /\ lockQ' = Tail(lockQ)
        /\ lockQ # <<>> /\ t = Head(lockQ)
    BY <1>2, HolderIsHead DEF Left
  <2>2. Becomes(lockQ, lockQ', {t}, {})
    BY <1>0, <2>1, BecomesTail
  <2> QED BY <1>0, <2>1, <2>2 DEF Becomes
<1>3. ASSUME NEW t \in Task, Stopped(t) PROVE /\ In(lockQ, x) /\ mode[x] = "answer"
                                              /\ \A c \in Task : ~(mode[c] = "close" /\ Before(lockQ, x, c))
  <2>1. /\ Becomes(lockQ, lockQ', {t} \cup {Mic} \cup {Fin} \cup {Beat}, {})
        /\ mode'[x] = IF x # t /\ x \in Listeners THEN "interrupt" ELSE mode[x]
        /\ mode[t] = "close"
    BY <1>3, StoppedQueue DEF Stopped
  <2>2. In(lockQ, x) /\ mode[x] = "answer"
    BY <2>1 DEF Becomes
  <2>3. \A c \in Task : mode[c] = "close" => c = t
    BY <2>1 DEF Kernel, EndSound
  <2>4. ~Before(lockQ, x, t)
    BY <1>3, HolderIsHead DEF Stopped
  <2> QED BY <2>2, <2>3, <2>4
<1>4. ASSUME NEW t \in Task, Finished(t) PROVE In(lockQ, x) /\ mode[x] = "answer" /\ closeDone'
  BY <1>4 DEF Finished
<1>5. ASSUME NEW t \in Task, Shed(t)
      PROVE  /\ In(lockQ, x) /\ mode[x] = "answer"
             /\ \/ closeDone'
                \/ \A c \in Task : mode[c] = "close" /\ Before(lockQ, x, c) =>
                      mode'[c] = "close" /\ Before(lockQ', x, c)
  <2>1. /\ Becomes(lockQ, lockQ', {t}, {}) /\ mode' = [mode EXCEPT ![t] = "interrupt"]
        /\ closeDone' = (closeDone \/ Cut(t))
    BY <1>0, <1>5, BecomesWithout DEF Shed
  <2>2. In(lockQ, x) /\ mode[x] = "answer"
    BY <1>0, <2>1 DEF Becomes
  <2>3. ASSUME NEW c \in Task, mode[c] = "close", Before(lockQ, x, c), ~closeDone'
        PROVE  mode'[c] = "close" /\ Before(lockQ', x, c)
    <3>1. pc[c] \in Inside
      BY <2>3 DEF Kernel, QueueSound
    <3>2. c # t
      BY <2>1, <2>3, <3>1 DEF Cut
    <3>3. x # t
      BY <1>0, <2>1
    <3> QED BY <1>0, <2>1, <2>3, <3>2, <3>3 DEF Becomes
  <2> QED BY <2>2, <2>3
<1>6. ASSUME NEW t \in Task, NEW lost \in BOOLEAN, NEW q, Begins(t, lost, q)
      PROVE  /\ In(lockQ, x) /\ mode[x] = "answer"
             /\ \A c \in Task : mode[c] = "close" /\ Before(lockQ, x, c) =>
                   mode'[c] = "close" /\ Before(lockQ', x, c)
  <2>1. UNCHANGED mode
    BY <1>6 DEF Begins, BeginClose
  <2>2. PICK R : /\ R = IF q = lockQ /\ pc[t] \notin Inside THEN {} ELSE {t}
                 /\ Becomes(lockQ, lockQ', R, {})
    BY <1>6, BeginsQueue
  <2>3. ASSUME NEW c \in Task, mode[c] = "close", Before(lockQ, x, c) PROVE Before(lockQ', x, c)
    <3>1. pc[c] \in Inside
      BY <2>3 DEF Kernel, QueueSound
    <3>2. c \notin R
      BY <1>6, <2>2, <2>3, <3>1 DEF Begins
    <3> QED BY <2>2, <2>3, <3>2 DEF Becomes
  <2> QED BY <2>1, <2>2, <2>3 DEF Becomes
<1>7. ASSUME NEW t \in Task, NEW m, Asked(t, m), m # "answer"
      PROVE  /\ In(lockQ, x) /\ mode[x] = "answer"
             /\ \A c \in Task : mode[c] = "close" /\ Before(lockQ, x, c) =>
                   mode'[c] = "close" /\ Before(lockQ', x, c)
  <2>1. /\ Becomes(lockQ, lockQ', {}, {t}) /\ mode'[t] = m
        /\ \A y \in Task : y # t => mode'[y] = mode[y]
    BY <1>7, AskedQueue
  <2>2. \A c \in Task : mode[c] = "close" /\ Before(lockQ, x, c) => c # t
    BY <1>7 DEF Asked, Kernel, QueueSound
  <2> QED BY <1>7, <2>1, <2>2 DEF Becomes
<1>8. CASE Passing
  BY <1>1, <1>2, <1>3, <1>4, <1>5, <1>6, <1>8 DEF Passing, Aside
<1>9. CASE BargeIn
  BY <1>7, <1>9, BargeInShape, TasksAreSix
<1>10. CASE \E t \in Task : Enter(t)
  BY <1>1, <1>10 DEF Enter
<1>11. CASE Endpoint
  BY <1>5, <1>11, EndpointShape, TasksAreSix
<1>12. CASE UserSpeaks
  BY <1>1, <1>12 DEF UserSpeaks, taskVars
<1>13. CASE Transcribed /\ LoopFree
  BY <1>1, <1>13, TranscribedShape
<1>14. CASE Record
  BY <1>1, <1>14 DEF Record
<1>15. ASSUME NEW b \in Body, Control(b)
       PROVE  /\ In(lockQ, x) /\ mode[x] = "answer"
              /\ \/ closeDone'
                 \/ \A c \in Task : mode[c] = "close" /\ Before(lockQ, x, c) =>
                       mode'[c] = "close" /\ Before(lockQ', x, c)
  <2>1. /\ Room /\ pc[Ctl] = "idle" /\ UNCHANGED <<turnVars, endVars>>
        /\ Ask(Ctl, "interrupt") \/ UNCHANGED <<mode, lockQ>>
    BY <1>15, Zenon DEF Control, CanAnswer
  <2>2. CASE Ask(Ctl, "interrupt")
    BY <1>7, <2>1, <2>2, TasksAreSix DEF Asked, turnVars, endVars
  <2>3. CASE UNCHANGED <<mode, lockQ>>
    BY <1>1, <2>3
  <2> QED BY <2>1, <2>2, <2>3
<1> HIDE DEF Inside, Holding, Ending, Preparing, Asking, Interrupting
<1> QED BY NextShape, <1>8, <1>9, <1>10, <1>11, <1>12, <1>13, <1>14, <1>15, Zenon

\* A close that is over stays so.
LEMMA DoneStays ==
  ASSUME Kernel, [Next]_vars, closeDone
  PROVE  closeDone'
<1>1. ASSUME Aside PROVE closeDone'
  BY <1>1 DEF Aside
<1>2. ASSUME NEW t \in Task, Entered(t) \/ Left(t) \/ Stopped(t) \/ Finished(t) \/ Shed(t) PROVE closeDone'
  BY <1>2 DEF Entered, Left, Stopped, Finished, Shed
<1>3. ASSUME NEW t \in Task, NEW lost, NEW q, Begins(t, lost, q) PROVE closeDone'
  BY <1>3 DEF Begins
<1>4. ASSUME NEW t \in Task, NEW m, Asked(t, m) PROVE closeDone'
  BY <1>4 DEF Asked
<1> QED BY <1>1, <1>2, <1>3, <1>4, NextIsShape, Zenon DEF Shape

\* Only a step of the shape Begins starts a close.
LEMMA CloseBegins ==
  ASSUME Kernel, [Next]_vars, ~closing, closing'
  PROVE  \E t \in Task : \E lost, q : Begins(t, lost, q)
<1>1. ~Aside
  BY DEF Aside
<1>2. ASSUME NEW t \in Task PROVE ~(Entered(t) \/ Left(t) \/ Stopped(t) \/ Finished(t) \/ Shed(t))
  BY DEF Entered, Left, Stopped, Finished, Shed
<1>3. ASSUME NEW t \in Task, NEW m PROVE ~Asked(t, m)
  BY DEF Asked
<1> QED BY <1>1, <1>2, <1>3, NextIsShape, Zenon DEF Shape

LEMMA OrderStep ==
  ASSUME Kernel, OrderSound, [Next]_vars
  PROVE  OrderSound'
<1> SUFFICES ASSUME closing', ~closeDone', NEW x \in Task, In(lockQ', x), mode'[x] = "answer"
             PROVE  \E c \in Task : mode'[c] = "close" /\ Before(lockQ', x, c)
  BY DEF OrderSound
<1>1. ~closeDone
  BY DoneStays
<1>2. CASE closing
  <2>1. /\ In(lockQ, x) /\ mode[x] = "answer"
        /\ \A c \in Task : mode[c] = "close" /\ Before(lockQ, x, c) =>
              mode'[c] = "close" /\ Before(lockQ', x, c)
    BY <1>2, AnswerAsked
  <2>2. PICK c \in Task : mode[c] = "close" /\ Before(lockQ, x, c)
    BY <1>1, <1>2, <2>1 DEF OrderSound
  <2> QED BY <2>1, <2>2
<1>3. CASE ~closing
  <2>0. PICK t \in Task : \E lost, q : Begins(t, lost, q)
    BY <1>3, CloseBegins
  <2>1. PICK lost, q : Begins(t, lost, q)
    BY <2>0
  <2>2. PICK R : Becomes(lockQ, lockQ', R, {t})
    BY <1>3, <2>1, BeginsQueue
  <2>3. mode' = [mode EXCEPT ![t] = "close"]
    BY <1>3, <2>1 DEF Begins, BeginClose
  <2>4. mode'[t] = "close" /\ x # t
    BY <2>3 DEF Kernel, KernelTypes
  <2>5. Before(lockQ', x, t)
    BY <2>2, <2>4 DEF Becomes
  <2> QED BY <2>4, <2>5
<1> QED BY <1>2, <1>3

\* The close is past its interrupt, or the row knows of it.
Winding == persisted \/ \E t \in Task : pc[t] \in Ending

\* Then there is no turn, and none will be: nobody waits to answer, and a response that
\* was created and has not begun was cancelled.
WindSound == Winding =>
  /\ response = None
  /\ \A x \in Task : ~(In(lockQ, x) /\ mode[x] = "answer")
  /\ \A x \in Task : pc[x] \notin Interrupting
  /\ \A e \in Epoch : resp[e] = "open" => e \in doomed

\* The interrupt of a close ends: those who wished to answer were before it.
LEMMA HaltsWinds ==
  ASSUME Kernel, FloorSound, OrderSound, NEW t \in Task, Halts(t), Begun
  PROVE  WindSound'
<1>1. Stopped(t) /\ pc[t] \in Interrupting /\ mode[t] = "close"
  BY DEF Halts, Stopped
<1>2. UNCHANGED <<response, resp, doomed>>
  <2>1. CASE TtsCancelRaises(t) \/ MediaCancelRaises(t)
    BY <2>1, Zenon DEF TtsCancelRaises, MediaCancelRaises, turnVars, respVars
  <2>2. CASE Persisted(t)
    BY <1>1, <2>2, Zenon DEF Persisted, Returned, respVars
  <2>3. CASE TtsCancelled(t) \/ Reaped(t) \/ MediaCancelled(t)
    <3>1. \E s \in {"reap", "media", "persist"} : pc' = [pc EXCEPT ![t] = s]
      BY <2>3 DEF TtsCancelled, CancelResponse, Reaped, MediaCancelled
    <3>2. pc'[t] # "gather"
      BY <3>1 DEF Kernel, KernelTypes
    <3> QED BY <3>2 DEF Halts
  <2> QED BY <2>1, <2>2, <2>3 DEF Halts, Interrupt
<1>3. response = None
  BY <1>1 DEF FloorSound
<1>4. \A x \in Task : pc'[x] \notin Interrupting
  BY <1>1, NobodyLeft
<1>5. \A e \in Epoch : resp[e] = "open" => e \in doomed
  BY <1>1 DEF Begun
<1>6. ASSUME NEW x \in Task, In(lockQ', x), mode'[x] = "answer" PROVE FALSE
  <2>1. In(lockQ, x) /\ mode[x] = "answer"
    BY <1>1, <1>6, StoppedQueue DEF Becomes
  <2>2. closing /\ ~closeDone
    BY <1>1 DEF Kernel, EndSound
  <2>3. PICK c \in Task : mode[c] = "close" /\ Before(lockQ, x, c)
    BY <2>1, <2>2 DEF OrderSound
  <2>4. c = t
    BY <1>1, <2>3 DEF Kernel, EndSound
  <2> QED BY <1>1, <2>3, <2>4, HolderIsHead
<1> QED BY <1>2, <1>3, <1>4, <1>5, <1>6 DEF WindSound

LEMMA WindStep ==
  ASSUME Kernel, RestTypes, FloorSound, OrderSound, WindSound, [Next]_vars
  PROVE  WindSound'
<1>0. pc \in [Task -> TaskState]
  BY DEF Kernel, KernelTypes
<1>1. CASE ~Winding /\ Winding'
  <2>1. ~persisted'
    BY <1>1, PersistedMoves DEF Winding, Confirmed
  <2>2. PICK t \in Task : pc'[t] \in Ending /\ pc[t] \notin Ending
    BY <1>1, <2>1 DEF Winding
  <2>3. ~Enter(t)
    <3>1. ASSUME Enter(t) PROVE \E s \in Interrupting : pc' = [pc EXCEPT ![t] = s]
      BY <3>1, EnterShape DEF Entered
    <3> QED BY <1>0, <2>2, <3>1
  <2>4. ~(TtsCancelled(t) \/ Reaped(t) \/ MediaCancelled(t))
    <3>1. ASSUME TtsCancelled(t) \/ Reaped(t) \/ MediaCancelled(t)
          PROVE  \E s \in {"reap", "media", "persist"} : pc' = [pc EXCEPT ![t] = s]
      BY <3>1 DEF TtsCancelled, CancelResponse, Reaped, MediaCancelled
    <3> QED BY <1>0, <2>2, <3>1
  <2>5. ~Gathered(t)
    BY <2>2 DEF Gathered
  <2>6. Halts(t) /\ Begun
    BY <2>2, <2>3, <2>4, <2>5, LaterMoves DEF Later
  <2> QED BY <2>6, HaltsWinds
<1>2. CASE Winding
  <2>1. closed /\ closing
    BY <1>2 DEF Winding, Kernel, EndSound
  <2>2. \A t \in Task : ~Enter(t)
    BY <2>1 DEF Enter
  <2>3. \A x \in Task : pc'[x] \notin Interrupting
    BY <1>2, <2>2, EnteredIsEnter DEF WindSound
  <2>4. \A x \in Task : ~(In(lockQ', x) /\ mode'[x] = "answer")
    BY <1>2, <2>1, AnswerAsked DEF WindSound
  <2>5. \A t \in Task : ~(TtsCancelled(t) \/ TtsCancelRaises(t) \/ Persisted(t))
    BY <1>2 DEF WindSound, TtsCancelled, TtsCancelRaises, Persisted
  <2>6. ASSUME NEW t \in Task, EnterClosed(t) PROVE UNCHANGED <<response, resp, doomed>>
    <3>1. In(lockQ, t)
      BY <2>6, HolderIsHead DEF EnterClosed
    <3>2. mode[t] # "answer"
      BY <1>2, <3>1 DEF WindSound
    <3> QED BY <2>6, <3>2, ReturnedEffect
  <2>7. response' = None
    BY <1>2, <2>2, <2>5, <2>6, ResponseKept DEF WindSound
  <2>8. \A e \in Epoch : resp'[e] = "open" => e \in doomed'
    <3>1. CASE UNCHANGED <<resp, doomed>>
      BY <1>2, <3>1 DEF WindSound
    <3>2. ASSUME NEW e \in Epoch, Generate(e) PROVE \A f \in Epoch : resp'[f] = "open" => f \in doomed'
      <4>1. /\ \E s \in RespState \ {"none", "open"} : resp' = [resp EXCEPT ![e] = s]
            /\ doomed' = doomed \/ doomed' = doomed \ {e}
        BY <3>2, GenerateEffect DEF RestTypes
      <4>2. resp \in [Epoch -> RespState]
        BY DEF RestTypes, RespTypes
      <4> QED BY <1>2, <4>1, <4>2 DEF WindSound
    <3>3. ASSUME (\E t \in Task : Gathered(t)) \/ WorkerAnswers \/ WorkerDies \/ PrepSteps
          PROVE  UNCHANGED <<resp, doomed>>
      BY <3>3 DEF Gathered, WorkerAnswers, WorkerDies, PrepSteps, respVars
    <3> QED BY <2>2, <2>5, <2>6, <3>1, <3>2, <3>3, SpeechFrame
  <2> QED BY <2>3, <2>4, <2>7, <2>8 DEF WindSound
<1>3. CASE ~Winding'
  BY <1>3 DEF WindSound
<1> QED BY <1>1, <1>2, <1>3

\* Provider and media were closed, and the row was asked.
Wound == persisted \/ \E t \in Task : pc[t] = "store"

\* They stay closed.
WoundSound == Wound =>
  tts.worker = "none" /\ tts.key = None /\ media.tracks = {} /\ ~media.up

\* A response does not bring back a provider that is gone.
LEMMA GenerateSilent ==
  ASSUME TtsTypes, NEW e \in Epoch, Generate(e), tts.worker = "none", tts.key = None,
         resp[e] = "open" => e \in doomed
  PROVE  tts'.worker = "none" /\ tts'.key = None
<1> USE DEF TtsTypes
<1>1. ASSUME NEW x, x.worker = "none", x.key = None, x \in [key : Epoch \cup {None}, worker : {"none", "loading", "up", "dead"},
              req : {"none", "running", "stopped", "failed"}]
      PROVE  /\ Fenced(x).worker = "none" /\ Fenced(x).key = None
             /\ Halted(x).worker = "none" /\ Halted(x).key = None
  BY <1>1 DEF Fenced, Halted
<1>2. ~RespOpen(e)
  BY DEF RespOpen, Moves, Fallen
<1>3. ~RespPush(e)
  BY ActorAssumption DEF RespPush, Epoch
<1>4. ASSUME Fallen(e, tts) PROVE tts'.worker = "none" /\ tts'.key = None
  BY <1>1, <1>4 DEF Fallen
<1>5. CASE RespLoad(e)
  <2>1. [tts EXCEPT !.worker = "none"] = tts
    OBVIOUS
  <2>2. Fallen(e, tts)
    BY <1>5, <2>1 DEF RespLoad
  <2> QED BY <1>4, <2>2
<1>6. CASE RespClear(e) \/ RespPublish(e) \/ RespActive(e) \/ RespEnd(e) \/ RespFinish(e)
  <2>1. UNCHANGED tts \/ Fallen(e, tts)
    BY <1>6, Zenon DEF RespClear, RespPublish, RespActive, RespEnd, RespFinish
  <2> QED BY <1>4, <2>1
<1>7. CASE RespFail(e) \/ RespCancelled(e)
  <2>1. tts' \in {tts, Halted(tts), [tts EXCEPT !.worker = "none"]}
    BY <1>7 DEF RespFail, RespCancelled
  <2> QED BY <1>1, <2>1
<1> QED BY <1>2, <1>3, <1>5, <1>6, <1>7 DEF Generate

LEMMA WoundStep ==
  ASSUME Kernel, RestTypes, WindSound, WoundSound, [Next]_vars
  PROVE  WoundSound'
<1>0. pc \in [Task -> TaskState]
  BY DEF Kernel, KernelTypes
<1>1. CASE ~Wound /\ Wound'
  <2>1. ~persisted'
    BY <1>1, PersistedMoves DEF Wound, Confirmed
  <2>2. PICK t \in Task : pc'[t] = "store" /\ pc[t] # "store"
    BY <1>1, <2>1 DEF Wound
  <2>3. ~Enter(t)
    <3>1. ASSUME Enter(t) PROVE \E s \in Interrupting : pc' = [pc EXCEPT ![t] = s]
      BY <3>1, EnterShape DEF Entered
    <3> QED BY <1>0, <2>2, <3>1
  <2>4. ~(TtsCancelled(t) \/ Reaped(t) \/ MediaCancelled(t))
    <3>1. ASSUME TtsCancelled(t) \/ Reaped(t) \/ MediaCancelled(t)
          PROVE  \E s \in {"reap", "media", "persist"} : pc' = [pc EXCEPT ![t] = s]
      BY <3>1 DEF TtsCancelled, CancelResponse, Reaped, MediaCancelled
    <3> QED BY <1>0, <2>2, <3>1
  <2>5. ~Halts(t)
    BY <2>2 DEF Halts
  <2>6. Gathered(t)
    BY <2>2, <2>3, <2>4, <2>5, LaterMoves DEF Later
  <2> QED BY <2>6 DEF Gathered, Halted, RestTypes, TtsTypes, MediaTypes, WoundSound
<1>2. CASE Wound
  <2>1. closed /\ Winding /\ closing
    BY <1>2 DEF Wound, Winding, Kernel, EndSound
  <2>2. \A t \in Task : ~(Enter(t) \/ TtsCancelled(t) \/ TtsCancelRaises(t) \/ Persisted(t) \/ MediaCancelled(t))
    BY <2>1 DEF WindSound, Enter, TtsCancelled, TtsCancelRaises, Persisted, MediaCancelled
  <2>3. ~PrepSteps
    BY <2>1 DEF PrepSteps, Kernel, EndSound
  <2>4. ASSUME NEW t \in Task, Gathered(t) PROVE WoundSound'
    BY <2>4 DEF Gathered, Halted, RestTypes, TtsTypes, MediaTypes, WoundSound
  <2>5. ASSUME \A t \in Task : ~Gathered(t) PROVE tts'.worker = "none" /\ tts'.key = None
    <3>1. tts.worker = "none" /\ tts.key = None
      BY <1>2 DEF WoundSound
    <3>2. ~WorkerAnswers /\ ~WorkerDies
      BY <3>1 DEF WorkerAnswers, WorkerDies
    <3>3. ASSUME NEW t \in Task, EnterClosed(t) PROVE UNCHANGED tts
      BY <3>3, ReturnedEffect
    <3>4. ASSUME NEW e \in Epoch, Generate(e) PROVE tts'.worker = "none" /\ tts'.key = None
      BY <2>1, <3>1, <3>4, GenerateSilent DEF WindSound, RestTypes
    <3> QED BY <2>2, <2>3, <2>5, <3>1, <3>2, <3>3, <3>4, SpeechFrame
  <2>6. ASSUME \A t \in Task : ~Gathered(t) PROVE media'.tracks = {} /\ ~media'.up
    <3>1. media.tracks = {} /\ ~media.up
      BY <1>2 DEF WoundSound
    <3>2. ASSUME NEW e \in Epoch, Generate(e) PROVE media'.tracks = {} /\ ~media'.up
      BY <3>1, <3>2, GenerateMedia DEF RestTypes
    <3>3. ASSUME FenceMedia PROVE media'.tracks = {} /\ ~media'.up
      BY <3>1, <3>3 DEF FenceMedia, RestTypes, MediaTypes
    <3> QED BY <2>2, <2>3, <2>6, <3>1, <3>2, <3>3, MediaFrame
  <2> QED BY <2>4, <2>5, <2>6 DEF WoundSound
<1>3. CASE ~Wound'
  BY <1>3 DEF WoundSound
<1> QED BY <1>1, <1>2, <1>3

LEMMA EndInit ==
  ASSUME Init
  PROVE  RowSound /\ OrderSound /\ WindSound /\ WoundSound
<1>1. /\ ~persisted /\ ~closing /\ writes = {}
      /\ \A t \in Task : pc[t] \in {"open", "over", "idle"}
      /\ \A t \in Task : result[t] = "none"
  BY DEF Init
<1>2. \A t \in Task : pc[t] \notin Ending /\ pc[t] # "store"
  BY <1>1
<1>3. OrderSound /\ WindSound /\ WoundSound
  BY <1>1, <1>2 DEF OrderSound, Winding, WindSound, Wound, WoundSound
<1>4. RowSound
  BY <1>1, <1>2 DEF RowSound
<1> QED BY <1>3, <1>4

\* A close that the row knows of has stopped the turn, the provider and the tracks, and
\* neither what was started before it, nor a write that was still under way, nor a late
\* revocation brings the session back, whatever fails: all that its row can still go
\* through is the drain of a revocation that had selected it.  And the fence of a revoked
\* asset holds against every start (close; Store.update; revoke; Media.fence, Media.start).
THEOREM ClosedIsClosed == Spec => []EndIsFinal
<1> DEFINE Inv == FencedForGood /\ RowSound /\ OrderSound /\ WindSound /\ WoundSound
<1>1. Init => Inv
  <2>1. Init => media.cancelled = TRUE
    BY DEF Init
  <2> QED BY <2>1, EndInit DEF FencedForGood
<1>2. Layers /\ Inv /\ [Next]_vars => Inv'
  <2> SUFFICES ASSUME Layers, Inv, [Next]_vars PROVE Inv'
    OBVIOUS
  <2>1. FencedForGood'
    BY MediaMoves DEF Layers, RestTypes, FencedForGood
  <2>2. RowSound' /\ OrderSound' /\ WindSound' /\ WoundSound'
    BY RowKept, OrderStep, WindStep, WoundStep DEF Layers
  <2> QED BY <2>1, <2>2
<1>3. Inv => EndIsFinal
  BY DEF RowSound, Winding, WindSound, Wound, WoundSound, PersistedCloseIsQuiet, Quiet, EndIsFinal
<1> HIDE DEF Inv
<1> QED BY <1>1, <1>2, <1>3, LayersHold, PTL DEF Spec
=============================================================================
