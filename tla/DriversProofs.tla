--------------------------- MODULE DriversProofs ---------------------------
(***************************************************************************)
(* What the code of the sixteen drivers is like, for any number of parts   *)
(* and of attempts.  The operators that put code together are shown to     *)
(* keep what is known about its parts: a logic of bodies, which says what  *)
(* kinds of instructions code consists of and that its jumps stay inside,  *)
(* one of borders, which no retry crosses backwards, one of outlines and   *)
(* one of the situations of the header.  Each driver is then taken apart   *)
(* function by function.                                                   *)
(***************************************************************************)
EXTENDS DriverOutline, SequenceTheorems, WellFoundedInduction, TLAPS

Kind(i) == <<i.do, i.at>>

(* The instructions of code are of the kinds in D, and jumps stay inside it. *)
Fits(i, k, len) ==
  /\ k + i.ok <= len + 1 /\ k + i.no <= len + 1 /\ i.back < k
  /\ i.do = "room" \/ i.part <= Parts

Body(code, D) ==
  /\ code \in Seq(Instructions)
  /\ \A k \in 1..Len(code) : Fits(code[k], k, Len(code)) /\ Kind(code[k]) \in D

LEMMA InstructionType ==
  \A i \in Instructions :
    /\ i.do \in Deeds /\ i.at \in Subjects /\ i.part \in Nat /\ i.ok \in Nat \ {0}
    /\ i.no \in Nat /\ i.limit \in 1..Tries /\ i.back \in Nat /\ i.keep \in BOOLEAN
BY DEF Instructions

LEMMA Concat ==
  ASSUME NEW a \in Seq(Instructions), NEW b \in Seq(Instructions)
  PROVE  /\ a \o b \in Seq(Instructions) /\ Len(a) \in Nat /\ Len(b) \in Nat
         /\ Len(a \o b) = Len(a) + Len(b)
         /\ \A k \in 1..Len(a) : (a \o b)[k] = a[k] /\ a[k] \in Instructions
         /\ \A k \in Len(a) + 1..Len(a) + Len(b) :
              /\ k - Len(a) \in 1..Len(b) /\ (a \o b)[k] = b[k - Len(a)]
              /\ b[k - Len(a)] \in Instructions
<1>1. Len(a) \in Nat /\ Len(b) \in Nat
  OBVIOUS
<1>2. /\ a \o b \in Seq(Instructions)
      /\ Len(a \o b) = Len(a) + Len(b)
      /\ \A k \in 1..Len(a) + Len(b) :
           (a \o b)[k] = IF k <= Len(a) THEN a[k] ELSE b[k - Len(a)]
  BY ConcatProperties
<1>3. \A k \in 1..Len(a) : (a \o b)[k] = a[k] /\ a[k] \in Instructions
  BY <1>1, <1>2
<1>4. ASSUME NEW k \in Len(a) + 1..Len(a) + Len(b)
      PROVE  /\ k - Len(a) \in 1..Len(b) /\ (a \o b)[k] = b[k - Len(a)]
             /\ b[k - Len(a)] \in Instructions
  <2>1. k - Len(a) \in 1..Len(b) /\ k \in 1..Len(a) + Len(b) /\ ~(k <= Len(a))
    BY <1>1
  <2> QED
    BY <1>2, <2>1
<1> QED
  BY <1>1, <1>2, <1>3, <1>4

LEMMA BodyConcat ==
  ASSUME NEW a, NEW b, NEW D, Body(a, D), Body(b, D)
  PROVE  Body(a \o b, D)
<1>1. a \in Seq(Instructions) /\ b \in Seq(Instructions)
  BY DEF Body
<1> DEFINE ab == a \o b
<1>2. /\ ab \in Seq(Instructions) /\ Len(a) \in Nat /\ Len(b) \in Nat
      /\ Len(ab) = Len(a) + Len(b)
      /\ \A k \in 1..Len(a) : ab[k] = a[k] /\ a[k] \in Instructions
      /\ \A k \in Len(a) + 1..Len(a) + Len(b) :
           /\ k - Len(a) \in 1..Len(b) /\ ab[k] = b[k - Len(a)]
           /\ b[k - Len(a)] \in Instructions
  BY <1>1, Concat
<1> HIDE DEF ab
<1>3. ASSUME NEW k \in 1..Len(a)
      PROVE  Fits(ab[k], k, Len(ab)) /\ Kind(ab[k]) \in D
  <2>1. PICK i \in Instructions : i = a[k]
    BY <1>2
  <2>2. Fits(i, k, Len(a)) /\ Kind(i) \in D
    BY <2>1 DEF Body
  <2>3. ab[k] = i /\ Len(ab) = Len(a) + Len(b)
    BY <1>2, <2>1
  <2>4. i.ok \in Nat /\ i.no \in Nat /\ i.back \in Nat
    BY InstructionType
  <2>5. Len(a) \in Nat /\ Len(b) \in Nat /\ k \in Nat
    BY <1>2
  <2>6. k + i.ok <= Len(a) + 1 /\ k + i.no <= Len(a) + 1 /\ i.back < k
    BY <2>2 DEF Fits
  <2>7. k + i.ok <= Len(ab) + 1 /\ k + i.no <= Len(ab) + 1
    BY ONLY <2>3, <2>4, <2>5, <2>6
  <2> QED
    BY <2>2, <2>3, <2>6, <2>7 DEF Fits
<1>4. ASSUME NEW k \in Len(a) + 1..Len(a) + Len(b)
      PROVE  Fits(ab[k], k, Len(ab)) /\ Kind(ab[k]) \in D
  <2>1. k - Len(a) \in 1..Len(b)
    BY <1>2
  <2>2. PICK i \in Instructions : i = b[k - Len(a)]
    BY <1>2
  <2>3. Fits(i, k - Len(a), Len(b)) /\ Kind(i) \in D
    BY <2>1, <2>2 DEF Body
  <2>4. ab[k] = i /\ Len(ab) = Len(a) + Len(b)
    BY <1>2, <2>2
  <2>5. i.ok \in Nat /\ i.no \in Nat /\ i.back \in Nat
    BY InstructionType
  <2>6. /\ Len(a) \in Nat /\ Len(b) \in Nat /\ k \in Nat /\ k > Len(a)
    BY <1>2
  <2>7. /\ k - Len(a) + i.ok <= Len(b) + 1 /\ k - Len(a) + i.no <= Len(b) + 1
        /\ i.back < k - Len(a)
    BY <2>3 DEF Fits
  <2>8. k + i.ok <= Len(ab) + 1 /\ k + i.no <= Len(ab) + 1 /\ i.back < k
    <3>1. PICK o \in Nat, n \in Nat, r \in Nat : o = i.ok /\ n = i.no /\ r = i.back
      BY <2>5
    <3>2. PICK la \in Nat, lb \in Nat : la = Len(a) /\ lb = Len(b)
      BY <2>6
    <3>3. k - la + o <= lb + 1 /\ k - la + n <= lb + 1 /\ r < k - la /\ k \in Nat
      BY ONLY <2>6, <2>7, <3>1, <3>2
    <3>4. k + o <= la + lb + 1 /\ k + n <= la + lb + 1 /\ r < k
      BY ONLY <3>3
    <3> QED
      BY ONLY <2>4, <3>1, <3>2, <3>4
  <2> QED
    BY <2>3, <2>4, <2>8 DEF Fits
<1>5. \A k \in 1..Len(ab) : k \in 1..Len(a) \/ k \in Len(a) + 1..Len(a) + Len(b)
  BY <1>2
<1>6. Body(ab, D)
  BY <1>2, <1>3, <1>4, <1>5 DEF Body
<1> QED
  BY <1>6 DEF ab

LEMMA BodyMore ==
  ASSUME NEW a, NEW D, NEW E, Body(a, D), D \subseteq E
  PROVE  Body(a, E)
BY DEF Body

LEMMA BodyEmpty == \A D : Body(<<>>, D)
BY DEF Body

(* An instruction that stands on its own.                                    *)
Plain(i, D) ==
  /\ i \in Instructions /\ i.ok = 1 /\ i.no \in {0, 1} /\ i.back = 0
  /\ Kind(i) \in D /\ (i.do = "room" \/ i.part <= Parts)

LEMMA BodyOne ==
  ASSUME NEW i, NEW D, Plain(i, D)
  PROVE  Body(<<i>>, D)
BY InstructionType DEF Plain, Body, Fits

LEMMA BodyTwo ==
  ASSUME NEW i, NEW j, NEW D, Plain(i, D), Plain(j, D)
  PROVE  Body(<<i, j>>, D)
<1>1. i \in Instructions /\ j \in Instructions
  BY DEF Plain
<1>2. \A k \in 1..2 : k = 1 \/ k = 2
  OBVIOUS
<1> QED
BY <1>1, <1>2, InstructionType DEF Plain, Body, Fits

LEMMA InstructionPlain ==
  ASSUME NEW do \in Deeds, NEW at \in Subjects, NEW part \in Nat,
         do = "room" \/ part <= Parts, NEW D, <<do, at>> \in D
  PROVE  Plain(Instruction(do, at, part), D)
BY LoopAssumption DEF Plain, Instruction, Instructions, Kind

LEMMA RetryPlain ==
  ASSUME NEW i, NEW D, Plain(i, D), NEW n \in 1..Tries
  PROVE  Plain(Retry(i, n), D)
BY LoopAssumption DEF Plain, Retry, Instructions, Kind

LEMMA IgnoredPlain ==
  ASSUME NEW i, NEW D, Plain(i, D)
  PROVE  Plain(Ignored(i), D)
BY DEF Plain, Ignored, Instructions, Kind

(* An instruction that leads elsewhere.                                      *)
Leading(i, ok, no) == [i EXCEPT !.ok = ok, !.no = no]

Leads(i, ok, no, j) ==
  /\ j \in Instructions /\ j.ok = ok /\ j.no = no
  /\ j.back = i.back /\ j.part = i.part /\ j.do = i.do /\ Kind(j) = Kind(i)

LEMMA LeadingLeads ==
  \A i \in Instructions, ok \in Nat \ {0}, no \in Nat : Leads(i, ok, no, Leading(i, ok, no))
<1> SUFFICES ASSUME NEW i \in Instructions, NEW ok \in Nat \ {0}, NEW no \in Nat
             PROVE  Leads(i, ok, no, Leading(i, ok, no))
  OBVIOUS
<1>1. PICK j : j = Leading(i, ok, no)
  OBVIOUS
<1>2. j \in Instructions
  BY <1>1 DEF Instructions, Leading
<1>3. /\ j.ok = ok /\ j.no = no /\ j.back = i.back /\ j.part = i.part
      /\ j.do = i.do /\ j.at = i.at
  BY <1>1 DEF Instructions, Leading
<1> QED
  BY <1>1, <1>2, <1>3 DEF Kind, Leads

LEMMA BodyThree ==
  ASSUME NEW i \in Instructions, NEW j \in Instructions, NEW h \in Instructions, NEW D,
         Fits(i, 1, 3), Fits(j, 2, 3), Fits(h, 3, 3),
         Kind(i) \in D, Kind(j) \in D, Kind(h) \in D
  PROVE  Body(<<i, j, h>>, D)
<1>1. PICK b : b = <<i, j, h>>
  OBVIOUS
<1>2. b \in Seq(Instructions) /\ Len(b) = 3 /\ b[1] = i /\ b[2] = j /\ b[3] = h
  BY <1>1
<1>3. \A k \in 1..3 : k = 1 \/ k = 2 \/ k = 3
  OBVIOUS
<1>4. Body(b, D)
  BY <1>2, <1>3 DEF Body
<1> QED
  BY <1>1, <1>4

(* A loop over code, and a call whose result is ignored, change where the    *)
(* instructions lead and nothing else.                                       *)
LEMMA BodyLike ==
  ASSUME NEW a, NEW D, Body(a, D), NEW b, DOMAIN b = 1..Len(a),
         b = [k \in DOMAIN b |-> b[k]],
         \A k \in 1..Len(a) :
           /\ b[k] \in Instructions /\ Kind(b[k]) = Kind(a[k]) /\ b[k].part = a[k].part
           /\ k + b[k].ok <= Len(a) + 1 /\ k + b[k].no <= Len(a) + 1 /\ b[k].back < k
  PROVE  Body(b, D) /\ Len(b) = Len(a)
<1>1. a \in Seq(Instructions) /\ Len(a) \in Nat
  BY DEF Body
<1>2. b \in Seq(Instructions) /\ Len(b) = Len(a)
  BY <1>1
<1>3. ASSUME NEW k \in 1..Len(a)
      PROVE  Fits(b[k], k, Len(a)) /\ Kind(b[k]) \in D
  <2>1. Fits(a[k], k, Len(a)) /\ Kind(a[k]) \in D
    BY DEF Body
  <2>2. b[k].do = a[k].do
    BY DEF Kind
  <2> QED
    BY <2>1, <2>2 DEF Fits
<1> QED
  BY <1>2, <1>3 DEF Body

LEMMA BodyAttempts ==
  ASSUME NEW a, NEW D, Body(a, D), NEW n \in 1..Tries
  PROVE  Body(Attempts(a, n), D)
<1>1. a \in Seq(Instructions) /\ Len(a) \in Nat
  BY DEF Body
<1>2. PICK b : b = Attempts(a, n)
  OBVIOUS
<1>3. DOMAIN b = 1..Len(a) /\ b = [k \in DOMAIN b |-> b[k]]
  BY <1>2 DEF Attempts
<1>4. ASSUME NEW k \in 1..Len(a)
      PROVE  /\ b[k] \in Instructions /\ Kind(b[k]) = Kind(a[k]) /\ b[k].part = a[k].part
             /\ k + b[k].ok <= Len(a) + 1 /\ k + b[k].no <= Len(a) + 1 /\ b[k].back < k
  <2>1. PICK i \in Instructions : i = a[k] /\ Fits(i, k, Len(a))
    BY DEF Body
  <2>2. b[k] = [i EXCEPT !.back = k - 1, !.limit = n, !.keep = k < Len(a)]
    BY <1>2, <2>1 DEF Attempts
  <2>3. k - 1 \in Nat /\ k - 1 < k /\ (k < Len(a)) \in BOOLEAN
    BY <1>1
  <2>4. b[k] \in Instructions
    BY ONLY <2>1, <2>2, <2>3, n \in 1..Tries DEF Instructions
  <2>5. /\ b[k].do = i.do /\ b[k].at = i.at /\ b[k].part = i.part /\ b[k].ok = i.ok
        /\ b[k].no = i.no /\ b[k].back = k - 1
    BY ONLY <2>1, <2>2 DEF Instructions
  <2> QED
    BY ONLY <2>1, <2>3, <2>4, <2>5 DEF Fits, Kind
<1> QED
  BY <1>2, <1>3, <1>4, BodyLike

LEMMA BodyRounds ==
  ASSUME NEW a, NEW D, Body(a, D), NEW n \in 1..Tries
  PROVE  Body(Rounds(a, n), D)
<1>1. a \in Seq(Instructions) /\ Len(a) \in Nat
  BY DEF Body
<1>2. PICK b : b = Rounds(a, n)
  OBVIOUS
<1>3. DOMAIN b = 1..Len(a) /\ b = [k \in DOMAIN b |-> b[k]]
  BY <1>2 DEF Rounds
<1>4. ASSUME NEW k \in 1..Len(a)
      PROVE  /\ b[k] \in Instructions /\ Kind(b[k]) = Kind(a[k]) /\ b[k].part = a[k].part
             /\ k + b[k].ok <= Len(a) + 1 /\ k + b[k].no <= Len(a) + 1 /\ b[k].back < k
  <2>1. PICK i \in Instructions : i = a[k] /\ Fits(i, k, Len(a))
    BY DEF Body
  <2>2. b[k] = IF k = Len(a) THEN [i EXCEPT !.back = k - 1, !.limit = n]
               ELSE [i EXCEPT !.keep = TRUE]
    BY <1>2, <2>1 DEF Rounds
  <2>3. k - 1 \in Nat /\ k - 1 < k
    BY <1>1
  <2>4. b[k] \in Instructions
    BY ONLY <2>1, <2>2, <2>3, n \in 1..Tries DEF Instructions
  <2>5. /\ b[k].do = i.do /\ b[k].at = i.at /\ b[k].part = i.part /\ b[k].ok = i.ok
        /\ b[k].no = i.no /\ b[k].back \in {i.back, k - 1}
    BY ONLY <2>1, <2>2 DEF Instructions
  <2> QED
    BY ONLY <2>1, <2>3, <2>4, <2>5 DEF Fits, Kind
<1> QED
  BY <1>2, <1>3, <1>4, BodyLike

LEMMA BodyOptional ==
  ASSUME NEW a, NEW D, Body(a, D)
  PROVE  Body(Optional(a), D)
<1>1. a \in Seq(Instructions) /\ Len(a) \in Nat
  BY DEF Body
<1>2. PICK b : b = Optional(a)
  OBVIOUS
<1>3. DOMAIN b = 1..Len(a) /\ b = [k \in DOMAIN b |-> b[k]]
  BY <1>2 DEF Optional
<1>4. ASSUME NEW k \in 1..Len(a)
      PROVE  /\ b[k] \in Instructions /\ Kind(b[k]) = Kind(a[k]) /\ b[k].part = a[k].part
             /\ k + b[k].ok <= Len(a) + 1 /\ k + b[k].no <= Len(a) + 1 /\ b[k].back < k
  <2>1. PICK i \in Instructions : i = a[k] /\ Fits(i, k, Len(a))
    BY DEF Body
  <2>2. b[k] = [i EXCEPT !.no = Len(a) + 1 - k]
    BY <1>2, <2>1 DEF Optional
  <2>3. Len(a) + 1 - k \in Nat /\ k + (Len(a) + 1 - k) = Len(a) + 1
    BY <1>1
  <2>4. b[k] \in Instructions
    BY ONLY <2>1, <2>2, <2>3 DEF Instructions
  <2>5. /\ b[k].do = i.do /\ b[k].at = i.at /\ b[k].part = i.part /\ b[k].ok = i.ok
        /\ b[k].no = Len(a) + 1 - k /\ b[k].back = i.back
    BY ONLY <2>1, <2>2 DEF Instructions
  <2> QED
    BY ONLY <1>1, <2>1, <2>3, <2>4, <2>5 DEF Fits, Kind
<1> QED
  BY <1>2, <1>3, <1>4, BodyLike

LEMMA BodyGuarded ==
  ASSUME NEW i, NEW a, NEW D, Plain(i, D), Body(a, D)
  PROVE  Body(Guarded(i, a), D)
<1>1. a \in Seq(Instructions) /\ Len(a) \in Nat
  BY DEF Body
<1>2. PICK j : j = [i EXCEPT !.no = Len(a) + 1]
  OBVIOUS
<1>3. /\ j \in Instructions /\ j.ok = 1 /\ j.no = Len(a) + 1 /\ j.back = 0
      /\ Kind(j) \in D /\ (j.do = "room" \/ j.part <= Parts)
  <2>1. i \in Instructions /\ Len(a) + 1 \in Nat
    BY <1>1 DEF Plain
  <2>2. j \in Instructions
    BY ONLY <1>2, <2>1 DEF Instructions
  <2>3. /\ j.do = i.do /\ j.at = i.at /\ j.part = i.part /\ j.ok = i.ok
        /\ j.no = Len(a) + 1 /\ j.back = i.back
    BY ONLY <1>2, <2>1 DEF Instructions
  <2> QED
    BY <2>2, <2>3 DEF Plain, Kind
<1>4. <<j>> \in Seq(Instructions) /\ Len(<<j>>) = 1 /\ <<j>>[1] = j
  BY <1>3
<1>5. PICK b : b = <<j>> \o a
  OBVIOUS
<1>6. /\ b \in Seq(Instructions) /\ Len(b) = 1 + Len(a) /\ b[1] = j
      /\ \A k \in 1 + 1..1 + Len(a) : k - 1 \in 1..Len(a) /\ b[k] = a[k - 1]
  <2>1. /\ <<j>> \o a \in Seq(Instructions)
        /\ Len(<<j>> \o a) = Len(<<j>>) + Len(a)
        /\ \A k \in 1..Len(<<j>>) : (<<j>> \o a)[k] = <<j>>[k]
        /\ \A k \in Len(<<j>>) + 1..Len(<<j>>) + Len(a) :
             k - Len(<<j>>) \in 1..Len(a) /\ (<<j>> \o a)[k] = a[k - Len(<<j>>)]
    BY <1>1, <1>4, Concat
  <2> QED
    BY <1>4, <1>5, <2>1
<1>7. ASSUME NEW k \in 2..1 + Len(a)
      PROVE  Fits(b[k], k, Len(b)) /\ Kind(b[k]) \in D
  <2>1. k - 1 \in 1..Len(a) /\ b[k] = a[k - 1]
    BY <1>6
  <2>2. PICK h \in Instructions : h = a[k - 1] /\ Fits(h, k - 1, Len(a)) /\ Kind(h) \in D
    BY <2>1 DEF Body
  <2>3. h.ok \in Nat /\ h.no \in Nat /\ h.back \in Nat
    BY InstructionType
  <2>4. PICK la \in Nat : la = Len(a) /\ Len(b) = 1 + la
    BY <1>1, <1>6
  <2>5. k \in Nat /\ k - 1 + h.ok <= la + 1 /\ k - 1 + h.no <= la + 1 /\ h.back < k - 1
    BY <2>2, <2>4 DEF Fits
  <2>6. k + h.ok <= Len(b) + 1 /\ k + h.no <= Len(b) + 1 /\ h.back < k
    BY ONLY <2>3, <2>4, <2>5
  <2> QED
    BY <2>1, <2>2, <2>6 DEF Fits
<1>8. Fits(b[1], 1, Len(b)) /\ Kind(b[1]) \in D
  BY <1>1, <1>3, <1>6 DEF Fits
<1>9. Body(b, D)
  BY <1>1, <1>6, <1>7, <1>8 DEF Body
<1> QED
  BY <1>2, <1>5, <1>9 DEF Guarded
(* The equation of the loop over all parts.                                  *)
LEMMA LeastIn ==
  ASSUME NEW S \in SUBSET Nat, S # {}
  PROVE  \E x \in S : \A y \in S : x <= y
<1> DEFINE Less == {pair \in Nat \X Nat : pair[1] < pair[2]}
<1>1. IsWellFoundedOn(Less, Nat)
  <2>1. Less = OpToRel(<, Nat)
    BY DEF OpToRel
  <2> QED
    BY <2>1, NatLessThanWellFounded
<1>2. PICK x \in S : \A y \in S : ~ (<<y, x>> \in Less)
  <2> HIDE DEF Less
  <2> QED
    BY <1>1, WFMin
<1>3. \A y \in S : x <= y
  <2> TAKE y \in S
  <2>1. ~ (y < x)
    BY <1>2
  <2> QED
    BY <2>1
<1> QED
  BY <1>3

LEMMA Induction ==
  ASSUME NEW N \in Nat, NEW S, 0 \in S, \A n \in S \cap (0 .. N - 1) : n + 1 \in S
  PROVE  0 .. N \subseteq S
<1> DEFINE Left == (0 .. N) \ S
<1> SUFFICES ASSUME Left # {} PROVE FALSE
  OBVIOUS
<1>1. PICK n \in Left : \A m \in Left : n <= m
  <2>1. Left \in SUBSET Nat
    OBVIOUS
  <2> QED
    BY ONLY <2>1, Left # {}, LeastIn
<1>2. n # 0 /\ n - 1 \in S \cap (0 .. N - 1)
  BY <1>1
<1>3. (n - 1) + 1 = n
  BY <1>1
<1> QED
  BY <1>1, <1>2, <1>3

LEMMA UnrolledByPart ==
  ASSUME NEW body
  PROVE  /\ Unrolled(body)[0] = <<>>
         /\ \A p \in 1..Parts : Unrolled(body)[p] = Unrolled(body)[p - 1] \o body[p]
<1> DEFINE Equation(f, n) ==
             f = [p \in 0..n |-> IF p = 0 THEN <<>> ELSE f[p - 1] \o body[p]]
           Solved == {n \in Nat : \E f : Equation(f, n)}
<1>1. 0 \in Solved
  <2>1. Equation([p \in {0} |-> <<>>], 0)
    OBVIOUS
  <2> QED
    BY <2>1
<1>2. \A n \in Solved \cap (0..Parts - 1) : n + 1 \in Solved
  <2> TAKE n \in Solved \cap (0..Parts - 1)
  <2>1. PICK f : Equation(f, n)
    OBVIOUS
  <2> DEFINE g == [p \in 0..n + 1 |-> IF p = n + 1 THEN f[n] \o body[n + 1] ELSE f[p]]
  <2>2. \A p \in 0..n : g[p] = f[p]
    OBVIOUS
  <2>3. \A p \in 0..n + 1 : g[p] = IF p = 0 THEN <<>> ELSE g[p - 1] \o body[p]
    <3> TAKE p \in 0..n + 1
    <3>1. CASE p = n + 1
      BY <3>1, <2>2
    <3>2. CASE p \in 0..n
      <4>1. f[p] = IF p = 0 THEN <<>> ELSE f[p - 1] \o body[p]
        BY <2>1, <3>2
      <4>2. p # 0 => g[p - 1] = f[p - 1]
        BY <3>2, <2>2
      <4> QED
        BY <3>2, <4>1, <4>2, <2>2
    <3> QED
      BY <3>1, <3>2
  <2>4. Equation(g, n + 1)
    <3> HIDE DEF Solved
    <3> QED
      BY <2>3
  <2>5. n + 1 \in Nat
    OBVIOUS
  <2>6. \E h : Equation(h, n + 1)
    <3> HIDE DEF Equation, g
    <3> QED
      BY <2>4
  <2> HIDE DEF Equation, g
  <2> QED
    BY <2>5, <2>6
<1>3. Parts \in Solved
  <2> HIDE DEF Solved
  <2>1. 0..Parts \subseteq Solved
    BY <1>1, <1>2, LoopAssumption, Induction
  <2> QED
    BY <2>1, LoopAssumption
<1>4. \E f : Equation(f, Parts)
  BY <1>3
<1>5. Unrolled(body) = CHOOSE g : Equation(g, Parts)
  BY DEF Unrolled
<1>6. Equation(Unrolled(body), Parts)
  <2> HIDE DEF Equation
  <2> QED
    BY <1>4, <1>5
<1>7. Parts \in Nat
  BY LoopAssumption
<1> QED
  <2>1. PICK f : f = Unrolled(body)
    OBVIOUS
  <2>2. \A p \in 0..Parts : f[p] = IF p = 0 THEN <<>> ELSE f[p - 1] \o body[p]
    BY <1>6, <2>1
  <2>3. f[0] = <<>>
    <3>1. 0 \in 0..Parts
      BY <1>7
    <3> QED
      BY <3>1, <2>2
  <2>4. \A p \in 1..Parts : f[p] = f[p - 1] \o body[p]
    <3> TAKE p \in 1..Parts
    <3>1. p \in 0..Parts /\ p # 0
      BY <1>7
    <3> QED
      BY <3>1, <2>2
  <2> HIDE DEF Equation, Solved
  <2> QED
    BY <2>1, <2>3, <2>4

LEMMA BodyForEach ==
  ASSUME NEW body, NEW D, \A p \in 1..Parts : Body(body[p], D)
  PROVE  Body(ForEach(body), D)
<1> DEFINE Fine == {p \in 0..Parts : Body(Unrolled(body)[p], D)}
<1>1. 0 \in Fine
  <2>1. 0 \in 0..Parts
    BY LoopAssumption
  <2>2. Unrolled(body)[0] = <<>>
    BY UnrolledByPart
  <2> QED
    BY <2>1, <2>2, BodyEmpty
<1>2. \A p \in Fine \cap (0..Parts - 1) : p + 1 \in Fine
  <2> TAKE p \in Fine \cap (0..Parts - 1)
  <2>1. p + 1 \in 1..Parts /\ p + 1 \in 0..Parts /\ (p + 1) - 1 = p
    BY LoopAssumption
  <2>2. Unrolled(body)[p + 1] = Unrolled(body)[p] \o body[p + 1]
    BY <2>1, UnrolledByPart
  <2>3. Body(Unrolled(body)[p] \o body[p + 1], D)
    BY <2>1, BodyConcat
  <2> QED
    BY <2>1, <2>2, <2>3
<1> HIDE DEF Fine
<1>3. Parts \in Fine
  BY <1>1, <1>2, LoopAssumption, Induction
<1> QED
  BY <1>3 DEF Fine, ForEach
(* Code that begins with instructions of the kinds in D, goes on with those  *)
(* in E, and never leads back across the border.  Before the border there is *)
(* a gate of each kind in G.                                                 *)
Gated(code, n, g) == \E s \in 1..n : Gate(code, s) /\ Kind(code[s]) = g

Parted(code, d, D, E, G) ==
  /\ \A k \in 1..d : Kind(code[k]) \in D
  /\ \A k \in d + 1..Len(code) : Kind(code[k]) \in E /\ k - code[k].back > d
  /\ \A g \in G : Gated(code, d, g)

Split(code, D, E, G) ==
  /\ Body(code, D \cup E)
  /\ \E d \in 0..Len(code) : Parted(code, d, D, E, G)

LEMMA GateLeft ==
  ASSUME NEW a, NEW b, NEW D, NEW E, Body(a, D), Body(b, E),
         NEW n \in 0..Len(a), NEW g, Gated(a, n, g)
  PROVE  Gated(a \o b, n, g)
<1>1. /\ a \in Seq(Instructions) /\ b \in Seq(Instructions)
      /\ Len(a) \in Nat /\ Len(b) \in Nat
  BY DEF Body
<1>2. PICK ab : ab = a \o b
  OBVIOUS
<1>3. Len(ab) = Len(a) + Len(b) /\ \A k \in 1..Len(a) : ab[k] = a[k]
  BY <1>1, <1>2, Concat
<1>4. PICK s \in 1..n : Gate(a, s) /\ Kind(a[s]) = g
  BY DEF Gated
<1>5. s \in 1..Len(a) /\ s \in 1..Len(ab) /\ \A k \in 1..s - 1 : k \in 1..Len(a)
  BY <1>1, <1>3
<1>6. Gate(ab, s)
  BY <1>3, <1>4, <1>5 DEF Gate
<1> QED
  BY <1>2, <1>3, <1>4, <1>5, <1>6 DEF Gated

LEMMA GateRight ==
  ASSUME NEW a, NEW b, NEW D, NEW E, Body(a, D), Body(b, E),
         NEW n \in 0..Len(b), NEW g, Gated(b, n, g)
  PROVE  Gated(a \o b, Len(a) + n, g)
<1>1. /\ a \in Seq(Instructions) /\ b \in Seq(Instructions)
      /\ Len(a) \in Nat /\ Len(b) \in Nat
  BY DEF Body
<1>2. PICK ab : ab = a \o b
  OBVIOUS
<1>3. /\ Len(ab) = Len(a) + Len(b)
      /\ \A k \in 1..Len(a) : ab[k] = a[k] /\ a[k] \in Instructions
      /\ \A k \in Len(a) + 1..Len(a) + Len(b) :
           k - Len(a) \in 1..Len(b) /\ ab[k] = b[k - Len(a)]
  BY <1>1, <1>2, Concat
<1>4. PICK s \in 1..n : Gate(b, s) /\ Kind(b[s]) = g
  BY DEF Gated
<1>5. PICK t : t = Len(a) + s
  OBVIOUS
<1>6. /\ t \in 1..Len(a) + n /\ t \in 1..Len(ab) /\ t - Len(a) = s
      /\ t \in Len(a) + 1..Len(a) + Len(b)
  BY <1>1, <1>3, <1>5
<1>7. ab[t] = b[s]
  BY <1>3, <1>6
<1>8. ASSUME NEW k \in 1..t - 1
      PROVE  k + ab[k].ok <= t /\ k + ab[k].no <= t
  <2>1. CASE k \in 1..Len(a)
    <3>1. PICK i \in Instructions : i = a[k] /\ ab[k] = i
      BY <1>3, <2>1
    <3>2. k + i.ok <= Len(a) + 1 /\ k + i.no <= Len(a) + 1
      BY <2>1, <3>1 DEF Body, Fits
    <3>3. i.ok \in Nat /\ i.no \in Nat
      BY InstructionType
    <3>4. k \in Nat /\ s \in Nat /\ s >= 1 /\ Len(a) \in Nat
      BY <1>1, <1>5, <1>6
    <3>5. Len(a) + 1 <= t
      BY ONLY <1>5, <3>4
    <3>6. k + i.ok <= t /\ k + i.no <= t
      BY ONLY <1>5, <3>2, <3>3, <3>4, <3>5
    <3> QED
      BY <3>1, <3>6
  <2>2. CASE k \notin 1..Len(a)
    <3>1. k - Len(a) \in 1..s - 1 /\ k \in Len(a) + 1..Len(a) + Len(b)
      BY <1>1, <1>5, <1>6, <2>2
    <3>2. PICK i \in Instructions : i = b[k - Len(a)] /\ ab[k] = i
      BY <1>1, <1>3, <3>1
    <3>3. k - Len(a) + i.ok <= s /\ k - Len(a) + i.no <= s
      BY <1>4, <3>1, <3>2 DEF Gate
    <3>4. i.ok \in Nat /\ i.no \in Nat
      BY InstructionType
    <3>5. k \in Nat /\ s \in Nat /\ Len(a) \in Nat
      BY <1>1, <1>5, <1>6
    <3>6. \A l, x, m \in Nat : k - l + x <= m => k + x <= l + m
      BY <3>5
    <3>7. k + i.ok <= Len(a) + s /\ k + i.no <= Len(a) + s
      BY <3>3, <3>4, <3>5, <3>6
    <3> QED
      BY <1>5, <3>2, <3>7
  <2> QED
    BY <2>1, <2>2
<1>9. Gate(ab, t)
  BY <1>4, <1>6, <1>7, <1>8 DEF Gate
<1> QED
  BY <1>2, <1>4, <1>6, <1>7, <1>9 DEF Gated

LEMMA GateEither ==
  ASSUME NEW a, NEW b, NEW D, NEW E, Body(a, D), Body(b, E), NEW g,
         Gated(a, Len(a), g) \/ Gated(b, Len(b), g)
  PROVE  Gated(a \o b, Len(a \o b), g)
<1>1. /\ a \in Seq(Instructions) /\ b \in Seq(Instructions)
      /\ Len(a) \in 0..Len(a) /\ Len(b) \in 0..Len(b) /\ Len(a) \in Nat /\ Len(b) \in Nat
  BY DEF Body
<1>2. Len(a \o b) = Len(a) + Len(b)
  BY <1>1, Concat
<1>3. CASE Gated(a, Len(a), g)
  <2>1. Gated(a \o b, Len(a), g)
    BY <1>1, <1>3, GateLeft
  <2>2. \A s \in 1..Len(a) : s \in 1..Len(a \o b)
    BY <1>1, <1>2
  <2> QED
    BY <2>1, <2>2 DEF Gated
<1>4. CASE Gated(b, Len(b), g)
  BY <1>1, <1>2, <1>4, GateRight
<1> QED
  BY <1>3, <1>4

LEMMA GateRounds ==
  ASSUME NEW i, NEW j, NEW D, Plain(i, D), i.no = 0, Plain(j, D), NEW n \in 1..Tries
  PROVE  Gated(Rounds(<<i>> \o <<j>>, n), Len(Rounds(<<i>> \o <<j>>, n)), Kind(i))
<1>1. i \in Instructions /\ j \in Instructions
  BY DEF Plain
<1>2. PICK c : c = Rounds(<<i>> \o <<j>>, n)
  OBVIOUS
<1>3. Len(<<i>> \o <<j>>) = 2 /\ (<<i>> \o <<j>>)[1] = i
  BY <1>1
<1>4. PICK h : h = [i EXCEPT !.keep = TRUE]
  OBVIOUS
<1>5. Len(c) = 2 /\ c[1] = h
  <2>1. PICK a : a = <<i>> \o <<j>>
    OBVIOUS
  <2>2. PICK last : last = [a[2] EXCEPT !.back = 1, !.limit = n]
    OBVIOUS
  <2>3. c = [k \in 1..2 |-> IF k = 2 THEN [a[k] EXCEPT !.back = k - 1, !.limit = n]
                                    ELSE [a[k] EXCEPT !.keep = TRUE]]
    BY <1>2, <1>3, <2>1 DEF Rounds
  <2>4. c[1] = [a[1] EXCEPT !.keep = TRUE] /\ DOMAIN c = 1..2
    BY <2>3
  <2>5. Body(<<i>> \o <<j>>, D)
    BY BodyOne, BodyConcat
  <2>6. c \in Seq(Instructions)
    BY <1>2, <2>5, BodyRounds DEF Body
  <2> QED
    BY <1>3, <1>4, <2>1, <2>4, <2>6
<1>6. h.no = 0 /\ Kind(h) = Kind(i)
  BY <1>1, <1>4 DEF Instructions, Kind
<1>7. Gate(c, 1) /\ 1 \in 1..2
  BY <1>5, <1>6 DEF Gate
<1>8. Gated(c, Len(c), Kind(i))
  BY <1>5, <1>6, <1>7 DEF Gated
<1> QED
  BY <1>2, <1>8

LEMMA SplitHere ==
  ASSUME NEW a, NEW b, NEW D, NEW E, NEW G, Body(a, D), Body(b, E),
         \A g \in G : Gated(a, Len(a), g)
  PROVE  Split(a \o b, D, E, G)
<1>1. /\ a \in Seq(Instructions) /\ b \in Seq(Instructions)
      /\ Len(a) \in Nat /\ Len(b) \in Nat
  BY DEF Body
<1>2. PICK ab : ab = a \o b
  OBVIOUS
<1>3. /\ Len(ab) = Len(a) + Len(b) /\ \A k \in 1..Len(a) : ab[k] = a[k]
      /\ \A k \in Len(a) + 1..Len(a) + Len(b) :
           k - Len(a) \in 1..Len(b) /\ ab[k] = b[k - Len(a)]
  BY <1>1, <1>2, Concat
<1>4. Body(ab, D \cup E)
  <2>1. Body(a, D \cup E) /\ Body(b, D \cup E)
    BY BodyMore
  <2> QED
    BY <1>2, <2>1, BodyConcat
<1>5. \A k \in 1..Len(a) : Kind(ab[k]) \in D
  BY <1>3 DEF Body
<1>6. ASSUME NEW k \in Len(a) + 1..Len(ab)
      PROVE  Kind(ab[k]) \in E /\ k - ab[k].back > Len(a)
  <2>1. k - Len(a) \in 1..Len(b) /\ ab[k] = b[k - Len(a)]
    BY <1>3
  <2>2. PICK i \in Instructions : i = b[k - Len(a)] /\ Kind(i) \in E /\ i.back < k - Len(a)
    BY <2>1 DEF Body, Fits
  <2>3. i.back \in Nat /\ k \in Nat
    BY <1>1, InstructionType
  <2>4. \A l, x \in Nat : x < k - l => k - x > l
    BY <2>3
  <2>5. k - i.back > Len(a)
    BY <1>1, <2>2, <2>3, <2>4
  <2> QED
    BY <2>1, <2>2, <2>5
<1>7. ASSUME NEW g \in G PROVE Gated(ab, Len(a), g)
  <2>1. Len(a) \in 0..Len(a)
    BY <1>1
  <2> QED
    BY <1>2, <2>1, GateLeft
<1>8. Len(a) \in 0..Len(ab)
  BY <1>1, <1>3
<1> QED
  BY <1>2, <1>4, <1>5, <1>6, <1>7, <1>8 DEF Split, Parted

LEMMA SplitLast ==
  ASSUME NEW a, NEW b, NEW D, NEW E, NEW G, Split(a, D, E, G), Body(b, E)
  PROVE  Split(a \o b, D, E, G)
<1>1. /\ a \in Seq(Instructions) /\ b \in Seq(Instructions)
      /\ Len(a) \in Nat /\ Len(b) \in Nat /\ Body(a, D \cup E)
  BY DEF Split, Body
<1>2. PICK ab : ab = a \o b
  OBVIOUS
<1>3. /\ Len(ab) = Len(a) + Len(b) /\ \A k \in 1..Len(a) : ab[k] = a[k]
      /\ \A k \in Len(a) + 1..Len(a) + Len(b) :
           k - Len(a) \in 1..Len(b) /\ ab[k] = b[k - Len(a)]
  BY <1>1, <1>2, Concat
<1>4. Body(ab, D \cup E)
  <2>1. Body(b, D \cup E)
    BY BodyMore
  <2> QED
    BY <1>1, <1>2, <2>1, BodyConcat
<1>5. PICK d \in 0..Len(a) : Parted(a, d, D, E, G)
  BY DEF Split
<1>6. d \in 0..Len(ab) /\ \A k \in 1..d : k \in 1..Len(a)
  BY <1>1, <1>3
<1>7. \A k \in 1..d : Kind(ab[k]) \in D
  BY <1>3, <1>5, <1>6 DEF Parted
<1>8. ASSUME NEW k \in d + 1..Len(ab)
      PROVE  Kind(ab[k]) \in E /\ k - ab[k].back > d
  <2>1. CASE k \in 1..Len(a)
    <3>1. k \in d + 1..Len(a)
      BY <2>1
    <3> QED
      BY <1>3, <1>5, <2>1, <3>1 DEF Parted
  <2>2. CASE k \notin 1..Len(a)
    <3>1. k \in Len(a) + 1..Len(a) + Len(b)
      BY <1>1, <1>3, <2>2
    <3>2. k - Len(a) \in 1..Len(b) /\ ab[k] = b[k - Len(a)]
      BY <1>3, <3>1
    <3>3. PICK i \in Instructions : i = b[k - Len(a)] /\ Kind(i) \in E /\ i.back < k - Len(a)
      BY <3>2 DEF Body, Fits
    <3>4. i.back \in Nat /\ k \in Nat /\ d \in Nat /\ d <= Len(a)
      BY <1>1, InstructionType
    <3>5. \A l, x \in Nat : x < k - l /\ d <= l => k - x > d
      BY <3>4
    <3>6. k - i.back > d
      BY <1>1, <3>3, <3>4, <3>5
    <3> QED
      BY <3>2, <3>3, <3>6
  <2> QED
    BY <2>1, <2>2
<1>9. ASSUME NEW g \in G PROVE Gated(ab, d, g)
  <2>1. Gated(a, d, g)
    BY <1>5 DEF Parted
  <2> QED
    BY <1>1, <1>2, <2>1, GateLeft
<1> QED
  BY <1>2, <1>4, <1>6, <1>7, <1>8, <1>9 DEF Split, Parted

LEMMA SplitFirst ==
  ASSUME NEW a, NEW b, NEW D, NEW E, NEW G, Body(a, D), Split(b, D, E, G)
  PROVE  Split(a \o b, D, E, G)
<1>1. /\ a \in Seq(Instructions) /\ b \in Seq(Instructions)
      /\ Len(a) \in Nat /\ Len(b) \in Nat /\ Body(b, D \cup E)
  BY DEF Split, Body
<1>2. PICK ab : ab = a \o b
  OBVIOUS
<1>3. /\ Len(ab) = Len(a) + Len(b) /\ \A k \in 1..Len(a) : ab[k] = a[k]
      /\ \A k \in Len(a) + 1..Len(a) + Len(b) :
           k - Len(a) \in 1..Len(b) /\ ab[k] = b[k - Len(a)]
  BY <1>1, <1>2, Concat
<1>4. Body(ab, D \cup E)
  <2>1. Body(a, D \cup E)
    BY BodyMore
  <2> QED
    BY <1>1, <1>2, <2>1, BodyConcat
<1>5. PICK d \in 0..Len(b) : Parted(b, d, D, E, G)
  BY DEF Split
<1>6. PICK e : e = Len(a) + d
  OBVIOUS
<1>7. e \in 0..Len(ab) /\ e \in Nat
  BY <1>1, <1>3, <1>6
<1>8. ASSUME NEW k \in 1..e PROVE Kind(ab[k]) \in D
  <2>1. CASE k \in 1..Len(a)
    BY <1>3, <2>1 DEF Body
  <2>2. CASE k \notin 1..Len(a)
    <3>1. k \in Len(a) + 1..Len(a) + Len(b) /\ k - Len(a) \in 1..d
      BY <1>1, <1>6, <2>2
    <3>2. ab[k] = b[k - Len(a)]
      BY <1>3, <3>1
    <3> QED
      BY <1>5, <3>1, <3>2 DEF Parted
  <2> QED
    BY <2>1, <2>2
<1>9. ASSUME NEW k \in e + 1..Len(ab)
      PROVE  Kind(ab[k]) \in E /\ k - ab[k].back > e
  <2>1. k \in Len(a) + 1..Len(a) + Len(b) /\ k - Len(a) \in d + 1..Len(b)
    BY <1>1, <1>3, <1>6
  <2>2. k - Len(a) \in 1..Len(b) /\ ab[k] = b[k - Len(a)]
    BY <1>3, <2>1
  <2>3. PICK i \in Instructions :
          i = b[k - Len(a)] /\ Kind(i) \in E /\ (k - Len(a)) - i.back > d
    BY <1>1, <1>5, <2>1, <2>2 DEF Parted
  <2>4. i.back \in Nat /\ k \in Nat /\ d \in Nat
    BY <1>1, <1>7, InstructionType
  <2>5. \A l, x \in Nat : (k - l) - x > d => k - x > l + d
    BY <2>4
  <2>6. k - i.back > e
    BY <1>1, <1>6, <2>3, <2>4, <2>5
  <2> QED
    BY <2>2, <2>3, <2>6
<1>10. ASSUME NEW g \in G PROVE Gated(ab, e, g)
  <2>1. Gated(b, d, g)
    BY <1>5 DEF Parted
  <2> QED
    BY <1>1, <1>2, <1>6, <2>1, GateRight
<1> QED
  BY <1>2, <1>4, <1>7, <1>8, <1>9, <1>10 DEF Split, Parted

LEMMA SplitNowhere ==
  ASSUME NEW a, NEW D, NEW E, Body(a, D)
  PROVE  Split(a, D, E, {})
<1>1. Len(a) \in Nat /\ Len(a) \in 0..Len(a) /\ ~ \E k \in Len(a) + 1..Len(a) : TRUE
  BY DEF Body
<1>2. Parted(a, Len(a), D, E, {})
  BY <1>1 DEF Body, Parted
<1>3. Body(a, D \cup E)
  BY BodyMore
<1> QED
  BY <1>1, <1>2, <1>3 DEF Split

(* What is looked at and asked for before anything is changed, and what is   *)
(* done to the areas in A afterwards.                                        *)
Testing == {"ask", "compare", "verdict", "ifHeader", "ifData"}
Refusing == {"check", "match", "refuse", "room"}
Changing == {"erase", "write", "dump", "store", "burn", "restore"}

Looks == ({"ask", "verdict", "parse", "select"} \cup Refusing) \X Subjects
Works(A) ==
  (Testing \X Subjects) \cup (Changing \X A) \cup ({"load"} \X (A \ {"spare"}))
Special == {"unlock", "lock", "primary"} \X {"none"}

LEMMA KindOf ==
  ASSUME NEW i \in Instructions, NEW A
  PROVE  /\ Kind(i) \in Looks => ~Changes(i) /\ i.do # "load"
         /\ Kind(i) \in Works(A) \cup Special =>
              /\ i.do \notin Refusing
              /\ Changes(i) => i.at \in A
              /\ i.do = "load" => i.at \in A \ {"spare"}
BY DEF Kind, Looks, Works, Special, Testing, Refusing, Changing, Changes

LEMMA BodyStaysInside ==
  ASSUME NEW code, NEW A, A \subseteq (Areas \ Images) \cup {"spare"},
         Body(code, Looks \cup (Works(A) \cup Special))
  PROVE  StaysInside(code)
<1>1. code \in Seq(Instructions) /\ Len(code) \in Nat
  BY DEF Body
<1>2. ASSUME NEW k \in 1..Len(code), NEW i \in Instructions, i = code[k]
      PROVE  /\ k + i.ok \in 1..Len(code) + 1
             /\ k + i.no \in 1..Len(code) + 1
             /\ i.back < k
             /\ Changes(i) => i.at \in (Areas \ Images) \cup {"spare"} /\ i.part <= Parts
             /\ i.do = "load" => i.at \in Areas
  <2>1. Fits(i, k, Len(code)) /\ (Kind(i) \in Looks \/ Kind(i) \in Works(A) \cup Special)
    BY <1>2 DEF Body
  <2>2. k + i.ok \in 1..Len(code) + 1 /\ k + i.no \in 1..Len(code) + 1 /\ i.back < k
    BY <1>1, <2>1, InstructionType DEF Fits
  <2>3. Changes(i) => i.at \in A /\ i.part <= Parts
    BY <2>1, KindOf DEF Fits, Changes
  <2>4. i.do = "load" => i.at \in A \ {"spare"}
    BY <2>1, KindOf
  <2> QED
    BY <2>2, <2>3, <2>4
<1>3. \A k \in 1..Len(code) : code[k] \in Instructions
  BY <1>1
<1> QED
  BY <1>1, <1>2, <1>3 DEF StaysInside

(* Code that is divided like this refuses before it changes anything, and    *)
(* asks which image runs before it changes the other one.                    *)
LEMMA SplitFine ==
  ASSUME NEW code, NEW A, A \subseteq (Areas \ Images) \cup {"spare"},
         NEW G, G \subseteq ({"check", "match"} \X Subjects) \cup {<<"select", "none">>},
         "spare" \in A => <<"select", "none">> \in G,
         NEW E, E \subseteq (Works(A) \cup Special) \cup G, Split(code, Looks, E, G)
  PROVE  StaysInside(code) /\ SelectsFirst(code) /\ RefusesFirst(code)
<1>1. Body(code, Looks \cup E)
  BY DEF Split
<1>2. code \in Seq(Instructions) /\ Len(code) \in Nat
      /\ \A k \in 1..Len(code) : code[k] \in Instructions
  BY <1>1 DEF Body
<1>3. ASSUME NEW g \in G PROVE g \in Looks
  <2>1. CASE g = <<"select", "none">>
    <3>1. "none" \in Subjects
      BY DEF Subjects
    <3> QED
      BY <2>1, <3>1 DEF Looks
  <2>2. CASE g \in {"check", "match"} \X Subjects
    BY <2>2 DEF Looks, Refusing
  <2> QED
    BY <2>1, <2>2
<1>4. StaysInside(code)
  <2>1. Looks \cup E \subseteq Looks \cup (Works(A) \cup Special)
    BY <1>3
  <2>2. Body(code, Looks \cup (Works(A) \cup Special))
    BY <1>1, <2>1, BodyMore
  <2> QED
    BY <2>2, BodyStaysInside
<1>5. PICK d \in 0..Len(code) : Parted(code, d, Looks, E, G)
  BY DEF Split
<1>6. ASSUME NEW k \in 1..Len(code), Changes(code[k])
      PROVE  k > d /\ code[k].at \in A
  <2>1. Kind(code[k]) \notin Looks
    BY <1>2, <1>6, KindOf
  <2>2. k \in d + 1..Len(code)
    BY <1>2, <1>5, <2>1 DEF Parted
  <2>3. Kind(code[k]) \in Works(A) \cup Special
    BY <1>3, <1>5, <2>1, <2>2 DEF Parted
  <2> QED
    BY <1>2, <1>6, <2>2, <2>3, KindOf
<1>7. SelectsFirst(code)
  <2> SUFFICES ASSUME NEW k \in 1..Len(code), Changes(code[k]), code[k].at = "spare"
               PROVE  \E s \in 1..k - 1 : Selects(code, s)
    BY DEF SelectsFirst
  <2>1. k > d /\ "spare" \in A
    BY <1>6
  <2>2. PICK s \in 1..d : Gate(code, s) /\ Kind(code[s]) = <<"select", "none">>
    BY <1>5, <2>1 DEF Parted, Gated
  <2>3. code[s].do = "select"
    BY <2>2 DEF Kind
  <2>4. s \in 1..k - 1
    BY <1>2, <2>1
  <2> QED
    BY <2>2, <2>3, <2>4 DEF Selects
<1>8. Prologue(code, d)
  <2>1. ASSUME NEW k \in 1..Len(code), k > d PROVE k - code[k].back > d
    <3>1. k \in d + 1..Len(code)
      BY <1>2, <2>1
    <3> QED
      BY <1>5, <3>1 DEF Parted
  <2> QED
    BY <1>6, <2>1 DEF Prologue
<1>9. RefusesFirst(code)
  <2> SUFFICES ASSUME NEW k \in 1..Len(code), Refuses(code[k])
               PROVE  \/ \E e \in k..Len(code) : Prologue(code, e)
                      \/ \E s \in 1..k - 1 :
                           /\ Gate(code, s) /\ LooksAtImage(code[s]) /\ LooksAtImage(code[k])
                           /\ code[s].at = code[k].at
    BY DEF RefusesFirst
  <2>1. CASE k <= d
    <3>1. d \in k..Len(code)
      BY <1>2, <2>1
    <3> QED
      BY <1>8, <3>1
  <2>2. CASE ~(k <= d)
    <3>1. k \in d + 1..Len(code) /\ \A s \in 1..d : s \in 1..k - 1
      BY <1>2, <2>2
    <3>2. code[k].do \in Refusing
      BY DEF Refuses, Refusing
    <3>3. Kind(code[k]) \in G
      <4>1. Kind(code[k]) \in (Works(A) \cup Special) \cup G
        BY <1>5, <3>1 DEF Parted
      <4> QED
        BY <1>2, <3>2, <4>1, KindOf
    <3>4. PICK s \in 1..d : Gate(code, s) /\ Kind(code[s]) = Kind(code[k])
      BY <1>5, <3>3 DEF Parted, Gated
    <3>5. code[s].do = code[k].do /\ code[s].at = code[k].at
      BY <3>4 DEF Kind
    <3>6. code[k].do \in {"check", "match"}
      BY <3>2, <3>3 DEF Kind, Refusing
    <3> QED
      BY <3>1, <3>4, <3>5, <3>6 DEF LooksAtImage
  <2> QED
    BY <2>1, <2>2
<1> QED
  BY <1>4, <1>7, <1>9

LEMMA ProgramsAre ==
  /\ DOMAIN Programs =
       {"XO3", "XO5Standard", "XO5TSeries", "XO5DSeries", "Max10", "ISL69269", "XDPE1X2XX",
        "MP2X6XX", "MP297X", "MPQ87XX", "MPX9XX", "MP5998", "TDA38640A", "TPS25990",
        "RS31390", "XDP71X"}
  /\ Programs["XO3"] = XO3 /\ Programs["XO5Standard"] = XO5Standard
  /\ Programs["XO5TSeries"] = XO5TSeries /\ Programs["XO5DSeries"] = XO5DSeries
  /\ Programs["Max10"] = Max10 /\ Programs["ISL69269"] = ISL69269
  /\ Programs["XDPE1X2XX"] = XDPE1X2XX /\ Programs["MP2X6XX"] = MP2X6XX
  /\ Programs["MP297X"] = MP297X /\ Programs["MPQ87XX"] = MPQ87XX
  /\ Programs["MPX9XX"] = MPX9XX /\ Programs["MP5998"] = MP5998
  /\ Programs["TDA38640A"] = TDA38640A /\ Programs["TPS25990"] = TPS25990
  /\ Programs["RS31390"] = RS31390 /\ Programs["XDP71X"] = XDP71X
BY DEF Programs

LEMMA LooksPlain ==
  /\ Plain(Ask, Looks) /\ Plain(Verdict, Looks) /\ Plain(Refuse, Looks)
  /\ Plain(SelectSpare, Looks)
  /\ \A x \in Subjects :
       Plain(Check(x), Looks) /\ Plain(Match(x), Looks) /\ Plain(Parse(x), Looks)
  /\ \A n \in Nat : Plain(Room(n), Looks)
<1>1. ASSUME NEW do \in {"ask", "verdict", "parse", "select"} \cup Refusing, NEW at \in Subjects,
             NEW n \in Nat, do = "room" \/ n = 0
      PROVE  Plain(Instruction(do, at, n), Looks)
  <2>1. do \in Deeds
    BY DEF Refusing, Deeds
  <2>2. <<do, at>> \in Looks
    BY DEF Looks
  <2>3. do = "room" \/ n <= Parts
    BY <1>1, LoopAssumption
  <2> QED
    BY <2>1, <2>2, <2>3, InstructionPlain
<1>2. {"check", "match", "refuse", "room"} \subseteq Refusing /\ "none" \in Subjects /\ 0 \in Nat
  BY DEF Refusing, Subjects
<1> QED
  BY <1>1, <1>2 DEF Ask, Verdict, Refuse, SelectSpare, Check, Match, Parse, Room

LEMMA SpecialPlain ==
  ASSUME NEW D
  PROVE  /\ <<"unlock", "none">> \in D => Plain(Unlock, D)
         /\ <<"lock", "none">> \in D => Plain(Lock, D)
         /\ <<"primary", "none">> \in D => Plain(SetPrimary, D)
<1>1. {"unlock", "lock", "primary"} \subseteq Deeds /\ "none" \in Subjects /\ 0 \in Nat /\ 0 <= Parts
  BY LoopAssumption DEF Deeds, Subjects
<1> QED
  BY <1>1, InstructionPlain DEF Unlock, Lock, SetPrimary

LEMMA WorksPlain ==
  ASSUME NEW A, A \subseteq Subjects
  PROVE  /\ Plain(Ask, Works(A)) /\ Plain(Verdict, Works(A))
         /\ Plain(IfHeader, Works(A)) /\ Plain(IfData, Works(A))
         /\ \A x \in Subjects, p \in 0..Parts : Plain(Compare(x, p), Works(A))
         /\ \A x \in A, p \in 0..Parts :
              /\ Plain(Erase(x, p), Works(A)) /\ Plain(Write(x, p), Works(A))
              /\ Plain(Dump(x, p), Works(A))
         /\ \A x \in A \ {"spare"} : Plain(Load(x), Works(A))
         /\ "nvm" \in A => \A p \in 0..Parts : Plain(Store(p), Works(A)) /\ Plain(Burn(p), Works(A))
         /\ "ram" \in A => Plain(Restore, Works(A))
<1>1. ASSUME NEW do \in Testing, NEW at \in Subjects, NEW p \in 0..Parts
      PROVE  Plain(Instruction(do, at, p), Works(A))
  <2>1. do \in Deeds
    BY DEF Testing, Deeds
  <2>2. <<do, at>> \in Works(A)
    BY DEF Works
  <2>3. p \in Nat /\ p <= Parts
    BY LoopAssumption
  <2> QED
    BY <2>1, <2>2, <2>3, InstructionPlain
<1>2. ASSUME NEW do \in Changing, NEW at \in A, NEW p \in 0..Parts
      PROVE  Plain(Instruction(do, at, p), Works(A))
  <2>1. do \in Deeds /\ at \in Subjects
    BY DEF Changing, Deeds
  <2>2. <<do, at>> \in Works(A)
    BY DEF Works
  <2>3. p \in Nat /\ p <= Parts
    BY LoopAssumption
  <2> QED
    BY <2>1, <2>2, <2>3, InstructionPlain
<1>3. ASSUME NEW at \in A \ {"spare"} PROVE Plain(Instruction("load", at, 0), Works(A))
  <2>1. "load" \in Deeds /\ at \in Subjects
    BY DEF Deeds
  <2>2. <<"load", at>> \in Works(A)
    BY DEF Works
  <2>3. 0 \in Nat /\ 0 <= Parts
    BY LoopAssumption
  <2> QED
    BY <2>1, <2>2, <2>3, InstructionPlain
<1>4. /\ {"ask", "verdict", "ifHeader", "ifData", "compare"} \subseteq Testing
      /\ {"erase", "write", "dump", "store", "burn", "restore"} \subseteq Changing
      /\ "none" \in Subjects /\ 0 \in 0..Parts
  BY LoopAssumption DEF Testing, Changing, Subjects
<1> QED
  BY <1>1, <1>2, <1>3, <1>4
     DEF Ask, Verdict, IfHeader, IfData, Compare, Erase, Write, Dump,
         Load, Store, Burn, Restore

LEMMA SubjectsListed ==
  /\ {"none", "empty", "foreign", "wrongSum", "wrongDevice", "wrongSize", "wrongMode",
      "unknownType", "unknownSize", "malformed", "tooLong", "same", "missingIds",
      "noPassword", "noData"} \subseteq Subjects
  /\ {"spare", "flash", "header", "backup", "ram", "nvm", "page2"} \subseteq Subjects
BY DEF Subjects

LEMMA TriesIn == Tries \in 1..Tries /\ 1..Parts \subseteq 0..Parts /\ 0 \in 0..Parts
BY LoopAssumption

(* The four phases of a Lattice chip.                                        *)
LEMMA LatticeSplit ==
  ASSUME NEW prepare, NEW erase, NEW update, NEW finish, NEW W, NEW G,
         Body(prepare, Looks), \A g \in G : Gated(prepare, Len(prepare), g),
         Body(erase, W), Body(update, W), Body(finish, W)
  PROVE  Split(UpdateDevice(LatticeUpdateFirmware(prepare, erase, update, finish)),
               Looks, W, G)
<1> DEFINE check == <<Check("empty")>>
<1>1. Body(SetupMux, Looks) /\ Body(check, Looks)
  BY SubjectsListed, LooksPlain, BodyOne DEF SetupMux
<1> HIDE DEF check
<1>2. Body(check \o prepare, Looks)
  BY <1>1, BodyConcat
<1>3. ASSUME NEW g \in G PROVE Gated(check \o prepare, Len(check \o prepare), g)
  <2>1. Len(check) \in Nat /\ Len(prepare) \in Nat /\ Len(prepare) \in 0..Len(prepare)
    BY <1>1 DEF Body
  <2>2. Len(check \o prepare) = Len(check) + Len(prepare)
    BY <1>1, Concat DEF Body
  <2> QED
    BY <1>1, <2>1, <2>2, GateRight
<1>4. Split((check \o prepare) \o erase, Looks, W, G)
  BY <1>2, <1>3, SplitHere
<1>5. Split(((check \o prepare) \o erase) \o update, Looks, W, G)
  BY <1>4, SplitLast
<1>6. Split((((check \o prepare) \o erase) \o update) \o finish, Looks, W, G)
  BY <1>5, SplitLast
<1>7. Split(SetupMux \o ((((check \o prepare) \o erase) \o update) \o finish), Looks, W, G)
  BY <1>1, <1>6, SplitFirst
<1> QED
  BY <1>7 DEF UpdateDevice, LatticeUpdateFirmware, check

-----------------------------------------------------------------------------
(* A logic of outlines.  d says what is known when an image is parsed and    *)
(* whether the driver is blind.  KeptBy is what an outline has to satisfy at   *)
(* an instruction i, with K known before it and ok, no and back claimed      *)
(* where it leads.                                                           *)
KeptBy(d, i, K, ok, no, back) ==
  /\ AtMost(ok, AfterSuccess(d.first, d.blind, i, K))
  /\ ~Leaves(i) /\ i.no > 0 => AtMost(no, AfterPassing(d.first, d.blind, i, K))
  /\ ~Leaves(i) /\ i.limit > 1 => AtMost(back, AfterFailure(i, K))

KeptAt(d, b, O, k) ==
  KeptBy(d, b[k], O[k], O[k + b[k].ok], O[k + b[k].no], O[k - b[k].back])

(* Any kind of instruction will do.                                          *)
AnyKind == Deeds \X Subjects

(* Who knows K when b begins knows L when it ends.                           *)
Passes(d, b, K, L) ==
  /\ Body(b, AnyKind)
  /\ \E O \in [1..Len(b) + 1 -> Knowledge] :
       /\ AtMost(O[1], K) /\ O[Len(b) + 1] = L
       /\ \A k \in 1..Len(b) : KeptAt(d, b, O, k)

LEMMA AtMostTrans ==
  ASSUME NEW K, NEW L, NEW M, AtMost(K, L), AtMost(L, M)
  PROVE  AtMost(K, M)
BY DEF AtMost

LEMMA AtMostSelf == \A K : AtMost(K, K)
BY DEF AtMost

(* Where an instruction leads, in the numbers of a longer code as well.      *)
Lands(i, l, len, m, k) ==
  /\ k \in m + 1..m + len /\ k - m = l
  /\ k + i.ok \in m + 1..m + len + 1 /\ (k + i.ok) - m = l + i.ok
  /\ k + i.no \in m + 1..m + len + 1 /\ (k + i.no) - m = l + i.no
  /\ k - i.back \in m + 1..m + len + 1 /\ (k - i.back) - m = l - i.back
  /\ l + i.ok \in 1..len + 1 /\ l + i.no \in 1..len + 1 /\ l - i.back \in 1..len + 1

LEMMA Targets ==
  ASSUME NEW i \in Instructions, NEW len \in Nat, NEW l \in 1..len, Fits(i, l, len),
         NEW m \in Nat, NEW k, k = m + l
  PROVE  Lands(i, l, len, m, k)
<1>1. PICK ok \in Nat, no \in Nat, back \in Nat : ok = i.ok /\ no = i.no /\ back = i.back
  BY InstructionType
<1>2. l + ok <= len + 1 /\ l + no <= len + 1 /\ back < l
  BY <1>1 DEF Fits
<1>3. /\ k \in m + 1..m + len /\ k - m = l
      /\ k + ok \in m + 1..m + len + 1 /\ (k + ok) - m = l + ok
      /\ k + no \in m + 1..m + len + 1 /\ (k + no) - m = l + no
      /\ k - back \in m + 1..m + len + 1 /\ (k - back) - m = l - back
      /\ l + ok \in 1..len + 1 /\ l + no \in 1..len + 1 /\ l - back \in 1..len + 1
  BY ONLY <1>2, k = m + l, l \in 1..len, m \in Nat, len \in Nat
<1> QED
  BY <1>1, <1>3 DEF Lands

LEMMA AnyBody ==
  ASSUME NEW b, NEW D, Body(b, D)
  PROVE  Body(b, AnyKind)
<1>1. b \in Seq(Instructions) /\ \A k \in 1..Len(b) : b[k] \in Instructions
  BY DEF Body
<1>2. \A i \in Instructions : Kind(i) \in AnyKind
  BY InstructionType DEF Kind, AnyKind
<1> QED
  BY <1>1, <1>2 DEF Body

LEMMA KeptWeaker ==
  ASSUME NEW d, NEW i, NEW K, NEW ok, NEW no, NEW back, KeptBy(d, i, K, ok, no, back),
         NEW ok2, NEW no2, NEW back2, AtMost(ok2, ok), AtMost(no2, no), AtMost(back2, back)
  PROVE  KeptBy(d, i, K, ok2, no2, back2)
BY AtMostTrans DEF KeptBy

(* What is known depends on what an instruction does, not on where it leads. *)
Alike(i, j) == i.do = j.do /\ i.at = j.at /\ i.part = j.part

LEMMA AlikeKnown ==
  ASSUME NEW i, NEW j, Alike(i, j), NEW F, NEW B, NEW K
  PROVE  /\ AfterSuccess(F, B, i, K) = AfterSuccess(F, B, j, K)
         /\ AfterFailure(i, K) = AfterFailure(j, K) /\ Leaves(i) = Leaves(j)
         /\ AfterPassing(F, B, i, K) = AfterPassing(F, B, j, K)
<1>1. /\ Changes(i) = Changes(j) /\ Named(i) = Named(j) /\ Spends(i) = Spends(j)
      /\ Gained(i) = Gained(j) /\ Leaves(i) = Leaves(j)
  BY DEF Alike, Changes, Named, Touched, Spends, Gained, Leaves
<1>2. Lost(i) = Lost(j) /\ Gone(i) = Gone(j) /\ Effective(i, K) = Effective(j, K)
  BY <1>1 DEF Alike, Lost, Gone, Effective
<1>3. MadeNew(i, K) = MadeNew(j, K) /\ MadeClean(i, K) = MadeClean(j, K)
  BY <1>1, <1>2 DEF Alike, MadeNew, MadeClean
<1>4. Certain(B, i) = Certain(B, j)
  BY <1>1 DEF Alike, Certain, Lasting
<1> QED
  BY <1>1, <1>2, <1>3, <1>4 DEF AfterPassing, AfterSuccess, AfterFailure, Alike

LEMMA KeptAlike ==
  ASSUME NEW d, NEW i, NEW K, NEW ok, NEW no, NEW back, KeptBy(d, i, K, ok, no, back),
         NEW j, Alike(i, j), j.no > 0 => i.no > 0, j.limit > 1 => i.limit > 1
  PROVE  KeptBy(d, j, K, ok, no, back)
<1>1. /\ AfterSuccess(d.first, d.blind, i, K) = AfterSuccess(d.first, d.blind, j, K)
      /\ AfterFailure(i, K) = AfterFailure(j, K) /\ Leaves(i) = Leaves(j)
      /\ AfterPassing(d.first, d.blind, i, K) = AfterPassing(d.first, d.blind, j, K)
  BY AlikeKnown
<1> QED
  BY <1>1 DEF KeptBy

LEMMA PassWeaker ==
  ASSUME NEW d, NEW b, NEW K, NEW L, Passes(d, b, K, L),
         NEW K2, AtMost(K, K2), NEW L2 \in Knowledge, AtMost(L2, L)
  PROVE  Passes(d, b, K2, L2)
<1>1. PICK O \in [1..Len(b) + 1 -> Knowledge] :
           /\ AtMost(O[1], K) /\ O[Len(b) + 1] = L
           /\ \A k \in 1..Len(b) : KeptAt(d, b, O, k)
  BY DEF Passes
<1>2. Body(b, AnyKind) /\ Len(b) \in Nat
  BY DEF Passes, Body
<1> DEFINE P == [O EXCEPT ![Len(b) + 1] = L2]
<1>3. /\ P \in [1..Len(b) + 1 -> Knowledge] /\ P[Len(b) + 1] = L2
      /\ \A t \in 1..Len(b) : P[t] = O[t]
  BY <1>1, <1>2
<1> HIDE DEF P
<1>4. \A t \in 1..Len(b) + 1 : AtMost(P[t], O[t])
  BY <1>1, <1>2, <1>3, AtMostSelf
<1>5. AtMost(P[1], K2)
  <2>1. 1 \in 1..Len(b) + 1
    BY <1>2
  <2> QED
    BY <1>1, <1>4, <2>1, AtMostTrans
<1>6. ASSUME NEW k \in 1..Len(b) PROVE KeptAt(d, b, P, k)
  <2>1. PICK i \in Instructions : i = b[k] /\ Fits(i, k, Len(b))
    BY <1>2 DEF Body
  <2>2. /\ k + i.ok \in 1..Len(b) + 1 /\ k + i.no \in 1..Len(b) + 1
        /\ k - i.back \in 1..Len(b) + 1
    <3>1. Lands(i, k, Len(b), 0, k)
      BY <1>2, <2>1, Targets
    <3> QED
      BY <3>1 DEF Lands
  <2>3. KeptBy(d, i, O[k], O[k + i.ok], O[k + i.no], O[k - i.back])
    BY <1>1, <2>1 DEF KeptAt
  <2>4. KeptBy(d, i, O[k], P[k + i.ok], P[k + i.no], P[k - i.back])
    BY <1>4, <2>2, <2>3, KeptWeaker
  <2> QED
    BY <1>3, <2>1, <2>4 DEF KeptAt
<1> QED
  BY <1>2, <1>3, <1>5, <1>6 DEF Passes

LEMMA PassConcat ==
  ASSUME NEW d, NEW a, NEW b, NEW K, NEW L, NEW M, Passes(d, a, K, L), Passes(d, b, L, M)
  PROVE  Passes(d, a \o b, K, M)
<1>1. PICK A \in [1..Len(a) + 1 -> Knowledge] :
           /\ AtMost(A[1], K) /\ A[Len(a) + 1] = L
           /\ \A k \in 1..Len(a) : KeptAt(d, a, A, k)
  BY DEF Passes
<1>2. PICK B \in [1..Len(b) + 1 -> Knowledge] :
           /\ AtMost(B[1], L) /\ B[Len(b) + 1] = M
           /\ \A k \in 1..Len(b) : KeptAt(d, b, B, k)
  BY DEF Passes
<1>3. Body(a, AnyKind) /\ Body(b, AnyKind) /\ a \in Seq(Instructions) /\ b \in Seq(Instructions)
  BY DEF Passes, Body
<1>4. PICK m \in Nat, n \in Nat : m = Len(a) /\ n = Len(b)
  BY <1>3
<1>5. PICK ab : ab = a \o b
  OBVIOUS
<1>6. /\ Len(ab) = m + n /\ \A k \in 1..m : ab[k] = a[k]
      /\ \A k \in m + 1..m + n : k - m \in 1..n /\ ab[k] = b[k - m]
  BY <1>3, <1>4, <1>5, Concat
<1>7. Body(ab, AnyKind)
  BY <1>3, <1>5, BodyConcat
<1> DEFINE O == [t \in 1..m + n + 1 |-> IF t <= m THEN A[t] ELSE B[t - m]]
<1>8. /\ O \in [1..m + n + 1 -> Knowledge]
      /\ \A t \in 1..m : O[t] = A[t]
      /\ \A t \in m + 1..m + n + 1 : O[t] = B[t - m]
  <2>1. \A t \in 1..m + n + 1 : t <= m => t \in 1..m + 1
    OBVIOUS
  <2>2. \A t \in 1..m + n + 1 : ~(t <= m) => t - m \in 1..n + 1
    OBVIOUS
  <2> QED
    BY <1>1, <1>2, <1>4, <2>1, <2>2
<1> HIDE DEF O
<1>9. \A t \in 1..m + 1 : AtMost(O[t], A[t])
  <2> TAKE t \in 1..m + 1
  <2>1. CASE t \in 1..m
    BY <1>8, <2>1, AtMostSelf
  <2>2. CASE t = m + 1
    <3>1. t \in m + 1..m + n + 1 /\ t - m = 1
      BY <2>2
    <3> QED
      BY <1>1, <1>2, <1>4, <1>8, <2>2, <3>1
  <2> QED
    BY <2>1, <2>2
<1>10. ASSUME NEW k \in 1..m PROVE KeptAt(d, ab, O, k)
  <2>1. PICK i \in Instructions : i = a[k] /\ Fits(i, k, m)
    BY <1>3, <1>4 DEF Body
  <2>2. /\ k + i.ok \in 1..m + 1 /\ k + i.no \in 1..m + 1 /\ k - i.back \in 1..m + 1
    <3>1. Lands(i, k, m, 0, k)
      BY <2>1, Targets
    <3> QED
      BY <3>1 DEF Lands
  <2>3. KeptBy(d, i, A[k], A[k + i.ok], A[k + i.no], A[k - i.back])
    BY <1>1, <1>4, <2>1 DEF KeptAt
  <2>4. KeptBy(d, i, A[k], O[k + i.ok], O[k + i.no], O[k - i.back])
    BY <1>9, <2>2, <2>3, KeptWeaker
  <2> QED
    BY <1>6, <1>8, <2>1, <2>4 DEF KeptAt
<1>11. ASSUME NEW k \in m + 1..m + n PROVE KeptAt(d, ab, O, k)
  <2>1. PICK l \in 1..n : l = k - m
    OBVIOUS
  <2>2. PICK i \in Instructions : i = b[l] /\ ab[k] = i /\ Fits(i, l, n)
    BY <1>3, <1>4, <1>6, <2>1 DEF Body
  <2>3. /\ k + i.ok \in m + 1..m + n + 1 /\ (k + i.ok) - m = l + i.ok
        /\ k + i.no \in m + 1..m + n + 1 /\ (k + i.no) - m = l + i.no
        /\ k - i.back \in m + 1..m + n + 1 /\ (k - i.back) - m = l - i.back
    <3>1. k = m + l
      BY <2>1
    <3>2. Lands(i, l, n, m, k)
      BY ONLY <2>2, <3>1, l \in 1..n, m \in Nat, n \in Nat, i \in Instructions, Targets
    <3> QED
      BY <3>2 DEF Lands
  <2>4. /\ O[k] = B[l] /\ O[k + i.ok] = B[l + i.ok] /\ O[k + i.no] = B[l + i.no]
        /\ O[k - i.back] = B[l - i.back]
    <3>1. k \in m + 1..m + n + 1
      OBVIOUS
    <3> QED
      BY <1>8, <2>1, <2>3, <3>1
  <2>5. KeptBy(d, i, B[l], B[l + i.ok], B[l + i.no], B[l - i.back])
    BY <1>2, <1>4, <2>2 DEF KeptAt
  <2> QED
    BY <2>2, <2>4, <2>5 DEF KeptAt
<1>12. AtMost(O[1], K)
  <2>1. 1 \in 1..m + 1
    OBVIOUS
  <2> QED
    BY <1>1, <1>9, <2>1, AtMostTrans
<1>13. O[m + n + 1] = M
  <2>1. m + n + 1 \in m + 1..m + n + 1 /\ (m + n + 1) - m = n + 1
    OBVIOUS
  <2> QED
    BY <1>2, <1>4, <1>8, <2>1
<1>14. \A k \in 1..m + n : KeptAt(d, ab, O, k)
  <2> TAKE k \in 1..m + n
  <2>1. k \in 1..m \/ k \in m + 1..m + n
    OBVIOUS
  <2> QED
    BY <1>10, <1>11, <2>1
<1>15. Passes(d, ab, K, M)
  BY <1>6, <1>7, <1>8, <1>12, <1>13, <1>14 DEF Passes
<1> QED
  BY <1>5, <1>15

(* An instruction that disturbs nothing of what is known.                    *)
Keeps(d, i, K) ==
  /\ AtMost(K, AfterSuccess(d.first, d.blind, i, K))
  /\ ~Leaves(i) => AtMost(K, AfterFailure(i, K))

LEMMA PassKeep ==
  ASSUME NEW d, NEW b, NEW D, Body(b, D), NEW K \in Knowledge,
         \A i \in Instructions : Kind(i) \in D => Keeps(d, i, K)
  PROVE  Passes(d, b, K, K)
<1>1. b \in Seq(Instructions) /\ Len(b) \in Nat /\ Body(b, AnyKind)
  <2>1. Body(b, AnyKind)
    BY AnyBody
  <2> QED
    BY <2>1 DEF Body
<1> DEFINE O == [t \in 1..Len(b) + 1 |-> K]
<1>2. O \in [1..Len(b) + 1 -> Knowledge] /\ \A t \in 1..Len(b) + 1 : O[t] = K
  OBVIOUS
<1> HIDE DEF O
<1>3. ASSUME NEW k \in 1..Len(b) PROVE KeptAt(d, b, O, k)
  <2>1. PICK i \in Instructions : i = b[k] /\ Fits(i, k, Len(b)) /\ Kind(i) \in D
    BY <1>1 DEF Body
  <2>2. Lands(i, k, Len(b), 0, k)
    BY <1>1, <2>1, Targets
  <2>3. /\ O[k] = K /\ O[k + i.ok] = K /\ O[k + i.no] = K /\ O[k - i.back] = K
    BY <1>1, <1>2, <2>2 DEF Lands
  <2>4. KeptBy(d, i, K, K, K, K)
    BY <2>1 DEF Keeps, KeptBy, AfterPassing
  <2> QED
    BY <2>1, <2>3, <2>4 DEF KeptAt
<1>4. O[1] = K /\ O[Len(b) + 1] = K
  BY <1>1, <1>2
<1> QED
  BY <1>1, <1>2, <1>3, <1>4, AtMostSelf DEF Passes

LEMMA PassEmpty ==
  ASSUME NEW d, NEW K \in Knowledge
  PROVE  Passes(d, <<>>, K, K)
<1>1. Body(<<>>, {})
  BY BodyEmpty
<1>2. \A i \in Instructions : Kind(i) \in {} => Keeps(d, i, K)
  OBVIOUS
<1> QED
  BY <1>1, <1>2, PassKeep

LEMMA PassOne ==
  ASSUME NEW d, NEW i, Plain(i, AnyKind), NEW K \in Knowledge, NEW L \in Knowledge,
         KeptBy(d, i, K, L, L, K)
  PROVE  Passes(d, <<i>>, K, L)
<1>1. PICK b : b = <<i>>
  OBVIOUS
<1>2. i \in Instructions /\ i.ok = 1 /\ i.no \in {0, 1} /\ i.back = 0
  BY DEF Plain
<1>3. Body(b, AnyKind) /\ Len(b) = 1 /\ b[1] = i
  BY <1>1, <1>2, BodyOne
<1> DEFINE O == [t \in 1..2 |-> IF t = 1 THEN K ELSE L]
<1>4. O \in [1..2 -> Knowledge] /\ O[1] = K /\ O[2] = L
  OBVIOUS
<1> HIDE DEF O
<1>5. KeptAt(d, b, O, 1)
  <2>1. CASE i.no = 0
    <3>1. KeptBy(d, i, K, L, K, K)
      BY <2>1 DEF KeptBy
    <3> QED
      BY <1>2, <1>3, <1>4, <2>1, <3>1 DEF KeptAt
  <2>2. CASE i.no = 1
    BY <1>2, <1>3, <1>4, <2>2 DEF KeptAt
  <2> QED
    BY <1>2, <2>1, <2>2
<1>6. Passes(d, b, K, L)
  <2>1. Len(b) + 1 = 2 /\ \A k \in 1..Len(b) : k = 1
    BY <1>3
  <2> QED
    BY <1>3, <1>4, <1>5, <2>1, AtMostSelf DEF Passes
<1> QED
  BY <1>1, <1>6

LEMMA PassForEach ==
  ASSUME NEW d, NEW body, NEW I \in [0..Parts -> Knowledge],
         \A p \in 1..Parts : Passes(d, body[p], I[p - 1], I[p])
  PROVE  Passes(d, ForEach(body), I[0], I[Parts])
<1> DEFINE Fine == {p \in 0..Parts : Passes(d, Unrolled(body)[p], I[0], I[p])}
<1>1. 0 \in Fine
  <2>1. 0 \in 0..Parts
    BY LoopAssumption
  <2>2. Unrolled(body)[0] = <<>>
    BY UnrolledByPart
  <2> QED
    BY <2>1, <2>2, PassEmpty
<1>2. \A p \in Fine \cap (0..Parts - 1) : p + 1 \in Fine
  <2> TAKE p \in Fine \cap (0..Parts - 1)
  <2>1. p + 1 \in 1..Parts /\ p + 1 \in 0..Parts /\ (p + 1) - 1 = p
    BY LoopAssumption
  <2>2. Unrolled(body)[p + 1] = Unrolled(body)[p] \o body[p + 1]
    BY <2>1, UnrolledByPart
  <2>3. Passes(d, body[p + 1], I[p], I[p + 1])
    BY <2>1
  <2>4. Passes(d, Unrolled(body)[p] \o body[p + 1], I[0], I[p + 1])
    BY <2>3, PassConcat
  <2> QED
    BY <2>1, <2>2, <2>4
<1> HIDE DEF Fine
<1>3. Parts \in Fine
  BY <1>1, <1>2, LoopAssumption, Induction
<1> QED
  BY <1>3 DEF Fine, ForEach

(* Instructions one after the other, of which each gives the update up when  *)
(* it fails.                                                                 *)
Straight(b) == \A k \in 1..Len(b) : b[k].ok = 1 /\ b[k].no = 0

(* In a loop that starts over at its last instruction, what is known when    *)
(* the body begins has to be known when that instruction fails.              *)
LEMMA PassRounds ==
  ASSUME NEW d, NEW a, NEW K, NEW M, Passes(d, a, K, M), NEW i, Plain(i, AnyKind), i.no = 0,
         NEW L \in Knowledge, AtMost(L, AfterSuccess(d.first, d.blind, i, M)),
         AtMost(K, AfterFailure(i, M)), NEW n \in 1..Tries
  PROVE  Passes(d, Rounds(a \o <<i>>, n), K, L)
<1>1. PICK A \in [1..Len(a) + 1 -> Knowledge] :
           /\ AtMost(A[1], K) /\ A[Len(a) + 1] = M
           /\ \A k \in 1..Len(a) : KeptAt(d, a, A, k)
  BY DEF Passes
<1>2. Body(a, AnyKind) /\ a \in Seq(Instructions)
  BY DEF Passes, Body
<1>3. PICK m \in Nat : m = Len(a)
  BY <1>2
<1>4. Body(<<i>>, AnyKind) /\ <<i>> \in Seq(Instructions) /\ Len(<<i>>) = 1 /\ i \in Instructions
  BY BodyOne DEF Body, Plain
<1>5. PICK ai : ai = a \o <<i>>
  OBVIOUS
<1>6. /\ Body(ai, AnyKind) /\ Len(ai) = m + 1 /\ ai[m + 1] = i
      /\ \A k \in 1..m : ai[k] = a[k]
  <2>1. /\ Len(a \o <<i>>) = Len(a) + Len(<<i>>)
        /\ \A k \in 1..Len(a) : (a \o <<i>>)[k] = a[k]
        /\ \A k \in Len(a) + 1..Len(a) + Len(<<i>>) : (a \o <<i>>)[k] = <<i>>[k - Len(a)]
    BY <1>2, <1>4, Concat
  <2>2. m + 1 \in m + 1..m + 1 /\ (m + 1) - m = 1
    OBVIOUS
  <2> QED
    BY <1>2, <1>3, <1>4, <1>5, <2>1, <2>2, BodyConcat
<1>7. PICK c : c = Rounds(ai, n)
  OBVIOUS
<1>8. Body(c, AnyKind)
  BY <1>6, <1>7, BodyRounds
<1>9. /\ c = [k \in 1..m + 1 |-> IF k = m + 1 THEN [ai[k] EXCEPT !.back = k - 1, !.limit = n]
                                 ELSE [ai[k] EXCEPT !.keep = TRUE]]
  BY <1>6, <1>7 DEF Rounds
<1>10. Len(c) = m + 1
  <2>1. DOMAIN c = 1..m + 1
    BY <1>9
  <2>2. c \in Seq(Instructions)
    BY <1>8 DEF Body
  <2> QED
    BY <2>1, <2>2
<1> DEFINE O == [t \in 1..m + 2 |-> IF t = m + 2 THEN L ELSE A[t]]
<1>11. /\ O \in [1..m + 2 -> Knowledge] /\ O[m + 2] = L
       /\ \A t \in 1..m + 1 : O[t] = A[t]
  BY <1>1, <1>3
<1> HIDE DEF O
<1>12. ASSUME NEW k \in 1..m PROVE KeptAt(d, c, O, k)
  <2>1. PICK h \in Instructions : h = a[k] /\ Fits(h, k, m)
    BY <1>2, <1>3 DEF Body
  <2>2. k \in 1..m + 1 /\ k # m + 1
    OBVIOUS
  <2>3. c[k] = [h EXCEPT !.keep = TRUE]
    BY <1>6, <1>9, <2>1, <2>2
  <2>4. PICK j : j = c[k]
    OBVIOUS
  <2>5. /\ j.do = h.do /\ j.at = h.at /\ j.part = h.part /\ j.ok = h.ok /\ j.no = h.no
        /\ j.limit = h.limit /\ j.back = h.back
    BY <2>1, <2>3, <2>4 DEF Instructions
  <2>6. Lands(h, k, m, 0, k)
    BY <2>1, Targets
  <2>7. O[k] = A[k] /\ O[k + h.ok] = A[k + h.ok] /\ O[k + h.no] = A[k + h.no]
        /\ O[k - h.back] = A[k - h.back]
    BY <1>11, <2>6 DEF Lands
  <2>8. KeptBy(d, h, O[k], O[k + h.ok], O[k + h.no], O[k - h.back])
    BY <1>1, <1>3, <2>1, <2>7 DEF KeptAt
  <2>9. KeptBy(d, j, O[k], O[k + h.ok], O[k + h.no], O[k - h.back])
    BY <2>5, <2>8, KeptAlike DEF Alike
  <2> QED
    BY <2>4, <2>5, <2>9 DEF KeptAt
<1>13. KeptAt(d, c, O, m + 1)
  <2>1. m + 1 \in 1..m + 1
    OBVIOUS
  <2>2. c[m + 1] = [i EXCEPT !.back = (m + 1) - 1, !.limit = n]
    BY <1>6, <1>9, <2>1
  <2>3. PICK j : j = c[m + 1]
    OBVIOUS
  <2>4. j.do = i.do /\ j.at = i.at /\ j.part = i.part /\ j.ok = 1 /\ j.no = 0 /\ j.back = m
    BY <1>4, <2>2, <2>3 DEF Instructions, Plain
  <2>5. /\ AfterSuccess(d.first, d.blind, i, M) = AfterSuccess(d.first, d.blind, j, M)
        /\ AfterFailure(i, M) = AfterFailure(j, M)
    BY <2>4, AlikeKnown DEF Alike
  <2>6. /\ (m + 1) + j.ok = m + 2 /\ (m + 1) - j.back = 1 /\ 1 \in 1..m + 1
    BY <2>4
  <2>7. O[m + 1] = M /\ AtMost(O[1], K)
    BY <1>1, <1>3, <1>11, <2>1, <2>6
  <2>8. AtMost(O[1], AfterFailure(j, M))
    BY <2>5, <2>7, AtMostTrans
  <2>9. KeptBy(d, j, M, L, O[(m + 1) + j.no], O[1])
    BY <2>4, <2>5, <2>8 DEF KeptBy
  <2> QED
    BY <1>11, <2>3, <2>6, <2>7, <2>9 DEF KeptAt
<1>14. \A k \in 1..m + 1 : KeptAt(d, c, O, k)
  <2> TAKE k \in 1..m + 1
  <2>1. k \in 1..m \/ k = m + 1
    OBVIOUS
  <2> QED
    BY <1>12, <1>13, <2>1
<1>15. AtMost(O[1], K)
  BY <1>1, <1>11
<1>16. Passes(d, c, K, L)
  <2>1. (m + 1) + 1 = m + 2
    OBVIOUS
  <2> QED
    BY <1>8, <1>10, <1>11, <1>14, <1>15, <2>1 DEF Passes
<1> QED
  BY <1>5, <1>7, <1>16

(* In a loop that starts over at any of them, every instruction but the last *)
(* one has to keep it.                                                       *)
LEMMA PassAttempts ==
  ASSUME NEW d, NEW a, Body(a, AnyKind), Straight(a), NEW K \in Knowledge,
         \A k \in 1..Len(a) : Keeps(d, a[k], K),
         NEW i, Plain(i, AnyKind), i.no = 0,
         NEW L \in Knowledge, AtMost(L, AfterSuccess(d.first, d.blind, i, K)),
         AtMost(K, AfterFailure(i, K)), NEW n \in 1..Tries
  PROVE  Passes(d, Attempts(a \o <<i>>, n), K, L)
<1>1. a \in Seq(Instructions)
  BY DEF Body
<1>2. PICK m \in Nat : m = Len(a)
  BY <1>1
<1>3. Body(<<i>>, AnyKind) /\ <<i>> \in Seq(Instructions) /\ Len(<<i>>) = 1 /\ i \in Instructions
  BY BodyOne DEF Body, Plain
<1>4. PICK ai : ai = a \o <<i>>
  OBVIOUS
<1>5. /\ Body(ai, AnyKind) /\ Len(ai) = m + 1 /\ ai[m + 1] = i
      /\ \A k \in 1..m : ai[k] = a[k]
  <2>1. /\ Len(a \o <<i>>) = Len(a) + Len(<<i>>)
        /\ \A k \in 1..Len(a) : (a \o <<i>>)[k] = a[k]
        /\ \A k \in Len(a) + 1..Len(a) + Len(<<i>>) : (a \o <<i>>)[k] = <<i>>[k - Len(a)]
    BY <1>1, <1>3, Concat
  <2>2. m + 1 \in m + 1..m + 1 /\ (m + 1) - m = 1
    OBVIOUS
  <2> QED
    BY <1>1, <1>2, <1>3, <1>4, <2>1, <2>2, BodyConcat
<1>6. PICK c : c = Attempts(ai, n)
  OBVIOUS
<1>7. Body(c, AnyKind)
  BY <1>5, <1>6, BodyAttempts
<1>8. c = [k \in 1..m + 1 |-> [ai[k] EXCEPT !.back = k - 1, !.limit = n, !.keep = k < m + 1]]
  BY <1>5, <1>6 DEF Attempts
<1>9. Len(c) = m + 1
  <2>1. DOMAIN c = 1..m + 1
    BY <1>8
  <2>2. c \in Seq(Instructions)
    BY <1>7 DEF Body
  <2> QED
    BY <2>1, <2>2
<1> DEFINE O == [t \in 1..m + 2 |-> IF t = m + 2 THEN L ELSE K]
<1>10. /\ O \in [1..m + 2 -> Knowledge] /\ O[m + 2] = L
       /\ \A t \in 1..m + 1 : O[t] = K
  OBVIOUS
<1> HIDE DEF O
<1>11. ASSUME NEW k \in 1..m + 1 PROVE KeptAt(d, c, O, k)
  <2>1. PICK h \in Instructions : /\ h = ai[k] /\ h.ok = 1 /\ h.no = 0
                                  /\ (k = m + 1 => h = i) /\ (k # m + 1 => Keeps(d, h, K))
    <3>1. CASE k = m + 1
      BY <1>3, <1>5, <3>1 DEF Plain
    <3>2. CASE k \in 1..m
      BY <1>1, <1>2, <1>5, <3>2 DEF Straight
    <3> QED
      BY <3>1, <3>2
  <2>2. PICK j : j = c[k]
    OBVIOUS
  <2>3. j = [h EXCEPT !.back = k - 1, !.limit = n, !.keep = k < m + 1]
    BY <1>8, <2>1, <2>2
  <2>4. j.do = h.do /\ j.at = h.at /\ j.part = h.part /\ j.ok = 1 /\ j.no = 0 /\ j.back = k - 1
    BY <2>1, <2>3 DEF Instructions
  <2>5. /\ AfterSuccess(d.first, d.blind, h, K) = AfterSuccess(d.first, d.blind, j, K)
        /\ AfterFailure(h, K) = AfterFailure(j, K) /\ Leaves(h) = Leaves(j)
    BY <2>4, AlikeKnown DEF Alike
  <2>6. /\ k + j.ok = k + 1 /\ k - j.back = 1 /\ 1 \in 1..m + 1
    BY <2>4
  <2>7. O[k] = K /\ O[1] = K
    BY <1>10, <2>6
  <2>8. CASE k = m + 1
    <3>1. O[k + j.ok] = L
      BY <1>10, <2>6, <2>8
    <3>2. KeptBy(d, j, K, L, O[k + j.no], K)
      BY <2>1, <2>4, <2>5, <2>8 DEF KeptBy
    <3> QED
      BY <2>2, <2>6, <2>7, <3>1, <3>2 DEF KeptAt
  <2>9. CASE k \in 1..m
    <3>1. O[k + j.ok] = K
      BY <1>10, <2>6, <2>9
    <3>2. KeptBy(d, j, K, K, O[k + j.no], K)
      BY <2>1, <2>4, <2>5, <2>9 DEF KeptBy, Keeps
    <3> QED
      BY <2>2, <2>6, <2>7, <3>1, <3>2 DEF KeptAt
  <2> QED
    BY <2>8, <2>9
<1>12. O[1] = K
  BY <1>10
<1>13. Passes(d, c, K, L)
  <2>1. (m + 1) + 1 = m + 2
    OBVIOUS
  <2> QED
    BY <1>7, <1>9, <1>10, <1>11, <1>12, <2>1, AtMostSelf DEF Passes
<1> QED
  BY <1>4, <1>6, <1>13

(* Knowledge, in numbers of cells.                                           *)
Known(new, clean, ifNew, ifClean, flags) ==
  [new |-> new, clean |-> clean, ifNew |-> ifNew, ifClean |-> ifClean, flags |-> flags]

Stored(new, flags) == Known(new, {}, {}, {}, flags)

Nothing == Stored({}, {})

Flags == {"open", "locked", "cells", "primary"}

LEMMA KnownKnowledge ==
  /\ \A n, c, s, t \in SUBSET Cell, f \in SUBSET Flags : Known(n, c, s, t, f) \in Knowledge
  /\ \A n \in SUBSET Cell, f \in SUBSET Flags : Stored(n, f) \in Knowledge
  /\ Nothing \in Knowledge
BY DEF Known, Stored, Nothing, Knowledge, Flags

LEMMA NothingLeast == \A K : AtMost(Nothing, K)
BY DEF Nothing, Stored, Known, AtMost

LEMMA FreeStart ==
  ASSUME NEW d, NEW b, NEW D, Body(b, D)
  PROVE  Passes(d, b, Nothing, Nothing)
<1>1. \A i \in Instructions : Keeps(d, i, Nothing)
  BY NothingLeast DEF Keeps
<1> QED
  BY <1>1, PassKeep, KnownKnowledge

(* Instructions that change nothing.                                         *)
Looking ==
  {"ask", "check", "match", "refuse", "room", "compare", "verdict", "ifHeader", "ifData",
   "load", "primary"}

LEMMA LookKeeps ==
  ASSUME NEW d, NEW i \in Instructions, i.do \in Looking, NEW K
  PROVE  Keeps(d, i, K)
<1>1. /\ ~Changes(i) /\ ~Spends(i) /\ i.do \notin {"select", "parse", "unlock", "lock", "burn"}
  BY DEF Looking, Changes, Spends
<1>2. Lost(i) = {} /\ Gone(i) = {}
  BY <1>1 DEF Lost, Gone
<1> QED
  BY <1>1, <1>2 DEF Keeps, AtMost, AfterSuccess, AfterFailure

(* Instructions that disturb other cells.                                    *)
LEMMA WorkKeeps ==
  ASSUME NEW d, NEW i \in Instructions, Changes(i), i.do # "burn",
         NEW n, NEW f, Named(i) \cap n = {}
  PROVE  Keeps(d, i, Stored(n, f))
<1>1. Lost(i) = Named(i) /\ Gone(i) = {} /\ i.do # "parse"
  BY DEF Lost, Gone, Changes, Spends
<1> QED
  BY <1>1 DEF Keeps, AtMost, AfterSuccess, AfterFailure, Stored, Known

LEMMA PassLook ==
  ASSUME NEW d, NEW b, Body(b, Looking \X Subjects), NEW K \in Knowledge
  PROVE  Passes(d, b, K, K)
<1>1. ASSUME NEW i \in Instructions, Kind(i) \in Looking \X Subjects
      PROVE  Keeps(d, i, K)
  <2>1. i.do \in Looking
    BY <1>1 DEF Kind
  <2> QED
    BY <2>1, LookKeeps
<1> QED
  BY <1>1, PassKeep

(* An instruction that teaches something, once or until it succeeds.         *)
Teaches(d, i, K, L) == AtMost(L, AfterSuccess(d.first, d.blind, i, K))

LEMMA PassOnce ==
  ASSUME NEW d, NEW i, Plain(i, AnyKind), i.no = 0, i.limit = 1,
         NEW K \in Knowledge, NEW L \in Knowledge, Teaches(d, i, K, L)
  PROVE  Passes(d, <<i>>, K, L)
<1>1. KeptBy(d, i, K, L, L, K)
  BY DEF KeptBy, Teaches
<1> QED
  BY <1>1, PassOne

LEMMA PassRetry ==
  ASSUME NEW d, NEW i, Plain(i, AnyKind), i.no = 0, NEW n \in 1..Tries,
         NEW K \in Knowledge, NEW L \in Knowledge, Teaches(d, i, K, L),
         AtMost(K, AfterFailure(i, K))
  PROVE  Passes(d, <<Retry(i, n)>>, K, L)
<1>1. PICK j : j = Retry(i, n)
  OBVIOUS
<1>2. Plain(j, AnyKind)
  BY <1>1, RetryPlain
<1>3. Alike(i, j) /\ j.no = 0
  BY <1>1 DEF Alike, Retry, Plain, Instructions
<1>4. KeptBy(d, j, K, L, L, K)
  <2>1. /\ AfterSuccess(d.first, d.blind, i, K) = AfterSuccess(d.first, d.blind, j, K)
        /\ AfterFailure(i, K) = AfterFailure(j, K)
    BY <1>3, AlikeKnown
  <2> QED
    BY <1>3, <2>1 DEF KeptBy, Teaches
<1> QED
  BY <1>1, <1>2, <1>4, PassOne

(* The instructions, one by one.                                             *)
CellsOf(x, p) == {x} \X (IF p = 0 THEN 1..Parts ELSE {p})

Places == (Areas \ Images) \cup {"spare"}

LEMMA CellsIn ==
  /\ \A x \in Places, p \in 0..Parts : CellsOf(x, p) \subseteq Cell
  /\ \A i : Named(i) = CellsOf(i.at, i.part)
  /\ \A x \in Places, p \in 0..Parts : {x} \X (1..p) \subseteq Cell
BY LoopAssumption DEF CellsOf, Places, Cell, Named, Touched

LEMMA CompareTeaches ==
  ASSUME NEW d, NEW i, i.do = "compare", NEW n, NEW f
  PROVE  Teaches(d, i, Stored(n, f), Stored(n \cup CellsOf(i.at, i.part), f))
<1>1. Lost(i) = {} /\ Gone(i) = {} /\ ~Changes(i) /\ Named(i) = CellsOf(i.at, i.part)
  BY CellsIn DEF Lost, Gone, Changes, Spends
<1> QED
  BY <1>1 DEF Teaches, AtMost, AfterSuccess, Stored, Known

LEMMA VerdictTeaches ==
  ASSUME NEW d, NEW i, i.do = "verdict", NEW n, NEW c, NEW s, NEW t, NEW f
  PROVE  Teaches(d, i, Known(n, c, s, t, f), Known(n \cup s, c \cup t, {}, {}, f))
<1>1. Lost(i) = {} /\ Gone(i) = {} /\ ~Changes(i)
  BY DEF Lost, Gone, Changes, Spends
<1> QED
  BY <1>1 DEF Teaches, AtMost, AfterSuccess, Known

LEMMA FlagTeaches ==
  ASSUME NEW d, NEW i, i.do \in {"room", "unlock", "primary", "lock"},
         NEW n, NEW c, NEW s, NEW t, NEW f
  PROVE  Teaches(d, i, Known(n, c, s, t, f), Known(n, c, s, t, (f \ Gone(i)) \cup Gained(i)))
<1>1. Lost(i) = {} /\ ~Changes(i) /\ i.do # "parse"
  BY DEF Lost, Changes
<1> QED
  BY <1>1 DEF Teaches, AtMost, AfterSuccess, Known

(* Live registers can be written as often as one likes, and what is written  *)
(* is not reported later.                                                    *)
LEMMA WriteTeaches ==
  ASSUME NEW d, NEW i, i.do = "write", i.at = "ram", NEW n, NEW f, "open" \in f
  PROVE  Teaches(d, i, Stored(n, f), Stored(n \cup CellsOf("ram", i.part), f))
<1>1. Changes(i) /\ ~Spends(i) /\ ~Lasting(i) /\ Named(i) = CellsOf("ram", i.part)
  BY CellsIn DEF Changes, Spends, Lasting
<1>2. Lost(i) = Named(i) /\ Gone(i) = {} /\ Certain(d.blind, i)
  BY <1>1 DEF Lost, Gone, Certain
<1>3. "ram" \notin NorAreas \cup {"spare"}
  BY DEF NorAreas
<1>4. MadeNew(i, Stored(n, f)) = Named(i)
  BY <1>1, <1>3 DEF MadeNew, Effective, Stored, Known
<1> QED
  BY <1>1, <1>2, <1>4 DEF Teaches, AtMost, AfterSuccess, Stored, Known

(* A store, or a burn, of registers that hold the image.                     *)
WhenStored(d, i, n, f) ==
  IF d.blind THEN Stored(n \cup CellsOf("nvm", i.part), f \ Gone(i))
  ELSE Known({}, {}, CellsOf("nvm", i.part), {}, f \ Gone(i))

LEMMA StoreTeaches ==
  ASSUME NEW d, NEW i, i.do \in {"store", "burn"}, i.at = "nvm", NEW n, NEW f,
         "open" \in f, Spends(i) => "cells" \in f, CellsOf("ram", i.part) \subseteq n
  PROVE  Teaches(d, i, Stored(n, f), WhenStored(d, i, n, f))
<1>1. Changes(i) /\ Named(i) = CellsOf("nvm", i.part) /\ i.do # "parse"
  BY CellsIn DEF Changes
<1>2. Lost(i) = Named(i)
  BY <1>1 DEF Lost
<1>3. MadeNew(i, Stored(n, f)) = Named(i)
  <2>1. Effective(i, Stored(n, f))
    BY <1>1 DEF Effective, Stored, Known
  <2>2. \A x \in Named(i) : <<"ram", x[2]>> \in n
    BY <1>1 DEF CellsOf
  <2> QED
    BY <2>1, <2>2 DEF MadeNew, Stored, Known
<1> QED
  BY <1>1, <1>2, <1>3 DEF Teaches, AtMost, AfterSuccess, Stored, Known, Certain, WhenStored

(* A flash is erased and then written; the chip reports about both.          *)
LEMMA EraseTeaches ==
  ASSUME NEW d, NEW i, i.do = "erase", NEW n, NEW c, NEW f, "open" \in f,
         Named(i) \cap (n \cup c) = {}
  PROVE  /\ Teaches(d, i, Known(n, c, {}, {}, f), Known(n, c, {}, Named(i), f))
         /\ AtMost(Known(n, c, {}, {}, f), AfterFailure(i, Known(n, c, {}, {}, f)))
<1>1. Changes(i) /\ ~Spends(i) /\ Lost(i) = Named(i) /\ Gone(i) = {}
  BY DEF Changes, Spends, Lost, Gone
<1>2. MadeClean(i, Known(n, c, {}, {}, f)) = Named(i)
  BY <1>1 DEF MadeClean, Effective, Known
<1> QED
  BY <1>1, <1>2 DEF Teaches, AtMost, AfterSuccess, AfterFailure, Known

LEMMA ProgramTeaches ==
  ASSUME NEW d, NEW i, i.do = "write", NEW n, NEW c, NEW f, "open" \in f,
         Named(i) \cap n = {}, Named(i) \subseteq c
  PROVE  /\ Teaches(d, i, Known(n, c, {}, {}, f), Known(n, c \ Named(i), Named(i), {}, f))
         /\ AtMost(Known(n, c, {}, {}, f), AfterFailure(i, Known(n, c, {}, {}, f)))
<1>1. Changes(i) /\ ~Spends(i) /\ Lost(i) = Named(i) /\ Gone(i) = {}
  BY DEF Changes, Spends, Lost, Gone
<1>2. MadeNew(i, Known(n, c, {}, {}, f)) = Named(i)
  BY <1>1 DEF MadeNew, Effective, Known
<1> QED
  BY <1>1, <1>2 DEF Teaches, AtMost, AfterSuccess, AfterFailure, Known

(* Code that is skipped when the image has no data.                          *)
LEMMA PassGuarded ==
  ASSUME NEW d, NEW a, NEW K \in Knowledge, NEW L, Passes(d, a, K, L)
  PROVE  Passes(d, Guarded(IfData, a), K, L)
<1>1. PICK A \in [1..Len(a) + 1 -> Knowledge] :
           /\ AtMost(A[1], K) /\ A[Len(a) + 1] = L
           /\ \A k \in 1..Len(a) : KeptAt(d, a, A, k)
  BY DEF Passes
<1>2. Body(a, AnyKind) /\ a \in Seq(Instructions)
  BY DEF Passes, Body
<1>3. PICK m \in Nat : m = Len(a)
  BY <1>2
<1>4. PICK c : c = Guarded(IfData, a)
  OBVIOUS
<1>5. Body(c, AnyKind)
  <2>1. Plain(IfData, Works({}))
    BY WorksPlain
  <2>2. Plain(IfData, AnyKind)
    BY <2>1, InstructionType DEF Plain, Kind, AnyKind
  <2> QED
    BY <1>2, <1>4, <2>2, BodyGuarded
<1>6. PICK j : j = [IfData EXCEPT !.no = m + 1]
  OBVIOUS
<1>7. /\ j \in Instructions /\ j.do = "ifData" /\ j.ok = 1
  <2>1. "ifData" \in Deeds /\ "none" \in Subjects /\ m + 1 \in Nat /\ 1 \in 1..Tries /\ 1 \in Nat \ {0}
    BY LoopAssumption DEF Deeds, Subjects
  <2> QED
    BY <1>6, <2>1 DEF IfData, Instruction, Instructions
<1>8. /\ Len(c) = m + 1 /\ c[1] = j
      /\ \A k \in 2..m + 1 : k - 1 \in 1..m /\ c[k] = a[k - 1]
  <2>1. c = <<j>> \o a
    BY <1>3, <1>4, <1>6 DEF Guarded
  <2>2. <<j>> \in Seq(Instructions) /\ Len(<<j>>) = 1 /\ <<j>>[1] = j
    BY <1>7
  <2>3. /\ Len(<<j>> \o a) = Len(<<j>>) + Len(a)
        /\ \A k \in 1..Len(<<j>>) : (<<j>> \o a)[k] = <<j>>[k]
        /\ \A k \in Len(<<j>>) + 1..Len(<<j>>) + Len(a) :
             k - Len(<<j>>) \in 1..Len(a) /\ (<<j>> \o a)[k] = a[k - Len(<<j>>)]
    BY <1>2, <2>2, Concat
  <2> QED
    BY <1>3, <2>1, <2>2, <2>3
<1> DEFINE O == [t \in 1..m + 2 |-> IF t = 1 THEN K ELSE A[t - 1]]
<1>9. /\ O \in [1..m + 2 -> Knowledge] /\ O[1] = K
      /\ \A t \in 2..m + 2 : O[t] = A[t - 1]
  BY <1>1, <1>3
<1> HIDE DEF O
<1>10. KeptAt(d, c, O, 1)
  <2>1. AtMost(K, AfterSuccess(d.first, d.blind, j, K)) /\ Leaves(j)
    <3>1. j.do \in Looking
      BY <1>7 DEF Looking
    <3> QED
      BY <1>7, <3>1, LookKeeps DEF Keeps, Leaves
  <2>2. O[1 + j.ok] = A[1] /\ O[1] = K
    BY <1>3, <1>7, <1>9
  <2>3. AtMost(A[1], AfterSuccess(d.first, d.blind, j, K))
    BY <1>1, <2>1, AtMostTrans
  <2> QED
    BY <1>8, <2>1, <2>2, <2>3 DEF KeptAt, KeptBy
<1>11. ASSUME NEW k \in 2..m + 1 PROVE KeptAt(d, c, O, k)
  <2>1. PICK l \in 1..m : l = k - 1 /\ k = 1 + l
    OBVIOUS
  <2>2. PICK i \in Instructions : i = a[l] /\ c[k] = i /\ Fits(i, l, m)
    BY <1>2, <1>3, <1>8, <2>1 DEF Body
  <2>3. Lands(i, l, m, 1, k)
    BY ONLY <2>1, <2>2, 1 \in Nat, m \in Nat, l \in 1..m, Targets
  <2>4. /\ O[k] = A[l] /\ O[k + i.ok] = A[l + i.ok] /\ O[k + i.no] = A[l + i.no]
        /\ O[k - i.back] = A[l - i.back]
    <3>1. (\A t : t \in 1 + 1..1 + m + 1 => t \in 2..m + 2) /\ k \in 2..m + 2
      OBVIOUS
    <3>2. /\ k + i.ok \in 2..m + 2 /\ (k + i.ok) - 1 = l + i.ok
          /\ k + i.no \in 2..m + 2 /\ (k + i.no) - 1 = l + i.no
          /\ k - i.back \in 2..m + 2 /\ (k - i.back) - 1 = l - i.back
      BY <2>3, <3>1 DEF Lands
    <3>3. \A t \in 2..m + 2 : O[t] = A[t - 1]
      BY <1>9
    <3>4. O[k] = A[l]
      BY <2>1, <3>1, <3>3
    <3>5. PICK ok \in 2..m + 2, no \in 2..m + 2, back \in 2..m + 2 :
               ok = k + i.ok /\ no = k + i.no /\ back = k - i.back
      BY <3>2
    <3>6. O[ok] = A[ok - 1] /\ O[no] = A[no - 1] /\ O[back] = A[back - 1]
      BY <3>3
    <3> QED
      BY ONLY <3>2, <3>4, <3>5, <3>6
  <2>5. KeptBy(d, i, A[l], A[l + i.ok], A[l + i.no], A[l - i.back])
    BY <1>1, <1>3, <2>2 DEF KeptAt
  <2> QED
    BY <2>2, <2>4, <2>5 DEF KeptAt
<1>12. \A k \in 1..m + 1 : KeptAt(d, c, O, k)
  <2> TAKE k \in 1..m + 1
  <2>1. k = 1 \/ k \in 2..m + 1
    OBVIOUS
  <2> QED
    BY <1>10, <1>11, <2>1
<1>13. O[m + 2] = L
  <2>1. m + 2 \in 2..m + 2 /\ (m + 2) - 1 = m + 1
    OBVIOUS
  <2> QED
    BY <1>1, <1>3, <1>9, <2>1
<1>14. Passes(d, c, K, L)
  <2>1. (m + 1) + 1 = m + 2
    OBVIOUS
  <2> QED
    BY <1>5, <1>8, <1>9, <1>12, <1>13, <2>1, AtMostSelf DEF Passes
<1> QED
  BY <1>4, <1>14

(* What a driver of these kinds promises.                                    *)
DriverAs(code, blind) == [first |-> AtFirst(code), blind |-> blind]

LEMMA OutlineOf ==
  ASSUME NEW code, NEW blind, NEW L, Passes(DriverAs(code, blind), code, AtFirst(code), L),
         NEW D, Body(code, Looks \cup D), NEW A, D \subseteq Works(A) \cup Special \cup {<<"match", "wrongDevice">>, <<"select", "none">>},
         (A \cap {"flash", "nvm", "page2"}) \X (1..Parts) \subseteq L.new,
         <<"primary", "none">> \in D => CellsOf("spare", 0) \subseteq L.new /\ "primary" \in L.flags,
         <<"lock", "none">> \in D => "locked" \in L.flags
  PROVE  \E O : IsOutline(code, blind, O)
<1>1. PICK O \in [1..Len(code) + 1 -> Knowledge] :
           /\ AtMost(O[1], AtFirst(code)) /\ O[Len(code) + 1] = L
           /\ \A k \in 1..Len(code) : KeptAt(DriverAs(code, blind), code, O, k)
  BY DEF Passes
<1>2. ASSUME NEW k \in 1..Len(code)
      PROVE  LET i == code[k]
             IN /\ AtMost(O[k + i.ok], AfterSuccess(AtFirst(code), blind, i, O[k]))
                /\ ~Leaves(i) /\ i.no > 0 =>
                     AtMost(O[k + i.no], AfterPassing(AtFirst(code), blind, i, O[k]))
                /\ ~Leaves(i) /\ i.limit > 1 => AtMost(O[k - i.back], AfterFailure(i, O[k]))
  <2>1. KeptAt(DriverAs(code, blind), code, O, k)
    BY <1>1
  <2> QED
    BY <2>1 DEF KeptAt, KeptBy, DriverAs
<1>3. ASSUME NEW k \in 1..Len(code), NEW i, i = code[k]
      PROVE  /\ Changes(i) => i.at \in A
             /\ i.do = "primary" => <<"primary", "none">> \in D
             /\ i.do = "lock" => <<"lock", "none">> \in D
  <2>1. i \in Instructions /\ Kind(i) \in Looks \cup D
    BY <1>3 DEF Body
  <2>2. CASE Kind(i) \in Looks
    BY <2>2 DEF Kind, Looks, Refusing, Changes
  <2>3. CASE Kind(i) \in D
    <3>1. Kind(i) \in Works(A) \/ Kind(i) \in Special \/ i.do \in {"match", "select"}
      BY <2>3 DEF Kind
    <3>2. Changes(i) => i.at \in A
      BY <2>1, <3>1, KindOf DEF Changes
    <3>3. i.do \in {"primary", "lock"} => Kind(i) = <<i.do, "none">>
      BY <3>1 DEF Kind, Works, Testing, Changing, Special
    <3> QED
      BY <2>3, <3>2, <3>3
  <2> QED
    BY <2>1, <2>2, <2>3
<1>4. /\ Has(code, "primary") => <<"primary", "none">> \in D
      /\ Has(code, "lock") => <<"lock", "none">> \in D
  BY <1>3 DEF Has
<1>5. Promised(code) \X (1..Parts) \subseteq L.new
  <2>1. CASE Has(code, "primary")
    BY <1>4, <2>1 DEF Promised, CellsOf
  <2>2. CASE ~Has(code, "primary")
    <3>1. Promised(code) \subseteq A \cap {"flash", "nvm", "page2"}
      BY <1>3, <2>2 DEF Promised
    <3> QED
      BY <3>1
  <2> QED
    BY <2>1, <2>2
<1>6. IsOutline(code, blind, O)
  BY <1>1, <1>2, <1>4, <1>5 DEF IsOutline
<1> QED
  BY <1>6

LEMMA Pair ==
  ASSUME NEW i \in Instructions, NEW j \in Instructions
  PROVE  <<i, j>> = <<i>> \o <<j>>
<1>1. PICK a, b : a = <<i>> /\ b = <<j>>
  OBVIOUS
<1>2. a \in Seq(Instructions) /\ b \in Seq(Instructions) /\ Len(a) = 1 /\ Len(b) = 1
      /\ a[1] = i /\ b[1] = j
  BY <1>1
<1>3. /\ a \o b \in Seq(Instructions) /\ Len(a \o b) = 2
      /\ (a \o b)[1] = i /\ (a \o b)[2] = j
  BY <1>2, Concat
<1>4. PICK c, e : c = a \o b /\ e = <<i, j>>
  OBVIOUS
<1>5. e \in Seq(Instructions) /\ Len(e) = 2 /\ e[1] = i /\ e[2] = j
  BY <1>4
<1>6. \A k \in 1..2 : k = 1 \/ k = 2
  OBVIOUS
<1>7. c = e
  BY <1>3, <1>4, <1>5, <1>6, SeqEqual
<1> QED
  BY <1>1, <1>4, <1>7

LEMMA PassTwo ==
  ASSUME NEW d, NEW i \in Instructions, NEW j \in Instructions, NEW K, NEW L, NEW M,
         Passes(d, <<i>>, K, L), Passes(d, <<j>>, L, M)
  PROVE  Passes(d, <<i, j>>, K, M)
<1>1. Passes(d, <<i>> \o <<j>>, K, M)
  BY PassConcat
<1> QED
  BY <1>1, Pair

LEMMA AnyPlain ==
  ASSUME NEW i, NEW D, Plain(i, D)
  PROVE  Plain(i, AnyKind)
BY InstructionType DEF Plain, AnyKind, Kind

(* The instructions of all drivers, without regard to their kind.            *)
Simple(i) == Plain(i, AnyKind) /\ i \in Instructions /\ i.no = 0 /\ i.limit = 1

LEMMA Simply ==
  ASSUME NEW do \in Deeds, NEW at \in Subjects, NEW part \in Nat, do = "room" \/ part <= Parts
  PROVE  Simple(Instruction(do, at, part))
<1>1. Plain(Instruction(do, at, part), AnyKind)
  BY InstructionPlain DEF AnyKind
<1> QED
  BY <1>1 DEF Simple, Plain, Instruction

LEMMA SimpleOnes ==
  /\ Simple(Ask) /\ Simple(Verdict) /\ Simple(Unlock) /\ Simple(Lock) /\ Simple(SetPrimary)
  /\ Simple(Restore) /\ Simple(Room(0)) /\ Simple(Room(WarnRemaining))
  /\ \A x \in Places, p \in 0..Parts :
       Simple(Compare(x, p)) /\ Simple(Write(x, p)) /\ Simple(Erase(x, p))
  /\ \A p \in 0..Parts : Simple(Store(p)) /\ Simple(Burn(p))
<1>1. "none" \in Subjects /\ "nvm" \in Subjects /\ "ram" \in Subjects /\ Places \subseteq Subjects
  BY DEF Subjects, Places, Areas, Images
<1>2. /\ {"ask", "verdict", "unlock", "lock", "primary", "restore", "room"} \subseteq Deeds
      /\ {"compare", "write", "erase", "store", "burn"} \subseteq Deeds
  BY DEF Deeds
<1>3. 0 \in Nat /\ 0 <= Parts /\ WarnRemaining \in Nat
  BY LoopAssumption, WarnAssumption
<1>4. /\ Simple(Ask) /\ Simple(Verdict) /\ Simple(Unlock) /\ Simple(Lock)
      /\ Simple(SetPrimary) /\ Simple(Restore)
  BY <1>1, <1>2, <1>3, Simply DEF Ask, Verdict, Unlock, Lock, SetPrimary, Restore
<1>5. Simple(Room(0)) /\ Simple(Room(WarnRemaining))
  BY <1>1, <1>2, <1>3, Simply DEF Room
<1>6. ASSUME NEW x \in Places, NEW p \in 0..Parts
      PROVE  Simple(Compare(x, p)) /\ Simple(Write(x, p)) /\ Simple(Erase(x, p))
  <2>1. x \in Subjects /\ p \in Nat /\ p <= Parts
    BY <1>1, LoopAssumption
  <2> QED
    BY <1>2, <2>1, Simply DEF Compare, Write, Erase
<1>7. ASSUME NEW p \in 0..Parts PROVE Simple(Store(p)) /\ Simple(Burn(p))
  <2>1. p \in Nat /\ p <= Parts
    BY LoopAssumption
  <2> QED
    BY <1>1, <1>2, <2>1, Simply DEF Store, Burn
<1> QED
  BY <1>4, <1>5, <1>6, <1>7

(* What they teach.                                                          *)
LEMMA TwoLooks ==
  /\ \A d, K : K \in Knowledge => Passes(d, <<Ask>>, K, K) /\ Passes(d, <<Verdict>>, K, K)
  /\ \A d, K, i, L : K \in Knowledge /\ i \in Instructions /\ Passes(d, <<i>>, K, L) =>
                        Passes(d, <<Ask, i>>, K, L)
<1>1. ASSUME NEW d, NEW K \in Knowledge, NEW i, Simple(i), i.do \in Looking
      PROVE  Passes(d, <<i>>, K, K)
  <2>1. Keeps(d, i, K)
    BY <1>1, LookKeeps DEF Simple
  <2> QED
    BY <1>1, <2>1, PassOnce DEF Simple, Keeps, Teaches
<1>2. \A d, K : K \in Knowledge => Passes(d, <<Ask>>, K, K) /\ Passes(d, <<Verdict>>, K, K)
  <2>1. Ask.do \in Looking /\ Verdict.do \in Looking
    BY DEF Looking, Ask, Verdict, Instruction
  <2> QED
    BY <1>1, <2>1, SimpleOnes
<1>3. Ask \in Instructions
  BY SimpleOnes DEF Simple
<1> QED
  BY <1>2, <1>3, PassTwo

LEMMA PassCompare ==
  ASSUME NEW d, NEW x \in Places, NEW p \in 0..Parts, NEW n \in SUBSET Cell, NEW f \in SUBSET Flags
  PROVE  /\ Simple(Compare(x, p)) /\ Stored(n \cup CellsOf(x, p), f) \in Knowledge
         /\ Teaches(d, Compare(x, p), Stored(n, f), Stored(n \cup CellsOf(x, p), f))
         /\ Passes(d, <<Compare(x, p)>>, Stored(n, f), Stored(n \cup CellsOf(x, p), f))
<1>1. Simple(Compare(x, p))
  BY SimpleOnes
<1>2. n \cup CellsOf(x, p) \in SUBSET Cell
  BY CellsIn
<1>3. Stored(n, f) \in Knowledge /\ Stored(n \cup CellsOf(x, p), f) \in Knowledge
  BY <1>2, KnownKnowledge
<1>4. PICK i : i = Compare(x, p)
  OBVIOUS
<1>5. i.do = "compare" /\ i.at = x /\ i.part = p
  BY <1>4 DEF Compare, Instruction
<1>6. Teaches(d, i, Stored(n, f), Stored(n \cup CellsOf(x, p), f))
  BY <1>5, CompareTeaches
<1> QED
  BY <1>1, <1>3, <1>4, <1>6, PassOnce DEF Simple

(* Every driver of a regulator looks at the image and then programs the chip. *)
LEMMA PassVr ==
  ASSUME NEW d, NEW verify, NEW update, NEW K, NEW L, NEW M,
         Passes(d, verify, K, L), Passes(d, update, L, M)
  PROVE  Passes(d, VrUpdateDevice(verify, update), K, M)
BY PassConcat DEF VrUpdateDevice

LEMMA PassLattice ==
  ASSUME NEW d, NEW D, NEW E, NEW prepare, Body(prepare, D), NEW erase, Body(erase, E),
         NEW update, NEW finish, NEW L, NEW M,
         Passes(d, update, Nothing, L), Passes(d, finish, L, M)
  PROVE  Passes(d, UpdateDevice(LatticeUpdateFirmware(prepare, erase, update, finish)), Nothing, M)
<1>1. Body(SetupMux, Looks) /\ Body(<<Check("empty")>>, Looks)
  BY SubjectsListed, LooksPlain, BodyOne DEF SetupMux
<1>2. PICK check : check = <<Check("empty")>>
  OBVIOUS
<1>3. /\ Passes(d, SetupMux, Nothing, Nothing) /\ Passes(d, check, Nothing, Nothing)
      /\ Passes(d, prepare, Nothing, Nothing) /\ Passes(d, erase, Nothing, Nothing)
  BY <1>1, <1>2, FreeStart
<1>4. Passes(d, (((check \o prepare) \o erase) \o update) \o finish, Nothing, M)
  BY <1>3, PassConcat
<1>5. Passes(d, SetupMux \o ((((check \o prepare) \o erase) \o update) \o finish), Nothing, M)
  BY <1>3, <1>4, PassConcat
<1> QED
  BY <1>2, <1>5 DEF UpdateDevice, LatticeUpdateFirmware

(* From the first knowledge on, whatever it is.                              *)
LEMMA FromNothing ==
  ASSUME NEW d, NEW b, NEW K, NEW L, Passes(d, b, Nothing, L)
  PROVE  Passes(d, b, K, L)
<1>1. L \in Knowledge
  <2>1. PICK O \in [1..Len(b) + 1 -> Knowledge] : O[Len(b) + 1] = L
    BY DEF Passes
  <2>2. Len(b) + 1 \in 1..Len(b) + 1
    BY DEF Passes, Body
  <2> QED
    BY <2>1, <2>2
<1> QED
  BY <1>1, NothingLeast, AtMostSelf, PassWeaker

(* A loop that reads back at its end, whatever is known when it begins.       *)
LEMMA PassReadBack ==
  ASSUME NEW d, NEW x \in Places
  PROVE  /\ Passes(d, <<Compare(x, 0)>>, Nothing, Stored(CellsOf(x, 0), {}))
         /\ Passes(d, <<Ask, Compare(x, 0)>>, Nothing, Stored(CellsOf(x, 0), {}))
         /\ \A a, D : Body(a, D) =>
              Passes(d, Rounds(a \o <<Compare(x, 0)>>, Tries), Nothing, Stored(CellsOf(x, 0), {}))
<1>1. 0 \in 0..Parts /\ Tries \in 1..Tries
  BY TriesIn
<1>2. {} \in SUBSET Cell /\ {} \in SUBSET Flags /\ {} \cup CellsOf(x, 0) = CellsOf(x, 0)
  OBVIOUS
<1>3. PICK i, L : i = Compare(x, 0) /\ L = Stored(CellsOf(x, 0), {})
  OBVIOUS
<1>4. /\ Simple(i) /\ L \in Knowledge /\ Teaches(d, i, Nothing, L)
      /\ Passes(d, <<i>>, Nothing, L)
  BY ONLY <1>1, <1>2, <1>3, x \in Places, PassCompare DEF Nothing
<1>5. Passes(d, <<Ask, i>>, Nothing, L)
  BY <1>4, TwoLooks, KnownKnowledge DEF Simple
<1>6. ASSUME NEW a, NEW D, Body(a, D)
      PROVE  Passes(d, Rounds(a \o <<i>>, Tries), Nothing, L)
  <2>1. Passes(d, a, Nothing, Nothing)
    BY <1>6, FreeStart
  <2>2. AtMost(Nothing, AfterFailure(i, Nothing))
    BY NothingLeast
  <2> QED
    BY <1>1, <1>4, <2>1, <2>2, PassRounds DEF Simple, Teaches
<1> QED
  BY <1>3, <1>4, <1>5, <1>6

(* Work on other areas.                                                      *)
LEMMA PassWork ==
  ASSUME NEW d, NEW b, NEW A, Body(b, (Looking \X Subjects) \cup Works(A)),
         NEW n \in SUBSET Cell, \A x \in n : x[1] \notin A,
         NEW f \in SUBSET Flags, "cells" \notin f
  PROVE  Passes(d, b, Stored(n, f), Stored(n, f))
<1>1. ASSUME NEW i \in Instructions, Kind(i) \in (Looking \X Subjects) \cup Works(A)
      PROVE  Keeps(d, i, Stored(n, f))
  <2>1. i.do \in Looking \/ (Changes(i) /\ i.at \in A)
    BY <1>1 DEF Kind, Works, Testing, Changing, Looking, Changes
  <2>2. CASE i.do \in Looking
    BY <2>2, LookKeeps
  <2>3. CASE Changes(i) /\ i.at \in A
    <3>1. Lost(i) = Named(i) /\ Gone(i) \subseteq {"cells"} /\ i.do # "parse"
      BY <2>3 DEF Lost, Gone, Changes
    <3>2. Named(i) \cap n = {}
      BY <2>3 DEF Named
    <3>3. f \ Gone(i) = f
      BY <3>1
    <3> QED
      BY <3>1, <3>2, <3>3 DEF Keeps, AtMost, AfterSuccess, AfterFailure, Stored, Known
  <2> QED
    BY <2>1, <2>2, <2>3
<1> QED
  BY <1>1, PassKeep, KnownKnowledge

(* Instructions one after the other that keep what is known.                 *)
Steady(d, b, K) ==
  Body(b, AnyKind) /\ Straight(b) /\ \A k \in 1..Len(b) : Keeps(d, b[k], K)

LEMMA SteadyOne ==
  ASSUME NEW d, NEW i, Simple(i), NEW K, Keeps(d, i, K)
  PROVE  Steady(d, <<i>>, K)
<1>1. PICK b : b = <<i>>
  OBVIOUS
<1>2. Len(b) = 1 /\ b[1] = i
  BY <1>1
<1>3. Body(b, AnyKind)
  BY <1>1, BodyOne DEF Simple
<1>4. \A k \in 1..Len(b) : k = 1
  BY <1>2
<1>5. Steady(d, b, K)
  BY <1>2, <1>3, <1>4 DEF Steady, Straight, Simple, Plain
<1> QED
  BY <1>1, <1>5

LEMMA SteadyConcat ==
  ASSUME NEW d, NEW a, NEW b, NEW K, Steady(d, a, K), Steady(d, b, K)
  PROVE  Steady(d, a \o b, K)
<1>1. Body(a, AnyKind) /\ Body(b, AnyKind) /\ a \in Seq(Instructions) /\ b \in Seq(Instructions)
  BY DEF Steady, Body
<1>2. PICK m \in Nat, n \in Nat : m = Len(a) /\ n = Len(b)
  BY <1>1
<1> DEFINE c == a \o b
<1>3. /\ Len(c) = m + n /\ \A k \in 1..m : c[k] = a[k]
      /\ \A k \in m + 1..m + n : k - m \in 1..n /\ c[k] = b[k - m]
  BY <1>1, <1>2, Concat
<1> HIDE DEF c
<1>4. Body(c, AnyKind)
  BY <1>1, BodyConcat DEF c
<1>5. ASSUME NEW k \in 1..m + n PROVE c[k].ok = 1 /\ c[k].no = 0 /\ Keeps(d, c[k], K)
  <2>1. k \in 1..m \/ k \in m + 1..m + n
    OBVIOUS
  <2>2. CASE k \in 1..m
    BY <1>2, <1>3, <2>2 DEF Steady, Straight
  <2>3. CASE k \in m + 1..m + n
    <3>1. PICK l \in 1..n : l = k - m /\ c[k] = b[l]
      BY <1>3, <2>3
    <3> QED
      BY <1>2, <3>1 DEF Steady, Straight
  <2> QED
    BY <2>1, <2>2, <2>3
<1>6. Steady(d, c, K)
  BY <1>3, <1>4, <1>5 DEF Steady, Straight
<1> QED
  BY <1>6 DEF c

(* What the lemmas about the drivers are to show.                            *)
Outlined(code, blind) == \E O : IsOutline(code, blind, O)

(* A regulator is found to hold the image in its memory.                     *)
LEMMA MemoryOutlined ==
  ASSUME NEW code, NEW blind, NEW E, NEW A, E \subseteq Works(A) \cup {<<"unlock", "none">>},
         A \in {{"ram", "nvm"}, {"ram", "nvm", "page2"}, {"flash"}, {"flash", "header", "backup"}},
         NEW G, G \subseteq {<<"match", "wrongDevice">>},
         Split(code, Looks, E \cup G, G), NEW n,
         (A \cap {"flash", "nvm", "page2"}) \X (1..Parts) \subseteq n, NEW f,
         Passes(DriverAs(code, blind), code, AtFirst(code), Stored(n, f))
  PROVE  Outlined(code, blind)
<1>1. Body(code, Looks \cup (E \cup G))
  BY DEF Split
<1>2. /\ E \cup G \subseteq Works(A) \cup Special \cup {<<"match", "wrongDevice">>, <<"select", "none">>}
      /\ <<"primary", "none">> \notin E \cup G /\ <<"lock", "none">> \notin E \cup G
  BY DEF Works, Special, Testing, Changing
<1>3. Stored(n, f).new = n
  BY DEF Stored, Known
<1>4. (A \cap {"flash", "nvm", "page2"}) \X (1..Parts) \subseteq Stored(n, f).new
  BY <1>3
<1> QED
  BY <1>1, <1>2, <1>4, OutlineOf DEF Outlined

(* What is looked at before anything is changed.                             *)
LEMMA PassLooks ==
  ASSUME NEW code, NEW blind, NEW b, Body(b, Looks)
  PROVE  /\ AtFirst(code) \in Knowledge
         /\ Passes(DriverAs(code, blind), b, AtFirst(code), AtFirst(code))
<1> DEFINE d == DriverAs(code, blind)
           K == AtFirst(code)
<1>1. /\ K \in Knowledge /\ K.new = {} /\ K.clean = {} /\ K.ifNew = {} /\ K.ifClean = {}
      /\ K.flags \subseteq {"open"} /\ d.first = K
  BY DEF AtFirst, Knowledge, DriverAs
<1>2. ASSUME NEW i \in Instructions, Kind(i) \in Looks PROVE Keeps(d, i, K)
  <2>1. i.do \in Looking \cup {"parse", "select"}
    BY <1>2 DEF Kind, Looks, Refusing, Looking
  <2>2. CASE i.do \in Looking
    BY <2>2, LookKeeps
  <2>3. CASE i.do = "parse"
    <3>1. AfterSuccess(d.first, d.blind, i, K) = K
      BY <1>1, <2>3 DEF AfterSuccess
    <3>2. Lost(i) = {} /\ Gone(i) = {} /\ ~Changes(i)
      BY <2>3 DEF Lost, Gone, Changes, Spends
    <3>3. AtMost(K, AfterFailure(i, K))
      <4> HIDE DEF K
      <4> QED
        BY <1>1, <3>2 DEF AtMost, AfterFailure
    <3> QED
      BY <3>1, <3>3, AtMostSelf DEF Keeps
  <2>4. CASE i.do = "select"
    <3>1. Gone(i) = {"primary"} /\ K.flags \ {"primary"} = K.flags /\ i.do # "parse"
      <4> HIDE DEF K
      <4> QED
        BY <1>1, <2>4 DEF Gone, Spends
    <3> HIDE DEF K, d
    <3> QED
      BY <1>1, <3>1 DEF Keeps, AtMost, AfterSuccess, AfterFailure
  <2> QED
    BY <2>1, <2>2, <2>3, <2>4
<1>3. \A i \in Instructions : Kind(i) \in Looks => Keeps(d, i, K)
  BY <1>2
<1> HIDE DEF K, d
<1>4. Passes(d, b, K, K)
  BY <1>1, <1>3, PassKeep
<1> QED
  BY <1>1, <1>4 DEF K, d

LEMMA PassSimply ==
  ASSUME NEW d, NEW i, Simple(i), NEW K \in Knowledge, NEW L \in Knowledge, Teaches(d, i, K, L)
  PROVE  Passes(d, <<i>>, K, L) /\ Passes(d, <<Ask, i>>, K, L)
BY PassOnce, TwoLooks DEF Simple

(* Commands that set the protection of the chip, and other promises.          *)
LEMMA PassFlag ==
  ASSUME NEW d, NEW n \in SUBSET Cell, NEW s \in SUBSET Cell, NEW f \in SUBSET Flags
  PROVE  LET K(flags) == Known(n, {}, s, {}, flags)
         IN /\ Passes(d, <<Unlock>>, K(f), K((f \ {"locked"}) \cup {"open"}))
            /\ Passes(d, <<Ask, Unlock>>, K(f), K((f \ {"locked"}) \cup {"open"}))
            /\ Passes(d, <<Lock>>, K(f), K((f \ {"open"}) \cup {"locked"}))
            /\ Passes(d, <<Room(0)>>, K(f), K(f \cup {"cells"}))
            /\ Passes(d, <<Room(WarnRemaining)>>, K(f), K(f \cup {"cells"}))
            /\ Passes(d, <<SetPrimary>>, K(f), K(f \cup {"primary"}))
<1> DEFINE K(flags) == Known(n, {}, s, {}, flags)
<1>1. /\ Unlock.do = "unlock" /\ Lock.do = "lock" /\ Room(0).do = "room"
      /\ Room(WarnRemaining).do = "room" /\ SetPrimary.do = "primary"
  BY DEF Unlock, Lock, Room, SetPrimary, Instruction
<1>2. \A g \in SUBSET Flags : K(g) \in Knowledge
  BY KnownKnowledge
<1>3. /\ (f \ {"locked"}) \cup {"open"} \in SUBSET Flags /\ f \cup {"cells"} \in SUBSET Flags
      /\ (f \ {"open"}) \cup {"locked"} \in SUBSET Flags /\ f \cup {"primary"} \in SUBSET Flags
  BY DEF Flags
<1>4. /\ Teaches(d, Unlock, K(f), K((f \ {"locked"}) \cup {"open"}))
      /\ Teaches(d, Lock, K(f), K((f \ {"open"}) \cup {"locked"}))
      /\ Teaches(d, Room(0), K(f), K(f \cup {"cells"}))
      /\ Teaches(d, Room(WarnRemaining), K(f), K(f \cup {"cells"}))
      /\ Teaches(d, SetPrimary, K(f), K(f \cup {"primary"}))
  <2>1. /\ Gone(Unlock) = {"locked"} /\ Gained(Unlock) = {"open"}
        /\ Gone(Lock) = {"open"} /\ Gained(Lock) = {"locked"}
        /\ Gone(SetPrimary) = {} /\ Gained(SetPrimary) = {"primary"}
    BY <1>1, Zenon DEF Gone, Gained, Spends
  <2>2. \A r : Gone(Room(r)) = {} /\ Gained(Room(r)) = {"cells"} /\ Room(r).do = "room"
    BY DEF Gone, Gained, Spends, Room, Instruction
  <2> DEFINE M(i) == K((f \ Gone(i)) \cup Gained(i))
  <2>3. /\ Teaches(d, Unlock, K(f), M(Unlock)) /\ Teaches(d, Lock, K(f), M(Lock))
        /\ Teaches(d, SetPrimary, K(f), M(SetPrimary))
        /\ \A r : Teaches(d, Room(r), K(f), M(Room(r)))
    BY <1>1, <2>2, FlagTeaches
  <2>4. f \ {} = f
    OBVIOUS
  <2> QED
    BY <2>1, <2>2, <2>3, <2>4
<1> HIDE DEF K
<1>5. /\ Passes(d, <<Unlock>>, K(f), K((f \ {"locked"}) \cup {"open"}))
      /\ Passes(d, <<Ask, Unlock>>, K(f), K((f \ {"locked"}) \cup {"open"}))
      /\ Passes(d, <<Lock>>, K(f), K((f \ {"open"}) \cup {"locked"}))
      /\ Passes(d, <<Room(0)>>, K(f), K(f \cup {"cells"}))
      /\ Passes(d, <<Room(WarnRemaining)>>, K(f), K(f \cup {"cells"}))
      /\ Passes(d, <<SetPrimary>>, K(f), K(f \cup {"primary"}))
  BY <1>2, <1>3, <1>4, SimpleOnes, PassSimply
<1> QED
  BY <1>5 DEF K

LEMMA PassRegister ==
  ASSUME NEW d, NEW p \in 1..Parts, NEW n \in SUBSET Cell, NEW f \in SUBSET Flags, "open" \in f
  PROVE  LET L == Stored(n \cup CellsOf("ram", p), f)
         IN /\ L \in Knowledge /\ n \cup CellsOf("ram", p) \in SUBSET Cell
            /\ Passes(d, <<Write("ram", p)>>, Stored(n, f), L)
            /\ Passes(d, <<Ask, Write("ram", p)>>, Stored(n, f), L)
<1>1. "ram" \in Places /\ p \in 0..Parts
  BY TriesIn DEF Places, Areas, Images
<1>2. PICK i : i = Write("ram", p)
  OBVIOUS
<1>3. i.do = "write" /\ i.at = "ram" /\ i.part = p
  BY <1>2 DEF Write, Instruction
<1>4. Simple(i)
  BY <1>1, <1>2, SimpleOnes
<1>5. n \cup CellsOf("ram", p) \in SUBSET Cell
  BY <1>1, CellsIn
<1>6. Stored(n, f) \in Knowledge /\ Stored(n \cup CellsOf("ram", p), f) \in Knowledge
  BY <1>5, KnownKnowledge
<1>7. Teaches(d, i, Stored(n, f), Stored(n \cup CellsOf("ram", p), f))
  BY <1>3, WriteTeaches
<1> QED
  BY <1>2, <1>4, <1>5, <1>6, <1>7, PassSimply

(* A driver that is blind goes on without a command that failed.              *)
LEMMA PassIgnored ==
  ASSUME NEW d, d.blind = TRUE, NEW i, Simple(i), Changes(i),
         NEW K \in Knowledge, NEW L \in Knowledge, Teaches(d, i, K, L)
  PROVE  Passes(d, <<Ignored(i)>>, K, L)
<1>1. PICK j : j = Ignored(i)
  OBVIOUS
<1>2. Plain(j, AnyKind)
  BY <1>1, IgnoredPlain DEF Simple
<1>3. Alike(i, j) /\ j.limit = 1 /\ Changes(j)
  BY <1>1 DEF Alike, Ignored, Simple, Instructions, Changes
<1>4. AfterSuccess(d.first, d.blind, i, K) = AfterSuccess(d.first, d.blind, j, K)
  BY <1>3, AlikeKnown
<1>5. KeptBy(d, j, K, L, L, K)
  BY <1>3, <1>4 DEF KeptBy, Teaches, AfterPassing
<1> QED
  BY <1>1, <1>2, <1>5, PassOne

(* A store or a burn, by a driver that is blind and by one that is not.       *)
LEMMA PassStore ==
  ASSUME NEW d, NEW p \in 0..Parts, NEW i \in {Store(p), Burn(p)},
         NEW n \in SUBSET Cell, NEW f \in SUBSET Flags, "open" \in f,
         Spends(i) => "cells" \in f, CellsOf("ram", p) \subseteq n
  PROVE  LET g == f \ Gone(i)
             L == IF d.blind THEN Stored(n \cup CellsOf("nvm", p), g)
                             ELSE Known({}, {}, CellsOf("nvm", p), {}, g)
         IN Passes(d, <<i>>, Stored(n, f), L) /\ Passes(d, <<Ask, i>>, Stored(n, f), L)
<1>1. "nvm" \in Places
  BY DEF Places, Areas, Images
<1>2. i.do \in {"store", "burn"} /\ i.at = "nvm" /\ i.part = p
  BY DEF Store, Burn, Instruction
<1>3. Simple(i)
  BY SimpleOnes
<1>4. PICK m, g : m = CellsOf("nvm", p) /\ g = f \ Gone(i)
  OBVIOUS
<1>5. m \in SUBSET Cell /\ n \cup m \in SUBSET Cell /\ g \in SUBSET Flags
  BY <1>1, <1>4, CellsIn
<1>6. PICK L : L = IF d.blind THEN Stored(n \cup m, g) ELSE Known({}, {}, m, {}, g)
  OBVIOUS
<1>7. Stored(n, f) \in Knowledge /\ L \in Knowledge
  BY <1>5, <1>6, KnownKnowledge
<1>8. Teaches(d, i, Stored(n, f), L)
  <2>1. CellsOf("ram", i.part) \subseteq n /\ i.do \in {"store", "burn"} /\ i.at = "nvm"
    BY <1>2
  <2>2. "open" \in f /\ (Spends(i) => "cells" \in f)
    OBVIOUS
  <2>3. Teaches(d, i, Stored(n, f), WhenStored(d, i, n, f))
    BY ONLY <2>1, <2>2, StoreTeaches
  <2> QED
    BY <1>2, <1>4, <1>6, <2>3 DEF WhenStored
<1>9. Passes(d, <<i>>, Stored(n, f), L) /\ Passes(d, <<Ask, i>>, Stored(n, f), L)
  BY ONLY <1>3, <1>7, <1>8, PassSimply
<1> QED
  BY <1>4, <1>6, <1>9

LEMMA PassVerdict ==
  ASSUME NEW d, NEW n \in SUBSET Cell, NEW f \in SUBSET Flags
  PROVE  LET K == Known({}, {}, n, {}, f)
         IN /\ Passes(d, <<Verdict>>, K, Stored(n, f))
            /\ Passes(d, Rounds(<<Verdict>>, Tries), K, Stored(n, f))
<1>1. PICK i, K, L : i = Verdict /\ K = Known({}, {}, n, {}, f) /\ L = Stored(n, f)
  OBVIOUS
<1>2. Simple(i) /\ i.do = "verdict"
  BY <1>1, SimpleOnes DEF Verdict, Instruction
<1>3. K \in Knowledge /\ L \in Knowledge
  BY <1>1, KnownKnowledge
<1>4. Teaches(d, i, K, L)
  <2>1. Teaches(d, i, Known({}, {}, n, {}, f), Known({} \cup n, {} \cup {}, {}, {}, f))
    BY <1>2, VerdictTeaches
  <2>2. {} \cup n = n /\ {} \cup {} = {}
    OBVIOUS
  <2> QED
    BY <1>1, <2>1, <2>2 DEF Stored
<1>5. Passes(d, <<i>>, K, L)
  BY <1>2, <1>3, <1>4, PassSimply
<1>6. Passes(d, Rounds(<<>> \o <<i>>, Tries), K, L)
  <2>1. Keeps(d, i, K) /\ ~Leaves(i)
    BY <1>2, LookKeeps DEF Simple, Looking, Leaves
  <2>2. Passes(d, <<>>, K, K)
    BY <1>3, PassEmpty
  <2> QED
    BY <1>2, <1>3, <1>4, <2>1, <2>2, TriesIn, PassRounds DEF Simple, Teaches, Keeps
<1>7. <<>> \o <<i>> = <<i>>
  OBVIOUS
<1> QED
  BY <1>1, <1>5, <1>6, <1>7

LEMMA PassFewer ==
  ASSUME NEW d, NEW b, NEW K, NEW n, NEW f, Passes(d, b, K, Stored(n, f)),
         NEW m \in SUBSET Cell, m \subseteq n, NEW g \in SUBSET Flags, g \subseteq f
  PROVE  Passes(d, b, K, Stored(m, g))
<1>1. AtMost(Stored(m, g), Stored(n, f))
  BY DEF AtMost, Stored, Known
<1>2. Stored(m, g) \in Knowledge
  BY KnownKnowledge
<1> QED
  BY <1>1, <1>2, AtMostSelf, PassWeaker

(* A loop over all parts that leaves them with the image.                     *)
UpTo(x, p, f) == Stored({x} \X (1..p), f)

LEMMA PassParts ==
  ASSUME NEW d, NEW x \in Places, NEW f \in SUBSET Flags, NEW body,
         \A p \in 1..Parts : Passes(d, body[p], UpTo(x, p - 1, f), UpTo(x, p, f))
  PROVE  Passes(d, ForEach(body), Stored({}, f), Stored(CellsOf(x, 0), f))
<1> DEFINE I == [p \in 0..Parts |-> UpTo(x, p, f)]
<1>1. I \in [0..Parts -> Knowledge]
  BY CellsIn, KnownKnowledge DEF UpTo
<1>2. \A p \in 1..Parts : p - 1 \in 0..Parts /\ p \in 0..Parts
  BY LoopAssumption
<1>3. \A p \in 1..Parts : Passes(d, body[p], I[p - 1], I[p])
  BY <1>2
<1>4. I[0] = Stored({}, f) /\ I[Parts] = Stored(CellsOf(x, 0), f)
  <2>1. 0 \in 0..Parts /\ Parts \in 0..Parts /\ 1..0 = {}
    BY LoopAssumption
  <2>2. {x} \X (1..0) = {}
    BY <2>1
  <2> QED
    BY <2>1, <2>2 DEF UpTo, CellsOf
<1> HIDE DEF I
<1>5. Passes(d, ForEach(body), I[0], I[Parts])
  BY ONLY <1>1, <1>3, PassForEach
<1> QED
  BY <1>4, <1>5

LEMMA PartMore ==
  ASSUME NEW x, NEW p \in 1..Parts
  PROVE  /\ ({x} \X (1..p - 1)) \cup CellsOf(x, p) = {x} \X (1..p)
         /\ CellsOf(x, p) \cap ({x} \X (1..p - 1)) = {}
<1>1. p # 0 /\ 1..p = (1..p - 1) \cup {p} /\ p \notin 1..p - 1
  BY LoopAssumption
<1> QED
  BY <1>1 DEF CellsOf

-----------------------------------------------------------------------------
(* A logic of the situations of the header, built like that of the outlines. *)
Secure == SUBSET {S \in Situation : Secured(S)}

(* Every situation in K is covered by one in H.                              *)
NoMore(H, K) == \A S \in K : Covers(H, S)

HeaderKept(i, K, ok, no, back) ==
  \A S \in K :
    /\ MaySucceed(i, S) => Covers(ok, HeaderSuccess(FALSE, i, S))
    /\ MayFail(i, S) =>
         /\ i.no = 0 => Secured(HeaderFailure(i, S))
         /\ i.no > 0 => Covers(no, HeaderFailure(i, S))
         /\ i.limit > 1 => Covers(back, HeaderFailure(i, S))

HeaderKeptAt(b, O, k) ==
  HeaderKept(b[k], O[k], O[k + b[k].ok], O[k + b[k].no], O[k - b[k].back])

Brings(b, K, L) ==
  /\ Body(b, AnyKind)
  /\ \E O \in [1..Len(b) + 1 -> Secure] :
       /\ NoMore(O[1], K) /\ O[Len(b) + 1] = L
       /\ \A k \in 1..Len(b) : HeaderKeptAt(b, O, k)

LEMMA CoversMore ==
  ASSUME NEW H, NEW K, NoMore(H, K), NEW S, Covers(K, S)
  PROVE  Covers(H, S)
<1>1. PICK T \in K : /\ T.header \subseteq S.header /\ T.read \subseteq S.read
                      /\ T.copied \subseteq S.copied
  BY DEF Covers
<1>2. PICK U \in H : /\ U.header \subseteq T.header /\ U.read \subseteq T.read
                      /\ U.copied \subseteq T.copied
  BY DEF NoMore, Covers
<1> QED
  BY <1>1, <1>2 DEF Covers

LEMMA NoMoreTrans ==
  ASSUME NEW K, NEW L, NEW M, NoMore(K, L), NoMore(L, M)
  PROVE  NoMore(K, M)
BY CoversMore DEF NoMore

LEMMA NoMoreSelf == \A K : NoMore(K, K)
BY DEF NoMore, Covers

LEMMA HeaderKeptWeaker ==
  ASSUME NEW i, NEW K, NEW ok, NEW no, NEW back, HeaderKept(i, K, ok, no, back),
         NEW ok2, NEW no2, NEW back2, NoMore(ok2, ok), NoMore(no2, no), NoMore(back2, back)
  PROVE  HeaderKept(i, K, ok2, no2, back2)
BY CoversMore DEF HeaderKept

LEMMA BringWeaker ==
  ASSUME NEW b, NEW K, NEW L, Brings(b, K, L),
         NEW K2, NoMore(K, K2), NEW L2 \in Secure, NoMore(L2, L)
  PROVE  Brings(b, K2, L2)
<1>1. PICK O \in [1..Len(b) + 1 -> Secure] :
           /\ NoMore(O[1], K) /\ O[Len(b) + 1] = L
           /\ \A k \in 1..Len(b) : HeaderKeptAt(b, O, k)
  BY DEF Brings
<1>2. Body(b, AnyKind) /\ Len(b) \in Nat
  BY DEF Brings, Body
<1> DEFINE P == [O EXCEPT ![Len(b) + 1] = L2]
<1>3. /\ P \in [1..Len(b) + 1 -> Secure] /\ P[Len(b) + 1] = L2
      /\ \A t \in 1..Len(b) : P[t] = O[t]
  BY <1>1, <1>2
<1> HIDE DEF P
<1>4. \A t \in 1..Len(b) + 1 : NoMore(P[t], O[t])
  BY <1>1, <1>2, <1>3, NoMoreSelf
<1>5. NoMore(P[1], K2)
  <2>1. 1 \in 1..Len(b) + 1
    BY <1>2
  <2> QED
    BY <1>1, <1>4, <2>1, NoMoreTrans
<1>6. ASSUME NEW k \in 1..Len(b) PROVE HeaderKeptAt(b, P, k)
  <2>1. PICK i \in Instructions : i = b[k] /\ Fits(i, k, Len(b))
    BY <1>2 DEF Body
  <2>2. /\ k + i.ok \in 1..Len(b) + 1 /\ k + i.no \in 1..Len(b) + 1
        /\ k - i.back \in 1..Len(b) + 1
    <3>1. Lands(i, k, Len(b), 0, k)
      BY <1>2, <2>1, Targets
    <3> QED
      BY <3>1 DEF Lands
  <2>3. HeaderKept(i, O[k], O[k + i.ok], O[k + i.no], O[k - i.back])
    BY <1>1, <2>1 DEF HeaderKeptAt
  <2>4. HeaderKept(i, O[k], P[k + i.ok], P[k + i.no], P[k - i.back])
    BY <1>4, <2>2, <2>3, HeaderKeptWeaker
  <2> QED
    BY <1>3, <2>1, <2>4 DEF HeaderKeptAt
<1> QED
  BY <1>2, <1>3, <1>5, <1>6 DEF Brings

LEMMA BringConcat ==
  ASSUME NEW a, NEW b, NEW K, NEW L, NEW M, Brings(a, K, L), Brings(b, L, M)
  PROVE  Brings(a \o b, K, M)
<1>1. PICK A \in [1..Len(a) + 1 -> Secure] :
           /\ NoMore(A[1], K) /\ A[Len(a) + 1] = L
           /\ \A k \in 1..Len(a) : HeaderKeptAt(a, A, k)
  BY DEF Brings
<1>2. PICK B \in [1..Len(b) + 1 -> Secure] :
           /\ NoMore(B[1], L) /\ B[Len(b) + 1] = M
           /\ \A k \in 1..Len(b) : HeaderKeptAt(b, B, k)
  BY DEF Brings
<1>3. Body(a, AnyKind) /\ Body(b, AnyKind) /\ a \in Seq(Instructions) /\ b \in Seq(Instructions)
  BY DEF Brings, Body
<1>4. PICK m \in Nat, n \in Nat : m = Len(a) /\ n = Len(b)
  BY <1>3
<1>5. PICK ab : ab = a \o b
  OBVIOUS
<1>6. /\ Len(ab) = m + n /\ \A k \in 1..m : ab[k] = a[k]
      /\ \A k \in m + 1..m + n : k - m \in 1..n /\ ab[k] = b[k - m]
  BY <1>3, <1>4, <1>5, Concat
<1>7. Body(ab, AnyKind)
  BY <1>3, <1>5, BodyConcat
<1> DEFINE O == [t \in 1..m + n + 1 |-> IF t <= m THEN A[t] ELSE B[t - m]]
<1>8. /\ O \in [1..m + n + 1 -> Secure]
      /\ \A t \in 1..m : O[t] = A[t]
      /\ \A t \in m + 1..m + n + 1 : O[t] = B[t - m]
  <2>1. \A t \in 1..m + n + 1 : t <= m => t \in 1..m + 1
    OBVIOUS
  <2>2. \A t \in 1..m + n + 1 : ~(t <= m) => t - m \in 1..n + 1
    OBVIOUS
  <2> QED
    BY <1>1, <1>2, <1>4, <2>1, <2>2
<1> HIDE DEF O
<1>9. \A t \in 1..m + 1 : NoMore(O[t], A[t])
  <2> TAKE t \in 1..m + 1
  <2>1. CASE t \in 1..m
    BY <1>8, <2>1, NoMoreSelf
  <2>2. CASE t = m + 1
    <3>1. t \in m + 1..m + n + 1 /\ t - m = 1
      BY <2>2
    <3> QED
      BY <1>1, <1>2, <1>4, <1>8, <2>2, <3>1
  <2> QED
    BY <2>1, <2>2
<1>10. ASSUME NEW k \in 1..m PROVE HeaderKeptAt(ab, O, k)
  <2>1. PICK i \in Instructions : i = a[k] /\ Fits(i, k, m)
    BY <1>3, <1>4 DEF Body
  <2>2. /\ k + i.ok \in 1..m + 1 /\ k + i.no \in 1..m + 1 /\ k - i.back \in 1..m + 1
    <3>1. Lands(i, k, m, 0, k)
      BY <2>1, Targets
    <3> QED
      BY <3>1 DEF Lands
  <2>3. HeaderKept(i, A[k], A[k + i.ok], A[k + i.no], A[k - i.back])
    BY <1>1, <1>4, <2>1 DEF HeaderKeptAt
  <2>4. HeaderKept(i, A[k], O[k + i.ok], O[k + i.no], O[k - i.back])
    BY <1>9, <2>2, <2>3, HeaderKeptWeaker
  <2> QED
    BY <1>6, <1>8, <2>1, <2>4 DEF HeaderKeptAt
<1>11. ASSUME NEW k \in m + 1..m + n PROVE HeaderKeptAt(ab, O, k)
  <2>1. PICK l \in 1..n : l = k - m
    OBVIOUS
  <2>2. PICK i \in Instructions : i = b[l] /\ ab[k] = i /\ Fits(i, l, n)
    BY <1>3, <1>4, <1>6, <2>1 DEF Body
  <2>3. /\ k + i.ok \in m + 1..m + n + 1 /\ (k + i.ok) - m = l + i.ok
        /\ k + i.no \in m + 1..m + n + 1 /\ (k + i.no) - m = l + i.no
        /\ k - i.back \in m + 1..m + n + 1 /\ (k - i.back) - m = l - i.back
    <3>1. k = m + l
      BY <2>1
    <3>2. Lands(i, l, n, m, k)
      BY ONLY <2>2, <3>1, l \in 1..n, m \in Nat, n \in Nat, i \in Instructions, Targets
    <3> QED
      BY <3>2 DEF Lands
  <2>4. /\ O[k] = B[l] /\ O[k + i.ok] = B[l + i.ok] /\ O[k + i.no] = B[l + i.no]
        /\ O[k - i.back] = B[l - i.back]
    <3>1. k \in m + 1..m + n + 1
      OBVIOUS
    <3> QED
      BY <1>8, <2>1, <2>3, <3>1
  <2>5. HeaderKept(i, B[l], B[l + i.ok], B[l + i.no], B[l - i.back])
    BY <1>2, <1>4, <2>2 DEF HeaderKeptAt
  <2> QED
    BY <2>2, <2>4, <2>5 DEF HeaderKeptAt
<1>12. NoMore(O[1], K)
  <2>1. 1 \in 1..m + 1
    OBVIOUS
  <2> QED
    BY <1>1, <1>9, <2>1, NoMoreTrans
<1>13. O[m + n + 1] = M
  <2>1. m + n + 1 \in m + 1..m + n + 1 /\ (m + n + 1) - m = n + 1
    OBVIOUS
  <2> QED
    BY <1>2, <1>4, <1>8, <2>1
<1>14. \A k \in 1..m + n : HeaderKeptAt(ab, O, k)
  <2> TAKE k \in 1..m + n
  <2>1. k \in 1..m \/ k \in m + 1..m + n
    OBVIOUS
  <2> QED
    BY <1>10, <1>11, <2>1
<1>15. Brings(ab, K, M)
  BY <1>6, <1>7, <1>8, <1>12, <1>13, <1>14 DEF Brings
<1> QED
  BY <1>5, <1>15

(* An instruction that leaves the header as it is.                           *)
HeaderStays(i, K) ==
  \A S \in K :
    /\ Covers(K, HeaderSuccess(FALSE, i, S))
    /\ Covers(K, HeaderFailure(i, S)) /\ Secured(HeaderFailure(i, S))

LEMMA BringKeep ==
  ASSUME NEW b, NEW D, Body(b, D), NEW K \in Secure,
         \A i \in Instructions : Kind(i) \in D => HeaderStays(i, K)
  PROVE  Brings(b, K, K)
<1>1. b \in Seq(Instructions) /\ Len(b) \in Nat /\ Body(b, AnyKind)
  <2>1. Body(b, AnyKind)
    BY AnyBody
  <2> QED
    BY <2>1 DEF Body
<1> DEFINE O == [t \in 1..Len(b) + 1 |-> K]
<1>2. O \in [1..Len(b) + 1 -> Secure] /\ \A t \in 1..Len(b) + 1 : O[t] = K
  OBVIOUS
<1> HIDE DEF O
<1>3. ASSUME NEW k \in 1..Len(b) PROVE HeaderKeptAt(b, O, k)
  <2>1. PICK i \in Instructions : i = b[k] /\ Fits(i, k, Len(b)) /\ Kind(i) \in D
    BY <1>1 DEF Body
  <2>2. Lands(i, k, Len(b), 0, k)
    BY <1>1, <2>1, Targets
  <2>3. /\ O[k] = K /\ O[k + i.ok] = K /\ O[k + i.no] = K /\ O[k - i.back] = K
    BY <1>1, <1>2, <2>2 DEF Lands
  <2>4. HeaderKept(i, K, K, K, K)
    BY <2>1 DEF HeaderStays, HeaderKept
  <2> QED
    BY <2>1, <2>3, <2>4 DEF HeaderKeptAt
<1>4. O[1] = K /\ O[Len(b) + 1] = K
  BY <1>1, <1>2
<1> QED
  BY <1>1, <1>2, <1>3, <1>4, NoMoreSelf DEF Brings

LEMMA BringEmpty ==
  ASSUME NEW K \in Secure
  PROVE  Brings(<<>>, K, K)
<1>1. Body(<<>>, {})
  BY BodyEmpty
<1>2. \A i \in Instructions : Kind(i) \in {} => HeaderStays(i, K)
  OBVIOUS
<1> QED
  BY <1>1, <1>2, BringKeep

LEMMA BringOne ==
  ASSUME NEW i, Plain(i, AnyKind), NEW K \in Secure, NEW L \in Secure,
         HeaderKept(i, K, L, L, K)
  PROVE  Brings(<<i>>, K, L)
<1>1. PICK b : b = <<i>>
  OBVIOUS
<1>2. i \in Instructions /\ i.ok = 1 /\ i.no \in {0, 1} /\ i.back = 0
  BY DEF Plain
<1>3. Body(b, AnyKind) /\ Len(b) = 1 /\ b[1] = i
  BY <1>1, <1>2, BodyOne
<1> DEFINE O == [t \in 1..2 |-> IF t = 1 THEN K ELSE L]
<1>4. O \in [1..2 -> Secure] /\ O[1] = K /\ O[2] = L
  OBVIOUS
<1> HIDE DEF O
<1>5. HeaderKeptAt(b, O, 1)
  <2>1. CASE i.no = 0
    <3>1. HeaderKept(i, K, L, K, K)
      <4>1. ~(i.no > 0)
        BY <2>1
      <4> QED
        BY <4>1 DEF HeaderKept
    <3> QED
      BY <1>2, <1>3, <1>4, <2>1, <3>1 DEF HeaderKeptAt
  <2>2. CASE i.no = 1
    BY <1>2, <1>3, <1>4, <2>2 DEF HeaderKeptAt
  <2> QED
    BY <1>2, <2>1, <2>2
<1>6. Brings(b, K, L)
  <2>1. Len(b) + 1 = 2 /\ \A k \in 1..Len(b) : k = 1
    BY <1>3
  <2> QED
    BY <1>3, <1>4, <1>5, <2>1, NoMoreSelf DEF Brings
<1> QED
  BY <1>1, <1>6

LEMMA BringForEach ==
  ASSUME NEW body, NEW I \in [0..Parts -> Secure],
         \A p \in 1..Parts : Brings(body[p], I[p - 1], I[p])
  PROVE  Brings(ForEach(body), I[0], I[Parts])
<1> DEFINE Fine == {p \in 0..Parts : Brings(Unrolled(body)[p], I[0], I[p])}
<1>1. 0 \in Fine
  <2>1. 0 \in 0..Parts
    BY LoopAssumption
  <2>2. Unrolled(body)[0] = <<>>
    BY UnrolledByPart
  <2> QED
    BY <2>1, <2>2, BringEmpty
<1>2. \A p \in Fine \cap (0..Parts - 1) : p + 1 \in Fine
  <2> TAKE p \in Fine \cap (0..Parts - 1)
  <2>1. p + 1 \in 1..Parts /\ p + 1 \in 0..Parts /\ (p + 1) - 1 = p
    BY LoopAssumption
  <2>2. Unrolled(body)[p + 1] = Unrolled(body)[p] \o body[p + 1]
    BY <2>1, UnrolledByPart
  <2>3. Brings(body[p + 1], I[p], I[p + 1])
    BY <2>1
  <2>4. Brings(Unrolled(body)[p] \o body[p + 1], I[0], I[p + 1])
    BY <2>3, BringConcat
  <2> QED
    BY <2>1, <2>2, <2>4
<1> HIDE DEF Fine
<1>3. Parts \in Fine
  BY <1>1, <1>2, LoopAssumption, Induction
<1> QED
  BY <1>3 DEF Fine, ForEach

(* Instructions that do the same do the same to the header, and those that   *)
(* neither change nor read an area do nothing to it.                         *)
LEMMA HeaderAlike ==
  ASSUME NEW i, NEW j, Alike(i, j), NEW S
  PROVE  /\ HeaderSuccess(FALSE, i, S) = HeaderSuccess(FALSE, j, S)
         /\ HeaderFailure(i, S) = HeaderFailure(j, S)
         /\ MaySucceed(i, S) = MaySucceed(j, S) /\ MayFail(i, S) = MayFail(j, S)
<1>1. Changes(i) = Changes(j) /\ Touched(i) = Touched(j)
  BY DEF Alike, Changes, Touched
<1>2. HeaderLeft(i, S) = HeaderLeft(j, S) /\ CopiesLeft(i, S) = CopiesLeft(j, S)
  BY <1>1 DEF Alike, HeaderLeft, CopiesLeft
<1>3. CopiesMade(FALSE, i, S) = CopiesMade(FALSE, j, S) /\ WhatIsRead(i, S) = WhatIsRead(j, S)
  BY <1>1 DEF Alike, CopiesMade, WhatIsRead
<1>4. MaySucceed(i, S) = MaySucceed(j, S) /\ MayFail(i, S) = MayFail(j, S)
  BY DEF Alike, MaySucceed, MayFail
<1> QED
  BY <1>2, <1>3, <1>4 DEF HeaderSuccess, HeaderFailure

LEMMA HeaderIdle ==
  ASSUME NEW i, ~Changes(i), i.do # "load", NEW S \in Situation
  PROVE  HeaderSuccess(FALSE, i, S) = S /\ HeaderFailure(i, S) = S
<1>1. HeaderLeft(i, S) = S.header /\ CopiesLeft(i, S) = S.copied /\ CopiesMade(FALSE, i, S) = {}
  BY DEF HeaderLeft, CopiesLeft, CopiesMade, Changes
<1>2. WhatIsRead(i, S) = S.read
  BY DEF WhatIsRead, Situation
<1> QED
  BY <1>1, <1>2 DEF HeaderSuccess, HeaderFailure, Situation

HeaderRound(i, M, K, L) ==
  \A S \in M : /\ Covers(L, HeaderSuccess(FALSE, i, S))
               /\ Covers(K, HeaderFailure(i, S)) /\ Secured(HeaderFailure(i, S))

LEMMA BringRounds ==
  ASSUME NEW a, NEW K, NEW M, Brings(a, K, M), NEW i, Plain(i, AnyKind), i.no = 0,
         NEW L \in Secure, HeaderRound(i, M, K, L), NEW n \in 1..Tries
  PROVE  Brings(Rounds(a \o <<i>>, n), K, L)
<1>1. PICK A \in [1..Len(a) + 1 -> Secure] :
           /\ NoMore(A[1], K) /\ A[Len(a) + 1] = M
           /\ \A k \in 1..Len(a) : HeaderKeptAt(a, A, k)
  BY DEF Brings
<1>2. Body(a, AnyKind) /\ a \in Seq(Instructions)
  BY DEF Brings, Body
<1>3. PICK m \in Nat : m = Len(a)
  BY <1>2
<1>4. Body(<<i>>, AnyKind) /\ <<i>> \in Seq(Instructions) /\ Len(<<i>>) = 1 /\ i \in Instructions
  BY BodyOne DEF Body, Plain
<1>5. PICK ai : ai = a \o <<i>>
  OBVIOUS
<1>6. /\ Body(ai, AnyKind) /\ Len(ai) = m + 1 /\ ai[m + 1] = i
      /\ \A k \in 1..m : ai[k] = a[k]
  <2>1. /\ Len(a \o <<i>>) = Len(a) + Len(<<i>>)
        /\ \A k \in 1..Len(a) : (a \o <<i>>)[k] = a[k]
        /\ \A k \in Len(a) + 1..Len(a) + Len(<<i>>) : (a \o <<i>>)[k] = <<i>>[k - Len(a)]
    BY <1>2, <1>4, Concat
  <2>2. m + 1 \in m + 1..m + 1 /\ (m + 1) - m = 1
    OBVIOUS
  <2> QED
    BY <1>2, <1>3, <1>4, <1>5, <2>1, <2>2, BodyConcat
<1>7. PICK c : c = Rounds(ai, n)
  OBVIOUS
<1>8. Body(c, AnyKind)
  BY <1>6, <1>7, BodyRounds
<1>9. /\ c = [k \in 1..m + 1 |-> IF k = m + 1 THEN [ai[k] EXCEPT !.back = k - 1, !.limit = n]
                                 ELSE [ai[k] EXCEPT !.keep = TRUE]]
  BY <1>6, <1>7 DEF Rounds
<1>10. Len(c) = m + 1
  <2>1. DOMAIN c = 1..m + 1
    BY <1>9
  <2>2. c \in Seq(Instructions)
    BY <1>8 DEF Body
  <2> QED
    BY <2>1, <2>2
<1> DEFINE O == [t \in 1..m + 2 |-> IF t = m + 2 THEN L ELSE A[t]]
<1>11. /\ O \in [1..m + 2 -> Secure] /\ O[m + 2] = L
       /\ \A t \in 1..m + 1 : O[t] = A[t]
  BY <1>1, <1>3
<1> HIDE DEF O
<1>12. ASSUME NEW k \in 1..m PROVE HeaderKeptAt(c, O, k)
  <2>1. PICK h \in Instructions : h = a[k] /\ Fits(h, k, m)
    BY <1>2, <1>3 DEF Body
  <2>2. k \in 1..m + 1 /\ k # m + 1
    OBVIOUS
  <2>3. c[k] = [h EXCEPT !.keep = TRUE]
    BY <1>6, <1>9, <2>1, <2>2
  <2>4. PICK j : j = c[k]
    OBVIOUS
  <2>5. /\ j.do = h.do /\ j.at = h.at /\ j.part = h.part /\ j.ok = h.ok /\ j.no = h.no
        /\ j.limit = h.limit /\ j.back = h.back
    BY <2>1, <2>3, <2>4 DEF Instructions
  <2>6. Lands(h, k, m, 0, k)
    BY <2>1, Targets
  <2>7. O[k] = A[k] /\ O[k + h.ok] = A[k + h.ok] /\ O[k + h.no] = A[k + h.no]
        /\ O[k - h.back] = A[k - h.back]
    BY <1>11, <2>6 DEF Lands
  <2>8. HeaderKept(h, O[k], O[k + h.ok], O[k + h.no], O[k - h.back])
    BY <1>1, <1>3, <2>1, <2>7 DEF HeaderKeptAt
  <2>9. HeaderKept(j, O[k], O[k + h.ok], O[k + h.no], O[k - h.back])
    BY <2>5, <2>8, HeaderAlike DEF Alike, HeaderKept
  <2> QED
    BY <2>4, <2>5, <2>9 DEF HeaderKeptAt
<1>13. HeaderKeptAt(c, O, m + 1)
  <2>1. m + 1 \in 1..m + 1
    OBVIOUS
  <2>2. c[m + 1] = [i EXCEPT !.back = (m + 1) - 1, !.limit = n]
    BY <1>6, <1>9, <2>1
  <2>3. PICK j : j = c[m + 1]
    OBVIOUS
  <2>4. j.do = i.do /\ j.at = i.at /\ j.part = i.part /\ j.ok = 1 /\ j.no = 0 /\ j.back = m
    BY <1>4, <2>2, <2>3 DEF Instructions, Plain
  <2>5. /\ (m + 1) + j.ok = m + 2 /\ (m + 1) - j.back = 1 /\ 1 \in 1..m + 1
    BY <2>4
  <2>6. O[m + 1] = M /\ NoMore(O[1], K)
    BY <1>1, <1>3, <1>11, <2>1, <2>5
  <2>7. HeaderRound(j, M, K, L)
    BY <2>4, HeaderAlike DEF HeaderRound, Alike
  <2>8. HeaderRound(j, M, O[1], L)
    BY <2>6, <2>7, CoversMore DEF HeaderRound
  <2>9. HeaderKept(j, M, L, O[(m + 1) + j.no], O[1])
    <3>1. ~(j.no > 0)
      BY <2>4
    <3> QED
      BY <2>8, <3>1 DEF HeaderKept, HeaderRound
  <2> QED
    BY <1>11, <2>3, <2>5, <2>6, <2>9 DEF HeaderKeptAt
<1>14. \A k \in 1..m + 1 : HeaderKeptAt(c, O, k)
  <2> TAKE k \in 1..m + 1
  <2>1. k \in 1..m \/ k = m + 1
    OBVIOUS
  <2> QED
    BY <1>12, <1>13, <2>1
<1>15. NoMore(O[1], K)
  BY <1>1, <1>11
<1>16. Brings(c, K, L)
  <2>1. (m + 1) + 1 = m + 2
    OBVIOUS
  <2> QED
    BY <1>8, <1>10, <1>11, <1>14, <1>15, <2>1 DEF Brings
<1> QED
  BY <1>5, <1>7, <1>16

LEMMA BringGuarded ==
  ASSUME NEW a, NEW M, NEW L, Brings(a, M, L), NEW K \in Secure,
         \A S \in K : /\ "blank" \notin S.read => Covers(M, S)
                      /\ "header" \notin S.read => Covers(L, S)
  PROVE  Brings(Guarded(IfHeader, a), K, L)
<1>1. PICK A \in [1..Len(a) + 1 -> Secure] :
           /\ NoMore(A[1], M) /\ A[Len(a) + 1] = L
           /\ \A k \in 1..Len(a) : HeaderKeptAt(a, A, k)
  BY DEF Brings
<1>2. Body(a, AnyKind) /\ a \in Seq(Instructions)
  BY DEF Brings, Body
<1>3. PICK m \in Nat : m = Len(a)
  BY <1>2
<1>4. PICK c : c = Guarded(IfHeader, a)
  OBVIOUS
<1>5. Body(c, AnyKind)
  <2>1. Plain(IfHeader, Works({}))
    BY WorksPlain
  <2>2. Plain(IfHeader, AnyKind)
    BY <2>1, InstructionType DEF Plain, Kind, AnyKind
  <2> QED
    BY <1>2, <1>4, <2>2, BodyGuarded
<1>6. PICK j : j = [IfHeader EXCEPT !.no = m + 1]
  OBVIOUS
<1>7. /\ j \in Instructions /\ j.do = "ifHeader" /\ j.ok = 1
  <2>1. "ifHeader" \in Deeds /\ "none" \in Subjects /\ m + 1 \in Nat /\ 1 \in 1..Tries /\ 1 \in Nat \ {0}
    BY LoopAssumption DEF Deeds, Subjects
  <2> QED
    BY <1>6, <2>1 DEF IfHeader, Instruction, Instructions
<1>8. /\ Len(c) = m + 1 /\ c[1] = j
      /\ \A k \in 2..m + 1 : k - 1 \in 1..m /\ c[k] = a[k - 1]
  <2>1. c = <<j>> \o a
    BY <1>3, <1>4, <1>6 DEF Guarded
  <2>2. <<j>> \in Seq(Instructions) /\ Len(<<j>>) = 1 /\ <<j>>[1] = j
    BY <1>7
  <2>3. /\ Len(<<j>> \o a) = Len(<<j>>) + Len(a)
        /\ \A k \in 1..Len(<<j>>) : (<<j>> \o a)[k] = <<j>>[k]
        /\ \A k \in Len(<<j>>) + 1..Len(<<j>>) + Len(a) :
             k - Len(<<j>>) \in 1..Len(a) /\ (<<j>> \o a)[k] = a[k - Len(<<j>>)]
    BY <1>2, <2>2, Concat
  <2> QED
    BY <1>3, <2>1, <2>2, <2>3
<1> DEFINE O == [t \in 1..m + 2 |-> IF t = 1 THEN K ELSE A[t - 1]]
<1>9. /\ O \in [1..m + 2 -> Secure] /\ O[1] = K
      /\ \A t \in 2..m + 2 : O[t] = A[t - 1]
  BY <1>1, <1>3
<1> HIDE DEF O
<1>10. HeaderKeptAt(c, O, 1)
  <2>1. /\ O[1 + j.ok] = A[1] /\ O[1] = K /\ O[1 + j.no] = L /\ j.no > 0 /\ ~(j.limit > 1)
    <3>1. j.no = m + 1 /\ j.limit = 1 /\ j.ok = 1
      BY <1>6, <1>7 DEF IfHeader, Instruction
    <3>2. 1 + 1 = 2 /\ 2 - 1 = 1 /\ 1 + (m + 1) = m + 2 /\ (m + 2) - 1 = m + 1
          /\ 2 \in 2..m + 2 /\ m + 2 \in 2..m + 2 /\ m + 1 > 0
      OBVIOUS
    <3> QED
      BY <1>1, <1>3, <1>9, <3>1, <3>2
  <2>2. ASSUME NEW S \in K
        PROVE  /\ MaySucceed(j, S) => Covers(A[1], HeaderSuccess(FALSE, j, S))
               /\ MayFail(j, S) => Covers(L, HeaderFailure(j, S))
    <3>1. HeaderSuccess(FALSE, j, S) = S /\ HeaderFailure(j, S) = S
      BY <1>7, HeaderIdle DEF Changes, Secure
    <3>2. Covers(M, S) => Covers(A[1], S)
      BY <1>1, CoversMore
    <3>3. /\ MaySucceed(j, S) => "blank" \notin S.read
          /\ MayFail(j, S) => "header" \notin S.read
      BY <1>7 DEF MaySucceed, MayFail
    <3>4. /\ "blank" \notin S.read => Covers(M, S)
          /\ "header" \notin S.read => Covers(L, S)
      OBVIOUS
    <3> QED
      BY <3>1, <3>2, <3>3, <3>4
  <2>3. j.no # 0
    BY <2>1
  <2>4. HeaderKept(j, K, A[1], L, O[1 - j.back])
    BY <2>1, <2>2, <2>3 DEF HeaderKept
  <2> QED
    BY <1>8, <2>1, <2>4 DEF HeaderKeptAt
<1>11. ASSUME NEW k \in 2..m + 1 PROVE HeaderKeptAt(c, O, k)
  <2>1. PICK l \in 1..m : l = k - 1 /\ k = 1 + l
    OBVIOUS
  <2>2. PICK i \in Instructions : i = a[l] /\ c[k] = i /\ Fits(i, l, m)
    BY <1>2, <1>3, <1>8, <2>1 DEF Body
  <2>3. Lands(i, l, m, 1, k)
    BY ONLY <2>1, <2>2, 1 \in Nat, m \in Nat, l \in 1..m, Targets
  <2>4. /\ O[k] = A[l] /\ O[k + i.ok] = A[l + i.ok] /\ O[k + i.no] = A[l + i.no]
        /\ O[k - i.back] = A[l - i.back]
    <3>1. (\A t : t \in 1 + 1..1 + m + 1 => t \in 2..m + 2) /\ k \in 2..m + 2
      OBVIOUS
    <3>2. /\ k + i.ok \in 2..m + 2 /\ (k + i.ok) - 1 = l + i.ok
          /\ k + i.no \in 2..m + 2 /\ (k + i.no) - 1 = l + i.no
          /\ k - i.back \in 2..m + 2 /\ (k - i.back) - 1 = l - i.back
      BY <2>3, <3>1 DEF Lands
    <3>3. \A t \in 2..m + 2 : O[t] = A[t - 1]
      BY <1>9
    <3>4. O[k] = A[l]
      BY <2>1, <3>1, <3>3
    <3>5. PICK ok \in 2..m + 2, no \in 2..m + 2, back \in 2..m + 2 :
               ok = k + i.ok /\ no = k + i.no /\ back = k - i.back
      BY <3>2
    <3>6. O[ok] = A[ok - 1] /\ O[no] = A[no - 1] /\ O[back] = A[back - 1]
      BY <3>3
    <3> QED
      BY ONLY <3>2, <3>4, <3>5, <3>6
  <2>5. HeaderKept(i, A[l], A[l + i.ok], A[l + i.no], A[l - i.back])
    BY <1>1, <1>3, <2>2 DEF HeaderKeptAt
  <2> QED
    BY <2>2, <2>4, <2>5 DEF HeaderKeptAt
<1>12. \A k \in 1..m + 1 : HeaderKeptAt(c, O, k)
  <2> TAKE k \in 1..m + 1
  <2>1. k = 1 \/ k \in 2..m + 1
    OBVIOUS
  <2> QED
    BY <1>10, <1>11, <2>1
<1>13. O[m + 2] = L
  <2>1. m + 2 \in 2..m + 2 /\ (m + 2) - 1 = m + 1
    OBVIOUS
  <2> QED
    BY <1>1, <1>3, <1>9, <2>1
<1>14. Brings(c, K, L)
  <2>1. (m + 1) + 1 = m + 2
    OBVIOUS
  <2> QED
    BY <1>5, <1>8, <1>9, <1>12, <1>13, <2>1, NoMoreSelf DEF Brings
<1> QED
  BY <1>4, <1>14

-----------------------------------------------------------------------------
LEMMA LookingPlain ==
  /\ Plain(Ask, Looking \X Subjects) /\ Plain(Verdict, Looking \X Subjects)
  /\ Plain(SetPrimary, Looking \X Subjects)
  /\ \A x \in Subjects : Plain(Check(x), Looking \X Subjects) /\ Plain(Match(x), Looking \X Subjects)
  /\ \A x \in Subjects, p \in 0..Parts : Plain(Compare(x, p), Looking \X Subjects)
<1>1. ASSUME NEW do \in Deeds \cap Looking, NEW at \in Subjects, NEW p \in 0..Parts
      PROVE  Plain(Instruction(do, at, p), Looking \X Subjects)
  <2>1. p \in Nat /\ p <= Parts
    BY LoopAssumption
  <2> QED
    BY <2>1, InstructionPlain
<1>2. {"ask", "verdict", "primary", "check", "match", "compare"} \subseteq Deeds \cap Looking
      /\ "none" \in Subjects /\ 0 \in 0..Parts
  BY TriesIn DEF Deeds, Looking, Subjects
<1> QED
  BY <1>1, <1>2 DEF Ask, Verdict, SetPrimary, Check, Match, Compare

(* Chips of which the flash is read back.                                      *)
LEMMA FlashOutlined ==
  ASSUME NEW code, NEW A \in {{"flash"}, {"flash", "header", "backup"}},
         NEW G, G \subseteq {<<"match", "wrongDevice">>}, Split(code, Looks, Works(A) \cup G, G),
         Passes(DriverAs(code, FALSE), code, Nothing, Stored(CellsOf("flash", 0), {}))
  PROVE  Outlined(code, FALSE)
<1>1. (A \cap {"flash", "nvm", "page2"}) \X (1..Parts) \subseteq CellsOf("flash", 0)
  BY DEF CellsOf
<1>2. Passes(DriverAs(code, FALSE), code, AtFirst(code), Stored(CellsOf("flash", 0), {}))
  BY FromNothing
<1>3. Works(A) \subseteq Works(A) \cup {<<"unlock", "none">>}
      /\ A \in {{"ram", "nvm"}, {"ram", "nvm", "page2"}, {"flash"}, {"flash", "header", "backup"}}
  OBVIOUS
<1> QED
  BY ONLY <1>1, <1>2, <1>3, MemoryOutlined, G \subseteq {<<"match", "wrongDevice">>},
          Split(code, Looks, Works(A) \cup G, G)

LEMMA FlashOnly ==
  ASSUME NEW code, Split(code, Looks, Works({"flash"}), {}),
         Passes(DriverAs(code, FALSE), code, Nothing, Stored(CellsOf("flash", 0), {}))
  PROVE  Split(code, Looks, Works({"flash"}), {}) /\ Outlined(code, FALSE)
<1>1. PICK A, G : A = {"flash"} /\ G = {}
  OBVIOUS
<1>2. /\ G \subseteq {<<"match", "wrongDevice">>} /\ Works(A) \cup G = Works(A)
      /\ A \in {{"flash"}, {"flash", "header", "backup"}}
  BY <1>1
<1>3. Split(code, Looks, Works(A) \cup G, G)
  BY <1>1, <1>2
<1>4. Outlined(code, FALSE)
  BY ONLY <1>2, <1>3, FlashOutlined,
          Passes(DriverAs(code, FALSE), code, Nothing, Stored(CellsOf("flash", 0), {}))
<1> QED
  BY <1>4

LEMMA FlashIs ==
  /\ "flash" \in Places /\ {} \in SUBSET Flags /\ {} \in SUBSET Cell
  /\ CellsOf("flash", 0) \in SUBSET Cell
  /\ Stored(CellsOf("flash", 0), {}) \in Knowledge /\ Stored({}, {}) = Nothing
  /\ \A p \in 1..Parts : /\ p \in 0..Parts /\ p - 1 \in 0..Parts
                         /\ {"flash"} \X (1..p - 1) \in SUBSET Cell
                         /\ UpTo("flash", p - 1, {}) \in Knowledge
                         /\ UpTo("flash", p, {}) \in Knowledge
<1>1. "flash" \in Places /\ {} \in SUBSET Flags
  BY DEF Places, Areas, Images
<1>2. 0 \in 0..Parts /\ \A p \in 1..Parts : p \in 0..Parts /\ p - 1 \in 0..Parts
  BY LoopAssumption
<1>3. \A p \in 0..Parts : {"flash"} \X (1..p) \in SUBSET Cell
  BY <1>1, CellsIn
<1>4. \A p \in 0..Parts : UpTo("flash", p, {}) \in Knowledge
  BY <1>1, <1>3, KnownKnowledge DEF UpTo
<1>5. CellsOf("flash", 0) \in SUBSET Cell
  BY <1>1, <1>2, CellsIn
<1> QED
  BY <1>1, <1>2, <1>3, <1>4, <1>5, KnownKnowledge DEF Nothing

LEMMA XO3Fine == Split(XO3, Looks, Works({"flash"}), {}) /\ Outlined(XO3, FALSE)
<1> DEFINE W == Works({"flash"})
<1>1. "flash" \in Subjects
  BY SubjectsListed
<1>2. Body(PrepareUpdate, Looks)
  BY SubjectsListed, LooksPlain, BodyOne, BodyConcat
     DEF PrepareUpdate, ReadDeviceId, JedFileParser, VerifyChecksum
<1> USE WorksPlain, BodyOne, BodyConcat
<1>3. Body(<<Ask>>, W) /\ Body(WaitBusyAndVerify, W)
  BY <1>1 DEF WaitBusyAndVerify, StaysBusy, ReadStatusReg
<1>4. Body(DoErase, W)
  BY <1>1, <1>3, BodyOptional, TriesIn
     DEF DoErase, EnableProgramMode, EraseFlash, ResetConfigFlash
<1>5. ASSUME NEW p \in 1..Parts
      PROVE  Body(Attempts(ProgramSinglePage(p) \o VerifySinglePage(p), Tries), W)
  <2>1. p \in 0..Parts /\ Tries \in 1..Tries
    BY TriesIn
  <2>2. Body(<<Ask, Write("flash", p)>>, W) /\ Body(<<Ask, Compare("flash", p)>>, W)
    BY <1>1, <2>1, BodyTwo
  <2> QED
    BY <1>3, <2>1, <2>2, BodyAttempts DEF ProgramSinglePage, VerifySinglePage
<1>6. Body(WriteProgramPage, W)
  <2> DEFINE page == [p \in 1..Parts |->
                 Attempts(ProgramSinglePage(p) \o VerifySinglePage(p), Tries)]
  <2>1. \A p \in 1..Parts : Body(page[p], W)
    BY <1>5
  <2> HIDE DEF page
  <2>2. Body(ForEach(page), W)
    BY <2>1, BodyForEach
  <2>3. Body(Guarded(IfData, ForEach(page)), W)
    BY <1>1, <2>2, BodyGuarded
  <2> QED
    BY <1>3, <2>3 DEF WriteProgramPage, page
<1>7. Body(DoUpdate, W) /\ Body(FinishUpdate, W)
  BY <1>3, <1>6 DEF DoUpdate, ProgramUserCode, ProgramDone, FinishUpdate, DisableConfigInterface
<1>8. Split(XO3, Looks, Works({"flash"}), {})
  BY <1>2, <1>4, <1>7, LatticeSplit DEF XO3
<1> DEFINE d == DriverAs(XO3, FALSE)
           L == Stored(CellsOf("flash", 0), {})
<1> HIDE DEF d, W
<1>9. ASSUME NEW p \in 1..Parts
      PROVE  Passes(d, Attempts(ProgramSinglePage(p) \o VerifySinglePage(p), Tries),
                    UpTo("flash", p - 1, {}), UpTo("flash", p, {}))
  <2>1. PICK K, M, n : /\ K = UpTo("flash", p - 1, {}) /\ M = UpTo("flash", p, {})
                       /\ n = {"flash"} \X (1..p - 1)
    OBVIOUS
  <2>2. K = Stored(n, {}) /\ K \in Knowledge /\ M \in Knowledge /\ n \in SUBSET Cell
    BY <2>1, FlashIs DEF UpTo
  <2>3. PICK ask, status, write, compare :
             ask = Ask /\ status = Verdict /\ write = Write("flash", p) /\ compare = Compare("flash", p)
    OBVIOUS
  <2>4. /\ Simple(ask) /\ Simple(status) /\ Simple(write) /\ Simple(compare)
        /\ ask \in Instructions /\ write \in Instructions /\ compare \in Instructions
    BY <2>3, FlashIs, SimpleOnes DEF Simple
  <2>5. Keeps(d, ask, K) /\ Keeps(d, status, K) /\ Keeps(d, compare, K)
    <3>1. ask.do \in Looking /\ status.do \in Looking /\ compare.do \in Looking
      BY <2>3 DEF Ask, Verdict, Compare, Instruction, Looking
    <3> QED
      BY <2>4, <3>1, LookKeeps DEF Simple
  <2>6. Keeps(d, write, K)
    <3>1. write.do = "write" /\ write.at = "flash" /\ write.part = p
      BY <2>3 DEF Write, Instruction
    <3>2. Named(write) \cap n = {} /\ Changes(write)
      BY <2>1, <3>1, CellsIn, PartMore DEF Changes
    <3> QED
      BY <2>2, <2>4, <3>1, <3>2, WorkKeeps
  <2>7. /\ Steady(d, <<ask>>, K) /\ Steady(d, <<status>>, K) /\ Steady(d, <<write>>, K)
    BY <2>4, <2>5, <2>6, SteadyOne
  <2>8. Steady(d, <<ask, write>>, K)
    BY <2>4, <2>7, Pair, SteadyConcat
  <2>9. PICK a : a = ProgramSinglePage(p)
    OBVIOUS
  <2>10. Steady(d, a, K)
    BY <2>3, <2>7, <2>8, <2>9, SteadyConcat
       DEF ProgramSinglePage, WaitBusyAndVerify, StaysBusy, ReadStatusReg
  <2>11. Steady(d, a \o <<ask>>, K)
    BY <2>7, <2>10, SteadyConcat
  <2>12. a \o VerifySinglePage(p) = (a \o <<ask>>) \o <<compare>>
    <3>1. VerifySinglePage(p) = <<ask>> \o <<compare>>
      BY <2>3, <2>4, Pair DEF VerifySinglePage
    <3>2. a \in Seq(Instructions) /\ <<ask>> \in Seq(Instructions) /\ <<compare>> \in Seq(Instructions)
      BY <2>4, <2>10 DEF Steady, Body
    <3> QED
      BY <3>1, <3>2, ConcatAssociative
  <2>13. Teaches(d, compare, K, M)
    <3>1. compare.do = "compare" /\ compare.at = "flash" /\ compare.part = p
      BY <2>3 DEF Compare, Instruction
    <3>2. n \cup CellsOf("flash", p) = {"flash"} \X (1..p)
      BY <2>1, PartMore
    <3>3. Teaches(d, compare, Stored(n, {}), Stored(n \cup CellsOf(compare.at, compare.part), {}))
      BY <3>1, CompareTeaches
    <3> QED
      BY <2>1, <2>2, <3>1, <3>2, <3>3 DEF UpTo
  <2>14. Passes(d, Attempts((a \o <<ask>>) \o <<compare>>, Tries), K, M)
    <3>1. PICK b : b = a \o <<ask>>
      OBVIOUS
    <3>2. /\ Body(b, AnyKind) /\ Straight(b) /\ \A k \in 1..Len(b) : Keeps(d, b[k], K)
      BY <2>11, <3>1 DEF Steady
    <3>3. AtMost(M, AfterSuccess(d.first, d.blind, compare, K))
          /\ AtMost(K, AfterFailure(compare, K)) /\ Plain(compare, AnyKind) /\ compare.no = 0
      <4>1. ~Leaves(compare)
        BY <2>3 DEF Leaves, Compare, Instruction
      <4> QED
        BY <2>4, <2>5, <2>13, <4>1 DEF Teaches, Keeps, Simple
    <3> QED
      BY ONLY <2>2, <3>1, <3>2, <3>3, TriesIn, PassAttempts
  <2> QED
    BY <2>1, <2>9, <2>12, <2>14
<1>10. Passes(d, Guarded(IfData, ForEach([p \in 1..Parts |->
                   Attempts(ProgramSinglePage(p) \o VerifySinglePage(p), Tries)])), Nothing, L)
  <2> DEFINE page == [p \in 1..Parts |->
                 Attempts(ProgramSinglePage(p) \o VerifySinglePage(p), Tries)]
  <2>1. \A p \in 1..Parts : Passes(d, page[p], UpTo("flash", p - 1, {}), UpTo("flash", p, {}))
    BY <1>9
  <2> HIDE DEF page
  <2>2. Passes(d, ForEach(page), Stored({}, {}), L)
    BY ONLY <2>1, FlashIs, PassParts
  <2>3. Passes(d, Guarded(IfData, ForEach(page)), Nothing, L)
    <3>1. PICK b : b = ForEach(page)
      OBVIOUS
    <3>2. Passes(d, b, Nothing, L)
      BY ONLY <2>2, <3>1, FlashIs
    <3> QED
      BY ONLY <3>1, <3>2, KnownKnowledge, PassGuarded
  <2> QED
    BY <2>3 DEF page
<1>11. \A b : Body(b, Looking \X Subjects) => Passes(d, b, L, L)
  BY FlashIs, PassLook
<1>12. /\ Body(WaitBusyAndVerify, Looking \X Subjects) /\ Body(<<Ask>>, Looking \X Subjects)
  BY LookingPlain DEF WaitBusyAndVerify, StaysBusy, ReadStatusReg
<1>13. /\ Passes(d, WaitBusyAndVerify, L, L) /\ Passes(d, <<Ask>>, L, L)
       /\ Passes(d, FinishUpdate, L, L)
  BY <1>11, <1>12 DEF FinishUpdate, DisableConfigInterface
<1>15. Passes(d, WriteProgramPage, Nothing, L)
  BY <1>10, <1>13, PassConcat DEF WriteProgramPage
<1>16. Passes(d, ProgramUserCode, L, L) /\ Passes(d, ProgramDone, L, L)
  BY <1>13, PassConcat DEF ProgramUserCode, ProgramDone
<1>17. Passes(d, DoUpdate, Nothing, L)
  BY <1>15, <1>16, PassConcat DEF DoUpdate
<1>14. Passes(d, XO3, Nothing, L)
  BY <1>2, <1>4, <1>13, <1>17, PassLattice DEF XO3
<1> QED
  BY ONLY <1>8, <1>14, FlashOnly DEF d, L

LEMMA XO5StandardFine == Split(XO5Standard, Looks, Works({"flash"}), {}) /\ Outlined(XO5Standard, FALSE)
<1> DEFINE W == Works({"flash"})
<1>1. "flash" \in Subjects
  BY SubjectsListed
<1>2. Body(StdPrepareUpdate, Looks)
  BY SubjectsListed, LooksPlain, BodyOne, BodyConcat
     DEF StdPrepareUpdate, JedFileParser, WaitUntilReady, CheckDeviceReady
<1>3. \A p \in 0..Parts : /\ Plain(Ask, W) /\ Plain(Erase("flash", p), W) /\ Plain(IfData, W)
                          /\ Plain(Write("flash", p), W) /\ Plain(Compare("flash", p), W)
  BY <1>1, WorksPlain
<1> HIDE DEF W
<1> USE BodyOne, BodyConcat, TriesIn
<1>4. Body(StdEraseCfg, W)
  <2> DEFINE block == [p \in 1..Parts |-> <<Erase("flash", p)>> \o WaitUntilReady]
  <2>1. \A p \in 1..Parts : Body(block[p], W)
    BY <1>3 DEF WaitUntilReady, CheckDeviceReady
  <2> HIDE DEF block
  <2> QED
    BY <2>1, BodyForEach DEF StdEraseCfg, block
<1>5. ASSUME NEW p \in 1..Parts
      PROVE  Body(<<StdProgramPage(p), [Ignored(Ask) EXCEPT !.ok = 2, !.no = 2], Ask>>, W)
  <2>1. PICK write, ask : write = Write("flash", p) /\ ask = Ask
    OBVIOUS
  <2>2. Plain(write, W) /\ Plain(ask, W)
    BY <1>3, <2>1
  <2>3. write \in Instructions /\ ask \in Instructions
    BY <2>2 DEF Plain
  <2>4. PICK i, j : i = Leading(write, 1, 2) /\ j = Leading(ask, 2, 2)
    OBVIOUS
  <2>5. i = StdProgramPage(p) /\ j = [Ignored(Ask) EXCEPT !.ok = 2, !.no = 2]
    <3>1. write.ok = 1
      BY <2>2 DEF Plain
    <3>2. i = [write EXCEPT !.no = 2] /\ j = [[ask EXCEPT !.no = 1] EXCEPT !.ok = 2, !.no = 2]
      BY <2>3, <2>4, <3>1 DEF Instructions, Leading
    <3> QED
      BY <2>1, <3>2 DEF StdProgramPage, Ignored
  <2>6. /\ i \in Instructions /\ i.ok = 1 /\ i.no = 2 /\ i.back = write.back
        /\ i.part = write.part /\ i.do = write.do /\ Kind(i) = Kind(write)
        /\ j \in Instructions /\ j.ok = 2 /\ j.no = 2 /\ j.back = ask.back
        /\ j.part = ask.part /\ j.do = ask.do /\ Kind(j) = Kind(ask)
    <3>1. 1 \in Nat \ {0} /\ 2 \in Nat \ {0} /\ 2 \in Nat
      OBVIOUS
    <3>2. Leads(write, 1, 2, i)
      BY ONLY <2>3, <2>4, <3>1, LeadingLeads
    <3>3. Leads(ask, 2, 2, j)
      BY ONLY <2>3, <2>4, <3>1, LeadingLeads
    <3> QED
      BY <3>2, <3>3 DEF Leads
  <2>7. /\ Fits(i, 1, 3) /\ Fits(j, 2, 3) /\ Fits(ask, 3, 3)
        /\ Kind(i) \in W /\ Kind(j) \in W /\ Kind(ask) \in W
    BY <2>2, <2>6 DEF Plain, Fits
  <2>8. Body(<<i, j, ask>>, W)
    BY ONLY <2>3, <2>6, <2>7, BodyThree
  <2> QED
    BY <2>1, <2>5, <2>8
<1>6. Body(XO5DoUpdate(StdProgramCfg), W)
  <2> DEFINE page == [p \in 1..Parts |->
                 <<StdProgramPage(p), [Ignored(Ask) EXCEPT !.ok = 2, !.no = 2], Ask>>]
  <2>1. \A p \in 1..Parts : Body(page[p], W)
    BY <1>5
  <2> HIDE DEF page
  <2>2. Body(Guarded(IfData, ForEach(page)), W)
    BY <1>3, <2>1, BodyForEach, BodyGuarded
  <2> QED
    BY <2>2 DEF XO5DoUpdate, StdProgramCfg, page
<1>7. Body(StdFinishUpdate, W)
  <2> DEFINE page == [p \in 1..Parts |-> StdReadPage(p)]
  <2>1. \A p \in 1..Parts : Body(page[p], W)
    BY <1>3 DEF StdReadPage, WaitUntilReady, CheckDeviceReady
  <2> HIDE DEF page
  <2>2. Body(Guarded(IfData, ForEach(page)), W)
    BY <1>3, <2>1, BodyForEach, BodyGuarded
  <2>3. Body(<<Ask>>, W)
    BY <1>3
  <2> QED
    BY <2>2, <2>3 DEF StdFinishUpdate, StdVerifyCfg, StdProgramDone, page
<1>8. Split(XO5Standard, Looks, Works({"flash"}), {})
  BY <1>2, <1>4, <1>6, <1>7, LatticeSplit DEF XO5Standard, StdDoErase, W
<1> DEFINE d == DriverAs(XO5Standard, FALSE)
           L == Stored(CellsOf("flash", 0), {})
<1> HIDE DEF d
<1>9. ASSUME NEW p \in 1..Parts
      PROVE  Passes(d, StdReadPage(p), UpTo("flash", p - 1, {}), UpTo("flash", p, {}))
  <2>1. PICK n : n = {"flash"} \X (1..p - 1)
    OBVIOUS
  <2>2. n \cup CellsOf("flash", p) = {"flash"} \X (1..p)
    BY <2>1, PartMore
  <2>3. Passes(d, <<Compare("flash", p)>>, Stored(n, {}), Stored(n \cup CellsOf("flash", p), {}))
    BY <2>1, FlashIs, PassCompare
  <2>4. Passes(d, <<Ask>>, Stored(n, {}), Stored(n, {}))
    BY <2>1, FlashIs, KnownKnowledge, TwoLooks
  <2>5. Passes(d, StdReadPage(p), Stored(n, {}), Stored(n \cup CellsOf("flash", p), {}))
    BY <2>3, <2>4, PassConcat DEF StdReadPage, WaitUntilReady, CheckDeviceReady
  <2> QED
    BY <2>1, <2>2, <2>5 DEF UpTo
<1>10. Passes(d, StdFinishUpdate, Nothing, L)
  <2> DEFINE page == [p \in 1..Parts |-> StdReadPage(p)]
  <2>1. \A p \in 1..Parts : Passes(d, page[p], UpTo("flash", p - 1, {}), UpTo("flash", p, {}))
    BY <1>9
  <2> HIDE DEF page
  <2>2. Passes(d, ForEach(page), Stored({}, {}), L)
    BY ONLY <2>1, FlashIs, PassParts
  <2>3. Passes(d, Guarded(IfData, ForEach(page)), Nothing, L)
    <3>1. PICK b : b = ForEach(page)
      OBVIOUS
    <3>2. Passes(d, b, Nothing, L)
      BY ONLY <2>2, <3>1, FlashIs
    <3> QED
      BY ONLY <3>1, <3>2, KnownKnowledge, PassGuarded
  <2>4. Passes(d, <<Ask>>, L, L)
    BY FlashIs, TwoLooks
  <2> QED
    BY <2>3, <2>4, PassConcat DEF StdFinishUpdate, StdVerifyCfg, StdProgramDone, page
<1>11. Passes(d, XO5DoUpdate(StdProgramCfg), Nothing, Nothing)
  BY <1>6, FreeStart
<1>12. Passes(d, XO5Standard, Nothing, L)
  BY <1>2, <1>4, <1>10, <1>11, PassLattice DEF XO5Standard, StdDoErase
<1> QED
  BY ONLY <1>8, <1>12, FlashOnly DEF d, L

(* What the functions of the LFMXO5-35T and -65T are made of.                *)
TPlain(D, A) ==
  /\ Plain(Ask, D) /\ Plain(IfHeader, D) /\ Plain(IfData, D)
  /\ \A x \in A : Plain(Load(x), D)
  /\ \A x \in A, p \in 0..Parts : Plain(Erase(x, p), D) /\ Plain(Write(x, p), D) /\ Plain(Dump(x, p), D)

LEMMA TSending ==
  ASSUME NEW D, Plain(Ask, D)
  PROVE  /\ Body(IsCrcSuccessful, D) /\ Body(LockI2C, D) /\ Body(TCheckDeviceReady, D)
         /\ Body(ToggleCrc16, D)
         /\ \A i : Plain(i, D) => Body(SendReceive(i), D)
BY TriesIn, BodyOne, BodyConcat, BodyRounds
   DEF IsCrcSuccessful, ReadCrcStatus, LockI2C, TCheckDeviceReady, ToggleCrc16, SendReceive

LEMMA TErasing ==
  ASSUME NEW D, Plain(Ask, D), NEW x
  PROVE  /\ Plain(Erase(x, 0), D) => Body(TEraseCfg(x), D)
         /\ Plain(Load(x), D) => Body(TReadCfg(x), D)
BY TSending, BodyConcat DEF TEraseCfg, TReadCfg

LEMMA TBodies ==
  ASSUME NEW D, NEW A, TPlain(D, A)
  PROVE  /\ \A x \in A : Body(TEraseCfg(x), D) /\ Body(TReadCfg(x), D) /\ Body(TProgramCfg(x), D)
         /\ {"header", "backup"} \subseteq A => Body(BackupHeader, D)
         /\ "header" \in A /\ Plain(Load("backup"), D) => Body(RestoreHeader, D)
<1>1. Plain(Ask, D) /\ 0 \in 0..Parts
  BY TriesIn DEF TPlain
<1>2. \A x \in A : Body(TEraseCfg(x), D) /\ Body(TReadCfg(x), D)
  <2> TAKE x \in A
  <2>1. Plain(Erase(x, 0), D) /\ Plain(Load(x), D)
    BY <1>1 DEF TPlain
  <2> QED
    BY <1>1, <2>1, TErasing
<1>3. ASSUME NEW x \in A PROVE Body(TProgramCfg(x), D)
  <2> DEFINE chunk == [p \in 1..Parts |->
                 SendReceive(IF x = "flash" THEN Write(x, p) ELSE Dump(x, p)) \o TCheckDeviceReady]
  <2>1. ASSUME NEW p \in 1..Parts PROVE Body(chunk[p], D)
    <3>1. PICK i : i = IF x = "flash" THEN Write(x, p) ELSE Dump(x, p)
      OBVIOUS
    <3>2. p \in 0..Parts
      BY TriesIn
    <3>3. Plain(i, D)
      BY <3>1, <3>2 DEF TPlain
    <3>4. Body(SendReceive(i) \o TCheckDeviceReady, D)
      BY <1>1, <3>3, TSending, BodyConcat
    <3> QED
      BY <3>1, <3>4
  <2>2. TProgramCfg(x) = ((LockI2C \o SendReceive(Ask))
           \o (IF x = "flash" THEN Guarded(IfData, ForEach(chunk)) ELSE ForEach(chunk)))
             \o SendReceive(Ask)
    BY DEF TProgramCfg
  <2> HIDE DEF chunk
  <2>3. Body(ForEach(chunk), D) /\ Body(Guarded(IfData, ForEach(chunk)), D)
    BY <2>1, BodyForEach, BodyGuarded DEF TPlain
  <2>4. Body(LockI2C \o SendReceive(Ask), D) /\ Body(SendReceive(Ask), D)
    BY <1>1, TSending, BodyConcat
  <2>5. PICK b : b = IF x = "flash" THEN Guarded(IfData, ForEach(chunk)) ELSE ForEach(chunk)
    OBVIOUS
  <2>6. Body(b, D)
    BY <2>3, <2>5
  <2>7. Body(((LockI2C \o SendReceive(Ask)) \o b) \o SendReceive(Ask), D)
    BY <2>4, <2>6, BodyConcat
  <2> QED
    BY <2>2, <2>5, <2>7
<1>4. Body(LockI2C, D) /\ Plain(IfHeader, D)
  BY <1>1, TSending DEF TPlain
<1>5. ASSUME {"header", "backup"} \subseteq A
      PROVE  Body(BackupHeader, D)
  <2>1. "header" \in A /\ "backup" \in A
    BY <1>5
  <2>2. Body((TEraseCfg("backup") \o TProgramCfg("backup")) \o TEraseCfg("header"), D)
    BY <1>2, <1>3, <2>1, BodyConcat
  <2> QED
    BY <1>2, <1>4, <2>1, <2>2, BodyGuarded, BodyConcat DEF BackupHeader
<1>6. ASSUME "header" \in A, Plain(Load("backup"), D)
      PROVE  Body(RestoreHeader, D)
  <2>1. Body(TEraseCfg("header") \o TProgramCfg("header"), D) /\ Body(TReadCfg("backup"), D)
    BY <1>1, <1>2, <1>3, <1>6, TErasing, BodyConcat
  <2> QED
    BY <1>4, <2>1, BodyGuarded, BodyConcat DEF RestoreHeader
<1> QED
  BY <1>2, <1>3, <1>5, <1>6

LEMMA TPrepared == Body(ReadSoftIPId, Looks) /\ Body(TPrepareUpdate, Looks)
<1>1. Plain(Ask, Looks) /\ Plain(Match("wrongDevice"), Looks)
  BY SubjectsListed, LooksPlain
<1>2. Body(ReadSoftIPId, Looks)
  BY <1>1, TSending, BodyConcat DEF ReadSoftIPId
<1>3. Body(TPrepareUpdate, Looks)
  BY <1>1, <1>2, TSending, SubjectsListed, LooksPlain, BodyOne, BodyConcat
     DEF TPrepareUpdate, JedFileParser, VerifyChecksum
<1> QED
  BY <1>2, <1>3

LEMMA XO5TSeriesFine ==
  /\ Split(XO5TSeries, Looks, Works({"flash", "header", "backup"}) \cup {<<"match", "wrongDevice">>},
           {<<"match", "wrongDevice">>})
  /\ Outlined(XO5TSeries, FALSE)
<1> DEFINE A == {"flash", "header", "backup"}
           G == {<<"match", "wrongDevice">>}
           W == Works(A) \cup G
           E == {"header", "backup"}
           V == (Looking \X Subjects) \cup Works(E)
<1>1. A \subseteq Subjects /\ E \subseteq Subjects
  BY SubjectsListed
<1>2. TPlain(W, A) /\ Plain(Compare("flash", 0), W)
  <2>1. \A i : Plain(i, Works(A)) => Plain(i, W)
    BY DEF Plain
  <2>2. A \ {"spare"} = A /\ "flash" \in Subjects /\ 0 \in 0..Parts
    BY <1>1, TriesIn
  <2> HIDE DEF A, W
  <2> QED
    BY <1>1, <2>1, <2>2, WorksPlain DEF TPlain
<1>3. TPlain(V, E)
  <2>1. \A i : Plain(i, Works(E)) => Plain(i, V)
    BY DEF Plain
  <2>2. E \ {"spare"} = E
    OBVIOUS
  <2> HIDE DEF E, V
  <2> QED
    BY <1>1, <2>1, <2>2, WorksPlain DEF TPlain
<1>4. /\ Plain(Match("wrongDevice"), W) /\ Match("wrongDevice").no = 0
      /\ Kind(Match("wrongDevice")) = <<"match", "wrongDevice">>
      /\ Plain(Match("wrongDevice"), V)
  <2>1. "match" \in Deeds /\ "wrongDevice" \in Subjects /\ 0 \in Nat /\ 0 <= Parts
    BY SubjectsListed, LoopAssumption DEF Deeds
  <2>2. <<"match", "wrongDevice">> \in W /\ <<"match", "wrongDevice">> \in V
    BY <2>1 DEF Looking
  <2>3. /\ Plain(Instruction("match", "wrongDevice", 0), W)
        /\ Plain(Instruction("match", "wrongDevice", 0), V)
    <3> HIDE DEF W, V
    <3> QED
      BY <2>1, <2>2, InstructionPlain
  <2> QED
    BY <2>3 DEF Match, Instruction, Kind
<1>5. /\ "flash" \in A /\ {"header", "backup"} \subseteq A /\ {"header", "backup"} \subseteq E
      /\ Plain(Ask, W) /\ Plain(Ask, V)
  BY <1>2, <1>3 DEF TPlain
<1> HIDE DEF A, W, E, V
<1>6. Tries \in 1..Tries
  BY TriesIn
<1>7. Plain(Ask, Looks) /\ Plain(Match("wrongDevice"), Looks)
  BY SubjectsListed, LooksPlain
<1>8. Body(ReadSoftIPId, Looks) /\ Body(ReadSoftIPId, W) /\ Body(ReadSoftIPId, V)
  BY <1>4, <1>5, TPrepared, TSending, BodyConcat DEF ReadSoftIPId
<1>9. \A g \in G : Gated(TPrepareUpdate, Len(TPrepareUpdate), g)
  <2> DEFINE g == <<"match", "wrongDevice">>
             F(x) == Gated(x, Len(x), g)
  <2>1. Plain(Ask, Looks) /\ Body(SendReceive(Ask), Looks)
        /\ Body(SendReceive(Match("wrongDevice")), Looks)
    BY <1>7, TSending
  <2>2. F(SendReceive(Match("wrongDevice")))
    BY <1>4, <1>6, <1>7, GateRounds DEF SendReceive, IsCrcSuccessful, ReadCrcStatus
  <2>3. F(ReadSoftIPId)
    BY <2>1, <2>2, GateEither DEF ReadSoftIPId
  <2>4. Body(JedFileParser \o VerifyChecksum, Looks)
    BY SubjectsListed, LooksPlain, BodyOne, BodyConcat DEF JedFileParser, VerifyChecksum
  <2>5. F((JedFileParser \o VerifyChecksum) \o ReadSoftIPId)
    BY <1>8, <2>3, <2>4, GateEither
  <2>6. Body(ToggleCrc16, Looks) /\ Body(TCheckDeviceReady, Looks)
    BY <2>1, TSending
  <2>7. Body((JedFileParser \o VerifyChecksum) \o ReadSoftIPId, Looks)
    BY <1>8, <2>4, BodyConcat
  <2>8. /\ Body(((JedFileParser \o VerifyChecksum) \o ReadSoftIPId) \o ToggleCrc16, Looks)
        /\ F(((JedFileParser \o VerifyChecksum) \o ReadSoftIPId) \o ToggleCrc16)
    BY <2>5, <2>6, <2>7, BodyConcat, GateEither
  <2> QED
    BY <2>6, <2>8, GateEither DEF TPrepareUpdate
<1>10. Body(TPrepareUpdate, Looks)
  BY TPrepared
<1>11. Body(TDoErase, W) /\ Body(XO5DoUpdate(TProgramCfg("flash")), W)
  BY <1>2, <1>5, TBodies, BodyConcat DEF TDoErase, XO5DoUpdate
<1>12. Body(TVerifyCfg, W) /\ Body(TReadUserCode, W) /\ Body(TReadUserCode, V)
  BY <1>2, <1>5, <1>8, TSending, BodyConcat DEF TVerifyCfg, TReadUserCode
<1>13. Body(RestoreHeader, W) /\ Body(RestoreHeader, V)
  <2>1. Plain(Load("backup"), W) /\ Plain(Load("backup"), V)
    BY <1>2, <1>3, <1>5 DEF TPlain
  <2> QED
    BY <1>2, <1>3, <1>5, <2>1, TBodies
<1>14. Body(TFinishUpdate, W)
  BY <1>12, <1>13, BodyConcat DEF TFinishUpdate
<1> HIDE DEF G
<1>15. Split(UpdateDevice(LatticeUpdateFirmware(TPrepareUpdate, TDoErase,
               XO5DoUpdate(TProgramCfg("flash")), TFinishUpdate)), Looks, W, G)
  BY <1>9, <1>10, <1>11, <1>14, LatticeSplit
<1> DEFINE d == DriverAs(XO5TSeries, FALSE)
           n == CellsOf("flash", 0)
           L == Stored(n, {})
<1> HIDE DEF d, n
<1>16. n \in SUBSET Cell /\ {} \in SUBSET Flags /\ L \in Knowledge
       /\ (\A x \in n : x[1] \notin E) /\ "cells" \notin {}
  <2>1. \A x \in n : x[1] = "flash"
    BY DEF n, CellsOf
  <2>2. "flash" \notin E
    BY DEF E
  <2> QED
    BY <2>1, <2>2, FlashIs DEF n
<1>17. Passes(d, SendReceive(Compare("flash", 0)), Nothing, L)
  <2>1. Passes(d, <<Compare("flash", 0)>>, Nothing, L)
    BY FlashIs, PassReadBack DEF n
  <2>2. PICK i : i = Ask
    OBVIOUS
  <2>3. Simple(i) /\ i.do \in Looking /\ ~Leaves(i)
    BY <2>2, SimpleOnes DEF Ask, Instruction, Looking, Leaves
  <2>4. Keeps(d, i, L)
    BY <2>3, LookKeeps DEF Simple
  <2>5. AtMost(L, AfterSuccess(d.first, d.blind, i, L)) /\ AtMost(Nothing, AfterFailure(i, L))
    BY <2>4, NothingLeast DEF Keeps
  <2>6. Plain(i, AnyKind) /\ i.no = 0
    BY <2>3 DEF Simple
  <2> QED
    BY <1>6, <1>16, <2>1, <2>2, <2>5, <2>6, PassRounds DEF SendReceive, IsCrcSuccessful, ReadCrcStatus
<1>18. Passes(d, TVerifyCfg, Nothing, L)
  <2>1. Body(LockI2C \o SendReceive(Ask), W)
    BY <1>5, TSending, BodyConcat
  <2>2. Passes(d, LockI2C \o SendReceive(Ask), Nothing, Nothing)
    BY <2>1, FreeStart
  <2> QED
    BY <1>17, <2>2, PassConcat DEF TVerifyCfg
<1>20. Passes(d, TFinishUpdate, Nothing, L)
  <2>1. Passes(d, RestoreHeader, L, L) /\ Passes(d, TReadUserCode, L, L)
    BY <1>12, <1>13, <1>16, PassWork DEF V
  <2> QED
    BY <1>18, <2>1, PassConcat DEF TFinishUpdate
<1>21. Passes(d, XO5DoUpdate(TProgramCfg("flash")), Nothing, Nothing)
  BY <1>11, FreeStart
<1>22. Passes(d, XO5TSeries, Nothing, L)
  BY <1>10, <1>11, <1>20, <1>21, PassLattice DEF XO5TSeries
<1>23. Outlined(XO5TSeries, FALSE)
  <2>1. Split(XO5TSeries, Looks, Works(A) \cup G, G)
    BY <1>15 DEF XO5TSeries, W
  <2>2. G \subseteq {<<"match", "wrongDevice">>} /\ A \in {{"flash"}, {"flash", "header", "backup"}}
    BY DEF A, G
  <2> QED
    BY ONLY <1>22, <2>1, <2>2, FlashOutlined DEF d, n
<1> QED
  BY <1>15, <1>23 DEF XO5TSeries, A, G, W

LEMMA GateOne ==
  ASSUME NEW i, NEW D, Plain(i, D), i.no = 0
  PROVE  Gated(<<i>>, Len(<<i>>), Kind(i))
<1>1. PICK c : c = <<i>>
  OBVIOUS
<1>2. Len(c) = 1 /\ c[1] = i
  BY <1>1
<1>3. Gate(c, 1) /\ 1 \in 1..1
  BY <1>2 DEF Gate
<1> QED
  BY <1>1, <1>2, <1>3 DEF Gated

LEMMA XO5DSeriesFine ==
  /\ Split(XO5DSeries, Looks, (Works({"spare"}) \cup {<<"primary", "none">>}) \cup {<<"select", "none">>},
           {<<"select", "none">>})
  /\ Outlined(XO5DSeries, FALSE)
<1> DEFINE A == {"spare"}
           G == {<<"select", "none">>}
           W == (Works(A) \cup {<<"primary", "none">>}) \cup G
<1>1. "spare" \in Subjects
  BY SubjectsListed
<1>2. \A p \in 0..Parts : /\ Plain(Erase("spare", p), W) /\ Plain(Write("spare", p), W)
                          /\ Plain(Compare("spare", p), W) /\ Plain(Ask, W)
                          /\ Plain(Verdict, W) /\ Plain(SetPrimary, W)
  <2>1. Plain(SetPrimary, W)
    BY SpecialPlain
  <2>2. \A i : Plain(i, Works(A)) => Plain(i, W)
    BY DEF Plain
  <2>3. "spare" \in A /\ A \subseteq Subjects
    BY <1>1
  <2> HIDE DEF A, W
  <2> QED
    BY <1>1, <2>1, <2>2, <2>3, WorksPlain
<1>3. Plain(SelectSpare, Looks) /\ SelectSpare.no = 0 /\ Kind(SelectSpare) = <<"select", "none">>
  BY LooksPlain DEF SelectSpare, Instruction, Kind
<1> HIDE DEF A, W
<1>4. Tries \in 1..Tries /\ 1..Parts \subseteq 0..Parts /\ 0 \in 0..Parts
  BY TriesIn
<1>5. \A D, i : Plain(i, D) => /\ Body(EsfbWriteRetried(i), D) /\ Body(EsfbWrite(i), D)
                              /\ Body(EsfbReadData(i), D)
  BY <1>4, RetryPlain, BodyOne DEF EsfbWriteRetried, EsfbWrite, EsfbReadData
<1>6. Body(EsfbReadStatus, Looks) /\ Body(EsfbReadStatus, W)
  BY <1>2, <1>4, LooksPlain, BodyOne DEF EsfbReadStatus
<1>7. /\ Body(EsfbWriteRetried(Ask) \o EsfbReadStatus, Looks)
      /\ Body(EsfbReadData(SelectSpare), Looks) /\ Body(<<Check("wrongSize")>>, Looks)
  BY <1>3, <1>5, <1>6, SubjectsListed, LooksPlain, BodyOne, BodyConcat
<1>8. Body(CheckCurrentRunningImageStatus, Looks) /\ Body(DPrepareUpdate, Looks)
  BY <1>7, BodyConcat DEF CheckCurrentRunningImageStatus, DPrepareUpdate
<1>9. \A g \in G : Gated(DPrepareUpdate, Len(DPrepareUpdate), g)
  <2> DEFINE F(x) == Gated(x, Len(x), <<"select", "none">>)
  <2>1. F(EsfbReadData(SelectSpare))
    BY <1>3, GateOne DEF EsfbReadData
  <2>2. F(CheckCurrentRunningImageStatus)
    BY <1>7, <2>1, GateEither DEF CheckCurrentRunningImageStatus
  <2> QED
    BY <1>7, <1>8, <2>2, GateEither DEF DPrepareUpdate
<1>10. Body(DDoErase, W)
  BY <1>2, <1>4, <1>5, <1>6, BodyConcat DEF DDoErase, EraseNonActiveImage
<1>11. Body(DDoUpdate, W)
  <2> DEFINE chunk == [p \in 1..Parts |-> EsfbWriteRetried(Write("spare", p)) \o EsfbReadStatus]
  <2>1. \A p \in 1..Parts : Body(chunk[p], W)
    BY <1>2, <1>4, <1>5, <1>6, BodyConcat
  <2> HIDE DEF chunk
  <2>2. Body(ForEach(chunk), W)
    BY <2>1, BodyForEach
  <2> QED
    BY <2>2 DEF DDoUpdate, ProgramCustomerImage, chunk
<1>12. Body(DFinishUpdate, W)
  <2>1. Body(Rounds(EsfbWrite(Ask) \o EsfbReadStatus, Tries), W)
    BY <1>2, <1>4, <1>5, <1>6, BodyConcat, BodyRounds
  <2>2. Body(Rounds(EsfbWrite(SetPrimary) \o EsfbReadStatus, Tries), W)
    BY <1>2, <1>4, <1>5, <1>6, BodyConcat, BodyRounds
  <2>3. Body(EsfbReadData(Compare("spare", 0)), W)
    BY <1>2, <1>4, <1>5
  <2> QED
    BY <2>1, <2>2, <2>3, BodyConcat
       DEF DFinishUpdate, DryRunCustomerImage, GetDryRunCustomerImageResult, SetPrimaryCustomerImage
<1> HIDE DEF G
<1>13. Split(UpdateDevice(LatticeUpdateFirmware(DPrepareUpdate, DDoErase, DDoUpdate, DFinishUpdate)),
             Looks, W, G)
  BY <1>8, <1>9, <1>10, <1>11, <1>12, LatticeSplit
<1> DEFINE d == DriverAs(XO5DSeries, FALSE)
           n == CellsOf("spare", 0)
           f == {"primary"}
<1>14. "spare" \in Places /\ {} \in SUBSET Flags /\ f \in SUBSET Flags /\ {} \cup f = f
  BY DEF Places, Flags
<1>15. n \in SUBSET Cell
  BY <1>4, <1>14, CellsIn
<1> HIDE DEF d, n, f
<1>16. Stored(n, {}) \in Knowledge /\ Stored(n, f) \in Knowledge
  BY <1>14, <1>15, KnownKnowledge
<1>17. Passes(d, SetPrimaryCustomerImage, Stored(n, {}), Stored(n, f))
  <2>1. Passes(d, EsfbWrite(SetPrimary), Stored(n, {}), Stored(n, f))
    <3>1. {} \in SUBSET Cell
      OBVIOUS
    <3>2. Passes(d, <<SetPrimary>>, Known(n, {}, {}, {}, {}), Known(n, {}, {}, {}, {} \cup {"primary"}))
      BY ONLY <1>14, <1>15, <3>1, PassFlag
    <3> QED
      BY <1>14, <3>2 DEF EsfbWrite, Stored, f
  <2>2. PICK i : i = Verdict
    OBVIOUS
  <2>3. Simple(i) /\ i.do \in Looking /\ ~Leaves(i)
    BY <2>2, SimpleOnes DEF Verdict, Instruction, Looking, Leaves
  <2>4. Keeps(d, i, Stored(n, f))
    BY <2>3, LookKeeps DEF Simple
  <2>5. AtMost(Stored(n, f), AfterSuccess(d.first, d.blind, i, Stored(n, f)))
        /\ AtMost(Stored(n, {}), AfterFailure(i, Stored(n, f)))
    <3>1. AtMost(Stored(n, {}), Stored(n, f))
      BY DEF AtMost, Stored, Known
    <3> QED
      BY <2>3, <2>4, <3>1, AtMostTrans DEF Keeps
  <2>6. Plain(i, AnyKind) /\ i.no = 0
    BY <2>3 DEF Simple
  <2> QED
    BY <1>4, <1>16, <2>1, <2>2, <2>5, <2>6, PassRounds DEF SetPrimaryCustomerImage, EsfbReadStatus
<1>18. Passes(d, EsfbReadData(Compare("spare", 0)), Nothing, Stored(n, {}))
  BY <1>14, PassReadBack DEF EsfbReadData, n
<1>19. Passes(d, DFinishUpdate, Nothing, Stored(n, f))
  <2>1. Body(Rounds(EsfbWrite(Ask) \o EsfbReadStatus, Tries), W)
    BY <1>2, <1>4, <1>5, <1>6, BodyConcat, BodyRounds
  <2>2. Passes(d, Rounds(EsfbWrite(Ask) \o EsfbReadStatus, Tries), Nothing, Nothing)
    BY <2>1, FreeStart
  <2> QED
    BY <1>17, <1>18, <2>2, PassConcat
       DEF DFinishUpdate, DryRunCustomerImage, GetDryRunCustomerImageResult
<1>20. Passes(d, XO5DSeries, Nothing, Stored(n, f))
  BY <1>8, <1>10, <1>11, <1>19, FreeStart, PassLattice DEF XO5DSeries
<1>21. Outlined(XO5DSeries, FALSE)
  <2>1. Passes(d, XO5DSeries, AtFirst(XO5DSeries), Stored(n, f))
    BY <1>20, FromNothing
  <2>2. Body(XO5DSeries, Looks \cup W)
    BY <1>13 DEF Split, XO5DSeries
  <2>3. W \subseteq Works({"spare"}) \cup Special \cup {<<"match", "wrongDevice">>, <<"select", "none">>}
    BY DEF W, A, G, Special
  <2>4. ({"spare"} \cap {"flash", "nvm", "page2"}) \X (1..Parts) \subseteq Stored(n, f).new
    OBVIOUS
  <2>5. CellsOf("spare", 0) \subseteq Stored(n, f).new /\ "primary" \in Stored(n, f).flags
    BY DEF Stored, Known, n, f
  <2>6. <<"lock", "none">> \notin W
    BY DEF W, A, G, Works, Testing, Changing
  <2> QED
    BY ONLY <2>1, <2>2, <2>3, <2>4, <2>5, <2>6, OutlineOf DEF Outlined, d
<1> QED
  BY <1>13, <1>21 DEF XO5DSeries, A, G, W

(* The MAX10 reports about every command.  Clean and Mixed are what is known *)
(* of its flash after p sectors are erased, and after p words are written.   *)
Clean(p) == Known({}, {"flash"} \X (1..p), {}, {}, {"open"})
Mixed(p) == Known({"flash"} \X (1..p), {"flash"} \X (p + 1..Parts), {}, {}, {"open"})

LEMMA Max10Cells ==
  /\ \A p \in 0..Parts : Clean(p) \in Knowledge /\ Mixed(p) \in Knowledge
  /\ Clean(0) = Stored({}, {"open"}) /\ Clean(Parts) = Mixed(0)
  /\ Mixed(Parts) = Stored(CellsOf("flash", 0), {"open"})
<1>1. /\ \A p \in 0..Parts : {"flash"} \X (1..p) \in SUBSET Cell
      /\ {} \in SUBSET Cell /\ {"open"} \in SUBSET Flags /\ "flash" \in Places
  <2>1. "flash" \in Places
    BY FlashIs
  <2> QED
    BY <2>1, CellsIn DEF Flags
<1>2. \A p \in 0..Parts : {"flash"} \X (p + 1..Parts) \in SUBSET Cell
  <2> TAKE p \in 0..Parts
  <2>1. p + 1..Parts \subseteq 1..Parts
    BY LoopAssumption
  <2>2. Parts \in 0..Parts
    BY LoopAssumption
  <2> QED
    BY <1>1, <2>1, <2>2
<1>3. 1..0 = {} /\ 0 + 1..Parts = 1..Parts /\ Parts + 1..Parts = {}
  BY LoopAssumption
<1>4. \A p \in 0..Parts : Clean(p) \in Knowledge /\ Mixed(p) \in Knowledge
  BY <1>1, <1>2, KnownKnowledge DEF Clean, Mixed
<1>5. {"flash"} \X (1..0) = {} /\ {"flash"} \X (Parts + 1..Parts) = {}
  BY <1>3
<1>6. Clean(0) = Stored({}, {"open"}) /\ Clean(Parts) = Mixed(0)
  BY <1>3, <1>5 DEF Clean, Mixed, Stored
<1>7. Mixed(Parts) = Stored(CellsOf("flash", 0), {"open"})
  BY <1>5 DEF Mixed, Stored, CellsOf
<1> QED
  BY <1>4, <1>6, <1>7

(* Waiting for the chip to be done, and asking it how it went.               *)
LEMMA Max10Done ==
  ASSUME NEW d, NEW n, NEW c, NEW s, NEW t, NEW f,
         NEW K, K = Known(n, c, s, t, f), K \in Knowledge,
         NEW L, L = Known(n \cup s, c \cup t, {}, {}, f), L \in Knowledge
  PROVE  Passes(d, ReadStatus, K, L)
<1>1. PICK i : i = Verdict
  OBVIOUS
<1>2. Simple(i) /\ i.do = "verdict" /\ i \in Instructions /\ Plain(i, AnyKind) /\ i.no = 0
  BY <1>1, SimpleOnes DEF Verdict, Instruction, Simple
<1>3. Teaches(d, i, K, L)
  BY <1>2, VerdictTeaches
<1>4. AtMost(K, AfterFailure(i, K))
  <2>1. i.do \in Looking /\ ~Leaves(i)
    BY <1>2 DEF Looking, Leaves
  <2> QED
    BY <1>2, <2>1, LookKeeps DEF Keeps
<1> QED
  BY <1>1, <1>2, <1>3, <1>4, TriesIn, PassRetry DEF ReadStatus

LEMMA Max10Asks ==
  ASSUME NEW d, NEW K \in Knowledge
  PROVE  Passes(d, ReadReg, K, K) /\ Passes(d, EraseNone, K, K)
<1> DEFINE D == Looking \X Subjects
<1>1. Plain(Ask, D) /\ Plain(Verdict, D) /\ Tries \in 1..Tries
  BY LookingPlain, TriesIn
<1> HIDE DEF D
<1>2. /\ Body(ReadReg, D) /\ Body(ReadStatus, D)
      /\ \A i : Plain(i, D) => Body(WriteReg(i), D)
  BY <1>1, RetryPlain, BodyOne DEF ReadReg, ReadStatus, WriteReg
<1>3. Body(EraseNone, D)
  BY <1>1, <1>2, BodyConcat, BodyOptional DEF EraseNone, WaitEraseDone
<1> QED
  BY <1>2, <1>3, PassLook DEF D

LEMMA Max10Erase ==
  ASSUME NEW d, NEW p \in 1..Parts
  PROVE  Passes(d, EraseSector(p), Clean(p - 1), Clean(p))
<1>1. p - 1 \in 0..Parts /\ p \in 0..Parts
  BY LoopAssumption
<1>2. PICK i, c, f, s : /\ i = Erase("flash", p) /\ c = {"flash"} \X (1..p - 1) /\ f = {"open"}
                        /\ s = CellsOf("flash", p)
  OBVIOUS
<1>3. i.do = "erase" /\ i.at = "flash" /\ i.part = p /\ Named(i) = s
  BY <1>2, CellsIn DEF Erase, Instruction
<1>4. Simple(i) /\ Plain(i, AnyKind) /\ i.no = 0
  BY <1>1, <1>2, FlashIs, SimpleOnes DEF Simple
<1>5. c \cup s = {"flash"} \X (1..p) /\ s \cap c = {}
  BY <1>2, PartMore
<1>6. PICK K, M, L : /\ K = Known({}, c, {}, {}, f) /\ M = Known({}, c, {}, s, f)
                     /\ L = Known({} \cup {}, c \cup s, {}, {}, f)
  OBVIOUS
<1>7. K = Clean(p - 1) /\ L = Clean(p)
  BY <1>2, <1>5, <1>6 DEF Clean
<1>8. K \in Knowledge /\ L \in Knowledge /\ M \in Knowledge
  <2>1. c \in SUBSET Cell /\ s \in SUBSET Cell /\ {} \in SUBSET Cell /\ f \in SUBSET Flags
    BY <1>1, <1>2, FlashIs, CellsIn DEF Flags
  <2> QED
    BY <1>1, <1>6, <1>7, <2>1, KnownKnowledge, Max10Cells
<1>9. Teaches(d, i, K, M) /\ AtMost(K, AfterFailure(i, K))
  <2>1. "open" \in f /\ Named(i) \cap ({} \cup c) = {}
    BY <1>2, <1>3, <1>5
  <2>2. /\ Teaches(d, i, Known({}, c, {}, {}, f), Known({}, c, {}, Named(i), f))
        /\ AtMost(Known({}, c, {}, {}, f), AfterFailure(i, Known({}, c, {}, {}, f)))
    BY ONLY <1>3, <2>1, EraseTeaches
  <2> QED
    BY <1>3, <1>6, <2>2
<1>10. Passes(d, WriteReg(i), K, M)
  BY <1>4, <1>8, <1>9, TriesIn, PassRetry DEF WriteReg
<1>11. Passes(d, ReadStatus, M, L)
  BY ONLY <1>6, <1>8, Max10Done
<1>12. Passes(d, ReadReg, K, K)
  BY <1>8, Max10Asks
<1>13. Passes(d, (ReadReg \o WriteReg(i)) \o ReadStatus, K, L)
  BY <1>10, <1>11, <1>12, PassConcat
<1> QED
  BY <1>2, <1>7, <1>13 DEF EraseSector, WaitEraseDone

LEMMA Max10Write ==
  ASSUME NEW d, NEW p \in 1..Parts
  PROVE  Passes(d, WriteReg(Write("flash", p)) \o WaitWriteDone, Mixed(p - 1), Mixed(p))
<1>1. p - 1 \in 0..Parts /\ p \in 0..Parts /\ (p - 1) + 1 = p
  BY LoopAssumption
<1>2. PICK i, n, c, f, s : /\ i = Write("flash", p) /\ n = {"flash"} \X (1..p - 1)
                           /\ c = {"flash"} \X (p..Parts) /\ f = {"open"} /\ s = CellsOf("flash", p)
  OBVIOUS
<1>3. i.do = "write" /\ i.at = "flash" /\ i.part = p /\ Named(i) = s
  BY <1>2, CellsIn DEF Write, Instruction
<1>4. Simple(i) /\ Plain(i, AnyKind) /\ i.no = 0
  BY <1>1, <1>2, FlashIs, SimpleOnes DEF Simple
<1>5. n \cup s = {"flash"} \X (1..p) /\ s \cap n = {} /\ s \subseteq c
      /\ c \ s = {"flash"} \X (p + 1..Parts)
  <2>1. p # 0 /\ p \in p..Parts /\ (p..Parts) \ {p} = p + 1..Parts
    BY LoopAssumption
  <2>2. s = {"flash"} \X {p}
    BY <1>2, <2>1 DEF CellsOf
  <2> QED
    BY <1>2, <2>1, <2>2, PartMore
<1>6. PICK K, M, L : /\ K = Known(n, c, {}, {}, f) /\ M = Known(n, c \ s, s, {}, f)
                     /\ L = Known(n \cup s, (c \ s) \cup {}, {}, {}, f)
  OBVIOUS
<1>7. K = Mixed(p - 1) /\ L = Mixed(p)
  BY <1>1, <1>2, <1>5, <1>6 DEF Mixed
<1>8. K \in Knowledge /\ L \in Knowledge /\ M \in Knowledge
  <2>1. K \in Knowledge /\ L \in Knowledge
    BY <1>1, <1>7, Max10Cells
  <2>2. n \in SUBSET Cell /\ c \in SUBSET Cell
    BY <1>6, <2>1 DEF Knowledge, Known
  <2>3. s \in SUBSET Cell /\ {} \in SUBSET Cell /\ f \in SUBSET Flags /\ c \ s \in SUBSET Cell
    BY <1>1, <1>2, <2>2, FlashIs, CellsIn DEF Flags
  <2> QED
    BY <1>6, <2>1, <2>2, <2>3, KnownKnowledge
<1>9. Teaches(d, i, K, M) /\ AtMost(K, AfterFailure(i, K))
  <2>1. "open" \in f /\ Named(i) \cap n = {} /\ Named(i) \subseteq c
    BY <1>2, <1>3, <1>5
  <2>2. /\ Teaches(d, i, Known(n, c, {}, {}, f), Known(n, c \ Named(i), Named(i), {}, f))
        /\ AtMost(Known(n, c, {}, {}, f), AfterFailure(i, Known(n, c, {}, {}, f)))
    BY ONLY <1>3, <2>1, ProgramTeaches
  <2> QED
    BY <1>3, <1>6, <2>2
<1>10. Passes(d, WriteReg(i), K, M)
  BY <1>4, <1>8, <1>9, TriesIn, PassRetry DEF WriteReg
<1>11. Passes(d, ReadStatus, M, L)
  BY ONLY <1>6, <1>8, Max10Done
<1>12. Passes(d, WriteReg(i) \o ReadStatus, K, L)
  BY <1>10, <1>11, PassConcat
<1> QED
  BY <1>2, <1>7, <1>12 DEF WaitWriteDone

(* The protection is taken from the sectors.  When the command fails it is   *)
(* not known what came of it.                                                *)
LEMMA Max10Opens ==
  ASSUME NEW d, NEW n \in SUBSET Cell, NEW i, i = Unlock, NEW g, g = {"open"}
  PROVE  Passes(d, ReadReg \o WriteReg(i), Stored(n, {}), Stored(n, g))
<1>1. i.do = "unlock"
  BY DEF Unlock, Instruction
<1>2. Simple(i) /\ Plain(i, AnyKind) /\ i.no = 0
  BY SimpleOnes DEF Simple
<1>3. g \in SUBSET Flags /\ {} \in SUBSET Flags
  BY DEF Flags
<1>4. PICK K, L : K = Stored(n, {}) /\ L = Stored(n, g)
  OBVIOUS
<1>5. K \in Knowledge /\ L \in Knowledge
  BY <1>3, <1>4, KnownKnowledge
<1>6. Teaches(d, i, K, L)
  <2>1. Teaches(d, i, Known(n, {}, {}, {}, {}), Known(n, {}, {}, {}, ({} \ Gone(i)) \cup Gained(i)))
    BY <1>1, FlagTeaches
  <2>2. ({} \ Gone(i)) \cup Gained(i) = g
    BY <1>1 DEF Gained
  <2> QED
    BY <1>4, <2>1, <2>2 DEF Stored
<1>7. AtMost(K, AfterFailure(i, K))
  <2>1. Lost(i) = {} /\ ~Changes(i)
    BY <1>1 DEF Lost, Changes
  <2> QED
    BY <1>4, <2>1 DEF AtMost, AfterFailure, Stored, Known
<1>8. Passes(d, WriteReg(i), K, L)
  BY <1>2, <1>5, <1>6, <1>7, TriesIn, PassRetry DEF WriteReg
<1>9. Passes(d, ReadReg, K, K)
  BY <1>5, Max10Asks
<1> QED
  BY <1>4, <1>8, <1>9, PassConcat

LEMMA Max10Fine ==
  /\ Split(Max10, Looks, Works({"flash"}) \cup {<<"unlock", "none">>}, {})
  /\ Outlined(Max10, FALSE)
<1> DEFINE W == Works({"flash"}) \cup {<<"unlock", "none">>}
<1>1. "flash" \in Subjects
  BY SubjectsListed
<1>2. \A p \in 0..Parts : /\ Plain(Ask, W) /\ Plain(Erase("flash", p), W) /\ Plain(Verdict, W)
                          /\ Plain(Write("flash", p), W) /\ Plain(Unlock, W)
  <2>1. Plain(Unlock, W)
    BY SpecialPlain
  <2>2. \A i : Plain(i, Works({"flash"})) => Plain(i, W)
    BY DEF Plain
  <2> HIDE DEF W
  <2> QED
    BY <1>1, <2>1, <2>2, WorksPlain
<1> HIDE DEF W
<1>3. Tries \in 1..Tries /\ 1..Parts \subseteq 0..Parts /\ 0 \in 0..Parts
  BY TriesIn
<1>4. /\ Body(ReadReg, W) /\ Body(ReadStatus, W)
      /\ \A i : Plain(i, W) => Body(WriteReg(i), W)
  BY <1>2, <1>3, RetryPlain, BodyOne DEF ReadReg, ReadStatus, WriteReg
<1>5. Body(ProtectSectors, W) /\ Body(EraseNone, W)
  BY <1>2, <1>3, <1>4, BodyConcat, BodyOptional DEF ProtectSectors, EraseNone, WaitEraseDone
<1> DEFINE unprotect == [p \in 1..Parts |-> UnprotectSector(p)]
           erase == [p \in 1..Parts |-> EraseSector(p)]
           word == [p \in 1..Parts |-> WriteReg(Write("flash", p)) \o WaitWriteDone]
<1>6. ASSUME NEW p \in 1..Parts
      PROVE  Body(unprotect[p], W) /\ Body(erase[p], W) /\ Body(word[p], W)
  <2>1. Body(UnprotectSector(p), W)
    BY <1>2, <1>3, <1>4, BodyConcat DEF UnprotectSector
  <2>2. Body(EraseSector(p), W)
    BY <1>2, <1>3, <1>4, BodyConcat DEF EraseSector, WaitEraseDone
  <2>3. Body(WriteReg(Write("flash", p)) \o WaitWriteDone, W)
    BY <1>2, <1>3, <1>4, BodyConcat DEF WaitWriteDone
  <2> QED
    BY <2>1, <2>2, <2>3
<1>7. ProgramRpd = ((((((ValidateProfile \o <<Check("wrongSize")>>) \o ForEach(unprotect))
        \o ForEach(erase)) \o EraseNone) \o ForEach(word)) \o ProtectSectors)
  BY DEF ProgramRpd
<1> HIDE DEF unprotect, erase, word
<1>8. Body(ForEach(unprotect), W) /\ Body(ForEach(erase), W) /\ Body(ForEach(word), W)
  BY <1>6, BodyForEach
<1>9. /\ Body(ValidateProfile \o <<Check("wrongSize")>>, Looks)
      /\ Body(<<Check("empty")>>, Looks) /\ Body(SetupMux, Looks)
  BY SubjectsListed, LooksPlain, BodyOne, BodyConcat DEF ValidateProfile, SetupMux
<1>10. Split((ValidateProfile \o <<Check("wrongSize")>>) \o ForEach(unprotect), Looks, W, {})
  BY <1>8, <1>9, SplitHere
<1>11. Split(ProgramRpd, Looks, W, {})
  BY <1>5, <1>7, <1>8, <1>10, SplitLast
<1>12. Split(Max10, Looks, W, {})
  BY <1>9, <1>11, SplitFirst DEF Max10, UpdateDevice, Max10UpdateFirmware
<1> DEFINE d == DriverAs(Max10, FALSE)
           n == CellsOf("flash", 0)
           Opened == Stored({}, {"open"})
<1> HIDE DEF d
<1>13. Opened \in Knowledge /\ Passes(d, ForEach(unprotect), Nothing, Opened)
  <2>1. {} \in SUBSET Cell /\ {} \in SUBSET Flags /\ {"open"} \in SUBSET Flags
    BY DEF Flags
  <2>2. Opened \in Knowledge
    BY <2>1, KnownKnowledge
  <2>3. \A p \in 1..Parts : Passes(d, unprotect[p], Nothing, Opened)
    <3>1. Passes(d, ReadReg \o WriteReg(Unlock), Stored({}, {}), Stored({}, {"open"}))
      BY <2>1, Max10Opens
    <3> QED
      BY <3>1 DEF UnprotectSector, unprotect, Nothing
  <2>4. \A p \in 1..Parts : Passes(d, unprotect[p], Opened, Opened)
    BY <2>3, FromNothing
  <2> DEFINE I == [p \in 0..Parts |-> IF p = 0 THEN Nothing ELSE Opened]
  <2>5. /\ I \in [0..Parts -> Knowledge] /\ I[0] = Nothing /\ I[Parts] = Opened
        /\ \A p \in 1..Parts : I[p] = Opened /\ I[p - 1] \in {Nothing, Opened}
    <3>1. 0 \in 0..Parts /\ Parts \in 0..Parts /\ Parts # 0
          /\ \A p \in 1..Parts : p \in 0..Parts /\ p # 0 /\ p - 1 \in 0..Parts
      BY LoopAssumption
    <3> HIDE DEF Opened
    <3> QED
      BY <2>2, <3>1, KnownKnowledge
  <2> HIDE DEF I, Opened
  <2>6. \A p \in 1..Parts : Passes(d, unprotect[p], I[p - 1], I[p])
    BY <2>3, <2>4, <2>5
  <2>7. Passes(d, ForEach(unprotect), I[0], I[Parts])
    BY ONLY <2>5, <2>6, PassForEach
  <2> QED
    BY <2>2, <2>5, <2>7
<1>14. Passes(d, ForEach(erase), Opened, Mixed(0))
  <2> DEFINE I == [p \in 0..Parts |-> Clean(p)]
  <2>1. /\ I \in [0..Parts -> Knowledge] /\ I[0] = Clean(0) /\ I[Parts] = Clean(Parts)
        /\ \A p \in 1..Parts : I[p] = Clean(p) /\ I[p - 1] = Clean(p - 1)
    <3>1. 0 \in 0..Parts /\ Parts \in 0..Parts
          /\ \A p \in 1..Parts : p \in 0..Parts /\ p - 1 \in 0..Parts
      BY LoopAssumption
    <3> QED
      BY <3>1, Max10Cells
  <2> HIDE DEF I
  <2>2. \A p \in 1..Parts : Passes(d, erase[p], I[p - 1], I[p])
    BY <2>1, Max10Erase DEF erase
  <2>3. Passes(d, ForEach(erase), I[0], I[Parts])
    BY ONLY <2>1, <2>2, PassForEach
  <2> QED
    BY <2>1, <2>3, Max10Cells
<1>15. Passes(d, ForEach(word), Mixed(0), Mixed(Parts))
  <2> DEFINE I == [p \in 0..Parts |-> Mixed(p)]
  <2>1. /\ I \in [0..Parts -> Knowledge] /\ I[0] = Mixed(0) /\ I[Parts] = Mixed(Parts)
        /\ \A p \in 1..Parts : I[p] = Mixed(p) /\ I[p - 1] = Mixed(p - 1)
    <3>1. 0 \in 0..Parts /\ Parts \in 0..Parts
          /\ \A p \in 1..Parts : p \in 0..Parts /\ p - 1 \in 0..Parts
      BY LoopAssumption
    <3> QED
      BY <3>1, Max10Cells
  <2> HIDE DEF I
  <2>2. \A p \in 1..Parts : Passes(d, word[p], I[p - 1], I[p])
    BY <2>1, Max10Write DEF word
  <2>3. Passes(d, ForEach(word), I[0], I[Parts])
    BY ONLY <2>1, <2>2, PassForEach
  <2> QED
    BY <2>1, <2>3
<1>16. n \in SUBSET Cell /\ {} \in SUBSET Flags /\ {} \subseteq {"open"} /\ n \subseteq n
  BY FlashIs DEF Flags
<1> HIDE DEF n
<1>17. Passes(d, ForEach(word), Mixed(0), Stored(n, {}))
  <2>1. Passes(d, ForEach(word), Mixed(0), Stored(n, {"open"}))
    BY <1>15, Max10Cells DEF n
  <2> QED
    BY ONLY <1>16, <2>1, PassFewer
<1>18. Passes(d, ProtectSectors, Stored(n, {}), Stored(n, {}))
  <2>1. Plain(Ask, Looking \X Subjects)
    BY LookingPlain
  <2>2. Body(ReadReg, Looking \X Subjects) /\ Body(WriteReg(Ask), Looking \X Subjects)
    BY <1>3, <2>1, RetryPlain, BodyOne DEF ReadReg, WriteReg
  <2>3. Body(ProtectSectors, Looking \X Subjects)
    BY <2>2, BodyConcat DEF ProtectSectors
  <2> QED
    BY <1>16, <2>3, KnownKnowledge, PassLook
<1>19. Passes(d, EraseNone, Mixed(0), Mixed(0))
  <2>1. Mixed(0) \in Knowledge
    BY <1>3, Max10Cells
  <2> QED
    BY <2>1, Max10Asks
<1>20. PICK looks : looks = ValidateProfile \o <<Check("wrongSize")>>
  OBVIOUS
<1>21. Passes(d, looks, Nothing, Nothing)
  BY <1>9, <1>20, FreeStart
<1>22. Passes(d, ProgramRpd, Nothing, Stored(n, {}))
  <2>1. Passes(d, (looks \o ForEach(unprotect)) \o ForEach(erase), Nothing, Mixed(0))
    BY ONLY <1>13, <1>14, <1>21, PassConcat
  <2>2. Passes(d, (((looks \o ForEach(unprotect)) \o ForEach(erase)) \o EraseNone)
                     \o ForEach(word), Nothing, Stored(n, {}))
    BY ONLY <1>17, <1>19, <2>1, PassConcat
  <2>3. Passes(d, ((((looks \o ForEach(unprotect)) \o ForEach(erase)) \o EraseNone)
                     \o ForEach(word)) \o ProtectSectors, Nothing, Stored(n, {}))
    BY ONLY <1>18, <2>2, PassConcat
  <2> QED
    BY <1>7, <1>20, <2>3
<1>23. Passes(d, Max10, AtFirst(Max10), Stored(n, {}))
  <2>1. PICK check : check = <<Check("empty")>>
    OBVIOUS
  <2>2. Passes(d, check, Nothing, Nothing) /\ Passes(d, SetupMux, Nothing, Nothing)
    BY <1>9, <2>1, FreeStart
  <2>3. Passes(d, SetupMux \o (check \o ProgramRpd), Nothing, Stored(n, {}))
    BY ONLY <1>22, <2>2, PassConcat
  <2> QED
    BY <2>1, <2>3, FromNothing DEF Max10, UpdateDevice, Max10UpdateFirmware
<1>24. Outlined(Max10, FALSE)
  <2> DEFINE A == {"flash"}
             G == {}
  <2>1. W \subseteq Works(A) \cup {<<"unlock", "none">>} /\ G \subseteq {<<"match", "wrongDevice">>}
    BY DEF W
  <2>2. A \in {{"ram", "nvm"}, {"ram", "nvm", "page2"}, {"flash"}, {"flash", "header", "backup"}}
    OBVIOUS
  <2>3. (A \cap {"flash", "nvm", "page2"}) \X (1..Parts) \subseteq n
    BY DEF n, CellsOf
  <2>4. Split(Max10, Looks, W \cup G, G)
    BY <1>12, Zenon
  <2>5. Passes(DriverAs(Max10, FALSE), Max10, AtFirst(Max10), Stored(n, {}))
    BY <1>23 DEF d
  <2> HIDE DEF A, G
  <2> QED
    BY ONLY <2>1, <2>2, <2>3, <2>4, <2>5, MemoryOutlined
<1> QED
  BY <1>12, <1>24 DEF W

(* What the drivers of the regulators are made of.                           *)
Registers == {"ram", "nvm"}

RegistersWork == Works(Registers)
OpenedWork == RegistersWork \cup {<<"unlock", "none">>}
LockedWork == OpenedWork \cup {<<"lock", "none">>}
PagedWork == Works(Registers \cup {"page2"}) \cup {<<"unlock", "none">>}

Writes(D) ==
  /\ Plain(Ask, D) /\ Plain(Verdict, D) /\ Plain(IfData, D) /\ Plain(Restore, D)
  /\ \A x \in Registers, p \in 0..Parts :
       Plain(Compare(x, p), D) /\ Plain(Write(x, p), D) /\ Plain(Erase(x, p), D)
  /\ \A p \in 0..Parts : Plain(Store(p), D) /\ Plain(Burn(p), D)

LEMMA WritesMore ==
  ASSUME NEW D, NEW E, D \subseteq E, Writes(D)
  PROVE  Writes(E)
<1>1. \A i : Plain(i, D) => Plain(i, E)
  BY DEF Plain
<1> QED
  BY <1>1 DEF Writes

LEMMA RegistersPlain ==
  /\ Writes(RegistersWork) /\ Writes(OpenedWork) /\ Writes(LockedWork)
  /\ Plain(Unlock, OpenedWork) /\ Plain(Unlock, LockedWork) /\ Plain(Lock, LockedWork)
  /\ Writes(PagedWork) /\ Plain(Unlock, PagedWork)
  /\ \A p \in 0..Parts : Plain(Write("page2", p), PagedWork) /\ Plain(Compare("page2", p), PagedWork)
<1>1. Registers \subseteq Subjects
  BY DEF Registers, Subjects
<1>2. "nvm" \in Registers /\ "ram" \in Registers /\ Registers \ {"spare"} = Registers
  BY DEF Registers
<1>3. \A x \in Registers : x \in Subjects
  BY <1>1
<1>4. Writes(RegistersWork)
  BY <1>1, <1>2, <1>3, WorksPlain DEF RegistersWork, Writes
<1>5. RegistersWork \subseteq OpenedWork /\ OpenedWork \subseteq LockedWork
  BY DEF OpenedWork, LockedWork
<1>6. Writes(OpenedWork)
  BY <1>4, <1>5, WritesMore
<1>7. Writes(LockedWork)
  BY <1>5, <1>6, WritesMore
<1>8. Plain(Unlock, OpenedWork) /\ Plain(Lock, LockedWork)
  BY SpecialPlain DEF OpenedWork, LockedWork
<1>9. Plain(Unlock, LockedWork)
  BY <1>5, <1>8 DEF Plain
<1>10. Writes(PagedWork) /\ Plain(Unlock, PagedWork)
  <2>1. OpenedWork \subseteq PagedWork
    BY DEF OpenedWork, RegistersWork, PagedWork, Works
  <2> QED
    BY <1>6, <1>8, <2>1, WritesMore DEF Plain
<1>11. ASSUME NEW p \in 0..Parts
       PROVE  Plain(Write("page2", p), PagedWork) /\ Plain(Compare("page2", p), PagedWork)
  <2> DEFINE A == Registers \cup {"page2"}
  <2>1. A \subseteq Subjects /\ "page2" \in A /\ "page2" \in Subjects
    BY <1>1, SubjectsListed
  <2> HIDE DEF A
  <2>2. Plain(Write("page2", p), Works(A)) /\ Plain(Compare("page2", p), Works(A))
    BY <2>1, WorksPlain
  <2> QED
    BY <2>2 DEF Plain, PagedWork, A
<1> QED
  BY <1>4, <1>6, <1>7, <1>8, <1>9, <1>10, <1>11

(* Regulators that are found to hold the image in their memory.               *)
LEMMA RegulatorOutlined ==
  ASSUME NEW verify, NEW D, Body(verify, D), NEW update,
         NEW code, code = VrUpdateDevice(verify, update), NEW blind,
         NEW E \in {RegistersWork, OpenedWork, PagedWork}, Split(code, Looks, E, {}),
         NEW n, CellsOf("nvm", 0) \subseteq n, E = PagedWork => CellsOf("page2", 0) \subseteq n, NEW f,
         Passes(DriverAs(code, blind), update, Nothing, Stored(n, f))
  PROVE  Outlined(code, blind)
<1> DEFINE A == IF E = PagedWork THEN {"ram", "nvm", "page2"} ELSE {"ram", "nvm"}
<1>1. E \subseteq Works(A) \cup {<<"unlock", "none">>}
  BY DEF PagedWork, OpenedWork, RegistersWork, Registers
<1>2. A \in {{"ram", "nvm"}, {"ram", "nvm", "page2"}, {"flash"}, {"flash", "header", "backup"}}
  OBVIOUS
<1>3. (A \cap {"flash", "nvm", "page2"}) \X (1..Parts) \subseteq n
  BY DEF CellsOf
<1>4. Split(code, Looks, E \cup {}, {})
  BY Zenon
<1> HIDE DEF A
<1>5. Passes(DriverAs(code, blind), verify, Nothing, Nothing)
  BY FreeStart
<1>6. Passes(DriverAs(code, blind), code, Nothing, Stored(n, f))
  BY <1>5, PassVr
<1>7. Passes(DriverAs(code, blind), code, AtFirst(code), Stored(n, f))
  BY <1>6, FromNothing
<1>8. {} \subseteq {<<"match", "wrongDevice">>}
  OBVIOUS
<1> QED
  BY ONLY <1>1, <1>2, <1>3, <1>4, <1>7, <1>8, MemoryOutlined

LEMMA PagesApart == RegistersWork # PagedWork /\ OpenedWork # PagedWork
<1>1. <<"write", "page2">> \in PagedWork
  BY DEF PagedWork, Works, Changing
<1>2. <<"write", "page2">> \notin OpenedWork /\ <<"write", "page2">> \notin RegistersWork
  BY DEF OpenedWork, RegistersWork, Works, Changing, Testing, Registers
<1> QED
  BY <1>1, <1>2

(* The live registers are written one by one.                                 *)
LEMMA PassRegisters ==
  ASSUME NEW d, NEW f \in SUBSET Flags, NEW body,
         \A p \in 1..Parts : \A n \in SUBSET Cell :
           Passes(d, body[p], Stored(n, f), Stored(n \cup CellsOf("ram", p), f))
  PROVE  Passes(d, ForEach(body), Stored({}, f), Stored(CellsOf("ram", 0), f))
<1>1. "ram" \in Places
  BY DEF Places, Areas, Images
<1>2. ASSUME NEW p \in 1..Parts
      PROVE  Passes(d, body[p], UpTo("ram", p - 1, f), UpTo("ram", p, f))
  <2>1. p - 1 \in 0..Parts
    BY LoopAssumption
  <2>2. PICK n : n = {"ram"} \X (1..p - 1)
    OBVIOUS
  <2>3. n \in SUBSET Cell
    BY <1>1, <2>1, <2>2, CellsIn
  <2>4. n \cup CellsOf("ram", p) = {"ram"} \X (1..p)
    BY <2>2, PartMore
  <2>5. Passes(d, body[p], Stored(n, f), Stored(n \cup CellsOf("ram", p), f))
    BY <2>3
  <2> QED
    BY <2>2, <2>4, <2>5 DEF UpTo
<1> QED
  BY <1>1, <1>2, PassParts

LEMMA OpenedOutlined ==
  ASSUME NEW code, NEW blind, NEW E \in {RegistersWork, OpenedWork}, Split(code, Looks, E, {}), NEW f,
         Passes(DriverAs(code, blind), code, AtFirst(code), Stored(CellsOf("nvm", 0), f))
  PROVE  Outlined(code, blind)
<1>1. E \subseteq Works({"ram", "nvm"}) \cup {<<"unlock", "none">>}
  BY DEF OpenedWork, RegistersWork, Registers
<1>2. ({"ram", "nvm"} \cap {"flash", "nvm", "page2"}) \X (1..Parts) \subseteq CellsOf("nvm", 0)
  BY DEF CellsOf
<1>3. Split(code, Looks, E \cup {}, {}) /\ {} \subseteq {<<"match", "wrongDevice">>}
  BY Zenon
<1> QED
  BY <1>1, <1>2, <1>3, MemoryOutlined

LEMMA MemoryRead ==
  ASSUME NEW d
  PROVE  /\ Passes(d, <<Compare("nvm", 0)>>, Nothing, Stored(CellsOf("nvm", 0), {}))
         /\ Passes(d, <<Ask, Compare("nvm", 0)>>, Nothing, Stored(CellsOf("nvm", 0), {}))
         /\ \A a, D : Body(a, D) =>
              Passes(d, Rounds(a \o <<Compare("nvm", 0)>>, Tries), Nothing, Stored(CellsOf("nvm", 0), {}))
BY PassReadBack DEF Places, Areas, Images

(* A regulator of which nobody changes the protection can be written.         *)
LEMMA OpenAtFirst ==
  ASSUME NEW code, Split(code, Looks, RegistersWork, {})
  PROVE  AtFirst(code) = Stored({}, {"open"})
<1>1. \A k \in 1..Len(code) : Kind(code[k]) \in Looks \cup RegistersWork
  BY DEF Split, Body
<1>2. \A at : <<"unlock", at>> \notin Looks \cup RegistersWork
              /\ <<"lock", at>> \notin Looks \cup RegistersWork
  BY DEF Looks, Refusing, RegistersWork, Works, Testing, Changing
<1>3. ~Protects(code)
  BY <1>1, <1>2 DEF Kind, Has, Protects
<1> QED
  BY <1>3 DEF AtFirst, Stored, Known

LEMMA ISL69269Fine == Split(ISL69269, Looks, RegistersWork, {}) /\ Outlined(ISL69269, TRUE)
<1>1. 1..Parts \subseteq 0..Parts /\ 0 \in 0..Parts /\ Tries \in 1..Tries
  BY TriesIn
<1>2. 0 \in Nat /\ \A i : Plain(i, Looks) => Body(DmaReadWrite(i), Looks)
  BY LooksPlain, BodyTwo DEF DmaReadWrite
<1>3. /\ Body(GetHexMode, Looks) /\ Body(IslGetRemainingWrites, Looks) /\ Body(IslGetCRC, Looks)
      /\ Body(IslParseImage, Looks) /\ Body(IslCheckImage, Looks) /\ Body(IslGetDeviceId, Looks)
      /\ Body(IslGetDeviceRevision, Looks) /\ Body(<<Check("wrongMode")>>, Looks)
  BY <1>2, LooksPlain, SubjectsListed, BodyOne, BodyTwo
     DEF GetHexMode, IslGetRemainingWrites, IslGetCRC, IslParseImage, IslCheckImage,
         IslGetDeviceId, IslGetDeviceRevision
<1> DEFINE read == ((GetHexMode \o IslParseImage) \o IslCheckImage) \o <<Check("wrongMode")>>
<1>4. /\ Body(read, Looks) /\ Body(IslVerifyImage, Looks)
      /\ IslVerifyImage = (((read \o IslGetRemainingWrites) \o IslGetDeviceId) \o IslGetDeviceRevision)
                             \o IslGetCRC
  BY <1>3, BodyConcat DEF IslVerifyImage
<1> HIDE DEF read
<1> DEFINE record == [p \in 1..Parts |-> <<Ignored(Write("ram", p))>>]
<1>5. \A p \in 1..Parts : Body(record[p], RegistersWork)
  BY <1>1, RegistersPlain, IgnoredPlain, BodyOne DEF Writes, Registers
<1>6. /\ IslProgram = Guarded(IfData, ForEach(record) \o <<Ignored(Burn(0))>>) \o IslGetProgStatus
      /\ \A p \in 1..Parts : record[p] = <<Ignored(Write("ram", p))>>
  BY DEF IslProgram
<1> HIDE DEF record
<1>7. Body(ForEach(record) \o <<Ignored(Burn(0))>>, RegistersWork)
  BY <1>1, <1>5, BodyForEach, RegistersPlain, IgnoredPlain, BodyOne, BodyConcat DEF Writes
<1>8. Body(IslGetProgStatus, RegistersWork)
  <2>1. Plain(Verdict, RegistersWork) /\ Plain(Ask, RegistersWork)
    BY RegistersPlain DEF Writes
  <2>2. Body(DmaReadWrite(Ask), RegistersWork) /\ Body(<<Verdict>>, RegistersWork)
    BY <2>1, BodyOne, BodyTwo DEF DmaReadWrite
  <2> QED
    BY <1>1, <2>2, BodyConcat, BodyRounds DEF IslGetProgStatus
<1>9. Body(IslProgram, RegistersWork)
  BY <1>6, <1>7, <1>8, RegistersPlain, BodyGuarded, BodyConcat DEF Writes
<1>10. Split(ISL69269, Looks, RegistersWork, {})
  BY <1>4, <1>9, SplitHere DEF ISL69269, VrUpdateDevice, IslUpdateFirmware
<1> DEFINE d == DriverAs(ISL69269, TRUE)
           f == {"open"}
           g == {"open", "cells"}
           n == CellsOf("nvm", 0)
           m == CellsOf("ram", 0)
<1>11. /\ d.blind = TRUE /\ f \in SUBSET Flags /\ g \in SUBSET Flags /\ {} \in SUBSET Flags
       /\ "open" \in g /\ "cells" \in g /\ f \cup {"cells"} = g
  BY DEF DriverAs, Flags
<1>12. n \in SUBSET Cell /\ m \in SUBSET Cell /\ {} \in SUBSET Cell /\ n \cup m \in SUBSET Cell
  BY <1>1, CellsIn DEF Places, Areas, Images
<1>13. AtFirst(ISL69269) = Stored({}, f) /\ Passes(d, read, Stored({}, f), Stored({}, f))
  BY <1>4, <1>10, OpenAtFirst, PassLooks
<1> HIDE DEF d, f, g, n, m
<1>14. Passes(d, IslGetRemainingWrites, Stored({}, f), Stored({}, g))
  <2>1. Passes(d, <<Room(0)>>, Known({}, {}, {}, {}, f), Known({}, {}, {}, {}, f \cup {"cells"}))
    BY ONLY <1>11, <1>12, PassFlag
  <2>2. PICK i : i = Room(0)
    OBVIOUS
  <2>3. Passes(d, <<i>>, Stored({}, f), Stored({}, g))
    BY <1>11, <2>1, <2>2 DEF Stored
  <2>4. i \in Instructions /\ Stored({}, f) \in Knowledge
    BY <1>11, <1>12, <2>2, SimpleOnes, KnownKnowledge DEF Simple
  <2>5. Passes(d, <<Ask, i>>, Stored({}, f), Stored({}, g))
    BY ONLY <2>3, <2>4, TwoLooks
  <2> QED
    BY <2>2, <2>5 DEF IslGetRemainingWrites, DmaReadWrite
<1>15. Passes(d, IslVerifyImage, Stored({}, f), Stored({}, g))
  <2>1. /\ Plain(Ask, Looking \X Subjects) /\ Plain(Match("wrongDevice"), Looking \X Subjects)
        /\ Plain(Match("same"), Looking \X Subjects)
    BY LookingPlain, SubjectsListed
  <2>2. /\ Body(IslGetDeviceId, Looking \X Subjects) /\ Body(IslGetDeviceRevision, Looking \X Subjects)
        /\ Body(IslGetCRC, Looking \X Subjects)
    BY <2>1, BodyOne, BodyTwo DEF IslGetDeviceId, IslGetDeviceRevision, IslGetCRC, DmaReadWrite
  <2>3. Stored({}, g) \in Knowledge
    BY <1>11, <1>12, KnownKnowledge
  <2>4. /\ Passes(d, IslGetDeviceId, Stored({}, g), Stored({}, g))
        /\ Passes(d, IslGetDeviceRevision, Stored({}, g), Stored({}, g))
        /\ Passes(d, IslGetCRC, Stored({}, g), Stored({}, g))
    BY <2>2, <2>3, PassLook
  <2> QED
    BY ONLY <1>4, <1>13, <1>14, <2>4, PassConcat
<1>16. Passes(d, ForEach(record), Stored({}, g), Stored(m, g))
  <2>1. ASSUME NEW p \in 1..Parts, NEW k \in SUBSET Cell
        PROVE  Passes(d, record[p], Stored(k, g), Stored(k \cup CellsOf("ram", p), g))
    <3>1. PICK i : i = Write("ram", p)
      OBVIOUS
    <3>2. i.do = "write" /\ i.at = "ram" /\ i.part = p
      BY <3>1 DEF Write, Instruction
    <3>3. Simple(i) /\ k \cup CellsOf("ram", p) \in SUBSET Cell
      <4>1. "ram" \in Places /\ p \in 0..Parts
        BY <1>1 DEF Places, Areas, Images
      <4> QED
        BY <3>1, <4>1, SimpleOnes, CellsIn
    <3>4. /\ Stored(k, g) \in Knowledge /\ Stored(k \cup CellsOf("ram", p), g) \in Knowledge
          /\ Changes(i)
      BY <1>11, <3>2, <3>3, KnownKnowledge DEF Changes
    <3>5. Teaches(d, i, Stored(k, g), Stored(k \cup CellsOf("ram", p), g))
      BY <1>11, <3>2, WriteTeaches
    <3>6. Passes(d, <<Ignored(i)>>, Stored(k, g), Stored(k \cup CellsOf("ram", p), g))
      BY ONLY <1>11, <3>3, <3>4, <3>5, PassIgnored
    <3> QED
      BY <1>6, <3>1, <3>6
  <2> QED
    BY ONLY <1>11, <2>1, PassRegisters DEF m
<1>17. Passes(d, <<Ignored(Burn(0))>>, Stored(m, g), Stored(n \cup m, f))
  <2>1. PICK i : i = Burn(0)
    OBVIOUS
  <2>2. i.do = "burn" /\ i.at = "nvm" /\ i.part = 0
    BY <2>1 DEF Burn, Instruction
  <2>3. Changes(i) /\ g \ Gone(i) = f /\ Simple(i)
    BY <1>1, <2>1, <2>2, SimpleOnes DEF Changes, Gone, Spends, f, g
  <2>4. Stored(m, g) \in Knowledge /\ Stored(n \cup m, f) \in Knowledge
    BY <1>11, <1>12, KnownKnowledge
  <2>5. CellsOf("ram", i.part) \subseteq m /\ i.do \in {"store", "burn"} /\ (Spends(i) => "cells" \in g)
    BY <1>11, <2>2 DEF m
  <2>6. Teaches(d, i, Stored(m, g), WhenStored(d, i, m, g))
    BY ONLY <1>11, <2>2, <2>5, StoreTeaches
  <2>7. WhenStored(d, i, m, g) = Stored(n \cup m, f)
    <3>1. m \cup n = n \cup m
      OBVIOUS
    <3> QED
      BY <1>11, <2>2, <2>3, <3>1 DEF WhenStored, n
  <2>8. Passes(d, <<Ignored(i)>>, Stored(m, g), Stored(n \cup m, f))
    BY ONLY <1>11, <2>3, <2>4, <2>6, <2>7, PassIgnored
  <2> QED
    BY <2>1, <2>8
<1>18. Passes(d, Guarded(IfData, ForEach(record) \o <<Ignored(Burn(0))>>), Stored({}, g), Stored(n, f))
  <2>1. Passes(d, ForEach(record) \o <<Ignored(Burn(0))>>, Stored({}, g), Stored(n \cup m, f))
    BY ONLY <1>16, <1>17, PassConcat
  <2>2. n \subseteq n \cup m /\ f \subseteq f
    OBVIOUS
  <2>3. Passes(d, ForEach(record) \o <<Ignored(Burn(0))>>, Stored({}, g), Stored(n, f))
    BY ONLY <1>11, <1>12, <2>1, <2>2, PassFewer
  <2>4. Stored({}, g) \in Knowledge
    BY <1>11, <1>12, KnownKnowledge
  <2> QED
    BY ONLY <2>3, <2>4, PassGuarded
<1>19. Passes(d, IslGetProgStatus, Stored(n, f), Stored(n, f))
  <2>1. Plain(Ask, Looking \X Subjects) /\ Plain(Verdict, Looking \X Subjects)
    BY LookingPlain
  <2>2. Body(DmaReadWrite(Ask), Looking \X Subjects) /\ Body(<<Verdict>>, Looking \X Subjects)
    BY <2>1, BodyOne, BodyTwo DEF DmaReadWrite
  <2>3. Body(IslGetProgStatus, Looking \X Subjects)
    BY <1>1, <2>2, BodyConcat, BodyRounds DEF IslGetProgStatus
  <2> QED
    BY <1>11, <1>12, <2>3, KnownKnowledge, PassLook
<1>20. Passes(d, ISL69269, AtFirst(ISL69269), Stored(n, f))
  BY <1>6, <1>13, <1>15, <1>18, <1>19, PassConcat, PassVr DEF ISL69269, IslUpdateFirmware
<1> QED
  BY <1>10, <1>20, OpenedOutlined DEF d, n

LEMMA XDPE1X2XXFine == Split(XDPE1X2XX, Looks, RegistersWork, {}) /\ Outlined(XDPE1X2XX, TRUE)
<1>1. 1..Parts \subseteq 0..Parts /\ 0 \in 0..Parts
  BY TriesIn
<1>2. \A D, i, b : Plain(Ask, D) /\ Plain(i, D) /\ Body(b, D) => Body(MfrFWcmd(i, b), D)
  BY BodyTwo, BodyConcat DEF MfrFWcmd
<1>3. Body(XdpeVerifyImage, Looks) /\ Body(<<Ask>>, Looks)
  BY LooksPlain, SubjectsListed, BodyOne, BodyTwo, BodyConcat
     DEF XdpeVerifyImage, XdpeParseImage, XdpeCheckImage
<1>4. Body(GetScratchPadAddress, Looks) /\ Body(XdpeGetRemainingWrites, Looks)
  BY <1>2, <1>3, LooksPlain, SubjectsListed, BodyOne, BodyConcat
     DEF GetScratchPadAddress, XdpeGetRemainingWrites, XdpeGetDeviceId, GetConfigSize
<1>5. Body(XdpeGetCRC, Looks)
  <2>1. Body(<<Match("same")>>, Looks)
    BY LooksPlain, SubjectsListed, BodyOne
  <2> QED
    BY <1>2, <2>1, LooksPlain DEF XdpeGetCRC
<1>6. Body(EnoughRemaining, Looks)
  BY LooksPlain, WarnAssumption, BodyOne DEF EnoughRemaining
<1>7. Body(MfrFWcmd(Erase("nvm", 0), <<>>), RegistersWork)
  <2>1. Plain(Erase("nvm", 0), RegistersWork)
    BY <1>1, RegistersPlain DEF Writes, Registers
  <2> QED
    BY <1>2, <2>1, RegistersPlain, BodyEmpty DEF Writes
<1> DEFINE section == [p \in 1..Parts |->
               <<Ask>> \o MfrFWcmd(Erase("nvm", p), <<>>) \o <<Ask, Write("ram", p)>>
                 \o MfrFWcmd(Burn(p), <<>>) \o StatusFaultRead]
<1>8. ASSUME NEW p \in 1..Parts PROVE Body(section[p], RegistersWork)
  <2>1. /\ Plain(Erase("nvm", p), RegistersWork) /\ Plain(Burn(p), RegistersWork)
        /\ Plain(Write("ram", p), RegistersWork) /\ Plain(Ask, RegistersWork)
    BY <1>1, RegistersPlain DEF Writes, Registers
  <2>2. /\ Body(MfrFWcmd(Erase("nvm", p), <<>>), RegistersWork)
        /\ Body(MfrFWcmd(Burn(p), <<>>), RegistersWork)
    BY <1>2, <2>1, BodyEmpty
  <2>3. /\ Body(<<Ask, Write("ram", p)>>, RegistersWork) /\ Body(<<Ask>>, RegistersWork)
        /\ Body(StatusFaultRead, RegistersWork)
    BY <2>1, BodyOne, BodyTwo DEF StatusFaultRead
  <2>4. Body((((<<Ask>> \o MfrFWcmd(Erase("nvm", p), <<>>)) \o <<Ask, Write("ram", p)>>)
               \o MfrFWcmd(Burn(p), <<>>)) \o StatusFaultRead, RegistersWork)
    BY ONLY <2>2, <2>3, BodyConcat
  <2> QED
    BY <2>4
<1>9. XdpeProgram = ((((XdpeGetCRC \o XdpeGetRemainingWrites) \o EnoughRemaining)
         \o MfrFWcmd(Erase("nvm", 0), <<>>)) \o Guarded(IfData, ForEach(section)))
  BY DEF XdpeProgram
<1> HIDE DEF section
<1>10. Body(Guarded(IfData, ForEach(section)), RegistersWork)
  BY <1>8, BodyForEach, RegistersPlain, BodyGuarded DEF Writes
<1>11. Body((XdpeGetCRC \o XdpeGetRemainingWrites) \o EnoughRemaining, Looks)
  BY <1>4, <1>5, <1>6, BodyConcat
<1>12. Split(XdpeProgram, Looks, RegistersWork, {})
  <2>1. Split(((XdpeGetCRC \o XdpeGetRemainingWrites) \o EnoughRemaining)
                 \o MfrFWcmd(Erase("nvm", 0), <<>>), Looks, RegistersWork, {})
    BY <1>7, <1>11, SplitHere
  <2> QED
    BY <1>9, <1>10, <2>1, SplitLast
<1>13. Split(XDPE1X2XX, Looks, RegistersWork, {})
  BY <1>3, <1>4, <1>12, SplitFirst DEF XDPE1X2XX, VrUpdateDevice, XdpeUpdateFirmware
<1> DEFINE d == DriverAs(XDPE1X2XX, TRUE)
           f == {"open"}
           g == {"open", "cells"}
           n == CellsOf("nvm", 0)
<1>14. /\ d.blind = TRUE /\ f \in SUBSET Flags /\ g \in SUBSET Flags /\ "open" \in f
       /\ "open" \in g /\ "cells" \in g /\ f \cup {"cells"} = g
  BY DEF DriverAs, Flags
<1>15. "nvm" \in Places /\ "ram" \in Places /\ {} \in SUBSET Cell
  BY DEF Places, Areas, Images
<1>16. AtFirst(XDPE1X2XX) = Stored({}, f)
  BY <1>13, OpenAtFirst
<1>17. /\ Passes(d, XdpeVerifyImage, Stored({}, f), Stored({}, f))
       /\ Passes(d, GetScratchPadAddress, Stored({}, f), Stored({}, f))
       /\ Passes(d, XdpeGetCRC \o XdpeGetRemainingWrites, Stored({}, f), Stored({}, f))
  <2>1. Body(XdpeGetCRC \o XdpeGetRemainingWrites, Looks)
    BY <1>4, <1>5, BodyConcat
  <2> QED
    BY <1>3, <1>4, <1>16, <2>1, PassLooks
<1> HIDE DEF d, f, g, n
<1>18. Passes(d, EnoughRemaining, Stored({}, f), Stored({}, g))
  <2>1. Passes(d, <<Room(WarnRemaining)>>, Known({}, {}, {}, {}, f), Known({}, {}, {}, {}, f \cup {"cells"}))
    BY ONLY <1>14, <1>15, PassFlag
  <2> QED
    BY <1>14, <2>1 DEF Stored, EnoughRemaining
<1>19. ASSUME NEW k \in SUBSET Cell, NEW h \in SUBSET Flags, NEW p \in 0..Parts,
              CellsOf("nvm", p) \cap k = {}
       PROVE  Passes(d, MfrFWcmd(Erase("nvm", p), <<>>), Stored(k, h), Stored(k, h))
  <2>1. PICK i : i = Erase("nvm", p)
    OBVIOUS
  <2>2. Simple(i) /\ i.do = "erase" /\ i.at = "nvm" /\ i.part = p
    BY <1>15, <2>1, SimpleOnes DEF Erase, Instruction
  <2>3. Changes(i) /\ i.do # "burn" /\ Named(i) \cap k = {}
    BY <1>19, <2>2, CellsIn DEF Changes
  <2>4. Keeps(d, i, Stored(k, h)) /\ Stored(k, h) \in Knowledge
    BY <2>2, <2>3, WorkKeeps, KnownKnowledge DEF Simple
  <2>5. Passes(d, <<Ask, i>>, Stored(k, h), Stored(k, h))
    BY <2>2, <2>4, PassSimply DEF Keeps, Teaches
  <2>6. Passes(d, <<>>, Stored(k, h), Stored(k, h))
    BY <2>4, PassEmpty
  <2> QED
    BY <2>1, <2>5, <2>6, PassConcat DEF MfrFWcmd
<1>20. Passes(d, MfrFWcmd(Erase("nvm", 0), <<>>), Stored({}, g), Stored({}, g))
  <2>1. CellsOf("nvm", 0) \cap {} = {}
    OBVIOUS
  <2> QED
    BY ONLY <1>1, <1>14, <1>15, <1>19, <2>1
<1> DEFINE I == [p \in 0..Parts |-> IF p = 0 THEN Stored({}, g) ELSE UpTo("nvm", p, f)]
<1>21. ASSUME NEW p \in 1..Parts PROVE Passes(d, section[p], I[p - 1], I[p])
  <2>1. p - 1 \in 0..Parts /\ p \in 0..Parts /\ p # 0 /\ (p - 1 = 0 <=> p = 1)
    BY LoopAssumption
  <2>2. PICK k, r, h : k = {"nvm"} \X (1..p - 1) /\ r = CellsOf("ram", p) /\ h = IF p = 1 THEN g ELSE f
    OBVIOUS
  <2>3. I[p - 1] = Stored(k, h) /\ I[p] = UpTo("nvm", p, f)
    <3>1. CASE p = 1
      <4>1. k = {}
        BY <2>1, <2>2, <3>1
      <4> QED
        BY <2>1, <2>2, <3>1, <4>1
    <3>2. CASE p # 1
      BY <2>1, <2>2, <3>2 DEF UpTo
    <3> QED
      BY <3>1, <3>2
  <2> HIDE DEF I
  <2>4. h \in SUBSET Flags /\ "open" \in h
    BY <1>14, <2>2
  <2>5. k \in SUBSET Cell /\ k \cup r \in SUBSET Cell
    BY <1>15, <2>1, <2>2, CellsIn
  <2>6. Stored(k, h) \in Knowledge
    BY <2>4, <2>5, KnownKnowledge
  <2>7. Passes(d, <<Ask>>, Stored(k, h), Stored(k, h))
    BY <2>6, TwoLooks
  <2>8. Passes(d, MfrFWcmd(Erase("nvm", p), <<>>), Stored(k, h), Stored(k, h))
    BY <1>19, <2>1, <2>2, <2>4, <2>5, PartMore
  <2>9. Passes(d, <<Ask, Write("ram", p)>>, Stored(k, h), Stored(k \cup r, h))
    BY <2>2, <2>4, <2>5, PassRegister
  <2>10. PICK i : i = Burn(p)
    OBVIOUS
  <2>11. /\ i \in {Store(p), Burn(p)} /\ (Spends(i) => "cells" \in h)
         /\ CellsOf("ram", p) \subseteq k \cup r
    <3>1. i.do = "burn" /\ i.part = p
      BY <2>10 DEF Burn, Instruction
    <3> QED
      BY <1>14, <2>1, <2>2, <2>10, <3>1 DEF Spends
  <2>12. PICK l, e, q : l = (k \cup r) \cup CellsOf("nvm", p) /\ e = h \ Gone(i) /\ q = {"nvm"} \X (1..p)
    OBVIOUS
  <2>13. f \subseteq e
    <3>1. i.do = "burn"
      BY <2>10 DEF Burn, Instruction
    <3>2. Gone(i) \subseteq {"cells"}
      BY <3>1 DEF Gone
    <3> QED
      BY <2>2, <2>12, <3>2 DEF f, g
  <2>14. Passes(d, <<Ask, i>>, Stored(k \cup r, h), Stored(l, e))
    <3>1. Passes(d, <<Ask, i>>, Stored(k \cup r, h),
                 IF d.blind THEN Stored((k \cup r) \cup CellsOf("nvm", p), h \ Gone(i))
                 ELSE Known({}, {}, CellsOf("nvm", p), {}, h \ Gone(i)))
      BY ONLY <2>1, <2>4, <2>5, <2>11, PassStore
    <3> QED
      BY <1>14, <2>12, <3>1
  <2>15. q \subseteq l /\ q \in SUBSET Cell
    BY <1>15, <2>1, <2>2, <2>12, PartMore, CellsIn
  <2>16. Passes(d, <<Ask, i>>, Stored(k \cup r, h), Stored(q, f))
    BY ONLY <1>14, <2>13, <2>14, <2>15, PassFewer
  <2>17. Stored(q, f) \in Knowledge
    BY <1>14, <2>15, KnownKnowledge
  <2>18. Passes(d, MfrFWcmd(Burn(p), <<>>), Stored(k \cup r, h), Stored(q, f))
    BY <2>10, <2>16, <2>17, PassEmpty, PassConcat DEF MfrFWcmd
  <2>19. Passes(d, StatusFaultRead, Stored(q, f), Stored(q, f))
    BY <2>17, TwoLooks DEF StatusFaultRead
  <2>20. section[p] = (((<<Ask>> \o MfrFWcmd(Erase("nvm", p), <<>>)) \o <<Ask, Write("ram", p)>>)
                         \o MfrFWcmd(Burn(p), <<>>)) \o StatusFaultRead
    BY DEF section
  <2>21. Passes(d, section[p], Stored(k, h), Stored(q, f))
    BY ONLY <2>7, <2>8, <2>9, <2>18, <2>19, <2>20, PassConcat
  <2> QED
    BY <2>3, <2>12, <2>21 DEF UpTo
<1>22. Passes(d, ForEach(section), Stored({}, g), Stored(n, f))
  <2>1. /\ I \in [0..Parts -> Knowledge] /\ I[0] = Stored({}, g) /\ I[Parts] = Stored(n, f)
    <3>1. \A p \in 0..Parts : UpTo("nvm", p, f) \in Knowledge
      BY <1>14, <1>15, CellsIn, KnownKnowledge DEF UpTo
    <3>2. Stored({}, g) \in Knowledge
      BY <1>14, <1>15, KnownKnowledge
    <3>3. UpTo("nvm", Parts, f) = Stored(n, f)
      BY DEF UpTo, CellsOf, n
    <3>4. 0 \in 0..Parts /\ Parts \in 0..Parts /\ Parts # 0
      BY LoopAssumption
    <3> QED
      BY <3>1, <3>2, <3>3, <3>4
  <2> HIDE DEF I
  <2>2. Passes(d, ForEach(section), I[0], I[Parts])
    BY ONLY <1>21, <2>1, PassForEach
  <2> QED
    BY <2>1, <2>2
<1>23. Passes(d, XdpeProgram, Stored({}, f), Stored(n, f))
  <2>1. Passes(d, Guarded(IfData, ForEach(section)), Stored({}, g), Stored(n, f))
    BY <1>14, <1>15, <1>22, KnownKnowledge, PassGuarded
  <2> QED
    BY ONLY <1>9, <1>17, <1>18, <1>20, <2>1, PassConcat
<1>24. Passes(d, XDPE1X2XX, AtFirst(XDPE1X2XX), Stored(n, f))
  BY <1>16, <1>17, <1>23, PassConcat, PassVr DEF XDPE1X2XX, XdpeUpdateFirmware
<1> QED
  BY <1>13, <1>24, OpenedOutlined DEF d, n

(* The regulators of MPS ask the chip for its name before they write.        *)
LEMMA MpsLooks ==
  /\ Body(MpsParseImage, Looks) /\ Body(MissingIds, Looks)
  /\ Body(Mp2x6CheckId, Looks) /\ Body(Mp297CheckId, Looks) /\ Body(Mpq87CheckId, Looks)
  /\ Body(Mpx9CheckId, Looks) /\ Body(Mp5998CheckId, Looks) /\ Body(IsPasswordUnlock, Looks)
BY LooksPlain, SubjectsListed, BodyOne, BodyTwo
   DEF MpsParseImage, MpsParse, MissingIds, Mp2x6CheckId, Mp297CheckId, Mpq87CheckId,
       Mpx9CheckId, Mp5998CheckId, IsPasswordUnlock

LEMMA MP2X6XXFine == Split(MP2X6XX, Looks, OpenedWork, {}) /\ Outlined(MP2X6XX, FALSE)
<1>1. 1..Parts \subseteq 0..Parts /\ 0 \in 0..Parts
  BY TriesIn
<1>2. /\ Body(Mp2x6VerifyImage, Looks)
      /\ Body((Mp2x6CheckId \o Mp2x6CheckId) \o Mp2x6CheckId, Looks)
  BY MpsLooks, BodyConcat DEF Mp2x6VerifyImage
<1>3. Body(Mp2x6UnlockWriteProtect, OpenedWork) /\ Body(Mp2x6CheckMTPCRC, OpenedWork)
  <2>1. Plain(Compare("nvm", 0), OpenedWork)
    BY <1>1, RegistersPlain DEF Writes, Registers
  <2> QED
    BY <2>1, RegistersPlain, BodyTwo DEF Writes, Mp2x6UnlockWriteProtect, Mp2x6CheckMTPCRC, Mp2x6GetCRC
<1> DEFINE config == [p \in 1..Parts |-> SelectConfig(p) \o Mp2x6ProgramConfigData(p)]
<1>4. ASSUME NEW p \in 1..Parts PROVE Body(config[p], OpenedWork)
  <2>1. Plain(Write("ram", p), OpenedWork) /\ Plain(Store(p), OpenedWork)
    BY <1>1, RegistersPlain DEF Writes, Registers
  <2>2. Body(SelectConfig(p), OpenedWork)
    BY RegistersPlain, BodyOne, BodyEmpty DEF Writes, SelectConfig
  <2>3. Body(Mp2x6ProgramConfigData(p), OpenedWork)
    BY <2>1, RegistersPlain, BodyTwo, BodyConcat DEF Writes, Mp2x6ProgramConfigData, StoreUserCode
  <2> QED
    BY <2>2, <2>3, BodyConcat
<1>5. ConfigAllRegisters = ForEach(config)
  BY DEF ConfigAllRegisters
<1> HIDE DEF config
<1>6. Body(ConfigAllRegisters, OpenedWork)
  BY <1>4, <1>5, BodyForEach
<1>7. Split(Mp2x6UpdateFirmware, Looks, OpenedWork, {})
  BY <1>2, <1>3, <1>6, SplitHere, SplitLast DEF Mp2x6UpdateFirmware
<1>8. Split(MP2X6XX, Looks, OpenedWork, {})
  BY <1>2, <1>7, SplitFirst DEF MP2X6XX, VrUpdateDevice
<1>9. \A d : Passes(d, Mp2x6UpdateFirmware, Nothing, Stored(CellsOf("nvm", 0), {}))
  BY <1>2, <1>3, <1>6, FreeStart, MemoryRead, PassConcat
     DEF Mp2x6UpdateFirmware, Mp2x6CheckMTPCRC, Mp2x6GetCRC
<1> QED
  BY <1>2, <1>8, <1>9, RegulatorOutlined, PagesApart DEF MP2X6XX

LEMMA MP297XFine == Split(MP297X, Looks, PagedWork, {}) /\ Outlined(MP297X, FALSE)
<1>1. 1..Parts \subseteq 0..Parts /\ 0 \in 0..Parts /\ Tries \in 1..Tries
  BY TriesIn
<1>2. /\ Body(Mp297VerifyImage, Looks)
      /\ Body((Mp297CheckId \o Mp297CheckId) \o IsPasswordUnlock, Looks)
  BY MpsLooks, BodyConcat DEF Mp297VerifyImage
<1>3. /\ Body(Mp297UnlockWriteProtect, PagedWork) /\ Body(Mp297StoreDataIntoMTP, PagedWork)
      /\ Body(EnableMTPPageWriteRead, PagedWork) /\ Body(EnableMultiConfigCRC, PagedWork)
  BY <1>1, RegistersPlain, BodyOne, BodyTwo
     DEF Writes, Mp297UnlockWriteProtect, Mp297StoreDataIntoMTP, EnableMTPPageWriteRead,
         EnableMultiConfigCRC
<1>4. Body(Mp297CheckMTPCRC, PagedWork)
  <2>1. Plain(Compare("nvm", 0), PagedWork) /\ Plain(Compare("page2", 0), PagedWork)
    BY <1>1, RegistersPlain DEF Writes, Registers
  <2>2. PICK ask, nvm, page2 : ask = Ask /\ nvm = Compare("nvm", 0) /\ page2 = Compare("page2", 0)
    OBVIOUS
  <2>3. /\ Plain(ask, PagedWork) /\ Plain(nvm, PagedWork) /\ Plain(page2, PagedWork)
        /\ ask \in Instructions /\ nvm \in Instructions /\ page2 \in Instructions
    BY <2>1, <2>2, RegistersPlain DEF Writes, Plain
  <2>4. Body(<<ask, nvm>> \o <<ask, page2>>, PagedWork)
    BY <2>3, BodyTwo, BodyConcat
  <2>5. <<ask, nvm, ask, page2>> = <<ask, nvm>> \o <<ask, page2>>
    BY <2>3
  <2> QED
    BY <2>2, <2>4, <2>5 DEF Mp297CheckMTPCRC, Mp297GetCRC
<1>5. ASSUME NEW x \in {"ram", "page2"}, NEW p \in 1..Parts
      PROVE  Body(Mp297ProgramPageRegisters(x, p), PagedWork)
  <2>1. Plain(Write("ram", p), PagedWork) /\ Plain(Write("page2", p), PagedWork)
    BY <1>1, RegistersPlain DEF Writes, Registers
  <2> QED
    BY <1>1, <2>1, RegistersPlain, RetryPlain, BodyTwo DEF Writes, Mp297ProgramPageRegisters
<1> DEFINE page == [p \in 1..Parts |-> Mp297ProgramPageRegisters("ram", p)]
           page2 == [p \in 1..Parts |-> Mp297ProgramPageRegisters("page2", p)]
<1>6. \A p \in 1..Parts : Body(page[p], PagedWork) /\ Body(page2[p], PagedWork)
  BY <1>5
<1>7. Mp297UpdateFirmware =
        ((((((((Mp297CheckId \o Mp297CheckId) \o IsPasswordUnlock) \o Mp297UnlockWriteProtect)
          \o ForEach(page)) \o Mp297StoreDataIntoMTP) \o EnableMTPPageWriteRead)
          \o EnableMultiConfigCRC) \o ForEach(page2)) \o Mp297CheckMTPCRC
  BY DEF Mp297UpdateFirmware
<1> HIDE DEF page, page2
<1>8. Body(ForEach(page), PagedWork) /\ Body(ForEach(page2), PagedWork)
  BY <1>6, BodyForEach
<1>9. Split(((Mp297CheckId \o Mp297CheckId) \o IsPasswordUnlock) \o Mp297UnlockWriteProtect,
            Looks, PagedWork, {})
  BY <1>2, <1>3, SplitHere
<1>10. Split(Mp297UpdateFirmware, Looks, PagedWork, {})
  BY ONLY <1>3, <1>4, <1>7, <1>8, <1>9, SplitLast
<1>11. Split(MP297X, Looks, PagedWork, {})
  BY <1>2, <1>10, SplitFirst DEF MP297X, VrUpdateDevice
<1> DEFINE n == CellsOf("nvm", 0) \cup CellsOf("page2", 0)
<1>12. ASSUME NEW d PROVE Passes(d, Mp297CheckMTPCRC, Nothing, Stored(n, {}))
  <2>1. "nvm" \in Places /\ "page2" \in Places /\ {} \in SUBSET Flags
    BY DEF Places, Areas, Images
  <2>2. PICK m, c : m = CellsOf("nvm", 0) /\ c = Compare("page2", 0)
    OBVIOUS
  <2>3. m \in SUBSET Cell /\ Stored(m, {}) \in Knowledge
    BY <1>1, <2>1, <2>2, CellsIn, KnownKnowledge
  <2>4. c \in Instructions /\ Passes(d, <<c>>, Stored(m, {}), Stored(n, {}))
    BY ONLY <1>1, <2>1, <2>2, <2>3, PassCompare DEF Simple, n
  <2>5. Passes(d, <<Ask, c>>, Stored(m, {}), Stored(n, {}))
    BY <2>3, <2>4, TwoLooks
  <2>6. Passes(d, <<Ask, Compare("nvm", 0)>>, Nothing, Stored(m, {}))
    BY <2>2, MemoryRead
  <2>7. Passes(d, <<Ask, Compare("nvm", 0)>> \o <<Ask, c>>, Nothing, Stored(n, {}))
    BY <2>5, <2>6, PassConcat
  <2>8. PICK ask, nvm : ask = Ask /\ nvm = Compare("nvm", 0)
    OBVIOUS
  <2>9. ask \in Instructions /\ nvm \in Instructions
    BY <1>1, <2>1, <2>8, SimpleOnes DEF Simple
  <2>10. <<ask, nvm, ask, c>> = <<ask, nvm>> \o <<ask, c>>
    BY <2>4, <2>9
  <2> QED
    BY <2>2, <2>7, <2>8, <2>10 DEF Mp297CheckMTPCRC, Mp297GetCRC
<1> HIDE DEF n
<1>13. \A d : Passes(d, Mp297UpdateFirmware, Nothing, Stored(n, {}))
  <2> TAKE d
  <2>1. /\ Passes(d, (Mp297CheckId \o Mp297CheckId) \o IsPasswordUnlock, Nothing, Nothing)
        /\ Passes(d, Mp297UnlockWriteProtect, Nothing, Nothing)
        /\ Passes(d, ForEach(page), Nothing, Nothing)
        /\ Passes(d, Mp297StoreDataIntoMTP, Nothing, Nothing)
        /\ Passes(d, EnableMTPPageWriteRead, Nothing, Nothing)
        /\ Passes(d, EnableMultiConfigCRC, Nothing, Nothing)
        /\ Passes(d, ForEach(page2), Nothing, Nothing)
    BY <1>2, <1>3, <1>8, FreeStart
  <2>2. Passes(d, ((Mp297CheckId \o Mp297CheckId) \o IsPasswordUnlock) \o Mp297UnlockWriteProtect,
               Nothing, Nothing)
    BY ONLY <2>1, PassConcat
  <2> QED
    BY ONLY <1>7, <1>12, <2>1, <2>2, PassConcat
<1>14. CellsOf("nvm", 0) \subseteq n /\ CellsOf("page2", 0) \subseteq n
  BY DEF n
<1> QED
  BY <1>2, <1>11, <1>13, <1>14, RegulatorOutlined DEF MP297X

LEMMA MPQ87XXFine == Split(MPQ87XX, Looks, RegistersWork, {}) /\ Outlined(MPQ87XX, FALSE)
<1>1. 1..Parts \subseteq 0..Parts /\ 0 \in 0..Parts /\ Tries \in 1..Tries
  BY TriesIn
<1>2. Body(Mpq87VerifyImage, Looks)
  BY MpsLooks, BodyConcat DEF Mpq87VerifyImage
<1> DEFINE register == [p \in 1..Parts |-> <<Write("ram", p)>>]
<1>3. \A p \in 1..Parts : Body(register[p], RegistersWork)
  BY <1>1, RegistersPlain, BodyOne DEF Writes, Registers
<1>4. Mpq87ProgramPageRegisters = <<Ask>> \o ForEach(register)
  BY DEF Mpq87ProgramPageRegisters
<1> HIDE DEF register
<1>5. Body(Mpq87ProgramPageRegisters, RegistersWork)
  BY <1>3, <1>4, RegistersPlain, BodyOne, BodyForEach, BodyConcat DEF Writes
<1>6. Body(StoreMTP, RegistersWork) /\ Body(Mpq87VerifyCRC, RegistersWork)
  <2>1. Plain(Compare("nvm", 0), RegistersWork)
    BY <1>1, RegistersPlain DEF Writes, Registers
  <2> QED
    BY <1>1, <2>1, RegistersPlain, BodyOne, BodyTwo DEF Writes, StoreMTP, Mpq87VerifyCRC, Mpq87GetCRC
<1>7. Body(Rounds((Mpq87ProgramPageRegisters \o StoreMTP) \o Mpq87VerifyCRC, Tries), RegistersWork)
  BY <1>1, <1>5, <1>6, BodyConcat, BodyRounds
<1>8. Split(Mpq87UpdateFirmware, Looks, RegistersWork, {})
  BY <1>7, MpsLooks, SplitHere DEF Mpq87UpdateFirmware
<1>9. Split(MPQ87XX, Looks, RegistersWork, {})
  BY <1>2, <1>8, SplitFirst DEF MPQ87XX, VrUpdateDevice
<1>10. ASSUME NEW d PROVE Passes(d, Mpq87UpdateFirmware, Nothing, Stored(CellsOf("nvm", 0), {}))
  <2>1. Passes(d, Rounds((Mpq87ProgramPageRegisters \o StoreMTP) \o Mpq87VerifyCRC, Tries),
               Nothing, Stored(CellsOf("nvm", 0), {}))
    BY <1>5, <1>6, BodyConcat, MemoryRead DEF Mpq87VerifyCRC, Mpq87GetCRC
  <2> QED
    BY <2>1, MpsLooks, FreeStart, PassConcat DEF Mpq87UpdateFirmware
<1> QED
  BY <1>2, <1>9, <1>10, RegulatorOutlined, PagesApart DEF MPQ87XX

LEMMA MPX9XXFine == Split(MPX9XX, Looks, OpenedWork, {}) /\ Outlined(MPX9XX, TRUE)
<1>1. 1..Parts \subseteq 0..Parts /\ 0 \in 0..Parts
  BY TriesIn
<1>2. /\ Body(Mpx9VerifyImage, Looks)
      /\ Body((Mpx9CheckId \o Mpx9CheckId) \o Mpx9CheckId, Looks)
  BY MpsLooks, BodyConcat DEF Mpx9VerifyImage
<1>3. /\ Body(Mpx9UnlockWriteProtect, OpenedWork) /\ Body(Mpx9CheckMTPCRC, OpenedWork)
      /\ Body(DisableStoreFaultTriggering, OpenedWork)
  <2>1. Plain(Compare("ram", 0), OpenedWork)
    BY <1>1, RegistersPlain DEF Writes, Registers
  <2> QED
    BY <2>1, RegistersPlain, BodyOne, BodyTwo
       DEF Writes, Mpx9UnlockWriteProtect, Mpx9CheckMTPCRC, Mpx9GetCRC, DisableStoreFaultTriggering
<1> DEFINE config == [p \in 1..Parts |-> SetMultiConfigAddress(p) \o Mpx9ProgramConfigData(p)]
<1>4. ASSUME NEW p \in 1..Parts PROVE Body(config[p], OpenedWork)
  <2>1. Plain(Write("ram", p), OpenedWork) /\ Plain(Store(p), OpenedWork)
    BY <1>1, RegistersPlain DEF Writes, Registers
  <2>2. Body(SetMultiConfigAddress(p), OpenedWork)
    BY RegistersPlain, BodyOne, BodyEmpty DEF Writes, SetMultiConfigAddress
  <2>3. Body(Mpx9ProgramConfigData(p), OpenedWork)
    BY <2>1, RegistersPlain, BodyTwo, BodyConcat DEF Writes, Mpx9ProgramConfigData, Mpx9StoreDataIntoMTP
  <2> QED
    BY <2>2, <2>3, BodyConcat
<1>5. ProgramAllRegisters = ForEach(config)
  BY DEF ProgramAllRegisters
<1> HIDE DEF config
<1>6. Body(ProgramAllRegisters, OpenedWork)
  BY <1>4, <1>5, BodyForEach
<1>7. ASSUME NEW D, Plain(Ask, D), Plain(Restore, D)
      PROVE  Body(RestoreDataFromNVM, D)
  <2>1. PICK ask, restore : ask = Ask /\ restore = Restore
    OBVIOUS
  <2>2. Plain(ask, D) /\ Plain(restore, D)
    BY <1>7, <2>1
  <2>3. ask \in Instructions /\ restore \in Instructions /\ ask.ok = 1
    BY <2>2 DEF Plain
  <2>4. PICK j : j = Leading(ask, 1, 2)
    OBVIOUS
  <2>5. j = [ask EXCEPT !.no = 2]
    BY <2>3, <2>4 DEF Leading, Instructions
  <2>6. Leads(ask, 1, 2, j)
    <3>1. 1 \in Nat \ {0} /\ 2 \in Nat
      OBVIOUS
    <3> QED
      BY ONLY <2>3, <2>4, <3>1, LeadingLeads
  <2>7. /\ j \in Instructions /\ Fits(ask, 1, 3) /\ Fits(j, 2, 3) /\ Fits(restore, 3, 3)
        /\ Kind(ask) \in D /\ Kind(j) \in D /\ Kind(restore) \in D
    BY <2>2, <2>6 DEF Plain, Fits, Leads
  <2>8. Body(<<ask, j, restore>>, D)
    BY ONLY <2>3, <2>7, BodyThree
  <2> QED
    BY <2>1, <2>5, <2>8 DEF RestoreDataFromNVM
<1>8. Split(((Mpx9CheckId \o Mpx9CheckId) \o Mpx9CheckId) \o Mpx9UnlockWriteProtect,
            Looks, OpenedWork, {})
  BY <1>2, <1>3, SplitHere
<1>9. Split(Mpx9UpdateFirmware, Looks, OpenedWork, {})
  <2>1. Body(RestoreDataFromNVM, OpenedWork)
    BY <1>7, RegistersPlain DEF Writes
  <2> QED
    BY <1>3, <1>6, <1>8, <2>1, SplitLast DEF Mpx9UpdateFirmware
<1>10. Split(MPX9XX, Looks, OpenedWork, {})
  BY <1>2, <1>9, SplitFirst DEF MPX9XX, VrUpdateDevice
<1> DEFINE d == DriverAs(MPX9XX, TRUE)
           f == {"open"}
           n == CellsOf("nvm", 0)
<1>11. d.blind = TRUE /\ f \in SUBSET Flags /\ "open" \in f /\ {} \in SUBSET Flags /\ "cells" \notin f
  BY DEF DriverAs, Flags
<1>12. "nvm" \in Places /\ "ram" \in Places
  BY DEF Places, Areas, Images
<1>13. n \in SUBSET Cell
  BY <1>1, <1>12, CellsIn
<1> HIDE DEF d
<1>14. Passes(d, Mpx9UnlockWriteProtect, Nothing, Stored({}, f))
  <2>1. ({} \ {"locked"}) \cup {"open"} = f /\ {} \in SUBSET Cell
    OBVIOUS
  <2>2. Passes(d, <<Ask, Unlock>>, Known({}, {}, {}, {}, {}),
               Known({}, {}, {}, {}, ({} \ {"locked"}) \cup {"open"}))
    BY ONLY <1>11, <2>1, PassFlag
  <2> QED
    BY <2>1, <2>2 DEF Nothing, Stored, Mpx9UnlockWriteProtect
<1> HIDE DEF f, n
<1>15. ASSUME NEW p \in 1..Parts
       PROVE  Passes(d, config[p], UpTo("nvm", p - 1, f), UpTo("nvm", p, f))
  <2>1. p - 1 \in 0..Parts /\ p \in 0..Parts
    BY LoopAssumption
  <2>2. PICK k, r : k = {"nvm"} \X (1..p - 1) /\ r = CellsOf("ram", p)
    OBVIOUS
  <2>3. k \in SUBSET Cell /\ k \cup r \in SUBSET Cell
    BY <1>12, <2>1, <2>2, CellsIn
  <2>4. Stored(k, f) \in Knowledge
    BY <1>11, <2>3, KnownKnowledge
  <2>5. Passes(d, SetMultiConfigAddress(p), Stored(k, f), Stored(k, f))
    BY <2>4, TwoLooks, PassEmpty DEF SetMultiConfigAddress
  <2>6. Passes(d, <<Ask, Write("ram", p)>>, Stored(k, f), Stored(k \cup r, f))
    BY <1>11, <2>2, <2>3, PassRegister
  <2>7. PICK i : i = Store(p)
    OBVIOUS
  <2>8. i \in {Store(p), Burn(p)} /\ ~Spends(i) /\ f \ Gone(i) = f /\ CellsOf("ram", p) \subseteq k \cup r
    BY <2>2, <2>7 DEF Store, Instruction, Spends, Gone
  <2>9. Passes(d, <<Ask, i>>, Stored(k \cup r, f), Stored((k \cup r) \cup CellsOf("nvm", p), f))
    <3>1. Passes(d, <<Ask, i>>, Stored(k \cup r, f),
                 IF d.blind THEN Stored((k \cup r) \cup CellsOf("nvm", p), f \ Gone(i))
                 ELSE Known({}, {}, CellsOf("nvm", p), {}, f \ Gone(i)))
      BY ONLY <1>11, <2>1, <2>3, <2>8, PassStore
    <3> QED
      BY <1>11, <2>8, <3>1
  <2>10. Passes(d, config[p], Stored(k, f), Stored((k \cup r) \cup CellsOf("nvm", p), f))
    <3>1. config[p] = SetMultiConfigAddress(p) \o (<<Ask, Write("ram", p)>> \o <<Ask, i>>)
      BY <2>7 DEF config, Mpx9ProgramConfigData, Mpx9StoreDataIntoMTP
    <3>2. Passes(d, <<Ask, Write("ram", p)>> \o <<Ask, i>>, Stored(k, f),
                 Stored((k \cup r) \cup CellsOf("nvm", p), f))
      BY <2>6, <2>9, PassConcat
    <3> QED
      BY <2>5, <3>1, <3>2, PassConcat
  <2>11. PICK l : l = {"nvm"} \X (1..p)
    OBVIOUS
  <2>12. l \subseteq (k \cup r) \cup CellsOf("nvm", p) /\ l \in SUBSET Cell
    BY <1>12, <2>1, <2>2, <2>11, PartMore, CellsIn
  <2>13. Passes(d, config[p], Stored(k, f), Stored(l, f))
    BY <1>11, <2>10, <2>12, PassFewer
  <2> QED
    BY <2>2, <2>11, <2>13 DEF UpTo
<1>16. Passes(d, ProgramAllRegisters, Stored({}, f), Stored(n, f))
  BY <1>5, <1>11, <1>12, <1>15, PassParts DEF n
<1>17. Passes(d, RestoreDataFromNVM, Stored(n, f), Stored(n, f))
       /\ Passes(d, Mpx9CheckMTPCRC, Stored(n, f), Stored(n, f))
  <2> DEFINE A == {"ram"}
  <2>1. A \subseteq Subjects /\ "ram" \in A /\ "ram" \in Subjects
    BY SubjectsListed
  <2>2. \A x \in n : x[1] \notin A
    BY DEF CellsOf, n
  <2> HIDE DEF A
  <2>3. Body(RestoreDataFromNVM, Works(A)) /\ Body(Mpx9CheckMTPCRC, Works(A))
    BY <1>1, <1>7, <2>1, WorksPlain, BodyTwo DEF Mpx9CheckMTPCRC, Mpx9GetCRC
  <2>4. Body(RestoreDataFromNVM, (Looking \X Subjects) \cup Works(A))
        /\ Body(Mpx9CheckMTPCRC, (Looking \X Subjects) \cup Works(A))
    BY <2>3, BodyMore
  <2> QED
    BY ONLY <1>11, <1>13, <2>2, <2>4, PassWork
<1>18. Passes(d, DisableStoreFaultTriggering, Stored({}, f), Stored({}, f))
  BY <1>11, TwoLooks, KnownKnowledge DEF DisableStoreFaultTriggering
<1>19. Passes(d, Mpx9UpdateFirmware, Nothing, Stored(n, f))
  <2>1. Passes(d, (Mpx9CheckId \o Mpx9CheckId) \o Mpx9CheckId, Nothing, Nothing)
    BY <1>2, FreeStart
  <2> QED
    BY <1>14, <1>16, <1>17, <1>18, <2>1, PassConcat DEF Mpx9UpdateFirmware
<1>20. Passes(d, MPX9XX, AtFirst(MPX9XX), Stored(n, f))
  <2>1. Passes(d, Mpx9VerifyImage, Nothing, Nothing)
    BY <1>2, FreeStart
  <2> QED
    BY <1>19, <2>1, PassVr, FromNothing DEF MPX9XX
<1> QED
  BY <1>10, <1>20, OpenedOutlined DEF d, n

LEMMA MP5998Fine == Split(MP5998, Looks, OpenedWork, {}) /\ Outlined(MP5998, FALSE)
<1>1. 1..Parts \subseteq 0..Parts /\ 0 \in 0..Parts
  BY TriesIn
<1>2. Body(Mp5998VerifyImage, Looks) /\ Body(Mp5998CheckId \o Mp5998CheckId, Looks)
  BY MpsLooks, BodyConcat DEF Mp5998VerifyImage
<1>3. Plain(Compare("nvm", 0), OpenedWork) /\ Plain(Store(0), OpenedWork)
  BY <1>1, RegistersPlain DEF Writes, Registers
<1>4. /\ Body(UnlockWriteProtection, OpenedWork) /\ Body(Mp5998StoreMTP, OpenedWork)
      /\ Body(WaitForMTPComplete, OpenedWork) /\ Body(Mp5998VerifyCRC, OpenedWork)
      /\ Body(RestoreMTPAndVerify, OpenedWork)
  BY <1>3, RegistersPlain, BodyOne, BodyTwo, BodyConcat
     DEF Writes, UnlockWriteProtection, Mp5998StoreMTP, WaitForMTPComplete, Mp5998VerifyCRC, Mp5998GetCRC,
         RestoreMTPAndVerify, SendRestoreMTPCommand, CheckEEPROMFaultAfterRestore
<1> DEFINE register == [p \in 1..Parts |-> <<Ask, Write("ram", p)>>]
<1>5. \A p \in 1..Parts : Body(register[p], OpenedWork)
  BY <1>1, RegistersPlain, BodyTwo DEF Writes, Registers
<1>6. Mp5998ProgramAllRegisters = ForEach(register)
  BY DEF Mp5998ProgramAllRegisters
<1> HIDE DEF register
<1>7. Body(Mp5998ProgramAllRegisters, OpenedWork)
  BY <1>5, <1>6, BodyForEach
<1>8. Split((Mp5998CheckId \o Mp5998CheckId) \o UnlockWriteProtection, Looks, OpenedWork, {})
  BY <1>2, <1>4, SplitHere
<1>9. Split(Mp5998UpdateFirmware, Looks, OpenedWork, {})
  BY <1>4, <1>7, <1>8, SplitLast DEF Mp5998UpdateFirmware
<1>10. Split(MP5998, Looks, OpenedWork, {})
  BY <1>2, <1>9, SplitFirst DEF MP5998, VrUpdateDevice
<1> DEFINE n == CellsOf("nvm", 0)
<1>11. ASSUME NEW d PROVE Passes(d, RestoreMTPAndVerify, Stored(n, {}), Stored(n, {}))
  <2> DEFINE A == {"ram"}
  <2>1. Body(RestoreMTPAndVerify, Works(A))
    <3>1. A \subseteq Subjects /\ "ram" \in A
      BY SubjectsListed
    <3> HIDE DEF A
    <3> QED
      BY <3>1, WorksPlain, BodyTwo, BodyConcat
         DEF RestoreMTPAndVerify, SendRestoreMTPCommand, CheckEEPROMFaultAfterRestore
  <2>2. Body(RestoreMTPAndVerify, (Looking \X Subjects) \cup Works(A))
    BY <2>1, BodyMore
  <2>3. n \in SUBSET Cell
    BY <1>1, CellsIn DEF Places, Areas, Images
  <2>4. {} \in SUBSET Flags /\ "cells" \notin {} /\ \A x \in n : x[1] \notin A
    BY DEF CellsOf
  <2> HIDE DEF A, n
  <2> QED
    BY ONLY <2>2, <2>3, <2>4, PassWork
<1>12. ASSUME NEW d PROVE Passes(d, Mp5998UpdateFirmware, Nothing, Stored(n, {}))
  <2>1. Passes(d, (Mp5998CheckId \o Mp5998CheckId) \o UnlockWriteProtection, Nothing, Nothing)
    BY <1>2, <1>4, FreeStart, PassConcat
  <2>2. /\ Passes(d, Mp5998ProgramAllRegisters, Nothing, Nothing)
        /\ Passes(d, Mp5998StoreMTP, Nothing, Nothing)
        /\ Passes(d, WaitForMTPComplete, Nothing, Nothing)
    BY <1>4, <1>7, FreeStart
  <2>3. Passes(d, Mp5998VerifyCRC, Nothing, Stored(n, {}))
    BY MemoryRead DEF Mp5998VerifyCRC, Mp5998GetCRC
  <2> QED
    BY <1>11, <2>1, <2>2, <2>3, PassConcat DEF Mp5998UpdateFirmware
<1> QED
  BY <1>2, <1>10, <1>12, RegulatorOutlined, PagesApart DEF MP5998

LEMMA TDA38640AFine == Split(TDA38640A, Looks, OpenedWork, {}) /\ Outlined(TDA38640A, FALSE)
<1>1. 1..Parts \subseteq 0..Parts /\ 0 \in 0..Parts /\ Tries \in 1..Tries /\ 0 \in Nat
  BY TriesIn
<1>2. Body(TdaVerifyImage, Looks)
  <2>1. /\ Body(TdaParseImage, Looks) /\ Body(SetPage, Looks) /\ Body(<<Room(0)>>, Looks)
        /\ Body(<<Match("wrongDevice")>>, Looks) /\ Body(<<Ask, Match("same")>>, Looks)
    BY <1>1, LooksPlain, SubjectsListed, BodyOne, BodyTwo DEF TdaParseImage, SetPage
  <2> QED
    BY <2>1, BodyConcat DEF TdaVerifyImage, GetUserRemainingWrites, TdaGetDeviceRevision, TdaGetCRC
<1>3. /\ Body(SetPage, OpenedWork) /\ Body(UnlockDevice, OpenedWork)
      /\ Body(TdaGetProgStatus, OpenedWork)
  BY LooksPlain, RegistersPlain, BodyOne DEF Writes, SetPage, UnlockDevice, TdaGetProgStatus
<1>4. Body(ProgrammingCmd, OpenedWork)
  <2>1. Body(<<Ask, Burn(0)>>, OpenedWork)
    BY <1>1, RegistersPlain, BodyTwo DEF Writes
  <2> QED
    BY <1>3, <2>1, BodyConcat DEF ProgrammingCmd
<1> DEFINE offset == [p \in 1..Parts |-> SetPage \o <<Write("ram", p)>>]
<1>5. ASSUME NEW p \in 1..Parts PROVE Body(offset[p], OpenedWork)
  <2>1. Body(<<Write("ram", p)>>, OpenedWork)
    BY <1>1, RegistersPlain, BodyOne DEF Writes, Registers
  <2> QED
    BY <1>3, <2>1, BodyConcat
<1>6. TdaProgram = ((UnlockDevice \o Guarded(IfData, ForEach(offset))) \o ProgrammingCmd)
                      \o Rounds(TdaGetProgStatus \o <<Verdict>>, Tries)
  BY DEF TdaProgram
<1> HIDE DEF offset
<1>7. /\ Body(Guarded(IfData, ForEach(offset)), OpenedWork)
      /\ Body(Rounds(TdaGetProgStatus \o <<Verdict>>, Tries), OpenedWork)
  <2>1. Body(<<Verdict>>, OpenedWork) /\ Plain(IfData, OpenedWork)
    BY RegistersPlain, BodyOne DEF Writes
  <2> QED
    BY <1>1, <1>3, <1>5, <2>1, BodyForEach, BodyGuarded, BodyConcat, BodyRounds
<1>8. Body(TdaProgram, OpenedWork)
  BY <1>3, <1>4, <1>6, <1>7, BodyConcat
<1>9. Split(TDA38640A, Looks, OpenedWork, {})
  BY <1>2, <1>8, SplitHere DEF TDA38640A, VrUpdateDevice, TdaUpdateFirmware
<1> DEFINE d == DriverAs(TDA38640A, FALSE)
           f == {"open", "cells"}
           n == CellsOf("nvm", 0)
           m == CellsOf("ram", 0)
<1>10. d.blind = FALSE /\ f \in SUBSET Flags /\ "open" \in f /\ {"open"} \in SUBSET Flags
       /\ {"cells"} \in SUBSET Flags /\ {} \in SUBSET Flags
  BY DEF DriverAs, Flags
<1>11. n \in SUBSET Cell /\ m \in SUBSET Cell
  BY <1>1, CellsIn DEF Places, Areas, Images
<1> HIDE DEF d, n, m
<1>12. Passes(d, TdaVerifyImage, Nothing, Stored({}, {"cells"}))
  <2>1. /\ Body(TdaParseImage, Looks) /\ Body(SetPage, Looks)
        /\ Body(TdaGetDeviceRevision, Looking \X Subjects) /\ Body(TdaGetCRC, Looking \X Subjects)
    <3>1. /\ Plain(Ask, Looking \X Subjects) /\ Plain(Match("wrongDevice"), Looking \X Subjects)
          /\ Plain(Match("same"), Looking \X Subjects)
      BY LookingPlain, SubjectsListed
    <3> QED
      BY <3>1, LooksPlain, SubjectsListed, BodyOne, BodyTwo, BodyConcat
         DEF TdaParseImage, SetPage, TdaGetDeviceRevision, TdaGetCRC
  <2>2. Passes(d, TdaParseImage, Nothing, Nothing) /\ Passes(d, SetPage, Nothing, Nothing)
    BY <2>1, FreeStart
  <2>3. Passes(d, <<Room(0)>>, Nothing, Stored({}, {"cells"}))
    <3>1. {} \cup {"cells"} = {"cells"} /\ {} \in SUBSET Cell
      OBVIOUS
    <3>2. Passes(d, <<Room(0)>>, Known({}, {}, {}, {}, {}), Known({}, {}, {}, {}, {} \cup {"cells"}))
      BY ONLY <1>10, <3>1, PassFlag
    <3> QED
      BY <3>1, <3>2 DEF Nothing, Stored
  <2>4. Stored({}, {"cells"}) \in Knowledge
    BY <1>10, KnownKnowledge
  <2>5. /\ Passes(d, TdaGetDeviceRevision, Stored({}, {"cells"}), Stored({}, {"cells"}))
        /\ Passes(d, TdaGetCRC, Stored({}, {"cells"}), Stored({}, {"cells"}))
    BY <2>1, <2>4, PassLook
  <2> QED
    BY <2>2, <2>3, <2>5, PassConcat DEF TdaVerifyImage, GetUserRemainingWrites
<1>13. Passes(d, UnlockDevice, Stored({}, {"cells"}), Stored({}, f))
  <2>1. ({"cells"} \ {"locked"}) \cup {"open"} = f /\ {} \in SUBSET Cell
    OBVIOUS
  <2>2. Passes(d, <<Unlock>>, Known({}, {}, {}, {}, {"cells"}),
               Known({}, {}, {}, {}, ({"cells"} \ {"locked"}) \cup {"open"}))
    BY ONLY <1>10, <2>1, PassFlag
  <2> QED
    BY <2>1, <2>2 DEF Stored, UnlockDevice
<1>14. Passes(d, ForEach(offset), Stored({}, f), Stored(m, f))
  <2>1. ASSUME NEW p \in 1..Parts, NEW k \in SUBSET Cell
        PROVE  Passes(d, offset[p], Stored(k, f), Stored(k \cup CellsOf("ram", p), f))
    <3>1. Passes(d, <<Write("ram", p)>>, Stored(k, f), Stored(k \cup CellsOf("ram", p), f))
      BY <1>10, PassRegister
    <3>2. Passes(d, SetPage, Stored(k, f), Stored(k, f))
      BY <1>10, TwoLooks, KnownKnowledge DEF SetPage
    <3>3. offset[p] = SetPage \o <<Write("ram", p)>>
      BY DEF offset
    <3> QED
      BY <3>1, <3>2, <3>3, PassConcat
  <2> HIDE DEF f
  <2> QED
    BY ONLY <1>10, <2>1, PassRegisters DEF m
<1>15. Passes(d, ProgrammingCmd, Stored(m, f), Known({}, {}, n, {}, {"open"}))
  <2>1. PICK i : i = Burn(0)
    OBVIOUS
  <2>2. i \in {Store(0), Burn(0)} /\ Spends(i) /\ "cells" \in f /\ f \ Gone(i) = {"open"}
    BY <2>1 DEF Burn, Instruction, Spends, Gone
  <2>3. CellsOf("ram", 0) \subseteq m
    BY DEF m
  <2> HIDE DEF f
  <2>4. Passes(d, <<Ask, i>>, Stored(m, f),
               IF d.blind THEN Stored(m \cup CellsOf("nvm", 0), f \ Gone(i))
               ELSE Known({}, {}, CellsOf("nvm", 0), {}, f \ Gone(i)))
    BY ONLY <1>1, <1>10, <1>11, <2>2, <2>3, PassStore
  <2>5. Passes(d, SetPage, Stored(m, f), Stored(m, f))
    BY <1>10, <1>11, TwoLooks, KnownKnowledge DEF SetPage
  <2> QED
    BY <1>10, <2>1, <2>2, <2>4, <2>5, PassConcat DEF ProgrammingCmd, n
<1>16. Passes(d, Rounds(TdaGetProgStatus \o <<Verdict>>, Tries),
              Known({}, {}, n, {}, {"open"}), Stored(n, {"open"}))
  <2>1. PICK i, K, L : i = Verdict /\ K = Known({}, {}, n, {}, {"open"}) /\ L = Stored(n, {"open"})
    OBVIOUS
  <2>2. K \in Knowledge /\ L \in Knowledge /\ Simple(i) /\ i.do = "verdict"
    BY <1>10, <1>11, <2>1, KnownKnowledge, SimpleOnes DEF Verdict, Instruction
  <2>3. Teaches(d, i, K, L)
    <3>1. Teaches(d, i, Known({}, {}, n, {}, {"open"}), Known({} \cup n, {} \cup {}, {}, {}, {"open"}))
      BY <2>2, VerdictTeaches
    <3>2. {} \cup n = n /\ {} \cup {} = {}
      OBVIOUS
    <3> QED
      BY <2>1, <3>1, <3>2 DEF Stored
  <2>4. AtMost(K, AfterFailure(i, K))
    <3>1. i.do \in Looking /\ ~Leaves(i) /\ i \in Instructions
      BY <2>2 DEF Simple, Looking, Leaves
    <3> QED
      BY <3>1, LookKeeps DEF Keeps
  <2>5. Passes(d, TdaGetProgStatus, K, K)
    BY <2>2, TwoLooks DEF TdaGetProgStatus
  <2> QED
    BY <2>1, <2>2, <2>3, <2>4, <2>5, TriesIn, PassRounds DEF Simple, Teaches
<1>17. Passes(d, TdaProgram, Stored({}, {"cells"}), Stored(n, {"open"}))
  <2>1. Stored({}, f) \in Knowledge
    BY <1>10, KnownKnowledge
  <2>2. Passes(d, Guarded(IfData, ForEach(offset)), Stored({}, f), Stored(m, f))
    BY ONLY <1>14, <2>1, PassGuarded
  <2> QED
    BY ONLY <1>6, <1>13, <1>15, <1>16, <2>2, PassConcat
<1>18. Passes(d, TDA38640A, AtFirst(TDA38640A), Stored(n, {"open"}))
  BY <1>12, <1>17, PassVr, FromNothing DEF TDA38640A, TdaUpdateFirmware
<1> QED
  BY <1>9, <1>18, OpenedOutlined DEF d, n

LEMMA XDP71XFine == Split(XDP71X, Looks, RegistersWork, {}) /\ Outlined(XDP71X, FALSE)
<1>1. Body(XDP71X, Looks)
  BY LooksPlain, BodyOne, BodyConcat DEF XDP71X, VrUpdateDevice
<1>2. Split(XDP71X, Looks, RegistersWork, {})
  BY <1>1, SplitNowhere
<1>3. Passes(DriverAs(XDP71X, FALSE), XDP71X, AtFirst(XDP71X), Nothing)
  BY <1>1, FreeStart, FromNothing
<1>4. Outlined(XDP71X, FALSE)
  <2>1. Body(XDP71X, Looks \cup {}) /\ Nothing.new = {}
    BY <1>1 DEF Nothing, Stored, Known
  <2> QED
    BY <1>3, <2>1, OutlineOf DEF Outlined
<1> QED
  BY <1>2, <1>4

(* These two refuse after they have changed the live registers.              *)
LEMMA TpsBody ==
  ASSUME NEW parseImage, Body(parseImage, Looks), NEW getCheckSum, Body(getCheckSum, LockedWork)
  PROVE  Body(VrUpdateDevice(TpsVerifyImage(parseImage), TpsUpdateFirmware(getCheckSum)),
              Looks \cup LockedWork)
<1> DEFINE D == Looks \cup LockedWork
<1>1. 1..Parts \subseteq 0..Parts /\ 0 \in 0..Parts /\ 0 \in Nat
  BY TriesIn
<1>2. \A b : Body(b, Looks) \/ Body(b, LockedWork) => Body(b, D)
  BY BodyMore
<1> HIDE DEF D
<1>3. Body(CheckNVMavailable, D) /\ Body(parseImage, D) /\ Body(getCheckSum, D)
  BY <1>1, <1>2, LooksPlain, BodyOne DEF CheckNVMavailable
<1>4. /\ Body(TpsUnlockWriteProtect, D) /\ Body(LockWriteProtect, D) /\ Body(TpsProgram, D)
      /\ Body(<<Verdict>>, D)
  BY <1>1, <1>2, RegistersPlain, BodyOne DEF Writes, TpsUnlockWriteProtect, LockWriteProtect, TpsProgram
<1> DEFINE register == [p \in 1..Parts |-> <<Write("ram", p)>>]
<1>5. \A p \in 1..Parts : Body(register[p], LockedWork)
  BY <1>1, RegistersPlain, BodyOne DEF Writes, Registers
<1>6. ImportUserConfig = Guarded(IfData, ForEach(register))
  BY DEF ImportUserConfig
<1> HIDE DEF register
<1>7. Body(ImportUserConfig, D)
  <2>1. Body(Guarded(IfData, ForEach(register)), LockedWork)
    BY <1>5, BodyForEach, RegistersPlain, BodyGuarded DEF Writes
  <2> QED
    BY <1>2, <1>6, <2>1
<1>8. Body(CheckProgram(getCheckSum), D)
  BY <1>3, <1>4, BodyConcat DEF CheckProgram
<1>9. Body(TpsUpdateFirmware(getCheckSum), D)
  BY <1>3, <1>4, <1>7, <1>8, BodyConcat DEF TpsUpdateFirmware
<1>10. Body(VrUpdateDevice(TpsVerifyImage(parseImage), TpsUpdateFirmware(getCheckSum)), D)
  BY <1>3, <1>9, BodyConcat DEF VrUpdateDevice, TpsVerifyImage
<1> QED
  BY <1>10 DEF D

LEMMA TpsPasses ==
  ASSUME NEW parseImage, Body(parseImage, Looks), NEW getCheckSum, Body(getCheckSum, Looking \X Subjects),
         NEW code, code = VrUpdateDevice(TpsVerifyImage(parseImage), TpsUpdateFirmware(getCheckSum))
  PROVE  Passes(DriverAs(code, FALSE), code, AtFirst(code), Stored(CellsOf("nvm", 0), {"locked"}))
<1> DEFINE d == DriverAs(code, FALSE)
           f == {"open"}
           g == {"open", "cells"}
           n == CellsOf("nvm", 0)
           m == CellsOf("ram", 0)
<1>1. /\ d.blind = FALSE /\ f \in SUBSET Flags /\ "open" \in f /\ "open" \in g /\ "cells" \in g
      /\ g \in SUBSET Flags /\ {} \in SUBSET Flags /\ {"locked"} \in SUBSET Flags
  BY DEF DriverAs, Flags
<1>2. 0 \in 0..Parts /\ n \in SUBSET Cell /\ m \in SUBSET Cell /\ {} \in SUBSET Cell
  BY TriesIn, CellsIn DEF Places, Areas, Images
<1>3. /\ ({} \ {"locked"}) \cup {"open"} = f /\ f \cup {"cells"} = g
      /\ (f \ {"open"}) \cup {"locked"} = {"locked"}
  OBVIOUS
<1> HIDE DEF d, f, g, n, m
<1>4. Passes(d, TpsUnlockWriteProtect, Nothing, Stored({}, f))
  <2>1. Passes(d, <<Unlock>>, Known({}, {}, {}, {}, {}),
               Known({}, {}, {}, {}, ({} \ {"locked"}) \cup {"open"}))
    BY ONLY <1>1, <1>2, PassFlag
  <2> QED
    BY <1>3, <2>1 DEF Nothing, Stored, TpsUnlockWriteProtect
<1> DEFINE register == [p \in 1..Parts |-> <<Write("ram", p)>>]
<1>5. Passes(d, ImportUserConfig, Stored({}, f), Stored(m, f))
  <2>1. ASSUME NEW p \in 1..Parts, NEW k \in SUBSET Cell
        PROVE  Passes(d, register[p], Stored(k, f), Stored(k \cup CellsOf("ram", p), f))
    BY <1>1, PassRegister
  <2>2. ImportUserConfig = Guarded(IfData, ForEach(register))
    BY DEF ImportUserConfig
  <2> HIDE DEF register
  <2>3. Passes(d, ForEach(register), Stored({}, f), Stored(CellsOf("ram", 0), f))
    BY ONLY <1>1, <2>1, PassRegisters
  <2> QED
    BY <1>1, <1>2, <2>2, <2>3, KnownKnowledge, PassGuarded DEF m
<1>6. Passes(d, CheckNVMavailable, Stored(m, f), Stored(m, g))
  <2>1. Passes(d, <<Room(0)>>, Known(m, {}, {}, {}, f), Known(m, {}, {}, {}, f \cup {"cells"}))
    BY ONLY <1>1, <1>2, PassFlag
  <2> QED
    BY <1>3, <2>1 DEF Stored, CheckNVMavailable
<1>7. Passes(d, TpsProgram, Stored(m, g), Known({}, {}, n, {}, f))
  <2>1. PICK i : i = Burn(0)
    OBVIOUS
  <2>2. i \in {Store(0), Burn(0)} /\ Gone(i) = {"cells"}
    BY <2>1 DEF Burn, Instruction, Spends, Gone
  <2>3. g \ Gone(i) = f /\ CellsOf("ram", 0) \subseteq m
    BY <2>2 DEF g, f, m
  <2>4. Passes(d, <<i>>, Stored(m, g),
               IF d.blind THEN Stored(m \cup CellsOf("nvm", 0), g \ Gone(i))
               ELSE Known({}, {}, CellsOf("nvm", 0), {}, g \ Gone(i)))
    BY ONLY <1>1, <1>2, <2>2, <2>3, PassStore
  <2> QED
    BY <1>1, <2>1, <2>3, <2>4 DEF TpsProgram, n
<1>8. Passes(d, LockWriteProtect, Known({}, {}, n, {}, f), Known({}, {}, n, {}, {"locked"}))
  <2>1. Passes(d, <<Lock>>, Known({}, {}, n, {}, f),
               Known({}, {}, n, {}, (f \ {"open"}) \cup {"locked"}))
    BY ONLY <1>1, <1>2, PassFlag
  <2> QED
    BY <1>3, <2>1 DEF LockWriteProtect
<1>9. Passes(d, CheckProgram(getCheckSum), Known({}, {}, n, {}, {"locked"}), Stored(n, {"locked"}))
  <2>1. Known({}, {}, n, {}, {"locked"}) \in Knowledge
    BY <1>1, <1>2, KnownKnowledge
  <2>2. Passes(d, getCheckSum, Known({}, {}, n, {}, {"locked"}), Known({}, {}, n, {}, {"locked"}))
    BY <2>1, PassLook
  <2>3. Passes(d, <<Verdict>>, Known({}, {}, n, {}, {"locked"}), Stored(n, {"locked"}))
    BY <1>1, <1>2, PassVerdict
  <2> QED
    BY <2>2, <2>3, PassConcat DEF CheckProgram
<1>10. Passes(d, TpsUpdateFirmware(getCheckSum), Nothing, Stored(n, {"locked"}))
  BY <1>4, <1>5, <1>6, <1>7, <1>8, <1>9, PassConcat DEF TpsUpdateFirmware
<1>11. Passes(d, TpsVerifyImage(parseImage), Nothing, Nothing)
  BY FreeStart DEF TpsVerifyImage
<1>12. Passes(d, code, AtFirst(code), Stored(n, {"locked"}))
  BY <1>10, <1>11, PassVr, FromNothing
<1> QED
  BY <1>12 DEF d, n

LEMMA LateBody ==
  ASSUME NEW code \in {TPS25990, RS31390}
  PROVE  Body(code, Looks \cup LockedWork)
<1>1. Body(TpsParseImage, Looks) /\ Body(RsParseImage, Looks)
  BY LooksPlain, SubjectsListed, BodyTwo DEF TpsParseImage, RsParseImage
<1>2. Body(TpsGetCheckSum, LockedWork) /\ Body(RsGetCheckSum, LockedWork)
  BY TriesIn, RegistersPlain, BodyOne DEF Writes, TpsGetCheckSum, RsGetCheckSum, Registers
<1> QED
  BY <1>1, <1>2, TpsBody DEF TPS25990, RS31390

LEMMA LateFine ==
  ASSUME NEW code \in {TPS25990, RS31390}
  PROVE  StaysInside(code) /\ SelectsFirst(code) /\ Outlined(code, FALSE)
<1>1. Body(TpsParseImage, Looks) /\ Body(RsParseImage, Looks)
  BY LooksPlain, SubjectsListed, BodyTwo DEF TpsParseImage, RsParseImage
<1>3. Body(code, Looks \cup LockedWork)
  BY LateBody
<1>4. Looks \cup LockedWork \subseteq Looks \cup (Works(Registers) \cup Special)
  BY DEF LockedWork, OpenedWork, RegistersWork, Special
<1>5. StaysInside(code)
  <2>1. Registers \subseteq (Areas \ Images) \cup {"spare"}
    BY DEF Registers, Areas, Images
  <2>2. Body(code, Looks \cup (Works(Registers) \cup Special))
    BY <1>3, <1>4, BodyMore
  <2> QED
    BY <2>1, <2>2, BodyStaysInside
<1>6. ASSUME NEW k \in 1..Len(code) PROVE ~(Changes(code[k]) /\ code[k].at = "spare")
  <2>1. code[k] \in Instructions /\ Kind(code[k]) \in Looks \cup (Works(Registers) \cup Special)
    BY <1>3, <1>4 DEF Body
  <2>2. Changes(code[k]) => code[k].at \in Registers
    BY <2>1, KindOf
  <2> QED
    BY <2>2 DEF Registers
<1>7. Outlined(code, FALSE)
  <2>1. Body(TpsGetCheckSum, Looking \X Subjects) /\ Body(RsGetCheckSum, Looking \X Subjects)
    BY TriesIn, LookingPlain, SubjectsListed, BodyOne DEF TpsGetCheckSum, RsGetCheckSum
  <2>2. Passes(DriverAs(code, FALSE), code, AtFirst(code), Stored(CellsOf("nvm", 0), {"locked"}))
    BY <1>1, <2>1, TpsPasses DEF TPS25990, RS31390
  <2> DEFINE L == Stored(CellsOf("nvm", 0), {"locked"})
             A == {"ram", "nvm"}
  <2>3. /\ LockedWork \subseteq Works(A) \cup Special \cup {<<"match", "wrongDevice">>, <<"select", "none">>}
        /\ <<"primary", "none">> \notin LockedWork
    BY DEF LockedWork, OpenedWork, RegistersWork, Registers, Works, Special, Testing, Changing
  <2>4. (A \cap {"flash", "nvm", "page2"}) \X (1..Parts) \subseteq L.new /\ "locked" \in L.flags
    BY DEF CellsOf, Stored, Known
  <2> HIDE DEF A, L
  <2> QED
    BY <1>3, <2>2, <2>3, <2>4, OutlineOf DEF Outlined, L
<1> QED
  BY <1>5, <1>6, <1>7 DEF SelectsFirst

(* What the code of every driver is like, for any number of parts and of     *)
(* attempts: no jump leads out of it, it asks which of two images is running *)
(* before it changes the other one, and, but for the two regulators that ask *)
(* late, what it refuses it refuses before it changes anything.              *)
THEOREM DriversAreSound ==
  \A c \in DOMAIN Programs :
    /\ StaysInside(Programs[c])
    /\ SelectsFirst(Programs[c])
    /\ c \notin AsksLate => RefusesFirst(Programs[c])
<1> DEFINE Sound(code) == StaysInside(code) /\ SelectsFirst(code) /\ RefusesFirst(code)
<1>1. ASSUME NEW code, NEW E, E \subseteq LockedWork \/ E \subseteq PagedWork,
             Split(code, Looks, E, {})
      PROVE  Sound(code)
  <2> DEFINE A == Registers \cup {"page2"}
  <2>1. A \subseteq (Areas \ Images) \cup {"spare"} /\ "spare" \notin A
    BY DEF Registers, Areas, Images
  <2>2. Works(Registers) \subseteq Works(A)
    BY DEF Works
  <2>3. E \subseteq (Works(A) \cup Special) \cup {}
    BY <1>1, <2>2 DEF LockedWork, OpenedWork, PagedWork, RegistersWork, Special
  <2> HIDE DEF A
  <2> QED
    BY <1>1, <2>1, <2>3, SplitFine
<1>2. Sound(XO3) /\ Sound(XO5Standard) /\ Sound(Max10)
  <2> DEFINE A == {"flash"}
             U == Works(A) \cup {<<"unlock", "none">>}
  <2>1. A \subseteq (Areas \ Images) \cup {"spare"} /\ "spare" \notin A
    BY DEF Areas, Images
  <2>2. U \subseteq (Works(A) \cup Special) \cup {} /\ Works(A) \subseteq (Works(A) \cup Special) \cup {}
    BY DEF Special
  <2>3. Split(XO3, Looks, Works(A), {}) /\ Split(XO5Standard, Looks, Works(A), {})
        /\ Split(Max10, Looks, U, {})
    BY XO3Fine, XO5StandardFine, Max10Fine
  <2> HIDE DEF A, U
  <2> QED
    BY <2>1, <2>2, <2>3, SplitFine
<1>3. Sound(XO5TSeries)
  <2> DEFINE A == {"flash", "header", "backup"}
             G == {<<"match", "wrongDevice">>}
             U == Works(A) \cup G
  <2>1. A \subseteq (Areas \ Images) \cup {"spare"} /\ "spare" \notin A
    BY DEF Areas, Images
  <2>2. /\ G \subseteq ({"check", "match"} \X Subjects) \cup {<<"select", "none">>}
        /\ U \subseteq (Works(A) \cup Special) \cup G
    BY SubjectsListed
  <2>3. Split(XO5TSeries, Looks, U, G)
    BY XO5TSeriesFine
  <2> HIDE DEF A, G, U
  <2> QED
    BY <2>1, <2>2, <2>3, SplitFine
<1>4. Sound(XO5DSeries)
  <2> DEFINE A == {"spare"}
             G == {<<"select", "none">>}
             U == (Works(A) \cup {<<"primary", "none">>}) \cup G
  <2>1. A \subseteq (Areas \ Images) \cup {"spare"} /\ <<"select", "none">> \in G
    OBVIOUS
  <2>2. /\ G \subseteq ({"check", "match"} \X Subjects) \cup {<<"select", "none">>}
        /\ U \subseteq (Works(A) \cup Special) \cup G
    BY DEF Special
  <2>3. Split(XO5DSeries, Looks, U, G)
    BY XO5DSeriesFine
  <2> HIDE DEF A, G, U
  <2> QED
    BY <2>1, <2>2, <2>3, SplitFine
<1>5. RegistersWork \subseteq LockedWork /\ OpenedWork \subseteq LockedWork
  BY DEF LockedWork, OpenedWork
<1>6. /\ Sound(ISL69269) /\ Sound(XDPE1X2XX) /\ Sound(MP2X6XX) /\ Sound(MP297X)
      /\ Sound(MPQ87XX) /\ Sound(MPX9XX) /\ Sound(MP5998) /\ Sound(TDA38640A) /\ Sound(XDP71X)
  BY <1>1, <1>5, ISL69269Fine, XDPE1X2XXFine, MP2X6XXFine, MP297XFine, MPQ87XXFine, MPX9XXFine,
     MP5998Fine, TDA38640AFine, XDP71XFine
<1> HIDE DEF Sound
<1>7. ASSUME NEW c \in DOMAIN Programs PROVE Sound(Programs[c]) \/ c \in AsksLate
  BY <1>2, <1>3, <1>4, <1>6, ProgramsAre DEF AsksLate
<1>8. ASSUME NEW c \in DOMAIN Programs, c \in AsksLate
      PROVE  StaysInside(Programs[c]) /\ SelectsFirst(Programs[c])
  BY <1>8, ProgramsAre, LateFine DEF AsksLate
<1> QED
  BY <1>7, <1>8 DEF Sound

-----------------------------------------------------------------------------
HasHeaderOutline(code) == \E H : IsHeaderOutline(code, H)

LEMMA AtRestSecure == AtRest \in Secure
BY LoopAssumption DEF AtRest, Secure, Situation, Secured

(* Drivers that leave the header and its backup alone.                       *)
LEMMA HeaderLeftAlone ==
  ASSUME NEW code, NEW A, A \cap {"header", "backup"} = {},
         NEW E, E \subseteq Works(A) \cup Special \cup {<<"match", "wrongDevice">>, <<"select", "none">>},
         Body(code, Looks \cup E)
  PROVE  HasHeaderOutline(code)
<1> DEFINE H == [k \in 1..Len(code) + 1 |-> AtRest]
<1>1. H \in [1..Len(code) + 1 -> SUBSET Situation] /\ \A k \in 1..Len(code) + 1 : H[k] = AtRest
  BY AtRestSecure DEF Secure
<1>2. \A S \in AtRest : Covers(AtRest, S) /\ Secured(S) /\ S.read = {} /\ S \in Situation
  <2>1. \A S \in AtRest : S.read = {}
    BY DEF AtRest
  <2>2. \A S \in AtRest : Covers(AtRest, S)
    BY NoMoreSelf DEF NoMore
  <2> QED
    BY <2>1, <2>2, AtRestSecure DEF Secure
<1> HIDE DEF H
<1>3. 1 \in 1..Len(code) + 1
  BY DEF Body
<1>4. ASSUME NEW k \in 1..Len(code), NEW S \in AtRest, NEW protected
      PROVE  LET i == code[k]
             IN /\ HeaderSuccess(protected, i, S) = S /\ HeaderFailure(i, S) = S
                /\ H[k + i.ok] = AtRest /\ H[k + i.no] = AtRest /\ H[k - i.back] = AtRest
  <2>1. PICK i \in Instructions : i = code[k] /\ Fits(i, k, Len(code)) /\ Kind(i) \in Looks \cup E
    BY DEF Body
  <2>2. (Changes(i) => i.at \in A) /\ (i.do = "load" => i.at \in A)
    <3>1. CASE Kind(i) \in Looks
      BY <2>1, <3>1, KindOf
    <3>2. CASE Kind(i) \in Works(A) \cup Special
      BY <3>2 DEF Kind, Works, Special, Testing, Changing, Changes
    <3>3. CASE Kind(i) \in {<<"match", "wrongDevice">>, <<"select", "none">>}
      BY <3>3 DEF Kind, Changes
    <3> QED
      BY <2>1, <3>1, <3>2, <3>3
  <2>3. HeaderLeft(i, S) = S.header /\ CopiesLeft(i, S) = S.copied /\ CopiesMade(protected, i, S) = {}
    BY <2>2 DEF HeaderLeft, CopiesLeft, CopiesMade, Changes
  <2>4. WhatIsRead(i, S) = S.read
    BY <1>2, <2>2 DEF WhatIsRead
  <2>5. HeaderSuccess(protected, i, S) = S /\ HeaderFailure(i, S) = S
    BY <1>2, <2>3, <2>4 DEF HeaderSuccess, HeaderFailure, Situation
  <2>6. Lands(i, k, Len(code), 0, k)
    BY <2>1, Targets DEF Body
  <2>7. H[k + i.ok] = AtRest /\ H[k + i.no] = AtRest /\ H[k - i.back] = AtRest
    BY <1>1, <2>6 DEF Lands
  <2> QED
    BY <2>1, <2>5, <2>7
<1>5. IsHeaderOutline(code, H)
  <2>1. \A k \in 1..Len(code) : \A S \in H[k] :
          LET i == code[k]
          IN /\ MaySucceed(i, S) => Covers(H[k + i.ok], HeaderSuccess(Protects(code), i, S))
             /\ MayFail(i, S) =>
                  /\ i.no = 0 => Secured(HeaderFailure(i, S))
                  /\ i.no > 0 => Covers(H[k + i.no], HeaderFailure(i, S))
                  /\ i.limit > 1 => Covers(H[k - i.back], HeaderFailure(i, S))
    <3> TAKE k \in 1..Len(code)
    <3> TAKE S \in H[k]
    <3>1. S \in AtRest
      <4>1. k \in 1..Len(code) + 1
        BY DEF Body
      <4> QED
        BY <1>1, <4>1
    <3> QED
      BY <1>2, <1>4, <3>1
  <2> QED
    BY <1>1, <1>2, <1>3, <2>1 DEF IsHeaderOutline
<1> QED
  BY <1>5 DEF HasHeaderOutline

-----------------------------------------------------------------------------
(* The LFMXO5-35T and -65T.                                                  *)

(* The header is in its place and has been read, n parts are copied; or it   *)
(* is known to be in the backup alone.                                       *)
There(n) == {[header |-> {"header"}, read |-> {"header"}, copied |-> 1..n]}
Copied == {[header |-> {}, read |-> {}, copied |-> 1..Parts]}
Seen == There(0) \cup {[header |-> {"blank"}, read |-> {"blank"}, copied |-> 1..Parts]}

LEMMA SecureOnes ==
  /\ \A n \in 0..Parts : There(n) \in Secure
  /\ Copied \in Secure /\ Seen \in Secure
  /\ NoMore(Copied, There(Parts)) /\ NoMore(AtRest, Seen)
  /\ \A n \in 1..Parts : NoMore(There(n - 1), There(n))
<1>1. \A n \in 0..Parts : 1..n \subseteq 1..Parts
  BY LoopAssumption
<1>2. \A n \in 0..Parts : There(n) \in Secure
  BY <1>1 DEF There, Secure, Situation, Secured
<1>3. Copied \in Secure
  BY DEF Copied, Secure, Situation, Secured
<1>4. Seen \in Secure
  <2>1. 0 \in 0..Parts
    BY LoopAssumption
  <2>2. [header |-> {"blank"}, read |-> {"blank"}, copied |-> 1..Parts] \in {S \in Situation : Secured(S)}
    BY DEF Situation, Secured
  <2> QED
    BY <1>2, <2>1, <2>2 DEF Seen, Secure
<1>5. NoMore(Copied, There(Parts))
  <2>1. \A S \in There(Parts) : S.copied = 1..Parts
    BY DEF There
  <2>2. \A T \in Copied : T.header = {} /\ T.read = {} /\ T.copied = 1..Parts
    BY DEF Copied
  <2>3. \E T \in Copied : TRUE
    BY DEF Copied
  <2> QED
    BY <2>1, <2>2, <2>3 DEF NoMore, Covers
<1>6. NoMore(AtRest, Seen)
  <2>1. \A S \in Seen : \/ "header" \in S.header
                        \/ "blank" \in S.header /\ S.copied = 1..Parts
    BY DEF Seen, There
  <2>2. PICK T, U : /\ T = [header |-> {"header"}, read |-> {}, copied |-> {}]
                    /\ U = [header |-> {"blank"}, read |-> {}, copied |-> 1..Parts]
    OBVIOUS
  <2>3. /\ T \in AtRest /\ T.header = {"header"} /\ T.read = {} /\ T.copied = {}
        /\ U \in AtRest /\ U.header = {"blank"} /\ U.read = {} /\ U.copied = 1..Parts
    BY <2>2 DEF AtRest
  <2>4. ASSUME NEW S \in Seen PROVE Covers(AtRest, S)
    <3>1. CASE "header" \in S.header
      <4>1. T.header \subseteq S.header /\ T.read \subseteq S.read /\ T.copied \subseteq S.copied
        BY <2>3, <3>1
      <4> QED
        BY <2>3, <4>1 DEF Covers
    <3>2. CASE "blank" \in S.header /\ S.copied = 1..Parts
      <4>1. U.header \subseteq S.header /\ U.read \subseteq S.read /\ U.copied \subseteq S.copied
        BY <2>3, <3>2
      <4> QED
        BY <2>3, <4>1 DEF Covers
    <3> QED
      BY <2>1, <3>1, <3>2
  <2> QED
    BY <2>4 DEF NoMore
<1>7. \A n \in 1..Parts : NoMore(There(n - 1), There(n))
  <2> TAKE n \in 1..Parts
  <2>1. 1..n - 1 \subseteq 1..n
    BY LoopAssumption
  <2> QED
    BY <2>1 DEF NoMore, Covers, There
<1> QED
  BY <1>2, <1>3, <1>4, <1>5, <1>6, <1>7

(* What does not touch the chip's memory, and does not read it for a copy.   *)
Idle(i) == ~Changes(i) /\ i.do # "load"

LEMMA IdleStays ==
  ASSUME NEW i, Idle(i), NEW K \in Secure
  PROVE  HeaderStays(i, K)
<1>1. ASSUME NEW S \in K
      PROVE  HeaderSuccess(FALSE, i, S) = S /\ HeaderFailure(i, S) = S /\ Covers(K, S) /\ Secured(S)
  <2>1. S \in Situation /\ Secured(S)
    BY DEF Secure
  <2>2. Covers(K, S)
    BY NoMoreSelf DEF NoMore
  <2> QED
    BY <2>1, <2>2, HeaderIdle DEF Idle
<1> QED
  BY <1>1 DEF HeaderStays

Idling == (Deeds \ {"erase", "write", "dump", "store", "burn", "restore", "load"}) \X Subjects

LEMMA BringIdle ==
  ASSUME NEW b, Body(b, Idling), NEW K \in Secure
  PROVE  Brings(b, K, K)
<1>1. ASSUME NEW i \in Instructions, Kind(i) \in Idling PROVE HeaderStays(i, K)
  <2>1. Idle(i)
    BY <1>1 DEF Kind, Idling, Idle, Changes
  <2> QED
    BY <2>1, IdleStays
<1> QED
  BY <1>1, BringKeep

LEMMA LooksIdling ==
  /\ Looks \subseteq Idling /\ \A b : Body(b, Looks) => Body(b, Idling)
  /\ \A i : Plain(i, Looks) => Plain(i, Idling)
<1>1. Looks \subseteq Idling
  BY DEF Looks, Refusing, Idling, Deeds
<1> QED
  BY <1>1 DEF Body, Plain

(* While the header is only in the backup, everything else may be done.      *)
Sparing == (Looking \X Subjects) \cup Works({"flash", "header"})

LEMMA BringSparing ==
  ASSUME NEW b, Body(b, Sparing)
  PROVE  Brings(b, Copied, Copied)
<1>1. ASSUME NEW i \in Instructions, Kind(i) \in Sparing, NEW S \in Copied
      PROVE  /\ Covers(Copied, HeaderSuccess(FALSE, i, S))
             /\ Covers(Copied, HeaderFailure(i, S)) /\ Secured(HeaderFailure(i, S))
  <2>1. ~(Changes(i) /\ i.at = "backup")
    BY <1>1 DEF Kind, Sparing, Looking, Works, Testing, Changing, Changes
  <2>2. S.header = {} /\ S.read = {} /\ S.copied = 1..Parts
    BY DEF Copied
  <2>3. CopiesLeft(i, S) = 1..Parts /\ HeaderLeft(i, S) = {}
    BY <2>1, <2>2 DEF CopiesLeft, HeaderLeft
  <2>4. HeaderFailure(i, S).copied = 1..Parts /\ 1..Parts \subseteq HeaderSuccess(FALSE, i, S).copied
    BY <2>3 DEF HeaderFailure, HeaderSuccess
  <2>5. \A T : 1..Parts \subseteq T.copied => Covers(Copied, T)
    BY DEF Covers, Copied
  <2> QED
    BY <2>4, <2>5 DEF Secured
<1>2. \A i \in Instructions : Kind(i) \in Sparing => HeaderStays(i, Copied)
  BY <1>1 DEF HeaderStays
<1> QED
  BY <1>2, SecureOnes, BringKeep

LEMMA SparingPlain ==
  /\ TPlain(Sparing, {"flash", "header"})
  /\ Plain(Load("backup"), Sparing) /\ Plain(Match("wrongDevice"), Sparing)
  /\ Plain(Compare("flash", 0), Sparing)
<1> DEFINE A == {"flash", "header"}
<1>1. A \subseteq Subjects /\ A \ {"spare"} = A
  BY SubjectsListed
<1> HIDE DEF A
<1>2. TPlain(Works(A), A)
  BY <1>1, WorksPlain DEF TPlain
<1>3. \A i : Plain(i, Works(A)) => Plain(i, Sparing)
  BY DEF Plain, Sparing, A
<1>4. TPlain(Sparing, A)
  BY <1>2, <1>3 DEF TPlain
<1>5. ASSUME NEW do \in {"load", "match", "compare"}, NEW at \in Subjects
      PROVE  Plain(Instruction(do, at, 0), Sparing)
  <2>1. do \in Deeds /\ 0 \in Nat /\ 0 <= Parts
    BY LoopAssumption DEF Deeds
  <2>2. <<do, at>> \in Sparing
    BY DEF Sparing, Looking
  <2> QED
    BY <2>1, <2>2, InstructionPlain
<1>6. "backup" \in Subjects /\ "wrongDevice" \in Subjects /\ "flash" \in Subjects
  BY SubjectsListed
<1> QED
  BY <1>4, <1>5, <1>6 DEF A, Load, Match, Compare

(* A command is sent, and sent again when its CRC was wrong.                 *)
LEMMA BringSent ==
  ASSUME NEW i, Simple(i), NEW K \in Secure, NEW L \in Secure, NoMore(K, L),
         \A S \in K : /\ Covers(L, HeaderSuccess(FALSE, i, S))
                      /\ Secured(HeaderFailure(i, S)) /\ i.do # "ifHeader"
  PROVE  Brings(SendReceive(i), K, L)
<1>1. i \in Instructions /\ Plain(i, AnyKind) /\ i.no = 0 /\ i.limit = 1
  BY DEF Simple
<1>2. HeaderKept(i, K, L, L, K)
  <2>1. ~(i.no > 0) /\ ~(i.limit > 1)
    BY <1>1
  <2> QED
    BY <2>1 DEF HeaderKept
<1>3. Brings(<<i>>, K, L)
  BY <1>1, <1>2, BringOne
<1>4. PICK j : j = Ask
  OBVIOUS
<1>5. Simple(j) /\ Idle(j)
  BY <1>4, SimpleOnes DEF Ask, Instruction, Idle, Changes
<1>6. HeaderRound(j, L, K, L)
  <2>1. HeaderStays(j, L)
    BY <1>5, IdleStays
  <2>2. ASSUME NEW S \in L PROVE Covers(K, HeaderFailure(j, S))
    <3>1. S \in Situation
      BY DEF Secure
    <3>2. HeaderFailure(j, S) = S
      BY <1>5, <3>1, HeaderIdle DEF Idle
    <3> QED
      BY <3>2 DEF NoMore
  <2> QED
    BY <2>1, <2>2 DEF HeaderStays, HeaderRound
<1>7. Plain(j, AnyKind) /\ j.no = 0
  BY <1>5 DEF Simple
<1>8. Brings(Rounds(<<i>> \o <<j>>, Tries), K, L)
  BY <1>3, <1>6, <1>7, TriesIn, BringRounds
<1> QED
  BY <1>4, <1>8 DEF SendReceive, IsCrcSuccessful, ReadCrcStatus

(* What is done between the steps of the copy.                               *)
LEMMA TIdle ==
  ASSUME NEW K \in Secure
  PROVE  /\ Brings(SendReceive(Ask), K, K) /\ Brings(LockI2C, K, K)
         /\ Brings(TCheckDeviceReady, K, K) /\ Brings(LockI2C \o SendReceive(Ask), K, K)
<1>1. Plain(Ask, Looks)
  BY LooksPlain
<1>2. Plain(Ask, Idling)
  BY <1>1, LooksIdling
<1>3. Body(SendReceive(Ask), Idling) /\ Body(LockI2C, Idling) /\ Body(TCheckDeviceReady, Idling)
  BY <1>2, TSending
<1>4. Body(LockI2C \o SendReceive(Ask), Idling)
  BY <1>3, BodyConcat
<1> QED
  BY <1>3, <1>4, BringIdle

(* The header is read where it is.                                           *)
LEMMA HeaderRead == Brings(TReadCfg("header"), AtRest, Seen)
<1>1. PICK i : i = Load("header")
  OBVIOUS
<1>2. Simple(i) /\ i.do = "load" /\ i.at = "header"
  <2>1. "load" \in Deeds /\ "header" \in Subjects /\ 0 \in Nat /\ 0 <= Parts
    BY SubjectsListed, LoopAssumption DEF Deeds
  <2>2. Simple(Instruction("load", "header", 0))
    BY <2>1, Simply
  <2> QED
    BY <1>1, <2>2 DEF Load, Instruction
<1>3. ASSUME NEW S \in AtRest
      PROVE  Covers(Seen, HeaderSuccess(FALSE, i, S)) /\ Secured(HeaderFailure(i, S))
  <2>1. ~Changes(i)
    BY <1>2 DEF Changes
  <2>2. HeaderLeft(i, S) = S.header /\ CopiesLeft(i, S) = S.copied
    BY <2>1 DEF HeaderLeft, CopiesLeft
  <2>3. Secured(HeaderFailure(i, S))
    <3>1. Secured(S)
      BY AtRestSecure DEF Secure
    <3> QED
      BY <2>2, <3>1 DEF HeaderFailure, Secured
  <2>4. WhatIsRead(i, S) = {x \in {"header", "blank"} : x \in S.header}
    BY <1>2 DEF WhatIsRead
  <2>5. PICK T : T = HeaderSuccess(FALSE, i, S)
    OBVIOUS
  <2>6. T.header = S.header /\ T.read = {x \in {"header", "blank"} : x \in S.header}
        /\ S.copied \subseteq T.copied
    BY <2>2, <2>4, <2>5 DEF HeaderSuccess
  <2>7. PICK a, b : /\ a = [header |-> {"header"}, read |-> {"header"}, copied |-> {}]
                    /\ b = [header |-> {"blank"}, read |-> {"blank"}, copied |-> 1..Parts]
    OBVIOUS
  <2>8. a \in Seen /\ b \in Seen
    <3>1. 1..0 = {}
      OBVIOUS
    <3> QED
      BY <2>7, <3>1 DEF Seen, There
  <2>9. CASE S.header = {"header"}
    <3>1. a.header \subseteq T.header /\ a.read \subseteq T.read /\ a.copied \subseteq T.copied
      BY <2>6, <2>7, <2>9
    <3> QED
      BY <2>3, <2>5, <2>8, <3>1 DEF Covers
  <2>10. CASE S.header = {"blank"} /\ S.copied = 1..Parts
    <3>1. b.header \subseteq T.header /\ b.read \subseteq T.read /\ b.copied \subseteq T.copied
      BY <2>6, <2>7, <2>10
    <3> QED
      BY <2>3, <2>5, <2>8, <3>1 DEF Covers
  <2>11. S.header = {"header"} \/ (S.header = {"blank"} /\ S.copied = 1..Parts)
    BY DEF AtRest
  <2> QED
    BY <2>9, <2>10, <2>11
<1>4. Brings(SendReceive(i), AtRest, Seen)
  BY <1>2, <1>3, AtRestSecure, SecureOnes, BringSent
<1>5. Brings(SendReceive(Ask), AtRest, AtRest) /\ Brings(SendReceive(Ask), Seen, Seen)
  BY AtRestSecure, SecureOnes, TIdle
<1> QED
  BY <1>1, <1>4, <1>5, BringConcat DEF TReadCfg

(* The reserved area is erased; the header is in its place.                  *)
LEMMA BackupErased == Brings(TEraseCfg("backup"), There(0), There(0))
<1> DEFINE D == Idling \cup {<<"erase", "backup">>}
<1>1. There(0) \in Secure
  BY SecureOnes, TriesIn
<1>2. ASSUME NEW i \in Instructions, Kind(i) \in D PROVE HeaderStays(i, There(0))
  <2>1. CASE Kind(i) \in Idling
    <3>1. Idle(i)
      BY <2>1 DEF Kind, Idling, Idle, Changes
    <3> QED
      BY <1>1, <3>1, IdleStays
  <2>2. CASE i.do = "erase" /\ i.at = "backup"
    <3>1. ASSUME NEW S \in There(0)
          PROVE  /\ Covers(There(0), HeaderSuccess(FALSE, i, S))
                 /\ Covers(There(0), HeaderFailure(i, S)) /\ Secured(HeaderFailure(i, S))
      <4>1. S.header = {"header"} /\ S.read = {"header"} /\ S.copied = 1..0
        BY DEF There
      <4>2. HeaderLeft(i, S) = {"header"} /\ WhatIsRead(i, S) = {"header"}
        BY <2>2, <4>1 DEF HeaderLeft, WhatIsRead
      <4>3. \A T : T.header = {"header"} /\ T.read = {"header"} => Covers(There(0), T)
        BY DEF Covers, There
      <4>4. HeaderSuccess(FALSE, i, S).header = {"header"} /\ HeaderSuccess(FALSE, i, S).read = {"header"}
        BY <4>2 DEF HeaderSuccess
      <4>5. HeaderFailure(i, S).header = {"header"} /\ HeaderFailure(i, S).read = {"header"}
        BY <4>1, <4>2 DEF HeaderFailure
      <4> QED
        BY <4>3, <4>4, <4>5 DEF Secured
    <3> QED
      BY <3>1 DEF HeaderStays
  <2> QED
    BY <1>2, <2>1, <2>2 DEF Kind
<1>3. Plain(Ask, D) /\ Plain(Erase("backup", 0), D)
  <2>1. Plain(Ask, Idling)
    BY LooksPlain, LooksIdling
  <2>2. "erase" \in Deeds /\ "backup" \in Subjects /\ 0 \in Nat /\ 0 <= Parts
        /\ <<"erase", "backup">> \in D
    BY SubjectsListed, LoopAssumption DEF Deeds
  <2>3. Plain(Instruction("erase", "backup", 0), D)
    BY <2>2, InstructionPlain
  <2> QED
    BY <2>1, <2>3 DEF Plain, Erase
<1> HIDE DEF D
<1>4. Body(TEraseCfg("backup"), D)
  BY <1>3, TErasing
<1> QED
  BY <1>1, <1>2, <1>4, BringKeep

(* What was read is written into it, part by part.                           *)
LEMMA PartCopied ==
  ASSUME NEW p \in 1..Parts
  PROVE  Brings(SendReceive(Dump("backup", p)) \o TCheckDeviceReady, There(p - 1), There(p))
<1>1. PICK i : i = Dump("backup", p)
  OBVIOUS
<1>2. p - 1 \in 0..Parts /\ p \in 0..Parts /\ p \in Nat /\ p <= Parts /\ p # 0
  BY LoopAssumption
<1>3. Simple(i) /\ i.do = "dump" /\ i.at = "backup" /\ i.part = p
  <2>1. "dump" \in Deeds /\ "backup" \in Subjects
    BY SubjectsListed DEF Deeds
  <2>2. Simple(Instruction("dump", "backup", p))
    BY <1>2, <2>1, Simply
  <2> QED
    BY <1>1, <2>2 DEF Dump, Instruction
<1>4. ASSUME NEW S \in There(p - 1)
      PROVE  /\ Covers(There(p), HeaderSuccess(FALSE, i, S))
             /\ Secured(HeaderFailure(i, S)) /\ i.do # "ifHeader"
  <2>1. S.header = {"header"} /\ S.read = {"header"} /\ S.copied = 1..p - 1
    BY DEF There
  <2>2. Touched(i) = {p}
    BY <1>2, <1>3 DEF Touched
  <2>3. HeaderLeft(i, S) = {"header"} /\ WhatIsRead(i, S) = {"header"}
    BY <1>3, <2>1 DEF HeaderLeft, WhatIsRead
  <2>4. CopiesMade(FALSE, i, S) = {p}
    BY <1>3, <2>1, <2>2 DEF CopiesMade
  <2>5. CopiesLeft(i, S) = (1..p - 1) \ {p}
    BY <1>3, <2>1, <2>2 DEF CopiesLeft, Changes
  <2>6. \A x \in 1..p : x \in (1..p - 1) \ {p} \/ x = p
    BY <1>2
  <2>7. PICK T : T = HeaderSuccess(FALSE, i, S)
    OBVIOUS
  <2>8. T.header = {"header"} /\ T.read = {"header"} /\ 1..p \subseteq T.copied
    BY <2>3, <2>4, <2>5, <2>6, <2>7 DEF HeaderSuccess
  <2>9. Covers(There(p), T)
    BY <2>8 DEF Covers, There
  <2>10. Secured(HeaderFailure(i, S))
    BY <2>3 DEF HeaderFailure, Secured
  <2> QED
    BY <1>3, <2>7, <2>9, <2>10
<1>5. /\ There(p - 1) \in Secure /\ There(p) \in Secure /\ NoMore(There(p - 1), There(p))
  BY <1>2, SecureOnes
<1>6. Brings(SendReceive(i), There(p - 1), There(p))
  BY <1>3, <1>4, <1>5, BringSent
<1> QED
  BY <1>1, <1>5, <1>6, TIdle, BringConcat

LEMMA BackupWritten == Brings(TProgramCfg("backup"), There(0), There(Parts))
<1> DEFINE chunk == [p \in 1..Parts |->
               SendReceive(IF "backup" = "flash" THEN Write("backup", p) ELSE Dump("backup", p))
                 \o TCheckDeviceReady]
           I == [p \in 0..Parts |-> There(p)]
<1>1. I \in [0..Parts -> Secure] /\ \A p \in 0..Parts : I[p] = There(p)
  BY SecureOnes
<1>2. 0 \in 0..Parts /\ Parts \in 0..Parts
      /\ \A p \in 1..Parts : p \in 0..Parts /\ p - 1 \in 0..Parts
  BY LoopAssumption
<1> HIDE DEF I
<1>3. ASSUME NEW p \in 1..Parts PROVE Brings(chunk[p], I[p - 1], I[p])
  <2>1. chunk[p] = SendReceive(Dump("backup", p)) \o TCheckDeviceReady
    OBVIOUS
  <2> QED
    BY <1>1, <1>2, <2>1, PartCopied
<1>4. TProgramCfg("backup") =
        ((LockI2C \o SendReceive(Ask)) \o ForEach(chunk)) \o SendReceive(Ask)
  BY DEF TProgramCfg
<1> HIDE DEF chunk
<1>5. Brings(ForEach(chunk), There(0), There(Parts))
  <2>1. Brings(ForEach(chunk), I[0], I[Parts])
    BY <1>1, <1>3, BringForEach
  <2> QED
    BY <1>1, <1>2, <2>1
<1>6. /\ Brings(LockI2C \o SendReceive(Ask), There(0), There(0))
      /\ Brings(SendReceive(Ask), There(Parts), There(Parts))
  BY <1>2, SecureOnes, TIdle
<1> QED
  BY <1>4, <1>5, <1>6, BringConcat

(* Whatever has been done before, the header is in the backup afterwards.    *)
LEMMA HeaderBackedUp == Brings(BackupHeader, AtRest, Copied)
<1>1. TPlain(Sparing, {"flash", "header"})
  BY SparingPlain
<1>2. Brings(TEraseCfg("header"), Copied, Copied)
  BY <1>1, TBodies, BringSparing
<1>3. Brings(TEraseCfg("header"), There(Parts), Copied)
  BY <1>2, SecureOnes, NoMoreSelf, BringWeaker
<1>4. Brings((TEraseCfg("backup") \o TProgramCfg("backup")) \o TEraseCfg("header"), There(0), Copied)
  BY <1>3, BackupErased, BackupWritten, BringConcat
<1>5. ASSUME NEW S \in Seen
      PROVE  /\ "blank" \notin S.read => Covers(There(0), S)
             /\ "header" \notin S.read => Covers(Copied, S)
  <2>1. CASE S \in There(0)
    <3>1. S.read = {"header"}
      BY <2>1 DEF There
    <3>2. Covers(There(0), S)
      BY <2>1, NoMoreSelf DEF NoMore
    <3> QED
      BY <3>1, <3>2
  <2>2. CASE S = [header |-> {"blank"}, read |-> {"blank"}, copied |-> 1..Parts]
    <3>1. S.read = {"blank"} /\ S.copied = 1..Parts
      BY <2>2
    <3>2. Covers(Copied, S)
      BY <3>1 DEF Covers, Copied
    <3> QED
      BY <3>1, <3>2
  <2> QED
    BY <2>1, <2>2 DEF Seen
<1>6. Brings(Guarded(IfHeader, (TEraseCfg("backup") \o TProgramCfg("backup")) \o TEraseCfg("header")),
             Seen, Copied)
  BY <1>4, <1>5, SecureOnes, BringGuarded
<1>7. Brings(LockI2C, AtRest, AtRest)
  BY AtRestSecure, TIdle
<1> QED
  BY <1>6, <1>7, HeaderRead, BringConcat DEF BackupHeader

(* Once it is there, all that follows leaves it there.                       *)
LEMMA XO5TSeriesBrings == Brings(XO5TSeries, AtRest, Copied)
<1>1. /\ Body(SetupMux, Looks) /\ Body(<<Check("empty")>>, Looks) /\ Body(TPrepareUpdate, Looks)
  BY LooksPlain, SubjectsListed, BodyOne, TPrepared DEF SetupMux
<1>2. Brings(SetupMux, AtRest, AtRest) /\ Brings(<<Check("empty")>>, AtRest, AtRest)
      /\ Brings(TPrepareUpdate, AtRest, AtRest)
  <2>1. \A b : Body(b, Looks) => Brings(b, AtRest, AtRest)
    BY LooksIdling, AtRestSecure, BringIdle
  <2> QED
    BY <1>1, <2>1
<1>3. TPlain(Sparing, {"flash", "header"}) /\ Plain(Ask, Sparing)
  BY SparingPlain DEF TPlain
<1>4. /\ Body(TEraseCfg("flash"), Sparing) /\ Body(TProgramCfg("flash"), Sparing)
      /\ Body(RestoreHeader, Sparing)
  BY <1>3, SparingPlain, TBodies
<1>5. Body(TVerifyCfg, Sparing) /\ Body(TReadUserCode, Sparing)
  BY <1>3, SparingPlain, TSending, BodyConcat DEF TVerifyCfg, TReadUserCode, ReadSoftIPId
<1>6. Body(TFinishUpdate, Sparing)
  BY <1>4, <1>5, BodyConcat DEF TFinishUpdate
<1>7. /\ Brings(TEraseCfg("flash"), Copied, Copied)
      /\ Brings(XO5DoUpdate(TProgramCfg("flash")), Copied, Copied)
      /\ Brings(TFinishUpdate, Copied, Copied)
  BY <1>4, <1>6, BringSparing DEF XO5DoUpdate
<1>8. Brings(TDoErase, AtRest, Copied)
  BY <1>7, HeaderBackedUp, BringConcat DEF TDoErase
<1> DEFINE check == <<Check("empty")>>
           update == XO5DoUpdate(TProgramCfg("flash"))
<1>9. XO5TSeries = SetupMux \o ((((check \o TPrepareUpdate) \o TDoErase) \o update) \o TFinishUpdate)
  BY DEF XO5TSeries, UpdateDevice, LatticeUpdateFirmware
<1>10. Brings(check, AtRest, AtRest) /\ Brings(update, Copied, Copied)
  BY <1>2, <1>7
<1> HIDE DEF check, update
<1> QED
  BY <1>2, <1>7, <1>8, <1>9, <1>10, BringConcat

(* A logic of bodies gives outlines of drivers.                              *)
LEMMA HeaderOutlineOf ==
  ASSUME NEW code, NEW L, Brings(code, AtRest, L),
         NEW D, Body(code, D), \A x : <<"unlock", x>> \notin D /\ <<"lock", x>> \notin D
  PROVE  HasHeaderOutline(code)
<1>1. PICK H \in [1..Len(code) + 1 -> Secure] :
           /\ NoMore(H[1], AtRest) /\ H[Len(code) + 1] = L
           /\ \A k \in 1..Len(code) : HeaderKeptAt(code, H, k)
  BY DEF Brings
<1>2. code \in Seq(Instructions) /\ Len(code) \in Nat
  BY DEF Body
<1>3. Protects(code) = FALSE
  <2>1. ASSUME NEW k \in 1..Len(code) PROVE code[k].do # "unlock" /\ code[k].do # "lock"
    <3>1. Kind(code[k]) \in D
      BY DEF Body
    <3> QED
      BY <3>1 DEF Kind
  <2> QED
    BY <2>1 DEF Has, Protects
<1>4. H \in [1..Len(code) + 1 -> SUBSET Situation]
      /\ \A k \in 1..Len(code) + 1 : \A S \in H[k] : Secured(S)
  BY <1>1 DEF Secure
<1>5. \A S \in AtRest : Covers(H[1], S)
  BY <1>1 DEF NoMore
<1>6. \A k \in 1..Len(code) : \A S \in H[k] :
        LET i == code[k]
        IN /\ MaySucceed(i, S) => Covers(H[k + i.ok], HeaderSuccess(Protects(code), i, S))
           /\ MayFail(i, S) =>
                /\ i.no = 0 => Secured(HeaderFailure(i, S))
                /\ i.no > 0 => Covers(H[k + i.no], HeaderFailure(i, S))
                /\ i.limit > 1 => Covers(H[k - i.back], HeaderFailure(i, S))
  <2> TAKE k \in 1..Len(code)
  <2>1. HeaderKept(code[k], H[k], H[k + code[k].ok], H[k + code[k].no], H[k - code[k].back])
    BY <1>1 DEF HeaderKeptAt
  <2> QED
    BY <1>3, <2>1 DEF HeaderKept
<1>7. IsHeaderOutline(code, H)
  BY <1>4, <1>5, <1>6 DEF IsHeaderOutline
<1> QED
  BY <1>7 DEF HasHeaderOutline

LEMMA XO5TSeriesHeader == HasHeaderOutline(XO5TSeries)
<1> DEFINE A == {"flash", "header", "backup"}
           G == {<<"match", "wrongDevice">>}
           D == Looks \cup (Works(A) \cup G)
<1>1. Body(XO5TSeries, D)
  BY XO5TSeriesFine DEF Split
<1>2. \A x : <<"unlock", x>> \notin D /\ <<"lock", x>> \notin D
  BY DEF Looks, Works, Testing, Changing, Refusing
<1> HIDE DEF D
<1> QED
  BY <1>1, <1>2, XO5TSeriesBrings, HeaderOutlineOf

(* Every driver has a proof outline, for any number of parts and of attempts: *)
(* that an image with data is in its place when the update is reported as     *)
(* done follows from the order of its commands and of its tests alone; for    *)
(* the drivers in Unseen, if the chip executes every command they do not see  *)
(* fail.  Only TPS25990 and RS31390 promise the write protection, too.        *)
THEOREM DriversHaveOutlines ==
  \A c \in DOMAIN Programs : \E O : IsOutline(Programs[c], c \in Unseen, O)
<1>1. "ISL69269" \in Unseen /\ "XDPE1X2XX" \in Unseen /\ "MPX9XX" \in Unseen
  BY DEF Unseen
<1>2. \A c \in DOMAIN Programs \ {"ISL69269", "XDPE1X2XX", "MPX9XX"} : c \notin Unseen
  BY DEF Unseen
<1>3. ASSUME NEW c \in DOMAIN Programs PROVE Outlined(Programs[c], c \in Unseen)
  <2>1. CASE c \in Unseen
    <3>1. (c \in Unseen) = TRUE /\ c \in {"ISL69269", "XDPE1X2XX", "MPX9XX"}
      BY <2>1 DEF Unseen
    <3>2. Outlined(Programs[c], TRUE)
      BY <3>1, ProgramsAre, ISL69269Fine, XDPE1X2XXFine, MPX9XXFine
    <3> QED
      BY <3>1, <3>2
  <2>2. CASE c \notin Unseen
    <3>1. (c \in Unseen) = FALSE /\ c \in DOMAIN Programs \ {"ISL69269", "XDPE1X2XX", "MPX9XX"}
      BY <2>2 DEF Unseen
    <3>2. c \in {"XO3", "XO5Standard", "XO5TSeries", "XO5DSeries", "Max10"} =>
            Outlined(Programs[c], FALSE)
      BY ProgramsAre, XO3Fine, XO5StandardFine, XO5TSeriesFine, XO5DSeriesFine, Max10Fine
    <3>3. c \in {"MP2X6XX", "MP297X", "MPQ87XX", "MP5998", "TDA38640A", "XDP71X"} =>
            Outlined(Programs[c], FALSE)
      BY ProgramsAre, MP2X6XXFine, MP297XFine, MPQ87XXFine, MP5998Fine,
         TDA38640AFine, XDP71XFine
    <3>4. c \in {"TPS25990", "RS31390"} => Outlined(Programs[c], FALSE)
      BY ProgramsAre, LateFine
    <3> QED
      BY <3>1, <3>2, <3>3, <3>4, ProgramsAre
  <2> QED
    BY <2>1, <2>2
<1> QED
  BY <1>3 DEF Outlined

(* The same for the header of an LFMXO5, which no step of any driver makes    *)
(* unrecoverable: the one driver that rewrites it copies it before it erases  *)
(* it, and the other drivers leave it alone.                                  *)
THEOREM HeadersHaveOutlines == \A c \in DOMAIN Programs : \E H : IsHeaderOutline(Programs[c], H)
<1> DEFINE Fine(code) == HasHeaderOutline(code)
<1>1. ASSUME NEW code, Body(code, Looks \cup LockedWork) \/ Body(code, Looks \cup PagedWork)
      PROVE  Fine(code)
  <2> DEFINE A == Registers \cup {"page2"}
  <2>1. A \cap {"header", "backup"} = {} /\ Works(Registers) \subseteq Works(A)
    BY DEF Registers, Works
  <2>2. /\ LockedWork \subseteq Works(A) \cup Special
        /\ PagedWork \subseteq Works(A) \cup Special
    BY <2>1 DEF LockedWork, OpenedWork, PagedWork, RegistersWork, Special
  <2> HIDE DEF A
  <2> QED
    BY <1>1, <2>1, <2>2, HeaderLeftAlone
<1>2. ASSUME NEW code, NEW E, E \subseteq LockedWork \/ E \subseteq PagedWork,
             Split(code, Looks, E, {})
      PROVE  Fine(code)
  <2>1. Body(code, Looks \cup E)
    BY <1>2 DEF Split
  <2>2. Body(code, Looks \cup LockedWork) \/ Body(code, Looks \cup PagedWork)
    BY <1>2, <2>1, BodyMore
  <2> QED
    BY <1>1, <2>2
<1>3. Fine(XO3) /\ Fine(XO5Standard) /\ Fine(Max10)
  <2> DEFINE A == {"flash"}
             U == Works(A) \cup {<<"unlock", "none">>}
  <2>1. A \cap {"header", "backup"} = {} /\ U \subseteq Works(A) \cup Special /\ Works(A) \subseteq U
    BY DEF Special
  <2>2. Split(XO3, Looks, Works(A), {}) /\ Split(XO5Standard, Looks, Works(A), {})
        /\ Split(Max10, Looks, U, {})
    BY XO3Fine, XO5StandardFine, Max10Fine
  <2> HIDE DEF A, U
  <2> QED
    BY <2>1, <2>2, HeaderLeftAlone DEF Split
<1>4. Fine(XO5DSeries)
  <2> DEFINE A == {"spare"}
             U == (Works(A) \cup {<<"primary", "none">>}) \cup {<<"select", "none">>}
  <2>1. A \cap {"header", "backup"} = {} /\ U \subseteq Works(A) \cup Special \cup {<<"match", "wrongDevice">>, <<"select", "none">>}
    BY DEF Special
  <2>2. Split(XO5DSeries, Looks, U, {<<"select", "none">>})
    BY XO5DSeriesFine
  <2> HIDE DEF A, U
  <2> QED
    BY <2>1, <2>2, HeaderLeftAlone DEF Split
<1>5. RegistersWork \subseteq LockedWork /\ OpenedWork \subseteq LockedWork
  BY DEF LockedWork, OpenedWork
<1>6. /\ Fine(ISL69269) /\ Fine(XDPE1X2XX) /\ Fine(MP2X6XX) /\ Fine(MP297X)
      /\ Fine(MPQ87XX) /\ Fine(MPX9XX) /\ Fine(MP5998) /\ Fine(TDA38640A) /\ Fine(XDP71X)
  BY <1>2, <1>5, ISL69269Fine, XDPE1X2XXFine, MP2X6XXFine, MP297XFine, MPQ87XXFine, MPX9XXFine,
     MP5998Fine, TDA38640AFine, XDP71XFine
<1>7. Fine(TPS25990) /\ Fine(RS31390)
  BY <1>1, LateBody
<1>8. Fine(XO5TSeries)
  BY XO5TSeriesHeader
<1> HIDE DEF Fine
<1>9. \A c \in DOMAIN Programs : Fine(Programs[c])
  BY <1>3, <1>4, <1>6, <1>7, <1>8, ProgramsAre
<1> QED
  BY <1>9 DEF Fine, HasHeaderOutline
=============================================================================
