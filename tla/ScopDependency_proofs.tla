------------------------ MODULE ScopDependency_proofs ------------------------
(***************************************************************************)
(* Proofs about the ScopDependency pass, for programs of any length.       *)
(*                                                                         *)
(* The pass is correct because the second loop runs bottom-up: when it     *)
(* reaches a call, the next user of each of its buffers is settled, that   *)
(* is, its optimized type already speaks for all calls after it.           *)
(***************************************************************************)
EXTENDS ScopDependency, WellFoundedInduction, FiniteSetTheorems, TLAPS

(* The call keeps what ScopDetect found for its SCoP. *)
Unoptimized(i) ==
  \A a \in ArgsOf(i) : /\ typeOptimized[i][a] = TypeOf(i, a)
                       /\ maxOptimized[i][a] = TextOf(i, a)

(* The text is that of the first use with the largest constant. *)
Largest(i, a, text) ==
  \E u \in Uses(i, a) : text = u.text /\ FirstLargest(u, Uses(i, a))

(* The call speaks for itself and for all later users of its buffers. *)
Settled(i) ==
  \A a \in ArgsOf(i) :
    /\ typeOptimized[i][a] \in {"IN", "OUT", "IN_OUT"}
    /\ typeOptimized[i][a] = "OUT" <=> TypeOf(i, a) = "OUT"
    /\ Writes(TypeOf(i, a)) => Writes(typeOptimized[i][a])
    /\ \A j \in DOMAIN program : \A b \in ArgsOf(j) :
         UsedLater(i, a, j, b) /\ typeOptimized[i][a] = "IN" => ~Writes(TypeOf(j, b))
    /\ typeOptimized[i][a] # TypeOf(i, a) =>
         TypeOf(i, a) = "IN" /\ typeOptimized[i][a] = "IN_OUT" /\ WrittenLater(i, a)
    /\ ReadAlike => Largest(i, a, maxOptimized[i][a])

ScannedInv ==
  phase = "scan" =>
    /\ ~flag_chain_interrupt
    /\ \A i \in DOMAIN program : IsScop(i) /\ i < iter => Unoptimized(i)

UpdateInv ==
  phase = "update" =>
    /\ ~flag_chain_interrupt
    /\ \A i \in DOMAIN program : IsScop(i) /\ i <= root_pos => Unoptimized(i)

SettledInv ==
  phase # "scan" /\ ~flag_chain_interrupt /\ Regular(program) =>
    \A i \in DOMAIN program : IsScop(i) /\ i > root_pos => Settled(i)

DoneInv ==
  phase = "done" =>
    IF flag_chain_interrupt
      THEN \A i \in DOMAIN program : IsScop(i) => Unoptimized(i)
      ELSE root_pos = 0

PassInv == PassTypeOK /\ ScannedInv /\ UpdateInv /\ SettledInv /\ DoneInv
-----------------------------------------------------------------------------
(* A nonempty set of naturals has a minimum. *)
LEMMA MinOfNaturals ==
  ASSUME NEW S \in SUBSET Nat, S # {}
  PROVE  /\ Min(S) \in S
         /\ \A n \in S : Min(S) <= n
<1> DEFINE Less == OpToRel(<, Nat)
<1>0. IsWellFoundedOn(Less, Nat)
  BY NatLessThanWellFounded
<1>1. PICK m \in S : \A n \in S : ~ (<<n, m>> \in Less)
  <2> HIDE DEF Less
  <2> QED BY <1>0, WFMin
<1>2. ASSUME NEW n \in S
      PROVE  m =< n
  <2>1. n < m => <<n, m>> \in Less
    BY DEF OpToRel
  <2> HIDE DEF Less
  <2> QED BY <1>1, <2>1
<1> QED BY <1>2 DEF Min

(* The next user of a buffer, if there is one, is a later call, and no     *)
(* call in between uses the buffer.                                        *)
LEMMA ChildIsNextUser ==
  ASSUME PassTypeOK, NEW i \in DOMAIN program, NEW v, LaterUsers(i, v) # {}
  PROVE  LET j == Child(i, v)
             b == ChildArg(j, v)
         IN  /\ j \in DOMAIN program /\ j > i /\ IsScop(j)
             /\ b \in ArgsOf(j) /\ ValueOf(j, b) = v
             /\ \A k \in LaterUsers(i, v) : j <= k
<1> DEFINE j == Child(i, v)
           M == {b \in ArgsOf(j) : ValueOf(j, b) = v}
<1>1. DOMAIN program \subseteq Nat
  BY DEF PassTypeOK
<1>2. LaterUsers(i, v) \in SUBSET Nat
  BY <1>1 DEF LaterUsers
<1>3. j \in LaterUsers(i, v) /\ \A k \in LaterUsers(i, v) : j <= k
  BY <1>2, MinOfNaturals DEF Child
<1>4. M # {} /\ j \in DOMAIN program /\ j > i /\ IsScop(j)
  BY <1>3 DEF LaterUsers
<1>5. M \in SUBSET Nat
  <2>1. program[j] \in Statement
    BY <1>4 DEF PassTypeOK
  <2>2. program[j].args \in Seq(Argument)
    BY <2>1 DEF Statement
  <2> QED BY <2>2 DEF ArgsOf
<1>6. Min(M) \in M
  BY <1>4, <1>5, MinOfNaturals
<1> QED BY <1>3, <1>4, <1>6 DEF ChildArg
-----------------------------------------------------------------------------
LEMMA ProgramDomain ==
  ASSUME PassTypeOK
  PROVE  DOMAIN program = 1 .. Len(program) /\ Len(program) \in Nat
BY DEF PassTypeOK

LEMMA ArgumentTypes ==
  ASSUME PassTypeOK, NEW j \in DOMAIN program, NEW b \in ArgsOf(j)
  PROVE  /\ TypeOf(j, b) \in DataTransferType
         /\ SizeOf(j, b) \in Nat
         /\ TextOf(j, b) \in Texts \cup {NULLString}
         /\ LoopsOf(j) \in LoopNames
<1>1. program[j] \in Statement
  BY DEF PassTypeOK
<1>2. program[j].args \in Seq(Argument) /\ program[j].loops \in LoopNames
  BY <1>1 DEF Statement
<1>3. program[j].args[b] \in Argument
  BY <1>2 DEF ArgsOf
<1> QED BY <1>2, <1>3 DEF TypeOf, SizeOf, TextOf, LoopsOf, Argument

LEMMA AccessedArgument ==
  ASSUME PassTypeOK, Regular(program), NEW j \in DOMAIN program, IsScop(j),
         NEW b \in ArgsOf(j)
  PROVE  /\ TypeOf(j, b) \in {"IN", "OUT", "IN_OUT"}
         /\ TextOf(j, b) # NULLString /\ TextOf(j, b) \in Texts
         /\ \A loops \in LoopNames : ConstantOf(TextOf(j, b), loops) \in Int
<1>1. TypeOf(j, b) \in {"IN", "OUT", "IN_OUT"} /\ TextOf(j, b) # NULLString
  BY DEF Regular, IsScop, ArgsOf, TypeOf, TextOf
<1>2. TextOf(j, b) \in Texts
  BY <1>1, ArgumentTypes
<1> QED BY <1>1, <1>2, ConstantsAssumption

LEMMA UsesAreUses ==
  ASSUME NEW i, NEW a, NEW u
  PROVE  u \in Uses(i, a) <=>
           \/ u = Use(i, a)
           \/ \E j \in DOMAIN program : \E b \in ArgsOf(j) :
                UsedLater(i, a, j, b) /\ u = Use(j, b)
BY DEF Uses

LEMMA UsesTyped ==
  ASSUME PassTypeOK, Regular(program), NEW i \in DOMAIN program, IsScop(i),
         NEW a \in ArgsOf(i), NEW u \in Uses(i, a)
  PROVE  u.call \in Int /\ u.call >= i /\ u.size \in Nat /\ u.constant \in Int
<1>1. ASSUME NEW j \in DOMAIN program, IsScop(j), NEW b \in ArgsOf(j)
      PROVE  /\ Use(j, b).call = j /\ j \in Int
             /\ Use(j, b).size \in Nat /\ Use(j, b).constant \in Int
  BY <1>1, ProgramDomain, ArgumentTypes, AccessedArgument DEF Use
<1>2. CASE u = Use(i, a)
  BY <1>1, <1>2
<1>3. CASE u # Use(i, a)
  BY <1>1, <1>3, UsesAreUses DEF UsedLater
<1> QED BY <1>2, <1>3

LEMMA NoPointerTwice ==
  ASSUME Regular(program), NEW i \in DOMAIN program, IsScop(i),
         NEW a \in ArgsOf(i), NEW b \in ArgsOf(i), ValueOf(i, a) = ValueOf(i, b)
  PROVE  a = b
BY DEF Regular, IsScop, ArgsOf, ValueOf

LEMMA PassInitInv == PassInit => PassInv
<1> SUFFICES ASSUME PassInit PROVE PassInv
  OBVIOUS
<1> USE DEF PassInit
<1>1. program \in Seq(Statement)
  BY ProgramsAssumption
<1>2. DOMAIN program = 1 .. Len(program) /\ Len(program) \in Nat
  BY <1>1
<1>3. PassTypeOK
  <2>1. ASSUME NEW i \in DOMAIN program
        PROVE  /\ typeOptimized[i] \in [ArgsOf(i) -> DataTransferType]
               /\ maxOptimized[i] \in [ArgsOf(i) -> Texts \cup {NULLString}]
    <3>1. typeOptimized[i] = [a \in ArgsOf(i) |-> "UNKNOWN"]
      OBVIOUS
    <3>2. maxOptimized[i] = [a \in ArgsOf(i) |-> NULLString]
      OBVIOUS
    <3> QED BY <3>1, <3>2 DEF DataTransferType
  <2>2. iter \in 1 .. Len(program) + 1 /\ root_pos \in 0 .. Len(program)
    BY <1>2
  <2> QED BY <1>1, <2>1, <2>2 DEF PassTypeOK, Phase
<1>4. ScannedInv
  BY <1>2 DEF ScannedInv
<1> QED BY <1>3, <1>4 DEF PassInv, UpdateInv, SettledInv, DoneInv

(* What the calls need of a buffer is a matter of the program alone. *)
LEMMA UsesUnchanged ==
  ASSUME program' = program, NEW i, NEW a
  PROVE  /\ WrittenLater(i, a)' <=> WrittenLater(i, a)
         /\ Uses(i, a)' = Uses(i, a)
         /\ ReadAlike' <=> ReadAlike
<1> USE DEF UsedLater, IsScop, ArgsOf, ValueOf, TypeOf, SizeOf, TextOf, LoopsOf
<1>1. WrittenLater(i, a)' <=> WrittenLater(i, a)
  BY DEF WrittenLater
<1>2. Uses(i, a)' = Uses(i, a)
  BY DEF Uses, Use
<1>3. ReadAlike' <=> ReadAlike
  BY DEF ReadAlike
<1> QED BY <1>1, <1>2, <1>3

LEMMA SettledUnchanged ==
  ASSUME program' = program, NEW i, typeOptimized'[i] = typeOptimized[i],
         maxOptimized'[i] = maxOptimized[i], Settled(i)
  PROVE  Settled(i)'
<1>1. \A a : /\ WrittenLater(i, a)' <=> WrittenLater(i, a)
             /\ Uses(i, a)' = Uses(i, a)
             /\ ReadAlike' <=> ReadAlike
  BY UsesUnchanged
<1> QED
  BY <1>1 DEF Settled, Largest, FirstLargest, ArgsOf, TypeOf, UsedLater, IsScop, ValueOf

(* A text that is the first with the largest constant of the uses from the *)
(* child on: the comparison with the root's makes it, or the root's own,   *)
(* the first with the largest constant of the uses from the root on.       *)
LEMMA LargerTextGoesUp ==
  ASSUME PassTypeOK, Regular(program), ReadAlike,
         NEW r \in DOMAIN program, IsScop(r), NEW a \in ArgsOf(r),
         NEW j \in DOMAIN program, NEW b \in ArgsOf(j), UsedLater(r, a, j, b),
         \A k \in DOMAIN program : \A c \in ArgsOf(k) :
           UsedLater(r, a, k, c) => <<k, c>> = <<j, b>> \/ UsedLater(j, b, k, c),
         NEW text, Largest(j, b, text)
  PROVE  Largest(r, a, RootText(TextOf(r, a), LoopsOf(r), text, LoopsOf(j)))
<1> DEFINE own == Use(r, a)
<1>1. PICK u \in Uses(j, b) : text = u.text /\ FirstLargest(u, Uses(j, b))
  BY DEF Largest
<1>2. r \in Int /\ j \in Int /\ j > r /\ IsScop(j)
  BY ProgramDomain DEF UsedLater
<1>3. PICK k \in DOMAIN program : \E d \in ArgsOf(k) :
        u = Use(k, d) /\ (<<k, d>> = <<j, b>> \/ UsedLater(j, b, k, d))
  BY <1>1, UsesAreUses
<1>c. PICK c \in ArgsOf(k) : u = Use(k, c) /\ (<<k, c>> = <<j, b>> \/ UsedLater(j, b, k, c))
  BY <1>3
<1>4. IsScop(k) /\ text = TextOf(k, c) /\ u.constant = ConstantOf(text, LoopsOf(k))
  BY <1>1, <1>2, <1>c DEF Use, UsedLater
<1>5. ConstantOf(text, LoopsOf(j)) = u.constant
  BY <1>c, <1>4 DEF ReadAlike
<1>6. text # NULLString /\ TextOf(r, a) # NULLString
  BY <1>4, AccessedArgument
<1>7. own.call = r /\ own.text = TextOf(r, a) /\ own.constant = ConstantOf(TextOf(r, a), LoopsOf(r))
  BY DEF Use
<1>8. RootText(TextOf(r, a), LoopsOf(r), text, LoopsOf(j)) =
        IF u.constant > own.constant THEN u.text ELSE own.text
  BY <1>1, <1>5, <1>6, <1>7 DEF RootText, IsLarger
<1>9. own \in Uses(r, a) /\ u \in Uses(r, a)
  <2>1. UsedLater(r, a, k, c)
    BY <1>2, <1>c, ProgramDomain DEF UsedLater
  <2> QED BY <1>c, <2>1, UsesAreUses
<1>10. ASSUME NEW w \in Uses(r, a)
       PROVE  w = own \/ w \in Uses(j, b)
  <2>1. CASE w # own
    <3>1. \E l \in DOMAIN program : \E d \in ArgsOf(l) : UsedLater(r, a, l, d) /\ w = Use(l, d)
      BY <2>1, UsesAreUses
    <3> QED BY <3>1, UsesAreUses
  <2> QED BY <2>1
<1>11. own.constant \in Int /\ u.constant \in Int /\ u.call \in Int /\ u.call > r
  BY <1>1, <1>2, <1>9, UsesTyped
<1>12. CASE u.constant > own.constant
  <2>1. ASSUME NEW w \in Uses(r, a)
        PROVE  /\ w.constant <= u.constant
               /\ w.call < u.call => w.constant < u.constant
    BY <1>1, <1>10, <1>11, <1>12 DEF FirstLargest
  <2> QED BY <1>8, <1>9, <1>12, <2>1 DEF Largest, FirstLargest
<1>13. CASE ~(u.constant > own.constant)
  <2>1. ASSUME NEW w \in Uses(r, a)
        PROVE  /\ w.constant <= own.constant
               /\ w.call < own.call => w.constant < own.constant
    <3>1. w.call \in Int /\ w.call >= r /\ w.constant \in Int
      BY UsesTyped
    <3>2. w = own \/ w.constant <= u.constant
      BY <1>1, <1>10 DEF FirstLargest
    <3> QED BY <1>2, <1>7, <1>11, <1>13, <3>1, <3>2
  <2> QED BY <1>8, <1>9, <1>13, <2>1 DEF Largest, FirstLargest
<1> QED BY <1>12, <1>13

(* One iteration of the second loop settles its root, given that the calls *)
(* after it are settled.                                                   *)
LEMMA RootBecomesSettled ==
  ASSUME PassInv, Regular(program), UpdateRoot,
         NEW r \in Nat, r = root_pos, IsScop(r)
  PROVE  Settled(r)'
<1>1. r \in DOMAIN program /\ phase = "update" /\ ~flag_chain_interrupt
  BY ProgramDomain DEF UpdateRoot, PassInv, PassTypeOK, UpdateInv
<1>2. program' = program
  BY DEF UpdateRoot
<1>3. SUFFICES ASSUME NEW a \in ArgsOf(r)
      PROVE /\ typeOptimized'[r][a] \in {"IN", "OUT", "IN_OUT"}
            /\ typeOptimized'[r][a] = "OUT" <=> TypeOf(r, a) = "OUT"
            /\ Writes(TypeOf(r, a)) => Writes(typeOptimized'[r][a])
            /\ \A k \in DOMAIN program : \A c \in ArgsOf(k) :
                 UsedLater(r, a, k, c) /\ typeOptimized'[r][a] = "IN" =>
                   ~Writes(TypeOf(k, c))
            /\ typeOptimized'[r][a] # TypeOf(r, a) =>
                 /\ TypeOf(r, a) = "IN" /\ typeOptimized'[r][a] = "IN_OUT"
                 /\ WrittenLater(r, a)
            /\ ReadAlike => Largest(r, a, maxOptimized'[r][a])
  <2>1. \A a : /\ WrittenLater(r, a)' <=> WrittenLater(r, a)
               /\ Uses(r, a)' = Uses(r, a)
               /\ ReadAlike' <=> ReadAlike
    BY <1>2, UsesUnchanged
  <2> QED
    BY <1>2, <2>1 DEF Settled, Largest, FirstLargest, ArgsOf, TypeOf, UsedLater, IsScop, ValueOf
<1> DEFINE v == ValueOf(r, a)
           j == Child(r, v)
           b == ChildArg(j, v)
<1>4. /\ typeOptimized'[r][a] = RootTypeWithChildren(r, a)
      /\ maxOptimized'[r][a] = RootMaxWithChildren(r, a)
  BY <1>1, <1>3 DEF UpdateRoot, PassInv, PassTypeOK
<1>5. /\ typeOptimized[r][a] = TypeOf(r, a)
      /\ maxOptimized[r][a] = TextOf(r, a)
  BY <1>1, <1>3 DEF PassInv, UpdateInv, Unoptimized, PassTypeOK
<1>6. TypeOf(r, a) \in {"IN", "OUT", "IN_OUT"}
  BY <1>1, AccessedArgument DEF PassInv
<1>7. CASE LaterUsers(r, v) = {}
  <2>1. ASSUME NEW k \in DOMAIN program, NEW c \in ArgsOf(k), UsedLater(r, a, k, c)
        PROVE  FALSE
    <3>1. k \in LaterUsers(r, v)
      BY <2>1 DEF UsedLater, LaterUsers
    <3> QED BY <1>7, <3>1
  <2>2. typeOptimized'[r][a] = TypeOf(r, a) /\ maxOptimized'[r][a] = TextOf(r, a)
    BY <1>4, <1>5, <1>7 DEF RootTypeWithChildren, RootMaxWithChildren
  <2>3. Largest(r, a, TextOf(r, a))
    <3>1. Use(r, a) \in Uses(r, a) /\ \A w \in Uses(r, a) : w = Use(r, a)
      BY <2>1, UsesAreUses
    <3>2. Use(r, a).constant \in Int /\ Use(r, a).call \in Int
      BY <1>1, <3>1, UsesTyped DEF PassInv
    <3>3. Use(r, a).text = TextOf(r, a)
      BY DEF Use
    <3> QED BY <3>1, <3>2, <3>3 DEF Largest, FirstLargest
  <2> QED BY <1>6, <2>1, <2>2, <2>3
<1>8. CASE LaterUsers(r, v) # {}
  <2>1. /\ j \in DOMAIN program /\ j > r /\ IsScop(j)
        /\ b \in ArgsOf(j) /\ ValueOf(j, b) = v
        /\ \A k \in LaterUsers(r, v) : j <= k
    BY <1>1, <1>8, ChildIsNextUser DEF PassInv
  <2>2. Settled(j)
    BY <1>1, <2>1 DEF PassInv, SettledInv
  <2>3. /\ typeOptimized'[r][a] = RootType(TypeOf(r, a), typeOptimized[j][b])
        /\ maxOptimized'[r][a] = RootText(TextOf(r, a), LoopsOf(r),
                                          maxOptimized[j][b], LoopsOf(j))
    BY <1>4, <1>5, <1>8 DEF RootTypeWithChildren, RootMaxWithChildren
  <2>4. ASSUME NEW k \in DOMAIN program, NEW c \in ArgsOf(k), UsedLater(r, a, k, c)
        PROVE  <<k, c>> = <<j, b>> \/ UsedLater(j, b, k, c)
    <3>1. k \in LaterUsers(r, v) /\ IsScop(k) /\ ValueOf(k, c) = v
      BY <2>4 DEF UsedLater, LaterUsers
    <3>2. k >= j /\ k \in Nat /\ j \in Nat
      BY <2>1, <3>1, ProgramDomain DEF PassInv
    <3>3. CASE k = j
      BY <2>1, <2>4, <3>1, <3>3, NoPointerTwice
    <3>4. CASE k > j
      BY <2>1, <3>1, <3>4 DEF UsedLater
    <3> QED BY <3>2, <3>3, <3>4
  <2>5. ASSUME NEW k \in DOMAIN program, NEW c \in ArgsOf(k), UsedLater(r, a, k, c),
               typeOptimized'[r][a] = "IN"
        PROVE  ~Writes(TypeOf(k, c))
    <3>1. typeOptimized[j][b] = "IN"
      BY <2>1, <2>2, <2>3, <2>5, <1>6 DEF RootType, Settled, Writes
    <3>2. CASE <<k, c>> = <<j, b>>
      BY <2>1, <2>2, <3>1, <3>2 DEF Settled, Writes
    <3>3. CASE UsedLater(j, b, k, c)
      BY <2>1, <2>2, <2>5, <3>1, <3>3 DEF Settled
    <3> QED BY <2>4, <2>5, <3>2, <3>3
  <2>6. /\ typeOptimized'[r][a] \in {"IN", "OUT", "IN_OUT"}
        /\ typeOptimized'[r][a] = "OUT" <=> TypeOf(r, a) = "OUT"
        /\ Writes(TypeOf(r, a)) => Writes(typeOptimized'[r][a])
    BY <1>6, <2>3 DEF RootType, Writes
  <2>7. ASSUME NEW k \in DOMAIN program, NEW c \in ArgsOf(k), UsedLater(j, b, k, c)
        PROVE  UsedLater(r, a, k, c)
    BY <1>1, <2>1, <2>7, ProgramDomain DEF UsedLater, PassInv
  <2>8. UsedLater(r, a, j, b)
    BY <2>1 DEF UsedLater
  <2>9. Writes(typeOptimized[j][b]) => WrittenLater(r, a)
    <3>1. CASE typeOptimized[j][b] = TypeOf(j, b)
      BY <2>1, <2>8, <3>1 DEF WrittenLater
    <3>2. CASE typeOptimized[j][b] # TypeOf(j, b)
      <4>1. WrittenLater(j, b)
        BY <2>1, <2>2, <3>2 DEF Settled
      <4> QED BY <2>7, <4>1 DEF WrittenLater
    <3> QED BY <3>1, <3>2
  <2>10. typeOptimized'[r][a] # TypeOf(r, a) =>
           /\ TypeOf(r, a) = "IN" /\ typeOptimized'[r][a] = "IN_OUT"
           /\ WrittenLater(r, a)
    BY <2>3, <2>9 DEF RootType
  <2>11. ReadAlike => Largest(r, a, maxOptimized'[r][a])
    <3>1. ReadAlike => Largest(j, b, maxOptimized[j][b])
      BY <2>1, <2>2 DEF Settled
    <3> HIDE DEF j, b
    <3> QED BY <1>1, <2>1, <2>3, <2>4, <2>8, <3>1, LargerTextGoesUp DEF PassInv
  <2> QED BY <2>5, <2>6, <2>10, <2>11
<1> QED BY <1>7, <1>8

LEMMA PassTypeCorrect == PassTypeOK /\ [PassNext]_passVars => PassTypeOK'
<1> SUFFICES ASSUME PassTypeOK, [PassNext]_passVars PROVE PassTypeOK'
  OBVIOUS
<1>0. DOMAIN program = 1 .. Len(program) /\ Len(program) \in Nat
  BY ProgramDomain
<1> USE DEF PassTypeOK
<1>t. ASSUME NEW i \in DOMAIN program
      PROVE  /\ [a \in ArgsOf(i) |-> TypeOf(i, a)] \in [ArgsOf(i) -> DataTransferType]
             /\ [a \in ArgsOf(i) |-> TextOf(i, a)] \in [ArgsOf(i) -> Texts \cup {NULLString}]
  <2>1. program[i] \in Statement
    OBVIOUS
  <2>2. program[i].args \in Seq(Argument)
    BY <2>1 DEF Statement
  <2>3. \A a \in ArgsOf(i) : program[i].args[a] \in Argument
    BY <2>2 DEF ArgsOf
  <2>4. \A a \in ArgsOf(i) : /\ TypeOf(i, a) \in DataTransferType
                            /\ TextOf(i, a) \in Texts \cup {NULLString}
    BY <2>3 DEF TypeOf, TextOf, Argument
  <2> QED BY <2>4
<1>c. ASSUME UNCHANGED <<program, typeOptimized, maxOptimized>>
      PROVE  /\ DOMAIN typeOptimized' = DOMAIN program'
             /\ DOMAIN maxOptimized' = DOMAIN program'
             /\ \A i \in DOMAIN program' :
                  /\ typeOptimized'[i] \in [ArgsOf(i)' -> DataTransferType]
                  /\ maxOptimized'[i] \in [ArgsOf(i)' -> Texts \cup {NULLString}]
  BY <1>c DEF ArgsOf
<1>1. CASE ScanScopCall
  <2>1. iter \in DOMAIN program /\ program' = program /\ iter' = iter + 1
    BY <1>0, <1>1 DEF ScanScopCall, Scan
  <2>2. ASSUME NEW i \in DOMAIN program
        PROVE  /\ typeOptimized'[i] \in [ArgsOf(i) -> DataTransferType]
               /\ maxOptimized'[i] \in [ArgsOf(i) -> Texts \cup {NULLString}]
    BY <1>t, <1>1, <2>1 DEF ScanScopCall, Scan
  <2> QED BY <1>0, <1>1, <2>1, <2>2 DEF ScanScopCall, Scan, ArgsOf
<1>2. CASE ScanHostCall
  <2>1. iter' \in 1 .. Len(program) + 1 /\ runner_chain_id' \in Nat
    BY <1>0, <1>2 DEF ScanHostCall, Scan
  <2> QED BY <1>c, <1>2, <2>1 DEF ScanHostCall, Scan
<1>3. CASE ScanOther
  <2>1. iter' \in 1 .. Len(program) + 1
    BY <1>0, <1>3 DEF ScanOther, Scan
  <2> QED BY <1>c, <1>3, <2>1 DEF ScanOther, Scan
<1>4. CASE EndScan
  <2>1. root_pos' \in 0 .. Len(program) /\ phase' \in Phase /\ flag_chain_interrupt' \in BOOLEAN
    BY <1>0, <1>4 DEF EndScan, Phase
  <2> QED BY <1>c, <1>4, <2>1 DEF EndScan
<1>5. CASE UpdateRoot
  <2> DEFINE r == root_pos
  <2>1. r \in DOMAIN program /\ program' = program
    BY <1>0, <1>5 DEF UpdateRoot
  <2>2. ASSUME IsScop(r), NEW a \in ArgsOf(r)
        PROVE  /\ RootTypeWithChildren(r, a) \in DataTransferType
               /\ RootMaxWithChildren(r, a) \in Texts \cup {NULLString}
    <3> DEFINE v == ValueOf(r, a)
               j == Child(r, v)
               b == ChildArg(j, v)
    <3>1. typeOptimized[r][a] \in DataTransferType /\ maxOptimized[r][a] \in Texts \cup {NULLString}
      BY <2>1, <2>2
    <3>2. CASE LaterUsers(r, v) # {}
      <4>1. j \in DOMAIN program /\ b \in ArgsOf(j)
        BY <2>1, <3>2, ChildIsNextUser
      <4>2. maxOptimized[j][b] \in Texts \cup {NULLString}
        BY <4>1
      <4>3. RootTypeWithChildren(r, a) = RootType(typeOptimized[r][a], typeOptimized[j][b])
        BY <3>2 DEF RootTypeWithChildren
      <4>4. RootMaxWithChildren(r, a) = RootText(maxOptimized[r][a], LoopsOf(r),
                                                  maxOptimized[j][b], LoopsOf(j))
        BY <3>2 DEF RootMaxWithChildren
      <4>5. RootTypeWithChildren(r, a) \in DataTransferType
        BY <3>1, <4>3 DEF RootType, DataTransferType
      <4> QED BY <3>1, <4>2, <4>4, <4>5 DEF RootText
    <3>3. CASE LaterUsers(r, v) = {}
      BY <3>1, <3>3 DEF RootTypeWithChildren, RootMaxWithChildren
    <3> QED BY <3>2, <3>3
  <2>3. ASSUME NEW i \in DOMAIN program
        PROVE  /\ typeOptimized'[i] \in [ArgsOf(i) -> DataTransferType]
               /\ maxOptimized'[i] \in [ArgsOf(i) -> Texts \cup {NULLString}]
    <3>1. CASE IsScop(r) /\ i = r
      <4>1. /\ typeOptimized'[r] = [a \in ArgsOf(r) |-> RootTypeWithChildren(r, a)]
            /\ maxOptimized'[r] = [a \in ArgsOf(r) |-> RootMaxWithChildren(r, a)]
        BY <1>5, <2>1, <3>1 DEF UpdateRoot
      <4> QED BY <2>2, <3>1, <4>1
    <3>2. CASE ~(IsScop(r) /\ i = r)
      <4>1. typeOptimized'[i] = typeOptimized[i] /\ maxOptimized'[i] = maxOptimized[i]
        BY <1>5, <3>2 DEF UpdateRoot
      <4> QED BY <4>1
    <3> QED BY <3>1, <3>2
  <2>4. root_pos' \in 0 .. Len(program)
    BY <1>0, <1>5 DEF UpdateRoot
  <2>5. DOMAIN typeOptimized' = DOMAIN program /\ DOMAIN maxOptimized' = DOMAIN program
    BY <1>5 DEF UpdateRoot
  <2>6. \A i : ArgsOf(i)' = ArgsOf(i)
    BY <2>1 DEF ArgsOf
  <2>7. UNCHANGED <<phase, iter, flag_new_chain, runner_chain_id, flag_chain_interrupt>>
    BY <1>5 DEF UpdateRoot
  <2> QED BY <2>1, <2>3, <2>4, <2>5, <2>6, <2>7
<1>6. CASE EndUpdate
  BY <1>c, <1>6 DEF EndUpdate, Phase
<1>7. CASE UNCHANGED passVars
  BY <1>c, <1>7 DEF passVars
<1> QED BY <1>1, <1>2, <1>3, <1>4, <1>5, <1>6, <1>7 DEF PassNext

LEMMA PassStepInv == PassInv /\ [PassNext]_passVars => PassInv'
<1> SUFFICES ASSUME PassInv, [PassNext]_passVars PROVE PassInv'
  OBVIOUS
<1>0. PassTypeOK /\ PassTypeOK'
  BY PassTypeCorrect DEF PassInv
<1>d. DOMAIN program = 1 .. Len(program) /\ Len(program) \in Nat
  BY <1>0, ProgramDomain
<1> USE DEF PassInv
<1>1. CASE ScanScopCall
  <2>1. iter \in DOMAIN program /\ program' = program /\ iter' = iter + 1
    BY <1>0, <1>d, <1>1 DEF ScanScopCall, Scan, PassTypeOK
  <2>2. ASSUME NEW i \in DOMAIN program, IsScop(i), i < iter + 1
        PROVE  Unoptimized(i)'
    <3>1. /\ typeOptimized' = [typeOptimized EXCEPT ![iter] =
                               [a \in ArgsOf(iter) |-> TypeOf(iter, a)]]
          /\ maxOptimized' = [maxOptimized EXCEPT ![iter] =
                               [a \in ArgsOf(iter) |-> TextOf(iter, a)]]
      BY <1>1 DEF ScanScopCall
    <3>2. DOMAIN typeOptimized = DOMAIN program /\ DOMAIN maxOptimized = DOMAIN program
      BY <1>0 DEF PassTypeOK
    <3>3. CASE i = iter
      BY <2>1, <3>1, <3>2, <3>3 DEF Unoptimized, ArgsOf, TypeOf, TextOf
    <3>4. CASE i # iter
      <4>1. Unoptimized(i)
        BY <1>1, <1>d, <2>1, <2>2, <3>4 DEF ScanScopCall, Scan, ScannedInv
      <4>2. typeOptimized'[i] = typeOptimized[i] /\ maxOptimized'[i] = maxOptimized[i]
        BY <3>1, <3>2, <3>4
      <4> QED BY <2>1, <4>1, <4>2 DEF Unoptimized, ArgsOf, TypeOf, TextOf
    <3> QED BY <3>3, <3>4
  <2>3. ScannedInv'
    BY <1>0, <1>1, <2>1, <2>2 DEF ScanScopCall, Scan, ScannedInv, IsScop
  <2> QED BY <1>0, <1>1, <2>3 DEF ScanScopCall, Scan, UpdateInv, SettledInv, DoneInv
<1>2. CASE ScanHostCall \/ ScanOther
  <2>1. /\ phase = "scan" /\ phase' = phase /\ iter' = iter + 1
        /\ program[iter].kind # "scop" /\ iter \in DOMAIN program
        /\ UNCHANGED <<program, typeOptimized, maxOptimized, flag_chain_interrupt>>
    BY <1>0, <1>d, <1>2 DEF ScanHostCall, ScanOther, Scan, PassTypeOK
  <2>2. ASSUME NEW i \in DOMAIN program, IsScop(i), i < iter + 1
        PROVE  Unoptimized(i)'
    <3>1. i # iter /\ i < iter
      BY <1>0, <1>d, <2>1, <2>2 DEF IsScop, PassTypeOK
    <3>2. Unoptimized(i)
      BY <2>1, <2>2, <3>1 DEF ScannedInv
    <3> QED BY <2>1, <3>2 DEF Unoptimized, ArgsOf, TypeOf, TextOf
  <2>3. ScannedInv'
    BY <2>1, <2>2 DEF ScannedInv, IsScop
  <2> QED BY <1>0, <2>1, <2>3 DEF UpdateInv, SettledInv, DoneInv
<1>3. CASE EndScan
  <2>1. /\ phase = "scan" /\ phase' \in {"update", "done"}
        /\ phase' = "update" <=> ~flag_chain_interrupt'
        /\ iter > Len(program) /\ root_pos' = Len(program)
        /\ UNCHANGED <<program, typeOptimized, maxOptimized>>
    BY <1>3 DEF EndScan
  <2>2. \A i \in DOMAIN program : IsScop(i) => Unoptimized(i)
    BY <1>0, <1>d, <2>1 DEF ScannedInv, PassTypeOK
  <2>3. \A i \in DOMAIN program' : IsScop(i)' => Unoptimized(i)'
    BY <2>1, <2>2 DEF IsScop, Unoptimized, ArgsOf, TypeOf, TextOf
  <2>4. \A i \in DOMAIN program' : ~(i > root_pos')
    BY <1>d, <2>1
  <2> QED BY <1>0, <2>1, <2>3, <2>4 DEF ScannedInv, UpdateInv, SettledInv, DoneInv
<1>4. CASE UpdateRoot
  <2> DEFINE r == root_pos
  <2>1. /\ r \in DOMAIN program /\ r \in Nat /\ phase = "update" /\ root_pos' = r - 1
        /\ UNCHANGED <<program, phase, flag_chain_interrupt>>
    BY <1>0, <1>d, <1>4 DEF UpdateRoot, PassTypeOK
  <2>2. \A i \in DOMAIN program : i # r =>
          typeOptimized'[i] = typeOptimized[i] /\ maxOptimized'[i] = maxOptimized[i]
    BY <1>0, <1>4, <2>1 DEF UpdateRoot, PassTypeOK
  <2>3. UpdateInv'
    BY <1>d, <2>1, <2>2 DEF UpdateInv, Unoptimized, IsScop, ArgsOf, TypeOf, TextOf
  <2>4. ASSUME Regular(program), NEW i \in DOMAIN program, IsScop(i), i > r - 1
        PROVE  Settled(i)'
    <3>1. CASE i = r
      BY <1>4, <2>1, <2>4, <3>1, RootBecomesSettled
    <3>2. CASE i > r
      <4>1. Settled(i)
        BY <2>1, <2>4, <3>2 DEF SettledInv, UpdateInv
      <4>2. typeOptimized'[i] = typeOptimized[i] /\ maxOptimized'[i] = maxOptimized[i]
        BY <1>d, <2>1, <2>2, <3>2
      <4> QED BY <2>1, <4>1, <4>2, SettledUnchanged
    <3> QED BY <1>d, <2>1, <2>4, <3>1, <3>2
  <2>5. SettledInv'
    BY <2>1, <2>4 DEF SettledInv, IsScop
  <2> QED BY <1>0, <2>1, <2>3, <2>5 DEF ScannedInv, DoneInv
<1>5. CASE EndUpdate
  <2>1. /\ phase = "update" /\ phase' = "done" /\ root_pos = 0
        /\ UNCHANGED <<program, root_pos, flag_chain_interrupt, typeOptimized, maxOptimized>>
    BY <1>5 DEF EndUpdate
  <2>2. SettledInv'
    BY <2>1, SettledUnchanged DEF SettledInv, IsScop
  <2> QED BY <1>0, <2>1, <2>2 DEF ScannedInv, UpdateInv, DoneInv
<1>6. CASE UNCHANGED passVars
  <2> USE <1>6 DEF passVars
  <2>1. ScannedInv' /\ UpdateInv' /\ DoneInv'
    BY DEF ScannedInv, UpdateInv, DoneInv, Unoptimized, ArgsOf, TypeOf, TextOf, IsScop
  <2>2. SettledInv'
    BY SettledUnchanged DEF SettledInv, IsScop
  <2> QED BY <1>0, <2>1, <2>2
<1> QED BY <1>1, <1>2, <1>3, <1>4, <1>5, <1>6 DEF PassNext
-----------------------------------------------------------------------------
(* What the runs check follows from the invariant. *)
LEMMA PassInvImplies ==
  PassInv => /\ PassTypeOK
             /\ ReadOnlyNeverWritten
             /\ SizeCoversLaterUses
             /\ PassIsExact
<1> SUFFICES ASSUME PassInv
             PROVE  /\ ReadOnlyNeverWritten
                    /\ SizeCoversLaterUses
                    /\ PassIsExact
  BY DEF PassInv
<1> USE DEF PassInv
<1>1. ASSUME Optimized, Regular(program), NEW i \in DOMAIN program, IsScop(i)
      PROVE  Settled(i)
  <2>1. i > root_pos
    BY <1>1, ProgramDomain DEF Optimized, DoneInv
  <2> QED BY <1>1, <2>1 DEF Optimized, SettledInv
<1>2. ReadOnlyNeverWritten
  BY <1>1 DEF ReadOnlyNeverWritten, Settled, UsedLater
<1>3. Optimized /\ Regular(program) => TypesAsNeeded
  <2> SUFFICES ASSUME Optimized, Regular(program), NEW i \in DOMAIN program, IsScop(i),
                      NEW a \in ArgsOf(i)
               PROVE  typeOptimized[i][a] = IF TypeOf(i, a) = "IN" /\ WrittenLater(i, a)
                                            THEN "IN_OUT" ELSE TypeOf(i, a)
    BY DEF TypesAsNeeded
  <2>1. Settled(i)
    BY <1>1
  <2>2. TypeOf(i, a) = "IN" /\ WrittenLater(i, a) => typeOptimized[i][a] # "IN"
    BY <2>1 DEF Settled, WrittenLater
  <2> QED BY <2>1, <2>2 DEF Settled
<1>s. Optimized /\ Regular(program) /\ ReadAlike => SizesOfFirstLargest
  BY <1>1 DEF SizesOfFirstLargest, Settled, Largest
<1>l. SizeCoversLaterUses
  <2> SUFFICES ASSUME Optimized, Regular(program), ReadAlike, DifferInConstants,
                      NEW i \in DOMAIN program, IsScop(i), NEW a \in ArgsOf(i)
               PROVE  \E u \in Uses(i, a) : /\ maxOptimized[i][a] = u.text
                                            /\ \A w \in Uses(i, a) : u.size >= w.size
    BY DEF SizeCoversLaterUses
  <2>1. PICK u \in Uses(i, a) : maxOptimized[i][a] = u.text /\ FirstLargest(u, Uses(i, a))
    BY <1>s DEF SizesOfFirstLargest
  <2>2. ASSUME NEW w \in Uses(i, a)
        PROVE  u.size >= w.size
    <3>1. u.size \in Nat /\ w.size \in Nat /\ u.constant \in Int /\ w.constant \in Int
      BY <2>1, UsesTyped
    <3>2. u.size - w.size = u.constant - w.constant
      BY DEF DifferInConstants
    <3>3. w.constant <= u.constant
      BY <2>1 DEF FirstLargest
    <3> QED BY <3>1, <3>2, <3>3
  <2> QED BY <2>1, <2>2
<1>4. InterruptPreventsOptimization
  BY DEF InterruptPreventsOptimization, ScannedInv, UpdateInv, DoneInv,
         PassTypeOK, Phase, Unoptimized
<1> QED BY <1>2, <1>3, <1>s, <1>l, <1>4 DEF PassIsExact

(* In a chain of any length, a buffer created as IN is written by no later *)
(* call.                                                                   *)
THEOREM ReadOnlySafe == PassSpec => []ReadOnlyNeverWritten
<1>1. PassInv => ReadOnlyNeverWritten
  BY PassInvImplies
<1> QED BY PassInitInv, PassStepInv, <1>1, PTL DEF PassSpec

(* If the sizes of a buffer differ in their constants only, the optimized  *)
(* one is enough for every later call of a chain of any length.            *)
THEOREM SizesSufficient == PassSpec => []SizeCoversLaterUses
<1>1. PassInv => SizeCoversLaterUses
  BY PassInvImplies
<1> QED BY PassInitInv, PassStepInv, <1>1, PTL DEF PassSpec

(* In a chain of any length, what reaches a call through the next users of *)
(* its buffers is exactly what all later calls ask for: a write-back if    *)
(* one of them writes, and, if texts are read alike, the text of the first *)
(* with the largest constant; with the flag raised nothing is changed.     *)
THEOREM PassComputesNeeds == PassSpec => []PassIsExact
<1>1. PassInv => PassIsExact
  BY PassInvImplies
<1> QED BY PassInitInv, PassStepInv, <1>1, PTL DEF PassSpec

(* A raised flag leaves every call as ScopDetect described it. *)
THEOREM FlagPreventsOptimization == PassSpec => []InterruptPreventsOptimization
<1>1. PassInv => InterruptPreventsOptimization
  BY PassInvImplies DEF PassIsExact
<1> QED BY PassInitInv, PassStepInv, <1>1, PTL DEF PassSpec

(* The types of the pass, for programs of any length. *)
THEOREM PassTypesCorrect == PassSpec => []PassTypeOK
<1>1. PassInv => PassTypeOK
  BY DEF PassInv
<1> QED BY PassInitInv, PassStepInv, <1>1, PTL DEF PassSpec
-----------------------------------------------------------------------------
(* The chains.  The first loop counts the chains that a host call closes, *)
(* so the flag tells exactly the programs with more than one.              *)

(* After n statements a chain is open. *)
Open(n) ==
  \E i \in 1 .. n : program[i].kind = "scop" /\ \A j \in i .. n : program[j].kind # "call"

(* The statements among the first n that close a chain. *)
Closers(n) == {k \in 1 .. n : ClosesChain(program, k)}

ChainsCounted ==
  phase = "scan" =>
    /\ flag_new_chain <=> Open(iter - 1)
    /\ runner_chain_id = Cardinality(Closers(iter - 1))

FlagIsExact == phase # "scan" => (flag_chain_interrupt <=> ChainInterrupted(program))

ChainInv == PassTypeOK /\ ScannedInv /\ ChainsCounted /\ FlagIsExact
-----------------------------------------------------------------------------
LEMMA StatementKind ==
  ASSUME PassTypeOK, NEW n \in DOMAIN program
  PROVE  program[n].kind \in {"scop", "call", "inline"}
<1>1. program[n] \in Statement
  BY DEF PassTypeOK
<1> QED BY <1>1 DEF Statement

(* A statement opens a chain, closes it, or leaves it as it is. *)
LEMMA OpenStep ==
  ASSUME PassTypeOK, NEW n \in 1 .. Len(program)
  PROVE  Open(n) <=> \/ program[n].kind = "scop"
                     \/ program[n].kind = "inline" /\ Open(n - 1)
<1>0. n \in Nat /\ n - 1 \in Nat /\ n \in DOMAIN program
  BY ProgramDomain
<1>1. CASE program[n].kind = "scop"
  <2>1. \A j \in n .. n : program[j].kind # "call"
    BY <1>0, <1>1
  <2> QED BY <1>0, <1>1, <2>1 DEF Open
<1>2. CASE program[n].kind = "call"
  <2>1. \A i \in 1 .. n : n \in i .. n
    BY <1>0
  <2> QED BY <1>2, <2>1 DEF Open
<1>3. CASE program[n].kind = "inline"
  <2>1. ASSUME Open(n) PROVE Open(n - 1)
    <3>1. PICK i \in 1 .. n : program[i].kind = "scop"
                              /\ \A j \in i .. n : program[j].kind # "call"
      BY <2>1 DEF Open
    <3>2. i \in 1 .. n - 1
      BY <1>0, <1>3, <3>1
    <3>3. \A j \in i .. n - 1 : j \in i .. n
      BY <1>0, <3>2
    <3> QED BY <3>1, <3>2, <3>3 DEF Open
  <2>2. ASSUME Open(n - 1) PROVE Open(n)
    <3>1. PICK i \in 1 .. n - 1 : program[i].kind = "scop"
                                  /\ \A j \in i .. n - 1 : program[j].kind # "call"
      BY <2>2 DEF Open
    <3>2. i \in 1 .. n
      BY <1>0, <3>1
    <3>3. \A j \in i .. n : j = n \/ j \in i .. n - 1
      BY <1>0, <3>2
    <3> QED BY <1>3, <3>1, <3>2, <3>3 DEF Open
  <2> QED BY <1>3, <2>1, <2>2
<1> QED BY <1>0, <1>1, <1>2, <1>3, StatementKind

(* A host call closes a chain if there is an open one. *)
LEMMA CloserStep ==
  ASSUME PassTypeOK, NEW n \in 1 .. Len(program)
  PROVE  Closers(n) = IF program[n].kind = "call" /\ Open(n - 1)
                      THEN Closers(n - 1) \cup {n} ELSE Closers(n - 1)
<1>1. n \in Nat /\ 1 .. n = (1 .. n - 1) \cup {n}
  BY ProgramDomain
<1>2. ClosesChain(program, n) <=> program[n].kind = "call" /\ Open(n - 1)
  BY DEF ClosesChain, Open
<1> QED BY <1>1, <1>2 DEF Closers

LEMMA ClosersFinite ==
  ASSUME NEW n \in Int
  PROVE  IsFiniteSet(Closers(n)) /\ Cardinality(Closers(n)) \in Nat
<1>1. IsFiniteSet(1 .. n)
  BY FS_Interval
<1>2. Closers(n) \in SUBSET (1 .. n)
  BY DEF Closers
<1>3. IsFiniteSet(Closers(n))
  BY <1>1, <1>2, FS_Subset
<1> QED BY <1>3, FS_CardinalityType

LEMMA ChainInitInv == PassInit => ChainInv
<1> SUFFICES ASSUME PassInit PROVE ChainInv
  OBVIOUS
<1>1. PassTypeOK /\ ScannedInv
  BY PassInitInv DEF PassInv
<1>2. iter - 1 = 0 /\ phase = "scan" /\ flag_new_chain = FALSE /\ runner_chain_id = 0
  BY DEF PassInit
<1>3. ~Open(0) /\ Closers(0) = {}
  BY DEF Open, Closers
<1> QED BY <1>1, <1>2, <1>3, FS_EmptySet DEF ChainInv, ChainsCounted, FlagIsExact

(* One iteration of the first loop. *)
LEMMA ScanCounts ==
  ASSUME ChainInv, PassTypeOK', ScanScopCall \/ ScanHostCall \/ ScanOther
  PROVE  ChainsCounted'
<1> USE DEF ChainInv
<1>1. /\ phase = "scan" /\ iter \in 1 .. Len(program) /\ iter' = iter + 1 /\ iter' - 1 = iter
      /\ program' = program
  <2>1. /\ phase = "scan" /\ iter <= Len(program) /\ iter' = iter + 1
        /\ program' = program
    BY DEF ScanScopCall, ScanHostCall, ScanOther, Scan
  <2>2. iter \in 1 .. Len(program) + 1
    BY DEF PassTypeOK
  <2> QED BY <2>1, <2>2, ProgramDomain
<1>2. (Open(iter - 1)' <=> Open(iter)) /\ Closers(iter - 1)' = Closers(iter)
  BY <1>1 DEF Open, Closers
<1>3. IsFiniteSet(Closers(iter - 1)) /\ iter \notin Closers(iter - 1)
  BY <1>1, ClosersFinite DEF Closers
<1>4. CASE ScanScopCall
  <2>1. program[iter].kind = "scop" /\ flag_new_chain' = TRUE /\ runner_chain_id' = runner_chain_id
    BY <1>4 DEF ScanScopCall, Scan
  <2> QED BY <1>1, <1>2, <2>1, OpenStep, CloserStep DEF ChainsCounted
<1>5. CASE ScanHostCall
  <2>1. program[iter].kind = "call" /\ flag_new_chain' = FALSE
        /\ runner_chain_id' = IF flag_new_chain THEN runner_chain_id + 1 ELSE runner_chain_id
    BY <1>5 DEF ScanHostCall, Scan
  <2>2. ~Open(iter)
    BY <1>1, <2>1, OpenStep
  <2>3. Cardinality(Closers(iter)) = IF Open(iter - 1) THEN Cardinality(Closers(iter - 1)) + 1
                                     ELSE Cardinality(Closers(iter - 1))
    <3>1. Cardinality(Closers(iter - 1) \cup {iter}) = Cardinality(Closers(iter - 1)) + 1
      BY <1>3, FS_AddElement
    <3> QED BY <1>1, <2>1, <3>1, CloserStep
  <2> QED BY <1>1, <1>2, <2>1, <2>2, <2>3 DEF ChainsCounted
<1>6. CASE ScanOther
  <2>1. program[iter].kind = "inline" /\ UNCHANGED <<flag_new_chain, runner_chain_id>>
    BY <1>6 DEF ScanOther, Scan
  <2> QED BY <1>1, <1>2, <2>1, OpenStep, CloserStep DEF ChainsCounted
<1> QED BY <1>4, <1>5, <1>6

LEMMA ChainStepInv == PassInv /\ ChainInv /\ [PassNext]_passVars => ChainInv'
<1> SUFFICES ASSUME PassInv, ChainInv, [PassNext]_passVars PROVE ChainInv'
  OBVIOUS
<1>0. PassTypeOK' /\ ScannedInv'
  BY PassStepInv DEF PassInv
<1> USE DEF ChainInv
<1>1. CASE ScanScopCall \/ ScanHostCall \/ ScanOther
  <2>1. ChainsCounted'
    BY <1>0, <1>1, ScanCounts
  <2>2. phase' = "scan"
    BY <1>1 DEF ScanScopCall, ScanHostCall, ScanOther, Scan
  <2> QED BY <1>0, <2>1, <2>2 DEF FlagIsExact
<1>2. CASE EndScan
  <2>1. /\ phase = "scan" /\ phase' # "scan" /\ program' = program
        /\ flag_chain_interrupt' = (runner_chain_id > 1)
        /\ iter - 1 = Len(program)
    BY <1>2, ProgramDomain DEF EndScan, PassTypeOK
  <2>2. Closers(iter - 1) = {k \in DOMAIN program : ClosesChain(program, k)}
    BY <2>1, ProgramDomain DEF Closers
  <2>3. runner_chain_id > 1 <=> ChainInterrupted(program)
    BY <2>1, <2>2 DEF ChainsCounted, ChainInterrupted
  <2> QED BY <1>0, <2>1, <2>3 DEF ChainsCounted, FlagIsExact
<1>3. CASE UpdateRoot \/ EndUpdate
  <2>1. phase # "scan" /\ phase' # "scan"
        /\ UNCHANGED <<program, flag_chain_interrupt>>
    BY <1>3 DEF UpdateRoot, EndUpdate
  <2> QED BY <1>0, <2>1 DEF ChainsCounted, FlagIsExact
<1>4. CASE UNCHANGED passVars
  <2>1. UNCHANGED <<program, phase, iter, flag_new_chain, runner_chain_id, flag_chain_interrupt>>
    BY <1>4 DEF passVars
  <2> QED BY <1>0, <2>1 DEF ChainsCounted, FlagIsExact, Open, Closers
<1> QED BY <1>1, <1>2, <1>3, <1>4 DEF PassNext

(* Of two statements that close a chain, the first stands between the      *)
(* SCoPs of the two chains.                                                *)
LEMMA TwoChainsHaveCallBetween ==
  ASSUME PassTypeOK, ChainInterrupted(program)
  PROVE  HostCallBetweenScops
<1> DEFINE S == {k \in DOMAIN program : ClosesChain(program, k)}
<1>1. DOMAIN program = 1 .. Len(program) /\ Len(program) \in Nat
  BY ProgramDomain
<1>2. IsFiniteSet(S) /\ Cardinality(S) > 1
  <2>1. S = Closers(Len(program))
    BY <1>1 DEF Closers
  <2>2. Cardinality(S) > 1
    BY DEF ChainInterrupted
  <2> HIDE DEF S
  <2> QED BY <1>1, <2>1, <2>2, ClosersFinite
<1>3. PICK k \in S, l \in S : k # l
  <2>1. S # {} /\ \A x : S # {x}
    BY <1>2, FS_EmptySet, FS_Singleton
  <2>2. PICK x \in S : TRUE
    BY <2>1
  <2> QED BY <2>1, <2>2
<1>4. ASSUME NEW m \in S, NEW n \in S, m < n
      PROVE  HostCallBetweenScops
  <2>1. PICK i \in 1 .. m - 1 : program[i].kind = "scop"
    BY <1>4 DEF ClosesChain
  <2>2. PICK j \in 1 .. n - 1 : program[j].kind = "scop"
                                /\ \A x \in j .. n - 1 : program[x].kind # "call"
    BY <1>4 DEF ClosesChain
  <2>3. program[m].kind = "call" /\ m \in Int /\ n \in Int
    BY <1>1 DEF ClosesChain
  <2>4. m < j
    BY <1>4, <2>2, <2>3
  <2>5. i \in DOMAIN program /\ j \in DOMAIN program /\ m \in DOMAIN program /\ i < m
    BY <1>1, <2>1, <2>2, <2>3
  <2> QED BY <2>1, <2>2, <2>3, <2>4, <2>5 DEF HostCallBetweenScops, IsScop
<1> QED
  BY <1>1, <1>3, <1>4

(* In programs of any length, the pass gives up optimizing only if a host  *)
(* call stands between two SCoP calls (scopdependency.cpp:385-402).        *)
THEOREM FlagNeedsInterrupt == PassSpec => []FlagOnlyIfInterrupted
<1>1. PassInv /\ ChainInv => FlagOnlyIfInterrupted
  BY TwoChainsHaveCallBetween
     DEF ChainInv, FlagIsExact, ScannedInv, FlagOnlyIfInterrupted
<1> QED
  BY PassInitInv, PassStepInv, ChainInitInv, ChainStepInv, <1>1, PTL DEF PassSpec

(* The converse holds only of programs in which two host calls close a     *)
(* chain each: a single one between two SCoP calls does not raise the      *)
(* flag, although scopdependency.h:75 speaks of any (scopdependency.cpp:402). *)
THEOREM FlagCountsChains == PassSpec => []FlagIsExact
<1>1. ChainInv => FlagIsExact
  BY DEF ChainInv
<1> QED
  BY PassInitInv, PassStepInv, ChainInitInv, ChainStepInv, <1>1, PTL DEF PassSpec
=============================================================================
