------------------------ MODULE SecureBallotBoxProofs ------------------------
(***************************************************************************)
(* What holds of SecureBallotBox for every number of tickets, providers,   *)
(* guardians, preferences and calls, and that it implements                *)
(* BallotBoxContract.                                                      *)
(***************************************************************************)
EXTENDS SecureBallotBox, FiniteSetTheorems, SequenceTheorems,
        WellFoundedInduction, TLAPS

(* The votes can be counted; ids are drawn upwards, and a call is open only *)
(* while the box is not sealed.                                            *)
BoxInv ==
  /\ IsFiniteSet(votes)
  /\ \A x \in votes : x.id[1] \in 1..drawn
  /\ call # NoCall => /\ call.id \in 1..drawn
                      /\ call.next \in 1..Len(call.ballot)
                      /\ call.ticket \in tickets
                      /\ ~sealed

LEMMA CountType ==
  ASSUME NEW S, IsFiniteSet(S)
  PROVE  CountOf(S) \in [Elections -> [Name -> Nat]]
<1>1. ASSUME NEW e \in Elections, NEW v \in Name
      PROVE  Cardinality({x \in S : x.election = e /\ x.vote = v}) \in Nat
  <2>1. IsFiniteSet({x \in S : x.election = e /\ x.vote = v})
    BY FS_Subset
  <2> QED
    BY <2>1, FS_CardinalityType
<1> QED
  BY <1>1 DEF CountOf

LEMMA CastTypes ==
  ASSUME TypeOK, BoxInv, NEW t \in Ticket, NEW b \in Ballots, NEW p \in Protector,
         CastVote(t, b, p)
  PROVE  TypeOK' /\ BoxInv'
<1>1. drawn \in Nat /\ drawn' = drawn + 1 /\ drawn + 1 \in 1..MaxCalls
  BY BoxAssumption DEF TypeOK, CastVote
<1>2. \A x \in votes : x.id[1] \in 1..drawn'
  BY <1>1 DEF BoxInv
<1>3. CASE sealed \/ t \in tickets
  <2>1. UNCHANGED <<isOpen, guardians, tickets, votes, sealed, call, answers>>
    BY <1>3 DEF CastVote
  <2>2. call = NoCall
    BY DEF CastVote, Idle
  <2> QED
    BY <1>1, <1>2, <2>1, <2>2 DEF TypeOK, BoxInv
<1>4. CASE ~(sealed \/ t \in tickets)
  <2> DEFINE c == [id |-> drawn + 1, ticket |-> t, ballot |-> b, by |-> p, next |-> 1]
  <2>1. /\ tickets' = tickets \union {t} /\ call' = c
        /\ UNCHANGED <<isOpen, guardians, votes, sealed, answers>>
    BY <1>4 DEF CastVote
  <2>2. Len(b) \in Nat \ {0}
    BY BoxAssumption
  <2>3. c \in Call /\ c.next =< Len(c.ballot)
    BY <1>1, <2>2 DEF Call
  <2>4. /\ c.id \in 1..drawn' /\ c.next \in 1..Len(c.ballot)
        /\ c.ticket \in tickets' /\ ~sealed'
    BY <1>1, <1>4, <2>1, <2>2
  <2> HIDE DEF c
  <2>5. TypeOK'
    BY <1>1, <2>1, <2>3 DEF TypeOK
  <2>6. BoxInv'
    BY <1>2, <2>1, <2>4 DEF BoxInv
  <2> QED
    BY <2>5, <2>6
<1> QED
  BY <1>3, <1>4

LEMMA PutTypes ==
  ASSUME TypeOK, BoxInv, PutVote
  PROVE  TypeOK' /\ BoxInv'
<1> DEFINE x == VoteOf(call, call.next)
<1>1. call \in Call /\ call # NoCall
  BY DEF PutVote, TypeOK
<1>2. call.ballot \in Seq(Name) /\ call.next \in 1..Len(call.ballot)
  BY <1>1, BoxAssumption DEF Call, BoxInv
<1>3. x \in Votes /\ x.id[1] \in 1..drawn
  <2>1. x.id \in (1..MaxCalls) \X (Nat \ {0}) /\ x.id[1] \in 1..drawn
    BY <1>1 DEF VoteOf, VoteKey, Call, BoxInv
  <2>2. x.election \in Elections
    BY <1>1 DEF VoteOf, Call, Elections
  <2>3. x.vote \in Name
    BY <1>2 DEF VoteOf
  <2>4. x.by \in Protector
    BY <1>1 DEF VoteOf, Call
  <2> QED
    BY <2>1, <2>2, <2>3, <2>4 DEF Votes, VoteOf
<1>4. votes' = Put(votes, x)
  BY DEF PutVote
<1> HIDE DEF x
<1>5. votes' \subseteq Votes /\ \A y \in votes' : y.id[1] \in 1..drawn
  BY <1>3, <1>4 DEF Put, TypeOK, BoxInv
<1>6. IsFiniteSet(votes')
  <2>1. IsFiniteSet({y \in votes : y.id # x.id})
    BY FS_Subset DEF BoxInv
  <2> QED
    BY <1>4, <2>1, FS_AddElement DEF Put
<1>7. UNCHANGED <<isOpen, guardians, tickets, sealed, drawn, answers>>
  BY DEF PutVote
<1>8. CASE call.next = Len(call.ballot)
  <2>1. call' = NoCall
    BY <1>8 DEF PutVote
  <2> QED
    BY <1>5, <1>6, <1>7, <2>1 DEF TypeOK, BoxInv
<1>9. CASE call.next # Len(call.ballot)
  <2>1. call' = [call EXCEPT !.next = @ + 1]
    BY <1>9 DEF PutVote
  <2>2. call' \in Call /\ call'.next \in 1..Len(call'.ballot)
    BY <1>1, <1>2, <1>9, <2>1 DEF Call
  <2>3. call'.id = call.id /\ call'.ticket = call.ticket
    BY <1>1, <2>1 DEF Call
  <2>4. TypeOK'
    BY <1>5, <1>7, <2>2 DEF TypeOK
  <2>5. BoxInv'
    BY <1>1, <1>5, <1>6, <1>7, <2>2, <2>3 DEF BoxInv
  <2> QED
    BY <2>4, <2>5
<1> QED
  BY <1>8, <1>9

LEMMA TypesKept ==
  ASSUME TypeOK, BoxInv, [Next]_vars
  PROVE  TypeOK' /\ BoxInv'
<1>1. CASE CreateSecureBallotBox
  BY <1>1 DEF CreateSecureBallotBox, TypeOK, BoxInv
<1>2. ASSUME NEW n \in Asked, GetGuardianKeys(n)
      PROVE  TypeOK' /\ BoxInv'
  BY <1>2 DEF GetGuardianKeys, TypeOK, BoxInv
<1>3. ASSUME NEW K, Tally(K)
      PROVE  TypeOK' /\ BoxInv'
  <2>1. answers' \subseteq [Elections -> [Name -> Nat]]
    BY <1>3, CountType DEF Tally, Counted, TypeOK, BoxInv
  <2> QED
    BY <1>3, <2>1 DEF Tally, Idle, TypeOK, BoxInv
<1>4. CASE Close
  BY <1>4 DEF Close, TypeOK, BoxInv
<1>5. CASE UNCHANGED vars
  BY <1>5 DEF vars, TypeOK, BoxInv
<1> QED
  BY <1>1, <1>2, <1>3, <1>4, <1>5, CastTypes, PutTypes DEF Next

(* The states of the box are well typed, and the votes it holds are of     *)
(* calls that drew their id.                                               *)
THEOREM TypeCorrect == Spec => [](TypeOK /\ BoxInv)
<1>1. Init => TypeOK /\ BoxInv
  <2> SUFFICES ASSUME Init
               PROVE  TypeOK /\ BoxInv
    OBVIOUS
  <2>1. votes = {} /\ tickets = {} /\ answers = {} /\ call = NoCall
    BY DEF Init
  <2>2. isOpen \in BOOLEAN /\ sealed \in BOOLEAN /\ guardians = 0
    BY DEF Init
  <2>3. drawn \in 0..MaxCalls
    BY BoxAssumption DEF Init
  <2>4. TypeOK
    BY <2>1, <2>2, <2>3 DEF TypeOK
  <2>5. BoxInv
    BY <2>1, FS_EmptySet DEF BoxInv
  <2> QED
    BY <2>4, <2>5
<1>2. TypeOK /\ BoxInv /\ [Next]_vars => (TypeOK /\ BoxInv)'
  BY TypesKept
<1> QED
  BY <1>1, <1>2, PTL DEF Spec

-----------------------------------------------------------------------------
(* Tallies agree.                                                          *)

(* A sealed box does not change: nothing was answered before the seal, and *)
(* all that was answered since is the count it has.                        *)
AnswersInv == /\ answers \subseteq {Counted}
              /\ answers # {} => sealed

(* The guardians are told the same count however often they tally, for any *)
(* voters, providers and interruptions in between.                         *)
THEOREM TalliesAgreeHolds == Spec => []TalliesAgree
<1>1. Init => AnswersInv
  BY DEF Init, AnswersInv
<1>2. TypeOK /\ BoxInv /\ AnswersInv /\ [Next]_vars => AnswersInv'
  <2> SUFFICES ASSUME TypeOK, BoxInv, AnswersInv, [Next]_vars
               PROVE  AnswersInv'
    OBVIOUS
  <2>1. CASE PutVote
    <3>1. answers = {} /\ answers' = answers
      BY <2>1 DEF PutVote, BoxInv, AnswersInv
    <3> QED
      BY <3>1 DEF AnswersInv
  <2>2. ASSUME NEW K, Tally(K)
        PROVE  AnswersInv'
    <3>1. Counted' = Counted
      BY <2>2 DEF Tally, Counted, CountOf
    <3>2. answers' \subseteq {Counted} /\ sealed'
      BY <2>2 DEF Tally, AnswersInv
    <3> QED
      BY <3>1, <3>2 DEF AnswersInv
  <2>3. CASE UNCHANGED <<votes, sealed, answers>>
    BY <2>3 DEF AnswersInv, Counted, CountOf
  <2> QED
    BY <2>1, <2>2, <2>3
       DEF Next, vars, CreateSecureBallotBox, GetGuardianKeys, CastVote, Close
<1>3. AnswersInv => TalliesAgree
  <2> SUFFICES ASSUME AnswersInv
               PROVE  Cardinality(answers) =< 1
    BY DEF TalliesAgree
  <2>1. CASE answers = {}
    BY <2>1, FS_EmptySet
  <2>2. CASE answers = {Counted}
    BY <2>2, FS_Singleton
  <2> QED
    BY <2>1, <2>2 DEF AnswersInv
<1> QED
  BY <1>1, <1>2, <1>3, TypeCorrect, PTL DEF Spec
-----------------------------------------------------------------------------
(* The guardians' keys.                                                    *)

(* Induction on the natural numbers, for a set: the least number outside of *)
(* it, which exists because < is well-founded, would follow one inside.    *)
LEMMA NatSet ==
  ASSUME NEW S, 0 \in S, \A k \in Nat : k \in S => k + 1 \in S
  PROVE  Nat \subseteq S
<1> DEFINE Less == OpToRel(<, Nat)
           T == Nat \ S
<1>1. IsWellFoundedOn(Less, Nat)
  BY NatLessThanWellFounded
<1>2. \A a, b \in Nat : a < b => <<a, b>> \in Less
  BY DEF OpToRel
<1> HIDE DEF Less
<1>3. SUFFICES ASSUME T # {}
               PROVE  FALSE
  OBVIOUS
<1>4. PICK k \in T : \A a \in T : ~ (<<a, k>> \in Less)
  BY <1>1, <1>3, WFMin
<1>5. k # 0 /\ k - 1 \in Nat /\ k - 1 < k
  BY <1>4
<1>6. k - 1 \in S
  BY <1>2, <1>4, <1>5
<1> QED
  BY <1>4, <1>5, <1>6


(* FlattenSeq joins the elements of a sequence from left to right.         *)
LEMMA Flattened ==
  ASSUME NEW s, NEW n \in Nat \ {0}, Len(s) = n
  PROVE  \E f : /\ f = [i \in 1..n |-> IF i = 1 THEN s[i] ELSE f[i - 1] \o s[i]]
                /\ FlattenSeq(s) = f[n]
<1> DEFINE Flat(f, k) ==
             f = [i \in 1..k |-> IF i = 1 THEN s[i] ELSE f[i - 1] \o s[i]]
           S == {k \in Nat : \E f : Flat(f, k)}
<1>1. 0 \in S
  <2>1. Flat(<<>>, 0)
    OBVIOUS
  <2> QED
    BY <2>1
<1>2. ASSUME NEW k \in Nat, k \in S
      PROVE  k + 1 \in S
  <2>1. PICK f : Flat(f, k)
    BY <1>2
  <2> DEFINE g == [i \in 1..(k + 1) |-> IF i =< k THEN f[i]
                                        ELSE IF i = 1 THEN s[i] ELSE f[i - 1] \o s[i]]
  <2>2. ASSUME NEW i \in 1..(k + 1), i # 1
        PROVE  g[i - 1] = f[i - 1]
    BY <2>2
  <2>3. ASSUME NEW i \in 1..k
        PROVE  f[i] = IF i = 1 THEN s[i] ELSE f[i - 1] \o s[i]
    BY <2>1
  <2>4. ASSUME NEW i \in 1..(k + 1)
        PROVE  g[i] = IF i = 1 THEN s[i] ELSE g[i - 1] \o s[i]
    <3>1. CASE i =< k
      <4>1. i \in 1..k /\ g[i] = f[i]
        BY <3>1
      <4> QED
        BY <2>2, <2>3, <4>1
    <3>2. CASE ~(i =< k)
      <4>1. g[i] = IF i = 1 THEN s[i] ELSE f[i - 1] \o s[i]
        BY <3>2
      <4> QED
        BY <2>2, <4>1
    <3> QED
      BY <3>1, <3>2
  <2>5. g = [i \in 1..(k + 1) |-> g[i]]
    OBVIOUS
  <2> HIDE DEF g
  <2>6. Flat(g, k + 1)
    BY <2>4, <2>5
  <2> HIDE DEF Flat
  <2>7. k + 1 \in Nat /\ \E h : Flat(h, k + 1)
    BY <2>6
  <2> QED
    BY <2>7
<1>3. n \in S
  <2> HIDE DEF S
  <2> QED
    BY <1>1, <1>2, NatSet
<1> DEFINE c == CHOOSE f : Flat(f, n)
<1>4. Flat(c, n)
  BY <1>3
<1>5. FlattenSeq(s) = c[n]
  BY DEF FlattenSeq
<1> QED
  BY <1>4, <1>5

(* The secret is a sequence with a character for every guardian at least.  *)
CutsWhole == /\ \E A : Secret \in Seq(A)
             /\ \A n \in Asked : n =< Len(Secret)

(* Where the i-th of the slices for n guardians ends.                      *)
Cut(n, i) == IF i = n THEN Len(Secret) ELSE i * (Len(Secret) \div n)

(* The slices lie side by side, none is empty, the last ends the secret.   *)
LEMMA Cuts ==
  ASSUME NEW A, Secret \in Seq(A), NEW n \in Nat \ {0}, n =< Len(Secret)
  PROVE  /\ \A i \in 0..n : Cut(n, i) \in 0..Len(Secret)
         /\ Cut(n, 0) = 0 /\ Cut(n, n) = Len(Secret)
         /\ \A i \in 1..n : /\ Cut(n, i - 1) < Cut(n, i)
                            /\ Slice(n, i) = SubSeq(Secret, Cut(n, i - 1) + 1, Cut(n, i))
<1> DEFINE L == Len(Secret)
           d == L \div n
<1>1. L \in Nat /\ n \in Nat /\ n > 0 /\ n =< L
  OBVIOUS
<1>2. d \in Nat /\ d >= 1 /\ n * d =< L
  <2> HIDE DEF L
  <2> QED
    BY <1>1
<1>3. /\ Cut(n, n) = L
      /\ \A i \in 0..n : i # n => Cut(n, i) = i * d
  BY DEF Cut
<1>4. ASSUME NEW i \in 1..n
      PROVE  Slice(n, i) = SubSeq(Secret, (i - 1) * d + 1, Cut(n, i))
  BY DEF Slice, Cut
<1> HIDE DEF L, d
<1>5. ASSUME NEW i \in 0..n
      PROVE  /\ i * d \in Nat /\ i * d =< n * d
             /\ i # 0 => (i - 1) * d = i * d - d
  BY <1>1, <1>2
<1>6. \A i \in 0..n : Cut(n, i) \in 0..L
  BY <1>1, <1>2, <1>3, <1>5
<1>7. Cut(n, 0) = 0
  <2>1. 0 \in 0..n /\ 0 # n /\ 0 * d = 0
    BY <1>1, <1>2
  <2> QED
    BY <1>3, <2>1
<1>8. ASSUME NEW i \in 1..n
      PROVE  Cut(n, i - 1) < Cut(n, i) /\ Cut(n, i - 1) = (i - 1) * d
  <2>1. i \in 0..n /\ i - 1 \in 0..n /\ i - 1 # n /\ i # 0
    BY <1>1
  <2>2. Cut(n, i - 1) = (i - 1) * d
    BY <1>3, <2>1
  <2>3. (i - 1) * d = i * d - d /\ i * d \in Nat /\ i * d =< n * d
    BY <1>5, <2>1
  <2>4. Cut(n, i) = L \/ Cut(n, i) = i * d
    BY <1>3, <2>1
  <2>5. i * d =< L
    BY <1>1, <1>2, <2>3
  <2>6. Cut(n, i) \in Nat /\ i * d =< Cut(n, i)
    BY <1>1, <2>3, <2>4, <2>5
  <2> QED
    BY <1>2, <2>2, <2>3, <2>6
<1>9. \A i \in 1..n : Slice(n, i) = SubSeq(Secret, Cut(n, i - 1) + 1, Cut(n, i))
  BY <1>4, <1>8
<1>10. \A i \in 1..n : Cut(n, i - 1) < Cut(n, i)
  BY <1>8
<1> QED
  BY <1>3, <1>6, <1>7, <1>9, <1>10 DEF L

LEMMA NoEmptySlice ==
  ASSUME NEW A, Secret \in Seq(A), NEW n \in Nat \ {0}, n =< Len(Secret),
         NEW i \in 1..n
  PROVE  Slice(n, i) # <<>>
<1>1. /\ Cut(n, i - 1) \in 0..Len(Secret) /\ Cut(n, i) \in 0..Len(Secret)
      /\ Cut(n, i - 1) < Cut(n, i)
      /\ Slice(n, i) = SubSeq(Secret, Cut(n, i - 1) + 1, Cut(n, i))
  <2>1. i \in 0..n /\ i - 1 \in 0..n
    OBVIOUS
  <2> QED
    BY <2>1, Cuts
<1> DEFINE a == Cut(n, i - 1)
           b == Cut(n, i)
<1>2. a \in Nat /\ b \in Nat /\ a < b /\ b =< Len(Secret)
  BY <1>1
<1> HIDE DEF a, b
<1>3. \A j \in (a + 1)..b : Secret[j] \in A
  BY <1>2
<1>4. a + 1 \in Int /\ b \in Int /\ a + 1 =< b /\ b - (a + 1) + 1 # 0
  BY <1>2
<1>5. Len(SubSeq(Secret, a + 1, b)) # 0
  BY <1>3, <1>4, SubSeqProperties
<1>6. Slice(n, i) = SubSeq(Secret, a + 1, b)
  BY <1>1 DEF a, b
<1>7. Len(<<>>) = 0
  OBVIOUS
<1> QED
  BY <1>5, <1>6, <1>7

(* Slices in their places are joined to the secret when all are there, and *)
(* to something shorter when one is not.                                   *)
LEMMA Joined ==
  ASSUME NEW A, Secret \in Seq(A), NEW n \in Nat \ {0}, n =< Len(Secret),
         NEW s, s = [i \in 1..n |-> s[i]],
         \A i \in 1..n : s[i] \in {Slice(n, i), <<>>}
  PROVE  FlattenSeq(s) = Secret <=> \A i \in 1..n : s[i] = Slice(n, i)
<1> DEFINE M(k) == \A i \in 1..k : s[i] = Slice(n, i)
<1>1. /\ \A i \in 0..n : Cut(n, i) \in 0..Len(Secret)
      /\ Cut(n, 0) = 0 /\ Cut(n, n) = Len(Secret)
      /\ \A i \in 1..n : /\ Cut(n, i - 1) < Cut(n, i)
                         /\ Slice(n, i) = SubSeq(Secret, Cut(n, i - 1) + 1, Cut(n, i))
  BY Cuts
<1>2. Len(s) = n
  OBVIOUS
<1>3. PICK f : /\ f = [i \in 1..n |-> IF i = 1 THEN s[i] ELSE f[i - 1] \o s[i]]
               /\ FlattenSeq(s) = f[n]
  BY <1>2, Flattened
<1>4. \A i \in 1..n : f[i] = IF i = 1 THEN s[i] ELSE f[i - 1] \o s[i]
  BY <1>3
<1> DEFINE P(k) == /\ f[k] \in Seq(A)
                   /\ Len(f[k]) =< Cut(n, k)
                   /\ M(k) => f[k] = SubSeq(Secret, 1, Cut(n, k))
                   /\ ~M(k) => Len(f[k]) < Cut(n, k)
           S == {k \in Nat : k + 1 \in 1..n => P(k + 1)}
<1>5. ASSUME NEW i \in 1..n
      PROVE  /\ Slice(n, i) \in Seq(A) /\ s[i] \in Seq(A)
             /\ Len(Slice(n, i)) = Cut(n, i) - Cut(n, i - 1)
             /\ s[i] # Slice(n, i) => s[i] = <<>>
  <2>1. /\ Cut(n, i - 1) \in 0..Len(Secret) /\ Cut(n, i) \in 0..Len(Secret)
        /\ Cut(n, i - 1) < Cut(n, i)
        /\ Slice(n, i) = SubSeq(Secret, Cut(n, i - 1) + 1, Cut(n, i))
    BY <1>1
  <2> DEFINE a == Cut(n, i - 1)
             b == Cut(n, i)
  <2>2. a \in Nat /\ b \in Nat /\ a < b /\ b =< Len(Secret)
    BY <2>1
  <2> HIDE DEF a, b
  <2>3. \A j \in (a + 1)..b : Secret[j] \in A
    BY <2>2
  <2>4. a + 1 \in Int /\ b \in Int /\ a + 1 =< b /\ b - (a + 1) + 1 = b - a
    BY <2>2
  <2>5. /\ SubSeq(Secret, a + 1, b) \in Seq(A)
        /\ Len(SubSeq(Secret, a + 1, b)) = b - a
    BY <2>3, <2>4, SubSeqProperties
  <2>6. Slice(n, i) \in Seq(A) /\ Len(Slice(n, i)) = Cut(n, i) - Cut(n, i - 1)
    BY <2>1, <2>5 DEF a, b
  <2>7. s[i] = Slice(n, i) \/ s[i] = <<>>
    OBVIOUS
  <2>8. <<>> \in Seq(A)
    OBVIOUS
  <2> QED
    BY <2>6, <2>7, <2>8
<1>6. P(1)
  <2>1. f[1] = s[1] /\ 1 \in 1..n
    BY <1>4
  <2>2. /\ Slice(n, 1) = SubSeq(Secret, Cut(n, 0) + 1, Cut(n, 1)) /\ Cut(n, 0) < Cut(n, 1)
        /\ Cut(n, 1) \in Nat /\ Cut(n, 0) = 0
    BY <1>1, <2>1
  <2>3. Slice(n, 1) = SubSeq(Secret, 1, Cut(n, 1)) /\ Len(Slice(n, 1)) = Cut(n, 1)
    <3>1. Len(Slice(n, 1)) = Cut(n, 1) - Cut(n, 1 - 1)
      BY <1>5, <2>1
    <3>2. 1 - 1 = 0 /\ 0 + 1 = 1
      OBVIOUS
    <3>3. Cut(n, 1 - 1) = 0
      BY <2>2, <3>2
    <3>4. Slice(n, 1) = SubSeq(Secret, 1, Cut(n, 1))
      <4>1. Cut(n, 0) + 1 = 1
        BY <2>2, <3>2
      <4> QED
        BY <2>2, <4>1
    <3>5. Cut(n, 1) - 0 = Cut(n, 1)
      BY <2>2
    <3> QED
      BY <3>1, <3>3, <3>4, <3>5
  <2>4. M(1) <=> s[1] = Slice(n, 1)
    OBVIOUS
  <2>5. s[1] \in Seq(A) /\ (s[1] # Slice(n, 1) => s[1] = <<>>)
    BY <1>5, <2>1
  <2> HIDE DEF M
  <2>6. CASE M(1)
    BY <2>1, <2>2, <2>3, <2>4, <2>5, <2>6
  <2>7. CASE ~M(1)
    <3>1. f[1] = <<>> /\ Len(f[1]) = 0 /\ f[1] \in Seq(A)
      BY <2>1, <2>4, <2>5, <2>7
    <3> QED
      BY <2>2, <2>7, <3>1
  <2> QED
    BY <2>6, <2>7
<1>7. ASSUME NEW k \in 1..(n - 1), P(k)
      PROVE  P(k + 1)
  <2>1. k \in 1..n /\ k + 1 \in 1..n /\ k + 1 # 1 /\ (k + 1) - 1 = k /\ k \in 0..n /\ k + 1 \in 0..n
    OBVIOUS
  <2>2. f[k + 1] = f[k] \o s[k + 1]
    BY <1>4, <2>1
  <2>3. /\ Cut(n, k) \in 0..Len(Secret) /\ Cut(n, k + 1) \in 0..Len(Secret)
        /\ Cut(n, k) < Cut(n, k + 1)
        /\ Slice(n, k + 1) = SubSeq(Secret, Cut(n, k) + 1, Cut(n, k + 1))
    BY <1>1, <2>1
  <2>4. /\ Slice(n, k + 1) \in Seq(A) /\ s[k + 1] \in Seq(A)
        /\ Len(Slice(n, k + 1)) = Cut(n, k + 1) - Cut(n, k)
        /\ s[k + 1] # Slice(n, k + 1) => s[k + 1] = <<>>
    BY <1>5, <2>1
  <2>5. M(k + 1) <=> M(k) /\ s[k + 1] = Slice(n, k + 1)
    <3>1. \A i \in 1..(k + 1) : i \in 1..k \/ i = k + 1
      OBVIOUS
    <3>2. k + 1 \in 1..(k + 1) /\ \A i \in 1..k : i \in 1..(k + 1)
      OBVIOUS
    <3> QED
      BY <3>1, <3>2
  <2> HIDE DEF M
  <2>6. f[k] \in Seq(A) /\ Len(f[k]) \in Nat /\ Len(f[k]) =< Cut(n, k)
    BY <1>7
  <2>7. f[k + 1] \in Seq(A) /\ Len(f[k + 1]) = Len(f[k]) + Len(s[k + 1])
    BY <2>2, <2>4, <2>6, ConcatProperties
  <2>8. Len(s[k + 1]) =< Cut(n, k + 1) - Cut(n, k) /\ Len(s[k + 1]) \in Nat
    BY <2>3, <2>4
  <2> DEFINE x == Len(f[k])
             y == Len(s[k + 1])
             a == Cut(n, k)
             b == Cut(n, k + 1)
  <2>9. /\ x \in Nat /\ y \in Nat /\ a \in Nat /\ b \in Nat
        /\ x =< a /\ y =< b - a /\ a < b
        /\ Len(f[k + 1]) = x + y
    BY <2>3, <2>6, <2>7, <2>8
  <2> HIDE DEF x, y, a, b
  <2>12. Len(f[k + 1]) =< Cut(n, k + 1)
    <3>1. x + y =< b
      BY <2>9
    <3> QED
      BY <2>9, <3>1 DEF b
  <2>10. ASSUME M(k + 1)
         PROVE  f[k + 1] = SubSeq(Secret, 1, Cut(n, k + 1))
    <3>1. f[k] = SubSeq(Secret, 1, Cut(n, k)) /\ s[k + 1] = SubSeq(Secret, Cut(n, k) + 1, Cut(n, k + 1))
      BY <1>7, <2>3, <2>5, <2>10
    <3>2. /\ 1 \in 1..(Len(Secret) + 1) /\ Cut(n, k) \in (1 - 1)..Len(Secret)
          /\ Cut(n, k + 1) \in Cut(n, k)..Len(Secret)
      BY <2>3
    <3>3. SubSeq(Secret, 1, Cut(n, k)) \o SubSeq(Secret, Cut(n, k) + 1, Cut(n, k + 1))
            = SubSeq(Secret, 1, Cut(n, k + 1))
      BY <3>2, ConcatAdjacentSubSeq
    <3> QED
      BY <2>2, <3>1, <3>3
  <2>11. ASSUME ~M(k + 1)
         PROVE  Len(f[k + 1]) < Cut(n, k + 1)
    <3>1. CASE M(k)
      <4>1. y = 0
        BY <2>4, <2>5, <2>11, <3>1 DEF y
      <4>2. x + y < b
        BY <2>9, <4>1
      <4> QED
        BY <2>9, <4>2 DEF b
    <3>2. CASE ~M(k)
      <4>1. x < a
        BY <1>7, <3>2 DEF x, a
      <4>2. x + y < b
        BY <2>9, <4>1
      <4> QED
        BY <2>9, <4>2 DEF b
    <3> QED
      BY <3>1, <3>2
  <2> QED
    BY <2>7, <2>12, <2>10, <2>11
<1> HIDE DEF P
<1>8. P(n)
  <2>1. 0 \in S
    BY <1>6
  <2>2. ASSUME NEW k \in Nat, k \in S
        PROVE  k + 1 \in S
    <3>1. CASE k + 2 \in 1..n
      <4>1. k + 1 \in 1..(n - 1) /\ (k + 1) + 1 = k + 2 /\ k + 1 \in 1..n
        BY <3>1
      <4>2. P(k + 1)
        BY <2>2, <4>1
      <4>3. P((k + 1) + 1)
        BY <1>7, <4>1, <4>2
      <4> QED
        BY <4>3
    <3>2. CASE k + 2 \notin 1..n
      BY <3>2
    <3> QED
      BY <3>1, <3>2
  <2>3. n - 1 \in Nat /\ (n - 1) + 1 = n /\ n \in 1..n
    OBVIOUS
  <2>4. n - 1 \in S
    <3> HIDE DEF S
    <3> QED
      BY <2>1, <2>2, <2>3, NatSet
  <2> QED
    BY <2>3, <2>4
<1>9. /\ M(n) => f[n] = SubSeq(Secret, 1, Len(Secret))
      /\ ~M(n) => Len(f[n]) < Len(Secret)
  BY <1>1, <1>8 DEF P
<1>10. SubSeq(Secret, 1, Len(Secret)) = Secret
  BY SubSeqFull
<1>11. ~M(n) => f[n] # Secret
  BY <1>9
<1> QED
  BY <1>3, <1>9, <1>10, <1>11

(* The keys K of n guardians in their places.                              *)
Places(n, K) == [i \in 1..n |-> IF \E k \in K : k.idx = i
                               THEN (CHOOSE k \in K : k.idx = i).text ELSE <<>>]

(* A guardian's key fills its own place with its own slice, and nothing    *)
(* else fills it.                                                          *)
LEMMA InPlace ==
  ASSUME NEW n \in Nat, NEW K \in SUBSET Keys(n), NEW i \in 1..n
  PROVE  Places(n, K)[i] = IF [idx |-> i, text |-> Slice(n, i)] \in K
                           THEN Slice(n, i) ELSE <<>>
<1> DEFINE key == [idx |-> i, text |-> Slice(n, i)]
<1>1. ASSUME NEW k \in K, k.idx = i
      PROVE  k = key
  <2>1. PICK j \in 1..n : k = [idx |-> j, text |-> Slice(n, j)]
    BY DEF Keys
  <2>2. j = i
    BY <1>1, <2>1
  <2> QED
    BY <2>1, <2>2
<1>2. key.idx = i /\ key.text = Slice(n, i)
  OBVIOUS
<1>3. Places(n, K)[i] = IF \E k \in K : k.idx = i
                        THEN (CHOOSE k \in K : k.idx = i).text ELSE <<>>
  BY DEF Places
<1> HIDE DEF key
<1>4. CASE key \in K
  <2>1. \E k \in K : k.idx = i
    BY <1>2, <1>4
  <2>2. (CHOOSE k \in K : k.idx = i) = key
    BY <1>1, <2>1
  <2> QED
    BY <1>2, <1>3, <1>4, <2>1, <2>2 DEF key
<1>5. CASE key \notin K
  <2>1. ~ \E k \in K : k.idx = i
    BY <1>1, <1>5
  <2> QED
    BY <1>3, <1>5, <2>1 DEF key
<1> QED
  BY <1>4, <1>5

(* All the keys open the box and fewer do not.                             *)
LEMMA OnlyAllOpen ==
  ASSUME NEW A, Secret \in Seq(A), NEW n \in Nat \ {0}, n =< Len(Secret),
         NEW K \in SUBSET Keys(n)
  PROVE  KeysOpen(n, K) <=> K = Keys(n)
<1> DEFINE s == Places(n, K)
           key(i) == [idx |-> i, text |-> Slice(n, i)]
<1>1. s = [i \in 1..n |-> s[i]]
  BY DEF Places
<1>2. \A i \in 1..n : s[i] = IF key(i) \in K THEN Slice(n, i) ELSE <<>>
  BY InPlace
<1>3. \A i \in 1..n : Slice(n, i) # <<>>
  BY NoEmptySlice
<1>4. KeysOpen(n, K) <=> (\A k \in K : k.text # <<>>) /\ FlattenSeq(s) = Secret
  BY DEF KeysOpen, Places
<1>5. Keys(n) = {key(i) : i \in 1..n}
  BY DEF Keys
<1>6. \A i \in 1..n : key(i).text = Slice(n, i)
  OBVIOUS
<1> HIDE DEF s, key
<1>7. FlattenSeq(s) = Secret <=> \A i \in 1..n : s[i] = Slice(n, i)
  BY <1>1, <1>2, Joined
<1>8. \A k \in K : k.text # <<>>
  BY <1>3, <1>5, <1>6
<1>9. (\A i \in 1..n : s[i] = Slice(n, i)) <=> \A i \in 1..n : key(i) \in K
  BY <1>2, <1>3
<1>10. (\A i \in 1..n : key(i) \in K) <=> K = Keys(n)
  BY <1>5
<1> QED
  BY <1>4, <1>7, <1>8, <1>9, <1>10

(* However many guardians have their keys, the box opens to all of them    *)
(* together and to no fewer, for every secret that has a character for     *)
(* each: the slices neither overlap nor leave a gap.                       *)
THEOREM AllGuardiansNeededHolds ==
  ASSUME CutsWhole
  PROVE  Spec => []AllGuardiansNeeded
<1>1. TypeOK => AllGuardiansNeeded
  <2> SUFFICES ASSUME TypeOK, guardians # 0, NEW K \in SUBSET Keys(guardians)
               PROVE  KeysOpen(guardians, K) <=> K = Keys(guardians)
    BY DEF AllGuardiansNeeded
  <2>1. PICK A : Secret \in Seq(A)
    BY DEF CutsWhole
  <2>2. PICK n \in Nat \ {0} : n = guardians /\ n =< Len(Secret)
    BY BoxAssumption DEF TypeOK, CutsWhole
  <2>3. KeysOpen(n, K) <=> K = Keys(n)
    BY <2>1, <2>2, OnlyAllOpen
  <2> QED
    BY <2>2, <2>3
<1> QED
  BY <1>1, TypeCorrect, PTL
-----------------------------------------------------------------------------
(* The refinement.                                                         *)

(* The call inside the lock has stored nothing before its first Put, and   *)
(* from then on the preference it put last.                                *)
LastPut ==
  call # NoCall =>
    /\ \A x \in votes : x.id[1] = call.id =>
         call.next > 1 /\ x = VoteOf(call, call.next - 1)
    /\ call.next > 1 => VoteOf(call, call.next - 1) \in votes

(* What a Put leaves in the store, and what the next Put would replace.    *)
LEMMA PutLeaves ==
  ASSUME TypeOK, BoxInv, LastPut, PutVote
  PROVE  LET x == VoteOf(call, call.next)
         IN  /\ votes' = SettledVotes \union {x}
             /\ x \notin SettledVotes /\ x.id[1] = call.id
<1> DEFINE x == VoteOf(call, call.next)
<1>1. call \in Call /\ call # NoCall
  BY DEF PutVote, TypeOK
<1>2. x.id = VoteKey(call) /\ x.id[1] = call.id
  BY DEF VoteOf, VoteKey
<1>3. votes' = Put(votes, x)
  BY DEF PutVote
<1>4. ASSUME NEW y \in votes
      PROVE  y.id # x.id <=> y.id[1] # call.id
  <2>1. y.id[1] = call.id => y.id = VoteKey(call)
    BY <1>1 DEF LastPut, VoteOf
  <2> HIDE DEF x
  <2> QED
    BY <1>2, <2>1
<1> HIDE DEF x
<1>5. {y \in votes : y.id # x.id} = SettledVotes
  BY <1>4 DEF SettledVotes
<1>6. x \notin SettledVotes
  BY <1>2 DEF SettledVotes
<1>7. votes' = SettledVotes \union {x}
  BY <1>3, <1>5 DEF Put
<1> QED
  BY <1>2, <1>6, <1>7 DEF x

LEMMA LastPutStep ==
  ASSUME TypeOK, BoxInv, LastPut, [Next]_vars
  PROVE  LastPut'
<1>1. ASSUME NEW t \in Ticket, NEW b \in Ballots, NEW p \in Protector, CastVote(t, b, p)
      PROVE  LastPut'
  <2>1. drawn \in Nat /\ votes' = votes
    BY <1>1 DEF TypeOK, CastVote
  <2>2. CASE call' = call
    BY <2>1, <2>2 DEF LastPut, VoteOf, VoteKey
  <2>3. CASE call' # call
    <3>1. call'.id = drawn + 1 /\ call'.next = 1
      BY <1>1, <2>3 DEF CastVote
    <3> QED
      BY <2>1, <3>1 DEF BoxInv, LastPut
  <2> QED
    BY <2>2, <2>3
<1>2. ASSUME PutVote
      PROVE  LastPut'
  <2>1. call \in Call /\ call # NoCall /\ call.next \in 1..Len(call.ballot)
    BY <1>2 DEF PutVote, TypeOK, BoxInv
  <2>2. CASE call' = NoCall
    BY <2>2 DEF LastPut
  <2>3. CASE call' # NoCall
    <3>1. call' = [call EXCEPT !.next = @ + 1]
      BY <1>2, <2>3 DEF PutVote
    <3>2. /\ call'.id = call.id /\ call'.next = call.next + 1 /\ call.next \in Nat \ {0}
          /\ call'.ticket = call.ticket /\ call'.ballot = call.ballot /\ call'.by = call.by
      BY <2>1, <3>1 DEF Call
    <3>3. call'.next > 1 /\ call'.next - 1 = call.next
      BY <3>2
    <3>4. VoteOf(call', call'.next - 1) = VoteOf(call, call.next)
      BY <3>2, <3>3 DEF VoteOf, VoteKey
    <3>5. PICK x : x = VoteOf(call, call.next)
      OBVIOUS
    <3>6. votes' = SettledVotes \union {x}
      BY <1>2, <3>5, PutLeaves
    <3>7. \A y \in votes' : y.id[1] = call.id => y = x
      BY <3>6 DEF SettledVotes
    <3> QED
      BY <3>2, <3>3, <3>4, <3>5, <3>6, <3>7 DEF LastPut
  <2> QED
    BY <2>2, <2>3
<1>3. CASE UNCHANGED <<votes, call>>
  BY <1>3 DEF LastPut, VoteOf, VoteKey
<1>4. CASE Close
  BY <1>4 DEF Close, LastPut
<1> QED
  BY <1>1, <1>2, <1>3, <1>4
     DEF Next, vars, CreateSecureBallotBox, GetGuardianKeys, Tally

(* No vote has the id of no call: all are settled when no call is open.    *)
LEMMA AllSettled ==
  ASSUME TypeOK, BoxInv, call = NoCall
  PROVE  SettledVotes = votes
<1>1. call.id = 0 /\ drawn \in Nat
  BY DEF NoCall, TypeOK
<1> QED
  BY <1>1 DEF SettledVotes, BoxInv

LEMMA NextAllSettled ==
  ASSUME TypeOK', BoxInv', call' = NoCall
  PROVE  SettledVotes' = votes'
<1>1. call'.id = 0 /\ drawn' \in Nat
  BY DEF NoCall, TypeOK
<1> QED
  BY <1>1 DEF SettledVotes, BoxInv

(* One vote more in the store is one vote more in the count.               *)
LEMMA OneMore ==
  ASSUME NEW S, IsFiniteSet(S), NEW x, x \notin S,
         x.election \in Elections, x.vote \in Name
  PROVE  CountOf(S \union {x})
           = [CountOf(S) EXCEPT ![x.election] =
                [CountOf(S)[x.election] EXCEPT ![x.vote] = @ + 1]]
<1> DEFINE e == x.election
           w == x.vote
           Of(T, f, v) == {y \in T : y.election = f /\ y.vote = v}
           C(T) == [f \in Elections |-> [v \in Name |-> Cardinality(Of(T, f, v))]]
<1>1. C(S) = CountOf(S) /\ C(S \union {x}) = CountOf(S \union {x})
  BY DEF CountOf
<1>2. ASSUME NEW f \in Elections, NEW v \in Name
      PROVE  Cardinality(Of(S \union {x}, f, v)) =
               IF f = e /\ v = w THEN Cardinality(Of(S, f, v)) + 1
               ELSE Cardinality(Of(S, f, v))
  <2>1. CASE f = e /\ v = w
    <3>1. Of(S \union {x}, f, v) = Of(S, f, v) \union {x} /\ x \notin Of(S, f, v)
      BY <2>1
    <3>2. IsFiniteSet(Of(S, f, v))
      BY FS_Subset
    <3>3. Cardinality(Of(S, f, v) \union {x}) = Cardinality(Of(S, f, v)) + 1
      <4> HIDE DEF Of
      <4> QED
        BY <3>1, <3>2, FS_AddElement
    <3> QED
      BY <2>1, <3>1, <3>3
  <2>2. CASE ~(f = e /\ v = w)
    <3>1. Of(S \union {x}, f, v) = Of(S, f, v)
      BY <2>2
    <3> QED
      BY <2>2, <3>1
  <2> QED
    BY <2>1, <2>2
<1> HIDE DEF Of
<1>3. C(S) \in [Elections -> [Name -> {Cardinality(Of(S, f, v)) : f \in Elections, v \in Name}]]
  OBVIOUS
<1>4. ASSUME NEW f \in Elections
      PROVE  C(S \union {x})[f] = IF f = e THEN [C(S)[e] EXCEPT ![w] = @ + 1] ELSE C(S)[f]
  BY <1>2
<1>5. C(S \union {x}) = [C(S) EXCEPT ![e] = [C(S)[e] EXCEPT ![w] = @ + 1]]
  BY <1>4
<1> HIDE DEF C
<1> QED
  BY <1>1, <1>5

(* The step that ends a call with a vote x spends its ticket on x.         *)
LEMMA EndSpends ==
  ASSUME TypeOK, BoxInv, [Next]_vars, call # NoCall, call' = NoCall,
         NEW i \in 1..Len(call.ballot), votes' = SettledVotes \union {VoteOf(call, i)},
         VoteOf(call, i) \notin SettledVotes, UNCHANGED <<tickets, sealed, answers>>
  PROVE  Contract!Spend(call.ticket, call.ballot[i])
<1>1. PICK x : x = VoteOf(call, i)
  OBVIOUS
<1>2. PICK e, w : e = ElectionOf[call.ticket] /\ w = call.ballot[i]
  OBVIOUS
<1>3. /\ call \in Call /\ call.ticket \in Ticket /\ call.ballot \in Seq(Name)
      /\ call.ticket \in tickets /\ ~sealed
  BY BoxAssumption DEF TypeOK, BoxInv, Call
<1>4. e \in Elections /\ w \in Name
  BY <1>2, <1>3 DEF Elections
<1>5. x.election = e /\ x.vote = w
  BY <1>1, <1>2 DEF VoteOf
<1>6. IsFiniteSet(SettledVotes)
  BY FS_Subset DEF SettledVotes, BoxInv
<1>7. CountOf(SettledVotes \union {x}) = [CountOf(SettledVotes) EXCEPT ![e][w] = @ + 1]
  <2>1. PICK S : S = SettledVotes
    OBVIOUS
  <2>2. IsFiniteSet(S) /\ x \notin S
    BY <1>1, <1>6, <2>1
  <2>3. CountOf(S \union {x}) = [CountOf(S) EXCEPT ![e][w] = @ + 1]
    <3>1. x.election \in Elections /\ x.vote \in Name
      BY <1>4, <1>5
    <3>2. CountOf(S \union {x})
            = [CountOf(S) EXCEPT ![x.election] = [CountOf(S)[x.election] EXCEPT ![x.vote] = @ + 1]]
      BY ONLY <2>2, <3>1, OneMore, Zenon
    <3> QED
      BY <1>5, <3>2
  <2> QED
    BY <2>1, <2>3
<1>8. SettledVotes' = SettledVotes \union {x}
  BY <1>1, TypesKept, NextAllSettled
<1>9. CountOf(SettledVotes)' = CountOf(SettledVotes \union {x})
  BY <1>8 DEF CountOf
<1>10. Settled' = Settled \union {call.ticket} /\ call.ticket \notin Settled
  BY <1>3 DEF Settled
<1> QED
  BY <1>2, <1>3, <1>7, <1>9, <1>10 DEF Contract!Spend

(* Every step is a step of the contract or none: before it ends a call has *)
(* not taken place, one that is cut off voids the ticket or counts with    *)
(* what it put last, and a tally answers with the count or fails.          *)
LEMMA StepIsContract ==
  ASSUME TypeOK, BoxInv, LastPut, [Next]_vars
  PROVE  Contract!BNext \/ UNCHANGED Contract!bvars
<1> USE DEF Contract!bvars
<1>1. CASE UNCHANGED <<tickets, votes, sealed, call, answers>>
  BY <1>1 DEF Settled, SettledVotes, CountOf
<1>2. ASSUME NEW t \in Ticket, NEW b \in Ballots, NEW p \in Protector, CastVote(t, b, p)
      PROVE  UNCHANGED Contract!bvars
  <2>1. UNCHANGED <<votes, sealed, answers>> /\ call = NoCall /\ drawn \in Nat
    BY <1>2 DEF CastVote, Idle, TypeOK
  <2>2. CASE sealed \/ t \in tickets
    <3>1. UNCHANGED <<tickets, call>>
      BY <1>2, <2>2 DEF CastVote
    <3> QED
      BY <2>1, <3>1 DEF Settled, SettledVotes, CountOf
  <2>3. CASE ~(sealed \/ t \in tickets)
    <3>1. /\ tickets' = tickets \union {t}
          /\ call' = [id |-> drawn + 1, ticket |-> t, ballot |-> b, by |-> p, next |-> 1]
      BY <1>2, <2>3 DEF CastVote
    <3>2. call' # NoCall /\ call'.id = drawn + 1 /\ call'.ticket = t
      <4>1. call'.id = drawn + 1 /\ drawn + 1 # 0
        BY <2>1, <3>1
      <4> QED
        BY <3>1, <4>1 DEF NoCall
    <3>3. Settled' = Settled
      BY <2>1, <2>3, <3>1, <3>2 DEF Settled
    <3>4. SettledVotes = votes
      BY <2>1, AllSettled
    <3>5. SettledVotes' = votes'
      BY <2>1, <3>2 DEF SettledVotes, BoxInv
    <3> QED
      BY <2>1, <3>3, <3>4, <3>5 DEF CountOf
  <2> QED
    BY <2>2, <2>3
<1>3. ASSUME PutVote
      PROVE  Contract!BNext \/ UNCHANGED Contract!bvars
  <2>1. /\ call \in Call /\ call # NoCall /\ call.next \in 1..Len(call.ballot)
        /\ call.ticket \in Ticket /\ call.ballot \in Ballots
    BY <1>3 DEF PutVote, TypeOK, BoxInv, Call
  <2>2. PICK x : x = VoteOf(call, call.next)
    OBVIOUS
  <2>3. votes' = SettledVotes \union {x} /\ x \notin SettledVotes /\ x.id[1] = call.id
    BY <1>3, <2>2, PutLeaves
  <2>4. UNCHANGED <<tickets, sealed, answers>>
    BY <1>3 DEF PutVote
  <2>5. CASE call.next = Len(call.ballot)
    <3>1. call' = NoCall
      BY <1>3, <2>5 DEF PutVote
    <3>2. Contract!Spend(call.ticket, call.ballot[call.next])
      BY <2>1, <2>2, <2>3, <2>4, <3>1, EndSpends
    <3>3. Contract!Cast(call.ticket, call.ballot)
      BY <2>5, <3>2 DEF Contract!Cast
    <3> QED
      BY <2>1, <3>3 DEF Contract!BNext
  <2>6. CASE call.next # Len(call.ballot)
    <3>1. call' = [call EXCEPT !.next = @ + 1]
      BY <1>3, <2>6 DEF PutVote
    <3>2. call'.id = call.id /\ call'.ticket = call.ticket /\ call'.next # call.next
      BY <2>1, <3>1 DEF Call
    <3>3. call' # NoCall
      <4>1. call.id # 0
        BY <2>1 DEF Call
      <4> QED
        BY <3>2, <4>1 DEF NoCall
    <3>4. Settled' = Settled
      BY <2>1, <2>4, <3>2, <3>3 DEF Settled
    <3>5. SettledVotes' = SettledVotes
      BY <2>3, <3>2 DEF SettledVotes
    <3> QED
      BY <2>4, <3>4, <3>5 DEF CountOf
  <2> QED
    BY <2>5, <2>6
<1>4. ASSUME NEW K, Tally(K)
      PROVE  Contract!BNext
  <2>1. /\ UNCHANGED <<votes, tickets, call>> /\ call = NoCall
        /\ answers' \in {answers, answers \union {CountOf(votes)}}
    BY <1>4 DEF Tally, Counted, Idle
  <2>2. SettledVotes = votes /\ SettledVotes' = SettledVotes
    BY <2>1, AllSettled DEF SettledVotes
  <2>3. Settled' = Settled /\ CountOf(SettledVotes)' = CountOf(SettledVotes)
    BY <2>1, <2>2 DEF Settled, CountOf
  <2>4. sealed' = TRUE
    BY <1>4 DEF Tally
  <2> QED
    BY <2>1, <2>2, <2>3, <2>4 DEF Contract!BNext, Contract!Tally
<1>5. CASE Close
  <2>1. UNCHANGED <<tickets, votes, sealed, answers>> /\ call' = NoCall
    BY <1>5 DEF Close
  <2>2. CASE call = NoCall
    BY <2>1, <2>2 DEF Settled, SettledVotes, CountOf
  <2>3. CASE call # NoCall
    <3>1. /\ call \in Call /\ call.ticket \in Ticket /\ call.ticket \in tickets /\ ~sealed
          /\ call.next \in 1..Len(call.ballot) /\ call.ballot \in Ballots
      BY <2>3 DEF TypeOK, Call, BoxInv
    <3>2. Settled' = Settled \union {call.ticket} /\ call.ticket \notin Settled
      BY <2>1, <2>3, <3>1 DEF Settled
    <3>3. SettledVotes' = votes'
      BY <2>1, TypesKept, NextAllSettled
    <3>4. CASE call.next = 1
      <4>1. SettledVotes' = SettledVotes
        BY <2>1, <2>3, <3>3, <3>4 DEF LastPut, SettledVotes
      <4>2. CountOf(SettledVotes)' = CountOf(SettledVotes)
        BY <4>1 DEF CountOf
      <4>3. Contract!Void(call.ticket)
        BY <2>1, <3>1, <3>2, <4>2 DEF Contract!Void
      <4> QED
        BY <3>1, <4>3 DEF Contract!BNext
    <3>5. CASE call.next # 1
      <4>1. PICK i : i = call.next - 1
        OBVIOUS
      <4>2. call.ballot \in Seq(Name)
        BY <3>1, BoxAssumption
      <4>3. /\ i \in 1..Len(call.ballot) /\ i \in 1..(Len(call.ballot) - 1)
            /\ call.next > 1
        BY <3>1, <3>5, <4>1, <4>2
      <4>4. PICK x : x = VoteOf(call, i)
        OBVIOUS
      <4>5. x \in votes /\ \A y \in votes : y.id[1] = call.id => y = x
        BY <2>3, <4>1, <4>3, <4>4 DEF LastPut
      <4>6. x.id[1] = call.id
        BY <4>4 DEF VoteOf, VoteKey
      <4>7. votes' = SettledVotes \union {x} /\ x \notin SettledVotes
        BY <2>1, <4>5, <4>6 DEF SettledVotes
      <4>8. Contract!Spend(call.ticket, call.ballot[i])
        BY <2>1, <2>3, <4>3, <4>4, <4>7, EndSpends
      <4>9. Contract!CutShort(call.ticket, call.ballot)
        BY <4>3, <4>8 DEF Contract!CutShort
      <4> QED
        BY <3>1, <4>9 DEF Contract!BNext
    <3> QED
      BY <3>4, <3>5
  <2> QED
    BY <2>2, <2>3
<1> QED
  BY <1>1, <1>2, <1>3, <1>4, <1>5
     DEF Next, vars, CreateSecureBallotBox, GetGuardianKeys

(* SecureBallotBox implements what IBallotBox promises, interrupted calls, *)
(* reopened stores, foreign providers and ballots of several preferences   *)
(* included: a ticket brings one vote at the most, and the tallies answer  *)
(* with the count of these votes.                                          *)
THEOREM Refinement == Spec => ContractHolds
<1>1. Init => LastPut
  BY DEF Init, LastPut
<1>2. TypeOK /\ BoxInv /\ LastPut /\ [Next]_vars => LastPut'
  BY LastPutStep
<1>3. Init => Contract!BInit
  <2> SUFFICES ASSUME Init
               PROVE  Contract!BInit
    OBVIOUS
  <2>1. votes = {} /\ Settled = {} /\ sealed = FALSE /\ answers = {}
    BY DEF Init, Settled
  <2>2. SettledVotes = {}
    BY <2>1 DEF SettledVotes
  <2>3. \A e, v : {x \in SettledVotes : x.election = e /\ x.vote = v} = {}
    BY <2>2
  <2>4. CountOf(SettledVotes) = [e \in Elections |-> [v \in Name |-> 0]]
    BY <2>3, FS_EmptySet DEF CountOf
  <2> QED
    BY <2>1, <2>4 DEF Contract!BInit, Contract!Elections, Elections
<1>4. TypeOK /\ BoxInv /\ LastPut /\ [Next]_vars => [Contract!BNext]_(Contract!bvars)
  BY StepIsContract
<1> QED
  BY <1>1, <1>2, <1>3, <1>4, TypeCorrect, PTL DEF Spec, ContractHolds, Contract!BSpec
=============================================================================
