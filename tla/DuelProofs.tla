----------------------------- MODULE DuelProofs -----------------------------
(***************************************************************************)
(* Proofs about Duel for every number of sub-games and steps, every set of *)
(* moves and any number of faults.                                         *)
(***************************************************************************)
EXTENDS Duel, FiniteSetTheorems, SequenceTheorems, WellFoundedInduction, TLAPS

\* The sub-game and the step of exchange number n, counted from 0.
SubAt(n) == n \div Steps + 1
StepAt(n) == n % Steps

Codes == {"ok", "idempotent", "LIFECYCLE", "CONFLICTING_DUPLICATE", "SEQUENCE",
          "BACKPRESSURE"}

Wire == [sub : Nat, step : Nat, type : {"commitment", "reveal"}, body : Bodies,
         corr : {NoCorrelation}, fault : {NoFault}]

Routers == [cursor : [SubGames -> Cursors], seen : SUBSET Wire, byCorr : SUBSET Wire,
            queue : Seq(Wire)]

DuelTyped ==
  /\ done \in [Peers -> Nat]
  /\ pc \in [Peers -> {"turn", "commit", "reveal", "poll", "over", "failed"}]
  /\ call \in [Peers -> Codes \union {"none", "sent"}]
  /\ router \in [Peers -> Routers]
  /\ sealed \in [Peers -> Seq(Bodies)]
  /\ read \in [Peers -> Seq(Bodies)]
  /\ faults \in Nat

\* A peer has sealed the move of the exchange it is in, and calls only to deliver
\* it.
SealedInv ==
  \A p \in Peers :
    /\ Len(sealed[p]) = IF pc[p] \in {"turn", "over"} THEN done[p] ELSE done[p] + 1
    /\ call[p] # "none" => pc[p] \in {"commit", "reveal"}

\* The message carries the move that p sealed for the exchange of its sub-game
\* and step.
Carries(m, p) ==
  \E n \in 0 .. Len(sealed[p]) - 1 :
    m.sub = SubAt(n) /\ m.step = StepAt(n) /\ m.body = sealed[p][n + 1]

\* What waits in an inbox, and what was read from it, is what the other sealed.
TrueMoves ==
  \A p \in Peers :
    /\ \A i \in 1 .. Len(router[p].queue) : Carries(router[p].queue[i], Other(p))
    /\ Len(read[p]) = done[p] /\ done[p] <= Len(sealed[Other(p)])
    /\ \A k \in 1 .. done[p] : read[p][k] = sealed[Other(p)][k]

DuelInv == DuelTyped /\ SealedInv /\ TrueMoves

-----------------------------------------------------------------------------
(* Exchanges, sub-games and steps.                                         *)

LEMMA StepsPositive == Steps \in Nat \ {0} /\ Cardinality(SubGames) \in Nat \ {0}
<1>1. Steps \in Nat \ {0}  BY RouterAssumption DEF Steps
<1>2. Cardinality(SubGames) \in Nat  BY DuelAssumption, FS_CardinalityType
<1>3. Cardinality(SubGames) # 0  BY DuelAssumption, FS_EmptySet
<1>4. QED  BY <1>1, <1>2, <1>3

\* The Euclidean division of an exchange number by the length of a sub-game.
LEMMA Division ==
  ASSUME NEW n \in Nat, NEW S \in Nat \ {0}
  PROVE  /\ n = S * (n \div S) + (n % S)
         /\ n \div S \in Nat
         /\ n % S \in 0 .. S - 1
OBVIOUS

LEMMA ExchangeTyped ==
  ASSUME NEW n \in Nat
  PROVE  SubAt(n) \in Nat /\ SubAt(n) >= 1 /\ StepAt(n) \in 0 .. MaxStep
<1>1. n \div Steps \in Nat /\ n % Steps \in 0 .. Steps - 1
  BY StepsPositive, Division
<1>2. Steps - 1 = MaxStep  BY RouterAssumption DEF Steps
<1>3. QED  BY <1>1, <1>2 DEF SubAt, StepAt

\* A sub-game and a step name one exchange.
LEMMA ExchangeUnique ==
  ASSUME NEW m \in Nat, NEW n \in Nat, SubAt(m) = SubAt(n), StepAt(m) = StepAt(n)
  PROVE  m = n
<1>1. Steps \in Nat \ {0}  BY StepsPositive
<1>2. /\ m = Steps * (m \div Steps) + (m % Steps) /\ m \div Steps \in Nat
      /\ n = Steps * (n \div Steps) + (n % Steps) /\ n \div Steps \in Nat
  BY <1>1, Division
<1>3. m \div Steps = n \div Steps /\ m % Steps = n % Steps
  BY <1>2 DEF SubAt, StepAt
<1>4. QED  BY <1>2, <1>3

\* The next exchange is the next step, or the first of the next sub-game.
LEMMA NextExchange ==
  ASSUME NEW n \in Nat
  PROVE  \/ SubAt(n + 1) = SubAt(n) + 1 /\ StepAt(n + 1) = 0
         \/ SubAt(n + 1) = SubAt(n) /\ StepAt(n + 1) = StepAt(n) + 1
<1>1. Steps \in Nat \ {0}  BY StepsPositive
<1>2. ASSUME NEW S \in Nat \ {0}
      PROVE  \/ n % S = S - 1 /\ (n + 1) % S = 0 /\ (n + 1) \div S = n \div S + 1
             \/ n % S < S - 1 /\ (n + 1) % S = (n % S) + 1 /\ (n + 1) \div S = n \div S
  OBVIOUS
<1>3. n \div Steps \in Nat  BY <1>1, Division
<1>4. QED  BY <1>1, <1>2, <1>3 DEF SubAt, StepAt

\* Before the end of the series the exchange lies in one of its sub-games.
LEMMA ExchangeInSeries ==
  ASSUME NEW n \in Nat, n < Total
  PROVE  SubAt(n) \in SubGames
<1> DEFINE S == Steps
           C == Cardinality(SubGames)
<1>1. S \in Nat \ {0} /\ C \in Nat /\ n < S * C  BY StepsPositive DEF Total
<1> HIDE DEF S, C
<1>2. n = S * (n \div S) + (n % S) /\ n \div S \in Nat /\ n % S \in 0 .. S - 1
  BY <1>1, Division
<1>3. n \div S < C
  <2> SUFFICES ASSUME n \div S >= C PROVE FALSE  BY <1>1, <1>2
  <2>1. S * (n \div S) >= S * C  BY <1>1, <1>2
  <2>2. QED  BY <1>1, <1>2, <2>1
<1>4. n \div S + 1 \in 1 .. C  BY <1>1, <1>2, <1>3
<1>5. QED  BY <1>4, DuelAssumption DEF S, C, SubAt

-----------------------------------------------------------------------------
(* The two peers, and the inbox after a read.                              *)

LEMMA TwoPeers ==
  ASSUME NEW p \in Peers
  PROVE  /\ Other(p) \in Peers /\ Other(p) # p /\ Other(Other(p)) = p
         /\ \A q \in Peers : q = p \/ q = Other(p)
<1>1. PICK a \in Peers, b \in Peers : a # b /\ Peers = {a, b}  BY DuelAssumption
<1>2. Other(a) = b /\ Other(b) = a  BY <1>1 DEF Other
<1>3. QED  BY <1>1, <1>2

\* A set of positions that is not empty has a first one.
LEMMA LeastIndex ==
  ASSUME NEW I, I \subseteq Nat, I # {}
  PROVE  Min(I) \in I /\ \A y \in I : Min(I) <= y
<1>1. \E x \in I : \A y \in I : ~(<<y, x>> \in OpToRel(<, Nat))
  BY WFMin, NatLessThanWellFounded
<1>2. PICK x \in I : \A y \in I : ~(<<y, x>> \in OpToRel(<, Nat))
  BY <1>1
<1>3. \A y \in I : x <= y
  <2> SUFFICES ASSUME NEW y \in I, y < x PROVE FALSE
    OBVIOUS
  <2>1. <<y, x>> \in OpToRel(<, Nat)
    BY DEF OpToRel
  <2> QED BY <1>2, <2>1
<1> QED BY <1>3 DEF Min

LEMMA LeastOfOne == ASSUME NEW i \in Nat PROVE Min({i}) = i
<1>1. {i} \subseteq Nat /\ {i} # {}  OBVIOUS
<1>2. Min({i}) \in {i}  BY <1>1, LeastIndex
<1>3. QED  BY <1>2

\* RemoveAt takes one element out and keeps the order of the others.
LEMMA RemoveAtFacts ==
  ASSUME NEW S, NEW q \in Seq(S), NEW n \in 1 .. Len(q)
  PROVE  /\ RemoveAt(q, n) \in Seq(S)
         /\ Len(RemoveAt(q, n)) = Len(q) - 1
         /\ \A k \in 1 .. Len(q) - 1 :
              RemoveAt(q, n)[k] = IF k < n THEN q[k] ELSE q[k + 1]
<1> DEFINE a == SubSeq(q, 1, n - 1)
           b == SubSeq(q, n + 1, Len(q))
<1>1. /\ a \in Seq(S) /\ Len(a) = n - 1
      /\ \A k \in 1 .. n - 1 : a[k] = q[k]
  OBVIOUS
<1>2. /\ b \in Seq(S) /\ Len(b) = Len(q) - n
      /\ \A k \in 1 .. Len(q) - n : b[k] = q[n + k]
  OBVIOUS
<1>3. RemoveAt(q, n) = a \o b
  BY DEF RemoveAt
<1>0. Len(q) \in Nat /\ n \in Nat /\ Len(q) - 1 = (n - 1) + (Len(q) - n)
  OBVIOUS
<1> HIDE DEF a, b
<1>4. /\ a \o b \in Seq(S) /\ Len(a \o b) = Len(a) + Len(b)
      /\ \A k \in 1 .. Len(a) + Len(b) :
           (a \o b)[k] = IF k <= Len(a) THEN a[k] ELSE b[k - Len(a)]
  BY <1>1, <1>2, ConcatProperties
<1>5. ASSUME NEW k \in 1 .. Len(q) - 1
      PROVE  (a \o b)[k] = IF k < n THEN q[k] ELSE q[k + 1]
  <2>1. k \in Nat /\ k \in 1 .. Len(a) + Len(b)
    BY <1>0, <1>1, <1>2
  <2>2. CASE k < n
    BY <1>0, <1>1, <1>4, <2>1, <2>2
  <2>3. CASE ~(k < n)
    <3>1. (a \o b)[k] = b[k - (n - 1)]
      BY <1>0, <1>1, <1>4, <2>1, <2>3
    <3>2. k - (n - 1) \in 1 .. Len(q) - n /\ n + (k - (n - 1)) = k + 1
      BY <1>0, <2>1, <2>3
    <3> QED BY <1>2, <2>3, <3>1, <3>2
  <2> QED BY <2>2, <2>3
<1> QED BY <1>0, <1>1, <1>2, <1>3, <1>4, <1>5

\* The queue without the first position of a set, if there is one.
WithoutFirst(q, I) == IF I # {} THEN RemoveAt(q, Min(I)) ELSE q

Reveals(q, g, s) == {i \in 1 .. Len(q) : IsRevealOf(q[i], g, s)}
Commitments(q, g, s) == {i \in 1 .. Len(q) : IsCommitmentOf(q[i], g, s)}

LEMMA ConsumedIs ==
  ASSUME NEW q, NEW g, NEW s
  PROVE  LET r == WithoutFirst(q, Reveals(q, g, s))
         IN  Consumed(q, g, s) = WithoutFirst(r, Commitments(r, g, s))
<1>1. \A x : WithoutReveal(x, g, s) = WithoutFirst(x, Reveals(x, g, s))
  BY DEF WithoutReveal, RemoveFirstMatch, SelectInSeq, WithoutFirst, Reveals
<1>2. \A x : WithoutCommitment(x, g, s) = WithoutFirst(x, Commitments(x, g, s))
  BY DEF WithoutCommitment, RemoveFirstMatch, SelectInSeq, WithoutFirst, Commitments
<1>3. QED  BY <1>1, <1>2 DEF Consumed

\* What is left was in the queue.
LEMMA WithoutFirstWithin ==
  ASSUME NEW q \in Seq(Wire), NEW I, I \subseteq 1 .. Len(q)
  PROVE  /\ WithoutFirst(q, I) \in Seq(Wire)
         /\ \A i \in 1 .. Len(WithoutFirst(q, I)) :
              \E j \in 1 .. Len(q) : WithoutFirst(q, I)[i] = q[j]
<1>1. CASE I = {}  BY <1>1 DEF WithoutFirst
<1>2. CASE I # {}
  <2> DEFINE n == Min(I)
             r == RemoveAt(q, n)
  <2>1. n \in 1 .. Len(q)
    <3>1. I \subseteq Nat  OBVIOUS
    <3>2. QED  BY <1>2, <3>1, LeastIndex
  <2>2. WithoutFirst(q, I) = r  BY <1>2 DEF WithoutFirst
  <2> HIDE DEF n
  <2>3. /\ r \in Seq(Wire) /\ Len(r) = Len(q) - 1
        /\ \A k \in 1 .. Len(q) - 1 : r[k] = IF k < n THEN q[k] ELSE q[k + 1]
    BY <2>1, RemoveAtFacts
  <2> HIDE DEF r
  <2>4. ASSUME NEW i \in 1 .. Len(r) PROVE \E j \in 1 .. Len(q) : r[i] = q[j]
    <3>1. CASE i < n  BY <2>1, <2>3, <3>1
    <3>2. CASE ~(i < n)  BY <2>1, <2>3, <3>2
    <3>3. QED  BY <3>1, <3>2
  <2>5. QED  BY <2>2, <2>3, <2>4
<1>3. QED  BY <1>1, <1>2

LEMMA ConsumedWithin ==
  ASSUME NEW q \in Seq(Wire), NEW g, NEW s
  PROVE  /\ Consumed(q, g, s) \in Seq(Wire)
         /\ \A i \in 1 .. Len(Consumed(q, g, s)) :
              \E j \in 1 .. Len(q) : Consumed(q, g, s)[i] = q[j]
<1> DEFINE r == WithoutFirst(q, Reveals(q, g, s))
           c == WithoutFirst(r, Commitments(r, g, s))
<1>1. Consumed(q, g, s) = c  BY ConsumedIs
<1>2. /\ r \in Seq(Wire)
      /\ \A i \in 1 .. Len(r) : \E j \in 1 .. Len(q) : r[i] = q[j]
  <2>1. Reveals(q, g, s) \subseteq 1 .. Len(q)  BY DEF Reveals
  <2>2. QED  BY <2>1, WithoutFirstWithin
<1> HIDE DEF r
<1>3. /\ c \in Seq(Wire)
      /\ \A i \in 1 .. Len(c) : \E j \in 1 .. Len(r) : c[i] = r[j]
  <2>1. Commitments(r, g, s) \subseteq 1 .. Len(r)  BY DEF Commitments
  <2>2. QED  BY <1>2, <2>1, WithoutFirstWithin
<1> HIDE DEF c
<1>4. QED  BY <1>1, <1>2, <1>3

-----------------------------------------------------------------------------
(* The same game.                                                          *)

LEMMA DuelInitInv == DuelInit => DuelInv
<1> SUFFICES ASSUME DuelInit PROVE DuelInv  OBVIOUS
<1>1. EmptyRouter \in Routers  BY DEF EmptyRouter, Routers, Cursors
<1>2. DuelTyped  BY <1>1 DEF DuelInit, DuelTyped
<1>3. SealedInv  BY DEF DuelInit, SealedInv
<1>4. TrueMoves
  <2> SUFFICES ASSUME NEW p \in Peers
               PROVE  /\ router[p].queue = <<>> /\ read[p] = <<>> /\ done[p] = 0
                      /\ Len(sealed[Other(p)]) = 0
    BY DEF TrueMoves
  <2>1. Other(p) \in Peers  BY TwoPeers
  <2>2. QED  BY <2>1 DEF DuelInit, EmptyRouter
<1>5. QED  BY <1>2, <1>3, <1>4 DEF DuelInv

\* A step of the turn loop that stays in its exchange, or fails in it.
LEMMA StaysInExchange ==
  ASSUME DuelInv, NEW p \in Peers, pc[p] \in {"commit", "reveal", "poll"},
         NEW at \in {"reveal", "poll", "failed"}, pc' = [pc EXCEPT ![p] = at],
         NEW c \in {"none", "sent"}, call' = [call EXCEPT ![p] = c],
         c # "none" => at = "reveal",
         faults' \in Nat, UNCHANGED <<done, router, sealed, read>>
  PROVE  DuelInv'
<1>1. DuelTyped'  BY DEF DuelInv, DuelTyped
<1>2. SealedInv'  BY DEF DuelInv, DuelTyped, SealedInv
<1>3. TrueMoves'
  BY DEF DuelInv, TrueMoves, Carries
<1>4. QED  BY <1>1, <1>2, <1>3 DEF DuelInv

\* Sealing another move takes none back.
LEMMA SealedGrows ==
  ASSUME DuelTyped, NEW p \in Peers, NEW b \in Bodies,
         sealed' = [sealed EXCEPT ![p] = Append(sealed[p], b)],
         NEW q \in Peers
  PROVE  /\ sealed'[q] \in Seq(Bodies)
         /\ Len(sealed'[q]) = IF q = p THEN Len(sealed[q]) + 1 ELSE Len(sealed[q])
         /\ \A k \in 1 .. Len(sealed[q]) : sealed'[q][k] = sealed[q][k]
<1>1. sealed[p] \in Seq(Bodies) /\ sealed[q] \in Seq(Bodies)  BY DEF DuelTyped
<1>2. CASE q = p
  <2>1. sealed'[q] = Append(sealed[q], b)  BY <1>2 DEF DuelTyped
  <2>2. QED  BY <1>1, <1>2, <2>1
<1>3. CASE q # p
  <2>1. sealed'[q] = sealed[q]  BY <1>3 DEF DuelTyped
  <2>2. Len(sealed[q]) \in Nat  BY <1>1
  <2>3. QED  BY <1>1, <1>3, <2>1, <2>2
<1>4. QED  BY <1>2, <1>3

LEMMA SealTurnInv ==
  ASSUME DuelInv, NEW p \in Peers, SealTurn(p)
  PROVE  DuelInv'
<1>1. DuelTyped  BY DEF DuelInv
<1>2. PICK b \in Bodies : sealed' = [sealed EXCEPT ![p] = Append(sealed[p], b)]
  BY DEF SealTurn
<1>3. /\ pc[p] = "turn" /\ pc' = [pc EXCEPT ![p] = "commit"]
      /\ call' = [call EXCEPT ![p] = "sent"]
      /\ done' = done /\ router' = router /\ read' = read /\ faults' = faults
  BY DEF SealTurn
<1>4. \A q \in Peers :
        /\ sealed'[q] \in Seq(Bodies)
        /\ Len(sealed'[q]) = IF q = p THEN Len(sealed[q]) + 1 ELSE Len(sealed[q])
        /\ \A k \in 1 .. Len(sealed[q]) : sealed'[q][k] = sealed[q][k]
  BY <1>1, <1>2, SealedGrows
<1>5. \A q \in Peers : /\ Len(sealed[q]) \in Nat /\ done[q] \in Nat
                       /\ Len(sealed'[q]) \in Nat /\ Len(sealed[q]) <= Len(sealed'[q])
  <2> SUFFICES ASSUME NEW q \in Peers
               PROVE  /\ Len(sealed[q]) \in Nat /\ done[q] \in Nat
                      /\ Len(sealed'[q]) \in Nat /\ Len(sealed[q]) <= Len(sealed'[q])
    OBVIOUS
  <2>1. Len(sealed[q]) \in Nat /\ done[q] \in Nat  BY <1>1 DEF DuelTyped
  <2> DEFINE old == Len(sealed[q])
             new == Len(sealed'[q])
  <2>2. new = old \/ new = old + 1  BY <1>4
  <2>3. old \in Nat  BY <2>1
  <2> HIDE DEF old, new
  <2>4. new \in Nat /\ old <= new  BY <2>2, <2>3
  <2>5. QED  BY <2>1, <2>4 DEF old, new
<1>6. DuelTyped'
  <2>1. sealed' \in [Peers -> Seq(Bodies)]  BY <1>1, <1>2 DEF DuelTyped
  <2>2. QED  BY <1>1, <1>3, <2>1 DEF DuelTyped
<1>7. SealedInv'
  <2> SUFFICES ASSUME NEW q \in Peers
               PROVE  /\ Len(sealed'[q]) = IF pc'[q] \in {"turn", "over"} THEN done'[q]
                                           ELSE done'[q] + 1
                      /\ call'[q] # "none" => pc'[q] \in {"commit", "reveal"}
    BY DEF SealedInv
  <2>1. CASE q = p  BY <1>1, <1>3, <1>4, <1>5, <2>1 DEF DuelInv, SealedInv, DuelTyped
  <2>2. CASE q # p  BY <1>1, <1>3, <1>4, <1>5, <2>2 DEF DuelInv, SealedInv, DuelTyped
  <2>3. QED  BY <2>1, <2>2
<1>8. ASSUME NEW m, NEW q \in Peers, Carries(m, q) PROVE Carries(m, q)'
  <2>1. PICK n \in 0 .. Len(sealed[q]) - 1 :
          m.sub = SubAt(n) /\ m.step = StepAt(n) /\ m.body = sealed[q][n + 1]
    BY <1>8 DEF Carries
  <2>2. n + 1 \in 1 .. Len(sealed[q]) /\ n \in 0 .. Len(sealed'[q]) - 1
    BY <1>5
  <2>3. QED  BY <1>4, <2>1, <2>2 DEF Carries
<1>9. TrueMoves'
  <2> SUFFICES ASSUME NEW q \in Peers
               PROVE  /\ \A i \in 1 .. Len(router[q].queue) :
                           Carries(router[q].queue[i], Other(q))'
                      /\ Len(read[q]) = done[q] /\ done[q] <= Len(sealed'[Other(q)])
                      /\ \A k \in 1 .. done[q] : read[q][k] = sealed'[Other(q)][k]
    BY <1>3 DEF TrueMoves, Carries
  <2>1. Other(q) \in Peers  BY TwoPeers
  <2>2. /\ \A i \in 1 .. Len(router[q].queue) : Carries(router[q].queue[i], Other(q))
        /\ Len(read[q]) = done[q] /\ done[q] <= Len(sealed[Other(q)])
        /\ \A k \in 1 .. done[q] : read[q][k] = sealed[Other(q)][k]
    BY DEF DuelInv, TrueMoves
  <2>3. \A i \in 1 .. Len(router[q].queue) : Carries(router[q].queue[i], Other(q))'
    BY <1>3, <1>8, <2>1, <2>2
  <2>4. done[q] <= Len(sealed'[Other(q)])  BY <1>5, <2>1, <2>2
  <2>5. ASSUME NEW k \in 1 .. done[q] PROVE read[q][k] = sealed'[Other(q)][k]
    <3>1. k \in 1 .. Len(sealed[Other(q)])  BY <1>5, <2>1, <2>2
    <3>2. sealed'[Other(q)][k] = sealed[Other(q)][k]  BY <1>4, <2>1, <3>1
    <3>3. QED  BY <2>2, <3>2
  <2>6. QED  BY <2>2, <2>3, <2>4, <2>5
<1>10. QED  BY <1>6, <1>7, <1>9 DEF DuelInv

\* A peer delivers the move it sealed for the exchange it is in.
LEMMA OutgoingFacts ==
  ASSUME DuelInv, NEW p \in Peers, call[p] # "none"
  PROVE  /\ Outgoing(p) \in Wire
         /\ Outgoing(p).sub = SubAt(done[p]) /\ Outgoing(p).step = StepAt(done[p])
         /\ Carries(Outgoing(p), p)
<1>1. /\ done[p] \in Nat /\ sealed[p] \in Seq(Bodies) /\ Len(sealed[p]) = done[p] + 1
  BY DEF DuelInv, DuelTyped, SealedInv
<1>2. Last(sealed[p]) \in Bodies /\ Last(sealed[p]) = sealed[p][done[p] + 1]
  BY <1>1 DEF Last
<1>3. SubAt(done[p]) \in Nat /\ StepAt(done[p]) \in Nat
  <2>1. SubAt(done[p]) \in Nat /\ StepAt(done[p]) \in 0 .. MaxStep  BY <1>1, ExchangeTyped
  <2>2. MaxStep \in Nat  BY RouterAssumption
  <2> DEFINE step == StepAt(done[p])
  <2>3. step \in 0 .. MaxStep  BY <2>1
  <2> HIDE DEF step
  <2>4. step \in Nat  BY <2>2, <2>3
  <2>5. QED  BY <2>1, <2>4 DEF step
<1>4. SubGameOf(p) = SubAt(done[p]) /\ StepOf(p) = StepAt(done[p])
  BY DEF SubGameOf, StepOf, SubAt, StepAt
<1>5. /\ Outgoing(p) \in Wire /\ Outgoing(p).sub = SubAt(done[p])
      /\ Outgoing(p).step = StepAt(done[p]) /\ Outgoing(p).body = sealed[p][done[p] + 1]
  BY <1>2, <1>3, <1>4 DEF Outgoing, Wire
<1>6. done[p] \in 0 .. Len(sealed[p]) - 1  BY <1>1
<1>7. Carries(Outgoing(p), p)  BY <1>5, <1>6 DEF Carries
<1>8. QED  BY <1>5, <1>7

LEMMA AckCodeTyped ==
  ASSUME NEW r, NEW machine, NEW m \in Wire
  PROVE  AckCode(r, machine, m) \in Codes
<1>1. m.fault = NoFault  BY DEF Wire
<1>2. QED  BY <1>1 DEF AckCode, Codes

\* The router stays a router, and its queue grows by the message at most.
LEMMA RouterAfterFacts ==
  ASSUME NEW r \in Routers, NEW m \in Wire, NEW code
  PROVE  /\ RouterAfter(r, m, code) \in Routers
         /\ RouterAfter(r, m, code).queue \in {r.queue, Append(r.queue, m)}
<1>1. Advanced(r, m) \in [SubGames -> Cursors]
  <2> DEFINE cursor == r.cursor
             new == IF m.type = "commitment" THEN [step |-> cursor[m.sub].step, phase |-> 0]
                    ELSE IF m.type = "reveal"
                         THEN [step |-> cursor[m.sub].step + 1, phase |-> -1]
                    ELSE cursor[m.sub]
  <2>1. cursor \in [SubGames -> Cursors]  BY DEF Routers
  <2>2. Advanced(r, m) = [cursor EXCEPT ![m.sub] = new]  BY DEF Advanced
  <2> HIDE DEF cursor
  <2>3. m.sub \in SubGames => new \in Cursors
    <3> SUFFICES ASSUME m.sub \in SubGames PROVE new \in Cursors  OBVIOUS
    <3>1. cursor[m.sub] \in Cursors  BY <2>1
    <3>2. cursor[m.sub].step \in Nat  BY <3>1 DEF Cursors
    <3>3. QED  BY <3>1, <3>2 DEF Cursors
  <2> HIDE DEF new
  <2>4. QED  BY <2>1, <2>2, <2>3
<1>2. /\ r.queue \in Seq(Wire) /\ r.seen \in SUBSET Wire /\ r.byCorr \in SUBSET Wire
  BY DEF Routers
<1>3. CASE code = "ok"
  <2> DEFINE seen == {x \in r.seen : LogicalKey(x) # LogicalKey(m)} \union {m}
             byCorr == IF m.corr = NoCorrelation THEN r.byCorr
                       ELSE {x \in r.byCorr : x.corr # m.corr} \union {m}
             queue == Append(r.queue, m)
  <2>1. seen \in SUBSET Wire /\ byCorr \in SUBSET Wire /\ queue \in Seq(Wire)
    BY <1>2
  <2>2. RouterAfter(r, m, code) = [cursor |-> Advanced(r, m), seen |-> seen,
                                   byCorr |-> byCorr, queue |-> queue]
    BY <1>3 DEF RouterAfter, Enqueued
  <2> HIDE DEF seen, byCorr
  <2>3. QED  BY <1>1, <2>1, <2>2 DEF Routers
<1>4. CASE code # "ok" /\ code = "BACKPRESSURE"
  <2>1. RouterAfter(r, m, code) = [r EXCEPT !.cursor = Advanced(r, m)]
    BY <1>4 DEF RouterAfter
  <2>2. QED  BY <1>1, <1>2, <2>1 DEF Routers
<1>5. CASE code # "ok" /\ code # "BACKPRESSURE"  BY <1>5 DEF RouterAfter
<1>6. QED  BY <1>3, <1>4, <1>5

LEMMA HandleInv ==
  ASSUME DuelInv, NEW p \in Peers, Handle(p)
  PROVE  DuelInv'
<1> DEFINE q == Other(p)
           m == Outgoing(p)
           code == AckCode(router[q], Machine(q), m)
<1>1. q \in Peers /\ q # p /\ Other(q) = p  BY TwoPeers
<1>2. m \in Wire /\ Carries(m, p)
  <2>1. call[p] # "none"  BY DEF Handle
  <2>2. QED  BY <2>1, OutgoingFacts
<1>3. /\ call[p] = "sent" /\ call' = [call EXCEPT ![p] = code]
      /\ router' = [router EXCEPT ![q] = RouterAfter(router[q], m, code)]
      /\ done' = done /\ pc' = pc /\ sealed' = sealed /\ read' = read /\ faults' = faults
  BY DEF Handle
<1>4. code \in Codes  BY <1>2, AckCodeTyped
<1> HIDE DEF q, m, code
<1>5. router[q] \in Routers  BY <1>1 DEF DuelInv, DuelTyped
<1>6. /\ RouterAfter(router[q], m, code) \in Routers
      /\ RouterAfter(router[q], m, code).queue \in {router[q].queue, Append(router[q].queue, m)}
  BY <1>2, <1>5, RouterAfterFacts
<1>7. DuelTyped'  BY <1>1, <1>3, <1>4, <1>6 DEF DuelInv, DuelTyped
<1>8. SealedInv'  BY <1>3 DEF DuelInv, DuelTyped, SealedInv
<1>9. \A x, y : Carries(x, y)' <=> Carries(x, y)  BY <1>3 DEF Carries
<1>10. ASSUME NEW o \in Peers, NEW i \in 1 .. Len(router'[o].queue)
       PROVE  Carries(router'[o].queue[i], Other(o))
  <2>1. \A j \in 1 .. Len(router[o].queue) : Carries(router[o].queue[j], Other(o))
    BY DEF DuelInv, TrueMoves
  <2>2. CASE router'[o].queue = router[o].queue  BY <1>10, <2>1, <2>2
  <2>3. CASE o = q /\ router'[o].queue = Append(router[q].queue, m)
    <3>1. router[q].queue \in Seq(Wire)  BY <1>5 DEF Routers
    <3>2. i \in 1 .. Len(router[q].queue) + 1  BY <1>2, <2>3, <3>1
    <3>3. CASE i = Len(router[q].queue) + 1
      <4>1. router'[o].queue[i] = m  BY <1>2, <2>3, <3>1, <3>3
      <4>2. QED  BY <1>1, <1>2, <2>3, <4>1
    <3>4. CASE i \in 1 .. Len(router[q].queue)
      <4>1. router'[o].queue[i] = router[q].queue[i]  BY <1>2, <2>3, <3>1, <3>4
      <4>2. QED  BY <2>1, <2>3, <3>4, <4>1
    <3>5. QED  BY <3>1, <3>2, <3>3, <3>4
  <2>4. o # q => router'[o] = router[o]  BY <1>3 DEF DuelInv, DuelTyped
  <2>5. o = q => router'[o] = RouterAfter(router[q], m, code)
    BY <1>1, <1>3 DEF DuelInv, DuelTyped
  <2>6. QED  BY <1>6, <2>2, <2>3, <2>4, <2>5
<1>11. TrueMoves'
  <2> SUFFICES ASSUME NEW o \in Peers
               PROVE  /\ \A i \in 1 .. Len(router'[o].queue) :
                           Carries(router'[o].queue[i], Other(o))
                      /\ Len(read[o]) = done[o] /\ done[o] <= Len(sealed[Other(o)])
                      /\ \A k \in 1 .. done[o] : read[o][k] = sealed[Other(o)][k]
    BY <1>3, <1>9 DEF TrueMoves
  <2>1. QED  BY <1>10 DEF DuelInv, TrueMoves
<1>12. QED  BY <1>7, <1>8, <1>11 DEF DuelInv

\* The reveal that the poll finds carries the other's move of the same exchange.
LEMMA FoundMove ==
  ASSUME DuelInv, NEW p \in Peers, NEW m \in Awaited(p)
  PROVE  /\ done[p] + 1 <= Len(sealed[Other(p)])
         /\ m.body \in Bodies /\ m.body = sealed[Other(p)][done[p] + 1]
<1> DEFINE queue == router[p].queue
           q == Other(p)
<1>1. /\ q \in Peers /\ done[p] \in Nat /\ sealed[q] \in Seq(Bodies) /\ queue \in Seq(Wire)
  BY TwoPeers DEF DuelInv, DuelTyped, Routers
<1>2. PICK i \in 1 .. Len(queue) : m = queue[i]  BY <1>1 DEF Awaited, ToSet
<1>3. m.sub = SubAt(done[p]) /\ m.step = StepAt(done[p])
  BY DEF Awaited, IsRevealOf, SubGameOf, StepOf, SubAt, StepAt
<1>4. Carries(m, q)  BY <1>2 DEF DuelInv, TrueMoves
<1>5. PICK n \in 0 .. Len(sealed[q]) - 1 :
        m.sub = SubAt(n) /\ m.step = StepAt(n) /\ m.body = sealed[q][n + 1]
  BY <1>4 DEF Carries
<1> HIDE DEF q, queue
<1>6. n \in Nat /\ n + 1 \in 1 .. Len(sealed[q]) /\ n + 1 <= Len(sealed[q])  BY <1>1
<1>7. n = done[p]  BY <1>1, <1>3, <1>5, <1>6, ExchangeUnique
<1>8. m.body \in Bodies  BY <1>1, <1>5, <1>6
<1>9. QED  BY <1>5, <1>6, <1>7, <1>8 DEF q

LEMMA PollFindsInv ==
  ASSUME DuelInv, NEW p \in Peers, PollFinds(p)
  PROVE  DuelInv'
<1> DEFINE q == Other(p)
<1>1. q \in Peers /\ q # p /\ Other(q) = p  BY TwoPeers
<1>2. PICK m \in Awaited(p) :
        /\ read' = [read EXCEPT ![p] = Append(read[p], m.body)]
        /\ router' = [router EXCEPT ![p].queue = Consumed(router[p].queue, m.sub, m.step)]
  BY DEF PollFinds
<1>3. /\ pc[p] = "poll" /\ done' = [done EXCEPT ![p] = done[p] + 1]
      /\ pc' = [pc EXCEPT ![p] = IF done'[p] = Total THEN "over" ELSE "turn"]
      /\ call' = call /\ sealed' = sealed /\ faults' = faults
  BY DEF PollFinds
<1>4. /\ done[p] + 1 <= Len(sealed[q])
      /\ m.body \in Bodies /\ m.body = sealed[q][done[p] + 1]
  BY FoundMove
<1>5. /\ DuelTyped
      /\ done[p] \in Nat /\ router[p] \in Routers /\ router[p].queue \in Seq(Wire)
      /\ read[p] \in Seq(Bodies) /\ Len(read[p]) = done[p]
  BY DEF DuelInv, DuelTyped, Routers, TrueMoves
<1> DEFINE c == Consumed(router[p].queue, m.sub, m.step)
<1>6. /\ c \in Seq(Wire)
      /\ \A i \in 1 .. Len(c) : \E j \in 1 .. Len(router[p].queue) :
           c[i] = router[p].queue[j]
  BY <1>5, ConsumedWithin
<1> HIDE DEF c, q
<1>7. /\ router'[p] = [router[p] EXCEPT !.queue = c] /\ router'[p].queue = c
      /\ \A o \in Peers : o # p => router'[o] = router[o]
  BY <1>2, <1>5 DEF DuelTyped, Routers, c
<1>8. DuelTyped'
  <2>1. router'[p] \in Routers  BY <1>5, <1>6, <1>7 DEF Routers
  <2>2. router' \in [Peers -> Routers]
    <3>1. router' = [router EXCEPT ![p] = router'[p]]  BY <1>2, <1>5 DEF DuelTyped
    <3>2. QED  BY <1>5, <2>1, <3>1 DEF DuelTyped
  <2>3. read' \in [Peers -> Seq(Bodies)]  BY <1>2, <1>4, <1>5 DEF DuelTyped
  <2>4. QED  BY <1>3, <1>5, <2>2, <2>3 DEF DuelTyped
<1>9. SealedInv'
  <2> SUFFICES ASSUME NEW o \in Peers
               PROVE  /\ Len(sealed[o]) = IF pc'[o] \in {"turn", "over"} THEN done'[o]
                                          ELSE done'[o] + 1
                      /\ call[o] # "none" => pc'[o] \in {"commit", "reveal"}
    BY <1>3 DEF SealedInv
  <2>1. CASE o = p  BY <1>3, <1>5, <2>1 DEF DuelInv, SealedInv, DuelTyped
  <2>2. CASE o # p  BY <1>3, <1>5, <2>2 DEF DuelInv, SealedInv, DuelTyped
  <2>3. QED  BY <2>1, <2>2
<1>10. TrueMoves'
  <2>1. \A x, y : Carries(x, y)' <=> Carries(x, y)  BY <1>3 DEF Carries
  <2> SUFFICES ASSUME NEW o \in Peers
               PROVE  /\ \A i \in 1 .. Len(router'[o].queue) :
                           Carries(router'[o].queue[i], Other(o))
                      /\ Len(read'[o]) = done'[o] /\ done'[o] <= Len(sealed[Other(o)])
                      /\ \A k \in 1 .. done'[o] : read'[o][k] = sealed[Other(o)][k]
    BY <1>3, <2>1 DEF TrueMoves
  <2>2. /\ \A i \in 1 .. Len(router[o].queue) : Carries(router[o].queue[i], Other(o))
        /\ Len(read[o]) = done[o] /\ done[o] <= Len(sealed[Other(o)])
        /\ \A k \in 1 .. done[o] : read[o][k] = sealed[Other(o)][k]
    BY DEF DuelInv, TrueMoves
  <2>3. CASE o # p
    <3>1. read'[o] = read[o] /\ done'[o] = done[o] /\ router'[o] = router[o]
      BY <1>2, <1>3, <1>5, <1>7, <2>3 DEF DuelTyped
    <3>2. QED  BY <2>2, <3>1
  <2>4. CASE o = p
    <3>1. read'[o] = Append(read[p], m.body) /\ done'[o] = done[p] + 1
      BY <1>2, <1>3, <1>5, <2>4 DEF DuelTyped
    <3>2. ASSUME NEW i \in 1 .. Len(router'[o].queue)
          PROVE  Carries(router'[o].queue[i], Other(o))
      BY <1>6, <1>7, <2>2, <2>4, <3>2
    <3>3. Len(read'[o]) = done'[o] /\ done'[o] <= Len(sealed[q])
      BY <1>4, <1>5, <3>1
    <3>4. ASSUME NEW k \in 1 .. done'[o] PROVE read'[o][k] = sealed[q][k]
      <4>1. CASE k = done[p] + 1  BY <1>4, <1>5, <3>1, <4>1
      <4>2. CASE k \in 1 .. done[p]
        <5>1. read'[o][k] = read[p][k]  BY <1>4, <1>5, <3>1, <4>2
        <5>2. QED  BY <2>2, <2>4, <4>2, <5>1 DEF q
      <4>3. QED  BY <1>5, <3>1, <4>1, <4>2
    <3>5. QED  BY <2>4, <3>2, <3>3, <3>4 DEF q
  <2>5. QED  BY <2>3, <2>4
<1>11. QED  BY <1>8, <1>9, <1>10 DEF DuelInv

\* The inductive invariant of the duel.
LEMMA DuelStepInv == DuelInv /\ [DuelNext]_duelVars => DuelInv'
<1> SUFFICES ASSUME DuelInv, [DuelNext]_duelVars PROVE DuelInv'  OBVIOUS
<1>1. ASSUME NEW p \in Peers, CommitAccepted(p) \/ RevealAccepted(p) PROVE DuelInv'
  <2>1. CASE CommitAccepted(p)
    BY <2>1, StaysInExchange DEF CommitAccepted, DuelInv, DuelTyped
  <2>2. CASE RevealAccepted(p)
    BY <2>2, StaysInExchange DEF RevealAccepted, DuelInv, DuelTyped
  <2>3. QED  BY <1>1, <2>1, <2>2
<1>2. ASSUME NEW p \in Peers,
             Rejected(p) \/ CallLost(p) \/ PollGivesUp(p) \/ PollTooShort(p)
      PROVE  DuelInv'
  <2>1. /\ Fails(p) /\ UNCHANGED <<done, router, sealed, read>> /\ faults' \in Nat
    BY <1>2 DEF Rejected, CallLost, PollGivesUp, PollTooShort, DuelInv, DuelTyped
  <2>2. pc[p] \in {"commit", "reveal", "poll"}
    BY <1>2 DEF Rejected, CallLost, PollGivesUp, PollTooShort, DuelInv, SealedInv
  <2>3. QED  BY <2>1, <2>2, StaysInExchange DEF Fails
<1>3. CASE UNCHANGED duelVars
  BY <1>3 DEF duelVars, DuelInv, DuelTyped, SealedInv, TrueMoves, Carries
<1>4. QED
  BY <1>1, <1>2, <1>3, SealTurnInv, HandleInv, PollFindsInv
     DEF DuelNext, PeerStep, BothEnded

THEOREM DuelInvariant == DuelSpec => []DuelInv
<1>1. QED  BY DuelInitInv, DuelStepInv, PTL DEF DuelSpec

\* Two peers that speak through their gateways and routers play the same game,
\* whatever is lost and however far one of them runs ahead: what the turn loop of
\* one has read is what the other has sealed, step by step, and neither is more
\* than one exchange ahead.
THEOREM DuelSameGame == DuelSpec => []SameGame
<1>1. DuelInv => SameGame
  <2> SUFFICES ASSUME DuelInv, NEW p \in Peers
               PROVE  /\ done[p] <= done[Other(p)] + 1
                      /\ Len(read[p]) = done[p]
                      /\ IsPrefix(read[p], sealed[Other(p)])
    BY DEF SameGame
  <2> DEFINE q == Other(p)
             a == read[p]
             b == sealed[q]
  <2>1. q \in Peers  BY TwoPeers
  <2>2. /\ done[p] \in Nat /\ done[q] \in Nat /\ a \in Seq(Bodies) /\ b \in Seq(Bodies)
        /\ Len(a) = done[p] /\ done[p] <= Len(b)
        /\ \A k \in 1 .. done[p] : a[k] = b[k]
        /\ Len(b) \in {done[q], done[q] + 1}
    BY <2>1 DEF DuelInv, DuelTyped, SealedInv, TrueMoves
  <2> HIDE DEF a, b, q
  <2>3. SubSeq(a, 1, Len(a)) = SubSeq(b, 1, Len(a))
    <3>1. /\ SubSeq(a, 1, Len(a)) = [k \in 1 .. Len(a) |-> a[k]]
          /\ SubSeq(b, 1, Len(a)) = [k \in 1 .. Len(a) |-> b[k]]
      BY <2>2
    <3>2. QED  BY <2>2, <3>1
  <2>4. IsPrefix(a, b)  BY <2>2, <2>3 DEF IsPrefix
  <2>5. done[p] <= done[q] + 1  BY <2>2
  <2>6. QED  BY <2>2, <2>4, <2>5 DEF a, b, q
<1>2. QED  BY <1>1, DuelInvariant, PTL

-----------------------------------------------------------------------------
(* Nothing is refused while nothing is lost.                               *)

\* How many messages of p the other's router has accepted: two for each exchange
\* p has completed, and those of the exchange it is in.
Delivered(p) ==
  2 * done[p] +
  (IF pc[p] = "poll" \/ (pc[p] = "reveal" /\ call[p] = "ok") THEN 2
   ELSE IF pc[p] = "reveal" \/ (pc[p] = "commit" /\ call[p] = "ok") THEN 1 ELSE 0)

\* The logical key of message number i of a peer, counted from 1.
Key(i) == <<SubAt((i - 1) \div 2), StepAt((i - 1) \div 2),
            IF i % 2 = 1 THEN "commitment" ELSE "reveal">>

\* The cursors are where message number n + 1 needs them.
CursorsAfter(cursor, n) ==
  \A g \in SubGames :
    /\ g = SubAt(n \div 2) =>
         cursor[g] = [step |-> StepAt(n \div 2), phase |-> IF n % 2 = 1 THEN 0 ELSE -1]
    /\ g > SubAt(n \div 2) => cursor[g] = [step |-> 0, phase |-> -1]

\* What the router of p has of the n messages of the other, p being done with
\* the first d exchanges: their keys, the cursors, and, in the order of their
\* arrival, the messages it has not consumed.
RouterHas(r, d, n) ==
  /\ 2 * d <= n
  /\ Len(r.queue) = n - 2 * d
  /\ \A k \in 1 .. Len(r.queue) : LogicalKey(r.queue[k]) = Key(2 * d + k)
  /\ \A x \in r.seen : \E i \in 1 .. n : LogicalKey(x) = Key(i)
  /\ CursorsAfter(r.cursor, n)

PeerOnCourse(p) ==
  /\ pc[p] # "failed" /\ call[p] \in {"none", "sent", "ok"}
  /\ pc[p] \in {"commit", "reveal"} => call[p] # "none"
  /\ done[p] <= Total /\ (pc[p] = "over" <=> done[p] = Total)

Lockstep ==
  \A p \in Peers : PeerOnCourse(p) /\ RouterHas(router[p], done[p], Delivered(Other(p)))

\* The inductive invariant: the peers are in lockstep until the first fault.
LockstepInv == faults = 0 => Lockstep

LEMMA KeyOf ==
  ASSUME NEW n \in Nat
  PROVE  /\ Key(2 * n + 1) = <<SubAt(n), StepAt(n), "commitment">>
         /\ Key(2 * n + 2) = <<SubAt(n), StepAt(n), "reveal">>
<1>1. /\ ((2 * n + 1) - 1) \div 2 = n /\ (2 * n + 1) % 2 = 1
      /\ ((2 * n + 2) - 1) \div 2 = n /\ (2 * n + 2) % 2 = 0
  OBVIOUS
<1>2. QED  BY <1>1 DEF Key

\* No two messages of a peer have the same key.
LEMMA KeyUnique ==
  ASSUME NEW i \in Nat \ {0}, NEW j \in Nat \ {0}, Key(i) = Key(j)
  PROVE  i = j
<1> DEFINE m == (i - 1) \div 2
           n == (j - 1) \div 2
<1>1. m \in Nat /\ n \in Nat  OBVIOUS
<1>2. /\ SubAt(m) = SubAt(n) /\ StepAt(m) = StepAt(n)
      /\ (i % 2 = 1 <=> j % 2 = 1)
  BY DEF Key
<1>3. m = n
  <2> HIDE DEF m, n
  <2>1. QED  BY <1>1, <1>2, ExchangeUnique
<1>4. QED  BY <1>2, <1>3

\* The next message of the other peer is accepted, and the router has it.
LEMMA NextIsAccepted ==
  ASSUME Capacity >= 4, NEW r \in Routers, NEW m \in Wire, NEW d \in Nat, NEW n \in Nat,
         RouterHas(r, d, n), LogicalKey(m) = Key(n + 1),
         n < 2 * Total, n <= 2 * d + 3, NEW machine, machine \notin DeadStates
  PROVE  /\ AckCode(r, machine, m) = "ok"
         /\ RouterHas(RouterAfter(r, m, "ok"), d, n + 1)
<1> DEFINE e == n \div 2
<1>1. e \in Nat /\ (n = 2 * e \/ n = 2 * e + 1)  OBVIOUS
<1>2. e < Total
  <2>1. Total \in Nat  BY StepsPositive DEF Total
  <2>2. QED  BY <1>1, <2>1
<1>3. SubAt(e) \in SubGames  BY <1>1, <1>2, ExchangeInSeries
<1>4. /\ m.sub = SubAt(e) /\ m.step = StepAt(e)
      /\ m.type = IF n = 2 * e THEN "commitment" ELSE "reveal"
  <2>1. CASE n = 2 * e
    <3>1. Key(n + 1) = <<SubAt(e), StepAt(e), "commitment">>  BY <1>1, <2>1, KeyOf
    <3>2. QED  BY <2>1, <3>1 DEF LogicalKey
  <2>2. CASE n = 2 * e + 1
    <3>1. n + 1 = 2 * e + 2 /\ n # 2 * e  BY <1>1, <2>2
    <3>2. Key(n + 1) = <<SubAt(e), StepAt(e), "reveal">>  BY <1>1, <3>1, KeyOf
    <3>3. QED  BY <3>1, <3>2 DEF LogicalKey
  <2>3. QED  BY <1>1, <2>1, <2>2
<1>5. r.cursor[m.sub] = [step |-> StepAt(e), phase |-> IF n = 2 * e THEN -1 ELSE 0]
  <2>1. n % 2 = 1 <=> n # 2 * e  BY <1>1
  <2>2. QED  BY <1>3, <1>4, <2>1 DEF RouterHas, CursorsAfter
<1>6. \A x \in r.seen : LogicalKey(x) # LogicalKey(m)
  <2> SUFFICES ASSUME NEW x \in r.seen, LogicalKey(x) = LogicalKey(m) PROVE FALSE
    OBVIOUS
  <2>1. PICK i \in 1 .. n : LogicalKey(x) = Key(i)  BY DEF RouterHas
  <2>2. i \in Nat \ {0} /\ n + 1 \in Nat \ {0} /\ Key(i) = Key(n + 1)  BY <2>1
  <2>3. i = n + 1  BY <2>2, KeyUnique
  <2>4. QED  BY <2>3
<1>7. AckCode(r, machine, m) = "ok"
  <2>1. m.fault = NoFault /\ m.corr = NoCorrelation  BY DEF Wire
  <2>2. ~IsIdempotentReplay(r, m)  BY <1>6 DEF IsIdempotentReplay
  <2>3. ~IsDuplicateConflict(r, m)  BY <1>6 DEF IsDuplicateConflict
  <2>4. ~CorrelationConflict(r, m)  BY <2>1 DEF CorrelationConflict
  <2>5. InSequence(r, m)  BY <1>4, <1>5 DEF InSequence
  <2>6. ~(Len(r.queue) >= Capacity)
    <3>1. Len(r.queue) = n - 2 * d /\ Capacity \in Nat  BY RouterAssumption DEF RouterHas
    <3>2. QED  BY <3>1
  <2>7. QED  BY <2>1, <2>2, <2>3, <2>4, <2>5, <2>6 DEF AckCode
<1>8. RouterHas(RouterAfter(r, m, "ok"), d, n + 1)
  <2> DEFINE seen == {x \in r.seen : LogicalKey(x) # LogicalKey(m)} \union {m}
             queue == Append(r.queue, m)
             cursor == Advanced(r, m)
             s == RouterAfter(r, m, "ok")
  <2>1. s.seen = seen /\ s.queue = queue /\ s.cursor = cursor
    BY DEF RouterAfter, Enqueued
  <2>2. r.queue \in Seq(Wire) /\ Len(r.queue) = n - 2 * d /\ 2 * d <= n
    BY DEF RouterHas, Routers
  <2> DEFINE len == Len(r.queue)
  <2>20. /\ len \in Nat /\ len = n - 2 * d
         /\ Len(queue) = len + 1 /\ queue[len + 1] = m
         /\ \A k \in 1 .. len : queue[k] = r.queue[k]
    <3>1. r.queue \in Seq(Wire)  BY <2>2
    <3>2. /\ Len(queue) = len + 1 /\ queue[len + 1] = m
          /\ \A k \in 1 .. len : queue[k] = r.queue[k]
      BY <3>1, AppendProperties
    <3>3. len \in Nat  BY <3>1
    <3>4. len = n - 2 * d  BY <2>2
    <3>5. QED  BY <3>2, <3>3, <3>4
  <2> HIDE DEF queue, len
  <2>3. Len(queue) = (n + 1) - 2 * d  BY <2>20
  <2>4. ASSUME NEW k \in 1 .. Len(queue) PROVE LogicalKey(queue[k]) = Key(2 * d + k)
    <3>1. CASE k = len + 1
      <4>1. queue[k] = m /\ 2 * d + k = n + 1  BY <2>20, <3>1
      <4>2. QED  BY <4>1
    <3>2. CASE k \in 1 .. len
      <4>1. queue[k] = r.queue[k]  BY <2>20, <3>2
      <4>2. QED  BY <3>2, <4>1 DEF RouterHas, len
    <3>3. k \in 1 .. len \/ k = len + 1  BY <2>20
    <3>4. QED  BY <3>1, <3>2, <3>3
  <2>5. ASSUME NEW x \in seen PROVE \E i \in 1 .. n + 1 : LogicalKey(x) = Key(i)
    <3>1. CASE x = m
      <4>1. n + 1 \in 1 .. n + 1  OBVIOUS
      <4>2. QED  BY <3>1, <4>1
    <3>2. CASE x \in r.seen
      <4>1. PICK i \in 1 .. n : LogicalKey(x) = Key(i)  BY <3>2 DEF RouterHas
      <4>2. i \in 1 .. n + 1  OBVIOUS
      <4>3. QED  BY <4>1, <4>2
    <3>3. QED  BY <2>5, <3>1, <3>2
  <2>6. CursorsAfter(cursor, n + 1)
    <3>1. /\ r.cursor \in [SubGames -> Cursors]
          /\ \A g \in SubGames : g # SubAt(e) => cursor[g] = r.cursor[g]
      BY <1>4 DEF Routers, Advanced
    <3>2. CASE n = 2 * e
      <4>1. (n + 1) \div 2 = e /\ (n + 1) % 2 = 1  BY <1>1, <3>2
      <4>2. cursor[SubAt(e)] = [step |-> StepAt(e), phase |-> 0]
        BY <1>3, <1>4, <1>5, <3>1, <3>2 DEF Advanced
      <4>3. \A g \in SubGames : g > SubAt(e) => cursor[g] = [step |-> 0, phase |-> -1]
        <5> SUFFICES ASSUME NEW g \in SubGames, g > SubAt(e)
                     PROVE  cursor[g] = [step |-> 0, phase |-> -1]
          OBVIOUS
        <5>1. g # SubAt(e)  BY <1>1, ExchangeTyped
        <5>2. QED  BY <3>1, <5>1 DEF RouterHas, CursorsAfter
      <4>4. QED  BY <4>1, <4>2, <4>3 DEF CursorsAfter
    <3>3. CASE n # 2 * e
      <4>1. (n + 1) \div 2 = e + 1 /\ (n + 1) % 2 = 0  BY <1>1, <3>3
      <4>2. cursor[SubAt(e)] = [step |-> StepAt(e) + 1, phase |-> -1]
        BY <1>3, <1>4, <1>5, <3>1, <3>3 DEF Advanced
      <4>3. \A g \in SubGames : g > SubAt(e) => cursor[g] = [step |-> 0, phase |-> -1]
        <5> SUFFICES ASSUME NEW g \in SubGames, g > SubAt(e)
                     PROVE  cursor[g] = [step |-> 0, phase |-> -1]
          OBVIOUS
        <5>1. g # SubAt(e)  BY <1>1, ExchangeTyped
        <5>2. QED  BY <3>1, <5>1 DEF RouterHas, CursorsAfter
      <4>4. SubAt(e) \in Nat /\ \A g \in SubGames : g \in Int
        <5>1. SubAt(e) \in Nat  BY <1>1, ExchangeTyped
        <5>2. SubGames = 1 .. Cardinality(SubGames)  BY DuelAssumption
        <5>3. QED  BY <5>1, <5>2, StepsPositive
      <4>5. CASE SubAt(e + 1) = SubAt(e) + 1 /\ StepAt(e + 1) = 0
        BY <4>1, <4>3, <4>4, <4>5 DEF CursorsAfter
      <4>6. CASE SubAt(e + 1) = SubAt(e) /\ StepAt(e + 1) = StepAt(e) + 1
        BY <4>1, <4>2, <4>3, <4>6 DEF CursorsAfter
      <4>7. QED  BY <1>1, <4>5, <4>6, NextExchange
    <3>4. QED  BY <3>2, <3>3
  <2> HIDE DEF seen, queue, cursor, s
  <2>7. 2 * d <= n + 1  BY <2>2
  <2>8. RouterHas(s, d, n + 1)  BY <2>1, <2>3, <2>4, <2>5, <2>6, <2>7 DEF RouterHas
  <2>9. QED  BY <2>8 DEF s
<1>9. QED  BY <1>7, <1>8

\* Where the messages of the exchange d are in the inbox: the commitment first,
\* the reveal second, and neither anywhere else.
LEMMA WhereInQueue ==
  ASSUME NEW r \in Routers, NEW d \in Nat, NEW n \in Nat, RouterHas(r, d, n),
         NEW k \in 1 .. Len(r.queue)
  PROVE  /\ IsRevealOf(r.queue[k], SubAt(d), StepAt(d)) => k = 2
         /\ k = 2 => IsRevealOf(r.queue[k], SubAt(d), StepAt(d))
         /\ IsCommitmentOf(r.queue[k], SubAt(d), StepAt(d)) => k = 1
         /\ k = 1 => IsCommitmentOf(r.queue[k], SubAt(d), StepAt(d))
<1> DEFINE m == r.queue[k]
<1>1. k \in Nat \ {0} /\ LogicalKey(m) = Key(2 * d + k)
  <2>1. r.queue \in Seq(Wire)  BY DEF Routers
  <2>2. QED  BY <2>1 DEF RouterHas
<1>2. /\ IsRevealOf(m, SubAt(d), StepAt(d)) <=> Key(2 * d + k) = Key(2 * d + 2)
      /\ IsCommitmentOf(m, SubAt(d), StepAt(d)) <=> Key(2 * d + k) = Key(2 * d + 1)
  <2>1. /\ Key(2 * d + 1) = <<SubAt(d), StepAt(d), "commitment">>
        /\ Key(2 * d + 2) = <<SubAt(d), StepAt(d), "reveal">>
    BY KeyOf
  <2> HIDE DEF m
  <2>2. QED  BY <1>1, <2>1 DEF LogicalKey, IsRevealOf, IsCommitmentOf
<1>3. /\ Key(2 * d + k) = Key(2 * d + 2) => k = 2
      /\ Key(2 * d + k) = Key(2 * d + 1) => k = 1
  <2>1. {2 * d + k, 2 * d + 2, 2 * d + 1} \subseteq Nat \ {0}  BY <1>1
  <2>2. Key(2 * d + k) = Key(2 * d + 2) => 2 * d + k = 2 * d + 2
    BY <2>1, KeyUnique
  <2>3. Key(2 * d + k) = Key(2 * d + 1) => 2 * d + k = 2 * d + 1
    BY <2>1, KeyUnique
  <2>4. QED  BY <1>1, <2>2, <2>3
<1>4. QED  BY <1>2, <1>3

PairFirst(q, g, s) ==
  /\ Len(q) >= 2
  /\ IsCommitmentOf(q[1], g, s) /\ IsRevealOf(q[2], g, s)
  /\ \A k \in 1 .. Len(q) : IsRevealOf(q[k], g, s) => k = 2
  /\ \A k \in 1 .. Len(q) : IsCommitmentOf(q[k], g, s) => k = 1

\* A read takes the two messages of its exchange out of the inbox.
LEMMA ConsumedPair ==
  ASSUME NEW q \in Seq(Wire), NEW g, NEW s, PairFirst(q, g, s)
  PROVE  /\ Consumed(q, g, s) \in Seq(Wire)
         /\ Len(Consumed(q, g, s)) = Len(q) - 2
         /\ \A k \in 1 .. Len(q) - 2 : Consumed(q, g, s)[k] = q[k + 2]
<1> DEFINE b == RemoveAt(q, 2)
           c == RemoveAt(b, 1)
<1>1. Len(q) \in Nat /\ 1 \in 1 .. Len(q) /\ 2 \in 1 .. Len(q)  BY DEF PairFirst
<1>2. /\ b \in Seq(Wire) /\ Len(b) = Len(q) - 1
      /\ \A k \in 1 .. Len(q) - 1 : b[k] = IF k < 2 THEN q[k] ELSE q[k + 1]
  BY <1>1, RemoveAtFacts
<1> HIDE DEF b
<1>3. 1 \in 1 .. Len(b)  BY <1>1, <1>2
<1>4. /\ c \in Seq(Wire) /\ Len(c) = Len(b) - 1
      /\ \A k \in 1 .. Len(b) - 1 : c[k] = IF k < 1 THEN b[k] ELSE b[k + 1]
  BY <1>2, <1>3, RemoveAtFacts
<1> HIDE DEF c
<1>5. Len(c) = Len(q) - 2  BY <1>1, <1>2, <1>4
<1>6. ASSUME NEW k \in 1 .. Len(q) - 2 PROVE c[k] = q[k + 2]
  <2>1. k \in Nat /\ k >= 1 /\ k + 1 \in 1 .. Len(q) - 1 /\ k \in 1 .. Len(b) - 1
    BY <1>1, <1>2
  <2>2. c[k] = b[k + 1]  BY <1>4, <2>1
  <2>3. b[k + 1] = q[(k + 1) + 1]  BY <1>2, <2>1
  <2>4. QED  BY <2>1, <2>2, <2>3
<1>7. Min({2}) = 2 /\ Min({1}) = 1  BY LeastOfOne
<1>8. WithoutFirst(q, Reveals(q, g, s)) = b
  <2>1. Reveals(q, g, s) = {2}  BY <1>1 DEF Reveals, PairFirst
  <2>2. QED  BY <1>7, <2>1 DEF WithoutFirst, b
<1>9. WithoutFirst(b, Commitments(b, g, s)) = c
  <2>1. b[1] = q[1]  BY <1>1, <1>2
  <2>2. ASSUME NEW k \in 1 .. Len(b), IsCommitmentOf(b[k], g, s) PROVE k = 1
    <3> SUFFICES ASSUME ~(k < 2) PROVE FALSE  BY <1>1, <1>2
    <3>1. b[k] = q[k + 1] /\ k + 1 \in 1 .. Len(q) /\ k + 1 # 1  BY <1>1, <1>2
    <3>2. IsCommitmentOf(q[k + 1], g, s)  BY <2>2, <3>1
    <3>3. QED  BY <3>1, <3>2 DEF PairFirst
  <2>3. Commitments(b, g, s) = {1}  BY <1>3, <2>1, <2>2 DEF Commitments, PairFirst
  <2>4. QED  BY <1>7, <2>3 DEF WithoutFirst, c
<1>10. Consumed(q, g, s) = c  BY <1>8, <1>9, ConsumedIs
<1>11. QED  BY <1>4, <1>5, <1>6, <1>10

LEMMA ConsumesTheExchange ==
  ASSUME NEW r \in Routers, NEW d \in Nat, NEW n \in Nat, RouterHas(r, d, n),
         NEW g, NEW s, g = SubAt(d), s = StepAt(d),
         \E k \in 1 .. Len(r.queue) : IsRevealOf(r.queue[k], g, s)
  PROVE  /\ 2 * d + 2 <= n
         /\ RouterHas([r EXCEPT !.queue = Consumed(r.queue, g, s)], d + 1, n)
<1> DEFINE q == r.queue
           c == Consumed(q, g, s)
           t == [r EXCEPT !.queue = c]
<1>1. q \in Seq(Wire) /\ Len(q) \in Nat /\ Len(q) = n - 2 * d  BY DEF Routers, RouterHas
<1>2. \A k \in 1 .. Len(q) :
        /\ IsRevealOf(q[k], g, s) => k = 2
        /\ k = 2 => IsRevealOf(q[k], g, s)
        /\ IsCommitmentOf(q[k], g, s) => k = 1
        /\ k = 1 => IsCommitmentOf(q[k], g, s)
  BY WhereInQueue
<1>3. \A k \in 1 .. Len(q) : LogicalKey(q[k]) = Key(2 * d + k)  BY DEF RouterHas
<1>4. t.queue = c /\ t.seen = r.seen /\ t.cursor = r.cursor  BY DEF Routers
<1>5. PICK k \in 1 .. Len(q) : IsRevealOf(q[k], g, s)  OBVIOUS
<1> HIDE DEF q
<1>6. 1 \in 1 .. Len(q) /\ 2 \in 1 .. Len(q) /\ Len(q) >= 2
  <2>1. k = 2  BY <1>2, <1>5
  <2>2. QED  BY <1>1, <2>1
<1>7. PairFirst(q, g, s)  BY <1>2, <1>6 DEF PairFirst
<1>8. /\ c \in Seq(Wire) /\ Len(c) = Len(q) - 2
      /\ \A j \in 1 .. Len(q) - 2 : c[j] = q[j + 2]
  BY <1>1, <1>7, ConsumedPair
<1> HIDE DEF c
<1>9. 2 * (d + 1) <= n /\ Len(c) = n - 2 * (d + 1) /\ 2 * d + 2 <= n
  BY <1>1, <1>6, <1>8
<1>10. ASSUME NEW j \in 1 .. Len(c) PROVE LogicalKey(c[j]) = Key(2 * (d + 1) + j)
  <2>1. /\ j \in 1 .. Len(q) - 2 /\ j + 2 \in 1 .. Len(q)
        /\ 2 * d + (j + 2) = 2 * (d + 1) + j
    BY <1>1, <1>8
  <2>2. QED  BY <1>3, <1>8, <2>1
<1>11. /\ \A x \in r.seen : \E i \in 1 .. n : LogicalKey(x) = Key(i)
       /\ CursorsAfter(r.cursor, n)
  BY DEF RouterHas
<1> HIDE DEF t
<1>12. RouterHas(t, d + 1, n)  BY <1>4, <1>9, <1>10, <1>11 DEF RouterHas
<1>13. QED  BY <1>9, <1>12 DEF t, c, q

\* Once both messages of an exchange have arrived, the poll finds the reveal.
LEMMA RevealIsThere ==
  ASSUME NEW r \in Routers, NEW d \in Nat, NEW n \in Nat, RouterHas(r, d, n),
         2 * d + 2 <= n
  PROVE  \E m \in ToSet(r.queue) : IsRevealOf(m, SubAt(d), StepAt(d))
<1>1. r.queue \in Seq(Wire) /\ Len(r.queue) = n - 2 * d  BY DEF Routers, RouterHas
<1>2. 2 \in 1 .. Len(r.queue)  BY <1>1
<1>3. IsRevealOf(r.queue[2], SubAt(d), StepAt(d))  BY <1>2, WhereInQueue
<1>4. DOMAIN r.queue = 1 .. Len(r.queue)  BY <1>1
<1>5. r.queue[2] \in ToSet(r.queue)  BY <1>2, <1>4 DEF ToSet
<1>6. QED  BY <1>3, <1>5

-----------------------------------------------------------------------------
LEMMA LockstepInit == DuelInit => Lockstep
<1> SUFFICES ASSUME DuelInit, NEW p \in Peers
             PROVE  PeerOnCourse(p) /\ RouterHas(router[p], done[p], Delivered(Other(p)))
  BY DEF Lockstep
<1>1. Total \in Nat \ {0}  BY StepsPositive DEF Total
<1>2. PeerOnCourse(p)  BY <1>1 DEF DuelInit, PeerOnCourse
<1>3. Delivered(Other(p)) = 0
  <2>1. Other(p) \in Peers  BY TwoPeers
  <2>2. QED  BY <2>1 DEF DuelInit, Delivered
<1>4. done[p] = 0 /\ router[p] = EmptyRouter  BY DEF DuelInit
<1>5. CursorsAfter(EmptyRouter.cursor, 0)
  <2>1. 0 \div 2 = 0 /\ 0 % 2 = 0  OBVIOUS
  <2>2. StepAt(0) = 0
    <3>1. 0 % Steps = 0  BY StepsPositive
    <3>2. QED  BY <3>1 DEF StepAt
  <2>3. QED  BY <2>1, <2>2 DEF EmptyRouter, CursorsAfter
<1>6. RouterHas(EmptyRouter, 0, 0)  BY <1>5 DEF RouterHas, EmptyRouter
<1>7. QED  BY <1>2, <1>3, <1>4, <1>6

\* The numbers of two peers in lockstep.
LEMMA LockstepNumbers ==
  ASSUME DuelTyped, Lockstep, NEW p \in Peers
  PROVE  /\ Total \in Nat /\ done[p] \in Nat /\ Delivered(p) \in Nat
         /\ 2 * done[p] <= Delivered(p) /\ Delivered(p) <= 2 * done[p] + 2
         /\ 2 * done[Other(p)] <= Delivered(p)
         /\ pc[p] # "over" => done[p] < Total
<1>1. Total \in Nat  BY StepsPositive DEF Total
<1>2. done[p] \in Nat  BY DEF DuelTyped
<1>3. Delivered(p) \in {2 * done[p], 2 * done[p] + 1, 2 * done[p] + 2}
  BY <1>2 DEF Delivered
<1>4. 2 * done[Other(p)] <= Delivered(p)
  <2>1. Other(p) \in Peers /\ Other(Other(p)) = p  BY TwoPeers
  <2>2. RouterHas(router[Other(p)], done[Other(p)], Delivered(p))  BY <2>1 DEF Lockstep
  <2>3. QED  BY <2>2 DEF RouterHas
<1>5. pc[p] # "over" => done[p] < Total  BY <1>1, <1>2 DEF Lockstep, PeerOnCourse
<1> DEFINE d == Delivered(p)
<1>6. d \in Nat /\ 2 * done[p] <= d /\ d <= 2 * done[p] + 2
  <2>1. d \in {2 * done[p], 2 * done[p] + 1, 2 * done[p] + 2}  BY <1>3
  <2> HIDE DEF d
  <2>2. QED  BY <1>2, <2>1
<1>7. QED  BY <1>1, <1>2, <1>4, <1>5, <1>6

\* A step of a turn loop that delivers nothing and completes nothing.
LEMMA CourseKept ==
  ASSUME DuelTyped, Lockstep, NEW p \in Peers, PeerOnCourse(p)',
         Delivered(p)' = Delivered(p), done' = done, router' = router,
         \A o \in Peers : o # p => pc'[o] = pc[o] /\ call'[o] = call[o]
  PROVE  Lockstep'
<1> SUFFICES ASSUME NEW o \in Peers
             PROVE  PeerOnCourse(o)' /\ RouterHas(router[o], done[o], Delivered(Other(o))')
  BY DEF Lockstep, RouterHas, CursorsAfter
<1>1. PeerOnCourse(o)'
  <2>1. CASE o = p  BY <2>1
  <2>2. CASE o # p  BY <2>2 DEF Lockstep, PeerOnCourse
  <2>3. QED  BY <2>1, <2>2
<1>2. Delivered(Other(o))' = Delivered(Other(o))
  <2>1. Other(o) \in Peers  BY TwoPeers
  <2>2. CASE Other(o) = p  BY <2>2 DEF Delivered
  <2>3. CASE Other(o) # p  BY <2>1, <2>3 DEF Delivered
  <2>4. QED  BY <2>2, <2>3
<1>3. RouterHas(router[o], done[o], Delivered(Other(o)))  BY DEF Lockstep
<1>4. QED  BY <1>1, <1>2, <1>3

\* The other's router takes the message.
LEMMA HandleKeepsLockstep ==
  ASSUME Capacity >= 4, DuelInv, Lockstep, NEW p \in Peers, Handle(p)
  PROVE  Lockstep'
<1> DEFINE q == Other(p)
           m == Outgoing(p)
           n == Delivered(p)
           d == done[q]
           r == router[q]
<1>1. q \in Peers /\ q # p /\ Other(q) = p /\ (\A o \in Peers : o = p \/ o = q)
  BY TwoPeers
<1>2. DuelTyped /\ r \in Routers  BY <1>1 DEF DuelInv, DuelTyped
<1>3. /\ Total \in Nat /\ done[p] \in Nat /\ d \in Nat /\ n \in Nat
      /\ 2 * done[p] <= Delivered(q) /\ Delivered(q) <= 2 * d + 2 /\ Delivered(q) \in Nat
      /\ 2 * d <= n
      /\ pc[p] # "over" => done[p] < Total
      /\ pc[q] # "over" => d < Total
  BY <1>1, <1>2, LockstepNumbers
<1>4. call[p] = "sent" /\ pc[p] \in {"commit", "reveal"}
  BY DEF Handle, DuelInv, SealedInv
<1>5. m \in Wire /\ m.sub = SubAt(done[p]) /\ m.step = StepAt(done[p])
      /\ m.type = IF pc[p] = "commit" THEN "commitment" ELSE "reveal"
  <2>1. m \in Wire /\ m.sub = SubAt(done[p]) /\ m.step = StepAt(done[p])
    BY <1>4, OutgoingFacts
  <2>2. QED  BY <2>1 DEF Outgoing
<1>6. n = IF pc[p] = "commit" THEN 2 * done[p] ELSE 2 * done[p] + 1
  BY <1>3, <1>4 DEF Delivered
<1>7. LogicalKey(m) = Key(n + 1)
  <2> HIDE DEF m
  <2>1. /\ Key(2 * done[p] + 1) = <<SubAt(done[p]), StepAt(done[p]), "commitment">>
        /\ Key(2 * done[p] + 2) = <<SubAt(done[p]), StepAt(done[p]), "reveal">>
    BY <1>3, KeyOf
  <2>2. CASE pc[p] = "commit"
    <3>1. n + 1 = 2 * done[p] + 1  BY <1>6, <2>2
    <3>2. QED  BY <1>5, <2>1, <2>2, <3>1 DEF LogicalKey
  <2>3. CASE pc[p] # "commit"
    <3>1. n + 1 = 2 * done[p] + 2  BY <1>3, <1>6, <2>3
    <3>2. QED  BY <1>5, <2>1, <2>3, <3>1 DEF LogicalKey
  <2>4. QED  BY <2>2, <2>3
<1>8. n < 2 * Total /\ n <= 2 * d + 3
  <2>1. n <= 2 * done[p] + 1 /\ done[p] < Total  BY <1>3, <1>4, <1>6
  <2> DEFINE other == Delivered(q)
  <2>2. other \in Nat /\ 2 * done[p] <= other /\ other <= 2 * d + 2  BY <1>3
  <2> HIDE DEF n, d, other
  <2>3. QED  BY <1>3, <2>1, <2>2
<1>9. Machine(q) \notin DeadStates
  <2>1. pc[q] # "over"
    <3> SUFFICES ASSUME pc[q] = "over" PROVE FALSE  OBVIOUS
    <3>1. d = Total  BY <1>1 DEF Lockstep, PeerOnCourse
    <3> HIDE DEF n, d
    <3>2. QED  BY <1>3, <1>8, <3>1
  <2>2. pc[q] # "failed"  BY <1>1 DEF Lockstep, PeerOnCourse
  <2>3. QED  BY <2>1, <2>2 DEF Machine, DeadStates
<1>10. RouterHas(r, d, n)  BY <1>1 DEF Lockstep
<1> DEFINE code == AckCode(r, Machine(q), m)
<1>11. code = "ok" /\ RouterHas(RouterAfter(r, m, "ok"), d, n + 1)
  <2> HIDE DEF r, d, n, m, q
  <2>1. QED  BY <1>2, <1>3, <1>5, <1>7, <1>8, <1>9, <1>10, NextIsAccepted
<1>12. /\ call' = [call EXCEPT ![p] = code]
       /\ router' = [router EXCEPT ![q] = RouterAfter(r, m, code)]
       /\ done' = done /\ pc' = pc
  BY DEF Handle
<1> HIDE DEF code, m
<1>13. /\ call'[p] = "ok" /\ call'[q] = call[q]
       /\ router'[q] = RouterAfter(r, m, "ok") /\ router'[p] = router[p]
  BY <1>1, <1>2, <1>11, <1>12 DEF DuelTyped
<1>14. Delivered(p)' = n + 1
  <2>1. CASE pc[p] = "commit"
    <3>1. Delivered(p)' = 2 * done[p] + 1  BY <1>12, <1>13, <2>1 DEF Delivered
    <3>2. QED  BY <1>6, <2>1, <3>1
  <2>2. CASE pc[p] = "reveal"
    <3>1. Delivered(p)' = 2 * done[p] + 2  BY <1>12, <1>13, <2>2 DEF Delivered
    <3>2. n = 2 * done[p] + 1  BY <1>6, <2>2
    <3> HIDE DEF n
    <3>3. n + 1 = 2 * done[p] + 2  BY <1>3, <3>2
    <3>4. QED  BY <3>1, <3>3
  <2>3. QED  BY <1>4, <2>1, <2>2
<1>15. Delivered(q)' = Delivered(q)  BY <1>12, <1>13 DEF Delivered
<1>16. PeerOnCourse(p)' /\ PeerOnCourse(q)'
  BY <1>1, <1>12, <1>13 DEF Lockstep, PeerOnCourse
<1>17. RouterHas(router'[p], done'[p], Delivered(Other(p))')
  <2>1. RouterHas(router[p], done[p], Delivered(q))  BY DEF Lockstep
  <2>2. Delivered(Other(p))' = Delivered(q)  BY <1>15
  <2>3. QED  BY <1>12, <1>13, <2>1, <2>2
<1>18. RouterHas(router'[q], done'[q], Delivered(Other(q))')
  <2>1. Delivered(Other(q))' = n + 1  BY <1>1, <1>14 DEF Delivered
  <2>2. done'[q] = d  BY <1>12
  <2> HIDE DEF n, d, r, q
  <2>3. QED  BY <1>11, <1>13, <2>1, <2>2
<1>19. ASSUME NEW o \in Peers
       PROVE  PeerOnCourse(o)' /\ RouterHas(router'[o], done'[o], Delivered(Other(o))')
  <2>1. CASE o = p  BY <1>16, <1>17, <2>1
  <2>2. CASE o = q  BY <1>16, <1>18, <2>2
  <2>3. QED  BY <1>1, <2>1, <2>2
<1>20. QED  BY <1>19 DEF Lockstep, RouterHas, CursorsAfter

\* The poll finds the reveal, and the turn is complete.
LEMMA PollKeepsLockstep ==
  ASSUME DuelInv, Lockstep, NEW p \in Peers, PollFinds(p)
  PROVE  Lockstep'
<1> DEFINE q == Other(p)
           n == Delivered(q)
           d == done[p]
           r == router[p]
<1>1. q \in Peers /\ q # p /\ Other(q) = p /\ (\A o \in Peers : o = p \/ o = q)
  BY TwoPeers
<1>2. DuelTyped /\ r \in Routers /\ r.queue \in Seq(Wire)
  BY <1>1 DEF DuelInv, DuelTyped, Routers
<1>3. d \in Nat /\ n \in Nat /\ Total \in Nat /\ (pc[p] # "over" => d < Total)
  BY <1>1, <1>2, LockstepNumbers
<1>4. PICK m \in Awaited(p) :
        router' = [router EXCEPT ![p].queue = Consumed(r.queue, m.sub, m.step)]
  BY DEF PollFinds
<1>5. /\ m.sub = SubAt(d) /\ m.step = StepAt(d)
      /\ \E k \in 1 .. Len(r.queue) : IsRevealOf(r.queue[k], SubAt(d), StepAt(d))
  <2>1. m \in ToSet(r.queue) /\ IsRevealOf(m, SubAt(d), StepAt(d))
    BY <1>4 DEF Awaited, SubGameOf, StepOf, SubAt, StepAt
  <2>2. DOMAIN r.queue = 1 .. Len(r.queue)  BY <1>2
  <2>3. PICK k \in 1 .. Len(r.queue) : m = r.queue[k]  BY <2>1, <2>2 DEF ToSet
  <2>4. QED  BY <2>1, <2>3 DEF IsRevealOf
<1>6. RouterHas(r, d, n)  BY DEF Lockstep
<1> DEFINE c == Consumed(r.queue, m.sub, m.step)
<1>7. 2 * d + 2 <= n /\ RouterHas([r EXCEPT !.queue = c], d + 1, n)
  <2> HIDE DEF r, d, n
  <2>1. QED  BY <1>2, <1>3, <1>5, <1>6, ConsumesTheExchange
<1> HIDE DEF c
<1>8. /\ pc[p] = "poll" /\ done' = [done EXCEPT ![p] = d + 1]
      /\ pc' = [pc EXCEPT ![p] = IF done'[p] = Total THEN "over" ELSE "turn"]
      /\ call' = call
  BY DEF PollFinds
<1>9. /\ router'[p] = [r EXCEPT !.queue = c] /\ router'[q] = router[q]
      /\ done'[p] = d + 1 /\ done'[q] = done[q] /\ pc'[q] = pc[q]
      /\ pc'[p] = IF d + 1 = Total THEN "over" ELSE "turn"
  BY <1>1, <1>2, <1>4, <1>8 DEF DuelTyped, c
<1>10. Delivered(q)' = n  BY <1>8, <1>9 DEF Delivered
<1>11. Delivered(p)' = Delivered(p)
  <2>1. Delivered(p) = 2 * d + 2  BY <1>8 DEF Delivered
  <2>2. Delivered(p)' = 2 * (d + 1) + 0  BY <1>9 DEF Delivered
  <2>3. QED  BY <1>3, <2>1, <2>2
<1>12. PeerOnCourse(p)'
  <2>1. d + 1 <= Total  BY <1>3, <1>8
  <2>2. call'[p] \in {"none", "sent", "ok"}  BY <1>8 DEF Lockstep, PeerOnCourse
  <2> HIDE DEF d
  <2>3. QED  BY <1>9, <2>1, <2>2 DEF PeerOnCourse
<1>13. PeerOnCourse(q)'  BY <1>1, <1>8, <1>9 DEF Lockstep, PeerOnCourse
<1>14. RouterHas(router'[p], done'[p], Delivered(Other(p))')
  <2>1. Delivered(Other(p))' = n  BY <1>10
  <2> HIDE DEF n, d, r
  <2>2. QED  BY <1>7, <1>9, <2>1
<1>15. RouterHas(router'[q], done'[q], Delivered(Other(q))')
  <2>1. RouterHas(router[q], done[q], Delivered(p))  BY <1>1 DEF Lockstep
  <2>2. Delivered(Other(q))' = Delivered(p)  BY <1>1, <1>11 DEF Delivered
  <2>3. QED  BY <1>9, <2>1, <2>2
<1>16. ASSUME NEW o \in Peers
       PROVE  PeerOnCourse(o)' /\ RouterHas(router'[o], done'[o], Delivered(Other(o))')
  <2>1. CASE o = p  BY <1>12, <1>14, <2>1
  <2>2. CASE o = q  BY <1>13, <1>15, <2>2
  <2>3. QED  BY <1>1, <2>1, <2>2
<1>17. QED  BY <1>16 DEF Lockstep, RouterHas, CursorsAfter

\* A peer that waits for the reveal of the other does not give up: if the other
\* is over, the reveal has arrived.
LEMMA NobodyGivesUp ==
  ASSUME DuelInv, Lockstep, NEW p \in Peers
  PROVE  ~PollGivesUp(p)
<1> SUFFICES ASSUME PollGivesUp(p) PROVE FALSE  OBVIOUS
<1> DEFINE q == Other(p)
           n == Delivered(q)
           d == done[p]
<1>1. q \in Peers  BY TwoPeers
<1>2. DuelTyped /\ router[p] \in Routers  BY DEF DuelInv, DuelTyped
<1>3. pc[p] = "poll" /\ pc[q] = "over" /\ done[q] = Total /\ Awaited(p) = {}
  BY <1>1 DEF PollGivesUp, Ended, Lockstep, PeerOnCourse
<1>4. n = 2 * Total
  <2>1. Total \in Nat  BY <1>1, <1>2, LockstepNumbers
  <2>2. n = 2 * Total + 0  BY <1>3 DEF Delivered
  <2>3. QED  BY <2>1, <2>2
<1>5. d \in Nat /\ n \in Nat /\ Total \in Nat /\ d < Total
  BY <1>1, <1>2, <1>3, LockstepNumbers
<1>6. RouterHas(router[p], d, n)  BY DEF Lockstep
<1>7. \E m \in ToSet(router[p].queue) : IsRevealOf(m, SubAt(d), StepAt(d))
  <2> HIDE DEF d, n
  <2>1. 2 * d + 2 <= n  BY <1>4, <1>5
  <2>2. QED  BY <1>2, <1>5, <1>6, <2>1, RevealIsThere
<1>8. Awaited(p) # {}  BY <1>7 DEF Awaited, SubGameOf, StepOf, SubAt, StepAt
<1>9. QED  BY <1>3, <1>8

LEMMA LockstepStep ==
  ASSUME Capacity >= 4, DuelInv, LockstepInv, [DuelNext]_duelVars
  PROVE  LockstepInv'
<1> SUFFICES ASSUME faults' = 0 PROVE Lockstep'  BY DEF LockstepInv
<1>1. DuelTyped /\ faults \in Nat  BY DEF DuelInv, DuelTyped
<1>2. CASE UNCHANGED duelVars
  <2>1. Lockstep  BY <1>2 DEF duelVars, LockstepInv
  <2>2. QED
    BY <1>2, <2>1 DEF duelVars, Lockstep, PeerOnCourse, Delivered, RouterHas, CursorsAfter
<1>3. ASSUME NEW p \in Peers, CallLost(p) \/ PollTooShort(p) PROVE FALSE
  BY <1>1, <1>3 DEF CallLost, PollTooShort
<1>4. ASSUME NEW p \in Peers, PeerStep(p) PROVE Lockstep'
  <2>1. Lockstep
    BY <1>4 DEF LockstepInv, PeerStep, SealTurn, Handle, CommitAccepted, RevealAccepted,
                Rejected, PollFinds, PollGivesUp
  <2>2. PeerOnCourse(p) /\ done[p] \in Nat /\ (pc[p] # "over" => done[p] < Total)
        /\ Total \in Nat
    BY <1>1, <2>1, LockstepNumbers DEF Lockstep
  <2>3. CASE SealTurn(p)
    <3>1. /\ pc[p] = "turn" /\ pc'[p] = "commit" /\ call'[p] = "sent"
          /\ done' = done /\ router' = router
          /\ \A o \in Peers : o # p => pc'[o] = pc[o] /\ call'[o] = call[o]
      BY <1>1, <2>3 DEF SealTurn, DuelTyped
    <3>2. Delivered(p)' = Delivered(p)  BY <3>1 DEF Delivered
    <3>3. PeerOnCourse(p)'  BY <2>2, <3>1 DEF PeerOnCourse
    <3>4. QED  BY <1>1, <2>1, <3>1, <3>2, <3>3, CourseKept
  <2>4. CASE CommitAccepted(p)
    <3>1. /\ pc[p] = "commit" /\ pc'[p] = "reveal" /\ call[p] = "ok" /\ call'[p] = "sent"
          /\ done' = done /\ router' = router
          /\ \A o \in Peers : o # p => pc'[o] = pc[o] /\ call'[o] = call[o]
      BY <1>1, <2>2, <2>4 DEF CommitAccepted, DuelTyped, PeerOnCourse, Accepting
    <3>2. Delivered(p)' = Delivered(p)  BY <3>1 DEF Delivered
    <3>3. PeerOnCourse(p)'  BY <2>2, <3>1 DEF PeerOnCourse
    <3>4. QED  BY <1>1, <2>1, <3>1, <3>2, <3>3, CourseKept
  <2>5. CASE RevealAccepted(p)
    <3>1. /\ pc[p] = "reveal" /\ pc'[p] = "poll" /\ call[p] = "ok" /\ call'[p] = "none"
          /\ done' = done /\ router' = router
          /\ \A o \in Peers : o # p => pc'[o] = pc[o] /\ call'[o] = call[o]
      BY <1>1, <2>2, <2>5 DEF RevealAccepted, DuelTyped, PeerOnCourse, Accepting
    <3>2. Delivered(p)' = Delivered(p)  BY <3>1 DEF Delivered
    <3>3. PeerOnCourse(p)'  BY <2>2, <3>1 DEF PeerOnCourse
    <3>4. QED  BY <1>1, <2>1, <3>1, <3>2, <3>3, CourseKept
  <2>6. ~Rejected(p)  BY <2>2 DEF Rejected, PeerOnCourse, Accepting
  <2>7. QED
    BY <1>4, <2>1, <2>3, <2>4, <2>5, <2>6, HandleKeepsLockstep, PollKeepsLockstep,
       NobodyGivesUp DEF PeerStep
<1>5. QED  BY <1>2, <1>3, <1>4 DEF DuelNext, BothEnded

\* With an inbox for four messages (the code's holds a hundred), a router refuses
\* nothing of a peer that plays against it, and neither fails, until a call is
\* lost or a poll gives up too early: the phases, the keys, the cursors and the
\* bounded queue of the receiver never stand in the way of an honest sender,
\* however the two interleave.
THEOREM DuelNothingRefused ==
  ASSUME Capacity >= 4
  PROVE  DuelSpec => []NothingRefused
<1>1. DuelInit => LockstepInv  BY LockstepInit DEF LockstepInv
<1>2. DuelInv /\ LockstepInv /\ [DuelNext]_duelVars => LockstepInv'  BY LockstepStep
<1>3. LockstepInv => NothingRefused
  BY DEF LockstepInv, Lockstep, PeerOnCourse, NothingRefused
<1>4. QED  BY <1>1, <1>2, <1>3, DuelInvariant, PTL DEF DuelSpec
=============================================================================
