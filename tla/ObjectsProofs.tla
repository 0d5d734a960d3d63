--------------------------- MODULE ObjectsProofs ---------------------------
(***************************************************************************)
(* Objects for any voxels, classes, proposals, thresholds and any number   *)
(* of frames: the owner index matches the components, a component holds    *)
(* proposals of one class, its support and votes are those of the          *)
(* proposals that joined it, compacting the edge store loses no affinity,  *)
(* the list the next frames read is exact and a partition, and the cleanup *)
(* leaves no small component beside another.                               *)
(***************************************************************************)
EXTENDS Objects, NatLemmas, FiniteSetTheorems

\* The components: arrays of one length, root a flat forest.
CompType ==
  /\ root \in Seq(Nat) /\ \A i \in Ids : root[i] \in Roots
  /\ vox \in Seq(SUBSET Points) /\ Len(vox) = Len(root)
  /\ cls \in Seq([Classes -> Nat]) /\ Len(cls) = Len(root)
  /\ support \in Seq(Nat) /\ Len(support) = Len(root)

\* What refers to components refers to existing ones.
IndexType ==
  /\ owners \in [Points -> SUBSET Ids]
  /\ \A k \in DOMAIN edges : k \subseteq Ids
  /\ touched \in Seq(Ids \X Ids)
  /\ observed \in Seq([home : Ids, class : Classes, size : Nat])

\* The join in progress is of two kinds of roots, the home and the components still to
\* unite with it.
FlowType ==
  /\ step \in {"idle", "fold", "join", "merge", "snapshot", "sweep", "done"}
  /\ todo \in Seq(Proposals)
  /\ step = "join" => /\ todo # <<>> /\ home \in Roots
                      /\ bridge \subseteq Roots \ {home}
  /\ step # "join" => bridge = {}
  /\ changed \in BOOLEAN /\ merged \in BOOLEAN /\ progress \in BOOLEAN
  /\ step = "sweep" => /\ DOMAIN best \subseteq Ids
                       /\ \A a \in DOMAIN best : best[a] \in Ids
  /\ step = "sweep" => next \in Nat \ {0}

\* Every variable in its range.
TypeInv ==
  /\ gc \in BOOLEAN /\ ov \in BOOLEAN
  /\ live \subseteq Points
  /\ CompType /\ IndexType /\ FlowType

LEMMA CompFacts ==
  ASSUME TypeInv
  PROVE  /\ Len(root) \in Nat /\ Ids = 1 .. Len(root) /\ Roots \subseteq Ids
         /\ DOMAIN root = Ids /\ DOMAIN vox = Ids /\ DOMAIN cls = Ids /\ DOMAIN support = Ids
         /\ \A i \in Ids : /\ i \in Nat /\ root[i] \in Roots /\ root[i] \in Ids
                           /\ vox[i] \subseteq Points
                           /\ cls[i] \in [Classes -> Nat] /\ support[i] \in Nat
         /\ \A r \in Roots : r \in Ids /\ root[r] = r
<1>1. /\ root \in Seq(Nat) /\ vox \in Seq(SUBSET Points) /\ cls \in Seq([Classes -> Nat])
      /\ support \in Seq(Nat)
      /\ Len(vox) = Len(root) /\ Len(cls) = Len(root) /\ Len(support) = Len(root)
  BY DEF TypeInv, CompType
<1>2. Len(root) \in Nat /\ DOMAIN root = Ids /\ Ids = 1 .. Len(root)
  BY <1>1, SeqElements DEF Ids
<1>3. DOMAIN vox = Ids /\ \A i \in Ids : vox[i] \in SUBSET Points
  BY <1>1, <1>2, SeqElements
<1>4. DOMAIN cls = Ids /\ \A i \in Ids : cls[i] \in [Classes -> Nat]
  BY <1>1, <1>2, SeqElements
<1>5. DOMAIN support = Ids /\ \A i \in Ids : support[i] \in Nat
  BY <1>1, <1>2, SeqElements
<1>6. Roots \subseteq Ids /\ \A r \in Roots : r \in Ids /\ root[r] = r
  BY DEF Roots
<1>7. \A i \in Ids : root[i] \in Roots
  BY DEF TypeInv, CompType
<1>8. \A i \in Ids : i \in Nat /\ root[i] \in Ids
  <2>1. Len(root) \in Nat /\ Ids = 1 .. Len(root)
    BY <1>2
  <2>2. \A i \in Ids : i \in Nat
    BY <2>1
  <2>3. QED
    BY <1>6, <1>7, <2>2
<1>9. QED
  BY <1>2, <1>3, <1>4, <1>5, <1>6, <1>7, <1>8

\* What uniting the roots a and b does, w being the one that stays and l the other.
United(w, l) ==
  /\ w \in Roots /\ l \in Roots /\ w # l
  /\ root' \in Seq(Nat) /\ Len(root') = Len(root) /\ Ids' = Ids
  /\ \A i \in Ids : root'[i] = IF root[i] = l THEN w ELSE root[i]
  /\ Roots' = Roots \ {l} /\ \A i \in Ids : root'[i] \in Roots'
  /\ vox' \in Seq(SUBSET Points) /\ Len(vox') = Len(root)
  /\ \A i \in Ids : vox'[i] = IF i = w THEN vox[w] \union vox[l]
                              ELSE IF i = l THEN {} ELSE vox[i]
  /\ cls' \in Seq([Classes -> Nat]) /\ Len(cls') = Len(root)
  /\ \A i \in Ids, c \in Classes :
       cls'[i][c] = IF i = w THEN cls[w][c] + cls[l][c]
                    ELSE IF i = l THEN 0 ELSE cls[i][c]
  /\ support' \in Seq(Nat) /\ Len(support') = Len(root)
  /\ \A i \in Ids : support'[i] = IF i = w THEN support[w] + support[l]
                                  ELSE IF i = l THEN 0 ELSE support[i]

\* A function over 1 .. n is a sequence of length n.
LEMMA FunctionIsSeq ==
  ASSUME NEW S, NEW n \in Nat, NEW f \in [1 .. n -> S]
  PROVE  f \in Seq(S) /\ Len(f) = n
OBVIOUS

LEMMA UniteFacts ==
  ASSUME TypeInv, NEW a \in Roots, NEW b \in Roots, a # b, Unite(a, b)
  PROVE  /\ United(Winner(a, b), Loser(a, b))
         /\ {Winner(a, b), Loser(a, b)} = {a, b}
<1> DEFINE w == Winner(a, b)
           l == Loser(a, b)
<1>1. w \in Roots /\ l \in Roots /\ w # l /\ {w, l} = {a, b}
  BY DEF Winner, Loser
<1>2. /\ Len(root) \in Nat /\ Ids = 1 .. Len(root) /\ w \in Ids /\ l \in Ids
      /\ root[w] = w /\ root[l] = l
      /\ \A i \in Ids : i \in Nat /\ root[i] \in Roots /\ root[i] \in Ids
  BY <1>1, CompFacts
<1>3. /\ root' = [i \in Ids |-> IF root[i] = l THEN w ELSE root[i]]
      /\ vox' = [vox EXCEPT ![w] = @ \union vox[l], ![l] = {}]
      /\ cls' = [cls EXCEPT ![w] = [c \in Classes |-> @[c] + cls[l][c]],
                            ![l] = [c \in Classes |-> 0]]
      /\ support' = [support EXCEPT ![w] = @ + support[l], ![l] = 0]
  BY DEF Unite
<1> HIDE DEF w, l
<1>4. /\ root' \in Seq(Nat) /\ Len(root') = Len(root) /\ Ids' = Ids
      /\ \A i \in Ids : root'[i] = IF root[i] = l THEN w ELSE root[i]
  <2>1. root' \in [1 .. Len(root) -> Nat]
    <3>1. \A i \in Ids : (IF root[i] = l THEN w ELSE root[i]) \in Nat
      BY <1>2
    <3>2. QED
      BY <1>2, <1>3, <3>1
  <2>2. root' \in Seq(Nat) /\ Len(root') = Len(root)
    <3>1. Len(root) \in Nat
      BY <1>2
    <3>2. QED
      BY <2>1, <3>1, FunctionIsSeq
  <2>3. QED
    BY <1>3, <2>2 DEF Ids
<1>5. Roots' = Roots \ {l} /\ \A i \in Ids : root'[i] \in Roots'
  <2>1. ASSUME NEW i \in Ids PROVE i \in Roots' <=> i \in Roots \ {l}
    <3>1. i \in Roots' <=> root'[i] = i
      BY <1>4 DEF Roots
    <3>2. i \in Roots <=> root[i] = i
      BY DEF Roots
    <3>3. CASE root[i] = l
      BY <1>1, <1>2, <1>4, <3>1, <3>2, <3>3
    <3>4. CASE root[i] # l
      BY <1>2, <1>4, <3>1, <3>2, <3>4
    <3>5. QED
      BY <3>3, <3>4
  <2>2. Roots' = Roots \ {l}
    BY <1>4, <2>1 DEF Roots
  <2>3. QED
    BY <1>1, <1>2, <1>4, <2>2
<1>6. /\ vox' \in Seq(SUBSET Points) /\ Len(vox') = Len(root)
      /\ \A i \in Ids : vox'[i] = IF i = w THEN vox[w] \union vox[l]
                                  ELSE IF i = l THEN {} ELSE vox[i]
  <2>1. DOMAIN vox = Ids /\ \A i \in Ids : vox[i] \subseteq Points
    BY CompFacts
  <2>2. vox' \in [1 .. Len(root) -> SUBSET Points]
    <3>1. DOMAIN vox' = Ids
      BY <1>3, <2>1
    <3>2. QED
      BY <1>1, <1>2, <1>3, <2>1, <3>1
  <2>3. vox' \in Seq(SUBSET Points) /\ Len(vox') = Len(root)
    <3>1. Len(root) \in Nat
      BY <1>2
    <3>2. QED
      BY <2>2, <3>1, FunctionIsSeq
  <2>4. QED
    BY <1>1, <1>2, <1>3, <2>1, <2>3
<1>7. /\ cls' \in Seq([Classes -> Nat]) /\ Len(cls') = Len(root)
      /\ \A i \in Ids, c \in Classes :
           cls'[i][c] = IF i = w THEN cls[w][c] + cls[l][c]
                        ELSE IF i = l THEN 0 ELSE cls[i][c]
  <2>1. DOMAIN cls = Ids /\ \A i \in Ids : cls[i] \in [Classes -> Nat]
    BY CompFacts
  <2>2. DOMAIN cls' = Ids
    BY <1>3, <2>1
  <2>3. /\ cls'[w] = [c \in Classes |-> cls[w][c] + cls[l][c]]
        /\ cls'[l] = [c \in Classes |-> 0]
        /\ \A i \in Ids \ {w, l} : cls'[i] = cls[i]
    BY <1>1, <1>2, <1>3, <2>1
  <2>4. \A i \in Ids : cls'[i] \in [Classes -> Nat]
    <3>1. cls'[w] \in [Classes -> Nat]
      BY <1>2, <2>1, <2>3
    <3>2. cls'[l] \in [Classes -> Nat]
      BY <2>3
    <3>3. QED
      BY <2>1, <2>3, <3>1, <3>2
  <2>5. cls' \in Seq([Classes -> Nat]) /\ Len(cls') = Len(root)
    <3>1. cls' = [i \in Ids |-> cls'[i]]
      BY <1>3, <2>1, <2>2
    <3>2. cls' \in [1 .. Len(root) -> [Classes -> Nat]]
      BY <1>2, <2>4, <3>1
    <3>3. Len(root) \in Nat
      BY <1>2
    <3>4. QED
      BY <3>2, <3>3, FunctionIsSeq
  <2>6. QED
    BY <2>3, <2>5
<1>8. /\ support' \in Seq(Nat) /\ Len(support') = Len(root)
      /\ \A i \in Ids : support'[i] = IF i = w THEN support[w] + support[l]
                                      ELSE IF i = l THEN 0 ELSE support[i]
  <2>1. DOMAIN support = Ids /\ \A i \in Ids : support[i] \in Nat
    BY CompFacts
  <2>2. support' \in [1 .. Len(root) -> Nat]
    <3>1. DOMAIN support' = Ids
      BY <1>3, <2>1
    <3>2. QED
      BY <1>1, <1>2, <1>3, <2>1, <3>1
  <2>3. support' \in Seq(Nat) /\ Len(support') = Len(root)
    <3>1. Len(root) \in Nat
      BY <1>2
    <3>2. QED
      BY <2>2, <3>1, FunctionIsSeq
  <2>4. support' = [[support EXCEPT ![w] = @ + support[l]] EXCEPT ![l] = 0]
    BY <1>3
  <2>5. \A i \in Ids : support'[i] = IF i = w THEN support[w] + support[l]
                                     ELSE IF i = l THEN 0 ELSE support[i]
    BY <1>1, <1>2, <2>1, <2>4
  <2>6. QED
    BY <2>3, <2>5
<1>9. QED
  BY <1>1, <1>4, <1>5, <1>6, <1>7, <1>8 DEF United, w, l
LEMMA NewCompFacts ==
  ASSUME TypeInv, NewComp, NEW n, n = Len(root) + 1
  PROVE  /\ n \in Nat /\ n \notin Ids /\ Ids' = Ids \union {n} /\ Roots' = Roots \union {n}
         /\ Len(root') = n /\ Len(vox') = n /\ Len(cls') = n /\ Len(support') = n
         /\ root' \in Seq(Nat) /\ root'[n] = n /\ \A i \in Ids : root'[i] = root[i]
         /\ vox' \in Seq(SUBSET Points) /\ vox'[n] = {} /\ \A i \in Ids : vox'[i] = vox[i]
         /\ cls' \in Seq([Classes -> Nat]) /\ \A c \in Classes : cls'[n][c] = 0
         /\ \A i \in Ids : cls'[i] = cls[i]
         /\ support' \in Seq(Nat) /\ support'[n] = 0 /\ \A i \in Ids : support'[i] = support[i]
<1>1. /\ root \in Seq(Nat) /\ vox \in Seq(SUBSET Points) /\ cls \in Seq([Classes -> Nat])
      /\ support \in Seq(Nat) /\ Len(root) \in Nat
      /\ Len(vox) = Len(root) /\ Len(cls) = Len(root) /\ Len(support) = Len(root)
  BY CompFacts DEF TypeInv, CompType
<1>2. /\ root' = Append(root, n) /\ vox' = Append(vox, {})
      /\ cls' = Append(cls, [c \in Classes |-> 0]) /\ support' = Append(support, 0)
  BY DEF NewComp
<1>3. n \in Nat /\ n \notin Ids /\ Ids = 1 .. Len(root)
  BY <1>1 DEF Ids
<1>4. /\ root' \in Seq(Nat) /\ Len(root') = n /\ root'[n] = n
      /\ \A i \in 1 .. Len(root) : root'[i] = root[i]
  BY <1>1, <1>2, <1>3
<1>5. Ids' = Ids \union {n}
  BY <1>1, <1>3, <1>4 DEF Ids
<1>6. Roots' = Roots \union {n}
  <2>1. \A i \in Ids' : i \in Roots' <=> root'[i] = i
    BY DEF Roots
  <2>2. \A i \in Ids : i \in Roots <=> root[i] = i
    BY DEF Roots
  <2>3. Roots \subseteq Ids /\ Roots' \subseteq Ids'
    BY DEF Roots
  <2>4. QED
    BY <1>3, <1>4, <1>5, <2>1, <2>2, <2>3
<1>7. /\ vox' \in Seq(SUBSET Points) /\ Len(vox') = n /\ vox'[n] = {}
      /\ \A i \in 1 .. Len(root) : vox'[i] = vox[i]
  BY <1>1, <1>2, <1>3
<1>8. /\ cls' \in Seq([Classes -> Nat]) /\ Len(cls') = n
      /\ cls'[n] = [c \in Classes |-> 0]
      /\ \A i \in 1 .. Len(root) : cls'[i] = cls[i]
  <2>1. [c \in Classes |-> 0] \in [Classes -> Nat]
    OBVIOUS
  <2>2. QED
    BY <1>1, <1>2, <1>3, <2>1
<1>9. /\ support' \in Seq(Nat) /\ Len(support') = n /\ support'[n] = 0
      /\ \A i \in 1 .. Len(root) : support'[i] = support[i]
  BY <1>1, <1>2, <1>3
<1>10. QED
  BY <1>3, <1>4, <1>5, <1>6, <1>7, <1>8, <1>9

LEMMA NewCompType ==
  ASSUME TypeInv, NewComp
  PROVE  CompType'
<1>1. PICK n : n = Len(root) + 1
  OBVIOUS
<1>2. \A i \in Ids' : root'[i] \in Roots'
  BY <1>1, NewCompFacts, CompFacts
<1>3. QED
  BY <1>1, <1>2, NewCompFacts DEF CompType

LEMMA UniteType ==
  ASSUME NEW w, NEW l, United(w, l)
  PROVE  CompType'
BY DEF United, CompType

LEMMA CompsKept ==
  ASSUME CompType, UNCHANGED comps
  PROVE  CompType' /\ Ids' = Ids /\ Roots' = Roots
<1>1. root' = root /\ vox' = vox /\ cls' = cls /\ support' = support
  BY DEF comps
<1>2. Ids' = Ids
  BY <1>1 DEF Ids
<1>3. Roots' = Roots
  BY <1>1, <1>2 DEF Roots
<1>4. QED
  BY <1>1, <1>2, <1>3 DEF CompType

LEMMA SeqWidens ==
  ASSUME NEW S, NEW T, S \subseteq T, NEW s \in Seq(S)
  PROVE  s \in Seq(T)
OBVIOUS

\* References stay valid while the components only become more.
LEMMA IndexKept ==
  ASSUME IndexType, Ids \subseteq Ids',
         owners' = owners, observed' = observed
  PROVE  /\ owners' \in [Points -> SUBSET Ids']
         /\ edges' = edges => \A k \in DOMAIN edges' : k \subseteq Ids'
         /\ touched' = touched => touched' \in Seq(Ids' \X Ids')
         /\ observed' \in Seq([home : Ids', class : Classes, size : Nat])
<1>1. owners' \in [Points -> SUBSET Ids']
  BY DEF IndexType
<1>2. touched \in Seq(Ids' \X Ids')
  <2>1. Ids \X Ids \subseteq Ids' \X Ids'
    OBVIOUS
  <2>2. touched \in Seq(Ids \X Ids)
    BY DEF IndexType
  <2>3. QED
    BY <2>1, <2>2, SeqWidens
<1>3. observed' \in Seq([home : Ids', class : Classes, size : Nat])
  <2>1. [home : Ids, class : Classes, size : Nat] \subseteq [home : Ids', class : Classes, size : Nat]
    OBVIOUS
  <2>2. observed \in Seq([home : Ids, class : Classes, size : Nat])
    BY DEF IndexType
  <2>3. observed \in Seq([home : Ids', class : Classes, size : Nat])
    BY <2>1, <2>2, SeqWidens
  <2>4. QED
    BY <2>3
<1>4. QED
  BY <1>1, <1>2, <1>3 DEF IndexType

\* The proposal being folded in.
LEMMA ProposalFacts ==
  ASSUME TypeInv, todo # <<>>
  PROVE  /\ P \in Proposals /\ P.pts \subseteq Points /\ P.pts # {} /\ P.class \in Classes
         /\ IsFiniteSet(P.pts) /\ Cardinality(P.pts) \in Nat \ {0}
         /\ Tail(todo) \in Seq(Proposals)
<1>1. todo \in Seq(Proposals)
  BY DEF TypeInv, FlowType
<1>2. P \in Proposals /\ Tail(todo) \in Seq(Proposals)
  BY <1>1 DEF P
<1>3. P \in [pts : (SUBSET Points) \ {{}}, class : Classes]
  BY <1>2, ObjectsAssumption
<1>4. P.pts \subseteq Points /\ P.pts # {} /\ P.class \in Classes
  BY <1>3
<1>5. IsFiniteSet(P.pts) /\ Cardinality(P.pts) \in Nat
  BY <1>4, ObjectsAssumption, FS_Subset, FS_CardinalityType
<1>6. Cardinality(P.pts) # 0
  BY <1>4, <1>5, FS_EmptySet
<1>7. QED
  BY <1>2, <1>4, <1>5, <1>6

\* The components a proposal may join, bridge or be compared with.
LEMMA OverlapFacts ==
  ASSUME TypeInv
  PROVE  /\ Primaries \subseteq Targets /\ Targets \subseteq Overlap /\ Overlap \subseteq Roots
         /\ \A r \in Overlap : P.class \in Majority(r)
         /\ Fresh \subseteq P.pts
BY DEF Primaries, Targets, Overlap, Fresh

LEMMA OverlapFinite ==
  ASSUME TypeInv, NEW S \in SUBSET Ids
  PROVE  IsFiniteSet(S) /\ Cardinality(S) \in Nat
<1>1. IsFiniteSet(Ids)
  BY CompFacts, FS_Interval
<1>2. QED
  BY <1>1, FS_Subset, FS_CardinalityType

\* What a deposit of the component rep adds to the store and to the pairs to examine.
LEMMA DepositFacts ==
  ASSUME TypeInv, NEW rep, Deposit(rep), NEW I, Ids \subseteq I, rep \in I
  PROVE  /\ \A k \in DOMAIN edges' :
              \/ k \in DOMAIN edges
              \/ \E r \in Overlap \ {rep} : k = {rep, r}
         /\ DOMAIN edges \subseteq DOMAIN edges'
         /\ touched' \in Seq(I \X I)
         /\ \A i \in 1 .. Len(touched') :
              \/ i \in 1 .. Len(touched) /\ touched'[i] = touched[i]
              \/ \E r \in Overlap : touched'[i] = <<rep, r>> \/ touched'[i] = <<r, rep>>
<1> DEFINE Seen(w) == {r \in Overlap \ {rep} : w[r].conf > 0}
           Gain(w) == [k \in {{rep, r} : r \in Seen(w)} |-> w[CHOOSE r \in Seen(w) : r \in k]]
           Pair(o, i) == IF rep < o[i] THEN <<rep, o[i]>> ELSE <<o[i], rep>>
<1>0. PICK w \in [Overlap \ {rep} -> Weights] :
        \E order \in SetToSeqs(Seen(w)) :
          /\ edges' = Deposited(edges, Gain(w))
          /\ touched' = touched \o [i \in DOMAIN order |-> Pair(order, i)]
  BY DEF Deposit
<1>1. PICK order \in SetToSeqs(Seen(w)) :
        /\ edges' = Deposited(edges, Gain(w))
        /\ touched' = touched \o [i \in DOMAIN order |-> Pair(order, i)]
  BY <1>0
<1>2. Overlap \subseteq Ids /\ Seen(w) \in SUBSET Ids /\ Seen(w) \subseteq Overlap \ {rep}
  BY OverlapFacts, CompFacts
<1>3. /\ Cardinality(Seen(w)) \in Nat
      /\ order \in [1 .. Cardinality(Seen(w)) -> Seen(w)]
  BY <1>1, <1>2, OverlapFinite DEF SetToSeqs
<1>4. DOMAIN edges' = DOMAIN edges \union {{rep, r} : r \in Seen(w)}
  BY <1>1 DEF Deposited
<1>5. touched \in Seq(Ids \X Ids) /\ touched \in Seq(I \X I)
  <2>1. Ids \X Ids \subseteq I \X I
    OBVIOUS
  <2>2. touched \in Seq(Ids \X Ids)
    BY DEF TypeInv, IndexType
  <2>3. QED
    BY <2>1, <2>2, SeqWidens
<1> DEFINE n == Cardinality(Seen(w))
           more == [i \in DOMAIN order |-> Pair(order, i)]
<1>6. \A i \in 1 .. n : \E r \in Overlap : /\ r \in I
                                           /\ Pair(order, i) = <<rep, r>> \/ Pair(order, i) = <<r, rep>>
  BY <1>2, <1>3
<1>7. more \in Seq(I \X I) /\ Len(more) = n /\ \A i \in 1 .. n : more[i] = Pair(order, i)
  <2>1. DOMAIN order = 1 .. n
    BY <1>3
  <2>2. \A i \in 1 .. n : Pair(order, i) \in I \X I
    BY <1>6
  <2> HIDE DEF Pair, Seen
  <2>3. more \in [1 .. n -> I \X I]
    BY <2>1, <2>2
  <2>4. QED
    BY <1>3, <2>1, <2>3
<1>8. /\ touched' \in Seq(I \X I)
      /\ \A i \in 1 .. Len(touched') :
           \/ i \in 1 .. Len(touched) /\ touched'[i] = touched[i]
           \/ i - Len(touched) \in 1 .. n /\ touched'[i] = more[i - Len(touched)]
  <2>1. touched' = touched \o more
    BY <1>1
  <2> HIDE DEF more, n
  <2>2. n \in Nat
    BY <1>3 DEF n
  <2>3. QED
    BY <1>5, <1>7, <2>1, <2>2
<1>9. QED
  <2>1. \A i \in 1 .. Len(touched') :
           \/ i \in 1 .. Len(touched) /\ touched'[i] = touched[i]
           \/ \E r \in Overlap : touched'[i] = <<rep, r>> \/ touched'[i] = <<r, rep>>
    <3> HIDE DEF Pair, n, more
    <3>1. QED
      BY <1>6, <1>7, <1>8
  <2>2. QED
    BY <1>2, <1>4, <1>8, <2>1

LEMMA KeptAre ==
  ASSUME NEW T, NEW s \in Seq(T), NEW S
  PROVE  /\ Kept(s, S)[0] = <<>>
         /\ \A n \in 1 .. Len(s) :
              Kept(s, S)[n] = IF s[n] \in S THEN Append(Kept(s, S)[n - 1], s[n])
                                            ELSE Kept(s, S)[n - 1]
<1> DEFINE More(x, n) == IF s[n] \in S THEN Append(x, s[n]) ELSE x
           Step(c, n) == IF n = 0 THEN <<>> ELSE More(c[n - 1], n)
           Defined == {m \in Nat : \E c : c = [n \in 0 .. m |-> Step(c, n)]}
<1>1. Len(s) \in Nat
  OBVIOUS
<1>5. Len(s) \in Defined => Kept(s, S) = [n \in 0 .. Len(s) |-> Step(Kept(s, S), n)]
  BY DEF Kept
<1> HIDE DEF More
<1>2. 0 \in Defined
  <2> DEFINE c == [n \in 0 .. 0 |-> <<>>]
  <2>1. c = [n \in 0 .. 0 |-> Step(c, n)]
    OBVIOUS
  <2>2. QED
    BY <2>1
<1>3. ASSUME NEW m \in Nat, m \in Defined PROVE m + 1 \in Defined
  <2>1. PICK c : c = [n \in 0 .. m |-> Step(c, n)]
    BY <1>3
  <2> DEFINE d == [n \in 0 .. m + 1 |-> IF n = m + 1 THEN More(c[m], m + 1) ELSE c[n]]
  <2>2. ASSUME NEW n \in 0 .. m + 1 PROVE d[n] = Step(d, n)
    <3>1. CASE n = m + 1
      <4>1. d[m] = c[m] /\ d[n] = More(c[m], m + 1) /\ n # 0 /\ n - 1 = m
        BY <3>1
      <4> HIDE DEF d
      <4>2. QED
        BY <3>1, <4>1
    <3>2. CASE n \in 1 .. m
      <4>1. c[n] = Step(c, n)
        BY <2>1, <3>2
      <4>2. d[n] = c[n] /\ d[n - 1] = c[n - 1]
        BY <3>2
      <4> HIDE DEF d
      <4>3. QED
        BY <3>2, <4>1, <4>2
    <3>3. CASE n = 0
      <4>1. c[0] = <<>>
        BY <2>1
      <4>2. d[0] = c[0]
        OBVIOUS
      <4>3. QED
        BY <3>3, <4>1, <4>2
    <3>4. QED
      BY <3>1, <3>2, <3>3
  <2>3. d = [n \in 0 .. m + 1 |-> d[n]]
    OBVIOUS
  <2> HIDE DEF d
  <2>4. d = [n \in 0 .. m + 1 |-> Step(d, n)]
    <3> HIDE DEF Step
    <3>1. QED
      BY <2>2, <2>3
  <2>5. QED
    <3> HIDE DEF Step
    <3>1. QED
      BY <2>4
<1>4. Len(s) \in Defined
  <2> HIDE DEF Defined
  <2>1. QED
    BY <1>1, <1>2, <1>3, SetInduction
<1> DEFINE k == Kept(s, S)
<1>6. k = [n \in 0 .. Len(s) |-> Step(k, n)]
  BY <1>4, <1>5
<1> HIDE DEF k, Defined
<1>7. k[0] = <<>> /\ \A n \in 1 .. Len(s) : k[n] = More(k[n - 1], n)
  <2>1. \A n \in 0 .. Len(s) : k[n] = Step(k, n)
    <3> HIDE DEF Step
    <3>1. QED
      BY <1>6
  <2>2. QED
    BY <1>1, <2>1
<1>8. QED
  BY <1>7 DEF k, More

\* Keeping the elements of S gives a sequence of elements of S.
LEMMA KeptType ==
  ASSUME NEW T, NEW s \in Seq(T), NEW S
  PROVE  Kept(s, S)[Len(s)] \in Seq(S)
<1> DEFINE k == Kept(s, S)
           Good == {n \in Nat : n \in 0 .. Len(s) => k[n] \in Seq(S)}
<1>1. Len(s) \in Nat
  OBVIOUS
<1>2. /\ k[0] = <<>>
      /\ \A n \in 1 .. Len(s) :
           k[n] = IF s[n] \in S THEN Append(k[n - 1], s[n]) ELSE k[n - 1]
  BY KeptAre
<1> HIDE DEF k
<1>3. 0 \in Good
  <2>1. <<>> \in Seq(S)
    OBVIOUS
  <2>2. k[0] \in Seq(S)
    BY <1>2, <2>1
  <2>3. QED
    BY <2>2
<1>4. ASSUME NEW n \in Nat, n \in Good PROVE n + 1 \in Good
  <2> SUFFICES ASSUME n + 1 \in 0 .. Len(s) PROVE k[n + 1] \in Seq(S)
    OBVIOUS
  <2>1. n + 1 \in 1 .. Len(s) /\ n \in 0 .. Len(s) /\ (n + 1) - 1 = n
    BY <1>1
  <2>2. k[n] \in Seq(S)
    BY <1>4, <2>1
  <2>3. k[n + 1] = IF s[n + 1] \in S THEN Append(k[n], s[n + 1]) ELSE k[n]
    BY <1>2, <2>1
  <2>4. CASE s[n + 1] \in S
    <3>1. Append(k[n], s[n + 1]) \in Seq(S)
      BY <2>2, <2>4
    <3>2. QED
      BY <2>3, <2>4, <3>1
  <2>5. QED
    BY <2>2, <2>3, <2>4
<1>5. Len(s) \in Good
  <2> HIDE DEF Good
  <2>1. QED
    BY <1>1, <1>3, <1>4, SetInduction
<1>6. QED
  BY <1>1, <1>5 DEF k

\* The edges between components still apart join different roots.
LEMMA AtRootsDomain ==
  ASSUME TypeInv, NEW store, \A k \in DOMAIN store : k \subseteq Ids
  PROVE  /\ \A k \in DOMAIN AtRoots(store) :
              /\ k \subseteq Roots /\ Cardinality(k) = 2
              /\ \E j \in DOMAIN store : k = Resolved(j)
         /\ UNION DOMAIN AtRoots(store) \subseteq Roots
<1>1. DOMAIN AtRoots(store) = {k \in {Resolved(j) : j \in DOMAIN store} : Cardinality(k) = 2}
  BY DEF AtRoots
<1>2. \A j \in DOMAIN store : Resolved(j) \subseteq Roots
  BY CompFacts DEF Resolved
<1>3. QED
  BY <1>1, <1>2

\* The component a proposal joins exists, and nothing else has changed.
LEMMA HomeFacts ==
  ASSUME TypeInv, NEW h, Home(h)
  PROVE  /\ CompType' /\ Ids \subseteq Ids' /\ Roots \subseteq Roots' /\ h \in Roots'
         /\ \A i \in Ids : root'[i] = root[i] /\ vox'[i] = vox[i] /\ cls'[i] = cls[i]
                           /\ support'[i] = support[i]
         /\ \/ h \in Primaries /\ UNCHANGED comps
            \/ NewComp /\ h = Len(root) + 1 /\ h \notin Ids /\ Primaries = {} /\ Fresh # {}
<1>1. CASE h \in Primaries /\ UNCHANGED comps
  <2>1. CompType' /\ Ids' = Ids /\ Roots' = Roots
    BY <1>1, CompsKept DEF TypeInv
  <2>2. h \in Roots
    BY <1>1, OverlapFacts
  <2>3. QED
    BY <1>1, <2>1, <2>2 DEF comps
<1>2. CASE Primaries = {} /\ Fresh # {} /\ h = Len(root) + 1 /\ NewComp
  <2>1. CompType'
    BY <1>2, NewCompType
  <2>2. h \notin Ids /\ Ids' = Ids \union {h} /\ Roots' = Roots \union {h}
    BY <1>2, NewCompFacts
  <2>3. \A i \in Ids : root'[i] = root[i] /\ vox'[i] = vox[i] /\ cls'[i] = cls[i]
                       /\ support'[i] = support[i]
    BY <1>2, NewCompFacts
  <2>4. QED
    BY <1>2, <2>1, <2>2, <2>3
<1>3. QED
  BY <1>1, <1>2 DEF Home

LEMMA InitType == Init => TypeInv
<1> SUFFICES ASSUME Init PROVE TypeInv
  OBVIOUS
<1>1. /\ root = <<>> /\ vox = <<>> /\ cls = <<>> /\ support = <<>>
      /\ owners = [p \in Points |-> {}] /\ edges = NoEdges /\ touched = <<>> /\ observed = <<>>
  BY DEF Init
<1>2. Ids = {}
  BY <1>1 DEF Ids
<1>3. CompType
  BY <1>1, <1>2 DEF CompType
<1>4. IndexType
  <2>1. DOMAIN edges = {}
    BY <1>1 DEF NoEdges
  <2>2. touched \in Seq(Ids \X Ids)
    BY <1>1
  <2>3. observed \in Seq([home : Ids, class : Classes, size : Nat])
    BY <1>1
  <2>4. owners \in [Points -> SUBSET Ids]
    BY <1>1
  <2>5. QED
    BY <2>1, <2>2, <2>3, <2>4 DEF IndexType
<1>5. FlowType
  <2>1. todo \in Seq(Proposals)
    BY DEF Init
  <2>2. QED
    BY <2>1 DEF Init, FlowType
<1>6. QED
  BY <1>3, <1>4, <1>5 DEF Init, TypeInv

LEMMA FrameType ==
  ASSUME TypeInv, NEW K, NEW R \in SUBSET Points, NEW ps \in Seq(Proposals), Frame(K, R, ps)
  PROVE  TypeInv'
<1>1. /\ UNCHANGED comps /\ UNCHANGED <<gc, ov, owners, edges, touched, observed, bridge>>
      /\ UNCHANGED <<changed, merged, progress>>
      /\ live' = (live \ K) \union R /\ todo' = ps /\ step = "idle" /\ step' \in {"idle", "fold"}
  BY DEF Frame, history, cleanup
<1>2. CompType' /\ Ids' = Ids /\ Roots' = Roots
  BY <1>1, CompsKept DEF TypeInv
<1>3. IndexType'
  BY <1>1, <1>2, IndexKept DEF TypeInv, IndexType
<1>4. FlowType'
  BY <1>1 DEF TypeInv, FlowType
<1>5. QED
  BY <1>1, <1>2, <1>3, <1>4 DEF TypeInv

LEMMA FoldLegacyType ==
  ASSUME TypeInv, NEW h, FoldLegacy(h)
  PROVE  TypeInv'
<1>1. /\ Home(h) /\ todo # <<>> /\ home' = h /\ bridge' = Targets \ {h} /\ step' = "join"
      /\ UNCHANGED <<gc, ov, live, owners, edges, touched, observed, todo>>
      /\ UNCHANGED <<changed, merged, progress>>
  BY DEF FoldLegacy, history, cleanup
<1>2. CompType' /\ Ids \subseteq Ids' /\ Roots \subseteq Roots' /\ h \in Roots'
  BY <1>1, HomeFacts
<1>3. IndexType'
  BY <1>1, <1>2, IndexKept DEF TypeInv, IndexType
<1>4. FlowType'
  <2>1. Targets \subseteq Roots'
    BY <1>2, OverlapFacts
  <2>2. QED
    BY <1>1, <1>2, <2>1 DEF TypeInv, FlowType
<1>5. QED
  BY <1>1, <1>2, <1>3, <1>4 DEF TypeInv

LEMMA DropType ==
  ASSUME TypeInv, Drop
  PROVE  TypeInv'
<1>1. /\ UNCHANGED comps /\ UNCHANGED <<gc, ov, live, owners, edges, touched, observed>>
      /\ UNCHANGED <<changed, merged, progress, bridge, step>>
      /\ todo' = Tail(todo) /\ step = "fold" /\ todo # <<>>
  BY DEF Drop, history, cleanup
<1>2. CompType' /\ Ids' = Ids /\ Roots' = Roots
  BY <1>1, CompsKept DEF TypeInv
<1>3. IndexType'
  BY <1>1, <1>2, IndexKept DEF TypeInv, IndexType
<1>4. FlowType'
  BY <1>1, ProposalFacts DEF TypeInv, FlowType
<1>5. QED
  BY <1>1, <1>2, <1>3, <1>4 DEF TypeInv

LEMMA FoldGraphType ==
  ASSUME TypeInv, NEW h, FoldGraph(h)
  PROVE  TypeInv'
<1>1. /\ Home(h) /\ Deposit(h) /\ todo # <<>> /\ home' = h /\ step = "fold" /\ step' = "join"
      /\ UNCHANGED <<gc, ov, live, owners, observed, todo, bridge>>
      /\ UNCHANGED <<changed, merged, progress>>
  BY DEF FoldGraph, history, cleanup
<1>2. CompType' /\ Ids \subseteq Ids' /\ Roots \subseteq Roots' /\ h \in Roots' /\ h \in Ids'
  BY <1>1, HomeFacts DEF Roots
<1>3. /\ \A k \in DOMAIN edges' : k \in DOMAIN edges \/ \E r \in Overlap \ {h} : k = {h, r}
      /\ touched' \in Seq(Ids' \X Ids')
  <2>1. PICK I : I = Ids'
    OBVIOUS
  <2>2. Ids \subseteq I /\ h \in I
    BY <1>2, <2>1
  <2>3. /\ \A k \in DOMAIN edges' : k \in DOMAIN edges \/ \E r \in Overlap \ {h} : k = {h, r}
        /\ touched' \in Seq(I \X I)
    BY <1>1, <2>2, DepositFacts
  <2>4. QED
    BY <2>1, <2>3
<1>4. \A k \in DOMAIN edges' : k \subseteq Ids'
  <2>1. Overlap \subseteq Ids
    BY OverlapFacts, CompFacts
  <2>2. \A k \in DOMAIN edges : k \subseteq Ids
    BY DEF TypeInv, IndexType
  <2>3. QED
    BY <1>2, <1>3, <2>1, <2>2
<1>5. IndexType'
  BY <1>1, <1>2, <1>3, <1>4, IndexKept DEF TypeInv, IndexType
<1>6. FlowType'
  BY <1>1, <1>2 DEF TypeInv, FlowType
<1>7. QED
  BY <1>1, <1>2, <1>5, <1>6 DEF TypeInv

LEMMA DepositOnlyType ==
  ASSUME TypeInv, DepositOnly
  PROVE  TypeInv'
<1>1. /\ UNCHANGED comps /\ UNCHANGED <<gc, ov, live, owners, observed>>
      /\ UNCHANGED <<changed, merged, progress, bridge, step>>
      /\ todo' = Tail(todo) /\ step = "fold" /\ todo # <<>>
      /\ UNCHANGED <<edges, touched>> \/ \E rep \in Overlap : Deposit(rep)
  BY DEF DepositOnly, cleanup
<1>2. CompType' /\ Ids' = Ids /\ Roots' = Roots
  BY <1>1, CompsKept DEF TypeInv
<1>3. (\A k \in DOMAIN edges' : k \subseteq Ids) /\ touched' \in Seq(Ids \X Ids)
  <2>1. CASE UNCHANGED <<edges, touched>>
    BY <2>1 DEF TypeInv, IndexType
  <2>2. ASSUME NEW rep \in Overlap, Deposit(rep)
        PROVE  (\A k \in DOMAIN edges' : k \subseteq Ids) /\ touched' \in Seq(Ids \X Ids)
    <3>1. rep \in Ids /\ Overlap \subseteq Ids
      BY OverlapFacts, CompFacts
    <3>2. /\ \A k \in DOMAIN edges' : k \in DOMAIN edges \/ \E r \in Overlap \ {rep} : k = {rep, r}
          /\ touched' \in Seq(Ids \X Ids)
      BY <2>2, <3>1, DepositFacts
    <3>3. QED
      BY <3>1, <3>2 DEF TypeInv, IndexType
  <2>3. QED
    BY <1>1, <2>1, <2>2
<1>4. IndexType'
  BY <1>1, <1>2, <1>3, IndexKept DEF TypeInv, IndexType
<1>5. FlowType'
  BY <1>1, ProposalFacts DEF TypeInv, FlowType
<1>6. QED
  BY <1>1, <1>2, <1>4, <1>5 DEF TypeInv

LEMMA BridgeType ==
  ASSUME TypeInv, NEW t, Bridge(t)
  PROVE  TypeInv' /\ United(Winner(home, t), Loser(home, t))
                  /\ {Winner(home, t), Loser(home, t)} = {home, t}
<1>1. /\ step = "join" /\ t \in bridge /\ Unite(home, t) /\ home' = Winner(home, t)
      /\ bridge' = bridge \ {t}
      /\ UNCHANGED <<gc, ov, live, owners, edges, touched, observed, todo, step>>
      /\ UNCHANGED <<changed, merged, progress>>
  BY DEF Bridge, history, cleanup
<1>2. home \in Roots /\ t \in Roots /\ home # t /\ bridge \subseteq Roots \ {home}
  BY <1>1 DEF TypeInv, FlowType
<1>3. /\ United(Winner(home, t), Loser(home, t))
      /\ {Winner(home, t), Loser(home, t)} = {home, t}
  BY <1>1, <1>2, UniteFacts
<1>4. CompType' /\ Ids' = Ids /\ Roots' = Roots \ {Loser(home, t)}
  <2>1. PICK w, l : w = Winner(home, t) /\ l = Loser(home, t)
    OBVIOUS
  <2>2. United(w, l)
    BY <1>3, <2>1
  <2>3. CompType'
    BY <2>2, UniteType
  <2>4. Ids' = Ids /\ Roots' = Roots \ {l}
    BY <2>2 DEF United
  <2>5. QED
    BY <2>1, <2>3, <2>4
<1>5. IndexType'
  BY <1>1, <1>4, IndexKept DEF TypeInv, IndexType
<1>6. FlowType'
  <2>1. home' \in Roots' /\ bridge' \subseteq Roots' \ {home'}
    BY <1>1, <1>2, <1>3, <1>4 DEF United
  <2>2. QED
    BY <1>1, <2>1 DEF TypeInv, FlowType
<1>7. QED
  BY <1>1, <1>3, <1>4, <1>5, <1>6 DEF TypeInv

\* What a join changes: the home only.
LEMMA JoinFacts ==
  ASSUME TypeInv, Join
  PROVE  /\ todo # <<>> /\ home \in Roots /\ home \in Ids /\ Fresh \subseteq P.pts
         /\ IsFiniteSet(Fresh)
         /\ root' = root /\ Ids' = Ids /\ Roots' = Roots /\ CompType'
         /\ \A i \in Ids :
              /\ vox'[i] = IF i = home THEN vox[i] \union Fresh ELSE vox[i]
              /\ support'[i] = IF i = home THEN support[i] + 1 ELSE support[i]
              /\ \A c \in Classes :
                   cls'[i][c] = IF i = home /\ c = P.class THEN cls[i][c] + Cardinality(P.pts)
                                                          ELSE cls[i][c]
<1>1. /\ vox' = [vox EXCEPT ![home] = @ \union Fresh]
      /\ cls' = [cls EXCEPT ![home][P.class] = @ + Cardinality(P.pts)]
      /\ support' = [support EXCEPT ![home] = @ + 1]
      /\ root' = root /\ todo # <<>> /\ home \in Roots
  BY DEF Join, TypeInv, FlowType
<1>2. /\ Ids' = Ids /\ Roots' = Roots
      /\ home \in Ids /\ Len(root) \in Nat /\ Ids = 1 .. Len(root)
      /\ DOMAIN vox = Ids /\ DOMAIN cls = Ids /\ DOMAIN support = Ids
      /\ \A i \in Ids : vox[i] \subseteq Points /\ cls[i] \in [Classes -> Nat] /\ support[i] \in Nat
  BY <1>1, CompFacts DEF Ids, Roots
<1>3. /\ P.pts \subseteq Points /\ P.class \in Classes /\ Cardinality(P.pts) \in Nat
      /\ Fresh \subseteq P.pts /\ IsFiniteSet(Fresh)
  BY <1>1, ProposalFacts, OverlapFacts, FS_Subset
<1>4. /\ vox' \in Seq(SUBSET Points) /\ Len(vox') = Len(root)
      /\ \A i \in Ids : vox'[i] = IF i = home THEN vox[i] \union Fresh ELSE vox[i]
  <2>1. DOMAIN vox' = Ids /\ \A i \in Ids : vox'[i] = IF i = home THEN vox[i] \union Fresh ELSE vox[i]
    BY <1>1, <1>2
  <2>2. \A i \in Ids : vox'[i] \in SUBSET Points
    BY <1>2, <1>3, <2>1
  <2>3. vox' = [i \in Ids |-> vox'[i]]
    BY <1>1, <1>2, <2>1
  <2>4. vox' \in [1 .. Len(root) -> SUBSET Points]
    BY <1>2, <2>2, <2>3
  <2>5. QED
    BY <1>2, <2>1, <2>4
<1>5. /\ support' \in Seq(Nat) /\ Len(support') = Len(root)
      /\ \A i \in Ids : support'[i] = IF i = home THEN support[i] + 1 ELSE support[i]
  <2>1. DOMAIN support' = Ids /\ \A i \in Ids : support'[i] = IF i = home THEN support[i] + 1 ELSE support[i]
    BY <1>1, <1>2
  <2>2. \A i \in Ids : support'[i] \in Nat
    BY <1>2, <2>1
  <2>3. support' = [i \in Ids |-> support'[i]]
    BY <1>1, <1>2, <2>1
  <2>4. support' \in [1 .. Len(root) -> Nat]
    BY <1>2, <2>2, <2>3
  <2>5. QED
    BY <1>2, <2>1, <2>4
<1>6. /\ cls' \in Seq([Classes -> Nat]) /\ Len(cls') = Len(root)
      /\ \A i \in Ids, c \in Classes :
           cls'[i][c] = IF i = home /\ c = P.class THEN cls[i][c] + Cardinality(P.pts) ELSE cls[i][c]
  <2>1. /\ DOMAIN cls' = Ids
        /\ cls'[home] = [cls[home] EXCEPT ![P.class] = @ + Cardinality(P.pts)]
        /\ \A i \in Ids \ {home} : cls'[i] = cls[i]
    BY <1>1, <1>2
  <2>2. cls'[home] \in [Classes -> Nat]
    BY <1>2, <1>3, <2>1
  <2>3. \A i \in Ids : cls'[i] \in [Classes -> Nat]
    BY <1>2, <2>1, <2>2
  <2>4. cls' = [i \in Ids |-> cls'[i]]
    BY <1>1, <1>2, <2>1
  <2>5. cls' \in [1 .. Len(root) -> [Classes -> Nat]]
    BY <1>2, <2>3, <2>4
  <2>6. cls' \in Seq([Classes -> Nat]) /\ Len(cls') = Len(root)
    BY <1>2, <2>5
  <2>7. QED
    BY <1>2, <1>3, <2>1, <2>6
<1>7. CompType'
  BY <1>1, <1>2, <1>4, <1>5, <1>6, CompFacts DEF TypeInv, CompType
<1>8. QED
  BY <1>1, <1>2, <1>3, <1>4, <1>5, <1>6, <1>7

LEMMA JoinType ==
  ASSUME TypeInv, Join
  PROVE  TypeInv'
<1>1. /\ UNCHANGED <<gc, ov, live, edges, touched, bridge>>
      /\ UNCHANGED <<merged, progress>>
      /\ changed' = TRUE /\ todo' = Tail(todo) /\ step' = "fold" /\ bridge = {}
      /\ owners' = [p \in Points |->
           IF p \in Fresh /\ \A i \in owners[p] : root[i] # home
             THEN owners[p] \union {home} ELSE owners[p]]
      /\ observed' = Append(observed,
           [home |-> home, class |-> P.class, size |-> Cardinality(P.pts)])
  BY DEF Join, cleanup
<1>2. /\ todo # <<>> /\ home \in Ids /\ Ids' = Ids /\ Roots' = Roots /\ CompType'
  BY JoinFacts
<1>3. P.class \in Classes /\ Cardinality(P.pts) \in Nat /\ Tail(todo) \in Seq(Proposals)
  BY <1>2, ProposalFacts
<1>4. owners' \in [Points -> SUBSET Ids]
  <2>1. owners \in [Points -> SUBSET Ids]
    BY DEF TypeInv, IndexType
  <2>2. QED
    BY <1>1, <1>2, <2>1
<1>5. observed' \in Seq([home : Ids, class : Classes, size : Nat])
  <2>1. observed \in Seq([home : Ids, class : Classes, size : Nat])
    BY DEF TypeInv, IndexType
  <2>2. [home |-> home, class |-> P.class, size |-> Cardinality(P.pts)]
          \in [home : Ids, class : Classes, size : Nat]
    BY <1>2, <1>3
  <2>3. QED
    BY <1>1, <2>1, <2>2
<1>6. IndexType'
  BY <1>1, <1>2, <1>4, <1>5 DEF TypeInv, IndexType
<1>7. FlowType'
  BY <1>1, <1>3 DEF TypeInv, FlowType
<1>8. QED
  BY <1>1, <1>2, <1>6, <1>7 DEF TypeInv

LEMMA EndFoldType ==
  ASSUME TypeInv, EndFold
  PROVE  TypeInv'
<1>1. /\ UNCHANGED comps /\ UNCHANGED <<gc, ov, live, owners, edges, observed, todo, bridge>>
      /\ UNCHANGED <<merged, progress>> /\ step = "fold"
      /\ step' \in {"merge", "idle"} /\ changed' \in {changed, FALSE}
  BY DEF EndFold, history, cleanup
<1>2. CompType' /\ Ids' = Ids /\ Roots' = Roots
  BY <1>1, CompsKept DEF TypeInv
<1>3. touched' \in Seq(Ids \X Ids)
  <2>1. touched \in Seq(Ids \X Ids)
    BY DEF TypeInv, IndexType
  <2> DEFINE agreed == {k \in ToSet(touched) : Agreed(AtRoots(edges), {k[1], k[2]})}
  <2>2. agreed \subseteq Ids \X Ids
    BY <2>1, SeqElements DEF ToSet
  <2>3. touched' = touched \/ touched' = Kept(touched, agreed)[Len(touched)]
    BY DEF EndFold
  <2> HIDE DEF agreed
  <2>4. Kept(touched, agreed)[Len(touched)] \in Seq(Ids \X Ids)
    BY <2>1, <2>2, KeptType, SeqWidens
  <2>5. QED
    BY <2>1, <2>3, <2>4
<1>4. IndexType'
  BY <1>1, <1>2, <1>3, IndexKept DEF TypeInv, IndexType
<1>5. FlowType'
  BY <1>1 DEF TypeInv, FlowType
<1>6. QED
  BY <1>1, <1>2, <1>4, <1>5 DEF TypeInv

\* A merge unites the two components of the pair, unless they are one already.
LEMMA MergeFacts ==
  ASSUME TypeInv, Merge
  PROVE  /\ step = "merge" /\ touched # <<>> /\ Head(touched) \in Ids \X Ids
         /\ Tail(touched) \in Seq(Ids \X Ids)
         /\ \/ UNCHANGED comps /\ merged' = merged
            \/ \E w, l : /\ United(w, l) /\ merged' = TRUE
                         /\ {w, l} = {root[Head(touched)[1]], root[Head(touched)[2]]}
<1>1. touched \in Seq(Ids \X Ids) /\ touched # <<>> /\ step = "merge"
  BY DEF TypeInv, IndexType, Merge
<1>2. Head(touched) \in Ids \X Ids /\ Tail(touched) \in Seq(Ids \X Ids)
  BY <1>1
<1>3. root[Head(touched)[1]] \in Roots /\ root[Head(touched)[2]] \in Roots
  BY <1>2, CompFacts
<1>4. PICK a, b : a = root[Head(touched)[1]] /\ b = root[Head(touched)[2]]
  OBVIOUS
<1>5. IF a = b THEN UNCHANGED <<comps, merged>> ELSE Unite(a, b) /\ merged' = TRUE
  BY <1>4 DEF Merge
<1>6. ASSUME a # b, Unite(a, b) PROVE \E w, l : United(w, l) /\ {w, l} = {a, b}
  <2>1. United(Winner(a, b), Loser(a, b)) /\ {Winner(a, b), Loser(a, b)} = {a, b}
    BY <1>3, <1>4, <1>6, UniteFacts
  <2>2. QED
    BY <2>1
<1>7. \/ UNCHANGED comps /\ merged' = merged
      \/ \E w, l : United(w, l) /\ merged' = TRUE /\ {w, l} = {a, b}
  BY <1>5, <1>6
<1>8. QED
  BY <1>1, <1>2, <1>4, <1>7

LEMMA MergeType ==
  ASSUME TypeInv, Merge
  PROVE  TypeInv'
<1>1. /\ UNCHANGED <<gc, ov, live, owners, edges, observed, todo, bridge, step>>
      /\ UNCHANGED <<changed, progress>> /\ touched' = Tail(touched) /\ step = "merge"
  BY DEF Merge, history, cleanup
<1>2. touched' \in Seq(Ids \X Ids)
  BY <1>1, MergeFacts
<1>3. CompType' /\ Ids' = Ids /\ merged' \in BOOLEAN
  <2>1. CASE UNCHANGED comps /\ merged' = merged
    BY <2>1, CompsKept DEF TypeInv, FlowType
  <2>2. ASSUME NEW w, NEW l, United(w, l)
        PROVE  CompType' /\ Ids' = Ids
    <3>1. CompType'
      BY <2>2, UniteType
    <3>2. QED
      BY <2>2, <3>1 DEF United
  <2>3. QED
    BY <2>1, <2>2, MergeFacts
<1>4. IndexType'
  BY <1>1, <1>2, <1>3, IndexKept DEF TypeInv, IndexType
<1>5. FlowType'
  BY <1>1, <1>3 DEF TypeInv, FlowType
<1>6. QED
  BY <1>1, <1>3, <1>4, <1>5 DEF TypeInv

LEMMA EndMergeType ==
  ASSUME TypeInv, EndMerge
  PROVE  TypeInv'
<1>1. /\ UNCHANGED comps /\ UNCHANGED <<gc, ov, live, owners, observed, todo, bridge, touched>>
      /\ UNCHANGED progress /\ step = "merge" /\ step' = "idle"
      /\ changed' = FALSE /\ merged' = FALSE /\ edges' \in {edges, AtRoots(edges)}
  BY DEF EndMerge, history, cleanup
<1>2. CompType' /\ Ids' = Ids /\ Roots' = Roots
  BY <1>1, CompsKept DEF TypeInv
<1>3. \A k \in DOMAIN edges' : k \subseteq Ids
  <2>1. \A k \in DOMAIN edges : k \subseteq Ids
    BY DEF TypeInv, IndexType
  <2>2. \A k \in DOMAIN AtRoots(edges) : k \subseteq Ids
    BY <2>1, AtRootsDomain, CompFacts
  <2>3. QED
    BY <1>1, <2>1, <2>2
<1>4. IndexType'
  BY <1>1, <1>2, <1>3, IndexKept DEF TypeInv, IndexType
<1>5. FlowType'
  BY <1>1 DEF TypeInv, FlowType
<1>6. QED
  BY <1>1, <1>2, <1>4, <1>5 DEF TypeInv

LEMMA FinishType ==
  ASSUME TypeInv, Finish
  PROVE  TypeInv'
<1>1. /\ UNCHANGED comps /\ UNCHANGED <<gc, ov, live, owners, edges, observed, todo, bridge, touched>>
      /\ UNCHANGED <<changed, merged, progress>> /\ step = "idle" /\ step' \in {"snapshot", "done"}
  BY DEF Finish, history, cleanup
<1>2. CompType' /\ Ids' = Ids /\ Roots' = Roots
  BY <1>1, CompsKept DEF TypeInv
<1>3. IndexType'
  BY <1>1, <1>2, IndexKept DEF TypeInv, IndexType
<1>4. FlowType'
  BY <1>1 DEF TypeInv, FlowType
<1>5. QED
  BY <1>1, <1>2, <1>3, <1>4 DEF TypeInv

\* A snapshot names a neighbour for exactly the components that have an edge.
LEMMA SnapshotFacts ==
  ASSUME TypeInv, Snapshot
  PROVE  /\ DOMAIN best' = UNION DOMAIN AtRoots(edges) /\ DOMAIN best' \subseteq Roots
         /\ \A a \in DOMAIN best' : best'[a] \in Ids /\ best'[a] # a /\ {a, best'[a]} \in DOMAIN AtRoots(edges)
<1>1. best' \in BestNeighbours
  BY DEF Snapshot
<1>2. /\ best' \in [UNION DOMAIN AtRoots(edges) -> Ids]
      /\ \A a \in DOMAIN best' : best'[a] \in Neighbours(AtRoots(edges), a)
  BY <1>1 DEF BestNeighbours
<1>3. \A k \in DOMAIN edges : k \subseteq Ids
  BY DEF TypeInv, IndexType
<1>4. UNION DOMAIN AtRoots(edges) \subseteq Roots
  BY <1>3, AtRootsDomain
<1>5. QED
  BY <1>2, <1>4 DEF Neighbours

LEMMA SnapshotType ==
  ASSUME TypeInv, Snapshot
  PROVE  TypeInv'
<1>1. /\ UNCHANGED comps /\ UNCHANGED <<gc, ov, live, owners, edges, observed, todo, bridge, touched>>
      /\ UNCHANGED <<changed, merged>> /\ progress' = FALSE
      /\ step = "snapshot" /\ step' = "sweep" /\ next' = 1
  BY DEF Snapshot, history
<1>2. CompType' /\ Ids' = Ids /\ Roots' = Roots
  BY <1>1, CompsKept DEF TypeInv
<1>3. IndexType'
  BY <1>1, <1>2, IndexKept DEF TypeInv, IndexType
<1>4. FlowType'
  <2>1. DOMAIN best' \subseteq Ids' /\ \A a \in DOMAIN best' : best'[a] \in Ids'
    <3>1. DOMAIN best' \subseteq Roots /\ \A a \in DOMAIN best' : best'[a] \in Ids
      BY SnapshotFacts
    <3>2. Roots \subseteq Ids
      BY CompFacts
    <3>3. QED
      BY <1>2, <3>1, <3>2
  <2>2. next' \in Nat \ {0} /\ bridge = {}
    BY <1>1 DEF TypeInv, FlowType
  <2>3. changed' \in BOOLEAN /\ merged' \in BOOLEAN /\ progress' \in BOOLEAN
    BY <1>1 DEF TypeInv, FlowType
  <2>4. todo' \in Seq(Proposals)
    BY <1>1 DEF TypeInv, FlowType
  <2>5. QED
    BY <1>1, <2>1, <2>2, <2>3, <2>4 DEF FlowType
<1>5. QED
  BY <1>1, <1>2, <1>3, <1>4 DEF TypeInv

\* A sweep passes over an id or absorbs it into its best neighbour, or the other way round.
LEMMA SweepFacts ==
  ASSUME TypeInv, Sweep
  PROVE  /\ step = "sweep" /\ next \in Ids /\ next' = next + 1
         /\ \/ /\ UNCHANGED comps /\ UNCHANGED <<merged, progress>>
               /\ ~ (next \in Roots /\ support[next] < SmallMin /\ next \in DOMAIN best
                     /\ root[best[next]] # next)
            \/ /\ next \in Roots /\ next \in DOMAIN best /\ merged' = TRUE /\ progress' = TRUE
               /\ \E w, l : United(w, l) /\ {w, l} = {next, root[best[next]]}
<1>1. /\ step = "sweep" /\ next \in Ids /\ next' = next + 1
      /\ next \in DOMAIN best => best[next] \in Ids /\ root[best[next]] \in Roots
  BY CompFacts DEF Sweep, TypeInv, FlowType
<1>2. PICK b : b = root[best[next]]
  OBVIOUS
<1>3. CASE next \in Roots /\ support[next] < SmallMin /\ next \in DOMAIN best /\ b # next
  <2>1. Unite(next, b) /\ merged' = TRUE /\ progress' = TRUE
    BY <1>2, <1>3 DEF Sweep
  <2>2. PICK n : n = next
    OBVIOUS
  <2>3. United(Winner(n, b), Loser(n, b)) /\ {Winner(n, b), Loser(n, b)} = {n, b}
    BY <1>1, <1>2, <1>3, <2>1, <2>2, UniteFacts
  <2>4. \E w, l : United(w, l) /\ {w, l} = {n, b}
    BY <2>3
  <2>5. QED
    BY <1>1, <1>2, <1>3, <2>1, <2>2, <2>4
<1>4. CASE ~ (next \in Roots /\ support[next] < SmallMin /\ next \in DOMAIN best /\ b # next)
  BY <1>1, <1>2, <1>4 DEF Sweep
<1>5. QED
  BY <1>3, <1>4

LEMMA SweepType ==
  ASSUME TypeInv, Sweep
  PROVE  TypeInv'
<1>1. /\ UNCHANGED <<gc, ov, live, owners, edges, observed, todo, bridge, touched, step>>
      /\ UNCHANGED <<changed, best>> /\ step = "sweep"
  BY DEF Sweep, history
<1>2. next' \in Nat \ {0}
  BY SweepFacts, CompFacts
<1>3. CompType' /\ Ids' = Ids /\ merged' \in BOOLEAN /\ progress' \in BOOLEAN
  <2>1. CASE UNCHANGED comps /\ UNCHANGED <<merged, progress>>
    BY <2>1, CompsKept DEF TypeInv, FlowType
  <2>2. ASSUME NEW w, NEW l, United(w, l)
        PROVE  CompType' /\ Ids' = Ids
    <3>1. CompType'
      BY <2>2, UniteType
    <3>2. QED
      BY <2>2, <3>1 DEF United
  <2>3. QED
    BY <2>1, <2>2, SweepFacts
<1>4. IndexType'
  BY <1>1, <1>3, IndexKept DEF TypeInv, IndexType
<1>5. FlowType'
  BY <1>1, <1>2, <1>3 DEF TypeInv, FlowType
<1>6. QED
  BY <1>1, <1>3, <1>4, <1>5 DEF TypeInv

LEMMA EndSweepType ==
  ASSUME TypeInv, EndSweep
  PROVE  TypeInv'
<1>1. /\ UNCHANGED comps /\ UNCHANGED <<gc, ov, live, owners, edges, observed, todo, bridge, touched>>
      /\ UNCHANGED <<changed, progress>> /\ merged' \in {merged, FALSE}
      /\ step = "sweep" /\ step' \in {"snapshot", "done"}
  BY DEF EndSweep, history
<1>2. CompType' /\ Ids' = Ids /\ Roots' = Roots
  BY <1>1, CompsKept DEF TypeInv
<1>3. IndexType'
  BY <1>1, <1>2, IndexKept DEF TypeInv, IndexType
<1>4. FlowType'
  BY <1>1 DEF TypeInv, FlowType
<1>5. QED
  BY <1>1, <1>2, <1>3, <1>4 DEF TypeInv

LEMMA StutterType ==
  ASSUME TypeInv, UNCHANGED vars
  PROVE  TypeInv'
<1>1. /\ UNCHANGED comps /\ UNCHANGED <<gc, ov, live, owners, edges, observed, todo, bridge, touched>>
      /\ UNCHANGED <<changed, merged, progress, step, best, next, home>>
  BY DEF vars, history, cleanup
<1>2. CompType' /\ Ids' = Ids /\ Roots' = Roots
  BY <1>1, CompsKept DEF TypeInv
<1>3. IndexType'
  BY <1>1, <1>2, IndexKept DEF TypeInv, IndexType
<1>4. FlowType'
  BY <1>1, <1>2 DEF TypeInv, FlowType
<1>5. QED
  BY <1>1, <1>2, <1>3, <1>4 DEF TypeInv

\* The steps of Next, with the values a scan can hand over.
LEMMA Steps ==
  ASSUME Next
  PROVE  \/ \E K : \E R \in SUBSET Points, ps \in Seq(Proposals) : Frame(K, R, ps)
         \/ \E h : FoldLegacy(h) \/ FoldGraph(h)
         \/ \E t : Bridge(t)
         \/ Drop \/ DepositOnly \/ Join \/ EndFold \/ Merge \/ EndMerge
         \/ Finish \/ Snapshot \/ Sweep \/ EndSweep
<1>1. CASE \E K \in SUBSET live, R \in SUBSET (Points \ live),
               ps \in UNION {[1..n -> Proposals] : n \in 0..MaxProposals} : Frame(K, R, ps)
  <2>1. PICK K \in SUBSET live, R \in SUBSET (Points \ live),
             ps \in UNION {[1..n -> Proposals] : n \in 0..MaxProposals} : Frame(K, R, ps)
    BY <1>1
  <2>2. PICK n \in 0 .. MaxProposals : ps \in [1 .. n -> Proposals]
    OBVIOUS
  <2>3. n \in Nat
    BY ObjectsAssumption
  <2>4. ps \in Seq(Proposals)
    BY <2>2, <2>3
  <2>5. QED
    BY <2>1, <2>4
<1>2. QED
  BY <1>1 DEF Next, Consolidate, Cleanup

LEMMA NextType == TypeInv /\ [Next]_vars => TypeInv'
<1> SUFFICES ASSUME TypeInv, [Next]_vars PROVE TypeInv'
  OBVIOUS
<1>1. CASE UNCHANGED vars
  BY <1>1, StutterType
<1>2. CASE Next
  BY <1>2, Steps, FrameType, FoldLegacyType, FoldGraphType, BridgeType, DropType, DepositOnlyType,
     JoinType, EndFoldType, MergeType, EndMergeType, FinishType, SnapshotType, SweepType,
     EndSweepType
<1>3. QED
  BY <1>1, <1>2

\* Every reference to a component, by the owner index, an edge, a pair to examine, the join
\* in progress or the sweep, is to one that exists, and a root is its own root.
THEOREM TypesHold == Spec => []TypeInv
<1>1. QED
  BY InitType, NextType, PTL DEF Spec
-----------------------------------------------------------------------------
\* To the components a step does one of four things: nothing, one more for a proposal, two
\* united, or the join of a proposal; only the join touches the index and the history.
LEMMA CompSteps ==
  ASSUME TypeInv, [Next]_vars
  PROVE  /\ ov' = ov /\ gc' = gc
         /\ \/ UNCHANGED comps /\ UNCHANGED <<owners, observed>>
            \/ NewComp /\ UNCHANGED <<owners, observed>>
            \/ (\E w, l : United(w, l)) /\ UNCHANGED <<owners, observed>>
            \/ Join
<1>1. CASE UNCHANGED vars
  BY <1>1 DEF vars, history
<1>2. CASE \E K : \E R \in SUBSET Points, ps \in Seq(Proposals) : Frame(K, R, ps)
  BY <1>2 DEF Frame, history
<1>3. CASE \E h : FoldLegacy(h)
  BY <1>3 DEF FoldLegacy, Home, history
<1>4. CASE \E h : FoldGraph(h)
  BY <1>4 DEF FoldGraph, Home, history
<1>5. CASE \E t : Bridge(t)
  <2>1. PICK t : Bridge(t)
    BY <1>5
  <2>2. \E w, l : United(w, l)
    BY <2>1, BridgeType
  <2>3. QED
    BY <2>1, <2>2 DEF Bridge, history
<1>6. CASE Drop \/ DepositOnly \/ EndFold \/ EndMerge \/ Finish \/ Snapshot \/ EndSweep
  BY <1>6 DEF Drop, DepositOnly, EndFold, EndMerge, Finish, Snapshot, EndSweep, history
<1>7. CASE Join
  BY <1>7 DEF Join
<1>8. CASE Merge
  BY <1>8, MergeFacts DEF Merge, history
<1>9. CASE Sweep
  BY <1>9, SweepFacts DEF Sweep, history
<1>10. QED
  BY <1>1, <1>2, <1>3, <1>4, <1>5, <1>6, <1>7, <1>8, <1>9, Steps

\* The two halves of OwnersMatch, the first one component at a time.
OwnersTellTheHolders ==
  \A p \in Points, r \in Ids : p \in vox[r] <=> \E i \in owners[p] : root[i] = r

NothingIsStolen ==
  ~ov => \A p \in Points : Cardinality(owners[p]) <= 1

LEMMA OwnersMatchIs ==
  ASSUME TypeInv
  PROVE  OwnersMatch <=> OwnersTellTheHolders /\ NothingIsStolen
<1>1. \A p \in Points : owners[p] \subseteq Ids
  BY DEF TypeInv, IndexType
<1>2. \A i \in Ids : root[i] \in Ids
  BY CompFacts
<1>3. ASSUME NEW p \in Points
      PROVE  {root[i] : i \in owners[p]} = {r \in Ids : p \in vox[r]}
               <=> \A r \in Ids : p \in vox[r] <=> \E i \in owners[p] : root[i] = r
  BY <1>1, <1>2
<1>4. QED
  BY <1>3 DEF OwnersMatch, OwnersTellTheHolders, NothingIsStolen

LEMMA NextOwners ==
  ASSUME TypeInv, OwnersTellTheHolders, NothingIsStolen, [Next]_vars
  PROVE  OwnersTellTheHolders' /\ NothingIsStolen'
<1>1. \A p \in Points : owners[p] \subseteq Ids
  BY DEF TypeInv, IndexType
<1>2. ov' = ov
  BY CompSteps
<1>3. owners' = owners => NothingIsStolen'
  BY <1>2 DEF NothingIsStolen
<1>4. CASE UNCHANGED comps /\ UNCHANGED <<owners, observed>>
  BY <1>3, <1>4 DEF OwnersTellTheHolders, comps, Ids
<1>5. CASE NewComp /\ UNCHANGED <<owners, observed>>
  <2>1. PICK n : n = Len(root) + 1
    OBVIOUS
  <2>2. /\ n \notin Ids /\ Ids' = Ids \union {n} /\ root'[n] = n /\ vox'[n] = {}
        /\ \A i \in Ids : root'[i] = root[i] /\ vox'[i] = vox[i]
    BY <1>5, <2>1, NewCompFacts
  <2>3. \A i \in Ids : root[i] \in Ids
    BY CompFacts
  <2>4. QED
    BY <1>1, <1>3, <1>5, <2>2, <2>3 DEF OwnersTellTheHolders
<1>6. CASE (\E w, l : United(w, l)) /\ UNCHANGED <<owners, observed>>
  <2>1. PICK w, l : United(w, l)
    BY <1>6
  <2>2. /\ w \in Ids /\ l \in Ids /\ w # l /\ Ids' = Ids
        /\ \A i \in Ids : root'[i] = IF root[i] = l THEN w ELSE root[i]
        /\ \A i \in Ids : vox'[i] = IF i = w THEN vox[w] \union vox[l]
                                    ELSE IF i = l THEN {} ELSE vox[i]
    BY <2>1, CompFacts DEF United
  <2>3. ASSUME NEW p \in Points, NEW r \in Ids
        PROVE  p \in vox'[r] <=> \E i \in owners[p] : root'[i] = r
    <3>1. \A s \in Ids : p \in vox[s] <=> \E i \in owners[p] : root[i] = s
      BY DEF OwnersTellTheHolders
    <3>2. CASE r = w
      BY <1>1, <2>2, <3>1, <3>2
    <3>3. CASE r = l
      BY <1>1, <2>2, <3>3
    <3>4. CASE r # w /\ r # l
      BY <1>1, <2>2, <3>1, <3>4
    <3>5. QED
      BY <3>2, <3>3, <3>4
  <2>4. QED
    BY <1>3, <1>6, <2>2, <2>3 DEF OwnersTellTheHolders
<1>7. CASE Join
  <2>1. /\ home \in Ids /\ root[home] = home /\ root' = root /\ Ids' = Ids
        /\ \A i \in Ids : vox'[i] = IF i = home THEN vox[i] \union Fresh ELSE vox[i]
    BY <1>7, JoinFacts, CompFacts
  <2> DEFINE Claimed(p) == p \in Fresh /\ \A i \in owners[p] : root[i] # home
  <2>2. \A p \in Points : /\ Claimed(p) => owners'[p] = owners[p] \union {home}
                          /\ ~Claimed(p) => owners'[p] = owners[p]
    BY <1>7 DEF Join
  <2>3. OwnersTellTheHolders'
    <3>1. ASSUME NEW p \in Points, NEW r \in Ids
          PROVE  p \in vox'[r] <=> \E i \in owners'[p] : root[i] = r
      <4>1. p \in vox[r] <=> \E i \in owners[p] : root[i] = r
        BY DEF OwnersTellTheHolders
      <4>2. CASE Claimed(p)
        <5>1. owners'[p] = owners[p] \union {home} /\ p \in Fresh
          BY <2>2, <4>2
        <5> HIDE DEF Claimed
        <5>2. QED
          BY <2>1, <4>1, <5>1
      <4>3. CASE ~Claimed(p)
        <5>1. owners'[p] = owners[p] /\ (p \in Fresh => \E i \in owners[p] : root[i] = home)
          BY <2>2, <4>3
        <5> HIDE DEF Claimed
        <5>2. QED
          BY <2>1, <4>1, <5>1
      <4>4. QED
        BY <4>2, <4>3
    <3>2. QED
      BY <2>1, <3>1 DEF OwnersTellTheHolders
  <2>4. ASSUME ~ov, NEW p \in Points PROVE Cardinality(owners'[p]) <= 1
    <3>1. Cardinality(owners[p]) <= 1
      BY <2>4 DEF NothingIsStolen
    <3>2. CASE p \in Fresh
      <4>1. owners[p] = {}
        BY <2>4, <3>2 DEF Fresh
      <4>2. owners'[p] = {home}
        <5>1. Claimed(p)
          BY <3>2, <4>1
        <5>2. owners'[p] = owners[p] \union {home}
          BY <2>2, <5>1
        <5>3. QED
          BY <4>1, <5>2
      <4>3. Cardinality({home}) = 1
        BY FS_Singleton
      <4>4. QED
        BY <4>2, <4>3
    <3>3. CASE p \notin Fresh
      BY <2>2, <3>1, <3>3
    <3>4. QED
      BY <3>2, <3>3
  <2>5. QED
    BY <1>2, <2>3, <2>4 DEF NothingIsStolen
<1>8. QED
  BY <1>4, <1>5, <1>6, <1>7, CompSteps

\* The owner index still finds exactly the components that hold a point, however they were
\* united since it was written, and without overlap_sets no voxel is stolen.
THEOREM OwnersHold == Spec => []OwnersMatch
<1> DEFINE Inv == TypeInv /\ OwnersTellTheHolders /\ NothingIsStolen
<1>1. Init => Inv
  <2> SUFFICES ASSUME Init PROVE Inv
    OBVIOUS
  <2>1. TypeInv
    BY InitType
  <2>2. root = <<>> /\ owners = [p \in Points |-> {}]
    BY DEF Init
  <2>3. OwnersTellTheHolders
    BY <2>2 DEF OwnersTellTheHolders, Ids
  <2>4. NothingIsStolen
    BY <2>2, FS_EmptySet DEF NothingIsStolen
  <2>5. QED
    BY <2>1, <2>3, <2>4
<1>2. Inv /\ [Next]_vars => Inv'
  BY NextType, NextOwners
<1>3. Inv => OwnersMatch
  BY OwnersMatchIs
<1>4. QED
  BY <1>1, <1>2, <1>3, PTL DEF Spec
-----------------------------------------------------------------------------
\* A class for every component ever made: that of its voters, and of the proposals that
\* joined it.
KindOfComps(kind) ==
  /\ kind \in [Ids -> Classes]
  /\ \A i \in Ids : kind[root[i]] = kind[i]
  /\ \A i \in Ids, c \in Classes : cls[i][c] > 0 => c = kind[i]
  /\ \A i \in DOMAIN observed : kind[observed[i].home] = observed[i].class

\* Whatever may unite two components later links components of one class.
KindOfLinks(kind) ==
  /\ \A k \in DOMAIN edges : \A a, b \in k : kind[a] = kind[b]
  /\ \A i \in 1 .. Len(touched) : kind[touched[i][1]] = kind[touched[i][2]]
  /\ step = "join" => kind[home] = P.class /\ \A r \in bridge : kind[r] = P.class
  /\ step = "sweep" => \A a \in DOMAIN best : kind[best[a]] = kind[a]

LEMMA ObservedFacts ==
  ASSUME TypeInv
  PROVE  /\ observed \in Seq([home : Ids, class : Classes, size : Nat])
         /\ \A i \in DOMAIN observed : observed[i].home \in Ids /\ observed[i].class \in Classes
<1> DEFINE O == [home : Ids, class : Classes, size : Nat]
<1>1. observed \in Seq(O)
  BY DEF TypeInv, IndexType
<1>2. \A o \in O : o.home \in Ids /\ o.class \in Classes
  OBVIOUS
<1> HIDE DEF O
<1>3. \A i \in DOMAIN observed : observed[i] \in O
  BY <1>1, SeqElements
<1>4. QED
  BY <1>1, <1>2, <1>3 DEF O

LEMMA KindOfOverlap ==
  ASSUME TypeInv, NEW kind, KindOfComps(kind)
  PROVE  \A r \in Overlap : r \in Ids /\ kind[r] = P.class
BY OverlapFacts, CompFacts DEF KindOfComps, Majority

LEMMA KindWhenSame ==
  ASSUME TypeInv, NEW kind, KindOfComps(kind), UNCHANGED comps, observed' = observed
  PROVE  KindOfComps(kind)'
<1>1. root' = root /\ cls' = cls
  BY DEF comps
<1>2. Ids' = Ids
  BY <1>1 DEF Ids
<1>3. QED
  BY <1>1, <1>2 DEF KindOfComps

LEMMA KindWhenUnited ==
  ASSUME TypeInv, NEW kind, KindOfComps(kind), observed' = observed,
         NEW w, NEW l, United(w, l), kind[w] = kind[l]
  PROVE  KindOfComps(kind)'
<1>1. /\ w \in Ids /\ l \in Ids /\ Ids' = Ids
      /\ \A i \in Ids : root'[i] = IF root[i] = l THEN w ELSE root[i]
      /\ \A i \in Ids, c \in Classes :
           cls'[i][c] = IF i = w THEN cls[w][c] + cls[l][c]
                        ELSE IF i = l THEN 0 ELSE cls[i][c]
  BY CompFacts DEF United
<1>2. /\ \A i \in Ids : kind[root[i]] = kind[i]
      /\ \A i \in Ids, c \in Classes : cls[i][c] > 0 => c = kind[i]
  BY DEF KindOfComps
<1>3. \A i \in Ids : kind[root'[i]] = kind[i]
  BY <1>1, <1>2
<1>4. ASSUME NEW i \in Ids, NEW c \in Classes, cls'[i][c] > 0 PROVE c = kind[i]
  <2>1. cls[w][c] \in Nat /\ cls[l][c] \in Nat
    BY <1>1, CompFacts
  <2>2. CASE i = w
    <3>1. cls[w][c] > 0 \/ cls[l][c] > 0
      BY <1>1, <1>4, <2>1, <2>2
    <3>2. QED
      BY <1>1, <1>2, <2>2, <3>1
  <2>3. CASE i # w
    BY <1>1, <1>2, <1>4, <2>3
  <2>4. QED
    BY <2>2, <2>3
<1>5. QED
  BY <1>1, <1>3, <1>4 DEF KindOfComps

LEMMA KindWhenJoined ==
  ASSUME TypeInv, NEW kind, KindOfComps(kind), Join, kind[home] = P.class
  PROVE  KindOfComps(kind)'
<1>1. /\ todo # <<>> /\ home \in Ids /\ root' = root /\ Ids' = Ids
      /\ \A i \in Ids, c \in Classes :
           cls'[i][c] = IF i = home /\ c = P.class THEN cls[i][c] + Cardinality(P.pts)
                                                   ELSE cls[i][c]
  BY JoinFacts
<1>2. \A i \in Ids, c \in Classes : cls'[i][c] > 0 => c = kind[i]
  BY <1>1 DEF KindOfComps
<1>3. \A i \in DOMAIN observed' : kind[observed'[i].home] = observed'[i].class
  <2> DEFINE o == [home |-> home, class |-> P.class, size |-> Cardinality(P.pts)]
             O == [home : Ids, class : Classes, size : Nat]
  <2>1. observed \in Seq(O) /\ observed' = Append(observed, o)
    BY ObservedFacts DEF Join
  <2>2. o \in O
    BY <1>1, ProposalFacts
  <2>3. o.home = home /\ o.class = P.class
    OBVIOUS
  <2> HIDE DEF o, O
  <2>4. ASSUME NEW i \in DOMAIN observed'
        PROVE  \/ observed'[i] = o
               \/ i \in DOMAIN observed /\ observed'[i] = observed[i]
    <3>1. Len(observed) \in Nat /\ DOMAIN observed = 1 .. Len(observed)
      BY <2>1
    <3>2. Append(observed, o) \in Seq(O) /\ Len(Append(observed, o)) = Len(observed) + 1
      BY <2>1, <2>2
    <3>3. DOMAIN Append(observed, o) = 1 .. Len(observed) + 1
      BY <3>2
    <3>4. \A j \in 1 .. Len(observed) + 1 :
            Append(observed, o)[j] = IF j = Len(observed) + 1 THEN o ELSE observed[j]
      BY <2>1, <2>2
    <3>5. QED
      BY <2>1, <3>1, <3>3, <3>4
  <2>5. QED
    BY <2>3, <2>4 DEF KindOfComps
<1>4. QED
  BY <1>1, <1>2, <1>3 DEF KindOfComps

\* A new component is of its proposal's class.
LEMMA KindWhenHome ==
  ASSUME TypeInv, todo # <<>>, NEW kind, KindOfComps(kind), observed' = observed,
         NEW h, Home(h)
  PROVE  \E m : KindOfComps(m)' /\ m[h] = P.class /\ \A i \in Ids : m[i] = kind[i]
<1>1. CASE h \in Primaries /\ UNCHANGED comps
  <2>1. h \in Overlap
    BY <1>1, OverlapFacts
  <2>2. KindOfComps(kind)' /\ kind[h] = P.class
    BY <1>1, <2>1, KindWhenSame, KindOfOverlap
  <2>3. QED
    BY <2>2
<1>2. CASE NewComp /\ h = Len(root) + 1
  <2>1. /\ h \notin Ids /\ Ids' = Ids \union {h} /\ root'[h] = h
        /\ \A i \in Ids : root'[i] = root[i] /\ cls'[i] = cls[i]
        /\ \A c \in Classes : cls'[h][c] = 0
    BY <1>2, NewCompFacts
  <2>2. P.class \in Classes /\ \A i \in Ids : root[i] \in Ids
    BY ProposalFacts, CompFacts
  <2>3. kind \in [Ids -> Classes] /\ \A i \in Ids : kind[root[i]] = kind[i]
    BY DEF KindOfComps
  <2>4. PICK m : m = [i \in Ids \union {h} |-> IF i = h THEN P.class ELSE kind[i]]
    OBVIOUS
  <2>5. /\ m \in [Ids' -> Classes] /\ m[h] = P.class /\ \A i \in Ids : m[i] = kind[i]
    BY <2>1, <2>2, <2>3, <2>4
  <2>6. \A i \in Ids' : m[root'[i]] = m[i]
    BY <2>1, <2>2, <2>3, <2>5
  <2>7. \A i \in Ids', c \in Classes : cls'[i][c] > 0 => c = m[i]
    BY <2>1, <2>5 DEF KindOfComps
  <2>8. \A i \in DOMAIN observed' : m[observed'[i].home] = observed'[i].class
    BY <2>5, ObservedFacts DEF KindOfComps
  <2>9. KindOfComps(m)'
    BY <2>5, <2>6, <2>7, <2>8 DEF KindOfComps
  <2>10. QED
    BY <2>5, <2>9
<1>3. QED
  BY <1>1, <1>2, HomeFacts

\* Each step keeps the classes apart, with one more component to give a class to at most.
LEMMA NextKind ==
  ASSUME TypeInv, NEW kind, KindOfComps(kind), KindOfLinks(kind), [Next]_vars
  PROVE  \E m : KindOfComps(m)' /\ KindOfLinks(m)'
<1>1. /\ \A i \in Ids : kind[root[i]] = kind[i]
      /\ \A k \in DOMAIN edges : \A a, b \in k : kind[a] = kind[b]
      /\ \A i \in 1 .. Len(touched) : kind[touched[i][1]] = kind[touched[i][2]]
      /\ step = "join" => kind[home] = P.class /\ \A r \in bridge : kind[r] = P.class
      /\ step = "sweep" => \A a \in DOMAIN best : kind[best[a]] = kind[a]
  BY DEF KindOfComps, KindOfLinks
<1>2. /\ touched \in Seq(Ids \X Ids) /\ \A k \in DOMAIN edges : k \subseteq Ids
      /\ bridge \subseteq Ids
  BY CompFacts DEF TypeInv, IndexType, FlowType
<1>3. \A i \in 1 .. Len(touched) : touched[i][1] \in Ids /\ touched[i][2] \in Ids
  BY <1>2, SeqElements
<1>4. \A k \in DOMAIN AtRoots(edges) : \A a, b \in k : kind[a] = kind[b]
  BY <1>1, <1>2, AtRootsDomain DEF Resolved
<1>5. CASE UNCHANGED vars
  <2>1. KindOfComps(kind)'
    BY <1>5, KindWhenSame DEF vars, history
  <2>2. KindOfLinks(kind)'
    BY <1>1, <1>5 DEF KindOfLinks, vars, cleanup, P
  <2>3. QED
    BY <2>1, <2>2
<1>6. CASE \E K : \E R \in SUBSET Points, ps \in Seq(Proposals) : Frame(K, R, ps)
  <2>1. /\ UNCHANGED comps /\ observed' = observed /\ UNCHANGED <<edges, touched, best>>
        /\ step' \in {"idle", "fold"}
    BY <1>6 DEF Frame, history, cleanup
  <2>2. KindOfComps(kind)'
    BY <2>1, KindWhenSame
  <2>3. KindOfLinks(kind)'
    BY <1>1, <2>1 DEF KindOfLinks
  <2>4. QED
    BY <2>2, <2>3
<1>7. ASSUME NEW h, FoldLegacy(h) PROVE \E m : KindOfComps(m)' /\ KindOfLinks(m)'
  <2>1. /\ Home(h) /\ todo # <<>> /\ todo' = todo /\ home' = h /\ bridge' = Targets \ {h}
        /\ step' = "join" /\ observed' = observed /\ UNCHANGED <<edges, touched>>
    BY <1>7 DEF FoldLegacy, history
  <2>2. PICK m : KindOfComps(m)' /\ m[h] = P.class /\ \A i \in Ids : m[i] = kind[i]
    BY <2>1, KindWhenHome
  <2>3. \A r \in bridge' : m[r] = P.class
    BY <2>1, <2>2, OverlapFacts, KindOfOverlap
  <2>4. /\ \A k \in DOMAIN edges' : \A a, b \in k : m[a] = m[b]
        /\ \A i \in 1 .. Len(touched') : m[touched'[i][1]] = m[touched'[i][2]]
    BY <1>1, <1>2, <1>3, <2>1, <2>2
  <2>5. P' = P
    BY <2>1 DEF P
  <2>6. KindOfLinks(m)'
    BY <2>1, <2>2, <2>3, <2>4, <2>5 DEF KindOfLinks
  <2>7. QED
    BY <2>2, <2>6
<1>8. ASSUME NEW h, FoldGraph(h) PROVE \E m : KindOfComps(m)' /\ KindOfLinks(m)'
  <2>1. /\ Home(h) /\ Deposit(h) /\ todo # <<>> /\ todo' = todo /\ home' = h /\ bridge' = bridge
        /\ step = "fold" /\ step' = "join" /\ observed' = observed
    BY <1>8 DEF FoldGraph
  <2>2. PICK m : KindOfComps(m)' /\ m[h] = P.class /\ \A i \in Ids : m[i] = kind[i]
    BY <2>1, KindWhenHome
  <2>3. PICK I : I = Ids \union {h}
    OBVIOUS
  <2>4. /\ \A k \in DOMAIN edges' : k \in DOMAIN edges \/ \E r \in Overlap \ {h} : k = {h, r}
        /\ \A i \in 1 .. Len(touched') :
             \/ i \in 1 .. Len(touched) /\ touched'[i] = touched[i]
             \/ \E r \in Overlap : touched'[i] = <<h, r>> \/ touched'[i] = <<r, h>>
    <3>1. Ids \subseteq I /\ h \in I
      BY <2>3
    <3>2. QED
      BY <2>1, <3>1, DepositFacts
  <2>5. \A r \in Overlap : m[r] = P.class
    BY <2>2, KindOfOverlap
  <2>6. \A k \in DOMAIN edges' : \A a, b \in k : m[a] = m[b]
    BY <1>1, <1>2, <2>2, <2>4, <2>5
  <2>7. \A i \in 1 .. Len(touched') : m[touched'[i][1]] = m[touched'[i][2]]
    BY <1>1, <1>3, <2>2, <2>4, <2>5
  <2>8. P' = P /\ bridge' = {}
    BY <2>1 DEF P, TypeInv, FlowType
  <2>9. KindOfLinks(m)'
    BY <2>1, <2>2, <2>6, <2>7, <2>8 DEF KindOfLinks
  <2>10. QED
    BY <2>2, <2>9
<1>9. ASSUME NEW t, Bridge(t) PROVE \E m : KindOfComps(m)' /\ KindOfLinks(m)'
  <2>1. /\ step = "join" /\ t \in bridge /\ home' = Winner(home, t) /\ bridge' = bridge \ {t}
        /\ UNCHANGED <<edges, touched, observed, todo, step>>
    BY <1>9 DEF Bridge, history
  <2>2. PICK w, l : w = Winner(home, t) /\ l = Loser(home, t)
    OBVIOUS
  <2>3. United(w, l) /\ {w, l} = {home, t}
    BY <1>9, <2>2, BridgeType
  <2>4. kind[w] = P.class /\ kind[l] = P.class
    BY <1>1, <2>1, <2>3
  <2>5. KindOfComps(kind)'
    BY <2>1, <2>3, <2>4, KindWhenUnited
  <2>6. P' = P /\ home' = w
    BY <2>1, <2>2 DEF P
  <2>7. KindOfLinks(kind)'
    BY <1>1, <2>1, <2>4, <2>6 DEF KindOfLinks
  <2>8. QED
    BY <2>5, <2>7
<1>10. CASE Drop
  <2>1. /\ UNCHANGED comps /\ UNCHANGED <<edges, touched, observed, step>> /\ step = "fold"
    BY <1>10 DEF Drop, history
  <2>2. KindOfComps(kind)'
    BY <2>1, KindWhenSame
  <2>3. KindOfLinks(kind)'
    BY <1>1, <2>1 DEF KindOfLinks
  <2>4. QED
    BY <2>2, <2>3
<1>11. CASE DepositOnly
  <2>1. /\ UNCHANGED comps /\ UNCHANGED <<observed, step>> /\ step = "fold"
        /\ UNCHANGED <<edges, touched>> \/ \E rep \in Overlap : Deposit(rep)
    BY <1>11 DEF DepositOnly
  <2>2. KindOfComps(kind)'
    BY <2>1, KindWhenSame
  <2>3. CASE UNCHANGED <<edges, touched>>
    BY <1>1, <2>1, <2>2, <2>3 DEF KindOfLinks
  <2>4. ASSUME NEW rep \in Overlap, Deposit(rep) PROVE KindOfLinks(kind)'
    <3>1. \A r \in Overlap : r \in Ids /\ kind[r] = P.class
      BY KindOfOverlap
    <3>2. PICK I : I = Ids
      OBVIOUS
    <3>3. /\ \A k \in DOMAIN edges' : k \in DOMAIN edges \/ \E r \in Overlap \ {rep} : k = {rep, r}
          /\ \A i \in 1 .. Len(touched') :
               \/ i \in 1 .. Len(touched) /\ touched'[i] = touched[i]
               \/ \E r \in Overlap : touched'[i] = <<rep, r>> \/ touched'[i] = <<r, rep>>
      BY <2>4, <3>1, <3>2, DepositFacts
    <3>4. \A k \in DOMAIN edges' : \A a, b \in k : kind[a] = kind[b]
      BY <1>1, <3>1, <3>3
    <3>5. \A i \in 1 .. Len(touched') : kind[touched'[i][1]] = kind[touched'[i][2]]
      BY <1>1, <3>1, <3>3
    <3>6. QED
      BY <2>1, <3>4, <3>5 DEF KindOfLinks
  <2>5. QED
    BY <2>1, <2>2, <2>3, <2>4
<1>12. CASE Join
  <2>1. /\ step = "join" /\ step' = "fold" /\ UNCHANGED <<edges, touched>>
    BY <1>12 DEF Join
  <2>2. KindOfComps(kind)'
    BY <1>1, <1>12, <2>1, KindWhenJoined
  <2>3. KindOfLinks(kind)'
    BY <1>1, <2>1 DEF KindOfLinks
  <2>4. QED
    BY <2>2, <2>3
<1>13. CASE EndFold
  <2>1. /\ UNCHANGED comps /\ UNCHANGED <<edges, observed>> /\ step' \in {"merge", "idle"}
    BY <1>13 DEF EndFold, history
  <2>2. KindOfComps(kind)'
    BY <2>1, KindWhenSame
  <2>3. \A i \in 1 .. Len(touched') : kind[touched'[i][1]] = kind[touched'[i][2]]
    <3> DEFINE agreed == {k \in ToSet(touched) : Agreed(AtRoots(edges), {k[1], k[2]})}
    <3>1. \A k \in agreed : kind[k[1]] = kind[k[2]]
      BY <1>1, <1>2, SeqElements DEF ToSet
    <3>2. touched' = touched \/ touched' = Kept(touched, agreed)[Len(touched)]
      BY <1>13 DEF EndFold
    <3> HIDE DEF agreed
    <3>3. Kept(touched, agreed)[Len(touched)] \in Seq(agreed)
      BY <1>2, KeptType
    <3>4. CASE touched' \in Seq(agreed)
      BY <3>1, <3>4, SeqElements
    <3>5. QED
      BY <1>1, <3>2, <3>3, <3>4
  <2>4. KindOfLinks(kind)'
    BY <1>1, <2>1, <2>3 DEF KindOfLinks
  <2>5. QED
    BY <2>2, <2>4
<1>14. CASE Merge
  <2>1. /\ UNCHANGED <<edges, observed, step>> /\ step = "merge" /\ touched' = Tail(touched)
        /\ touched # <<>>
    BY <1>14 DEF Merge, history
  <2>2. Len(touched) \in Nat \ {0} /\ Head(touched) = touched[1]
    BY <1>2, <2>1
  <2>3. \A i \in 1 .. Len(touched') : kind[touched'[i][1]] = kind[touched'[i][2]]
    <3>1. Len(touched') = Len(touched) - 1
      BY <1>2, <2>1
    <3>2. \A i \in 1 .. Len(touched) - 1 : touched'[i] = touched[i + 1]
      BY <1>2, <2>1
    <3>3. QED
      BY <1>1, <2>2, <3>1, <3>2
  <2>4. KindOfLinks(kind)'
    BY <1>1, <2>1, <2>3 DEF KindOfLinks
  <2>5. KindOfComps(kind)'
    <3>1. CASE UNCHANGED comps
      BY <2>1, <3>1, KindWhenSame
    <3>2. ASSUME NEW w, NEW l, United(w, l), {w, l} = {root[Head(touched)[1]], root[Head(touched)[2]]}
          PROVE  KindOfComps(kind)'
      <4>1. kind[touched[1][1]] = kind[touched[1][2]] /\ touched[1][1] \in Ids /\ touched[1][2] \in Ids
        BY <1>1, <1>3, <2>2
      <4>2. kind[w] = kind[l]
        <5>1. PICK x, y : x = touched[1][1] /\ y = touched[1][2]
          OBVIOUS
        <5>2. kind[root[x]] = kind[root[y]]
          BY <1>1, <4>1, <5>1
        <5>3. {w, l} = {root[x], root[y]}
          BY <2>2, <3>2, <5>1
        <5>4. QED
          BY <5>2, <5>3
      <4>3. QED
        BY <2>1, <3>2, <4>2, KindWhenUnited
    <3>3. QED
      BY <1>14, <3>1, <3>2, MergeFacts
  <2>6. QED
    BY <2>4, <2>5
<1>15. CASE EndMerge
  <2>1. /\ UNCHANGED comps /\ UNCHANGED <<observed, touched>> /\ step' = "idle"
        /\ edges' \in {edges, AtRoots(edges)}
    BY <1>15 DEF EndMerge, history
  <2>2. KindOfComps(kind)'
    BY <2>1, KindWhenSame
  <2>3. KindOfLinks(kind)'
    BY <1>1, <1>4, <2>1 DEF KindOfLinks
  <2>4. QED
    BY <2>2, <2>3
<1>16. CASE Finish
  <2>1. /\ UNCHANGED comps /\ UNCHANGED <<edges, touched, observed>> /\ step' \in {"snapshot", "done"}
    BY <1>16 DEF Finish, history
  <2>2. KindOfComps(kind)'
    BY <2>1, KindWhenSame
  <2>3. KindOfLinks(kind)'
    BY <1>1, <2>1 DEF KindOfLinks
  <2>4. QED
    BY <2>2, <2>3
<1>17. CASE Snapshot
  <2>1. /\ UNCHANGED comps /\ UNCHANGED <<edges, touched, observed>> /\ step' = "sweep"
    BY <1>17 DEF Snapshot, history
  <2>2. KindOfComps(kind)'
    BY <2>1, KindWhenSame
  <2>3. \A a \in DOMAIN best' : kind[best'[a]] = kind[a]
    <3>1. \A a \in DOMAIN best' : {a, best'[a]} \in DOMAIN AtRoots(edges)
      BY <1>17, SnapshotFacts
    <3>2. ASSUME NEW a \in DOMAIN best' PROVE kind[best'[a]] = kind[a]
      <4>1. PICK b : b = best'[a]
        OBVIOUS
      <4>2. {a, b} \in DOMAIN AtRoots(edges)
        BY <3>1, <4>1
      <4>3. kind[b] = kind[a]
        BY <1>4, <4>2
      <4>4. QED
        BY <4>1, <4>3
    <3>3. QED
      BY <3>2
  <2>4. KindOfLinks(kind)'
    BY <1>1, <2>1, <2>3 DEF KindOfLinks
  <2>5. QED
    BY <2>2, <2>4
<1>18. CASE Sweep
  <2>1. /\ UNCHANGED <<edges, touched, observed, step, best>> /\ step = "sweep"
    BY <1>18 DEF Sweep, history
  <2>2. KindOfLinks(kind)'
    BY <1>1, <2>1 DEF KindOfLinks
  <2>3. CASE UNCHANGED comps
    BY <2>1, <2>2, <2>3, KindWhenSame
  <2>4. ASSUME NEW w, NEW l, United(w, l), next \in DOMAIN best, {w, l} = {next, root[best[next]]}
        PROVE  KindOfComps(kind)'
    <3>1. best[next] \in Ids /\ kind[best[next]] = kind[next]
      BY <1>1, <2>1, <2>4 DEF TypeInv, FlowType
    <3>2. kind[w] = kind[l]
      BY <1>1, <2>4, <3>1
    <3>3. QED
      BY <2>1, <2>4, <3>2, KindWhenUnited
  <2>5. QED
    BY <1>18, <2>2, <2>3, <2>4, SweepFacts
<1>19. CASE EndSweep
  <2>1. /\ UNCHANGED comps /\ UNCHANGED <<edges, touched, observed>> /\ step' \in {"snapshot", "done"}
    BY <1>19 DEF EndSweep, history
  <2>2. KindOfComps(kind)'
    BY <2>1, KindWhenSame
  <2>3. KindOfLinks(kind)'
    BY <1>1, <2>1 DEF KindOfLinks
  <2>4. QED
    BY <2>2, <2>3
<1>20. QED
  BY <1>5, <1>6, <1>7, <1>8, <1>9, <1>10, <1>11, <1>12, <1>13, <1>14, <1>15, <1>16, <1>17,
     <1>18, <1>19, Steps

\* Some class can be given to every component; it is what makes purity inductive.
ClassesApart == \E kind : KindOfComps(kind) /\ KindOfLinks(kind)

LEMMA NextApart == TypeInv /\ ClassesApart /\ [Next]_vars => ClassesApart'
<1> SUFFICES ASSUME TypeInv, ClassesApart, [Next]_vars PROVE ClassesApart'
  OBVIOUS
<1>1. PICK kind : KindOfComps(kind) /\ KindOfLinks(kind)
  BY DEF ClassesApart
<1>2. QED
  BY <1>1, NextKind DEF ClassesApart

LEMMA InitApart == Init => ClassesApart
<1> SUFFICES ASSUME Init PROVE ClassesApart
  OBVIOUS
<1>1. Ids = {} /\ DOMAIN edges = {} /\ touched = <<>> /\ observed = <<>> /\ step = "idle"
  BY DEF Init, Ids, NoEdges
<1>2. PICK kind : kind = [i \in {} |-> 0]
  OBVIOUS
<1>3. KindOfComps(kind)
  BY <1>1, <1>2 DEF KindOfComps
<1>4. KindOfLinks(kind)
  BY <1>1 DEF KindOfLinks
<1>5. QED
  BY <1>3, <1>4 DEF ClassesApart

\* Proposals of two classes never end up in one component, however many joins, bridges,
\* merges and absorptions connect them.
THEOREM PurityHolds == Spec => []ComponentsArePure
<1>1. TypeInv /\ ClassesApart => ComponentsArePure
  <2> SUFFICES ASSUME TypeInv, ClassesApart, NEW i \in DOMAIN observed, NEW j \in DOMAIN observed,
                      root[observed[i].home] = root[observed[j].home]
               PROVE  observed[i].class = observed[j].class
    BY DEF ComponentsArePure
  <2>1. PICK kind : KindOfComps(kind)
    BY DEF ClassesApart
  <2>2. QED
    BY <2>1, ObservedFacts DEF KindOfComps
<1>2. QED
  BY <1>1, InitType, NextType, InitApart, NextApart, PTL DEF Spec
-----------------------------------------------------------------------------
\* Support comes with a vote.
Voted == \A i \in Ids : support[i] > 0 => \E c \in Classes : cls[i][c] > 0

LEMMA NextVoted == TypeInv /\ Voted /\ [Next]_vars => Voted'
<1> SUFFICES ASSUME TypeInv, Voted, [Next]_vars PROVE Voted'
  OBVIOUS
<1>1. CASE UNCHANGED comps
  BY <1>1 DEF Voted, comps, Ids
<1>2. CASE NewComp
  <2>1. PICK n : n = Len(root) + 1
    OBVIOUS
  <2>2. /\ Ids' = Ids \union {n} /\ support'[n] = 0
        /\ \A i \in Ids : support'[i] = support[i] /\ cls'[i] = cls[i]
    BY <1>2, <2>1, NewCompFacts
  <2>3. QED
    BY <2>2 DEF Voted
<1>3. ASSUME NEW w, NEW l, United(w, l) PROVE Voted'
  <2>1. /\ w \in Ids /\ l \in Ids /\ Ids' = Ids
        /\ \A i \in Ids : support'[i] = IF i = w THEN support[w] + support[l]
                                        ELSE IF i = l THEN 0 ELSE support[i]
        /\ \A i \in Ids, c \in Classes :
             cls'[i][c] = IF i = w THEN cls[w][c] + cls[l][c]
                          ELSE IF i = l THEN 0 ELSE cls[i][c]
    BY <1>3, CompFacts DEF United
  <2>2. ASSUME NEW i \in Ids, support'[i] > 0 PROVE \E c \in Classes : cls'[i][c] > 0
    <3>1. CASE i = w
      <4>1. support[w] \in Nat /\ support[l] \in Nat /\ support'[i] = support[w] + support[l]
        BY <2>1, <3>1, CompFacts
      <4>2. support[w] > 0 \/ support[l] > 0
        BY <2>2, <4>1
      <4>3. PICK c \in Classes : cls[w][c] > 0 \/ cls[l][c] > 0
        BY <2>1, <4>2 DEF Voted
      <4>4. cls[w][c] \in Nat /\ cls[l][c] \in Nat
        BY <2>1, CompFacts
      <4>5. cls'[i][c] = cls[w][c] + cls[l][c]
        BY <2>1, <3>1
      <4>6. QED
        BY <4>3, <4>4, <4>5
    <3>2. CASE i # w
      BY <2>1, <2>2, <3>2 DEF Voted
    <3>3. QED
      BY <3>1, <3>2
  <2>3. QED
    BY <2>1, <2>2 DEF Voted
<1>4. CASE Join
  <2>1. /\ todo # <<>> /\ home \in Ids /\ Ids' = Ids
        /\ \A i \in Ids :
              /\ support'[i] = IF i = home THEN support[i] + 1 ELSE support[i]
              /\ \A c \in Classes :
                   cls'[i][c] = IF i = home /\ c = P.class THEN cls[i][c] + Cardinality(P.pts)
                                                          ELSE cls[i][c]
    BY <1>4, JoinFacts
  <2>2. P.class \in Classes /\ Cardinality(P.pts) \in Nat \ {0}
    BY <2>1, ProposalFacts
  <2>3. cls[home][P.class] \in Nat
    BY <2>1, <2>2, CompFacts
  <2>4. cls'[home][P.class] > 0
    BY <2>1, <2>2, <2>3
  <2>5. \A i \in Ids \ {home} : support'[i] > 0 => \E c \in Classes : cls'[i][c] > 0
    BY <2>1 DEF Voted
  <2>6. QED
    BY <2>1, <2>2, <2>4, <2>5 DEF Voted
<1>5. QED
  BY <1>1, <1>2, <1>3, <1>4, CompSteps

\* A component that was voted for has a dominant class.
LEMMA MajorityExists ==
  ASSUME TypeInv, ClassesApart, Voted, NEW r \in Ids, support[r] > 0
  PROVE  Majority(r) # {}
<1>1. PICK kind : KindOfComps(kind)
  BY DEF ClassesApart
<1>2. PICK c \in Classes : cls[r][c] > 0
  BY DEF Voted
<1>3. \A d \in Classes : cls[r][d] \in Nat
  BY CompFacts
<1>4. c = kind[r] /\ \A d \in Classes : cls[r][d] > 0 => d = kind[r]
  BY <1>1, <1>2 DEF KindOfComps
<1>5. \A d \in Classes : cls[r][d] <= cls[r][c]
  BY <1>2, <1>3, <1>4
<1>6. QED
  BY <1>2, <1>5 DEF Majority

\* The order in which promoted components are given a contested point is strict and total.
LEMMA BetterIsOrder ==
  ASSUME TypeInv
  PROVE  /\ \A r, s \in Ids : r # s => Better(r, s) \/ Better(s, r)
         /\ \A r, s \in Ids : ~ (Better(r, s) /\ Better(s, r))
         /\ \A r, s, t \in Ids : Better(r, s) /\ Better(s, t) => Better(r, t)
<1> DEFINE size(i) == Cardinality(vox[i])
<1>1. ASSUME NEW i \in Ids PROVE i \in Nat /\ support[i] \in Nat /\ size(i) \in Nat
  <2>1. IsFiniteSet(vox[i])
    BY CompFacts, ObjectsAssumption, FS_Subset
  <2>2. QED
    BY <2>1, CompFacts, FS_CardinalityType
<1>2. \A r, s : Better(r, s) <=>
        \/ support[r] > support[s]
        \/ /\ support[r] = support[s]
           /\ size(r) > size(s) \/ (size(r) = size(s) /\ r < s)
  BY DEF Better
<1> HIDE DEF size
<1>3. \A r, s \in Ids : r # s => Better(r, s) \/ Better(s, r)
  BY <1>1, <1>2
<1>4. \A r, s \in Ids : ~ (Better(r, s) /\ Better(s, r))
  BY <1>1, <1>2
<1>5. ASSUME NEW r \in Ids, NEW s \in Ids, NEW t \in Ids, Better(r, s), Better(s, t)
      PROVE  Better(r, t)
  BY <1>1, <1>2, <1>5
<1>6. QED
  BY <1>3, <1>4, <1>5

LEMMA SameOwner ==
  ASSUME TypeInv, NothingIsStolen, ~ov, NEW p \in Points, NEW i \in owners[p], NEW j \in owners[p]
  PROVE  i = j
<1>1. owners[p] \in SUBSET Ids
  BY DEF TypeInv, IndexType
<1>2. IsFiniteSet(owners[p]) /\ Cardinality(owners[p]) <= 1
  BY <1>1, OverlapFinite DEF NothingIsStolen
<1>3. SUFFICES ASSUME i # j PROVE FALSE
  OBVIOUS
<1>4. IsFiniteSet({i}) /\ Cardinality({i}) = 1 /\ j \notin {i}
  BY <1>3, FS_Singleton
<1>5. Cardinality({i} \union {j}) = 2
  <2>1. PICK one : one = {i}
    OBVIOUS
  <2>2. Cardinality(one \union {j}) = Cardinality(one) + 1
    BY <1>4, <2>1, FS_AddElement
  <2>3. QED
    BY <1>4, <2>1, <2>2
<1>6. {i} \union {j} \subseteq owners[p]
  OBVIOUS
<1>7. Cardinality({i} \union {j}) <= Cardinality(owners[p]) /\ Cardinality(owners[p]) \in Nat
  BY <1>2, <1>6, FS_Subset, FS_CardinalityType
<1>8. QED
  BY <1>2, <1>5, <1>7

\* What ListIsExact says of the list between two frames.
Exact ==
  /\ \A r \in DOMAIN cache :
       /\ r \in Promoted /\ cache[r].level = support[r]
       /\ cache[r].class \in Majority(r)
       /\ cache[r].points # {} /\ cache[r].points \subseteq vox[r]
  /\ \A r, s \in DOMAIN cache :
       r # s => cache[r].points \intersect cache[s].points = {}

\* The object tier's invariant but for the list: the types, the index, the classes, the votes.
TierInv == TypeInv /\ OwnersTellTheHolders /\ NothingIsStolen /\ ClassesApart /\ Voted

LEMMA ListingIsExact ==
  ASSUME TierInv, UNCHANGED comps, cache' = Listing
  PROVE  Exact'
<1> USE DEF TierInv
<1>1. root' = root /\ vox' = vox /\ cls' = cls /\ support' = support
  BY DEF comps
<1>2. Ids' = Ids /\ Roots' = Roots
  BY <1>1 DEF Ids, Roots
<1>3. Promoted' = Promoted
  BY <1>1, <1>2 DEF Promoted
<1>4. \A r : Majority(r)' = Majority(r)
  BY <1>1 DEF Majority
<1>5. Promoted \subseteq Ids /\ \A r \in Promoted : r \in Roots /\ support[r] > 0
  BY CompFacts, ObjectsAssumption DEF Promoted
<1>6. /\ DOMAIN cache' = {s \in Promoted : Shown(s) # {}}
      /\ \A r \in DOMAIN cache' : /\ cache'[r].class = CHOOSE c \in Majority(r) : TRUE
                                  /\ cache'[r].points = Shown(r)
                                  /\ cache'[r].level = support[r]
  BY DEF Listing
<1>7. \A r \in DOMAIN cache' : cache'[r].class \in Majority(r)
  <2>1. \A r \in DOMAIN cache' : Majority(r) # {}
    BY <1>5, <1>6, MajorityExists
  <2>2. QED
    BY <1>6, <2>1
<1>8. \A r : Shown(r) \subseteq vox[r]
  BY DEF Shown, Holds
<1>9. ASSUME NEW r \in Promoted, NEW s \in Promoted, r # s, NEW p \in Shown(r), p \in Shown(s)
      PROVE  FALSE
  <2>1. p \in Points /\ p \in vox[r] /\ p \in vox[s] /\ Holds(r, p) /\ Holds(s, p)
    BY <1>9 DEF Shown, Holds, TypeInv
  <2>2. CASE ov
    BY <1>5, <1>9, <2>1, <2>2, BetterIsOrder DEF Holds
  <2>3. CASE ~ov
    <3>1. PICK i \in owners[p] : root[i] = r
      BY <1>5, <2>1 DEF OwnersTellTheHolders
    <3>2. PICK j \in owners[p] : root[j] = s
      BY <1>5, <2>1 DEF OwnersTellTheHolders
    <3>3. i = j
      BY <2>1, <2>3, SameOwner
    <3>4. QED
      BY <1>9, <3>1, <3>2, <3>3
  <2>4. QED
    BY <2>2, <2>3
<1>10. \A r, s \in DOMAIN cache' : r # s => cache'[r].points \intersect cache'[s].points = {}
  BY <1>6, <1>9
<1>11. QED
  BY <1>1, <1>3, <1>4, <1>6, <1>7, <1>8, <1>10 DEF Exact

LEMMA ExactKept ==
  ASSUME Exact, UNCHANGED comps, cache' = cache
  PROVE  Exact'
<1>1. root' = root /\ vox' = vox /\ cls' = cls /\ support' = support
  BY DEF comps
<1>2. Ids' = Ids /\ Roots' = Roots
  BY <1>1 DEF Ids, Roots
<1>3. Promoted' = Promoted
  BY <1>1, <1>2 DEF Promoted
<1>4. \A r : Majority(r)' = Majority(r)
  BY <1>1 DEF Majority
<1>5. QED
  BY <1>1, <1>3, <1>4 DEF Exact
-----------------------------------------------------------------------------
\* The two flags remember that the list is behind the components, and no call returns before
\* it has caught up; inside a call the list may be behind while a join is under way.
FlagsTell ==
  /\ step \in {"idle", "done"} => ~changed /\ ~merged
  /\ step \in {"fold", "join"} => ~merged
  /\ step \in {"snapshot", "sweep"} => ~changed

ListUpToDate == step # "join" /\ ~changed /\ ~merged => Exact

ListInv == FlagsTell /\ ListUpToDate

LEMMA NextList == TierInv /\ ListInv /\ [Next]_vars => ListInv'
<1> SUFFICES ASSUME TierInv, ListInv, [Next]_vars PROVE ListInv'
  OBVIOUS
<1> USE DEF ListInv
<1>1. changed \in BOOLEAN /\ merged \in BOOLEAN /\ TypeInv
  BY DEF TierInv, TypeInv, FlowType
<1>2. CASE UNCHANGED vars
  <2>1. UNCHANGED comps /\ UNCHANGED <<step, changed, merged, cache>>
    BY <1>2 DEF vars
  <2>2. QED
    BY <2>1, ExactKept DEF FlagsTell, ListUpToDate
<1>3. CASE \/ \E K : \E R \in SUBSET Points, ps \in Seq(Proposals) : Frame(K, R, ps)
           \/ Drop \/ DepositOnly
  <2>1. /\ UNCHANGED comps /\ UNCHANGED <<changed, merged, cache>>
        /\ \/ step = "idle" /\ step' \in {"idle", "fold"}
           \/ step = "fold" /\ step' = "fold"
    BY <1>3 DEF Frame, Drop, DepositOnly
  <2>2. QED
    BY <2>1, ExactKept DEF FlagsTell, ListUpToDate
<1>4. CASE \E h : FoldLegacy(h) \/ FoldGraph(h)
  BY <1>4 DEF FoldLegacy, FoldGraph, FlagsTell, ListUpToDate
<1>5. CASE \E t : Bridge(t)
  BY <1>5 DEF Bridge, FlagsTell, ListUpToDate
<1>6. CASE Join
  BY <1>6 DEF Join, FlagsTell, ListUpToDate
<1>7. CASE EndFold
  <2>1. CASE touched # <<>>
    <3>1. UNCHANGED comps /\ UNCHANGED <<cache, changed, merged>> /\ step = "fold" /\ step' = "merge"
      BY <1>7, <2>1 DEF EndFold
    <3>2. QED
      BY <3>1, ExactKept DEF FlagsTell, ListUpToDate
  <2>2. CASE touched = <<>>
    <3>1. /\ UNCHANGED comps /\ RebuildIf(changed) /\ merged' = merged /\ step = "fold"
          /\ step' = "idle" /\ changed' = FALSE
      BY <1>7, <2>2 DEF EndFold
    <3>2. Exact'
      <4>1. CASE changed
        BY <3>1, <4>1, ListingIsExact DEF RebuildIf
      <4>2. CASE ~changed
        BY <1>1, <3>1, <4>2, ExactKept DEF RebuildIf, FlagsTell, ListUpToDate
      <4>3. QED
        BY <4>1, <4>2
    <3>3. QED
      BY <3>1, <3>2 DEF FlagsTell, ListUpToDate
  <2>3. QED
    BY <2>1, <2>2
<1>8. CASE Merge
  <2>1. step = "merge" /\ step' = step /\ UNCHANGED <<cache, changed>>
    BY <1>8 DEF Merge
  <2>2. (UNCHANGED comps /\ merged' = merged) \/ merged' = TRUE
    BY <1>1, <1>8, MergeFacts
  <2>3. QED
    BY <2>1, <2>2, ExactKept DEF FlagsTell, ListUpToDate
<1>9. CASE EndMerge
  <2>1. /\ UNCHANGED comps /\ RebuildIf(changed \/ merged) /\ step = "merge" /\ step' = "idle"
        /\ changed' = FALSE /\ merged' = FALSE
    BY <1>9 DEF EndMerge
  <2>2. Exact'
    <3>1. CASE changed \/ merged
      BY <2>1, <3>1, ListingIsExact DEF RebuildIf
    <3>2. CASE ~ (changed \/ merged)
      BY <2>1, <3>2, ExactKept DEF RebuildIf, ListUpToDate
    <3>3. QED
      BY <3>1, <3>2
  <2>3. QED
    BY <2>1, <2>2 DEF FlagsTell, ListUpToDate
<1>10. CASE Finish
  <2>1. /\ UNCHANGED comps /\ UNCHANGED <<cache, changed, merged>> /\ step = "idle"
        /\ step' \in {"snapshot", "done"}
    BY <1>10 DEF Finish
  <2>2. QED
    BY <2>1, ExactKept DEF FlagsTell, ListUpToDate
<1>11. CASE Snapshot
  <2>1. /\ UNCHANGED comps /\ UNCHANGED <<cache, changed, merged>> /\ step = "snapshot"
        /\ step' = "sweep"
    BY <1>11 DEF Snapshot
  <2>2. QED
    BY <2>1, ExactKept DEF FlagsTell, ListUpToDate
<1>12. CASE Sweep
  <2>1. step = "sweep" /\ step' = step /\ UNCHANGED <<cache, changed>>
    BY <1>12 DEF Sweep
  <2>2. (UNCHANGED comps /\ merged' = merged) \/ merged' = TRUE
    BY <1>1, <1>12, SweepFacts
  <2>3. QED
    BY <2>1, <2>2, ExactKept DEF FlagsTell, ListUpToDate
<1>13. CASE EndSweep
  <2>1. UNCHANGED comps /\ changed' = changed /\ step = "sweep"
    BY <1>13 DEF EndSweep
  <2>2. CASE progress
    <3>1. step' = "snapshot" /\ UNCHANGED <<cache, merged>>
      BY <1>13, <2>2 DEF EndSweep
    <3>2. QED
      BY <2>1, <3>1, ExactKept DEF FlagsTell, ListUpToDate
  <2>3. CASE ~progress
    <3>1. step' = "done" /\ RebuildIf(merged) /\ merged' = FALSE
      BY <1>13, <2>3 DEF EndSweep
    <3>2. Exact'
      <4>1. CASE merged
        BY <2>1, <3>1, <4>1, ListingIsExact DEF RebuildIf
      <4>2. CASE ~merged
        BY <2>1, <3>1, <4>2, ExactKept DEF RebuildIf, FlagsTell, ListUpToDate
      <4>3. QED
        BY <4>1, <4>2
    <3>3. QED
      BY <2>1, <3>1, <3>2 DEF FlagsTell, ListUpToDate
  <2>4. QED
    BY <2>2, <2>3
<1>14. QED
  BY <1>1, <1>2, <1>3, <1>4, <1>5, <1>6, <1>7, <1>8, <1>9, <1>10, <1>11, <1>12, <1>13, Steps

LEMMA InitTier == Init => TierInv /\ ListInv
<1> SUFFICES ASSUME Init PROVE TierInv /\ ListInv
  OBVIOUS
<1>1. Ids = {} /\ owners = [p \in Points |-> {}] /\ cache = NoEdges
  BY DEF Init, Ids
<1>2. OwnersTellTheHolders /\ Voted
  BY <1>1 DEF OwnersTellTheHolders, Voted
<1>3. NothingIsStolen
  BY <1>1, FS_EmptySet DEF NothingIsStolen
<1>4. Exact
  BY <1>1 DEF Exact, NoEdges
<1>5. ListInv
  BY <1>4 DEF Init, ListInv, FlagsTell, ListUpToDate
<1>6. QED
  BY <1>2, <1>3, <1>5, InitType, InitApart DEF TierInv

LEMMA NextTier == TierInv /\ [Next]_vars => TierInv'
BY NextType, NextOwners, NextApart, NextVoted DEF TierInv

\* The list the next frames, the publisher and the store read is the one the components
\* would give now, although frames without proposals or merges do not rebuild it.
THEOREM ListHolds == Spec => []ListIsExact
<1>1. TierInv /\ ListInv => ListIsExact
  BY DEF ListInv, FlagsTell, ListUpToDate, ListIsExact, Exact
<1>2. QED
  BY <1>1, InitTier, NextTier, NextList, PTL DEF Spec
-----------------------------------------------------------------------------
\* Among promoted components that hold a point one is better than all the others.
LEMMA BestHolder ==
  ASSUME TypeInv, NEW H \in SUBSET Ids, H # {}
  PROVE  \E r \in H : \A s \in H \ {r} : Better(r, s)
<1> DEFINE HasBest(G) == \E r \in G : \A s \in G \ {r} : Better(r, s)
           Good == {m \in Nat : \A G \in SUBSET Ids : G # {} /\ G \subseteq 1 .. m => HasBest(G)}
<1>1. Len(root) \in Nat /\ Ids = 1 .. Len(root)
  BY CompFacts
<1>2. 0 \in Good
  OBVIOUS
<1>3. ASSUME NEW m \in Nat, m \in Good PROVE m + 1 \in Good
  <2> SUFFICES ASSUME NEW G \in SUBSET Ids, G # {}, G \subseteq 1 .. m + 1 PROVE HasBest(G)
    OBVIOUS
  <2>1. G \ {m + 1} \subseteq 1 .. m
    OBVIOUS
  <2>2. CASE G \ {m + 1} = {}
    BY <2>2
  <2>3. CASE G \ {m + 1} # {}
    <3>1. PICK b \in G \ {m + 1} : \A s \in (G \ {m + 1}) \ {b} : Better(b, s)
      BY <1>3, <2>1, <2>3
    <3>2. CASE m + 1 \notin G
      BY <3>1, <3>2
    <3>3. CASE m + 1 \in G /\ Better(b, m + 1)
      BY <3>1, <3>3
    <3>4. CASE m + 1 \in G /\ Better(m + 1, b)
      <4>1. ASSUME NEW s \in G \ {m + 1} PROVE Better(m + 1, s)
        <5>1. s \in Ids /\ b \in Ids /\ m + 1 \in Ids
          BY <3>4
        <5>2. s = b \/ Better(b, s)
          BY <3>1
        <5>3. QED
          BY <3>4, <5>1, <5>2, BetterIsOrder
      <4>2. QED
        BY <3>4, <4>1
    <3>5. QED
      BY <3>1, <3>2, <3>3, <3>4, BetterIsOrder
  <2>4. QED
    BY <2>2, <2>3
<1>4. Len(root) \in Good
  <2> HIDE DEF Good
  <2>1. QED
    BY <1>1, <1>2, <1>3, SetInduction
<1>5. QED
  BY <1>1, <1>4

\* A rebuilt list gives each live point of a promoted component to one of them.
LEMMA ListingIsPartition ==
  ASSUME TypeInv
  PROVE  UNION {Listing[r].points : r \in DOMAIN Listing}
           = live \intersect UNION {vox[r] : r \in Promoted}
<1>1. /\ DOMAIN Listing = {s \in Promoted : Shown(s) # {}}
      /\ \A r \in DOMAIN Listing : Listing[r].points = Shown(r)
  BY DEF Listing
<1>2. UNION {Listing[r].points : r \in DOMAIN Listing} = UNION {Shown(r) : r \in Promoted}
  BY <1>1
<1>3. ASSUME NEW r \in Promoted, NEW p \in Shown(r) PROVE p \in live /\ p \in vox[r]
  BY DEF Shown, Holds
<1>4. ASSUME NEW r \in Promoted, NEW p \in live, p \in vox[r] PROVE \E s \in Promoted : p \in Shown(s)
  <2> DEFINE H == {s \in Promoted : p \in vox[s]}
  <2>1. H \in SUBSET Ids /\ H # {}
    BY <1>4, CompFacts DEF Promoted
  <2>2. PICK s \in H : \A t \in H \ {s} : Better(s, t)
    <3> HIDE DEF H
    <3>1. QED
      BY <2>1, BestHolder
  <2>3. s \in Promoted /\ Holds(s, p)
    BY <2>2 DEF Holds
  <2>4. QED
    BY <2>3 DEF Shown
<1>5. UNION {Shown(r) : r \in Promoted} = live \intersect UNION {vox[r] : r \in Promoted}
  BY <1>3, <1>4
<1>6. QED
  BY <1>2, <1>5

\* A contested point of a rebuilt list goes to one promoted component, never to none: ties
\* of support and size are broken by the id.
THEOREM PartitionHolds == Spec => RebuiltIsPartition
<1> DEFINE Partition == cache' # cache =>
             UNION {cache'[r].points : r \in DOMAIN cache'}
               = live \intersect UNION {vox[r] : r \in Promoted}
<1>1. ASSUME TypeInv, [Next]_vars PROVE [Partition]_vars
  <2>1. SUFFICES ASSUME cache' # cache
                 PROVE  UNION {cache'[r].points : r \in DOMAIN cache'}
                          = live \intersect UNION {vox[r] : r \in Promoted}
    OBVIOUS
  <2>2. cache' = Listing
    <3>1. ~ (UNCHANGED vars)
      BY <2>1 DEF vars
    <3>2. ~ \/ \E K : \E R \in SUBSET Points, ps \in Seq(Proposals) : Frame(K, R, ps)
            \/ \E h : FoldLegacy(h) \/ FoldGraph(h)
            \/ \E t : Bridge(t)
            \/ Drop \/ DepositOnly \/ Join \/ Merge \/ Finish \/ Snapshot \/ Sweep
      BY <2>1 DEF Frame, FoldLegacy, FoldGraph, Bridge, Drop, DepositOnly, Join, Merge, Finish,
                  Snapshot, Sweep
    <3>3. EndFold \/ EndMerge \/ EndSweep
      BY <1>1, <3>1, <3>2, Steps
    <3>4. QED
      BY <2>1, <3>3 DEF EndFold, EndMerge, EndSweep, RebuildIf
  <2>3. QED
    BY <1>1, <2>2, ListingIsPartition
<1>2. QED
  BY <1>1, InitType, NextType, PTL DEF Spec, RebuiltIsPartition
-----------------------------------------------------------------------------
\* The components that still have a neighbour.
Linked == UNION {k \in {Resolved(j) : j \in DOMAIN edges} : Cardinality(k) = 2}

\* As long as a sweep has united nothing its snapshot is of the components as they are, and
\* no small one among those it has passed has a neighbour.
SweepInv ==
  /\ step = "sweep" /\ ~progress =>
       /\ DOMAIN best = Linked
       /\ \A a \in DOMAIN best : best[a] \in Roots /\ best[a] # a
       /\ \A r \in Roots : r < next /\ support[r] < SmallMin => r \notin Linked
  /\ step = "done" /\ gc /\ SmallMin > 0 =>
       \A r \in Roots : support[r] < SmallMin => r \notin Linked
  /\ step \in {"snapshot", "sweep"} => gc /\ SmallMin > 0

LEMMA LinkedIs ==
  ASSUME TypeInv
  PROVE  /\ UNION DOMAIN AtRoots(edges) = Linked
         /\ \A r \in Roots : r \notin Linked => Neighbours(AtRoots(edges), r) = {}
<1>1. DOMAIN AtRoots(edges) = {k \in {Resolved(j) : j \in DOMAIN edges} : Cardinality(k) = 2}
  BY DEF AtRoots
<1>2. UNION DOMAIN AtRoots(edges) = Linked
  BY <1>1 DEF Linked
<1>3. QED
  BY <1>2 DEF Neighbours

LEMMA NextSweep ==
  ASSUME TypeInv, SweepInv, [Next]_vars
  PROVE  SweepInv'
<1>1. ASSUME UNCHANGED comps, edges' = edges
      PROVE  Linked' = Linked /\ Roots' = Roots /\ support' = support
  <2>1. root' = root /\ support' = support
    BY <1>1 DEF comps
  <2>2. Roots' = Roots
    BY <2>1 DEF Roots, Ids
  <2>3. QED
    BY <1>1, <2>1, <2>2 DEF Linked, Resolved
<1>2. CASE UNCHANGED vars
  <2>1. UNCHANGED comps /\ UNCHANGED <<edges, step, gc, best, next, progress>>
    BY <1>2 DEF vars, cleanup
  <2>2. QED
    BY <1>1, <2>1 DEF SweepInv
<1>3. CASE \/ \E K : \E R \in SUBSET Points, ps \in Seq(Proposals) : Frame(K, R, ps)
           \/ \E h : FoldLegacy(h) \/ FoldGraph(h)
           \/ \E t : Bridge(t)
           \/ Drop \/ DepositOnly \/ Join \/ EndFold \/ Merge \/ EndMerge
  <2>1. step' \in {"idle", "fold", "join", "merge"}
    BY <1>3 DEF Frame, FoldLegacy, FoldGraph, Bridge, Drop, DepositOnly, Join, EndFold, Merge,
                EndMerge
  <2>2. QED
    BY <2>1 DEF SweepInv
<1>4. CASE Finish
  <2>1. step' = (IF gc /\ SmallMin > 0 THEN "snapshot" ELSE "done") /\ gc' = gc
    BY <1>4 DEF Finish
  <2>2. QED
    BY <2>1 DEF SweepInv
<1>5. CASE Snapshot
  <2>1. /\ UNCHANGED comps /\ UNCHANGED <<gc, edges>> /\ step = "snapshot" /\ step' = "sweep"
        /\ next' = 1
    BY <1>5 DEF Snapshot
  <2>2. /\ DOMAIN best' = Linked
        /\ \A a \in DOMAIN best' : best'[a] \in Roots /\ best'[a] # a
    <3>1. \A k \in DOMAIN edges : k \subseteq Ids
      BY DEF TypeInv, IndexType
    <3>2. ASSUME NEW a \in DOMAIN best' PROVE best'[a] \in Roots /\ best'[a] # a
      <4>1. PICK b : b = best'[a]
        OBVIOUS
      <4>2. {a, b} \in DOMAIN AtRoots(edges) /\ b # a
        BY <1>5, <4>1, SnapshotFacts
      <4>3. {a, b} \subseteq Roots
        BY <3>1, <4>2, AtRootsDomain
      <4>4. QED
        BY <4>1, <4>2, <4>3
    <3>3. QED
      BY <1>5, <3>2, SnapshotFacts, LinkedIs
  <2>3. \A r \in Roots : ~ (r < 1)
    BY CompFacts
  <2>4. QED
    BY <1>1, <2>1, <2>2, <2>3 DEF SweepInv
<1>6. CASE Sweep
  <2>1. /\ UNCHANGED <<gc, edges, step, best>> /\ step = "sweep"
    BY <1>6 DEF Sweep
  <2>2. CASE progress' = TRUE
    BY <2>1, <2>2 DEF SweepInv
  <2>3. CASE /\ UNCHANGED comps /\ UNCHANGED <<merged, progress>>
             /\ ~ (next \in Roots /\ support[next] < SmallMin /\ next \in DOMAIN best
                   /\ root[best[next]] # next)
    <3>1. SUFFICES ASSUME ~progress PROVE SweepInv'
      BY <2>1, <2>3 DEF SweepInv
    <3>2. /\ DOMAIN best = Linked
          /\ \A a \in DOMAIN best : best[a] \in Roots /\ best[a] # a
          /\ \A r \in Roots : r < next /\ support[r] < SmallMin => r \notin Linked
          /\ gc /\ SmallMin > 0
      BY <2>1, <3>1 DEF SweepInv
    <3>3. next \in Roots /\ support[next] < SmallMin => next \notin Linked
      BY <2>3, <3>2 DEF Roots
    <3>4. next' = next + 1 /\ next \in Nat /\ \A r \in Roots : r \in Nat
      BY <1>6, SweepFacts, CompFacts
    <3>5. \A r \in Roots : r < next' /\ support[r] < SmallMin => r \notin Linked
      BY <3>2, <3>3, <3>4
    <3>6. Linked' = Linked /\ Roots' = Roots /\ support' = support
      BY <1>1, <2>1, <2>3
    <3>7. QED
      BY <2>1, <2>3, <3>2, <3>5, <3>6 DEF SweepInv
  <2>4. QED
    BY <1>6, <2>2, <2>3, SweepFacts
<1>7. CASE EndSweep
  <2>1. /\ UNCHANGED comps /\ UNCHANGED <<gc, edges, progress>> /\ step = "sweep"
        /\ next > Len(root) /\ step' = (IF progress THEN "snapshot" ELSE "done")
    BY <1>7 DEF EndSweep
  <2>2. CASE progress
    BY <2>1, <2>2 DEF SweepInv
  <2>3. CASE ~progress
    <3>1. \A r \in Roots : r < next /\ support[r] < SmallMin => r \notin Linked
      BY <2>1, <2>3 DEF SweepInv
    <3>2. \A r \in Roots : r < next
      BY <2>1, CompFacts DEF TypeInv, FlowType
    <3>3. Linked' = Linked /\ Roots' = Roots /\ support' = support
      BY <1>1, <2>1
    <3>4. QED
      BY <2>1, <2>3, <3>1, <3>2, <3>3 DEF SweepInv
  <2>4. QED
    BY <2>2, <2>3
<1>8. QED
  BY <1>2, <1>3, <1>4, <1>5, <1>6, <1>7, Steps

\* The cleanup ends with no component below SmallMin that still has a neighbour, although
\* each absorption changes the neighbours of those its sweep has passed: a sweep that
\* absorbed something is never the last.
THEOREM SmallIsolated == Spec => []SmallAreIsolated
<1>1. Init => SweepInv
  BY DEF Init, SweepInv
<1>2. TypeInv /\ SweepInv => SmallAreIsolated
  BY LinkedIs DEF SweepInv, SmallAreIsolated
<1>3. TypeInv /\ SweepInv /\ [Next]_vars => SweepInv'
  BY NextSweep
<1>4. QED
  BY <1>1, <1>2, <1>3, InitType, NextType, PTL DEF Spec
-----------------------------------------------------------------------------
\* The sizes of {x} and {x, y}.
LEMMA PairSize == \A x, y : Cardinality({x}) = 1 /\ (x # y => Cardinality({x, y}) = 2)
<1>1. \A x : IsFiniteSet({x}) /\ Cardinality({x}) = 1
  BY FS_Singleton
<1>2. ASSUME NEW x, NEW y, x # y PROVE Cardinality({x, y}) = 2
  <2>1. y \notin {x} /\ {x, y} = {x} \union {y}
    BY <1>2
  <2>2. Cardinality({x} \union {y}) = Cardinality({x}) + 1
    BY <1>1, <2>1, FS_AddElement
  <2>3. QED
    BY <1>1, <2>1, <2>2
<1>3. QED
  BY <1>1, <1>2
-----------------------------------------------------------------------------
(* Support is what was observed *)

\* The joins that went into the component r, and those of a class.
Mine(r) == {i \in DOMAIN observed : root[observed[i].home] = r}

MineOf(r, c) == {i \in Mine(r) : observed[i].class = c}

\* The number of points of each join.
Sizes == [i \in DOMAIN observed |-> observed[i].size]

\* The property, in these terms.
LEMMA SupportIs ==
  SupportIsObservations <=>
    \A r \in Ids : /\ support[r] = Cardinality(Mine(r))
                   /\ \A c \in Classes : cls[r][c] = SumOver(MineOf(r, c), Sizes)
BY DEF SupportIsObservations, Mine, MineOf, Sizes

LEMMA SizesType ==
  ASSUME TypeInv
  PROVE  /\ IsFiniteSet(DOMAIN observed) /\ Len(observed) \in Nat
         /\ DOMAIN observed = 1 .. Len(observed)
         /\ \A i \in DOMAIN observed : Sizes[i] \in Nat
         /\ \A r : /\ Mine(r) \in SUBSET DOMAIN observed /\ IsFiniteSet(Mine(r))
                   /\ Cardinality(Mine(r)) \in Nat
         /\ \A r, c : MineOf(r, c) \in SUBSET DOMAIN observed /\ IsFiniteSet(MineOf(r, c))
<1> DEFINE O == [home : Ids, class : Classes, size : Nat]
<1>1. observed \in Seq(O)
  BY ObservedFacts
<1>2. \A o \in O : o.size \in Nat
  OBVIOUS
<1> HIDE DEF O
<1>3. /\ Len(observed) \in Nat /\ DOMAIN observed = 1 .. Len(observed)
      /\ \A i \in DOMAIN observed : observed[i] \in O
  BY <1>1, SeqElements
<1>4. IsFiniteSet(DOMAIN observed)
  BY <1>3, FS_Interval
<1>5. \A i \in DOMAIN observed : Sizes[i] \in Nat
  BY <1>2, <1>3 DEF Sizes
<1>6. \A r : Mine(r) \in SUBSET DOMAIN observed
  BY DEF Mine
<1>7. \A r, c : MineOf(r, c) \in SUBSET DOMAIN observed
  BY <1>6 DEF MineOf
<1>8. QED
  BY <1>3, <1>4, <1>5, <1>6, <1>7, FS_Subset, FS_CardinalityType

\* A step that leaves the components alone.
LEMMA SupportWhenSame ==
  ASSUME SupportIsObservations, UNCHANGED comps, observed' = observed
  PROVE  SupportIsObservations'
<1>1. root' = root /\ cls' = cls /\ support' = support
  BY DEF comps
<1>2. Ids' = Ids
  BY <1>1 DEF Ids
<1>3. QED
  BY <1>1, <1>2 DEF SupportIsObservations

\* A new component has no join yet.
LEMMA SupportWhenNew ==
  ASSUME TypeInv, SupportIsObservations, NewComp, observed' = observed
  PROVE  SupportIsObservations'
<1>1. PICK n : n = Len(root) + 1
  OBVIOUS
<1>2. /\ n \notin Ids /\ Ids' = Ids \union {n} /\ support'[n] = 0
      /\ \A i \in Ids : root'[i] = root[i] /\ cls'[i] = cls[i] /\ support'[i] = support[i]
      /\ \A c \in Classes : cls'[n][c] = 0
  BY <1>1, NewCompFacts
<1>3. \A i \in DOMAIN observed : observed[i].home \in Ids /\ root[observed[i].home] \in Ids
  BY ObservedFacts, CompFacts
<1>4. \A r \in Ids : Mine(r)' = Mine(r)
  BY <1>2, <1>3 DEF Mine
<1>5. Sizes' = Sizes
  BY DEF Sizes
<1>6. \A r \in Ids, c \in Classes : MineOf(r, c)' = MineOf(r, c)
  BY <1>4 DEF MineOf
<1>7. ASSUME NEW r \in Ids
      PROVE  /\ support'[r] = Cardinality(Mine(r)')
             /\ \A c \in Classes : cls'[r][c] = SumOver(MineOf(r, c)', Sizes')
  BY <1>2, <1>4, <1>5, <1>6, SupportIs
<1>8. Mine(n)' = {} /\ \A c \in Classes : MineOf(n, c)' = {}
  BY <1>2, <1>3 DEF Mine, MineOf
<1>9. Cardinality({}) = 0 /\ SumOver({}, Sizes') = 0
  <2>1. PICK f : f = Sizes'
    OBVIOUS
  <2>2. QED
    BY <2>1, FS_EmptySet, SumUnfold
<1>10. \A r \in Ids' : /\ support'[r] = Cardinality(Mine(r)')
                       /\ \A c \in Classes : cls'[r][c] = SumOver(MineOf(r, c)', Sizes')
  <2>1. /\ support'[n] = Cardinality(Mine(n)')
        /\ \A c \in Classes : cls'[n][c] = SumOver(MineOf(n, c)', Sizes')
    BY <1>2, <1>8, <1>9
  <2>2. QED
    BY <1>2, <1>7, <2>1
<1>11. QED
  BY <1>10 DEF SupportIsObservations, Mine, MineOf, Sizes

\* The winner takes the joins of the loser, with their votes.
LEMMA SupportWhenUnited ==
  ASSUME TypeInv, SupportIsObservations, NEW w, NEW l, United(w, l), observed' = observed
  PROVE  SupportIsObservations'
<1>1. /\ w \in Ids /\ l \in Ids /\ w # l /\ Ids' = Ids
      /\ \A i \in Ids : root'[i] = IF root[i] = l THEN w ELSE root[i]
      /\ \A i \in Ids : support'[i] = IF i = w THEN support[w] + support[l]
                                      ELSE IF i = l THEN 0 ELSE support[i]
      /\ \A i \in Ids, c \in Classes :
           cls'[i][c] = IF i = w THEN cls[w][c] + cls[l][c]
                        ELSE IF i = l THEN 0 ELSE cls[i][c]
  BY CompFacts DEF United
<1>2. \A i \in DOMAIN observed : observed[i].home \in Ids
  BY ObservedFacts
<1>3. /\ Mine(w)' = Mine(w) \union Mine(l) /\ Mine(w) \intersect Mine(l) = {} /\ Mine(l)' = {}
      /\ \A r \in Ids \ {w, l} : Mine(r)' = Mine(r)
  BY <1>1, <1>2 DEF Mine
<1>4. \A c \in Classes : /\ MineOf(w, c)' = MineOf(w, c) \union MineOf(l, c)
                         /\ MineOf(w, c) \intersect MineOf(l, c) = {} /\ MineOf(l, c)' = {}
                         /\ \A r \in Ids \ {w, l} : MineOf(r, c)' = MineOf(r, c)
  BY <1>3 DEF MineOf
<1>5. PICK f : f = Sizes
  OBVIOUS
<1>6. Sizes' = f
  BY <1>5 DEF Sizes
<1>7. \A r \in Ids : /\ support[r] = Cardinality(Mine(r))
                     /\ \A c \in Classes : cls[r][c] = SumOver(MineOf(r, c), f)
  BY <1>5, SupportIs
<1>8. Cardinality({}) = 0 /\ SumOver({}, f) = 0
  BY FS_EmptySet, SumUnfold
<1>9. Cardinality(Mine(w)') = Cardinality(Mine(w)) + Cardinality(Mine(l))
  <2>1. PICK a, b : a = Mine(w) /\ b = Mine(l)
    OBVIOUS
  <2>2. IsFiniteSet(a) /\ IsFiniteSet(b) /\ Cardinality(a) \in Nat /\ Cardinality(b) \in Nat
        /\ a \intersect b = {} /\ Mine(w)' = a \union b
    BY <1>3, <2>1, SizesType
  <2>3. Cardinality(a \union b) = Cardinality(a) + Cardinality(b) - Cardinality(a \intersect b)
    BY <2>2, FS_Union
  <2>4. Cardinality(a \union b) = Cardinality(a) + Cardinality(b) - 0
    BY <1>8, <2>2, <2>3
  <2>5. Cardinality(a \union b) = Cardinality(a) + Cardinality(b)
    BY <2>2, <2>4
  <2>6. QED
    BY <2>1, <2>2, <2>5
<1>10. ASSUME NEW c \in Classes
       PROVE  SumOver(MineOf(w, c)', f) = SumOver(MineOf(w, c), f) + SumOver(MineOf(l, c), f)
  <2>1. PICK a, b, D : a = MineOf(w, c) /\ b = MineOf(l, c) /\ D = DOMAIN observed
    OBVIOUS
  <2>2. /\ IsFiniteSet(D) /\ a \in SUBSET D /\ b \in SUBSET D /\ \A i \in D : f[i] \in Nat
        /\ a \intersect b = {} /\ MineOf(w, c)' = a \union b
    BY <1>4, <1>5, <2>1, SizesType
  <2>3. SumOver(a \union b, f) = SumOver(a, f) + SumOver(b, f)
    BY <2>2, SumUnion
  <2>4. QED
    BY <2>1, <2>2, <2>3
<1>11. ASSUME NEW r \in Ids
       PROVE  /\ support'[r] = Cardinality(Mine(r)')
              /\ \A c \in Classes : cls'[r][c] = SumOver(MineOf(r, c)', f)
  <2>1. CASE r = w
    BY <1>1, <1>7, <1>9, <1>10, <2>1
  <2>2. CASE r = l
    BY <1>1, <1>3, <1>4, <1>8, <2>2
  <2>3. CASE r # w /\ r # l
    BY <1>1, <1>3, <1>4, <1>7, <2>3
  <2>4. QED
    BY <2>1, <2>2, <2>3
<1>12. QED
  BY <1>1, <1>6, <1>11 DEF SupportIsObservations, Mine, MineOf, Sizes

\* A join counts once for its component and with its points for its class.
LEMMA SupportWhenJoined ==
  ASSUME TypeInv, TypeInv', SupportIsObservations, Join
  PROVE  SupportIsObservations'
<1>1. PICK n, f, g, D, h, d, z : /\ n = Len(observed) + 1 /\ f = Sizes /\ g = Sizes' /\ D = DOMAIN observed
                                 /\ h = home /\ d = P.class /\ z = Cardinality(P.pts)
  OBVIOUS
<1>2. /\ todo # <<>> /\ h \in Ids /\ root[h] = h /\ root' = root /\ Ids' = Ids
      /\ \A i \in Ids :
           /\ support'[i] = IF i = h THEN support[i] + 1 ELSE support[i]
           /\ \A c \in Classes :
                cls'[i][c] = IF i = h /\ c = d THEN cls[i][c] + z
                                                        ELSE cls[i][c]
  BY <1>1, JoinFacts, CompFacts
<1>3. d \in Classes /\ z \in Nat
  BY <1>1, <1>2, ProposalFacts
<1>4. /\ DOMAIN observed' = D \union {n} /\ n \notin D
      /\ \A i \in D : observed'[i] = observed[i]
      /\ observed'[n].home = h /\ observed'[n].class = d
      /\ observed'[n].size = z
  <2> DEFINE o == [home |-> h, class |-> d, size |-> z]
             O == [home : Ids, class : Classes, size : Nat]
  <2>1. observed \in Seq(O) /\ observed' = Append(observed, o)
    BY <1>1, ObservedFacts DEF Join
  <2>2. o \in O /\ o.home = h /\ o.class = d /\ o.size = z
    BY <1>2, <1>3
  <2> HIDE DEF o, O
  <2>3. Len(observed) \in Nat /\ D = 1 .. Len(observed)
    BY <1>1, <2>1
  <2>4. Append(observed, o) \in Seq(O) /\ Len(Append(observed, o)) = Len(observed) + 1
    BY <2>1, <2>2
  <2>5. DOMAIN Append(observed, o) = 1 .. Len(observed) + 1
    BY <2>4
  <2>6. \A j \in 1 .. Len(observed) + 1 :
          Append(observed, o)[j] = IF j = Len(observed) + 1 THEN o ELSE observed[j]
    BY <2>1, <2>2
  <2>7. QED
    BY <1>1, <2>1, <2>2, <2>3, <2>5, <2>6
<1>5. /\ \A i \in D : g[i] = f[i] /\ f[i] \in Nat
      /\ g[n] = z /\ \A i \in D \union {n} : g[i] \in Nat
  <2>1. g = [i \in DOMAIN observed' |-> observed'[i].size]
    BY <1>1 DEF Sizes
  <2>2. \A i \in D : f[i] = observed[i].size /\ f[i] \in Nat
    BY <1>1, SizesType DEF Sizes
  <2>3. QED
    BY <1>3, <1>4, <2>1, <2>2
<1>6. /\ Mine(h)' = Mine(h) \union {n}
      /\ \A r \in Ids \ {h} : Mine(r)' = Mine(r)
  BY <1>1, <1>2, <1>4 DEF Mine
<1>7. /\ MineOf(h, d)' = MineOf(h, d) \union {n}
      /\ \A r \in Ids, c \in Classes :
           ~ (r = h /\ c = d) => MineOf(r, c)' = MineOf(r, c)
  BY <1>1, <1>2, <1>4 DEF Mine, MineOf
<1>8. /\ IsFiniteSet(D) /\ IsFiniteSet(D \union {n})
      /\ \A r : Mine(r) \in SUBSET D /\ IsFiniteSet(Mine(r))
      /\ \A r, c : MineOf(r, c) \in SUBSET D /\ IsFiniteSet(MineOf(r, c))
  <2>1. /\ IsFiniteSet(D) /\ \A r : Mine(r) \in SUBSET D /\ IsFiniteSet(Mine(r))
        /\ \A r, c : MineOf(r, c) \in SUBSET D /\ IsFiniteSet(MineOf(r, c))
    BY <1>1, SizesType
  <2>2. QED
    BY <2>1, FS_AddElement
<1>9. Cardinality(Mine(h)') = Cardinality(Mine(h)) + 1
  <2>1. PICK a : a = Mine(h)
    OBVIOUS
  <2>2. IsFiniteSet(a) /\ n \notin a /\ Mine(h)' = a \union {n}
    BY <1>4, <1>6, <1>8, <2>1
  <2>3. Cardinality(a \union {n}) = Cardinality(a) + 1
    BY <2>2, FS_AddElement
  <2>4. QED
    BY <2>1, <2>2, <2>3
<1>10. \A r, c : SumOver(MineOf(r, c), g) = SumOver(MineOf(r, c), f)
  <2>1. ASSUME NEW r, NEW c PROVE SumOver(MineOf(r, c), g) = SumOver(MineOf(r, c), f)
    <3>1. PICK a : a = MineOf(r, c)
      OBVIOUS
    <3>2. IsFiniteSet(a) /\ \A x \in a : f[x] \in Nat /\ f[x] = g[x]
      BY <1>5, <1>8, <3>1
    <3>3. SumOver(a, f) = SumOver(a, g)
      BY <3>2, SumSame
    <3>4. QED
      BY <3>1, <3>3
  <2>2. QED
    BY <2>1
<1>11. SumOver(MineOf(h, d)', g)
         = SumOver(MineOf(h, d), f) + z
  <2>1. PICK a, U, k : a = MineOf(h, d) /\ U = D \union {n} /\ k = z
    OBVIOUS
  <2>2. /\ IsFiniteSet(U) /\ \A x \in U : g[x] \in Nat
        /\ a \in SUBSET U /\ n \in U /\ n \notin a
    BY <1>4, <1>5, <1>8, <2>1
  <2>3. SumOver(a \union {n}, g) = g[n] + SumOver(a, g) /\ SumOver(a, g) \in Nat
    BY <2>2, SumInsert
  <2>4. SumOver(a, g) = SumOver(a, f)
    BY <1>10, <2>1
  <2>5. g[n] = k /\ k \in Nat
    BY <1>3, <1>5, <2>1
  <2>6. PICK v : v = SumOver(a, f)
    OBVIOUS
  <2>7. SumOver(a \union {n}, g) = v + k
    BY <2>3, <2>4, <2>5, <2>6
  <2>8. MineOf(h, d)' = a \union {n}
    BY <1>7, <2>1
  <2>9. QED
    BY <2>1, <2>6, <2>7, <2>8
<1>12. \A r \in Ids : /\ support[r] = Cardinality(Mine(r))
                      /\ \A c \in Classes : cls[r][c] = SumOver(MineOf(r, c), f)
  BY <1>1, SupportIs
<1>13. ASSUME NEW r \in Ids
       PROVE  /\ support'[r] = Cardinality(Mine(r)')
              /\ \A c \in Classes : cls'[r][c] = SumOver(MineOf(r, c)', g)
  <2>1. support'[r] = Cardinality(Mine(r)')
    <3>1. CASE r = h
      BY <1>2, <1>9, <1>12, <3>1
    <3>2. CASE r # h
      BY <1>2, <1>6, <1>12, <3>2
    <3>3. QED
      BY <3>1, <3>2
  <2>2. ASSUME NEW c \in Classes PROVE cls'[r][c] = SumOver(MineOf(r, c)', g)
    <3>1. CASE r = h /\ c = d
      BY <1>2, <1>11, <1>12, <3>1
    <3>2. CASE ~ (r = h /\ c = d)
      <4>1. MineOf(r, c)' = MineOf(r, c) /\ cls'[r][c] = cls[r][c]
        BY <1>2, <1>7, <3>2
      <4>2. QED
        BY <1>10, <1>12, <4>1
    <3>3. QED
      BY <3>1, <3>2
  <2>3. QED
    BY <2>1, <2>2
<1>14. QED
  <2>1. \A r \in Ids' : /\ support'[r] = Cardinality(Mine(r)')
                        /\ \A c \in Classes : cls'[r][c] = SumOver(MineOf(r, c)', Sizes')
    BY <1>1, <1>2, <1>13
  <2>2. QED
    BY <2>1 DEF SupportIsObservations, Mine, MineOf, Sizes

LEMMA NextSupport == TypeInv /\ SupportIsObservations /\ [Next]_vars => SupportIsObservations'
<1> SUFFICES ASSUME TypeInv, SupportIsObservations, [Next]_vars PROVE SupportIsObservations'
  OBVIOUS
<1>1. TypeInv'
  BY NextType
<1>2. CASE UNCHANGED comps /\ UNCHANGED <<owners, observed>>
  BY <1>2, SupportWhenSame
<1>3. CASE NewComp /\ UNCHANGED <<owners, observed>>
  BY <1>3, SupportWhenNew
<1>4. CASE (\E w, l : United(w, l)) /\ UNCHANGED <<owners, observed>>
  BY <1>4, SupportWhenUnited
<1>5. CASE Join
  BY <1>1, <1>5, SupportWhenJoined
<1>6. QED
  BY <1>2, <1>3, <1>4, <1>5, CompSteps

\* However components were united since, support and class votes of a component are those
\* of the proposals that joined any part of it, and an absorbed component holds nothing
\* (unite, addSupport; objects.h:14).
THEOREM SupportHolds == Spec => []SupportIsObservations
<1>1. Init => TypeInv /\ SupportIsObservations
  <2> SUFFICES ASSUME Init PROVE TypeInv /\ SupportIsObservations
    OBVIOUS
  <2>1. Ids = {}
    BY DEF Init, Ids
  <2>2. QED
    BY <2>1, InitType DEF SupportIsObservations
<1>2. TypeInv /\ SupportIsObservations /\ [Next]_vars => (TypeInv /\ SupportIsObservations)'
  BY NextType, NextSupport
<1>3. QED
  BY <1>1, <1>2, PTL DEF Spec
-----------------------------------------------------------------------------
(* Edge stores, for any assignment R of roots to ids. *)

\* A key, its pairs, the keys that resolve to a pair, as AtRoots has them.
Moved(R, k) == {R[i] : i \in k}

PairsAt(R, s) == {k \in {Moved(R, j) : j \in DOMAIN s} : Cardinality(k) = 2}

Group(R, s, k) == {j \in DOMAIN s : Moved(R, j) = k}

\* The two numbers of every key.
Sims(s) == [j \in DOMAIN s |-> s[j].sim]
Confs(s) == [j \in DOMAIN s |-> s[j].conf]

\* AtRoots, with R for root.
Rooted(R, s) ==
  [k \in PairsAt(R, s) |-> [sim  |-> SumOver(Group(R, s, k), Sims(s)),
                            conf |-> SumOver(Group(R, s, k), Confs(s))]]

\* Finite, keyed by pairs, with numbers.
IsStore(s) ==
  /\ IsFiniteSet(DOMAIN s)
  /\ \A k \in DOMAIN s : (\E a, b : k = {a, b}) /\ s[k].sim \in Nat /\ s[k].conf \in Nat

LEMMA RootedIs == \A s : AtRoots(s) = Rooted(root, s)
BY DEF AtRoots, Rooted, PairsAt, Group, Moved, Resolved, Sims, Confs

\* Only where the keys go counts.
LEMMA RootedAgree ==
  ASSUME NEW R, NEW Q, NEW s, \A k \in DOMAIN s : Moved(R, k) = Moved(Q, k)
  PROVE  Rooted(R, s) = Rooted(Q, s)
<1>1. PairsAt(R, s) = PairsAt(Q, s)
  BY DEF PairsAt
<1>2. \A k : Group(R, s, k) = Group(Q, s, k)
  BY DEF Group
<1>3. QED
  BY <1>1, <1>2 DEF Rooted

\* The sum for a pair of Q, in one go or through the pairs of R.
LEMMA GroupsSum ==
  ASSUME NEW R, NEW m, NEW Q, NEW s, IsStore(s),
         \A j \in DOMAIN s : Moved(Q, j) = Moved(m, Moved(R, j)),
         NEW v, \A j \in DOMAIN s : v[j] \in Nat,
         NEW u, \A c \in PairsAt(R, s) : u[c] = SumOver(Group(R, s, c), v),
         NEW k, Cardinality(k) = 2,
         NEW C, C = {c \in PairsAt(R, s) : Moved(m, c) = k}
  PROVE  SumOver(Group(Q, s, k), v) = SumOver(C, u)
<1>1. PICK D, G : D = DOMAIN s /\ G = [j \in DOMAIN s |-> Moved(R, j)]
  OBVIOUS
<1>2. IsFiniteSet(D) /\ \A x \in D : v[x] \in Nat /\ G[x] = Moved(R, x)
  BY <1>1 DEF IsStore
<1>3. IsFiniteSet(C)
  <2>1. PICK I : I = {G[j] : j \in D}
    OBVIOUS
  <2>2. IsFiniteSet(I)
    BY <1>2, <2>1, ImageFinite
  <2>3. C \in SUBSET I
    BY <1>1, <1>2, <2>1 DEF PairsAt
  <2>4. QED
    BY <2>2, <2>3, FS_Subset
<1>4. ASSUME NEW j \in D, Moved(Q, j) = k PROVE G[j] \in C
  <2>1. PICK a, b : j = {a, b}
    BY <1>1 DEF IsStore
  <2>2. Moved(R, j) = {R[a], R[b]}
    BY <2>1 DEF Moved
  <2>3. CASE R[a] = R[b]
    <3>1. Moved(m, Moved(R, j)) = {m[R[a]]}
      BY <2>2, <2>3 DEF Moved
    <3>2. Cardinality({m[R[a]]}) = 1
      BY PairSize
    <3>3. k = {m[R[a]]}
      BY <1>1, <1>4, <3>1
    <3>4. QED
      BY <3>2, <3>3
  <2>4. CASE R[a] # R[b]
    <3>1. Cardinality(Moved(R, j)) = 2
      <4>1. PICK x, y : x = R[a] /\ y = R[b]
        OBVIOUS
      <4>2. x # y /\ Moved(R, j) = {x, y}
        BY <2>2, <2>4, <4>1
      <4>3. Cardinality({x, y}) = 2
        BY <4>2, PairSize
      <4>4. QED
        BY <4>2, <4>3
    <3>2. Moved(R, j) \in PairsAt(R, s)
      BY <1>1, <3>1 DEF PairsAt
    <3>3. Moved(m, Moved(R, j)) = k /\ G[j] = Moved(R, j)
      BY <1>1, <1>2, <1>4
    <3>4. QED
      BY <3>2, <3>3
  <2>5. QED
    BY <2>3, <2>4
<1>5. Group(Q, s, k) = {j \in D : G[j] \in C}
  <2>1. \A j \in D : G[j] \in C => Moved(Q, j) = k
    BY <1>1, <1>2
  <2>2. QED
    BY <1>1, <1>4, <2>1 DEF Group
<1>6. PICK all, fibre : /\ all = {j \in D : G[j] \in C}
                        /\ fibre = [c \in C |-> {j \in D : G[j] = c}]
  OBVIOUS
<1>7. \A c \in C : fibre[c] = {j \in D : G[j] = c}
  BY <1>6
<1>8. \A c \in C : u[c] = SumOver(fibre[c], v)
  <2>1. \A c \in C : c \in PairsAt(R, s) /\ Group(R, s, c) = fibre[c]
    BY <1>1, <1>2, <1>7 DEF Group
  <2>2. QED
    BY <2>1
<1>9. SumOver(all, v) = SumOver(C, u)
  <2>1. IsFiniteSet(D) /\ all = {j \in D : G[j] \in C}
    BY <1>2, <1>6
  <2>2. \A x \in D : v[x] \in Nat
    BY <1>2
  <2>3. QED
    BY <1>3, <1>7, <1>8, <2>1, <2>2, SumFibres, SMTT(30)
<1>10. QED
  BY <1>1, <1>5, <1>6, <1>9

\* Resolving twice is resolving once by the composed assignment.
LEMMA RootedTwice ==
  ASSUME NEW R, NEW m, NEW Q, NEW s, IsStore(s),
         \A j \in DOMAIN s : Moved(Q, j) = Moved(m, Moved(R, j))
  PROVE  Rooted(Q, s) = Rooted(m, Rooted(R, s))
<1>1. PICK t : t = Rooted(R, s)
  OBVIOUS
<1>2. /\ DOMAIN t = PairsAt(R, s)
      /\ \A c \in PairsAt(R, s) : /\ t[c].sim = SumOver(Group(R, s, c), Sims(s))
                                  /\ t[c].conf = SumOver(Group(R, s, c), Confs(s))
  BY <1>1 DEF Rooted
<1>3. \A j \in DOMAIN s : Sims(s)[j] \in Nat /\ Confs(s)[j] \in Nat
  BY DEF IsStore, Sims, Confs
<1>4. \A c \in PairsAt(R, s) : /\ Sims(t)[c] = SumOver(Group(R, s, c), Sims(s))
                               /\ Confs(t)[c] = SumOver(Group(R, s, c), Confs(s))
  BY <1>2 DEF Sims, Confs
<1>5. ASSUME NEW k, Cardinality(k) = 2
      PROVE  /\ SumOver(Group(Q, s, k), Sims(s)) = SumOver(Group(m, t, k), Sims(t))
             /\ SumOver(Group(Q, s, k), Confs(s)) = SumOver(Group(m, t, k), Confs(t))
  <2>0. PICK C : C = {c \in PairsAt(R, s) : Moved(m, c) = k}
    OBVIOUS
  <2>1. PICK v, u : v = Sims(s) /\ u = Sims(t)
    OBVIOUS
  <2>2. (\A j \in DOMAIN s : v[j] \in Nat)
        /\ \A c \in PairsAt(R, s) : u[c] = SumOver(Group(R, s, c), v)
    BY <1>3, <1>4, <2>1
  <2>3. SumOver(Group(Q, s, k), v) = SumOver(C, u)
    BY <1>5, <2>0, <2>2, GroupsSum
  <2>4. PICK x, y : x = Confs(s) /\ y = Confs(t)
    OBVIOUS
  <2>5. (\A j \in DOMAIN s : x[j] \in Nat)
        /\ \A c \in PairsAt(R, s) : y[c] = SumOver(Group(R, s, c), x)
    BY <1>3, <1>4, <2>4
  <2>6. SumOver(Group(Q, s, k), x) = SumOver(C, y)
    BY <1>5, <2>0, <2>5, GroupsSum
  <2>7. Group(m, t, k) = C
    BY <1>2, <2>0 DEF Group
  <2>8. QED
    BY <2>1, <2>3, <2>4, <2>6, <2>7
<1>6. PairsAt(Q, s) = PairsAt(m, t)
  <2>1. ASSUME NEW j \in DOMAIN s, Cardinality(Moved(Q, j)) = 2
        PROVE  Moved(R, j) \in PairsAt(R, s)
    <3>1. PICK a, b : j = {a, b}
      BY DEF IsStore
    <3>2. Moved(R, j) = {R[a], R[b]}
      BY <3>1 DEF Moved
    <3>3. CASE R[a] = R[b]
      <4>1. Moved(Q, j) = Moved(m, Moved(R, j))
        OBVIOUS
      <4>2. Moved(m, Moved(R, j)) = {m[R[a]]}
        BY <3>2, <3>3 DEF Moved
      <4>3. Cardinality({m[R[a]]}) = 1
        BY PairSize
      <4>4. Cardinality(Moved(Q, j)) = 1
        BY <4>1, <4>2, <4>3
      <4>5. QED
        BY <2>1, <4>4
    <3>4. CASE R[a] # R[b]
      <4>1. Cardinality(Moved(R, j)) = 2
        <5>1. PICK x, y : x = R[a] /\ y = R[b]
          OBVIOUS
        <5>2. x # y /\ Moved(R, j) = {x, y}
          BY <3>2, <3>4, <5>1
        <5>3. Cardinality({x, y}) = 2
          BY <5>2, PairSize
        <5>4. QED
          BY <5>2, <5>3
      <4>2. QED
        BY <4>1 DEF PairsAt
    <3>5. QED
      BY <3>3, <3>4
  <2>2. ASSUME NEW k \in PairsAt(Q, s) PROVE k \in PairsAt(m, t)
    <3>1. PICK j \in DOMAIN s : k = Moved(Q, j) /\ Cardinality(k) = 2
      BY DEF PairsAt
    <3>2. Moved(R, j) \in DOMAIN t /\ k = Moved(m, Moved(R, j))
      BY <1>2, <2>1, <3>1
    <3>3. QED
      BY <3>1, <3>2 DEF PairsAt
  <2>3. ASSUME NEW k \in PairsAt(m, t) PROVE k \in PairsAt(Q, s)
    <3>1. PICK c \in PairsAt(R, s) : k = Moved(m, c) /\ Cardinality(k) = 2
      BY <1>2 DEF PairsAt
    <3>2. PICK j \in DOMAIN s : c = Moved(R, j)
      BY DEF PairsAt
    <3>3. k = Moved(Q, j)
      BY <3>1, <3>2
    <3>4. QED
      BY <3>1, <3>3 DEF PairsAt
  <2>4. QED
    BY <2>2, <2>3
<1>7. \A k \in PairsAt(Q, s) : Cardinality(k) = 2
  BY DEF PairsAt
<1>8. Rooted(Q, s) = Rooted(m, t)
  BY <1>5, <1>6, <1>7 DEF Rooted
<1>9. QED
  BY <1>1, <1>8

\* What a store holds for a pair, nothing when it is absent.
Held(s, k) == IF k \in DOMAIN s THEN s[k] ELSE [sim |-> 0, conf |-> 0]

LEMMA DepositedIs ==
  \A s, g : /\ DOMAIN Deposited(s, g) = DOMAIN s \union DOMAIN g
            /\ Deposited(s, g) = [k \in DOMAIN s \union DOMAIN g |->
                                    [sim  |-> Held(s, k).sim + Held(g, k).sim,
                                     conf |-> Held(s, k).conf + Held(g, k).conf]]
BY DEF Deposited, Held

\* Deposits make a store.
LEMMA DepositedStore ==
  ASSUME NEW s, NEW g, IsStore(s), IsStore(g)
  PROVE  IsStore(Deposited(s, g))
<1>1. PICK h : h = Deposited(s, g)
  OBVIOUS
<1>2. /\ DOMAIN h = DOMAIN s \union DOMAIN g
      /\ \A k \in DOMAIN h : /\ h[k].sim = Held(s, k).sim + Held(g, k).sim
                             /\ h[k].conf = Held(s, k).conf + Held(g, k).conf
  BY <1>1, DepositedIs
<1>3. IsFiniteSet(DOMAIN h)
  <2>1. PICK a, b : a = DOMAIN s /\ b = DOMAIN g
    OBVIOUS
  <2>2. IsFiniteSet(a) /\ IsFiniteSet(b)
    BY <2>1 DEF IsStore
  <2>3. IsFiniteSet(a \union b)
    BY <2>2, FS_Union
  <2>4. QED
    BY <1>2, <2>1, <2>3
<1>4. \A k : /\ Held(s, k).sim \in Nat /\ Held(s, k).conf \in Nat
             /\ Held(g, k).sim \in Nat /\ Held(g, k).conf \in Nat
  BY DEF Held, IsStore
<1>5. \A k \in DOMAIN h : \E a, b : k = {a, b}
  BY <1>2 DEF IsStore
<1>6. \A k \in DOMAIN h : h[k].sim \in Nat /\ h[k].conf \in Nat
  BY <1>2, <1>4
<1>7. IsStore(h)
  BY <1>3, <1>5, <1>6 DEF IsStore
<1>8. QED
  BY <1>1, <1>7

\* Resolving makes a store.
LEMMA RootedStore ==
  ASSUME NEW R, NEW s, IsStore(s)
  PROVE  IsStore(Rooted(R, s))
<1>1. PICK t, D : t = Rooted(R, s) /\ D = DOMAIN s
  OBVIOUS
<1>2. DOMAIN t = PairsAt(R, s) /\ IsFiniteSet(D)
  BY <1>1 DEF Rooted, IsStore
<1>3. IsFiniteSet(DOMAIN t)
  <2>1. PICK G, I : G = [j \in D |-> Moved(R, j)] /\ I = {G[j] : j \in D}
    <3>1. PICK G : G = [j \in D |-> Moved(R, j)]
      OBVIOUS
    <3>2. QED
      BY <3>1
  <2>2. IsFiniteSet(I)
    BY <1>2, <2>1, ImageFinite
  <2>3. DOMAIN t \in SUBSET I
    BY <1>1, <1>2, <2>1 DEF PairsAt
  <2>4. QED
    BY <2>2, <2>3, FS_Subset
<1>4. ASSUME NEW k \in DOMAIN t PROVE \E a, b : k = {a, b}
  <2>1. PICK j \in DOMAIN s : k = Moved(R, j)
    BY <1>2 DEF PairsAt
  <2>2. PICK a, b : j = {a, b}
    BY DEF IsStore
  <2>3. k = {R[a], R[b]}
    BY <2>1, <2>2 DEF Moved
  <2>4. QED
    BY <2>3
<1>5. ASSUME NEW k \in DOMAIN t PROVE t[k].sim \in Nat /\ t[k].conf \in Nat
  <2>1. PICK a, v, u : a = Group(R, s, k) /\ v = Sims(s) /\ u = Confs(s)
    OBVIOUS
  <2>2. /\ IsFiniteSet(D) /\ a \in SUBSET D
        /\ \A x \in D : v[x] \in Nat
        /\ \A x \in D : u[x] \in Nat
    BY <1>1, <1>2, <2>1 DEF Group, IsStore, Sims, Confs
  <2>3. SumOver(a, v) \in Nat
    BY <2>2, SumAdd
  <2>4. SumOver(a, u) \in Nat
    BY <2>2, SumAdd
  <2>5. t[k].sim = SumOver(a, v) /\ t[k].conf = SumOver(a, u)
    BY <1>1, <1>2, <1>5, <2>1 DEF Rooted
  <2>6. QED
    BY <2>3, <2>4, <2>5
<1>6. IsStore(t)
  BY <1>3, <1>4, <1>5 DEF IsStore
<1>7. QED
  BY <1>1, <1>6

\* What a resolved store holds for a pair is the sum over the edges that resolve to it.
LEMMA GroupHeld ==
  ASSUME NEW R, NEW s, NEW k, Cardinality(k) = 2
  PROVE  /\ Held(Rooted(R, s), k).sim = SumOver(Group(R, s, k), Sims(s))
         /\ Held(Rooted(R, s), k).conf = SumOver(Group(R, s, k), Confs(s))
<1>1. CASE k \in PairsAt(R, s)
  BY <1>1 DEF Held, Rooted
<1>2. CASE k \notin PairsAt(R, s)
  <2>1. Group(R, s, k) = {}
    BY <1>2 DEF Group, PairsAt
  <2>2. SumOver({}, Sims(s)) = 0 /\ SumOver({}, Confs(s)) = 0
    BY SumUnfold
  <2>3. DOMAIN Rooted(R, s) = PairsAt(R, s)
    BY DEF Rooted
  <2>4. QED
    BY <1>2, <2>1, <2>2, <2>3 DEF Held
<1>3. QED
  BY <1>1, <1>2

\* Resolving what was deposited is depositing what was resolved.
LEMMA DepositRooted ==
  ASSUME NEW R, NEW s, NEW g, IsStore(s), IsStore(g)
  PROVE  Rooted(R, Deposited(s, g)) = Deposited(Rooted(R, s), Rooted(R, g))
<1>1. PICK h, rs, rg : h = Deposited(s, g) /\ rs = Rooted(R, s) /\ rg = Rooted(R, g)
  OBVIOUS
<1>2. /\ DOMAIN h = DOMAIN s \union DOMAIN g
      /\ \A k \in DOMAIN h : /\ h[k].sim = Held(s, k).sim + Held(g, k).sim
                             /\ h[k].conf = Held(s, k).conf + Held(g, k).conf
  BY <1>1, DepositedIs
<1>3. PairsAt(R, h) = PairsAt(R, s) \union PairsAt(R, g)
  BY <1>2 DEF PairsAt
<1>4. \A k : Group(R, h, k) = Group(R, s, k) \union Group(R, g, k)
  BY <1>2 DEF Group
<1>5. ASSUME NEW k, Cardinality(k) = 2
      PROVE  /\ SumOver(Group(R, h, k), Sims(h)) = Held(rs, k).sim + Held(rg, k).sim
             /\ SumOver(Group(R, h, k), Confs(h)) = Held(rs, k).conf + Held(rg, k).conf
  <2>1. PICK A, B : A = Group(R, s, k) /\ B = Group(R, g, k)
    OBVIOUS
  <2>2. /\ A \in SUBSET DOMAIN s /\ B \in SUBSET DOMAIN g
        /\ \A j \in DOMAIN s : Moved(R, j) = k => j \in A
        /\ \A j \in DOMAIN g : Moved(R, j) = k => j \in B
        /\ \A j \in A \union B : Moved(R, j) = k /\ j \in DOMAIN h
    BY <1>2, <2>1 DEF Group
  <2>3. IsFiniteSet(A) /\ IsFiniteSet(B)
    BY <2>2, FS_Subset DEF IsStore
  <2>4. /\ \A x \in A : Sims(s)[x] \in Nat /\ Confs(s)[x] \in Nat
        /\ \A x \in B : Sims(g)[x] \in Nat /\ Confs(g)[x] \in Nat
    BY <2>2 DEF IsStore, Sims, Confs
  <2>5. ASSUME NEW x \in A \union B
        PROVE  /\ Sims(h)[x] = (IF x \in A THEN Sims(s)[x] ELSE 0) + (IF x \in B THEN Sims(g)[x] ELSE 0)
               /\ Confs(h)[x] = (IF x \in A THEN Confs(s)[x] ELSE 0) + (IF x \in B THEN Confs(g)[x] ELSE 0)
    <3>1. (x \in A <=> x \in DOMAIN s) /\ (x \in B <=> x \in DOMAIN g) /\ x \in DOMAIN h
      BY <2>2
    <3>2. /\ Held(s, x).sim = (IF x \in A THEN Sims(s)[x] ELSE 0)
          /\ Held(s, x).conf = (IF x \in A THEN Confs(s)[x] ELSE 0)
      BY <3>1 DEF Held, Sims, Confs
    <3>3. /\ Held(g, x).sim = (IF x \in B THEN Sims(g)[x] ELSE 0)
          /\ Held(g, x).conf = (IF x \in B THEN Confs(g)[x] ELSE 0)
      BY <3>1 DEF Held, Sims, Confs
    <3>4. Sims(h)[x] = h[x].sim /\ Confs(h)[x] = h[x].conf
      BY <3>1 DEF Sims, Confs
    <3>5. /\ h[x].sim = Held(s, x).sim + Held(g, x).sim
          /\ h[x].conf = Held(s, x).conf + Held(g, x).conf
      BY <1>2, <3>1
    <3>6. QED
      BY <3>2, <3>3, <3>4, <3>5
  <2>6. SumOver(A \union B, Sims(h)) = SumOver(A, Sims(s)) + SumOver(B, Sims(g))
    <3>1. PICK u, v, w : u = Sims(s) /\ v = Sims(g) /\ w = Sims(h)
      OBVIOUS
    <3>2. /\ \A x \in A : u[x] \in Nat
          /\ \A x \in B : v[x] \in Nat
          /\ \A x \in A \union B : w[x] = (IF x \in A THEN u[x] ELSE 0) + (IF x \in B THEN v[x] ELSE 0)
      BY <2>4, <2>5, <3>1
    <3>3. SumOver(A \union B, w) = SumOver(A, u) + SumOver(B, v)
      BY <2>3, <3>2, SumBoth
    <3>4. QED
      BY <3>1, <3>3
  <2>7. SumOver(A \union B, Confs(h)) = SumOver(A, Confs(s)) + SumOver(B, Confs(g))
    <3>1. PICK u, v, w : u = Confs(s) /\ v = Confs(g) /\ w = Confs(h)
      OBVIOUS
    <3>2. /\ \A x \in A : u[x] \in Nat
          /\ \A x \in B : v[x] \in Nat
          /\ \A x \in A \union B : w[x] = (IF x \in A THEN u[x] ELSE 0) + (IF x \in B THEN v[x] ELSE 0)
      BY <2>4, <2>5, <3>1
    <3>3. SumOver(A \union B, w) = SumOver(A, u) + SumOver(B, v)
      BY <2>3, <3>2, SumBoth
    <3>4. QED
      BY <3>1, <3>3
  <2>8. Held(rs, k).sim = SumOver(A, Sims(s)) /\ Held(rs, k).conf = SumOver(A, Confs(s))
    BY <1>1, <1>5, <2>1, GroupHeld
  <2>9. Held(rg, k).sim = SumOver(B, Sims(g)) /\ Held(rg, k).conf = SumOver(B, Confs(g))
    BY <1>1, <1>5, <2>1, GroupHeld
  <2>10. QED
    BY <1>4, <2>1, <2>6, <2>7, <2>8, <2>9
<1>6. \A k \in PairsAt(R, h) : Cardinality(k) = 2
  BY DEF PairsAt
<1>7. Rooted(R, h) = [k \in PairsAt(R, h) |-> [sim  |-> Held(rs, k).sim + Held(rg, k).sim,
                                               conf |-> Held(rs, k).conf + Held(rg, k).conf]]
  BY <1>5, <1>6 DEF Rooted
<1>8. DOMAIN rs = PairsAt(R, s) /\ DOMAIN rg = PairsAt(R, g)
  BY <1>1 DEF Rooted
<1>9. Deposited(rs, rg) = [k \in PairsAt(R, h) |-> [sim  |-> Held(rs, k).sim + Held(rg, k).sim,
                                                    conf |-> Held(rs, k).conf + Held(rg, k).conf]]
  BY <1>3, <1>8, DepositedIs
<1>10. QED
  BY <1>1, <1>7, <1>9

\* Both stores are finite and hold numbers, and resolve alike.
EvidenceInv ==
  /\ IsStore(edges) /\ IsStore(deposits)
  /\ \A k \in DOMAIN deposits : k \subseteq Ids
  /\ EvidenceIsKept

\* What a proposal deposits goes to both stores, between components that exist.
LEMMA DepositGain ==
  ASSUME TypeInv, NEW rep, Deposit(rep), NEW I, Ids \subseteq I, rep \in I
  PROVE  \E g : /\ edges' = Deposited(edges, g) /\ deposits' = Deposited(deposits, g)
                /\ IsStore(g) /\ \A k \in DOMAIN g : k \subseteq I
<1>1. PICK w \in [Overlap \ {rep} -> Weights] :
        LET seen == {r \in Overlap \ {rep} : w[r].conf > 0}
            gain == [k \in {{rep, r} : r \in seen} |-> w[CHOOSE r \in seen : r \in k]]
        IN /\ edges' = Deposited(edges, gain) /\ deposits' = Deposited(deposits, gain)
  BY DEF Deposit
<1>2. PICK S : S = {r \in Overlap \ {rep} : w[r].conf > 0}
  OBVIOUS
<1>3. PICK g : g = [k \in {{rep, r} : r \in S} |-> w[CHOOSE r \in S : r \in k]]
  OBVIOUS
<1>4. edges' = Deposited(edges, g) /\ deposits' = Deposited(deposits, g)
  BY <1>1, <1>2, <1>3
<1>5. S \subseteq Overlap \ {rep} /\ S \subseteq Ids /\ IsFiniteSet(S)
  <2>1. Overlap \subseteq Ids /\ S \subseteq Overlap \ {rep}
    BY <1>2, OverlapFacts, CompFacts
  <2>2. IsFiniteSet(Ids)
    BY CompFacts, FS_Interval
  <2>3. QED
    BY <2>1, <2>2, FS_Subset
<1>6. IsFiniteSet(DOMAIN g)
  <2>1. PICK G : G = [r \in S |-> {rep, r}]
    OBVIOUS
  <2>2. IsFiniteSet({G[r] : r \in S})
    BY <1>5, ImageFinite
  <2>3. DOMAIN g = {G[r] : r \in S}
    BY <1>3, <2>1
  <2>4. QED
    BY <2>2, <2>3
<1>7. ASSUME NEW k \in DOMAIN g
      PROVE  /\ \E a, b : k = {a, b}
             /\ g[k].sim \in Nat /\ g[k].conf \in Nat /\ k \subseteq I
  <2>1. PICK r \in S : k = {rep, r}
    BY <1>3
  <2>2. (CHOOSE q \in S : q \in k) \in S
    BY <2>1
  <2>3. PICK q \in S : g[k] = w[q]
    BY <1>3, <2>1, <2>2
  <2>4. g[k] \in Weights
    BY <1>5, <2>3
  <2>5. g[k].sim \in Nat /\ g[k].conf \in Nat
    BY <2>4, ObjectsAssumption
  <2>6. k \subseteq I
    BY <1>5, <2>1
  <2>7. QED
    BY <2>1, <2>5, <2>6
<1>8. IsStore(g)
  BY <1>6, <1>7 DEF IsStore
<1>9. QED
  BY <1>4, <1>7, <1>8

\* The steps as far as the two stores and root are concerned.
LEMMA EdgeSteps ==
  ASSUME TypeInv, [Next]_vars
  PROVE  \/ UNCHANGED <<edges, deposits, root>>
         \/ UNCHANGED <<edges, deposits>> /\ NewComp
         \/ UNCHANGED <<edges, deposits>> /\ \E w, l : United(w, l)
         \/ UNCHANGED <<deposits, root>> /\ edges' = AtRoots(edges)
         \/ \E h \in Ids' : Deposit(h) /\ (root' = root \/ NewComp)
<1>1. CASE UNCHANGED vars
  BY <1>1 DEF vars, comps, history
<1>2. CASE \E K : \E R \in SUBSET Points, ps \in Seq(Proposals) : Frame(K, R, ps)
  BY <1>2 DEF Frame, comps, history
<1>3. CASE \E h : FoldLegacy(h)
  BY <1>3 DEF FoldLegacy, Home, comps, history
<1>4. CASE \E h : FoldGraph(h)
  <2>1. PICK h : FoldGraph(h)
    BY <1>4
  <2>2. Deposit(h) /\ Home(h)
    BY <2>1 DEF FoldGraph
  <2>3. h \in Ids'
    BY <2>2, HomeFacts DEF Roots
  <2>4. root' = root \/ NewComp
    BY <2>2 DEF Home, comps
  <2>5. QED
    BY <2>2, <2>3, <2>4
<1>5. CASE \E t : Bridge(t)
  <2>1. PICK t : Bridge(t)
    BY <1>5
  <2>2. \E w, l : United(w, l)
    BY <2>1, BridgeType
  <2>3. QED
    BY <2>1, <2>2 DEF Bridge, history
<1>6. CASE Drop \/ EndFold \/ Finish \/ Snapshot \/ EndSweep \/ Join
  BY <1>6 DEF Drop, EndFold, Finish, Snapshot, EndSweep, Join, comps, history
<1>7. CASE DepositOnly
  <2>1. root' = root /\ Ids' = Ids
    BY <1>7 DEF DepositOnly, comps, Ids
  <2>2. CASE UNCHANGED <<edges, deposits>>
    BY <2>1, <2>2
  <2>3. CASE \E rep \in Overlap : Deposit(rep)
    <3>1. Overlap \subseteq Ids
      BY OverlapFacts, CompFacts
    <3>2. QED
      BY <2>1, <2>3, <3>1
  <2>4. QED
    BY <1>7, <2>2, <2>3 DEF DepositOnly
<1>8. CASE Merge
  <2>1. UNCHANGED comps \/ \E w, l : United(w, l)
    BY <1>8, MergeFacts
  <2>2. QED
    BY <1>8, <2>1 DEF Merge, comps, history
<1>9. CASE Sweep
  <2>1. UNCHANGED comps \/ \E w, l : United(w, l)
    BY <1>9, SweepFacts
  <2>2. QED
    BY <1>9, <2>1 DEF Sweep, comps, history
<1>10. CASE EndMerge
  BY <1>10 DEF EndMerge, comps, history
<1>11. QED
  BY <1>1, <1>2, <1>3, <1>4, <1>5, <1>6, <1>7, <1>8, <1>9, <1>10, Steps

\* Uniting resolves both stores once more; compacting resolves one of them, which
\* resolving again does not see; a deposit adds the same to both.
LEMMA NextEvidence ==
  ASSUME TypeInv, EvidenceInv, [Next]_vars
  PROVE  EvidenceInv'
<1>1. PICK R, Q, e, d : R = root /\ Q = root' /\ e = edges /\ d = deposits
  OBVIOUS
<1>2. /\ IsStore(e) /\ IsStore(d) /\ Rooted(R, e) = Rooted(R, d)
      /\ \A k \in DOMAIN e : k \subseteq Ids
      /\ \A k \in DOMAIN d : k \subseteq Ids
  BY <1>1, RootedIs DEF EvidenceInv, EvidenceIsKept, TypeInv, IndexType
<1>3. SUFFICES /\ IsStore(edges') /\ IsStore(deposits')
               /\ \A k \in DOMAIN deposits' : k \subseteq Ids'
               /\ Rooted(Q, edges') = Rooted(Q, deposits')
  <2>1. IsStore(edges') /\ IsStore(deposits') => IsStore(edges)' /\ IsStore(deposits)'
    BY DEF IsStore
  <2>2. Rooted(Q, edges') = Rooted(Q, deposits') => EvidenceIsKept'
    BY <1>1 DEF EvidenceIsKept, AtRoots, Rooted, PairsAt, Group, Moved, Resolved, Sims, Confs
  <2>3. QED
    BY <2>1, <2>2 DEF EvidenceInv
<1>4. CASE UNCHANGED <<edges, deposits, root>>
  BY <1>1, <1>2, <1>4 DEF Ids
<1>5. ASSUME NewComp
      PROVE  /\ Rooted(Q, e) = Rooted(R, e) /\ Rooted(Q, d) = Rooted(R, d)
             /\ Ids \subseteq Ids'
  <2>1. Ids \subseteq Ids' /\ \A i \in Ids : Q[i] = R[i]
    BY <1>1, <1>5, NewCompFacts
  <2>2. \A k : k \subseteq Ids => Moved(Q, k) = Moved(R, k)
    BY <2>1 DEF Moved
  <2>3. \A k \in DOMAIN e : Moved(Q, k) = Moved(R, k)
    BY <1>2, <2>2
  <2>4. \A k \in DOMAIN d : Moved(Q, k) = Moved(R, k)
    BY <1>2, <2>2
  <2>5. Rooted(Q, e) = Rooted(R, e)
    BY <2>3, RootedAgree
  <2>6. Rooted(Q, d) = Rooted(R, d)
    BY <2>4, RootedAgree
  <2>7. QED
    BY <2>1, <2>5, <2>6
<1>6. CASE UNCHANGED <<edges, deposits>> /\ NewComp
  BY <1>1, <1>2, <1>5, <1>6
<1>7. CASE UNCHANGED <<edges, deposits>> /\ \E w, l : United(w, l)
  <2>1. PICK w, l : United(w, l)
    BY <1>7
  <2>2. /\ Ids' = Ids /\ \A i \in Ids : root[i] \in Ids
        /\ \A i \in Ids : Q[i] = IF R[i] = l THEN w ELSE R[i]
    BY <1>1, <2>1, CompFacts DEF United
  <2>3. PICK m : m = [i \in Ids |-> IF i = l THEN w ELSE i]
    OBVIOUS
  <2>4. \A i \in Ids : m[R[i]] = Q[i]
    BY <1>1, <2>2, <2>3
  <2>5. \A k : k \subseteq Ids => Moved(Q, k) = Moved(m, Moved(R, k))
    BY <2>4 DEF Moved
  <2>6. \A k \in DOMAIN e : Moved(Q, k) = Moved(m, Moved(R, k))
    BY <1>2, <2>5
  <2>7. \A k \in DOMAIN d : Moved(Q, k) = Moved(m, Moved(R, k))
    BY <1>2, <2>5
  <2>8. Rooted(Q, e) = Rooted(m, Rooted(R, e))
    BY <1>2, <2>6, RootedTwice
  <2>9. Rooted(Q, d) = Rooted(m, Rooted(R, d))
    BY <1>2, <2>7, RootedTwice
  <2>10. Rooted(Q, e) = Rooted(Q, d)
    BY <1>2, <2>8, <2>9
  <2>11. QED
    BY <1>1, <1>2, <1>7, <2>2, <2>10
<1>8. CASE UNCHANGED <<deposits, root>> /\ edges' = AtRoots(edges)
  <2>1. edges' = Rooted(R, e) /\ deposits' = d /\ Q = R /\ Ids' = Ids
    BY <1>1, <1>8, RootedIs DEF Ids
  <2>2. \A i \in Ids : R[R[i]] = R[i]
    BY <1>1, CompFacts
  <2>3. \A k : k \subseteq Ids => Moved(R, k) = Moved(R, Moved(R, k))
    BY <2>2 DEF Moved
  <2>4. \A k \in DOMAIN e : Moved(R, k) = Moved(R, Moved(R, k))
    BY <1>2, <2>3
  <2>5. Rooted(R, e) = Rooted(R, Rooted(R, e))
    BY <1>2, <2>4, RootedTwice
  <2>6. IsStore(Rooted(R, e))
    BY <1>2, RootedStore
  <2>7. QED
    BY <1>2, <2>1, <2>5, <2>6
<1>9. CASE \E h \in Ids' : Deposit(h) /\ (root' = root \/ NewComp)
  <2>1. PICK h \in Ids' : Deposit(h) /\ (root' = root \/ NewComp)
    BY <1>9
  <2>2. PICK I : I = Ids'
    OBVIOUS
  <2>3. Ids \subseteq I /\ h \in I /\ Rooted(Q, e) = Rooted(Q, d)
    <3>1. CASE root' = root
      BY <1>1, <1>2, <2>1, <2>2, <3>1 DEF Ids
    <3>2. CASE NewComp
      BY <1>2, <1>5, <2>1, <2>2, <3>2
    <3>3. QED
      BY <2>1, <3>1, <3>2
  <2>4. PICK g : /\ edges' = Deposited(e, g) /\ deposits' = Deposited(d, g)
                 /\ IsStore(g) /\ \A k \in DOMAIN g : k \subseteq I
    BY <1>1, <2>1, <2>3, DepositGain
  <2>5. IsStore(Deposited(e, g)) /\ IsStore(Deposited(d, g))
    BY <1>2, <2>4, DepositedStore
  <2>6. Rooted(Q, Deposited(e, g)) = Deposited(Rooted(Q, e), Rooted(Q, g))
    BY <1>2, <2>4, DepositRooted
  <2>7. Rooted(Q, Deposited(d, g)) = Deposited(Rooted(Q, d), Rooted(Q, g))
    BY <1>2, <2>4, DepositRooted
  <2>8. \A k \in DOMAIN Deposited(d, g) : k \subseteq I
    BY <1>2, <2>3, <2>4, DepositedIs
  <2>9. QED
    BY <2>2, <2>3, <2>4, <2>5, <2>6, <2>7, <2>8
<1>10. QED
  BY <1>4, <1>6, <1>7, <1>8, <1>9, EdgeSteps

\* Compacting the edge store after a merge loses no affinity between two components still
\* apart and invents none: it resolves like the store that was never compacted
\* (resolveMerges, object_consolidate.cpp).
THEOREM EvidenceHolds == Spec => []EvidenceIsKept
<1>1. Init => TypeInv /\ EvidenceInv
  <2> SUFFICES ASSUME Init PROVE TypeInv /\ EvidenceInv
    OBVIOUS
  <2>1. edges = NoEdges /\ deposits = NoEdges
    BY DEF Init
  <2>2. IsStore(NoEdges) /\ DOMAIN NoEdges = {}
    BY FS_EmptySet DEF IsStore, NoEdges
  <2>3. QED
    BY <2>1, <2>2, InitType DEF EvidenceInv, EvidenceIsKept
<1>2. TypeInv /\ EvidenceInv /\ [Next]_vars => (TypeInv /\ EvidenceInv)'
  BY NextType, NextEvidence
<1>3. EvidenceInv => EvidenceIsKept
  BY DEF EvidenceInv
<1>4. QED
  BY <1>1, <1>2, <1>3, PTL DEF Spec
==============================================================================
