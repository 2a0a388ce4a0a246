---------------------------- MODULE ModalsProofs ----------------------------
(***************************************************************************)
(* Theorems about the modals, for all inputs, variables, lists and logs.   *)
(***************************************************************************)
EXTENDS Modals, SequenceTheorems, WellFoundedInduction, TLAPS

----------------------------------------------------------------------------
(* Lists, and the loops that make them *)

Sequence(q) == q \in Seq(ToSet(q))

(* A function on 1..n is a sequence.                                        *)
LEMMA FunctionIsSequence ==
  ASSUME NEW n \in Nat, NEW q, q = [i \in 1..n |-> q[i]]
  PROVE  Sequence(q) /\ Len(q) = n
  <1>1. DOMAIN q = 1..n
    OBVIOUS
  <1>2. \A i \in 1..n : q[i] \in ToSet(q)
    BY <1>1 DEF ToSet
  <1>3. q \in [1..n -> ToSet(q)]
    BY <1>2
  <1>. QED  BY <1>3 DEF Sequence

LEMMA SequenceOfItsOwn ==
  ASSUME NEW S, NEW q \in Seq(S)
  PROVE  Sequence(q)
  <1>1. Len(q) \in Nat /\ q = [i \in 1..Len(q) |-> q[i]]
    OBVIOUS
  <1>. QED  BY <1>1, FunctionIsSequence

(* A set of naturals has a least one.                                       *)
LEMMA LeastNumber ==
  ASSUME NEW T, T \subseteq Nat, T # {}
  PROVE  \E least \in T : \A n \in T : least <= n
  <1>1. PICK least \in T : \A n \in T : <<n, least>> \notin OpToRel(<, Nat)
    BY NatLessThanWellFounded, WFMin
  <1>2. \A n \in T : ~(n < least)
    BY <1>1 DEF OpToRel
  <1>. QED  BY <1>2

(* Induction over the naturals, for a set.                                  *)
LEMMA Induction ==
  ASSUME NEW G, 0 \in G, \A n \in Nat : n \in G => n + 1 \in G
  PROVE  Nat \subseteq G
  <1>. SUFFICES ASSUME Nat \ G # {} PROVE FALSE
    OBVIOUS
  <1>1. PICK least \in Nat \ G : \A n \in Nat \ G : least <= n
    BY LeastNumber
  <1>2. least # 0 /\ least - 1 \in Nat
    BY <1>1
  <1>3. least - 1 \in G
    BY <1>1, <1>2
  <1>4. (least - 1) + 1 = least
    BY <1>2
  <1>. QED  BY <1>1, <1>2, <1>3, <1>4

(* What a loop has computed after n rounds: the value it starts with, and   *)
(* what each round makes of the value before.                               *)
Rounds(base, step, n, f) ==
  /\ DOMAIN f = 0..n
  /\ f[0] = base
  /\ \A m \in 1..n : f[m] = step[m][f[m - 1]]

(* A loop computes something.                                               *)
LEMMA LoopComputes ==
  ASSUME NEW S, NEW base \in S, NEW size \in Nat, NEW step,
         \A m \in 1..size : \A s \in S : step[m][s] \in S
  PROVE  \E f \in [0..size -> S] : Rounds(base, step, size, f)
  <1>. DEFINE Solved(n) == \E f \in [0..n -> S] : Rounds(base, step, n, f)
              G == {n \in Nat : n <= size => Solved(n)}
  <1>1. 0 \in G
    <2>. DEFINE f == [m \in 0..0 |-> base]
    <2>1. f \in [0..0 -> S] /\ Rounds(base, step, 0, f)
      BY DEF Rounds
    <2>. QED  BY <2>1
  <1>2. ASSUME NEW n \in Nat, n \in G
        PROVE  n + 1 \in G
    <2>. SUFFICES ASSUME n + 1 <= size
                  PROVE  Solved(n + 1)
      OBVIOUS
    <2>1. PICK f \in [0..n -> S] : Rounds(base, step, n, f)
      BY <1>2
    <2>. DEFINE new == step[n + 1][f[n]]
                g   == [m \in 0..(n + 1) |-> IF m = n + 1 THEN new ELSE f[m]]
    <2>2. new \in S
      <3>1. n + 1 \in 1..size /\ f[n] \in S
        BY <2>1
      <3>. QED  BY <3>1
    <2>. HIDE DEF new
    <2>3. g \in [0..(n + 1) -> S] /\ DOMAIN g = 0..(n + 1)
      BY <2>2
    <2>4. g[0] = base
      BY <2>1 DEF Rounds
    <2>5. ASSUME NEW m \in 1..(n + 1)
          PROVE  g[m] = step[m][g[m - 1]]
      <3>1. CASE m = n + 1
        <4>1. g[m] = new /\ g[m - 1] = f[n]
          BY <3>1
        <4>. QED  BY <3>1, <4>1 DEF new
      <3>2. CASE m \in 1..n
        <4>1. g[m] = f[m] /\ g[m - 1] = f[m - 1]
          BY <3>2
        <4>. QED  BY <2>1, <3>2, <4>1 DEF Rounds
      <3>. QED  BY <3>1, <3>2
    <2>. HIDE DEF g
    <2>6. Rounds(base, step, n + 1, g)
      BY <2>3, <2>4, <2>5 DEF Rounds
    <2>. QED  BY <2>3, <2>6
  <1>. HIDE DEF G
  <1>3. size \in G
    BY <1>1, <1>2, Induction
  <1>. HIDE DEF Solved
  <1>4. Solved(size)
    BY <1>3 DEF G
  <1>. QED  BY <1>4 DEF Solved

(* What the rounds keep, they keep to the end.                              *)
LEMMA LoopKeeps ==
  ASSUME NEW size \in Nat, NEW T, 0 \in T, \A n \in 1..size : n - 1 \in T => n \in T
  PROVE  size \in T
  <1>. DEFINE G == {n \in Nat : n <= size => n \in T}
  <1>1. 0 \in G
    OBVIOUS
  <1>2. ASSUME NEW n \in Nat, n \in G
        PROVE  n + 1 \in G
    <2>1. CASE n + 1 <= size
      <3>1. n \in T /\ n + 1 \in 1..size /\ (n + 1) - 1 = n
        BY <1>2, <2>1
      <3>. QED  BY <3>1
    <2>. QED  BY <2>1
  <1>. HIDE DEF G
  <1>3. size \in G
    BY <1>1, <1>2, Induction
  <1>. QED  BY <1>3 DEF G

(* Only does what its loop does.                                            *)
LEMMA OnlyIsLoop ==
  ASSUME NEW S, NEW list \in Seq(S), NEW kept
  PROVE  \E upTo : /\ Only(list, kept) = upTo[Len(list)]
                   /\ upTo[0] = <<>>
                   /\ \A n \in 1..Len(list) :
                        upTo[n] = IF list[n] \in kept THEN Append(upTo[n - 1], list[n])
                                  ELSE upTo[n - 1]
  <1>. DEFINE Is(g) == g = [n \in 0..Len(list) |->
                IF n = 0 THEN <<>>
                ELSE IF list[n] \in kept THEN Append(g[n - 1], list[n])
                ELSE g[n - 1]]
              upTo == CHOOSE g : Is(g)
  <1>1. Only(list, kept) = upTo[Len(list)]
    BY DEF Only
  <1>2. \E g : Is(g)
    <2>. DEFINE step == [n \in 1..Len(list) |->
                  [s \in Seq(S) |-> IF list[n] \in kept THEN Append(s, list[n]) ELSE s]]
    <2>0. Len(list) \in Nat /\ <<>> \in Seq(S) /\ \A n \in 1..Len(list) : list[n] \in S
      OBVIOUS
    <2>1. \A n \in 1..Len(list) : \A s \in Seq(S) :
            /\ step[n][s] = IF list[n] \in kept THEN Append(s, list[n]) ELSE s
            /\ step[n][s] \in Seq(S)
      BY <2>0
    <2>. HIDE DEF step
    <2>2. PICK g \in [0..Len(list) -> Seq(S)] : Rounds(<<>>, step, Len(list), g)
      BY <2>0, <2>1, LoopComputes
    <2>3. ASSUME NEW n \in 0..Len(list)
          PROVE  g[n] = IF n = 0 THEN <<>>
                        ELSE IF list[n] \in kept THEN Append(g[n - 1], list[n])
                        ELSE g[n - 1]
      <3>1. CASE n = 0
        BY <2>2, <3>1 DEF Rounds
      <3>2. CASE n # 0
        <4>1. n \in 1..Len(list) /\ n - 1 \in 0..Len(list)
          BY <2>0, <3>2
        <4>2. g[n] = step[n][g[n - 1]] /\ g[n - 1] \in Seq(S)
          BY <2>2, <4>1 DEF Rounds
        <4>. QED  BY <2>1, <3>2, <4>1, <4>2
      <3>. QED  BY <3>1, <3>2
    <2>4. Is(g)
      BY <2>3
    <2>. QED  BY <2>4
  <1>3. Is(upTo)
    <2>. HIDE DEF Is
    <2>. QED  BY <1>2
  <1>. HIDE DEF upTo
  <1>4. upTo[0] = <<>>
    BY <1>3
  <1>5. ASSUME NEW n \in 1..Len(list)
        PROVE  upTo[n] = IF list[n] \in kept THEN Append(upTo[n - 1], list[n])
                         ELSE upTo[n - 1]
    <2>1. n \in 0..Len(list) /\ n # 0
      OBVIOUS
    <2>. QED  BY <1>3, <2>1
  <1>. QED  BY <1>1, <1>4, <1>5

(* Only keeps members of the list.                                          *)
LEMMA OnlyKeepsMembers ==
  ASSUME NEW S, NEW list \in Seq(S), NEW kept
  PROVE  Only(list, kept) \in Seq(S \cap kept)
  <1>1. PICK upTo : /\ Only(list, kept) = upTo[Len(list)]
                    /\ upTo[0] = <<>>
                    /\ \A n \in 1..Len(list) :
                         upTo[n] = IF list[n] \in kept THEN Append(upTo[n - 1], list[n])
                                   ELSE upTo[n - 1]
    BY OnlyIsLoop
  <1>. DEFINE T == {n \in 0..Len(list) : upTo[n] \in Seq(S \cap kept)}
  <1>2. Len(list) \in Nat /\ \A n \in 1..Len(list) : list[n] \in S
    OBVIOUS
  <1>3. 0 \in T
    <2>1. <<>> \in Seq(S \cap kept) /\ 0 \in 0..Len(list)
      BY <1>2
    <2>. QED  BY <1>1, <2>1
  <1>4. ASSUME NEW n \in 1..Len(list), n - 1 \in T
        PROVE  n \in T
    <2>1. n \in 0..Len(list) /\ upTo[n - 1] \in Seq(S \cap kept) /\ list[n] \in S
      BY <1>2, <1>4
    <2>2. CASE list[n] \in kept
      <3>1. upTo[n] = Append(upTo[n - 1], list[n])
        BY <1>1, <2>2
      <3>2. list[n] \in S \cap kept
        BY <2>1, <2>2
      <3>3. Append(upTo[n - 1], list[n]) \in Seq(S \cap kept)
        BY <2>1, <3>2
      <3>. QED  BY <2>1, <3>1, <3>3
    <2>3. CASE list[n] \notin kept
      <3>1. upTo[n] = upTo[n - 1]
        BY <1>1, <2>3
      <3>. QED  BY <2>1, <3>1
    <2>. QED  BY <2>2, <2>3
  <1>. HIDE DEF T
  <1>5. Len(list) \in T
    BY <1>2, <1>3, <1>4, LoopKeeps
  <1>. QED  BY <1>1, <1>5 DEF T

(* Only keeps as many as there are, or fewer.                               *)
LEMMA OnlyKeepsFewer ==
  ASSUME NEW S, NEW list \in Seq(S), NEW kept
  PROVE  Len(Only(list, kept)) \in 0..Len(list)
  <1>1. PICK upTo : /\ Only(list, kept) = upTo[Len(list)]
                    /\ upTo[0] = <<>>
                    /\ \A n \in 1..Len(list) :
                         upTo[n] = IF list[n] \in kept THEN Append(upTo[n - 1], list[n])
                                   ELSE upTo[n - 1]
    BY OnlyIsLoop
  <1>. DEFINE T == {n \in 0..Len(list) : upTo[n] \in Seq(S) /\ Len(upTo[n]) \in 0..n}
  <1>2. Len(list) \in Nat /\ \A n \in 1..Len(list) : list[n] \in S
    OBVIOUS
  <1>3. 0 \in T
    <2>1. <<>> \in Seq(S) /\ Len(<<>>) = 0 /\ 0 \in 0..Len(list)
      BY <1>2
    <2>2. upTo[0] \in Seq(S) /\ Len(upTo[0]) \in 0..0
      BY <1>1, <2>1
    <2>. QED  BY <2>1, <2>2
  <1>4. ASSUME NEW n \in 1..Len(list), n - 1 \in T
        PROVE  n \in T
    <2>1. /\ n \in 0..Len(list) /\ upTo[n - 1] \in Seq(S) /\ list[n] \in S
          /\ Len(upTo[n - 1]) \in 0..(n - 1)
      BY <1>2, <1>4
    <2>2. CASE list[n] \in kept
      <3>1. upTo[n] = Append(upTo[n - 1], list[n])
        BY <1>1, <2>2
      <3>2. /\ Append(upTo[n - 1], list[n]) \in Seq(S)
            /\ Len(Append(upTo[n - 1], list[n])) = Len(upTo[n - 1]) + 1
        BY <2>1
      <3>3. upTo[n] \in Seq(S) /\ Len(upTo[n]) \in 0..n
        BY <2>1, <3>1, <3>2
      <3>. QED  BY <2>1, <3>3
    <2>3. CASE list[n] \notin kept
      <3>1. upTo[n] = upTo[n - 1]
        BY <1>1, <2>3
      <3>2. upTo[n] \in Seq(S) /\ Len(upTo[n]) \in 0..n
        BY <2>1, <3>1
      <3>. QED  BY <2>1, <3>2
    <2>. QED  BY <2>2, <2>3
  <1>. HIDE DEF T
  <1>5. Len(list) \in T
    BY <1>2, <1>3, <1>4, LoopKeeps
  <1>. QED  BY <1>1, <1>5 DEF T

(* FlattenSeq appends the lists one after another.                          *)
Flattening(flat, seqs, size, S) ==
  /\ size \in Nat /\ seqs \in [1..size -> Seq(S)] /\ flat \in [0..size -> Seq(S)]
  /\ flat[0] = <<>>
  /\ \A n \in 1..size : flat[n] = flat[n - 1] \o seqs[n]

LEMMA FlattenSeqIsLoop ==
  ASSUME NEW S, NEW size \in Nat, NEW seqs \in [1..size -> Seq(S)]
  PROVE  \E flat : Flattening(flat, seqs, size, S) /\ FlattenSeq(seqs) = flat[size]
  <1>0. seqs \in Seq(Seq(S)) /\ Len(seqs) = size
    OBVIOUS
  <1>1. PICK flat : Flattening(flat, seqs, size, S)
    <2>. DEFINE step == [n \in 1..size |-> [q \in Seq(S) |-> q \o seqs[n]]]
    <2>1. <<>> \in Seq(S) /\ \A n \in 1..size : seqs[n] \in Seq(S)
      OBVIOUS
    <2>2. ASSUME NEW n \in 1..size, NEW q \in Seq(S)
          PROVE  step[n][q] = q \o seqs[n] /\ q \o seqs[n] \in Seq(S)
      BY <2>1
    <2>. HIDE DEF step
    <2>3. PICK g \in [0..size -> Seq(S)] : Rounds(<<>>, step, size, g)
      BY <2>1, <2>2, LoopComputes
    <2>4. ASSUME NEW n \in 1..size
          PROVE  g[n] = g[n - 1] \o seqs[n]
      <3>1. g[n - 1] \in Seq(S)
        BY <2>3
      <3>. QED  BY <2>2, <2>3, <3>1 DEF Rounds
    <2>. QED  BY <2>3, <2>4 DEF Flattening, Rounds
  <1>2. CASE size = 0
    <2>1. FlattenSeq(seqs) = seqs
      BY <1>0, <1>2 DEF FlattenSeq
    <2>2. seqs = <<>>
      BY <1>0, <1>2
    <2>. QED  BY <1>1, <1>2, <2>1, <2>2 DEF Flattening
  <1>3. CASE size # 0
    <2>. DEFINE Is(g) == g = [i \in 1..Len(seqs) |-> IF i = 1 THEN seqs[i] ELSE g[i - 1] \o seqs[i]]
                all == CHOOSE g : Is(g)
                T == {n \in 0..size : n # 0 => all[n] = flat[n]}
    <2>1. FlattenSeq(seqs) = all[size]
      BY <1>0, <1>3 DEF FlattenSeq
    <2>2. ASSUME NEW n \in 1..size
          PROVE  /\ n # 1 => n - 1 \in 1..size
                 /\ flat[n] = IF n = 1 THEN seqs[n] ELSE flat[n - 1] \o seqs[n]
      <3>1. n # 1 => n - 1 \in 1..size
        OBVIOUS
      <3>2. CASE n = 1
        <4>0. seqs[1] \in Seq(S)
          BY <3>2
        <4>1. <<>> \o seqs[1] = seqs[1]
          BY <4>0, ConcatEmptySeq
        <4>2. flat[n] = flat[n - 1] \o seqs[n] /\ flat[0] = <<>>
          BY <1>1 DEF Flattening
        <4>3. n - 1 = 0
          BY <3>2
        <4>. QED  BY <3>1, <3>2, <4>1, <4>2, <4>3
      <3>. QED  BY <1>1, <3>1, <3>2 DEF Flattening
    <2>3. \E g : Is(g)
      <3>. DEFINE g == [n \in 1..size |-> flat[n]]
      <3>1. ASSUME NEW n \in 1..size
            PROVE  g[n] = IF n = 1 THEN seqs[n] ELSE g[n - 1] \o seqs[n]
        BY <2>2
      <3>2. g = [n \in 1..size |-> g[n]]
        OBVIOUS
      <3>. HIDE DEF g
      <3>3. Is(g)
        BY <1>0, <3>1, <3>2
      <3>. QED  BY <3>3
    <2>4. Is(all)
      <3>. HIDE DEF Is
      <3>. QED  BY <2>3
    <2>. HIDE DEF all
    <2>5. ASSUME NEW n \in 1..size, n - 1 \in T
          PROVE  n \in T
      <3>1. n \in 0..size
        OBVIOUS
      <3>2. all[n] = IF n = 1 THEN seqs[n] ELSE all[n - 1] \o seqs[n]
        BY <1>0, <2>4
      <3>3. n # 1 => all[n - 1] = flat[n - 1]
        BY <2>5
      <3>. QED  BY <2>2, <3>1, <3>2, <3>3
    <2>6. 0 \in T
      OBVIOUS
    <2>. HIDE DEF T
    <2>7. size \in T
      BY <2>5, <2>6, LoopKeeps
    <2>8. all[size] = flat[size]
      BY <1>3, <2>7 DEF T
    <2>. QED  BY <1>1, <2>1, <2>8
  <1>. QED  BY <1>2, <1>3

(* Where the lists stand in the flattened one.                              *)
LEMMA FlattenedPlaces ==
  ASSUME NEW S, NEW size, NEW seqs, NEW flat, Flattening(flat, seqs, size, S),
         NEW s \in 1..size, NEW k \in 1..Len(seqs[s])
  PROVE  /\ Len(flat[s - 1]) + k \in 1..Len(flat[size])
         /\ flat[size][Len(flat[s - 1]) + k] = seqs[s][k]
  <1>. DEFINE at == Len(flat[s - 1]) + k
              T == {n \in 0..size : n >= s => at \in 1..Len(flat[n]) /\ flat[n][at] = seqs[s][k]}
  <1>0. /\ size \in Nat /\ seqs \in [1..size -> Seq(S)] /\ flat \in [0..size -> Seq(S)]
        /\ \A n \in 1..size : flat[n] = flat[n - 1] \o seqs[n]
    BY DEF Flattening
  <1>1. /\ \A n \in 0..size : flat[n] \in Seq(S)
        /\ \A n \in 1..size : seqs[n] \in Seq(S)
        /\ Len(flat[s - 1]) \in Nat /\ Len(seqs[s]) \in Nat
    <2>1. s - 1 \in 0..size
      BY <1>0
    <2>. QED  BY <1>0, <2>1
  <1>2. 0 \in T
    BY <1>0
  <1>3. ASSUME NEW n \in 1..size, n - 1 \in T
        PROVE  n \in T
    <2>1. /\ n \in 0..size /\ n - 1 \in 0..size
          /\ flat[n] = flat[n - 1] \o seqs[n]
          /\ flat[n - 1] \in Seq(S) /\ seqs[n] \in Seq(S)
      <3>1. n \in 0..size /\ n - 1 \in 0..size
        BY <1>0
      <3>. QED  BY <1>0, <1>1, <3>1
    <2>2. CASE n < s
      BY <2>1, <2>2
    <2>3. CASE n = s
      <3>1. /\ Len(flat[n]) = Len(flat[n - 1]) + Len(seqs[n])
            /\ flat[n][Len(flat[n - 1]) + k] = seqs[n][k]
        <4>. DEFINE p == flat[n - 1]
                    q == seqs[n]
        <4>1. p \in Seq(S) /\ q \in Seq(S) /\ k \in 1..Len(q) /\ flat[n] = p \o q
          BY <2>1, <2>3
        <4>2. Len(p \o q) = Len(p) + Len(q) /\ (p \o q)[Len(p) + k] = q[k]
          <5>. HIDE DEF p, q
          <5>. QED  BY <4>1
        <4>. QED  BY <4>1, <4>2
      <3>2. at \in 1..Len(flat[n]) /\ flat[n][at] = seqs[s][k]
        BY <1>0, <1>1, <2>3, <3>1
      <3>. QED  BY <2>1, <3>2
    <2>4. CASE n > s
      <3>1. at \in 1..Len(flat[n - 1]) /\ flat[n - 1][at] = seqs[s][k]
        BY <1>3, <2>4
      <3>2. at \in 1..Len(flat[n]) /\ flat[n][at] = flat[n - 1][at]
        <4>. DEFINE p == flat[n - 1]
                    q == seqs[n]
        <4>1. p \in Seq(S) /\ q \in Seq(S) /\ at \in 1..Len(p) /\ flat[n] = p \o q
          BY <2>1, <3>1
        <4>2. at \in 1..Len(p \o q) /\ (p \o q)[at] = p[at]
          <5>. HIDE DEF at, p, q
          <5>. QED  BY <4>1
        <4>. QED  BY <4>1, <4>2
      <3>. QED  BY <2>1, <3>1, <3>2
    <2>. QED  BY <1>0, <2>2, <2>3, <2>4
  <1>. HIDE DEF T
  <1>4. size \in T
    BY <1>0, <1>2, <1>3, LoopKeeps
  <1>. QED  BY <1>4 DEF T

(* A nonempty set of places in a list has a last one.                       *)
LEMMA GreatestNumber ==
  ASSUME NEW size \in Nat, NEW T, T \subseteq 1..size, T # {}
  PROVE  \E last \in T : \A n \in T : n <= last
  <1>. DEFINE Rest == {size - n : n \in T}
  <1>0. \A n \in T : n \in 1..size /\ size - n \in Nat
    OBVIOUS
  <1>1. Rest \subseteq Nat /\ Rest # {}
    BY <1>0
  <1>2. PICK least \in Rest : \A n \in Rest : least <= n
    BY <1>1, LeastNumber
  <1>3. PICK last \in T : least = size - last
    BY <1>2
  <1>4. ASSUME NEW n \in T
        PROVE  n <= last
    <2>1. size - last <= size - n
      BY <1>2, <1>3, <1>4
    <2>2. last \in 1..size /\ n \in 1..size
      BY <1>0, <1>3, <1>4
    <2>. QED  BY <2>1, <2>2
  <1>. QED  BY <1>4

(* Up and down stay within the list.                                        *)
LEMMA MovesWithin ==
  ASSUME NEW size \in Nat, modal.selected \in Bounds(size), Moves(size)
  PROVE  \E selected \in Bounds(size) : Stays([modal EXCEPT !.selected = selected])
  <1>1. CASE modal.selected > 1 /\ Stays([modal EXCEPT !.selected = modal.selected - 1])
    <2>1. modal.selected - 1 \in Bounds(size)
      BY <1>1 DEF Bounds
    <2>. QED  BY <1>1, <2>1
  <1>2. CASE modal.selected < size /\ Stays([modal EXCEPT !.selected = modal.selected + 1])
    <2>1. modal.selected + 1 \in Bounds(size)
      BY <1>2 DEF Bounds
    <2>. QED  BY <1>2, <2>1
  <1>. QED  BY <1>1, <1>2 DEF Moves

(* Where a value is in a list is a place of the list.                       *)
LEMMA PlaceIsInList ==
  ASSUME NEW value, NEW list, Sequence(list)
  PROVE  Place(value, list) \in Bounds(Len(list))
  <1>1. Len(list) \in Nat /\ DOMAIN list = 1..Len(list)
    BY DEF Sequence
  <1>2. CASE value \in ToSet(list)
    <2>. DEFINE T == {i \in 1..Len(list) : list[i] = value}
                IsLast(i) == list[i] = value /\ \A j \in (i + 1)..Len(list) : list[j] # value
    <2>1. T \subseteq 1..Len(list) /\ T # {}
      BY <1>1, <1>2 DEF ToSet
    <2>2. PICK last \in T : \A n \in T : n <= last
      <3>. HIDE DEF T
      <3>. QED  BY <1>1, <2>1, GreatestNumber
    <2>3. IsLast(last)
      <3>1. ASSUME NEW j \in (last + 1)..Len(list), list[j] = value
            PROVE  FALSE
        <4>1. j \in T
          BY <1>1, <2>2, <3>1
        <4>. QED  BY <1>1, <2>2, <4>1
      <3>. QED  BY <2>2, <3>1
    <2>4. Place(value, list) = CHOOSE i \in 1..Len(list) : IsLast(i)
      BY <1>1, <1>2 DEF Place
    <2>5. (CHOOSE i \in 1..Len(list) : IsLast(i)) \in 1..Len(list)
      <3>. HIDE DEF IsLast
      <3>. QED  BY <2>2, <2>3
    <2>. QED  BY <1>1, <2>4, <2>5 DEF Bounds
  <1>3. CASE value \notin ToSet(list)
    BY <1>1, <1>3 DEF Place, Bounds
  <1>. QED  BY <1>2, <1>3

----------------------------------------------------------------------------
(* The modals that ask *)

(* A warning is about the value that stands in the input.                   *)
WarningInv ==
  modal.kind = "input" =>
    /\ {"asks", "text", "validationErr"} \subseteq DOMAIN modal
    /\ modal.validationErr # {} => modal.validationErr = Validate(modal.asks, modal.text)

(* A modal on the stack has not answered.                                   *)
ModalInv ==
  /\ "kind" \in DOMAIN modal
  /\ modal.kind \in {"input", "variables"} => answer = NoAnswer
  /\ modal.kind = "variables" =>
       /\ {"asks", "selected"} \subseteq DOMAIN modal
       /\ Sequence(modal.asks) /\ modal.selected \in 1..Len(modal.asks)
  /\ WarningInv

(* What a step may answer.                                                  *)
AnswerIsChecked ==
  /\ modal.kind = "input" /\ answer'.kind = "input" =>
       modal.validationErr = Validate(modal.asks, answer'.value)
  /\ modal.kind = "variables" /\ answer'.kind = "variables" =>
       \/ answer'.canceled
       \/ \A i \in DOMAIN modal.asks :
            modal.asks[i].required => answer'.values[modal.asks[i].name] # ""

LEMMA OtherModalInv ==
  ASSUME "kind" \in DOMAIN modal', modal'.kind \notin {"input", "variables"}
  PROVE  ModalInv'
  BY DEF ModalInv, WarningInv

LEMMA DoneModalInv ==
  ASSUME modal' = NoModal
  PROVE  ModalInv'
  BY OtherModalInv DEF NoModal

LEMMA InputStep ==
  ASSUME ModalInv, modal.kind = "input", UpdateModal
  PROVE  ModalInv' /\ AnswerIsChecked
  <1>. DEFINE asks == modal.asks
              err  == Validate(modal.asks, modal.text)
  <1>1. /\ {"kind", "asks", "text", "validationErr"} \subseteq DOMAIN modal
        /\ answer = NoAnswer
        /\ modal.validationErr # {} => modal.validationErr = err
    BY DEF ModalInv, WarningInv
  <1>2. EditInput \/ RestoreInput \/ EnterInput \/ EscapeInput
    BY DEF UpdateModal, On, AnswerSelect, AnswerConfirm, AnswerFilter, TypeInFilter, EnterInFilter,
       EscapeInFilter, StartFilter, NavigateBranches, AnswerBranch, SelectVariable, ChangeVariable,
       EditOrConfirm, EditVariable, CancelVariables, Navigating, AnswerLiveView, AnswerReset,
       AnswerRunConfirm, AnswerValidationError, CloseModal
  <1>3. ASSUME NEW text, NEW warning, modal' = [modal EXCEPT !.text = text, !.validationErr = warning],
               warning # {} => warning = Validate(asks, text), UNCHANGED answer
        PROVE  ModalInv' /\ AnswerIsChecked
    <2>1. /\ DOMAIN modal' = DOMAIN modal
          /\ modal'.kind = "input" /\ modal'.asks = asks
          /\ modal'.text = text /\ modal'.validationErr = warning
      BY <1>1, <1>3
    <2>. QED  BY <1>1, <1>3, <2>1 DEF ModalInv, WarningInv, AnswerIsChecked, NoAnswer
  <1>4. CASE EditInput
    <2>1. PICK text \in Texts :
            /\ modal' = [modal EXCEPT !.text = text,
                           !.validationErr = IF text = modal.text THEN modal.validationErr ELSE {}]
            /\ UNCHANGED answer
      BY <1>4 DEF EditInput, Stays
    <2>. DEFINE warning == IF text = modal.text THEN modal.validationErr ELSE {}
    <2>2. warning # {} => warning = Validate(asks, text)
      BY <1>1
    <2>3. modal' = [modal EXCEPT !.text = text, !.validationErr = warning]
      BY <2>1
    <2>. HIDE DEF warning
    <2>. QED  BY <1>3, <2>1, <2>2, <2>3
  <1>5. CASE RestoreInput
    BY <1>3, <1>5 DEF RestoreInput, Stays
  <1>6. CASE EnterInput
    <2>1. CASE err # {} /\ modal.validationErr = {}
      <3>1. modal' = [modal EXCEPT !.validationErr = err] /\ UNCHANGED answer
        BY <1>6, <2>1 DEF EnterInput, Stays
      <3>2. modal' = [modal EXCEPT !.text = modal.text, !.validationErr = err]
        BY <1>1, <3>1
      <3>. QED  BY <1>3, <3>1, <3>2
    <2>2. CASE ~(err # {} /\ modal.validationErr = {})
      <3>1. modal' = NoModal /\ answer' = [kind |-> "input", value |-> modal.text]
        BY <1>6, <2>2 DEF EnterInput, Answers
      <3>2. modal.validationErr = err
        BY <1>1, <2>2
      <3>. QED  BY <3>1, <3>2, DoneModalInv DEF AnswerIsChecked
    <2>. QED  BY <2>1, <2>2
  <1>7. CASE EscapeInput
    <2>1. CASE modal.validationErr # {}
      <3>1. modal' = [modal EXCEPT !.validationErr = {}] /\ UNCHANGED answer
        BY <1>7, <2>1 DEF EscapeInput, Stays
      <3>2. modal' = [modal EXCEPT !.text = modal.text, !.validationErr = {}]
        BY <1>1, <3>1
      <3>. QED  BY <1>3, <3>1, <3>2
    <2>2. CASE modal.validationErr = {}
      <3>1. modal' = NoModal /\ UNCHANGED answer
        BY <1>7, <2>2 DEF EscapeInput, Leaves
      <3>. QED  BY <1>1, <3>1, DoneModalInv DEF AnswerIsChecked, NoAnswer
    <2>. QED  BY <2>1, <2>2
  <1>. QED  BY <1>2, <1>4, <1>5, <1>6, <1>7

(* A change of the modal leaves open what it asks for, and the cursor is on *)
(* one of the variables.                                                    *)
Asks(m) ==
  /\ {"kind", "asks", "selected"} \subseteq DOMAIN m /\ m.kind = "variables"
  /\ m.asks = modal.asks /\ m.selected \in 1..Len(m.asks)

LEMMA GivenAsks ==
  ASSUME Asks(modal), NEW value
  PROVE  Asks(Given(value))
  <1>. DEFINE values == [modal.values EXCEPT ![Current.name] = value]
  <1>1. Given(value) = [[modal EXCEPT !.values = values] EXCEPT !.editing = FALSE]
    BY DEF Given
  <1>. HIDE DEF values
  <1>. DEFINE m == [modal EXCEPT !.values = values]
  <1>2. Asks(m)
    BY DEF Asks
  <1>3. Given(value) = [m EXCEPT !.editing = FALSE]
    BY <1>1
  <1>. HIDE DEF m
  <1>. QED  BY <1>2, <1>3 DEF Asks

LEMMA VariablesStep ==
  ASSUME ModalInv, modal.kind = "variables", UpdateModal
  PROVE  ModalInv' /\ AnswerIsChecked
  <1>1. Asks(modal) /\ answer = NoAnswer /\ Sequence(modal.asks) /\ Len(modal.asks) \in Nat
    BY DEF ModalInv, Asks, Sequence
  <1>2. ASSUME NEW m, Asks(m), Stays(m)
        PROVE  ModalInv' /\ AnswerIsChecked
    BY <1>1, <1>2 DEF Stays, Asks, ModalInv, WarningInv, AnswerIsChecked, NoAnswer
  <1>3. ASSUME NEW m, Asks(m), AdvanceOrConfirm(m)
        PROVE  ModalInv' /\ AnswerIsChecked
    <2>1. CASE Stays(m)
      BY <1>2, <1>3, <2>1
    <2>2. CASE m.selected < Len(m.asks) /\ Stays([m EXCEPT !.selected = m.selected + 1])
      <3>1. m.selected + 1 \in 1..Len(m.asks)
        BY <1>1, <1>3, <2>2 DEF Asks
      <3>2. Asks([m EXCEPT !.selected = m.selected + 1])
        BY <1>3, <3>1 DEF Asks
      <3>. QED  BY <1>2, <2>2, <3>2
    <2>3. CASE /\ Missing(m) = {}
               /\ Answers([kind |-> "variables", canceled |-> FALSE, values |-> m.values])
      <3>1. \A i \in DOMAIN modal.asks :
              modal.asks[i].required => m.values[modal.asks[i].name] # ""
        BY <1>3, <2>3 DEF Missing, Asks
      <3>2. modal' = NoModal /\ answer'.values = m.values
        BY <2>3 DEF Answers
      <3>. QED  BY <3>1, <3>2, DoneModalInv DEF AnswerIsChecked
    <2>. QED  BY <1>3, <2>1, <2>2, <2>3 DEF AdvanceOrConfirm
  <1>4. SelectVariable \/ ChangeVariable \/ EditOrConfirm \/ EditVariable \/ CancelVariables
    BY DEF UpdateModal, On, EditInput, RestoreInput, EnterInput, EscapeInput, AnswerSelect,
       AnswerConfirm, AnswerFilter, TypeInFilter, EnterInFilter, EscapeInFilter, StartFilter,
       NavigateBranches, AnswerBranch, AnswerLiveView, AnswerReset, AnswerRunConfirm,
       AnswerValidationError, CloseModal
  <1>5. CASE SelectVariable
    <2>1. PICK selected \in 1..Len(modal.asks) : Stays([modal EXCEPT !.selected = selected])
      <3>1. Len(modal.asks) \in Nat /\ Bounds(Len(modal.asks)) = 1..Len(modal.asks)
        BY <1>1 DEF Asks, Bounds
      <3>2. Moves(Len(modal.asks)) /\ modal.selected \in Bounds(Len(modal.asks))
        BY <1>1, <1>5, <3>1 DEF SelectVariable, Asks
      <3>. QED  BY <3>1, <3>2, MovesWithin
    <2>2. Asks([modal EXCEPT !.selected = selected])
      BY <1>1 DEF Asks
    <2>. QED  BY <1>2, <2>1, <2>2
  <1>6. CASE ChangeVariable
    <2>1. PICK value : Stays(Given(value))
      BY <1>6 DEF ChangeVariable
    <2>. QED  BY <1>1, <1>2, <2>1, GivenAsks
  <1>7. CASE EditOrConfirm
    <2>1. \/ \E value : AdvanceOrConfirm(Given(value))
          \/ \E text : Stays([modal EXCEPT !.editing = TRUE, !.text = text])
      <3>1. CASE Current.type = "boolean"
        BY <1>7, <3>1, Zenon DEF EditOrConfirm
      <3>2. CASE Current.type = "choice"
        BY <1>7, <3>1, <3>2, Zenon DEF EditOrConfirm
      <3>3. CASE Current.type # "boolean" /\ Current.type # "choice"
        BY <1>7, <3>3, Zenon DEF EditOrConfirm
      <3>. QED  BY <3>1, <3>2, <3>3
    <2>2. ASSUME NEW text
          PROVE  Asks([modal EXCEPT !.editing = TRUE, !.text = text])
      <3>. DEFINE m == [modal EXCEPT !.editing = TRUE]
      <3>1. Asks(m)
        BY <1>1 DEF Asks
      <3>2. [modal EXCEPT !.editing = TRUE, !.text = text] = [m EXCEPT !.text = text]
        OBVIOUS
      <3>. HIDE DEF m
      <3>. QED  BY <3>1, <3>2 DEF Asks
    <2>3. CASE \E value : AdvanceOrConfirm(Given(value))
      BY <1>1, <1>3, <2>3, GivenAsks
    <2>4. CASE \E text : Stays([modal EXCEPT !.editing = TRUE, !.text = text])
      BY <1>2, <2>2, <2>4
    <2>. QED  BY <2>1, <2>3, <2>4
  <1>8. CASE EditVariable
    <2>1. CASE \E text : Stays([modal EXCEPT !.text = text])
      <3>1. PICK text : Stays([modal EXCEPT !.text = text])
        BY <2>1
      <3>2. Asks([modal EXCEPT !.text = text])
        BY <1>1 DEF Asks
      <3>. QED  BY <1>2, <3>1, <3>2
    <2>2. CASE AdvanceOrConfirm(Given(modal.text))
      BY <1>1, <1>3, <2>2, GivenAsks
    <2>3. CASE Stays([modal EXCEPT !.editing = FALSE])
      <3>1. Asks([modal EXCEPT !.editing = FALSE])
        BY <1>1 DEF Asks
      <3>. QED  BY <1>2, <2>3, <3>1
    <2>. QED  BY <1>8, <2>1, <2>2, <2>3 DEF EditVariable
  <1>9. CASE CancelVariables
    <2>1. modal' = NoModal /\ answer'.canceled
      BY <1>9 DEF CancelVariables, Answers
    <2>. QED  BY <2>1, DoneModalInv DEF AnswerIsChecked
  <1>. QED  BY <1>4, <1>5, <1>6, <1>7, <1>8, <1>9

(* A step of the modal that is on the stack keeps its kind.                 *)
OfKind(m) == "kind" \in DOMAIN m /\ m.kind = modal.kind

LEMMA ExceptIsOfKind ==
  ASSUME NEW m, OfKind(m), NEW field, field # "kind", NEW value
  PROVE  OfKind([m EXCEPT ![field] = value])
  BY DEF OfKind

LEMMA FilteredIsOfKind ==
  ASSUME NEW m, OfKind(m), NEW text
  PROVE  OfKind(Filtered(m, text))
  BY Zenon DEF Filtered, OfKind

Kept == modal' = NoModal \/ OfKind(modal')

LEMMA KindIsKept ==
  ASSUME "kind" \in DOMAIN modal, UpdateModal
  PROVE  Kept
  <1>1. OfKind(modal)
    BY DEF OfKind
  <1>2. ASSUME NEW m, OfKind(m), Stays(m)
        PROVE  Kept
    BY <1>2 DEF Stays, Kept
  <1>3. ASSUME modal' = NoModal
        PROVE  Kept
    BY <1>3 DEF Kept
  <1>4. ASSUME NEW size, Moves(size)
        PROVE  Kept
    <2>1. PICK selected : Stays([modal EXCEPT !.selected = selected])
      BY <1>4 DEF Moves
    <2>2. OfKind([modal EXCEPT !.selected = selected])
      BY <1>1 DEF OfKind
    <2>. QED  BY <1>2, <2>1, <2>2
  <1>5. CASE AnswerSelect
    <2>1. CASE Stays([modal EXCEPT !.selected = modal.defaultIdx])
      <3>1. OfKind([modal EXCEPT !.selected = modal.defaultIdx])
        BY <1>1 DEF OfKind
      <3>. QED  BY <1>2, <2>1, <3>1
    <2>. QED  BY <1>3, <1>4, <1>5, <2>1 DEF AnswerSelect, Answers, Leaves
  <1>6. CASE AnswerConfirm
    <2>1. ASSUME NEW yes, Stays([modal EXCEPT !.selected = yes])
          PROVE  Kept
      <3>1. OfKind([modal EXCEPT !.selected = yes])
        BY <1>1 DEF OfKind
      <3>. QED  BY <1>2, <2>1, <3>1
    <2>. QED  BY <1>3, <1>6, <2>1 DEF AnswerConfirm, Answers, Leaves
  <1>7. CASE AnswerFilter
    <2>1. CASE modal' = NoModal
      BY <1>3, <2>1
    <2>2. CASE modal' # NoModal
      <3>1. PICK text, found : modal' = [modal EXCEPT !.text = text, !.matches = found]
        BY <1>7, <2>2, Zenon DEF AnswerFilter, Answers, Stays
      <3>2. OfKind(modal')
        BY <1>1, <3>1, Zenon DEF OfKind
      <3>. QED  BY <3>2 DEF Kept
    <2>. QED  BY <2>1, <2>2
  <1>8. CASE TypeInFilter
    BY <1>1, <1>2, <1>8, FilteredIsOfKind DEF TypeInFilter
  <1>9. ASSUME NEW m, OfKind(m), NEW on
        PROVE  OfKind([m EXCEPT !.filtering = on])
    BY <1>9 DEF OfKind
  <1>10. CASE EnterInFilter
    BY <1>1, <1>2, <1>9, <1>10 DEF EnterInFilter
  <1>11. CASE EscapeInFilter
    <2>1. \/ Stays([modal EXCEPT !.filtering = FALSE])
          \/ Stays(Filtered(modal, ""))
      BY <1>11 DEF EscapeInFilter
    <2>. QED  BY <1>1, <1>2, <1>9, <2>1, FilteredIsOfKind
  <1>12. CASE StartFilter
    <2>1. PICK text : Stays([Filtered(modal, text) EXCEPT !.filtering = TRUE])
      BY <1>12 DEF StartFilter
    <2>. QED  BY <1>1, <1>2, <1>9, <2>1, FilteredIsOfKind
  <1>13. CASE NavigateBranches
    <2>1. PICK to, top : modal' = [modal EXCEPT !.selected = to, !.top = top]
      BY <1>13, Zenon DEF NavigateBranches, Stays
    <2>2. OfKind(modal')
      BY <1>1, <2>1, Zenon DEF OfKind
    <2>. QED  BY <2>2 DEF Kept
  <1>14. CASE AnswerLiveView \/ AnswerValidationError \/ SelectVariable
    BY <1>3, <1>4, <1>14
       DEF AnswerLiveView, AnswerValidationError, SelectVariable, Answers, Leaves
  <1>15. CASE AnswerBranch \/ AnswerReset \/ AnswerRunConfirm \/ CloseModal \/ CancelVariables
    BY <1>3, <1>15
       DEF AnswerBranch, AnswerReset, AnswerRunConfirm, CloseModal, CancelVariables, Answers, Leaves
  <1>16. ASSUME NEW text, NEW err, modal' = [modal EXCEPT !.text = text, !.validationErr = err]
         PROVE  Kept
    <2>1. OfKind(modal')
      BY <1>1, <1>16, Zenon DEF OfKind
    <2>. QED  BY <2>1 DEF Kept
  <1>17. ASSUME NEW err, modal' = [modal EXCEPT !.validationErr = err]
         PROVE  Kept
    <2>1. OfKind(modal')
      BY <1>1, <1>17, Zenon DEF OfKind
    <2>. QED  BY <2>1 DEF Kept
  <1>18. CASE EditInput \/ RestoreInput
    <2>1. \E text, err : modal' = [modal EXCEPT !.text = text, !.validationErr = err]
      BY <1>18, Zenon DEF EditInput, RestoreInput, Stays
    <2>. QED  BY <1>16, <2>1
  <1>19. CASE EnterInput \/ EscapeInput
    <2>1. modal' = NoModal \/ \E err : modal' = [modal EXCEPT !.validationErr = err]
      BY <1>19, Zenon DEF EnterInput, EscapeInput, Stays, Answers, Leaves
    <2>. QED  BY <1>3, <1>17, <2>1
  <1>20. ASSUME NEW value
         PROVE  OfKind(Given(value))
    BY <1>1, Zenon DEF OfKind, Given
  <1>21. ASSUME NEW m, OfKind(m), AdvanceOrConfirm(m)
         PROVE  Kept
    <2>1. \/ Stays(m) \/ modal' = NoModal
          \/ \E at : Stays([m EXCEPT !.selected = at])
      BY <1>21, Zenon DEF AdvanceOrConfirm, Answers
    <2>2. ASSUME NEW at
          PROVE  OfKind([m EXCEPT !.selected = at])
      BY <1>21 DEF OfKind
    <2>. QED  BY <1>2, <1>3, <1>21, <2>1, <2>2
  <1>22. CASE ChangeVariable
    <2>1. PICK value : Stays(Given(value))
      BY <1>22 DEF ChangeVariable
    <2>. QED  BY <1>2, <1>20, <2>1
  <1>23. CASE EditOrConfirm
    <2>1. \/ \E value : AdvanceOrConfirm(Given(value))
          \/ \E text : modal' = [modal EXCEPT !.editing = TRUE, !.text = text]
      <3>1. CASE Current.type = "boolean"
        BY <1>23, <3>1, Zenon DEF EditOrConfirm
      <3>2. CASE Current.type = "choice"
        BY <1>23, <3>1, <3>2, Zenon DEF EditOrConfirm
      <3>3. CASE Current.type # "boolean" /\ Current.type # "choice"
        BY <1>23, <3>3, Zenon DEF EditOrConfirm, Stays
      <3>. QED  BY <3>1, <3>2, <3>3
    <2>2. CASE \E text : modal' = [modal EXCEPT !.editing = TRUE, !.text = text]
      <3>1. OfKind(modal')
        BY <1>1, <2>2, Zenon DEF OfKind
      <3>. QED  BY <3>1 DEF Kept
    <2>. QED  BY <1>20, <1>21, <2>1, <2>2
  <1>24. CASE EditVariable
    <2>1. \/ AdvanceOrConfirm(Given(modal.text))
          \/ \E text : modal' = [modal EXCEPT !.text = text]
          \/ modal' = [modal EXCEPT !.editing = FALSE]
      BY <1>24, Zenon DEF EditVariable, Stays
    <2>2. CASE \E text : modal' = [modal EXCEPT !.text = text]
      <3>1. OfKind(modal')
        BY <1>1, <2>2, Zenon DEF OfKind
      <3>. QED  BY <3>1 DEF Kept
    <2>3. CASE modal' = [modal EXCEPT !.editing = FALSE]
      <3>1. OfKind(modal')
        BY <1>1, <2>3, Zenon DEF OfKind
      <3>. QED  BY <3>1 DEF Kept
    <2>. QED  BY <1>20, <1>21, <2>1, <2>2, <2>3
  <1>. QED
    BY <1>5, <1>6, <1>7, <1>8, <1>10, <1>11, <1>12, <1>13, <1>14, <1>15, <1>18, <1>19, <1>22, <1>23,
       <1>24 DEF UpdateModal

LEMMA OtherStep ==
  ASSUME ModalInv, modal.kind \notin {"input", "variables"}, UpdateModal
  PROVE  ModalInv'
  <1>1. modal' = NoModal \/ OfKind(modal')
    BY KindIsKept DEF Kept, ModalInv
  <1>2. CASE OfKind(modal')
    BY <1>2, OtherModalInv DEF OfKind
  <1>. QED  BY <1>1, <1>2, DoneModalInv

LEMMA InitModalInv ==
  ASSUME Init
  PROVE  ModalInv
  <1>1. CASE modal = NoModal
    BY <1>1 DEF NoModal, ModalInv, WarningInv
  <1>2. CASE OpensModal
    <2>0. answer = NoAnswer
      BY <1>2 DEF OpensModal
    <2>1. ASSUME NEW input, modal = NewInputModal(input)
          PROVE  ModalInv
      BY <2>0, <2>1 DEF NewInputModal, ModalInv, WarningInv
    <2>2. ASSUME NEW variables \in Variables, modal = NewChainVariableModal(variables)
          PROVE  ModalInv
      <3>1. PICK values :
              modal = [kind |-> "variables", asks |-> variables, selected |-> 1,
                       editing |-> FALSE, text |-> "", values |-> values]
        BY <2>2, Zenon DEF NewChainVariableModal
      <3>2. Sequence(variables) /\ 1 \in 1..Len(variables)
        <4>1. Sequence(variables) /\ variables # <<>>
          BY FormsAssumption DEF Sequence
        <4>. QED  BY <4>1 DEF Sequence
      <3>. QED  BY <2>0, <3>1, <3>2 DEF ModalInv, WarningInv
    <2>3. ASSUME "kind" \in DOMAIN modal, modal.kind \notin {"input", "variables"}
          PROVE  ModalInv
      BY <2>3 DEF ModalInv, WarningInv
    <2>4. ASSUME NEW choice, modal = NewSelectModal(choice)
          PROVE  ModalInv
      BY <2>3, <2>4 DEF NewSelectModal
    <2>5. ASSUME NEW current, NEW default, modal = NewConfirmModal(current, default)
          PROVE  ModalInv
      BY <2>3, <2>5 DEF NewConfirmModal
    <2>6. ASSUME modal = NewFilterModal(FilterItems)
          PROVE  ModalInv
      BY <2>3, <2>6 DEF NewFilterModal
    <2>7. ASSUME NEW form, modal = NewSimpleBranchModal(form)
          PROVE  ModalInv
      BY <2>3, <2>7 DEF NewSimpleBranchModal
    <2>8. ASSUME NEW list, modal = NewLiveViewModal(list)
          PROVE  ModalInv
      BY <2>3, <2>8 DEF NewLiveViewModal
    <2>9. ASSUME NEW count, modal = NewValidationErrorModal(count)
          PROVE  ModalInv
      BY <2>3, <2>9 DEF NewValidationErrorModal
    <2>10. ASSUME NEW empty, modal = [kind |-> "reset", empty |-> empty]
           PROVE  ModalInv
      BY <2>3, <2>10
    <2>11. ASSUME NEW kind \in {"run", "help", "error"}, modal = [kind |-> kind]
           PROVE  ModalInv
      BY <2>3, <2>11
    <2>. QED
      BY <1>2, <2>1, <2>2, <2>4, <2>5, <2>6, <2>7, <2>8, <2>9, <2>10, <2>11 DEF OpensModal
  <1>. QED  BY <1>1, <1>2 DEF Init

LEMMA NextModalInv ==
  ASSUME ModalInv, [Next]_vars
  PROVE  ModalInv' /\ (AnswerIsChecked \/ UNCHANGED vars)
  <1>1. CASE UNCHANGED modalVars
    <2>1. modal' = modal /\ answer' = answer
      BY <1>1 DEF modalVars
    <2>2. ModalInv'
      BY <2>1 DEF ModalInv, WarningInv
    <2>3. modal.kind \in {"input", "variables"} => answer'.kind = "none"
      BY <2>1 DEF ModalInv, NoAnswer
    <2>4. AnswerIsChecked
      BY <2>3 DEF AnswerIsChecked
    <2>. QED  BY <2>2, <2>4
  <1>2. CASE UpdateModal /\ modal.kind \notin {"input", "variables"}
    BY <1>2, OtherStep DEF AnswerIsChecked
  <1>3. CASE UpdateModal /\ modal.kind \in {"input", "variables"}
    BY <1>3, InputStep, VariablesStep
  <1>. QED  BY <1>1, <1>2, <1>3 DEF Next, vars

(* A value is taken only with the warning about it, and variables only when *)
(* all that are required are given (InputModal.Update,                      *)
(* ChainVariableModal.tryConfirm).                                          *)
THEOREM AnswersStayChecked == Spec => AnswersAreChecked
  <1>1. Spec => []ModalInv
    BY InitModalInv, NextModalInv, PTL DEF Spec
  <1>2. ModalInv /\ [Next]_vars => [AnswerIsChecked]_vars
    BY NextModalInv
  <1>3. Spec => [][AnswerIsChecked]_vars
    BY <1>1, <1>2, PTL DEF Spec
  <1>. QED  BY <1>3 DEF AnswersAreChecked, AnswerIsChecked

----------------------------------------------------------------------------
(* The cursors of the lists *)

BranchCursors(m) ==
  /\ {"kind", "form", "text", "filtering", "filtered", "selected", "top"} \subseteq DOMAIN m
  /\ m.kind = "branch"
  /\ m.form \in BranchForms
  /\ Sequence(m.filtered)
  /\ m.selected \in Bounds(Len(m.filtered)) /\ m.top \in Bounds(Len(m.filtered))

ListCursor(m, size) ==
  "selected" \in DOMAIN m /\ size \in Nat /\ m.selected \in Bounds(size)

CursorInv ==
  /\ modal.kind = "select" =>
       /\ {"kind", "options", "defaultIdx"} \subseteq DOMAIN modal
       /\ ListCursor(modal, Len(modal.options))
       /\ modal.defaultIdx \in Bounds(Len(modal.options))
  /\ modal.kind = "live" =>
       {"kind", "runs"} \subseteq DOMAIN modal /\ ListCursor(modal, Len(modal.runs))
  /\ modal.kind = "validation" =>
       {"kind", "count"} \subseteq DOMAIN modal /\ ListCursor(modal, modal.count)
  /\ modal.kind = "branch" => BranchCursors(modal)

LEMMA DoneCursorInv ==
  ASSUME modal' = NoModal
  PROVE  CursorInv'
  BY DEF CursorInv, NoModal

LEMMA SelectCursor ==
  ASSUME CursorInv, modal.kind = "select", UpdateModal
  PROVE  CursorInv'
  <1>. DEFINE size == Len(modal.options)
  <1>1. /\ {"kind", "options", "defaultIdx", "selected"} \subseteq DOMAIN modal
        /\ size \in Nat /\ modal.selected \in Bounds(size) /\ modal.defaultIdx \in Bounds(size)
    BY DEF CursorInv, ListCursor
  <1>2. ASSUME NEW selected \in Bounds(size), modal' = [modal EXCEPT !.selected = selected]
        PROVE  CursorInv'
    <2>1. /\ DOMAIN modal' = DOMAIN modal /\ modal'.kind = "select"
          /\ modal'.options = modal.options /\ modal'.defaultIdx = modal.defaultIdx
          /\ modal'.selected = selected
      BY <1>1, <1>2
    <2>. QED  BY <1>1, <2>1 DEF CursorInv, ListCursor
  <1>3. AnswerSelect
    BY DEF UpdateModal, On, EditInput, RestoreInput, EnterInput, EscapeInput, AnswerConfirm,
       AnswerFilter, TypeInFilter, EnterInFilter, EscapeInFilter, StartFilter, NavigateBranches,
       AnswerBranch, SelectVariable, ChangeVariable, EditOrConfirm, EditVariable, CancelVariables,
       Navigating, AnswerLiveView, AnswerReset, AnswerRunConfirm, AnswerValidationError, CloseModal
  <1>4. CASE Moves(size)
    BY <1>1, <1>2, <1>4, MovesWithin DEF Stays
  <1>5. CASE Stays([modal EXCEPT !.selected = modal.defaultIdx])
    BY <1>1, <1>2, <1>5 DEF Stays
  <1>6. CASE modal' = NoModal
    BY <1>6, DoneCursorInv
  <1>. QED  BY <1>3, <1>4, <1>5, <1>6 DEF AnswerSelect, Answers, Leaves

LEMMA LiveCursor ==
  ASSUME CursorInv, modal.kind = "live", UpdateModal
  PROVE  CursorInv'
  <1>. DEFINE size == Len(modal.runs)
  <1>1. /\ {"kind", "runs", "selected"} \subseteq DOMAIN modal
        /\ size \in Nat /\ modal.selected \in Bounds(size)
    BY DEF CursorInv, ListCursor
  <1>2. ASSUME NEW selected \in Bounds(size), modal' = [modal EXCEPT !.selected = selected]
        PROVE  CursorInv'
    <2>1. /\ DOMAIN modal' = DOMAIN modal /\ modal'.kind = "live"
          /\ modal'.runs = modal.runs /\ modal'.selected = selected
      BY <1>1, <1>2
    <2>. QED  BY <1>1, <2>1 DEF CursorInv, ListCursor
  <1>3. AnswerLiveView
    BY DEF UpdateModal, On, EditInput, RestoreInput, EnterInput, EscapeInput, AnswerSelect,
       AnswerConfirm, AnswerFilter, TypeInFilter, EnterInFilter, EscapeInFilter, StartFilter,
       NavigateBranches, AnswerBranch, SelectVariable, ChangeVariable, EditOrConfirm, EditVariable,
       CancelVariables, Navigating, AnswerReset, AnswerRunConfirm, AnswerValidationError, CloseModal
  <1>4. CASE Moves(size)
    BY <1>1, <1>2, <1>4, MovesWithin DEF Stays
  <1>5. CASE modal' = NoModal
    BY <1>5, DoneCursorInv
  <1>. QED  BY <1>3, <1>4, <1>5 DEF AnswerLiveView, Answers, Leaves

LEMMA ErrorCursor ==
  ASSUME CursorInv, modal.kind = "validation", UpdateModal
  PROVE  CursorInv'
  <1>1. /\ {"kind", "count", "selected"} \subseteq DOMAIN modal
        /\ modal.count \in Nat /\ modal.selected \in Bounds(modal.count)
    BY DEF CursorInv, ListCursor
  <1>2. ASSUME NEW selected \in Bounds(modal.count), modal' = [modal EXCEPT !.selected = selected]
        PROVE  CursorInv'
    <2>1. /\ DOMAIN modal' = DOMAIN modal /\ modal'.kind = "validation"
          /\ modal'.count = modal.count /\ modal'.selected = selected
      BY <1>1, <1>2
    <2>. QED  BY <1>1, <2>1 DEF CursorInv, ListCursor
  <1>3. AnswerValidationError
    BY DEF UpdateModal, On, EditInput, RestoreInput, EnterInput, EscapeInput, AnswerSelect,
       AnswerConfirm, AnswerFilter, TypeInFilter, EnterInFilter, EscapeInFilter, StartFilter,
       NavigateBranches, AnswerBranch, SelectVariable, ChangeVariable, EditOrConfirm, EditVariable,
       CancelVariables, Navigating, AnswerReset, AnswerRunConfirm, AnswerLiveView, CloseModal
  <1>4. CASE Moves(modal.count)
    BY <1>1, <1>2, <1>4, MovesWithin DEF Stays
  <1>5. CASE modal' = NoModal
    BY <1>5, DoneCursorInv
  <1>. QED  BY <1>3, <1>4, <1>5 DEF AnswerValidationError, Answers, Leaves

LEMMA ListHasPlaces ==
  ASSUME NEW list, Sequence(list)
  PROVE  /\ Len(list) \in Nat
         /\ Bounds(Len(list)) \subseteq Nat \ {0}
         /\ 1 \in Bounds(Len(list))
  <1>1. Len(list) \in Nat
    BY DEF Sequence
  <1>. QED  BY <1>1 DEF Bounds

LEMMA FuzzyFilterIsList ==
  ASSUME NEW text \in Texts \cup FirstTexts, NEW names, Sequence(names)
  PROVE  Sequence(ApplyFuzzyFilter(text, names))
  <1>1. CASE text = ""
    BY <1>1 DEF ApplyFuzzyFilter
  <1>2. CASE text # ""
    <2>1. Ranking[text] \in Seq(ToSet(Ranking[text]))
      BY FormsAssumption
    <2>2. Only(Ranking[text], ToSet(names)) \in Seq(ToSet(Ranking[text]) \cap ToSet(names))
      BY <2>1, OnlyKeepsMembers
    <2>. QED  BY <1>2, <2>2, SequenceOfItsOwn DEF ApplyFuzzyFilter
  <1>. QED  BY <1>1, <1>2

LEMMA PinnedIsList ==
  ASSUME NEW form \in BranchForms
  PROVE  Sequence(PinBranches(form))
  <1>. DEFINE first == IF form.default = form.current THEN <<form.current>>
                       ELSE <<form.current, form.default>>
              named  == {form.current, form.default}
              pinned == Only(first, named \ {""})
              rest   == Only(form.branches, ToSet(form.branches) \ ToSet(pinned))
              All    == named \cup ToSet(form.branches)
  <1>1. first \in Seq(named)
    <2>1. <<form.current>> \in Seq(named) /\ <<form.current, form.default>> \in Seq(named)
      OBVIOUS
    <2>. QED  BY <2>1, Zenon
  <1>2. pinned \in Seq(named \cap (named \ {""}))
    <2>. HIDE DEF first, named
    <2>. QED  BY <1>1, OnlyKeepsMembers
  <1>3. form.branches \in Seq(ToSet(form.branches))
    BY FormsAssumption
  <1>4. rest \in Seq(ToSet(form.branches) \cap (ToSet(form.branches) \ ToSet(pinned)))
    <2>. HIDE DEF pinned
    <2>. QED  BY <1>3, OnlyKeepsMembers
  <1>5. PinBranches(form) = pinned \o rest
    BY DEF PinBranches
  <1>. HIDE DEF pinned, rest, named
  <1>6. pinned \in Seq(All) /\ rest \in Seq(All)
    <2>1. named \cap (named \ {""}) \subseteq All
      OBVIOUS
    <2>2. ToSet(form.branches) \cap (ToSet(form.branches) \ ToSet(pinned)) \subseteq All
      OBVIOUS
    <2>3. ASSUME NEW A, NEW B, A \subseteq B, NEW q \in Seq(A)
          PROVE  q \in Seq(B)
      BY <2>3
    <2>. HIDE DEF All
    <2>. QED  BY <1>2, <1>4, <2>1, <2>2, <2>3
  <1>7. pinned \o rest \in Seq(All)
    <2>. HIDE DEF All
    <2>. QED  BY <1>6
  <1>. QED  BY <1>5, <1>7, SequenceOfItsOwn

LEMMA PlaceIsKept ==
  ASSUME NEW size \in Nat, NEW at \in Nat \ {0}
  PROVE  (IF at > size THEN 1 ELSE at) \in Bounds(size)
  <1>1. CASE size = 0
    BY <1>1 DEF Bounds
  <1>2. CASE size # 0
    BY <1>2 DEF Bounds
  <1>. QED  BY <1>1, <1>2

LEMMA FilteredCursors ==
  ASSUME NEW m, BranchCursors(m), NEW text \in Texts \cup FirstTexts \cup {""}
  PROVE  BranchCursors(Filtered(m, text))
  <1>1. ASSUME NEW list, Sequence(list), NEW place \in Bounds(Len(list)), NEW new,
               DOMAIN new = DOMAIN m, new.kind = m.kind, new.form = m.form, new.filtered = list,
               new.top = 1, new.selected = place
        PROVE  BranchCursors(new)
    <2>1. 1 \in Bounds(Len(list))
      BY <1>1, ListHasPlaces
    <2>. QED  BY <1>1, <2>1 DEF BranchCursors
  <1>2. CASE text = ""
    <2>. DEFINE new == [m EXCEPT !.text = "", !.filtered = PinBranches(m.form), !.selected = 1, !.top = 1]
    <2>1. Sequence(PinBranches(m.form))
      BY PinnedIsList DEF BranchCursors
    <2>2. 1 \in Bounds(Len(PinBranches(m.form)))
      BY <2>1, ListHasPlaces
    <2>3. Filtered(m, text) = new
      BY <1>2 DEF Filtered
    <2>4. /\ DOMAIN new = DOMAIN m /\ new.kind = m.kind /\ new.form = m.form
          /\ new.filtered = PinBranches(m.form) /\ new.top = 1 /\ new.selected = 1
      BY DEF BranchCursors
    <2>. HIDE DEF new
    <2>. QED  BY <1>1, <2>1, <2>2, <2>3, <2>4
  <1>3. CASE text # ""
    <2>. DEFINE found == ApplyFuzzyFilter(text, m.form.branches)
                place == IF m.selected > Len(found) THEN 1 ELSE m.selected
                new   == [m EXCEPT !.text = text, !.filtered = found, !.top = 1, !.selected = place]
    <2>1. Sequence(m.form.branches)
      BY FormsAssumption DEF BranchCursors, Sequence
    <2>2. Sequence(found)
      BY <1>3, <2>1, FuzzyFilterIsList
    <2>3. Filtered(m, text) = new
      BY <1>3 DEF Filtered
    <2>4. place \in Bounds(Len(found))
      <3>1. Len(found) \in Nat /\ Len(m.filtered) \in Nat
        BY <2>2, ListHasPlaces DEF BranchCursors
      <3>2. m.selected \in Nat \ {0}
        BY ListHasPlaces DEF BranchCursors
      <3>. HIDE DEF found
      <3>. QED  BY <3>1, <3>2, PlaceIsKept
    <2>. HIDE DEF found, place
    <2>5. /\ DOMAIN new = DOMAIN m /\ new.kind = m.kind /\ new.form = m.form
          /\ new.filtered = found /\ new.top = 1 /\ new.selected = place
      BY DEF BranchCursors
    <2>. HIDE DEF new
    <2>. QED  BY <1>1, <2>2, <2>3, <2>4, <2>5
  <1>. QED  BY <1>2, <1>3

(* Where the list is scrolled to, it has a branch.                          *)
LEMMA ScrolledWithin ==
  ASSUME NEW size \in Nat, NEW first \in 1..size, NEW to \in 1..size, NEW rows \in Nat \ {0}
  PROVE  Scrolled(first, to, rows) \in 1..size
  BY DEF Scrolled

LEMMA BranchCursor ==
  ASSUME CursorInv, modal.kind = "branch", UpdateModal
  PROVE  CursorInv'
  <1>1. BranchCursors(modal)
    BY DEF CursorInv
  <1>2. ASSUME NEW m, BranchCursors(m), Stays(m)
        PROVE  CursorInv'
    <2>1. BranchCursors(modal') /\ modal'.kind = "branch"
      BY <1>2 DEF Stays, BranchCursors
    <2>. QED  BY <2>1 DEF CursorInv, BranchCursors
  <1>3. ASSUME NEW m, BranchCursors(m), NEW on
        PROVE  BranchCursors([m EXCEPT !.filtering = on])
    <2>. DEFINE new == [m EXCEPT !.filtering = on]
    <2>1. /\ DOMAIN new = DOMAIN m /\ new.kind = m.kind /\ new.form = m.form
          /\ new.filtered = m.filtered /\ new.top = m.top /\ new.selected = m.selected
      BY <1>3 DEF BranchCursors
    <2>. HIDE DEF new
    <2>2. BranchCursors(new)
      BY <1>3, <2>1 DEF BranchCursors
    <2>. QED  BY <2>2 DEF new
  <1>4. TypeInFilter \/ EnterInFilter \/ EscapeInFilter \/ StartFilter \/ NavigateBranches
        \/ AnswerBranch
    BY DEF UpdateModal, On, EditInput, RestoreInput, EnterInput, EscapeInput, AnswerSelect,
       AnswerConfirm, AnswerFilter, SelectVariable, ChangeVariable, EditOrConfirm, EditVariable,
       CancelVariables, Navigating, AnswerLiveView, AnswerReset, AnswerRunConfirm,
       AnswerValidationError, CloseModal
  <1>5. CASE TypeInFilter
    BY <1>1, <1>2, <1>5, FilteredCursors DEF TypeInFilter
  <1>6. CASE EnterInFilter
    BY <1>1, <1>2, <1>3, <1>6 DEF EnterInFilter
  <1>7. CASE EscapeInFilter
    <2>1. \/ Stays([modal EXCEPT !.filtering = FALSE])
          \/ Stays(Filtered(modal, ""))
      BY <1>7 DEF EscapeInFilter
    <2>. QED  BY <1>1, <1>2, <1>3, <2>1, FilteredCursors
  <1>8. CASE StartFilter
    <2>1. PICK text \in FirstTexts : Stays([Filtered(modal, text) EXCEPT !.filtering = TRUE])
      BY <1>8 DEF StartFilter
    <2>2. BranchCursors(Filtered(modal, text))
      BY <1>1, FilteredCursors
    <2>. QED  BY <1>2, <1>3, <2>1, <2>2
  <1>9. CASE NavigateBranches
    <2>. DEFINE size == Len(modal.filtered)
    <2>1. PICK to \in DOMAIN modal.filtered :
            Stays([modal EXCEPT !.selected = to,
                                !.top = Scrolled(modal.top, to, modal.form.height)])
      BY <1>9 DEF NavigateBranches
    <2>. DEFINE top == Scrolled(modal.top, to, modal.form.height)
                new == [modal EXCEPT !.selected = to, !.top = top]
    <2>2. size \in Nat /\ to \in 1..size /\ modal.top \in Bounds(size) /\ modal.form \in BranchForms
      BY <1>1, <2>1 DEF BranchCursors, Sequence
    <2>3. modal.form.height \in Nat \ {0}
      BY <2>2, FormsAssumption
    <2>4. Bounds(size) = 1..size
      <3>. HIDE DEF size
      <3>. QED  BY <2>2 DEF Bounds
    <2>5. top \in 1..size
      <3>. HIDE DEF size
      <3>. QED  BY <2>2, <2>3, <2>4, ScrolledWithin
    <2>. HIDE DEF top
    <2>6. /\ DOMAIN new = DOMAIN modal /\ new.kind = modal.kind /\ new.form = modal.form
          /\ new.filtered = modal.filtered /\ new.top = top /\ new.selected = to
      BY <1>1 DEF BranchCursors
    <2>. HIDE DEF new
    <2>7. BranchCursors(new)
      BY <1>1, <2>2, <2>4, <2>5, <2>6 DEF BranchCursors
    <2>8. Stays(new)
      BY <2>1 DEF new, top
    <2>. QED  BY <1>2, <2>7, <2>8
  <1>10. CASE AnswerBranch
    BY <1>10, DoneCursorInv DEF AnswerBranch, Answers, Leaves
  <1>. QED  BY <1>4, <1>5, <1>6, <1>7, <1>8, <1>9, <1>10

LEMMA InitCursorInv ==
  ASSUME Init
  PROVE  CursorInv
  <1>1. CASE modal = NoModal
    BY <1>1 DEF NoModal, CursorInv
  <1>2. CASE OpensModal
    <2>1. ASSUME modal.kind \notin {"select", "live", "validation", "branch"}
          PROVE  CursorInv
      BY <2>1 DEF CursorInv
    <2>2. ASSUME NEW choice \in SelectForms, modal = NewSelectModal(choice)
          PROVE  CursorInv
      <3>1. Sequence(choice.options)
        BY FormsAssumption DEF Sequence
      <3>2. /\ Len(choice.options) \in Nat
            /\ Place(choice.current, choice.options) \in Bounds(Len(choice.options))
            /\ Place(choice.default, choice.options) \in Bounds(Len(choice.options))
        BY <3>1, PlaceIsInList, ListHasPlaces
      <3>. QED  BY <2>2, <3>2 DEF NewSelectModal, CursorInv, ListCursor
    <2>3. ASSUME NEW list \in LiveRuns, modal = NewLiveViewModal(list)
          PROVE  CursorInv
      <3>1. Sequence(list)
        BY FormsAssumption DEF Sequence
      <3>2. Len(list) \in Nat /\ 1 \in Bounds(Len(list))
        BY <3>1, ListHasPlaces
      <3>. QED  BY <2>3, <3>2 DEF NewLiveViewModal, CursorInv, ListCursor
    <2>4. ASSUME NEW count \in ErrorCounts, modal = NewValidationErrorModal(count)
          PROVE  CursorInv
      <3>1. count \in Nat /\ 1 \in Bounds(count)
        BY FormsAssumption DEF Bounds
      <3>. QED  BY <2>4, <3>1 DEF NewValidationErrorModal, CursorInv, ListCursor
    <2>5. ASSUME NEW form \in BranchForms, modal = NewSimpleBranchModal(form)
          PROVE  CursorInv
      <3>. DEFINE list == PinBranches(form)
      <3>1. Sequence(list)
        BY PinnedIsList
      <3>. HIDE DEF list
      <3>2. Len(list) \in Nat /\ 1 \in Bounds(Len(list))
        BY <3>1, ListHasPlaces
      <3>3. modal = [kind |-> "branch", form |-> form, filtered |-> list, text |-> "",
                     filtering |-> FALSE, selected |-> 1, top |-> 1]
        BY <2>5 DEF NewSimpleBranchModal, list
      <3>4. BranchCursors(modal) /\ modal.kind = "branch"
        BY <3>1, <3>2, <3>3 DEF BranchCursors
      <3>. QED  BY <3>4 DEF CursorInv
    <2>6. ASSUME NEW input, modal = NewInputModal(input)
          PROVE  CursorInv
      BY <2>1, <2>6 DEF NewInputModal
    <2>7. ASSUME NEW variables, modal = NewChainVariableModal(variables)
          PROVE  CursorInv
      <3>1. modal.kind = "variables"
        BY <2>7 DEF NewChainVariableModal
      <3>. QED  BY <2>1, <3>1
    <2>8. ASSUME NEW current, NEW default, modal = NewConfirmModal(current, default)
          PROVE  CursorInv
      BY <2>1, <2>8 DEF NewConfirmModal
    <2>9. ASSUME modal = NewFilterModal(FilterItems)
          PROVE  CursorInv
      BY <2>1, <2>9 DEF NewFilterModal
    <2>10. ASSUME NEW empty, modal = [kind |-> "reset", empty |-> empty]
           PROVE  CursorInv
      BY <2>1, <2>10
    <2>11. ASSUME NEW kind \in {"run", "help", "error"}, modal = [kind |-> kind]
           PROVE  CursorInv
      BY <2>1, <2>11
    <2>. QED
      BY <1>2, <2>2, <2>3, <2>4, <2>5, <2>6, <2>7, <2>8, <2>9, <2>10, <2>11 DEF OpensModal
  <1>. QED  BY <1>1, <1>2 DEF Init

LEMMA NextCursorInv ==
  ASSUME ModalInv, CursorInv, [Next]_vars
  PROVE  CursorInv'
  <1>1. CASE UNCHANGED modalVars
    BY <1>1 DEF modalVars, CursorInv, BranchCursors, ListCursor
  <1>2. CASE UpdateModal
    <2>1. CASE modal.kind \notin {"select", "live", "validation", "branch"}
      <3>1. modal' = NoModal \/ modal'.kind = modal.kind
        BY <1>2, KindIsKept DEF Kept, ModalInv, OfKind
      <3>. QED  BY <2>1, <3>1, DoneCursorInv DEF CursorInv
    <2>. QED  BY <1>2, <2>1, SelectCursor, LiveCursor, ErrorCursor, BranchCursor
  <1>. QED  BY <1>1, <1>2 DEF Next, vars

----------------------------------------------------------------------------
(* What the viewer shows *)

(* Without a term to look for, its case does not matter.                    *)
LEMMA NoTermNoCase ==
  ASSUME NEW cfg, NEW other, NEW logs,
         cfg.searchTerm = "", other.searchTerm = "", other.level = cfg.level
  PROVE  Apply(other, logs) = Apply(cfg, logs)
  <1>1. ASSUME NEW entry
        PROVE  /\ MatchesEntry(other, entry) <=> MatchesEntry(cfg, entry)
               /\ FindMatches(other, entry) = FALSE /\ FindMatches(cfg, entry) = FALSE
    BY DEF MatchesEntry, FindMatches
  <1>2. \A entries : Matching(other, entries) = Matching(cfg, entries)
    BY <1>1 DEF Matching
  <1>3. \A entries : Highlighted(other, entries) = Highlighted(cfg, entries)
    BY <1>1, Zenon DEF Highlighted
  <1>4. \A i : FilteredStep(other, logs, i) = FilteredStep(cfg, logs, i)
    BY <1>2, <1>3, Zenon DEF FilteredStep
  <1>. QED  BY <1>4, Zenon DEF Apply

FilterInv == {"level", "searchTerm", "caseSensitive"} \subseteq DOMAIN filterCfg

ViewerInv == FilterInv /\ ShowsFilteredLogs

LEMMA ViewerShows ==
  ASSUME ViewerInv, UpdateViewer
  PROVE  ViewerInv'
  <1>. USE DEF ViewerInv, FilterInv
  <1>1. CASE UNCHANGED <<runLogs, filterCfg, filtered, content, collapsed>>
    BY <1>1 DEF ShowsFilteredLogs
  <1>2. ASSUME NEW cfg, {"level", "searchTerm", "caseSensitive"} \subseteq DOMAIN cfg, ApplyFilter(cfg)
        PROVE  ViewerInv'
    BY <1>2 DEF ApplyFilter, UpdateViewportContent, ShowsFilteredLogs
  <1>3. ASSUME NEW folds, Fold(folds)
        PROVE  ViewerInv'
    BY <1>3 DEF Fold, UpdateViewportContent, ShowsFilteredLogs, filterState
  <1>4. CASE SetLevel
    <2>1. PICK level : ApplyFilter([filterCfg EXCEPT !.level = level])
      BY <1>4 DEF SetLevel
    <2>. QED  BY <1>2, <2>1
  <1>5. CASE ToggleCaseSensitive
    <2>. DEFINE toggled == [filterCfg EXCEPT !.caseSensitive = ~filterCfg.caseSensitive]
    <2>1. CASE ApplyFilter(toggled)
      BY <1>2, <2>1
    <2>2. CASE /\ filterCfg.searchTerm = ""
               /\ filterCfg' = toggled
               /\ UNCHANGED <<runLogs, filtered, content, collapsed>>
      <3>1. filterCfg'.searchTerm = "" /\ filterCfg'.level = filterCfg.level
        BY <2>2
      <3>2. Apply(filterCfg', runLogs) = Apply(filterCfg, runLogs)
        BY <2>2, <3>1, NoTermNoCase
      <3>. QED  BY <2>2, <3>2 DEF ShowsFilteredLogs
    <2>. QED  BY <1>5, <2>1, <2>2 DEF ToggleCaseSensitive, viewport
  <1>6. CASE ApplySearch
    <2>1. PICK term : ApplyFilter([filterCfg EXCEPT !.searchTerm = term])
      BY <1>6 DEF ApplySearch
    <2>. QED  BY <1>2, <2>1
  <1>7. CASE ToggleStepAtCursor \/ ExpandAll \/ CollapseAll
    BY <1>3, <1>7 DEF ToggleStepAtCursor, ExpandAll, CollapseAll
  <1>8. CASE Close \/ StartSearch \/ TypeSearch \/ Jump \/ Scroll
    BY <1>1, <1>8 DEF Close, StartSearch, TypeSearch, Jump, Scroll, filterState, viewport
  <1>9. CASE Resize
    BY <1>9 DEF Resize, UpdateViewportContent, ShowsFilteredLogs, filterState
  <1>. QED  BY <1>4, <1>5, <1>6, <1>7, <1>8, <1>9 DEF UpdateViewer

(* Filter, folds and content are changed by different keys, and none leaves *)
(* the content behind (LogsViewerModal.applyFilter, updateViewportContent). *)
THEOREM ViewerShowsFilteredLogs == Spec => []ShowsFilteredLogs
  <1>1. Init => ViewerInv
    BY DEF Init, OpensViewer, NoViewer, NewViewer, ShowsFilteredLogs, ViewerInv, FilterInv
  <1>2. ViewerInv /\ [Next]_vars => ViewerInv'
    <2>1. CASE UNCHANGED viewerVars
      BY <2>1 DEF viewerVars, filterState, viewport, ShowsFilteredLogs, ViewerInv, FilterInv
    <2>. QED  BY <2>1, ViewerShows DEF Next, vars
  <1>3. ViewerInv => ShowsFilteredLogs
    BY DEF ViewerInv
  <1>. QED  BY <1>1, <1>2, <1>3, PTL DEF Spec

----------------------------------------------------------------------------
(* Where the lines are *)

ListOfLists(logs) == Sequence(logs) /\ \A i \in DOMAIN logs : Sequence(logs[i])

(* What a filter leaves: steps with lists of entries.                       *)
Steps(steps) == Sequence(steps) /\ \A s \in DOMAIN steps : Sequence(steps[s].entries)

LEMMA ApplyMakesSteps ==
  ASSUME NEW cfg, NEW logs, ListOfLists(logs)
  PROVE  Steps(Apply(cfg, logs)) /\ Len(Apply(cfg, logs)) \in 0..Len(logs)
  <1>. DEFINE all  == [i \in DOMAIN logs |-> FilteredStep(cfg, logs, i)]
              kept == {s \in Range(all) : s.entries # <<>>}
              Good == {FilteredStep(cfg, logs, i) : i \in DOMAIN logs}
  <1>1. Len(logs) \in Nat /\ DOMAIN logs = 1..Len(logs)
    BY DEF ListOfLists, Sequence
  <1>2. all \in Seq(Good) /\ Len(all) = Len(logs)
    <2>1. all \in [1..Len(logs) -> Good]
      BY <1>1
    <2>. HIDE DEF all, Good
    <2>. QED  BY <1>1, <2>1
  <1>3. Apply(cfg, logs) = Only(all, kept)
    BY DEF Apply, NonEmpty
  <1>4. ASSUME NEW step \in Good
        PROVE  Sequence(step.entries)
    <2>1. PICK i \in DOMAIN logs : step = FilteredStep(cfg, logs, i)
      OBVIOUS
    <2>. DEFINE shown == Only(logs[i], Matching(cfg, logs[i]))
    <2>2. step.entries = Highlighted(cfg, shown)
      BY <2>1 DEF FilteredStep
    <2>3. Len(shown) \in Nat /\ DOMAIN shown = 1..Len(shown)
      <3>1. logs[i] \in Seq(ToSet(logs[i]))
        BY DEF ListOfLists, Sequence
      <3>2. shown \in Seq(ToSet(logs[i]) \cap Matching(cfg, logs[i]))
        BY <3>1, OnlyKeepsMembers
      <3>. HIDE DEF shown
      <3>. QED  BY <3>2
    <2>. HIDE DEF shown
    <2>. DEFINE q == Highlighted(cfg, shown)
    <2>4. q = [j \in 1..Len(shown) |-> q[j]]
      BY <2>3 DEF Highlighted
    <2>. HIDE DEF q
    <2>5. Sequence(q)
      BY <2>3, <2>4, FunctionIsSequence
    <2>. QED  BY <2>2, <2>5 DEF q
  <1>. HIDE DEF all, kept, Good
  <1>5. Only(all, kept) \in Seq(Good \cap kept)
    BY <1>2, OnlyKeepsMembers
  <1>6. Len(Only(all, kept)) \in 0..Len(all)
    BY <1>2, OnlyKeepsFewer
  <1>7. Sequence(Only(all, kept))
    BY <1>5, SequenceOfItsOwn
  <1>8. \A s \in DOMAIN Only(all, kept) : Only(all, kept)[s] \in Good
    <2>. DEFINE q == Only(all, kept)
    <2>. HIDE DEF q
    <2>1. q \in Seq(Good \cap kept)
      BY <1>5 DEF q
    <2>2. \A s \in DOMAIN q : q[s] \in Good
      BY <2>1
    <2>. QED  BY <2>2 DEF q
  <1>. QED  BY <1>2, <1>3, <1>4, <1>6, <1>7, <1>8 DEF Steps

LEMMA UnfoldedIsNat ==
  ASSUME NEW steps, Steps(steps), NEW folds, NEW s \in DOMAIN steps
  PROVE  Unfolded(steps, folds, s) \in Nat
  <1>1. Len(steps[s].entries) \in Nat
    BY DEF Steps, Sequence
  <1>. QED  BY <1>1 DEF Unfolded

(* The lines of a step. *)
Block(steps, folds, s) ==
  <<Header(s)>> \o [e \in 1..Unfolded(steps, folds, s) |-> Line(s, e)] \o <<Blank>>

LEMMA BlockLines ==
  ASSUME NEW steps, Steps(steps), NEW folds, NEW s \in DOMAIN steps
  PROVE  LET size  == Unfolded(steps, folds, s)
             lines == {Header(s), Blank} \cup {Line(s, e) : e \in 1..size}
         IN  /\ Block(steps, folds, s) \in Seq(lines)
             /\ Len(Block(steps, folds, s)) = size + 2
             /\ \A e \in 1..size : Block(steps, folds, s)[e + 1] = Line(s, e)
  <1>. DEFINE size  == Unfolded(steps, folds, s)
              lines == {Header(s), Blank} \cup {Line(s, e) : e \in 1..size}
              first == <<Header(s)>>
              body  == [e \in 1..size |-> Line(s, e)]
              last  == <<Blank>>
  <1>1. size \in Nat
    BY UnfoldedIsNat
  <1>. HIDE DEF size
  <1>2. first \in Seq(lines) /\ Len(first) = 1 /\ last \in Seq(lines) /\ Len(last) = 1
    <2>1. Header(s) \in lines /\ Blank \in lines
      OBVIOUS
    <2>. HIDE DEF lines
    <2>. QED  BY <2>1
  <1>3. body \in Seq(lines) /\ Len(body) = size /\ \A e \in 1..size : body[e] = Line(s, e)
    <2>1. body \in [1..size -> lines]
      OBVIOUS
    <2>2. \A e \in 1..size : body[e] = Line(s, e)
      OBVIOUS
    <2>. HIDE DEF body, lines
    <2>. QED  BY <1>1, <2>1, <2>2
  <1>4. Block(steps, folds, s) = (first \o body) \o last
    BY DEF Block, size
  <1>. HIDE DEF first, body, last, lines
  <1>5. /\ first \o body \in Seq(lines) /\ Len(first \o body) = size + 1
        /\ \A e \in 1..size : (first \o body)[e + 1] = body[e]
    <2>. DEFINE q == first \o body
    <2>0. /\ q \in Seq(lines) /\ Len(q) = Len(first) + Len(body)
          /\ \A k \in 1..(Len(first) + Len(body)) :
               q[k] = IF k <= Len(first) THEN first[k] ELSE body[k - Len(first)]
      BY <1>2, <1>3, ConcatProperties
    <2>. HIDE DEF q
    <2>1. q \in Seq(lines) /\ Len(q) = size + 1
      BY <1>1, <1>2, <1>3, <2>0
    <2>2. ASSUME NEW e \in 1..size
          PROVE  q[e + 1] = body[e]
      <3>1. e + 1 \in 1..(Len(first) + Len(body)) /\ ~(e + 1 <= Len(first)) /\ (e + 1) - Len(first) = e
        <4>1. Len(first) = 1 /\ Len(body) = size
          BY <1>2, <1>3
        <4>. QED  BY <1>1, <4>1
      <3>2. q[e + 1] = body[(e + 1) - Len(first)]
        BY <2>0, <3>1
      <3>. QED  BY <3>1, <3>2
    <2>. QED  BY <2>1, <2>2 DEF q
  <1>. DEFINE front == first \o body
  <1>. HIDE DEF front
  <1>6. front \in Seq(lines) /\ Len(front) = size + 1 /\ \A e \in 1..size : front[e + 1] = body[e]
    BY <1>5 DEF front
  <1>7. /\ front \o last \in Seq(lines) /\ Len(front \o last) = size + 2
        /\ \A e \in 1..size : (front \o last)[e + 1] = front[e + 1]
    <2>0. front \o last \in Seq(lines) /\ Len(front \o last) = Len(front) + Len(last)
      BY <1>2, <1>6, ConcatProperties
    <2>1. front \o last \in Seq(lines) /\ Len(front \o last) = size + 2
      <3>1. Len(front) = size + 1 /\ Len(last) = 1
        BY <1>2, <1>6
      <3>. QED  BY <1>1, <2>0, <3>1
    <2>2. ASSUME NEW e \in 1..size
          PROVE  (front \o last)[e + 1] = front[e + 1]
      <3>1. e + 1 \in 1..(Len(front) + Len(last)) /\ e + 1 <= Len(front)
        BY <1>1, <1>2, <1>6
      <3>. QED  BY <1>2, <1>6, <3>1, ConcatProperties
    <2>. QED  BY <2>1, <2>2
  <1>. QED  BY <1>3, <1>4, <1>6, <1>7 DEF front, size, lines

Blocks(steps, folds) == [s \in DOMAIN steps |-> Block(steps, folds, s)]

AllLines(steps) ==
  {Header(s) : s \in DOMAIN steps} \cup {Blank} \cup {Line(s, e) : s \in DOMAIN steps, e \in Nat}

LEMMA BlocksAreLists ==
  ASSUME NEW steps, Steps(steps), NEW folds
  PROVE  /\ Len(steps) \in Nat /\ DOMAIN steps = 1..Len(steps)
         /\ Blocks(steps, folds) \in [1..Len(steps) -> Seq(AllLines(steps))]
  <1>1. Len(steps) \in Nat /\ DOMAIN steps = 1..Len(steps)
    BY DEF Steps, Sequence
  <1>2. ASSUME NEW s \in DOMAIN steps
        PROVE  Block(steps, folds, s) \in Seq(AllLines(steps))
    <2>. DEFINE lines == {Header(s), Blank} \cup {Line(s, e) : e \in 1..Unfolded(steps, folds, s)}
    <2>1. Block(steps, folds, s) \in Seq(lines)
      BY BlockLines
    <2>2. lines \subseteq AllLines(steps)
      <3>1. 1..Unfolded(steps, folds, s) \subseteq Nat
        BY UnfoldedIsNat
      <3>. QED  BY <3>1 DEF AllLines
    <2>3. ASSUME NEW A, NEW B, A \subseteq B, NEW q \in Seq(A)
          PROVE  q \in Seq(B)
      BY <2>3
    <2>. HIDE DEF lines
    <2>. QED  BY <2>1, <2>2, <2>3
  <1>. QED  BY <1>1, <1>2 DEF Blocks

(* LineOf counts the lines before an entry.                                 *)
LEMMA LineOfCounts ==
  ASSUME NEW steps, Steps(steps), NEW folds,
         NEW flat, Flattening(flat, Blocks(steps, folds), Len(steps), AllLines(steps)),
         NEW s \in DOMAIN steps, NEW e
  PROVE  LineOf(steps, folds, s, e) = Len(flat[s - 1]) + e
  <1>. DEFINE Is(g) == g = [n \in 1..s |-> IF n = 1 THEN 0
                              ELSE g[n - 1] + Unfolded(steps, folds, n - 1) + 2]
              first == CHOOSE g : Is(g)
              before == [n \in 1..s |-> Len(flat[n - 1])]
              T == {n \in 0..s : n # 0 => first[n] = before[n]}
  <1>1. s \in Nat \ {0} /\ s \in 1..Len(steps) /\ Len(steps) \in Nat
    BY BlocksAreLists
  <1>2. LineOf(steps, folds, s, e) = first[s] + e
    BY DEF LineOf
  <1>3. ASSUME NEW n \in 1..s
        PROVE  before[n] = IF n = 1 THEN 0 ELSE before[n - 1] + Unfolded(steps, folds, n - 1) + 2
    <2>1. CASE n = 1
      <3>1. before[1] = Len(flat[0])
        BY <2>1
      <3>2. flat[0] = <<>>
        BY DEF Flattening
      <3>. QED  BY <2>1, <3>1, <3>2
    <2>2. CASE n # 1
      <3>. DEFINE k == n - 1
      <3>1. k \in 1..s /\ k \in 1..Len(steps) /\ k \in DOMAIN steps /\ k - 1 \in 0..Len(steps)
        BY <1>1, <2>2, BlocksAreLists
      <3>2. before[n] = Len(flat[k]) /\ before[k] = Len(flat[k - 1])
        BY <3>1
      <3>3. flat[k] = flat[k - 1] \o Block(steps, folds, k)
        BY <3>1 DEF Flattening, Blocks
      <3>. HIDE DEF k
      <3>4. flat[k - 1] \in Seq(AllLines(steps)) /\ Block(steps, folds, k) \in Seq(AllLines(steps))
        <4>1. Blocks(steps, folds)[k] = Block(steps, folds, k)
          BY <3>1 DEF Blocks
        <4>2. Blocks(steps, folds)[k] \in Seq(AllLines(steps))
          BY <3>1, BlocksAreLists
        <4>3. flat[k - 1] \in Seq(AllLines(steps))
          BY <3>1 DEF Flattening
        <4>. QED  BY <4>1, <4>2, <4>3
      <3>5. Len(flat[k]) = Len(flat[k - 1]) + Len(Block(steps, folds, k)) /\ Len(flat[k - 1]) \in Nat
        BY <3>3, <3>4, ConcatProperties
      <3>6. Len(Block(steps, folds, k)) = Unfolded(steps, folds, k) + 2 /\ Unfolded(steps, folds, k) \in Nat
        BY <3>1, BlockLines, UnfoldedIsNat
      <3>7. before[n] = before[k] + Unfolded(steps, folds, k) + 2
        <4>. DEFINE a == Len(flat[k - 1])
                    u == Unfolded(steps, folds, k)
        <4>1. a \in Nat /\ u \in Nat /\ before[n] = a + (u + 2) /\ before[k] = a
          <5>. HIDE DEF before
          <5>. QED  BY <3>2, <3>5, <3>6
        <4>. HIDE DEF before, a, u
        <4>2. before[n] = before[k] + u + 2
          BY <4>1
        <4>. QED  BY <4>2 DEF u
      <3>. QED  BY <2>2, <3>7 DEF k
    <2>. QED  BY <2>1, <2>2
  <1>4. before = [n \in 1..s |-> before[n]]
    OBVIOUS
  <1>5. before[s] = Len(flat[s - 1])
    BY <1>1
  <1>. HIDE DEF before
  <1>6. Is(before)
    BY <1>3, <1>4
  <1>7. Is(first)
    <2>. HIDE DEF Is
    <2>. QED  BY <1>6
  <1>. HIDE DEF first
  <1>8. 0 \in T
    BY <1>1
  <1>9. ASSUME NEW n \in 1..s, n - 1 \in T
        PROVE  n \in T
    <2>1. first[n] = IF n = 1 THEN 0 ELSE first[n - 1] + Unfolded(steps, folds, n - 1) + 2
      BY <1>7
    <2>2. n # 1 => first[n - 1] = before[n - 1]
      BY <1>9
    <2>3. n \in 0..s
      BY <1>1
    <2>. QED  BY <1>3, <2>1, <2>2, <2>3
  <1>. HIDE DEF T
  <1>10. s \in T
    BY <1>1, <1>8, <1>9, LoopKeeps
  <1>11. first[s] = before[s]
    BY <1>1, <1>10 DEF T
  <1>. QED  BY <1>2, <1>5, <1>11

(* The content has a line, and an entry stands in the line it is said to.   *)
LEMMA ContentLines ==
  ASSUME NEW steps, Steps(steps), NEW folds
  PROVE  /\ Len(Content(steps, folds)) \in Nat \ {0}
         /\ \A s \in DOMAIN steps : \A e \in 1..Unfolded(steps, folds, s) :
              /\ LineOf(steps, folds, s, e) \in 0..(Len(Content(steps, folds)) - 1)
              /\ Content(steps, folds)[LineOf(steps, folds, s, e) + 1] = Line(s, e)
  <1>. DEFINE size == Len(steps)
              all  == Content(steps, folds)
              seqs == Blocks(steps, folds)
  <1>1. size \in Nat /\ DOMAIN steps = 1..size /\ seqs \in [1..size -> Seq(AllLines(steps))]
    BY BlocksAreLists
  <1>2. CASE steps = <<>>
    <2>1. all = <<NoLogs>>
      BY <1>2 DEF Content
    <2>2. Len(all) = 1
      BY <2>1
    <2>3. DOMAIN steps = {}
      BY <1>2
    <2>. QED  BY <2>2, <2>3
  <1>3. CASE steps # <<>>
    <2>. HIDE DEF seqs, size
    <2>1. PICK flat : Flattening(flat, seqs, size, AllLines(steps)) /\ FlattenSeq(seqs) = flat[size]
      BY <1>1, FlattenSeqIsLoop
    <2>. DEFINE rows == flat[size]
    <2>2. all = rows \o <<Blank>>
      BY <1>3, <2>1, Zenon DEF Content, RenderUnifiedLogs, seqs, Blocks, Block
    <2>3. rows \in Seq(AllLines(steps)) /\ <<Blank>> \in Seq(AllLines(steps)) /\ Len(<<Blank>>) = 1
      <3>1. size \in 0..size /\ Blank \in AllLines(steps)
        BY <1>1 DEF AllLines
      <3>2. flat \in [0..size -> Seq(AllLines(steps))]
        BY <2>1 DEF Flattening
      <3>. QED  BY <3>1, <3>2
    <2>. HIDE DEF rows
    <2>. DEFINE tail == <<Blank>>
    <2>. HIDE DEF tail
    <2>4. rows \in Seq(AllLines(steps)) /\ tail \in Seq(AllLines(steps)) /\ Len(tail) = 1 /\ all = rows \o tail
      BY <2>2, <2>3 DEF tail
    <2>. HIDE DEF all
    <2>5. /\ Len(rows) \in Nat /\ Len(all) = Len(rows) + 1
          /\ \A k \in 1..Len(rows) : all[k] = rows[k]
      <3>1. /\ Len(all) = Len(rows) + Len(tail)
            /\ \A k \in 1..(Len(rows) + Len(tail)) :
                 all[k] = IF k <= Len(rows) THEN rows[k] ELSE tail[k - Len(rows)]
        BY <2>4, ConcatProperties
      <3>2. Len(rows) \in Nat
        BY <2>4
      <3>3. Len(all) = Len(rows) + 1
        BY <2>4, <3>1
      <3>4. ASSUME NEW k \in 1..Len(rows)
            PROVE  all[k] = rows[k]
        <4>1. k \in 1..(Len(rows) + Len(tail)) /\ k <= Len(rows)
          BY <2>4, <3>2
        <4>. QED  BY <3>1, <4>1
      <3>. QED  BY <3>2, <3>3, <3>4
    <2>6. ASSUME NEW s \in DOMAIN steps, NEW e \in 1..Unfolded(steps, folds, s)
          PROVE  /\ LineOf(steps, folds, s, e) \in 0..(Len(all) - 1)
                 /\ all[LineOf(steps, folds, s, e) + 1] = Line(s, e)
      <3>. DEFINE before == Len(flat[s - 1])
      <3>1. s \in 1..size /\ s - 1 \in 0..size
        BY <1>1
      <3>2. LineOf(steps, folds, s, e) = before + e
        <4>1. Flattening(flat, Blocks(steps, folds), Len(steps), AllLines(steps))
          BY <2>1 DEF seqs, size
        <4>. QED  BY <4>1, LineOfCounts
      <3>3. seqs[s] = Block(steps, folds, s)
        BY DEF seqs, Blocks
      <3>4. Unfolded(steps, folds, s) \in Nat
        BY UnfoldedIsNat
      <3>5. Len(seqs[s]) = Unfolded(steps, folds, s) + 2 /\ seqs[s][e + 1] = Line(s, e)
        <4>1. /\ Len(Block(steps, folds, s)) = Unfolded(steps, folds, s) + 2
              /\ Block(steps, folds, s)[e + 1] = Line(s, e)
          BY BlockLines
        <4>. QED  BY <3>3, <4>1
      <3>6. e + 1 \in 1..Len(seqs[s])
        BY <3>4, <3>5
      <3>7. before + (e + 1) \in 1..Len(rows) /\ rows[before + (e + 1)] = Line(s, e)
        <4>. DEFINE k == e + 1
        <4>1. k \in 1..Len(seqs[s]) /\ seqs[s][k] = Line(s, e)
          BY <3>5, <3>6
        <4>. HIDE DEF k
        <4>2. /\ Len(flat[s - 1]) + k \in 1..Len(flat[size])
              /\ flat[size][Len(flat[s - 1]) + k] = seqs[s][k]
          <5>1. \A i \in 1..size : \A j \in 1..Len(seqs[i]) :
                  /\ Len(flat[i - 1]) + j \in 1..Len(flat[size])
                  /\ flat[size][Len(flat[i - 1]) + j] = seqs[i][j]
            BY <2>1, FlattenedPlaces
          <5>. QED  BY <3>1, <4>1, <5>1
        <4>. QED  BY <4>1, <4>2 DEF rows, k
      <3>8. before \in Nat
        <4>1. flat \in [0..size -> Seq(AllLines(steps))]
          BY <2>1 DEF Flattening
        <4>. QED  BY <3>1, <4>1
      <3>. HIDE DEF before
      <3>9. before + (e + 1) = (before + e) + 1 /\ before + e \in 0..(Len(all) - 1)
        BY <2>5, <3>7, <3>8
      <3>. QED  BY <2>5, <3>2, <3>7, <3>9
    <2>. QED  BY <2>5, <2>6 DEF all
  <1>. QED  BY <1>2, <1>3

MatchAt(steps, folds, s, e) == [step |-> s, entry |-> e, line |-> LineOf(steps, folds, s, e)]

(* What is found is the line of an entry that is shown.                     *)
LEMMA MatchesAreLines ==
  ASSUME NEW cfg, NEW steps, Steps(steps), NEW folds
  PROVE  LET found == BuildMatchIndex(cfg, steps, folds)
         IN  /\ Sequence(found)
             /\ \A k \in DOMAIN found : \E s \in DOMAIN steps : \E e \in 1..Unfolded(steps, folds, s) :
                  found[k] = MatchAt(steps, folds, s, e)
             /\ \A k \in DOMAIN found : found[k].line \in Nat
  <1>. DEFINE found == BuildMatchIndex(cfg, steps, folds)
              In(s) == {MatchAt(steps, folds, s, e) : e \in 1..Unfolded(steps, folds, s)}
              Good == UNION {In(s) : s \in DOMAIN steps}
              size == Len(steps)
              seqs == [s \in DOMAIN steps |-> MatchesIn(steps, folds, s)]
  <1>1. size \in Nat /\ DOMAIN steps = 1..size
    BY BlocksAreLists
  <1>2. ASSUME NEW s \in DOMAIN steps
        PROVE  MatchesIn(steps, folds, s) \in Seq(Good)
    <2>. DEFINE n    == Unfolded(steps, folds, s)
                all  == [e \in 1..n |-> MatchAt(steps, folds, s, e)]
                kept == {MatchAt(steps, folds, s, e) : e \in {k \in 1..n : steps[s].entries[k].matches}}
    <2>1. n \in Nat
      BY UnfoldedIsNat
    <2>2. all \in [1..n -> In(s)] /\ In(s) \subseteq Good
      OBVIOUS
    <2>3. MatchesIn(steps, folds, s) = Only(all, kept)
      BY Zenon DEF MatchesIn, MatchAt
    <2>. HIDE DEF all, kept, n, In, Good
    <2>4. all \in Seq(In(s))
      BY <2>1, <2>2
    <2>5. Only(all, kept) \in Seq(In(s) \cap kept)
      BY <2>4, OnlyKeepsMembers
    <2>6. ASSUME NEW A, NEW B, A \subseteq B, NEW q \in Seq(A)
          PROVE  q \in Seq(B)
      BY <2>6
    <2>. QED  BY <2>2, <2>3, <2>5, <2>6
  <1>3. ASSUME NEW q \in Seq(Good)
        PROVE  /\ Sequence(q)
               /\ \A k \in DOMAIN q : \E s \in DOMAIN steps : \E e \in 1..Unfolded(steps, folds, s) :
                    q[k] = MatchAt(steps, folds, s, e)
    <2>1. Sequence(q)
      <3>. HIDE DEF Good
      <3>. QED  BY SequenceOfItsOwn
    <2>2. \A k \in DOMAIN q : q[k] \in Good
      <3>. HIDE DEF Good
      <3>. QED  OBVIOUS
    <2>. QED  BY <2>1, <2>2
  <1>4. found \in Seq(Good)
    <2>1. CASE cfg.searchTerm = ""
      <3>1. found = <<>>
        BY <2>1 DEF BuildMatchIndex
      <3>2. <<>> \in Seq(Good)
        OBVIOUS
      <3>. QED  BY <3>1, <3>2
    <2>2. CASE cfg.searchTerm # ""
      <3>. HIDE DEF Good, size
      <3>1. seqs \in [1..size -> Seq(Good)]
        BY <1>1, <1>2
      <3>2. found = FlattenSeq(seqs)
        BY <2>2 DEF BuildMatchIndex
      <3>. HIDE DEF seqs
      <3>3. PICK flat : Flattening(flat, seqs, size, Good) /\ FlattenSeq(seqs) = flat[size]
        BY <1>1, <3>1, FlattenSeqIsLoop
      <3>4. flat \in [0..size -> Seq(Good)] /\ size \in 0..size
        BY <1>1, <3>3 DEF Flattening
      <3>. QED  BY <3>2, <3>3, <3>4
    <2>. QED  BY <2>1, <2>2
  <1>. HIDE DEF Good
  <1>5. /\ Sequence(found)
        /\ \A k \in DOMAIN found : \E s \in DOMAIN steps : \E e \in 1..Unfolded(steps, folds, s) :
             found[k] = MatchAt(steps, folds, s, e)
    <2>. HIDE DEF found
    <2>. QED  BY <1>3, <1>4
  <1>. HIDE DEF found
  <1>6. ASSUME NEW k \in DOMAIN found
        PROVE  found[k].line \in Nat
    <2>0. PICK s \in DOMAIN steps : \E e \in 1..Unfolded(steps, folds, s) : found[k] = MatchAt(steps, folds, s, e)
      BY <1>5
    <2>1. PICK e \in 1..Unfolded(steps, folds, s) : found[k] = MatchAt(steps, folds, s, e)
      BY <2>0
    <2>2. LineOf(steps, folds, s, e) \in 0..(Len(Content(steps, folds)) - 1)
          /\ Len(Content(steps, folds)) \in Nat
      BY ContentLines
    <2>3. found[k].line = LineOf(steps, folds, s, e)
      BY <2>1 DEF MatchAt
    <2>. QED  BY <2>2, <2>3
  <1>. QED  BY <1>5, <1>6 DEF found

----------------------------------------------------------------------------
(* Where the viewport stands *)

LEMMA OffsetWithin ==
  ASSUME NEW offset \in Nat, NEW lines \in Nat, NEW h \in Nat
  PROVE  SetYOffset(offset, lines, h) \in 0..MaxYOffset(lines, h)
  BY DEF SetYOffset, Least, MaxYOffset

LEMMA LineInView ==
  ASSUME NEW lines \in Nat, NEW line \in 0..(lines - 1), NEW h \in Nat \ {0}
  PROVE  LET first == SetYOffset(IF line < h \div 2 THEN 0 ELSE line - h \div 2, lines, h)
         IN  first \in 0..MaxYOffset(lines, h) /\ line \in first..(first + h - 1)
  <1>. DEFINE half   == h \div 2
              offset == IF line < half THEN 0 ELSE line - half
              first  == SetYOffset(offset, lines, h)
  <1>1. half \in Nat /\ half <= h - 1
    OBVIOUS
  <1>. HIDE DEF half
  <1>2. offset \in Nat /\ offset <= line /\ line <= offset + h - 1
    BY <1>1
  <1>. HIDE DEF offset
  <1>3. first \in 0..MaxYOffset(lines, h) /\ line \in first..(first + h - 1)
    BY <1>2 DEF SetYOffset, Least, MaxYOffset
  <1>. QED  BY <1>3 DEF offset, half

(* What the viewer relies on, besides what it shows.                        *)
PlacesInv ==
  /\ ViewerInv
  /\ ListOfLists(runLogs)
  /\ Sequence(matches) /\ \A k \in DOMAIN matches : matches[k].line \in Nat
  /\ height \in Nat \ {0}
  /\ {"on", "text"} \subseteq DOMAIN search
  /\ ViewerTypeOK

LEMMA ShownSteps ==
  ASSUME PlacesInv
  PROVE  /\ Steps(filtered) /\ DOMAIN filtered \subseteq DOMAIN runLogs
         /\ Len(content) \in Nat \ {0}
         /\ yOffset \in Nat
  <1>1. Steps(filtered) /\ Len(filtered) \in 0..Len(runLogs) /\ Len(runLogs) \in Nat
    BY ApplyMakesSteps DEF PlacesInv, ViewerInv, ShowsFilteredLogs, ListOfLists, Sequence
  <1>2. DOMAIN filtered = 1..Len(filtered) /\ DOMAIN runLogs = 1..Len(runLogs)
    BY <1>1 DEF Steps, Sequence, PlacesInv, ListOfLists
  <1>3. Len(content) \in Nat \ {0}
    BY <1>1, ContentLines DEF PlacesInv, ViewerInv, ShowsFilteredLogs
  <1>4. yOffset \in Nat
    <2>1. yOffset \in 0..MaxYOffset(Len(content), height) /\ height \in Nat
      BY DEF PlacesInv, ViewerTypeOK
    <2>2. MaxYOffset(Len(content), height) \in Nat
      BY <1>3, <2>1 DEF MaxYOffset
    <2>. QED  BY <2>1, <2>2
  <1>. QED  BY <1>1, <1>2, <1>3, <1>4

(* The content is written again, and the viewport kept within it.           *)
LEMMA ContentUpdated ==
  ASSUME PlacesInv, ViewerInv', UNCHANGED runLogs, NEW folds, NEW h \in Nat \ {0},
         collapsed' = folds, UpdateViewportContent(filtered', folds, h)
  PROVE  height' \in Nat \ {0} /\ yOffset' \in 0..MaxYOffset(Len(content'), height')
  <1>1. Steps(filtered')
    <2>1. filtered' = Apply(filterCfg', runLogs) /\ ListOfLists(runLogs)
      BY DEF PlacesInv, ViewerInv, ShowsFilteredLogs
    <2>. QED  BY <2>1, ApplyMakesSteps
  <1>2. Len(content') \in Nat
    BY <1>1, ContentLines DEF UpdateViewportContent
  <1>3. yOffset \in Nat
    BY ShownSteps
  <1>4. height' = h /\ yOffset' = SetYOffset(yOffset, Len(content'), h)
    BY DEF UpdateViewportContent
  <1>. QED  BY <1>2, <1>3, <1>4, OffsetWithin

LEMMA JumpGoesTo ==
  ASSUME PlacesInv, Jump
  PROVE  currentMatch' \in 1..Len(matches) /\ Len(matches) \in Nat
  <1>. DEFINE size == Len(matches)
  <1>1. size \in Nat \ {0}
    <2>1. matches \in Seq(ToSet(matches)) /\ matches # <<>>
      BY DEF PlacesInv, Sequence, Jump
    <2>. QED  BY <2>1
  <1>2. currentMatch \in 0..size
    BY DEF PlacesInv, ViewerTypeOK
  <1>3. \/ currentMatch' = (currentMatch % size) + 1
        \/ currentMatch' = IF currentMatch \in {0, 1} THEN size ELSE currentMatch - 1
    BY DEF Jump
  <1>. HIDE DEF size
  <1>4. currentMatch % size \in 0..(size - 1)
    BY <1>1, <1>2
  <1>5. currentMatch' \in 1..size
    BY <1>1, <1>2, <1>3, <1>4
  <1>. QED  BY <1>1, <1>5 DEF size

LEMMA StepKeepsPlaces ==
  ASSUME PlacesInv, UpdateViewer
  PROVE  PlacesInv'
  <1>1. ViewerInv'
    BY ViewerShows DEF PlacesInv
  <1>. DEFINE Shown == /\ ViewerInv /\ ListOfLists(runLogs) /\ height \in Nat \ {0}
                       /\ yOffset \in 0..MaxYOffset(Len(content), height)
              Indexed == /\ Sequence(matches) /\ \A k \in DOMAIN matches : matches[k].line \in Nat
                       /\ currentMatch \in 0..Len(matches)
              Rest  == collapsed \subseteq DOMAIN runLogs /\ done \in BOOLEAN
              Asked == {"on", "text"} \subseteq DOMAIN search /\ search.text \in Terms \cup {""}
  <1>2. Shown /\ Indexed /\ Rest /\ Asked
    BY DEF PlacesInv, ViewerTypeOK
  <1>3. (Shown /\ Indexed /\ Rest /\ Asked)' => PlacesInv'
    BY DEF PlacesInv, ViewerTypeOK
  <1>4. UNCHANGED <<runLogs, height, yOffset, content>> => Shown'
    BY <1>1, <1>2
  <1>5. UNCHANGED <<matches, currentMatch>> => Indexed'
    BY <1>2
  <1>6. UNCHANGED <<runLogs, collapsed, done>> => Rest'
    BY <1>2
  <1>7. UNCHANGED search => Asked'
    BY <1>2
  <1>8. ASSUME NEW folds, NEW h \in Nat \ {0}, UNCHANGED runLogs, collapsed' = folds,
               UpdateViewportContent(filtered', folds, h)
        PROVE  Shown'
    <2>1. height' \in Nat \ {0} /\ yOffset' \in 0..MaxYOffset(Len(content'), height')
      BY <1>1, <1>8, ContentUpdated
    <2>. QED  BY <1>1, <1>2, <1>8, <2>1
  <1>. HIDE DEF Shown, Indexed, Rest, Asked
  <1>9. height \in Nat \ {0}
    BY DEF PlacesInv
  <1>10. ASSUME NEW cfg, ApplyFilter(cfg)
         PROVE  (Shown /\ Indexed /\ Rest)'
    <2>1. UNCHANGED <<runLogs, collapsed, done>>
      BY <1>10 DEF ApplyFilter
    <2>2. UpdateViewportContent(filtered', collapsed', height)
      BY <1>10, <2>1 DEF ApplyFilter
    <2>3. Shown'
      BY <1>8, <1>9, <2>1, <2>2
    <2>4. Steps(filtered')
      <3>1. filtered' = Apply(cfg, runLogs) /\ ListOfLists(runLogs)
        BY <1>10 DEF ApplyFilter, PlacesInv
      <3>. QED  BY <3>1, ApplyMakesSteps
    <2>5. Sequence(matches') /\ \A k \in DOMAIN matches' : matches'[k].line \in Nat
      <3>1. matches' = BuildMatchIndex(cfg, filtered', collapsed)
        BY <1>10 DEF ApplyFilter
      <3>. QED  BY <2>4, <3>1, MatchesAreLines
    <2>6. Len(matches') \in Nat /\ currentMatch' = 0
      BY <1>10, <2>5 DEF ApplyFilter, Sequence
    <2>7. Indexed'
      BY <2>5, <2>6 DEF Indexed
    <2>. QED  BY <1>6, <2>1, <2>3, <2>7
  <1>11. ASSUME NEW folds, folds \subseteq DOMAIN runLogs, Fold(folds)
         PROVE  PlacesInv'
    <2>1. UNCHANGED <<runLogs, filtered, matches, currentMatch, search, done>> /\ collapsed' = folds
      BY <1>11 DEF Fold, filterState
    <2>2. UpdateViewportContent(filtered', folds, height)
      BY <1>11, <2>1 DEF Fold
    <2>3. Shown'
      BY <1>8, <1>9, <2>1, <2>2
    <2>4. Rest'
      BY <1>2, <1>11, <2>1 DEF Rest
    <2>. QED  BY <1>3, <1>5, <1>7, <2>1, <2>3, <2>4
  <1>12. CASE Close
    <2>1. UNCHANGED <<runLogs, height, yOffset, content, matches, currentMatch, search, collapsed>> /\ done' = TRUE
      BY <1>12 DEF Close, filterState, viewport
    <2>2. Rest'
      BY <1>2, <2>1 DEF Rest
    <2>. QED  BY <1>3, <1>4, <1>5, <1>7, <2>1, <2>2
  <1>13. CASE SetLevel
    <2>1. (\E cfg : ApplyFilter(cfg)) /\ UNCHANGED search
      BY <1>13, Zenon DEF SetLevel
    <2>. QED  BY <1>3, <1>7, <1>10, <2>1
  <1>14. CASE ToggleCaseSensitive
    <2>1. UNCHANGED search
      BY <1>14 DEF ToggleCaseSensitive
    <2>2. CASE \E cfg : ApplyFilter(cfg)
      BY <1>3, <1>7, <1>10, <2>1, <2>2
    <2>3. CASE UNCHANGED <<runLogs, filtered, matches, viewport, collapsed, currentMatch, done>>
      BY <1>3, <1>4, <1>5, <1>6, <1>7, <2>1, <2>3 DEF viewport
    <2>. QED  BY <1>14, <2>2, <2>3, Zenon DEF ToggleCaseSensitive
  <1>15. CASE StartSearch \/ TypeSearch
    <2>1. UNCHANGED <<runLogs, height, yOffset, content, matches, currentMatch, collapsed, done>>
      BY <1>15 DEF StartSearch, TypeSearch, filterState, viewport
    <2>2. \/ search' = [search EXCEPT !.on = TRUE] \/ search' = [search EXCEPT !.on = FALSE]
          \/ \E text \in Terms \cup {""} : search' = [search EXCEPT !.text = text]
      BY <1>15 DEF StartSearch, TypeSearch
    <2>3. Asked'
      BY <1>2, <2>2 DEF Asked
    <2>. QED  BY <1>3, <1>4, <1>5, <1>6, <2>1, <2>3
  <1>16. CASE ApplySearch
    <2>1. (\E cfg : ApplyFilter(cfg)) /\ search' = [search EXCEPT !.on = FALSE]
      BY <1>16, Zenon DEF ApplySearch
    <2>2. Asked'
      BY <1>2, <2>1 DEF Asked
    <2>. QED  BY <1>3, <1>10, <2>1, <2>2
  <1>17. CASE ToggleStepAtCursor \/ ExpandAll \/ CollapseAll
    <2>1. collapsed \subseteq DOMAIN runLogs /\ DOMAIN filtered \subseteq DOMAIN runLogs
      BY ShownSteps DEF PlacesInv, ViewerTypeOK
    <2>2. filtered # <<>> => 1 \in DOMAIN filtered
      <3>1. filtered \in Seq(ToSet(filtered))
        BY ShownSteps DEF Steps, Sequence
      <3>. QED  BY <3>1
    <2>3. \E folds : folds \subseteq DOMAIN runLogs /\ Fold(folds)
      <3>1. CASE ToggleStepAtCursor
        <4>1. 1 \in DOMAIN runLogs
          BY <2>1, <2>2, <3>1 DEF ToggleStepAtCursor
        <4>2. (IF 1 \in collapsed THEN collapsed \ {1} ELSE collapsed \cup {1}) \subseteq DOMAIN runLogs
          BY <2>1, <4>1
        <4>. QED  BY <3>1, <4>2, Zenon DEF ToggleStepAtCursor
      <3>2. CASE ExpandAll
        BY <3>2 DEF ExpandAll
      <3>3. CASE CollapseAll
        <4>1. (collapsed \cup DOMAIN filtered) \subseteq DOMAIN runLogs
          BY <2>1
        <4>. QED  BY <3>3, <4>1, Zenon DEF CollapseAll
      <3>. QED  BY <1>17, <3>1, <3>2, <3>3
    <2>. QED  BY <1>11, <2>3
  <1>18. CASE Jump
    <2>1. UNCHANGED <<runLogs, content, height, matches, collapsed, search, done>>
      BY <1>18 DEF Jump, filterState
    <2>. DEFINE line   == matches[currentMatch'].line
                offset == IF line < height \div 2 THEN 0 ELSE line - height \div 2
    <2>2. yOffset' = SetYOffset(offset, Len(content), height)
      BY <1>18 DEF Jump, ScrollToMatch
    <2>3. currentMatch' \in DOMAIN matches /\ currentMatch' \in 0..Len(matches)
      <3>1. currentMatch' \in 1..Len(matches) /\ Len(matches) \in Nat
        BY <1>18, JumpGoesTo
      <3>2. DOMAIN matches = 1..Len(matches)
        BY DEF PlacesInv, Sequence
      <3>. QED  BY <3>1, <3>2
    <2>4. offset \in Nat
      <3>1. line \in Nat /\ height \in Nat \ {0}
        BY <2>3 DEF PlacesInv
      <3>. HIDE DEF line
      <3>. QED  BY <3>1
    <2>. HIDE DEF offset
    <2>5. yOffset' \in 0..MaxYOffset(Len(content), height)
      BY <1>9, <2>2, <2>4, ShownSteps, OffsetWithin
    <2>6. Shown'
      BY <1>1, <1>2, <2>1, <2>5 DEF Shown
    <2>7. Indexed'
      BY <1>2, <2>1, <2>3 DEF Indexed
    <2>. QED  BY <1>3, <1>6, <1>7, <2>1, <2>6, <2>7
  <1>19. CASE Scroll
    <2>1. UNCHANGED <<runLogs, content, height, matches, currentMatch, collapsed, search, done>>
          /\ yOffset' \in 0..MaxYOffset(Len(content), height)
      BY <1>19 DEF Scroll, filterState
    <2>2. Shown'
      BY <1>1, <1>2, <2>1 DEF Shown
    <2>. QED  BY <1>3, <1>5, <1>6, <1>7, <2>1, <2>2
  <1>20. CASE Resize
    <2>1. UNCHANGED <<runLogs, filtered, matches, collapsed, currentMatch, search, done>>
      BY <1>20 DEF Resize, filterState
    <2>2. PICK h \in Heights : UpdateViewportContent(filtered, collapsed, h)
      BY <1>20 DEF Resize
    <2>3. h \in Nat \ {0}
      BY HeightsAssumption
    <2>4. Shown'
      <3>1. UpdateViewportContent(filtered', collapsed', h)
        BY <2>1, <2>2
      <3>. QED  BY <1>8, <2>1, <2>3, <3>1
    <2>. QED  BY <1>3, <1>5, <1>6, <1>7, <2>1, <2>4
  <1>. QED
    BY <1>12, <1>13, <1>14, <1>15, <1>16, <1>17, <1>18, <1>19, <1>20 DEF UpdateViewer

LEMMA InitPlaces ==
  ASSUME Init
  PROVE  PlacesInv
  <1>1. ViewerInv
    BY DEF Init, OpensViewer, NoViewer, NewViewer, ShowsFilteredLogs, ViewerInv, FilterInv
  <1>2. /\ ListOfLists(runLogs) /\ height \in Nat \ {0} /\ done \in BOOLEAN
        /\ NewViewer
    <2>1. ASSUME NEW logs \in RunLogs
          PROVE  ListOfLists(logs)
      BY LogsAssumption DEF ListOfLists, Sequence
    <2>2. ListOfLists(<<>>)
      BY DEF ListOfLists, Sequence
    <2>3. CASE OpensViewer
      BY <2>1, <2>3, HeightsAssumption DEF OpensViewer
    <2>4. CASE NoViewer
      <3>1. runLogs = <<>> /\ height = 1 /\ done = TRUE /\ NewViewer
        BY <2>4 DEF NoViewer
      <3>2. ListOfLists(runLogs)
        BY <2>2, <3>1, Zenon
      <3>. QED  BY <3>1, <3>2
    <2>. QED  BY <2>3, <2>4 DEF Init
  <1>3. /\ collapsed = {} /\ matches = <<>> /\ currentMatch = 0 /\ yOffset = 0
        /\ search = [on |-> FALSE, text |-> ""]
    BY <1>2 DEF NewViewer
  <1>4. Len(content) \in Nat
    <2>1. Steps(filtered)
      BY <1>1, <1>2, ApplyMakesSteps DEF ViewerInv, ShowsFilteredLogs
    <2>. QED  BY <1>1, <2>1, ContentLines DEF ViewerInv, ShowsFilteredLogs
  <1>5. 0 \in 0..MaxYOffset(Len(content), height)
    BY <1>2, <1>4 DEF MaxYOffset
  <1>6. Sequence(matches) /\ Len(matches) = 0 /\ DOMAIN matches = {}
    <2>1. Sequence(<<>>) /\ Len(<<>>) = 0 /\ DOMAIN <<>> = {}
      BY DEF Sequence
    <2>. QED  BY <1>3, <2>1, Zenon
  <1>7. search.text \in Terms \cup {""} /\ {"on", "text"} \subseteq DOMAIN search
    BY <1>3
  <1>8. currentMatch \in 0..Len(matches)
    <2>1. currentMatch = 0 /\ Len(matches) = 0
      BY <1>3, <1>6, Zenon
    <2>. QED  BY <2>1
  <1>9. yOffset \in 0..MaxYOffset(Len(content), height)
    BY <1>3, <1>5, Zenon
  <1>. QED  BY <1>1, <1>2, <1>3, <1>6, <1>7, <1>8, <1>9 DEF PlacesInv, ViewerTypeOK

LEMMA NextPlaces ==
  ASSUME PlacesInv, [Next]_vars
  PROVE  PlacesInv'
  <1>1. CASE UNCHANGED viewerVars
    BY <1>1 DEF viewerVars, filterState, viewport, PlacesInv, ViewerInv, FilterInv, ShowsFilteredLogs,
       ListOfLists, ViewerTypeOK
  <1>. QED  BY <1>1, StepKeepsPlaces DEF Next, vars

(* Cursors stay within their lists, also when a filter shortens them, and   *)
(* the viewport stays within its content (Update of the modals,             *)
(* SimpleBranchModal.applyFilter and adjustScroll, toggleStepAtCursor,      *)
(* scrollToMatch).                                                          *)
THEOREM TypeCorrect == Spec => []TypeOK
  <1>1. Init => ModalInv /\ CursorInv /\ PlacesInv
    BY InitModalInv, InitCursorInv, InitPlaces
  <1>2. ModalInv /\ CursorInv /\ PlacesInv /\ [Next]_vars => (ModalInv /\ CursorInv /\ PlacesInv)'
    BY NextModalInv, NextCursorInv, NextPlaces
  <1>3. ModalInv /\ CursorInv /\ PlacesInv => TypeOK
    <2>. SUFFICES ASSUME ModalInv, CursorInv, PlacesInv
                  PROVE  TypeOK
      OBVIOUS
    <2>1. modal.kind = "variables" => modal.selected \in DOMAIN modal.asks
      BY DEF ModalInv, Sequence
    <2>2. ViewerTypeOK
      BY DEF PlacesInv
    <2>. QED  BY <2>1, <2>2 DEF CursorInv, ListCursor, BranchCursors, TypeOK
  <1>. QED  BY <1>1, <1>2, <1>3, PTL DEF Spec

(* The index of matches counts lines as the renderer writes them: a jump    *)
(* goes to the line of the match, and brings it into view                   *)
(* (buildMatchIndex, renderUnifiedLogs, scrollToMatch).                     *)
THEOREM JumpsShowMatches == Spec => JumpShowsMatch
  <1>. DEFINE InView ==
         LET m == matches[currentMatch']
         IN  /\ content'[m.line + 1] = Line(m.step, m.entry)
             /\ m.line \in yOffset'..(yOffset' + height - 1)
              Goes == Jump /\ matches = BuildMatchIndex(filterCfg, filtered, collapsed) => InView
  <1>1. Spec => []PlacesInv
    BY InitPlaces, NextPlaces, PTL DEF Spec
  <1>2. ASSUME PlacesInv
        PROVE  Goes
    <2>. SUFFICES ASSUME Jump, matches = BuildMatchIndex(filterCfg, filtered, collapsed)
                  PROVE  InView
      OBVIOUS
    <2>. DEFINE m == matches[currentMatch']
    <2>1. currentMatch' \in DOMAIN matches
      <3>1. currentMatch' \in 1..Len(matches)
        BY <1>2, JumpGoesTo
      <3>2. DOMAIN matches = 1..Len(matches)
        BY <1>2 DEF PlacesInv, Sequence
      <3>. QED  BY <3>1, <3>2
    <2>2. Steps(filtered)
      BY <1>2, ShownSteps
    <2>3. PICK s \in DOMAIN filtered : \E e \in 1..Unfolded(filtered, collapsed, s) :
            m = MatchAt(filtered, collapsed, s, e)
      BY <2>1, <2>2, MatchesAreLines
    <2>4. PICK e \in 1..Unfolded(filtered, collapsed, s) : m = MatchAt(filtered, collapsed, s, e)
      BY <2>3
    <2>5. m.step = s /\ m.entry = e /\ m.line = LineOf(filtered, collapsed, s, e)
      BY <2>4 DEF MatchAt
    <2>6. content = Content(filtered, collapsed) /\ height \in Nat \ {0} /\ Len(content) \in Nat
      BY <1>2, ShownSteps DEF PlacesInv, ViewerInv, ShowsFilteredLogs
    <2>7. m.line \in 0..(Len(content) - 1) /\ content[m.line + 1] = Line(m.step, m.entry)
      BY <2>2, <2>5, <2>6, ContentLines
    <2>. HIDE DEF m
    <2>8. /\ content' = content
          /\ yOffset' = SetYOffset(IF m.line < height \div 2 THEN 0 ELSE m.line - height \div 2,
                                   Len(content), height)
      BY DEF Jump, ScrollToMatch, m
    <2>9. m.line \in yOffset'..(yOffset' + height - 1)
      BY <2>6, <2>7, <2>8, LineInView
    <2>. QED  BY <2>7, <2>8, <2>9 DEF m
  <1>3. PlacesInv /\ [Next]_vars => [Goes]_viewerVars
    BY <1>2
  <1>4. Spec => [][Goes]_viewerVars
    <2>. HIDE DEF Goes
    <2>. QED  BY <1>1, <1>3, PTL DEF Spec
  <1>. QED  BY <1>4 DEF JumpShowsMatch
=============================================================================
