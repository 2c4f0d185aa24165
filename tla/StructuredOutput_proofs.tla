----------------------- MODULE StructuredOutput_proofs -----------------------
(***************************************************************************)
(* What holds of StructuredOutput for free text of any length, any damage  *)
(* the model does to it and any cut.                                       *)
(*                                                                         *)
(* The argument follows the free text as it is written.  While the string  *)
(* is open, the text and what the repair makes of it both say what the     *)
(* model meant so far, or have become unreadable (Matched); only a raw     *)
(* quote and a raw backslash before a character that can be escaped break  *)
(* this, and those texts are Ambiguous.  A raw backslash hangs until the   *)
(* next character decides about it (Hanging).  Closed, wrapped and cut     *)
(* off, such a text is read as what it says or as no answer                *)
(* (AroundLenient), in an envelope twice over (JudgedRight).               *)
(***************************************************************************)
EXTENDS StructuredOutput, SequenceTheorems, WellFoundedInduction, FiniteSetTheorems, TLAPS

-----------------------------------------------------------------------------
(* Reading a text character by character. Recursive functions over texts   *)
(* are determined by their last step, and a set of texts that holds the    *)
(* empty text and, with a text, every one that is a character longer holds *)
(* them all.                                                               *)

\* What holds of 0 and of every successor holds up to N.
LEMMA UpTo ==
  ASSUME NEW N \in Nat, NEW P, 0 \in P, \A n \in 0 .. N - 1 : n \in P => n + 1 \in P
  PROVE  \A n \in 0 .. N : n \in P
<1> DEFINE outside == {n \in 0 .. N : n \notin P}
           order == OpToRel(<, Nat)
<1> SUFFICES ASSUME outside # {} PROVE FALSE
  OBVIOUS
<1>1. PICK x \in outside : \A y \in outside : <<y, x>> \notin order
  <2>1. outside \subseteq Nat
    OBVIOUS
  <2>2. IsWellFoundedOn(order, Nat)
    BY NatLessThanWellFounded
  <2> HIDE DEF outside, order
  <2> QED BY <2>1, <2>2, WFMin
<1>2. x \in 1 .. N /\ x - 1 \in 0 .. N - 1
  OBVIOUS
<1>3. x - 1 \notin outside
  <2>1. x - 1 \in Nat /\ x \in Nat /\ x - 1 < x
    BY <1>2
  <2> DEFINE y == x - 1
             p == <<y, x>>
  <2>2. p \in Nat \X Nat /\ p[1] = y /\ p[2] = x
    BY <2>1
  <2>3. p[1] < p[2]
    <3> HIDE DEF p
    <3> QED BY <2>1, <2>2
  <2>4. p \in order
    <3> HIDE DEF p
    <3> QED BY <2>2, <2>3, Zenon DEF OpToRel
  <2> HIDE DEF outside, order
  <2> QED BY <1>1, <2>4
<1> QED BY <1>2, <1>3

Steps(step, A, C) == \A x \in A, c \in C : step[<<x, c>>] \in A

Follows(f, base, step, s) ==
  f[0] = base /\ \A n \in 1 .. Len(s) : f[n] = step[<<f[n - 1], s[n]>>]

\* A text can be read from its first character to its last.
LEMMA StepByStep ==
  ASSUME NEW A, NEW C, NEW base \in A, NEW s \in Seq(C), NEW step, Steps(step, A, C)
  PROVE  \E f \in [0 .. Len(s) -> A] : Follows(f, base, step, s)
<1> DEFINE N == Len(s)
           Is(f, m) == /\ f \in [0 .. m -> A] /\ f[0] = base
                       /\ \A n \in 1 .. m : f[n] = step[<<f[n - 1], s[n]>>]
           P == {m \in 0 .. N : \E f : Is(f, m)}
<1>0. N \in Nat /\ \A n \in 1 .. N : s[n] \in C
  OBVIOUS
<1>1. 0 \in P
  <2> DEFINE f == [n \in 0 .. 0 |-> base]
  <2>1. f \in [0 .. 0 -> A] /\ f[0] = base
    OBVIOUS
  <2>2. \A n \in 1 .. 0 : FALSE
    OBVIOUS
  <2>3. Is(f, 0)
    <3> HIDE DEF f
    <3> QED BY <2>1, <2>2
  <2>4. 0 \in 0 .. N
    OBVIOUS
  <2> HIDE DEF f
  <2> QED BY <2>3, <2>4
<1>2. ASSUME NEW m \in 0 .. N - 1, m \in P PROVE m + 1 \in P
  <2>1. PICK f : Is(f, m)
    BY <1>2
  <2>2. m \in 0 .. m /\ m + 1 \in 1 .. N /\ m + 1 \in 0 .. N
    BY <1>0
  <2> HIDE DEF N
  <2> DEFINE next == step[<<f[m], s[m + 1]>>]
             g == [n \in 0 .. m + 1 |-> IF n = m + 1 THEN next ELSE f[n]]
  <2>3. f[m] \in A
    BY <2>1, <2>2
  <2>4. next \in A
    BY <1>0, <2>2, <2>3 DEF Steps
  <2>5. \A n \in 0 .. m : g[n] = f[n] /\ f[n] \in A
    BY <2>1
  <2>6. g[m + 1] = next
    OBVIOUS
  <2>7. g \in [0 .. m + 1 -> A]
    <3>1. \A n \in 0 .. m + 1 : n = m + 1 \/ n \in 0 .. m
      OBVIOUS
    <3>2. \A n \in 0 .. m + 1 : (IF n = m + 1 THEN next ELSE f[n]) \in A
      <4> HIDE DEF next
      <4> QED BY <2>4, <2>5, <3>1
    <3> HIDE DEF next
    <3> QED BY <3>2
  <2>8. \A n \in 1 .. m + 1 : g[n] = step[<<g[n - 1], s[n]>>]
    <3> SUFFICES ASSUME NEW n \in 1 .. m + 1 PROVE g[n] = step[<<g[n - 1], s[n]>>]
      OBVIOUS
    <3>1. n - 1 \in 0 .. m
      OBVIOUS
    <3>2. g[n - 1] = f[n - 1]
      BY <2>5, <3>1
    <3>3. CASE n = m + 1
      <4>1. n - 1 = m /\ g[n] = next
        BY <2>6, <3>3
      <4> HIDE DEF g
      <4> QED BY <3>2, <3>3, <4>1
    <3>4. CASE n \in 1 .. m
      BY <2>1, <2>5, <3>2, <3>4
    <3> QED BY <3>3, <3>4
  <2>9. g[0] = base
    BY <2>1, <2>5
  <2> HIDE DEF g
  <2> QED BY <2>2, <2>7, <2>8, <2>9
<1>3. \A m \in 0 .. N : m \in P
  <2> HIDE DEF P, N
  <2> QED BY <1>0, <1>1, <1>2, UpTo
<1>4. N \in P
  <2> HIDE DEF P, N
  <2> QED BY <1>0, <1>3
<1> QED BY <1>4 DEF Follows

\* Where such a reading of a text gets, and what it tells.
LEMMA FollowsOnce ==
  ASSUME NEW A, NEW C, NEW base \in A, NEW s \in Seq(C), NEW step,
         NEW f \in [0 .. Len(s) -> A], Follows(f, base, step, s),
         NEW k \in 0 .. Len(s), NEW t \in Seq(C), Len(t) = k, \A n \in 1 .. k : t[n] = s[n],
         NEW g \in [0 .. Len(t) -> A], Follows(g, base, step, t)
  PROVE  g[k] = f[k]
<1> DEFINE P == {n \in 0 .. k : g[n] = f[n]}
<1>0. k \in Nat /\ Len(s) \in Nat
  OBVIOUS
<1>1. 0 \in P
  BY DEF Follows
<1>2. ASSUME NEW n \in 0 .. k - 1, n \in P PROVE n + 1 \in P
  <2>1. n + 1 \in 1 .. k /\ n + 1 \in 1 .. Len(s) /\ (n + 1) - 1 = n /\ n + 1 \in 0 .. k
    BY <1>0
  <2>2. g[n + 1] = step[<<g[n], t[n + 1]>>] /\ f[n + 1] = step[<<f[n], s[n + 1]>>]
    BY <2>1 DEF Follows
  <2>3. g[n] = f[n]
    BY <1>2
  <2> QED BY <2>1, <2>2, <2>3
<1>3. \A n \in 0 .. k : n \in P
  <2> HIDE DEF P
  <2> QED BY <1>0, <1>1, <1>2, UpTo
<1> QED BY <1>0, <1>3

Ends(run, base, step, A, s) ==
  \E f \in [0 .. Len(s) -> A] : Follows(f, base, step, s) /\ run[s] = f[Len(s)]

\* What a text read step by step comes to: that of a longer text is one step further.
LEMMA OneStepFurther ==
  ASSUME NEW A, NEW C, NEW base \in A, NEW step, Steps(step, A, C),
         NEW run, \A s \in Seq(C) : Ends(run, base, step, A, s)
  PROVE  /\ run[<< >>] = base
         /\ \A s \in Seq(C) : run[s] \in A
         /\ \A s \in Seq(C), c \in C : run[Append(s, c)] = step[<<run[s], c>>]
<1>1. run[<< >>] = base
  <2>1. << >> \in Seq(C) /\ Len(<< >>) = 0
    OBVIOUS
  <2>2. PICK f : Follows(f, base, step, << >>) /\ run[<< >>] = f[Len(<< >>)]
    BY <2>1 DEF Ends
  <2> QED BY <2>1, <2>2 DEF Follows
<1>2. ASSUME NEW s \in Seq(C) PROVE run[s] \in A
  <2>1. PICK f \in [0 .. Len(s) -> A] : run[s] = f[Len(s)]
    BY <1>2 DEF Ends
  <2>2. Len(s) \in 0 .. Len(s)
    OBVIOUS
  <2> QED BY <2>1, <2>2
<1>3. ASSUME NEW s \in Seq(C), NEW c \in C PROVE run[Append(s, c)] = step[<<run[s], c>>]
  <2> DEFINE t == Append(s, c)
  <2>1. /\ t \in Seq(C) /\ Len(t) = Len(s) + 1 /\ t[Len(s) + 1] = c
        /\ \A n \in 1 .. Len(s) : s[n] = t[n]
    BY AppendProperties
  <2>2. Len(s) \in 0 .. Len(t) /\ Len(t) \in 1 .. Len(t) /\ Len(t) - 1 = Len(s)
    BY <2>1
  <2> HIDE DEF t
  <2>3. PICK f \in [0 .. Len(t) -> A] : Follows(f, base, step, t) /\ run[t] = f[Len(t)]
    BY <1>3, <2>1 DEF Ends
  <2>4. PICK g \in [0 .. Len(s) -> A] : Follows(g, base, step, s) /\ run[s] = g[Len(s)]
    BY <1>3 DEF Ends
  <2>5. g[Len(s)] = f[Len(s)]
    BY <2>1, <2>2, <2>3, <2>4, FollowsOnce
  <2>6. f[Len(t)] = step[<<f[Len(t) - 1], t[Len(t)]>>]
    BY <2>2, <2>3 DEF Follows
  <2> QED BY <2>1, <2>2, <2>3, <2>4, <2>5, <2>6 DEF t
<1> QED BY <1>1, <1>2, <1>3

Texts == Seq(CHARS)

Unescapings == [out : Texts, esc : BOOLEAN, bad : BOOLEAN]

\* One character of a string leaves a well-typed reading.
LEMMA UnescapeStepType ==
  ASSUME NEW acc \in Unescapings, NEW ch \in CHARS
  PROVE  UnescapeStep(acc, ch) \in Unescapings
<1>1. /\ "nl" \in CHARS
      /\ \A c \in CHARS : Append(acc.out, c) \in Texts
  BY AppendProperties DEF CHARS, Unescapings, Texts
<1>2. Append(acc.out, "nl") \in Texts /\ Append(acc.out, ch) \in Texts
  BY <1>1
<1> HIDE DEF Texts
<1> QED BY <1>2 DEF UnescapeStep, Unescapings

\* Unescape reads one character after the other.
LEMMA UnescapeRuns ==
  /\ Unescape(<< >>) = NothingUnescaped
  /\ \A s \in Texts : Unescape(s) \in Unescapings
  /\ \A s \in Texts, ch \in CHARS :
       Unescape(Append(s, ch)) = UnescapeStep(Unescape(s), ch)
<1> DEFINE step == [p \in Unescapings \X CHARS |-> UnescapeStep(p[1], p[2])]
           run == [s \in Texts |-> Unescape(s)]
<1>1. NothingUnescaped \in Unescapings
  BY DEF NothingUnescaped, Unescapings, Texts
<1>2. \A acc \in Unescapings, ch \in CHARS :
        step[<<acc, ch>>] = UnescapeStep(acc, ch) /\ step[<<acc, ch>>] \in Unescapings
  <2> SUFFICES ASSUME NEW acc \in Unescapings, NEW ch \in CHARS
               PROVE  /\ step[<<acc, ch>>] = UnescapeStep(acc, ch)
                      /\ step[<<acc, ch>>] \in Unescapings
    OBVIOUS
  <2>1. <<acc, ch>> \in Unescapings \X CHARS
    OBVIOUS
  <2>2. step[<<acc, ch>>] = UnescapeStep(acc, ch)
    BY <2>1
  <2> QED BY <2>2, UnescapeStepType
<1>3. Steps(step, Unescapings, CHARS)
  <2> HIDE DEF step
  <2> QED BY <1>2 DEF Steps
<1>4. ASSUME NEW s \in Texts PROVE Ends(run, NothingUnescaped, step, Unescapings, s)
  <2> DEFINE upTo == CHOOSE g : g = [n \in 0 .. Len(s) |->
                       IF n = 0 THEN NothingUnescaped ELSE UnescapeStep(g[n - 1], s[n])]
  <2>1. PICK f \in [0 .. Len(s) -> Unescapings] : Follows(f, NothingUnescaped, step, s)
    <3> HIDE DEF step
    <3> QED BY <1>1, <1>3, <1>4, StepByStep DEF Texts
  <2>2. f = [n \in 0 .. Len(s) |->
               IF n = 0 THEN NothingUnescaped ELSE UnescapeStep(f[n - 1], s[n])]
    <3>1. ASSUME NEW n \in 1 .. Len(s) PROVE f[n] = UnescapeStep(f[n - 1], s[n])
      <4>1. f[n - 1] \in Unescapings /\ s[n] \in CHARS /\ f[n] = step[<<f[n - 1], s[n]>>]
        <5> HIDE DEF step
        <5> QED BY <1>4, <2>1 DEF Follows, Texts
      <4> HIDE DEF step
      <4> QED BY <1>2, <4>1
    <3>2. \A n \in 0 .. Len(s) : n = 0 \/ n \in 1 .. Len(s)
      BY <1>4 DEF Texts
    <3>3. \A n \in 0 .. Len(s) :
            f[n] = IF n = 0 THEN NothingUnescaped ELSE UnescapeStep(f[n - 1], s[n])
      <4> HIDE DEF step
      <4> QED BY <2>1, <3>1, <3>2 DEF Follows
    <3> HIDE DEF step
    <3> QED BY <3>3
  <2>3. upTo = [n \in 0 .. Len(s) |->
                  IF n = 0 THEN NothingUnescaped ELSE UnescapeStep(upTo[n - 1], s[n])]
    <3> HIDE DEF step
    <3> QED BY <2>2
  <2>4. Unescape(s) = upTo[Len(s)]
    BY DEF Unescape
  <2> HIDE DEF upTo
  <2>5. upTo \in [0 .. Len(s) -> Unescapings] /\ Follows(upTo, NothingUnescaped, step, s)
    <3> DEFINE P == {n \in 0 .. Len(s) : upTo[n] = f[n]}
    <3>0. Len(s) \in Nat
      BY <1>4 DEF Texts
    <3>1. 0 \in P
      <4> HIDE DEF step
      <4> QED BY <2>1, <2>3, <3>0 DEF Follows
    <3>2. ASSUME NEW n \in 0 .. Len(s) - 1, n \in P PROVE n + 1 \in P
      <4>1. n + 1 \in 0 .. Len(s) /\ n + 1 # 0 /\ (n + 1) - 1 = n
        BY <3>0
      <4>2. upTo[n + 1] = UnescapeStep(upTo[n], s[n + 1])
        BY <2>3, <4>1
      <4>3. f[n + 1] = UnescapeStep(f[n], s[n + 1])
        BY <2>2, <4>1
      <4> QED BY <3>2, <4>1, <4>2, <4>3
    <3>3. \A n \in 0 .. Len(s) : n \in P
      <4> HIDE DEF P
      <4> QED BY <3>0, <3>1, <3>2, UpTo
    <3>4. \A n \in 0 .. Len(s) : upTo[n] = f[n]
      BY <3>3
    <3>5. upTo = [n \in 0 .. Len(s) |-> upTo[n]] /\ f = [n \in 0 .. Len(s) |-> f[n]]
      <4>1. upTo = [n \in 0 .. Len(s) |-> upTo[n]]
        BY <2>3
      <4> QED BY <2>1, <4>1
    <3>6. upTo = f
      BY <3>4, <3>5
    <3> HIDE DEF step
    <3> QED BY <2>1, <3>6
  <2>6. run[s] = Unescape(s)
    BY <1>4
  <2> HIDE DEF step, run
  <2> QED BY <2>4, <2>5, <2>6 DEF Ends
<1>5. /\ run[<< >>] = NothingUnescaped
      /\ \A s \in Texts : run[s] \in Unescapings
      /\ \A s \in Texts, ch \in CHARS : run[Append(s, ch)] = step[<<run[s], ch>>]
  <2> HIDE DEF step, run
  <2> QED BY <1>1, <1>3, <1>4, OneStepFurther DEF Texts
<1>6. << >> \in Texts /\ \A s \in Texts, ch \in CHARS : Append(s, ch) \in Texts
  BY DEF Texts
<1> HIDE DEF step
<1>7. \A s \in Texts : run[s] = Unescape(s)
  OBVIOUS
<1> HIDE DEF run
<1>8. Unescape(<< >>) = NothingUnescaped
  BY <1>5, <1>6, <1>7
<1>9. \A s \in Texts : Unescape(s) \in Unescapings
  BY <1>5, <1>7
<1>10. ASSUME NEW s \in Texts, NEW ch \in CHARS
       PROVE  Unescape(Append(s, ch)) = UnescapeStep(Unescape(s), ch)
  <2>1. Unescape(Append(s, ch)) = step[<<Unescape(s), ch>>]
    BY <1>5, <1>6, <1>7
  <2> QED BY <1>2, <1>9, <2>1
<1> QED BY <1>8, <1>9, <1>10

Repairings == [out : Texts, in : BOOLEAN, esc : BOOLEAN]

\* One character leaves a well-typed repair.
LEMMA RepairStepType ==
  ASSUME NEW acc \in Repairings, NEW ch \in CHARS
  PROVE  RepairStep(acc, ch) \in Repairings
<1>1. acc.out \in Texts /\ <<ch>> \in Texts /\ <<"b", ch>> \in Texts /\ <<"b", "n">> \in Texts
  BY DEF CHARS, Repairings, Texts
<1>2. /\ Append(acc.out, ch) \in Texts /\ acc.out \o <<ch>> \in Texts
      /\ acc.out \o <<"b", ch>> \in Texts /\ acc.out \o <<"b", "n">> \in Texts
  BY <1>1, AppendProperties, ConcatProperties DEF Texts
<1> HIDE DEF Texts
<1> QED BY <1>2 DEF RepairStep, Repairings

\* Repair reads one character after the other.
LEMMA RepairRuns ==
  /\ Repair(<< >>) = NothingRepaired
  /\ \A s \in Texts : Repair(s) \in Repairings
  /\ \A s \in Texts, ch \in CHARS :
       Repair(Append(s, ch)) = RepairStep(Repair(s), ch)
<1> DEFINE step == [p \in Repairings \X CHARS |-> RepairStep(p[1], p[2])]
           run == [s \in Texts |-> Repair(s)]
<1>1. NothingRepaired \in Repairings
  BY DEF NothingRepaired, Repairings, Texts
<1>2. \A acc \in Repairings, ch \in CHARS :
        step[<<acc, ch>>] = RepairStep(acc, ch) /\ step[<<acc, ch>>] \in Repairings
  <2> SUFFICES ASSUME NEW acc \in Repairings, NEW ch \in CHARS
               PROVE  /\ step[<<acc, ch>>] = RepairStep(acc, ch)
                      /\ step[<<acc, ch>>] \in Repairings
    OBVIOUS
  <2>1. <<acc, ch>> \in Repairings \X CHARS
    OBVIOUS
  <2>2. step[<<acc, ch>>] = RepairStep(acc, ch)
    BY <2>1
  <2> QED BY <2>2, RepairStepType
<1>3. Steps(step, Repairings, CHARS)
  <2> HIDE DEF step
  <2> QED BY <1>2 DEF Steps
<1>4. ASSUME NEW s \in Texts PROVE Ends(run, NothingRepaired, step, Repairings, s)
  <2> DEFINE upTo == CHOOSE g : g = [n \in 0 .. Len(s) |->
                       IF n = 0 THEN NothingRepaired ELSE RepairStep(g[n - 1], s[n])]
  <2>1. PICK f \in [0 .. Len(s) -> Repairings] : Follows(f, NothingRepaired, step, s)
    <3> HIDE DEF step
    <3> QED BY <1>1, <1>3, <1>4, StepByStep DEF Texts
  <2>2. f = [n \in 0 .. Len(s) |->
               IF n = 0 THEN NothingRepaired ELSE RepairStep(f[n - 1], s[n])]
    <3>1. ASSUME NEW n \in 1 .. Len(s) PROVE f[n] = RepairStep(f[n - 1], s[n])
      <4>1. f[n - 1] \in Repairings /\ s[n] \in CHARS /\ f[n] = step[<<f[n - 1], s[n]>>]
        <5> HIDE DEF step
        <5> QED BY <1>4, <2>1 DEF Follows, Texts
      <4> HIDE DEF step
      <4> QED BY <1>2, <4>1
    <3>2. \A n \in 0 .. Len(s) : n = 0 \/ n \in 1 .. Len(s)
      BY <1>4 DEF Texts
    <3>3. \A n \in 0 .. Len(s) :
            f[n] = IF n = 0 THEN NothingRepaired ELSE RepairStep(f[n - 1], s[n])
      <4> HIDE DEF step
      <4> QED BY <2>1, <3>1, <3>2 DEF Follows
    <3> HIDE DEF step
    <3> QED BY <3>3
  <2>3. upTo = [n \in 0 .. Len(s) |->
                  IF n = 0 THEN NothingRepaired ELSE RepairStep(upTo[n - 1], s[n])]
    <3> HIDE DEF step
    <3> QED BY <2>2
  <2>4. Repair(s) = upTo[Len(s)]
    BY DEF Repair
  <2> HIDE DEF upTo
  <2>5. upTo \in [0 .. Len(s) -> Repairings] /\ Follows(upTo, NothingRepaired, step, s)
    <3> DEFINE P == {n \in 0 .. Len(s) : upTo[n] = f[n]}
    <3>0. Len(s) \in Nat
      BY <1>4 DEF Texts
    <3>1. 0 \in P
      <4> HIDE DEF step
      <4> QED BY <2>1, <2>3, <3>0 DEF Follows
    <3>2. ASSUME NEW n \in 0 .. Len(s) - 1, n \in P PROVE n + 1 \in P
      <4>1. n + 1 \in 0 .. Len(s) /\ n + 1 # 0 /\ (n + 1) - 1 = n
        BY <3>0
      <4>2. upTo[n + 1] = RepairStep(upTo[n], s[n + 1])
        BY <2>3, <4>1
      <4>3. f[n + 1] = RepairStep(f[n], s[n + 1])
        BY <2>2, <4>1
      <4> QED BY <3>2, <4>1, <4>2, <4>3
    <3>3. \A n \in 0 .. Len(s) : n \in P
      <4> HIDE DEF P
      <4> QED BY <3>0, <3>1, <3>2, UpTo
    <3>4. \A n \in 0 .. Len(s) : upTo[n] = f[n]
      BY <3>3
    <3>5. upTo = [n \in 0 .. Len(s) |-> upTo[n]] /\ f = [n \in 0 .. Len(s) |-> f[n]]
      <4>1. upTo = [n \in 0 .. Len(s) |-> upTo[n]]
        BY <2>3
      <4> QED BY <2>1, <4>1
    <3>6. upTo = f
      BY <3>4, <3>5
    <3> HIDE DEF step
    <3> QED BY <2>1, <3>6
  <2>6. run[s] = Repair(s)
    BY <1>4
  <2> HIDE DEF step, run
  <2> QED BY <2>4, <2>5, <2>6 DEF Ends
<1>5. /\ run[<< >>] = NothingRepaired
      /\ \A s \in Texts : run[s] \in Repairings
      /\ \A s \in Texts, ch \in CHARS : run[Append(s, ch)] = step[<<run[s], ch>>]
  <2> HIDE DEF step, run
  <2> QED BY <1>1, <1>3, <1>4, OneStepFurther DEF Texts
<1>6. << >> \in Texts /\ \A s \in Texts, ch \in CHARS : Append(s, ch) \in Texts
  BY DEF Texts
<1> HIDE DEF step
<1>7. \A s \in Texts : run[s] = Repair(s)
  OBVIOUS
<1> HIDE DEF run
<1>8. Repair(<< >>) = NothingRepaired
  BY <1>5, <1>6, <1>7
<1>9. \A s \in Texts : Repair(s) \in Repairings
  BY <1>5, <1>7
<1>10. ASSUME NEW s \in Texts, NEW ch \in CHARS
       PROVE  Repair(Append(s, ch)) = RepairStep(Repair(s), ch)
  <2>1. Repair(Append(s, ch)) = step[<<Repair(s), ch>>]
    BY <1>5, <1>6, <1>7
  <2> QED BY <1>2, <1>9, <2>1
<1> QED BY <1>8, <1>9, <1>10

\* What a value that is extracted begins with.
Openers == {"o", "l"}

Scans == [depth : Int, len : Int, in : BOOLEAN, esc : BOOLEAN, done : BOOLEAN]

\* A value may begin with a brace.
LEMMA BraceOpens == "o" \in Openers
BY DEF Openers

\* One character leaves a well-typed scan.
LEMMA ScanStepType ==
  ASSUME NEW acc \in Scans, NEW ch \in CHARS, NEW open \in Openers
  PROVE  ScanStep(acc, ch, open) \in Scans
<1>1. CASE acc.done
  BY <1>1 DEF ScanStep, Scans
<1>2. CASE ~acc.done
  <2> DEFINE next == [acc EXCEPT !.len = @ + 1]
  <2>1. next \in Scans
    BY DEF Scans
  <2>2. \A e, i, d \in BOOLEAN : \A k \in Int :
          /\ [next EXCEPT !.esc = e] \in Scans /\ [next EXCEPT !.in = i] \in Scans
          /\ [next EXCEPT !.depth = k] \in Scans
          /\ [next EXCEPT !.depth = k, !.done = d] \in Scans
    <3> HIDE DEF next
    <3> QED BY <2>1 DEF Scans
  <2>3. /\ next.in \in BOOLEAN /\ (~next.in) \in BOOLEAN
        /\ next.depth + 1 \in Int /\ next.depth - 1 \in Int /\ (acc.depth = 1) \in BOOLEAN
    <3>1. acc.depth \in Int /\ next.depth \in Int
      BY <2>1 DEF Scans
    <3>2. next.in \in BOOLEAN
      BY <2>1 DEF Scans
    <3>3. (~next.in) \in BOOLEAN
      <4> HIDE DEF next
      <4> QED OBVIOUS
    <3>5. (acc.depth = 1) \in BOOLEAN
      OBVIOUS
    <3>4. next.depth + 1 \in Int /\ next.depth - 1 \in Int
      <4> HIDE DEF next
      <4> QED BY <3>1
    <3> HIDE DEF next
    <3> QED BY <3>2, <3>3, <3>4, <3>5
  <2>4. ScanStep(acc, ch, open) \in {next, [next EXCEPT !.esc = FALSE], [next EXCEPT !.esc = TRUE],
          [next EXCEPT !.in = ~@], [next EXCEPT !.depth = @ + 1],
          [next EXCEPT !.depth = @ - 1, !.done = acc.depth = 1]}
    BY <1>2 DEF ScanStep
  <2> HIDE DEF next
  <2> QED BY <2>1, <2>2, <2>3, <2>4, ZenonT(60)
<1> QED BY <1>1, <1>2

\* Scan reads one character after the other.
LEMMA ScanRunsFrom ==
  ASSUME NEW open \in Openers
  PROVE  /\ Scan(<< >>, open) = NothingScanned
         /\ \A s \in Texts : Scan(s, open) \in Scans
         /\ \A s \in Texts, ch \in CHARS :
              Scan(Append(s, ch), open) = ScanStep(Scan(s, open), ch, open)
<1> DEFINE step == [p \in Scans \X CHARS |-> ScanStep(p[1], p[2], open)]
           run == [s \in Texts |-> Scan(s, open)]
<1>1. NothingScanned \in Scans
  BY DEF NothingScanned, Scans, Texts
<1>2. \A acc \in Scans, ch \in CHARS :
        step[<<acc, ch>>] = ScanStep(acc, ch, open) /\ step[<<acc, ch>>] \in Scans
  <2> SUFFICES ASSUME NEW acc \in Scans, NEW ch \in CHARS
               PROVE  /\ step[<<acc, ch>>] = ScanStep(acc, ch, open)
                      /\ step[<<acc, ch>>] \in Scans
    OBVIOUS
  <2>1. <<acc, ch>> \in Scans \X CHARS
    OBVIOUS
  <2>2. step[<<acc, ch>>] = ScanStep(acc, ch, open)
    BY <2>1
  <2> QED BY <2>2, ScanStepType
<1>3. Steps(step, Scans, CHARS)
  <2> HIDE DEF step
  <2> QED BY <1>2 DEF Steps
<1>4. ASSUME NEW s \in Texts PROVE Ends(run, NothingScanned, step, Scans, s)
  <2> DEFINE upTo == CHOOSE g : g = [n \in 0 .. Len(s) |->
                       IF n = 0 THEN NothingScanned ELSE ScanStep(g[n - 1], s[n], open)]
  <2>1. PICK f \in [0 .. Len(s) -> Scans] : Follows(f, NothingScanned, step, s)
    <3> HIDE DEF step
    <3> QED BY <1>1, <1>3, <1>4, StepByStep DEF Texts
  <2>2. f = [n \in 0 .. Len(s) |->
               IF n = 0 THEN NothingScanned ELSE ScanStep(f[n - 1], s[n], open)]
    <3>1. ASSUME NEW n \in 1 .. Len(s) PROVE f[n] = ScanStep(f[n - 1], s[n], open)
      <4>1. f[n - 1] \in Scans /\ s[n] \in CHARS /\ f[n] = step[<<f[n - 1], s[n]>>]
        <5> HIDE DEF step
        <5> QED BY <1>4, <2>1 DEF Follows, Texts
      <4> HIDE DEF step
      <4> QED BY <1>2, <4>1
    <3>2. \A n \in 0 .. Len(s) : n = 0 \/ n \in 1 .. Len(s)
      BY <1>4 DEF Texts
    <3>3. \A n \in 0 .. Len(s) :
            f[n] = IF n = 0 THEN NothingScanned ELSE ScanStep(f[n - 1], s[n], open)
      <4> HIDE DEF step
      <4> QED BY <2>1, <3>1, <3>2 DEF Follows
    <3> HIDE DEF step
    <3> QED BY <3>3
  <2>3. upTo = [n \in 0 .. Len(s) |->
                  IF n = 0 THEN NothingScanned ELSE ScanStep(upTo[n - 1], s[n], open)]
    <3> HIDE DEF step
    <3> QED BY <2>2
  <2>4. Scan(s, open) = upTo[Len(s)]
    BY DEF Scan
  <2> HIDE DEF upTo
  <2>5. upTo \in [0 .. Len(s) -> Scans] /\ Follows(upTo, NothingScanned, step, s)
    <3> DEFINE P == {n \in 0 .. Len(s) : upTo[n] = f[n]}
    <3>0. Len(s) \in Nat
      BY <1>4 DEF Texts
    <3>1. 0 \in P
      <4> HIDE DEF step
      <4> QED BY <2>1, <2>3, <3>0 DEF Follows
    <3>2. ASSUME NEW n \in 0 .. Len(s) - 1, n \in P PROVE n + 1 \in P
      <4>1. n + 1 \in 0 .. Len(s) /\ n + 1 # 0 /\ (n + 1) - 1 = n
        BY <3>0
      <4>2. upTo[n + 1] = ScanStep(upTo[n], s[n + 1], open)
        BY <2>3, <4>1
      <4>3. f[n + 1] = ScanStep(f[n], s[n + 1], open)
        BY <2>2, <4>1
      <4> QED BY <3>2, <4>1, <4>2, <4>3
    <3>3. \A n \in 0 .. Len(s) : n \in P
      <4> HIDE DEF P
      <4> QED BY <3>0, <3>1, <3>2, UpTo
    <3>4. \A n \in 0 .. Len(s) : upTo[n] = f[n]
      BY <3>3
    <3>5. upTo = [n \in 0 .. Len(s) |-> upTo[n]] /\ f = [n \in 0 .. Len(s) |-> f[n]]
      <4>1. upTo = [n \in 0 .. Len(s) |-> upTo[n]]
        BY <2>3
      <4> QED BY <2>1, <4>1
    <3>6. upTo = f
      BY <3>4, <3>5
    <3> HIDE DEF step
    <3> QED BY <2>1, <3>6
  <2>6. run[s] = Scan(s, open)
    BY <1>4
  <2> HIDE DEF step, run
  <2> QED BY <2>4, <2>5, <2>6 DEF Ends
<1>5. /\ run[<< >>] = NothingScanned
      /\ \A s \in Texts : run[s] \in Scans
      /\ \A s \in Texts, ch \in CHARS : run[Append(s, ch)] = step[<<run[s], ch>>]
  <2> HIDE DEF step, run
  <2> QED BY <1>1, <1>3, <1>4, OneStepFurther DEF Texts
<1>6. << >> \in Texts /\ \A s \in Texts, ch \in CHARS : Append(s, ch) \in Texts
  BY DEF Texts
<1> HIDE DEF step
<1>7. \A s \in Texts : run[s] = Scan(s, open)
  OBVIOUS
<1> HIDE DEF run
<1>8. Scan(<< >>, open) = NothingScanned
  BY <1>5, <1>6, <1>7
<1>9. \A s \in Texts : Scan(s, open) \in Scans
  BY <1>5, <1>7
<1>10. ASSUME NEW s \in Texts, NEW ch \in CHARS
       PROVE  Scan(Append(s, ch), open) = ScanStep(Scan(s, open), ch, open)
  <2>1. Scan(Append(s, ch), open) = step[<<Scan(s, open), ch>>]
    BY <1>5, <1>6, <1>7
  <2> QED BY <1>2, <1>9, <2>1
<1> QED BY <1>8, <1>9, <1>10

\* The scan from a brace.
LEMMA ScanRuns ==
  /\ Scan(<< >>, "o") = NothingScanned
  /\ \A s \in Texts : Scan(s, "o") \in Scans
  /\ \A s \in Texts, ch \in CHARS :
       Scan(Append(s, ch), "o") = ScanStep(Scan(s, "o"), ch, "o")
BY BraceOpens, ScanRunsFrom

\* What a character is escaped to makes a text of a text.
LEMMA EscapedType ==
  ASSUME NEW acc \in Texts, NEW ch \in CHARS
  PROVE  acc \o Escaped(ch) \in Texts
<1>1. Escaped(ch) \in {<<"b", "n">>, <<"b", "b">>, <<"b", "q">>, <<ch>>}
  BY DEF Escaped
<1>2. /\ <<"b", "n">> \in Texts /\ <<"b", "b">> \in Texts /\ <<"b", "q">> \in Texts
      /\ <<ch>> \in Texts
  BY DEF CHARS, Texts
<1>3. Escaped(ch) \in Texts
  BY <1>1, <1>2
<1> QED BY <1>3, ConcatProperties DEF Texts

\* Escape reads one character after the other.
LEMMA EscapeRuns ==
  /\ Escape(<< >>) = << >>
  /\ \A s \in Texts : Escape(s) \in Texts
  /\ \A s \in Texts, ch \in CHARS :
       Escape(Append(s, ch)) = Escape(s) \o Escaped(ch)
<1> DEFINE step == [p \in Texts \X CHARS |-> p[1] \o Escaped(p[2])]
           run == [s \in Texts |-> Escape(s)]
<1>1. << >> \in Texts
  BY DEF Texts
<1>2. \A acc \in Texts, ch \in CHARS :
        step[<<acc, ch>>] = acc \o Escaped(ch) /\ step[<<acc, ch>>] \in Texts
  <2> SUFFICES ASSUME NEW acc \in Texts, NEW ch \in CHARS
               PROVE  /\ step[<<acc, ch>>] = acc \o Escaped(ch)
                      /\ step[<<acc, ch>>] \in Texts
    OBVIOUS
  <2>1. <<acc, ch>> \in Texts \X CHARS
    OBVIOUS
  <2>2. step[<<acc, ch>>] = acc \o Escaped(ch)
    BY <2>1
  <2> QED BY <2>2, EscapedType
<1>3. Steps(step, Texts, CHARS)
  <2> HIDE DEF step
  <2> QED BY <1>2 DEF Steps
<1>4. ASSUME NEW s \in Texts PROVE Ends(run, << >>, step, Texts, s)
  <2> DEFINE upTo == CHOOSE g : g = [n \in 0 .. Len(s) |->
                       IF n = 0 THEN << >> ELSE g[n - 1] \o Escaped(s[n])]
  <2>1. PICK f \in [0 .. Len(s) -> Texts] : Follows(f, << >>, step, s)
    <3> HIDE DEF step
    <3> QED BY <1>1, <1>3, <1>4, StepByStep DEF Texts
  <2>2. f = [n \in 0 .. Len(s) |->
               IF n = 0 THEN << >> ELSE f[n - 1] \o Escaped(s[n])]
    <3>1. ASSUME NEW n \in 1 .. Len(s) PROVE f[n] = f[n - 1] \o Escaped(s[n])
      <4>1. f[n] = step[<<f[n - 1], s[n]>>] /\ n - 1 \in 0 .. Len(s)
        <5> HIDE DEF step
        <5> QED BY <2>1 DEF Follows
      <4>2. f[n - 1] \in Texts /\ s[n] \in CHARS
        <5>1. f[n - 1] \in Texts
          <6> HIDE DEF step
          <6> QED BY <2>1, <4>1
        <5> QED BY <1>4, <5>1 DEF Texts
      <4> HIDE DEF step
      <4> QED BY <1>2, <4>1, <4>2
    <3>2. \A n \in 0 .. Len(s) : n = 0 \/ n \in 1 .. Len(s)
      BY <1>4 DEF Texts
    <3>3. \A n \in 0 .. Len(s) :
            f[n] = IF n = 0 THEN << >> ELSE f[n - 1] \o Escaped(s[n])
      <4> HIDE DEF step
      <4> QED BY <2>1, <3>1, <3>2 DEF Follows
    <3> HIDE DEF step
    <3> QED BY <3>3
  <2>3. upTo = [n \in 0 .. Len(s) |->
                  IF n = 0 THEN << >> ELSE upTo[n - 1] \o Escaped(s[n])]
    <3> HIDE DEF step
    <3> QED BY <2>2
  <2>4. Escape(s) = upTo[Len(s)]
    BY DEF Escape
  <2> HIDE DEF upTo
  <2>5. upTo \in [0 .. Len(s) -> Texts] /\ Follows(upTo, << >>, step, s)
    <3> DEFINE P == {n \in 0 .. Len(s) : upTo[n] = f[n]}
    <3>0. Len(s) \in Nat
      BY <1>4 DEF Texts
    <3>1. 0 \in P
      <4> HIDE DEF step
      <4> QED BY <2>1, <2>3, <3>0 DEF Follows
    <3>2. ASSUME NEW n \in 0 .. Len(s) - 1, n \in P PROVE n + 1 \in P
      <4>1. n + 1 \in 0 .. Len(s) /\ n + 1 # 0 /\ (n + 1) - 1 = n
        BY <3>0
      <4>2. upTo[n + 1] = upTo[n] \o Escaped(s[n + 1])
        BY <2>3, <4>1
      <4>3. f[n + 1] = f[n] \o Escaped(s[n + 1])
        BY <2>2, <4>1
      <4> QED BY <3>2, <4>1, <4>2, <4>3
    <3>3. \A n \in 0 .. Len(s) : n \in P
      <4> HIDE DEF P
      <4> QED BY <3>0, <3>1, <3>2, UpTo
    <3>4. \A n \in 0 .. Len(s) : upTo[n] = f[n]
      BY <3>3
    <3>5. upTo = [n \in 0 .. Len(s) |-> upTo[n]] /\ f = [n \in 0 .. Len(s) |-> f[n]]
      <4>1. upTo = [n \in 0 .. Len(s) |-> upTo[n]]
        BY <2>3
      <4> QED BY <2>1, <4>1
    <3>6. upTo = f
      BY <3>4, <3>5
    <3> HIDE DEF step
    <3> QED BY <2>1, <3>6
  <2>6. run[s] = Escape(s)
    BY <1>4
  <2> HIDE DEF step, run
  <2> QED BY <2>4, <2>5, <2>6 DEF Ends
<1>5. /\ run[<< >>] = << >>
      /\ \A s \in Texts : run[s] \in Texts
      /\ \A s \in Texts, ch \in CHARS : run[Append(s, ch)] = step[<<run[s], ch>>]
  <2> DEFINE A == Texts
  <2>1. A = Seq(CHARS)
    BY DEF Texts
  <2> HIDE DEF step, run
  <2>2. << >> \in A /\ Steps(step, A, CHARS)
    BY <1>1, <1>3 DEF A
  <2>3. \A s \in Seq(CHARS) : Ends(run, << >>, step, A, s)
    BY <1>4, <2>1 DEF A
  <2>4. /\ run[<< >>] = << >>
        /\ \A s \in Seq(CHARS) : run[s] \in A
        /\ \A s \in Seq(CHARS), ch \in CHARS : run[Append(s, ch)] = step[<<run[s], ch>>]
    <3> HIDE DEF A
    <3> QED BY <2>2, <2>3, OneStepFurther
  <2> QED BY <2>1, <2>4 DEF A
<1>6. << >> \in Texts /\ \A s \in Texts, ch \in CHARS : Append(s, ch) \in Texts
  BY AppendProperties DEF Texts
<1> HIDE DEF step
<1>7. \A s \in Texts : run[s] = Escape(s)
  OBVIOUS
<1> HIDE DEF run
<1>8. Escape(<< >>) = << >> /\ \A s \in Texts : Escape(s) \in Texts
  BY <1>5, <1>6, <1>7
<1>9. ASSUME NEW s \in Texts, NEW ch \in CHARS
      PROVE  Escape(Append(s, ch)) = Escape(s) \o Escaped(ch)
  <2>1. Append(s, ch) \in Texts /\ run[s] = Escape(s)
    BY <1>6, <1>7
  <2>2. run[Append(s, ch)] = Escape(Append(s, ch)) /\ Escape(s) \in Texts
    BY <1>7, <1>8, <2>1
  <2>3. run[Append(s, ch)] = step[<<Escape(s), ch>>]
    BY <1>5, <2>1
  <2> QED BY <1>2, <2>2, <2>3
<1> QED BY <1>8, <1>9

\* What holds of the empty text and, with a text, of it and one more character, holds
\* of every text.
LEMMA TextInduction ==
  ASSUME NEW G, << >> \in G,
         \A s \in Texts, ch \in CHARS : s \in G => Append(s, ch) \in G
  PROVE  \A s \in Texts : s \in G
<1> SUFFICES ASSUME NEW s \in Texts PROVE s \in G
  OBVIOUS
<1> DEFINE P == {n \in 0 .. Len(s) : SubSeq(s, 1, n) \in G}
<1>0. Len(s) \in Nat /\ SubSeq(s, 1, Len(s)) = s
  BY SubSeqFull DEF Texts
<1>1. 0 \in P
  <2>1. SubSeq(s, 1, 0) = << >>
    BY SubSeqEmpty
  <2>2. 0 \in 0 .. Len(s)
    BY <1>0
  <2>3. SubSeq(s, 1, 0) \in G
    BY <2>1, Zenon
  <2> QED BY <2>2, <2>3
<1>2. ASSUME NEW n \in 0 .. Len(s) - 1, n \in P PROVE n + 1 \in P
  <2>1. n + 1 \in 1 .. Len(s) /\ n + 1 \in 0 .. Len(s) /\ (n + 1) - 1 = n /\ n \in Int
    BY <1>0
  <2>2. SubSeq(s, 1, n) \in Texts /\ s[n + 1] \in CHARS
    <3>1. \A i \in 1 .. n : s[i] \in CHARS
      BY <1>0 DEF Texts
    <3> QED BY <2>1, <3>1, SubSeqProperties DEF Texts
  <2>3. SubSeq(s, 1, n + 1) = SubSeq(s, 1, n) \o <<s[n + 1]>>
    <3>1. 1 \in 1 .. Len(s) /\ n + 1 \in 1 .. Len(s)
      BY <1>0, <2>1
    <3> QED BY <2>1, <3>1, SubSeqRecursiveSecond DEF Texts
  <2>4. SubSeq(s, 1, n + 1) = Append(SubSeq(s, 1, n), s[n + 1])
    BY <2>2, <2>3, AppendIsConcat DEF Texts
  <2>5. SubSeq(s, 1, n) \in G
    BY <1>2
  <2> QED BY <2>1, <2>2, <2>4, <2>5
<1>3. \A n \in 0 .. Len(s) : n \in P
  <2> HIDE DEF P
  <2> QED BY <1>0, <1>1, <1>2, UpTo
<1>4. Len(s) \in 0 .. Len(s)
  BY <1>0
<1>5. SubSeq(s, 1, Len(s)) \in G
  BY <1>3, <1>4
<1> QED BY <1>0, <1>5

\* Texts put together, and one with a character more, are texts.
LEMMA TextsJoin ==
  ASSUME NEW a \in Texts, NEW b \in Texts, NEW ch \in CHARS
  PROVE  /\ a \o b \in Texts /\ Append(b, ch) \in Texts /\ << >> \in Texts
         /\ a \o Append(b, ch) = Append(a \o b, ch)
         /\ Append(b, ch) = b \o <<ch>>
         /\ <<ch>> \in Texts
         /\ a \o << >> = a /\ << >> \o a = a
         /\ Len(a) \in Nat /\ Len(Append(b, ch)) = Len(b) + 1 /\ Len(a \o b) = Len(a) + Len(b)
<1>1. a \o b \in Texts /\ Append(b, ch) \in Texts /\ << >> \in Texts /\ <<ch>> \in Texts
  BY AppendProperties, ConcatProperties DEF Texts
<1>2. Append(b, ch) = b \o <<ch>> /\ Append(a \o b, ch) = (a \o b) \o <<ch>>
  BY <1>1, AppendIsConcat DEF Texts
<1>3. (a \o b) \o <<ch>> = a \o (b \o <<ch>>)
  BY <1>1, ConcatAssociative DEF Texts
<1>4. Len(a) \in Nat /\ Len(Append(b, ch)) = Len(b) + 1 /\ Len(a \o b) = Len(a) + Len(b)
  BY AppendProperties, ConcatProperties, LenProperties DEF Texts
<1>5. a \o << >> = a /\ << >> \o a = a
  BY ConcatEmptySeq DEF Texts
<1> HIDE DEF Texts
<1> QED BY <1>1, <1>2, <1>3, <1>4, <1>5

\* The same for a text that is read one character at a time.
LEMMA OneMore ==
  ASSUME NEW a \in Texts, NEW b \in Texts, NEW ch \in CHARS
  PROVE  /\ a \o b \in Texts /\ Append(b, ch) \in Texts
         /\ a \o Append(b, ch) = Append(a \o b, ch)
         /\ Len(b) \in Nat /\ Len(Append(b, ch)) = Len(b) + 1
<1>1. Len(b) \in Nat
  BY DEF Texts
<1>2. a \o b \in Texts /\ Append(b, ch) \in Texts /\ Len(Append(b, ch)) = Len(b) + 1
  BY TextsJoin
<1>3. a \o Append(b, ch) = Append(a \o b, ch)
  BY TextsJoin
<1> QED BY <1>1, <1>2, <1>3

\* Putting texts together is associative.
LEMMA TextsAssociate ==
  ASSUME NEW a \in Texts, NEW b \in Texts, NEW c \in Texts
  PROVE  (a \o b) \o c = a \o (b \o c)
BY ConcatAssociative DEF Texts

-----------------------------------------------------------------------------
(* What a repair writes, and where a scan ends.                            *)

\* Every character read adds at least one to what is written.
Grown(a, z) ==
  \E c \in Texts : Repair(a \o z).out = Repair(a).out \o c /\ Len(c) >= Len(z)

\* One character read is one or more written.
LEMMA RepairStepGrows ==
  ASSUME NEW acc \in Repairings, NEW ch \in CHARS
  PROVE  \E c \in Texts : RepairStep(acc, ch).out = acc.out \o c /\ Len(c) >= 1
<1>1. /\ <<ch>> \in Texts /\ Len(<<ch>>) >= 1
      /\ <<"b", ch>> \in Texts /\ Len(<<"b", ch>>) >= 1
      /\ <<"b", "n">> \in Texts /\ Len(<<"b", "n">>) >= 1
  BY DEF CHARS, Texts
<1>2. acc.out \in Texts
  BY DEF Repairings
<1>3. Append(acc.out, ch) = acc.out \o <<ch>>
  BY <1>2, TextsJoin
<1>4. RepairStep(acc, ch).out \in
        {acc.out \o <<ch>>, acc.out \o <<"b", ch>>, acc.out \o <<"b", "n">>}
  BY <1>3 DEF RepairStep, Repairings
<1> QED BY <1>1, <1>4

\* So a longer text is repaired to one that begins like the repair of the shorter.
LEMMA RepairGrows ==
  ASSUME NEW a \in Texts, NEW z \in Texts
  PROVE  Grown(a, z)
<1> DEFINE G == {s \in Texts : Grown(a, s)}
<1>1. << >> \in G
  <2>1. << >> \in Texts /\ a \o << >> = a /\ Repair(a).out \in Texts /\ Len(<< >>) = 0
    BY RepairRuns, EmptySeq, ConcatEmptySeq DEF Repairings, Texts
  <2>2. Repair(a).out \o << >> = Repair(a).out
    BY <2>1, ConcatEmptySeq DEF Texts
  <2>3. Repair(a \o << >>).out = Repair(a).out \o << >> /\ Len(<< >>) >= Len(<< >>)
    BY <2>1, <2>2
  <2>4. Grown(a, << >>)
    BY <2>1, <2>3 DEF Grown
  <2> QED BY <2>1, <2>4
<1>2. ASSUME NEW s \in Texts, NEW ch \in CHARS, s \in G PROVE Append(s, ch) \in G
  <2>1. PICK c \in Texts : Repair(a \o s).out = Repair(a).out \o c /\ Len(c) >= Len(s)
    BY <1>2 DEF Grown
  <2>2. /\ a \o s \in Texts /\ Append(s, ch) \in Texts /\ Len(s) \in Nat
        /\ a \o Append(s, ch) = Append(a \o s, ch) /\ Len(Append(s, ch)) = Len(s) + 1
    <3> HIDE DEF G
    <3> QED BY OneMore
  <2>3. /\ Repair(a \o s) \in Repairings /\ Repair(a).out \in Texts
        /\ Repair(Append(a \o s, ch)) = RepairStep(Repair(a \o s), ch)
    BY <2>2, RepairRuns DEF Repairings
  <2>4. PICK e \in Texts : /\ RepairStep(Repair(a \o s), ch).out = Repair(a \o s).out \o e
                           /\ Len(e) >= 1
    BY <2>3, RepairStepGrows
  <2>5. /\ c \o e \in Texts /\ Len(c \o e) = Len(c) + Len(e)
        /\ Len(c) \in Nat /\ Len(e) \in Nat
    BY TextsJoin, ConcatProperties DEF Texts
  <2>6. (Repair(a).out \o c) \o e = Repair(a).out \o (c \o e)
    <3>1. Repair(a).out \in Texts /\ c \in Texts /\ e \in Texts
      BY <2>3
    <3> DEFINE u == Repair(a).out
    <3> HIDE DEF u, G
    <3> QED BY <3>1, TextsAssociate, ZenonT(60) DEF u
  <2>7. Repair(a \o Append(s, ch)).out = Repair(a).out \o (c \o e)
    BY <2>1, <2>2, <2>3, <2>4, <2>6
  <2>8. Len(c \o e) >= Len(Append(s, ch))
    BY <2>1, <2>2, <2>4, <2>5
  <2>9. Grown(a, Append(s, ch))
    BY <2>5, <2>7, <2>8 DEF Grown
  <2> QED BY <2>2, <2>9
<1>3. \A s \in Texts : s \in G
  <2> HIDE DEF G
  <2> QED BY <1>1, <1>2, TextInduction
<1> QED BY <1>3

\* A scan that has found its end stays there.
LEMMA ScanStays ==
  ASSUME NEW open \in Openers, NEW a \in Texts, Scan(a, open).done, NEW z \in Texts
  PROVE  Scan(a \o z, open) = Scan(a, open)
<1> DEFINE G == {s \in Texts : Scan(a \o s, open) = Scan(a, open)}
<1>1. << >> \in G
  BY ConcatEmptySeq, EmptySeq DEF Texts
<1>2. ASSUME NEW s \in Texts, NEW ch \in CHARS, s \in G PROVE Append(s, ch) \in G
  <2>1. /\ a \o s \in Texts /\ Append(s, ch) \in Texts
        /\ a \o Append(s, ch) = Append(a \o s, ch)
    <3> HIDE DEF G
    <3> QED BY OneMore
  <2>2. Scan(Append(a \o s, ch), open) = ScanStep(Scan(a \o s, open), ch, open)
    BY <2>1, ScanRunsFrom
  <2>3. Scan(a \o s, open) = Scan(a, open)
    BY <1>2
  <2>4. ScanStep(Scan(a, open), ch, open) = Scan(a, open)
    BY DEF ScanStep
  <2> QED BY <2>1, <2>2, <2>3, <2>4
<1>3. \A s \in Texts : s \in G
  <2> HIDE DEF G
  <2> QED BY <1>1, <1>2, TextInduction
<1> QED BY <1>3

\* So does one from a brace.
LEMMA ScanOn ==
  ASSUME NEW a \in Texts, Scan(a, "o").done, NEW z \in Texts
  PROVE  Scan(a \o z, "o") = Scan(a, "o")
BY BraceOpens, ScanStays

\* It has seen no more characters than there are.
LEMMA ScanWithin ==
  ASSUME NEW a \in Texts
  PROVE  Scan(a, "o").len <= Len(a)
<1> DEFINE G == {s \in Texts : Scan(s, "o").len <= Len(s)}
<1>1. << >> \in G
  BY ScanRuns, EmptySeq DEF Texts, NothingScanned
<1>2. ASSUME NEW s \in Texts, NEW ch \in CHARS, s \in G PROVE Append(s, ch) \in G
  <2>1. Append(s, ch) \in Texts /\ Len(Append(s, ch)) = Len(s) + 1 /\ Len(s) \in Nat
    BY TextsJoin
  <2>2. Scan(Append(s, ch), "o") = ScanStep(Scan(s, "o"), ch, "o") /\ Scan(s, "o") \in Scans
    BY ScanRuns
  <2>3. Scan(s, "o").len <= Len(s) /\ Scan(s, "o").len \in Int
    BY <1>2, <2>2 DEF Scans
  <2>4. ScanStep(Scan(s, "o"), ch, "o").len \in {Scan(s, "o").len, Scan(s, "o").len + 1}
    BY <2>2 DEF ScanStep, Scans
  <2> QED BY <2>1, <2>2, <2>3, <2>4
<1>3. \A s \in Texts : s \in G
  <2> HIDE DEF G
  <2> QED BY <1>1, <1>2, TextInduction
<1> QED BY <1>3

-----------------------------------------------------------------------------
(* JSON.parse of a string in braces, of parts of it and of prose.          *)

\* A set of numbers up to N has a greatest.
LEMMA Greatest ==
  ASSUME NEW N \in Nat, NEW S, S \subseteq 1 .. N, S # {}
  PROVE  \E i \in S : \A j \in S : j <= i
<1> DEFINE T == {N - i : i \in S}
           order == OpToRel(<, Nat)
<1>1. T \subseteq Nat /\ T # {}
  <2>1. \A i \in S : N - i \in Nat
    OBVIOUS
  <2>2. PICK i \in S : TRUE
    OBVIOUS
  <2>3. N - i \in T
    OBVIOUS
  <2> QED BY <2>1, <2>3
<1>2. IsWellFoundedOn(order, Nat)
  BY NatLessThanWellFounded
<1>3. PICK x \in T : \A y \in T : <<y, x>> \notin order
  <2> HIDE DEF T, order
  <2> QED BY <1>1, <1>2, WFMin
<1>4. \A y \in T : ~(y < x)
  <2> SUFFICES ASSUME NEW y \in T, y < x PROVE FALSE
    OBVIOUS
  <2> DEFINE p == <<y, x>>
  <2>1. p \in Nat \X Nat /\ p[1] = y /\ p[2] = x
    <3> HIDE DEF T
    <3> QED BY <1>1
  <2>2. p[1] < p[2]
    <3> HIDE DEF p, T
    <3> QED BY <2>1
  <2>3. p \in order
    <3> HIDE DEF p, T
    <3> QED BY <2>1, <2>2, Zenon DEF OpToRel
  <2> HIDE DEF order, T
  <2> QED BY <1>3, <2>3
<1>5. PICK i \in S : x = N - i
  OBVIOUS
<1>6. \A j \in S : ~(N - j < N - i)
  BY <1>4, <1>5
<1>7. \A j \in S : j \in Int /\ i \in Int
  OBVIOUS
<1> HIDE DEF T
<1> QED BY <1>6, <1>7

\* The braces a text opens are those before its first other character.
LEMMA OpensOf ==
  ASSUME NEW text \in Texts, NEW k \in Nat, k <= Len(text),
         \A i \in 1 .. k : text[i] = "o",
         k < Len(text) => text[k + 1] # "o"
  PROVE  Opens(text) = k
<1> DEFINE ahead == {i \in DOMAIN text : \A j \in 1 .. i : text[j] = "o"}
<1>1. DOMAIN text = 1 .. Len(text) /\ Len(text) \in Nat
  BY DEF Texts
<1>2. ahead = 1 .. k
  <2>1. ASSUME NEW i \in ahead PROVE i \in 1 .. k
    <3>1. i \in 1 .. Len(text) /\ \A j \in 1 .. i : text[j] = "o"
      BY <1>1, <2>1
    <3>2. CASE i > k
      <4>1. k + 1 \in 1 .. i /\ k < Len(text)
        BY <1>1, <3>1, <3>2
      <4> QED BY <3>1, <4>1
    <3> QED BY <3>1, <3>2
  <2>2. ASSUME NEW i \in 1 .. k PROVE i \in ahead
    <3>1. i \in 1 .. Len(text) /\ \A j \in 1 .. i : j \in 1 .. k
      BY <1>1
    <3> QED BY <1>1, <3>1
  <2> HIDE DEF ahead
  <2> QED BY <2>1, <2>2
<1>3. Cardinality(1 .. k) = k
  <2>1. Cardinality(1 .. k) = IF 1 > k THEN 0 ELSE k - 1 + 1
    BY FS_Interval
  <2> QED BY <2>1
<1>4. Opens(text) = Cardinality(ahead)
  BY DEF Opens
<1> QED BY <1>2, <1>3, <1>4

\* What does not begin with a line break is only trimmed at its end.
LEMMA TrimOf ==
  ASSUME NEW text \in Texts, Len(text) >= 1, text[1] # "nl"
  PROVE  \E j \in 1 .. Len(text) : /\ Trim(text) = SubSeq(text, 1, j)
                                   /\ text[Len(text)] # "nl" => j = Len(text)
<1> DEFINE solid == {i \in DOMAIN text : text[i] # "nl"}
           first == CHOOSE i \in solid : \A j \in solid : i <= j
           last == CHOOSE i \in solid : \A j \in solid : j <= i
<1>1. DOMAIN text = 1 .. Len(text) /\ Len(text) \in Nat
  BY DEF Texts
<1>2. 1 \in solid /\ solid \subseteq 1 .. Len(text)
  BY <1>1
<1>3. first = 1
  <2>1. \A i \in solid : 1 <= i /\ i \in Int
    BY <1>2
  <2>2. \A i \in solid : (\A j \in solid : i <= j) => i = 1
    <3> HIDE DEF solid
    <3> QED BY <1>2, <2>1
  <2>3. 1 \in solid /\ \A j \in solid : 1 <= j
    BY <1>2, <2>1
  <2> HIDE DEF solid
  <2> QED BY <2>2, <2>3
<1>4. last \in solid /\ \A j \in solid : j <= last
  <2>1. \E i \in solid : \A j \in solid : j <= i
    <3> HIDE DEF solid
    <3> QED BY <1>1, <1>2, Greatest
  <2> HIDE DEF solid
  <2> QED BY <2>1
<1>5. last \in 1 .. Len(text)
  <2> HIDE DEF last
  <2> QED BY <1>2, <1>4
<1>6. text[Len(text)] # "nl" => last = Len(text)
  <2>1. text[Len(text)] # "nl" => Len(text) \in solid
    BY <1>1
  <2>2. Len(text) \in solid => Len(text) <= last
    <3> HIDE DEF last, solid
    <3> QED BY <1>4
  <2>3. Len(text) <= last => last = Len(text)
    <3> DEFINE n == Len(text)
    <3>1. n \in Nat /\ last \in 1 .. n
      BY <1>1, <1>5
    <3>2. n <= last => last = n
      <4> HIDE DEF last, solid, n
      <4> QED BY <3>1
    <3> HIDE DEF last, solid
    <3> QED BY <3>2
  <2> HIDE DEF last, solid
  <2> QED BY <2>1, <2>2, <2>3
<1>7. Trim(text) = SubSeq(text, first, last)
  <2>1. solid # {}
    BY <1>2
  <2> QED BY <2>1 DEF Trim
<1> HIDE DEF first, last, solid
<1> QED BY <1>3, <1>5, <1>6, <1>7

Shut(text, d) == 2 * d <= Len(text) /\ \A i \in (Len(text) - d + 1) .. Len(text) : text[i] = "c"

Body(text, d) == Unescape(SubSeq(text, d + 2, Len(text) - d - 1))

\* A text that opens d braces and then a quote.
LEMMA ValueOf ==
  ASSUME NEW text \in Texts, NEW d \in {1, 2}, d < Len(text),
         \A i \in 1 .. d : text[i] = "o", text[d + 1] = "q"
  PROVE  JsonValue(text) =
           IF /\ Shut(text, d) /\ Len(text) >= 2 * d + 2 /\ text[Len(text) - d] = "q"
              /\ ~Body(text, d).bad /\ ~Body(text, d).esc
             THEN [ok |-> TRUE, depth |-> d, text |-> Body(text, d).out, str |-> TRUE]
             ELSE NoValue
<1> DEFINE N == Len(text)
           core == SubSeq(text, d + 1, N - d)
           body == SubSeq(core, 2, Len(core) - 1)
           read == Unescape(body)
<1>1. N \in Nat /\ \A i \in 1 .. N : text[i] \in CHARS
  BY DEF Texts
<1>2. Opens(text) = d
  <2>1. d \in Nat /\ d <= Len(text)
    BY <1>1
  <2>2. text[d + 1] # "o"
    OBVIOUS
  <2> HIDE DEF core, body, read, N
  <2> QED BY <2>1, <2>2, OpensOf
<1>3. JsonValue(text) =
        IF d > 0 /\ Shut(text, d) /\ core = <<>>
          THEN [ok |-> TRUE, depth |-> d, text |-> <<>>, str |-> FALSE]
        ELSE IF /\ Shut(text, d) /\ Len(core) >= 2
                /\ core[1] = "q" /\ core[Len(core)] = "q"
                /\ ~read.bad /\ ~read.esc
          THEN [ok |-> TRUE, depth |-> d, text |-> read.out, str |-> TRUE]
        ELSE NoValue
  BY <1>2 DEF JsonValue, Shut
<1>4. Shut(text, d) => N >= 2 * d + 1
  <2> SUFFICES ASSUME Shut(text, d), N = 2 * d PROVE FALSE
    BY <1>1 DEF Shut
  <2>1. d + 1 \in (N - d + 1) .. N
    BY <1>1
  <2> QED BY <2>1 DEF Shut
<1>5. CASE Shut(text, d)
  <2>1. N >= 2 * d + 1 /\ d + 1 <= N - d /\ d + 1 \in Int /\ N - d \in Int
    BY <1>1, <1>4, <1>5
  <2>2. \A i \in d + 1 .. N - d : text[i] \in CHARS
    BY <1>1
  <2>3. /\ core \in Seq(CHARS) /\ Len(core) = N - 2 * d
        /\ \A i \in 1 .. (N - d) - (d + 1) + 1 : core[i] = text[(d + 1) + i - 1]
    <3>1. /\ core \in Seq(CHARS) /\ Len(core) = (N - d) - (d + 1) + 1
          /\ \A i \in 1 .. (N - d) - (d + 1) + 1 : core[i] = text[(d + 1) + i - 1]
      <4> HIDE DEF N, body, read
      <4> QED BY <2>1, <2>2, SubSeqProperties
    <3>2. (N - d) - (d + 1) + 1 = N - 2 * d
      BY <1>1
    <3> HIDE DEF core, N, body, read
    <3> QED BY <3>1, <3>2
  <2>4. core # <<>> /\ core[1] = "q" /\ core[Len(core)] = text[N - d]
    <3>1. 1 \in 1 .. (N - d) - (d + 1) + 1 /\ N - 2 * d \in 1 .. (N - d) - (d + 1) + 1
          /\ (d + 1) + 1 - 1 = d + 1 /\ (d + 1) + (N - 2 * d) - 1 = N - d
      BY <1>1, <2>1
    <3>2. core[1] = text[d + 1] /\ core[N - 2 * d] = text[N - d]
      <4> HIDE DEF core, N, body, read
      <4> QED BY <2>3, <3>1
    <3>3. Len(core) # 0
      <4> HIDE DEF core, body, read
      <4> QED BY <2>1, <2>3
    <3> HIDE DEF body, read, core, N
    <3> QED BY <2>3, <3>2, <3>3
  <2>5. CASE N >= 2 * d + 2
    <3>1. body = SubSeq(text, d + 2, N - d - 1)
      <4>1. /\ d + 1 \in 1 .. Len(text) /\ N - d \in 1 .. Len(text)
            /\ 2 \in 1 .. (N - d) - (d + 1) + 1
            /\ N - 2 * d - 1 \in 1 .. (N - d) - (d + 1) + 1
        BY <1>1, <2>1, <2>5
      <4>2. SubSeq(SubSeq(text, d + 1, N - d), 2, N - 2 * d - 1) =
              SubSeq(text, (d + 1) + 2 - 1, (d + 1) + (N - 2 * d - 1) - 1)
        <5> DEFINE i == d + 1
                   j == N - d
                   n == N - 2 * d - 1
        <5>1. /\ i \in 1 .. Len(text) /\ j \in 1 .. Len(text)
              /\ 2 \in 1 .. j - i + 1 /\ n \in 1 .. j - i + 1
          BY <4>1
        <5>2. SubSeq(SubSeq(text, i, j), 2, n) = SubSeq(text, i + 2 - 1, i + n - 1)
          <6> HIDE DEF core, N, body, read, i, j, n
          <6> QED BY <5>1, SubSeqOfSubSeq DEF Texts
        <5> QED BY <5>2
      <4>3. (d + 1) + 2 - 1 = d + 2 /\ (d + 1) + (N - 2 * d - 1) - 1 = N - d - 1
        BY <1>1
      <4> HIDE DEF N, read
      <4> QED BY <2>3, <4>2, <4>3
    <3>2. read = Body(text, d)
      BY <3>1 DEF Body
    <3>3. Len(core) >= 2
      <4> HIDE DEF core, body, read
      <4> QED BY <1>1, <2>3, <2>5
    <3> HIDE DEF core, body, read
    <3> QED BY <1>3, <1>5, <2>4, <2>5, <3>2, <3>3
  <2>6. CASE ~(N >= 2 * d + 2)
    <3>1. ~(Len(core) >= 2)
      <4> HIDE DEF core, body, read
      <4> QED BY <1>1, <2>3, <2>6
    <3> HIDE DEF core, body, read
    <3> QED BY <1>3, <1>5, <2>4, <2>6, <3>1
  <2> QED BY <2>5, <2>6
<1>6. CASE ~Shut(text, d)
  <2> HIDE DEF core, body, read
  <2> QED BY <1>3, <1>6
<1> QED BY <1>5, <1>6

Opening(d) == IF d = 1 THEN <<"o", "q">> ELSE <<"o", "o", "q">>
Closing(d)  == IF d = 1 THEN <<"q", "c">> ELSE <<"q", "c", "c">>

\* A string in d pairs of braces.
Whole(d, m) == (Opening(d) \o m) \o Closing(d)

\* The characters before and after the string.
LEMMA OpeningAndClosing ==
  ASSUME NEW d \in {1, 2}
  PROVE  /\ Opening(d) \in Texts /\ Len(Opening(d)) = d + 1 /\ Opening(d)[d + 1] = "q"
         /\ \A i \in 1 .. d : Opening(d)[i] = "o"
         /\ Closing(d) \in Texts /\ Len(Closing(d)) = d + 1 /\ Closing(d)[1] = "q"
         /\ \A i \in 2 .. d + 1 : Closing(d)[i] = "c"
<1>1. CASE d = 1
  <2>1. Opening(d) = <<"o", "q">> /\ Closing(d) = <<"q", "c">>
    BY <1>1 DEF Opening, Closing
  <2>2. <<"o", "q">> \in Texts /\ <<"q", "c">> \in Texts
    BY DEF Texts, CHARS
  <2> QED BY <1>1, <2>1, <2>2
<1>2. CASE d = 2
  <2>1. Opening(d) = <<"o", "o", "q">> /\ Closing(d) = <<"q", "c", "c">>
    BY <1>2 DEF Opening, Closing
  <2>2. <<"o", "o", "q">> \in Texts /\ <<"q", "c", "c">> \in Texts
    BY DEF Texts, CHARS
  <2> QED BY <1>2, <2>1, <2>2
<1> QED BY <1>1, <1>2

\* The characters of two texts put together.
LEMMA At ==
  ASSUME NEW a \in Texts, NEW b \in Texts
  PROVE  /\ a \o b \in Texts /\ Len(a \o b) = Len(a) + Len(b)
         /\ Len(a) \in Nat /\ Len(b) \in Nat
         /\ \A i \in 1 .. Len(a) : (a \o b)[i] = a[i]
         /\ \A i \in 1 .. Len(b) : (a \o b)[Len(a) + i] = b[i]
<1>1. /\ a \o b \in Texts /\ Len(a \o b) = Len(a) + Len(b)
      /\ \A i \in 1 .. Len(a) + Len(b) :
           (a \o b)[i] = IF i <= Len(a) THEN a[i] ELSE b[i - Len(a)]
  BY ConcatProperties DEF Texts
<1>2. Len(a) \in Nat /\ Len(b) \in Nat
  BY DEF Texts
<1>3. ASSUME NEW i \in 1 .. Len(b) PROVE (a \o b)[Len(a) + i] = b[i]
  <2> DEFINE k == Len(a) + i
  <2>1. k \in 1 .. Len(a) + Len(b) /\ ~(k <= Len(a)) /\ k - Len(a) = i
    BY <1>2
  <2> HIDE DEF k
  <2>2. (a \o b)[k] = b[k - Len(a)]
    BY <1>1, <2>1
  <2> QED BY <2>1, <2>2 DEF k
<1>4. ASSUME NEW i \in 1 .. Len(a) PROVE (a \o b)[i] = a[i]
  <2>1. i \in 1 .. Len(a) + Len(b) /\ i <= Len(a)
    BY <1>2
  <2> QED BY <1>1, <2>1
<1> QED BY <1>1, <1>2, <1>3, <1>4

\* The characters of a part of a text.
LEMMA PartAt ==
  ASSUME NEW text \in Texts, NEW i \in 1 .. Len(text) + 1, NEW j \in 0 .. Len(text),
         i <= j + 1
  PROVE  /\ SubSeq(text, i, j) \in Texts /\ Len(SubSeq(text, i, j)) = j - i + 1
         /\ \A n \in 1 .. j - i + 1 : SubSeq(text, i, j)[n] = text[i + n - 1]
<1>1. Len(text) \in Nat /\ \A n \in 1 .. Len(text) : text[n] \in CHARS
  BY DEF Texts
<1>2. /\ i \in Int /\ j \in Int /\ \A n \in i .. j : text[n] \in CHARS
      /\ (IF i <= j THEN j - i + 1 ELSE 0) = j - i + 1
  BY <1>1
<1>3. /\ SubSeq(text, i, j) \in Seq(CHARS)
      /\ Len(SubSeq(text, i, j)) = IF i <= j THEN j - i + 1 ELSE 0
      /\ \A n \in 1 .. j - i + 1 : SubSeq(text, i, j)[n] = text[i + n - 1]
  BY <1>2, SubSeqProperties
<1> QED BY <1>2, <1>3 DEF Texts

\* Texts with the same characters are the same.
LEMMA SameText ==
  ASSUME NEW a \in Texts, NEW b \in Texts, Len(a) = Len(b),
         \A i \in 1 .. Len(a) : a[i] = b[i]
  PROVE  a = b
BY SeqEqual DEF Texts

\* Its characters, one by one.
LEMMA WholeAt ==
  ASSUME NEW d \in {1, 2}, NEW m \in Texts
  PROVE  /\ Whole(d, m) \in Texts /\ Len(m) \in Nat
         /\ Len(Whole(d, m)) = 2 * d + 2 + Len(m)
         /\ \A i \in 1 .. d : Whole(d, m)[i] = "o"
         /\ Whole(d, m)[d + 1] = "q"
         /\ \A i \in 1 .. Len(m) : Whole(d, m)[d + 1 + i] = m[i]
         /\ Whole(d, m)[d + 2 + Len(m)] = "q"
         /\ \A i \in (d + 3 + Len(m)) .. Len(Whole(d, m)) : Whole(d, m)[i] = "c"
<1> DEFINE f == Opening(d)
           b == Closing(d)
           fm == f \o m
           w == fm \o b
           k == Len(m)
<1>1. /\ f \in Texts /\ Len(f) = d + 1 /\ f[d + 1] = "q" /\ \A i \in 1 .. d : f[i] = "o"
      /\ b \in Texts /\ Len(b) = d + 1 /\ b[1] = "q" /\ \A i \in 2 .. d + 1 : b[i] = "c"
  BY OpeningAndClosing
<1> HIDE DEF f, b
<1>2. /\ fm \in Texts /\ Len(fm) = d + 1 + k /\ k \in Nat
      /\ \A i \in 1 .. d + 1 : fm[i] = f[i]
      /\ \A i \in 1 .. k : fm[d + 1 + i] = m[i]
  <2>1. /\ f \o m \in Texts /\ Len(f \o m) = Len(f) + Len(m) /\ Len(m) \in Nat
        /\ \A i \in 1 .. Len(f) : (f \o m)[i] = f[i]
        /\ \A i \in 1 .. Len(m) : (f \o m)[Len(f) + i] = m[i]
    BY <1>1, At, ZenonT(60)
  <2> HIDE DEF fm
  <2> QED BY <1>1, <2>1 DEF fm
<1> HIDE DEF fm, k
<1>3. /\ w \in Texts /\ Len(w) = Len(fm) + Len(b)
      /\ \A i \in 1 .. Len(fm) : w[i] = fm[i]
      /\ \A i \in 1 .. Len(b) : w[Len(fm) + i] = b[i]
  <2>1. /\ fm \o b \in Texts /\ Len(fm \o b) = Len(fm) + Len(b)
        /\ \A i \in 1 .. Len(fm) : (fm \o b)[i] = fm[i]
        /\ \A i \in 1 .. Len(b) : (fm \o b)[Len(fm) + i] = b[i]
    <3>1. fm \in Texts /\ b \in Texts
      BY <1>1, <1>2
    <3> HIDE DEF w
    <3> QED BY <3>1, At, Zenon
  <2> QED BY <2>1
<1> HIDE DEF w
<1>4. /\ w \in Texts /\ Len(w) = 2 * d + 2 + k
      /\ \A i \in 1 .. d + 1 + k : w[i] = fm[i]
      /\ \A i \in 1 .. d + 1 : w[d + 1 + k + i] = b[i]
  BY <1>1, <1>2, <1>3
<1>5. ASSUME NEW i \in 1 .. d PROVE w[i] = "o"
  <2>1. i \in 1 .. d + 1 + k /\ i \in 1 .. d + 1
    BY <1>2
  <2> QED BY <1>1, <1>2, <1>4, <2>1
<1>6. w[d + 1] = "q"
  <2>1. d + 1 \in 1 .. d + 1 + k /\ d + 1 \in 1 .. d + 1
    BY <1>2
  <2> QED BY <1>1, <1>2, <1>4, <2>1
<1>7. ASSUME NEW i \in 1 .. k PROVE w[d + 1 + i] = m[i]
  <2> DEFINE j == d + 1 + i
  <2>1. j \in 1 .. d + 1 + k
    BY <1>2
  <2>2. w[j] = fm[j]
    <3> HIDE DEF j
    <3> QED BY <1>4, <2>1
  <2> QED BY <1>2, <2>2
<1>8. w[d + 2 + k] = "q"
  <2>1. 1 \in 1 .. d + 1 /\ d + 1 + k + 1 = d + 2 + k
    BY <1>2
  <2>2. w[d + 1 + k + 1] = b[1]
    BY <1>4, <2>1
  <2> QED BY <1>1, <2>1, <2>2
<1>9. ASSUME NEW i \in (d + 3 + k) .. Len(w) PROVE w[i] = "c"
  <2> DEFINE j == i - (d + 1 + k)
  <2>1. j \in 2 .. d + 1 /\ j \in 1 .. d + 1 /\ d + 1 + k + j = i
    BY <1>2, <1>4
  <2> HIDE DEF j
  <2>2. w[d + 1 + k + j] = b[j]
    BY <1>4, <2>1
  <2> QED BY <1>1, <2>1, <2>2
<1>10. Whole(d, m) = w
  BY DEF Whole, w, fm, f, b
<1> QED BY <1>2, <1>4, <1>5, <1>6, <1>7, <1>8, <1>9, <1>10 DEF k

\* No quote ends the string before its end.
NoQuote(m) ==
  \A n \in 0 .. Len(m) - 1 :
    m[n + 1] = "q" => Unescape(SubSeq(m, 1, n)).bad \/ Unescape(SubSeq(m, 1, n)).esc

Starts(text, whole) == \A i \in 1 .. Len(text) : text[i] = whole[i]

\* A string that is cut off before its braces are closed has no value.
LEMMA PartFails ==
  ASSUME NEW d \in {1, 2}, NEW m \in Texts, NoQuote(m),
         NEW text \in Texts, Len(text) < Len(Whole(d, m)), Starts(text, Whole(d, m))
  PROVE  ~JsonValue(text).ok
<1> DEFINE N == Len(text)
           w == Whole(d, m)
           k == Len(m)
<1>1. /\ w \in Texts /\ k \in Nat /\ Len(w) = 2 * d + 2 + k
      /\ \A i \in 1 .. d : w[i] = "o"
      /\ w[d + 1] = "q"
      /\ \A i \in 1 .. k : w[d + 1 + i] = m[i]
  BY WholeAt, ZenonT(60)
<1>2. N \in Nat /\ N < 2 * d + 2 + k /\ \A i \in 1 .. N : text[i] = w[i] /\ text[i] \in CHARS
  <2>1. N \in Nat /\ \A i \in 1 .. N : text[i] \in CHARS
    BY DEF Texts
  <2>2. N < Len(w) /\ \A i \in 1 .. N : text[i] = w[i]
    BY DEF Starts
  <2> HIDE DEF w, k, N
  <2> QED BY <1>1, <2>1, <2>2
<1>3. ~NoValue.ok
  BY DEF NoValue
<1> HIDE DEF w, k
<1>4. CASE N <= d
  <2>1. \A i \in 1 .. N : text[i] = "o"
    <3> HIDE DEF N
    <3> QED BY <1>1, <1>2, <1>4
  <2>2. Opens(text) = N
    <3>1. N <= Len(text) /\ ~(N < Len(text))
      BY <1>2
    <3> HIDE DEF N
    <3> QED BY <1>2, <2>1, <3>1, OpensOf
  <2>3. CASE N = 0
    <3> DEFINE core == SubSeq(text, N + 1, N - N)
    <3>1. core = << >>
      BY <2>3, SubSeqEmpty
    <3>2. ~(Len(core) >= 2) /\ ~(N > 0)
      BY <2>3, <3>1
    <3> HIDE DEF core
    <3>3. JsonValue(text) = NoValue
      BY <2>2, <3>2 DEF JsonValue, core
    <3> QED BY <1>3, <3>3
  <2>4. CASE N > 0
    <3>1. ~(2 * N <= Len(text))
      BY <1>2, <2>4
    <3>2. JsonValue(text) = NoValue
      BY <2>2, <3>1 DEF JsonValue
    <3> QED BY <1>3, <3>2
  <2> QED BY <1>2, <2>3, <2>4
<1>5. CASE d < N
  <2>1. \A i \in 1 .. d : text[i] = "o"
    <3> HIDE DEF N
    <3> QED BY <1>1, <1>2, <1>5
  <2>2. text[d + 1] = "q"
    <3>1. d + 1 \in 1 .. N
      BY <1>2, <1>5
    <3> QED BY <1>1, <1>2, <3>1
  <2> DEFINE r == N - d
             n == r - d - 2
             body == SubSeq(text, d + 2, N - d - 1)
  <2>3. JsonValue(text) =
           IF /\ Shut(text, d) /\ N >= 2 * d + 2 /\ text[N - d] = "q"
              /\ ~Unescape(body).bad /\ ~Unescape(body).esc
             THEN [ok |-> TRUE, depth |-> d, text |-> Unescape(body).out, str |-> TRUE]
             ELSE NoValue
    BY <1>5, <2>1, <2>2, ValueOf DEF Body
  <2> SUFFICES ASSUME N >= 2 * d + 2, text[r] = "q", ~Unescape(body).bad, ~Unescape(body).esc
               PROVE  FALSE
    <3> HIDE DEF body, N
    <3> QED BY <1>3, <2>3
  <2>4. /\ n \in 0 .. k - 1 /\ n + 1 \in 1 .. k /\ d + 1 + (n + 1) = r /\ r \in 1 .. N
        /\ n \in Int /\ d + 2 \in Int /\ N - d - 1 \in Int
    BY <1>1, <1>2
  <2>5. m[n + 1] = "q"
    <3>1. w[d + 1 + (n + 1)] = m[n + 1]
      <4> HIDE DEF n, r, N, body
      <4> QED BY <1>1, <2>4
    <3> HIDE DEF n, r, body, N
    <3> QED BY <1>2, <2>4, <3>1
  <2>6. body = SubSeq(m, 1, n)
    <3> DEFINE i1 == d + 2
               j1 == N - d - 1
               sub == SubSeq(m, 1, n)
    <3>1. /\ i1 \in 1 .. N + 1 /\ j1 \in 0 .. N /\ i1 <= j1 + 1 /\ j1 - i1 + 1 = n
          /\ 1 \in 1 .. k + 1 /\ n \in 0 .. k /\ 1 <= n + 1 /\ n - 1 + 1 = n
      BY <1>1, <1>2
    <3>2. body \in Texts /\ Len(body) = n /\ \A i \in 1 .. n : body[i] = text[i1 + i - 1]
      <4>1. /\ SubSeq(text, i1, j1) \in Texts /\ Len(SubSeq(text, i1, j1)) = j1 - i1 + 1
            /\ \A i \in 1 .. j1 - i1 + 1 : SubSeq(text, i1, j1)[i] = text[i1 + i - 1]
        <5>1. i1 \in 1 .. Len(text) + 1 /\ j1 \in 0 .. Len(text) /\ i1 <= j1 + 1
          BY <3>1
        <5> HIDE DEF i1, j1, N, body
        <5> QED BY <5>1, PartAt
      <4>2. body = SubSeq(text, i1, j1)
        OBVIOUS
      <4> HIDE DEF body, i1, j1, N, n
      <4> QED BY <3>1, <4>1, <4>2
    <3>3. sub \in Texts /\ Len(sub) = n /\ \A i \in 1 .. n : sub[i] = m[1 + i - 1]
      <4>1. 1 \in 1 .. Len(m) + 1 /\ n \in 0 .. Len(m) /\ 1 <= n + 1
        <5> HIDE DEF n
        <5> QED BY <3>1 DEF k
      <4>2. /\ SubSeq(m, 1, n) \in Texts /\ Len(SubSeq(m, 1, n)) = n - 1 + 1
            /\ \A i \in 1 .. n - 1 + 1 : SubSeq(m, 1, n)[i] = m[1 + i - 1]
        <5> HIDE DEF n
        <5> QED BY <4>1, PartAt
      <4> HIDE DEF n
      <4> QED BY <3>1, <4>2
    <3>4. ASSUME NEW i \in 1 .. n PROVE body[i] = sub[i]
      <4>1. /\ i1 + i - 1 = d + 1 + i /\ 1 + i - 1 = i
            /\ i \in 1 .. k /\ d + 1 + i \in 1 .. N
        <5>1. i1 + i - 1 = d + 1 + i
          OBVIOUS
        <5> HIDE DEF i1, j1, n, r, body, sub
        <5> QED BY <1>1, <1>2, <2>4, <5>1
      <4>2. text[d + 1 + i] = m[i]
        <5> HIDE DEF N, n, r, body, i1
        <5> QED BY <1>1, <1>2, <4>1
      <4> HIDE DEF n, r, N, body, i1, sub
      <4> QED BY <3>2, <3>3, <4>1, <4>2
    <3> HIDE DEF body, n, sub
    <3>5. body = sub
      BY <3>2, <3>3, <3>4, SameText
    <3> QED BY <3>5 DEF sub
  <2>7. Unescape(SubSeq(m, 1, n)).bad \/ Unescape(SubSeq(m, 1, n)).esc
    <3> HIDE DEF n
    <3> QED BY <2>4, <2>5 DEF NoQuote, k
  <2> HIDE DEF body, n
  <2> QED BY <2>6, <2>7
<1> QED BY <1>2, <1>4, <1>5

Meaning(d, read) ==
  IF ~read.bad /\ ~read.esc
    THEN [ok |-> TRUE, depth |-> d, text |-> read.out, str |-> TRUE]
    ELSE NoValue

\* A whole one means what its string does.
LEMMA WholeParses ==
  ASSUME NEW d \in {1, 2}, NEW m \in Texts
  PROVE  Parse(Whole(d, m)) = Meaning(d, Unescape(m))
<1> DEFINE w == Whole(d, m)
           N == Len(w)
           k == Len(m)
           i1 == d + 2
           j1 == N - d - 1
           body == SubSeq(w, i1, j1)
<1>1. /\ w \in Texts /\ k \in Nat /\ N = 2 * d + 2 + k
      /\ \A i \in 1 .. d : w[i] = "o"
      /\ w[d + 1] = "q"
      /\ \A i \in 1 .. k : w[d + 1 + i] = m[i]
      /\ w[d + 2 + k] = "q"
      /\ \A i \in (d + 3 + k) .. N : w[i] = "c"
  BY WholeAt, ZenonT(60)
<1> HIDE DEF w, k
<1>2. Trim(w) = w
  <2>1. N >= 1 /\ 1 \in 1 .. d /\ N \in (d + 3 + k) .. N /\ N \in Nat
    <3> HIDE DEF N
    <3> QED BY <1>1
  <2>2. w[1] = "o" /\ w[N] = "c"
    <3> HIDE DEF N
    <3> QED BY <1>1, <2>1
  <2>3. PICK j \in 1 .. Len(w) : Trim(w) = SubSeq(w, 1, j) /\ (w[Len(w)] # "nl" => j = Len(w))
    BY <1>1, <2>1, <2>2, TrimOf
  <2>4. SubSeq(w, 1, Len(w)) = w
    BY <1>1, SubSeqFull DEF Texts
  <2> QED BY <2>2, <2>3, <2>4
<1>3. JsonValue(w) =
         IF /\ Shut(w, d) /\ N >= 2 * d + 2 /\ w[N - d] = "q"
            /\ ~Unescape(body).bad /\ ~Unescape(body).esc
           THEN [ok |-> TRUE, depth |-> d, text |-> Unescape(body).out, str |-> TRUE]
           ELSE NoValue
  <2>1. d < Len(w)
    BY <1>1
  <2> QED BY <1>1, <2>1, ValueOf DEF Body
<1>4. Shut(w, d) /\ N >= 2 * d + 2 /\ w[N - d] = "q"
  <2>1. /\ 2 * d <= N /\ N >= 2 * d + 2 /\ N - d = d + 2 + k
        /\ N - d + 1 = d + 3 + k
    <3> HIDE DEF N
    <3> QED BY <1>1
  <2>2. 2 * d <= Len(w) /\ \A i \in (Len(w) - d + 1) .. Len(w) : w[i] = "c"
    BY <1>1, <2>1
  <2> HIDE DEF N
  <2> QED BY <1>1, <2>1, <2>2 DEF Shut
<1>5. body = m
  <2>1. i1 \in 1 .. N + 1 /\ j1 \in 0 .. N /\ i1 <= j1 + 1 /\ j1 - i1 + 1 = k
    <3> HIDE DEF N, body
    <3> QED BY <1>1
  <2>2. /\ body \in Texts /\ Len(body) = j1 - i1 + 1
        /\ \A i \in 1 .. j1 - i1 + 1 : body[i] = w[i1 + i - 1]
    <3>1. i1 \in 1 .. Len(w) + 1 /\ j1 \in 0 .. Len(w)
      BY <2>1
    <3> HIDE DEF i1, j1, N
    <3> QED BY <1>1, <2>1, <3>1, PartAt
  <2>3. ASSUME NEW i \in 1 .. k PROVE body[i] = m[i]
    <3>1. i1 + i - 1 = d + 1 + i
      OBVIOUS
    <3> HIDE DEF i1, j1, N, body
    <3> QED BY <1>1, <2>1, <2>2, <3>1
  <2>4. Len(body) = Len(m)
    <3> HIDE DEF body, i1, j1, N
    <3> QED BY <2>1, <2>2 DEF k
  <2> HIDE DEF body, i1, j1, N
  <2> QED BY <2>2, <2>3, <2>4, SameText DEF k
<1> HIDE DEF N, body
<1> QED BY <1>2, <1>3, <1>4, <1>5 DEF Parse, Meaning, w

\* A part of it means nothing.
LEMMA PartParses ==
  ASSUME NEW d \in {1, 2}, NEW m \in Texts, NoQuote(m),
         NEW text \in Texts, Len(text) < Len(Whole(d, m)), Starts(text, Whole(d, m))
  PROVE  ~Parse(text).ok
<1>1. Len(text) \in Nat /\ Len(Whole(d, m)) \in Nat
  BY WholeAt DEF Texts
<1>2. CASE Len(text) = 0
  <2>1. DOMAIN text = {}
    BY <1>2 DEF Texts
  <2>2. Trim(text) = << >>
    BY <2>1 DEF Trim
  <2>3. << >> \in Texts /\ Len(<< >>) = 0
    BY DEF Texts
  <2>4. Len(<< >>) < Len(Whole(d, m)) /\ Starts(<< >>, Whole(d, m))
    BY <1>1, <1>2, <2>3 DEF Starts
  <2>5. ~JsonValue(<< >>).ok
    BY <2>3, <2>4, PartFails
  <2> QED BY <2>2, <2>5 DEF Parse
<1>3. CASE Len(text) >= 1
  <2>1. text[1] = "o"
    <3>1. 1 \in 1 .. d /\ 1 \in 1 .. Len(text)
      BY <1>1, <1>3
    <3>2. \A i \in 1 .. d : Whole(d, m)[i] = "o"
      BY WholeAt
    <3>3. text[1] = Whole(d, m)[1]
      BY <3>1 DEF Starts
    <3> QED BY <3>1, <3>2, <3>3
  <2>2. PICK j \in 1 .. Len(text) : Trim(text) = SubSeq(text, 1, j)
    BY <1>3, <2>1, TrimOf
  <2> DEFINE cut == SubSeq(text, 1, j)
  <2>3. 1 \in 1 .. Len(text) + 1 /\ j \in 0 .. Len(text) /\ 1 <= j + 1 /\ j - 1 + 1 = j
    BY <1>1
  <2>4. cut \in Texts /\ Len(cut) = j /\ \A i \in 1 .. j : cut[i] = text[1 + i - 1]
    <3>1. /\ cut \in Texts /\ Len(cut) = j - 1 + 1
          /\ \A i \in 1 .. j - 1 + 1 : cut[i] = text[1 + i - 1]
      BY <2>3, PartAt
    <3> HIDE DEF cut
    <3> QED BY <2>3, <3>1
  <2> HIDE DEF cut
  <2>5. Len(cut) < Len(Whole(d, m))
    BY <1>1, <2>4
  <2>6. Starts(cut, Whole(d, m))
    <3> SUFFICES ASSUME NEW i \in 1 .. j PROVE cut[i] = Whole(d, m)[i]
      BY <2>4 DEF Starts
    <3>1. 1 + i - 1 = i /\ i \in 1 .. Len(text)
      BY <1>1
    <3> QED BY <2>4, <3>1 DEF Starts
  <2>7. ~JsonValue(cut).ok
    BY <2>4, <2>5, <2>6, PartFails
  <2> QED BY <2>2, <2>7 DEF Parse, cut
<1> QED BY <1>1, <1>2, <1>3

\* Nor does one with prose after it.
LEMMA MoreParses ==
  ASSUME NEW d \in {1, 2}, NEW m \in Texts,
         NEW z \in {<<"x">>, <<"x", "o">>, <<"x", "o", "c">>}
  PROVE  ~Parse(Whole(d, m) \o z).ok
<1> DEFINE w == Whole(d, m)
           text == w \o z
           N == Len(text)
           L == Len(w)
<1>1. /\ w \in Texts /\ L \in Nat /\ d + 1 < L /\ \A i \in 1 .. d : w[i] = "o"
      /\ w[d + 1] = "q"
  <2>1. /\ w \in Texts /\ Len(m) \in Nat /\ L = 2 * d + 2 + Len(m) /\ w[d + 1] = "q"
        /\ \A i \in 1 .. d : w[i] = "o"
    BY WholeAt, ZenonT(60)
  <2> HIDE DEF w, text, L, N
  <2> QED BY <2>1
<1>2. /\ z \in Texts /\ Len(z) \in 1 .. 3 /\ z[1] = "x" /\ (Len(z) > 1 => z[2] = "o")
      /\ (Len(z) = 3 => z[3] = "c")
  <2>1. z \in Texts
    <3>1. <<"x">> \in Texts /\ <<"x", "o">> \in Texts /\ <<"x", "o", "c">> \in Texts
      BY DEF Texts, CHARS
    <3> QED BY <3>1
  <2>2. CASE z = <<"x">>
    BY <2>1, <2>2
  <2>3. CASE z = <<"x", "o">>
    BY <2>1, <2>3
  <2>4. CASE z = <<"x", "o", "c">>
    BY <2>1, <2>4
  <2> QED BY <2>2, <2>3, <2>4
<1>3. /\ text \in Texts /\ N = L + Len(z)
      /\ \A i \in 1 .. L : text[i] = w[i]
      /\ \A i \in 1 .. Len(z) : text[L + i] = z[i]
  <2>1. w \in Texts /\ z \in Texts
    BY <1>1, <1>2
  <2> HIDE DEF w
  <2> QED BY <2>1, At, Zenon
<1> HIDE DEF w, text, L, N
<1>4. \A i \in 1 .. d : text[i] = "o"
  BY <1>1, <1>3
<1>5. text[d + 1] = "q"
  <2>1. d + 1 \in 1 .. L
    BY <1>1
  <2> QED BY <1>1, <1>3, <2>1
<1>6. text[N] \in {"x", "o", "c"} /\ (Len(z) # 3 => text[N] # "c") /\ (Len(z) = 3 => text[N - 1] = "o")
  <2>1. Len(z) \in 1 .. Len(z) /\ N - 1 = L + (Len(z) - 1) /\ (Len(z) = 3 => 2 \in 1 .. Len(z) /\ Len(z) - 1 = 2)
    BY <1>1, <1>2, <1>3
  <2>2. text[N] = z[Len(z)]
    BY <1>3, <2>1
  <2>3. Len(z) = 3 => text[N - 1] = z[2]
    BY <1>3, <2>1
  <2>4. z[Len(z)] \in {"x", "o", "c"} /\ (Len(z) # 3 => z[Len(z)] # "c")
    <3>1. Len(z) = 1 \/ Len(z) = 2 \/ Len(z) = 3
      BY <1>2
    <3> QED BY <1>2, <3>1
  <2> QED BY <1>2, <2>2, <2>3, <2>4
<1>7. Trim(text) = text
  <2>1. Len(text) >= 1 /\ text[1] # "nl" /\ text[Len(text)] # "nl"
    <3>1. 1 \in 1 .. d /\ N >= 1
      BY <1>1, <1>2, <1>3
    <3> QED BY <1>4, <1>6, <3>1 DEF N
  <2>2. PICK j \in 1 .. Len(text) :
          Trim(text) = SubSeq(text, 1, j) /\ (text[Len(text)] # "nl" => j = Len(text))
    BY <1>3, <2>1, TrimOf
  <2>3. SubSeq(text, 1, Len(text)) = text
    BY <1>3, SubSeqFull DEF Texts
  <2> QED BY <2>1, <2>2, <2>3
<1>8. ~(Shut(text, d) /\ text[Len(text) - d] = "q")
  <2> SUFFICES ASSUME Shut(text, d), text[N - d] = "q" PROVE FALSE
    BY DEF N
  <2>1. \A i \in (N - d + 1) .. N : text[i] = "c"
    BY DEF Shut, N
  <2>2. N \in (N - d + 1) .. N /\ N - 1 \in Int /\ (d = 2 => N - 1 \in (N - d + 1) .. N)
    BY <1>1, <1>2, <1>3
  <2>3. Len(z) = 3 /\ text[N - 1] = "o"
    BY <1>6, <2>1, <2>2
  <2>4. d = 1
    BY <2>1, <2>2, <2>3
  <2> QED BY <2>3, <2>4
<1>9. d < Len(text)
  BY <1>1, <1>2, <1>3 DEF N
<1>10. ~JsonValue(text).ok
  BY <1>3, <1>4, <1>5, <1>8, <1>9, ValueOf DEF NoValue
<1> QED BY <1>7, <1>10 DEF Parse, text, w

\* Nor does prose.
LEMMA ProseParses ==
  ASSUME NEW text \in Texts, Len(text) >= 1, text[1] \in {"x", "l"}
  PROVE  ~Parse(text).ok
<1>1. Len(text) \in Nat
  BY DEF Texts
<1>2. PICK j \in 1 .. Len(text) : Trim(text) = SubSeq(text, 1, j)
  BY TrimOf
<1> DEFINE cut == SubSeq(text, 1, j)
<1>3. 1 \in 1 .. Len(text) + 1 /\ j \in 0 .. Len(text) /\ 1 <= j + 1 /\ j - 1 + 1 = j
  BY <1>1
<1>4. cut \in Texts /\ Len(cut) = j /\ \A i \in 1 .. j : cut[i] = text[1 + i - 1]
  <2>1. /\ cut \in Texts /\ Len(cut) = j - 1 + 1
        /\ \A i \in 1 .. j - 1 + 1 : cut[i] = text[1 + i - 1]
    BY <1>3, PartAt
  <2> HIDE DEF cut
  <2> QED BY <1>3, <2>1
<1> HIDE DEF cut
<1>5. cut[1] \in {"x", "l"}
  BY <1>1, <1>4
<1>6. Opens(cut) = 0
  <2>1. 0 \in Nat /\ 0 <= Len(cut) /\ cut[0 + 1] # "o" /\ \A i \in 1 .. 0 : FALSE
    BY <1>4, <1>5
  <2> QED BY <1>4, <2>1, OpensOf
<1>7. SubSeq(cut, 0 + 1, Len(cut) - 0) = cut
  <2>1. SubSeq(cut, 1, Len(cut)) = cut
    BY <1>4, SubSeqFull DEF Texts
  <2>2. 0 + 1 = 1 /\ Len(cut) - 0 = Len(cut)
    BY <1>4
  <2> QED BY <2>1, <2>2
<1>8. JsonValue(cut) = NoValue
  <2>1. ~(0 > 0) /\ cut[1] # "q"
    BY <1>5
  <2> QED BY <1>6, <1>7, <2>1 DEF JsonValue
<1> QED BY <1>2, <1>8 DEF Parse, NoValue, cut

Empty == [ok |-> TRUE, depth |-> 1, text |-> << >>, str |-> FALSE]

\* The braces of a remark are an empty object.
LEMMA BracesParse == Parse(<<"o", "c">>) = Empty
<1> DEFINE text == <<"o", "c">>
<1>1. text \in Texts /\ Len(text) = 2 /\ text[1] = "o" /\ text[2] = "c"
  BY DEF Texts, CHARS
<1> HIDE DEF text
<1>2. Trim(text) = text
  <2>1. PICK j \in 1 .. Len(text) :
          Trim(text) = SubSeq(text, 1, j) /\ (text[Len(text)] # "nl" => j = Len(text))
    BY <1>1, TrimOf
  <2>2. SubSeq(text, 1, Len(text)) = text
    BY <1>1, SubSeqFull DEF Texts
  <2> QED BY <1>1, <2>1, <2>2
<1>3. Opens(text) = 1
  <2>1. 1 \in Nat /\ 1 <= Len(text) /\ text[1 + 1] # "o" /\ \A i \in 1 .. 1 : text[i] = "o"
    BY <1>1
  <2> QED BY <1>1, <2>1, OpensOf
<1>4. SubSeq(text, 1 + 1, Len(text) - 1) = << >>
  BY <1>1, SubSeqEmpty
<1>5. 2 * 1 <= Len(text) /\ \A i \in (Len(text) - 1 + 1) .. Len(text) : text[i] = "c"
  BY <1>1
<1>6. JsonValue(text) = Empty
  BY <1>3, <1>4, <1>5 DEF JsonValue, Empty
<1> QED BY <1>2, <1>6 DEF Parse, text

-----------------------------------------------------------------------------
(* The texts that are tried, and the value that is extracted.              *)

\* The choice of the least is the least.
LEMMA LeastOf ==
  ASSUME NEW good, good \subseteq Nat, NEW k \in good, \A j \in good : k <= j
  PROVE  (CHOOSE i \in good : \A j \in good : i <= j) = k
<1>1. \A i \in good : (\A j \in good : i <= j) => i = k
  <2> SUFFICES ASSUME NEW i \in good, \A j \in good : i <= j PROVE i = k
    OBVIOUS
  <2>1. i <= k /\ k <= i /\ i \in Nat /\ k \in Nat
    OBVIOUS
  <2> QED BY <2>1
<1> QED BY <1>1

\* So the first text that parses is the one chosen.
LEMMA FirstOf ==
  ASSUME NEW texts, NEW N \in Nat, DOMAIN texts = 1 .. N, NEW k \in 1 .. N,
         Parse(texts[k]).ok, \A j \in 1 .. k - 1 : ~Parse(texts[j]).ok
  PROVE  LET good == {i \in DOMAIN texts : Parse(texts[i]).ok}
         IN  good # {} /\ (CHOOSE i \in good : \A j \in good : i <= j) = k
<1> DEFINE good == {i \in DOMAIN texts : Parse(texts[i]).ok}
<1>1. k \in good /\ good \subseteq Nat
  OBVIOUS
<1>2. ASSUME NEW j \in good PROVE k <= j
  <2>1. j \in 1 .. N /\ Parse(texts[j]).ok
    OBVIOUS
  <2>2. j \notin 1 .. k - 1
    BY <2>1
  <2> HIDE DEF good
  <2> QED BY <2>1, <2>2
<1> HIDE DEF good
<1>3. (CHOOSE i \in good : \A j \in good : i <= j) = k
  BY <1>1, <1>2, LeastOf
<1>4. good # {}
  BY <1>1
<1> QED BY <1>3, <1>4 DEF good

\* The texts that are tried, in their order.
LEMMA LenientOf ==
  ASSUME NEW raw
  PROVE  LET b == RepairJsonStringLiterals(raw)
             e == ExtractJsonValue(raw)
             r == RepairJsonStringLiterals(e)
         IN  ParseJsonLeniently(raw) =
               IF Parse(raw).ok THEN Parse(raw)
               ELSE IF Parse(b).ok THEN Parse(b)
               ELSE IF e \in {<<>>, raw} THEN NoValue
               ELSE IF Parse(e).ok THEN Parse(e)
               ELSE IF Parse(r).ok THEN Parse(r)
               ELSE NoValue
<1> DEFINE b == RepairJsonStringLiterals(raw)
           e == ExtractJsonValue(raw)
           r == RepairJsonStringLiterals(e)
           texts == <<raw, b>> \o (IF e \notin {<<>>, raw} THEN <<e, r>> ELSE <<>>)
           good == {i \in DOMAIN texts : Parse(texts[i]).ok}
           least == CHOOSE i \in good : \A j \in good : i <= j
<1>0. SUFFICES ParseJsonLeniently(raw) =
                 IF Parse(raw).ok THEN Parse(raw)
                 ELSE IF Parse(b).ok THEN Parse(b)
                 ELSE IF e \in {<<>>, raw} THEN NoValue
                 ELSE IF Parse(e).ok THEN Parse(e)
                 ELSE IF Parse(r).ok THEN Parse(r)
                 ELSE NoValue
  OBVIOUS
<1>1. ParseJsonLeniently(raw) = IF good = {} THEN NoValue ELSE Parse(texts[least])
  BY DEF ParseJsonLeniently
<1>2. CASE e \in {<<>>, raw}
  <2>1. texts = <<raw, b>>
    <3> HIDE DEF e, b, r
    <3> QED BY <1>2
  <2>2. DOMAIN texts = 1 .. 2 /\ texts[1] = raw /\ texts[2] = b
    <3> HIDE DEF e, b, r, texts
    <3> QED BY <2>1
  <2>3. \A k \in 1 .. 2 :
          Parse(texts[k]).ok /\ (\A j \in 1 .. k - 1 : ~Parse(texts[j]).ok)
            => good # {} /\ least = k
    <3> HIDE DEF e, b, r, texts
    <3> QED BY <2>2, FirstOf
  <2>4. (\A k \in 1 .. 2 : ~Parse(texts[k]).ok) => good = {}
    <3> HIDE DEF e, b, r, texts
    <3> QED BY <2>2
  <2>5. \A k \in 1 .. 2 : k = 1 \/ k = 2
    OBVIOUS
  <2>6. (\A j \in 1 .. 1 - 1 : FALSE) /\ (\A j \in 1 .. 2 - 1 : j = 1)
    OBVIOUS
  <2> HIDE DEF e, b, r, texts, good, least
  <2>7. CASE Parse(raw).ok
    <3>1. good # {} /\ least = 1
      BY <2>2, <2>3, <2>6, <2>7
    <3> QED BY <1>1, <2>2, <2>7, <3>1
  <2>8. CASE ~Parse(raw).ok /\ Parse(b).ok
    <3>1. good # {} /\ least = 2
      BY <2>2, <2>3, <2>6, <2>8
    <3> QED BY <1>1, <2>2, <2>8, <3>1
  <2>9. CASE ~Parse(raw).ok /\ ~Parse(b).ok
    <3>1. good = {}
      BY <2>2, <2>4, <2>5, <2>9
    <3> QED BY <1>1, <1>2, <2>9, <3>1
  <2> QED BY <2>7, <2>8, <2>9
<1>3. CASE e \notin {<<>>, raw}
  <2>1. texts = <<raw, b>> \o <<e, r>>
    <3> HIDE DEF e, b, r
    <3> QED BY <1>3
  <2>2. /\ DOMAIN texts = 1 .. 4 /\ texts[1] = raw /\ texts[2] = b /\ texts[3] = e
        /\ texts[4] = r
    <3> DEFINE S == {raw, b, e, r}
               p == <<raw, b>>
               q == <<e, r>>
    <3> HIDE DEF e, b, r, texts
    <3>1. /\ p \in Seq(S) /\ q \in Seq(S) /\ Len(p) = 2 /\ Len(q) = 2
          /\ p[1] = raw /\ p[2] = b /\ q[1] = e /\ q[2] = r
      OBVIOUS
    <3> HIDE DEF p, q, S
    <3>2. /\ p \o q \in Seq(S) /\ Len(p \o q) = Len(p) + Len(q)
          /\ \A i \in 1 .. Len(p) + Len(q) :
               (p \o q)[i] = IF i <= Len(p) THEN p[i] ELSE q[i - Len(p)]
      BY <3>1, ConcatProperties
    <3>3. texts = p \o q
      BY <2>1 DEF p, q
    <3>4. DOMAIN texts = 1 .. Len(texts)
      BY <3>2, <3>3
    <3> QED BY <3>1, <3>2, <3>3, <3>4
  <2>3. \A k \in 1 .. 4 :
          Parse(texts[k]).ok /\ (\A j \in 1 .. k - 1 : ~Parse(texts[j]).ok)
            => good # {} /\ least = k
    <3> HIDE DEF e, b, r, texts
    <3> QED BY <2>2, FirstOf
  <2>4. (\A k \in 1 .. 4 : ~Parse(texts[k]).ok) => good = {}
    <3> HIDE DEF e, b, r, texts
    <3> QED BY <2>2
  <2>5. \A k \in 1 .. 4 : k = 1 \/ k = 2 \/ k = 3 \/ k = 4
    OBVIOUS
  <2>6. /\ \A j \in 1 .. 1 - 1 : FALSE
        /\ \A j \in 1 .. 2 - 1 : j = 1
        /\ \A j \in 1 .. 3 - 1 : j = 1 \/ j = 2
        /\ \A j \in 1 .. 4 - 1 : j = 1 \/ j = 2 \/ j = 3
    OBVIOUS
  <2> HIDE DEF e, b, r, texts, good, least
  <2>7. CASE Parse(raw).ok
    <3>1. good # {} /\ least = 1
      BY <2>2, <2>3, <2>6, <2>7
    <3> QED BY <1>1, <2>2, <2>7, <3>1
  <2>8. CASE ~Parse(raw).ok /\ Parse(b).ok
    <3>1. good # {} /\ least = 2
      BY <2>2, <2>3, <2>6, <2>8
    <3> QED BY <1>1, <2>2, <2>8, <3>1
  <2>9. CASE ~Parse(raw).ok /\ ~Parse(b).ok /\ Parse(e).ok
    <3>1. good # {} /\ least = 3
      BY <2>2, <2>3, <2>6, <2>9
    <3> QED BY <1>1, <1>3, <2>2, <2>9, <3>1
  <2>10. CASE ~Parse(raw).ok /\ ~Parse(b).ok /\ ~Parse(e).ok /\ Parse(r).ok
    <3>1. good # {} /\ least = 4
      BY <2>2, <2>3, <2>6, <2>10
    <3> QED BY <1>1, <1>3, <2>2, <2>10, <3>1
  <2>11. CASE ~Parse(raw).ok /\ ~Parse(b).ok /\ ~Parse(e).ok /\ ~Parse(r).ok
    <3>1. good = {}
      BY <2>2, <2>4, <2>5, <2>11
    <3> QED BY <1>1, <1>3, <2>11, <3>1
  <2> QED BY <2>7, <2>8, <2>9, <2>10, <2>11
<1> QED BY <1>2, <1>3

\* Without a brace or bracket nothing is found; the scan begins at the first one.
LEMMA NothingToExtract ==
  ASSUME NEW raw \in Texts, \A i \in 1 .. Len(raw) : raw[i] \notin Openers
  PROVE  ExtractJsonValue(raw) = << >>
<1>1. {i \in DOMAIN raw : raw[i] \in {"o", "l"}} = {}
  BY DEF Texts, Openers
<1> QED BY <1>1 DEF ExtractJsonValue

\* Text without a brace or bracket before the value is skipped.
LEMMA ExtractedAfter ==
  ASSUME NEW a \in Texts, NEW y \in Texts, \A i \in 1 .. Len(a) : a[i] \notin Openers,
         NEW open \in Openers, Len(y) >= 1, y[1] = open
  PROVE  ExtractJsonValue(a \o y) =
           IF Scan(y, open).done THEN SubSeq(y, 1, Scan(y, open).len) ELSE << >>
<1> DEFINE raw == a \o y
           starts == {i \in DOMAIN raw : raw[i] \in {"o", "l"}}
           start == CHOOSE i \in starts : \A j \in starts : i <= j
           k == Len(a) + 1
           N == Len(raw)
           rest == SubSeq(raw, k, N)
<1>1. /\ raw \in Texts /\ N = Len(a) + Len(y) /\ Len(a) \in Nat /\ Len(y) \in Nat
      /\ \A i \in 1 .. Len(a) : raw[i] = a[i]
      /\ \A i \in 1 .. Len(y) : raw[Len(a) + i] = y[i]
  BY At, Zenon
<1>2. DOMAIN raw = 1 .. N
  <2> HIDE DEF raw
  <2> QED BY <1>1 DEF Texts, N
<1> HIDE DEF raw
<1>3. starts \subseteq Nat /\ k \in starts /\ raw[k] = open
  <2>1. 1 \in 1 .. Len(y) /\ k \in 1 .. N
    <3> HIDE DEF N
    <3> QED BY <1>1
  <2>2. raw[k] = open /\ raw[k] \in {"o", "l"}
    BY <1>1, <2>1 DEF Openers
  <2>3. 1 .. N \subseteq Nat
    OBVIOUS
  <2> HIDE DEF k, N
  <2> QED BY <1>2, <2>1, <2>2, <2>3
<1>4. ASSUME NEW j \in starts PROVE k <= j
  <2>1. j \in 1 .. N /\ raw[j] \in {"o", "l"}
    BY <1>2
  <2>2. CASE j <= Len(a)
    <3>1. j \in 1 .. Len(a)
      <4> HIDE DEF N
      <4> QED BY <1>1, <2>1, <2>2
    <3> QED BY <1>1, <2>1, <3>1 DEF Openers
  <2>3. CASE ~(j <= Len(a))
    <3> HIDE DEF N, starts
    <3> QED BY <1>1, <2>1, <2>3
  <2> QED BY <2>2, <2>3
<1>5. start = k /\ starts # {}
  <2> HIDE DEF starts, k
  <2> QED BY <1>3, <1>4, LeastOf
<1>6. rest = y
  <2>1. k \in 1 .. Len(raw) + 1 /\ N \in 0 .. Len(raw) /\ k <= N + 1 /\ N - k + 1 = Len(y)
    <3>1. N \in Nat /\ N = Len(raw)
      BY <1>1
    <3> HIDE DEF N
    <3> QED BY <1>1, <3>1
  <2>2. /\ rest \in Texts /\ Len(rest) = N - k + 1
        /\ \A i \in 1 .. N - k + 1 : rest[i] = raw[k + i - 1]
    <3> HIDE DEF k, N
    <3> QED BY <1>1, <2>1, PartAt
  <2>3. ASSUME NEW i \in 1 .. Len(y) PROVE rest[i] = y[i]
    <3>1. k + i - 1 = Len(a) + i
      BY <1>1
    <3> HIDE DEF rest, k, N
    <3> QED BY <1>1, <2>1, <2>2, <3>1
  <2> HIDE DEF rest, k, N
  <2> QED BY <2>1, <2>2, <2>3, SameText
<1>7. ExtractJsonValue(raw) =
        IF starts = {} THEN << >>
        ELSE IF Scan(SubSeq(raw, start, Len(raw)), raw[start]).done
               THEN SubSeq(SubSeq(raw, start, Len(raw)), 1, Scan(SubSeq(raw, start, Len(raw)), raw[start]).len)
               ELSE << >>
  BY DEF ExtractJsonValue
<1>8. SubSeq(raw, start, Len(raw)) = y /\ raw[start] = open
  BY <1>3, <1>5, <1>6
<1> HIDE DEF starts, start, rest, k, N
<1> QED BY <1>5, <1>7, <1>8 DEF raw

\* What is left of two texts that are cut off together.
LEMMA CutOf ==
  ASSUME NEW a \in Texts, NEW b \in Texts, NEW n \in 0 .. Len(a \o b)
  PROVE  \/ n < Len(a) /\ SubSeq(a \o b, 1, n) = SubSeq(a, 1, n)
         \/ /\ n >= Len(a) /\ n - Len(a) \in 0 .. Len(b)
            /\ SubSeq(a \o b, 1, n) = a \o SubSeq(b, 1, n - Len(a))
<1> DEFINE w == a \o b
           cut == SubSeq(w, 1, n)
<1>1. /\ w \in Texts /\ Len(w) = Len(a) + Len(b) /\ Len(a) \in Nat /\ Len(b) \in Nat
      /\ \A i \in 1 .. Len(a) : w[i] = a[i]
      /\ \A i \in 1 .. Len(b) : w[Len(a) + i] = b[i]
  BY At, Zenon
<1> HIDE DEF w
<1>2. /\ cut \in Texts /\ Len(cut) = n /\ \A i \in 1 .. n : cut[i] = w[i]
  <2>1. 1 \in 1 .. Len(w) + 1 /\ n \in 0 .. Len(w) /\ 1 <= n + 1 /\ n - 1 + 1 = n
    BY <1>1 DEF w
  <2>2. /\ cut \in Texts /\ Len(cut) = n - 1 + 1
        /\ \A i \in 1 .. n - 1 + 1 : cut[i] = w[1 + i - 1]
    BY <1>1, <2>1, PartAt
  <2>3. \A i \in 1 .. n : 1 + i - 1 = i
    OBVIOUS
  <2> HIDE DEF cut
  <2> QED BY <2>1, <2>2, <2>3
<1> HIDE DEF cut
<1>3. n \in Nat
  BY <1>1 DEF w
<1>4. CASE n < Len(a)
  <2> DEFINE sub == SubSeq(a, 1, n)
  <2>1. 1 \in 1 .. Len(a) + 1 /\ n \in 0 .. Len(a) /\ 1 <= n + 1 /\ n - 1 + 1 = n
    BY <1>1, <1>3, <1>4
  <2>2. /\ sub \in Texts /\ Len(sub) = n - 1 + 1
        /\ \A i \in 1 .. n - 1 + 1 : sub[i] = a[1 + i - 1]
    BY <2>1, PartAt
  <2> HIDE DEF sub
  <2>3. ASSUME NEW i \in 1 .. n PROVE cut[i] = sub[i]
    <3>1. 1 + i - 1 = i /\ i \in 1 .. Len(a)
      BY <1>1, <1>3, <1>4
    <3> QED BY <1>1, <1>2, <2>1, <2>2, <3>1
  <2>4. cut = sub
    BY <1>2, <2>1, <2>2, <2>3, SameText
  <2> QED BY <1>4, <2>4 DEF cut, sub, w
<1>5. CASE n >= Len(a)
  <2> DEFINE k == n - Len(a)
             sub == SubSeq(b, 1, k)
             j == a \o sub
  <2>1. /\ k \in 0 .. Len(b) /\ 1 \in 1 .. Len(b) + 1 /\ 1 <= k + 1 /\ k - 1 + 1 = k
        /\ n = Len(a) + k
    <3>1. n <= Len(a) + Len(b)
      BY <1>1 DEF w
    <3> QED BY <1>1, <1>3, <1>5, <3>1
  <2> HIDE DEF k
  <2>2. /\ sub \in Texts /\ Len(sub) = k - 1 + 1
        /\ \A i \in 1 .. k - 1 + 1 : sub[i] = b[1 + i - 1]
    BY <2>1, PartAt
  <2> HIDE DEF sub
  <2>3. /\ j \in Texts /\ Len(j) = Len(a) + Len(sub)
        /\ \A i \in 1 .. Len(a) : j[i] = a[i]
        /\ \A i \in 1 .. Len(sub) : j[Len(a) + i] = sub[i]
    <3> HIDE DEF j
    <3>1. sub \in Texts
      BY <2>2
    <3> QED BY <3>1, At, Zenon DEF j
  <2> HIDE DEF j
  <2>4. ASSUME NEW i \in 1 .. n PROVE cut[i] = j[i]
    <3>1. CASE i <= Len(a)
      <4>1. i \in 1 .. Len(a)
        BY <1>1, <3>1
      <4> QED BY <1>1, <1>2, <2>3, <4>1
    <3>2. CASE ~(i <= Len(a))
      <4> DEFINE l == i - Len(a)
      <4>1. l \in 1 .. k /\ i = Len(a) + l /\ 1 + l - 1 = l /\ l \in 1 .. Len(b)
        BY <1>1, <2>1, <3>2
      <4> HIDE DEF l
      <4>2. l \in 1 .. Len(sub) /\ l \in 1 .. k - 1 + 1
        BY <2>1, <2>2, <4>1
      <4>3. cut[i] = w[i]
        BY <1>2
      <4>4. w[i] = b[l]
        BY <1>1, <4>1
      <4>5. j[i] = sub[l]
        BY <2>3, <4>1, <4>2
      <4>6. sub[l] = b[l]
        BY <2>2, <4>1, <4>2
      <4> QED BY <4>3, <4>4, <4>5, <4>6
    <3> QED BY <3>1, <3>2
  <2>5. cut = j
    <3>1. Len(cut) = Len(j)
      BY <1>2, <2>1, <2>2, <2>3
    <3> QED BY <1>2, <2>3, <2>4, <3>1, SameText
  <2> QED BY <1>5, <2>1, <2>5 DEF cut, sub, w, k, j
<1> QED BY <1>1, <1>3, <1>4, <1>5

-----------------------------------------------------------------------------
(* An answer as it is wrapped and cut off: it is read as what its text     *)
(* means, or not at all.                                                   *)

\* The repair of a whole string writes a whole string, and the scan ends with it.
Closed(d, w, m) ==
  /\ Repair(Whole(d, w)) = [out |-> Whole(d, m), in |-> FALSE, esc |-> FALSE]
  /\ Scan(Whole(d, w), "o").done /\ Scan(Whole(d, w), "o").len = Len(Whole(d, w))
  /\ NoQuote(w) /\ NoQuote(m)

\* What it is read as: itself or its repair.
ReadAs(d, w, m) ==
  IF Meaning(d, Unescape(w)).ok THEN Meaning(d, Unescape(w)) ELSE Meaning(d, Unescape(m))

\* A meaning is a value or nothing, by its ok.
LEMMA MeaningOrNone ==
  ASSUME NEW d, NEW read
  PROVE  IF Meaning(d, read).ok
           THEN Meaning(d, read) = [ok |-> TRUE, depth |-> d, text |-> read.out, str |-> TRUE]
           ELSE Meaning(d, read) = NoValue
BY DEF Meaning, NoValue

\* A whole string begins with a brace.
LEMMA WholeBegins ==
  ASSUME NEW d \in {1, 2}, NEW m \in Texts
  PROVE  /\ Whole(d, m) \in Texts /\ Len(Whole(d, m)) \in Nat /\ Len(Whole(d, m)) >= 2
         /\ Whole(d, m)[1] = "o"
<1>1. /\ Whole(d, m) \in Texts /\ Len(m) \in Nat /\ Len(Whole(d, m)) = 2 * d + 2 + Len(m)
      /\ \A i \in 1 .. d : Whole(d, m)[i] = "o"
  BY WholeAt
<1>2. 1 \in 1 .. d
  OBVIOUS
<1> QED BY <1>1, <1>2

\* The scan finds no end in a part of it.
LEMMA PartScans ==
  ASSUME NEW d \in {1, 2}, NEW w \in Texts, NEW m \in Texts, Closed(d, w, m),
         NEW p \in Texts, NEW z \in Texts, p \o z = Whole(d, w), Len(p) < Len(Whole(d, w))
  PROVE  ~Scan(p, "o").done
<1> SUFFICES ASSUME Scan(p, "o").done PROVE FALSE
  OBVIOUS
<1>1. Scan(Whole(d, w), "o") = Scan(p, "o")
  BY ScanOn
<1>2. Scan(p, "o").len <= Len(p) /\ Scan(p, "o") \in Scans
  BY ScanWithin, ScanRuns
<1>3. Len(p) \in Nat /\ Len(Whole(d, w)) \in Nat /\ Scan(p, "o").len \in Int
  BY <1>2, WholeAt DEF Texts, Scans
<1> QED BY <1>1, <1>2, <1>3 DEF Closed

\* A part of it, alone, is not read.
LEMMA PartLenient ==
  ASSUME NEW d \in {1, 2}, NEW w \in Texts, NEW m \in Texts, Closed(d, w, m),
         NEW p \in Texts, NEW z \in Texts, p \o z = Whole(d, w), Len(p) < Len(Whole(d, w)),
         Len(p) >= 1
  PROVE  ParseJsonLeniently(p) = NoValue /\ p[1] = "o"
<1> DEFINE r == RepairJsonStringLiterals(p)
<1>1. Whole(d, w) \in Texts /\ Whole(d, m) \in Texts /\ \A i \in 1 .. d : Whole(d, w)[i] = "o"
  <2>1. Whole(d, w) \in Texts
    BY WholeBegins
  <2>2. Whole(d, m) \in Texts
    BY WholeBegins
  <2>3. \A i \in 1 .. d : Whole(d, w)[i] = "o"
    BY WholeAt, ZenonT(60)
  <2> QED BY <2>1, <2>2, <2>3
<1>2. /\ Len(p) \in Nat /\ Len(z) \in Nat /\ Len(Whole(d, w)) = Len(p) + Len(z)
      /\ \A i \in 1 .. Len(p) : Whole(d, w)[i] = p[i]
  <2>1. /\ Len(p \o z) = Len(p) + Len(z) /\ Len(p) \in Nat /\ Len(z) \in Nat
        /\ \A i \in 1 .. Len(p) : (p \o z)[i] = p[i]
    BY At, Zenon
  <2> QED BY <2>1
<1>3. ~Parse(p).ok
  <2>1. NoQuote(w) /\ Starts(p, Whole(d, w))
    BY <1>2 DEF Closed, Starts
  <2> QED BY <2>1, PartParses
<1>4. ~Parse(r).ok
  <2>1. PICK c \in Texts : Whole(d, m) = r \o c /\ Len(c) >= Len(z)
    <3>1. Grown(p, z)
      BY RepairGrows
    <3>2. Repair(p \o z).out = Whole(d, m)
      BY DEF Closed
    <3> QED BY <3>1, <3>2 DEF Grown, RepairJsonStringLiterals
  <2>2. r \in Texts
    BY RepairRuns DEF RepairJsonStringLiterals, Repairings
  <2> HIDE DEF r
  <2>3. /\ Len(r \o c) = Len(r) + Len(c) /\ Len(r) \in Nat /\ Len(c) \in Nat
        /\ \A i \in 1 .. Len(r) : (r \o c)[i] = r[i]
    BY <2>2, At, Zenon
  <2>4. Len(r) < Len(Whole(d, m))
    BY <1>2, <2>1, <2>3
  <2>5. Starts(r, Whole(d, m)) /\ NoQuote(m)
    BY <2>1, <2>3 DEF Starts, Closed
  <2> QED BY <2>2, <2>4, <2>5, PartParses
<1>5. p[1] = "o"
  <2>1. 1 \in 1 .. d /\ 1 \in 1 .. Len(p)
    BY <1>2
  <2> QED BY <1>1, <1>2, <2>1
<1>6. ExtractJsonValue(p) = << >>
  <2>1. << >> \in Texts /\ << >> \o p = p /\ \A i \in 1 .. Len(<< >>) : FALSE
    BY ConcatEmptySeq DEF Texts
  <2>2. ExtractJsonValue(<< >> \o p) =
          IF Scan(p, "o").done THEN SubSeq(p, 1, Scan(p, "o").len) ELSE << >>
    BY <1>5, <2>1, ExtractedAfter, BraceOpens
  <2>3. ~Scan(p, "o").done
    BY PartScans
  <2> QED BY <2>1, <2>2, <2>3
<1> QED BY <1>3, <1>4, <1>5, <1>6, LenientOf

\* A whole one, or one with more after it, is found by the scan.
LEMMA WholeScans ==
  ASSUME NEW d \in {1, 2}, NEW w \in Texts, NEW m \in Texts, Closed(d, w, m), NEW z \in Texts
  PROVE  LET y == Whole(d, w) \o z
         IN  /\ Scan(y, "o").done /\ SubSeq(y, 1, Scan(y, "o").len) = Whole(d, w)
             /\ y \in Texts /\ Len(y) >= 1 /\ y[1] = "o"
<1> DEFINE P == Whole(d, w)
           y == P \o z
<1>1. P \in Texts /\ P[1] = "o" /\ Len(P) \in Nat /\ Len(P) >= 1
  BY WholeBegins
<1>2. Scan(P, "o").done /\ Scan(P, "o").len = Len(P)
  BY DEF Closed
<1> HIDE DEF P
<1>3. Scan(y, "o") = Scan(P, "o")
  BY <1>1, <1>2, ScanOn
<1>4. /\ y \in Texts /\ Len(y) = Len(P) + Len(z) /\ Len(z) \in Nat
      /\ \A i \in 1 .. Len(P) : y[i] = P[i]
  BY <1>1, At, Zenon
<1>5. y[1] = "o"
  <2>1. 1 \in 1 .. Len(P)
    BY <1>1
  <2> QED BY <1>1, <1>4, <2>1
<1>6. SubSeq(y, 1, Len(P)) = P
  <2>1. Len(P) \in 0 .. Len(P \o z) /\ ~(Len(P) < Len(P)) /\ Len(P) - Len(P) = 0
    BY <1>1, <1>4
  <2>2. SubSeq(P \o z, 1, Len(P)) = P \o SubSeq(z, 1, Len(P) - Len(P))
    BY <1>1, <2>1, CutOf, Zenon
  <2>3. SubSeq(z, 1, 0) = << >> /\ P \o << >> = P
    BY <1>1, SubSeqEmpty, ConcatEmptySeq DEF Texts
  <2> QED BY <2>1, <2>2, <2>3
<1>7. Len(y) >= 1
  BY <1>1, <1>4
<1> QED BY <1>2, <1>3, <1>4, <1>5, <1>6, <1>7 DEF P

\* A whole one is read as itself or its repair.
LEMMA WholeLenient ==
  ASSUME NEW d \in {1, 2}, NEW w \in Texts, NEW m \in Texts, Closed(d, w, m)
  PROVE  ParseJsonLeniently(Whole(d, w)) = ReadAs(d, w, m)
<1> DEFINE P == Whole(d, w)
           r == RepairJsonStringLiterals(P)
           e == ExtractJsonValue(P)
<1>1. Parse(P) = Meaning(d, Unescape(w)) /\ Parse(r) = Meaning(d, Unescape(m))
  <2>1. r = Whole(d, m)
    BY DEF Closed, RepairJsonStringLiterals
  <2> QED BY <2>1, WholeParses
<1>2. e = P
  <2>1. << >> \in Texts /\ P \o << >> = P /\ << >> \o P = P /\ \A i \in 1 .. Len(<< >>) : FALSE
    BY WholeAt, ConcatEmptySeq DEF Texts
  <2>2. LET y == P \o << >>
        IN  /\ Scan(y, "o").done /\ SubSeq(y, 1, Scan(y, "o").len) = P
            /\ y \in Texts /\ Len(y) >= 1 /\ y[1] = "o"
    BY <2>1, WholeScans
  <2>3. /\ Scan(P, "o").done /\ SubSeq(P, 1, Scan(P, "o").len) = P
        /\ P \in Texts /\ Len(P) >= 1 /\ P[1] = "o"
    BY <2>1, <2>2
  <2> HIDE DEF P
  <2>4. ExtractJsonValue(<< >> \o P) =
          IF Scan(P, "o").done THEN SubSeq(P, 1, Scan(P, "o").len) ELSE << >>
    BY <2>1, <2>3, ExtractedAfter, BraceOpens
  <2> QED BY <2>1, <2>3, <2>4
<1> HIDE DEF P, r, e
<1>3. ParseJsonLeniently(P) =
        IF Parse(P).ok THEN Parse(P) ELSE IF Parse(r).ok THEN Parse(r) ELSE NoValue
  BY <1>2, LenientOf DEF r, e
<1>4. ~Meaning(d, Unescape(m)).ok => Meaning(d, Unescape(m)) = NoValue
  BY MeaningOrNone
<1> QED BY <1>1, <1>3, <1>4 DEF ReadAs, P

\* What is written of a text that begins outside every string.
LEMMA RepairsOutside ==
  ASSUME NEW a \in Texts, NEW out \in Texts,
         Repair(a) = [out |-> out, in |-> FALSE, esc |-> FALSE],
         NEW ch \in {"x", "o", "c", "l", "r", "nl"}
  PROVE  Repair(Append(a, ch)) = [out |-> Append(out, ch), in |-> FALSE, esc |-> FALSE]
<1>1. ch \in CHARS
  BY DEF CHARS
<1>2. Repair(Append(a, ch)) = RepairStep(Repair(a), ch)
  BY <1>1, RepairRuns
<1>3. RepairStep([out |-> out, in |-> FALSE, esc |-> FALSE], ch) =
        [out |-> Append(out, ch), in |-> FALSE, esc |-> FALSE]
  BY DEF RepairStep
<1> QED BY <1>2, <1>3

\* The repair leaves a remark after it as it is.
LEMMA TailRepairs ==
  ASSUME NEW a \in Texts, NEW out \in Texts,
         Repair(a) = [out |-> out, in |-> FALSE, esc |-> FALSE],
         NEW z \in {<<"x">>, <<"x", "o">>, <<"x", "o", "c">>}
  PROVE  RepairJsonStringLiterals(a \o z) = out \o z
<1> DEFINE a1 == Append(a, "x")
           a2 == Append(a1, "o")
           a3 == Append(a2, "c")
           o1 == Append(out, "x")
           o2 == Append(o1, "o")
           o3 == Append(o2, "c")
<1>0. "x" \in CHARS /\ "o" \in CHARS /\ "c" \in CHARS
  BY DEF CHARS
<1>1. /\ a1 \in Texts /\ o1 \in Texts /\ a1 = a \o <<"x">> /\ o1 = out \o <<"x">>
      /\ Repair(a1) = [out |-> o1, in |-> FALSE, esc |-> FALSE]
  BY <1>0, RepairsOutside, AppendProperties, AppendIsConcat DEF Texts
<1> HIDE DEF a1, o1
<1>2. /\ a2 \in Texts /\ o2 \in Texts /\ a2 = a1 \o <<"o">> /\ o2 = o1 \o <<"o">>
      /\ Repair(a2) = [out |-> o2, in |-> FALSE, esc |-> FALSE]
  BY <1>0, <1>1, RepairsOutside, AppendProperties, AppendIsConcat DEF Texts
<1> HIDE DEF a2, o2
<1>3. /\ a3 \in Texts /\ o3 \in Texts /\ a3 = a2 \o <<"c">> /\ o3 = o2 \o <<"c">>
      /\ Repair(a3) = [out |-> o3, in |-> FALSE, esc |-> FALSE]
  BY <1>0, <1>2, RepairsOutside, AppendProperties, AppendIsConcat DEF Texts
<1> HIDE DEF a3, o3
<1>4. /\ <<"x">> \in Texts /\ <<"o">> \in Texts /\ <<"c">> \in Texts /\ <<"x", "o">> \in Texts
      /\ <<"x", "o">> = <<"x">> \o <<"o">> /\ <<"x", "o", "c">> = <<"x", "o">> \o <<"c">>
  BY <1>0 DEF Texts
<1>5. a2 = a \o <<"x", "o">> /\ o2 = out \o <<"x", "o">>
  <2>1. (a \o <<"x">>) \o <<"o">> = a \o (<<"x">> \o <<"o">>)
    BY <1>4, TextsAssociate, Zenon
  <2>2. (out \o <<"x">>) \o <<"o">> = out \o (<<"x">> \o <<"o">>)
    BY <1>4, TextsAssociate, Zenon
  <2> QED BY <1>1, <1>2, <1>4, <2>1, <2>2, Zenon
<1>6. a3 = a \o <<"x", "o", "c">> /\ o3 = out \o <<"x", "o", "c">>
  <2>1. (a \o <<"x", "o">>) \o <<"c">> = a \o (<<"x", "o">> \o <<"c">>)
    BY <1>4, TextsAssociate, Zenon
  <2>2. (out \o <<"x", "o">>) \o <<"c">> = out \o (<<"x", "o">> \o <<"c">>)
    BY <1>4, TextsAssociate, Zenon
  <2> QED BY <1>3, <1>4, <1>5, <2>1, <2>2, Zenon
<1>7. CASE z = <<"x">>
  <2>1. Repair(a \o z) = [out |-> out \o z, in |-> FALSE, esc |-> FALSE]
    BY <1>1, <1>7, Zenon
  <2> QED BY <2>1 DEF RepairJsonStringLiterals
<1>8. CASE z = <<"x", "o">>
  <2>1. Repair(a \o z) = [out |-> out \o z, in |-> FALSE, esc |-> FALSE]
    BY <1>2, <1>5, <1>8, Zenon
  <2> QED BY <2>1 DEF RepairJsonStringLiterals
<1>9. CASE z = <<"x", "o", "c">>
  <2>1. Repair(a \o z) = [out |-> out \o z, in |-> FALSE, esc |-> FALSE]
    BY <1>3, <1>6, <1>9, Zenon
  <2> QED BY <2>1 DEF RepairJsonStringLiterals
<1> QED BY <1>7, <1>8, <1>9

\* A remark after it, or a part of one, changes nothing.
LEMMA TailLenient ==
  ASSUME NEW d \in {1, 2}, NEW w \in Texts, NEW m \in Texts, Closed(d, w, m),
         NEW z \in {<<"x">>, <<"x", "o">>, <<"x", "o", "c">>}
  PROVE  ParseJsonLeniently(Whole(d, w) \o z) = ReadAs(d, w, m)
<1> DEFINE P == Whole(d, w)
           raw == P \o z
           b == RepairJsonStringLiterals(raw)
           e == ExtractJsonValue(raw)
           r == RepairJsonStringLiterals(e)
<1>0. z \in Texts /\ Len(z) >= 1
  <2>1. <<"x">> \in Texts /\ <<"x", "o">> \in Texts /\ <<"x", "o", "c">> \in Texts
    BY DEF Texts, CHARS
  <2>2. CASE z = <<"x">>
    BY <2>1, <2>2
  <2>3. CASE z = <<"x", "o">>
    BY <2>1, <2>3
  <2>4. CASE z = <<"x", "o", "c">>
    BY <2>1, <2>4
  <2> QED BY <2>2, <2>3, <2>4
<1>1. ~Parse(raw).ok
  BY MoreParses
<1>2. ~Parse(b).ok
  <2>1. Repair(P) = [out |-> Whole(d, m), in |-> FALSE, esc |-> FALSE]
    BY DEF Closed
  <2>2. P \in Texts /\ Whole(d, m) \in Texts
    BY WholeAt
  <2>3. b = Whole(d, m) \o z
    <3> HIDE DEF P
    <3> QED BY <2>1, <2>2, TailRepairs
  <2> QED BY <2>3, MoreParses
<1>3. e = P
  <2>1. << >> \in Texts /\ \A i \in 1 .. Len(<< >>) : FALSE
    BY DEF Texts
  <2>2. /\ Scan(raw, "o").done /\ SubSeq(raw, 1, Scan(raw, "o").len) = P
        /\ raw \in Texts /\ Len(raw) >= 1 /\ raw[1] = "o"
    BY <1>0, WholeScans
  <2> HIDE DEF P, raw
  <2>3. << >> \o raw = raw
    BY <2>2, ConcatEmptySeq DEF Texts
  <2>4. ExtractJsonValue(<< >> \o raw) =
          IF Scan(raw, "o").done THEN SubSeq(raw, 1, Scan(raw, "o").len) ELSE << >>
    BY <2>1, <2>2, ExtractedAfter, BraceOpens
  <2> QED BY <2>2, <2>3, <2>4
<1>4. P \notin {<< >>, raw}
  <2>1. P \in Texts /\ Len(P) \in Nat /\ Len(P) >= 1
    BY WholeAt
  <2> HIDE DEF P
  <2>2. Len(raw) = Len(P) + Len(z) /\ Len(z) \in Nat
    BY <1>0, <2>1, At, Zenon
  <2> HIDE DEF raw
  <2>3. Len(raw) # Len(P) /\ Len(P) # 0
    BY <1>0, <2>1, <2>2
  <2> QED BY <2>3
<1>5. Parse(P) = Meaning(d, Unescape(w)) /\ Parse(r) = Meaning(d, Unescape(m))
  <2>1. r = Whole(d, m)
    <3> HIDE DEF e, P
    <3>1. RepairJsonStringLiterals(P) = Whole(d, m)
      BY DEF Closed, RepairJsonStringLiterals, P
    <3> QED BY <1>3, <3>1
  <2> HIDE DEF r, P
  <2> QED BY <2>1, WholeParses DEF P
<1> HIDE DEF P, raw, b, r, e
<1>6. ParseJsonLeniently(raw) =
        IF Parse(P).ok THEN Parse(P) ELSE IF Parse(r).ok THEN Parse(r) ELSE NoValue
  BY <1>1, <1>2, <1>3, <1>4, LenientOf DEF r, e, b
<1>7. ~Meaning(d, Unescape(m)).ok => Meaning(d, Unescape(m)) = NoValue
  BY MeaningOrNone
<1> QED BY <1>5, <1>6, <1>7 DEF ReadAs, P, raw

\* Prose and what follows it: the text itself and its repair begin with a letter.
LEMMA ProseStays ==
  ASSUME NEW raw \in Texts, Len(raw) >= 1, raw[1] \in {"x", "l"}
  PROVE  ~Parse(raw).ok /\ ~Parse(RepairJsonStringLiterals(raw)).ok
<1> DEFINE b == raw[1]
           h == <<b>>
           rest == SubSeq(raw, 2, Len(raw))
<1>1. b \in CHARS /\ h \in Texts /\ << >> \in Texts /\ Append(<< >>, b) = h /\ Len(h) = 1 /\ h[1] = b
  BY DEF Texts, CHARS
<1>2. Len(raw) \in Nat
  BY DEF Texts
<1>3. rest \in Texts
  <2>1. 2 \in 1 .. Len(raw) + 1 /\ Len(raw) \in 0 .. Len(raw) /\ 2 <= Len(raw) + 1
    BY <1>2
  <2> QED BY <2>1, PartAt
<1>4. raw = h \o rest
  <2>1. 1 \in 1 .. Len(raw) /\ Len(raw) \in 1 .. Len(raw) /\ 1 + 1 = 2
    BY <1>2
  <2>2. SubSeq(raw, 1, Len(raw)) = <<raw[1]>> \o SubSeq(raw, 1 + 1, Len(raw))
    BY <2>1, SubSeqRecursiveFirst DEF Texts
  <2>3. SubSeq(raw, 1, Len(raw)) = raw
    BY SubSeqFull DEF Texts
  <2> QED BY <2>1, <2>2, <2>3
<1>5. Repair(h).out = h
  <2>1. Repair(<< >>) = [out |-> << >>, in |-> FALSE, esc |-> FALSE]
    BY RepairRuns DEF NothingRepaired
  <2>2. Repair(Append(<< >>, b)) = [out |-> Append(<< >>, b), in |-> FALSE, esc |-> FALSE]
    <3>1. b \in {"x", "o", "c", "l", "r", "nl"}
      OBVIOUS
    <3> HIDE DEF b, h
    <3> QED BY <1>1, <2>1, <3>1, RepairsOutside
  <2> QED BY <1>1, <2>2
<1> HIDE DEF h, rest
<1>6. PICK c \in Texts : Repair(raw).out = h \o c
  <2>1. Grown(h, rest)
    BY <1>1, <1>3, RepairGrows
  <2> QED BY <1>4, <1>5, <2>1 DEF Grown
<1>7. /\ h \o c \in Texts /\ Len(h \o c) = Len(h) + Len(c) /\ Len(c) \in Nat
      /\ \A i \in 1 .. Len(h) : (h \o c)[i] = h[i]
  BY <1>1, <1>6, At, Zenon
<1>8. Len(h \o c) >= 1 /\ (h \o c)[1] = b
  <2>1. 1 \in 1 .. Len(h)
    BY <1>1
  <2> QED BY <1>1, <1>7, <2>1
<1>9. ~Parse(h \o c).ok
  BY <1>7, <1>8, ProseParses
<1> QED BY <1>6, <1>9, ProseParses DEF RepairJsonStringLiterals

Prose(a) == a \in Texts /\ Len(a) >= 1 /\ a[1] = "x" /\ \A i \in 1 .. Len(a) : a[i] \notin Openers

\* Whatever follows prose, the text begins with a letter.
LEMMA ProseBegins ==
  ASSUME NEW a, Prose(a), NEW y \in Texts
  PROVE  a \o y \in Texts /\ Len(a \o y) >= 1 /\ (a \o y)[1] = "x"
<1>1. /\ a \o y \in Texts /\ Len(a \o y) = Len(a) + Len(y) /\ Len(a) \in Nat /\ Len(y) \in Nat
      /\ \A i \in 1 .. Len(a) : (a \o y)[i] = a[i]
  BY At, Zenon DEF Prose
<1>2. 1 \in 1 .. Len(a)
  BY <1>1 DEF Prose
<1> QED BY <1>1, <1>2 DEF Prose

\* Prose alone is not read.
LEMMA ProseAlone ==
  ASSUME NEW a, Prose(a)
  PROVE  ParseJsonLeniently(a) = NoValue
<1>1. ExtractJsonValue(a) = << >>
  BY NothingToExtract DEF Prose
<1>2. ~Parse(a).ok /\ ~Parse(RepairJsonStringLiterals(a)).ok
  BY ProseStays DEF Prose
<1> QED BY <1>1, <1>2, LenientOf

\* Nor is prose before a value without an end.
LEMMA ProseNone ==
  ASSUME NEW a, Prose(a), NEW y \in Texts, NEW open \in Openers, Len(y) >= 1, y[1] = open,
         ~Scan(y, open).done
  PROVE  ParseJsonLeniently(a \o y) = NoValue
<1> DEFINE raw == a \o y
<1>1. ExtractJsonValue(raw) = << >>
  BY ExtractedAfter DEF Prose
<1>2. ~Parse(raw).ok /\ ~Parse(RepairJsonStringLiterals(raw)).ok
  <2>1. raw \in Texts /\ Len(raw) >= 1 /\ raw[1] = "x"
    BY ProseBegins
  <2> HIDE DEF raw
  <2> QED BY <2>1, ProseStays
<1> HIDE DEF raw
<1>3. ParseJsonLeniently(raw) = NoValue
  BY <1>1, <1>2, LenientOf
<1> QED BY <1>3 DEF raw

\* After prose, the value the scan finds is read.
LEMMA ProseFinds ==
  ASSUME NEW a, Prose(a), NEW y \in Texts, NEW open \in Openers, Len(y) >= 1, y[1] = open,
         Scan(y, open).done,
         NEW e \in Texts, e = SubSeq(y, 1, Scan(y, open).len), Len(e) >= 1, e[1] = open
  PROVE  ParseJsonLeniently(a \o y) =
           IF Parse(e).ok THEN Parse(e)
           ELSE IF Parse(RepairJsonStringLiterals(e)).ok
             THEN Parse(RepairJsonStringLiterals(e))
             ELSE NoValue
<1> DEFINE raw == a \o y
<1>1. ExtractJsonValue(raw) = e
  BY ExtractedAfter DEF Prose
<1>2. raw \in Texts /\ Len(raw) >= 1 /\ raw[1] = "x"
  BY ProseBegins
<1> HIDE DEF raw
<1>3. ~Parse(raw).ok /\ ~Parse(RepairJsonStringLiterals(raw)).ok
  BY <1>2, ProseStays
<1>4. e \notin {<< >>, raw}
  <2>1. e # << >>
    <3>1. Len(<< >>) = 0 /\ Len(e) # 0
      BY DEF Texts
    <3> QED BY <3>1, Zenon
  <2> QED BY <1>2, <2>1 DEF Openers
<1>5. ParseJsonLeniently(raw) =
           IF Parse(e).ok THEN Parse(e)
           ELSE IF Parse(RepairJsonStringLiterals(e)).ok
             THEN Parse(RepairJsonStringLiterals(e))
             ELSE NoValue
  BY <1>1, <1>3, <1>4, LenientOf
<1> QED BY <1>5 DEF raw

\* What one character makes of a scan.
Scanned(d, n, in, esc, done) ==
  [depth |-> d, len |-> n, in |-> in, esc |-> esc, done |-> done]

\* Each kind of character, where the scan may meet it.
LEMMA ScanSteps ==
  ASSUME NEW d \in Int, NEW n \in Int, NEW i \in BOOLEAN, NEW ch \in CHARS
  PROVE  /\ ScanStep(Scanned(d, n, i, TRUE, FALSE), ch, "o") = Scanned(d, n + 1, i, FALSE, FALSE)
         /\ ch = "b" =>
              ScanStep(Scanned(d, n, i, FALSE, FALSE), ch, "o") = Scanned(d, n + 1, i, TRUE, FALSE)
         /\ ch = "q" =>
              ScanStep(Scanned(d, n, i, FALSE, FALSE), ch, "o") = Scanned(d, n + 1, ~i, FALSE, FALSE)
         /\ ch \notin {"b", "q"} =>
              ScanStep(Scanned(d, n, TRUE, FALSE, FALSE), ch, "o") = Scanned(d, n + 1, TRUE, FALSE, FALSE)
         /\ ch = "o" =>
              ScanStep(Scanned(d, n, FALSE, FALSE, FALSE), ch, "o") = Scanned(d + 1, n + 1, FALSE, FALSE, FALSE)
         /\ ch = "c" =>
              ScanStep(Scanned(d, n, FALSE, FALSE, FALSE), ch, "o") = Scanned(d - 1, n + 1, FALSE, FALSE, d = 1)
<1>1. ScanStep(Scanned(d, n, i, TRUE, FALSE), ch, "o") = Scanned(d, n + 1, i, FALSE, FALSE)
  BY DEF ScanStep, ClosedBy, Scanned
<1>2. ch = "b" => ScanStep(Scanned(d, n, i, FALSE, FALSE), ch, "o") = Scanned(d, n + 1, i, TRUE, FALSE)
  BY DEF ScanStep, ClosedBy, Scanned
<1>3. ch = "q" => ScanStep(Scanned(d, n, i, FALSE, FALSE), ch, "o") = Scanned(d, n + 1, ~i, FALSE, FALSE)
  BY DEF ScanStep, ClosedBy, Scanned
<1>4. ch \notin {"b", "q"} => ScanStep(Scanned(d, n, TRUE, FALSE, FALSE), ch, "o") = Scanned(d, n + 1, TRUE, FALSE, FALSE)
  BY DEF ScanStep, ClosedBy, Scanned
<1>5. ch = "o" => ScanStep(Scanned(d, n, FALSE, FALSE, FALSE), ch, "o") = Scanned(d + 1, n + 1, FALSE, FALSE, FALSE)
  BY DEF ScanStep, ClosedBy, Scanned
<1>6. ch = "c" => ScanStep(Scanned(d, n, FALSE, FALSE, FALSE), ch, "o") = Scanned(d - 1, n + 1, FALSE, FALSE, d = 1)
  BY DEF ScanStep, ClosedBy, Scanned
<1> QED BY <1>1, <1>2, <1>3, <1>4, <1>5, <1>6

\* A remark that itself holds braces, or brackets.
LEMMA BracesScan ==
  ASSUME NEW open \in Openers, NEW close, close = ClosedBy(open)
  PROVE  /\ ~Scan(<<open>>, open).done
         /\ Scan(<<open, close>>, open).done /\ Scan(<<open, close>>, open).len = 2
         /\ <<open>> \in Texts /\ <<open, close>> \in Texts
<1> DEFINE s == <<open>>
           t == <<open, close>>
<1>1. /\ open \in CHARS /\ close \in CHARS /\ << >> \in Texts /\ s \in Texts /\ t \in Texts
      /\ Append(<< >>, open) = s /\ Append(s, close) = t
  <2>1. open \in CHARS /\ close \in CHARS
    BY DEF CHARS, Openers, ClosedBy
  <2>2. s \in Texts /\ t \in Texts /\ << >> \in Texts
    BY <2>1 DEF Texts
  <2>3. Append(<< >>, open) = s /\ Append(s, close) = t
    <3>1. /\ Len(Append(<< >>, open)) = 1 /\ Append(<< >>, open)[1] = open
          /\ Append(<< >>, open) \in Texts /\ Len(s) = 1 /\ s[1] = open
      BY <2>1 DEF Texts
    <3>2. Append(<< >>, open) = s
      <4>1. Len(Append(<< >>, open)) = Len(s)
        BY <3>1
      <4>2. \A i \in 1 .. Len(s) : Append(<< >>, open)[i] = s[i]
        BY <3>1
      <4> HIDE DEF s
      <4> QED BY <2>2, <3>1, <4>1, <4>2, SameText
    <3>3. Append(s, close) = t
      <4>1. /\ Len(Append(s, close)) = 2 /\ Append(s, close)[1] = open /\ Append(s, close)[2] = close
            /\ Append(s, close) \in Texts /\ Len(t) = 2 /\ t[1] = open /\ t[2] = close
        BY <2>1 DEF Texts
      <4>2. Len(Append(s, close)) = Len(t)
        BY <4>1
      <4>3. \A i \in 1 .. Len(t) : Append(s, close)[i] = t[i]
        BY <4>1
      <4> HIDE DEF t
      <4> QED BY <2>2, <4>1, <4>2, <4>3, SameText
    <3> QED BY <3>2, <3>3
  <2> QED BY <2>1, <2>2, <2>3
<1> HIDE DEF s, t
<1>2. Scan(s, open) = Scanned(0 + 1, 0 + 1, FALSE, FALSE, FALSE)
  <2>1. Scan(s, open) = ScanStep(NothingScanned, open, open) /\ NothingScanned = Scanned(0, 0, FALSE, FALSE, FALSE)
    BY <1>1, ScanRunsFrom DEF NothingScanned, Scanned
  <2>2. ScanStep(Scanned(0, 0, FALSE, FALSE, FALSE), open, open) = Scanned(0 + 1, 0 + 1, FALSE, FALSE, FALSE)
    BY DEF ScanStep, ClosedBy, Scanned, Openers
  <2> QED BY <2>1, <2>2
<1>3. Scan(s, open) = Scanned(1, 1, FALSE, FALSE, FALSE)
  BY <1>2
<1>4. Scan(t, open) = ScanStep(Scan(s, open), close, open)
  BY <1>1, ScanRunsFrom
<1>5. Scan(t, open) = Scanned(1 - 1, 1 + 1, FALSE, FALSE, 1 = 1)
  <2>1. ScanStep(Scanned(1, 1, FALSE, FALSE, FALSE), close, open) = Scanned(1 - 1, 1 + 1, FALSE, FALSE, 1 = 1)
    BY DEF ScanStep, ClosedBy, Scanned, Openers
  <2> QED BY <1>3, <1>4, <2>1
<1>6. ~Scan(s, open).done /\ Scan(t, open).done /\ Scan(t, open).len = 2
  <2>1. ~Scan(s, open).done
    BY <1>3 DEF Scanned
  <2>2. Scan(t, open).done
    <3>1. Scan(t, open).done = (1 = 1)
      BY <1>5 DEF Scanned
    <3>2. Scan(t, open).done \in BOOLEAN
      BY <1>1, ScanRunsFrom DEF Scans
    <3>3. (1 = 1) = TRUE
      OBVIOUS
    <3>4. Scan(t, open).done = TRUE
      BY <3>1, <3>3
    <3> QED BY <3>4
  <2>3. Scan(t, open).len = 2
    BY <1>5 DEF Scanned
  <2> QED BY <2>1, <2>2, <2>3
<1> QED BY <1>1, <1>6 DEF s, t

\* The scan ends with the remark, whatever follows it.
LEMMA RemarkScans ==
  ASSUME NEW open \in Openers, NEW close, close = ClosedBy(open), NEW z \in Texts
  PROVE  LET y == <<open, close>> \o z
         IN  /\ y \in Texts /\ Len(y) >= 1 /\ y[1] = open
             /\ Scan(y, open).done /\ SubSeq(y, 1, Scan(y, open).len) = <<open, close>>
<1> DEFINE t == <<open, close>>
           y == t \o z
<1>1. t \in Texts /\ Len(t) = 2 /\ t[1] = open /\ Scan(t, open).done /\ Scan(t, open).len = 2
  BY BracesScan
<1> HIDE DEF t
<1>2. Scan(y, open) = Scan(t, open)
  BY <1>1, ScanStays
<1>3. /\ y \in Texts /\ Len(y) = Len(t) + Len(z) /\ Len(z) \in Nat
      /\ \A i \in 1 .. Len(t) : y[i] = t[i]
  BY <1>1, At, Zenon
<1>4. SubSeq(y, 1, 2) = t
  <2>1. 2 \in 0 .. Len(t \o z) /\ ~(2 < Len(t)) /\ 2 - Len(t) = 0
    BY <1>1, <1>3
  <2>2. SubSeq(t \o z, 1, 2) = t \o SubSeq(z, 1, 2 - Len(t))
    BY <1>1, <2>1, CutOf, Zenon
  <2>3. SubSeq(z, 1, 0) = << >> /\ t \o << >> = t
    BY <1>1, SubSeqEmpty, ConcatEmptySeq DEF Texts
  <2> QED BY <2>1, <2>2, <2>3
<1>5. Len(y) >= 1 /\ y[1] = open
  <2>1. 1 \in 1 .. Len(t)
    BY <1>1
  <2> QED BY <1>1, <1>3, <2>1
<1> QED BY <1>1, <1>2, <1>3, <1>4, <1>5 DEF t

\* A text and the rest of it.
LEMMA PartAndRest ==
  ASSUME NEW text \in Texts, NEW n \in 0 .. Len(text)
  PROVE  /\ SubSeq(text, 1, n) \in Texts /\ Len(SubSeq(text, 1, n)) = n
         /\ SubSeq(text, n + 1, Len(text)) \in Texts
         /\ SubSeq(text, 1, n) \o SubSeq(text, n + 1, Len(text)) = text
<1>1. Len(text) \in Nat
  BY DEF Texts
<1>2. SubSeq(text, 1, n) \in Texts /\ Len(SubSeq(text, 1, n)) = n
  <2>1. 1 \in 1 .. Len(text) + 1 /\ n \in 0 .. Len(text) /\ 1 <= n + 1 /\ n - 1 + 1 = n
    BY <1>1
  <2> QED BY <2>1, PartAt
<1>3. SubSeq(text, n + 1, Len(text)) \in Texts
  <2>1. n + 1 \in 1 .. Len(text) + 1 /\ Len(text) \in 0 .. Len(text) /\ n + 1 <= Len(text) + 1
    BY <1>1
  <2> QED BY <2>1, PartAt
<1>4. SubSeq(text, 1, n) \o SubSeq(text, n + 1, Len(text)) = text
  <2>1. CASE n = 0
    <3>1. SubSeq(text, 1, 0) = << >> /\ SubSeq(text, 1, Len(text)) = text
      BY SubSeqEmpty, SubSeqFull DEF Texts
    <3>2. << >> \o text = text
      BY ConcatEmptySeq DEF Texts
    <3>3. 0 + 1 = 1
      OBVIOUS
    <3> QED BY <2>1, <3>1, <3>2, <3>3
  <2>2. CASE n # 0
    <3>1. 1 \in 1 .. Len(text) + 1 /\ n \in 1 - 1 .. Len(text) /\ Len(text) \in n .. Len(text)
      BY <1>1, <2>2
    <3>2. SubSeq(text, 1, n) \o SubSeq(text, n + 1, Len(text)) = SubSeq(text, 1, Len(text))
      BY <3>1, ConcatAdjacentSubSeq DEF Texts
    <3>3. SubSeq(text, 1, Len(text)) = text
      BY SubSeqFull DEF Texts
    <3> QED BY <3>2, <3>3
  <2> QED BY <2>1, <2>2
<1> QED BY <1>2, <1>3, <1>4

\* The beginnings of a text of three characters.
LEMMA ShortParts ==
  ASSUME NEW p \in CHARS, NEW q \in CHARS, NEW r \in CHARS
  PROVE  /\ <<p, q, r>> \in Texts /\ <<p, q>> \in Texts /\ <<p>> \in Texts /\ << >> \in Texts
         /\ Len(<<p, q, r>>) = 3
         /\ SubSeq(<<p, q, r>>, 1, 0) = << >> /\ SubSeq(<<p, q, r>>, 1, 1) = <<p>>
         /\ SubSeq(<<p, q, r>>, 1, 2) = <<p, q>> /\ SubSeq(<<p, q, r>>, 1, 3) = <<p, q, r>>
<1> DEFINE t == <<p, q, r>>
<1>1. t \in Texts /\ <<p, q>> \in Texts /\ <<p>> \in Texts /\ << >> \in Texts
  BY DEF Texts
<1>2. Len(t) = 3 /\ t[1] = p /\ t[2] = q /\ t[3] = r
  OBVIOUS
<1>3. /\ Len(<<p, q>>) = 2 /\ <<p, q>>[1] = p /\ <<p, q>>[2] = q
      /\ Len(<<p>>) = 1 /\ <<p>>[1] = p
  OBVIOUS
<1> HIDE DEF t
<1>4. SubSeq(t, 1, 0) = << >>
  BY <1>1, SubSeqEmpty DEF Texts
<1>5. SubSeq(t, 1, 3) = t
  BY <1>1, <1>2, SubSeqFull DEF Texts
<1>6. SubSeq(t, 1, 2) = <<p, q>>
  <2>1. 1 \in 1 .. Len(t) + 1 /\ 2 \in 0 .. Len(t) /\ 1 <= 2 + 1 /\ 2 - 1 + 1 = 2
    BY <1>2
  <2>2. /\ SubSeq(t, 1, 2) \in Texts /\ Len(SubSeq(t, 1, 2)) = 2
        /\ \A n \in 1 .. 2 : SubSeq(t, 1, 2)[n] = t[1 + n - 1]
    BY <1>1, <2>1, PartAt
  <2> DEFINE c == <<p, q>>
  <2>3. t[1] = c[1] /\ t[2] = c[2] /\ c \in Texts /\ Len(c) = 2
    BY <1>1, <1>2, <1>3
  <2> DEFINE f == SubSeq(t, 1, 2)
  <2>4. f[1] = t[1 + 1 - 1] /\ 1 + 1 - 1 = 1 /\ f[2] = t[1 + 2 - 1] /\ 1 + 2 - 1 = 2
    BY <2>2
  <2> HIDE DEF c, f
  <2>5. f \in Texts /\ Len(f) = 2 /\ f[1] = c[1] /\ f[2] = c[2]
    BY <2>2, <2>3, <2>4 DEF f
  <2>6. \A i \in 1 .. Len(f) : f[i] = c[i]
    BY <2>5
  <2>7. f = c
    BY <2>3, <2>5, <2>6, SameText
  <2> QED BY <2>7 DEF c, f
<1>7. SubSeq(t, 1, 1) = <<p>>
  <2>1. 1 \in 1 .. Len(t) + 1 /\ 1 \in 0 .. Len(t) /\ 1 <= 1 + 1 /\ 1 - 1 + 1 = 1
    BY <1>2
  <2>2. /\ SubSeq(t, 1, 1) \in Texts /\ Len(SubSeq(t, 1, 1)) = 1
        /\ \A n \in 1 .. 1 : SubSeq(t, 1, 1)[n] = t[1 + n - 1]
    BY <1>1, <2>1, PartAt
  <2> DEFINE c == <<p>>
  <2>3. t[1] = c[1] /\ c \in Texts /\ Len(c) = 1
    BY <1>1, <1>2, <1>3
  <2> DEFINE f == SubSeq(t, 1, 1)
  <2>4. f[1] = t[1 + 1 - 1] /\ 1 + 1 - 1 = 1
    BY <2>2
  <2> HIDE DEF c, f
  <2>5. f \in Texts /\ Len(f) = 1 /\ f[1] = c[1]
    BY <2>2, <2>3, <2>4 DEF f
  <2>6. \A i \in 1 .. Len(f) : f[i] = c[i]
    BY <2>5
  <2>7. f = c
    BY <2>3, <2>5, <2>6, SameText
  <2> QED BY <2>7 DEF c, f
<1> QED BY <1>1, <1>2, <1>4, <1>5, <1>6, <1>7 DEF t

\* What there is of a whole value that is cut off after n characters.
LEMMA CutWhole ==
  ASSUME NEW d \in {1, 2}, NEW w \in Texts, NEW m \in Texts, Closed(d, w, m),
         NEW n \in 1 .. Len(Whole(d, w))
  PROVE  LET p == SubSeq(Whole(d, w), 1, n)
         IN  /\ p \in Texts /\ Len(p) = n /\ p[1] = "o"
             /\ n < Len(Whole(d, w)) => ParseJsonLeniently(p) = NoValue /\ ~Scan(p, "o").done
             /\ n = Len(Whole(d, w)) => p = Whole(d, w) /\ ParseJsonLeniently(p) = ReadAs(d, w, m)
<1> DEFINE P == Whole(d, w)
           p == SubSeq(P, 1, n)
           z == SubSeq(P, n + 1, Len(P))
<1> SUFFICES /\ p \in Texts /\ Len(p) = n /\ p[1] = "o"
             /\ n < Len(P) => ParseJsonLeniently(p) = NoValue /\ ~Scan(p, "o").done
             /\ n = Len(P) => p = P /\ ParseJsonLeniently(p) = ReadAs(d, w, m)
  OBVIOUS
<1>1. P \in Texts /\ Len(P) \in Nat /\ P[1] = "o"
  BY WholeBegins
<1>2. ParseJsonLeniently(P) = ReadAs(d, w, m)
  BY WholeLenient
<1>3. \A a \in Texts, b \in Texts : a \o b = P /\ Len(a) < Len(P) /\ Len(a) >= 1 =>
         ParseJsonLeniently(a) = NoValue /\ a[1] = "o" /\ ~Scan(a, "o").done
  BY PartLenient, PartScans
<1> HIDE DEF P
<1>4. p \in Texts /\ Len(p) = n /\ z \in Texts /\ p \o z = P
  <2>1. n \in 0 .. Len(P)
    BY <1>1 DEF P
  <2> QED BY <1>1, <2>1, PartAndRest
<1>5. CASE n < Len(P)
  <2>1. n >= 1
    BY <1>1
  <2> HIDE DEF p, z
  <2>2. n # Len(P)
    BY <1>1, <1>5
  <2>3. ParseJsonLeniently(p) = NoValue /\ p[1] = "o" /\ ~Scan(p, "o").done
    BY <1>3, <1>4, <1>5, <2>1
  <2> QED BY <1>4, <2>2, <2>3
<1>6. CASE n = Len(P)
  <2>1. p = P
    BY <1>1, <1>6, SubSeqFull DEF Texts
  <2> HIDE DEF p
  <2> QED BY <1>1, <1>2, <1>4, <1>6, <2>1
<1>7. n < Len(P) \/ n = Len(P)
  BY <1>1 DEF P
<1> QED BY <1>5, <1>6, <1>7

\* An answer without anything around it.
LEMMA BareLenient ==
  ASSUME NEW d \in {1, 2}, NEW w \in Texts, NEW m \in Texts, Closed(d, w, m),
         NEW n \in 1 .. Len(Whole(d, w))
  PROVE  /\ ParseJsonLeniently(SubSeq(Whole(d, w), 1, n)) \in {NoValue, ReadAs(d, w, m)}
         /\ n = Len(Whole(d, w)) =>
              ParseJsonLeniently(SubSeq(Whole(d, w), 1, n)) = ReadAs(d, w, m)
<1>1. Len(Whole(d, w)) \in Nat
  BY WholeBegins
<1>2. n < Len(Whole(d, w)) \/ n = Len(Whole(d, w))
  BY <1>1
<1> QED BY <1>2, CutWhole

\* One with a remark after it.
LEMMA AfterLenient ==
  ASSUME NEW d \in {1, 2}, NEW w \in Texts, NEW m \in Texts, Closed(d, w, m),
         NEW n \in 1 .. Len(Whole(d, w) \o <<"x", "o", "c">>)
  PROVE  LET full == Whole(d, w) \o <<"x", "o", "c">>
         IN  /\ ParseJsonLeniently(SubSeq(full, 1, n)) \in {NoValue, ReadAs(d, w, m)}
             /\ n = Len(full) => ParseJsonLeniently(SubSeq(full, 1, n)) = ReadAs(d, w, m)
<1> DEFINE P == Whole(d, w)
           s == <<"x", "o", "c">>
           full == P \o s
           text == SubSeq(full, 1, n)
           k == n - Len(P)
<1> SUFFICES /\ ParseJsonLeniently(text) \in {NoValue, ReadAs(d, w, m)}
             /\ n = Len(full) => ParseJsonLeniently(text) = ReadAs(d, w, m)
  OBVIOUS
<1>1. P \in Texts /\ Len(P) \in Nat /\ Len(P) >= 2
  BY WholeBegins
<1>2. /\ s \in Texts /\ Len(s) = 3
      /\ SubSeq(s, 1, 0) = << >> /\ SubSeq(s, 1, 1) = <<"x">>
      /\ SubSeq(s, 1, 2) = <<"x", "o">> /\ SubSeq(s, 1, 3) = <<"x", "o", "c">>
  <2>1. "x" \in CHARS /\ "o" \in CHARS /\ "c" \in CHARS
    BY DEF CHARS
  <2> QED BY <2>1, ShortParts
<1>3. \A z \in {<<"x">>, <<"x", "o">>, <<"x", "o", "c">>} :
        ParseJsonLeniently(P \o z) = ReadAs(d, w, m)
  BY TailLenient
<1>4. ParseJsonLeniently(P) = ReadAs(d, w, m)
  BY WholeLenient
<1>5. \A j \in 1 .. Len(P) : j < Len(P) => ParseJsonLeniently(SubSeq(P, 1, j)) = NoValue
  BY CutWhole
<1> HIDE DEF P, s
<1>6. Len(full) = Len(P) + Len(s)
  BY <1>1, <1>2, At, Zenon
<1>7. n \in Nat /\ n >= 1 /\ n <= Len(P) + 3 /\ n \in 0 .. Len(full)
  BY <1>1, <1>2, <1>6 DEF P, s
<1>8. \/ n < Len(P) /\ text = SubSeq(P, 1, n)
      \/ k \in 0 .. Len(s) /\ text = P \o SubSeq(s, 1, k)
  BY <1>1, <1>2, <1>7, CutOf, Zenon
<1> HIDE DEF text
<1>9. CASE n < Len(P) /\ text = SubSeq(P, 1, n)
  <2>1. n \in 1 .. Len(P) /\ n # Len(full)
    BY <1>1, <1>2, <1>6, <1>7, <1>9
  <2> QED BY <1>5, <1>9, <2>1
<1>10. CASE k \in 0 .. Len(s) /\ text = P \o SubSeq(s, 1, k)
  <2>1. k = 0 \/ k = 1 \/ k = 2 \/ k = 3
    BY <1>1, <1>2, <1>7, <1>10
  <2>2. P \o << >> = P
    BY <1>1, ConcatEmptySeq DEF Texts
  <2> HIDE DEF full, k
  <2>3. CASE k = 0
    BY <1>2, <1>4, <1>10, <2>2, <2>3
  <2>4. CASE k = 1
    BY <1>2, <1>3, <1>10, <2>4
  <2>5. CASE k = 2
    BY <1>2, <1>3, <1>10, <2>5
  <2>6. CASE k = 3
    BY <1>2, <1>3, <1>10, <2>6
  <2> QED BY <2>1, <2>3, <2>4, <2>5, <2>6
<1> QED BY <1>8, <1>9, <1>10

\* The sentence before an answer, and its beginnings, are prose.
LEMMA ProseLetters ==
  /\ <<"x", "q", "nl">> \in Texts /\ Prose(<<"x", "q", "nl">>)
  /\ Prose(<<"x">>) /\ Prose(<<"x", "q">>)
<1>1. "x" \in CHARS /\ "q" \in CHARS /\ "nl" \in CHARS
  BY DEF CHARS
<1>2. <<"x">> \in Texts /\ <<"x", "q">> \in Texts /\ <<"x", "q", "nl">> \in Texts
  BY <1>1, ShortParts
<1>3. Prose(<<"x">>)
  <2>1. Len(<<"x">>) = 1 /\ <<"x">>[1] = "x"
    OBVIOUS
  <2> QED BY <1>2, <2>1 DEF Prose, Openers
<1>4. Prose(<<"x", "q">>)
  <2>1. Len(<<"x", "q">>) = 2 /\ <<"x", "q">>[1] = "x" /\ <<"x", "q">>[2] = "q"
    OBVIOUS
  <2> QED BY <1>2, <2>1 DEF Prose, Openers
<1>5. Prose(<<"x", "q", "nl">>)
  <2>1. /\ Len(<<"x", "q", "nl">>) = 3 /\ <<"x", "q", "nl">>[1] = "x"
        /\ <<"x", "q", "nl">>[2] = "q" /\ <<"x", "q", "nl">>[3] = "nl"
    OBVIOUS
  <2> QED BY <1>2, <2>1 DEF Prose, Openers
<1> QED BY <1>2, <1>3, <1>4, <1>5

\* Letters put together.
LEMMA JoinLetters ==
  ASSUME NEW p \in CHARS, NEW q \in CHARS, NEW r \in CHARS
  PROVE  <<p>> \o <<q>> = <<p, q>> /\ <<p>> \o <<q, r>> = <<p, q, r>>
<1> DEFINE a == <<p>>
           b == <<q>>
           c == <<q, r>>
           ab == <<p, q>>
           ac == <<p, q, r>>
           f == a \o b
           g == a \o c
<1>1. a \in Texts /\ b \in Texts /\ c \in Texts /\ ab \in Texts /\ ac \in Texts
  BY ShortParts
<1>2. /\ Len(a) = 1 /\ Len(b) = 1 /\ Len(c) = 2 /\ Len(ab) = 2 /\ Len(ac) = 3
      /\ a[1] = p /\ b[1] = q /\ c[1] = q /\ c[2] = r
      /\ ab[1] = p /\ ab[2] = q /\ ac[1] = p /\ ac[2] = q /\ ac[3] = r
  OBVIOUS
<1> HIDE DEF a, b, c, ab, ac
<1>3. /\ f \in Texts /\ Len(f) = Len(a) + Len(b)
      /\ \A i \in 1 .. Len(a) : f[i] = a[i]
      /\ \A i \in 1 .. Len(b) : f[Len(a) + i] = b[i]
  BY <1>1, At, Zenon
<1>4. /\ g \in Texts /\ Len(g) = Len(a) + Len(c)
      /\ \A i \in 1 .. Len(a) : g[i] = a[i]
      /\ \A i \in 1 .. Len(c) : g[Len(a) + i] = c[i]
  BY <1>1, At, Zenon
<1> HIDE DEF f, g
<1>5. f = ab
  <2>1. Len(f) = 2 /\ f[1] = p /\ f[1 + 1] = q
    BY <1>2, <1>3
  <2>2. \A i \in 1 .. Len(f) : f[i] = ab[i]
    BY <1>2, <2>1
  <2> QED BY <1>1, <1>2, <1>3, <2>1, <2>2, SameText
<1>6. g = ac
  <2>1. Len(g) = 3 /\ g[1] = p /\ g[1 + 1] = q /\ g[1 + 2] = r
    BY <1>2, <1>4
  <2>2. \A i \in 1 .. Len(g) : g[i] = ac[i]
    BY <1>2, <2>1
  <2> QED BY <1>1, <1>2, <1>4, <2>1, <2>2, SameText
<1> QED BY <1>5, <1>6 DEF f, g, a, b, c, ab, ac

\* A whole value that follows prose.
LEMMA ProseThenWhole ==
  ASSUME NEW d \in {1, 2}, NEW w \in Texts, NEW m \in Texts, Closed(d, w, m),
         NEW a, Prose(a), NEW z \in Texts
  PROVE  ParseJsonLeniently(a \o (Whole(d, w) \o z)) = ReadAs(d, w, m)
<1> DEFINE P == Whole(d, w)
           y == P \o z
<1>1. /\ Scan(y, "o").done /\ SubSeq(y, 1, Scan(y, "o").len) = P
      /\ y \in Texts /\ Len(y) >= 1 /\ y[1] = "o"
  BY WholeScans
<1>2. P \in Texts /\ Len(P) >= 1 /\ P[1] = "o"
  BY WholeBegins
<1>3. Parse(P) = Meaning(d, Unescape(w))
  BY WholeParses
<1>4. Parse(RepairJsonStringLiterals(P)) = Meaning(d, Unescape(m))
  <2>1. RepairJsonStringLiterals(P) = Whole(d, m)
    BY DEF Closed, RepairJsonStringLiterals
  <2> QED BY <2>1, WholeParses
<1> HIDE DEF P, y
<1>5. ParseJsonLeniently(a \o y) =
           IF Parse(P).ok THEN Parse(P)
           ELSE IF Parse(RepairJsonStringLiterals(P)).ok
             THEN Parse(RepairJsonStringLiterals(P))
             ELSE NoValue
  BY <1>1, <1>2, ProseFinds, BraceOpens, ZenonT(60)
<1>6. ~Meaning(d, Unescape(m)).ok => Meaning(d, Unescape(m)) = NoValue
  BY MeaningOrNone
<1>7. ParseJsonLeniently(a \o y) = ReadAs(d, w, m)
  BY <1>3, <1>4, <1>5, <1>6 DEF ReadAs
<1> QED BY <1>7 DEF y, P

\* An answer between two sentences.
LEMMA ProseLenient ==
  ASSUME NEW d \in {1, 2}, NEW w \in Texts, NEW m \in Texts, Closed(d, w, m),
         NEW n \in 1 .. Len((<<"x", "q", "nl">> \o Whole(d, w)) \o <<"nl", "q", "x">>)
  PROVE  LET full == (<<"x", "q", "nl">> \o Whole(d, w)) \o <<"nl", "q", "x">>
         IN  /\ ParseJsonLeniently(SubSeq(full, 1, n)) \in {NoValue, ReadAs(d, w, m)}
             /\ n = Len(full) => ParseJsonLeniently(SubSeq(full, 1, n)) = ReadAs(d, w, m)
<1> DEFINE P == Whole(d, w)
           a == <<"x", "q", "nl">>
           s == <<"nl", "q", "x">>
           full == (a \o P) \o s
           rest == P \o s
           text == SubSeq(full, 1, n)
           k == n - Len(a)
           j == k - Len(P)
           part == SubSeq(rest, 1, k)
<1> SUFFICES /\ ParseJsonLeniently(text) \in {NoValue, ReadAs(d, w, m)}
             /\ n = Len(full) => ParseJsonLeniently(text) = ReadAs(d, w, m)
  OBVIOUS
<1>1. P \in Texts /\ Len(P) \in Nat /\ Len(P) >= 2
  BY WholeBegins
<1>2. s \in Texts /\ Len(s) = 3
  <2>1. "x" \in CHARS /\ "q" \in CHARS /\ "nl" \in CHARS
    BY DEF CHARS
  <2> QED BY <2>1, ShortParts
<1>3. a \in Texts /\ Len(a) = 3 /\ Prose(a)
  <2>1. "x" \in CHARS /\ "q" \in CHARS /\ "nl" \in CHARS
    BY DEF CHARS
  <2> QED BY <2>1, ShortParts, ProseLetters
<1>4. \A b : Prose(b) => ParseJsonLeniently(b) = NoValue
  BY ProseAlone
<1>5. Prose(SubSeq(a, 1, 1)) /\ Prose(SubSeq(a, 1, 2))
  <2>1. "x" \in CHARS /\ "q" \in CHARS /\ "nl" \in CHARS
    BY DEF CHARS
  <2>2. SubSeq(a, 1, 1) = <<"x">> /\ SubSeq(a, 1, 2) = <<"x", "q">>
    BY <2>1, ShortParts
  <2> QED BY <2>2, ProseLetters
<1>6. \A z \in Texts : ParseJsonLeniently(a \o (P \o z)) = ReadAs(d, w, m)
  BY <1>3, ProseThenWhole
<1>7. \A i \in 1 .. Len(P) : i < Len(P) =>
        /\ SubSeq(P, 1, i) \in Texts /\ Len(SubSeq(P, 1, i)) >= 1
        /\ SubSeq(P, 1, i)[1] = "o" /\ ~Scan(SubSeq(P, 1, i), "o").done
  BY CutWhole
<1> HIDE DEF P, s, a
<1>8. full = a \o rest /\ rest \in Texts /\ Len(rest) = Len(P) + 3 /\ Len(full) = Len(P) + 6
  <2>1. full = a \o rest
    BY <1>1, <1>2, <1>3, TextsAssociate, ZenonT(60)
  <2>2. rest \in Texts /\ Len(rest) = Len(P) + 3
    <3>1. rest \in Texts /\ Len(rest) = Len(P) + Len(s)
      BY <1>1, <1>2, At, Zenon
    <3> QED BY <1>2, <3>1
  <2> HIDE DEF full, rest
  <2>3. Len(full) = Len(a) + Len(rest)
    BY <1>3, <2>1, <2>2, At, Zenon
  <2> QED BY <1>1, <1>3, <2>1, <2>2, <2>3
<1>9. n \in Nat /\ n >= 1 /\ n <= Len(P) + 6 /\ n \in 0 .. Len(a \o rest)
  <2>1. n \in 1 .. Len(full)
    BY DEF P, s, a
  <2> HIDE DEF full, rest
  <2> QED BY <1>1, <1>8, <2>1
<1>10. \/ n < Len(a) /\ text = SubSeq(a, 1, n)
       \/ k \in 0 .. Len(rest) /\ text = a \o part
  <2> HIDE DEF full, rest
  <2>1. \/ n < Len(a) /\ SubSeq(a \o rest, 1, n) = SubSeq(a, 1, n)
        \/ n - Len(a) \in 0 .. Len(rest)
           /\ SubSeq(a \o rest, 1, n) = a \o SubSeq(rest, 1, n - Len(a))
    BY <1>3, <1>8, <1>9, CutOf, Zenon
  <2> QED BY <1>8, <2>1
<1> HIDE DEF full, text
<1>11. CASE n < Len(a) /\ text = SubSeq(a, 1, n)
  <2>1. (n = 1 \/ n = 2) /\ n # Len(full)
    BY <1>1, <1>3, <1>8, <1>9, <1>11
  <2>2. Prose(text)
    BY <1>5, <1>11, <2>1
  <2> QED BY <1>4, <2>1, <2>2
<1>12. CASE k \in 0 .. Len(rest) /\ text = a \o part
  <2>1. k \in 0 .. Len(P \o s) /\ k \in Nat /\ (n = Len(full) => k = Len(P) + 3)
    BY <1>1, <1>3, <1>8, <1>9, <1>12
  <2>2. \/ k < Len(P) /\ part = SubSeq(P, 1, k)
        \/ k >= Len(P) /\ j \in 0 .. Len(s) /\ part = P \o SubSeq(s, 1, j)
    BY <1>1, <1>2, <2>1, CutOf, Zenon
  <2> HIDE DEF k
  <2>3. CASE k = 0
    <3>1. part = << >> /\ a \o << >> = a
      BY <1>3, <1>8, <2>3, SubSeqEmpty, ConcatEmptySeq DEF Texts
    <3>2. ParseJsonLeniently(text) = NoValue
      BY <1>3, <1>4, <1>12, <3>1
    <3> QED BY <1>1, <2>1, <2>3, <3>2
  <2>4. CASE k # 0 /\ k < Len(P) /\ part = SubSeq(P, 1, k)
    <3>1. k \in 1 .. Len(P)
      BY <1>1, <2>1, <2>4
    <3>2. part \in Texts /\ Len(part) >= 1 /\ part[1] = "o" /\ ~Scan(part, "o").done
      BY <1>7, <2>4, <3>1
    <3> HIDE DEF part
    <3>3. ParseJsonLeniently(text) = NoValue
      BY <1>3, <1>12, <3>2, ProseNone, BraceOpens
    <3> QED BY <1>1, <2>1, <2>4, <3>3
  <2>5. CASE k >= Len(P) /\ j \in 0 .. Len(s) /\ part = P \o SubSeq(s, 1, j)
    <3>1. SubSeq(s, 1, j) \in Texts
      BY <1>2, <2>5, PartAndRest
    <3>2. ParseJsonLeniently(text) = ReadAs(d, w, m)
      BY <1>6, <1>12, <2>5, <3>1
    <3> QED BY <3>2
  <2> QED BY <2>2, <2>3, <2>4, <2>5
<1> QED BY <1>10, <1>11, <1>12

\* One with a remark before it: the remark is what is read, if anything is.
LEMMA BracesLenient ==
  ASSUME NEW open \in Openers, NEW close, close = ClosedBy(open),
         NEW P \in Texts, NEW n \in 1 .. Len(<<"x", open, close>> \o P)
  PROVE  ParseJsonLeniently(SubSeq(<<"x", open, close>> \o P, 1, n)) \in {NoValue, Empty}
<1> DEFINE a == <<"x", open, close>>
           x == <<"x">>
           o == <<open>>
           oc == <<open, close>>
           full == a \o P
           text == SubSeq(full, 1, n)
           k == n - Len(a)
           z == SubSeq(P, 1, k)
<1> SUFFICES ParseJsonLeniently(text) \in {NoValue, Empty}
  OBVIOUS
<1>1. /\ a \in Texts /\ Len(a) = 3 /\ x \in Texts /\ Prose(x)
      /\ SubSeq(a, 1, 1) = x /\ SubSeq(a, 1, 2) = <<"x", open>>
  <2>1. "x" \in CHARS /\ open \in CHARS /\ close \in CHARS
    BY DEF CHARS, Openers, ClosedBy
  <2> QED BY <2>1, ShortParts, ProseLetters
<1>2. x \o o = <<"x", open>> /\ x \o oc = a
  <2>1. "x" \in CHARS /\ open \in CHARS /\ close \in CHARS
    BY DEF CHARS, Openers, ClosedBy
  <2> QED BY <2>1, JoinLetters
<1>3. o \in Texts /\ oc \in Texts /\ ~Scan(o, open).done /\ Len(o) >= 1 /\ o[1] = open /\ Len(oc) >= 1 /\ oc[1] = open
  BY BracesScan
<1>4. \/ Parse(oc) = Empty /\ Empty.ok
      \/ ~Parse(oc).ok /\ ~Parse(RepairJsonStringLiterals(oc)).ok
  <2>1. CASE open = "o"
    BY <2>1, BracesParse DEF Empty, ClosedBy
  <2>2. CASE open = "l"
    <3>1. oc \in Texts /\ Len(oc) >= 1 /\ oc[1] \in {"x", "l"}
      BY <1>3, <2>2
    <3> HIDE DEF oc
    <3> QED BY <3>1, ProseStays, ProseParses
  <2> QED BY <2>1, <2>2 DEF Openers
<1>5. \A q \in Texts : /\ oc \o q \in Texts /\ Len(oc \o q) >= 1 /\ (oc \o q)[1] = open
                       /\ Scan(oc \o q, open).done /\ SubSeq(oc \o q, 1, Scan(oc \o q, open).len) = oc
  BY RemarkScans
<1> HIDE DEF a, x, o, oc
<1>6. Len(full) = Len(a) + Len(P) /\ Len(P) \in Nat
  BY <1>1, At, Zenon
<1>7. n \in Nat /\ n >= 1 /\ n \in 0 .. Len(a \o P)
  <2>1. n \in 1 .. Len(full)
    BY DEF a
  <2> QED BY <1>1, <1>6, <2>1
<1>8. \/ n < Len(a) /\ text = SubSeq(a, 1, n)
      \/ k \in 0 .. Len(P) /\ text = a \o z
  BY <1>1, <1>7, CutOf, Zenon
<1> HIDE DEF text
<1>9. CASE n < Len(a) /\ text = SubSeq(a, 1, n)
  <2>1. n = 1 \/ n = 2
    BY <1>1, <1>7, <1>9
  <2>2. CASE n = 1
    BY <1>1, <1>9, <2>2, ProseAlone
  <2>3. CASE n = 2
    <3>1. text = x \o o
      BY <1>1, <1>2, <1>9, <2>3
    <3> QED BY <1>1, <1>3, <3>1, ProseNone
  <2> QED BY <2>1, <2>2, <2>3
<1>10. CASE k \in 0 .. Len(P) /\ text = a \o z
  <2>1. z \in Texts
    BY <1>10, PartAndRest
  <2> HIDE DEF z
  <2>2. text = x \o (oc \o z)
    <3>1. (x \o oc) \o z = x \o (oc \o z)
      <4>1. x \in Texts /\ oc \in Texts /\ z \in Texts
        BY <1>1, <1>3, <2>1
      <4> QED BY <4>1, TextsAssociate, ZenonT(60)
    <3> QED BY <1>2, <1>10, <3>1
  <2> DEFINE y == oc \o z
  <2>3. y \in Texts /\ Len(y) >= 1 /\ y[1] = open /\ Scan(y, open).done /\ oc = SubSeq(y, 1, Scan(y, open).len)
    BY <1>5, <2>1
  <2> HIDE DEF y
  <2>4. ParseJsonLeniently(x \o y) =
           IF Parse(oc).ok THEN Parse(oc)
           ELSE IF Parse(RepairJsonStringLiterals(oc)).ok
             THEN Parse(RepairJsonStringLiterals(oc))
             ELSE NoValue
    BY <1>1, <1>3, <2>3, ProseFinds, ZenonT(60)
  <2>5. ParseJsonLeniently(text) \in {NoValue, Empty}
    BY <1>4, <2>2, <2>4 DEF y
  <2> QED BY <2>5
<1> QED BY <1>8, <1>9, <1>10

\* An answer that something follows, after a letter: what is read begins there.
LEMMA ExampleLenient ==
  ASSUME NEW d \in {1, 2}, NEW w \in Texts, NEW m \in Texts, Closed(d, w, m), NEW other \in Texts,
         NEW n \in 1 .. Len(<<"x">> \o (Whole(d, w) \o (<<"nl">> \o other)))
  PROVE  LET full == <<"x">> \o (Whole(d, w) \o (<<"nl">> \o other))
         IN  ParseJsonLeniently(SubSeq(full, 1, n)) \in {NoValue, ReadAs(d, w, m)}
<1> DEFINE P == Whole(d, w)
           a == <<"x">>
           s == <<"nl">> \o other
           rest == P \o s
           full == a \o rest
           text == SubSeq(full, 1, n)
           k == n - Len(a)
           j == k - Len(P)
           part == SubSeq(rest, 1, k)
<1> SUFFICES ParseJsonLeniently(text) \in {NoValue, ReadAs(d, w, m)}
  OBVIOUS
<1>1. P \in Texts /\ Len(P) \in Nat
  BY WholeBegins
<1>2. s \in Texts
  <2>1. <<"nl">> \in Texts
    BY ShortParts DEF CHARS
  <2> QED BY <2>1, At, Zenon
<1>3. a \in Texts /\ Len(a) = 1 /\ Prose(a)
  BY ProseLetters DEF Prose
<1>4. ParseJsonLeniently(a) = NoValue
  BY <1>3, ProseAlone
<1>5. \A z \in Texts : ParseJsonLeniently(a \o (P \o z)) = ReadAs(d, w, m)
  BY <1>3, ProseThenWhole
<1>6. \A i \in 1 .. Len(P) : i < Len(P) =>
        /\ SubSeq(P, 1, i) \in Texts /\ Len(SubSeq(P, 1, i)) >= 1
        /\ SubSeq(P, 1, i)[1] = "o" /\ ~Scan(SubSeq(P, 1, i), "o").done
  BY CutWhole
<1> HIDE DEF P, s, a
<1>7. rest \in Texts /\ Len(rest) \in Nat
  <2>1. rest \in Texts
    BY <1>1, <1>2, At, Zenon
  <2> HIDE DEF rest
  <2> QED BY <2>1 DEF Texts
<1>8. n \in Nat /\ n >= 1 /\ n \in 0 .. Len(a \o rest)
  <2>1. n \in 1 .. Len(full)
    BY DEF P, s, a
  <2> HIDE DEF rest
  <2>2. Len(a \o rest) = Len(a) + Len(rest)
    BY <1>3, <1>7, At, Zenon
  <2> QED BY <1>3, <1>7, <2>1, <2>2
<1>9. k \in 0 .. Len(rest) /\ text = a \o part
  <2> HIDE DEF rest
  <2>1. \/ n < Len(a) /\ SubSeq(a \o rest, 1, n) = SubSeq(a, 1, n)
        \/ n - Len(a) \in 0 .. Len(rest)
           /\ SubSeq(a \o rest, 1, n) = a \o SubSeq(rest, 1, n - Len(a))
    BY <1>3, <1>7, <1>8, CutOf, Zenon
  <2>2. ~(n < Len(a))
    BY <1>3, <1>8
  <2> QED BY <2>1, <2>2
<1> HIDE DEF full, text
<1>10. k \in 0 .. Len(P \o s) /\ k \in Nat
  BY <1>3, <1>8, <1>9
<1>11. \/ k < Len(P) /\ part = SubSeq(P, 1, k)
       \/ k >= Len(P) /\ j \in 0 .. Len(s) /\ part = P \o SubSeq(s, 1, j)
  BY <1>1, <1>2, <1>10, CutOf, Zenon
<1> HIDE DEF k
<1>12. CASE k = 0
  <2>1. part = << >> /\ a \o << >> = a
    BY <1>3, <1>7, <1>12, SubSeqEmpty, ConcatEmptySeq DEF Texts
  <2> QED BY <1>4, <1>9, <2>1
<1>13. CASE k # 0 /\ k < Len(P) /\ part = SubSeq(P, 1, k)
  <2>1. k \in 1 .. Len(P)
    BY <1>1, <1>10, <1>13
  <2>2. part \in Texts /\ Len(part) >= 1 /\ part[1] = "o" /\ ~Scan(part, "o").done
    BY <1>6, <1>13, <2>1
  <2> HIDE DEF part
  <2>3. ParseJsonLeniently(text) = NoValue
    BY <1>3, <1>9, <2>2, BraceOpens, ProseNone
  <2> QED BY <2>3
<1>14. CASE k >= Len(P) /\ j \in 0 .. Len(s) /\ part = P \o SubSeq(s, 1, j)
  <2>1. SubSeq(s, 1, j) \in Texts
    BY <1>2, <1>14, PartAndRest
  <2>2. ParseJsonLeniently(text) = ReadAs(d, w, m)
    BY <1>5, <1>9, <1>14, <2>1
  <2> QED BY <2>2
<1> QED BY <1>11, <1>12, <1>13, <1>14

\* Where the text that is read stands: it is the example if there is one.
Wrapped(wrap, read, other) ==
  IF wrap = "example" THEN Around(wrap, other, read) ELSE Around(wrap, read, other)

\* However an answer is wrapped and wherever it is cut off, it is read as what
\* its text means, as the empty object of a remark, or not at all; a complete
\* one with nothing before it that hides it is read as what its text means.
LEMMA AroundLenient ==
  ASSUME NEW d \in {1, 2}, NEW w \in Texts, NEW m \in Texts, Closed(d, w, m),
         NEW wrap \in WRAPS, NEW other \in Texts,
         NEW n \in 1 .. Len(Wrapped(wrap, Whole(d, w), other))
  PROVE  LET full == Wrapped(wrap, Whole(d, w), other)
             read == ParseJsonLeniently(SubSeq(full, 1, n))
         IN  /\ read \in {NoValue, Empty, ReadAs(d, w, m)}
             /\ n = Len(full) /\ wrap \notin HIDING => read = ReadAs(d, w, m)
<1> DEFINE P == Whole(d, w)
<1>1. P \in Texts
  BY WholeBegins
<1>2. CASE wrap = "bare"
  <2>1. Wrapped(wrap, P, other) = P
    BY <1>2 DEF Around, Wrapped
  <2> QED BY <2>1, BareLenient
<1>3. CASE wrap = "prose"
  <2>1. Wrapped(wrap, P, other) = (<<"x", "q", "nl">> \o P) \o <<"nl", "q", "x">>
    BY <1>3 DEF Around, Wrapped
  <2> QED BY <2>1, ProseLenient
<1>4. CASE wrap = "after"
  <2>1. Wrapped(wrap, P, other) = P \o <<"x", "o", "c">>
    BY <1>4 DEF Around, Wrapped
  <2> QED BY <2>1, AfterLenient
<1>5. CASE wrap = "braces"
  <2>1. Wrapped(wrap, P, other) = <<"x", "o", "c">> \o P
    BY <1>5 DEF Around, Wrapped
  <2>2. "o" \in Openers /\ "c" = ClosedBy("o") /\ wrap \in HIDING
    BY <1>5 DEF Openers, ClosedBy, HIDING
  <2>3. \A i \in 1 .. Len(<<"x", "o", "c">> \o P) :
          ParseJsonLeniently(SubSeq(<<"x", "o", "c">> \o P, 1, i)) \in {NoValue, Empty}
    BY <1>1, <2>2, BracesLenient
  <2> QED BY <2>1, <2>2, <2>3
<1>6. CASE wrap = "brackets"
  <2>1. Wrapped(wrap, P, other) = <<"x", "l", "r">> \o P
    BY <1>6 DEF Around, Wrapped
  <2>2. "l" \in Openers /\ "r" = ClosedBy("l") /\ wrap \in HIDING
    BY <1>6 DEF Openers, ClosedBy, HIDING
  <2>3. \A i \in 1 .. Len(<<"x", "l", "r">> \o P) :
          ParseJsonLeniently(SubSeq(<<"x", "l", "r">> \o P, 1, i)) \in {NoValue, Empty}
    BY <1>1, <2>2, BracesLenient
  <2> QED BY <2>1, <2>2, <2>3
<1>7. CASE wrap = "example"
  <2>1. Wrapped(wrap, P, other) = <<"x">> \o (P \o (<<"nl">> \o other))
    BY <1>7 DEF Around, Wrapped
  <2>2. \A i \in 1 .. Len(<<"x">> \o (P \o (<<"nl">> \o other))) :
          ParseJsonLeniently(SubSeq(<<"x">> \o (P \o (<<"nl">> \o other)), 1, i))
            \in {NoValue, ReadAs(d, w, m)}
    BY ExampleLenient
  <2>3. wrap \in HIDING
    BY <1>7 DEF HIDING
  <2> QED BY <2>1, <2>2, <2>3
<1> QED BY <1>2, <1>3, <1>4, <1>5, <1>6, <1>7 DEF WRAPS, HIDING

-----------------------------------------------------------------------------
(* What the model has written so far, its repair, and what both say.       *)

\* Two characters appended one by one.
LEMMA AppendTwo ==
  ASSUME NEW a \in Texts, NEW p \in CHARS, NEW q \in CHARS
  PROVE  a \o <<p, q>> = Append(Append(a, p), q) /\ a \o <<p>> = Append(a, p)
<1>1. <<p>> \o <<q>> = <<p, q>>
  BY JoinLetters
<1>2. <<p>> \in Texts /\ <<q>> \in Texts
  BY ShortParts
<1>3. (a \o <<p>>) \o <<q>> = a \o (<<p>> \o <<q>>)
  BY <1>2, TextsAssociate
<1>4. Append(a, p) = a \o <<p>> /\ Append(a, p) \in Texts
  BY TextsJoin
<1>5. \A b \in Texts : Append(b, q) = b \o <<q>>
  BY AppendIsConcat DEF Texts
<1> QED BY <1>1, <1>3, <1>4, <1>5

\* What a string read so far says, unless it is no string any more.
Reads(s, t, esc) == Unescape(s).bad \/ (Unescape(s).out = t /\ Unescape(s).esc = esc)

\* Still readable if it was before.
StillGood(s, r) == ~Unescape(s).bad => ~Unescape(r).bad

\* What one character more makes of what a string says.
LEMMA ReadsOn ==
  ASSUME NEW s \in Texts, NEW t \in Texts, NEW esc \in BOOLEAN, Reads(s, t, esc), NEW ch \in CHARS
  PROVE  LET r == Append(s, ch)
         IN  /\ r \in Texts
             /\ esc /\ ch \in {"q", "b"} => Reads(r, Append(t, ch), FALSE) /\ StillGood(s, r)
             /\ esc /\ ch = "n" => Reads(r, Append(t, "nl"), FALSE) /\ StillGood(s, r)
             /\ esc /\ ch \notin {"q", "b", "n"} => \A t1, e1 : Reads(r, t1, e1)
             /\ ~esc /\ ch = "b" => Reads(r, t, TRUE) /\ StillGood(s, r)
             /\ ~esc /\ ch = "nl" => \A t1, e1 : Reads(r, t1, e1)
             /\ ~esc /\ ch \notin {"b", "q", "nl"} =>
                  Reads(r, Append(t, ch), FALSE) /\ StillGood(s, r)
<1> DEFINE r == Append(s, ch)
           acc == Unescape(s)
           next == Unescape(r)
<1>1. r \in Texts
  BY OneMore
<1>2. acc \in Unescapings /\ next = UnescapeStep(acc, ch)
  BY UnescapeRuns
<1>3. acc.bad \/ (acc.out = t /\ acc.esc = esc)
  BY DEF Reads
<1> SUFFICES /\ esc /\ ch \in {"q", "b"} => (next.bad \/ (next.out = Append(t, ch) /\ ~next.esc)) /\ (~acc.bad => ~next.bad)
             /\ esc /\ ch = "n" => (next.bad \/ (next.out = Append(t, "nl") /\ ~next.esc)) /\ (~acc.bad => ~next.bad)
             /\ esc /\ ch \notin {"q", "b", "n"} => next.bad
             /\ ~esc /\ ch = "b" => (next.bad \/ (next.out = t /\ next.esc)) /\ (~acc.bad => ~next.bad)
             /\ ~esc /\ ch = "nl" => next.bad
             /\ ~esc /\ ch \notin {"b", "q", "nl"} => (next.bad \/ (next.out = Append(t, ch) /\ ~next.esc)) /\ (~acc.bad => ~next.bad)
  <2>1. next \in Unescapings
    BY <1>1, UnescapeRuns
  <2>2. (~next.esc => next.esc = FALSE) /\ (next.esc => next.esc = TRUE)
    BY <2>1 DEF Unescapings
  <2> QED BY <1>1, <2>2 DEF Reads, StillGood
<1> HIDE DEF acc, next, r
<1>4. acc.bad => next.bad
  BY <1>2 DEF UnescapeStep, Unescapings
<1>5. ~acc.bad => acc.out = t /\ acc.esc = esc
  BY <1>3
<1> QED BY <1>2, <1>4, <1>5 DEF UnescapeStep, Unescapings

\* A quote more ends the string only where it is not escaped.
LEMMA NoQuoteOn ==
  ASSUME NEW s \in Texts, NoQuote(s), NEW ch \in CHARS,
         ch = "q" => Unescape(s).bad \/ Unescape(s).esc
  PROVE  NoQuote(Append(s, ch))
<1> DEFINE r == Append(s, ch)
<1>1. r \in Texts /\ Len(s) \in Nat /\ Len(r) = Len(s) + 1
  BY OneMore
<1>2. r[Len(s) + 1] = ch /\ \A i \in 1 .. Len(s) : r[i] = s[i]
  BY DEF Texts
<1>3. \A n \in 0 .. Len(s) : SubSeq(r, 1, n) = SubSeq(s, 1, n)
  <2> TAKE n \in 0 .. Len(s)
  <2>1. r = s \o <<ch>> /\ <<ch>> \in Texts
    BY TextsJoin
  <2> HIDE DEF r
  <2>2. n \in 0 .. Len(s \o <<ch>>)
    BY <1>1, <2>1
  <2>3. CASE n < Len(s)
    <3>1. ~(n >= Len(s))
      BY <1>1, <2>3
    <3> QED BY <2>1, <2>2, <3>1, CutOf, Zenon
  <2>4. CASE n >= Len(s)
    <3>1. n = Len(s) /\ n - Len(s) = 0 /\ ~(n < Len(s))
      BY <1>1, <2>4
    <3>2. SubSeq(s \o <<ch>>, 1, n) = s \o SubSeq(<<ch>>, 1, n - Len(s))
      BY <2>1, <2>2, <3>1, CutOf, Zenon
    <3>3. SubSeq(<<ch>>, 1, 0) = << >> /\ s \o << >> = s /\ SubSeq(s, 1, Len(s)) = s
      BY <2>1, SubSeqEmpty, ConcatEmptySeq, SubSeqFull DEF Texts
    <3> QED BY <2>1, <3>1, <3>2, <3>3
  <2> QED BY <1>1, <2>3, <2>4
<1>4. SubSeq(s, 1, Len(s)) = s
  BY SubSeqFull DEF Texts
<1> HIDE DEF r
<1>5. \A n \in 0 .. Len(r) - 1 :
        r[n + 1] = "q" => Unescape(SubSeq(r, 1, n)).bad \/ Unescape(SubSeq(r, 1, n)).esc
  <2> TAKE n \in 0 .. Len(r) - 1
  <2>1. n \in 0 .. Len(s) /\ (n = Len(s) \/ n \in 0 .. Len(s) - 1)
    BY <1>1
  <2>2. CASE n = Len(s)
    BY <1>2, <1>3, <1>4, <2>1, <2>2
  <2>3. CASE n \in 0 .. Len(s) - 1
    <3>1. n + 1 \in 1 .. Len(s)
      BY <1>1, <2>3
    <3>2. r[n + 1] = s[n + 1]
      BY <1>2, <3>1
    <3>3. SubSeq(r, 1, n) = SubSeq(s, 1, n)
      BY <1>3, <2>1
    <3> QED BY <2>3, <3>2, <3>3 DEF NoQuote
  <2> QED BY <2>1, <2>2, <2>3
<1> QED BY <1>5 DEF NoQuote, r

\* What one character makes of a repair.
Mended(out, in, esc) == [out |-> out, in |-> in, esc |-> esc]

\* Each kind of character, inside a string.
LEMMA RepairSteps ==
  ASSUME NEW out \in Texts, NEW ch \in CHARS
  PROVE  /\ ch \in VALID_JSON_ESCAPE_CHARS =>
              RepairStep(Mended(out, TRUE, TRUE), ch) = Mended(out \o <<ch>>, TRUE, FALSE)
         /\ ch \notin VALID_JSON_ESCAPE_CHARS =>
              RepairStep(Mended(out, TRUE, TRUE), ch) = Mended(out \o <<"b", ch>>, TRUE, FALSE)
         /\ ch = "b" =>
              RepairStep(Mended(out, TRUE, FALSE), ch) = Mended(Append(out, ch), TRUE, TRUE)
         /\ ch = "q" =>
              RepairStep(Mended(out, TRUE, FALSE), ch) = Mended(Append(out, ch), FALSE, FALSE)
         /\ ch = "nl" =>
              RepairStep(Mended(out, TRUE, FALSE), ch) = Mended(out \o <<"b", "n">>, TRUE, FALSE)
         /\ ch \notin {"b", "q", "nl"} =>
              RepairStep(Mended(out, TRUE, FALSE), ch) = Mended(Append(out, ch), TRUE, FALSE)
<1>1. ch \in VALID_JSON_ESCAPE_CHARS =>
        RepairStep(Mended(out, TRUE, TRUE), ch) = Mended(out \o <<ch>>, TRUE, FALSE)
  BY DEF RepairStep, Mended
<1>2. ch \notin VALID_JSON_ESCAPE_CHARS =>
        RepairStep(Mended(out, TRUE, TRUE), ch) = Mended(out \o <<"b", ch>>, TRUE, FALSE)
  BY DEF RepairStep, Mended
<1>3. ch = "b" => RepairStep(Mended(out, TRUE, FALSE), ch) = Mended(Append(out, ch), TRUE, TRUE)
  BY DEF RepairStep, Mended
<1>4. ch = "q" => RepairStep(Mended(out, TRUE, FALSE), ch) = Mended(Append(out, ch), FALSE, FALSE)
  BY DEF RepairStep, Mended
<1>5. ch = "nl" => RepairStep(Mended(out, TRUE, FALSE), ch) = Mended(out \o <<"b", "n">>, TRUE, FALSE)
  BY DEF RepairStep, Mended
<1>6. ch \notin {"b", "q", "nl"} =>
        RepairStep(Mended(out, TRUE, FALSE), ch) = Mended(Append(out, ch), TRUE, FALSE)
  BY DEF RepairStep, Mended
<1> QED BY <1>1, <1>2, <1>3, <1>4, <1>5, <1>6

\* What the repair has made of a string in d braces that is still open.
Repaired(d, w, m, esc) ==
  Repair(Opening(d) \o w) = Mended(Opening(d) \o m, TRUE, esc)

\* What one character more makes of the repair.
LEMMA RepairsOn ==
  ASSUME NEW d \in {1, 2}, NEW w \in Texts, NEW m \in Texts, NEW esc \in BOOLEAN,
         Repaired(d, w, m, esc), NEW ch \in CHARS
  PROVE  LET r == Append(w, ch)
         IN  /\ esc /\ ch \in VALID_JSON_ESCAPE_CHARS => Repaired(d, r, Append(m, ch), FALSE)
             /\ esc /\ ch \notin VALID_JSON_ESCAPE_CHARS =>
                  Repaired(d, r, Append(Append(m, "b"), ch), FALSE)
             /\ ~esc /\ ch = "b" => Repaired(d, r, Append(m, ch), TRUE)
             /\ ~esc /\ ch = "nl" => Repaired(d, r, Append(Append(m, "b"), "n"), FALSE)
             /\ ~esc /\ ch \notin {"b", "q", "nl"} => Repaired(d, r, Append(m, ch), FALSE)
<1> DEFINE f == Opening(d)
           fw == f \o w
           fm == f \o m
           r == Append(w, ch)
<1>1. f \in Texts
  BY OpeningAndClosing
<1> HIDE DEF f
<1>2. fw \in Texts /\ f \o r = Append(fw, ch)
  BY <1>1, OneMore
<1>3. fm \in Texts /\ f \o Append(m, ch) = Append(fm, ch)
  BY <1>1, OneMore
<1>4. "b" \in CHARS /\ "n" \in CHARS
  BY DEF CHARS
<1>5. Append(m, "b") \in Texts /\ f \o Append(m, "b") = Append(fm, "b")
  BY <1>1, <1>4, OneMore
<1>6. \A q \in CHARS : f \o Append(Append(m, "b"), q) = fm \o <<"b", q>>
  <2> TAKE q \in CHARS
  <2>1. f \o Append(Append(m, "b"), q) = Append(f \o Append(m, "b"), q)
    BY <1>1, <1>5, OneMore
  <2>2. fm \o <<"b", q>> = Append(Append(fm, "b"), q)
    BY <1>3, <1>4, AppendTwo
  <2> QED BY <1>5, <2>1, <2>2
<1>7. fm \o <<ch>> = Append(fm, ch)
  BY <1>3, AppendTwo
<1>8. Repair(fw) = Mended(fm, TRUE, esc)
  BY DEF Repaired, f
<1>9. Repair(f \o r) = RepairStep(Repair(fw), ch)
  BY <1>2, RepairRuns
<1> HIDE DEF fw, fm, r
<1>10. CASE esc /\ ch \in VALID_JSON_ESCAPE_CHARS
  <2>1. RepairStep(Repair(fw), ch) = Mended(fm \o <<ch>>, TRUE, FALSE)
    <3>1. esc = TRUE
      BY <1>10
    <3> QED BY <1>3, <1>8, <1>10, <3>1, RepairSteps
  <2>2. Repaired(d, r, Append(m, ch), FALSE)
    BY <1>3, <1>7, <1>9, <2>1 DEF Repaired, f
  <2> QED BY <1>10, <2>2 DEF r
<1>11. CASE esc /\ ch \notin VALID_JSON_ESCAPE_CHARS
  <2>1. RepairStep(Repair(fw), ch) = Mended(fm \o <<"b", ch>>, TRUE, FALSE)
    <3>1. esc = TRUE
      BY <1>11
    <3> QED BY <1>3, <1>8, <1>11, <3>1, RepairSteps
  <2>2. Repaired(d, r, Append(Append(m, "b"), ch), FALSE)
    BY <1>6, <1>9, <2>1 DEF Repaired, f
  <2> QED BY <1>11, <2>2 DEF r
<1>12. CASE ~esc /\ ch = "b"
  <2>1. RepairStep(Repair(fw), ch) = Mended(Append(fm, ch), TRUE, TRUE)
    <3>1. esc = FALSE
      BY <1>12
    <3> QED BY <1>3, <1>8, <1>12, <3>1, RepairSteps
  <2>2. Repaired(d, r, Append(m, ch), TRUE)
    BY <1>3, <1>9, <2>1 DEF Repaired, f
  <2> QED BY <1>12, <2>2 DEF r
<1>13. CASE ~esc /\ ch = "nl"
  <2>1. RepairStep(Repair(fw), ch) = Mended(fm \o <<"b", "n">>, TRUE, FALSE)
    <3>1. esc = FALSE
      BY <1>13
    <3> QED BY <1>3, <1>8, <1>13, <3>1, RepairSteps
  <2>2. Repaired(d, r, Append(Append(m, "b"), "n"), FALSE)
    BY <1>4, <1>6, <1>9, <2>1 DEF Repaired, f
  <2> QED BY <1>13, <2>2 DEF r
<1>14. CASE ~esc /\ ch \notin {"b", "q", "nl"}
  <2>1. RepairStep(Repair(fw), ch) = Mended(Append(fm, ch), TRUE, FALSE)
    <3>1. esc = FALSE
      BY <1>14
    <3> QED BY <1>3, <1>8, <1>14, <3>1, RepairSteps
  <2>2. Repaired(d, r, Append(m, ch), FALSE)
    BY <1>3, <1>9, <2>1 DEF Repaired, f
  <2> QED BY <1>14, <2>2 DEF r
<1>15. CASE ~esc /\ ch = "q"
  BY <1>15
<1> QED BY <1>10, <1>11, <1>12, <1>13, <1>14, <1>15

\* Where the scan is in one.
Within(d, w, esc) == Scan(Opening(d) \o w, "o") = Scanned(d, d + 1 + Len(w), TRUE, esc, FALSE)

\* A character more, if no quote without an escape, leaves the scan inside the string.
LEMMA ScansOn ==
  ASSUME NEW d \in {1, 2}, NEW w \in Texts, NEW esc \in BOOLEAN, Within(d, w, esc), NEW ch \in CHARS
  PROVE  /\ esc => Within(d, Append(w, ch), FALSE)
         /\ ~esc /\ ch = "b" => Within(d, Append(w, ch), TRUE)
         /\ ~esc /\ ch \notin {"b", "q"} => Within(d, Append(w, ch), FALSE)
<1> DEFINE f == Opening(d)
           r == Append(w, ch)
           n == d + 1 + Len(w)
<1>1. f \in Texts
  BY OpeningAndClosing
<1> HIDE DEF f
<1>2. /\ f \o w \in Texts /\ f \o r = Append(f \o w, ch) /\ Len(w) \in Nat
      /\ Len(r) = Len(w) + 1
  BY <1>1, OneMore
<1>3. Scan(f \o w, "o") = Scanned(d, n, TRUE, esc, FALSE)
  BY DEF Within, f
<1>4. Scan(f \o r, "o") = ScanStep(Scan(f \o w, "o"), ch, "o")
  BY <1>1, <1>2, ScanRuns
<1> HIDE DEF r
<1>5. d \in Int /\ n \in Int /\ d + 1 + Len(r) = n + 1
  BY <1>2
<1> HIDE DEF n
<1>6. CASE esc
  <2>1. Scan(f \o r, "o") = Scanned(d, n + 1, TRUE, FALSE, FALSE)
    <3>1. esc = TRUE
      BY <1>6
    <3>2. ScanStep(Scanned(d, n, TRUE, TRUE, FALSE), ch, "o") = Scanned(d, n + 1, TRUE, FALSE, FALSE)
      BY <1>5, <1>6, ScanSteps, Zenon
    <3> QED BY <1>3, <1>4, <3>1, <3>2
  <2>2. Within(d, r, FALSE)
    BY <1>5, <2>1 DEF Within, f
  <2> QED BY <1>6, <2>2 DEF r
<1>7. CASE ~esc /\ ch = "b"
  <2>1. Scan(f \o r, "o") = Scanned(d, n + 1, TRUE, TRUE, FALSE)
    <3>1. esc = FALSE
      BY <1>7
    <3>2. ScanStep(Scanned(d, n, TRUE, FALSE, FALSE), ch, "o") = Scanned(d, n + 1, TRUE, TRUE, FALSE)
      BY <1>5, <1>7, ScanSteps, Zenon
    <3> QED BY <1>3, <1>4, <3>1, <3>2
  <2>2. Within(d, r, TRUE)
    BY <1>5, <2>1 DEF Within, f
  <2> QED BY <1>7, <2>2 DEF r
<1>8. CASE ~esc /\ ch \notin {"b", "q"}
  <2>1. Scan(f \o r, "o") = Scanned(d, n + 1, TRUE, FALSE, FALSE)
    <3>1. esc = FALSE
      BY <1>8
    <3>2. ScanStep(Scanned(d, n, TRUE, FALSE, FALSE), ch, "o") = Scanned(d, n + 1, TRUE, FALSE, FALSE)
      BY <1>5, <1>8, ScanSteps, Zenon
    <3> QED BY <1>3, <1>4, <3>1, <3>2
  <2>2. Within(d, r, FALSE)
    BY <1>5, <2>1 DEF Within, f
  <2> QED BY <1>8, <2>2 DEF r
<1> QED BY <1>6, <1>7, <1>8

\* The string written so far and its repair both say t or nothing at all; the
\* repair says t if nothing but repairable damage was done to it (clean).
Matched(d, w, m, t, esc, clean) ==
  /\ w \in Texts /\ m \in Texts /\ t \in Texts
  /\ Reads(w, t, esc) /\ Reads(m, t, esc)
  /\ clean => ~Unescape(m).bad
  /\ NoQuote(w) /\ NoQuote(m)
  /\ Repaired(d, w, m, esc) /\ Within(d, w, esc)

\* Nothing written says nothing.
LEMMA MatchedEmpty ==
  ASSUME NEW d \in {1, 2}
  PROVE  Matched(d, << >>, << >>, << >>, FALSE, TRUE)
<1>1. << >> \in Texts /\ Len(<< >>) = 0
  BY DEF Texts
<1>2. Reads(<< >>, << >>, FALSE) /\ ~Unescape(<< >>).bad
  BY UnescapeRuns DEF Reads, NothingUnescaped
<1>3. NoQuote(<< >>)
  BY <1>1 DEF NoQuote
<1>4. /\ << >> \in Texts /\ "o" \in CHARS /\ "q" \in CHARS
      /\ <<"o">> \in Texts /\ <<"o", "q">> \in Texts /\ <<"o", "o">> \in Texts /\ <<"o", "o", "q">> \in Texts
      /\ Append(<< >>, "o") = <<"o">> /\ Append(<<"o">>, "q") = <<"o", "q">>
      /\ Append(<<"o">>, "o") = <<"o", "o">> /\ Append(<<"o", "o">>, "q") = <<"o", "o", "q">>
  <2>1. "o" \in CHARS /\ "q" \in CHARS
    BY DEF CHARS
  <2>2. /\ <<"o">> \in Texts /\ <<"o", "q">> \in Texts /\ <<"o", "o">> \in Texts
        /\ <<"o", "o", "q">> \in Texts /\ << >> \in Texts
    BY <2>1, ShortParts
  <2>3. Append(<< >>, "o") = <<"o">>
    <3>1. << >> \o <<"o">> = <<"o">> /\ Append(<< >>, "o") = << >> \o <<"o">>
      BY <2>1, <2>2, ConcatEmptySeq, AppendIsConcat DEF Texts
    <3> QED BY <3>1
  <2>4. Append(<<"o">>, "q") = <<"o", "q">> /\ Append(<<"o">>, "o") = <<"o", "o">>
    <3>1. <<"o">> \o <<"q">> = <<"o", "q">> /\ <<"o">> \o <<"o">> = <<"o", "o">>
      BY <2>1, JoinLetters
    <3>2. Append(<<"o">>, "q") = <<"o">> \o <<"q">> /\ Append(<<"o">>, "o") = <<"o">> \o <<"o">>
      BY <2>1, <2>2, AppendTwo
    <3> QED BY <3>1, <3>2
  <2>5. Append(<<"o", "o">>, "q") = <<"o", "o", "q">>
    <3>1. <<"o">> \o <<"o", "q">> = <<"o", "o", "q">>
      BY <2>1, JoinLetters
    <3>2. <<"o">> \o <<"o", "q">> = Append(Append(<<"o">>, "o"), "q")
      BY <2>1, <2>2, AppendTwo
    <3> QED BY <2>4, <3>1, <3>2
  <2> QED BY <2>1, <2>2, <2>3, <2>4, <2>5
<1> DEFINE z == << >>
           a == <<"o">>
           b == <<"o", "q">>
           c == <<"o", "o">>
           e == <<"o", "o", "q">>
<1>5. /\ z \in Texts /\ a \in Texts /\ b \in Texts /\ c \in Texts /\ e \in Texts
      /\ Append(z, "o") = a /\ Append(a, "q") = b /\ Append(a, "o") = c /\ Append(c, "q") = e
  BY <1>4
<1>6. /\ Repair(z) = Mended(z, FALSE, FALSE) /\ Scan(z, "o") = Scanned(0, 0, FALSE, FALSE, FALSE)
  BY RepairRuns, ScanRuns DEF Mended, Scanned, NothingRepaired, NothingScanned
<1>7. (d = 1 => Opening(d) = b) /\ (d = 2 => Opening(d) = e)
  BY DEF Opening
<1>8. Len(z) = 0
  OBVIOUS
<1> HIDE DEF z, a, b, c, e
<1>9. \A out \in Texts :
        /\ RepairStep(Mended(out, FALSE, FALSE), "o") = Mended(Append(out, "o"), FALSE, FALSE)
        /\ RepairStep(Mended(out, FALSE, FALSE), "q") = Mended(Append(out, "q"), TRUE, FALSE)
  BY DEF RepairStep, Mended
<1>10. Repair(b) = Mended(b, TRUE, FALSE) /\ Repair(e) = Mended(e, TRUE, FALSE)
  <2>1. Repair(a) = Mended(a, FALSE, FALSE)
    BY <1>4, <1>5, <1>6, <1>9, RepairRuns
  <2>2. Repair(c) = Mended(c, FALSE, FALSE)
    BY <1>4, <1>5, <1>9, <2>1, RepairRuns
  <2>3. Repair(b) = Mended(b, TRUE, FALSE)
    BY <1>4, <1>5, <1>9, <2>1, RepairRuns
  <2>4. Repair(e) = Mended(e, TRUE, FALSE)
    BY <1>4, <1>5, <1>9, <2>2, RepairRuns
  <2> QED BY <2>3, <2>4
<1>11. Scan(b, "o") = Scanned(1, 2, TRUE, FALSE, FALSE) /\ Scan(e, "o") = Scanned(2, 3, TRUE, FALSE, FALSE)
  <2>1. \A k \in Int, n \in Int :
          /\ ScanStep(Scanned(k, n, FALSE, FALSE, FALSE), "o", "o") = Scanned(k + 1, n + 1, FALSE, FALSE, FALSE)
          /\ ScanStep(Scanned(k, n, FALSE, FALSE, FALSE), "q", "o") = Scanned(k, n + 1, TRUE, FALSE, FALSE)
    <3> TAKE k \in Int, n \in Int
    <3>1. ScanStep(Scanned(k, n, FALSE, FALSE, FALSE), "o", "o") = Scanned(k + 1, n + 1, FALSE, FALSE, FALSE)
      BY DEF ScanStep, ClosedBy, Scanned
    <3>2. ScanStep(Scanned(k, n, FALSE, FALSE, FALSE), "q", "o") = Scanned(k, n + 1, TRUE, FALSE, FALSE)
      BY DEF ScanStep, ClosedBy, Scanned
    <3> QED BY <3>1, <3>2
  <2>2. 0 + 1 = 1 /\ 1 + 1 = 2 /\ 2 + 1 = 3 /\ 0 \in Int /\ 1 \in Int /\ 2 \in Int
    OBVIOUS
  <2>3. /\ Scan(a, "o") = ScanStep(Scan(z, "o"), "o", "o") /\ Scan(c, "o") = ScanStep(Scan(a, "o"), "o", "o")
        /\ Scan(b, "o") = ScanStep(Scan(a, "o"), "q", "o") /\ Scan(e, "o") = ScanStep(Scan(c, "o"), "q", "o")
    BY <1>4, <1>5, ScanRuns
  <2>4. Scan(a, "o") = Scanned(1, 1, FALSE, FALSE, FALSE)
    BY <1>6, <2>1, <2>2, <2>3
  <2>5. Scan(c, "o") = Scanned(2, 2, FALSE, FALSE, FALSE)
    BY <2>1, <2>2, <2>3, <2>4
  <2>6. Scan(b, "o") = Scanned(1, 2, TRUE, FALSE, FALSE)
    BY <2>1, <2>2, <2>3, <2>4
  <2>7. Scan(e, "o") = Scanned(2, 3, TRUE, FALSE, FALSE)
    BY <2>1, <2>2, <2>3, <2>5
  <2> QED BY <2>6, <2>7
<1>12. Opening(d) \o z = Opening(d) /\ d + 1 + Len(z) = d + 1
  <2>1. Opening(d) \in Texts
    BY OpeningAndClosing
  <2>2. Opening(d) \o << >> = Opening(d)
    BY <2>1, ConcatEmptySeq DEF Texts
  <2> QED BY <1>8, <2>2 DEF z
<1>13. Repaired(d, z, z, FALSE)
  BY <1>7, <1>10, <1>12 DEF Repaired
<1>14. Within(d, z, FALSE)
  <2>1. d = 1 \/ d = 2
    OBVIOUS
  <2>2. CASE d = 1
    <3>1. Opening(d) \o z = b /\ d + 1 + Len(z) = 2
      BY <1>7, <1>12, <2>2
    <3>2. Scan(Opening(d) \o z, "o") = Scanned(d, d + 1 + Len(z), TRUE, FALSE, FALSE)
      BY <1>11, <2>2, <3>1
    <3> QED BY <3>2 DEF Within
  <2>3. CASE d = 2
    <3>1. Opening(d) \o z = e /\ d + 1 + Len(z) = 3
      BY <1>7, <1>12, <2>3
    <3>2. Scan(Opening(d) \o z, "o") = Scanned(d, d + 1 + Len(z), TRUE, FALSE, FALSE)
      BY <1>11, <2>3, <3>1
    <3> QED BY <3>2 DEF Within
  <2> QED BY <2>1, <2>2, <2>3
<1> QED BY <1>1, <1>2, <1>3, <1>13, <1>14 DEF Matched, z

\* What one character more makes of the two: the heart of the argument.
LEMMA MatchedOn ==
  ASSUME NEW d \in {1, 2}, NEW w, NEW m, NEW t, NEW esc \in BOOLEAN, NEW clean \in BOOLEAN,
         Matched(d, w, m, t, esc, clean), NEW ch \in CHARS
  PROVE  LET r == Append(w, ch)
         IN  /\ esc /\ ch \in {"q", "b"} =>
                  Matched(d, r, Append(m, ch), Append(t, ch), FALSE, clean)
             /\ esc /\ ch = "n" =>
                  Matched(d, r, Append(m, ch), Append(t, "nl"), FALSE, clean)
             /\ esc /\ ch \in {"x", "o", "c", "l", "r"} =>
                  Matched(d, r, Append(Append(m, "b"), ch), Append(Append(t, "b"), ch), FALSE, clean)
             /\ esc /\ ch = "nl" =>
                  Matched(d, r, Append(Append(m, "b"), ch), Append(Append(t, "b"), ch), FALSE, FALSE)
             /\ ~esc /\ ch = "b" => Matched(d, r, Append(m, ch), t, TRUE, clean)
             /\ ~esc /\ ch = "nl" =>
                  Matched(d, r, Append(Append(m, "b"), "n"), Append(t, ch), FALSE, clean)
             /\ ~esc /\ ch \notin {"b", "q", "nl"} =>
                  Matched(d, r, Append(m, ch), Append(t, ch), FALSE, clean)
<1> DEFINE r == Append(w, ch)
           mc == Append(m, ch)
           mb == Append(m, "b")
           tb == Append(t, "b")
           mbc == Append(mb, ch)
           mbn == Append(mb, "n")
           tc == Append(t, ch)
           tn == Append(t, "nl")
           tbc == Append(tb, ch)
<1> USE DEF Matched
<1>1. "b" \in CHARS /\ "n" \in CHARS /\ "nl" \in CHARS
  BY DEF CHARS
<1>2. \A s \in Texts, q \in CHARS : Append(s, q) \in Texts
  BY OneMore
<1>3. /\ r \in Texts /\ mc \in Texts /\ mb \in Texts /\ mbc \in Texts /\ mbn \in Texts
      /\ tc \in Texts /\ tn \in Texts /\ tb \in Texts /\ tbc \in Texts
  BY <1>1, <1>2
<1>4. /\ NoQuote(mb)
      /\ (ch = "q" => esc) => NoQuote(r) /\ NoQuote(mc)
      /\ ch # "q" => NoQuote(mbc)
      /\ NoQuote(mbn)
  <2>1. NoQuote(mb)
    BY <1>1, NoQuoteOn
  <2>2. (ch = "q" => esc) => NoQuote(r)
    BY NoQuoteOn DEF Reads
  <2>3. (ch = "q" => esc) => NoQuote(mc)
    BY NoQuoteOn DEF Reads
  <2> HIDE DEF mb
  <2>4. ch # "q" => NoQuote(mbc)
    BY <1>3, <2>1, NoQuoteOn
  <2>5. NoQuote(mbn)
    BY <1>1, <1>3, <2>1, NoQuoteOn
  <2> QED BY <2>1, <2>2, <2>3, <2>4, <2>5
<1>5. /\ esc /\ ch \in {"q", "b"} => Reads(r, tc, FALSE) /\ Reads(mc, tc, FALSE) /\ StillGood(m, mc)
      /\ esc /\ ch = "n" => Reads(r, tn, FALSE) /\ Reads(mc, tn, FALSE) /\ StillGood(m, mc)
      /\ ~esc /\ ch = "b" => Reads(r, t, TRUE) /\ Reads(mc, t, TRUE) /\ StillGood(m, mc)
      /\ ~esc /\ ch \notin {"b", "q", "nl"} =>
           Reads(r, tc, FALSE) /\ Reads(mc, tc, FALSE) /\ StillGood(m, mc)
      /\ esc /\ ch \notin {"q", "b", "n"} => Reads(r, tbc, FALSE)
      /\ ~esc /\ ch = "nl" => Reads(r, tc, FALSE)
  <2>1. /\ esc /\ ch \in {"q", "b"} => Reads(r, tc, FALSE)
        /\ esc /\ ch = "n" => Reads(r, tn, FALSE)
        /\ ~esc /\ ch = "b" => Reads(r, t, TRUE)
        /\ ~esc /\ ch \notin {"b", "q", "nl"} => Reads(r, tc, FALSE)
        /\ esc /\ ch \notin {"q", "b", "n"} => \A t1, e1 : Reads(r, t1, e1)
        /\ ~esc /\ ch = "nl" => \A t1, e1 : Reads(r, t1, e1)
    BY ReadsOn
  <2>2. /\ esc /\ ch \in {"q", "b"} => Reads(mc, tc, FALSE) /\ StillGood(m, mc)
        /\ esc /\ ch = "n" => Reads(mc, tn, FALSE) /\ StillGood(m, mc)
        /\ ~esc /\ ch = "b" => Reads(mc, t, TRUE) /\ StillGood(m, mc)
        /\ ~esc /\ ch \notin {"b", "q", "nl"} => Reads(mc, tc, FALSE) /\ StillGood(m, mc)
    BY ReadsOn
  <2> HIDE DEF r, mc, tc, tn, tbc, Matched
  <2> QED BY <2>1, <2>2
<1>6. esc => Reads(mb, tb, FALSE) /\ StillGood(m, mb)
  BY <1>1, ReadsOn
<1>7. ~esc => Reads(mb, t, TRUE) /\ StillGood(m, mb)
  BY <1>1, ReadsOn
<1>8. esc /\ ch \in {"x", "o", "c", "l", "r"} => Reads(mbc, tbc, FALSE) /\ StillGood(mb, mbc)
  <2> SUFFICES ASSUME esc, ch \in {"x", "o", "c", "l", "r"}
               PROVE  Reads(mbc, tbc, FALSE) /\ StillGood(mb, mbc)
    OBVIOUS
  <2>1. Reads(mb, tb, FALSE) /\ FALSE \in BOOLEAN /\ ch \notin {"b", "q", "nl"}
    BY <1>6
  <2> HIDE DEF mb, tb, Matched
  <2> QED BY <1>3, <2>1, ReadsOn
<1>9. esc /\ ch = "nl" => Reads(mbc, tbc, FALSE)
  <2> SUFFICES ASSUME esc, ch = "nl"
               PROVE  Reads(mbc, tbc, FALSE)
    OBVIOUS
  <2>1. Reads(mb, tb, FALSE) /\ FALSE \in BOOLEAN
    BY <1>6
  <2> HIDE DEF mb, tb, Matched
  <2> QED BY <1>3, <2>1, ReadsOn
<1>10. ~esc => Reads(mbn, tn, FALSE) /\ StillGood(mb, mbn)
  <2> SUFFICES ASSUME ~esc
               PROVE  Reads(mbn, tn, FALSE) /\ StillGood(mb, mbn)
    OBVIOUS
  <2>1. Reads(mb, t, TRUE) /\ TRUE \in BOOLEAN
    BY <1>7
  <2> HIDE DEF mb, Matched
  <2>2. t \in Texts
    BY DEF Matched
  <2> QED BY <1>1, <1>3, <2>1, <2>2, ReadsOn
<1>11. /\ esc /\ ch \in {"q", "b", "n"} => Repaired(d, r, mc, FALSE)
       /\ esc /\ ch \in {"x", "o", "c", "l", "r", "nl"} => Repaired(d, r, mbc, FALSE)
       /\ ~esc /\ ch = "b" => Repaired(d, r, mc, TRUE)
       /\ ~esc /\ ch = "nl" => Repaired(d, r, mbn, FALSE)
       /\ ~esc /\ ch \notin {"b", "q", "nl"} => Repaired(d, r, mc, FALSE)
  BY RepairsOn DEF VALID_JSON_ESCAPE_CHARS
<1>12. /\ esc => Within(d, r, FALSE)
       /\ ~esc /\ ch = "b" => Within(d, r, TRUE)
       /\ ~esc /\ ch \notin {"b", "q"} => Within(d, r, FALSE)
  BY ScansOn
<1>13. t \in Texts /\ (clean => ~Unescape(m).bad)
  OBVIOUS
<1> HIDE DEF r, mc, mb, tb, mbc, mbn, tc, tn, tbc
<1>14. ch \in {"q", "b"} /\ esc => Matched(d, r, mc, tc, FALSE, clean)
  BY <1>3, <1>4, <1>5, <1>11, <1>12, <1>13 DEF StillGood
<1>15. ch = "n" /\ esc => Matched(d, r, mc, tn, FALSE, clean)
  BY <1>3, <1>4, <1>5, <1>11, <1>12, <1>13 DEF StillGood
<1>16. ch \in {"x", "o", "c", "l", "r"} /\ esc => Matched(d, r, mbc, tbc, FALSE, clean)
  BY <1>3, <1>4, <1>5, <1>6, <1>8, <1>11, <1>12, <1>13 DEF StillGood
<1>17. ch = "nl" /\ esc => Matched(d, r, mbc, tbc, FALSE, FALSE)
  BY <1>3, <1>4, <1>5, <1>9, <1>11, <1>12, <1>13 DEF StillGood
<1>18. ch = "b" /\ ~esc => Matched(d, r, mc, t, TRUE, clean)
  BY <1>3, <1>4, <1>5, <1>11, <1>12, <1>13 DEF StillGood
<1>19. ch = "nl" /\ ~esc => Matched(d, r, mbn, tc, FALSE, clean)
  <2>1. ch = "nl" => tn = tc
    BY DEF tn, tc
  <2> QED BY <1>3, <1>4, <1>5, <1>7, <1>10, <1>11, <1>12, <1>13, <2>1 DEF StillGood
<1>20. ch \notin {"b", "q", "nl"} /\ ~esc => Matched(d, r, mc, tc, FALSE, clean)
  BY <1>3, <1>4, <1>5, <1>11, <1>12, <1>13 DEF StillGood
<1> HIDE DEF Matched
<1> QED BY <1>14, <1>15, <1>16, <1>17, <1>18, <1>19, <1>20 DEF r, mc, mb, tb, mbc, mbn, tc, tn, tbc

\* Three characters appended one by one.
LEMMA AppendThree ==
  ASSUME NEW a \in Texts, NEW p \in CHARS, NEW q \in CHARS, NEW r \in CHARS
  PROVE  a \o <<p, q, r>> = Append(Append(Append(a, p), q), r)
<1>1. <<p>> \o <<q, r>> = <<p, q, r>>
  BY JoinLetters
<1>2. <<p>> \in Texts /\ <<q, r>> \in Texts
  BY ShortParts
<1>3. (a \o <<p>>) \o <<q, r>> = a \o (<<p>> \o <<q, r>>)
  BY <1>2, TextsAssociate
<1>4. Append(a, p) = a \o <<p>> /\ Append(a, p) \in Texts
  BY TextsJoin
<1>5. \A b \in Texts : b \o <<q, r>> = Append(Append(b, q), r)
  BY AppendTwo
<1> QED BY <1>1, <1>3, <1>4, <1>5

\* What a string in d braces is read as.
Said(d, t) == [ok |-> TRUE, depth |-> d, text |-> t, str |-> TRUE]

\* The repair of a string that is closed ends outside of it.
LEMMA RepairsClosed ==
  ASSUME NEW d \in {1, 2}, NEW w \in Texts, NEW m \in Texts, Repaired(d, w, m, FALSE)
  PROVE  Repair(Whole(d, w)) = [out |-> Whole(d, m), in |-> FALSE, esc |-> FALSE]
<1> DEFINE f == Opening(d)
           fw == f \o w
           fm == f \o m
           w1 == Append(fw, "q")
           w2 == Append(w1, "c")
           w3 == Append(w2, "c")
           m1 == Append(fm, "q")
           m2 == Append(m1, "c")
           m3 == Append(m2, "c")
<1>1. "q" \in CHARS /\ "c" \in CHARS
  BY DEF CHARS
<1>2. fw \in Texts /\ fm \in Texts
  <2>1. f \in Texts
    BY OpeningAndClosing
  <2> QED BY <2>1, TextsJoin, <1>1
<1>3. Repair(fw) = Mended(fm, TRUE, FALSE)
  BY DEF Repaired
<1>4. /\ d = 1 => Whole(d, w) = fw \o <<"q", "c">> /\ Whole(d, m) = fm \o <<"q", "c">>
      /\ d = 2 => Whole(d, w) = fw \o <<"q", "c", "c">> /\ Whole(d, m) = fm \o <<"q", "c", "c">>
  BY DEF Whole, Closing
<1> HIDE DEF fw, fm
<1>5. /\ w1 \in Texts /\ w2 \in Texts /\ m1 \in Texts /\ m2 \in Texts
  BY <1>1, <1>2, OneMore
<1>6. /\ fw \o <<"q", "c">> = w2 /\ fm \o <<"q", "c">> = m2
      /\ fw \o <<"q", "c", "c">> = w3 /\ fm \o <<"q", "c", "c">> = m3
  BY <1>1, <1>2, AppendTwo, AppendThree
<1>7. Repair(w1) = Mended(m1, FALSE, FALSE)
  <2>1. Repair(w1) = RepairStep(Repair(fw), "q")
    BY <1>1, <1>2, RepairRuns
  <2> QED BY <1>1, <1>2, <1>3, <2>1, RepairSteps
<1> HIDE DEF w1, m1
<1>8. Repair(w2) = Mended(m2, FALSE, FALSE)
  BY <1>5, <1>7, RepairsOutside DEF Mended
<1> HIDE DEF w2, m2
<1>9. Repair(w3) = Mended(m3, FALSE, FALSE)
  BY <1>5, <1>8, RepairsOutside DEF Mended
<1> HIDE DEF w3, m3
<1>10. Repair(Whole(d, w)) = Mended(Whole(d, m), FALSE, FALSE)
  BY <1>4, <1>6, <1>8, <1>9
<1> QED BY <1>10 DEF Mended

\* A closing brace outside a string.
LEMMA ScanShuts ==
  ASSUME NEW n \in Int, NEW e \in Int
  PROVE  /\ e = 1 => ScanStep(Scanned(e, n, FALSE, FALSE, FALSE), "c", "o") = Scanned(e - 1, n + 1, FALSE, FALSE, TRUE)
         /\ e # 1 => ScanStep(Scanned(e, n, FALSE, FALSE, FALSE), "c", "o") = Scanned(e - 1, n + 1, FALSE, FALSE, FALSE)
<1>1. CASE e = 1
  <2>1. (e = 1) = TRUE
    BY <1>1
  <2>2. "c" \in CHARS
    BY DEF CHARS
  <2>3. ScanStep(Scanned(e, n, FALSE, FALSE, FALSE), "c", "o") = Scanned(e - 1, n + 1, FALSE, FALSE, e = 1)
    BY <2>2, ScanSteps
  <2>4. Scanned(e - 1, n + 1, FALSE, FALSE, e = 1) = Scanned(e - 1, n + 1, FALSE, FALSE, TRUE)
    BY <2>1 DEF Scanned
  <2> QED BY <1>1, <2>3, <2>4
<1>2. CASE e # 1
  <2>1. (e = 1) = FALSE
    BY <1>2
  <2>2. "c" \in CHARS
    BY DEF CHARS
  <2>3. ScanStep(Scanned(e, n, FALSE, FALSE, FALSE), "c", "o") = Scanned(e - 1, n + 1, FALSE, FALSE, e = 1)
    BY <2>2, ScanSteps
  <2>4. Scanned(e - 1, n + 1, FALSE, FALSE, e = 1) = Scanned(e - 1, n + 1, FALSE, FALSE, FALSE)
    BY <2>1 DEF Scanned
  <2> QED BY <1>2, <2>3, <2>4
<1> QED BY <1>1, <1>2

\* The characters that close a string and its braces.
LEMMA ScanCloses ==
  ASSUME NEW n \in Int, NEW d \in {1, 2}
  PROVE  /\ ScanStep(Scanned(d, n, TRUE, FALSE, FALSE), "q", "o") = Scanned(d, n + 1, FALSE, FALSE, FALSE)
         /\ ScanStep(Scanned(1, n, FALSE, FALSE, FALSE), "c", "o") = Scanned(0, n + 1, FALSE, FALSE, TRUE)
         /\ ScanStep(Scanned(2, n, FALSE, FALSE, FALSE), "c", "o") = Scanned(1, n + 1, FALSE, FALSE, FALSE)
<1>1. ScanStep(Scanned(d, n, TRUE, FALSE, FALSE), "q", "o") = Scanned(d, n + 1, FALSE, FALSE, FALSE)
  BY DEF ScanStep, ClosedBy, Scanned
<1>2. ScanStep(Scanned(1, n, FALSE, FALSE, FALSE), "c", "o") = Scanned(0, n + 1, FALSE, FALSE, TRUE)
  <2>1. 1 \in Int /\ 1 - 1 = 0
    OBVIOUS
  <2>2. \A e \in Int : e = 1 =>
          ScanStep(Scanned(e, n, FALSE, FALSE, FALSE), "c", "o") = Scanned(e - 1, n + 1, FALSE, FALSE, TRUE)
    BY ScanShuts
  <2> QED BY <2>1, <2>2
<1>3. ScanStep(Scanned(2, n, FALSE, FALSE, FALSE), "c", "o") = Scanned(1, n + 1, FALSE, FALSE, FALSE)
  <2>1. 2 \in Int /\ 2 - 1 = 1 /\ 2 # 1
    OBVIOUS
  <2>2. \A e \in Int : e # 1 =>
          ScanStep(Scanned(e, n, FALSE, FALSE, FALSE), "c", "o") = Scanned(e - 1, n + 1, FALSE, FALSE, FALSE)
    BY ScanShuts
  <2> QED BY <2>1, <2>2
<1> QED BY <1>1, <1>2, <1>3

\* The scan ends with the last brace.
LEMMA ScansClosed ==
  ASSUME NEW d \in {1, 2}, NEW w \in Texts, Within(d, w, FALSE)
  PROVE  Scan(Whole(d, w), "o").done /\ Scan(Whole(d, w), "o").len = Len(Whole(d, w))
<1> DEFINE f == Opening(d)
           fw == f \o w
           w1 == Append(fw, "q")
           w2 == Append(w1, "c")
           w3 == Append(w2, "c")
           n == d + 1 + Len(w)
<1>1. "q" \in CHARS /\ "c" \in CHARS
  BY DEF CHARS
<1>2. fw \in Texts /\ Len(w) \in Nat
  <2>1. f \in Texts
    BY OpeningAndClosing
  <2> QED BY <2>1, TextsJoin, <1>1 DEF Texts
<1>3. Scan(fw, "o") = Scanned(d, n, TRUE, FALSE, FALSE) /\ n \in Int
  <2>1. n \in Int
    BY <1>2
  <2> HIDE DEF fw, f
  <2> QED BY <2>1 DEF Within, fw, f, n
<1>4. /\ d = 1 => Whole(d, w) = fw \o <<"q", "c">>
      /\ d = 2 => Whole(d, w) = fw \o <<"q", "c", "c">>
  BY DEF Whole, Closing
<1>5. Len(Whole(d, w)) = 2 * d + 2 + Len(w)
  BY WholeAt
<1> HIDE DEF fw
<1>6. w1 \in Texts /\ w2 \in Texts
  BY <1>1, <1>2, OneMore
<1>7. fw \o <<"q", "c">> = w2 /\ fw \o <<"q", "c", "c">> = w3
  BY <1>1, <1>2, AppendTwo, AppendThree
<1>8. /\ Scan(w1, "o") = ScanStep(Scan(fw, "o"), "q", "o") /\ Scan(w2, "o") = ScanStep(Scan(w1, "o"), "c", "o")
      /\ Scan(w3, "o") = ScanStep(Scan(w2, "o"), "c", "o")
  BY <1>1, <1>2, <1>6, ScanRuns
<1> HIDE DEF w1, w2, w3
<1>9. n + 1 \in Int /\ n + 1 + 1 \in Int
      /\ (d = 1 => n + 1 + 1 = Len(Whole(d, w))) /\ (d = 2 => n + 1 + 1 + 1 = Len(Whole(d, w)))
  BY <1>2, <1>5
<1> HIDE DEF n
<1>10. Scan(w1, "o") = Scanned(d, n + 1, FALSE, FALSE, FALSE)
  BY <1>3, <1>8, ScanCloses
<1>11. \A k \in Int : Scanned(0, k, FALSE, FALSE, TRUE).done /\ Scanned(0, k, FALSE, FALSE, TRUE).len = k
  BY DEF Scanned
<1>12. CASE d = 1
  <2>1. Scan(w2, "o") = Scanned(0, n + 1 + 1, FALSE, FALSE, TRUE)
    BY <1>8, <1>9, <1>10, <1>12, ScanCloses
  <2> QED BY <1>4, <1>7, <1>9, <1>11, <1>12, <2>1
<1>13. CASE d = 2
  <2>1. Scan(w2, "o") = Scanned(1, n + 1 + 1, FALSE, FALSE, FALSE)
    BY <1>8, <1>9, <1>10, <1>13, ScanCloses
  <2>2. Scan(w3, "o") = Scanned(0, n + 1 + 1 + 1, FALSE, FALSE, TRUE) /\ n + 1 + 1 + 1 \in Int
    <3>1. n + 1 + 1 + 1 \in Int
      BY <1>9
    <3>2. ScanStep(Scanned(1, n + 1 + 1, FALSE, FALSE, FALSE), "c", "o") =
            Scanned(0, n + 1 + 1 + 1, FALSE, FALSE, TRUE)
      BY <1>9, ScanCloses, Zenon
    <3> QED BY <1>8, <2>1, <3>1, <3>2
  <2> QED BY <1>4, <1>7, <1>9, <1>11, <1>13, <2>2
<1> QED BY <1>12, <1>13

\* w and m are both ways to write t, and no escape is left open.
Says(d, w, m, t, clean) == Matched(d, w, m, t, FALSE, clean)

\* A string that is closed is read as what was said or not at all.
LEMMA MatchedClosed ==
  ASSUME NEW d \in {1, 2}, NEW w, NEW m, NEW t, NEW clean \in BOOLEAN,
         Says(d, w, m, t, clean)
  PROVE  /\ w \in Texts /\ m \in Texts /\ Closed(d, w, m)
         /\ ReadAs(d, w, m) \in {NoValue, Said(d, t)}
         /\ clean => ReadAs(d, w, m) = Said(d, t)
<1>1. w \in Texts /\ m \in Texts /\ NoQuote(w) /\ NoQuote(m)
  BY DEF Says, Matched
<1>2. Closed(d, w, m)
  <2>1. Repaired(d, w, m, FALSE) /\ Within(d, w, FALSE)
    BY DEF Says, Matched
  <2> QED BY <1>1, <2>1, RepairsClosed, ScansClosed DEF Closed
<1>3. Reads(w, t, FALSE) /\ Reads(m, t, FALSE) /\ (clean => ~Unescape(m).bad)
  BY DEF Says, Matched
<1>4. Meaning(d, Unescape(w)) \in {NoValue, Said(d, t)}
  BY <1>3 DEF Meaning, Said, Reads
<1>5. Meaning(d, Unescape(m)) \in {NoValue, Said(d, t)}
  BY <1>3 DEF Meaning, Said, Reads
<1>6. clean => Meaning(d, Unescape(m)) = Said(d, t)
  BY <1>3 DEF Meaning, Said, Reads
<1>7. ~NoValue.ok
  BY DEF NoValue
<1> QED BY <1>1, <1>2, <1>4, <1>5, <1>6, <1>7 DEF ReadAs

\* A character that is escaped as it should be.
LEMMA MatchedEscaped ==
  ASSUME NEW d \in {1, 2}, NEW w, NEW m, NEW t, NEW clean \in BOOLEAN,
         Matched(d, w, m, t, FALSE, clean), NEW ch \in CHARS
  PROVE  \E m2 : Matched(d, w \o Escaped(ch), m2, Append(t, ch), FALSE, clean)
<1>1. "b" \in CHARS /\ "n" \in CHARS /\ TRUE \in BOOLEAN /\ FALSE \in BOOLEAN /\ w \in Texts
  BY DEF CHARS, Matched
<1>2. CASE ch \notin {"nl", "b", "q"}
  <2>1. Escaped(ch) = <<ch>> /\ w \o <<ch>> = Append(w, ch)
    BY <1>1, <1>2, AppendTwo DEF Escaped
  <2>2. Matched(d, Append(w, ch), Append(m, ch), Append(t, ch), FALSE, clean)
    BY <1>1, <1>2, MatchedOn, ZenonT(60)
  <2> QED BY <2>1, <2>2
<1>3. CASE ch \in {"nl", "b", "q"}
  <2> DEFINE e == IF ch = "nl" THEN "n" ELSE ch
             w1 == Append(w, "b")
             m1 == Append(m, "b")
  <2>1. e \in CHARS /\ Escaped(ch) = <<"b", e>> /\ (ch = "nl" <=> e = "n")
    BY <1>1, <1>3 DEF Escaped
  <2>2. Matched(d, w1, m1, t, TRUE, clean)
    BY <1>1, MatchedOn
  <2>3. w \o <<"b", e>> = Append(w1, e)
    BY <1>1, <2>1, AppendTwo
  <2>4. ch = "nl" => "nl" = ch
    OBVIOUS
  <2> HIDE DEF w1, m1
  <2>5. Matched(d, Append(w1, e), Append(m1, e), Append(t, ch), FALSE, clean)
    <3>1. CASE ch = "nl"
      <4>1. e = "n"
        BY <2>1, <3>1
      <4> HIDE DEF e
      <4> QED BY <1>1, <2>1, <2>2, <3>1, <4>1, MatchedOn
    <3>2. CASE ch \in {"b", "q"}
      <4>1. e = ch
        BY <3>2
      <4> HIDE DEF e
      <4> QED BY <1>1, <2>1, <2>2, <3>2, <4>1, MatchedOn
    <3> QED BY <1>3, <3>1, <3>2
  <2> QED BY <2>1, <2>3, <2>5
<1> QED BY <1>2, <1>3

\* A text that is escaped as it should be.
LEMMA EscapeMatched ==
  ASSUME NEW s \in Texts
  PROVE  \E m : Matched(1, Escape(s), m, s, FALSE, TRUE)
<1> DEFINE G == {r \in Texts : \E m : Matched(1, Escape(r), m, r, FALSE, TRUE)}
<1>1. << >> \in G
  <2>1. << >> \in Texts /\ Escape(<< >>) = << >>
    BY EscapeRuns DEF Texts
  <2>2. Matched(1, << >>, << >>, << >>, FALSE, TRUE)
    BY MatchedEmpty
  <2> QED BY <2>1, <2>2
<1>2. ASSUME NEW r \in Texts, NEW ch \in CHARS, r \in G
      PROVE  Append(r, ch) \in G
  <2>1. PICK m : Matched(1, Escape(r), m, r, FALSE, TRUE)
    BY <1>2
  <2>2. Escape(Append(r, ch)) = Escape(r) \o Escaped(ch)
    BY EscapeRuns
  <2>3. Append(r, ch) \in Texts
    BY OneMore
  <2>4. \E m2 : Matched(1, Escape(r) \o Escaped(ch), m2, Append(r, ch), FALSE, TRUE)
    BY <2>1, MatchedEscaped
  <2> QED BY <2>2, <2>3, <2>4
<1> HIDE DEF G
<1>3. \A r \in Texts : r \in G
  BY <1>1, <1>2, TextInduction
<1> QED BY <1>3 DEF G

-----------------------------------------------------------------------------
(* Each character the model writes, as it should or raw.                   *)

\* A backslash or quote of the model that was meant to be said reads as an escape
\* or an end, whatever follows.
Misread(g) ==
  \E i \in g.weak :
    \/ g.wire[i] = "q"
    \/ /\ g.wire[i] = "b" /\ i < Len(g.wire)
       /\ g.wire[i + 1] \in VALID_JSON_ESCAPE_CHARS

\* The last character is one that the next one decides about.
Hanging(g) == Len(g.wire) \in g.weak /\ g.wire[Len(g.wire)] = "b"

\* No backslash left alone before a raw line break.
Clean(g) ==
  \A i \in g.weak : g.wire[i] = "b" /\ i < Len(g.wire) => g.wire[i + 1] # "nl"

SaysSo(d, g) ==
  \E m : \E c \in BOOLEAN : Matched(d, g.wire, m, g.said, FALSE, c) /\ (Clean(g) => c)

SaysAllButOne(d, g) ==
  \E m, t : \E c \in BOOLEAN :
    Matched(d, g.wire, m, t, TRUE, c) /\ (Clean(g) => c) /\ g.said = Append(t, "b")

GenOK(g) == g.said \in Texts /\ g.wire \in Texts /\ g.weak \subseteq 1 .. Len(g.wire)

Written(g) ==
  \/ Misread(g)
  \/ ~Hanging(g) /\ \A d \in {1, 2} : SaysSo(d, g)
  \/ Hanging(g) /\ \A d \in {1, 2} : SaysAllButOne(d, g)

\* What another text writes after a text.
Longer(g, h, z) ==
  /\ z \in Texts /\ Len(z) >= 1 /\ h.wire = g.wire \o z
  /\ h.weak \in {g.weak, g.weak \union {Len(g.wire) + 1}}

\* What a longer text has of the shorter one.
LEMMA LongerKeeps ==
  ASSUME NEW g, GenOK(g), NEW h, NEW z, Longer(g, h, z)
  PROVE  /\ Misread(g) => Misread(h)
         /\ Clean(h) => Clean(g)
         /\ h.wire \in Texts /\ h.weak \subseteq 1 .. Len(h.wire)
         /\ Len(h.wire) = Len(g.wire) + Len(z) /\ Len(g.wire) \in Nat /\ Len(z) \in Nat
         /\ h.wire[Len(g.wire) + 1] = z[1]
         /\ Hanging(g) => h.wire[Len(g.wire)] = "b" /\ Len(g.wire) \in h.weak /\ Len(g.wire) < Len(h.wire)
         /\ g.weak \subseteq h.weak
<1> DEFINE w == g.wire
           v == h.wire
           L == Len(w)
<1>1. /\ w \o z \in Texts /\ Len(w \o z) = L + Len(z) /\ L \in Nat /\ Len(z) \in Nat
      /\ \A i \in 1 .. L : (w \o z)[i] = w[i]
      /\ \A i \in 1 .. Len(z) : (w \o z)[L + i] = z[i]
  BY At, Zenon DEF GenOK, Longer
<1>2. v = w \o z /\ Len(z) >= 1
  BY DEF Longer
<1>3. /\ v \in Texts /\ Len(v) = L + Len(z) /\ L \in Nat /\ Len(z) \in Nat
      /\ \A i \in 1 .. L : v[i] = w[i]
      /\ v[L + 1] = z[1]
  <2>1. 1 \in 1 .. Len(z)
    BY <1>1, <1>2
  <2> QED BY <1>1, <1>2, <2>1
<1>4. g.weak \subseteq 1 .. L /\ g.weak \subseteq h.weak /\ h.weak \subseteq g.weak \union {L + 1}
  BY DEF GenOK, Longer
<1> HIDE DEF w, v, L
<1>5. \A i \in g.weak : i \in 1 .. L /\ i \in h.weak /\ v[i] = w[i] /\ i < Len(v)
                        /\ (i < L => v[i + 1] = w[i + 1])
  <2> TAKE i \in g.weak
  <2>1. i \in 1 .. L /\ i \in h.weak
    BY <1>4
  <2>2. i < L => i + 1 \in 1 .. L
    BY <1>3, <2>1
  <2> QED BY <1>2, <1>3, <2>1, <2>2
<1>6. Misread(g) => Misread(h)
  <2> SUFFICES ASSUME Misread(g) PROVE Misread(h)
    OBVIOUS
  <2>1. PICK i \in g.weak :
          \/ w[i] = "q"
          \/ w[i] = "b" /\ i < L /\ w[i + 1] \in VALID_JSON_ESCAPE_CHARS
    BY DEF Misread, w, L
  <2>2. i \in h.weak /\ (v[i] = "q" \/ (v[i] = "b" /\ i < Len(v) /\ v[i + 1] \in VALID_JSON_ESCAPE_CHARS))
    BY <1>5, <2>1
  <2> QED BY <2>2 DEF Misread, v
<1>7. Clean(h) => Clean(g)
  <2> SUFFICES ASSUME Clean(h), NEW i \in g.weak, w[i] = "b", i < L
               PROVE  w[i + 1] # "nl"
    BY DEF Clean, w, L
  <2>1. i \in h.weak /\ v[i] = "b" /\ i < Len(v)
    BY <1>5
  <2>2. v[i + 1] # "nl"
    BY <2>1 DEF Clean, v
  <2> QED BY <1>5, <2>2
<1>8. h.weak \subseteq 1 .. Len(v)
  <2>1. L + 1 \in 1 .. Len(v)
    BY <1>2, <1>3
  <2>2. \A i \in 1 .. L : i \in 1 .. Len(v)
    BY <1>2, <1>3
  <2> QED BY <1>4, <2>1, <2>2
<1>9. Hanging(g) => v[L] = "b" /\ L \in h.weak /\ L < Len(v)
  BY <1>5 DEF Hanging, w, L
<1> QED BY <1>3, <1>4, <1>6, <1>7, <1>8, <1>9 DEF w, v, L

\* The model writes a character as it should.
LEMMA WrittenEscaped ==
  ASSUME NEW g, GenOK(g), Written(g), NEW ch \in CHARS,
         NEW h, h.said = Append(g.said, ch), h.wire = g.wire \o Escaped(ch), h.weak = g.weak
  PROVE  GenOK(h) /\ Written(h)
<1> DEFINE z == Escaped(ch)
<1>1. /\ z \in Texts /\ Len(z) >= 1
      /\ z[1] = IF ch \in {"nl", "b", "q"} THEN "b" ELSE ch
      /\ ch \notin {"nl", "b", "q"} => z = <<ch>>
  <2>1. "b" \in CHARS /\ "n" \in CHARS /\ "q" \in CHARS
    BY DEF CHARS
  <2>2. CASE ch \notin {"nl", "b", "q"}
    <3>1. z = <<ch>>
      BY <2>2 DEF Escaped
    <3> HIDE DEF z
    <3>2. <<ch>> \in Texts /\ Len(<<ch>>) = 1 /\ <<ch>>[1] = ch
      BY ShortParts
    <3> QED BY <2>2, <3>1, <3>2
  <2>3. CASE ch \in {"nl", "b", "q"}
    <3> DEFINE e == IF ch = "nl" THEN "n" ELSE ch
    <3>1. z = <<"b", e>> /\ e \in CHARS
      BY <2>1, <2>3 DEF Escaped
    <3> HIDE DEF z, e
    <3>2. <<"b", e>> \in Texts /\ Len(<<"b", e>>) = 2 /\ <<"b", e>>[1] = "b"
      BY <2>1, <3>1, ShortParts
    <3> QED BY <2>3, <3>1, <3>2
  <2> QED BY <2>2, <2>3
<1> HIDE DEF z
<1>2. Longer(g, h, z)
  BY <1>1 DEF Longer, z
<1>3. /\ Misread(g) => Misread(h)
      /\ Clean(h) => Clean(g)
      /\ h.wire \in Texts /\ h.weak \subseteq 1 .. Len(h.wire)
      /\ Len(h.wire) = Len(g.wire) + Len(z) /\ Len(g.wire) \in Nat /\ Len(z) \in Nat
      /\ h.wire[Len(g.wire) + 1] = z[1]
      /\ Hanging(g) => h.wire[Len(g.wire)] = "b" /\ Len(g.wire) \in h.weak /\ Len(g.wire) < Len(h.wire)
  BY <1>2, LongerKeeps, ZenonT(60)
<1>4. GenOK(h)
  <2>1. h.said \in Texts
    BY OneMore DEF GenOK
  <2> QED BY <1>3, <2>1 DEF GenOK
<1>5. ~Hanging(h)
  <2>1. Len(h.wire) \notin 1 .. Len(g.wire)
    BY <1>1, <1>3
  <2> QED BY <2>1 DEF Hanging, GenOK
<1>6. CASE Misread(g)
  BY <1>3, <1>4, <1>6 DEF Written
<1>7. CASE ~Hanging(g) /\ \A d \in {1, 2} : SaysSo(d, g)
  <2>1. ASSUME NEW d \in {1, 2}
        PROVE  SaysSo(d, h)
    <3>0. PICK m : \E e \in BOOLEAN : Matched(d, g.wire, m, g.said, FALSE, e) /\ (Clean(g) => e)
      BY <1>7 DEF SaysSo
    <3>1. PICK c \in BOOLEAN : Matched(d, g.wire, m, g.said, FALSE, c) /\ (Clean(g) => c)
      BY <3>0
    <3>2. PICK m2 : Matched(d, g.wire \o Escaped(ch), m2, Append(g.said, ch), FALSE, c)
      BY <3>1, MatchedEscaped
    <3> QED BY <1>3, <3>1, <3>2 DEF SaysSo
  <2> QED BY <1>4, <1>5, <2>1 DEF Written
<1>8. CASE Hanging(g) /\ \A d \in {1, 2} : SaysAllButOne(d, g)
  <2>1. CASE z[1] \in VALID_JSON_ESCAPE_CHARS
    <3>1. Misread(h)
      BY <1>3, <1>8, <2>1 DEF Misread
    <3> QED BY <1>4, <3>1 DEF Written
  <2>2. CASE z[1] \notin VALID_JSON_ESCAPE_CHARS
    <3>1. ch \in {"x", "o", "c", "l", "r"} /\ z = <<ch>>
      BY <1>1, <2>2 DEF VALID_JSON_ESCAPE_CHARS, CHARS
    <3>2. ASSUME NEW d \in {1, 2}
          PROVE  SaysSo(d, h)
      <4>0. PICK m, t : \E e \in BOOLEAN : Matched(d, g.wire, m, t, TRUE, e) /\ (Clean(g) => e) /\ g.said = Append(t, "b")
        BY <1>8 DEF SaysAllButOne
      <4>1. PICK c \in BOOLEAN : Matched(d, g.wire, m, t, TRUE, c) /\ (Clean(g) => c) /\ g.said = Append(t, "b")
        BY <4>0
      <4>2. Matched(d, Append(g.wire, ch), Append(Append(m, "b"), ch), Append(Append(t, "b"), ch), FALSE, c)
        <5>1. TRUE \in BOOLEAN
          OBVIOUS
        <5> QED BY <3>1, <4>1, <5>1, MatchedOn
      <4>3. h.wire = Append(g.wire, ch)
        <5>1. g.wire \o <<ch>> = Append(g.wire, ch)
          BY AppendTwo DEF GenOK
        <5> QED BY <3>1, <5>1 DEF z
      <4> QED BY <1>3, <4>1, <4>2, <4>3 DEF SaysSo
    <3> QED BY <1>4, <1>5, <3>2 DEF Written
  <2> QED BY <2>1, <2>2
<1> QED BY <1>6, <1>7, <1>8 DEF Written

\* The model writes a character raw.
LEMMA WrittenRaw ==
  ASSUME NEW g, GenOK(g), Written(g), NEW ch \in {"nl", "b", "q"},
         NEW h, h.said = Append(g.said, ch), h.wire = g.wire \o <<ch>>,
         h.weak = g.weak \union {Len(g.wire) + 1}
  PROVE  GenOK(h) /\ Written(h)
<1> DEFINE z == <<ch>>
<1>0. ch \in CHARS /\ "b" \in CHARS
  BY DEF CHARS
<1>1. z \in Texts /\ Len(z) = 1 /\ z[1] = ch
  BY <1>0, ShortParts
<1> HIDE DEF z
<1>2. Longer(g, h, z)
  BY <1>1 DEF Longer, z
<1>3. /\ Misread(g) => Misread(h)
      /\ Clean(h) => Clean(g)
      /\ h.wire \in Texts /\ h.weak \subseteq 1 .. Len(h.wire)
      /\ Len(h.wire) = Len(g.wire) + 1 /\ Len(g.wire) \in Nat
      /\ h.wire[Len(g.wire) + 1] = ch
      /\ Hanging(g) => h.wire[Len(g.wire)] = "b" /\ Len(g.wire) \in h.weak /\ Len(g.wire) < Len(h.wire)
  <2>1. /\ Misread(g) => Misread(h)
        /\ Clean(h) => Clean(g)
        /\ h.wire \in Texts /\ h.weak \subseteq 1 .. Len(h.wire)
        /\ Len(h.wire) = Len(g.wire) + Len(z) /\ Len(g.wire) \in Nat
        /\ h.wire[Len(g.wire) + 1] = z[1]
        /\ Hanging(g) => h.wire[Len(g.wire)] = "b" /\ Len(g.wire) \in h.weak /\ Len(g.wire) < Len(h.wire)
    BY <1>2, LongerKeeps, ZenonT(60)
  <2> QED BY <1>1, <2>1
<1>4. GenOK(h)
  <2>1. h.said \in Texts
    BY <1>0, OneMore DEF GenOK
  <2> QED BY <1>3, <2>1 DEF GenOK
<1>5. h.wire = Append(g.wire, ch)
  BY <1>0, AppendTwo DEF GenOK
<1>6. Len(h.wire) \in h.weak /\ h.wire[Len(h.wire)] = ch
  BY <1>3
<1>7. CASE Misread(g)
  BY <1>3, <1>4, <1>7 DEF Written
<1>8. CASE ch = "q"
  <2>1. Misread(h)
    BY <1>6, <1>8 DEF Misread
  <2> QED BY <1>4, <2>1 DEF Written
<1>9. CASE ch # "q" /\ ~Hanging(g) /\ \A d \in {1, 2} : SaysSo(d, g)
  <2>1. CASE ch = "nl"
    <3>1. ~Hanging(h)
      BY <1>6, <2>1 DEF Hanging
    <3>2. ASSUME NEW d \in {1, 2}
          PROVE  SaysSo(d, h)
      <4>0. PICK m : \E e \in BOOLEAN : Matched(d, g.wire, m, g.said, FALSE, e) /\ (Clean(g) => e)
        BY <1>9 DEF SaysSo
      <4>1. PICK c \in BOOLEAN : Matched(d, g.wire, m, g.said, FALSE, c) /\ (Clean(g) => c)
        BY <4>0
      <4>2. Matched(d, Append(g.wire, ch), Append(Append(m, "b"), "n"), Append(g.said, ch), FALSE, c)
        <5>1. FALSE \in BOOLEAN
          OBVIOUS
        <5> QED BY <1>0, <2>1, <4>1, <5>1, MatchedOn
      <4> QED BY <1>3, <1>5, <4>1, <4>2 DEF SaysSo
    <3> QED BY <1>4, <3>1, <3>2 DEF Written
  <2>2. CASE ch = "b"
    <3>1. Hanging(h)
      BY <1>6, <2>2 DEF Hanging
    <3>2. ASSUME NEW d \in {1, 2}
          PROVE  SaysAllButOne(d, h)
      <4>0. PICK m : \E e \in BOOLEAN : Matched(d, g.wire, m, g.said, FALSE, e) /\ (Clean(g) => e)
        BY <1>9 DEF SaysSo
      <4>1. PICK c \in BOOLEAN : Matched(d, g.wire, m, g.said, FALSE, c) /\ (Clean(g) => c)
        BY <4>0
      <4>2. Matched(d, Append(g.wire, ch), Append(m, ch), g.said, TRUE, c)
        <5>1. FALSE \in BOOLEAN
          OBVIOUS
        <5> QED BY <1>0, <2>2, <4>1, <5>1, MatchedOn
      <4>3. h.said = Append(g.said, "b")
        BY <2>2
      <4> QED BY <1>3, <1>5, <4>1, <4>2, <4>3 DEF SaysAllButOne
    <3> QED BY <1>4, <3>1, <3>2 DEF Written
  <2> QED BY <1>9, <2>1, <2>2
<1>10. CASE ch # "q" /\ Hanging(g) /\ \A d \in {1, 2} : SaysAllButOne(d, g)
  <2>1. CASE ch = "b"
    <3>1. Misread(h)
      BY <1>3, <1>10, <2>1 DEF Misread, VALID_JSON_ESCAPE_CHARS
    <3> QED BY <1>4, <3>1 DEF Written
  <2>2. CASE ch = "nl"
    <3>1. ~Hanging(h)
      BY <1>6, <2>2 DEF Hanging
    <3>2. ~Clean(h)
      BY <1>3, <1>10, <2>2 DEF Clean
    <3>3. ASSUME NEW d \in {1, 2}
          PROVE  SaysSo(d, h)
      <4>0. PICK m, t : \E e \in BOOLEAN : Matched(d, g.wire, m, t, TRUE, e) /\ (Clean(g) => e) /\ g.said = Append(t, "b")
        BY <1>10 DEF SaysAllButOne
      <4>1. PICK c \in BOOLEAN : Matched(d, g.wire, m, t, TRUE, c) /\ (Clean(g) => c) /\ g.said = Append(t, "b")
        BY <4>0
      <4>2. Matched(d, Append(g.wire, ch), Append(Append(m, "b"), ch), Append(Append(t, "b"), ch), FALSE, FALSE)
        <5>1. TRUE \in BOOLEAN
          OBVIOUS
        <5> QED BY <1>0, <2>2, <4>1, <5>1, MatchedOn
      <4> QED BY <1>5, <3>2, <4>1, <4>2 DEF SaysSo
    <3> QED BY <1>4, <3>1, <3>3 DEF Written
  <2> QED BY <1>10, <2>1, <2>2
<1> QED BY <1>7, <1>8, <1>9, <1>10 DEF Written

-----------------------------------------------------------------------------
(* A finished answer, judged.                                              *)

\* An answer is put together as a string in braces.
LEMMA WholePayload ==
  ASSUME NEW w \in Texts
  PROVE  /\ Braced(Quoted(w)) = Whole(1, w)
         /\ Braced(Braced(Quoted(w))) = Whole(2, w)
<1> DEFINE o == <<"o">>
           q == <<"q">>
           c == <<"c">>
<1>1. "o" \in CHARS /\ "q" \in CHARS /\ "c" \in CHARS
  BY DEF CHARS
<1>2. o \in Texts /\ q \in Texts /\ c \in Texts
  BY <1>1, ShortParts
<1>3. /\ <<"o", "q">> = o \o q /\ <<"q", "c">> = q \o c
      /\ <<"o", "o", "q">> = o \o (o \o q) /\ <<"q", "c", "c">> = q \o (c \o c)
      /\ o \o q \in Texts /\ q \o c \in Texts /\ c \o c \in Texts
  <2>1. <<"o", "q">> \in Texts /\ <<"q", "c">> \in Texts /\ <<"c", "c">> \in Texts
    BY <1>1, ShortParts
  <2>2. /\ o \o q = <<"o", "q">> /\ q \o c = <<"q", "c">> /\ c \o c = <<"c", "c">>
        /\ o \o <<"o", "q">> = <<"o", "o", "q">> /\ q \o <<"c", "c">> = <<"q", "c", "c">>
    BY <1>1, JoinLetters
  <2> QED BY <2>1, <2>2
<1>4. /\ Braced(Quoted(w)) = (o \o ((q \o w) \o q)) \o c
      /\ Braced(Braced(Quoted(w))) = (o \o ((o \o ((q \o w) \o q)) \o c)) \o c
      /\ Whole(1, w) = (<<"o", "q">> \o w) \o <<"q", "c">>
      /\ Whole(2, w) = (<<"o", "o", "q">> \o w) \o <<"q", "c", "c">>
  BY DEF Braced, Quoted, Whole, Opening, Closing
<1> HIDE DEF o, q, c
<1> DEFINE A(x, y) == x \o y
<1>5. \A x \in Texts, y \in Texts : A(x, y) \in Texts
  BY TextsJoin, <1>1
<1>6. \A x \in Texts, y \in Texts, z \in Texts : A(A(x, y), z) = A(x, A(y, z))
  BY TextsAssociate
<1>7. /\ Braced(Quoted(w)) = A(A(o, A(A(q, w), q)), c)
      /\ Braced(Braced(Quoted(w))) = A(A(o, A(A(o, A(A(q, w), q)), c)), c)
      /\ Whole(1, w) = A(A(A(o, q), w), A(q, c))
      /\ Whole(2, w) = A(A(A(o, A(o, q)), w), A(q, A(c, c)))
  BY <1>3, <1>4
<1> HIDE DEF A
<1>8. A(A(o, A(A(q, w), q)), c) = A(o, A(q, A(w, A(q, c))))
  BY <1>2, <1>5, <1>6
<1>9. A(A(A(o, q), w), A(q, c)) = A(o, A(q, A(w, A(q, c))))
  BY <1>2, <1>5, <1>6
<1>10. A(A(o, A(A(o, A(A(q, w), q)), c)), c) = A(o, A(o, A(q, A(w, A(q, A(c, c))))))
  <2> DEFINE i == A(q, A(w, A(q, c)))
  <2>1. i \in Texts
    BY <1>2, <1>5
  <2>2. A(A(o, i), c) = A(o, A(i, c)) /\ A(o, i) \in Texts
    BY <1>2, <1>5, <1>6, <2>1
  <2>3. A(i, c) = A(q, A(w, A(q, A(c, c))))
    BY <1>2, <1>5, <1>6
  <2>4. A(A(o, A(o, i)), c) = A(o, A(A(o, i), c))
    BY <1>2, <1>6, <2>2
  <2> QED BY <1>8, <2>2, <2>3, <2>4
<1>11. A(A(A(o, A(o, q)), w), A(q, A(c, c))) = A(o, A(o, A(q, A(w, A(q, A(c, c))))))
  <2> DEFINE j == A(q, A(c, c))
             k == A(o, q)
  <2>1. j \in Texts /\ k \in Texts /\ A(o, k) \in Texts /\ A(w, j) \in Texts
    BY <1>2, <1>5
  <2>2. A(A(A(o, k), w), j) = A(A(o, k), A(w, j))
    BY <1>6, <2>1
  <2>3. A(A(o, k), A(w, j)) = A(o, A(k, A(w, j)))
    BY <1>2, <1>6, <2>1
  <2>4. A(k, A(w, j)) = A(o, A(q, A(w, j)))
    BY <1>2, <1>6, <2>1
  <2> QED BY <2>2, <2>3, <2>4
<1> QED BY <1>7, <1>8, <1>9, <1>10, <1>11

\* What the body of a finished answer holds.
Sent(g, wrapped) ==
  /\ g.form \in IF wrapped THEN {"enveloped", "serialized"} ELSE {"object"}
  /\ g.wrap \in WRAPS /\ g.lost \in Nat
  /\ \/ g.lost > 0 /\ g.body = Braced(<< >>)
     \/ LET full == Around(g.wrap, Payload(g.form, g.wire), Payload(g.form, EXAMPLE))
        IN  g.lost < Len(full) /\ g.body = SubSeq(full, 1, Len(full) - g.lost)

\* Nothing, or an empty object, is no answer.
LEMMA NoValueUnwraps ==
  ASSUME NEW wrapped \in BOOLEAN
  PROVE  /\ ~SafeParse(UnwrapEnvelope(NoValue, wrapped))
         /\ ~SafeParse(UnwrapEnvelope(Empty, wrapped))
<1>1. UnwrapEnvelope(NoValue, wrapped) = NoValue
  BY DEF UnwrapEnvelope, NoValue
<1>2. ~SafeParse(NoValue)
  BY DEF SafeParse, NoValue
<1>3. ~UnwrapEnvelope(Empty, wrapped).str
  <2>1. CASE ~wrapped
    BY <2>1 DEF UnwrapEnvelope, Empty
  <2>2. CASE wrapped
    <3> DEFINE inner == [Empty EXCEPT !.depth = @ - 1]
    <3>1. ~inner.str /\ Empty.depth # 0
      BY DEF Empty
    <3>2. UnwrapEnvelope(Empty, wrapped) =
            IF inner.depth = 0 /\ inner.str /\ ParseJsonLeniently(inner.text).ok
              THEN ParseJsonLeniently(inner.text) ELSE inner
      BY <2>2, <3>1 DEF UnwrapEnvelope
    <3> HIDE DEF inner
    <3> QED BY <3>1, <3>2
  <2> QED BY <2>1, <2>2
<1> QED BY <1>1, <1>2, <1>3 DEF SafeParse

\* A value with another depth.
LEMMA DepthOnly ==
  ASSUME NEW ok, NEW d, NEW e, NEW t, NEW str
  PROVE  [[ok |-> ok, depth |-> d, text |-> t, str |-> str] EXCEPT !.depth = e] =
           [ok |-> ok, depth |-> e, text |-> t, str |-> str]
OBVIOUS

\* What unwrapping makes of a string in braces.
LEMMA SaidUnwraps ==
  ASSUME NEW t
  PROVE  /\ UnwrapEnvelope(Said(1, t), FALSE) = Said(1, t)
         /\ UnwrapEnvelope(Said(2, t), TRUE) = Said(1, t)
         /\ ParseJsonLeniently(t).ok => UnwrapEnvelope(Said(1, t), TRUE) = ParseJsonLeniently(t)
         /\ ~ParseJsonLeniently(t).ok => ~SafeParse(UnwrapEnvelope(Said(1, t), TRUE))
         /\ SafeParse(Said(1, t)) <=> t # << >>
         /\ Said(1, t).ok /\ Said(1, t).text = t
<1>1. UnwrapEnvelope(Said(1, t), FALSE) = Said(1, t)
  BY DEF UnwrapEnvelope
<1>2. UnwrapEnvelope(Said(2, t), TRUE) = Said(1, t)
  <2> DEFINE inner == [Said(2, t) EXCEPT !.depth = @ - 1]
  <2>1. inner = Said(1, t) /\ Said(2, t).depth # 0 /\ Said(1, t).depth # 0
    <3>1. Said(2, t).depth = 2 /\ Said(1, t).depth = 1
      BY DEF Said
    <3>2. inner = [Said(2, t) EXCEPT !.depth = 1]
      BY <3>1
    <3>3. [Said(2, t) EXCEPT !.depth = 1] = Said(1, t)
      <4> DEFINE yes == TRUE
                 R(k) == [ok |-> yes, depth |-> k, text |-> t, str |-> yes]
      <4>1. Said(2, t) = R(2) /\ Said(1, t) = R(1)
        BY DEF Said
      <4> HIDE DEF yes
      <4>2. [R(2) EXCEPT !.depth = 1] = R(1)
        BY DepthOnly
      <4> QED BY <4>1, <4>2
    <3> HIDE DEF inner
    <3> QED BY <3>1, <3>2, <3>3
  <2>2. UnwrapEnvelope(Said(2, t), TRUE) =
            IF inner.depth = 0 /\ inner.str /\ ParseJsonLeniently(inner.text).ok
              THEN ParseJsonLeniently(inner.text) ELSE inner
    BY <2>1 DEF UnwrapEnvelope
  <2> HIDE DEF inner
  <2> QED BY <2>1, <2>2
<1>3. /\ ParseJsonLeniently(t).ok => UnwrapEnvelope(Said(1, t), TRUE) = ParseJsonLeniently(t)
      /\ ~ParseJsonLeniently(t).ok => ~SafeParse(UnwrapEnvelope(Said(1, t), TRUE))
  <2> DEFINE inner == [Said(1, t) EXCEPT !.depth = @ - 1]
  <2>1. inner.depth = 0 /\ inner.str /\ inner.text = t /\ Said(1, t).depth # 0
    BY DEF Said
  <2>2. UnwrapEnvelope(Said(1, t), TRUE) =
            IF inner.depth = 0 /\ inner.str /\ ParseJsonLeniently(inner.text).ok
              THEN ParseJsonLeniently(inner.text) ELSE inner
    BY <2>1 DEF UnwrapEnvelope
  <2>3. ~SafeParse(inner)
    BY <2>1 DEF SafeParse
  <2> HIDE DEF inner
  <2> QED BY <2>1, <2>2, <2>3
<1>4. (SafeParse(Said(1, t)) <=> t # << >>) /\ Said(1, t).ok /\ Said(1, t).text = t
  BY DEF SafeParse, Said
<1> QED BY <1>1, <1>2, <1>3, <1>4

\* How a finished answer is judged once it is here.
Judged(g, wrapped) == UnwrapEnvelope(ParseJsonLeniently(g.body), wrapped)

\* The object of a cut-off tool call is read as an empty one.
LEMMA BracesRead == ParseJsonLeniently(Braced(<< >>)) = Empty
<1>1. "o" \in CHARS /\ "c" \in CHARS
  BY DEF CHARS
<1>2. Braced(<< >>) = <<"o", "c">>
  <2>1. <<"o">> \o << >> = <<"o">> /\ <<"o">> \o <<"c">> = <<"o", "c">>
    BY <1>1, ShortParts, JoinLetters, ConcatEmptySeq DEF Texts
  <2> QED BY <2>1 DEF Braced
<1> DEFINE s == <<"o", "c">>
<1>3. Parse(s) = Empty
  BY BracesParse
<1>4. Empty.ok
  BY DEF Empty
<1> HIDE DEF s
<1>5. ParseJsonLeniently(s) = Empty
  BY <1>3, <1>4, LenientOf
<1> QED BY <1>2, <1>5 DEF s

\* An answer in d braces that says t, wrapped and cut off.
LEMMA AroundType ==
  ASSUME NEW d \in {1, 2}, NEW w \in Texts, NEW wrap \in WRAPS, NEW other \in Texts
  PROVE  Wrapped(wrap, Whole(d, w), other) \in Texts /\ Len(Wrapped(wrap, Whole(d, w), other)) >= 1
<1> DEFINE P == Whole(d, w)
           a == <<"x", "q", "nl">>
           s == <<"nl", "q", "x">>
           b == <<"x", "o", "c">>
           c == <<"x", "l", "r">>
           e == <<"x">>
           f == <<"nl">>
<1>1. a \in Texts /\ s \in Texts /\ b \in Texts /\ c \in Texts /\ e \in Texts /\ f \in Texts
  <2>1. "x" \in CHARS /\ "q" \in CHARS /\ "nl" \in CHARS /\ "o" \in CHARS /\ "c" \in CHARS
        /\ "l" \in CHARS /\ "r" \in CHARS
    BY DEF CHARS
  <2> QED BY <2>1, ShortParts
<1>2. P \in Texts /\ Len(P) >= 1
  BY WholeBegins
<1>3. \/ Wrapped(wrap, P, other) = P \/ Wrapped(wrap, P, other) = (a \o P) \o s
      \/ Wrapped(wrap, P, other) = P \o b \/ Wrapped(wrap, P, other) = b \o P
      \/ Wrapped(wrap, P, other) = c \o P \/ Wrapped(wrap, P, other) = e \o (P \o (f \o other))
  BY DEF Around, Wrapped, WRAPS, HIDING
<1> HIDE DEF P, a, s, b, c, e, f
<1>4. \A x \in Texts, y \in Texts : x \o y \in Texts /\ Len(x \o y) = Len(x) + Len(y)
                                    /\ Len(x) \in Nat /\ Len(y) \in Nat
  BY At, Zenon
<1>5. /\ P \o b \in Texts /\ Len(P \o b) >= 1 /\ b \o P \in Texts /\ Len(b \o P) >= 1
      /\ a \o P \in Texts /\ Len(a \o P) >= 1 /\ c \o P \in Texts /\ Len(c \o P) >= 1
  <2>1. P \o b \in Texts /\ Len(P \o b) = Len(P) + Len(b) /\ Len(P) \in Nat /\ Len(b) \in Nat
    BY <1>1, <1>2, <1>4
  <2>2. b \o P \in Texts /\ Len(b \o P) = Len(b) + Len(P)
    BY <1>1, <1>2, <1>4
  <2>3. a \o P \in Texts /\ Len(a \o P) = Len(a) + Len(P) /\ Len(a) \in Nat
    BY <1>1, <1>2, <1>4
  <2>4. c \o P \in Texts /\ Len(c \o P) = Len(c) + Len(P) /\ Len(c) \in Nat
    BY <1>1, <1>2, <1>4
  <2> QED BY <1>2, <2>1, <2>2, <2>3, <2>4
<1>6. (a \o P) \o s \in Texts /\ Len((a \o P) \o s) >= 1
  BY <1>1, <1>4, <1>5
<1>8. e \o (P \o (f \o other)) \in Texts /\ Len(e \o (P \o (f \o other))) >= 1
  <2>1. f \o other \in Texts
    BY <1>1, <1>4
  <2>2. /\ P \o (f \o other) \in Texts /\ Len(P \o (f \o other)) = Len(P) + Len(f \o other)
        /\ Len(P) \in Nat /\ Len(f \o other) \in Nat
    BY <1>2, <1>4, <2>1
  <2>3. /\ e \o (P \o (f \o other)) \in Texts /\ Len(e) \in Nat
        /\ Len(e \o (P \o (f \o other))) = Len(e) + Len(P \o (f \o other))
    BY <1>1, <1>4, <2>2
  <2> QED BY <1>2, <2>2, <2>3
<1>7. Wrapped(wrap, P, other) \in Texts /\ Len(Wrapped(wrap, P, other)) >= 1
  BY <1>2, <1>3, <1>5, <1>6, <1>8
<1> QED BY <1>7 DEF P

\* An answer that says t, wrapped and cut off, is read as t or not as an answer.
LEMMA SentReads ==
  ASSUME NEW d \in {1, 2}, NEW w, NEW m, NEW t,
         w \in Texts, m \in Texts, Closed(d, w, m), ReadAs(d, w, m) \in {NoValue, Said(d, t)},
         NEW wrap \in WRAPS, NEW other \in Texts,
         NEW n \in 1 .. Len(Wrapped(wrap, Whole(d, w), other))
  PROVE  ParseJsonLeniently(SubSeq(Wrapped(wrap, Whole(d, w), other), 1, n)) \in {NoValue, Empty, Said(d, t)}
<1> DEFINE full == Wrapped(wrap, Whole(d, w), other)
           body == SubSeq(full, 1, n)
<1> SUFFICES ParseJsonLeniently(body) \in {NoValue, Empty, Said(d, t)}
  OBVIOUS
<1>1. ParseJsonLeniently(body) \in {NoValue, Empty, ReadAs(d, w, m)}
  BY AroundLenient
<1> HIDE DEF full, body
<1> QED BY <1>1

\* A complete one with nothing but repairable damage is read as t.
LEMMA SentWhole ==
  ASSUME NEW d \in {1, 2}, NEW w, NEW m, NEW t,
         w \in Texts, m \in Texts, Closed(d, w, m), ReadAs(d, w, m) = Said(d, t),
         NEW wrap \in WRAPS, wrap \notin HIDING, NEW other \in Texts
  PROVE  ParseJsonLeniently(Wrapped(wrap, Whole(d, w), other)) = Said(d, t)
<1> DEFINE full == Wrapped(wrap, Whole(d, w), other)
           n == Len(full)
<1>1. full \in Texts /\ n \in 1 .. Len(full) /\ SubSeq(full, 1, n) = full
  <2>1. full \in Texts /\ Len(full) >= 1
    BY AroundType
  <2> HIDE DEF full
  <2> QED BY <2>1, SubSeqFull DEF Texts
<1>2. \A i \in 1 .. Len(full) : i = Len(full) => ParseJsonLeniently(SubSeq(full, 1, i)) = ReadAs(d, w, m)
  BY AroundLenient
<1> HIDE DEF full
<1>3. ParseJsonLeniently(full) = Said(d, t)
  BY <1>1, <1>2
<1> QED BY <1>3 DEF full

\* What of an answer can be taken for it.
Taken(g) == IF g.wrap = "example" THEN EXAMPLE ELSE g.said

\* The payload of an answer is a text.
LEMMA PayloadType ==
  ASSUME NEW form \in {"object", "enveloped", "serialized"}, NEW w \in Texts
  PROVE  Payload(form, w) \in Texts
<1> DEFINE object == Braced(Quoted(w))
<1>1. \A v \in Texts : Braced(Quoted(v)) \in Texts /\ Braced(Braced(Quoted(v))) \in Texts
  BY WholePayload, WholeBegins
<1>2. object \in Texts /\ Escape(object) \in Texts
  BY <1>1, EscapeRuns
<1>3. Payload(form, w) \in {object, Braced(object), Braced(Quoted(Escape(object)))}
  BY DEF Payload
<1> QED BY <1>1, <1>2, <1>3

\* The example says what it says.
LEMMA ExampleMatched ==
  ASSUME NEW d \in {1, 2}
  PROVE  EXAMPLE \in Texts /\ \E m : \E c \in BOOLEAN : Matched(d, EXAMPLE, m, EXAMPLE, FALSE, c)
<1>1. "x" \in CHARS /\ TRUE \in BOOLEAN /\ << >> \in Texts /\ EXAMPLE \in Texts
  BY DEF CHARS, EXAMPLE, Texts
<1>2. << >> \o Escaped("x") = EXAMPLE /\ Append(<< >>, "x") = EXAMPLE
  <2>1. Escaped("x") = <<"x">>
    BY DEF Escaped
  <2>2. << >> \o <<"x">> = <<"x">> /\ Append(<< >>, "x") = << >> \o <<"x">>
    BY <1>1, AppendTwo, ConcatEmptySeq DEF Texts, EXAMPLE
  <2> QED BY <2>1, <2>2 DEF EXAMPLE
<1>3. \E c \in BOOLEAN : Matched(d, << >>, << >>, << >>, FALSE, c)
  BY <1>1, MatchedEmpty
<1>4. PICK c \in BOOLEAN : Matched(d, << >>, << >>, << >>, FALSE, c)
  BY <1>3
<1>5. \E m : Matched(d, << >> \o Escaped("x"), m, Append(<< >>, "x"), FALSE, c)
  BY <1>1, <1>4, MatchedEscaped
<1> QED BY <1>1, <1>2, <1>5

\* An accepted answer is what was said, or the example, and a legible one is accepted.
LEMMA JudgedRight ==
  ASSUME NEW g, GenOK(g), Written(g), NEW wrapped \in BOOLEAN, Sent(g, wrapped), ~Ambiguous(g)
  PROVE  /\ SafeParse(Judged(g, wrapped)) => Judged(g, wrapped).text = Taken(g)
         /\ Legible(g) => SafeParse(Judged(g, wrapped))
<1> DEFINE w == IF g.wrap = "example" THEN EXAMPLE ELSE g.wire
           o == IF g.wrap = "example" THEN g.wire ELSE EXAMPLE
           t == Taken(g)
           object == Braced(Quoted(w))
           other == Payload(g.form, o)
           full == Around(g.wrap, Payload(g.form, g.wire), Payload(g.form, EXAMPLE))
           read == ParseJsonLeniently(g.body)
           value == Judged(g, wrapped)
<1> USE DEF GenOK
<1>1. ~Misread(g) /\ ~Hanging(g)
  <2>1. ~Misread(g)
    BY DEF Misread, Ambiguous
  <2>2. ~Hanging(g)
    BY DEF Hanging, Ambiguous
  <2> QED BY <2>1, <2>2
<1>3. /\ Legible(g) => t # << >> /\ g.lost = 0 /\ g.wrap \notin HIDING
      /\ Legible(g) => Clean(g)
  BY DEF Legible, Clean, Taken, HIDING
<1>4. g.wrap \in WRAPS /\ g.lost \in Nat
  BY DEF Sent
<1>2. ASSUME NEW d \in {1, 2}
      PROVE  \E m : \E c \in BOOLEAN : Matched(d, w, m, t, FALSE, c) /\ (Legible(g) => c)
  <2>1. CASE g.wrap = "example"
    <3>1. ~Legible(g)
      BY <1>3, <2>1 DEF HIDING
    <3>2. PICK m : \E c \in BOOLEAN : Matched(d, EXAMPLE, m, EXAMPLE, FALSE, c)
      BY ExampleMatched
    <3> QED BY <2>1, <3>1, <3>2 DEF Taken
  <2>2. CASE g.wrap # "example"
    <3>1. SaysSo(d, g)
      BY <1>1 DEF Written
    <3>2. w = g.wire /\ t = g.said
      BY <2>2 DEF Taken
    <3> HIDE DEF w, t
    <3>3. PICK m : \E e \in BOOLEAN : Matched(d, w, m, t, FALSE, e) /\ (Clean(g) => e)
      BY <3>1, <3>2 DEF SaysSo
    <3>4. PICK e \in BOOLEAN : Matched(d, w, m, t, FALSE, e) /\ (Clean(g) => e)
      BY <3>3
    <3> QED BY <1>3, <3>4
  <2> QED BY <2>1, <2>2
<1>5. value = UnwrapEnvelope(read, wrapped)
  BY DEF Judged
<1>10. w \in Texts /\ other \in Texts /\ full = Wrapped(g.wrap, Payload(g.form, w), other)
  <2>1. EXAMPLE \in Texts
    BY ExampleMatched
  <2>2. w \in Texts /\ o \in Texts
    BY <2>1
  <2> HIDE DEF w, o
  <2>3. other \in Texts
    BY <2>2, PayloadType DEF Sent
  <2>4. full = Wrapped(g.wrap, Payload(g.form, w), other)
    BY DEF Wrapped, w, o
  <2> QED BY <2>2, <2>3, <2>4
<1> HIDE DEF w, o, t, other
<1>6. CASE g.lost > 0 /\ g.body = Braced(<< >>)
  <2>1. read = Empty
    BY <1>6, BracesRead
  <2>2. ~SafeParse(value) /\ g.lost # 0
    BY <1>4, <1>5, <1>6, <2>1, NoValueUnwraps
  <2> HIDE DEF value
  <2>3. ~SafeParse(Judged(g, wrapped))
    BY <2>2 DEF value
  <2> QED BY <1>3, <2>2, <2>3
<1>7. CASE g.lost < Len(full) /\ g.body = SubSeq(full, 1, Len(full) - g.lost)
  <2>1. object = Whole(1, w) /\ Braced(object) = Whole(2, w) /\ object \in Texts
    <3>1. object = Whole(1, w) /\ Braced(object) = Whole(2, w)
      BY <1>10, WholePayload
    <3>2. Whole(1, w) \in Texts
      BY <1>10, WholeBegins
    <3> QED BY <3>1, <3>2
  <2>2. ASSUME NEW d \in {1, 2}, NEW v, NEW m, NEW said, NEW c \in BOOLEAN,
               Matched(d, v, m, said, FALSE, c), Payload(g.form, w) = Whole(d, v), Legible(g) => c
        PROVE  /\ read \in {NoValue, Empty, Said(d, said)}
               /\ Legible(g) => read = Said(d, said)
    <3> HIDE DEF full
    <3>1. full = Wrapped(g.wrap, Whole(d, v), other)
      BY <1>10, <2>2
    <3>2. /\ ParseJsonLeniently(g.body) \in {NoValue, Empty, Said(d, said)}
          /\ g.lost = 0 /\ g.wrap \notin HIDING /\ c => ParseJsonLeniently(g.body) = Said(d, said)
      <4> DEFINE wrap == g.wrap
                 whole == Wrapped(wrap, Whole(d, v), other)
                 n == Len(full) - g.lost
                 part == ParseJsonLeniently(SubSeq(whole, 1, n))
      <4>1. wrap \in WRAPS /\ v \in Texts /\ m \in Texts
        BY <1>4, <2>2 DEF Matched
      <4>2. whole \in Texts /\ Len(whole) \in Nat
        <5>1. whole \in Texts
          BY <1>10, <4>1, AroundType
        <5> HIDE DEF whole
        <5> QED BY <5>1 DEF Texts
      <4> HIDE DEF wrap
      <4>3. full = whole
        BY <3>1 DEF wrap
      <4>4. n \in 1 .. Len(whole)
        BY <1>4, <1>7, <4>2, <4>3
      <4>5. part = ParseJsonLeniently(g.body)
        BY <1>7, <4>3
      <4>6. /\ Closed(d, v, m) /\ ReadAs(d, v, m) \in {NoValue, Said(d, said)}
            /\ c => ReadAs(d, v, m) = Said(d, said)
        <5>1. Says(d, v, m, said, c)
          BY <2>2 DEF Says
        <5> QED BY <5>1, MatchedClosed
      <4>7. part \in {NoValue, Empty, Said(d, said)}
        <5> HIDE DEF n
        <5> QED BY <1>10, <4>1, <4>4, <4>6, SentReads
      <4>8. ASSUME g.lost = 0, wrap \notin HIDING, c
            PROVE  part = Said(d, said)
        <5>1. ReadAs(d, v, m) = Said(d, said)
          BY <4>6, <4>8
        <5>2. ParseJsonLeniently(whole) = Said(d, said)
          <6>1. wrap \in WRAPS /\ wrap \notin HIDING
            BY <4>1, <4>8
          <6> QED BY <1>10, <4>1, <4>6, <5>1, <6>1, SentWhole
        <5>3. n = Len(whole) /\ SubSeq(whole, 1, Len(whole)) = whole
          BY <4>2, <4>3, <4>8, SubSeqFull DEF Texts
        <5> HIDE DEF n, whole
        <5> QED BY <5>2, <5>3
      <4> HIDE DEF part, whole
      <4> QED BY <4>5, <4>7, <4>8 DEF wrap
    <3> QED BY <1>3, <2>2, <3>2
  <2>3. /\ ~SafeParse(UnwrapEnvelope(NoValue, wrapped))
        /\ ~SafeParse(UnwrapEnvelope(Empty, wrapped))
    BY NoValueUnwraps
  <2> HIDE DEF read, value, object, full
  <2>4. CASE g.form = "object"
    <3>1. wrapped = FALSE /\ Payload(g.form, w) = Whole(1, w)
      BY <2>1, <2>4 DEF Sent, Payload, object
    <3>2. PICK m : \E c \in BOOLEAN : Matched(1, w, m, t, FALSE, c) /\ (Legible(g) => c)
      BY <1>2
    <3>3. PICK c \in BOOLEAN : Matched(1, w, m, t, FALSE, c) /\ (Legible(g) => c)
      BY <3>2
    <3>4. read \in {NoValue, Empty, Said(1, t)} /\ (Legible(g) => read = Said(1, t))
      BY <1>3, <2>2, <3>1, <3>3
    <3>5. UnwrapEnvelope(Said(1, t), wrapped) = Said(1, t) /\ Said(1, t).text = t
          /\ (SafeParse(Said(1, t)) <=> t # << >>)
      BY <3>1, SaidUnwraps
    <3>6. SafeParse(value) => value.text = t
      BY <1>5, <2>3, <3>4, <3>5
    <3>7. Legible(g) => SafeParse(value)
      BY <1>3, <1>5, <3>4, <3>5
    <3> QED BY <3>6, <3>7 DEF value, t
  <2>5. CASE g.form = "enveloped"
    <3>1. wrapped = TRUE /\ Payload(g.form, w) = Whole(2, w)
      BY <2>1, <2>5 DEF Sent, Payload, object
    <3>2. PICK m : \E c \in BOOLEAN : Matched(2, w, m, t, FALSE, c) /\ (Legible(g) => c)
      BY <1>2
    <3>3. PICK c \in BOOLEAN : Matched(2, w, m, t, FALSE, c) /\ (Legible(g) => c)
      BY <3>2
    <3>4. read \in {NoValue, Empty, Said(2, t)} /\ (Legible(g) => read = Said(2, t))
      BY <1>3, <2>2, <3>1, <3>3
    <3>5. UnwrapEnvelope(Said(2, t), wrapped) = Said(1, t) /\ Said(1, t).text = t
          /\ (SafeParse(Said(1, t)) <=> t # << >>)
      BY <3>1, SaidUnwraps
    <3>6. SafeParse(value) => value.text = t
      BY <1>5, <2>3, <3>4, <3>5
    <3>7. Legible(g) => SafeParse(value)
      BY <1>3, <1>5, <3>4, <3>5
    <3> QED BY <3>6, <3>7 DEF value, t
  <2>6. CASE g.form = "serialized"
    <3> DEFINE v == Escape(object)
    <3>1. wrapped = TRUE /\ Payload(g.form, w) = Whole(1, v)
      <4>1. v \in Texts
        BY <2>1, EscapeRuns
      <4>2. Braced(Quoted(v)) = Whole(1, v)
        BY <4>1, WholePayload
      <4> QED BY <2>6, <4>2 DEF Sent, Payload, object
    <3>2. PICK m1 : Matched(1, v, m1, object, FALSE, TRUE)
      BY <2>1, EscapeMatched
    <3>3. PICK m : \E c \in BOOLEAN : Matched(1, w, m, t, FALSE, c) /\ (Legible(g) => c)
      BY <1>2
    <3>4. PICK c \in BOOLEAN : Matched(1, w, m, t, FALSE, c) /\ (Legible(g) => c)
      BY <3>3
    <3> DEFINE inner == ParseJsonLeniently(object)
    <3>5. inner \in {NoValue, Said(1, t)} /\ (Legible(g) => inner = Said(1, t))
      <4>1. /\ w \in Texts /\ m \in Texts /\ Closed(1, w, m)
            /\ ReadAs(1, w, m) \in {NoValue, Said(1, t)}
            /\ c => ReadAs(1, w, m) = Said(1, t)
        <5>1. Says(1, w, m, t, c)
          BY <3>4 DEF Says
        <5> QED BY <5>1, MatchedClosed
      <4>2. inner = ReadAs(1, w, m)
        BY <2>1, <4>1, WholeLenient
      <4> QED BY <1>3, <3>4, <4>1, <4>2
    <3>6. read \in {NoValue, Empty, Said(1, object)} /\ (Legible(g) => read = Said(1, object))
      <4>1. TRUE \in BOOLEAN /\ (Legible(g) => TRUE)
        OBVIOUS
      <4> QED BY <2>2, <3>1, <3>2, <4>1
    <3>7. /\ inner.ok => UnwrapEnvelope(Said(1, object), wrapped) = inner
          /\ ~inner.ok => ~SafeParse(UnwrapEnvelope(Said(1, object), wrapped))
      BY <3>1, SaidUnwraps
    <3>8. /\ Said(1, t).text = t /\ Said(1, t).ok
          /\ (SafeParse(Said(1, t)) <=> t # << >>)
      BY SaidUnwraps
    <3>9. ~NoValue.ok
      BY DEF NoValue
    <3> HIDE DEF inner
    <3>10. SafeParse(value) => value.text = t
      BY <1>5, <2>3, <3>5, <3>6, <3>7, <3>8, <3>9
    <3>11. Legible(g) => SafeParse(value)
      BY <1>3, <1>5, <3>5, <3>6, <3>7, <3>8
    <3> QED BY <3>10, <3>11 DEF value, t
  <2> QED BY <2>4, <2>5, <2>6 DEF Sent
<1> QED BY <1>6, <1>7 DEF Sent

-----------------------------------------------------------------------------
(* The invariant of a call, and the theorems.                              *)

CallFields == {"at", "provider", "wrapped", "sent", "strict", "schema", "aborted",
               "ok", "outcome", "output"}
GenFields  == {"said", "wire", "weak", "form", "wrap", "lost", "body"}

\* What the model has written says what it was to say; a finished answer is what
\* the call waits for or has judged.
CallInv ==
  /\ DOMAIN call = CallFields /\ DOMAIN gen = GenFields
  /\ call.wrapped \in BOOLEAN
  /\ GenOK(gen) /\ Written(gen)
  /\ gen.body # << >> => Sent(gen, call.wrapped) /\ call.ok /\ call.at \in {"body", "done"}
  /\ call.outcome = "output" => call.at = "done"
  /\ OutputIsWritten /\ LegibleIsRead

\* It holds of a call that has not begun.
LEMMA CallInvInit == CallInit => CallInv
<1> SUFFICES ASSUME CallInit PROVE CallInv
  OBVIOUS
<1>1. call = NoCall /\ gen = NoGen
  BY DEF CallInit
<1>2. DOMAIN call = CallFields /\ DOMAIN gen = GenFields
  BY <1>1 DEF NoCall, NoGen, CallFields, GenFields
<1>3. /\ call.wrapped = FALSE /\ call.at = "idle" /\ call.outcome = "none"
      /\ gen.body = << >> /\ gen.said = << >> /\ gen.wire = << >> /\ gen.weak = {}
  BY <1>1 DEF NoCall, NoGen
<1>4. GenOK(gen)
  BY <1>3 DEF GenOK, Texts
<1>5. Written(gen)
  <2>1. ~Hanging(gen)
    BY <1>3 DEF Hanging
  <2>2. ASSUME NEW d \in {1, 2}
        PROVE  SaysSo(d, gen)
    <3>1. Matched(d, << >>, << >>, << >>, FALSE, TRUE)
      BY MatchedEmpty
    <3>2. TRUE \in BOOLEAN
      OBVIOUS
    <3> QED BY <1>3, <3>1, <3>2 DEF SaysSo
  <2> QED BY <2>1, <2>2 DEF Written
<1>6. OutputIsWritten /\ LegibleIsRead
  BY <1>3 DEF OutputIsWritten, LegibleIsRead
<1> QED BY <1>2, <1>3, <1>4, <1>5, <1>6 DEF CallInv

\* The call goes on while the model has not finished.
LEMMA OnlyCall ==
  ASSUME CallInv, UNCHANGED gen, gen.body = << >>, DOMAIN call' = CallFields,
         call'.wrapped \in BOOLEAN, call'.outcome # "output"
  PROVE  CallInv'
BY ZenonT(60) DEF CallInv, GenOK, Written, Misread, Hanging, SaysSo, SaysAllButOne, Clean, OutputIsWritten, LegibleIsRead

\* A character more keeps it: WrittenEscaped and WrittenRaw.
LEMMA WriteKeeps ==
  ASSUME CallInv, NEW ch \in CHARS, NEW raw \in BOOLEAN, Write(ch, raw)
  PROVE  CallInv'
<1>1. /\ gen.body = << >> /\ UNCHANGED call /\ DOMAIN gen = GenFields /\ call.at = "body"
      /\ gen' = [gen EXCEPT !.said = Append(@, ch),
                        !.wire = @ \o (IF raw THEN <<ch>> ELSE Escaped(ch)),
                        !.weak = IF raw THEN @ \cup {Len(gen.wire) + 1} ELSE @]
  BY DEF Write, CallInv
<1>2. /\ DOMAIN gen' = GenFields /\ gen'.body = << >>
      /\ gen'.said = Append(gen.said, ch)
      /\ gen'.wire = gen.wire \o (IF raw THEN <<ch>> ELSE Escaped(ch))
      /\ gen'.weak = IF raw THEN gen.weak \cup {Len(gen.wire) + 1} ELSE gen.weak
  BY <1>1 DEF GenFields
<1>3. GenOK(gen) /\ Written(gen)
  BY DEF CallInv
<1> DEFINE h == gen'
<1>4. GenOK(h) /\ Written(h)
  <2> HIDE DEF h
  <2>1. CASE raw
    <3>1. Escaped(ch) # <<ch>>
      BY <2>1 DEF Write
    <3>2. ch \in {"nl", "b", "q"}
      BY <3>1 DEF Escaped
    <3>3. h.said = Append(gen.said, ch) /\ h.wire = gen.wire \o <<ch>>
          /\ h.weak = gen.weak \union {Len(gen.wire) + 1}
      BY <1>2, <2>1 DEF h
    <3> QED BY <1>3, <3>2, <3>3, WrittenRaw
  <2>2. CASE ~raw
    <3>1. h.said = Append(gen.said, ch) /\ h.wire = gen.wire \o Escaped(ch) /\ h.weak = gen.weak
      BY <1>2, <2>2 DEF h
    <3> QED BY <1>3, <3>1, WrittenEscaped
  <2> QED BY <2>1, <2>2
<1>5. GenOK(gen)' /\ Written(gen)'
  BY <1>4 DEF GenOK, Written, Misread, Hanging, SaysSo, SaysAllButOne, Clean
<1>6. call.outcome # "output" /\ call.at # "done"
  BY <1>1 DEF CallInv
<1>7. OutputIsWritten' /\ LegibleIsRead'
  BY <1>1, <1>6 DEF OutputIsWritten, LegibleIsRead
<1> QED BY <1>1, <1>2, <1>5, <1>6, <1>7 DEF CallInv

\* A finished answer is what was put together of the text.
LEMMA FinishKeeps ==
  ASSUME CallInv, NEW form, NEW wrap \in WRAPS, NEW lost \in Nat, Finish(form, wrap, lost)
  PROVE  CallInv'
<1> DEFINE full == Around(wrap, Payload(form, gen.wire), Payload(form, EXAMPLE))
           body == IF lost > 0 /\ call.provider = "claude" THEN Braced(<< >>)
                   ELSE SubSeq(full, 1, Len(full) - lost)
<1>1. /\ call.at = "body" /\ call.ok /\ UNCHANGED call /\ DOMAIN gen = GenFields
      /\ form \in IF call.wrapped THEN {"enveloped", "serialized"} ELSE {"object"}
      /\ lost < Len(full)
      /\ gen' = [gen EXCEPT !.form = form, !.wrap = wrap, !.lost = lost, !.body = body]
  BY DEF Finish, CallInv
<1> HIDE DEF body
<1> DEFINE h == gen'
<1>3. /\ DOMAIN h = GenFields /\ h.form = form /\ h.wrap = wrap /\ h.lost = lost
      /\ h.said = gen.said /\ h.wire = gen.wire /\ h.weak = gen.weak
      /\ h.body = body
  <2> HIDE DEF full
  <2> QED BY <1>1 DEF GenFields
<1>4. full = Around(h.wrap, Payload(h.form, h.wire), Payload(h.form, EXAMPLE))
  <2> HIDE DEF h
  <2> QED BY <1>3
<1>5. Sent(h, call.wrapped)
  <2> HIDE DEF h, full
  <2>1. h.lost \in Nat /\ h.wrap \in WRAPS
    BY <1>3
  <2>2. h.form \in IF call.wrapped THEN {"enveloped", "serialized"} ELSE {"object"}
    BY <1>1, <1>3
  <2>3. \/ h.lost > 0 /\ h.body = Braced(<< >>)
        \/ h.body = SubSeq(full, 1, Len(full) - h.lost)
    BY <1>3 DEF body
  <2>4. h.lost < Len(full)
    BY <1>1, <1>3
  <2> QED BY <1>4, <2>1, <2>2, <2>3, <2>4 DEF Sent
<1>6. Sent(gen, call.wrapped)'
  BY <1>1, <1>5 DEF Sent
<1>7. GenOK(gen)' /\ Written(gen)'
  <2>1. GenOK(gen) /\ Written(gen)
    BY DEF CallInv
  <2>2. gen'.said = gen.said /\ gen'.wire = gen.wire /\ gen'.weak = gen.weak
    BY <1>3
  <2> QED BY <2>1, <2>2 DEF GenOK, Written, Misread, Hanging, SaysSo, SaysAllButOne, Clean
<1>8. call.outcome # "output" /\ call.at # "done"
  BY <1>1 DEF CallInv
<1>9. OutputIsWritten' /\ LegibleIsRead'
  BY <1>1, <1>8 DEF OutputIsWritten, LegibleIsRead
<1> HIDE DEF full
<1> QED BY <1>1, <1>3, <1>6, <1>7, <1>8, <1>9 DEF CallInv

\* The judgement of a finished answer keeps it: JudgedRight.
LEMMA ReceiveKeeps ==
  ASSUME CallInv, Receive
  PROVE  CallInv'
<1> DEFINE value == Judged(gen, call.wrapped)
<1>1. /\ call.at = "body" /\ gen.body # << >> /\ UNCHANGED gen
      /\ DOMAIN call = CallFields /\ DOMAIN gen = GenFields /\ call.wrapped \in BOOLEAN
      /\ GenOK(gen) /\ Written(gen) /\ Sent(gen, call.wrapped) /\ call.ok
  BY DEF Receive, CallInv
<1>2. IF SafeParse(value)
        THEN call' = [call EXCEPT !.at = "done", !.outcome = "output", !.output = value.text]
        ELSE Fail(IF gen.lost > 0 THEN "output_truncated" ELSE "schema_validation_failed")
  BY DEF Receive, Judged
<1>3. ~Ambiguous(gen) => /\ SafeParse(value) => value.text = Taken(gen)
                         /\ Legible(gen) => SafeParse(value)
  BY <1>1, JudgedRight
<1>4. Legible(gen) => ~Ambiguous(gen)
  BY DEF Legible
<1> HIDE DEF value
<1>5. /\ DOMAIN call' = CallFields /\ call'.at = "done" /\ call'.wrapped = call.wrapped
      /\ call'.ok = call.ok
      /\ SafeParse(value) => call'.outcome = "output" /\ call'.output = value.text
      /\ ~SafeParse(value) => call'.outcome # "output"
  BY <1>1, <1>2 DEF Fail, CallFields
<1>6. OutputIsWritten'
  <2> SUFFICES ASSUME call'.outcome = "output", ~Ambiguous(gen)'
               PROVE  call'.output = Taken(gen)
    BY <1>1 DEF OutputIsWritten, Taken
  <2>1. ~Ambiguous(gen)
    BY <1>1 DEF Ambiguous
  <2> QED BY <1>1, <1>3, <1>5, <2>1
<1>7. LegibleIsRead'
  <2> SUFFICES ASSUME Legible(gen)'
               PROVE  call'.outcome = "output"
    BY DEF LegibleIsRead
  <2>1. Legible(gen)
    BY <1>1 DEF Legible, Ambiguous
  <2> QED BY <1>3, <1>4, <1>5, <2>1
<1>8. GenOK(gen)' /\ Written(gen)' /\ Sent(gen, call.wrapped)'
  <2>1. GenOK(gen)' /\ Written(gen)'
    BY <1>1, ZenonT(60) DEF GenOK, Written, Misread, Hanging, SaysSo, SaysAllButOne, Clean
  <2>2. Sent(gen, call.wrapped)'
    BY <1>1, <1>5 DEF Sent
  <2> QED BY <2>1, <2>2
<1> QED BY <1>1, <1>5, <1>6, <1>7, <1>8 DEF CallInv

\* Every step keeps it.
LEMMA CallInvNext == CallInv /\ [CallNext]_callVars => CallInv'
<1> SUFFICES ASSUME CallInv, [CallNext]_callVars PROVE CallInv'
  OBVIOUS
<1>0. /\ DOMAIN call = CallFields /\ call.wrapped \in BOOLEAN
      /\ gen.body # << >> => call.ok /\ call.at \in {"body", "done"}
      /\ call.outcome = "output" => call.at = "done"
  BY DEF CallInv
<1>1. ASSUME NEW p \in PROVIDERS, NEW s \in SCHEMAS, StartCall(p, s)
      PROVE  CallInv'
  <2> DEFINE sent == ToProviderSchema(s)
             strict == p # "claude" /\ IsOpenAiStrictCompatible(sent.schema)
  <2>1. sent.wrapped \in BOOLEAN
    BY DEF ToProviderSchema
  <2>2. /\ call.at = "idle" /\ UNCHANGED gen
        /\ call' = [call EXCEPT !.at = "fetch", !.provider = p, !.schema = s,
                                !.sent = sent.schema, !.wrapped = sent.wrapped, !.strict = strict]
    BY <1>1 DEF StartCall
  <2> HIDE DEF sent, strict
  <2>3. /\ DOMAIN call' = CallFields /\ call'.wrapped = sent.wrapped
        /\ call'.outcome = call.outcome
    BY <1>0, <2>2 DEF CallFields
  <2>4. gen.body = << >> /\ call.outcome # "output"
    BY <1>0, <2>2
  <2> QED BY <2>1, <2>2, <2>3, <2>4, OnlyCall
<1>2. ASSUME NEW ch \in CHARS, NEW raw \in BOOLEAN, Write(ch, raw)
      PROVE  CallInv'
  BY <1>2, WriteKeeps
<1>3. ASSUME NEW form, NEW wrap \in WRAPS, NEW lost \in 0 .. MaxLost, Finish(form, wrap, lost)
      PROVE  CallInv'
  <2>1. lost \in Nat
    BY MaxSaidAssumption
  <2> QED BY <1>3, <2>1, FinishKeeps
<1>4. CASE Deadline
  <2>1. /\ DOMAIN call' = CallFields /\ call'.wrapped = call.wrapped
        /\ call'.outcome = call.outcome /\ call.at # "done" /\ gen.body = << >> /\ UNCHANGED gen
    BY <1>0, <1>4 DEF Deadline, CallFields
  <2> QED BY <1>0, <2>1, OnlyCall
<1>5. ASSUME NEW kind, kind # "output", Fail(kind), UNCHANGED gen, gen.body = << >>
      PROVE  CallInv'
  <2>1. DOMAIN call' = CallFields /\ call'.wrapped = call.wrapped /\ call'.outcome = kind
    BY <1>0, <1>5 DEF Fail, CallFields
  <2> QED BY <1>0, <1>5, <2>1, OnlyCall
<1>6. CASE FetchRejects
  <2>1. gen.body = << >> /\ UNCHANGED gen
    BY <1>0, <1>6 DEF FetchRejects
  <2>2. Fail("timeout") \/ Fail("aborted") \/ Fail("provider_error")
    BY <1>6 DEF FetchRejects
  <2> QED BY <1>5, <2>1, <2>2
<1>7. CASE HttpError
  <2>1. gen.body = << >> /\ UNCHANGED gen /\ Fail("http_error")
    BY <1>0, <1>7 DEF HttpError
  <2> QED BY <1>5, <2>1
<1>8. CASE BodyRejects
  <2>1. gen.body = << >> /\ UNCHANGED gen
    BY <1>8 DEF BodyRejects
  <2>2. Fail("timeout") \/ Fail("provider_error")
    BY <1>8 DEF BodyRejects
  <2> QED BY <1>5, <2>1, <2>2
<1>9. CASE NoContent
  <2>1. gen.body = << >> /\ UNCHANGED gen
    BY <1>9 DEF NoContent
  <2>2. Fail("empty_output") \/ Fail("provider_error")
    BY <1>9 DEF NoContent
  <2> QED BY <1>5, <2>1, <2>2
<1>10. CASE Receive
  BY <1>10, ReceiveKeeps
<1>11. ASSUME NEW ok \in BOOLEAN, Headers(ok)
       PROVE  CallInv'
  <2>1. call.at = "fetch" /\ UNCHANGED gen /\ call' = [call EXCEPT !.at = "body", !.ok = ok]
    BY <1>11 DEF Headers
  <2>2. /\ DOMAIN call' = CallFields /\ call'.wrapped = call.wrapped /\ call'.outcome = call.outcome
    BY <1>0, <2>1 DEF CallFields
  <2>3. gen.body = << >> /\ call.outcome # "output"
    BY <1>0, <2>1
  <2> QED BY <1>0, <2>1, <2>2, <2>3, OnlyCall
<1>12. CASE UNCHANGED callVars
  BY <1>12, ZenonT(60) DEF callVars, CallInv, GenOK, Written, Misread, Hanging, SaysSo, SaysAllButOne, Clean,
               Sent, OutputIsWritten, LegibleIsRead, Legible, Ambiguous
<1> QED BY <1>1, <1>2, <1>3, <1>4, <1>6, <1>7, <1>8, <1>9, <1>10, <1>11, <1>12 DEF CallNext

\* An accepted answer is content the model wrote, however it was escaped, wrapped
\* or cut off: none of the texts parseJsonLeniently tries (llm/factory.ts) turns a
\* damaged answer into other content.  It is the answer, or the example the model
\* put in front of it in the answer's form (OutputIsWritten).
THEOREM AnswersAreWritten == CallSpec => []OutputIsWritten
<1>1. CallInv => OutputIsWritten
  BY DEF CallInv
<1> QED BY <1>1, CallInvInit, CallInvNext, PTL DEF CallSpec

\* A complete answer whose damage is raw line breaks, or backslashes before a letter
\* that needs none, in prose without braces or brackets before it, is accepted: the
\* repair and the extraction of llm/factory.ts always recover it (LegibleIsRead).
THEOREM LegibleAnswersAreRead == CallSpec => []LegibleIsRead
<1>1. CallInv => LegibleIsRead
  BY DEF CallInv
<1> QED BY <1>1, CallInvInit, CallInvNext, PTL DEF CallSpec

=============================================================================
