------------------------ MODULE SqlExecution_proofs ------------------------
(* What one call of executeSQL guarantees for every text, and for any number *)
(* of attempts, connection tries and passes.                                 *)
EXTENDS SqlExecution, WellFoundedInduction, TLAPS

-----------------------------------------------------------------------------
(* The strengthening *)

\* The pass in progress has executed what precedes the statement it sends.
PassInOrder ==
  /\ pc = "send" => 1..(next - 1) \subseteq taken
  /\ TakenInOrder

\* What the pass in progress has got past is no statement that an earlier pass
\* left behind: the database would not have accepted it again.
PassIsFresh ==
  /\ pc = "send" => \A k \in 1..(next - 1) : k \notin stale
  /\ NoSecondChance

ExecutionInv == TypeOK /\ PassInOrder /\ PassIsFresh

-----------------------------------------------------------------------------
(* The loops of parseSQLStatements and executeMultipleStatementsOnce, which  *)
(* are recursive functions: induction over the lines read.                   *)

\* Induction over the numbers, for a set of them.
LEMMA SetInduction ==
  ASSUME NEW S, 0 \in S, \A n \in Nat : n \in S => n + 1 \in S
  PROVE  Nat \subseteq S
<1> DEFINE T == Nat \ S
           less == OpToRel(<, Nat)
<1>1. \A x, y \in Nat : <<x, y>> \in less <=> x < y
  BY DEF OpToRel
<1>2. SUFFICES ASSUME T # {}  PROVE  FALSE
  OBVIOUS
<1>3. IsWellFoundedOn(less, Nat)
  BY NatLessThanWellFounded
<1> HIDE DEF less
<1>4. PICK x \in T : \A y \in T : ~ (<<y, x>> \in less)
  <2> HIDE DEF T
  <2>1. T \subseteq Nat
    BY DEF T
  <2> QED BY <1>2, <1>3, <2>1, WFMin
<1>5. x # 0 /\ x \in Nat /\ x - 1 \in Nat
  OBVIOUS
<1>6. x - 1 \in T
  BY <1>5
<1>7. x - 1 < x
  BY <1>5
<1>8. <<x - 1, x>> \in less
  BY <1>1, <1>5, <1>7
<1> QED
  BY <1>4, <1>6, <1>8

\* cut is what Cuts computes for the first n lines.
CutsOf(cut, t, n) ==
  cut = [i \in 0..n |-> IF i = 0 THEN NothingRead ELSE AddLine(cut[i - 1], t, i)]

\* plan is what Sends computes for the first n statements.
SendsOf(plan, t, n) ==
  plan = [k \in 0..n |->
            IF k = 0 THEN <<>>
            ELSE IF Sendable(t, Statements(t)[k]) THEN Append(plan[k - 1], Statements(t)[k])
            ELSE plan[k - 1]]

\* s is read line by line.
Increasing(s) == \A j, l \in DOMAIN s : j < l => s[j] < s[l]

Before(parts, s) ==
  \A k \in DOMAIN parts : \A j \in DOMAIN parts[k], l \in DOMAIN s : parts[k][j] < s[l]

Among(i, s) == \E j \in DOMAIN s : s[j] = i

LEMMA AppendToOrder ==
  ASSUME NEW parts \in Seq(Seq(Nat)), NEW s \in Seq(Nat),
         InOrder(parts), Increasing(s), Before(parts, s)
  PROVE  /\ Append(parts, s) \in Seq(Seq(Nat))
         /\ InOrder(Append(parts, s))
         /\ \A i : IsIn(i, Append(parts, s)) <=> IsIn(i, parts) \/ Among(i, s)
<1> DEFINE all == Append(parts, s)
<1>1. /\ all \in Seq(Seq(Nat)) /\ Len(all) = Len(parts) + 1 /\ Len(parts) \in Nat
      /\ DOMAIN all = 1..Len(all) /\ DOMAIN parts = 1..Len(parts)
      /\ all[Len(all)] = s
      /\ \A k \in DOMAIN parts : all[k] = parts[k]
  OBVIOUS
<1> HIDE DEF all
<1>2. \A k \in DOMAIN all : k \in DOMAIN parts \/ k = Len(all)
  BY <1>1
<1>3. \A k \in DOMAIN parts : k \in DOMAIN all /\ k < Len(all)
  BY <1>1
<1>4. ASSUME NEW k \in DOMAIN all, NEW m \in DOMAIN all, NEW j \in DOMAIN all[k],
             NEW l \in DOMAIN all[m], k < m \/ (k = m /\ j < l)
      PROVE  all[k][j] < all[m][l]
  <2>1. CASE m \in DOMAIN parts
    <3>1. k \in DOMAIN parts
      BY <1>1, <1>2, <1>4, <2>1
    <3> QED  BY <1>1, <1>4, <2>1, <3>1 DEF InOrder
  <2>2. CASE m = Len(all) /\ k \in DOMAIN parts
    BY <1>1, <1>4, <2>2 DEF Before
  <2>3. CASE m = Len(all) /\ k = Len(all)
    BY <1>1, <1>4, <2>3 DEF Increasing
  <2> QED  BY <1>2, <2>1, <2>2, <2>3
<1>5. InOrder(all)
  BY <1>4 DEF InOrder
<1>6. ASSUME NEW i  PROVE IsIn(i, all) <=> IsIn(i, parts) \/ Among(i, s)
  <2>1. IsIn(i, all) => IsIn(i, parts) \/ Among(i, s)
    BY <1>1, <1>2 DEF IsIn, Among
  <2>2. IsIn(i, parts) => IsIn(i, all)
    BY <1>1, <1>3 DEF IsIn
  <2>3. Among(i, s) => IsIn(i, all)
    <3>1. Len(all) \in DOMAIN all
      BY <1>1
    <3> QED  BY <1>1, <3>1 DEF IsIn, Among
  <2> QED  BY <2>1, <2>2, <2>3
<1> QED  BY <1>1, <1>5, <1>6 DEF all

LEMMA AppendLine ==
  ASSUME NEW s \in Seq(Nat), NEW n \in Nat, Increasing(s), \A j \in DOMAIN s : s[j] < n
  PROVE  /\ Append(s, n) \in Seq(Nat)
         /\ Append(s, n) # <<>>
         /\ Len(Append(s, n)) = Len(s) + 1
         /\ Append(s, n)[Len(s) + 1] = n
         /\ \A j \in DOMAIN s : Append(s, n)[j] = s[j]
         /\ DOMAIN Append(s, n) = DOMAIN s \cup {Len(s) + 1}
         /\ Increasing(Append(s, n))
         /\ \A i : Among(i, Append(s, n)) <=> Among(i, s) \/ i = n
<1> DEFINE all == Append(s, n)
<1>1. /\ all \in Seq(Nat) /\ Len(all) = Len(s) + 1 /\ Len(s) \in Nat /\ all # <<>>
      /\ DOMAIN all = 1..Len(all) /\ DOMAIN s = 1..Len(s)
      /\ all[Len(s) + 1] = n
      /\ \A j \in DOMAIN s : all[j] = s[j]
  OBVIOUS
<1> HIDE DEF all
<1>2. DOMAIN all = DOMAIN s \cup {Len(s) + 1}
  BY <1>1
<1>3. Increasing(all)
  BY <1>1, <1>2 DEF Increasing
<1>4. ASSUME NEW i  PROVE Among(i, all) <=> Among(i, s) \/ i = n
  BY <1>1, <1>2 DEF Among
<1> QED  BY <1>1, <1>2, <1>3, <1>4 DEF all

\* What has been read of the first n lines.
GoodCut(acc, t, n) ==
  /\ acc.done \in Seq(Seq(Nat)) /\ acc.current \in Seq(Nat)
  /\ acc = [done |-> acc.done, current |-> acc.current]
  /\ InOrder(acc.done) /\ Increasing(acc.current) /\ Before(acc.done, acc.current)
  /\ \A i \in 1..n : IsIn(i, acc.done) \/ Among(i, acc.current) <=> t[i] # "blank"
  /\ \A k \in DOMAIN acc.done :
       /\ acc.done[k] # <<>>
       /\ \A j \in DOMAIN acc.done[k] :
            /\ acc.done[k][j] \in 1..n
            /\ Ends(t, acc.done[k][j]) <=> j = Len(acc.done[k])
  /\ \A j \in DOMAIN acc.current : acc.current[j] \in 1..n /\ ~Ends(t, acc.current[j])

LEMMA NothingIsGood == ASSUME NEW t PROVE GoodCut(NothingRead, t, 0)
<1> DEFINE acc == NothingRead
<1>1. acc.done = <<>> /\ acc.current = <<>>
  BY DEF NothingRead
<1>2. <<>> \in Seq(Seq(Nat)) /\ <<>> \in Seq(Nat) /\ DOMAIN <<>> = {}
  OBVIOUS
<1>3. acc = [done |-> acc.done, current |-> acc.current]
  BY DEF NothingRead
<1> HIDE DEF acc
<1> QED  BY <1>1, <1>2, <1>3 DEF GoodCut, InOrder, Increasing, Before, acc

LEMMA AddLineIsGood ==
  ASSUME NEW t \in Seq(Line), NEW n \in Nat, n + 1 \in 1..Len(t), NEW acc, GoodCut(acc, t, n)
  PROVE  GoodCut(AddLine(acc, t, n + 1), t, n + 1)
<1> DEFINE new == AddLine(acc, t, n + 1)
           done == acc.done
           current == acc.current
           longer == Append(current, n + 1)
<1>1. t[n + 1] \in Line
  OBVIOUS
<1>a. SUFFICES GoodCut(new, t, n + 1)
  OBVIOUS
<1>2. /\ done \in Seq(Seq(Nat)) /\ current \in Seq(Nat)
      /\ acc = [done |-> done, current |-> current]
      /\ InOrder(done) /\ Increasing(current) /\ Before(done, current)
      /\ \A i \in 1..n : IsIn(i, done) \/ Among(i, current) <=> t[i] # "blank"
      /\ \A k \in DOMAIN done :
           /\ done[k] # <<>>
           /\ \A j \in DOMAIN done[k] :
                /\ done[k][j] \in 1..n
                /\ Ends(t, done[k][j]) <=> j = Len(done[k])
      /\ \A j \in DOMAIN current : current[j] \in 1..n /\ ~Ends(t, current[j])
  BY DEF GoodCut
<1>3. /\ \A i \in 1..n : i \in 1..(n + 1) /\ i # n + 1 /\ i < n + 1
      /\ \A i \in 1..(n + 1) : i \in 1..n \/ i = n + 1
      /\ n + 1 \in 1..(n + 1)
  OBVIOUS
<1>4. ~IsIn(n + 1, done) /\ ~Among(n + 1, current)
  BY <1>2, <1>3 DEF IsIn, Among
<1>5. /\ longer \in Seq(Nat) /\ longer # <<>> /\ Increasing(longer)
      /\ Len(longer) = Len(current) + 1
      /\ longer[Len(current) + 1] = n + 1
      /\ \A j \in DOMAIN current : longer[j] = current[j]
      /\ DOMAIN longer = DOMAIN current \cup {Len(current) + 1}
      /\ \A i : Among(i, longer) <=> Among(i, current) \/ i = n + 1
  <2> HIDE DEF current, done
  <2>1. n + 1 \in Nat /\ \A j \in DOMAIN current : current[j] < n + 1
    BY <1>2, <1>3
  <2> QED  BY <1>2, <2>1, AppendLine
<1>6. Before(done, longer)
  <2> HIDE DEF current, done, longer
  <2>1. ASSUME NEW k \in DOMAIN done, NEW j \in DOMAIN done[k], NEW l \in DOMAIN longer
        PROVE  done[k][j] < longer[l]
    <3>1. done[k][j] < n + 1
      BY <1>2, <1>3
    <3>2. CASE l \in DOMAIN current
      BY <1>2, <1>5, <3>2 DEF Before
    <3>3. CASE l = Len(current) + 1
      BY <1>5, <3>1, <3>3
    <3> QED  BY <1>5, <3>2, <3>3
  <2> QED  BY <2>1 DEF Before
<1>7. Len(current) \in Nat /\ DOMAIN current = 1..Len(current)
  BY <1>2
<1>8. CASE t[n + 1] = "blank"
  <2>1. new = acc
    BY <1>8 DEF AddLine
  <2> HIDE DEF new
  <2>2. \A i \in 1..(n + 1) : IsIn(i, done) \/ Among(i, current) <=> t[i] # "blank"
    BY <1>2, <1>3, <1>4, <1>8
  <2> QED  BY <1>2, <1>3, <2>1, <2>2 DEF GoodCut
<1>9. CASE t[n + 1] = "text"
  <2>1. new = [done |-> done, current |-> longer]
    <3>1. new = [acc EXCEPT !.current = longer]
      BY <1>9 DEF AddLine
    <3> HIDE DEF new, longer
    <3> QED  BY <1>2, <3>1
  <2>2. new.done = done /\ new.current = longer
    BY <2>1
  <2>3. ~Ends(t, n + 1)
    BY <1>9 DEF Ends
  <2> HIDE DEF new, longer, done, current
  <2>4. \A j \in DOMAIN longer : longer[j] \in 1..(n + 1) /\ ~Ends(t, longer[j])
    BY <1>2, <1>3, <1>5, <2>3
  <2>5. \A i \in 1..(n + 1) : IsIn(i, done) \/ Among(i, longer) <=> t[i] # "blank"
    BY <1>2, <1>3, <1>5, <1>9
  <2>6. \A k \in DOMAIN done :
           /\ done[k] # <<>>
           /\ \A j \in DOMAIN done[k] :
                /\ done[k][j] \in 1..(n + 1)
                /\ Ends(t, done[k][j]) <=> j = Len(done[k])
    BY <1>2, <1>3
  <2> QED  BY <1>2, <1>5, <1>6, <2>1, <2>2, <2>4, <2>5, <2>6 DEF GoodCut
<1>10. CASE t[n + 1] \in {"end", "semicolon"}
  <2> DEFINE all == Append(done, longer)
  <2>1. new = [done |-> all, current |-> <<>>]
    BY <1>10 DEF AddLine
  <2>2. new.done = all /\ new.current = <<>>
    BY <2>1
  <2>3. Ends(t, n + 1)
    BY <1>10 DEF Ends
  <2> HIDE DEF new, longer, done, current
  <2>4. /\ all \in Seq(Seq(Nat)) /\ InOrder(all)
        /\ \A i : IsIn(i, all) <=> IsIn(i, done) \/ Among(i, longer)
    BY <1>2, <1>5, <1>6, AppendToOrder
  <2>5. /\ DOMAIN all = DOMAIN done \cup {Len(done) + 1}
        /\ all[Len(done) + 1] = longer
        /\ \A k \in DOMAIN done : all[k] = done[k]
    BY <1>2, <1>5
  <2> HIDE DEF all
  <2>6. \A i \in 1..(n + 1) : IsIn(i, all) <=> t[i] # "blank"
    BY <1>2, <1>3, <1>4, <1>5, <1>10, <2>4
  <2>7. \A j \in DOMAIN longer : /\ longer[j] \in 1..(n + 1)
                                 /\ Ends(t, longer[j]) <=> j = Len(longer)
    BY <1>2, <1>3, <1>5, <1>7, <2>3
  <2>8. \A k \in DOMAIN all :
           /\ all[k] # <<>>
           /\ \A j \in DOMAIN all[k] :
                /\ all[k][j] \in 1..(n + 1)
                /\ Ends(t, all[k][j]) <=> j = Len(all[k])
    <3> DEFINE Good(s) == /\ s # <<>>
                          /\ \A j \in DOMAIN s :
                               /\ s[j] \in 1..(n + 1)
                               /\ Ends(t, s[j]) <=> j = Len(s)
    <3>1. \A k \in DOMAIN done : Good(done[k])
      BY <1>2, <1>3
    <3>2. Good(longer)
      BY <1>5, <2>7
    <3> SUFFICES \A k \in DOMAIN all : Good(all[k])
      OBVIOUS
    <3> HIDE DEF Good
    <3> QED  BY <2>5, <3>1, <3>2
  <2>9. /\ <<>> \in Seq(Nat) /\ DOMAIN <<>> = {} /\ Increasing(<<>>)
        /\ Before(all, <<>>) /\ \A i : ~Among(i, <<>>)
    BY DEF Increasing, Before, Among
  <2> QED  BY <2>1, <2>2, <2>4, <2>6, <2>8, <2>9 DEF GoodCut
<1> QED  BY <1>1, <1>8, <1>9, <1>10 DEF Line

\* The recursion of parseSQLStatements ends, and Cuts is what it computes.
LEMMA CutsExist ==
  ASSUME NEW t
  PROVE  \A k \in Nat : \E g : CutsOf(g, t, k)
<1> DEFINE S == {k \in Nat : \E g : CutsOf(g, t, k)}
<1>1. 0 \in S
  <2> DEFINE h == [i \in 0..0 |-> NothingRead]
  <2>1. CutsOf(h, t, 0)
    BY DEF CutsOf
  <2> QED  BY <2>1
<1>2. ASSUME NEW n \in Nat, n \in S  PROVE  n + 1 \in S
  <2>1. PICK g : CutsOf(g, t, n)
    BY <1>2
  <2> DEFINE h == [i \in 0..(n + 1) |->
                     IF i = 0 THEN NothingRead ELSE AddLine(g[i - 1], t, i)]
  <2>2. \A i \in 0..n : g[i] = IF i = 0 THEN NothingRead ELSE AddLine(g[i - 1], t, i)
    BY <2>1 DEF CutsOf
  <2>3. \A i \in 0..n : h[i] = g[i]
    BY <2>2
  <2>4. \A i \in 0..(n + 1) : i # 0 => i - 1 \in 0..n
    OBVIOUS
  <2>5. CutsOf(h, t, n + 1)
    <3> HIDE DEF h
    <3>1. \A i \in 0..(n + 1) : (IF i = 0 THEN NothingRead ELSE AddLine(g[i - 1], t, i))
                               = (IF i = 0 THEN NothingRead ELSE AddLine(h[i - 1], t, i))
      BY <2>3, <2>4
    <3>2. [i \in 0..(n + 1) |-> IF i = 0 THEN NothingRead ELSE AddLine(g[i - 1], t, i)]
        = [i \in 0..(n + 1) |-> IF i = 0 THEN NothingRead ELSE AddLine(h[i - 1], t, i)]
      BY <3>1
    <3>3. h = [i \in 0..(n + 1) |-> IF i = 0 THEN NothingRead ELSE AddLine(g[i - 1], t, i)]
      BY DEF h
    <3> QED  BY <3>2, <3>3 DEF CutsOf
  <2> HIDE DEF h
  <2> QED  BY <2>5
<1> HIDE DEF S
<1>3. Nat \subseteq S
  BY <1>1, <1>2, SetInduction
<1> QED  BY <1>3 DEF S

LEMMA CutsAre ==
  ASSUME NEW t, Len(t) \in Nat
  PROVE  CutsOf(Cuts(t), t, Len(t))
BY CutsExist DEF Cuts, CutsOf

\* However many lines have been read.
LEMMA CutIsGood ==
  ASSUME NEW t \in Seq(Line)
  PROVE  GoodCut(Cut(t), t, Len(t))
<1> DEFINE last == Len(t)
           S == {n \in Nat : n <= last => GoodCut(Cuts(t)[n], t, n)}
<1>1. last \in Nat
  OBVIOUS
<1>2. Cuts(t) = [i \in 0..last |-> IF i = 0 THEN NothingRead ELSE AddLine(Cuts(t)[i - 1], t, i)]
  BY <1>1, CutsAre DEF CutsOf
<1> HIDE DEF last
<1>3. Cuts(t)[0] = NothingRead
  BY <1>1, <1>2
<1>4. ASSUME NEW n \in Nat, n + 1 <= last
      PROVE  Cuts(t)[n + 1] = AddLine(Cuts(t)[n], t, n + 1)
  <2>1. n + 1 \in 0..last /\ n + 1 # 0 /\ (n + 1) - 1 = n
    BY <1>1, <1>4
  <2> QED  BY <1>2, <2>1
<1>5. 0 \in S
  BY <1>3, NothingIsGood
<1>6. ASSUME NEW n \in Nat, n \in S  PROVE n + 1 \in S
  <2>1. ASSUME n + 1 <= last  PROVE GoodCut(Cuts(t)[n + 1], t, n + 1)
    <3>1. GoodCut(Cuts(t)[n], t, n)
      BY <1>1, <1>6, <2>1
    <3>2. n + 1 \in 1..Len(t)
      BY <1>1, <2>1 DEF last
    <3> QED  BY <1>4, <2>1, <3>1, <3>2, AddLineIsGood
  <2> QED  BY <2>1
<1> HIDE DEF S
<1>7. Nat \subseteq S
  BY <1>5, <1>6, SetInduction
<1> QED  BY <1>1, <1>7 DEF S, Cut, last

\* parseSQLStatements splits a text, of any length.
LEMMA StatementsSplit ==
  ASSUME NEW t \in Seq(Line)
  PROVE  Statements(t) \in Seq(Seq(Nat)) /\ SplitOf(t, Statements(t))
<1> DEFINE n == Len(t)
           done == Cut(t).done
           current == Cut(t).current
<1>1. /\ done \in Seq(Seq(Nat)) /\ current \in Seq(Nat)
      /\ InOrder(done) /\ Increasing(current) /\ Before(done, current)
      /\ \A i \in 1..n : IsIn(i, done) \/ Among(i, current) <=> t[i] # "blank"
      /\ \A k \in DOMAIN done :
           /\ done[k] # <<>>
           /\ \A j \in DOMAIN done[k] :
                /\ done[k][j] \in 1..n
                /\ Ends(t, done[k][j]) <=> j = Len(done[k])
      /\ \A j \in DOMAIN current : current[j] \in 1..n /\ ~Ends(t, current[j])
  BY CutIsGood DEF GoodCut
<1>2. Statements(t) = IF current = <<>> THEN done ELSE Append(done, current)
  BY DEF Statements
<1>3. DOMAIN t = 1..n
  OBVIOUS
<1> HIDE DEF n, done, current
<1>4. ASSUME NEW k \in DOMAIN done
      PROVE  Len(done[k]) \in DOMAIN done[k]
  BY <1>1, <1>4
<1>5. ASSUME NEW k \in DOMAIN done
      PROVE  /\ done[k] # <<>>
             /\ \A j \in DOMAIN done[k] :
                  /\ done[k][j] \in DOMAIN t
                  /\ Ends(t, done[k][j]) => j = Len(done[k])
             /\ Ends(t, done[k][Len(done[k])])
  BY <1>1, <1>3, <1>4, <1>5
<1>6. CASE current = <<>>
  <2>1. \A i : ~Among(i, current)
    BY <1>6 DEF Among
  <2> QED  BY <1>1, <1>2, <1>3, <1>5, <1>6, <2>1 DEF SplitOf
<1>7. CASE current # <<>>
  <2> DEFINE all == Append(done, current)
  <2>1. /\ all \in Seq(Seq(Nat)) /\ InOrder(all)
        /\ \A i : IsIn(i, all) <=> IsIn(i, done) \/ Among(i, current)
    BY <1>1, AppendToOrder
  <2>2. /\ DOMAIN all = DOMAIN done \cup {Len(done) + 1}
        /\ Len(all) = Len(done) + 1
        /\ all[Len(done) + 1] = current
        /\ \A k \in DOMAIN done : all[k] = done[k]
    BY <1>1
  <2> HIDE DEF all
  <2>3. ASSUME NEW k \in DOMAIN all
        PROVE  /\ all[k] # <<>>
               /\ \A j \in DOMAIN all[k] :
                    /\ all[k][j] \in DOMAIN t
                    /\ Ends(t, all[k][j]) => j = Len(all[k])
               /\ k < Len(all) => Ends(t, all[k][Len(all[k])])
    <3>1. CASE k \in DOMAIN done
      <4>1. all[k] = done[k]
        BY <2>2, <3>1
      <4> QED  BY <1>5, <3>1, <4>1
    <3>2. CASE k = Len(done) + 1
      <4>1. all[k] = current /\ ~(k < Len(all))
        BY <1>1, <2>2, <3>2
      <4> QED  BY <1>1, <1>3, <1>7, <4>1
    <3> QED  BY <2>2, <3>1, <3>2
  <2>4. Statements(t) = all
    BY <1>2, <1>7 DEF all
  <2> QED  BY <1>1, <1>3, <2>1, <2>3, <2>4 DEF SplitOf
<1> QED  BY <1>6, <1>7

-----------------------------------------------------------------------------
\* Likewise for the loop of executeMultipleStatementsOnce.
LEMMA SendsExist ==
  ASSUME NEW t
  PROVE  \A m \in Nat : \E g : SendsOf(g, t, m)
<1> DEFINE Extend(g, k) == IF Sendable(t, Statements(t)[k]) THEN Append(g[k - 1], Statements(t)[k])
                           ELSE g[k - 1]
           S == {m \in Nat : \E g : g = [k \in 0..m |-> IF k = 0 THEN <<>> ELSE Extend(g, k)]}
<1>1. 0 \in S
  <2> DEFINE h == [k \in 0..0 |-> <<>>]
  <2> HIDE DEF Extend
  <2>1. h = [k \in 0..0 |-> IF k = 0 THEN <<>> ELSE Extend(h, k)]
    OBVIOUS
  <2> QED  BY <2>1
<1>2. ASSUME NEW n \in Nat, n \in S  PROVE  n + 1 \in S
  <2>1. PICK g : g = [k \in 0..n |-> IF k = 0 THEN <<>> ELSE Extend(g, k)]
    BY <1>2
  <2> DEFINE h == [k \in 0..(n + 1) |-> IF k = 0 THEN <<>> ELSE Extend(g, k)]
  <2>2. \A k \in 0..n : h[k] = g[k]
    <3> HIDE DEF Extend
    <3>1. \A k \in 0..n : g[k] = IF k = 0 THEN <<>> ELSE Extend(g, k)
      BY <2>1
    <3> QED  BY <3>1
  <2>3. \A k \in 0..(n + 1) : k # 0 => k - 1 \in 0..n
    OBVIOUS
  <2>4. \A k \in 0..(n + 1) : k # 0 => Extend(g, k) = Extend(h, k)
    <3> HIDE DEF h
    <3> QED  BY <2>2, <2>3
  <2>5. h = [k \in 0..(n + 1) |-> IF k = 0 THEN <<>> ELSE Extend(h, k)]
    <3> HIDE DEF h, Extend
    <3>1. [k \in 0..(n + 1) |-> IF k = 0 THEN <<>> ELSE Extend(g, k)]
        = [k \in 0..(n + 1) |-> IF k = 0 THEN <<>> ELSE Extend(h, k)]
      BY <2>4
    <3> QED  BY <3>1 DEF h
  <2> HIDE DEF h, Extend
  <2> QED  BY <2>5
<1> HIDE DEF S
<1>3. Nat \subseteq S
  BY <1>1, <1>2, SetInduction
<1> QED  BY <1>3 DEF S, SendsOf

LEMMA SendsAre ==
  ASSUME NEW t, Len(Statements(t)) \in Nat
  PROVE  SendsOf(Sends(t), t, Len(Statements(t)))
BY SendsExist DEF Sends, SendsOf

\* What is sent of the first n statements.
GoodPlan(plan, t, n) ==
  /\ plan \in Seq(Seq(Nat))
  /\ InOrder(plan)
  /\ \A k \in DOMAIN plan : \E m \in 1..n : plan[k] = Statements(t)[m]
  /\ \A k \in DOMAIN plan : Sendable(t, plan[k])
  /\ \A m \in 1..n :
       Sendable(t, Statements(t)[m]) => \E k \in DOMAIN plan : plan[k] = Statements(t)[m]

LEMMA SendAnother ==
  ASSUME NEW t \in Seq(Line), NEW n \in Nat, n + 1 \in 1..Len(Statements(t)),
         NEW plan, GoodPlan(plan, t, n)
  PROVE  GoodPlan(IF Sendable(t, Statements(t)[n + 1]) THEN Append(plan, Statements(t)[n + 1])
                  ELSE plan, t, n + 1)
<1> DEFINE parts == Statements(t)
           s == parts[n + 1]
           longer == Append(plan, s)
<1>1. parts \in Seq(Seq(Nat)) /\ InOrder(parts)
  BY StatementsSplit DEF SplitOf
<1> HIDE DEF parts
<1>2. /\ s \in Seq(Nat) /\ n + 1 \in DOMAIN parts /\ \A m \in 1..n : m \in DOMAIN parts
      /\ \A m \in 1..n : m \in 1..(n + 1) /\ m < n + 1
      /\ \A m \in 1..(n + 1) : m \in 1..n \/ m = n + 1
      /\ n + 1 \in 1..(n + 1)
  BY <1>1 DEF parts
<1>3. /\ plan \in Seq(Seq(Nat)) /\ InOrder(plan)
      /\ \A k \in DOMAIN plan : \E m \in 1..n : plan[k] = parts[m]
      /\ \A k \in DOMAIN plan : Sendable(t, plan[k])
      /\ \A m \in 1..n : Sendable(t, parts[m]) => \E k \in DOMAIN plan : plan[k] = parts[m]
  BY DEF GoodPlan, parts
<1>4. CASE ~Sendable(t, s)
  BY <1>2, <1>3, <1>4 DEF GoodPlan, parts
<1>5. CASE Sendable(t, s)
  <2>1. Increasing(s)
    BY <1>1, <1>2 DEF InOrder, Increasing
  <2>2. Before(plan, s)
    <3>1. ASSUME NEW k \in DOMAIN plan, NEW j \in DOMAIN plan[k], NEW l \in DOMAIN s
          PROVE  plan[k][j] < s[l]
      <4>1. PICK m \in 1..n : plan[k] = parts[m]
        BY <1>3
      <4> QED  BY <1>1, <1>2, <4>1 DEF InOrder
    <3> QED  BY <3>1 DEF Before
  <2>3. longer \in Seq(Seq(Nat)) /\ InOrder(longer)
    <3> HIDE DEF s
    <3> QED  BY <1>2, <1>3, <2>1, <2>2, AppendToOrder
  <2>4. /\ DOMAIN longer = DOMAIN plan \cup {Len(plan) + 1}
        /\ longer[Len(plan) + 1] = s
        /\ \A k \in DOMAIN plan : longer[k] = plan[k]
    <3> HIDE DEF s
    <3> QED  BY <1>2, <1>3
  <2> HIDE DEF longer
  <2>5. \A k \in DOMAIN longer : \E m \in 1..(n + 1) : longer[k] = parts[m]
    BY <1>2, <1>3, <2>4
  <2>6. \A k \in DOMAIN longer : Sendable(t, longer[k])
    BY <1>3, <1>5, <2>4
  <2>7. \A m \in 1..(n + 1) : Sendable(t, parts[m]) => \E k \in DOMAIN longer : longer[k] = parts[m]
    BY <1>2, <1>3, <2>4
  <2>8. GoodPlan(longer, t, n + 1)
    BY <2>3, <2>5, <2>6, <2>7 DEF GoodPlan, parts
  <2> QED  BY <1>5, <2>8 DEF longer, parts
<1> QED  BY <1>4, <1>5

LEMMA PlanIsGood ==
  ASSUME NEW t \in Seq(Line)
  PROVE  GoodPlan(ToSend(t), t, Len(Statements(t)))
<1> DEFINE last == Len(Statements(t))
           plan(k) == Sends(t)[k]
           S == {n \in Nat : n <= last => GoodPlan(plan(n), t, n)}
<1>1. last \in Nat
  BY StatementsSplit
<1>2. Sends(t) = [k \in 0..last |->
                    IF k = 0 THEN <<>>
                    ELSE IF Sendable(t, Statements(t)[k])
                    THEN Append(Sends(t)[k - 1], Statements(t)[k])
                    ELSE Sends(t)[k - 1]]
  BY <1>1, SendsAre DEF SendsOf
<1> HIDE DEF last
<1>3. plan(0) = <<>>
  BY <1>1, <1>2
<1>4. ASSUME NEW n \in Nat, n + 1 <= last
      PROVE  plan(n + 1) = IF Sendable(t, Statements(t)[n + 1])
                           THEN Append(plan(n), Statements(t)[n + 1]) ELSE plan(n)
  <2>1. n + 1 \in 0..last /\ n + 1 # 0 /\ (n + 1) - 1 = n
    BY <1>1, <1>4
  <2> QED  BY <1>2, <2>1
<1> HIDE DEF plan
<1>5. 0 \in S
  <2>1. GoodPlan(<<>>, t, 0)
    BY DEF GoodPlan, InOrder
  <2> QED  BY <1>3, <2>1
<1>6. ASSUME NEW n \in Nat, n \in S  PROVE n + 1 \in S
  <2>1. ASSUME n + 1 <= last  PROVE GoodPlan(plan(n + 1), t, n + 1)
    <3>1. GoodPlan(plan(n), t, n)
      BY <1>1, <1>6, <2>1
    <3>2. n + 1 \in 1..Len(Statements(t))
      BY <1>1, <2>1 DEF last
    <3> QED  BY <1>4, <2>1, <3>1, <3>2, SendAnother
  <2> QED  BY <2>1
<1> HIDE DEF S
<1>7. Nat \subseteq S
  BY <1>5, <1>6, SetInduction
<1> QED  BY <1>1, <1>7 DEF S, plan, ToSend, last

\* What is sent of a text, of any length.
LEMMA SplitIsSent ==
  ASSUME NEW t \in Seq(Line)
  PROVE  ToSend(t) \in Seq(Seq(Nat)) /\ SentOf(t, Statements(t), ToSend(t))
<1> DEFINE parts == Statements(t)
           plan == ToSend(t)
<1>1. parts \in Seq(Seq(Nat)) /\ SplitOf(t, parts)
  BY StatementsSplit
<1>2. GoodPlan(plan, t, Len(parts))
  BY PlanIsGood
<1>3. DOMAIN parts = 1..Len(parts)
  BY <1>1
<1>4. /\ plan \in Seq(Seq(Nat)) /\ InOrder(plan)
      /\ \A k \in DOMAIN plan : \E m \in DOMAIN parts : plan[k] = parts[m]
      /\ \A k \in DOMAIN plan : Sendable(t, plan[k])
      /\ \A m \in DOMAIN parts : Sendable(t, parts[m]) => \E k \in DOMAIN plan : plan[k] = parts[m]
  BY <1>2, <1>3 DEF GoodPlan
<1> HIDE DEF parts, plan
<1>5. \A m \in DOMAIN parts : (\E k \in DOMAIN plan : plan[k] = parts[m]) <=> Sendable(t, parts[m])
  BY <1>4
<1>6. ASSUME NEW i \in DOMAIN t, t[i] \in {"text", "end"}  PROVE IsIn(i, plan)
  <2>1. PICK m \in DOMAIN parts : \E j \in DOMAIN parts[m] : parts[m][j] = i
    <3>1. t[i] # "blank"
      BY <1>6
    <3> QED  BY <1>1, <3>1 DEF SplitOf, IsIn
  <2>2. Sendable(t, parts[m])
    BY <1>6, <2>1 DEF Sendable
  <2>3. PICK k \in DOMAIN plan : plan[k] = parts[m]
    BY <1>4, <2>2
  <2> QED  BY <2>1, <2>3 DEF IsIn
<1>7. SentOf(t, parts, plan)
  BY <1>4, <1>5, <1>6 DEF SentOf
<1> QED  BY <1>4, <1>7 DEF parts, plan

-----------------------------------------------------------------------------
(* The plan of a text is a sequence, whatever parseSQLStatements makes of it *)
LEMMA PlanIsSequence ==
  ASSUME text \in Text
  PROVE  /\ Len(Plan) \in Nat
         /\ DOMAIN Plan = 1..Len(Plan)
         /\ Plan = <<>> => DOMAIN Plan = {}
         /\ Plan # <<>> => 1 \in DOMAIN Plan
<1>1. Plan \in Seq(Seq(Nat))
  BY TextAssumption, SplitIsSent DEF Plan
<1> QED
  BY <1>1

\* The text is chosen once.
LEMMA PlanIsFixed ==
  ASSUME UNCHANGED text
  PROVE  Plan' = Plan
BY DEF Plan

LEMMA InitIsTyped == Init => TypeOK
<1> SUFFICES ASSUME Init PROVE TypeOK
  OBVIOUS
<1>1. session \in {"open", "closed"} /\ (session = "open" <=> pc \in {"pass", "send"})
  BY DEF Init
<1>2. sent \in [DOMAIN Plan -> Nat]
  BY DEF Init
<1>3. attempt \in 1..MaxAttempts /\ try \in 1..ConnectTries /\ pass \in 1..MaxPasses
  BY ExecutionAssumption DEF Init
<1> QED
  BY <1>1, <1>2, <1>3 DEF Init, TypeOK

\* Every way out of an attempt closes its connection and leaves the counters in
\* their ranges.
LEMMA StepKeepsTypes == TypeOK /\ [Next]_vars => TypeOK'
<1> SUFFICES ASSUME TypeOK, [Next]_vars PROVE TypeOK'
  OBVIOUS
<1> USE ExecutionAssumption
<1>0. /\ text' = text
      /\ Plan' = Plan
      /\ Len(Plan) \in Nat
      /\ DOMAIN Plan = 1..Len(Plan)
      /\ Plan # <<>> => 1 \in DOMAIN Plan
  <2>1. text' = text
    BY DEF Next, Step, vars, Attempt, ConnectSucceeds, ConnectFails, Pass, Refused, Sending,
           StatementSucceeds, StatementFails, StatementRejected, Cancel
  <2> QED
    BY <2>1, PlanIsSequence, PlanIsFixed DEF TypeOK
<1>1. CASE Attempt
  BY <1>0, <1>1 DEF TypeOK, Attempt, Answer
<1>2. CASE ConnectSucceeds
  BY <1>0, <1>2 DEF TypeOK, ConnectSucceeds
<1>3. CASE ConnectFails
  BY <1>0, <1>3 DEF TypeOK, ConnectFails, AttemptFails, Answer
<1>4. CASE Pass
  BY <1>0, <1>4 DEF TypeOK, Pass, Answer
<1>5. CASE Refused
  BY <1>0, <1>5 DEF TypeOK, Refused, Answer
<1>6. CASE StatementSucceeds
  <2>1. session' \in {"open", "closed"} /\ (session' = "open" <=> pc' \in {"pass", "send"})
    BY <1>6 DEF TypeOK, StatementSucceeds, Sending, Answer
  <2>2. pc' = "send" => next' \in DOMAIN Plan'
    BY <1>0, <1>6 DEF TypeOK, StatementSucceeds, Sending, Answer
  <2>3. next \in DOMAIN Plan /\ sent' \in [DOMAIN Plan -> Nat]
    BY <1>6 DEF TypeOK, StatementSucceeds, Sending
  <2>4. taken' \subseteq DOMAIN Plan /\ stale' \subseteq taken' \ Repeatable
    BY <1>6, <2>3 DEF TypeOK, StatementSucceeds
  <2>5. (next' = next \/ next' = next + 1) /\ attempt' = attempt /\ try' = try /\ pass' = pass
    BY <1>6 DEF StatementSucceeds, Answer
  <2>6. /\ pc' \in {"send", "done"}
        /\ answer' \in {"none", "ok"}
        /\ answer' = "none" <=> pc' # "done"
        /\ next' \in Nat
    BY <1>6, <2>5 DEF TypeOK, StatementSucceeds, Sending, Answer
  <2> QED
    BY <1>0, <1>6, <2>1, <2>2, <2>3, <2>4, <2>5, <2>6 DEF TypeOK, StatementSucceeds, Sending
<1>7. CASE StatementFails \/ StatementRejected
  <2>1. session' \in {"open", "closed"} /\ (session' = "open" <=> pc' \in {"pass", "send"})
    BY <1>7 DEF TypeOK, StatementFails, StatementRejected, Sending, AttemptFails, Answer
  <2>2. pc' # "send"
    BY <1>7 DEF StatementFails, StatementRejected, Sending, AttemptFails, Answer
  <2>3. next \in DOMAIN Plan /\ sent' \in [DOMAIN Plan -> Nat]
    BY <1>7 DEF TypeOK, StatementFails, StatementRejected, Sending
  <2>4. taken' \subseteq DOMAIN Plan /\ stale' \subseteq taken' \ Repeatable
    BY <1>7, <2>3 DEF TypeOK, StatementFails, StatementRejected, MayHaveTaken
  <2>5. attempt' \in 1..MaxAttempts /\ pass' \in 1..MaxPasses /\ try' = try /\ next' = next
    BY <1>7 DEF TypeOK, StatementFails, StatementRejected, AttemptFails, Answer
  <2>6. /\ pc' \in {"attempt", "pass", "done"}
        /\ answer' \in {"none", "error"}
        /\ answer' = "none" <=> pc' # "done"
    BY <1>7 DEF TypeOK, StatementFails, StatementRejected, Sending, AttemptFails, Answer
  <2> QED
    BY <1>0, <1>7, <2>1, <2>2, <2>3, <2>4, <2>5, <2>6
    DEF TypeOK, StatementFails, StatementRejected, Sending
<1>8. CASE Cancel
  BY <1>0, <1>8 DEF TypeOK, Cancel
<1>9. CASE UNCHANGED vars
  BY <1>0, <1>9 DEF TypeOK, vars
<1> QED
  BY <1>1, <1>2, <1>3, <1>4, <1>5, <1>6, <1>7, <1>8, <1>9 DEF Next, Step

-----------------------------------------------------------------------------
LEMMA StepKeepsOrder == TypeOK /\ PassInOrder /\ [Next]_vars => PassInOrder'
<1> SUFFICES ASSUME TypeOK, PassInOrder, [Next]_vars PROVE PassInOrder'
  OBVIOUS
<1>0. /\ Plan' = Plan
      /\ Len(Plan) \in Nat
      /\ DOMAIN Plan = 1..Len(Plan)
      /\ Plan = <<>> => DOMAIN Plan = {}
  <2>1. text' = text
    BY DEF Next, Step, vars, Attempt, ConnectSucceeds, ConnectFails, Pass, Refused, Sending,
           StatementSucceeds, StatementFails, StatementRejected, Cancel
  <2> QED
    BY <2>1, PlanIsSequence, PlanIsFixed DEF TypeOK
<1>1. CASE Attempt \/ ConnectSucceeds \/ ConnectFails \/ Refused \/ Cancel \/ UNCHANGED vars
  BY <1>0, <1>1
  DEF TypeOK, PassInOrder, TakenInOrder, Attempt, ConnectSucceeds, ConnectFails, AttemptFails,
      Refused, Cancel, vars, Answer
<1>2. CASE Pass
  BY <1>0, <1>2 DEF TypeOK, PassInOrder, TakenInOrder, Pass, Answer
<1>3. ASSUME pc = "send", taken' = taken \/ taken' = taken \cup {next}
      PROVE  \A k \in taken' : 1..k \subseteq taken'
  <2>1. next \in 1..Len(Plan) /\ taken \subseteq 1..Len(Plan)
    BY <1>0, <1>3 DEF TypeOK
  <2>2. 1..(next - 1) \subseteq taken /\ \A k \in taken : 1..k \subseteq taken
    BY <1>3 DEF PassInOrder, TakenInOrder
  <2>3. 1..next \subseteq taken \cup {next}
    BY <1>0, <2>1, <2>2
  <2> QED
    BY <1>3, <2>2, <2>3
<1>4. CASE StatementSucceeds
  <2>1. taken' = taken \cup {next} /\ \A k \in taken' : 1..k \subseteq taken'
    BY <1>3, <1>4 DEF StatementSucceeds, Sending
  <2>2. next \in 1..Len(Plan) /\ taken' \subseteq 1..Len(Plan) /\ 1..next \subseteq taken'
    BY <1>0, <1>4, <2>1 DEF TypeOK, StatementSucceeds, Sending
  <2>3. CASE next = Len(Plan) /\ Answer("ok")
    BY <1>0, <2>1, <2>2, <2>3 DEF PassInOrder, TakenInOrder, Answer
  <2>4. CASE next' = next + 1 /\ answer' = answer
    <3>1. next' - 1 = next
      BY <1>0, <2>2, <2>4
    <3>2. answer' # "ok"
      BY <1>4, <2>4 DEF TypeOK, StatementSucceeds, Sending
    <3> QED
      BY <2>1, <2>2, <3>1, <3>2 DEF PassInOrder, TakenInOrder
  <2> QED
    BY <1>4, <2>3, <2>4 DEF StatementSucceeds
<1>5. CASE StatementFails \/ StatementRejected
  <2>1. \A k \in taken' : 1..k \subseteq taken'
    BY <1>3, <1>5 DEF StatementFails, StatementRejected, Sending, MayHaveTaken
  <2>2. pc' # "send" /\ answer' # "ok"
    BY <1>5 DEF TypeOK, StatementFails, StatementRejected, Sending, AttemptFails, Answer
  <2> QED
    BY <2>1, <2>2 DEF PassInOrder, TakenInOrder
<1> QED
  BY <1>1, <1>2, <1>4, <1>5 DEF Next, Step

-----------------------------------------------------------------------------
LEMMA StepKeepsFresh ==
  TypeOK /\ TypeOK' /\ PassIsFresh /\ [Next]_vars => PassIsFresh'
<1> SUFFICES ASSUME TypeOK, TypeOK', PassIsFresh, [Next]_vars PROVE PassIsFresh'
  OBVIOUS
<1>0. /\ Plan' = Plan
      /\ Len(Plan) \in Nat
      /\ DOMAIN Plan = 1..Len(Plan)
      /\ Plan = <<>> => DOMAIN Plan = {}
  <2>1. text' = text
    BY DEF Next, Step, vars, Attempt, ConnectSucceeds, ConnectFails, Pass, Refused, Sending,
           StatementSucceeds, StatementFails, StatementRejected, Cancel
  <2> QED
    BY <2>1, PlanIsSequence, PlanIsFixed DEF TypeOK
<1>1. CASE Attempt \/ ConnectSucceeds \/ ConnectFails \/ Refused \/ Cancel \/ UNCHANGED vars
  BY <1>1
  DEF TypeOK, PassIsFresh, NoSecondChance, Attempt, ConnectSucceeds, ConnectFails, AttemptFails,
      Refused, Cancel, vars, Answer
<1>2. CASE Pass
  <2>1. stale' = stale
    BY <1>2 DEF Pass
  <2>2. CASE Plan = <<>>
    BY <1>0, <2>1, <2>2 DEF TypeOK, PassIsFresh, NoSecondChance
  <2>3. CASE Plan # <<>>
    <3>1. answer' # "ok" /\ (pc' = "send" => next' = 1)
      BY <1>2, <2>3 DEF TypeOK, Pass, Answer
    <3> QED
      BY <3>1 DEF PassIsFresh, NoSecondChance
  <2> QED
    BY <2>2, <2>3
<1>3. CASE StatementSucceeds
  <2>1. pc = "send" /\ stale' = stale /\ next \in 1..Len(Plan)
    BY <1>0, <1>3 DEF TypeOK, StatementSucceeds, Sending
  <2>2. next \notin stale
    BY <1>3 DEF TypeOK, StatementSucceeds, Accepts
  <2>3. \A k \in 1..next : k \notin stale'
    BY <2>1, <2>2 DEF PassIsFresh
  <2>4. CASE next = Len(Plan) /\ Answer("ok")
    BY <1>0, <2>1, <2>3, <2>4 DEF TypeOK, PassIsFresh, NoSecondChance, Answer
  <2>5. CASE next' = next + 1 /\ answer' = answer
    <3>1. next' - 1 = next
      BY <1>0, <2>1, <2>5
    <3>2. answer' # "ok"
      BY <2>1, <2>5 DEF TypeOK
    <3> QED
      BY <2>3, <3>1, <3>2 DEF PassIsFresh, NoSecondChance
  <2> QED
    BY <1>3, <2>4, <2>5 DEF StatementSucceeds
<1>4. CASE StatementFails \/ StatementRejected
  BY <1>4
  DEF TypeOK, PassIsFresh, NoSecondChance, StatementFails, StatementRejected, Sending,
      AttemptFails, Answer
<1> QED
  BY <1>1, <1>2, <1>3, <1>4 DEF Next, Step

-----------------------------------------------------------------------------
(* The work of the loops, each counted within the one around it *)

\* Connections tried, and sendings of statement k, in the attempt in progress.
Tried == CASE pc = "attempt" -> 0
           [] pc = "connect" -> try - 1
           [] OTHER -> ConnectTries

Sendings(k) == CASE pc \in {"attempt", "connect"} -> 0
                 [] pc = "pass" \/ (pc = "send" /\ k >= next) -> pass - 1
                 [] pc = "send" /\ k < next -> pass
                 [] OTHER -> MaxPasses

WorkCounted ==
  /\ connects <= (attempt - 1) * ConnectTries + Tried
  /\ \A k \in DOMAIN Plan : sent[k] <= (attempt - 1) * MaxPasses + Sendings(k)

\* One more attempt allows for as many tries, or passes, as one attempt makes.
LEMMA OneMoreAttempt ==
  ASSUME NEW a \in Nat, NEW m \in Nat
  PROVE  /\ a * m \in Nat
         /\ (a - 1) * m + m = a * m
         /\ ((a + 1) - 1) * m = a * m
         /\ (a - 1) * m \in Int
OBVIOUS

LEMMA FewerAttempts ==
  ASSUME NEW a \in Nat, NEW b \in Nat, NEW m \in Nat, a <= b
  PROVE  a * m <= b * m
OBVIOUS

LEMMA StepKeepsCount == TypeOK /\ TypeOK' /\ WorkCounted /\ [Next]_vars => WorkCounted'
<1> SUFFICES ASSUME TypeOK, TypeOK', WorkCounted, [Next]_vars PROVE WorkCounted'
  OBVIOUS
<1>0. /\ Plan' = Plan
      /\ DOMAIN Plan = 1..Len(Plan)
  <2>1. text' = text
    BY DEF Next, Step, vars, Attempt, ConnectSucceeds, ConnectFails, Pass, Refused, Sending,
           StatementSucceeds, StatementFails, StatementRejected, Cancel
  <2> QED
    BY <2>1, PlanIsSequence, PlanIsFixed DEF TypeOK
<1> DEFINE tries == (attempt - 1) * ConnectTries
           passes == (attempt - 1) * MaxPasses
<1>a. /\ attempt \in Nat /\ try \in 1..ConnectTries /\ pass \in 1..MaxPasses
      /\ ConnectTries \in Nat /\ MaxPasses \in Nat /\ next \in Nat
      /\ connects \in Nat /\ sent \in [DOMAIN Plan -> Nat]
  BY ExecutionAssumption DEF TypeOK
<1>b. /\ tries \in Int /\ passes \in Int
      /\ connects <= tries + Tried
      /\ \A k \in DOMAIN Plan : sent[k] <= passes + Sendings(k)
  BY <1>a, OneMoreAttempt DEF WorkCounted
<1>c. attempt' = attempt => tries' = tries /\ passes' = passes
  OBVIOUS
<1>d. attempt' = attempt + 1 => tries' = tries + ConnectTries /\ passes' = passes + MaxPasses
  BY <1>a, OneMoreAttempt
<1>e. SUFFICES /\ connects' <= tries' + Tried'
               /\ \A k \in DOMAIN Plan : sent'[k] <= passes' + Sendings(k)'
  BY <1>0 DEF WorkCounted
<1> HIDE DEF tries, passes
<1> USE DEF Tried, Sendings
<1>1. CASE Attempt
  BY <1>a, <1>b, <1>c, <1>1 DEF Attempt, Answer
<1>2. CASE ConnectSucceeds
  BY <1>a, <1>b, <1>c, <1>2 DEF ConnectSucceeds
<1>3. CASE ConnectFails
  BY <1>a, <1>b, <1>c, <1>d, <1>3 DEF ConnectFails, AttemptFails, Answer
<1>4. CASE Pass
  BY <1>0, <1>a, <1>b, <1>c, <1>4 DEF Pass, Answer
<1>5. CASE Refused
  BY <1>0, <1>a, <1>b, <1>c, <1>5 DEF Refused, Answer
<1>6. CASE StatementSucceeds
  <2>1. pc = "send" /\ connects' = connects /\ attempt' = attempt /\ pass' = pass
    BY <1>6 DEF StatementSucceeds, Sending, Answer
  <2>2. \/ pc' = "done"
        \/ pc' = "send" /\ next' = next + 1
    BY <1>6, <2>1 DEF StatementSucceeds, Answer
  <2>3. connects' <= tries' + Tried'
    BY <1>b, <1>c, <2>1, <2>2
  <2>4. ASSUME NEW k \in DOMAIN Plan PROVE sent'[k] <= passes' + Sendings(k)'
    <3>1. sent'[k] = IF k = next THEN sent[k] + 1 ELSE sent[k]
      BY <1>a, <1>6 DEF StatementSucceeds, Sending
    <3>2. k \in Int /\ sent[k] \in Nat
      BY <1>0, <1>a
    <3> QED
      BY <1>a, <1>b, <1>c, <2>1, <2>2, <3>1, <3>2
  <2> QED
    BY <2>3, <2>4
<1>7. CASE StatementFails \/ StatementRejected
  <2>1. pc = "send" /\ connects' = connects
    BY <1>7 DEF StatementFails, StatementRejected, Sending
  <2>2. \/ pc' = "pass" /\ attempt' = attempt /\ pass' = pass + 1
        \/ pc' = "attempt" /\ attempt' = attempt + 1
        \/ pc' = "done" /\ attempt' = attempt
    BY <1>7 DEF StatementFails, StatementRejected, AttemptFails, Answer
  <2>3. connects' <= tries' + Tried'
    BY <1>a, <1>b, <1>c, <1>d, <2>1, <2>2
  <2>4. ASSUME NEW k \in DOMAIN Plan PROVE sent'[k] <= passes' + Sendings(k)'
    <3>1. sent'[k] = IF k = next THEN sent[k] + 1 ELSE sent[k]
      BY <1>a, <1>7 DEF StatementFails, StatementRejected, Sending
    <3>2. k \in Int /\ sent[k] \in Nat
      BY <1>0, <1>a
    <3> QED
      BY <1>a, <1>b, <1>c, <1>d, <2>1, <2>2, <3>1, <3>2
  <2> QED
    BY <2>3, <2>4
<1>8. CASE Cancel \/ UNCHANGED vars
  BY <1>a, <1>b, <1>c, <1>8 DEF Cancel, vars
<1> QED
  BY <1>1, <1>2, <1>3, <1>4, <1>5, <1>6, <1>7, <1>8 DEF Next, Step

-----------------------------------------------------------------------------
(* The theorems *)

\* The three facts hold of every state of a call.
THEOREM ExecutionInvariant == Spec => []ExecutionInv
<1>1. Init => ExecutionInv
  BY InitIsTyped
  DEF Init, ExecutionInv, PassInOrder, PassIsFresh, TakenInOrder, NoSecondChance
<1>2. ExecutionInv /\ [Next]_vars => ExecutionInv'
  BY StepKeepsTypes, StepKeepsOrder, StepKeepsFresh DEF ExecutionInv
<1> QED
  BY <1>1, <1>2, PTL DEF Spec

\* Every variable keeps its type, and no way out of retry.Do leaves the
\* connection of its attempt open.
THEOREM TypeCorrect == Spec => []TypeOK
<1>1. ExecutionInv => TypeOK
  BY DEF ExecutionInv
<1> QED
  BY <1>1, ExecutionInvariant, PTL

\* parseSQLStatements and the loop of executeMultipleStatementsOnce, for texts of
\* every length: no line is lost, added or moved, a statement ends where a line ends
\* in a semicolon and nowhere else, and every line that has text is sent.
THEOREM TextIsSplit == Spec => []SplitKeepsLines
<1>1. ExecutionInv => SplitKeepsLines
  <2> SUFFICES ASSUME text \in Seq(Line)  PROVE SplitKeepsLines
    BY TextAssumption DEF ExecutionInv, TypeOK
  <2> QED  BY StatementsSplit, SplitIsSent DEF SplitKeepsLines, Plan
<1> QED
  BY <1>1, ExecutionInvariant, PTL

\* However often the passes of ExecuteMultipleStatements start again, what took
\* effect is a beginning of the text, and all of it when executeSQL succeeds.
THEOREM EffectsAreAPrefix == Spec => []TakenInOrder
<1>1. ExecutionInv => TakenInOrder
  BY DEF ExecutionInv, PassInOrder
<1> QED
  BY <1>1, ExecutionInvariant, PTL

\* executeSQL does not report success after an unrepeatable statement took effect
\* in a pass that failed.
THEOREM LostAnswersStayLost == Spec => []NoSecondChance
<1>1. ExecutionInv => NoSecondChance
  BY DEF ExecutionInv, PassIsFresh
<1> QED
  BY <1>1, ExecutionInvariant, PTL

\* retry.Do around odbc.Connect and ExecuteMultipleStatements: the numbers of
\* their loops multiply, and no more than that.
THEOREM WorkIsBounded == Spec => []BoundedWork
<1>1. Init => WorkCounted
  BY ExecutionAssumption, OneMoreAttempt, PlanIsSequence DEF Init, WorkCounted, Tried, Sendings
<1>2. ExecutionInv /\ ExecutionInv' /\ WorkCounted /\ [Next]_vars => WorkCounted'
  BY StepKeepsCount DEF ExecutionInv
<1>3. ExecutionInv /\ WorkCounted => BoundedWork
  <2> SUFFICES ASSUME TypeOK, WorkCounted PROVE BoundedWork
    BY DEF ExecutionInv
  <2>1. /\ attempt \in Nat /\ attempt <= MaxAttempts /\ MaxAttempts \in Nat
        /\ ConnectTries \in Nat /\ MaxPasses \in Nat
    BY ExecutionAssumption DEF TypeOK
  <2>2. /\ Tried \in Int /\ Tried <= ConnectTries
        /\ \A k \in DOMAIN Plan : Sendings(k) \in Int /\ Sendings(k) <= MaxPasses
    BY ExecutionAssumption, PlanIsSequence DEF TypeOK, Tried, Sendings
  <2>3. /\ attempt * ConnectTries <= MaxAttempts * ConnectTries
        /\ attempt * MaxPasses <= MaxAttempts * MaxPasses
    BY <2>1, FewerAttempts
  <2>4. /\ (attempt - 1) * ConnectTries + ConnectTries = attempt * ConnectTries
        /\ (attempt - 1) * MaxPasses + MaxPasses = attempt * MaxPasses
    BY <2>1, OneMoreAttempt
  <2> DEFINE tries == (attempt - 1) * ConnectTries
             passes == (attempt - 1) * MaxPasses
  <2>5. /\ tries \in Int /\ tries + ConnectTries <= MaxAttempts * ConnectTries
        /\ passes \in Int /\ passes + MaxPasses <= MaxAttempts * MaxPasses
    BY <2>1, <2>3, <2>4
  <2>6. /\ MaxAttempts * ConnectTries \in Int
        /\ MaxAttempts * MaxPasses \in Int
    BY <2>1, OneMoreAttempt
  <2>7. /\ connects \in Nat /\ connects <= tries + Tried
        /\ \A k \in DOMAIN Plan : sent[k] \in Nat /\ sent[k] <= passes + Sendings(k)
    BY DEF TypeOK, WorkCounted
  <2> HIDE DEF tries, passes
  <2> QED
    BY <2>1, <2>2, <2>5, <2>6, <2>7 DEF BoundedWork
<1> QED
  BY <1>1, <1>2, <1>3, ExecutionInvariant, PTL DEF Spec

\* With the context of the request gone, neither retry.Do begins an attempt nor
\* ExecContext sends a statement.
THEOREM NothingAfterTheEnd == Spec => CancelledSendsNothing
<1>1. [Next]_vars => [cancelled => /\ sent' = sent
                                   /\ taken' = taken
                                   /\ pc' = "connect" => pc = "connect"]_vars
  BY DEF Next, Step, vars, Attempt, ConnectSucceeds, ConnectFails, AttemptFails, Pass, Refused,
         Sending, StatementSucceeds, StatementFails, StatementRejected, Cancel, Answer
<1> QED
  BY <1>1, PTL DEF Spec, CancelledSendsNothing

-----------------------------------------------------------------------------
(* How many steps a call has left: each loop counts what the ones inside it may   *)
(* still do, so no order of failures lets the three go round for ever.            *)

PerPass == Len(Plan) + 1

PerAttempt == 1 + ConnectTries + MaxPasses * PerPass

InAttempt == CASE pc = "attempt" -> PerAttempt
               [] pc = "connect" -> (ConnectTries - try) + 1 + MaxPasses * PerPass
               [] pc = "pass" -> (MaxPasses - pass) * PerPass + PerPass
               [] OTHER -> (MaxPasses - pass) * PerPass + (Len(Plan) - next) + 1

StepsLeft == IF pc = "done" THEN 0 ELSE (MaxAttempts - attempt) * PerAttempt + InAttempt

\* A step of the call: one less is left, and the context's end changes nothing of it.
GetsShorter ==
  /\ StepsLeft \in Nat /\ StepsLeft' \in Nat
  /\ Step => StepsLeft' < StepsLeft
  /\ Cancel => StepsLeft' = StepsLeft

LEMMA OneLess ==
  ASSUME NEW a \in Nat, NEW b \in Nat, NEW m \in Nat, a < b
  PROVE  /\ (b - a) * m \in Nat
         /\ (b - (a + 1)) * m + m = (b - a) * m
<1>1. b - a \in Nat /\ b - (a + 1) \in Nat /\ (b - (a + 1)) + 1 = b - a
  OBVIOUS
<1> DEFINE d == b - (a + 1)
<1>2. (d + 1) * m = d * m + m
  BY <1>1, OneMoreAttempt
<1>3. (b - a) * m \in Nat
  BY <1>1, OneMoreAttempt
<1> QED  BY <1>1, <1>2, <1>3

\* The products that StepsLeft is made of, each by its loop.
LEMMA ShareOfALoop ==
  ASSUME NEW a \in Nat, NEW b \in Nat, NEW m \in Nat, a <= b
  PROVE  /\ (b - a) * m \in Nat
         /\ a = b => (b - a) * m = 0
         /\ a < b => (b - a) * m = (b - (a + 1)) * m + m /\ (b - (a + 1)) * m \in Nat
<1>1. a < b => (b - a) * m = (b - (a + 1)) * m + m /\ (b - a) * m \in Nat
  BY OneLess
<1>2. a < b => (b - (a + 1)) * m \in Nat
  <2>1. a < b => b - (a + 1) \in Nat
    OBVIOUS
  <2> QED  BY <2>1, OneMoreAttempt
<1>3. a = b => (b - a) * m = 0
  OBVIOUS
<1>4. a < b \/ a = b
  OBVIOUS
<1> QED  BY <1>1, <1>2, <1>3, <1>4

LEMMA StepShortens == TypeOK /\ TypeOK' /\ [Next]_vars => GetsShorter \/ UNCHANGED vars
<1> SUFFICES ASSUME TypeOK, TypeOK', Next PROVE GetsShorter
  OBVIOUS
<1> DEFINE len == Len(Plan)
           passes == MaxPasses * PerPass
           later == (MaxAttempts - attempt) * PerAttempt
           again == (MaxPasses - pass) * PerPass
<1>1. /\ text' = text /\ Plan' = Plan /\ len \in Nat /\ DOMAIN Plan = 1..len
  <2>1. text' = text
    BY DEF Next, Step, Attempt, ConnectSucceeds, ConnectFails, Pass, Refused, Sending,
           StatementSucceeds, StatementFails, StatementRejected, Cancel
  <2> QED
    BY <2>1, PlanIsSequence, PlanIsFixed DEF TypeOK
<1>2. /\ MaxAttempts \in Nat /\ ConnectTries \in Nat /\ MaxPasses \in Nat
      /\ attempt \in Nat /\ 1 <= attempt /\ attempt <= MaxAttempts
      /\ try \in Nat /\ 1 <= try /\ try <= ConnectTries
      /\ pass \in Nat /\ 1 <= pass /\ pass <= MaxPasses
      /\ pc \in {"attempt", "connect", "pass", "send", "done"}
      /\ pc = "send" => next \in Nat /\ 1 <= next /\ next <= len
  BY <1>1, ExecutionAssumption DEF TypeOK
<1>3. /\ MaxAttempts \in Nat /\ ConnectTries \in Nat /\ MaxPasses \in Nat
      /\ attempt' \in Nat /\ 1 <= attempt' /\ attempt' <= MaxAttempts
      /\ try' \in Nat /\ 1 <= try' /\ try' <= ConnectTries
      /\ pass' \in Nat /\ 1 <= pass' /\ pass' <= MaxPasses
      /\ pc' \in {"attempt", "connect", "pass", "send", "done"}
      /\ pc' = "send" => next' \in Nat /\ 1 <= next' /\ next' <= len
  BY <1>1, ExecutionAssumption DEF TypeOK
<1>4. PerPass = len + 1 /\ PerPass' = PerPass /\ PerPass \in Nat
  BY <1>1 DEF PerPass
<1>5. /\ passes \in Nat /\ PerAttempt = 1 + ConnectTries + passes /\ PerAttempt \in Nat
      /\ PerAttempt' = PerAttempt /\ passes' = passes
  <2>1. passes \in Nat
    BY <1>2, <1>4, OneMoreAttempt
  <2> QED  BY <1>2, <1>4, <2>1 DEF PerAttempt
<1>6. /\ later \in Nat /\ later' \in Nat
      /\ attempt' = attempt => later' = later
      /\ attempt' = attempt + 1 => later = later' + PerAttempt
  <2> HIDE DEF passes
  <2>1. later' = (MaxAttempts - attempt') * PerAttempt
    BY <1>5
  <2> HIDE DEF PerAttempt
  <2>2. later \in Nat /\ (MaxAttempts - attempt') * PerAttempt \in Nat
    BY <1>2, <1>3, <1>5, ShareOfALoop
  <2>3. attempt' = attempt + 1 => later = (MaxAttempts - attempt') * PerAttempt + PerAttempt
    BY <1>2, <1>3, <1>5, ShareOfALoop
  <2> QED  BY <2>1, <2>2, <2>3
<1>7. /\ again \in Nat /\ again' \in Nat
      /\ pass' = pass => again' = again
      /\ pass' = pass + 1 => again = again' + PerPass
      /\ pass = 1 => passes = again + PerPass
      /\ pass' = 1 => passes = again' + PerPass
  <2>1. again' = (MaxPasses - pass') * PerPass
    BY <1>4
  <2>2. /\ MaxPasses > 0 /\ (MaxPasses - 0) * PerPass = passes
        /\ (MaxPasses - 0) * PerPass = (MaxPasses - (0 + 1)) * PerPass + PerPass
    <3>1. MaxPasses > 0 /\ MaxPasses - 0 = MaxPasses
      BY <1>2
    <3> QED  BY <1>2, <1>4, <3>1, ShareOfALoop
  <2>3. again \in Nat /\ (MaxPasses - pass') * PerPass \in Nat
    BY <1>2, <1>3, <1>4, ShareOfALoop
  <2>4. pass' = pass + 1 => again = (MaxPasses - pass') * PerPass + PerPass
    BY <1>2, <1>3, <1>4, ShareOfALoop
  <2> QED  BY <2>1, <2>2, <2>3, <2>4
<1>8. /\ InAttempt = CASE pc = "attempt" -> PerAttempt
                       [] pc = "connect" -> (ConnectTries - try) + 1 + passes
                       [] pc = "pass" -> again + PerPass
                       [] OTHER -> again + (len - next) + 1
      /\ InAttempt' = CASE pc' = "attempt" -> PerAttempt
                        [] pc' = "connect" -> (ConnectTries - try') + 1 + passes
                        [] pc' = "pass" -> again' + PerPass
                        [] OTHER -> again' + (len - next') + 1
  BY <1>1, <1>4, <1>5 DEF InAttempt
<1>9. /\ StepsLeft = IF pc = "done" THEN 0 ELSE later + InAttempt
      /\ StepsLeft' = IF pc' = "done" THEN 0 ELSE later' + InAttempt'
  BY <1>1, <1>5 DEF StepsLeft
<1> HIDE DEF len, passes, later, again
<1>10. /\ pc # "done" => InAttempt \in Nat /\ InAttempt >= 1
       /\ pc' # "done" => InAttempt' \in Nat /\ InAttempt' >= 1
  <2>1. pc # "done" => InAttempt \in Nat /\ InAttempt >= 1
    <3>1. pc = "attempt" => InAttempt = PerAttempt
      BY <1>8
    <3>2. pc = "connect" => InAttempt = (ConnectTries - try) + 1 + passes
      BY <1>8
    <3>3. pc = "pass" => InAttempt = again + PerPass
      BY <1>8
    <3>4. pc = "send" => InAttempt = again + (len - next) + 1
      BY <1>8
    <3> HIDE DEF InAttempt
    <3> QED  BY <1>1, <1>2, <1>4, <1>5, <1>7, <3>1, <3>2, <3>3, <3>4
  <2>2. pc' # "done" => InAttempt' \in Nat /\ InAttempt' >= 1
    <3>1. pc' = "attempt" => InAttempt' = PerAttempt
      BY <1>8
    <3>2. pc' = "connect" => InAttempt' = (ConnectTries - try') + 1 + passes
      BY <1>8
    <3>3. pc' = "pass" => InAttempt' = again' + PerPass
      BY <1>8
    <3>4. pc' = "send" => InAttempt' = again' + (len - next') + 1
      BY <1>8
    <3> QED  BY <1>1, <1>3, <1>4, <1>5, <1>7, <3>1, <3>2, <3>3, <3>4
  <2> QED  BY <2>1, <2>2
<1>11. StepsLeft \in Nat /\ StepsLeft' \in Nat
  BY <1>6, <1>9, <1>10
<1>12. pc # "done" /\ pc' = "done" => StepsLeft' < StepsLeft
  BY <1>6, <1>9, <1>10
<1>13. pc # "done" /\ pc' = "attempt" /\ attempt' = attempt + 1 => StepsLeft' < StepsLeft
  BY <1>5, <1>6, <1>8, <1>9, <1>10
<1>14. attempt' = attempt /\ pc # "done" /\ pc' # "done" /\ InAttempt' < InAttempt
         => StepsLeft' < StepsLeft
  BY <1>6, <1>9, <1>10
<1>15. CASE Attempt
  BY <1>2, <1>3, <1>5, <1>8, <1>11, <1>12, <1>14, <1>15 DEF Attempt, Answer, GetsShorter, Cancel
<1>16. CASE ConnectSucceeds
  <2>1. InAttempt' < InAttempt
    BY <1>2, <1>3, <1>4, <1>7, <1>8, <1>16 DEF ConnectSucceeds
  <2> QED  BY <1>11, <1>14, <1>16, <2>1 DEF ConnectSucceeds, GetsShorter, Cancel
<1>17. CASE ConnectFails
  <2>1. pc = "connect" /\ cancelled' = cancelled
    BY <1>17 DEF ConnectFails
  <2>2. \/ pc' = "done"
        \/ pc' = "connect" /\ try' = try + 1 /\ attempt' = attempt
        \/ pc' = "attempt" /\ attempt' = attempt + 1
    BY <1>17 DEF ConnectFails, AttemptFails, Answer
  <2>3. pc' = "connect" /\ try' = try + 1 => InAttempt' < InAttempt
    BY <1>2, <1>3, <1>5, <1>8, <2>1
  <2> QED  BY <1>11, <1>12, <1>13, <1>14, <2>1, <2>2, <2>3 DEF GetsShorter, Cancel
<1>18. CASE Pass \/ Refused
  <2>1. pc # "done" /\ cancelled' = cancelled
    BY <1>18 DEF Pass, Refused
  <2>2. \/ pc' = "done"
        \/ pc = "pass" /\ pc' = "send" /\ next' = 1 /\ pass' = pass /\ attempt' = attempt
    BY <1>18 DEF Pass, Refused, Answer
  <2>3. pc = "pass" /\ pc' = "send" /\ next' = 1 /\ pass' = pass => InAttempt' < InAttempt
    BY <1>1, <1>3, <1>4, <1>7, <1>8
  <2> QED  BY <1>11, <1>12, <1>14, <2>1, <2>2, <2>3 DEF GetsShorter, Cancel
<1>19. CASE StatementSucceeds
  <2>1. pc = "send" /\ cancelled' = cancelled
    BY <1>19 DEF StatementSucceeds, Sending
  <2>2. \/ pc' = "done"
        \/ pc' = "send" /\ next' = next + 1 /\ pass' = pass /\ attempt' = attempt
    BY <1>19, <2>1 DEF StatementSucceeds, Answer
  <2>3. pc' = "send" /\ next' = next + 1 /\ pass' = pass => InAttempt' < InAttempt
    BY <1>1, <1>2, <1>7, <1>8, <2>1
  <2> QED  BY <1>11, <1>12, <1>14, <2>1, <2>2, <2>3 DEF GetsShorter, Cancel
<1>20. CASE StatementFails \/ StatementRejected
  <2>1. pc = "send" /\ cancelled' = cancelled
    BY <1>20 DEF StatementFails, StatementRejected, Sending
  <2>2. \/ pc' = "done"
        \/ pc' = "pass" /\ pass' = pass + 1 /\ attempt' = attempt
        \/ pc' = "attempt" /\ attempt' = attempt + 1
    BY <1>20 DEF StatementFails, StatementRejected, AttemptFails, Answer
  <2>3. pc' = "pass" /\ pass' = pass + 1 => InAttempt' < InAttempt
    BY <1>1, <1>2, <1>4, <1>7, <1>8, <2>1
  <2> QED  BY <1>11, <1>12, <1>13, <1>14, <2>1, <2>2, <2>3 DEF GetsShorter, Cancel
<1>21. CASE Cancel
  <2>1. /\ pc' = pc /\ attempt' = attempt /\ try' = try /\ pass' = pass /\ next' = next
        /\ cancelled' # cancelled
    BY <1>21 DEF Cancel
  <2>2. StepsLeft' = StepsLeft
    BY <1>1, <2>1 DEF StepsLeft, InAttempt, PerAttempt, PerPass
  <2>3. ~Step
    BY <2>1 DEF Step, Attempt, ConnectSucceeds, ConnectFails, Pass, Refused, Sending,
                StatementSucceeds, StatementFails, StatementRejected
  <2> QED  BY <1>11, <2>2, <2>3 DEF GetsShorter
<1> QED
  BY <1>15, <1>16, <1>17, <1>18, <1>19, <1>20, <1>21 DEF Next, Step

LEMMA ShareIsFixed == [Next]_vars => PerAttempt' = PerAttempt
<1>1. [Next]_vars => text' = text
  BY DEF Next, Step, vars, Attempt, ConnectSucceeds, ConnectFails, Pass, Refused, Sending,
         StatementSucceeds, StatementFails, StatementRejected, Cancel
<1> QED  BY <1>1, PlanIsFixed DEF PerAttempt, PerPass

\* What a call begins with.
StepsBounded ==
  /\ StepsLeft \in Nat /\ MaxAttempts * PerAttempt \in Nat
  /\ StepsLeft <= MaxAttempts * PerAttempt

LEMMA InitIsBounded == Init => StepsBounded
<1> SUFFICES ASSUME Init  PROVE StepsBounded
  OBVIOUS
<1>1. MaxPasses * PerPass \in Nat
  <2>1. PerPass \in Nat
    BY PlanIsSequence DEF Init, PerPass
  <2> QED  BY <2>1, ExecutionAssumption, OneMoreAttempt
<1>2. PerAttempt \in Nat /\ MaxAttempts \in Nat
  BY <1>1, ExecutionAssumption DEF PerAttempt
<1>3. /\ StepsLeft = (MaxAttempts - 1) * PerAttempt + PerAttempt
      /\ MaxAttempts * PerAttempt \in Nat
      /\ (MaxAttempts - 1) * PerAttempt + PerAttempt = MaxAttempts * PerAttempt
  <2>1. StepsLeft = (MaxAttempts - 1) * PerAttempt + PerAttempt
    BY DEF Init, StepsLeft, InAttempt
  <2> HIDE DEF PerAttempt
  <2> QED  BY <1>2, <2>1, OneMoreAttempt
<1> QED  BY <1>3 DEF StepsBounded

\* executeSQL cannot go on for ever, whatever fails and however the loops of retry.Do,
\* odbc.Connect and ExecuteMultipleStatements are nested: every step of a call leaves
\* fewer, and what a call begins with bounds them all.
THEOREM EveryStepShortens == Spec => []StepsBounded /\ [][GetsShorter]_vars
<1>1. ExecutionInv /\ ExecutionInv' /\ [Next]_vars => [GetsShorter]_vars
  BY StepShortens DEF ExecutionInv
<1>2. StepsBounded /\ [GetsShorter]_vars /\ [Next]_vars => StepsBounded'
  <2> SUFFICES ASSUME StepsBounded, [GetsShorter]_vars, [Next]_vars  PROVE StepsBounded'
    OBVIOUS
  <2>1. PerAttempt' = PerAttempt
    BY ShareIsFixed
  <2>2. CASE UNCHANGED vars
    <3>1. StepsLeft' = StepsLeft
      BY <2>1, <2>2 DEF vars, StepsLeft, InAttempt, PerAttempt, PerPass, Plan
    <3> QED  BY <2>1, <3>1 DEF StepsBounded
  <2>3. CASE GetsShorter /\ Next
    <3>1. StepsLeft' \in Nat /\ StepsLeft \in Nat /\ StepsLeft' <= StepsLeft
      BY <2>3 DEF GetsShorter, Next
    <3> DEFINE most == MaxAttempts * PerAttempt
    <3>2. most' = most
      BY <2>1
    <3>3. StepsLeft <= most /\ most \in Nat
      BY DEF StepsBounded
    <3> HIDE DEF most
    <3> QED  BY <3>1, <3>2, <3>3 DEF StepsBounded, most
  <2> QED  BY <2>2, <2>3
<1> QED  BY <1>1, <1>2, InitIsBounded, ExecutionInvariant, PTL DEF Spec

-----------------------------------------------------------------------------
(* The loops implement DatabaseCall.                                          *)

\* What a statement of the pass may do to the database: it is the first one that
\* has not taken effect, and none before it was left behind by an earlier pass.
LEMMA TakesTheNext ==
  ASSUME ExecutionInv, pc = "send",
         taken' = taken \/ (Accepts(next) /\ taken' = taken \cup {next})
  PROVE  /\ 1..next \subseteq taken \cup {next}
         /\ taken' # taken => Call!TakeNext
<1>1. /\ next \in 1..Len(Plan) /\ Len(Plan) \in Nat
      /\ 1..(next - 1) \subseteq taken
      /\ \A k \in 1..(next - 1) : k \notin stale
      /\ \A k \in taken : 1..k \subseteq taken
      /\ taken \subseteq 1..Len(Plan) /\ stale \subseteq taken
  BY PlanIsSequence DEF ExecutionInv, TypeOK, PassInOrder, TakenInOrder, PassIsFresh
<1>2. 1..next \subseteq taken \cup {next}
  BY <1>1
<1>3. ASSUME taken' # taken  PROVE  Call!TakeNext
  <2>1. next \notin taken /\ taken' = taken \cup {next}
    BY <1>3
  <2>2. ASSUME NEW k \in stale  PROVE  FALSE
    <3>1. k \in 1..Len(Plan) /\ k \in taken
      BY <1>1
    <3>2. CASE k < next
      BY <1>1, <3>1, <3>2
    <3>3. CASE next <= k
      BY <1>1, <2>1, <3>1, <3>3
    <3> QED  BY <1>1, <3>1, <3>2, <3>3
  <2> QED  BY <1>1, <2>1, <2>2 DEF Call!TakeNext
<1> QED  BY <1>2, <1>3

\* A step that reaches no database leaves the call as it is, or ends it.
LEMMA OffTheDatabase ==
  ASSUME ExecutionInv, UNCHANGED <<text, taken, stale>>,
         \/ answer' = answer
         \/ answer = "none" /\ answer' = "error"
         \/ answer = "none" /\ answer' = "ok" /\ stale = {} /\ taken = 1..Len(Plan)
  PROVE  [Call!Next]_(Call!vars)
<1>1. UNCHANGED <<Len(Plan), stale # {}>>
  BY PlanIsFixed
<1>2. stale # {} => taken # {}
  BY DEF ExecutionInv, TypeOK
<1>3. CASE answer' = answer
  BY <1>1, <1>3 DEF Call!vars
<1>4. CASE answer = "none" /\ answer' = "error"
  BY <1>1, <1>2, <1>4 DEF Call!Next, Call!Fails, Call!Working
<1>5. CASE answer = "none" /\ answer' = "ok" /\ stale = {} /\ taken = 1..Len(Plan)
  BY <1>1, <1>2, <1>5 DEF Call!Next, Call!Succeeds, Call!Working
<1> QED  BY <1>3, <1>4, <1>5

LEMMA StepIsCall ==
  ASSUME ExecutionInv, ExecutionInv', [Next]_vars
  PROVE  [Call!Next]_(Call!vars)
<1>0. /\ DOMAIN Plan = 1..Len(Plan) /\ Len(Plan) \in Nat
      /\ Plan = <<>> => DOMAIN Plan = {}
      /\ answer = "none" <=> pc # "done"
      /\ taken \subseteq 1..Len(Plan)
  BY PlanIsSequence DEF ExecutionInv, TypeOK
<1>1. CASE Attempt \/ ConnectSucceeds \/ ConnectFails \/ Refused \/ Cancel \/ UNCHANGED vars
  BY <1>0, <1>1, OffTheDatabase
  DEF Attempt, ConnectSucceeds, ConnectFails, AttemptFails, Refused, Cancel, vars, Answer
<1>2. CASE Pass
  <2>1. CASE Plan = <<>>
    <3>1. taken = 1..Len(Plan) /\ stale = {}
      BY <1>0, <2>1 DEF ExecutionInv, TypeOK
    <3> QED  BY <1>0, <1>2, <3>1, OffTheDatabase DEF Pass, Answer
  <2>2. CASE Plan # <<>>
    BY <1>0, <1>2, <2>2, OffTheDatabase DEF Pass, Answer
  <2> QED  BY <2>1, <2>2
<1>3. CASE StatementSucceeds
  <2>1. /\ answer = "none" /\ pc = "send" /\ text' = text /\ stale' = stale
        /\ Accepts(next) /\ taken' = taken \cup {next}
    BY <1>0, <1>3 DEF StatementSucceeds, Sending
  <2>2. Len(Plan)' = Len(Plan) /\ (stale # {} => taken' # {})
    BY <2>1, PlanIsFixed
  <2>3. Call!Working
    BY <2>1, <2>2, TakesTheNext DEF Call!Working
  <2>4. CASE next = Len(Plan) /\ Answer("ok")
    <3>1. taken' = 1..Len(Plan)
      BY <1>0, <2>1, <2>4, TakesTheNext DEF ExecutionInv, TypeOK
    <3>2. stale' = {}
      BY <2>4 DEF ExecutionInv, PassIsFresh, NoSecondChance, Answer
    <3> QED  BY <2>3, <2>4, <3>1, <3>2 DEF Call!Next, Call!Succeeds, Answer
  <2>5. CASE answer' = answer
    BY <2>1, <2>3, <2>5 DEF Call!Next, Call!GoesOn
  <2> QED  BY <1>3, <2>4, <2>5 DEF StatementSucceeds
<1>4. CASE StatementFails \/ StatementRejected
  <2>1. /\ answer = "none" /\ pc = "send" /\ text' = text /\ stale' = taken' \ Repeatable
        /\ taken' = taken \/ (Accepts(next) /\ taken' = taken \cup {next})
        /\ answer' \in {"none", "error"}
    BY <1>0, <1>4
    DEF StatementFails, StatementRejected, Sending, MayHaveTaken, AttemptFails, Answer
  <2>2. Len(Plan)' = Len(Plan)
    BY <2>1, PlanIsFixed
  <2>3. stale # {} => stale' # {}
    BY <2>1 DEF ExecutionInv, TypeOK
  <2>4. Call!Working
    BY <2>1, <2>2, <2>3, TakesTheNext DEF Call!Working
  <2> QED  BY <2>1, <2>4 DEF Call!Next, Call!GoesOn, Call!Fails
<1> QED
  BY <1>1, <1>2, <1>3, <1>4 DEF Next, Step

\* Whatever its three loops repeat, executeSQL is one call of DatabaseCall: done,
\* not done, or failed although done.
THEOREM OneCall == Spec => ImplementsCall
<1>1. Init => Call!Init
  <2>1. Init => Len(Plan) \in Nat
    BY PlanIsSequence DEF Init
  <2> QED  BY <2>1 DEF Init, Call!Init
<1>2. ExecutionInv /\ ExecutionInv' /\ [Next]_vars => [Call!Next]_(Call!vars)
  BY StepIsCall
<1> QED
  BY <1>1, <1>2, ExecutionInvariant, PTL DEF Spec, ImplementsCall, Call!Spec

\* Once executeSQL has answered, or a CREATE USER has taken effect in a pass that
\* failed, no pass or attempt of it changes the database.
THEOREM LostCallsChangeNothing == Spec => Call!NothingMore
<1>1. [Call!Next]_(Call!vars)
        => [answer # "none" \/ stale # {} => taken' = taken]_(Call!vars)
  BY DEF Call!Next, Call!vars, Call!GoesOn, Call!Fails, Call!Succeeds, Call!Working,
         Call!TakeNext
<1> QED
  BY <1>1, OneCall, PTL DEF ImplementsCall, Call!Spec, Call!NothingMore
=============================================================================
