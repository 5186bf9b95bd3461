------------------------- MODULE IRTranslationProofs -------------------------
(***************************************************************************)
(* Proofs about IRTranslation, for every grammar and every parse tree: the *)
(* IR tree prints the leaves of the program, in order, each as the IR      *)
(* holds it, and every IR handed to a caller carries the type of its rule. *)
(***************************************************************************)
EXTENDS IRTranslation, SequenceTheorems, TLAPS

(***************************************************************************)
(* The slots are filled from the left to the right of what ToString        *)
(* prints: a filled slot makes the earlier ones unavailable.               *)
(***************************************************************************)
SlotShape ==
  /\ Empty("prefix") /\ Empty("left") =>
       Empty("middle") /\ Empty("right") /\ Empty("suffix")
  /\ Empty("left") /\ Empty("middle") => Empty("right")
  /\ Empty("middle") /\ Empty("right") => Empty("suffix")

\* Each suspended call waits for the child that next points to.
FrameChain ==
  /\ \A i \in 1..Len(frames) - 1 :
       /\ frames[i].next \in 1..Len(Children[frames[i].node])
       /\ frames[i + 1].node = Children[frames[i].node][frames[i].next]
       /\ frames[i].node \notin Literal
  /\ \A i \in 1..Len(frames) :
       /\ frames[i].next # 0
       /\ frames[i].node \in Literal => frames[i].tmp = <<>>
  /\ frames # <<>> => frames[1].node \in Program /\ frames[1].start = 0

Control ==
  /\ phase \in {"collect", "fold"} => frames # <<>>
  /\ phase = "fold" => stk # <<>> \/ ~Empty("prefix") \/ ~Empty("left")
  /\ phase = "done" => frames = <<>>
  /\ phase # "fold" => stk = <<>>
  /\ phase # "done" => result = None

\* An IR of unknown type is only ever the first item ExtractOneIR takes.
UnknownFirst ==
  phase = "fold" /\ stk # <<>> /\ (~Empty("prefix") \/ ~Empty("left")) =>
    (stk[1].kind = "ir" => stk[1].type # kUnknown)

(***************************************************************************)
(* The inductive invariant.                                                *)
(***************************************************************************)
IInv ==
  /\ TypeOK
  /\ Control
  /\ FrameChain
  /\ SlotShape
  /\ UnknownFirst
  /\ TokensHeldInOrder
  /\ RuleIRsTyped
  /\ YieldPreserved

-----------------------------------------------------------------------------
(***************************************************************************)
(* Runs of leaves.                                                         *)
(***************************************************************************)
LEMMA RunType ==
  ASSUME NEW a \in Nat, NEW b \in Nat, a <= b + 1
  PROVE  /\ Run(a, b) \in Seq(Nat)
         /\ Len(Run(a, b)) = b - a + 1
         /\ \A i \in 1..(b - a + 1) : Run(a, b)[i] = a + i - 1
<1>1. Run(a, b) \in [1..(b - a + 1) -> Nat]
  BY DEF Run
<1>2. Run(a, b) \in Seq(Nat)
  BY <1>1, SeqDef
<1> QED
  BY <1>1, <1>2 DEF Run

LEMMA RunEmpty ==
  ASSUME NEW a \in Nat
  PROVE  Run(a + 1, a) = <<>>
<1>1. Run(a + 1, a) \in Seq(Nat) /\ Len(Run(a + 1, a)) = 0
  BY RunType
<1> QED
  BY <1>1, EmptySeq

LEMMA SingletonRun ==
  ASSUME NEW a \in Nat
  PROVE  <<a + 1>> = Run(a + 1, a + 1)
<1> DEFINE p == a + 1
<1>1. p \in Nat /\ p <= p + 1 /\ p - p + 1 = 1 /\ p + 1 - 1 = p
  OBVIOUS
<1> HIDE DEF p
<1>2. Run(p, p) \in Seq(Nat) /\ Len(Run(p, p)) = 1 /\ Run(p, p)[1] = p
  <2>1. /\ Run(p, p) \in Seq(Nat) /\ Len(Run(p, p)) = p - p + 1
        /\ \A i \in 1..(p - p + 1) : Run(p, p)[i] = p + i - 1
    BY <1>1, RunType
  <2>2. 1 \in 1..(p - p + 1)
    BY <1>1
  <2> QED
    BY <1>1, <2>1, <2>2
<1>3. <<p>> \in Seq(Nat) /\ Len(<<p>>) = 1 /\ <<p>>[1] = p
  BY <1>1
<1>4. \A i \in 1..1 : <<p>>[i] = Run(p, p)[i]
  BY <1>2, <1>3
<1>5. <<p>> = Run(p, p)
  BY <1>2, <1>3, <1>4, SeqEqual
<1> QED
  BY <1>5 DEF p

LEMMA RunConcat ==
  ASSUME NEW a \in Nat, NEW b \in Nat, NEW c \in Nat, a <= b + 1, b <= c
  PROVE  Run(a, b) \o Run(b + 1, c) = Run(a, c)
<1> DEFINE s == Run(a, b)
           t == Run(b + 1, c)
           u == Run(a, c)
<1>1. /\ s \in Seq(Nat)
      /\ Len(s) = b - a + 1
      /\ \A i \in 1..(b - a + 1) : s[i] = a + i - 1
  BY RunType
<1>2. /\ t \in Seq(Nat)
      /\ Len(t) = c - b
      /\ \A i \in 1..(c - b) : t[i] = b + i
  <2>1. b + 1 <= c + 1 /\ b + 1 \in Nat
    OBVIOUS
  <2>2. /\ t \in Seq(Nat)
        /\ Len(t) = c - (b + 1) + 1
        /\ \A i \in 1..(c - (b + 1) + 1) : t[i] = (b + 1) + i - 1
    BY <2>1, RunType
  <2>3. c - (b + 1) + 1 = c - b /\ \A i \in Int : (b + 1) + i - 1 = b + i
    OBVIOUS
  <2> QED
    BY <2>2, <2>3
<1>3. /\ u \in Seq(Nat)
      /\ Len(u) = c - a + 1
      /\ \A i \in 1..(c - a + 1) : u[i] = a + i - 1
  <2>1. a <= c + 1
    OBVIOUS
  <2> QED
    BY <2>1, RunType
<1> HIDE DEF s, t, u
<1>4. /\ s \o t \in Seq(Nat)
      /\ Len(s \o t) = Len(s) + Len(t)
      /\ \A i \in 1..Len(s) + Len(t) :
           (s \o t)[i] = IF i <= Len(s) THEN s[i] ELSE t[i - Len(s)]
  BY <1>1, <1>2, ConcatProperties
<1>5. Len(s \o t) = Len(u)
  BY <1>1, <1>2, <1>3, <1>4
<1>6. ASSUME NEW i \in 1..Len(s \o t) PROVE (s \o t)[i] = u[i]
  <2>1. i \in 1..(c - a + 1) /\ u[i] = a + i - 1
    BY <1>1, <1>2, <1>3, <1>4
  <2>2. CASE i <= Len(s)
    <3>1. i \in 1..(b - a + 1)
      BY <1>1, <2>1, <2>2
    <3> QED
      BY <1>1, <1>2, <1>4, <2>1, <2>2, <3>1
  <2>3. CASE ~(i <= Len(s))
    <3>1. i - Len(s) \in 1..(c - b) /\ b + (i - Len(s)) = a + i - 1
      BY <1>1, <2>1, <2>3
    <3> QED
      BY <1>1, <1>2, <1>4, <2>1, <2>3, <3>1
  <2> QED
    BY <2>2, <2>3
<1>7. s \o t = u
  BY <1>3, <1>4, <1>5, <1>6, SeqEqual
<1> QED
  BY <1>7 DEF s, t, u

\* What a slot that fits after leaf at prints.
LEMMA FittingText ==
  ASSUME NEW x \in Item, NEW at \in Nat, FitsAt(x, at)
  PROVE  /\ EndOf(x, at) \in Nat
         /\ at <= EndOf(x, at)
         /\ x.kind # "none" => at < EndOf(x, at)
         /\ x.text = Run(at + 1, EndOf(x, at))
<1>1. CASE x.kind = "none"
  BY <1>1, RunEmpty DEF FitsAt, EndOf, None
<1>2. CASE x.kind # "none"
  <2>1. /\ x.text \in Seq(Nat) /\ x.text # <<>>
        /\ x.text = Run(at + 1, Last(x))
        /\ First(x) = at + 1
    BY <1>2 DEF FitsAt, IsRun, Item
  <2>2. Len(x.text) \in Nat \ {0} /\ Last(x) \in Nat
    BY <2>1, EmptySeq, ElementOfSeq DEF Last
  <2>3. Last(x) >= at + 1
    <3> SUFFICES ASSUME Last(x) <= at PROVE FALSE
      BY <2>2
    <3>1. DOMAIN x.text = 1..(Last(x) - (at + 1) + 1)
      BY <2>1, Zenon DEF Run
    <3>2. DOMAIN x.text = 1..Len(x.text)
      BY <2>1, LenProperties
    <3>3. 1 \in 1..Len(x.text)
      BY <2>2
    <3> QED
      BY <2>2, <3>1, <3>2, <3>3
  <2> QED
    BY <1>2, <2>1, <2>2, <2>3 DEF EndOf
<1> QED
  BY <1>1, <1>2

\* Conversely, an IR that prints a run fits where the run begins.
LEMMA RunFits ==
  ASSUME NEW a \in Nat, NEW b \in Nat, a < b, NEW x \in Item,
         x.kind # "none", x.text = Run(a + 1, b)
  PROVE  /\ IsRun(x)
         /\ First(x) = a + 1
         /\ Last(x) = b
<1>1. /\ x.text \in Seq(Nat)
      /\ Len(x.text) = b - a
      /\ \A i \in 1..(b - a) : x.text[i] = a + i
  <2>1. a + 1 <= b + 1 /\ a + 1 \in Nat
    OBVIOUS
  <2>2. /\ x.text \in Seq(Nat)
        /\ Len(x.text) = b - (a + 1) + 1
        /\ \A i \in 1..(b - (a + 1) + 1) : x.text[i] = (a + 1) + i - 1
    BY <2>1, RunType
  <2>3. b - (a + 1) + 1 = b - a /\ \A i \in Int : (a + 1) + i - 1 = a + i
    OBVIOUS
  <2> QED
    BY <2>2, <2>3
<1>2. First(x) = a + 1 /\ Last(x) = b
  BY <1>1 DEF First, Last
<1>3. x.text # <<>>
  BY <1>1, EmptySeq
<1> QED
  BY <1>2, <1>3 DEF IsRun

(***************************************************************************)
(* The IR made of slots that tile a+1..b prints a+1..b.                    *)
(***************************************************************************)
LEMMA SlotsText ==
  ASSUME slots \in [SlotNames -> Item], NEW a \in Nat, NEW b, SlotsTile(a, b)
  PROVE  /\ b \in Nat
         /\ a <= b
         /\ OneIRText = Run(a + 1, b)
         /\ ~Empty("prefix") \/ ~Empty("left") => a < b
<1> DEFINE e1 == EndOf(slots["prefix"], a)
           e2 == EndOf(slots["left"], e1)
           e3 == EndOf(slots["middle"], e2)
           e4 == EndOf(slots["right"], e3)
           e5 == EndOf(slots["suffix"], e4)
<1>0. /\ slots["prefix"] \in Item /\ slots["left"] \in Item
      /\ slots["middle"] \in Item /\ slots["right"] \in Item
      /\ slots["suffix"] \in Item
  BY DEF SlotNames
<1>1. /\ FitsAt(slots["prefix"], a) /\ FitsAt(slots["left"], e1)
      /\ FitsAt(slots["middle"], e2) /\ FitsAt(slots["right"], e3)
      /\ FitsAt(slots["suffix"], e4) /\ e5 = b
  BY DEF SlotsTile
<1>2. /\ e1 \in Nat /\ a <= e1 /\ slots["prefix"].text = Run(a + 1, e1)
      /\ slots["prefix"].kind # "none" => a < e1
  BY <1>0, <1>1, FittingText
<1> HIDE DEF e1
<1>3. /\ e2 \in Nat /\ e1 <= e2 /\ slots["left"].text = Run(e1 + 1, e2)
      /\ slots["left"].kind # "none" => e1 < e2
  BY <1>0, <1>1, <1>2, FittingText
<1> HIDE DEF e2
<1>4. e3 \in Nat /\ e2 <= e3 /\ slots["middle"].text = Run(e2 + 1, e3)
  BY <1>0, <1>1, <1>3, FittingText
<1> HIDE DEF e3
<1>5. e4 \in Nat /\ e3 <= e4 /\ slots["right"].text = Run(e3 + 1, e4)
  BY <1>0, <1>1, <1>4, FittingText
<1> HIDE DEF e4
<1>6. e5 \in Nat /\ e4 <= e5 /\ slots["suffix"].text = Run(e4 + 1, e5)
  BY <1>0, <1>1, <1>5, FittingText
<1> HIDE DEF e5
<1>7. b \in Nat /\ a <= b /\ e5 = b
  BY <1>1, <1>2, <1>3, <1>4, <1>5, <1>6
<1>a. /\ a + 1 \in Nat /\ a + 1 <= e1 + 1 /\ a + 1 <= e2 + 1
      /\ a + 1 <= e3 + 1 /\ a + 1 <= e4 + 1
  BY <1>2, <1>3, <1>4, <1>5
<1>8. Run(a + 1, e1) \o Run(e1 + 1, e2) = Run(a + 1, e2)
  BY <1>a, <1>2, <1>3, RunConcat
<1>9. Run(a + 1, e2) \o Run(e2 + 1, e3) = Run(a + 1, e3)
  BY <1>a, <1>2, <1>3, <1>4, RunConcat
<1>10. Run(a + 1, e3) \o Run(e3 + 1, e4) = Run(a + 1, e4)
  BY <1>a, <1>2, <1>3, <1>4, <1>5, RunConcat
<1>11. Run(a + 1, e4) \o Run(e4 + 1, e5) = Run(a + 1, e5)
  BY <1>a, <1>2, <1>3, <1>4, <1>5, <1>6, RunConcat
<1>12. OneIRText = Run(a + 1, b)
  BY <1>2, <1>3, <1>4, <1>5, <1>6, <1>7, <1>8, <1>9, <1>10, <1>11 DEF OneIRText
<1>13. ~Empty("prefix") \/ ~Empty("left") => a < b
  BY <1>2, <1>3, <1>4, <1>5, <1>6, <1>7 DEF Empty
<1> QED
  BY <1>7, <1>12, <1>13

(***************************************************************************)
(* Tilings grow at the end, and lose or gain their first item.             *)
(***************************************************************************)
LEMMA TilesAppend ==
  ASSUME NEW s \in Seq(Item), NEW a \in Nat, NEW b \in Nat, Tiles(s, a, b),
         NEW x \in Item, IsRun(x), First(x) = b + 1
  PROVE  Tiles(Append(s, x), a, Last(x))
<1> DEFINE t == Append(s, x)
<1>1. /\ Len(s) \in Nat /\ Len(t) = Len(s) + 1 /\ t # <<>>
      /\ t[Len(s) + 1] = x
      /\ \A i \in 1..Len(s) : t[i] = s[i]
  OBVIOUS
<1> HIDE DEF t
<1>2. \A i \in 1..Len(t) : IsRun(t[i])
  BY <1>1 DEF Tiles
<1>3. ASSUME NEW i \in 1..Len(t) - 1 PROVE First(t[i + 1]) = Last(t[i]) + 1
  <2>1. CASE i < Len(s)
    BY <1>1, <2>1 DEF Tiles
  <2>2. CASE i = Len(s)
    <3>1. s # <<>> /\ Last(s[Len(s)]) = b
      BY <1>1, <2>2, EmptySeq DEF Tiles
    <3> QED
      BY <1>1, <2>2, <3>1
  <2> QED
    BY <1>1, <2>1, <2>2
<1>4. First(t[1]) = a + 1 /\ Last(t[Len(t)]) = Last(x)
  <2>1. CASE s = <<>>
    BY <1>1, <2>1 DEF Tiles
  <2>2. CASE s # <<>>
    BY <1>1, <2>2, EmptySeq DEF Tiles
  <2> QED
    BY <2>1, <2>2
<1>5. Tiles(t, a, Last(x))
  BY <1>1, <1>2, <1>3, <1>4 DEF Tiles
<1> QED
  BY <1>5 DEF t

LEMMA TilesTail ==
  ASSUME NEW s \in Seq(Item), NEW a \in Nat, NEW b \in Nat, Tiles(s, a, b),
         s # <<>>
  PROVE  /\ Tiles(Tail(s), Last(s[1]), b)
         /\ Tail(s) # <<>> => First(Tail(s)[1]) = Last(s[1]) + 1
<1> DEFINE t == Tail(s)
<1>1. /\ t \in Seq(Item) /\ Len(t) = Len(s) - 1 /\ Len(s) \in Nat \ {0}
      /\ \A i \in 1..Len(t) : t[i] = s[i + 1]
  BY HeadTailProperties, EmptySeq
<1>2. t = <<>> <=> Len(t) = 0
  BY <1>1, EmptySeq
<1> HIDE DEF t
<1>3. \A i \in 1..Len(t) : IsRun(t[i])
  BY <1>1 DEF Tiles
<1>4. \A i \in 1..Len(t) - 1 : First(t[i + 1]) = Last(t[i]) + 1
  BY <1>1 DEF Tiles
<1>5. CASE t = <<>>
  BY <1>1, <1>2, <1>3, <1>4, <1>5 DEF Tiles, t
<1>6. CASE t # <<>>
  <2>1. Len(t) >= 1 /\ t[1] = s[2] /\ t[Len(t)] = s[Len(s)]
    BY <1>1, <1>2, <1>6
  <2>2. First(s[2]) = Last(s[1]) + 1
    BY <1>1, <2>1 DEF Tiles
  <2>3. Last(s[Len(s)]) = b
    BY DEF Tiles
  <2> QED
    BY <1>3, <1>4, <1>6, <2>1, <2>2, <2>3 DEF Tiles, t
<1> QED
  BY <1>5, <1>6

LEMMA TilesCons ==
  ASSUME NEW s \in Seq(Item), NEW a \in Nat, NEW m \in Nat, NEW b \in Nat,
         Tiles(s, m, b),
         NEW x \in Item, IsRun(x), First(x) = a + 1, Last(x) = m
  PROVE  Tiles(<<x>> \o s, a, b)
<1> DEFINE t == <<x>> \o s
<1>1. /\ Len(s) \in Nat /\ Len(t) = Len(s) + 1 /\ t # <<>>
      /\ t[1] = x
      /\ \A i \in 1..Len(s) : t[i + 1] = s[i]
  OBVIOUS
<1> HIDE DEF t
<1>2. ASSUME NEW i \in 1..Len(t) PROVE IsRun(t[i])
  <2>1. CASE i = 1
    BY <1>1, <2>1
  <2>2. CASE i > 1
    <3>1. i - 1 \in 1..Len(s) /\ t[(i - 1) + 1] = s[i - 1] /\ (i - 1) + 1 = i
      BY <1>1, <2>2
    <3> QED
      BY <3>1 DEF Tiles
  <2> QED
    BY <1>1, <2>1, <2>2
<1>3. ASSUME NEW i \in 1..Len(t) - 1 PROVE First(t[i + 1]) = Last(t[i]) + 1
  <2>1. CASE i = 1
    <3>1. s # <<>>
      BY <1>1, <2>1, EmptySeq
    <3> QED
      BY <1>1, <2>1, <3>1 DEF Tiles
  <2>2. CASE i > 1
    <3>1. /\ i - 1 \in 1..Len(s) - 1 /\ t[i] = s[i - 1] /\ t[i + 1] = s[i]
      <4>1. i - 1 \in 1..Len(s) /\ i \in 1..Len(s) /\ i - 1 \in 1..Len(s) - 1
        BY <1>1, <2>2
      <4>2. t[(i - 1) + 1] = s[i - 1] /\ (i - 1) + 1 = i
        BY <1>1, <4>1
      <4> QED
        BY <1>1, <4>1, <4>2
    <3>2. First(s[(i - 1) + 1]) = Last(s[i - 1]) + 1 /\ (i - 1) + 1 = i
      BY <3>1 DEF Tiles
    <3> QED
      BY <3>1, <3>2
  <2> QED
    BY <1>1, <2>1, <2>2
<1>4. First(t[1]) = a + 1 /\ Last(t[Len(t)]) = b
  <2>1. CASE s = <<>>
    BY <1>1, <2>1 DEF Tiles
  <2>2. CASE s # <<>>
    <3>1. Len(s) \in 1..Len(s) /\ t[Len(s) + 1] = s[Len(s)]
      BY <1>1, <2>2, EmptySeq
    <3> QED
      BY <1>1, <2>2, <3>1 DEF Tiles
  <2> QED
    BY <2>1, <2>2
<1>5. Tiles(t, a, b)
  BY <1>1, <1>2, <1>3, <1>4 DEF Tiles
<1> QED
  BY <1>5 DEF t

-----------------------------------------------------------------------------
LEMMA TopFacts ==
  ASSUME TypeOK, frames # <<>>
  PROVE  /\ Len(frames) \in Nat \ {0}
         /\ \A i \in 1..Len(frames) : frames[i] \in Frame
         /\ Top \in Frame
         /\ Top.start \in Nat
         /\ Top.node \in Node
         /\ Top.tmp \in Seq(Item)
         /\ Children[Top.node] \in Seq(Node \cup Terminal \cup {Eof})
<1>1. /\ Len(frames) \in Nat \ {0}
      /\ \A i \in 1..Len(frames) : frames[i] \in Frame
  BY EmptySeq, ElementOfSeq DEF TypeOK
<1>2. Top \in Frame
  BY <1>1 DEF Top
<1>3. Top.start \in Nat /\ Top.node \in Node /\ Top.tmp \in Seq(Item)
  BY <1>2 DEF Frame
<1> QED
  BY <1>1, <1>2, <1>3, TreeAssumption

LEMMA PredCases ==
  \A n \in Nat \ {0} : /\ n - 1 = 0 \/ n - 1 > 0
                       /\ n - 1 = 0 => n = 1
                       /\ n - 1 \in Nat
                       /\ n = (n - 1) + 1
OBVIOUS

LEMMA NoneIsItem == None \in Item /\ EmptyOneIR \in [SlotNames -> Item]
<1>1. None \in Item
  BY EmptySeq DEF None, Item
<1> QED
  BY <1>1 DEF EmptyOneIR

\* Facts about a OneIR none of whose slots is filled.
LEMMA FreshOneIR ==
  ASSUME slots = EmptyOneIR
  PROVE  /\ SlotShape
         /\ \A s \in SlotNames : Empty(s)
         /\ \A a : SlotsTile(a, a)
<1>1. \A s \in SlotNames : slots[s] = None
  BY DEF EmptyOneIR
<1>2. \A s \in SlotNames : Empty(s)
  BY <1>1 DEF Empty, None
<1>3. SlotShape
  BY <1>2 DEF SlotShape, SlotNames
<1>4. None.kind = "none"
  BY DEF None
<1>5. \A a : FitsAt(None, a) /\ EndOf(None, a) = a
  BY <1>4 DEF FitsAt, EndOf
<1>6. /\ slots["prefix"] = None /\ slots["left"] = None /\ slots["middle"] = None
      /\ slots["right"] = None /\ slots["suffix"] = None
  BY <1>1 DEF SlotNames
<1>7. ASSUME NEW a PROVE SlotsTile(a, a)
  BY <1>5, <1>6 DEF SlotsTile
<1> QED
  BY <1>2, <1>3, <1>7

\* An IR whose text is the run of all leaves of ls prints each as it is
\* held, and as it is written outside the literals.
LEMMA PrintedLeaves ==
  ASSUME NEW ls \in Seq(Leaf), NEW ir, ir.text = Run(1, Len(ls))
  PROVE  LET printed == [i \in 1..Len(ir.text) |-> Held(ls[ir.text[i]])]
         IN /\ \A i \in DOMAIN ls :
                 printed[i] = IF ls[i] \in Terminal THEN Written[ls[i]]
                              ELSE IF ls[i] \in StringLiteral THEN getText[ls[i]]
                              ELSE stoi[ls[i]]
            /\ (\A i \in DOMAIN ls : Held(ls[i]) = Written[ls[i]]) =>
                 printed = [i \in DOMAIN ls |-> Written[ls[i]]]
<1> DEFINE n == Len(ls)
           printed == [i \in 1..Len(ir.text) |-> Held(ls[ir.text[i]])]
<1>1. n \in Nat /\ DOMAIN ls = 1..n /\ \A i \in 1..n : ls[i] \in Leaf
  BY ElementOfSeq
<1>2. Len(ir.text) = n /\ \A i \in 1..n : ir.text[i] = i
  <2>1. n \in Nat
    BY <1>1
  <2> HIDE DEF n
  <2>2. /\ Len(Run(1, n)) = n - 1 + 1
        /\ \A i \in 1..(n - 1 + 1) : Run(1, n)[i] = 1 + i - 1
    <3>1. 1 \in Nat /\ 1 <= n + 1
      BY <2>1
    <3> QED
      BY <2>1, <3>1, RunType
  <2>3. n - 1 + 1 = n /\ \A i \in 1..n : 1 + i - 1 = i
    BY <2>1
  <2>4. Len(Run(1, n)) = n /\ \A i \in 1..n : Run(1, n)[i] = i
    BY <2>2, <2>3
  <2> QED
    BY <2>4 DEF n
<1>3. printed = [i \in 1..n |-> Held(ls[i])]
  BY <1>2
<1>4. ASSUME NEW x \in Leaf
      PROVE  Held(x) = IF x \in Terminal THEN Written[x]
                       ELSE IF x \in StringLiteral THEN getText[x] ELSE stoi[x]
  <2>1. /\ x \in Terminal => x \notin IntLiteral /\ getText[x] = Written[x]
        /\ x \in StringLiteral => x \notin IntLiteral
        /\ x \notin Terminal \cup StringLiteral => x \in IntLiteral
    BY TreeAssumption DEF Leaf, Literal
  <2> QED
    BY <2>1 DEF Held
<1> HIDE DEF n
<1> QED
  BY <1>1, <1>3, <1>4

\* item is what the running call owes its caller: the IR of its rule, or
\* nullptr, for the leaves from its start up to leaf at.
OwnLeaves(item, at) ==
  /\ item \in Item
  /\ at \in Nat
  /\ item.kind # "str"
  /\ FitsAt(item, Top.start)
  /\ at = EndOf(item, Top.start)
  /\ item.kind = "ir" => item.type = Top.node

(***************************************************************************)
(* A call that returns what its leaves print preserves the invariant.      *)
(***************************************************************************)
LEMMA ReturnStep ==
  ASSUME IInv, phase \in {"collect", "fold"},
         NEW item, NEW visited \in Seq(Leaf), OwnLeaves(item, Len(visited)),
         Return(item, visited)
  PROVE  IInv'
<1> DEFINE m == Len(frames) - 1
           at == Len(visited)
<1>1. TypeOK /\ frames # <<>> /\ phase # "done"
  BY DEF IInv, Control
<1>2. /\ Len(frames) \in Nat \ {0}
      /\ \A i \in 1..Len(frames) : frames[i] \in Frame
      /\ Top.start \in Nat /\ Top.node \in Node
  BY <1>1, TopFacts
<1>3. /\ item.text = Run(Top.start + 1, at)
      /\ item.kind # "none" => Top.start < at
      /\ item.kind = "none" => at = Top.start
  BY <1>2, FittingText DEF EndOf, OwnLeaves
<1>o. /\ item \in Item /\ at \in Nat /\ item.kind # "str"
      /\ item.kind = "ir" => item.type = Top.node
  BY DEF OwnLeaves
<1>4. stk' = <<>> /\ slots' = EmptyOneIR /\ cursor' = at /\ leaves' \in Seq(Leaf)
  BY DEF Return, cursor
<1>5. SlotShape' /\ \A s \in SlotNames : Empty(s)'
  BY <1>4, FreshOneIR DEF SlotShape, Empty, SlotNames, EmptyOneIR, None
<1>6. CASE m = 0
  <2>1. frames' = <<>> /\ result' = item /\ phase' = "done"
    <3>1. ~(m > 0)
      <4> HIDE DEF m
      <4> QED
        BY <1>6
    <3> QED
      BY <3>1, Zenon DEF Return
  <2>2. Len(frames) = 1 /\ Top = frames[1] /\ Top.start = 0 /\ Top.node \in Program
    <3>1. Len(frames) = 1 /\ Top = frames[1]
      BY <1>2, <1>6, PredCases DEF Top
    <3> QED
      BY <1>1, <3>1 DEF IInv, FrameChain
  <2>3. TypeOK'
    BY <1>o, <1>4, <2>1, NoneIsItem, EmptySeq DEF TypeOK
  <2>4. Control' /\ UnknownFirst'
    BY <1>4, <2>1 DEF Control, UnknownFirst
  <2>5. FrameChain'
    BY <2>1 DEF FrameChain
  <2>6. TokensHeldInOrder'
    BY <2>1 DEF TokensHeldInOrder
  <2>7. RuleIRsTyped'
    BY <1>o, <1>4, <2>1, <2>2 DEF RuleIRsTyped
  <2>8. YieldPreserved'
    <3>1. result'.text = Run(1, Len(leaves')) /\ at = Len(leaves')
      BY <1>3, <1>4, <2>1, <2>2 DEF cursor
    <3>2. result'.kind = "none" <=> leaves' = <<>>
      BY <1>3, <1>4, <2>1, <2>2, <3>1, EmptySeq
    <3> QED
      BY <1>4, <3>1, <3>2, PrintedLeaves DEF YieldPreserved, Prints
  <2> QED
    BY <1>5, <2>3, <2>4, <2>5, <2>6, <2>7, <2>8 DEF IInv
<1>7. CASE m > 0
  <2> DEFINE f == frames[m]
             g == [f EXCEPT !.next = @ + 1,
                            !.eofs = @ + Top.eofs,
                            !.tmp = IF item.kind = "none" THEN @ ELSE Append(@, item)]
  <2>1. /\ frames' = [i \in 1..m |-> IF i < m THEN frames[i] ELSE g]
        /\ phase' = "collect" /\ result' = result
    <3>1. m # 0
      BY <1>2, <1>7
    <3> QED
      BY <3>1, Zenon DEF Return
  <2>2. m \in Nat \ {0} /\ f \in Frame /\ Top = frames[m + 1] /\ Len(frames) = m + 1
    <3>1. m \in Nat \ {0} /\ Len(frames) = m + 1
      BY <1>2, <1>7, PredCases
    <3> HIDE DEF m
    <3>2. m \in 1..Len(frames)
      BY <3>1
    <3> QED
      BY <1>2, <3>1, <3>2 DEF Top
  <2> HIDE DEF m
  <2>3. /\ f.node \in Node /\ f.next \in Nat /\ f.tmp \in Seq(Item)
        /\ f.start \in Nat /\ f.eofs \in Nat /\ Top.eofs \in Nat
    BY <1>1, <2>2, TopFacts DEF Frame
  <2>4. /\ g.node = f.node /\ g.start = f.start /\ g.next = f.next + 1
        /\ g.tmp = IF item.kind = "none" THEN f.tmp ELSE Append(f.tmp, item)
        /\ g.tmp \in Seq(Item)
        /\ g \in Frame
    <3>1. g.node = f.node /\ g.start = f.start /\ g.next = f.next + 1
      BY <2>2 DEF Frame
    <3>2. /\ g.tmp = IF item.kind = "none" THEN f.tmp ELSE Append(f.tmp, item)
          /\ g.eofs = f.eofs + Top.eofs
      BY <2>2 DEF Frame
    <3>3. g.tmp \in Seq(Item)
      BY <1>o, <2>3, <3>2
    <3>4. g.eofs \in Nat /\ g.next \in Nat
      BY <2>3, <3>1, <3>2
    <3>5. g \in Frame
      BY <2>2, <2>3, <3>1, <3>2, <3>3, <3>4 DEF Frame
    <3> QED
      BY <3>1, <3>2, <3>3, <3>5
  <2> HIDE DEF g
  <2>5. frames' \in [1..m -> Frame]
    BY <1>2, <2>1, <2>2, <2>4
  <2>6. /\ frames' \in Seq(Frame) /\ Len(frames') = m
        /\ \A i \in 1..m : frames'[i] = IF i < m THEN frames[i] ELSE g
        /\ frames' # <<>>
    BY <2>1, <2>2, <2>5, SeqDef
  <2>7. TypeOK'
    <3>1. stk' \in Seq(Item) /\ slots' \in [SlotNames -> Item]
      BY <1>4, NoneIsItem, EmptySeq
    <3> QED
      BY <1>o, <1>1, <1>4, <2>1, <2>6, <3>1, Zenon DEF TypeOK
  <2>8. Control' /\ UnknownFirst'
    BY <1>1, <1>4, <2>1, <2>6 DEF Control, UnknownFirst, IInv
  <2>9. FrameChain'
    <3>1. ASSUME NEW i \in 1..m
          PROVE  /\ frames'[i].node = frames[i].node
                 /\ frames'[i].start = frames[i].start
                 /\ i < m => frames'[i].next = frames[i].next
                 /\ frames'[i].next # 0
                 /\ frames'[i].node \in Literal => frames'[i].tmp = <<>>
      <4>1. frames'[i] = IF i < m THEN frames[i] ELSE g
        BY <2>6
      <4>2. /\ i \in 1..Len(frames) /\ frames[i].next # 0
            /\ frames[i].node \in Literal => frames[i].tmp = <<>>
            /\ i = m => f.node \notin Literal
        BY <2>2 DEF IInv, FrameChain
      <4>3. CASE i < m
        BY <4>1, <4>2, <4>3
      <4>4. CASE i = m
        BY <2>2, <2>3, <2>4, <4>1, <4>2, <4>4
      <4> QED
        BY <2>2, <4>3, <4>4
    <3>2. ASSUME NEW i \in 1..m - 1
          PROVE  /\ frames'[i].next \in 1..Len(Children[frames'[i].node])
                 /\ frames'[i + 1].node
                      = Children[frames'[i].node][frames'[i].next]
                 /\ frames'[i].node \notin Literal
      <4>1. i \in 1..m /\ i + 1 \in 1..m /\ i < m /\ i \in 1..Len(frames) - 1
        BY <2>2
      <4> QED
        BY <3>1, <4>1 DEF IInv, FrameChain
    <3>3. frames'[1].node \in Program /\ frames'[1].start = 0
      BY <1>1, <2>2, <3>1 DEF IInv, FrameChain
    <3> QED
      BY <2>6, <3>1, <3>2, <3>3 DEF FrameChain
  <2>10. TokensHeldInOrder'
    <3> SUFFICES ASSUME NEW i \in 1..m
                 PROVE  Tiles(frames'[i].tmp, frames'[i].start, CallEnd(i)')
      BY <2>1, <2>6 DEF TokensHeldInOrder
    <3>1. CASE i < m
      <4>1. i + 1 \in 1..m /\ frames'[i] = frames[i]
            /\ frames'[i + 1].start = frames[i + 1].start
        BY <2>2, <2>4, <2>6, <3>1
      <4>2. CallEnd(i)' = CallEnd(i)
        BY <2>2, <2>6, <3>1, <4>1 DEF CallEnd
      <4>3. Tiles(frames[i].tmp, frames[i].start, CallEnd(i))
        BY <2>2, <3>1 DEF IInv, TokensHeldInOrder
      <4> QED
        BY <4>1, <4>2, <4>3
    <3>2. CASE i = m
      <4>1. frames'[i] = g /\ CallEnd(i)' = at
        BY <1>4, <2>2, <2>6, <3>2 DEF CallEnd
      <4>2. m \in 1..Len(frames) /\ CallEnd(m) = Top.start
        BY <2>2 DEF CallEnd
      <4>3. Tiles(f.tmp, f.start, Top.start)
        BY <4>2 DEF IInv, TokensHeldInOrder
      <4>4. CASE item.kind = "none"
        BY <1>3, <2>4, <3>2, <4>1, <4>3, <4>4
      <4>5. CASE item.kind # "none"
        <5>1. IsRun(item) /\ First(item) = Top.start + 1 /\ Last(item) = at
          BY <1>o, <1>2, <1>3, <4>5, RunFits
        <5>2. Tiles(Append(f.tmp, item), f.start, at)
          BY <1>o, <1>2, <2>3, <4>3, <5>1, TilesAppend
        <5> QED
          BY <2>4, <3>2, <4>1, <4>5, <5>2
      <4> QED
        BY <4>4, <4>5
    <3> QED
      BY <2>2, <3>1, <3>2
  <2>11. RuleIRsTyped'
    <3>1. ASSUME NEW i \in 1..m, NEW k \in 1..Len(frames'[i].tmp),
                 frames'[i].tmp[k].kind = "ir"
          PROVE  \E c \in 1..Len(Children[frames'[i].node]) :
                   frames'[i].tmp[k].type = Children[frames'[i].node][c]
      <4>1. CASE i < m
        <5>1. frames'[i] = frames[i] /\ i \in 1..Len(frames)
          BY <2>2, <2>6, <4>1
        <5>2. RuleIRsTyped
          BY DEF IInv
        <5>3. k \in 1..Len(frames[i].tmp) /\ frames[i].tmp[k].kind = "ir"
          BY <3>1, <5>1
        <5>4. \E c \in 1..Len(Children[frames[i].node]) :
                frames[i].tmp[k].type = Children[frames[i].node][c]
          BY <5>1, <5>2, <5>3 DEF RuleIRsTyped
        <5> QED
          BY <5>1, <5>4
      <4>2. CASE i = m
        <5>1. frames'[i] = g /\ g.node = f.node /\ m \in 1..Len(frames)
              /\ m \in 1..Len(frames) - 1
          BY <2>2, <2>4, <2>6, <4>2
        <5>2. CASE item.kind = "none" \/ k <= Len(f.tmp)
          <6>1. k \in 1..Len(f.tmp) /\ g.tmp[k] = f.tmp[k]
            BY <1>o, <2>3, <2>4, <3>1, <5>1, <5>2
          <6> QED
            BY <3>1, <5>1, <6>1 DEF IInv, RuleIRsTyped
        <5>3. CASE ~(item.kind = "none" \/ k <= Len(f.tmp))
          <6>1. g.tmp[k] = item
            <7>1. g.tmp = Append(f.tmp, item) /\ k \in 1..Len(g.tmp)
              BY <2>4, <3>1, <5>1, <5>3
            <7>2. Len(f.tmp) \in Nat /\ Len(g.tmp) = Len(f.tmp) + 1
              BY <1>o, <2>3, <7>1
            <7>3. \A n \in Nat : \A j \in 1..(n + 1) : ~(j <= n) => j = n + 1
              OBVIOUS
            <7>4. k = Len(f.tmp) + 1
              BY <5>3, <7>1, <7>2, <7>3
            <7> QED
              BY <1>o, <2>3, <7>1, <7>4
          <6>2. item.type = Top.node
            BY <1>o, <3>1, <5>1, <6>1
          <6>3. /\ f.next \in 1..Len(Children[f.node])
                /\ Top.node = Children[f.node][f.next]
            BY <2>2, <5>1 DEF IInv, FrameChain
          <6> QED
            BY <5>1, <6>1, <6>2, <6>3
        <5> QED
          BY <5>2, <5>3
      <4> QED
        BY <2>2, <4>1, <4>2
    <3>2. result'.kind # "ir"
      BY <1>1, <2>1 DEF IInv, Control, None
    <3>3. \A k \in 2..Len(stk') : stk'[k].kind = "ir" => stk'[k].type # kUnknown
      BY <1>4
    <3> QED
      BY <2>6, <3>1, <3>2, <3>3, Zenon DEF RuleIRsTyped
  <2>12. YieldPreserved'
    BY <2>1 DEF YieldPreserved
  <2> QED
    BY <1>5, <2>7, <2>8, <2>9, <2>10, <2>11, <2>12 DEF IInv
<1>8. m = 0 \/ m > 0
  BY <1>2, PredCases
<1> QED
  BY <1>6, <1>7, <1>8, Zenon

(***************************************************************************)
(* Filling the slot ExtractOneIR chooses extends the tiling by the item.   *)
(***************************************************************************)
LEMMA FillSlot ==
  ASSUME slots \in [SlotNames -> Item], SlotShape,
         NEW a \in Nat, NEW b \in Nat, SlotsTile(a, b),
         NEW x \in Item, IsRun(x), First(x) = b + 1, SlotFor(x) # "full",
         slots' = [slots EXCEPT ![SlotFor(x)] = x]
  PROVE  /\ SlotsTile(a, Last(x))'
         /\ SlotShape'
         /\ SlotFor(x) \in SlotNames
         /\ ~Empty("prefix")' \/ ~Empty("left")'
<1>1. x.kind # "none"
  BY DEF IsRun
<1>2. \A at : EndOf(x, at) = Last(x) /\ (at = b => FitsAt(x, at))
  BY <1>1 DEF EndOf, FitsAt
<1>3. SlotFor(x) \in SlotNames
  BY DEF SlotFor, StringSlot, IRSlot, SlotNames
<1>4. \A s \in SlotNames : slots'[s] = IF s = SlotFor(x) THEN x ELSE slots[s]
  BY <1>3
<1>5. \A s \in SlotNames : Empty(s)' <=> Empty(s) /\ s # SlotFor(x)
  BY <1>1, <1>4 DEF Empty
<1>6. \A s \in SlotNames : \A at : Empty(s) => EndOf(slots[s], at) = at
  BY DEF Empty, EndOf
<1>e. \A s \in SlotNames : \A at, d : Empty(s) /\ FitsAt(slots[s], at) => FitsAt(slots[s], d)
  BY DEF Empty, FitsAt
<1>7. SlotShape' /\ (~Empty("prefix")' \/ ~Empty("left")')
  BY <1>3, <1>5 DEF SlotShape, SlotFor, StringSlot, IRSlot, SlotNames
<1>8. SlotsTile(a, Last(x))'
  <2>1. CASE SlotFor(x) = "prefix"
    <3>1. /\ Empty("prefix") /\ Empty("left") /\ Empty("middle")
          /\ Empty("right") /\ Empty("suffix")
      BY <2>1 DEF SlotFor, StringSlot, IRSlot, SlotShape
    <3> QED
      BY <1>2, <1>4, <1>6, <1>e, <2>1, <3>1 DEF SlotsTile, SlotNames
  <2>2. CASE SlotFor(x) = "left"
    <3>1. Empty("left") /\ Empty("middle") /\ Empty("right") /\ Empty("suffix")
      BY <2>2 DEF SlotFor, StringSlot, IRSlot, SlotShape
    <3> QED
      BY <1>2, <1>4, <1>6, <1>e, <2>2, <3>1 DEF SlotsTile, SlotNames
  <2>3. CASE SlotFor(x) = "middle"
    <3>1. Empty("middle") /\ Empty("right") /\ Empty("suffix")
      BY <2>3 DEF SlotFor, StringSlot, IRSlot, SlotShape
    <3> QED
      BY <1>2, <1>4, <1>6, <1>e, <2>3, <3>1 DEF SlotsTile, SlotNames
  <2>4. CASE SlotFor(x) = "right"
    <3>1. Empty("right") /\ Empty("suffix")
      BY <2>4 DEF SlotFor, StringSlot, IRSlot, SlotShape
    <3> QED
      BY <1>2, <1>4, <1>6, <1>e, <2>4, <3>1 DEF SlotsTile, SlotNames
  <2>5. CASE SlotFor(x) = "suffix"
    <3>1. Empty("suffix")
      BY <2>5 DEF SlotFor, StringSlot, IRSlot
    <3> QED
      BY <1>2, <1>4, <1>6, <1>e, <2>5, <3>1 DEF SlotsTile, SlotNames
  <2> QED
    BY <1>3, <2>1, <2>2, <2>3, <2>4, <2>5 DEF SlotNames
<1> QED
  BY <1>3, <1>7, <1>8

\* While the fold runs, the leaves of the running call are split at Mid.
LEMMA FoldFacts ==
  ASSUME IInv, phase = "fold"
  PROVE  /\ TypeOK /\ frames # <<>> /\ Top.start \in Nat /\ cursor \in Nat
         /\ SlotsTile(Top.start, Mid) /\ Tiles(stk, Mid, cursor)
         /\ Mid \in Nat /\ Top.start <= Mid
         /\ OneIRText = Run(Top.start + 1, Mid)
         /\ ~Empty("prefix") \/ ~Empty("left") => Top.start < Mid
<1>1. TypeOK /\ frames # <<>> /\ cursor \in Nat
  BY DEF IInv, Control, TypeOK, cursor
<1>2. Top.start \in Nat
  BY <1>1, TopFacts
<1>3. SlotsTile(Top.start, Mid) /\ Tiles(stk, Mid, cursor)
  BY DEF IInv, TokensHeldInOrder
<1>4. /\ Mid \in Nat /\ Top.start <= Mid
      /\ OneIRText = Run(Top.start + 1, Mid)
      /\ ~Empty("prefix") \/ ~Empty("left") => Top.start < Mid
  BY <1>1, <1>2, <1>3, SlotsText DEF TypeOK
<1> QED
  BY <1>1, <1>2, <1>3, <1>4

\* The IR that the filled slots become.
LEMMA BuiltIR ==
  ASSUME IInv, phase = "fold", ~Empty("prefix") \/ ~Empty("left"),
         NEW type \in Node \cup {kUnknown}
  PROVE  /\ IR(OneIRText, type) \in Item
         /\ IsRun(IR(OneIRText, type))
         /\ First(IR(OneIRText, type)) = Top.start + 1
         /\ Last(IR(OneIRText, type)) = Mid
<1>1. /\ Top.start \in Nat /\ Mid \in Nat /\ Top.start < Mid
      /\ OneIRText = Run(Top.start + 1, Mid)
  BY FoldFacts
<1>2. OneIRText \in Seq(Nat)
  <2>1. Top.start + 1 \in Nat /\ Top.start + 1 <= Mid + 1
    BY <1>1
  <2> QED
    BY <1>1, <2>1, RunType
<1>3. /\ IR(OneIRText, type) \in Item
      /\ IR(OneIRText, type).kind # "none"
      /\ IR(OneIRText, type).text = Run(Top.start + 1, Mid)
  BY <1>1, <1>2 DEF IR, Item
<1> QED
  BY <1>1, <1>3, RunFits

LEMMA StoppedFilled ==
  ASSUME IInv, phase = "fold", ~CanPop
  PROVE  ~Empty("prefix") \/ ~Empty("left")
<1> SUFFICES ASSUME Empty("prefix"), Empty("left") PROVE FALSE
  OBVIOUS
<1>1. stk # <<>>
  BY DEF IInv, Control
<1>2. StringSlot = "prefix" /\ IRSlot = "left"
  BY DEF IInv, SlotShape, StringSlot, IRSlot
<1> QED
  BY <1>1, <1>2 DEF CanPop, SlotFor

-----------------------------------------------------------------------------
(***************************************************************************)
(* One lemma per action.                                                   *)
(***************************************************************************)
LEMMA LiteralStep ==
  ASSUME IInv, TranslateLiteral
  PROVE  IInv'
<1> DEFINE last == cursor + 1
           item == IR(<<cursor + 1>>, Top.node)
           visited == Append(leaves, Top.node)
<1>1. TypeOK /\ frames # <<>> /\ phase = "collect" /\ cursor \in Nat
  BY DEF IInv, Control, TypeOK, TranslateLiteral, cursor
<1>2. /\ Len(frames) \in Nat \ {0} /\ Top.start \in Nat /\ Top.node \in Node
  BY <1>1, TopFacts
<1>3. Top.node \in Literal /\ Return(item, visited)
  BY TreeAssumption DEF TranslateLiteral, Literal
<1>4. visited \in Seq(Leaf) /\ Len(visited) = last
  BY <1>1, <1>3 DEF TypeOK, Leaf, cursor
<1>5. Top.start = cursor
  <2>1. Len(frames) \in 1..Len(frames)
    BY <1>2
  <2>2. Top.tmp = <<>> /\ CallEnd(Len(frames)) = cursor
    BY <1>2, <1>3, <2>1 DEF IInv, FrameChain, Top, CallEnd
  <2>3. Tiles(Top.tmp, Top.start, cursor)
    BY <2>1, <2>2 DEF IInv, TokensHeldInOrder, Top
  <2> QED
    BY <2>2, <2>3 DEF Tiles
<1>6. last \in Nat /\ cursor < last /\ cursor + 1 \in Nat /\ last = cursor + 1
  BY <1>1
<1>7. <<cursor + 1>> \in Seq(Nat) /\ <<cursor + 1>> = Run(cursor + 1, last)
  <2>1. Run(cursor + 1, cursor + 1) = <<cursor + 1>>
    BY <1>1, SingletonRun
  <2> QED
    BY <1>6, <2>1
<1>8. /\ item \in Item /\ item.kind = "ir" /\ item.type = Top.node
      /\ item.text = Run(cursor + 1, last)
  BY <1>2, <1>7 DEF IR, Item
<1> HIDE DEF last, item, visited
<1>9. IsRun(item) /\ First(item) = cursor + 1 /\ Last(item) = last
  BY <1>1, <1>6, <1>8, RunFits
<1>10. OwnLeaves(item, Len(visited))
  BY <1>4, <1>5, <1>6, <1>8, <1>9 DEF OwnLeaves, FitsAt, EndOf
<1> QED
  BY <1>1, <1>3, <1>4, <1>10, ReturnStep

LEMMA NullStep ==
  ASSUME IInv, ReturnNull
  PROVE  IInv'
<1>1. /\ TypeOK /\ frames # <<>> /\ phase = "collect" /\ cursor \in Nat
      /\ Top.tmp = <<>> /\ Return(None, leaves)
      /\ leaves \in Seq(Leaf) /\ Len(leaves) = cursor
  BY DEF IInv, Control, TypeOK, ReturnNull, cursor
<1>2. Len(frames) \in Nat \ {0}
  BY <1>1, TopFacts
<1>3. Top.start = cursor
  <2>1. Len(frames) \in 1..Len(frames) /\ CallEnd(Len(frames)) = cursor
    BY <1>2 DEF CallEnd
  <2>2. Tiles(Top.tmp, Top.start, cursor)
    BY <2>1 DEF IInv, TokensHeldInOrder, Top
  <2> QED
    BY <1>1, <2>2 DEF Tiles
<1>4. OwnLeaves(None, cursor)
  BY <1>1, <1>3, NoneIsItem DEF OwnLeaves, FitsAt, EndOf, None
<1> QED
  BY <1>1, <1>4, ReturnStep

LEMMA RuleIRStep ==
  ASSUME IInv, ReturnRuleIR
  PROVE  IInv'
<1> DEFINE item == IR(OneIRText, Top.node)
<1>1. phase = "fold" /\ stk = <<>> /\ Return(item, leaves)
  BY DEF ReturnRuleIR
<1>2. TypeOK /\ frames # <<>> /\ cursor \in Nat /\ Top.node \in Node
  BY <1>1, FoldFacts, TopFacts
<1>3. ~Empty("prefix") \/ ~Empty("left")
  BY <1>1 DEF IInv, Control
<1>4. Mid = cursor
  BY <1>1 DEF Mid
<1>5. /\ item \in Item /\ IsRun(item) /\ First(item) = Top.start + 1
      /\ Last(item) = cursor
  BY <1>1, <1>2, <1>3, <1>4, BuiltIR
<1>6. item.kind = "ir" /\ item.type = Top.node
  BY DEF IR
<1> HIDE DEF item
<1>7. OwnLeaves(item, cursor)
  BY <1>2, <1>5, <1>6 DEF OwnLeaves, FitsAt, EndOf
<1>8. leaves \in Seq(Leaf) /\ Len(leaves) = cursor
  BY <1>2 DEF TypeOK, cursor
<1> QED
  BY <1>1, <1>7, <1>8, ReturnStep

LEMMA UnknownIRStep ==
  ASSUME IInv, PushUnknownIR
  PROVE  IInv'
<1> DEFINE item == IR(OneIRText, kUnknown)
<1>1. /\ phase = "fold" /\ ~CanPop /\ stk # <<>>
      /\ stk' = <<item>> \o stk /\ slots' = EmptyOneIR
      /\ phase' = phase /\ frames' = frames /\ leaves' = leaves /\ cursor' = cursor /\ result' = result
  BY DEF PushUnknownIR, cursor
<1>2. ~Empty("prefix") \/ ~Empty("left")
  BY <1>1, StoppedFilled
<1>3. /\ item \in Item /\ IsRun(item) /\ First(item) = Top.start + 1
      /\ Last(item) = Mid
  BY <1>1, <1>2, BuiltIR
<1>4. /\ TypeOK /\ frames # <<>> /\ Top.start \in Nat /\ cursor \in Nat
      /\ Mid \in Nat /\ Tiles(stk, Mid, cursor) /\ stk \in Seq(Item)
  BY <1>1, FoldFacts DEF TypeOK
<1> HIDE DEF item
<1>5. Tiles(stk', Top.start, cursor)
  BY <1>1, <1>3, <1>4, TilesCons
<1>6. /\ stk' \in Seq(Item) /\ stk' # <<>> /\ stk'[1] = item
      /\ Len(stk') = Len(stk) + 1 /\ Len(stk) \in Nat
      /\ \A k \in 1..Len(stk) : stk'[k + 1] = stk[k]
  BY <1>1, <1>3, <1>4
<1>7. Mid' = Top.start /\ Top' = Top
  BY <1>1, <1>3, <1>4, <1>6 DEF Mid, Top, First
<1>8. SlotShape' /\ (\A s \in SlotNames : Empty(s)') /\ \A a : SlotsTile(a, a)'
  <2>1. \A s \in SlotNames : slots'[s] = None
    BY <1>1 DEF EmptyOneIR
  <2>2. \A s \in SlotNames : Empty(s)'
    BY <2>1 DEF Empty, None
  <2>3. SlotShape'
    BY <2>2 DEF SlotShape, SlotNames
  <2>4. \A a : FitsAt(None, a) /\ EndOf(None, a) = a
    BY DEF FitsAt, EndOf, None
  <2>5. ASSUME NEW a PROVE SlotsTile(a, a)'
    BY <2>1, <2>4 DEF SlotsTile, SlotNames
  <2> QED
    BY <2>2, <2>3, <2>5
<1>9. TypeOK'
  BY <1>1, <1>4, <1>6, NoneIsItem DEF TypeOK
<1>10. Control' /\ UnknownFirst'
  BY <1>1, <1>6, <1>8 DEF IInv, Control, UnknownFirst, SlotNames
<1>11. FrameChain'
  BY <1>1 DEF IInv, FrameChain
<1>12. TokensHeldInOrder'
  <2>1. \A i \in 1..Len(frames') :
          Tiles(frames'[i].tmp, frames'[i].start, CallEnd(i)')
    BY <1>1 DEF IInv, TokensHeldInOrder, CallEnd
  <2>2. SlotsTile(Top.start, Mid)'
    BY <1>7, <1>8
  <2>3. Tiles(stk, Mid, cursor)'
    BY <1>1, <1>5, <1>7 DEF Tiles
  <2> QED
    BY <2>1, <2>2, <2>3 DEF TokensHeldInOrder
<1>13. RuleIRsTyped'
  <2>1. ASSUME NEW k \in 2..Len(stk'), stk'[k].kind = "ir"
        PROVE  stk'[k].type # kUnknown
    <3>1. k - 1 \in 1..Len(stk) /\ (k - 1) + 1 = k
      BY <1>6
    <3>2. stk'[k] = stk[k - 1]
      BY <1>6, <3>1
    <3>3. CASE k - 1 = 1
      BY <1>1, <1>2, <2>1, <3>2, <3>3 DEF IInv, UnknownFirst
    <3>4. CASE k - 1 \in 2..Len(stk)
      BY <2>1, <3>2, <3>4 DEF IInv, RuleIRsTyped
    <3> QED
      BY <1>6, <3>1, <3>3, <3>4
  <2> QED
    BY <1>1, <2>1 DEF IInv, RuleIRsTyped
<1>14. YieldPreserved'
  BY <1>1 DEF YieldPreserved
<1> QED
  BY <1>8, <1>9, <1>10, <1>11, <1>12, <1>13, <1>14 DEF IInv

LEMMA PopStep ==
  ASSUME IInv, PopItem
  PROVE  IInv'
<1>0. /\ phase = "fold" /\ stk # <<>> /\ stk[1] \in Item /\ Top.start \in Nat
      /\ Mid \in Nat
  <2>1. phase = "fold" /\ stk # <<>>
    BY DEF PopItem, CanPop
  <2>2. stk \in Seq(Item) /\ Top.start \in Nat /\ Mid \in Nat
    BY <2>1, FoldFacts DEF TypeOK
  <2> QED
    BY <2>1, <2>2, EmptySeq, ElementOfSeq
<1>x. PICK x \in Item : x = stk[1]
  BY <1>0
<1>a. PICK a \in Nat : a = Top.start
  BY <1>0
<1>b. PICK b \in Nat : b = Mid
  BY <1>0
<1>1. /\ phase = "fold" /\ stk # <<>> /\ SlotFor(x) # "full"
      /\ slots' = [slots EXCEPT ![SlotFor(x)] = x] /\ stk' = Tail(stk)
      /\ phase' = phase /\ frames' = frames /\ leaves' = leaves /\ cursor' = cursor /\ result' = result
  BY <1>x DEF PopItem, CanPop, cursor
<1>2. /\ TypeOK /\ frames # <<>> /\ Top.start \in Nat /\ cursor \in Nat
      /\ Mid \in Nat /\ SlotsTile(Top.start, Mid) /\ Tiles(stk, Mid, cursor)
      /\ stk \in Seq(Item) /\ slots \in [SlotNames -> Item] /\ SlotShape
  BY <1>1, FoldFacts DEF TypeOK, IInv
<1>3. /\ Len(stk) \in Nat \ {0} /\ x \in Item /\ stk' \in Seq(Item)
      /\ Len(stk') = Len(stk) - 1
      /\ \A i \in 1..Len(stk') : stk'[i] = stk[i + 1]
  BY <1>1, <1>2, HeadTailProperties, EmptySeq, ElementOfSeq
<1>4. IsRun(x) /\ First(x) = Mid + 1
  BY <1>x, <1>1, <1>2, <1>3 DEF Tiles
<1>5. /\ Tiles(stk', Last(x), cursor)
      /\ stk' # <<>> => First(stk'[1]) = Last(x) + 1
  BY <1>x, <1>1, <1>2, TilesTail
<1>6. Last(x) \in Nat
  <2>1. x.text \in Seq(Nat) /\ x.text # <<>>
    BY <1>3, <1>4 DEF Item, IsRun
  <2> QED
    BY <2>1, EmptySeq, ElementOfSeq DEF Last
<1>7. Mid' = Last(x) /\ Top' = Top
  <2>1. CASE stk' = <<>>
    BY <1>1, <1>5, <2>1 DEF Mid, Top, Tiles
  <2>2. CASE stk' # <<>>
    BY <1>1, <1>5, <1>6, <2>2 DEF Mid, Top, First
  <2> QED
    BY <2>1, <2>2
<1>8. /\ SlotsTile(a, Last(x))' /\ SlotShape' /\ SlotFor(x) \in SlotNames
      /\ ~Empty("prefix")' \/ ~Empty("left")'
  <2>1. SlotsTile(a, b) /\ First(x) = b + 1
    BY <1>a, <1>b, <1>2, <1>4
  <2> QED
    BY <1>1, <1>2, <1>4, <2>1, FillSlot
<1>9. TypeOK'
  <2>1. slots' \in [SlotNames -> Item]
    BY <1>1, <1>2, <1>3, <1>8
  <2> QED
    BY <1>1, <1>2, <1>3, <2>1 DEF TypeOK
<1>10. Control'
  BY <1>1, <1>8 DEF IInv, Control
<1>11. UnknownFirst'
  <2> SUFFICES ASSUME stk' # <<>>, stk'[1].kind = "ir"
               PROVE  stk'[1].type # kUnknown
    BY DEF UnknownFirst
  <2>1. Len(stk') \in Nat \ {0}
    BY <1>3, EmptySeq
  <2>2. 1 \in 1..Len(stk') /\ 2 \in 2..Len(stk) /\ stk'[1] = stk[2]
    BY <1>3, <2>1
  <2> QED
    BY <2>2 DEF IInv, RuleIRsTyped
<1>12. FrameChain'
  BY <1>1 DEF IInv, FrameChain
<1>13. TokensHeldInOrder'
  <2>1. \A i \in 1..Len(frames') :
          Tiles(frames'[i].tmp, frames'[i].start, CallEnd(i)')
    BY <1>1 DEF IInv, TokensHeldInOrder, CallEnd
  <2>2. SlotsTile(Top.start, Mid)' /\ Tiles(stk, Mid, cursor)'
    <3>1. Top.start' = a /\ Mid' = Last(x)
      BY <1>a, <1>7
    <3> QED
      BY <1>1, <1>5, <1>8, <3>1
  <2> QED
    BY <2>1, <2>2 DEF TokensHeldInOrder
<1>14. RuleIRsTyped'
  <2>1. ASSUME NEW k \in 2..Len(stk'), stk'[k].kind = "ir"
        PROVE  stk'[k].type # kUnknown
    <3>1. k + 1 \in 2..Len(stk) /\ k \in 1..Len(stk')
      BY <1>3
    <3> QED
      BY <1>3, <2>1, <3>1 DEF IInv, RuleIRsTyped
  <2> QED
    BY <1>1, <2>1 DEF IInv, RuleIRsTyped
<1>15. YieldPreserved'
  BY <1>1 DEF YieldPreserved
<1> QED
  BY <1>8, <1>9, <1>10, <1>11, <1>12, <1>13, <1>14, <1>15 DEF IInv

LEMMA StartFoldStep ==
  ASSUME IInv, StartFold
  PROVE  IInv'
<1>1. /\ phase = "collect" /\ Top.tmp # <<>> /\ stk' = Top.tmp
      /\ slots' = EmptyOneIR /\ phase' = "fold"
      /\ frames' = frames /\ leaves' = leaves /\ cursor' = cursor /\ result' = result
  BY DEF StartFold, cursor
<1>2. TypeOK /\ frames # <<>> /\ cursor \in Nat
  BY <1>1 DEF IInv, Control, TypeOK, cursor
<1>3. /\ Len(frames) \in Nat \ {0} /\ Top.start \in Nat /\ Top.node \in Node
      /\ Top.tmp \in Seq(Item)
      /\ Children[Top.node] \in Seq(Node \cup Terminal \cup {Eof})
  BY <1>2, TopFacts
<1>4. Len(frames) \in 1..Len(frames) /\ CallEnd(Len(frames)) = cursor
  BY <1>3 DEF CallEnd
<1>5. Tiles(Top.tmp, Top.start, cursor)
  BY <1>4 DEF IInv, TokensHeldInOrder, Top
<1>6. Mid' = Top.start /\ Top' = Top
  BY <1>1, <1>3, <1>5 DEF Mid, Top, Tiles, First
<1>7. \A s \in SlotNames : slots'[s] = None
  BY <1>1 DEF EmptyOneIR
<1>8. \A s \in SlotNames : Empty(s)'
  BY <1>7 DEF Empty, None
<1>9. SlotShape'
  BY <1>8 DEF SlotShape, SlotNames
<1>10. TypeOK'
  BY <1>1, <1>2, <1>3, NoneIsItem DEF TypeOK
<1>11. Control' /\ UnknownFirst'
  BY <1>1, <1>2, <1>8 DEF IInv, Control, UnknownFirst, SlotNames
<1>12. FrameChain'
  BY <1>1 DEF IInv, FrameChain
<1>13. TokensHeldInOrder'
  <2>1. \A i \in 1..Len(frames') :
          Tiles(frames'[i].tmp, frames'[i].start, CallEnd(i)')
    BY <1>1 DEF IInv, TokensHeldInOrder, CallEnd
  <2>2. \A a : FitsAt(None, a) /\ EndOf(None, a) = a
    BY DEF FitsAt, EndOf, None
  <2>3. SlotsTile(Top.start, Mid)'
    BY <1>6, <1>7, <2>2 DEF SlotsTile, SlotNames
  <2>4. Tiles(stk, Mid, cursor)'
    BY <1>1, <1>5, <1>6
  <2> QED
    BY <2>1, <2>3, <2>4 DEF TokensHeldInOrder
<1>14. RuleIRsTyped'
  <2>1. ASSUME NEW k \in 2..Len(stk'), stk'[k].kind = "ir"
        PROVE  stk'[k].type # kUnknown
    <3>1. k \in 1..Len(Top.tmp) /\ Top.tmp[k].kind = "ir"
      BY <1>1, <1>3, <2>1
    <3>2. PICK c \in 1..Len(Children[Top.node]) :
            Top.tmp[k].type = Children[Top.node][c]
      BY <1>4, <3>1 DEF IInv, RuleIRsTyped, Top
    <3>3. Children[Top.node][c] \in Node \cup Terminal \cup {Eof}
      BY <1>3, <3>2, ElementOfSeq
    <3> QED
      BY <1>1, <3>2, <3>3, TreeAssumption
  <2> QED
    BY <1>1, <2>1 DEF IInv, RuleIRsTyped
<1>15. YieldPreserved'
  BY <1>1 DEF YieldPreserved
<1> QED
  BY <1>9, <1>10, <1>11, <1>12, <1>13, <1>14, <1>15 DEF IInv

LEMMA VisitRuleStep ==
  ASSUME IInv, VisitRule
  PROVE  IInv'
<1> DEFINE n == Len(frames)
           new == Call(Child, cursor)
<1>1. /\ phase = "collect" /\ Top.node \notin Literal /\ ~AllVisited /\ Child \in Node
      /\ frames' = Append(frames, new)
      /\ phase' = phase /\ stk' = stk /\ slots' = slots /\ leaves' = leaves /\ cursor' = cursor
      /\ result' = result
  BY DEF VisitRule, cursor
<1>2. TypeOK /\ frames # <<>> /\ cursor \in Nat /\ frames \in Seq(Frame)
  BY <1>1 DEF IInv, Control, TypeOK, cursor
<1>3. /\ n \in Nat \ {0} /\ Top.node \in Node /\ Top = frames[n]
      /\ Top.next \in Nat
      /\ Children[Top.node] \in Seq(Node \cup Terminal \cup {Eof})
  BY <1>2, TopFacts DEF Frame, Top
<1>4. new \in Frame /\ new.tmp = <<>> /\ new.start = cursor /\ new.node = Child
      /\ new.next = 1
  BY <1>1, <1>2, EmptySeq DEF Call, Frame
<1> HIDE DEF new
<1>5. /\ frames' \in Seq(Frame) /\ Len(frames') = n + 1 /\ frames' # <<>>
      /\ frames'[n + 1] = new
      /\ \A i \in 1..n : frames'[i] = frames[i]
  BY <1>1, <1>2, <1>4
<1>6. Top.next \in 1..Len(Children[Top.node])
  <2>1. n \in 1..n
    BY <1>3
  <2>2. Top.next # 0
    BY <1>3, <2>1 DEF IInv, FrameChain
  <2>3. Len(Children[Top.node]) \in Nat
    BY <1>3, LenProperties
  <2> QED
    BY <1>1, <1>3, <2>2, <2>3 DEF AllVisited
<1> HIDE DEF n
<1>7. \A i \in 1..n + 1 : i \in 1..n \/ i = n + 1
  BY <1>3
<1>8. TypeOK'
  BY <1>1, <1>2, <1>5 DEF TypeOK
<1>9. Control' /\ UnknownFirst' /\ SlotShape'
  BY <1>1, <1>5 DEF IInv, Control, UnknownFirst, SlotShape, Empty
<1>10. FrameChain'
  <2>1. ASSUME NEW i \in 1..Len(frames') - 1
        PROVE  /\ frames'[i].next \in 1..Len(Children[frames'[i].node])
               /\ frames'[i + 1].node = Children[frames'[i].node][frames'[i].next]
               /\ frames'[i].node \notin Literal
    <3>1. CASE i < n
      <4>1. i \in 1..Len(frames) - 1 /\ frames'[i] = frames[i]
            /\ frames'[i + 1] = frames[i + 1]
        BY <1>3, <1>5, <2>1, <3>1 DEF n
      <4> QED
        BY <4>1 DEF IInv, FrameChain
    <3>2. CASE i = n
      <4>1. n \in 1..n /\ frames'[i] = Top /\ frames'[i + 1] = new
        BY <1>3, <1>5, <3>2
      <4> QED
        BY <1>1, <1>4, <1>6, <4>1 DEF Child
    <3> QED
      BY <1>3, <1>5, <2>1, <3>1, <3>2
  <2>2. ASSUME NEW i \in 1..Len(frames')
        PROVE  /\ frames'[i].next # 0
               /\ frames'[i].node \in Literal => frames'[i].tmp = <<>>
    <3>1. CASE i \in 1..n
      BY <1>5, <3>1 DEF IInv, FrameChain, n
    <3>2. CASE i = n + 1
      BY <1>4, <1>5, <3>2
    <3> QED
      BY <1>5, <1>7, <2>2, <3>1, <3>2
  <2>3. frames'[1].node \in Program /\ frames'[1].start = 0
    <3>1. 1 \in 1..n
      BY <1>3
    <3> QED
      BY <1>2, <1>5, <3>1 DEF IInv, FrameChain
  <2> QED
    BY <2>1, <2>2, <2>3 DEF FrameChain
<1>11. TokensHeldInOrder'
  <2> SUFFICES ASSUME NEW i \in 1..Len(frames')
               PROVE  Tiles(frames'[i].tmp, frames'[i].start, CallEnd(i)')
    BY <1>1 DEF TokensHeldInOrder
  <2>1. CASE i \in 1..n
    <3>1. CallEnd(i)' = CallEnd(i)
      <4>1. CASE i < n
        BY <1>1, <1>3, <1>5, <2>1, <4>1 DEF CallEnd, n
      <4>2. CASE i = n
        <5>1. i < Len(frames') /\ ~(i < Len(frames)) /\ frames'[i + 1] = new
          BY <1>3, <1>5, <4>2 DEF n
        <5> QED
          BY <1>4, <5>1 DEF CallEnd
      <4> QED
        BY <1>3, <2>1, <4>1, <4>2
    <3> QED
      BY <1>5, <2>1, <3>1 DEF IInv, TokensHeldInOrder, n
  <2>2. CASE i = n + 1
    <3>1. frames'[i] = new /\ CallEnd(i)' = cursor
      BY <1>1, <1>3, <1>5, <2>2 DEF CallEnd
    <3> QED
      BY <1>4, <3>1 DEF Tiles
  <2> QED
    BY <1>5, <1>7, <2>1, <2>2
<1>12. RuleIRsTyped'
  <2>1. ASSUME NEW i \in 1..Len(frames'), NEW k \in 1..Len(frames'[i].tmp),
               frames'[i].tmp[k].kind = "ir"
        PROVE  \E c \in 1..Len(Children[frames'[i].node]) :
                 frames'[i].tmp[k].type = Children[frames'[i].node][c]
    <3>1. CASE i \in 1..n
      <4>1. frames'[i] = frames[i] /\ i \in 1..Len(frames)
        BY <1>5, <3>1 DEF n
      <4>2. k \in 1..Len(frames[i].tmp) /\ frames[i].tmp[k].kind = "ir"
        BY <2>1, <4>1
      <4>3. \E c \in 1..Len(Children[frames[i].node]) :
              frames[i].tmp[k].type = Children[frames[i].node][c]
        BY <4>1, <4>2 DEF IInv, RuleIRsTyped
      <4> QED
        BY <4>1, <4>3
    <3>2. CASE i = n + 1
      BY <1>4, <1>5, <2>1, <3>2
    <3> QED
      BY <1>5, <1>7, <2>1, <3>1, <3>2
  <2> QED
    BY <1>1, <2>1 DEF IInv, RuleIRsTyped
<1>13. YieldPreserved'
  BY <1>1 DEF YieldPreserved
<1> QED
  BY <1>8, <1>9, <1>10, <1>11, <1>12, <1>13 DEF IInv

LEMMA VisitTerminalStep ==
  ASSUME IInv, VisitTerminal
  PROVE  IInv'
<1> DEFINE n == Len(frames)
           keep == Child # Eof
           visited == IF keep THEN Append(leaves, Child) ELSE leaves
           g == [Top EXCEPT !.next = @ + 1,
                            !.eofs = IF keep THEN @ ELSE @ + 1,
                            !.tmp = IF keep THEN Append(@, Str(cursor + 1)) ELSE @]
<1>0. frames' = [frames EXCEPT ![n] = g]
  BY Zenon DEF VisitTerminal
<1>1. /\ phase = "collect" /\ Top.node \notin Literal /\ ~AllVisited
      /\ leaves' = visited /\ Child \notin Node
      /\ phase' = phase /\ stk' = stk /\ slots' = slots /\ result' = result
  BY DEF VisitTerminal
<1>2. TypeOK /\ frames # <<>> /\ cursor \in Nat /\ frames \in Seq(Frame)
  BY <1>1 DEF IInv, Control, TypeOK, cursor
<1>3. n \in Nat \ {0} /\ Top \in Frame /\ Top = frames[n]
  BY <1>2, TopFacts DEF Top
<1>4. /\ Top.node \in Node /\ Top.next \in Nat /\ Top.eofs \in Nat
      /\ Top.start \in Nat /\ Top.tmp \in Seq(Item)
  BY <1>3 DEF Frame
<1>c. /\ visited \in Seq(Leaf)
      /\ cursor' = IF keep THEN cursor + 1 ELSE cursor
  <2>1. leaves \in Seq(Leaf)
    BY <1>2 DEF TypeOK
  <2>2. Top.next \in 1..Len(Children[Top.node])
    <3>1. n \in 1..n
      BY <1>3
    <3>2. Top.next # 0
      BY <1>3, <3>1 DEF IInv, FrameChain
    <3>3. Len(Children[Top.node]) \in Nat
      BY <1>2, TopFacts, LenProperties
    <3> QED
      BY <1>1, <1>4, <3>2, <3>3 DEF AllVisited
  <2>3. Child \in Node \cup Terminal \cup {Eof}
    BY <1>2, <2>2, TopFacts, ElementOfSeq DEF Child
  <2>4. keep => Child \in Leaf
    BY <1>1, <2>3 DEF Leaf
  <2>5. visited \in Seq(Leaf) /\ Len(visited) = IF keep THEN Len(leaves) + 1 ELSE Len(leaves)
    BY <2>1, <2>4
  <2> QED
    BY <1>1, <2>5 DEF cursor
<1> HIDE DEF visited
<1>5. Str(cursor + 1) \in Item
  <2>1. <<cursor + 1>> \in Seq(Nat)
    BY <1>2
  <2> QED
    BY <2>1 DEF Str, Item
<1>6. /\ g.node = Top.node /\ g.start = Top.start /\ g.next = Top.next + 1
      /\ g.tmp = IF keep THEN Append(Top.tmp, Str(cursor + 1)) ELSE Top.tmp
      /\ g.eofs = IF keep THEN Top.eofs ELSE Top.eofs + 1
  BY <1>3 DEF Frame
<1>7. g.tmp \in Seq(Item) /\ g.eofs \in Nat /\ g.next \in Nat \ {0}
  BY <1>4, <1>5, <1>6
<1>8. g \in Frame
  BY <1>3, <1>4, <1>6, <1>7 DEF Frame
<1> HIDE DEF g
<1>9. n \in 1..n
  BY <1>3
<1>10. /\ frames' \in Seq(Frame) /\ Len(frames') = n /\ frames' # <<>>
       /\ frames'[n] = g
       /\ \A i \in 1..n : i # n => frames'[i] = frames[i]
  BY <1>0, <1>2, <1>8, <1>9, ExceptSeq
<1>11. ASSUME NEW i \in 1..n
       PROVE  /\ frames'[i].node = frames[i].node
              /\ frames'[i].start = frames[i].start
  BY <1>3, <1>6, <1>10
<1> HIDE DEF n
<1>12. TypeOK'
  BY <1>1, <1>2, <1>c, <1>10 DEF TypeOK
<1>13. Control' /\ UnknownFirst' /\ SlotShape'
  BY <1>1, <1>10 DEF IInv, Control, UnknownFirst, SlotShape, Empty
<1>14. FrameChain'
  <2>1. ASSUME NEW i \in 1..Len(frames') - 1
        PROVE  /\ frames'[i].next \in 1..Len(Children[frames'[i].node])
               /\ frames'[i + 1].node = Children[frames'[i].node][frames'[i].next]
               /\ frames'[i].node \notin Literal
    <3>1. i \in 1..n /\ i + 1 \in 1..n /\ i # n /\ i \in 1..Len(frames) - 1
      BY <1>3, <1>10, <2>1 DEF n
    <3>2. frames'[i] = frames[i] /\ frames'[i + 1].node = frames[i + 1].node
      BY <1>10, <1>11, <3>1
    <3> QED
      BY <3>1, <3>2 DEF IInv, FrameChain
  <2>2. ASSUME NEW i \in 1..Len(frames')
        PROVE  /\ frames'[i].next # 0
               /\ frames'[i].node \in Literal => frames'[i].tmp = <<>>
    <3>1. CASE i = n
      BY <1>1, <1>6, <1>7, <1>10, <3>1
    <3>2. CASE i # n
      BY <1>10, <2>2, <3>2 DEF IInv, FrameChain, n
    <3> QED
      BY <3>1, <3>2
  <2>3. frames'[1].node \in Program /\ frames'[1].start = 0
    <3>1. 1 \in 1..n
      BY <1>3
    <3> QED
      BY <1>2, <1>11, <3>1 DEF IInv, FrameChain
  <2> QED
    BY <2>1, <2>2, <2>3 DEF FrameChain
<1>15. TokensHeldInOrder'
  <2> SUFFICES ASSUME NEW i \in 1..Len(frames')
               PROVE  Tiles(frames'[i].tmp, frames'[i].start, CallEnd(i)')
    BY <1>1 DEF TokensHeldInOrder
  <2>1. i \in 1..n /\ Tiles(frames[i].tmp, frames[i].start, CallEnd(i))
    BY <1>10 DEF IInv, TokensHeldInOrder, n
  <2>2. CASE i # n
    <3>1. i < n /\ i + 1 \in 1..n
      BY <1>3, <2>1, <2>2
    <3>2. CallEnd(i)' = CallEnd(i)
      BY <1>10, <1>11, <3>1 DEF CallEnd, n
    <3> QED
      BY <1>10, <2>1, <2>2, <3>2
  <2>3. CASE i = n
    <3>1. /\ CallEnd(i)' = cursor' /\ CallEnd(i) = cursor
          /\ frames'[i].tmp = g.tmp /\ frames'[i].start = Top.start
          /\ frames[i] = Top
      BY <1>3, <1>6, <1>10, <2>3 DEF CallEnd, n
    <3>2. CASE ~keep
      BY <1>1, <1>c, <1>6, <2>1, <3>1, <3>2
    <3>3. CASE keep
      <4> DEFINE x == Str(cursor + 1)
      <4>1. x.kind # "none" /\ x.text = <<cursor + 1>>
        BY DEF Str
      <4>2. x.text # <<>> /\ First(x) = cursor + 1 /\ Last(x) = cursor + 1
        BY <4>1 DEF First, Last
      <4>3. x.text = Run(cursor + 1, cursor + 1)
        BY <1>2, <4>1, SingletonRun
      <4>6. IsRun(x)
        BY <4>1, <4>2, <4>3 DEF IsRun
      <4> HIDE DEF x
      <4>7. Tiles(Append(Top.tmp, x), Top.start, Last(x))
        BY <1>2, <1>4, <1>5, <2>1, <3>1, <4>2, <4>6, TilesAppend DEF x
      <4> QED
        BY <1>1, <1>c, <1>6, <3>1, <3>3, <4>2, <4>7 DEF x
    <3> QED
      BY <3>2, <3>3
  <2> QED
    BY <2>2, <2>3
<1>16. RuleIRsTyped'
  <2>1. ASSUME NEW i \in 1..Len(frames'), NEW k \in 1..Len(frames'[i].tmp),
               frames'[i].tmp[k].kind = "ir"
        PROVE  \E c \in 1..Len(Children[frames'[i].node]) :
                 frames'[i].tmp[k].type = Children[frames'[i].node][c]
    <3>1. i \in 1..n /\ i \in 1..Len(frames) /\ frames'[i].node = frames[i].node
      BY <1>10, <1>11 DEF n
    <3>2. /\ k \in 1..Len(frames[i].tmp) /\ frames'[i].tmp[k] = frames[i].tmp[k]
      <4>1. CASE i # n
        BY <1>10, <2>1, <3>1, <4>1
      <4>2. CASE i = n
        <5>1. frames[i].tmp = Top.tmp /\ frames'[i].tmp = g.tmp /\ Len(Top.tmp) \in Nat
          BY <1>3, <1>4, <1>10, <4>2
        <5>2. CASE ~keep
          BY <1>6, <2>1, <5>1, <5>2
        <5>3. CASE keep
          <6>1. g.tmp = Append(Top.tmp, Str(cursor + 1)) /\ Str(cursor + 1).kind = "str"
            BY <1>6, <5>3 DEF Str
          <6>2. /\ Len(g.tmp) = Len(Top.tmp) + 1
                /\ g.tmp[Len(Top.tmp) + 1] = Str(cursor + 1)
                /\ \A j \in 1..Len(Top.tmp) : g.tmp[j] = Top.tmp[j]
            BY <1>4, <1>5, <6>1
          <6>3. k # Len(Top.tmp) + 1
            BY <2>1, <5>1, <6>1, <6>2
          <6>4. \A l \in Nat : \A j \in 1..(l + 1) : j # l + 1 => j \in 1..l
            OBVIOUS
          <6>5. k \in 1..Len(Top.tmp)
            BY <2>1, <5>1, <6>2, <6>3, <6>4
          <6> QED
            BY <5>1, <6>2, <6>5
        <5> QED
          BY <5>2, <5>3
      <4> QED
        BY <4>1, <4>2
    <3>3. \E c \in 1..Len(Children[frames[i].node]) :
            frames[i].tmp[k].type = Children[frames[i].node][c]
      BY <2>1, <3>1, <3>2 DEF IInv, RuleIRsTyped
    <3> QED
      BY <3>1, <3>2, <3>3
  <2> QED
    BY <1>1, <2>1 DEF IInv, RuleIRsTyped
<1>17. YieldPreserved'
  BY <1>1 DEF YieldPreserved
<1> QED
  BY <1>12, <1>13, <1>14, <1>15, <1>16, <1>17 DEF IInv

LEMMA AbortStep ==
  ASSUME IInv, StoiThrows \/ NothingCollected
  PROVE  IInv'
<1>1. /\ phase = "collect" /\ phase' = "aborted"
      /\ frames' = frames /\ stk' = stk /\ slots' = slots /\ leaves' = leaves /\ cursor' = cursor
      /\ result' = result
  BY DEF StoiThrows, NothingCollected, cursor
<1>2. TypeOK' /\ Control' /\ FrameChain' /\ SlotShape' /\ UnknownFirst'
  BY <1>1 DEF IInv, TypeOK, Control, FrameChain, SlotShape, UnknownFirst, Empty
<1>3. TokensHeldInOrder'
  BY <1>1 DEF IInv, TokensHeldInOrder, CallEnd
<1>4. RuleIRsTyped' /\ YieldPreserved'
  BY <1>1 DEF IInv, RuleIRsTyped, YieldPreserved
<1> QED
  BY <1>2, <1>3, <1>4 DEF IInv

LEMMA InitIInv == Init => IInv
<1> SUFFICES ASSUME Init PROVE IInv
  OBVIOUS
<1>1. PICK n \in Program : frames = <<Call(n, 0)>>
  BY DEF Init
<1>2. /\ phase = "collect" /\ stk = <<>> /\ slots = EmptyOneIR
      /\ leaves = <<>> /\ cursor = 0 /\ result = None
  BY EmptySeq DEF Init, cursor
<1>3. /\ n \in Node /\ Call(n, 0) \in Frame /\ Call(n, 0).tmp = <<>>
      /\ Call(n, 0).start = 0 /\ Call(n, 0).next = 1 /\ Call(n, 0).node = n
  BY TreeAssumption, EmptySeq DEF Call, Frame
<1>4. /\ frames \in Seq(Frame) /\ Len(frames) = 1 /\ frames # <<>>
      /\ frames[1] = Call(n, 0)
  BY <1>1, <1>3
<1>5. TypeOK
  BY <1>2, <1>4, NoneIsItem, EmptySeq DEF TypeOK
<1>6. Control /\ UnknownFirst
  BY <1>2, <1>4 DEF Control, UnknownFirst
<1>7. FrameChain
  BY <1>3, <1>4 DEF FrameChain
<1>8. SlotShape
  BY <1>2, FreshOneIR
<1>9. TokensHeldInOrder
  <2>1. CallEnd(1) = 0
    BY <1>2, <1>4 DEF CallEnd
  <2>2. Tiles(frames[1].tmp, frames[1].start, CallEnd(1))
    BY <1>3, <1>4, <2>1 DEF Tiles
  <2> QED
    BY <1>2, <1>4, <2>2 DEF TokensHeldInOrder
<1>10. RuleIRsTyped
  BY <1>2, <1>3, <1>4 DEF RuleIRsTyped, None
<1>11. YieldPreserved
  BY <1>2 DEF YieldPreserved
<1> QED
  BY <1>5, <1>6, <1>7, <1>8, <1>9, <1>10, <1>11 DEF IInv

LEMMA NextIInv == IInv /\ [Next]_vars => IInv'
<1> SUFFICES ASSUME IInv, [Next]_vars PROVE IInv'
  OBVIOUS
<1>1. CASE UNCHANGED vars
  <2>1. /\ phase' = phase /\ frames' = frames /\ stk' = stk /\ slots' = slots
        /\ leaves' = leaves /\ cursor' = cursor /\ result' = result
    BY <1>1 DEF vars, cursor
  <2>2. TypeOK' /\ Control' /\ FrameChain' /\ SlotShape' /\ UnknownFirst'
    BY <2>1 DEF IInv, TypeOK, Control, FrameChain, SlotShape, UnknownFirst, Empty
  <2>3. TokensHeldInOrder'
    BY <2>1 DEF IInv, TokensHeldInOrder, CallEnd, SlotsTile, Mid, Top
  <2>4. RuleIRsTyped' /\ YieldPreserved'
    BY <2>1 DEF IInv, RuleIRsTyped, YieldPreserved, Prints
  <2> QED
    BY <2>2, <2>3, <2>4 DEF IInv
<1>2. CASE TranslateLiteral
  BY <1>2, LiteralStep
<1>3. CASE StoiThrows \/ NothingCollected
  BY <1>3, AbortStep
<1>4. CASE VisitTerminal
  BY <1>4, VisitTerminalStep
<1>5. CASE VisitRule
  BY <1>5, VisitRuleStep
<1>6. CASE ReturnNull
  BY <1>6, NullStep
<1>7. CASE StartFold
  BY <1>7, StartFoldStep
<1>8. CASE PopItem
  BY <1>8, PopStep
<1>9. CASE PushUnknownIR
  BY <1>9, UnknownIRStep
<1>10. CASE ReturnRuleIR
  BY <1>10, RuleIRStep
<1> QED
  BY <1>1, <1>2, <1>3, <1>4, <1>5, <1>6, <1>7, <1>8, <1>9, <1>10 DEF Next

(***************************************************************************)
(* TranslateNode, for every grammar and every parse tree: the state is     *)
(* well typed, no token is lost, doubled or moved while the tree is built  *)
(* and every IR given to a caller has the type of its rule.                *)
(***************************************************************************)
THEOREM TranslationInvariant == Spec => []IInv
  BY InitIInv, NextIInv, PTL DEF Spec

(***************************************************************************)
(* The state of TranslateNode and ExtractOneIR stays well typed.           *)
(***************************************************************************)
THEOREM TranslationTypeOK == Spec => []TypeOK
<1>1. IInv => TypeOK
  BY DEF IInv
<1> QED
  BY <1>1, TranslationInvariant, PTL

(***************************************************************************)
(* Every token visited so far is held exactly once and in order.           *)
(***************************************************************************)
THEOREM TokensAreHeldInOrder == Spec => []TokensHeldInOrder
<1>1. IInv => TokensHeldInOrder
  BY DEF IInv
<1> QED
  BY <1>1, TranslationInvariant, PTL

(***************************************************************************)
(* The IR of a program prints all its leaves, in order: the tokens outside *)
(* the literals as they are written, string literals without the blanks    *)
(* between their tokens, integer literals as what std::stoi reads.         *)
(***************************************************************************)
THEOREM TranslationPreservesYield == Spec => []YieldPreserved
<1>1. IInv => YieldPreserved
  BY DEF IInv
<1> QED
  BY <1>1, TranslationInvariant, PTL

(***************************************************************************)
(* IRs of unknown type stay inside the fold of one rule node.              *)
(***************************************************************************)
THEOREM TranslationTypesRules == Spec => []RuleIRsTyped
<1>1. IInv => RuleIRsTyped
  BY DEF IInv
<1> QED
  BY <1>1, TranslationInvariant, PTL

(***************************************************************************)
(* The fold loop makes progress: ExtractOneIR takes two items or more      *)
(* whenever it leaves some on the stack.                                   *)
(***************************************************************************)
THEOREM FoldMakesProgress == Spec => []FoldTakesTwo
<1>1. IInv => FoldTakesTwo
  <2> SUFFICES ASSUME IInv, phase = "fold", stk # <<>>, ~CanPop
               PROVE  \E s, t \in SlotNames : s # t /\ ~Empty(s) /\ ~Empty(t)
    BY DEF FoldTakesTwo
  <2>1. ~Empty("prefix") \/ ~Empty("left")
    BY StoppedFilled
  <2>2. SlotFor(stk[1]) = "full" /\ SlotShape
    BY DEF CanPop, IInv
  <2>3. StringSlot = "full" \/ IRSlot = "full"
    BY <2>2 DEF SlotFor
  <2>4. \/ ~Empty("prefix") /\ ~Empty("left")
        \/ ~Empty("prefix") /\ ~Empty("middle")
        \/ ~Empty("left") /\ (~Empty("middle") \/ ~Empty("right"))
    BY <2>1, <2>2, <2>3 DEF StringSlot, IRSlot, SlotShape
  <2> QED
    BY <2>4 DEF SlotNames
<1> QED
  BY <1>1, TranslationInvariant, PTL
=============================================================================
