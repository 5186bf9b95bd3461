---------------------------- MODULE IRTranslation ----------------------------
(***************************************************************************)
(* Translation of an ANTLR parse tree to the binary IR tree                *)
(* (srcs/antlr/ir_translater.cpp, TranslateNode and ExtractOneIR).         *)
(*                                                                         *)
(* A rule node has any number of children, an IR node at most two and up   *)
(* to three strings (prefix, middle, suffix).  TranslateNode collects the  *)
(* children of a node on a stack and folds the stack: ExtractOneIR fills   *)
(* the five slots of a OneIR from the top of the stack until an item fits  *)
(* in no slot, the slots become one IR, which is pushed back, and so on    *)
(* until a single IR is left.                                              *)
(*                                                                         *)
(* A leaf of the parse tree is a terminal or a literal node, which has one *)
(* token or more.  The text of an IR is the sequence of the leaves whose   *)
(* strings and data ToString prints (prefix, left, middle, right, suffix,  *)
(* in that order), each leaf by its position in the program.  What is      *)
(* printed for a leaf is what the IR holds of it, Held: of a terminal its  *)
(* text, of a string literal its tokens without the blanks between them,   *)
(* of an integer literal the int that std::stoi reads, which for 0x1F, 010 *)
(* or 1e3 is another one.  The data type and scope type that an IR takes   *)
(* over from its rule are left out: they are constants of the rule and     *)
(* never steer the translation.                                            *)
(*                                                                         *)
(* The recursion of TranslateNode is the call stack frames; each step of   *)
(* the loops is an action.  Nothing else runs meanwhile.                   *)
(***************************************************************************)
EXTENDS Integers, Sequences

CONSTANTS
  Node,           \* rule nodes of the parse trees (RULE contexts)
  Program,        \* the nodes that parser.program() can return
  Terminal,       \* terminal nodes, <EOF> aside
  Eof,            \* the terminal whose text is "<EOF>"
  Children,       \* Children[n]: node->children
  StringLiteral,  \* nodes with ctx->isStringLiteral
  IntLiteral,     \* nodes with ctx->isIntLiteral
  IntFits,        \* those whose text std::stoi accepts
  Text,           \* texts of leaves
  Written,        \* Written[x]: the text of leaf x in the program
  getText,        \* getText[x]: the texts of its tokens, run together
  stoi,           \* stoi[n]: the int std::stoi reads in getText[n], in decimal
  kUnknown        \* the type of an IR that stands for no rule

Literal == StringLiteral \cup IntLiteral
Leaf == Terminal \cup Literal

ASSUME TreeAssumption ==
  /\ Program \subseteq Node
  /\ Node \cap (Terminal \cup {Eof}) = {}
  /\ Eof \notin Terminal
  /\ Children \in [Node -> Seq(Node \cup Terminal \cup {Eof})]
  /\ StringLiteral \cap IntLiteral = {}
  /\ Literal \subseteq Node
  /\ IntFits \subseteq IntLiteral
  /\ Written \in [Leaf -> Text]
  /\ getText \in [Leaf -> Text]
  /\ \A x \in Terminal : getText[x] = Written[x]
  /\ stoi \in [IntFits -> Text]
  /\ kUnknown \notin Node \cup Terminal \cup {Eof}

VARIABLES
  phase,   \* "collect": visiting children, "fold": ExtractOneIR, "done", "aborted"
  frames,  \* call stack of TranslateNode, the running call last
  stk,     \* stk of the running call, the top first
  slots,   \* the OneIR that ExtractOneIR is filling
  leaves,  \* history: the leaves (without <EOF>) visited so far
  result   \* what TranslateNode(program) returned

vars == <<phase, frames, stk, slots, leaves, result>>
cursor == Len(leaves)

(***************************************************************************)
(* Items: the std::variant IM, with the rule type of an IR.  A node stands *)
(* for its own rule index.  None is std::monostate and nullptr.            *)
(***************************************************************************)
Run(a, b) == [i \in 1..(b - a + 1) |-> a + i - 1]

None == [kind |-> "none", text |-> <<>>, type |-> kUnknown]
Str(p) == [kind |-> "str", text |-> <<p>>, type |-> kUnknown]
IR(text, type) == [kind |-> "ir", text |-> text, type |-> type]

\* What the IR holds of a leaf, and ToString prints for it.
Held(x) == IF x \in IntLiteral THEN stoi[x] ELSE getText[x]

Prints(ir) == [i \in 1..Len(ir.text) |-> Held(leaves[ir.text[i]])]

Item == [kind : {"none", "str", "ir"}, text : Seq(Nat),
         type : Node \cup {kUnknown}]

SlotNames == {"prefix", "left", "middle", "right", "suffix"}
EmptyOneIR == [s \in SlotNames |-> None]
Empty(s) == slots[s].kind = "none"

\* start is a history variable: the leaves visited when the call began.
\* eofs counts the <EOF> terminals under the node, which ctx->getText() prints.
Frame == [node : Node, next : Nat, tmp : Seq(Item), eofs : Nat, start : Nat]
Call(n, at) == [node |-> n, next |-> 1, tmp |-> <<>>, eofs |-> 0, start |-> at]
Top == frames[Len(frames)]
Child == Children[Top.node][Top.next]
AllVisited == Top.next > Len(Children[Top.node])

-----------------------------------------------------------------------------
(***************************************************************************)
(* ExtractOneIR: the slot an item of this kind goes to, or "full" when it  *)
(* is pushed back and the loop breaks.                                     *)
(***************************************************************************)
StringSlot ==
  IF Empty("left") /\ Empty("prefix") THEN "prefix"
  ELSE IF Empty("middle") /\ Empty("right") THEN "middle"
  ELSE IF Empty("suffix") THEN "suffix"
  ELSE "full"

\* A plausible slip: the test of op_suffix is dropped, so that a second IR is
\* taken although the suffix, printed after it, is already filled.
IRSlotIgnoresSuffix ==
  IF Empty("left") /\ Empty("middle") THEN "left"
  ELSE IF Empty("right") THEN "right"
  ELSE "full"

\* A slip: a second IR is never taken.
IRSlotLeftOnly == IF Empty("left") /\ Empty("middle") THEN "left" ELSE "full"

IRSlot ==
  IF Empty("left") /\ Empty("middle") THEN "left"
  ELSE IF Empty("right") /\ Empty("suffix") THEN "right"
  ELSE "full"

SlotFor(item) == IF item.kind = "str" THEN StringSlot ELSE IRSlot

-----------------------------------------------------------------------------
Init ==
  /\ phase = "collect"
  /\ \E n \in Program : frames = <<Call(n, 0)>>
  /\ stk = <<>>
  /\ slots = EmptyOneIR
  /\ leaves = <<>>
  /\ result = None

(***************************************************************************)
(* The running call returns item (None is nullptr) to its caller, which    *)
(* keeps it unless it is null and goes on with the next child.  visited    *)
(* are the leaves visited when the call returns.                           *)
(***************************************************************************)
Return(item, visited) ==
  LET m == Len(frames) - 1 IN
  /\ stk' = <<>>
  /\ slots' = EmptyOneIR
  /\ leaves' = visited
  /\ \/ /\ m = 0
        /\ frames' = <<>>
        /\ result' = item
        /\ phase' = "done"
     \/ /\ m > 0
        /\ frames' = [i \in 1..m |->
             IF i < m THEN frames[i]
             ELSE [frames[m] EXCEPT
                     !.next = @ + 1,
                     !.eofs = @ + Top.eofs,
                     !.tmp = IF item.kind = "none" THEN @ ELSE Append(@, item)]]
        /\ phase' = "collect"
        /\ UNCHANGED result

\* A string literal, or an integer literal std::stoi accepts, is one leaf IR.
TranslateLiteral ==
  /\ phase = "collect"
  /\ Top.node \in StringLiteral \cup IntFits
  /\ Return(IR(<<cursor + 1>>, Top.node), Append(leaves, Top.node))

\* std::stoi throws std::out_of_range; TranslateToIR catches only
\* antlr4::IllegalArgumentException, so the process ends.
StoiThrows ==
  /\ phase = "collect"
  /\ Top.node \in IntLiteral \ IntFits
  /\ phase' = "aborted"
  /\ UNCHANGED <<frames, stk, slots, leaves, result>>

\* The next child is a terminal: its text is pushed unless it is <EOF>.
VisitTerminal ==
  /\ phase = "collect"
  /\ Top.node \notin Literal
  /\ ~AllVisited
  /\ Child \notin Node
  /\ LET keep == Child # Eof IN
     /\ frames' = [frames EXCEPT ![Len(frames)] =
          [Top EXCEPT !.next = @ + 1,
                      !.eofs = IF keep THEN @ ELSE @ + 1,
                      !.tmp = IF keep THEN Append(@, Str(cursor + 1)) ELSE @]]
     /\ leaves' = IF keep THEN Append(leaves, Child) ELSE leaves
  /\ UNCHANGED <<phase, stk, slots, result>>

\* The next child is a rule node: the recursive call.
VisitRule ==
  /\ phase = "collect"
  /\ Top.node \notin Literal
  /\ ~AllVisited
  /\ Child \in Node
  /\ frames' = Append(frames, Call(Child, cursor))
  /\ UNCHANGED <<phase, stk, slots, leaves, result>>

\* No child, or only children that returned nullptr and at most one <EOF>.
ReturnNull ==
  /\ phase = "collect"
  /\ Top.node \notin Literal
  /\ AllVisited
  /\ Top.tmp = <<>>
  /\ Top.eofs <= 1
  /\ Return(None, leaves)

\* assert(!tmp_stk.empty()): the text of the node is neither empty nor "<EOF>",
\* yet nothing was collected, which takes two <EOF> terminals.
NothingCollected ==
  /\ phase = "collect"
  /\ Top.node \notin Literal
  /\ AllVisited
  /\ Top.tmp = <<>>
  /\ Top.eofs > 1
  /\ phase' = "aborted"
  /\ UNCHANGED <<frames, stk, slots, leaves, result>>

\* tmp_stk is turned over into stk, first child on top, and the fold begins.
StartFold ==
  /\ phase = "collect"
  /\ Top.node \notin Literal
  /\ AllVisited
  /\ Top.tmp # <<>>
  /\ stk' = Top.tmp
  /\ slots' = EmptyOneIR
  /\ phase' = "fold"
  /\ UNCHANGED <<frames, leaves, result>>

CanPop == stk # <<>> /\ SlotFor(stk[1]) # "full"

\* One turn of the loop of ExtractOneIR that takes an item.
PopItem ==
  /\ phase = "fold"
  /\ CanPop
  /\ slots' = [slots EXCEPT ![SlotFor(stk[1])] = stk[1]]
  /\ stk' = Tail(stk)
  /\ UNCHANGED <<phase, frames, leaves, result>>

\* A slip: the suffix is not printed.
TextWithoutSuffix ==
  slots["prefix"].text \o slots["left"].text \o slots["middle"].text
    \o slots["right"].text

\* The text that ToString prints for the IR made of the filled slots.
OneIRText ==
  slots["prefix"].text \o slots["left"].text \o slots["middle"].text
    \o slots["right"].text \o slots["suffix"].text

\* ExtractOneIR stopped with items left: an IR of unknown type goes back.
PushUnknownIR ==
  /\ phase = "fold"
  /\ ~CanPop
  /\ stk # <<>>
  /\ stk' = <<IR(OneIRText, kUnknown)>> \o stk
  /\ slots' = EmptyOneIR
  /\ UNCHANGED <<phase, frames, leaves, result>>

\* ExtractOneIR emptied the stack: the IR gets the type of the rule and is
\* returned.
ReturnRuleIR ==
  /\ phase = "fold"
  /\ stk = <<>>
  /\ Return(IR(OneIRText, Top.node), leaves)

Next ==
  \/ TranslateLiteral
  \/ StoiThrows
  \/ VisitTerminal
  \/ VisitRule
  \/ ReturnNull
  \/ NothingCollected
  \/ StartFold
  \/ PopItem
  \/ PushUnknownIR
  \/ ReturnRuleIR

Spec == Init /\ [][Next]_vars
FairSpec == Spec /\ WF_vars(Next)

-----------------------------------------------------------------------------
TypeOK ==
  /\ phase \in {"collect", "fold", "done", "aborted"}
  /\ frames \in Seq(Frame)
  /\ stk \in Seq(Item)
  /\ slots \in [SlotNames -> Item]
  /\ leaves \in Seq(Leaf)
  /\ result \in Item

First(x) == x.text[1]
Last(x) == x.text[Len(x.text)]
IsRun(x) ==
  /\ x.kind # "none"
  /\ x.text # <<>>
  /\ x.text = Run(First(x), Last(x))

\* The items of s print the leaves a+1..b, in order, each leaf once.
Tiles(s, a, b) ==
  /\ \A i \in 1..Len(s) : IsRun(s[i])
  /\ \A i \in 1..Len(s) - 1 : First(s[i + 1]) = Last(s[i]) + 1
  /\ IF s = <<>> THEN a = b ELSE First(s[1]) = a + 1 /\ Last(s[Len(s)]) = b

\* A slot is empty, or prints a run of leaves that begins after leaf at.
FitsAt(x, at) == IF x.kind = "none" THEN x = None ELSE IsRun(x) /\ First(x) = at + 1
EndOf(x, at) == IF x.kind = "none" THEN at ELSE Last(x)

\* The slots, in the order ToString prints them, tile the leaves a+1..b.
SlotsTile(a, b) ==
  LET e1 == EndOf(slots["prefix"], a)
      e2 == EndOf(slots["left"], e1)
      e3 == EndOf(slots["middle"], e2)
      e4 == EndOf(slots["right"], e3)
      e5 == EndOf(slots["suffix"], e4)
  IN /\ FitsAt(slots["prefix"], a)
     /\ FitsAt(slots["left"], e1)
     /\ FitsAt(slots["middle"], e2)
     /\ FitsAt(slots["right"], e3)
     /\ FitsAt(slots["suffix"], e4)
     /\ e5 = b

\* The last leaf that the filled slots stand for.
Mid == IF stk = <<>> THEN cursor ELSE First(stk[1]) - 1

\* The leaves visited so far when the call that frames[i] waits for began.
CallEnd(i) == IF i < Len(frames) THEN frames[i + 1].start ELSE cursor

(***************************************************************************)
(* Every leaf visited so far is held exactly once, in order: the items     *)
(* each suspended TranslateNode call has collected tile the leaves between *)
(* its own start and the start of the call it waits for, and, while        *)
(* ExtractOneIR runs, the slots followed by the stack tile the leaves of   *)
(* the running call.  A token dropped, doubled or moved across another by  *)
(* the slot rules breaks it.                                               *)
(***************************************************************************)
TokensHeldInOrder ==
  /\ \A i \in 1..Len(frames) :
       Tiles(frames[i].tmp, frames[i].start, CallEnd(i))
  /\ phase = "fold" => SlotsTile(Top.start, Mid) /\ Tiles(stk, Mid, cursor)

(***************************************************************************)
(* nullptr is returned exactly for a program without tokens.  The IR       *)
(* returned for any other prints every leaf of the program once, in order: *)
(* every token outside the literals as it is written, the tokens of a      *)
(* string literal run together, and for an integer literal the value that  *)
(* std::stoi reads.  Where the literals come back as written, so does the  *)
(* program.                                                                *)
(***************************************************************************)
YieldPreserved ==
  phase = "done" =>
    /\ result.kind = "none" <=> leaves = <<>>
    /\ result.text = Run(1, Len(leaves))
    /\ \A i \in DOMAIN leaves :
         Prints(result)[i] =
           IF leaves[i] \in Terminal THEN Written[leaves[i]]
           ELSE IF leaves[i] \in StringLiteral THEN getText[leaves[i]]
           ELSE stoi[leaves[i]]
    /\ (\A i \in DOMAIN leaves : Held(leaves[i]) = Written[leaves[i]]) =>
         Prints(result) = [i \in DOMAIN leaves |-> Written[leaves[i]]]

(***************************************************************************)
(* Whenever ExtractOneIR stops before the stack is empty it has taken at   *)
(* least two items, so that the do-while loop of TranslateNode, which puts *)
(* one back, makes progress.                                               *)
(***************************************************************************)
FoldTakesTwo ==
  phase = "fold" /\ stk # <<>> /\ ~CanPop =>
    \E s, t \in SlotNames : s # t /\ ~Empty(s) /\ ~Empty(t)

(***************************************************************************)
(* An IR that TranslateNode hands to its caller carries the type of a      *)
(* child rule; an IR of type kUnknown only exists inside the fold of one   *)
(* node, below an IR that has that node's type.  The mutator relies on it: *)
(* it replaces typed IRs and skips the unknown ones.                       *)
(***************************************************************************)
RuleIRsTyped ==
  /\ \A i \in 1..Len(frames) : \A k \in 1..Len(frames[i].tmp) :
       frames[i].tmp[k].kind = "ir" =>
         \E c \in 1..Len(Children[frames[i].node]) :
           frames[i].tmp[k].type = Children[frames[i].node][c]
  /\ \A k \in 2..Len(stk) : stk[k].kind = "ir" => stk[k].type # kUnknown
  /\ result.kind = "ir" => result.type \in Program

(***************************************************************************)
(* TranslateNode terminates on every parse tree.                           *)
(***************************************************************************)
Termination == <>(phase \in {"done", "aborted"})
=============================================================================
