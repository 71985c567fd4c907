---------------------------- MODULE ConsoleProof ----------------------------
(***************************************************************************)
(* For every heap, every set of layouts and any number of prints,          *)
(* allocations, exceptions and panics: blocks are apart and aligned,       *)
(* panics over the writer and the allocator have their causes, and lines   *)
(* are whole.                                                              *)
(***************************************************************************)
EXTENDS Console, SequenceTheorems, TLAPS

Activities ==
  [who : {"program", "interrupt", "abort", "panic"}, todo : Seq({"steal", "println", "panic"}),
   doing : {"run", "text", "newline", "stolen", "alloc", "message", "end", "reboot"},
   section : BOOLEAN, number : Int, layout : Layouts \cup {NoLayout}, seen : Nat]

Blocks == [start : Nat, size : Nat, align : Nat \ {0}]

TypeInv ==
  /\ stack \in Seq(Activities) /\ Len(stack) >= 1
  /\ writer \in {"none", "free", "held"} /\ borrowed \in BOOLEAN
  /\ used \in Nat /\ blocks \in Seq(Blocks)
  /\ prints \in Int /\ panics \in Int

\* Up to the first panic; after it nothing but panics runs.
Live == Top.who # "panic"

Printing(activity) == activity.doing \in {"text", "newline"}
Allocating(activity) == activity.doing = "alloc"

\* Who is above whom.
StackInv ==
  /\ stack[1].who = "program"
  /\ Live => Len(stack) <= 2
  /\ Live /\ Len(stack) = 2 => stack[2].who \in {"interrupt", "abort"}
  /\ ~Live => Len(stack) >= 2 /\ Top.doing \in {"run", "message", "end", "reboot"}

\* The writer is borrowed by a print, and an interrupt comes when none runs.
WriterInv ==
  /\ Live /\ writer = "held" => \E k \in 1 .. Len(stack) : Printing(stack[k])
  /\ Printing(stack[1]) => stack[1].section
  /\ Printing(stack[1]) /\ Len(stack) >= 2 => stack[2].who \in {"abort", "panic"}

\* At most one activity allocates: what it saw used still is.
AllocInv ==
  Live =>
    /\ borrowed => \E k \in 1 .. Len(stack) : Allocating(stack[k])
    /\ \A k \in 1 .. Len(stack) : Allocating(stack[k]) => borrowed /\ stack[k].seen = used
    /\ \A j, k \in 1 .. Len(stack) : Allocating(stack[j]) /\ Allocating(stack[k]) => j = k

\* Blocks fill the heap up to what is used, which has every alignment that all have.
BlocksInv ==
  /\ used <= Heap
  /\ blocks = <<>> => used = 0
  /\ \A i \in 1 .. Len(blocks) : blocks[i].start + blocks[i].size <= used
  /\ \A a \in Nat \ {0} : (\A i \in 1 .. Len(blocks) : blocks[i].size % a = 0) => used % a = 0
  /\ HeapSound

\* A layout that the heap cannot hold is not asked for.
Fitting == \A l \in Layouts : l.size <= Heap

\* The activities that a panic's cause is about stay where they were.
CauseInv ==
  /\ cause # "none" => ~Live
  /\ cause = "writer" =>
       \E k \in 1 .. Len(stack) - 1 :
         Printing(stack[k]) /\ stack[k + 1].who \in {"panic", "abort"}
  /\ cause = "allocator" => Allocating(stack[1]) /\ stack[2].who = "interrupt"
  /\ cause = "exhausted" /\ Fitting => blocks # <<>>

Inv == TypeInv /\ StackInv /\ WriterInv /\ AllocInv /\ BlocksInv /\ CauseInv

-----------------------------------------------------------------------------
(* The output.                                                             *)

Tokens == {"text", "newline", "steal", "stolen", "message", "DONE!!!"} \X Int

\* The text of print n has no end of line yet.
Open(s, n) ==
  \E j \in DOMAIN s : s[j] = <<"text", n>> /\ \A i \in DOMAIN s : i > j => Stolen(s[i])

\* Up to the first panic one activity prints, the one that holds the writer,
HeldInv ==
  Live =>
    /\ \A k \in 1 .. Len(stack) : Printing(stack[k]) => writer = "held"
    /\ \A j, k \in 1 .. Len(stack) : Printing(stack[j]) /\ Printing(stack[k]) => j = k

\* and a line is open if its end is what that activity writes next.  A panic's message
\* comes after whatever was open.
OpenInv ==
  /\ Live =>
       /\ \A k \in 1 .. Len(stack) :
            stack[k].doing = "newline" => Open(Output, stack[k].number)
       /\ \A n \in Int : Open(Output, n) => \E k \in 1 .. Len(stack) : stack[k].doing = "newline"
  /\ ~Live /\ Top.doing \in {"end", "reboot"} => \A n \in Int : ~Open(Output, n)

OutputType == line \in Seq(Tokens) /\ fifo \in Seq(Tokens) /\ exceptions \in Int

LinesInv == OutputType /\ WholeLines /\ HeldInv /\ OpenInv

-----------------------------------------------------------------------------
(* Multiples.                                                              *)

\* A remainder that is a multiple is none.
LEMMA NoRemainder ==
  ASSUME NEW a \in Nat \ {0}, NEW k \in Int, NEW r \in Int, 0 <= r, r < a, r = a * k
  PROVE  r = 0
<1>1. CASE k >= 1
  <2>1. a * k >= a
    BY <1>1
  <2> QED
    BY <2>1
<1>2. CASE k <= -1
  <2>1. a * k <= -a
    BY <1>2
  <2> QED
    BY <2>1
<1>3. CASE k = 0
  BY <1>3
<1> QED
  BY <1>1, <1>2, <1>3

\* The sum of multiples is one.
LEMMA Multiples ==
  ASSUME NEW a \in Nat \ {0}, NEW x \in Nat, NEW y \in Nat, x % a = 0, y % a = 0
  PROVE  (x + y) % a = 0
<1> DEFINE r == (x + y) % a
           p == x \div a
           q == y \div a
           s == (x + y) \div a
<1>1. x = a * p /\ y = a * q /\ p \in Int /\ q \in Int
  OBVIOUS
<1>2. x + y = a * s + r /\ s \in Int /\ 0 <= r /\ r < a /\ r \in Int
  OBVIOUS
<1> HIDE DEF p, q, s, r
<1>3. a * (p + q - s) = a * p + a * q - a * s
  BY <1>1, <1>2
<1>4. r = a * (p + q - s) /\ p + q - s \in Int
  BY <1>1, <1>2, <1>3
<1>5. r = 0
  BY <1>2, <1>4, NoRemainder
<1> QED
  BY <1>5 DEF r

-----------------------------------------------------------------------------
(* The stack.                                                              *)

\* The one that runs changes.
LEMMA Becoming ==
  ASSUME TypeInv, NEW a \in Activities, Becomes(a)
  PROVE  /\ stack' \in Seq(Activities) /\ Len(stack') = Len(stack) /\ Top' = a
         /\ stack'[Len(stack)] = a
         /\ \A k \in 1 .. Len(stack) - 1 : stack'[k] = stack[k]
<1>1. Below \in Seq(Activities) /\ Len(Below) = Len(stack) - 1
      /\ \A k \in 1 .. Len(stack) - 1 : Below[k] = stack[k]
  <2>1. stack \in Seq(Activities) /\ Len(stack) \in Nat /\ Len(stack) >= 1
    BY DEF TypeInv
  <2>2. \A k \in 1 .. Len(stack) - 1 : stack[k] \in Activities
    BY <2>1
  <2> DEFINE n == Len(stack) - 1
  <2>0. n \in Nat
    BY <2>1
  <2>3. n - 1 + 1 = n /\ (IF 1 <= n THEN n - 1 + 1 ELSE 0) = n
        /\ \A i \in 1 .. n : 1 + i - 1 = i
    <3> HIDE DEF n
    <3> QED
      BY <2>0
  <2>4. SubSeq(stack, 1, n) \in Seq(Activities) /\ Len(SubSeq(stack, 1, n)) = n
        /\ \A i \in 1 .. n : SubSeq(stack, 1, n)[i] = stack[1 + i - 1]
    <3> HIDE DEF n
    <3>1. \A i \in 1 .. n : stack[i] \in Activities
      BY <2>2 DEF n
    <3> QED
      BY <2>0, <2>3, <3>1, SubSeqProperties
  <2> QED
    BY <2>0, <2>3, <2>4 DEF Below
<1>2. stack' = Append(Below, a)
  BY DEF Becomes
<1> HIDE DEF Below
<1> QED
  BY <1>1, <1>2 DEF Top, TypeInv

\* Another one runs over it.
LEMMA Pushing ==
  ASSUME TypeInv, NEW a \in Activities, Push(a)
  PROVE  /\ stack' \in Seq(Activities) /\ Len(stack') = Len(stack) + 1 /\ Top' = a
         /\ stack'[Len(stack) + 1] = a
         /\ \A k \in 1 .. Len(stack) : stack'[k] = stack[k]
BY DEF TypeInv, Push, Top

\* The one below goes on.
LEMMA Popping ==
  ASSUME TypeInv, Len(stack) = 2, Pop
  PROVE  /\ stack' \in Seq(Activities) /\ Len(stack') = 1 /\ Top' = stack[1]
         /\ stack'[1] = stack[1]
<1>1. stack \in Seq(Activities) /\ stack' = SubSeq(stack, 1, 1)
  BY DEF TypeInv, Pop, Below
<1>2. \A k \in 1 .. 1 : stack[k] \in Activities
  BY <1>1
<1>3. stack' \in Seq(Activities) /\ Len(stack') = 1 /\ stack'[1] = stack[1]
  BY <1>1, <1>2, SubSeqProperties
<1> QED
  BY <1>3 DEF Top

Doings == {"run", "text", "newline", "stolen", "alloc", "message", "end", "reboot"}

\* What becomes of an activity that does something else,
LEMMA Doing ==
  ASSUME NEW t \in Activities, NEW d \in Doings
  PROVE  /\ [t EXCEPT !.doing = d] \in Activities
         /\ [t EXCEPT !.doing = d].who = t.who
         /\ [t EXCEPT !.doing = d].doing = d
         /\ [t EXCEPT !.doing = d].section = t.section
BY DEF Activities, Doings

\* that prints,
LEMMA Texting ==
  ASSUME NEW t \in Activities, NEW n \in Int
  PROVE  /\ [t EXCEPT !.doing = "text", !.section = TRUE, !.number = n] \in Activities
         /\ [t EXCEPT !.doing = "text", !.section = TRUE, !.number = n].who = t.who
         /\ [t EXCEPT !.doing = "text", !.section = TRUE, !.number = n].doing = "text"
         /\ [t EXCEPT !.doing = "text", !.section = TRUE, !.number = n].section = TRUE
BY DEF Activities

\* or has done what it was doing.
LEMMA Finishing ==
  ASSUME TypeInv
  PROVE  Done \in Activities /\ Done.who = Top.who /\ Done.doing = "run"
<1> DEFINE todo == IF Top.todo = <<>> THEN <<>> ELSE Tail(Top.todo)
<1>1. Top \in Activities
  BY DEF TypeInv, Top
<1>2. todo \in Seq({"steal", "println", "panic"})
  BY <1>1 DEF Activities
<1>3. Done = [Top EXCEPT !.doing = "run", !.section = FALSE, !.todo = todo]
  BY DEF Done
<1> HIDE DEF todo
<1> QED
  BY <1>1, <1>2, <1>3 DEF Activities

-----------------------------------------------------------------------------
(* Steps.                                                                  *)

LEMMA InitInv == Init => Inv
<1> SUFFICES ASSUME Init
             PROVE  Inv
  OBVIOUS
<1> DEFINE a == Activity("program", <<>>)
<1>1. a \in Activities /\ a.who = "program" /\ a.doing = "run"
  BY DEF Activity, Activities
<1>2. stack = <<a>> /\ HeapInit /\ writer = "none" /\ prints = 0 /\ panics = 0 /\ cause = "none"
  BY DEF Init
<1> HIDE DEF a
<1>3. stack \in Seq(Activities) /\ Len(stack) = 1 /\ stack[1] = a /\ Top = a
  BY <1>1, <1>2 DEF Top
<1>4. used = 0 /\ borrowed = FALSE /\ blocks = <<>>
  BY <1>2 DEF HeapInit
<1>5. TypeInv
  <2>1. blocks \in Seq(Blocks) /\ used \in Nat
    BY <1>4
  <2>2. borrowed \in BOOLEAN
    BY <1>4, Zenon
  <2> QED
    BY <1>2, <1>3, <2>1, <2>2 DEF TypeInv
<1>6. StackInv /\ WriterInv
  BY <1>1, <1>2, <1>3 DEF StackInv, WriterInv, Live, Printing
<1>7. AllocInv
  BY <1>1, <1>3, <1>4 DEF AllocInv, Allocating
<1>8. BlocksInv
  <2>1. \A n \in Nat \ {0} : 0 % n = 0
    OBVIOUS
  <2> QED
    BY <1>4, <2>1, HeapAssumption DEF BlocksInv, HeapSound
<1>9. CauseInv
  BY <1>2 DEF CauseInv
<1> QED
  BY <1>5, <1>6, <1>7, <1>8, <1>9 DEF Inv

\* What runs was what Top says, and is an activity.
LEMMA Running ==
  ASSUME Inv
  PROVE  /\ Top \in Activities /\ Len(stack) \in Nat /\ Len(stack) >= 1
         /\ Top = stack[Len(stack)]
         /\ \A k \in 1 .. Len(stack) : stack[k] \in Activities
BY DEF Inv, TypeInv, Top

\* No panic does what the other activities do.
LEMMA Working ==
  ASSUME Inv,
         Top.doing \in {"text", "newline", "stolen", "alloc"}
           \/ Top.who \in {"program", "interrupt", "abort"} \/ Len(stack) = 1
  PROVE  Live /\ cause = "none" /\ Len(stack) \in {1, 2}
<1>1. Live
  BY Running DEF Inv, StackInv, Live
<1>2. Len(stack) <= 2 /\ cause = "none"
  BY <1>1 DEF Inv, StackInv, CauseInv
<1>3. Len(stack) \in Nat /\ Len(stack) >= 1
  BY Running
<1>4. Len(stack) \in {1, 2}
  <2>1. \A n \in Nat : n >= 1 /\ n <= 2 => n \in {1, 2}
    OBVIOUS
  <2> QED
    BY <1>2, <1>3, <2>1
<1> QED
  BY <1>1, <1>2, <1>4

\* A block that is allocated leaves the blocks apart and aligned.
LEMMA BumpBlocks ==
  ASSUME Inv, NEW layout \in Layouts \cup {NoLayout}, Bump(layout, used)
  PROVE  BlocksInv' /\ used' \in Nat /\ blocks' \in Seq(Blocks) /\ blocks' # <<>>
<1> DEFINE b == [start |-> used, size |-> layout.size, align |-> layout.align]
           n == Len(blocks)
<1>1. layout.size \in Nat /\ layout.align \in Nat \ {0} /\ used \in Nat /\ blocks \in Seq(Blocks)
  BY HeapAssumption DEF Inv, TypeInv, NoLayout
<1>2. b \in Blocks /\ b.start = used /\ b.size = layout.size /\ b.align = layout.align
  BY <1>1 DEF Blocks
<1>3. used + layout.size <= Heap /\ used' = used + layout.size /\ blocks' = Append(blocks, b)
  BY DEF Bump, Fits
<1> HIDE DEF b
<1>4. /\ blocks' \in Seq(Blocks) /\ Len(blocks') = n + 1 /\ n \in Nat /\ blocks'[n + 1] = b
      /\ \A i \in 1 .. n : blocks'[i] = blocks[i] /\ blocks[i] \in Blocks
  BY <1>1, <1>2, <1>3
<1>5. \A i \in 1 .. n : blocks[i].start + blocks[i].size <= used
  BY DEF Inv, BlocksInv
<1>6. \A a \in Nat \ {0} : (\A i \in 1 .. n : blocks[i].size % a = 0) => used % a = 0
  BY DEF Inv, BlocksInv
<1>7. \A i \in 1 .. n + 1 : blocks'[i].start + blocks'[i].size <= used'
  <2>1. \A i \in 1 .. n : blocks'[i].start + blocks'[i].size <= used
    BY <1>4, <1>5
  <2>2. \A i \in 1 .. n : blocks'[i].start \in Nat /\ blocks'[i].size \in Nat
    BY <1>4 DEF Blocks
  <2>3. blocks'[n + 1].start + blocks'[n + 1].size = used'
    BY <1>2, <1>3, <1>4
  <2> QED
    BY <1>1, <1>3, <1>4, <2>1, <2>2, <2>3
<1>8. ASSUME NEW a \in Nat \ {0}, \A i \in 1 .. n + 1 : blocks'[i].size % a = 0
      PROVE  used' % a = 0
  <2>1. used % a = 0
    BY <1>4, <1>6, <1>8
  <2>2. layout.size % a = 0
    BY <1>2, <1>4, <1>8
  <2> QED
    BY <1>1, <1>3, <2>1, <2>2, Multiples
<1>9. HeapSound'
  <2> SUFFICES ASSUME NEW i \in 1 .. n + 1
               PROVE  LET c == blocks'[i]
                      IN /\ c.start >= 0 /\ c.start + c.size <= Heap
                         /\ \A j \in 1 .. i - 1 : blocks'[j].start + blocks'[j].size <= c.start
                         /\ (\A j \in 1 .. i - 1 : blocks'[j].size % c.align = 0)
                              => c.start % c.align = 0
    BY <1>4 DEF HeapSound
  <2>1. CASE i = n + 1
    <3>1. \A j \in 1 .. n : blocks'[j].start + blocks'[j].size <= used
      BY <1>4, <1>5
    <3>2. (\A j \in 1 .. n : blocks'[j].size % b.align = 0) => used % b.align = 0
      BY <1>1, <1>2, <1>4, <1>6
    <3> QED
      BY <1>1, <1>2, <1>3, <1>4, <2>1, <3>1, <3>2
  <2>2. CASE i \in 1 .. n
    <3>1. /\ blocks[i].start >= 0 /\ blocks[i].start + blocks[i].size <= Heap
          /\ \A j \in 1 .. i - 1 : blocks[j].start + blocks[j].size <= blocks[i].start
          /\ (\A j \in 1 .. i - 1 : blocks[j].size % blocks[i].align = 0)
               => blocks[i].start % blocks[i].align = 0
      BY <1>1, <2>2 DEF Inv, BlocksInv, HeapSound
    <3>2. blocks'[i] = blocks[i] /\ \A j \in 1 .. i - 1 : blocks'[j] = blocks[j]
      BY <1>4, <2>2
    <3> QED
      BY <3>1, <3>2
  <2> QED
    BY <1>4, <2>1, <2>2
<1>10. used' \in Nat /\ used' <= Heap /\ blocks' # <<>>
  BY <1>1, <1>3, <1>4
<1>11. \A a \in Nat \ {0} : (\A i \in 1 .. Len(blocks') : blocks'[i].size % a = 0) => used' % a = 0
  BY <1>4, <1>8
<1> QED
  BY <1>4, <1>7, <1>9, <1>10, <1>11 DEF BlocksInv

\* What runs changes and stays what it is; a print that it ends gives the writer back.
LEMMA BecomesStep ==
  ASSUME Inv, NEW a \in Activities, Becomes(a), a.who = Top.who,
         Live \/ a.doing \in {"run", "message", "end", "reboot"},
         Len(stack) = 1 /\ Printing(a) => a.section,
         writer' \in {"none", "free", "held"},
         Live /\ writer' = "held" => Printing(a) \/ (writer = "held" /\ ~Printing(Top)),
         prints' \in Int, panics' \in Int, cause' = cause,
         used' \in Nat, borrowed' \in BOOLEAN, blocks' \in Seq(Blocks),
         blocks # <<>> => blocks' # <<>>,
         AllocInv', BlocksInv'
  PROVE  Inv'
<1> DEFINE n == Len(stack)
<1>1. /\ n \in Nat /\ n >= 1 /\ Top = stack[n]
      /\ stack' \in Seq(Activities) /\ Len(stack') = n /\ Top' = a /\ stack'[n] = a
      /\ \A k \in 1 .. n - 1 : stack'[k] = stack[k]
  BY Running, Becoming DEF Inv
<1>2. \A k \in 1 .. n : stack'[k].who = stack[k].who
  BY <1>1
<1>3. Live' <=> Live
  BY <1>1 DEF Live
<1>4. TypeInv'
  BY <1>1 DEF TypeInv
<1> HIDE DEF n
<1>5. StackInv'
  BY <1>1, <1>2, <1>3 DEF n, Inv, StackInv, Live
<1>6. WriterInv'
  <2>1. ASSUME Live, writer' = "held"
        PROVE  \E k \in 1 .. n : Printing(stack'[k])
    <3>1. CASE Printing(a)
      BY <1>1, <3>1
    <3>2. CASE writer = "held" /\ ~Printing(Top)
      <4>1. PICK k \in 1 .. n : Printing(stack[k])
        BY <2>1, <3>2 DEF n, Inv, WriterInv
      <4>2. k \in 1 .. n - 1
        BY <1>1, <3>2, <4>1
      <4> QED
        BY <1>1, <4>1, <4>2
    <3> QED
      BY <2>1, <3>1, <3>2
  <2>2. Printing(stack'[1]) => stack'[1].section
    <3>1. CASE n = 1
      BY <1>1, <3>1 DEF n
    <3>2. CASE n > 1
      BY <1>1, <3>2 DEF Inv, WriterInv
    <3> QED
      BY <1>1, <3>1, <3>2
  <2>3. Printing(stack'[1]) /\ n >= 2 => stack'[2].who \in {"abort", "panic"}
    BY <1>1, <1>2 DEF n, Inv, WriterInv
  <2> QED
    BY <1>1, <1>3, <2>1, <2>2, <2>3 DEF n, WriterInv
<1>7. CauseInv'
  <2>1. cause' # "none" => ~Live'
    BY <1>3 DEF Inv, CauseInv
  <2>2. cause = "writer" =>
          \E k \in 1 .. n - 1 : Printing(stack'[k]) /\ stack'[k + 1].who \in {"panic", "abort"}
    <3> SUFFICES ASSUME cause = "writer"
                 PROVE  \E k \in 1 .. n - 1 :
                          Printing(stack'[k]) /\ stack'[k + 1].who \in {"panic", "abort"}
      OBVIOUS
    <3>1. PICK k \in 1 .. n - 1 : Printing(stack[k]) /\ stack[k + 1].who \in {"panic", "abort"}
      BY DEF n, Inv, CauseInv
    <3>2. k + 1 \in 1 .. n /\ stack'[k] = stack[k] /\ stack'[k + 1].who = stack[k + 1].who
      BY <1>1, <1>2, <3>1
    <3> QED
      BY <3>1, <3>2
  <2>3. cause = "allocator" => Allocating(stack'[1]) /\ stack'[2].who = "interrupt"
    <3> SUFFICES ASSUME cause = "allocator"
                 PROVE  Allocating(stack'[1]) /\ stack'[2].who = "interrupt"
      OBVIOUS
    <3>1. ~Live /\ Allocating(stack[1]) /\ stack[2].who = "interrupt"
      BY DEF Inv, CauseInv
    <3>2. n >= 2
      BY <3>1 DEF n, Inv, StackInv
    <3> QED
      BY <1>1, <1>2, <3>1, <3>2
  <2>4. cause = "exhausted" /\ Fitting => blocks' # <<>>
    BY DEF Inv, CauseInv
  <2> QED
    BY <1>1, <2>1, <2>2, <2>3, <2>4 DEF n, CauseInv
<1> QED
  BY <1>4, <1>5, <1>6, <1>7 DEF Inv

\* An allocation that goes on elsewhere.
LEMMA AllocKept ==
  ASSUME Inv, NEW a \in Activities, Becomes(a), UNCHANGED heapVars, a.who = Top.who,
         Allocating(a) => Allocating(Top) /\ a.seen = Top.seen, Allocating(Top) => Allocating(a)
  PROVE  AllocInv' /\ BlocksInv'
<1>1. BlocksInv'
  BY DEF heapVars, Inv, BlocksInv, HeapSound
<1> DEFINE n == Len(stack)
<1>2. /\ n \in Nat /\ n >= 1 /\ Top = stack[n]
      /\ Len(stack') = n /\ Top' = a /\ stack'[n] = a
      /\ \A k \in 1 .. n - 1 : stack'[k] = stack[k]
  BY Running, Becoming DEF Inv
<1>3. \A k \in 1 .. n : /\ Allocating(stack'[k]) <=> Allocating(stack[k])
                        /\ Allocating(stack[k]) => stack'[k].seen = stack[k].seen
  BY <1>2
<1> HIDE DEF n
<1>4. AllocInv'
  <2> SUFFICES ASSUME Live'
               PROVE  /\ borrowed' => \E k \in 1 .. n : Allocating(stack'[k])
                      /\ \A k \in 1 .. n :
                           Allocating(stack'[k]) => borrowed' /\ stack'[k].seen = used'
                      /\ \A j, k \in 1 .. n :
                           Allocating(stack'[j]) /\ Allocating(stack'[k]) => j = k
    BY <1>2 DEF AllocInv
  <2>1. Live /\ borrowed' = borrowed /\ used' = used
    BY <1>2 DEF Live, heapVars
  <2> QED
    BY <1>3, <2>1 DEF n, Inv, AllocInv
<1> QED
  BY <1>1, <1>4

\* A panic goes over whatever runs.
LEMMA PanicOver ==
  ASSUME Inv, NEW a \in Activities, Push(a), a.who = "panic", a.doing = "run",
         prints' \in Int, panics' \in Int, writer' = writer,
         used' = used, blocks' = blocks, borrowed' \in BOOLEAN,
         cause' = cause \/ (Live /\ (
           \/ cause' = "asked"
           \/ cause' = "writer" /\ writer = "held" /\ Top.doing = "run" /\ Top.who # "panic"
           \/ cause' = "writer" /\ Printing(Top)
           \/ cause' = "allocator" /\ borrowed /\ Top.doing = "run" /\ Top.who # "abort"
           \/ cause' = "exhausted" /\ (Fitting => blocks # <<>>)))
  PROVE  Inv'
<1> DEFINE n == Len(stack)
<1>1. /\ n \in Nat /\ n >= 1 /\ Top = stack[n]
      /\ stack' \in Seq(Activities) /\ Len(stack') = n + 1 /\ Top' = a /\ stack'[n + 1] = a
      /\ \A k \in 1 .. n : stack'[k] = stack[k]
  BY Running, Pushing DEF Inv
<1>2. ~Live'
  BY <1>1 DEF Live
<1>3. TypeInv'
  BY <1>1 DEF Inv, TypeInv
<1>4. stack'[1] = stack[1] /\ (n >= 2 => stack'[2] = stack[2]) /\ (n = 1 => stack'[2] = a)
  BY <1>1
<1> HIDE DEF n
<1>5. StackInv'
  BY <1>1, <1>2, <1>4 DEF Inv, StackInv
<1>6. WriterInv'
  BY <1>1, <1>2, <1>4 DEF n, Inv, WriterInv
<1>7. AllocInv' /\ BlocksInv'
  BY <1>2 DEF Inv, AllocInv, BlocksInv, HeapSound
<1>8. CauseInv'
  <2>1. CASE cause' = cause
    <3>1. cause = "writer" =>
            \E k \in 1 .. n : Printing(stack'[k]) /\ stack'[k + 1].who \in {"panic", "abort"}
      <4> SUFFICES ASSUME cause = "writer"
                   PROVE  \E k \in 1 .. n :
                            Printing(stack'[k]) /\ stack'[k + 1].who \in {"panic", "abort"}
        OBVIOUS
      <4>1. PICK k \in 1 .. n - 1 : Printing(stack[k]) /\ stack[k + 1].who \in {"panic", "abort"}
        BY DEF n, Inv, CauseInv
      <4>2. k \in 1 .. n /\ stack'[k] = stack[k] /\ stack'[k + 1] = stack[k + 1]
        BY <1>1, <4>1
      <4> QED
        BY <4>1, <4>2
    <3>2. cause = "allocator" => Allocating(stack'[1]) /\ stack'[2].who = "interrupt"
      <4> SUFFICES ASSUME cause = "allocator"
                   PROVE  Allocating(stack'[1]) /\ stack'[2].who = "interrupt"
        OBVIOUS
      <4>1. ~Live /\ Allocating(stack[1]) /\ stack[2].who = "interrupt"
        BY DEF Inv, CauseInv
      <4>2. n >= 2
        BY <4>1 DEF n, Inv, StackInv
      <4> QED
        BY <1>4, <4>1, <4>2
    <3>3. n + 1 - 1 = n
      BY <1>1
    <3> QED
      BY <1>1, <1>2, <2>1, <3>1, <3>2, <3>3 DEF Inv, CauseInv
  <2>2. CASE Live /\ cause' \in {"asked", "exhausted"} /\ cause' # cause
    BY <1>2, <2>2 DEF CauseInv
  <2>3. CASE Live /\ cause' = "writer" /\ cause' # cause
    <3>1. \E k \in 1 .. n : Printing(stack'[k]) /\ stack'[k + 1].who \in {"panic", "abort"}
      <4>1. CASE Printing(Top)
        BY <1>1, <4>1
      <4>2. CASE writer = "held" /\ Top.doing = "run"
        <5>1. PICK k \in 1 .. n : Printing(stack[k])
          BY <2>3, <4>2 DEF n, Inv, WriterInv
        <5>2. k # n /\ n <= 2
          BY <1>1, <2>3, <4>2, <5>1 DEF n, Inv, StackInv, Printing
        <5>3. k = 1 /\ n = 2
          BY <1>1, <5>1, <5>2
        <5>4. stack[2].who \in {"abort", "panic"}
          BY <5>1, <5>3 DEF n, Inv, WriterInv
        <5> QED
          BY <1>4, <5>1, <5>3, <5>4
      <4> QED
        BY <2>3, <4>1, <4>2
    <3>2. n + 1 - 1 = n
      BY <1>1
    <3> QED
      BY <1>1, <1>2, <2>3, <3>1, <3>2 DEF CauseInv
  <2>4. CASE Live /\ cause' = "allocator" /\ cause' # cause
    <3>1. borrowed /\ Top.doing = "run" /\ Top.who # "abort"
      BY <2>4
    <3>2. PICK k \in 1 .. n : Allocating(stack[k])
      BY <2>4, <3>1 DEF n, Inv, AllocInv
    <3>3. k # n /\ n <= 2
      BY <1>1, <2>4, <3>1, <3>2 DEF n, Inv, StackInv, Allocating
    <3>4. k = 1 /\ n = 2
      BY <1>1, <3>2, <3>3
    <3>5. stack[2].who = "interrupt"
      BY <1>1, <2>4, <3>1, <3>4 DEF n, Inv, StackInv
    <3> QED
      BY <1>2, <1>4, <2>4, <3>2, <3>4, <3>5 DEF CauseInv
  <2> QED
    BY <2>1, <2>2, <2>3, <2>4
<1> QED
  BY <1>3, <1>5, <1>6, <1>7, <1>8 DEF Inv

\* Nothing that the invariant speaks of changes, or the program makes the writer.
LEMMA KeptStep ==
  ASSUME Inv, UNCHANGED <<stack, prints, panics, cause, used, borrowed, blocks>>,
         writer' = writer \/ writer' = "free"
  PROVE  Inv'
<1>1. Top' = Top
  BY DEF Top
<1>2. TypeInv'
  BY DEF Inv, TypeInv
<1>3. StackInv' /\ WriterInv' /\ AllocInv'
  BY <1>1 DEF Inv, StackInv, WriterInv, AllocInv, Live
<1>4. BlocksInv'
  BY DEF Inv, BlocksInv, HeapSound
<1>5. CauseInv'
  BY <1>1 DEF Inv, CauseInv, Live
<1> QED
  BY <1>2, <1>3, <1>4, <1>5 DEF Inv

\* What runs goes on to something that is no allocation.
LEMMA GoesOn ==
  ASSUME Inv, NEW a \in Activities, Becomes(a), UNCHANGED heapVars, a.who = Top.who,
         ~Allocating(a), ~Allocating(Top),
         Live \/ a.doing \in {"run", "message", "end", "reboot"},
         Len(stack) = 1 /\ Printing(a) => a.section,
         writer' \in {"none", "free", "held"},
         Live /\ writer' = "held" => Printing(a) \/ (writer = "held" /\ ~Printing(Top)),
         prints' \in Int, panics' \in Int, cause' = cause
  PROVE  Inv'
<1>1. AllocInv' /\ BlocksInv'
  BY AllocKept
<1>2. used' \in Nat /\ borrowed' \in BOOLEAN /\ blocks' \in Seq(Blocks) /\ blocks' = blocks
  BY DEF heapVars, Inv, TypeInv
<1> QED
  BY <1>1, <1>2, BecomesStep

\* The activity that a panic is.
LEMMA PanicActivity ==
  ASSUME NEW n \in Int
  PROVE  LET a == [Activity("panic", <<>>) EXCEPT !.section = TRUE, !.number = n]
         IN a \in Activities /\ a.who = "panic" /\ a.doing = "run"
<1> DEFINE t == Activity("panic", <<>>)
<1>1. t \in Activities /\ t.who = "panic" /\ t.doing = "run"
  BY DEF Activity, Activities
<1> HIDE DEF t
<1>2. LET a == [t EXCEPT !.section = TRUE, !.number = n]
      IN a \in Activities /\ a.who = t.who /\ a.doing = t.doing
  BY <1>1 DEF Activities
<1> QED
  BY <1>1, <1>2 DEF t

\* A panic for a reason.
LEMMA PanicsStep ==
  ASSUME Inv, NEW why, Panics(why), Live,
         prints' \in Int, writer' = writer, used' = used, blocks' = blocks, borrowed' \in BOOLEAN,
         \/ why = "asked"
         \/ why = "writer" /\ writer = "held" /\ Top.doing = "run"
         \/ why = "writer" /\ Printing(Top)
         \/ why = "allocator" /\ borrowed /\ Top.doing = "run" /\ Top.who # "abort"
         \/ why = "exhausted" /\ (Fitting => blocks # <<>>)
  PROVE  Inv'
<1> DEFINE a == [Activity("panic", <<>>) EXCEPT !.section = TRUE, !.number = panics + 1]
<1>1. panics + 1 \in Int
  BY DEF Inv, TypeInv
<1>2. a \in Activities /\ a.who = "panic" /\ a.doing = "run"
  BY <1>1, PanicActivity
<1>3. Push(a) /\ cause' = why /\ panics' \in Int
  BY <1>1 DEF Panics
<1>4. Top.who # "panic"
  BY DEF Live
<1> HIDE DEF a
<1> QED
  BY <1>2, <1>3, <1>4, PanicOver

-----------------------------------------------------------------------------
(* The actions.                                                            *)

LEMMA PrintlnStep == ASSUME Inv, Println PROVE Inv'
<1>1. Top.doing = "run" /\ Top.who \in {"program", "interrupt", "abort"}
  BY DEF Println, Does
<1>2. Live /\ Len(stack) \in {1, 2} /\ Top \in Activities
  BY <1>1, Working, Running
<1>3. /\ prints' = prints + 1 /\ UNCHANGED heapVars
      /\ prints \in Int /\ panics \in Int /\ writer \in {"none", "free", "held"}
      /\ used' = used /\ blocks' = blocks /\ borrowed' = borrowed /\ borrowed \in BOOLEAN
  BY DEF Println, heapVars, Inv, TypeInv
<1>4. ~Printing(Top) /\ ~Allocating(Top)
  BY <1>1 DEF Printing, Allocating
<1>5. CASE writer = "none"
  <2>1. Becomes(Done) /\ UNCHANGED <<writer, panics, cause>>
    BY <1>5 DEF Println
  <2>2. Done \in Activities /\ Done.who = Top.who /\ Done.doing = "run"
    BY Finishing DEF Inv
  <2>3. ~Printing(Done) /\ ~Allocating(Done)
    BY <2>2 DEF Printing, Allocating
  <2> QED
    BY <1>2, <1>3, <1>4, <1>5, <2>1, <2>2, <2>3, GoesOn
<1>6. CASE writer = "free"
  <2> DEFINE a == [Top EXCEPT !.doing = "text", !.section = TRUE, !.number = prints + 1]
  <2>1. Becomes(a) /\ writer' = "held" /\ UNCHANGED <<panics, cause>>
    BY <1>6 DEF Println
  <2>2. a \in Activities /\ a.who = Top.who /\ a.doing = "text" /\ a.section = TRUE
    <3>1. prints + 1 \in Int
      BY <1>3
    <3> QED
      BY <1>2, <3>1, Texting
  <2> HIDE DEF a
  <2>3. Printing(a) /\ a.section /\ ~Allocating(a)
    BY <2>2 DEF Printing, Allocating
  <2> QED
    BY <1>2, <1>3, <1>4, <2>1, <2>2, <2>3, GoesOn
<1>7. CASE writer = "held"
  <2>1. Panics("writer") /\ writer' = writer
    BY <1>7 DEF Println
  <2> QED
    BY <1>1, <1>2, <1>3, <1>7, <2>1, PanicsStep
<1> QED
  BY <1>3, <1>5, <1>6, <1>7

LEMMA WriteStep == ASSUME Inv, WriteText \/ WriteNewline PROVE Inv'
<1>1. Top.doing \in {"text", "newline"}
  BY DEF WriteText, WriteNewline
<1>2. Live /\ Top \in Activities /\ Top = stack[Len(stack)] /\ Printing(Top) /\ ~Allocating(Top)
  BY <1>1, Working, Running DEF Printing, Allocating
<1>3. UNCHANGED <<prints, panics, cause>> /\ UNCHANGED heapVars
      /\ prints \in Int /\ panics \in Int /\ writer \in {"none", "free", "held"}
  BY DEF WriteText, WriteNewline, counts, Inv, TypeInv
<1>4. CASE WriteText
  <2> DEFINE a == [Top EXCEPT !.doing = "newline"]
  <2>1. Becomes(a) /\ writer' = writer
    BY <1>4 DEF WriteText
  <2>2. a \in Activities /\ a.who = Top.who /\ a.doing = "newline" /\ a.section = Top.section
    BY <1>2, Doing DEF Doings
  <2> HIDE DEF a
  <2>3. Printing(a) /\ ~Allocating(a)
    BY <2>2 DEF Printing, Allocating
  <2>4. Len(stack) = 1 => a.section
    BY <1>2, <2>2 DEF Inv, WriterInv
  <2> QED
    BY <1>2, <1>3, <2>1, <2>2, <2>3, <2>4, GoesOn
<1>5. CASE WriteNewline
  <2>1. Becomes(Done) /\ writer' = "free"
    BY <1>5 DEF WriteNewline
  <2>2. Done \in Activities /\ Done.who = Top.who /\ Done.doing = "run"
    BY Finishing DEF Inv
  <2>3. ~Printing(Done) /\ ~Allocating(Done)
    BY <2>2 DEF Printing, Allocating
  <2> QED
    BY <1>2, <1>3, <2>1, <2>2, <2>3, GoesOn
<1> QED
  BY <1>4, <1>5

LEMMA StealStep == ASSUME Inv, StealText \/ StealNewline PROVE Inv'
<1>1. Top.doing \in {"run", "stolen"} /\ (Top.doing = "run" => Top.who = "abort")
  BY DEF StealText, StealNewline, Does
<1>2. Live /\ Top \in Activities /\ ~Printing(Top) /\ ~Allocating(Top)
  BY <1>1, Working, Running DEF Printing, Allocating
<1>3. UNCHANGED <<writer, prints, panics, cause>> /\ UNCHANGED heapVars
      /\ prints \in Int /\ panics \in Int /\ writer \in {"none", "free", "held"}
  BY DEF StealText, StealNewline, counts, Inv, TypeInv
<1>4. PICK a \in Activities : Becomes(a) /\ a.who = Top.who /\ a.doing \in {"run", "stolen"}
  <2>1. CASE StealText
    <3>1. Becomes([Top EXCEPT !.doing = "stolen"])
      BY <2>1 DEF StealText
    <3> QED
      BY <1>2, <3>1, Doing DEF Doings
  <2>2. CASE StealNewline
    <3>1. Becomes(Done)
      BY <2>2 DEF StealNewline
    <3> QED
      BY <3>1, Finishing DEF Inv
  <2> QED
    BY <2>1, <2>2
<1>5. ~Printing(a) /\ ~Allocating(a)
  BY <1>4 DEF Printing, Allocating
<1> QED
  BY <1>2, <1>3, <1>4, <1>5, GoesOn

LEMMA FormatFailsStep == ASSUME Inv, FormatFails PROVE Inv'
<1>1. Printing(Top) /\ Live
  BY Working DEF FormatFails, Printing
<1>2. PICK why \in {"writer", "asked"} : Panics(why)
  BY DEF FormatFails
<1>3. prints' \in Int /\ writer' = writer /\ used' = used /\ blocks' = blocks
      /\ borrowed' \in BOOLEAN
  BY DEF FormatFails, heapVars, Inv, TypeInv
<1> QED
  BY <1>1, <1>2, <1>3, PanicsStep

LEMMA PanicCalled == ASSUME Inv, Panic PROVE Inv'
<1>1. Live
  BY Working DEF Panic, Does
<1>2. Panics("asked") /\ prints' \in Int /\ writer' = writer /\ used' = used /\ blocks' = blocks
      /\ borrowed' \in BOOLEAN
  BY DEF Panic, heapVars, Inv, TypeInv
<1> QED
  BY <1>1, <1>2, PanicsStep

LEMMA PanicAgainStep == ASSUME Inv, PanicAgain PROVE Inv'
<1> DEFINE a == [Activity("panic", <<>>) EXCEPT !.section = TRUE, !.number = panics + 1]
<1>1. panics + 1 \in Int /\ panics' = panics + 1 /\ Push(a)
      /\ prints' \in Int /\ writer' = writer /\ used' = used /\ blocks' = blocks
      /\ borrowed' \in BOOLEAN /\ cause' = cause
  BY DEF PanicAgain, heapVars, Inv, TypeInv
<1>2. a \in Activities /\ a.who = "panic" /\ a.doing = "run"
  BY <1>1, PanicActivity
<1> HIDE DEF a
<1> QED
  BY <1>1, <1>2, PanicOver

LEMMA PanickingStep == ASSUME Inv, PanicEnter \/ PanicMessage \/ PanicEnd PROVE Inv'
<1>1. Top.who = "panic" /\ Top.doing \in {"run", "message", "end"} /\ ~Live
  BY DEF PanicEnter, PanicMessage, PanicEnd, Panicking, Live
<1>2. Top \in Activities /\ ~Printing(Top) /\ ~Allocating(Top)
  BY <1>1, Running DEF Printing, Allocating
<1>3. UNCHANGED <<prints, panics, cause>> /\ UNCHANGED heapVars
      /\ prints \in Int /\ panics \in Int
  BY DEF PanicEnter, PanicMessage, PanicEnd, counts, Inv, TypeInv
<1>4. writer' \in {"none", "free", "held"}
  BY DEF PanicEnter, PanicMessage, PanicEnd, Inv, TypeInv
<1>5. PICK d \in {"message", "end", "reboot"} : Becomes([Top EXCEPT !.doing = d])
  BY DEF PanicEnter, PanicMessage, PanicEnd
<1> DEFINE a == [Top EXCEPT !.doing = d]
<1>6. a \in Activities /\ a.who = Top.who /\ a.doing = d /\ Becomes(a)
  <2>1. d \in Doings
    BY DEF Doings
  <2>2. Becomes(a)
    BY <1>5
  <2>3. a \in Activities /\ a.who = Top.who /\ a.doing = d
    BY <1>2, <2>1, Doing
  <2> QED
    BY <2>2, <2>3
<1> HIDE DEF a
<1>7. ~Printing(a) /\ ~Allocating(a) /\ a.doing \in {"run", "message", "end", "reboot"}
  BY <1>6 DEF Printing, Allocating
<1> QED
  BY <1>1, <1>2, <1>3, <1>4, <1>6, <1>7, GoesOn

LEMMA AllocateStep == ASSUME Inv, Allocate PROVE Inv'
<1>1. Top.doing = "run" /\ Top.who # "abort" /\ Top.who \in {"program", "interrupt"}
  BY DEF Allocate, Does
<1>2. Live /\ Len(stack) \in {1, 2} /\ Top \in Activities /\ Top = stack[Len(stack)]
  BY <1>1, Working, Running
<1>3. UNCHANGED <<writer, prints>>
      /\ prints \in Int /\ panics \in Int /\ writer \in {"none", "free", "held"}
      /\ used \in Nat /\ blocks \in Seq(Blocks) /\ borrowed \in BOOLEAN
  BY DEF Allocate, Inv, TypeInv
<1>4. CASE borrowed
  <2>1. Panics("allocator") /\ used' = used /\ blocks' = blocks /\ borrowed' = borrowed
    BY <1>4 DEF Allocate, heapVars
  <2> QED
    BY <1>1, <1>2, <1>3, <1>4, <2>1, PanicsStep
<1>5. CASE ~borrowed
  <2>1. /\ borrowed' = TRUE /\ UNCHANGED <<used, blocks, panics, cause>>
    BY <1>5 DEF Allocate, Borrow
  <2>2. PICK l \in Layouts : Becomes([Top EXCEPT !.doing = "alloc", !.layout = l, !.seen = used])
    BY <1>5 DEF Allocate
  <2> DEFINE a == [Top EXCEPT !.doing = "alloc", !.layout = l, !.seen = used]
             n == Len(stack)
  <2>3. a \in Activities /\ a.who = Top.who /\ a.doing = "alloc" /\ a.seen = used
    <3>1. Top \in Activities /\ used \in Nat /\ l \in Layouts
      BY <1>2, <1>3
    <3>2. a \in Activities
      BY <3>1 DEF Activities
    <3>3. a.who = Top.who /\ a.doing = "alloc" /\ a.seen = used
      BY <3>1 DEF Activities
    <3> QED
      BY <3>2, <3>3
  <2>4. Becomes(a)
    BY <2>2
  <2> HIDE DEF a
  <2>5. /\ n \in {1, 2} /\ Len(stack') = n /\ stack'[n] = a /\ Top' = a
        /\ \A k \in 1 .. n - 1 : stack'[k] = stack[k]
    BY <1>2, <2>3, <2>4, Becoming DEF Inv
  <2>6. \A k \in 1 .. n : ~Allocating(stack[k])
    BY <1>2, <1>5 DEF Inv, AllocInv
  <2> HIDE DEF n
  <2>7. \A k \in 1 .. n : Allocating(stack'[k]) <=> k = n
    BY <2>3, <2>5, <2>6 DEF Allocating
  <2>8. AllocInv'
    <3>1. n \in 1 .. n
      BY <2>5
    <3> QED
      BY <2>1, <2>3, <2>5, <2>7, <3>1 DEF AllocInv
  <2>9. BlocksInv'
    BY <2>1 DEF Inv, BlocksInv, HeapSound
  <2>10. ~Printing(a) /\ ~Printing(Top)
    BY <1>1, <2>3 DEF Printing
  <2>11. borrowed' \in BOOLEAN
    BY <2>1, Zenon
  <2> QED
    BY <1>2, <1>3, <2>1, <2>3, <2>4, <2>8, <2>9, <2>10, <2>11, BecomesStep
<1> QED
  BY <1>4, <1>5

LEMMA AllocatedStep == ASSUME Inv, Allocated PROVE Inv'
<1> DEFINE n == Len(stack)
<1>1. Top.doing = "alloc" /\ Allocating(Top)
  BY DEF Allocated, Allocating
<1>2. Live /\ n \in {1, 2} /\ Top \in Activities /\ Top = stack[n]
  BY <1>1, Working, Running
<1>3. Top.seen = used /\ Top.layout \in Layouts \cup {NoLayout}
      /\ \A k \in 1 .. n : Allocating(stack[k]) => k = n
  <2>1. n \in 1 .. n
    BY <1>2
  <2> QED
    BY <1>1, <1>2, <2>1 DEF Inv, AllocInv, Activities
<1>4. UNCHANGED <<writer, prints>>
      /\ prints \in Int /\ panics \in Int /\ writer \in {"none", "free", "held"}
      /\ used \in Nat /\ blocks \in Seq(Blocks) /\ borrowed' = FALSE
  BY DEF Allocated, Bump, Exhausted, Inv, TypeInv
<1>5. borrowed' \in BOOLEAN
  BY <1>4, Zenon
<1>6. CASE Bump(Top.layout, Top.seen) /\ Becomes(Done) /\ UNCHANGED <<panics, cause>>
  <2>1. BlocksInv' /\ used' \in Nat /\ blocks' \in Seq(Blocks) /\ blocks' # <<>>
    BY <1>3, <1>6, BumpBlocks
  <2>2. Done \in Activities /\ Done.who = Top.who /\ Done.doing = "run"
    BY Finishing DEF Inv
  <2>3. ~Printing(Done) /\ ~Allocating(Done) /\ ~Printing(Top)
    BY <1>1, <2>2 DEF Printing, Allocating
  <2>4. /\ Len(stack') = n /\ stack'[n] = Done
        /\ \A k \in 1 .. n - 1 : stack'[k] = stack[k]
    BY <1>6, <2>2, Becoming DEF Inv
  <2>5. \A k \in 1 .. n : ~Allocating(stack'[k])
    <3> SUFFICES ASSUME NEW k \in 1 .. n
                 PROVE  ~Allocating(stack'[k])
      OBVIOUS
    <3>1. CASE k = n
      BY <2>3, <2>4, <3>1
    <3>2. CASE k # n
      BY <1>2, <1>3, <2>4, <3>2
    <3> QED
      BY <3>1, <3>2
  <2>6. AllocInv'
    BY <1>4, <2>4, <2>5 DEF AllocInv
  <2> QED
    BY <1>2, <1>4, <1>5, <1>6, <2>1, <2>2, <2>3, <2>6, BecomesStep
<1>7. CASE Exhausted(Top.layout, Top.seen) /\ Panics("exhausted")
  <2>1. Fitting => blocks # <<>>
    <3> SUFFICES ASSUME Fitting, blocks = <<>>
                 PROVE  FALSE
      OBVIOUS
    <3>1. used = 0
      BY DEF Inv, BlocksInv
    <3>2. Top.layout.size \in Nat /\ Top.layout.size <= Heap
      BY <1>3, HeapAssumption DEF Fitting, NoLayout
    <3> QED
      BY <1>3, <1>7, <3>1, <3>2, HeapAssumption DEF Exhausted, Fits
  <2>2. used' = used /\ blocks' = blocks
    BY <1>7 DEF Exhausted
  <2> QED
    BY <1>2, <1>4, <1>5, <1>7, <2>1, <2>2, PanicsStep
<1> QED
  BY <1>6, <1>7 DEF Allocated

\* An interrupt or an abort over the program.
LEMMA ExceptionStep == ASSUME Inv, Interrupt \/ DataAbort PROVE Inv'
<1>1. Len(stack) = 1 /\ Live /\ cause = "none" /\ Top = stack[1]
      /\ UNCHANGED <<writer, prints, panics, cause>> /\ UNCHANGED heapVars
  BY Working, Running DEF Interrupt, DataAbort
<1>2. PICK a \in Activities :
        /\ Push(a) /\ a.doing = "run" /\ a.who \in {"interrupt", "abort"}
        /\ a.who = "interrupt" => ~Top.section
  <2>1. CASE Interrupt
    <3>1. Activity("interrupt", <<>>) \in Activities
          /\ Activity("interrupt", <<>>).who = "interrupt"
          /\ Activity("interrupt", <<>>).doing = "run"
      BY DEF Activity, Activities
    <3> QED
      BY <2>1, <3>1 DEF Interrupt
  <2>2. CASE DataAbort
    <3>1. PICK todo \in {<<"steal">>, <<"println", "println">>, <<"println", "panic">>} :
            Push(Activity("abort", todo))
      BY <2>2 DEF DataAbort
    <3>2. todo \in Seq({"steal", "println", "panic"})
      <4>1. \A x, y \in {"steal", "println", "panic"} :
              /\ <<x>> \in Seq({"steal", "println", "panic"})
              /\ <<x, y>> \in Seq({"steal", "println", "panic"})
        OBVIOUS
      <4> QED
        BY <4>1
    <3>3. Activity("abort", todo) \in Activities
          /\ Activity("abort", todo).who = "abort"
          /\ Activity("abort", todo).doing = "run"
      BY <3>2 DEF Activity, Activities
    <3> QED
      BY <3>1, <3>3
  <2> QED
    BY <2>1, <2>2
<1>3. /\ stack' \in Seq(Activities) /\ Len(stack') = 2 /\ Top' = a /\ stack'[2] = a
      /\ stack'[1] = stack[1]
  BY <1>1, <1>2, Pushing DEF Inv
<1>4. ~Printing(a) /\ ~Allocating(a) /\ Live'
  BY <1>2, <1>3 DEF Printing, Allocating, Live
<1>5. TypeInv'
  BY <1>1, <1>3 DEF heapVars, Inv, TypeInv
<1>6. StackInv'
  BY <1>2, <1>3, <1>4 DEF Inv, StackInv
<1>7. WriterInv'
  <2>1. writer = "held" => Printing(stack[1])
    BY <1>1 DEF Inv, WriterInv
  <2>2. Printing(stack[1]) => stack[1].section /\ a.who = "abort"
    BY <1>1, <1>2 DEF Inv, WriterInv
  <2> QED
    BY <1>1, <1>3, <2>1, <2>2 DEF WriterInv
<1>8. AllocInv' /\ BlocksInv'
  <2>1. BlocksInv'
    BY <1>1 DEF heapVars, Inv, BlocksInv, HeapSound
  <2>2. borrowed' = borrowed /\ used' = used
    BY <1>1 DEF heapVars
  <2>3. /\ borrowed => Allocating(stack[1])
        /\ Allocating(stack[1]) => borrowed /\ stack[1].seen = used
    BY <1>1 DEF Inv, AllocInv
  <2> QED
    BY <1>3, <1>4, <2>1, <2>2, <2>3 DEF AllocInv
<1>9. CauseInv'
  BY <1>1 DEF CauseInv
<1> QED
  BY <1>5, <1>6, <1>7, <1>8, <1>9 DEF Inv

\* The program goes on.
LEMMA ReturnStep == ASSUME Inv, Return PROVE Inv'
<1>1. Top.doing = "run" /\ Top.who \in {"interrupt", "abort"} /\ Pop
      /\ UNCHANGED <<writer, prints, panics, cause>> /\ UNCHANGED heapVars
  BY DEF Return, counts
<1>2. Live /\ cause = "none" /\ Len(stack) \in {1, 2} /\ Top = stack[Len(stack)]
      /\ ~Printing(Top) /\ ~Allocating(Top)
  BY <1>1, Working, Running DEF Printing, Allocating
<1>3. Len(stack) = 2
  BY <1>1, <1>2 DEF Inv, StackInv
<1>4. /\ stack' \in Seq(Activities) /\ Len(stack') = 1 /\ Top' = stack[1] /\ stack'[1] = stack[1]
  BY <1>1, <1>3, Popping DEF Inv
<1>5. stack[1].who = "program" /\ Live'
  BY <1>4 DEF Inv, StackInv, Live
<1>6. TypeInv'
  BY <1>1, <1>4 DEF heapVars, Inv, TypeInv
<1>7. StackInv'
  BY <1>4, <1>5 DEF StackInv
<1>8. WriterInv'
  <2>1. writer = "held" => Printing(stack[1])
    BY <1>2, <1>3 DEF Inv, WriterInv
  <2>2. Printing(stack[1]) => stack[1].section
    BY DEF Inv, WriterInv
  <2> QED
    BY <1>1, <1>4, <2>1, <2>2 DEF WriterInv
<1>9. AllocInv' /\ BlocksInv'
  <2>1. BlocksInv'
    BY <1>1 DEF heapVars, Inv, BlocksInv, HeapSound
  <2>2. borrowed' = borrowed /\ used' = used
    BY <1>1 DEF heapVars
  <2>3. /\ borrowed => Allocating(stack[1])
        /\ Allocating(stack[1]) => borrowed /\ stack[1].seen = used
    BY <1>2, <1>3 DEF Inv, AllocInv
  <2> QED
    BY <1>4, <2>1, <2>2, <2>3 DEF AllocInv
<1>10. CauseInv'
  BY <1>1, <1>2 DEF CauseInv
<1> QED
  BY <1>6, <1>7, <1>8, <1>9, <1>10 DEF Inv

-----------------------------------------------------------------------------
\* Every step keeps the invariant.
LEMMA NextInv == ASSUME Inv, [Next]_vars PROVE Inv'
<1>1. CASE UNCHANGED vars \/ Send \/ StoreUart \/ Reboot
  BY <1>1, KeptStep DEF vars, Send, StoreUart, Reboot, counts, heapVars
<1>2. CASE Println \/ WriteText \/ WriteNewline \/ FormatFails \/ StealText \/ StealNewline
  BY <1>2, PrintlnStep, WriteStep, FormatFailsStep, StealStep
<1>3. CASE Allocate \/ Allocated
  BY <1>3, AllocateStep, AllocatedStep
<1>4. CASE Interrupt \/ DataAbort \/ Return
  BY <1>4, ExceptionStep, ReturnStep
<1>5. CASE Panic \/ PanicAgain \/ PanicEnter \/ PanicMessage \/ PanicEnd
  BY <1>5, PanicCalled, PanicAgainStep, PanickingStep
<1> QED
  BY <1>1, <1>2, <1>3, <1>4, <1>5 DEF Next, PanicStep

LEMMA Invariant == Spec => []Inv
<1>1. Init => Inv
  BY InitInv
<1>2. Inv /\ [Next]_vars => Inv'
  BY NextInv
<1> QED
  BY <1>1, <1>2, PTL DEF Spec

-----------------------------------------------------------------------------
(* Sequences of tokens.                                                    *)

LEMMA Appended ==
  ASSUME NEW s \in Seq(Tokens), NEW t \in Tokens
  PROVE  /\ Append(s, t) \in Seq(Tokens) /\ Len(s) \in Nat
         /\ DOMAIN s = 1 .. Len(s) /\ DOMAIN Append(s, t) = 1 .. Len(s) + 1
         /\ Append(s, t)[Len(s) + 1] = t
         /\ \A k \in 1 .. Len(s) : Append(s, t)[k] = s[k]
OBVIOUS

\* A text is open until something else is appended that is not stolen.
LEMMA OpenAppended ==
  ASSUME NEW s \in Seq(Tokens), NEW t \in Tokens, NEW n \in Int
  PROVE  Open(Append(s, t), n) <=> IF Stolen(t) THEN Open(s, n) ELSE t = <<"text", n>>
<1> DEFINE a == Append(s, t)
           l == Len(s)
<1>1. /\ l \in Nat /\ DOMAIN s = 1 .. l /\ DOMAIN a = 1 .. l + 1
      /\ a[l + 1] = t /\ \A k \in 1 .. l : a[k] = s[k]
  BY Appended
<1>2. ~Stolen(<<"text", n>>)
  BY DEF Stolen
<1> HIDE DEF a, l
<1>3. ASSUME Open(a, n)
      PROVE  IF Stolen(t) THEN Open(s, n) ELSE t = <<"text", n>>
  <2>1. PICK j \in 1 .. l + 1 : a[j] = <<"text", n>> /\ \A i \in 1 .. l + 1 : i > j => Stolen(a[i])
    BY <1>1, <1>3 DEF Open
  <2>2. CASE j = l + 1
    BY <1>1, <1>2, <2>1, <2>2
  <2>3. CASE j # l + 1
    <3>1. j \in 1 .. l /\ l + 1 \in 1 .. l + 1 /\ l + 1 > j
      BY <1>1, <2>1, <2>3
    <3>2. Stolen(t)
      BY <1>1, <2>1, <3>1
    <3>3. s[j] = <<"text", n>> /\ \A i \in 1 .. l : i > j => Stolen(s[i])
      BY <1>1, <2>1, <3>1
    <3> QED
      BY <1>1, <3>1, <3>2, <3>3 DEF Open
  <2> QED
    BY <2>2, <2>3
<1>4. ASSUME Stolen(t), Open(s, n)
      PROVE  Open(a, n)
  <2>1. PICK j \in 1 .. l : s[j] = <<"text", n>> /\ \A i \in 1 .. l : i > j => Stolen(s[i])
    BY <1>1, <1>4 DEF Open
  <2>2. j \in 1 .. l + 1 /\ a[j] = <<"text", n>>
    BY <1>1, <2>1
  <2>3. ASSUME NEW i \in 1 .. l + 1, i > j
        PROVE  Stolen(a[i])
    <3>1. i = l + 1 \/ i \in 1 .. l
      BY <1>1
    <3> QED
      BY <1>1, <1>4, <2>1, <2>3, <3>1
  <2> QED
    BY <1>1, <2>2, <2>3 DEF Open
<1>5. ASSUME t = <<"text", n>>
      PROVE  Open(a, n)
  <2>1. l + 1 \in 1 .. l + 1 /\ \A i \in 1 .. l + 1 : ~(i > l + 1)
    BY <1>1
  <2> QED
    BY <1>1, <1>5, <2>1 DEF Open
<1> QED
  BY <1>2, <1>3, <1>4, <1>5 DEF a

\* The last one that is not stolen is one only.
LEMMA OpenOnce ==
  ASSUME NEW s \in Seq(Tokens), NEW m \in Int, NEW n \in Int, Open(s, m), Open(s, n)
  PROVE  m = n
<1>1. DOMAIN s = 1 .. Len(s)
  OBVIOUS
<1>2. PICK j \in 1 .. Len(s) : s[j] = <<"text", m>> /\ \A i \in 1 .. Len(s) : i > j => Stolen(s[i])
  BY <1>1 DEF Open
<1>3. PICK k \in 1 .. Len(s) : s[k] = <<"text", n>> /\ \A i \in 1 .. Len(s) : i > k => Stolen(s[i])
  BY <1>1 DEF Open
<1>4. ~Stolen(s[j]) /\ ~Stolen(s[k])
  BY <1>2, <1>3 DEF Stolen
<1>5. ~(j > k) /\ ~(k > j)
  BY <1>2, <1>3, <1>4
<1>6. j = k
  BY <1>5
<1> QED
  BY <1>2, <1>3, <1>6

\* What may come next: anything stolen, and else the end of the open line, or a
\* message, or, if no line is open, whatever is no end of one.
Fitted(s, t) ==
  \/ Stolen(t)
  \/ /\ \A n \in Int : Open(s, n) => t = <<"newline", n>> \/ t[1] = "message"
     /\ t[1] = "newline" => Open(s, t[2])

LEMMA WholeAppended ==
  ASSUME NEW s \in Seq(Tokens), NEW t \in Tokens, Whole(s), Fitted(s, t)
  PROVE  Whole(Append(s, t))
<1> DEFINE a == Append(s, t)
           l == Len(s)
<1>1. /\ l \in Nat /\ DOMAIN s = 1 .. l /\ DOMAIN a = 1 .. l + 1
      /\ a[l + 1] = t /\ \A k \in 1 .. l : a[k] = s[k]
  BY Appended
<1>2. \A k \in 1 .. l : s[k] \in Tokens
  BY DEF l
<1> HIDE DEF a, l
<1> SUFFICES ASSUME NEW j \in 1 .. l + 1, NEW k \in 1 .. l + 1, Follows(a, j, k)
             PROVE  /\ a[j][1] = "text" => a[k] = <<"newline", a[j][2]>> \/ a[k][1] = "message"
                    /\ a[k][1] = "newline" => a[j] = <<"text", a[k][2]>>
  BY <1>1 DEF Whole, a
<1>3. j < k /\ ~Stolen(a[j]) /\ ~Stolen(a[k]) /\ \A i \in j + 1 .. k - 1 : Stolen(a[i])
  BY DEF Follows
<1>4. j \in 1 .. l /\ a[j] = s[j]
  BY <1>1, <1>3
<1>5. CASE k \in 1 .. l
  <2>1. \A i \in j + 1 .. k - 1 : i \in 1 .. l
    BY <1>1, <1>4, <1>5
  <2>2. Follows(s, j, k)
    BY <1>1, <1>3, <1>4, <1>5, <2>1 DEF Follows
  <2> QED
    BY <1>1, <1>4, <1>5, <2>2 DEF Whole
<1>6. CASE k = l + 1
  <2>1. \A i \in 1 .. l : i > j => Stolen(s[i])
    <3>1. \A i \in 1 .. l : i > j => i \in j + 1 .. k - 1
      BY <1>1, <1>4, <1>6
    <3> QED
      BY <1>1, <1>3, <3>1
  <2>2. a[k] = t /\ ~Stolen(t)
    BY <1>1, <1>3, <1>6
  <2>3. s[j] \in Tokens /\ s[j] = <<s[j][1], s[j][2]>> /\ s[j][2] \in Int
    BY <1>2, <1>4 DEF Tokens
  <2>4. s[j][1] = "text" => Open(s, s[j][2])
    BY <1>1, <1>4, <2>1, <2>3 DEF Open
  <2>5. s[j][1] = "text" => t = <<"newline", s[j][2]>> \/ t[1] = "message"
    BY <2>2, <2>3, <2>4 DEF Fitted
  <2>6. ASSUME t[1] = "newline"
        PROVE  s[j] = <<"text", t[2]>>
    <3>1. Open(s, t[2])
      BY <2>2, <2>6 DEF Fitted
    <3>2. PICK i \in 1 .. l : s[i] = <<"text", t[2]>> /\ \A h \in 1 .. l : h > i => Stolen(s[h])
      BY <1>1, <3>1 DEF Open
    <3>3. ~Stolen(s[i]) /\ ~Stolen(s[j])
      BY <1>3, <1>4, <3>2 DEF Stolen
    <3>4. ~(i > j) /\ ~(j > i)
      BY <1>4, <2>1, <3>2, <3>3
    <3>5. i = j
      BY <1>4, <3>4
    <3> QED
      BY <3>2, <3>5
  <2> QED
    BY <1>4, <2>2, <2>5, <2>6
<1>7. k \in 1 .. l \/ k = l + 1
  BY <1>1
<1> QED
  BY <1>5, <1>6, <1>7

\* What is lost of the end leaves what is before it whole.
LEMMA WholePrefix ==
  ASSUME NEW s \in Seq(Tokens), NEW f \in Seq(Tokens), Whole(s \o f)
  PROVE  Whole(s)
<1> DEFINE a == s \o f
           l == Len(s)
<1>1. /\ l \in Nat /\ DOMAIN s = 1 .. l /\ \A k \in 1 .. l : k \in DOMAIN a /\ a[k] = s[k]
  BY ConcatProperties
<1>2. Whole(a)
  OBVIOUS
<1> HIDE DEF a, l
<1> SUFFICES ASSUME NEW j \in 1 .. l, NEW k \in 1 .. l, Follows(s, j, k)
             PROVE  /\ s[j][1] = "text" => s[k] = <<"newline", s[j][2]>> \/ s[k][1] = "message"
                    /\ s[k][1] = "newline" => s[j] = <<"text", s[k][2]>>
  BY <1>1 DEF Whole
<1>3. \A i \in j + 1 .. k - 1 : i \in 1 .. l
  BY <1>1
<1>4. Follows(a, j, k)
  BY <1>1, <1>3 DEF Follows
<1> QED
  BY <1>1, <1>2, <1>4 DEF Whole

-----------------------------------------------------------------------------
(* The lines.                                                              *)

\* What is written comes at the end of the output.
LEMMA Written ==
  ASSUME LinesInv, NEW t \in Tokens, Write(t), exceptions' \in Int
  PROVE  /\ OutputType'
         /\ Fitted(Output, t) => WholeLines'
         /\ \A n \in Int :
              Open(Output', n) <=> IF Stolen(t) THEN Open(Output, n) ELSE t = <<"text", n>>
<1>1. line \in Seq(Tokens) /\ fifo \in Seq(Tokens) /\ Whole(Output)
  BY DEF LinesInv, OutputType, WholeLines
<1>2. fifo' = Append(fifo, t) /\ line' = line
  BY DEF Write
<1>3. OutputType'
  BY <1>1, <1>2 DEF OutputType
<1>4. Append(fifo, t) = fifo \o <<t>> /\ Append(line \o fifo, t) = (line \o fifo) \o <<t>>
      /\ line \o fifo \in Seq(Tokens) /\ <<t>> \in Seq(Tokens)
  BY <1>1, AppendIsConcat, ConcatProperties
<1>5. line \o (fifo \o <<t>>) = (line \o fifo) \o <<t>>
  BY <1>1, <1>4, ConcatAssociative
<1>6. Output' = Append(Output, t) /\ Output \in Seq(Tokens)
  BY <1>2, <1>4, <1>5 DEF Output
<1>7. Fitted(Output, t) => Whole(Output')
  BY <1>1, <1>6, WholeAppended
<1>8. \A n \in Int :
        Open(Output', n) <=> IF Stolen(t) THEN Open(Output, n) ELSE t = <<"text", n>>
  BY <1>6, OpenAppended
<1> QED
  BY <1>3, <1>7, <1>8 DEF WholeLines

\* Sending moves what was written from the FIFO to the line.
LEMMA Sent == ASSUME LinesInv, Send PROVE OutputType' /\ Output' = Output
<1>1. line \in Seq(Tokens) /\ fifo \in Seq(Tokens) /\ fifo # <<>> /\ exceptions \in Int
  BY DEF LinesInv, OutputType, Send
<1>2. line' = Append(line, Head(fifo)) /\ fifo' = Tail(fifo) /\ exceptions' = exceptions
  BY DEF Send, counts
<1>3. Head(fifo) \in Tokens /\ Tail(fifo) \in Seq(Tokens) /\ fifo = <<Head(fifo)>> \o Tail(fifo)
  <2>1. Len(fifo) \in Nat /\ 1 \in 1 .. Len(fifo) /\ Len(fifo) \in 1 .. Len(fifo)
    BY <1>1
  <2>2. SubSeq(fifo, 1, Len(fifo)) = <<fifo[1]>> \o SubSeq(fifo, 1 + 1, Len(fifo))
    BY <1>1, <2>1, SubSeqRecursiveFirst
  <2>3. SubSeq(fifo, 1, Len(fifo)) = fifo /\ SubSeq(fifo, 2, Len(fifo)) = Tail(fifo)
    BY <1>1, SubSeqFull, TailIsSubSeq
  <2>4. fifo[1] = Head(fifo) /\ 1 + 1 = 2
    BY <1>1
  <2>5. fifo = <<Head(fifo)>> \o Tail(fifo)
    BY <2>2, <2>3, <2>4
  <2> QED
    BY <1>1, <2>5, HeadTailProperties
<1>4. line \o (<<Head(fifo)>> \o Tail(fifo)) = (line \o <<Head(fifo)>>) \o Tail(fifo)
  BY <1>1, <1>3, ConcatAssociative
<1>5. Append(line, Head(fifo)) = line \o <<Head(fifo)>>
  BY <1>1, <1>3, AppendIsConcat
<1> QED
  BY <1>1, <1>2, <1>3, <1>4, <1>5 DEF OutputType, Output

\* Nothing is written.
LEMMA NotWritten ==
  ASSUME LinesInv, UNCHANGED uart, exceptions' \in Int
  PROVE  OutputType' /\ Output' = Output /\ WholeLines'
BY DEF uart, LinesInv, OutputType, Output, WholeLines

\* A panic: only its message and what was written before it count.
LEMMA LinesPanic ==
  ASSUME OutputType', WholeLines', ~Live',
         Top'.doing \in {"end", "reboot"} => \A n \in Int : ~Open(Output', n)
  PROVE  LinesInv'
BY DEF LinesInv, HeldInv, OpenInv

\* The same activities with nothing written.
LEMMA LinesKept ==
  ASSUME Inv, LinesInv, UNCHANGED stack, OutputType', Output' = Output,
         writer' = writer \/ writer = "none"
  PROVE  LinesInv'
<1>1. Top' = Top /\ (Live' <=> Live)
  BY DEF Top, Live
<1>2. WholeLines'
  BY DEF LinesInv, WholeLines
<1>3. HeldInv'
  BY <1>1 DEF LinesInv, HeldInv
<1>4. OpenInv'
  BY <1>1 DEF LinesInv, OpenInv
<1> QED
  BY <1>2, <1>3, <1>4 DEF LinesInv

\* An activity that prints is the only one.
LEMMA PrintingAlone ==
  ASSUME Inv, LinesInv, Live, Printing(Top) \/ writer # "held"
  PROVE  \A k \in 1 .. Len(stack) - 1 : ~Printing(stack[k])
<1>1. Len(stack) \in Nat /\ Len(stack) >= 1 /\ Top = stack[Len(stack)]
  BY Running
<1>2. \A k \in 1 .. Len(stack) - 1 : k \in 1 .. Len(stack) /\ k # Len(stack)
  BY <1>1
<1>3. Len(stack) \in 1 .. Len(stack)
  BY <1>1
<1> QED
  BY <1>1, <1>2, <1>3 DEF LinesInv, HeldInv

\* What runs goes on: to a print if the writer is free, then to the end of the line,
\* which is open until that is written.
LEMMA LinesGoOn ==
  ASSUME Inv, LinesInv, NEW a \in Activities, Becomes(a), Live, a.who = Top.who,
         OutputType', WholeLines',
         \/ ~Printing(a) /\ ~Printing(Top) /\ writer' = writer
         \/ Printing(a) /\ writer' = "held" /\ (Printing(Top) \/ writer # "held")
         \/ ~Printing(a) /\ Printing(Top),
         \/ /\ Top.doing # "newline" /\ a.doing # "newline"
            /\ \A n \in Int : Open(Output', n) <=> Open(Output, n)
         \/ Printing(Top) /\ a.doing = "newline"
              /\ \A n \in Int : Open(Output', n) <=> n = a.number
         \/ Printing(Top) /\ a.doing # "newline" /\ \A n \in Int : ~Open(Output', n)
  PROVE  LinesInv'
<1> DEFINE l == Len(stack)
<1>1. /\ l \in Nat /\ l >= 1 /\ Top = stack[l]
      /\ Len(stack') = l /\ Top' = a /\ stack'[l] = a
      /\ \A k \in 1 .. l - 1 : stack'[k] = stack[k]
  BY Running, Becoming DEF Inv
<1>2. Live' /\ a.number \in Int
  BY <1>1 DEF Live, Activities
<1>3. /\ \A k \in 1 .. l : Printing(stack[k]) => writer = "held"
      /\ \A j, k \in 1 .. l : Printing(stack[j]) /\ Printing(stack[k]) => j = k
  BY DEF LinesInv, HeldInv
<1>4. /\ \A k \in 1 .. l : stack[k].doing = "newline" => Open(Output, stack[k].number)
      /\ \A n \in Int : Open(Output, n) => \E k \in 1 .. l : stack[k].doing = "newline"
  BY DEF LinesInv, OpenInv
<1>5. Printing(Top) \/ writer # "held" => \A k \in 1 .. l - 1 : ~Printing(stack[k])
  BY PrintingAlone
<1> HIDE DEF l
<1>6. \A k \in 1 .. l : k = l \/ (k \in 1 .. l - 1 /\ stack'[k] = stack[k])
  BY <1>1
<1>7. l \in 1 .. l /\ \A k \in 1 .. l - 1 : k \in 1 .. l
  BY <1>1
<1>8. HeldInv'
  <2>1. CASE ~Printing(a) /\ ~Printing(Top) /\ writer' = writer
    <3>1. \A k \in 1 .. l : Printing(stack'[k]) <=> Printing(stack[k])
      BY <1>1, <1>6, <2>1
    <3> QED
      BY <1>1, <1>3, <2>1, <3>1 DEF HeldInv
  <2>2. CASE Printing(a) /\ writer' = "held" /\ (Printing(Top) \/ writer # "held")
    <3>1. \A k \in 1 .. l : Printing(stack'[k]) => k = l
      BY <1>5, <1>6, <2>2
    <3> QED
      BY <1>1, <2>2, <3>1 DEF HeldInv
  <2>3. CASE ~Printing(a) /\ Printing(Top)
    <3>1. \A k \in 1 .. l : ~Printing(stack'[k])
      BY <1>1, <1>5, <1>6, <2>3
    <3> QED
      BY <1>1, <3>1 DEF HeldInv
  <2> QED
    BY <2>1, <2>2, <2>3
<1>9. OpenInv'
  <2>1. CASE /\ Top.doing # "newline" /\ a.doing # "newline"
             /\ \A n \in Int : Open(Output', n) <=> Open(Output, n)
    <3>1. \A k \in 1 .. l :
            stack'[k].doing = "newline" => stack[k].doing = "newline" /\ stack'[k] = stack[k]
      BY <1>1, <1>6, <2>1
    <3>2. \A k \in 1 .. l : stack[k].doing = "newline" => stack'[k].doing = "newline"
      BY <1>1, <1>6, <2>1
    <3>3. \A k \in 1 .. l : stack[k].number \in Int
      <4>1. \A k \in 1 .. l : stack[k] \in Activities
        BY Running DEF l
      <4> QED
        BY <4>1 DEF Activities
    <3>4. \A k \in 1 .. l : stack'[k].doing = "newline" => Open(Output', stack'[k].number)
      BY <1>4, <2>1, <3>1, <3>3
    <3>5. \A n \in Int : Open(Output', n) => \E k \in 1 .. l : stack'[k].doing = "newline"
      BY <1>4, <2>1, <3>2
    <3> QED
      BY <1>1, <1>2, <3>4, <3>5 DEF OpenInv
  <2>2. CASE Printing(Top) /\ a.doing = "newline"
               /\ \A n \in Int : Open(Output', n) <=> n = a.number
    <3>1. \A k \in 1 .. l : stack'[k].doing = "newline" => k = l
      BY <1>5, <1>6, <2>2 DEF Printing
    <3> QED
      BY <1>1, <1>2, <1>7, <2>2, <3>1 DEF OpenInv
  <2>3. CASE Printing(Top) /\ a.doing # "newline" /\ \A n \in Int : ~Open(Output', n)
    <3>1. \A k \in 1 .. l : stack'[k].doing # "newline"
      BY <1>1, <1>5, <1>6, <2>3 DEF Printing
    <3> QED
      BY <1>1, <1>2, <2>3, <3>1 DEF OpenInv
  <2> QED
    BY <2>1, <2>2, <2>3
<1> QED
  BY <1>8, <1>9 DEF LinesInv

\* An exception comes, or what it did is done.
LEMMA LinesTurn ==
  ASSUME Inv, LinesInv, OutputType', Output' = Output, WholeLines', writer' = writer, Live',
         \/ \E a \in Activities : Push(a) /\ ~Printing(a)
         \/ Pop /\ Len(stack) = 2 /\ ~Printing(Top),
         Live
  PROVE  LinesInv'
<1>1. \E l \in Nat :
        /\ \A k \in 1 .. Len(stack) : k <= l \/ ~Printing(stack[k])
        /\ \A k \in 1 .. Len(stack') : k <= l \/ ~Printing(stack'[k])
        /\ l <= Len(stack) /\ l <= Len(stack')
        /\ \A k \in 1 .. l : stack'[k] = stack[k]
  <2>1. CASE \E a \in Activities : Push(a) /\ ~Printing(a)
    <3>1. PICK a \in Activities : Push(a) /\ ~Printing(a)
      BY <2>1
    <3>2. /\ Len(stack') = Len(stack) + 1 /\ stack'[Len(stack) + 1] = a /\ Len(stack) \in Nat
          /\ \A k \in 1 .. Len(stack) : stack'[k] = stack[k]
      BY <3>1, Pushing, Running DEF Inv
    <3>3. \A k \in 1 .. Len(stack) + 1 : k <= Len(stack) \/ k = Len(stack) + 1
      BY <3>2
    <3>4. WITNESS Len(stack) \in Nat
    <3> QED
      BY <3>1, <3>2, <3>3
  <2>2. CASE Pop /\ Len(stack) = 2 /\ ~Printing(Top)
    <3>1. Len(stack') = 1 /\ stack'[1] = stack[1] /\ Top = stack[2]
      BY <2>2, Popping DEF Inv, Top
    <3>2. \A k \in 1 .. 2 : k <= 1 \/ k = 2
      OBVIOUS
    <3>3. \A k \in 1 .. 1 : k = 1
      OBVIOUS
    <3> QED
      BY <2>2, <3>1, <3>2, <3>3
  <2> QED
    BY <2>1, <2>2
<1>2. PICK l \in Nat :
        /\ \A k \in 1 .. Len(stack) : k <= l \/ ~Printing(stack[k])
        /\ \A k \in 1 .. Len(stack') : k <= l \/ ~Printing(stack'[k])
        /\ l <= Len(stack) /\ l <= Len(stack')
        /\ \A k \in 1 .. l : stack'[k] = stack[k]
  BY <1>1
<1>3. Len(stack) \in Nat /\ Len(stack') \in Nat
  <2>1. Len(stack) \in Nat
    BY Running
  <2>2. stack' \in Seq(Activities)
    BY Pushing, Popping DEF Inv
  <2> QED
    BY <2>1, <2>2
<1>4. \A k \in 1 .. l : k \in 1 .. Len(stack) /\ k \in 1 .. Len(stack')
  BY <1>2, <1>3
<1>5. \A k \in 1 .. Len(stack) : Printing(stack[k]) => k \in 1 .. l
  BY <1>2, <1>3
<1>6. \A k \in 1 .. Len(stack') : Printing(stack'[k]) => k \in 1 .. l
  BY <1>2, <1>3
<1>7. HeldInv'
  BY <1>2, <1>4, <1>6 DEF LinesInv, HeldInv
<1>8. OpenInv'
  <2>1. \A k \in 1 .. Len(stack') :
          stack'[k].doing = "newline" => Open(Output', stack'[k].number)
    BY <1>2, <1>4, <1>6 DEF LinesInv, OpenInv, Printing
  <2>2. \A n \in Int :
          Open(Output', n) => \E k \in 1 .. Len(stack') : stack'[k].doing = "newline"
    BY <1>2, <1>4, <1>5 DEF LinesInv, OpenInv, Printing
  <2> QED
    BY <2>1, <2>2 DEF OpenInv
<1> QED
  BY <1>7, <1>8 DEF LinesInv

LEMMA InitLines == Init => LinesInv
<1> SUFFICES ASSUME Init
             PROVE  LinesInv
  OBVIOUS
<1> DEFINE a == Activity("program", <<>>)
<1>1. stack = <<a>> /\ a.doing = "run" /\ a.who = "program" /\ line = <<>> /\ fifo = <<>>
      /\ exceptions = 0
  BY DEF Init, Activity
<1>2. Output = <<>> /\ DOMAIN Output = {}
  BY <1>1 DEF Output
<1> HIDE DEF a
<1>3. OutputType
  BY <1>1 DEF OutputType
<1>4. WholeLines
  BY <1>2 DEF WholeLines, Whole
<1>5. Len(stack) = 1 /\ stack[1] = a /\ Top = a
  BY <1>1 DEF Top
<1>6. HeldInv
  BY <1>1, <1>5 DEF HeldInv, Printing
<1>7. OpenInv
  BY <1>1, <1>2, <1>5 DEF OpenInv, Open, Live
<1> QED
  BY <1>3, <1>4, <1>6, <1>7 DEF LinesInv

\* A panic over what runs writes nothing yet.
LEMMA PanicsLines ==
  ASSUME Inv, NEW why, Panics(why), OutputType', WholeLines'
  PROVE  LinesInv'
<1> DEFINE a == [Activity("panic", <<>>) EXCEPT !.section = TRUE, !.number = panics + 1]
<1>1. panics + 1 \in Int /\ Push(a)
  BY DEF Panics, Inv, TypeInv
<1>2. a \in Activities /\ a.who = "panic" /\ a.doing = "run"
  BY <1>1, PanicActivity
<1> HIDE DEF a
<1>3. Top' = a
  BY <1>1, <1>2, Pushing DEF Inv
<1>4. ~Live' /\ Top'.doing = "run"
  BY <1>2, <1>3 DEF Live
<1> QED
  BY <1>4, LinesPanic

\* The activities of exceptions.
LEMMA Excepted ==
  ASSUME NEW who \in {"interrupt", "abort"},
         NEW todo \in {<<>>, <<"steal">>, <<"println", "println">>, <<"println", "panic">>}
  PROVE  /\ Activity(who, todo) \in Activities /\ Activity(who, todo).who = who
         /\ Activity(who, todo).doing = "run"
<1>1. \A x, y \in {"steal", "println", "panic"} :
        /\ <<x>> \in Seq({"steal", "println", "panic"})
        /\ <<x, y>> \in Seq({"steal", "println", "panic"})
  OBVIOUS
<1>2. <<>> \in Seq({"steal", "println", "panic"})
  OBVIOUS
<1>3. todo \in Seq({"steal", "println", "panic"})
  BY <1>1, <1>2
<1> QED
  BY <1>3 DEF Activity, Activities

LEMMA PrintlnLines == ASSUME Inv, LinesInv, Println PROVE LinesInv'
<1>1. Top.doing = "run" /\ Top.who \in {"program", "interrupt", "abort"}
  BY DEF Println, Does
<1>2. Live /\ Top \in Activities /\ ~Printing(Top)
  BY <1>1, Working, Running DEF Printing
<1>3. exceptions' \in Int /\ UNCHANGED uart /\ prints \in Int /\ panics \in Int
      /\ writer \in {"none", "free", "held"}
  BY DEF Println, Inv, TypeInv, LinesInv, OutputType
<1>4. OutputType' /\ Output' = Output /\ WholeLines'
  BY <1>3, NotWritten
<1>5. CASE writer = "none"
  <2>1. Becomes(Done) /\ UNCHANGED writer
    BY <1>5 DEF Println
  <2>2. Done \in Activities /\ Done.who = Top.who /\ Done.doing = "run"
    BY Finishing DEF Inv
  <2>3. ~Printing(Done)
    BY <2>2 DEF Printing
  <2> QED
    BY <1>1, <1>2, <1>4, <2>1, <2>2, <2>3, LinesGoOn
<1>6. CASE writer = "free"
  <2> DEFINE a == [Top EXCEPT !.doing = "text", !.section = TRUE, !.number = prints + 1]
  <2>1. Becomes(a) /\ writer' = "held"
    BY <1>6 DEF Println
  <2>2. a \in Activities /\ a.who = Top.who /\ a.doing = "text"
    <3>1. prints + 1 \in Int
      BY <1>3
    <3> QED
      BY <1>2, <3>1, Texting
  <2> HIDE DEF a
  <2>3. Printing(a)
    BY <2>2 DEF Printing
  <2> QED
    BY <1>1, <1>2, <1>4, <1>6, <2>1, <2>2, <2>3, LinesGoOn
<1>7. CASE writer = "held"
  <2>1. Panics("writer")
    BY <1>7 DEF Println
  <2> QED
    BY <1>4, <2>1, PanicsLines
<1> QED
  BY <1>3, <1>5, <1>6, <1>7

\* A text is written when no line is open, and its end when it is.
LEMMA WriteLines == ASSUME Inv, LinesInv, WriteText \/ WriteNewline PROVE LinesInv'
<1> DEFINE l == Len(stack)
<1>1. Top.doing \in {"text", "newline"}
  BY DEF WriteText, WriteNewline
<1>2. Live /\ Top \in Activities /\ Top = stack[l] /\ l \in 1 .. l /\ Printing(Top)
      /\ Top.number \in Int
  BY <1>1, Working, Running DEF Printing, Activities
<1>3. exceptions' \in Int
  BY DEF WriteText, WriteNewline, counts, LinesInv, OutputType
<1>4. \A k \in 1 .. l : Printing(stack[k]) => k = l
  BY <1>2 DEF LinesInv, HeldInv
<1>5. /\ Top.doing = "newline" => Open(Output, Top.number)
      /\ \A n \in Int : Open(Output, n) => Top.doing = "newline"
  BY <1>2, <1>4 DEF LinesInv, OpenInv, Printing
<1>6. writer = "held"
  BY <1>2 DEF LinesInv, HeldInv
<1>7. CASE WriteText
  <2> DEFINE a == [Top EXCEPT !.doing = "newline"]
             t == <<"text", Top.number>>
  <2>1. Becomes(a) /\ writer' = writer /\ Write(t) /\ Top.doing = "text"
    BY <1>7 DEF WriteText
  <2>2. a \in Activities /\ a.who = Top.who /\ a.doing = "newline" /\ a.number = Top.number
    BY <1>2 DEF Activities
  <2>3. t \in Tokens /\ ~Stolen(t) /\ t[1] = "text"
    BY <1>2 DEF Tokens, Stolen
  <2>4. \A n \in Int : t = <<"text", n>> <=> n = Top.number
    OBVIOUS
  <2> HIDE DEF a, t
  <2>5. Fitted(Output, t)
    BY <1>5, <2>1, <2>3 DEF Fitted
  <2>6. OutputType' /\ WholeLines' /\ \A n \in Int : Open(Output', n) <=> n = a.number
    BY <1>3, <2>1, <2>2, <2>3, <2>4, <2>5, Written
  <2>7. Printing(a)
    BY <2>2 DEF Printing
  <2> QED
    BY <1>2, <1>6, <2>1, <2>2, <2>6, <2>7, LinesGoOn
<1>8. CASE WriteNewline
  <2> DEFINE t == <<"newline", Top.number>>
  <2>1. Becomes(Done) /\ Write(t) /\ Top.doing = "newline"
    BY <1>8 DEF WriteNewline
  <2>2. Done \in Activities /\ Done.who = Top.who /\ Done.doing = "run"
    BY Finishing DEF Inv
  <2>3. t \in Tokens /\ ~Stolen(t) /\ t[1] = "newline" /\ t[2] = Top.number
    BY <1>2 DEF Tokens, Stolen
  <2>4. \A n \in Int : t # <<"text", n>>
    OBVIOUS
  <2>5. ASSUME NEW n \in Int, Open(Output, n)
        PROVE  t = <<"newline", n>>
    <3>1. Output \in Seq(Tokens)
      BY ConcatProperties DEF Output, LinesInv, OutputType
    <3>2. n = Top.number
      BY <1>2, <1>5, <2>1, <2>5, <3>1, OpenOnce
    <3> QED
      BY <3>2
  <2> HIDE DEF t
  <2>6. Fitted(Output, t)
    BY <1>5, <2>1, <2>3, <2>5 DEF Fitted
  <2>7. OutputType' /\ WholeLines' /\ \A n \in Int : ~Open(Output', n)
    BY <1>3, <2>1, <2>3, <2>4, <2>6, Written
  <2>8. ~Printing(Done)
    BY <2>2 DEF Printing
  <2> QED
    BY <1>2, <2>1, <2>2, <2>7, <2>8, LinesGoOn
<1> QED
  BY <1>7, <1>8

LEMMA StealLines == ASSUME Inv, LinesInv, StealText \/ StealNewline PROVE LinesInv'
<1>1. Top.doing \in {"run", "stolen"} /\ (Top.doing = "run" => Top.who = "abort")
  BY DEF StealText, StealNewline, Does
<1>2. Live /\ Top \in Activities /\ ~Printing(Top)
  BY <1>1, Working, Running DEF Printing
<1>3. writer' = writer /\ exceptions' = exceptions /\ exceptions \in Int
  BY DEF StealText, StealNewline, counts, LinesInv, OutputType
<1>4. PICK a \in Activities : Becomes(a) /\ a.who = Top.who /\ a.doing \in {"run", "stolen"}
  <2>1. CASE StealText
    <3>1. Becomes([Top EXCEPT !.doing = "stolen"])
      BY <2>1 DEF StealText
    <3> QED
      BY <1>2, <3>1, Doing DEF Doings
  <2>2. CASE StealNewline
    <3>1. Becomes(Done)
      BY <2>2 DEF StealNewline
    <3> QED
      BY <3>1, Finishing DEF Inv
  <2> QED
    BY <2>1, <2>2
<1>5. PICK w \in {"steal", "stolen"} : Write(<<w, exceptions>>)
  BY DEF StealText, StealNewline
<1> DEFINE t == <<w, exceptions>>
<1>6. t \in Tokens /\ Stolen(t)
  BY <1>3, <1>5 DEF Tokens, Stolen
<1>7. Write(t)
  BY <1>5
<1> HIDE DEF t
<1>8. OutputType' /\ WholeLines' /\ \A n \in Int : Open(Output', n) <=> Open(Output, n)
  BY <1>3, <1>6, <1>7, Written DEF Fitted
<1>9. ~Printing(a) /\ a.doing # "newline" /\ Top.doing # "newline"
  BY <1>1, <1>4 DEF Printing
<1> QED
  BY <1>2, <1>3, <1>4, <1>8, <1>9, LinesGoOn

LEMMA AllocationLines == ASSUME Inv, LinesInv, Allocate \/ Allocated PROVE LinesInv'
<1>1. Top.doing = "alloc" \/ (Top.doing = "run" /\ Top.who \in {"program", "interrupt"})
  BY DEF Allocate, Allocated, Does
<1>2. Live /\ Top \in Activities /\ ~Printing(Top)
  BY <1>1, Working, Running DEF Printing
<1>3. exceptions' \in Int /\ UNCHANGED uart /\ writer' = writer /\ used \in Nat /\ panics \in Int
  BY DEF Allocate, Allocated, Inv, TypeInv, LinesInv, OutputType
<1>4. OutputType' /\ Output' = Output /\ WholeLines'
  BY <1>3, NotWritten
<1>5. ASSUME NEW a \in Activities, Becomes(a), a.who = Top.who, a.doing \in {"alloc", "run"}
      PROVE  LinesInv'
  <2>1. ~Printing(a) /\ a.doing # "newline" /\ Top.doing # "newline"
    BY <1>1, <1>5 DEF Printing
  <2> QED
    BY <1>2, <1>3, <1>4, <1>5, <2>1, LinesGoOn
<1>6. CASE \E why : Panics(why)
  BY <1>4, <1>6, PanicsLines
<1>7. CASE \E m \in Layouts : Becomes([Top EXCEPT !.doing = "alloc", !.layout = m, !.seen = used])
  <2>1. PICK m \in Layouts : Becomes([Top EXCEPT !.doing = "alloc", !.layout = m, !.seen = used])
    BY <1>7
  <2> DEFINE a == [Top EXCEPT !.doing = "alloc", !.layout = m, !.seen = used]
  <2>2. Becomes(a)
    BY <2>1
  <2>3. Top \in Activities /\ used \in Nat /\ m \in Layouts
    BY <1>2, <1>3
  <2>4. a \in Activities
    BY <2>3 DEF Activities
  <2>5. a.who = Top.who /\ a.doing = "alloc"
    BY <2>3 DEF Activities
  <2> HIDE DEF a
  <2> QED
    BY <1>5, <2>2, <2>4, <2>5
<1>8. CASE Becomes(Done)
  BY <1>5, <1>8, Finishing DEF Inv
<1>9. CASE Allocate
  BY <1>6, <1>7, <1>9 DEF Allocate
<1>10. CASE Allocated
  BY <1>6, <1>8, <1>10 DEF Allocated
<1> QED
  BY <1>9, <1>10

LEMMA ExceptionLines ==
  ASSUME Inv, LinesInv, Inv', Interrupt \/ DataAbort \/ Return PROVE LinesInv'
<1>1. Len(stack) = 1 \/ Top.who \in {"interrupt", "abort"}
  BY DEF Interrupt, DataAbort, Return
<1>2. Live /\ Len(stack) \in {1, 2} /\ Top = stack[Len(stack)]
  BY <1>1, Working, Running
<1>3. UNCHANGED uart /\ writer' = writer /\ exceptions' \in Int
  BY DEF Interrupt, DataAbort, Return, counts, LinesInv, OutputType
<1>4. OutputType' /\ Output' = Output /\ WholeLines'
  BY <1>3, NotWritten
<1>5. CASE Interrupt \/ DataAbort
  <2>1. PICK a \in Activities : Push(a) /\ a.doing = "run" /\ a.who \in {"interrupt", "abort"}
    <3>1. CASE Interrupt
      <4>1. Push(Activity("interrupt", <<>>))
        BY <3>1 DEF Interrupt
      <4> QED
        BY <4>1, Excepted
    <3>2. CASE DataAbort
      <4>1. PICK todo \in {<<"steal">>, <<"println", "println">>, <<"println", "panic">>} :
              Push(Activity("abort", todo))
        BY <3>2 DEF DataAbort
      <4> QED
        BY <4>1, Excepted
    <3> QED
      BY <1>5, <3>1, <3>2
  <2>2. Top' = a
    BY <2>1, Pushing DEF Inv
  <2>3. Live' /\ ~Printing(a)
    BY <2>1, <2>2 DEF Live, Printing
  <2> QED
    BY <1>2, <1>3, <1>4, <2>1, <2>3, LinesTurn
<1>6. CASE Return
  <2>1. Top.doing = "run" /\ Top.who \in {"interrupt", "abort"} /\ Pop
    BY <1>6 DEF Return
  <2>2. Len(stack) = 2 /\ stack[1].who = "program"
    BY <1>2, <2>1 DEF Inv, StackInv
  <2>3. Top' = stack[1] /\ ~Printing(Top)
    BY <2>1, <2>2, Popping DEF Inv, Printing
  <2>4. Live'
    BY <2>2, <2>3 DEF Live
  <2> QED
    BY <1>2, <1>3, <1>4, <2>1, <2>2, <2>3, <2>4, LinesTurn
<1> QED
  BY <1>5, <1>6

LEMMA PanicLines == ASSUME Inv, LinesInv, FormatFails \/ Panic PROVE LinesInv'
<1>1. \E why : Panics(why)
  BY DEF FormatFails, Panic
<1>2. UNCHANGED uart /\ exceptions' \in Int
  BY DEF FormatFails, Panic, LinesInv, OutputType
<1> QED
  BY <1>1, <1>2, NotWritten, PanicsLines

LEMMA PanicAgainLines == ASSUME Inv, LinesInv, PanicAgain PROVE LinesInv'
<1> DEFINE a == [Activity("panic", <<>>) EXCEPT !.section = TRUE, !.number = panics + 1]
<1>1. panics + 1 \in Int /\ Push(a) /\ UNCHANGED uart /\ exceptions' \in Int
  BY DEF PanicAgain, Inv, TypeInv, LinesInv, OutputType
<1>2. a \in Activities /\ a.who = "panic" /\ a.doing = "run"
  BY <1>1, PanicActivity
<1> HIDE DEF a
<1>3. Top' = a
  BY <1>1, <1>2, Pushing DEF Inv
<1>4. ~Live' /\ Top'.doing = "run"
  BY <1>2, <1>3 DEF Live
<1> QED
  BY <1>1, <1>4, NotWritten, LinesPanic

\* A message ends the line that is open, and its own end follows it.
LEMMA PanickingLines ==
  ASSUME Inv, LinesInv, PanicEnter \/ PanicMessage \/ PanicEnd
  PROVE  LinesInv'
<1>1. Top.who = "panic" /\ Top \in Activities /\ Top.number \in Int /\ ~Live
  BY Running DEF PanicEnter, PanicMessage, PanicEnd, Panicking, Live, Activities
<1>2. exceptions' \in Int
  BY DEF PanicEnter, PanicMessage, PanicEnd, counts, LinesInv, OutputType
<1>3. ASSUME NEW d \in Doings, Becomes([Top EXCEPT !.doing = d])
      PROVE  Top'.doing = d /\ ~Live'
  <2> DEFINE a == [Top EXCEPT !.doing = d]
  <2>1. a \in Activities /\ a.who = Top.who /\ a.doing = d /\ Becomes(a)
    BY <1>1, <1>3, Doing
  <2> HIDE DEF a
  <2>2. Top' = a
    BY <2>1, Becoming DEF Inv
  <2> QED
    BY <1>1, <2>1, <2>2 DEF Live
<1>4. CASE PanicEnter
  <2>1. Top'.doing = "message" /\ ~Live'
    BY <1>3, <1>4 DEF PanicEnter, Doings
  <2>2. OutputType' /\ WholeLines'
    <3>1. CASE UNCHANGED uart
      BY <1>2, <3>1, NotWritten
    <3>2. CASE fifo' = <<>> /\ line' = line
      <4>1. line \in Seq(Tokens) /\ fifo \in Seq(Tokens) /\ Whole(line \o fifo)
        BY DEF LinesInv, OutputType, WholeLines, Output
      <4>2. Whole(line)
        BY <4>1, WholePrefix
      <4>3. line \o <<>> = line /\ <<>> \in Seq(Tokens)
        BY <4>1, ConcatEmptySeq
      <4>4. Output' = line
        BY <3>2, <4>3 DEF Output
      <4> QED
        BY <1>2, <3>2, <4>1, <4>2, <4>3, <4>4 DEF OutputType, WholeLines
    <3> QED
      BY <1>4, <3>1, <3>2 DEF PanicEnter
  <2> QED
    BY <2>1, <2>2, LinesPanic
<1>5. CASE PanicMessage
  <2> DEFINE t == <<"message", Top.number>>
  <2>1. Top'.doing = "end" /\ ~Live'
    BY <1>3, <1>5 DEF PanicMessage, Doings
  <2>2. t \in Tokens /\ ~Stolen(t) /\ t[1] = "message" /\ \A n \in Int : t # <<"text", n>>
    BY <1>1 DEF Tokens, Stolen
  <2>3. Write(t)
    BY <1>5 DEF PanicMessage
  <2> HIDE DEF t
  <2>4. OutputType' /\ WholeLines' /\ \A n \in Int : ~Open(Output', n)
    BY <1>2, <2>2, <2>3, Written DEF Fitted
  <2> QED
    BY <2>1, <2>4, LinesPanic
<1>6. CASE PanicEnd
  <2> DEFINE t == <<"DONE!!!", Top.number>>
  <2>1. Top'.doing = "reboot" /\ ~Live' /\ Top.doing = "end"
    BY <1>3, <1>6 DEF PanicEnd, Panicking, Doings
  <2>2. t \in Tokens /\ ~Stolen(t) /\ t[1] # "newline" /\ \A n \in Int : t # <<"text", n>>
    BY <1>1 DEF Tokens, Stolen
  <2>3. Write(t)
    BY <1>6 DEF PanicEnd
  <2> HIDE DEF t
  <2>4. \A n \in Int : ~Open(Output, n)
    BY <1>1, <2>1 DEF LinesInv, OpenInv
  <2>5. OutputType' /\ WholeLines' /\ \A n \in Int : ~Open(Output', n)
    BY <1>2, <2>2, <2>3, <2>4, Written DEF Fitted
  <2> QED
    BY <2>1, <2>5, LinesPanic
<1> QED
  BY <1>4, <1>5, <1>6

\* What was sent, and the reboot, are the same for the lines.
LEMMA QuietLines ==
  ASSUME Inv, LinesInv, Send \/ StoreUart \/ Reboot \/ UNCHANGED vars
  PROVE  LinesInv'
<1>1. UNCHANGED stack /\ (writer' = writer \/ writer = "none")
  BY DEF Send, StoreUart, Reboot, vars
<1>2. OutputType' /\ Output' = Output
  <2>1. CASE Send
    BY <2>1, Sent
  <2>2. CASE StoreUart \/ Reboot \/ UNCHANGED vars
    <3>1. UNCHANGED uart /\ exceptions' \in Int
      BY <2>2 DEF StoreUart, Reboot, vars, counts, LinesInv, OutputType
    <3> QED
      BY <3>1, NotWritten
  <2> QED
    BY <2>1, <2>2
<1> QED
  BY <1>1, <1>2, LinesKept

LEMMA NextLines == ASSUME Inv, Inv', LinesInv, [Next]_vars PROVE LinesInv'
<1>1. CASE UNCHANGED vars \/ Send \/ StoreUart \/ Reboot
  BY <1>1, QuietLines
<1>2. CASE Println \/ WriteText \/ WriteNewline \/ StealText \/ StealNewline
  BY <1>2, PrintlnLines, WriteLines, StealLines
<1>3. CASE Allocate \/ Allocated
  BY <1>3, AllocationLines
<1>4. CASE Interrupt \/ DataAbort \/ Return
  BY <1>4, ExceptionLines
<1>5. CASE FormatFails \/ Panic \/ PanicAgain \/ PanicEnter \/ PanicMessage \/ PanicEnd
  BY <1>5, PanicLines, PanicAgainLines, PanickingLines
<1> QED
  BY <1>1, <1>2, <1>3, <1>4, <1>5 DEF Next, PanicStep

-----------------------------------------------------------------------------
\* Blocks are apart, in the heap and, where all are multiples, aligned: allocations
\* that interrupt one another panic instead of sharing memory.
THEOREM BlocksApart == Spec => []HeapSound
<1>1. Inv => HeapSound
  BY DEF Inv, BlocksInv
<1> QED
  BY <1>1, Invariant, PTL

\* When no layout exceeds the heap, each panic over the writer, the allocator or the
\* heap's end has one of the causes that PanicCauses names.
THEOREM CausesKnown == ASSUME Fitting PROVE Spec => []PanicCauses
<1>1. Inv => PanicCauses
  BY DEF Inv, CauseInv, PanicCauses, Printing, Allocating
<1> QED
  BY <1>1, Invariant, PTL

\* Every line that is written ends with its own end: what other activities print while
\* its arguments are formatted panics, and only a stolen line or a panic's message
\* comes between.
THEOREM LinesWhole == Spec => []WholeLines
<1>1. Init => LinesInv
  BY InitLines
<1>2. Inv /\ Inv' /\ LinesInv /\ [Next]_vars => LinesInv'
  BY NextLines
<1>3. LinesInv => WholeLines
  BY DEF LinesInv
<1> QED
  BY <1>1, <1>2, <1>3, Invariant, PTL DEF Spec

=============================================================================
