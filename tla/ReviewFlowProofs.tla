-------------------------- MODULE ReviewFlowProofs --------------------------
(***************************************************************************)
(* Theorems about ReviewFlow, for every number of outputs up to the bound   *)
(* of its assumption, which lies far above MAX_COIN_LEN.                    *)
(***************************************************************************)
EXTENDS ReviewFlow, TLAPS

---------------------------------------------------------------------------
(* Arithmetic.                                                              *)

\* int8_t holds every step_flow a review needs.
LEMMA Int8Exact == \A n \in -128 .. 127 : Int8(n) = n
BY DEF Int8

LEMMA SumRange ==
  ASSUME NEW f, toLen \in 0 .. MaxOutputs
  PROVE  SumOf(f) \in 1 .. 122
BY ReviewAssumption DEF SumOf

---------------------------------------------------------------------------
(* The review step by step.                                                 *)

\* The inductive invariant: InStep, with the pages that have been seen.
FlowInv ==
  /\ flow \in Flows \cup {"none"}
  /\ toLen \in 0 .. MaxOutputs
  /\ index \in {0, 2, 4, 5}
  /\ currentState \in {"STATIC", "DYNAMIC"}
  /\ stepFlow \in -128 .. 127
  /\ InStep
  /\ IsOpen /\ index = 2 => 1 .. stepFlow \subseteq shown
  /\ AllShown

LEMMA FlowInit == Init => FlowInv
BY ReviewAssumption DEF Init, FlowInv, InStep, IsOpen, AllShown, Flows

\* What the callback finds, in numbers: step_flow never leaves int8_t.
LEMMA CallbackFinds ==
  ASSUME FlowInv, IsOpen
  PROVE  /\ Sum \in 1 .. 122
         /\ Following = stepFlow + 1 /\ Preceding = stepFlow - 1
         /\ HasNext <=> stepFlow + 1 <= Sum
         /\ HasPrevious <=> stepFlow - 1 # 0
<1>1. Sum \in 1 .. 122
  BY SumRange DEF FlowInv, Sum
<1>2. stepFlow \in 0 .. 123
  BY <1>1 DEF FlowInv, InStep, IsOpen
<1>3. Following = stepFlow + 1 /\ Preceding = stepFlow - 1
  BY <1>2, Int8Exact DEF Following, Preceding
<1>. QED  BY <1>1, <1>3 DEF HasNext, HasPrevious

\* Where a step leaves the review: before the pages, on one, or past the last.
Landed ==
  /\ UNCHANGED <<flow, toLen>>
  /\ \/ index' = 0 /\ currentState' = "STATIC" /\ stepFlow' = 0
     \/ /\ index' = 2 /\ currentState' = "DYNAMIC"
        /\ stepFlow' \in 1 .. Sum /\ 1 .. stepFlow' \subseteq shown'
     \/ /\ index' \in {4, 5} /\ currentState' = "STATIC"
        /\ stepFlow' = Sum + 1 /\ 1 .. Sum \subseteq shown'

LEMMA LandingKeeps ==
  ASSUME FlowInv, IsOpen, Landed  PROVE FlowInv'
<1>1. Sum' = Sum
  BY DEF Landed, Sum, SumOf
<1>2. Sum \in 1 .. 122
  BY CallbackFinds
<1>3. IsOpen' /\ flow' \in Flows \cup {"none"} /\ toLen' \in 0 .. MaxOutputs
  BY DEF Landed, IsOpen, FlowInv
<1>. QED  BY <1>1, <1>2, <1>3 DEF Landed, FlowInv, InStep, AllShown

\* A delimiter that turns to a page, and one that turns past them.
LEMMA TurnLands ==
  ASSUME NEW to, NEW state
  PROVE  /\ TurnNext(to, state) =>
              /\ stepFlow' = Following /\ index' = to /\ currentState' = state
              /\ UNCHANGED <<flow, toLen>>
              /\ shown \subseteq shown' /\ (to = 2 => Following \in shown')
         /\ TurnBack(to, state) =>
              /\ stepFlow' = Preceding /\ index' = to /\ currentState' = state
              /\ UNCHANGED <<flow, toLen>>
              /\ shown \subseteq shown' /\ (to = 2 => Preceding \in shown')
BY DEF TurnNext, TurnBack, Turn

\* The position before and after a step within a review.
LEMMA PositionsAre ==
  ASSUME IsOpen
  PROVE  /\ index = 0 => Position = 0
         /\ index = 2 => Position = stepFlow
         /\ index = 4 => Position = Sum + 1
         /\ index = 5 => Position = Sum + 2
         /\ UNCHANGED <<flow, toLen>> =>
              /\ Sum' = Sum
              /\ index' = 0 => Position' = 0
              /\ index' = 2 => Position' = stepFlow'
              /\ index' = 4 => Position' = Sum + 1
              /\ index' = 5 => Position' = Sum + 2
<1>1. UNCHANGED <<flow, toLen>> => Sum' = Sum
  BY DEF Sum, SumOf
<1>. QED  BY <1>1 DEF Position, IsOpen

LEMMA UpperLands ==
  ASSUME FlowInv, IsOpen, index \in {0, 2}, UpperDelimiter
  PROVE  /\ Landed
         /\ Position' = (IF index = 0 THEN Position + 1 ELSE Position - 1)
<1>1. /\ Sum \in 1 .. 122
      /\ Following = stepFlow + 1 /\ Preceding = stepFlow - 1
      /\ HasNext <=> stepFlow + 1 <= Sum
      /\ HasPrevious <=> stepFlow - 1 # 0
  BY CallbackFinds
<1>2. CASE index = 0
  <2>1. currentState = "STATIC" /\ stepFlow = 0
    BY <1>2 DEF FlowInv, InStep
  <2>2. TurnNext(2, "DYNAMIC")
    BY <1>1, <2>1 DEF UpperDelimiter
  <2>3. stepFlow' = 1 /\ index' = 2 /\ currentState' = "DYNAMIC" /\ 1 \in shown'
        /\ UNCHANGED <<flow, toLen>>
    BY <1>1, <2>1, <2>2, TurnLands
  <2>. QED  BY <1>1, <2>3, <1>2, PositionsAre DEF Landed
<1>3. CASE index = 2
  <2>1. currentState = "DYNAMIC" /\ stepFlow \in 1 .. Sum /\ 1 .. stepFlow \subseteq shown
    BY <1>3 DEF FlowInv, InStep
  <2>2. CASE stepFlow = 1
    <3>1. TurnBack(0, "STATIC")
      BY <1>1, <2>1, <2>2 DEF UpperDelimiter
    <3>. QED  BY <1>1, <2>2, <3>1, TurnLands, <1>3, PositionsAre DEF Landed
  <2>3. CASE stepFlow # 1
    <3>1. TurnBack(2, "DYNAMIC")
      BY <1>1, <2>1, <2>3 DEF UpperDelimiter
    <3>2. /\ stepFlow' = stepFlow - 1 /\ index' = 2 /\ currentState' = "DYNAMIC"
          /\ shown \subseteq shown' /\ UNCHANGED <<flow, toLen>>
      BY <1>1, <3>1, TurnLands
    <3>. QED  BY <1>1, <2>1, <2>3, <3>2, <1>3, PositionsAre DEF Landed
  <2>. QED  BY <2>2, <2>3
<1>. QED  BY <1>2, <1>3

LEMMA LowerLands ==
  ASSUME FlowInv, IsOpen, index \in {2, 4}, LowerDelimiter
  PROVE  /\ Landed
         /\ Position' = (IF index = 2 THEN Position + 1 ELSE Position - 1)
<1>1. /\ Sum \in 1 .. 122
      /\ Following = stepFlow + 1 /\ Preceding = stepFlow - 1
      /\ HasNext <=> stepFlow + 1 <= Sum
      /\ HasPrevious <=> stepFlow - 1 # 0
  BY CallbackFinds
<1>2. CASE index = 4
  <2>1. currentState = "STATIC" /\ stepFlow = Sum + 1 /\ 1 .. Sum \subseteq shown
    BY <1>2 DEF FlowInv, InStep, AllShown
  <2>2. TurnBack(2, "DYNAMIC")
    BY <1>1, <2>1 DEF LowerDelimiter
  <2>3. /\ stepFlow' = Sum /\ index' = 2 /\ currentState' = "DYNAMIC"
        /\ shown \subseteq shown' /\ UNCHANGED <<flow, toLen>>
    BY <1>1, <2>1, <2>2, TurnLands
  <2>. QED  BY <1>1, <2>1, <2>3, <1>2, PositionsAre DEF Landed
<1>3. CASE index = 2
  <2>1. currentState = "DYNAMIC" /\ stepFlow \in 1 .. Sum /\ 1 .. stepFlow \subseteq shown
    BY <1>3 DEF FlowInv, InStep
  <2>2. CASE stepFlow = Sum
    <3>1. TurnNext(4, "STATIC")
      BY <1>1, <2>1, <2>2 DEF LowerDelimiter
    <3>2. /\ stepFlow' = Sum + 1 /\ index' = 4 /\ currentState' = "STATIC"
          /\ shown \subseteq shown' /\ UNCHANGED <<flow, toLen>>
      BY <1>1, <2>2, <3>1, TurnLands
    <3>. QED  BY <2>1, <2>2, <3>2, <1>3, PositionsAre DEF Landed
  <2>3. CASE stepFlow # Sum
    <3>1. TurnNext(2, "DYNAMIC")
      BY <1>1, <2>1, <2>3 DEF LowerDelimiter
    <3>2. /\ stepFlow' = stepFlow + 1 /\ index' = 2 /\ currentState' = "DYNAMIC"
          /\ shown \subseteq shown' /\ stepFlow + 1 \in shown'
          /\ UNCHANGED <<flow, toLen>>
      BY <1>1, <3>1, TurnLands
    <3>. QED  BY <1>1, <2>1, <2>3, <3>2, <1>3, PositionsAre DEF Landed
  <2>. QED  BY <2>2, <2>3
<1>. QED  BY <1>2, <1>3

LEMMA JumpLands ==
  ASSUME FlowInv, IsOpen, index \in {4, 5}, NEW to \in {4, 5} \ {index}, Jump(to)
  PROVE  /\ Landed
         /\ Position' = (IF index = 4 THEN Position + 1 ELSE Position - 1)
<1>1. Sum \in 1 .. 122
  BY CallbackFinds
<1>. QED
  BY <1>1, PositionsAre DEF Jump, Landed, FlowInv, InStep, AllShown

\* A press of a button: the review is left in order, one position further.
LEMMA ButtonLands ==
  ASSUME FlowInv, Right \/ Left
  PROVE  /\ IsOpen /\ Landed
         /\ \/ Position \in 0 .. Sum + 1 /\ Position' = Position + 1
            \/ Position \in 1 .. Sum + 2 /\ Position' = Position - 1
<1>1. IsOpen /\ Sum \in 1 .. 122
  BY CallbackFinds DEF Right, Left
<1>2. /\ index = 0 => Position = 0
      /\ index = 2 => Position \in 1 .. Sum
      /\ index = 4 => Position = Sum + 1
      /\ index = 5 => Position = Sum + 2
  BY <1>1 DEF Position, FlowInv, InStep
<1>. QED  BY <1>1, <1>2, UpperLands, LowerLands, JumpLands DEF Right, Left

LEMMA FlowStep ==
  ASSUME ~Interruptible, FlowInv, [Next]_vars  PROVE FlowInv'
<1>1. CASE Right \/ Left
  BY <1>1, ButtonLands, LandingKeeps
<1>2. CASE Choose
  <2>1. currentState = "STATIC"
    BY <1>2 DEF Choose, FlowInv, InStep
  <2>2. flow' = "none" /\ UNCHANGED <<toLen, index, currentState, stepFlow>>
    BY <1>2 DEF Choose, Close
  <2>. QED  BY <2>1, <2>2 DEF FlowInv, InStep, IsOpen, AllShown
<1>3. ASSUME NEW f \in Flows, NEW n \in 0 .. MaxOutputs, Open(f, n)
      PROVE  FlowInv'
  BY <1>3 DEF Open, FlowInv, InStep, IsOpen, AllShown
<1>4. CASE UNCHANGED vars
  <2>1. Sum' = Sum
    BY <1>4 DEF vars, Sum, SumOf
  <2>. QED  BY <1>4, <2>1 DEF vars, FlowInv, InStep, IsOpen, AllShown
<1>. QED  BY <1>1, <1>2, <1>3, <1>4 DEF Next, Interrupt

---------------------------------------------------------------------------
(* The pages.                                                               *)

\* A page of the flow depends on the flow and the number of outputs only.
LEMMA PageStays ==
  ASSUME FlowInv, IsOpen, UNCHANGED <<flow, toLen>>, NEW n \in 1 .. Sum
  PROVE  PageAt(n)' = PageAt(n)
<1>1. Sum' = Sum /\ Sum \in 1 .. 122
  BY CallbackFinds DEF Sum, SumOf
<1>2. CASE flow = "coins"
  BY <1>1, <1>2 DEF PageAt
<1>3. CASE flow = "nrc20"
  <2>1. n \in DOMAIN Nrc20Items
    BY <1>3 DEF Sum, SumOf, Nrc20Items
  <2>. QED  BY <1>3, <2>1 DEF PageAt, Fixed, Nrc20Items
<1>4. CASE flow = "contract"
  <2>1. n \in DOMAIN ContractItems
    BY <1>4 DEF Sum, SumOf, ContractItems
  <2>. QED  BY <1>4, <2>1 DEF PageAt, Fixed, ContractItems
<1>5. CASE flow \notin {"coins", "nrc20", "contract"}
  BY <1>5 DEF PageAt
<1>. QED  BY <1>2, <1>3, <1>4, <1>5

\* A delimiter that lands on a page has composed it.
LEMMA Composed ==
  ASSUME FlowInv, IsOpen, Landed, index' = 2, UpperDelimiter \/ LowerDelimiter
  PROVE  page' = PageAt(stepFlow')
<1>1. /\ Sum \in 1 .. 122
      /\ Following = stepFlow + 1 /\ Preceding = stepFlow - 1
      /\ HasNext <=> stepFlow + 1 <= Sum
      /\ HasPrevious <=> stepFlow - 1 # 0
  BY CallbackFinds
<1>2. stepFlow' \in 1 .. Sum
  BY DEF Landed
<1>3. ASSUME NEW to, NEW state, TurnNext(to, state)  PROVE page' = PageAt(stepFlow')
  <2>1. stepFlow' = Following /\ HasNext
    BY <1>1, <1>2, <1>3, TurnLands
  <2>. QED  BY <1>3, <2>1 DEF TurnNext, Turn
<1>4. ASSUME NEW to, NEW state, TurnBack(to, state)  PROVE page' = PageAt(stepFlow')
  <2>1. stepFlow' = Preceding /\ HasPrevious
    BY <1>1, <1>2, <1>4, TurnLands
  <2>. QED  BY <1>4, <2>1 DEF TurnBack, Turn
<1>. QED  BY <1>3, <1>4 DEF UpperDelimiter, LowerDelimiter

LEMMA PageStep ==
  ASSUME ~Interruptible, FlowInv, PageIsCurrent, [Next]_vars  PROVE PageIsCurrent'
<1>1. CASE Right \/ Left
  <2>1. IsOpen /\ Landed
    BY <1>1, ButtonLands
  <2>2. CASE UpperDelimiter \/ LowerDelimiter
    <3>. SUFFICES ASSUME index' = 2  PROVE page' = PageAt(stepFlow)'
      BY DEF PageIsCurrent
    <3>1. PICK n \in 1 .. Sum : n = stepFlow'
      BY <2>1 DEF Landed
    <3>2. page' = PageAt(n)
      BY <2>1, <2>2, <3>1, Composed
    <3>3. PageAt(n)' = PageAt(n)
      BY <2>1, PageStays DEF Landed
    <3>. QED  BY <3>1, <3>2, <3>3
  <2>3. CASE index' \in {4, 5}
    BY <2>3 DEF PageIsCurrent
  <2>. QED  BY <1>1, <2>2, <2>3 DEF Right, Left, Jump
<1>2. CASE Choose
  BY <1>2 DEF Choose, Close, PageIsCurrent, IsOpen
<1>3. ASSUME NEW f \in Flows, NEW n \in 0 .. MaxOutputs, Open(f, n)
      PROVE  PageIsCurrent'
  BY <1>3 DEF Open, PageIsCurrent
<1>4. CASE UNCHANGED vars
  <2>1. IsOpen /\ index = 2 => stepFlow \in 1 .. Sum
    BY DEF FlowInv, InStep
  <2>2. IsOpen /\ index = 2 => PageAt(stepFlow)' = PageAt(stepFlow)
    BY <1>4, <2>1, PageStays DEF vars
  <2>. QED  BY <1>4, <2>2 DEF vars, PageIsCurrent, IsOpen
<1>. QED  BY <1>1, <1>2, <1>3, <1>4 DEF Next, Interrupt

\* Odd pages of a transfer, but the first, are the addresses, in their order.
LEMMA AddressPage ==
  ASSUME FlowInv, IsOpen, flow = "coins", NEW i \in 0 .. toLen - 1
  PROVE  2 * i + 3 \in 1 .. Sum /\ PageAt(2 * i + 3) = Item("Address", i)
<1>1. toLen \in 0 .. 60 /\ Sum = 2 + 2 * toLen
  BY ReviewAssumption DEF FlowInv, Sum, SumOf
<1>2. 2 * i + 3 \in 1 .. Sum /\ 2 * i + 3 # 1 /\ 2 * i + 3 # Sum
  BY <1>1
<1>3. (2 * i + 3) % 2 = 1 /\ Half(2 * i + 3 - 2) = i
  BY <1>1 DEF Half
<1>. QED  BY <1>2, <1>3 DEF PageAt

\* What a page step may hold, and the pages that may have been seen.
PageTyped ==
  /\ page \in [what : {"none", "Type", "Amount", "Address", "Method", "Fee"}, of : Int]
  /\ shown \subseteq -128 .. 127

LEMMA PageAtTyped ==
  ASSUME PageTyped, NEW n \in -128 .. 127
  PROVE  PageAt(n) \in [what : {"none", "Type", "Amount", "Address", "Method", "Fee"},
                        of : Int]
<1>1. Half(n - 3) \in Int /\ Half(n - 2) \in Int
  BY DEF Half
<1>2. Fixed(Nrc20Items, n) \in [what : {"none", "Type", "Amount", "Address",
                                       "Method", "Fee"}, of : Int]
  BY DEF PageTyped, Fixed, Nrc20Items, Item
<1>3. Fixed(ContractItems, n) \in [what : {"none", "Type", "Amount", "Address",
                                          "Method", "Fee"}, of : Int]
  BY DEF PageTyped, Fixed, ContractItems, Item
<1>. QED  BY <1>1, <1>2, <1>3 DEF PageAt, Item

LEMMA PageTypedStep ==
  ASSUME ~Interruptible, FlowInv, PageTyped, [Next]_vars  PROVE PageTyped'
<1>1. ASSUME IsOpen, UpperDelimiter \/ LowerDelimiter  PROVE PageTyped'
  <2>1. Following \in -128 .. 127 /\ Preceding \in -128 .. 127
    <3>1. stepFlow \in 0 .. 123
      BY <1>1, CallbackFinds DEF FlowInv, InStep, IsOpen
    <3>. QED  BY <1>1, <3>1, CallbackFinds
  <2>2. ASSUME NEW n \in -128 .. 127, NEW composed \in {page, PageAt(n)},
               NEW to, NEW state, Turn(n, composed, to, state)
        PROVE  PageTyped'
    <3>1. page' \in {page, PageAt(n)} /\ shown' \subseteq shown \cup {n}
      BY <2>2 DEF Turn
    <3>. QED  BY <3>1, PageAtTyped DEF PageTyped
  <2>3. ASSUME NEW to, NEW state, TurnNext(to, state)  PROVE PageTyped'
    BY <2>1, <2>2, <2>3 DEF TurnNext
  <2>4. ASSUME NEW to, NEW state, TurnBack(to, state)  PROVE PageTyped'
    BY <2>1, <2>2, <2>4 DEF TurnBack
  <2>. QED  BY <1>1, <2>3, <2>4 DEF UpperDelimiter, LowerDelimiter
<1>2. CASE UNCHANGED <<page, shown>>
  BY <1>2 DEF PageTyped
<1>3. ASSUME NEW f \in Flows, NEW n \in 0 .. MaxOutputs, Open(f, n)
      PROVE  PageTyped'
  BY <1>3 DEF Open, PageTyped
<1>. QED
  BY <1>1, <1>2, <1>3 DEF Next, Interrupt, Choose, Close, Right, Left, Jump, vars

---------------------------------------------------------------------------
(* The theorems.                                                            *)

\* current_state, step_flow and the step of the flow agree, if a review ends
\* only by the user's choice (display_next_state, ui_display_sign_tx).
THEOREM StepsAgree ==
  ASSUME ~Interruptible
  PROVE  Spec => []InStep
<1>1. FlowInv => InStep
  BY DEF FlowInv
<1>2. FlowInv /\ [Next]_vars => FlowInv'
  BY FlowStep
<1>. QED  BY <1>1, <1>2, FlowInit, PTL DEF Spec

\* The ways out are reached only through all of the pages.
THEOREM PagesAllShown ==
  ASSUME ~Interruptible
  PROVE  Spec => []AllShown
<1>1. FlowInv => AllShown
  BY DEF FlowInv
<1>2. FlowInv /\ [Next]_vars => FlowInv'
  BY FlowStep
<1>. QED  BY <1>1, <1>2, FlowInit, PTL DEF Spec

\* The review implements the list of pages: no page is skipped or repeated in
\* either direction, and it ends only at its two ways out.
THEOREM ReviewIsPageList ==
  ASSUME ~Interruptible
  PROVE  Spec => PagesSpec
<1>1. Init => Pages!Init
  BY DEF Init, Pages!Init, Pages!Closed, Position, IsOpen, Sum, SumOf
<1>2. ASSUME FlowInv, [Next]_vars  PROVE [Pages!Next]_<<Sum, Position>>
  <2>1. CASE Right \/ Left
    <3>1. Sum' = Sum
      BY <1>2, <2>1, ButtonLands, PositionsAre DEF Landed
    <3>. QED
      BY <1>2, <2>1, <3>1, ButtonLands DEF Pages!Next, Pages!Forward, Pages!Backward
  <2>2. CASE Choose
    <3>1. Sum \in 1 .. 122 /\ Position \in {Sum + 1, Sum + 2}
      BY <1>2, <2>2, CallbackFinds, PositionsAre DEF Choose
    <3>2. Position' = -1 /\ Sum' \in Nat
      BY <2>2 DEF Choose, Close, Position, IsOpen, Sum, SumOf
    <3>. QED
      BY <3>1, <3>2 DEF Pages!Next, Pages!Decide, Pages!Accept, Pages!Reject,
                        Pages!Closed
  <2>3. ASSUME NEW f \in Flows, NEW n \in 0 .. MaxOutputs, Open(f, n)
        PROVE  Pages!Next
    <3>1. Position = -1 /\ Position' = 0
      BY <2>3 DEF Open, Position, IsOpen, Flows
    <3>2. Sum' = (CASE f = "coins" -> 2 + 2 * n [] f = "nrc20" -> 4
                    [] f = "contract" -> 5 [] OTHER -> 1)
      BY <2>3 DEF Open, Sum, SumOf
    <3>3. Sum' \in Nat
      BY <3>2, ReviewAssumption
    <3>. QED  BY <3>1, <3>3 DEF Pages!Next, Pages!Open, Pages!Closed
  <2>4. CASE UNCHANGED vars
    BY <2>4 DEF vars, Position, IsOpen, Sum, SumOf
  <2>. QED  BY <1>2, <2>1, <2>2, <2>3, <2>4 DEF Next, Interrupt
<1>3. FlowInv /\ [Next]_vars => FlowInv'
  BY FlowStep
<1>. QED
  BY <1>1, <1>2, <1>3, FlowInit, PTL DEF Spec, PagesSpec, Pages!Spec

\* The page on the screen is the page of the number that step_flow has.
THEOREM PageOnScreen ==
  ASSUME ~Interruptible
  PROVE  Spec => []PageIsCurrent
<1>1. Init => PageIsCurrent
  BY DEF Init, PageIsCurrent, IsOpen
<1>2. FlowInv /\ [Next]_vars => FlowInv'
  BY FlowStep
<1>3. FlowInv /\ PageIsCurrent /\ [Next]_vars => PageIsCurrent'
  BY PageStep
<1>. QED  BY <1>1, <1>2, <1>3, FlowInit, PTL DEF Spec

\* Whoever accepts a transfer has seen the address of every output, whatever
\* their number, and the fee.
THEOREM EveryAddressShown ==
  ASSUME ~Interruptible
  PROVE  Spec => []AddressesShown
<1>1. ASSUME FlowInv  PROVE AddressesShown
  <2>. SUFFICES ASSUME IsOpen, index \in {4, 5}, flow = "coins"
       PROVE  {Item("Type", 0), Item("Fee", 0)}
              \cup {Item("Address", i) : i \in 0 .. toLen - 1} \subseteq ItemsOf(shown)
    BY DEF AddressesShown
  <2>1. 1 .. Sum \subseteq shown /\ toLen \in 0 .. 60 /\ Sum = 2 + 2 * toLen
    BY <1>1, ReviewAssumption DEF FlowInv, AllShown, Sum, SumOf
  <2>2. \A n \in 1 .. Sum : PageAt(n) \in ItemsOf(shown)
    BY <2>1 DEF ItemsOf
  <2>3. 1 \in 1 .. Sum /\ Sum \in 1 .. Sum /\ 1 # Sum
    BY <2>1
  <2>4. PageAt(1) = Item("Type", 0) /\ PageAt(Sum) = Item("Fee", 0)
    BY <2>3 DEF PageAt
  <2>5. \A i \in 0 .. toLen - 1 : Item("Address", i) \in ItemsOf(shown)
    BY <1>1, <2>2, AddressPage
  <2>. QED  BY <2>2, <2>3, <2>4, <2>5
<1>2. FlowInv /\ [Next]_vars => FlowInv'
  BY FlowStep
<1>. QED  BY <1>1, <1>2, FlowInit, PTL DEF Spec

\* The variables of the review keep their types: step_flow stays within int8_t
\* and the texts are those of a page.
THEOREM ReviewTypes ==
  ASSUME ~Interruptible
  PROVE  Spec => []TypeOK
<1>1. Init => PageTyped
  BY DEF Init, PageTyped, Item
<1>2. FlowInv /\ [Next]_vars => FlowInv'
  BY FlowStep
<1>3. FlowInv /\ PageTyped /\ [Next]_vars => PageTyped'
  BY PageTypedStep
<1>4. FlowInv /\ PageTyped => TypeOK
  BY DEF FlowInv, PageTyped, TypeOK
<1>. QED  BY <1>1, <1>2, <1>3, <1>4, FlowInit, PTL DEF Spec
=============================================================================
