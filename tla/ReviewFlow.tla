----------------------------- MODULE ReviewFlow -----------------------------
(***************************************************************************)
(* The review screens of ui/bagl_display.c.  A flow has six steps:          *)
(*    0 title   1 upper delimiter   2 page   3 lower delimiter              *)
(*    4 accept  5 reject                                                    *)
(* A delimiter shows nothing: entering it runs display_next_state, which    *)
(* asks the callback of the flow for the next or the previous page and      *)
(* moves on to the page or past the pages.  The library's button handler    *)
(* enters the step to the right or to the left, if there is one.            *)
(***************************************************************************)
EXTENDS Integers

CONSTANTS
  MaxOutputs,     \* bound on to_len; MAX_COIN_LEN in the code
  Interruptible,  \* whether a review may end other than by the user's choice
  MaxBack         \* bound on how far below page 0 the model follows step_flow

ASSUME ReviewAssumption ==
  /\ MaxOutputs \in 0 .. 60
  /\ Interruptible \in BOOLEAN
  /\ MaxBack \in Nat

VARIABLES
  flow,           \* the callback of the flow, "none" if no review is open
  toLen,          \* coin_info.to_len
  index,          \* the step of the flow on the screen
  currentState,   \* current_state
  stepFlow,       \* step_flow
  page,           \* what title and text hold
  shown           \* the pages and items seen since the review was opened

vars == <<flow, toLen, index, currentState, stepFlow, page, shown>>

Flows == {"coins", "nrc20", "contract", "pubkey"}

---------------------------------------------------------------------------
(* Pages.                                                                   *)

\* If the outputs were counted without the type and the fee.
SumOfOutputs(f) ==
  CASE f = "coins" -> 1 + 2 * toLen
    [] f = "nrc20" -> 4
    [] f = "contract" -> 5
    [] OTHER -> 1

\* sum in the callbacks, for a flow f.
SumOf(f) ==
  CASE f = "coins" -> 2 + 2 * toLen
    [] f = "nrc20" -> 4
    [] f = "contract" -> 5
    [] OTHER -> 1
Sum == SumOf(flow)

Item(what, of) == [what |-> what, of |-> of]

\* Division by 2 as in C, towards zero.
Half(n) == IF n < 0 THEN -((-n) \div 2) ELSE n \div 2

\* The items of the two contract flows, by page; a callback that finds no
\* page of that number leaves the texts as they are.
Nrc20Items == <<"Type", "Amount", "Address", "Fee">>
ContractItems == <<"Type", "Amount", "Address", "Method", "Fee">>
Fixed(items, n) == IF n \in DOMAIN items THEN Item(items[n], 0) ELSE page

\* The page a callback composes for step_flow = n.
PageAt(n) ==
  CASE flow = "coins" ->
         IF n = 1 THEN Item("Type", 0)
         ELSE IF n = Sum THEN Item("Fee", 0)
         ELSE IF n % 2 = 0 THEN Item("Amount", Half(n - 3))
         ELSE Item("Address", Half(n - 2))
    [] flow = "nrc20" -> Fixed(Nrc20Items, n)
    [] flow = "contract" -> Fixed(ContractItems, n)
    [] OTHER -> Item("Address", 0)

\* int8_t.
Int8(n) == ((n + 128) % 256) - 128

\* (*g_step_flow_callback)(is_next): step_flow moves, and the callback says
\* whether there is a page there; HasNextButLast stops one page short.
Following == Int8(stepFlow + 1)
Preceding == Int8(stepFlow - 1)
HasNextButLast == Following < Sum
HasNext == Following <= Sum
HasPrevious == Preceding # 0

---------------------------------------------------------------------------
(* display_next_state.                                                      *)

\* The delimiter is entered from the side of the title (upper) or of the ways
\* out (lower), or from the page, and left for step to of the flow.
Turn(n, composed, to, state) ==
  /\ stepFlow' = n
  /\ page' = composed
  /\ index' = to
  /\ currentState' = state
  /\ shown' = IF to = 2 THEN shown \cup {n} ELSE shown
  /\ UNCHANGED <<flow, toLen>>

TurnNext(to, state) ==
  Turn(Following, IF HasNext THEN PageAt(Following) ELSE page, to, state)
\* If going back did not compose the page again.
TurnBackOnly(to, state) == Turn(Preceding, page, to, state)
TurnBack(to, state) ==
  Turn(Preceding, IF HasPrevious THEN PageAt(Preceding) ELSE page, to, state)

\* A static screen stays one if the callback has no page to show, but the
\* flow moves to the page step all the same.
\* The two slips name the wrong step, and the wrong state.
UpperDelimiterWrongStep ==
  IF currentState = "STATIC"
  THEN TurnNext(2, IF HasNext THEN "DYNAMIC" ELSE "STATIC")
  ELSE IF HasPrevious THEN TurnBack(2, "DYNAMIC")
                      ELSE TurnBack(1, "STATIC")
UpperDelimiterWrongState ==
  IF currentState = "STATIC"
  THEN TurnNext(2, IF HasNext THEN "DYNAMIC" ELSE "STATIC")
  ELSE IF HasPrevious THEN TurnBack(2, "DYNAMIC")
                      ELSE TurnBack(0, "DYNAMIC")
UpperDelimiter ==
  IF currentState = "STATIC"
  THEN TurnNext(2, IF HasNext THEN "DYNAMIC" ELSE "STATIC")
  ELSE IF HasPrevious THEN TurnBack(2, "DYNAMIC")
                      ELSE TurnBack(0, "STATIC")

\* If the last page were not left.
LowerDelimiterStuck ==
  IF currentState = "STATIC"
  THEN TurnBack(2, IF HasPrevious THEN "DYNAMIC" ELSE "STATIC")
  ELSE IF HasNext THEN TurnNext(2, "DYNAMIC")
                  ELSE Turn(stepFlow, page, 2, "DYNAMIC")
LowerDelimiter ==
  IF currentState = "STATIC"
  THEN TurnBack(2, IF HasPrevious THEN "DYNAMIC" ELSE "STATIC")
  ELSE IF HasNext THEN TurnNext(2, "DYNAMIC")
                  ELSE TurnNext(4, "STATIC")

Jump(to) ==
  /\ index' = to
  /\ UNCHANGED <<flow, toLen, currentState, stepFlow, page, shown>>

IsOpen == flow # "none"

Right ==
  /\ IsOpen
  /\ \/ index = 0 /\ UpperDelimiter
     \/ index = 2 /\ LowerDelimiter
     \/ index = 4 /\ Jump(5)

Left ==
  /\ IsOpen
  /\ \/ index = 2 /\ stepFlow > -MaxBack /\ UpperDelimiter
     \/ index = 4 /\ LowerDelimiter
     \/ index = 5 /\ Jump(4)

---------------------------------------------------------------------------
(* Opening and closing.                                                     *)

\* If step_flow were not reset.
OpenAgain(f, n) ==
  /\ ~IsOpen
  /\ flow' = f /\ toLen' = n
  /\ index' = 0
  /\ shown' = {}
  /\ UNCHANGED <<currentState, stepFlow, page>>

\* ui_display_sign_tx and ui_display_public_key: step_flow is reset.
Open(f, n) ==
  /\ ~IsOpen
  /\ flow' = f /\ toLen' = n
  /\ index' = 0 /\ stepFlow' = 0
  /\ shown' = {}
  /\ UNCHANGED <<currentState, page>>

Close == flow' = "none" /\ UNCHANGED <<toLen, index, currentState, stepFlow, page, shown>>

\* Both buttons on one of the ways out: the validate callback, then the menu.
Choose == IsOpen /\ index \in {4, 5} /\ Close

\* An IO reset, or an exception, between two presses.
Interrupt == Interruptible /\ IsOpen /\ Close

---------------------------------------------------------------------------

Init ==
  /\ flow = "none" /\ toLen = 0 /\ index = 0
  /\ currentState = "STATIC" /\ stepFlow = 0
  /\ page = Item("none", 0) /\ shown = {}

Next ==
  \/ Right \/ Left \/ Choose \/ Interrupt
  \/ \E f \in Flows, n \in 0 .. MaxOutputs : Open(f, n)

\* The user keeps pressing the right button as long as it does something.
Spec == Init /\ [][Next]_vars /\ WF_vars(Right)

---------------------------------------------------------------------------
(* Properties.                                                              *)

TypeOK ==
  /\ flow \in Flows \cup {"none"}
  /\ toLen \in 0 .. MaxOutputs
  /\ index \in {0, 2, 4, 5}
  /\ currentState \in {"STATIC", "DYNAMIC"}
  /\ stepFlow \in -128 .. 127
  /\ page \in [what : {"none", "Type", "Amount", "Address", "Method", "Fee"},
               of : Int]
  /\ shown \subseteq -128 .. 127

\* The two variables that say where the review is, current_state with
\* step_flow and the step of the flow, never disagree: before the pages, on
\* one of them, or past the last (display_next_state with the callbacks).
InStep ==
  /\ ~IsOpen => currentState = "STATIC"
  /\ IsOpen /\ index = 0 => currentState = "STATIC" /\ stepFlow = 0
  /\ IsOpen /\ index = 2 => currentState = "DYNAMIC" /\ stepFlow \in 1 .. Sum
  /\ IsOpen /\ index \in {4, 5} => currentState = "STATIC" /\ stepFlow = Sum + 1

\* What is on the screen in the page step is the page of that number.
PageIsCurrent == IsOpen /\ index = 2 => page = PageAt(stepFlow)

\* Accept and reject are offered only once every page has been on the screen.
AllShown == IsOpen /\ index \in {4, 5} => 1 .. Sum \subseteq shown

\* The items a set of pages amounts to.
ItemsOf(ns) == {PageAt(n) : n \in ns}

\* Whoever accepts a transfer has seen its type, the address of every output
\* and the fee.
AddressesShown ==
  IsOpen /\ index \in {4, 5} /\ flow = "coins"
    => {Item("Type", 0), Item("Fee", 0)}
       \cup {Item("Address", i) : i \in 0 .. toLen - 1} \subseteq ItemsOf(shown)

\* Whoever accepts a transfer has seen the amount of every output.
AmountsShown ==
  IsOpen /\ index \in {4, 5} /\ flow = "coins"
    => {Item("Amount", i) : i \in 0 .. toLen - 1} \subseteq ItemsOf(shown)

\* Every page on the screen shows an item of the transaction under review.
DocumentedItem ==
  IsOpen /\ index = 2 /\ flow = "coins"
    => page.of \in 0 .. (IF toLen = 0 THEN 0 ELSE toLen - 1)

\* The flow is a list of pages with the two ways out at its end: forwards and
\* backwards are inverse, no page is skipped and none repeated.
Position ==
  IF ~IsOpen THEN -1
  ELSE IF index = 0 THEN 0
  ELSE IF index = 2 THEN stepFlow
  ELSE IF index = 4 THEN Sum + 1
  ELSE Sum + 2

\* No page traps its reader: who ends up going only forwards comes to the
\* ways out.
ReachesEnd ==
  <>[][~Left]_vars => (IsOpen ~> ~IsOpen \/ index \in {4, 5})

Pages == INSTANCE PageList WITH length <- Sum, pos <- Position
PagesSpec == Pages!Spec
=============================================================================
