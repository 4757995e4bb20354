--------------------------- MODULE ContractProofs ---------------------------
(***************************************************************************)
(* Theorems about Contract, for every body of a request, and whatever      *)
(* amounts are asked for and the columns take.                             *)
(***************************************************************************)
EXTENDS Contract, TotalsProofs

InProgress == [pc : {"token", "charge", "insert"}, card : Card]

\* A request has done nothing when it starts, has no answer until the end, and
\* brings a card only through the pipe.
RequestOK ==
  /\ request \in {[pc |-> "start"], [pc |-> "answered"]} \cup InProgress
  /\ request.pc = "start" => done = {}
  /\ request.pc # "answered" => answer = NoAnswer
  /\ request.pc = "token" => Valid(request.card)

\* What makes the two properties inductive.
ContractInv == RequestOK /\ TokenizedIsValid /\ RetryIsSafe

LEMMA RequestIs ==
  ASSUME RequestOK, request.pc \in {"token", "charge", "insert"}
  PROVE  request \in InProgress
  BY DEF RequestOK

\* A request that goes on keeps its card, and has no answer yet.
LEMMA ProceedsFacts ==
  ASSUME RequestOK, request \in InProgress, NEW pc \in {"charge", "insert"}, Proceeds(pc)
  PROVE  RequestOK' /\ RetryIsSafe'
<1>1. request' \in InProgress /\ request'.pc = pc
  BY DEF Proceeds, InProgress
<1>2. answer' = NoAnswer
  BY DEF RequestOK, InProgress, Proceeds
<1>3. answer'.status = 0
  BY <1>2 DEF NoAnswer
<1> QED
  BY <1>1, <1>2, <1>3 DEF RequestOK, RetryIsSafe

\* A request that ends may do so whatever it has done, but for a 4xx.
LEMMA RepliesFacts ==
  ASSUME NEW status, NEW code, Replies(status, code),
         status \in 400..499 => done' = {}
  PROVE  RequestOK' /\ RetryIsSafe'
  BY DEF Replies, RequestOK, RetryIsSafe

\* Neither of the answers below a gateway or a database says 4xx.
LEMMA ServerErrors ==
  /\ Unavailable => Replies(503, "PAYMENT_PROVIDER_UNAVAILABLE")
  /\ ThrowsError => Replies(500, "INTERNAL_ERROR")
  BY DEF Unavailable, Throws, ErrorStatus, ThrowsError

LEMMA StepContract == ContractInv /\ [Next]_vars => ContractInv'
<1> SUFFICES ASSUME ContractInv, [Next]_vars PROVE ContractInv'
  OBVIOUS
<1>i. RequestOK /\ TokenizedIsValid /\ RetryIsSafe
  BY DEF ContractInv
<1>t. UNCHANGED tokenized => TokenizedIsValid'
  BY <1>i DEF TokenizedIsValid
<1>u. Unavailable \/ ThrowsError => RequestOK' /\ RetryIsSafe'
  BY ServerErrors, RepliesFacts
<1>c. Replies(201, "") => RequestOK' /\ RetryIsSafe'
  <2>1. 201 \notin 400..499
    OBVIOUS
  <2> QED
    BY <2>1, RepliesFacts
<1>1. CASE Refuse
  <2>1. done' = {}
    BY <1>i, <1>1 DEF Refuse, RequestOK
  <2> QED
    BY <1>t, <1>1, <2>1, RepliesFacts DEF Refuse, Throws, ThrowsHttp, ContractInv
<1>2. ASSUME NEW card \in Card, PostCard(card) PROVE ContractInv'
  <2>1. done' = {} /\ answer = NoAnswer
    BY <1>i, <1>2 DEF PostCard, RequestOK
  <2>2. CASE Valid(card)
    <3>1. request' = [pc |-> "token", card |-> card] /\ UNCHANGED answer
      BY <1>2, <2>2 DEF PostCard
    <3> QED
      BY <1>2, <1>t, <2>1, <2>2, <3>1
         DEF PostCard, RequestOK, InProgress, RetryIsSafe, NoAnswer, ContractInv
  <2>3. CASE ~Valid(card)
    BY <1>2, <1>t, <2>1, <2>3, RepliesFacts DEF PostCard, ThrowsHttp, ContractInv
  <2> QED
    BY <2>2, <2>3
<1>3. CASE UseToken
  BY <1>i, <1>t, <1>3, RequestIs, ProceedsFacts DEF UseToken, ContractInv
<1>4. CASE CreateCardToken
  <2>1. RequestOK' /\ RetryIsSafe'
    BY <1>i, <1>u, <1>4, RequestIs, ProceedsFacts DEF CreateCardToken
  <2>2. RawFieldsValid(request.card)
    BY <1>i, <1>4 DEF CreateCardToken, RequestOK, Valid, Falsy
  <2>3. TokenizedIsValid'
    BY <1>i, <1>4, <2>2 DEF CreateCardToken, TokenizedIsValid
  <2> QED
    BY <2>1, <2>3 DEF ContractInv
<1>5. CASE ChargeCard
  BY <1>i, <1>t, <1>u, <1>5, RequestIs, ProceedsFacts DEF ChargeCard, ContractInv
<1>6. CASE InsertPayment
  BY <1>c, <1>t, <1>u, <1>6 DEF InsertPayment, ContractInv
<1>7. ASSUME NEW items, PostBudget(items) PROVE ContractInv'
  <2>1. CASE Storable(items)
    BY <1>c, <1>t, <1>7, <2>1 DEF PostBudget, ContractInv
  <2>2. CASE ~Storable(items)
    BY <1>t, <1>u, <1>7, <2>2 DEF PostBudget, ContractInv
  <2> QED
    BY <2>1, <2>2
<1>8. CASE UNCHANGED vars
  BY <1>i, <1>t, <1>8 DEF vars, ContractInv, RequestOK, RetryIsSafe
<1> QED
  BY <1>1, <1>2, <1>3, <1>4, <1>5, <1>6, <1>7, <1>8 DEF Next

LEMMA InitContract == Init => ContractInv
<1> SUFFICES ASSUME Init PROVE ContractInv
  OBVIOUS
<1>1. RequestOK
  BY DEF Init, RequestOK
<1> QED
  BY <1>1 DEF Init, ContractInv, TokenizedIsValid, RetryIsSafe

\* Raw card data reaches /v1/card_tokens only if the pipe has validated it,
\* whatever the fields of the body hold.
THEOREM TokenizedIsValidCorrect == Spec => []TokenizedIsValid
<1>1. ContractInv => TokenizedIsValid
  BY DEF ContractInv
<1> QED
  BY <1>1, InitContract, StepContract, PTL DEF Spec

\* A 4xx leaves nothing charged or stored behind, whatever fails on the way.
THEOREM RetryIsSafeCorrect == Spec => []RetryIsSafe
<1>1. ContractInv => RetryIsSafe
  BY DEF ContractInv
<1> QED
  BY <1>1, InitContract, StepContract, PTL DEF Spec

-----------------------------------------------------------------------------
(* What is stored.                                                         *)

\* The budget stored comes from a request that asked for items the columns took.
LEMMA BudgetSteps ==
  ASSUME [Next]_vars
  PROVE  \/ UNCHANGED budget
         \/ \E n \in 1..MaxItems : \E items \in [1..n -> Item] :
              Storable(items) /\ Create(items)
<1>1. ASSUME NEW n \in 1..MaxItems, NEW items \in [1..n -> Item], PostBudget(items)
      PROVE  UNCHANGED budget \/ (Storable(items) /\ Create(items))
  BY <1>1 DEF PostBudget
<1> QED
  BY <1>1
     DEF Next, Refuse, PostCard, UseToken, CreateCardToken, ChargeCard, InsertPayment, vars

\* However much is asked for, and however wide the columns are, as long as the
\* doubles are wider, each item of a stored budget costs exactly quantity times
\* price.
THEOREM ExactAmountsCorrect == Spec => []ExactAmounts
<1>1. Init => ExactAmounts
  BY DEF Init, ExactAmounts
<1>2. ExactAmounts /\ [Next]_vars => ExactAmounts'
  <2> SUFFICES ASSUME ExactAmounts, [Next]_vars PROVE ExactAmounts'
    OBVIOUS
  <2>1. CASE UNCHANGED budget
    BY <2>1 DEF ExactAmounts, ExactCents
  <2>2. ASSUME NEW n \in 1..MaxItems, NEW items \in [1..n -> Item], Storable(items),
               Create(items), NEW i \in DOMAIN budget'.asked
        PROVE  budget'.amountsCents[i] = ExactCents(budget'.asked[i])
    <3>1. budget'.asked = items /\ budget'.amountsCents[i] = AmountCents(items[i])
      BY <2>2 DEF Create
    <3>2. items[i] \in Item /\ Fits(AmountCents(items[i]))
      BY <2>2, <3>1 DEF Storable
    <3> QED
      BY <3>1, <3>2, AmountFacts
  <2> QED
    BY <2>1, <2>2, BudgetSteps DEF ExactAmounts
<1> QED
  BY <1>1, <1>2, PTL DEF Spec

\* And the whole budget costs exactly what its items do together, however many
\* they are and though each addition may round.
THEOREM ExactTotalCorrect == Spec => []ExactTotal
<1>1. Init => ExactTotal
  BY DEF Init, ExactTotal
<1>2. ExactTotal /\ [Next]_vars => ExactTotal'
  <2> SUFFICES ASSUME ExactTotal, [Next]_vars PROVE ExactTotal'
    OBVIOUS
  <2>1. CASE UNCHANGED budget
    BY <2>1 DEF ExactTotal
  <2>2. ASSUME NEW n \in 1..MaxItems, NEW items \in [1..n -> Item], Storable(items),
               Create(items)
        PROVE  budget'.totalCents = ExactSubtotal(budget'.asked)
    <3>1. budget'.asked = items /\ budget'.totalCents = SubtotalCents(items)
      BY <2>2 DEF Create
    <3>2. n \in Nat
      OBVIOUS
    <3> QED
      BY <2>2, <3>1, <3>2, SubtotalFitsIsExact
  <2> QED
    BY <2>1, <2>2, BudgetSteps DEF ExactTotal
<1> QED
  BY <1>1, <1>2, PTL DEF Spec
=============================================================================
