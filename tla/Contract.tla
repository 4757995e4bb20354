------------------------------ MODULE Contract ------------------------------
(***************************************************************************)
(* One request from its body to its answer: a checkout by card or a new    *)
(* budget, through the ValidationPipe and its DTOs, the gateway's two      *)
(* POSTs, the row, and the error contract (common/errors, common/filters). *)
(* What the services check in between is in Payments and Budgets; here     *)
(* they only refuse.                                                       *)
(*                                                                         *)
(* Of a field of the body the code tells apart whether it is there, a      *)
(* string, an empty one, one that is long enough, or some other value that *)
(* is truthy.                                                              *)
(***************************************************************************)
EXTENDS BudgetTotals

VARIABLES
  request,     \* how far the request is, and the card it brought
  tokenized,   \* the cards sent to /v1/card_tokens
  done,        \* what the request has done for good: charge, payment, budget
  answer       \* its answer, once it has one

vars == <<budget, request, tokenized, done, answer>>

Field == {"absent", "null", "empty", "short", "long", "notString"}
Nullish(field) == field \in {"absent", "null"}      \* what ?? skips
Falsy(field) == Nullish(field) \/ field = "empty"   \* what ! and ?: skip
IsString(field) == field \in {"empty", "short", "long"}

\* CardDto.  number stands for the raw fields with a MinLength, cvv for those
\* without.
Card == [token : Field, paymentMethodId : Field, number : Field, cvv : Field]

RawFieldsValid(card) == card.number = "long" /\ IsString(card.cvv)

IsOptionalString(field) == Nullish(field) \/ IsString(field)

\* Mutant: the raw fields are validated when the token is left out, not when
\* it is null.
ValidUnlessToken(card) ==
  /\ IsOptionalString(card.token)
  /\ IsOptionalString(card.paymentMethodId)
  /\ card.token = "absent" => RawFieldsValid(card)

\* The decorators of CardDto, with their ValidateIf(!token).
Valid(card) ==
  /\ IsOptionalString(card.token)
  /\ IsOptionalString(card.paymentMethodId)
  /\ Falsy(card.token) => RawFieldsValid(card)

-----------------------------------------------------------------------------
(* The error contract.                                                     *)

\* Mutant: a code that ERROR_STATUS does not list.
ErrorStatusUnlisted(code) == 400

\* ERROR_STATUS, and the default of AppException.
ErrorStatus(code) ==
  CASE code = "UNAUTHORIZED"                                              -> 401
    [] code = "PAYMENT_CARD_DECLINED"                                     -> 402
    [] code \in {"FORBIDDEN", "BUDGET_FORBIDDEN", "SCHEDULE_FORBIDDEN"}   -> 403
    [] code \in {"NOT_FOUND", "BUDGET_NOT_FOUND", "SCHEDULE_NOT_FOUND",
                 "PAYMENT_NOT_FOUND"}                                     -> 404
    [] code \in {"CONFLICT", "BUDGET_INVALID_STATE", "VISIT_FEE_REQUIRED",
                 "SCHEDULE_INVALID_STATE", "PAYMENT_BUDGET_NOT_ACCEPTED",
                 "PAYMENT_INVALID_STATE"}                                 -> 409
    [] code = "INTERNAL_ERROR"                                            -> 500
    [] code = "PAYMENT_PROVIDER_UNAVAILABLE"                              -> 503
    [] OTHER                                                              -> 400

CodeForStatus(status) ==
  CASE status = 400 -> "VALIDATION_ERROR"
    [] status = 401 -> "UNAUTHORIZED"
    [] status = 403 -> "FORBIDDEN"
    [] status = 404 -> "NOT_FOUND"
    [] status = 409 -> "CONFLICT"
    [] OTHER        -> "INTERNAL_ERROR"

Replies(status, code) ==
  /\ answer' = [status |-> status, code |-> code]
  /\ request' = [pc |-> "answered"]

\* AllExceptionsFilter: of an AppException, of one of Nest's, and of any other.
Throws(code) == Replies(ErrorStatus(code), code)
ThrowsHttp(status) == Replies(status, CodeForStatus(status))
ThrowsError == Replies(500, "INTERNAL_ERROR")

-----------------------------------------------------------------------------
NoAnswer == [status |-> 0, code |-> ""]

Init ==
  /\ budget = NoBudget
  /\ request = [pc |-> "start"]
  /\ tokenized = {}
  /\ done = {}
  /\ answer = NoAnswer

\* The guard, the pipe or the service refuses before anything is written.
Refuse ==
  /\ request.pc = "start"
  /\ \/ \E status \in {400, 401} : ThrowsHttp(status)
     \/ \E code \in {"BUDGET_NOT_FOUND", "BUDGET_FORBIDDEN", "BUDGET_INVALID_STATE",
                     "SCHEDULE_NOT_FOUND", "SCHEDULE_FORBIDDEN",
                     "SCHEDULE_INVALID_STATE", "VISIT_FEE_REQUIRED",
                     "PAYMENT_INVALID_STATE", "PAYMENT_BUDGET_NOT_ACCEPTED"} :
          Throws(code)
  /\ UNCHANGED <<budget, tokenized, done>>

\* The body of a checkout by card goes through the pipe.
PostCard(card) ==
  /\ request.pc = "start"
  /\ IF Valid(card)
       THEN request' = [pc |-> "token", card |-> card] /\ UNCHANGED answer
       ELSE ThrowsHttp(400)
  /\ UNCHANGED <<budget, tokenized, done>>

Proceeds(pc) ==
  /\ request' = [request EXCEPT !.pc = pc]
  /\ UNCHANGED answer

\* withGateway, for whatever is thrown below it.
Unavailable == Throws("PAYMENT_PROVIDER_UNAVAILABLE")

\* chargeCard's token ?? createCardToken: a 4xx is a FAILED payment.
UseToken ==
  /\ request.pc = "token"
  /\ ~Nullish(request.card.token)
  /\ Proceeds("charge")
  /\ UNCHANGED <<budget, tokenized, done>>

CreateCardToken ==
  /\ request.pc = "token"
  /\ Nullish(request.card.token)
  /\ IF IsString(request.card.number)
       THEN /\ tokenized' = tokenized \cup {request.card}
            /\ Proceeds("charge") \/ Proceeds("insert") \/ Unavailable
       ELSE Unavailable /\ UNCHANGED tokenized
  /\ UNCHANGED <<budget, done>>

\* detectBrand is called on a number that was not validated as a string.
BrandThrows(card) ==
  Nullish(card.paymentMethodId) /\ ~Falsy(card.number) /\ ~IsString(card.number)

\* POST /v1/payments: 2xx, 4xx, or no answer worth the name, with or without
\* effect.
ChargeCard ==
  /\ request.pc = "charge"
  /\ IF BrandThrows(request.card)
       THEN Unavailable /\ UNCHANGED done
       ELSE \/ Proceeds("insert") /\ done' \in {done, done \cup {"charge"}}
            \/ Unavailable /\ done' \in {done, done \cup {"charge"}}
  /\ UNCHANGED <<budget, tokenized>>

\* payment.create, and markBudgetPaid for a card that was captured: the failure
\* of either is a 500, that of the second one with the payment stored.
InsertPayment ==
  /\ request.pc = "insert"
  /\ \/ Replies(201, "") /\ done' = done \cup {"payment"}
     \/ ThrowsError /\ done' \in {done, done \cup {"payment"}}
  /\ UNCHANGED <<budget, tokenized>>

\* A new budget that the DTO and the service let through: Prisma refuses what
\* the columns do not take with an error of its own.
PostBudget(items) ==
  /\ request.pc = "start"
  /\ IF Storable(items)
       THEN Create(items) /\ Replies(201, "") /\ done' = {"budget"}
       ELSE ThrowsError /\ UNCHANGED <<budget, done>>
  /\ UNCHANGED tokenized

\* At least one item (ArrayMinSize).
Next ==
  \/ Refuse
  \/ \E card \in Card : PostCard(card)
  \/ UseToken
  \/ CreateCardToken
  \/ ChargeCard
  \/ InsertPayment
  \/ \E n \in 1..MaxItems : \E items \in [1..n -> Item] : PostBudget(items)

Spec == Init /\ [][Next]_vars

-----------------------------------------------------------------------------
(* Properties.                                                             *)

\* Raw card data goes out to be tokenized only if the pipe has validated it:
\* the DTO's !token and the gateway's token ?? do not ask the same question.
TokenizedIsValid == \A card \in tokenized : RawFieldsValid(card)

\* A client that is told the fault is its own (4xx) may correct the request and
\* send it again: nothing was charged or stored for it.
RetryIsSafe == answer.status \in 400..499 => done = {}
=============================================================================
