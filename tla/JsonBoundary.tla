---------------------------- MODULE JsonBoundary ----------------------------
(***************************************************************************)
(* json-boundary.js: what a number or a text becomes on its way between a  *)
(* JavaScript caller and the native node.                                  *)
(*                                                                         *)
(* A JavaScript number is a binary floating point number of Precision      *)
(* significant bits (53 in the code), an amount an unsigned integer up to  *)
(* U64Max, a confirmation count one up to U8Max; every width is scaled     *)
(* down and keeps its order.  "digits" is a string that spells an integer  *)
(* in its shortest decimal form, "text" any other string.  A BIP-322 text  *)
(* is a sequence of UTF-16 code units, of which only the class matters.    *)
(***************************************************************************)
EXTENDS Integers, Sequences, FiniteSets

CONSTANTS
  Precision,  \* significant bits of a JavaScript number
  U64Max, U8Max,
  Numerals,   \* integers native reports and callers write
  Limits,     \* byte limits of the BIP-322 fields
  Texts       \* texts callers pass

VARIABLES
  held,      \* the value the caller holds
  meant,     \* the integer it stands for
  answered,  \* held is the parsed answer of a native call
  received,  \* what native last read from a request made of held
  checked,   \* the field and the text of the last BIP-322 call
  verdict    \* how the last call ended

vars == <<held, meant, answered, received, checked, verdict>>

-----------------------------------------------------------------------------
(* Numbers *)

Value(kind, n) == [kind |-> kind, value |-> n]
Kinds == {"nothing", "number", "digits", "fraction", "infinite", "text", "bigint"}
Nothing == Value("nothing", 0)

Power[e \in Nat] == IF e = 0 THEN 1 ELSE 2 * Power[e - 1]
Abs(n) == IF n < 0 THEN -n ELSE n

(* The nearest number of Precision significant bits, ties to even.          *)
Round(n) ==
  LET ulp == Power[CHOOSE e \in 0 .. Abs(n) :
                     /\ Abs(n) < Power[Precision + e]
                     /\ e > 0 => Power[Precision + e - 1] <= Abs(n)]
      low == ulp * (Abs(n) \div ulp)
      rest == 2 * (Abs(n) - low)
      up == rest > ulp \/ (rest = ulp /\ (low \div ulp) % 2 = 1)
      near == IF up THEN low + ulp ELSE low
  IN IF n < 0 THEN -near ELSE near

Safe(n) == Abs(n) < Power[Precision]

checkedNumber(v) == v.kind # "infinite" /\ (v.kind = "number" => Safe(v.value))

Tokens == [form : {"integer", "exponent"}, value : Numerals] \cup {[form |-> "fraction", value |-> 0]}
Number(token) == IF token.form = "fraction" THEN Value("fraction", 0)
                 ELSE Value("number", Round(token.value))

(* The parsed value, or nothing when parse throws: a token with an exponent *)
(* that is an integer beyond the safe range.                                *)
parse(token) ==
  LET n == Number(token) IN
  IF token.form = "integer" /\ ~Safe(n.value) THEN {Value("digits", token.value)}
  ELSE {v \in {n} : checkedNumber(v)}

-----------------------------------------------------------------------------
(* Requests *)

StringifyAny(v) == IF v.kind = "bigint" THEN "type" ELSE "sent"  \* mutant: numbers are not checked

(* JSON.stringify of the value alone; a bigint makes it throw.              *)
stringify(v) ==
  IF ~checkedNumber(v) THEN "unsafe" ELSE IF v.kind = "bigint" THEN "type" ELSE "sent"

PaymentKeys == {"invoice", "amt_msat", "asset_id", "asset_amount"}
paymentRequest(keys, v) == IF keys \subseteq PaymentKeys THEN stringify(v) ELSE "unsupported"

uint64(v) ==
  IF ~checkedNumber(v) THEN "unsafe"
  ELSE IF v.kind \in {"number", "digits"} /\ v.value \in 0 .. U64Max THEN "sent" ELSE "range"

BurnKeys == {"asset_id", "amount", "burn_recipient", "fee_rate", "min_confirmations"}
burnRequest(keys, v, confirmations, recipient) ==
  IF ~(keys \subseteq BurnKeys) THEN "type"
  ELSE IF confirmations \notin 0 .. U8Max THEN "range"
  ELSE IF ~recipient THEN "type"
  ELSE uint64(v)

(* What native reads: burn writes an exact number whatever spelled it, the  *)
(* other requests write a string as a string.                               *)
Burnt(v) == Value("number", v.value)

-----------------------------------------------------------------------------
(* Texts *)

Units == {"ascii", "two", "three", "high", "low"}
Bytes(unit) == IF unit = "ascii" THEN 1 ELSE IF unit = "two" THEN 2 ELSE 3

Scan(text, limit) ==
  LET step[i \in 1 .. Len(text) + 1] == [bytes \in Nat |->
        IF bytes > limit THEN "range"
        ELSE IF i > Len(text) THEN "sent"
        ELSE IF text[i] = "high" THEN (IF i < Len(text) /\ text[i + 1] = "low" THEN step[i + 2][bytes + 4] ELSE "type")
        ELSE IF text[i] = "low" THEN "type" ELSE step[i + 1][bytes + Bytes(text[i])]]
  IN step[1][0]
bip322Request(field, text) == Scan(text, Limits[field])

WidthAssumption ==
  /\ Precision \in Nat \ {0}
  /\ U8Max \in Nat
  /\ Numerals \subseteq Int
  /\ Limits \in [DOMAIN Limits -> Nat]
  /\ Texts \subseteq Seq(Units)

-----------------------------------------------------------------------------
(* Steps *)

Init ==
  /\ held = Nothing /\ meant = 0 /\ answered = FALSE
  /\ received = Nothing /\ checked = <<>> /\ verdict = "none"

Hold(v, n) == held' = v /\ meant' = n /\ received' = Nothing /\ checked' = <<>>

(* A native call answers with a number.                                     *)
Answer(token) ==
  \/ \E v \in parse(token) :
       Hold(v, token.value) /\ answered' = (token.form = "integer") /\ verdict' = "answered"
  \/ /\ parse(token) = {}
     /\ verdict' = "lost" /\ Hold(Nothing, 0) /\ answered' = FALSE

(* The caller writes an integer in its program, as a number or a string,    *)
(* computes with a safe number, or holds something else.                    *)
Write ==
  /\ \/ \E n \in Numerals : Hold(Value("number", Round(n)), n) \/ Hold(Value("digits", n), n)
     \/ \E n \in Numerals : /\ held.kind = "number" /\ Safe(held.value) /\ Safe(n)
                             /\ Hold(Value("number", Round(held.value + n)), meant + n)
     \/ \E kind \in {"fraction", "infinite", "text", "bigint"} : Hold(Value(kind, 0), 0)
  /\ answered' = FALSE /\ verdict' = "none"

(* The request goes to native only when nothing was thrown before the call. *)
Submit(result, read) ==
  /\ verdict' = result
  /\ received' = IF result = "sent" THEN read ELSE Nothing
  /\ UNCHANGED <<held, meant, answered, checked>>

Call ==
  /\ held # Nothing
  /\ \/ Submit(stringify(held), held)
     \/ \E keys \in {{"invoice", "amt_msat"}, {"invoice", "max_total_routing_fee_msat"}} :
          Submit(paymentRequest(keys, held), held)
     \/ \E keys \in {BurnKeys, BurnKeys \cup {"fee"}}, c \in -1 .. U8Max + 1, recipient \in BOOLEAN :
          Submit(burnRequest(keys, held, c, recipient), Burnt(held))

CheckText(field, text) ==
  /\ held = Nothing
  /\ checked' = <<field, text>>
  /\ verdict' = bip322Request(field, text)
  /\ UNCHANGED <<held, meant, answered, received>>

Next ==
  \/ \E token \in Tokens : Answer(token)
  \/ Write
  \/ Call
  \/ \E field \in DOMAIN Limits, text \in Texts : CheckText(field, text)

Spec == Init /\ [][Next]_vars

-----------------------------------------------------------------------------
(* Properties *)

(* README.md:129: "Native response integers outside JavaScript's safe range *)
(* are exact decimal strings; safe integers remain numbers."  The caller    *)
(* never holds an already rounded identifier, and a safe one is a number it *)
(* can compute with (parse).                                                *)
AnswersAreExact ==
  answered => /\ held.value = meant
              /\ held.kind = (IF Safe(meant) THEN "number" ELSE "digits")

(* A number native reads is the integer the caller meant: whatever it wrote *)
(* or computed was exact, or the request failed before the native call      *)
(* (checkedNumber after the rounding JavaScript has already made).          *)
ReceivedIsMeant ==
  received.kind = "number" => received.value = meant

(* Every unsigned 64-bit amount native reports can be burnt as reported,    *)
(* and no other integer: the number and the exact decimal string are one    *)
(* boundary (burnRequest's uint64).                                         *)
EveryAmountBurns ==
  answered => (burnRequest(BurnKeys, held, U8Max, TRUE) = "sent" <=> meant \in 0 .. U64Max)

(* Every surrogate is half of a pair, and the length of the UTF-8 form.     *)
Paired(text) ==
  \A i \in 1 .. Len(text) :
    /\ text[i] = "high" => i + 1 \in 1 .. Len(text) /\ text[i + 1] = "low"
    /\ text[i] = "low" => i - 1 \in 1 .. Len(text) /\ text[i - 1] = "high"
Count(text, unit) == Cardinality({i \in 1 .. Len(text) : text[i] = unit})
Utf8Length(text) ==
  Count(text, "ascii") + 2 * Count(text, "two") + 3 * Count(text, "three") + 4 * Count(text, "high")

(* What a signature covers: a text reaches native exactly when it is well   *)
(* formed UTF-16 and its UTF-8 form fits the field, so that native signs    *)
(* the bytes the caller sees (bip322Request's scan).                        *)
SignedTextIsWellFormed ==
  checked # <<>> /\ held = Nothing =>
    (verdict = "sent" <=> Paired(checked[2]) /\ Utf8Length(checked[2]) <= Limits[checked[1]])

(* What crosses the boundary, in either direction, keeps its value.         *)
BoundaryIsExact ==
  AnswersAreExact /\ ReceivedIsMeant /\ EveryAmountBurns /\ SignedTextIsWellFormed
=============================================================================
