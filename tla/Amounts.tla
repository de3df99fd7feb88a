------------------------------- MODULE Amounts -------------------------------
(***************************************************************************)
(* The amount of an order on its way: typed into the form or sent to the   *)
(* API, checked by both, stored as a decimal, shown as text, put into the  *)
(* pay URI, paid in stroops and registered on chain in stroops.            *)
(*                                                                         *)
(* A decimal is a number of units of 10^-places, as shopspring/decimal and *)
(* a text have it; negative places are an exponent ("1e3").  Syntax other  *)
(* than the sign and the exponent is left out.  The form compares doubles, *)
(* which near the top of the range are Ulp apart.                          *)
(***************************************************************************)
EXTENDS Integers

CONSTANTS
    StellarDecimals,    \* places of a stroop
    MaxStroops,         \* MaxAmount, in stroops
    Ulp,                \* in units one place below a stroop
    Held                \* the balances an account is tried with, in stroops

ASSUME AmountsAssumption ==
    /\ StellarDecimals \in Nat \ {0} /\ MaxStroops \in Nat
    /\ Ulp \in 1..MaxStroops * 10     \* a double is more than its spacing
    /\ Held \subseteq 0..MaxStroops

Pow10[n \in Nat] == IF n = 0 THEN 1 ELSE 10 * Pow10[n - 1]

Fine == StellarDecimals + 1
InFine(d) == d.units * Pow10[Fine - d.places]
MaxFine == MaxStroops * 10

(* Texts with one place too many, and values somewhat above the maximum.   *)
Texts ==
    {d \in [units : -1..MaxFine + 2 * Ulp, places : -1..Fine] :
        d.units \in -1..(MaxFine + 2 * Ulp) \div Pow10[Fine - d.places]}

VARIABLES
    account,    \* what Horizon says of the wallet's account in the order asset
    balance,    \* what the form says of it
    typed,      \* the amount in the form, or in the request
    viaMax,     \* typed by the Max button
    answer,     \* to the last submit: "none", "invalid" (the form did not send
                \* it), "refused" (by the API), "created"
    viaForm,    \* the last submit came from the form
    amount,     \* ExpectedAmount of the order
    instruction \* the amount in the pay URI of the order just created

amountVars ==
    <<account, balance, typed, viaMax, answer, viaForm, amount, instruction>>

Zero == [units |-> 0, places |-> 0]

NoAnswer == [kind |-> "unknown", held |-> 0, selling |-> 0]

(* What Horizon answers; a reserve is not more than the balance.           *)
Accounts ==
    {[kind |-> k, held |-> 0, selling |-> 0] : k \in {"no_account", "no_trustline"}}
        \union {a \in [kind : {"ok"}, held : Held, selling : Held] : a.selling <= a.held}

AmountsInit ==
    /\ account = NoAnswer /\ balance = [kind |-> "unknown", amount |-> Zero]
    /\ typed = Zero /\ viaMax = FALSE
    /\ answer = "none" /\ viaForm = FALSE
    /\ amount = Zero /\ instruction = Zero

-----------------------------------------------------------------------------
(* The web client: stroops, toAmount, assetBalance, validateAmount.        *)

(* padEnd and slice: places beyond a stroop are cut.                       *)
stroops(d) ==
    IF d.places <= StellarDecimals
    THEN d.units * Pow10[StellarDecimals - d.places]
    ELSE d.units \div Pow10[d.places - StellarDecimals]

toAmount(n) == [units |-> n, places |-> StellarDecimals]

(* Mutant of Free: what open offers reserve is not taken off.              *)
WholeBalance(a) == a.held

(* Spendable: what open offers do not reserve, and never less than nothing *)
(* (Horizon reports no reserve above the balance).                         *)
Free(a) == IF a.held > a.selling THEN a.held - a.selling ELSE 0

exceedsBalance(d, b) == stroops(d) > stroops(b)

Double(v) == IF 2 * v < MaxFine THEN v ELSE ((v + Ulp \div 2) \div Ulp) * Ulp

(* The pattern takes no sign and no exponent.                              *)
validateAmount(d) ==
    /\ d.units > 0 /\ d.places \in 0..StellarDecimals
    /\ Double(InFine(d)) <= Double(MaxFine)

(* Before the answer the form knows nothing and offers no Max; an account  *)
(* that is missing or has no trustline is told as such.                    *)
LookAtBalance(a) ==
    /\ account = NoAnswer
    /\ account' = a
    /\ balance' = [kind |-> a.kind, amount |-> toAmount(Free(a))]
    /\ UNCHANGED <<typed, viaMax, answer, viaForm, amount, instruction>>

Fill(d, max) ==
    /\ typed' = d /\ viaMax' = max
    /\ answer' = "none" /\ viaForm' = FALSE
    /\ amount' = Zero /\ instruction' = Zero
    /\ UNCHANGED <<account, balance>>

Type == answer = "none" /\ typed = Zero /\ \E d \in Texts : Fill(d, FALSE)

Max ==
    /\ balance.kind = "ok"
    /\ ~ viaMax
    /\ Fill(balance.amount, TRUE)

-----------------------------------------------------------------------------
(* The API: NormalizeAmount in BuildInstruction, the row, its DTO.         *)

NormalizeAmount(d) ==
    /\ d.units > 0
    /\ InFine(d) <= MaxFine
    /\ d.places <= StellarDecimals

(* StringFixed(7), of the instruction, the DTO and so the pay URI.         *)
StringFixed(d) ==
    [units  |-> IF d.places <= StellarDecimals THEN stroops(d)
                ELSE stroops([units  |-> d.units + 5 * Pow10[d.places - StellarDecimals - 1],
                              places |-> d.places]),
     places |-> StellarDecimals]

(* The amount of the instruction, or an error.                             *)
BuildInstruction(d) == IF NormalizeAmount(d) THEN {StringFixed(d)} ELSE {}

(* What the contract is given: Shift(7).IntPart().                         *)
OnChain(d) == stroops(d)

CreateOrder(form) ==
    /\ \/ /\ BuildInstruction(typed) = {}
          /\ answer' = "refused"
          /\ UNCHANGED <<amount, instruction>>
       \/ /\ instruction' \in BuildInstruction(typed)
          /\ answer' = "created"
          /\ amount' = typed
    /\ viaForm' = form
    /\ UNCHANGED <<account, balance, typed, viaMax>>

(* submit: a valid amount is posted, more than the wallet holds included.  *)
SubmitForm ==
    /\ answer = "none" /\ typed # Zero
    /\ IF validateAmount(typed)
       THEN CreateOrder(TRUE)
       ELSE /\ answer' = "invalid" /\ viaForm' = TRUE
            /\ UNCHANGED <<account, balance, typed, viaMax, amount, instruction>>

(* POST /orders from elsewhere.                                            *)
PostOrder ==
    /\ answer = "none" /\ typed # Zero
    /\ CreateOrder(FALSE)

AmountsNext ==
    \/ \E a \in Accounts : LookAtBalance(a)
    \/ Type \/ Max \/ SubmitForm \/ PostOrder

AmountsSpec == AmountsInit /\ [][AmountsNext]_amountVars

-----------------------------------------------------------------------------
(* Properties.                                                             *)

(* One amount at every station.  The URI is the same, fresh or rebuilt     *)
(* from the order (api.ts:123-140); who pays the text that is shown pays   *)
(* the expected amount exactly, and the contract is told the same: no      *)
(* rounding makes an underpayment (instruction.go:35-38).  The form "mirrors the    *)
(* backend rules" (validation.ts:1): what it sends is refused only above   *)
(* the maximum by less than the spacing of doubles (8, 19), and a plain    *)
(* text the API takes is one it sends.  Max can be spent, short of nothing *)
(* but offers opened since, and the form takes it (balance.ts:36-38).      *)
AmountsAgree ==
    /\ answer = "created" =>
           /\ instruction = StringFixed(amount)
           /\ instruction.units * 10 = InFine(typed)
           /\ OnChain(amount) = stroops(StringFixed(amount))
    /\ answer = "refused" /\ viaForm => InFine(typed) \in MaxFine + 1..MaxFine + Ulp
    /\ answer = "created" /\ typed.places >= 0 => validateAmount(typed)
    /\ viaMax =>
           /\ typed = balance.amount /\ ~ exceedsBalance(typed, balance.amount)
           /\ answer = "invalid" => typed.units = 0
           /\ typed.units > 0 => stroops(typed) + account.selling <= account.held
=============================================================================
