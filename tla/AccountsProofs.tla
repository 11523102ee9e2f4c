--------------------------- MODULE AccountsProofs ---------------------------
(***************************************************************************)
(* What holds of the wallet for every set of jobs and payments, every      *)
(* price list and every plan, and of the sessions of a person for any      *)
(* number of tabs, tokens, links and faults.                               *)
(*                                                                         *)
(* The ledger alternates on its own; solvency rests on the alternation     *)
(* only through the types (an amount is never negative), so the inductive  *)
(* invariants of the wallet are proved side by side, each under            *)
(* WalletTypeOK.  That the row is the sum of its ledger needs what a sum   *)
(* is, in lemmas of their own.  The invariant of the sessions follows a    *)
(* token from the statement that makes it to the cookie.                   *)
(***************************************************************************)
EXTENDS MCAccounts, TLAPS, SequenceTheorems, FiniteSetTheorems, WellFoundedInduction
-----------------------------------------------------------------------------
(* The wallet                                                              *)

(* Every step is one of these ten, or leaves the wallet as it is. *)
WalletActions ==
    \/ Gift
    \/ ReadSnapshot
    \/ NextMonth
    \/ \E p \in Payments : CreatePayment(p)
    \/ \E h \in Webhooks, p \in Payments : ReadPayment(h, p)
    \/ \E h \in Webhooks : ClaimPayment(h)
    \/ \E j \in Jobs : ChangePrice(j)
    \/ \E j \in Jobs : ReserveAgain(j)
    \/ \E j \in Jobs : ReserveNew(j)
    \/ \E j \in Jobs, type \in {"commit", "release"} : Settle(j, type)
    \/ UNCHANGED walletVars

LEMMA StepCases == [WalletNext]_walletVars => WalletActions
  BY DEF WalletNext, Cashier, Reserve, ReserveFree, ReserveRefused, WalletActions

(* What an open reserve looks like in a well-typed ledger. *)
LEMMA OpenType ==
  ASSUME WalletTypeOK, NEW j \in Jobs, HasOpen(j)
  PROVE  /\ Len(entries[j]) \in 1..Len(entries[j])
         /\ entries[j][Len(entries[j])] \in JobEntry
         /\ OpenAmount(j) = entries[j][Len(entries[j])].amount
         /\ OpenAmount(j) \in Nat
<1>1. entries[j] \in Seq(JobEntry) /\ entries[j] # <<>>
  BY DEF WalletTypeOK, HasOpen
<1>2. Len(entries[j]) \in 1..Len(entries[j])
  BY <1>1
<1>3. entries[j][Len(entries[j])] \in JobEntry
  BY <1>1, <1>2
<1> QED BY <1>2, <1>3 DEF OpenAmount, JobEntry

(* A credit keeps the wallet typed and adds to the balance only. *)
LEMMA CreditOnceEffect ==
  ASSUME WalletTypeOK, NEW k \in CreditKey, NEW n \in Nat, CreditOnce(k, n)
  PROVE  /\ wallet' \in [balance : Int, reserved : Int, consumed : Int]
         /\ credits' \subseteq [key : CreditKey, amount : Nat]
         /\ wallet'.balance >= wallet.balance
         /\ wallet'.reserved = wallet.reserved
         /\ credits \subseteq credits'
         /\ \A c \in credits' : c \in credits \/ (c.key = k /\ ~Credited(k) /\ c.amount = n)
         /\ \E c \in credits' : c.key = k
<1>1. CASE Credited(k)
  BY <1>1 DEF WalletTypeOK, CreditOnce, Credited
<1>2. CASE ~Credited(k)
  <2> DEFINE row == [key |-> k, amount |-> n]
  <2>1. credits' = credits \cup {row} /\ wallet' = [wallet EXCEPT !.balance = @ + n]
    BY <1>2 DEF CreditOnce
  <2>2. row \in [key : CreditKey, amount : Nat] /\ row.key = k /\ row.amount = n
    OBVIOUS
  <2>3. /\ wallet' \in [balance : Int, reserved : Int, consumed : Int]
        /\ wallet'.balance = wallet.balance + n
        /\ wallet'.reserved = wallet.reserved
    BY <2>1 DEF WalletTypeOK
  <2>4. wallet'.balance >= wallet.balance
    BY <2>3 DEF WalletTypeOK
  <2> HIDE DEF row
  <2> QED BY <1>2, <2>1, <2>2, <2>3, <2>4 DEF WalletTypeOK
<1> QED BY <1>1, <1>2

LEMMA KeyTypes ==
  /\ GiftKey \in CreditKey
  /\ \A n \in Nat : GrantKey(n) \in CreditKey
  /\ \A p \in Payments : PaymentKey(p) \in CreditKey
BY DEF GiftKey, GrantKey, PaymentKey, CreditKey

(* A new reserve: one reserve row more, at most one grant row more, and    *)
(* with BILLING_ENFORCE the balance still covers all that is reserved.     *)
LEMMA ReserveNewEffect ==
  ASSUME WalletTypeOK, NEW j \in Jobs, ReserveNew(j)
  PROVE  /\ wallet' \in [balance : Int, reserved : Int, consumed : Int]
         /\ credits' \subseteq [key : CreditKey, amount : Nat]
         /\ entries' \in [Jobs -> Seq(JobEntry)]
         /\ \A c \in credits' : c \in credits \/ (c.key = GrantKey(period) /\ ~Credited(GrantKey(period)))
         /\ \A c, d \in credits' : c \notin credits /\ d \notin credits => c = d
         /\ credits \subseteq credits'
         /\ Enforced => Available' >= 0
<1>1. price[j] \in Nat /\ GrantKey(period) \in CreditKey
  BY WalletAssumption, KeyTypes DEF WalletTypeOK
<1>2. PICK n \in PlanTokens :
        LET granted == Credited(GrantKey(period)) IN
        /\ ~Shortfall(j, n)
        /\ credits' = IF granted THEN credits
                      ELSE credits \cup {[key |-> GrantKey(period), amount |-> n]}
        /\ wallet' = [balance  |-> wallet.balance + (IF granted THEN 0 ELSE n),
                      reserved |-> wallet.reserved + price[j],
                      consumed |-> wallet.consumed]
  BY DEF ReserveNew
<1>3. n \in Nat
  BY WalletAssumption
<1> DEFINE grant == IF Credited(GrantKey(period)) THEN 0 ELSE n
           row   == [key |-> GrantKey(period), amount |-> n]
<1>4. grant \in Nat /\ row \in [key : CreditKey, amount : Nat] /\ row.key = GrantKey(period)
  BY <1>1, <1>3
<1>5. /\ wallet' = [balance  |-> wallet.balance + grant,
                    reserved |-> wallet.reserved + price[j],
                    consumed |-> wallet.consumed]
      /\ credits' = IF Credited(GrantKey(period)) THEN credits ELSE credits \cup {row}
      /\ Enforced => ~(grant + Available < price[j])
  BY <1>2 DEF Shortfall
<1>6. entries' \in [Jobs -> Seq(JobEntry)]
  <2>1. [type |-> "reserve", amount |-> price[j]] \in JobEntry
    BY <1>1 DEF JobEntry
  <2> QED BY <2>1 DEF ReserveNew, WalletTypeOK
<1> HIDE DEF grant, row
<1>7. wallet' \in [balance : Int, reserved : Int, consumed : Int]
  BY <1>1, <1>4, <1>5 DEF WalletTypeOK
<1>8. Enforced => Available' >= 0
  BY <1>1, <1>4, <1>5 DEF WalletTypeOK, Available
<1> QED BY <1>4, <1>5, <1>6, <1>7, <1>8 DEF WalletTypeOK

(* Settling an open reserve: one row more, for the amount of the reserve. *)
LEMMA SettleEffect ==
  ASSUME WalletTypeOK, NEW j \in Jobs, NEW type \in {"commit", "release"},
         HasOpen(j), Settle(j, type)
  PROVE  /\ wallet' \in [balance : Int, reserved : Int, consumed : Int]
         /\ entries' \in [Jobs -> Seq(JobEntry)]
         /\ Available' >= Available
<1>1. OpenAmount(j) \in Nat
  BY OpenType
<1>2. [type |-> type, amount |-> OpenAmount(j)] \in JobEntry
  BY <1>1 DEF JobEntry
<1>3. entries' \in [Jobs -> Seq(JobEntry)]
  <2> DEFINE row == [type |-> type, amount |-> OpenAmount(j)]
  <2>1. entries' = [entries EXCEPT ![j] = Append(entries[j], row)]
    BY DEF Settle
  <2>2. Append(entries[j], row) \in Seq(JobEntry)
    BY <1>2 DEF WalletTypeOK
  <2> HIDE DEF row
  <2> QED BY <2>1, <2>2 DEF WalletTypeOK
<1> DEFINE amount == OpenAmount(j)
           spent  == IF type = "commit" THEN amount ELSE 0
<1>4. wallet' = [balance  |-> wallet.balance - spent,
                 reserved |-> wallet.reserved - amount,
                 consumed |-> wallet.consumed + spent]
  BY DEF Settle
<1>5. amount \in Nat /\ spent \in Nat /\ spent <= amount
  BY <1>1
<1> HIDE DEF amount, spent
<1> QED BY <1>3, <1>4, <1>5 DEF WalletTypeOK, Available

(* Type correctness: no ledger row, key or status outside its type is ever *)
(* written.                                                                *)
THEOREM WalletTyped == WalletSpec => []WalletTypeOK
<1>1. WalletInit => WalletTypeOK
  BY WalletAssumption DEF WalletInit, WalletTypeOK
<1>2. WalletTypeOK /\ [WalletNext]_walletVars => WalletTypeOK'
  <2> SUFFICES ASSUME WalletTypeOK, WalletActions PROVE WalletTypeOK'
    BY StepCases
  <2> USE KeyTypes, WalletAssumption
  <2>1. CASE Gift
    <3>1. CreditOnce(GiftKey, GiftTokens)
      BY <2>1 DEF Gift
    <3> QED BY <2>1, <3>1, CreditOnceEffect DEF Gift, WalletTypeOK
  <2>2. CASE ReadSnapshot
    <3>1. PICK n \in PlanTokens : CreditOnce(GrantKey(period), n)
      BY <2>2 DEF ReadSnapshot
    <3>2. n \in Nat /\ GrantKey(period) \in CreditKey
      BY DEF WalletTypeOK
    <3> QED BY <2>2, <3>1, <3>2, CreditOnceEffect DEF ReadSnapshot, WalletTypeOK
  <2>3. CASE NextMonth
    BY <2>3 DEF NextMonth, WalletTypeOK
  <2>4. CASE \E p \in Payments : CreatePayment(p)
    BY <2>4 DEF CreatePayment, WalletTypeOK
  <2>5. CASE \E h \in Webhooks, p \in Payments : ReadPayment(h, p)
    BY <2>5 DEF ReadPayment, WalletTypeOK
  <2>6. ASSUME NEW h \in Webhooks, ClaimPayment(h) PROVE WalletTypeOK'
    <3>1. webhook[h] \in Payments /\ PaymentKey(webhook[h]) \in CreditKey
      BY <2>6 DEF ClaimPayment, WalletTypeOK
    <3>2. CASE payment[webhook[h]] = "paid"
      BY <2>6, <3>2 DEF ClaimPayment, WalletTypeOK
    <3>3. CASE payment[webhook[h]] # "paid"
      <4>1. CreditOnce(PaymentKey(webhook[h]), PackTokens)
        BY <2>6, <3>3 DEF ClaimPayment
      <4> QED BY <2>6, <3>1, <3>3, <4>1, CreditOnceEffect DEF ClaimPayment, WalletTypeOK
    <3> QED BY <3>2, <3>3
  <2>7. CASE \E j \in Jobs : ChangePrice(j)
    BY <2>7 DEF ChangePrice, WalletTypeOK
  <2>8. ASSUME NEW j \in Jobs, ReserveAgain(j) PROVE WalletTypeOK'
    <3>1. PICK n \in PlanTokens : CreditOnce(GrantKey(period), n)
      BY <2>8 DEF ReserveAgain
    <3>2. n \in Nat /\ GrantKey(period) \in CreditKey
      BY DEF WalletTypeOK
    <3> QED BY <2>8, <3>1, <3>2, CreditOnceEffect DEF ReserveAgain, WalletTypeOK
  <2>9. ASSUME NEW j \in Jobs, ReserveNew(j) PROVE WalletTypeOK'
    BY <2>9, ReserveNewEffect DEF ReserveNew, WalletTypeOK
  <2>10. ASSUME NEW j \in Jobs, NEW type \in {"commit", "release"}, Settle(j, type)
         PROVE  WalletTypeOK'
    <3>1. CASE ~HasOpen(j)
      BY <2>10, <3>1 DEF Settle, walletVars, WalletTypeOK
    <3>2. CASE HasOpen(j)
      BY <2>10, <3>2, SettleEffect DEF Settle, WalletTypeOK
    <3> QED BY <3>1, <3>2
  <2>11. CASE UNCHANGED walletVars
    BY <2>11 DEF walletVars, WalletTypeOK
  <2> QED
    BY <2>1, <2>2, <2>3, <2>4, <2>5, <2>6, <2>7, <2>8, <2>9, <2>10, <2>11 DEF WalletActions
<1> QED BY <1>1, <1>2, PTL DEF WalletSpec

(* A tenant is never promised more than it has: whatever sequence of       *)
(* reserves, settlements, credits and price changes, the balance covers    *)
(* all open reserves while BILLING_ENFORCE is on.                          *)
THEOREM WalletSolvent == WalletSpec => []Solvent
<1>1. WalletInit => Solvent
  BY DEF WalletInit, Solvent, Available
<1>2. WalletTypeOK /\ Solvent /\ [WalletNext]_walletVars => Solvent'
  <2> SUFFICES ASSUME WalletTypeOK, Solvent, WalletActions, Enforced
               PROVE  Available' >= 0
    BY StepCases DEF Solvent
  <2>a. Available >= 0 /\ Available \in Int
    BY DEF Solvent, Available, WalletTypeOK
  <2>b. ASSUME NEW k \in CreditKey, NEW n \in Nat, CreditOnce(k, n) PROVE Available' >= 0
    BY <2>a, <2>b, CreditOnceEffect DEF Available, WalletTypeOK
  <2> USE KeyTypes, WalletAssumption
  <2>1. CASE Gift
    BY <2>1, <2>b DEF Gift
  <2>2. ASSUME NEW n \in PlanTokens, CreditOnce(GrantKey(period), n) PROVE Available' >= 0
    <3>1. n \in Nat /\ GrantKey(period) \in CreditKey
      BY DEF WalletTypeOK
    <3> QED BY <2>2, <2>b, <3>1
  <2>3. ASSUME NEW h \in Webhooks, ClaimPayment(h) PROVE Available' >= 0
    <3>1. webhook[h] \in Payments /\ PaymentKey(webhook[h]) \in CreditKey
      BY <2>3 DEF ClaimPayment, WalletTypeOK
    <3>2. CASE payment[webhook[h]] = "paid"
      BY <2>3, <2>a, <3>2 DEF ClaimPayment, Available
    <3>3. CASE payment[webhook[h]] # "paid"
      <4>1. CreditOnce(PaymentKey(webhook[h]), PackTokens)
        BY <2>3, <3>3 DEF ClaimPayment
      <4> QED BY <2>b, <3>1, <4>1
    <3> QED BY <3>2, <3>3
  <2>4. ASSUME NEW j \in Jobs, ReserveNew(j) PROVE Available' >= 0
    BY <2>4, ReserveNewEffect
  <2>5. ASSUME NEW j \in Jobs, NEW type \in {"commit", "release"}, Settle(j, type)
        PROVE  Available' >= 0
    <3>1. CASE HasOpen(j)
      <4>1. wallet' \in [balance : Int, reserved : Int, consumed : Int] /\ Available' >= Available
        BY <2>5, <3>1, SettleEffect
      <4> QED BY <2>a, <4>1 DEF Available
    <3>2. CASE ~HasOpen(j)
      BY <2>5, <2>a, <3>2 DEF Settle, walletVars, Available
    <3> QED BY <3>1, <3>2
  <2>6. CASE UNCHANGED wallet
    BY <2>6, <2>a DEF Available
  <2> QED
    BY <2>1, <2>2, <2>3, <2>4, <2>5, <2>6
    DEF WalletActions, ReadSnapshot, NextMonth, CreatePayment, ReadPayment,
        ChangePrice, ReserveAgain, walletVars
<1> QED BY <1>1, <1>2, WalletTyped, PTL DEF WalletSpec

(* A job's ledger rows alternate between a reserve and its settlement, for *)
(* the same amount: no reserve is settled twice and none is stacked on     *)
(* another, whatever the order in which calls for the job arrive.          *)
THEOREM WalletAlternates == WalletSpec => []LedgerAlternates
<1>1. WalletInit => LedgerAlternates
  BY DEF WalletInit, LedgerAlternates
<1>2. WalletTypeOK /\ LedgerAlternates /\ [WalletNext]_walletVars => LedgerAlternates'
  <2> SUFFICES ASSUME WalletTypeOK, LedgerAlternates, WalletActions
               PROVE  LedgerAlternates'
    BY StepCases
  <2>1. ASSUME NEW j \in Jobs, NEW e \in JobEntry,
               entries' = [entries EXCEPT ![j] = Append(entries[j], e)],
               IF e.type = "reserve" THEN ~HasOpen(j)
               ELSE HasOpen(j) /\ e.amount = OpenAmount(j)
        PROVE  LedgerAlternates'
    <3> SUFFICES ASSUME NEW k \in Jobs, NEW i \in 1..Len(entries'[k])
                 PROVE  IF entries'[k][i].type = "reserve"
                        THEN i > 1 => entries'[k][i-1].type # "reserve"
                        ELSE /\ i > 1
                             /\ entries'[k][i-1].type = "reserve"
                             /\ entries'[k][i-1].amount = entries'[k][i].amount
      BY DEF LedgerAlternates
    <3>1. entries[k] \in Seq(JobEntry)
      BY DEF WalletTypeOK
    <3>2. CASE k # j \/ i <= Len(entries[k])
      <4>1. /\ i \in 1..Len(entries[k]) /\ entries'[k][i] = entries[k][i]
            /\ i > 1 => entries'[k][i-1] = entries[k][i-1]
        BY <2>1, <3>1, <3>2 DEF WalletTypeOK
      <4> QED BY <4>1 DEF LedgerAlternates
    <3>3. CASE k = j /\ i > Len(entries[k])
      <4>1. entries'[j] = Append(entries[j], e)
        BY <2>1 DEF WalletTypeOK
      <4>2. i = Len(entries[j]) + 1 /\ entries'[j][i] = e
        BY <3>1, <3>3, <4>1
      <4>3. i > 1 => /\ entries[j] # <<>>
                     /\ entries'[j][i-1] = entries[j][Len(entries[j])]
                     /\ entries[j][Len(entries[j])] \in JobEntry
        BY <3>1, <3>3, <4>1, <4>2
      <4>4. HasOpen(j) => i > 1
        BY <3>1, <3>3, <4>2 DEF HasOpen
      <4> QED BY <2>1, <3>3, <4>2, <4>3, <4>4 DEF HasOpen, OpenAmount
    <3> QED BY <3>1, <3>2, <3>3
  <2>2. ASSUME NEW j \in Jobs, ReserveNew(j) PROVE LedgerAlternates'
    <3> DEFINE e == [type |-> "reserve", amount |-> price[j]]
    <3>1. e \in JobEntry /\ e.type = "reserve"
      BY WalletAssumption DEF WalletTypeOK, JobEntry
    <3>2. entries' = [entries EXCEPT ![j] = Append(entries[j], e)] /\ ~HasOpen(j)
      BY <2>2 DEF ReserveNew
    <3> HIDE DEF e
    <3> QED BY <2>1, <3>1, <3>2
  <2>3. ASSUME NEW j \in Jobs, NEW type \in {"commit", "release"}, Settle(j, type), HasOpen(j)
        PROVE  LedgerAlternates'
    <3> DEFINE e == [type |-> type, amount |-> OpenAmount(j)]
    <3>1. e \in JobEntry /\ e.type # "reserve" /\ e.amount = OpenAmount(j)
      BY <2>3, OpenType DEF JobEntry
    <3>2. entries' = [entries EXCEPT ![j] = Append(entries[j], e)]
      BY <2>3 DEF Settle
    <3> HIDE DEF e
    <3> QED BY <2>1, <2>3, <3>1, <3>2
  <2>4. CASE UNCHANGED entries
    BY <2>4 DEF LedgerAlternates
  <2> QED
    BY <2>2, <2>3, <2>4
    DEF WalletActions, Gift, ReadSnapshot, NextMonth, CreatePayment, ReadPayment,
        ClaimPayment, ChangePrice, ReserveAgain, Settle, walletVars
<1> QED BY <1>1, <1>2, WalletTyped, PTL DEF WalletSpec

(* No credit is given twice: one gift, one grant a month, and the tokens   *)
(* of a package exactly when its payment is paid, for any number of        *)
(* concurrent and repeated gateway calls.                                  *)
THEOREM WalletCreditedOnce == WalletSpec => []CreditedOnce
<1>1. WalletInit => CreditedOnce
  BY DEF WalletInit, CreditedOnce, Credited
<1>2. WalletTypeOK /\ CreditedOnce /\ [WalletNext]_walletVars => CreditedOnce'
  <2> SUFFICES ASSUME WalletTypeOK, CreditedOnce, WalletActions
               PROVE  CreditedOnce'
    BY StepCases
  <2> USE KeyTypes, WalletAssumption
  <2>1. ASSUME NEW k \in CreditKey, \A p \in Payments : k # PaymentKey(p),
               \A c \in credits' : c \in credits \/ (c.key = k /\ ~Credited(k)),
               \A c, d \in credits' : c \notin credits /\ d \notin credits => c = d,
               credits \subseteq credits', payment' = payment
        PROVE  CreditedOnce'
    BY <2>1 DEF CreditedOnce, Credited
  <2>2. ASSUME NEW k \in CreditKey, \A p \in Payments : k # PaymentKey(p),
               NEW n \in Nat, CreditOnce(k, n), payment' = payment
        PROVE  CreditedOnce'
    <3>1. \A c, d \in credits' : c \notin credits /\ d \notin credits => c = d
      BY <2>2 DEF CreditOnce
    <3> QED BY <2>1, <2>2, <3>1, CreditOnceEffect
  <2>3. GiftKey # GrantKey(period) /\ \A p \in Payments : GiftKey # PaymentKey(p)
                                                       /\ GrantKey(period) # PaymentKey(p)
    BY DEF GiftKey, GrantKey, PaymentKey
  <2>4. CASE Gift
    BY <2>2, <2>3, <2>4 DEF Gift
  <2>5. ASSUME NEW n \in PlanTokens, CreditOnce(GrantKey(period), n), payment' = payment
        PROVE  CreditedOnce'
    <3>1. n \in Nat /\ GrantKey(period) \in CreditKey
      BY DEF WalletTypeOK
    <3> QED BY <2>2, <2>3, <2>5, <3>1
  <2>6. ASSUME NEW j \in Jobs, ReserveNew(j) PROVE CreditedOnce'
    <3>1. GrantKey(period) \in CreditKey /\ payment' = payment
      BY <2>6 DEF WalletTypeOK, ReserveNew
    <3> QED BY <2>1, <2>3, <2>6, <3>1, ReserveNewEffect
  <2>7. ASSUME NEW h \in Webhooks, ClaimPayment(h) PROVE CreditedOnce'
    <3> DEFINE q == webhook[h]
    <3>1. q \in Payments
      BY <2>7 DEF ClaimPayment, WalletTypeOK
    <3>2. CASE payment[q] = "paid"
      BY <2>7, <3>2 DEF ClaimPayment, CreditedOnce, Credited
    <3>3. CASE payment[q] # "paid"
      <4>1. CreditOnce(PaymentKey(q), PackTokens) /\ payment' = [payment EXCEPT ![q] = "paid"]
        BY <2>7, <3>3 DEF ClaimPayment
      <4>2. ~Credited(PaymentKey(q))
        BY <3>1, <3>3 DEF CreditedOnce
      <4>3. credits' = credits \cup {[key |-> PaymentKey(q), amount |-> PackTokens]}
        BY <4>1, <4>2 DEF CreditOnce
      <4>4. \A p \in Payments : PaymentKey(p) = PaymentKey(q) => p = q
        BY DEF PaymentKey
      <4> HIDE DEF q
      <4> DEFINE row == [key |-> PaymentKey(q), amount |-> PackTokens]
      <4>5. row.key = PaymentKey(q) /\ credits' = credits \cup {row}
        BY <4>3
      <4> HIDE DEF row
      <4>6. \A c, d \in credits' : c.key = d.key => c = d
        BY <4>2, <4>5 DEF CreditedOnce, Credited
      <4>7. ASSUME NEW p \in Payments
            PROVE  payment'[p] = "paid" <=> \E c \in credits' : c.key = PaymentKey(p)
        <5>1. CASE p = q
          BY <3>1, <4>1, <4>5, <5>1 DEF WalletTypeOK
        <5>2. CASE p # q
          BY <3>1, <4>1, <4>4, <4>5, <5>2 DEF WalletTypeOK, CreditedOnce, Credited
        <5> QED BY <5>1, <5>2
      <4> QED BY <4>6, <4>7 DEF CreditedOnce, Credited
    <3> QED BY <3>2, <3>3
  <2>8. ASSUME NEW p \in Payments, CreatePayment(p) PROVE CreditedOnce'
    BY <2>8 DEF CreatePayment, CreditedOnce, Credited, WalletTypeOK
  <2>9. CASE UNCHANGED <<credits, payment>>
    BY <2>9 DEF CreditedOnce, Credited
  <2> QED
    BY <2>4, <2>5, <2>6, <2>7, <2>8, <2>9
    DEF WalletActions, ReadSnapshot, NextMonth, ReadPayment, ChangePrice,
        ReserveAgain, Settle, walletVars
<1> QED BY <1>1, <1>2, WalletTyped, PTL DEF WalletSpec
-----------------------------------------------------------------------------
(* The steps of the abstract account that the wallet's steps are mapped to. *)

(* Nothing that the account is made of changes.                            *)
LEMMA AccountStutters ==
  ASSUME UNCHANGED <<wallet, entries, credits>>
  PROVE  UNCHANGED Account!accountVars
<1>1. Available' = Available /\ Promises' = Promises /\ Reasons' = Reasons
  BY DEF Available, Promises, Reasons, OpenAmount, HasOpen
<1> QED BY <1>1 DEF Account!accountVars, Promises, Reasons

(* A credit gives for one reason more, or leaves the account as it is.     *)
LEMMA CreditGives ==
  ASSUME WalletTypeOK, NEW k \in CreditKey, NEW n \in Nat, CreditOnce(k, n),
         UNCHANGED entries
  PROVE  Account!Give \/ UNCHANGED Account!accountVars
<1>1. CASE Credited(k)
  BY <1>1, AccountStutters DEF CreditOnce
<1>2. CASE ~Credited(k)
  <2> DEFINE row == [key |-> k, amount |-> n]
  <2>1. credits' = credits \cup {row} /\ row.key = k
    BY <1>2 DEF CreditOnce
  <2> HIDE DEF row
  <2>2. Reasons' = Reasons \cup {k} /\ k \in Reasons' /\ k \notin Reasons
    BY <1>2, <2>1 DEF Reasons, Credited
  <2>3. Available' >= Available
    BY CreditOnceEffect DEF Available, WalletTypeOK
  <2>4. Promises' = Promises
    BY DEF Promises, OpenAmount, HasOpen
  <2> QED BY <2>2, <2>3, <2>4 DEF Account!Give, Account!NewReason, Promises, Reasons
<1> QED BY <1>1, <1>2

(* A row appended for one job changes the promise to that job only.        *)
LEMMA RowChangesOnePromise ==
  ASSUME WalletTypeOK, NEW j \in Jobs, NEW e \in JobEntry,
         entries' = [entries EXCEPT ![j] = Append(entries[j], e)]
  PROVE  Promises' = [Promises EXCEPT
                        ![j] = IF e.type = "reserve" THEN e.amount ELSE 0]
<1>1. entries[j] \in Seq(JobEntry)
  BY DEF WalletTypeOK
<1>2. entries'[j] = Append(entries[j], e)
  BY DEF WalletTypeOK
<1>3. entries'[j] # <<>> /\ entries'[j][Len(entries'[j])] = e
  <2>1. /\ Len(Append(entries[j], e)) = Len(entries[j]) + 1
        /\ Append(entries[j], e)[Len(entries[j]) + 1] = e
    BY <1>1
  <2>2. Append(entries[j], e) # <<>>
    BY <1>1, <2>1
  <2> QED BY <1>2, <2>1, <2>2
<1>4. OpenAmount(j)' = IF e.type = "reserve" THEN e.amount ELSE 0
  BY <1>3 DEF OpenAmount, HasOpen
<1>5. \A i \in Jobs : i # j => OpenAmount(i)' = OpenAmount(i)
  BY DEF OpenAmount, HasOpen, WalletTypeOK
<1>6. Promises' = [i \in Jobs |-> OpenAmount(i)']
  BY DEF Promises
<1>7. Promises = [i \in Jobs |-> OpenAmount(i)]
  BY DEF Promises
<1> QED BY <1>4, <1>5, <1>6, <1>7

(* A new reserve promises its price, together with a month's grant if that *)
(* is the first reserve of the month.                                      *)
LEMMA ReservePromises ==
  ASSUME WalletTypeOK, NEW j \in Jobs, ReserveNew(j)
  PROVE  Account!Promise(j)
<1> DEFINE e == [type |-> "reserve", amount |-> price[j]]
<1>1. price[j] \in Nat /\ price[j] > 0 /\ ~HasOpen(j)
  BY WalletAssumption DEF ReserveNew, WalletTypeOK
<1>2. e \in JobEntry /\ e.type = "reserve" /\ e.amount = price[j]
  BY <1>1 DEF JobEntry
<1>3. entries' = [entries EXCEPT ![j] = Append(entries[j], e)]
  BY DEF ReserveNew
<1> HIDE DEF e
<1>4. Promises' = [Promises EXCEPT ![j] = price[j]]
  BY <1>2, <1>3, RowChangesOnePromise
<1>5. Promises[j] = 0 /\ Promises'[j] = price[j]
  <2>1. Promises[j] = 0 /\ DOMAIN Promises = Jobs
    BY <1>1 DEF Promises, OpenAmount, HasOpen
  <2> QED BY <1>4, <2>1
<1>6. Enforced => Available' >= 0
  BY ReserveNewEffect
<1>7. PICK n \in PlanTokens :
        LET granted == Credited(GrantKey(period)) IN
        /\ ~Shortfall(j, n)
        /\ credits' = IF granted THEN credits
                      ELSE credits \cup {[key |-> GrantKey(period), amount |-> n]}
        /\ wallet' = [balance  |-> wallet.balance + (IF granted THEN 0 ELSE n),
                      reserved |-> wallet.reserved + price[j],
                      consumed |-> wallet.consumed]
  BY DEF ReserveNew
<1>8. n \in Nat
  BY WalletAssumption
<1> DEFINE k == GrantKey(period)
           row == [key |-> k, amount |-> n]
<1>9. CASE Credited(k)
  <2>1. credits' = credits
    BY <1>7, <1>9
  <2>2. wallet' = [balance  |-> wallet.balance + 0,
                   reserved |-> wallet.reserved + price[j],
                   consumed |-> wallet.consumed]
    BY <1>7, <1>9
  <2>3. Available' = Available - price[j]
    BY <1>1, <2>2 DEF Available, WalletTypeOK
  <2>4. Reasons' = Reasons
    BY <2>1 DEF Reasons
  <2> QED BY <1>1, <1>4, <1>5, <1>6, <2>3, <2>4
          DEF Account!Promise, Account!PromiseOf, Promises, Reasons
<1>10. CASE ~Credited(k)
  <2>1. credits' = credits \cup {row} /\ row.key = k
    BY <1>7, <1>10
  <2>2. wallet' = [balance  |-> wallet.balance + n,
                   reserved |-> wallet.reserved + price[j],
                   consumed |-> wallet.consumed]
    BY <1>7, <1>10
  <2>3. Available' >= Available - price[j]
    BY <1>1, <1>8, <2>2 DEF Available, WalletTypeOK
  <2> HIDE DEF row, k
  <2>4. Reasons' = Reasons \cup {k} /\ k \in Reasons' /\ k \notin Reasons
    BY <1>10, <2>1 DEF Reasons, Credited
  <2> QED BY <1>1, <1>4, <1>5, <1>6, <2>3, <2>4
          DEF Account!Promise, Account!PromiseOf, Account!NewReason, Promises, Reasons
<1> QED BY <1>9, <1>10

(* A settlement ends the promise: a commit spends it, a release gives it   *)
(* back.                                                                   *)
LEMMA SettlementEndsPromise ==
  ASSUME WalletTypeOK, NEW j \in Jobs, NEW type \in {"commit", "release"},
         HasOpen(j), Settle(j, type)
  PROVE  Account!Spend(j) \/ Account!GiveBack(j)
<1> DEFINE amount == OpenAmount(j)
           e      == [type |-> type, amount |-> amount]
           spent  == IF type = "commit" THEN amount ELSE 0
<1>1. amount \in Nat /\ Promises[j] = amount
  BY OpenType DEF Promises
<1>2. e \in JobEntry /\ e.type # "reserve"
  BY <1>1 DEF JobEntry
<1>3. entries' = [entries EXCEPT ![j] = Append(entries[j], e)] /\ credits' = credits
  BY DEF Settle
<1>4. wallet' = [balance  |-> wallet.balance - spent,
                 reserved |-> wallet.reserved - amount,
                 consumed |-> wallet.consumed + spent]
  BY DEF Settle
<1>5. spent \in Nat /\ (type = "commit" => spent = amount) /\ (type = "release" => spent = 0)
  BY <1>1
<1> HIDE DEF e, amount, spent
<1>6. Promises' = [Promises EXCEPT ![j] = 0]
  BY <1>2, <1>3, RowChangesOnePromise
<1>7. Reasons' = Reasons
  BY <1>3 DEF Reasons
<1>8. Available' = Available - spent + amount
  BY <1>1, <1>4, <1>5 DEF Available, WalletTypeOK
<1>9. CASE type = "commit"
  <2>1. Available' = Available
    BY <1>1, <1>5, <1>8, <1>9 DEF Available, WalletTypeOK
  <2> QED BY <1>6, <1>7, <2>1 DEF Account!Spend, Account!PromiseOf, Promises, Reasons
<1>10. CASE type = "release"
  <2>1. Available' = Available + Promises[j]
    BY <1>1, <1>5, <1>8, <1>10 DEF Available, WalletTypeOK
  <2> QED BY <1>6, <1>7, <2>1 DEF Account!GiveBack, Account!PromiseOf, Promises, Reasons
<1> QED BY <1>9, <1>10

(* BillingService implements the account: for every set of jobs, price     *)
(* list and plan, each of its transactions is one step of the account or   *)
(* leaves it alone, so nothing is promised twice, spent without a promise  *)
(* or given twice for one reason.                                          *)
THEOREM WalletKeepsAccount == WalletSpec => KeepsAccount
<1>1. WalletInit => Account!AccountInit
  <2> SUFFICES ASSUME WalletInit PROVE Account!AccountInit
    OBVIOUS
  <2>1. Available = 0
    BY DEF WalletInit, Available
  <2>2. Promises = [j \in Jobs |-> 0]
    BY DEF WalletInit, Promises, OpenAmount, HasOpen
  <2>3. Reasons = {}
    BY DEF WalletInit, Reasons
  <2> QED BY <2>1, <2>2, <2>3 DEF Account!AccountInit, Promises, Reasons
<1>2. WalletTypeOK /\ [WalletNext]_walletVars => [Account!AccountNext]_(Account!accountVars)
  <2> SUFFICES ASSUME WalletTypeOK, WalletActions
               PROVE  Account!AccountNext \/ UNCHANGED Account!accountVars
    BY StepCases
  <2> USE KeyTypes, WalletAssumption
  <2>1. CASE Gift
    <3>1. CreditOnce(GiftKey, GiftTokens) /\ UNCHANGED entries
      BY <2>1 DEF Gift
    <3> QED BY <3>1, CreditGives DEF Account!AccountNext
  <2>2. ASSUME NEW n \in PlanTokens, CreditOnce(GrantKey(period), n), UNCHANGED entries
        PROVE  Account!AccountNext \/ UNCHANGED Account!accountVars
    <3>1. n \in Nat /\ GrantKey(period) \in CreditKey
      BY DEF WalletTypeOK
    <3> QED BY <2>2, <3>1, CreditGives DEF Account!AccountNext
  <2>3. ASSUME NEW h \in Webhooks, ClaimPayment(h)
        PROVE  Account!AccountNext \/ UNCHANGED Account!accountVars
    <3>1. webhook[h] \in Payments /\ PaymentKey(webhook[h]) \in CreditKey
      BY <2>3 DEF ClaimPayment, WalletTypeOK
    <3>2. CASE payment[webhook[h]] = "paid"
      BY <2>3, <3>2, AccountStutters DEF ClaimPayment
    <3>3. CASE payment[webhook[h]] # "paid"
      <4>1. CreditOnce(PaymentKey(webhook[h]), PackTokens) /\ UNCHANGED entries
        BY <2>3, <3>3 DEF ClaimPayment
      <4> QED BY <3>1, <4>1, CreditGives DEF Account!AccountNext
    <3> QED BY <3>2, <3>3
  <2>4. ASSUME NEW j \in Jobs, ReserveNew(j) PROVE Account!AccountNext
    BY <2>4, ReservePromises DEF Account!AccountNext
  <2>5. ASSUME NEW j \in Jobs, NEW type \in {"commit", "release"}, Settle(j, type)
        PROVE  Account!AccountNext \/ UNCHANGED Account!accountVars
    <3>1. CASE HasOpen(j)
      BY <2>5, <3>1, SettlementEndsPromise DEF Account!AccountNext
    <3>2. CASE ~HasOpen(j)
      BY <2>5, <3>2, AccountStutters DEF Settle, walletVars
    <3> QED BY <3>1, <3>2
  <2>6. CASE UNCHANGED <<wallet, entries, credits>>
    BY <2>6, AccountStutters
  <2> QED
    BY <2>1, <2>2, <2>3, <2>4, <2>5, <2>6
    DEF WalletActions, ReadSnapshot, NextMonth, CreatePayment, ReadPayment,
        ChangePrice, ReserveAgain, walletVars
<1> QED BY <1>1, <1>2, WalletTyped, PTL DEF WalletSpec, KeepsAccount, Account!AccountSpec
-----------------------------------------------------------------------------
(* Sums over finite sets.  SumFunction adds up recursively what a chosen   *)
(* element and the rest contribute; its properties are proved by induction *)
(* over the size of a set, where the sets for which one fails are gathered *)
(* and the smallest of them is looked at.                                  *)

(* The sum of f over T, from what g says of the smaller sets.              *)
SumFrom(f, g, T) ==
    IF T = {} THEN 0 ELSE LET x == CHOOSE y \in T : TRUE IN f[x] + g[T \ {x}]

(* g has the total of f over every subset of S. *)
Totals(g, f, S) == g = [T \in SUBSET S |-> SumFrom(f, g, T)]

(* SumFunction reads the sum off such totals, once they exist.             *)
LEMMA SumIsTotal ==
    ASSUME NEW f, \E g : Totals(g, f, DOMAIN f)
    PROVE  \E g : Totals(g, f, DOMAIN f) /\ SumFunction(f) = g[DOMAIN f]
<1> DEFINE g == CHOOSE g : Totals(g, f, DOMAIN f)
<1>1. Totals(g, f, DOMAIN f)
  BY DEF Totals
<1>2. SumFunction(f) = g[DOMAIN f]
  BY DEF SumFunction, SumFunctionOnSet, FoldFunctionOnSet, MapThenFoldSet, Totals, SumFrom
<1> QED BY <1>1, <1>2

(* A set of natural numbers has a least one.                               *)
LEMMA LeastNat == 
    ASSUME NEW B, B \subseteq Nat, B # {} PROVE \E n \in B : \A m \in B : n <= m
<1> DEFINE R == {ss \in Nat \X Nat : ss[1] < ss[2]}
<1>1. IsWellFoundedOn(R, Nat)
  BY NatLessThanWellFounded DEF OpToRel
<1>2. PICK n \in B : \A m \in B : ~ (<<m, n>> \in R)
  BY <1>1, WFMin
<1>3. \A m \in B : ~ (m < n)
  BY <1>2
<1> QED BY <1>3

(* Among the subsets of a finite set that are bad there is a smallest.     *)
LEMMA SmallestSet ==
    ASSUME NEW S, IsFiniteSet(S), NEW B, B \subseteq SUBSET S, B # {}
    PROVE  \E T \in B : \A U \in SUBSET T : U \in B => U = T
<1>1. \A T \in SUBSET S : IsFiniteSet(T) /\ Cardinality(T) \in Nat
  BY FS_Subset, FS_CardinalityType
<1> DEFINE N == {Cardinality(T) : T \in B}
<1>2. N \subseteq Nat /\ N # {}
  BY <1>1
<1> HIDE DEF N
<1>3. PICK n \in N : \A m \in N : n <= m
  BY <1>2, LeastNat
<1>4. PICK T \in B : n = Cardinality(T)
  BY DEF N
<1>5. ASSUME NEW U \in SUBSET T, U \in B PROVE U = T
  <2>1. Cardinality(U) \in N
    BY <1>5 DEF N
  <2>2. Cardinality(T) <= Cardinality(U)
    BY <2>1, <1>3, <1>4
  <2>3. Cardinality(U) <= Cardinality(T) /\ (Cardinality(U) = Cardinality(T) => U = T)
    BY <1>1, FS_Subset
  <2> QED BY <2>2, <2>3, <1>1
<1> QED BY <1>5

(* Totals of functions that agree on a set agree on its sum.               *)
LEMMA TotalsAgree ==
    ASSUME NEW f, NEW g, NEW h, NEW k, NEW S, NEW R, Totals(g, f, S), Totals(k, h, R),
           NEW U, IsFiniteSet(U), U \subseteq S, U \subseteq R, \A x \in U : f[x] = h[x]
    PROVE  g[U] = k[U]
<1> DEFINE Bad == {V \in SUBSET U : g[V] # k[V]}
<1> SUFFICES ASSUME Bad # {} PROVE FALSE
  OBVIOUS
<1>1. PICK V \in Bad : \A W \in SUBSET V : W \in Bad => W = V
  <2>1. Bad \subseteq SUBSET U
    OBVIOUS
  <2> HIDE DEF Bad
  <2> QED BY <2>1, SmallestSet
<1>2. g[V] = SumFrom(f, g, V) /\ k[V] = SumFrom(h, k, V)
  BY DEF Totals
<1>3. V # {}
  BY <1>2 DEF SumFrom
<1> DEFINE x == CHOOSE y \in V : TRUE
<1>4. x \in V
  BY <1>3
<1>5. g[V] = f[x] + g[V \ {x}] /\ k[V] = h[x] + k[V \ {x}]
  BY <1>2, <1>3 DEF SumFrom
<1>6. g[V \ {x}] = k[V \ {x}]
  BY <1>1, <1>4
<1>7. f[x] = h[x]
  BY <1>4
<1> QED BY <1>5, <1>6, <1>7

(* The recursion has a solution on every finite set.                       *)
LEMMA TotalsExist ==
    ASSUME NEW f, NEW S, IsFiniteSet(S) PROVE \E g : Totals(g, f, S)
<1> DEFINE G(U) == CHOOSE g : Totals(g, f, U)
           Bad  == {U \in SUBSET S : ~Totals(G(U), f, U)}
<1>1. SUFFICES ASSUME Bad # {} PROVE FALSE
  OBVIOUS
<1>2. PICK T \in Bad : \A U \in SUBSET T : U \in Bad => U = T
  <2>1. Bad \subseteq SUBSET S
    OBVIOUS
  <2> HIDE DEF Bad
  <2> QED BY <1>1, <2>1, SmallestSet
<1>3. \A U \in SUBSET T : U # T => Totals(G(U), f, U)
  BY <1>2
<1>4. ~ \E g : Totals(g, f, T)
  BY <1>2
<1> DEFINE p(U) == CHOOSE y \in U : TRUE
           h == [U \in SUBSET T |-> IF U = {} THEN 0 ELSE f[p(U)] + G(U \ {p(U)})[U \ {p(U)}]]
<1> HIDE DEF G
<1>5. ASSUME NEW V \in SUBSET T, V # T PROVE h[V] = G(V)[V]
  <2>1. Totals(G(V), f, V)
    BY <1>3, <1>5
  <2>2. G(V)[V] = SumFrom(f, G(V), V)
    BY <2>1 DEF Totals
  <2>3. CASE V = {}
    BY <2>2, <2>3 DEF SumFrom
  <2>4. CASE V # {}
    <3> DEFINE W == V \ {p(V)}
    <3>1. p(V) \in V
      BY <2>4
    <3>2. Totals(G(W), f, W)
      BY <3>1, <1>3
    <3>3. IsFiniteSet(W)
      BY FS_Subset
    <3>4. G(V)[W] = G(W)[W]
      <4> HIDE DEF W
      <4>1. W \subseteq V
        BY DEF W
      <4> QED BY <2>1, <3>2, <3>3, <4>1, TotalsAgree
    <3>5. G(V)[V] = f[p(V)] + G(V)[W]
      BY <2>2, <2>4 DEF SumFrom
    <3>6. h[V] = f[p(V)] + G(W)[W]
      BY <2>4
    <3> QED BY <3>4, <3>5, <3>6
  <2> QED BY <2>3, <2>4
<1>6. ASSUME NEW U \in SUBSET T PROVE h[U] = SumFrom(f, h, U)
  <2>1. CASE U = {}
    BY <2>1 DEF SumFrom
  <2>2. CASE U # {}
    <3> DEFINE W == U \ {p(U)}
    <3>1. p(U) \in U
      BY <2>2
    <3>2. W \in SUBSET T /\ W # T
      BY <3>1
    <3>3. h[W] = G(W)[W]
      BY <3>2, <1>5
    <3>4. h[U] = f[p(U)] + G(W)[W]
      BY <2>2
    <3> HIDE DEF h
    <3>5. SumFrom(f, h, U) = f[p(U)] + h[W]
      BY <2>2 DEF SumFrom
    <3> QED BY <3>3, <3>4, <3>5
  <2> QED BY <2>1, <2>2
<1>7. h = [U \in SUBSET T |-> SumFrom(f, h, U)]
  <2>1. h = [U \in SUBSET T |-> h[U]]
    OBVIOUS
  <2> HIDE DEF h
  <2> QED BY <2>1, <1>6
<1> HIDE DEF h
<1>8. Totals(h, f, T)
  BY <1>7 DEF Totals
<1> QED BY <1>4, <1>8

(* The sums of integers are integers.                                      *)
LEMMA TotalsTyped ==
    ASSUME NEW f, NEW g, NEW S, IsFiniteSet(S), Totals(g, f, S), \A x \in S : f[x] \in Int
    PROVE  \A T \in SUBSET S : g[T] \in Int
<1> DEFINE Bad == {T \in SUBSET S : g[T] \notin Int}
<1> SUFFICES ASSUME Bad # {} PROVE FALSE
  OBVIOUS
<1>1. PICK T \in Bad : \A U \in SUBSET T : U \in Bad => U = T
  <2>1. Bad \subseteq SUBSET S
    OBVIOUS
  <2> HIDE DEF Bad
  <2> QED BY <2>1, SmallestSet
<1>2. g[T] = SumFrom(f, g, T)
  BY DEF Totals
<1>3. T # {}
  BY <1>2 DEF SumFrom
<1> DEFINE x == CHOOSE y \in T : TRUE
<1>4. x \in T
  BY <1>3
<1>5. g[T] = f[x] + g[T \ {x}]
  BY <1>2, <1>3 DEF SumFrom
<1>6. g[T \ {x}] \in Int /\ f[x] \in Int
  BY <1>1, <1>4
<1> HIDE DEF x
<1> QED BY <1>5, <1>6

(* Whichever element is taken out, the sum is its share and the rest.      *)
LEMMA TotalsWithout ==
    ASSUME NEW f, NEW g, NEW S, IsFiniteSet(S), Totals(g, f, S), \A x \in S : f[x] \in Int
    PROVE  \A T \in SUBSET S : \A x \in T : g[T] = f[x] + g[T \ {x}]
<1> DEFINE Bad == {T \in SUBSET S : \E x \in T : g[T] # f[x] + g[T \ {x}]}
<1> SUFFICES ASSUME Bad # {} PROVE FALSE
  OBVIOUS
<1>1. PICK T \in Bad : \A U \in SUBSET T : U \in Bad => U = T
  <2>1. Bad \subseteq SUBSET S
    OBVIOUS
  <2> HIDE DEF Bad
  <2> QED BY <2>1, SmallestSet
<1>2. PICK x \in T : g[T] # f[x] + g[T \ {x}]
  OBVIOUS
<1> DEFINE c == CHOOSE y \in T : TRUE
<1>3. c \in T
  OBVIOUS
<1>4. g[T] = f[c] + g[T \ {c}]
  BY DEF Totals, SumFrom
<1>5. x # c
  BY <1>2, <1>4
<1> HIDE DEF c
<1>6. ASSUME NEW y \in T, NEW z \in T \ {y}
      PROVE  g[T \ {y}] = f[z] + g[(T \ {y}) \ {z}]
  <2> DEFINE U == T \ {y}
  <2>1. U \in SUBSET T /\ U # T /\ U \in SUBSET S
    OBVIOUS
  <2>2. U \notin Bad
    BY <1>1, <2>1
  <2>3. z \in U
    OBVIOUS
  <2> HIDE DEF U
  <2>4. g[U] = f[z] + g[U \ {z}]
    BY <2>1, <2>2, <2>3
  <2> QED BY <2>4 DEF U
<1>7. /\ g[T \ {c}] = f[x] + g[(T \ {c}) \ {x}]
      /\ g[T \ {x}] = f[c] + g[(T \ {x}) \ {c}]
  BY <1>3, <1>5, <1>6
<1>8. (T \ {c}) \ {x} = (T \ {x}) \ {c}
  OBVIOUS
<1>9. f[x] \in Int /\ f[c] \in Int /\ g[(T \ {x}) \ {c}] \in Int
  <2>1. \A U \in SUBSET S : g[U] \in Int
    BY TotalsTyped
  <2> QED BY <1>3, <2>1
<1> HIDE DEF Bad
<1> DEFINE rest == g[(T \ {x}) \ {c}]
<1>10. g[T] = f[c] + (f[x] + rest) /\ g[T \ {x}] = f[c] + rest
  BY <1>4, <1>7, <1>8
<1>11. f[x] \in Int /\ f[c] \in Int /\ rest \in Int
  BY <1>9
<1> HIDE DEF rest
<1>12. g[T] = f[x] + (f[c] + rest)
  BY <1>10, <1>11
<1> QED BY <1>2, <1>10, <1>12
(* What SumFunction is for: finitely many integers.                        *)
Summable(f) == IsFiniteSet(DOMAIN f) /\ \A x \in DOMAIN f : f[x] \in Int

(* Where it is summable, the sum is a total, and an integer.               *)
LEMMA SumOfTotals ==
    ASSUME NEW f, Summable(f)
    PROVE  \E g : Totals(g, f, DOMAIN f) /\ SumFunction(f) = g[DOMAIN f]
BY TotalsExist, SumIsTotal DEF Summable

LEMMA SumTyped == ASSUME NEW f, Summable(f) PROVE SumFunction(f) \in Int
BY SumOfTotals, TotalsTyped DEF Summable

(* Two functions that differ at x alone, where one may not be defined. *)
LEMMA SumApart ==
    ASSUME NEW f, NEW h, Summable(f), Summable(h), NEW x,
           DOMAIN f \ {x} = DOMAIN h \ {x}, \A y \in DOMAIN f \ {x} : f[y] = h[y]
    PROVE  SumFunction(h) = SumFunction(f) - (IF x \in DOMAIN f THEN f[x] ELSE 0)
                                           + (IF x \in DOMAIN h THEN h[x] ELSE 0)
<1>1. PICK g : Totals(g, f, DOMAIN f) /\ SumFunction(f) = g[DOMAIN f]
  BY SumOfTotals
<1>2. PICK k : Totals(k, h, DOMAIN h) /\ SumFunction(h) = k[DOMAIN h]
  BY SumOfTotals
<1> DEFINE U == DOMAIN f \ {x}
<1>3. g[U] = k[U]
  <2>1. IsFiniteSet(U) /\ U \subseteq DOMAIN f /\ U \subseteq DOMAIN h /\ \A y \in U : f[y] = h[y]
    BY FS_RemoveElement DEF Summable
  <2> HIDE DEF U
  <2> QED BY <1>1, <1>2, <2>1, TotalsAgree
<1>4. g[U] \in Int
  BY <1>1, TotalsTyped DEF Summable
<1>5. SumFunction(f) = (IF x \in DOMAIN f THEN f[x] ELSE 0) + g[U]
  <2>1. CASE x \in DOMAIN f
    BY <1>1, <2>1, TotalsWithout DEF Summable
  <2>2. CASE x \notin DOMAIN f
    <3>1. U = DOMAIN f
      BY <2>2
    <3> QED BY <1>1, <1>4, <2>2, <3>1
  <2> QED BY <2>1, <2>2
<1>6. SumFunction(h) = (IF x \in DOMAIN h THEN h[x] ELSE 0) + k[U]
  <2>0. U = DOMAIN h \ {x}
    OBVIOUS
  <2>1. CASE x \in DOMAIN h
    BY <1>2, <2>0, <2>1, TotalsWithout DEF Summable
  <2>2. CASE x \notin DOMAIN h
    <3>1. U = DOMAIN h
      BY <2>0, <2>2
    <3> HIDE DEF U
    <3> QED BY <1>2, <1>3, <1>4, <2>2, <3>1
  <2> QED BY <2>1, <2>2
<1>7. x \in DOMAIN f => f[x] \in Int
  BY DEF Summable
<1>8. x \in DOMAIN h => h[x] \in Int
  BY DEF Summable
<1> HIDE DEF U
<1> QED BY <1>3, <1>4, <1>5, <1>6, <1>7, <1>8

(* Nothing but zeros adds up to zero.                                      *)
LEMMA SumOfZeros ==
    ASSUME NEW f, IsFiniteSet(DOMAIN f), \A x \in DOMAIN f : f[x] = 0
    PROVE  SumFunction(f) = 0
<1> DEFINE h == [x \in {} |-> 0]
<1>1. Summable(f)
  BY DEF Summable
<1>2. PICK g : Totals(g, f, DOMAIN f) /\ SumFunction(f) = g[DOMAIN f]
  BY <1>1, SumOfTotals
<1>3. \A T \in SUBSET DOMAIN f : g[T] = 0
  <2> DEFINE Bad == {T \in SUBSET DOMAIN f : g[T] # 0}
  <2> SUFFICES ASSUME Bad # {} PROVE FALSE
    OBVIOUS
  <2>1. PICK T \in Bad : \A U \in SUBSET T : U \in Bad => U = T
    <3>1. Bad \subseteq SUBSET DOMAIN f
      OBVIOUS
    <3> HIDE DEF Bad
    <3> QED BY <3>1, SmallestSet
  <2>2. T # {}
    BY <1>2 DEF Totals, SumFrom
  <2>3. PICK x \in T : TRUE
    BY <2>2
  <2>4. g[T] = f[x] + g[T \ {x}]
    BY <1>1, <1>2, TotalsWithout DEF Summable
  <2>5. g[T \ {x}] = 0
    BY <2>1, <2>3
  <2> QED BY <2>4, <2>5
<1> QED BY <1>2, <1>3

(* A sum of natural numbers is at least each of them.                      *)
LEMMA SumOfNaturals ==
    ASSUME NEW f, IsFiniteSet(DOMAIN f), \A x \in DOMAIN f : f[x] \in Nat
    PROVE  /\ SumFunction(f) \in Nat
           /\ \A x \in DOMAIN f : f[x] <= SumFunction(f)
<1>1. Summable(f)
  BY DEF Summable
<1>2. PICK g : Totals(g, f, DOMAIN f) /\ SumFunction(f) = g[DOMAIN f]
  BY <1>1, SumOfTotals
<1>3. ASSUME NEW T \in SUBSET DOMAIN f, NEW x \in T PROVE g[T] = f[x] + g[T \ {x}]
  BY <1>1, <1>2, TotalsWithout DEF Summable
<1>4. \A T \in SUBSET DOMAIN f : g[T] \in Nat
  <2> DEFINE Bad == {T \in SUBSET DOMAIN f : g[T] \notin Nat}
  <2> SUFFICES ASSUME Bad # {} PROVE FALSE
    OBVIOUS
  <2>1. PICK T \in Bad : \A U \in SUBSET T : U \in Bad => U = T
    <3>1. Bad \subseteq SUBSET DOMAIN f
      OBVIOUS
    <3> HIDE DEF Bad
    <3> QED BY <3>1, SmallestSet
  <2>2. T # {}
    BY <1>2 DEF Totals, SumFrom
  <2>3. PICK x \in T : TRUE
    BY <2>2
  <2>4. g[T] = f[x] + g[T \ {x}]
    BY <1>3, <2>3
  <2>5. g[T \ {x}] \in Nat /\ f[x] \in Nat
    BY <2>1, <2>3
  <2> QED BY <2>4, <2>5
<1>5. ASSUME NEW x \in DOMAIN f PROVE f[x] <= g[DOMAIN f]
  <2>1. g[DOMAIN f] = f[x] + g[DOMAIN f \ {x}]
    BY <1>3
  <2>2. g[DOMAIN f \ {x}] \in Nat /\ f[x] \in Nat
    BY <1>4
  <2> QED BY <2>1, <2>2
<1> QED BY <1>2, <1>4, <1>5
-----------------------------------------------------------------------------
(* The ledger adds up.  The sums are over finite sets: the jobs by          *)
(* assumption, the credits because each step writes at most one row.       *)
Amounts == [c \in credits |-> c.amount]

BalanceInv == Balanced /\ IsFiniteSet(credits)

LEMMA PromisesSummable ==
  ASSUME IsFiniteSet(Jobs), WalletTypeOK
  PROVE  Summable(Promises)
<1>1. \A j \in Jobs : OpenAmount(j) \in Int
  BY OpenType DEF OpenAmount
<1> QED BY <1>1 DEF Promises, Summable

LEMMA AmountsSummable ==
  ASSUME IsFiniteSet(credits), WalletTypeOK
  PROVE  Summable(Amounts)
BY DEF Amounts, Summable, WalletTypeOK

(* Balanced in these words, of this state and of the next.                 *)
LEMMA BalancedIs ==
  Balanced <=> /\ wallet.reserved = SumFunction(Promises)
               /\ wallet.balance + wallet.consumed = SumFunction(Amounts)
BY DEF Balanced, Promises, Amounts

LEMMA BalancedNext ==
  ASSUME NEW r, NEW c, Promises' = r, Amounts' = c,
         wallet'.reserved = SumFunction(r),
         wallet'.balance + wallet'.consumed = SumFunction(c)
  PROVE  Balanced'
BY DEF Balanced, Promises, Amounts

LEMMA PromisesStay == ASSUME UNCHANGED entries PROVE Promises' = Promises
BY DEF Promises, OpenAmount, HasOpen

(* A credit row more is the same amount more in the ledger. *)
LEMMA RowAdds ==
  ASSUME IsFiniteSet(credits), WalletTypeOK, NEW r \in [key : CreditKey, amount : Nat],
         r \notin credits, credits' = credits \cup {r}
  PROVE  /\ IsFiniteSet(credits')
         /\ SumFunction(Amounts') = SumFunction(Amounts) + r.amount
<1> DEFINE more == [c \in credits \cup {r} |-> c.amount]
<1>1. Amounts' = more
  BY DEF Amounts
<1>2. IsFiniteSet(credits \cup {r})
  BY FS_AddElement
<1>3. Summable(more)
  BY <1>2 DEF Summable, WalletTypeOK
<1>4. Summable(Amounts)
  BY AmountsSummable
<1>5. /\ DOMAIN more = credits \cup {r} /\ DOMAIN Amounts = credits /\ more[r] = r.amount
      /\ \A y \in credits : more[y] = Amounts[y]
  BY DEF Amounts
<1> HIDE DEF more
<1>6. SumFunction(more) = SumFunction(Amounts) - 0 + r.amount
  <2>1. /\ DOMAIN Amounts \ {r} = DOMAIN more \ {r}
        /\ \A y \in DOMAIN Amounts \ {r} : Amounts[y] = more[y]
    BY <1>5
  <2>2. SumFunction(more) = SumFunction(Amounts) - (IF r \in DOMAIN Amounts THEN Amounts[r] ELSE 0)
                                + (IF r \in DOMAIN more THEN more[r] ELSE 0)
    BY <1>3, <1>4, <2>1, SumApart
  <2> QED BY <1>5, <2>2
<1>7. SumFunction(Amounts) \in Int
  BY <1>4, SumTyped
<1> QED BY <1>1, <1>2, <1>6, <1>7

(* A promise that changes moves the sum by as much. *)
LEMMA PromiseMoves ==
  ASSUME IsFiniteSet(Jobs), WalletTypeOK, NEW j \in Jobs, NEW n \in Nat,
         Promises' = [Promises EXCEPT ![j] = n]
  PROVE  SumFunction(Promises') = SumFunction(Promises) - Promises[j] + n
<1> DEFINE f == Promises
           h == [f EXCEPT ![j] = n]
<1>1. Summable(f) /\ DOMAIN f = Jobs
  BY PromisesSummable DEF Promises
<1> HIDE DEF f
<1>2. Summable(h) /\ DOMAIN h = Jobs /\ h[j] = n /\ \A i \in Jobs \ {j} : h[i] = f[i]
  BY <1>1 DEF Summable
<1>3. Promises' = h
  BY DEF f
<1> HIDE DEF h
<1>4. SumFunction(h) = SumFunction(f) - (IF j \in DOMAIN f THEN f[j] ELSE 0)
                              + (IF j \in DOMAIN h THEN h[j] ELSE 0)
  BY <1>1, <1>2, SumApart
<1>5. SumFunction(h) = SumFunction(f) - f[j] + n
  BY <1>1, <1>2, <1>4
<1> QED BY <1>3, <1>5 DEF f

(* A gift, a grant, a payment: a row and the balance, or neither.          *)
LEMMA CreditBalances ==
  ASSUME IsFiniteSet(Jobs), WalletTypeOK, BalanceInv, NEW k \in CreditKey, NEW n \in Nat,
         CreditOnce(k, n), UNCHANGED entries
  PROVE  BalanceInv'
<1>1. CASE Credited(k)
  <2>1. UNCHANGED <<wallet, credits>>
    BY <1>1 DEF CreditOnce
  <2> QED BY <2>1 DEF BalanceInv, Balanced, OpenAmount, HasOpen
<1>2. CASE ~Credited(k)
  <2> DEFINE r == [key |-> k, amount |-> n]
  <2>1. /\ r \in [key : CreditKey, amount : Nat] /\ r.key = k /\ r.amount = n
        /\ credits' = credits \cup {r} /\ wallet' = [wallet EXCEPT !.balance = @ + n]
    BY <1>2 DEF CreditOnce
  <2> HIDE DEF r
  <2>2. r \notin credits
    BY <1>2, <2>1 DEF Credited
  <2>3. IsFiniteSet(credits') /\ SumFunction(Amounts') = SumFunction(Amounts) + n
    BY <2>1, <2>2, RowAdds DEF BalanceInv
  <2>4. Promises' = Promises
    BY PromisesStay
  <2>5. /\ wallet'.reserved = wallet.reserved /\ wallet'.consumed = wallet.consumed
        /\ wallet'.balance = wallet.balance + n
        /\ wallet.balance \in Int /\ wallet.consumed \in Int
    BY <2>1 DEF WalletTypeOK
  <2>6. /\ wallet'.reserved = SumFunction(Promises)
        /\ wallet'.balance + wallet'.consumed = SumFunction(Amounts')
    BY <2>3, <2>5, BalancedIs DEF BalanceInv
  <2>7. Balanced'
    BY <2>4, <2>6, BalancedNext
  <2> QED BY <2>3, <2>7 DEF BalanceInv
<1> QED BY <1>1, <1>2

(* reserve() promises the price, after granting the month if need be.      *)
LEMMA ReserveBalances ==
  ASSUME IsFiniteSet(Jobs), WalletTypeOK, BalanceInv, NEW j \in Jobs, ReserveNew(j)
  PROVE  BalanceInv'
<1> DEFINE e == [type |-> "reserve", amount |-> price[j]]
           k == GrantKey(period)
<1>1. price[j] \in Nat /\ k \in CreditKey /\ ~HasOpen(j)
  BY WalletAssumption, KeyTypes DEF WalletTypeOK, ReserveNew
<1>2. e \in JobEntry /\ e.type = "reserve" /\ e.amount = price[j]
  BY <1>1 DEF JobEntry
<1>3. entries' = [entries EXCEPT ![j] = Append(entries[j], e)]
  BY DEF ReserveNew
<1> HIDE DEF e
<1>4. Promises' = [Promises EXCEPT ![j] = price[j]] /\ Promises[j] = 0
  <2>1. Promises' = [Promises EXCEPT ![j] = price[j]]
    BY <1>2, <1>3, RowChangesOnePromise
  <2>2. Promises[j] = 0
    BY <1>1 DEF Promises, OpenAmount, HasOpen
  <2> QED BY <2>1, <2>2
<1>5. SumFunction(Promises') = SumFunction(Promises) - 0 + price[j]
  BY <1>1, <1>4, PromiseMoves
<1>6. /\ SumFunction(Promises) = wallet.reserved
      /\ wallet.balance + wallet.consumed = SumFunction(Amounts)
  BY BalancedIs DEF BalanceInv
<1>7. PICK n \in PlanTokens :
        LET granted == Credited(k) IN
        /\ credits' = IF granted THEN credits ELSE credits \cup {[key |-> k, amount |-> n]}
        /\ wallet' = [balance  |-> wallet.balance + (IF granted THEN 0 ELSE n),
                      reserved |-> wallet.reserved + price[j],
                      consumed |-> wallet.consumed]
  BY DEF ReserveNew
<1>8. n \in Nat /\ wallet.balance \in Int /\ wallet.reserved \in Int /\ wallet.consumed \in Int
  BY WalletAssumption DEF WalletTypeOK
<1>9. wallet'.reserved = SumFunction(Promises')
  BY <1>1, <1>5, <1>6, <1>7, <1>8
<1>10. CASE Credited(k)
  <2>1. credits' = credits /\ wallet'.balance = wallet.balance + 0 /\ wallet'.consumed = wallet.consumed
    BY <1>7, <1>10
  <2>2. Amounts' = Amounts /\ IsFiniteSet(credits')
    BY <2>1 DEF Amounts, BalanceInv
  <2>3. wallet'.balance + wallet'.consumed = SumFunction(Amounts')
    BY <1>6, <1>8, <2>1, <2>2
  <2> QED BY <1>9, <2>2, <2>3, BalancedNext DEF BalanceInv
<1>11. CASE ~Credited(k)
  <2> DEFINE r == [key |-> k, amount |-> n]
  <2>1. /\ r \in [key : CreditKey, amount : Nat] /\ r.key = k /\ r.amount = n
        /\ credits' = credits \cup {r}
    BY <1>1, <1>7, <1>8, <1>11
  <2>2. wallet'.balance = wallet.balance + n /\ wallet'.consumed = wallet.consumed
    BY <1>7, <1>11
  <2> HIDE DEF r, k
  <2>3. r \notin credits
    BY <1>11, <2>1 DEF Credited
  <2>4. IsFiniteSet(credits') /\ SumFunction(Amounts') = SumFunction(Amounts) + n
    BY <2>1, <2>3, RowAdds DEF BalanceInv
  <2>5. wallet'.balance + wallet'.consumed = SumFunction(Amounts')
    BY <1>6, <1>8, <2>2, <2>4
  <2> QED BY <1>9, <2>4, <2>5, BalancedNext DEF BalanceInv
<1> QED BY <1>10, <1>11

(* commit() and release() end the promise that is open.                    *)
LEMMA SettleBalances ==
  ASSUME IsFiniteSet(Jobs), WalletTypeOK, BalanceInv, NEW j \in Jobs,
         NEW type \in {"commit", "release"}, HasOpen(j), Settle(j, type)
  PROVE  BalanceInv'
<1> DEFINE amount == OpenAmount(j)
           e      == [type |-> type, amount |-> amount]
           spent  == IF type = "commit" THEN amount ELSE 0
<1>1. amount \in Nat /\ Promises[j] = amount
  BY OpenType DEF Promises
<1>2. e \in JobEntry /\ e.type # "reserve"
  BY <1>1 DEF JobEntry
<1>3. entries' = [entries EXCEPT ![j] = Append(entries[j], e)] /\ credits' = credits
  BY DEF Settle
<1>4. wallet' = [balance  |-> wallet.balance - spent,
                 reserved |-> wallet.reserved - amount,
                 consumed |-> wallet.consumed + spent]
  BY DEF Settle
<1>5. spent \in Nat
  BY <1>1
<1> HIDE DEF e, amount, spent
<1>6. Promises' = [Promises EXCEPT ![j] = 0]
  BY <1>2, <1>3, RowChangesOnePromise
<1>7. SumFunction(Promises') = SumFunction(Promises) - amount + 0
  BY <1>1, <1>6, PromiseMoves
<1>8. /\ SumFunction(Promises) = wallet.reserved
      /\ wallet.balance + wallet.consumed = SumFunction(Amounts)
  BY BalancedIs DEF BalanceInv
<1>9. wallet.balance \in Int /\ wallet.reserved \in Int /\ wallet.consumed \in Int
  BY DEF WalletTypeOK
<1>10. /\ wallet'.reserved = SumFunction(Promises')
       /\ wallet'.balance + wallet'.consumed = SumFunction(Amounts)
  BY <1>1, <1>4, <1>5, <1>7, <1>8, <1>9
<1>11. Amounts' = Amounts /\ IsFiniteSet(credits')
  BY <1>3 DEF Amounts, BalanceInv
<1> QED BY <1>10, <1>11, BalancedNext DEF BalanceInv

(* The wallet row is the sum of its ledger, for any finite number of jobs, *)
(* whatever the order of reserves, settlements, credits and price changes: *)
(* no statement writes the row without the ledger, or the ledger without   *)
(* the row.                                                                *)
THEOREM WalletBalanced ==
  ASSUME IsFiniteSet(Jobs) PROVE WalletSpec => []Balanced
<1>1. WalletInit => BalanceInv
  <2> SUFFICES ASSUME WalletInit PROVE BalanceInv
    OBVIOUS
  <2>1. credits = {} /\ wallet.reserved = 0 /\ wallet.balance + wallet.consumed = 0
    BY DEF WalletInit
  <2>2. SumFunction(Promises) = 0
    <3>1. DOMAIN Promises = Jobs /\ \A j \in Jobs : Promises[j] = 0
      BY DEF WalletInit, Promises, OpenAmount, HasOpen
    <3> QED BY <3>1, SumOfZeros
  <2>3. IsFiniteSet(credits)
    BY <2>1, FS_EmptySet
  <2>4. SumFunction(Amounts) = 0
    <3>1. DOMAIN Amounts = {}
      BY <2>1 DEF Amounts
    <3> QED BY <3>1, FS_EmptySet, SumOfZeros
  <2> QED BY <2>1, <2>2, <2>3, <2>4, BalancedIs DEF BalanceInv
<1>2. WalletTypeOK /\ BalanceInv /\ [WalletNext]_walletVars => BalanceInv'
  <2> SUFFICES ASSUME WalletTypeOK, BalanceInv, WalletActions PROVE BalanceInv'
    BY StepCases
  <2> USE KeyTypes, WalletAssumption
  <2>1. CASE Gift
    BY <2>1, CreditBalances DEF Gift
  <2>2. ASSUME NEW n \in PlanTokens, CreditOnce(GrantKey(period), n), UNCHANGED entries
        PROVE  BalanceInv'
    <3>1. n \in Nat /\ GrantKey(period) \in CreditKey
      BY DEF WalletTypeOK
    <3> QED BY <2>2, <3>1, CreditBalances
  <2>3. ASSUME UNCHANGED <<wallet, entries, credits>> PROVE BalanceInv'
    BY <2>3 DEF BalanceInv, Balanced, OpenAmount, HasOpen
  <2>4. ASSUME NEW h \in Webhooks, ClaimPayment(h) PROVE BalanceInv'
    <3>1. webhook[h] \in Payments /\ PaymentKey(webhook[h]) \in CreditKey
      BY <2>4 DEF ClaimPayment, WalletTypeOK
    <3>2. CASE payment[webhook[h]] = "paid"
      BY <2>3, <2>4, <3>2 DEF ClaimPayment
    <3>3. CASE payment[webhook[h]] # "paid"
      <4>1. CreditOnce(PaymentKey(webhook[h]), PackTokens) /\ UNCHANGED entries
        BY <2>4, <3>3 DEF ClaimPayment
      <4> QED BY <3>1, <4>1, CreditBalances
    <3> QED BY <3>2, <3>3
  <2>5. ASSUME NEW j \in Jobs, ReserveNew(j) PROVE BalanceInv'
    BY <2>5, ReserveBalances
  <2>6. ASSUME NEW j \in Jobs, NEW type \in {"commit", "release"}, Settle(j, type)
        PROVE  BalanceInv'
    <3>1. CASE HasOpen(j)
      BY <2>6, <3>1, SettleBalances
    <3>2. CASE ~HasOpen(j)
      BY <2>3, <2>6, <3>2 DEF Settle, walletVars
    <3> QED BY <3>1, <3>2
  <2> QED
    BY <2>1, <2>2, <2>3, <2>4, <2>5, <2>6
    DEF WalletActions, ReadSnapshot, NextMonth, CreatePayment, ReadPayment,
        ChangePrice, ReserveAgain, walletVars
<1>3. BalanceInv => Balanced
  BY DEF BalanceInv
<1> QED BY <1>1, <1>2, <1>3, WalletTyped, PTL DEF WalletSpec

(* So the counters never run below zero: with BILLING_ENFORCE on, what is  *)
(* reserved covers each open reserve and the balance covers what is        *)
(* reserved, and whatever settles next finds the tokens it takes.          *)
Funded == Enforced => /\ \A j \in Jobs : 0 <= OpenAmount(j) /\ OpenAmount(j) <= wallet.reserved
                      /\ 0 <= wallet.reserved /\ wallet.reserved <= wallet.balance

(* Funded holds of every wallet with finitely many jobs.                   *)
THEOREM WalletFunded ==
  ASSUME IsFiniteSet(Jobs) PROVE WalletSpec => []Funded
<1>1. WalletTypeOK /\ Balanced /\ Solvent => Funded
  <2> SUFFICES ASSUME WalletTypeOK, Balanced, Solvent, Enforced PROVE Funded
    BY DEF Funded
  <2>1. wallet.balance \in Int /\ wallet.reserved \in Int
    BY DEF WalletTypeOK
  <2>2. wallet.reserved <= wallet.balance
    BY <2>1 DEF Solvent, Available
  <2>3. DOMAIN Promises = Jobs /\ \A j \in Jobs : Promises[j] = OpenAmount(j)
    BY DEF Promises
  <2>4. \A j \in Jobs : OpenAmount(j) \in Nat
    BY OpenType DEF OpenAmount
  <2>5. wallet.reserved \in Nat /\ \A j \in Jobs : OpenAmount(j) <= wallet.reserved
    BY <2>3, <2>4, SumOfNaturals, BalancedIs
  <2> QED BY <2>2, <2>4, <2>5 DEF Funded
<1> QED BY <1>1, WalletTyped, WalletBalanced, WalletSolvent, PTL
-----------------------------------------------------------------------------
(* The sessions                                                            *)

(* Which operation a call can be in where, and the row it is about.        *)
Asks(c) ==
    /\ c.at = "idle" => c.op = "none"
    /\ c.at \in {"compare", "issue"} => c.op = "login"
    /\ c.at = "exchange" => c.op = "refresh" /\ c.id # 0
    /\ c.at = "create" => c.op \in {"refresh", "forgot"} /\ (c.op = "refresh" => c.id # 0)
    /\ c.at = "write" => c.op \notin {"none", "login", "refresh"}
    /\ c.op = "reset" => c.id \in LinkIds
    /\ c.op = "logout" => c.id \in TokenIds
    /\ c.op = "refresh" => c.id \in 0 .. MaxTokens
    /\ c.at # "answer" => c.gives = Keep
    /\ c.op = "refresh" /\ c.at = "answer" => c.gives # Keep

(* Where a request may be sent again, it is known what was asked.          *)
AskedKnown == \A p \in Tabs : call[p].at = "answer" /\ call[p].op = "none" => faults = MaxFaults

Creating(c) == c.at = "create" /\ c.op = "refresh"

(* Tokens that are asked for have been issued; one on its way to the       *)
(* browser is known to no other call.                                      *)
TokensKnown ==
    /\ jar # 0 => token[jar] # "unused"
    /\ \A p \in Tabs : call[p].op = "refresh" /\ call[p].id # 0 => token[call[p].id] # "unused"
OnTheWay ==
    \A p \in Tabs : call[p].gives > 0 =>
        /\ token[call[p].gives] \notin {"unused", "spent"} /\ jar # call[p].gives
        /\ \A q \in Tabs : /\ call[q].op = "refresh" => call[q].id # call[p].gives
                           /\ call[q].gives = call[p].gives => q = p

(* A token that was exchanged is spent, by one call for one other.         *)
Descent ==
    /\ \A t \in TokenIds : parent[t] # 0 => token[parent[t]] = "spent"
    /\ \A s, t \in TokenIds : parent[s] = parent[t] /\ parent[s] # 0 => s = t
    /\ \A p \in Tabs : Creating(call[p]) =>
          /\ token[call[p].id] = "spent" /\ \A t \in TokenIds : parent[t] # call[p].id
          /\ \A q \in Tabs : Creating(call[q]) /\ call[q].id = call[p].id => q = p

LinksOnce == \A k \in LinkIds : used[k] <= 1 /\ (used[k] > 0 => link[k] = "spent")

SessionsInv ==
    /\ SessionsTypeOK /\ (\A p \in Tabs : Asks(call[p])) /\ AskedKnown
    /\ TokensKnown /\ OnTheWay /\ Descent /\ LinksOnce /\ CookieRenewed

LEMMA SessionBounds ==
    /\ LockAt \in Nat \ {0} /\ MaxTokens \in Nat /\ MaxLinks \in Nat /\ MaxFaults \in Nat \ {0}
    /\ 0 \notin TokenIds /\ 0 \notin LinkIds /\ TokenIds \subseteq 0 .. MaxTokens
    /\ Keep = -1 /\ Keep \in Keep .. MaxTokens /\ 0 \in Keep .. MaxTokens
    /\ TokenIds = (Keep .. MaxTokens) \ {Keep, 0} /\ TokenIds \subseteq Int
    /\ 0 \in 0 .. MaxTokens + MaxLinks /\ TokenIds \subseteq 0 .. MaxTokens + MaxLinks
    /\ LinkIds \subseteq 0 .. MaxTokens + MaxLinks
BY SessionsAssumption DEF SessionsAssumption, TokenIds, LinkIds, Keep

LEMMA NoRequest ==
    /\ NoCall \in CallState /\ Asks(NoCall) /\ ~Creating(NoCall)
    /\ NoCall.at = "idle" /\ NoCall.op = "none" /\ NoCall.gives = Keep /\ NoCall.id = 0
BY SessionBounds DEF NoCall, CallState, Asks, Creating

LEMMA RequestOf ==
    ASSUME SessionsInv, NEW p \in Tabs
    PROVE  /\ call[p] \in CallState /\ Asks(call[p])
           /\ call[p].at \in {"idle", "compare", "issue", "exchange", "create", "write", "answer"}
           /\ call[p].op \in Operations \cup {"none"} /\ call[p].right \in BOOLEAN
           /\ call[p].seen \in {"none", "over"} /\ call[p].id \in 0 .. MaxTokens + MaxLinks
           /\ call[p].gives \in Keep .. MaxTokens
BY DEF SessionsInv, SessionsTypeOK, CallState

(* What the steps leave alone, in the words of the invariant.              *)
TabMoves(p, d) == call' = [call EXCEPT ![p] = d]

LEMMA Others ==
    ASSUME SessionsInv, NEW p \in Tabs, NEW d \in CallState, TabMoves(p, d)
    PROVE  /\ call' \in [Tabs -> CallState] /\ call'[p] = d
           /\ \A q \in Tabs \ {p} : call'[q] = call[q]
BY DEF TabMoves, SessionsInv, SessionsTypeOK

(* No token is issued or exchanged.                                        *)
TokensOnlyEnd ==
    /\ token' \in [TokenIds -> Stages]
    /\ \A t \in TokenIds : /\ token'[t] = "unused" <=> token[t] = "unused"
                           /\ token'[t] = "spent" <=> token[t] = "spent"

(* No password is set by a link.                                           *)
LinksStay ==
    /\ link' \in [LinkIds -> Stages] /\ used' = used
    /\ \A k \in LinkIds : link[k] = "spent" => link'[k] = "spent"

(* A call that asks for no token but one the browser or it itself had.     *)
Modest(c, d) ==
    /\ d.gives \in {Keep, 0} /\ (Creating(d) => Creating(c) /\ d.id = c.id)
    /\ d.op = "refresh" /\ d.id # 0 => d.id = jar \/ (c.op = "refresh" /\ d.id = c.id)
    /\ c.op = "refresh" /\ c.at # "idle" /\ faults' = 0 => d.op = "refresh" /\ d.at # "idle"
    /\ d.at = "answer" /\ d.op = "none" => faults' = MaxFaults

LEMMA LinksOnceStays == ASSUME SessionsInv, LinksStay PROVE LinksOnce'
BY DEF LinksStay, SessionsInv, LinksOnce, SessionsTypeOK

AccountTyped == /\ active' \in BOOLEAN /\ failed' \in Nat /\ lock' \in {"none", "held", "over"}
                /\ failed' >= LockAt => lock' # "none"

LEMMA JarTyped == ASSUME SessionsInv PROVE jar \in Int /\ jar \in 0 .. MaxTokens /\ (jar # 0 => jar \in TokenIds)
BY SessionBounds DEF SessionsInv, SessionsTypeOK, TokenIds

(* A step that issues and exchanges no token keeps the tokens' part.       *)
LEMMA ModestKeeps ==
    ASSUME SessionsInv, NEW p \in Tabs, NEW d \in CallState, TabMoves(p, d), Asks(d), Modest(call[p], d),
           TokensOnlyEnd, parent' = parent, jar' = jar, faults' \in faults .. MaxFaults,
           LinksOnce', AccountTyped, link' \in [LinkIds -> Stages], used' \in [LinkIds -> Nat]
    PROVE  SessionsInv'
<1>1. /\ call' \in [Tabs -> CallState] /\ call'[p] = d
      /\ \A q \in Tabs \ {p} : call'[q] = call[q]
  BY Others
<1>2. faults' \in 0 .. MaxFaults /\ (faults = MaxFaults => faults' = MaxFaults)
      /\ (faults' = 0 => faults = 0)
  BY SessionBounds DEF SessionsInv, SessionsTypeOK
<1>3. SessionsTypeOK'
  BY <1>1, <1>2 DEF SessionsInv, SessionsTypeOK, TokensOnlyEnd, AccountTyped
<1>4. \A q \in Tabs : Asks(call'[q])
  BY <1>1 DEF SessionsInv
<1>5. AskedKnown'
  BY <1>1, <1>2 DEF SessionsInv, AskedKnown, Modest
<1>6. \A q \in Tabs : call'[q].gives > 0 => q # p /\ call'[q] = call[q]
  BY <1>1, SessionBounds DEF Modest
<1>7. \A q \in Tabs : call'[q].op = "refresh" /\ call'[q].id # 0 =>
        call'[q].id = jar \/ (call[q].op = "refresh" /\ call'[q].id = call[q].id)
  BY <1>1 DEF Modest
<1>8. \A q \in Tabs : call'[q].op = "refresh" /\ call'[q].id # 0 => call'[q].id \in TokenIds
  BY <1>4, SessionBounds DEF Asks, TokenIds
<1>9. TokensKnown'
  BY <1>7, <1>8, JarTyped DEF SessionsInv, TokensKnown, TokensOnlyEnd
<1>10. OnTheWay'
  <2> SUFFICES ASSUME NEW q \in Tabs, call'[q].gives > 0
               PROVE  /\ token'[call'[q].gives] \notin {"unused", "spent"} /\ jar # call'[q].gives
                      /\ \A r \in Tabs : /\ call'[r].op = "refresh" => call'[r].id # call'[q].gives
                                         /\ call'[r].gives = call'[q].gives => r = q
    BY DEF OnTheWay
  <2>1. call'[q] = call[q] /\ call[q].gives > 0 /\ call[q].gives \in TokenIds
    BY <1>6, RequestOf, SessionBounds
  <2>2. token'[call[q].gives] \notin {"unused", "spent"} /\ jar # call[q].gives
    BY <2>1 DEF SessionsInv, OnTheWay, TokensOnlyEnd
  <2>3. ASSUME NEW r \in Tabs, call'[r].op = "refresh" PROVE call'[r].id # call[q].gives
    BY <1>7, <2>1, <2>2, <2>3, SessionBounds DEF SessionsInv, OnTheWay
  <2>4. ASSUME NEW r \in Tabs, call'[r].gives = call[q].gives PROVE r = q
    BY <1>6, <2>1, <2>4 DEF SessionsInv, OnTheWay
  <2> QED BY <2>1, <2>2, <2>3, <2>4
<1>11. Descent'
  <2>1. \A q \in Tabs : Creating(call'[q]) => Creating(call[q]) /\ call'[q].id = call[q].id
                                              /\ call[q].id \in TokenIds
    BY <1>1, RequestOf, SessionBounds DEF Modest, Creating, Asks, TokenIds
  <2>2. \A t \in TokenIds : parent[t] # 0 => parent[t] \in TokenIds
    BY SessionBounds DEF SessionsInv, SessionsTypeOK, TokenIds
  <2> QED BY <2>1, <2>2 DEF SessionsInv, Descent, TokensOnlyEnd, Creating
<1>12. CookieRenewed'
  <2> SUFFICES ASSUME jar # 0, token'[jar] = "spent", faults' = 0
               PROVE  \E q \in Tabs : call'[q].op = "refresh" /\ call'[q].at # "idle"
    BY DEF CookieRenewed
  <2>1. token[jar] = "spent" /\ faults = 0
    BY <1>2, JarTyped DEF TokensOnlyEnd
  <2>2. PICK q \in Tabs : call[q].op = "refresh" /\ call[q].at # "idle"
    BY <2>1 DEF SessionsInv, CookieRenewed
  <2>3. call'[q].op = "refresh" /\ call'[q].at # "idle"
    BY <1>1, <2>2 DEF Modest
  <2> QED BY <2>3
<1> QED BY <1>3, <1>4, <1>5, <1>9, <1>10, <1>11, <1>12 DEF SessionsInv

(* An answer that gives no token.                                          *)
LEMMA Answers ==
    ASSUME SessionsInv, NEW p \in Tabs, NEW g \in Keep .. MaxTokens, Answer(p, g), UNCHANGED faults,
           call[p].at # "idle", call[p].op = "refresh" => g # Keep
    PROVE  \E d \in CallState :
              /\ TabMoves(p, d) /\ Asks(d) /\ d.at = "answer" /\ d.gives = g /\ ~Creating(d)
              /\ d.op \in {call[p].op, "none"} /\ (d.op = "none" => faults = MaxFaults)
              /\ d.op # "none" => d.id = call[p].id
              /\ faults' = 0 => d.op = call[p].op
              /\ g \in {Keep, 0} => Modest(call[p], d)
<1>1. faults \in 0 .. MaxFaults /\ MaxFaults \in Nat \ {0}
  BY SessionBounds DEF SessionsInv, SessionsTypeOK
<1>2. call[p].op # "none" \/ (call[p].at = "answer" /\ faults = MaxFaults)
  BY RequestOf DEF SessionsInv, Asks, AskedKnown
<1>3. CASE faults < MaxFaults
  <2> DEFINE d == [call[p] EXCEPT !.at = "answer", !.seen = "none", !.gives = g]
  <2>1. /\ d \in CallState /\ d.at = "answer" /\ d.gives = g /\ d.op = call[p].op
        /\ d.id = call[p].id
    BY RequestOf DEF CallState
  <2>2. TabMoves(p, d)
    BY <1>3 DEF Answer, TabMoves
  <2> HIDE DEF d
  <2>3. Asks(d)
    BY <2>1, RequestOf DEF Asks
  <2>4. ~Creating(d)
    BY <2>1 DEF Creating
  <2>5. d.op # "none"
    BY <1>1, <1>2, <1>3, <2>1
  <2>6. g \in {Keep, 0} => Modest(call[p], d)
    BY <2>1, <2>4, <2>5 DEF Modest
  <2> QED BY <2>1, <2>2, <2>3, <2>4, <2>5, <2>6
<1>4. CASE ~(faults < MaxFaults)
  <2> DEFINE d == [NoCall EXCEPT !.at = "answer", !.gives = g]
  <2>1. /\ d \in CallState /\ d.at = "answer" /\ d.gives = g /\ d.op = "none" /\ d.id = 0
    BY NoRequest DEF NoCall, CallState
  <2>2. TabMoves(p, d)
    BY <1>4 DEF Answer, TabMoves
  <2> HIDE DEF d
  <2>3. Asks(d) /\ ~Creating(d)
    BY <2>1 DEF Asks, Creating
  <2>4. faults = MaxFaults /\ faults' # 0
    BY <1>1, <1>4
  <2>5. g \in {Keep, 0} => Modest(call[p], d)
    BY <2>1, <2>3, <2>4 DEF Modest
  <2> QED BY <2>1, <2>2, <2>3, <2>4, <2>5
<1> QED BY <1>3, <1>4
-----------------------------------------------------------------------------
(* A request                                                               *)

LEMMA TokensAsTheyAre == ASSUME SessionsInv, UNCHANGED token PROVE TokensOnlyEnd
BY DEF SessionsInv, SessionsTypeOK, TokensOnlyEnd

LEMMA AccountAsItIs == ASSUME SessionsInv, UNCHANGED account PROVE AccountTyped
BY DEF SessionsInv, SessionsTypeOK, AccountTyped, account

LEMMA LinksAsTheyAre == ASSUME SessionsInv, UNCHANGED <<link, used>> PROVE LinksOnce'
BY DEF SessionsInv, LinksOnce

LEMMA RowsTyped ==
    ASSUME SessionsInv
    PROVE  token \in [TokenIds -> Stages] /\ link \in [LinkIds -> Stages]
           /\ used \in [LinkIds -> Nat] /\ faults \in faults .. MaxFaults
BY SessionBounds DEF SessionsInv, SessionsTypeOK

LEMMA ReadKeeps ==
    ASSUME SessionsInv, NEW p \in Tabs, NEW op \in Operations, NEW right \in BOOLEAN,
           NEW id \in 0 .. MaxTokens + MaxLinks, Read(p, op, right, id),
           op = "reset" => id \in LinkIds, op = "logout" => id \in TokenIds,
           op = "refresh" => id \in 0 .. MaxTokens,
           op = "refresh" /\ id # 0 => id = jar \/ (call[p].op = "refresh" /\ id = call[p].id),
           faults' \in faults .. MaxFaults, faults' = 0 => call[p].op \in {op, "none"}
    PROVE  SessionsInv'
<1>1. PICK d \in CallState :
        /\ TabMoves(p, d) /\ d.op = op /\ d.id = id
        /\ \/ d.at = "answer" /\ d.gives \in {Keep, 0} /\ (op = "refresh" => d.gives = 0)
           \/ d.at = First(op) /\ Holds(op, id) /\ d.gives = Keep
  <2>1. CASE Admitted(op) /\ Holds(op, id) /\ ~(op = "login" /\ lock = "held")
    <3> DEFINE d == [NoCall EXCEPT !.at = First(op), !.op = op, !.right = right, !.id = id,
                                   !.seen = IF op = "login" /\ lock = "over" THEN "over" ELSE "none"]
    <3>1. First(op) \in {"compare", "exchange", "write"}
      BY DEF First, Operations
    <3>2. d \in CallState /\ d.op = op /\ d.id = id /\ d.at = First(op) /\ d.gives = Keep
      BY <3>1, SessionBounds DEF NoCall, CallState
    <3>3. TabMoves(p, d)
      BY <2>1 DEF Read, TabMoves
    <3> HIDE DEF d
    <3> QED BY <2>1, <3>2, <3>3
  <2>2. CASE ~(Admitted(op) /\ Holds(op, id) /\ ~(op = "login" /\ lock = "held"))
    <3> DEFINE g == IF op = "refresh" THEN 0 ELSE Keep
               d == [NoCall EXCEPT !.at = "answer", !.op = op, !.right = right, !.id = id,
                                   !.gives = g]
    <3>1. g \in {Keep, 0} /\ (op = "refresh" => g = 0)
      OBVIOUS
    <3>2. TabMoves(p, d)
      BY <2>2 DEF Read, TabMoves
    <3> HIDE DEF g
    <3>3. d \in CallState /\ d.op = op /\ d.id = id /\ d.at = "answer" /\ d.gives = g
      BY <3>1, SessionBounds DEF NoCall, CallState
    <3> HIDE DEF d
    <3> QED BY <3>1, <3>2, <3>3
  <2> QED BY <2>1, <2>2
<1>4. Asks(d)
  <2>1. d.at # "answer" =>
          /\ d.at = "compare" => op = "login"
          /\ d.at = "exchange" => op = "refresh" /\ id # 0
          /\ d.at = "write" => op \notin {"login", "refresh", "none"}
          /\ d.at \in {"compare", "exchange", "write"}
    BY <1>1 DEF First, Holds, Operations
  <2>2. op # "none" /\ (op = "refresh" /\ d.at = "answer" => d.gives # Keep)
    BY <1>1, SessionBounds DEF Operations, First
  <2>3. CASE d.at = "answer"
    BY <1>1, <2>2, <2>3 DEF Asks
  <2>4. CASE d.at # "answer"
    BY <1>1, <2>1, <2>2, <2>4 DEF Asks
  <2> QED BY <2>3, <2>4
<1>5. Modest(call[p], d)
  <2>1. call[p].at # "idle" /\ call[p].op = "refresh" /\ faults' = 0 => op = "refresh"
    OBVIOUS
  <2>2. First(op) \in {"compare", "exchange", "write"}
    BY DEF First, Operations
  <2>3. ~Creating(d) /\ d.op # "none" /\ d.at # "idle"
    BY <1>1, <2>2 DEF Creating, Operations
  <2> QED BY <1>1, <2>1, <2>3 DEF Modest
<1>6. UNCHANGED <<account, parent, link, used, jar>>
  BY DEF Read
<1>7. TokensOnlyEnd
  <2>1. CASE UNCHANGED token
    BY <2>1, TokensAsTheyAre
  <2>2. CASE id # 0 /\ op = "refresh" /\ token[id] = "expired" /\ token' = [token EXCEPT ![id] = "gone"]
    <3>1. id \in TokenIds
      BY <2>2, SessionBounds DEF TokenIds
    <3> QED BY <2>2, <3>1, RowsTyped DEF TokensOnlyEnd, Stages
  <2> QED BY <2>1, <2>2 DEF Read, Sweep
<1> QED BY <1>1, <1>4, <1>5, <1>6, <1>7, RowsTyped, AccountAsItIs, LinksAsTheyAre, ModestKeeps

LEMMA RequestKeeps ==
    ASSUME SessionsInv, NEW p \in Tabs, NEW op \in Operations, Request(p, op) PROVE SessionsInv'
<1>1. PICK right \in BOOLEAN, id \in 0 .. MaxLinks :
        /\ (op = "reset") <=> (id # 0)
        /\ op \in {"logout", "end", "email"} => jar # 0
        /\ Read(p, op, right, IF op \in {"refresh", "logout"} THEN jar ELSE id)
  BY DEF Request
<1>2. PICK i : i = IF op \in {"refresh", "logout"} THEN jar ELSE id
  OBVIOUS
<1>3. i \in 0 .. MaxTokens + MaxLinks
  BY <1>2, JarTyped, SessionBounds
<1>4. op = "reset" => i \in LinkIds
  BY <1>1, <1>2 DEF LinkIds
<1>5. op = "logout" => i \in TokenIds
  BY <1>1, <1>2, JarTyped
<1>6. op = "refresh" => i \in 0 .. MaxTokens /\ i = jar
  BY <1>2, JarTyped
<1>7. faults' \in faults .. MaxFaults /\ call[p].op = "none"
  BY RequestOf, RowsTyped DEF Request, Asks
<1> QED BY <1>1, <1>2, <1>3, <1>4, <1>5, <1>6, <1>7, ReadKeeps

LEMMA SendAgainKeeps == ASSUME SessionsInv, NEW p \in Tabs, SendAgain(p) PROVE SessionsInv'
<1>1. faults < MaxFaults /\ faults' = faults + 1 /\ faults \in 0 .. MaxFaults
  BY DEF SendAgain, Fault, SessionsInv, SessionsTypeOK
<1>2. faults' \in faults .. MaxFaults /\ faults' # 0
  BY <1>1, SessionBounds
<1>3. call[p].op \in Operations
  BY <1>1, RequestOf DEF SendAgain, SessionsInv, AskedKnown
<1>4. PICK op \in Operations, right \in BOOLEAN, id \in 0 .. MaxTokens + MaxLinks :
        op = call[p].op /\ right = call[p].right /\ id = call[p].id
  BY <1>3, RequestOf
<1>5. Read(p, op, right, id)
  BY <1>4 DEF SendAgain
<1>6. /\ op = "reset" => id \in LinkIds
      /\ op = "logout" => id \in TokenIds
      /\ op = "refresh" => id \in 0 .. MaxTokens
  BY <1>4, RequestOf DEF Asks
<1> QED BY <1>2, <1>4, <1>5, <1>6, ReadKeeps

(* The answer arrives: the browser has the token that was on its way.      *)
LEMMA ArriveKeeps == ASSUME SessionsInv, NEW p \in Tabs, Arrive(p) PROVE SessionsInv'
<1>1. /\ call' \in [Tabs -> CallState] /\ call'[p] = NoCall
      /\ \A q \in Tabs \ {p} : call'[q] = call[q]
  BY NoRequest, Others DEF Arrive, TabMoves
<1>2. UNCHANGED <<active, failed, lock, token, parent, link, used, faults>>
  BY DEF Arrive, account, rows
<1>3. jar' = jar \/ jar' = 0 \/ (jar' = call[p].gives /\ call[p].gives > 0 /\ jar' \in TokenIds)
  BY RequestOf, SessionBounds DEF Arrive
<1>4. SessionsTypeOK'
  BY <1>1, <1>2, <1>3, SessionBounds DEF SessionsInv, SessionsTypeOK
<1>5. (\A q \in Tabs : Asks(call'[q])) /\ AskedKnown'
  BY <1>1, <1>2, NoRequest DEF SessionsInv, AskedKnown
<1>6. TokensKnown'
  BY <1>1, <1>2, <1>3, NoRequest DEF SessionsInv, TokensKnown, OnTheWay
<1>7. OnTheWay'
  <2> SUFFICES ASSUME NEW q \in Tabs, call'[q].gives > 0
               PROVE  /\ token[call'[q].gives] \notin {"unused", "spent"} /\ jar' # call'[q].gives
                      /\ \A r \in Tabs : /\ call'[r].op = "refresh" => call'[r].id # call'[q].gives
                                         /\ call'[r].gives = call'[q].gives => r = q
    BY <1>2 DEF OnTheWay
  <2>1. q # p /\ call'[q] = call[q] /\ call[q].gives > 0
    BY <1>1, NoRequest, SessionBounds
  <2>2. token[call[q].gives] \notin {"unused", "spent"} /\ jar' # call[q].gives
    BY <1>3, <2>1 DEF SessionsInv, OnTheWay
  <2>3. \A r \in Tabs : call'[r].op = "refresh" => r # p /\ call'[r] = call[r]
    BY <1>1, NoRequest
  <2>4. \A r \in Tabs : call'[r].gives = call[q].gives => r # p /\ call'[r] = call[r]
    BY <1>1, <2>1, NoRequest, SessionBounds
  <2> QED BY <2>1, <2>2, <2>3, <2>4 DEF SessionsInv, OnTheWay
<1>8. Descent'
  <2>1. \A q \in Tabs : Creating(call'[q]) => q # p /\ call'[q] = call[q]
    BY <1>1, NoRequest
  <2> QED BY <1>2, <2>1 DEF SessionsInv, Descent
<1>9. CookieRenewed'
  <2> SUFFICES ASSUME jar' # 0, token[jar'] = "spent", faults = 0
               PROVE  \E q \in Tabs : call'[q].op = "refresh" /\ call'[q].at # "idle"
    BY <1>2 DEF CookieRenewed
  <2>1. jar' = jar /\ call[p].gives = Keep
    BY <1>3, RequestOf, SessionBounds DEF SessionsInv, OnTheWay, Arrive
  <2>2. PICK q \in Tabs : call[q].op = "refresh" /\ call[q].at # "idle"
    BY <2>1 DEF SessionsInv, CookieRenewed
  <2>3. q # p
    BY <2>1, <2>2, RequestOf DEF Arrive, Asks
  <2> QED BY <1>1, <2>2, <2>3
<1>10. LinksOnce'
  BY <1>2, LinksAsTheyAre
<1> QED BY <1>4, <1>5, <1>6, <1>7, <1>8, <1>9, <1>10 DEF SessionsInv
-----------------------------------------------------------------------------
(* Tokens that are issued                                                  *)

(* A new token is on its way; it may come from one that was exchanged.     *)
LEMMA IssuedKeeps ==
    ASSUME SessionsInv, NEW p \in Tabs, NEW t \in TokenIds, token[t] = "unused",
           token' = [token EXCEPT ![t] = "live"], Answer(p, t), call[p].at # "idle",
           UNCHANGED <<account, link, used, jar, faults>>,
           parent' = parent \/ (Creating(call[p]) /\ parent' = [parent EXCEPT ![t] = call[p].id])
    PROVE  SessionsInv'
<1>1. t > 0 /\ t \in Keep .. MaxTokens /\ t # Keep
  BY SessionBounds DEF TokenIds
<1>2. PICK d \in CallState :
        /\ TabMoves(p, d) /\ Asks(d) /\ d.at = "answer" /\ d.gives = t /\ ~Creating(d)
        /\ d.op \in {call[p].op, "none"} /\ (d.op = "none" => faults = MaxFaults)
        /\ d.op # "none" => d.id = call[p].id
        /\ faults' = 0 => d.op = call[p].op
  BY <1>1, Answers
<1>3. /\ call' \in [Tabs -> CallState] /\ call'[p] = d
      /\ \A q \in Tabs \ {p} : call'[q] = call[q]
  BY <1>2, Others
<1>4. /\ token' \in [TokenIds -> Stages] /\ token'[t] = "live"
      /\ \A s \in TokenIds \ {t} : token'[s] = token[s]
  BY RowsTyped DEF Stages
<1>5. Creating(call[p]) => call[p].id \in TokenIds /\ call[p].id # t /\ token[call[p].id] = "spent"
  BY RequestOf, SessionBounds DEF SessionsInv, Descent, Creating, Asks, TokenIds
<1>6. parent' \in [TokenIds -> 0 .. MaxTokens]
  BY <1>5, SessionBounds DEF SessionsInv, SessionsTypeOK
<1>7. SessionsTypeOK'
  BY <1>3, <1>4, <1>6 DEF SessionsInv, SessionsTypeOK, account
<1>8. (\A q \in Tabs : Asks(call'[q])) /\ AskedKnown'
  BY <1>2, <1>3 DEF SessionsInv, AskedKnown
<1>9. /\ jar # t
      /\ \A q \in Tabs : /\ call[q].op = "refresh" => call[q].id # t
                         /\ call[q].gives > 0 => call[q].gives # t /\ call[q].gives \in TokenIds
  BY <1>1, RequestOf, SessionBounds DEF SessionsInv, TokensKnown, OnTheWay
<1>10. \A q \in Tabs : call'[q].op = "refresh" => call[q].op = "refresh" /\ call'[q].id = call[q].id
  BY <1>2, <1>3
<1>11. \A q \in Tabs : call'[q].op = "refresh" /\ call'[q].id # 0 => call'[q].id \in TokenIds
  BY <1>8, SessionBounds DEF Asks, TokenIds
<1>12. TokensKnown'
  BY <1>4, <1>9, <1>10, <1>11, JarTyped DEF SessionsInv, TokensKnown
<1>13. OnTheWay'
  <2> SUFFICES ASSUME NEW q \in Tabs, call'[q].gives > 0
               PROVE  /\ token'[call'[q].gives] \notin {"unused", "spent"} /\ jar # call'[q].gives
                      /\ \A r \in Tabs : /\ call'[r].op = "refresh" => call'[r].id # call'[q].gives
                                         /\ call'[r].gives = call'[q].gives => r = q
    BY DEF OnTheWay
  <2>1. CASE q = p
    BY <1>2, <1>3, <1>4, <1>9, <1>10, <1>1, <2>1
  <2>2. CASE q # p
    <3>1. call'[q] = call[q] /\ call[q].gives > 0 /\ call[q].gives # t /\ call[q].gives \in TokenIds
      BY <1>3, <1>9, <2>2
    <3>2. token'[call[q].gives] \notin {"unused", "spent"} /\ jar # call[q].gives
      BY <1>4, <3>1 DEF SessionsInv, OnTheWay
    <3>3. \A r \in Tabs : call'[r].op = "refresh" => call'[r].id # call[q].gives
      BY <1>10, <3>1 DEF SessionsInv, OnTheWay
    <3>4. \A r \in Tabs : call'[r].gives = call[q].gives => r = q
      BY <1>2, <1>3, <3>1 DEF SessionsInv, OnTheWay
    <3> QED BY <3>1, <3>2, <3>3, <3>4
  <2> QED BY <2>1, <2>2
<1>14. Descent'
  <2>1. \A q \in Tabs : Creating(call'[q]) =>
            q # p /\ call'[q] = call[q] /\ Creating(call[q]) /\ call[q].id \in TokenIds
    BY <1>2, <1>3, RequestOf, SessionBounds DEF Creating, Asks, TokenIds
  <2>2. \A s \in TokenIds : parent[s] \in TokenIds \cup {0}
    BY SessionBounds DEF SessionsInv, SessionsTypeOK, TokenIds
  <2>3. \A s \in TokenIds : token[s] = "spent" => token'[s] = "spent"
    BY <1>4
  <2>4. CASE parent' = parent
    BY <2>1, <2>2, <2>3, <2>4 DEF SessionsInv, Descent
  <2>5. CASE Creating(call[p]) /\ parent' = [parent EXCEPT ![t] = call[p].id]
    <3>1. parent'[t] = call[p].id /\ \A s \in TokenIds \ {t} : parent'[s] = parent[s]
      BY <2>5 DEF SessionsInv, SessionsTypeOK
    <3>2. \A s \in TokenIds : parent[s] # call[p].id
      BY <2>5 DEF SessionsInv, Descent
    <3>3. \A s \in TokenIds : parent'[s] # 0 => token'[parent'[s]] = "spent"
      BY <1>5, <2>2, <2>3, <2>5, <3>1 DEF SessionsInv, Descent
    <3>4. \A r, s \in TokenIds : parent'[r] = parent'[s] /\ parent'[r] # 0 => r = s
      BY <3>1, <3>2 DEF SessionsInv, Descent
    <3>5. ASSUME NEW q \in Tabs, Creating(call'[q])
          PROVE  /\ token'[call'[q].id] = "spent"
                 /\ \A s \in TokenIds : parent'[s] # call'[q].id
                 /\ \A r \in Tabs : Creating(call'[r]) /\ call'[r].id = call'[q].id => r = q
      <4>1. q # p /\ call'[q] = call[q] /\ Creating(call[q]) /\ call[q].id \in TokenIds
        BY <2>1, <3>5
      <4>2. call[q].id # call[p].id
        BY <2>5, <4>1 DEF SessionsInv, Descent
      <4>3. token'[call[q].id] = "spent"
        BY <2>3, <4>1 DEF SessionsInv, Descent
      <4>4. \A s \in TokenIds : parent'[s] # call[q].id
        BY <3>1, <4>1, <4>2 DEF SessionsInv, Descent
      <4>5. \A r \in Tabs : Creating(call'[r]) /\ call'[r].id = call[q].id => r = q
        BY <2>1, <4>1 DEF SessionsInv, Descent
      <4> QED BY <4>1, <4>3, <4>4, <4>5
    <3> QED BY <3>3, <3>4, <3>5 DEF Descent
  <2> QED BY <2>4, <2>5
<1>15. CookieRenewed'
  <2> SUFFICES ASSUME jar # 0, token'[jar] = "spent", faults = 0
               PROVE  \E q \in Tabs : call'[q].op = "refresh" /\ call'[q].at # "idle"
    BY DEF CookieRenewed
  <2>1. PICK q \in Tabs : call[q].op = "refresh" /\ call[q].at # "idle"
    BY <1>4, JarTyped DEF SessionsInv, CookieRenewed
  <2>2. call'[q].op = "refresh" /\ call'[q].at # "idle"
    BY <1>2, <1>3, <2>1
  <2> QED BY <2>2
<1>16. LinksOnce'
  BY LinksAsTheyAre
<1> QED BY <1>7, <1>8, <1>12, <1>13, <1>14, <1>15, <1>16 DEF SessionsInv

LEMMA IssueKeeps == ASSUME SessionsInv, NEW p \in Tabs, Issue(p) PROVE SessionsInv'
BY IssuedKeeps DEF Issue, IsNext

LEMMA CreateKeeps == ASSUME SessionsInv, NEW p \in Tabs, Create(p) PROVE SessionsInv'
BY IssuedKeeps DEF Create, IsNext, Creating

LEMMA ExchangeKeeps == ASSUME SessionsInv, NEW p \in Tabs, Exchange(p) PROVE SessionsInv'
<1>1. call[p].op = "refresh" /\ call[p].id \in TokenIds /\ call[p].at = "exchange"
      /\ UNCHANGED <<account, parent, link, used, jar, faults>>
  BY RequestOf, SessionBounds DEF Exchange, Asks, TokenIds
<1>2. CASE ~(active /\ token[call[p].id] \in {"live", "expired"})
  <2>1. Answer(p, 0) /\ UNCHANGED token
    BY <1>2 DEF Exchange
  <2>2. PICK d \in CallState : TabMoves(p, d) /\ Asks(d) /\ Modest(call[p], d)
    BY <1>1, <2>1, SessionBounds, Answers
  <2> QED BY <1>1, <2>1, <2>2, TokensAsTheyAre, RowsTyped, AccountAsItIs, LinksAsTheyAre, ModestKeeps
<1>3. CASE active /\ token[call[p].id] \in {"live", "expired"}
  <2> DEFINE d == [call[p] EXCEPT !.at = "create"]
  <2>1. /\ d \in CallState /\ d.at = "create" /\ d.op = "refresh" /\ d.id = call[p].id
        /\ d.gives = Keep /\ TabMoves(p, d)
    BY <1>1, <1>3, RequestOf DEF CallState, Exchange, TabMoves, Asks
  <2> HIDE DEF d
  <2>2. PICK s \in TokenIds : s = call[p].id
    BY <1>1
  <2>3. token' = [token EXCEPT ![s] = "spent"] /\ token[s] \in {"live", "expired"}
    BY <1>3, <2>2 DEF Exchange
  <2>4. Asks(d) /\ Creating(d) /\ d.id = s
    BY <2>1, <2>2, SessionBounds DEF Asks, Creating
  <2>5. /\ call' \in [Tabs -> CallState] /\ call'[p] = d
        /\ \A q \in Tabs \ {p} : call'[q] = call[q]
    BY <2>1, Others
  <2>6. /\ token' \in [TokenIds -> Stages] /\ token'[s] = "spent"
        /\ \A t \in TokenIds \ {s} : token'[t] = token[t]
    BY <2>3, RowsTyped DEF Stages
  <2>7. SessionsTypeOK'
    BY <1>1, <2>5, <2>6 DEF SessionsInv, SessionsTypeOK, account
  <2>8. (\A q \in Tabs : Asks(call'[q])) /\ AskedKnown'
    BY <1>1, <2>1, <2>4, <2>5 DEF SessionsInv, AskedKnown
  <2>9. \A q \in Tabs : /\ call'[q].op = call[q].op /\ call'[q].id = call[q].id
                        /\ call'[q].gives = call[q].gives
    BY <1>1, <2>1, <2>5, RequestOf DEF Asks
  <2>10. TokensKnown'
    <3>1. \A q \in Tabs : call[q].op = "refresh" /\ call[q].id # 0 => call[q].id \in TokenIds
      BY RequestOf, SessionBounds DEF Asks, TokenIds
    <3> QED BY <1>1, <2>6, <2>9, <3>1, JarTyped DEF SessionsInv, TokensKnown
  <2>11. OnTheWay'
    <3>1. \A q \in Tabs : call[q].gives > 0 => call[q].gives \in TokenIds /\ call[q].gives # s
      BY <1>1, <2>2, RequestOf, SessionBounds DEF SessionsInv, OnTheWay
    <3> QED BY <1>1, <2>6, <2>9, <3>1 DEF SessionsInv, OnTheWay
  <2>12. Descent'
    <3>1. \A t \in TokenIds : parent[t] \in TokenIds \cup {0}
      BY SessionBounds DEF SessionsInv, SessionsTypeOK, TokenIds
    <3>2. \A t \in TokenIds : token[t] = "spent" => t # s /\ token'[t] = "spent"
      BY <2>3, <2>6
    <3>3. \A t \in TokenIds : parent[t] # s
      BY <3>1, <3>2, SessionBounds DEF SessionsInv, Descent
    <3>4. ASSUME NEW q \in Tabs, q # p, Creating(call'[q])
          PROVE  Creating(call[q]) /\ call'[q].id = call[q].id /\ call[q].id \in TokenIds
                 /\ call[q].id # s
      <4>1. Creating(call[q]) /\ call'[q].id = call[q].id
        BY <2>5, <3>4
      <4>2. call[q].id \in TokenIds
        BY <4>1, RequestOf, SessionBounds DEF Creating, Asks, TokenIds
      <4> QED BY <3>2, <4>1, <4>2 DEF SessionsInv, Descent
    <3>5. \A t \in TokenIds : parent'[t] # 0 => token'[parent'[t]] = "spent"
      BY <1>1, <2>6, <3>1, <3>3 DEF SessionsInv, Descent
    <3>6. ASSUME NEW q \in Tabs, Creating(call'[q])
          PROVE  /\ token'[call'[q].id] = "spent"
                 /\ \A t \in TokenIds : parent[t] # call'[q].id
                 /\ \A r \in Tabs : Creating(call'[r]) /\ call'[r].id = call'[q].id => r = q
      <4>1. CASE q = p
        BY <2>4, <2>5, <2>6, <3>3, <3>4, <4>1
      <4>2. CASE q # p
        BY <2>4, <2>5, <2>6, <3>4, <3>6, <4>2 DEF SessionsInv, Descent
      <4> QED BY <4>1, <4>2
    <3> QED BY <1>1, <3>5, <3>6 DEF SessionsInv, Descent
  <2>13. CookieRenewed'
    BY <2>1, <2>5 DEF CookieRenewed
  <2>14. LinksOnce'
    BY <1>1, LinksAsTheyAre
  <2> QED BY <2>7, <2>8, <2>10, <2>11, <2>12, <2>13, <2>14 DEF SessionsInv
<1> QED BY <1>2, <1>3
-----------------------------------------------------------------------------
(* Passwords                                                               *)

LEMMA WrongPasswordKeeps == ASSUME SessionsInv, NEW p \in Tabs, WrongPassword(p) PROVE SessionsInv'
<1>1. call[p].op = "login" /\ call[p].at = "compare" /\ UNCHANGED <<active, rows, jar, faults>>
      /\ Answer(p, Keep)
  BY RequestOf DEF WrongPassword, Asks
<1>2. PICK d \in CallState : TabMoves(p, d) /\ Asks(d) /\ Modest(call[p], d)
  BY <1>1, SessionBounds, Answers
<1>3. AccountTyped
  BY SessionBounds DEF WrongPassword, AccountTyped, SessionsInv, SessionsTypeOK
<1> QED BY <1>1, <1>2, <1>3, TokensAsTheyAre, RowsTyped, LinksAsTheyAre, ModestKeeps DEF rows

LEMMA RightPasswordKeeps == ASSUME SessionsInv, NEW p \in Tabs, RightPassword(p) PROVE SessionsInv'
<1>1. call[p].op = "login" /\ call[p].at = "compare" /\ UNCHANGED <<active, rows, jar, faults>>
  BY RequestOf DEF RightPassword, Asks
<1> DEFINE d == [call[p] EXCEPT !.at = "issue"]
<1>2. d \in CallState /\ d.at = "issue" /\ d.op = "login" /\ d.gives = Keep /\ TabMoves(p, d)
  BY <1>1, RequestOf DEF CallState, RightPassword, TabMoves, Asks
<1> HIDE DEF d
<1>3. Asks(d) /\ Modest(call[p], d)
  BY <1>1, <1>2 DEF Asks, Modest, Creating
<1>4. AccountTyped
  BY SessionBounds DEF RightPassword, AccountTyped, SessionsInv, SessionsTypeOK
<1> QED BY <1>1, <1>2, <1>3, <1>4, TokensAsTheyAre, RowsTyped, LinksAsTheyAre, ModestKeeps DEF rows
-----------------------------------------------------------------------------
(* What ends sessions and drops links                                      *)

LEMMA EndAllEnds == ASSUME SessionsInv, EndAll PROVE TokensOnlyEnd
BY RowsTyped DEF EndAll, TokensOnlyEnd, Stages

LEMMA DropLinksDrops ==
    ASSUME SessionsInv, DropLinks, UNCHANGED used
    PROVE  LinksOnce' /\ link' \in [LinkIds -> Stages] /\ used' \in [LinkIds -> Nat]
<1>1. LinksStay
  BY RowsTyped DEF DropLinks, LinksStay, Stages
<1> QED BY <1>1, RowsTyped, LinksOnceStays DEF LinksStay

(* The answer of what wrote nothing but ends of tokens and links.          *)
LEMMA EndKeeps ==
    ASSUME SessionsInv, NEW p \in Tabs, call[p].at = "write", NEW g \in {Keep, 0}, Answer(p, g),
           TokensOnlyEnd, AccountTyped, LinksOnce', link' \in [LinkIds -> Stages],
           used' \in [LinkIds -> Nat], UNCHANGED <<parent, jar, faults>>
    PROVE  SessionsInv'
<1>1. g \in Keep .. MaxTokens /\ call[p].op # "refresh"
  BY SessionBounds, RequestOf DEF Asks
<1>2. PICK d \in CallState : TabMoves(p, d) /\ Asks(d) /\ Modest(call[p], d)
  BY <1>1, Answers
<1> QED BY <1>2, RowsTyped, ModestKeeps

LEMMA LogoutKeeps == ASSUME SessionsInv, NEW p \in Tabs, Logout(p) PROVE SessionsInv'
<1>1. call[p].id \in TokenIds /\ call[p].at = "write" /\ Answer(p, 0)
      /\ UNCHANGED <<account, parent, link, used, jar, faults>>
  BY RequestOf DEF Logout, Asks
<1>2. TokensOnlyEnd
  BY <1>1, RowsTyped DEF Logout, TokensOnlyEnd, Stages
<1> QED BY <1>1, <1>2, RowsTyped, AccountAsItIs, LinksAsTheyAre, EndKeeps

LEMMA EndSessionsKeeps == ASSUME SessionsInv, NEW p \in Tabs, EndSessions(p) PROVE SessionsInv'
BY EndAllEnds, RowsTyped, AccountAsItIs, LinksAsTheyAre, EndKeeps DEF EndSessions

LEMMA ChangeEmailKeeps == ASSUME SessionsInv, NEW p \in Tabs, ChangeEmail(p) PROVE SessionsInv'
BY EndAllEnds, AccountAsItIs, DropLinksDrops, EndKeeps DEF ChangeEmail

LEMMA DropOldKeeps == ASSUME SessionsInv, NEW p \in Tabs, DropOld(p) PROVE SessionsInv'
<1>1. call[p].op = "forgot" /\ call[p].at = "write" /\ DropLinks
      /\ UNCHANGED <<account, token, parent, used, jar, faults>>
  BY DEF DropOld
<1> DEFINE d == [call[p] EXCEPT !.at = "create"]
<1>2. d \in CallState /\ d.at = "create" /\ d.op = "forgot" /\ d.gives = Keep /\ TabMoves(p, d)
  BY <1>1, RequestOf DEF CallState, DropOld, TabMoves, Asks
<1> HIDE DEF d
<1>3. Asks(d) /\ Modest(call[p], d)
  BY <1>1, <1>2 DEF Asks, Modest, Creating
<1> QED BY <1>1, <1>2, <1>3, TokensAsTheyAre, RowsTyped, AccountAsItIs, DropLinksDrops, ModestKeeps

LEMMA MailLinkKeeps == ASSUME SessionsInv, NEW p \in Tabs, MailLink(p) PROVE SessionsInv'
<1>1. call[p].op = "forgot" /\ call[p].at = "create" /\ Answer(p, Keep)
      /\ UNCHANGED <<account, token, parent, used, jar, faults>>
  BY DEF MailLink
<1>2. PICK d \in CallState : TabMoves(p, d) /\ Asks(d) /\ Modest(call[p], d)
  BY <1>1, SessionBounds, Answers
<1>3. LinksStay
  BY RowsTyped DEF MailLink, IsNext, LinksStay, Stages
<1> QED BY <1>1, <1>2, <1>3, TokensAsTheyAre, RowsTyped, AccountAsItIs, LinksOnceStays, ModestKeeps
        DEF LinksStay

LEMMA ResetKeeps == ASSUME SessionsInv, NEW p \in Tabs, Reset(p) PROVE SessionsInv'
<1>1. PICK k \in LinkIds : k = call[p].id
  BY RequestOf DEF Reset, Asks
<1>2. call[p].at = "write" /\ Answer(p, Keep) /\ UNCHANGED <<active, parent, jar, faults>>
  BY DEF Reset
<1>3. CASE active /\ link[k] = "live"
  <2>1. /\ link' = [link EXCEPT ![k] = "spent"] /\ used' = [used EXCEPT ![k] = @ + 1]
        /\ failed' = 0 /\ lock' = "none" /\ EndAll
    BY <1>1, <1>3 DEF Reset
  <2>2. used[k] = 0
    BY <1>3 DEF SessionsInv, LinksOnce, SessionsTypeOK
  <2>3. link' \in [LinkIds -> Stages] /\ used' \in [LinkIds -> Nat]
    BY <2>1, RowsTyped DEF Stages
  <2>4. LinksOnce'
    BY <2>1, <2>2, RowsTyped DEF SessionsInv, LinksOnce
  <2>5. AccountTyped
    BY <1>2, <2>1, SessionBounds DEF AccountTyped, SessionsInv, SessionsTypeOK
  <2> QED BY <1>2, <2>1, <2>3, <2>4, <2>5, EndAllEnds, EndKeeps
<1>4. CASE ~(active /\ link[k] = "live")
  <2>1. UNCHANGED <<link, used, failed, lock, token>>
    BY <1>1, <1>4 DEF Reset
  <2>2. UNCHANGED account
    BY <1>2, <2>1 DEF account
  <2> QED BY <1>2, <2>1, <2>2, TokensAsTheyAre, RowsTyped, AccountAsItIs, LinksAsTheyAre, EndKeeps
<1> QED BY <1>3, <1>4
-----------------------------------------------------------------------------
(* Administrators and time: no call moves.                                 *)
LEMMA NoTabMoves ==
    ASSUME SessionsInv, TokensOnlyEnd, AccountTyped, LinksStay, UNCHANGED <<parent, jar, call>>,
           faults' \in faults .. MaxFaults
    PROVE  SessionsInv'
<1>1. faults' \in 0 .. MaxFaults /\ (faults = MaxFaults => faults' = MaxFaults)
      /\ (faults' = 0 => faults = 0)
  BY SessionBounds DEF SessionsInv, SessionsTypeOK
<1>2. SessionsTypeOK'
  BY <1>1 DEF SessionsInv, SessionsTypeOK, TokensOnlyEnd, AccountTyped, LinksStay
<1>3. \A q \in Tabs : Asks(call[q])
  BY DEF SessionsInv
<1>4. AskedKnown'
  BY <1>1 DEF SessionsInv, AskedKnown
<1>5. TokensKnown'
  <2>1. \A q \in Tabs : call[q].op = "refresh" /\ call[q].id # 0 => call[q].id \in TokenIds
    BY <1>3, SessionBounds DEF Asks, TokenIds
  <2> QED BY <2>1, JarTyped DEF SessionsInv, TokensKnown, TokensOnlyEnd
<1>6. OnTheWay'
  <2>1. \A q \in Tabs : call[q].gives > 0 => call[q].gives \in TokenIds
    BY RequestOf, SessionBounds
  <2> QED BY <2>1 DEF SessionsInv, OnTheWay, TokensOnlyEnd
<1>7. Descent'
  <2>1. \A q \in Tabs : Creating(call[q]) => call[q].id \in TokenIds
    BY <1>3, RequestOf, SessionBounds DEF Creating, Asks, TokenIds
  <2>2. \A t \in TokenIds : parent[t] # 0 => parent[t] \in TokenIds
    BY SessionBounds DEF SessionsInv, SessionsTypeOK, TokenIds
  <2> QED BY <2>1, <2>2 DEF SessionsInv, Descent, TokensOnlyEnd
<1>8. CookieRenewed'
  BY <1>1, JarTyped DEF SessionsInv, CookieRenewed, TokensOnlyEnd
<1> QED BY <1>2, <1>3, <1>4, <1>5, <1>6, <1>7, <1>8, LinksOnceStays DEF SessionsInv

LEMMA LinksUntouched == ASSUME SessionsInv, UNCHANGED <<link, used>> PROVE LinksStay
BY RowsTyped DEF LinksStay

LEMMA BarKeeps == ASSUME SessionsInv, Bar PROVE SessionsInv'
<1>1. faults' \in faults .. MaxFaults
  BY SessionBounds DEF Bar, Fault, SessionsInv, SessionsTypeOK
<1>2. AccountTyped
  BY DEF Bar, AccountTyped, SessionsInv, SessionsTypeOK
<1> QED BY <1>1, <1>2, EndAllEnds, LinksUntouched, NoTabMoves DEF Bar

LEMMA AdmitKeeps == ASSUME SessionsInv, Admit \/ LockEnds PROVE SessionsInv'
<1>1. AccountTyped
  BY DEF Admit, LockEnds, AccountTyped, SessionsInv, SessionsTypeOK
<1>2. UNCHANGED <<token, parent, link, used, jar, call, faults>>
  BY DEF Admit, LockEnds, rows
<1> QED BY <1>1, <1>2, TokensAsTheyAre, LinksUntouched, RowsTyped, NoTabMoves

LEMMA TokenExpiresKeeps ==
    ASSUME SessionsInv, NEW t \in TokenIds, TokenExpires(t) PROVE SessionsInv'
<1>1. TokensOnlyEnd
  BY RowsTyped DEF TokenExpires, TokensOnlyEnd, Stages
<1> QED BY <1>1, AccountAsItIs, LinksUntouched, RowsTyped, NoTabMoves DEF TokenExpires

LEMMA LinkExpiresKeeps ==
    ASSUME SessionsInv, NEW k \in LinkIds, LinkExpires(k) PROVE SessionsInv'
<1>1. LinksStay
  BY RowsTyped DEF LinkExpires, LinksStay, Stages
<1> QED BY <1>1, AccountAsItIs, TokensAsTheyAre, RowsTyped, NoTabMoves DEF LinkExpires
-----------------------------------------------------------------------------
LEMMA SessionsStart == SessionsInit => SessionsInv
<1> SUFFICES ASSUME SessionsInit PROVE SessionsInv
  OBVIOUS
<1>1. \A p \in Tabs : call[p] = NoCall
  BY DEF SessionsInit
<1>2. call \in [Tabs -> CallState]
  BY NoRequest DEF SessionsInit
<1>3. SessionsTypeOK
  BY <1>2, SessionBounds DEF SessionsInit, SessionsTypeOK, Stages
<1>4. (\A p \in Tabs : Asks(call[p])) /\ AskedKnown
  BY <1>1, NoRequest DEF AskedKnown
<1>5. TokensKnown /\ OnTheWay /\ Descent
  BY <1>1, NoRequest, SessionBounds DEF SessionsInit, TokensKnown, OnTheWay, Descent
<1>6. LinksOnce /\ CookieRenewed
  BY DEF SessionsInit, LinksOnce, CookieRenewed
<1> QED BY <1>3, <1>4, <1>5, <1>6 DEF SessionsInv

LEMMA SessionsStep == SessionsInv /\ [SessionsNext]_sessionsVars => SessionsInv'
<1> SUFFICES ASSUME SessionsInv, [SessionsNext]_sessionsVars PROVE SessionsInv'
  OBVIOUS
<1>1. ASSUME NEW p \in Tabs,
             \/ \E op \in Operations : Request(p, op)
             \/ SendAgain(p) \/ Arrive(p) \/ WrongPassword(p) \/ RightPassword(p) \/ Issue(p)
             \/ Exchange(p) \/ Create(p) \/ Logout(p) \/ EndSessions(p) \/ ChangeEmail(p)
             \/ DropOld(p) \/ MailLink(p) \/ Reset(p)
      PROVE  SessionsInv'
  BY <1>1, RequestKeeps, SendAgainKeeps, ArriveKeeps, WrongPasswordKeeps, RightPasswordKeeps,
     IssueKeeps, ExchangeKeeps, CreateKeeps, LogoutKeeps, EndSessionsKeeps, ChangeEmailKeeps,
     DropOldKeeps, MailLinkKeeps, ResetKeeps
<1>2. CASE UNCHANGED sessionsVars
  BY <1>2, AccountAsItIs, TokensAsTheyAre, LinksUntouched, RowsTyped, NoTabMoves
     DEF sessionsVars, account
<1> QED BY <1>1, <1>2, BarKeeps, AdmitKeeps, TokenExpiresKeeps, LinkExpiresKeeps DEF SessionsNext

(* The inductive invariant of the sessions: a token on its way is known to *)
(* no other call, and one that is exchanged is spent before.               *)
THEOREM SessionsKept == SessionsSpec => []SessionsInv
BY SessionsStart, SessionsStep, PTL DEF SessionsSpec
-----------------------------------------------------------------------------
(* What a step may never do                                                *)

LEMMA SpentAndGone ==
    ASSUME SessionsInv, [SessionsNext]_sessionsVars
    PROVE  /\ \A t \in TokenIds : token[t] = "gone" => token'[t] = "gone"
           /\ \A k \in LinkIds : link[k] = "gone" => link'[k] = "gone"
<1>1. \A p \in Tabs : /\ call[p].op = "reset" => call[p].id \in LinkIds
                      /\ call[p].op \in {"refresh", "logout"} => call[p].id \in 0 .. MaxTokens
  BY RequestOf, SessionBounds DEF Asks
<1>2. \A t \in TokenIds : token[t] = "gone" => token'[t] = "gone"
  <2> SUFFICES ASSUME NEW t \in TokenIds, token[t] = "gone" PROVE token'[t] = "gone"
    OBVIOUS
  <2>1. ASSUME NEW p \in Tabs, NEW op, NEW right, NEW id, Read(p, op, right, id)
        PROVE  token'[t] = "gone"
    BY <2>1, RowsTyped DEF Read, Sweep
  <2>2. ASSUME NEW p \in Tabs, SendAgain(p) \/ \E op \in Operations : Request(p, op)
        PROVE  token'[t] = "gone"
    BY <2>1, <2>2 DEF SendAgain, Request
  <2>3. ASSUME NEW p \in Tabs, Issue(p) \/ Create(p) \/ Exchange(p) \/ Logout(p)
        PROVE  token'[t] = "gone"
    BY <2>3, RowsTyped DEF Issue, Create, IsNext, Exchange, Logout
  <2>4. ASSUME NEW p \in Tabs, EndSessions(p) \/ ChangeEmail(p) \/ Reset(p)
        PROVE  token'[t] = "gone"
    BY <2>4 DEF EndSessions, ChangeEmail, Reset, EndAll
  <2>5. ASSUME NEW p \in Tabs,
               Arrive(p) \/ WrongPassword(p) \/ RightPassword(p) \/ DropOld(p) \/ MailLink(p)
        PROVE  token'[t] = "gone"
    BY <2>5 DEF Arrive, WrongPassword, RightPassword, DropOld, MailLink, rows
  <2>6. CASE Bar
    BY <2>6 DEF Bar, EndAll
  <2>7. CASE \/ UNCHANGED sessionsVars \/ Admit \/ LockEnds \/ (\E k \in LinkIds : LinkExpires(k))
    BY <2>7 DEF sessionsVars, Admit, LockEnds, LinkExpires, rows
  <2>8. ASSUME NEW s \in TokenIds, TokenExpires(s) PROVE token'[t] = "gone"
    BY <2>8, RowsTyped DEF TokenExpires
  <2> QED BY <2>2, <2>3, <2>4, <2>5, <2>6, <2>7, <2>8 DEF SessionsNext
<1>3. \A k \in LinkIds : link[k] = "gone" => link'[k] = "gone"
  <2> SUFFICES ASSUME NEW k \in LinkIds, link[k] = "gone" PROVE link'[k] = "gone"
    OBVIOUS
  <2>1. ASSUME NEW p \in Tabs, ChangeEmail(p) \/ DropOld(p) PROVE link'[k] = "gone"
    BY <2>1 DEF ChangeEmail, DropOld, DropLinks
  <2>2. ASSUME NEW p \in Tabs, MailLink(p) \/ Reset(p) PROVE link'[k] = "gone"
    BY <2>2, RowsTyped DEF MailLink, Reset, IsNext
  <2>3. ASSUME NEW j \in LinkIds, LinkExpires(j) PROVE link'[k] = "gone"
    BY <2>3, RowsTyped DEF LinkExpires
  <2>4. ASSUME NEW p \in Tabs,
               \/ \E op \in Operations : Request(p, op)
               \/ SendAgain(p) \/ Arrive(p) \/ WrongPassword(p) \/ RightPassword(p) \/ Issue(p)
               \/ Exchange(p) \/ Create(p) \/ Logout(p) \/ EndSessions(p)
        PROVE  link'[k] = "gone"
    BY <2>4 DEF Request, SendAgain, Read, Arrive, WrongPassword, RightPassword, Issue, Exchange,
                Create, Logout, EndSessions, rows
  <2>5. CASE \/ UNCHANGED sessionsVars \/ Bar \/ Admit \/ LockEnds \/ (\E t \in TokenIds : TokenExpires(t))
    BY <2>5 DEF sessionsVars, Bar, Admit, LockEnds, TokenExpires, rows
  <2> QED BY <2>1, <2>2, <2>3, <2>4, <2>5 DEF SessionsNext
<1> QED BY <1>2, <1>3

(* Only the change of the address answers for itself.                      *)
LEMMA AddressStep ==
    ASSUME SessionsInv, [SessionsNext]_sessionsVars, AddressChanged
    PROVE  \A k \in LinkIds : link'[k] # "live"
<1>1. PICK p \in Tabs : call[p].op = "email" /\ call[p].at = "write" /\ call'[p].at = "answer"
  BY DEF AddressChanged
<1>2. ASSUME NEW q \in Tabs, NEW d, call' = [call EXCEPT ![q] = d] PROVE q = p
  BY <1>1, <1>2 DEF SessionsInv, SessionsTypeOK
<1>3. ASSUME NEW q \in Tabs, NEW g, Answer(q, g) PROVE q = p
  BY <1>2, <1>3 DEF Answer
<1>4. ASSUME NEW q \in Tabs, NEW op, NEW right, NEW id, Read(q, op, right, id) PROVE q = p
  BY <1>2, <1>4 DEF Read
<1>5. call' # call
  BY <1>1
<1>6. ASSUME NEW q \in Tabs,
             \/ \E op \in Operations : Request(q, op)
             \/ SendAgain(q) \/ Arrive(q) \/ WrongPassword(q) \/ RightPassword(q) \/ Issue(q)
             \/ Exchange(q) \/ Create(q) \/ Logout(q) \/ EndSessions(q) \/ DropOld(q)
             \/ MailLink(q) \/ Reset(q)
      PROVE  FALSE
  <2>1. q = p
    <3>1. CASE SendAgain(q) \/ \E op \in Operations : Request(q, op)
      BY <1>4, <3>1 DEF SendAgain, Request
    <3>2. CASE Arrive(q) \/ RightPassword(q) \/ DropOld(q)
      BY <1>2, <3>2 DEF Arrive, RightPassword, DropOld
    <3>3. CASE WrongPassword(q) \/ Issue(q) \/ Create(q) \/ Logout(q) \/ EndSessions(q) \/ MailLink(q)
               \/ Reset(q)
      BY <1>3, <3>3 DEF WrongPassword, Issue, Create, Logout, EndSessions, MailLink, Reset
    <3>4. CASE Exchange(q)
      BY <1>2, <1>3, <3>4 DEF Exchange
    <3> QED BY <1>6, <3>1, <3>2, <3>3, <3>4
  <2> QED BY <1>1, <1>6, <2>1
          DEF Request, SendAgain, Arrive, WrongPassword, RightPassword, Issue, Exchange, Create,
              Logout, EndSessions, DropOld, MailLink, Reset
<1>7. \E q \in Tabs : ChangeEmail(q)
  BY <1>5, <1>6 DEF SessionsNext, sessionsVars, Bar, Admit, LockEnds, TokenExpires, LinkExpires
<1> QED BY <1>7 DEF ChangeEmail, DropLinks

LEMMA LockStep ==
    ASSUME SessionsInv, [SessionsNext]_sessionsVars, lock = "held", lock' = "none"
    PROVE  \E p \in Tabs : call[p].right \/ call[p].op = "reset"
<1>1. lock' # lock
  OBVIOUS
<1>2. ASSUME NEW p \in Tabs, WrongPassword(p) PROVE FALSE
  BY <1>2 DEF WrongPassword
<1>3. \E p \in Tabs : RightPassword(p) \/ Reset(p)
  BY <1>1, <1>2
     DEF SessionsNext, sessionsVars, account, Bar, Admit, LockEnds, TokenExpires, LinkExpires, Request,
         SendAgain, Read, Arrive, Issue, Exchange, Create, Logout, EndSessions, ChangeEmail, DropOld,
         MailLink
<1> QED BY <1>3 DEF RightPassword, Reset

(* What was ended stays ended for the calls that had read it before; the   *)
(* links to an address end with it; a login that fails lifts no lock.      *)
THEOREM SessionsEnded == SessionsSpec => EndedHolds
<1>1. SessionsInv /\ [SessionsNext]_sessionsVars =>
        [/\ \A t \in TokenIds : token[t] = "gone" => token'[t] = "gone"
         /\ \A k \in LinkIds : link[k] = "gone" => link'[k] = "gone"]_sessionsVars
  BY SpentAndGone
<1>2. SessionsInv /\ [SessionsNext]_sessionsVars =>
        [AddressChanged => \A k \in LinkIds : link'[k] # "live"]_sessionsVars
  BY AddressStep
<1>3. SessionsInv /\ [SessionsNext]_sessionsVars =>
        [lock = "held" /\ lock' = "none" =>
            \E p \in Tabs : call[p].right \/ call[p].op = "reset"]_sessionsVars
  BY LockStep
<1> QED BY <1>1, <1>2, <1>3, SessionsKept, PTL
        DEF SessionsSpec, EndedHolds, EndedStaysEnded, LinksFollowAddress, LockHolds
-----------------------------------------------------------------------------
(* The two together                                                        *)

(* The composition behaves as each of the two does.                        *)
THEOREM AccountsImplement == AccountsSpec => WalletSpec /\ SessionsSpec
<1>1. AccountsInit => WalletInit /\ SessionsInit
  BY DEF AccountsInit
<1>2. [AccountsNext]_<<part, walletVars, sessionsVars>> =>
        [WalletNext]_walletVars /\ [SessionsNext]_sessionsVars
  BY DEF AccountsNext
<1> QED BY <1>1, <1>2, PTL DEF AccountsSpec, WalletSpec, SessionsSpec

(* The types hold, the ledger of every job alternates, a token is          *)
(* exchanged once, a link sets one password, and while no answer was lost  *)
(* an exchanged token is left in the browser only during a refresh.        *)
THEOREM AccountsSafe == AccountsSpec => []AccountsInv
<1>1. SessionsInv => SessionsTypeOK /\ UsedOnce /\ CookieRenewed
  BY DEF SessionsInv, Descent, LinksOnce, UsedOnce
<1> QED BY <1>1, AccountsImplement, WalletTyped, WalletAlternates, SessionsKept, PTL DEF AccountsInv

(* With the sessions beside it, too, the wallet adds up.                   *)
THEOREM AccountsBalanced ==
  ASSUME IsFiniteSet(Jobs) PROVE AccountsSpec => []Balanced
BY AccountsImplement, WalletBalanced, PTL
=============================================================================
