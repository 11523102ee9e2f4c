------------------------------- MODULE Wallet -------------------------------
(***************************************************************************)
(* The token wallet of one tenant: BillingService.                         *)
(*                                                                         *)
(* Every transaction of the service takes the row lock of the tenant's     *)
(* wallet (lockWallet, SELECT ... FOR UPDATE) before it reads the ledger,  *)
(* so a transaction of one tenant is one action here.  A transaction that  *)
(* throws is rolled back as a whole, the monthly grant included.           *)
(*                                                                         *)
(* The ledger rows of a job are kept in commit order.  Rows without a job  *)
(* (grants, gifts, paid packages) are only told apart by their unique      *)
(* idempotency key.                                                        *)
(***************************************************************************)
EXTENDS Integers, Sequences, Functions

CONSTANTS
    Jobs,          \* automation job ids, the jobId of a ledger row
    Payments,      \* payment intents
    Webhooks,      \* concurrent calls of confirmPayment
    Prices,        \* what UsageMetricDefinition.unitCost may be, 0 = disabled
    PlanTokens,    \* monthly grants of the plans the tenant may be on
    PackTokens,    \* tokens of a top-up package
    GiftTokens,    \* the credit a new organization starts with
    Enforced,      \* BILLING_ENFORCE
    MaxEntries,    \* bound: ledger rows of one job
    MaxPeriod,     \* bound: calendar months
    None           \* no payment being confirmed

ASSUME WalletAssumption ==
    /\ Prices \subseteq Nat
    /\ PlanTokens \subseteq Nat /\ PlanTokens # {}
    /\ PackTokens \in Nat /\ GiftTokens \in Nat
    /\ Enforced \in BOOLEAN
    /\ MaxPeriod \in Nat /\ MaxEntries \in Nat
    /\ None \notin Payments

VARIABLES
    wallet,     \* the TenantWallet row
    entries,    \* entries[j]: the ledger rows of job j, oldest first
    credits,    \* the ledger rows of type credit
    payment,    \* payment[p]: status of the PaymentIntent row
    webhook,    \* webhook[h]: payment h has read as unpaid, about to claim
    price,      \* price[j]: current unit cost of the metric of job j
    period      \* current calendar month

walletVars == <<wallet, entries, credits, payment, webhook, price, period>>
-----------------------------------------------------------------------------
(* Ledger rows and their keys *)

JobEntry  == [type : {"reserve", "commit", "release"}, amount : Nat]
CreditKey == [kind : {"gift"}, id : {0}]
               \cup [kind : {"grant"}, id : Nat]
               \cup [kind : {"payment"}, id : Payments]

GiftKey       == [kind |-> "gift", id |-> 0]
GrantKey(n)   == [kind |-> "grant", id |-> n]
PaymentKey(p) == [kind |-> "payment", id |-> p]

Credited(k) == \E c \in credits : c.key = k

(* A reserve stays open until the next commit or release of the same job. *)
HasOpen(j)    == /\ entries[j] # <<>>
                 /\ entries[j][Len(entries[j])].type = "reserve"
OpenAmount(j) == IF HasOpen(j) THEN entries[j][Len(entries[j])].amount ELSE 0

Available == wallet.balance - wallet.reserved

(* Mistakes a later change could make, each used to show that a property   *)
(* can fail: a balance credited although the key is known, ...             *)
CreditBalanceAgain(k, n) ==
    /\ credits' = IF Credited(k) THEN credits ELSE credits \cup {[key |-> k, amount |-> n]}
    /\ wallet' = [wallet EXCEPT !.balance = @ + n]

(* ... a credit whose key is not looked up, ...                            *)
CreditWithoutKey(k, n) ==
    /\ credits' = credits \cup {[key |-> k, amount |-> n]}
    /\ wallet' = [wallet EXCEPT !.balance = @ + n]

(* The wallet and the credit rows after a credit of n tokens under key k:  *)
(* a key that is already in the ledger credits nothing.                    *)
CreditOnce(k, n) ==
    IF Credited(k)
    THEN UNCHANGED <<wallet, credits>>
    ELSE /\ credits' = credits \cup {[key |-> k, amount |-> n]}
         /\ wallet' = [wallet EXCEPT !.balance = @ + n]
-----------------------------------------------------------------------------
WalletInit ==
    /\ wallet = [balance |-> 0, reserved |-> 0, consumed |-> 0]
    /\ entries = [j \in Jobs |-> <<>>]
    /\ credits = {}
    /\ payment = [p \in Payments |-> "none"]
    /\ webhook = [h \in Webhooks |-> None]
    /\ price \in [Jobs -> Prices]
    /\ period = 1

(* creditTx for a gift: TenantService.create calls credit outside the      *)
(* transaction that inserts the tenant.                                    *)
Gift ==
    /\ CreditOnce(GiftKey, GiftTokens)
    /\ UNCHANGED <<entries, payment, webhook, price, period>>

(* ensurePeriodGrant in a transaction of its own: walletSnapshot. *)
ReadSnapshot ==
    /\ \E n \in PlanTokens : CreditOnce(GrantKey(period), n)
    /\ UNCHANGED <<entries, payment, webhook, price, period>>

(* The four ways shadowReserve(job) ends. *)
ReserveFree(j) ==            \* price 0: nothing is written, no grant either
    /\ price[j] = 0
    /\ UNCHANGED walletVars

ReserveAgain(j) ==           \* an open reserve is handed back as it is
    /\ price[j] > 0
    /\ HasOpen(j)
    /\ \E n \in PlanTokens : CreditOnce(GrantKey(period), n)
    /\ UNCHANGED <<entries, payment, webhook, price, period>>

(* ... a check that forgets what other jobs have reserved, ...             *)
ShortfallOfBalance(j, n) ==
    Enforced /\ (IF Credited(GrantKey(period)) THEN 0 ELSE n) + wallet.balance < price[j]

Shortfall(j, n) ==
    Enforced /\ (IF Credited(GrantKey(period)) THEN 0 ELSE n) + Available < price[j]

ReserveRefused(j) ==         \* BadRequest, the grant is rolled back with it
    /\ price[j] > 0
    /\ ~HasOpen(j)
    /\ \E n \in PlanTokens : Shortfall(j, n)
    /\ UNCHANGED walletVars

ReserveNew(j) ==
    /\ price[j] > 0
    /\ ~HasOpen(j)
    /\ \E n \in PlanTokens :
          LET granted == Credited(GrantKey(period)) IN
          /\ ~Shortfall(j, n)
          /\ credits' = IF granted THEN credits
                        ELSE credits \cup {[key |-> GrantKey(period), amount |-> n]}
          /\ wallet' = [balance  |-> wallet.balance + (IF granted THEN 0 ELSE n),
                        reserved |-> wallet.reserved + price[j],
                        consumed |-> wallet.consumed]
    /\ entries' = [entries EXCEPT
                     ![j] = Append(@, [type |-> "reserve", amount |-> price[j]])]
    /\ UNCHANGED <<payment, webhook, price, period>>

(* ... a settlement at the price of today, ...                             *)
SettleAtCurrentPrice(j, type) ==
    IF ~HasOpen(j)
    THEN UNCHANGED walletVars
    ELSE LET spent == IF type = "commit" THEN price[j] ELSE 0 IN
         /\ entries' = [entries EXCEPT
                          ![j] = Append(@, [type |-> type, amount |-> price[j]])]
         /\ wallet' = [balance  |-> wallet.balance - spent,
                       reserved |-> wallet.reserved - price[j],
                       consumed |-> wallet.consumed + spent]
         /\ UNCHANGED <<credits, payment, webhook, price, period>>

(* settleOnce: the open reserve, if there is one, is committed or released *)
(* for the amount it was opened with, whatever the price is by now.        *)
Settle(j, type) ==
    IF ~HasOpen(j)
    THEN UNCHANGED walletVars
    ELSE LET amount == OpenAmount(j)
             spent  == IF type = "commit" THEN amount ELSE 0 IN
         /\ entries' = [entries EXCEPT
                          ![j] = Append(@, [type |-> type, amount |-> amount])]
         /\ wallet' = [balance  |-> wallet.balance - spent,
                       reserved |-> wallet.reserved - amount,
                       consumed |-> wallet.consumed + spent]
         /\ UNCHANGED <<credits, payment, webhook, price, period>>

CreatePayment(p) ==
    /\ payment[p] = "none"
    /\ payment' = [payment EXCEPT ![p] = "pending"]
    /\ UNCHANGED <<wallet, entries, credits, webhook, price, period>>

(* confirmPayment: the read that returns early for a paid intent, then the *)
(* conditional update and the credit, which commit together.  A gateway    *)
(* may call it any number of times, also concurrently.                     *)
ReadPayment(h, p) ==
    /\ webhook[h] = None
    /\ payment[p] = "pending"
    /\ webhook' = [webhook EXCEPT ![h] = p]
    /\ UNCHANGED <<wallet, entries, credits, payment, price, period>>

ClaimPayment(h) ==
    LET p == webhook[h] IN
    /\ p # None
    /\ webhook' = [webhook EXCEPT ![h] = None]
    /\ IF payment[p] = "paid"
       THEN UNCHANGED <<wallet, credits, payment>>
       ELSE /\ payment' = [payment EXCEPT ![p] = "paid"]
            /\ CreditOnce(PaymentKey(p), PackTokens)
    /\ UNCHANGED <<entries, price, period>>

(* ... and a price that is not clamped to zero.                            *)
ChangePriceUnclamped(j) ==
    /\ \E c \in Prices : price' = [price EXCEPT ![j] = c - 1]
    /\ UNCHANGED <<wallet, entries, credits, payment, webhook, period>>

(* updateMetricDefinitions: a super admin changes or disables a price. *)
ChangePrice(j) ==
    /\ \E c \in Prices : price' = [price EXCEPT ![j] = c]
    /\ UNCHANGED <<wallet, entries, credits, payment, webhook, period>>

NextMonth ==
    /\ period < MaxPeriod
    /\ period' = period + 1
    /\ UNCHANGED <<wallet, entries, credits, payment, webhook, price>>

Reserve(j) == \/ ReserveFree(j)    \/ ReserveAgain(j)
              \/ ReserveRefused(j) \/ ReserveNew(j)

(* What happens to the wallet without a job queue. *)
Cashier ==
    \/ Gift \/ ReadSnapshot \/ NextMonth
    \/ \E p \in Payments : CreatePayment(p)
    \/ \E h \in Webhooks, p \in Payments : ReadPayment(h, p)
    \/ \E h \in Webhooks : ClaimPayment(h)
    \/ \E j \in Jobs : ChangePrice(j)

WalletNext ==
    \/ Cashier
    \/ \E j \in Jobs : Len(entries[j]) < MaxEntries /\ Reserve(j)
    \/ \E j \in Jobs, type \in {"commit", "release"} : Settle(j, type)

WalletSpec == WalletInit /\ [][WalletNext]_walletVars
-----------------------------------------------------------------------------
WalletTypeOK ==
    /\ wallet \in [balance : Int, reserved : Int, consumed : Int]
    /\ entries \in [Jobs -> Seq(JobEntry)]
    /\ credits \subseteq [key : CreditKey, amount : Nat]
    /\ payment \in [Payments -> {"none", "pending", "paid"}]
    /\ webhook \in [Webhooks -> Payments \cup {None}]
    /\ price \in [Jobs -> Prices]
    /\ period \in Nat

(* With BILLING_ENFORCE on, the tokens promised to jobs never exceed the   *)
(* balance: reserve() checks the balance of this moment, and no later      *)
(* commit, release, price change or month can undo the promise.            *)
Solvent == Enforced => Available >= 0

(* A job's ledger rows alternate: no reserve is opened while one is open,  *)
(* and every commit or release closes exactly one reserve, for the amount  *)
(* of that reserve even when the metric's price changed in between.        *)
LedgerAlternates ==
    \A j \in Jobs : \A i \in 1..Len(entries[j]) :
        IF entries[j][i].type = "reserve"
        THEN i > 1 => entries[j][i-1].type # "reserve"
        ELSE /\ i > 1
             /\ entries[j][i-1].type = "reserve"
             /\ entries[j][i-1].amount = entries[j][i].amount

(* The wallet row is the sum of its ledger: what is reserved is what the   *)
(* open reserves hold, and what was credited is either left or consumed.   *)
Balanced ==
    /\ wallet.reserved = SumFunction([j \in Jobs |-> OpenAmount(j)])
    /\ wallet.balance + wallet.consumed
         = SumFunction([c \in credits |-> c.amount])

(* One credit per key: the gift once, one grant a month even when the plan *)
(* changes, and a package exactly when its payment is paid, however often  *)
(* the gateway calls.                                                      *)
CreditedOnce ==
    /\ \A c, d \in credits : c.key = d.key => c = d
    /\ \A p \in Payments : payment[p] = "paid" <=> Credited(PaymentKey(p))
-----------------------------------------------------------------------------
(* The wallet is an account that promises its available tokens to jobs: an *)
(* open reserve is a promise and the key of a credit is a reason.          *)
Promises == [j \in Jobs |-> OpenAmount(j)]
Reasons  == {c.key : c \in credits}

Account == INSTANCE Account WITH
    Holders  <- Jobs,
    Strict   <- Enforced,
    left     <- Available,
    promised <- Promises,
    given    <- Reasons

(* Whatever the order of reserves, settlements, credits and price changes, *)
(* a job spends or gets back what it was promised, and is promised what    *)
(* was left.                                                               *)
KeepsAccount == Account!AccountSpec
=============================================================================
